----------------------------- MODULE StepStream -----------------------------
(***************************************************************************)
(* One step whose handler reports progress through a ProgressHub while it  *)
(* runs, and the clients of the stream.  A StepProgress names the step but *)
(* not the attempt: a listener tells the attempts apart only by where the  *)
(* report falls among the step's events.  The attempt and that place are   *)
(* therefore kept here as history of the event.                            *)
(***************************************************************************)
EXTENDS StepExec, ProgressHub

CONSTANT MaxReports   \* bound: reports of the handler, over all its attempts

\* No retry, the most attempts a u32 can count, and one retry more; a delay
\* whose double passes the largest u64.
MCSteps ==
    [max_retries : {0, U32_MAX - 1, U32_MAX}, has_timeout : BOOLEAN,
     backoff : Strategy, retry_delay_ms : {(U64_MAX + 1) \div 2}]

StreamInit == InitWith(MCSteps) /\ HubInit

\* ProgressReporter::report, called from the handler's future of attempt a:
\* whichever future is alive may be polled and report.
Report(a) ==
    /\ handler[a] = "running"
    /\ reports < MaxReports
    /\ sink([attempt |-> a, at |-> Len(events)])
    /\ UNCHANGED vars

Streaming ==
    \/ \E a \in Attempt : Report(a)
    \/ \E c \in Client : ClientStep(c) /\ UNCHANGED vars

StreamNext ==
    \/ Next /\ UNCHANGED hub
    \/ Streaming

StreamVars == <<vars, hub>>

(***************************************************************************)
(* The executor's timers fire and it moves on.  Only a handler without a   *)
(* timeout is assumed to return: behind one it may wait for ever.  Clients *)
(* may come and go at any time.                                            *)
(***************************************************************************)
StreamSpec ==
    /\ StreamInit
    /\ [][StreamNext]_StreamVars
    /\ WF_StreamVars(Executor /\ UNCHANGED hub)
    /\ WF_StreamVars(TimesOut /\ UNCHANGED hub)
    /\ WF_StreamVars(~step.has_timeout /\ HandlerReturns /\ UNCHANGED hub)

-----------------------------------------------------------------------------
(* Properties. *)

\* The attempts that the first n events name in events of type t.
Named(n, t) == {events[i].attempt : i \in {j \in 1 .. n : events[j].type = t}}

\* Progress falls into the part of the event stream that belongs to its
\* attempt: behind the step_retry of every earlier attempt, before its own
\* step_retry, before any event that says the attempt failed, and before the
\* step's completion.  What a listener shows as the progress of the attempt
\* under way is never that of one that timed out before.
ProgressBetweenEvents ==
    \A c \in Client : \A i \in DOMAIN inbox[c] :
        LET report == inbox[c][i] IN
        /\ report.at \in 1 .. Len(events)
        /\ Named(report.at, "step_retry") = 1 .. report.attempt - 1
        /\ report.attempt \notin Named(report.at, "step_failed")
        /\ Named(report.at, "step_completed") = {}

\* Every step ends, with a result or by a panic or an abort, even if its
\* handler hangs behind a timeout.
StepEnds == <>(pc \in {"done", "panicked", "dropped"})
=============================================================================
