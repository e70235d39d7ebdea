------------------------------ MODULE StepExec ------------------------------
(***************************************************************************)
(* execute_step_with_handler: one step, tried up to max_retries + 1 times. *)
(* An attempt calls the handler and awaits its future, under               *)
(* tokio::time::timeout unless timeout_ms is u64::MAX.  When the timer     *)
(* fires first the future is dropped.  The executor itself may be dropped  *)
(* at an await, by the abort of the task that runs it, and a panic of the  *)
(* handler unwinds through it.                                             *)
(*                                                                         *)
(* Messages, durations and metrics are left out; events keep their type    *)
(* and attempt number.  The widths of the code's integers are parameters.  *)
(***************************************************************************)
EXTENDS Integers, Sequences

CONSTANTS U32_MAX,   \* the largest u32
          U64_MAX,   \* the largest u64
          U64_BITS   \* the width of a u64

ASSUME WidthAssumption ==
    /\ U32_MAX \in Nat \ {0}
    /\ U64_BITS \in Nat
    /\ U64_MAX \in Nat /\ U64_MAX = 2 ^ U64_BITS - 1

\* The arithmetic of 1u64 << n that a proof needs: the powers of two are naturals
\* that grow up to the width of a u64.
ASSUME ShiftAssumption ==
    \A n \in 0 .. U64_BITS : 2 ^ n \in Nat /\ (n > 0 => 2 ^ (n - 1) < 2 ^ n)

Strategy == {"Fixed", "Linear", "Exponential"}

StepDef == [max_retries : 0 .. U32_MAX, has_timeout : BOOLEAN,
            backoff : Strategy, retry_delay_ms : 0 .. U64_MAX]

Attempt == 1 .. U32_MAX

VARIABLES
    step,             \* the StepDef being executed
    overflow_checks,  \* the build panics when integer arithmetic overflows
    pc,               \* where the executor is
    max_attempts,
    attempt,          \* the attempt it is at
    handler,          \* per attempt, what became of the handler's future
    delays,           \* the backoff delays slept so far
    events,           \* the events emitted for this step
    result            \* the StepResult: status, attempts and kind of error

vars == <<step, overflow_checks, pc, max_attempts, attempt, handler, delays, events, result>>

Event(type, a) == [type |-> type, attempt |-> a]

NoResult == [status |-> "none", attempts |-> 0, error |-> "none"]

InitWith(steps) ==
    /\ step \in steps
    /\ overflow_checks \in BOOLEAN
    /\ pc = "start"
    /\ max_attempts = 0
    /\ attempt = 0
    /\ handler = [a \in Attempt |-> "none"]
    /\ delays = <<>>
    /\ events = <<>>
    /\ result = NoResult

Init == InitWith(StepDef)

-----------------------------------------------------------------------------
(* BackoffStrategy::delay_ms: saturating products, and a shift that gives   *)
(* None once the distance reaches the width of the integer.                 *)

saturating_mul(a, b) == IF a * b > U64_MAX THEN U64_MAX ELSE a * b

shl_or_max(n) == IF n < U64_BITS THEN 2 ^ n ELSE U64_MAX

\* Mutant: the product wraps.
delay_ms_wrapping(strategy, base, a) ==
    CASE strategy = "Fixed"       -> base
      [] strategy = "Linear"      -> (base * a) % (U64_MAX + 1)
      [] strategy = "Exponential" -> (base * 2 ^ (a - 1)) % (U64_MAX + 1)

delay_ms(strategy, base, a) ==
    CASE strategy = "Fixed"       -> base
      [] strategy = "Linear"      -> saturating_mul(base, a)
      [] strategy = "Exponential" -> saturating_mul(base, shl_or_max(a - 1))

-----------------------------------------------------------------------------
(* The executor. *)

\* max_retries + 1 in 32 bits: at the largest u32 a checked build panics and
\* an unchecked one goes on with 0 attempts.
Overflows == step.max_retries = U32_MAX

StartOverflow ==
    /\ pc = "start"
    /\ Overflows /\ overflow_checks
    /\ pc' = "panicked"
    /\ UNCHANGED <<step, overflow_checks, max_attempts, attempt, handler, delays, events, result>>

Start ==
    /\ pc = "start"
    /\ ~(Overflows /\ overflow_checks)
    /\ max_attempts' = (step.max_retries + 1) % (U32_MAX + 1)
    /\ attempt' = IF max_attempts' = 0 THEN 0 ELSE 1
    /\ events' = Append(events, Event("step_started", 0))
    /\ pc' = IF max_attempts' = 0 THEN "exhausted" ELSE "attempt"
    /\ UNCHANGED <<step, overflow_checks, handler, delays, result>>

\* The attempt's clock starts and the handler's future is first polled.
Call ==
    /\ pc = "attempt"
    /\ handler' = [handler EXCEPT ![attempt] = "running"]
    /\ pc' = "await"
    /\ UNCHANGED <<step, overflow_checks, max_attempts, attempt, delays, events, result>>

\* The attempt ended as h with an error; evs were emitted for it already.
AttemptFailed(h, evs) ==
    /\ pc = "await"
    /\ handler' = [handler EXCEPT ![attempt] = h]
    /\ IF attempt < max_attempts
       THEN /\ events' = events \o evs \o <<Event("step_retry", attempt)>>
            /\ delays' = Append(delays, delay_ms(step.backoff, step.retry_delay_ms, attempt))
            /\ pc' = "sleep"
       ELSE /\ events' = events \o evs
            /\ pc' = "exhausted"
            /\ UNCHANGED delays
    /\ UNCHANGED <<step, overflow_checks, max_attempts, attempt, result>>

HandlerErr == AttemptFailed("Err", <<>>)

\* Mutant: only the last attempt is given a timer.
TimesOutLast ==
    /\ step.has_timeout
    /\ attempt = max_attempts
    /\ AttemptFailed("timeout", <<Event("step_failed", attempt)>>)

\* Mutant: the timer leaves the handler's future alive.
TimesOutOrphan ==
    /\ step.has_timeout
    /\ AttemptFailed("running", <<Event("step_failed", attempt)>>)

\* The timer fires before the handler's future is ready: the future is dropped.
TimesOut ==
    /\ step.has_timeout
    /\ AttemptFailed("timeout", <<Event("step_failed", attempt)>>)

\* Mutant: the completion is not announced.
HandlerOkSilent ==
    /\ pc = "await"
    /\ handler' = [handler EXCEPT ![attempt] = "Ok"]
    /\ result' = [status |-> "Completed", attempts |-> attempt, error |-> "none"]
    /\ pc' = "done"
    /\ UNCHANGED <<step, overflow_checks, max_attempts, attempt, delays, events>>

HandlerOk ==
    /\ pc = "await"
    /\ handler' = [handler EXCEPT ![attempt] = "Ok"]
    /\ events' = Append(events, Event("step_completed", attempt))
    /\ result' = [status |-> "Completed", attempts |-> attempt, error |-> "none"]
    /\ pc' = "done"
    /\ UNCHANGED <<step, overflow_checks, max_attempts, attempt, delays>>

\* The backoff sleep is over.
Wake ==
    /\ pc = "sleep"
    /\ attempt' = attempt + 1
    /\ pc' = "attempt"
    /\ UNCHANGED <<step, overflow_checks, max_attempts, handler, delays, events, result>>

\* last_error, None when no attempt was made.
last_error == IF attempt = 0 THEN "none" ELSE handler[attempt]

Exhaust ==
    /\ pc = "exhausted"
    /\ events' = Append(events, Event("step_failed", max_attempts))
    /\ result' = [status |-> "Failed", attempts |-> max_attempts,
                  error |-> IF max_attempts > 1 THEN "RetryExhausted" ELSE last_error]
    /\ pc' = "done"
    /\ UNCHANGED <<step, overflow_checks, max_attempts, attempt, handler, delays>>

\* The handler panics and the panic unwinds through the executor.
HandlerPanics ==
    /\ pc = "await"
    /\ handler' = [handler EXCEPT ![attempt] = "panicked"]
    /\ pc' = "panicked"
    /\ UNCHANGED <<step, overflow_checks, max_attempts, attempt, delays, events, result>>

\* The executor's task is aborted: it is dropped where it awaits, and the
\* handler's future with it.
Abort ==
    /\ pc \in {"await", "sleep"}
    /\ handler' = IF pc = "await" THEN [handler EXCEPT ![attempt] = "dropped"] ELSE handler
    /\ pc' = "dropped"
    /\ UNCHANGED <<step, overflow_checks, max_attempts, attempt, delays, events, result>>

Executor == StartOverflow \/ Start \/ Call \/ Wake \/ Exhaust

HandlerReturns == HandlerOk \/ HandlerErr

Next == Executor \/ HandlerReturns \/ TimesOut \/ HandlerPanics \/ Abort

Spec == Init /\ [][Next]_vars

-----------------------------------------------------------------------------
(* Properties. *)

AttemptEnd == {"Ok", "Err", "timeout", "panicked", "dropped"}

TypeOK ==
    /\ step \in StepDef
    /\ overflow_checks \in BOOLEAN
    /\ pc \in {"start", "attempt", "await", "sleep", "exhausted", "done", "panicked", "dropped"}
    /\ max_attempts \in 0 .. U32_MAX
    /\ attempt \in 0 .. max_attempts
    /\ handler \in [Attempt -> {"none", "running"} \cup AttemptEnd]
    /\ delays \in Seq(Nat)
    /\ events \in Seq([type : {"step_started", "step_completed", "step_failed", "step_retry"},
                       attempt : 0 .. U32_MAX])
    /\ result \in [status : {"none", "Completed", "Failed"}, attempts : 0 .. U32_MAX,
                   error : {"none", "RetryExhausted", "Err", "timeout"}]

\* A handler's future lives only while the executor awaits it: no attempt runs
\* beside a later one, and none outlives the step.
NoOrphan == \A a \in Attempt : handler[a] = "running" <=> pc = "await" /\ a = attempt

\* The StepResult is that of the attempt it names.  Completed after k attempts:
\* attempt k answered Ok, the ones before failed or timed out, none followed.
\* Failed: every attempt the step was given failed or timed out, all
\* max_retries + 1 of them unless that sum overflowed.
ResultOfItsAttempt ==
    /\ result.status = "Completed" =>
          /\ handler[result.attempts] = "Ok"
          /\ \A a \in Attempt : a < result.attempts => handler[a] \in {"Err", "timeout"}
          /\ \A a \in Attempt : a > result.attempts => handler[a] = "none"
    /\ result.status = "Failed" =>
          /\ ~Overflows => result.attempts = step.max_retries + 1
          /\ \A a \in Attempt : IF a <= result.attempts THEN handler[a] \in {"Err", "timeout"}
                                                        ELSE handler[a] = "none"

\* The state is well typed, no handler outlives its attempt, and a result is
\* that of the attempt it names.
Inv == TypeOK /\ NoOrphan /\ ResultOfItsAttempt

\* The events tell the story of the step: started first and once, one retry
\* for every attempt but the last, one failure for every attempt that timed
\* out, and the terminal event of the result last; a step that panicked or was
\* dropped announces no completion.
EventsMatchResult ==
    LET of(t) == {i \in DOMAIN events : events[i].type = t}
        last  == events[Len(events)]
    IN  /\ of("step_started") \subseteq {1}
        /\ of("step_completed") # {} <=> result.status = "Completed"
        /\ result # NoResult =>
              /\ of("step_started") = {1}
              /\ {events[i].attempt : i \in of("step_retry")} = 1 .. result.attempts - 1
              /\ {events[i].attempt : i \in of("step_failed") \ {Len(events)}}
                    = {a \in 1 .. result.attempts : handler[a] = "timeout"}
              /\ last = Event(IF result.status = "Completed" THEN "step_completed"
                                                             ELSE "step_failed",
                              result.attempts)

\* The backoff delays of a step never shrink from one retry to the next and
\* never pass the largest u64: a product that is too large stays at the top
\* instead of wrapping into a short delay.
DelaysGrow ==
    \A i \in DOMAIN delays :
        /\ delays[i] <= U64_MAX
        /\ i > 1 => delays[i] >= delays[i - 1]

-----------------------------------------------------------------------------
(***************************************************************************)
(* The inductive invariant: where the executor is decides what its         *)
(* attempts, its events and its result look like.                          *)
(***************************************************************************)
Failure == {"Err", "timeout"}

Stages ==
    /\ pc = "start" => /\ max_attempts = 0 /\ delays = <<>> /\ events = <<>>
    /\ pc \notin {"start", "panicked"} =>
          max_attempts = IF Overflows THEN 0 ELSE step.max_retries + 1
    /\ pc \in {"attempt", "await", "sleep"} => attempt > 0
    /\ pc = "sleep" => attempt < max_attempts
    /\ pc = "exhausted" => attempt = max_attempts
    /\ pc = "done" <=> result # NoResult

Attempts ==
    /\ \A a \in Attempt : a < attempt => handler[a] \in Failure
    /\ \A a \in Attempt : a > attempt => handler[a] = "none"
    /\ attempt > 0 =>
          handler[attempt] \in CASE pc = "attempt" -> {"none"}
                                 [] pc = "await" -> {"running"}
                                 [] pc \in {"sleep", "exhausted"} -> Failure
                                 [] pc = "dropped" -> Failure \cup {"dropped"}
                                 [] pc = "panicked" -> {"panicked"}
                                 [] pc = "done" -> Failure \cup {"Ok"}
                                 [] OTHER -> {}

ResultFits ==
    pc = "done" =>
        \/ /\ result = [status |-> "Completed", attempts |-> attempt, error |-> "none"]
           /\ attempt > 0 /\ handler[attempt] = "Ok"
        \/ /\ result.status = "Failed" /\ result.attempts = attempt /\ attempt = max_attempts
           /\ attempt > 0 => handler[attempt] \in Failure

\* The events without the one that announces the result.
Story == IF pc = "done" THEN SubSeq(events, 1, Len(events) - 1) ELSE events

Of(evs, t) == {i \in DOMAIN evs : evs[i].type = t}

AttemptsOf(evs, t) == {evs[i].attempt : i \in Of(evs, t)}

StoryFits ==
    /\ Of(Story, "step_started") = IF Story = <<>> THEN {} ELSE {1}
    /\ Of(Story, "step_completed") = {}
    /\ pc \notin {"start", "panicked"} => Story # <<>>
    /\ AttemptsOf(Story, "step_failed") = {a \in Attempt : handler[a] = "timeout"}
    /\ pc \notin {"dropped", "panicked"} =>
          AttemptsOf(Story, "step_retry") = 1 .. (IF pc = "sleep" THEN attempt ELSE attempt - 1)
    /\ pc = "done" =>
          /\ events # <<>>
          /\ events[Len(events)] = Event(IF result.status = "Completed" THEN "step_completed"
                                                                        ELSE "step_failed",
                                         attempt)

\* The i-th delay is the one the strategy gives for attempt i.
DelaysFit ==
    /\ \A i \in DOMAIN delays : delays[i] = delay_ms(step.backoff, step.retry_delay_ms, i)
    /\ pc \in {"attempt", "await"} => Len(delays) = attempt - 1
    /\ pc = "sleep" => Len(delays) = attempt

IInv ==
    /\ TypeOK
    /\ Stages
    /\ Attempts
    /\ ResultFits
    /\ StoryFits
    /\ DelaysFit

=============================================================================
