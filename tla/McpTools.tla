------------------------------ MODULE McpTools -------------------------------
(***************************************************************************)
(* Tools of the MCP server that reach the file system, the network and     *)
(* other processes, called by several clients at once on one file and one  *)
(* key of the network pool.  A client follows the answer's                 *)
(* _meta.retryable: it repeats a call while it is told to.  Besides calls  *)
(* that fail now and then there are calls that can never succeed: "futile" *)
(* ones, like an unknown command, a host that does not resolve or a text   *)
(* that is not UTF-8, and "slow" commands that outlast their timeout.      *)
(*                                                                         *)
(* External, from how the tools use them: tokio::fs::write opens with      *)
(* truncation and then writes from the start; tokio's File hands a write   *)
(* to a background thread and answers at once, and the tool drops it       *)
(* without a flush; Command::output that is dropped leaves the child be.   *)
(***************************************************************************)
EXTENDS Integers, Sequences, FiniteSets, SequencesExt

CONSTANTS Client,
          Requests,    \* the calls a client makes: [tool, args]
          MaxCalls,    \* bound: calls of each client, retries not counted
          NetBurst,    \* size of the bucket of a pool key
          MaxFaults,   \* bound: transient failures in a behaviour
          MaxChildren  \* bound: orphaned processes told apart

ASSUME ToolsAssumption ==
    /\ MaxCalls \in Nat /\ NetBurst \in Nat \ {0} /\ MaxFaults \in Nat
    /\ MaxChildren \in Nat \ {0} /\ Requests # {}

VARIABLES
    fpc,        \* client -> "idle", "check", "op", "fill", "answered", "done"
    req,        \* client -> its request
    calls,      \* client -> number of its calls
    reply,      \* client -> the answer it has, "none", "Ok" or an error code
    saw,        \* client -> the text of that answer, if it is one of file_read
    exists,     \* the file is there
    file,       \* its pieces, in order
    pending,    \* appended pieces in the hands of the background thread
    lost,       \* appended pieces whose write failed there
    owed,       \* pieces acknowledged and not overwritten since (history)
    tokens,     \* bucket of the network pool
    children,   \* processes that outlived the call that started them
    faults      \* transient failures so far

fvars == <<fpc, req, calls, reply, saw, exists, file, pending, lost, owed,
           tokens, children, faults>>

Piece == [by : Client, call : 1 .. MaxCalls]

\* What a client writes in its current call.
Written(c) == [by |-> c, call |-> calls[c]]

FileTool == {"file_read", "file_write", "file_append", "dir_list", "file_stat", "path_exists"}

NetTool == {"http", "dns_lookup", "port_check"}

\* The tools that answer a failure as a result, with open, found or exists false.
Tolerant == {"port_check", "which", "path_exists"}

\* A request that fails each time it is tried.
Hopeless(r) == r.args \in {"futile", "slow"}

-----------------------------------------------------------------------------
(* Answers. *)

McpErrorCode == {"validation", "not_found", "permission_denied", "timeout", "io_error", "internal"}

\* Mutant: every error is called retryable.
is_retryable_always(code) == code \in McpErrorCode

is_retryable(code) == code \in {"timeout", "io_error", "internal"}

Answer(c, r) ==
    /\ reply' = [reply EXCEPT ![c] = r]
    /\ fpc' = [fpc EXCEPT ![c] = "answered"]

\* The path is outside the working directory, or its parent does not exist.
validate_path(r) == IF r.args = "bad_path" THEN "permission_denied" ELSE "Ok"

\* is_safe_url and the scheme of the url.
UrlCheck(r) ==
    CASE r.args = "bad_scheme" -> "validation"
      [] r.args = "blocked_host" -> "permission_denied"
      [] OTHER -> "Ok"

\* What the tool checks before it does anything.
Check(r) ==
    IF r.args = "missing_field" THEN "validation"
    ELSE IF r.tool \in FileTool \cup {"exec"} THEN validate_path(r)
    ELSE IF r.tool = "http" THEN UrlCheck(r)
    ELSE "Ok"

-----------------------------------------------------------------------------

FInit ==
    /\ fpc = [c \in Client |-> "idle"]
    /\ req = [c \in Client |-> CHOOSE r \in Requests : TRUE]
    /\ calls = [c \in Client |-> 0]
    /\ reply = [c \in Client |-> "none"]
    /\ saw = [c \in Client |-> <<>>]
    /\ exists \in BOOLEAN /\ file = <<>>
    /\ pending = {} /\ lost = {} /\ owed = {}
    /\ tokens = NetBurst
    /\ children = 0
    /\ faults = 0

FileUnchanged == UNCHANGED <<exists, file, pending, lost, owed>>

\* A new call, or none any more.
Send(c, r) ==
    /\ fpc[c] = "idle"
    /\ IF calls[c] < MaxCalls
       THEN /\ fpc' = [fpc EXCEPT ![c] = "check"]
            /\ req' = [req EXCEPT ![c] = r]
            /\ calls' = [calls EXCEPT ![c] = @ + 1]
       ELSE /\ fpc' = [fpc EXCEPT ![c] = "done"]
            /\ UNCHANGED <<req, calls>>
    /\ UNCHANGED <<reply, saw, tokens, children, faults>> /\ FileUnchanged

\* The client reads the answer: once more, or on to the next call.
Heed(c) ==
    /\ fpc[c] = "answered"
    /\ fpc' = [fpc EXCEPT ![c] = IF is_retryable(reply[c]) THEN "check" ELSE "idle"]
    /\ reply' = [reply EXCEPT ![c] = "none"]
    /\ saw' = [saw EXCEPT ![c] = <<>>]
    /\ UNCHANGED <<req, calls, tokens, children, faults>> /\ FileUnchanged

Refuse(c) ==
    /\ fpc[c] = "check"
    /\ Check(req[c]) # "Ok"
    /\ Answer(c, Check(req[c]))
    /\ UNCHANGED <<req, calls, saw, tokens, children, faults>> /\ FileUnchanged

Pass(c) ==
    /\ fpc[c] = "check"
    /\ Check(req[c]) = "Ok" /\ req[c].tool \notin NetTool
    /\ fpc' = [fpc EXCEPT ![c] = "op"]
    /\ UNCHANGED <<req, calls, reply, saw, tokens, children, faults>> /\ FileUnchanged

\* NETWORK_POOL; the headers of http are looked at when the token is gone.  A
\* host that does not answer has a key of its own, not the one that is counted.
CheckPool(c) ==
    /\ fpc[c] = "check"
    /\ Check(req[c]) = "Ok" /\ req[c].tool \in NetTool
    /\ \/ /\ Hopeless(req[c])
          /\ fpc' = [fpc EXCEPT ![c] = "op"] /\ UNCHANGED <<reply, tokens>>
       \/ /\ ~Hopeless(req[c])
          /\ tokens = 0 /\ Answer(c, "timeout") /\ UNCHANGED tokens
       \/ /\ ~Hopeless(req[c])
          /\ tokens > 0 /\ tokens' = tokens - 1
          /\ IF req[c].args = "bad_header"
             THEN Answer(c, "validation")
             ELSE fpc' = [fpc EXCEPT ![c] = "op"] /\ UNCHANGED reply
    /\ UNCHANGED <<req, calls, saw, children, faults>> /\ FileUnchanged

\* Time gives the pool a token back.
RefillPool ==
    /\ tokens < NetBurst
    /\ tokens' = tokens + 1
    /\ UNCHANGED <<fpc, req, calls, reply, saw, children, faults>> /\ FileUnchanged

At(c, tool) == fpc[c] = "op" /\ req[c].tool = tool /\ ~Hopeless(req[c])

FileRead(c) ==
    /\ At(c, "file_read")
    /\ IF exists
       THEN Answer(c, "Ok") /\ saw' = [saw EXCEPT ![c] = file]
       ELSE Answer(c, "io_error") /\ UNCHANGED saw
    /\ UNCHANGED <<req, calls, tokens, children, faults>> /\ FileUnchanged

FileStat(c) ==
    /\ At(c, "file_stat")
    /\ Answer(c, IF exists THEN "Ok" ELSE "io_error")
    /\ UNCHANGED <<req, calls, saw, tokens, children, faults>> /\ FileUnchanged

\* The directory that the file is in, or would be: it is there.
DirList(c) ==
    /\ At(c, "dir_list")
    /\ Answer(c, "Ok")
    /\ UNCHANGED <<req, calls, saw, tokens, children, faults>> /\ FileUnchanged

\* A path that is not there is an answer of its own.
PathExists(c) ==
    /\ At(c, "path_exists")
    /\ Answer(c, "Ok")
    /\ UNCHANGED <<req, calls, saw, tokens, children, faults>> /\ FileUnchanged

\* FileWrite, first half of tokio::fs::write: create or truncate.
Truncate(c) ==
    /\ At(c, "file_write")
    /\ exists' = TRUE /\ file' = <<>> /\ owed' = {}
    /\ fpc' = [fpc EXCEPT ![c] = "fill"]
    /\ UNCHANGED <<req, calls, reply, saw, pending, lost, tokens, children, faults>>

Overlay(f, p) == IF f = <<>> THEN <<p>> ELSE [f EXCEPT ![1] = p]

\* Second half: write from the start of the file, over what came in between.
Fill(c) ==
    /\ fpc[c] = "fill"
    /\ file' = Overlay(file, Written(c))
    /\ owed' = {Written(c)}
    /\ Answer(c, "Ok")
    /\ UNCHANGED <<req, calls, saw, exists, pending, lost, tokens, children, faults>>

\* FileWrite with append: open creates the file, write_all answers at once.
AppendTo(c) ==
    /\ At(c, "file_append")
    /\ exists' = TRUE
    /\ pending' = pending \cup {Written(c)}
    /\ owed' = owed \cup {Written(c)}
    /\ Answer(c, "Ok")
    /\ UNCHANGED <<req, calls, saw, file, lost, tokens, children, faults>>

\* Mutant: the file was opened for writing, not for appending.
LandOver(p) ==
    /\ p \in pending
    /\ pending' = pending \ {p}
    /\ file' = Overlay(file, p)
    /\ UNCHANGED <<fpc, req, calls, reply, saw, exists, lost, owed, tokens, children, faults>>

\* The background thread writes at the end of the file.
Land(p) ==
    /\ p \in pending
    /\ pending' = pending \ {p}
    /\ file' = Append(file, p)
    /\ UNCHANGED <<fpc, req, calls, reply, saw, exists, lost, owed, tokens, children, faults>>

\* HttpRequest, DnsLookup and PortCheck, Exec and Which when all goes well.
Complete(c) ==
    /\ \E tool \in NetTool \cup {"exec", "which"} : At(c, tool)
    /\ Answer(c, "Ok")
    /\ UNCHANGED <<req, calls, saw, tokens, children, faults>> /\ FileUnchanged

AnswerFailure(c) == Answer(c, IF req[c].tool \in Tolerant THEN "Ok" ELSE "io_error")

\* An I/O error that does not last.
Failure(c) ==
    /\ faults < MaxFaults /\ faults' = faults + 1
    /\ fpc[c] \in {"op", "fill"}
    /\ AnswerFailure(c)
    /\ UNCHANGED <<req, calls, saw, tokens, children>> /\ FileUnchanged

\* One that does: the answer is the same.
Futile(c) ==
    /\ fpc[c] = "op" /\ req[c].args = "futile"
    /\ AnswerFailure(c)
    /\ UNCHANGED <<req, calls, saw, tokens, children, faults>> /\ FileUnchanged

\* A write fails in the background: nobody is told.
FailLanding(p) ==
    /\ faults < MaxFaults /\ faults' = faults + 1
    /\ p \in pending
    /\ pending' = pending \ {p} /\ lost' = lost \cup {p}
    /\ UNCHANGED <<fpc, req, calls, reply, saw, exists, file, owed, tokens, children>>

\* The timeout of Exec: the child goes on, and the client is told to retry.
TimeOut(c) ==
    /\ fpc[c] = "op" /\ req[c].tool = "exec"
    /\ \/ req[c].args = "slow" /\ UNCHANGED faults
       \/ ~Hopeless(req[c]) /\ faults < MaxFaults /\ faults' = faults + 1
    /\ children' = IF children < MaxChildren THEN children + 1 ELSE children
    /\ Answer(c, "timeout")
    /\ UNCHANGED <<req, calls, saw, tokens>> /\ FileUnchanged

ChildExits ==
    /\ children > 0
    /\ children' = children - 1
    /\ UNCHANGED <<fpc, req, calls, reply, saw, tokens, faults>> /\ FileUnchanged

ToolStep(c) ==
    \/ Refuse(c) \/ Pass(c) \/ CheckPool(c)
    \/ FileRead(c) \/ FileStat(c) \/ DirList(c) \/ PathExists(c)
    \/ Truncate(c) \/ Fill(c) \/ AppendTo(c)
    \/ Complete(c) \/ Failure(c) \/ Futile(c) \/ TimeOut(c)

\* What a client and its call do.
Proceed(c) == Heed(c) \/ ToolStep(c) \/ \E r \in Requests : Send(c, r)

FNext ==
    \/ \E c \in Client : Proceed(c)
    \/ \E p \in pending : Land(p) \/ FailLanding(p)
    \/ RefillPool
    \/ ChildExits

FSpec == FInit /\ [][FNext]_fvars

-----------------------------------------------------------------------------
(* Properties. *)

FTypeOK ==
    /\ fpc \in [Client -> {"idle", "check", "op", "fill", "answered", "done"}]
    /\ req \in [Client -> Requests]
    /\ calls \in [Client -> 0 .. MaxCalls]
    /\ reply \in [Client -> {"none", "Ok"} \cup McpErrorCode]
    /\ exists \in BOOLEAN /\ file \in Seq(Piece)
    /\ saw \in [Client -> Seq(Piece)]
    /\ pending \subseteq Piece /\ lost \subseteq Piece /\ owed \subseteq Piece
    /\ tokens \in 0 .. NetBurst
    /\ children \in 0 .. MaxChildren /\ faults \in 0 .. MaxFaults

\* A write that was acknowledged is in the file until somebody overwrites it,
\* whoever appends at the same time, except for an append the background thread
\* still has or could not write; and no piece is in the file twice.
WritesSurvive ==
    /\ FTypeOK
    /\ \A i, j \in DOMAIN file : file[i] = file[j] => i = j
    /\ owed \subseteq ToSet(file) \cup pending \cup lost
    /\ file # <<>> => exists

\* A client that repeats a call for a file that is not there: the tools answer
\* io_error, which is retryable, and never not_found.
AwaitsFile(c) == req[c].tool \in {"file_read", "file_stat"} /\ ~exists

\* A client that repeats what can never succeed: a permanent failure is answered
\* with io_error or timeout too.
Circles(c) == Hopeless(req[c]) /\ req[c].tool \notin Tolerant

\* The test file_write_append: what file_read returns after an append was
\* answered contains the appended text.
ReadAfterWrite ==
    \A c \in Client :
        fpc[c] = "answered" /\ req[c].tool = "file_read" /\ reply[c] = "Ok" =>
            \A p \in owed : p.by = c => p \in ToSet(saw[c])

-----------------------------------------------------------------------------
(***************************************************************************)
(* The inductive invariant of WritesSurvive.                               *)
(***************************************************************************)

\* The call of a client is at work, or will be once more.
Underway(c) ==
    fpc[c] \in {"check", "op", "fill"} \/ (fpc[c] = "answered" /\ is_retryable(reply[c]))

\* What a call has yet to write was not written before: a retry repeats only what
\* had no effect on the file, and an append is in one place at a time.
WrittenOnce ==
    /\ \A p \in ToSet(file) \cup pending : p.call <= calls[p.by]
    /\ \A c \in Client : Underway(c) => /\ calls[c] > 0
                                        /\ Written(c) \notin ToSet(file) \cup pending
    /\ ToSet(file) \cap pending = {}

\* Whoever writes has created the file.
Created == (pending # {} \/ \E c \in Client : fpc[c] = "fill") => exists

FIInv == WritesSurvive /\ WrittenOnce /\ Created
=============================================================================
