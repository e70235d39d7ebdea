------------------------------ MODULE SpawnSink ------------------------------
(***************************************************************************)
(* The SQL ExecutionStore as the engine sees it.  SpawnSink answers reads  *)
(* from a mirror in memory and forwards every write over one unbounded     *)
(* channel to one background task, which applies them to the table.  A     *)
(* caller changes the mirror under its lock and sends after the lock is    *)
(* released: these are two steps, and other callers come between them.     *)
(*                                                                         *)
(* All saves of a model are for one execution id (the id of the flow).  A  *)
(* record is abstracted to its state and the run that saved it.            *)
(***************************************************************************)
EXTENDS Integers, Sequences

VARIABLES mirror,   \* the record in the mirror
          chan,     \* the writes not yet taken by the background task
          db,       \* the row of the table
          faults    \* history: "db_error" and "crash", if they happened

sink == <<mirror, chan, db, faults>>

NoRecord == [state |-> "absent", by |-> "nobody"]

SinkInit ==
    /\ mirror = NoRecord
    /\ chan = <<>>
    /\ db = NoRecord
    /\ faults = {}

\* save and remove, up to the release of the lock.
mirror_insert(r) == mirror' = r

mirror_remove == mirror' = NoRecord

\* The other half: the write as the record it leaves in the table.
send(r) == chan' = Append(chan, r)

\* Mutant: each write is a task of its own, and they run in any order.
write_op_any(i, ok) ==
    /\ i \in DOMAIN chan
    /\ db' = IF ok THEN chan[i] ELSE db
    /\ chan' = SubSeq(chan, 1, i - 1) \o SubSeq(chan, i + 1, Len(chan))
    /\ faults' = IF ok THEN faults ELSE faults \cup {"db_error"}
    /\ UNCHANGED mirror

\* Mutant: the task ends with the first error of the database.
write_op_ends(i, ok) ==
    /\ "db_error" \notin faults
    /\ i = 1 /\ chan # <<>>
    /\ db' = IF ok THEN Head(chan) ELSE db
    /\ chan' = Tail(chan)
    /\ faults' = IF ok THEN faults ELSE faults \cup {"db_error"}
    /\ UNCHANGED mirror

\* The task takes the first write and applies it; an error is only logged.
write_op(i, ok) ==
    /\ i = 1 /\ chan # <<>>
    /\ db' = IF ok THEN Head(chan) ELSE db
    /\ chan' = Tail(chan)
    /\ faults' = IF ok THEN faults ELSE faults \cup {"db_error"}
    /\ UNCHANGED mirror

\* The process dies: what was not written is lost, and the mirror of the next
\* process starts empty although the table is not.
sink_crash ==
    /\ mirror' = NoRecord
    /\ chan' = <<>>
    /\ faults' = faults \cup {"crash"}
    /\ UNCHANGED db
=============================================================================
