--------------------------- MODULE EngineRunProofs ---------------------------
(***************************************************************************)
(* The engine's run sequence, for any set of calls, any engines and any    *)
(* number of steps: IInv is inductive.  What a call reports, undoes and    *)
(* saves agrees, and the SQL store's table follows its mirror.             *)
(***************************************************************************)
EXTENDS EngineRun, SequenceTheorems, TLAPS

(***************************************************************************)
(* Frames: what a step leaves alone.                                       *)
(***************************************************************************)

\* What is derived from a call's results, rollbacks and flags changes with them only.
LEMMA Derived ==
  ASSUME NEW d \in Call, setup' = setup, entry' = entry
  PROVE  /\ Queued(d)' <=> Queued(d)
         /\ PersistsStart(d)' <=> PersistsStart(d)
         /\ PersistsEnd(d)' <=> PersistsEnd(d)
         /\ results'[d] = results[d] =>
               /\ HasFailures(d)' <=> HasFailures(d)
               /\ ToUndo(d)' = ToUndo(d)
               /\ MayRollBack(d)' <=> MayRollBack(d)
         /\ undone'[d] = undone[d] => Undone(d)' = Undone(d)
         /\ results'[d] = results[d] /\ all'[d] = all[d] => FinalState(d)' = FinalState(d)
         /\ results'[d] = results[d] /\ all'[d] = all[d] /\ cancelled'[d] = cancelled[d] =>
               /\ Success(d)' = Success(d)
               /\ RolledBack(d)' = RolledBack(d)
               /\ TerminalEvents(d)' = TerminalEvents(d)
<1>1. /\ Queued(d)' <=> Queued(d)
      /\ PersistsStart(d)' <=> PersistsStart(d)
      /\ PersistsEnd(d)' <=> PersistsEnd(d)
  BY DEF Queued, PersistsStart, PersistsEnd
<1>2. ASSUME results'[d] = results[d]
      PROVE  /\ HasFailures(d)' <=> HasFailures(d)
             /\ ToUndo(d)' = ToUndo(d)
             /\ MayRollBack(d)' <=> MayRollBack(d)
  BY <1>2 DEF HasFailures, ToUndo, MayRollBack
<1>3. undone'[d] = undone[d] => Undone(d)' = Undone(d)
  BY DEF Undone
<1>4. ASSUME results'[d] = results[d], all'[d] = all[d] PROVE FinalState(d)' = FinalState(d)
  BY <1>2, <1>4 DEF FinalState
<1>5. ASSUME results'[d] = results[d], all'[d] = all[d], cancelled'[d] = cancelled[d]
      PROVE  /\ Success(d)' = Success(d)
             /\ RolledBack(d)' = RolledBack(d)
             /\ TerminalEvents(d)' = TerminalEvents(d)
  <2>1. Success(d)' = Success(d) /\ RolledBack(d)' = RolledBack(d)
    BY <1>2, <1>5 DEF Success, RolledBack
  <2>2. FailReason(d)' = FailReason(d)
    BY <1>1, <1>5, <2>1 DEF FailReason
  <2> QED
    BY <2>1, <2>2 DEF TerminalEvents
<1> QED
  BY <1>1, <1>2, <1>3, <1>4, <1>5

\* The step leaves call d's own state alone, but for its label.
SameCall(d) ==
    /\ results'[d] = results[d] /\ cancelled'[d] = cancelled[d] /\ undone'[d] = undone[d]
    /\ all'[d] = all[d] /\ events'[d] = events[d] /\ answer'[d] = answer[d]

\* What a record of call d relies on is not taken back.
Kept(d) ==
    /\ events[d] # <<>> => events'[d] # <<>>
    /\ Finished(d) => Finished(d)' /\ FinalState(d)' = FinalState(d)

LEMMA SameKept ==
  ASSUME NEW d \in Call, setup' = setup, entry' = entry, SameCall(d)
  PROVE  Kept(d)
BY Derived DEF SameCall, Kept, Finished

LEMMA Frame ==
  ASSUME NEW d \in Call, setup' = setup, entry' = entry, SameCall(d), pc'[d] = pc[d],
         Story(d), Rollback(d)
  PROVE  Story(d)' /\ Rollback(d)'
<1>0. /\ PersistsStart(d)' <=> PersistsStart(d)
      /\ PersistsEnd(d)' <=> PersistsEnd(d)
      /\ ToUndo(d)' = ToUndo(d) /\ (MayRollBack(d)' <=> MayRollBack(d))
      /\ Undone(d)' = Undone(d)
      /\ Success(d)' = Success(d) /\ RolledBack(d)' = RolledBack(d)
      /\ TerminalEvents(d)' = TerminalEvents(d)
  BY Derived DEF SameCall
<1>1. Story(d)'
  BY <1>0 DEF Story, Finished, SameCall
<1>2. UndoneFirst(d)'
  BY <1>0 DEF Rollback, UndoneFirst, SameCall
<1>3. Rollback(d)'
  BY <1>0, <1>2 DEF Rollback, Finished, SameCall
<1> QED
  BY <1>1, <1>3

\* Steps that neither take nor drop a heartbeat.
LEMMA Hearts ==
  ASSUME Beats, SeenWhileRunning, heartbeat' = heartbeat, setup' = setup, entry' = entry,
         \A d \in Call : pc[d] \in Guarded => pc'[d] \in Guarded,
         \A d \in Call : pc'[d] \in {"execute", "finalize", "rollback", "report"} =>
                            pc[d] \in {"execute", "finalize", "rollback", "report"}
  PROVE  Beats' /\ SeenWhileRunning'
BY DEF Beats, SeenWhileRunning

LEMMA StillTruthful ==
  ASSUME NEW r, Truthful(r), setup' = setup, entry' = entry, \A d \in Call : Kept(d)
  PROVE  Truthful(r)'
BY Derived DEF Truthful, Kept

\* Steps that touch neither the mirror nor the channel nor the table.
LEMMA Quiet ==
  ASSUME IInv, setup' = setup, entry' = entry, sink' = sink, remover' = remover, overlap' = overlap,
         \A d \in Call : Kept(d),
         \A d \in Call : pc[d] \in Sending \/ pc'[d] \in Sending => pc'[d] = pc[d],
         \A d \in Call : PersistsStart(d) /\ ~Queued(d) /\ pc[d] \in Unsaved => pc'[d] \in Unsaved
  PROVE  Records' /\ InOrder' /\ Pending'
<1>0. mirror' = mirror /\ chan' = chan /\ db' = db /\ faults' = faults
  BY DEF sink
<1>1. Records'
  <2>1. Truthful(mirror)' /\ Truthful(db)' /\ \A i \in DOMAIN chan' : Truthful(chan[i])'
    <3>1. \A r : Truthful(r) => Truthful(r)'
      BY StillTruthful
    <3> QED
      BY <1>0, <3>1 DEF IInv, Records
  <2>2. mirror.state = "Running" => Queued(mirror.by)' \/ pc'[mirror.by] \in Unsaved
    <3> SUFFICES ASSUME mirror.state = "Running"
                 PROVE  Queued(mirror.by)' \/ pc'[mirror.by] \in Unsaved
      OBVIOUS
    <3>0. mirror.by \in Call
      BY DEF IInv, Records, Truthful, NoRecord
    <3>1. PICK c \in Call : c = mirror.by
      BY <3>0
    <3>2. PersistsStart(c) /\ (Queued(c) \/ pc[c] \in Unsaved)
      BY <3>1 DEF IInv, Records, Truthful, NoRecord
    <3>3. Queued(c)' \/ pc'[c] \in Unsaved
      BY <3>2, Derived
    <3> QED
      BY <1>0, <3>1, <3>3 DEF Queued
  <2> QED
    BY <1>0, <2>1, <2>2 DEF Records
<1>2. InOrder'
  BY <1>0 DEF IInv, InOrder, Later
<1>3. Pending'
  <2>1. \A d \in Call : pc[d] = "send_end" => FinalState(d)' = FinalState(d)
    BY DEF IInv, Story, Kept
  <2>2. \A d \in Call : pc'[d] \in Sending => pc[d] \in Sending /\ ToSend(d)' = ToSend(d)
    BY <2>1 DEF ToSend, Sending
  <2>3. InBetween' <=> InBetween
    BY DEF InBetween
  <2>4. LastWrite' = LastWrite
    BY <1>0 DEF LastWrite
  <2> QED
    BY <1>0, <2>2, <2>3, <2>4 DEF IInv, Pending
<1> QED
  BY <1>1, <1>2, <1>3

(***************************************************************************)
(* Steps of one call: its own state.                                       *)
(***************************************************************************)

LEMMA CallStep ==
  ASSUME IInv, NEW c \in Call, setup' = setup, entry' = entry,
         \A d \in Call \ {c} : SameCall(d) /\ pc'[d] = pc[d],
         Story(c)', Rollback(c)', Kept(c)
  PROVE  /\ \A d \in Call : Story(d)' /\ Rollback(d)'
         /\ \A d \in Call : Kept(d)
<1>1. ASSUME NEW d \in Call, d # c PROVE Story(d)' /\ Rollback(d)' /\ Kept(d)
  <2>1. SameCall(d) /\ pc'[d] = pc[d] /\ Story(d) /\ Rollback(d)
    BY <1>1 DEF IInv
  <2> QED
    BY <2>1, Frame, SameKept
<1> QED
  BY <1>1

\* The call goes on to label l and its own state stays.
LEMMA Moved ==
  ASSUME IInv, NEW c \in Call, NEW l \in Labels, setup' = setup, entry' = entry, call' = call,
         events' = events, pc' = [pc EXCEPT ![c] = l],
         \/ pc[c] = "send_start" /\ l = "register"
         \/ pc[c] = "send_end" /\ l = "drop_guard"
         \/ pc[c] = "register" /\ l = "execute"
         \/ pc[c] = "rollback" /\ l = "report" /\ ToUndo(c) \subseteq Undone(c)
         \/ pc[c] = "persist" /\ l \in {"send_end", "drop_guard"}
         \/ pc[c] = "drop_guard" /\ l = "done"
         \/ pc[c] \in {"execute", "rollback"} /\ l = "unwound"
  PROVE  /\ pc' \in [Call -> Labels] /\ pc'[c] = l
         /\ \A d \in Call : SameCall(d)
         /\ \A d \in Call \ {c} : pc'[d] = pc[d]
         /\ \A d \in Call : Story(d)' /\ Rollback(d)'
         /\ \A d \in Call : Kept(d)
<1>1. pc' \in [Call -> Labels] /\ pc'[c] = l /\ \A d \in Call \ {c} : pc'[d] = pc[d]
  BY DEF IInv, TypeOK
<1>2. \A d \in Call : SameCall(d)
  BY DEF SameCall, call
<1>3. /\ PersistsStart(c)' <=> PersistsStart(c)
      /\ PersistsEnd(c)' <=> PersistsEnd(c)
      /\ ToUndo(c)' = ToUndo(c) /\ (MayRollBack(c)' <=> MayRollBack(c))
      /\ Undone(c)' = Undone(c)
      /\ Success(c)' = Success(c) /\ RolledBack(c)' = RolledBack(c)
      /\ TerminalEvents(c)' = TerminalEvents(c)
  BY <1>2, Derived DEF SameCall
<1>4. Story(c) /\ Rollback(c)
  BY DEF IInv
<1>5. c \in setup.calls
  BY <1>4 DEF Story
<1>6. Story(c)'
  BY <1>1, <1>2, <1>3, <1>4, <1>5 DEF Story, Finished, SameCall, Working, NoAnswer
<1>7. Rollback(c)'
  <2>1. UndoneFirst(c)'
    BY <1>2, <1>3, <1>4 DEF Rollback, UndoneFirst, SameCall
  <2> QED
    BY <1>1, <1>2, <1>3, <1>4, <2>1 DEF Story, Rollback, Finished, SameCall, Working, NoAnswer
<1>8. Kept(c)
  BY <1>2, SameKept
<1> QED
  BY <1>1, <1>2, <1>6, <1>7, <1>8, CallStep

\* The types that no step of a call but Report, RollbackStep and Execute touches.
LEMMA MovedTypes ==
  ASSUME TypeOK, setup' = setup, entry' = entry, call' = call, events' = events,
         pc' \in [Call -> Labels], heartbeat' \in BOOLEAN, remover' = remover,
         mirror' \in Record, db' = db, chan' \in Seq(Record), faults' = faults
  PROVE  TypeOK'
BY DEF TypeOK, call

LEMMA KeepEndRollback == ASSUME IInv, NEW c \in Call, EndRollback(c) PROVE IInv'
<1>0. /\ pc[c] = "rollback" /\ ToUndo(c) \subseteq Undone(c) /\ pc' = [pc EXCEPT ![c] = "report"]
      /\ setup' = setup /\ entry' = entry /\ call' = call /\ events' = events
      /\ heartbeat' = heartbeat /\ remover' = remover /\ overlap' = overlap /\ sink' = sink
  BY DEF EndRollback, Goto
<1>1. /\ pc' \in [Call -> Labels] /\ pc'[c] = "report"
      /\ \A d \in Call \ {c} : pc'[d] = pc[d]
      /\ \A d \in Call : Story(d)' /\ Rollback(d)'
      /\ \A d \in Call : Kept(d)
  BY <1>0, Moved DEF Labels
<1>2. TypeOK'
  BY <1>0, <1>1, MovedTypes DEF IInv, TypeOK, sink
<1>3. Beats' /\ SeenWhileRunning'
  BY <1>0, <1>1, Hearts DEF IInv, Guarded
<1>4. Records' /\ InOrder' /\ Pending'
  BY <1>0, <1>1, Quiet DEF Sending, Unsaved, Working
<1> QED
  BY <1>1, <1>2, <1>3, <1>4 DEF IInv

LEMMA KeepStartHeartbeat == ASSUME IInv, NEW c \in Call, start_heartbeat(c) PROVE IInv'
<1>0. /\ pc[c] = "register" /\ pc' = [pc EXCEPT ![c] = "execute"]
      /\ setup' = setup /\ entry' = entry /\ call' = call /\ events' = events
      /\ heartbeat' = (heartbeat \/ entry[c] # "distributed")
      /\ remover' = remover /\ overlap' = overlap /\ sink' = sink
  BY DEF start_heartbeat, Goto
<1>1. /\ pc' \in [Call -> Labels] /\ pc'[c] = "execute"
      /\ \A d \in Call \ {c} : pc'[d] = pc[d]
      /\ \A d \in Call : Story(d)' /\ Rollback(d)'
      /\ \A d \in Call : Kept(d)
  BY <1>0, Moved DEF Labels
<1>2. TypeOK'
  BY <1>0, <1>1, MovedTypes DEF IInv, TypeOK, sink
<1>3. Beats' /\ SeenWhileRunning'
  <2>1. Beats'
    BY <1>0, <1>1 DEF IInv, Beats, Guarded
  <2>2. SeenWhileRunning'
    BY <1>0, <1>1 DEF IInv, SeenWhileRunning
  <2> QED
    BY <2>1, <2>2
<1>4. Records' /\ InOrder' /\ Pending'
  BY <1>0, <1>1, Quiet DEF Sending, Unsaved, Working
<1> QED
  BY <1>1, <1>2, <1>3, <1>4 DEF IInv

\* The guard is dropped, at the end of the call or when it is unwound.
LEMMA KeepDropGuard == ASSUME IInv, NEW c \in Call, drop_guard(c) \/ Unwind(c) PROVE IInv'
<1>0. /\ \/ pc[c] = "drop_guard" /\ pc' = [pc EXCEPT ![c] = "done"]
         \/ pc[c] \in {"execute", "rollback"} /\ pc' = [pc EXCEPT ![c] = "unwound"]
      /\ setup' = setup /\ entry' = entry /\ call' = call /\ events' = events
      /\ heartbeat' = (heartbeat /\ entry[c] = "distributed")
      /\ remover' = remover /\ overlap' = overlap /\ sink' = sink
  BY DEF drop_guard, Unwind, Goto
<1>1. /\ pc' \in [Call -> Labels] /\ pc'[c] \in {"done", "unwound"}
      /\ pc[c] \in {"execute", "rollback"} => pc'[c] = "unwound"
      /\ \A d \in Call \ {c} : pc'[d] = pc[d]
      /\ \A d \in Call : Story(d)' /\ Rollback(d)'
      /\ \A d \in Call : Kept(d)
  <2>1. CASE pc[c] = "drop_guard" /\ pc' = [pc EXCEPT ![c] = "done"]
    BY <1>0, <2>1, Moved DEF Labels
  <2>2. CASE pc[c] \in {"execute", "rollback"} /\ pc' = [pc EXCEPT ![c] = "unwound"]
    BY <1>0, <2>2, Moved DEF Labels
  <2> QED
    BY <1>0, <2>1, <2>2
<1>2. TypeOK'
  BY <1>0, <1>1, MovedTypes DEF IInv, TypeOK, sink
<1>3. Beats' /\ SeenWhileRunning'
  <2>1. Beats'
    BY <1>0, <1>1 DEF IInv, Beats, Guarded
  <2>2. SeenWhileRunning'
    <3>1. c \in setup.calls
      BY <1>0 DEF IInv, Story
    <3> QED
      BY <1>0, <1>1, <3>1 DEF IInv, SeenWhileRunning
  <2> QED
    BY <2>1, <2>2
<1>4. Records' /\ InOrder' /\ Pending'
  BY <1>0, <1>1, Quiet DEF Sending, Unsaved, Working
<1> QED
  BY <1>1, <1>2, <1>3, <1>4 DEF IInv

LEMMA KeepReject == ASSUME IInv, NEW c \in Call, Reject(c) PROVE IInv'
<1>0. /\ pc[c] = "called" /\ pc' = [pc EXCEPT ![c] = "done"]
      /\ answer' = [answer EXCEPT ![c].kind = "Err"]
      /\ setup' = setup /\ entry' = entry /\ results' = results /\ cancelled' = cancelled
      /\ undone' = undone /\ all' = all /\ events' = events
      /\ heartbeat' = heartbeat /\ remover' = remover /\ overlap' = overlap /\ sink' = sink
  BY DEF Reject, Goto
<1>1. /\ Story(c) /\ Rollback(c) /\ answer[c] = NoAnswer /\ events[c] = <<>> /\ c \in setup.calls
      /\ answer \in [Call -> [kind : {"none", "Ok", "Err"}, success : BOOLEAN, rolled_back : BOOLEAN]]
  BY <1>0 DEF IInv, Story, TypeOK
<1>2. /\ pc' \in [Call -> Labels] /\ pc'[c] = "done" /\ \A d \in Call \ {c} : pc'[d] = pc[d]
      /\ answer'[c].kind = "Err" /\ \A d \in Call \ {c} : answer'[d] = answer[d]
  BY <1>0, <1>1 DEF IInv, TypeOK, Labels, NoAnswer
<1>3. answer' \in [Call -> [kind : {"none", "Ok", "Err"}, success : BOOLEAN, rolled_back : BOOLEAN]]
  BY <1>0, <1>1
<1>4. TypeOK'
  BY <1>0, <1>2, <1>3 DEF IInv, TypeOK, sink
<1>5. \A d \in Call \ {c} : SameCall(d) /\ pc'[d] = pc[d]
  BY <1>0, <1>2 DEF SameCall
<1>6. Story(c)'
  BY <1>0, <1>1, <1>2 DEF Story, Finished, Working
<1>7. Rollback(c)'
  <2>1. /\ ToUndo(c)' = ToUndo(c) /\ (MayRollBack(c)' <=> MayRollBack(c))
        /\ Undone(c)' = Undone(c)
    BY <1>0, Derived
  <2>2. UndoneFirst(c)'
    BY <1>0, <1>1, <2>1 DEF Rollback, UndoneFirst
  <2> QED
    BY <1>0, <1>1, <1>2, <2>1, <2>2 DEF Rollback, Finished, Working
<1>8. Kept(c)
  BY <1>1 DEF Kept, Finished, NoAnswer
<1>9. /\ \A d \in Call : Story(d)' /\ Rollback(d)'
      /\ \A d \in Call : Kept(d)
  BY <1>0, <1>5, <1>6, <1>7, <1>8, CallStep
<1>10. Beats' /\ SeenWhileRunning'
  BY <1>0, <1>2, Hearts DEF IInv, Guarded
<1>11. Records' /\ InOrder' /\ Pending'
  BY <1>0, <1>2, <1>9, Quiet DEF Sending, Unsaved, Working
<1> QED
  BY <1>4, <1>9, <1>10, <1>11 DEF IInv

\* What the executor returns is about the flow's steps or foreign ones.
LEMMA ResultsTyped ==
  ASSUME TypeOK, NEW c \in Call, NEW R \in ExecutorResults(c)
  PROVE  R \in SUBSET (Ids \X Status)
<1>1. setup.top \subseteq Ids /\ Foreign \in Ids
  BY DEF TypeOK, Setup, Ids
<1>2. Walked(c) \subseteq Ids
  BY <1>1 DEF Walked, Ids
<1>3. CASE R \in SharedQueue(c)
  BY <1>1, <1>3 DEF SharedQueue, Status
<1>4. CASE R \in OnePerStep(c)
  <2>1. PICK st \in [Walked(c) -> Status] : R = {<<s, st[s]>> : s \in Walked(c)}
    BY <1>4 DEF OnePerStep
  <2> QED
    BY <1>2, <2>1
<1>5. CASE R \in Stopped(c)
  <2>1. PICK D \in SUBSET setup.top : \E st \in [D -> Status] : R = {<<s, st[s]>> : s \in D}
    BY <1>5 DEF Stopped
  <2>2. PICK st \in [D -> Status] : R = {<<s, st[s]>> : s \in D}
    BY <2>1
  <2> QED
    BY <1>1, <2>2
<1>6. CASE R \in UsedFleet(c)
  <2>1. PICK D \in SUBSET setup.top, f \in setup.top \cup {Foreign}, left \in {"Completed", "Failed"} :
            \E st \in [D -> Status] : R = {<<s, st[s]>> : s \in D} \cup {<<f, left>>}
    BY <1>6 DEF UsedFleet
  <2>2. PICK st \in [D -> Status] : R = {<<s, st[s]>> : s \in D} \cup {<<f, left>>}
    BY <2>1
  <2>3. left \in Status /\ f \in Ids
    BY <1>1 DEF Status
  <2> QED
    BY <1>1, <2>2, <2>3
<1> QED
  BY <1>3, <1>4, <1>5, <1>6 DEF ExecutorResults

LEMMA KeepExecute ==
  ASSUME IInv, NEW c \in Call, Execute(c)
  PROVE  IInv'
<1>r. PICK R \in ExecutorResults(c), wc \in BOOLEAN :
          /\ wc => entry[c] = "cancellation"
          /\ results' = [results EXCEPT ![c] = R]
          /\ cancelled' = [cancelled EXCEPT ![c] = wc]
  BY DEF Execute
<1>0. /\ pc[c] = "execute" /\ pc' = [pc EXCEPT ![c] = "finalize"]
      /\ results' = [results EXCEPT ![c] = R] /\ cancelled' = [cancelled EXCEPT ![c] = wc]
      /\ wc => entry[c] = "cancellation"
      /\ setup' = setup /\ entry' = entry /\ undone' = undone /\ all' = all
      /\ events' = events /\ answer' = answer
      /\ heartbeat' = heartbeat /\ remover' = remover /\ overlap' = overlap /\ sink' = sink
  BY <1>r DEF Execute, Goto
<1>1. /\ Story(c) /\ Rollback(c) /\ answer[c] = NoAnswer /\ events[c] = <<"flow_started">>
      /\ undone[c] = <<>> /\ c \in setup.calls
  BY <1>0 DEF IInv, Story, Rollback, Working
<1>2. /\ pc' \in [Call -> Labels] /\ pc'[c] = "finalize" /\ \A d \in Call \ {c} : pc'[d] = pc[d]
      /\ cancelled' \in [Call -> BOOLEAN] /\ cancelled'[c] = wc
      /\ \A d \in Call \ {c} : cancelled'[d] = cancelled[d]
      /\ \A d \in Call \ {c} : results'[d] = results[d]
  BY <1>0 DEF IInv, TypeOK, Labels
<1>3. results' \in [Call -> SUBSET (Ids \X Status)]
  <2>1. R \in SUBSET (Ids \X Status)
    BY ResultsTyped DEF IInv
  <2> QED
    BY <1>0, <2>1 DEF IInv, TypeOK
<1>4. TypeOK'
  BY <1>0, <1>2, <1>3 DEF IInv, TypeOK, sink
<1>5. \A d \in Call \ {c} : SameCall(d) /\ pc'[d] = pc[d]
  BY <1>0, <1>2 DEF SameCall
<1>6. Story(c)'
  BY <1>0, <1>1, <1>2 DEF Story, Finished, Working, NoAnswer
<1>7. Rollback(c)'
  <2>1. Undone(c)' = {} /\ undone'[c] = <<>> /\ DOMAIN undone'[c] = {}
    BY <1>0, <1>1 DEF Undone
  <2>2. UndoneFirst(c)'
    BY <2>1 DEF UndoneFirst
  <2> QED
    BY <1>0, <1>1, <1>2, <2>1, <2>2 DEF Rollback, Finished, NoAnswer
<1>8. Kept(c)
  BY <1>0, <1>1 DEF Kept, Finished, NoAnswer
<1>9. /\ \A d \in Call : Story(d)' /\ Rollback(d)'
      /\ \A d \in Call : Kept(d)
  BY <1>0, <1>5, <1>6, <1>7, <1>8, CallStep
<1>10. Beats' /\ SeenWhileRunning'
  BY <1>0, <1>2, Hearts DEF IInv, Guarded
<1>11. Records' /\ InOrder' /\ Pending'
  BY <1>0, <1>2, <1>9, Quiet DEF Sending, Unsaved, Working
<1> QED
  BY <1>4, <1>9, <1>10, <1>11 DEF IInv

LEMMA KeepBeginRollback == ASSUME IInv, NEW c \in Call, BeginRollback(c) PROVE IInv'
<1> DEFINE l == IF MayRollBack(c) THEN "rollback" ELSE "report"
<1>0. /\ pc[c] = "finalize" /\ pc' = [pc EXCEPT ![c] = l]
      /\ all' = [all EXCEPT ![c] = MayRollBack(c)]
      /\ setup' = setup /\ entry' = entry /\ results' = results /\ cancelled' = cancelled
      /\ undone' = undone /\ events' = events /\ answer' = answer
      /\ heartbeat' = heartbeat /\ remover' = remover /\ overlap' = overlap /\ sink' = sink
  BY DEF BeginRollback, Goto, MayRollBack
<1>1. /\ Story(c) /\ Rollback(c) /\ answer[c] = NoAnswer /\ events[c] = <<"flow_started">>
      /\ undone[c] = <<>> /\ c \in setup.calls
  BY <1>0 DEF IInv, Story, Rollback, Working
<1>2. /\ pc' \in [Call -> Labels] /\ pc'[c] = l /\ \A d \in Call \ {c} : pc'[d] = pc[d]
      /\ l \in {"rollback", "report"}
  BY <1>0 DEF IInv, TypeOK, Labels
<1>3. MayRollBack(c) \in BOOLEAN
  BY DEF MayRollBack, HasFailures, IInv, TypeOK, Setup
<1>a. /\ all' \in [Call -> BOOLEAN] /\ all'[c] = MayRollBack(c)
      /\ \A d \in Call \ {c} : all'[d] = all[d]
  <2> HIDE DEF l
  <2> QED
    BY <1>0, <1>3 DEF IInv, TypeOK
<1>4. TypeOK'
  BY <1>0, <1>2, <1>a DEF IInv, TypeOK, sink
<1>5. \A d \in Call \ {c} : SameCall(d) /\ pc'[d] = pc[d]
  BY <1>0, <1>2, <1>a DEF SameCall
<1>6. Story(c)'
  BY <1>0, <1>1, <1>2 DEF Story, Finished, Working, NoAnswer
<1>7. Rollback(c)'
  <2>1. Undone(c)' = {} /\ undone'[c] = <<>> /\ DOMAIN undone'[c] = {}
    BY <1>0, <1>1 DEF Undone
  <2>2. UndoneFirst(c)'
    BY <2>1 DEF UndoneFirst
  <2>3. MayRollBack(c)' <=> MayRollBack(c)
    BY <1>0, Derived
  <2>4. (pc'[c] = "rollback" => MayRollBack(c)) /\ (pc'[c] = "report" => ~MayRollBack(c))
    BY <1>2
  <2>5. all'[c] <=> MayRollBack(c)
    BY <1>a
  <2> HIDE DEF l
  <2> QED
    BY <1>0, <1>1, <1>2, <2>1, <2>2, <2>3, <2>4, <2>5 DEF Rollback, Finished, NoAnswer
<1>8. Kept(c)
  BY <1>0, <1>1 DEF Kept, Finished, NoAnswer
<1>9. /\ \A d \in Call : Story(d)' /\ Rollback(d)'
      /\ \A d \in Call : Kept(d)
  BY <1>0, <1>5, <1>6, <1>7, <1>8, CallStep
<1> HIDE DEF l
<1>10. Beats' /\ SeenWhileRunning'
  BY <1>0, <1>2, Hearts DEF IInv, Guarded
<1>11. Records' /\ InOrder' /\ Pending'
  BY <1>0, <1>2, <1>9, Quiet DEF Sending, Unsaved, Working
<1> QED
  BY <1>4, <1>9, <1>10, <1>11 DEF IInv

\* One more rollback, of the last step that was not undone yet.
LEMMA OneMoreUndone ==
  ASSUME NEW c \in Call, NEW s \in Step, NEW ok \in BOOLEAN,
         undone[c] \in Seq([step : Step, ok : BOOLEAN]),
         undone'[c] = Append(undone[c], [step |-> s, ok |-> ok]),
         setup' = setup, results'[c] = results[c], ToUndo(c) \subseteq Step,
         UndoneFirst(c), s \in ToUndo(c) \ Undone(c), \A u \in ToUndo(c) \ Undone(c) : u <= s
  PROVE  /\ undone'[c] \in Seq([step : Step, ok : BOOLEAN])
         /\ UndoneFirst(c)' /\ undone'[c] # <<>>
         /\ (\A i \in DOMAIN undone'[c] : undone'[c][i].ok)
               <=> (\A i \in DOMAIN undone[c] : undone[c][i].ok) /\ ok
<1> DEFINE n == Len(undone[c])
           x == [step |-> s, ok |-> ok]
<1>1. /\ n \in Nat /\ DOMAIN undone[c] = 1 .. n /\ DOMAIN undone'[c] = 1 .. n + 1
      /\ \A i \in 1 .. n : undone'[c][i] = undone[c][i]
      /\ undone'[c][n + 1] = x
      /\ undone'[c] \in Seq([step : Step, ok : BOOLEAN])
      /\ undone'[c] # <<>>
  OBVIOUS
<1>2. x.step = s /\ x.ok = ok
  OBVIOUS
<1> HIDE DEF n, x
<1>3. /\ \A i \in 1 .. n + 1 : i \in 1 .. n \/ i = n + 1
      /\ 1 .. n \subseteq 1 .. n + 1 /\ n + 1 \in 1 .. n + 1
  BY <1>1
<1>4. Undone(c)' = Undone(c) \cup {s}
  BY <1>1, <1>2, <1>3 DEF Undone
<1>5. ToUndo(c)' = ToUndo(c)
  BY DEF ToUndo
<1>6. \A i, j \in 1 .. n + 1 : i < j => undone'[c][i].step > undone'[c][j].step
  <2> SUFFICES ASSUME NEW i \in 1 .. n + 1, NEW j \in 1 .. n + 1, i < j
               PROVE  undone'[c][i].step > undone'[c][j].step
    OBVIOUS
  <2>1. i \in 1 .. n
    BY <1>1
  <2>2. CASE j \in 1 .. n
    BY <1>1, <2>1, <2>2 DEF UndoneFirst
  <2>3. CASE j = n + 1
    <3>1. undone[c][i].step \in Undone(c) /\ undone'[c][i] = undone[c][i]
      BY <1>1, <2>1 DEF Undone
    <3>2. s < undone[c][i].step
      BY <3>1 DEF UndoneFirst
    <3>3. undone[c][i].step \in Int /\ s \in Int
      <4>1. undone[c][i] \in [step : Step, ok : BOOLEAN]
        BY <1>1, <2>1, ElementOfSeq DEF n
      <4>2. Step \subseteq Int
        BY NAssumption DEF Step
      <4> QED
        BY <4>1, <4>2
    <3> QED
      BY <1>1, <1>2, <2>3, <3>1, <3>2, <3>3
  <2> QED
    BY <1>3, <2>2, <2>3
<1>7. \A u \in ToUndo(c) \ (Undone(c) \cup {s}), v \in Undone(c) \cup {s} : u < v
  <2> SUFFICES ASSUME NEW u \in ToUndo(c) \ (Undone(c) \cup {s}), NEW v \in Undone(c) \cup {s}
               PROVE  u < v
    OBVIOUS
  <2>1. u <= s /\ u # s /\ u \in Int /\ s \in Int
    BY NAssumption DEF Step
  <2>2. CASE v = s
    BY <2>1, <2>2
  <2>3. CASE v \in Undone(c)
    BY <2>3 DEF UndoneFirst
  <2> QED
    BY <2>2, <2>3
<1>8. UndoneFirst(c)'
  BY <1>1, <1>4, <1>5, <1>6, <1>7 DEF UndoneFirst
<1>9. (\A i \in 1 .. n + 1 : undone'[c][i].ok) <=> (\A i \in 1 .. n : undone[c][i].ok) /\ ok
  BY <1>1, <1>2, <1>3
<1> QED
  BY <1>1, <1>8, <1>9

LEMMA KeepRollbackStep ==
  ASSUME IInv, NEW c \in Call, NEW s \in Step, NEW ok \in BOOLEAN, RollbackStep(c, s, ok)
  PROVE  IInv'
<1>0. /\ pc[c] = "rollback" /\ pc' = pc
      /\ s \in ToUndo(c) \ Undone(c) /\ \A u \in ToUndo(c) \ Undone(c) : u <= s
      /\ undone' = [undone EXCEPT ![c] = Append(@, [step |-> s, ok |-> ok])]
      /\ all' = [all EXCEPT ![c] = @ /\ ok]
      /\ setup' = setup /\ entry' = entry /\ results' = results /\ cancelled' = cancelled
      /\ events' = events /\ answer' = answer
      /\ heartbeat' = heartbeat /\ remover' = remover /\ overlap' = overlap /\ sink' = sink
  BY DEF RollbackStep
<1>1. /\ Story(c) /\ Rollback(c) /\ UndoneFirst(c) /\ answer[c] = NoAnswer
      /\ events[c] = <<"flow_started">> /\ c \in setup.calls /\ MayRollBack(c)
      /\ all[c] <=> \A i \in DOMAIN undone[c] : undone[c][i].ok
  BY <1>0 DEF IInv, Story, Rollback, Working
<1>2. /\ undone \in [Call -> Seq([step : Step, ok : BOOLEAN])]
      /\ all \in [Call -> BOOLEAN]
  BY DEF IInv, TypeOK
<1>a. /\ all' \in [Call -> BOOLEAN] /\ (all'[c] <=> all[c] /\ ok)
      /\ \A d \in Call \ {c} : all'[d] = all[d]
  BY <1>0, <1>2
<1>u. /\ undone'[c] = Append(undone[c], [step |-> s, ok |-> ok])
      /\ \A d \in Call \ {c} : undone'[d] = undone[d]
      /\ undone' = [undone EXCEPT ![c] = undone'[c]]
  BY <1>0, <1>2
<1>3. /\ undone'[c] \in Seq([step : Step, ok : BOOLEAN])
      /\ UndoneFirst(c)' /\ undone'[c] # <<>>
      /\ (\A i \in DOMAIN undone'[c] : undone'[c][i].ok)
            <=> (\A i \in DOMAIN undone[c] : undone[c][i].ok) /\ ok
  <2>1. undone[c] \in Seq([step : Step, ok : BOOLEAN]) /\ results'[c] = results[c]
    BY <1>0, <1>2
  <2>2. ToUndo(c) \subseteq Step
    BY DEF ToUndo, IInv, TypeOK, Setup
  <2> QED
    <3>1. /\ undone'[c] = Append(undone[c], [step |-> s, ok |-> ok])
          /\ setup' = setup /\ UndoneFirst(c) /\ s \in ToUndo(c) \ Undone(c)
          /\ \A u \in ToUndo(c) \ Undone(c) : u <= s
      BY <1>0, <1>1, <1>u
    <3> QED
      BY <2>1, <2>2, <3>1, OneMoreUndone
<1>4. undone' \in [Call -> Seq([step : Step, ok : BOOLEAN])]
  BY <1>2, <1>u, <1>3
<1>5. TypeOK'
  BY <1>0, <1>4, <1>a DEF IInv, TypeOK, sink
<1>6. \A d \in Call \ {c} : SameCall(d) /\ pc'[d] = pc[d]
  BY <1>0, <1>u, <1>a DEF SameCall
<1>7. Story(c)'
  <2>1. (PersistsStart(c)' <=> PersistsStart(c)) /\ (PersistsEnd(c)' <=> PersistsEnd(c))
    BY <1>0, Derived
  <2> QED
    BY <1>0, <1>1, <2>1 DEF Story, Finished, Working, NoAnswer
<1>8. Rollback(c)'
  <2>1. MayRollBack(c)'
    BY <1>0, <1>1, Derived
  <2>2. all'[c] <=> \A i \in DOMAIN undone'[c] : undone'[c][i].ok
    BY <1>1, <1>3, <1>a
  <2>3. pc'[c] = "rollback" /\ ~Finished(c)'
    BY <1>0, <1>1 DEF Finished, NoAnswer
  <2> QED
    BY <1>3, <2>1, <2>2, <2>3 DEF Rollback
<1>9. Kept(c)
  BY <1>0, <1>1 DEF Kept, Finished, NoAnswer
<1>10. /\ \A d \in Call : Story(d)' /\ Rollback(d)'
       /\ \A d \in Call : Kept(d)
  BY <1>0, <1>6, <1>7, <1>8, <1>9, CallStep
<1>11. Beats' /\ SeenWhileRunning'
  BY <1>0, Hearts DEF IInv, Guarded
<1>12. Records' /\ InOrder' /\ Pending'
  BY <1>0, <1>10, Quiet DEF Sending, Unsaved, Working
<1> QED
  BY <1>5, <1>10, <1>11, <1>12 DEF IInv

LEMMA KeepReport == ASSUME IInv, NEW c \in Call, Report(c) PROVE IInv'
<1> DEFINE l == IF PersistsEnd(c) THEN "persist" ELSE "drop_guard"
           a == [kind |-> "Ok", success |-> Success(c), rolled_back |-> RolledBack(c)]
<1>0. /\ pc[c] = "report" /\ pc' = [pc EXCEPT ![c] = l]
      /\ events' = [events EXCEPT ![c] = @ \o TerminalEvents(c)]
      /\ answer' = [answer EXCEPT ![c] = a]
      /\ setup' = setup /\ entry' = entry /\ results' = results /\ cancelled' = cancelled
      /\ undone' = undone /\ all' = all
      /\ heartbeat' = heartbeat /\ remover' = remover /\ overlap' = overlap /\ sink' = sink
  BY DEF Report, Goto
<1>1. /\ Story(c) /\ Rollback(c) /\ answer[c] = NoAnswer /\ events[c] = <<"flow_started">>
      /\ c \in setup.calls
  BY <1>0 DEF IInv, Story, Working
<1>2. /\ pc' \in [Call -> Labels] /\ pc'[c] = l /\ \A d \in Call \ {c} : pc'[d] = pc[d]
      /\ l \in {"persist", "drop_guard"} /\ (l = "persist" => PersistsEnd(c))
      /\ PersistsEnd(c) => l = "persist"
  BY <1>0 DEF IInv, TypeOK, Labels
<1>3. Success(c) \in BOOLEAN /\ RolledBack(c) \in BOOLEAN
  BY DEF Success, RolledBack, IInv, TypeOK
<1>4. a \in [kind : {"none", "Ok", "Err"}, success : BOOLEAN, rolled_back : BOOLEAN] /\ a.kind = "Ok"
  BY <1>3
<1> HIDE DEF l, a
<1>5. /\ answer' \in [Call -> [kind : {"none", "Ok", "Err"}, success : BOOLEAN, rolled_back : BOOLEAN]]
      /\ answer'[c] = a /\ \A d \in Call \ {c} : answer'[d] = answer[d]
  BY <1>0, <1>4 DEF IInv, TypeOK
<1>6. TerminalEvents(c) \in Seq(FlowEvent)
  <2>1. FailReason(c) \in FlowEvent
    BY DEF FailReason, FlowEvent
  <2>2. /\ <<"flow_completed">> \in Seq(FlowEvent) /\ <<"flow_rolled_back">> \in Seq(FlowEvent)
        /\ <<FailReason(c)>> \in Seq(FlowEvent) /\ <<>> \in Seq(FlowEvent)
    <3>1. "flow_completed" \in FlowEvent /\ "flow_rolled_back" \in FlowEvent
      BY DEF FlowEvent
    <3> QED
      BY <2>1, <3>1
  <2>3. /\ <<"flow_rolled_back">> \o <<FailReason(c)>> \in Seq(FlowEvent)
        /\ <<>> \o <<FailReason(c)>> \in Seq(FlowEvent)
    BY <2>2, ConcatProperties
  <2> QED
    BY <2>2, <2>3 DEF TerminalEvents
<1>7. /\ events'[c] = <<"flow_started">> \o TerminalEvents(c)
      /\ events'[c] \in Seq(FlowEvent) /\ events'[c] # <<>>
      /\ \A d \in Call \ {c} : events'[d] = events[d]
      /\ events' \in [Call -> Seq(FlowEvent)]
  <2>1. <<"flow_started">> \in Seq(FlowEvent) /\ Len(<<"flow_started">>) = 1
    BY DEF FlowEvent
  <2>2. /\ <<"flow_started">> \o TerminalEvents(c) \in Seq(FlowEvent)
        /\ Len(<<"flow_started">> \o TerminalEvents(c)) = 1 + Len(TerminalEvents(c))
        /\ Len(TerminalEvents(c)) \in Nat
    BY <1>6, <2>1, ConcatProperties, LenProperties
  <2> DEFINE e == <<"flow_started">> \o TerminalEvents(c)
  <2>3. e \in Seq(FlowEvent) /\ Len(e) # 0
    BY <2>2
  <2>4. events' = [events EXCEPT ![c] = e] /\ events \in [Call -> Seq(FlowEvent)]
    BY <1>0, <1>1 DEF IInv, TypeOK
  <2> HIDE DEF e
  <2>5. e # <<>>
    BY <2>3, EmptySeq
  <2>6. /\ events'[c] = e /\ \A d \in Call \ {c} : events'[d] = events[d]
        /\ events' \in [Call -> Seq(FlowEvent)]
    BY <2>3, <2>4
  <2> QED
    BY <2>3, <2>5, <2>6 DEF e
<1>8. TypeOK'
  BY <1>0, <1>2, <1>5, <1>7 DEF IInv, TypeOK, sink
<1>9. \A d \in Call \ {c} : SameCall(d) /\ pc'[d] = pc[d]
  BY <1>0, <1>2, <1>5, <1>7 DEF SameCall
<1>d. /\ PersistsStart(c)' <=> PersistsStart(c)
      /\ PersistsEnd(c)' <=> PersistsEnd(c)
      /\ ToUndo(c)' = ToUndo(c) /\ (MayRollBack(c)' <=> MayRollBack(c))
      /\ Undone(c)' = Undone(c)
      /\ Success(c)' = Success(c) /\ RolledBack(c)' = RolledBack(c)
      /\ TerminalEvents(c)' = TerminalEvents(c)
  BY <1>0, Derived
<1>10. Story(c)'
  <2>1. Finished(c)' /\ answer'[c].kind # "Err"
    BY <1>4, <1>5 DEF Finished
  <2>2. answer'[c] = [kind |-> "Ok", success |-> Success(c)', rolled_back |-> RolledBack(c)']
    BY <1>5, <1>d DEF a
  <2>3. events'[c] = <<"flow_started">> \o TerminalEvents(c)'
    BY <1>7, <1>d
  <2>4. cancelled'[c] => entry'[c] = "cancellation"
    BY <1>0, <1>1 DEF Story
  <2>5. /\ c \in setup'.calls
        /\ pc'[c] \notin Working \cup {"called"} /\ pc'[c] # "called" /\ pc'[c] # "send_start"
        /\ (pc'[c] \in {"persist", "send_end"} => PersistsEnd(c)')
    BY <1>0, <1>1, <1>2, <1>d DEF Working
  <2> QED
    BY <2>1, <2>2, <2>3, <2>4, <2>5 DEF Story
<1>11. Rollback(c)'
  <2>1. UndoneFirst(c)'
    BY <1>0, <1>1, <1>d DEF Rollback, UndoneFirst
  <2>2. /\ undone[c] # <<>> => MayRollBack(c)
        /\ all[c] <=> MayRollBack(c) /\ \A i \in DOMAIN undone[c] : undone[c][i].ok
        /\ MayRollBack(c) => ToUndo(c) \subseteq Undone(c)
    BY <1>0, <1>1 DEF Rollback
  <2> QED
    BY <1>0, <1>2, <1>d, <2>1, <2>2 DEF Rollback, Working
<1>12. Kept(c)
  BY <1>1, <1>7 DEF Kept, Finished, NoAnswer
<1>13. /\ \A d \in Call : Story(d)' /\ Rollback(d)'
       /\ \A d \in Call : Kept(d)
  BY <1>0, <1>9, <1>10, <1>11, <1>12, CallStep
<1>14. Beats' /\ SeenWhileRunning'
  BY <1>0, <1>2, Hearts DEF IInv, Guarded
<1>15. Records' /\ InOrder' /\ Pending'
  <2>1. PersistsStart(c) /\ ~Queued(c) => PersistsEnd(c)
    BY DEF PersistsStart, PersistsEnd
  <2>2. \A d \in Call : PersistsStart(d) /\ ~Queued(d) /\ pc[d] \in Unsaved => pc'[d] \in Unsaved
    BY <1>2, <2>1 DEF Unsaved
  <2>3. \A d \in Call : pc[d] \in Sending \/ pc'[d] \in Sending => pc'[d] = pc[d]
    BY <1>0, <1>2 DEF Sending
  <2> QED
    BY <1>0, <1>13, <2>2, <2>3, Quiet
<1> QED
  BY <1>8, <1>13, <1>14, <1>15 DEF IInv

(***************************************************************************)
(* Saving a record: the mirror, the channel and the table.                 *)
(***************************************************************************)

\* A call has put the record r in the mirror.
LEMMA Saved ==
  ASSUME IInv, NEW c \in Call, NEW r, setup' = setup, entry' = entry, remover' = remover,
         mirror' = r, r.by = c, Truthful(r)', chan' = chan, db' = db, faults' = faults,
         overlap' = (overlap \/ (setup.store = "sql" /\ InBetween)),
         \A d \in Call : Kept(d),
         \A d \in Call \ {c} : pc'[d] = pc[d],
         setup.store = "sql" => r = ToSend(c)' /\ pc'[c] \in Sending,
         r.state = "Running" => pc'[c] \in Unsaved
  PROVE  Records' /\ InOrder' /\ Pending'
<1>1. Records'
  <2>1. \A x : Truthful(x) => Truthful(x)'
    BY StillTruthful
  <2>2. Truthful(mirror)' /\ Truthful(db)' /\ \A i \in DOMAIN chan' : Truthful(chan[i])'
    BY <2>1 DEF IInv, Records
  <2>3. mirror'.state = "Running" => pc'[mirror'.by] \in Unsaved
    OBVIOUS
  <2> QED
    BY <2>2, <2>3 DEF Records
<1>2. InOrder'
  BY DEF IInv, InOrder, Later
<1>3. Pending'
  <2> SUFFICES ASSUME setup.store = "sql", ~overlap'
               PROVE  /\ ~InBetween' => mirror' = LastWrite'
                      /\ remover' = "send" => mirror' = NoRecord
                      /\ \A d \in Call : pc'[d] \in Sending =>
                            /\ mirror' = ToSend(d)' /\ remover' # "send"
                            /\ \A e \in Call : pc'[e] \in Sending => e = d
    BY DEF Pending
  <2>1. ~InBetween
    OBVIOUS
  <2>2. remover # "send" /\ \A d \in Call : pc[d] \notin Sending
    BY <2>1 DEF InBetween
  <2>3. \A d \in Call : pc'[d] \in Sending <=> d = c
    BY <2>2
  <2>4. InBetween'
    BY <2>3 DEF InBetween
  <2> QED
    BY <2>2, <2>3, <2>4
<1> QED
  BY <1>1, <1>2, <1>3

LEMMA KeepStart == ASSUME IInv, NEW c \in Call, Start(c) PROVE IInv'
<1> DEFINE r == [state |-> "Running", by |-> c]
<1>0. /\ pc[c] = "called" /\ events' = [events EXCEPT ![c] = <<"flow_started">>]
      /\ setup' = setup /\ entry' = entry /\ call' = call
      /\ results' = results /\ cancelled' = cancelled
      /\ undone' = undone /\ all' = all /\ answer' = answer
      /\ heartbeat' = heartbeat /\ remover' = remover /\ chan' = chan /\ db' = db /\ faults' = faults
  BY DEF Start, save, call, sink
<1>p. PersistsStart(c) =>
         /\ mirror' = r
         /\ pc' = [pc EXCEPT ![c] = IF setup.store = "sql" THEN "send_start" ELSE "register"]
         /\ overlap' = (overlap \/ (setup.store = "sql" /\ InBetween))
  BY DEF Start, save, Goto, mirror_insert
<1>q. ~PersistsStart(c) => pc' = [pc EXCEPT ![c] = "register"] /\ overlap' = overlap /\ sink' = sink
  BY DEF Start, Goto
<1>1. /\ Story(c) /\ Rollback(c) /\ answer[c] = NoAnswer /\ events[c] = <<>> /\ undone[c] = <<>>
      /\ c \in setup.calls
  BY <1>0 DEF IInv, Story, Rollback, Working
<1>2. /\ pc' \in [Call -> Labels] /\ \A d \in Call \ {c} : pc'[d] = pc[d]
      /\ pc'[c] \in {"send_start", "register"}
      /\ pc'[c] = "send_start" => PersistsStart(c)
      /\ PersistsStart(c) /\ setup.store = "sql" => pc'[c] = "send_start"
      /\ ~PersistsStart(c) => pc'[c] = "register"
  BY <1>p, <1>q DEF IInv, TypeOK, Labels
<1>3. /\ events' \in [Call -> Seq(FlowEvent)] /\ events'[c] = <<"flow_started">>
      /\ \A d \in Call \ {c} : events'[d] = events[d]
  <2>1. <<"flow_started">> \in Seq(FlowEvent)
    BY DEF FlowEvent
  <2> QED
    BY <1>0, <2>1 DEF IInv, TypeOK
<1>4. mirror' \in Record
  BY <1>p, <1>q DEF IInv, TypeOK, Record, sink
<1>5. TypeOK'
  BY <1>0, <1>2, <1>3, <1>4 DEF IInv, TypeOK
<1>6. \A d \in Call \ {c} : SameCall(d) /\ pc'[d] = pc[d]
  BY <1>0, <1>2, <1>3 DEF SameCall
<1>d. PersistsStart(c)' <=> PersistsStart(c)
  BY <1>0, Derived
<1>7. Story(c)'
  BY <1>0, <1>1, <1>2, <1>3, <1>d DEF Story, Finished, Working, NoAnswer
<1>8. Rollback(c)'
  <2>1. Undone(c)' = {} /\ undone'[c] = <<>> /\ DOMAIN undone'[c] = {}
    BY <1>0, <1>1 DEF Undone
  <2>2. UndoneFirst(c)'
    BY <2>1 DEF UndoneFirst
  <2> QED
    BY <1>0, <1>1, <1>2, <2>1, <2>2 DEF Rollback, Finished, NoAnswer
<1>9. Kept(c) /\ events'[c] # <<>>
  BY <1>1, <1>3 DEF Kept, Finished, NoAnswer
<1>10. /\ \A d \in Call : Story(d)' /\ Rollback(d)'
       /\ \A d \in Call : Kept(d)
  BY <1>0, <1>6, <1>7, <1>8, <1>9, CallStep
<1>11. Beats' /\ SeenWhileRunning'
  BY <1>0, <1>2, Hearts DEF IInv, Guarded
<1>12. Records' /\ InOrder' /\ Pending'
  <2>1. CASE PersistsStart(c)
    <3>1. r.by = c /\ r.state = "Running"
      OBVIOUS
    <3>2. Truthful(r)'
      BY <1>9, <1>d, <2>1 DEF Truthful
    <3>3. setup.store = "sql" => r = ToSend(c)' /\ pc'[c] \in Sending
      BY <1>2, <2>1 DEF ToSend, Sending
    <3>4. pc'[c] \in Unsaved
      BY <1>2 DEF Unsaved, Working
    <3>5. mirror' = r /\ overlap' = (overlap \/ (setup.store = "sql" /\ InBetween))
      BY <1>p, <2>1
    <3> HIDE DEF r
    <3> QED
      BY <1>0, <1>2, <1>10, <3>1, <3>2, <3>3, <3>4, <3>5, Saved
  <2>2. CASE ~PersistsStart(c)
    <3>1. \A d \in Call : pc[d] \in Sending \/ pc'[d] \in Sending => pc'[d] = pc[d]
      BY <1>0, <1>2, <2>2 DEF Sending
    <3>2. \A d \in Call : PersistsStart(d) /\ ~Queued(d) /\ pc[d] \in Unsaved => pc'[d] \in Unsaved
      BY <1>2, <2>2
    <3> QED
      BY <1>0, <1>q, <1>10, <2>2, <3>1, <3>2, Quiet
  <2> QED
    BY <2>1, <2>2
<1> QED
  BY <1>5, <1>10, <1>11, <1>12 DEF IInv

LEMMA KeepPersist == ASSUME IInv, NEW c \in Call, Persist(c) PROVE IInv'
<1>r. PICK r : r = [state |-> FinalState(c), by |-> c]
  OBVIOUS
<1> DEFINE l == IF setup.store = "sql" THEN "send_end" ELSE "drop_guard"
<1>0. /\ pc[c] = "persist" /\ pc' = [pc EXCEPT ![c] = l] /\ mirror' = r
      /\ overlap' = (overlap \/ (setup.store = "sql" /\ InBetween))
      /\ setup' = setup /\ entry' = entry /\ call' = call /\ events' = events
      /\ heartbeat' = heartbeat /\ remover' = remover /\ chan' = chan /\ db' = db /\ faults' = faults
  BY <1>r DEF Persist, save, Goto, mirror_insert
<1>1. FinalState(c) \in Final
  BY DEF FinalState, Final
<1>2. /\ l \in Labels /\ l \in {"send_end", "drop_guard"}
      /\ setup.store = "sql" => l = "send_end"
  BY DEF Labels
<1>3. r \in Record /\ r.by = c /\ r.state = FinalState(c)
  BY <1>1, <1>r DEF Record
<1> HIDE DEF l
<1>4. /\ pc' \in [Call -> Labels] /\ pc'[c] = l
      /\ \A d \in Call \ {c} : pc'[d] = pc[d]
      /\ \A d \in Call : Story(d)' /\ Rollback(d)'
      /\ \A d \in Call : Kept(d)
  BY <1>0, <1>2, Moved
<1>5. TypeOK'
  BY <1>0, <1>3, <1>4, MovedTypes DEF IInv, TypeOK
<1>6. Beats' /\ SeenWhileRunning'
  BY <1>0, <1>2, <1>4, Hearts DEF IInv, Guarded
<1>7. Records' /\ InOrder' /\ Pending'
  <2>1. PersistsEnd(c) /\ Finished(c)
    BY <1>0 DEF IInv, Story
  <2>2. PersistsStart(c)' /\ Finished(c)' /\ FinalState(c)' = FinalState(c)
    <3>1. PersistsStart(c)
      BY <2>1 DEF PersistsEnd, PersistsStart
    <3> QED
      BY <1>0, <1>4, <2>1, <3>1, Derived DEF Kept
  <2>3. events'[c] # <<>>
    <3>1. events[c] = <<"flow_started">> \o TerminalEvents(c)
      BY <2>1 DEF IInv, Story
    <3>2. events[c] \in Seq(FlowEvent)
      BY DEF IInv, TypeOK
    <3>3. TerminalEvents(c) # <<>>
      BY DEF TerminalEvents
    <3> QED
      BY <1>0, <3>1, <3>2, <3>3
  <2>4. Truthful(r)'
    BY <1>3, <2>2, <2>3 DEF Truthful
  <2>5. r = ToSend(c)' \/ setup.store # "sql"
    BY <1>r, <1>2, <1>4, <2>2 DEF ToSend
  <2>6. setup.store = "sql" => r = ToSend(c)' /\ pc'[c] \in Sending
    BY <1>2, <1>4, <2>5 DEF Sending
  <2>7. r.state # "Running"
    BY <1>1, <1>3 DEF Final
  <2> QED
    BY <1>0, <1>3, <1>4, <2>4, <2>6, <2>7, Saved
<1> QED
  BY <1>4, <1>5, <1>6, <1>7 DEF IInv

\* The record r is sent behind the others.
LEMMA Sent ==
  ASSUME NEW r \in Record, chan \in Seq(Record), chan' = Append(chan, r), db' = db,
         InOrder, Truthful(r), ~Later(r, db), \A i \in DOMAIN chan : ~Later(r, chan[i])
  PROVE  /\ chan' \in Seq(Record) /\ LastWrite' = r /\ InOrder'
         /\ \A i \in DOMAIN chan' : chan'[i] = r \/ \E k \in DOMAIN chan : chan'[i] = chan[k]
<1> DEFINE n == Len(chan)
<1>1. /\ n \in Nat /\ DOMAIN chan = 1 .. n /\ DOMAIN chan' = 1 .. n + 1
      /\ \A i \in 1 .. n : chan'[i] = chan[i]
      /\ chan'[n + 1] = r /\ Len(chan') = n + 1
      /\ chan' \in Seq(Record) /\ chan' # <<>>
  OBVIOUS
<1>2. LastWrite' = r
  BY <1>1 DEF LastWrite
<1> HIDE DEF n
<1>3. \A i \in 1 .. n + 1 : i \in 1 .. n \/ i = n + 1
  BY <1>1
<1>4. \A i, j \in 1 .. n + 1 : i < j => i \in 1 .. n
  BY <1>1
<1>5. InOrder'
  <2>1. \A j \in 1 .. n + 1 : ~Later(chan'[j], db')
    BY <1>1, <1>3 DEF InOrder
  <2>2. \A i, j \in 1 .. n + 1 : i < j => ~Later(chan'[j], chan'[i])
    BY <1>1, <1>3, <1>4 DEF InOrder
  <2> QED
    BY <1>1, <2>1, <2>2 DEF InOrder, Later
<1> QED
  BY <1>1, <1>2, <1>3, <1>5

LEMMA KeepSend == ASSUME IInv, NEW c \in Call, Send(c) PROVE IInv'
<1>r. PICK r : r = ToSend(c)
  OBVIOUS
<1> DEFINE l == IF pc[c] = "send_start" THEN "register" ELSE "drop_guard"
<1>0. /\ pc[c] \in Sending /\ pc' = [pc EXCEPT ![c] = l] /\ chan' = Append(chan, r)
      /\ setup' = setup /\ entry' = entry /\ call' = call /\ events' = events
      /\ heartbeat' = heartbeat /\ remover' = remover /\ overlap' = overlap
      /\ mirror' = mirror /\ db' = db /\ faults' = faults
  BY <1>r DEF Send, Goto, send, ToSend, Sending
<1>1. /\ \/ pc[c] = "send_start" /\ l = "register"
         \/ pc[c] = "send_end" /\ l = "drop_guard"
      /\ l \in Labels
  BY <1>0 DEF Sending, Labels
<1> HIDE DEF l
<1>2. /\ pc' \in [Call -> Labels] /\ pc'[c] = l
      /\ \A d \in Call : SameCall(d)
      /\ \A d \in Call \ {c} : pc'[d] = pc[d]
      /\ \A d \in Call : Story(d)' /\ Rollback(d)'
      /\ \A d \in Call : Kept(d)
  BY <1>0, <1>1, Moved
<1>3. /\ pc[c] = "send_start" => answer[c] = NoAnswer /\ events[c] = <<"flow_started">> /\ PersistsStart(c)
      /\ pc[c] = "send_end" => Finished(c) /\ PersistsEnd(c)
  BY DEF IInv, Story, Working
<1>4. FinalState(c) \in Final
  BY DEF FinalState, Final
<1>5. /\ r \in Record /\ r.by = c /\ (r.state = "Running" <=> pc[c] = "send_start")
      /\ pc[c] = "send_end" => r.state = FinalState(c)
  BY <1>1, <1>4, <1>r DEF Record, ToSend, Final
<1>6. Truthful(r)
  <2>1. PersistsStart(c)
    BY <1>1, <1>3 DEF PersistsEnd, PersistsStart
  <2>2. events[c] # <<>>
    <3>1. CASE pc[c] = "send_start"
      <4>1. events[c] = <<"flow_started">>
        BY <1>3, <3>1
      <4> QED
        BY <4>1
    <3>2. CASE pc[c] = "send_end"
      <4>1. events[c] = <<"flow_started">> \o TerminalEvents(c)
        BY <1>3, <3>2 DEF IInv, Story
      <4>2. events[c] \in Seq(FlowEvent) /\ TerminalEvents(c) # <<>>
        BY DEF IInv, TypeOK, TerminalEvents
      <4> QED
        BY <4>1, <4>2
    <3> QED
      BY <1>1, <3>1, <3>2
  <2> QED
    BY <1>1, <1>3, <1>5, <2>1, <2>2 DEF Truthful
<1>7. \A x : Truthful(x) => ~Later(r, x)
  <2> SUFFICES ASSUME NEW x, Truthful(x), Later(r, x) PROVE FALSE
    OBVIOUS
  <2>1. x.by = c /\ x.state \in Final /\ pc[c] = "send_start"
    BY <1>5 DEF Later
  <2>2. Finished(c)
    BY <2>1 DEF Truthful, NoRecord, Final
  <2> QED
    BY <1>3, <2>1, <2>2 DEF Finished, NoAnswer
<1>8. /\ chan' \in Seq(Record) /\ LastWrite' = r /\ InOrder'
      /\ \A i \in DOMAIN chan' : chan'[i] = r \/ \E k \in DOMAIN chan : chan'[i] = chan[k]
  <2>1. chan \in Seq(Record) /\ InOrder /\ Truthful(db) /\ \A i \in DOMAIN chan : Truthful(chan[i])
    BY DEF IInv, TypeOK, Records
  <2>2. ~Later(r, db) /\ \A i \in DOMAIN chan : ~Later(r, chan[i])
    BY <1>7, <2>1
  <2>3. chan' = Append(chan, r) /\ db' = db /\ r \in Record
    BY <1>0, <1>5
  <2> QED
    BY <1>6, <2>1, <2>2, <2>3, Sent
<1>9. TypeOK'
  BY <1>0, <1>2, <1>8, MovedTypes DEF IInv, TypeOK
<1>10. Beats' /\ SeenWhileRunning'
  BY <1>0, <1>1, <1>2, Hearts DEF IInv, Guarded
<1>11. Records'
  <2>1. \A x : Truthful(x) => Truthful(x)'
    BY <1>0, <1>2, StillTruthful
  <2>2. Truthful(mirror) /\ Truthful(db) /\ \A i \in DOMAIN chan : Truthful(chan[i])
    BY DEF IInv, Records
  <2>3. Truthful(mirror)' /\ Truthful(db)' /\ \A i \in DOMAIN chan' : Truthful(chan[i])'
    <3>1. \A i \in DOMAIN chan' : Truthful(chan'[i])
      BY <1>6, <1>8, <2>2
    <3> QED
      BY <1>0, <2>1, <2>2, <3>1
  <2>4. ASSUME mirror.state = "Running" PROVE Queued(mirror.by)' \/ pc'[mirror.by] \in Unsaved
    <3>0. mirror.by \in Call
      BY <2>2, <2>4 DEF Truthful, NoRecord
    <3>1. PICK d \in Call : d = mirror.by
      BY <3>0
    <3>2. Queued(d) \/ pc[d] \in Unsaved
      BY <2>4, <3>1 DEF IInv, Records
    <3>3. Queued(d)' \/ pc'[d] \in Unsaved
      <4>1. Queued(d)' <=> Queued(d)
        BY <1>0, Derived
      <4> QED
        BY <1>1, <1>2, <3>2, <4>1 DEF Unsaved, Working
    <3> QED
      BY <1>0, <3>1, <3>3 DEF Queued
  <2> QED
    BY <1>0, <2>3, <2>4 DEF Records
<1>12. Pending'
  <2> SUFFICES ASSUME setup.store = "sql", faults = {}, ~overlap
               PROVE  /\ ~InBetween' => mirror' = LastWrite'
                      /\ remover' = "send" => mirror' = NoRecord
                      /\ \A d \in Call : pc'[d] \in Sending =>
                            /\ mirror' = ToSend(d)' /\ remover' # "send"
                            /\ \A e \in Call : pc'[e] \in Sending => e = d
    BY <1>0 DEF Pending
  <2>1. mirror = r /\ remover # "send" /\ \A d \in Call : pc[d] \in Sending => d = c
    BY <1>0, <1>r DEF IInv, Pending
  <2>2. \A d \in Call : pc'[d] \notin Sending
    BY <1>1, <1>2, <2>1 DEF Sending
  <2> QED
    BY <1>0, <1>8, <2>1, <2>2
<1> QED
  BY <1>2, <1>8, <1>9, <1>10, <1>11, <1>12 DEF IInv

\* Steps that change no call: what they have in common.
LEMMA Aside ==
  ASSUME IInv, UNCHANGED <<setup, entry, pc, call, events, heartbeat>>
  PROVE  /\ setup' = setup /\ entry' = entry /\ pc' = pc /\ heartbeat' = heartbeat
         /\ \A d \in Call : Story(d)' /\ Rollback(d)'
         /\ \A x : Truthful(x) => Truthful(x)'
         /\ Beats' /\ SeenWhileRunning'
         /\ \A d \in Call : ToSend(d)' = ToSend(d)
         /\ \A d \in Call : Queued(d)' <=> Queued(d)
         /\ UNCHANGED <<results, cancelled, undone, all, events, answer>>
<1>1. /\ setup' = setup /\ entry' = entry /\ pc' = pc /\ heartbeat' = heartbeat
      /\ UNCHANGED <<results, cancelled, undone, all, events, answer>>
  BY DEF call
<1>2. \A d \in Call : SameCall(d)
  BY <1>1 DEF SameCall
<1>3. \A d \in Call : Story(d)' /\ Rollback(d)'
  BY <1>1, <1>2, Frame DEF IInv
<1>4. \A d \in Call : Kept(d)
  BY <1>1, <1>2, SameKept
<1>5. \A x : Truthful(x) => Truthful(x)'
  BY <1>1, <1>4, StillTruthful
<1>6. Beats' /\ SeenWhileRunning'
  BY <1>1 DEF IInv, Beats, SeenWhileRunning
<1>7. \A d \in Call : ToSend(d)' = ToSend(d)
  BY <1>1, Derived DEF ToSend
<1>8. \A d \in Call : Queued(d)' <=> Queued(d)
  BY <1>1, Derived
<1> QED
  BY <1>1, <1>3, <1>5, <1>6, <1>7, <1>8

\* The mirror's last conjunct of Records, when neither it nor a label changed.
LEMMA AsideMirror ==
  ASSUME IInv, UNCHANGED <<setup, entry, pc>>, mirror' = mirror
  PROVE  mirror'.state = "Running" => Queued(mirror.by)' \/ pc'[mirror'.by] \in Unsaved
BY DEF IInv, Records, Queued

LEMMA KeepSendDelete == ASSUME IInv, SendDelete PROVE IInv'
<1>0. /\ remover = "send" /\ chan' = Append(chan, NoRecord) /\ remover' = "done"
      /\ UNCHANGED <<setup, entry, pc, call, events, heartbeat, overlap, mirror, db, faults>>
  BY DEF SendDelete, send
<1>1. /\ setup' = setup /\ entry' = entry /\ pc' = pc /\ heartbeat' = heartbeat
      /\ \A d \in Call : Story(d)' /\ Rollback(d)'
      /\ \A x : Truthful(x) => Truthful(x)'
      /\ Beats' /\ SeenWhileRunning'
      /\ UNCHANGED <<results, cancelled, undone, all, events, answer>>
  BY <1>0, Aside
<1>2. NoRecord \in Record /\ Truthful(NoRecord) /\ \A x : ~Later(NoRecord, x)
  BY DEF Record, Truthful, Later, NoRecord
<1>3. /\ chan' \in Seq(Record) /\ LastWrite' = NoRecord /\ InOrder'
      /\ \A i \in DOMAIN chan' : chan'[i] = NoRecord \/ \E k \in DOMAIN chan : chan'[i] = chan[k]
  <2>1. chan \in Seq(Record) /\ InOrder
    BY DEF IInv, TypeOK
  <2>2. chan' = Append(chan, NoRecord) /\ db' = db
    BY <1>0
  <2> QED
    BY <1>2, <2>1, <2>2, Sent
<1>4. TypeOK'
  BY <1>0, <1>1, <1>3 DEF IInv, TypeOK
<1>5. Records'
  <2>2. Truthful(mirror) /\ Truthful(db) /\ \A i \in DOMAIN chan : Truthful(chan[i])
    BY DEF IInv, Records
  <2>3. Truthful(mirror)' /\ Truthful(db)' /\ \A i \in DOMAIN chan' : Truthful(chan[i])'
    <3>1. \A i \in DOMAIN chan' : Truthful(chan'[i])
      BY <1>2, <1>3, <2>2
    <3> QED
      BY <1>0, <1>1, <2>2, <3>1
  <2> QED
    BY <1>0, <2>3, AsideMirror DEF Records
<1>6. Pending'
  <2> SUFFICES ASSUME setup.store = "sql", faults = {}, ~overlap
               PROVE  mirror' = LastWrite' /\ remover' # "send" /\ \A d \in Call : pc'[d] \notin Sending
    BY <1>0 DEF Pending
  <2> QED
    BY <1>0, <1>1, <1>3 DEF IInv, Pending
<1> QED
  BY <1>1, <1>3, <1>4, <1>5, <1>6 DEF IInv

LEMMA KeepRemove == ASSUME IInv, Remove PROVE IInv'
<1>0. /\ remover = "idle" /\ mirror' = NoRecord
      /\ remover' = IF mirror = NoRecord \/ setup.store # "sql" THEN "done" ELSE "send"
      /\ overlap' = (overlap \/ (remover' = "send" /\ InBetween))
      /\ UNCHANGED <<setup, entry, pc, call, events, heartbeat, chan, db, faults>>
  BY DEF Remove, mirror_remove
<1>1. /\ setup' = setup /\ entry' = entry /\ pc' = pc /\ heartbeat' = heartbeat
      /\ \A d \in Call : Story(d)' /\ Rollback(d)'
      /\ \A x : Truthful(x) => Truthful(x)'
      /\ Beats' /\ SeenWhileRunning'
      /\ \A d \in Call : ToSend(d)' = ToSend(d)
      /\ UNCHANGED <<results, cancelled, undone, all, events, answer>>
  BY <1>0, Aside
<1>2. NoRecord \in Record /\ Truthful(NoRecord) /\ NoRecord.state # "Running"
  BY DEF Record, Truthful, NoRecord
<1>4. TypeOK'
  BY <1>0, <1>1, <1>2 DEF IInv, TypeOK
<1>5. Records'
  <2>2. Truthful(db) /\ \A i \in DOMAIN chan : Truthful(chan[i])
    BY DEF IInv, Records
  <2>3. Truthful(mirror)' /\ Truthful(db)' /\ \A i \in DOMAIN chan' : Truthful(chan[i])'
    BY <1>0, <1>1, <1>2, <2>2
  <2> QED
    BY <1>0, <1>2, <2>3 DEF Records
<1>6. InOrder'
  BY <1>0 DEF IInv, InOrder, Later
<1>7. Pending'
  <2> SUFFICES ASSUME setup.store = "sql", faults = {}, ~overlap'
               PROVE  /\ ~InBetween' => mirror' = LastWrite'
                      /\ remover' = "send" => mirror' = NoRecord
                      /\ \A d \in Call : pc'[d] \in Sending =>
                            /\ mirror' = ToSend(d)' /\ remover' # "send"
                            /\ \A e \in Call : pc'[e] \in Sending => e = d
    BY <1>0 DEF Pending
  <2>0. LastWrite' = LastWrite /\ ~overlap
    BY <1>0 DEF LastWrite
  <2>p. /\ ~InBetween => mirror = LastWrite
        /\ \A d \in Call : pc[d] \in Sending =>
              /\ mirror = ToSend(d) /\ remover # "send"
              /\ \A e \in Call : pc[e] \in Sending => e = d
    BY <2>0 DEF IInv, Pending
  <2>1. CASE mirror = NoRecord
    <3>1. InBetween' <=> InBetween
      BY <1>0, <2>1 DEF InBetween
    <3> QED
      BY <1>0, <1>1, <2>0, <2>1, <2>p, <3>1
  <2>2. CASE mirror # NoRecord
    <3>1. remover' = "send" /\ ~InBetween
      BY <1>0, <2>2
    <3>2. InBetween' /\ \A d \in Call : pc'[d] \notin Sending
      BY <1>1, <3>1 DEF InBetween
    <3> QED
      BY <1>0, <3>2
  <2> QED
    BY <2>1, <2>2
<1> QED
  BY <1>1, <1>4, <1>5, <1>6, <1>7 DEF IInv

\* The background task takes the first write.
LEMMA TailShape ==
  ASSUME NEW q \in Seq(Record), q # <<>>
  PROVE  /\ Len(q) \in Nat /\ Len(q) > 0 /\ Head(q) = q[1] /\ q[1] \in Record
         /\ DOMAIN q = 1 .. Len(q) /\ Tail(q) \in Seq(Record) /\ Len(Tail(q)) = Len(q) - 1
         /\ DOMAIN Tail(q) = 1 .. Len(q) - 1
         /\ \A i \in 1 .. Len(q) - 1 : Tail(q)[i] = q[i + 1]
         /\ Tail(q) = <<>> <=> Len(q) = 1
<1>1. /\ Len(q) \in Nat /\ Len(q) > 0 /\ DOMAIN q = 1 .. Len(q)
      /\ \A i \in 1 .. Len(q) : q[i] \in Record
  BY EmptySeq, LenProperties, ElementOfSeq
<1>2. /\ Head(q) \in Record /\ Tail(q) \in Seq(Record) /\ Len(Tail(q)) = Len(q) - 1
      /\ \A i \in 1 .. Len(Tail(q)) : Tail(q)[i] = q[i + 1]
  BY HeadTailProperties
<1>3. DOMAIN Tail(q) = 1 .. Len(Tail(q))
  BY <1>2, LenProperties
<1>4. Tail(q) = <<>> <=> Len(Tail(q)) = 0
  BY <1>2, EmptySeq
<1>5. Head(q) = q[1]
  BY DEF Head
<1> QED
  BY <1>1, <1>2, <1>3, <1>4, <1>5

LEMMA KeepWrite ==
  ASSUME IInv, NEW i \in DOMAIN chan, NEW ok \in BOOLEAN, Write(i, ok)
  PROVE  IInv'
<1>0. /\ chan # <<>> /\ db' = (IF ok THEN Head(chan) ELSE db) /\ chan' = Tail(chan)
      /\ faults' = (IF ok THEN faults ELSE faults \cup {"db_error"})
      /\ UNCHANGED <<setup, entry, pc, call, events, heartbeat, remover, overlap, mirror>>
  BY DEF Write, write_op
<1>1. /\ setup' = setup /\ entry' = entry /\ pc' = pc /\ heartbeat' = heartbeat
      /\ \A d \in Call : Story(d)' /\ Rollback(d)'
      /\ \A x : Truthful(x) => Truthful(x)'
      /\ Beats' /\ SeenWhileRunning'
      /\ \A d \in Call : ToSend(d)' = ToSend(d)
      /\ UNCHANGED <<results, cancelled, undone, all, events, answer>>
  BY <1>0, Aside
<1> DEFINE n == Len(chan)
<1>2. /\ n \in Nat /\ n > 0 /\ Head(chan) = chan[1] /\ chan[1] \in Record
      /\ DOMAIN chan = 1 .. n /\ Tail(chan) \in Seq(Record) /\ Len(Tail(chan)) = n - 1
      /\ DOMAIN Tail(chan) = 1 .. n - 1
      /\ \A k \in 1 .. n - 1 : Tail(chan)[k] = chan[k + 1]
      /\ Tail(chan) = <<>> <=> n = 1
  <2>1. chan \in Seq(Record) /\ chan # <<>>
    BY <1>0 DEF IInv, TypeOK
  <2> QED
    BY <2>1, TailShape
<1> HIDE DEF n
<1>3. db' \in Record /\ (db' = db \/ db' = chan[1])
  BY <1>0, <1>2 DEF IInv, TypeOK
<1>4. TypeOK'
  <2>1. chan' \in Seq(Record) /\ faults' \subseteq {"db_error", "crash"}
    BY <1>0, <1>2 DEF IInv, TypeOK
  <2>2. mirror' = mirror /\ remover' = remover
    BY <1>0
  <2> QED
    BY <1>1, <1>3, <2>1, <2>2 DEF IInv, TypeOK
<1>5. 1 \in 1 .. n /\ \A k \in 1 .. n - 1 : k + 1 \in 1 .. n /\ 1 < k + 1
  BY <1>2
<1>6. Records'
  <2>2. Truthful(mirror) /\ Truthful(db) /\ \A k \in 1 .. n : Truthful(chan[k])
    BY <1>2 DEF IInv, Records
  <2>3. Truthful(mirror)' /\ Truthful(db)' /\ \A k \in DOMAIN chan' : Truthful(chan[k])'
    <3>0. DOMAIN chan' = 1 .. n - 1
      BY <1>0, <1>2
    <3>1. \A k \in 1 .. n - 1 : Truthful(chan'[k])
      BY <1>0, <1>2, <1>5, <2>2
    <3>2. Truthful(db')
      BY <1>3, <1>5, <2>2
    <3> QED
      BY <1>0, <1>1, <2>2, <3>0, <3>1, <3>2
  <2> QED
    BY <1>0, <2>3, AsideMirror DEF Records
<1>7. InOrder'
  <2>1. /\ \A j \in 1 .. n : ~Later(chan[j], db)
        /\ \A h, j \in 1 .. n : h < j => ~Later(chan[j], chan[h])
    BY <1>2 DEF IInv, InOrder
  <2>2. DOMAIN chan' = 1 .. n - 1 /\ \A k \in 1 .. n - 1 : chan'[k] = chan[k + 1]
    BY <1>0, <1>2
  <2>3. \A j \in 1 .. n - 1 : ~Later(chan'[j], db')
    BY <1>3, <1>5, <2>1, <2>2
  <2>4. \A h, j \in 1 .. n - 1 : h < j => ~Later(chan'[j], chan'[h])
    <3>1. \A h, j \in 1 .. n - 1 : h < j => h + 1 < j + 1
      BY <1>2
    <3> QED
      BY <1>5, <2>1, <2>2, <3>1
  <2> QED
    BY <2>2, <2>3, <2>4 DEF InOrder, Later
<1>8. Pending'
  <2> SUFFICES ASSUME setup.store = "sql", faults' = {}, ~overlap
               PROVE  /\ ~InBetween' => mirror' = LastWrite'
                      /\ remover' = "send" => mirror' = NoRecord
                      /\ \A d \in Call : pc'[d] \in Sending =>
                            /\ mirror' = ToSend(d)' /\ remover' # "send"
                            /\ \A e \in Call : pc'[e] \in Sending => e = d
    BY <1>0 DEF Pending
  <2>1. ok /\ faults = {} /\ db' = chan[1]
    BY <1>0, <1>2
  <2>2. LastWrite = chan[n]
    BY <1>0 DEF LastWrite, n
  <2>3. LastWrite' = chan[n]
    <3>1. CASE n = 1
      BY <1>0, <1>2, <2>1, <3>1 DEF LastWrite
    <3>2. CASE n # 1
      <4>1. n - 1 \in 1 .. n - 1 /\ (n - 1) + 1 = n
        BY <1>2, <3>2
      <4>2. Len(chan') = n - 1 /\ chan' # <<>> /\ chan'[n - 1] = chan[n]
        BY <1>0, <1>2, <3>2, <4>1
      <4> QED
        BY <4>2 DEF LastWrite
    <3> QED
      BY <3>1, <3>2
  <2>4. InBetween' <=> InBetween
    BY <1>0 DEF InBetween
  <2>5. /\ ~InBetween => mirror = LastWrite
        /\ remover = "send" => mirror = NoRecord
        /\ \A d \in Call : pc[d] \in Sending =>
              /\ mirror = ToSend(d) /\ remover # "send"
              /\ \A e \in Call : pc[e] \in Sending => e = d
    BY <2>1 DEF IInv, Pending
  <2>6. mirror' = mirror /\ remover' = remover
    BY <1>0
  <2> QED
    BY <1>1, <2>2, <2>3, <2>4, <2>5, <2>6
<1> QED
  BY <1>1, <1>4, <1>6, <1>7, <1>8 DEF IInv

LEMMA KeepCrash == ASSUME IInv, Crash PROVE IInv'
<1>0. /\ mirror' = NoRecord /\ chan' = <<>> /\ faults' = faults \cup {"crash"} /\ db' = db
      /\ pc' = [c \in Call |-> IF pc[c] \in {"called", "done", "unwound"} THEN pc[c] ELSE "crashed"]
      /\ heartbeat' = FALSE /\ remover' = (IF remover = "send" THEN "done" ELSE remover)
      /\ setup' = setup /\ entry' = entry /\ call' = call /\ events' = events
  BY DEF Crash, sink_crash
<1>1. results' = results /\ cancelled' = cancelled /\ undone' = undone /\ all' = all /\ answer' = answer
  BY <1>0 DEF call
<1>2. \A d \in Call : SameCall(d)
  BY <1>0, <1>1 DEF SameCall
<1>3. \A d \in Call : Kept(d)
  BY <1>0, <1>2, SameKept
<1>4. /\ pc' \in [Call -> Labels]
      /\ \A d \in Call : \/ pc[d] \in {"called", "done", "unwound"} /\ pc'[d] = pc[d]
                         \/ pc[d] \notin {"called", "done", "unwound"} /\ pc'[d] = "crashed"
  BY <1>0 DEF IInv, TypeOK, Labels
<1>5. NoRecord \in Record /\ Truthful(NoRecord)' /\ NoRecord.state # "Running"
  BY DEF Record, Truthful, NoRecord
<1>6. TypeOK'
  <2>1. /\ heartbeat' \in BOOLEAN /\ remover' \in {"idle", "send", "done"}
        /\ mirror' \in Record /\ db' \in Record /\ chan' \in Seq(Record)
        /\ faults' \subseteq {"db_error", "crash"}
    <3>1. chan' \in Seq(Record)
      BY <1>0
    <3>2. heartbeat' \in BOOLEAN /\ mirror' \in Record
      BY <1>0, <1>5
    <3>3. /\ remover' \in {"idle", "send", "done"} /\ db' \in Record
          /\ faults' \subseteq {"db_error", "crash"}
      <4>1. /\ remover \in {"idle", "send", "done"} /\ db \in Record
            /\ faults \subseteq {"db_error", "crash"}
        BY DEF IInv, TypeOK
      <4> QED
        BY <1>0, <4>1
    <3> QED
      BY <3>1, <3>2, <3>3
  <2> QED
    BY <1>0, <1>1, <1>4, <2>1 DEF IInv, TypeOK
<1>7. ASSUME NEW d \in Call PROVE Story(d)' /\ Rollback(d)'
  <2>0. Story(d) /\ Rollback(d) /\ SameCall(d)
    BY <1>2 DEF IInv
  <2>1. CASE pc'[d] = pc[d]
    BY <1>0, <2>0, <2>1, Frame
  <2>2. CASE pc'[d] = "crashed" /\ pc[d] \notin {"called", "done", "unwound"}
    <3>1. /\ ToUndo(d)' = ToUndo(d) /\ (MayRollBack(d)' <=> MayRollBack(d))
          /\ Undone(d)' = Undone(d)
          /\ Success(d)' = Success(d) /\ RolledBack(d)' = RolledBack(d)
          /\ TerminalEvents(d)' = TerminalEvents(d)
      BY <1>0, <2>0, Derived DEF SameCall
    <3>2. Story(d)'
      BY <1>0, <2>0, <2>2, <3>1 DEF Story, Finished, SameCall, Working
    <3>3. UndoneFirst(d)'
      BY <2>0, <3>1 DEF Rollback, UndoneFirst, SameCall
    <3>4. Rollback(d)'
      BY <2>0, <2>2, <3>1, <3>3 DEF Rollback, Finished, SameCall, Working
    <3> QED
      BY <3>2, <3>4
  <2> QED
    BY <1>4, <2>1, <2>2
<1>8. Beats' /\ SeenWhileRunning'
  BY <1>0, <1>4 DEF Beats, SeenWhileRunning
<1>9. Records'
  <2>1. Truthful(db)'
    <3>1. \A x : Truthful(x) => Truthful(x)'
      BY <1>0, <1>3, StillTruthful
    <3> QED
      BY <1>0, <3>1 DEF IInv, Records
  <2> QED
    BY <1>0, <1>5, <2>1 DEF Records
<1>10. InOrder' /\ Pending'
  BY <1>0 DEF InOrder, Pending
<1> QED
  BY <1>6, <1>7, <1>8, <1>9, <1>10 DEF IInv

(***************************************************************************)
(* Init, Next, and what follows.                                           *)
(***************************************************************************)

LEMMA InitIInv == Init => IInv
<1> SUFFICES ASSUME Init PROVE IInv
  OBVIOUS
<1>0. /\ setup \in Setup /\ entry \in [Call -> Entry]
      /\ pc = [c \in Call |-> IF c \in setup.calls THEN "called" ELSE "done"]
      /\ results = [c \in Call |-> {}] /\ cancelled = [c \in Call |-> FALSE]
      /\ undone = [c \in Call |-> <<>>] /\ all = [c \in Call |-> FALSE]
      /\ events = [c \in Call |-> <<>>] /\ answer = [c \in Call |-> NoAnswer]
      /\ heartbeat = FALSE /\ remover = (IF setup.remover THEN "idle" ELSE "done") /\ overlap = FALSE
      /\ mirror = NoRecord /\ chan = <<>> /\ db = NoRecord /\ faults = {}
  BY SetupsAssumption DEF Init, SinkInit
<1>1. NoRecord \in Record /\ Truthful(NoRecord) /\ NoRecord.state # "Running"
  BY DEF Record, Truthful, NoRecord
<1>2. NoAnswer \in [kind : {"none", "Ok", "Err"}, success : BOOLEAN, rolled_back : BOOLEAN]
  BY DEF NoAnswer
<1>3. TypeOK
  <2>1. pc \in [Call -> Labels] /\ remover \in {"idle", "send", "done"}
    BY <1>0 DEF Labels
  <2>2. /\ undone \in [Call -> Seq([step : Step, ok : BOOLEAN])]
        /\ events \in [Call -> Seq(FlowEvent)] /\ chan \in Seq(Record)
    BY <1>0
  <2>3. /\ results \in [Call -> SUBSET (Ids \X Status)] /\ cancelled \in [Call -> BOOLEAN]
        /\ all \in [Call -> BOOLEAN]
        /\ answer \in [Call -> [kind : {"none", "Ok", "Err"}, success : BOOLEAN,
                                rolled_back : BOOLEAN]]
    BY <1>0, <1>2
  <2>4. heartbeat \in BOOLEAN /\ mirror \in Record /\ db \in Record /\ faults \subseteq {"db_error", "crash"}
    BY <1>0, <1>1
  <2> QED
    BY <1>0, <2>1, <2>2, <2>3, <2>4 DEF TypeOK
<1>4. ASSUME NEW c \in Call PROVE Story(c) /\ Rollback(c)
  <2>1. /\ pc[c] \in {"called", "done"} /\ (c \notin setup.calls => pc[c] = "done")
        /\ ~cancelled[c] /\ undone[c] = <<>> /\ events[c] = <<>> /\ answer[c] = NoAnswer
    BY <1>0
  <2>2. ~Finished(c) /\ answer[c].kind # "Err"
    BY <2>1 DEF Finished, NoAnswer
  <2>3. Story(c)
    BY <2>1, <2>2 DEF Story, Working
  <2>4. Undone(c) = {} /\ DOMAIN undone[c] = {}
    BY <2>1 DEF Undone
  <2>5. UndoneFirst(c)
    BY <2>4 DEF UndoneFirst
  <2>6. Rollback(c)
    BY <2>1, <2>2, <2>5 DEF Rollback
  <2> QED
    BY <2>3, <2>6
<1>5. Beats /\ SeenWhileRunning
  BY <1>0 DEF Beats, SeenWhileRunning
<1>6. Records
  BY <1>0, <1>1 DEF Records
<1>7. InOrder
  BY <1>0 DEF InOrder
<1>8. Pending
  <2>1. \A c \in Call : pc[c] \notin Sending
    BY <1>0 DEF Sending
  <2>2. remover # "send" /\ LastWrite = NoRecord
    BY <1>0 DEF LastWrite
  <2> QED
    BY <1>0, <2>1, <2>2 DEF Pending
<1> QED
  BY <1>3, <1>4, <1>5, <1>6, <1>7, <1>8 DEF IInv

LEMMA NextIInv == IInv /\ [Next]_vars => IInv'
<1> SUFFICES ASSUME IInv, [Next]_vars PROVE IInv'
  OBVIOUS
<1>1. ASSUME NEW c \in Call, run(c) \/ Unwind(c) PROVE IInv'
  <2>1. CASE Reject(c) \/ Start(c) \/ Send(c) \/ start_heartbeat(c)
    BY <2>1, KeepReject, KeepStart, KeepSend, KeepStartHeartbeat
  <2>2. CASE BeginRollback(c) \/ EndRollback(c) \/ Report(c) \/ Persist(c)
    BY <2>2, KeepBeginRollback, KeepEndRollback, KeepReport, KeepPersist
  <2>3. CASE drop_guard(c) \/ Unwind(c)
    BY <2>3, KeepDropGuard
  <2>4. CASE Execute(c)
    BY <2>4, KeepExecute
  <2>5. CASE \E s \in Step, ok \in BOOLEAN : RollbackStep(c, s, ok)
    BY <2>5, KeepRollbackStep
  <2> QED
    BY <1>1, <2>1, <2>2, <2>3, <2>4, <2>5 DEF run
<1>2. CASE Remove
  BY <1>2, KeepRemove
<1>3. CASE SendDelete
  BY <1>3, KeepSendDelete
<1>4. CASE \E i \in DOMAIN chan, ok \in BOOLEAN : Write(i, ok)
  BY <1>4, KeepWrite
<1>5. CASE Crash
  BY <1>5, KeepCrash
<1>6. CASE UNCHANGED vars
  <2>0. /\ UNCHANGED <<setup, entry, pc, call, events, heartbeat>> /\ remover' = remover
        /\ overlap' = overlap /\ sink' = sink
    BY <1>6 DEF vars
  <2>1. /\ setup' = setup /\ entry' = entry /\ pc' = pc /\ heartbeat' = heartbeat
        /\ \A d \in Call : Story(d)' /\ Rollback(d)'
        /\ Beats' /\ SeenWhileRunning'
        /\ UNCHANGED <<results, cancelled, undone, all, events, answer>>
    BY <2>0, Aside
  <2>2. TypeOK'
    BY <2>0, <2>1 DEF IInv, TypeOK, sink
  <2>3. \A d \in Call : Kept(d)
    BY <2>1, SameKept DEF SameCall
  <2>4. Records' /\ InOrder' /\ Pending'
    BY <2>0, <2>1, <2>3, Quiet
  <2> QED
    BY <2>1, <2>2, <2>4 DEF IInv
<1> QED
  BY <1>1, <1>2, <1>3, <1>4, <1>5, <1>6 DEF Next

\* The run sequence keeps IInv, for every set of calls, engines and flows.
THEOREM Invariance == Spec => []IInv
BY InitIInv, NextIInv, PTL DEF Spec

LEMMA ImpliesInv == IInv => Inv
<1> SUFFICES ASSUME IInv PROVE Inv
  OBVIOUS
<1>1. \A r \in {mirror, db} : r # NoRecord => r.by \in Call
  BY DEF IInv, Records, Truthful
<1>2. RefusedIsSilent
  <2> SUFFICES ASSUME NEW c \in Call, answer[c].kind = "Err"
               PROVE  events[c] = <<>> /\ mirror.by # c
    BY DEF RefusedIsSilent
  <2>1. events[c] = <<>>
    BY DEF IInv, Story
  <2>2. mirror.by = c => mirror # NoRecord
    BY CallAssumption DEF NoRecord
  <2> QED
    BY <2>1, <2>2 DEF IInv, Records, Truthful
<1>3. NothingLeftBehind
  <2> SUFFICES ASSUME AtRest
               PROVE  /\ mirror.state = "Running" => Queued(mirror.by) \/ pc[mirror.by] = "unwound"
                      /\ ~heartbeat
    BY DEF NothingLeftBehind
  <2>1. \A c \in Call : pc[c] \in {"done", "unwound", "crashed"}
    BY DEF AtRest, Over
  <2>2. ~heartbeat
    BY <2>1 DEF IInv, Beats, Guarded
  <2>3. ASSUME mirror.state = "Running" PROVE Queued(mirror.by) \/ pc[mirror.by] = "unwound"
    <3>1. mirror # NoRecord
      BY <2>3 DEF NoRecord
    <3>2. pc[mirror.by] \in {"done", "unwound", "crashed"}
      BY <1>1, <2>1, <3>1
    <3> QED
      BY <2>3, <3>2 DEF IInv, Records, Unsaved, Working
  <2> QED
    BY <2>2, <2>3
<1> QED
  BY <1>2, <1>3 DEF IInv, Inv

LEMMA ImpliesRollbackOrder == IInv => RollbackOrder
<1> SUFFICES ASSUME IInv, NEW c \in Call
             PROVE  /\ \A i, j \in DOMAIN undone[c] : i < j => undone[c][i].step > undone[c][j].step
                    /\ Undone(c) \subseteq ToUndo(c)
                    /\ undone[c] # <<>> => HasFailures(c)
                    /\ Finished(c) /\ MayRollBack(c) => Undone(c) = ToUndo(c)
                    /\ Finished(c) =>
                          (answer[c].rolled_back <=>
                              MayRollBack(c) /\ \A i \in DOMAIN undone[c] : undone[c][i].ok)
  BY DEF RollbackOrder
<1>1. Story(c) /\ Rollback(c)
  BY DEF IInv
<1>2. undone[c] # <<>> => HasFailures(c)
  BY <1>1 DEF Rollback, MayRollBack
<1>3. ASSUME Finished(c)
      PROVE  answer[c].rolled_back <=>
                MayRollBack(c) /\ \A i \in DOMAIN undone[c] : undone[c][i].ok
  <2>1. answer[c].rolled_back = all[c]
    BY <1>1, <1>3 DEF Story, RolledBack
  <2>2. all[c] <=> MayRollBack(c) /\ \A i \in DOMAIN undone[c] : undone[c][i].ok
    BY <1>1, <1>3 DEF Rollback
  <2> QED
    BY <2>1, <2>2
<1> QED
  BY <1>1, <1>2, <1>3 DEF Rollback, UndoneFirst

LEMMA Tuples ==
  ASSUME NEW x, NEW y, NEW z
  PROVE  /\ <<x>> \o <<y>> = <<x, y>>
         /\ <<>> \o <<y>> = <<y>>
         /\ <<x>> \o (<<y>> \o <<z>>) = <<x, y, z>>
         /\ Len(<<x, y>>) = 2 /\ Len(<<x, y, z>>) = 3
         /\ <<x, y>>[2] = y /\ <<x, y, z>>[2] = y /\ <<x, y, z>>[3] = z
<1>1. ASSUME NEW a, NEW b PROVE <<a>> \o <<b>> = <<a, b>> /\ <<>> \o <<b>> = <<b>>
  <2> DEFINE S == {a, b}
             q == <<a>> \o <<b>>
  <2>1. /\ <<a>> \in Seq(S) /\ <<b>> \in Seq(S) /\ <<a, b>> \in Seq(S)
        /\ Len(<<a>>) = 1 /\ Len(<<b>>) = 1 /\ Len(<<a, b>>) = 2
        /\ <<a, b>>[1] = a /\ <<a, b>>[2] = b
    OBVIOUS
  <2>2. /\ q \in Seq(S) /\ Len(q) = 2 /\ q[1] = a /\ q[2] = b
    BY <2>1, ConcatProperties
  <2> HIDE DEF q, S
  <2>3. \A i \in 1 .. Len(q) : i = 1 \/ i = 2
    BY <2>2
  <2>4. q = <<a, b>>
    BY <2>1, <2>2, <2>3, SeqEqual
  <2>5. <<>> \o <<b>> = <<b>>
    BY <2>1, ConcatEmptySeq
  <2> QED
    BY <2>4, <2>5 DEF q
<1>2. <<x>> \o <<y, z>> = <<x, y, z>>
  <2> DEFINE S == {x, y, z}
             q == <<x>> \o <<y, z>>
  <2>1. /\ <<x>> \in Seq(S) /\ <<y, z>> \in Seq(S) /\ <<x, y, z>> \in Seq(S)
        /\ Len(<<x>>) = 1 /\ Len(<<y, z>>) = 2 /\ Len(<<x, y, z>>) = 3
        /\ <<x, y, z>>[1] = x /\ <<x, y, z>>[2] = y /\ <<x, y, z>>[3] = z
    OBVIOUS
  <2>2. /\ q \in Seq(S) /\ Len(q) = 3 /\ q[1] = x /\ q[2] = y /\ q[3] = z
    BY <2>1, ConcatProperties
  <2> HIDE DEF q, S
  <2>3. \A i \in 1 .. Len(q) : i = 1 \/ i = 2 \/ i = 3
    BY <2>2
  <2>4. q = <<x, y, z>>
    BY <2>1, <2>2, <2>3, SeqEqual
  <2> QED
    BY <2>4 DEF q
<1>3. /\ Len(<<x, y>>) = 2 /\ Len(<<x, y, z>>) = 3
      /\ <<x, y>>[2] = y /\ <<x, y, z>>[2] = y /\ <<x, y, z>>[3] = z
  OBVIOUS
<1> QED
  BY <1>1, <1>2, <1>3

LEMMA ImpliesOutputsAgree == IInv => OutputsAgree
<1> SUFFICES ASSUME IInv, NEW c \in Call, Finished(c)
             PROVE  /\ answer[c].success <=> events[c] = <<"flow_started", "flow_completed">>
                    /\ answer[c].rolled_back <=> (Len(events[c]) = 3 /\ events[c][2] = "flow_rolled_back")
                    /\ ~answer[c].success =>
                          events[c][Len(events[c])] \in {"failed", "cancelled", "rolled_back"}
                    /\ \A r \in {mirror, db} : r.by = c /\ r.state # "Running" =>
                          /\ r.state = "Completed" <=> answer[c].success
                          /\ r.state = "RolledBack" <=> answer[c].rolled_back
  BY DEF OutputsAgree
<1>s. Story(c) /\ Rollback(c)
  BY DEF IInv
<1>1. /\ events[c] = <<"flow_started">> \o TerminalEvents(c)
      /\ cancelled[c] => entry[c] = "cancellation"
  BY <1>s DEF Story
<1>a. answer[c] = [kind |-> "Ok", success |-> Success(c), rolled_back |-> RolledBack(c)]
  BY <1>s DEF Story
<1>b. (answer[c].success <=> Success(c)) /\ (answer[c].rolled_back <=> all[c])
  BY <1>a DEF RolledBack
<1>2. all[c] => HasFailures(c)
  BY <1>s DEF Rollback, MayRollBack
<1>3. Success(c) <=> ~HasFailures(c) /\ ~cancelled[c]
  BY DEF Success
<1>4. FailReason(c) \in {"failed", "cancelled", "rolled_back"}
  BY DEF FailReason
<1>e. /\ Success(c) => events[c] = <<"flow_started", "flow_completed">>
      /\ ~Success(c) /\ all[c] => events[c] = <<"flow_started", "flow_rolled_back", FailReason(c)>>
      /\ ~Success(c) /\ ~all[c] => events[c] = <<"flow_started", FailReason(c)>>
  <2>1. CASE Success(c)
    <3>1. TerminalEvents(c) = <<"flow_completed">>
      BY <2>1 DEF TerminalEvents
    <3> QED
      BY <1>1, <2>1, <3>1, Tuples
  <2>2. CASE ~Success(c) /\ all[c]
    <3>1. TerminalEvents(c) = <<"flow_rolled_back">> \o <<FailReason(c)>>
      BY <2>2 DEF TerminalEvents, RolledBack
    <3> QED
      BY <1>1, <2>2, <3>1, Tuples
  <2>3. CASE ~Success(c) /\ ~all[c]
    <3>1. TerminalEvents(c) = <<>> \o <<FailReason(c)>>
      BY <2>3 DEF TerminalEvents, RolledBack
    <3>2. TerminalEvents(c) = <<FailReason(c)>>
      BY <3>1, Tuples
    <3> QED
      BY <1>1, <2>3, <3>2, Tuples
  <2> QED
    BY <2>1, <2>2, <2>3
<1>5. /\ Success(c) <=> events[c] = <<"flow_started", "flow_completed">>
      /\ all[c] <=> (Len(events[c]) = 3 /\ events[c][2] = "flow_rolled_back")
      /\ ~Success(c) => events[c][Len(events[c])] \in {"failed", "cancelled", "rolled_back"}
  <2>1. CASE Success(c)
    <3>1. ~all[c] /\ Len(events[c]) = 2
      BY <1>2, <1>3, <1>e, <2>1, Tuples
    <3> QED
      BY <1>e, <2>1, <3>1
  <2>2. CASE ~Success(c) /\ all[c]
    <3>1. Len(events[c]) = 3 /\ events[c][2] = "flow_rolled_back" /\ events[c][3] = FailReason(c)
      BY <1>e, <2>2, Tuples
    <3>2. Len(<<"flow_started", "flow_completed">>) = 2
      BY Tuples
    <3> QED
      BY <1>4, <2>2, <3>1, <3>2
  <2>3. CASE ~Success(c) /\ ~all[c]
    <3>1. Len(events[c]) = 2 /\ events[c][2] = FailReason(c)
      BY <1>e, <2>3, Tuples
    <3>2. <<"flow_started", "flow_completed">>[2] = "flow_completed"
      BY Tuples
    <3> QED
      BY <1>4, <2>3, <3>1, <3>2
  <2> QED
    BY <2>1, <2>2, <2>3
<1>6. ASSUME NEW r \in {mirror, db}, r.by = c, r.state # "Running"
      PROVE  (r.state = "Completed" <=> Success(c)) /\ (r.state = "RolledBack" <=> all[c])
  <2>1. r # NoRecord
    BY <1>6, CallAssumption DEF NoRecord
  <2>2. PersistsStart(c) /\ r.state = FinalState(c)
    BY <1>6, <2>1 DEF IInv, Records, Truthful
  <2>3. ~cancelled[c]
    BY <1>1, <2>2 DEF PersistsStart
  <2> QED
    BY <1>2, <1>3, <2>2, <2>3 DEF FinalState
<1> QED
  BY <1>b, <1>5, <1>6

LEMMA ImpliesDurable == IInv => Durable
<1> SUFFICES ASSUME IInv, setup.store = "sql", chan = <<>>, ~InBetween, faults = {}, ~overlap
             PROVE  db = mirror
  BY DEF Durable
<1> QED
  BY DEF IInv, Pending, LastWrite

\* Whatever calls, executors, clients and the database do: a refused call left no
\* trace, a local run alone on its flow is seen alive while it works, and when all
\* is over no heartbeat and no Running record remain, but of the queue path or of a
\* run that was unwound.
THEOREM EngineSafe == Spec => []Inv
BY Invariance, ImpliesInv, PTL

\* Rollbacks come last step first, each completed rollbackable step once, and
\* rolled_back is claimed exactly if all of them were tried and none failed.
THEOREM RollbackInOrder == Spec => []RollbackOrder
BY Invariance, ImpliesRollbackOrder, PTL

\* FlowResult, events and records of a call tell the same story.
THEOREM OneStory == Spec => []OutputsAgree
BY Invariance, ImpliesOutputsAgree, PTL

\* Once the background task caught up, the table holds what the mirror holds, unless
\* a write failed, the process died or two clients overlapped.
THEOREM TableFollowsMirror == Spec => []Durable
BY Invariance, ImpliesDurable, PTL

\* A final record in the table is never overwritten by the Running record of the
\* same call, whatever fails and whoever else saves.
THEOREM NeverBackToRunning == Spec => DbForward
<1> DEFINE Forward == db.state \in Final /\ db'.state = "Running" => db'.by # db.by
<1>1. IInv /\ [Next]_vars => [Forward]_vars
  <2> SUFFICES ASSUME IInv, Next, db' # db PROVE Forward
    BY DEF vars, sink, Final
  <2>1. PICK i \in DOMAIN chan, ok \in BOOLEAN : Write(i, ok)
    BY DEF Next, run, Reject, Start, Send, start_heartbeat, BeginRollback, EndRollback, Report,
           Persist, drop_guard, Execute, RollbackStep, Unwind, Remove, SendDelete, Crash, save,
           sink, sink_crash
  <2>2. db' = chan[1] /\ 1 \in DOMAIN chan
    <3>1. chan \in Seq(Record) /\ chan # <<>> /\ db' = Head(chan)
      BY <2>1 DEF Write, write_op, IInv, TypeOK
    <3>2. Head(chan) = chan[1] /\ DOMAIN chan = 1 .. Len(chan) /\ Len(chan) > 0 /\ Len(chan) \in Nat
      BY <3>1, TailShape
    <3> QED
      BY <3>1, <3>2
  <2>3. ~Later(chan[1], db)
    BY <2>2 DEF IInv, InOrder
  <2> QED
    BY <2>2, <2>3 DEF Later
<1> QED
  BY <1>1, Invariance, PTL DEF Spec, DbForward

=============================================================================
