----------------------------- MODULE ProgressHub -----------------------------
(***************************************************************************)
(* ProgressHub: fans the progress that steps report out to the clients     *)
(* that stream it.  A report never waits for a client and is dropped for   *)
(* those that do not listen.  The broadcast channel behind the hub is      *)
(* external: how far a receiver may lag and what it is told of a gap is    *)
(* its affair, and inbox is what the hub sent to a client, read or not.    *)
(***************************************************************************)
EXTENDS Integers, Sequences

CONSTANT Client       \* connected client tasks

VARIABLES reports,    \* how many events were reported
          state,      \* per client: "new", "live" or "gone"
          inbox       \* per client: the events sent to it

hub == <<reports, state, inbox>>

HubInit ==
    /\ reports = 0
    /\ state = [c \in Client |-> "new"]
    /\ inbox = [c \in Client |-> <<>>]

\* The sink: the event goes to whoever is subscribed.
sink(event) ==
    /\ reports' = reports + 1
    /\ inbox' = [c \in Client |-> IF state[c] = "live" THEN Append(inbox[c], event) ELSE inbox[c]]
    /\ UNCHANGED state

subscribe(c) ==
    /\ state[c] = "new"
    /\ state' = [state EXCEPT ![c] = "live"]
    /\ UNCHANGED <<reports, inbox>>

\* The client disconnects and its receiver is dropped.
disconnect(c) ==
    /\ state[c] = "live"
    /\ state' = [state EXCEPT ![c] = "gone"]
    /\ UNCHANGED <<reports, inbox>>

ClientStep(c) == subscribe(c) \/ disconnect(c)
=============================================================================
