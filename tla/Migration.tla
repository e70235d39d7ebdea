------------------------------ MODULE Migration ------------------------------
(***************************************************************************)
(* MigrationRegistry: migrations are registered one by one, then a flow is *)
(* migrated hop by hop, to a given version or to the latest one.  The      *)
(* transform of a migration is the consumer's; it may fail.                *)
(***************************************************************************)
EXTENDS Integers, FiniteSets

CONSTANT MaxVersion   \* bound on the versions of the model

ASSUME VersionAssumption == MaxVersion \in Nat

Version == 0 .. MaxVersion

VARIABLES
    migrations,   \* the registered pairs <<source, target>>
    start,        \* the version the flow had when it was handed over
    version,      \* the version it has now
    target,       \* where migrate_to takes it
    mpc           \* "setup", "loop", "Ok", "Err", "failed" (a transform's Err), "panicked"

mvars == <<migrations, start, version, target, mpc>>

MInit ==
    /\ migrations = {}
    /\ start \in Version
    /\ version = start
    /\ target = start
    /\ mpc = "setup"

Sources == {m[1] : m \in migrations}

\* Mutant: a migration may lead back to an earlier version.
RegistrableLax(from, to) == to # from /\ from \notin Sources

\* The two assertions of register.
Registrable(from, to) == to > from /\ from \notin Sources

register(from, to) ==
    /\ mpc = "setup"
    /\ IF Registrable(from, to)
       THEN migrations' = migrations \cup {<<from, to>>} /\ UNCHANGED mpc
       ELSE mpc' = "panicked" /\ UNCHANGED migrations
    /\ UNCHANGED <<start, version, target>>

migrate_to(t) ==
    /\ mpc = "setup"
    /\ target' = t
    /\ mpc' = IF version = t THEN "Ok" ELSE IF version > t THEN "Err" ELSE "loop"
    /\ UNCHANGED <<migrations, start, version>>

Latest(v) == \E m \in migrations : m[2] = v /\ \A k \in migrations : k[2] <= v

\* An empty registry, or a flow that is current, leaves the flow as it is.
migrate_latest ==
    /\ mpc = "setup"
    /\ \/ /\ \A m \in migrations : m[2] <= version
          /\ target' = version
          /\ mpc' = "Ok"
       \/ \E t \in Version : /\ Latest(t) /\ t > version
                             /\ target' = t
                             /\ mpc' = "loop"
    /\ UNCHANGED <<migrations, start, version>>

\* No migration starts here, or the one that does overshoots the target.
Stuck ==
    /\ mpc = "loop"
    /\ version < target
    /\ \A m \in migrations : m[1] = version => m[2] > target
    /\ mpc' = "Err"
    /\ UNCHANGED <<migrations, start, version, target>>

\* Mutant: overshooting the target is not looked at.
HopFar(ok) ==
    /\ mpc = "loop"
    /\ version < target
    /\ \E m \in migrations :
          /\ m[1] = version
          /\ version' = IF ok THEN m[2] ELSE version
    /\ mpc' = IF ok THEN "loop" ELSE "failed"
    /\ UNCHANGED <<migrations, start, target>>

\* One migration; when its transform fails the flow is lost.
Hop(ok) ==
    /\ mpc = "loop"
    /\ version < target
    /\ \E m \in migrations :
          /\ m[1] = version /\ m[2] <= target
          /\ version' = IF ok THEN m[2] ELSE version
    /\ mpc' = IF ok THEN "loop" ELSE "failed"
    /\ UNCHANGED <<migrations, start, target>>

Arrive ==
    /\ mpc = "loop"
    /\ version >= target
    /\ mpc' = "Ok"
    /\ UNCHANGED <<migrations, start, version, target>>

Migrating == Stuck \/ Arrive \/ \E ok \in BOOLEAN : Hop(ok)

MNext ==
    \/ \E from, to \in Version : register(from, to)
    \/ \E t \in Version : migrate_to(t)
    \/ migrate_latest
    \/ Migrating

MSpec == MInit /\ [][MNext]_mvars

-----------------------------------------------------------------------------
(* Properties. *)

MTypeOK ==
    /\ migrations \subseteq Version \X Version
    /\ start \in Version /\ version \in Version /\ target \in Version
    /\ mpc \in {"setup", "loop", "Ok", "Err", "failed", "panicked"}

\* No two migrations leave one version, and each of them leads up.
RegistrySound ==
    \A m, k \in migrations : m[2] > m[1] /\ (m[1] = k[1] => m = k)

\* A run of migrations never passes its target, and Ok means it got there.
NeverPast ==
    /\ mpc = "loop" => version <= target
    /\ mpc = "Ok" => version = target

\* P are the versions a chain from start to target leaves.
Chain(P) == {start} \cup {m[2] : m \in {k \in migrations : k[1] \in P}} = P \cup {target}

\* migrate_to gives up exactly when there is no chain of migrations.
ErrOnlyWithoutPath ==
    mpc = "Err" => ~\E P \in SUBSET (Sources \ {target}) : Chain(P)

\* The inductive part: what register and the loop of migrate_to keep.
MigrationSafe == MTypeOK /\ RegistrySound /\ NeverPast

\* The registry is sound, a flow never passes its target, and migrate_to gives
\* up only where it must.
MigrationSound == MigrationSafe /\ ErrOnlyWithoutPath

\* The inductive part for the last property.  A chain to the target leads over
\* every version the flow has had, as there is one way out of each.
OnTheWay ==
    /\ mpc = "setup" => version = start
    /\ mpc = "loop" => \A P \in SUBSET (Sources \ {target}) : Chain(P) => version \in P \cup {target}

MigrationIInv == MigrationSound /\ OnTheWay
=============================================================================
