------------------------------ MODULE Admission ------------------------------
(***************************************************************************)
(* What decides whether and how a flow is executed: FlowDef::validate, and *)
(* the match of its requirements with the hardware.  Each behaviour is one *)
(* such call; the search for cycles takes many steps.                      *)
(***************************************************************************)
EXTENDS FlowValidate

CONSTANTS Flows,        \* the definitions that are validated
          MaxDevices    \* bound on the devices of a family

ASSUME AdmissionAssumption == Flows \subseteq Definition /\ MaxDevices \in Nat

VARIABLES job,   \* what this behaviour does
          out    \* the answer of a call, "none" before it

dvars == <<job, out, svars>>

-----------------------------------------------------------------------------
(* Hardware. *)

Requirement == {"None", "Gpu", "Tpu", "GpuOrTpu"}

\* The devices that can meet a requirement.
satisfying(r, gpus, tpus) ==
    CASE r = "Gpu" -> gpus
      [] r = "Tpu" -> tpus
      [] r = "GpuOrTpu" -> gpus + tpus
      [] OTHER -> 0

\* The first step that no device can take refuses the flow.
check_requirements(reqs, gpus, tpus) ==
    IF \E r \in reqs \ {"None"} : satisfying(r, gpus, tpus) = 0 THEN "HardwareUnavailable" ELSE "Ok"

AtLeastOne(n) == IF n = 0 THEN 1 ELSE n

Lesser(a, b) == IF a < b THEN a ELSE b

Limit(limit, needed, count) == IF needed THEN Lesser(limit, AtLeastOne(count)) ELSE limit

effective_concurrency(reqs, base, gpus, tpus) ==
    LET gpu_needed == reqs \cap {"Gpu", "GpuOrTpu"} # {}
        tpu_needed == reqs \cap {"Tpu", "GpuOrTpu"} # {}
    IN  AtLeastOne(Limit(Limit(base, gpu_needed, gpus), tpu_needed, tpus))

-----------------------------------------------------------------------------

Devices == 0 .. MaxDevices

ValidateJobs == {[kind |-> "validate", flow |-> f] : f \in Flows}

HardwareJobs ==
    {[kind |-> "hardware", reqs |-> reqs, base |-> base, gpus |-> g, tpus |-> t] :
        reqs \in SUBSET Requirement, base \in Devices, g \in Devices, t \in Devices}

DInit == job \in ValidateJobs \cup HardwareJobs /\ out = "none" /\ SearchInit

Searching == job.kind = "validate" /\ job.flow.mode = "Dag" /\ out = "none"

\* check_cycles runs.
SearchCycles ==
    /\ Searching
    /\ Search(job.flow)
    /\ UNCHANGED <<job, out>>

Validate ==
    /\ job.kind = "validate" /\ out = "none"
    /\ Searching => SearchEnded(job.flow)
    /\ out' = FlowDef_validate(job.flow)
    /\ UNCHANGED <<job, svars>>

CheckHardware ==
    /\ job.kind = "hardware" /\ out = "none"
    /\ out' = check_requirements(job.reqs, job.gpus, job.tpus)
    /\ UNCHANGED <<job, svars>>

DNext == SearchCycles \/ Validate \/ CheckHardware

DSpec == DInit /\ [][DNext]_dvars

-----------------------------------------------------------------------------
(* Properties. *)

\* FlowDef::validate gives the verdict that the definition deserves: the search
\* reports a cycle exactly where the dependencies have one.
ValidateDecides == job.kind = "validate" /\ out # "none" => out = Expected(job.flow)

\* A flow the hardware check let through is never limited to less than one
\* step at a time, nor to more than its base or the devices of a family it needs.
HardwareLimits ==
    job.kind = "hardware" /\ out = "Ok" =>
        LET limit == effective_concurrency(job.reqs, job.base, job.gpus, job.tpus)
        IN  /\ limit >= 1
            /\ limit <= AtLeastOne(job.base)
            /\ "Gpu" \in job.reqs => limit <= job.gpus
            /\ "Tpu" \in job.reqs => limit <= job.tpus

\* A definition is let through to the executors exactly when it should be.
AdmissionDecides == ValidateDecides /\ HardwareLimits

\* The search is where it should be until the answer is given.
AdmissionInv ==
    /\ job \in ValidateJobs \cup HardwareJobs
    /\ job.kind = "validate" => SearchInv(job.flow)
    /\ AdmissionDecides
=============================================================================
