------------------------------ MODULE Cluster ------------------------------
(***************************************************************************)
(* The Kubernetes API server as the Jobs of one drill see it: the objects  *)
(* that carry the drill's correlation id, the drill-result ConfigMap, the  *)
(* PITRSession's failureHandling.preserve, and what a call to the server   *)
(* may do.  None of this is code of the repository: it is modelled from    *)
(* how cmd/verify, cmd/cleanup and internal/result use it.                 *)
(***************************************************************************)
EXTENDS Naturals

CONSTANTS
    MRs,            \* the RDS Instance managed resources of the drill
    RestoreNs,      \* the per-drill restore-<short_hash> namespace
    VerifyJob, CleanupJob,
    Peers,          \* the drill's other Jobs (diagnostic-collect, canary-*)
    MaxFaults       \* bound: API faults and Pod deaths in one behaviour

Jobs == Peers \cup {VerifyJob, CleanupJob}
Objects == MRs \cup Jobs \cup {RestoreNs}

ASSUME NamesDistinct ==
    /\ MRs \cap Jobs = {} /\ RestoreNs \notin MRs \cup Jobs
    /\ VerifyJob # CleanupJob /\ Peers \cap {VerifyJob, CleanupJob} = {}
ASSUME FaultsBounded == MaxFaults \in Nat

VARIABLES
    obj,        \* where each object is in its life
    cm,         \* the drill-result ConfigMap; resourceVersion 0: it does not exist
    published,  \* history: every phase the ConfigMap has ever carried
    preserve,   \* the PITRSession's spec.failureHandling.preserve
    consent,    \* history: preserve has been FALSE at some time
    faults      \* what is left of MaxFaults

clusterVars == <<obj, cm, published, preserve, consent, faults>>

Verdicts == {"Succeeded", "Failed"}
CleanupStatuses == {"Completed", "Partial", "Skipped", "DryRun"}
ConfigMaps == [rv : Nat, phase : Verdicts \cup {""},
               cleanup : CleanupStatuses \cup {""}]
NoConfigMap == [rv |-> 0, phase |-> "", cleanup |-> ""]

ClusterTypeOK ==
    /\ obj \in [Objects -> {"live", "deleting", "gone"}]
    /\ cm \in ConfigMaps
    /\ published \subseteq Verdicts
    /\ preserve \in BOOLEAN /\ consent \in BOOLEAN
    /\ faults \in 0..MaxFaults

ClusterInit ==
    /\ obj = [o \in Objects |-> "live"]
    /\ cm = NoConfigMap
    /\ published = {}
    /\ preserve \in BOOLEAN /\ consent = ~preserve
    /\ faults = MaxFaults

-----------------------------------------------------------------------------
(* One request.  It is answered; or it is lost before the server acts on   *)
(* it; or the server acts and the answer is lost.  The caller cannot tell  *)
(* the last two apart.                                                     *)
Fault == faults > 0 /\ faults' = faults - 1

Request(effect, noEffect, onOk, onErr) ==
    \/ effect /\ onOk /\ UNCHANGED faults
    \/ Fault /\ onErr /\ (effect \/ noEffect)

(* Deletion marks an object; it is gone when its finalizers have run.      *)
(* Deleting what is gone (NotFound) or going is not an error to any caller *)
(* here, so a deletion that is answered always counts as done.             *)
Present(o) == obj[o] # "gone"
Delete(o) == obj' = [obj EXCEPT ![o] = IF @ = "live" THEN "deleting" ELSE @]

Store(phase, cleanup) ==
    /\ cm' = [rv |-> cm.rv + 1, phase |-> phase, cleanup |-> cleanup]
    /\ published' = published \cup ({phase} \ {""})
KeepConfigMap == UNCHANGED <<cm, published>>

(* Create is refused when the ConfigMap exists, Update when the caller's   *)
(* copy is not the current version.                                        *)
CreateAccepted == cm.rv = 0
Create(phase, cleanup) ==
    IF CreateAccepted THEN Store(phase, cleanup) ELSE KeepConfigMap
UpdateAccepted(rv) == cm.rv # 0 /\ rv = cm.rv
Update(rv, phase, cleanup) ==
    IF UpdateAccepted(rv) THEN Store(phase, cleanup) ELSE KeepConfigMap

-----------------------------------------------------------------------------
(* The environment: the operator edits the PITRSession at any time.        *)
OperatorEditsPreserve ==
    /\ preserve' = ~preserve
    /\ consent' = (consent \/ preserve)
    /\ UNCHANGED <<obj, cm, published, faults>>
=============================================================================
