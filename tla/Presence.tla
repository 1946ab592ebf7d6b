------------------------------ MODULE Presence ------------------------------
(***************************************************************************)
(* The check stack of cmd/verify/presence.go: five checks read the cluster *)
(* one after the other, while Crossplane, Helm and the other Jobs go on    *)
(* changing it, and together give the verdict of --mode=presence.          *)
(***************************************************************************)
EXTENDS Sequences, Naturals

CONSTANTS
    MRs,            \* the RDS Instance managed resources the drill is to have
    Deployments,    \* the saas-pitr-* Deployments it is to have
    requiredConfigMaps,
    MaxErrors       \* bound: API errors in one run

ASSUME PresenceAssumption ==
    /\ MRs # {} /\ Deployments # {} /\ requiredConfigMaps # {}
    /\ MaxErrors \in Nat

VARIABLES
    mr, deployment, clone, canary,  \* the cluster
    steady,                         \* in it, what has come up stays up
    results,                        \* what the checks run so far reported
    errors                          \* what is left of MaxErrors

cluster == <<mr, deployment, clone, canary, steady>>
vars == <<mr, deployment, clone, canary, steady, results, errors>>

presenceChecks_RdsFirst ==
    <<"rds-pitr-ready", "mr-conditions-actionable", "configmaps-cloned",
      "saas-deployments-ready", "canary-create-succeeded">>
presenceChecks ==
    <<"mr-conditions-actionable", "rds-pitr-ready", "configmaps-cloned",
      "saas-deployments-ready", "canary-create-succeeded">>
CheckNames == {presenceChecks[i] : i \in DOMAIN presenceChecks}

(* "terminal" and "degraded": LastAsyncOperation is False for one of the   *)
(* terminalReasons, the latter of an MR that is Ready all the same, after  *)
(* a failed update; "unsynced": Synced is False (ReconcileError).          *)
MRStates == {"absent", "creating", "ready", "degraded", "terminal", "unsynced"}
AsyncFailed(m) == mr[m] \in {"terminal", "degraded"}
Ready(m) == mr[m] \in {"ready", "degraded"}

Reports == [name : CheckNames, passed : BOOLEAN,
            answered : BOOLEAN,                     \* history: its List was answered
            listed : SUBSET (MRs \cup Deployments)] \* history: with this

TypeOK ==
    /\ mr \in [MRs -> MRStates]
    /\ deployment \in [Deployments -> {"absent", "rolling", "ready"}]
    /\ clone \in [requiredConfigMaps -> {"absent", "empty", "full"}]
    /\ canary \in {"absent", "running", "succeeded"}
    /\ steady \in BOOLEAN
    /\ results \in Seq(Reports)
    /\ Len(results) <= Len(presenceChecks)
    /\ errors \in 0..MaxErrors

Init ==
    /\ mr \in [MRs -> {"absent", "creating", "ready"}]
    /\ deployment \in [Deployments -> {"absent", "rolling", "ready"}]
    /\ clone \in [requiredConfigMaps -> {"absent", "empty", "full"}]
    /\ canary \in {"absent", "running", "succeeded"}
    /\ steady \in BOOLEAN
    /\ results = <<>> /\ errors = MaxErrors

-----------------------------------------------------------------------------
(* What each check reads from the lists it gets.  The lists hold what      *)
(* exists, however much was expected.                                      *)
Listed == {m \in MRs : mr[m] # "absent"}
ListedDeployments == {d \in Deployments : deployment[d] # "absent"}

mrConditionsActionable == \A m \in Listed : ~AsyncFailed(m)
rdsReady_Sticky == \E m \in Listed : Ready(m)
rdsReady == Listed # {} /\ \A m \in Listed : Ready(m)
configMapsCloned == \A c \in requiredConfigMaps : clone[c] = "full"
deploymentsReady ==
    /\ ListedDeployments # {}
    /\ \A d \in ListedDeployments : deployment[d] = "ready"
canaryCreateSucceeded == canary = "succeeded"

Holds(name) ==
    CASE name = "mr-conditions-actionable" -> mrConditionsActionable
      [] name = "rds-pitr-ready" -> rdsReady
      [] name = "configmaps-cloned" -> configMapsCloned
      [] name = "saas-deployments-ready" -> deploymentsReady
      [] name = "canary-create-succeeded" -> canaryCreateSucceeded

Lists(name) ==
    CASE name \in {"mr-conditions-actionable", "rds-pitr-ready"} -> Listed
      [] name = "saas-deployments-ready" -> ListedDeployments
      [] OTHER -> {}

(* A check whose call fails does not pass; only mr-conditions-actionable   *)
(* goes on with the next GVR, and there is no other.                       *)
PassedOnError(name) == name = "mr-conditions-actionable"

Finished == Len(results) = Len(presenceChecks)

(* runChecks: the next check in the list, whatever the others reported.    *)
Current == presenceChecks[Len(results) + 1]
Answer == [name |-> Current, passed |-> Holds(Current), answered |-> TRUE, listed |-> Lists(Current)]
NoAnswer == [name |-> Current, passed |-> PassedOnError(Current), answered |-> FALSE, listed |-> {}]

RunCheck_FailFast ==
    /\ ~Finished
    /\ \A i \in DOMAIN results : results[i].passed
    /\ results' = Append(results, Answer)
    /\ UNCHANGED <<cluster, errors>>
RunCheck_Twice ==
    /\ ~Finished
    /\ results' = IF Answer.passed THEN Append(results, Answer) ELSE results \o <<Answer, Answer>>
    /\ UNCHANGED <<cluster, errors>>
RunCheck ==
    /\ ~Finished
    /\ \/ results' = Append(results, Answer) /\ UNCHANGED errors
       \/ errors > 0 /\ errors' = errors - 1 /\ results' = Append(results, NoAnswer)
    /\ UNCHANGED cluster

allPassed == \A i \in DOMAIN results : results[i].passed
Phase == IF allPassed THEN "Succeeded" ELSE "Failed"

-----------------------------------------------------------------------------
(* The cluster, until the run is over.                                     *)
MRMoves(m) ==
    /\ \E to \in CASE mr[m] = "absent" -> {"creating"}
                   [] mr[m] = "creating" -> {"ready", "terminal", "unsynced"}
                   [] mr[m] = "unsynced" -> {"creating"}
                   [] mr[m] = "ready" -> {"degraded"} \cup IF steady THEN {} ELSE {"creating"}
                   [] mr[m] = "degraded" -> {"ready"} \cup IF steady THEN {} ELSE {"creating"}
                   [] OTHER -> {} : mr' = [mr EXCEPT ![m] = to]
    /\ UNCHANGED <<deployment, clone, canary>>

DeploymentMoves(d) ==
    /\ \/ deployment[d] = "absent" /\ deployment' = [deployment EXCEPT ![d] = "rolling"]
       \/ deployment[d] = "rolling" /\ deployment' = [deployment EXCEPT ![d] = "ready"]
       \/ ~steady /\ deployment[d] = "ready" /\ deployment' = [deployment EXCEPT ![d] = "rolling"]
    /\ UNCHANGED <<mr, clone, canary>>

CloneAppears(c) ==
    /\ clone[c] # "full"
    /\ clone' = [clone EXCEPT ![c] = "full"]
    /\ UNCHANGED <<mr, deployment, canary>>

CanaryMoves ==
    /\ canary' = IF canary = "absent" THEN "running" ELSE "succeeded"
    /\ UNCHANGED <<mr, deployment, clone>>

ClusterMoves ==
    /\ ~Finished
    /\ \/ CanaryMoves
       \/ \E m \in MRs : MRMoves(m)
       \/ \E d \in Deployments : DeploymentMoves(d)
       \/ \E c \in requiredConfigMaps : CloneAppears(c)
    /\ UNCHANGED <<steady, results, errors>>

Next == RunCheck \/ ClusterMoves
Spec == Init /\ [][Next]_vars /\ WF_vars(RunCheck)

-----------------------------------------------------------------------------
(* Properties.                                                             *)

(* "never fail-fast": every run comes to report on all five checks, also   *)
(* when one fails or cannot be made, and while the cluster keeps changing. *)
EveryCheckReported == <>(Finished /\ {results[i].name : i \in DOMAIN results} = CheckNames)

(* In a cluster where nothing goes down again: all that a check was shown  *)
(* is up when the verdict is given, every MR and every Deployment of its   *)
(* list, whatever the order in which they came up and were asked, and the  *)
(* lists of the two checks that want things up were not empty.  It is all  *)
(* that Succeeded says: an MR or a Deployment that came after its check is *)
(* in no list, whatever its state, nor is a terminal failure of a later    *)
(* date than the first check.                                              *)
ListedBy(name) == UNION {results[i].listed : i \in {k \in DOMAIN results : results[k].name = name}}

SucceededIsGrounded ==
    steady /\ Finished /\ Phase = "Succeeded" =>
        /\ ListedBy("rds-pitr-ready") # {} /\ ListedBy("saas-deployments-ready") # {}
        /\ \A m \in ListedBy("mr-conditions-actionable") \cup ListedBy("rds-pitr-ready") : Ready(m)
        /\ \A d \in ListedBy("saas-deployments-ready") : deployment[d] = "ready"
        /\ \A c \in requiredConfigMaps : clone[c] = "full"
        /\ canary = "succeeded"

(* "The operator's first failed-Check is the actionable one": when an     *)
(* operation on an MR has failed for good as the run starts and the list   *)
(* of MRs is answered, the first thing reported is that.                   *)
ActionableFirst ==
    [][results = <<>> /\ results' # <<>> /\ (\E m \in MRs : AsyncFailed(m))
       /\ results'[1].answered
       => results'[1].name = "mr-conditions-actionable" /\ ~results'[1].passed]_vars
=============================================================================
