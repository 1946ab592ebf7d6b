------------------------------- MODULE Verify -------------------------------
(***************************************************************************)
(* cmd/verify: the Job that decides whether the restored environment has   *)
(* the data, stores the verdict in the drill-result ConfigMap (through     *)
(* internal/result) and exits.  Mode "api" authenticates and describes     *)
(* every secret path; mode "presence" runs the check stack of presence.go. *)
(* An item is a secret path in the first mode and a check in the second.   *)
(***************************************************************************)
EXTENDS Cluster

CONSTANTS
    Mode,           \* "api" or "presence"
    Items,          \* what one run looks at
    Needs,          \* item -> objects of which one must be there for it to be found
    MaxVerifyPods   \* bound: the Job's backoffLimit + 1

ASSUME VerifyAssumption ==
    /\ Mode \in {"api", "presence"}
    /\ Items # {} /\ Needs \in [Items -> SUBSET Objects]
    /\ MaxVerifyPods \in Nat

VARIABLES
    vpc,        \* what the Pod is about to do; "idle": none runs, one may start
    vtodo,      \* items not looked at yet
    vmissing,   \* items not found (failed checks)
    vlive,      \* the Pod's context has not expired
    vrv,        \* resourceVersion of the copy Get returned
    vpods       \* Pods started so far

verifyVars == <<vpc, vtodo, vmissing, vlive, vrv, vpods>>

VerifyAtRest == {"idle", "complete"}
VerifyRunning == vpc \notin VerifyAtRest

VerifyTypeOK ==
    /\ vpc \in {"auth", "look", "create", "get", "update", "exit0", "exit1"}
               \cup VerifyAtRest
    /\ vtodo \subseteq Items /\ vmissing \subseteq Items
    /\ vlive \in BOOLEAN
    /\ vrv \in Nat
    /\ vpods \in 0..MaxVerifyPods

VerifyInit ==
    /\ vpc = "idle" /\ vtodo = {} /\ vmissing = {}
    /\ vlive = TRUE /\ vrv = 0 /\ vpods = 0

-----------------------------------------------------------------------------
(* A call under the Pod's context: once the context has expired every call *)
(* fails without reaching the server.                                      *)
VerifyCall(effect, noEffect, onOk, onErr) ==
    \/ vlive /\ Request(effect, noEffect, onOk, onErr)
    \/ ~vlive /\ noEffect /\ onErr /\ UNCHANGED faults

(* The Job controller replaces a failed Pod while the Job is live.         *)
VerifyPodStarts ==
    /\ vpc = "idle" /\ obj[VerifyJob] = "live" /\ vpods < MaxVerifyPods
    /\ vpods' = vpods + 1
    /\ vpc' = IF Mode = "api" THEN "auth" ELSE "look"
    /\ vtodo' = Items /\ vmissing' = {} /\ vlive' = TRUE /\ vrv' = 0
    /\ UNCHANGED clusterVars

(* pollUntilAuthSucceeds: success, or the wait is over (exit 1, unreported) *)
Authenticate ==
    /\ vpc = "auth"
    /\ vpc' \in IF vlive THEN {"look", "exit1"} ELSE {"exit1"}
    /\ UNCHANGED <<clusterVars, vtodo, vmissing, vlive, vrv, vpods>>

(* One DescribeItem or one Check.  Any error counts as "missing", also a   *)
(* transient one; no failure stops the loop.  A check looks at what its    *)
(* list returns, however much was expected, but not at nothing.            *)
Findable(i) == Needs[i] = {} \/ \E o \in Needs[i] : Present(o)

LookAt(i) ==
    /\ vpc = "look" /\ i \in vtodo
    /\ \/ vlive /\ Findable(i) /\ UNCHANGED vmissing
       \/ vmissing' = vmissing \cup {i}
    /\ vtodo' = vtodo \ {i}
    /\ vpc' = IF vtodo = {i} THEN "create" ELSE "look"
    /\ UNCHANGED <<clusterVars, vlive, vrv, vpods>>

Verdict_Partial == IF vmissing = {} THEN "Succeeded" ELSE "Partial"
Verdict == IF vmissing = {} THEN "Succeeded" ELSE "Failed"

(* The exit code: in presence mode "the report was stored", in api mode    *)
(* the verdict, whether or not it was stored.                              *)
AfterWrite_ByVerdict(stored) ==
    IF stored /\ vmissing = {} THEN "exit0" ELSE "exit1"
AfterWrite_BestEffort(stored) ==
    IF vmissing = {} THEN "exit0" ELSE "exit1"
AfterWrite(stored) ==
    IF Mode = "presence"
    THEN IF stored THEN "exit0" ELSE "exit1"
    ELSE IF vmissing = {} THEN "exit0" ELSE "exit1"

(* writeWithClient: Create; if that is refused, Get and Update, with the   *)
(* ConfigMap's data replaced as a whole.                                   *)
VerifyCreates ==
    /\ vpc = "create"
    /\ VerifyCall(Create(Verdict, ""), KeepConfigMap,
                  vpc' = IF CreateAccepted THEN AfterWrite(TRUE) ELSE "get",
                  vpc' = AfterWrite(FALSE))
    /\ UNCHANGED <<obj, preserve, consent, vtodo, vmissing, vlive, vrv, vpods>>

VerifyGets ==
    /\ vpc = "get"
    /\ VerifyCall(KeepConfigMap, KeepConfigMap,
                  vpc' = "update" /\ vrv' = cm.rv,
                  vpc' = AfterWrite(FALSE) /\ vrv' = 0)
    /\ UNCHANGED <<obj, preserve, consent, vtodo, vmissing, vlive, vpods>>

VerifyUpdates ==
    /\ vpc = "update"
    /\ VerifyCall(Update(vrv, Verdict, ""), KeepConfigMap,
                  vpc' = AfterWrite(UpdateAccepted(vrv)),
                  vpc' = AfterWrite(FALSE))
    /\ UNCHANGED <<obj, preserve, consent, vtodo, vmissing, vlive, vrv, vpods>>

(* What is left of a Pod that has ended.                                   *)
VerifyPodEnds(rest) ==
    /\ vpc' = rest
    /\ vtodo' = {} /\ vmissing' = {} /\ vlive' = TRUE /\ vrv' = 0
    /\ UNCHANGED vpods

VerifyExits ==
    /\ vpc \in {"exit0", "exit1"}
    /\ VerifyPodEnds(IF vpc = "exit0" THEN "complete" ELSE "idle")
    /\ UNCHANGED clusterVars

VerifyNext ==
    \/ VerifyPodStarts \/ Authenticate \/ VerifyExits
    \/ \E i \in Items : LookAt(i)
    \/ VerifyCreates \/ VerifyGets \/ VerifyUpdates

-----------------------------------------------------------------------------
(* The context (maxWait + 5 min, or 5 min) runs out under a slow server.   *)
VerifyContextExpires ==
    /\ VerifyRunning /\ vlive
    /\ Fault /\ vlive' = FALSE
    /\ UNCHANGED <<obj, cm, published, preserve, consent, vpc, vtodo, vmissing, vrv, vpods>>

(* The Pod dies between two steps: with its Job's deletion, or by eviction. *)
VerifyPodDies ==
    /\ VerifyRunning
    /\ IF obj[VerifyJob] # "live" THEN UNCHANGED faults ELSE Fault
    /\ VerifyPodEnds("idle")
    /\ UNCHANGED <<obj, cm, published, preserve, consent>>
=============================================================================
