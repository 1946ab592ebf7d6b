----------------------------- MODULE OneCallJobs -----------------------------
(***************************************************************************)
(* The Jobs that make one call and exit: cmd/canary-create,                *)
(* cmd/canary-delete (through internal/akeyless) and cmd/notify (through   *)
(* internal/slack).  None retries: their Jobs do, with another Pod, which  *)
(* knows nothing of the one before.  A request may be lost, may take       *)
(* effect without an answer, and may take effect after its Pod has given   *)
(* up on it, even after another Job of the drill has begun.                *)
(***************************************************************************)
EXTENDS Naturals

CONSTANTS
    MaxPods,    \* bound: the Jobs' backoffLimit + 1
    MaxFaults   \* bound: failed calls, lost answers, Pod deaths

ASSUME OneCallAssumption == MaxPods \in Nat \ {0} /\ MaxFaults \in Nat

Jobs == {"canary-create", "canary-delete", "notify"}

VARIABLES
    job,        \* what the Job controller says of each Job
    pod,        \* what its Pod is about to do; "none": it has none
    started,    \* Pods started so far
    configured, \* Jobs the chart gave all flags and secrets
    requests,   \* requests on their way, each with the Pod that sent it
    canary,     \* the item in the source's secret store, and its history
    posts,      \* messages in the Slack channel
    faults      \* what is left of MaxFaults

store == <<canary, posts>>
vars == <<job, pod, started, configured, requests, canary, posts, faults>>

Over == {"complete", "failed", "reaped"}

TypeOK ==
    /\ job \in [Jobs -> {"absent", "active"} \cup Over]
    /\ pod \in [Jobs -> {"none", "auth", "call", "wait"}]
    /\ pod["notify"] # "auth"
    /\ started \in [Jobs -> 0..MaxPods]
    /\ configured \subseteq Jobs
    /\ requests \subseteq Jobs \X (1..MaxPods)
    /\ canary \in {"unwritten", "present", "deleted", "revived"}
    /\ posts \in Nat
    /\ faults \in 0..MaxFaults
    /\ \A j \in Jobs : pod[j] # "none" => job[j] = "active" /\ started[j] > 0
    /\ \A r \in requests : r[2] <= started[r[1]]

Init ==
    /\ job = [j \in Jobs |-> "absent"] /\ pod = [j \in Jobs |-> "none"]
    /\ started = [j \in Jobs |-> 0] /\ configured \in SUBSET Jobs
    /\ requests = {} /\ canary = "unwritten" /\ posts = 0
    /\ faults = MaxFaults

Spent == MaxFaults - faults
Fault == faults > 0 /\ faults' = faults - 1

-----------------------------------------------------------------------------
(* The chart creates the Jobs, canary-delete once canary-create is over;   *)
(* the teardown of cmd/cleanup may delete any of them at any time, and     *)
(* with it a Pod whose request is under way.                               *)
Apply(j) ==
    /\ job[j] = "absent"
    /\ j = "canary-delete" => job["canary-create"] \in Over
    /\ job' = [job EXCEPT ![j] = "active"]
    /\ UNCHANGED <<pod, started, configured, requests, store, faults>>

Reap(j) ==
    /\ job[j] \notin {"absent", "reaped"}
    /\ job' = [job EXCEPT ![j] = "reaped"] /\ pod' = [pod EXCEPT ![j] = "none"]
    /\ UNCHANGED <<started, configured, requests, store, faults>>

(* The n-th Pod of j exits.  Exit 0 completes the Job; after any other     *)
(* code there is another Pod, as long as the backoffLimit allows one.      *)
Exits(j, n, zero) ==
    /\ pod' = [pod EXCEPT ![j] = "none"]
    /\ job' = [job EXCEPT ![j] =
          IF zero THEN "complete" ELSE IF n = MaxPods THEN "failed" ELSE @]

(* Eviction; or the Pod's context is over while its request is under way.  *)
PodDies(j) ==
    /\ pod[j] # "none" /\ Fault
    /\ Exits(j, started[j], FALSE)
    /\ UNCHANGED <<started, configured, requests, store>>

-----------------------------------------------------------------------------
(* main.  A flag or an environment variable that is missing ends the Pod   *)
(* before it makes any call, and the next one likewise.                    *)
FirstCall_Session(j) == "auth"
FirstCall(j) == IF j = "notify" THEN "call" ELSE "auth"

PodStarts(j) ==
    /\ job[j] = "active" /\ pod[j] = "none" /\ started[j] < MaxPods
    /\ started' = [started EXCEPT ![j] = @ + 1]
    /\ IF j \in configured
       THEN pod' = [pod EXCEPT ![j] = FirstCall(j)] /\ UNCHANGED job
       ELSE Exits(j, started[j] + 1, FALSE)
    /\ UNCHANGED <<configured, requests, store, faults>>

(* NewClient: a token, or exit 1.                                          *)
Authenticate(j) ==
    /\ pod[j] = "auth"
    /\ \/ pod' = [pod EXCEPT ![j] = "call"] /\ UNCHANGED <<job, faults>>
       \/ Fault /\ Exits(j, started[j], FALSE)
    /\ UNCHANGED <<started, configured, requests, store>>

Send(j) ==
    /\ pod[j] = "call"
    /\ pod' = [pod EXCEPT ![j] = "wait"]
    /\ requests' = requests \cup {<<j, started[j]>>}
    /\ UNCHANGED <<job, started, configured, store, faults>>

(* No answer will come: the context, or the HTTP client, has a timeout.    *)
TimesOut_Never(j) == FALSE /\ UNCHANGED vars
TimesOut(j) ==
    /\ pod[j] = "wait" /\ <<j, started[j]>> \notin requests
    /\ Exits(j, started[j], FALSE)
    /\ UNCHANGED <<started, configured, requests, store, faults>>

(* What the programs make of an answer.  "error" is any other status, with *)
(* which the server may or may not have acted.                             *)
CreateSecret_Ignored(answer) == TRUE
CreateSecret(answer) == answer = "ok"
DeleteItem_404Fails(answer) == answer = "ok"
DeleteItem_Ignored(answer) == TRUE
DeleteItem(answer) == answer \in {"ok", "not found"}
Post_AnyStatus(answer) == TRUE
Post(answer) == answer = "ok"

ExitsZero(j, answer) ==
    \/ j = "canary-create" /\ CreateSecret(answer)
    \/ j = "canary-delete" /\ DeleteItem(answer)
    \/ j = "notify" /\ Post(answer)

-----------------------------------------------------------------------------
(* The two servers.  A secret that exists is not created again.            *)
There == canary \in {"present", "revived"}

Answer(j) ==
    IF j = "canary-create" /\ There THEN "exists"
    ELSE IF j = "canary-delete" /\ ~There THEN "not found" ELSE "ok"

Acts(j) ==
    \/ /\ j = "canary-create"
       /\ canary' = IF There THEN canary
                    ELSE IF canary = "deleted" THEN "revived" ELSE "present"
       /\ UNCHANGED posts
    \/ j = "canary-delete" /\ canary' = "deleted" /\ UNCHANGED posts
    \/ j = "notify" /\ posts' = posts + 1 /\ UNCHANGED canary

(* Only the Pod that sent the request reads its answer.                    *)
Answered(j, n, answer) ==
    IF pod[j] = "wait" /\ started[j] = n
    THEN Exits(j, n, ExitsZero(j, answer)) ELSE UNCHANGED <<job, pod>>

Serve(j, n) ==
    /\ <<j, n>> \in requests
    /\ requests' = requests \ {<<j, n>>}
    /\ \/ Acts(j) /\ Answered(j, n, Answer(j)) /\ UNCHANGED faults
       \/ /\ Fault
          /\ Acts(j) \/ UNCHANGED store
          /\ Answered(j, n, "error") \/ UNCHANGED <<job, pod>>
    /\ UNCHANGED <<started, configured>>

Pod(j) == PodStarts(j) \/ Authenticate(j) \/ Send(j) \/ TimesOut(j)
Server(j) == \E n \in 1..MaxPods : Serve(j, n)
Next == \E j \in Jobs : Apply(j) \/ Reap(j) \/ PodDies(j) \/ Pod(j) \/ Server(j)

Spec == Init /\ [][Next]_vars

(* Pods run, and the Job controller replaces them; what is on its way is   *)
(* dealt with in the end, unless a fault strikes.                          *)
Fairness == \A j \in Jobs : WF_vars(Pod(j)) /\ WF_vars(Server(j))
FairSpec == Spec /\ Fairness

-----------------------------------------------------------------------------
(* Properties.                                                             *)

(* A complete canary-create Job, which is what verify's check              *)
(* canary-create-succeeded looks for, means that the canary is there, from *)
(* then on until a canary-delete Job exists.                               *)
CanaryThere ==
    job["canary-create"] = "complete" /\ job["canary-delete"] = "absent" => There

(* A complete canary-delete Job means that the canary has been removed.  If *)
(* it is there all the same, then a request to create it came to effect    *)
(* after that, whose Pod a fault or the reaping of its Job had ended.      *)
CanaryGone ==
    job["canary-delete"] = "complete" =>
        \/ canary = "deleted"
        \/ canary = "revived" /\ (Spent > 0 \/ job["canary-create"] = "reaped")

(* A configured Job fails only if a fault met each of its Pods: a deletion *)
(* whose answer was lost is repeated with success ("idempotent").  Not so  *)
(* a creation: there one lost answer is enough, and the failed Job leaves  *)
(* the canary behind.                                                      *)
FailureIsEarned ==
    [][\A j \in configured : job[j] # "failed" /\ job'[j] = "failed" =>
          Spent' >= MaxPods \/ (j = "canary-create" /\ There)]_vars

(* "drill green implies every Slack notification reached its target": a    *)
(* complete notify Job has delivered its message, and every copy beyond    *)
(* the first, or of a Job that failed, is the work of a fault.             *)
NotificationDelivered ==
    /\ job["notify"] = "complete" => posts \in 1..(1 + Spent)
    /\ job["notify"] = "failed" => posts <= Spent

(* Each Job comes to an end, whether its calls are answered, refused or   *)
(* lost: the clients' timeouts and the backoffLimit see to it.            *)
JobsEnd == \A j \in Jobs : job[j] = "active" ~> job[j] # "active"
=============================================================================
