----------------------------- MODULE WaitForDeps -----------------------------
(***************************************************************************)
(* cmd/wait-for-deps: the init container that lets a Pod start once every  *)
(* service it needs has answered.  waitAll runs one goroutine per service, *)
(* one per watched Pod selector, and joins them; a watcher that sees an    *)
(* unrecoverable Pod cancels the context they all share.                   *)
(***************************************************************************)
CONSTANTS
    Services,       \* --service URLs
    Watchers,       \* --watch-pod targets
    PodStates       \* what a watched Pod may get into, of AllPodStates

(* The statuses of a Pod as unrecoverableReason tells them apart.          *)
AllPodStates ==
    {"fine",        \* running, or waiting in a way that may pass
     "image",       \* a container or init container cannot get its image
     "crashloop",   \* a container has restarted more than --max-restarts times
     "initcrash",   \* an init container has
     "create",      \* a container waits with CreateContainer(Config)Error
     "initcreate"}  \* an init container does

ASSUME TargetsAssumption ==
    /\ Services # {}
    /\ PodStates \subseteq AllPodStates

VARIABLES
    ctx,        \* the shared context: live, or why it is done (the first cause)
    svc,        \* where each service's goroutine is
    watcher,    \* where each watcher's goroutine is
    podErrs,    \* watchers whose error is in the podErrs channel
    mpc,        \* where waitAll itself is
    ret,        \* what it returned: "" not yet, "nil", "services" or "pods"
    pod,        \* environment: the Pod each selector matches
    alarm,      \* environment: watches with an unrecoverable Pod's event undelivered
    everBroken, \* history: selectors that ever matched an unrecoverable Pod
    refused     \* history: watches that could not be set up: bad spec, API refusal

vars == <<ctx, svc, watcher, podErrs, mpc, ret, pod, alarm, everBroken, refused>>
environment == <<pod, alarm, everBroken, refused>>

ServiceEnded == {"ready", "failed"}
WatcherEnded == {"quiet", "errored"}
Tripped == {"detected", "sending", "errored"}

(* The channel has room for one error of each watcher, and gets no more.   *)
TypeOK ==
    /\ ctx \in {"live", "canceled", "deadline"}
    /\ svc \in [Services -> {"probe", "inflight", "sleep"} \cup ServiceEnded]
    /\ watcher \in [Watchers -> {"parse", "establish", "watching"} \cup Tripped \cup WatcherEnded]
    /\ podErrs = {w \in Watchers : watcher[w] = "errored"}
    /\ mpc \in {"polls", "join", "returned"}
    /\ ret \in {"", "nil", "services", "pods"}
    /\ pod \in [Watchers -> PodStates] /\ alarm \subseteq Watchers
    /\ everBroken \subseteq Watchers /\ refused \subseteq Watchers

(* unrecoverableReason, "" or not.                                         *)
Unrecoverable(p) == p \in {"image", "crashloop", "initcreate"}

Init ==
    /\ ctx = "live"
    /\ svc = [s \in Services |-> "probe"]
    /\ watcher = [w \in Watchers |-> "parse"]
    /\ podErrs = {} /\ mpc = "polls" /\ ret = ""
    /\ pod \in [Watchers -> PodStates] /\ alarm = {}
    /\ everBroken = {w \in Watchers : Unrecoverable(pod[w])}
    /\ refused = {}

Done == ctx # "live"
Cancel == ctx' = IF Done THEN ctx ELSE "canceled"

-----------------------------------------------------------------------------
(* waitOne: probe, and on any failure sleep for the interval, until done.  *)
ServiceAt(s, from, to) == svc[s] = from /\ svc' = [svc EXCEPT ![s] = to]

SendProbe(s) ==
    /\ ServiceAt(s, "probe", IF Done THEN "sleep" ELSE "inflight")
    /\ UNCHANGED <<ctx, watcher, podErrs, mpc, ret, environment>>

(* The answer is 200 or not; a request under way may still be answered     *)
(* after the context is done.                                              *)
ProbeAnswered(s) ==
    /\ \/ ServiceAt(s, "inflight", "ready")
       \/ ServiceAt(s, "inflight", "sleep")
    /\ UNCHANGED <<ctx, watcher, podErrs, mpc, ret, environment>>

(* select.  Once the context is done its arm is taken: the timer is set    *)
(* anew before each wait, and one that fired just before has already woken. *)
WakeUp_TimerOnly(s) ==
    /\ ServiceAt(s, "sleep", "probe")
    /\ UNCHANGED <<ctx, watcher, podErrs, mpc, ret, environment>>
WakeUp(s) ==
    /\ ServiceAt(s, "sleep", IF Done THEN "failed" ELSE "probe")
    /\ UNCHANGED <<ctx, watcher, podErrs, mpc, ret, environment>>

Poll(s) == SendProbe(s) \/ ProbeAnswered(s) \/ WakeUp(s)

-----------------------------------------------------------------------------
(* watchPod and the goroutine around it.                                   *)
WatcherAt(w, from, to) == watcher[w] = from /\ watcher' = [watcher EXCEPT ![w] = to]

(* parsePodSpec: a target not of the form namespace/labelSelector is an    *)
(* error, found before anything is asked of the API server.                *)
Malformed_Swallowed(w) ==
    /\ WatcherAt(w, "parse", "quiet")
    /\ refused' = refused \cup {w}
    /\ UNCHANGED <<ctx, svc, podErrs, mpc, ret, pod, alarm, everBroken>>
Malformed(w) ==
    /\ WatcherAt(w, "parse", "detected")
    /\ refused' = refused \cup {w}
    /\ UNCHANGED <<ctx, svc, podErrs, mpc, ret, pod, alarm, everBroken>>
Parsed(w) ==
    /\ WatcherAt(w, "parse", "establish")
    /\ UNCHANGED <<ctx, svc, podErrs, mpc, ret, environment>>

(* A watch starts with the Pods as they are.  Any error but a cancellation *)
(* counts: a refusal by the API server, the deadline.                      *)
Started(w) ==
    /\ ~Done
    /\ WatcherAt(w, "establish", "watching")
    /\ alarm' = IF Unrecoverable(pod[w]) THEN alarm \cup {w} ELSE alarm
    /\ UNCHANGED refused
Refused(w) ==
    /\ WatcherAt(w, "establish", "detected")
    /\ refused' = refused \cup {w}
    /\ UNCHANGED alarm
NotStarted_AnyError(w) ==
    /\ Done
    /\ WatcherAt(w, "establish", "detected")
    /\ UNCHANGED <<alarm, refused>>
NotStarted(w) ==
    /\ Done
    /\ WatcherAt(w, "establish", IF ctx = "canceled" THEN "quiet" ELSE "detected")
    /\ UNCHANGED <<alarm, refused>>

Establish(w) ==
    /\ Started(w) \/ Refused(w) \/ NotStarted(w)
    /\ UNCHANGED <<ctx, svc, podErrs, mpc, ret, pod, everBroken>>

Receive(w) ==
    /\ w \in alarm /\ WatcherAt(w, "watching", "detected")
    /\ alarm' = alarm \ {w}
    /\ UNCHANGED <<ctx, svc, podErrs, mpc, ret, pod, everBroken, refused>>

(* The server ends every watch at some time; the channel is then closed.   *)
StreamCloses(w) ==
    /\ w \notin alarm /\ WatcherAt(w, "watching", "quiet")
    /\ UNCHANGED <<ctx, svc, podErrs, mpc, ret, environment>>

ContextDone(w) ==
    /\ Done /\ WatcherAt(w, "watching", "quiet")
    /\ UNCHANGED <<ctx, svc, podErrs, mpc, ret, environment>>

Abort_SendsTwice(w) ==
    /\ WatcherAt(w, "detected", "sending")
    /\ Cancel
    /\ podErrs' = podErrs \cup {w}
    /\ UNCHANGED <<svc, mpc, ret, environment>>
Abort_WithoutCancel(w) ==
    /\ WatcherAt(w, "detected", "sending")
    /\ UNCHANGED <<ctx, svc, podErrs, mpc, ret, environment>>
Abort(w) ==
    /\ WatcherAt(w, "detected", "sending")
    /\ Cancel
    /\ UNCHANGED <<svc, podErrs, mpc, ret, environment>>

SendError(w) ==
    /\ WatcherAt(w, "sending", "errored")
    /\ podErrs' = podErrs \cup {w}
    /\ UNCHANGED <<ctx, svc, mpc, ret, environment>>

Watch(w) ==
    \/ Malformed(w) \/ Parsed(w) \/ Establish(w)
    \/ Receive(w) \/ ContextDone(w) \/ Abort(w) \/ SendError(w)

-----------------------------------------------------------------------------
(* waitAll: join the services, release the watchers, join them, return.    *)
JoinServices_NoRelease ==
    /\ mpc = "polls" /\ \A s \in Services : svc[s] \in ServiceEnded
    /\ mpc' = "join"
    /\ UNCHANGED <<ctx, svc, watcher, podErrs, ret, environment>>
JoinServices_FirstReady ==
    /\ mpc = "polls" /\ \E s \in Services : svc[s] \in ServiceEnded
    /\ mpc' = "join" /\ Cancel
    /\ UNCHANGED <<svc, watcher, podErrs, ret, environment>>
JoinServices ==
    /\ mpc = "polls" /\ \A s \in Services : svc[s] \in ServiceEnded
    /\ mpc' = "join" /\ Cancel
    /\ UNCHANGED <<svc, watcher, podErrs, ret, environment>>

Result_ServicesOnly == IF \E s \in Services : svc[s] = "failed" THEN "services" ELSE "nil"
Result ==
    IF \E s \in Services : svc[s] = "failed" THEN "services"
    ELSE IF podErrs # {} THEN "pods" ELSE "nil"

WatchersJoined_NoWait == TRUE
WatchersJoined == \A w \in Watchers : watcher[w] \in WatcherEnded

JoinWatchers ==
    /\ mpc = "join" /\ WatchersJoined
    /\ mpc' = "returned" /\ ret' = Result
    /\ UNCHANGED <<ctx, svc, watcher, podErrs, environment>>

Main == JoinServices \/ JoinWatchers

-----------------------------------------------------------------------------
(* The environment.                                                        *)
DeadlinePasses ==
    /\ ~Done /\ mpc # "returned"
    /\ ctx' = "deadline"
    /\ UNCHANGED <<svc, watcher, podErrs, mpc, ret, environment>>

PodChanges(w, p) ==
    /\ mpc # "returned"
    /\ pod' = [pod EXCEPT ![w] = p]
    /\ everBroken' = IF Unrecoverable(p) THEN everBroken \cup {w} ELSE everBroken
    /\ alarm' = IF Unrecoverable(p) /\ watcher[w] = "watching" THEN alarm \cup {w} ELSE alarm
    /\ UNCHANGED <<ctx, svc, watcher, podErrs, mpc, ret, refused>>

Next ==
    \/ Main \/ DeadlinePasses
    \/ \E s \in Services : Poll(s)
    \/ \E w \in Watchers : Watch(w) \/ StreamCloses(w)
    \/ \E w \in Watchers, p \in PodStates : PodChanges(w, p)

Spec == Init /\ [][Next]_vars

(* Goroutines are scheduled.  The deadline is not relied on, nor the       *)
(* services, the Pods or the API server.                                   *)
Fairness ==
    /\ WF_vars(Main)
    /\ \A s \in Services : WF_vars(Poll(s))
    /\ \A w \in Watchers : WF_vars(Watch(w))
FairSpec == Spec /\ Fairness

-----------------------------------------------------------------------------
(* Safety.                                                                 *)

Returned == mpc = "returned"
AllReady == \A s \in Services : svc[s] = "ready"

(* Exit 0 means that every service has answered 200 and that no watcher    *)
(* that found something wrong by then has been overheard.                  *)
NilMeansReady ==
    ret = "nil" => AllReady /\ \A w \in Watchers : watcher[w] = "quiet"

(* A --watch-pod target that cannot be watched, because it does not parse  *)
(* or because the API server refuses, is never passed over.                *)
NoTargetPassedOver == refused # {} => ret # "nil"

(* waitAll returns no error without a cause: the deadline, an unrecoverable *)
(* Pod, a watch that could not be set up.  Its own winding down, which     *)
(* cancels watches still being set up, is none.                            *)
Trouble == ctx = "deadline" \/ refused # {} \/ everBroken # {}
ErrorHasCause == ret \in {"services", "pods"} => Trouble

(* No goroutine is left when waitAll has closed its channels and returned: *)
(* a late watcher would send on a closed channel.                          *)
NothingOutlivesReturn ==
    Returned => /\ \A s \in Services : svc[s] \in ServiceEnded
                /\ \A w \in Watchers : watcher[w] \in WatcherEnded

(* WaitForDeps implements DependencyGate.                                  *)
Gate == INSTANCE DependencyGate WITH
    ready <- {s \in Services : svc[s] = "ready"}, trouble <- Trouble,
    reported <- podErrs # {},
    result <- IF ret \in {"services", "pods"} THEN "refused" ELSE ret
GateImplemented == Gate!Spec

-----------------------------------------------------------------------------
(* Liveness, none of it by waiting for the deadline.                       *)

(* Once all services have answered, waitAll returns at once: the watchers, *)
(* which only end with the context, do not hold it up (drill #7).          *)
ReadyReturns == AllReady ~> Returned

(* A watcher that finds a Pod unrecoverable makes waitAll return.          *)
FailFast == (\E w \in Watchers : watcher[w] = "detected") ~> Returned

(* When --max-wait has passed, waitAll returns.                            *)
DeadlineReturns == (ctx = "deadline") ~> Returned

-----------------------------------------------------------------------------
(* What comments in the source say and the code does not do.               *)

(* "fail fast with structured cause": when a watcher has reported a cause, *)
(* it is what waitAll returns.                                             *)
CauseReported == Returned /\ podErrs # {} => ret = "pods"

(* "any matching Pod enters ImagePullBackOff / CrashLoopBackOff            *)
(* (restartCount over --max-restarts) / CreateContainerError": a watcher   *)
(* never sits on such a Pod without its event being on the way.            *)
EveryFailureSeen ==
    \A w \in Watchers : watcher[w] = "watching" /\ pod[w] # "fine" => w \in alarm
=============================================================================
