-------------------------- MODULE WaitForDepsProofs --------------------------
(***************************************************************************)
(* The safety of cmd/wait-for-deps for any set of services and of watched  *)
(* selectors, and that it implements DependencyGate.                       *)
(***************************************************************************)
EXTENDS WaitForDeps, Naturals, TLAPS

(* waitAll comes past a join only when what it joins has ended.            *)
JoinInv ==
    /\ ret = "" <=> mpc # "returned"
    /\ mpc # "polls" => \A s \in Services : svc[s] \in ServiceEnded
    /\ mpc = "returned" => \A w \in Watchers : watcher[w] \in WatcherEnded

(* What it returns, by what it joined.                                     *)
ResultInv ==
    /\ ret = "nil" => AllReady /\ podErrs = {}
    /\ ret = "services" => \E s \in Services : svc[s] = "failed"
    /\ ret = "pods" => AllReady /\ podErrs # {}

(* Where an error comes from.                                              *)
CauseInv ==
    /\ \A w \in refused : watcher[w] \in Tripped
    /\ \A w \in Watchers : Unrecoverable(pod[w]) => w \in everBroken
    /\ alarm \subseteq everBroken
    /\ \A w \in Watchers : watcher[w] \in Tripped => Trouble
    /\ mpc = "polls" /\ Done => Trouble
    /\ \A s \in Services : svc[s] = "failed" => Trouble

WaitInv == TypeOK /\ JoinInv /\ ResultInv /\ CauseInv

-----------------------------------------------------------------------------
(* Next, action by action.                                                 *)
WatchStep(w) ==
    \/ Malformed(w) \/ Parsed(w) \/ Establish(w) \/ Receive(w) \/ ContextDone(w)
    \/ Abort(w) \/ SendError(w) \/ StreamCloses(w)

LEMMA NextCases ==
    Next <=> \/ JoinServices \/ JoinWatchers \/ DeadlinePasses
             \/ \E s \in Services : Poll(s)
             \/ \E w \in Watchers : WatchStep(w)
             \/ \E w \in Watchers, p \in PodStates : PodChanges(w, p)
BY DEF Next, Main, Watch, WatchStep

LEMMA WaitInit == Init => WaitInv
BY TargetsAssumption DEF Init, WaitInv, TypeOK, JoinInv, ResultInv, CauseInv, Done, Trouble,
   Tripped, ServiceEnded, WatcherEnded

LEMMA TypeStep == ASSUME TypeOK, [Next]_vars PROVE TypeOK'
<1> USE DEF TypeOK, ServiceEnded, WatcherEnded, Tripped, environment
<1>1. CASE UNCHANGED vars
  BY <1>1 DEF vars
<1>2. CASE JoinServices \/ JoinWatchers \/ DeadlinePasses
  BY <1>2 DEF JoinServices, JoinWatchers, DeadlinePasses, Cancel, Result
<1>3. ASSUME NEW s \in Services, Poll(s) PROVE TypeOK'
  BY <1>3 DEF Poll, SendProbe, ProbeAnswered, WakeUp, ServiceAt
<1>4. ASSUME NEW w \in Watchers, WatchStep(w) PROVE TypeOK'
  <2>1. CASE Malformed(w) \/ Parsed(w)
    BY <2>1 DEF Malformed, Parsed, WatcherAt
  <2>2. CASE Establish(w)
    BY <2>2 DEF Establish, Started, Refused, NotStarted, WatcherAt
  <2>3. CASE Receive(w) \/ ContextDone(w) \/ StreamCloses(w)
    BY <2>3 DEF Receive, ContextDone, StreamCloses, WatcherAt
  <2>4. CASE Abort(w) \/ SendError(w)
    BY <2>4 DEF Abort, SendError, Cancel, WatcherAt
  <2> QED BY <1>4, <2>1, <2>2, <2>3, <2>4 DEF WatchStep
<1>5. ASSUME NEW w \in Watchers, NEW p \in PodStates, PodChanges(w, p) PROVE TypeOK'
  BY <1>5 DEF PodChanges
<1> QED BY <1>1, <1>2, <1>3, <1>4, <1>5, NextCases

-----------------------------------------------------------------------------
(* What an actor may do to the rest of the state.                          *)

LEMMA PollEffect ==
    ASSUME TypeOK, NEW s \in Services, Poll(s)
    PROVE  /\ svc[s] \notin ServiceEnded
           /\ \A t \in Services \ {s} : svc'[t] = svc[t]
           /\ svc'[s] = "failed" => Done
           /\ UNCHANGED <<ctx, watcher, podErrs, mpc, ret, pod, alarm, everBroken, refused>>
BY DEF Poll, SendProbe, ProbeAnswered, WakeUp, ServiceAt, TypeOK, ServiceEnded, environment

LEMMA WatchEffect ==
    ASSUME WaitInv, NEW w \in Watchers, WatchStep(w)
    PROVE  /\ watcher[w] \notin WatcherEnded
           /\ \A v \in Watchers \ {w} : watcher'[v] = watcher[v]
           /\ watcher[w] \in Tripped => watcher'[w] \in Tripped
           /\ watcher'[w] \in Tripped => Trouble'
           /\ refused' = refused \/ (refused' = refused \cup {w} /\ watcher'[w] \in Tripped)
           /\ alarm' \subseteq everBroken
           /\ podErrs' = podErrs \/ (podErrs' = podErrs \cup {w} /\ watcher[w] = "sending")
           /\ ctx' = ctx \/ (~Done /\ Trouble)
           /\ UNCHANGED <<svc, mpc, ret, pod, everBroken>>
<1> USE DEF WaitInv, TypeOK, CauseInv, WatcherEnded, Tripped, WatcherAt, environment, Trouble
<1>1. CASE Malformed(w) \/ Parsed(w)
  BY <1>1 DEF Malformed, Parsed
<1>2. CASE Establish(w)
  BY <1>2 DEF Establish, Started, Refused, NotStarted, Done
<1>3. CASE Receive(w)
  BY <1>3 DEF Receive
<1>4. CASE ContextDone(w) \/ StreamCloses(w)
  BY <1>4 DEF ContextDone, StreamCloses
<1>5. CASE Abort(w)
  BY <1>5 DEF Abort, Cancel, Done
<1>6. CASE SendError(w)
  BY <1>6 DEF SendError
<1> QED BY <1>1, <1>2, <1>3, <1>4, <1>5, <1>6 DEF WatchStep

(* A reason to refuse does not go away.                                    *)
LEMMA TroubleStays == ASSUME WaitInv, [Next]_vars, Trouble PROVE Trouble'
<1>1. CASE UNCHANGED vars
  BY <1>1 DEF vars, Trouble
<1>2. CASE JoinServices \/ JoinWatchers \/ DeadlinePasses
  BY <1>2 DEF JoinServices, JoinWatchers, DeadlinePasses, Cancel, Trouble, Done, environment
<1>3. ASSUME NEW s \in Services, Poll(s) PROVE Trouble'
  BY <1>3, PollEffect DEF WaitInv, Trouble
<1>4. ASSUME NEW w \in Watchers, WatchStep(w) PROVE Trouble'
  BY <1>4, WatchEffect DEF Trouble, Done
<1>5. ASSUME NEW w \in Watchers, NEW p \in PodStates, PodChanges(w, p) PROVE Trouble'
  BY <1>5 DEF PodChanges, Trouble
<1> QED BY <1>1, <1>2, <1>3, <1>4, <1>5, NextCases

LEMMA WaitStep == ASSUME WaitInv, [Next]_vars PROVE WaitInv'
<1>1. TypeOK'
  BY TypeStep DEF WaitInv
<1> SUFFICES JoinInv' /\ ResultInv' /\ CauseInv'
  BY <1>1 DEF WaitInv
<1>2. CASE UNCHANGED vars
  BY <1>2 DEF vars, WaitInv, JoinInv, ResultInv, CauseInv, AllReady, Trouble, Done
<1>3. CASE JoinServices
  <2>1. Trouble => Trouble'
    BY TroubleStays
  <2> QED BY <1>3, <2>1 DEF JoinServices, WaitInv, JoinInv, ResultInv, CauseInv, AllReady, environment
<1>4. CASE JoinWatchers
  <2>1. UNCHANGED Trouble
    BY <1>4 DEF JoinWatchers, Trouble, environment
  <2>2. CauseInv'
    BY <1>4, <2>1 DEF JoinWatchers, WaitInv, CauseInv, Done, environment
  <2>3. JoinInv' /\ ResultInv'
    BY <1>4 DEF JoinWatchers, WatchersJoined, Result, WaitInv, JoinInv, ResultInv, AllReady,
       ServiceEnded, environment
  <2> QED BY <2>2, <2>3
<1>5. CASE DeadlinePasses
  BY <1>5 DEF DeadlinePasses, WaitInv, JoinInv, ResultInv, CauseInv, AllReady, Trouble, environment
<1>6. ASSUME NEW s \in Services, Poll(s) PROVE JoinInv' /\ ResultInv' /\ CauseInv'
  <2>1. mpc = "polls" /\ ret = "" /\ UNCHANGED <<Trouble, Done>>
    BY <1>6, PollEffect DEF WaitInv, JoinInv, Trouble, Done
  <2>2. CauseInv'
    BY <1>6, <2>1, PollEffect DEF WaitInv, CauseInv
  <2> QED BY <1>6, <2>1, <2>2, PollEffect DEF WaitInv, JoinInv, ResultInv
<1>7. ASSUME NEW w \in Watchers, WatchStep(w) PROVE JoinInv' /\ ResultInv' /\ CauseInv'
  <2>1. mpc # "returned" /\ ret = ""
    BY <1>7, WatchEffect DEF WaitInv, JoinInv
  <2>2. Trouble => Trouble'
    BY TroubleStays, <1>7, NextCases
  <2>3. CauseInv'
    <3>1. \A v \in refused' : watcher'[v] \in Tripped
      BY <1>7, WatchEffect DEF WaitInv, TypeOK, CauseInv
    <3>2. \A v \in Watchers : watcher'[v] \in Tripped => Trouble'
      BY <1>7, <2>2, WatchEffect DEF WaitInv, CauseInv
    <3>3. mpc' = "polls" /\ Done' => Trouble'
      BY <1>7, <2>2, WatchEffect DEF WaitInv, CauseInv, Done
    <3> QED BY <1>7, <2>2, <3>1, <3>2, <3>3, WatchEffect DEF WaitInv, CauseInv
  <2> QED BY <1>7, <2>1, <2>3, WatchEffect DEF WaitInv, JoinInv, ResultInv
<1>8. ASSUME NEW w \in Watchers, NEW p \in PodStates, PodChanges(w, p)
      PROVE  JoinInv' /\ ResultInv' /\ CauseInv'
  <2>1. Trouble => Trouble'
    BY TroubleStays, <1>8, NextCases
  <2>2. CauseInv'
    BY <1>8, <2>1 DEF PodChanges, WaitInv, TypeOK, CauseInv, Done
  <2> QED BY <1>8, <2>2 DEF PodChanges, WaitInv, JoinInv, ResultInv, AllReady
<1> QED BY <1>2, <1>3, <1>4, <1>5, <1>6, <1>7, <1>8, NextCases

-----------------------------------------------------------------------------
(* The theorems.                                                           *)

(* The invariant above, which the others follow from.                      *)
THEOREM WaitCorrect == Spec => []WaitInv
<1>1. WaitInv /\ [Next]_vars => WaitInv'
  BY WaitStep
<1> QED BY WaitInit, <1>1, PTL DEF Spec

(* The channel's capacity is among the types: no watcher ever has to wait  *)
(* for room in podErrs, however many there are.                            *)
THEOREM WaitTyped == Spec => []TypeOK
<1>1. WaitInv => TypeOK
  BY DEF WaitInv
<1> QED BY WaitCorrect, <1>1, PTL

LEMMA WaitSafety ==
    Spec => [](NilMeansReady /\ NoTargetPassedOver /\ ErrorHasCause /\ NothingOutlivesReturn)
<1>1. WaitInv => NilMeansReady /\ NoTargetPassedOver /\ ErrorHasCause /\ NothingOutlivesReturn
  <2> SUFFICES ASSUME WaitInv
               PROVE  NilMeansReady /\ NoTargetPassedOver /\ ErrorHasCause /\ NothingOutlivesReturn
    OBVIOUS
  <2>1. NothingOutlivesReturn
    BY DEF WaitInv, JoinInv, NothingOutlivesReturn, Returned
  <2>2. NilMeansReady
    BY DEF WaitInv, TypeOK, JoinInv, ResultInv, NilMeansReady, WatcherEnded
  <2>3. NoTargetPassedOver
    BY <2>2 DEF WaitInv, TypeOK, CauseInv, NilMeansReady, NoTargetPassedOver, Tripped
  <2>4. ErrorHasCause
    BY DEF WaitInv, TypeOK, ResultInv, CauseInv, ErrorHasCause, Tripped
  <2> QED BY <2>1, <2>2, <2>3, <2>4
<1> QED BY WaitCorrect, <1>1, PTL

(* nil means that every service answered and no watcher that was to be     *)
(* heard had anything to report.                                           *)
THEOREM NilEarned == Spec => []NilMeansReady
BY WaitSafety, PTL

(* No --watch-pod target is passed over, however the goroutine that finds  *)
(* it malformed is scheduled against the services.                         *)
THEOREM NoneSkipped == Spec => []NoTargetPassedOver
BY WaitSafety, PTL

(* waitAll's own cancellation never comes back as the error it returns.    *)
THEOREM ErrorsCaused == Spec => []ErrorHasCause
BY WaitSafety, PTL

(* When waitAll has returned none of its goroutines is left.               *)
THEOREM AllJoined == Spec => []NothingOutlivesReturn
BY WaitSafety, PTL

-----------------------------------------------------------------------------
(* The refinement.                                                         *)

Ready == {s \in Services : svc[s] = "ready"}
Verdict == IF ret \in {"services", "pods"} THEN "refused" ELSE ret

(* What a step of waitAll is to the gate.                                  *)
GateStep ==
    \/ Gate!Next
    \/ UNCHANGED <<Ready, Trouble, podErrs # {}, Verdict>>

LEMMA GateAtMostAnswers ==
    ASSUME ret = "", ret' = "", UNCHANGED <<Trouble, podErrs>>,
           Ready' = Ready \/ \E s \in Services : Ready' = Ready \cup {s}
    PROVE  GateStep
BY DEF GateStep, Ready, Verdict, Gate!Next, Gate!Answer

LEMMA GateStrikes ==
    ASSUME ret = "", ret' = "", UNCHANGED <<svc, podErrs>>, Trouble => Trouble'
    PROVE  GateStep
BY DEF GateStep, Ready, Verdict, Gate!Next, Gate!Strike, Trouble

LEMMA GateSteps == ASSUME WaitInv, [Next]_vars PROVE GateStep
<1>1. CASE UNCHANGED vars
  BY <1>1 DEF vars, GateStep, Ready, Verdict, Trouble
<1>2. CASE JoinServices
  BY <1>2 DEF JoinServices, Cancel, WaitInv, JoinInv, Done, Trouble, environment, GateStep, Ready,
     Verdict
<1>3. CASE JoinWatchers
  <2>1. UNCHANGED <<Ready, Trouble, podErrs>> /\ ret = "" /\ ret' = Result
    BY <1>3 DEF JoinWatchers, WaitInv, JoinInv, Ready, Trouble, environment
  <2>2. CASE Result = "nil"
    <3>1. Ready = Services /\ podErrs = {}
      BY <1>3, <2>2 DEF JoinWatchers, Result, WaitInv, JoinInv, ServiceEnded, Ready
    <3> QED BY <2>1, <2>2, <3>1 DEF GateStep, Ready, Verdict, Gate!Next, Gate!Open
  <2>3. CASE Result # "nil"
    <3>1. Result \in {"services", "pods"} /\ (podErrs # {} \/ Ready # Services)
      BY <2>3 DEF Result, Ready
    <3>2. Trouble
      BY <2>3 DEF Result, WaitInv, TypeOK, CauseInv, Tripped
    <3> QED BY <2>1, <3>1, <3>2 DEF GateStep, Ready, Verdict, Gate!Next, Gate!Refuse
  <2> QED BY <2>2, <2>3
<1>4. CASE DeadlinePasses
  BY <1>4, GateStrikes DEF DeadlinePasses, WaitInv, JoinInv, Trouble, environment
<1>5. ASSUME NEW s \in Services, Poll(s) PROVE GateStep
  <2>1. ret = "" /\ ret' = "" /\ UNCHANGED <<Trouble, podErrs>>
    BY <1>5, PollEffect DEF WaitInv, JoinInv, Trouble
  <2>2. Ready' = Ready \/ Ready' = Ready \cup {s}
    BY <1>5, PollEffect DEF Ready, WaitInv, ServiceEnded
  <2> QED BY <2>1, <2>2, GateAtMostAnswers
<1>6. ASSUME NEW w \in Watchers, WatchStep(w) PROVE GateStep
  <2>1. ret = "" /\ ret' = "" /\ UNCHANGED svc /\ (Trouble => Trouble')
    BY <1>6, WatchEffect, TroubleStays, NextCases DEF WaitInv, JoinInv
  <2>2. CASE podErrs' = podErrs
    BY <2>1, <2>2, GateStrikes
  <2>3. CASE podErrs' # podErrs
    <3>1. podErrs' = podErrs \cup {w} /\ Trouble
      BY <1>6, <2>3, WatchEffect DEF WaitInv, CauseInv, Tripped
    <3> QED BY <2>1, <3>1 DEF GateStep, Ready, Verdict, Gate!Next, Gate!Complain
  <2> QED BY <2>2, <2>3
<1>7. ASSUME NEW w \in Watchers, NEW p \in PodStates, PodChanges(w, p) PROVE GateStep
  BY <1>7, GateStrikes, TroubleStays, NextCases DEF PodChanges, WaitInv, JoinInv
<1> QED BY <1>1, <1>2, <1>3, <1>4, <1>5, <1>6, <1>7, NextCases

(* WaitForDeps implements DependencyGate: what waitAll does with its       *)
(* goroutines, channels and contexts looks like a gate that opens once all *)
(* have answered and nothing was reported, and then stays as it is.        *)
THEOREM GateRefined == Spec => GateImplemented
<1>1. Init => Gate!Init
  BY DEF Init, Gate!Init, Trouble
<1>2. WaitInv /\ [Next]_vars => [Gate!Next]_(Gate!gateVars)
  BY GateSteps DEF GateStep, Ready, Verdict, Gate!gateVars
<1> QED BY WaitCorrect, <1>1, <1>2, PTL DEF Spec, GateImplemented, Gate!Spec

-----------------------------------------------------------------------------
(* What the runs that expect a violation leave standing.                   *)

(* When services all answered, the cause a watcher reported is returned:   *)
(* CauseReported fails only where a service gave up, whose error is put    *)
(* before that of the watcher.                                             *)
THEOREM CauseReturned == Spec => [](AllReady => CauseReported)
<1>1. WaitInv => (AllReady => CauseReported)
  BY DEF WaitInv, TypeOK, JoinInv, ResultInv, AllReady, CauseReported, Returned
<1> QED BY WaitCorrect, <1>1, PTL

(* A watcher misses no Pod that unrecoverableReason calls unrecoverable,   *)
(* whether it was so when the watch began or became so later.              *)
SeenInv == \A w \in Watchers : watcher[w] = "watching" /\ Unrecoverable(pod[w]) => w \in alarm

LEMMA SeenStep == ASSUME TypeOK, SeenInv, [Next]_vars PROVE SeenInv'
<1> USE DEF SeenInv, TypeOK
<1>1. CASE UNCHANGED vars
  BY <1>1 DEF vars
<1>2. CASE JoinServices \/ JoinWatchers \/ DeadlinePasses
  BY <1>2 DEF JoinServices, JoinWatchers, DeadlinePasses, environment
<1>3. ASSUME NEW s \in Services, Poll(s) PROVE SeenInv'
  BY <1>3, PollEffect
<1>4. ASSUME NEW w \in Watchers, WatchStep(w) PROVE SeenInv'
  <2> USE DEF WatcherAt, environment
  <2>1. CASE Malformed(w) \/ Parsed(w)
    BY <2>1 DEF Malformed, Parsed
  <2>2. CASE Establish(w)
    BY <2>2 DEF Establish, Started, Refused, NotStarted
  <2>3. CASE Receive(w) \/ ContextDone(w) \/ StreamCloses(w)
    BY <2>3 DEF Receive, ContextDone, StreamCloses
  <2>4. CASE Abort(w) \/ SendError(w)
    BY <2>4 DEF Abort, SendError
  <2> QED BY <1>4, <2>1, <2>2, <2>3, <2>4 DEF WatchStep
<1>5. ASSUME NEW w \in Watchers, NEW p \in PodStates, PodChanges(w, p) PROVE SeenInv'
  BY <1>5 DEF PodChanges
<1> QED BY <1>1, <1>2, <1>3, <1>4, <1>5, NextCases

(* EveryFailureSeen fails only over the two statuses that                  *)
(* unrecoverableReason does not know, an init container that keeps         *)
(* crashing and a container that cannot be created.                        *)
THEOREM FailuresSeen ==
    ASSUME PodStates \cap {"create", "initcrash"} = {}
    PROVE  Spec => []EveryFailureSeen
<1>1. Init => SeenInv
  BY DEF Init, SeenInv
<1>2. TypeOK /\ SeenInv /\ [Next]_vars => SeenInv'
  BY SeenStep
<1>3. TypeOK /\ SeenInv => EveryFailureSeen
  BY TargetsAssumption DEF TypeOK, SeenInv, EveryFailureSeen, Unrecoverable, AllPodStates
<1> QED BY WaitTyped, <1>1, <1>2, <1>3, PTL DEF Spec

-----------------------------------------------------------------------------
(* What liveness rests on, apart from the scheduler.                       *)

(* How far a goroutine is from its end once the context is done.           *)
ServiceSteps(at) ==
    CASE at = "inflight" -> 3 [] at = "probe" -> 2 [] at = "sleep" -> 1 [] OTHER -> 0
WatcherSteps(at) ==
    CASE at = "parse" -> 5 [] at = "establish" -> 4 [] at = "watching" -> 3
      [] at = "detected" -> 2 [] at = "sending" -> 1 [] OTHER -> 0

ComesNearer ==
    /\ Done => Done'
    /\ \A s \in Services : Done /\ svc'[s] # svc[s] => ServiceSteps(svc'[s]) < ServiceSteps(svc[s])
    /\ \A w \in Watchers : watcher'[w] # watcher[w] => WatcherSteps(watcher'[w]) < WatcherSteps(watcher[w])

LEMMA StepCounts ==
    /\ ServiceSteps("inflight") = 3 /\ ServiceSteps("probe") = 2 /\ ServiceSteps("sleep") = 1
    /\ ServiceSteps("ready") = 0 /\ ServiceSteps("failed") = 0
    /\ WatcherSteps("parse") = 5 /\ WatcherSteps("establish") = 4 /\ WatcherSteps("watching") = 3
    /\ WatcherSteps("detected") = 2 /\ WatcherSteps("sending") = 1
    /\ WatcherSteps("errored") = 0 /\ WatcherSteps("quiet") = 0
BY DEF ServiceSteps, WatcherSteps

(* The steps there are, each from where to where.                          *)
LEMMA NearerPoll ==
    ASSUME TypeOK, NEW s \in Services, Poll(s)
    PROVE  /\ Done => ServiceSteps(svc'[s]) < ServiceSteps(svc[s])
           /\ \A t \in Services : t # s => svc'[t] = svc[t]
<1>1. /\ Done => \/ svc[s] = "probe" /\ svc'[s] = "sleep"
                 \/ svc[s] = "inflight" /\ svc'[s] \in {"ready", "sleep"}
                 \/ svc[s] = "sleep" /\ svc'[s] = "failed"
      /\ \A t \in Services : t # s => svc'[t] = svc[t]
  BY DEF Poll, SendProbe, ProbeAnswered, WakeUp, ServiceAt, TypeOK
<1>2. 2 < 3 /\ 1 < 3 /\ 1 < 2 /\ 0 < 3 /\ 0 < 1
  OBVIOUS
<1> QED BY <1>1, <1>2, StepCounts, Zenon

LEMMA NearerWatch ==
    ASSUME TypeOK, NEW w \in Watchers, WatchStep(w)
    PROVE  /\ WatcherSteps(watcher'[w]) < WatcherSteps(watcher[w])
           /\ \A v \in Watchers : v # w => watcher'[v] = watcher[v]
<1>1. /\ \/ watcher[w] = "parse" /\ watcher'[w] \in {"detected", "establish"}
         \/ watcher[w] = "establish" /\ watcher'[w] \in {"watching", "detected", "quiet"}
         \/ watcher[w] = "watching" /\ watcher'[w] \in {"detected", "quiet"}
         \/ watcher[w] = "detected" /\ watcher'[w] = "sending"
         \/ watcher[w] = "sending" /\ watcher'[w] = "errored"
      /\ \A v \in Watchers : v # w => watcher'[v] = watcher[v]
  <2> USE DEF WatcherAt, TypeOK
  <2>1. CASE Malformed(w) \/ Parsed(w)
    BY <2>1 DEF Malformed, Parsed
  <2>2. CASE Establish(w)
    BY <2>2 DEF Establish, Started, Refused, NotStarted
  <2>3. CASE Receive(w) \/ ContextDone(w) \/ StreamCloses(w)
    BY <2>3 DEF Receive, ContextDone, StreamCloses
  <2>4. CASE Abort(w) \/ SendError(w)
    BY <2>4 DEF Abort, SendError
  <2> QED BY <2>1, <2>2, <2>3, <2>4 DEF WatchStep
<1>2. /\ 2 < 5 /\ 4 < 5 /\ 3 < 4 /\ 2 < 4 /\ 0 < 4 /\ 2 < 3 /\ 0 < 3 /\ 1 < 2 /\ 0 < 1
  OBVIOUS
<1> QED BY <1>1, <1>2, StepCounts, Zenon

(* Once the context is done, by whatever cause, it stays done, and each    *)
(* step of a goroutine brings it nearer its end: a service's takes at most *)
(* three, a watcher's at most five, and the deadline plays no part.  Under *)
(* a fair scheduler this is why waitAll's joins do not hang.               *)
THEOREM WindingDown == Spec => [][ComesNearer]_vars
<1>1. WaitInv /\ [Next]_vars => [ComesNearer]_vars
  <2> SUFFICES ASSUME WaitInv, Next PROVE ComesNearer
    OBVIOUS
  <2>1. CASE JoinServices \/ JoinWatchers \/ DeadlinePasses
    BY <2>1 DEF JoinServices, JoinWatchers, DeadlinePasses, Cancel, Done, ComesNearer
  <2>2. ASSUME NEW s \in Services, Poll(s) PROVE ComesNearer
    BY <2>2, NearerPoll, PollEffect DEF WaitInv, Done, ComesNearer
  <2>3. ASSUME NEW w \in Watchers, WatchStep(w) PROVE ComesNearer
    BY <2>3, NearerWatch, WatchEffect DEF WaitInv, Done, ComesNearer
  <2>4. ASSUME NEW w \in Watchers, NEW p \in PodStates, PodChanges(w, p) PROVE ComesNearer
    BY <2>4 DEF PodChanges, Done, ComesNearer
  <2> QED BY <2>1, <2>2, <2>3, <2>4, NextCases
<1> QED BY WaitCorrect, <1>1, PTL DEF Spec

(* waitAll joins its watchers only with the context done, so that each of  *)
(* them is on its way out when waitAll begins to wait for it (drill #7).   *)
THEOREM WatchersReleased == Spec => [](mpc = "join" => Done)
<1> DEFINE Released == mpc = "join" => Done
<1>1. Init => Released
  BY DEF Init
<1>2. WaitInv /\ Released /\ [Next]_vars => Released'
  <2> SUFFICES ASSUME WaitInv, Released, [Next]_vars PROVE Released'
    OBVIOUS
  <2>1. CASE UNCHANGED vars
    BY <2>1 DEF vars, Done
  <2>2. CASE JoinServices
    BY <2>2 DEF JoinServices, Cancel, Done
  <2>3. CASE JoinWatchers
    BY <2>3 DEF JoinWatchers
  <2>4. CASE DeadlinePasses
    BY <2>4 DEF DeadlinePasses, Done
  <2>5. ASSUME NEW s \in Services, Poll(s) PROVE Released'
    BY <2>5, PollEffect DEF WaitInv, Done
  <2>6. ASSUME NEW w \in Watchers, WatchStep(w) PROVE Released'
    BY <2>6, WatchEffect DEF Done
  <2>7. ASSUME NEW w \in Watchers, NEW p \in PodStates, PodChanges(w, p) PROVE Released'
    BY <2>7 DEF PodChanges, Done
  <2> QED BY <2>1, <2>2, <2>3, <2>4, <2>5, <2>6, <2>7, NextCases
<1> HIDE DEF Released
<1>3. Spec => []Released
  BY WaitCorrect, <1>1, <1>2, PTL DEF Spec
<1> QED BY <1>3, PTL DEF Released
=============================================================================
