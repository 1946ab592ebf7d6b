---------------------------- MODULE OneCallProofs ----------------------------
(***************************************************************************)
(* The safety of the one-call Jobs, for any number of Pods and of faults.  *)
(* The argument is one of accounting: every Pod that failed, and every     *)
(* message beyond the first, has been paid for with a fault.               *)
(***************************************************************************)
EXTENDS OneCallJobs, FiniteSets, FiniteSetTheorems, TLAPS

InFlight(j) == pod[j] = "wait" /\ <<j, started[j]>> \in requests

(* A Job acts only once it exists, canary-delete after canary-create.      *)
OrderInv ==
    /\ \A r \in requests : job[r[1]] # "absent"
    /\ job["canary-delete"] # "absent" => job["canary-create"] \in Over

(* A request outlives its Pod only by a fault or with a reaped Job.        *)
Held(r) == pod[r[1]] = "wait" /\ started[r[1]] = r[2]
LateInv == \A r \in requests : Held(r) \/ Spent > 0 \/ job[r[1]] = "reaped"

CanaryInv ==
    /\ CanaryThere /\ CanaryGone
    /\ canary \in {"deleted", "revived"} => job["canary-delete"] # "absent"

(* The Pods of j that have failed, or will because no answer comes.        *)
Failures(j) ==
    started[j] - (IF pod[j] = "none" THEN 0 ELSE 1)
               + (IF pod[j] = "wait" /\ ~InFlight(j) THEN 1 ELSE 0)
Excused(j) == j = "canary-create" /\ There
FailureInv ==
    \A j \in configured :
        job[j] \in {"absent", "active"} => Excused(j) \/ Spent >= Failures(j)

(* Posted, or about to be; one of them need not be paid for while the Pod  *)
(* that asked for it may still report it.                                  *)
Posting == {r \in requests : r[1] = "notify"}
Free == IF job["notify"] \in {"complete", "reaped"} \/ InFlight("notify") THEN 1 ELSE 0
PostInv ==
    /\ IsFiniteSet(requests)
    /\ posts + Cardinality(Posting) <= Spent + Free
    /\ job["notify"] = "complete" => posts >= 1

OneCallInv == OrderInv /\ LateInv /\ CanaryInv /\ FailureInv /\ PostInv

-----------------------------------------------------------------------------
(* Types.                                                                  *)

(* Next, action by action.                                                 *)
Step(j) ==
    \/ Apply(j) \/ Reap(j) \/ PodDies(j) \/ PodStarts(j) \/ Authenticate(j)
    \/ Send(j) \/ TimesOut(j) \/ \E n \in 1..MaxPods : Serve(j, n)

LEMMA NextIsStep == Next <=> \E j \in Jobs : Step(j)
BY Zenon DEF Next, Pod, Server, Step

LEMMA TypeInit == Init => TypeOK
BY OneCallAssumption DEF Init, TypeOK, Jobs, Over

LEMMA TypeStep == ASSUME TypeOK, [Next]_vars PROVE TypeOK'
<1> USE OneCallAssumption
<1>1. CASE UNCHANGED vars
  BY <1>1 DEF vars, TypeOK
<1>2. ASSUME NEW j \in Jobs, Step(j) PROVE TypeOK'
  <2>1. CASE Apply(j)
    BY <2>1 DEF Apply, TypeOK, store, Jobs, Over
  <2>2. CASE Reap(j)
    BY <2>2 DEF Reap, TypeOK, store, Jobs, Over
  <2>3. CASE PodDies(j)
    BY <2>3 DEF PodDies, Exits, Fault, TypeOK, store, Jobs, Over
  <2>4. CASE PodStarts(j)
    BY <2>4 DEF PodStarts, FirstCall, Exits, TypeOK, store, Jobs, Over
  <2>5. CASE Authenticate(j)
    BY <2>5 DEF Authenticate, Exits, Fault, TypeOK, store, Jobs, Over
  <2>6. CASE Send(j)
    BY <2>6 DEF Send, TypeOK, store, Jobs, Over
  <2>7. CASE TimesOut(j)
    BY <2>7 DEF TimesOut, Exits, TypeOK, store, Jobs, Over
  <2>8. ASSUME NEW n \in 1..MaxPods, Serve(j, n) PROVE TypeOK'
    <3>1. canary' \in {"unwritten", "present", "deleted", "revived"} /\ posts' \in Nat
      BY <2>8 DEF Serve, Acts, There, TypeOK, store
    <3>2. /\ faults' \in 0..MaxFaults /\ requests' \subseteq requests
          /\ UNCHANGED <<started, configured>>
      BY <2>8 DEF Serve, Fault, TypeOK
    <3>3. CASE UNCHANGED <<job, pod>>
      BY <3>1, <3>2, <3>3 DEF TypeOK
    <3>4. ASSUME NEW a, Answered(j, n, a) PROVE TypeOK'
      BY <3>1, <3>2, <3>4 DEF Answered, Exits, TypeOK, Jobs, Over
    <3> QED BY <3>3, <3>4, <2>8 DEF Serve, Answered
  <2> QED BY <1>2, <2>1, <2>2, <2>3, <2>4, <2>5, <2>6, <2>7, <2>8 DEF Step
<1> QED BY <1>1, <1>2, NextIsStep

(* The type invariant, for any number of Pods and of faults.               *)
THEOREM OneCallTyped == Spec => []TypeOK
<1>1. TypeOK /\ [Next]_vars => TypeOK'
  BY TypeStep
<1> QED BY TypeInit, <1>1, PTL DEF Spec

-----------------------------------------------------------------------------
(* Order and the canary.                                                   *)

(* The life of a Job: it is applied, and it is over, once and for all.     *)
JobMoves(j) ==
    \A k \in Jobs :
        \/ job'[k] = job[k]
        \/ k = j /\ job[k] = "absent" /\ job'[k] = "active"
        \/ k = j /\ job[k] = "active" /\ job'[k] \in Over
        \/ k = j /\ job[k] \in Over /\ job'[k] = "reaped"

LEMMA StepMovesJob == ASSUME TypeOK, NEW j \in Jobs, Step(j) PROVE JobMoves(j)
<1> USE DEF JobMoves, TypeOK, Over
<1>1. CASE Apply(j) \/ Reap(j)
  BY <1>1 DEF Apply, Reap
<1>2. CASE PodDies(j) \/ TimesOut(j)
  BY <1>2 DEF PodDies, TimesOut, Exits
<1>3. CASE PodStarts(j) \/ Authenticate(j)
  BY <1>3 DEF PodStarts, Authenticate, Exits
<1>4. CASE Send(j)
  BY <1>4 DEF Send
<1>5. ASSUME NEW n \in 1..MaxPods, Serve(j, n) PROVE JobMoves(j)
  <2>1. UNCHANGED job \/ \E zero \in BOOLEAN : job[j] = "active" /\ Exits(j, n, zero)
    <3>1. ExitsZero(j, "error") \in BOOLEAN /\ ExitsZero(j, Answer(j)) \in BOOLEAN
      BY DEF ExitsZero, CreateSecret, DeleteItem, Post
    <3> QED BY <1>5, <3>1 DEF Serve, Answered
  <2> QED BY <2>1 DEF Exits
<1> QED BY <1>1, <1>2, <1>3, <1>4, <1>5 DEF Step

LEMMA AbsentUntilApplied ==
    ASSUME TypeOK, NEW j \in Jobs, Step(j), ~Apply(j), NEW k \in Jobs, job[k] = "absent"
    PROVE  job'[k] = "absent"
<1>1. CASE j # k
  BY <1>1, StepMovesJob DEF JobMoves
<1>2. CASE j = k
  <2>1. pod[j] = "none"
    BY <1>2 DEF TypeOK
  <2> QED BY <1>2, <2>1 DEF Step, Reap, PodDies, PodStarts, Authenticate, Send, TimesOut, Serve,
              Answered
<1> QED BY <1>1, <1>2

LEMMA InitInv == Init => OneCallInv
<1> SUFFICES ASSUME Init PROVE OneCallInv
  OBVIOUS
<1>1. OrderInv /\ LateInv /\ CanaryInv /\ FailureInv
  BY OneCallAssumption DEF Init, OrderInv, LateInv, CanaryInv, CanaryThere, CanaryGone, FailureInv,
     Failures, InFlight, Spent, Jobs, Over
<1>2. PostInv
  <2>1. Posting = {} /\ requests = {}
    BY DEF Init, Posting
  <2> QED BY <2>1, FS_EmptySet, OneCallAssumption
          DEF Init, PostInv, Free, InFlight, Spent, Jobs
<1> QED BY <1>1, <1>2 DEF OneCallInv

LEMMA OrderStep == ASSUME TypeOK, OrderInv, [Next]_vars PROVE OrderInv'
<1>1. CASE UNCHANGED vars
  BY <1>1 DEF vars, OrderInv
<1>2. ASSUME NEW j \in Jobs, Step(j) PROVE OrderInv'
  <2>1. ASSUME NEW k \in Jobs PROVE /\ job[k] # "absent" => job'[k] # "absent"
                                    /\ job[k] \in Over => job'[k] \in Over
    BY <1>2, StepMovesJob DEF JobMoves, Over
  <2>2. job["canary-delete"] # "absent" \/ job'["canary-delete"] = "absent"
            \/ job["canary-create"] \in Over
    <3>1. CASE Apply(j)
      BY <3>1 DEF Apply, TypeOK
    <3>2. CASE ~Apply(j)
      BY <1>2, <3>2, AbsentUntilApplied DEF Jobs
    <3> QED BY <3>1, <3>2
  <2>3. \A r \in requests' : r \in requests \/ (r[1] = j /\ job[j] # "absent")
    <3>1. CASE Send(j)
      BY <3>1 DEF Send, TypeOK
    <3>2. CASE ~Send(j)
      <4>1. requests' \subseteq requests
        BY <1>2, <3>2 DEF Step, Apply, Reap, PodDies, PodStarts, Authenticate, TimesOut, Serve
      <4> QED BY <4>1
    <3> QED BY <3>1, <3>2
  <2>4. \A r \in requests : r[1] \in Jobs
    BY DEF TypeOK
  <2> QED BY <2>1, <2>2, <2>3, <2>4 DEF OrderInv, Jobs
<1> QED BY <1>1, <1>2, NextIsStep

(* What a step takes from the budget stays taken.                          *)
LEMMA SpentGrows ==
    ASSUME TypeOK, [Next]_vars
    PROVE  Spent \in Nat /\ Spent' \in Nat /\ Spent' >= Spent /\ (Fault => Spent' = Spent + 1)
<1>1. faults' = faults \/ Fault
  BY NextIsStep DEF vars, Step, Apply, Reap, PodDies, PodStarts, Authenticate, Send, TimesOut, Serve
<1> QED BY <1>1, TypeStep, OneCallAssumption DEF TypeOK, Spent, Fault

LEMMA LateStep == ASSUME TypeOK, LateInv, [Next]_vars PROVE LateInv'
<1>1. CASE UNCHANGED vars
  BY <1>1 DEF vars, LateInv, Held, Spent
<1>2. ASSUME NEW j \in Jobs, Step(j), NEW r \in requests'
      PROVE  Held(r)' \/ Spent' > 0 \/ job'[r[1]] = "reaped"
  <2>1. Spent > 0 => Spent' > 0
    BY <1>2, NextIsStep, SpentGrows
  <2>2. r[1] \in Jobs /\ TypeOK'
    BY <1>2, TypeStep, NextIsStep DEF TypeOK
  <2>3. job[r[1]] = "reaped" => job'[r[1]] = "reaped"
    BY <1>2, <2>2, StepMovesJob DEF JobMoves, Over
  <2>4. CASE r \notin requests
    <3>1. Send(j) /\ r = <<j, started[j]>>
      BY <1>2, <2>4 DEF Step, Apply, Reap, PodDies, PodStarts, Authenticate, Send, TimesOut, Serve
    <3> QED BY <3>1 DEF Send, Held, TypeOK
  <2>5. CASE r \in requests /\ Held(r)
    <3> USE <2>2, <2>5 DEF Held
    <3>1. CASE j # r[1]
      <4>1. pod'[r[1]] = pod[r[1]] /\ started'[r[1]] = started[r[1]]
        BY <1>2, <3>1 DEF Step, Apply, Reap, PodDies, PodStarts, Authenticate, Send, TimesOut,
           Serve, Answered, Exits, TypeOK
      <4> QED BY <4>1
    <3>2. CASE j = r[1]
      <4> r = <<j, started[j]>> /\ pod[j] = "wait" /\ job[j] = "active"
        BY <3>2 DEF TypeOK
      <4>1. CASE Reap(j)
        BY <4>1, <3>2 DEF Reap, TypeOK
      <4>2. CASE PodDies(j)
        <5>1. Fault
          BY <4>2 DEF PodDies
        <5> QED BY <5>1, <1>2, NextIsStep, SpentGrows
      <4>3. ASSUME NEW n \in 1..MaxPods, Serve(j, n)
            PROVE  Held(r)'
        <5>1. n # started[j]
          BY <4>3, <1>2 DEF Serve
        <5> QED BY <5>1, <4>3 DEF Serve, Answered
      <4>4. ~Apply(j) /\ ~PodStarts(j) /\ ~Authenticate(j) /\ ~Send(j) /\ ~TimesOut(j)
        BY DEF Apply, PodStarts, Authenticate, Send, TimesOut
      <4> QED BY <1>2, <4>1, <4>2, <4>3, <4>4 DEF Step
    <3> QED BY <3>1, <3>2
  <2> QED BY <2>1, <2>3, <2>4, <2>5 DEF LateInv
<1> QED BY <1>1, <1>2, NextIsStep DEF LateInv

LEMMA CanaryStep == ASSUME TypeOK, OrderInv, LateInv, CanaryInv, [Next]_vars PROVE CanaryInv'
<1>1. CASE UNCHANGED vars
  BY <1>1 DEF vars, CanaryInv, CanaryThere, CanaryGone, There, Spent
<1>2. ASSUME NEW j \in Jobs, Step(j) PROVE CanaryInv'
  <2>1. Spent > 0 => Spent' > 0
    BY <1>2, NextIsStep, SpentGrows
  <2>2. JobMoves(j)
    BY <1>2, StepMovesJob
  <2> USE DEF CanaryInv, CanaryThere, CanaryGone, There
  <2>3. CASE Apply(j) \/ Reap(j) \/ PodDies(j) \/ PodStarts(j) \/ Authenticate(j)
             \/ Send(j) \/ TimesOut(j)
    <3>1. canary' = canary
      BY <2>3 DEF Apply, Reap, PodDies, PodStarts, Authenticate, Send, TimesOut, store
    <3>2. ASSUME NEW k \in Jobs PROVE job'[k] = "complete" => job[k] = "complete"
      BY <2>3, <3>2 DEF Apply, Reap, PodDies, PodStarts, Authenticate, Send, TimesOut, Exits, TypeOK
    <3> QED BY <2>1, <2>2, <3>1, <3>2 DEF JobMoves, Jobs, Over
  <2>4. ASSUME NEW n \in 1..MaxPods, Serve(j, n) PROVE CanaryInv'
    <3>1. job[j] # "absent" /\ <<j, n>> \in requests
      BY <2>4 DEF Serve, OrderInv
    <3>2. CASE j = "canary-create"
      <4>1. job'["canary-delete"] = job["canary-delete"]
        BY <3>2, <2>2 DEF JobMoves, Jobs
      <4>2. CASE job["canary-delete"] = "absent"
        BY <4>1, <4>2, <2>4, <3>2 DEF Serve, Acts, Answered, Answer, Exits, ExitsZero, CreateSecret,
           store, TypeOK, Jobs, Over
      <4>3. CASE job["canary-delete"] # "absent"
        <5>1. job[j] \in Over /\ pod[j] = "none"
          BY <3>2, <4>3 DEF OrderInv, TypeOK, Jobs, Over
        <5>2. Spent > 0 \/ job[j] = "reaped"
          BY <3>1, <5>1 DEF LateInv, Held
        <5>3. canary' = canary \/ canary' \in {"present", "revived"}
          BY <2>4, <3>2 DEF Serve, Acts, store
        <5>4. canary' = "present" => canary = "unwritten" \/ canary = "present"
          BY <2>4, <3>2 DEF Serve, Acts, store, TypeOK
        <5>5. job'[j] = job[j]
          BY <5>1, <2>4 DEF Serve, Answered
        <5> QED BY <2>1, <3>2, <4>1, <4>3, <5>2, <5>3, <5>4, <5>5
      <4> QED BY <4>2, <4>3
    <3>3. CASE j = "canary-delete"
      <4>1. canary' = "deleted" \/ (canary' = canary /\ (job'[j] = "complete" => job[j] = "complete"))
        BY <2>4, <3>3 DEF Serve, Acts, Answered, Exits, ExitsZero, CreateSecret, DeleteItem, Post,
           store, TypeOK
      <4>2. job'["canary-create"] = job["canary-create"] /\ job'[j] # "absent"
        BY <2>2, <3>1, <3>3 DEF JobMoves, Jobs, Over
      <4> QED BY <2>1, <3>1, <3>3, <4>1, <4>2
    <3>4. CASE j = "notify"
      <4>1. canary' = canary /\ \A k \in Jobs \ {j} : job'[k] = job[k]
        BY <2>2, <2>4, <3>4 DEF Serve, Acts, store, JobMoves
      <4> QED BY <2>1, <3>4, <4>1 DEF Jobs
    <3> QED BY <3>2, <3>3, <3>4 DEF Jobs
  <2> QED BY <1>2, <2>3, <2>4 DEF Step
<1> QED BY <1>1, <1>2, NextIsStep

-----------------------------------------------------------------------------
(* Failures are paid for.                                                  *)

LEMMA FailureStep ==
    ASSUME TypeOK, OrderInv, FailureInv, [Next]_vars PROVE FailureInv'
<1>1. CASE UNCHANGED vars
  BY <1>1 DEF vars, FailureInv, Excused, There, Spent, Failures, InFlight
<1>2. ASSUME NEW j \in Jobs, Step(j) PROVE FailureInv'
  <2> SUFFICES ASSUME NEW k \in configured, job'[k] \in {"absent", "active"}
               PROVE  Excused(k)' \/ Spent' >= Failures(k)'
    <3>1. configured' = configured
      BY <1>2 DEF Step, Apply, Reap, PodDies, PodStarts, Authenticate, Send, TimesOut, Serve
    <3> QED BY <3>1 DEF FailureInv
  <2>1. k \in Jobs /\ job[k] \in {"absent", "active"} /\ TypeOK'
    BY <1>2, TypeStep, StepMovesJob DEF JobMoves, TypeOK, Over
  <2>2. Excused(k) \/ Spent >= Failures(k)
    BY <2>1 DEF FailureInv
  <2>3. Excused(k) => Excused(k)'
    <3>1. k = "canary-create" => <<"canary-delete", 1>>[1] = "canary-delete" /\ job["canary-delete"] = "absent"
      BY <2>1 DEF OrderInv, TypeOK, Over, Jobs
    <3> QED BY <1>2, <3>1 DEF Excused, There, Step, Apply, Reap, PodDies, PodStarts, Authenticate,
               Send, TimesOut, Serve, Acts, store, OrderInv
  <2>4. CASE Spent >= Failures(k)
    <3>1. CASE j # k
      <4>1. started'[k] = started[k] /\ pod'[k] = pod[k] /\ InFlight(k)' = InFlight(k)
        BY <1>2, <2>1, <3>1 DEF Step, Apply, Reap, PodDies, PodStarts, Authenticate, Send,
           TimesOut, Serve, Answered, Exits, TypeOK, InFlight
      <4>2. Failures(k)' = Failures(k) /\ Failures(k) \in Int
        BY <4>1, <2>1 DEF Failures, TypeOK
      <4> QED BY <4>2, <2>4, SpentGrows
    <3>2. CASE j = k
      <4> DEFINE n == started[k]
      <4> USE <2>1, <2>4, <3>2 DEF Failures, InFlight
      <4>0. n \in Nat /\ (pod[k] # "none" => n \in 1..MaxPods)
        BY DEF TypeOK
      <4>1. CASE Apply(k) \/ Send(k)
        BY <4>0, <4>1, SpentGrows DEF Apply, Send, TypeOK
      <4>2. CASE Reap(k)
        BY <4>2 DEF Reap, TypeOK
      <4>3. CASE PodDies(k)
        BY <4>0, <4>3, SpentGrows DEF PodDies, Exits, TypeOK
      <4>4. CASE PodStarts(k)
        BY <4>0, <4>4, SpentGrows DEF PodStarts, FirstCall, TypeOK
      <4>5. CASE Authenticate(k)
        BY <4>0, <4>5, SpentGrows DEF Authenticate, Exits, TypeOK
      <4>6. CASE TimesOut(k)
        BY <4>0, <4>6, SpentGrows DEF TimesOut, Exits, TypeOK
      <4>7. ASSUME NEW m \in 1..MaxPods, Serve(k, m)
            PROVE  Excused(k)' \/ Spent' >= Failures(k)'
        <5>1. CASE pod[k] = "wait" /\ n = m
          <6>1. CASE Fault
            BY <4>0, <4>7, <5>1, <6>1, SpentGrows DEF Serve, Answered, Exits, TypeOK
          <6>2. CASE ~Fault
            <7>1. Exits(k, m, ExitsZero(k, Answer(k)))
              BY <4>7, <5>1, <6>2 DEF Serve, Answered
            <7>2. ~ExitsZero(k, Answer(k))
              BY <7>1 DEF Exits, TypeOK, Over
            <7>3. Excused(k)
              BY <7>2 DEF ExitsZero, CreateSecret, DeleteItem, Post, Answer, Excused, Jobs
            <7> QED BY <7>3, <2>3
          <6> QED BY <6>1, <6>2
        <5>2. CASE ~(pod[k] = "wait" /\ n = m)
          BY <4>0, <4>7, <5>2, SpentGrows DEF Serve, Answered, TypeOK
        <5> QED BY <5>1, <5>2
      <4> QED BY <1>2, <4>1, <4>2, <4>3, <4>4, <4>5, <4>6, <4>7 DEF Step
    <3> QED BY <3>1, <3>2
  <2> QED BY <2>2, <2>3, <2>4
<1> QED BY <1>1, <1>2, NextIsStep

-----------------------------------------------------------------------------
(* Messages are paid for.                                                  *)

(* What sending and dealing with one request changes.                      *)
LEMMA PostingFinite ==
    ASSUME IsFiniteSet(requests) PROVE IsFiniteSet(Posting) /\ Cardinality(Posting) \in Nat
BY FS_Subset, FS_CardinalityType DEF Posting

LEMMA PostingGrows ==
    ASSUME IsFiniteSet(requests), NEW r, requests' = requests \cup {r}
    PROVE  /\ IsFiniteSet(requests')
           /\ r[1] # "notify" => UNCHANGED Posting
           /\ Cardinality(Posting') \in {Cardinality(Posting), Cardinality(Posting) + 1}
<1>1. IsFiniteSet(requests')
  BY FS_AddElement
<1>2. r[1] # "notify" => UNCHANGED Posting
  BY DEF Posting
<1>3. r[1] = "notify" => Posting' = Posting \cup {r}
  BY DEF Posting
<1>4. Cardinality(Posting \cup {r}) \in {Cardinality(Posting), Cardinality(Posting) + 1}
  BY PostingFinite, FS_AddElement
<1> QED BY <1>1, <1>2, <1>3, <1>4

LEMMA PostingShrinks ==
    ASSUME IsFiniteSet(requests), NEW r \in requests, requests' = requests \ {r}
    PROVE  /\ IsFiniteSet(requests')
           /\ r[1] # "notify" => UNCHANGED Posting
           /\ r[1] = "notify" => Cardinality(Posting') = Cardinality(Posting) - 1
<1>1. IsFiniteSet(requests')
  BY FS_RemoveElement
<1>2. r[1] # "notify" => UNCHANGED Posting
  BY DEF Posting
<1>3. r[1] = "notify" => r \in Posting /\ Posting' = Posting \ {r}
  BY DEF Posting
<1>4. r \in Posting => Cardinality(Posting \ {r}) = Cardinality(Posting) - 1
  BY PostingFinite, FS_RemoveElement
<1> QED BY <1>1, <1>2, <1>3, <1>4

LEMMA PostStep == ASSUME TypeOK, PostInv, [Next]_vars PROVE PostInv'
<1> DEFINE c == Cardinality(Posting)
<1>0. c \in Nat /\ Free \in {0, 1} /\ posts \in Nat /\ Spent \in Nat /\ Spent' \in Nat
  BY PostingFinite, SpentGrows DEF PostInv, Free, TypeOK
<1>1. ASSUME requests' = requests PROVE IsFiniteSet(requests') /\ c' = c
  BY <1>1 DEF PostInv, Posting
<1>2. CASE UNCHANGED vars
  BY <1>2, <1>1 DEF vars, PostInv, Free, InFlight, Spent
<1>3. ASSUME NEW j \in Jobs, j # "notify", Step(j) PROVE PostInv'
  <2>1. posts' = posts
    BY <1>3 DEF Step, Apply, Reap, PodDies, PodStarts, Authenticate, Send, TimesOut,
       Serve, Acts, store
  <2>2. job'["notify"] = job["notify"]
    BY <1>3, StepMovesJob DEF JobMoves, Jobs
  <2>3. InFlight("notify")' = InFlight("notify")
    BY <1>3 DEF InFlight, Step, Apply, Reap, PodDies, PodStarts, Authenticate, Send,
       TimesOut, Serve, Answered, Exits, TypeOK, Jobs
  <2>4. IsFiniteSet(requests') /\ c' = c
    <3>1. CASE Send(j)
      <4>1. requests' = requests \cup {<<j, started[j]>>} /\ <<j, started[j]>>[1] # "notify"
        BY <3>1, <1>3 DEF Send
      <4>2. IsFiniteSet(requests') /\ UNCHANGED Posting
        BY <4>1, PostingGrows DEF PostInv
      <4> QED BY <4>2
    <3>2. ASSUME NEW n \in 1..MaxPods, Serve(j, n) PROVE IsFiniteSet(requests') /\ c' = c
      <4>1. <<j, n>> \in requests /\ requests' = requests \ {<<j, n>>} /\ <<j, n>>[1] # "notify"
        BY <3>2, <1>3 DEF Serve
      <4>2. IsFiniteSet(requests') /\ UNCHANGED Posting
        BY <4>1, PostingShrinks DEF PostInv
      <4> QED BY <4>2
    <3>3. CASE requests' = requests
      BY <3>3, <1>1
    <3> QED BY <1>3, <3>1, <3>2, <3>3
            DEF Step, Apply, Reap, PodDies, PodStarts, Authenticate, TimesOut
  <2>5. Free' = Free
    BY <2>2, <2>3 DEF Free
  <2>6. posts + c <= Spent' + Free
    BY <1>0, SpentGrows DEF PostInv
  <2> QED BY <2>1, <2>2, <2>4, <2>5, <2>6 DEF PostInv
<1>4. ASSUME Step("notify") PROVE PostInv'
  <2> DEFINE j == "notify"
  <2> j \in Jobs
    BY DEF Jobs
  <2>1. posts + c <= Spent' + Free
    BY <1>0, SpentGrows DEF PostInv
  <2>2. CASE Apply(j) \/ Reap(j)
    <3>1. posts' = posts /\ requests' = requests /\ job'[j] # "complete" /\ Free' >= Free
      BY <2>2 DEF Apply, Reap, TypeOK, store, Free, InFlight, Over
    <3> QED BY <1>0, <1>1, <2>1, <3>1 DEF PostInv, Free
  <2>3. CASE PodDies(j)
    <3>1. posts' = posts /\ requests' = requests /\ job'[j] # "complete" /\ Free' = 0 /\ Fault
      BY <2>3 DEF PodDies, Exits, TypeOK, store, Free, InFlight, Over
    <3> QED BY <1>0, <1>1, <3>1, SpentGrows DEF PostInv
  <2>4. CASE PodStarts(j) \/ Authenticate(j) \/ TimesOut(j)
    <3>1. posts' = posts /\ requests' = requests /\ job'[j] # "complete" /\ Free = 0
      BY <2>4 DEF PodStarts, FirstCall, Authenticate, TimesOut, Exits, TypeOK, store, Free,
         InFlight, Over
    <3>2. Free' \in {0, 1}
      BY DEF Free
    <3> QED BY <1>0, <1>1, <2>1, <3>1, <3>2 DEF PostInv
  <2>5. CASE Send(j)
    <3>1. /\ requests' = requests \cup {<<j, started[j]>>}
          /\ posts' = posts /\ job'[j] # "complete" /\ Free = 0 /\ Free' = 1
      BY <2>5 DEF Send, TypeOK, store, Free, InFlight, Over
    <3>2. IsFiniteSet(requests') /\ c' \in {c, c + 1}
      <4>1. IsFiniteSet(requests)
        BY DEF PostInv
      <4> QED BY <3>1, <4>1, PostingGrows
    <3> QED BY <1>0, <2>1, <3>1, <3>2 DEF PostInv
  <2>6. ASSUME NEW n \in 1..MaxPods, Serve(j, n) PROVE PostInv'
    <3>1. c' = c - 1 /\ IsFiniteSet(requests')
      <4>1. <<j, n>> \in requests /\ requests' = requests \ {<<j, n>>} /\ <<j, n>>[1] = "notify"
        BY <2>6 DEF Serve
      <4>2. IsFiniteSet(requests)
        BY DEF PostInv
      <4> QED BY <4>1, <4>2, PostingShrinks
    <3>2. CASE Fault
      <4>1. posts' \in {posts, posts + 1}
        BY <2>6 DEF Serve, Acts, store
      <4>2. job'[j] = "complete" => job[j] = "complete"
        BY <2>6, <3>2 DEF Serve, Fault, Answered, Exits, ExitsZero, CreateSecret, DeleteItem, Post,
           TypeOK
      <4>3. posts' + c' <= posts + c /\ Spent' = Spent + 1 /\ Free' \in {0, 1} /\ posts' \in Nat
        BY <1>0, <3>1, <3>2, <4>1, SpentGrows DEF Free
      <4> QED BY <1>0, <3>1, <4>1, <4>2, <4>3 DEF PostInv
    <3>3. CASE ~Fault
      <4>1. posts' = posts + 1 /\ Answered(j, n, "ok") /\ requests' = requests \ {<<j, n>>}
            /\ UNCHANGED started
        BY <2>6, <3>3 DEF Serve, Acts, Answer
      <4>2. Free' >= Free
        BY <4>1 DEF Answered, Exits, ExitsZero, Post, TypeOK, Free, InFlight
      <4>3. Free' \in {0, 1}
        BY DEF Free
      <4> QED BY <1>0, <2>1, <3>1, <4>1, <4>2, <4>3 DEF PostInv
    <3> QED BY <3>2, <3>3
  <2> QED BY <1>4, <2>2, <2>3, <2>4, <2>5, <2>6 DEF Step
<1> QED BY <1>2, <1>3, <1>4, NextIsStep

-----------------------------------------------------------------------------
(* The theorems.                                                           *)

(* The accounting as a whole: it holds at first, and each step keeps it.   *)
THEOREM OneCallSafety == Spec => []OneCallInv
<1>1. TypeOK /\ OneCallInv /\ [Next]_vars => OneCallInv'
  BY OrderStep, LateStep, CanaryStep, FailureStep, PostStep DEF OneCallInv
<1> QED BY InitInv, OneCallTyped, <1>1, PTL DEF Spec

(* A complete canary-create Job vouches for its canary, whatever was lost  *)
(* or came late.                                                           *)
THEOREM CreationVouched == Spec => []CanaryThere
<1>1. OneCallInv => CanaryThere
  BY DEF OneCallInv, CanaryInv
<1> QED BY OneCallSafety, <1>1, PTL

(* A complete canary-delete Job vouches for the canary's removal: without  *)
(* a fault or a reaped canary-create Job, the canary is gone for good.     *)
THEOREM RemovalVouched == Spec => []CanaryGone
<1>1. OneCallInv => CanaryGone
  BY DEF OneCallInv, CanaryInv
<1> QED BY OneCallSafety, <1>1, PTL

(* A complete notify Job delivered its message, and each further copy in   *)
(* the channel has a fault to answer for it.                               *)
THEOREM NotificationCounted == Spec => []NotificationDelivered
<1>1. TypeOK /\ OneCallInv => NotificationDelivered
  <2> SUFFICES ASSUME TypeOK, PostInv PROVE NotificationDelivered
    BY DEF OneCallInv
  <2>1. Cardinality(Posting) \in Nat /\ posts \in Nat /\ Spent \in Nat
    BY PostingFinite, OneCallAssumption DEF PostInv, TypeOK, Spent
  <2>2. Free \in {0, 1} /\ (job["notify"] = "failed" => Free = 0)
    BY DEF Free, InFlight, TypeOK, Jobs
  <2> QED BY <2>1, <2>2 DEF PostInv, NotificationDelivered
<1> QED BY OneCallTyped, OneCallSafety, <1>1, PTL

(* A configured Job fails only after a fault for each of its Pods; only    *)
(* canary-create may fail sooner, by a canary that is there already.       *)
THEOREM FailuresEarned == Spec => FailureIsEarned
<1> DEFINE Earned == \A j \in configured : job[j] # "failed" /\ job'[j] = "failed" =>
                        Spent' >= MaxPods \/ (j = "canary-create" /\ There)
<1>1. TypeOK /\ OneCallInv /\ [Next]_vars => [Earned]_vars
  <2> SUFFICES ASSUME TypeOK, OrderInv, FailureInv, [Next]_vars,
                      NEW k \in configured, job[k] # "failed", job'[k] = "failed"
               PROVE  Spent' >= MaxPods \/ (k = "canary-create" /\ There)
    BY DEF OneCallInv
  <2>1. PICK j \in Jobs : Step(j)
    BY NextIsStep DEF vars
  <2>2. k = j /\ k \in Jobs
    BY <2>1, StepMovesJob DEF JobMoves, TypeOK, Over
  <2>3. job[k] \in {"absent", "active"} /\ job[k] # job'[k]
    BY <2>1, <2>2, StepMovesJob DEF JobMoves, TypeOK, Over
  <2>4. Excused(k) \/ Spent >= Failures(k)
    BY <2>3 DEF FailureInv
  <2>5. Spent \in Nat /\ Spent' \in Nat /\ Spent' >= Spent /\ (Fault => Spent' = Spent + 1)
    BY <2>2, SpentGrows DEF TypeOK
  <2>6. CASE Spent >= Failures(k)
    <3> USE <2>2, <2>3, <2>5, <2>6, OneCallAssumption
    <3>1. CASE Apply(k) \/ Reap(k) \/ PodStarts(k) \/ Send(k)
      BY <3>1 DEF Apply, Reap, PodStarts, Send, TypeOK
    <3>2. CASE PodDies(k) \/ Authenticate(k)
      <4>1. Fault /\ pod[k] # "none" /\ started[k] = MaxPods
        BY <3>2 DEF PodDies, Authenticate, Exits, TypeOK
      <4> QED BY <4>1 DEF Failures
    <3>3. CASE TimesOut(k)
      <4>1. pod[k] = "wait" /\ ~InFlight(k) /\ started[k] = MaxPods
        BY <3>3 DEF TimesOut, Exits, TypeOK, InFlight
      <4> QED BY <4>1 DEF Failures
    <3>4. ASSUME NEW m \in 1..MaxPods, Serve(k, m)
          PROVE  Spent' >= MaxPods \/ Excused(k)
      <4>1. pod[k] = "wait" /\ started[k] = m /\ <<k, m>> \in requests
        BY <3>4 DEF Serve, Answered
      <4>2. CASE Fault
        <5>1. m = MaxPods
          BY <3>4, <4>1 DEF Serve, Answered, Exits, TypeOK
        <5> QED BY <4>1, <4>2, <5>1 DEF Failures, InFlight
      <4>3. CASE ~Fault
        <5>1. ~ExitsZero(k, Answer(k))
          BY <3>4, <4>1, <4>3 DEF Serve, Answered, Exits, TypeOK
        <5> QED BY <5>1 DEF ExitsZero, CreateSecret, DeleteItem, Post, Answer, Excused, Jobs
      <4> QED BY <4>2, <4>3
    <3> QED BY <2>1, <3>1, <3>2, <3>3, <3>4 DEF Step, Excused
  <2> QED BY <2>4, <2>6 DEF Excused
<1> QED BY OneCallTyped, OneCallSafety, <1>1, PTL DEF Spec, FailureIsEarned

-----------------------------------------------------------------------------
(* What liveness rests on, apart from the scheduler.                       *)

(* What is left of a Job: the Pods it may still start, four steps each,    *)
(* and the steps of the one that runs.                                     *)
PodSteps(at) == CASE at = "auth" -> 3 [] at = "call" -> 2 [] at = "wait" -> 1 [] OTHER -> 0
Left(j) == 4 * (MaxPods - started[j]) + PodSteps(pod[j])

Moved(j) == pod'[j] # pod[j] \/ started'[j] # started[j]
JobsRunDown == \A j \in Jobs : Moved(j) => Left(j)' < Left(j)

LEMMA PodStepCounts ==
    /\ PodSteps("none") = 0 /\ PodSteps("auth") = 3
    /\ PodSteps("call") = 2 /\ PodSteps("wait") = 1
BY DEF PodSteps

LEMMA LeftShrinks ==
    ASSUME TypeOK, NEW j \in Jobs, Step(j), Moved(j) PROVE Left(j)' < Left(j)
<1>1. /\ started[j] \in Nat /\ started[j] <= MaxPods /\ MaxPods \in Nat
      /\ PodSteps(pod[j]) \in Nat
  BY PodStepCounts, OneCallAssumption DEF TypeOK
<1>2. CASE Apply(j) \/ TimesOut(j) \/ Reap(j) \/ PodDies(j)
  <2>1. started' = started /\ pod[j] # "none" /\ pod'[j] = "none"
    BY <1>2 DEF Apply, TimesOut, Reap, PodDies, Exits, Moved, TypeOK
  <2>2. PodSteps(pod[j]) > 0 /\ PodSteps(pod'[j]) = 0
    BY <2>1, PodStepCounts DEF TypeOK
  <2> QED BY <1>1, <2>1, <2>2 DEF Left
<1>3. CASE PodStarts(j)
  <2>1. started'[j] = started[j] + 1 /\ pod[j] = "none" /\ pod'[j] \in {"none", "auth", "call"}
    BY <1>3 DEF PodStarts, FirstCall, Exits, TypeOK
  <2>2. PodSteps(pod[j]) = 0 /\ PodSteps(pod'[j]) \in {0, 2, 3}
    BY <2>1, PodStepCounts
  <2> QED BY <1>1, <2>1, <2>2 DEF Left
<1>4. CASE Authenticate(j)
  <2>1. started' = started /\ pod[j] = "auth" /\ pod'[j] \in {"call", "none"}
    BY <1>4 DEF Authenticate, Exits, TypeOK
  <2>2. PodSteps(pod[j]) = 3 /\ PodSteps(pod'[j]) \in {0, 2}
    BY <2>1, PodStepCounts
  <2> QED BY <1>1, <2>1, <2>2 DEF Left
<1>5. CASE Send(j)
  <2>1. started' = started /\ pod[j] = "call" /\ pod'[j] = "wait"
    BY <1>5 DEF Send, TypeOK
  <2>2. PodSteps(pod[j]) = 2 /\ PodSteps(pod'[j]) = 1
    BY <2>1, PodStepCounts
  <2> QED BY <1>1, <2>1, <2>2 DEF Left
<1>6. ASSUME NEW n \in 1..MaxPods, Serve(j, n) PROVE Left(j)' < Left(j)
  <2>1. started' = started /\ pod[j] = "wait" /\ pod'[j] = "none"
    BY <1>6 DEF Serve, Answered, Exits, Moved, TypeOK
  <2>2. PodSteps(pod[j]) = 1 /\ PodSteps(pod'[j]) = 0
    BY <2>1, PodStepCounts
  <2> QED BY <1>1, <2>1, <2>2 DEF Left
<1> QED BY <1>2, <1>3, <1>4, <1>5, <1>6 DEF Step

(* A Job takes at most four steps for each Pod of its backoffLimit, in     *)
(* whatever way its calls are answered, refused, lost or late: each step   *)
(* uses one up and no step of another Job gives one back.  Under a fair    *)
(* scheduler this is why every Job comes to an end.                        *)
THEOREM JobsBounded == Spec => [][JobsRunDown]_vars
<1>1. TypeOK /\ [Next]_vars => [JobsRunDown]_vars
  <2> SUFFICES ASSUME TypeOK, Next, NEW k \in Jobs, Moved(k) PROVE Left(k)' < Left(k)
    BY DEF JobsRunDown
  <2>1. PICK j \in Jobs : Step(j)
    BY NextIsStep
  <2>2. j = k
    BY <2>1 DEF Moved, Step, Apply, Reap, PodDies, PodStarts, Authenticate, Send, TimesOut,
       Serve, Answered, Exits, TypeOK
  <2> QED BY <2>1, <2>2, LeftShrinks
<1> QED BY OneCallTyped, <1>1, PTL DEF Spec
=============================================================================
