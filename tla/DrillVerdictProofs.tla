-------------------------- MODULE DrillVerdictProofs --------------------------
(***************************************************************************)
(* The verdict of a drill, those who act on it and what becomes of it, for *)
(* all values of Drill's constants; what is certain until a fault strikes; *)
(* and the inductive invariant as a whole.                                 *)
(***************************************************************************)
EXTENDS DrillSafetyProofs

USE DEF Objects, Jobs

-----------------------------------------------------------------------------
(* The verdict and its readers.                                            *)

LEMMA Later == \A m, n \in Nat : m <= n => m <= n + 1 /\ m # n + 1
OBVIOUS

LEMMA Reflexive == \A n \in Nat : n <= n /\ 0 <= n /\ n + 1 # 0
OBVIOUS

LEMMA Versions ==
    ASSUME TypeOK
    PROVE  cm.rv \in Nat /\ csnap.rv \in Nat
BY DEF TypeOK, ClusterTypeOK, CleanupTypeOK, ConfigMaps

LEMMA Stored ==
    ASSUME NEW p, NEW c, Store(p, c)
    PROVE  cm'.rv = cm.rv + 1 /\ cm'.phase = p
BY DEF Store

LEMMA VerdictNonempty == Verdict # ""
BY DEF Verdict

(* A store by cleanup leaves the verdict as it is.                         *)
LEMMA CleanupKeepsVerdict ==
    ASSUME SnapshotInv, CleanupStep
    PROVE  cm'.phase = cm.phase
<1>1. CASE KeepConfigMap
  BY <1>1, Zenon DEF KeepConfigMap
<1>2. CASE cm.rv = 0 /\ Store("", cstatus)
  BY <1>2, Stored DEF SnapshotInv
<1>3. CASE csnap.rv = cm.rv /\ Store(csnap.phase, cstatus)
  BY <1>3, Stored DEF SnapshotInv
<1> QED BY <1>1, <1>2, <1>3, CleanupStores

(* The copy a cleanup Pod holds: taken by ReportGet, dropped with the Pod. *)
LEMMA SnapshotTaken ==
    ASSUME [Next]_vars
    PROVE  csnap' = csnap \/ csnap' = NoConfigMap \/ (csnap' = cm /\ KeepConfigMap)
<1>1. ASSUME UNCHANGED cleanupVars PROVE csnap' = csnap
  BY <1>1, Zenon DEF cleanupVars
<1>2. CASE CleanupStep
  <2>1. CASE ReportGet
    BY <2>1 DEF ReportGet, CleanupCall, Request, KeepConfigMap
  <2>2. CASE CleanupExits
    BY <2>2 DEF CleanupExits, CleanupPodEnds
  <2>3. CASE ~ReportGet /\ ~CleanupExits
    BY <1>2, <2>3
       DEF CleanupStep, CleanupNext, CleanupPodStarts, ReadFailureHandling, PollGet, PollGivesUp,
           PollIntervalElapses, Decide, RetentionEnds, ListMRs, DeleteMR, DeleteNamespace,
           ListPeerJobs, DeletePeerJob, ReportCreate, ReportUpdate
  <2> QED BY <2>1, <2>2, <2>3
<1>3. CASE TimePasses
  BY <1>3 DEF TimePasses, Tick
<1>4. CASE CleanupPodEnds("idle")
  BY <1>4 DEF CleanupPodEnds
<1>5. UNCHANGED vars => UNCHANGED cleanupVars
  BY Zenon DEF vars
<1> QED BY <1>1, <1>2, <1>3, <1>4, <1>5, VerifyFrame, OtherFrame DEF Next

LEMMA ConfigMapMoves ==
    ASSUME [Next]_vars
    PROVE  KeepConfigMap \/ cm'.rv = cm.rv + 1
<1>1. UNCHANGED vars => KeepConfigMap
  BY Zenon DEF vars, clusterVars, KeepConfigMap
<1> QED BY <1>1, Stored, VerifyStores, CleanupStores, OtherFrame DEF Next

(* A verify Pod of presence mode that is done has stored its verdict.      *)
LEMMA ReportedOnExit ==
    ASSUME VerifyStep, Mode = "presence", vpc' = "exit0"
    PROVE  cm'.phase # ""
<1> USE DEF AfterWrite
<1>1. CASE VerifyCreates
  <2>1. Store(Verdict, "")
    BY <1>1 DEF VerifyCreates, VerifyCall, Request, Create
  <2> QED BY <2>1, Stored, VerdictNonempty
<1>2. CASE VerifyGets
  BY <1>2 DEF VerifyGets, VerifyCall, Request
<1>3. CASE VerifyUpdates
  <2>1. Store(Verdict, "")
    BY <1>3 DEF VerifyUpdates, VerifyCall, Request, Update
  <2> QED BY <2>1, Stored, VerdictNonempty
<1>4. CASE VerifyPodStarts \/ Authenticate \/ VerifyExits \/ \E i \in Items : LookAt(i)
  BY <1>4 DEF VerifyPodStarts, Authenticate, VerifyExits, VerifyPodEnds, LookAt
<1> QED BY <1>1, <1>2, <1>3, <1>4 DEF VerifyStep, VerifyNext

LEMMA VerifyFinishes ==
    ASSUME VerifyStep, vpc' = "complete"
    PROVE  vpc \in {"exit0", "complete"}
BY DEF VerifyStep, VerifyNext, VerifyPodStarts, Authenticate, VerifyExits, VerifyPodEnds, LookAt,
       VerifyCreates, VerifyGets, VerifyUpdates, VerifyCall, Request, AfterWrite

LEMMA VerdictStays ==
    ASSUME SnapshotInv, [Next]_vars, cm.phase # ""
    PROVE  cm'.phase # ""
<1>1. ASSUME KeepConfigMap PROVE cm'.phase # ""
  BY <1>1, Zenon DEF KeepConfigMap
<1>2. UNCHANGED vars => KeepConfigMap
  BY Zenon DEF vars, clusterVars, KeepConfigMap
<1>3. CASE VerifyStep
  BY <1>1, <1>3, VerifyStores, Stored, VerdictNonempty
<1> QED BY <1>1, <1>2, <1>3, CleanupKeepsVerdict, OtherFrame DEF Next

LEMMA SnapshotStep ==
    ASSUME TypeOK, SnapshotInv, [Next]_vars
    PROVE  SnapshotInv'
<1>1. cm'.rv = 0 => cm'.phase = ""
  <2>1. CASE KeepConfigMap
    BY <2>1, Zenon DEF KeepConfigMap, SnapshotInv
  <2>2. CASE cm'.rv = cm.rv + 1
    BY <2>2, Versions, Reflexive
  <2> QED BY <2>1, <2>2, ConfigMapMoves
<1>2. csnap'.rv <= cm'.rv /\ (csnap'.rv = cm'.rv => csnap'.phase = cm'.phase)
  <2>1. CASE csnap' = cm /\ KeepConfigMap
    <3>1. cm' = cm
      BY <2>1, Zenon DEF KeepConfigMap
    <3> QED BY <2>1, <3>1, Versions, Reflexive
  <2>2. CASE csnap' = NoConfigMap
    <3>1. csnap'.rv = 0 /\ csnap'.phase = ""
      BY <2>2 DEF NoConfigMap
    <3>2. cm'.rv \in Nat
      <4>1. CASE KeepConfigMap
        BY <4>1, Versions, Zenon DEF KeepConfigMap
      <4>2. CASE cm'.rv = cm.rv + 1
        BY <4>2, Versions, Successor
      <4> QED BY <4>1, <4>2, ConfigMapMoves
    <3> QED BY <3>1, <3>2, <1>1, Reflexive
  <2>3. CASE csnap' = csnap
    <3>1. CASE KeepConfigMap
      BY <2>3, <3>1, Zenon DEF KeepConfigMap, SnapshotInv
    <3>2. CASE cm'.rv = cm.rv + 1
      BY <2>3, <3>2, Versions, Later DEF SnapshotInv
    <3> QED BY <3>1, <3>2, ConfigMapMoves
  <2> QED BY <2>1, <2>2, <2>3, SnapshotTaken
<1>3. Mode = "presence" /\ vpc' \in {"exit0", "complete"} => cm'.phase # ""
  <2> SUFFICES ASSUME Mode = "presence", vpc' \in {"exit0", "complete"} PROVE cm'.phase # ""
    OBVIOUS
  <2>1. CASE vpc \in {"exit0", "complete"}
    BY <2>1, VerdictStays DEF SnapshotInv
  <2>2. CASE vpc \notin {"exit0", "complete"}
    <3>1. VerifyStep
      <4>1. ASSUME UNCHANGED verifyVars PROVE FALSE
        BY <2>2, <4>1 DEF verifyVars
      <4>2. ~VerifyPodEnds("idle") /\ ~VerifyContextExpires
        BY <2>2 DEF VerifyPodEnds, VerifyContextExpires
      <4>3. UNCHANGED vars => UNCHANGED verifyVars
        BY Zenon DEF vars
      <4> QED BY <4>1, <4>2, <4>3, CleanupFrame, OtherFrame DEF Next
    <3> QED BY <2>2, <3>1, ReportedOnExit, VerifyFinishes
  <2> QED BY <2>1, <2>2
<1> QED BY <1>1, <1>2, <1>3 DEF SnapshotInv

LEMMA SnapshotInit ==
    ASSUME Init
    PROVE  SnapshotInv
BY Reflexive DEF Init, ClusterInit, VerifyInit, CleanupInit, NoConfigMap, SnapshotInv

(* "Did the report happen": a verify Job of presence mode that is complete *)
(* has its verdict on record, whatever cleanup has written since.          *)
THEOREM Reported == Spec => []CompleteMeansReported
<1>1. Init => SnapshotInv
  BY SnapshotInit
<1>2. TypeOK /\ SnapshotInv /\ [Next]_vars => SnapshotInv'
  BY SnapshotStep
<1>3. SnapshotInv => CompleteMeansReported
  BY DEF SnapshotInv, CompleteMeansReported
<1> QED BY <1>1, <1>2, <1>3, TypeCorrect, PTL DEF Spec

(* The read-modify-write of cmd/cleanup never loses a verdict that verify  *)
(* stored between its Get and its Update, nor invents one.                 *)
THEOREM OnlyVerifyJudges == Spec => VerdictIsVerifys
<1>1. Init => SnapshotInv
  BY SnapshotInit
<1>2. TypeOK /\ SnapshotInv /\ [Next]_vars => SnapshotInv'
  BY SnapshotStep
<1>3. SnapshotInv /\ [Next]_vars => [cm'.phase # cm.phase => vpc \in {"create", "update"}]_vars
  <2> SUFFICES ASSUME SnapshotInv, Next, cm'.phase # cm.phase
               PROVE  vpc \in {"create", "update"}
    OBVIOUS
  <2>1. ~KeepConfigMap
    BY Zenon DEF KeepConfigMap
  <2> QED BY <2>1, VerifyStores, CleanupKeepsVerdict, OtherFrame DEF Next
<1> QED BY <1>1, <1>2, <1>3, TypeCorrect, PTL DEF Spec, VerdictIsVerifys

-----------------------------------------------------------------------------
(* What a Pod acts on.                                                     *)

LEMMA ActingStage ==
    ASSUME TypeOK, ActingInv, CleanupStep
    PROVE  ActingInv'
<1> USE DEF ActingInv, Undecided, Reporting
<1>1. CASE CleanupPodStarts
  BY <1>1 DEF CleanupPodStarts
<1>2. CASE ReadFailureHandling
  <2>1. cpc = "readspec" /\ cpc' = "pollget" /\ UNCHANGED <<cphase, cstatus>>
    BY <1>2 DEF ReadFailureHandling
  <2> QED BY <2>1
<1>3. CASE PollGet
  <2>1. cpc = "pollget" /\ UNCHANGED <<cstatus, cpreserve>>
    BY <1>3 DEF PollGet
  <2>2. \/ cpc' = "pollwait" /\ cphase' = cphase
        \/ cpc' = "decide" /\ cphase' # ""
    BY <1>3 DEF PollGet, CleanupCall, Request
  <2> QED BY <2>1, <2>2
<1>4. CASE PollGivesUp
  BY <1>4 DEF PollGivesUp, PollOver, VerdictUnavailable
<1>5. CASE PollIntervalElapses
  BY <1>5 DEF PollIntervalElapses
<1>6. CASE Decide
  <2>1. cpc = "decide" /\ UNCHANGED <<cphase, cpreserve>>
    BY <1>6 DEF Decide
  <2>2. cphase \in Verdicts
    BY <2>1 DEF TypeOK, CleanupTypeOK
  <2>3. \/ cpc' \in {"retain", "list"} /\ cstatus' = cstatus
        \/ cpc' = "reportget" /\ cstatus' = "DryRun"
        \/ cpc' = "reportget" /\ cstatus' = "Skipped" /\ cphase # "Succeeded" /\ cpreserve
    BY <1>6 DEF Decide, Execute
  <2> QED BY <2>1, <2>2, <2>3 DEF Verdicts
<1>7. CASE RetentionEnds
  BY <1>7 DEF RetentionEnds, Execute
<1>8. ASSUME cpc \in Tearing, cpc' \in Tearing \cup {"reportget"}, UNCHANGED <<cphase, cpreserve>>,
             cstatus' \in {"Partial", "Completed"} \/ (cstatus' = cstatus /\ cpc' # "reportget")
      PROVE  ActingInv'
  BY <1>8 DEF Tearing
<1>9. CASE ListMRs
  <2>1. cpc' \in {"namespace", "delete"}
    BY <1>9 DEF ListMRs, CleanupCall, Request
  <2> QED BY <1>8, <1>9, <2>1 DEF ListMRs, Tearing
<1>10. ASSUME NEW m \in MRs, DeleteMR(m) PROVE ActingInv'
  <2>1. cpc' \in {"namespace", "delete"}
    BY <1>10 DEF DeleteMR
  <2> QED BY <1>8, <1>10, <2>1 DEF DeleteMR, Tearing
<1>11. CASE DeleteNamespace
  BY <1>8, <1>11 DEF DeleteNamespace, Tearing
<1>12. CASE ListPeerJobs
  <2>1. \/ cpc' = "reap" /\ cstatus' = cstatus
        \/ cpc' = "reportget" /\ cstatus' \in {"Partial", "Completed"}
    BY <1>12 DEF ListPeerJobs, CleanupCall, Request, TeardownEnds
  <2> QED BY <1>8, <1>12, <2>1 DEF ListPeerJobs, Tearing
<1>13. ASSUME NEW j \in Jobs, DeletePeerJob(j) PROVE ActingInv'
  <2>1. \/ cpc' = "reap" /\ cstatus' = cstatus
        \/ cpc' = "reportget" /\ cstatus' \in {"Partial", "Completed"}
    BY <1>13 DEF DeletePeerJob, TeardownEnds
  <2> QED BY <1>8, <1>13, <2>1 DEF DeletePeerJob, Tearing
<1>14. CASE ReportGet
  <2>1. cpc' \in {"reportcreate", "reportupdate", "exit"}
    BY <1>14 DEF ReportGet, CleanupCall, Request
  <2> QED BY <1>14, <2>1 DEF ReportGet
<1>15. CASE ReportCreate \/ ReportUpdate
  BY <1>15 DEF ReportCreate, ReportUpdate
<1>16. CASE CleanupExits
  BY <1>16 DEF CleanupExits, CleanupPodEnds
<1> QED BY <1>1, <1>2, <1>3, <1>4, <1>5, <1>6, <1>7, <1>9, <1>10, <1>11, <1>12, <1>13, <1>14,
           <1>15, <1>16 DEF CleanupStep, CleanupNext

LEMMA ActingStep ==
    ASSUME TypeOK, ActingInv, [Next]_vars
    PROVE  ActingInv'
<1>1. ASSUME UNCHANGED <<cpc, cphase, cstatus, cpreserve>> PROVE ActingInv'
  BY <1>1, Zenon DEF ActingInv
<1>2. CASE TimePasses
  BY <1>1, <1>2 DEF TimePasses, Tick
<1>3. CASE CleanupPodEnds("idle")
  BY <1>3 DEF CleanupPodEnds, ActingInv, Undecided, Reporting
<1>4. UNCHANGED cleanupVars => ActingInv'
  BY <1>1 DEF cleanupVars
<1>5. UNCHANGED vars => UNCHANGED cleanupVars
  BY Zenon DEF vars
<1> QED BY <1>2, <1>3, <1>4, <1>5, VerifyFrame, ActingStage, OtherFrame DEF Next

LEMMA ActingInit ==
    ASSUME Init
    PROVE  ActingInv
BY DEF Init, CleanupInit, ActingInv, Undecided, Reporting

-----------------------------------------------------------------------------
(* Until a fault strikes.                                                  *)

LEMMA FaultsSpent ==
    ASSUME [Next]_vars
    PROVE  UNCHANGED faults \/ Fault
<1>1. UNCHANGED vars => UNCHANGED faults
  BY Zenon DEF vars, clusterVars
<1>2. CASE VerifyStep
  <2>1. CASE VerifyPodStarts \/ Authenticate \/ VerifyExits \/ \E i \in Items : LookAt(i)
    BY <2>1 DEF VerifyPodStarts, Authenticate, VerifyExits, LookAt, clusterVars
  <2>2. CASE VerifyCreates \/ VerifyGets \/ VerifyUpdates
    BY <2>2, Zenon DEF VerifyCreates, VerifyGets, VerifyUpdates, VerifyCall, Request
  <2> QED BY <1>2, <2>1, <2>2 DEF VerifyStep, VerifyNext
<1>3. CASE CleanupStep
  <2>1. CASE CleanupPodStarts \/ PollGivesUp \/ PollIntervalElapses \/ Decide \/ RetentionEnds \/ CleanupExits
    BY <2>1 DEF CleanupPodStarts, PollGivesUp, PollIntervalElapses, Decide, RetentionEnds, CleanupExits,
                clusterVars
  <2>2. CASE ReadFailureHandling \/ PollGet \/ ListMRs \/ DeleteNamespace \/ ListPeerJobs
    BY <2>2, Zenon DEF ReadFailureHandling, PollGet, ListMRs, DeleteNamespace, ListPeerJobs,
                CleanupCall, Request
  <2>3. CASE ReportGet \/ ReportCreate \/ ReportUpdate
    BY <2>3, Zenon DEF ReportGet, ReportCreate, ReportUpdate, CleanupCall, Request
  <2>4. CASE (\E m \in MRs : DeleteMR(m)) \/ (\E j \in Jobs : DeletePeerJob(j))
    BY <2>4, Zenon DEF DeleteMR, DeletePeerJob, CleanupCall, Request
  <2> QED BY <1>3, <2>1, <2>2, <2>3, <2>4 DEF CleanupStep, CleanupNext
<1>4. CASE TimePasses \/ Environment
  BY <1>4 DEF TimePasses, Tick, Environment, OperatorEditsPreserve, Finalise,
       VerifyContextExpires, VerifyPodDies, CleanupPodDies, clusterVars
<1> QED BY <1>1, <1>2, <1>3, <1>4 DEF Next

LEMMA CalmStep ==
    ASSUME TypeOK, [Next]_vars, Calm'
    PROVE  Calm /\ ~Fault
<1>1. faults \in 0..MaxFaults /\ faults' = MaxFaults
  BY DEF TypeOK, ClusterTypeOK, Calm
<1>2. ~Fault
  BY <1>1, FaultsBounded DEF Fault
<1> QED BY <1>1, <1>2, FaultsSpent DEF Calm

(* A verify Pod of presence mode that stores its verdict exits 0.          *)
LEMMA StoresAndExits ==
    ASSUME VerifyStep, Mode = "presence", vlive, ~Fault
    PROVE  vlive' /\ (KeepConfigMap \/ vpc' = "exit0")
<1>1. CASE VerifyPodStarts \/ Authenticate \/ VerifyExits \/ \E i \in Items : LookAt(i)
  BY <1>1 DEF VerifyPodStarts, Authenticate, VerifyExits, VerifyPodEnds, LookAt, clusterVars, KeepConfigMap
<1>2. CASE VerifyCreates
  <2>1. UNCHANGED vlive /\ Create(Verdict, "") /\ (CreateAccepted => vpc' = AfterWrite(TRUE))
    BY <1>2, Zenon DEF VerifyCreates, VerifyCall, Request
  <2> QED BY <2>1 DEF Create, AfterWrite
<1>3. CASE VerifyGets
  BY <1>3, Zenon DEF VerifyGets, VerifyCall, Request
<1>4. CASE VerifyUpdates
  <2>1. UNCHANGED vlive /\ Update(vrv, Verdict, "") /\ vpc' = AfterWrite(UpdateAccepted(vrv))
    BY <1>4, Zenon DEF VerifyUpdates, VerifyCall, Request
  <2> QED BY <2>1 DEF Update, AfterWrite
<1> QED BY <1>1, <1>2, <1>3, <1>4 DEF VerifyStep, VerifyNext

(* What cleanup writes publishes nothing.                                  *)
LEMMA CleanupPublishesNothing ==
    ASSUME ConsentInv, SnapshotInv, CleanupStep
    PROVE  published' = published
<1>1. ASSUME NEW p \in published \cup {""}, NEW c, Store(p, c) PROVE published' = published
  BY <1>1 DEF Store
<1>2. cm.phase \in published \cup {""}
  BY DEF ConsentInv
<1>3. csnap.rv = cm.rv => csnap.phase \in published \cup {""}
  BY <1>2, Zenon DEF SnapshotInv
<1>4. KeepConfigMap => published' = published
  BY Zenon DEF KeepConfigMap
<1>5. "" \in published \cup {""}
  OBVIOUS
<1> QED BY <1>1, <1>3, <1>4, <1>5, CleanupStores, Zenon

LEMMA LastPodStep ==
    ASSUME TypeOK, ConsentInv, SnapshotInv, LastPodInv, [Next]_vars
    PROVE  LastPodInv'
<1> DEFINE Last == vpc \in {"exit0", "complete"} \/ (vpc = "idle" /\ obj[VerifyJob] # "live")
<1> SUFFICES ASSUME Mode = "presence", Calm', Calm, ~Fault, vlive, published # {} => Last
             PROVE  vlive' /\ (published' # {} => Last')
  BY CalmStep DEF LastPodInv
<1>d. obj[VerifyJob] # "live" => obj'[VerifyJob] # "live"
  BY NothingRevives
<1>1. CASE UNCHANGED vars
  BY <1>1, Zenon DEF vars, clusterVars, verifyVars
<1>2. CASE VerifyStep
  <2>1. vlive' /\ (KeepConfigMap \/ vpc' = "exit0")
    BY <1>2, StoresAndExits
  <2>2. KeepConfigMap => published' = published
    BY DEF KeepConfigMap
  <2>3. Last => Last'
    BY <1>2, <1>d
       DEF VerifyStep, VerifyNext, VerifyPodStarts, Authenticate, LookAt, VerifyCreates, VerifyGets,
           VerifyUpdates, VerifyExits, VerifyPodEnds
  <2> QED BY <2>1, <2>2, <2>3
<1>3. CASE CleanupStep
  <2>1. published' = published
    BY <1>3, CleanupPublishesNothing
  <2>2. UNCHANGED <<vpc, vlive>>
    BY <1>3, CleanupFrame DEF verifyVars
  <2> QED BY <2>1, <2>2, <1>d
<1>4. CASE TimePasses \/ Environment
  <2>1. published' = published
    BY <1>4, OtherFrame DEF KeepConfigMap
  <2>2. CASE UNCHANGED verifyVars
    BY <2>1, <2>2, <1>d DEF verifyVars
  <2>3. CASE VerifyPodDies
    BY <2>1, <2>3 DEF VerifyPodDies, VerifyPodEnds
  <2>4. ~VerifyContextExpires
    BY DEF VerifyContextExpires
  <2> QED BY <1>4, <2>2, <2>3, <2>4
          DEF TimePasses, Environment, Finalise
<1> QED BY <1>1, <1>2, <1>3, <1>4 DEF Next

LEMMA LastPodInit ==
    ASSUME Init
    PROVE  LastPodInv
BY DEF Init, ClusterInit, VerifyInit, LastPodInv

(* The clock of a Pod while only its waits take time.                      *)

LEMMA Bounds == MaxWait \in Nat /\ Grace \in Nat
BY CleanupAssumption

LEMMA Comparisons == \A m, n \in Nat : 0 + n = n /\ (~(m >= n) => m < n)
OBVIOUS

LEMMA TimeStage ==
    ASSUME TypeOK, ActingInv, OnTime, CleanupStep
    PROVE  OnTime'
<1> USE DEF OnTime
<1>u. cpc \in Undecided <=> cphase = ""
  BY DEF ActingInv
<1>1. CASE CleanupPodStarts
  BY <1>1 DEF CleanupPodStarts
<1>2. CASE ReadFailureHandling
  <2>1. cpc = "readspec" /\ cpc' = "pollget" /\ cdeadline' = now + MaxWait
        /\ UNCHANGED <<now, ctimer, cphase, ctold, cerrs>>
    BY <1>2 DEF ReadFailureHandling
  <2>2. cphase = "" /\ now = 0
    BY <1>u, <2>1 DEF Undecided
  <2>3. cdeadline' = MaxWait
    <3>1. cdeadline' = 0 + MaxWait
      BY <2>1, <2>2, Zenon
    <3> QED BY <3>1, Bounds, Comparisons, Zenon
  <2> QED BY <2>1, <2>2, <2>3
<1>3. CASE PollGet
  <2>1. cpc = "pollget" /\ ~(now >= cdeadline) /\ UNCHANGED <<now, cdeadline, cerrs, cretention>>
    BY <1>3 DEF PollGet, PollOver
  <2>2. \/ cpc' = "pollwait" /\ UNCHANGED <<cphase, ctold>>
        \/ cpc' = "decide" /\ ctold' = now /\ cphase' # ""
    BY <1>3 DEF PollGet, CleanupCall, Request
  <2>3. now < MaxWait
    <3>1. ~(now >= MaxWait)
      BY <2>1, Zenon
    <3> QED BY <3>1, Times, Bounds, Comparisons, Zenon
  <2> QED BY <2>1, <2>2, <2>3, <1>u DEF Undecided
<1>4. CASE PollGivesUp
  BY <1>4 DEF PollGivesUp, VerdictUnavailable
<1>5. CASE PollIntervalElapses
  BY <1>5 DEF PollIntervalElapses
<1>6. CASE Decide
  <2>1. cpc = "decide" /\ UNCHANGED <<now, ctold, cretention, cphase, cerrs>>
    BY <1>6 DEF Decide
  <2>2. \/ cpc' = "retain" /\ ctimer' = now + cretention
        \/ cpc' \in {"list", "reportget"}
    BY <1>6 DEF Decide, Execute, RetainUntil
  <2> QED BY <2>1, <2>2
<1>7. CASE RetentionEnds
  BY <1>7 DEF RetentionEnds, Execute
<1>8. ASSUME cpc \notin Undecided, UNCHANGED <<cphase, ctold>>,
             cpc' \notin {"idle", "readspec", "pollget", "pollwait", "decide", "retain"}
      PROVE  OnTime'
  BY <1>8, <1>u
<1>9. CASE ListMRs
  <2>1. cpc' \in {"namespace", "delete"}
    BY <1>9 DEF ListMRs, CleanupCall, Request
  <2> QED BY <1>8, <1>9, <2>1 DEF ListMRs, Undecided
<1>10. ASSUME NEW m \in MRs, DeleteMR(m) PROVE OnTime'
  <2>1. cpc' \in {"namespace", "delete"}
    BY <1>10 DEF DeleteMR
  <2> QED BY <1>8, <1>10, <2>1 DEF DeleteMR, Undecided
<1>11. CASE DeleteNamespace
  BY <1>8, <1>11 DEF DeleteNamespace, Undecided
<1>12. CASE ListPeerJobs
  <2>1. cpc' \in {"reap", "reportget"}
    BY <1>12 DEF ListPeerJobs, CleanupCall, Request, TeardownEnds
  <2> QED BY <1>8, <1>12, <2>1 DEF ListPeerJobs, Undecided
<1>13. ASSUME NEW j \in Jobs, DeletePeerJob(j) PROVE OnTime'
  <2>1. cpc' \in {"reap", "reportget"}
    BY <1>13 DEF DeletePeerJob, TeardownEnds
  <2> QED BY <1>8, <1>13, <2>1 DEF DeletePeerJob, Undecided
<1>14. CASE ReportGet
  <2>1. cpc' \in {"reportcreate", "reportupdate", "exit"}
    BY <1>14 DEF ReportGet, CleanupCall, Request
  <2> QED BY <1>8, <1>14, <2>1 DEF ReportGet, Undecided
<1>15. CASE ReportCreate \/ ReportUpdate
  BY <1>8, <1>15 DEF ReportCreate, ReportUpdate, Undecided
<1>16. CASE CleanupExits
  BY <1>16 DEF CleanupExits, CleanupPodEnds
<1> QED BY <1>1, <1>2, <1>3, <1>4, <1>5, <1>6, <1>7, <1>9, <1>10, <1>11, <1>12, <1>13, <1>14,
           <1>15, <1>16 DEF CleanupStep, CleanupNext

(* A teardown under way whose retention fits has all its calls answered.   *)
Answered ==
    /\ now <= ctold + cretention
    /\ ~cerrs
    /\ cpc \in Reporting \cup {"exit"} => cstatus = "Completed"

LEMMA InTime ==
    ASSUME TypeOK, ctold < MaxWait, cretention <= Grace, now <= ctold + cretention
    PROVE  ~CtxDone
BY Times, Bounds DEF CtxDone, CtxEnd

LEMMA AnsweredStage ==
    ASSUME TypeOK, ActingInv, OnTime, cphase = "Succeeded" => Answered,
           CleanupStep, ~Fault, ~DryRun, cretention' <= Grace, cphase' = "Succeeded"
    PROVE  Answered'
<1>u. cpc \in Undecided <=> cphase = ""
  BY DEF ActingInv
<1>1. CASE CleanupPodStarts \/ ReadFailureHandling \/ PollIntervalElapses
  BY <1>1, <1>u DEF CleanupPodStarts, ReadFailureHandling, PollIntervalElapses, Undecided
<1>2. CASE PollGet
  <2>1. cpc = "pollget" /\ UNCHANGED <<now, cerrs, cretention>>
    BY <1>2 DEF PollGet
  <2>2. cphase = "" /\ ~cerrs
    BY <2>1, <1>u DEF Undecided, OnTime
  <2>3. cpc' = "decide" /\ ctold' = now
    BY <1>2, <2>2 DEF PollGet, CleanupCall, Request
  <2>4. now' <= ctold' + cretention'
    BY <2>1, <2>3, Times
  <2> QED BY <2>1, <2>2, <2>3, <2>4 DEF Answered, Reporting
<1>3. CASE PollGivesUp
  BY <1>3 DEF PollGivesUp, VerdictUnavailable
<1>4. CASE CleanupExits
  BY <1>4 DEF CleanupExits, CleanupPodEnds
<1>5. CASE Decide
  <2>1. UNCHANGED <<now, ctold, cretention, cphase, cerrs>>
    BY <1>5 DEF Decide
  <2>2. cpc' = "retain"
    BY <1>5, <2>1 DEF Decide
  <2> QED BY <2>1, <2>2 DEF Answered, Reporting
<1>6. CASE RetentionEnds
  BY <1>6 DEF RetentionEnds, Execute, Answered, Reporting
<1>7. ASSUME UNCHANGED <<now, ctold, cretention, cphase>>, cpc \notin Undecided
      PROVE  ~CtxDone
  BY <1>7, InTime DEF OnTime, Answered
<1>8. CASE ListMRs
  <2>1. UNCHANGED <<now, ctold, cretention, cphase>> /\ cpc \notin Undecided
    BY <1>8 DEF ListMRs, Undecided
  <2>2. UNCHANGED cerrs /\ cpc' \in {"namespace", "delete"}
    BY <1>8, <1>7, <2>1 DEF ListMRs, CleanupCall, Request
  <2> QED BY <2>1, <2>2 DEF Answered, Reporting
<1>9. ASSUME NEW m \in MRs, DeleteMR(m) PROVE Answered'
  <2>1. UNCHANGED <<now, ctold, cretention, cphase>> /\ cpc \notin Undecided
    BY <1>9 DEF DeleteMR, Undecided
  <2>2. UNCHANGED cerrs
    BY <1>9, <1>7, <2>1, Zenon DEF DeleteMR, CleanupCall, Request
  <2>3. cpc' \in {"namespace", "delete"}
    BY <1>9 DEF DeleteMR
  <2> QED BY <2>1, <2>2, <2>3 DEF Answered, Reporting
<1>10. CASE DeleteNamespace
  <2>1. UNCHANGED <<now, ctold, cretention, cphase>> /\ cpc \notin Undecided /\ cpc' = "listjobs"
    BY <1>10 DEF DeleteNamespace, Undecided
  <2>2. UNCHANGED cerrs
    BY <1>10, <1>7, <2>1, Zenon DEF DeleteNamespace, CleanupCall, Request
  <2> QED BY <2>1, <2>2 DEF Answered, Reporting
<1>11. CASE ListPeerJobs
  <2>1. UNCHANGED <<now, ctold, cretention, cphase>> /\ cpc \notin Undecided /\ ~cerrs
    BY <1>11 DEF ListPeerJobs, Undecided, Answered
  <2>2. UNCHANGED cerrs /\ (TeardownEnds \/ cpc' = "reap")
    BY <1>11, <1>7, <2>1, Zenon DEF ListPeerJobs, CleanupCall, Request
  <2> QED BY <2>1, <2>2 DEF Answered, Reporting, TeardownEnds
<1>12. ASSUME NEW j \in Jobs, DeletePeerJob(j) PROVE Answered'
  <2>1. UNCHANGED <<now, ctold, cretention, cphase>> /\ cpc \notin Undecided /\ ~cerrs
    BY <1>12 DEF DeletePeerJob, Undecided, Answered
  <2>2. UNCHANGED cerrs
    BY <1>12, <1>7, <2>1, Zenon DEF DeletePeerJob, CleanupCall, Request
  <2>3. TeardownEnds \/ cpc' = "reap"
    BY <1>12 DEF DeletePeerJob
  <2> QED BY <2>1, <2>2, <2>3 DEF Answered, Reporting, TeardownEnds
<1>13. CASE ReportGet \/ ReportCreate \/ ReportUpdate
  <2>1. UNCHANGED <<now, ctold, cretention, cphase, cerrs, cstatus>> /\ cpc \in Reporting
    BY <1>13 DEF ReportGet, ReportCreate, ReportUpdate, Reporting
  <2> QED BY <2>1 DEF Answered
<1> QED BY <1>1, <1>2, <1>3, <1>4, <1>5, <1>6, <1>8, <1>9, <1>10, <1>11, <1>12, <1>13
        DEF CleanupStep, CleanupNext

LEMMA FitStep ==
    ASSUME TypeOK, ActingInv, FitInv, [Next]_vars
    PROVE  FitInv'
<1>1. Prompt => OnTime'
  <2> SUFFICES ASSUME Prompt, OnTime PROVE OnTime'
    BY DEF FitInv
  <2>1. ASSUME UNCHANGED cleanupVars PROVE OnTime'
    BY <2>1, Zenon DEF cleanupVars, OnTime
  <2>2. CASE TimePasses
    <3>1. cpc \in Waiting /\ UNCHANGED <<cpc, cdeadline, ctimer, cphase, ctold, cerrs, cretention>>
      BY <2>2 DEF TimePasses, Tick
    <3> QED BY <3>1 DEF OnTime, Waiting
  <2>3. CASE CleanupPodEnds("idle")
    BY <2>3 DEF CleanupPodEnds, OnTime
  <2>4. UNCHANGED vars => UNCHANGED cleanupVars
    BY Zenon DEF vars
  <2> QED BY <2>1, <2>2, <2>3, <2>4, VerifyFrame, TimeStage, OtherFrame DEF Next
<1>2. Fits' /\ cphase' = "Succeeded" => Answered'
  <2> SUFFICES ASSUME Prompt, ~DryRun, Calm', cretention' <= Grace, cphase' = "Succeeded",
                      Calm, ~Fault, OnTime
               PROVE  Answered'
    BY CalmStep DEF Fits, FitInv
  <2>a. cphase = "Succeeded" /\ cretention <= Grace => Answered
    BY DEF FitInv, Fits, Answered
  <2>1. ASSUME UNCHANGED cleanupVars PROVE Answered'
    <3>1. UNCHANGED <<cphase, cretention>> /\ (Answered => Answered')
      BY <2>1, Zenon DEF cleanupVars, Answered
    <3> QED BY <2>a, <3>1
  <2>2. CASE CleanupStep
    <3>1. cphase = "Succeeded" => UNCHANGED cretention
      <4>1. ASSUME ReadFailureHandling PROVE cphase # "Succeeded"
        BY <4>1 DEF ReadFailureHandling, ActingInv, Undecided
      <4>2. ~CleanupExits
        BY DEF CleanupExits, CleanupPodEnds
      <4> QED BY <2>2, <4>1, <4>2
          DEF CleanupStep, CleanupNext, CleanupPodStarts, PollGet, PollGivesUp, PollIntervalElapses, Decide,
              RetentionEnds, ListMRs, DeleteMR, DeleteNamespace, ListPeerJobs, DeletePeerJob, ReportGet,
              ReportCreate, ReportUpdate
    <3> QED BY <2>a, <2>2, <3>1, AnsweredStage
  <2>3. CASE TimePasses
    <3>1. /\ cpc \in Waiting /\ now < ctimer /\ now' = now + 1
          /\ UNCHANGED <<cpc, ctimer, cphase, ctold, cerrs, cretention, cstatus>>
      BY <2>3 DEF TimePasses, Tick
    <3>2. cpc = "retain"
      BY <3>1 DEF Waiting, ActingInv, Undecided
    <3>3. now' <= ctold' + cretention'
      <4>1. now < ctold + cretention
        BY <3>1, <3>2, Zenon DEF OnTime
      <4>2. now + 1 <= ctold + cretention
        BY <4>1, Times
      <4> QED BY <3>1, <4>2, Zenon
    <3> QED BY <2>a, <3>1, <3>2, <3>3 DEF Answered, Reporting
  <2>4. ~CleanupPodEnds("idle")
    BY DEF CleanupPodEnds
  <2>5. UNCHANGED vars => UNCHANGED cleanupVars
    BY Zenon DEF vars
  <2> QED BY <2>1, <2>2, <2>3, <2>4, <2>5, VerifyFrame, OtherFrame DEF Next
<1> QED BY <1>1, <1>2 DEF FitInv, Answered

LEMMA FitInit ==
    ASSUME Init
    PROVE  FitInv
BY DEF Init, CleanupInit, FitInv, OnTime

-----------------------------------------------------------------------------
(* The arguments together.                                                 *)

LEMMA SafetyInit ==
    ASSUME Init
    PROVE  SafetyInv
BY ConsentInit, ProgressInit, RetentionInit, SnapshotInit, ActingInit, LastPodInit, FitInit
   DEF SafetyInv

LEMMA SafetyStep ==
    ASSUME TypeOK, SafetyInv, [Next]_vars
    PROVE  SafetyInv'
BY ConsentStep, ProgressStep, RetentionStep, SnapshotStep, ActingStep, LastPodStep, FitStep
   DEF SafetyInv

(* SafetyInv, which the model checker finds invariant on small instances,  *)
(* is inductive relative to the types, and so holds of every instance.     *)
THEOREM Safety == Spec => []SafetyInv
<1>1. Init => SafetyInv
  BY SafetyInit
<1>2. TypeOK /\ SafetyInv /\ [Next]_vars => SafetyInv'
  BY SafetyStep
<1> QED BY <1>1, <1>2, TypeCorrect, PTL DEF Spec

(* "exit 0 to prevent retry-spawn after cleanup teardown": in presence     *)
(* mode no verify Pod follows one whose verdict was stored, until a fault  *)
(* strikes; not even when the teardown kills the Pod that stored it.       *)
THEOREM OneVerdictOneJob == Spec => NoRespawnAfterVerdict
<1>1. TypeOK /\ SafetyInv /\ [Next]_vars
      => [Mode = "presence" /\ Calm /\ vpods' # vpods => published = {}]_vars
  <2> SUFFICES ASSUME TypeOK, SafetyInv, Next, Mode = "presence", Calm, vpods' # vpods,
                      published # {}
               PROVE  FALSE
    OBVIOUS
  <2>1. vpc \in {"exit0", "complete"} \/ (vpc = "idle" /\ obj[VerifyJob] # "live")
    BY DEF SafetyInv, LastPodInv
  <2>2. ~VerifyPodStarts
    BY <2>1 DEF VerifyPodStarts
  <2>3. ~VerifyStep
    BY <2>2 DEF VerifyStep, VerifyNext, Authenticate, VerifyExits, VerifyPodEnds, LookAt, VerifyCreates,
                VerifyGets, VerifyUpdates
  <2>4. UNCHANGED verifyVars => vpods' = vpods
    BY Zenon DEF verifyVars
  <2>5. VerifyContextExpires \/ VerifyPodEnds("idle") => vpods' = vpods
    BY DEF VerifyContextExpires, VerifyPodEnds
  <2> QED BY <2>3, <2>4, <2>5, CleanupFrame, OtherFrame DEF Next
<1> QED BY <1>1, TypeCorrect, Safety, PTL DEF Spec, NoRespawnAfterVerdict

(* The verdict cleanup acts on is the verdict that stays: in presence mode *)
(* a stored verdict is never replaced until a fault strikes.               *)
THEOREM VerdictFinal == Spec => VerdictIsFinal
<1>1. TypeOK /\ SafetyInv /\ [Next]_vars
      => [Mode = "presence" /\ Calm /\ cm.phase # "" => cm'.phase = cm.phase]_vars
  <2> SUFFICES ASSUME TypeOK, SafetyInv, Next, Mode = "presence", Calm, cm.phase # ""
               PROVE  cm'.phase = cm.phase
    OBVIOUS
  <2>1. published # {}
    BY DEF SafetyInv, ConsentInv
  <2>2. vpc \notin {"create", "update"}
    BY <2>1 DEF SafetyInv, LastPodInv
  <2>3. KeepConfigMap => cm'.phase = cm.phase
    BY Zenon DEF KeepConfigMap
  <2> QED BY <2>2, <2>3, VerifyStores, CleanupKeepsVerdict, OtherFrame DEF Next, SafetyInv
<1> QED BY <1>1, TypeCorrect, Safety, PTL DEF Spec, VerdictIsFinal

(* Where OutcomeStays does hold: an outcome that is stored together with   *)
(* verify's verdict, in presence mode and until a fault strikes.           *)
THEOREM OutcomeFinal ==
    Spec => [][Mode = "presence" /\ Calm /\ cm.phase # "" /\ cm.cleanup # "" => cm'.cleanup # ""]_vars
<1>1. TypeOK /\ SafetyInv /\ [Next]_vars
      => [Mode = "presence" /\ Calm /\ cm.phase # "" /\ cm.cleanup # "" => cm'.cleanup # ""]_vars
  <2> SUFFICES ASSUME TypeOK, SafetyInv, Next, Mode = "presence", Calm, cm.phase # "", cm.cleanup # ""
               PROVE  cm'.cleanup # ""
    OBVIOUS
  <2>1. published # {}
    BY DEF SafetyInv, ConsentInv
  <2>2. vpc \notin {"create", "update"}
    BY <2>1 DEF SafetyInv, LastPodInv
  <2>3. KeepConfigMap => cm'.cleanup = cm.cleanup
    BY Zenon DEF KeepConfigMap
  <2>4. CASE cpc \in Reporting
    <3>1. cstatus # ""
      BY <2>4 DEF SafetyInv, ActingInv
    <3>2. ASSUME NEW p, Store(p, cstatus) PROVE cm'.cleanup # ""
      BY <3>1, <3>2 DEF Store
    <3> QED BY <2>2, <2>3, <3>2, VerifyStores, CleanupStores, OtherFrame, Zenon DEF Next
  <2>5. CASE cpc \notin Reporting
    <3>1. cpc # "reportcreate" /\ cpc # "reportupdate"
      BY <2>5 DEF Reporting
    <3> QED BY <2>2, <2>3, <3>1, VerifyStores, CleanupStores, OtherFrame, Zenon DEF Next
  <2> QED BY <2>4, <2>5
<1> QED BY <1>1, TypeCorrect, Safety, PTL DEF Spec

(* FitInv at the exit of such a Pod: its outcome is "Completed", and true. *)
LEMMA FittingTeardown ==
    ASSUME TypeOK, SafetyInv, Fits, cpc = "exit", cphase = "Succeeded"
    PROVE  TornDown
<1>1. cstatus = "Completed"
  BY DEF SafetyInv, FitInv
<1> QED BY <1>1 DEF SafetyInv, ProgressInv, TeardownProgress

(* Where TeardownAfterRetention does hold: while only the waits take time, *)
(* no fault strikes and the retention is no longer than the grace period,  *)
(* a Pod that acts on a success exits with everything torn down.           *)
THEOREM TeardownFits ==
    ASSUME Prompt, ~DryRun, MaxFaults = 0,
           \A r \in Retentions \cup {DefaultRetention} : r <= Grace
    PROVE  Spec => TeardownAfterRetention
<1> DEFINE Short == cretention <= Grace
<1>1. Init => Short
  BY DEF Init, CleanupInit
<1>2. Short /\ [Next]_vars => Short'
  <2> SUFFICES ASSUME Short, [Next]_vars
               PROVE  cretention' \in Retentions \cup {DefaultRetention, cretention}
    OBVIOUS
  <2>1. ASSUME UNCHANGED cleanupVars PROVE cretention' = cretention
    BY <2>1, Zenon DEF cleanupVars
  <2>2. UNCHANGED vars => UNCHANGED cleanupVars
    BY Zenon DEF vars
  <2>3. ASSUME ReadFailureHandling PROVE cretention' \in Retentions \cup {DefaultRetention}
    BY <2>3 DEF ReadFailureHandling, CleanupCall, Request, SpecUnreadable
  <2>4. ASSUME CleanupExits \/ CleanupPodEnds("idle") PROVE cretention' = DefaultRetention
    BY <2>4 DEF CleanupExits, CleanupPodEnds
  <2>5. ASSUME CleanupStep, ~ReadFailureHandling, ~CleanupExits PROVE cretention' = cretention
    BY <2>5
       DEF CleanupStep, CleanupNext, CleanupPodStarts, PollGet, PollGivesUp, PollIntervalElapses, Decide,
           RetentionEnds, ListMRs, DeleteMR, DeleteNamespace, ListPeerJobs, DeletePeerJob, ReportGet,
           ReportCreate, ReportUpdate
  <2>6. TimePasses => cretention' = cretention
    BY DEF TimePasses, Tick
  <2> QED BY <2>1, <2>2, <2>3, <2>4, <2>5, <2>6, VerifyFrame, OtherFrame DEF Next
<1>3. TypeOK => Calm
  BY DEF TypeOK, ClusterTypeOK, Calm
<1>4. TypeOK /\ SafetyInv /\ Short /\ [Next]_vars
      => [cpc = "exit" /\ cpc' # cpc /\ cphase = "Succeeded" => TornDown]_vars
  BY <1>3, FittingTeardown DEF Fits
<1> HIDE DEF Short
<1> QED BY <1>1, <1>2, <1>4, TypeCorrect, Safety, PTL DEF Spec, TeardownAfterRetention

-----------------------------------------------------------------------------
(* What liveness rests on, apart from the scheduler.                       *)

(* The cleanup Job is not among what its Pods delete.                      *)
Spared == obj[CleanupJob] = "live" /\ CleanupJob \notin ctodo

LEMMA SparesItself ==
    ASSUME TypeOK, JobNameSet, Spared, CleanupStep
    PROVE  Spared'
<1>1. ASSUME NEW o \in Objects \ {CleanupJob}, Delete(o) \/ UNCHANGED obj
      PROVE  obj'[CleanupJob] = "live"
  BY <1>1 DEF Delete, Spared, TypeOK, ClusterTypeOK
<1>2. CASE ListMRs
  <2>1. ctodo' \subseteq MRs \cup ctodo
    BY <1>2 DEF ListMRs, CleanupCall, Request
  <2> QED BY <1>2, <2>1, NamesDistinct DEF ListMRs, Spared
<1>3. ASSUME NEW m \in MRs, DeleteMR(m) PROVE Spared'
  <2>1. (Delete(m) \/ UNCHANGED obj) /\ ctodo' \subseteq ctodo
    BY <1>3, Zenon DEF DeleteMR, CleanupCall, Request
  <2> QED BY <1>1, <2>1, NamesDistinct DEF Spared
<1>4. CASE DeleteNamespace
  <2>1. (Delete(RestoreNs) \/ UNCHANGED obj) /\ ctodo' = ctodo
    BY <1>4, Zenon DEF DeleteNamespace, CleanupCall, Request
  <2> QED BY <1>1, <2>1, NamesDistinct DEF Spared
<1>5. CASE ListPeerJobs
  <2>1. ctodo' \in {PeerJobs, {}} /\ UNCHANGED obj
    BY <1>5, Zenon DEF ListPeerJobs, CleanupCall, Request
  <2> QED BY <2>1 DEF PeerJobs, Spared
<1>6. ASSUME NEW j \in Jobs, DeletePeerJob(j) PROVE Spared'
  <2>1. (Delete(j) \/ UNCHANGED obj) /\ j \in ctodo /\ ctodo' \subseteq ctodo
    BY <1>6, Zenon DEF DeletePeerJob, CleanupCall, Request
  <2> QED BY <1>1, <2>1 DEF Spared
<1>7. CASE CleanupExits
  BY <1>7 DEF CleanupExits, CleanupPodEnds, clusterVars, Spared
<1>8. CASE \/ CleanupPodStarts \/ ReadFailureHandling \/ PollGet \/ PollGivesUp \/ PollIntervalElapses
           \/ Decide \/ RetentionEnds \/ ReportGet \/ ReportCreate \/ ReportUpdate
  BY <1>8 DEF CleanupPodStarts, ReadFailureHandling, PollGet, PollGivesUp, PollIntervalElapses, Decide,
     RetentionEnds, ReportGet, ReportCreate, ReportUpdate, clusterVars, Spared
<1> QED BY <1>2, <1>3, <1>4, <1>5, <1>6, <1>7, <1>8 DEF CleanupStep, CleanupNext

(* A cleanup Job that knows its own name never reaps itself, so that no    *)
(* Pod of it dies of its own teardown: only a fault kills one.             *)
THEOREM SelfSpared ==
    ASSUME JobNameSet
    PROVE  Spec => [](obj[CleanupJob] = "live") /\ [][CleanupPodDies => Fault]_vars
<1>1. Init => Spared
  BY DEF Init, ClusterInit, CleanupInit, Spared
<1>2. TypeOK /\ Spared /\ [Next]_vars => Spared'
  <2> SUFFICES ASSUME TypeOK, Spared, [Next]_vars PROVE Spared'
    OBVIOUS
  <2>1. UNCHANGED cleanupVars \/ TimePasses => ctodo' = ctodo
    BY Zenon DEF cleanupVars, TimePasses, Tick
  <2>2. CleanupPodEnds("idle") => ctodo' = {}
    BY DEF CleanupPodEnds
  <2>3. ASSUME NEW o \in Objects, Finalise(o) PROVE obj'[CleanupJob] = "live"
    BY <2>3 DEF Finalise, Spared, TypeOK, ClusterTypeOK
  <2>4. CASE UNCHANGED vars
    BY <2>4, Zenon DEF vars, clusterVars, cleanupVars, Spared
  <2>5. CASE VerifyStep
    BY <2>1, <2>5, VerifyFrame DEF Spared
  <2>6. CASE TimePasses \/ Environment
    BY <2>1, <2>2, <2>3, <2>6, OtherFrame DEF Spared
  <2> QED BY <2>4, <2>5, <2>6, SparesItself DEF Next
<1>3. Spared => obj[CleanupJob] = "live" /\ [CleanupPodDies => Fault]_vars
  BY DEF Spared, CleanupPodDies
<1> HIDE DEF Spared
<1> QED BY <1>1, <1>2, <1>3, TypeCorrect, PTL DEF Spec

(* How far a Pod is from its end, with the time standing still; the wait   *)
(* between two polls is told from one that is over.                        *)
At == IF cpc = "pollwait" /\ now >= ctimer THEN "woken" ELSE cpc
CleanupRank(at) ==
    CASE at = "readspec" -> 14 [] at = "woken" -> 13 [] at = "pollget" -> 12 [] at = "pollwait" -> 11
      [] at = "decide" -> 10 [] at = "retain" -> 9 [] at = "list" -> 8 [] at = "delete" -> 7
      [] at = "namespace" -> 6 [] at = "listjobs" -> 5 [] at = "reap" -> 4 [] at = "reportget" -> 3
      [] at = "reportcreate" -> 2 [] at = "reportupdate" -> 2 [] at = "exit" -> 1 [] OTHER -> 0
VerifyRank(at) ==
    CASE at = "auth" -> 6 [] at = "look" -> 5 [] at = "create" -> 4 [] at = "get" -> 3
      [] at = "update" -> 2 [] at = "exit0" -> 1 [] at = "exit1" -> 1 [] OTHER -> 0

Fewer(S, T) == S \subseteq T /\ S # T
CleanupAdvances ==
    /\ now' = now \/ ~CleanupRunning'
    /\ \/ CleanupRank(At)' < CleanupRank(At)
       \/ CleanupRank(At)' = CleanupRank(At) /\ Fewer(ctodo', ctodo)
VerifyAdvances ==
    \/ VerifyRank(vpc)' < VerifyRank(vpc)
    \/ VerifyRank(vpc)' = VerifyRank(vpc) /\ Fewer(vtodo', vtodo)

LEMMA CleanupRanks ==
    /\ CleanupRank("readspec") = 14 /\ CleanupRank("woken") = 13 /\ CleanupRank("pollget") = 12
    /\ CleanupRank("pollwait") = 11 /\ CleanupRank("decide") = 10 /\ CleanupRank("retain") = 9
    /\ CleanupRank("list") = 8 /\ CleanupRank("delete") = 7 /\ CleanupRank("namespace") = 6
    /\ CleanupRank("listjobs") = 5 /\ CleanupRank("reap") = 4 /\ CleanupRank("reportget") = 3
    /\ CleanupRank("reportcreate") = 2 /\ CleanupRank("reportupdate") = 2 /\ CleanupRank("exit") = 1
    /\ CleanupRank("idle") = 0 /\ CleanupRank("complete") = 0
BY DEF CleanupRank

LEMMA VerifyRanks ==
    /\ VerifyRank("auth") = 6 /\ VerifyRank("look") = 5 /\ VerifyRank("create") = 4
    /\ VerifyRank("get") = 3 /\ VerifyRank("update") = 2 /\ VerifyRank("exit0") = 1
    /\ VerifyRank("exit1") = 1 /\ VerifyRank("idle") = 0 /\ VerifyRank("complete") = 0
BY DEF VerifyRank

(* The steps of a running cleanup Pod, each from where to where.           *)
LEMMA CleanupMoves ==
    ASSUME TypeOK, CleanupRunning, CleanupStep
    PROVE  /\ now' = now \/ ~CleanupRunning'
           /\ \/ At = "readspec" /\ At' = "pollget"
              \/ At = "woken" /\ At' \in {"pollget", "decide"}
              \/ At = "pollget" /\ At' \in {"pollwait", "decide"}
              \/ At = "pollwait" /\ At' = "decide"
              \/ At = "decide" /\ At' \in {"retain", "list", "reportget"}
              \/ At = "retain" /\ At' \in {"list", "reportget"}
              \/ At = "list" /\ At' \in {"delete", "namespace"}
              \/ At = "delete" /\ At' = "namespace"
              \/ At = "namespace" /\ At' = "listjobs"
              \/ At = "listjobs" /\ At' \in {"reap", "reportget"}
              \/ At = "reap" /\ At' = "reportget"
              \/ At \in {"delete", "reap"} /\ At' = At /\ Fewer(ctodo', ctodo)
              \/ At = "reportget" /\ At' \in {"reportcreate", "reportupdate", "exit"}
              \/ At \in {"reportcreate", "reportupdate"} /\ At' = "exit"
              \/ At = "exit" /\ At' \in {"idle", "complete"}
<1>1. CASE ReadFailureHandling
  BY <1>1 DEF ReadFailureHandling, At
<1>2. CASE PollGet
  <2>1. cpc = "pollget" /\ now' = now
    BY <1>2 DEF PollGet
  <2>2. cpc' = "decide" \/ (cpc' = "pollwait" /\ ctimer' = now + 1)
    BY <1>2 DEF PollGet, CleanupCall, Request
  <2>3. ~(now >= now + 1)
    <3>1. now \in Nat
      BY Times
    <3>2. \A n \in Nat : ~(n >= n + 1)
      OBVIOUS
    <3> QED BY <3>1, <3>2
  <2> QED BY <2>1, <2>2, <2>3 DEF At
<1>3. CASE PollGivesUp
  BY <1>3 DEF PollGivesUp, PollOver, At
<1>4. CASE PollIntervalElapses
  BY <1>4 DEF PollIntervalElapses, At
<1>5. CASE Decide
  BY <1>5 DEF Decide, Execute, At
<1>6. CASE RetentionEnds
  BY <1>6 DEF RetentionEnds, Execute, At
<1>7. CASE ListMRs
  <2>1. cpc' \in {"namespace", "delete"}
    BY <1>7 DEF ListMRs, CleanupCall, Request
  <2> QED BY <1>7, <2>1 DEF ListMRs, At
<1>8. ASSUME NEW m \in MRs, DeleteMR(m)
      PROVE  /\ now' = now /\ cpc = "delete"
             /\ cpc' = "namespace" \/ (cpc' = "delete" /\ Fewer(ctodo', ctodo))
  BY <1>8 DEF DeleteMR, Fewer
<1>9. CASE DeleteNamespace
  BY <1>9 DEF DeleteNamespace, At
<1>10. CASE ListPeerJobs
  <2>1. cpc' \in {"reap", "reportget"}
    BY <1>10 DEF ListPeerJobs, CleanupCall, Request, TeardownEnds
  <2> QED BY <1>10, <2>1 DEF ListPeerJobs, At
<1>11. ASSUME NEW j \in Jobs, DeletePeerJob(j)
       PROVE  /\ now' = now /\ cpc = "reap"
              /\ cpc' = "reportget" \/ (cpc' = "reap" /\ Fewer(ctodo', ctodo))
  BY <1>11 DEF DeletePeerJob, TeardownEnds, Fewer
<1>12. CASE ReportGet
  <2>1. cpc' \in {"reportcreate", "reportupdate", "exit"}
    BY <1>12 DEF ReportGet, CleanupCall, Request
  <2> QED BY <1>12, <2>1 DEF ReportGet, At
<1>13. CASE ReportCreate \/ ReportUpdate
  BY <1>13 DEF ReportCreate, ReportUpdate, At
<1>14. CASE CleanupExits
  BY <1>14 DEF CleanupExits, CleanupPodEnds, CleanupRunning, CleanupAtRest, At
<1>15. ~CleanupPodStarts
  BY DEF CleanupPodStarts, CleanupRunning, CleanupAtRest
<1>16. CASE (\E m \in MRs : DeleteMR(m)) \/ (\E j \in Jobs : DeletePeerJob(j))
  BY <1>8, <1>11, <1>16 DEF At
<1> QED BY <1>1, <1>2, <1>3, <1>4, <1>5, <1>6, <1>7, <1>9, <1>10, <1>12, <1>13, <1>14, <1>15, <1>16
        DEF CleanupStep, CleanupNext

LEMMA VerifyMoves ==
    ASSUME TypeOK, VerifyRunning, VerifyStep
    PROVE  \/ vpc = "auth" /\ vpc' \in {"look", "exit1"}
           \/ vpc = "look" /\ vpc' = "create"
           \/ vpc = "look" /\ vpc' = "look" /\ Fewer(vtodo', vtodo)
           \/ vpc = "create" /\ vpc' \in {"get", "exit0", "exit1"}
           \/ vpc = "get" /\ vpc' \in {"update", "exit0", "exit1"}
           \/ vpc = "update" /\ vpc' \in {"exit0", "exit1"}
           \/ vpc \in {"exit0", "exit1"} /\ vpc' \in {"idle", "complete"}
<1>1. \A b \in BOOLEAN : AfterWrite(b) \in {"exit0", "exit1"}
  BY DEF AfterWrite
<1>2. CASE Authenticate
  BY <1>2 DEF Authenticate
<1>3. ASSUME NEW i \in Items, LookAt(i)
      PROVE  vpc = "look" /\ (vpc' = "create" \/ (vpc' = "look" /\ Fewer(vtodo', vtodo)))
  BY <1>3 DEF LookAt, Fewer
<1>4. CASE VerifyCreates
  BY <1>1, <1>4 DEF VerifyCreates, VerifyCall, Request
<1>5. CASE VerifyGets
  BY <1>1, <1>5 DEF VerifyGets, VerifyCall, Request
<1>6. CASE VerifyUpdates
  <2>1. UpdateAccepted(vrv) \in BOOLEAN
    BY DEF UpdateAccepted
  <2> QED BY <1>1, <1>6, <2>1 DEF VerifyUpdates, VerifyCall, Request
<1>7. CASE VerifyExits
  BY <1>7 DEF VerifyExits, VerifyPodEnds
<1>8. ~VerifyPodStarts
  BY DEF VerifyPodStarts, VerifyRunning, VerifyAtRest
<1> QED BY <1>2, <1>3, <1>4, <1>5, <1>6, <1>7, <1>8 DEF VerifyStep, VerifyNext

(* Neither Pod goes round in circles.  Each step of a verify Pod brings it *)
(* nearer its end; so does each step of a cleanup Pod while the time       *)
(* stands still, and in the poll loop and the retention, which wait, the   *)
(* time does not stand still: it is bounded by the context.  This holds    *)
(* whatever the API server answers, and whether or not it does.            *)
THEOREM PodsAdvance ==
    Spec => /\ [][CleanupRunning /\ CleanupStep => CleanupAdvances]_vars
            /\ [][VerifyRunning /\ VerifyStep => VerifyAdvances]_vars
<1>1. ASSUME TypeOK, CleanupRunning, CleanupStep PROVE CleanupAdvances
  <2>1. /\ 12 < 14 /\ 12 < 13 /\ 10 < 13 /\ 11 < 12 /\ 10 < 12 /\ 10 < 11 /\ 9 < 10 /\ 8 < 10 /\ 3 < 10
        /\ 8 < 9 /\ 3 < 9 /\ 7 < 8 /\ 6 < 8 /\ 6 < 7 /\ 5 < 6 /\ 4 < 5 /\ 3 < 5 /\ 3 < 4
        /\ 2 < 3 /\ 1 < 3 /\ 1 < 2 /\ 0 < 1
    OBVIOUS
  <2> QED BY <1>1, <2>1, CleanupMoves, CleanupRanks, Zenon DEF CleanupAdvances
<1>2. ASSUME TypeOK, VerifyRunning, VerifyStep PROVE VerifyAdvances
  <2>1. 5 < 6 /\ 1 < 6 /\ 4 < 5 /\ 3 < 4 /\ 1 < 4 /\ 2 < 3 /\ 1 < 3 /\ 1 < 2 /\ 0 < 1
    OBVIOUS
  <2> QED BY <1>2, <2>1, VerifyMoves, VerifyRanks, Zenon DEF VerifyAdvances
<1>3. TypeOK => /\ [CleanupRunning /\ CleanupStep => CleanupAdvances]_vars
                /\ [VerifyRunning /\ VerifyStep => VerifyAdvances]_vars
  BY <1>1, <1>2
<1> QED BY <1>3, TypeCorrect, PTL DEF Spec
=============================================================================
