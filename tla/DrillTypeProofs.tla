--------------------------- MODULE DrillTypeProofs ---------------------------
(***************************************************************************)
(* The type invariant of Drill, for all values of its constants.           *)
(***************************************************************************)
EXTENDS Drill, TLAPS

USE DEF Objects, Jobs

(* What one request may do to the ConfigMap keeps its type.                *)
LEMMA Successor == \A n \in Nat : n + 1 \in Nat
OBVIOUS

LEMMA Sum == \A m, n \in Nat : m + n \in Nat
OBVIOUS

LEMMA CtxEndType == CtxEnd \in Nat
BY CleanupAssumption, Sum DEF CtxEnd

LEMMA NextVersion ==
    ASSUME cm \in ConfigMaps
    PROVE  cm.rv \in Nat /\ cm.rv + 1 \in Nat
<1>1. cm.rv \in Nat
  BY DEF ConfigMaps
<1> QED BY <1>1, Successor

LEMMA NoConfigMapType == NoConfigMap \in ConfigMaps
<1> DEFINE P == Verdicts \cup {""}
           C == CleanupStatuses \cup {""}
<1>1. 0 \in Nat /\ "" \in P /\ "" \in C
  OBVIOUS
<1> HIDE DEF P, C
<1>2. [rv |-> 0, phase |-> "", cleanup |-> ""] \in [rv : Nat, phase : P, cleanup : C]
  BY <1>1
<1> QED BY <1>2, Zenon DEF P, C, NoConfigMap, ConfigMaps

LEMMA StoreType ==
    ASSUME ClusterTypeOK, NEW p \in Verdicts \cup {""}, NEW c \in CleanupStatuses \cup {""},
           Store(p, c)
    PROVE  cm' \in ConfigMaps /\ published' \subseteq Verdicts
BY NextVersion DEF ClusterTypeOK, Store, ConfigMaps

LEMMA FaultType ==
    ASSUME ClusterTypeOK, Fault
    PROVE  faults' \in 0..MaxFaults
BY FaultsBounded DEF ClusterTypeOK, Fault

LEMMA DeleteType ==
    ASSUME ClusterTypeOK, NEW o \in Objects, Delete(o)
    PROVE  obj' \in [Objects -> {"live", "deleting", "gone"}]
BY DEF ClusterTypeOK, Delete

LEMMA NoPodType ==
    ASSUME CleanupTypeOK, NEW rest \in CleanupAtRest, CleanupPodEnds(rest)
    PROVE  CleanupTypeOK'
<1>1. 0 \in Nat /\ 0 \in 0..CtxEnd
  BY CtxEndType
<1>2. DefaultRetention \in Nat
  BY CleanupAssumption
<1> QED BY <1>1, <1>2, NoConfigMapType, Zenon DEF CleanupPodEnds, CleanupTypeOK

LEMMA VerifyTypeStep ==
    ASSUME TypeOK, VerifyStep
    PROVE  TypeOK'
<1> USE VerifyAssumption, FaultsBounded
<1>r. Verdict \in Verdicts
  BY DEF Verdict, Verdicts
<1>k. CleanupTypeOK'
  BY DEF TypeOK, CleanupTypeOK, VerifyStep, cleanupVars, ConfigMaps, CtxEnd, CleanupAtRest, Waiting
<1>a. AfterWrite(TRUE) \in {"exit0", "exit1"} /\ AfterWrite(FALSE) \in {"exit0", "exit1"}
      /\ \A b \in BOOLEAN : AfterWrite(b) \in {"exit0", "exit1"}
  BY DEF AfterWrite
<1>1. CASE VerifyPodStarts
  <2>1. ClusterTypeOK'
    BY <1>1 DEF VerifyPodStarts, TypeOK, ClusterTypeOK, clusterVars
  <2>2. VerifyTypeOK'
    BY <1>1 DEF VerifyPodStarts, TypeOK, VerifyTypeOK, VerifyAtRest
  <2> QED BY <2>1, <2>2, <1>k DEF TypeOK
<1>2. CASE Authenticate
  BY <1>2, <1>k DEF Authenticate, TypeOK, ClusterTypeOK, clusterVars, VerifyTypeOK, VerifyAtRest
<1>3. CASE VerifyExits
  BY <1>3, <1>k DEF VerifyExits, VerifyPodEnds, TypeOK, ClusterTypeOK, clusterVars, VerifyTypeOK, VerifyAtRest
<1>4. ASSUME NEW i \in Items, LookAt(i) PROVE TypeOK'
  BY <1>4, <1>k DEF LookAt, TypeOK, ClusterTypeOK, clusterVars, VerifyTypeOK, VerifyAtRest
<1>5. CASE VerifyCreates
  <2>1. cm' \in ConfigMaps /\ published' \subseteq Verdicts /\ faults' \in 0..MaxFaults
    BY <1>5, <1>r, StoreType, FaultType
       DEF VerifyCreates, VerifyCall, Request, Create, KeepConfigMap, TypeOK, ClusterTypeOK
  <2>2. vpc' \in {"exit0", "exit1", "get"}
    BY <1>5, <1>a DEF VerifyCreates, VerifyCall, Request
  <2> QED BY <1>5, <2>1, <2>2, <1>k DEF VerifyCreates, TypeOK, ClusterTypeOK, VerifyTypeOK, VerifyAtRest
<1>6. CASE VerifyGets
  <2>1. cm' = cm /\ published' = published /\ faults' \in 0..MaxFaults
    BY <1>6, FaultType DEF VerifyGets, VerifyCall, Request, KeepConfigMap, TypeOK, ClusterTypeOK
  <2>v. cm.rv \in Nat /\ vrv \in Nat
    BY NextVersion DEF TypeOK, ClusterTypeOK, VerifyTypeOK
  <2>2. vpc' \in {"exit0", "exit1", "update"}
    BY <1>6, <1>a DEF VerifyGets, VerifyCall, Request
  <2>3. vrv' = cm.rv \/ vrv' = 0
    BY <1>6 DEF VerifyGets, VerifyCall, Request
  <2>4. vrv' \in Nat
    BY <2>3, <2>v
  <2> QED BY <1>6, <2>1, <2>2, <2>4, <1>k DEF VerifyGets, TypeOK, ClusterTypeOK, VerifyTypeOK, VerifyAtRest
<1>7. CASE VerifyUpdates
  <2>1. cm' \in ConfigMaps /\ published' \subseteq Verdicts /\ faults' \in 0..MaxFaults
    BY <1>7, <1>r, StoreType, FaultType
       DEF VerifyUpdates, VerifyCall, Request, Update, KeepConfigMap, TypeOK, ClusterTypeOK
  <2>2. vpc' \in {"exit0", "exit1"}
    BY <1>7, <1>a DEF VerifyUpdates, VerifyCall, Request, UpdateAccepted
  <2> QED BY <1>7, <2>1, <2>2, <1>k DEF VerifyUpdates, TypeOK, ClusterTypeOK, VerifyTypeOK, VerifyAtRest
<1> QED BY <1>1, <1>2, <1>3, <1>4, <1>5, <1>6, <1>7 DEF VerifyStep, VerifyNext

LEMMA CleanupTypeStep ==
    ASSUME TypeOK, CleanupStep
    PROVE  TypeOK'
<1> USE CleanupAssumption, FaultsBounded
<1> USE DEF CleanupAtRest, Waiting
<1>v. VerifyTypeOK'
  BY DEF TypeOK, VerifyTypeOK, CleanupStep, verifyVars, VerifyAtRest
<1>f. ASSUME Fault PROVE faults' \in 0..MaxFaults
  BY <1>f, FaultType DEF TypeOK
<1>c. now \in Nat /\ cretention \in Nat
  <2>1. now \in 0..CtxEnd
    BY DEF TypeOK, CleanupTypeOK
  <2>2. cretention \in Nat
    BY DEF TypeOK, CleanupTypeOK
  <2> QED BY <2>1, <2>2, CtxEndType
<1>n. now \in Nat /\ now + MaxWait \in Nat /\ now + 1 \in Nat /\ now + cretention \in Nat
  BY <1>c, Sum, Successor
<1>s. /\ csnap.phase \in Verdicts \cup {""}
      /\ cstatus \in CleanupStatuses \cup {""}
      /\ cm.phase \in Verdicts \cup {""}
  BY DEF TypeOK, ClusterTypeOK, CleanupTypeOK, ConfigMaps
<1>1. CASE CleanupPodStarts
  <2>1. cpods' \in 0..MaxCleanupPods
    <3>1. cpods \in 0..MaxCleanupPods /\ cpods < MaxCleanupPods /\ cpods' = cpods + 1
      BY <1>1 DEF CleanupPodStarts, TypeOK, CleanupTypeOK
    <3> QED BY <3>1
  <2> QED BY <1>1, <1>v, <2>1, Zenon DEF CleanupPodStarts, TypeOK, ClusterTypeOK, clusterVars, CleanupTypeOK
<1>2. CASE ReadFailureHandling
  <2>1. faults' \in 0..MaxFaults
    BY <1>2, <1>f DEF ReadFailureHandling, CleanupCall, Request, TypeOK, ClusterTypeOK
  <2>2. cpreserve' \in BOOLEAN /\ cretention' \in Nat
    BY <1>2 DEF ReadFailureHandling, CleanupCall, Request, SpecUnreadable, TypeOK, ClusterTypeOK
  <2> QED BY <1>2, <1>v, <1>n, <2>1, <2>2
         DEF ReadFailureHandling, TypeOK, ClusterTypeOK, CleanupTypeOK
<1>3. CASE PollGet
  <2>1. faults' \in 0..MaxFaults
    BY <1>3, <1>f DEF PollGet, CleanupCall, Request, TypeOK, ClusterTypeOK
  <2>2. /\ cpc' \in {"decide", "pollwait"} /\ ctimer' \in Nat /\ ctold' \in Nat
        /\ cphase' \in Verdicts \cup {""}
    <3>1. ctimer \in Nat /\ ctold \in Nat /\ cphase \in Verdicts \cup {""}
      BY DEF TypeOK, CleanupTypeOK
    <3> QED BY <1>3, <1>n, <1>s, <3>1 DEF PollGet, CleanupCall, Request
  <2> QED BY <1>3, <1>v, <2>1, <2>2 DEF PollGet, TypeOK, ClusterTypeOK, CleanupTypeOK
<1>4. CASE PollGivesUp
  BY <1>4, <1>v, <1>n
     DEF PollGivesUp, VerdictUnavailable, TypeOK, ClusterTypeOK, clusterVars, CleanupTypeOK, Verdicts
<1>5. CASE PollIntervalElapses
  BY <1>5, <1>v DEF PollIntervalElapses, TypeOK, ClusterTypeOK, clusterVars, CleanupTypeOK
<1>6. CASE Decide
  BY <1>6, <1>v, <1>n
     DEF Decide, Execute, RetainUntil, TypeOK, ClusterTypeOK, clusterVars, CleanupTypeOK, CleanupStatuses
<1>7. CASE RetentionEnds
  BY <1>7, <1>v
     DEF RetentionEnds, Execute, TypeOK, ClusterTypeOK, clusterVars, CleanupTypeOK, CleanupStatuses
<1>8. CASE ListMRs
  <2>1. faults' \in 0..MaxFaults
    BY <1>8, <1>f DEF ListMRs, CleanupCall, Request, TypeOK, ClusterTypeOK
  <2>2. cpc' \in {"namespace", "delete"} /\ ctodo' \subseteq Objects /\ cerrs' \in BOOLEAN
    BY <1>8 DEF ListMRs, CleanupCall, Request, Remember, TypeOK, CleanupTypeOK
  <2> QED BY <1>8, <1>v, <2>1, <2>2 DEF ListMRs, TypeOK, ClusterTypeOK, CleanupTypeOK
<1>9. ASSUME NEW m \in MRs, DeleteMR(m) PROVE TypeOK'
  <2>1. faults' \in 0..MaxFaults
    BY <1>9, <1>f DEF DeleteMR, CleanupCall, Request, TypeOK, ClusterTypeOK
  <2>2. cerrs' \in BOOLEAN
    BY <1>9 DEF DeleteMR, CleanupCall, Request, Remember, TypeOK, CleanupTypeOK
  <2>3. obj' \in [Objects -> {"live", "deleting", "gone"}]
    BY <1>9, DeleteType DEF DeleteMR, CleanupCall, Request, TypeOK, ClusterTypeOK
  <2> QED BY <1>9, <1>v, <2>1, <2>2, <2>3 DEF DeleteMR, TypeOK, ClusterTypeOK, CleanupTypeOK
<1>10. CASE DeleteNamespace
  <2>1. faults' \in 0..MaxFaults
    BY <1>10, <1>f DEF DeleteNamespace, CleanupCall, Request, TypeOK, ClusterTypeOK
  <2>2. cerrs' \in BOOLEAN
    BY <1>10 DEF DeleteNamespace, CleanupCall, Request, Remember, TypeOK, CleanupTypeOK
  <2>3. obj' \in [Objects -> {"live", "deleting", "gone"}]
    BY <1>10, DeleteType DEF DeleteNamespace, CleanupCall, Request, TypeOK, ClusterTypeOK
  <2> QED BY <1>10, <1>v, <2>1, <2>2, <2>3 DEF DeleteNamespace, TypeOK, ClusterTypeOK, CleanupTypeOK
<1>11. CASE ListPeerJobs
  <2>1. faults' \in 0..MaxFaults
    BY <1>11, <1>f DEF ListPeerJobs, CleanupCall, Request, TypeOK, ClusterTypeOK
  <2>2. /\ cpc' \in {"reap", "reportget"} /\ ctodo' \subseteq Objects /\ cerrs' \in BOOLEAN
        /\ cstatus' \in CleanupStatuses \cup {""}
    BY <1>11 DEF ListPeerJobs, PeerJobs, CleanupCall, Request, Remember, TeardownEnds, TypeOK,
                CleanupTypeOK, CleanupStatuses
  <2> QED BY <1>11, <1>v, <2>1, <2>2 DEF ListPeerJobs, TypeOK, ClusterTypeOK, CleanupTypeOK
<1>12. ASSUME NEW j \in Jobs, DeletePeerJob(j) PROVE TypeOK'
  <2>1. faults' \in 0..MaxFaults
    BY <1>12, <1>f DEF DeletePeerJob, CleanupCall, Request, TypeOK, ClusterTypeOK
  <2>2. /\ cerrs' \in BOOLEAN /\ cpc' \in {"reap", "reportget"}
        /\ cstatus' \in CleanupStatuses \cup {""}
    BY <1>12 DEF DeletePeerJob, CleanupCall, Request, Remember, TeardownEnds, TypeOK, CleanupTypeOK,
                CleanupStatuses
  <2>3. obj' \in [Objects -> {"live", "deleting", "gone"}]
    BY <1>12, DeleteType DEF DeletePeerJob, CleanupCall, Request, TypeOK, ClusterTypeOK
  <2> QED BY <1>12, <1>v, <2>1, <2>2, <2>3 DEF DeletePeerJob, TypeOK, ClusterTypeOK, CleanupTypeOK
<1>13. CASE ReportGet
  <2>1. faults' \in 0..MaxFaults
    BY <1>13, <1>f DEF ReportGet, CleanupCall, Request, TypeOK, ClusterTypeOK
  <2>2. cpc' \in {"reportcreate", "reportupdate", "exit"} /\ csnap' \in ConfigMaps
    BY <1>13 DEF ReportGet, CleanupCall, Request, TypeOK, ClusterTypeOK, CleanupTypeOK
  <2> QED BY <1>13, <1>v, <2>1, <2>2 DEF ReportGet, TypeOK, ClusterTypeOK, CleanupTypeOK
<1>14. CASE ReportCreate
  <2>1. cm' \in ConfigMaps /\ published' \subseteq Verdicts /\ faults' \in 0..MaxFaults
    BY <1>14, <1>f, <1>s, StoreType
       DEF ReportCreate, CleanupCall, Request, Create, KeepConfigMap, TypeOK, ClusterTypeOK
  <2> QED BY <1>14, <1>v, <2>1 DEF ReportCreate, TypeOK, ClusterTypeOK, CleanupTypeOK
<1>15. CASE ReportUpdate
  <2>1. cm' \in ConfigMaps /\ published' \subseteq Verdicts /\ faults' \in 0..MaxFaults
    BY <1>15, <1>f, <1>s, StoreType
       DEF ReportUpdate, WriteBack, CleanupCall, Request, Update, KeepConfigMap, TypeOK, ClusterTypeOK
  <2> QED BY <1>15, <1>v, <2>1 DEF ReportUpdate, TypeOK, ClusterTypeOK, CleanupTypeOK
<1>16. CASE CleanupExits
  <2>1. CleanupTypeOK'
    BY <1>16, NoPodType DEF CleanupExits, TypeOK
  <2> QED BY <1>16, <1>v, <2>1 DEF CleanupExits, TypeOK, ClusterTypeOK, clusterVars
<1> QED BY <1>1, <1>2, <1>3, <1>4, <1>5, <1>6, <1>7, <1>8, <1>9, <1>10, <1>11, <1>12, <1>13,
           <1>14, <1>15, <1>16 DEF CleanupStep, CleanupNext

LEMMA OtherTypeStep ==
    ASSUME TypeOK, TimePasses \/ Environment
    PROVE  TypeOK'
<1> USE VerifyAssumption, CleanupAssumption, FaultsBounded
<1>f. ASSUME Fault PROVE faults' \in 0..MaxFaults
  BY <1>f, FaultType DEF TypeOK
<1>v. ASSUME UNCHANGED verifyVars PROVE VerifyTypeOK'
  BY <1>v DEF TypeOK, VerifyTypeOK, verifyVars, VerifyAtRest
<1>c. ASSUME UNCHANGED cleanupVars PROVE CleanupTypeOK'
  BY <1>c, Zenon DEF TypeOK, CleanupTypeOK, cleanupVars
<1>1. CASE TimePasses
  <2>1. ClusterTypeOK' /\ VerifyTypeOK'
    BY <1>1, <1>v DEF TimePasses, Tick, TypeOK, ClusterTypeOK, clusterVars
  <2>2. now' \in 0..CtxEnd
    <3>1. now \in 0..CtxEnd /\ ~(now >= CtxEnd) /\ now' = now + 1
      BY <1>1 DEF TimePasses, Tick, CtxDone, TypeOK, CleanupTypeOK
    <3> QED BY <3>1, CtxEndType
  <2> QED BY <1>1, <2>1, <2>2, Zenon DEF TimePasses, Tick, TypeOK, CleanupTypeOK
<1>2. CASE OperatorEditsPreserve /\ UNCHANGED <<verifyVars, cleanupVars>>
  BY <1>2, <1>v, <1>c DEF OperatorEditsPreserve, TypeOK, ClusterTypeOK
<1>3. ASSUME NEW o \in Objects, Finalise(o)
      PROVE  TypeOK'
  BY <1>3, <1>v, <1>c DEF Finalise, TypeOK, ClusterTypeOK
<1>4. CASE VerifyContextExpires /\ UNCHANGED cleanupVars
  BY <1>4, <1>f, <1>c
     DEF VerifyContextExpires, TypeOK, ClusterTypeOK, VerifyTypeOK
<1>5. CASE VerifyPodDies /\ UNCHANGED cleanupVars
  <2>1. faults' \in 0..MaxFaults
    BY <1>5, <1>f DEF VerifyPodDies, TypeOK, ClusterTypeOK
  <2> QED BY <1>5, <2>1, <1>c
          DEF VerifyPodDies, VerifyPodEnds, TypeOK, ClusterTypeOK, VerifyTypeOK, VerifyAtRest
<1>6. CASE CleanupPodDies /\ UNCHANGED verifyVars
  <2>1. faults' \in 0..MaxFaults
    BY <1>6, <1>f DEF CleanupPodDies, TypeOK, ClusterTypeOK
  <2>2. CleanupTypeOK'
    <3>1. CleanupTypeOK /\ "idle" \in CleanupAtRest /\ CleanupPodEnds("idle")
      BY <1>6 DEF CleanupPodDies, TypeOK, CleanupAtRest
    <3> QED BY <3>1, NoPodType
  <2> QED BY <1>6, <2>1, <2>2, <1>v DEF CleanupPodDies, TypeOK, ClusterTypeOK
<1> QED BY <1>1, <1>2, <1>3, <1>4, <1>5, <1>6 DEF Environment

LEMMA TypeInit ==
    ASSUME Init
    PROVE  TypeOK
<1>1. ClusterTypeOK
  BY FaultsBounded, NoConfigMapType DEF Init, ClusterInit, ClusterTypeOK
<1>2. VerifyTypeOK
  BY VerifyAssumption DEF Init, VerifyInit, VerifyTypeOK, VerifyAtRest
<1>3. CleanupTypeOK
  <2>1. 0 \in Nat /\ 0 \in 0..CtxEnd /\ 0 \in 0..MaxCleanupPods
    BY CleanupAssumption, CtxEndType
  <2>2. DefaultRetention \in Nat
    BY CleanupAssumption
  <2>3. /\ cpc = "idle" /\ now = 0 /\ cpreserve = TRUE /\ cretention = DefaultRetention
        /\ cdeadline = 0 /\ ctimer = 0 /\ cphase = "" /\ ctold = 0
        /\ ctodo = {} /\ cerrs = FALSE /\ cstatus = "" /\ csnap = NoConfigMap /\ cpods = 0
    BY DEF Init, CleanupInit
  <2>4. csnap \in ConfigMaps
    BY <2>3, NoConfigMapType, Zenon
  <2>5. /\ now \in 0..CtxEnd /\ cpods \in 0..MaxCleanupPods
        /\ cretention \in Nat /\ cdeadline \in Nat /\ ctimer \in Nat /\ ctold \in Nat
    BY <2>1, <2>2, <2>3, Zenon
  <2>6. /\ cpc \in CleanupAtRest
        /\ cphase \in Verdicts \cup {""}
        /\ cstatus \in CleanupStatuses \cup {""}
        /\ cpreserve \in BOOLEAN /\ cerrs \in BOOLEAN /\ ctodo \subseteq Objects
    BY <2>3 DEF CleanupAtRest
  <2> QED BY <2>4, <2>5, <2>6, Zenon DEF CleanupTypeOK
<1> QED BY <1>1, <1>2, <1>3 DEF TypeOK

LEMMA TypeStep ==
    ASSUME TypeOK, [Next]_vars
    PROVE  TypeOK'
<1>1. CASE UNCHANGED vars
  <2>1. UNCHANGED clusterVars /\ UNCHANGED verifyVars /\ UNCHANGED cleanupVars
    BY <1>1, Zenon DEF vars
  <2>2. ClusterTypeOK'
    BY <2>1, Zenon DEF clusterVars, TypeOK, ClusterTypeOK
  <2>3. VerifyTypeOK'
    BY <2>1, Zenon DEF verifyVars, TypeOK, VerifyTypeOK
  <2>4. CleanupTypeOK'
    BY <2>1, Zenon DEF cleanupVars, TypeOK, CleanupTypeOK
  <2> QED BY <2>2, <2>3, <2>4 DEF TypeOK
<1> QED BY <1>1, VerifyTypeStep, CleanupTypeStep, OtherTypeStep DEF Next

(* The type invariant: in particular the Pods, the clock of a Pod and the  *)
(* faults stay within their bounds, and nothing but a verdict or an        *)
(* outcome is ever stored in the drill-result ConfigMap.                   *)
THEOREM TypeCorrect == Spec => []TypeOK
<1>1. Init => TypeOK
  BY TypeInit
<1>2. TypeOK /\ [Next]_vars => TypeOK'
  BY TypeStep
<1> QED BY <1>1, <1>2, PTL DEF Spec
=============================================================================
