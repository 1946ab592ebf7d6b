------------------------ MODULE DrillRefinementProofs ------------------------
(***************************************************************************)
(* Drill implements TeardownPolicy, for all values of its constants: each  *)
(* of its steps is a step of the policy or leaves the policy's state alone. *)
(* With a collector next to it, it still does; what was proved of the drill *)
(* alone still holds; and the evidence of a drill that is kept survives.   *)
(***************************************************************************)
EXTENDS Diagnosis, DrillVerdictProofs

USE DEF Objects, Jobs

(* The policy's state, as Drill maps it.                                   *)
Due == cphase = "Succeeded" /\ now >= ctold + cretention
Torn == {o \in Objects : obj[o] # "live"}
Seen == <<cphase, cpreserve, Due, Torn, cm.cleanup>>
PolicyStep == Policy!Next \/ UNCHANGED Seen

-----------------------------------------------------------------------------
(* The steps of the policy, in terms of Drill's state.                     *)

LEMMA Acting ==
    ASSUME UNCHANGED <<cphase, now, ctold, cretention>>
    PROVE  Due' = Due
BY DEF Due

LEMMA Standing ==
    ASSUME UNCHANGED obj
    PROVE  Torn' = Torn
BY DEF Torn

LEMMA Consults ==
    ASSUME cphase = "", cphase' = "", cpreserve' \in BOOLEAN, UNCHANGED <<obj, cm>>
    PROVE  Policy!Consult
<1>1. Due = FALSE /\ Due' = FALSE
  BY DEF Due
<1>2. Due' = Due
  BY <1>1, Zenon
<1> QED BY <1>2, Standing, Zenon DEF Policy!Consult, Due, Torn

LEMMA Learns ==
    ASSUME cphase = "", cphase' \in Verdicts, UNCHANGED <<cpreserve, obj, cm>>
    PROVE  Policy!Learn
<1>1. Due' => cphase' = "Succeeded"
  BY DEF Due
<1>2. Due' \in BOOLEAN
  BY DEF Due
<1> QED BY <1>1, <1>2, Standing, Zenon DEF Policy!Learn, Due, Torn, Verdicts

LEMMA Tears ==
    ASSUME TypeOK, NEW o \in Objects, Delete(o), cphase \in Verdicts,
           Due \/ (cphase = "Failed" /\ ~cpreserve),
           UNCHANGED <<cphase, cpreserve, now, ctold, cretention, cm>>
    PROVE  Policy!Tear(o)
<1>1. Torn' = Torn \cup {o}
  BY DEF Torn, Delete, TypeOK, ClusterTypeOK
<1>2. Due => cphase = "Succeeded"
  BY DEF Due
<1> QED BY <1>1, <1>2, Acting, Zenon DEF Policy!Tear, Due, Torn

LEMMA Records ==
    ASSUME NEW s \in {"Completed", "Partial", "Skipped", "DryRun"},
           NEW p, Store(p, s), s = "Completed" => TornDown,
           s = "Skipped" => cphase = "Failed" /\ cpreserve,
           UNCHANGED <<cphase, cpreserve, now, ctold, cretention, obj>>
    PROVE  Policy!Record(s)
<1>1. cm'.cleanup = s
  BY DEF Store
<1>2. s = "Completed" => Objects \ {CleanupJob} \subseteq Torn
  BY DEF TornDown, Torn
<1> QED BY <1>1, <1>2, Acting, Standing, Zenon DEF Policy!Record, Due, Torn

LEMMA Forgets ==
    ASSUME NEW p, Store(p, ""),
           UNCHANGED <<cphase, cpreserve, now, ctold, cretention, obj>>
    PROVE  Policy!Forget
<1>1. cm'.cleanup = ""
  BY DEF Store
<1> QED BY <1>1, Acting, Standing, Zenon DEF Policy!Forget, Due, Torn

LEMMA Restarts ==
    ASSUME NEW rest, CleanupPodEnds(rest), UNCHANGED <<obj, cm>>
    PROVE  Policy!Restart
<1>1. cphase' = "" /\ cpreserve' = TRUE
  BY Zenon DEF CleanupPodEnds
<1>2. Due' = FALSE
  BY <1>1 DEF Due
<1> QED BY <1>1, <1>2, Standing, Zenon DEF Policy!Restart, Due, Torn

-----------------------------------------------------------------------------
(* The steps of Drill.                                                     *)

LEMMA Stutters ==
    ASSUME UNCHANGED <<cphase, cpreserve, now, ctold, cretention, obj, cm>>
    PROVE  PolicyStep
BY Acting, Standing, Zenon DEF PolicyStep, Seen

LEMMA TearsDown ==
    ASSUME TypeOK, SafetyInv, CleanupStep, cpc \in Tearing,
           UNCHANGED <<cphase, cpreserve, now, ctold, cretention, cm>>
    PROVE  PolicyStep
<1>1. CASE UNCHANGED obj
  BY <1>1, Stutters
<1>2. ASSUME NEW o \in Objects, Delete(o), ~CtxDone PROVE PolicyStep
  <2>1. cphase \in Verdicts
    BY DEF TypeOK, CleanupTypeOK, SafetyInv, ActingInv, Undecided, Tearing
  <2>2. cphase = "Succeeded" => Due
    BY <1>2 DEF SafetyInv, RetentionInv, Due
  <2>3. Due \/ (cphase = "Failed" /\ ~cpreserve)
    BY <2>1, <2>2 DEF SafetyInv, ConsentInv, Verdicts
  <2> QED BY <1>2, <2>1, <2>3, Tears, Zenon DEF PolicyStep, Policy!Next
<1> QED BY <1>1, <1>2, CleanupDeletes

LEMMA Reports ==
    ASSUME TypeOK, SafetyInv, CleanupStep, cpc \in Reporting,
           UNCHANGED <<cphase, cpreserve, now, ctold, cretention, obj>>
    PROVE  PolicyStep
<1>1. CASE KeepConfigMap
  <2>1. cm' = cm
    BY <1>1, Zenon DEF KeepConfigMap
  <2> QED BY <2>1, Stutters
<1>2. ASSUME NEW p, Store(p, cstatus) PROVE PolicyStep
  <2>1. cstatus \in {"Completed", "Partial", "Skipped", "DryRun"}
    BY DEF TypeOK, CleanupTypeOK, CleanupStatuses, SafetyInv, ActingInv
  <2>2. /\ cstatus = "Completed" => TornDown
        /\ cstatus = "Skipped" => cphase = "Failed" /\ cpreserve
    BY DEF SafetyInv, ProgressInv, TeardownProgress, ActingInv
  <2> QED BY <1>2, <2>1, <2>2, Records, Zenon DEF PolicyStep, Policy!Next
<1> QED BY <1>1, <1>2, CleanupStores

LEMMA CleanupRefines ==
    ASSUME TypeOK, SafetyInv, CleanupStep
    PROVE  PolicyStep
<1>t. cphase \in Verdicts \cup {""} /\ cm.phase \in Verdicts \cup {""}
  BY DEF TypeOK, CleanupTypeOK, ClusterTypeOK, ConfigMaps
<1>1. CASE CleanupPodStarts \/ PollIntervalElapses \/ Decide \/ RetentionEnds
  BY <1>1, Stutters
     DEF CleanupPodStarts, PollIntervalElapses, Decide, RetentionEnds, clusterVars
<1>2. CASE ListMRs \/ ListPeerJobs \/ ReportGet
  BY <1>2, Stutters DEF ListMRs, ListPeerJobs, ReportGet
<1>3. CASE ReadFailureHandling
  <2>1. cphase = "" /\ cphase' = ""
    BY <1>3 DEF ReadFailureHandling, SafetyInv, ActingInv, Undecided
  <2>2. cpreserve' \in BOOLEAN
    <3>1. cpreserve' = preserve \/ cpreserve' = TRUE
      BY <1>3, Zenon DEF ReadFailureHandling, CleanupCall, Request, SpecUnreadable
    <3>2. preserve \in BOOLEAN
      BY DEF TypeOK, ClusterTypeOK
    <3> QED BY <3>1, <3>2, Zenon
  <2>3. UNCHANGED <<obj, cm>>
    BY <1>3 DEF ReadFailureHandling
  <2> QED BY <2>1, <2>2, <2>3, Consults, Zenon DEF PolicyStep, Policy!Next
<1>4. CASE PollGet
  <2>1. cphase = "" /\ UNCHANGED <<cpreserve, obj, cm, now, cretention>>
    BY <1>4 DEF PollGet, SafetyInv, ActingInv, Undecided
  <2>2. \/ cphase' = cm.phase /\ cm.phase # ""
        \/ UNCHANGED <<cphase, ctold>>
    BY <1>4, Zenon DEF PollGet, CleanupCall, Request
  <2>3. CASE cphase' = cm.phase /\ cm.phase # ""
    <3>1. cphase' \in Verdicts
      BY <2>3, <1>t
    <3> QED BY <2>1, <3>1, Learns, Zenon DEF PolicyStep, Policy!Next
  <2>4. CASE UNCHANGED <<cphase, ctold>>
    BY <2>1, <2>4, Stutters
  <2> QED BY <2>2, <2>3, <2>4
<1>5. CASE PollGivesUp
  <2>1. cphase = "" /\ cphase' = "Failed" /\ UNCHANGED <<cpreserve, obj, cm>>
    BY <1>5 DEF PollGivesUp, PollOver, VerdictUnavailable, clusterVars, SafetyInv, ActingInv, Undecided
  <2> QED BY <2>1, Learns, Zenon DEF PolicyStep, Policy!Next, Verdicts
<1>6. CASE (\E m \in MRs : DeleteMR(m)) \/ DeleteNamespace \/ (\E j \in Jobs : DeletePeerJob(j))
  <2>1. cpc \in Tearing /\ UNCHANGED <<cphase, cpreserve, now, ctold, cretention, cm>>
    BY <1>6 DEF DeleteMR, DeleteNamespace, DeletePeerJob, Tearing
  <2> QED BY <2>1, TearsDown
<1>7. CASE ReportCreate \/ ReportUpdate
  <2>1. cpc \in Reporting /\ UNCHANGED <<cphase, cpreserve, now, ctold, cretention, obj>>
    BY <1>7 DEF ReportCreate, ReportUpdate, Reporting
  <2> QED BY <2>1, Reports
<1>8. CASE CleanupExits
  BY <1>8, Restarts, Zenon DEF CleanupExits, clusterVars, PolicyStep, Policy!Next
<1> QED BY <1>1, <1>2, <1>3, <1>4, <1>5, <1>6, <1>7, <1>8 DEF CleanupStep, CleanupNext

LEMMA VerifyRefines ==
    ASSUME VerifyStep
    PROVE  PolicyStep
<1>1. UNCHANGED <<cphase, cpreserve, now, ctold, cretention, obj>>
  BY VerifyFrame DEF cleanupVars
<1>2. CASE KeepConfigMap
  <2>1. cm' = cm
    BY <1>2, Zenon DEF KeepConfigMap
  <2> QED BY <1>1, <2>1, Stutters
<1>3. CASE Store(Verdict, "")
  BY <1>1, <1>3, Forgets, Zenon DEF PolicyStep, Policy!Next
<1> QED BY <1>2, <1>3, VerifyStores

(* The passing of time makes a success ripe for its teardown.              *)
LEMMA TimeRefines ==
    ASSUME TypeOK, TimePasses
    PROVE  PolicyStep
<1>1. UNCHANGED <<cphase, cpreserve, ctold, cretention, obj, cm>> /\ now' = now + 1
  BY DEF TimePasses, Tick, clusterVars
<1>2. Due \in BOOLEAN /\ Due' \in BOOLEAN
  BY DEF Due
<1>3. Due => Due'
  BY <1>1, Times DEF Due
<1>4. CASE Due' /\ ~Due
  <2>1. cphase = "Succeeded"
    BY <1>1, <1>4 DEF Due
  <2>2. Due' = TRUE
    BY <1>2, <1>4, Zenon
  <2> QED BY <1>1, <1>4, <2>1, <2>2, Standing, Zenon
      DEF PolicyStep, Policy!Next, Policy!Ripen, Due, Torn
<1>5. CASE Due' = Due
  BY <1>1, <1>5, Standing, Zenon DEF PolicyStep, Seen
<1> QED BY <1>2, <1>3, <1>4, <1>5, Zenon

LEMMA EnvironmentRefines ==
    ASSUME TypeOK, Environment
    PROVE  PolicyStep
<1>1. CASE CleanupPodDies
  <2>1. CleanupPodEnds("idle") /\ UNCHANGED <<obj, cm>>
    BY <1>1 DEF CleanupPodDies
  <2> QED BY <2>1, Restarts, Zenon DEF PolicyStep, Policy!Next
<1>2. CASE OperatorEditsPreserve \/ VerifyContextExpires \/ VerifyPodDies
  <2>1. UNCHANGED <<obj, cm>>
    BY <1>2 DEF OperatorEditsPreserve, VerifyContextExpires, VerifyPodDies
  <2>2. UNCHANGED cleanupVars \/ CleanupPodDies
    BY <1>2 DEF Environment, Finalise
  <2> QED BY <1>1, <2>1, <2>2, Stutters DEF cleanupVars
<1>3. ASSUME NEW o \in Objects, Finalise(o) PROVE PolicyStep
  <2>1. UNCHANGED <<cphase, cpreserve, now, ctold, cretention, cm>>
    BY <1>3 DEF Finalise, cleanupVars
  <2>2. Torn' = Torn
    BY <1>3 DEF Finalise, Torn, TypeOK, ClusterTypeOK
  <2> QED BY <2>1, <2>2, Acting, Zenon DEF PolicyStep, Seen
<1> QED BY <1>1, <1>2, <1>3 DEF Environment

LEMMA PolicyInit ==
    ASSUME Init
    PROVE  Policy!Init
<1>1. cphase = "" /\ cpreserve = TRUE /\ cm.cleanup = ""
  BY DEF Init, ClusterInit, CleanupInit, NoConfigMap
<1>2. Due = FALSE
  BY <1>1 DEF Due
<1>3. Torn = {}
  BY DEF Init, ClusterInit, Torn
<1> QED BY <1>1, <1>2, <1>3, Zenon DEF Policy!Init, Due, Torn

LEMMA StepRefines ==
    ASSUME TypeOK, SafetyInv, [Next]_vars
    PROVE  PolicyStep
<1>1. CASE UNCHANGED vars
  BY <1>1, Stutters, Zenon DEF vars, clusterVars, cleanupVars
<1> QED BY <1>1, VerifyRefines, CleanupRefines, TimeRefines, EnvironmentRefines DEF Next

(* The whole drill keeps to the teardown policy: an object is deleted only *)
(* for a success whose retention is over or a failure nobody preserves,    *)
(* and an outcome on record means what the policy says it means; retries,  *)
(* deaths and lost calls included.                                         *)
THEOREM PolicyRefined == Spec => PolicyImplemented
<1>1. Init => Policy!Init
  BY PolicyInit
<1>2. TypeOK /\ SafetyInv /\ [Next]_vars => [Policy!Next]_(Policy!policyVars)
  BY StepRefines, Zenon DEF PolicyStep, Seen, Policy!policyVars, Due, Torn
<1> QED BY <1>1, <1>2, TypeCorrect, Safety, PTL DEF Spec, PolicyImplemented, Policy!Spec

-----------------------------------------------------------------------------
(* A drill with a collector next to it.                                    *)

(* Neither the operator nor verify has released the drill.                 *)
Kept == ~consent /\ "Succeeded" \notin published

(* What a collector of such a drill has seen.                              *)
EvidenceInv ==
    Kept /\ ~dfailed =>
        /\ dpc = "logs" => dbundle = MRs
        /\ dpc = "complete" /\ dns => dbundle = MRs \cup {RestoreNs}

DrillInv == TypeOK /\ SafetyInv
DiagnosisInv == DrillInv /\ DiagTypeOK /\ EvidenceInv

(* All that the collector shares with it are the faults.                   *)
DrillFrame == UNCHANGED <<obj, cm, published, preserve, consent, verifyVars, cleanupVars>>

LEMMA CollectorFrame ==
    ASSUME TypeOK, CollectorStep \/ CollectorGoes
    PROVE  DrillFrame /\ faults' \in 0..MaxFaults /\ (Calm' => Calm)
<1>1. CASE CollectorStep
  <2>1. UNCHANGED vars
    BY <1>1 DEF CollectorStep, CollectorStarts, ReadSession, ReadMRs, ReadLogsAndEmit
  <2> QED BY <2>1 DEF vars, clusterVars, DrillFrame, TypeOK, ClusterTypeOK, Calm
<1>2. CASE CollectorGoes
  <2>1. Fault \/ UNCHANGED faults
    BY <1>2 DEF CollectorGoes
  <2>2. Calm' => Calm
    BY <2>1, FaultsBounded DEF Fault, Calm, TypeOK, ClusterTypeOK
  <2> QED BY <1>2, <2>1, <2>2, FaultType DEF CollectorGoes, DrillFrame, TypeOK, ClusterTypeOK
<1> QED BY <1>1, <1>2

LEMMA DrillUnaware ==
    ASSUME DrillInv, DrillFrame, faults' \in 0..MaxFaults, Calm' => Calm
    PROVE  DrillInv'
<1> USE DEF DrillInv, DrillFrame, verifyVars, cleanupVars
<1>1. ClusterTypeOK' /\ VerifyTypeOK' /\ CleanupTypeOK'
  <2>1. ClusterTypeOK'
    BY DEF TypeOK, ClusterTypeOK
  <2>2. VerifyTypeOK'
    BY Zenon DEF TypeOK, VerifyTypeOK
  <2>3. CleanupTypeOK'
    BY Zenon DEF TypeOK, CleanupTypeOK
  <2> QED BY <2>1, <2>2, <2>3
<1>2. ConsentInv'
  BY Zenon DEF SafetyInv, ConsentInv, PreservedDrillStays, Untouched
<1>3. ProgressInv'
  BY Zenon DEF SafetyInv, ProgressInv, TeardownProgress, CompletedIsClean, TornDown
<1>4. RetentionInv'
  BY Zenon DEF SafetyInv, RetentionInv, CtxDone
<1>5. SnapshotInv'
  BY Zenon DEF SafetyInv, SnapshotInv
<1>6. ActingInv'
  BY Zenon DEF SafetyInv, ActingInv
<1>7. LastPodInv'
  BY Zenon DEF SafetyInv, LastPodInv
<1>8. FitInv'
  <2>1. Prompt => OnTime'
    BY Zenon DEF SafetyInv, FitInv, OnTime
  <2>2. Fits' => Fits
    BY Zenon DEF Fits
  <2> QED BY <2>1, <2>2, Zenon DEF SafetyInv, FitInv
<1> QED BY <1>1, <1>2, <1>3, <1>4, <1>5, <1>6, <1>7, <1>8 DEF TypeOK, SafetyInv

LEMMA DrillGoesOn ==
    ASSUME DrillInv, [DiagnosisNext]_diagnosisVars
    PROVE  DrillInv'
<1>1. CASE DrillStep \/ UNCHANGED diagnosisVars
  <2>1. [Next]_vars
    BY <1>1, Zenon DEF DrillStep, diagnosisVars
  <2> QED BY <2>1, TypeStep, SafetyStep DEF DrillInv
<1>2. CASE CollectorStep \/ CollectorGoes
  BY <1>2, CollectorFrame, DrillUnaware DEF DrillInv
<1> QED BY <1>1, <1>2 DEF DiagnosisNext

-----------------------------------------------------------------------------
(* The evidence.                                                           *)

LEMMA NothingGone ==
    ASSUME DrillInv, Kept
    PROVE  \A o \in Objects : obj[o] = "live"
BY DEF DrillInv, SafetyInv, ConsentInv, PreservedDrillStays, Untouched, Kept

(* Once released, a drill stays so.                                        *)
LEMMA KeptBefore ==
    ASSUME TypeOK, [DiagnosisNext]_diagnosisVars, Kept'
    PROVE  Kept
<1>1. CASE DrillStep \/ UNCHANGED diagnosisVars
  <2>1. [Next]_vars
    BY <1>1, Zenon DEF DrillStep, diagnosisVars
  <2>2. published \subseteq published'
    BY <2>1, PublishedGrows
  <2>3. consent => consent'
    <3>1. UNCHANGED vars => UNCHANGED consent
      BY Zenon DEF vars, clusterVars
    <3>2. VerifyStep \/ CleanupStep => UNCHANGED consent
      BY VerifyFrame, CleanupFrame, Zenon
    <3>3. TimePasses \/ Environment => UNCHANGED consent \/ consent' = (consent \/ preserve)
      BY OtherFrame, Zenon
    <3>4. VerifyStep \/ CleanupStep \/ TimePasses \/ Environment \/ UNCHANGED vars
      BY <2>1, Zenon DEF Next
    <3> QED BY <3>1, <3>2, <3>3, <3>4
  <2>4. "Succeeded" \in published => "Succeeded" \in published'
    BY <2>2
  <2> QED BY <2>3, <2>4, Zenon DEF Kept
<1>2. CASE CollectorStep \/ CollectorGoes
  <2>1. DrillFrame
    BY <1>2, CollectorFrame
  <2>2. consent' = consent /\ published' = published
    BY <2>1, Zenon DEF DrillFrame
  <2> QED BY <2>2, Zenon DEF Kept
<1> QED BY <1>1, <1>2 DEF DiagnosisNext

LEMMA DiagTypeStep ==
    ASSUME DiagTypeOK, [DiagnosisNext]_diagnosisVars
    PROVE  DiagTypeOK'
<1> USE DEF DiagTypeOK
<1>1. CASE DrillStep \/ UNCHANGED diagnosisVars
  <2>1. UNCHANGED diagVars
    BY <1>1, Zenon DEF DrillStep, diagnosisVars
  <2> QED BY <2>1, Zenon DEF diagVars
<1>2. CASE CollectorStarts
  BY <1>2 DEF CollectorStarts
<1>6. CASE ReadSession
  <2>1. dpc' = "mrs" /\ dns' \in BOOLEAN /\ dfailed' \in BOOLEAN
    BY <1>6 DEF ReadSession, ReadFails
  <2>2. dbundle = {} /\ dbundle' = {}
    BY <1>6 DEF ReadSession
  <2> QED BY <2>1, <2>2
<1>3. CASE ReadMRs
  <2>1. RestoreNs \notin {m \in MRs : Present(m)}
    BY NamesDistinct
  <2> QED BY <1>3, <2>1 DEF ReadMRs, ReadFails
<1>4. CASE ReadLogsAndEmit
  BY <1>4 DEF ReadLogsAndEmit, ReadFails, LogsThere
<1>5. CASE CollectorGoes
  BY <1>5 DEF CollectorGoes
<1> QED BY <1>1, <1>2, <1>3, <1>4, <1>5, <1>6 DEF DiagnosisNext, CollectorStep

LEMMA EvidenceStep ==
    ASSUME DiagnosisInv, [DiagnosisNext]_diagnosisVars
    PROVE  EvidenceInv'
<1> SUFFICES ASSUME Kept', ~dfailed'
             PROVE  /\ dpc' = "logs" => dbundle' = MRs
                    /\ dpc' = "complete" /\ dns' => dbundle' = MRs \cup {RestoreNs}
  BY DEF EvidenceInv
<1>1. Kept /\ \A o \in Objects : obj[o] = "live"
  BY KeptBefore, NothingGone DEF DiagnosisInv, DrillInv
<1>2. CASE DrillStep \/ UNCHANGED diagnosisVars
  <2>1. UNCHANGED diagVars
    BY <1>2, Zenon DEF DrillStep, diagnosisVars
  <2> QED BY <1>1, <2>1 DEF diagVars, DiagnosisInv, EvidenceInv
<1>3. CASE CollectorStarts \/ ReadSession \/ CollectorGoes
  BY <1>3 DEF CollectorStarts, ReadSession, ReadFails, CollectorGoes
<1>4. CASE ReadMRs
  <2>1. {m \in MRs : Present(m)} = MRs
    BY <1>1 DEF Present, Objects
  <2> QED BY <1>4, <2>1 DEF ReadMRs, ReadFails
<1>5. CASE ReadLogsAndEmit
  <2>1. dns => LogsThere = {RestoreNs}
    BY <1>1 DEF LogsThere, Present, Objects
  <2> QED BY <1>1, <1>5, <2>1 DEF ReadLogsAndEmit, ReadFails, DiagnosisInv, EvidenceInv
<1> QED BY <1>2, <1>3, <1>4, <1>5 DEF DiagnosisNext, CollectorStep

-----------------------------------------------------------------------------
(* The safety of a drill alone, with its inductive invariant, is that of a *)
(* drill with a collector; and a collector that nothing failed has seen    *)
(* the whole of a drill that is kept.                                      *)
THEOREM DiagnosisCorrect == DiagnosisSpec => []DiagnosisInv
<1>1. DiagnosisInit => DiagnosisInv
  <2>1. DiagInit => DiagTypeOK /\ EvidenceInv
    BY DEF DiagInit, DiagTypeOK, EvidenceInv
  <2> QED BY <2>1, TypeInit, SafetyInit DEF DiagnosisInit, DiagnosisInv, DrillInv
<1>2. DiagnosisInv /\ [DiagnosisNext]_diagnosisVars => DiagnosisInv'
  BY DrillGoesOn, DiagTypeStep, EvidenceStep DEF DiagnosisInv
<1> QED BY <1>1, <1>2, PTL DEF DiagnosisSpec

(* The collector, and the faults that strike it, leave the drill as it is  *)
(* seen by the policy: with it, too, the drill keeps to TeardownPolicy.    *)
THEOREM DiagnosisRefinesPolicy == DiagnosisSpec => PolicyImplemented
<1>1. DiagnosisInit => Policy!Init
  BY PolicyInit DEF DiagnosisInit
<1>2. DiagnosisInv /\ [DiagnosisNext]_diagnosisVars => [Policy!Next]_(Policy!policyVars)
  <2> SUFFICES ASSUME DiagnosisInv, [DiagnosisNext]_diagnosisVars PROVE PolicyStep
    BY Zenon DEF PolicyStep, Seen, Policy!policyVars, Due, Torn
  <2>1. CASE DrillStep \/ UNCHANGED diagnosisVars
    <3>1. [Next]_vars
      BY <2>1, Zenon DEF DrillStep, diagnosisVars
    <3> QED BY <3>1, StepRefines DEF DiagnosisInv, DrillInv
  <2>2. CASE CollectorStep \/ CollectorGoes
    <3>1. UNCHANGED <<cphase, cpreserve, now, ctold, cretention, obj, cm>>
      BY <2>2, CollectorFrame, Zenon DEF DiagnosisInv, DrillInv, DrillFrame, cleanupVars
    <3> QED BY <3>1, Stutters
  <2> QED BY <2>1, <2>2 DEF DiagnosisNext
<1> QED BY <1>1, <1>2, DiagnosisCorrect, PTL DEF DiagnosisSpec, PolicyImplemented, Policy!Spec

(* The bundle of a drill that is kept is never lost again, and it is whole *)
(* unless a read failed: the teardown touches nothing, and so not the Job  *)
(* in whose log the bundle is.                                             *)
THEOREM EvidenceSurvives == DiagnosisSpec => PostMortem
<1> DEFINE Survives ==
        Kept /\ dpc = "complete" =>
            /\ dpc' = "complete"
            /\ dns /\ ~dfailed => dbundle = MRs \cup {RestoreNs}
<1>1. DiagnosisInv /\ [DiagnosisNext]_diagnosisVars => [Survives]_diagnosisVars
  <2> SUFFICES ASSUME DiagnosisInv, [DiagnosisNext]_diagnosisVars, Kept, dpc = "complete"
               PROVE  /\ dpc' = "complete"
                      /\ dns /\ ~dfailed => dbundle = MRs \cup {RestoreNs}
    OBVIOUS
  <2>1. obj[Collector] = "live"
    <3>1. Collector \in Objects
      BY CollectorAssumption DEF Objects, Jobs
    <3> QED BY <3>1, NothingGone DEF DiagnosisInv
  <2>2. ~CollectorStep /\ ~CollectorGoes
    BY <2>1 DEF CollectorStep, CollectorStarts, ReadSession, ReadMRs, ReadLogsAndEmit,
                CollectorGoes, CollectorRunning
  <2>3. UNCHANGED diagVars
    BY <2>2, Zenon DEF DiagnosisNext, DrillStep, diagnosisVars
  <2> QED BY <2>3 DEF diagVars, DiagnosisInv, EvidenceInv
<1> QED BY <1>1, DiagnosisCorrect, PTL DEF DiagnosisSpec, PostMortem, Kept
=============================================================================
