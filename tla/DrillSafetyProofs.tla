-------------------------- MODULE DrillSafetyProofs --------------------------
(***************************************************************************)
(* What a drill may lose and when, for all values of Drill's constants:    *)
(* nothing without consent, everything before "Completed", nothing before  *)
(* the retention is over, nothing in a dry run.                            *)
(***************************************************************************)
EXTENDS DrillInvariants, DrillTypeProofs

USE DEF Objects, Jobs

-----------------------------------------------------------------------------
(* What the steps of each process do to what the others see.               *)

LEMMA VerifyFrame ==
    ASSUME VerifyStep
    PROVE  UNCHANGED <<obj, preserve, consent>> /\ UNCHANGED cleanupVars
BY DEF VerifyStep, VerifyNext, VerifyPodStarts, Authenticate, VerifyExits, LookAt, VerifyCreates,
       VerifyGets, VerifyUpdates, clusterVars

LEMMA VerifyStores ==
    ASSUME VerifyStep
    PROVE  KeepConfigMap \/ (Store(Verdict, "") /\ vpc \in {"create", "update"})
<1>1. CASE VerifyPodStarts \/ Authenticate \/ VerifyExits \/ \E i \in Items : LookAt(i)
  BY <1>1 DEF VerifyPodStarts, Authenticate, VerifyExits, LookAt, clusterVars, KeepConfigMap
<1>2. CASE VerifyCreates
  BY <1>2, Zenon DEF VerifyCreates, VerifyCall, Request, Create
<1>3. CASE VerifyGets
  BY <1>3, Zenon DEF VerifyGets, VerifyCall, Request
<1>4. CASE VerifyUpdates
  BY <1>4, Zenon DEF VerifyUpdates, VerifyCall, Request, Update
<1> QED BY <1>1, <1>2, <1>3, <1>4 DEF VerifyStep, VerifyNext

LEMMA CleanupFrame ==
    ASSUME CleanupStep
    PROVE  UNCHANGED <<preserve, consent>> /\ UNCHANGED verifyVars
BY DEF CleanupStep, CleanupNext, CleanupPodStarts, ReadFailureHandling, PollGet, PollGivesUp,
       PollIntervalElapses, Decide, RetentionEnds, ListMRs, DeleteMR, DeleteNamespace,
       ListPeerJobs, DeletePeerJob, ReportGet, ReportCreate, ReportUpdate, CleanupExits, clusterVars

LEMMA CleanupStores ==
    ASSUME CleanupStep
    PROVE  \/ KeepConfigMap
           \/ cpc = "reportcreate" /\ cm.rv = 0 /\ Store("", cstatus)
           \/ cpc = "reportupdate" /\ cm.rv # 0 /\ csnap.rv = cm.rv /\ Store(csnap.phase, cstatus)
<1>1. CASE CleanupPodStarts \/ PollGivesUp \/ PollIntervalElapses \/ Decide \/ RetentionEnds \/ CleanupExits
  BY <1>1 DEF CleanupPodStarts, PollGivesUp, PollIntervalElapses, Decide, RetentionEnds, CleanupExits,
              clusterVars, KeepConfigMap
<1>2. CASE ReadFailureHandling \/ PollGet \/ ListMRs \/ DeleteNamespace \/ ListPeerJobs \/ ReportGet
  BY <1>2 DEF ReadFailureHandling, PollGet, ListMRs, DeleteNamespace, ListPeerJobs, ReportGet, KeepConfigMap
<1>3. CASE (\E m \in MRs : DeleteMR(m)) \/ (\E j \in Jobs : DeletePeerJob(j))
  BY <1>3 DEF DeleteMR, DeletePeerJob, KeepConfigMap
<1>4. CASE ReportCreate
  BY <1>4, Zenon DEF ReportCreate, CleanupCall, Request, Create, CreateAccepted
<1>5. CASE ReportUpdate
  BY <1>5, Zenon DEF ReportUpdate, WriteBack, CleanupCall, Request, Update, UpdateAccepted
<1> QED BY <1>1, <1>2, <1>3, <1>4, <1>5 DEF CleanupStep, CleanupNext

(* Only a tearing-down Pod whose context is alive deletes.                 *)
LEMMA CleanupDeletes ==
    ASSUME CleanupStep
    PROVE  \/ UNCHANGED obj
           \/ cpc \in Tearing /\ ~CtxDone /\ \E o \in Objects : Delete(o)
<1>1. CASE \/ CleanupPodStarts \/ PollGivesUp \/ PollIntervalElapses \/ Decide \/ RetentionEnds
           \/ CleanupExits
  BY <1>1 DEF CleanupPodStarts, PollGivesUp, PollIntervalElapses, Decide, RetentionEnds, CleanupExits,
              clusterVars
<1>2. CASE \/ ReadFailureHandling \/ PollGet \/ ListMRs \/ ListPeerJobs \/ ReportGet
           \/ ReportCreate \/ ReportUpdate
  BY <1>2 DEF ReadFailureHandling, PollGet, ListMRs, ListPeerJobs, ReportGet, ReportCreate, ReportUpdate
<1>3. ASSUME NEW m \in MRs, DeleteMR(m)
      PROVE  UNCHANGED obj \/ (cpc \in Tearing /\ ~CtxDone /\ Delete(m))
  <2>1. cpc \in Tearing
    BY <1>3 DEF DeleteMR, Tearing
  <2> QED BY <1>3, <2>1, Zenon DEF DeleteMR, CleanupCall, Request
<1>4. ASSUME NEW j \in Jobs, DeletePeerJob(j)
      PROVE  UNCHANGED obj \/ (cpc \in Tearing /\ ~CtxDone /\ Delete(j))
  <2>1. cpc \in Tearing
    BY <1>4 DEF DeletePeerJob, Tearing
  <2> QED BY <1>4, <2>1, Zenon DEF DeletePeerJob, CleanupCall, Request
<1>5. CASE DeleteNamespace
  <2>1. cpc \in Tearing
    BY <1>5 DEF DeleteNamespace, Tearing
  <2>2. UNCHANGED obj \/ (~CtxDone /\ Delete(RestoreNs))
    BY <1>5, Zenon DEF DeleteNamespace, CleanupCall, Request
  <2> QED BY <2>1, <2>2
<1> QED BY <1>1, <1>2, <1>3, <1>4, <1>5 DEF CleanupStep, CleanupNext

LEMMA OtherFrame ==
    ASSUME TimePasses \/ Environment
    PROVE  /\ KeepConfigMap
           /\ UNCHANGED <<preserve, consent>> \/ (preserve' = ~preserve /\ consent' = (consent \/ preserve))
           /\ UNCHANGED obj \/ \E o \in Objects : Finalise(o)
           /\ UNCHANGED cleanupVars \/ TimePasses \/ (CleanupPodEnds("idle") /\ UNCHANGED obj)
           /\ UNCHANGED verifyVars \/ VerifyPodEnds("idle") \/ VerifyContextExpires
BY DEF TimePasses, Tick, Environment, OperatorEditsPreserve, Finalise,
       VerifyContextExpires, VerifyPodDies, CleanupPodDies, clusterVars, KeepConfigMap

LEMMA NothingRevives ==
    ASSUME TypeOK, [Next]_vars, NEW x \in Objects, obj[x] # "live"
    PROVE  obj'[x] # "live"
<1>t. obj \in [Objects -> {"live", "deleting", "gone"}]
  BY DEF TypeOK, ClusterTypeOK
<1>d. ASSUME NEW o \in Objects, Delete(o) PROVE obj'[x] # "live"
  BY <1>d, <1>t DEF Delete
<1>f. ASSUME NEW o \in Objects, Finalise(o) PROVE obj'[x] # "live"
  BY <1>f, <1>t DEF Finalise
<1>1. CASE UNCHANGED vars
  BY <1>1, Zenon DEF vars, clusterVars
<1>2. CASE VerifyStep
  BY <1>2, VerifyFrame
<1>3. CASE CleanupStep
  BY <1>3, <1>d, CleanupDeletes
<1>4. CASE TimePasses \/ Environment
  BY <1>4, <1>f, OtherFrame
<1> QED BY <1>1, <1>2, <1>3, <1>4 DEF Next

-----------------------------------------------------------------------------
(* Consent.                                                                *)

LEMMA PublishedGrows ==
    ASSUME TypeOK, [Next]_vars
    PROVE  published \subseteq published'
<1>1. CASE UNCHANGED vars
  BY <1>1, Zenon DEF vars, clusterVars
<1>2. CASE VerifyStep
  BY <1>2, VerifyStores DEF Store, KeepConfigMap
<1>3. CASE CleanupStep
  BY <1>3, CleanupStores DEF Store, KeepConfigMap
<1>4. CASE TimePasses \/ Environment
  BY <1>4, OtherFrame DEF KeepConfigMap
<1> QED BY <1>1, <1>2, <1>3, <1>4 DEF Next

LEMMA PhaseIsPublished ==
    ASSUME TypeOK, [Next]_vars, cm.phase \in published \cup {""}
    PROVE  cm'.phase \in published' \cup {""}
<1>s. ASSUME NEW p, NEW c, Store(p, c) PROVE cm'.phase \in published' \cup {""}
  BY <1>s DEF Store
<1>k. ASSUME KeepConfigMap PROVE cm'.phase \in published' \cup {""}
  BY <1>k, Zenon DEF KeepConfigMap
<1>1. CASE UNCHANGED vars
  BY <1>1, Zenon DEF vars, clusterVars
<1>2. CASE VerifyStep
  BY <1>2, <1>s, <1>k, VerifyStores, Zenon
<1>3. CASE CleanupStep
  BY <1>3, <1>s, <1>k, CleanupStores, Zenon
<1>4. CASE TimePasses \/ Environment
  BY <1>4, <1>k, OtherFrame
<1> QED BY <1>1, <1>2, <1>3, <1>4 DEF Next

(* What a cleanup Pod goes by, one action at a time.                       *)
LEMMA CleanupGoesBy ==
    ASSUME ConsentInv, CleanupStep
    PROVE  /\ ~cpreserve' => consent
           /\ cphase' = "Succeeded" => "Succeeded" \in published
           /\ cpc' = "retain" => cphase' = "Succeeded"
           /\ cpc' \in Tearing => cphase' = "Succeeded" \/ ~cpreserve'
<1> USE DEF ConsentInv, Tearing
<1>1. CASE CleanupPodStarts
  BY <1>1 DEF CleanupPodStarts
<1>2. CASE ReadFailureHandling
  <2>1. cpreserve' \in {TRUE, preserve}
    BY <1>2 DEF ReadFailureHandling, CleanupCall, Request, SpecUnreadable
  <2> QED BY <1>2, <2>1 DEF ReadFailureHandling
<1>3. CASE PollGet
  <2>1. cphase' = cphase \/ cphase' = cm.phase
    BY <1>3 DEF PollGet, CleanupCall, Request
  <2>2. cpc' \in {"pollwait", "decide"}
    BY <1>3 DEF PollGet, CleanupCall, Request
  <2> QED BY <1>3, <2>1, <2>2 DEF PollGet
<1>4. CASE PollGivesUp
  BY <1>4 DEF PollGivesUp, VerdictUnavailable
<1>5. CASE PollIntervalElapses
  BY <1>5 DEF PollIntervalElapses
<1>6. CASE Decide
  BY <1>6 DEF Decide, Execute
<1>7. CASE RetentionEnds
  BY <1>7 DEF RetentionEnds, Execute
<1>8. CASE ListMRs
  <2>1. cpc' \in {"namespace", "delete"}
    BY <1>8 DEF ListMRs, CleanupCall, Request
  <2> QED BY <1>8, <2>1 DEF ListMRs
<1>9. CASE \E m \in MRs : DeleteMR(m)
  <2>1. cpc = "delete" /\ cpc' \in {"namespace", "delete"} /\ UNCHANGED <<cpreserve, cphase>>
    BY <1>9 DEF DeleteMR
  <2> QED BY <2>1
<1>10. CASE DeleteNamespace
  BY <1>10 DEF DeleteNamespace
<1>11. CASE ListPeerJobs
  <2>1. cpc = "listjobs" /\ UNCHANGED <<cpreserve, cphase>>
    BY <1>11 DEF ListPeerJobs
  <2>2. cpc' \in {"reap", "reportget"}
    BY <1>11 DEF ListPeerJobs, CleanupCall, Request, TeardownEnds
  <2> QED BY <2>1, <2>2
<1>12. CASE \E j \in Jobs : DeletePeerJob(j)
  <2>1. cpc = "reap" /\ cpc' \in {"reap", "reportget"} /\ UNCHANGED <<cpreserve, cphase>>
    BY <1>12 DEF DeletePeerJob, TeardownEnds
  <2> QED BY <2>1
<1>13. CASE ReportGet
  <2>1. cpc' \in {"reportcreate", "reportupdate", "exit"}
    BY <1>13 DEF ReportGet, CleanupCall, Request
  <2> QED BY <1>13, <2>1 DEF ReportGet
<1>14. CASE ReportCreate
  BY <1>14 DEF ReportCreate
<1>15. CASE ReportUpdate
  BY <1>15 DEF ReportUpdate
<1>16. CASE CleanupExits
  BY <1>16 DEF CleanupExits, CleanupPodEnds
<1> QED BY <1>1, <1>2, <1>3, <1>4, <1>5, <1>6, <1>7, <1>8, <1>9, <1>10, <1>11, <1>12, <1>13,
           <1>14, <1>15, <1>16 DEF CleanupStep, CleanupNext

LEMMA ConsentStep ==
    ASSUME TypeOK, ConsentInv, [Next]_vars
    PROVE  ConsentInv'
<1>p. published \subseteq published' /\ cm'.phase \in published' \cup {""}
  BY PublishedGrows, PhaseIsPublished DEF ConsentInv
<1>1. CASE UNCHANGED vars
  BY <1>1, Zenon DEF vars, clusterVars, cleanupVars, ConsentInv, PreservedDrillStays, Untouched
<1>2. CASE VerifyStep
  <2>1. UNCHANGED <<obj, preserve, consent, cpc, cpreserve, cphase>>
    BY <1>2, VerifyFrame DEF cleanupVars
  <2> QED BY <2>1, <1>p DEF ConsentInv, PreservedDrillStays, Untouched
<1>3. CASE CleanupStep
  <2>1. PreservedDrillStays'
    <3>1. UNCHANGED obj \/ consent \/ "Succeeded" \in published
      BY <1>3, CleanupDeletes DEF ConsentInv
    <3> QED BY <1>3, <1>p, <3>1, CleanupFrame DEF ConsentInv, PreservedDrillStays, Untouched
  <2> QED BY <1>3, <1>p, <2>1, CleanupFrame, CleanupGoesBy DEF ConsentInv
<1>4. CASE TimePasses \/ Environment
  <2>1. /\ ~preserve' => consent'
        /\ consent => consent'
    BY <1>4, OtherFrame DEF ConsentInv
  <2>2. \/ UNCHANGED <<cpc, cpreserve, cphase>>
        \/ cpc' = "idle" /\ cpreserve' = TRUE /\ cphase' = ""
    BY <1>4, OtherFrame DEF TimePasses, Tick, cleanupVars, CleanupPodEnds
  <2>3. PreservedDrillStays'
    <3>1. UNCHANGED obj \/ ~Untouched
      BY <1>4, OtherFrame DEF Finalise, Untouched
    <3> QED BY <2>1, <3>1, <1>p DEF ConsentInv, PreservedDrillStays, Untouched
  <2>4. /\ ~cpreserve' => ~cpreserve
        /\ cphase' = "Succeeded" => cphase = "Succeeded"
        /\ cpc' = "retain" => cphase' = "Succeeded"
        /\ cpc' \in Tearing => cphase' = "Succeeded" \/ ~cpreserve'
    <3>1. CASE UNCHANGED <<cpc, cpreserve, cphase>>
      BY <3>1, Zenon DEF ConsentInv
    <3>2. CASE cpc' = "idle" /\ cpreserve' = TRUE /\ cphase' = ""
      <4>1. cpc' # "retain" /\ cpc' \notin Tearing /\ cphase' # "Succeeded"
        BY <3>2 DEF Tearing
      <4>2. cpreserve'
        BY <3>2, Zenon
      <4> QED BY <4>1, <4>2
    <3> QED BY <2>2, <3>1, <3>2
  <2>5. ~cpreserve' => consent'
    BY <2>1, <2>4, Zenon DEF ConsentInv
  <2>6. cphase' = "Succeeded" => "Succeeded" \in published'
    BY <1>p, <2>4 DEF ConsentInv
  <2> QED BY <1>p, <2>1, <2>3, <2>4, <2>5, <2>6, Zenon DEF ConsentInv
<1> QED BY <1>1, <1>2, <1>3, <1>4 DEF Next

LEMMA ConsentInit ==
    ASSUME Init
    PROVE  ConsentInv
<1>1. /\ cm.phase = "" /\ cpc = "idle" /\ cpreserve = TRUE /\ cphase = ""
      /\ ~preserve => consent
  BY DEF Init, ClusterInit, CleanupInit, NoConfigMap
<1>2. Untouched
  BY DEF Init, ClusterInit, Untouched
<1> QED BY <1>1, <1>2 DEF ConsentInv, PreservedDrillStays, Tearing

(* The operator's veto holds: whatever fails and however often the Pods    *)
(* restart, cmd/cleanup deletes nothing of a drill whose preserve was      *)
(* always TRUE and whose verdict was never "Succeeded".                    *)
THEOREM Preservation == Spec => []PreservedDrillStays
<1>1. Init => ConsentInv
  BY ConsentInit
<1>2. TypeOK /\ ConsentInv /\ [Next]_vars => ConsentInv'
  BY ConsentStep
<1>3. ConsentInv => PreservedDrillStays
  BY DEF ConsentInv
<1> QED BY <1>1, <1>2, <1>3, TypeCorrect, PTL DEF Spec

-----------------------------------------------------------------------------
(* Completeness of a teardown.                                             *)

LEMMA Deleted ==
    ASSUME TypeOK, NEW x \in Objects, Delete(x)
    PROVE  obj'[x] # "live"
BY DEF Delete, TypeOK, ClusterTypeOK

LEMMA TornDownStays ==
    ASSUME TypeOK, [Next]_vars, TornDown
    PROVE  TornDown'
BY NothingRevives DEF TornDown

(* A call of the teardown that leaves no error behind took effect.         *)
LEMMA CallDone ==
    ASSUME NEW x \in Objects, TypeOK,
           CleanupCall(Delete(x), UNCHANGED obj, UNCHANGED cerrs, Remember), ~cerrs'
    PROVE  ~cerrs /\ obj'[x] # "live"
BY Deleted DEF CleanupCall, Request, Remember

(* Nothing outside the five stages of the teardown claims any progress.    *)
LEMMA NoClaim ==
    ASSUME TypeOK, [Next]_vars, TeardownProgress,
           cpc' \notin {"delete", "namespace", "listjobs", "reap"},
           cstatus' = cstatus \/ cstatus' # "Completed"
    PROVE  TeardownProgress'
BY TornDownStays DEF TeardownProgress

LEMMA ProgressStage ==
    ASSUME TypeOK, [Next]_vars, TeardownProgress, CleanupStep
    PROVE  TeardownProgress'
<1>n. \A x \in Objects : obj[x] # "live" => obj'[x] # "live"
  BY NothingRevives
<1>t. TornDown => TornDown'
  BY TornDownStays
<1>1. CASE \/ CleanupPodStarts \/ ReadFailureHandling \/ PollGivesUp \/ PollIntervalElapses
           \/ ReportCreate \/ ReportUpdate
  BY <1>1, NoClaim
     DEF CleanupPodStarts, ReadFailureHandling, PollGivesUp, PollIntervalElapses, ReportCreate, ReportUpdate
<1>2. CASE PollGet
  <2>1. cpc' \in {"decide", "pollwait"}
    BY <1>2 DEF PollGet, CleanupCall, Request
  <2> QED BY <1>2, <2>1, NoClaim DEF PollGet
<1>3. CASE Decide \/ RetentionEnds
  BY <1>3, NoClaim DEF Decide, RetentionEnds, Execute
<1>4. CASE ReportGet
  <2>1. cpc' \in {"reportcreate", "reportupdate", "exit"}
    BY <1>4 DEF ReportGet, CleanupCall, Request
  <2> QED BY <1>4, <2>1, NoClaim DEF ReportGet
<1>5. CASE CleanupExits
  BY <1>5, NoClaim DEF CleanupExits, CleanupPodEnds
<1>6. CASE ListMRs
  <2>1. \/ cpc' = "namespace" /\ cerrs'
        \/ cpc' = "namespace" /\ \A m \in MRs : obj[m] = "gone"
        \/ cpc' = "delete" /\ \A m \in MRs \ ctodo' : obj[m] = "gone"
    BY <1>6 DEF ListMRs, CleanupCall, Request, Remember, Present
  <2>2. UNCHANGED <<obj, cstatus>>
    BY <1>6 DEF ListMRs
  <2> QED BY <2>1, <2>2, <1>t DEF TeardownProgress
<1>7. ASSUME NEW m \in MRs, DeleteMR(m) PROVE TeardownProgress'
  <2>1. ~cerrs' => ~cerrs /\ obj'[m] # "live"
    BY <1>7, CallDone DEF DeleteMR
  <2>2. /\ cpc = "delete" /\ ctodo' = ctodo \ {m} /\ cstatus' = cstatus
        /\ cpc' = IF ctodo = {m} THEN "namespace" ELSE "delete"
    BY <1>7 DEF DeleteMR
  <2>3. ~cerrs' => \A x \in MRs \ ctodo' : obj'[x] # "live"
    BY <2>1, <2>2, <1>n DEF TeardownProgress
  <2>4. cpc' = "namespace" => ctodo' = {}
    BY <2>2
  <2> QED BY <2>2, <2>3, <2>4, <1>t DEF TeardownProgress
<1>8. CASE DeleteNamespace
  <2>1. ~cerrs' => ~cerrs /\ obj'[RestoreNs] # "live"
    BY <1>8, CallDone DEF DeleteNamespace
  <2>2. cpc = "namespace" /\ cpc' = "listjobs" /\ cstatus' = cstatus
    BY <1>8 DEF DeleteNamespace
  <2>3. ~cerrs' => \A x \in MRs : obj'[x] # "live"
    BY <2>1, <2>2, <1>n DEF TeardownProgress
  <2> QED BY <2>1, <2>2, <2>3, <1>t DEF TeardownProgress
<1>9. CASE ListPeerJobs
  <2>1. cpc = "listjobs" /\ UNCHANGED obj
    BY <1>9 DEF ListPeerJobs
  <2>2. \/ cerrs' /\ cpc' = "reportget" /\ cstatus' = "Partial"
        \/ UNCHANGED cerrs /\ ctodo' = PeerJobs /\ cpc' = "reap" /\ cstatus' = cstatus
        \/ UNCHANGED cerrs /\ PeerJobs = {} /\ cpc' = "reportget"
           /\ cstatus' = IF cerrs' THEN "Partial" ELSE "Completed"
    BY <1>9 DEF ListPeerJobs, CleanupCall, Request, Remember, TeardownEnds
  <2>3. \A j \in Jobs \ (PeerJobs \cup {CleanupJob}) : obj[j] # "live"
    BY DEF PeerJobs, Present
  <2> QED BY <2>1, <2>2, <2>3, <1>t DEF TeardownProgress, TornDown
<1>10. ASSUME NEW j \in Jobs, DeletePeerJob(j) PROVE TeardownProgress'
  <2>1. ~cerrs' => ~cerrs /\ obj'[j] # "live"
    BY <1>10, CallDone DEF DeletePeerJob
  <2>2. /\ cpc = "reap" /\ ctodo' = ctodo \ {j}
        /\ IF ctodo = {j} THEN TeardownEnds ELSE UNCHANGED <<cpc, cstatus>>
    BY <1>10 DEF DeletePeerJob
  <2>3. ~cerrs' => /\ \A m \in MRs : obj'[m] # "live"
                   /\ obj'[RestoreNs] # "live"
                   /\ \A x \in Jobs \ (ctodo' \cup {CleanupJob}) : obj'[x] # "live"
    BY <2>1, <2>2, <1>n DEF TeardownProgress
  <2>4. CASE ctodo = {j}
    <3>1. ctodo' = {} /\ cpc' = "reportget" /\ cstatus' = IF cerrs' THEN "Partial" ELSE "Completed"
      BY <2>2, <2>4 DEF TeardownEnds
    <3>2. ~cerrs' => TornDown'
      BY <2>3, <3>1 DEF TornDown
    <3> QED BY <3>1, <3>2 DEF TeardownProgress
  <2>5. CASE ctodo # {j}
    BY <2>2, <2>3, <2>5, <1>t DEF TeardownProgress
  <2> QED BY <2>4, <2>5
<1> QED BY <1>1, <1>2, <1>3, <1>4, <1>5, <1>6, <1>7, <1>8, <1>9, <1>10 DEF CleanupStep, CleanupNext

LEMMA ProgressStep ==
    ASSUME TypeOK, ProgressInv, [Next]_vars
    PROVE  ProgressInv'
<1>t. TornDown => TornDown'
  BY TornDownStays
<1>k. ASSUME KeepConfigMap PROVE CompletedIsClean'
  BY <1>k, <1>t, Zenon DEF KeepConfigMap, CompletedIsClean, ProgressInv
<1>s. ASSUME NEW p, NEW c \in {"", cstatus}, Store(p, c) PROVE CompletedIsClean'
  BY <1>s, <1>t DEF Store, CompletedIsClean, ProgressInv, TeardownProgress
<1>1. CASE UNCHANGED vars
  BY <1>1, Zenon DEF vars, clusterVars, cleanupVars, ProgressInv, TeardownProgress,
                     CompletedIsClean, TornDown
<1>2. CASE VerifyStep
  <2>1. UNCHANGED <<obj, cpc, cerrs, ctodo, cstatus>>
    BY <1>2, VerifyFrame DEF cleanupVars
  <2>2. TeardownProgress'
    BY <2>1, Zenon DEF ProgressInv, TeardownProgress, TornDown
  <2>3. CompletedIsClean'
    BY <1>2, <1>k, <1>s, VerifyStores
  <2> QED BY <2>2, <2>3 DEF ProgressInv
<1>3. CASE CleanupStep
  <2>1. CompletedIsClean'
    BY <1>3, <1>k, <1>s, CleanupStores
  <2> QED BY <1>3, <2>1, ProgressStage DEF ProgressInv
<1>4. CASE TimePasses \/ Environment
  <2>1. \/ UNCHANGED <<cpc, cerrs, ctodo, cstatus>>
        \/ cpc' = "idle" /\ cstatus' = ""
    BY <1>4, OtherFrame DEF TimePasses, Tick, cleanupVars, CleanupPodEnds
  <2>2. \A x \in Objects : obj[x] # "live" => obj'[x] # "live"
    BY NothingRevives
  <2>3. TeardownProgress'
    BY <2>1, <2>2, <1>t DEF ProgressInv, TeardownProgress
  <2> QED BY <1>4, <1>k, <2>3, OtherFrame DEF ProgressInv
<1> QED BY <1>1, <1>2, <1>3, <1>4 DEF Next

LEMMA ProgressInit ==
    ASSUME Init
    PROVE  ProgressInv
<1>1. cm.cleanup = "" /\ cpc = "idle" /\ cstatus = ""
  BY DEF Init, ClusterInit, CleanupInit, NoConfigMap
<1> QED BY <1>1 DEF ProgressInv, TeardownProgress, CompletedIsClean

(* "Completed" can be believed: the outcome is on record only when every   *)
(* resource of the drill, but the cleanup Job itself, has been deleted.    *)
THEOREM Completeness == Spec => []CompletedIsClean
<1>1. Init => ProgressInv
  BY ProgressInit
<1>2. TypeOK /\ ProgressInv /\ [Next]_vars => ProgressInv'
  BY ProgressStep
<1>3. ProgressInv => CompletedIsClean
  BY DEF ProgressInv
<1> QED BY <1>1, <1>2, <1>3, TypeCorrect, PTL DEF Spec

-----------------------------------------------------------------------------
(* Retention.                                                              *)

LEMMA Times ==
    ASSUME TypeOK
    PROVE  /\ now \in Nat /\ ctold \in Nat /\ cretention \in Nat /\ ctimer \in Nat
           /\ CtxEnd \in Nat
<1>1. now \in 0..CtxEnd
  BY DEF TypeOK, CleanupTypeOK
<1>2. ctold \in Nat /\ cretention \in Nat /\ ctimer \in Nat
  BY DEF TypeOK, CleanupTypeOK
<1> QED BY <1>1, <1>2, CtxEndType

LEMMA RetentionStage ==
    ASSUME TypeOK, RetentionInv, ConsentInv, CleanupStep
    PROVE  RetentionInv'
<1>c. now' = now => (CtxDone => CtxDone')
  BY DEF CtxDone, CtxEnd
<1>1. CASE CleanupPodStarts \/ ReadFailureHandling \/ PollIntervalElapses
  BY <1>1 DEF CleanupPodStarts, ReadFailureHandling, PollIntervalElapses, RetentionInv, Tearing
<1>2. CASE PollGet
  <2>1. now' = now
    BY <1>2 DEF PollGet
  <2>2. CASE cpc' = "decide"
    <3>1. ctold' = now
      BY <1>2, <2>2 DEF PollGet, CleanupCall, Request
    <3>2. now' >= ctold'
      BY <2>1, <3>1, Times
    <3> QED BY <2>2, <3>2 DEF RetentionInv, Tearing
  <2>3. CASE cpc' # "decide"
    <3>1. cpc' = "pollwait"
      BY <1>2, <2>3 DEF PollGet, CleanupCall, Request
    <3> QED BY <3>1 DEF RetentionInv, Tearing
  <2> QED BY <2>2, <2>3
<1>3. CASE PollGivesUp
  BY <1>3, Times DEF PollGivesUp, RetentionInv, Tearing
<1>4. CASE Decide
  <2>1. UNCHANGED <<now, ctold, cretention, cphase>>
    BY <1>4 DEF Decide
  <2>2. now >= ctold
    BY <1>4 DEF Decide, RetentionInv
  <2>3. CASE cphase = "Succeeded"
    <3>1. cpc' = "retain" /\ ctimer' = now + cretention
      BY <1>4, <2>3 DEF Decide, RetainUntil
    <3>2. ctimer' >= ctold' + cretention'
      BY <2>1, <2>2, <3>1, Times
    <3> QED BY <3>1, <3>2 DEF RetentionInv, Tearing
  <2>4. CASE cphase # "Succeeded"
    <3>1. cpc' \in {"reportget", "list"} /\ cphase' # "Succeeded"
      BY <1>4, <2>1, <2>4 DEF Decide, Execute
    <3> QED BY <3>1 DEF RetentionInv, Tearing
  <2> QED BY <2>3, <2>4
<1>5. CASE RetentionEnds
  <2>1. UNCHANGED <<now, ctold, cretention>>
    BY <1>5 DEF RetentionEnds
  <2>2. cpc = "retain" /\ cpc' \in {"reportget", "list"}
    BY <1>5 DEF RetentionEnds, Execute
  <2>3. now >= ctimer \/ CtxDone
    BY <1>5 DEF RetentionEnds
  <2>4. now >= ctold + cretention \/ CtxDone
    BY <2>2, <2>3, Times DEF RetentionInv
  <2> QED BY <2>1, <2>2, <2>4, <1>c DEF RetentionInv, Tearing
<1>6. ASSUME cpc \in Tearing, cpc' \in Tearing \cup {"reportget"},
             UNCHANGED <<now, ctold, cretention, cphase>>
      PROVE  RetentionInv'
  BY <1>6, <1>c DEF RetentionInv, Tearing
<1>7. CASE ListMRs
  <2>1. cpc' \in {"namespace", "delete"}
    BY <1>7 DEF ListMRs, CleanupCall, Request
  <2> QED BY <1>6, <1>7, <2>1 DEF ListMRs, Tearing
<1>8. ASSUME NEW m \in MRs, DeleteMR(m) PROVE RetentionInv'
  <2>1. cpc' \in {"namespace", "delete"}
    BY <1>8 DEF DeleteMR
  <2> QED BY <1>6, <1>8, <2>1 DEF DeleteMR, Tearing
<1>9. CASE DeleteNamespace
  BY <1>6, <1>9 DEF DeleteNamespace, Tearing
<1>10. CASE ListPeerJobs
  <2>1. cpc' \in {"reap", "reportget"}
    BY <1>10 DEF ListPeerJobs, CleanupCall, Request, TeardownEnds
  <2> QED BY <1>6, <1>10, <2>1 DEF ListPeerJobs, Tearing
<1>11. ASSUME NEW j \in Jobs, DeletePeerJob(j) PROVE RetentionInv'
  <2>1. cpc = "reap" /\ cpc' \in {"reap", "reportget"}
    BY <1>11 DEF DeletePeerJob, TeardownEnds
  <2> QED BY <1>6, <1>11, <2>1 DEF DeletePeerJob, Tearing
<1>12. CASE ReportGet
  <2>1. cpc' \in {"reportcreate", "reportupdate", "exit"}
    BY <1>12 DEF ReportGet, CleanupCall, Request
  <2> QED BY <1>12, <2>1 DEF RetentionInv, Tearing
<1>13. CASE ReportCreate \/ ReportUpdate
  BY <1>13 DEF ReportCreate, ReportUpdate, RetentionInv, Tearing
<1>14. CASE CleanupExits
  BY <1>14 DEF CleanupExits, CleanupPodEnds, RetentionInv, Tearing
<1> QED BY <1>1, <1>2, <1>3, <1>4, <1>5, <1>7, <1>8, <1>9, <1>10, <1>11, <1>12, <1>13, <1>14
        DEF CleanupStep, CleanupNext

LEMMA RetentionStep ==
    ASSUME TypeOK, RetentionInv, ConsentInv, [Next]_vars
    PROVE  RetentionInv'
<1>1. ASSUME UNCHANGED cleanupVars PROVE RetentionInv'
  BY <1>1, Zenon DEF cleanupVars, RetentionInv, CtxDone, CtxEnd
<1>2. CASE TimePasses
  <2>1. now' = now + 1 /\ UNCHANGED <<cpc, ctold, ctimer, cretention, cphase>>
    BY <1>2 DEF TimePasses, Tick
  <2>2. CtxDone => CtxDone'
    BY <2>1, Times DEF CtxDone, CtxEnd
  <2>3. now >= ctold => now' >= ctold'
    BY <2>1, Times
  <2>4. now >= ctold + cretention => now' >= ctold' + cretention'
    BY <2>1, Times
  <2> QED BY <2>1, <2>2, <2>3, <2>4 DEF RetentionInv
<1>3. CASE CleanupPodEnds("idle")
  BY <1>3 DEF CleanupPodEnds, RetentionInv, Tearing
<1>4. UNCHANGED vars => UNCHANGED cleanupVars
  BY Zenon DEF vars
<1> QED BY <1>1, <1>2, <1>3, <1>4, VerifyFrame, RetentionStage, OtherFrame DEF Next

LEMMA RetentionInit ==
    ASSUME Init
    PROVE  RetentionInv
<1>1. cpc = "idle"
  BY DEF Init, CleanupInit
<1> QED BY <1>1 DEF RetentionInv, Tearing

(* A successful drill is kept for its whole retention: no deletion by a    *)
(* Pod that acts on "Succeeded" comes before retentionAfterSuccess has     *)
(* passed since that Pod read the verdict.                                 *)
THEOREM Retention == Spec => RetentionHonoured
<1>1. Init => ConsentInv /\ RetentionInv
  BY ConsentInit, RetentionInit
<1>2. TypeOK /\ ConsentInv /\ RetentionInv /\ [Next]_vars => ConsentInv' /\ RetentionInv'
  BY ConsentStep, RetentionStep
<1>3. TypeOK /\ RetentionInv /\ [Next]_vars
      => [Deletes /\ cphase = "Succeeded" => now >= ctold + cretention]_vars
  <2> SUFFICES ASSUME TypeOK, RetentionInv, Next, Deletes, cphase = "Succeeded"
               PROVE  now >= ctold + cretention
    BY DEF vars, Deletes
  <2>1. CASE CleanupStep
    <3>1. cpc \in Tearing /\ ~CtxDone
      BY <2>1, CleanupDeletes DEF Deletes
    <3> QED BY <3>1 DEF RetentionInv
  <2>2. CASE VerifyStep
    BY <2>2, VerifyFrame DEF Deletes
  <2>3. CASE TimePasses \/ Environment
    BY <2>3, OtherFrame DEF Deletes, Finalise, TypeOK, ClusterTypeOK
  <2> QED BY <2>1, <2>2, <2>3 DEF Next
<1> QED BY <1>1, <1>2, <1>3, TypeCorrect, PTL DEF Spec, RetentionHonoured

-----------------------------------------------------------------------------
(* Dry runs.                                                               *)

LEMMA DryStage ==
    ASSUME DryRun, cpc \notin Tearing, CleanupStep
    PROVE  cpc' \notin Tearing
<1> USE DEF Tearing
<1>1. CASE CleanupPodStarts \/ ReadFailureHandling \/ PollGet \/ PollGivesUp \/ PollIntervalElapses
  BY <1>1 DEF CleanupPodStarts, ReadFailureHandling, PollGet, CleanupCall, Request, PollGivesUp,
              PollIntervalElapses
<1>2. CASE Decide \/ RetentionEnds
  BY <1>2 DEF Decide, RetentionEnds, Execute
<1>3. CASE \/ ListMRs \/ (\E m \in MRs : DeleteMR(m)) \/ DeleteNamespace
           \/ ListPeerJobs \/ (\E j \in Jobs : DeletePeerJob(j))
  BY <1>3 DEF ListMRs, DeleteMR, DeleteNamespace, ListPeerJobs, DeletePeerJob
<1>4. CASE ReportGet \/ ReportCreate \/ ReportUpdate \/ CleanupExits
  BY <1>4 DEF ReportGet, CleanupCall, Request, ReportCreate, ReportUpdate, CleanupExits, CleanupPodEnds
<1> QED BY <1>1, <1>2, <1>3, <1>4 DEF CleanupStep, CleanupNext

(* --dry-run deletes nothing: a Pod of a dry run never reaches the         *)
(* teardown, whatever the verdict and however often it is restarted.       *)
THEOREM DryRunIsDry == Spec => []DryRunTouchesNothing
<1> DEFINE Dry == DryRun => cpc \notin Tearing /\ Untouched
<1>1. Init => Dry
  BY DEF Init, ClusterInit, CleanupInit, Tearing, Untouched
<1>2. Dry /\ [Next]_vars => Dry'
  <2> SUFFICES ASSUME DryRun, cpc \notin Tearing, Untouched, [Next]_vars
               PROVE  cpc' \notin Tearing /\ Untouched'
    OBVIOUS
  <2>1. UNCHANGED vars => UNCHANGED cleanupVars /\ UNCHANGED obj
    BY Zenon DEF vars, clusterVars
  <2>2. CleanupStep => UNCHANGED obj
    BY CleanupDeletes
  <2>3. TimePasses \/ Environment => UNCHANGED obj
    BY OtherFrame DEF Finalise, Untouched
  <2>4. UNCHANGED obj => Untouched'
    BY DEF Untouched
  <2>5. UNCHANGED cleanupVars => cpc' \notin Tearing
    BY DEF cleanupVars
  <2>6. CASE CleanupStep
    BY <2>2, <2>4, <2>6, DryStage
  <2>7. CASE TimePasses \/ Environment
    BY <2>3, <2>4, <2>5, <2>7, OtherFrame DEF TimePasses, Tick, CleanupPodEnds, Tearing
  <2> QED BY <2>1, <2>4, <2>5, <2>6, <2>7, VerifyFrame DEF Next
<1>3. Dry => DryRunTouchesNothing
  BY DEF DryRunTouchesNothing
<1> QED BY <1>1, <1>2, <1>3, PTL DEF Spec
=============================================================================
