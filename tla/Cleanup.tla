------------------------------ MODULE Cleanup -------------------------------
(***************************************************************************)
(* cmd/cleanup: the Job that waits for the verdict, decides whether the    *)
(* drill's resources are torn down, deletes them, records the outcome in   *)
(* the drill-result ConfigMap and exits.  Time is counted in ticks of the  *)
(* poll interval from the moment the Pod's context is created; it is not   *)
(* counted beyond that context's expiry, after which no call has an effect. *)
(***************************************************************************)
EXTENDS Cluster

CONSTANTS
    MaxWait,            \* --max-wait
    Grace,              \* what the context outlives --max-wait by (5 min)
    Retentions,         \* what spec.retentionAfterSuccess may say
    DefaultRetention,   \* what is assumed when it says nothing (5 min)
    DryRun,             \* --dry-run
    JobNameSet,         \* the chart sets JOB_NAME
    Prompt,             \* TRUE: only waiting takes time.  FALSE: so do calls
    MaxCleanupPods      \* bound: the Job's backoffLimit + 1

ASSUME CleanupAssumption ==
    /\ MaxWait \in Nat /\ Grace \in Nat /\ MaxCleanupPods \in Nat
    /\ Retentions \subseteq Nat /\ DefaultRetention \in Nat
    /\ DryRun \in BOOLEAN /\ JobNameSet \in BOOLEAN /\ Prompt \in BOOLEAN

VARIABLES
    cpc,        \* what the Pod is about to do; "idle": none runs, one may start
    now,        \* ticks since the Pod's context was created
    cpreserve, cretention,   \* failureHandling as this Pod read it
    cdeadline,  \* when pollResultPhase gives up
    ctimer,     \* when the wait under way ends
    cphase,     \* the verdict this Pod acts on
    ctold,      \* when this Pod learnt the verdict
    ctodo,      \* listed and not deleted yet
    cerrs,      \* some call of the teardown failed
    cstatus,    \* cleanup_status
    csnap,      \* the copy of the ConfigMap that will be written back
    cpods       \* Pods started so far

cleanupVars == <<cpc, now, cpreserve, cretention, cdeadline, ctimer, cphase,
                 ctold, ctodo, cerrs, cstatus, csnap, cpods>>

CleanupAtRest == {"idle", "complete"}
Waiting == {"pollwait", "retain"}
CleanupRunning == cpc \notin CleanupAtRest
CtxEnd_NoGrace == MaxWait
CtxEnd == MaxWait + Grace

CleanupTypeOK ==
    /\ cpc \in {"readspec", "pollget", "decide", "list", "listjobs", "reportget",
                "reportcreate", "reportupdate", "exit"}
               \cup CleanupAtRest \cup Waiting \cup {"delete", "namespace", "reap"}
    /\ now \in 0..CtxEnd
    /\ cpreserve \in BOOLEAN
    /\ cretention \in Nat /\ cdeadline \in Nat /\ ctimer \in Nat /\ ctold \in Nat
    /\ cphase \in Verdicts \cup {""}
    /\ ctodo \subseteq Objects
    /\ cerrs \in BOOLEAN
    /\ cstatus \in CleanupStatuses \cup {""}
    /\ csnap \in ConfigMaps
    /\ cpods \in 0..MaxCleanupPods

CleanupInit ==
    /\ cpc = "idle" /\ now = 0
    /\ cpreserve = TRUE /\ cretention = DefaultRetention
    /\ cdeadline = 0 /\ ctimer = 0 /\ cphase = "" /\ ctold = 0
    /\ ctodo = {} /\ cerrs = FALSE /\ cstatus = "" /\ csnap = NoConfigMap
    /\ cpods = 0

(* What is left of a Pod that has ended; the next one starts afresh.       *)
CleanupPodEnds(rest) ==
    /\ cpc' = rest /\ now' = 0
    /\ cpreserve' = TRUE /\ cretention' = DefaultRetention
    /\ cdeadline' = 0 /\ ctimer' = 0 /\ cphase' = "" /\ ctold' = 0
    /\ ctodo' = {} /\ cerrs' = FALSE /\ cstatus' = "" /\ csnap' = NoConfigMap
    /\ UNCHANGED cpods

CtxDone == now >= CtxEnd
CleanupCall(effect, noEffect, onOk, onErr) ==
    \/ ~CtxDone /\ Request(effect, noEffect, onOk, onErr)
    \/ CtxDone /\ noEffect /\ onErr /\ UNCHANGED faults

CleanupPodStarts ==
    /\ cpc = "idle" /\ obj[CleanupJob] = "live" /\ cpods < MaxCleanupPods
    /\ cpc' = "readspec" /\ cpods' = cpods + 1
    /\ UNCHANGED <<clusterVars, now, cpreserve, cretention, cdeadline, ctimer,
                   cphase, ctold, ctodo, cerrs, cstatus, csnap>>

-----------------------------------------------------------------------------
(* Step 1.  A spec that cannot be read counts as preserve=true.            *)
SpecUnreadable_TearDown == cpreserve' = FALSE /\ cretention' = DefaultRetention
SpecUnreadable == cpreserve' = TRUE /\ cretention' = DefaultRetention

ReadFailureHandling ==
    /\ cpc = "readspec"
    /\ CleanupCall(TRUE, TRUE,
                   cpreserve' = preserve /\ cretention' \in Retentions \cup {DefaultRetention},
                   SpecUnreadable)
    /\ cpc' = "pollget" /\ cdeadline' = now + MaxWait
    /\ UNCHANGED <<obj, cm, published, preserve, consent, now, ctimer,
                   cphase, ctold, ctodo, cerrs, cstatus, csnap, cpods>>

(* Step 2.  The loop is left at its deadline or when the context is done.  *)
PollOver_NoCeiling == FALSE
PollOver ==
    \/ cpc = "pollget" /\ now >= cdeadline
    \/ cpc = "pollwait" /\ CtxDone

(* One poll: a phase ends the loop; NotFound, an error or a ConfigMap      *)
(* without a phase means another interval.                                 *)
PollGet ==
    /\ cpc = "pollget" /\ ~PollOver
    /\ LET again == cpc' = "pollwait" /\ ctimer' = now + 1 /\ UNCHANGED <<cphase, ctold>>
           found == cpc' = "decide" /\ cphase' = cm.phase /\ ctold' = now /\ UNCHANGED ctimer
       IN CleanupCall(TRUE, TRUE, IF cm.phase # "" THEN found ELSE again, again)
    /\ UNCHANGED <<obj, cm, published, preserve, consent, now, cpreserve,
                   cretention, cdeadline, ctodo, cerrs, cstatus, csnap, cpods>>

(* No verdict was seen: assume failure.                                    *)
VerdictUnavailable_Optimist == "Succeeded"
VerdictUnavailable == "Failed"

PollGivesUp ==
    /\ PollOver
    /\ cpc' = "decide" /\ cphase' = VerdictUnavailable /\ ctold' = now
    /\ UNCHANGED <<clusterVars, now, cpreserve, cretention, cdeadline, ctimer,
                   ctodo, cerrs, cstatus, csnap, cpods>>

PollIntervalElapses ==
    /\ cpc = "pollwait" /\ now >= ctimer
    /\ cpc' = "pollget"
    /\ UNCHANGED <<clusterVars, now, cpreserve, cretention, cdeadline, ctimer,
                   cphase, ctold, ctodo, cerrs, cstatus, csnap, cpods>>

-----------------------------------------------------------------------------
(* Steps 3 and 4.  A failure is torn down at once unless preserve was set; *)
(* a success is torn down after the retention, whatever preserve says.     *)
RetainUntil_FromStart == cretention
RetainUntil == now + cretention

Execute ==
    IF DryRun THEN cpc' = "reportget" /\ cstatus' = "DryRun"
              ELSE cpc' = "list" /\ UNCHANGED cstatus

Decide ==
    /\ cpc = "decide"
    /\ \/ /\ cphase = "Succeeded"
          /\ cpc' = "retain" /\ ctimer' = RetainUntil
          /\ UNCHANGED cstatus
       \/ /\ cphase # "Succeeded" /\ cpreserve
          /\ cpc' = "reportget" /\ cstatus' = "Skipped"
          /\ UNCHANGED ctimer
       \/ /\ cphase # "Succeeded" /\ ~cpreserve
          /\ Execute
          /\ UNCHANGED ctimer
    /\ UNCHANGED <<clusterVars, now, cpreserve, cretention, cdeadline, cphase,
                   ctold, ctodo, cerrs, csnap, cpods>>

RetentionEnds ==
    /\ cpc = "retain"
    /\ now >= ctimer \/ CtxDone
    /\ Execute
    /\ UNCHANGED <<clusterVars, now, cpreserve, cretention, cdeadline, ctimer,
                   cphase, ctold, ctodo, cerrs, csnap, cpods>>

-----------------------------------------------------------------------------
(* executeTeardown.  A failed call is remembered and the next one is made. *)
Remember_Shadowed == UNCHANGED cerrs
Remember == cerrs' = TRUE

ListMRs ==
    /\ cpc = "list"
    /\ LET listed == {m \in MRs : Present(m)}
       IN CleanupCall(TRUE, TRUE,
             /\ cpc' = IF listed = {} THEN "namespace" ELSE "delete"
             /\ ctodo' = listed /\ UNCHANGED cerrs,
             cpc' = "namespace" /\ Remember /\ UNCHANGED ctodo)
    /\ UNCHANGED <<obj, cm, published, preserve, consent, now, cpreserve,
                   cretention, cdeadline, ctimer, cphase, ctold, cstatus, csnap, cpods>>

DeleteMR(m) ==
    /\ cpc = "delete" /\ m \in ctodo
    /\ CleanupCall(Delete(m), UNCHANGED obj, UNCHANGED cerrs, Remember)
    /\ ctodo' = ctodo \ {m}
    /\ cpc' = IF ctodo = {m} THEN "namespace" ELSE "delete"
    /\ UNCHANGED <<cm, published, preserve, consent, now, cpreserve,
                   cretention, cdeadline, ctimer, cphase, ctold, cstatus, csnap, cpods>>

DeleteNamespace ==
    /\ cpc = "namespace"
    /\ CleanupCall(Delete(RestoreNs), UNCHANGED obj, UNCHANGED cerrs, Remember)
    /\ cpc' = "listjobs"
    /\ UNCHANGED <<cm, published, preserve, consent, now, cpreserve,
                   cretention, cdeadline, ctimer, cphase, ctold, ctodo, cstatus, csnap, cpods>>

TeardownEnds ==
    cpc' = "reportget" /\ cstatus' = IF cerrs' THEN "Partial" ELSE "Completed"

(* The Job that runs this code is left out only if it knows its own name.  *)
PeerJobs_Self == {j \in Jobs : Present(j)}
PeerJobs == {j \in Jobs : Present(j) /\ ~(JobNameSet /\ j = CleanupJob)}

ListPeerJobs ==
    /\ cpc = "listjobs"
    /\ CleanupCall(TRUE, TRUE,
          /\ ctodo' = PeerJobs /\ UNCHANGED cerrs
          /\ IF PeerJobs = {} THEN TeardownEnds ELSE cpc' = "reap" /\ UNCHANGED cstatus,
          ctodo' = {} /\ Remember /\ TeardownEnds)
    /\ UNCHANGED <<obj, cm, published, preserve, consent, now, cpreserve,
                   cretention, cdeadline, ctimer, cphase, ctold, csnap, cpods>>

DeletePeerJob(j) ==
    /\ cpc = "reap" /\ j \in ctodo
    /\ CleanupCall(Delete(j), UNCHANGED obj, UNCHANGED cerrs, Remember)
    /\ ctodo' = ctodo \ {j}
    /\ IF ctodo = {j} THEN TeardownEnds ELSE UNCHANGED <<cpc, cstatus>>
    /\ UNCHANGED <<cm, published, preserve, consent, now, cpreserve,
                   cretention, cdeadline, ctimer, cphase, ctold, csnap, cpods>>

-----------------------------------------------------------------------------
(* writeCleanupOutcome.  Its errors are logged and change nothing.         *)
ReportGet ==
    /\ cpc = "reportget"
    /\ CleanupCall(TRUE, TRUE,
          csnap' = cm /\ cpc' = IF cm.rv = 0 THEN "reportcreate" ELSE "reportupdate",
          cpc' = "exit" /\ UNCHANGED csnap)
    /\ UNCHANGED <<obj, cm, published, preserve, consent, now, cpreserve,
                   cretention, cdeadline, ctimer, cphase, ctold, ctodo, cerrs, cstatus, cpods>>

(* AlreadyExists is taken for success.                                     *)
ReportCreate ==
    /\ cpc = "reportcreate"
    /\ CleanupCall(Create("", cstatus), KeepConfigMap, TRUE, TRUE)
    /\ cpc' = "exit"
    /\ UNCHANGED <<obj, preserve, consent, now, cpreserve, cretention,
                   cdeadline, ctimer, cphase, ctold, ctodo, cerrs, cstatus, csnap, cpods>>

(* The other keys are written back as they were read.                      *)
WriteBack_Unconditional == Update(cm.rv, csnap.phase, cstatus)
WriteBack == Update(csnap.rv, csnap.phase, cstatus)

ReportUpdate ==
    /\ cpc = "reportupdate"
    /\ CleanupCall(WriteBack, KeepConfigMap, TRUE, TRUE)
    /\ cpc' = "exit"
    /\ UNCHANGED <<obj, preserve, consent, now, cpreserve, cretention,
                   cdeadline, ctimer, cphase, ctold, ctodo, cerrs, cstatus, csnap, cpods>>

(* Exit 0 completes the Job; after exit 1 the Job starts another Pod.      *)
CleanupExits ==
    /\ cpc = "exit"
    /\ CleanupPodEnds(IF cstatus = "Partial" THEN "idle" ELSE "complete")
    /\ UNCHANGED clusterVars

CleanupNext ==
    \/ CleanupPodStarts \/ ReadFailureHandling
    \/ PollGet \/ PollGivesUp \/ PollIntervalElapses
    \/ Decide \/ RetentionEnds
    \/ ListMRs \/ (\E m \in MRs : DeleteMR(m)) \/ DeleteNamespace
    \/ ListPeerJobs \/ (\E j \in Jobs : DeletePeerJob(j))
    \/ ReportGet \/ ReportCreate \/ ReportUpdate \/ CleanupExits

-----------------------------------------------------------------------------
(* Time passes while the Pod runs.  Under Prompt it passes only while the  *)
(* Pod waits, and the Pod does not oversleep.                              *)
Tick ==
    /\ CleanupRunning /\ ~CtxDone
    /\ Prompt => cpc \in Waiting /\ now < ctimer
    /\ now' = now + 1
    /\ UNCHANGED <<clusterVars, cpc, cpreserve, cretention, cdeadline, ctimer,
                   cphase, ctold, ctodo, cerrs, cstatus, csnap, cpods>>

(* The Pod dies between two steps: with its Job's deletion, or by eviction. *)
CleanupPodDies ==
    /\ CleanupRunning
    /\ IF obj[CleanupJob] # "live" THEN UNCHANGED faults ELSE Fault
    /\ CleanupPodEnds("idle")
    /\ UNCHANGED <<obj, cm, published, preserve, consent>>
=============================================================================
