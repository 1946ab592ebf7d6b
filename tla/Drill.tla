-------------------------------- MODULE Drill --------------------------------
(***************************************************************************)
(* One drill: the verify Job and the cleanup Job run side by side against  *)
(* one API server, in an order nobody fixes.                               *)
(***************************************************************************)
EXTENDS Verify, Cleanup

vars == <<clusterVars, verifyVars, cleanupVars>>

Init == ClusterInit /\ VerifyInit /\ CleanupInit

(* A deleted object goes away once its finalizers have run; a Job, deleted *)
(* in the foreground, once its Pod has ended.                              *)
Finalise(o) ==
    /\ obj[o] = "deleting"
    /\ o = VerifyJob => ~VerifyRunning
    /\ o = CleanupJob => ~CleanupRunning
    /\ obj' = [obj EXCEPT ![o] = "gone"]
    /\ UNCHANGED <<cm, published, preserve, consent, faults, verifyVars, cleanupVars>>

VerifyStep == VerifyNext /\ UNCHANGED cleanupVars
CleanupStep == CleanupNext /\ UNCHANGED verifyVars
TimePasses == Tick /\ UNCHANGED verifyVars
Environment ==
    \/ OperatorEditsPreserve /\ UNCHANGED <<verifyVars, cleanupVars>>
    \/ \E o \in Objects : Finalise(o)
    \/ VerifyContextExpires /\ UNCHANGED cleanupVars
    \/ VerifyPodDies /\ UNCHANGED cleanupVars
    \/ CleanupPodDies /\ UNCHANGED verifyVars

Next == VerifyStep \/ CleanupStep \/ TimePasses \/ Environment

Spec == Init /\ [][Next]_vars

(* The Pods run and time passes; nothing is assumed of the operator or of  *)
(* when a fault strikes.                                                   *)
Fairness == WF_vars(VerifyStep) /\ WF_vars(CleanupStep) /\ WF_vars(TimePasses)
FairSpec == Spec /\ Fairness

TypeOK == ClusterTypeOK /\ VerifyTypeOK /\ CleanupTypeOK

-----------------------------------------------------------------------------
(* Safety.                                                                 *)

Untouched == \A o \in Objects : obj[o] = "live"
TornDown == \A o \in Objects \ {CleanupJob} : obj[o] # "live"
Deletes == \E o \in Objects : obj[o] = "live" /\ obj'[o] # "live"

(* A drill that the operator never released (preserve was TRUE throughout) *)
(* and that no verify Pod ever called a success loses nothing, whichever   *)
(* calls fail and however often either Pod is restarted: the defaults of   *)
(* cmd/cleanup for an unreadable spec and a missing verdict are both safe. *)
PreservedDrillStays == ~consent /\ "Succeeded" \notin published => Untouched

(* An outcome "Completed" on record means that every resource of the drill *)
(* has been deleted, also when several cleanup Pods took part in it.       *)
CompletedIsClean == cm.cleanup = "Completed" => TornDown

(* cmd/cleanup merges its outcome into a ConfigMap that verify Pods write  *)
(* concurrently: it never changes or drops the verdict that is there.      *)
VerdictIsVerifys == [][cm'.phase # cm.phase => vpc \in {"create", "update"}]_vars

(* In presence mode a verify Job is complete only when a verdict is stored *)
(* and it stays stored ("did the report happen"), across retries.          *)
CompleteMeansReported == Mode = "presence" /\ vpc = "complete" => cm.phase # ""

(* Nothing of a successful drill is deleted before retentionAfterSuccess   *)
(* has passed since cmd/cleanup learnt of the success.                     *)
RetentionHonoured ==
    [][Deletes /\ cphase = "Succeeded" => now >= ctold + cretention]_vars

(* A dry run deletes nothing, whatever was decided.                        *)
DryRunTouchesNothing == DryRun => Untouched

(* No fault has struck yet.                                                *)
Calm == faults = MaxFaults

(* Until a fault strikes, no verify Pod is spawned once a verdict has been *)
(* stored ("exit 0 to prevent retry-spawn after cleanup teardown").        *)
NoRespawnAfterVerdict ==
    [][Mode = "presence" /\ Calm /\ vpods' # vpods => published = {}]_vars

(* Until then, a stored verdict is not replaced by another one either.     *)
VerdictIsFinal ==
    [][Mode = "presence" /\ Calm /\ cm.phase # "" => cm'.phase = cm.phase]_vars

(* Drill implements TeardownPolicy.                                        *)
Policy == INSTANCE TeardownPolicy WITH
    Resources <- Objects, Everything <- Objects \ {CleanupJob},
    verdict <- cphase, keep <- cpreserve,
    due <- cphase = "Succeeded" /\ now >= ctold + cretention,
    torn <- {o \in Objects : obj[o] # "live"}, outcome <- cm.cleanup
PolicyImplemented == Policy!Spec

-----------------------------------------------------------------------------
(* Liveness.                                                               *)

(* The poll loop has a hard ceiling: a cleanup Pod always comes to an end. *)
NeverHangs == CleanupRunning ~> ~CleanupRunning

(* While the API answers and only waiting takes time, the cleanup Job      *)
(* completes: it does not fall to its own reaping of the drill's Jobs.     *)
CleanupCompletes == <>(cpc = "complete")

(* Under the same conditions a drill that is to be torn down is, as long   *)
(* as the retention fits into the grace period: the context then outlives  *)
(* the poll loop and the retention together.                               *)
ToBeTornDown == cphase = "Succeeded" \/ (cphase = "Failed" /\ ~cpreserve)
TeardownHappens == ToBeTornDown ~> TornDown

-----------------------------------------------------------------------------
(* What comments in the source say and the code does not do.               *)

(* "downstream observers ... read the deterministic outcome": an outcome   *)
(* on record stays on record.                                              *)
OutcomeStays == [][cm.cleanup # "" => cm'.cleanup # ""]_vars

(* "context canceled during retention sleep - proceeding with teardown     *)
(* immediately": the teardown that follows takes place.                    *)
TeardownAfterRetention ==
    [][cpc = "exit" /\ cpc' # cpc /\ cphase = "Succeeded" => TornDown]_vars
=============================================================================
