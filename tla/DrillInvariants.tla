-------------------------- MODULE DrillInvariants ---------------------------
(***************************************************************************)
(* Why Drill is correct: what its steps rely on and preserve.  None of the *)
(* safety properties of Drill is inductive by itself; this invariant is.   *)
(***************************************************************************)
EXTENDS Drill

Tearing == {"list", "delete", "namespace", "listjobs", "reap"}

(* What a cleanup Pod believes was once true: a preserve it read as FALSE  *)
(* was FALSE, a success it saw was published, and it is tearing down only  *)
(* on the strength of one or the other.                                    *)
ConsentInv ==
    /\ ~preserve => consent
    /\ ~cpreserve => consent
    /\ cm.phase \in published \cup {""}
    /\ cphase = "Succeeded" => "Succeeded" \in published
    /\ cpc = "retain" => cphase = "Succeeded"
    /\ cpc \in Tearing => cphase = "Succeeded" \/ ~cpreserve
    /\ PreservedDrillStays

(* A teardown without an error so far has left nothing behind it.          *)
TeardownProgress ==
    /\ ~cerrs /\ cpc = "delete" => \A m \in MRs \ ctodo : obj[m] # "live"
    /\ ~cerrs /\ cpc \in {"namespace", "listjobs", "reap"} => \A m \in MRs : obj[m] # "live"
    /\ ~cerrs /\ cpc \in {"listjobs", "reap"} => obj[RestoreNs] # "live"
    /\ ~cerrs /\ cpc = "reap" => \A j \in Jobs \ (ctodo \cup {CleanupJob}) : obj[j] # "live"
    /\ cstatus = "Completed" => TornDown

ProgressInv == TeardownProgress /\ CompletedIsClean

(* The retention is measured from when the verdict was learnt, and a       *)
(* teardown that began before it was over has no context to delete with.   *)
RetentionInv ==
    /\ cpc = "decide" => now >= ctold
    /\ cpc = "retain" => ctimer >= ctold + cretention
    /\ cpc \in Tearing /\ cphase = "Succeeded" => now >= ctold + cretention \/ CtxDone

(* A copy of the ConfigMap is as old as its version says, and a verdict    *)
(* never disappears from under a verify Pod that reported one.             *)
SnapshotInv ==
    /\ cm.rv = 0 => cm.phase = ""
    /\ csnap.rv <= cm.rv
    /\ csnap.rv = cm.rv => csnap.phase = cm.phase
    /\ Mode = "presence" /\ vpc \in {"exit0", "complete"} => cm.phase # ""

(* A Pod acts and reports on a verdict only; it skips the teardown of a    *)
(* failure it has to keep.                                                 *)
Undecided == {"idle", "readspec", "pollget", "pollwait", "complete"}
Reporting == {"reportget", "reportcreate", "reportupdate"}
ActingInv ==
    /\ cpc \in Undecided <=> cphase = ""
    /\ cpc \in Reporting => cstatus # ""
    /\ cstatus = "Skipped" => cphase = "Failed" /\ cpreserve

(* In presence mode a Pod that stores its verdict exits 0: until a fault   *)
(* strikes no Pod comes after it, because either it is still there, or its *)
(* Job is complete, or it was killed with its Job.                         *)
LastPodInv ==
    Mode = "presence" /\ Calm =>
        /\ vlive
        /\ published # {} =>
              \/ vpc \in {"exit0", "complete"}
              \/ vpc = "idle" /\ obj[VerifyJob] # "live"

(* While only the waits take time, a retention that is no longer than the  *)
(* grace period ends before the context does, and until a fault strikes    *)
(* every call of the teardown that follows is answered.                    *)
Fits == Prompt /\ ~DryRun /\ Calm /\ cretention <= Grace
OnTime ==
    /\ cpc \in {"idle", "readspec"} => now = 0
    /\ cpc \in {"pollget", "pollwait"} => cdeadline = MaxWait
    /\ cphase = "" => ~cerrs
    /\ cphase = "Succeeded" => ctold < MaxWait
    /\ cpc = "decide" => now = ctold
    /\ cpc = "retain" => ctimer = ctold + cretention
FitInv ==
    /\ Prompt => OnTime
    /\ Fits /\ cphase = "Succeeded" =>
          /\ now <= ctold + cretention
          /\ ~cerrs
          /\ cpc \in Reporting \cup {"exit"} => cstatus = "Completed"

SafetyInv ==
    /\ ConsentInv /\ ProgressInv /\ RetentionInv /\ SnapshotInv /\ ActingInv
    /\ LastPodInv /\ FitInv
=============================================================================
