------------------------------ MODULE Diagnosis ------------------------------
(***************************************************************************)
(* A drill with cmd/diagnostic-collect next to verify and cleanup.  Its    *)
(* Pod reads what there is of the drill and prints a bundle, which lives   *)
(* in the Pod's log and so as long as its Job.  Nothing orders it and the  *)
(* teardown.                                                               *)
(***************************************************************************)
EXTENDS Drill

CONSTANT Collector      \* the diagnostic-collect Job

ASSUME CollectorAssumption == Collector \in Peers

VARIABLES
    dpc,        \* what the Pod is about to read, or how it ended
    dns,        \* the PITRSession told it the restore namespace
    dbundle,    \* the managed resources and the namespace it has seen
    dfailed     \* history: some read of this Pod failed

diagVars == <<dpc, dns, dbundle, dfailed>>
diagnosisVars == <<vars, diagVars>>

CollectorRunning == dpc \in {"session", "mrs", "logs"}

DiagTypeOK ==
    /\ dpc \in {"idle", "session", "mrs", "logs", "complete", "gaveup", "unprinted"}
    /\ dns \in BOOLEAN /\ dfailed \in BOOLEAN
    /\ dbundle \subseteq MRs \cup {RestoreNs}
    /\ RestoreNs \in dbundle => dns
    /\ dpc \in {"idle", "session", "gaveup"} => dbundle = {} /\ ~dns /\ ~dfailed

DiagInit == dpc = "idle" /\ dns = FALSE /\ dbundle = {} /\ dfailed = FALSE

-----------------------------------------------------------------------------
(* Without one of its clients the Pod exits at once, with 0: its Job is    *)
(* complete, and there is no bundle.                                       *)
CollectorStarts ==
    /\ dpc = "idle" /\ obj[Collector] = "live"
    /\ dpc' \in {"session", "gaveup"}
    /\ UNCHANGED <<vars, dns, dbundle, dfailed>>

(* Any read may fail: the context may have expired, too.  The collection   *)
(* goes on with what can be had.                                           *)
ReadFails_Exit(next) == dpc' = "gaveup" /\ dfailed' = TRUE
ReadFails(next) == dpc' = next /\ dfailed' = TRUE

(* The session's status may not name the restore namespace yet.            *)
ReadSession ==
    /\ dpc = "session"
    /\ \/ dns' \in BOOLEAN /\ dpc' = "mrs" /\ UNCHANGED dfailed
       \/ dns' = FALSE /\ ReadFails("mrs")
    /\ UNCHANGED <<vars, dbundle>>

ReadMRs ==
    /\ dpc = "mrs"
    /\ \/ dbundle' = {m \in MRs : Present(m)} /\ dpc' = "logs" /\ UNCHANGED dfailed
       \/ UNCHANGED dbundle /\ ReadFails("logs")
    /\ UNCHANGED <<vars, dns>>

(* The Pods' logs: those of the drill's Jobs, and those of the restore     *)
(* namespace if it is known.  Then the bundle is printed, if it can be     *)
(* marshalled; the exit code is 0 in any case.                             *)
LogsThere == IF dns /\ Present(RestoreNs) THEN {RestoreNs} ELSE {}

ReadLogsAndEmit ==
    /\ dpc = "logs"
    /\ \E last \in {"complete", "unprinted"} :
          \/ dbundle' = dbundle \cup LogsThere /\ dpc' = last /\ UNCHANGED dfailed
          \/ dbundle' \in {dbundle, dbundle \cup LogsThere} /\ ReadFails(last)
    /\ UNCHANGED <<vars, dns>>

CollectorStep == CollectorStarts \/ ReadSession \/ ReadMRs \/ ReadLogsAndEmit

(* With its Job goes the Pod, running or not, and the log; a Pod that runs *)
(* may also be evicted, and is replaced.                                   *)
CollectorGoes ==
    /\ dpc # "idle"
    /\ IF obj[Collector] # "live" THEN UNCHANGED faults ELSE CollectorRunning /\ Fault
    /\ dpc' = "idle" /\ dns' = FALSE /\ dbundle' = {} /\ dfailed' = FALSE
    /\ UNCHANGED <<obj, cm, published, preserve, consent, verifyVars, cleanupVars>>

(* A step of the drill as it was.  The Job waits for its Pod.              *)
DrillStep ==
    /\ Next /\ UNCHANGED diagVars
    /\ obj'[Collector] = "gone" => dpc = "idle"

DiagnosisInit == Init /\ DiagInit
DiagnosisNext == DrillStep \/ CollectorStep \/ CollectorGoes
DiagnosisSpec ==
    /\ DiagnosisInit /\ [][DiagnosisNext]_diagnosisVars
    /\ WF_diagnosisVars(VerifyStep /\ UNCHANGED diagVars)
    /\ WF_diagnosisVars(CleanupStep /\ UNCHANGED diagVars)
    /\ WF_diagnosisVars(TimePasses /\ UNCHANGED diagVars)
    /\ WF_diagnosisVars(CollectorStep)

-----------------------------------------------------------------------------
(* Properties.                                                             *)

(* The post-mortem of a drill that the operator never released and that    *)
(* never succeeded: once there is a bundle it stays, and it shows all of   *)
(* the drill unless a read failed.  It is the teardown's defaults that     *)
(* keep the evidence: nothing else makes the collector come first.         *)
PostMortem ==
    [][~consent /\ "Succeeded" \notin published /\ dpc = "complete" =>
          /\ dpc' = "complete"
          /\ dns /\ ~dfailed => dbundle = MRs \cup {RestoreNs}]_diagnosisVars

(* "a single failure does not abort the rest of the collection": once a    *)
(* Pod has its clients, no read that fails, however many do, keeps it from *)
(* the end, unless its Job is deleted.  A Pod that never gets that far is  *)
(* another matter: it leaves a complete Job and no evidence.               *)
CollectionCompletes ==
    CollectorRunning ~> dpc \in {"complete", "unprinted"} \/ obj[Collector] # "live"
=============================================================================
