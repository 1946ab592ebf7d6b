---------------------------- MODULE DrillCleanup -----------------------------
(***************************************************************************)
(* cmd/drill-cleanup as a whole: one run is in one of its modes.  Mode     *)
(* feasibility is a gate before a drill: it asks AWS how far each source   *)
(* database can be restored, one after the other, while their logs are     *)
(* shipped and databases disappear.  The other modes are OrphanSweep's.    *)
(***************************************************************************)
EXTENDS OrphanSweep, Integers

CONSTANTS
    Sources,        \* databases that --source-dbs may list
    RestoreTime,    \* --restore-time
    SafetyMargin,   \* --safety-margin, as main read it
    MaxTime         \* bound: the last instant of the model

ASSUME FeasibilityAssumption ==
    RestoreTime \in Nat \ {0} /\ SafetyMargin \in Nat /\ MaxTime \in Nat

VARIABLES
    listed,     \* what --source-dbs lists
    flagsOK,    \* main read a --restore-time that parses, and --source-dbs
    latest,     \* LatestRestorableTime of each source; 0: it has none
    result,     \* what was found out about each; "": nothing yet
    short       \* history: sources that could not be restored at the start

sources == <<listed, flagsOK, latest, result, short>>
toolVars == <<vars, sources>>

FeasibilityTypeOK ==
    /\ listed \subseteq Sources /\ flagsOK \in BOOLEAN
    /\ latest \in [Sources -> 0..MaxTime]
    /\ result \in [Sources -> {"", "OK", "FAIL", "ERROR"}]
    /\ \A db \in Sources \ listed : result[db] = ""
    /\ short \subseteq Sources
    /\ pc = "sources" => mode = "feasibility" /\ candidates = {}

Reaches(t) == t >= RestoreTime + SafetyMargin

(* The mode is dispatched before there is a Kubernetes client: this one    *)
(* needs AWS only.                                                         *)
FeasibilityInit ==
    /\ asked \in Commands /\ mode = "feasibility" /\ pc = "sources"
    /\ mr = [i \in Instances |-> "none"]
    /\ aws = [i \in Instances |-> IF Tag[i] = Untagged THEN "available" ELSE "none"]
    /\ candidates = {} /\ live = {} /\ todo = {} /\ exit = 9
    /\ swept = {} /\ orphans = {} /\ checked = FALSE /\ faults = MaxFaults
    /\ listed \in SUBSET Sources /\ flagsOK \in BOOLEAN
    /\ latest \in [Sources -> 0..MaxTime]
    /\ result = [db \in Sources |-> ""]
    /\ short = {db \in Sources : ~Reaches(latest[db])}

SweepInit ==
    /\ Init
    /\ listed = {} /\ flagsOK = TRUE /\ short = {}
    /\ latest = [db \in Sources |-> 0] /\ result = [db \in Sources |-> ""]

-----------------------------------------------------------------------------
(* checkFeasibility.                                                       *)
Exits(code) == pc' = "done" /\ exit' = code

RejectFlags ==
    /\ pc = "sources" /\ ~flagsOK
    /\ Exits(2)
    /\ UNCHANGED <<cloud, asked, candidates, live, todo, swept, orphans,
                   checked, faults, sources>>

(* One database.  The margin is for the time until the PITR call is made.  *)
Ceiling_Added(t) == t + SafetyMargin
Ceiling(t) == t - SafetyMargin
Feasible_Before(t) == RestoreTime < Ceiling(t)
Feasible(t) == RestoreTime <= Ceiling(t)

Rating(t) == IF t = 0 THEN "ERROR" ELSE IF Feasible(t) THEN "OK" ELSE "FAIL"

DescribeSource(db) ==
    /\ pc = "sources" /\ flagsOK /\ db \in listed /\ result[db] = ""
    /\ \/ result' = [result EXCEPT ![db] = Rating(latest[db])] /\ UNCHANGED faults
       \/ Fault /\ result' = [result EXCEPT ![db] = "ERROR"]
    /\ UNCHANGED <<cloud, asked, pc, candidates, live, todo, exit, swept,
                   orphans, checked, listed, flagsOK, latest, short>>

(* No result ends the loop early.                                          *)
AllDescribed == \A db \in listed : result[db] # ""
AllOK == \A db \in listed : result[db] = "OK"

Conclude ==
    /\ pc = "sources" /\ flagsOK /\ AllDescribed
    /\ Exits(IF AllOK THEN 0 ELSE 2)
    /\ UNCHANGED <<cloud, asked, candidates, live, todo, swept, orphans,
                   checked, faults, sources>>

Feasibility == RejectFlags \/ Conclude \/ \E db \in Sources : DescribeSource(db)

-----------------------------------------------------------------------------
(* AWS meanwhile ships logs, or a source loses its backups.                *)
SourceMoves(db) ==
    /\ mode = "feasibility" /\ latest[db] > 0
    /\ \/ latest[db] < MaxTime /\ latest' = [latest EXCEPT ![db] = @ + 1]
       \/ latest' = [latest EXCEPT ![db] = 0]
    /\ UNCHANGED <<vars, listed, flagsOK, result, short>>

ToolInit == SweepInit \/ FeasibilityInit
ToolNext ==
    \/ mode # "feasibility" /\ Next /\ UNCHANGED sources
    \/ Feasibility
    \/ \E db \in Sources : SourceMoves(db)
ToolSpec == ToolInit /\ [][ToolNext]_toolVars

-----------------------------------------------------------------------------
(* Properties.                                                             *)

ToolTypeOK == TypeOK /\ FeasibilityTypeOK

(* "0 - restoreTime is feasible across ALL listed sources": of a run that  *)
(* exits 0 it is true of every database at once, although they were asked  *)
(* at different times, and still true when the drill starts, unless a      *)
(* source has lost its backups by then.                                    *)
FeasibleStays ==
    mode = "feasibility" /\ exit = 0 =>
        \A db \in listed : latest[db] = 0 \/ Reaches(latest[db])

(* "2 - at least one source's LatestRestorableTime < restoreTime + safety  *)
(* margin; diagnostic identifies which DB": no database is left out of the *)
(* report, and one that FAILs was short when the run began.                *)
RefusalIsGrounded ==
    mode = "feasibility" /\ exit = 2 /\ flagsOK =>
        /\ \A db \in listed : result[db] # ""
        /\ \E db \in listed : result[db] # "OK"
        /\ \A db \in listed : result[db] = "FAIL" => db \in short
=============================================================================
