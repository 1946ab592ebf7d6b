----------------------------- MODULE SweepProofs -----------------------------
(***************************************************************************)
(* The safety of cmd/drill-cleanup, for any instances, tags, databases,    *)
(* margins and faults.                                                     *)
(***************************************************************************)
EXTENDS DrillCleanup, FiniteSetTheorems, TLAPS

(* An instance never precedes its managed resource, which AWS is read      *)
(* before, and which does not come back.                                   *)
OriginInv == \A i \in Instances :
    Tag[i] # Untagged /\ mr[i] = "none" => aws[i] = "none"
CandidateInv ==
    /\ \A i \in candidates : mr[i] # "none"
    /\ pc = "act" => \A i \in candidates : ~HasLiveMR(i) => mr[i] = "gone"

(* What a verdict of checkFeasibility rests on, and what moves under it.   *)
VerdictInv ==
    /\ \A db \in Sources : result[db] = "OK" => latest[db] = 0 \/ Reaches(latest[db])
    /\ \A db \in Sources \ short : latest[db] = 0 \/ Reaches(latest[db])
    /\ \A db \in Sources : result[db] = "FAIL" => db \in short
    /\ listed \subseteq Sources
    /\ mode = "feasibility" => pc \in {"sources", "done"}
    /\ mode = "feasibility" /\ exit = 0 => AllOK
    /\ mode = "feasibility" /\ exit = 2 /\ flagsOK => AllDescribed /\ ~AllOK

ToolInv == ToolTypeOK /\ OriginInv /\ CandidateInv /\ VerdictInv

-----------------------------------------------------------------------------
(* ToolNext, action by action.                                             *)
Swept == Describe \/ CrossCheck \/ List \/ SweepEnds
ToolStep ==
    \/ mode # "feasibility" /\ UNCHANGED sources /\
          (Swept \/ \E i \in Instances : Sweep(i) \/ CloudMoves(i))
    \/ RejectFlags \/ Conclude
    \/ \E db \in Sources : DescribeSource(db) \/ SourceMoves(db)

LEMMA ToolCases == ToolNext <=> ToolStep
BY DEF ToolNext, ToolStep, Next, Tool, Swept, Feasibility

(* The command line stays what it was, and so does what main reads of it.  *)
LEMMA CommandKept ==
    ASSUME UNCHANGED asked PROVE UNCHANGED <<mode, matching, dryRun>>
BY DEF mode, matching, dryRun, Read

LEMMA AskedKept ==
    /\ Swept \/ (\E i \in Instances : Sweep(i) \/ CloudMoves(i)) => UNCHANGED asked
    /\ RejectFlags \/ Conclude => UNCHANGED asked
    /\ \A db \in Sources : DescribeSource(db) \/ SourceMoves(db) => UNCHANGED asked
    /\ [ToolNext]_toolVars => UNCHANGED asked
<1> USE DEF Swept, Describe, CrossCheck, List, SweepEnds, Sweep, CloudMoves, RejectFlags, Conclude,
        DescribeSource, SourceMoves, vars
<1>1. Swept \/ (\E i \in Instances : Sweep(i) \/ CloudMoves(i)) => UNCHANGED asked
  OBVIOUS
<1>2. RejectFlags \/ Conclude => UNCHANGED asked
  OBVIOUS
<1>3. \A db \in Sources : DescribeSource(db) \/ SourceMoves(db) => UNCHANGED asked
  OBVIOUS
<1> HIDE DEF Swept, Sweep, CloudMoves, RejectFlags, Conclude, DescribeSource, SourceMoves
<1>4. [ToolNext]_toolVars => UNCHANGED asked
  BY <1>1, <1>2, <1>3, ToolCases DEF ToolStep, toolVars
<1> QED BY <1>1, <1>2, <1>3, <1>4

LEMMA MatchingDrills == ASSUME asked \in Commands PROVE matching \subseteq Drills
BY SweepAssumption DEF Commands, matching

LEMMA ToolInitInv == ToolInit => ToolInv
<1>1. CASE SweepInit
  <2>1. Init /\ checked \in BOOLEAN /\ flagsOK \in BOOLEAN
    BY <1>1, Zenon DEF SweepInit, Init
  <2>2. TypeOK /\ pc = "describe"
    <3>1. pc = "describe"
      BY <2>1 DEF Init, ReadOrder
    <3> QED BY <2>1, <3>1, SweepAssumption DEF Init, TypeOK
  <2>3. FeasibilityTypeOK
    <3>1. /\ listed = {} /\ short = {}
          /\ latest = [db \in Sources |-> 0] /\ result = [db \in Sources |-> ""]
      BY <1>1, Zenon DEF SweepInit
    <3>2. latest \in [Sources -> 0..MaxTime]
      <4>1. 0 \in 0..MaxTime
        BY FeasibilityAssumption
      <4> QED BY <3>1, <4>1, Zenon
    <3> QED BY <2>1, <2>2, <3>1, <3>2 DEF FeasibilityTypeOK
  <2>4. OriginInv /\ CandidateInv
    BY <1>1 DEF SweepInit, Init, OriginInv, CandidateInv
  <2>5. VerdictInv
    BY <1>1 DEF SweepInit, Init, VerdictInv
  <2> QED BY <2>2, <2>3, <2>4, <2>5 DEF ToolInv, ToolTypeOK
<1>2. CASE FeasibilityInit
  <2>0. checked \in BOOLEAN
    BY <1>2, Zenon DEF FeasibilityInit
  <2>1. TypeOK
    <3>1. mr \in [Instances -> {"none", "live", "gone"}]
      BY <1>2 DEF FeasibilityInit
    <3>2. aws \in [Instances -> {"none", "available", "deleting", "gone"}]
      BY <1>2 DEF FeasibilityInit
    <3>3. faults \in 0..MaxFaults
      <4>1. faults = MaxFaults
        BY <1>2, Zenon DEF FeasibilityInit
      <4> QED BY <4>1, SweepAssumption
    <3> QED BY <1>2, <2>0, <3>1, <3>2, <3>3 DEF FeasibilityInit, TypeOK
  <2>2. FeasibilityTypeOK
    BY <1>2, FeasibilityAssumption DEF FeasibilityInit, FeasibilityTypeOK
  <2>3. OriginInv /\ CandidateInv
    BY <1>2 DEF FeasibilityInit, OriginInv, CandidateInv
  <2>4. VerdictInv
    <3>1. \A db \in Sources : result[db] = ""
      BY <1>2 DEF FeasibilityInit
    <3>2. \A db \in Sources \ short : Reaches(latest[db])
      BY <1>2, Zenon DEF FeasibilityInit
    <3>3. pc = "sources" /\ exit = 9 /\ listed \subseteq Sources
      BY <1>2, Zenon DEF FeasibilityInit
    <3>4. exit \notin {0, 2}
      BY <3>3
    <3>5. \A db \in Sources : result[db] \notin {"OK", "FAIL"}
      BY <3>1
    <3> QED BY <3>2, <3>3, <3>4, <3>5, Zenon DEF VerdictInv
  <2> QED BY <2>1, <2>2, <2>3, <2>4 DEF ToolInv, ToolTypeOK
<1> QED BY <1>1, <1>2 DEF ToolInit

-----------------------------------------------------------------------------
(* The modes of OrphanSweep.                                               *)

LEMMA SweepTyped ==
    ASSUME TypeOK, pc # "sources",
           Swept \/ \E i \in Instances : Sweep(i) \/ CloudMoves(i)
    PROVE  TypeOK' /\ pc' # "sources"
<1>0. UNCHANGED <<mode, matching, dryRun>>
  BY AskedKept, CommandKept
<1> USE <1>0
<1> USE SweepAssumption DEF TypeOK, cloud
<1>1. CASE Describe
  <2>1. candidates' \subseteq {i \in Instances : Tag[i] \in matching}
    BY <1>1 DEF Describe, Drilled
  <2>2. (pc' = "crosscheck" /\ exit' = exit) \/ (pc' = "done" /\ exit' = 1)
    BY <1>1 DEF Describe, After, ReadOrder
  <2>3. faults' \in 0..MaxFaults
    <3>1. UNCHANGED faults \/ Fault
      BY <1>1, Zenon DEF Describe
    <3> QED BY <3>1 DEF Fault
  <2>4. orphans' \subseteq Instances
    BY <1>1 DEF Describe, Orphans
  <2> QED BY <1>1, <2>1, <2>2, <2>3, <2>4 DEF Describe
<1>2. CASE CrossCheck
  <2>1. pc' = "act" /\ live' \subseteq Drills /\ faults' \in 0..MaxFaults
    BY <1>2 DEF CrossCheck, After, ReadOrder, Fault, Unanswered
  <2>2. checked' \in BOOLEAN
    BY <1>2, Zenon DEF CrossCheck
  <2> QED BY <1>2, <2>1, <2>2 DEF CrossCheck
<1>3. CASE List
  BY <1>3 DEF List
<1>4. CASE SweepEnds
  BY <1>4 DEF SweepEnds
<1>5. ASSUME NEW i \in Instances, Sweep(i) PROVE TypeOK' /\ pc' # "sources"
  <2>1. /\ aws' \in [Instances -> {"none", "available", "deleting", "gone"}]
        /\ swept' \subseteq Instances /\ faults' \in 0..MaxFaults
    BY <1>5 DEF Sweep, DeleteAccepted, Fault
  <2> QED BY <1>5, <2>1 DEF Sweep
<1>6. ASSUME NEW i \in Instances, CloudMoves(i)
      PROVE  TypeOK' /\ pc' # "sources"
  <2>1. /\ aws' \in [Instances -> {"none", "available", "deleting", "gone"}]
        /\ mr' \in [Instances -> {"none", "live", "gone"}]
    BY <1>6 DEF CloudMoves
  <2> QED BY <1>6, <2>1 DEF CloudMoves
<1> QED BY <1>1, <1>2, <1>3, <1>4, <1>5, <1>6 DEF Swept

(* A managed resource that exists, or is gone, moves only forward.         *)
LEMMA ForwardOnly ==
    ASSUME ToolTypeOK, OriginInv, NEW i \in Instances, CloudMoves(i)
    PROVE  /\ OriginInv'
           /\ \A j \in Instances : /\ mr[j] # "none" => mr'[j] # "none"
                                   /\ mr[j] = "gone" => mr'[j] = "gone"
           /\ \A j \in Instances : mr[j] = "gone" /\ aws[j] # "available" => aws'[j] # "available"
BY DEF CloudMoves, OriginInv, ToolTypeOK, TypeOK

LEMMA SweepStep ==
    ASSUME ToolInv, mode # "feasibility", UNCHANGED sources,
           Swept \/ \E i \in Instances : Sweep(i) \/ CloudMoves(i)
    PROVE  ToolInv'
<1>0. UNCHANGED <<mode, matching, dryRun>>
  BY AskedKept, CommandKept
<1> USE <1>0
<1> USE SweepAssumption DEF ToolInv
<1>1. ToolTypeOK'
  <2>1. pc # "sources"
    BY DEF ToolTypeOK, FeasibilityTypeOK
  <2>2. TypeOK' /\ pc' # "sources"
    BY <2>1, SweepTyped DEF ToolTypeOK
  <2>3. FeasibilityTypeOK'
    BY <2>2 DEF ToolTypeOK, FeasibilityTypeOK, sources
  <2> QED BY <2>2, <2>3 DEF ToolTypeOK
<1>2. VerdictInv'
  BY <1>1 DEF sources, VerdictInv
<1>3. CASE Describe
  <2>0. matching \subseteq Drills
    BY MatchingDrills DEF ToolTypeOK, TypeOK
  <2>1. \A i \in candidates' : mr[i] # "none"
    <3>1. \A i \in candidates' : i \in candidates \/ (i \in Instances /\ Tag[i] \in matching
                                     /\ aws[i] \in {"available", "deleting"})
      BY <1>3, Zenon DEF Describe, Drilled
    <3> QED BY <2>0, <3>1 DEF OriginInv, CandidateInv
  <2> QED BY <1>1, <1>2, <1>3, <2>1 DEF Describe, cloud, OriginInv, CandidateInv, After, ReadOrder
<1>4. CASE CrossCheck
  <2>1. \A i \in candidates : Tag[i] \notin live' => mr[i] = "gone"
    BY <1>4, MatchingDrills DEF CrossCheck, Unanswered, HasMR, Of, CandidateInv, ToolTypeOK, TypeOK
  <2> QED BY <1>1, <1>2, <1>4, <2>1 DEF CrossCheck, cloud, OriginInv, CandidateInv, HasLiveMR
<1>5. CASE List \/ SweepEnds
  BY <1>1, <1>2, <1>5 DEF List, SweepEnds, cloud, OriginInv, CandidateInv
<1>6. ASSUME NEW i \in Instances, Sweep(i) PROVE ToolInv'
  <2>1. \A j \in Instances : aws[j] = "none" => aws'[j] = "none"
    BY <1>6 DEF Sweep, DeleteAccepted, ToolTypeOK, TypeOK
  <2> QED BY <1>1, <1>2, <1>6, <2>1 DEF Sweep, OriginInv, CandidateInv, HasLiveMR
<1>7. ASSUME NEW i \in Instances, CloudMoves(i) PROVE ToolInv'
  <2>1. CandidateInv'
    BY <1>7, ForwardOnly DEF CloudMoves, CandidateInv, HasLiveMR, ToolTypeOK, TypeOK
  <2> QED BY <1>1, <1>2, <1>7, <2>1, ForwardOnly
<1> QED BY <1>3, <1>4, <1>5, <1>6, <1>7 DEF Swept

-----------------------------------------------------------------------------
(* Mode feasibility.                                                       *)

LEMMA RatingRight ==
    ASSUME NEW t \in 0..MaxTime
    PROVE  /\ Rating(t) \in {"OK", "FAIL", "ERROR"}
           /\ Rating(t) = "OK" => Reaches(t)
           /\ Rating(t) = "FAIL" => t # 0 /\ ~Reaches(t)
BY FeasibilityAssumption DEF Rating, Feasible, Ceiling, Reaches

LEMMA FeasibilityStep ==
    ASSUME ToolInv,
           RejectFlags \/ Conclude \/ \E db \in Sources : DescribeSource(db) \/ SourceMoves(db)
    PROVE  ToolInv'
<1>0. UNCHANGED <<mode, matching, dryRun>>
  BY AskedKept, CommandKept
<1> USE <1>0
<1> USE DEF ToolInv
<1>1. CASE RejectFlags \/ Conclude
  <2>1. /\ pc = "sources" /\ pc' = "done"
        /\ exit' \in {0, 2} /\ (exit' = 0 => AllOK)
        /\ exit' = 2 /\ flagsOK => AllDescribed /\ ~AllOK
        /\ UNCHANGED <<cloud, asked, candidates, live, todo, swept, orphans, checked,
                       faults, sources>>
    BY <1>1 DEF RejectFlags, Conclude, Exits
  <2>2. TypeOK'
    BY <2>1 DEF ToolTypeOK, TypeOK, cloud
  <2>3. FeasibilityTypeOK'
    BY <2>1 DEF ToolTypeOK, FeasibilityTypeOK, sources
  <2>4. VerdictInv'
    BY <2>1 DEF sources, VerdictInv, AllOK, AllDescribed
  <2> QED BY <2>1, <2>2, <2>3, <2>4 DEF ToolTypeOK, cloud, OriginInv, CandidateInv
<1>2. ASSUME NEW db \in Sources, DescribeSource(db) PROVE ToolInv'
  <2>1. /\ pc = "sources" /\ db \in listed
        /\ UNCHANGED <<cloud, asked, pc, candidates, live, todo, exit, swept, orphans,
                       checked, listed, flagsOK, latest, short>>
    BY <1>2 DEF DescribeSource
  <2>2. PICK r : /\ result' = [result EXCEPT ![db] = r] /\ r \in {"OK", "FAIL", "ERROR"}
                 /\ r = "OK" => Reaches(latest[db])
                 /\ r = "FAIL" => latest[db] # 0 /\ ~Reaches(latest[db])
    <3>1. latest[db] \in 0..MaxTime
      BY DEF ToolTypeOK, FeasibilityTypeOK
    <3> QED BY <1>2, <3>1, RatingRight DEF DescribeSource
  <2>3. TypeOK'
    <3>1. faults' \in 0..MaxFaults
      <4>1. UNCHANGED faults \/ Fault
        BY <1>2, Zenon DEF DescribeSource
      <4> QED BY <4>1, SweepAssumption DEF Fault, ToolTypeOK, TypeOK
    <3> QED BY <2>1, <3>1 DEF ToolTypeOK, TypeOK, cloud
  <2>4. FeasibilityTypeOK'
    BY <2>1, <2>2 DEF ToolTypeOK, FeasibilityTypeOK
  <2>5. VerdictInv'
    <3>1. result \in [Sources -> {"", "OK", "FAIL", "ERROR"}]
      BY DEF ToolTypeOK, FeasibilityTypeOK
    <3>2. exit = 9
      BY <2>1 DEF ToolTypeOK, TypeOK
    <3>3. \A d \in Sources : \/ result'[d] = result[d]
                             \/ result'[d] = "OK" /\ Reaches(latest[d])
                             \/ result'[d] = "FAIL" /\ latest[d] # 0 /\ ~Reaches(latest[d])
                             \/ result'[d] = "ERROR"
      BY <2>2, <3>1
    <3> QED BY <2>1, <3>2, <3>3 DEF VerdictInv
  <2> QED BY <2>1, <2>3, <2>4, <2>5 DEF ToolTypeOK, cloud, OriginInv, CandidateInv, HasLiveMR
<1>3. ASSUME NEW db \in Sources, SourceMoves(db) PROVE ToolInv'
  <2>1. /\ \/ latest[db] < MaxTime /\ latest' = [latest EXCEPT ![db] = @ + 1]
           \/ latest' = [latest EXCEPT ![db] = 0]
        /\ UNCHANGED <<vars, listed, flagsOK, result, short>>
    BY <1>3 DEF SourceMoves
  <2>2. latest \in [Sources -> 0..MaxTime] /\ MaxTime \in Nat
    BY FeasibilityAssumption DEF ToolTypeOK, FeasibilityTypeOK
  <2>3. latest' \in [Sources -> 0..MaxTime]
    BY <2>1, <2>2
  <2>4. \A d \in Sources : \/ latest'[d] = latest[d]
                           \/ latest'[d] = 0
                           \/ latest[d] # 0 /\ latest'[d] = latest[d] + 1
    BY <1>3, <2>2 DEF SourceMoves
  <2>5. \A d \in Sources : latest[d] = 0 \/ Reaches(latest[d])
                              => latest'[d] = 0 \/ Reaches(latest'[d])
    BY <2>2, <2>3, <2>4, FeasibilityAssumption DEF Reaches
  <2>6. TypeOK'
    BY <2>1 DEF ToolTypeOK, TypeOK, vars, cloud
  <2>7. FeasibilityTypeOK'
    BY <2>1, <2>3 DEF ToolTypeOK, FeasibilityTypeOK, vars
  <2>8. VerdictInv'
    BY <2>1, <2>5 DEF VerdictInv, AllOK, AllDescribed, vars
  <2> QED BY <2>1, <2>6, <2>7, <2>8 DEF ToolTypeOK, vars, cloud, OriginInv, CandidateInv, HasLiveMR
<1> QED BY <1>1, <1>2, <1>3

-----------------------------------------------------------------------------
(* The theorems.                                                           *)

LEMMA ToolUnchanged == ASSUME ToolInv, UNCHANGED toolVars PROVE ToolInv'
<1>0. UNCHANGED <<mode, matching, dryRun>>
  BY AskedKept, CommandKept
<1> USE <1>0 DEF toolVars, vars, sources, cloud
<1>1. TypeOK'
  BY DEF ToolInv, ToolTypeOK, TypeOK
<1>2. FeasibilityTypeOK'
  BY DEF ToolInv, ToolTypeOK, FeasibilityTypeOK
<1>3. OriginInv' /\ CandidateInv'
  BY DEF ToolInv, OriginInv, CandidateInv, HasLiveMR
<1>4. VerdictInv'
  BY DEF ToolInv, VerdictInv, AllOK, AllDescribed
<1> QED BY <1>1, <1>2, <1>3, <1>4 DEF ToolInv, ToolTypeOK

(* The type invariant of the whole tool, with what the rest follows from.  *)
THEOREM ToolCorrect == ToolSpec => []ToolInv
<1>1. ToolInv /\ [ToolNext]_toolVars => ToolInv'
  BY ToolUnchanged, ToolCases, SweepStep, FeasibilityStep DEF ToolStep
<1> QED BY ToolInitInv, <1>1, PTL DEF ToolSpec

(* The types of the whole tool, in all its modes.                          *)
THEOREM ToolTyped == ToolSpec => []ToolTypeOK
<1>1. ToolInv => ToolTypeOK
  BY DEF ToolInv
<1> QED BY ToolCorrect, <1>1, PTL

(* For any restore time and margin: a restore time called feasible stays   *)
(* so for every database, while logs go on being shipped.                  *)
THEOREM FeasibilitySound == ToolSpec => []FeasibleStays
<1>1. ToolInv => FeasibleStays
  BY DEF ToolInv, VerdictInv, FeasibleStays, AllOK, AllDescribed
<1> QED BY ToolCorrect, <1>1, PTL

(* For any restore time and margin: a refusal has its reason.              *)
THEOREM RefusalSound == ToolSpec => []RefusalIsGrounded
<1>1. ToolInv => RefusalIsGrounded
  BY DEF ToolInv, VerdictInv, RefusalIsGrounded, AllOK, AllDescribed
<1> QED BY ToolCorrect, <1>1, PTL

(* Whatever drills start and end meanwhile, and whatever fails: what a     *)
(* clean deletes is a drill's, without a managed resource, and not what a  *)
(* flag before the mode word would have spared.                            *)
THEOREM OnlyOrphansSwept == ToolSpec => SweptWasOrphan
<1> DEFINE Asked(i) == /\ asked.mode = "clean" /\ mr[i] # "live" /\ Tag[i] # Untagged
                       /\ asked.dryRun => "dryRun" \in asked.late
                       /\ Tag[i] \in asked.matching \/ "matching" \in asked.late
<1>1. ToolInv /\ [ToolNext]_toolVars => [\A i \in swept' \ swept : Asked(i)]_vars
  <2> SUFFICES ASSUME ToolInv, [ToolNext]_toolVars, NEW j \in swept' \ swept PROVE Asked(j)
    OBVIOUS
  <2>0. asked \in Commands
    BY DEF ToolInv, ToolTypeOK, TypeOK
  <2>1. PICK i \in Instances : Sweep(i)
    BY ToolCases DEF ToolStep, Swept, Describe, CrossCheck, List, SweepEnds, CloudMoves, RejectFlags,
       Conclude, DescribeSource, SourceMoves, toolVars, vars
  <2>2. j = i /\ ~Skip(i) /\ i \in candidates /\ pc = "act" /\ mode # "list"
    BY <2>1 DEF Sweep, DeleteAccepted, ToolInv, ToolTypeOK, TypeOK
  <2>3. asked.mode = "clean"
    BY <2>0, <2>2 DEF ToolInv, VerdictInv, Commands, mode
  <2>4. mr[j] # "live"
    BY <2>2 DEF Skip, ToolInv, CandidateInv
  <2>5. Tag[j] \in matching /\ Tag[j] # Untagged
    BY <2>0, <2>2, MatchingDrills, SweepAssumption DEF ToolInv, ToolTypeOK, TypeOK
  <2>6. asked.dryRun => "dryRun" \in asked.late
    BY <2>2 DEF Skip, dryRun, Read
  <2>7. Tag[j] \in asked.matching \/ "matching" \in asked.late
    BY <2>5 DEF matching, Read
  <2> QED BY <2>3, <2>4, <2>5, <2>6, <2>7
<1> QED BY ToolCorrect, <1>1, PTL DEF ToolSpec, SweptWasOrphan

-----------------------------------------------------------------------------
(* That no orphan is missed, when one page holds every instance.           *)

OnePage == IsFiniteSet(Instances) /\ PageSize >= Cardinality(Instances)

(* What was orphaned before the reads began is among the candidates, does  *)
(* not count as live, and is dealt with.                                   *)
FoundInv ==
    /\ exit # 1 => orphans \subseteq candidates
    /\ \A i \in orphans : mr[i] = "gone"
    /\ pc = "crosscheck" => todo = candidates
    /\ pc \in {"describe", "crosscheck"} => ~checked
    /\ checked => \A i \in orphans : ~HasLiveMR(i)
    /\ pc = "act" /\ faults = MaxFaults => checked
    /\ pc = "act" /\ faults = MaxFaults /\ mode = "clean" /\ ~dryRun =>
          \A i \in orphans : aws[i] # "available" \/ i \in todo

MissInv == FoundInv /\ OrphansSwept /\ ZeroMeansNone

LEMMA WholePage ==
    ASSUME OnePage, NEW S \in SUBSET Instances, NEW page \in SUBSET S,
           Cardinality(page) = IF Cardinality(S) < PageSize THEN Cardinality(S) ELSE PageSize
    PROVE  page = S
<1>1. IsFiniteSet(S) /\ IsFiniteSet(page)
  BY FS_Subset DEF OnePage
<1>2. Cardinality(S) <= Cardinality(Instances) /\ Cardinality(S) \in Nat
      /\ Cardinality(Instances) \in Nat
  BY <1>1, FS_Subset, FS_CardinalityType DEF OnePage
<1>3. Cardinality(page) = Cardinality(S)
  BY <1>2, SweepAssumption DEF OnePage
<1> QED BY <1>1, <1>3, FS_Subset

LEMMA MissInit == ToolInit => MissInv
<1>1. ASSUME ToolInit PROVE orphans = {} /\ exit = 9 /\ pc \in {"describe", "sources"} /\ ~checked
  BY <1>1, Zenon DEF ToolInit, SweepInit, Init, FeasibilityInit, ReadOrder
<1> QED BY <1>1 DEF MissInv, FoundInv, OrphansSwept, ZeroMeansNone

LEMMA FaultsShrink ==
    ASSUME ToolTypeOK, UNCHANGED faults \/ Fault PROVE faults' = MaxFaults => UNCHANGED faults
BY SweepAssumption DEF ToolTypeOK, TypeOK, Fault

LEMMA MissStep ==
    ASSUME OnePage, ToolInv, MissInv, [ToolNext]_toolVars PROVE MissInv'
<1>0. matching \subseteq Drills /\ UNCHANGED <<mode, matching, dryRun>>
  BY MatchingDrills, AskedKept, CommandKept DEF ToolInv, ToolTypeOK, TypeOK
<1> USE <1>0 DEF MissInv
<1>1. CASE UNCHANGED toolVars
  BY <1>1 DEF toolVars, vars, cloud, FoundInv, OrphansSwept, ZeroMeansNone, HasLiveMR
<1>2. CASE Describe
  <2>1. exit' # 1 => orphans' \subseteq candidates'
    <3>1. ASSUME exit' # 1 PROVE candidates' = {i \in Instances : Tag[i] \in matching
                                    /\ aws[i] \in {"available", "deleting"}}
      <4> DEFINE S == {i \in Instances : aws[i] \in {"available", "deleting"}}
      <4>1. PICK page \in SUBSET S :
               /\ Cardinality(page) = IF Cardinality(S) < PageSize THEN Cardinality(S) ELSE PageSize
               /\ candidates' = Drilled(page)
        BY <1>2, <3>1, Zenon DEF Describe
      <4>2. page = S
        BY <4>1, WholePage
      <4> QED BY <4>1, <4>2 DEF Drilled
    <3> QED BY <1>2, <3>1 DEF Describe, Orphans
  <2>2. orphans' = Orphans /\ todo' = candidates' /\ pc' \in {"crosscheck", "done"} /\ mr' = mr
        /\ checked' = checked /\ exit' \in {exit, 1} /\ pc = "describe"
    BY <1>2, Zenon DEF Describe, After, ReadOrder, cloud
  <2>3. \A i \in Orphans : mr[i] = "gone"
    BY <1>0, SweepAssumption DEF Orphans, HasMR, Of, ToolInv, ToolTypeOK, TypeOK, OriginInv
  <2>4. exit = 9
    BY <2>2 DEF ToolInv, ToolTypeOK, TypeOK
  <2>5. ~checked
    BY <2>2 DEF FoundInv
  <2>6. exit' # 0
    BY <2>2, <2>4
  <2>7. FoundInv'
    BY <2>1, <2>2, <2>3, <2>5 DEF FoundInv
  <2> QED BY <2>6, <2>7 DEF OrphansSwept, ZeroMeansNone
<1>3. CASE CrossCheck
  <2>1. /\ pc = "crosscheck" /\ pc' = "act" /\ orphans' = orphans \cap Orphans
        /\ UNCHANGED <<cloud, asked, candidates, todo, exit, swept>>
    BY <1>3, Zenon DEF CrossCheck, After, ReadOrder
  <2>2. \/ live' = {d \in Drills : HasMR(d)} /\ checked' = TRUE /\ UNCHANGED faults
        \/ live' = Drills /\ checked' = checked /\ Fault
    BY <1>3, Zenon DEF CrossCheck, Unanswered
  <2>3. exit = 9
    BY <2>1 DEF ToolInv, ToolTypeOK, TypeOK
  <2>4. \A i \in orphans' : mr[i] = "gone" /\ i \in candidates /\ ~HasMR(Tag[i])
    BY <2>1, <2>3 DEF FoundInv, Orphans
  <2>5. ~checked
    BY <2>1 DEF FoundInv
  <2>6. checked' => \A i \in orphans' : Tag[i] \notin live'
    BY <2>2, <2>4, <2>5
  <2>7. faults' = MaxFaults => checked'
    <3>1. Fault => faults' # MaxFaults
      BY SweepAssumption DEF Fault, ToolInv, ToolTypeOK, TypeOK
    <3> QED BY <2>2, <3>1
  <2>8. FoundInv'
    BY <2>1, <2>4, <2>6, <2>7 DEF FoundInv, HasLiveMR, cloud
  <2>9. exit' # 0
    BY <2>1, <2>3
  <2> QED BY <2>8, <2>9 DEF OrphansSwept, ZeroMeansNone
<1>4. CASE List
  <2>1. /\ pc = "act" /\ mode = "list" /\ pc' = "done" /\ exit' \in {0, 2}
        /\ exit' = 0 => \A i \in candidates : HasLiveMR(i)
        /\ UNCHANGED <<cloud, asked, candidates, live, todo, swept, orphans, checked, faults>>
    BY <1>4 DEF List
  <2>2. exit = 9
    BY <2>1 DEF ToolInv, ToolTypeOK, TypeOK
  <2>3. orphans \subseteq candidates
    BY <2>2 DEF FoundInv
  <2>4. FoundInv'
    BY <2>1, <2>3 DEF FoundInv, HasLiveMR, cloud
  <2>5. exit' = 0 /\ checked => orphans = {}
    BY <2>1, <2>3 DEF FoundInv
  <2> QED BY <2>1, <2>4, <2>5 DEF OrphansSwept, ZeroMeansNone
<1>5. CASE SweepEnds
  <2>1. /\ pc = "act" /\ mode # "list" /\ todo = {} /\ pc' = "done" /\ exit' = 0
        /\ UNCHANGED <<cloud, asked, candidates, live, todo, swept, orphans, checked, faults>>
    BY <1>5 DEF SweepEnds
  <2>2. exit = 9
    BY <2>1 DEF ToolInv, ToolTypeOK, TypeOK
  <2>3. orphans \subseteq candidates
    BY <2>2 DEF FoundInv
  <2>4. FoundInv'
    BY <2>1, <2>3 DEF FoundInv, HasLiveMR, cloud
  <2>5. OrphansSwept'
    BY <2>1, Zenon DEF FoundInv, OrphansSwept, cloud
  <2> QED BY <2>1, <2>4, <2>5 DEF ZeroMeansNone
<1>6. ASSUME NEW i \in Instances, Sweep(i) PROVE MissInv'
  <2>1. /\ pc = "act" /\ i \in todo /\ todo' = todo \ {i}
        /\ UNCHANGED <<mr, asked, pc, candidates, live, exit, orphans, checked>>
    BY <1>6, Zenon DEF Sweep
  <2>2. faults' = faults \/ Fault
    BY <1>6, Zenon DEF Sweep
  <2>3. exit = 9
    BY <2>1 DEF ToolInv, ToolTypeOK, TypeOK
  <2>4. faults' = MaxFaults => faults = MaxFaults /\ ~Fault
    BY <2>2, SweepAssumption DEF Fault, ToolInv, ToolTypeOK, TypeOK
  <2>5. \A j \in Instances : aws[j] # "available" => aws'[j] # "available"
    BY <1>6 DEF Sweep, DeleteAccepted, ToolInv, ToolTypeOK, TypeOK
  <2>6. ~Skip(i) /\ ~Fault => aws'[i] # "available"
    BY <1>6 DEF Sweep, DeleteAccepted, ToolInv, ToolTypeOK, TypeOK
  <2>7. orphans \subseteq Instances /\ orphans \subseteq candidates
    BY <2>3 DEF FoundInv, ToolInv, ToolTypeOK, TypeOK
  <2>8. faults' = MaxFaults /\ mode = "clean" /\ ~dryRun =>
           \A j \in orphans : aws'[j] # "available" \/ j \in todo'
    BY <2>1, <2>4, <2>5, <2>6, <2>7 DEF FoundInv, Skip
  <2>9. FoundInv'
    BY <2>1, <2>4, <2>7, <2>8 DEF FoundInv, HasLiveMR
  <2>10. exit' # 0
    BY <2>1, <2>3
  <2> QED BY <2>9, <2>10 DEF OrphansSwept, ZeroMeansNone
<1>7. ASSUME NEW i \in Instances, CloudMoves(i) PROVE MissInv'
  <2>1. UNCHANGED <<asked, pc, candidates, live, todo, exit, swept, orphans, checked, faults>>
    BY <1>7, Zenon DEF CloudMoves
  <2>2. \A j \in Instances : mr[j] = "gone" => /\ mr'[j] = "gone"
                                               /\ aws[j] # "available" => aws'[j] # "available"
    BY <1>7, ForwardOnly DEF ToolInv
  <2>3. orphans \subseteq Instances /\ \A j \in orphans : mr[j] = "gone"
    BY DEF FoundInv, ToolInv, ToolTypeOK, TypeOK
  <2>4. FoundInv'
    BY <2>1, <2>2, <2>3 DEF FoundInv, HasLiveMR
  <2>5. OrphansSwept'
    BY <2>1, <2>2, <2>3 DEF OrphansSwept
  <2> QED BY <2>1, <2>4, <2>5 DEF ZeroMeansNone
<1>8. CASE RejectFlags \/ Conclude
  <2>1. /\ pc = "sources" /\ pc' = "done"
        /\ UNCHANGED <<cloud, asked, candidates, live, todo, orphans, checked, faults>>
    BY <1>8, Zenon DEF RejectFlags, Conclude, Exits
  <2>2. mode = "feasibility" /\ exit = 9
    BY <2>1 DEF ToolInv, ToolTypeOK, TypeOK, FeasibilityTypeOK
  <2>3. orphans \subseteq candidates
    BY <2>2 DEF FoundInv
  <2> QED BY <2>1, <2>2, <2>3 DEF FoundInv, HasLiveMR, OrphansSwept, ZeroMeansNone, cloud
<1>9. ASSUME NEW db \in Sources, DescribeSource(db) PROVE MissInv'
  <2>1. /\ pc = "sources"
        /\ UNCHANGED <<cloud, asked, pc, candidates, live, todo, exit, orphans, checked>>
    BY <1>9, Zenon DEF DescribeSource
  <2>2. mode = "feasibility"
    BY <2>1 DEF ToolInv, ToolTypeOK, FeasibilityTypeOK
  <2> QED BY <2>1, <2>2 DEF FoundInv, HasLiveMR, OrphansSwept, ZeroMeansNone, cloud
<1>10. ASSUME NEW db \in Sources, SourceMoves(db) PROVE MissInv'
  BY <1>10 DEF SourceMoves, vars, cloud, FoundInv, HasLiveMR, OrphansSwept, ZeroMeansNone
<1> QED BY <1>1, <1>2, <1>3, <1>4, <1>5, <1>6, <1>7, <1>8, <1>9, <1>10, ToolCases DEF ToolStep, Swept

LEMMA NothingMissed == ASSUME OnePage PROVE ToolSpec => [](OrphansSwept /\ ZeroMeansNone)
<1>1. ToolInv /\ MissInv /\ [ToolNext]_toolVars => MissInv'
  BY MissStep
<1>2. MissInv => OrphansSwept /\ ZeroMeansNone
  BY DEF MissInv
<1> QED BY MissInit, ToolCorrect, <1>1, <1>2, PTL DEF ToolSpec

(* In an account whose instances fit on one page: a clean without failed   *)
(* calls leaves no orphan of before it began, however the cloud moved.     *)
THEOREM NoOrphanMissed == ASSUME OnePage PROVE ToolSpec => []OrphansSwept
BY NothingMissed, PTL

(* In such an account a list whose two reads were answered does not exit 0 *)
(* over an orphan.                                                         *)
THEOREM ZeroIsTrue == ASSUME OnePage PROVE ToolSpec => []ZeroMeansNone
BY NothingMissed, PTL
=============================================================================
