----------------------------- MODULE OrphanSweep -----------------------------
(***************************************************************************)
(* cmd/drill-cleanup, modes list and clean: the operator's tool that looks *)
(* for RDS instances which outlived their Crossplane managed resource.  It *)
(* reads AWS, then Kubernetes, then deletes in AWS, while drills come and  *)
(* go.  Nothing makes the three consistent but their order.  Its third     *)
(* mode is in DrillCleanup.                                                *)
(***************************************************************************)
EXTENDS Naturals, FiniteSets

CONSTANTS
    Drills,
    Instances,      \* RDS instances of the account, each with its MR if a drill's
    Tag,            \* instance -> the drill whose pitr-correlation-id it carries
    Untagged,       \* ... or this
    Filters,        \* the sets of drills that a --correlation-id may select
    PageSize,       \* how many instances one DescribeDBInstances returns
    MaxFaults       \* bound: calls that fail

ASSUME SweepAssumption ==
    /\ Untagged \notin Drills /\ Filters \subseteq SUBSET Drills
    /\ Tag \in [Instances -> Drills \cup {Untagged}]
    /\ PageSize \in Nat /\ MaxFaults \in Nat

VARIABLES
    mr,         \* the managed resource of each instance
    aws,        \* the instance itself; "deleting" from when that is accepted
    asked,      \* the command line: one of Commands
    pc,         \* the read to come, then "act", "done"
    candidates, \* instances of matching drills that AWS listed
    live,       \* drills with an MR, as Kubernetes listed them
    todo,       \* candidates not dealt with yet
    exit,       \* exit code; 9: none yet
    swept,      \* history: what this run has had deleted
    orphans,    \* history: orphaned since before the first read
    checked,    \* history: the cross-check was answered
    faults      \* what is left of MaxFaults

cloud == <<mr, aws>>
vars == <<mr, aws, asked, pc, candidates, live, todo, exit, swept, orphans, checked, faults>>

(* A mode word, with flags before it and after it.                         *)
Flags == {"dryRun", "matching"}
Commands == {c \in [mode : {"list", "clean", "feasibility"},
                    dryRun : BOOLEAN,       \* --dry-run is there
                    matching : Filters,     \* drills that --correlation-id selects
                    late : SUBSET Flags] :  \* flags that come after the mode word
                 /\ "dryRun" \in c.late => c.dryRun
                 /\ "matching" \in c.late => c.matching # Drills}

(* What main knows of it: flag.Parse stops at the first word that is no    *)
(* flag, the mode, and a flag it does not get to keeps its default.        *)
Read(flag) == flag \notin asked.late
mode == asked.mode
dryRun == Read("dryRun") /\ asked.dryRun
matching == IF Read("matching") THEN asked.matching ELSE Drills

TypeOK ==
    /\ mr \in [Instances -> {"none", "live", "gone"}]
    /\ aws \in [Instances -> {"none", "available", "deleting", "gone"}]
    /\ asked \in Commands
    /\ pc \in {"describe", "crosscheck", "act", "sources", "done"}
    /\ candidates \subseteq {i \in Instances : Tag[i] \in matching} /\ todo \subseteq candidates
    /\ live \subseteq Drills
    /\ exit \in {0, 1, 2, 9} /\ (exit = 9 <=> pc # "done")
    /\ swept \subseteq Instances /\ orphans \subseteq Instances
    /\ checked \in BOOLEAN /\ faults \in 0..MaxFaults

Of(drill) == {i \in Instances : Tag[i] = drill}
HasMR(drill) == \E i \in Of(drill) : mr[i] = "live"
Orphans == {i \in Instances : Tag[i] \in matching /\ aws[i] = "available" /\ ~HasMR(Tag[i])}

(* The order of the two reads.                                             *)
ReadOrder_KubernetesFirst == <<"crosscheck", "describe">>
ReadOrder == <<"describe", "crosscheck">>
After(read) == IF read = ReadOrder[1] THEN ReadOrder[2] ELSE "act"

(* The state a run finds: an instance may be there only if its MR was.     *)
Init ==
    /\ mr \in [Instances -> {"none", "live", "gone"}]
    /\ aws \in [Instances -> {"none", "available", "deleting", "gone"}]
    /\ \A i \in Instances :
          IF Tag[i] = Untagged THEN mr[i] = "none" /\ aws[i] = "available"
          ELSE mr[i] = "none" => aws[i] = "none"
    /\ asked \in Commands /\ mode # "feasibility"
    /\ pc = ReadOrder[1] /\ candidates = {} /\ live = {} /\ todo = {} /\ exit = 9
    /\ swept = {} /\ orphans = {} /\ checked = FALSE /\ faults = MaxFaults

Fault == faults > 0 /\ faults' = faults - 1

-----------------------------------------------------------------------------
(* findOrphans.  One call, one page; the tags are filtered here.           *)
Drilled_AnyTag(page) == page
Drilled(page) == {i \in page : Tag[i] \in matching}

Describe ==
    /\ pc = "describe"
    /\ LET standing == {i \in Instances : aws[i] \in {"available", "deleting"}}
       IN \/ \E page \in SUBSET standing :
                /\ Cardinality(page) = IF Cardinality(standing) < PageSize
                                       THEN Cardinality(standing) ELSE PageSize
                /\ candidates' = Drilled(page)
             /\ pc' = After("describe") /\ UNCHANGED <<exit, faults>>
          \/ Fault /\ pc' = "done" /\ exit' = 1 /\ UNCHANGED candidates
    /\ orphans' = Orphans
    /\ todo' = candidates'
    /\ UNCHANGED <<cloud, asked, live, swept, checked>>

(* No answer from Kubernetes: everything counts as live.                   *)
Unanswered == Drills

CrossCheck ==
    /\ pc = "crosscheck"
    /\ \/ live' = {d \in Drills : HasMR(d)} /\ checked' = TRUE /\ UNCHANGED faults
       \/ Fault /\ live' = Unanswered /\ UNCHANGED checked
    /\ orphans' = orphans \cap Orphans
    /\ pc' = After("crosscheck")
    /\ UNCHANGED <<cloud, asked, candidates, todo, exit, swept>>

HasLiveMR_AnyDrill(i) == live # {}
HasLiveMR(i) == Tag[i] \in live

(* List mode tells by its exit code whether there are orphans.             *)
List ==
    /\ pc = "act" /\ mode = "list"
    /\ exit' = IF \E i \in candidates : ~HasLiveMR(i) THEN 2 ELSE 0
    /\ pc' = "done"
    /\ UNCHANGED <<cloud, asked, candidates, live, todo, swept, orphans, checked, faults>>

(* cleanOrphans, one instance.  A deletion that fails is logged, no more.  *)
Skip(i) == HasLiveMR(i) \/ dryRun

DeleteAccepted(i) ==
    /\ aws[i] = "available"
    /\ aws' = [aws EXCEPT ![i] = "deleting"] /\ swept' = swept \cup {i}
Sweep(i) ==
    /\ pc = "act" /\ mode # "list" /\ i \in todo
    /\ todo' = todo \ {i}
    /\ \/ Skip(i) /\ UNCHANGED <<aws, swept, faults>>
       \/ ~Skip(i) /\ DeleteAccepted(i) /\ UNCHANGED faults
       \/ ~Skip(i) /\ aws[i] # "available" /\ UNCHANGED <<aws, swept, faults>>
       \/ ~Skip(i) /\ Fault /\ (DeleteAccepted(i) \/ UNCHANGED <<aws, swept>>)
    /\ UNCHANGED <<mr, asked, pc, candidates, live, exit, orphans, checked>>

SweepEnds ==
    /\ pc = "act" /\ mode # "list" /\ todo = {}
    /\ pc' = "done" /\ exit' = 0
    /\ UNCHANGED <<cloud, asked, candidates, live, todo, swept, orphans, checked, faults>>

Tool == Describe \/ CrossCheck \/ List \/ SweepEnds \/ \E i \in Instances : Sweep(i)

-----------------------------------------------------------------------------
(* The cloud meanwhile: a drill's MR is applied, Crossplane provisions its *)
(* instance, the MR is deleted, the deletion reaches AWS - or never does.  *)
CloudMoves(i) ==
    /\ pc # "done" /\ Tag[i] # Untagged
    /\ \/ mr[i] = "none" /\ mr' = [mr EXCEPT ![i] = "live"] /\ UNCHANGED aws
       \/ mr[i] = "live" /\ mr' = [mr EXCEPT ![i] = "gone"] /\ UNCHANGED aws
       \/ mr[i] = "live" /\ aws[i] = "none" /\ aws' = [aws EXCEPT ![i] = "available"] /\ UNCHANGED mr
       \/ mr[i] = "gone" /\ aws[i] = "available" /\ aws' = [aws EXCEPT ![i] = "deleting"] /\ UNCHANGED mr
       \/ aws[i] = "deleting" /\ aws' = [aws EXCEPT ![i] = "gone"] /\ UNCHANGED mr
    /\ UNCHANGED <<asked, pc, candidates, live, todo, exit, swept, orphans, checked, faults>>

Next == Tool \/ \E i \in Instances : CloudMoves(i)
Spec == Init /\ [][Next]_vars

-----------------------------------------------------------------------------
(* Properties.                                                             *)

(* Nothing is deleted in AWS that Crossplane still manages.  Drills may    *)
(* start and end between the two reads and the deletion: it holds because  *)
(* AWS is read before Kubernetes, and an instance never precedes its MR.   *)
(* And nothing in a dry run, or of a drill --correlation-id leaves out,    *)
(* but only if that flag comes before the word clean: see NothingUnasked.  *)
SweptWasOrphan ==
    [][\A i \in swept' \ swept :
          /\ asked.mode = "clean" /\ mr[i] # "live" /\ Tag[i] # Untagged
          /\ asked.dryRun => "dryRun" \in asked.late
          /\ Tag[i] \in asked.matching \/ "matching" \in asked.late]_vars

(* "Delete every orphan": a clean without failed calls leaves none of      *)
(* those that were orphaned before it began, if one page holds them all.   *)
OrphansSwept ==
    exit = 0 /\ mode = "clean" /\ ~dryRun /\ faults = MaxFaults =>
        \A i \in orphans : aws[i] # "available"

(* A list that exits 0 with both reads answered means that none was        *)
(* orphaned throughout.                                                    *)
ZeroMeansNone == exit = 0 /\ mode = "list" /\ checked => orphans = {}

-----------------------------------------------------------------------------
(* What comments in the source say and the code does not do.               *)

(* "List ALL RDS instances", "Delete every orphan": OrphansSwept, also in  *)
(* an account with more instances than one page.                           *)
EveryPageRead == OrphansSwept

(* "clean --correlation-id 3054b9e0 [--dry-run]" deletes "every RDS        *)
(* instance for a specific drill correlation", and "in --dry-run mode,     *)
(* prints what would be deleted": the flags of the command line are        *)
(* heeded, also where its usage puts them.                                 *)
NothingUnasked ==
    [][\A i \in swept' \ swept : ~asked.dryRun /\ Tag[i] \in asked.matching]_vars
=============================================================================
