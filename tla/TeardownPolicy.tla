--------------------------- MODULE TeardownPolicy ---------------------------
(***************************************************************************)
(* What cmd/cleanup promises, without ConfigMaps, calls, clocks or Pods:   *)
(* when a drill's resources may be torn down, and what an outcome it       *)
(* records means.  Drill is shown to implement this.                       *)
(***************************************************************************)
CONSTANTS Resources, Everything

VARIABLES
    verdict,    \* the verdict being acted on; "": none yet
    keep,       \* the operator's preserve, as far as it is known
    due,        \* a success has been kept for as long as was asked
    torn,       \* resources whose deletion has been requested
    outcome     \* the outcome on record; "": none

policyVars == <<verdict, keep, due, torn, outcome>>

Init == verdict = "" /\ keep = TRUE /\ due = FALSE /\ torn = {} /\ outcome = ""

Consult ==
    /\ verdict = ""
    /\ keep' \in BOOLEAN
    /\ UNCHANGED <<verdict, due, torn, outcome>>

Learn ==
    /\ verdict = ""
    /\ verdict' \in {"Succeeded", "Failed"}
    /\ due' => verdict' = "Succeeded"
    /\ due' \in BOOLEAN
    /\ UNCHANGED <<keep, torn, outcome>>

Ripen ==
    /\ verdict = "Succeeded" /\ ~due
    /\ due' = TRUE
    /\ UNCHANGED <<verdict, keep, torn, outcome>>

Tear(r) ==
    /\ (verdict = "Succeeded" /\ due) \/ (verdict = "Failed" /\ ~keep)
    /\ torn' = torn \cup {r}
    /\ UNCHANGED <<verdict, keep, due, outcome>>

(* "Completed" means that nothing was left out, "Skipped" that a failure   *)
(* was kept for the operator.                                              *)
Record(status) ==
    /\ status = "Completed" => Everything \subseteq torn
    /\ status = "Skipped" => verdict = "Failed" /\ keep
    /\ outcome' = status
    /\ UNCHANGED <<verdict, keep, due, torn>>

(* A later report of verify replaces the record as a whole.                *)
Forget ==
    /\ outcome' = ""
    /\ UNCHANGED <<verdict, keep, due, torn>>

(* Whoever acts next starts from nothing but what is already torn down.    *)
Restart ==
    /\ verdict' = "" /\ keep' = TRUE /\ due' = FALSE
    /\ UNCHANGED <<torn, outcome>>

Next ==
    \/ Consult \/ Learn \/ Ripen \/ Forget \/ Restart
    \/ \E r \in Resources : Tear(r)
    \/ \E s \in {"Completed", "Partial", "Skipped", "DryRun"} : Record(s)

Spec == Init /\ [][Next]_policyVars
=============================================================================
