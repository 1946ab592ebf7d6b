--------------------------- MODULE DependencyGate ---------------------------
(***************************************************************************)
(* What cmd/wait-for-deps promises the Pod whose init container it is,     *)
(* without contexts, goroutines or channels: the gate opens only when      *)
(* every service has answered and nothing was reported, it is refused only *)
(* when there is trouble, and either is final.  WaitForDeps is shown to    *)
(* implement this.                                                         *)
(***************************************************************************)
CONSTANT Services

VARIABLES
    ready,      \* services that have answered 200
    trouble,    \* there has been a reason to refuse
    reported,   \* some watcher has reported one
    result      \* "" as long as the gate is shut, "nil" or "refused"

gateVars == <<ready, trouble, reported, result>>

Init == ready = {} /\ trouble \in BOOLEAN /\ reported = FALSE /\ result = ""

Answer(s) ==
    /\ result = ""
    /\ ready' = ready \cup {s}
    /\ UNCHANGED <<trouble, reported, result>>

Strike ==
    /\ result = ""
    /\ trouble' = TRUE
    /\ UNCHANGED <<ready, reported, result>>

Complain ==
    /\ result = "" /\ trouble
    /\ reported' = TRUE
    /\ UNCHANGED <<ready, trouble, result>>

Open ==
    /\ result = "" /\ ready = Services /\ ~reported
    /\ result' = "nil"
    /\ UNCHANGED <<ready, trouble, reported>>

Refuse ==
    /\ result = "" /\ trouble /\ (reported \/ ready # Services)
    /\ result' = "refused"
    /\ UNCHANGED <<ready, trouble, reported>>

Next ==
    \/ \E s \in Services : Answer(s)
    \/ Strike \/ Complain \/ Open \/ Refuse

Spec == Init /\ [][Next]_gateVars
=============================================================================
