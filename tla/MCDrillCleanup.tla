--------------------------- MODULE MCDrillCleanup ----------------------------
(* Values of the constants for the model checker.                          *)
EXTENDS DrillCleanup

MCInstances == {"old-auth", "old-uam", "new-auth", "tenant-db"}
MCTag == [i \in MCInstances |->
    CASE i \in {"old-auth", "old-uam"} -> "old"
      [] i = "new-auth" -> "new"
      [] OTHER -> "untagged"]
MCFilters == {Drills, {"old"}}
=============================================================================
