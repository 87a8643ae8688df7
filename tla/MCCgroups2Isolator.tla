------------------------- MODULE MCCgroups2Isolator -------------------------
(* A top-level container p and a container c nested in it; the "core"     *)
(* controller, which is never written to subtree_control, and "cpu".      *)
EXTENDS Cgroups2Isolator

CONSTANTS p, c

MCContainers == {p, c}
MCParent == (p :> NoParent) @@ (c :> p)
MCControllers == {"core", "cpu"}
MCSkipEnable == {"core"}

=============================================================================
