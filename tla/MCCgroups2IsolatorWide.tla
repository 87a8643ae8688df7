------------------------- MODULE MCCgroups2IsolatorWide -------------------------
(* Two unrelated top-level containers p and q: the sweep after a restart  *)
(* finds the orphans of two containers at once, one of them known to the  *)
(* launcher and one not, and one container's cleanup interleaves with     *)
(* the other's prepare.                                                   *)
EXTENDS Cgroups2Isolator

CONSTANTS p, q

MCContainers == {p, q}
MCParent == (p :> NoParent) @@ (q :> NoParent)
MCControllers == {"core", "cpu"}
MCSkipEnable == {"core"}

=============================================================================
