---------------------------- MODULE Cgroups2Lifecycle ----------------------------
(***************************************************************************)
(* What the isolator engine promises about its Info table and the         *)
(* container cgroups on disk, with every handler and continuation          *)
(* abstracted away.                                                        *)
(*                                                                         *)
(*  - a nested container's cgroup exists only inside its parent's;         *)
(*  - a container enters the table together with its cgroup;               *)
(*  - it leaves the table only in the step that removes its cgroup (and   *)
(*    everything below it) or once its cgroup is already gone (I5);       *)
(*  - a crash empties the table, and recovery puts back exactly the        *)
(*    containers that have a cgroup, recreating some on the way (P8); a    *)
(*    failed recovery may leave recreated cgroups behind.                  *)
(*                                                                         *)
(* A cgroup may appear without an entry: that is the failed launch the     *)
(* engine does not track.                                                  *)
(***************************************************************************)
CONSTANTS Containers, Parent, NoParent

VARIABLES
    tracked,      \* the containers with an Info
    dirs,         \* the containers whose non-leaf cgroup exists
    up            \* the engine's table is live (not lost in a crash)

InParent(x, D) == Parent[x] = NoParent \/ Parent[x] \in D
Nested(D) == \A x \in D : InParent(x, D)

RECURSIVE Within(_, _)
\* y's cgroup lies in x's: x is y or one of its ancestors.
Within(y, x) == y = x \/ (Parent[y] # NoParent /\ Within(Parent[y], x))

Init ==
    /\ tracked = {}
    /\ dirs = {}
    /\ up = TRUE

Track(x) ==
    /\ up /\ x \notin tracked /\ InParent(x, dirs)
    /\ tracked' = tracked \cup {x}
    /\ dirs' = dirs \cup {x}
    /\ UNCHANGED up

Untracked(x) ==
    /\ up /\ x \notin tracked /\ InParent(x, dirs)
    /\ dirs' = dirs \cup {x}
    /\ UNCHANGED <<tracked, up>>

Forget(x) ==
    /\ up /\ x \in tracked
    /\ tracked' = tracked \ {x}
    /\ dirs' = {y \in dirs : ~Within(y, x)}
    /\ UNCHANGED up

Lose ==
    /\ up
    /\ up' = FALSE
    /\ tracked' = {}
    /\ UNCHANGED dirs

Restore ==
    /\ ~up
    /\ dirs \subseteq dirs' /\ Nested(dirs')
    /\ tracked' = dirs'
    /\ up' = TRUE

\* A recovery that fails half-way leaves the cgroups it recreated.
Recreate ==
    /\ ~up
    /\ dirs \subseteq dirs' /\ Nested(dirs')
    /\ UNCHANGED <<tracked, up>>

Next ==
    \/ \E x \in Containers : Track(x) \/ Untracked(x) \/ Forget(x)
    \/ Lose \/ Restore \/ Recreate

Spec == Init /\ [][Next]_<<tracked, dirs, up>>

\* No nested cgroup outlives its parent's.
NestedInv == Nested(dirs)

=============================================================================
