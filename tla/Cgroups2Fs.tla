------------------------------ MODULE Cgroups2Fs ------------------------------
(***************************************************************************)
(* The cgroup2 mount facade (src/src/linux/cgroups2.hpp) and its use at    *)
(* agent start: the agent checks enabled(), asks mounted(), mounts the     *)
(* hierarchy at /sys/fs/cgroup if nothing is there, and sets up its root   *)
(* cgroup and the root's subtree_control.  Containers are then prepared   *)
(* under that root; prepare() CHECKs that the root exists and aborts the  *)
(* agent otherwise (MESOS-9305), so that the restart goes through the      *)
(* bootstrap again instead of recreating the root without its              *)
(* subtree_control.                                                        *)
(*                                                                         *)
(* Outside the agent, init or an administrator may mount the hierarchy     *)
(* (between the agent's mounted() and mount()), unmount it, or remove the  *)
(* empty root cgroup; the agent may crash at any step and its supervisor   *)
(* restarts it.  The mount and the cgroups outlive the agent process.      *)
(* Unmounting does not remove cgroups: the kernel keeps the hierarchy and  *)
(* shows it again at the next mount.                                       *)
(***************************************************************************)
EXTENDS Naturals, FiniteSets

CONSTANTS
    Kids,         \* container cgroups the agent may create under its root
    Supported,    \* the kernel offers cgroup v2
    MaxOutside,   \* bound on outside mounts, unmounts and root removals
    MaxCrashes    \* bound on agent crashes

VARIABLES
    fsAt,         \* where cgroup2 is mounted: "none", "sysfs", "other"
    rootDir,      \* the agent's root cgroup exists in the hierarchy
    rootCtl,      \* the root's subtree_control holds the agent's controllers
    kids,         \* container cgroups that exist in the hierarchy
    phase,        \* the agent: "down", "checking", "mounting", "setup",
                  \* "ready", "failed"
    outside,      \* outside events so far
    crashes

vars == <<fsAt, rootDir, rootCtl, kids, phase, outside, crashes>>

Locations == {"none", "sysfs", "other"}
Phases == {"down", "checking", "mounting", "setup", "ready", "failed"}

-----------------------------------------------------------------------------
(* The facade.  Every call returns a Try: ok, or an error.                 *)

Ok(v) == [ok |-> TRUE, val |-> v]
Err(v) == [ok |-> FALSE, val |-> v]

\* enabled(): whether the kernel offers cgroup v2.
Enabled == Supported

\* Mutant: the error is passed on as the caller's new mount location.
MountReportsError == IF fsAt = "none" THEN Ok("sysfs") ELSE Err("error")

\* mount(): mounts at /sys/fs/cgroup; an error if cgroup2 is mounted.
Mount == IF fsAt = "none" THEN Ok("sysfs") ELSE Err(fsAt)

\* mounted(): TRUE or FALSE for /sys/fs/cgroup; an error when cgroup2 is
\* mounted at another place.
Mounted == CASE fsAt = "sysfs" -> Ok(TRUE)
             [] fsAt = "none"  -> Ok(FALSE)
             [] OTHER          -> Err(FALSE)

\* unmount(): an error unless cgroup2 is mounted at /sys/fs/cgroup; the
\* cgroups below are the caller's business and are left as they are.
Unmount == IF fsAt = "sysfs" THEN Ok("none") ELSE Err(fsAt)

\* What a process sees of the hierarchy: only a mounted one.
Visible == fsAt = "sysfs"
RootExists == Visible /\ rootDir

-----------------------------------------------------------------------------
Init ==
    /\ fsAt \in Locations        \* init may have mounted cgroup2 already
    /\ rootDir \in BOOLEAN       \* left by an earlier run of the agent
    /\ rootCtl = rootDir
    /\ kids = {}
    /\ phase = "down"
    /\ outside = 0
    /\ crashes = 0

-----------------------------------------------------------------------------
(* The agent's bootstrap.                                                  *)

Start ==
    /\ phase = "down"
    /\ phase' = IF Enabled THEN "checking" ELSE "failed"
    /\ UNCHANGED <<fsAt, rootDir, rootCtl, kids, outside, crashes>>

\* Mutant: mount() is called whatever mounted() says.
CheckMountedSkipped ==
    /\ phase = "checking"
    /\ phase' = IF Mounted.ok THEN "mounting" ELSE "failed"
    /\ UNCHANGED <<fsAt, rootDir, rootCtl, kids, outside, crashes>>

CheckMounted ==
    /\ phase = "checking"
    /\ phase' = CASE ~Mounted.ok  -> "failed"
                  [] Mounted.val  -> "setup"
                  [] OTHER        -> "mounting"
    /\ UNCHANGED <<fsAt, rootDir, rootCtl, kids, outside, crashes>>

DoMount ==
    /\ phase = "mounting"
    /\ fsAt' = Mount.val
    /\ phase' = IF Mount.ok THEN "setup" ELSE "failed"
    /\ UNCHANGED <<rootDir, rootCtl, kids, outside, crashes>>

\* Create the root cgroup if it is missing and enable the agent's
\* controllers in its subtree_control.
SetupRoot ==
    /\ phase = "setup"
    /\ Visible
    /\ rootDir' = TRUE
    /\ rootCtl' = TRUE
    /\ phase' = "ready"
    /\ UNCHANGED <<fsAt, kids, outside, crashes>>

\* Mounted a moment ago, gone before the root could be set up.
SetupFails ==
    /\ phase = "setup"
    /\ ~Visible
    /\ phase' = "failed"
    /\ UNCHANGED <<fsAt, rootDir, rootCtl, kids, outside, crashes>>

\* The supervisor restarts a failed agent.
Restart ==
    /\ phase = "failed"
    /\ phase' = "down"
    /\ UNCHANGED <<fsAt, rootDir, rootCtl, kids, outside, crashes>>

Crash ==
    /\ phase # "down" /\ crashes < MaxCrashes
    /\ phase' = "down"
    /\ crashes' = crashes + 1
    /\ UNCHANGED <<fsAt, rootDir, rootCtl, kids, outside>>

-----------------------------------------------------------------------------
(* prepare() and cleanup() of a container cgroup under the root.           *)

\* CHECK(cgroups2::exists(cgroups_root)): the agent aborts when the root
\* is missing; otherwise the container's cgroup is created below it.
Prepare(k) ==
    /\ phase = "ready" /\ k \notin kids
    /\ \/ /\ RootExists
          /\ kids' = kids \cup {k}
          /\ UNCHANGED <<rootDir, rootCtl, phase>>
       \/ /\ ~RootExists
          /\ phase' = "down"
          /\ UNCHANGED <<kids, rootDir, rootCtl>>
    /\ UNCHANGED <<fsAt, outside, crashes>>

Cleanup(k) ==
    /\ phase = "ready" /\ Visible /\ k \in kids
    /\ kids' = kids \ {k}
    /\ UNCHANGED <<fsAt, rootDir, rootCtl, phase, outside, crashes>>

-----------------------------------------------------------------------------
(* Outside the agent.                                                      *)

OutsideMount ==
    /\ outside < MaxOutside /\ Mount.ok
    /\ fsAt' = Mount.val
    /\ outside' = outside + 1
    /\ UNCHANGED <<rootDir, rootCtl, kids, phase, crashes>>

OutsideUnmount ==
    /\ outside < MaxOutside /\ Unmount.ok
    /\ fsAt' = Unmount.val
    /\ outside' = outside + 1
    /\ UNCHANGED <<rootDir, rootCtl, kids, phase, crashes>>

\* rmdir of the root (MESOS-9305): only an empty cgroup can be removed.
RemoveRoot ==
    /\ outside < MaxOutside /\ RootExists /\ kids = {}
    /\ rootDir' = FALSE
    /\ rootCtl' = FALSE
    /\ outside' = outside + 1
    /\ UNCHANGED <<fsAt, kids, phase, crashes>>

\* The agent is up and no container is being launched or destroyed.
Idle ==
    /\ phase = "ready"
    /\ UNCHANGED vars

Next ==
    \/ Start \/ CheckMounted \/ DoMount \/ SetupRoot \/ SetupFails
    \/ Restart \/ Crash
    \/ \E k \in Kids : Prepare(k) \/ Cleanup(k)
    \/ OutsideMount \/ OutsideUnmount \/ RemoveRoot
    \/ Idle

\* The agent process runs its bootstrap to the end and its supervisor
\* restarts it; containers and outside events are not forced.
Fairness ==
    WF_vars(Start \/ CheckMounted \/ DoMount \/ SetupRoot \/ SetupFails
            \/ Restart)

Spec == Init /\ [][Next]_vars /\ Fairness

-----------------------------------------------------------------------------
TypeOK ==
    /\ fsAt \in Locations
    /\ rootDir \in BOOLEAN /\ rootCtl \in BOOLEAN
    /\ kids \subseteq Kids
    /\ phase \in Phases
    /\ outside \in 0..MaxOutside /\ crashes \in 0..MaxCrashes

\* An agent on a host with cgroup v2 and nothing mounted elsewhere gets to
\* "ready" after every start, however init's mount races its own mount()
\* and however often it crashes: mounted() is asked before mount().
BootstrapCompletes ==
    (phase = "down" /\ Supported /\ fsAt # "other") ~> phase = "ready"

=============================================================================
