--------------------------- MODULE Cgroups2Isolator ---------------------------
(***************************************************************************)
(* The cgroups v2 isolator engine (Cgroups2IsolatorProcess) together with  *)
(* the part of the agent that drives it and the cgroup2 hierarchy it       *)
(* writes.  The engine is one libprocess actor: each handler runs          *)
(* atomically up to its `await`, and the continuation bound with           *)
(* `defer(self(), ...)` runs later as a step of its own, so every await is *)
(* a point where another container's operation, a kernel event or an      *)
(* agent crash can come in between.                                        *)
(*                                                                         *)
(* Controllers are named by their strings; what a controller does inside   *)
(* its own actor is abstracted to the success or failure of the future it  *)
(* returns.  The agent restarts after a crash: the in-memory `infos` and   *)
(* every pending continuation are lost, the cgroup directories are not.    *)
(***************************************************************************)
EXTENDS Naturals, FiniteSets, Functions, TLC

CONSTANTS
    Containers,   \* container ids
    Parent,       \* Parent[x]: the parent container id, or NoParent
    NoParent,
    Controllers,  \* the controllers the flags configure; "core" is always one
    SkipEnable,   \* {"core", "perf_event", "devices"}: never in subtree_control
    MaxCrashes    \* bound on agent crashes

ASSUME Parent \in [Containers -> Containers \cup {NoParent}]
ASSUME SkipEnable \subseteq Controllers /\ "core" \in Controllers

VARIABLES
    infos,        \* Cgroups2IsolatorProcess::infos, a partial function
    cgroups,      \* the container cgroup directories that exist
    subtree,      \* cgroup.subtree_control of every directory
    pend,         \* continuations waiting on an await: [op, x, by]
    watching,     \* controller watch futures still pending: <<x, c>>
    resolved,     \* resolved ones whose _watch() is queued: <<x, c>>
    watched,      \* containers whose limitation future the agent holds
    killing,      \* containers the containerizer destroys on a limitation
    agent,        \* the agent's view of each container
    cfg,          \* the ContainerConfig the agent launched x with
    hadPid,       \* containers whose pid the agent has checkpointed
    up,           \* FALSE between an agent crash and the end of recover()
    crashes,
    mount,        \* the cgroup bind mount __prepare put into the launch info
    isolateCalls, \* <<x, c>>: controller c's isolate() ran for x
    rphase,       \* recover(): "idle", awaiting the "states", the "orphans"
    rqueue,       \* containers whose ____recover() is queued
    rknown,       \* the orphans argument of the recover() in progress
    runknown      \* the unknown orphans _recover() found

limitVars == <<watching, resolved, watched, killing>>
recVars == <<rphase, rqueue, rknown, runknown>>
vars == <<infos, cgroups, subtree, pend, limitVars, agent, cfg, hadPid, up,
          crashes, mount, isolateCalls, recVars>>

-----------------------------------------------------------------------------
(* The hierarchy: cgroups2_paths::container(root, x, leaf).  A nested      *)
(* container's non-leaf cgroup lives inside its parent's non-leaf cgroup.  *)

Root == <<"root">>
NonLeaf(x) == <<"nonleaf", x>>
Leaf(x) == <<"leaf", x>>
Paths == {NonLeaf(x) : x \in Containers} \cup {Leaf(x) : x \in Containers}
Dirs == Paths \cup {Root}

UpDir(d) ==
    IF d[1] = "leaf" THEN NonLeaf(d[2])
    ELSE IF Parent[d[2]] = NoParent THEN Root ELSE NonLeaf(Parent[d[2]])

RECURSIVE DirLineage(_)
DirLineage(d) == IF d = Root THEN {Root} ELSE {d} \cup DirLineage(UpDir(d))

\* The directories destroy(d) removes: d and everything below it.
Below(d) == {q \in Paths : d \in DirLineage(q)}

\* The hops prepare() walks from the cgroups root down to the non-leaf.
Hops(x) == DirLineage(NonLeaf(x)) \ {Root}

-----------------------------------------------------------------------------
NoLimitation == "none"
NoMount == <<"none">>
InfoRec == [isolate : BOOLEAN, controllers : SUBSET Controllers,
            limitation : Controllers \cup {NoLimitation}]
ShareOpts == {"unset", "true", "false"}   \* linux_info.share_cgroups, if set
Configs == [share : ShareOpts, rootfs : BOOLEAN]
Ops == {"prepare", "update", "cleanup", "destroy"}
Phases == {"none", "preparing", "prepared", "running", "destroying",
           "cleaning", "gone", "forgotten"}

\* shareCgroups in prepare() and recover(): a top-level container never
\* shares; a nested one shares unless its config says otherwise.
ShareCgroups(x) ==
    Parent[x] # NoParent /\ cfg[x].share # "false"

\* Mutant: looks the container up by its parent's id only.
CgroupInfoOfParent(f, x) ==
    IF Parent[x] # NoParent /\ Parent[x] \in DOMAIN f THEN Parent[x]
    ELSE NoParent

\* cgroupInfo(): walk up the parent chain to the first container with an
\* Info; NoParent if there is none.
RECURSIVE CgroupInfo(_, _)
CgroupInfo(f, x) ==
    IF x \in DOMAIN f THEN x
    ELSE IF Parent[x] = NoParent THEN NoParent
    ELSE CgroupInfo(f, Parent[x])

\* status(): the container whose Info answers, walking up the parent ids
\* past every Info that does not isolate; NoParent for "Unknown container".
RECURSIVE StatusInfo(_)
StatusInfo(x) ==
    CASE x \notin DOMAIN infos -> NoParent
      [] infos[x].isolate      -> x
      [] Parent[x] = NoParent  -> NoParent
      [] OTHER                 -> StatusInfo(Parent[x])

Erase(f, x) == Restrict(f, DOMAIN f \ {x})
Pending(x) == {r \in pend : r.x = x}
Children(x) == {y \in Containers : Parent[y] = x}

\* The agent's answer to the call it is waiting on; `self` calls, the
\* cleanups recover() starts for unknown orphans, have nobody waiting.
Answer(r, phase) ==
    agent' = IF r.by = "agent" THEN [agent EXCEPT ![r.x] = phase] ELSE agent

-----------------------------------------------------------------------------
Init ==
    /\ infos = <<>>
    /\ cgroups = {}
    /\ subtree = [d \in Dirs |-> IF d = Root THEN Controllers \ SkipEnable
                                 ELSE {}]
    /\ pend = {}
    /\ watching = {}
    /\ resolved = {}
    /\ watched = {}
    /\ killing = {}
    /\ agent = [x \in Containers |-> "none"]
    /\ cfg = [x \in Containers |-> [share |-> "unset", rootfs |-> FALSE]]
    /\ hadPid = {}
    /\ up = TRUE
    /\ crashes = 0
    /\ mount = [x \in Containers |-> NoMount]
    /\ isolateCalls = {}
    /\ rphase = "idle" /\ rqueue = {} /\ rknown = {} /\ runknown = {}

-----------------------------------------------------------------------------
(* prepare(): the synchronous part up to `await(prepares)`.  Creating a    *)
(* cgroup can fail (e.g. EAGAIN at cgroup.max.descendants).  Enabling a    *)
(* controller cannot fail here: the agent has enabled every configured one *)
(* in the root's subtree_control and each hop is walked top-down.          *)

\* The agent launches x: the parent, if any, must be running.
Launch(x, c) ==
    /\ up /\ agent[x] = "none"
    /\ Parent[x] # NoParent => agent[Parent[x]] = "running"
    /\ cfg' = [cfg EXCEPT ![x] = c]

PrepareCreateFails(x) ==
    /\ \E c \in Configs : Launch(x, c)
    /\ \/ UNCHANGED <<cgroups, subtree>>                 \* non-leaf fails
       \/ /\ cgroups' = cgroups \cup {NonLeaf(x)}        \* leaf fails
          /\ subtree' = [subtree EXCEPT ![NonLeaf(x)] = {}]
    /\ agent' = [agent EXCEPT ![x] = "destroying"]
    /\ UNCHANGED <<infos, pend, limitVars, hadPid, up, crashes, mount,
                   isolateCalls, recVars>>

CreateCgroups(x) ==
    /\ cgroups' = cgroups \cup {NonLeaf(x), Leaf(x)}
    /\ subtree' = [d \in Dirs |->
                     IF d \in {NonLeaf(x), Leaf(x)} THEN {}
                     ELSE subtree[d]]

\* A shared nested container gets an Info (isolate = FALSE) and goes
\* straight to __prepare(), whose cgroupInfo() finds that very Info.
PrepareShared(x) ==
    /\ \E c \in Configs : Launch(x, c) /\ c.share # "false"
    /\ Parent[x] # NoParent
    /\ CreateCgroups(x)
    /\ infos' = (x :> [isolate |-> FALSE, controllers |-> {},
                       limitation |-> NoLimitation]) @@ infos
    /\ mount' = [mount EXCEPT ![x] =
                   IF cfg'[x].rootfs THEN Leaf(CgroupInfo(infos', x))
                                     ELSE NoMount]
    /\ agent' = [agent EXCEPT ![x] = "prepared"]
    /\ UNCHANGED <<pend, limitVars, hadPid, up, crashes, isolateCalls, recVars>>

\* An isolated container: enable every controller not in SkipEnable at
\* every hop, register every controller in the Info, chown the leaf (which
\* may fail) and await the controllers' prepare().
PrepareIsolated(x) ==
    /\ \E c \in Configs :
          /\ Launch(x, c)
          /\ Parent[x] = NoParent \/ c.share = "false"
    /\ LET created == [d \in Dirs |->
                         IF d \in {NonLeaf(x), Leaf(x)} THEN {}
                         ELSE subtree[d]]
       IN  /\ cgroups' = cgroups \cup {NonLeaf(x), Leaf(x)}
           /\ subtree' = [d \in Dirs |->
                            IF d \in Hops(x)
                            THEN created[d] \cup (Controllers \ SkipEnable)
                            ELSE created[d]]
    /\ infos' = (x :> [isolate |-> TRUE, controllers |-> Controllers,
                       limitation |-> NoLimitation]) @@ infos
    /\ \/ /\ pend' = pend \cup {[op |-> "prepare", x |-> x, by |-> "agent"]}
          /\ agent' = [agent EXCEPT ![x] = "preparing"]
       \/ /\ UNCHANGED pend                               \* chown fails
          /\ agent' = [agent EXCEPT ![x] = "destroying"]
    /\ UNCHANGED <<limitVars, hadPid, up, crashes, mount, isolateCalls, recVars>>

\* _prepare(): some controller's prepare() failed, or all succeeded and
\* update() fans out to the controllers of the Info.
PrepareAwaited(x) ==
    /\ \E r \in pend :
          /\ r.op = "prepare" /\ r.x = x
          /\ \/ /\ pend' = (pend \ {r}) \cup {[r EXCEPT !.op = "update"]}
                /\ UNCHANGED agent
             \/ /\ pend' = pend \ {r}
                /\ Answer(r, "destroying")
    /\ UNCHANGED <<infos, cgroups, subtree, limitVars, cfg, hadPid, up,
                   crashes, mount, isolateCalls, recVars>>

\* _update() then __prepare(): the launch info bind-mounts the leaf of
\* cgroupInfo(x) when the container has a rootfs.
PrepareUpdated(x) ==
    /\ \E r \in pend :
          /\ r.op = "update" /\ r.x = x
          /\ pend' = pend \ {r}
          /\ \/ /\ mount' = [mount EXCEPT ![x] =
                      IF cfg[x].rootfs THEN Leaf(CgroupInfo(infos, x)) ELSE NoMount]
                /\ Answer(r, "prepared")
             \/ /\ UNCHANGED mount
                /\ Answer(r, "destroying")
    /\ UNCHANGED <<infos, cgroups, subtree, limitVars, cfg, hadPid, up,
                   crashes, isolateCalls, recVars>>

-----------------------------------------------------------------------------
(* isolate(), watch() and the limitation callback _watch().               *)

\* isolate(): returns at once when the Info says isolate; otherwise every
\* configured controller's isolate() runs.  The launcher then checkpoints
\* the pid and the container runs.
Isolate(x) ==
    /\ up /\ agent[x] = "prepared"
    /\ isolateCalls' = IF infos[x].isolate THEN isolateCalls
                       ELSE isolateCalls \cup ({x} \X Controllers)
    /\ agent' = [agent EXCEPT ![x] = "running"]
    /\ hadPid' = hadPid \cup {x}
    /\ UNCHANGED <<infos, cgroups, subtree, pend, limitVars, cfg, up,
                   crashes, mount, recVars>>

\* watch(): the agent calls it once for a running container (after the
\* launch, or after recover()); the engine listens to the watch future of
\* every controller of the Info and hands back the Info's limitation future.
Watch(x) ==
    /\ up /\ agent[x] = "running" /\ x \in DOMAIN infos /\ x \notin watched
    /\ watching' = watching \cup ({x} \X infos[x].controllers)
    /\ watched' = watched \cup {x}
    /\ UNCHANGED <<infos, cgroups, subtree, pend, resolved, killing, agent,
                   cfg, hadPid, up, crashes, mount, isolateCalls, recVars>>

\* A controller sees the kernel report a violation (or fails) and its
\* watch future resolves; _watch() is dispatched to the engine's queue.
Resolve(x, c) ==
    /\ <<x, c>> \in watching
    /\ watching' = watching \ {<<x, c>>}
    /\ resolved' = resolved \cup {<<x, c>>}
    /\ UNCHANGED <<infos, cgroups, subtree, pend, watched, killing, agent,
                   cfg, hadPid, up, crashes, mount, isolateCalls, recVars>>

\* Mutant: the isPending() test inverted, so every resolved future is
\* dropped.
LimitIfPending(x, c) ==
    /\ <<x, c>> \in resolved
    /\ resolved' = resolved \ {<<x, c>>}
    /\ UNCHANGED <<infos, cgroups, subtree, pend, watching, watched, killing,
                   agent, cfg, hadPid, up, crashes, mount, isolateCalls, recVars>>

\* Mutant: the promise is set by every result, not only the first.
\* _watch(): dropped when the Info is gone; otherwise the result is set on
\* the one-shot limitation promise, which ignores every set but the first.
Limit(x, c) ==
    /\ <<x, c>> \in resolved
    /\ resolved' = resolved \ {<<x, c>>}
    /\ infos' = IF x \in DOMAIN infos /\ infos[x].limitation = NoLimitation
                THEN [infos EXCEPT ![x].limitation = c]
                ELSE infos
    /\ UNCHANGED <<cgroups, subtree, pend, watching, watched, killing, agent,
                   cfg, hadPid, up, crashes, mount, isolateCalls, recVars>>

\* The containerizer's limited(): the limitation future the agent holds is
\* set, so it destroys the container, nested containers first.
Limited(x) ==
    /\ up /\ x \in watched /\ agent[x] = "running"
    /\ x \in DOMAIN infos /\ infos[x].limitation # NoLimitation
    /\ x \notin killing
    /\ killing' = killing \cup {x}
    /\ UNCHANGED <<infos, cgroups, subtree, pend, watching, resolved, watched,
                   agent, cfg, hadPid, up, crashes, mount, isolateCalls, recVars>>

\* x or one of its ancestors is being destroyed on a limitation.
Doomed(x) == \E a \in killing : NonLeaf(a) \in DirLineage(NonLeaf(x))

-----------------------------------------------------------------------------
(* cleanup(), _cleanup(), cgroups2::destroy() and __cleanup().            *)

\* Mutant: the agent destroys a container whose children still run.
DestroyWithChildren(x) ==
    /\ up /\ agent[x] \in {"prepared", "running"}
    /\ agent' = [agent EXCEPT ![x] = "destroying"]
    /\ UNCHANGED <<infos, cgroups, subtree, pend, limitVars, cfg, hadPid, up,
                   crashes, mount, isolateCalls, recVars>>

\* The agent decides to destroy a container whose children are all gone.
Destroy(x) ==
    /\ up /\ agent[x] \in {"prepared", "running"}
    /\ \A y \in Children(x) : agent[y] \in {"none", "gone", "forgotten"}
    /\ agent' = [agent EXCEPT ![x] = "destroying"]
    /\ UNCHANGED <<infos, cgroups, subtree, pend, limitVars, cfg, hadPid, up,
                   crashes, mount, isolateCalls, recVars>>

\* cleanup(): an unknown container is ignored and reported done; otherwise
\* the controllers of the Info are cleaned up and awaited.  The agent
\* calls it again after a failure.
Cleanup(x) ==
    /\ up /\ agent[x] = "destroying"
    /\ \/ /\ x \notin DOMAIN infos
          /\ agent' = [agent EXCEPT ![x] = "gone"]
          /\ UNCHANGED pend
       \/ /\ x \in DOMAIN infos
          /\ pend' = pend \cup {[op |-> "cleanup", x |-> x, by |-> "agent"]}
          /\ agent' = [agent EXCEPT ![x] = "cleaning"]
    /\ UNCHANGED <<infos, cgroups, subtree, limitVars, cfg, hadPid, up,
                   crashes, mount, isolateCalls, recVars>>

\* _cleanup(): a controller cleanup failed; or the non-leaf cgroup is
\* already gone and the Info is erased; or destroy() of it starts.
CleanupFailed(r) ==
    /\ r \in pend /\ r.op = "cleanup"
    /\ pend' = pend \ {r}
    /\ Answer(r, "destroying")
    /\ UNCHANGED <<infos, cgroups, subtree, limitVars, cfg, hadPid, up,
                   crashes, mount, isolateCalls, recVars>>

\* Mutant: the Info is erased without asking whether the cgroup exists.
CleanupErasedUnchecked(r) ==
    /\ r \in pend /\ r.op = "cleanup"
    /\ infos' = Erase(infos, r.x)
    /\ pend' = pend \ {r}
    /\ Answer(r, "gone")
    /\ UNCHANGED <<cgroups, subtree, limitVars, cfg, hadPid, up, crashes,
                   mount, isolateCalls, recVars>>

CleanupErased(r) ==
    /\ r \in pend /\ r.op = "cleanup"
    /\ NonLeaf(r.x) \notin cgroups
    /\ infos' = Erase(infos, r.x)
    /\ pend' = pend \ {r}
    /\ Answer(r, "gone")
    /\ UNCHANGED <<cgroups, subtree, limitVars, cfg, hadPid, up, crashes,
                   mount, isolateCalls, recVars>>

CleanupDestroys(r) ==
    /\ r \in pend /\ r.op = "cleanup"
    /\ NonLeaf(r.x) \in cgroups
    /\ pend' = (pend \ {r}) \cup {[r EXCEPT !.op = "destroy"]}
    /\ UNCHANGED <<infos, cgroups, subtree, limitVars, agent, cfg, hadPid,
                   up, crashes, mount, isolateCalls, recVars>>

\* Mutant: destroy() removes the non-leaf cgroup before the cgroups below
\* it, which rmdir() refuses while they exist.
DestroyedTopDown(r) ==
    /\ r \in pend /\ r.op = "destroy"
    /\ NonLeaf(r.x) \in cgroups
    /\ Below(NonLeaf(r.x)) \cap cgroups = {NonLeaf(r.x)}
    /\ pend' = pend \ {r}
    /\ cgroups' = cgroups \ Below(NonLeaf(r.x))
    /\ subtree' = [d \in Dirs |->
                     IF d \in Below(NonLeaf(r.x)) THEN {} ELSE subtree[d]]
    /\ infos' = Erase(infos, r.x)
    /\ Answer(r, "gone")
    /\ UNCHANGED <<limitVars, cfg, hadPid, up, crashes, mount, isolateCalls, recVars>>

\* cgroups2::destroy() kills every process below the non-leaf cgroup and
\* removes the directories bottom-up; it fails when processes outlive the
\* timeout, or when the cgroup has vanished under it.  __cleanup() erases
\* the Info only on success.
Destroyed(r) ==
    /\ r \in pend /\ r.op = "destroy"
    /\ NonLeaf(r.x) \in cgroups
    /\ pend' = pend \ {r}
    /\ cgroups' = cgroups \ Below(NonLeaf(r.x))
    /\ subtree' = [d \in Dirs |->
                     IF d \in Below(NonLeaf(r.x)) THEN {} ELSE subtree[d]]
    /\ infos' = Erase(infos, r.x)
    /\ Answer(r, "gone")
    /\ UNCHANGED <<limitVars, cfg, hadPid, up, crashes, mount, isolateCalls, recVars>>

DestroyFailed(r) ==
    /\ r \in pend /\ r.op = "destroy"
    /\ pend' = pend \ {r}
    /\ Answer(r, "destroying")
    /\ UNCHANGED <<infos, cgroups, subtree, limitVars, cfg, hadPid, up,
                   crashes, mount, isolateCalls, recVars>>

\* Mutant: the nested containers' checkpoints outlive their parent's.
ReapOnlySelf(x) ==
    /\ up /\ agent[x] = "gone" /\ x \in hadPid
    /\ hadPid' = hadPid \ {x}
    /\ UNCHANGED <<infos, cgroups, subtree, pend, limitVars, agent, cfg, up,
                   crashes, mount, isolateCalls, recVars>>

\* Once cleanup() has returned, the containerizer removes the runtime
\* directory of the container, where its pid was checkpointed; those of
\* its nested containers live inside it and go with it.  Until then a
\* restart hands the container to recover() as a checkpointed state.
Reap(x) ==
    /\ up /\ agent[x] = "gone" /\ x \in hadPid
    /\ hadPid' = {y \in hadPid : NonLeaf(x) \notin DirLineage(NonLeaf(y))}
    /\ UNCHANGED <<infos, cgroups, subtree, pend, limitVars, agent, cfg, up,
                   crashes, mount, isolateCalls, recVars>>

-----------------------------------------------------------------------------
(* Agent crash and recover().                                             *)

Crash ==
    /\ up /\ crashes < MaxCrashes
    /\ up' = FALSE
    /\ crashes' = crashes + 1
    /\ infos' = <<>>
    /\ pend' = {}
    /\ watching' = {}
    /\ resolved' = {}
    /\ watched' = {}
    /\ killing' = {}
    /\ UNCHANGED <<cgroups, subtree, agent, cfg, hadPid, mount,
                   isolateCalls, recVars>>

\* Mutant: every configured controller is recovered, enabled or not.
RecoveredControllersUnchecked(x, enabled) == Controllers

\* Mutant: every orphan is cleaned up here, the known ones too.
AllOrphans(found, known) == found

\* ___recover(): the controllers whose name is in the enabled set of the
\* non-leaf cgroup are recovered and kept in the Info.
RecoveredControllers(x, enabled) == Controllers \cap enabled[NonLeaf(x)]

\* __recover(): the orphans the agent does not know are cleaned up here.
UnknownOrphans(found, known) == found \ known

\* The containers recover() gets as `states`: every container with a
\* checkpointed pid that the agent has not forgotten.
RecoveryStates == {x \in hadPid : agent[x] # "forgotten"}

\* The non-leaf and leaf cgroups of the containers in S.
CgroupsOf(S) == {NonLeaf(x) : x \in S} \cup {Leaf(x) : x \in S}

\* cgroups2::create() without `recursive`: each directory in `made` that
\* is missing needs its parent to exist or to be made first.
Creatable(made) ==
    \A d \in made \ cgroups : UpDir(d) = Root \/ UpDir(d) \in cgroups \cup made

\* recover(states, orphans): ___recover() of every state recreates its
\* missing non-leaf or leaf cgroup (a new directory has an empty
\* subtree_control), reads the controllers enabled in the non-leaf and
\* awaits their recover(); ____recover() then runs for each.  `known` is
\* the orphans argument: the container cgroups the launcher found that no
\* state names.
RecoverStart(known) ==
    LET states == RecoveryStates
        new == CgroupsOf(states)
    IN
    /\ ~up /\ rphase = "idle"
    /\ known \subseteq {x \in Containers \ states : NonLeaf(x) \in cgroups}
    /\ Creatable(new)
    /\ cgroups' = cgroups \cup new
    /\ subtree' = [d \in Dirs |-> IF d \in new \ cgroups THEN {} ELSE subtree[d]]
    /\ rqueue' = states
    /\ rknown' = known
    /\ rphase' = "states"
    /\ UNCHANGED <<infos, pend, limitVars, agent, cfg, hadPid, up, crashes,
                   mount, isolateCalls, runknown>>

\* ____recover(): the Info of x is inserted with the controllers found
\* enabled; a state keeps its isolate flag, an orphan isolates.
RecoverInsert(x) ==
    /\ ~up /\ x \in rqueue
    /\ rqueue' = rqueue \ {x}
    /\ infos' = (x :> [isolate |-> IF x \in RecoveryStates THEN ~ShareCgroups(x)
                                   ELSE TRUE,
                       controllers |-> RecoveredControllers(x, subtree),
                       limitation |-> NoLimitation]) @@ infos
    /\ UNCHANGED <<cgroups, subtree, pend, limitVars, agent, cfg, hadPid, up,
                   crashes, mount, isolateCalls, rphase, rknown, runknown>>

\* Mutant: the sweep does not skip the containers already recovered.
SweptAll == {x \in Containers : NonLeaf(x) \in cgroups}

\* _recover(): the container ids of the cgroups under the root, less those
\* infos already holds.
Swept == {x \in Containers : NonLeaf(x) \in cgroups /\ x \notin DOMAIN infos}

\* The continuation of recover() once every state is in: _recover() sweeps
\* the hierarchy, splits what it finds into known and unknown orphans and
\* runs ___recover() for each, recreating a missing leaf.
RecoverSweep ==
    LET found == Swept
        new == CgroupsOf(found)
    IN
    /\ ~up /\ rphase = "states" /\ rqueue = {}
    /\ cgroups' = cgroups \cup new
    /\ subtree' = [d \in Dirs |-> IF d \in new \ cgroups THEN {} ELSE subtree[d]]
    /\ rqueue' = found
    /\ runknown' = UnknownOrphans(found, rknown)
    /\ rphase' = "orphans"
    /\ UNCHANGED <<infos, pend, limitVars, agent, cfg, hadPid, up, crashes,
                   mount, isolateCalls, rknown>>

\* __recover(): every orphan is in; cleanup() is started, with nobody
\* waiting, for each unknown orphan, and recover() returns to the agent,
\* which destroys the known orphans and the states that were not running.
RecoverDone ==
    /\ ~up /\ rphase = "orphans" /\ rqueue = {}
    /\ pend' = {[op |-> "cleanup", x |-> x, by |-> "self"] : x \in runknown}
    /\ agent' = [x \in Containers |->
                   CASE x \in RecoveryStates /\ agent[x] = "running" -> "running"
                     [] x \in RecoveryStates \cup rknown -> "destroying"
                     [] agent[x] = "none" -> "none"
                     [] OTHER -> "forgotten"]
    /\ up' = TRUE
    /\ rphase' = "idle" /\ rknown' = {} /\ runknown' = {}
    /\ UNCHANGED <<infos, cgroups, subtree, limitVars, cfg, hadPid, crashes,
                   mount, isolateCalls, rqueue>>

\* The steps of a recover() that succeeds.
Recovering ==
    \/ \E known \in SUBSET Containers : RecoverStart(known)
    \/ \E x \in Containers : RecoverInsert(x)
    \/ RecoverSweep
    \/ RecoverDone

\* recover() fails: a create in ___recover() (a parent is missing, or the
\* kernel refuses), cgroups2::controllers::enabled() or a controller's
\* recover() fails, for a state first or else for an orphan.  The agent
\* exits and its supervisor starts it again; the cgroups recreated so far
\* stay, the Infos inserted so far are lost with the process.  Nothing
\* but the engine's recovery steps runs while the agent is down, so a
\* failing recover() is one step from "idle" to "idle".
RecoverFails ==
    LET states == CgroupsOf(RecoveryStates) \ cgroups
        orphans == CgroupsOf({x \in Containers : NonLeaf(x) \in cgroups})
    IN
    /\ ~up /\ rphase = "idle"
    /\ \E made \in SUBSET (states \cup orphans) :
          /\ made \subseteq states \/ states \subseteq made
          /\ Creatable(made)
          /\ cgroups' = cgroups \cup made
    /\ UNCHANGED <<infos, subtree, pend, limitVars, agent, cfg, hadPid, up,
                   crashes, mount, isolateCalls, recVars>>

\* Every container the agent launched is destroyed and nothing is pending:
\* the run of the agent over this finite set of containers is over.
Finished ==
    /\ up /\ pend = {}
    /\ \A x \in Containers : agent[x] \in {"none", "gone", "forgotten"}
    /\ UNCHANGED vars

-----------------------------------------------------------------------------
Next ==
    \/ \E x \in Containers :
          \/ PrepareCreateFails(x)
          \/ PrepareShared(x)
          \/ PrepareIsolated(x)
          \/ PrepareAwaited(x)
          \/ PrepareUpdated(x)
          \/ Isolate(x)
          \/ Watch(x)
          \/ \E c \in Controllers : Resolve(x, c) \/ Limit(x, c)
          \/ Limited(x)
          \/ Destroy(x)
          \/ Cleanup(x)
          \/ Reap(x)
    \/ \E r \in pend :
          \/ CleanupFailed(r) \/ CleanupErased(r) \/ CleanupDestroys(r)
          \/ Destroyed(r) \/ DestroyFailed(r)
    \/ Crash
    \/ Recovering
    \/ RecoverFails
    \/ Finished

\* The engine actor runs every continuation it has queued; the agent
\* restarts and retries a failed cleanup; a controller cleanup and a
\* destroy that are retried eventually succeed.  Continue(x) is what the
\* engine has queued for container x.
Continue(x) ==
    \/ PrepareAwaited(x)
    \/ PrepareUpdated(x)
    \/ \E c \in Controllers : Limit(x, c)
    \/ \E r \in Pending(x) :
          \/ CleanupFailed(r) \/ CleanupErased(r) \/ CleanupDestroys(r)
          \/ Destroyed(r) \/ DestroyFailed(r)

Fairness ==
    /\ WF_vars(Recovering)
    /\ \A x \in Containers :
          /\ WF_vars(Continue(x))
          /\ WF_vars(Cleanup(x))
          /\ WF_vars(Limited(x))
          /\ WF_vars(Doomed(x) /\ Destroy(x))
          /\ SF_vars(\E r \in Pending(x) : CleanupErased(r) \/ CleanupDestroys(r))
          /\ SF_vars(\E r \in Pending(x) : Destroyed(r))

Spec == Init /\ [][Next]_vars /\ Fairness

-----------------------------------------------------------------------------
TypeOK ==
    /\ DOMAIN infos \subseteq Containers
    /\ \A x \in DOMAIN infos : infos[x] \in InfoRec
    /\ cgroups \subseteq Paths
    /\ subtree \in [Dirs -> SUBSET Controllers]
    /\ pend \subseteq [op : Ops, x : Containers, by : {"agent", "self"}]
    /\ watching \subseteq Containers \X Controllers
    /\ resolved \subseteq Containers \X Controllers
    /\ watched \subseteq Containers /\ killing \subseteq Containers
    /\ agent \in [Containers -> Phases]
    /\ cfg \in [Containers -> Configs]
    /\ hadPid \subseteq Containers
    /\ up \in BOOLEAN /\ crashes \in 0..MaxCrashes
    /\ mount \in [Containers -> Paths \cup {NoMount}]
    /\ isolateCalls \subseteq Containers \X Controllers
    /\ rphase \in {"idle", "states", "orphans"}
    /\ rqueue \subseteq Containers /\ rknown \subseteq Containers
    /\ runknown \subseteq Containers


-----------------------------------------------------------------------------
(* Properties.                                                            *)

\* I2, no internal processes: every controller the Info of an isolated
\* container holds (other than core, perf_event, devices) is enabled in the
\* subtree_control of every cgroup from the root down to its non-leaf, for
\* as long as that non-leaf exists, and no leaf cgroup ever has a controller
\* enabled.  prepare() walks the hops top-down; ___recover() must only keep
\* what the non-leaf has enabled, which after a failed launch is nothing.
SubtreeControlConsistent ==
    /\ \A x \in DOMAIN infos :
          infos[x].isolate /\ NonLeaf(x) \in cgroups =>
             \A c \in infos[x].controllers \ SkipEnable, h \in Hops(x) :
                c \in subtree[h]
    /\ \A x \in Containers : subtree[Leaf(x)] = {}

\* The CHECK(infos.contains(containerId)) in _cleanup() and the lookup of
\* infos[containerId] in __cleanup() hold: no cleanup continuation runs for
\* a container whose Info another cleanup has already erased.
CleanupFindsInfo ==
    \A r \in pend : r.op \in {"cleanup", "destroy"} => r.x \in DOMAIN infos

\* The CHECK(!infos.contains(containerId)) that opens ____recover(): no
\* container is queued for recovery while it already has an Info.  The
\* states' ____recover() calls insert Infos first, then the sweep reads
\* every container cgroup on disk, the states' own (found or recreated)
\* among them; only its skip of the ids infos holds keeps the states out
\* of the second round.
RecoveredOnce == \A x \in rqueue : x \notin DOMAIN infos

\* status() of every container the agent has prepared or running is
\* answered by an Info that isolates, its own or an ancestor's, never by
\* "Unknown container".  A shared nested container's own Info does not
\* isolate, so the answer rests on an ancestor's Info outliving it:
\* across its parent's cleanup, a crash and the recovered isolate flags.
StatusAnswered ==
    \A x \in Containers :
       up /\ agent[x] \in {"prepared", "running"} =>
          StatusInfo(x) # NoParent /\ infos[StatusInfo(x)].isolate

\* A container the agent destroys (after a failed launch, a limitation or
\* a kill) is eventually reported cleaned up, provided the agent retries a
\* failed cleanup and controllers and destroy() eventually succeed; or the
\* agent forgets it across a restart and the isolator cleans it up itself.
DestroyCompletes ==
    \A x \in Containers :
       agent[x] = "destroying" ~> agent[x] \in {"gone", "forgotten"}

\* An agent that crashed gets through recover() again, however often
\* controllers fail it, provided a retried recover() eventually succeeds:
\* no checkpointed container needs a cgroup whose parent is gone, which
\* the non-recursive create in ___recover() cannot make.
RecoveryCompletes == ~up ~> up

\* The limitation path: once a controller's watch future for a running
\* container has resolved, _watch() sets the Info's one-shot promise and
\* the agent, holding the future watch() handed out, destroys the
\* container.  The future may resolve after another controller's, after
\* cleanup erased the Info, or just before an agent crash.
LimitationEnforced ==
    \A x \in Containers, c \in Controllers :
       (<<x, c>> \in resolved /\ agent[x] = "running")
          ~> agent[x] \in {"destroying", "cleaning", "gone", "forgotten"}

\* P6: once cleanup(x) has reported success to the agent, the non-leaf
\* cgroup of x is gone and so is its Info.
CleanupRemovesCgroup ==
    \A x \in Containers :
       agent[x] = "gone" => NonLeaf(x) \notin cgroups /\ x \notin DOMAIN infos

\* I6 / 4.4 step 4: the cgroup of an orphan the agent does not know about
\* is eventually removed by the cleanup __recover() starts for it, under
\* the same assumption that a retried cleanup eventually succeeds.
UnknownOrphanRemoved ==
    \A x \in Containers :
       (agent[x] = "forgotten" /\ NonLeaf(x) \in cgroups)
          ~> NonLeaf(x) \notin cgroups

\* P4 / I4: a nested container that shares its parent's cgroups resolves,
\* through cgroupInfo(), to the same Info as its parent.
SharedUsesParentInfo ==
    \A x \in Containers :
       (ShareCgroups(x) /\ agent[x] \in {"prepared", "running"}) =>
          CgroupInfo(infos, x) = CgroupInfo(infos, Parent[x])

\* 4.3: isolate() of a container that owns its cgroup fans out to the
\* isolate() of every controller of its Info.
IsolateReachesControllers ==
    \A x \in hadPid \cap DOMAIN infos :
       infos[x].isolate => {x} \X infos[x].controllers \subseteq isolateCalls

\* 4.2: every configured controller, the ones never written to
\* subtree_control included, stays in the controller set of a running
\* isolated container, across agent restarts too.
RecoveryKeepsControllers ==
    \A x \in hadPid \cap DOMAIN infos :
       infos[x].isolate => infos[x].controllers = Controllers

-----------------------------------------------------------------------------
(* The engine implements the Info-table lifecycle of Cgroups2Lifecycle:   *)
(* the table is DOMAIN infos once recover() has returned (the Infos it   *)
(* inserts on the way are not the agent's yet), a container's cgroup is   *)
(* its non-leaf.                                                          *)

Lifecycle == INSTANCE Cgroups2Lifecycle
               WITH tracked <- IF up THEN DOMAIN infos ELSE {},
                    dirs <- {x \in Containers : NonLeaf(x) \in cgroups}

\* I5 and P8: every step of prepare(), cleanup(), destroy(), a crash and
\* recover() is a step of the lifecycle: an Info is erased only with or
\* after its cgroup, a nested cgroup never outlives its parent's, and
\* recover() puts an Info back for exactly the cgroups on disk.
LifecycleRefined == Lifecycle!Spec

=============================================================================
