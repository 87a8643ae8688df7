# TLA+ model of the cgroups v2 isolator

This directory holds a TLC-checked model of `Cgroups2IsolatorProcess`
(`src/unnamed/part_000`). This is the Mesos agent isolator that places every
container in a cgroup v2 hierarchy and drives the per-resource controllers.

## The system

* **Isolator engine** (`part_000`) is a libprocess actor.
  * Every hook runs atomically up to its first asynchronous call.
  * Every `.then`/`defer` continuation is a later, separate step of the same actor.
  * State:
    * `infos`: container id → Info with `cgroup`, `isolate`, `controllers` and the one-shot `limitation` promise;
    * the cgroup2 filesystem: which directories exist and the `cgroup.subtree_control` of each.
  * Hooks:
    * `prepare` → `_prepare` → `__prepare`;
    * `recover` → `_recover` → `__recover` → `___recover` → `____recover`;
    * `isolate`, `watch`/`_watch`, `update`, `usage`, `status`;
    * `cleanup` → `_cleanup` → `__cleanup`;
    * `cgroupInfo`.
* **Controllers** (core, cpu, memory, ...). Their code is not in this repository. To the engine they are names that return futures which succeed or fail. `core`, `perf_event` and `devices` are never written to `subtree_control`.
* **cgroup2 facade** (`src/src/linux/cgroups2.hpp`): create, destroy, enable, and mount at bootstrap.
* **Agent / containerizer** calls the hooks:
  * per container in the order prepare → isolate → watch → cleanup;
  * children are destroyed before their parent;
  * a failed cleanup is retried;
  * after a restart, `recover` comes first with the checkpointed states and the launcher's orphan set.

## Modules

`Cgroups2Isolator.tla` is the engine together with the agent environment. Its `Controllers` constant is the set that `create()` builds (`Cgroups2Create.tla`).

* **Paths.** A container owns the non-leaf path `<<"root",x>>` and the leaf path `<<"root",x,"leaf">>`. Nested containers extend their parent's path, as `cgroups2_paths::container` does.
* **Variables:**

  | variable | what it holds |
  |---|---|
  | `infos` | partial function, the C++ `infos` map |
  | `cgroups`, `subtree` | the hierarchy |
  | `pend` | outstanding continuations (`op`, container, requester) |
  | `watching`, `resolved` | controller watch futures that are pending, and those resolved with `_watch` queued |
  | `watched`, `killing` | containers whose limitation future the agent holds, and containers it is destroying because of a limitation |
  | `isolateCalls` | which controller `isolate` calls ran |
  | `agent` | the containerizer's phase per container |
  | `cfg` | `share_cgroups`, and whether a rootfs was given |
  | `hadPid`, `up`, `crashes` | checkpointed pids, whether the agent is up, and how many crashes have happened |
  | `mount` | the leaf bind-mounted into the container |

* **Actions.** There is one action per handler or continuation, each named after the step it models. `PROJECT.json` `map` gives its source lines.
  * `PrepareCreateFails`, `PrepareShared` and `PrepareIsolated` are the three outcomes of `prepare`.
  * `PrepareAwaited` and `PrepareUpdated` are `_prepare` and `__prepare`.
  * `Isolate` and `Watch`. `Resolve` is a controller's watch future resolving. `Limit` is `_watch`, which sets the one-shot promise or drops the result.
  * `Limited` is the containerizer's `limited()`, modelled from the spec. It destroys the container, and `Doomed` makes the destroy of its nested containers fair.
  * `Cleanup`, `CleanupFailed`, `CleanupErased`, `CleanupDestroys`, `Destroyed`, `DestroyFailed`.
  * A successful `recover` runs as the engine's own steps:
    * `RecoverStart` is `recover` with the synchronous part of each state's `___recover`: recreating missing cgroups and reading the enabled controllers.
    * `RecoverInsert(x)` is a deferred `____recover`, which inserts the Info.
    * `RecoverSweep` is the continuation after every state is in. It contains the `_recover` sweep (`Swept`), which skips ids that `infos` already holds, and `___recover` of the orphans.
    * `RecoverDone` is `__recover`, which starts `cleanup` of unknown orphans and hands back to the agent.
    * `rphase`, `rqueue`, `rknown` and `runknown` carry the state between these steps.
  * `RecoverFails` is a failure anywhere in the chain: a create in `___recover`, `enabled()`, or a controller's `recover`. The agent exits, and the cgroups recreated so far stay (`Recreate` in the abstract spec).
  * A failing attempt is a single step from `rphase = "idle"`. This is sound because nothing but the engine's recovery steps is enabled while the agent is down. The `cleanup` continuations of unknown orphans are never awaited.
  * The refinement maps `tracked` to `DOMAIN infos` only once `up`. The Infos that `recover` inserts along the way become the agent's at `RecoverDone`.
  * `Launch`, `Destroy` and `Crash` are the environment, modelled from the spec.
  * `CgroupInfo` is a RECURSIVE operator that walks up the parent chain.
  * `StatusInfo` is the recursion of `status()`. It goes up through `containerId.parent()` past every Info that does not isolate, and returns `NoParent` for "Unknown container".

Two further actions belong to the agent:

* `Reap` is the containerizer removing a container's checkpoint after `cleanup` has returned. The checkpoints of its nested containers go with it.
* Between `cleanup` returning and `Reap`, a restart hands the destroyed container to `recover` as a checkpointed state. `___recover` then recreates its cgroups (line 590), and it is cleaned up again.

`Cgroups2Lifecycle.tla` is the abstract specification of what the engine promises about its Info table and the cgroups on disk:

* a container enters the table together with its cgroup (`Track`);
* a cgroup can appear with no Info, after a failed launch (`Untracked`);
* an Info leaves the table only in the step that removes its cgroup and everything below it, or once the cgroup is already gone (`Forget`, I5);
* a crash empties the table (`Lose`);
* recovery puts back exactly the containers that have a cgroup, possibly recreating some (`Restore`, P8).
* a recovery that fails half-way leaves the cgroups it recreated and no entries (`Recreate`).

`Cgroups2Isolator` instantiates it with the refinement mapping `tracked <- IF up THEN DOMAIN infos ELSE {}`, `dirs <- {x : NonLeaf(x) \in cgroups}`, and checks `LifecycleRefined == Lifecycle!Spec`.

`Cgroups2Fs.tla` models the mount facade of `src/src/linux/cgroups2.hpp` and the agent bootstrap that uses it.

* **Facade.** `Enabled`, `Mount`, `Mounted` and `Unmount` return `Ok`/`Err` (the `Try` of the header):
  * `mount` errors when cgroup2 is already mounted;
  * `mounted` errors when cgroup2 is mounted somewhere other than `/sys/fs/cgroup`;
  * `unmount` errors unless cgroup2 is mounted at `/sys/fs/cgroup`, and leaves the cgroups below it alone.
* **Agent**, modelled from the spec because the agent's main is not in this repository:
  * bootstrap: `Start` (enabled) → `CheckMounted` → `DoMount` → `SetupRoot` (root cgroup and its subtree_control), or `SetupFails`;
  * `Restart` by the supervisor, and `Crash`.
* **Containers.** `Prepare` is the `CHECK(cgroups2::exists(root))` and the recursive `create` of `prepare` (part_000:186-206). It aborts the agent when the root is not visible. `Cleanup` is a container cgroup's removal.
* **Outside the agent:**
  * `OutsideMount` (init), which can fall between `mounted()` and `mount()`;
  * `OutsideUnmount` (an administrator);
  * `RemoveRoot` (MESOS-9305).

`Cgroups2Create.tla` models the isolator factory `create()` (part_000:84-159), which runs once at agent start:

* The `--isolation` flag is abstracted to its set of tokens. A token is a family (`cgroups` or another isolator family) and a name.
* `ControllersToCreate` is the first loop:
  * `core` is always in the set;
  * if the flag string contains `cgroups/all` (`MentionsAll`), every key of both creator maps goes in;
  * otherwise each `cgroups/` token's name goes in, and an unknown name is an `Err`.
* `CreateIsolator` adds the second loop: a controller's process creation may fail (`broken`), which makes the whole call an error.
* `SpecAccepts` is the spec's reading of the flag (section 6): every `cgroups/<x>` other than `cgroups/all` must name a known controller. The run compares `create()` with it over every flag built from the tokens. No pass run checks the controller set `create()` builds: a reference set written from the spec would repeat `ControllersToCreate`'s branches, so comparing the two would show nothing.

The MC modules:

* `MCCgroups2Isolator`:
  * a top-level container `p` and a nested container `c` under it;
  * controllers `{core, cpu}`, where `core` is skip-enabled;
  * `MaxCrashes = 1`.
* `MCCgroups2IsolatorWide`: two unrelated top-level containers `p` and `q`, with the same controllers and crash bound.
* `MCCgroups2Create`: both creator maps as in the code. Flags are every set of the tokens `cgroups/cpu`, `cgroups/mem`, `cgroups/devices`, `cgroups/all`, `cgroups/bogus` and `filesystem/linux`, and `cpu` may fail to start. `MC_UnknownIsFatal.cfg` uses it.
* `MCCgroups2Fs`: two container cgroups, a host with cgroup v2, `MaxOutside = 2` and `MaxCrashes = 1`.

## Runs

| run | cfg | expect | shows |
|---|---|---|---|
| isolator_core | MCCgroups2Isolator.cfg | pass | `TypeOK`. `SubtreeControlConsistent`: every existing Info's controllers (other than skip-enabled ones) are enabled on every hop, and leaves enable nothing. `CleanupFindsInfo`: no cleanup continuation runs without its Info. `StatusAnswered`: `status()` of every prepared or running container is answered by an Info that isolates, its own or an ancestor's, never by "Unknown container". `RecoveredOnce`: the `CHECK(!infos.contains)` of `____recover` holds, because the sweep never queues a container whose Info the states step has already inserted. `DestroyCompletes`: every destroy the agent asks for ends with the agent seeing the container gone (or forgotten after a crash). The property is about the agent's view. It does not check that the cgroup is removed; that is `CleanupRemovesCgroup`'s question. `RecoveryCompletes`: after a crash, `recover` eventually succeeds even when it fails and leaves recreated cgroups behind. `LifecycleRefined`: the engine implements `Cgroups2Lifecycle` (I5, P8), across crashes and the checkpoint window. |
| isolator_two_top_level | MCCgroups2IsolatorWide.cfg | pass | The three safety properties above, when the sweep meets a known and an unknown orphan of two unrelated containers. |
| limitation_enforced | MC_LimitationEnforced.cfg | pass | `LimitationEnforced`: with no agent crash, every controller watch future that resolves for a running container leads to its destroy, however the controllers' reports interleave with cleanup. |
| fs_bootstrap | MCCgroups2Fs.cfg | pass | `BootstrapCompletes`: a restarted agent reaches ready, because it asks `mounted()` before `mount()`, even when init's mount races it. |
| cleanup_leaks_nonleaf | MC_CleanupRemovesCgroup.cfg | violation | After a leaf-create failure, cleanup reports success while the non-leaf cgroup remains. |
| shared_nested_own_info | MC_SharedUsesParentInfo.cfg | violation | A shared nested container gets its own Info and cgroup. |
| isolate_skips_controllers | MC_IsolateReachesControllers.cfg | violation | `isolate` is inverted (line 686). |
| recovery_drops_core | MC_RecoveryKeepsControllers.cfg | violation | Recovery drops `core` from Info.controllers. |
| unknown_orphan_leak | MC_UnknownOrphanRemoved.cfg | violation | One failed cleanup of an unknown orphan is never retried. |
| limitation_lost_on_crash | MC_LimitationSurvivesCrash.cfg | violation | A limitation a controller reported just before an agent crash is lost. The new Info's promise is unset and the container keeps running (a spec gap). |
| cgroups_all_skips_unknown | MC_UnknownIsFatal.cfg | violation | `UnknownIsFatal`: `create()` tests the whole flag string for `cgroups/all` and then skips the token loop. `cgroups/all,cgroups/bogus` starts an isolator with every controller, although the spec says an unknown `cgroups/<x>` is fatal. |

Each property of a passing run has a mutant in `PROJECT.json`: a plausible bug in the mapped code that TLC shows breaks it.

## Bounds

* Two containers, one nested in the other, are the smallest case that shows:
  * sharing,
  * `cgroupInfo` recursion,
  * recursive destroy, and
  * nested orphans.
* Two controllers, one skip-enabled, separate the controllers that are enabled from those that are not.
* One crash is enough to reach every recovery branch:
  * known and unknown orphans;
  * missing cgroups recreated;
  * a crash during prepare or during cleanup.
* Three containers (a nested pair plus an unrelated one) did not finish within 10 minutes. Instead, the wide instance checks the safety properties on two top-level containers (274,509 states), and the nested pair covers nesting.
* In `Cgroups2Fs`, two outside events allow an unmount then a remount, or a root removal then an unmount, between any two agent steps. One crash lands the restart on an already-mounted hierarchy.
* The agent's retry of cleanup is unbounded, but the state space stays finite because a retry returns to an existing state.

* `limitation_enforced` runs with `MaxCrashes = 0`, because a crash loses a pending limitation. `limitation_lost_on_crash` shows that case with one crash.

## Fairness

The fairness assumptions are:

* weak fairness on the steps of a successful recovery (`Recovering`) and on each container's continuations;
* weak fairness on the agent's cleanup retry;
* strong fairness on destroy succeeding eventually.

This follows the code in three ways:

* libprocess runs every dispatched continuation.
* The agent retries a failed destroy on the next `cleanup` call.
* A `destroy()` that keeps failing forever would be a kernel fault and is outside the model.

In `Cgroups2Fs`, the agent's bootstrap steps and the supervisor's restart are weakly fair: a started process runs its main to the end, and a supervisor restarts a failed agent.

`Limit` (`_watch`) is an engine continuation, so it is weakly fair. The containerizer's `limited()` and its destroy of a limited container and of that container's nested containers are weakly fair too. `Resolve` has no fairness, because a controller may never report. `RecoverFails` has no fairness either. `Recovering` is weakly fair. While the agent is down, one of its steps is always enabled, and a failure returns to `RecoverStart`, so a retried recovery eventually succeeds.

There is no fairness on `Launch`, `Destroy` or `Crash`: these are environment choices.

## Not modelled

* `usage` and `status` are read-only. Only the Info that `status` resolves to is modelled (`StatusInfo`). What the controllers return is abstracted away.
* `update` after launch changes only controller-internal state, which is the content of the control files. It fans out over the same Info controllers as `isolate` and `watch`.
* In `create`, a token of another family that happens to contain `cgroups/all` is not among the tokens. Such a token also passes the substring test.
* Controller internals.
* In `Cgroups2Fs`, the engine's containers are reduced to a set of cgroups under the root. `Cgroups2Fs` is not yet composed with `Cgroups2Isolator`.
* The `CHECK(cgroups2::exists(root))` of `prepare` (MESOS-9305) is kept in `Prepare`, but no property checks it. `SetupRoot` creates the root and writes its subtree_control in one step, so a container cgroup under an unconfigured root could only come from dropping this CHECK. An invariant saying so would restate the guard. The bootstrap code that sets up the root is not in this repository, so splitting `SetupRoot` into steps would be invented.
* Two concurrent agent instances.
* `process/io.hpp` and the gRPC build patch are unrelated to the isolator.

## Further work

* An agent restart with different `--isolation` flags (the spec's third failure mode), so that `Controllers` changes across a crash. The recovered Infos keep only the controllers enabled on disk. A nested container prepared after the change can enable a new controller in an old parent's non-leaf, which the parent's Info then gains at the next recovery.
* Composing `Cgroups2Fs` with the engine, so that an unmount under running containers reaches `_cleanup`'s `exists()` check and `recover`.
* Three controllers and three containers, once the state space allows it.
