# Portage: a TLA+ verification project

Portage is a Kubernetes operator that copies a tenant (a namespace and its
data) from a *source* cluster to a *dest* cluster, keeps the copy warm, and
moves the users over. This directory holds TLA+ models of its controllers,
the TLC configurations that check them and proofs for TLAPS. `PROJECT.json`
maps every definition to the Go lines it stands for.

## The system

A **ClusterPair** names the two clusters. A **Policy** names a tenant and says
how it is protected; its status holds the artifacts of the last Backup. An
**Action** is one operation on a Policy: Backup, Replicate, Restore or Cutover.
Everything runs in one controller process. A reconciler is called with a key
from a work queue, reads objects from an informer cache, calls both clusters
and writes a status; anything unfinished is asked for again later.

| Part | Code | Module |
|---|---|---|
| Dispatch of Actions, cached reads, status writes, requeue | `internal/controller/action_controller.go` | `ActionStore`, and the frame of each Action module |
| When an Action may be Succeeded | `pkg/actionphase` | `ActionGate` |
| Restore: pass and machine | `runRestore`, `pkg/restore`, `pkg/dump` | `RestoreAction` |
| Restore: what it does to claims, manifests and databases | `pkg/export`, `pkg/transform`, `pkg/apply`, `pkg/snapshots`, `pkg/heal` | `VolumeRestore` |
| Cutover: pass, machine, scaling, traffic hook, promotion | `runCutover`, `pkg/cutover`, `pkg/workloads`, `pkg/traffic`, `pkg/movers/postgres` | `CutoverAction`, and `Handover` for what it promises |
| Replicate of a volume | `runReplicate`, `pkg/movers/volsync` | `VolSyncPair`, and `WarmCopy` for what it promises |
| Replicate and Restore of the object graph | `cluster_objects.go`, `pkg/clusterobjects` | `ObjectGraph` |
| Backup and the Policy controller | `runBackup`, `pkg/backup`, `pkg/usefulness`, `policy_controller.go` | `PolicyBackup` |

Restore reads what Backup left in the Policy; Cutover promotes what Replicate
set up; the Policy controller creates Actions. Replicate Actions have a queue
of their own, all other Actions share one. The components of `PROJECT.json`
list every part, modelled or not, with the reason.

Four modules are compositions. `VolSyncPair` puts Replicate passes, Backup
passes and both VolSync movers on one pair. `PolicyBackup` puts the Policy loop
and the Backup Actions of several windows on one Policy status. `ObjectGraph`
puts a Replicate and a Restore pass on one dest. `VolumeRestore` adds VolSync
and the storage and pod machinery of both clusters to a Backup and a Restore.

## The modules

**`ActionStore`** is how a controller sees its Action: the stored object
(`act`), the informer's copy (`cache`), whether the copy is current (`synced`)
and the work queue (`queued`). A write is `Get` from the cache, change,
`Update`; the API server refuses it unless the copy is current, so a write is
guarded by `synced`, and retries that run out are the action `Conflict`. An
Update that changes nothing raises no event.

**`ActionGate`** is `Skipped` and `CanSucceed`: the facts of one workload row
and the condition under which a set of rows is a success. Of a message only
the shape counts that the code branches on.

**`RestoreAction`** is one Restore. `pc` is the place in the pass, `job` its
locals:

| Model | Code |
|---|---|
| `Ignore`, `Begin` | `Reconcile`: terminal phases, resumption of a retryable failure |
| `PolicyMissing`, `PolicyRead`, `PairMissing`, `Walk` | Get of the Policy, write of Pending, `loadPair`, `classify.Walk` |
| `Apply`, `ApplyFails` | `apply.Typed` in phase Rehydrating |
| `VisitStateless` ... `VisitVolume` | one iteration of the loop of `runRestore`, by path |
| `DumpWaits`, `DumpFails`, `DumpApply`, `Remember` | the replay of a dump and `rememberDumpApplied` |
| `Seed`, `Fact`, `NextPhase`, `Advance` | `seedWorkloads`, `applyFacts`, `restore.Advance` |
| `WriteStatus`, `Conflict`, `Abort` | `writeStatus`, `retryLater`, a crash |

`replays` counts how often a dump really ran in dest. The engines in `Strict`
refuse a second replay (`Refused`): `psql` runs with `ON_ERROR_STOP` and stops on
what the first one created. `steady` and `cut` are
history: the workloads useful on every pass, and those replayed by a pass that
wrote no result. `world` is unsettled while the inventory and the artifacts
may differ on every read and calls may fail; `Settle` fixes them.

**`CutoverAction`** is one Cutover. `source` and `dest` hold replicas,
annotation, pods and a data version per workload; `traffic` is where the hook
last sent the users. `VisitFreeze`, `VisitLag`, `VisitPromotePostgres`,
`VisitPromote` and `VisitRaise` are the iterations of the loop by phase;
`CheckFrozen`, `Switch` and `NoHook` what follows it; `Rollback` undoes it. The
surroundings go on meanwhile: the user asks for rollback (`AskRollback`), pods
follow their replica count late, the source writes, VolSync copies, the standby
replays, and the age of its last transaction grows. A standby is `told` to
promote itself and is a `primary` some time later: `pg_promote` waits a minute at
most, then prints `f` and exits with 0, and the code reads only the exit
(`PromoteOK`, `PromotionEnds`).

**`Handover`** says what a Cutover amounts to, in six variables: the source is
frozen, the standbys are told one by one to become primaries, the users are sent
to dest, the Action is reported done, each only after the one before unless a
rollback was asked for. A standby becomes a primary in its own time (`Become`). `HandoverSpec` in `CutoverAction` is its specification, with `frozen`, `told`,
`primary` and `users` read off the two clusters and the traffic hook, and `undo`
and `done` off the stored Action. `Reopen` is there because the report is not
final: a pass that began from an older copy may write its phase over Succeeded.
What was handed over stays so even then.

**`VolSyncPair`** is one volume kept warm. `pass` goes through
`Mover.Replicate` call by call: claim, secrets, namespace, copied secrets, dest
claim, source, destination, scratch claims, then probe and prune. `backup` goes
through the part of `Mover.Backup` that shares the source half. `push` and
`pull` are the mover Jobs VolSync starts whenever it finds a half to serve. The
repository carries the key it was initialised with; initialising it twice gives
the key `Mixed`, which nobody can read. A deleted namespace, a dest claim deleted
by itself, a user pod, a backup tool on the scratch claim, a pin to a node dest
does not have and a failing call are faults. Errors that the code drops have
actions of their own: a node list that fails reads as an empty one, so every pod
with a host name is deleted, running ones too (`StripBlindly`, `PodReturns`), and
a Job or pod list that fails reads as nothing pinned (`blind` in `Probe`).

**`WarmCopy`** says what that amounts to, in four variables: the repository is
initialised once and keeps its key, holds only what the source held, and the
dest volume receives snapshots in order. `WarmCopySpec` in `VolSyncPair` is its
specification under `data <- source.data, key <- repo.key, snap <- repo.snap,
copy <- dest.copy`.

**`PolicyBackup`** is the Policy loop (`pass`) beside one Backup Action per name
of an RPO window (`acts`, `run`). `rpoBackupName` cuts a name at 63 characters, so
windows may share one; `Names` are the windows whose name is new. A Backup whose
Policy or ClusterPair cannot be read is Failed for good (`BackupRefused`). Both write `pol`, the Policy status. Each status write
is one atomic step, because `RetryOnConflict` reads again before it writes;
what a pass carries into it was read earlier. `store` is the object store,
where a dump is either full or of the certs-only size. `auto` and `copier` are
the Actions `restore-auto-<policy>` and `replicate-<policy>`.

**`ObjectGraph`** has one object of every kind the code treats differently: a
Capsule Tenant with owners, a namespace of it, a CRD, a custom resource, a
TenantOwner whose name is the one Portage uses. A pass writes them in rank
order; `tenantPut`, `ownerPut` and `nsPut` are the second halves of
read-modify-writes, and `fresh` says whether the resourceVersion still holds.
`TenantReconciled`, `UsersReconciled`, `NamespaceCollected`, `NamespaceEnds` and
`DefinitionServed` are Capsule and the API server, external. Calls are merged
into one step where no other actor can tell them apart: the list with the first
Tenant call, a conflict with the Get that follows it, the existence check of a
Tenant with the read of its owners, the look at admitted owners with the create
of the namespace, the writes of the custom resource and the TenantOwner, and
the Gets of Attest. A failing call gives the object up with an error, or, when it
is Forbidden and the object is not a namespace to be written, without one
(`Skippable`).

**`VolumeRestore`** is one Deployment with claims. Claims, snapshots, manifests
and pods are kept per cluster; a claim records what it holds: tenant data of a
claim, what an application writes on an empty volume (`blank`), or nothing. A
pod template is the fields that `transform` and `heal` look at. A pair without
remote credentials is one cluster, where source and dest are the same objects
(`Dest`). Phases and dump annotation are those of `RestoreAction`, without its
cache and rows.

**`MCRestore`**, **`MCCutover`** and **`MCVolume`** give the constants of their
modules values a `.cfg` cannot express; the other modules are run as they are.

## What TLC checks

Runs that pass:

| Run | Instance | Shows |
|---|---|---|
| `restore_dump` | Postgres with a dump, a stateless workload | `DumpLanded`, `ReplayedAgainOnlyIfCut`, `LiveDataKept`, `UsefulCounts` |
| `restore_graph` | object graph, workload of a plugin mover with a message-less artifact | `FreshEvidence` |
| `restore_settles` | Postgres with a dump, fair | `RestoreSettles` |
| `cutover_order` | VolSync Deployment and StatefulSet | `SwitchedMeansFrozen`, `OriginalRemembered`, `CutoverEvidence` |
| `cutover_standby` | Postgres of two replicas cut over before, source writing | `HandoverSpec` (refinement), `SwitchedMeansTold` |
| `cutover_settles` | StatefulSet and object graph, fair | `CutoverSettles` |
| `volsync_pair` | one volume, two passwords, two versions, two faults, fair | `WarmCopySpec` (refinement), `DestinationServed`, `ProbedMeansCopied`, `CatchesUp`, `QuietUnderPod`, `GoneWithClaim` |
| `policy_backup` | a dumped and a moved workload, three windows with two names, one fault, fair | `UsefulIsRestorable`, `HealthSettles`, `WindowServed`, `BackupsEnd`, `SucceededIsRestorable`, `AutoRestoreHasBackup`, `RestoreComes`, `CopierFollowsFlag` |
| `object_graph` | one object per kind, a Replicate and a Restore, one event, fair | `GrantsKept`, `OwnedStays`, `AttestedMeansOwned`, `GraphLands`, `DeletionFollows` |
| `volume_restore` | two claims, two templates, in place and remote, two events, fair | `HealAgrees`, `KeyStaysPrivate`, `InPlaceRestored`, `DatabaseRestored`, `RestoreEnds` |

In words:

* *Restore.* A dump lands before the Action waits for Ready. It is replayed
  again only after a pass that replayed it was cut short, and not over the data
  of a Restore that waits for Ready or is done. Succeeded rests on what the last
  pass read and not on an earlier one.
* *Cutover.* Users are on dest only with the source frozen and every Postgres
  told to promote itself, and the steps come in this order whatever copy of the Action a pass
  works on. The replica count from before the freeze is never lost.
* *Replicate.* The restic repository is initialised once, by the source, over
  every deletion and re-creation of the pair. Dest always has the source's
  password when it has a destination. After faults the copy catches up; under a
  running user pod no mover stays.
* *Backup and Policy.* What the status calls useful can be restored, a Backup
  succeeds only with a restorable artifact of every workload it listed, and the
  automatic Restore is asked for only when every workload has a backup. Whoever
  writes last, health settles on the artifacts that are published. The name of
  each window gets its Backup, a lost claim its Restore, and the live replica follows its
  flag.
* *Object graph.* Grants and ownership on dest survive two passes, Capsule and
  the operators writing at once. An attested namespace of a Tenant has a Tenant
  ownerReference. The graph lands although
  the source's TenantOwner is copied over Portage's own.
* *Volumes.* `apply` and `heal` never undo each other. Restored Postgres data is
  never mounted with an fsGroup. A Restore in place succeeds only with its own data
  in every claim that was not lost and a snapshot's in every recreated one, a
  Postgres Restore only with the database's own data.
* With working calls, every Action ends that has what it needs.

Runs that violate a sentence of the repository's own docs (quoted in the
findings of `PROJECT.json`):

| Run | Sentence, as a property | What the code does |
|---|---|---|
| `cutover_loses` | `NoLostWrites` | a copy from before the freeze counts as lag 0 |
| `volume_empty` | `DataRestored` | apply creates the exported claim blank, and a Bound claim counts as restored |

The properties that hold are stated with the exceptions the code makes:

* `ReplayedAgainOnlyIfCut` and not "never twice": the replay and its annotation
  are two calls, and a crash between them replays again.
* `LiveDataKept` speaks of workloads that were useful on every pass, as
  `DumpLanded` does. Of others it is false: a pass on a copy from Rehydrating
  replays the dump of a workload that was first found after the Action had gone
  on to WaitingReady. The counter saturates at `MaxReplays`, so TLC's instance
  sees a first and a second replay; the theorem is for every `MaxReplays`.
* `UsefulCounts` leaves `Quiet` workloads out: `applyFacts` keeps the message of
  an earlier pass when the artifact has none, so "skipped:" survives. A Restore
  of nothing else then waits without end, so `RestoreSettles` is checked with
  artifacts that have messages.
* `RestoreSettles` has an exception, `Stranded`: a pass that is cut after `psql`
  replayed a dump and before the annotation leaves a database on which every
  later replay fails, so the Restore neither succeeds nor fails for good. It
  assumes resyncs: `fail` does not requeue, and a status equal
  to the stored one raises no event, so a retryable Failed Restore may wait for
  the next resync.
* A terminal phase is not stable. A pass that began from an older copy writes
  its own result over it; `FreshEvidence` speaks of each entry into Succeeded.
* `CutoverSettles` holds for a tenant without stateless workloads, with one
  replica per StatefulSet and without a Postgres standby, whose lag is the age of
  its last transaction and grows on a frozen source.
* `SwitchedMeansTold` and not "promoted": the answer `pg_promote` prints is not
  read, so users may arrive while the server is still a standby.
* `ProbedMeansCopied` excepts a dest claim that was deleted by itself. The
  ReplicationDestination keeps its lastSyncTime, `ensureDestPVC` makes a blank
  claim, and the pair is probed as copied until the next pull; `CatchesUp` shows
  that this pull comes. `DestinationServed` excepts the time without the claim.
* `OriginalRemembered` says that the count is not lost, for a source without an
  annotation from an earlier cutover, or with the same count in it. Rollback does
  not always use it: a Deployment is scaled to 1, an old annotation is not
  renewed, and errors are dropped before RolledBack is written.
* `UsefulIsRestorable`, `SucceededIsRestorable` and `AutoRestoreHasBackup` leave
  out `Measured` workloads, for which nothing is captured, see below.
* `WindowServed` is about the name of the current window. A window that shares
  its name with an earlier one gets no Backup of its own.
* `InPlaceRestored` leaves open whose data a recreated claim holds in a workload
  with several claims, see below.
* `AttestedMeansOwned` speaks of a Tenant ownerReference: `HasCapsuleOwner` reads
  its kind, neither its name nor its UID.
* `RestoreComes` speaks of the first Restore: `restore-auto-<policy>` is left
  alone once it exists, ended or not.
* `GraphLands` leaves out a source TenantOwner that stays in deletion, which
  takes Portage's registration away in every pass, and a dest namespace that was
  there before without an owner.
* `RestoreEnds` is about a Restore that is `Recoverable`. Not so: a source scaled
  to zero by a Cutover, whose replica count Restore copies; an exported claim
  with the dataSource of a snapshot that is gone, which stays Pending; a Postgres
  that is full already, where `psql` with `ON_ERROR_STOP` fails in every pass.

### Divergences met while modelling

These disagreements between the code and its docs were met on the way, each with
a behaviour of the model. The properties above are stated around them.

* An artifact that becomes useful in WaitingReady counts for the gate, and its
  dump is never replayed (`action_controller.go:553`; the comment at :557 says
  "Logical dump must land").
* A dry-run Restore replays dumps in its first pass, before `Advance` looks at
  the flag (`action_controller.go:563`; `action_types.go:70`: "DryRun runs
  preflight and classification only."). A dry-run Cutover freezes the source.
* With a stateless workload in the tenant a Cutover stays in WaitingReady:
  `cutover/machine.go:91` asks every row for Ready, the loop at
  `action_controller.go:839` reads the stateful ones.
* Freezing a StatefulSet of several replicas turns the claims of its higher
  ordinals into workloads of their own (`walk.go:201`), which `ScaledToZero`
  never accepts (`scale.go:93`), so Quiescing does not end.
* A pass cut after `pg_promote` took effect finds a primary, on which
  `pg_promote` fails for ever (`postgres.go:132`).
* `Promote` discards what `pg_promote` prints, so a server that is still waiting
  counts as promoted (`postgres.go:132`).
* `LatestReady` takes the first ready snapshot of the workload and does not read
  its `portage.io/pvc` label (`csi.go:121`), so a missing claim of a workload with
  several can be made from the snapshot of another (`README.md:95-96`: "missing
  PVCs are recreated **by original name** from a CSI VolumeSnapshot").
* A policy name long enough that `rpoBackupName` cuts off digits of the window
  (`policy_controller.go:338`) gives several windows one Action (comment at :212:
  "creates a Backup Action once per RPO window").
* A Policy or ClusterPair that cannot be read for a moment ends a Backup in Failed
  (`action_controller.go:193`, `:204`), where other failing calls are retried.
* `Prune` lists sources. A destination whose source is gone and whose workload
  has left the inventory stays (`docs/cutover.md:56-57` says leftovers are
  pruned).
* Between a Backup's write and the next Policy pass, BackupHealthy may belong to
  artifacts that are no longer there (`policy_controller.go:188`); it settles.
* The size of live data makes an artifact useful for an engine with a size
  command and neither dump nor mover (`usefulness.go:59-60`, `:120`), though
  nothing was captured.
* An object that is stored while it is being deleted is created again by a
  Restore (`snapshot.go:41`; `sync.go:65` and `docs/backup-restore.md:94` speak of
  deletion).

### Bounds

Passes, retries and resyncs are unbounded everywhere; so are crashes and
failing calls in `RestoreAction` and `CutoverAction`.

| Bound | Value | Why it is enough |
|---|---|---|
| `MaxReplays` | 2 | saturates; the properties ask for more than 0 and more than 1 |
| `MaxWrites` | 0 or 1 | one write tells a current copy from a late one |
| `MaxReplicas` | 2 | the least at which "one" and "the count it had" differ |
| workloads of an Action | 2 | one is visited before the other, and the gate counts one and skips the other; they do not interact otherwise |
| `MaxData` | 2 | an older and a newer snapshot |
| `MaxFaults` of `VolSyncPair` | 2 | one fault and another during its repair |
| `Keys` | 2 | a password and a different one |
| `MaxSlot`, `Names` | 3, {1, 3} | two Backups overlap, and a window in between shares the name of the first |
| `MaxDumps` | 2 | the store fills, and the third dump fails |
| `MaxFaults` of `PolicyBackup` | 1 | a failing call, a restart or a change of the world in every interleaving of the loop with two Backups |
| `Attempts` | 2 | a conflict that is retried and retries that run out; the code has 4 |
| `MaxEvents`, `MaxRestores` of `ObjectGraph` | 1 | an event before, during or after a Restore that overlaps Replicate |
| `MaxEvents` of `VolumeRestore` | 2 | a loss and a failure during its Restore |

`VolumeRestore` also bounds the order of things: Backups end before the Restore
starts, and the losses of a Restore in place precede it.

### Fairness

`WF(Pass)`, `WF(Replicate)`, `WF(PolicyPass)`, `WF(BackupPass)`, `WF(PassStep)`,
`WF(RestoreStep)`: a controller-runtime worker takes a queued key, and the pass,
being sequential Go code with timeouts on its calls, ends; these loops ask to be
requeued while they have work. `WF(Deliver)`: a watch that drops is listed again.
`WF(Resync)` (Restore only): the informer's resync, every ten hours by default.
`WF(Replication)`, `WF(PushMover)`, `WF(PullMover)`: VolSync's schedule,
streaming and time go on. The Capsule controllers, the API server's garbage
collection and the provisioner, scheduler and kubelet of `VolumeRestore` are
level-triggered controllers of the same kind. Faults, interventions, `Settle` and
the first sync of `PolicyBackup` have no fairness: the properties speak of what
follows when they stop, or leave the wait open.

The settling specifications of Restore and Cutover and the specification of
`VolumeRestore` stop when the Action is finished, so the runs of these do not
check for deadlock.

## What is proved

The theorems hold for every value of the constants that satisfies the named
assumptions of the modules, which TLC evaluates on every run.

**`RestoreActionProofs`** (`ClassesDisjoint`, `DryRunIsFlag`,
`MaxReplaysPositive`): *TypeCorrect*, *DumpLands* (`DumpLanded`), *Fresh*
(`FreshEvidence`), *UsefulGates* (`UsefulCounts`), *ReplaysOnce*
(`ReplayedAgainOnlyIfCut`) and *LiveDataStays* (`LiveDataKept`), for any inventory
and any interleaving of crashes, failures and late reads.
`DumpLanded` speaks of the stored Action only and is not inductive. A pass
works on the cached copy, which may be behind, and writes what it holds in `job`
over the stored Action. `LandedInv` says it of all three copies. For each of
`act`, `cache` and `job` (`Sound`): a workload whose annotation is recorded has
landed, and a status that is past Rehydrating has every steady replayable
workload landed. For the pass in flight (`PassSound`): a workload this pass
counts as rehydrated has landed, is skipped or was not steady. `Visited`
abstracts what one visit may change, so that the seven kinds of visit share one
argument; `Advance` is the only step that leaves Rehydrating.

*Fresh* and *UsefulGates* share `Evidence`: in the loop a row is Ready and
probed only if this pass read it, a useful workload it is done with is not
skipped, and a Succeeded it is about to write passed the gate on such rows.
`OnceInv` of *ReplaysOnce* says where a replay is recorded: in the annotation
that the pass which made it has stored (`Recorded`), or in the copy every later
pass starts from (`Known`), or the pass was cut. `MarkedInv` of *LiveDataStays*
says that a status past Rehydrating was computed with every steady dump
annotated, and that it is stored over a current copy; so the copy a later pass
starts from, even if its phase is old, has the annotations.

**`CutoverActionProofs`**: *TypeCorrect*, *FrozenWhenSwitched*
(`SwitchedMeansFrozen`), *ToldWhenSwitched* (`SwitchedMeansTold`),
*EvidenceBehindSuccess* (`CutoverEvidence`) and *OriginalKept*
(`OriginalRemembered`, for marks that are absent or equal to the replicas), for
every inventory, every assignment of claims to ordinals and all counts. Freeze,
promotion and switch are facts of different passes, and a pass may act on a
stale phase, so the invariant `CutInv` carries them with every copy of the
status: `Sound(phase, rollback)` says what a phase of the stored, the cached and
the in-flight status implies about source and dest, and `PassSound` what the
locals of a pass have earned so far. Nothing but a rollback unfreezes the source,
and nothing makes a primary a standby again, which is what makes a stale copy
harmless.
*HandsOver*, `Spec => HandoverSpec`, rests on the same invariant: each step is a
stutter or one step of `Handover`, whose guards are what `CutInv` says of the
phase the pass works in.

**`VolSyncPairProofs`** (`PairAssumption`): *TypeCorrect*, *Served*
(`DestinationServed`), *Probed* (`ProbedMeansCopied`) and *Refinement*:
`Spec => WarmCopySpec`, every step is a step of the warm copy or a stutter.
`PairInv` adds to the types what each place of a pass has prepared (`PassOK`, `Prepared`), that all copies of the password
that exist are equal (`Passwords`), that a source which reports a sync implies an
initialised repository (`Evidence`), and that dest is never ahead of the
repository nor the repository of the source (`Order`). `Evidence` is what rules
out a second initialisation: a destination exists only after the sync. *Probed*
adds `Filled`: a destination that reports a sync has filled the volume dest has
now, because what empties the volume takes the destination object along, except
for the claim that is deleted by itself (`dest.lost`).

**`VolumeRestoreProofs`** (`VolumeAssumption`): *TypeCorrect*, *HealersAgree*
(`HealAgrees`), *KeyPrivate* (`KeyStaysPrivate`), *RestoresInPlace*
(`InPlaceRestored`) and *RestoresDatabase* (`DatabaseRestored`), for any number
of claims, any templates and any class maps. `VolumeInv` says that what a pass
has rendered is sanitized (`Rendered`), that snapshots hold tenant data or
nothing that binds (`Snapped`), what the claims of home and away can be
(`HomeKept`, `AwayKept`), what the pass has established (`PassOK`) and that an
annotated replay left the database its own data (`Replayed`). `HomeKept` carries
*RestoresInPlace*: a bound claim without a dataSource holds its own data, one with
a dataSource that of a snapshot, and a claim that waits names one.

**`ObjectGraphProofs`** (`GraphAssumption`): *GraphTyped*, *GrantsStay*
(`GrantsKept`), *ReferenceStays* (`OwnedStays`) and *AttestOwned*
(`AttestedMeansOwned`), for any owners and any number of attempts, events and
Restores. Both halves of a read-modify-write are steps of their own and the other
pass, Capsule or an operator may come between them. So `GraphInv` speaks of what
a pass holds: what it is about to write has every owner the Tenant has
(`KeepsOwners`) and the reference the namespace has (`KeepsReference`), or its
resourceVersion is stale and the write will be refused. `Adopts` carries the
verdict of `syncNamespace` to Attest: past the namespace without an error, the
namespace has its Tenant reference; `Agrees` says that no pass works on an outdated answer
to whether there is one.

**`PolicyBackupProofs`** (`PolicyAssumption`): *TypeCorrect*, *UsefulRestorable*
(`UsefulIsRestorable`), *AutoRestores* (`AutoRestoreHasBackup`) and
*SucceedsRestorable* (`SucceededIsRestorable`), for any workloads and any number of
windows. A Backup publishes artifacts it captured earlier, while others add to the store, so
`BackedInv` says that what is useful is restorable both of the published
artifacts and of those every pass still holds. It is kept because the store is
only appended to and a volume that has synced stays so (`Grows`). `VerdictInv`
takes this to the Policy pass: the artifacts it read were backed when it read
them, so its verdict is about backups that are still there when it asks for the
Restore, although the artifacts may have been replaced.

Model-checked only are the liveness properties, as fairness is out of the
prover's reach: `RestoreSettles`, `CutoverSettles`, `CatchesUp`, `QuietUnderPod`,
`GoneWithClaim`, `HealthSettles`, `WindowServed`, `BackupsEnd`, `RestoreComes`,
`CopierFollowsFlag`, `GraphLands`, `DeletionFollows` and `RestoreEnds`. Every safety
property of a passing run has a theorem. The type invariants of `CutoverAction`
and `PolicyBackup` are proved only; their runs are spent on the other properties.

## Not modelled

* Setting up a Postgres standby (`standby.go`, and its branch of Replicate). The
  Job that runs `pg_basebackup` mounts no volume, so its steps share no state
  with the server that is promoted later.
* StatefulSets in `VolumeRestore`: their controller makes lost claims again,
  blank, before Restore does, and class maps are not applied to
  `volumeClaimTemplates`. The module models a Deployment.
* The claims of higher ordinals in TLC's instances of Cutover; the theorems cover
  them.
* The git and webhook renderers and the plugin protocol: one external call each,
  whose result is used like the built-in one.
* Messages beyond their shape, names other than those of Backups, timestamps, ages of
  snapshots; deletion of an Action and edits of its spec other than `rollback`;
  leader election (one process runs).
* The classification catalogue, list of excluded kinds and probe commands are
  data. The object store, exec transport, cluster credentials, metrics and
  command line are I/O, whose failures are failing calls.
