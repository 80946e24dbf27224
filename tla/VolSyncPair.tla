----------------------------- MODULE VolSyncPair -----------------------------
(***************************************************************************)
(* One volume kept warm in dest: the ReplicationSource and                 *)
(* ReplicationDestination that volsync.Mover.Replicate applies for a       *)
(* workload, the passes of a Replicate Action that keep them, the Backup   *)
(* passes that share the source half, and the VolSync movers, which start  *)
(* whenever VolSync finds a pair to serve.  ObjectStore transport, restic. *)
(*                                                                         *)
(* A Replicate pass works through its calls one by one.  Any call may fail *)
(* (the bound on faults is MaxFaults), and a failed call leaves the        *)
(* workload for the next pass, after the pruning that ends every pass.     *)
(* Replicate never stops: the pass is started again and again.             *)
(***************************************************************************)
EXTENDS Naturals

CONSTANTS
    Keys,     \* restic passwords EnsureSecrets can generate
    NoKey,    \* no secret, or a repository never initialised
    Mixed,    \* the key of a repository that was initialised twice
    MaxData,  \* bound: versions of the source volume
    MaxFaults \* bound: calls, movers and passes that fail, and interventions

ASSUME PairAssumption ==
    /\ NoKey \notin Keys
    /\ Mixed \notin Keys \cup {NoKey}
    /\ MaxData \in Nat \ {0}
    /\ MaxFaults \in Nat

VARIABLES
    left,    \* faults still to come
    source,  \* source cluster: workload listed, claim there, its version
    dest,    \* dest cluster: namespace, claim, whether one was lost since the
             \* volume was filled, version, user pod, pin
    secret,  \* restic password in the secret of each cluster
    rs,      \* ReplicationSource
    rd,      \* ReplicationDestination
    repo,    \* the repository: key and version of its newest snapshot
    push,    \* mover Job of the source
    pull,    \* mover Job of the destination
    cache,   \* restic cache claim in dest: there, marked, held by a backup tool
    pass,    \* the pass of the Replicate Action
    status,  \* the Action reports "replica lag=0; dest probed"
    backup   \* place of a Backup pass in volsync.Backup

vars == <<left, source, dest, secret, rs, rd, repo, push, pull, cache, pass, status, backup>>

MaybeKey == Keys \cup {NoKey}
Version == 0 .. MaxData

NoMover == [at |-> "idle", key |-> NoKey, data |-> 0, orphan |-> FALSE, pinned |-> FALSE]
NoCache == [on |-> FALSE, marked |-> FALSE, held |-> FALSE]
NoDest == [ns |-> FALSE, claim |-> FALSE, lost |-> FALSE, copy |-> 0, live |-> "off",
           pin |-> FALSE]
NoPair == [on |-> FALSE, synced |-> FALSE, paused |-> FALSE]

\* Locals of runReplicate and Mover.Replicate.  next is where deletePair
\* returns to.
NoPass == [at |-> "idle", keep |-> FALSE, synced |-> FALSE, mounted |-> FALSE,
           probed |-> FALSE, failed |-> FALSE, next |-> "idle"]

Init ==
    /\ left = MaxFaults
    /\ source = [listed |-> TRUE, claim |-> TRUE, data |-> 1]
    /\ dest = NoDest
    /\ secret = [source |-> NoKey, dest |-> NoKey]
    /\ rs = NoPair
    /\ rd = NoPair
    /\ repo = [key |-> NoKey, snap |-> 0]
    /\ push = NoMover
    /\ pull = NoMover
    /\ cache = NoCache
    /\ pass = NoPass
    /\ status = FALSE
    /\ backup = "idle"
-----------------------------------------------------------------------------
(* The Replicate pass *)

At(s) == pass.at = s
GoTo(s) == pass' = [pass EXCEPT !.at = s]

Fault == left > 0 /\ left' = left - 1

\* What a pass, a mover or the tenant leaves alone.
PassFrame == UNCHANGED <<source, repo, push, backup>>
Reads == UNCHANGED <<dest, secret, rs, rd, pull, cache, status>> /\ PassFrame

\* An error is recorded, the workload left, and the pass goes on to prune.
GiveUp == pass' = [pass EXCEPT !.at = "prune", !.failed = TRUE]

\* classify.Walk; a workload that is not in the inventory is not visited.
Walk ==
    /\ At("idle")
    /\ pass' = [NoPass EXCEPT !.at = IF source.listed THEN "claim" ELSE "prune",
                              !.keep = source.listed]
    /\ UNCHANGED left /\ Reads

\* Mutant: a missing claim ends the visit without deletePair.
CheckClaimOnly ==
    /\ At("claim")
    /\ GoTo(IF source.claim THEN "secrets" ELSE "probe")
    /\ UNCHANGED left /\ Reads

CheckClaim ==
    /\ At("claim")
    /\ \/ source.claim /\ GoTo("secrets")
       \/ /\ ~source.claim
          /\ pass' = [pass EXCEPT !.at = "dropSource", !.next = "probe"]
    /\ UNCHANGED left /\ Reads

\* An existing password is kept.
WithPassword(k) == IF secret.source = NoKey THEN k ELSE secret.source

EnsureSecrets ==
    /\ At("secrets")
    /\ \E k \in Keys : secret' = [secret EXCEPT !.source = WithPassword(k)]
    /\ GoTo("namespace")
    /\ UNCHANGED <<left, dest, rs, rd, pull, cache, status>> /\ PassFrame

EnsureNamespace ==
    /\ At("namespace")
    /\ dest' = [dest EXCEPT !.ns = TRUE]
    /\ GoTo("copy")
    /\ UNCHANGED <<left, secret, rs, rd, pull, cache, status>> /\ PassFrame

\* Mutant: the secret is left to a later pass.
CopySecretsLater ==
    /\ At("copy")
    /\ dest.ns
    /\ GoTo("volume")
    /\ UNCHANGED left /\ Reads

CopySecrets ==
    /\ At("copy")
    /\ dest.ns
    /\ secret' = [secret EXCEPT !.dest = secret.source]
    /\ GoTo("volume")
    /\ UNCHANGED <<left, dest, rs, rd, pull, cache, status>> /\ PassFrame

\* The dest claim is made, blank, from the source claim; one that is there
\* stays.  A ReplicationDestination that is there keeps its status.
EnsureDestPVC ==
    /\ At("volume")
    /\ dest.claim \/ (dest.ns /\ source.claim)
    /\ dest' = [dest EXCEPT !.claim = TRUE]
    /\ GoTo("strip")
    /\ UNCHANGED <<left, secret, rs, rd, pull, cache, status>> /\ PassFrame

\* stripDestScheduling: templates and pods that name a foreign host, then
\* the mover Jobs that carry such a name.
StripDestPods ==
    /\ At("strip")
    /\ dest' = [dest EXCEPT !.pin = FALSE]
    /\ GoTo("unpin")
    /\ UNCHANGED <<left, secret, rs, rd, pull, cache, status>> /\ PassFrame

\* A node list that fails is an empty one (destHostnames), as is a list without
\* the host of the pod, not Ready for the moment: every pod that was scheduled
\* looks pinned and is deleted, the running one too, for its controller to make
\* again.  The same list ends a mover Job with a host name, as in PullFails.
Deleted(live) == IF live = "up" THEN "back" ELSE live

StripBlindly ==
    /\ At("strip")
    /\ dest' = [dest EXCEPT !.pin = FALSE, !.live = Deleted(@)]
    /\ GoTo("unpin")
    /\ Fault
    /\ UNCHANGED <<secret, rs, rd, pull, cache, status>> /\ PassFrame

DeletePinnedJobs ==
    /\ At("unpin")
    /\ pull' = IF pull.pinned THEN NoMover ELSE pull
    /\ GoTo("read")
    /\ UNCHANGED <<left, dest, secret, rs, rd, cache, status>> /\ PassFrame

\* scrubMisplaced deletes nothing that is in its place.  Whether the source
\* has a snapshot is read before the source is applied.
SourceHasSnapshot ==
    /\ At("read")
    /\ pass' = [pass EXCEPT !.at = "source", !.synced = rs.on /\ rs.synced]
    /\ UNCHANGED left /\ Reads

\* Mutant: the update forgets spec.paused.
AppliedUnpaused(pair, paused) ==
    [on |-> TRUE, synced |-> pair.on /\ pair.synced, paused |-> FALSE]

\* applyNamespaced: create, or update and keep the status.
Applied(pair, paused) ==
    [on |-> TRUE, synced |-> pair.on /\ pair.synced, paused |-> paused]

\* Mutant: the destination is applied without waiting for the source.
AfterSourceAtOnce == "look"

AfterSource == IF pass.synced THEN "look" ELSE "scratch"

ApplySource ==
    /\ At("source")
    /\ rs' = Applied(rs, FALSE)
    /\ GoTo(AfterSource)
    /\ UNCHANGED <<left, dest, secret, rd, pull, cache, status>> /\ PassFrame

DestUserMounted ==
    /\ At("look")
    /\ pass' = [pass EXCEPT !.at = IF dest.live = "up" THEN "kill" ELSE "destination",
                            !.mounted = dest.live = "up"]
    /\ UNCHANGED left /\ Reads

DeleteMoverJobs ==
    /\ At("kill")
    /\ pull' = NoMover
    /\ GoTo("destination")
    /\ UNCHANGED <<left, dest, secret, rs, rd, cache, status>> /\ PassFrame

ApplyDestination ==
    /\ At("destination")
    /\ dest.ns
    /\ rd' = Applied(rd, pass.mounted)
    /\ GoTo("scratch")
    /\ UNCHANGED <<left, dest, secret, rs, pull, cache, status>> /\ PassFrame

\* ProtectScratchPVCs marks the cache claims so that backup tools skip them,
\* then deletes the backup Jobs that hold one already.
Marked(c) == [c EXCEPT !.marked = c.on]
\* Mutant: marking is all; Jobs already attached stay.
EvictedNone(c) == c

Evicted(c) == [c EXCEPT !.held = FALSE]

MarkScratch ==
    /\ At("scratch")
    /\ cache' = Marked(cache)
    /\ GoTo("evict")
    /\ UNCHANGED <<left, dest, secret, rs, rd, pull, status>> /\ PassFrame

EvictBackupPods ==
    /\ At("evict")
    /\ cache' = Evicted(cache)
    /\ GoTo("probe")
    /\ UNCHANGED <<left, dest, secret, rs, rd, pull, status>> /\ PassFrame

\* Mutant: one half is enough.
LagZeroEither == (rs.on /\ rs.synced) \/ (rd.on /\ rd.synced)

\* Both halves synced once.
LagZero == rs.on /\ rs.synced /\ rd.on /\ rd.synced

\* Mover.Probe: no mover and no pod pinned, as far as the lists of Jobs and
\* pods can be read, and LagZero.
Probe ==
    /\ At("probe")
    /\ \E blind \in BOOLEAN :
          /\ pass' = [pass EXCEPT !.at = "prune",
                 !.probed = LagZero /\ (blind \/ (~dest.pin /\ ~pull.pinned))]
          /\ IF blind THEN Fault ELSE UNCHANGED left
    /\ Reads

Obsolete == rs.on /\ ~(pass.keep /\ source.claim)

Prune ==
    /\ At("prune")
    /\ pass' = [pass EXCEPT !.at = IF Obsolete THEN "dropSource" ELSE "end", !.next = "end"]
    /\ UNCHANGED left /\ Reads

\* A mover Job outlives its owner until the garbage collector comes.
Orphaned(m) == IF m.at = "idle" THEN m ELSE [m EXCEPT !.orphan = TRUE]

\* deletePair
DropSource ==
    /\ At("dropSource")
    /\ rs' = NoPair
    /\ push' = Orphaned(push)
    /\ GoTo("dropDest")
    /\ UNCHANGED <<left, source, dest, secret, rd, repo, pull, cache, status, backup>>

DropDest ==
    /\ At("dropDest")
    /\ rd' = NoPair
    /\ pull' = Orphaned(pull)
    /\ cache' = NoCache
    /\ GoTo(pass.next)
    /\ UNCHANGED <<left, dest, secret, rs, status>> /\ PassFrame

\* The phase is CatchingUp whatever was found, and the loop starts over; an
\* attestation is written when nothing failed and every row was probed.
Report ==
    /\ At("end")
    /\ status' = (~pass.failed /\ (pass.keep => pass.probed))
    /\ pass' = NoPass
    /\ UNCHANGED <<left, dest, secret, rs, rd, pull, cache>> /\ PassFrame

\* A namespace or a claim that went away since makes the next call fail.
DestGone ==
    \/ pass.at \in {"copy", "destination"} /\ ~dest.ns
    \/ At("volume") /\ ~dest.claim /\ ~(dest.ns /\ source.claim)

CallFails ==
    /\ \/ DestGone /\ UNCHANGED left
       \/ /\ pass.at \in {"claim", "secrets", "namespace", "copy", "volume", "read",
                          "source", "destination", "scratch"}
          /\ Fault
    /\ GiveUp
    /\ Reads

\* Errors that are dropped: the step is left out and the pass goes on.  A
\* pod list that fails counts as no pod, a pair that cannot be read as one
\* that has not synced.
Beyond ==
    [strip |-> "unpin", unpin |-> "read", look |-> "destination",
     kill |-> "destination", evict |-> "probe", probe |-> "prune", prune |-> "end",
     dropSource |-> "dropDest", dropDest |-> pass.next]

ErrorDropped ==
    /\ pass.at \in DOMAIN Beyond
    /\ GoTo(Beyond[pass.at])
    /\ Fault
    /\ Reads

Crash ==
    /\ ~At("idle")
    /\ pass' = NoPass
    /\ Fault
    /\ Reads

Replicate ==
    \/ Walk \/ CheckClaim \/ EnsureSecrets \/ EnsureNamespace \/ CopySecrets
    \/ EnsureDestPVC \/ StripDestPods \/ StripBlindly \/ DeletePinnedJobs \/ SourceHasSnapshot
    \/ ApplySource \/ DestUserMounted \/ DeleteMoverJobs \/ ApplyDestination
    \/ MarkScratch \/ EvictBackupPods \/ Probe \/ Prune \/ DropSource \/ DropDest
    \/ Report \/ CallFails \/ ErrorDropped
-----------------------------------------------------------------------------
(* A Backup pass: volsync.Mover.Backup.  It asks for no claim. *)

BackupFrom(a, b) ==
    /\ backup = a
    /\ backup' = b
    /\ UNCHANGED <<source, dest, rd, repo, push, pull, pass, status>>

\* Mutant: the source is created before its secrets.
BackupBeginSource ==
    /\ source.listed
    /\ BackupFrom("idle", "source")
    /\ UNCHANGED <<left, secret, rs, cache>>

BackupBegin ==
    /\ source.listed
    /\ BackupFrom("idle", "secrets")
    /\ UNCHANGED <<left, secret, rs, cache>>

BackupSecrets ==
    /\ BackupFrom("secrets", "source")
    /\ \E k \in Keys : secret' = [secret EXCEPT !.source = WithPassword(k)]
    /\ UNCHANGED <<left, rs, cache>>

BackupSource ==
    /\ BackupFrom("source", "scratch")
    /\ rs' = IF rs.on THEN rs ELSE Applied(rs, FALSE)
    /\ UNCHANGED <<left, secret, cache>>

BackupScratch ==
    /\ BackupFrom("scratch", "idle")
    /\ cache' = Evicted(Marked(cache))
    /\ UNCHANGED <<left, secret, rs>>

BackupFails ==
    /\ backup # "idle"
    /\ BackupFrom(backup, "idle")
    /\ Fault
    /\ UNCHANGED <<secret, rs, cache>>

Backup == BackupBegin \/ BackupSecrets \/ BackupSource \/ BackupScratch \/ BackupFails
-----------------------------------------------------------------------------
(* VolSync and restic, external.  A mover that finds no repository makes   *)
(* one; the time between finding none and having made one is the danger.  *)

MoverFrame == UNCHANGED <<source, secret, pass, status, backup>>

Started(k, d) ==
    [NoMover EXCEPT !.at = IF repo.key = NoKey THEN "init" ELSE "copy", !.key = k, !.data = d]

PushStart ==
    /\ rs.on /\ source.claim /\ push.at = "idle"
    /\ push' = Started(secret.source, source.data)
    /\ UNCHANGED <<left, dest, rs, rd, repo, pull, cache>> /\ MoverFrame

\* Keys and config of the second init overwrite those of the first.
Initialised(k) == IF repo.key = NoKey THEN k ELSE Mixed

PushInit ==
    /\ push.at = "init"
    /\ repo' = [repo EXCEPT !.key = Initialised(push.key)]
    /\ push' = [push EXCEPT !.at = "copy"]
    /\ UNCHANGED <<left, dest, rs, rd, pull, cache>> /\ MoverFrame

PushDone ==
    /\ push.at = "copy"
    /\ push.key = repo.key
    /\ repo' = [repo EXCEPT !.snap = push.data]
    /\ rs' = IF push.orphan THEN rs ELSE [rs EXCEPT !.synced = TRUE]
    /\ push' = NoMover
    /\ UNCHANGED <<left, dest, rd, pull, cache>> /\ MoverFrame

PullStart ==
    /\ rd.on /\ ~rd.paused /\ dest.claim /\ secret.dest # NoKey /\ pull.at = "idle"
    /\ pull' = [Started(secret.dest, repo.snap) EXCEPT !.pinned = dest.pin]
    /\ cache' = [cache EXCEPT !.on = TRUE]
    /\ UNCHANGED <<left, dest, rs, rd, repo, push>> /\ MoverFrame

\* The pod runs: it was scheduled and its cache claim attached.
PullRuns == ~pull.pinned /\ ~cache.held

\* A restore that found no repository makes one and restores nothing.
PullDone ==
    /\ pull.at # "idle" /\ PullRuns
    /\ pull.at = "copy" => pull.key = repo.key /\ pull.data > 0
    /\ repo' = [repo EXCEPT !.key = IF pull.at = "init" THEN Initialised(pull.key) ELSE @]
    /\ dest' = [dest EXCEPT !.copy = pull.data, !.lost = @ /\ pull.data = 0]
    /\ rd' = IF pull.orphan \/ pull.data = 0 THEN rd ELSE [rd EXCEPT !.synced = TRUE]
    /\ pull' = NoMover
    /\ UNCHANGED <<left, rs, push, cache>> /\ MoverFrame

\* A mover fails and VolSync starts another; one that cannot read the
\* repository is retried to no end.
PushFails ==
    /\ push.at # "idle" /\ Fault
    /\ push' = NoMover
    /\ UNCHANGED <<dest, rs, rd, repo, pull, cache>> /\ MoverFrame

PullFails ==
    /\ pull.at # "idle" /\ Fault
    /\ pull' = NoMover
    /\ UNCHANGED <<dest, rs, rd, repo, push, cache>> /\ MoverFrame

\* The garbage collector ends the Job of a pair that was deleted.
CollectPush ==
    /\ push.orphan
    /\ push' = NoMover
    /\ UNCHANGED <<left, dest, rs, rd, repo, pull, cache>> /\ MoverFrame

CollectPull ==
    /\ pull.orphan
    /\ pull' = NoMover
    /\ UNCHANGED <<left, dest, rs, rd, repo, push, cache>> /\ MoverFrame

PushMover == PushStart \/ PushInit \/ PushDone \/ PushFails \/ CollectPush
PullMover == PullStart \/ PullDone \/ PullFails \/ CollectPull

\* A backup tool in dest attaches a cache claim that is not marked.
ToolAttaches ==
    /\ cache.on /\ ~cache.marked /\ ~cache.held
    /\ cache' = [cache EXCEPT !.held = TRUE]
    /\ UNCHANGED <<left, source, dest, secret, rs, rd, repo, push, pull, pass, status, backup>>
-----------------------------------------------------------------------------
(* The tenant and its operators, external. *)

TenantFrame == UNCHANGED <<rs, repo, pass, status, backup>>

SourceWrites ==
    /\ source.claim /\ source.data < MaxData
    /\ source' = [source EXCEPT !.data = @ + 1]
    /\ UNCHANGED <<dest, secret, rd, push, pull, cache>> /\ UNCHANGED left /\ TenantFrame

\* A claim in use by a mover is not removed.
ClaimChanges ==
    /\ push.at = "idle"
    /\ source' = [source EXCEPT !.claim = ~@]
    /\ UNCHANGED <<dest, secret, rd, push, pull, cache>> /\ Fault /\ TenantFrame

WorkloadChanges ==
    /\ source' = [source EXCEPT !.listed = ~@]
    /\ UNCHANGED <<dest, secret, rd, push, pull, cache>> /\ Fault /\ TenantFrame

\* Restore starts the dest workload, or it is scaled to zero.
PodChanges ==
    /\ dest.claim
    /\ dest' = [dest EXCEPT !.live = IF @ = "off" THEN "up" ELSE "off"]
    /\ UNCHANGED <<source, secret, rd, push, pull, cache>> /\ Fault /\ TenantFrame

\* Its controller starts a pod that was deleted once more.
PodReturns ==
    /\ dest.claim /\ dest.live = "back"
    /\ dest' = [dest EXCEPT !.live = "up"]
    /\ UNCHANGED <<left, source, secret, rd, push, pull, cache>> /\ TenantFrame

\* The dest claim is deleted by itself, with the volume, when no pod and no
\* mover uses it; the ReplicationDestination stays.
DestClaimDeleted ==
    /\ dest.claim /\ dest.live # "up" /\ pull.at = "idle"
    /\ dest' = [dest EXCEPT !.claim = FALSE, !.lost = TRUE, !.copy = 0]
    /\ UNCHANGED <<source, secret, rd, push, pull, cache>> /\ Fault /\ TenantFrame

\* A dest pod names a host that only the source cluster has.
PodPinned ==
    /\ dest.claim /\ dest.live = "off"
    /\ dest' = [dest EXCEPT !.pin = TRUE]
    /\ UNCHANGED <<source, secret, rd, push, pull, cache>> /\ Fault /\ TenantFrame

\* The dest namespace is deleted, with everything in it.
NamespaceDeleted ==
    /\ dest.ns
    /\ dest' = NoDest
    /\ secret' = [secret EXCEPT !.dest = NoKey]
    /\ rd' = NoPair
    /\ pull' = NoMover
    /\ cache' = NoCache
    /\ UNCHANGED <<source, push>> /\ Fault /\ TenantFrame

Tenant ==
    SourceWrites \/ ClaimChanges \/ WorkloadChanges \/ PodChanges \/ PodReturns
    \/ DestClaimDeleted \/ PodPinned \/ NamespaceDeleted

Next ==
    \/ Replicate \/ Crash \/ Backup \/ PushMover \/ PullMover \/ ToolAttaches
    \/ Tenant

Spec == Init /\ [][Next]_vars

\* The live loop requeues itself; VolSync serves every pair on its schedule.
FairSpec == Spec /\ WF_vars(Replicate) /\ WF_vars(PushMover) /\ WF_vars(PullMover)
-----------------------------------------------------------------------------
Source == [listed : BOOLEAN, claim : BOOLEAN, data : 1 .. MaxData]
Dest == [ns : BOOLEAN, claim : BOOLEAN, lost : BOOLEAN, copy : Version,
         live : {"off", "up", "back"}, pin : BOOLEAN]
Secret == [source : MaybeKey, dest : MaybeKey]
Pair == [on : BOOLEAN, synced : BOOLEAN, paused : BOOLEAN]
Repo == [key : MaybeKey \cup {Mixed}, snap : Version]
Mover == [at : {"idle", "init", "copy"}, key : MaybeKey, data : Version,
          orphan : BOOLEAN, pinned : BOOLEAN]
Cache == [on : BOOLEAN, marked : BOOLEAN, held : BOOLEAN]
Place == {"idle", "claim", "secrets", "namespace", "copy", "volume", "strip", "unpin",
          "read", "source", "look", "kill", "destination", "scratch", "evict", "probe",
          "prune", "dropSource", "dropDest", "end"}
Pass == [at : Place, keep : BOOLEAN, synced : BOOLEAN, mounted : BOOLEAN,
         probed : BOOLEAN, failed : BOOLEAN, next : {"idle", "probe", "end"}]

\* Every variable stays in its type; among others, deletePair always has a
\* place to return to and no mover starts without a password, as the secrets
\* are written before the source is.
TypeOK ==
    /\ left \in 0 .. MaxFaults
    /\ source \in Source /\ dest \in Dest /\ secret \in Secret
    /\ rs \in Pair /\ rd \in Pair
    /\ repo \in Repo
    /\ push \in Mover /\ (push.at # "idle" => push.key \in Keys)
    /\ pull \in Mover /\ (pull.at # "idle" => pull.key \in Keys)
    /\ cache \in Cache
    /\ pass \in Pass /\ (pass.at \in {"dropSource", "dropDest"} => pass.next # "idle")
    /\ status \in BOOLEAN
    /\ backup \in {"idle", "secrets", "source", "scratch"}

Abstract == INSTANCE WarmCopy WITH
    data <- source.data, key <- repo.key, snap <- repo.snap, copy <- dest.copy

\* Replicate, Backup and the movers together implement a warm copy: the
\* repository is initialised once, by the source, and dest only receives
\* snapshots of it, in order.  sourceHasSnapshot and EnsureSecrets carry it.
WarmCopySpec == Abstract!Spec

\* A destination finds the claim it restores into and the password of the
\* source: Replicate prepares both before it applies the
\* ReplicationDestination, and a deleted namespace takes all three away.  Only
\* deleting the claim by itself leaves a destination without one, until the
\* next ensureDestPVC.
DestinationServed ==
    rd.on => /\ dest.claim \/ dest.lost
             /\ secret.dest # NoKey /\ secret.dest = secret.source

\* Probe passes only if the dest volume holds a snapshot (LagZero asks both
\* halves for a sync), over every deletion of the pair and of the namespace.
\* A claim deleted by itself is the exception: ensureDestPVC makes a blank one
\* under a destination that keeps its lastSyncTime, and Probe is satisfied
\* before the next pull has filled it.
ProbedMeansCopied ==
    [][pass'.probed /\ ~pass.probed => dest.copy > 0 \/ dest.lost]_vars

Wanted == source.listed /\ source.claim

\* When faults stop, a volume nobody uses in dest catches up with the source,
\* and the Action comes to report it and goes on doing so: what a failed
\* pass, a pin, a backup tool, a deleted claim or a deleted namespace left
\* behind is repaired by later passes.
CatchesUp ==
    <>[](Wanted /\ dest.live = "off") => <>[](dest.copy = source.data /\ status)

\* No mover goes on touching a volume that a user pod keeps mounted: the
\* destination is paused and its Job deleted (destUserMounted), whatever
\* order VolSync and the passes take.
QuietUnderPod == <>[](Wanted /\ dest.live = "up") => <>[](pull.at = "idle")

\* The destination of a workload whose claim is gone is removed and stays so,
\* although a Backup may bring the source half back.
GoneWithClaim == <>[](source.listed /\ ~source.claim) => <>[]~rd.on
=============================================================================
