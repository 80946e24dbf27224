---------------------------- MODULE PolicyBackup ----------------------------
(***************************************************************************)
(* Backups and the health a Policy reports of them: the Policy loop, which *)
(* walks the source, judges the artifacts it has read, writes the status   *)
(* and asks for a Backup Action in every RPO window and for a Restore when *)
(* a claim is gone; and the Backup Actions, which capture one workload     *)
(* after the other and publish the artifacts on the same status.  Actions  *)
(* of several windows may run at the same time as the Policy loop.         *)
(*                                                                         *)
(* RetryOnConflict makes each status write one atomic read and write; what *)
(* a pass carries into it was read before.                                 *)
(***************************************************************************)
EXTENDS Naturals, Sequences

CONSTANTS
    Dumped,   \* workloads with a dump command, and the object graph
    Moved,    \* backed up by VolSync
    Claimed,  \* generic claims without VolSync: CSI snapshots
    Measured, \* neither dump nor mover, but a size command
    Unclassified, \* those no catalogue entry matched
    MaxSlot,  \* bound: RPO windows
    Names,    \* names of their Backup Actions, each the first window it is for
    MaxDumps, \* bound: dumps stored
    MaxFaults \* bound: failing calls, crashes and changes in the source

Workloads == Dumped \cup Moved \cup Claimed \cup Measured
Slots == 1 .. MaxSlot

ASSUME PolicyAssumption ==
    /\ \A S, T \in {Dumped, Moved, Claimed, Measured} : S = T \/ S \cap T = {}
    /\ Unclassified \subseteq Workloads
    /\ Names \subseteq Slots /\ 1 \in Names
    /\ MaxSlot \in Nat \ {0} /\ MaxDumps \in Nat /\ MaxFaults \in Nat

VARIABLES
    left,  \* faults still to come
    slot,  \* the current RPO window
    name,  \* the name of its Backup Action
    live,  \* workloads the source has
    full,  \* Dumped and Measured workloads that hold more than 64 KiB, Moved
           \* whose last sync logged no size or one above that floor
    ready, \* Moved that have synced, Claimed with a ReadyToUse snapshot
    held,  \* workloads whose claims dest has
    store, \* the object store: dumps in the order they were put
    pol,   \* Policy.status
    pass,  \* the Policy pass
    acts,  \* phase of the Backup Action of each name
    run,   \* the pass of each Backup Action
    auto,  \* the restore-auto Action exists
    flag,  \* Policy.spec.replicate.enabled
    copier \* the Action named replicate-<policy>

vars == <<left, slot, name, live, full, ready, held, store, pol, pass, acts, run, auto, flag,
          copier>>

Dump == [w : Dumped, full : BOOLEAN]
Artifact == [useful : BOOLEAN, wait : BOOLEAN, key : 0 .. MaxDumps]
Phase == {"", "Healthy", "Degraded", "Unhealthy"}

\* An artifact that is missing and one that is useless look the same to
\* Healthy.  Key 0 is the empty ArtifactID.
NoArtifact == [useful |-> FALSE, wait |-> FALSE, key |-> 0]
NoArtifacts == [w \in Workloads |-> NoArtifact]

NoPass ==
    [at |-> "idle", inv |-> {}, arts |-> NoArtifacts, healthy |-> FALSE, phase |-> "",
     flag |-> FALSE]
NoRun == [at |-> "idle", inv |-> {}, todo |-> {}, arts |-> NoArtifacts]

Init ==
    /\ left = MaxFaults
    /\ slot = 1 /\ name = 1
    /\ live = Workloads
    /\ full = Workloads \ Claimed
    /\ ready = {}
    /\ held = Workloads
    /\ store = <<>>
    /\ pol = [phase |-> "", healthy |-> FALSE, inv |-> {}, arts |-> NoArtifacts]
    /\ pass = NoPass
    /\ acts = [s \in Names |-> "absent"]
    /\ run = [s \in Names |-> NoRun]
    /\ auto = FALSE
    /\ flag = TRUE
    /\ copier \in {"absent", "bare"}

Fault == left > 0 /\ left' = left - 1

\* backup.Healthy
Healthy(inv, arts) == \A w \in inv : arts[w].useful
-----------------------------------------------------------------------------
(* The Policy loop *)

PolicyFrame == UNCHANGED <<slot, name, live, full, ready, held, store, run, flag>>

PolicyReads ==
    /\ pass.at = "idle"
    /\ pass' = [at |-> "walk", inv |-> pol.inv, arts |-> pol.arts,
                healthy |-> pol.healthy, phase |-> pol.phase, flag |-> flag]
    /\ UNCHANGED <<left, pol, acts, auto, copier>> /\ PolicyFrame

\* Mutant: the verdict of the last pass is written again.
JudgedOnce(p, inv) == IF inv = p.inv THEN p.healthy ELSE Healthy(inv, p.arts)

\* The verdict on the artifacts as this pass read them.
Judged(p, inv) == Healthy(inv, p.arts)

PhaseOf(inv, healthy) ==
    CASE inv # {} /\ ~healthy -> "Unhealthy"
      [] (inv = {} \/ healthy) /\ inv \cap Unclassified # {} -> "Degraded"
      [] OTHER -> "Healthy"

PolicyWalks ==
    /\ pass.at = "walk"
    /\ pass' = [pass EXCEPT !.at = "write", !.inv = live, !.arts = NoArtifacts,
                            !.healthy = Judged(pass, live),
                            !.phase = PhaseOf(live, Judged(pass, live))]
    /\ UNCHANGED <<left, pol, acts, auto, copier>> /\ PolicyFrame

\* classify.Walk fails: what was read is written back as Unhealthy.
PolicyWalkFails ==
    /\ pass.at = "walk" /\ Fault
    /\ pass' = [pass EXCEPT !.at = "writeFailure", !.phase = "Unhealthy"]
    /\ UNCHANGED <<pol, acts, auto, copier>> /\ PolicyFrame

\* writeStatus leaves the artifacts to the Backup passes.
WithVerdict(p) == [pol EXCEPT !.phase = p.phase, !.healthy = p.healthy, !.inv = p.inv]

PolicyWrites ==
    /\ pass.at \in {"write", "writeFailure"}
    /\ pol' = WithVerdict(pass)
    /\ pass' = IF pass.at = "write" THEN [pass EXCEPT !.at = "restore", !.phase = ""] ELSE NoPass
    /\ UNCHANGED <<left, acts, auto, copier>> /\ PolicyFrame

\* Mutant: a lost claim is reason enough.
LostAnyhow == ~(pass.inv \subseteq held)

\* Mutant: one claim that is left is enough.
LostAll == pass.healthy /\ pass.inv \cap held = {}

\* The verdict of this pass, and a claim dest does not have.
Lost == pass.healthy /\ ~(pass.inv \subseteq held)

\* maybeAutoRestore: an Action that exists is left alone, ended or not.
PolicyRestores ==
    /\ pass.at = "restore"
    /\ auto' = (auto \/ Lost)
    /\ pass' = [NoPass EXCEPT !.at = "backup", !.flag = pass.flag]
    /\ UNCHANGED <<left, pol, acts, copier>> /\ PolicyFrame

\* Mutant: a window is served when the ones before it are.
DueAfterLast == acts[name] = "absent" /\ \A s \in Names : s < name => acts[s] = "succeeded"

\* maybeBackup: one Action per window, found by its name.
Due == acts[name] = "absent"

PolicyBacksUp ==
    /\ pass.at = "backup"
    /\ acts' = IF Due THEN [acts EXCEPT ![name] = "pending"] ELSE acts
    /\ pass' = [pass EXCEPT !.at = "replicate"]
    /\ UNCHANGED <<left, pol, auto, copier>> /\ PolicyFrame

\* Mutant: an Action without the label is taken for a hand-written one.
CopierLabelledOnly(on) ==
    CASE copier = "absent" /\ on -> "live"
      [] copier = "live" /\ ~on -> "absent"
      [] OTHER -> copier

\* maybeReplicate: the Action of that name is made, labelled or deleted, unless
\* it is of another type.
Copier(on) == IF copier = "other" THEN "other" ELSE IF on THEN "live" ELSE "absent"

\* The flag is the one this pass read when it began.
PolicyReplicates ==
    /\ pass.at = "replicate"
    /\ copier' = Copier(pass.flag)
    /\ pass' = NoPass
    /\ UNCHANGED <<left, pol, acts, auto>> /\ PolicyFrame

\* A failed write ends the pass; other errors are logged and it goes on.
PolicyErrs ==
    /\ pass.at \in {"write", "writeFailure", "restore", "backup", "replicate"} /\ Fault
    /\ pass' = CASE pass.at = "restore" -> [NoPass EXCEPT !.at = "backup", !.flag = pass.flag]
                 [] pass.at = "backup" -> [pass EXCEPT !.at = "replicate"]
                 [] OTHER -> NoPass
    /\ UNCHANGED <<pol, acts, auto, copier>> /\ PolicyFrame

PolicyPass ==
    \/ PolicyReads \/ PolicyWalks \/ PolicyWalkFails \/ PolicyWrites
    \/ PolicyRestores \/ PolicyBacksUp \/ PolicyReplicates \/ PolicyErrs
-----------------------------------------------------------------------------
(* Backup Actions *)

BackupFrame == UNCHANGED <<slot, name, live, full, held, pass, auto, flag, copier>>

BackupWalks(s) ==
    /\ acts[s] \in {"pending", "catching"}
    /\ run[s].at = "idle"
    /\ run' = [run EXCEPT ![s] = [NoRun EXCEPT !.at = "work", !.inv = live, !.todo = live]]
    /\ UNCHANGED <<left, ready, store, pol, acts>> /\ BackupFrame

Captured(s, w, art) ==
    run' = [run EXCEPT ![s].todo = @ \ {w}, ![s].arts[w] = art]

\* The workloads are visited in the order of the inventory.
Visited(s, w) ==
    /\ run[s].at = "work"
    /\ run[s].todo # {}
    /\ w = CHOOSE x \in run[s].todo : TRUE

DumpRefused(w) == NoArtifact

\* dump.Capture, and captureClusterObjects: exec or list, then Put.
CaptureDump(s, w) ==
    /\ Visited(s, w) /\ w \in Dumped
    /\ Len(store) < MaxDumps
    /\ store' = Append(store, [w |-> w, full |-> w \in full])
    /\ Captured(s, w, [useful |-> w \in full, wait |-> FALSE, key |-> Len(store) + 1])
    /\ UNCHANGED <<left, ready, pol, acts>> /\ BackupFrame

\* No ready pod, exec fails, or Put fails.
CaptureDumpFails(s, w) ==
    /\ Visited(s, w) /\ w \in Dumped
    /\ Fault \/ (Len(store) = MaxDumps /\ UNCHANGED left)
    /\ Captured(s, w, DumpRefused(w))
    /\ UNCHANGED <<ready, store, pol, acts>> /\ BackupFrame

\* Mutant: the source object is there, so the backup is.
SyncedOrMade(w) == [useful |-> TRUE, wait |-> FALSE, key |-> 0]

\* artifactFromSource: useful once the source has synced, unless the mover
\* logged a size below the floor; such a volume is not waited for either.
Synced(w) == [useful |-> w \in ready \cap full, wait |-> w \notin ready, key |-> 0]

\* A VolumeSnapshot is asked for, and any that is ReadyToUse counts.  The
\* size of the live data counts where a command prints it.
Snapshotted(w) == [NoArtifact EXCEPT !.useful = w \in ready \cup (full \cap Measured)]

CaptureVolume(s, w) ==
    /\ Visited(s, w) /\ w \notin Dumped
    /\ Captured(s, w, IF w \in Moved THEN Synced(w) ELSE Snapshotted(w))
    /\ UNCHANGED <<left, ready, store, pol, acts>> /\ BackupFrame

\* A source that cannot be read back counts as one that has not synced.
CaptureFails(s, w) ==
    /\ Visited(s, w) /\ w \notin Dumped /\ Fault
    /\ \E unread \in BOOLEAN :
          /\ unread => w \in Moved
          /\ Captured(s, w, [NoArtifact EXCEPT !.wait = unread])
    /\ UNCHANGED <<ready, store, pol, acts>> /\ BackupFrame

\* writePolicyArtifacts: artifacts and verdict of this pass together.
Publish(s) ==
    /\ run[s].at = "work" /\ run[s].todo = {}
    /\ LET ok == Healthy(run[s].inv, run[s].arts) IN
       pol' = [pol EXCEPT !.arts = run[s].arts, !.healthy = ok,
                          !.phase = IF ~ok THEN "Unhealthy" ELSE
                                    IF @ = "Unhealthy" THEN "Healthy" ELSE @]
    /\ run' = [run EXCEPT ![s].at = "finish"]
    /\ UNCHANGED <<left, ready, store, acts>> /\ BackupFrame

\* Mutant: a useless artifact is waited for.
OutcomeWaitsForAll(r) ==
    IF Healthy(r.inv, r.arts) THEN "succeeded" ELSE "catching"

\* Mutant: nothing left to wait for is success.
OutcomeForgives(r) ==
    IF \E w \in r.inv : r.arts[w].wait THEN "catching" ELSE "succeeded"

\* Waiting for a first sync keeps the Action open; otherwise backup.Advance.
Outcome(r) ==
    IF \E w \in r.inv : r.arts[w].wait THEN "catching" ELSE
    IF Healthy(r.inv, r.arts) THEN "succeeded" ELSE "failed"

BackupFinishes(s) ==
    /\ run[s].at = "finish"
    /\ acts' = [acts EXCEPT ![s] = Outcome(run[s])]
    /\ run' = [run EXCEPT ![s] = NoRun]
    /\ UNCHANGED <<left, ready, store, pol>> /\ BackupFrame

\* The Policy or its ClusterPair cannot be read, whatever the error: fail ends
\* the Action, one that is waiting for a sync too.
BackupRefused(s) ==
    /\ acts[s] \in {"pending", "catching"}
    /\ run[s].at = "idle" /\ Fault
    /\ acts' = [acts EXCEPT ![s] = "failed"]
    /\ UNCHANGED <<ready, store, pol, run>> /\ BackupFrame

\* A walk or a write that fails, or a crash: the pass is taken again.
BackupErrs(s) ==
    /\ run[s].at # "idle" /\ Fault
    /\ run' = [run EXCEPT ![s] = NoRun]
    /\ UNCHANGED <<ready, store, pol, acts>> /\ BackupFrame

BackupPass(s) ==
    \/ BackupWalks(s) \/ Publish(s) \/ BackupFinishes(s) \/ BackupRefused(s)
    \/ BackupErrs(s)
    \/ \E w \in Workloads :
          \/ CaptureDump(s, w) \/ CaptureDumpFails(s, w)
          \/ CaptureVolume(s, w) \/ CaptureFails(s, w)
-----------------------------------------------------------------------------
(* The source, the storage behind it and dest, external *)

WorldFrame == UNCHANGED <<store, pol, pass, acts, run, auto>>

\* rpoBackupName: the number of the window ends the name, which is cut to 63
\* characters.  Windows that follow each other come to share a name when the
\* Policy's own leaves no room for the digits that tell them apart.
RpoBackupName(s) == IF s \in Names THEN s ELSE name

WindowPasses ==
    /\ slot < MaxSlot
    /\ slot' = slot + 1
    /\ name' = RpoBackupName(slot + 1)
    /\ UNCHANGED <<left, live, full, ready, held, flag, copier>> /\ WorldFrame

BecomesReady(w) ==
    /\ w \in (Moved \cup Claimed) \ ready
    /\ \E s \in Names : acts[s] # "absent"
    /\ ready' = ready \cup {w}
    /\ UNCHANGED <<left, slot, name, live, full, held, flag, copier>> /\ WorldFrame

SourceChanges(w) ==
    /\ Fault
    /\ \/ live' = (live \ {w}) \cup ({w} \ live) /\ UNCHANGED <<full, held>>
       \/ w \notin Claimed /\ full' = (full \ {w}) \cup ({w} \ full)
          /\ UNCHANGED <<live, held>>
       \/ held' = held \ {w} /\ UNCHANGED <<live, full>>
    /\ UNCHANGED <<slot, name, ready, flag, copier>> /\ WorldFrame

\* The operator edits the Policy, or the Action under the copier's name.
OperatorEdits ==
    /\ Fault
    /\ \/ flag' = ~flag /\ UNCHANGED copier
       \/ copier = "absent" /\ copier' \in {"bare", "other"} /\ UNCHANGED flag
       \/ copier # "absent" /\ copier' \in {"absent", "bare"} \ {copier} /\ UNCHANGED flag
    /\ UNCHANGED <<slot, name, live, full, ready, held>> /\ WorldFrame

World == WindowPasses \/ OperatorEdits \/ \E w \in Workloads : BecomesReady(w) \/ SourceChanges(w)

Next == PolicyPass \/ World \/ \E s \in Names : BackupPass(s)

Spec == Init /\ [][Next]_vars

\* Both controllers requeue what they serve.
FairSpec == Spec /\ WF_vars(PolicyPass) /\ \A s \in Names : WF_vars(BackupPass(s))
-----------------------------------------------------------------------------
\* Every variable stays in its type; the object store is never asked for a key
\* it cannot have.
TypeOK ==
    /\ left \in 0 .. MaxFaults /\ slot \in Slots /\ name \in Names
    /\ live \subseteq Workloads /\ full \subseteq Workloads \ Claimed
    /\ ready \subseteq Moved \cup Claimed /\ held \subseteq Workloads
    /\ store \in Seq(Dump) /\ Len(store) <= MaxDumps
    /\ pol \in [phase : Phase, healthy : BOOLEAN, inv : SUBSET Workloads,
                arts : [Workloads -> Artifact]]
    /\ pass \in [at : {"idle", "walk", "write", "writeFailure", "restore", "backup", "replicate"},
                 inv : SUBSET Workloads, arts : [Workloads -> Artifact],
                 healthy : BOOLEAN, phase : Phase, flag : BOOLEAN]
    /\ acts \in [Names -> {"absent", "pending", "catching", "succeeded", "failed"}]
    /\ run \in [Names -> [at : {"idle", "work", "finish"}, inv : SUBSET Workloads,
                          todo : SUBSET Workloads, arts : [Workloads -> Artifact]]]
    /\ auto \in BOOLEAN /\ flag \in BOOLEAN
    /\ copier \in {"absent", "bare", "live", "other"}

\* There is something to restore the workload from.
Restorable(w, art) ==
    \/ w \in Dumped /\ art.key \in 1 .. Len(store)
       /\ store[art.key] = [w |-> w, full |-> TRUE]
    \/ w \in (Moved \cup Claimed) \cap ready

\* An artifact that Policy.status calls useful can be restored: its dump is in
\* the object store and is not the certs-only kind, or its volume has synced
\* or has a snapshot.  usefulness.go: "Evaluate decides whether an artifact is
\* restorable data, not a successful job that captured nothing."  A workload
\* judged by the size of its live data alone has nothing of the kind.
UsefulIsRestorable ==
    \A w \in Workloads \ Measured : pol.arts[w].useful => Restorable(w, pol.arts[w])

\* Some full dump of the workload is in the object store, or its volume has
\* synced or has a snapshot.
BackedUp(w) ==
    \/ w \in Dumped /\ \E i \in 1 .. Len(store) : store[i] = [w |-> w, full |-> TRUE]
    \/ w \in (Moved \cup Claimed) \cap ready

\* maybeAutoRestore: "creates a Restore Action when [...] backups are useful, and
\* a covered PVC is gone".  Whatever Backup passes published between the read
\* of the artifacts and the creation of the Action, and whichever inventory
\* they had walked, every workload this pass found has a backup by then.
AutoRestoreHasBackup ==
    [][auto' /\ ~auto => \A w \in pass.inv \ Measured : BackedUp(w)]_vars

\* However the Policy loop and the Backup passes overtake each other, health,
\* phase and inventory settle on what the published artifacts deserve.
HealthSettles ==
    <>[](/\ pol.inv = live
         /\ pol.healthy = Healthy(live, pol.arts)
         /\ pol.phase = PhaseOf(live, pol.healthy))

\* A window that lasts finds a Backup Action of its name, whatever earlier ones
\* did.  The Action is its own if no earlier window had the name; a window that
\* shares one is content with the Action of the first, ended or failed.
WindowServed == <>[](acts[name] # "absent")

\* A Backup Action ends, unless VolSync keeps it waiting.
BackupsEnd ==
    \A s \in Names :
        <>[](acts[s] \in {"pending", "catching"} => ~(Moved \cap live \subseteq ready))

\* A Backup Action succeeds only with a backup of every workload of its own walk:
\* the dump it names is in the object store and is not the certs-only kind, the
\* volume has synced or has a snapshot, whatever failed or changed in the source
\* between its walk and its last write.  Workloads judged by the size of their
\* live data are left out again.
SucceededIsRestorable ==
    [][\A s \in Names : acts'[s] = "succeeded" /\ acts[s] # "succeeded"
            => \A w \in run[s].inv \ Measured : Restorable(w, run[s].arts[w])]_vars

\* A lost claim of a Policy that stays healthy gets its Restore Action.
RestoreComes == <>[](pol.healthy /\ ~(live \subseteq held)) => <>auto

\* The live-replica Action follows the flag of the Policy, whatever a pass that
\* read an older flag did meanwhile: it is there with its label while the flag
\* is set and gone while it is not.  An Action of another type that has taken
\* the name stays as it is.
CopierFollowsFlag ==
    <>[](copier # "other" => copier = IF flag THEN "live" ELSE "absent")
=============================================================================
