---------------------------- MODULE RestoreAction ----------------------------
(***************************************************************************)
(* One Restore Action, from creation to its terminal phase, driven by the  *)
(* passes of ActionReconciler.Reconcile and runRestore and by the machine  *)
(* restore.Advance.                                                        *)
(*                                                                         *)
(* A pass is not atomic.  It reads the Action and the Policy through the   *)
(* manager's informer cache, walks the source, applies manifests, visits   *)
(* the workloads one after the other, replays logical dumps through exec,  *)
(* records each replay as an annotation with one API write and the result  *)
(* with another.  Between any two of these steps the cache may lag, a      *)
(* Backup Action may rewrite the Policy's artifacts, the source inventory  *)
(* may change, a call may fail, the process may crash.                     *)
(*                                                                         *)
(* act holds the status and the annotations of the Action; nobody but the  *)
(* controller writes it, so at most one version is undelivered and the     *)
(* pair (act, cache) of ActionStore is exact.                              *)
(*                                                                         *)
(* Left out: the content of messages and manifests, timestamps, the        *)
(* deletion of the Action, edits of its spec.                              *)
(***************************************************************************)
EXTENDS Naturals, ActionGate, ActionStore

CONSTANTS
    Workloads,   \* workloads that may be in the inventory
    Stateless,   \* those of class Stateless
    Graph,       \* the synthetic ClusterObjects workload
    Plugin,      \* those restored by a mover named in Policy.restore.mover
    Dumped,      \* those whose artifact carries an id (dump key, lastSync)
    Replayable,  \* those of Dumped whose engine has a RestoreCommand
    Strict,      \* those of Replayable whose command stops at what exists already
    Quiet,       \* those whose useful artifact has an empty message
    DryRun,      \* spec.dryRun
    MaxReplays   \* replays are counted up to this bound, which means "or more"

ASSUME ClassesDisjoint ==
    /\ Stateless \cup Graph \cup Plugin \cup Dumped \cup Quiet \subseteq Workloads
    /\ Strict \subseteq Replayable /\ Replayable \subseteq Dumped
    /\ Stateless \cap (Graph \cup Plugin \cup Dumped) = {}
    /\ Graph \cap (Plugin \cup Dumped) = {}
    /\ Plugin \cap Dumped = {}
    /\ Quiet \cap (Graph \cup Stateless) = {}
ASSUME DryRunIsFlag == DryRun \in BOOLEAN
ASSUME MaxReplaysPositive == MaxReplays \in Nat \ {0}

VARIABLES
    pc,       \* where the worker is in its pass
    job,      \* the locals of the pass
    replays,  \* how often each dump was replayed into dest
    world,    \* Unsettled, or the artifacts and the inventory that stay
    steady,   \* history: useful on every pass of this Action so far
    cut       \* history: replayed by a pass that did not finish

vars == <<act, cache, synced, queued, pc, job, replays, world, steady, cut>>
hist  == <<steady, cut>>

Phase == {"", "Pending", "Rehydrating", "WaitingReady", "Succeeded", "Failed"}
\* Why an Action Failed, as restoreRetryable tells the messages apart.
Cause == {"none", "retryable", "permanent"}
Step  == {"idle", "policy", "inventory", "apply", "work", "remember", "write"}

Status == [phase : Phase, cause : Cause, listed : SUBSET Workloads,
           rows : [Workloads -> Row]]
Object == [status : Status, marks : SUBSET Workloads]
Job == [status : Status, marks : SUBSET Workloads, useful : SUBSET Workloads,
        inv : SUBSET Workloads, todo : SUBSET Workloads, reh : SUBSET Workloads,
        seen : SUBSET Workloads, ran : SUBSET Workloads]

NewStatus == [phase |-> "", cause |-> "none", listed |-> {},
              rows |-> [w \in Workloads |-> ZeroRow]]
NoJob == [status |-> NewStatus, marks |-> {}, useful |-> {}, inv |-> {},
          todo |-> {}, reh |-> {}, seen |-> {}, ran |-> {}]

Stateful == Workloads \ Stateless

\* While the world is unsettled the artifacts and the inventory may differ on
\* every read, dest may answer anything and calls may fail.  Once settled,
\* calls succeed and dest serves.
Unsettled == [settled |-> FALSE, useful |-> {}, inv |-> {}]
World == [settled : BOOLEAN, useful : SUBSET Stateful, inv : SUBSET Workloads]
calm == world.settled

TypeOK ==
    /\ act \in Object
    /\ cache \in Object
    /\ synced \in BOOLEAN
    /\ queued \in BOOLEAN
    /\ pc \in Step
    /\ job \in Job
    /\ replays \in [Workloads -> 0..MaxReplays]
    /\ world \in World
    /\ steady \in SUBSET Workloads
    /\ cut \in SUBSET Workloads

Init ==
    /\ StoreInit([status |-> NewStatus, marks |-> {}])
    /\ pc = "idle"
    /\ job = NoJob
    /\ replays = [w \in Workloads |-> 0]
    /\ world = Unsettled
    /\ steady = Stateful
    /\ cut = {}

-----------------------------------------------------------------------------
\* The pass gives up: an error sent to retryLater, which asks for the key
\* again, or a crash, after which the new process lists every Action.  What
\* it had replayed and not written a result for is remembered in cut.
Drop ==
    /\ queued' = TRUE
    /\ pc' = "idle"
    /\ job' = NoJob
    /\ cut' = cut \cup job.ran

Deliver == DeliverNewest /\ UNCHANGED <<pc, job, world, replays, hist>>

-----------------------------------------------------------------------------
(* restore.Advance *)

\* seedWorkloads and the first assignment of applyFacts: one row per
\* inventoried workload, keeping what was recorded before, with Ready cleared
\* until this pass reads it.  An empty inventory keeps the recorded rows.
SeedListed(status, inv) == IF inv = {} THEN status.listed ELSE inv

\* Mutant: a row is kept only for what the inventory holds now.
SeedRowsInventoryOnly(status, inv) ==
    [w \in SeedListed(status, inv) |-> [status.rows[w] EXCEPT !.ready = FALSE]]

SeedRows(status, inv) ==
    [w \in Workloads |-> IF w \in SeedListed(status, inv) \cap status.listed
                         THEN [status.rows[w] EXCEPT !.ready = FALSE]
                         ELSE ZeroRow]

Seed(j) == [j EXCEPT !.status.listed = SeedListed(j.status, j.inv),
                     !.status.rows = SeedRows(j.status, j.inv)]

\* preflight: what the Action could restore at all.
Restorable(j) == (j.status.listed \cap Stateless) \cup j.useful

\* Mutant: a Ready workload passes for a rehydrated one.
RehydratedIfReady(j) ==
    \A w \in Gating(j.status.listed, j.status.rows) \ Stateless :
        w \in j.reh \/ j.status.rows[w].ready

Rehydrated(j) ==
    Gating(j.status.listed, j.status.rows) \ Stateless \subseteq j.reh

MaySucceed(j) == CanSucceed(j.status.listed, j.status.rows, Stateless)

NextPhase(j) ==
    CASE j.status.phase = "Pending" ->
            IF Restorable(j) = {} THEN "Failed"
            ELSE IF DryRun THEN "Succeeded" ELSE "Rehydrating"
      [] j.status.phase = "Rehydrating" /\ ~Rehydrated(j) -> "Rehydrating"
      [] OTHER -> IF MaySucceed(j) THEN "Succeeded" ELSE "WaitingReady"

Advance(j) ==
    [j.status EXCEPT !.phase = NextPhase(j),
                     !.cause = IF NextPhase(j) = "Failed" THEN "permanent" ELSE "none"]

-----------------------------------------------------------------------------
(* Reconcile, up to the dispatch on the Action's type *)

Closed(status) ==
    \/ status.phase = "Succeeded"
    \/ status.phase = "Failed" /\ status.cause # "retryable"

\* The Get of the Action.  A finished Action is left alone, except a Failed
\* one whose message says the failure can clear: it resumes at Rehydrating.
Ignore ==
    /\ pc = "idle" /\ TakeKey /\ Closed(cache.status)
    /\ UNCHANGED <<store, pc, job, world, replays, hist>>

Begin ==
    /\ pc = "idle" /\ TakeKey /\ ~Closed(cache.status)
    /\ job' = [NoJob EXCEPT
                 !.marks = cache.marks,
                 !.status = [cache.status EXCEPT
                     !.phase = IF @ = "Failed" THEN "Rehydrating" ELSE @,
                     !.cause = "none"]]
    /\ pc' = "policy"
    /\ UNCHANGED <<store, world, replays, hist>>

\* What is left of the locals once the status to write is known.
Leave(status) ==
    /\ job' = [NoJob EXCEPT !.status = status, !.seen = job.seen, !.ran = job.ran]
    /\ pc' = "write"

FailJob(cause) ==
    Leave([job.status EXCEPT !.phase = "Failed", !.cause = cause])

\* The Policy cannot be read: r.fail with "policy: ...".
PolicyMissing ==
    /\ pc = "policy" /\ ~calm
    /\ FailJob("permanent")
    /\ UNCHANGED <<store, queued, world, replays, hist>>

\* The Policy is read with its artifacts, which a Backup Action may have
\* replaced since the last pass; a new Action is first written as Pending.
PolicyRead ==
    /\ pc = "policy"
    /\ IF job.status.phase = ""
       THEN Put([act EXCEPT !.status = [job.status EXCEPT !.phase = "Pending"]])
       ELSE UNCHANGED store
    /\ \E u \in IF calm THEN {world.useful} ELSE SUBSET Stateful :
         /\ job' = [job EXCEPT !.useful = u,
                               !.status.phase = IF @ = "" THEN "Pending" ELSE @]
         /\ steady' = steady \cap u
    /\ pc' = "inventory"
    /\ UNCHANGED <<queued, world, replays, cut>>

\* loadPair fails: r.fail with "clusterpair ...: not found", which
\* restoreRetryable accepts.
PairMissing ==
    /\ pc = "inventory" /\ ~calm
    /\ FailJob("retryable")
    /\ UNCHANGED <<store, queued, world, replays, hist>>

\* classify.Walk and the dispatch.  Only the artifacts of what was found are
\* looked up from here on.  Manifests are applied in phase Rehydrating only;
\* elsewhere the workload loop starts at once.
Walk ==
    /\ pc = "inventory"
    /\ \E found \in IF calm THEN {world.inv} ELSE SUBSET Workloads :
         LET j == [job EXCEPT !.inv = found, !.todo = found, !.useful = @ \cap found]
         IN  /\ IF job.status.phase = "Rehydrating"
                THEN pc' = "apply" /\ job' = j
                ELSE pc' = "work" /\ job' = Seed(j)
             /\ steady' = steady \cap found
    /\ UNCHANGED <<store, queued, world, replays, cut>>

\* apply.Typed succeeds on dest.
Apply ==
    /\ pc = "apply"
    /\ job' = Seed(job)
    /\ pc' = "work"
    /\ UNCHANGED <<store, queued, world, replays, hist>>

\* apply.Typed fails, some manifests possibly applied.  The pass ends in
\* Rehydrating with the rows it read, or Failed without rows when the error
\* text contains one of the words restoreRetryable treats as permanent.
ApplyFails ==
    /\ pc = "apply" /\ ~calm
    /\ \/ Leave(job.status)
       \/ Leave([NewStatus EXCEPT !.phase = "Failed", !.cause = "permanent"])
    /\ UNCHANGED <<store, queued, world, replays, hist>>

-----------------------------------------------------------------------------
(* runRestore: the loop over the inventory *)

Next1 == CHOOSE w \in job.todo : TRUE

\* Mutant: a probe that passed once is not cleared.
FactKeepsProbe(row, r, p, m) ==
    [ready |-> r,
     probeOK |-> row.probeOK \/ (r /\ p),
     msg |-> IF m = "none" THEN row.msg ELSE m]

\* Mutant: a row skipped once stays skipped.
FactStaysSkipped(row, r, p, m) ==
    [ready |-> r,
     probeOK |-> IF r THEN p ELSE row.probeOK,
     msg |-> IF m = "none" \/ Skipped(row) THEN row.msg ELSE m]

\* Facts gathered for w, folded into its row by applyFacts: Ready r, the
\* probe's result p when Ready let it run, a message m unless it is empty.
Fact(row, r, p, m) ==
    [ready |-> r,
     probeOK |-> IF r THEN p ELSE row.probeOK,
     msg |-> IF m = "none" THEN row.msg ELSE m]

Visit(j, w, r, p, m, reh) ==
    [j EXCEPT !.status.rows[w] = Fact(@, r, p, m),
              !.todo = @ \ {w},
              !.reh = IF reh THEN @ \cup {w} ELSE @,
              !.seen = IF r /\ p THEN @ \cup {w} ELSE @]

ArtifactMessage(w) == IF w \in Quiet THEN "none" ELSE "text"

\* What dest answers to workloads.Ready and probe.Run.
Answers == IF calm THEN {TRUE} ELSE BOOLEAN

\* A Stateless workload: Ready is read from dest and stands for its probe.
\* Once true, ProbeOK is not cleared.
VisitStateless ==
    /\ pc = "work" /\ job.todo # {} /\ Next1 \in Stateless
    /\ \E r \in Answers :
         job' = Visit(job, Next1, r, TRUE, "text", TRUE)
    /\ UNCHANGED <<store, queued, pc, world, replays, hist>>

\* No useful artifact: reported as skipped and counted as rehydrated.
VisitSkip ==
    /\ pc = "work" /\ job.todo # {}
    /\ Next1 \notin Stateless \cup job.useful
    /\ job' = Visit(job, Next1, FALSE, FALSE, "skipped", TRUE)
    /\ UNCHANGED <<store, queued, pc, world, replays, hist>>

Restoring(w) == w \in job.useful \ Stateless

\* The object graph: synchronised and attested, or an error.
VisitGraph ==
    /\ pc = "work" /\ job.todo # {} /\ Next1 \in Graph /\ Restoring(Next1)
    /\ \/ \E ok \in Answers :
            job' = [Visit(job, Next1, ok, ok, ArtifactMessage(Next1), TRUE)
                    EXCEPT !.status.rows[Next1].probeOK = ok]
       \/ ~calm /\ job' = Visit(job, Next1, FALSE, FALSE, "text", FALSE)
    /\ UNCHANGED <<store, queued, pc, world, replays, hist>>

\* A mover named by the Policy restores the data; Ready and probe follow.
VisitPlugin ==
    /\ pc = "work" /\ job.todo # {} /\ Next1 \in Plugin /\ Restoring(Next1)
    /\ \/ \E r, p \in Answers :
            job' = Visit(job, Next1, r, p, ArtifactMessage(Next1), TRUE)
       \/ ~calm /\ job' = Visit(job, Next1, FALSE, FALSE, "text", FALSE)
    /\ UNCHANGED <<store, queued, pc, world, replays, hist>>

InTree(w) == Restoring(w) /\ w \notin Graph \cup Plugin

\* Mutant: the annotation is not consulted.
OwedUnlessWaiting(w) == w \in Dumped /\ job.status.phase # "WaitingReady"

\* The artifact's dump is still to be replayed by this pass.
Owed(w) ==
    /\ w \in Dumped
    /\ job.status.phase # "WaitingReady"
    /\ w \notin job.marks

\* PVCs from snapshots (bound or not yet: done), no dump to replay, then heal,
\* Ready and probe.  A snapshot error counts as done: the artifact is useful.
VisitVolume ==
    /\ pc = "work" /\ job.todo # {} /\ InTree(Next1) /\ ~Owed(Next1)
    /\ \E done, r, p \in Answers :
         job' = Visit(job, Next1, r, p, ArtifactMessage(Next1), done)
    /\ UNCHANGED <<store, queued, pc, world, replays, hist>>

\* dest is not Ready for the replay.
DumpWaits ==
    /\ pc = "work" /\ job.todo # {} /\ InTree(Next1) /\ Owed(Next1) /\ ~calm
    /\ \E r, p \in BOOLEAN :
         job' = Visit(job, Next1, r, p, ArtifactMessage(Next1), FALSE)
    /\ UNCHANGED <<store, queued, pc, world, replays, hist>>

Bump(w) == [replays EXCEPT ![w] = IF @ < MaxReplays THEN @ + 1 ELSE @]

\* psql runs with ON_ERROR_STOP: what an earlier replay created stops it.  The
\* databases of dest are empty when the Action begins.
Refused(w) == w \in Strict /\ replays[w] > 0

\* dump.Apply fails: before the engine saw anything, because the exec session
\* dropped and left the engine replaying, or on what is there already.
DumpFails ==
    /\ pc = "work" /\ job.todo # {} /\ InTree(Next1) /\ Owed(Next1)
    /\ \/ ~calm /\ UNCHANGED <<replays, cut>>
       \/ /\ ~calm /\ Next1 \in Replayable
          /\ replays' = Bump(Next1)
          /\ cut' = cut \cup {Next1}
       \/ /\ Refused(Next1)
          /\ replays' = Bump(Next1)
          /\ UNCHANGED cut
    /\ \E r, p \in BOOLEAN :
         job' = Visit(job, Next1, r, p, "text", FALSE)
    /\ UNCHANGED <<store, queued, pc, world, steady>>

\* dump.Apply succeeds.  An engine without RestoreCommand replays nothing.
DumpApply ==
    /\ pc = "work" /\ job.todo # {} /\ InTree(Next1) /\ Owed(Next1) /\ ~Refused(Next1)
    /\ replays' = IF Next1 \in Replayable THEN Bump(Next1) ELSE replays
    /\ job' = [job EXCEPT !.ran = @ \cup {Next1}]
    /\ pc' = "remember"
    /\ UNCHANGED <<store, queued, world, hist>>

\* rememberDumpApplied: the annotation, unless the newest copy has it; then
\* heal, Ready and probe as for any volume.
Remember ==
    /\ pc = "remember" /\ job.todo # {}
    /\ IF Next1 \in cache.marks
       THEN UNCHANGED store
       ELSE Put([act EXCEPT !.marks = @ \cup {Next1}])
    /\ \E done, r, p \in Answers :
         job' = [Visit(job, Next1, r, p, ArtifactMessage(Next1), done)
                 EXCEPT !.marks = @ \cup {Next1}]
    /\ pc' = "work"
    /\ UNCHANGED <<queued, world, replays, hist>>

-----------------------------------------------------------------------------
(* The end of the pass *)

Finish ==
    /\ pc = "work" /\ job.todo = {}
    /\ Leave(Advance(job))
    /\ UNCHANGED <<store, queued, world, replays, hist>>

\* writeStatus: the whole status is replaced by what this pass computed.  A
\* phase that is not terminal is requeued, a Failed one is not.
WriteStatus ==
    /\ pc = "write"
    /\ Put([act EXCEPT !.status = job.status])
    /\ pc' = "idle"
    /\ job' = NoJob
    /\ queued' = (queued \/ job.status.phase \notin {"Succeeded", "Failed"})
    /\ UNCHANGED <<world, replays, hist>>

\* The retries of a conflicting write ran out before the cache caught up.
Conflict ==
    /\ \/ pc = "policy" /\ job.status.phase = ""
       \/ pc = "remember" /\ Next1 \notin cache.marks
       \/ pc = "write"
    /\ ~synced
    /\ Drop
    /\ UNCHANGED <<store, world, replays, steady>>

\* An API or exec error that ends the pass, or a crash of the process.
Abort ==
    /\ pc # "idle" /\ ~calm
    /\ Drop
    /\ UNCHANGED <<store, world, replays, steady>>

-----------------------------------------------------------------------------
\* The surroundings come to rest, with some artifacts and some inventory.
Settle ==
    /\ ~calm
    /\ world' \in {v \in World : v.settled}
    /\ UNCHANGED <<store, queued, pc, job, replays, hist>>

\* A resync that falls into a pass shows no earlier than the end of that pass.
Resync ==
    /\ pc = "idle" /\ ResyncKey
    /\ UNCHANGED <<store, pc, job, world, replays, hist>>

Loop == VisitStateless \/ VisitSkip \/ VisitGraph \/ VisitPlugin \/ VisitVolume
        \/ DumpWaits \/ DumpFails \/ DumpApply \/ Remember

Pass == Ignore \/ Begin \/ PolicyMissing \/ PolicyRead \/ PairMissing \/ Walk \/ Apply
        \/ ApplyFails \/ Loop \/ Finish \/ WriteStatus

Next == Pass \/ Deliver \/ Conflict \/ Abort

\* Every reconcile of the Action, at whatever time it is called for.
Spec == Init /\ [][Next \/ Resync]_vars

\* Only the reconciles that events and requeues call for.
EventSpec == Init /\ [][Next]_vars

\* A worker takes the key from the queue and runs the pass to its end, the
\* watch delivers every version, and the informer resyncs again and again.
SettlingSpec ==
    /\ Init /\ [][Next \/ Resync \/ Settle]_vars
    /\ WF_vars(Pass) /\ WF_vars(Deliver) /\ WF_vars(Resync)
-----------------------------------------------------------------------------
(* Properties *)

Terminal == Closed(act.status)

Counted(w) == w \in Gating(act.status.listed, act.status.rows) \ Stateless

\* FreshEvidence: a Restore that is not a dry run is Succeeded only on what its
\* last pass saw.  At least one workload counts, and every stateful one that
\* is not reported as skipped was read Ready and passed its class probe in
\* that very pass; nothing recorded by an earlier pass is carried over into
\* the verdict (seedWorkloads, applyFacts, attest).
FreshEvidence ==
    [][act'.status.phase = "Succeeded" /\ act.status.phase # "Succeeded" /\ ~DryRun =>
         /\ CanSucceed(act'.status.listed, act'.status.rows, Stateless)
         /\ \A w \in Workloads : Counted(w)' => w \in job.seen]_vars

\* DumpLanded: "Logical dump must land."  A workload that was in the inventory
\* with a useful dump on every pass of the Action is in WaitingReady or
\* Succeeded only after its dump was replayed into dest, whatever crashed,
\* failed or was read late on the way (runRestore 551-575, Advance 95-104).
DumpLanded ==
    ~DryRun /\ act.status.phase \in {"WaitingReady", "Succeeded"} =>
        \A w \in steady \cap Replayable :
            Counted(w) => replays[w] > 0

\* ReplayedAgainOnlyIfCut: a dump is replayed a second time only when a pass
\* that replayed it was cut short before its status was written, or its exec
\* failed half way.  The annotation portage.io/dump-applied is what carries
\* this across passes (dumpApplied, rememberDumpApplied).
ReplayedAgainOnlyIfCut ==
    \A w \in Workloads : replays[w] > 1 => w \in cut

\* LiveDataKept: from WaitingReady on dest holds the tenant's data and users may
\* write to it.  A dump is not replayed over that data, also not by a pass that
\* works on an older copy of the Action and takes itself to be in Rehydrating
\* (Reconcile 157, runRestore 553-575).  As for DumpLanded, the workload was
\* useful on every pass: one that turns up later is replayed by such a pass.
LiveDataKept ==
    [][~DryRun /\ act.status.phase \in {"WaitingReady", "Succeeded"} =>
         \A w \in steady : replays'[w] = replays[w]]_vars

\* UsefulCounts: a Succeeded Restore did not leave a workload out of its gate
\* that its last pass found useful: "skipped" is a verdict on the artifact of
\* this pass and not of an earlier one.  Quiet artifacts are the exception:
\* applyFacts keeps the old message for want of a new one.
UsefulCounts ==
    [][pc = "work" /\ job'.status.phase = "Succeeded" =>
         \A w \in job.useful \ (Stateless \cup Quiet) :
             ~Skipped(job'.status.rows[w])]_vars

\* A dump that a pass replayed and that no annotation tells of: psql refuses it
\* on every later pass.
Stranded == \E w \in Strict \ act.marks : replays[w] > 0

\* RestoreSettles: once calls succeed and dest serves, an Action with anything
\* to restore comes to a terminal phase and stays there; no phase, lost write or
\* late cache keeps it requeueing.  The exception is a pass cut off between the
\* replay into Postgres and rememberDumpApplied, or while psql was at it: no
\* later pass gets past that workload, and nothing else keeps an Action open.
RestoreSettles ==
    <>[](calm /\ (world.inv \cap (world.useful \cup Stateless) # {}))
        => <>[]Terminal \/ <>[]Stranded
=============================================================================
