---------------------------- MODULE CutoverAction ----------------------------
(***************************************************************************)
(* One Cutover Action: freeze the source, wait for the replica, promote    *)
(* dest, switch traffic, attest; or roll all of it back.  The passes of    *)
(* ActionReconciler.Reconcile and runCutover, driven by cutover.Advance.   *)
(*                                                                         *)
(* A pass reads the Action through the cache, visits the workloads one     *)
(* after the other, posts to the traffic hook and writes the status.       *)
(* Between these steps the source goes on writing, replication goes on,    *)
(* the user may ask for a rollback, a call may fail, the process may       *)
(* crash.  Most errors are dropped by the code and left to the next pass.  *)
(*                                                                         *)
(* The tenant's workloads are the same on every pass, except for the one   *)
(* change freezing itself makes: classify counts the claims of a scaled    *)
(* down StatefulSet as if it had one replica, and lists the claims of the  *)
(* higher ordinals as workloads of their own.                              *)
(***************************************************************************)
EXTENDS Naturals, ActionGate, ActionStore

CONSTANTS
    Workloads,  \* the workloads that can be in the inventory
    Stateless,  \* those of class Stateless
    Graph,      \* the synthetic ClusterObjects workload
    Scalable,   \* the stateful ones of kind StatefulSet or Deployment
    Deploys,    \* those of kind Deployment
    Postgres,   \* those promoted by the streaming mover
    Plain,      \* those for which no mover that replicates is selected
    ClaimOf,    \* claim of ordinal 1 -> the StatefulSet it belongs to
    Replicas,   \* replicas on source before the cutover
    Mark,       \* annotation left on source by an earlier cutover, or NoMark
    MaxReplicas,
    DryRun,     \* spec.dryRun
    Reliable,   \* no call fails
    MaxWrites   \* bound on the writes to each workload's data

Claims == DOMAIN ClaimOf
NoMark == MaxReplicas + 1
Marks == 0..NoMark
\* What runCutover freezes, promotes and waits for, besides the object graph.
Data == Workloads \ (Stateless \cup Graph)

ASSUME CutoverClasses ==
    /\ Stateless \cup Graph \cup Scalable \subseteq Workloads
    /\ Stateless \cap Graph = {}
    /\ Scalable \subseteq Data /\ Claims \subseteq Data \ Scalable
    /\ Deploys \subseteq Scalable
    /\ Postgres \subseteq Scalable /\ Plain \subseteq Data \ Postgres
    /\ \A c \in Claims : ClaimOf[c] \in Scalable \ Deploys
ASSUME CutoverBounds ==
    /\ MaxReplicas \in Nat \ {0} /\ MaxWrites \in Nat
    /\ Replicas \in [Scalable -> 0..MaxReplicas] /\ Mark \in [Scalable -> Marks]
    /\ DryRun \in BOOLEAN /\ Reliable \in BOOLEAN

VARIABLES
    pc,       \* where the worker is in its pass
    job,      \* the locals of the pass
    source,   \* per workload: replicas, annotation, pods running, data version
    dest,     \* per workload: scaled up, promoted, data version, replication
    traffic,  \* where the traffic hook last sent the users
    calm      \* from here on calls succeed and dest serves

vars == <<act, cache, synced, queued, pc, job, source, dest, traffic, calm>>
world == <<source, dest, traffic>>

Phase == {"", "Pending", "Quiescing", "CatchingUp", "Promoting", "Switching",
          "WaitingReady", "Succeeded", "Failed", "RolledBack"}
ClosedPhase == {"Succeeded", "Failed", "RolledBack"}
Object == [phase : Phase, listed : SUBSET Workloads, rows : [Workloads -> Row],
           rollback : BOOLEAN]
Job == [status : Object, todo : SUBSET Workloads, frozen : BOOLEAN,
        lagZero : BOOLEAN, promoted : BOOLEAN, switched : BOOLEAN,
        seen : SUBSET Workloads]
Source == [replicas : 0..MaxReplicas, mark : Marks, running : BOOLEAN,
           data : 0..MaxWrites]
\* told: pg_promote was called, which cannot be taken back; primary: it is one.
\* stamp: lastSyncTime is set on both VolSync objects.  replay: the age of the
\* last transaction the standby replayed, as the lag query rounds it.
Dest == [up : BOOLEAN, told : BOOLEAN, primary : BOOLEAN, data : 0..MaxWrites,
         stamp : BOOLEAN, replay : {"none", "now", "old"}]

NewAction == [phase |-> "", listed |-> {}, rollback |-> FALSE,
              rows |-> [w \in Workloads |-> ZeroRow]]
NoJob == [status |-> NewAction, todo |-> {}, frozen |-> FALSE, lagZero |-> FALSE,
          promoted |-> FALSE, switched |-> FALSE, seen |-> {}]

TypeOK ==
    /\ act \in Object /\ cache \in Object
    /\ synced \in BOOLEAN /\ queued \in BOOLEAN /\ calm \in BOOLEAN
    /\ pc \in {"idle", "policy", "inventory", "work", "hook", "rollback", "write"}
    /\ job \in Job
    /\ source \in [Data -> Source]
    /\ dest \in [Data -> Dest]
    /\ traffic \in {"source", "dest"}

\* A warm dest: the standby runs, the other workloads are scaled to zero and
\* may or may not have been copied once.
Init ==
    /\ \E asked \in BOOLEAN : StoreInit([NewAction EXCEPT !.rollback = asked])
    /\ pc = "idle"
    /\ job = NoJob
    /\ source = [w \in Data |->
         [replicas |-> IF w \in Scalable THEN Replicas[w] ELSE 0,
          mark |-> IF w \in Scalable THEN Mark[w] ELSE NoMark,
          running |-> w \in Scalable => Replicas[w] > 0,
          data |-> 0]]
    /\ \E copied \in BOOLEAN :
         dest = [w \in Data |-> [up |-> w \in Postgres, told |-> FALSE, primary |-> FALSE,
                                 data |-> 0, stamp |-> copied /\ w \notin Postgres,
                                 replay |-> "none"]]
    /\ traffic = "source"
    /\ calm = Reliable

-----------------------------------------------------------------------------
(* cutover.Advance *)

\* seed: one row per inventoried workload, Ready cleared until this pass reads
\* it.  runCutover reads no stateless workload, so their rows stay not Ready.
SeedRows(status, inv) ==
    [w \in Workloads |-> IF w \in inv \cap status.listed
                         THEN [status.rows[w] EXCEPT !.ready = FALSE]
                         ELSE ZeroRow]

Attested(status) ==
    /\ \A w \in status.listed :
         /\ status.rows[w].ready
         /\ w \notin Stateless => status.rows[w].probeOK
    /\ CanSucceed(status.listed, status.rows, Stateless)

\* Mutant: the pass that first scales the source down does not wait to see it.
NextPhaseNoQuiesce(j) ==
    IF j.status.rollback THEN "RolledBack" ELSE
    CASE j.status.phase = "Pending" -> IF DryRun THEN "Succeeded" ELSE "CatchingUp"
      [] j.status.phase = "CatchingUp" -> IF j.lagZero THEN "Promoting" ELSE "CatchingUp"
      [] j.status.phase = "Promoting" -> IF j.promoted THEN "Switching" ELSE "Promoting"
      [] j.status.phase = "Switching" -> IF j.switched THEN "WaitingReady" ELSE "Switching"
      [] OTHER -> IF Attested(j.status) THEN "Succeeded" ELSE "WaitingReady"

NextPhase(j) ==
    IF j.status.rollback THEN "RolledBack" ELSE
    CASE j.status.phase = "Pending" -> IF DryRun THEN "Succeeded" ELSE "Quiescing"
      [] j.status.phase = "Quiescing" -> IF j.frozen THEN "CatchingUp" ELSE "Quiescing"
      [] j.status.phase = "CatchingUp" -> IF j.lagZero THEN "Promoting" ELSE "CatchingUp"
      [] j.status.phase = "Promoting" -> IF j.promoted THEN "Switching" ELSE "Promoting"
      [] j.status.phase = "Switching" -> IF j.switched THEN "WaitingReady" ELSE "Switching"
      [] OTHER -> IF Attested(j.status) THEN "Succeeded" ELSE "WaitingReady"

Advance(j) == [j EXCEPT !.status.phase = NextPhase(j)]

-----------------------------------------------------------------------------
(* Reconcile, up to the dispatch on the Action's type *)

Ignore ==
    /\ pc = "idle" /\ TakeKey /\ cache.phase \in ClosedPhase
    /\ UNCHANGED <<store, pc, job, world, calm>>

Begin ==
    /\ pc = "idle" /\ TakeKey /\ cache.phase \notin ClosedPhase
    /\ job' = [NoJob EXCEPT !.status = cache, !.lagZero = TRUE, !.promoted = TRUE]
    /\ pc' = "policy"
    /\ UNCHANGED <<store, world, calm>>

\* r.fail: the Policy or the ClusterPair is missing.
NotFound ==
    /\ pc \in {"policy", "inventory"} /\ ~calm
    /\ job' = [job EXCEPT !.status.phase = "Failed"]
    /\ pc' = "write"
    /\ UNCHANGED <<store, queued, world, calm>>

\* The Policy is read; a new Action is first written as Pending.
PolicyRead ==
    /\ pc = "policy"
    /\ IF job.status.phase = ""
       THEN Put([act EXCEPT !.phase = "Pending", !.listed = job.status.listed,
                            !.rows = job.status.rows])
       ELSE UNCHANGED store
    /\ job' = [job EXCEPT !.status.phase = IF @ = "" THEN "Pending" ELSE @]
    /\ pc' = "inventory"
    /\ UNCHANGED <<queued, world, calm>>

\* classify.Walk.  A StatefulSet of fewer than two replicas leaves the claim
\* of ordinal 1 without an owner.
Inventory ==
    (Workloads \ Claims) \cup {c \in Claims : source[ClaimOf[c]].replicas < 2}

Walk ==
    /\ pc = "inventory"
    /\ job' = [job EXCEPT !.status.listed = Inventory,
                          !.status.rows = SeedRows(job.status, Inventory),
                          !.todo = Inventory \ Stateless]
    /\ pc' = "work"
    /\ UNCHANGED <<store, queued, world, calm>>

-----------------------------------------------------------------------------
(* runCutover: the loop over the stateful workloads *)

Next1 == CHOOSE w \in job.todo : TRUE

\* Whether a call works.
Answers == IF calm THEN {TRUE} ELSE BOOLEAN

\* Mutant: the annotation is written on every call.
ScaleRemarks(side, n) == [side EXCEPT !.mark = side.replicas, !.replicas = n]

\* workloads.Scale: the count it replaces is remembered once.
Scale(side, n) ==
    [side EXCEPT !.mark = IF @ = NoMark THEN side.replicas ELSE @, !.replicas = n]

\* workloads.Ready on dest.  Nothing owns a pod of a leftover claim; a
\* StatefulSet or Deployment scaled to zero is not Ready.
ReadyAnswers(w, up) ==
    CASE w \in Claims \/ (w \in Scalable /\ ~up) -> {FALSE}
      [] calm /\ dest[w].up -> {TRUE}
      [] OTHER -> BOOLEAN

\* The facts a pass gathered of a workload.
Fact(row, r, p) == [row EXCEPT !.ready = r, !.probeOK = IF r THEN p ELSE @]

\* Mutant: a probe that passed once is not cleared.
ObserveKeepsProbe(j, w, r, p) ==
    [j EXCEPT !.status.rows[w].ready = r,
              !.status.rows[w].probeOK = @ \/ (r /\ p),
              !.todo = @ \ {w},
              !.seen = IF r /\ p THEN @ \cup {w} ELSE @]

\* Ready and, when Ready, the class probe end every visit.
Observe(j, w, r, p) ==
    [j EXCEPT !.status.rows[w] = Fact(@, r, p),
              !.todo = @ \ {w},
              !.seen = IF r /\ p THEN @ \cup {w} ELSE @]

Visiting(phases) ==
    pc = "work" /\ job.todo # {} /\ Next1 \notin Graph /\ job.status.phase \in phases

VisitGraph ==
    /\ pc = "work" /\ job.todo # {} /\ Next1 \in Graph
    /\ \E ok \in Answers :
         job' = [Observe(job, Next1, ok, ok) EXCEPT !.status.rows[Next1].probeOK = ok]
    /\ UNCHANGED <<store, queued, pc, world, calm>>

\* Freezing: scale the source down and ignore what comes of it.
VisitFreeze ==
    /\ Visiting({"Pending", "Quiescing"})
    /\ \E ok, p \in Answers, r \in ReadyAnswers(Next1, dest[Next1].up) :
         /\ source' = IF ok /\ Next1 \in Scalable
                      THEN [source EXCEPT ![Next1] = Scale(@, 0)] ELSE source
         /\ job' = Observe(job, Next1, r, p)
    /\ UNCHANGED <<store, queued, pc, dest, traffic, calm>>

\* The lag query when a standby answers it, else VolSync's lastSyncTime.
LagZero(w) ==
    IF w \in Postgres /\ dest[w].up THEN dest[w].replay # "old" ELSE dest[w].stamp

VisitLag ==
    /\ Visiting({"CatchingUp"})
    /\ \E ok, p \in Answers, r \in ReadyAnswers(Next1, dest[Next1].up) :
         job' = Observe([job EXCEPT !.lagZero = @ /\ ok /\ LagZero(Next1)], Next1, r, p)
    /\ UNCHANGED <<store, queued, pc, world, calm>>

\* Mutant: the error of the exec is dropped like that of the scale.
PromoteOKIgnoresExec(w, up, done, ok) == up

\* pg_promote fails without a pod, when the exec fails, perhaps after it took
\* effect, and on a server that is a primary already.  What it prints is not
\* looked at: after a minute of waiting it prints f and psql exits with 0.
PromoteOK(w, up, done, ok) == up /\ done /\ ok /\ ~dest[w].primary

\* The standby is scaled up and told to promote itself, and is through with it
\* in time or not.
Promoted(d, up, done, through) ==
    [d EXCEPT !.up = @ \/ up, !.told = @ \/ done, !.primary = @ \/ (done /\ through)]

VisitPromotePostgres ==
    /\ Visiting({"Promoting"}) /\ Next1 \in Postgres
    /\ \E up, done, ok, p \in Answers :
         /\ \E through \in BOOLEAN :
              dest' = [dest EXCEPT ![Next1] = Promoted(@, up, up /\ done, through)]
         /\ \E r \in ReadyAnswers(Next1, dest'[Next1].up) :
              job' = Observe([job EXCEPT !.promoted = @ /\ PromoteOK(Next1, up, done, ok)],
                             Next1, r, p)
    /\ UNCHANGED <<store, queued, pc, source, traffic, calm>>

\* VolSync's Promote does nothing; without a mover the workload is scaled up.
VisitPromote ==
    /\ Visiting({"Promoting"}) /\ Next1 \notin Postgres
    /\ \E up, p \in Answers :
         /\ dest' = [dest EXCEPT ![Next1].up = @ \/ (up /\ Next1 \in Plain \cap Scalable)]
         /\ \E r \in ReadyAnswers(Next1, dest'[Next1].up) :
              job' = Observe(job, Next1, r, p)
    /\ UNCHANGED <<store, queued, pc, source, traffic, calm>>

\* Mutant: dest is scaled up in phase Switching only.
RaisesWhenSwitching(w) == w \in Scalable /\ job.status.phase = "Switching"

\* Scale on dest knows StatefulSets and Deployments.
Raises(w) == w \in Scalable

VisitRaise ==
    /\ Visiting({"Switching", "WaitingReady"})
    /\ \E up, p \in Answers :
         /\ dest' = [dest EXCEPT ![Next1].up = @ \/ (up /\ Raises(Next1))]
         /\ \E r \in ReadyAnswers(Next1, dest'[Next1].up) :
              job' = Observe(job, Next1, r, p)
    /\ UNCHANGED <<store, queued, pc, source, traffic, calm>>

-----------------------------------------------------------------------------
(* After the loop: freeze check, traffic hook, rollback *)

LoopDone(phases) == pc = "work" /\ job.todo = {} /\ job.status.phase \in phases

Proceed(j) ==
    IF j.status.rollback THEN pc' = "rollback" /\ job' = j
                         ELSE pc' = "write" /\ job' = Advance(j)

ScaledToZero(w) == w \in Scalable /\ source[w].replicas = 0

\* Mutant: a failed read passes for a scaled down workload.
FrozenUnlessRead(ok) ==
    \A w \in job.status.listed \cap Data : ScaledToZero(w) \/ ~ok

\* A read that fails counts as not scaled to zero.
Frozen(ok) == ok /\ \A w \in job.status.listed \cap Data : ScaledToZero(w)

CheckFrozen ==
    /\ LoopDone({"Quiescing"})
    /\ \E ok \in Answers : Proceed([job EXCEPT !.frozen = Frozen(ok)])
    /\ UNCHANGED <<store, queued, world, calm>>

\* The POST may fail before or after the hook acted on it.
Switch ==
    /\ LoopDone({"Switching"})
    /\ \E done, ok \in Answers :
         /\ traffic' = IF done THEN "dest" ELSE traffic
         /\ Proceed([job EXCEPT !.switched = done /\ ok])
    /\ UNCHANGED <<store, queued, source, dest, calm>>

NoHook ==
    /\ LoopDone(Phase \ {"Quiescing", "Switching"})
    /\ Proceed(job)
    /\ UNCHANGED <<store, queued, world, calm>>

OriginalReplicas(w) == IF source[w].mark = NoMark THEN 1 ELSE source[w].mark

\* How unscaling w can go: not at all, to one replica (a Deployment, or the
\* annotation could not be read), or to the remembered count.
Unscalings(w) ==
    {Scale(source[w], IF w \in Deploys THEN 1 ELSE OriginalReplicas(w))}
    \cup (IF calm THEN {} ELSE {source[w], Scale(source[w], 1)})

\* Every error is dropped.
Rollback ==
    /\ pc = "rollback"
    /\ \E ok \in Answers : traffic' = IF ok THEN "source" ELSE traffic
    /\ source' \in {s \in [Data -> UNION {Unscalings(w) : w \in Scalable}
                                   \cup {source[w] : w \in Data}] :
                      \A w \in Data : IF w \in Scalable \cap job.status.listed
                                      THEN s[w] \in Unscalings(w)
                                      ELSE s[w] = source[w]}
    /\ pc' = "write" /\ job' = Advance(job)
    /\ UNCHANGED <<store, queued, dest, calm>>

\* writeStatus; spec.rollback is not part of the status.
WriteStatus ==
    /\ pc = "write"
    /\ Put([job.status EXCEPT !.rollback = act.rollback])
    /\ pc' = "idle" /\ job' = NoJob
    /\ queued' = (queued \/ job.status.phase \notin ClosedPhase)
    /\ UNCHANGED <<world, calm>>

Drop == pc' = "idle" /\ job' = NoJob /\ queued' = TRUE

\* The retries of a conflicting write ran out before the cache caught up.
Conflict ==
    /\ pc = "write" \/ (pc = "policy" /\ job.status.phase = "")
    /\ ~synced
    /\ Drop
    /\ UNCHANGED <<store, world, calm>>

\* An error that ends the pass, or a crash of the process.
Abort ==
    /\ pc # "idle" /\ ~calm
    /\ Drop
    /\ UNCHANGED <<store, world, calm>>

-----------------------------------------------------------------------------
(* The surroundings *)

\* The user sets spec.rollback.
AskRollback ==
    /\ ~act.rollback
    /\ act' = [act EXCEPT !.rollback = TRUE]
    /\ synced' = FALSE
    /\ UNCHANGED <<cache, queued, pc, job, world, calm>>

Deliver == DeliverNewest /\ UNCHANGED <<pc, job, world, calm>>

\* The cache gets the controller's last write and not yet the user's edit,
\* which came after it.
DeliverStatus ==
    /\ act.rollback /\ ~cache.rollback
    /\ cache' = [act EXCEPT !.rollback = FALSE]
    /\ cache' # cache
    /\ queued' = TRUE
    /\ UNCHANGED <<act, synced, pc, job, world, calm>>

Resync == pc = "idle" /\ ResyncKey /\ UNCHANGED <<store, pc, job, world, calm>>

Settle == ~calm /\ calm' = TRUE /\ UNCHANGED <<store, queued, pc, job, world>>

\* Pods come and go after the replica count, in their own time, which only
\* their writes tell.
PodsFollow(w) ==
    /\ MaxWrites > 0
    /\ w \in Scalable /\ source[w].running # (source[w].replicas > 0)
    /\ source' = [source EXCEPT ![w].running = ~@]
    /\ UNCHANGED <<store, queued, pc, job, dest, traffic, calm>>

SourceWrites(w) ==
    /\ source[w].running /\ source[w].data < MaxWrites
    /\ source' = [source EXCEPT ![w].data = @ + 1]
    /\ UNCHANGED <<store, queued, pc, job, dest, traffic, calm>>

\* VolSync copies on its schedule, until a pod on dest mounts the volume.
VolSyncCopies(w) ==
    /\ w \notin Postgres /\ ~dest[w].up
    /\ dest' = [dest EXCEPT ![w].data = source[w].data, ![w].stamp = TRUE]
    /\ UNCHANGED <<store, queued, pc, job, source, traffic, calm>>

\* The standby replays what the running primary streams to it, until it is
\* promoted.
StandbyReplays(w) ==
    /\ w \in Postgres /\ dest[w].up /\ ~dest[w].primary
    /\ source[w].running /\ dest[w].data < source[w].data
    /\ dest' = [dest EXCEPT ![w].data = source[w].data, ![w].replay = "now"]
    /\ UNCHANGED <<store, queued, pc, job, source, traffic, calm>>

\* A second passes.
ReplayAges(w) ==
    /\ dest[w].replay = "now"
    /\ dest' = [dest EXCEPT ![w].replay = "old"]
    /\ UNCHANGED <<store, queued, pc, job, source, traffic, calm>>

\* A promotion nobody waits for any more comes to its end.
PromotionEnds(w) ==
    /\ dest[w].told /\ ~dest[w].primary
    /\ dest' = [dest EXCEPT ![w].primary = TRUE]
    /\ UNCHANGED <<store, queued, pc, job, source, traffic, calm>>

Pass == Ignore \/ Begin \/ NotFound \/ PolicyRead \/ Walk \/ VisitGraph \/ VisitFreeze
        \/ VisitLag \/ VisitPromotePostgres \/ VisitPromote \/ VisitRaise
        \/ CheckFrozen \/ Switch \/ NoHook \/ Rollback \/ WriteStatus

Replication(w) ==
    VolSyncCopies(w) \/ StandbyReplays(w) \/ ReplayAges(w) \/ PromotionEnds(w)

Surroundings ==
    \/ AskRollback \/ Deliver \/ DeliverStatus
    \/ \E w \in Data : PodsFollow(w) \/ SourceWrites(w) \/ Replication(w)

Next == Pass \/ Conflict \/ Abort \/ Surroundings

\* Every reconcile of the Action, at whatever time it is called for.
Spec == Init /\ [][Next \/ Resync]_vars

\* Workers run their passes to the end, watches deliver, replication goes on.
SettlingSpec ==
    /\ Init /\ [][Next \/ Settle]_vars
    /\ WF_vars(Pass) /\ WF_vars(Deliver)
    /\ \A w \in Data : WF_vars(Replication(w))

-----------------------------------------------------------------------------
(* Properties *)

\* SwitchedMeansFrozen: users are sent to dest only while every StatefulSet
\* and Deployment with data is scaled to zero on source, unless a rollback is
\* asked for: the freeze that a Quiescing pass saw holds through every later
\* pass, retry, crash and late read (runCutover 851-895, cutover.Advance).
SwitchedMeansFrozen ==
    traffic = "dest" /\ ~act.rollback => \A w \in Scalable : ScaledToZero(w)

\* SwitchedMeansTold: users are never sent to a Postgres that nobody has told to
\* promote itself: an exec that failed on one of them holds the Switch back,
\* in whatever pass it was and however many follow (runCutover 862-875 and
\* 905-913).  The server may still be a standby then, as Promote does not look
\* at what pg_promote prints.
SwitchedMeansTold ==
    traffic = "dest" => \A w \in Postgres : dest[w].told

\* OriginalRemembered: whatever freezes, retries and rollbacks happened, the
\* replica count from before the cutover is still there, as the count itself
\* or in the annotation (workloads.Scale).
OriginalRemembered ==
    \A w \in Scalable : Replicas[w] \in {source[w].replicas, source[w].mark}

\* CutoverEvidence: a Cutover that is not a dry run becomes Succeeded only in
\* a pass that read every workload with state Ready on dest and saw its probe
\* pass, with users already on dest unless a rollback took them back.
CutoverEvidence ==
    [][act'.phase = "Succeeded" /\ act.phase # "Succeeded" /\ ~DryRun =>
         /\ act'.listed \ Stateless \subseteq job.seen
         /\ CanSucceed(act'.listed, act'.rows, Stateless)
         /\ act.rollback \/ traffic = "dest"]_vars

Abstract == INSTANCE Handover WITH
    Standbys <- Postgres,
    frozen <- \A w \in Scalable : ScaledToZero(w),
    told <- {w \in Postgres : dest[w].told},
    primary <- {w \in Postgres : dest[w].primary},
    users <- traffic,
    undo <- act.rollback,
    done <- act.phase = "Succeeded" /\ ~DryRun

\* HandoverSpec: the passes of runCutover implement the abstract handover.  No
\* step is taken before the one it rests on: no standby is promoted while
\* the source is not frozen, no user goes to dest before every standby has been
\* told to become a primary, no Cutover succeeds with its users on source.  And without the
\* user's rollback nothing is taken back, whatever copy of the Action a pass
\* works on and wherever it is cut short (runCutover, cutover.Advance).
HandoverSpec == Abstract!Spec

\* CutoverSettles: "Freeze source, lag=0, promote dest, traffic webhook, dest
\* Ready + probe, Succeeded": once calls succeed and dest serves, the Action
\* reaches a terminal phase.
CutoverSettles == calm ~> act.phase \in ClosedPhase

\* NoLostWrites: "Freeze source, lag=0, promote dest": when users are sent to
\* dest it has every write the source took.
NoLostWrites ==
    [][traffic = "source" /\ traffic' = "dest" =>
         \A w \in Data : dest[w].data = source[w].data]_vars
=============================================================================
