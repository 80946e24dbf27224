------------------------- MODULE RestoreActionProofs -------------------------
(***************************************************************************)
(* Proofs about RestoreAction, for every set of workloads, every class     *)
(* assignment and every bound on the replay counter.                       *)
(*                                                                         *)
(* TypeCorrect is the type invariant.  DumpLands is the promise that a     *)
(* logical dump is in dest before the Action may wait for Ready: it needs  *)
(* LandedInv, which says of the stored Action, of the cached copy and of   *)
(* the pass in flight what DumpLanded says of the stored Action alone.     *)
(* Fresh and UsefulGates are about the verdict, and rest on what the rows  *)
(* of a pass in flight have been given (Evidence).  ReplaysOnce follows a  *)
(* replay from the pass that runs it to the marks later passes start from  *)
(* (OnceInv).                                                              *)
(***************************************************************************)
EXTENDS RestoreAction, TLAPS

USE ClassesDisjoint, DryRunIsFlag, MaxReplaysPositive

\* The empty status and the empty locals are typed.
LEMMA NewIsTyped == NewStatus \in Status /\ NoJob \in Job
  BY DEF NewStatus, Status, NoJob, Job, ZeroRow, Row, Message, Phase, Cause

\* A new Action is typed.
LEMMA TypeInit == Init => TypeOK
  BY NewIsTyped DEF Init, TypeOK, StoreInit, Object, Step, Unsettled, World, Stateful

\* Folding the facts of a visit into the locals keeps their type.
LEMMA VisitTyped ==
  ASSUME NEW j \in Job, NEW w \in Workloads, NEW r \in BOOLEAN, NEW p \in BOOLEAN,
         NEW m \in Message, NEW reh \in BOOLEAN
  PROVE  Visit(j, w, r, p, m, reh) \in Job
<1> DEFINE rows == [j.status.rows EXCEPT ![w] = Fact(@, r, p, m)]
           status == [j.status EXCEPT !.rows = rows]
           rehydrated == IF reh THEN j.reh \cup {w} ELSE j.reh
           seen == IF r /\ p THEN j.seen \cup {w} ELSE j.seen
<1>1. j.status \in Status /\ j.status.rows \in [Workloads -> Row]
  BY DEF Job, Status
<1>2. Fact(j.status.rows[w], r, p, m) \in Row
  <2>1. j.status.rows[w] \in Row
    BY <1>1
  <2> QED BY <2>1 DEF Fact, Row
<1>3. rows \in [Workloads -> Row]
  BY <1>1, <1>2
<1>4. status \in Status
  BY <1>1, <1>3 DEF Status
<1>5. Visit(j, w, r, p, m, reh) =
        [j EXCEPT !.status = status, !.todo = @ \ {w}, !.reh = rehydrated, !.seen = seen]
  BY Zenon DEF Visit
<1>6. rehydrated \in SUBSET Workloads /\ seen \in SUBSET Workloads
  BY DEF Job
<1> HIDE DEF status, rehydrated, seen
<1> QED BY <1>4, <1>5, <1>6, ZenonT(60) DEF Job

\* Seeding the rows (seedWorkloads) keeps the type of the locals.
LEMMA SeedTyped == ASSUME NEW j \in Job PROVE Seed(j) \in Job
<1>1. SeedListed(j.status, j.inv) \in SUBSET Workloads
  BY DEF SeedListed, Job, Status
<1>2. SeedRows(j.status, j.inv) \in [Workloads -> Row]
  <2>1. ZeroRow \in Row
    BY DEF ZeroRow, Row, Message
  <2>2. ASSUME NEW w \in Workloads PROVE [j.status.rows[w] EXCEPT !.ready = FALSE] \in Row
    <3>1. j.status.rows[w] \in Row
      BY DEF Job, Status
    <3> QED BY <3>1 DEF Row
  <2> QED BY <2>1, <2>2 DEF SeedRows
<1> QED BY <1>1, <1>2 DEF Seed, Job, Status

\* Advance returns a typed status.
LEMMA AdvanceTyped == ASSUME NEW j \in Job PROVE Advance(j) \in Status
  BY DEF Advance, NextPhase, Job, Status, Phase, Cause

\* Leave keeps the type of the locals and, of the locals, what was replayed.
LEMMA LeaveKeeps ==
  ASSUME TypeOK, NEW s \in Status, Leave(s)
  PROVE  /\ job' \in Job /\ pc' = "write"
         /\ job'.status = s /\ job'.ran = job.ran /\ job'.marks = {} /\ job'.reh = {}
<1>1. job' = [NoJob EXCEPT !.status = s, !.seen = job.seen, !.ran = job.ran] /\ pc' = "write"
  BY DEF Leave
<1>2. job.seen \in SUBSET Workloads /\ job.ran \in SUBSET Workloads
  BY DEF TypeOK, Job
<1>3. NoJob \in Job /\ NoJob.marks = {} /\ NoJob.reh = {}
  BY NewIsTyped DEF NoJob
<1> QED BY <1>1, <1>2, <1>3 DEF Job

\* Every step of a pass, of the watch, of the queue and of the surroundings
\* keeps TypeOK.
LEMMA TypeStep == TypeOK /\ [Next \/ Resync \/ Settle]_vars => TypeOK'
<1> SUFFICES ASSUME TypeOK, [Next \/ Resync \/ Settle]_vars PROVE TypeOK'
  OBVIOUS
<1> USE NewIsTyped
<1>1. CASE Ignore
  BY <1>1 DEF Ignore, TypeOK, TakeKey, store, hist
<1>2. CASE Begin
  <2>1. job' \in Job
    BY <1>2 DEF Begin, TypeOK, Job, NoJob, Status, Object, Phase, Cause
  <2> QED BY <1>2, <2>1 DEF Begin, TypeOK, TakeKey, store, hist, Step
<1>3. CASE PolicyMissing
  <2>1. \A cause \in Cause : [job.status EXCEPT !.phase = "Failed", !.cause = cause] \in Status
    BY DEF TypeOK, Job, Status, Phase
  <2>2. job' \in Job /\ pc' = "write"
    BY <1>3, <2>1, LeaveKeeps DEF PolicyMissing, FailJob, Cause
  <2> QED BY <1>3, <2>2 DEF PolicyMissing, TypeOK, store, hist, Step
<1>4. CASE PolicyRead
  <2>0. PICK u \in SUBSET Workloads :
          job' = [job EXCEPT !.useful = u, !.status.phase = IF @ = "" THEN "Pending" ELSE @]
    BY <1>4 DEF PolicyRead, TypeOK, Stateful, World
  <2>1. job' \in Job
    BY <2>0 DEF TypeOK, Job, Status, Phase
  <2>2. [act EXCEPT !.status = [job.status EXCEPT !.phase = "Pending"]] \in Object
    BY DEF TypeOK, Object, Status, Phase, Job
  <2> QED BY <1>4, <2>1, <2>2 DEF PolicyRead, Put, TypeOK, store, Step
<1>5. CASE PairMissing
  <2>1. \A cause \in Cause : [job.status EXCEPT !.phase = "Failed", !.cause = cause] \in Status
    BY DEF TypeOK, Job, Status, Phase
  <2>2. job' \in Job /\ pc' = "write"
    BY <1>5, <2>1, LeaveKeeps DEF PairMissing, FailJob, Cause
  <2> QED BY <1>5, <2>2 DEF PairMissing, TypeOK, store, hist, Step
<1>6. CASE Walk
  <2>1. PICK found \in SUBSET Workloads :
          LET j == [job EXCEPT !.inv = found, !.todo = found, !.useful = @ \cap found]
          IN  /\ IF job.status.phase = "Rehydrating"
                 THEN pc' = "apply" /\ job' = j
                 ELSE pc' = "work" /\ job' = Seed(j)
              /\ steady' = steady \cap found
    BY <1>6 DEF Walk, TypeOK, World
  <2>2. [job EXCEPT !.inv = found, !.todo = found, !.useful = @ \cap found] \in Job
    BY DEF TypeOK, Job
  <2>3. job' \in Job
    BY <2>1, <2>2, SeedTyped
  <2> QED BY <1>6, <2>1, <2>3 DEF Walk, TypeOK, store, Step
<1>7. CASE Apply
  BY <1>7, SeedTyped DEF Apply, TypeOK, store, hist, Step
<1>8. CASE ApplyFails
  <2>0. [NewStatus EXCEPT !.phase = "Failed", !.cause = "permanent"] \in Status
    BY DEF Status, Phase, Cause
  <2>1. job' \in Job /\ pc' = "write"
    BY <1>8, <2>0, LeaveKeeps DEF ApplyFails, TypeOK, Job
  <2> QED BY <1>8, <2>1 DEF ApplyFails, TypeOK, store, hist, Step
<1> DEFINE W == Next1
<1>a. ASSUME job.todo # {} PROVE W \in Workloads
  BY <1>a DEF Next1, TypeOK, Job
<1>9. CASE VisitStateless
  <2>1. PICK r \in BOOLEAN : job' = Visit(job, W, r, TRUE, "text", TRUE)
    BY <1>9 DEF VisitStateless, Answers
  <2>2. job' \in Job
    BY <1>9, <1>a, <2>1, VisitTyped DEF VisitStateless, TypeOK, Message
  <2> QED BY <1>9, <2>2 DEF VisitStateless, TypeOK, store, hist
<1>10. CASE VisitSkip
  BY <1>10, <1>a, VisitTyped DEF VisitSkip, TypeOK, store, hist, Message
<1>b. ArtifactMessage(W) \in Message /\ Answers \subseteq BOOLEAN /\ "text" \in Message
  BY DEF ArtifactMessage, Message, Answers
<1>11. CASE VisitGraph
  <2>1. job' \in Job
    <3>1. ASSUME NEW ok \in BOOLEAN, NEW j \in Job
          PROVE  [j EXCEPT !.status.rows[W].probeOK = ok] \in Job
      <4>1. W \in Workloads
        BY <1>11, <1>a DEF VisitGraph
      <4>2. [j.status.rows EXCEPT ![W].probeOK = ok] \in [Workloads -> Row]
        BY <4>1 DEF Job, Status, Row
      <4> QED BY <4>2 DEF Job, Status
    <3>2. CASE \E ok \in Answers :
            job' = [Visit(job, W, ok, ok, ArtifactMessage(W), TRUE)
                    EXCEPT !.status.rows[W].probeOK = ok]
      <4>1. PICK ok \in BOOLEAN :
              job' = [Visit(job, W, ok, ok, ArtifactMessage(W), TRUE)
                      EXCEPT !.status.rows[W].probeOK = ok]
        BY <1>b, <3>2
      <4>2. Visit(job, W, ok, ok, ArtifactMessage(W), TRUE) \in Job
        BY <1>11, <1>a, <1>b, VisitTyped DEF VisitGraph, TypeOK
      <4> HIDE DEF W
      <4> QED BY <3>1, <4>1, <4>2
    <3>3. CASE job' = Visit(job, W, FALSE, FALSE, "text", FALSE)
      BY <1>11, <1>a, <1>b, <3>3, VisitTyped DEF VisitGraph, TypeOK
    <3> QED BY <1>11, <3>2, <3>3 DEF VisitGraph
  <2> QED BY <1>11, <2>1 DEF VisitGraph, TypeOK, store, hist
<1>12. CASE VisitPlugin
  <2>1. job' \in Job
    <3>1. CASE \E r, p \in Answers : job' = Visit(job, W, r, p, ArtifactMessage(W), TRUE)
      <4>1. PICK r \in BOOLEAN, p \in BOOLEAN :
              job' = Visit(job, W, r, p, ArtifactMessage(W), TRUE)
        BY <1>b, <3>1
      <4> QED BY <1>12, <1>a, <1>b, <4>1, VisitTyped DEF VisitPlugin, TypeOK
    <3>2. CASE job' = Visit(job, W, FALSE, FALSE, "text", FALSE)
      BY <1>12, <1>a, <1>b, <3>2, VisitTyped DEF VisitPlugin, TypeOK
    <3> QED BY <1>12, <3>1, <3>2 DEF VisitPlugin
  <2> QED BY <1>12, <2>1 DEF VisitPlugin, TypeOK, store, hist
<1>13. CASE VisitVolume
  <2>1. job' \in Job
    BY <1>13, <1>a, <1>b, VisitTyped DEF VisitVolume, TypeOK
  <2> QED BY <1>13, <2>1 DEF VisitVolume, TypeOK, store, hist
<1>14. CASE DumpWaits
  <2>1. job' \in Job
    <3>1. PICK r \in BOOLEAN, p \in BOOLEAN : job' = Visit(job, W, r, p, ArtifactMessage(W), FALSE)
      BY <1>14 DEF DumpWaits
    <3> QED BY <1>14, <1>a, <1>b, <3>1, VisitTyped DEF DumpWaits, TypeOK
  <2> QED BY <1>14, <2>1 DEF DumpWaits, TypeOK, store, hist
<1>15. CASE DumpFails
  <2>1. job' \in Job
    <3>1. PICK r \in BOOLEAN, p \in BOOLEAN : job' = Visit(job, W, r, p, "text", FALSE)
      BY <1>15 DEF DumpFails
    <3> QED BY <1>15, <1>a, <1>b, <3>1, VisitTyped DEF DumpFails, TypeOK
  <2>2. replays' \in [Workloads -> 0..MaxReplays]
    BY <1>15 DEF DumpFails, Bump, TypeOK
  <2> QED BY <1>15, <1>a, <2>1, <2>2 DEF DumpFails, TypeOK, store
<1>16. CASE DumpApply
  BY <1>16, <1>a DEF DumpApply, Bump, TypeOK, store, hist, Job, Step
<1>17. CASE Remember
  <2>1. W \in Workloads
    BY <1>17, <1>a DEF Remember
  <2>2. ASSUME NEW j \in Job PROVE [j EXCEPT !.marks = @ \cup {W}] \in Job
    BY <2>1 DEF Job
  <2>3. job' \in Job
    BY <1>17, <1>b, <2>1, <2>2, VisitTyped DEF Remember, TypeOK
  <2>4. [act EXCEPT !.marks = @ \cup {W}] \in Object
    BY <2>1 DEF TypeOK, Object
  <2> QED BY <1>17, <2>3, <2>4 DEF Remember, Put, TypeOK, store, hist, Step
<1>18. CASE Finish
  <2>1. job' \in Job /\ pc' = "write"
    BY <1>18, AdvanceTyped, LeaveKeeps DEF Finish, TypeOK
  <2> QED BY <1>18, <2>1 DEF Finish, TypeOK, store, hist, Step
<1>19. CASE WriteStatus
  BY <1>19 DEF WriteStatus, Put, TypeOK, hist, Job, Object, Step
<1>20. CASE Deliver
  BY <1>20 DEF Deliver, DeliverNewest, TypeOK, hist
<1>21. CASE Conflict
  BY <1>21 DEF Conflict, Drop, TypeOK, store, Step, Job
<1>22. CASE Abort
  BY <1>22 DEF Abort, Drop, TypeOK, store, Step, Job
<1>23. CASE Resync
  BY <1>23 DEF Resync, ResyncKey, TypeOK, store, hist
<1>24. CASE Settle
  BY <1>24 DEF Settle, TypeOK, store, hist
<1>25. CASE UNCHANGED vars
  BY <1>25 DEF vars, TypeOK
<1> QED
  BY <1>1, <1>2, <1>3, <1>4, <1>5, <1>6, <1>7, <1>8, <1>9, <1>10, <1>11, <1>12, <1>13,
     <1>14, <1>15, <1>16, <1>17, <1>18, <1>19, <1>20, <1>21, <1>22, <1>23, <1>24, <1>25
     DEF Next, Pass, Loop

\* TypeCorrect: Spec keeps TypeOK; no step of Reconcile or runRestore leaves the
\* phases, rows and counters of the model.
THEOREM TypeCorrect == Spec => []TypeOK
<1>1. TypeOK /\ [Next \/ Resync]_vars => TypeOK'
  BY TypeStep
<1> QED BY TypeInit, <1>1, PTL DEF Spec

-----------------------------------------------------------------------------
(* DumpLanded *)

Landed(w) == replays[w] > 0

\* What a stored, cached or computed status says of workloads that were useful
\* on every pass, and of the dumps recorded as replayed.
Sound(o) ==
    /\ \A w \in steady : ~Skipped(o.status.rows[w])
    /\ o.status.phase = "WaitingReady" \/ (o.status.phase = "Succeeded" /\ ~DryRun) =>
         \A w \in steady \cap Replayable : Landed(w)
    /\ \A w \in o.marks \cap Replayable : Landed(w)

\* The same for the locals of a pass.
PassSound ==
    /\ steady \subseteq Stateful
    /\ pc = "policy" => job.status.phase \in {"", "Pending", "Rehydrating", "WaitingReady"}
    /\ pc \in {"inventory", "apply", "work", "remember"} =>
         /\ steady \subseteq job.useful
         /\ job.status.phase \in {"Pending", "Rehydrating", "WaitingReady"}
    /\ pc \in {"apply", "work", "remember"} => steady \subseteq job.inv
    /\ pc \in {"work", "remember"} => steady \subseteq job.status.listed
    /\ pc = "remember" => Next1 \in job.ran
    /\ \A w \in job.ran \cap Replayable : Landed(w)
    /\ \A w \in job.reh \cap steady \cap Replayable : Landed(w)

LandedInv == Sound(act) /\ Sound(cache) /\ Sound(job) /\ PassSound

\* A new Action satisfies LandedInv: nothing is recorded, nothing is skipped.
LEMMA LandedInit == Init => LandedInv
<1> SUFFICES ASSUME Init PROVE LandedInv
  OBVIOUS
<1>1. /\ act.status = NewStatus /\ cache.status = NewStatus /\ job.status = NewStatus
      /\ act.marks = {} /\ cache.marks = {} /\ job.marks = {}
      /\ job.ran = {} /\ job.reh = {} /\ pc = "idle" /\ steady = Stateful
  BY DEF Init, StoreInit, NoJob
<1>2. \A w \in steady : ~Skipped(NewStatus.rows[w])
  BY <1>1 DEF NewStatus, ZeroRow, Skipped, Stateful
<1>3. NewStatus.phase = ""
  BY DEF NewStatus
<1> QED BY <1>1, <1>2, <1>3 DEF LandedInv, Sound, PassSound

\* Replaying a dump (dump.Apply) lands it and takes back no earlier replay.
LEMMA BumpLands ==
  ASSUME TypeOK, NEW v \in Workloads
  PROVE  /\ Bump(v)[v] > 0
         /\ \A w \in Workloads : replays[w] > 0 => Bump(v)[w] > 0
  BY DEF Bump, TypeOK

\* What the facts of a visit to w, with message m, leave of the job.
Visited(k, w, m, reh) ==
    /\ k.status.phase = job.status.phase /\ k.status.listed = job.status.listed
    /\ k.ran = job.ran /\ k.useful = job.useful /\ k.inv = job.inv /\ k.marks = job.marks
    /\ k.reh \subseteq job.reh \cup (IF reh THEN {w} ELSE {})
    /\ \A v \in Workloads : Skipped(k.status.rows[v]) =>
         Skipped(job.status.rows[v]) \/ (v = w /\ m = "skipped")

\* A visit changes the locals no further than Visited says.
LEMMA VisitIsVisited ==
  ASSUME TypeOK, NEW w \in Workloads, NEW r \in BOOLEAN, NEW p \in BOOLEAN,
         NEW m \in Message, NEW reh \in BOOLEAN
  PROVE  Visited(Visit(job, w, r, p, m, reh), w, m, reh)
<1> DEFINE k == Visit(job, w, r, p, m, reh)
<1>1. k.status.rows = [job.status.rows EXCEPT ![w] = Fact(@, r, p, m)]
  BY DEF Visit, TypeOK, Job, Status
<1>2. ASSUME NEW v \in Workloads, Skipped(k.status.rows[v]), ~Skipped(job.status.rows[v])
      PROVE  v = w /\ m = "skipped"
  BY <1>1, <1>2 DEF Fact, Skipped, TypeOK, Job, Status
<1>3. /\ k.status.phase = job.status.phase /\ k.status.listed = job.status.listed
      /\ k.ran = job.ran /\ k.useful = job.useful /\ k.inv = job.inv /\ k.marks = job.marks
      /\ k.reh = (IF reh THEN job.reh \cup {w} ELSE job.reh)
  BY DEF Visit, TypeOK, Job, Status
<1> QED BY <1>2, <1>3 DEF Visited

\* A visit keeps the invariant when a skipped workload was not useful on every
\* pass and a rehydrated one has its dump replayed.
LEMMA VisitLanded ==
  ASSUME TypeOK, LandedInv, pc = "work", pc' = "work", UNCHANGED <<store, replays, steady>>,
         NEW w \in Workloads, NEW m, NEW reh \in BOOLEAN, Visited(job', w, m, reh),
         m = "skipped" => w \notin steady,
         reh /\ w \in steady \cap Replayable => Landed(w)
  PROVE  LandedInv'
<1>1. Sound(act)' /\ Sound(cache)'
  BY DEF LandedInv, Sound, Landed, store
<1>2. Sound(job)'
  BY DEF LandedInv, Sound, Landed, Visited, TypeOK
<1>3. PassSound'
  BY DEF LandedInv, PassSound, Landed, Visited
<1> QED BY <1>1, <1>2, <1>3 DEF LandedInv

\* Seeding the rows keeps the phase and makes no row skipped.
LEMMA SeedKeeps ==
  ASSUME NEW j \in Job
  PROVE  /\ Seed(j).status.phase = j.status.phase
         /\ Seed(j).status.listed = SeedListed(j.status, j.inv)
         /\ Seed(j).ran = j.ran /\ Seed(j).reh = j.reh /\ Seed(j).marks = j.marks
         /\ Seed(j).useful = j.useful /\ Seed(j).inv = j.inv
         /\ \A w \in Workloads : Skipped(Seed(j).status.rows[w]) => Skipped(j.status.rows[w])
<1>1. Seed(j).status.rows = SeedRows(j.status, j.inv)
  BY DEF Seed, Job, Status
<1>2. ASSUME NEW w \in Workloads, Skipped(SeedRows(j.status, j.inv)[w])
      PROVE  Skipped(j.status.rows[w])
  <2>1. j.status.rows[w] \in Row
    BY DEF Job, Status
  <2> QED BY <1>2, <2>1 DEF SeedRows, Skipped, Row, ZeroRow
<1> QED BY <1>1, <1>2 DEF Seed, Job, Status

\* The rows of an inventory that holds every steady workload.
LEMMA SeedLanded ==
  ASSUME TypeOK, LandedInv, NEW j \in Job, job' = Seed(j), pc' = "work",
         pc \in {"inventory", "apply"}, UNCHANGED <<store, replays>>, steady' \subseteq steady,
         steady' \subseteq j.inv, j.status = job.status, j.marks = job.marks,
         j.ran = job.ran, j.reh = job.reh, steady' \subseteq j.useful
  PROVE  LandedInv'
<1>1. /\ job'.status.phase = job.status.phase
      /\ job'.ran = job.ran /\ job'.reh = job.reh /\ job'.marks = job.marks
      /\ job'.useful = j.useful /\ job'.inv = j.inv
      /\ \A w \in Workloads : Skipped(job'.status.rows[w]) => Skipped(job.status.rows[w])
  BY SeedKeeps
<1>2. steady' \subseteq job'.status.listed
  BY SeedKeeps DEF SeedListed
<1>3. Sound(act)' /\ Sound(cache)'
  BY DEF LandedInv, Sound, Landed, store
<1>4. Sound(job)'
  BY <1>1 DEF LandedInv, Sound, Landed, TypeOK
<1>5. PassSound'
  BY <1>1, <1>2 DEF LandedInv, PassSound, Landed
<1> QED BY <1>3, <1>4, <1>5 DEF LandedInv

\* A pass that leaves the loop keeps the invariant when the status it is going to
\* write skips no steady workload and is past Rehydrating only with the dumps in.
LEMMA LeaveLanded ==
  ASSUME TypeOK, LandedInv, NEW s \in Status, Leave(s), UNCHANGED <<store, replays, steady>>,
         \A w \in steady : ~Skipped(s.rows[w]),
         s.phase = "WaitingReady" \/ (s.phase = "Succeeded" /\ ~DryRun) =>
           \A w \in steady \cap Replayable : Landed(w)
  PROVE  LandedInv'
<1>1. /\ pc' = "write" /\ job'.status = s /\ job'.ran = job.ran
      /\ job'.marks = {} /\ job'.reh = {}
  BY LeaveKeeps
<1>2. Sound(act)' /\ Sound(cache)'
  BY DEF LandedInv, Sound, Landed, store
<1>3. Sound(job)'
  BY <1>1 DEF Sound, Landed
<1>4. PassSound'
  BY <1>1 DEF LandedInv, PassSound, Landed
<1> QED BY <1>2, <1>3, <1>4 DEF LandedInv

\* Every step keeps LandedInv, one case per action: the loop of runRestore may
\* count a workload as rehydrated only when its dump is in dest, and Advance
\* leaves Rehydrating only when every workload that counts is rehydrated.
LEMMA LandedStep == TypeOK /\ LandedInv /\ [Next \/ Resync]_vars => LandedInv'
<1> SUFFICES ASSUME TypeOK, LandedInv, [Next \/ Resync]_vars PROVE LandedInv'
  OBVIOUS
<1>1. CASE Ignore
  BY <1>1 DEF Ignore, LandedInv, Sound, PassSound, Landed, store, hist
<1>2. CASE Begin
  BY <1>2, ZenonT(60) DEF Begin, LandedInv, Sound, PassSound, Landed, store, hist, NoJob, TypeOK, Object,
              Status, Phase, Closed
<1>3. CASE PolicyMissing
  <2>1. PICK cause \in Cause : FailJob(cause)
    BY <1>3 DEF PolicyMissing, Cause
  <2> DEFINE s == [job.status EXCEPT !.phase = "Failed", !.cause = cause]
  <2>2. s \in Status /\ s.phase = "Failed" /\ s.rows = job.status.rows /\ Leave(s)
    BY <2>1 DEF FailJob, TypeOK, Job, Status, Phase
  <2> HIDE DEF s
  <2>3. \A w \in steady : ~Skipped(s.rows[w])
    BY <2>2 DEF LandedInv, Sound
  <2> QED BY <1>3, <2>2, <2>3, LeaveLanded DEF PolicyMissing, hist
<1>5. CASE PairMissing
  <2>1. PICK cause \in Cause : FailJob(cause)
    BY <1>5 DEF PairMissing, Cause
  <2> DEFINE s == [job.status EXCEPT !.phase = "Failed", !.cause = cause]
  <2>2. s \in Status /\ s.phase = "Failed" /\ s.rows = job.status.rows /\ Leave(s)
    BY <2>1 DEF FailJob, TypeOK, Job, Status, Phase
  <2> HIDE DEF s
  <2>3. \A w \in steady : ~Skipped(s.rows[w])
    BY <2>2 DEF LandedInv, Sound
  <2> QED BY <1>5, <2>2, <2>3, LeaveLanded DEF PairMissing, hist
<1>4. CASE PolicyRead
  <2> DEFINE new == [job.status EXCEPT !.phase = "Pending"]
  <2>0. PICK u \in SUBSET Workloads :
          /\ job' = [job EXCEPT !.useful = u, !.status.phase = IF @ = "" THEN "Pending" ELSE @]
          /\ steady' = steady \cap u
    BY <1>4 DEF PolicyRead, TypeOK, Stateful, World
  <2>1. /\ job'.status.rows = job.status.rows
        /\ job'.status.phase = (IF job.status.phase = "" THEN "Pending" ELSE job.status.phase)
        /\ job'.marks = job.marks /\ job'.ran = job.ran /\ job'.reh = job.reh /\ job'.useful = u
    BY <2>0 DEF TypeOK, Job, Status
  <2>a. replays' = replays /\ pc = "policy" /\ pc' = "inventory"
    BY <1>4 DEF PolicyRead
  <2>2. Sound(job)'
    <3>1. job'.status.phase \in {"WaitingReady", "Succeeded"} => job'.status.phase = job.status.phase
      BY <2>1
    <3>2. \A w \in steady' : ~Skipped(job'.status.rows[w])
      BY <2>0, <2>1 DEF LandedInv, Sound
    <3>3. \A w \in job'.marks \cap Replayable : Landed(w)'
      BY <2>a, <2>1 DEF LandedInv, Sound, Landed
    <3> QED BY <2>a, <2>0, <3>1, <3>2, <3>3 DEF LandedInv, Sound, Landed
  <2>3. Sound(cache)'
    BY <1>4, <2>0 DEF PolicyRead, Put, LandedInv, Sound, Landed, store
  <2>4. Sound(act)'
    <3>1. CASE job.status.phase = ""
      <4>1. act' = [act EXCEPT !.status = new]
        BY <1>4, <3>1 DEF PolicyRead, Put
      <4>2. act'.status.rows = job.status.rows /\ act'.status.phase = "Pending" /\ act'.marks = act.marks
        BY <4>1 DEF TypeOK, Object, Job, Status
      <4> QED BY <1>4, <2>0, <4>2 DEF PolicyRead, LandedInv, Sound, Landed
    <3>2. CASE job.status.phase # ""
      BY <1>4, <2>0, <3>2 DEF PolicyRead, LandedInv, Sound, Landed, store
    <3> QED BY <3>1, <3>2
  <2>5. PassSound'
    BY <2>a, <2>0, <2>1 DEF LandedInv, PassSound, Landed
  <2> QED BY <2>2, <2>3, <2>4, <2>5 DEF LandedInv
<1>6. CASE Walk
  <2>1. PICK found \in SUBSET Workloads :
          LET j == [job EXCEPT !.inv = found, !.todo = found, !.useful = @ \cap found]
          IN  /\ IF job.status.phase = "Rehydrating"
                 THEN pc' = "apply" /\ job' = j
                 ELSE pc' = "work" /\ job' = Seed(j)
              /\ steady' = steady \cap found
    BY <1>6 DEF Walk, TypeOK, World
  <2> DEFINE j == [job EXCEPT !.inv = found, !.todo = found, !.useful = @ \cap found]
  <2>2. /\ j.status = job.status /\ j.marks = job.marks /\ j.ran = job.ran /\ j.reh = job.reh
        /\ j.useful = job.useful \cap found /\ j.inv = found
    BY DEF TypeOK, Job
  <2>3. /\ UNCHANGED <<act, cache, replays>> /\ pc = "inventory"
        /\ pc' \in {"apply", "work"}
    BY <1>6, <2>1 DEF Walk, store
  <2>4. Sound(act)' /\ Sound(cache)'
    BY <2>1, <2>3 DEF LandedInv, Sound, Landed
  <2>5. CASE pc' = "apply"
    BY <2>1, <2>2, <2>3, <2>4, <2>5 DEF LandedInv, Sound, PassSound, Landed
  <2>6. CASE pc' = "work"
    <3>1. job' = Seed(j)
      BY <2>1, <2>6
    <3>2. j \in Job
      BY DEF TypeOK, Job
    <3> HIDE DEF j
    <3>3. /\ UNCHANGED store /\ steady' \subseteq steady /\ steady' \subseteq j.inv
          /\ steady' \subseteq j.useful
      BY <1>6, <2>1, <2>2, <2>3 DEF Walk, LandedInv, PassSound
    <3> QED BY <2>2, <2>3, <2>6, <3>1, <3>2, <3>3, SeedLanded
  <2> QED BY <2>3, <2>5, <2>6
<1>7. CASE Apply
  <2>1. job \in Job /\ steady \subseteq job.inv /\ steady \subseteq job.useful
    BY <1>7 DEF Apply, TypeOK, LandedInv, PassSound
  <2> QED BY <1>7, <2>1, SeedLanded DEF Apply, hist
<1>8. CASE ApplyFails
  <2> DEFINE s == [NewStatus EXCEPT !.phase = "Failed", !.cause = "permanent"]
  <2>1. CASE Leave(job.status)
    <3>1. job.status \in Status /\ Sound(job)
      BY DEF TypeOK, Job, LandedInv
    <3> QED BY <1>8, <2>1, <3>1, LeaveLanded DEF ApplyFails, hist, Sound
  <2>2. CASE Leave(s)
    <3>1. s \in Status /\ s.phase = "Failed" /\ s.rows = NewStatus.rows
      BY NewIsTyped DEF Status, Phase, Cause
    <3>2. \A w \in steady : ~Skipped(s.rows[w])
      BY <3>1 DEF NewStatus, ZeroRow, Skipped, TypeOK
    <3> HIDE DEF s
    <3> QED BY <1>8, <2>2, <3>1, <3>2, LeaveLanded DEF ApplyFails, hist
  <2> QED BY <1>8, <2>1, <2>2 DEF ApplyFails
<1> DEFINE W == Next1
<1>w. ASSUME job.todo # {} PROVE W \in job.todo /\ W \in Workloads
  BY <1>w DEF Next1, TypeOK, Job
<1>m. ArtifactMessage(W) \in Message /\ ArtifactMessage(W) # "skipped" /\ {"text", "skipped"} \subseteq Message
  BY DEF ArtifactMessage, Message
<1>s. steady \subseteq Stateful /\ (pc = "work" => steady \subseteq job.useful)
  BY DEF LandedInv, PassSound
<1> HIDE DEF W
<1>9. CASE VisitStateless
  <2>1. PICK ok \in BOOLEAN : job' = Visit(job, W, ok, TRUE, "text", TRUE)
    BY <1>9 DEF VisitStateless, Answers, W
  <2>2. W \in Workloads /\ W \notin steady /\ pc = "work" /\ pc' = "work" /\ UNCHANGED <<store, replays, steady>>
    BY <1>9, <1>w, <1>s DEF VisitStateless, hist, Stateful, W
  <2>3. Visited(job', W, "text", TRUE)
    BY <2>1, <2>2, <1>m, VisitIsVisited
  <2> QED BY <2>2, <2>3, VisitLanded
<1>10. CASE VisitSkip
  <2>1. job' = Visit(job, W, FALSE, FALSE, "skipped", TRUE)
    BY <1>10 DEF VisitSkip, W
  <2>2. W \in Workloads /\ W \notin steady /\ pc = "work" /\ pc' = "work" /\ UNCHANGED <<store, replays, steady>>
    BY <1>10, <1>w, <1>s DEF VisitSkip, hist, W
  <2>3. Visited(job', W, "skipped", TRUE)
    BY <2>1, <2>2, <1>m, VisitIsVisited
  <2> QED BY <2>2, <2>3, VisitLanded
<1>11. CASE VisitGraph
  <2>2. W \in Workloads /\ W \notin Replayable /\ pc = "work" /\ pc' = "work" /\ UNCHANGED <<store, replays, steady>>
    BY <1>11, <1>w DEF VisitGraph, hist, W
  <2>1. CASE \E ok \in Answers :
            job' = [Visit(job, W, ok, ok, ArtifactMessage(W), TRUE) EXCEPT !.status.rows[W].probeOK = ok]
    <3>1. PICK ok \in BOOLEAN :
            job' = [Visit(job, W, ok, ok, ArtifactMessage(W), TRUE) EXCEPT !.status.rows[W].probeOK = ok]
      BY <2>1 DEF Answers
    <3> DEFINE k == Visit(job, W, ok, ok, ArtifactMessage(W), TRUE)
    <3>2. k \in Job
      BY <2>2, <1>m, VisitTyped DEF TypeOK
    <3>3. Visited(k, W, ArtifactMessage(W), TRUE)
      BY <2>2, <1>m, VisitIsVisited
    <3> HIDE DEF k
    <3>4. job' = [k EXCEPT !.status.rows[W].probeOK = ok]
      BY <3>1 DEF k
    <3>5. job'.status.rows = [k.status.rows EXCEPT ![W].probeOK = ok]
      BY <3>2, <3>4 DEF Job, Status
    <3>6. \A v \in Workloads : Skipped(job'.status.rows[v]) => Skipped(k.status.rows[v])
      BY <3>2, <3>5 DEF Skipped, Job, Status, Row
    <3>7. /\ job'.status.phase = k.status.phase /\ job'.status.listed = k.status.listed
          /\ job'.ran = k.ran /\ job'.useful = k.useful /\ job'.inv = k.inv
          /\ job'.marks = k.marks /\ job'.reh = k.reh
      BY <3>2, <3>4 DEF Job, Status
    <3>8. Visited(job', W, ArtifactMessage(W), TRUE)
      BY <3>3, <3>6, <3>7 DEF Visited
    <3> QED BY <2>2, <3>8, <1>m, VisitLanded
  <2>3. CASE job' = Visit(job, W, FALSE, FALSE, "text", FALSE)
    BY <2>2, <2>3, <1>m, VisitIsVisited, VisitLanded
  <2> QED BY <1>11, <2>1, <2>3 DEF VisitGraph, W
<1>12. CASE VisitPlugin
  <2>2. W \in Workloads /\ W \notin Replayable /\ pc = "work" /\ pc' = "work" /\ UNCHANGED <<store, replays, steady>>
    BY <1>12, <1>w DEF VisitPlugin, hist, W
  <2>1. CASE \E a, p \in Answers : job' = Visit(job, W, a, p, ArtifactMessage(W), TRUE)
    <3>1. PICK a \in BOOLEAN, p \in BOOLEAN : job' = Visit(job, W, a, p, ArtifactMessage(W), TRUE)
      BY <2>1 DEF Answers
    <3>2. Visited(job', W, ArtifactMessage(W), TRUE)
      BY <3>1, <2>2, <1>m, VisitIsVisited
    <3> QED BY <2>2, <3>2, <1>m, VisitLanded
  <2>3. CASE job' = Visit(job, W, FALSE, FALSE, "text", FALSE)
    BY <2>2, <2>3, <1>m, VisitIsVisited, VisitLanded
  <2> QED BY <1>12, <2>1, <2>3 DEF VisitPlugin, W
<1>13. CASE VisitVolume
  <2>1. PICK d \in BOOLEAN, a \in BOOLEAN, p \in BOOLEAN : job' = Visit(job, W, a, p, ArtifactMessage(W), d)
    BY <1>13 DEF VisitVolume, Answers, W
  <2>2. W \in Workloads /\ pc = "work" /\ pc' = "work" /\ UNCHANGED <<store, replays, steady>>
    BY <1>13, <1>w DEF VisitVolume, hist, W
  <2>3. Visited(job', W, ArtifactMessage(W), d)
    BY <2>1, <2>2, <1>m, VisitIsVisited
  <2>4. ASSUME W \in steady \cap Replayable PROVE Landed(W)
    <3>2. ~Owed(W) /\ W \in Dumped
      BY <1>13, <2>4 DEF VisitVolume, W
    <3> QED BY <2>4, <3>2 DEF Owed, LandedInv, Sound
  <2> QED BY <2>2, <2>3, <2>4, <1>m, VisitLanded
<1>14. CASE DumpWaits
  <2>1. PICK a \in BOOLEAN, p \in BOOLEAN : job' = Visit(job, W, a, p, ArtifactMessage(W), FALSE)
    BY <1>14 DEF DumpWaits, W
  <2>2. W \in Workloads /\ pc = "work" /\ pc' = "work" /\ UNCHANGED <<store, replays, steady>>
    BY <1>14, <1>w DEF DumpWaits, hist, W
  <2>3. Visited(job', W, ArtifactMessage(W), FALSE)
    BY <2>1, <2>2, <1>m, VisitIsVisited
  <2> QED BY <2>2, <2>3, <1>m, VisitLanded
<1>15. CASE DumpFails
  <2>1. PICK a \in BOOLEAN, p \in BOOLEAN : job' = Visit(job, W, a, p, "text", FALSE)
    BY <1>15 DEF DumpFails, W
  <2>2. W \in Workloads /\ pc = "work" /\ pc' = "work" /\ UNCHANGED <<store, steady>>
    BY <1>15, <1>w DEF DumpFails, W
  <2>3. Visited(job', W, "text", FALSE)
    BY <2>1, <2>2, <1>m, VisitIsVisited
  <2>4. replays' = replays \/ replays' = Bump(W)
    BY <1>15 DEF DumpFails, W
  <2>5. \A v \in Workloads : Landed(v) => Landed(v)'
    BY <2>2, <2>4, BumpLands DEF Landed
  <2>6. Sound(act)' /\ Sound(cache)'
    BY <2>2, <2>5 DEF LandedInv, Sound, store
  <2>7. Sound(job)'
    BY <2>2, <2>3, <2>5 DEF LandedInv, Sound, Visited, TypeOK
  <2>8. PassSound'
    BY <2>2, <2>3, <2>5 DEF LandedInv, PassSound, Visited
  <2> QED BY <2>6, <2>7, <2>8 DEF LandedInv
<1>16. CASE DumpApply
  <2>2. W \in Workloads /\ pc = "work" /\ pc' = "remember" /\ UNCHANGED <<store, steady>>
    BY <1>16, <1>w DEF DumpApply, hist, W
  <2>3. /\ job'.status = job.status /\ job'.marks = job.marks /\ job'.reh = job.reh
        /\ job'.useful = job.useful /\ job'.inv = job.inv /\ job'.todo = job.todo
        /\ job'.ran = job.ran \cup {W}
    BY <1>16 DEF DumpApply, TypeOK, Job, W
  <2>4. replays' = IF W \in Replayable THEN Bump(W) ELSE replays
    BY <1>16 DEF DumpApply, W
  <2>5. /\ \A v \in Workloads : Landed(v) => Landed(v)'
        /\ W \in Replayable => replays'[W] > 0
    BY <2>2, <2>4, BumpLands DEF Landed
  <2>6. Sound(act)' /\ Sound(cache)'
    BY <2>2, <2>5 DEF LandedInv, Sound, store
  <2>7. Sound(job)'
    BY <2>2, <2>3, <2>5 DEF LandedInv, Sound
  <2>9. Next1' = W
    BY <2>3 DEF Next1, W
  <2>8. PassSound'
    BY <2>2, <2>3, <2>5, <2>9 DEF LandedInv, PassSound, Landed
  <2> QED BY <2>6, <2>7, <2>8 DEF LandedInv
<1>17. CASE Remember
  <2>2. W \in Workloads /\ pc = "remember" /\ pc' = "work" /\ UNCHANGED <<replays, steady>>
    BY <1>17, <1>w DEF Remember, hist, W
  <2>1. PICK d \in BOOLEAN, a \in BOOLEAN, p \in BOOLEAN :
          job' = [Visit(job, W, a, p, ArtifactMessage(W), d) EXCEPT !.marks = @ \cup {W}]
    BY <1>17 DEF Remember, Answers, W
  <2> DEFINE k == Visit(job, W, a, p, ArtifactMessage(W), d)
  <2>3. k \in Job
    BY <2>2, <1>m, VisitTyped DEF TypeOK
  <2>4. Visited(k, W, ArtifactMessage(W), d)
    BY <2>2, <1>m, VisitIsVisited
  <2> HIDE DEF k
  <2>5. /\ job'.status = k.status /\ job'.marks = k.marks \cup {W} /\ job'.ran = k.ran
        /\ job'.reh = k.reh /\ job'.useful = k.useful /\ job'.inv = k.inv
    BY <2>1, <2>3 DEF Job, k
  <2>6. W \in Replayable => Landed(W)
    BY <2>2 DEF LandedInv, PassSound, W
  <2>7. Sound(act)' /\ Sound(cache)'
    <3>1. act' = act \/ act' = [act EXCEPT !.marks = @ \cup {W}]
      BY <1>17 DEF Remember, Put, store, W
    <3>2. act'.status = act.status /\ act'.marks \subseteq act.marks \cup {W}
      BY <3>1 DEF TypeOK, Object
    <3>3. cache' = cache
      BY <1>17 DEF Remember, Put, store
    <3> QED BY <2>2, <2>6, <3>2, <3>3 DEF LandedInv, Sound, Landed
  <2>8. Sound(job)'
    BY <1>m, <2>2, <2>4, <2>5, <2>6 DEF LandedInv, Sound, Landed, Visited, TypeOK
  <2>9. PassSound'
    BY <2>2, <2>4, <2>5, <2>6 DEF LandedInv, PassSound, Landed, Visited
  <2> QED BY <2>7, <2>8, <2>9 DEF LandedInv
<1>18. CASE Finish
  <2>2. pc = "work" /\ Leave(Advance(job)) /\ UNCHANGED <<store, replays, steady>>
    BY <1>18 DEF Finish, hist
  <2>3. Advance(job) \in Status
    BY AdvanceTyped DEF TypeOK
  <2>4. Advance(job).phase = NextPhase(job) /\ Advance(job).rows = job.status.rows
    BY DEF Advance, TypeOK, Job, Status
  <2>5. ASSUME NextPhase(job) = "WaitingReady" \/ (NextPhase(job) = "Succeeded" /\ ~DryRun)
        PROVE  \A w \in steady \cap Replayable : Landed(w)
    <3>1. CASE job.status.phase = "WaitingReady"
      BY <3>1 DEF LandedInv, Sound
    <3>2. CASE job.status.phase = "Rehydrating" /\ Rehydrated(job)
      <4>1. steady \subseteq Gating(job.status.listed, job.status.rows) \ Stateless
        BY <2>2 DEF LandedInv, Sound, PassSound, Gating, Stateful
      <4> QED BY <3>2, <4>1 DEF Rehydrated, LandedInv, PassSound
    <3>3. job.status.phase # "Pending"
      BY <2>5 DEF NextPhase
    <3> QED BY <2>2, <2>5, <3>1, <3>2, <3>3 DEF NextPhase, LandedInv, PassSound
  <2>6. \A w \in steady : ~Skipped(Advance(job).rows[w])
    BY <2>4 DEF LandedInv, Sound
  <2> QED BY <2>2, <2>3, <2>4, <2>5, <2>6, LeaveLanded
<1>o. Sound(NoJob)
  BY NewIsTyped DEF Sound, NoJob, NewStatus, ZeroRow, Skipped, LandedInv, TypeOK
<1>19. CASE WriteStatus
  <2>1. act' = [act EXCEPT !.status = job.status] /\ cache' = cache /\ job' = NoJob
        /\ UNCHANGED <<replays, steady>> /\ pc' = "idle"
    BY <1>19 DEF WriteStatus, Put, hist
  <2>2. act'.status = job.status /\ act'.marks = act.marks
    BY <2>1 DEF TypeOK, Object
  <2>3. Sound(act)' /\ Sound(cache)' /\ Sound(job)'
    BY <1>o, <2>1, <2>2 DEF LandedInv, Sound, Landed
  <2>4. PassSound'
    BY <2>1 DEF LandedInv, PassSound, NoJob
  <2> QED BY <2>3, <2>4 DEF LandedInv
<1>20. CASE Deliver
  BY <1>20 DEF Deliver, DeliverNewest, hist, LandedInv, Sound, PassSound, Landed, Next1
<1>21. CASE Conflict \/ Abort
  <2>1. job' = NoJob /\ UNCHANGED <<act, cache, replays, steady>> /\ pc' = "idle"
    BY <1>21 DEF Conflict, Abort, Drop, store
  <2>2. PassSound'
    BY <2>1 DEF LandedInv, PassSound, NoJob
  <2> QED BY <1>o, <2>1, <2>2 DEF LandedInv, Sound, Landed
<1>22. CASE Resync
  BY <1>22 DEF Resync, hist, store, LandedInv, Sound, PassSound, Landed, Next1
<1>23. CASE UNCHANGED vars
  BY <1>23 DEF vars, LandedInv, Sound, PassSound, Landed, Next1
<1> QED
  BY <1>1, <1>2, <1>3, <1>4, <1>5, <1>6, <1>7, <1>8, <1>9, <1>10, <1>11, <1>12, <1>13,
     <1>14, <1>15, <1>16, <1>17, <1>18, <1>19, <1>20, <1>21, <1>22, <1>23
  DEF Next, Pass, Loop

\* DumpLands: Spec keeps DumpLanded ("Logical dump must land", runRestore and
\* Advance), for any inventory, any classes and any number of replays.
THEOREM DumpLands == Spec => []DumpLanded
<1>1. LandedInv => DumpLanded
  BY DEF LandedInv, Sound, Landed, DumpLanded
<1>2. TypeOK /\ [Next \/ Resync]_vars => TypeOK'
  BY TypeStep
<1> QED BY <1>1, <1>2, TypeInit, LandedInit, LandedStep, PTL DEF Spec

-----------------------------------------------------------------------------
(* What a visit records *)

\* What one iteration of the loop of runRestore makes of the locals: the row of
\* w is new, a row that is Ready and probed is seen, and a useful artifact that
\* has a message takes "skipped" off its row.
Saw(k, w) ==
    /\ k.status.phase = job.status.phase /\ k.status.listed = job.status.listed
    /\ k.ran = job.ran /\ k.useful = job.useful /\ k.inv = job.inv
    /\ k.todo = job.todo \ {w} /\ job.seen \subseteq k.seen
    /\ \A v \in Workloads \ {w} : k.status.rows[v] = job.status.rows[v]
    /\ k.status.rows[w].ready /\ k.status.rows[w].probeOK => w \in k.seen
    /\ w \in job.useful \ (Stateless \cup Quiet) => ~Skipped(k.status.rows[w])

\* A visit does that, with any message that is not "skipped" for a useful
\* artifact (applyFacts).
LEMMA VisitSaw ==
  ASSUME TypeOK, NEW w \in Workloads, NEW r \in BOOLEAN, NEW p \in BOOLEAN,
         NEW m \in Message, NEW reh \in BOOLEAN,
         w \in job.useful \ (Stateless \cup Quiet) => m = "text"
  PROVE  Saw(Visit(job, w, r, p, m, reh), w) /\ Visit(job, w, r, p, m, reh).marks = job.marks
<1> DEFINE k == Visit(job, w, r, p, m, reh)
<1>1. k.status.rows = [job.status.rows EXCEPT ![w] = Fact(@, r, p, m)]
  BY DEF Visit, TypeOK, Job, Status
<1>2. /\ k.status.phase = job.status.phase /\ k.status.listed = job.status.listed
      /\ k.ran = job.ran /\ k.useful = job.useful /\ k.inv = job.inv /\ k.marks = job.marks
      /\ k.todo = job.todo \ {w}
      /\ k.seen = (IF r /\ p THEN job.seen \cup {w} ELSE job.seen)
  BY DEF Visit, TypeOK, Job, Status
<1>3. k.status.rows[w] = Fact(job.status.rows[w], r, p, m)
      /\ \A v \in Workloads \ {w} : k.status.rows[v] = job.status.rows[v]
  BY <1>1 DEF TypeOK, Job, Status
<1> HIDE DEF k
<1>4. k.status.rows[w].ready /\ k.status.rows[w].probeOK => r /\ p
  BY <1>3 DEF Fact
<1>5. m = "text" => ~Skipped(k.status.rows[w])
  BY <1>3 DEF Fact, Skipped
<1>6. Saw(k, w) /\ k.marks = job.marks
  BY <1>2, <1>3, <1>4, <1>5 DEF Saw
<1> QED BY <1>6 DEF k

\* The iterations of the loop; DumpApply is the first half of one.
Visits == VisitStateless \/ VisitSkip \/ VisitGraph \/ VisitPlugin \/ VisitVolume
          \/ DumpWaits \/ DumpFails \/ Remember

\* Every iteration records its workload, and none but Remember adds a mark.
LEMMA VisitsSaw ==
  ASSUME TypeOK, Visits
  PROVE  /\ Next1 \in Workloads /\ Next1 \in job.todo /\ Saw(job', Next1) /\ pc' = "work"
         /\ job'.marks = job.marks \/ (pc = "remember" /\ job'.marks = job.marks \cup {Next1})
<1> DEFINE W == Next1
<1>w. W \in job.todo /\ W \in Workloads
  BY DEF Visits, VisitStateless, VisitSkip, VisitGraph, VisitPlugin, VisitVolume, DumpWaits,
         DumpFails, Remember, Next1, TypeOK, Job
<1>m. /\ ArtifactMessage(W) \in Message /\ {"text", "skipped"} \subseteq Message
      /\ W \notin Quiet => ArtifactMessage(W) = "text"
  BY DEF ArtifactMessage, Message
<1> HIDE DEF W
<1>v. ASSUME NEW r \in BOOLEAN, NEW p \in BOOLEAN, NEW reh \in BOOLEAN, NEW m \in Message,
             m = "text" \/ m = ArtifactMessage(W) \/ W \notin job.useful
      PROVE  Saw(Visit(job, W, r, p, m, reh), W) /\ Visit(job, W, r, p, m, reh).marks = job.marks
             /\ Visit(job, W, r, p, m, reh) \in Job
  <2>1. W \in job.useful \ (Stateless \cup Quiet) => m = "text"
    BY <1>m, <1>v
  <2>2. Visit(job, W, r, p, m, reh) \in Job
    BY <1>w, VisitTyped DEF TypeOK
  <2> QED BY <1>w, <2>1, <2>2, VisitSaw
<1>1. CASE VisitStateless
  <2>1. PICK r \in BOOLEAN : job' = Visit(job, W, r, TRUE, "text", TRUE)
    BY <1>1 DEF VisitStateless, Answers, W
  <2>2. Saw(job', W) /\ job'.marks = job.marks
    BY <1>m, <1>v, <2>1
  <2> QED BY <1>1, <1>w, <2>2 DEF VisitStateless, W
<1>2. CASE VisitSkip
  <2>1. job' = Visit(job, W, FALSE, FALSE, "skipped", TRUE) /\ W \notin job.useful
    BY <1>2 DEF VisitSkip, W
  <2>2. Saw(job', W) /\ job'.marks = job.marks
    BY <1>m, <1>v, <2>1
  <2> QED BY <1>2, <1>w, <2>2 DEF VisitSkip, W
<1>3. CASE VisitGraph
  <2>1. CASE \E ok \in Answers :
            job' = [Visit(job, W, ok, ok, ArtifactMessage(W), TRUE) EXCEPT !.status.rows[W].probeOK = ok]
    <3>1. PICK ok \in BOOLEAN :
            job' = [Visit(job, W, ok, ok, ArtifactMessage(W), TRUE) EXCEPT !.status.rows[W].probeOK = ok]
      BY <2>1 DEF Answers
    <3> DEFINE k == Visit(job, W, ok, ok, ArtifactMessage(W), TRUE)
    <3>2. k \in Job /\ Saw(k, W) /\ k.marks = job.marks
      BY <1>m, <1>v
    <3>b. ok => W \in k.seen
      BY DEF Visit, TypeOK, Job, Status
    <3> HIDE DEF k
    <3>4. job' = [k EXCEPT !.status.rows[W].probeOK = ok]
      BY <3>1 DEF k
    <3>5. job'.status.rows = [k.status.rows EXCEPT ![W].probeOK = ok]
      BY <3>2, <3>4 DEF Job, Status
    <3>6. /\ \A v \in Workloads \ {W} : job'.status.rows[v] = k.status.rows[v]
          /\ job'.status.rows[W].probeOK = ok
          /\ job'.status.rows[W].msg = k.status.rows[W].msg
      BY <1>w, <3>2, <3>5 DEF Job, Status, Row
    <3>7. /\ job'.status.phase = k.status.phase /\ job'.status.listed = k.status.listed
          /\ job'.ran = k.ran /\ job'.useful = k.useful /\ job'.inv = k.inv
          /\ job'.marks = k.marks /\ job'.todo = k.todo /\ job'.seen = k.seen
      BY <3>2, <3>4 DEF Job, Status
    <3>8. Saw(job', W) /\ job'.marks = job.marks
      BY <3>2, <3>b, <3>6, <3>7 DEF Saw, Skipped
    <3> QED BY <1>3, <1>w, <3>8 DEF VisitGraph, W
  <2>2. CASE job' = Visit(job, W, FALSE, FALSE, "text", FALSE)
    <3>1. Saw(job', W) /\ job'.marks = job.marks
      BY <1>m, <1>v, <2>2
    <3> QED BY <1>3, <1>w, <3>1 DEF VisitGraph, W
  <2> QED BY <1>3, <2>1, <2>2 DEF VisitGraph, W
<1>4. CASE VisitPlugin \/ VisitVolume \/ DumpWaits \/ DumpFails
  <2>1. PICK r \in BOOLEAN, p \in BOOLEAN, reh \in BOOLEAN, m \in {"text", ArtifactMessage(W)} :
          job' = Visit(job, W, r, p, m, reh)
    BY <1>4 DEF VisitPlugin, VisitVolume, DumpWaits, DumpFails, Answers, W
  <2>2. Saw(job', W) /\ job'.marks = job.marks
    BY <1>m, <1>v, <2>1
  <2> QED BY <1>4, <1>w, <2>2 DEF VisitPlugin, VisitVolume, DumpWaits, DumpFails, W
<1>5. CASE Remember
  <2>1. PICK r \in BOOLEAN, p \in BOOLEAN, reh \in BOOLEAN :
          job' = [Visit(job, W, r, p, ArtifactMessage(W), reh) EXCEPT !.marks = @ \cup {W}]
    BY <1>5 DEF Remember, Answers, W
  <2> DEFINE k == Visit(job, W, r, p, ArtifactMessage(W), reh)
  <2>2. k \in Job /\ Saw(k, W) /\ k.marks = job.marks
    BY <1>m, <1>v
  <2> HIDE DEF k
  <2>3. job' = [k EXCEPT !.marks = @ \cup {W}]
    BY <2>1 DEF k
  <2>4. /\ job'.status = k.status /\ job'.ran = k.ran /\ job'.useful = k.useful /\ job'.inv = k.inv
        /\ job'.todo = k.todo /\ job'.seen = k.seen /\ job'.marks = job.marks \cup {W}
    BY <2>2, <2>3 DEF Job
  <2>5. Saw(job', W)
    BY <2>2, <2>4 DEF Saw
  <2> QED BY <1>5, <1>w, <2>4, <2>5 DEF Remember, W
<1> QED BY <1>1, <1>2, <1>3, <1>4, <1>5 DEF Visits

-----------------------------------------------------------------------------
(* FreshEvidence and UsefulCounts *)

\* What the rows of a pass in the loop rest on, and those of a pass that is
\* about to write Succeeded.
Evidence ==
    /\ pc = "apply" => job.useful \subseteq job.todo
    /\ pc \in {"work", "remember"} =>
         /\ \A w \in Workloads : job.status.rows[w].ready /\ job.status.rows[w].probeOK => w \in job.seen
         /\ \A w \in job.useful \ (job.todo \cup Stateless \cup Quiet) : ~Skipped(job.status.rows[w])
    /\ pc = "write" /\ job.status.phase = "Succeeded" /\ ~DryRun =>
         /\ CanSucceed(job.status.listed, job.status.rows, Stateless)
         /\ Gating(job.status.listed, job.status.rows) \ Stateless \subseteq job.seen

\* Seeding clears Ready in every row (seedWorkloads, applyFacts).
LEMMA SeedEvidence ==
  ASSUME NEW j \in Job, job' = Seed(j), pc' = "work", j.useful \subseteq j.todo
  PROVE  Evidence'
<1>1. Seed(j).status.rows = SeedRows(j.status, j.inv) /\ Seed(j).useful = j.useful /\ Seed(j).todo = j.todo
  BY DEF Seed, Job, Status
<1>2. ASSUME NEW w \in Workloads PROVE ~SeedRows(j.status, j.inv)[w].ready
  <2>1. j.status.rows[w] \in Row
    BY DEF Job, Status
  <2> QED BY <2>1 DEF SeedRows, Row, ZeroRow
<1> QED BY <1>1, <1>2 DEF Evidence

\* A pass that writes a status other than Succeeded needs no evidence.
LEMMA LeaveEvidence ==
  ASSUME TypeOK, NEW s \in Status, Leave(s), s.phase # "Succeeded"
  PROVE  Evidence'
  BY LeaveKeeps DEF Evidence

\* Every step keeps Evidence: a row becomes Ready and probed only by a visit of
\* this pass, and Advance asks CanSucceed of these rows.
LEMMA EvidenceStep == TypeOK /\ LandedInv /\ Evidence /\ [Next \/ Resync]_vars => Evidence'
<1> SUFFICES ASSUME TypeOK, LandedInv, Evidence, [Next \/ Resync]_vars PROVE Evidence'
  OBVIOUS
<1>1. CASE UNCHANGED <<pc, job>>
  BY <1>1 DEF Evidence
<1>2. CASE Begin \/ PolicyRead \/ WriteStatus \/ Conflict \/ Abort
  <2>1. pc' \in {"idle", "policy", "inventory"}
    BY <1>2 DEF Begin, PolicyRead, WriteStatus, Conflict, Abort, Drop
  <2> QED BY <2>1 DEF Evidence
<1>3. CASE PolicyMissing \/ PairMissing
  <2>1. PICK cause \in Cause : FailJob(cause)
    BY <1>3 DEF PolicyMissing, PairMissing, Cause
  <2> DEFINE s == [job.status EXCEPT !.phase = "Failed", !.cause = cause]
  <2>2. s \in Status /\ s.phase = "Failed" /\ Leave(s)
    BY <2>1 DEF FailJob, TypeOK, Job, Status, Phase
  <2> QED BY <2>2, LeaveEvidence
<1>4. CASE Walk
  <2>1. PICK found \in SUBSET Workloads :
          LET j == [job EXCEPT !.inv = found, !.todo = found, !.useful = @ \cap found]
          IN  /\ IF job.status.phase = "Rehydrating"
                 THEN pc' = "apply" /\ job' = j
                 ELSE pc' = "work" /\ job' = Seed(j)
              /\ steady' = steady \cap found
    BY <1>4 DEF Walk, TypeOK, World
  <2> DEFINE j == [job EXCEPT !.inv = found, !.todo = found, !.useful = @ \cap found]
  <2>2. j \in Job /\ j.useful \subseteq j.todo
    BY DEF TypeOK, Job
  <2>3. (pc' = "apply" /\ job' = j) \/ (pc' = "work" /\ job' = Seed(j))
    BY <2>1
  <2> HIDE DEF j
  <2>4. CASE pc' = "apply" /\ job' = j
    BY <2>2, <2>4 DEF Evidence
  <2>5. CASE pc' = "work" /\ job' = Seed(j)
    BY <2>2, <2>5, SeedEvidence
  <2> QED BY <2>3, <2>4, <2>5
<1>5. CASE Apply
  <2>1. job \in Job /\ job.useful \subseteq job.todo /\ job' = Seed(job) /\ pc' = "work"
    BY <1>5 DEF Apply, Evidence, TypeOK
  <2> QED BY <2>1, SeedEvidence
<1>6. CASE ApplyFails
  <2> DEFINE s == [NewStatus EXCEPT !.phase = "Failed", !.cause = "permanent"]
  <2>1. s \in Status /\ s.phase = "Failed"
    BY NewIsTyped DEF Status, Phase, Cause
  <2>2. job.status \in Status /\ job.status.phase # "Succeeded"
    BY <1>6 DEF ApplyFails, TypeOK, Job, LandedInv, PassSound
  <2>3. Leave(job.status) \/ Leave(s)
    BY <1>6 DEF ApplyFails
  <2> HIDE DEF s
  <2> QED BY <2>1, <2>2, <2>3, LeaveEvidence
<1>7. CASE Visits
  <2>1. pc \in {"work", "remember"}
    BY <1>7 DEF Visits, VisitStateless, VisitSkip, VisitGraph, VisitPlugin, VisitVolume,
               DumpWaits, DumpFails, Remember
  <2>2. Next1 \in Workloads /\ Saw(job', Next1) /\ pc' = "work"
    BY <1>7, VisitsSaw
  <2>3. ASSUME NEW w \in Workloads, job'.status.rows[w].ready, job'.status.rows[w].probeOK
        PROVE  w \in job'.seen
    BY <2>1, <2>2, <2>3 DEF Saw, Evidence
  <2>4. ASSUME NEW w \in job'.useful \ (job'.todo \cup Stateless \cup Quiet)
        PROVE  ~Skipped(job'.status.rows[w])
    <3>1. w \in Workloads /\ w \in job.useful
      BY <2>2 DEF Saw, TypeOK, Job
    <3>2. CASE w = Next1
      BY <2>2, <3>1, <3>2 DEF Saw
    <3>3. CASE w # Next1
      BY <2>1, <2>2, <3>1, <3>3 DEF Saw, Evidence
    <3> QED BY <3>2, <3>3
  <2> QED BY <2>2, <2>3, <2>4 DEF Evidence
<1>8. CASE DumpApply
  <2>1. /\ pc = "work" /\ pc' = "remember" /\ job'.status = job.status /\ job'.useful = job.useful
        /\ job'.todo = job.todo /\ job'.seen = job.seen
    BY <1>8 DEF DumpApply, TypeOK, Job
  <2> QED BY <2>1 DEF Evidence
<1>9. CASE Finish
  <2>1. pc = "work" /\ Leave(Advance(job)) /\ Advance(job) \in Status
    BY <1>9, AdvanceTyped DEF Finish, TypeOK
  <2>2. /\ Advance(job).phase = NextPhase(job) /\ Advance(job).rows = job.status.rows
        /\ Advance(job).listed = job.status.listed
    BY DEF Advance, TypeOK, Job, Status
  <2>3. pc' = "write" /\ job'.status = Advance(job) /\ job'.seen = job.seen
    <3>1. pc' = "write" /\ job'.status = Advance(job)
      BY <2>1, LeaveKeeps
    <3>2. job' = [NoJob EXCEPT !.status = Advance(job), !.seen = job.seen, !.ran = job.ran]
      BY <2>1 DEF Leave
    <3>3. job'.seen = job.seen
      BY <3>2, NewIsTyped DEF Job
    <3> QED BY <3>1, <3>3
  <2>4. ASSUME NextPhase(job) = "Succeeded", ~DryRun
        PROVE  CanSucceed(job.status.listed, job.status.rows, Stateless)
    BY <2>4 DEF NextPhase, MaySucceed
  <2>5. ASSUME CanSucceed(job.status.listed, job.status.rows, Stateless)
        PROVE  Gating(job.status.listed, job.status.rows) \ Stateless \subseteq job.seen
    <3>1. job.status.listed \subseteq Workloads
      BY DEF TypeOK, Job, Status
    <3>2. \A w \in Workloads : job.status.rows[w].ready /\ job.status.rows[w].probeOK => w \in job.seen
      BY <2>1 DEF Evidence
    <3> QED BY <2>5, <3>1, <3>2 DEF CanSucceed, AllReady, AllProbed, Gating
  <2> QED BY <2>2, <2>3, <2>4, <2>5 DEF Evidence
<1> QED
  BY <1>1, <1>2, <1>3, <1>4, <1>5, <1>6, <1>7, <1>8, <1>9
  DEF Next, Pass, Loop, Visits, Ignore, Deliver, Resync, vars

\* The first state has no pass in flight.
LEMMA EvidenceInit == Init => Evidence
  BY DEF Init, Evidence

\* Fresh: a Restore becomes Succeeded only on rows that the pass which writes it
\* read Ready and probed itself, for any inventory and however often earlier
\* passes were cut short (seedWorkloads, applyFacts, attest).
THEOREM Fresh == Spec => FreshEvidence
<1>1. ASSUME TypeOK, Evidence, Next \/ Resync,
             act'.status.phase = "Succeeded", act.status.phase # "Succeeded", ~DryRun
      PROVE  /\ CanSucceed(act'.status.listed, act'.status.rows, Stateless)
             /\ \A w \in Workloads : Counted(w)' => w \in job.seen
  <2>1. CASE WriteStatus
    <3>1. pc = "write" /\ act'.status = job.status
      BY <2>1 DEF WriteStatus, Put, TypeOK, Object
    <3> QED BY <1>1, <3>1 DEF Evidence, Counted
  <2>2. CASE PolicyRead
    <3>1. act' = act \/ act' = [act EXCEPT !.status = [job.status EXCEPT !.phase = "Pending"]]
      BY <2>2 DEF PolicyRead, Put, store
    <3>2. act'.status.phase \in {act.status.phase, "Pending"}
      BY <1>1, <3>1 DEF TypeOK, Object, Job, Status
    <3> QED BY <1>1, <3>2
  <2>3. CASE Remember
    <3>0. act' = act \/ act' = [act EXCEPT !.marks = @ \cup {Next1}]
      BY <2>3 DEF Remember, Put, store
    <3>1. act'.status = act.status
      BY <1>1, <3>0 DEF TypeOK, Object
    <3> QED BY <1>1, <3>1
  <2>4. CASE act' = act
    BY <1>1, <2>4
  <2> QED
    BY <1>1, <2>1, <2>2, <2>3, <2>4
    DEF Next, Pass, Loop, Ignore, Begin, PolicyMissing, PairMissing, Walk, Apply, ApplyFails,
        VisitStateless, VisitSkip, VisitGraph, VisitPlugin, VisitVolume, DumpWaits, DumpFails,
        DumpApply, Finish, Deliver, DeliverNewest, Conflict, Abort, Resync, store
<1>2. TypeOK /\ Evidence /\ [Next \/ Resync]_vars =>
        [act'.status.phase = "Succeeded" /\ act.status.phase # "Succeeded" /\ ~DryRun =>
           /\ CanSucceed(act'.status.listed, act'.status.rows, Stateless)
           /\ \A w \in Workloads : Counted(w)' => w \in job.seen]_vars
  BY <1>1
<1>3. TypeOK /\ [Next \/ Resync]_vars => TypeOK'
  BY TypeStep
<1> QED
  BY <1>2, <1>3, TypeInit, LandedInit, LandedStep, EvidenceInit, EvidenceStep, PTL
  DEF Spec, FreshEvidence

\* UsefulGates: a pass that turns an Action Succeeded counts every workload it
\* found useful, unless its artifact has no message: what an earlier pass
\* skipped is judged again (runRestore, applyFacts).
THEOREM UsefulGates == Spec => UsefulCounts
<1>1. ASSUME TypeOK, LandedInv, Evidence, Next \/ Resync, pc = "work", job'.status.phase = "Succeeded",
             NEW w \in job.useful \ (Stateless \cup Quiet)
      PROVE  ~Skipped(job'.status.rows[w])
  <2>0. job.status.phase # "Succeeded"
    BY <1>1 DEF LandedInv, PassSound
  <2>1. CASE Finish
    <3>1. Leave(Advance(job)) /\ Advance(job) \in Status /\ job.todo = {}
      BY <1>1, <2>1, AdvanceTyped DEF Finish, TypeOK
    <3>a. Advance(job).rows = job.status.rows
      BY <1>1 DEF Advance, TypeOK, Job, Status
    <3>2. job'.status.rows = job.status.rows
      BY <1>1, <3>1, <3>a, LeaveKeeps
    <3> QED BY <1>1, <3>1, <3>2 DEF Evidence
  <2>2. CASE Visits
    BY <1>1, <2>0, <2>2, VisitsSaw DEF Saw
  <2>3. CASE DumpApply
    BY <1>1, <2>0, <2>3 DEF DumpApply, TypeOK, Job
  <2>4. CASE Abort
    BY <1>1, <2>4 DEF Abort, Drop, NoJob, NewStatus
  <2>5. CASE Deliver
    BY <1>1, <2>0, <2>5 DEF Deliver
  <2> QED
    BY <1>1, <2>1, <2>2, <2>3, <2>4, <2>5
    DEF Next, Pass, Loop, Visits, Ignore, Begin, PolicyMissing, PolicyRead, PairMissing, Walk, Apply,
        ApplyFails, WriteStatus, Conflict, Resync
<1>2. TypeOK /\ LandedInv /\ Evidence /\ [Next \/ Resync]_vars =>
        [pc = "work" /\ job'.status.phase = "Succeeded" =>
           \A w \in job.useful \ (Stateless \cup Quiet) : ~Skipped(job'.status.rows[w])]_vars
  BY <1>1
<1>3. TypeOK /\ [Next \/ Resync]_vars => TypeOK'
  BY TypeStep
<1> QED
  BY <1>2, <1>3, TypeInit, LandedInit, LandedStep, EvidenceInit, EvidenceStep, PTL
  DEF Spec, UsefulCounts

-----------------------------------------------------------------------------
(* ReplayedAgainOnlyIfCut *)

\* A replay of the pass in flight is in its marks and in the stored ones, or is
\* about to be remembered.
Recorded(w) ==
    \/ w \in act.marks /\ (pc = "write" \/ w \in job.marks)
    \/ pc = "remember" /\ w = Next1

\* A replay of an earlier pass is in the copy every later pass starts from.
Known(w) == w \in cache.marks /\ (pc \notin {"idle", "write"} => w \in job.marks)

OnceInv ==
    /\ cache.marks \subseteq act.marks
    /\ synced => cache.marks = act.marks
    /\ pc = "idle" => job.ran = {}
    /\ \A w \in job.ran : Recorded(w)
    /\ \A w \in Workloads : replays[w] > 0 /\ w \notin cut => w \in job.ran \/ Known(w)
    /\ \A w \in Workloads : replays[w] > 1 => w \in cut

\* A replay counts for its workload only.
LEMMA BumpOne ==
  ASSUME TypeOK, NEW v \in Workloads
  PROVE  /\ \A w \in Workloads \ {v} : Bump(v)[w] = replays[w]
         /\ Bump(v)[v] > 1 => replays[v] > 0
  BY DEF Bump, TypeOK

\* A step within a pass that replays nothing and records nothing.
LEMMA OnceKeeps ==
  ASSUME OnceInv, UNCHANGED <<cache, replays, cut>>, act'.marks = act.marks,
         synced' => synced, job'.ran = job.ran,
         pc \notin {"idle", "remember", "write"}, pc' \notin {"idle", "remember"},
         pc' = "write" \/ job'.marks = job.marks
  PROVE  OnceInv'
<1>1. ASSUME NEW w \in job'.ran PROVE Recorded(w)'
  BY <1>1 DEF OnceInv, Recorded
<1>2. ASSUME NEW w \in Workloads, replays'[w] > 0, w \notin cut' PROVE w \in job'.ran \/ Known(w)'
  BY <1>2 DEF OnceInv, Known
<1> QED BY <1>1, <1>2 DEF OnceInv

\* A pass that leaves the loop replays nothing any more.
LEMMA OnceLeave ==
  ASSUME TypeOK, OnceInv, NEW s \in Status, Leave(s), UNCHANGED <<store, replays, cut>>,
         pc \in {"policy", "inventory", "apply", "work"}
  PROVE  OnceInv'
<1>1. pc' = "write" /\ job'.ran = job.ran
  BY LeaveKeeps
<1> QED BY <1>1, OnceKeeps DEF store

\* Every step keeps OnceInv.  The status of a pass is written over a current
\* copy, so the next pass starts with the marks of this one; a pass that does
\* not get there puts its replays in cut.
LEMMA OnceStep == TypeOK /\ OnceInv /\ [Next \/ Resync]_vars => OnceInv'
<1> SUFFICES ASSUME TypeOK, OnceInv, [Next \/ Resync]_vars PROVE OnceInv'
  OBVIOUS
<1>1. CASE UNCHANGED <<store, pc, job, replays, cut>>
  BY <1>1 DEF OnceInv, Recorded, Known, Next1, store
<1>2. CASE Begin
  <2>1. /\ job'.marks = cache.marks /\ job'.ran = {} /\ pc = "idle" /\ pc' = "policy"
        /\ UNCHANGED <<store, replays, cut>>
    BY <1>2 DEF Begin, NoJob, hist
  <2>2. ASSUME NEW w \in Workloads, replays'[w] > 0, w \notin cut' PROVE Known(w)'
    BY <2>1, <2>2 DEF OnceInv, Known, store
  <2> QED BY <2>1, <2>2 DEF OnceInv, store
<1>3. CASE PolicyMissing \/ PairMissing
  <2>1. PICK cause \in Cause : FailJob(cause)
    BY <1>3 DEF PolicyMissing, PairMissing, Cause
  <2> DEFINE s == [job.status EXCEPT !.phase = "Failed", !.cause = cause]
  <2>2. s \in Status /\ Leave(s)
    BY <2>1 DEF FailJob, TypeOK, Job, Status, Phase
  <2>3. pc \in {"policy", "inventory"} /\ UNCHANGED <<store, replays, cut>>
    BY <1>3 DEF PolicyMissing, PairMissing, hist
  <2> HIDE DEF s
  <2> QED BY <2>2, <2>3, OnceLeave
<1>4. CASE PolicyRead
  <2>1. PICK u : job' = [job EXCEPT !.useful = u, !.status.phase = IF @ = "" THEN "Pending" ELSE @]
    BY <1>4 DEF PolicyRead
  <2>2. job'.ran = job.ran /\ job'.marks = job.marks
    BY <2>1 DEF TypeOK, Job
  <2>3. act' = act \/ act' = [act EXCEPT !.status = [job.status EXCEPT !.phase = "Pending"]]
    BY <1>4 DEF PolicyRead, Put, store
  <2>4. act'.marks = act.marks
    BY <2>3 DEF TypeOK, Object
  <2>5. /\ UNCHANGED <<cache, replays, cut>> /\ (synced' => synced)
        /\ pc = "policy" /\ pc' = "inventory"
    BY <1>4 DEF PolicyRead, Put, store
  <2> QED BY <2>2, <2>4, <2>5, OnceKeeps
<1>5. CASE Walk \/ Apply
  <2>1. \E j \in Job : j.ran = job.ran /\ j.marks = job.marks /\ job' \in {j, Seed(j)}
    <3>1. CASE Walk
      <4>1. PICK found \in SUBSET Workloads :
              LET j == [job EXCEPT !.inv = found, !.todo = found, !.useful = @ \cap found]
              IN  job' \in {j, Seed(j)}
        BY <3>1 DEF Walk, TypeOK, World
      <4> DEFINE j == [job EXCEPT !.inv = found, !.todo = found, !.useful = @ \cap found]
      <4>2. j \in Job /\ j.ran = job.ran /\ j.marks = job.marks
        BY DEF TypeOK, Job
      <4>3. job' \in {j, Seed(j)}
        BY <4>1
      <4> QED BY <4>2, <4>3
    <3>2. CASE Apply
      BY <3>2 DEF Apply, TypeOK
    <3> QED BY <1>5, <3>1, <3>2
  <2>2. job'.ran = job.ran /\ job'.marks = job.marks
    BY <2>1, SeedKeeps
  <2>3. /\ UNCHANGED <<store, replays, cut>> /\ pc \in {"inventory", "apply"}
        /\ pc' \in {"apply", "work"}
    BY <1>5 DEF Walk, Apply, hist
  <2> QED BY <2>2, <2>3, OnceKeeps DEF store
<1>6. CASE ApplyFails
  <2> DEFINE s == [NewStatus EXCEPT !.phase = "Failed", !.cause = "permanent"]
  <2>1. s \in Status /\ job.status \in Status
    BY NewIsTyped DEF Status, Phase, Cause, TypeOK, Job
  <2>2. /\ Leave(job.status) \/ Leave(s)
        /\ pc = "apply" /\ UNCHANGED <<store, replays, cut>>
    BY <1>6 DEF ApplyFails, hist
  <2> HIDE DEF s
  <2> QED BY <2>1, <2>2, OnceLeave
<1>7. CASE VisitStateless \/ VisitSkip \/ VisitGraph \/ VisitPlugin \/ VisitVolume \/ DumpWaits
  <2>1. pc = "work" /\ UNCHANGED <<store, replays, cut>>
    BY <1>7 DEF VisitStateless, VisitSkip, VisitGraph, VisitPlugin, VisitVolume, DumpWaits, hist
  <2>2. pc' = "work" /\ job'.ran = job.ran /\ job'.marks = job.marks
    BY <1>7, <2>1, VisitsSaw DEF Visits, Saw
  <2> QED BY <2>1, <2>2, OnceKeeps DEF store
<1>8. CASE DumpFails
  <2>1. pc = "work" /\ UNCHANGED store /\ Next1 \in Workloads
    BY <1>8, VisitsSaw DEF DumpFails, Visits
  <2>2. pc' = "work" /\ job'.ran = job.ran /\ job'.marks = job.marks
    BY <1>8, <2>1, VisitsSaw DEF Visits, Saw
  <2>3. CASE UNCHANGED <<replays, cut>>
    BY <2>1, <2>2, <2>3, OnceKeeps DEF store
  <2>4. CASE replays' = Bump(Next1) /\ cut' = cut \cup {Next1}
    <3>1. ASSUME NEW w \in Workloads, w \notin cut' PROVE replays'[w] = replays[w] /\ w \notin cut
      BY <2>1, <2>4, <3>1, BumpOne
    <3>2. \A w \in job'.ran : Recorded(w)'
      BY <2>1, <2>2 DEF OnceInv, Recorded, store
    <3>3. ASSUME NEW w \in Workloads, replays'[w] > 0, w \notin cut' PROVE w \in job'.ran \/ Known(w)'
      BY <2>1, <2>2, <3>1, <3>3 DEF OnceInv, Known, store
    <3> QED BY <2>1, <2>2, <3>1, <3>2, <3>3 DEF OnceInv, store
  <2>5. CASE Refused(Next1) /\ replays' = Bump(Next1) /\ UNCHANGED cut
    <3> DEFINE W == Next1
    <3>1. W \notin job.marks /\ W \in Workloads /\ replays[W] > 0
      BY <1>8, <2>1, <2>5 DEF DumpFails, Owed, Refused
    <3> HIDE DEF W
    <3>2. W \notin job.ran
      BY <2>1, <3>1 DEF OnceInv, Recorded
    <3>3. W \in cut
      BY <2>1, <3>1, <3>2 DEF OnceInv, Known
    <3>4. Next1 \in cut
      BY <3>3 DEF W
    <3>5. cut' = cut \cup {Next1}
      BY <2>5, <3>4
    <3> QED BY <2>4, <2>5, <3>5
  <2>6. \/ UNCHANGED <<replays, cut>>
        \/ replays' = Bump(Next1) /\ cut' = cut \cup {Next1}
        \/ Refused(Next1) /\ replays' = Bump(Next1) /\ UNCHANGED cut
    BY <1>8 DEF DumpFails
  <2> QED BY <2>3, <2>4, <2>5, <2>6
<1>9. CASE DumpApply
  <2> DEFINE W == Next1
  <2>1. /\ W \in Workloads /\ W \notin job.marks /\ pc = "work" /\ pc' = "remember"
        /\ UNCHANGED <<store, cut>>
    BY <1>9 DEF DumpApply, Owed, hist, Next1, TypeOK, Job
  <2>2. job'.marks = job.marks /\ job'.todo = job.todo /\ job'.ran = job.ran \cup {W}
    BY <1>9 DEF DumpApply, TypeOK, Job
  <2>3. Next1' = W
    BY <2>2 DEF Next1
  <2>4. replays' = replays \/ replays' = Bump(W)
    BY <1>9 DEF DumpApply
  <2> HIDE DEF W
  <2>5. replays[W] > 0 => W \in cut
    <3>1. W \notin job.ran
      BY <2>1 DEF OnceInv, Recorded
    <3> QED BY <2>1, <3>1 DEF OnceInv, Known
  <2>6. /\ \A w \in Workloads \ {W} : replays'[w] = replays[w]
        /\ replays'[W] > 1 => replays[W] > 0 \/ replays[W] > 1
    BY <2>1, <2>4, BumpOne
  <2>7. ASSUME NEW w \in Workloads, replays'[w] > 1 PROVE w \in cut'
    BY <2>1, <2>5, <2>6, <2>7 DEF OnceInv
  <2>8. ASSUME NEW w \in job'.ran PROVE Recorded(w)'
    BY <2>1, <2>2, <2>3, <2>8 DEF OnceInv, Recorded, store
  <2>9. ASSUME NEW w \in Workloads, replays'[w] > 0, w \notin cut' PROVE w \in job'.ran \/ Known(w)'
    BY <2>1, <2>2, <2>6, <2>9 DEF OnceInv, Known, store
  <2> QED BY <2>1, <2>7, <2>8, <2>9 DEF OnceInv, store
<1>10. CASE Remember
  <2> DEFINE W == Next1
  <2>1. W \in Workloads /\ pc = "remember" /\ pc' = "work" /\ UNCHANGED <<cache, replays, cut>>
    BY <1>10, VisitsSaw DEF Visits, Remember, Put, store, hist
  <2>2. job'.ran = job.ran /\ job.marks \subseteq job'.marks /\ W \in job'.marks
    <3>1. job'.ran = job.ran /\ job.marks \subseteq job'.marks
      BY <1>10, VisitsSaw DEF Visits, Saw
    <3>2. PICK d \in BOOLEAN, r \in BOOLEAN, p \in BOOLEAN :
            job' = [Visit(job, W, r, p, ArtifactMessage(W), d) EXCEPT !.marks = @ \cup {W}]
      BY <1>10 DEF Remember, Answers
    <3>3. Visit(job, W, r, p, ArtifactMessage(W), d) \in Job
      BY <2>1, VisitTyped DEF TypeOK, ArtifactMessage, Message
    <3> HIDE DEF W
    <3>4. W \in job'.marks
      BY <3>2, <3>3 DEF Job
    <3> QED BY <3>1, <3>4
  <2>3. /\ act'.marks = act.marks \cup {W}
        /\ synced' => synced /\ act'.marks = act.marks
    <3>1. CASE W \in cache.marks
      BY <1>10, <3>1 DEF Remember, store, OnceInv
    <3>2. CASE W \notin cache.marks
      <4>1. Put([act EXCEPT !.marks = @ \cup {W}])
        BY <1>10, <3>2 DEF Remember
      <4>2. /\ synced /\ act' = [act EXCEPT !.marks = @ \cup {W}]
            /\ synced' => act' = act
        BY <4>1 DEF Put
      <4> QED BY <4>2 DEF TypeOK, Object
    <3> QED BY <3>1, <3>2
  <2> HIDE DEF W
  <2>4. ASSUME NEW w \in job'.ran PROVE Recorded(w)'
    BY <2>1, <2>2, <2>3, <2>4 DEF OnceInv, Recorded, W
  <2>5. ASSUME NEW w \in Workloads, replays'[w] > 0, w \notin cut' PROVE w \in job'.ran \/ Known(w)'
    BY <2>1, <2>2, <2>5 DEF OnceInv, Known
  <2> QED BY <2>1, <2>3, <2>4, <2>5 DEF OnceInv
<1>11. CASE Finish
  <2>1. /\ pc = "work" /\ Leave(Advance(job)) /\ Advance(job) \in Status
        /\ UNCHANGED <<store, replays, cut>>
    BY <1>11, AdvanceTyped DEF Finish, TypeOK, hist
  <2> QED BY <2>1, OnceLeave
<1>12. CASE WriteStatus
  <2>1. /\ synced /\ act' = [act EXCEPT !.status = job.status] /\ pc = "write" /\ pc' = "idle"
        /\ job' = NoJob /\ UNCHANGED <<cache, replays, cut>>
    BY <1>12 DEF WriteStatus, Put, hist
  <2>2. act'.marks = act.marks /\ job'.ran = {}
    BY <2>1 DEF TypeOK, Object, NoJob
  <2>3. ASSUME NEW w \in Workloads, replays'[w] > 0, w \notin cut' PROVE Known(w)'
    BY <2>1, <2>3 DEF OnceInv, Known, Recorded
  <2> QED BY <2>1, <2>2, <2>3 DEF OnceInv
<1>13. CASE Deliver
  <2>1. UNCHANGED <<act, pc, job, replays, cut>> /\ cache' = act
    BY <1>13 DEF Deliver, DeliverNewest, hist
  <2>2. ASSUME NEW w \in Workloads, replays'[w] > 0, w \notin cut' PROVE w \in job'.ran \/ Known(w)'
    BY <2>1, <2>2 DEF OnceInv, Known
  <2> QED BY <2>1, <2>2 DEF OnceInv, Recorded, Next1
<1>14. CASE Conflict \/ Abort
  <2>1. /\ pc' = "idle" /\ job' = NoJob /\ UNCHANGED <<store, replays>> /\ cut' = cut \cup job.ran
    BY <1>14 DEF Conflict, Abort, Drop
  <2>2. job'.ran = {}
    BY <2>1 DEF NoJob
  <2>3. ASSUME NEW w \in Workloads, replays'[w] > 0, w \notin cut' PROVE Known(w)'
    BY <2>1, <2>3 DEF OnceInv, Known, store
  <2> QED BY <2>1, <2>2, <2>3 DEF OnceInv, store
<1> QED
  BY <1>1, <1>2, <1>3, <1>4, <1>5, <1>6, <1>7, <1>8, <1>9, <1>10, <1>11, <1>12, <1>13, <1>14
  DEF Next, Pass, Loop, Ignore, Resync, vars, store, hist

\* A new Action has replayed nothing.
LEMMA OnceInit == Init => OnceInv
<1> SUFFICES ASSUME Init PROVE OnceInv
  OBVIOUS
<1>1. /\ act.marks = {} /\ cache.marks = {} /\ job.ran = {} /\ \A w \in Workloads : replays[w] = 0
  BY DEF Init, StoreInit, NoJob
<1> QED BY <1>1 DEF OnceInv

\* ReplaysOnce: Spec keeps ReplayedAgainOnlyIfCut, for any inventory and however
\* late the cache is: the annotation portage.io/dump-applied carries a replay to
\* every later pass (dumpApplied, rememberDumpApplied).
THEOREM ReplaysOnce == Spec => []ReplayedAgainOnlyIfCut
<1>1. OnceInv => ReplayedAgainOnlyIfCut
  BY DEF OnceInv, ReplayedAgainOnlyIfCut
<1>2. TypeOK /\ [Next \/ Resync]_vars => TypeOK'
  BY TypeStep
<1> QED BY <1>1, <1>2, TypeInit, OnceInit, OnceStep, PTL DEF Spec

-----------------------------------------------------------------------------
(* LiveDataKept *)

Past(o) == o.status.phase = "WaitingReady" \/ (o.status.phase = "Succeeded" /\ ~DryRun)

Kept == steady \cap Dumped

\* A status past Rehydrating was computed with every steady dump annotated.  It
\* is stored over a current copy, so the copy every later pass starts from has
\* these annotations too.
MarkedInv ==
    /\ job.marks \subseteq act.marks
    /\ pc \in {"work", "remember"} /\ job.status.phase = "Rehydrating" =>
         job.reh \cap Kept \subseteq job.marks
    /\ pc \notin {"work", "remember"} => job.reh = {}
    /\ Past(job) => Kept \subseteq act.marks
    /\ Past(act) \/ Past(cache) => Kept \subseteq cache.marks
    /\ Past(act) /\ pc \notin {"idle", "write"} => Kept \subseteq job.marks

\* An iteration counts a workload with a dump as rehydrated in WaitingReady, or
\* when the dump is annotated (the branches of runRestore).
LEMMA VisitsRehydrate ==
  ASSUME TypeOK, Visits
  PROVE  /\ job'.reh \subseteq job.reh \cup {Next1}
         /\ Next1 \in job'.reh \ job.reh =>
              \/ Next1 \notin Dumped \/ Next1 \notin job.useful
              \/ job.status.phase = "WaitingReady" \/ Next1 \in job'.marks
<1> DEFINE W == Next1
<1>s. W \in Workloads /\ (job'.marks = job.marks \/ job'.marks = job.marks \cup {W})
  BY VisitsSaw
<1>m. ArtifactMessage(W) \in Message /\ {"text", "skipped"} \subseteq Message
  BY DEF ArtifactMessage, Message
<1> HIDE DEF W
<1>v. ASSUME NEW r \in BOOLEAN, NEW p \in BOOLEAN, NEW reh \in BOOLEAN, NEW m \in Message
      PROVE  /\ Visit(job, W, r, p, m, reh) \in Job
             /\ Visit(job, W, r, p, m, reh).reh = IF reh THEN job.reh \cup {W} ELSE job.reh
  <2>1. Visit(job, W, r, p, m, reh) \in Job
    BY <1>s, VisitTyped DEF TypeOK
  <2> QED BY <2>1 DEF Visit, TypeOK, Job
<1>1. CASE VisitStateless \/ VisitSkip
  <2>1. PICK r \in BOOLEAN, p \in BOOLEAN, m \in Message : job' = Visit(job, W, r, p, m, TRUE)
    BY <1>1, <1>m DEF VisitStateless, VisitSkip, Answers, W
  <2>2. job'.reh = job.reh \cup {W}
    BY <2>1, <1>v
  <2>3. W \notin Dumped \/ W \notin job.useful
    BY <1>1, ClassesDisjoint DEF VisitStateless, VisitSkip, W
  <2> QED BY <2>2, <2>3 DEF W
<1>2. CASE VisitGraph
  <2>1. \E r \in BOOLEAN, reh \in BOOLEAN, m \in Message :
          \/ job' = Visit(job, W, r, r, m, reh)
          \/ job' = [Visit(job, W, r, r, m, reh) EXCEPT !.status.rows[W].probeOK = r]
    BY <1>2, <1>m DEF VisitGraph, Answers, W
  <2>2. job'.reh = job.reh \cup {W} \/ job'.reh = job.reh
    BY <2>1, <1>v DEF Job
  <2>3. W \notin Dumped
    BY <1>2, ClassesDisjoint DEF VisitGraph, W
  <2> QED BY <2>2, <2>3 DEF W
<1>3. CASE VisitPlugin
  <2>1. PICK r \in BOOLEAN, p \in BOOLEAN, reh \in BOOLEAN, m \in Message :
          job' = Visit(job, W, r, p, m, reh)
    BY <1>3, <1>m DEF VisitPlugin, Answers, W
  <2>2. job'.reh = job.reh \cup {W} \/ job'.reh = job.reh
    BY <2>1, <1>v
  <2>3. W \notin Dumped
    BY <1>3, ClassesDisjoint DEF VisitPlugin, W
  <2> QED BY <2>2, <2>3 DEF W
<1>4. CASE VisitVolume
  <2>1. PICK r \in BOOLEAN, p \in BOOLEAN, reh \in BOOLEAN, m \in Message :
          job' = Visit(job, W, r, p, m, reh)
    BY <1>4, <1>m DEF VisitVolume, Answers, W
  <2>2. job'.reh = job.reh \cup {W} \/ job'.reh = job.reh
    BY <2>1, <1>v
  <2>3. W \notin Dumped \/ job.status.phase = "WaitingReady" \/ W \in job.marks
    BY <1>4 DEF VisitVolume, Owed, W
  <2> QED BY <1>s, <2>2, <2>3 DEF W
<1>5. CASE DumpWaits \/ DumpFails
  <2>1. PICK r \in BOOLEAN, p \in BOOLEAN, m \in Message : job' = Visit(job, W, r, p, m, FALSE)
    BY <1>5, <1>m DEF DumpWaits, DumpFails, W
  <2>2. job'.reh = job.reh
    BY <2>1, <1>v
  <2> QED BY <2>2
<1>6. CASE Remember
  <2>1. PICK r \in BOOLEAN, p \in BOOLEAN, reh \in BOOLEAN :
          job' = [Visit(job, W, r, p, ArtifactMessage(W), reh) EXCEPT !.marks = @ \cup {W}]
    BY <1>6 DEF Remember, Answers, W
  <2> DEFINE k == Visit(job, W, r, p, ArtifactMessage(W), reh)
  <2>2. k \in Job /\ (k.reh = job.reh \cup {W} \/ k.reh = job.reh)
    BY <1>m, <1>v
  <2>3. job' = [k EXCEPT !.marks = @ \cup {W}]
    BY <2>1
  <2> HIDE DEF k
  <2>4. job'.reh = k.reh /\ W \in job'.marks
    BY <2>2, <2>3 DEF Job
  <2> QED BY <2>2, <2>4 DEF W
<1> QED BY <1>1, <1>2, <1>3, <1>4, <1>5, <1>6 DEF Visits

\* A step of a pass that stores nothing and adds no annotation.
LEMMA MarkedKeeps ==
  ASSUME MarkedInv, UNCHANGED store, steady' \subseteq steady,
         pc \notin {"idle", "write"}, pc' \notin {"idle", "write"},
         job'.marks = job.marks, job'.status.phase = job.status.phase,
         pc' \in {"work", "remember"} /\ job.status.phase = "Rehydrating" =>
           job'.reh \cap Kept \subseteq job.marks,
         pc' \notin {"work", "remember"} => job'.reh = {}
  PROVE  MarkedInv'
  BY DEF MarkedInv, Past, Kept, store

\* A pass that leaves the loop with a status that is past Rehydrating only when
\* the dumps are annotated.
LEMMA MarkedLeave ==
  ASSUME TypeOK, MarkedInv, NEW s \in Status, Leave(s), UNCHANGED <<store, steady>>,
         s.phase = "WaitingReady" \/ (s.phase = "Succeeded" /\ ~DryRun) => Kept \subseteq act.marks
  PROVE  MarkedInv'
<1>1. pc' = "write" /\ job'.status = s /\ job'.marks = {} /\ job'.reh = {}
  BY LeaveKeeps
<1> QED BY <1>1 DEF MarkedInv, Past, Kept, store

\* Every step keeps MarkedInv: Advance leaves Rehydrating only with every steady
\* dump annotated, and a write is accepted only over a copy that shows it.
LEMMA MarkedStep ==
  TypeOK /\ LandedInv /\ OnceInv /\ MarkedInv /\ [Next \/ Resync]_vars => MarkedInv'
<1> SUFFICES ASSUME TypeOK, LandedInv, OnceInv, MarkedInv, [Next \/ Resync]_vars PROVE MarkedInv'
  OBVIOUS
<1>1. CASE UNCHANGED <<store, pc, job, steady>>
  BY <1>1 DEF MarkedInv, Past, Kept, store
<1>2. CASE Begin
  <2>1. /\ job'.marks = cache.marks /\ job'.reh = {} /\ pc = "idle" /\ pc' = "policy"
        /\ UNCHANGED <<store, steady>>
    BY <1>2 DEF Begin, NoJob, hist
  <2>2. /\ job'.status = [cache.status EXCEPT !.phase = IF @ = "Failed" THEN "Rehydrating" ELSE @,
                                              !.cause = "none"]
        /\ ~Closed(cache.status)
    BY <1>2 DEF Begin, NoJob
  <2>3. job'.status.phase = IF cache.status.phase = "Failed" THEN "Rehydrating" ELSE cache.status.phase
    BY <2>2 DEF TypeOK, Object, Status
  <2>4. Past(job)' => Past(cache)
    BY <2>3 DEF Past
  <2> QED BY <2>1, <2>4 DEF MarkedInv, OnceInv, Past, Kept, store
<1>3. CASE PolicyMissing \/ PairMissing
  <2>1. PICK cause \in Cause : FailJob(cause)
    BY <1>3 DEF PolicyMissing, PairMissing, Cause
  <2> DEFINE s == [job.status EXCEPT !.phase = "Failed", !.cause = cause]
  <2>2. s \in Status /\ s.phase = "Failed" /\ Leave(s)
    BY <2>1 DEF FailJob, TypeOK, Job, Status, Phase
  <2>3. UNCHANGED <<store, steady>>
    BY <1>3 DEF PolicyMissing, PairMissing, hist
  <2> HIDE DEF s
  <2> QED BY <2>2, <2>3, MarkedLeave
<1>4. CASE PolicyRead
  <2>1. PICK u : /\ job' = [job EXCEPT !.useful = u, !.status.phase = IF @ = "" THEN "Pending" ELSE @]
                 /\ steady' = steady \cap u
    BY <1>4 DEF PolicyRead
  <2>2. /\ job'.marks = job.marks /\ job'.reh = job.reh
        /\ job'.status.phase = IF job.status.phase = "" THEN "Pending" ELSE job.status.phase
    BY <2>1 DEF TypeOK, Job, Status
  <2>3. act' = act \/ act' = [act EXCEPT !.status = [job.status EXCEPT !.phase = "Pending"]]
    BY <1>4 DEF PolicyRead, Put, store
  <2>4. act'.marks = act.marks /\ (act'.status.phase = act.status.phase \/ act'.status.phase = "Pending")
    BY <2>3 DEF TypeOK, Object, Job, Status
  <2>5. cache' = cache /\ pc = "policy" /\ pc' = "inventory"
    BY <1>4 DEF PolicyRead, Put, store
  <2>6. Kept' \subseteq Kept
    BY <2>1 DEF Kept
  <2>7. Past(job)' => Past(job)
    BY <2>2 DEF Past
  <2>8. (Past(act)' => Past(act)) /\ (Past(cache)' => Past(cache))
    BY <2>4, <2>5 DEF Past
  <2> QED BY <2>2, <2>4, <2>5, <2>6, <2>7, <2>8 DEF MarkedInv
<1>5. CASE Walk \/ Apply
  <2>1. \E j \in Job : /\ j.marks = job.marks /\ j.reh = job.reh /\ j.status.phase = job.status.phase
                       /\ job' \in {j, Seed(j)}
    <3>1. CASE Walk
      <4>1. PICK found \in SUBSET Workloads :
              LET j == [job EXCEPT !.inv = found, !.todo = found, !.useful = @ \cap found]
              IN  job' \in {j, Seed(j)}
        BY <3>1 DEF Walk, TypeOK, World
      <4> DEFINE j == [job EXCEPT !.inv = found, !.todo = found, !.useful = @ \cap found]
      <4>2. j \in Job /\ j.marks = job.marks /\ j.reh = job.reh /\ j.status = job.status
        BY DEF TypeOK, Job
      <4>3. job' \in {j, Seed(j)}
        BY <4>1
      <4> QED BY <4>2, <4>3
    <3>2. CASE Apply
      BY <3>2 DEF Apply, TypeOK
    <3> QED BY <1>5, <3>1, <3>2
  <2>2. job'.marks = job.marks /\ job'.reh = job.reh /\ job'.status.phase = job.status.phase
    BY <2>1, SeedKeeps
  <2>3. /\ UNCHANGED store /\ steady' \subseteq steady /\ pc \in {"inventory", "apply"}
        /\ pc' \in {"apply", "work"}
    BY <1>5 DEF Walk, Apply, hist
  <2>4. job'.reh = {}
    BY <2>2, <2>3 DEF MarkedInv
  <2> QED BY <2>2, <2>3, <2>4, MarkedKeeps
<1>6. CASE ApplyFails
  <2> DEFINE s == [NewStatus EXCEPT !.phase = "Failed", !.cause = "permanent"]
  <2>1. s \in Status /\ s.phase = "Failed" /\ job.status \in Status
    BY NewIsTyped DEF Status, Phase, Cause, TypeOK, Job
  <2>2. (Leave(job.status) \/ Leave(s)) /\ UNCHANGED <<store, steady>>
    BY <1>6 DEF ApplyFails, hist
  <2>3. job.status.phase = "WaitingReady" \/ (job.status.phase = "Succeeded" /\ ~DryRun)
          => Kept \subseteq act.marks
    BY DEF MarkedInv, Past
  <2> HIDE DEF s
  <2> QED BY <2>1, <2>2, <2>3, MarkedLeave
<1>r. ASSUME Visits, pc \in {"work", "remember"}, UNCHANGED steady, job.status.phase = "Rehydrating"
      PROVE  job'.reh \cap Kept \subseteq job'.marks
  <2>1. job.reh \cap Kept \subseteq job'.marks /\ steady \subseteq job.useful
    BY <1>r, VisitsSaw DEF MarkedInv, LandedInv, PassSound
  <2>2. /\ job'.reh \subseteq job.reh \cup {Next1}
        /\ Next1 \in job'.reh \ job.reh =>
             Next1 \notin Dumped \/ Next1 \notin job.useful \/ Next1 \in job'.marks
    BY <1>r, VisitsRehydrate
  <2> QED BY <2>1, <2>2 DEF Kept
<1>7. CASE VisitStateless \/ VisitSkip \/ VisitGraph \/ VisitPlugin \/ VisitVolume \/ DumpWaits
           \/ DumpFails
  <2>1. pc = "work" /\ UNCHANGED <<store, steady>> /\ Visits
    BY <1>7 DEF VisitStateless, VisitSkip, VisitGraph, VisitPlugin, VisitVolume, DumpWaits,
                DumpFails, hist, Visits
  <2>2. pc' = "work" /\ job'.status.phase = job.status.phase /\ job'.marks = job.marks
    BY <2>1, VisitsSaw DEF Saw
  <2> QED BY <1>r, <2>1, <2>2, MarkedKeeps
<1>8. CASE DumpApply
  <2>1. pc = "work" /\ pc' = "remember" /\ UNCHANGED <<store, steady>>
    BY <1>8 DEF DumpApply, hist
  <2>2. job'.marks = job.marks /\ job'.reh = job.reh /\ job'.status = job.status
    BY <1>8 DEF DumpApply, TypeOK, Job
  <2>3. job.status.phase = "Rehydrating" => job'.reh \cap Kept \subseteq job.marks
    BY <2>1, <2>2 DEF MarkedInv
  <2> QED BY <2>1, <2>2, <2>3, MarkedKeeps
<1>9. CASE Remember
  <2> DEFINE W == Next1
  <2>1. /\ pc = "remember" /\ pc' = "work" /\ UNCHANGED <<cache, steady>> /\ Visits
        /\ job'.status.phase = job.status.phase
    BY <1>9, VisitsSaw DEF Visits, Saw, Remember, Put, store, hist
  <2>2. job.marks \subseteq job'.marks /\ job'.marks \subseteq job.marks \cup {W}
    BY <2>1, VisitsSaw
  <2>3. act'.status = act.status /\ act'.marks = act.marks \cup {W}
    <3>1. CASE W \in cache.marks
      BY <1>9, <3>1 DEF Remember, store, OnceInv
    <3>2. CASE W \notin cache.marks
      <4>1. act' = [act EXCEPT !.marks = @ \cup {W}]
        BY <1>9, <3>2 DEF Remember, Put
      <4> QED BY <4>1 DEF TypeOK, Object
    <3> QED BY <3>1, <3>2
  <2> HIDE DEF W
  <2>4. job'.status.phase = "Rehydrating" => (job'.reh \cap Kept \subseteq job'.marks)
    BY <1>r, <2>1
  <2> QED BY <2>1, <2>2, <2>3, <2>4 DEF MarkedInv, Past, Kept
<1>10. CASE Finish
  <2>1. pc = "work" /\ Leave(Advance(job)) /\ Advance(job) \in Status /\ UNCHANGED <<store, steady>>
    BY <1>10, AdvanceTyped DEF Finish, TypeOK, hist
  <2>2. Advance(job).phase = NextPhase(job)
    BY DEF Advance, TypeOK, Job, Status
  <2>3. ASSUME NextPhase(job) = "WaitingReady" \/ (NextPhase(job) = "Succeeded" /\ ~DryRun)
        PROVE  Kept \subseteq act.marks
    <3>1. CASE job.status.phase = "WaitingReady"
      BY <3>1 DEF MarkedInv, Past
    <3>2. CASE job.status.phase = "Rehydrating" /\ Rehydrated(job)
      <4>1. steady \subseteq Gating(job.status.listed, job.status.rows) \ Stateless
        BY <2>1 DEF LandedInv, Sound, PassSound, Gating, Stateful
      <4>2. Kept \subseteq job.reh
        BY <3>2, <4>1 DEF Rehydrated, Kept
      <4> QED BY <2>1, <3>2, <4>2 DEF MarkedInv
    <3>3. job.status.phase # "Pending"
      BY <2>3 DEF NextPhase
    <3> QED BY <2>1, <2>3, <3>1, <3>2, <3>3 DEF NextPhase, LandedInv, PassSound
  <2> QED BY <2>1, <2>2, <2>3, MarkedLeave
<1>n. NoJob.marks = {} /\ NoJob.reh = {} /\ NoJob.status.phase = ""
  BY DEF NoJob, NewStatus
<1>11. CASE WriteStatus
  <2>1. /\ synced /\ act' = [act EXCEPT !.status = job.status] /\ pc' = "idle"
        /\ job' = NoJob /\ UNCHANGED <<cache, steady>>
    BY <1>11 DEF WriteStatus, Put, hist
  <2>2. act'.marks = act.marks /\ act'.status = job.status /\ cache.marks = act.marks
    BY <2>1 DEF TypeOK, Object, OnceInv
  <2> QED BY <1>n, <2>1, <2>2 DEF MarkedInv, Past, Kept
<1>12. CASE Deliver
  <2>1. UNCHANGED <<act, pc, job, steady>> /\ cache' = act
    BY <1>12 DEF Deliver, DeliverNewest, hist
  <2> QED BY <2>1 DEF MarkedInv, OnceInv, Past, Kept
<1>13. CASE Conflict \/ Abort
  <2>1. pc' = "idle" /\ job' = NoJob /\ UNCHANGED <<store, steady>>
    BY <1>13 DEF Conflict, Abort, Drop
  <2> QED BY <1>n, <2>1 DEF MarkedInv, Past, Kept, store
<1> QED
  BY <1>1, <1>2, <1>3, <1>4, <1>5, <1>6, <1>7, <1>8, <1>9, <1>10, <1>11, <1>12, <1>13
  DEF Next, Pass, Loop, Ignore, Resync, vars, store, hist

\* A new Action is before Rehydrating.
LEMMA MarkedInit == Init => MarkedInv
<1> SUFFICES ASSUME Init PROVE MarkedInv
  OBVIOUS
<1>1. /\ act.status.phase = "" /\ cache.status.phase = "" /\ job.status.phase = ""
      /\ job.marks = {} /\ job.reh = {}
  BY DEF Init, StoreInit, NoJob, NewStatus
<1> QED BY <1>1 DEF MarkedInv, Past

\* LiveDataStays: Spec keeps LiveDataKept, for any inventory and any number of passes
\* on old copies: whatever phase a pass takes itself to be in, it starts with
\* the annotations of every status stored before it (dumpApplied).
THEOREM LiveDataStays == Spec => LiveDataKept
<1>1. ASSUME TypeOK, MarkedInv, Next \/ Resync, ~DryRun,
             act.status.phase \in {"WaitingReady", "Succeeded"}, NEW w \in steady
      PROVE  replays'[w] = replays[w]
  <2>1. Past(act) /\ w \in Workloads
    BY <1>1 DEF Past, TypeOK
  <2>2. CASE DumpFails \/ DumpApply
    <3>1. Next1 \in Dumped \ job.marks /\ Next1 \in Workloads /\ pc = "work"
      BY <2>2, ClassesDisjoint DEF DumpFails, DumpApply, Owed
    <3>2. Next1 # w
      BY <2>1, <3>1, <1>1 DEF MarkedInv, Kept
    <3>3. replays' = replays \/ replays' = Bump(Next1)
      BY <2>2 DEF DumpFails, DumpApply
    <3> QED BY <1>1, <2>1, <3>1, <3>2, <3>3, BumpOne
  <2>3. CASE UNCHANGED replays
    BY <2>3
  <2> QED
    BY <1>1, <2>2, <2>3
    DEF Next, Pass, Loop, Ignore, Begin, PolicyMissing, PolicyRead, PairMissing, Walk, Apply, ApplyFails,
        VisitStateless, VisitSkip, VisitGraph, VisitPlugin, VisitVolume, DumpWaits, Remember, Finish,
        WriteStatus, Deliver, Conflict, Abort, Resync
<1>2. TypeOK /\ MarkedInv /\ [Next \/ Resync]_vars =>
        [~DryRun /\ act.status.phase \in {"WaitingReady", "Succeeded"} =>
           \A w \in steady : replays'[w] = replays[w]]_vars
  BY <1>1
<1>3. TypeOK /\ [Next \/ Resync]_vars => TypeOK'
  BY TypeStep
<1> QED
  BY <1>2, <1>3, TypeInit, LandedInit, LandedStep, OnceInit, OnceStep, MarkedInit, MarkedStep, PTL
  DEF Spec, LiveDataKept
=============================================================================
