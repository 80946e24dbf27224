------------------------ MODULE CutoverActionProofs ------------------------
(***************************************************************************)
(* Proofs about CutoverAction, for every tenant: any workloads of any      *)
(* class, any replica counts, any number of writes and any interleaving of *)
(* passes, failing calls, crashes, late reads and a rollback.              *)
(*                                                                         *)
(* CutInv is inductive.  Its heart is Sound: what the phase of a status    *)
(* says of the clusters is true, not only of the stored Action but also of *)
(* the cached copy and of the pass in flight, which may be older.  It can  *)
(* be, because nothing but a rollback undoes a freeze, a promotion or the  *)
(* switch, and a rollback once asked for stays asked for.                  *)
(***************************************************************************)
EXTENDS CutoverAction, TLAPS

USE CutoverClasses, CutoverBounds

-----------------------------------------------------------------------------
(* Types *)

\* The empty locals are typed.
LEMMA NewIsTyped == NewAction \in Object /\ NoJob \in Job
  BY DEF NewAction, Object, NoJob, Job, ZeroRow, Row, Message, Phase

\* The state before the first pass is typed.
LEMMA TypeInit == Init => TypeOK
<1> SUFFICES ASSUME Init PROVE TypeOK
  OBVIOUS
<1>1. act \in Object /\ cache \in Object /\ synced \in BOOLEAN /\ queued \in BOOLEAN
  BY NewIsTyped DEF Init, StoreInit, Object
<1>2. source \in [Data -> Source]
  BY DEF Init, Source, Marks, NoMark, Data
<1>3. dest \in [Data -> Dest]
  BY DEF Init, Dest
<1> QED BY <1>1, <1>2, <1>3, NewIsTyped DEF Init, TypeOK

\* Answers of a call and of a read of Ready are Booleans.
LEMMA AnswersTyped ==
  Answers \subseteq BOOLEAN /\ \A w, up : ReadyAnswers(w, up) \subseteq BOOLEAN
  BY DEF Answers, ReadyAnswers

\* What a visit to w changes of the locals: one row, what is left to visit
\* and what has been seen.
Noted(o, j, w, r, p) ==
    /\ o.todo = j.todo \ {w} /\ o.promoted = j.promoted
    /\ o.seen = IF r /\ p THEN j.seen \cup {w} ELSE j.seen
    /\ o.status.phase = j.status.phase /\ o.status.rollback = j.status.rollback
    /\ o.status.listed = j.status.listed
    /\ \A v \in Workloads \ {w} : o.status.rows[v] = j.status.rows[v]
    /\ o.status.rows[w].ready = r /\ (r => o.status.rows[w].probeOK = p)

\* So does Observe, which ends every visit.
LEMMA Observed ==
  ASSUME NEW j \in Job, NEW w \in Workloads, NEW r \in BOOLEAN, NEW p \in BOOLEAN
  PROVE  Observe(j, w, r, p) \in Job /\ Noted(Observe(j, w, r, p), j, w, r, p)
<1> DEFINE row == Fact(j.status.rows[w], r, p)
           rows == [j.status.rows EXCEPT ![w] = row]
           status == [j.status EXCEPT !.rows = rows]
           seen == IF r /\ p THEN j.seen \cup {w} ELSE j.seen
<1>1. j.status \in Object /\ j.status.rows \in [Workloads -> Row]
  BY DEF Job, Object
<1>2. row \in Row /\ row.ready = r /\ (r => row.probeOK = p)
  <2>1. j.status.rows[w] \in Row
    BY <1>1
  <2> QED BY <2>1 DEF Row, Fact
<1> HIDE DEF row
<1>3. /\ rows \in [Workloads -> Row] /\ rows[w] = row
      /\ \A v \in Workloads \ {w} : rows[v] = j.status.rows[v]
  BY <1>1, <1>2
<1>4. Observe(j, w, r, p) = [j EXCEPT !.status = status, !.todo = @ \ {w}, !.seen = seen]
  BY Zenon DEF Observe, row
<1> HIDE DEF rows
<1>5. /\ status \in Object /\ status.rows = rows
      /\ status.phase = j.status.phase /\ status.rollback = j.status.rollback
      /\ status.listed = j.status.listed
  BY <1>1, <1>3 DEF Object
<1>6. seen \in SUBSET Workloads
  BY DEF Job
<1> HIDE DEF status, seen
<1>7. /\ Observe(j, w, r, p) \in Job
      /\ Observe(j, w, r, p).status = status
      /\ Observe(j, w, r, p).todo = j.todo \ {w}
      /\ Observe(j, w, r, p).seen = seen
      /\ Observe(j, w, r, p).promoted = j.promoted
  BY <1>4, <1>5, <1>6, ZenonT(60) DEF Job
<1> QED BY <1>2, <1>3, <1>5, <1>7 DEF seen, Noted

\* A visit to the object graph too: its probe is what Attest answered, also
\* when it is not Ready.
LEMMA Attests ==
  ASSUME NEW i \in Job, NEW j \in Job, NEW w \in Workloads, NEW ok \in BOOLEAN,
         Noted(j, i, w, ok, ok)
  PROVE  LET o == [j EXCEPT !.status.rows[w].probeOK = ok]
         IN  o \in Job /\ Noted(o, i, w, ok, ok)
<1> DEFINE row == [j.status.rows[w] EXCEPT !.probeOK = ok]
           rows == [j.status.rows EXCEPT ![w] = row]
           status == [j.status EXCEPT !.rows = rows]
           o == [j EXCEPT !.status = status]
<1>1. j.status \in Object /\ j.status.rows \in [Workloads -> Row]
  BY DEF Job, Object
<1>2. row \in Row /\ row.ready = j.status.rows[w].ready /\ row.probeOK = ok
  BY <1>1 DEF Row
<1> HIDE DEF row
<1>3. /\ rows \in [Workloads -> Row] /\ rows[w] = row
      /\ \A v \in Workloads \ {w} : rows[v] = j.status.rows[v]
  BY <1>1, <1>2
<1>4. [j EXCEPT !.status.rows[w].probeOK = ok] = o
  BY Zenon DEF row
<1> HIDE DEF rows
<1>5. /\ status \in Object /\ status.rows = rows
      /\ status.phase = j.status.phase /\ status.rollback = j.status.rollback
      /\ status.listed = j.status.listed
  BY <1>1, <1>3 DEF Object
<1> HIDE DEF status
<1>6. o \in Job /\ o.status = status /\ o.todo = j.todo /\ o.seen = j.seen
      /\ o.promoted = j.promoted
  BY <1>5 DEF Job
<1> HIDE DEF o
<1>7. Noted(o, i, w, ok, ok)
  BY <1>2, <1>3, <1>5, <1>6 DEF Noted
<1> QED BY <1>4, <1>6, <1>7

\* Advance changes the phase alone.
LEMMA Advanced ==
  ASSUME NEW j \in Job
  PROVE  /\ Advance(j) \in Job /\ Advance(j).status.phase = NextPhase(j)
         /\ Advance(j).status.rollback = j.status.rollback
         /\ Advance(j).status.listed = j.status.listed /\ Advance(j).status.rows = j.status.rows
         /\ Advance(j).seen = j.seen
<1>1. NextPhase(j) \in Phase
  BY DEF NextPhase, Phase
<1>2. j.status \in Object
  BY DEF Job
<1> QED BY <1>1, <1>2 DEF Advance, Job, Object

\* workloads.Scale sets the count and keeps, or makes, the annotation.
LEMMA Scales ==
  ASSUME NEW d \in Source, NEW n \in 0 .. MaxReplicas
  PROVE  /\ Scale(d, n) \in Source /\ Scale(d, n).replicas = n
         /\ Scale(d, n).mark = IF d.mark = NoMark THEN d.replicas ELSE d.mark
<1> DEFINE mark == IF d.mark = NoMark THEN d.replicas ELSE d.mark
<1>1. mark \in Marks
  BY DEF Source, Marks, NoMark
<1>2. Scale(d, n) = [d EXCEPT !.mark = mark, !.replicas = n]
  BY Zenon DEF Scale
<1> HIDE DEF mark
<1>3. Scale(d, n) \in Source /\ Scale(d, n).replicas = n /\ Scale(d, n).mark = mark
  BY <1>1, <1>2 DEF Source
<1> QED BY <1>3 DEF mark

\* A rollback leaves a workload as it was or scales it, to a count in bounds.
LEMMA Unscales ==
  ASSUME TypeOK, NEW w \in Scalable, NEW d \in Unscalings(w)
  PROVE  d = source[w] \/ \E n \in 0 .. MaxReplicas : d = Scale(source[w], n)
<1>1. source[w] \in Source
  BY DEF TypeOK
<1>2. OriginalReplicas(w) \in 0 .. MaxReplicas /\ 1 \in 0 .. MaxReplicas
  BY <1>1 DEF OriginalReplicas, Source, Marks, NoMark
<1> QED BY <1>2 DEF Unscalings

\* The workload a visit is about has data, or is the object graph.
LEMMA NextTyped ==
  ASSUME TypeOK, job.todo # {}
  PROVE  Next1 \in job.todo /\ Next1 \in Workloads
  BY DEF Next1, TypeOK, Job

\* What a promotion leaves behind: one that was told stays told.
LEMMA Promotes ==
  ASSUME NEW d \in Dest, NEW up \in BOOLEAN, NEW done \in BOOLEAN, NEW through \in BOOLEAN
  PROVE  LET e == Promoted(d, up, done, through)
         IN  /\ e \in Dest
             /\ e.told <=> d.told \/ done
             /\ e.primary <=> d.primary \/ (done /\ through)
<1> DEFINE u == d.up \/ up
           v == d.told \/ done
           x == d.primary \/ (done /\ through)
           e == Promoted(d, up, done, through)
<1>1. e = [d EXCEPT !.up = u, !.told = v, !.primary = x]
  BY Zenon DEF Promoted
<1>2. u \in BOOLEAN /\ v \in BOOLEAN /\ x \in BOOLEAN
  OBVIOUS
<1> HIDE DEF u, v, x, e
<1>3. e \in Dest /\ e.told = v /\ e.primary = x
  BY <1>1, <1>2 DEF Dest
<1>4. (e.told <=> d.told \/ done) /\ (e.primary <=> d.primary \/ (done /\ through))
  BY <1>3 DEF v, x
<1> QED BY <1>3, <1>4 DEF e

\* What the loop leaves to Proceed.
LEMMA Proceeds ==
  ASSUME NEW j \in Job, Proceed(j)
  PROVE  \/ j.status.rollback /\ pc' = "rollback" /\ job' = j
         \/ ~j.status.rollback /\ pc' = "write" /\ job' = Advance(j)
  BY DEF Proceed

\* Seeding keeps the type of the rows, and no seeded row is Ready.
LEMMA Seeds ==
  ASSUME NEW s \in Object, NEW inv \in SUBSET Workloads
  PROVE  /\ SeedRows(s, inv) \in [Workloads -> Row]
         /\ \A w \in Workloads : ~SeedRows(s, inv)[w].ready
<1>1. ZeroRow \in Row /\ ~ZeroRow.ready
  BY DEF ZeroRow, Row, Message
<1>2. ASSUME NEW w \in Workloads
      PROVE  [s.rows[w] EXCEPT !.ready = FALSE] \in Row /\ ~[s.rows[w] EXCEPT !.ready = FALSE].ready
  <2>1. s.rows[w] \in Row
    BY DEF Object
  <2> QED BY <2>1 DEF Row
<1> QED BY <1>1, <1>2 DEF SeedRows

\* Every step of a pass, of the watch, of the queue and of the clusters keeps
\* TypeOK.
LEMMA TypeStep == TypeOK /\ [Next \/ Resync]_vars => TypeOK'
<1> SUFFICES ASSUME TypeOK, [Next \/ Resync]_vars PROVE TypeOK'
  OBVIOUS
<1> USE NewIsTyped
<1>a. Answers \subseteq BOOLEAN /\ \A w, up : ReadyAnswers(w, up) \subseteq BOOLEAN
  BY AnswersTyped
<1>j. job \in Job /\ act \in Object /\ cache \in Object
  BY DEF TypeOK
<1>s. source \in [Data -> Source] /\ dest \in [Data -> Dest]
  BY DEF TypeOK
<1>1. CASE Ignore
  BY <1>1 DEF Ignore, TypeOK, TakeKey, store, world
<1>2. CASE Begin
  <2>1. job' \in Job
    BY <1>2, <1>j DEF Begin, Job, NoJob
  <2> QED BY <1>2, <2>1 DEF Begin, TypeOK, TakeKey, store, world
<1>3. CASE NotFound
  <2>1. job' \in Job
    BY <1>3, <1>j DEF NotFound, Job, Object, Phase
  <2> QED BY <1>3, <2>1 DEF NotFound, TypeOK, store, world
<1>4. CASE PolicyRead
  <2>1. job' \in Job
    BY <1>4, <1>j DEF PolicyRead, Job, Object, Phase
  <2>2. [act EXCEPT !.phase = "Pending", !.listed = job.status.listed, !.rows = job.status.rows]
          \in Object
    BY <1>j DEF Object, Job, Phase
  <2> QED BY <1>4, <2>1, <2>2 DEF PolicyRead, Put, TypeOK, store, world
<1>5. CASE Walk
  <2>1. Inventory \in SUBSET Workloads
    BY DEF Inventory, Data
  <2>2. SeedRows(job.status, Inventory) \in [Workloads -> Row]
    BY <1>j, <2>1, Seeds DEF Job
  <2>3. job' \in Job
    BY <1>5, <1>j, <2>1, <2>2 DEF Walk, Job, Object
  <2> QED BY <1>5, <2>3 DEF Walk, TypeOK, store, world
<1>6. CASE VisitGraph
  <2>1. PICK ok \in BOOLEAN :
          job' = [Observe(job, Next1, ok, ok) EXCEPT !.status.rows[Next1].probeOK = ok]
    BY <1>6, <1>a DEF VisitGraph
  <2>2. /\ Next1 \in Workloads /\ Observe(job, Next1, ok, ok) \in Job
        /\ Noted(Observe(job, Next1, ok, ok), job, Next1, ok, ok)
    BY <1>6, <1>j, NextTyped, Observed DEF VisitGraph
  <2>3. job' \in Job
    BY <1>j, <2>1, <2>2, Attests
  <2> QED BY <1>6, <2>3 DEF VisitGraph, TypeOK, store, world
<1>v. ASSUME NEW phases, Visiting(phases)
      PROVE  /\ Next1 \in job.todo /\ Next1 \in Workloads
             /\ job.status.phase \in phases /\ pc = "work"
  BY <1>v, NextTyped DEF Visiting
<1>7. CASE VisitFreeze
  <2>1. PICK ok \in BOOLEAN, p \in BOOLEAN, r \in BOOLEAN :
          /\ source' = IF ok /\ Next1 \in Scalable
                       THEN [source EXCEPT ![Next1] = Scale(@, 0)] ELSE source
          /\ job' = Observe(job, Next1, r, p)
    BY <1>7, <1>a DEF VisitFreeze
  <2>2. job' \in Job
    BY <1>7, <1>v, <1>j, <2>1, Observed DEF VisitFreeze
  <2>3. source' \in [Data -> Source]
    BY <1>s, <2>1, Scales
  <2> QED BY <1>7, <2>2, <2>3 DEF VisitFreeze, TypeOK, store, world
<1>8. CASE VisitLag
  <2>1. PICK ok \in BOOLEAN, p \in BOOLEAN, r \in BOOLEAN :
          job' = Observe([job EXCEPT !.lagZero = @ /\ ok /\ LagZero(Next1)], Next1, r, p)
    BY <1>8, <1>a DEF VisitLag
  <2>2. [job EXCEPT !.lagZero = @ /\ ok /\ LagZero(Next1)] \in Job
    BY <1>j DEF Job
  <2>3. job' \in Job
    <3> DEFINE j == [job EXCEPT !.lagZero = @ /\ ok /\ LagZero(Next1)]
    <3> HIDE DEF j
    <3>1. j \in Job /\ job' = Observe(j, Next1, r, p)
      BY <2>1, <2>2 DEF j
    <3> QED BY <1>8, <1>v, <3>1, Observed DEF VisitLag
  <2> QED BY <1>8, <2>3 DEF VisitLag, TypeOK, store, world
<1>9. CASE VisitPromotePostgres
  <2>0. PICK up \in Answers, done \in Answers, ok \in Answers, p \in Answers :
          /\ \E through \in BOOLEAN :
               dest' = [dest EXCEPT ![Next1] = Promoted(@, up, up /\ done, through)]
          /\ \E r \in ReadyAnswers(Next1, dest'[Next1].up) :
               job' = Observe([job EXCEPT !.promoted = @ /\ PromoteOK(Next1, up, done, ok)],
                              Next1, r, p)
    BY <1>9, Zenon DEF VisitPromotePostgres
  <2>t. PICK through \in BOOLEAN :
          dest' = [dest EXCEPT ![Next1] = Promoted(@, up, up /\ done, through)]
    BY <2>0
  <2>1. PICK r \in BOOLEAN :
          job' = Observe([job EXCEPT !.promoted = @ /\ PromoteOK(Next1, up, done, ok)],
                         Next1, r, p)
    BY <2>0, <1>a
  <2>2. [job EXCEPT !.promoted = @ /\ PromoteOK(Next1, up, done, ok)] \in Job
    BY <1>j DEF Job
  <2>3. job' \in Job
    <3> DEFINE j == [job EXCEPT !.promoted = @ /\ PromoteOK(Next1, up, done, ok)]
    <3> HIDE DEF j
    <3>1. j \in Job /\ job' = Observe(j, Next1, r, p) /\ p \in BOOLEAN
      BY <1>a, <2>1, <2>2 DEF j
    <3> QED BY <1>9, <1>v, <3>1, Observed DEF VisitPromotePostgres
  <2>4. dest' \in [Data -> Dest]
    <3>1. \A w \in Data : Promoted(dest[w], up, up /\ done, through) \in Dest
      BY <1>a, <1>s, <2>0, <2>t, Promotes
    <3> QED BY <1>s, <2>t, <3>1
  <2> QED BY <1>9, <2>3, <2>4 DEF VisitPromotePostgres, TypeOK, store, world
<1>10. CASE VisitPromote
  <2>0. PICK up \in Answers, p \in Answers :
          /\ dest' = [dest EXCEPT ![Next1].up = @ \/ (up /\ Next1 \in Plain \cap Scalable)]
          /\ \E r \in ReadyAnswers(Next1, dest'[Next1].up) : job' = Observe(job, Next1, r, p)
    BY <1>10, Zenon DEF VisitPromote
  <2>1. PICK r \in BOOLEAN : job' = Observe(job, Next1, r, p)
    BY <2>0, <1>a
  <2>2. job' \in Job
    <3>1. p \in BOOLEAN
      BY <1>a, <2>0
    <3> QED BY <1>10, <1>v, <1>j, <2>1, <3>1, Observed DEF VisitPromote
  <2>3. dest' \in [Data -> Dest]
    <3>1. \A w \in Data, u \in BOOLEAN : [dest[w] EXCEPT !.up = u] \in Dest
      BY <1>s DEF Dest
    <3>2. \A w \in Data : [dest[w] EXCEPT !.up = @ \/ (up /\ Next1 \in Plain \cap Scalable)] \in Dest
      BY <3>1, Zenon
    <3> QED BY <1>s, <2>0, <3>2
  <2> QED BY <1>10, <2>2, <2>3 DEF VisitPromote, TypeOK, store, world
<1>11. CASE VisitRaise
  <2>0. PICK up \in Answers, p \in Answers :
          /\ dest' = [dest EXCEPT ![Next1].up = @ \/ (up /\ Raises(Next1))]
          /\ \E r \in ReadyAnswers(Next1, dest'[Next1].up) : job' = Observe(job, Next1, r, p)
    BY <1>11, Zenon DEF VisitRaise
  <2>1. PICK r \in BOOLEAN : job' = Observe(job, Next1, r, p)
    BY <2>0, <1>a
  <2>2. job' \in Job
    <3>1. p \in BOOLEAN
      BY <1>a, <2>0
    <3> QED BY <1>11, <1>v, <1>j, <2>1, <3>1, Observed DEF VisitRaise
  <2>3. dest' \in [Data -> Dest]
    <3>1. \A w \in Data, u \in BOOLEAN : [dest[w] EXCEPT !.up = u] \in Dest
      BY <1>s DEF Dest
    <3>2. \A w \in Data : [dest[w] EXCEPT !.up = @ \/ (up /\ Raises(Next1))] \in Dest
      BY <3>1, Zenon
    <3> QED BY <1>s, <2>0, <3>2
  <2> QED BY <1>11, <2>2, <2>3 DEF VisitRaise, TypeOK, store, world
<1>12. CASE CheckFrozen
  <2>1. PICK ok \in BOOLEAN : Proceed([job EXCEPT !.frozen = Frozen(ok)])
    BY <1>12, <1>a DEF CheckFrozen
  <2>2. [job EXCEPT !.frozen = Frozen(ok)] \in Job
    <3>1. Frozen(ok) \in BOOLEAN
      BY DEF Frozen
    <3> QED BY <1>j, <3>1 DEF Job
  <2>3. job' \in Job /\ pc' \in {"rollback", "write"}
    BY <2>1, <2>2, Proceeds, Advanced
  <2> QED BY <1>12, <2>3 DEF CheckFrozen, TypeOK, store, world
<1>13. CASE Switch
  <2>1. PICK done \in BOOLEAN, ok \in BOOLEAN :
          /\ traffic' = IF done THEN "dest" ELSE traffic
          /\ Proceed([job EXCEPT !.switched = done /\ ok])
    BY <1>13, <1>a DEF Switch
  <2>2. [job EXCEPT !.switched = done /\ ok] \in Job
    BY <1>j DEF Job
  <2>3. job' \in Job /\ pc' \in {"rollback", "write"}
    BY <2>1, <2>2, Proceeds, Advanced
  <2> QED BY <1>13, <2>1, <2>3 DEF Switch, TypeOK, store, world
<1>14. CASE NoHook
  <2>1. job' \in Job /\ pc' \in {"rollback", "write"}
    BY <1>14, <1>j, Proceeds, Advanced DEF NoHook
  <2> QED BY <1>14, <2>1 DEF NoHook, TypeOK, store, world
<1>15. CASE Rollback
  <2>1. job' \in Job
    BY <1>15, <1>j, Advanced DEF Rollback
  <2>2. source' \in [Data -> Source]
    <3>1. \A w \in Data : source'[w] = source[w] \/ (w \in Scalable /\ source'[w] \in Unscalings(w))
      BY <1>15 DEF Rollback
    <3>2. DOMAIN source' = Data /\ source' = [w \in Data |-> source'[w]]
      BY <1>15 DEF Rollback
    <3>3. \A w \in Data : source'[w] \in Source
      <4> TAKE w \in Data
      <4>1. CASE source'[w] = source[w]
        BY <1>s, <4>1
      <4>2. CASE w \in Scalable /\ source'[w] \in Unscalings(w)
        <5>1. source'[w] = source[w] \/ \E n \in 0 .. MaxReplicas : source'[w] = Scale(source[w], n)
          BY <4>2, Unscales
        <5>2. source[w] \in Source
          BY <1>s
        <5> QED BY <5>1, <5>2, Scales
      <4> QED BY <3>1, <4>1, <4>2
    <3> QED BY <3>2, <3>3
  <2> QED BY <1>15, <2>1, <2>2 DEF Rollback, TypeOK, store, world
<1>16. CASE WriteStatus
  <2>1. [job.status EXCEPT !.rollback = act.rollback] \in Object
    BY <1>j DEF Job, Object
  <2> QED BY <1>16, <2>1 DEF WriteStatus, Put, TypeOK, world
<1>17. CASE Conflict
  BY <1>17 DEF Conflict, Drop, TypeOK, store, world
<1>18. CASE Abort
  BY <1>18 DEF Abort, Drop, TypeOK, store, world
<1>19. CASE AskRollback
  <2>1. act' \in Object
    BY <1>19, <1>j DEF AskRollback, Object
  <2> QED BY <1>19, <2>1 DEF AskRollback, TypeOK, world
<1>20. CASE Deliver
  BY <1>20 DEF Deliver, DeliverNewest, TypeOK, world
<1>21. CASE DeliverStatus
  <2>1. cache' \in Object
    BY <1>21, <1>j DEF DeliverStatus, Object
  <2> QED BY <1>21, <2>1 DEF DeliverStatus, TypeOK, world
<1>22. CASE \E w \in Data : PodsFollow(w) \/ SourceWrites(w)
  <2>1. source' \in [Data -> Source]
    <3>1. PICK w \in Data : PodsFollow(w) \/ SourceWrites(w)
      BY <1>22
    <3>2. source[w] \in Source
      BY <1>s
    <3>3. [source[w] EXCEPT !.running = ~@] \in Source
      BY <3>2 DEF Source
    <3>4. SourceWrites(w) => [source[w] EXCEPT !.data = @ + 1] \in Source
      BY <3>2 DEF Source, SourceWrites
    <3> QED BY <1>s, <3>1, <3>3, <3>4 DEF PodsFollow, SourceWrites
  <2> QED BY <1>22, <2>1 DEF PodsFollow, SourceWrites, TypeOK, store
<1>23. CASE \E w \in Data : Replication(w)
  <2>1. dest' \in [Data -> Dest]
    <3>1. PICK w \in Data : Replication(w)
      BY <1>23
    <3>2. dest[w] \in Dest /\ source[w].data \in 0 .. MaxWrites
      BY <1>s DEF Source
    <3>3. /\ [dest[w] EXCEPT !.data = source[w].data, !.stamp = TRUE] \in Dest
          /\ [dest[w] EXCEPT !.data = source[w].data, !.replay = "now"] \in Dest
          /\ [dest[w] EXCEPT !.replay = "old"] \in Dest
          /\ [dest[w] EXCEPT !.primary = TRUE] \in Dest
      BY <3>2 DEF Dest
    <3>4. \E d \in Dest : dest' = [dest EXCEPT ![w] = d]
      <4>1. CASE VolSyncCopies(w)
        <5>1. dest' = [dest EXCEPT ![w] = [dest[w] EXCEPT !.data = source[w].data, !.stamp = TRUE]]
          BY <4>1 DEF VolSyncCopies
        <5> QED BY <5>1, <3>3, Zenon
      <4>2. CASE StandbyReplays(w)
        <5>1. dest' = [dest EXCEPT ![w] = [dest[w] EXCEPT !.data = source[w].data, !.replay = "now"]]
          BY <4>2 DEF StandbyReplays
        <5> QED BY <5>1, <3>3, Zenon
      <4>3. CASE ReplayAges(w)
        BY <4>3, <3>3, Zenon DEF ReplayAges
      <4>4. CASE PromotionEnds(w)
        BY <4>4, <3>3, Zenon DEF PromotionEnds
      <4> QED BY <3>1, <4>1, <4>2, <4>3, <4>4 DEF Replication
    <3> QED BY <1>s, <3>4
  <2> QED BY <1>23, <2>1 DEF Replication, VolSyncCopies, StandbyReplays, ReplayAges, PromotionEnds, TypeOK, store
<1>24. CASE Resync
  BY <1>24 DEF Resync, ResyncKey, TypeOK, store, world
<1>25. CASE UNCHANGED vars
  BY <1>25 DEF vars, TypeOK
<1> QED
  BY <1>1, <1>2, <1>3, <1>4, <1>5, <1>6, <1>7, <1>8, <1>9, <1>10, <1>11, <1>12, <1>13,
     <1>14, <1>15, <1>16, <1>17, <1>18, <1>19, <1>20, <1>21, <1>22, <1>23, <1>24, <1>25
  DEF Next, Pass, Surroundings

-----------------------------------------------------------------------------
(* The inductive invariant *)

AllFrozen == \A w \in Scalable : source[w].replicas = 0
AllTold == \A w \in Postgres : dest[w].told

\* What a status claims, of the spec it was read with and of the clusters.
Sound(phase, rollback) ==
    /\ rollback => act.rollback
    /\ phase \in {"CatchingUp", "Promoting", "Switching", "WaitingReady"}
         => act.rollback \/ AllFrozen
    /\ phase \in {"Switching", "WaitingReady"} => AllTold
    /\ phase = "WaitingReady" => act.rollback \/ traffic = "dest"

Statuses ==
    /\ Sound(act.phase, act.rollback)
    /\ Sound(cache.phase, cache.rollback)
    /\ Sound(job.status.phase, job.status.rollback)

\* The same of the users.
SwitchSound == traffic = "dest" => AllTold /\ (act.rollback \/ AllFrozen)

\* A row of this pass that is Ready and probed was seen in this pass.
Seen == \A w \in Workloads :
    job.status.rows[w].ready /\ job.status.rows[w].probeOK => w \in job.seen

\* A pass that is to write Succeeded has the evidence for it.
Earned ==
    /\ job.status.listed \ Stateless \subseteq job.seen
    /\ CanSucceed(job.status.listed, job.status.rows, Stateless)
    /\ act.rollback \/ traffic = "dest"

PassSound ==
    /\ pc = "policy" => job.status.phase \notin ClosedPhase
    /\ pc \in {"inventory", "work", "rollback"} => job.status.phase \notin ClosedPhase \cup {""}
    /\ pc = "rollback" => job.status.rollback
    /\ pc = "work" =>
         /\ Workloads \ Claims \subseteq job.status.listed
         /\ Seen
         /\ job.status.phase = "Promoting" /\ job.promoted =>
              \A w \in Postgres \ job.todo : dest[w].told
    /\ pc = "write" /\ job.status.phase = "Succeeded" /\ ~DryRun => Earned

CutInv ==
    /\ TypeOK
    /\ Statuses
    /\ SwitchSound
    /\ PassSound

\* What no step undoes, unless a rollback has been asked for.
Kept ==
    /\ act.rollback => act'.rollback
    /\ AllFrozen => AllFrozen' \/ act.rollback
    /\ \A w \in Postgres : dest[w].told => dest'[w].told
    /\ traffic = "dest" => traffic' = "dest" \/ act.rollback

\* Nothing but Rollback scales source up or takes the users back, and a
\* standby that was told to promote itself stays told.
LEMMA Keeps == CutInv /\ [Next \/ Resync]_vars => Kept
<1> SUFFICES ASSUME CutInv, [Next \/ Resync]_vars PROVE Kept
  OBVIOUS
<1>a. Answers \subseteq BOOLEAN
  BY AnswersTyped
<1>j. job \in Job /\ act \in Object
  BY DEF CutInv, TypeOK
<1>s. source \in [Data -> Source] /\ dest \in [Data -> Dest]
  BY DEF CutInv, TypeOK
<1>1. CASE UNCHANGED <<source, dest, traffic, act>>
  BY <1>1 DEF Kept, AllFrozen
<1>2. CASE PolicyRead
  <2>1. act'.rollback = act.rollback
    BY <1>2, <1>j DEF PolicyRead, Put, store, Object
  <2> QED BY <1>2, <2>1 DEF PolicyRead, world, Kept, AllFrozen
<1>3. CASE VisitFreeze
  <2>1. PICK ok \in BOOLEAN :
          source' = IF ok /\ Next1 \in Scalable
                    THEN [source EXCEPT ![Next1] = Scale(@, 0)] ELSE source
    BY <1>3, <1>a DEF VisitFreeze
  <2>2. ASSUME NEW w \in Scalable, source[w].replicas = 0 PROVE source'[w].replicas = 0
    <3>1. source[w] \in Source /\ 0 \in 0 .. MaxReplicas
      BY <1>s, CutoverClasses, CutoverBounds
    <3>2. Scale(source[w], 0).replicas = 0
      BY <3>1, Scales
    <3> QED BY <1>s, <2>1, <2>2, <3>2
  <2>3. UNCHANGED <<dest, traffic, act>>
    BY <1>3 DEF VisitFreeze, store
  <2> QED BY <2>2, <2>3 DEF Kept, AllFrozen
<1>4. CASE VisitPromotePostgres
  <2>0. PICK up \in Answers, done \in Answers :
          \E through \in BOOLEAN :
            dest' = [dest EXCEPT ![Next1] = Promoted(@, up, up /\ done, through)]
    BY <1>4, Zenon DEF VisitPromotePostgres
  <2>1. PICK through \in BOOLEAN :
          dest' = [dest EXCEPT ![Next1] = Promoted(@, up, up /\ done, through)]
    BY <2>0
  <2>2. ASSUME NEW w \in Postgres, dest[w].told PROVE dest'[w].told
    <3>1. dest[w] \in Dest /\ up \in BOOLEAN /\ (up /\ done) \in BOOLEAN
      BY <1>a, <1>s, <2>0, <2>2, CutoverClasses
    <3>2. Promoted(dest[w], up, up /\ done, through).told
      BY <2>1, <2>2, <3>1, Promotes
    <3> QED BY <1>s, <2>1, <2>2, <3>2
  <2> QED BY <1>4, <2>2 DEF VisitPromotePostgres, store, Kept, AllFrozen
<1>5. CASE VisitPromote \/ VisitRaise
  <2>1. \E u : dest' = [dest EXCEPT ![Next1].up = u]
    BY <1>5, Zenon DEF VisitPromote, VisitRaise
  <2>2. ASSUME NEW w \in Postgres, dest[w].told PROVE dest'[w].told
    BY <1>s, <2>1, <2>2 DEF Dest
  <2> QED BY <1>5, <2>2 DEF VisitPromote, VisitRaise, store, Kept, AllFrozen
<1>6. CASE Switch
  BY <1>6 DEF Switch, store, Kept, AllFrozen
<1>7. CASE Rollback
  <2>1. act.rollback
    BY <1>7 DEF Rollback, CutInv, PassSound, Statuses, Sound
  <2> QED BY <1>7, <2>1 DEF Rollback, store, Kept
<1>8. CASE WriteStatus
  <2>1. act'.rollback = act.rollback
    BY <1>8, <1>j DEF WriteStatus, Put, Job, Object
  <2> QED BY <1>8, <2>1 DEF WriteStatus, world, Kept, AllFrozen
<1>9. CASE AskRollback
  <2>1. act'.rollback
    BY <1>9, <1>j DEF AskRollback, Object
  <2> QED BY <1>9, <2>1 DEF AskRollback, world, Kept, AllFrozen
<1>10. CASE \E w \in Data : PodsFollow(w) \/ SourceWrites(w)
  <2>1. \A w \in Scalable : source'[w].replicas = source[w].replicas
    BY <1>10, <1>s DEF PodsFollow, SourceWrites, Source
  <2> QED BY <1>10, <2>1 DEF PodsFollow, SourceWrites, store, Kept, AllFrozen
<1>11. CASE \E w \in Data : Replication(w)
  <2>1. \A w \in Postgres : dest'[w].told = dest[w].told
    BY <1>11, <1>s DEF Replication, VolSyncCopies, StandbyReplays, ReplayAges, PromotionEnds, Dest
  <2> QED BY <1>11, <2>1
          DEF Replication, VolSyncCopies, StandbyReplays, ReplayAges, PromotionEnds, store,
              Kept, AllFrozen
<1> QED
  BY <1>1, <1>2, <1>3, <1>4, <1>5, <1>6, <1>7, <1>8, <1>9, <1>10, <1>11
  DEF Next, Pass, Surroundings, Ignore, Begin, NotFound, Walk, VisitGraph, VisitLag,
      CheckFrozen, NoHook, Conflict, Abort, Deliver, DeliverNewest, DeliverStatus, Resync,
      store, world, vars

\* What a status claims stays true.
LEMMA StaysSound ==
  ASSUME Kept, NEW phase, NEW rollback, Sound(phase, rollback)
  PROVE  Sound(phase, rollback)'
  BY DEF Kept, Sound, AllTold

\* So it does of the users, who are switched in phase Switching alone.
LEMMA SwitchStays == CutInv /\ [Next \/ Resync]_vars => SwitchSound'
<1> SUFFICES ASSUME CutInv, [Next \/ Resync]_vars PROVE SwitchSound'
  OBVIOUS
<1>k. Kept
  BY Keeps
<1>1. traffic' = "dest" => traffic = "dest" \/ Switch
  BY DEF CutInv, TypeOK, Next, Pass, Surroundings, Ignore, Begin, NotFound, PolicyRead, Walk,
         VisitGraph, VisitFreeze, VisitLag, VisitPromotePostgres, VisitPromote, VisitRaise,
         CheckFrozen, NoHook, Rollback, WriteStatus, Conflict, Abort, AskRollback, Deliver,
         DeliverStatus, PodsFollow, SourceWrites, Replication, VolSyncCopies, StandbyReplays,
         ReplayAges, PromotionEnds, Resync, world, vars
<1>2. ASSUME Switch PROVE AllTold /\ (act.rollback \/ AllFrozen)
  BY <1>2 DEF Switch, LoopDone, CutInv, Statuses, Sound
<1> QED BY <1>k, <1>1, <1>2 DEF CutInv, SwitchSound, Kept, AllTold

\* A step of NextPhase claims what the pass has found out.
LEMMA AdvanceSound ==
  ASSUME NEW j \in Job, Sound(j.status.phase, j.status.rollback),
         ~j.status.rollback,
         j.status.phase = "Quiescing" /\ j.frozen => AllFrozen,
         j.status.phase = "Promoting" /\ j.promoted => AllTold,
         j.status.phase = "Switching" /\ j.switched => traffic = "dest",
         j.status.phase \notin ClosedPhase \cup {""}
  PROVE  Sound(NextPhase(j), FALSE)
<1>1. j.status.phase \in Phase
  BY DEF Job, Object
<1>2. j.status.phase \in {"Pending", "Quiescing", "CatchingUp", "Promoting", "Switching",
                          "WaitingReady"}
  BY <1>1 DEF Phase, ClosedPhase
<1> QED BY <1>2 DEF NextPhase, Sound

\* Succeeded takes a dry run, or rows that are all Ready and probed.
LEMMA AdvanceEarns ==
  ASSUME NEW j \in Job, NextPhase(j) = "Succeeded", ~DryRun,
         j.status.phase \notin ClosedPhase \cup {""}
  PROVE  j.status.phase = "WaitingReady" /\ Attested(j.status)
<1>1. j.status.phase \in Phase
  BY DEF Job, Object
<1>2. j.status.phase \in {"Pending", "Quiescing", "CatchingUp", "Promoting", "Switching",
                          "WaitingReady"}
  BY <1>1 DEF Phase, ClosedPhase
<1> QED BY <1>2 DEF NextPhase

\* The state before the first pass.
LEMMA InitInv == Init => CutInv
<1> SUFFICES ASSUME Init PROVE CutInv
  OBVIOUS
<1>1. TypeOK
  BY TypeInit
<1>2. act.phase = "" /\ cache = act /\ job.status.phase = "" /\ ~job.status.rollback
  BY DEF Init, StoreInit, NewAction, NoJob
<1>3. Statuses
  BY <1>2 DEF Statuses, Sound
<1>4. SwitchSound /\ PassSound
  BY DEF Init, SwitchSound, PassSound
<1> QED BY <1>1, <1>3, <1>4 DEF CutInv

\* A step that leaves the pass alone leaves it sound.
LEMMA PassStays == ASSUME CutInv, Kept, UNCHANGED <<pc, job>> PROVE PassSound'
  BY DEF CutInv, Kept, PassSound, Seen, Earned

\* A visit ends with what it has read of its workload, and nothing of what was
\* read of the others changes.
LEMMA VisitSound ==
  ASSUME CutInv, Kept, pc = "work", pc' = pc, job.todo # {},
         NEW j \in Job, NEW r \in BOOLEAN, NEW p \in BOOLEAN,
         j.status = job.status, j.todo = job.todo, j.seen = job.seen,
         j.promoted => job.promoted,
         j.status.phase = "Promoting" /\ j.promoted /\ Next1 \in Postgres => dest'[Next1].told,
         Noted(job', j, Next1, r, p)
  PROVE  /\ PassSound'
         /\ Sound(job.status.phase, job.status.rollback)'
<1>1. Next1 \in job.todo /\ Next1 \in Workloads
  BY NextTyped DEF CutInv
<1>2. /\ job'.todo = job.todo \ {Next1} /\ job'.promoted = j.promoted
      /\ job'.seen = IF r /\ p THEN job.seen \cup {Next1} ELSE job.seen
      /\ job'.status.phase = job.status.phase /\ job'.status.rollback = job.status.rollback
      /\ job'.status.listed = job.status.listed
      /\ \A v \in Workloads \ {Next1} : job'.status.rows[v] = job.status.rows[v]
      /\ job'.status.rows[Next1].ready = r /\ (r => job'.status.rows[Next1].probeOK = p)
  BY <1>1 DEF Noted
<1>3. Sound(job.status.phase, job.status.rollback)'
  BY <1>2, StaysSound DEF CutInv, Statuses
<1>4. Seen'
  BY <1>1, <1>2 DEF CutInv, PassSound, Seen
<1>5. job'.status.phase = "Promoting" /\ job'.promoted =>
        \A w \in Postgres \ job'.todo : dest'[w].told
  BY <1>2 DEF CutInv, PassSound, Kept
<1> QED BY <1>2, <1>3, <1>4, <1>5 DEF CutInv, PassSound

\* The end of the loop: a rollback is carried out, or the next phase written.
LEMMA ProceedSound ==
  ASSUME CutInv, pc = "work", NEW j \in Job, Proceed(j),
         j.status = job.status, j.seen = job.seen,
         j.status.phase = "WaitingReady" => act'.rollback \/ traffic' = "dest",
         ~j.status.rollback => Sound(NextPhase(j), FALSE)',
         j.status.rollback => Sound(j.status.phase, j.status.rollback)'
  PROVE  /\ PassSound'
         /\ Sound(job.status.phase, job.status.rollback)'
<1>0. job.status.phase \notin ClosedPhase \cup {""} /\ Seen /\ job.status.listed \in SUBSET Workloads
  BY DEF CutInv, PassSound, TypeOK, Job, Object
<1>1. CASE j.status.rollback
  <2>1. pc' = "rollback" /\ job' = j
    BY <1>1, Proceeds
  <2> QED BY <1>0, <1>1, <2>1 DEF PassSound
<1>2. CASE ~j.status.rollback
  <2>1. /\ pc' = "write" /\ job'.status.phase = NextPhase(j) /\ ~job'.status.rollback
        /\ job'.status.listed = job.status.listed /\ job'.status.rows = job.status.rows
        /\ job'.seen = job.seen
    BY <1>2, Proceeds, Advanced
  <2>2. ASSUME NextPhase(j) = "Succeeded", ~DryRun PROVE Earned'
    <3>1. j.status.phase = "WaitingReady" /\ Attested(job.status)
      BY <1>0, <2>2, AdvanceEarns
    <3>2. job.status.listed \ Stateless \subseteq job.seen
      BY <1>0, <3>1 DEF Attested, Seen
    <3>3. CanSucceed(job.status.listed, job.status.rows, Stateless)
      BY <3>1 DEF Attested
    <3> QED BY <2>1, <3>1, <3>2, <3>3 DEF Earned
  <2>3. Sound(job.status.phase, job.status.rollback)'
    BY <1>2, <2>1 DEF Sound
  <2> QED BY <2>1, <2>2, <2>3 DEF PassSound
<1> QED BY <1>1, <1>2

\* A pass begins with the Action as the cache has it, and ends with none.
LEMMA PassEnds == ASSUME CutInv, Kept, pc' = "idle", job' = NoJob
                  PROVE  PassSound' /\ Sound(job.status.phase, job.status.rollback)'
<1>1. job'.status.phase = "" /\ ~job'.status.rollback
  BY DEF NoJob, NewAction
<1> QED BY <1>1 DEF PassSound, Sound

\* CutInv is kept by every step.
LEMMA StepInv == CutInv /\ [Next \/ Resync]_vars => CutInv'
<1> SUFFICES ASSUME CutInv, [Next \/ Resync]_vars PROVE CutInv'
  OBVIOUS
<1>t. TypeOK' /\ SwitchSound'
  BY TypeStep, SwitchStays DEF CutInv
<1>k. Kept
  BY Keeps
<1>a. Answers \subseteq BOOLEAN /\ \A w, up : ReadyAnswers(w, up) \subseteq BOOLEAN
  BY AnswersTyped
<1>j. job \in Job /\ act \in Object /\ cache \in Object
  BY DEF CutInv, TypeOK
<1>s. source \in [Data -> Source] /\ dest \in [Data -> Dest]
  BY DEF CutInv, TypeOK
\* It remains to look at what a step writes of the stored Action, the cached
\* one and the pass.
<1>q. ASSUME /\ Sound(act.phase, act.rollback)' /\ Sound(cache.phase, cache.rollback)'
             /\ PassSound' /\ Sound(job.status.phase, job.status.rollback)'
      PROVE  CutInv'
  BY <1>t, <1>q DEF CutInv, Statuses
<1>u. UNCHANGED <<act, cache>> =>
        Sound(act.phase, act.rollback)' /\ Sound(cache.phase, cache.rollback)'
  BY <1>k, StaysSound DEF CutInv, Statuses
<1>1. CASE UNCHANGED <<act, cache, pc, job>>
  <2>1. Sound(job.status.phase, job.status.rollback)'
    BY <1>1, <1>k, StaysSound DEF CutInv, Statuses
  <2>2. PassSound'
    BY <1>1, <1>k, PassStays
  <2> QED BY <1>1, <1>q, <1>u, <2>1, <2>2
<1>2. CASE Begin
  <2>1. pc' = "policy" /\ job'.status = cache /\ cache.phase \notin ClosedPhase
    BY <1>2 DEF Begin, NoJob
  <2>2. Sound(job.status.phase, job.status.rollback)'
    BY <1>k, <2>1, StaysSound DEF CutInv, Statuses
  <2>3. PassSound'
    BY <2>1 DEF PassSound
  <2> QED BY <1>2, <1>q, <1>u, <2>2, <2>3 DEF Begin, store
<1>3. CASE NotFound
  <2>1. pc' = "write" /\ job'.status.phase = "Failed" /\ job'.status.rollback = job.status.rollback
    BY <1>3, <1>j DEF NotFound, Job, Object
  <2>2. Sound(job.status.phase, job.status.rollback)' /\ PassSound'
    BY <1>k, <2>1 DEF CutInv, Statuses, Sound, PassSound, Kept
  <2> QED BY <1>3, <1>q, <1>u, <2>2 DEF NotFound, store
<1>4. CASE PolicyRead
  <2>1. /\ pc' = "inventory" /\ job'.status.rollback = job.status.rollback
        /\ job'.status.phase = IF job.status.phase = "" THEN "Pending" ELSE job.status.phase
    BY <1>4, <1>j DEF PolicyRead, Job, Object
  <2>2. /\ cache' = cache /\ act'.rollback = act.rollback
        /\ act'.phase = act.phase \/ act'.phase = "Pending"
    BY <1>4, <1>j DEF PolicyRead, Put, store, Object
  <2>3. Sound(act.phase, act.rollback)'
    BY <1>k, <2>2 DEF CutInv, Statuses, Sound, Kept, AllTold
  <2>4. Sound(cache.phase, cache.rollback)'
    BY <1>k, <2>2, StaysSound DEF CutInv, Statuses
  <2>5. Sound(job.status.phase, job.status.rollback)'
    BY <1>k, <2>1 DEF CutInv, Statuses, Sound, Kept, AllTold
  <2>6. PassSound'
    <3>1. job.status.phase \notin ClosedPhase
      BY <1>4 DEF CutInv, PassSound, PolicyRead
    <3>2. job'.status.phase \notin ClosedPhase \cup {""}
      BY <2>1, <3>1 DEF ClosedPhase
    <3> QED BY <2>1, <3>2 DEF PassSound
  <2> QED BY <1>q, <2>3, <2>4, <2>5, <2>6
<1>5. CASE Walk
  <2>1. Inventory \in SUBSET Workloads /\ Workloads \ Claims \subseteq Inventory
    BY DEF Inventory, Data
  <2>2. /\ SeedRows(job.status, Inventory) \in [Workloads -> Row]
        /\ \A w \in Workloads : ~SeedRows(job.status, Inventory)[w].ready
    BY <1>j, <2>1, Seeds DEF Job
  <2>3. /\ pc' = "work" /\ job'.status.rollback = job.status.rollback
        /\ job'.status.phase = job.status.phase /\ job'.status.listed = Inventory
        /\ job'.status.rows = SeedRows(job.status, Inventory)
        /\ job'.todo = Inventory \ Stateless
    BY <1>5, <1>j DEF Walk, Job, Object
  <2>4. Postgres \ job'.todo = {}
    BY <2>1, <2>3 DEF Data
  <2>5. Sound(job.status.phase, job.status.rollback)'
    BY <1>k, <2>3, StaysSound DEF CutInv, Statuses
  <2>6. PassSound'
    BY <1>5, <2>1, <2>2, <2>3, <2>4 DEF CutInv, PassSound, Seen, Walk
  <2> QED BY <1>5, <1>q, <1>u, <2>5, <2>6 DEF Walk, store
<1>v. ASSUME NEW phases, Visiting(phases)
      PROVE  /\ job.todo # {} /\ Next1 \in Workloads /\ job.status.phase \in phases
             /\ pc = "work"
  BY <1>v, NextTyped DEF Visiting, CutInv
<1>6. CASE VisitGraph
  <2>1. PICK ok \in BOOLEAN :
          job' = [Observe(job, Next1, ok, ok) EXCEPT !.status.rows[Next1].probeOK = ok]
    BY <1>6, <1>a DEF VisitGraph
  <2>2. Next1 \in Workloads /\ Next1 \notin Postgres
    BY <1>6, NextTyped DEF VisitGraph, CutInv, Data
  <2>3. Noted(job', job, Next1, ok, ok)
    BY <1>j, <2>1, <2>2, Observed, Attests
  <2>4. PassSound' /\ Sound(job.status.phase, job.status.rollback)'
    BY <1>6, <1>j, <1>k, <2>2, <2>3, VisitSound DEF VisitGraph
  <2> QED BY <1>6, <1>q, <1>u, <2>4 DEF VisitGraph, store
<1>7. CASE VisitFreeze
  <2>1. PICK r \in BOOLEAN, p \in BOOLEAN : job' = Observe(job, Next1, r, p)
    BY <1>7, <1>a DEF VisitFreeze
  <2>2. Noted(job', job, Next1, r, p)
    BY <1>7, <1>j, <1>v, <2>1, Observed DEF VisitFreeze
  <2>3. PassSound' /\ Sound(job.status.phase, job.status.rollback)'
    <3>1. pc = "work" /\ pc' = pc /\ job.todo # {} /\ job.status.phase \in {"Pending", "Quiescing"}
      BY <1>7, <1>v DEF VisitFreeze
    <3> QED BY <1>j, <1>k, <2>2, <3>1, VisitSound
  <2> QED BY <1>7, <1>q, <1>u, <2>3 DEF VisitFreeze, store
<1>8. CASE VisitLag
  <2>1. PICK ok \in BOOLEAN, p \in BOOLEAN, r \in BOOLEAN :
          job' = Observe([job EXCEPT !.lagZero = @ /\ ok /\ LagZero(Next1)], Next1, r, p)
    BY <1>8, <1>a DEF VisitLag
  <2> DEFINE j == [job EXCEPT !.lagZero = @ /\ ok /\ LagZero(Next1)]
  <2>2. j \in Job /\ j.status = job.status /\ j.todo = job.todo /\ j.seen = job.seen
        /\ j.promoted = job.promoted
    BY <1>j DEF Job
  <2> HIDE DEF j
  <2>3. job' = Observe(j, Next1, r, p)
    BY <2>1 DEF j
  <2>4. Noted(job', j, Next1, r, p)
    BY <1>8, <1>v, <2>2, <2>3, Observed DEF VisitLag
  <2>5. PassSound' /\ Sound(job.status.phase, job.status.rollback)'
    BY <1>8, <1>k, <1>v, <2>2, <2>4, VisitSound DEF VisitLag
  <2> QED BY <1>8, <1>q, <1>u, <2>5 DEF VisitLag, store
<1>9. CASE VisitPromotePostgres
  <2>0. PICK up \in Answers, done \in Answers, ok \in Answers, p \in Answers :
          /\ \E through \in BOOLEAN :
               dest' = [dest EXCEPT ![Next1] = Promoted(@, up, up /\ done, through)]
          /\ \E r \in ReadyAnswers(Next1, dest'[Next1].up) :
               job' = Observe([job EXCEPT !.promoted = @ /\ PromoteOK(Next1, up, done, ok)],
                              Next1, r, p)
    BY <1>9, Zenon DEF VisitPromotePostgres
  <2>t. PICK through \in BOOLEAN :
          dest' = [dest EXCEPT ![Next1] = Promoted(@, up, up /\ done, through)]
    BY <2>0
  <2>1. PICK r \in BOOLEAN :
          job' = Observe([job EXCEPT !.promoted = @ /\ PromoteOK(Next1, up, done, ok)],
                         Next1, r, p)
    BY <2>0, <1>a
  <2> DEFINE j == [job EXCEPT !.promoted = @ /\ PromoteOK(Next1, up, done, ok)]
  <2>2. /\ j \in Job /\ j.status = job.status /\ j.todo = job.todo /\ j.seen = job.seen
        /\ j.promoted => job.promoted /\ PromoteOK(Next1, up, done, ok)
    BY <1>j DEF Job
  <2> HIDE DEF j
  <2>3. job' = Observe(j, Next1, r, p) /\ p \in BOOLEAN
    BY <1>a, <2>1 DEF j
  <2>4. Noted(job', j, Next1, r, p)
    BY <1>9, <1>v, <2>2, <2>3, Observed DEF VisitPromotePostgres
  <2>5. ASSUME up, done PROVE dest'[Next1].told
    <3>1. Next1 \in Data /\ dest[Next1] \in Dest
      BY <1>9, <1>s DEF VisitPromotePostgres
    <3>2. Promoted(dest[Next1], up, up /\ done, through).told
      BY <1>a, <2>0, <2>t, <2>5, <3>1, Promotes
    <3> QED BY <1>s, <2>t, <3>1, <3>2
  <2>6. /\ j.promoted => job.promoted
        /\ j.status.phase = "Promoting" /\ j.promoted /\ Next1 \in Postgres => dest'[Next1].told
    BY <2>2, <2>5 DEF PromoteOK
  <2>7. pc = "work" /\ pc' = pc /\ job.todo # {}
    BY <1>9 DEF VisitPromotePostgres, Visiting
  <2>8. PassSound' /\ Sound(job.status.phase, job.status.rollback)'
    BY <1>k, <2>2, <2>3, <2>4, <2>6, <2>7, VisitSound
  <2> QED BY <1>9, <1>q, <1>u, <2>8 DEF VisitPromotePostgres, store
<1>10. CASE VisitPromote
  <2>0. PICK p \in Answers :
          \E r \in ReadyAnswers(Next1, dest'[Next1].up) : job' = Observe(job, Next1, r, p)
    BY <1>10, Zenon DEF VisitPromote
  <2>1. PICK r \in BOOLEAN : job' = Observe(job, Next1, r, p) /\ p \in BOOLEAN
    BY <1>a, <2>0
  <2>2. Noted(job', job, Next1, r, p)
    BY <1>10, <1>j, <1>v, <2>1, Observed DEF VisitPromote
  <2>3. /\ pc = "work" /\ pc' = pc /\ job.todo # {}
        /\ ~(job.status.phase = "Promoting" /\ Next1 \in Postgres)
    BY <1>10 DEF VisitPromote, Visiting
  <2>4. PassSound' /\ Sound(job.status.phase, job.status.rollback)'
    BY <1>j, <1>k, <2>1, <2>2, <2>3, VisitSound
  <2> QED BY <1>10, <1>q, <1>u, <2>4 DEF VisitPromote, store
<1>11. CASE VisitRaise
  <2>0. PICK p \in Answers :
          \E r \in ReadyAnswers(Next1, dest'[Next1].up) : job' = Observe(job, Next1, r, p)
    BY <1>11, Zenon DEF VisitRaise
  <2>1. PICK r \in BOOLEAN : job' = Observe(job, Next1, r, p) /\ p \in BOOLEAN
    BY <1>a, <2>0
  <2>2. Noted(job', job, Next1, r, p)
    BY <1>11, <1>j, <1>v, <2>1, Observed DEF VisitRaise
  <2>3. /\ pc = "work" /\ pc' = pc /\ job.todo # {}
        /\ ~(job.status.phase = "Promoting" /\ Next1 \in Postgres)
    BY <1>11 DEF VisitRaise, Visiting
  <2>4. PassSound' /\ Sound(job.status.phase, job.status.rollback)'
    BY <1>j, <1>k, <2>1, <2>2, <2>3, VisitSound
  <2> QED BY <1>11, <1>q, <1>u, <2>4 DEF VisitRaise, store
<1>12. CASE CheckFrozen
  <2>1. PICK ok \in BOOLEAN : Proceed([job EXCEPT !.frozen = Frozen(ok)])
    BY <1>12, <1>a DEF CheckFrozen
  <2>2. PICK j \in Job : /\ j = [job EXCEPT !.frozen = Frozen(ok)] /\ j.status = job.status
                         /\ j.seen = job.seen /\ j.frozen = Frozen(ok)
    <3> DEFINE k == [job EXCEPT !.frozen = Frozen(ok)]
    <3>1. Frozen(ok) \in BOOLEAN
      BY DEF Frozen
    <3>2. k \in Job /\ k.status = job.status /\ k.seen = job.seen /\ k.frozen = Frozen(ok)
      BY <1>j, <3>1 DEF Job
    <3> QED BY <3>2, Zenon
  <2>3. Proceed(j) /\ pc = "work" /\ j.status.phase = "Quiescing"
    BY <1>12, <2>1, <2>2 DEF CheckFrozen, LoopDone
  <2>4. Frozen(ok) => AllFrozen
    <3>1. Scalable \subseteq job.status.listed \cap Data
      BY <2>3 DEF CutInv, PassSound, Data
    <3> QED BY <3>1 DEF Frozen, ScaledToZero, AllFrozen
  <2>5. Sound(j.status.phase, j.status.rollback)
    BY <2>2 DEF CutInv, Statuses
  <2>6. ~j.status.rollback => Sound(NextPhase(j), FALSE)
    BY <2>2, <2>3, <2>4, <2>5, AdvanceSound DEF ClosedPhase
  <2>7. /\ ~j.status.rollback => Sound(NextPhase(j), FALSE)'
        /\ j.status.rollback => Sound(j.status.phase, j.status.rollback)'
    BY <1>12, <2>5, <2>6 DEF CheckFrozen, store, world, Sound, AllFrozen, AllTold
  <2>8. PassSound' /\ Sound(job.status.phase, job.status.rollback)'
    BY <2>2, <2>3, <2>7, ProceedSound
  <2> QED BY <1>12, <1>q, <1>u, <2>8 DEF CheckFrozen, store
<1>13. CASE Switch
  <2>1. PICK done \in BOOLEAN, ok \in BOOLEAN :
          /\ traffic' = IF done THEN "dest" ELSE traffic
          /\ Proceed([job EXCEPT !.switched = done /\ ok])
    BY <1>13, <1>a DEF Switch
  <2>2. PICK j \in Job : /\ j = [job EXCEPT !.switched = done /\ ok] /\ j.status = job.status
                         /\ j.seen = job.seen /\ (j.switched => done)
    <3> DEFINE k == [job EXCEPT !.switched = done /\ ok]
    <3>1. k \in Job /\ k.status = job.status /\ k.seen = job.seen /\ (k.switched => done)
      BY <1>j DEF Job
    <3> QED BY <3>1, Zenon
  <2>3. Proceed(j) /\ pc = "work" /\ j.status.phase = "Switching"
    BY <1>13, <2>1, <2>2 DEF Switch, LoopDone
  <2>4. Sound(j.status.phase, j.status.rollback)'
    BY <1>k, <2>2, StaysSound DEF CutInv, Statuses
  <2>5. ~j.status.rollback => Sound(NextPhase(j), FALSE)'
    BY <2>1, <2>2, <2>3, <2>4 DEF NextPhase, Sound
  <2>6. PassSound' /\ Sound(job.status.phase, job.status.rollback)'
    BY <2>2, <2>3, <2>4, <2>5, ProceedSound
  <2> QED BY <1>13, <1>q, <1>u, <2>6 DEF Switch, store
<1>14. CASE NoHook
  <2>1. /\ Proceed(job) /\ pc = "work" /\ job.todo = {}
        /\ job.status.phase \notin ClosedPhase \cup {"", "Quiescing", "Switching"}
    BY <1>14 DEF NoHook, LoopDone, CutInv, PassSound
  <2>2. job.status.phase = "Promoting" /\ job.promoted => AllTold
    BY <2>1 DEF CutInv, PassSound, AllTold
  <2>3. Sound(job.status.phase, job.status.rollback)
    BY DEF CutInv, Statuses
  <2>4. ~job.status.rollback => Sound(NextPhase(job), FALSE)
    BY <1>j, <2>1, <2>2, <2>3, AdvanceSound
  <2>5. /\ ~job.status.rollback => Sound(NextPhase(job), FALSE)
        /\ UNCHANGED <<act, source, dest, traffic>>
    BY <1>14, <2>4 DEF NoHook, store, world
  <2>6. PICK j \in Job : j = job
    BY <1>j
  <2>7. /\ ~j.status.rollback => Sound(NextPhase(j), FALSE)'
        /\ j.status.rollback => Sound(j.status.phase, j.status.rollback)'
        /\ j.status.phase = "WaitingReady" => act'.rollback \/ traffic' = "dest"
    BY <2>3, <2>5, <2>6 DEF Sound, AllFrozen, AllTold
  <2>8. PassSound' /\ Sound(job.status.phase, job.status.rollback)'
    BY <2>1, <2>6, <2>7, ProceedSound
  <2> QED BY <1>14, <1>q, <1>u, <2>8 DEF NoHook, store
<1>15. CASE Rollback
  <2>1. job.status.rollback
    BY <1>15 DEF Rollback, CutInv, PassSound
  <2>2. pc' = "write" /\ job'.status.phase = "RolledBack" /\ job'.status.rollback
    <3>1. NextPhase(job) = "RolledBack"
      BY <2>1 DEF NextPhase
    <3> QED BY <1>15, <1>j, <2>1, <3>1, Advanced DEF Rollback
  <2>3. PassSound' /\ Sound(job.status.phase, job.status.rollback)'
    BY <1>k, <2>1, <2>2 DEF CutInv, Statuses, PassSound, Sound, Kept
  <2> QED BY <1>15, <1>q, <1>u, <2>3 DEF Rollback, store
<1>16. CASE WriteStatus
  <2>1. /\ act'.phase = job.status.phase /\ act'.rollback = act.rollback
        /\ cache' = cache /\ pc' = "idle" /\ job' = NoJob
    BY <1>16, <1>j DEF WriteStatus, Put, Job, Object
  <2>2. Sound(act.phase, act.rollback)'
    BY <1>k, <2>1 DEF CutInv, Statuses, Sound, Kept, AllTold
  <2>3. Sound(cache.phase, cache.rollback)'
    BY <1>k, <2>1, StaysSound DEF CutInv, Statuses
  <2> QED BY <1>k, <1>q, <2>1, <2>2, <2>3, PassEnds
<1>17. CASE Conflict \/ Abort
  <2>1. UNCHANGED <<act, cache>> /\ pc' = "idle" /\ job' = NoJob
    BY <1>17 DEF Conflict, Abort, Drop, store
  <2> QED BY <1>k, <1>q, <1>u, <2>1, PassEnds
<1>18. CASE AskRollback
  <2>1. act'.phase = act.phase /\ act'.rollback /\ UNCHANGED <<cache, pc, job>>
    BY <1>18, <1>j DEF AskRollback, Object
  <2>2. Sound(act.phase, act.rollback)'
    BY <1>k, <2>1 DEF CutInv, Statuses, Sound, Kept, AllTold
  <2>3. Sound(cache.phase, cache.rollback)' /\ Sound(job.status.phase, job.status.rollback)'
    BY <1>k, <2>1, StaysSound DEF CutInv, Statuses
  <2> QED BY <1>k, <1>q, <2>1, <2>2, <2>3, PassStays
<1>19. CASE Deliver \/ DeliverStatus
  <2>1. /\ UNCHANGED <<act, pc, job>> /\ cache'.phase = act.phase
        /\ cache'.rollback => act.rollback
    BY <1>19, <1>j DEF Deliver, DeliverNewest, DeliverStatus, Object
  <2>2. Sound(act.phase, act.rollback)' /\ Sound(job.status.phase, job.status.rollback)'
    BY <1>k, <2>1, StaysSound DEF CutInv, Statuses
  <2>3. Sound(cache.phase, cache.rollback)'
    BY <2>1, <2>2 DEF Sound
  <2> QED BY <1>k, <1>q, <2>1, <2>2, <2>3, PassStays
<1> QED
  BY <1>1, <1>2, <1>3, <1>4, <1>5, <1>6, <1>7, <1>8, <1>9, <1>10, <1>11, <1>12, <1>13,
     <1>14, <1>15, <1>16, <1>17, <1>18, <1>19
  DEF Next, Pass, Surroundings, Ignore, PodsFollow, SourceWrites, Replication,
      VolSyncCopies, StandbyReplays, ReplayAges, PromotionEnds, Resync, store, world, vars

-----------------------------------------------------------------------------
(* Theorems *)

\* Every reachable state satisfies CutInv.
THEOREM Invariance == Spec => []CutInv
  BY InitInv, StepInv, PTL DEF Spec

\* Every variable keeps its type, whatever the tenant holds and however passes,
\* failures, deliveries and the clusters interleave.
THEOREM TypeCorrect == Spec => []TypeOK
<1>1. CutInv => TypeOK
  BY DEF CutInv
<1> QED BY <1>1, Invariance, PTL

\* While users are on dest and no rollback is asked for, every StatefulSet and
\* Deployment with data is scaled to zero on source, through every retry, crash
\* and late read of runCutover.
THEOREM FrozenWhenSwitched == Spec => []SwitchedMeansFrozen
<1>1. CutInv => SwitchedMeansFrozen
  BY DEF CutInv, SwitchSound, AllFrozen, SwitchedMeansFrozen, ScaledToZero
<1> QED BY <1>1, Invariance, PTL

\* Users are never on a dest with a Postgres that nobody has told to promote
\* itself, although runCutover drops the errors of Scale and asks again for a
\* promotion that may have taken effect.  Whether pg_promote was through with it
\* when the users came is open: Promote does not read its answer.
THEOREM ToldWhenSwitched == Spec => []SwitchedMeansTold
<1>1. CutInv => SwitchedMeansTold
  BY DEF CutInv, SwitchSound, AllTold, SwitchedMeansTold
<1> QED BY <1>1, Invariance, PTL

\* Only writeStatus makes an Action Succeeded, and it has the evidence of its
\* own pass: no Ready or probe of an earlier pass is left in the rows.
LEMMA SucceedsByEvidence ==
  ASSUME CutInv, [Next \/ Resync]_vars,
         act'.phase = "Succeeded", act.phase # "Succeeded", ~DryRun
  PROVE  /\ act'.listed \ Stateless \subseteq job.seen
         /\ CanSucceed(act'.listed, act'.rows, Stateless)
         /\ act.rollback \/ traffic = "dest"
<1>j. job \in Job /\ act \in Object
  BY DEF CutInv, TypeOK
<1>1. CASE UNCHANGED act
  BY <1>1
<1>2. CASE PolicyRead
  <2>1. act'.phase = act.phase \/ act'.phase = "Pending"
    BY <1>2, <1>j DEF PolicyRead, Put, store, Object
  <2> QED BY <2>1
<1>3. CASE AskRollback
  BY <1>3, <1>j DEF AskRollback, Object
<1>4. CASE WriteStatus
  <2>1. /\ pc = "write" /\ act'.phase = job.status.phase
        /\ act'.listed = job.status.listed /\ act'.rows = job.status.rows
    BY <1>4, <1>j DEF WriteStatus, Put, Job, Object
  <2> QED BY <2>1 DEF CutInv, PassSound, Earned
<1> QED
  BY <1>1, <1>2, <1>3, <1>4
  DEF Next, Pass, Surroundings, Ignore, Begin, NotFound, Walk, VisitGraph, VisitFreeze,
      VisitLag, VisitPromotePostgres, VisitPromote, VisitRaise, CheckFrozen, Switch, NoHook,
      Rollback, Conflict, Abort, Deliver, DeliverNewest, DeliverStatus, PodsFollow,
      SourceWrites, Replication, VolSyncCopies, StandbyReplays, ReplayAges, PromotionEnds, Resync, store, vars

\* A Cutover that is not a dry run becomes Succeeded only in a pass that read
\* every workload with state Ready and probed it, with users on dest unless a
\* rollback took them back.
THEOREM EvidenceBehindSuccess == Spec => CutoverEvidence
<1>1. CutInv /\ [Next \/ Resync]_vars =>
        [act'.phase = "Succeeded" /\ act.phase # "Succeeded" /\ ~DryRun =>
           /\ act'.listed \ Stateless \subseteq job.seen
           /\ CanSucceed(act'.listed, act'.rows, Stateless)
           /\ act.rollback \/ traffic = "dest"]_vars
  BY SucceedsByEvidence
<1> QED BY <1>1, Invariance, PTL DEF Spec, CutoverEvidence

\* The annotation holds the count from before the cutover, or there is none yet
\* and the workload still has that count.
Annotated ==
    \A w \in Scalable : \/ source[w].mark = Replicas[w]
                        \/ source[w].mark = NoMark /\ source[w].replicas = Replicas[w]

\* Scaling an annotated workload, once more or for the first time, leaves it
\* annotated.
LEMMA AnnotatedStays == TypeOK /\ Annotated /\ [Next \/ Resync]_vars => Annotated'
<1> SUFFICES ASSUME TypeOK, Annotated, [Next \/ Resync]_vars, NEW w \in Scalable
             PROVE  \/ source'[w].mark = Replicas[w]
                    \/ source'[w].mark = NoMark /\ source'[w].replicas = Replicas[w]
  BY DEF Annotated
<1>s. source \in [Data -> Source] /\ w \in Data /\ source[w] \in Source
  BY DEF TypeOK
<1>w. source[w].mark = Replicas[w] \/ (source[w].mark = NoMark /\ source[w].replicas = Replicas[w])
  BY DEF Annotated
<1>1. ASSUME NEW n \in 0 .. MaxReplicas, source'[w] = Scale(source[w], n)
      PROVE  source'[w].mark = Replicas[w]
  <2>1. Scale(source[w], n).mark = IF source[w].mark = NoMark THEN source[w].replicas
                                                                ELSE source[w].mark
    BY <1>s, Scales
  <2>2. Replicas[w] # NoMark
    BY DEF NoMark
  <2> QED BY <1>1, <1>w, <2>1, <2>2
<1>2. CASE source'[w] = source[w]
  BY <1>2, <1>w
<1>3. CASE VisitFreeze
  <2>1. source'[w] = source[w] \/ source'[w] = Scale(source[w], 0)
    BY <1>3, <1>s DEF VisitFreeze
  <2> QED BY <1>1, <1>2, <2>1
<1>4. CASE Rollback
  <2>1. source'[w] = source[w] \/ source'[w] \in Unscalings(w)
    BY <1>4, <1>s DEF Rollback
  <2>2. source'[w] = source[w] \/ \E n \in 0 .. MaxReplicas : source'[w] = Scale(source[w], n)
    BY <2>1, Unscales
  <2> QED BY <1>1, <1>2, <2>2
<1>5. CASE \E v \in Data : PodsFollow(v) \/ SourceWrites(v)
  <2>1. source'[w].mark = source[w].mark /\ source'[w].replicas = source[w].replicas
    BY <1>5, <1>s DEF PodsFollow, SourceWrites, Source
  <2> QED BY <1>w, <2>1
<1> QED
  BY <1>2, <1>3, <1>4, <1>5
  DEF Next, Pass, Surroundings, Ignore, Begin, NotFound, PolicyRead, Walk, VisitGraph,
      VisitLag, VisitPromotePostgres, VisitPromote, VisitRaise, CheckFrozen, Switch, NoHook,
      WriteStatus, Conflict, Abort, AskRollback, Deliver, DeliverStatus, Replication,
      VolSyncCopies, StandbyReplays, ReplayAges, PromotionEnds, Resync, world, vars

\* When the source carries no annotation of an earlier cutover, or that of the
\* same count, the count from before the cutover is never lost: workloads.Scale
\* may freeze, unfreeze and retry in any order.
THEOREM OriginalKept ==
  ASSUME \A w \in Scalable : Mark[w] \in {NoMark, Replicas[w]}
  PROVE  Spec => []OriginalRemembered
<1>1. Init => Annotated
  BY DEF Init, Annotated
<1>2. TypeOK /\ Annotated /\ [Next \/ Resync]_vars => Annotated'
  BY AnnotatedStays
<1>3. Annotated => OriginalRemembered
  BY DEF Annotated, OriginalRemembered
<1> QED BY <1>1, <1>2, <1>3, TypeCorrect, PTL DEF Spec

-----------------------------------------------------------------------------
(* The abstract handover *)

IsFrozen == \A w \in Scalable : ScaledToZero(w)
Told == {w \in Postgres : dest[w].told}
Primaries == {w \in Postgres : dest[w].primary}
Done == act.phase = "Succeeded" /\ ~DryRun

\* A step that changes nothing the handover speaks of is a stutter of it.
LEMMA HandoverStutters ==
  ASSUME IsFrozen' <=> IsFrozen, UNCHANGED <<Told, Primaries>>, traffic' = traffic,
         act'.rollback = act.rollback, Done' <=> Done
  PROVE  [Abstract!Next]_(Abstract!vars)
  BY DEF Abstract!vars, IsFrozen, Told, Primaries, Done

\* One that freezes the source.
LEMMA HandoverFreezes ==
  ASSUME ~IsFrozen, IsFrozen', UNCHANGED <<Told, Primaries>>, traffic' = traffic,
         act'.rollback = act.rollback, Done' <=> Done
  PROVE  [Abstract!Next]_(Abstract!vars)
<1>1. Abstract!Freeze
  BY DEF Abstract!Freeze, IsFrozen, Told, Primaries, Done
<1> QED BY <1>1 DEF Abstract!Next

\* One that tells a standby of a frozen source.
LEMMA HandoverTells ==
  ASSUME IsFrozen \/ act.rollback, NEW s \in Postgres, Told' = Told \cup {s},
         Primaries' \in {Primaries, Primaries \cup {s}}, IsFrozen' <=> IsFrozen,
         traffic' = traffic, act'.rollback = act.rollback, Done' <=> Done
  PROVE  [Abstract!Next]_(Abstract!vars)
<1>1. Abstract!Tell
  BY DEF Abstract!Tell, IsFrozen, Told, Primaries, Done
<1> QED BY <1>1 DEF Abstract!Next

\* One with which a standby becomes a primary.
LEMMA HandoverBecomes ==
  ASSUME NEW s \in Told, s \notin Primaries, Primaries' = Primaries \cup {s}, Told' = Told,
         IsFrozen' <=> IsFrozen, traffic' = traffic, act'.rollback = act.rollback,
         Done' <=> Done
  PROVE  [Abstract!Next]_(Abstract!vars)
<1>1. Abstract!Become
  BY DEF Abstract!Become, IsFrozen, Told, Primaries, Done
<1> QED BY <1>1 DEF Abstract!Next

\* One that sends the users to dest.
LEMMA HandoverSwitches ==
  ASSUME IsFrozen \/ act.rollback, Told = Postgres, traffic = "source", traffic' = "dest",
         IsFrozen' <=> IsFrozen, UNCHANGED <<Told, Primaries>>,
         act'.rollback = act.rollback, Done' <=> Done
  PROVE  [Abstract!Next]_(Abstract!vars)
<1>1. Abstract!Switch
  BY DEF Abstract!Switch, IsFrozen, Told, Primaries, Done
<1> QED BY <1>1 DEF Abstract!Next

\* One that reports the handover as done, with the users on dest.
LEMMA HandoverFinishes ==
  ASSUME traffic = "dest" \/ act.rollback, ~Done, Done',
         IsFrozen' <=> IsFrozen, UNCHANGED <<Told, Primaries>>, traffic' = traffic,
         act'.rollback = act.rollback
  PROVE  [Abstract!Next]_(Abstract!vars)
<1>1. Abstract!Finish
  BY DEF Abstract!Finish, IsFrozen, Told, Primaries, Done
<1> QED BY <1>1 DEF Abstract!Next

\* One that writes over such a report.
LEMMA HandoverReopens ==
  ASSUME Done, ~Done', IsFrozen' <=> IsFrozen, UNCHANGED <<Told, Primaries>>, traffic' = traffic,
         act'.rollback = act.rollback
  PROVE  [Abstract!Next]_(Abstract!vars)
<1>1. Abstract!Reopen
  BY DEF Abstract!Reopen, IsFrozen, Told, Primaries, Done
<1> QED BY <1>1 DEF Abstract!Next

\* The user's edit of spec.rollback.
LEMMA HandoverAsked ==
  ASSUME ~act.rollback, act'.rollback = TRUE, IsFrozen' <=> IsFrozen, UNCHANGED <<Told, Primaries>>,
         traffic' = traffic, Done' <=> Done
  PROVE  [Abstract!Next]_(Abstract!vars)
<1>1. Abstract!Ask
  BY DEF Abstract!Ask, IsFrozen, Told, Primaries, Done
<1> QED BY <1>1 DEF Abstract!Next

\* A step of a rollback, which may thaw the source and take the users back.
LEMMA HandoverReturns ==
  ASSUME act.rollback, act'.rollback = act.rollback, traffic' \in {traffic, "source"},
         UNCHANGED <<Told, Primaries>>, Done' <=> Done
  PROVE  [Abstract!Next]_(Abstract!vars)
<1>1. IsFrozen' \in BOOLEAN
  BY DEF IsFrozen
<1>2. Abstract!Return
  BY <1>1 DEF Abstract!Return, IsFrozen, Told, Primaries, Done
<1> QED BY <1>2 DEF Abstract!Next

\* The state before the first pass: nothing promoted, users on source.
LEMMA HandoverInit == Init => Abstract!Init
<1> SUFFICES ASSUME Init PROVE Abstract!Init
  OBVIOUS
<1>1. act.phase = "" /\ act.rollback \in BOOLEAN /\ traffic = "source"
  BY DEF Init, StoreInit, NewAction
<1>2. \A w \in Postgres : ~dest[w].told /\ ~dest[w].primary
  BY DEF Init
<1> QED BY <1>1, <1>2 DEF Abstract!Init

\* Every step of a pass and of the surroundings is a step of the handover or a
\* stutter of it, by what CutInv says of the phase the pass is in.
LEMMA HandoverStep == CutInv /\ [Next \/ Resync]_vars => [Abstract!Next]_(Abstract!vars)
<1> SUFFICES ASSUME CutInv, [Next \/ Resync]_vars PROVE [Abstract!Next]_(Abstract!vars)
  OBVIOUS
<1>a. Answers \subseteq BOOLEAN
  BY AnswersTyped
<1>j. job \in Job /\ act \in Object /\ traffic \in {"source", "dest"}
  BY DEF CutInv, TypeOK
<1>s. source \in [Data -> Source] /\ dest \in [Data -> Dest] /\ Postgres \subseteq Data
  BY CutoverClasses DEF CutInv, TypeOK
<1>f. AllFrozen <=> IsFrozen
  BY DEF AllFrozen, IsFrozen, ScaledToZero
<1>g. AllFrozen' <=> IsFrozen'
  BY DEF AllFrozen, IsFrozen, ScaledToZero
<1>k. Kept
  BY Keeps
<1>u. UNCHANGED source => (IsFrozen' <=> IsFrozen)
  BY DEF IsFrozen, ScaledToZero
<1>v. UNCHANGED dest => UNCHANGED <<Told, Primaries>>
  BY DEF Told, Primaries
<1>w. UNCHANGED act => act'.rollback = act.rollback /\ (Done' <=> Done)
  BY DEF Done
<1>1. CASE UNCHANGED <<source, dest, traffic, act>>
  BY <1>1, <1>u, <1>v, <1>w, HandoverStutters
<1>2. CASE UNCHANGED <<dest, traffic, act>>
  <2>1. CASE IsFrozen' <=> IsFrozen
    BY <1>2, <1>v, <1>w, <2>1, HandoverStutters
  <2>2. CASE ~IsFrozen /\ IsFrozen'
    BY <1>2, <1>v, <1>w, <2>2, HandoverFreezes
  <2>3. CASE IsFrozen /\ ~IsFrozen'
    <3>1. act.rollback
      BY <1>f, <1>g, <1>k, <2>3 DEF Kept
    <3> QED BY <1>2, <1>v, <1>w, <3>1, HandoverReturns
  <2> QED BY <2>1, <2>2, <2>3
<1>3. CASE VisitPromotePostgres
  <2>0. PICK up \in Answers, done \in Answers :
          \E through \in BOOLEAN :
            dest' = [dest EXCEPT ![Next1] = Promoted(@, up, up /\ done, through)]
    BY <1>3, Zenon DEF VisitPromotePostgres
  <2>1. PICK through \in BOOLEAN :
          dest' = [dest EXCEPT ![Next1] = Promoted(@, up, up /\ done, through)]
    BY <2>0
  <2>2. Next1 \in Postgres /\ job.status.phase = "Promoting" /\ UNCHANGED <<source, traffic, act>>
    BY <1>3 DEF VisitPromotePostgres, Visiting, store
  <2>3. IsFrozen \/ act.rollback
    BY <1>f, <2>2 DEF CutInv, Statuses, Sound
  <2>4. \A w \in Postgres \ {Next1} : dest'[w] = dest[w]
    BY <1>s, <2>1
  <2>5. dest'[Next1] = Promoted(dest[Next1], up, up /\ done, through) /\ dest[Next1] \in Dest
    BY <1>s, <2>1, <2>2
  <2>6. /\ dest'[Next1].told <=> dest[Next1].told \/ (up /\ done)
        /\ dest'[Next1].primary <=> dest[Next1].primary \/ ((up /\ done) /\ through)
    <3>1. up \in BOOLEAN /\ (up /\ done) \in BOOLEAN
      BY <1>a, <2>0
    <3> DEFINE d == dest[Next1]
               e == Promoted(d, up, up /\ done, through)
    <3>2. (e.told <=> d.told \/ (up /\ done)) /\ (e.primary <=> d.primary \/ ((up /\ done) /\ through))
      BY <2>1, <2>5, <3>1, Promotes
    <3> QED BY <2>5, <3>2
  <2>7. CASE ~(up /\ done)
    <3>1. UNCHANGED <<Told, Primaries>>
      BY <2>4, <2>6, <2>7 DEF Told, Primaries
    <3> QED BY <1>u, <1>w, <2>2, <3>1, HandoverStutters
  <2>8. CASE up /\ done
    <3>1. Told' = Told \cup {Next1}
      BY <2>2, <2>4, <2>6, <2>8 DEF Told
    <3>2. Primaries' \in {Primaries, Primaries \cup {Next1}}
      <4>1. CASE dest'[Next1].primary
        BY <2>2, <2>4, <4>1 DEF Primaries
      <4>2. CASE ~dest'[Next1].primary
        BY <2>2, <2>4, <2>6, <4>2 DEF Primaries
      <4> QED BY <4>1, <4>2
    <3> QED BY <1>u, <1>w, <2>2, <2>3, <3>1, <3>2, HandoverTells
  <2> QED BY <2>7, <2>8
<1>4. CASE VisitPromote \/ VisitRaise
  <2>1. \E u : dest' = [dest EXCEPT ![Next1].up = u]
    BY <1>4, Zenon DEF VisitPromote, VisitRaise
  <2>2. \A w \in Postgres : dest'[w].told = dest[w].told /\ dest'[w].primary = dest[w].primary
    BY <1>s, <2>1 DEF Dest
  <2>3. UNCHANGED <<Told, Primaries>>
    BY <2>2 DEF Told, Primaries
  <2>4. UNCHANGED <<source, traffic, act>>
    BY <1>4 DEF VisitPromote, VisitRaise, store
  <2> QED BY <1>u, <1>w, <2>3, <2>4, HandoverStutters
<1>5. CASE \E w \in Data : Replication(w)
  <2>1. PICK w \in Data : Replication(w)
    BY <1>5
  <2>2. UNCHANGED <<source, traffic, act>>
    BY <2>1 DEF Replication, VolSyncCopies, StandbyReplays, ReplayAges, PromotionEnds, store
  <2>3. CASE VolSyncCopies(w) \/ StandbyReplays(w) \/ ReplayAges(w)
    <3>1. \A x \in Postgres : dest'[x].told = dest[x].told /\ dest'[x].primary = dest[x].primary
      BY <1>s, <2>3 DEF VolSyncCopies, StandbyReplays, ReplayAges, Dest
    <3>2. UNCHANGED <<Told, Primaries>>
      BY <3>1 DEF Told, Primaries
    <3> QED BY <1>u, <1>w, <2>2, <3>2, HandoverStutters
  <2>4. CASE PromotionEnds(w)
    <3>1. /\ \A x \in Postgres : dest'[x].told = dest[x].told
          /\ \A x \in Postgres \ {w} : dest'[x].primary = dest[x].primary
          /\ dest'[w].primary /\ ~dest[w].primary /\ dest[w].told
      BY <1>s, <2>1, <2>4 DEF PromotionEnds, Dest
    <3>2. Told' = Told
      BY <3>1 DEF Told
    <3>3. CASE w \in Postgres
      <4>1. w \in Told /\ w \notin Primaries /\ Primaries' = Primaries \cup {w}
        BY <3>1, <3>3 DEF Told, Primaries
      <4> QED BY <1>u, <1>w, <2>2, <3>2, <4>1, HandoverBecomes
    <3>4. CASE w \notin Postgres
      <4>1. Primaries' = Primaries
        BY <3>1, <3>4 DEF Primaries
      <4> QED BY <1>u, <1>w, <2>2, <3>2, <4>1, HandoverStutters
    <3> QED BY <3>3, <3>4
  <2> QED BY <2>1, <2>3, <2>4 DEF Replication
<1>6. CASE Switch
  <2>1. /\ job.status.phase = "Switching" /\ UNCHANGED <<source, dest, act>>
        /\ traffic' \in {traffic, "dest"}
    BY <1>6 DEF Switch, LoopDone, store
  <2>2. (IsFrozen \/ act.rollback) /\ AllTold
    BY <1>f, <2>1 DEF CutInv, Statuses, Sound
  <2>3. Told = Postgres
    BY <2>2 DEF Told, AllTold
  <2>4. CASE traffic' = traffic
    BY <1>u, <1>v, <1>w, <2>1, <2>4, HandoverStutters
  <2>5. CASE traffic = "source" /\ traffic' = "dest"
    BY <1>u, <1>v, <1>w, <2>1, <2>2, <2>3, <2>5, HandoverSwitches
  <2> QED BY <1>j, <2>1, <2>4, <2>5
<1>7. CASE Rollback
  <2>1. act.rollback
    BY <1>7 DEF Rollback, CutInv, PassSound, Statuses, Sound
  <2>2. UNCHANGED <<dest, act>> /\ traffic' \in {traffic, "source"}
    BY <1>7 DEF Rollback, store
  <2> QED BY <1>v, <1>w, <2>1, <2>2, HandoverReturns
<1>8. CASE PolicyRead \/ WriteStatus
  <2>1. act'.rollback = act.rollback
    <3>1. CASE PolicyRead
      <4>1. \/ act' = act
            \/ act' = [act EXCEPT !.phase = "Pending", !.listed = job.status.listed,
                                  !.rows = job.status.rows]
        BY <3>1 DEF PolicyRead, Put, store
      <4> QED BY <4>1, <1>j DEF Object
    <3>2. CASE WriteStatus
      BY <3>2, <1>j DEF WriteStatus, Put, store, Job, Object
    <3> QED BY <1>8, <3>1, <3>2
  <2>2. UNCHANGED <<source, dest, traffic>>
    BY <1>8 DEF PolicyRead, WriteStatus, world
  <2>3. CASE Done' <=> Done
    BY <1>u, <1>v, <2>1, <2>2, <2>3, HandoverStutters
  <2>4. CASE Done /\ ~Done'
    BY <1>u, <1>v, <2>1, <2>2, <2>4, HandoverReopens
  <2>5. CASE ~Done /\ Done'
    <3>1. act'.phase = "Succeeded" /\ act.phase # "Succeeded" /\ ~DryRun
      BY <2>5 DEF Done
    <3>2. act.rollback \/ traffic = "dest"
      BY <3>1, SucceedsByEvidence
    <3> QED BY <1>u, <1>v, <2>1, <2>2, <2>5, <3>2, HandoverFinishes
  <2> QED BY <2>3, <2>4, <2>5
<1>9. CASE AskRollback
  <2>1. ~act.rollback /\ act'.rollback = TRUE /\ act'.phase = act.phase
    BY <1>9, <1>j DEF AskRollback, Object
  <2>2. UNCHANGED <<source, dest, traffic>>
    BY <1>9 DEF AskRollback, world
  <2>3. Done' <=> Done
    BY <2>1 DEF Done
  <2> QED BY <1>u, <1>v, <2>1, <2>2, <2>3, HandoverAsked
<1> QED
  BY <1>1, <1>2, <1>3, <1>4, <1>5, <1>6, <1>7, <1>8, <1>9
  DEF Next, Pass, Surroundings, Ignore, Begin, NotFound, Walk, VisitGraph, VisitFreeze, VisitLag,
      CheckFrozen, NoHook, Conflict, Abort, Deliver, DeliverNewest, DeliverStatus, PodsFollow,
      SourceWrites, Resync, store, world, vars

\* The passes of runCutover implement the handover for every tenant: freeze, the
\* call for promotion, switch and report come in this order, and nothing is taken back
\* before the user asks, through every stale read, retry, crash and late edit.
THEOREM HandsOver == Spec => HandoverSpec
  BY HandoverInit, HandoverStep, Invariance, PTL DEF Spec, HandoverSpec, Abstract!Spec
=============================================================================
