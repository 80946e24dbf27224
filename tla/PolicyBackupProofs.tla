------------------------ MODULE PolicyBackupProofs -------------------------
(***************************************************************************)
(* Proofs about PolicyBackup: what Policy.status calls useful can be       *)
(* restored, because it could when the Backup pass captured it and nothing *)
(* is taken out of the store or unsynced afterwards.                       *)
(***************************************************************************)
EXTENDS PolicyBackup, TLAPS

\* The types of the three records.
Status == [phase : Phase, healthy : BOOLEAN, inv : SUBSET Workloads, arts : [Workloads -> Artifact]]
Pass == [at : {"idle", "walk", "write", "writeFailure", "restore", "backup", "replicate"},
         inv : SUBSET Workloads, arts : [Workloads -> Artifact],
         healthy : BOOLEAN, phase : Phase, flag : BOOLEAN]
Run == [at : {"idle", "work", "finish"}, inv : SUBSET Workloads,
        todo : SUBSET Workloads, arts : [Workloads -> Artifact]]

\* What a set of artifacts promises is there.
Backed(arts) == \A w \in Workloads \ Measured : arts[w].useful => Restorable(w, arts[w])

\* The same for what a Backup pass has captured and not yet published.
BackedInv == Backed(pol.arts) /\ \A s \in Names : Backed(run[s].arts)

-----------------------------------------------------------------------------
(* Types *)

\* Nothing captured, no artifacts and no pass have their types.
LEMMA Nothing ==
    /\ NoArtifact \in Artifact /\ NoArtifacts \in [Workloads -> Artifact]
    /\ NoRun \in Run
BY PolicyAssumption DEF NoArtifact, NoArtifacts, Artifact, NoRun, Run

\* The same for the Policy pass.
LEMMA NoPassTyped == NoPass \in Pass
BY Nothing DEF NoPass, Pass, Phase

\* A fault leaves the budget in its type.
LEMMA FaultTyped ==
    ASSUME TypeOK, Fault
    PROVE  left' \in 0 .. MaxFaults
BY PolicyAssumption DEF TypeOK, Fault

\* A pass that is restarted at "backup".
LEMMA ToBackup ==
    ASSUME NEW f \in BOOLEAN
    PROVE  [NoPass EXCEPT !.at = "backup", !.flag = f] \in Pass
BY NoPassTyped DEF Pass

\* The Policy loop keeps the types.
LEMMA PolicyTyped ==
    ASSUME TypeOK, PolicyPass
    PROVE  TypeOK'
<1>1. /\ pass \in Pass /\ pol \in Status
      /\ pass.flag \in BOOLEAN /\ pass.arts \in [Workloads -> Artifact]
  BY DEF TypeOK, Pass, Status
<1>2. UNCHANGED <<slot, name, live, full, ready, held, store, run, flag>>
  BY DEF PolicyPass, PolicyReads, PolicyWalks, PolicyWalkFails, PolicyWrites, PolicyRestores,
     PolicyBacksUp, PolicyReplicates, PolicyErrs, PolicyFrame
<1> SUFFICES /\ left' \in 0 .. MaxFaults
             /\ pol' \in Status /\ pass' \in Pass
             /\ acts' \in [Names -> {"absent", "pending", "catching", "succeeded", "failed"}]
             /\ auto' \in BOOLEAN
             /\ copier' \in {"absent", "bare", "live", "other"}
  BY <1>2 DEF TypeOK, Status, Pass
<1>3. CASE PolicyReads
  <2>1. pass' \in Pass
    BY <1>1, <1>3 DEF PolicyReads, Pass, Status, TypeOK
  <2> QED
    BY <1>1, <1>3, <2>1 DEF PolicyReads, TypeOK
<1>4. CASE PolicyWalks
  <2> DEFINE h == Judged(pass, live)
             f == PhaseOf(live, h)
  <2>1. h \in BOOLEAN /\ f \in Phase
    BY DEF Judged, Healthy, PhaseOf, Phase
  <2>2. pass' = [pass EXCEPT !.at = "write", !.inv = live, !.arts = NoArtifacts,
                             !.healthy = h, !.phase = f]
    BY <1>4 DEF PolicyWalks
  <2> HIDE DEF h, f
  <2>3. pass' \in Pass
    BY <1>1, <2>1, <2>2, Nothing DEF Pass, TypeOK
  <2> QED
    BY <1>1, <1>4, <2>3 DEF PolicyWalks, TypeOK
<1>5. CASE PolicyWalkFails
  <2>1. pass' \in Pass
    BY <1>1, <1>5 DEF PolicyWalkFails, Pass, Phase
  <2> QED
    BY <1>1, <1>5, <2>1, FaultTyped DEF PolicyWalkFails, TypeOK
<1>6. CASE PolicyWrites
  <2>1. pol' \in Status
    BY <1>1, <1>6 DEF PolicyWrites, WithVerdict, Status, Pass
  <2>2. [pass EXCEPT !.at = "restore", !.phase = ""] \in Pass
    BY <1>1 DEF Pass, Phase
  <2>3. pass' \in Pass
    BY <1>6, <2>2, NoPassTyped DEF PolicyWrites
  <2> QED
    BY <1>6, <2>1, <2>3 DEF PolicyWrites, TypeOK
<1>7. CASE PolicyRestores
  <2>1. pass' \in Pass
    BY <1>1, <1>7, ToBackup DEF PolicyRestores
  <2>2. auto' \in BOOLEAN
    BY <1>7 DEF PolicyRestores, Lost
  <2> QED
    BY <1>1, <1>7, <2>1, <2>2 DEF PolicyRestores, TypeOK
<1>8. CASE PolicyBacksUp
  <2>1. pass' \in Pass
    BY <1>1, <1>8 DEF PolicyBacksUp, Pass
  <2>2. acts' \in [Names -> {"absent", "pending", "catching", "succeeded", "failed"}]
    BY <1>8 DEF PolicyBacksUp, TypeOK
  <2> QED
    BY <1>1, <1>8, <2>1, <2>2 DEF PolicyBacksUp, TypeOK
<1>9. CASE PolicyReplicates
  BY <1>1, <1>9, NoPassTyped DEF PolicyReplicates, Copier, TypeOK
<1>10. CASE PolicyErrs
  <2>1. [pass EXCEPT !.at = "replicate"] \in Pass
    BY <1>1 DEF Pass
  <2>2. pass' \in Pass
    BY <1>1, <1>10, <2>1, ToBackup, NoPassTyped DEF PolicyErrs
  <2> QED
    BY <1>1, <1>10, <2>2, FaultTyped DEF PolicyErrs, TypeOK
<1> QED
  BY <1>3, <1>4, <1>5, <1>6, <1>7, <1>8, <1>9, <1>10 DEF PolicyPass

\* One workload of a Backup pass has its artifact.
LEMMA CapturedIs ==
    ASSUME TypeOK, NEW s \in Names, NEW w \in Workloads, NEW art \in Artifact, Captured(s, w, art)
    PROVE  /\ run' \in [Names -> Run]
           /\ run'[s].arts = [run[s].arts EXCEPT ![w] = art]
           /\ \A t \in Names : t # s => run'[t] = run[t]
<1> DEFINE arts == [run[s].arts EXCEPT ![w] = art]
           r == [run[s] EXCEPT !.todo = run[s].todo \ {w}, !.arts = arts]
<1>1. run \in [Names -> Run] /\ run[s] \in Run
  BY DEF TypeOK, Run
<1>2. run[s].todo \ {w} \in SUBSET Workloads /\ arts \in [Workloads -> Artifact]
  BY <1>1 DEF Run
<1>3. run' = [run EXCEPT ![s] = r]
  BY <1>1 DEF Captured
<1> HIDE DEF arts
<1>4. r \in Run /\ r.arts = arts
  BY <1>1, <1>2 DEF Run
<1> HIDE DEF r
<1> QED
  BY <1>1, <1>3, <1>4 DEF arts

\* What a Backup pass finds of a workload is an artifact.
LEMMA ArtifactTyped ==
    ASSUME TypeOK, NEW w \in Workloads
    PROVE  /\ Len(store) < MaxDumps =>
                [useful |-> w \in full, wait |-> FALSE, key |-> Len(store) + 1] \in Artifact
           /\ DumpRefused(w) \in Artifact /\ Synced(w) \in Artifact /\ Snapshotted(w) \in Artifact
<1>1. Len(store) \in Nat
  BY DEF TypeOK
<1>2. 0 \in 0 .. MaxDumps /\ (Len(store) < MaxDumps => Len(store) + 1 \in 0 .. MaxDumps)
  BY <1>1, PolicyAssumption
<1>3. DumpRefused(w) \in Artifact
  BY Nothing DEF DumpRefused
<1>4. Synced(w) \in Artifact
  <2>1. (w \in ready \cap full) \in BOOLEAN /\ (w \notin ready) \in BOOLEAN
    OBVIOUS
  <2> QED
    BY <1>2, <2>1 DEF Synced, Artifact
<1>5. Snapshotted(w) \in Artifact
  <2>1. (w \in ready \cup (full \cap Measured)) \in BOOLEAN
    OBVIOUS
  <2> QED
    BY <2>1, Nothing DEF Snapshotted, Artifact
<1>6. ASSUME Len(store) < MaxDumps
      PROVE  [useful |-> w \in full, wait |-> FALSE, key |-> Len(store) + 1] \in Artifact
  <2>1. (w \in full) \in BOOLEAN
    OBVIOUS
  <2> QED
    BY <1>2, <1>6, <2>1 DEF Artifact
<1> QED
  BY <1>3, <1>4, <1>5, <1>6

\* A Backup pass keeps the types.
LEMMA BackupTyped ==
    ASSUME TypeOK, NEW s \in Names, BackupPass(s)
    PROVE  TypeOK'
<1>1. run \in [Names -> Run] /\ run[s] \in Run /\ pol \in Status
  BY DEF TypeOK, Run, Status
<1>2. UNCHANGED <<slot, name, live, full, ready, held, pass, auto, flag, copier>>
  BY DEF BackupPass, BackupWalks, Publish, BackupFinishes, BackupRefused, BackupErrs, CaptureDump,
     CaptureDumpFails, CaptureVolume, CaptureFails, BackupFrame
<1> SUFFICES /\ left' \in 0 .. MaxFaults
             /\ store' \in Seq(Dump) /\ Len(store') <= MaxDumps
             /\ pol' \in Status /\ run' \in [Names -> Run]
             /\ acts' \in [Names -> {"absent", "pending", "catching", "succeeded", "failed"}]
  BY <1>2 DEF TypeOK, Status, Run
<1>3. CASE BackupWalks(s)
  <2>1. [NoRun EXCEPT !.at = "work", !.inv = live, !.todo = live] \in Run
    BY Nothing DEF Run, TypeOK
  <2> QED
    BY <1>1, <1>3, <2>1 DEF BackupWalks, TypeOK
<1>4. CASE Publish(s)
  <2> DEFINE ok == Healthy(run[s].inv, run[s].arts)
             f == IF ~ok THEN "Unhealthy" ELSE IF pol.phase = "Unhealthy" THEN "Healthy" ELSE pol.phase
  <2>1. ok \in BOOLEAN /\ f \in Phase
    BY <1>1 DEF Healthy, Status, Phase
  <2>2. pol' = [pol EXCEPT !.arts = run[s].arts, !.healthy = ok, !.phase = f]
    BY <1>4 DEF Publish
  <2> HIDE DEF ok, f
  <2>3. pol' \in Status
    BY <1>1, <2>1, <2>2 DEF Status, Run
  <2>4. [run[s] EXCEPT !.at = "finish"] \in Run
    BY <1>1 DEF Run
  <2>5. run' \in [Names -> Run]
    BY <1>1, <1>4, <2>4 DEF Publish
  <2> QED
    BY <1>4, <2>3, <2>5 DEF Publish, TypeOK
<1>5. CASE BackupFinishes(s)
  <2>1. run' \in [Names -> Run]
    BY <1>1, <1>5, Nothing DEF BackupFinishes
  <2>2. acts' \in [Names -> {"absent", "pending", "catching", "succeeded", "failed"}]
    BY <1>5 DEF BackupFinishes, Outcome, TypeOK
  <2> QED
    BY <1>1, <1>5, <2>1, <2>2 DEF BackupFinishes, TypeOK
<1>11. CASE BackupRefused(s)
  <2>1. acts' \in [Names -> {"absent", "pending", "catching", "succeeded", "failed"}]
    BY <1>11 DEF BackupRefused, TypeOK
  <2> QED
    BY <1>1, <1>11, <2>1, FaultTyped DEF BackupRefused, TypeOK
<1>6. CASE BackupErrs(s)
  <2>1. run' \in [Names -> Run]
    BY <1>1, <1>6, Nothing DEF BackupErrs
  <2> QED
    BY <1>1, <1>6, <2>1, FaultTyped DEF BackupErrs, TypeOK
<1>7. ASSUME NEW w \in Workloads, CaptureDump(s, w) PROVE TypeOK'
  <2> DEFINE d == [w |-> w, full |-> w \in full]
  <2>1. d \in Dump
    <3>1. w \in Dumped /\ (w \in full) \in BOOLEAN
      BY <1>7 DEF CaptureDump
    <3> QED
      BY <3>1 DEF Dump
  <2>2. Len(store) < MaxDumps /\ store' = Append(store, d)
    BY <1>7 DEF CaptureDump
  <2> HIDE DEF d
  <2>3. store' \in Seq(Dump) /\ Len(store') <= MaxDumps
    BY <2>1, <2>2, PolicyAssumption DEF TypeOK
  <2>4. run' \in [Names -> Run]
    BY <1>7, <2>2, ArtifactTyped, CapturedIs DEF CaptureDump
  <2> QED
    BY <1>2, <1>7, <2>3, <2>4 DEF CaptureDump, TypeOK, Run
<1>8. ASSUME NEW w \in Workloads, CaptureDumpFails(s, w) PROVE TypeOK'
  <2>1. run' \in [Names -> Run]
    BY <1>8, ArtifactTyped, CapturedIs DEF CaptureDumpFails
  <2>2. left' \in 0 .. MaxFaults
    BY <1>8, FaultTyped DEF CaptureDumpFails, TypeOK
  <2> QED
    BY <1>2, <1>8, <2>1, <2>2 DEF CaptureDumpFails, TypeOK, Run
<1>9. ASSUME NEW w \in Workloads, CaptureVolume(s, w) PROVE TypeOK'
  <2>1. run' \in [Names -> Run]
    BY <1>9, ArtifactTyped, CapturedIs DEF CaptureVolume
  <2> QED
    BY <1>2, <1>9, <2>1 DEF CaptureVolume, TypeOK, Run
<1>10. ASSUME NEW w \in Workloads, CaptureFails(s, w) PROVE TypeOK'
  <2>1. run' \in [Names -> Run]
    <3>1. PICK unread \in BOOLEAN : Captured(s, w, [NoArtifact EXCEPT !.wait = unread])
      BY <1>10 DEF CaptureFails
    <3>2. [NoArtifact EXCEPT !.wait = unread] \in Artifact
      BY Nothing DEF Artifact
    <3> QED
      BY <3>1, <3>2, CapturedIs
  <2>2. left' \in 0 .. MaxFaults
    BY <1>10, FaultTyped DEF CaptureFails
  <2> QED
    BY <1>2, <1>10, <2>1, <2>2 DEF CaptureFails, TypeOK, Run
<1> QED
  <2>1. TypeOK' => /\ left' \in 0 .. MaxFaults
                   /\ store' \in Seq(Dump) /\ Len(store') <= MaxDumps
                   /\ pol' \in Status /\ run' \in [Names -> Run]
                   /\ acts' \in [Names -> {"absent", "pending", "catching", "succeeded", "failed"}]
    BY DEF TypeOK, Status, Run
  <2> QED
    BY <1>3, <1>4, <1>5, <1>6, <1>7, <1>8, <1>9, <1>10, <1>11, <2>1 DEF BackupPass

\* The source, the storage and the operator keep the types.
LEMMA WorldTyped ==
    ASSUME TypeOK, World
    PROVE  TypeOK'
<1>1. CASE WindowPasses
  <2>1. slot' \in Slots /\ name' \in Names
    BY <1>1, PolicyAssumption DEF WindowPasses, RpoBackupName, TypeOK, Slots
  <2> QED
    BY <1>1, <2>1 DEF WindowPasses, WorldFrame, TypeOK
<1>2. CASE OperatorEdits
  <2>1. left' \in 0 .. MaxFaults /\ flag' \in BOOLEAN
    BY <1>2, FaultTyped DEF OperatorEdits, TypeOK
  <2>2. copier' \in {"absent", "bare", "live", "other"}
    BY <1>2 DEF OperatorEdits, TypeOK
  <2> QED
    BY <1>2, <2>1, <2>2 DEF OperatorEdits, WorldFrame, TypeOK
<1>3. ASSUME NEW w \in Workloads, BecomesReady(w) PROVE TypeOK'
  <2>1. ready' \subseteq Moved \cup Claimed
    BY <1>3 DEF BecomesReady, TypeOK
  <2> QED
    BY <1>3, <2>1 DEF BecomesReady, WorldFrame, TypeOK
<1>4. ASSUME NEW w \in Workloads, SourceChanges(w) PROVE TypeOK'
  <2>1. left' \in 0 .. MaxFaults
    BY <1>4, FaultTyped DEF SourceChanges
  <2>2. live' \subseteq Workloads /\ full' \subseteq Workloads \ Claimed /\ held' \subseteq Workloads
    BY <1>4 DEF SourceChanges, TypeOK
  <2> QED
    BY <1>4, <2>1, <2>2 DEF SourceChanges, WorldFrame, TypeOK
<1> QED
  BY <1>1, <1>2, <1>3, <1>4 DEF World

\* Every variable of the Policy loop and the Backup Actions has its type.
THEOREM TypeCorrect == Spec => []TypeOK
<1>1. Init => TypeOK
  <2> SUFFICES ASSUME Init PROVE TypeOK
    OBVIOUS
  <2>1. pass \in Pass /\ run \in [Names -> Run]
    BY Nothing, NoPassTyped DEF Init
  <2>2. pol \in Status
    <3>1. pol = [phase |-> "", healthy |-> FALSE, inv |-> {}, arts |-> NoArtifacts]
      BY DEF Init
    <3> QED
      BY <3>1, Nothing DEF Status, Phase
  <2>3. store \in Seq(Dump) /\ Len(store) <= MaxDumps
    <3>1. store = << >>
      BY DEF Init
    <3> QED
      BY <3>1, PolicyAssumption
  <2>4. left \in 0 .. MaxFaults /\ slot \in Slots /\ name \in Names
    <3>1. left = MaxFaults /\ slot = 1 /\ name = 1
      BY DEF Init
    <3> QED
      BY <3>1, PolicyAssumption DEF Slots
  <2>5. /\ live \subseteq Workloads /\ full \subseteq Workloads \ Claimed
        /\ ready \subseteq Moved \cup Claimed /\ held \subseteq Workloads
    BY DEF Init
  <2>6. /\ acts \in [Names -> {"absent", "pending", "catching", "succeeded", "failed"}]
        /\ auto \in BOOLEAN /\ flag \in BOOLEAN /\ copier \in {"absent", "bare", "live", "other"}
    BY DEF Init
  <2> QED
    BY <2>1, <2>2, <2>3, <2>4, <2>5, <2>6 DEF TypeOK, Pass, Run, Status
<1>2. TypeOK /\ [Next]_vars => TypeOK'
  <2>1. ASSUME TypeOK, UNCHANGED vars PROVE TypeOK'
    BY <2>1 DEF TypeOK, vars
  <2> QED
    BY <2>1, PolicyTyped, BackupTyped, WorldTyped DEF Next
<1> QED
  BY <1>1, <1>2, PTL DEF Spec

-----------------------------------------------------------------------------
(* Useful artifacts *)

\* The store only grows, and nothing is unsynced.
Grows ==
    /\ store \in Seq(Dump) /\ ready \subseteq ready'
    /\ store' = store \/ \E d \in Dump : store' = Append(store, d)

\* What Backed says after the step of artifacts that were there before it.
BackedNext(arts) ==
    \A w \in Workloads \ Measured : arts[w].useful =>
        \/ w \in Dumped /\ arts[w].key \in 1 .. Len(store')
           /\ store'[arts[w].key] = [w |-> w, full |-> TRUE]
        \/ w \in (Moved \cup Claimed) \cap ready'

\* What can be restored stays so.
LEMMA BackedStays ==
    ASSUME Grows, NEW arts \in [Workloads -> Artifact], Backed(arts)
    PROVE  BackedNext(arts)
<1>1. CASE store' = store
  BY <1>1 DEF Backed, BackedNext, Restorable, Grows
<1>2. ASSUME NEW d \in Dump, store' = Append(store, d) PROVE BackedNext(arts)
  <2>1. /\ Len(store) \in Nat /\ Len(store') = Len(store) + 1
        /\ \A i \in 1 .. Len(store) : store'[i] = store[i]
    BY <1>2 DEF Grows
  <2>2. 1 .. Len(store) \subseteq 1 .. Len(store')
    BY <2>1
  <2> QED
    BY <2>1, <2>2 DEF Backed, BackedNext, Restorable, Grows
<1> QED
  BY <1>1, <1>2 DEF Grows

\* Nothing captured, nothing promised.
LEMMA NothingBacked == BackedNext(NoArtifacts)
BY DEF BackedNext, NoArtifacts, NoArtifact

\* Every step lets the store grow.
LEMMA Growth ==
    ASSUME TypeOK, [Next]_vars
    PROVE  Grows
<1>1. store \in Seq(Dump)
  BY DEF TypeOK
<1>2. CASE UNCHANGED vars
  BY <1>1, <1>2 DEF vars, Grows
<1>3. CASE PolicyPass
  <2>1. UNCHANGED <<store, ready>>
    BY <1>3 DEF PolicyPass, PolicyReads, PolicyWalks, PolicyWalkFails, PolicyWrites, PolicyRestores,
       PolicyBacksUp, PolicyReplicates, PolicyErrs, PolicyFrame
  <2> QED
    BY <1>1, <2>1 DEF Grows
<1>4. CASE World
  <2>1. store' = store /\ ready \subseteq ready'
    BY <1>4 DEF World, WindowPasses, OperatorEdits, BecomesReady, SourceChanges, WorldFrame
  <2> QED
    BY <1>1, <2>1 DEF Grows
<1>5. ASSUME NEW s \in Names, BackupPass(s) PROVE Grows
  <2>1. ready' = ready
    BY <1>5 DEF BackupPass, BackupWalks, Publish, BackupFinishes, BackupRefused, BackupErrs, CaptureDump,
       CaptureDumpFails, CaptureVolume, CaptureFails
  <2>2. store' = store \/ \E w \in Workloads : CaptureDump(s, w)
    BY <1>5 DEF BackupPass, BackupWalks, Publish, BackupFinishes, BackupRefused, BackupErrs,
       CaptureDumpFails, CaptureVolume, CaptureFails
  <2>3. ASSUME NEW w \in Workloads, CaptureDump(s, w)
        PROVE  \E d \in Dump : store' = Append(store, d)
    <3> DEFINE d == [w |-> w, full |-> w \in full]
    <3>1. w \in Dumped /\ (w \in full) \in BOOLEAN /\ store' = Append(store, d)
      BY <2>3 DEF CaptureDump
    <3>2. d \in Dump
      BY <3>1 DEF Dump
    <3> QED
      BY <3>1, <3>2
  <2> QED
    BY <1>1, <2>1, <2>2, <2>3 DEF Grows
<1> QED
  BY <1>2, <1>3, <1>4, <1>5 DEF Next

\* The artifact that a Backup pass captures of w, and the dump it stores.
LEMMA CapturedBacked ==
    ASSUME Grows, NEW w \in Workloads, NEW arts \in [Workloads -> Artifact], BackedNext(arts),
           NEW art,
           \/ ~art.useful \/ w \in Measured
           \/ w \in (Moved \cup Claimed) \cap ready'
           \/ /\ w \in Dumped /\ art.key \in 1 .. Len(store')
              /\ store'[art.key] = [w |-> w, full |-> TRUE]
    PROVE  BackedNext([arts EXCEPT ![w] = art])
BY DEF BackedNext

\* A Backup pass captures as useful only what it has stored in full or seen
\* synced, and publishes what it captured.
LEMMA BackupBacked ==
    ASSUME TypeOK, BackedInv, NEW s \in Names, BackupPass(s), Grows
    PROVE  BackedNext(pol'.arts) /\ \A t \in Names : BackedNext(run'[t].arts)
<1>1. run \in [Names -> Run] /\ run[s] \in Run /\ pol \in Status
  BY DEF TypeOK, Run, Status
<1>2. BackedNext(pol.arts)
  BY <1>1, BackedStays DEF BackedInv, Status
<1>3. \A t \in Names : BackedNext(run[t].arts)
  BY <1>1, BackedStays DEF BackedInv, Run
<1>4. NoRun.arts = NoArtifacts
  BY DEF NoRun
<1>5. CASE BackupWalks(s)
  <2>1. [NoRun EXCEPT !.at = "work", !.inv = live, !.todo = live].arts = NoArtifacts
    BY DEF NoRun
  <2> QED
    BY <1>1, <1>2, <1>3, <1>5, <2>1, NothingBacked DEF BackupWalks
<1>6. CASE Publish(s)
  <2>1. pol'.arts = run[s].arts
    BY <1>1, <1>6 DEF Publish, Status
  <2>2. \A t \in Names : run'[t].arts = run[t].arts
    BY <1>1, <1>6 DEF Publish, Run
  <2> QED
    BY <1>3, <2>1, <2>2
<1>7. CASE BackupFinishes(s) \/ BackupErrs(s)
  <2>1. run' = [run EXCEPT ![s] = NoRun] /\ pol' = pol
    BY <1>7 DEF BackupFinishes, BackupRefused, BackupErrs
  <2> QED
    BY <1>1, <1>2, <1>3, <1>4, <2>1, NothingBacked
<1>8. ASSUME NEW w \in Workloads, NEW art \in Artifact, Captured(s, w, art), pol' = pol,
             \/ ~art.useful \/ w \in Measured
             \/ w \in (Moved \cup Claimed) \cap ready'
             \/ /\ w \in Dumped /\ art.key \in 1 .. Len(store')
                /\ store'[art.key] = [w |-> w, full |-> TRUE]
      PROVE  BackedNext(pol'.arts) /\ \A t \in Names : BackedNext(run'[t].arts)
  <2>1. /\ run'[s].arts = [run[s].arts EXCEPT ![w] = art]
        /\ \A t \in Names : t # s => run'[t] = run[t]
    BY <1>8, CapturedIs
  <2>2. run[s].arts \in [Workloads -> Artifact]
    BY <1>1 DEF Run
  <2>3. BackedNext([run[s].arts EXCEPT ![w] = art])
    BY <1>3, <1>8, <2>2, CapturedBacked
  <2> QED
    BY <1>2, <1>3, <1>8, <2>1, <2>3
<1>9. ASSUME NEW w \in Workloads, CaptureDump(s, w)
      PROVE  BackedNext(pol'.arts) /\ \A t \in Names : BackedNext(run'[t].arts)
  <2> DEFINE art == [useful |-> w \in full, wait |-> FALSE, key |-> Len(store) + 1]
             d == [w |-> w, full |-> w \in full]
  <2>1. /\ w \in Dumped /\ Len(store) < MaxDumps /\ store' = Append(store, d)
        /\ Captured(s, w, art) /\ pol' = pol
    BY <1>9 DEF CaptureDump
  <2>2. art \in Artifact /\ art.key = Len(store) + 1 /\ (art.useful => w \in full)
    BY <2>1, ArtifactTyped
  <2>3. w \in full => d = [w |-> w, full |-> TRUE]
    OBVIOUS
  <2> HIDE DEF art, d
  <2>4. art.key \in 1 .. Len(store') /\ store'[art.key] = d
    BY <2>1, <2>2 DEF TypeOK
  <2> QED
    BY <1>8, <2>1, <2>2, <2>3, <2>4
<1>10. ASSUME NEW w \in Workloads, CaptureDumpFails(s, w) \/ CaptureFails(s, w)
       PROVE  BackedNext(pol'.arts) /\ \A t \in Names : BackedNext(run'[t].arts)
  <2>1. CASE CaptureDumpFails(s, w)
    <3>1. Captured(s, w, NoArtifact) /\ pol' = pol
      BY <2>1 DEF CaptureDumpFails, DumpRefused
    <3>2. NoArtifact \in Artifact /\ ~NoArtifact.useful
      BY Nothing DEF NoArtifact
    <3> QED
      BY <1>8, <3>1, <3>2
  <2>2. CASE CaptureFails(s, w)
    <3>1. PICK unread \in BOOLEAN : Captured(s, w, [NoArtifact EXCEPT !.wait = unread])
      BY <2>2 DEF CaptureFails
    <3> DEFINE art == [NoArtifact EXCEPT !.wait = unread]
    <3>2. art \in Artifact /\ ~art.useful
      BY Nothing DEF Artifact, NoArtifact
    <3>3. pol' = pol
      BY <2>2 DEF CaptureFails
    <3> HIDE DEF art
    <3>4. Captured(s, w, art)
      BY <3>1 DEF art
    <3> QED
      BY <1>8, <3>2, <3>3, <3>4
  <2> QED
    BY <1>10, <2>1, <2>2
<1>11. ASSUME NEW w \in Workloads, CaptureVolume(s, w)
       PROVE  BackedNext(pol'.arts) /\ \A t \in Names : BackedNext(run'[t].arts)
  <2> DEFINE art == IF w \in Moved THEN Synced(w) ELSE Snapshotted(w)
  <2>1. w \notin Dumped /\ Captured(s, w, art) /\ pol' = pol /\ ready' = ready
    BY <1>11 DEF CaptureVolume
  <2>2. art \in Artifact
    BY ArtifactTyped
  <2>3. art.useful => w \in ready \/ w \in Measured
    <3>1. Synced(w).useful => w \in ready
      BY DEF Synced
    <3>2. Snapshotted(w).useful => w \in ready \/ w \in Measured
      BY DEF Snapshotted, NoArtifact
    <3> QED
      BY <3>1, <3>2
  <2> HIDE DEF art
  <2>4. art.useful => w \in (Moved \cup Claimed) \cap ready' \/ w \in Measured
    BY <2>1, <2>3 DEF TypeOK
  <2> QED
    BY <1>8, <2>1, <2>2, <2>4
<1>12. CASE BackupRefused(s)
  BY <1>2, <1>3, <1>12 DEF BackupRefused
<1> QED
  BY <1>5, <1>6, <1>7, <1>9, <1>10, <1>11, <1>12 DEF BackupPass

\* Every step keeps what is useful restorable.
LEMMA BackedStep ==
    ASSUME TypeOK, BackedInv, [Next]_vars
    PROVE  BackedInv'
<1>1. run \in [Names -> Run] /\ pol \in Status
  BY DEF TypeOK, Run, Status
<1>2. Grows
  BY Growth
<1>3. BackedNext(pol'.arts) /\ \A t \in Names : BackedNext(run'[t].arts)
  <2>1. BackedNext(pol.arts) /\ \A t \in Names : BackedNext(run[t].arts)
    BY <1>1, <1>2, BackedStays DEF BackedInv, Run, Status
  <2>2. CASE UNCHANGED vars
    BY <2>1, <2>2 DEF vars
  <2>3. CASE PolicyPass
    <3>1. run' = run
      BY <2>3 DEF PolicyPass, PolicyReads, PolicyWalks, PolicyWalkFails, PolicyWrites, PolicyRestores,
         PolicyBacksUp, PolicyReplicates, PolicyErrs, PolicyFrame
    <3>2. pol' = pol \/ pol' = WithVerdict(pass)
      BY <2>3 DEF PolicyPass, PolicyReads, PolicyWalks, PolicyWalkFails, PolicyWrites, PolicyRestores,
         PolicyBacksUp, PolicyReplicates, PolicyErrs
    <3>3. pol'.arts = pol.arts
      BY <1>1, <3>2 DEF WithVerdict, Status
    <3> QED
      BY <2>1, <3>1, <3>3
  <2>4. CASE World
    <3>1. run' = run /\ pol' = pol
      BY <2>4 DEF World, WindowPasses, OperatorEdits, BecomesReady, SourceChanges, WorldFrame
    <3> QED
      BY <2>1, <3>1
  <2>5. ASSUME NEW s \in Names, BackupPass(s)
        PROVE  BackedNext(pol'.arts) /\ \A t \in Names : BackedNext(run'[t].arts)
    BY <1>2, <2>5, BackupBacked
  <2> QED
    BY <2>2, <2>3, <2>4, <2>5 DEF Next
<1> QED
  BY <1>3 DEF BackedInv, Backed, BackedNext, Restorable

\* What Policy.status calls useful can be restored, for any workloads and any
\* number of concurrent Backup passes (artifactFromSource, dump.Capture,
\* writePolicyArtifacts), but for those that usefulness.Evaluate judges by the
\* size of their live data.
THEOREM UsefulRestorable == Spec => []UsefulIsRestorable
<1>1. Init => BackedInv
  <2> SUFFICES ASSUME Init PROVE BackedInv
    OBVIOUS
  <2>1. pol.arts = NoArtifacts /\ \A s \in Names : run[s].arts = NoArtifacts
    BY DEF Init, NoRun
  <2>2. Backed(NoArtifacts)
    BY DEF Backed, NoArtifacts, NoArtifact
  <2> QED
    BY <2>1, <2>2 DEF BackedInv
<1>2. TypeOK /\ BackedInv /\ [Next]_vars => BackedInv'
  BY BackedStep
<1>3. BackedInv => UsefulIsRestorable
  BY DEF BackedInv, Backed, UsefulIsRestorable
<1> QED
  BY <1>1, <1>2, <1>3, TypeCorrect, PTL DEF Spec

\* An Action that comes to have succeeded was finished by its own pass, with the
\* verdict on what that pass captured.
LEMMA SucceedsByFinishing ==
    ASSUME TypeOK, Next, NEW s \in Names, acts'[s] = "succeeded", acts[s] # "succeeded"
    PROVE  BackupFinishes(s) /\ Outcome(run[s]) = "succeeded"
<1>1. BackupFinishes(s)
  <2>1. CASE PolicyPass
    <3>1. acts' = acts \/ acts' = [acts EXCEPT ![name] = "pending"]
      BY <2>1 DEF PolicyPass, PolicyReads, PolicyWalks, PolicyWalkFails, PolicyWrites,
         PolicyRestores, PolicyBacksUp, PolicyReplicates, PolicyErrs
    <3> QED
      BY <3>1 DEF TypeOK
  <2>2. CASE World
    BY <2>2 DEF World, WindowPasses, OperatorEdits, BecomesReady, SourceChanges, WorldFrame
  <2>3. ASSUME NEW t \in Names, BackupPass(t) PROVE BackupFinishes(s)
    <3>1. acts' = acts \/ BackupFinishes(t) \/ BackupRefused(t)
      BY <2>3 DEF BackupPass, BackupWalks, Publish, BackupErrs, CaptureDump, CaptureDumpFails,
         CaptureVolume, CaptureFails
    <3>2. BackupFinishes(t) => \A u \in Names : u # t => acts'[u] = acts[u]
      BY DEF BackupFinishes, TypeOK
    <3>3. ~BackupRefused(t)
      BY DEF BackupRefused, TypeOK
    <3> QED
      BY <3>1, <3>2, <3>3
  <2> QED
    BY <2>1, <2>2, <2>3 DEF Next
<1> QED
  BY <1>1 DEF BackupFinishes, TypeOK

\* A Backup Action succeeds only with something to restore every workload of its
\* walk from, but for those judged by the size of their live data, for any
\* workloads and any number of Actions at once (runBackup, backup.Advance).
THEOREM SucceedsRestorable == Spec => SucceededIsRestorable
<1>1. Init => BackedInv
  <2> SUFFICES ASSUME Init PROVE BackedInv
    OBVIOUS
  <2>1. pol.arts = NoArtifacts /\ \A s \in Names : run[s].arts = NoArtifacts
    BY DEF Init, NoRun
  <2>2. Backed(NoArtifacts)
    BY DEF Backed, NoArtifacts, NoArtifact
  <2> QED
    BY <2>1, <2>2 DEF BackedInv
<1>2. TypeOK /\ BackedInv /\ [Next]_vars => BackedInv'
  BY BackedStep
<1>3. ASSUME TypeOK, BackedInv, Next, NEW s \in Names, acts'[s] = "succeeded",
             acts[s] # "succeeded", NEW w \in run[s].inv \ Measured
      PROVE  Restorable(w, run[s].arts[w])
  <2>1. Healthy(run[s].inv, run[s].arts)
    BY <1>3, SucceedsByFinishing DEF Outcome
  <2>2. w \in Workloads /\ Backed(run[s].arts)
    BY <1>3 DEF TypeOK, BackedInv
  <2> QED
    BY <1>3, <2>1, <2>2 DEF Healthy, Backed
<1>4. ASSUME TypeOK, BackedInv, [Next]_vars
      PROVE  [\A s \in Names : acts'[s] = "succeeded" /\ acts[s] # "succeeded"
                => \A w \in run[s].inv \ Measured : Restorable(w, run[s].arts[w])]_vars
  BY <1>3, <1>4
<1> QED
  BY <1>1, <1>2, <1>4, TypeCorrect, PTL DEF Spec, SucceededIsRestorable

-----------------------------------------------------------------------------
(* The automatic Restore *)

\* The verdict of a Policy pass outlives what it rests on: the artifacts it read
\* were backed then, and backups stay.
VerdictInv ==
    /\ pass.at = "walk" => Backed(pass.arts)
    /\ pass.at \in {"write", "restore"} /\ pass.healthy => \A w \in pass.inv \ Measured : BackedUp(w)

\* A useful artifact that can be restored is a backup.
LEMMA BackedIsBackedUp ==
    ASSUME NEW inv \in SUBSET Workloads, NEW arts, Backed(arts), Healthy(inv, arts)
    PROVE  \A w \in inv \ Measured : BackedUp(w)
<1> SUFFICES ASSUME NEW w \in inv \ Measured PROVE BackedUp(w)
  OBVIOUS
<1>1. Restorable(w, arts[w])
  BY DEF Backed, Healthy
<1> QED
  BY <1>1 DEF Restorable, BackedUp

\* What is backed up stays so.
LEMMA BackedUpStays ==
    ASSUME Grows, NEW w, BackedUp(w)
    PROVE  BackedUp(w)'
<1>1. CASE w \in (Moved \cup Claimed) \cap ready
  BY <1>1 DEF BackedUp, Grows
<1>2. CASE w \in Dumped /\ \E i \in 1 .. Len(store) : store[i] = [w |-> w, full |-> TRUE]
  <2>1. PICK i \in 1 .. Len(store) : store[i] = [w |-> w, full |-> TRUE]
    BY <1>2
  <2>2. i \in 1 .. Len(store') /\ store'[i] = store[i]
    BY DEF Grows
  <2> QED
    BY <1>2, <2>1, <2>2 DEF BackedUp
<1> QED
  BY <1>1, <1>2 DEF BackedUp

\* The Policy pass carries artifacts and verdict through its steps.
LEMMA VerdictStep ==
    ASSUME TypeOK, BackedInv, VerdictInv, [Next]_vars
    PROVE  VerdictInv'
<1>1. pass \in Pass /\ pol \in Status /\ live \in SUBSET Workloads
  BY DEF TypeOK, Pass, Status
<1>2. Grows
  BY Growth
<1>3. CASE pass' = pass
  <2>1. pass.at = "walk" => Backed(pass.arts)'
    <3>1. pass.at = "walk" => BackedNext(pass.arts)
      BY <1>1, <1>2, BackedStays DEF VerdictInv, Pass
    <3> QED
      BY <1>3, <3>1 DEF Backed, BackedNext, Restorable
  <2>2. pass.at \in {"write", "restore"} /\ pass.healthy => \A w \in pass.inv \ Measured : BackedUp(w)'
    BY <1>2, BackedUpStays DEF VerdictInv
  <2> QED
    BY <1>3, <2>1, <2>2 DEF VerdictInv
<1>4. CASE PolicyReads
  <2>1. pass'.at = "walk" /\ pass'.arts = pol.arts /\ UNCHANGED <<store, ready>>
    BY <1>4 DEF PolicyReads, PolicyFrame
  <2> QED
    BY <2>1 DEF VerdictInv, BackedInv, Backed, Restorable
<1>5. CASE PolicyWalks
  <2>1. /\ pass'.at = "write" /\ pass'.inv = live /\ pass'.healthy = Healthy(live, pass.arts)
        /\ UNCHANGED <<store, ready>> /\ pass.at = "walk"
    BY <1>1, <1>5 DEF PolicyWalks, PolicyFrame, Pass, Judged
  <2>2. pass'.healthy => \A w \in live \ Measured : BackedUp(w)
    BY <1>1, <2>1, BackedIsBackedUp DEF VerdictInv
  <2> QED
    BY <2>1, <2>2 DEF VerdictInv, BackedUp
<1>6. CASE PolicyWrites
  <2>1. \/ pass'.at = "restore" /\ pass'.inv = pass.inv /\ pass'.healthy = pass.healthy /\ pass.at = "write"
        \/ pass'.at = "idle"
    BY <1>1, <1>6 DEF PolicyWrites, Pass, NoPass
  <2>2. UNCHANGED <<store, ready>>
    BY <1>6 DEF PolicyWrites, PolicyFrame
  <2> QED
    BY <2>1, <2>2 DEF VerdictInv, BackedUp
<1>7. CASE PolicyWalkFails \/ PolicyRestores \/ PolicyBacksUp \/ PolicyReplicates \/ PolicyErrs
  <2>1. pass'.at \in {"writeFailure", "backup", "replicate", "idle"}
    <3>1. CASE PolicyWalkFails
      BY <1>1, <3>1 DEF PolicyWalkFails, Pass
    <3>2. CASE PolicyRestores
      BY <3>2 DEF PolicyRestores, NoPass
    <3>3. CASE PolicyBacksUp
      BY <1>1, <3>3 DEF PolicyBacksUp, Pass
    <3>4. CASE PolicyReplicates
      BY <3>4 DEF PolicyReplicates, NoPass
    <3>5. CASE PolicyErrs
      BY <1>1, <3>5 DEF PolicyErrs, Pass, NoPass
    <3> QED
      BY <1>7, <3>1, <3>2, <3>3, <3>4, <3>5
  <2> QED
    BY <2>1 DEF VerdictInv
<1>8. CASE World \/ \E s \in Names : BackupPass(s)
  <2>1. pass' = pass
    BY <1>8 DEF World, WindowPasses, OperatorEdits, BecomesReady, SourceChanges, WorldFrame,
       BackupPass, BackupWalks, Publish, BackupFinishes, BackupRefused, BackupErrs, CaptureDump, CaptureDumpFails,
       CaptureVolume, CaptureFails, BackupFrame
  <2> QED
    BY <1>3, <2>1
<1> QED
  BY <1>3, <1>4, <1>5, <1>6, <1>7, <1>8 DEF Next, PolicyPass, vars

\* maybeAutoRestore asks for a Restore only when every workload of the inventory
\* it looked at has a backup, for any workloads, any number of windows and
\* however many Backup passes published since it read the artifacts.
THEOREM AutoRestores == Spec => AutoRestoreHasBackup
<1>1. Init => BackedInv /\ VerdictInv
  <2> SUFFICES ASSUME Init PROVE BackedInv /\ VerdictInv
    OBVIOUS
  <2>1. /\ pol.arts = NoArtifacts /\ pass.at = "idle"
        /\ \A s \in Names : run[s].arts = NoArtifacts
    BY DEF Init, NoRun, NoPass
  <2>2. Backed(NoArtifacts)
    BY DEF Backed, NoArtifacts, NoArtifact
  <2> QED
    BY <2>1, <2>2 DEF BackedInv, VerdictInv
<1>2. TypeOK /\ BackedInv /\ [Next]_vars => BackedInv'
  BY BackedStep
<1>3. TypeOK /\ BackedInv /\ VerdictInv /\ [Next]_vars => VerdictInv'
  BY VerdictStep
<1>4. ASSUME TypeOK, VerdictInv, Next, auto', ~auto, NEW w \in pass.inv \ Measured
      PROVE  BackedUp(w)
  <2>1. PolicyRestores
    <3>1. CASE PolicyPass
      BY <1>4, <3>1 DEF PolicyPass, PolicyReads, PolicyWalks, PolicyWalkFails, PolicyWrites,
         PolicyBacksUp, PolicyReplicates, PolicyErrs
    <3>2. CASE World
      BY <1>4, <3>2 DEF World, WindowPasses, OperatorEdits, BecomesReady, SourceChanges, WorldFrame
    <3>3. ASSUME NEW s \in Names, BackupPass(s) PROVE FALSE
      BY <1>4, <3>3 DEF BackupPass, BackupWalks, Publish, BackupFinishes, BackupRefused,
         BackupErrs, CaptureDump, CaptureDumpFails, CaptureVolume, CaptureFails, BackupFrame
    <3> QED
      BY <1>4, <3>1, <3>2, <3>3 DEF Next
  <2>2. pass.at = "restore" /\ pass.healthy
    BY <1>4, <2>1 DEF PolicyRestores, Lost
  <2> QED
    BY <1>4, <2>2 DEF VerdictInv
<1>5. ASSUME TypeOK, VerdictInv, [Next]_vars
      PROVE  [auto' /\ ~auto => \A w \in pass.inv \ Measured : BackedUp(w)]_vars
  BY <1>4, <1>5
<1> QED
  BY <1>1, <1>2, <1>3, <1>5, TypeCorrect, PTL DEF Spec, AutoRestoreHasBackup
=============================================================================
