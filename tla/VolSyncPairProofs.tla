-------------------------- MODULE VolSyncPairProofs --------------------------
(***************************************************************************)
(* VolSyncPair is type correct, serves its destination and implements      *)
(* WarmCopy, for every set of keys and every bound.                        *)
(*                                                                         *)
(* The argument.  A password is written before anything that uses it and   *)
(* never changes (Passwords).  Whatever says that the source has synced -  *)
(* the status of the ReplicationSource, the flag a pass carries from its   *)
(* read to its write - is true for ever once it is true, as the repository *)
(* keeps its snapshots (Evidence); so no destination exists, and no dest   *)
(* mover starts, before the first snapshot.  One Job per side makes        *)
(* versions grow (Order).  A pass that reaches the destination has         *)
(* prepared dest, or dest was deleted since, the namespace or the claim    *)
(* alone (PassOK, Prepared).                                               *)
(***************************************************************************)
EXTENDS VolSyncPair, TLAPS

\* Places of a pass that has a password, has copied it, has a dest claim, has
\* seen a snapshot.
HasSnapshot == {"look", "kill", "destination"}
HasClaim == {"strip", "unpin", "read", "source", "look", "kill", "destination"}
HasCopied == {"volume", "strip", "unpin", "read", "source", "look", "kill", "destination"}
HasPassword == {"namespace", "copy", "volume", "strip", "unpin", "read", "source",
                "look", "kill", "destination"}

PassOK ==
    /\ pass.at \in HasPassword => secret.source \in Keys
    /\ pass.synced => repo.snap > 0
    /\ pass.at \in HasSnapshot => pass.synced
    /\ dest.ns /\ pass.at \in HasCopied => secret.dest = secret.source
    /\ dest.ns /\ pass.at \in HasClaim => dest.claim \/ dest.lost

Passwords ==
    /\ rs.on \/ backup = "source" => secret.source \in Keys
    /\ repo.key \in {NoKey, secret.source}
    /\ push.at # "idle" => push.key = secret.source
    /\ pull.at # "idle" => pull.key = secret.source

Evidence ==
    /\ rs.synced \/ rd.on \/ pull.at # "idle" => repo.snap > 0
    /\ repo.snap > 0 \/ push.at = "copy" => repo.key # NoKey
    /\ push.at = "init" => repo.key = NoKey
    /\ pull.at # "init"

Order ==
    /\ dest.copy <= repo.snap
    /\ repo.snap <= source.data
    /\ push.at # "idle" => 1 <= push.data /\ repo.snap <= push.data /\ push.data <= source.data
    /\ pull.at # "idle" => 1 <= pull.data /\ dest.copy <= pull.data /\ pull.data <= repo.snap

Prepared ==
    /\ dest.claim => dest.ns
    /\ rd.on => (dest.claim \/ dest.lost) /\ secret.dest = secret.source /\ secret.source \in Keys
    /\ pull.at # "idle" => dest.claim

\* The inductive invariant.
PairInv == TypeOK /\ PassOK /\ Passwords /\ Evidence /\ Order /\ Prepared
-----------------------------------------------------------------------------
\* The places are told apart, and each literal place is one.
LEMMA Places ==
    /\ {"idle", "claim", "secrets", "namespace", "copy", "volume", "strip"} \subseteq Place
    /\ {"unpin", "read", "source", "look", "kill", "destination"} \subseteq Place
    /\ {"scratch", "evict", "probe", "prune", "dropSource", "dropDest", "end"} \subseteq Place
BY DEF Place

\* A pass that only moves on keeps its type and everything it carries.
LEMMA PassGoes ==
    ASSUME NEW p \in Pass, NEW s \in Place
    PROVE  /\ [p EXCEPT !.at = s] \in Pass
           /\ [p EXCEPT !.at = s].at = s
           /\ [p EXCEPT !.at = s].synced = p.synced
           /\ [p EXCEPT !.at = s].next = p.next
BY DEF Pass

\* The initial state satisfies the invariant.
LEMMA InitInv == Init => PairInv
<1> SUFFICES ASSUME Init PROVE PairInv
    OBVIOUS
<1> USE PairAssumption
<1>1. left \in 0 .. MaxFaults
    BY DEF Init
<1>2. source \in Source /\ source.data = 1
    BY DEF Init, Source
<1>3. dest \in Dest /\ dest.copy = 0 /\ ~dest.ns /\ ~dest.claim
    BY DEF Init, NoDest, Dest, Version
<1>4. secret \in Secret /\ secret.source = NoKey /\ secret.dest = NoKey
    BY DEF Init, Secret, MaybeKey
<1>5. rs \in Pair /\ rd \in Pair /\ ~rs.on /\ ~rd.on /\ ~rs.synced
    BY DEF Init, Pair, NoPair
<1>6. repo \in Repo /\ repo.key = NoKey /\ repo.snap = 0
    BY DEF Init, Repo, MaybeKey, Version
<1>7. push \in Mover /\ pull \in Mover /\ push.at = "idle" /\ pull.at = "idle"
    BY DEF Init, Mover, NoMover, MaybeKey, Version
<1>8. cache \in Cache
    BY DEF Init, Cache, NoCache
<1>9. pass \in Pass /\ pass.at = "idle" /\ ~pass.synced
    BY Places DEF Init, Pass, NoPass
<1>10. status \in BOOLEAN /\ backup = "idle"
    BY DEF Init
<1>11. TypeOK
    BY <1>1, <1>2, <1>3, <1>4, <1>5, <1>6, <1>7, <1>8, <1>9, <1>10 DEF TypeOK
<1>12. PassOK
    BY <1>3, <1>4, <1>9 DEF PassOK, HasPassword, HasCopied, HasClaim, HasSnapshot
<1>13. Passwords /\ Evidence
    BY <1>5, <1>6, <1>7, <1>10 DEF Passwords, Evidence
<1>14. Order /\ Prepared
    BY <1>2, <1>3, <1>5, <1>6, <1>7 DEF Order, Prepared
<1> QED
    BY <1>11, <1>12, <1>13, <1>14 DEF PairInv

\* A mover starts with the key and the version it is given, and initialises
\* exactly when it finds no repository.
LEMMA StartedMover ==
    ASSUME NEW k \in MaybeKey, NEW d \in Version
    PROVE  /\ Started(k, d) \in Mover
           /\ Started(k, d).at \in {"init", "copy"}
           /\ Started(k, d).at = "init" <=> repo.key = NoKey
           /\ Started(k, d).key = k
           /\ Started(k, d).data = d
BY DEF Started, Mover, NoMover

\* A step that changes only the pass, and perhaps the faults to come, keeps
\* the invariant if what the pass carries is right.
LEMMA PassOnly ==
    ASSUME PairInv, PassOK', pass' \in Pass, left' \in 0 .. MaxFaults,
           pass'.at \in {"dropSource", "dropDest"} => pass'.next # "idle",
           UNCHANGED <<source, dest, secret, rs, rd, repo, push, pull, cache, status, backup>>
    PROVE  PairInv'
BY DEF PairInv, TypeOK, Passwords, Evidence, Order, Prepared

\* Walk keeps the invariant.
LEMMA WalkInv == PairInv /\ Walk => PairInv'
<1> SUFFICES ASSUME PairInv, Walk PROVE PairInv'
    OBVIOUS
<1>1. UNCHANGED <<source, dest, secret, rs, rd, repo, push, pull, cache, status, backup>>
    BY DEF Walk, Reads, PassFrame
<1>2. left' \in 0 .. MaxFaults
    BY PairAssumption DEF PairInv, TypeOK, Walk
<1>3. /\ pass' \in Pass
      /\ pass'.at \in {"claim", "prune"}
      /\ pass'.synced = FALSE
    BY Places, PassGoes, ZenonT(60) DEF PairInv, TypeOK, Walk, GoTo, At, Pass, Source, NoPass
<1>4. PassOK'
    BY <1>1, <1>3 DEF PairInv, TypeOK, Walk, At, PassOK, HasPassword, HasCopied,
       HasClaim, HasSnapshot
<1> QED
    BY <1>1, <1>2, <1>3, <1>4, PassOnly

\* CheckClaim keeps the invariant.
LEMMA CheckClaimInv == PairInv /\ CheckClaim => PairInv'
<1> SUFFICES ASSUME PairInv, CheckClaim PROVE PairInv'
    OBVIOUS
<1>1. UNCHANGED <<source, dest, secret, rs, rd, repo, push, pull, cache, status, backup>>
    BY DEF CheckClaim, Reads, PassFrame
<1>2. left' \in 0 .. MaxFaults
    BY PairAssumption DEF PairInv, TypeOK, CheckClaim
<1>3. /\ pass' \in Pass
      /\ pass'.at \in {"secrets", "dropSource"}
      /\ pass'.synced = pass.synced
      /\ pass'.at \in {"dropSource", "dropDest"} => pass'.next # "idle"
  <2>1. CASE GoTo("secrets")
      BY <2>1, Places, PassGoes DEF PairInv, TypeOK, GoTo
  <2>2. CASE pass' = [pass EXCEPT !.at = "dropSource", !.next = "probe"]
      BY <2>2, Places DEF PairInv, TypeOK, Pass
  <2> QED
      BY <2>1, <2>2 DEF CheckClaim
<1>4. PassOK'
    BY <1>1, <1>3 DEF PairInv, TypeOK, CheckClaim, At, PassOK, HasPassword,
       HasCopied, HasClaim, HasSnapshot
<1> QED
    BY <1>1, <1>2, <1>3, <1>4, PassOnly

\* EnsureSecrets keeps the invariant.
LEMMA EnsureSecretsInv == PairInv /\ EnsureSecrets => PairInv'
<1> SUFFICES ASSUME PairInv, EnsureSecrets PROVE PairInv'
    OBVIOUS
<1> USE PairAssumption
<1>1. UNCHANGED <<left, source, dest, rs, rd, repo, push, pull, cache, status, backup>>
    BY DEF EnsureSecrets, Reads, PassFrame
<1>2. /\ pass' \in Pass
      /\ pass'.at = "namespace"
      /\ pass'.synced = pass.synced
    BY Places, PassGoes DEF PairInv, TypeOK, EnsureSecrets, GoTo, At
<1>3. /\ secret' \in Secret
      /\ secret'.source \in Keys
      /\ secret.source # NoKey => secret'.source = secret.source
      /\ secret'.dest = secret.dest
    BY DEF PairInv, TypeOK, EnsureSecrets, WithPassword, Secret, MaybeKey
<1>4. TypeOK'
    BY <1>1, <1>2, <1>3 DEF PairInv, TypeOK
<1>5. Evidence' /\ Order'
    BY <1>1 DEF PairInv, Evidence, Order
<1>6. PassOK'
    BY <1>1, <1>2, <1>3 DEF PairInv, TypeOK, PassOK, HasPassword, HasCopied,
       HasClaim, HasSnapshot, EnsureSecrets, At
<1>7. Passwords'
    BY <1>1, <1>2, <1>3 DEF PairInv, TypeOK, Passwords
<1>8. Prepared'
    BY <1>1, <1>2, <1>3 DEF PairInv, TypeOK, Prepared
<1> QED
    BY <1>4, <1>5, <1>6, <1>7, <1>8 DEF PairInv

\* EnsureNamespace keeps the invariant.
LEMMA EnsureNamespaceInv == PairInv /\ EnsureNamespace => PairInv'
<1> SUFFICES ASSUME PairInv, EnsureNamespace PROVE PairInv'
    OBVIOUS
<1> USE PairAssumption
<1>1. UNCHANGED <<left, source, secret, rs, rd, repo, push, pull, cache, status,
                    backup>>
    BY DEF EnsureNamespace, Reads, PassFrame
<1>2. /\ pass' \in Pass
      /\ pass'.at = "copy"
      /\ pass'.synced = pass.synced
    BY Places, PassGoes DEF PairInv, TypeOK, EnsureNamespace, GoTo, At
<1>3. /\ dest' \in Dest
      /\ dest'.ns
      /\ dest'.claim = dest.claim
      /\ dest'.lost = dest.lost
      /\ dest'.copy = dest.copy
    BY DEF PairInv, TypeOK, EnsureNamespace, Dest, Version
<1>4. TypeOK'
    BY <1>1, <1>2, <1>3 DEF PairInv, TypeOK
<1>5. Passwords' /\ Evidence'
    BY <1>1 DEF PairInv, Passwords, Evidence
<1>6. PassOK'
    BY <1>1, <1>2, <1>3 DEF PairInv, TypeOK, PassOK, HasPassword, HasCopied,
       HasClaim, HasSnapshot, EnsureNamespace, At
<1>7. Order'
    BY <1>1, <1>2, <1>3 DEF PairInv, TypeOK, Order
<1>8. Prepared'
    BY <1>1, <1>2, <1>3 DEF PairInv, TypeOK, Prepared
<1> QED
    BY <1>4, <1>5, <1>6, <1>7, <1>8 DEF PairInv

\* CopySecrets keeps the invariant.
LEMMA CopySecretsInv == PairInv /\ CopySecrets => PairInv'
<1> SUFFICES ASSUME PairInv, CopySecrets PROVE PairInv'
    OBVIOUS
<1> USE PairAssumption
<1>1. UNCHANGED <<left, source, dest, rs, rd, repo, push, pull, cache, status, backup>>
    BY DEF CopySecrets, Reads, PassFrame
<1>2. /\ pass' \in Pass
      /\ pass'.at = "volume"
      /\ pass'.synced = pass.synced
    BY Places, PassGoes DEF PairInv, TypeOK, CopySecrets, GoTo, At
<1>3. /\ secret' \in Secret
      /\ secret'.source = secret.source
      /\ secret'.dest = secret.source
    BY DEF PairInv, TypeOK, CopySecrets, Secret
<1>4. TypeOK'
    BY <1>1, <1>2, <1>3 DEF PairInv, TypeOK
<1>5. Evidence' /\ Order'
    BY <1>1 DEF PairInv, Evidence, Order
<1>6. PassOK'
    BY <1>1, <1>2, <1>3 DEF PairInv, TypeOK, PassOK, HasPassword, HasCopied,
       HasClaim, HasSnapshot, CopySecrets, At
<1>7. Passwords'
    BY <1>1, <1>2, <1>3 DEF PairInv, TypeOK, Passwords
<1>8. Prepared'
    BY <1>1, <1>2, <1>3 DEF PairInv, TypeOK, Prepared
<1> QED
    BY <1>4, <1>5, <1>6, <1>7, <1>8 DEF PairInv

\* EnsureDestPVC keeps the invariant.
LEMMA EnsureDestPVCInv == PairInv /\ EnsureDestPVC => PairInv'
<1> SUFFICES ASSUME PairInv, EnsureDestPVC PROVE PairInv'
    OBVIOUS
<1> USE PairAssumption
<1>1. UNCHANGED <<left, source, secret, rs, rd, repo, push, pull, cache, status,
                    backup>>
    BY DEF EnsureDestPVC, Reads, PassFrame
<1>2. /\ pass' \in Pass
      /\ pass'.at = "strip"
      /\ pass'.synced = pass.synced
    BY Places, PassGoes DEF PairInv, TypeOK, EnsureDestPVC, GoTo, At
<1>3. /\ dest' \in Dest
      /\ dest'.ns = dest.ns
      /\ dest'.claim
      /\ dest'.copy = dest.copy
    BY DEF PairInv, TypeOK, EnsureDestPVC, Dest, Version
<1>4. dest.claim \/ dest.ns
    BY DEF PairInv, TypeOK, EnsureDestPVC, Dest
<1>5. TypeOK'
    BY <1>1, <1>2, <1>3, <1>4 DEF PairInv, TypeOK
<1>6. Passwords' /\ Evidence'
    BY <1>1 DEF PairInv, Passwords, Evidence
<1>7. PassOK'
    BY <1>1, <1>2, <1>3, <1>4 DEF PairInv, TypeOK, PassOK, HasPassword, HasCopied,
       HasClaim, HasSnapshot, EnsureDestPVC, At
<1>8. Order'
    BY <1>1, <1>2, <1>3, <1>4 DEF PairInv, TypeOK, Order
<1>9. Prepared'
    BY <1>1, <1>2, <1>3, <1>4 DEF PairInv, TypeOK, Prepared
<1> QED
    BY <1>5, <1>6, <1>7, <1>8, <1>9 DEF PairInv

\* StripDestPods keeps the invariant.
LEMMA StripDestPodsInv == PairInv /\ StripDestPods => PairInv'
<1> SUFFICES ASSUME PairInv, StripDestPods PROVE PairInv'
    OBVIOUS
<1> USE PairAssumption
<1>1. UNCHANGED <<left, source, secret, rs, rd, repo, push, pull, cache, status,
                    backup>>
    BY DEF StripDestPods, Reads, PassFrame
<1>2. /\ pass' \in Pass
      /\ pass'.at = "unpin"
      /\ pass'.synced = pass.synced
    BY Places, PassGoes DEF PairInv, TypeOK, StripDestPods, GoTo, At
<1>3. /\ dest' \in Dest
      /\ dest'.ns = dest.ns
      /\ dest'.claim = dest.claim
      /\ dest'.lost = dest.lost
      /\ dest'.copy = dest.copy
    BY DEF PairInv, TypeOK, StripDestPods, Dest, Version
<1>4. TypeOK'
    BY <1>1, <1>2, <1>3 DEF PairInv, TypeOK
<1>5. Passwords' /\ Evidence'
    BY <1>1 DEF PairInv, Passwords, Evidence
<1>6. PassOK'
    BY <1>1, <1>2, <1>3 DEF PairInv, TypeOK, PassOK, HasPassword, HasCopied,
       HasClaim, HasSnapshot, StripDestPods, At
<1>7. Order'
    BY <1>1, <1>2, <1>3 DEF PairInv, TypeOK, Order
<1>8. Prepared'
    BY <1>1, <1>2, <1>3 DEF PairInv, TypeOK, Prepared
<1> QED
    BY <1>4, <1>5, <1>6, <1>7, <1>8 DEF PairInv

\* StripBlindly keeps the invariant.
LEMMA StripBlindlyInv == PairInv /\ StripBlindly => PairInv'
<1> SUFFICES ASSUME PairInv, StripBlindly PROVE PairInv'
    OBVIOUS
<1> USE PairAssumption
<1>1. UNCHANGED <<source, secret, rs, rd, repo, push, pull, cache, status,
                    backup>>
    BY DEF StripBlindly, Reads, PassFrame
<1>2. /\ pass' \in Pass
      /\ pass'.at = "unpin"
      /\ pass'.synced = pass.synced
    BY Places, PassGoes DEF PairInv, TypeOK, StripBlindly, GoTo, At
<1>3. /\ dest' \in Dest
      /\ dest'.ns = dest.ns
      /\ dest'.claim = dest.claim
      /\ dest'.lost = dest.lost
      /\ dest'.copy = dest.copy
    BY DEF PairInv, TypeOK, StripBlindly, Dest, Version, Deleted
<1>4. TypeOK'
  <2>1. left' \in 0 .. MaxFaults
    BY DEF PairInv, TypeOK, StripBlindly, Fault
  <2> QED
    BY <1>1, <1>2, <1>3, <2>1 DEF PairInv, TypeOK
<1>5. Passwords' /\ Evidence'
    BY <1>1 DEF PairInv, Passwords, Evidence
<1>6. PassOK'
    BY <1>1, <1>2, <1>3 DEF PairInv, TypeOK, PassOK, HasPassword, HasCopied,
       HasClaim, HasSnapshot, StripBlindly, At
<1>7. Order'
    BY <1>1, <1>2, <1>3 DEF PairInv, TypeOK, Order
<1>8. Prepared'
    BY <1>1, <1>2, <1>3 DEF PairInv, TypeOK, Prepared
<1> QED
    BY <1>4, <1>5, <1>6, <1>7, <1>8 DEF PairInv

\* DeletePinnedJobs keeps the invariant.
LEMMA DeletePinnedJobsInv == PairInv /\ DeletePinnedJobs => PairInv'
<1> SUFFICES ASSUME PairInv, DeletePinnedJobs PROVE PairInv'
    OBVIOUS
<1> USE PairAssumption
<1>1. UNCHANGED <<left, source, dest, secret, rs, rd, repo, push, cache, status,
                    backup>>
    BY DEF DeletePinnedJobs, Reads, PassFrame
<1>2. /\ pass' \in Pass
      /\ pass'.at = "read"
      /\ pass'.synced = pass.synced
    BY Places, PassGoes DEF PairInv, TypeOK, DeletePinnedJobs, GoTo, At
<1>3. /\ pull' \in Mover
      /\ pull'.at # "idle" => pull' = pull
    BY DEF PairInv, TypeOK, DeletePinnedJobs, NoMover, Mover, MaybeKey, Version
<1>4. TypeOK'
    BY <1>1, <1>2, <1>3 DEF PairInv, TypeOK
<1>5. Prepared'
    BY <1>1, <1>3 DEF PairInv, Prepared
<1>6. PassOK'
    BY <1>1, <1>2, <1>3 DEF PairInv, TypeOK, PassOK, HasPassword, HasCopied,
       HasClaim, HasSnapshot, DeletePinnedJobs, At, Source, Dest, Repo, Mover, Version
<1>7. Passwords'
    BY <1>1, <1>2, <1>3 DEF PairInv, TypeOK, Passwords
<1>8. Evidence'
    BY <1>1, <1>2, <1>3 DEF PairInv, TypeOK, Evidence, Source, Dest, Repo, Mover,
       Version
<1>9. Order'
    BY <1>1, <1>2, <1>3 DEF PairInv, TypeOK, Order, Source, Dest, Repo, Mover,
       Version
<1> QED
    BY <1>4, <1>5, <1>6, <1>7, <1>8, <1>9 DEF PairInv

\* SourceHasSnapshot keeps the invariant.
LEMMA SourceHasSnapshotInv == PairInv /\ SourceHasSnapshot => PairInv'
<1> SUFFICES ASSUME PairInv, SourceHasSnapshot PROVE PairInv'
    OBVIOUS
<1>1. UNCHANGED <<source, dest, secret, rs, rd, repo, push, pull, cache, status, backup>>
    BY DEF SourceHasSnapshot, Reads, PassFrame
<1>2. left' \in 0 .. MaxFaults
    BY PairAssumption DEF PairInv, TypeOK, SourceHasSnapshot
<1>3. /\ pass' \in Pass
      /\ pass'.at = "source"
      /\ pass'.synced = (rs.on /\ rs.synced)
    BY Places, PassGoes DEF PairInv, TypeOK, SourceHasSnapshot, GoTo, At, Pass
<1>4. PassOK'
    BY <1>1, <1>3 DEF PairInv, TypeOK, SourceHasSnapshot, At, PassOK, HasPassword,
       HasCopied, HasClaim, HasSnapshot, Evidence
<1> QED
    BY <1>1, <1>2, <1>3, <1>4, PassOnly

\* ApplySource keeps the invariant.
LEMMA ApplySourceInv == PairInv /\ ApplySource => PairInv'
<1> SUFFICES ASSUME PairInv, ApplySource PROVE PairInv'
    OBVIOUS
<1> USE PairAssumption
<1>1. UNCHANGED <<left, source, dest, secret, rd, repo, push, pull, cache, status,
                    backup>>
    BY DEF ApplySource, Reads, PassFrame
<1>2. /\ pass' \in Pass
      /\ pass'.at \in {"look", "scratch"}
      /\ pass'.at = "look" => pass.synced
      /\ pass'.synced = pass.synced
    BY Places, PassGoes DEF PairInv, TypeOK, ApplySource, GoTo, At, AfterSource
<1>3. /\ rs' \in Pair
      /\ rs'.synced => rs.synced
    BY DEF PairInv, TypeOK, ApplySource, Applied, AfterSource, Pair
<1>4. TypeOK'
    BY <1>1, <1>2, <1>3 DEF PairInv, TypeOK
<1>5. Order' /\ Prepared'
    BY <1>1 DEF PairInv, Order, Prepared
<1>6. PassOK'
    BY <1>1, <1>2, <1>3 DEF PairInv, TypeOK, PassOK, HasPassword, HasCopied,
       HasClaim, HasSnapshot, ApplySource, At
<1>7. Passwords'
    BY <1>1, <1>2, <1>3 DEF PairInv, TypeOK, Passwords, PassOK, HasPassword,
       ApplySource, At
<1>8. Evidence'
    BY <1>1, <1>2, <1>3 DEF PairInv, TypeOK, Evidence
<1> QED
    BY <1>4, <1>5, <1>6, <1>7, <1>8 DEF PairInv

\* DestUserMounted keeps the invariant.
LEMMA DestUserMountedInv == PairInv /\ DestUserMounted => PairInv'
<1> SUFFICES ASSUME PairInv, DestUserMounted PROVE PairInv'
    OBVIOUS
<1>1. UNCHANGED <<source, dest, secret, rs, rd, repo, push, pull, cache, status, backup>>
    BY DEF DestUserMounted, Reads, PassFrame
<1>2. left' \in 0 .. MaxFaults
    BY PairAssumption DEF PairInv, TypeOK, DestUserMounted
<1>3. /\ pass' \in Pass
      /\ pass'.at \in {"kill", "destination"}
      /\ pass'.synced = pass.synced
    BY Places, PassGoes DEF PairInv, TypeOK, DestUserMounted, GoTo, At, Pass, Dest
<1>4. PassOK'
    BY <1>1, <1>3 DEF PairInv, TypeOK, DestUserMounted, At, PassOK, HasPassword,
       HasCopied, HasClaim, HasSnapshot
<1> QED
    BY <1>1, <1>2, <1>3, <1>4, PassOnly

\* DeleteMoverJobs keeps the invariant.
LEMMA DeleteMoverJobsInv == PairInv /\ DeleteMoverJobs => PairInv'
<1> SUFFICES ASSUME PairInv, DeleteMoverJobs PROVE PairInv'
    OBVIOUS
<1> USE PairAssumption
<1>1. UNCHANGED <<left, source, dest, secret, rs, rd, repo, push, cache, status,
                    backup>>
    BY DEF DeleteMoverJobs, Reads, PassFrame
<1>2. /\ pass' \in Pass
      /\ pass'.at = "destination"
      /\ pass'.synced = pass.synced
    BY Places, PassGoes DEF PairInv, TypeOK, DeleteMoverJobs, GoTo, At
<1>3. /\ pull' \in Mover
      /\ pull'.at = "idle"
    BY DEF PairInv, TypeOK, DeleteMoverJobs, NoMover, Mover, MaybeKey, Version
<1>4. TypeOK'
    BY <1>1, <1>2, <1>3 DEF PairInv, TypeOK
<1>5. Prepared'
    BY <1>1, <1>3 DEF PairInv, Prepared
<1>6. PassOK'
    BY <1>1, <1>2, <1>3 DEF PairInv, TypeOK, PassOK, HasPassword, HasCopied,
       HasClaim, HasSnapshot, DeleteMoverJobs, At, Source, Dest, Repo, Mover, Version
<1>7. Passwords'
    BY <1>1, <1>2, <1>3 DEF PairInv, TypeOK, Passwords
<1>8. Evidence'
    BY <1>1, <1>2, <1>3 DEF PairInv, TypeOK, Evidence, Source, Dest, Repo, Mover,
       Version
<1>9. Order'
    BY <1>1, <1>2, <1>3 DEF PairInv, TypeOK, Order, Source, Dest, Repo, Mover,
       Version
<1> QED
    BY <1>4, <1>5, <1>6, <1>7, <1>8, <1>9 DEF PairInv

\* ApplyDestination keeps the invariant.
LEMMA ApplyDestinationInv == PairInv /\ ApplyDestination => PairInv'
<1> SUFFICES ASSUME PairInv, ApplyDestination PROVE PairInv'
    OBVIOUS
<1> USE PairAssumption
<1>1. UNCHANGED <<left, source, dest, secret, rs, repo, push, pull, cache, status,
                    backup>>
    BY DEF ApplyDestination, Reads, PassFrame
<1>2. /\ pass' \in Pass
      /\ pass'.at = "scratch"
      /\ pass'.synced = pass.synced
    BY Places, PassGoes DEF PairInv, TypeOK, ApplyDestination, GoTo, At
<1>3. rd' \in Pair
    BY DEF PairInv, TypeOK, ApplyDestination, Pass, Applied, Pair
<1>4. dest.ns
    BY DEF PairInv, TypeOK, ApplyDestination, Applied, Pair
<1>5. TypeOK'
    BY <1>1, <1>2, <1>3, <1>4 DEF PairInv, TypeOK
<1>6. Passwords' /\ Order'
    BY <1>1 DEF PairInv, Passwords, Order
<1>7. PassOK'
    BY <1>1, <1>2, <1>3, <1>4 DEF PairInv, TypeOK, PassOK, HasPassword, HasCopied,
       HasClaim, HasSnapshot, ApplyDestination, At
<1>8. Evidence'
    BY <1>1, <1>2, <1>3, <1>4 DEF PairInv, TypeOK, Evidence, PassOK, HasSnapshot,
       ApplyDestination, At
<1>9. Prepared'
    BY <1>1, <1>2, <1>3, <1>4 DEF PairInv, TypeOK, Prepared, PassOK, HasCopied,
       HasClaim, HasPassword, ApplyDestination, At
<1> QED
    BY <1>5, <1>6, <1>7, <1>8, <1>9 DEF PairInv

\* MarkScratch keeps the invariant.
LEMMA MarkScratchInv == PairInv /\ MarkScratch => PairInv'
<1> SUFFICES ASSUME PairInv, MarkScratch PROVE PairInv'
    OBVIOUS
<1> USE PairAssumption
<1>1. UNCHANGED <<left, source, dest, secret, rs, rd, repo, push, pull, status, backup>>
    BY DEF MarkScratch, Reads, PassFrame
<1>2. /\ pass' \in Pass
      /\ pass'.at = "evict"
      /\ pass'.synced = pass.synced
    BY Places, PassGoes DEF PairInv, TypeOK, MarkScratch, GoTo, At
<1>3. cache' \in Cache
    BY DEF PairInv, TypeOK, MarkScratch, Marked, Cache
<1>4. TypeOK'
    BY <1>1, <1>2, <1>3 DEF PairInv, TypeOK
<1>5. Passwords' /\ Evidence' /\ Order' /\ Prepared'
    BY <1>1 DEF PairInv, Passwords, Evidence, Order, Prepared
<1>6. PassOK'
    BY <1>1, <1>2, <1>3 DEF PairInv, TypeOK, PassOK, HasPassword, HasCopied,
       HasClaim, HasSnapshot, MarkScratch, At
<1> QED
    BY <1>4, <1>5, <1>6 DEF PairInv

\* EvictBackupPods keeps the invariant.
LEMMA EvictBackupPodsInv == PairInv /\ EvictBackupPods => PairInv'
<1> SUFFICES ASSUME PairInv, EvictBackupPods PROVE PairInv'
    OBVIOUS
<1> USE PairAssumption
<1>1. UNCHANGED <<left, source, dest, secret, rs, rd, repo, push, pull, status, backup>>
    BY DEF EvictBackupPods, Reads, PassFrame
<1>2. /\ pass' \in Pass
      /\ pass'.at = "probe"
      /\ pass'.synced = pass.synced
    BY Places, PassGoes DEF PairInv, TypeOK, EvictBackupPods, GoTo, At
<1>3. cache' \in Cache
    BY DEF PairInv, TypeOK, EvictBackupPods, Evicted, Cache
<1>4. TypeOK'
    BY <1>1, <1>2, <1>3 DEF PairInv, TypeOK
<1>5. Passwords' /\ Evidence' /\ Order' /\ Prepared'
    BY <1>1 DEF PairInv, Passwords, Evidence, Order, Prepared
<1>6. PassOK'
    BY <1>1, <1>2, <1>3 DEF PairInv, TypeOK, PassOK, HasPassword, HasCopied,
       HasClaim, HasSnapshot, EvictBackupPods, At
<1> QED
    BY <1>4, <1>5, <1>6 DEF PairInv

\* Probe keeps the invariant.
LEMMA ProbeInv == PairInv /\ Probe => PairInv'
<1> SUFFICES ASSUME PairInv, Probe PROVE PairInv'
    OBVIOUS
<1>1. UNCHANGED <<source, dest, secret, rs, rd, repo, push, pull, cache, status, backup>>
    BY DEF Probe, Reads, PassFrame
<1>2. left' \in 0 .. MaxFaults
    BY PairAssumption DEF PairInv, TypeOK, Probe, Fault
<1>3. /\ pass' \in Pass
      /\ pass'.at = "prune"
      /\ pass'.synced = pass.synced
  <2>1. pass \in Pass /\ dest \in Dest /\ pull \in Mover /\ rs \in Pair /\ rd \in Pair
    BY DEF PairInv, TypeOK
  <2>2. PICK blind \in BOOLEAN :
           pass' = [pass EXCEPT !.at = "prune",
                 !.probed = LagZero /\ (blind \/ (~dest.pin /\ ~pull.pinned))]
    BY DEF Probe
  <2>3. (LagZero /\ (blind \/ (~dest.pin /\ ~pull.pinned))) \in BOOLEAN
    OBVIOUS
  <2> QED
    BY <2>1, <2>2, <2>3, Places DEF Pass
<1>4. PassOK'
    BY <1>1, <1>3 DEF PairInv, TypeOK, Probe, At, PassOK, HasPassword, HasCopied,
       HasClaim, HasSnapshot
<1> QED
    BY <1>1, <1>2, <1>3, <1>4, PassOnly

\* Prune keeps the invariant.
LEMMA PruneInv == PairInv /\ Prune => PairInv'
<1> SUFFICES ASSUME PairInv, Prune PROVE PairInv'
    OBVIOUS
<1>1. UNCHANGED <<source, dest, secret, rs, rd, repo, push, pull, cache, status, backup>>
    BY DEF Prune, Reads, PassFrame
<1>2. left' \in 0 .. MaxFaults
    BY PairAssumption DEF PairInv, TypeOK, Prune
<1>3. /\ pass' \in Pass
      /\ pass'.at \in {"end", "dropSource"}
      /\ pass'.synced = pass.synced
      /\ pass'.at \in {"dropSource", "dropDest"} => pass'.next # "idle"
    BY Places, PassGoes DEF PairInv, TypeOK, Prune, GoTo, At, Pass, Obsolete
<1>4. PassOK'
    BY <1>1, <1>3 DEF PairInv, TypeOK, Prune, At, PassOK, HasPassword, HasCopied,
       HasClaim, HasSnapshot
<1> QED
    BY <1>1, <1>2, <1>3, <1>4, PassOnly

\* DropSource keeps the invariant.
LEMMA DropSourceInv == PairInv /\ DropSource => PairInv'
<1> SUFFICES ASSUME PairInv, DropSource PROVE PairInv'
    OBVIOUS
<1> USE PairAssumption
<1>1. UNCHANGED <<left, source, dest, secret, rd, repo, pull, cache, status, backup>>
    BY DEF DropSource, Reads, PassFrame
<1>2. /\ pass' \in Pass
      /\ pass'.at = "dropDest"
      /\ pass'.synced = pass.synced
      /\ pass'.next # "idle"
    BY Places, PassGoes DEF PairInv, TypeOK, DropSource, GoTo, At, Pass
<1>3. /\ rs' \in Pair
      /\ ~rs'.on
      /\ ~rs'.synced
    BY DEF PairInv, TypeOK, DropSource, Orphaned, NoPair, Pair, Mover
<1>4. /\ push' \in Mover
      /\ push'.at = push.at
      /\ push'.key = push.key
      /\ push'.data = push.data
    BY DEF PairInv, TypeOK, DropSource, Orphaned, NoPair, Pair, Mover
<1>5. TypeOK'
    BY <1>1, <1>2, <1>3, <1>4 DEF PairInv, TypeOK, NoMover, Mover, MaybeKey, Version
<1>6. Prepared'
    BY <1>1 DEF PairInv, Prepared
<1>7. PassOK'
    BY <1>1, <1>2, <1>3, <1>4 DEF PairInv, TypeOK, PassOK, HasPassword, HasCopied,
       HasClaim, HasSnapshot, DropSource, At, Source, Dest, Repo, Mover, Version
<1>8. Passwords'
    BY <1>1, <1>2, <1>3, <1>4 DEF PairInv, TypeOK, Passwords
<1>9. Evidence'
    BY <1>1, <1>2, <1>3, <1>4 DEF PairInv, TypeOK, Evidence, Source, Dest, Repo,
       Mover, Version
<1>10. Order'
    BY <1>1, <1>2, <1>3, <1>4 DEF PairInv, TypeOK, Order, Source, Dest, Repo, Mover,
       Version
<1> QED
    BY <1>5, <1>6, <1>7, <1>8, <1>9, <1>10 DEF PairInv

\* DropDest keeps the invariant.
LEMMA DropDestInv == PairInv /\ DropDest => PairInv'
<1> SUFFICES ASSUME PairInv, DropDest PROVE PairInv'
    OBVIOUS
<1> USE PairAssumption
<1>1. UNCHANGED <<left, source, dest, secret, rs, repo, push, status, backup>>
    BY DEF DropDest, Reads, PassFrame
<1>2. /\ pass' \in Pass
      /\ pass'.at \in {"probe", "end"}
      /\ pass'.synced = pass.synced
    BY Places, PassGoes DEF PairInv, TypeOK, DropDest, GoTo, At, Pass
<1>3. /\ rd' \in Pair
      /\ ~rd'.on
    BY DEF PairInv, TypeOK, DropDest, Orphaned, NoPair, Pair, Mover, NoCache, Cache
<1>4. /\ pull' \in Mover
      /\ pull'.at = pull.at
      /\ pull'.key = pull.key
      /\ pull'.data = pull.data
    BY DEF PairInv, TypeOK, DropDest, Orphaned, NoPair, Pair, Mover, NoCache, Cache
<1>5. cache' \in Cache
    BY DEF PairInv, TypeOK, DropDest, Orphaned, NoPair, Pair, Mover, NoCache, Cache
<1>6. TypeOK'
    BY <1>1, <1>2, <1>3, <1>4, <1>5 DEF PairInv, TypeOK, NoMover, Mover, MaybeKey,
       Version
<1>7. PassOK'
    BY <1>1, <1>2, <1>3, <1>4, <1>5 DEF PairInv, TypeOK, PassOK, HasPassword,
       HasCopied, HasClaim, HasSnapshot, DropDest, At, Source, Dest, Repo, Mover,
       Version
<1>8. Passwords'
    BY <1>1, <1>2, <1>3, <1>4, <1>5 DEF PairInv, TypeOK, Passwords
<1>9. Evidence'
    BY <1>1, <1>2, <1>3, <1>4, <1>5 DEF PairInv, TypeOK, Evidence, Source, Dest,
       Repo, Mover, Version
<1>10. Order'
    BY <1>1, <1>2, <1>3, <1>4, <1>5 DEF PairInv, TypeOK, Order, Source, Dest, Repo,
       Mover, Version
<1>11. Prepared'
    BY <1>1, <1>2, <1>3, <1>4, <1>5 DEF PairInv, TypeOK, Prepared
<1> QED
    BY <1>6, <1>7, <1>8, <1>9, <1>10, <1>11 DEF PairInv

\* Report keeps the invariant.
LEMMA ReportInv == PairInv /\ Report => PairInv'
<1> SUFFICES ASSUME PairInv, Report PROVE PairInv'
    OBVIOUS
<1> USE PairAssumption
<1>1. UNCHANGED <<left, source, dest, secret, rs, rd, repo, push, pull, cache, backup>>
    BY DEF Report, Reads, PassFrame
<1>2. /\ pass' \in Pass
      /\ pass'.at = "idle"
      /\ pass'.synced = FALSE
    BY Places, PassGoes DEF PairInv, TypeOK, Report, GoTo, At, Pass, NoPass
<1>3. status' \in BOOLEAN
    BY DEF PairInv, TypeOK, Report, NoPass
<1>4. TypeOK'
    BY <1>1, <1>2, <1>3 DEF PairInv, TypeOK
<1>5. Passwords' /\ Evidence' /\ Order' /\ Prepared'
    BY <1>1 DEF PairInv, Passwords, Evidence, Order, Prepared
<1>6. PassOK'
    BY <1>1, <1>2, <1>3 DEF PairInv, TypeOK, PassOK, HasPassword, HasCopied,
       HasClaim, HasSnapshot, Report, At
<1> QED
    BY <1>4, <1>5, <1>6 DEF PairInv

\* CallFails keeps the invariant.
LEMMA CallFailsInv == PairInv /\ CallFails => PairInv'
<1> SUFFICES ASSUME PairInv, CallFails PROVE PairInv'
    OBVIOUS
<1>1. UNCHANGED <<source, dest, secret, rs, rd, repo, push, pull, cache, status, backup>>
    BY DEF CallFails, Reads, PassFrame
<1>2. left' \in 0 .. MaxFaults
    BY PairAssumption DEF PairInv, TypeOK, CallFails, Fault
<1>3. /\ pass' \in Pass
      /\ pass'.at = "prune"
      /\ pass'.synced = pass.synced
    BY Places, PassGoes DEF PairInv, TypeOK, CallFails, GoTo, At, Pass, GiveUp
<1>4. PassOK'
    BY <1>1, <1>3 DEF PairInv, TypeOK, CallFails, At, PassOK, HasPassword, HasCopied,
       HasClaim, HasSnapshot
<1> QED
    BY <1>1, <1>2, <1>3, <1>4, PassOnly

\* ErrorDropped keeps the invariant.
LEMMA ErrorDroppedInv == PairInv /\ ErrorDropped => PairInv'
<1> SUFFICES ASSUME PairInv, ErrorDropped PROVE PairInv'
    OBVIOUS
<1>1. UNCHANGED <<source, dest, secret, rs, rd, repo, push, pull, cache, status, backup>>
    BY DEF ErrorDropped, Reads, PassFrame
<1>2. left' \in 0 .. MaxFaults
    BY PairAssumption DEF PairInv, TypeOK, ErrorDropped, Fault
<1>3. /\ pass' \in Pass
      /\ pass'.at = "unpin" => pass.at = "strip"
      /\ pass'.at = "read" => pass.at = "unpin"
      /\ pass'.at = "destination" => pass.at \in {"look", "kill"}
      /\ pass'.at \in {"unpin", "read", "destination", "probe", "prune", "end", "dropDest"}
      /\ pass'.synced = pass.synced
      /\ pass'.at \in {"dropSource", "dropDest"} => pass'.next # "idle"
    BY Places, PassGoes DEF PairInv, TypeOK, ErrorDropped, GoTo, At, Pass, Beyond
<1>4. PassOK'
    BY <1>1, <1>3 DEF PairInv, TypeOK, ErrorDropped, At, PassOK, HasPassword,
       HasCopied, HasClaim, HasSnapshot
<1> QED
    BY <1>1, <1>2, <1>3, <1>4, PassOnly

\* BackupBegin keeps the invariant.
LEMMA BackupBeginInv == PairInv /\ BackupBegin => PairInv'
<1> SUFFICES ASSUME PairInv, BackupBegin PROVE PairInv'
    OBVIOUS
<1> USE PairAssumption
<1>1. UNCHANGED <<left, source, dest, secret, rs, rd, repo, push, pull, cache, status,
                    pass>>
    BY DEF BackupBegin, BackupFrom
<1>2. backup' = "secrets"
    BY DEF PairInv, TypeOK, BackupBegin, BackupFrom
<1>3. TypeOK'
    BY <1>1, <1>2 DEF PairInv, TypeOK
<1>4. PassOK' /\ Evidence' /\ Order' /\ Prepared'
    BY <1>1 DEF PairInv, PassOK, Evidence, Order, Prepared
<1>5. Passwords'
    BY <1>1, <1>2 DEF PairInv, TypeOK, Passwords
<1> QED
    BY <1>3, <1>4, <1>5 DEF PairInv

\* BackupSecrets keeps the invariant.
LEMMA BackupSecretsInv == PairInv /\ BackupSecrets => PairInv'
<1> SUFFICES ASSUME PairInv, BackupSecrets PROVE PairInv'
    OBVIOUS
<1> USE PairAssumption
<1>1. UNCHANGED <<left, source, dest, rs, rd, repo, push, pull, cache, status, pass>>
    BY DEF BackupSecrets, BackupFrom
<1>2. backup' = "source"
    BY DEF PairInv, TypeOK, BackupSecrets, BackupFrom, WithPassword, Secret,
       MaybeKey
<1>3. /\ secret' \in Secret
      /\ secret'.source \in Keys
      /\ secret.source # NoKey => secret'.source = secret.source
      /\ secret'.dest = secret.dest
    BY DEF PairInv, TypeOK, BackupSecrets, BackupFrom, WithPassword, Secret,
       MaybeKey
<1>4. TypeOK'
    BY <1>1, <1>2, <1>3 DEF PairInv, TypeOK
<1>5. Evidence' /\ Order'
    BY <1>1 DEF PairInv, Evidence, Order
<1>6. PassOK'
    BY <1>1, <1>2, <1>3 DEF PairInv, TypeOK, PassOK, HasPassword, HasCopied,
       HasClaim, HasSnapshot
<1>7. Passwords'
    BY <1>1, <1>2, <1>3 DEF PairInv, TypeOK, Passwords
<1>8. Prepared'
    BY <1>1, <1>2, <1>3 DEF PairInv, TypeOK, Prepared
<1> QED
    BY <1>4, <1>5, <1>6, <1>7, <1>8 DEF PairInv

\* BackupSource keeps the invariant.
LEMMA BackupSourceInv == PairInv /\ BackupSource => PairInv'
<1> SUFFICES ASSUME PairInv, BackupSource PROVE PairInv'
    OBVIOUS
<1> USE PairAssumption
<1>1. UNCHANGED <<left, source, dest, secret, rd, repo, push, pull, cache, status,
                    pass>>
    BY DEF BackupSource, BackupFrom
<1>2. backup' = "scratch"
    BY DEF PairInv, TypeOK, BackupSource, BackupFrom, Applied, Pair
<1>3. backup = "source"
    BY DEF PairInv, TypeOK, BackupSource, BackupFrom, Applied, Pair
<1>4. /\ rs' \in Pair
      /\ rs'.synced => rs.synced
    BY DEF PairInv, TypeOK, BackupSource, BackupFrom, Applied, Pair
<1>5. TypeOK'
    BY <1>1, <1>2, <1>3, <1>4 DEF PairInv, TypeOK
<1>6. PassOK' /\ Order' /\ Prepared'
    BY <1>1 DEF PairInv, PassOK, Order, Prepared
<1>7. Passwords'
    BY <1>1, <1>2, <1>3, <1>4 DEF PairInv, TypeOK, Passwords
<1>8. Evidence'
    BY <1>1, <1>2, <1>3, <1>4 DEF PairInv, TypeOK, Evidence
<1> QED
    BY <1>5, <1>6, <1>7, <1>8 DEF PairInv

\* BackupScratch keeps the invariant.
LEMMA BackupScratchInv == PairInv /\ BackupScratch => PairInv'
<1> SUFFICES ASSUME PairInv, BackupScratch PROVE PairInv'
    OBVIOUS
<1> USE PairAssumption
<1>1. UNCHANGED <<left, source, dest, secret, rs, rd, repo, push, pull, status, pass>>
    BY DEF BackupScratch, BackupFrom
<1>2. backup' = "idle"
    BY DEF PairInv, TypeOK, BackupScratch, BackupFrom, Marked, Evicted, Cache
<1>3. cache' \in Cache
    BY DEF PairInv, TypeOK, BackupScratch, BackupFrom, Marked, Evicted, Cache
<1>4. TypeOK'
    BY <1>1, <1>2, <1>3 DEF PairInv, TypeOK
<1>5. PassOK' /\ Evidence' /\ Order' /\ Prepared'
    BY <1>1 DEF PairInv, PassOK, Evidence, Order, Prepared
<1>6. Passwords'
    BY <1>1, <1>2, <1>3 DEF PairInv, TypeOK, Passwords
<1> QED
    BY <1>4, <1>5, <1>6 DEF PairInv

\* BackupFails keeps the invariant.
LEMMA BackupFailsInv == PairInv /\ BackupFails => PairInv'
<1> SUFFICES ASSUME PairInv, BackupFails PROVE PairInv'
    OBVIOUS
<1> USE PairAssumption
<1>1. UNCHANGED <<source, dest, secret, rs, rd, repo, push, pull, cache, status, pass>>
    BY DEF BackupFails, BackupFrom
<1>2. backup' = "idle"
    BY DEF PairInv, TypeOK, BackupFails, BackupFrom, Fault
<1>3. left' \in 0 .. MaxFaults
    BY DEF PairInv, TypeOK, BackupFails, BackupFrom, Fault
<1>4. TypeOK'
    BY <1>1, <1>2, <1>3 DEF PairInv, TypeOK
<1>5. PassOK' /\ Evidence' /\ Order' /\ Prepared'
    BY <1>1 DEF PairInv, PassOK, Evidence, Order, Prepared
<1>6. Passwords'
    BY <1>1, <1>2, <1>3 DEF PairInv, TypeOK, Passwords
<1> QED
    BY <1>4, <1>5, <1>6 DEF PairInv

\* PushStart keeps the invariant.
LEMMA PushStartInv == PairInv /\ PushStart => PairInv'
<1> SUFFICES ASSUME PairInv, PushStart PROVE PairInv'
    OBVIOUS
<1> USE PairAssumption
<1>1. UNCHANGED <<left, source, dest, secret, rs, rd, repo, pull, cache, status,
                    backup, pass>>
    BY DEF PushStart, MoverFrame
<1>2. /\ push' \in Mover
      /\ push'.at \in {"init", "copy"}
      /\ push'.at = "init" <=> repo.key = NoKey
      /\ push'.key = secret.source
      /\ push'.data = source.data
  <2>1. secret.source \in MaybeKey /\ source.data \in Version
      BY DEF PairInv, TypeOK, Source, Secret, Version
  <2>2. push' = Started(secret.source, source.data)
      BY DEF PushStart
  <2> QED
      BY <2>1, <2>2, StartedMover
<1>3. rs.on
    BY DEF PairInv, TypeOK, PushStart, Started, NoMover, Mover, Source, Secret,
       MaybeKey, Version, Repo
<1>4. TypeOK'
    BY <1>1, <1>2, <1>3 DEF PairInv, TypeOK, NoMover, Mover, MaybeKey, Version,
       Passwords, Prepared
<1>5. PassOK' /\ Prepared'
    BY <1>1 DEF PairInv, PassOK, Prepared
<1>6. Passwords'
    BY <1>1, <1>2, <1>3 DEF PairInv, TypeOK, Passwords
<1>7. Evidence'
    BY <1>1, <1>2, <1>3 DEF PairInv, TypeOK, Evidence, Source, Dest, Repo, Mover,
       Version
<1>8. Order'
    BY <1>1, <1>2, <1>3 DEF PairInv, TypeOK, Order, Source, Dest, Repo, Mover,
       Version
<1> QED
    BY <1>4, <1>5, <1>6, <1>7, <1>8 DEF PairInv

\* PushInit keeps the invariant.
LEMMA PushInitInv == PairInv /\ PushInit => PairInv'
<1> SUFFICES ASSUME PairInv, PushInit PROVE PairInv'
    OBVIOUS
<1> USE PairAssumption
<1>1. UNCHANGED <<left, source, dest, secret, rs, rd, pull, cache, status, backup,
                    pass>>
    BY DEF PushInit, MoverFrame
<1>2. /\ push' \in Mover
      /\ push'.at = "copy"
      /\ push'.key = push.key
      /\ push'.data = push.data
    BY DEF PairInv, TypeOK, PushInit, Initialised, Mover, Repo, MaybeKey
<1>3. push.at = "init"
    BY DEF PairInv, TypeOK, PushInit, Initialised, Mover, Repo, MaybeKey
<1>4. /\ repo' \in Repo
      /\ repo'.key = push.key
      /\ repo'.snap = repo.snap
    BY DEF PairInv, TypeOK, PushInit, Evidence, Mover, Initialised, Repo, MaybeKey
<1>5. TypeOK'
    BY <1>1, <1>2, <1>3, <1>4 DEF PairInv, TypeOK, NoMover, Mover, MaybeKey, Version
<1>6. Prepared'
    BY <1>1 DEF PairInv, Prepared
<1>7. PassOK'
    BY <1>1, <1>2, <1>3, <1>4 DEF PairInv, TypeOK, PassOK, HasPassword, HasCopied,
       HasClaim, HasSnapshot, Source, Dest, Repo, Mover, Version
<1>8. Passwords'
    BY <1>1, <1>2, <1>3, <1>4 DEF PairInv, TypeOK, Passwords
<1>9. Evidence'
    BY <1>1, <1>2, <1>3, <1>4 DEF PairInv, TypeOK, Evidence, Source, Dest, Repo,
       Mover, Version
<1>10. Order'
    BY <1>1, <1>2, <1>3, <1>4 DEF PairInv, TypeOK, Order, Source, Dest, Repo, Mover,
       Version
<1> QED
    BY <1>5, <1>6, <1>7, <1>8, <1>9, <1>10 DEF PairInv

\* PushDone keeps the invariant.
LEMMA PushDoneInv == PairInv /\ PushDone => PairInv'
<1> SUFFICES ASSUME PairInv, PushDone PROVE PairInv'
    OBVIOUS
<1> USE PairAssumption
<1>1. UNCHANGED <<left, source, dest, secret, rd, pull, cache, status, backup, pass>>
    BY DEF PushDone, MoverFrame
<1>2. push' = NoMover
    BY DEF PairInv, TypeOK, PushDone, NoMover, Mover, Repo, Pair, Version
<1>3. push.at = "copy"
    BY DEF PairInv, TypeOK, PushDone, NoMover, Mover, Repo, Pair, Version
<1>4. /\ repo' \in Repo
      /\ repo'.key = repo.key
      /\ repo'.snap = push.data
    BY DEF PairInv, TypeOK, PushDone, NoMover, Mover, Repo, Pair, Version
<1>5. /\ rs' \in Pair
      /\ rs'.on = rs.on
    BY DEF PairInv, TypeOK, PushDone, NoMover, Mover, Repo, Pair, Version
<1>6. TypeOK'
    BY <1>1, <1>2, <1>3, <1>4, <1>5 DEF PairInv, TypeOK, NoMover, Mover, MaybeKey,
       Version
<1>7. Prepared'
    BY <1>1 DEF PairInv, Prepared
<1>8. PassOK'
  <2>1. repo'.snap > 0
    BY <1>3, <1>4 DEF PairInv, TypeOK, Order, Mover, Version
  <2> QED
    BY <1>1, <2>1 DEF PairInv, PassOK
<1>9. Passwords'
    BY <1>1, <1>2, <1>3, <1>4, <1>5 DEF PairInv, TypeOK, Passwords, NoMover
<1>10. Evidence'
    BY <1>1, <1>2, <1>3, <1>4, <1>5 DEF PairInv, TypeOK, Evidence, NoMover, Order,
       Source, Dest, Repo, Mover, Version
<1>11. Order'
    BY <1>1, <1>2, <1>3, <1>4, <1>5 DEF PairInv, TypeOK, Order, NoMover, Source,
       Dest, Repo, Mover, Version
<1> QED
    BY <1>6, <1>7, <1>8, <1>9, <1>10, <1>11 DEF PairInv

\* PushFails keeps the invariant.
LEMMA PushFailsInv == PairInv /\ PushFails => PairInv'
<1> SUFFICES ASSUME PairInv, PushFails PROVE PairInv'
    OBVIOUS
<1> USE PairAssumption
<1>1. UNCHANGED <<source, dest, secret, rs, rd, repo, pull, cache, status, backup,
                    pass>>
    BY DEF PushFails, MoverFrame
<1>2. push' = NoMover
    BY DEF PairInv, TypeOK, PushFails, Fault
<1>3. left' \in 0 .. MaxFaults
    BY DEF PairInv, TypeOK, PushFails, Fault
<1>4. TypeOK'
    BY <1>1, <1>2, <1>3 DEF PairInv, TypeOK, NoMover, Mover, MaybeKey, Version
<1>5. PassOK' /\ Prepared'
    BY <1>1 DEF PairInv, PassOK, Prepared
<1>6. Passwords'
    BY <1>1, <1>2, <1>3 DEF PairInv, TypeOK, Passwords, NoMover
<1>7. Evidence'
    BY <1>1, <1>2, <1>3 DEF PairInv, TypeOK, Evidence, NoMover, Source, Dest, Repo,
       Mover, Version
<1>8. Order'
    BY <1>1, <1>2, <1>3 DEF PairInv, TypeOK, Order, NoMover, Source, Dest, Repo,
       Mover, Version
<1> QED
    BY <1>4, <1>5, <1>6, <1>7, <1>8 DEF PairInv

\* CollectPush keeps the invariant.
LEMMA CollectPushInv == PairInv /\ CollectPush => PairInv'
<1> SUFFICES ASSUME PairInv, CollectPush PROVE PairInv'
    OBVIOUS
<1> USE PairAssumption
<1>1. UNCHANGED <<left, source, dest, secret, rs, rd, repo, pull, cache, status,
                    backup, pass>>
    BY DEF CollectPush, MoverFrame
<1>2. push' = NoMover
    BY DEF PairInv, TypeOK, CollectPush
<1>3. TypeOK'
    BY <1>1, <1>2 DEF PairInv, TypeOK, NoMover, Mover, MaybeKey, Version
<1>4. PassOK' /\ Prepared'
    BY <1>1 DEF PairInv, PassOK, Prepared
<1>5. Passwords'
    BY <1>1, <1>2 DEF PairInv, TypeOK, Passwords, NoMover
<1>6. Evidence'
    BY <1>1, <1>2 DEF PairInv, TypeOK, Evidence, NoMover, Source, Dest, Repo, Mover,
       Version
<1>7. Order'
    BY <1>1, <1>2 DEF PairInv, TypeOK, Order, NoMover, Source, Dest, Repo, Mover,
       Version
<1> QED
    BY <1>3, <1>4, <1>5, <1>6, <1>7 DEF PairInv

\* PullStart keeps the invariant.
LEMMA PullStartInv == PairInv /\ PullStart => PairInv'
<1> SUFFICES ASSUME PairInv, PullStart PROVE PairInv'
    OBVIOUS
<1> USE PairAssumption
<1>1. UNCHANGED <<left, source, dest, secret, rs, rd, repo, push, status, backup, pass>>
    BY DEF PullStart, MoverFrame
<1>2. /\ pull' \in Mover
      /\ pull'.at \in {"init", "copy"}
      /\ pull'.at = "init" <=> repo.key = NoKey
      /\ pull'.key = secret.dest
      /\ pull'.data = repo.snap
    BY DEF PairInv, TypeOK, PullStart, Started, NoMover, Mover, Dest, Secret,
       MaybeKey, Version, Repo, Cache
<1>3. rd.on
    BY DEF PairInv, TypeOK, PullStart, Started, NoMover, Mover, Dest, Secret,
       MaybeKey, Version, Repo, Cache
<1>4. cache' \in Cache
    BY DEF PairInv, TypeOK, PullStart, Started, NoMover, Mover, Dest, Secret,
       MaybeKey, Version, Repo, Cache
<1>5. TypeOK'
    BY <1>1, <1>2, <1>3, <1>4 DEF PairInv, TypeOK, NoMover, Mover, MaybeKey, Version,
       Passwords, Prepared
<1>6. PassOK' /\ Prepared'
    BY <1>1 DEF PairInv, PassOK, Prepared, PullStart
<1>7. Passwords'
    BY <1>1, <1>2, <1>3, <1>4 DEF PairInv, TypeOK, Passwords, Prepared
<1>8. Evidence'
    BY <1>1, <1>2, <1>3, <1>4 DEF PairInv, TypeOK, Evidence, Source, Dest, Repo,
       Mover, Version
<1>9. Order'
    BY <1>1, <1>2, <1>3, <1>4 DEF PairInv, TypeOK, Order, Evidence, Source, Dest,
       Repo, Mover, Version
<1> QED
    BY <1>5, <1>6, <1>7, <1>8, <1>9 DEF PairInv

\* PullDone keeps the invariant.
LEMMA PullDoneInv == PairInv /\ PullDone => PairInv'
<1> SUFFICES ASSUME PairInv, PullDone PROVE PairInv'
    OBVIOUS
<1> USE PairAssumption
<1>1. UNCHANGED <<left, source, secret, rs, push, cache, status, backup, pass>>
    BY DEF PullDone, MoverFrame
<1>2. pull' = NoMover
    BY DEF PairInv, TypeOK, PullDone, Evidence, PullRuns, Initialised, NoMover,
       Mover, Dest, Pair, Version, Repo
<1>3. pull.at = "copy"
    BY DEF PairInv, TypeOK, PullDone, Evidence, PullRuns, Initialised, NoMover,
       Mover, Dest, Pair, Version, Repo
<1>4. /\ dest' \in Dest
      /\ dest'.copy = pull.data
      /\ dest'.ns = dest.ns
      /\ dest'.claim = dest.claim
    BY DEF PairInv, TypeOK, PullDone, Dest, Version, PullRuns, Initialised, NoMover,
       Mover, Pair, Repo
<1>5. /\ rd' \in Pair
      /\ rd'.on = rd.on
    BY DEF PairInv, TypeOK, PullDone, PullRuns, Initialised, NoMover, Mover, Dest,
       Pair, Version, Repo
<1>6. /\ repo' \in Repo
      /\ repo'.key = repo.key
      /\ repo'.snap = repo.snap
    BY DEF PairInv, TypeOK, PullDone, Evidence, NoMover, PullRuns, Initialised,
       Mover, Dest, Pair, Version, Repo
<1>13. dest.claim
    BY <1>3 DEF PairInv, Prepared
<1>7. TypeOK'
    BY <1>1, <1>2, <1>3, <1>4, <1>5, <1>6 DEF PairInv, TypeOK, NoMover, Mover,
       MaybeKey, Version
<1>8. PassOK'
    BY <1>13, <1>1, <1>2, <1>3, <1>4, <1>5, <1>6 DEF PairInv, TypeOK, PassOK, HasPassword,
       HasCopied, HasClaim, HasSnapshot, NoMover, Source, Dest, Repo, Mover, Version
<1>9. Passwords'
    BY <1>1, <1>2, <1>3, <1>4, <1>5, <1>6 DEF PairInv, TypeOK, Passwords, NoMover
<1>10. Evidence'
    BY <1>1, <1>2, <1>3, <1>4, <1>5, <1>6 DEF PairInv, TypeOK, Evidence, NoMover,
       Source, Dest, Repo, Mover, Version
<1>11. Order'
    BY <1>1, <1>2, <1>3, <1>4, <1>5, <1>6 DEF PairInv, TypeOK, Order, NoMover,
       Source, Dest, Repo, Mover, Version
<1>12. Prepared'
    BY <1>13, <1>1, <1>2, <1>3, <1>4, <1>5, <1>6 DEF PairInv, TypeOK, Prepared, NoMover
<1> QED
    BY <1>7, <1>8, <1>9, <1>10, <1>11, <1>12 DEF PairInv

\* PullFails keeps the invariant.
LEMMA PullFailsInv == PairInv /\ PullFails => PairInv'
<1> SUFFICES ASSUME PairInv, PullFails PROVE PairInv'
    OBVIOUS
<1> USE PairAssumption
<1>1. UNCHANGED <<source, dest, secret, rs, rd, repo, push, cache, status, backup,
                    pass>>
    BY DEF PullFails, MoverFrame
<1>2. pull' = NoMover
    BY DEF PairInv, TypeOK, PullFails, Fault
<1>3. left' \in 0 .. MaxFaults
    BY DEF PairInv, TypeOK, PullFails, Fault
<1>4. TypeOK'
    BY <1>1, <1>2, <1>3 DEF PairInv, TypeOK, NoMover, Mover, MaybeKey, Version
<1>5. PassOK' /\ Prepared'
    BY <1>1, <1>2 DEF PairInv, PassOK, Prepared, NoMover
<1>6. Passwords'
    BY <1>1, <1>2, <1>3 DEF PairInv, TypeOK, Passwords, NoMover
<1>7. Evidence'
    BY <1>1, <1>2, <1>3 DEF PairInv, TypeOK, Evidence, NoMover, Source, Dest, Repo,
       Mover, Version
<1>8. Order'
    BY <1>1, <1>2, <1>3 DEF PairInv, TypeOK, Order, NoMover, Source, Dest, Repo,
       Mover, Version
<1> QED
    BY <1>4, <1>5, <1>6, <1>7, <1>8 DEF PairInv

\* CollectPull keeps the invariant.
LEMMA CollectPullInv == PairInv /\ CollectPull => PairInv'
<1> SUFFICES ASSUME PairInv, CollectPull PROVE PairInv'
    OBVIOUS
<1> USE PairAssumption
<1>1. UNCHANGED <<left, source, dest, secret, rs, rd, repo, push, cache, status,
                    backup, pass>>
    BY DEF CollectPull, MoverFrame
<1>2. pull' = NoMover
    BY DEF PairInv, TypeOK, CollectPull
<1>3. TypeOK'
    BY <1>1, <1>2 DEF PairInv, TypeOK, NoMover, Mover, MaybeKey, Version
<1>4. PassOK' /\ Prepared'
    BY <1>1, <1>2 DEF PairInv, PassOK, Prepared, NoMover
<1>5. Passwords'
    BY <1>1, <1>2 DEF PairInv, TypeOK, Passwords, NoMover
<1>6. Evidence'
    BY <1>1, <1>2 DEF PairInv, TypeOK, Evidence, NoMover, Source, Dest, Repo, Mover,
       Version
<1>7. Order'
    BY <1>1, <1>2 DEF PairInv, TypeOK, Order, NoMover, Source, Dest, Repo, Mover,
       Version
<1> QED
    BY <1>3, <1>4, <1>5, <1>6, <1>7 DEF PairInv

\* SourceWrites keeps the invariant.
LEMMA SourceWritesInv == PairInv /\ SourceWrites => PairInv'
<1> SUFFICES ASSUME PairInv, SourceWrites PROVE PairInv'
    OBVIOUS
<1> USE PairAssumption
<1>1. UNCHANGED <<left, dest, secret, rs, rd, repo, push, pull, cache, status, backup,
                    pass>>
    BY DEF SourceWrites, TenantFrame
<1>2. /\ source' \in Source
      /\ source'.data = source.data + 1
    BY DEF PairInv, TypeOK, SourceWrites, Source
<1>3. TypeOK'
    BY <1>1, <1>2 DEF PairInv, TypeOK
<1>4. PassOK' /\ Passwords' /\ Evidence' /\ Prepared'
    BY <1>1 DEF PairInv, PassOK, Passwords, Evidence, Prepared
<1>5. Order'
    BY <1>1, <1>2 DEF PairInv, TypeOK, Order, Source, Dest, Repo, Mover, Version
<1> QED
    BY <1>3, <1>4, <1>5 DEF PairInv

\* ClaimChanges keeps the invariant.
LEMMA ClaimChangesInv == PairInv /\ ClaimChanges => PairInv'
<1> SUFFICES ASSUME PairInv, ClaimChanges PROVE PairInv'
    OBVIOUS
<1> USE PairAssumption
<1>1. UNCHANGED <<dest, secret, rs, rd, repo, push, pull, cache, status, backup, pass>>
    BY DEF ClaimChanges, TenantFrame
<1>2. /\ source' \in Source
      /\ source'.data = source.data
    BY DEF PairInv, TypeOK, ClaimChanges, Fault, Source
<1>3. left' \in 0 .. MaxFaults
    BY DEF PairInv, TypeOK, ClaimChanges, Fault, Source
<1>4. TypeOK'
    BY <1>1, <1>2, <1>3 DEF PairInv, TypeOK
<1>5. PassOK' /\ Passwords' /\ Evidence' /\ Prepared'
    BY <1>1 DEF PairInv, PassOK, Passwords, Evidence, Prepared
<1>6. Order'
    BY <1>1, <1>2, <1>3 DEF PairInv, TypeOK, Order
<1> QED
    BY <1>4, <1>5, <1>6 DEF PairInv

\* WorkloadChanges keeps the invariant.
LEMMA WorkloadChangesInv == PairInv /\ WorkloadChanges => PairInv'
<1> SUFFICES ASSUME PairInv, WorkloadChanges PROVE PairInv'
    OBVIOUS
<1> USE PairAssumption
<1>1. UNCHANGED <<dest, secret, rs, rd, repo, push, pull, cache, status, backup, pass>>
    BY DEF WorkloadChanges, TenantFrame
<1>2. /\ source' \in Source
      /\ source'.data = source.data
    BY DEF PairInv, TypeOK, WorkloadChanges, Fault, Source
<1>3. left' \in 0 .. MaxFaults
    BY DEF PairInv, TypeOK, WorkloadChanges, Fault, Source
<1>4. TypeOK'
    BY <1>1, <1>2, <1>3 DEF PairInv, TypeOK
<1>5. PassOK' /\ Passwords' /\ Evidence' /\ Prepared'
    BY <1>1 DEF PairInv, PassOK, Passwords, Evidence, Prepared
<1>6. Order'
    BY <1>1, <1>2, <1>3 DEF PairInv, TypeOK, Order
<1> QED
    BY <1>4, <1>5, <1>6 DEF PairInv

\* PodChanges keeps the invariant.
LEMMA PodChangesInv == PairInv /\ PodChanges => PairInv'
<1> SUFFICES ASSUME PairInv, PodChanges PROVE PairInv'
    OBVIOUS
<1> USE PairAssumption
<1>1. UNCHANGED <<source, secret, rs, rd, repo, push, pull, cache, status, backup,
                    pass>>
    BY DEF PodChanges, TenantFrame
<1>2. /\ dest' \in Dest
      /\ dest'.ns = dest.ns
      /\ dest'.claim = dest.claim
      /\ dest'.lost = dest.lost
      /\ dest'.copy = dest.copy
    BY DEF PairInv, TypeOK, PodChanges, Dest, Version, Fault
<1>3. left' \in 0 .. MaxFaults
    BY DEF PairInv, TypeOK, PodChanges, Fault, Dest
<1>4. TypeOK'
    BY <1>1, <1>2, <1>3 DEF PairInv, TypeOK
<1>5. Passwords' /\ Evidence'
    BY <1>1 DEF PairInv, Passwords, Evidence
<1>6. PassOK'
    BY <1>1, <1>2, <1>3 DEF PairInv, TypeOK, PassOK, HasPassword, HasCopied,
       HasClaim, HasSnapshot
<1>7. Order'
    BY <1>1, <1>2, <1>3 DEF PairInv, TypeOK, Order
<1>8. Prepared'
    BY <1>1, <1>2, <1>3 DEF PairInv, TypeOK, Prepared
<1> QED
    BY <1>4, <1>5, <1>6, <1>7, <1>8 DEF PairInv

\* PodPinned keeps the invariant.
LEMMA PodPinnedInv == PairInv /\ PodPinned => PairInv'
<1> SUFFICES ASSUME PairInv, PodPinned PROVE PairInv'
    OBVIOUS
<1> USE PairAssumption
<1>1. UNCHANGED <<source, secret, rs, rd, repo, push, pull, cache, status, backup,
                    pass>>
    BY DEF PodPinned, TenantFrame
<1>2. /\ dest' \in Dest
      /\ dest'.ns = dest.ns
      /\ dest'.claim = dest.claim
      /\ dest'.lost = dest.lost
      /\ dest'.copy = dest.copy
    BY DEF PairInv, TypeOK, PodPinned, Dest, Version, Fault
<1>3. left' \in 0 .. MaxFaults
    BY DEF PairInv, TypeOK, PodPinned, Fault, Dest
<1>4. TypeOK'
    BY <1>1, <1>2, <1>3 DEF PairInv, TypeOK
<1>5. Passwords' /\ Evidence'
    BY <1>1 DEF PairInv, Passwords, Evidence
<1>6. PassOK'
    BY <1>1, <1>2, <1>3 DEF PairInv, TypeOK, PassOK, HasPassword, HasCopied,
       HasClaim, HasSnapshot
<1>7. Order'
    BY <1>1, <1>2, <1>3 DEF PairInv, TypeOK, Order
<1>8. Prepared'
    BY <1>1, <1>2, <1>3 DEF PairInv, TypeOK, Prepared
<1> QED
    BY <1>4, <1>5, <1>6, <1>7, <1>8 DEF PairInv

\* A step that changes only dest, and in it only the pod or the claim, keeps
\* the invariant.
LEMMA DestOnly ==
    ASSUME PairInv, dest' \in Dest, dest'.ns = dest.ns, dest'.claim => dest.claim,
           pull.at = "idle" \/ dest'.claim = dest.claim,
           (dest.claim \/ dest.lost) => (dest'.claim \/ dest'.lost),
           dest'.copy \in {0, dest.copy}, left' \in 0 .. MaxFaults,
           UNCHANGED <<source, secret, rs, rd, repo, push, pull, cache, status, backup, pass>>
    PROVE  PairInv'
<1>1. TypeOK'
    BY DEF PairInv, TypeOK
<1>2. Passwords' /\ Evidence'
    BY DEF PairInv, Passwords, Evidence
<1>3. PassOK'
    BY DEF PairInv, PassOK
<1>4. Order'
  <2>1. repo.snap >= 0 /\ (pull.at # "idle" => 0 <= pull.data)
    BY DEF PairInv, TypeOK, Repo, Mover, Version
  <2> QED
    BY <2>1 DEF PairInv, Order
<1>5. Prepared'
    BY DEF PairInv, Prepared
<1> QED
    BY <1>1, <1>2, <1>3, <1>4, <1>5 DEF PairInv

\* A pod that returns keeps the invariant.
LEMMA PodReturnsInv == PairInv /\ PodReturns => PairInv'
<1> SUFFICES ASSUME PairInv, PodReturns PROVE PairInv'
    OBVIOUS
<1>1. dest' \in Dest /\ dest'.ns = dest.ns /\ dest'.claim = dest.claim
    BY DEF PodReturns, PairInv, TypeOK, Dest
<1>2. dest'.lost = dest.lost /\ dest'.copy = dest.copy
    BY DEF PodReturns, PairInv, TypeOK, Dest
<1>3. left' \in 0 .. MaxFaults
    BY DEF PodReturns, PairInv, TypeOK
<1>4. UNCHANGED <<source, secret, rs, rd, repo, push, pull, cache, status, backup, pass>>
    BY DEF PodReturns, TenantFrame
<1> QED
    BY <1>1, <1>2, <1>3, <1>4, DestOnly

\* A claim deleted by itself keeps the invariant.
LEMMA DestClaimDeletedInv == PairInv /\ DestClaimDeleted => PairInv'
<1> SUFFICES ASSUME PairInv, DestClaimDeleted PROVE PairInv'
    OBVIOUS
<1>1. dest' \in Dest /\ dest'.ns = dest.ns /\ ~dest'.claim /\ dest'.lost /\ dest'.copy = 0
  <2>1. dest \in Dest /\ 0 \in Version
    BY PairAssumption DEF PairInv, TypeOK, Version
  <2>2. dest' = [dest EXCEPT !.claim = FALSE, !.lost = TRUE, !.copy = 0]
    BY DEF DestClaimDeleted
  <2> QED
    BY <2>1, <2>2 DEF Dest
<1>2. left' \in 0 .. MaxFaults
    BY PairAssumption DEF DestClaimDeleted, Fault, PairInv, TypeOK
<1>3. pull.at = "idle"
    BY DEF DestClaimDeleted
<1>4. UNCHANGED <<source, secret, rs, rd, repo, push, pull, cache, status, backup, pass>>
    BY DEF DestClaimDeleted, TenantFrame
<1> QED
    BY <1>1, <1>2, <1>3, <1>4, DestOnly

\* NamespaceDeleted keeps the invariant.
LEMMA NamespaceDeletedInv == PairInv /\ NamespaceDeleted => PairInv'
<1> SUFFICES ASSUME PairInv, NamespaceDeleted PROVE PairInv'
    OBVIOUS
<1> USE PairAssumption
<1>1. UNCHANGED <<source, rs, repo, push, status, backup, pass>>
    BY DEF NamespaceDeleted, TenantFrame
<1>2. /\ dest' \in Dest
      /\ ~dest'.ns
      /\ ~dest'.claim
      /\ dest'.copy = 0
    BY DEF PairInv, TypeOK, NamespaceDeleted, Dest, Version, Fault, Secret,
       MaybeKey, NoDest, Pair, NoPair, NoMover, Cache, NoCache
<1>3. /\ secret' \in Secret
      /\ secret'.source = secret.source
    BY DEF PairInv, TypeOK, NamespaceDeleted, Fault, Dest, Version, Secret,
       MaybeKey, NoDest, Pair, NoPair, NoMover, Cache, NoCache
<1>4. /\ rd' \in Pair
      /\ ~rd'.on
      /\ ~rd'.synced
    BY DEF PairInv, TypeOK, NamespaceDeleted, Fault, Dest, Version, Secret,
       MaybeKey, NoDest, Pair, NoPair, NoMover, Cache, NoCache
<1>5. pull' = NoMover
    BY DEF PairInv, TypeOK, NamespaceDeleted, Fault, Dest, Version, Secret,
       MaybeKey, NoDest, Pair, NoPair, NoMover, Cache, NoCache
<1>6. cache' \in Cache
    BY DEF PairInv, TypeOK, NamespaceDeleted, Fault, Dest, Version, Secret,
       MaybeKey, NoDest, Pair, NoPair, NoMover, Cache, NoCache
<1>7. left' \in 0 .. MaxFaults
    BY DEF PairInv, TypeOK, NamespaceDeleted, Fault, Dest, Version, Secret,
       MaybeKey, NoDest, Pair, NoPair, NoMover, Cache, NoCache
<1>8. TypeOK'
  <2>1. pull' \in Mover /\ pull'.at = "idle"
    BY <1>5, PairAssumption DEF NoMover, Mover, MaybeKey, Version
  <2> QED
    BY <1>1, <1>2, <1>3, <1>4, <1>6, <1>7, <2>1 DEF PairInv, TypeOK
<1>9. PassOK'
    BY <1>1, <1>2, <1>3, <1>4, <1>5, <1>6, <1>7 DEF PairInv, TypeOK, PassOK,
       HasPassword, HasCopied, HasClaim, HasSnapshot, NoMover, Source, Dest, Repo,
       Mover, Version
<1>10. Passwords'
    BY <1>1, <1>2, <1>3, <1>4, <1>5, <1>6, <1>7 DEF PairInv, TypeOK, Passwords,
       NoMover
<1>11. Evidence'
    BY <1>1, <1>2, <1>3, <1>4, <1>5, <1>6, <1>7 DEF PairInv, TypeOK, Evidence,
       NoMover, Source, Dest, Repo, Mover, Version
<1>12. Order'
  <2>1. repo.snap >= 0 /\ pull'.at = "idle"
    BY <1>5 DEF PairInv, TypeOK, Repo, Version, NoMover
  <2> QED
    BY <1>1, <1>2, <2>1 DEF PairInv, Order
<1>13. Prepared'
    BY <1>1, <1>2, <1>3, <1>4, <1>5, <1>6, <1>7 DEF PairInv, TypeOK, Prepared,
       NoMover
<1> QED
    BY <1>8, <1>9, <1>10, <1>11, <1>12, <1>13 DEF PairInv

\* Crash keeps the invariant.
LEMMA CrashInv == PairInv /\ Crash => PairInv'
<1> SUFFICES ASSUME PairInv, Crash PROVE PairInv'
    OBVIOUS
<1>1. UNCHANGED <<source, dest, secret, rs, rd, repo, push, pull, cache, status, backup>>
    BY DEF Crash, Reads, PassFrame
<1>2. left' \in 0 .. MaxFaults
    BY PairAssumption DEF PairInv, TypeOK, Crash, Fault
<1>3. /\ pass' \in Pass
      /\ pass'.at = "idle"
      /\ pass'.synced = FALSE
    BY Places, PassGoes DEF PairInv, TypeOK, Crash, GoTo, At, Pass, NoPass
<1>4. PassOK'
    BY <1>1, <1>3 DEF PairInv, TypeOK, Crash, At, PassOK, HasPassword, HasCopied,
       HasClaim, HasSnapshot
<1> QED
    BY <1>1, <1>2, <1>3, <1>4, PassOnly

\* ToolAttaches keeps the invariant.
LEMMA ToolAttachesInv == PairInv /\ ToolAttaches => PairInv'
<1> SUFFICES ASSUME PairInv, ToolAttaches PROVE PairInv'
    OBVIOUS
<1> USE PairAssumption
<1>1. UNCHANGED <<left, source, dest, secret, rs, rd, repo, push, pull, status,
                    backup, pass>>
    BY DEF ToolAttaches
<1>2. cache' \in Cache
    BY DEF PairInv, TypeOK, ToolAttaches, Cache
<1>3. TypeOK'
    BY <1>1, <1>2 DEF PairInv, TypeOK
<1>4. PassOK' /\ Passwords' /\ Evidence' /\ Order' /\ Prepared'
    BY <1>1 DEF PairInv, PassOK, Passwords, Evidence, Order, Prepared
<1> QED
    BY <1>3, <1>4 DEF PairInv

\* Every step, and every stuttering step, keeps the invariant.
LEMMA StepInv == PairInv /\ [Next]_vars => PairInv'
<1> SUFFICES ASSUME PairInv, [Next]_vars PROVE PairInv'
    OBVIOUS
<1>1. CASE Replicate
    BY <1>1, WalkInv, CheckClaimInv, EnsureSecretsInv, EnsureNamespaceInv,
       CopySecretsInv, EnsureDestPVCInv, StripDestPodsInv, StripBlindlyInv, DeletePinnedJobsInv,
       SourceHasSnapshotInv, ApplySourceInv, DestUserMountedInv, DeleteMoverJobsInv,
       ApplyDestinationInv, MarkScratchInv, EvictBackupPodsInv, ProbeInv, PruneInv,
       DropSourceInv, DropDestInv, ReportInv, CallFailsInv, ErrorDroppedInv DEF
       Replicate
<1>2. CASE Backup
    BY <1>2, BackupBeginInv, BackupSecretsInv, BackupSourceInv, BackupScratchInv,
       BackupFailsInv DEF Backup
<1>3. CASE PushMover
    BY <1>3, PushStartInv, PushInitInv, PushDoneInv, PushFailsInv, CollectPushInv DEF
       PushMover
<1>4. CASE PullMover
    BY <1>4, PullStartInv, PullDoneInv, PullFailsInv, CollectPullInv DEF PullMover
<1>5. CASE Tenant
    BY <1>5, SourceWritesInv, ClaimChangesInv, WorkloadChangesInv, PodChangesInv,
       PodReturnsInv, DestClaimDeletedInv, PodPinnedInv, NamespaceDeletedInv DEF Tenant
<1>6. CASE Crash
    BY <1>6, CrashInv
<1>7. CASE ToolAttaches
    BY <1>7, ToolAttachesInv
<1>8. CASE UNCHANGED vars
  <2>1. UNCHANGED <<left, source, dest, secret, rs, rd, repo, push, pull, cache, pass, status, backup>>
    BY <1>8 DEF vars
  <2>2. TypeOK'
    BY <2>1 DEF PairInv, TypeOK
  <2>3. PassOK' /\ Passwords'
    BY <2>1 DEF PairInv, PassOK, Passwords
  <2>4. Evidence' /\ Prepared'
    BY <2>1 DEF PairInv, Evidence, Prepared
  <2>5. Order'
    BY <2>1 DEF PairInv, Order
  <2> QED
    BY <2>2, <2>3, <2>4, <2>5 DEF PairInv
<1> QED
    BY <1>1, <1>2, <1>3, <1>4, <1>5, <1>6, <1>7, <1>8 DEF Next

\* The invariant holds throughout.
THEOREM Invariance == Spec => []PairInv
<1> QED
    BY InitInv, StepInv, PTL DEF Spec

\* Every variable stays in its type, for every set of passwords and every
\* number of faults: deletePair has a place to return to, and no mover that
\* VolSync starts lacks a password.
THEOREM TypeCorrect == Spec => []TypeOK
<1>1. PairInv => TypeOK
    BY DEF PairInv
<1> QED
    BY <1>1, Invariance, PTL

\* A ReplicationDestination always finds the password of the source, and its
\* claim unless that was deleted by itself, whatever the interleaving of
\* passes, movers and deletions.
THEOREM Served == Spec => []DestinationServed
<1>1. PairInv => DestinationServed
    BY PairAssumption DEF PairInv, Prepared, DestinationServed
<1> QED
    BY <1>1, Invariance, PTL

-----------------------------------------------------------------------------
\* A destination that reports a sync has filled the volume it has now, unless
\* the claim was deleted by itself since.
Filled == rd.synced => dest.copy > 0 \/ dest.lost

\* Every step keeps it: whatever else empties the volume takes the destination
\* along.
LEMMA FilledStep == PairInv /\ Filled /\ [Next]_vars => Filled'
<1> SUFFICES ASSUME PairInv, Filled, [Next]_vars PROVE Filled'
    OBVIOUS
<1>1. rd \in Pair /\ dest \in Dest
    BY DEF PairInv, TypeOK
<1>2. CASE PullDone
  <2>1. dest'.copy = pull.data /\ pull.at = "copy" /\ pull.data > 0
      BY <1>1, <1>2 DEF PullDone, PairInv, TypeOK, Evidence, Mover, Dest
  <2> QED
      BY <2>1 DEF Filled
<1>3. CASE NamespaceDeleted \/ DropDest
  <2>1. ~rd'.synced
      BY <1>3 DEF NamespaceDeleted, DropDest, NoPair
  <2> QED
      BY <2>1 DEF Filled
<1>4. CASE EnsureNamespace \/ EnsureDestPVC \/ StripDestPods \/ StripBlindly \/ PodChanges
           \/ PodReturns \/ PodPinned
  <2>1. rd' = rd /\ dest'.copy = dest.copy /\ dest'.lost = dest.lost
      BY <1>1, <1>4 DEF Dest, EnsureNamespace, EnsureDestPVC, StripDestPods, StripBlindly,
         PodChanges, PodReturns, PodPinned
  <2> QED
      BY <2>1 DEF Filled
<1>12. CASE DestClaimDeleted
    BY <1>1, <1>12 DEF Dest, DestClaimDeleted, Filled
<1>5. CASE ApplyDestination
  <2>1. (rd'.synced => rd.synced) /\ dest' = dest
      BY <1>5 DEF ApplyDestination, Applied
  <2> QED
      BY <2>1 DEF Filled
<1>6. CASE UNCHANGED <<rd, dest>>
    BY <1>6 DEF Filled
<1>7. CASE Replicate
    BY <1>3, <1>4, <1>5, <1>6, <1>7 DEF Replicate, Reads, PassFrame, Walk, CheckClaim, EnsureSecrets,
       CopySecrets, DeletePinnedJobs, SourceHasSnapshot, ApplySource, DestUserMounted,
       DeleteMoverJobs, MarkScratch, EvictBackupPods, Probe, Prune, DropSource, Report, CallFails,
       ErrorDropped
<1>8. CASE Crash \/ Backup \/ ToolAttaches
    BY <1>6, <1>8 DEF Crash, Reads, PassFrame, Backup, BackupBegin, BackupSecrets,
       BackupSource, BackupScratch, BackupFails, BackupFrom, ToolAttaches
<1>9. CASE PushMover \/ PullMover
    BY <1>2, <1>6, <1>9 DEF PushMover, PullMover, PushStart, PushInit, PushDone, PushFails,
       CollectPush, PullStart, PullFails, CollectPull, MoverFrame
<1>10. CASE Tenant
    BY <1>3, <1>4, <1>6, <1>10, <1>12 DEF Tenant, SourceWrites, ClaimChanges, WorkloadChanges
<1>11. CASE UNCHANGED vars
    BY <1>6, <1>11 DEF vars
<1> QED
    BY <1>7, <1>8, <1>9, <1>10, <1>11 DEF Next

\* Only Probe sets `probed`.
LEMMA OnlyProbe ==
    ASSUME PairInv, Next, pass'.probed, ~pass.probed
    PROVE  Probe
<1>1. pass \in Pass
    BY DEF PairInv, TypeOK
<1>2. ASSUME pass' = pass \/ pass' = NoPass \/ \E pl : GoTo(pl) PROVE FALSE
    BY <1>1, <1>2 DEF GoTo, NoPass, Pass
<1>3. CASE Replicate
  <2>1. CASE CheckClaim \/ SourceHasSnapshot \/ DestUserMounted \/ Prune
      BY <1>1, <1>2, <2>1 DEF CheckClaim, SourceHasSnapshot, DestUserMounted, Prune, Pass
  <2>2. CASE Walk \/ CallFails
      BY <1>1, <1>2, <2>2 DEF Walk, CallFails, GiveUp, NoPass, Pass
  <2>3. CASE Report
      BY <1>2, <2>3 DEF Report
  <2>4. CASE ErrorDropped \/ DropDest
      BY <1>2, <2>4 DEF ErrorDropped, DropDest
  <2>5. CASE EnsureSecrets \/ EnsureNamespace \/ CopySecrets \/ EnsureDestPVC \/ StripDestPods
             \/ StripBlindly \/ DeletePinnedJobs
      BY <1>2, <2>5 DEF EnsureSecrets, EnsureNamespace, CopySecrets, EnsureDestPVC, StripDestPods,
         StripBlindly, DeletePinnedJobs
  <2>6. CASE ApplySource \/ DeleteMoverJobs \/ ApplyDestination \/ MarkScratch \/ EvictBackupPods
             \/ DropSource
      BY <1>2, <2>6 DEF ApplySource, DeleteMoverJobs, ApplyDestination, MarkScratch,
         EvictBackupPods, DropSource
  <2> QED
      BY <1>3, <2>1, <2>2, <2>3, <2>4, <2>5, <2>6 DEF Replicate
<1>4. CASE Crash
    BY <1>2, <1>4 DEF Crash
<1>5. CASE Backup \/ ToolAttaches
    BY <1>2, <1>5 DEF Backup, BackupBegin, BackupSecrets, BackupSource, BackupScratch,
       BackupFails, BackupFrom, ToolAttaches
<1>6. CASE PushMover \/ PullMover
    BY <1>2, <1>6 DEF PushMover, PullMover, PushStart, PushInit, PushDone, PushFails,
       CollectPush, PullStart, PullDone, PullFails, CollectPull, MoverFrame
<1>7. CASE Tenant
    BY <1>2, <1>7 DEF Tenant, SourceWrites, ClaimChanges, WorkloadChanges, PodChanges, PodPinned,
       PodReturns, DestClaimDeleted, NamespaceDeleted, TenantFrame
<1> QED
    BY <1>3, <1>4, <1>5, <1>6, <1>7 DEF Next

\* A pass probes the pair as copied only if the volume in dest holds a snapshot,
\* over every deletion and re-creation of the pair and of the namespace (LagZero
\* asks both halves; Applied keeps the status of the object there is).  The one
\* exception is a dest claim deleted by itself and not filled since.
THEOREM Probed == Spec => ProbedMeansCopied
<1>1. Init => Filled
  <2>1. Init => rd = NoPair
    BY DEF Init
  <2> QED
    BY <2>1 DEF Filled, NoPair
<1>2. ASSUME PairInv, Filled, [Next]_vars
      PROVE  [pass'.probed /\ ~pass.probed => dest.copy > 0 \/ dest.lost]_vars
  <2>1. ASSUME Next, pass'.probed, ~pass.probed PROVE dest.copy > 0 \/ dest.lost
    <3>1. Probe
        BY <1>2, <2>1, OnlyProbe
    <3>2. rd.synced
        BY <1>2, <2>1, <3>1 DEF Probe, LagZero, PairInv, TypeOK, Pass
    <3> QED
        BY <1>2, <3>2 DEF Filled
  <2> QED
      BY <1>2, <2>1
<1> QED
    BY <1>1, <1>2, FilledStep, Invariance, PTL DEF Spec, ProbedMeansCopied

-----------------------------------------------------------------------------
\* The first state is a first state of the warm copy.
LEMMA RefinesInit == Init => Abstract!Init
<1> SUFFICES ASSUME Init PROVE Abstract!Init
    OBVIOUS
<1>1. source.data = 1
    BY DEF Init
<1>2. dest = NoDest
    BY DEF Init
<1>3. repo.key = NoKey /\ repo.snap = 0
    BY DEF Init
<1> QED
    BY <1>1, <1>2, <1>3 DEF NoDest, Abstract!Init

\* A step that leaves the mapped fields alone stutters.
LEMMA Stutters ==
    ASSUME source'.data = source.data, repo' = repo, dest'.copy = dest.copy
    PROVE  [Abstract!Next]_(Abstract!vars)
BY DEF Abstract!vars

\* Every step of the pair is a step of the warm copy or leaves it alone.
LEMMA RefinesStep == PairInv /\ [Next]_vars => [Abstract!Next]_(Abstract!vars)
<1> SUFFICES ASSUME PairInv, [Next]_vars PROVE [Abstract!Next]_(Abstract!vars)
    OBVIOUS
<1> USE PairAssumption
<1>1. CASE Replicate
  <2>1. source' = source /\ repo' = repo
      BY <1>1 DEF Replicate, Reads, PassFrame, Walk, CheckClaim, EnsureSecrets,
         EnsureNamespace, CopySecrets, EnsureDestPVC, StripDestPods, StripBlindly, DeletePinnedJobs,
         SourceHasSnapshot, ApplySource, DestUserMounted, DeleteMoverJobs,
         ApplyDestination, MarkScratch, EvictBackupPods, Probe, Prune, DropSource,
         DropDest, Report, CallFails, ErrorDropped
  <2>2. CASE EnsureNamespace \/ EnsureDestPVC \/ StripDestPods \/ StripBlindly
      BY <2>1, <2>2, Stutters
         DEF PairInv, TypeOK, Dest, EnsureNamespace, EnsureDestPVC, StripDestPods, StripBlindly
  <2>3. CASE ~(EnsureNamespace \/ EnsureDestPVC \/ StripDestPods \/ StripBlindly)
    <3>1. dest' = dest
      BY <1>1, <2>3 DEF Replicate, Reads, PassFrame, Walk, CheckClaim, EnsureSecrets,
         CopySecrets, DeletePinnedJobs, SourceHasSnapshot, ApplySource,
         DestUserMounted, DeleteMoverJobs, ApplyDestination, MarkScratch,
         EvictBackupPods, Probe, Prune, DropSource, DropDest, Report, CallFails,
         ErrorDropped
    <3> QED
        BY <2>1, <3>1, Stutters
  <2> QED
      BY <2>2, <2>3
<1>2. CASE Crash \/ Backup \/ ToolAttaches
    BY <1>2, Stutters DEF Crash, Reads, PassFrame, Backup, BackupBegin, BackupSecrets,
       BackupSource, BackupScratch, BackupFails, BackupFrom, ToolAttaches
<1>3. CASE PushStart \/ PushFails \/ CollectPush \/ PullStart \/ PullFails \/ CollectPull
    BY <1>3, Stutters DEF PushStart, PushFails, CollectPush, PullStart, PullFails,
       CollectPull, MoverFrame
<1>4. CASE PushInit
  <2>1. source' = source /\ dest' = dest
      BY <1>4 DEF PushInit, MoverFrame
  <2>2. repo.key = NoKey /\ push.key \in Keys
      BY <1>4 DEF PairInv, TypeOK, Evidence, PushInit
  <2>3. repo'.key = push.key /\ repo'.snap = repo.snap
      BY <1>4, <2>2 DEF PairInv, TypeOK, Repo, PushInit, Initialised
  <2> QED
      BY <2>1, <2>2, <2>3 DEF Abstract!Next, Abstract!Initialise
<1>5. CASE PushDone
  <2>1. source' = source /\ dest' = dest
      BY <1>5 DEF PushDone, MoverFrame
  <2>2. repo'.key = repo.key /\ repo'.snap = push.data
      BY <1>5 DEF PairInv, TypeOK, Repo, PushDone
  <2>3. repo.key # NoKey
      BY <1>5 DEF PairInv, Evidence, PushDone
  <2>4. push.data \in 1 .. source.data /\ push.data >= repo.snap
      BY <1>5 DEF PairInv, TypeOK, Order, Source, Repo, Mover, Version, PushDone
  <2> QED
      BY <2>1, <2>2, <2>3, <2>4 DEF Abstract!Next, Abstract!Take
<1>6. CASE PullDone
  <2>1. source' = source
      BY <1>6 DEF PullDone, MoverFrame
  <2>2. repo'.key = repo.key /\ repo'.snap = repo.snap
      BY <1>6 DEF PairInv, TypeOK, Repo, Evidence, PullDone
  <2>3. dest'.copy = pull.data
      BY <1>6 DEF PairInv, TypeOK, Dest, PullDone
  <2>4. pull.data \in 1 .. repo.snap /\ pull.data >= dest.copy
      BY <1>6 DEF PairInv, TypeOK, Order, Dest, Repo, Mover, Version, PullDone
  <2> QED
      BY <2>1, <2>2, <2>3, <2>4 DEF Abstract!Next, Abstract!Receive
<1>7. CASE SourceWrites
  <2>1. repo' = repo /\ dest' = dest
      BY <1>7 DEF SourceWrites, TenantFrame
  <2>2. source'.data \in source.data .. MaxData
      BY <1>7 DEF PairInv, TypeOK, Source, SourceWrites
  <2> QED
      BY <2>1, <2>2 DEF Abstract!Next, Abstract!Write
<1>8. CASE ClaimChanges \/ WorkloadChanges \/ PodChanges \/ PodReturns \/ PodPinned
    BY <1>8, Stutters DEF PairInv, TypeOK, Source, Dest, ClaimChanges, WorkloadChanges,
       PodChanges, PodReturns, PodPinned, TenantFrame
<1>9. CASE NamespaceDeleted \/ DestClaimDeleted
  <2>1. source' = source /\ repo' = repo
      BY <1>9 DEF NamespaceDeleted, DestClaimDeleted, TenantFrame
  <2>2. dest'.copy = 0
    <3>1. CASE NamespaceDeleted
        BY <3>1 DEF NamespaceDeleted, NoDest
    <3>2. CASE DestClaimDeleted
      <4>1. dest \in Dest
          BY DEF PairInv, TypeOK
      <4> QED
          BY <3>2, <4>1 DEF DestClaimDeleted, Dest
    <3> QED
        BY <1>9, <3>1, <3>2
  <2> QED
      BY <2>1, <2>2 DEF Abstract!Next, Abstract!Lose
<1>10. CASE UNCHANGED vars
    BY <1>10, Stutters DEF vars
<1> QED
    BY <1>1, <1>2, <1>3, <1>4, <1>5, <1>6, <1>7, <1>8, <1>9, <1>10
       DEF Next, PushMover, PullMover, Tenant

\* Replicate, Backup and the movers implement the warm copy for every set of
\* passwords and every number of faults: sourceHasSnapshot keeps the dest
\* mover from initialising the repository a second time, and a volume in dest
\* never goes back to an older snapshot.
THEOREM Refinement == Spec => WarmCopySpec
<1> QED
    BY RefinesInit, RefinesStep, Invariance, PTL DEF Spec, WarmCopySpec, Abstract!Spec
=============================================================================
