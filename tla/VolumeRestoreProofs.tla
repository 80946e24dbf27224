------------------------ MODULE VolumeRestoreProofs ------------------------
(***************************************************************************)
(* A Restore in place ends with its own data in every claim that was not   *)
(* lost and a snapshot's in the others, a Postgres has its own data when   *)
(* its Restore succeeds, the healers find nothing in what apply wrote and  *)
(* no key is widened: for any claims, templates, maps and bound.           *)
(*                                                                         *)
(* The argument.  Sanitize covers the healers, so every template on dest   *)
(* is clean (Rendered).  In home a claim is made only by                   *)
(* EnsurePVCFromSnapshot, with its dataSource, and a snapshot is of a      *)
(* claim with data (Snapped, HomeKept, PassOK).  A dump is replayed only   *)
(* into an empty database, which is on dest and bound (AwayKept), and what *)
(* was replayed stays; a pass is rehydrated past the dump, and the phase   *)
(* beyond Rehydrating, only with the dump replayed (Replayed).             *)
(***************************************************************************)
EXTENDS VolumeRestore, TLAPS

(* The inductive invariant *)

\* Templates on their way to dest, and on it, have been through Sanitize.
Rendered ==
    /\ HealAgrees
    /\ pass.deploy.on => HealNames(pass.deploy.tmpl) = {}
    /\ KeyStaysPrivate

\* Snapshots are of claims of home, which are never blank.
Snapped ==
    \A k \in Clusters, x \in Snaps :
        /\ snap[k][x].holds # "blank"
        /\ snap[k][x].on = "ready" => snap[k][x].holds # "nothing"

\* The claims of home hold tenant data while they are bound, their own unless
\* they were recreated, and one that waits to be bound names its snapshot; its
\* pod has all of them.
HomeKept ==
    /\ \A n \in Names :
          /\ claim["home"][n].on = "bound" =>
                claim["home"][n].holds \in (IF claim["home"][n].ds = NoSnap THEN {n} ELSE Names)
          /\ claim["home"][n].on = "pending" => claim["home"][n].ds # NoSnap
          /\ claim["home"][n].holds # "blank"
    /\ pod["home"] # NoPod => \A n \in Names : claim["home"][n].on = "bound"

\* On dest only a bound claim holds anything.
AwayKept ==
    \A n \in Names : claim["away"][n].holds # "nothing" => claim["away"][n].on = "bound"

\* What a pass carries, and when none runs.
PassOK ==
    /\ \A n \in Names : pass.claims[n].holds = "nothing"
    /\ ~remote /\ pass.at = "claims" =>
          \A n \in Names : claim["home"][n].on = "none" => pass.claims[n] = NoClaim
    /\ pass.at = "create" => pass.pick \in Snaps
    /\ backup.at # "idle" => pass.at = "idle" /\ phase = ""
    /\ phase \in {"Succeeded", "Failed"} => pass.at = "idle"

\* The dump has been replayed into the data claim of dest.
Filled ==
    /\ remote
    /\ claim["away"][Data].on = "bound" /\ claim["away"][Data].holds = Data

\* A Postgres leaves Rehydrating with its dump replayed.
Replayed ==
    engine = "postgres" =>
        /\ applied \/ pass.at = "remember" => Filled
        /\ useful /\ pass.at \in {"heal", "advance"} /\ Applies /\ pass.rehydrated => applied
        /\ useful /\ phase \in {"WaitingReady", "Succeeded"} => applied

VolumeInv ==
    TypeOK /\ Rendered /\ Snapped /\ HomeKept /\ AwayKept /\ PassOK /\ Replayed
-----------------------------------------------------------------------------
(* The constants, and the operators of transform and heal *)

\* There is a first claim, and no claim has a reserved name.
LEMMA ClaimNames ==
    /\ Len(Claims) \in Nat \ {0} /\ Index = 1 .. Len(Claims) /\ 1 \in Index
    /\ Data \in Names /\ \A i \in Index : Claims[i] \in Names
    /\ "blank" \notin Names /\ "nothing" \notin Names
    /\ NoSnap \notin Names /\ Gone \notin Names
<1>1. Len(Claims) \in Nat \ {0} /\ Index = 1 .. Len(Claims)
    BY VolumeAssumption DEF Index
<1>2. \A i \in Index : Claims[i] \in Names
    BY DEF Names
<1>3. QED
    BY <1>1, <1>2, VolumeAssumption DEF Data

\* What stands for nothing has the type of what it stands for.
LEMMA Nothings ==
    /\ NoClaim \in Claim /\ NoSnapshot \in Snap /\ NoDeploy \in Deployment
    /\ NoPass \in Pass
    /\ NoBackup \in [at : {"idle", "snapshot", "dump"}, i : Index]
<1>1. NoClaim \in Claim
    BY DEF NoClaim, Claim, Classes, Contents
<1>2. NoSnapshot \in Snap
    BY DEF NoSnapshot, Snap, Contents
<1>3. NoDeploy \in Deployment
    BY DEF NoDeploy, Deployment
<1>4. NoPass \in Pass
    BY <1>1, <1>3, ClaimNames DEF NoPass, Pass
<1>5. NoBackup \in [at : {"idle", "snapshot", "dump"}, i : Index]
    BY ClaimNames DEF NoBackup
<1>6. QED
    BY <1>1, <1>2, <1>3, <1>4, <1>5

\* A claim that is lost, or not there, holds nothing.
LEMMA LostClaim ==
    /\ NoClaim.on = "none" /\ NoClaim.holds = "nothing"
    /\ \A c \in Claim :
          /\ [c EXCEPT !.on = "lost", !.holds = "nothing"] \in Claim
          /\ [c EXCEPT !.on = "lost", !.holds = "nothing"].on = "lost"
          /\ [c EXCEPT !.on = "lost", !.holds = "nothing"].holds = "nothing"
<1>1. NoClaim.on = "none" /\ NoClaim.holds = "nothing"
    BY DEF NoClaim
<1>2. ASSUME NEW c \in Claim
      PROVE  /\ [c EXCEPT !.on = "lost", !.holds = "nothing"] \in Claim
             /\ [c EXCEPT !.on = "lost", !.holds = "nothing"].on = "lost"
             /\ [c EXCEPT !.on = "lost", !.holds = "nothing"].holds = "nothing"
    BY <1>2 DEF Claim, Contents
<1>3. QED
    BY <1>1, <1>2

\* The idle pass carries nothing.
LEMMA NoPassCarries ==
    /\ NoPass.at = "idle" /\ NoPass.i = 1 /\ NoPass.pick = NoSnap /\ NoPass.rehydrated
    /\ NoPass.deploy.on = FALSE
    /\ NoPass.claims \in [Names -> Claim]
    /\ \A n \in Names : NoPass.claims[n] = NoClaim /\ NoPass.claims[n].holds = "nothing"
BY Nothings DEF NoPass, NoDeploy, NoClaim

\* Sanitize makes a new claim of one it found, and none of none.
LEMMA Renders ==
    ASSUME NEW c \in Claim
    PROVE  /\ RenderClaim(c) \in Claim /\ RenderClaim(c).holds = "nothing"
           /\ c.on = "none" => RenderClaim(c) = NoClaim
<1>1. MapSC(c.class) \in Classes
    BY DEF MapSC, Classes, Claim
<1>2. CASE c.on = "none"
    BY <1>2, Nothings DEF RenderClaim, NoClaim
<1>3. CASE c.on # "none"
    BY <1>1, <1>3 DEF RenderClaim, Claim, Contents
<1>4. QED
    BY <1>2, <1>3

\* The healers find nothing in a template that Sanitize has rendered.
LEMMA RendersClean ==
    ASSUME NEW t \in Template \cup {NoPod}
    PROVE  RenderTemplate(t) \in Template /\ HealNames(RenderTemplate(t)) = {}
<1> DEFINE r == RenderTemplate(t)
<1>1. /\ t.pins \in SUBSET Pins /\ t.tolerations \in SUBSET Tolerations
      /\ t.fsGroup \in {0, NoGroup, 999} /\ t.engine \in {"postgres", "redis"}
  <2>1. CASE t \in Template
    BY <2>1 DEF Template
  <2>2. CASE t = NoPod
    BY <2>2 DEF NoPod, NoGroup
  <2>3. QED
    BY <2>1, <2>2
<1>2. r = [pins |-> {}, spread |-> FALSE, tolerations |-> StripTolerations(t.tolerations),
           runtime |-> RemapRuntimeClass(t.runtime), fsGroup |-> StripPodFSGroup(t),
           engine |-> t.engine]
    BY DEF RenderTemplate
<1>3. RemapRuntimeClass(t.runtime) \in RuntimeClasses
    BY DEF RemapRuntimeClass, RuntimeClasses
<1>4. /\ StripTolerations(t.tolerations) \in SUBSET Tolerations
      /\ "known" \notin StripTolerations(t.tolerations)
    BY <1>1 DEF StripTolerations
<1>5. /\ StripPodFSGroup(t) \in {0, NoGroup, 999} /\ StripPodFSGroup(t) # 0
      /\ t.engine = "postgres" => StripPodFSGroup(t) = NoGroup
    BY <1>1 DEF StripPodFSGroup, MatchPostgres, NoGroup
<1>6. r \in Template
    BY <1>1, <1>2, <1>3, <1>4, <1>5 DEF Template
<1>7. HealFSGroup(r) = r.fsGroup
    BY <1>2, <1>5 DEF HealFSGroup, MatchPostgres
<1>8. HealNames(r) = {}
    BY <1>2, <1>4, <1>7 DEF HealNames
<1>9. QED
    BY <1>6, <1>8

\* A Postgres the healers have nothing to say of has no fsGroup.
LEMMA CleanHasNoGroup ==
    ASSUME NEW t, HealNames(t) = {}, t.engine = "postgres"
    PROVE  t.fsGroup = NoGroup
BY DEF HealNames, HealFSGroup, MatchPostgres

\* The healers leave a template.
LEMMA Heals ==
    ASSUME NEW t \in Template \cup {NoPod}
    PROVE  HealPodSpec(t) \in Template \cup {NoPod}
<1>1. CASE t \in Template
  <2>1. HealFSGroup(t) \in {0, NoGroup, 999}
    BY <1>1 DEF HealFSGroup, Template
  <2>2. t.tolerations \ {"known"} \in SUBSET Tolerations
    BY <1>1 DEF Template
  <2>3. QED
    BY <1>1, <2>1, <2>2 DEF HealPodSpec, Template
<1>2. CASE t = NoPod
  <2>1. HealFSGroup(t) = NoGroup /\ t.tolerations \ {"known"} = {}
    BY <1>2 DEF HealFSGroup, NoPod
  <2>2. HealPodSpec(t) = NoPod
    BY <1>2, <2>1 DEF HealPodSpec, NoPod
  <2>3. QED
    BY <2>2
<1>3. QED
    BY <1>1, <1>2

\* The loop over the claims goes on or comes to the dump, and keeps the rest.
LEMMA GoesOn ==
    ASSUME NEW p \in Pass
    PROVE  /\ AfterClaim(p) \in Pass /\ AfterClaim(p).at \in {"dump", "ensure"}
           /\ AfterClaim(p).claims = p.claims /\ AfterClaim(p).deploy = p.deploy
<1>1. p.i \in 1 .. Len(Claims) /\ Len(Claims) \in Nat
    BY ClaimNames DEF Pass
<1>2. CASE p.i = Len(Claims)
    BY <1>2, ClaimNames DEF AfterClaim, Pass
<1>3. CASE p.i # Len(Claims)
  <2>1. p.i + 1 \in Index
    BY <1>1, <1>3, ClaimNames
  <2>2. QED
    BY <1>3, <2>1 DEF AfterClaim, Pass
<1>4. QED
    BY <1>2, <1>3

\* An event counts down to zero.
LEMMA Spends == TypeOK /\ Event => left' \in 0 .. MaxEvents
<1>1. MaxEvents \in Nat
    BY VolumeAssumption
<1>2. TypeOK => left \in 0 .. MaxEvents
    BY DEF TypeOK
<1>3. QED
    BY <1>1, <1>2 DEF Event
-----------------------------------------------------------------------------
(* The invariant *)

\* The initial state satisfies the invariant.
LEMMA InitInv == Init => VolumeInv
<1> SUFFICES ASSUME Init PROVE VolumeInv
    OBVIOUS
<1> USE ClaimNames
<1>1. PICK t \in Templates, ds \in {NoSnap, Gone} :
        /\ engine = t.engine
        /\ deploy = [home |-> [on |-> TRUE, replicas |-> 1, tmpl |-> t], away |-> NoDeploy]
        /\ pod = [home |-> t, away |-> NoPod]
        /\ claim = [home |-> [n \in Names |->
                        [on |-> "bound", class |-> SourceClass, holds |-> n, pinned |-> TRUE,
                         ds |-> IF n = Data THEN ds ELSE NoSnap]],
                    away |-> [n \in Names |-> NoClaim]]
    BY DEF Init
<1>2. t \in Template
    BY VolumeAssumption
<1>3. engine \in {"postgres", "redis"}
    BY <1>1, <1>2 DEF Template
<1>4. deploy \in [Clusters -> Deployment]
  <2>1. [on |-> TRUE, replicas |-> 1, tmpl |-> t] \in Deployment
    BY <1>2 DEF Deployment
  <2>2. deploy["home"] \in Deployment /\ deploy["away"] \in Deployment /\ DOMAIN deploy = Clusters
    BY <1>1, <2>1, Nothings DEF Clusters
  <2>3. deploy = [k \in Clusters |-> deploy[k]]
    BY <1>1 DEF Clusters
  <2>4. QED
    BY <2>2, <2>3 DEF Clusters
<1>5. pod \in [Clusters -> Template \cup {NoPod}]
    BY <1>1, <1>2 DEF Clusters
<1>6. claim \in [Clusters -> [Names -> Claim]]
  <2>1. \A n \in Names :
          [on |-> "bound", class |-> SourceClass, holds |-> n, pinned |-> TRUE,
           ds |-> IF n = Data THEN ds ELSE NoSnap] \in Claim
    BY DEF Claim, Classes, Contents
  <2>2. claim["home"] \in [Names -> Claim] /\ claim["away"] \in [Names -> Claim]
    BY <1>1, <2>1, Nothings
  <2>3. claim = [k \in Clusters |-> claim[k]]
    BY <1>1 DEF Clusters
  <2>4. QED
    BY <2>2, <2>3 DEF Clusters
<1>7. snap \in [Clusters -> [Snaps -> Snap]]
    BY Nothings DEF Init
<1>8. TypeOK
  <2>1. MaxEvents \in Nat /\ Pairs \subseteq BOOLEAN
    BY VolumeAssumption
  <2>2. left = MaxEvents /\ remote \in Pairs
    BY DEF Init
  <2>3. left \in 0 .. MaxEvents /\ remote \in BOOLEAN
    BY <2>1, <2>2
  <2>4. QED
    BY <1>3, <1>4, <1>5, <1>6, <1>7, <2>3, Nothings DEF Init, TypeOK
<1>9. Rendered
    BY <1>1, NoPassCarries DEF Init, Rendered, HealAgrees, KeyStaysPrivate, NoDeploy
<1>10. Snapped
    BY DEF Init, Snapped, NoSnapshot
<1>11. HomeKept /\ AwayKept
    BY <1>1 DEF HomeKept, AwayKept, NoClaim
<1>12. PassOK
    BY NoPassCarries DEF Init, PassOK, NoBackup
<1>13. Replayed
    BY NoPassCarries DEF Init, Replayed
<1>14. QED
    BY <1>8, <1>9, <1>10, <1>11, <1>12, <1>13 DEF VolumeInv

\* Every step preserves the invariant.
LEMMA StepInv == VolumeInv /\ [Next]_vars => VolumeInv'
<1> SUFFICES ASSUME TypeOK, Rendered, Snapped, HomeKept, AwayKept, PassOK, Replayed, [Next]_vars
             PROVE  VolumeInv'
    BY DEF VolumeInv
<1>c. claim \in [Clusters -> [Names -> Claim]]
    BY DEF TypeOK
<1>s. snap \in [Clusters -> [Snaps -> Snap]]
    BY DEF TypeOK
<1>d. deploy \in [Clusters -> Deployment]
    BY DEF TypeOK
<1>1. CASE BackupBegins
  <2>1. TypeOK'
    BY <1>1, ClaimNames DEF BackupBegins, BackupFrame, TypeOK
  <2>2. PassOK'
    BY <1>1 DEF BackupBegins, BackupFrame, PassOK
  <2>3. Rendered' /\ Snapped' /\ HomeKept' /\ AwayKept' /\ Replayed'
    BY <1>1
      DEF BackupBegins, BackupFrame, Rendered, HealAgrees, KeyStaysPrivate, Snapped,
           HomeKept, AwayKept, Replayed, Filled, Applies
  <2>4. QED
    BY <2>1, <2>2, <2>3 DEF VolumeInv
<1>2. CASE CreateSnapshot
  <2>1. backup.i \in Index /\ Claims[backup.i] \in Names
    BY ClaimNames DEF TypeOK
  <2>2. [on |-> "taken", holds |-> claim["home"][Claims[backup.i]].holds] \in Snap
    BY <2>1 DEF TypeOK, Clusters, Snap, Claim
  <2>3. snap' \in [Clusters -> [Snaps -> Snap]]
    BY <1>2, <2>1, <2>2 DEF CreateSnapshot, TypeOK, Snaps
  <2>4. backup.i = Len(Claims) \/ backup.i + 1 \in Index
    BY <2>1, ClaimNames
  <2>5. backup' \in [at : {"idle", "snapshot", "dump"}, i : Index]
    BY <1>2, <2>4 DEF CreateSnapshot, TypeOK
  <2>6. TypeOK'
    BY <1>2, <2>3, <2>5 DEF CreateSnapshot, BackupFrame, TypeOK
  <2>7. Snapped'
    BY <1>2, <2>1, <2>2, <2>3, <2>4, ZenonT(60)
      DEF CreateSnapshot, BackupFrame, Snapped, HomeKept, TypeOK, Clusters, Snaps
  <2>8. PassOK'
    BY <1>2 DEF CreateSnapshot, BackupFrame, PassOK, TypeOK
  <2>9. Rendered' /\ HomeKept' /\ AwayKept' /\ Replayed'
    BY <1>2
      DEF CreateSnapshot, BackupFrame, Rendered, HealAgrees, KeyStaysPrivate, HomeKept,
           AwayKept, Replayed, Filled, Applies
  <2>10. QED
    BY <2>6, <2>7, <2>8, <2>9 DEF VolumeInv
<1>3. CASE SnapshotFails
  <2>1. left' \in 0 .. MaxEvents
    BY <1>3, Spends DEF SnapshotFails
  <2>2. backup' \in [at : {"idle", "snapshot", "dump"}, i : Index]
    BY <1>3 DEF SnapshotFails, TypeOK
  <2>3. TypeOK'
    BY <1>3, <2>1, <2>2 DEF SnapshotFails, BackupFrame, Event, TypeOK
  <2>4. PassOK'
    BY <1>3, <2>1, <2>2 DEF SnapshotFails, BackupFrame, Event, PassOK, TypeOK
  <2>5. Rendered' /\ Snapped' /\ HomeKept' /\ AwayKept' /\ Replayed'
    BY <1>3
      DEF SnapshotFails, BackupFrame, Event, Rendered, HealAgrees, KeyStaysPrivate,
           Snapped, HomeKept, AwayKept, Replayed, Filled, Applies
  <2>6. QED
    BY <2>3, <2>4, <2>5 DEF VolumeInv
<1>4. CASE CaptureDump
  <2>1. useful' \in BOOLEAN
    BY <1>4 DEF CaptureDump
  <2>2. pass.at = "idle" /\ phase = ""
    BY <1>4 DEF CaptureDump, PassOK
  <2>3. TypeOK'
    BY <1>4, Nothings DEF CaptureDump, BackupFrame, TypeOK
  <2>4. PassOK'
    BY <1>4, <2>1, <2>2 DEF CaptureDump, BackupFrame, PassOK
  <2>5. Replayed'
    BY <1>4, <2>1, <2>2 DEF CaptureDump, BackupFrame, Replayed, Filled, Applies
  <2>6. Rendered' /\ Snapped' /\ HomeKept' /\ AwayKept'
    BY <1>4
      DEF CaptureDump, BackupFrame, Rendered, HealAgrees, KeyStaysPrivate, Snapped,
           HomeKept, AwayKept
  <2>7. QED
    BY <2>3, <2>4, <2>5, <2>6 DEF VolumeInv
<1>5. CASE RestoreBegins
  <2>1. /\ pass' \in Pass /\ pass'.at \in {"export", "ensure", "advance"}
        /\ pass'.claims = NoPass.claims /\ pass'.deploy = NoPass.deploy
        /\ pass'.at = "advance" => ~useful
    BY <1>5, Nothings DEF RestoreBegins, Work, Pass, TypeOK
  <2>2. TypeOK'
    BY <1>5, <2>1 DEF RestoreBegins, RestoreFrame, Stay, Status, TypeOK
  <2>3. Rendered'
    BY <1>5, <2>1, NoPassCarries
      DEF RestoreBegins, RestoreFrame, Stay, Status, Rendered, HealAgrees,
           KeyStaysPrivate
  <2>4. PassOK'
    BY <1>5, <2>1, NoPassCarries DEF RestoreBegins, RestoreFrame, Stay, Status, PassOK
  <2>5. Replayed'
    BY <1>5, <2>1 DEF RestoreBegins, RestoreFrame, Stay, Status, Replayed, Filled, Applies
  <2>6. Snapped' /\ HomeKept' /\ AwayKept'
    BY <1>5 DEF RestoreBegins, RestoreFrame, Stay, Status, Snapped, HomeKept, AwayKept
  <2>7. QED
    BY <2>2, <2>3, <2>4, <2>5, <2>6 DEF VolumeInv
<1>6. CASE Export
  <2>1. \A n \in Names :
          /\ RenderClaim(claim["home"][n]) \in Claim
          /\ RenderClaim(claim["home"][n]).holds = "nothing"
          /\ claim["home"][n].on = "none" => RenderClaim(claim["home"][n]) = NoClaim
    BY Renders DEF TypeOK, Clusters
  <2>2. deploy["home"] \in Deployment /\ deploy["home"].tmpl \in Template \cup {NoPod}
    BY DEF TypeOK, Clusters, Deployment
  <2>3. LET d == [deploy["home"] EXCEPT !.tmpl = RenderTemplate(@)]
        IN d \in Deployment /\ HealNames(d.tmpl) = {}
    BY <2>2, RendersClean DEF Deployment
  <2>4. /\ pass' \in Pass /\ pass'.at = "claims"
        /\ pass'.claims = [n \in Names |-> RenderClaim(claim["home"][n])]
        /\ pass'.deploy = IF deploy["home"].on
                             THEN [deploy["home"] EXCEPT !.tmpl = RenderTemplate(@)]
                             ELSE NoDeploy
    BY <1>6, <2>1, <2>3, Nothings DEF Export, Pass, TypeOK
  <2>5. TypeOK'
    BY <1>6, <2>4 DEF Export, RestoreFrame, Stay, Status, TypeOK
  <2>6. Rendered'
    BY <1>6, <2>3
      DEF Export, RestoreFrame, Stay, Status, Rendered, HealAgrees, KeyStaysPrivate,
          NoDeploy
  <2>7. PassOK'
    BY <1>6, <2>1 DEF Export, RestoreFrame, Stay, Status, PassOK
  <2>8. Replayed'
    BY <1>6 DEF Export, RestoreFrame, Stay, Status, Replayed, Filled, Applies
  <2>9. Snapped' /\ HomeKept' /\ AwayKept'
    BY <1>6 DEF Export, RestoreFrame, Stay, Status, Snapped, HomeKept, AwayKept
  <2>10. QED
    BY <2>5, <2>6, <2>7, <2>8, <2>9 DEF VolumeInv
<1>7. CASE ApplyClaim
  <2>1. Dest \in Clusters /\ pass.i \in Index /\ Claims[pass.i] \in Names
    BY ClaimNames DEF TypeOK, Pass, Dest, Clusters
  <2>2. pass.i = Len(Claims) \/ pass.i + 1 \in Index
    BY <2>1, ClaimNames
  <2>3. /\ pass' \in Pass /\ pass'.at \in {"claims", "deploy"} /\ pass'.deploy = pass.deploy
        /\ pass'.claims = pass.claims \/ (pass'.at = "deploy" /\ pass'.claims = NoPass.claims)
    BY <1>7, <2>2, ClaimNames, NoPassCarries DEF ApplyClaim, Pass, TypeOK
  <2>4. pass.claims \in [Names -> Claim]
    BY DEF TypeOK, Pass
  <2>5. /\ claim' \in [Clusters -> [Names -> Claim]]
        /\ \A k \in Clusters, m \in Names :
              \/ claim'[k][m] = claim[k][m]
              \/ k = Dest /\ claim[k][m].on = "none" /\ claim'[k][m] = pass.claims[m]
    BY <1>7, <2>1, <2>4 DEF ApplyClaim, TypeOK
  <2>6. \A m \in Names :
          \/ claim'["home"][m] = claim["home"][m]
          \/ claim["home"][m].on = "none" /\ claim'["home"][m] = NoClaim
    BY <1>7, <2>5 DEF ApplyClaim, PassOK, Dest, Clusters, TypeOK
  <2>7. UNCHANGED <<pod, remote, engine, useful, backup, phase, applied>>
    BY <1>7 DEF ApplyClaim, RestoreFrame, Status
  <2>8. pass.at = "claims"
    BY <1>7 DEF ApplyClaim
  <2>9. TypeOK'
    BY <1>7, <2>3, <2>5 DEF ApplyClaim, RestoreFrame, Status, TypeOK
  <2>10. Rendered'
    BY <1>7 DEF ApplyClaim, RestoreFrame, Status, Rendered, HealAgrees, KeyStaysPrivate
  <2>11. HomeKept'
    BY <2>6, <2>7, LostClaim DEF HomeKept
  <2>12. AwayKept'
    BY <1>7, <2>1, <2>2, <2>3, <2>4
      DEF ApplyClaim, RestoreFrame, Status, AwayKept, PassOK, Clusters
  <2>13. PassOK'
    BY <2>3, <2>6, <2>7, <2>8, NoPassCarries, ZenonT(60) DEF PassOK
  <2>14. Replayed'
    BY <2>3, <2>5, <2>7, ClaimNames DEF Clusters, Replayed, Filled, Applies
  <2>15. Snapped'
    BY <1>7 DEF ApplyClaim, RestoreFrame, Status, Snapped
  <2>16. QED
    BY <2>9, <2>10, <2>11, <2>12, <2>13, <2>14, <2>15 DEF VolumeInv
<1>8. CASE ApplyDeployment
  <2>1. pass.deploy \in Deployment /\ Dest \in Clusters
    BY DEF TypeOK, Pass, Dest, Clusters
  <2>2. /\ pass' \in Pass /\ pass'.at \in {"ensure", "advance"} /\ pass'.claims = pass.claims
        /\ pass'.deploy = NoDeploy /\ (pass'.at = "advance" => ~useful)
    BY <1>8, Nothings DEF ApplyDeployment, Work, Pass, TypeOK
  <2>4. TypeOK'
    BY <1>8, <2>1, <2>2 DEF ApplyDeployment, RestoreFrame, Status, TypeOK
  <2>5. Rendered'
    BY <1>8
      DEF ApplyDeployment, RestoreFrame, Status, Rendered, HealAgrees, KeyStaysPrivate,
          NoDeploy
  <2>6. PassOK'
    BY <1>8, <2>2 DEF ApplyDeployment, RestoreFrame, Status, PassOK
  <2>7. Replayed'
    BY <1>8, <2>2 DEF ApplyDeployment, RestoreFrame, Status, Replayed, Filled, Applies
  <2>8. Snapped' /\ HomeKept' /\ AwayKept'
    BY <1>8 DEF ApplyDeployment, RestoreFrame, Status, Snapped, HomeKept, AwayKept
  <2>9. QED
    BY <2>4, <2>5, <2>6, <2>7, <2>8 DEF VolumeInv
<1>9. CASE ApplyRefused
  <2>1. left' \in 0 .. MaxEvents
    BY <1>9, Spends DEF ApplyRefused
  <2>3. TypeOK'
    BY <1>9, <2>1, Nothings DEF ApplyRefused, RestoreFrame, Stay, Event, TypeOK
  <2>4. Rendered'
    BY <1>9, NoPassCarries
      DEF ApplyRefused, RestoreFrame, Stay, Event, Rendered, HealAgrees, KeyStaysPrivate
  <2>5. PassOK'
    BY <1>9, NoPassCarries DEF ApplyRefused, RestoreFrame, Stay, Event, PassOK
  <2>6. Replayed'
    BY <1>9, NoPassCarries
      DEF ApplyRefused, RestoreFrame, Stay, Event, Replayed, Filled, Applies
  <2>7. Snapped' /\ HomeKept' /\ AwayKept'
    BY <1>9 DEF ApplyRefused, RestoreFrame, Stay, Event, Snapped, HomeKept, AwayKept
  <2>8. QED
    BY <2>3, <2>4, <2>5, <2>6, <2>7 DEF VolumeInv
<1>10. CASE EnsureClaim
  <2>1. \A b \in BOOLEAN :
          LET q == [pass EXCEPT !.rehydrated = b]
          IN q \in Pass /\ q.claims = pass.claims /\ q.deploy = pass.deploy
    BY DEF TypeOK, Pass
  <2>2. \E b \in BOOLEAN : pass' = AfterClaim([pass EXCEPT !.rehydrated = b])
    BY <1>10 DEF EnsureClaim, TypeOK, Pass
  <2>3. /\ pass' \in Pass /\ pass'.at \in {"dump", "ensure"}
        /\ pass'.claims = pass.claims /\ pass'.deploy = pass.deploy
    BY <2>1, <2>2, GoesOn, ZenonT(60)
  <2>4. TypeOK'
    BY <1>10, <2>3 DEF EnsureClaim, RestoreFrame, Stay, Status, TypeOK
  <2>5. Rendered'
    BY <1>10, <2>3
      DEF EnsureClaim, RestoreFrame, Stay, Status, Rendered, HealAgrees, KeyStaysPrivate
  <2>6. PassOK'
    BY <1>10, <2>3 DEF EnsureClaim, RestoreFrame, Stay, Status, PassOK
  <2>7. Replayed'
    BY <1>10, <2>3 DEF EnsureClaim, RestoreFrame, Stay, Status, Replayed, Filled, Applies
  <2>8. Snapped' /\ HomeKept' /\ AwayKept'
    BY <1>10 DEF EnsureClaim, RestoreFrame, Stay, Status, Snapped, HomeKept, AwayKept
  <2>9. QED
    BY <2>4, <2>5, <2>6, <2>7, <2>8 DEF VolumeInv
<1>11. CASE PickSnapshot
  <2>1. \E x \in Snaps : pass' = [pass EXCEPT !.at = "create", !.pick = x]
    BY <1>11 DEF PickSnapshot, LatestReady, ReadySnaps
  <2>2. /\ pass' \in Pass /\ pass'.at = "create" /\ pass'.pick \in Snaps
        /\ pass'.claims = pass.claims /\ pass'.deploy = pass.deploy
    BY <2>1 DEF TypeOK, Pass
  <2>3. TypeOK'
    BY <1>11, <2>1, <2>2 DEF PickSnapshot, RestoreFrame, Stay, Status, TypeOK
  <2>4. Rendered'
    BY <1>11, <2>1, <2>2
      DEF PickSnapshot, RestoreFrame, Stay, Status, Rendered, HealAgrees,
           KeyStaysPrivate
  <2>5. PassOK'
    BY <1>11, <2>1, <2>2 DEF PickSnapshot, RestoreFrame, Stay, Status, PassOK
  <2>6. Replayed'
    BY <1>11, <2>1, <2>2
      DEF PickSnapshot, RestoreFrame, Stay, Status, Replayed, Filled, Applies
  <2>7. Snapped' /\ HomeKept' /\ AwayKept'
    BY <1>11 DEF PickSnapshot, RestoreFrame, Stay, Status, Snapped, HomeKept, AwayKept
  <2>8. QED
    BY <2>3, <2>4, <2>5, <2>6, <2>7 DEF VolumeInv
<1>12. CASE CreateClaim
  <2>1. Dest \in Clusters /\ pass.i \in Index /\ Claims[pass.i] \in Names
    BY ClaimNames DEF TypeOK, Pass, Dest, Clusters
  <2>2. LET q == [pass EXCEPT !.rehydrated = FALSE, !.pick = NoSnap]
        IN q \in Pass /\ q.claims = pass.claims /\ q.deploy = pass.deploy
    BY DEF TypeOK, Pass
  <2>3. /\ pass' \in Pass /\ pass'.at \in {"dump", "ensure"}
        /\ pass'.claims = pass.claims /\ pass'.deploy = pass.deploy
    BY <1>12, <2>2, GoesOn DEF CreateClaim
  <2>4. /\ FromSnapshot(pass.pick) \in Claim /\ FromSnapshot(pass.pick).on = "pending"
        /\ FromSnapshot(pass.pick).ds # NoSnap /\ FromSnapshot(pass.pick).holds = "nothing"
    BY <1>12, ClaimNames, Nothings
      DEF CreateClaim, PassOK, FromSnapshot, NoClaim, Claim, Snaps
  <2>5. /\ claim' \in [Clusters -> [Names -> Claim]]
        /\ \A k \in Clusters, m \in Names :
              \/ claim'[k][m] = claim[k][m]
              \/ k = Dest /\ claim[k][m].on = "none" /\ claim'[k][m] = FromSnapshot(pass.pick)
    BY <1>12, <2>1, <2>4 DEF CreateClaim, TypeOK
  <2>6. TypeOK'
    BY <1>12, <2>3, <2>5 DEF CreateClaim, RestoreFrame, Status, TypeOK
  <2>7. Rendered'
    BY <1>12, <2>3
      DEF CreateClaim, RestoreFrame, Status, Rendered, HealAgrees, KeyStaysPrivate
  <2>8. HomeKept'
    <3>1. pod' = pod
      BY <1>12 DEF CreateClaim, RestoreFrame
    <3>2. \A m \in Names : \/ claim'["home"][m] = claim["home"][m]
                          \/ /\ claim["home"][m].on = "none"
                             /\ claim'["home"][m] = FromSnapshot(pass.pick)
      BY <2>5 DEF Clusters
    <3> QED
      BY <2>4, <3>1, <3>2 DEF HomeKept
  <2>9. AwayKept'
    BY <1>12, <2>4 DEF CreateClaim, RestoreFrame, Status, AwayKept, Clusters
  <2>10. PassOK'
    BY <1>12, <2>3 DEF CreateClaim, RestoreFrame, Status, PassOK
  <2>11. Replayed'
    BY <1>12, <2>3, <2>5, ClaimNames
      DEF CreateClaim, RestoreFrame, Status, Replayed, Filled, Applies, Clusters
  <2>12. Snapped'
    BY <1>12 DEF CreateClaim, RestoreFrame, Status, Snapped
  <2>13. QED
    BY <2>6, <2>7, <2>8, <2>9, <2>10, <2>11, <2>12 DEF VolumeInv
<1>13. CASE SkipDump
  <2>1. /\ pass' \in Pass /\ pass'.at = "heal"
        /\ pass'.claims = pass.claims /\ pass'.deploy = pass.deploy
        /\ pass'.rehydrated = pass.rehydrated
    BY <1>13 DEF SkipDump, TypeOK, Pass
  <2>2. TypeOK'
    BY <1>13, <2>1 DEF SkipDump, RestoreFrame, Stay, Status, TypeOK
  <2>3. Rendered'
    BY <1>13, <2>1
      DEF SkipDump, RestoreFrame, Stay, Status, Rendered, HealAgrees, KeyStaysPrivate
  <2>4. PassOK'
    BY <1>13, <2>1 DEF SkipDump, RestoreFrame, Stay, Status, PassOK, DumpOwed
  <2>5. Replayed'
    BY <1>13, <2>1
      DEF SkipDump, RestoreFrame, Stay, Status, Replayed, Filled, Applies, DumpOwed
  <2>6. Snapped' /\ HomeKept' /\ AwayKept'
    BY <1>13 DEF SkipDump, RestoreFrame, Stay, Status, Snapped, HomeKept, AwayKept
  <2>7. QED
    BY <2>2, <2>3, <2>4, <2>5, <2>6 DEF VolumeInv
<1>14. CASE DumpWaits
  <2>1. /\ pass' \in Pass /\ pass'.at = "heal"
        /\ pass'.claims = pass.claims /\ pass'.deploy = pass.deploy
        /\ pass'.rehydrated = FALSE
    BY <1>14 DEF DumpWaits, TypeOK, Pass, Held
  <2>2. TypeOK'
    BY <1>14, <2>1 DEF DumpWaits, RestoreFrame, Stay, Status, TypeOK
  <2>3. Rendered'
    BY <1>14, <2>1
      DEF DumpWaits, RestoreFrame, Stay, Status, Rendered, HealAgrees, KeyStaysPrivate
  <2>4. PassOK'
    BY <1>14, <2>1 DEF DumpWaits, RestoreFrame, Stay, Status, PassOK, DumpOwed
  <2>5. Replayed'
    BY <1>14, <2>1
      DEF DumpWaits, RestoreFrame, Stay, Status, Replayed, Filled, Applies, DumpOwed
  <2>6. Snapped' /\ HomeKept' /\ AwayKept'
    BY <1>14 DEF DumpWaits, RestoreFrame, Stay, Status, Snapped, HomeKept, AwayKept
  <2>7. QED
    BY <2>2, <2>3, <2>4, <2>5, <2>6 DEF VolumeInv
<1>15. CASE ReplayDump
  <2>1. /\ pass' \in Pass /\ pass'.at = "remember"
        /\ pass'.claims = pass.claims /\ pass'.deploy = pass.deploy
    BY <1>15 DEF ReplayDump, TypeOK, Pass
  <2>2. Dest \in Clusters /\ Data \in Names /\ "blank" # "nothing"
    BY ClaimNames DEF Dest, Clusters
  <2>3. engine = "postgres" =>
          remote /\ claim["away"][Data].holds = "blank" /\ claim["away"][Data].on = "bound"
    BY <1>15, ClaimNames DEF ReplayDump, Replays, Dest, HomeKept, AwayKept, TypeOK
  <2>4. LET c == [claim["away"][Data] EXCEPT !.holds = Data]
        IN c \in Claim /\ c.holds = Data /\ c.on = claim["away"][Data].on
    BY <1>c, <2>2 DEF Clusters, Claim, Contents
  <2>5. /\ claim' \in [Clusters -> [Names -> Claim]]
        /\ claim'["home"] = claim["home"]
        /\ \A m \in Names :
              \/ claim'["away"][m] = claim["away"][m]
              \/ claim["away"][m].on = "bound" /\ claim'["away"][m].on = "bound"
        /\ engine = "postgres" =>
              claim'["away"][Data].on = "bound" /\ claim'["away"][Data].holds = Data
    BY <1>15, <2>2, <2>3, <2>4 DEF ReplayDump, TypeOK, Dest, Clusters
  <2>6. TypeOK'
    BY <1>15, <2>1, <2>5 DEF ReplayDump, RestoreFrame, Status, TypeOK
  <2>7. Rendered'
    BY <1>15 DEF ReplayDump, RestoreFrame, Status, Rendered, HealAgrees, KeyStaysPrivate
  <2>8. HomeKept'
    <3>1. pod' = pod /\ claim'["home"] = claim["home"]
      BY <1>15, <2>5 DEF ReplayDump, RestoreFrame
    <3> QED
      BY <3>1 DEF HomeKept
  <2>9. AwayKept'
    BY <1>15, <2>5 DEF ReplayDump, RestoreFrame, Status, AwayKept
  <2>10. PassOK'
    BY <1>15, <2>1, <2>5 DEF ReplayDump, RestoreFrame, Status, PassOK, DumpOwed
  <2>11. Replayed'
    BY <1>15, <2>1, <2>3, <2>5
      DEF ReplayDump, RestoreFrame, Status, Replayed, Filled, Applies, DumpOwed
  <2>12. Snapped'
    BY <1>15 DEF ReplayDump, RestoreFrame, Status, Snapped
  <2>13. QED
    BY <2>6, <2>7, <2>8, <2>9, <2>10, <2>11, <2>12 DEF VolumeInv
<1>16. CASE RememberDump
  <2>1. /\ pass' \in Pass /\ pass'.at = "heal"
        /\ pass'.claims = pass.claims /\ pass'.deploy = pass.deploy
        /\ pass'.rehydrated = pass.rehydrated
    BY <1>16 DEF RememberDump, TypeOK, Pass
  <2>2. TypeOK'
    BY <1>16, <2>1 DEF RememberDump, RestoreFrame, Stay, TypeOK
  <2>3. Rendered'
    BY <1>16, <2>1
      DEF RememberDump, RestoreFrame, Stay, Rendered, HealAgrees, KeyStaysPrivate
  <2>4. PassOK'
    BY <1>16, <2>1 DEF RememberDump, RestoreFrame, Stay, PassOK
  <2>5. Replayed'
    BY <1>16, <2>1 DEF RememberDump, RestoreFrame, Stay, Replayed, Filled, Applies
  <2>6. Snapped' /\ HomeKept' /\ AwayKept'
    BY <1>16 DEF RememberDump, RestoreFrame, Stay, Snapped, HomeKept, AwayKept
  <2>7. QED
    BY <2>2, <2>3, <2>4, <2>5, <2>6 DEF VolumeInv
<1>17. CASE Heal
  <2>1. /\ pass' \in Pass /\ pass'.at = "advance"
        /\ pass'.claims = pass.claims /\ pass'.deploy = pass.deploy
        /\ pass'.rehydrated = pass.rehydrated
    BY <1>17 DEF Heal, TypeOK, Pass
  <2>2. deploy' \in [Clusters -> Deployment]
    <3>1. Dest \in Clusters
      BY DEF Dest, Clusters
    <3>2. deploy[Dest] \in Deployment
      BY <1>d, <3>1
    <3>3. [deploy[Dest] EXCEPT !.tmpl = HealPodSpec(@)] \in Deployment
      BY <3>2, Heals DEF Deployment
    <3> QED BY <1>17, <1>d, <3>1, <3>3 DEF Heal
  <2>3. TypeOK'
    BY <1>17, <2>1, <2>2 DEF Heal, RestoreFrame, Status, TypeOK
  <2>4. Rendered'
    BY <1>17, <2>1, <2>2
      DEF Heal, RestoreFrame, Status, Rendered, HealAgrees, KeyStaysPrivate
  <2>5. PassOK'
    BY <1>17, <2>1, <2>2 DEF Heal, RestoreFrame, Status, PassOK
  <2>6. Replayed'
    BY <1>17, <2>1, <2>2 DEF Heal, RestoreFrame, Status, Replayed, Filled, Applies
  <2>7. Snapped' /\ HomeKept' /\ AwayKept'
    BY <1>17 DEF Heal, RestoreFrame, Status, Snapped, HomeKept, AwayKept
  <2>8. QED
    BY <2>3, <2>4, <2>5, <2>6, <2>7 DEF VolumeInv
<1>18. CASE HealFails
  <2>1. /\ pass' \in Pass /\ pass'.at = "advance"
        /\ pass'.claims = pass.claims /\ pass'.deploy = pass.deploy
        /\ pass'.rehydrated = pass.rehydrated
    BY <1>18 DEF HealFails, TypeOK, Pass
  <2>2. left' \in 0 .. MaxEvents
    BY <1>18, Spends DEF HealFails
  <2>3. TypeOK'
    BY <1>18, <2>1, <2>2 DEF HealFails, RestoreFrame, Stay, Status, Event, TypeOK
  <2>4. Rendered'
    BY <1>18, <2>1, <2>2
      DEF HealFails, RestoreFrame, Stay, Status, Event, Rendered, HealAgrees,
           KeyStaysPrivate
  <2>5. PassOK'
    BY <1>18, <2>1, <2>2 DEF HealFails, RestoreFrame, Stay, Status, Event, PassOK
  <2>6. Replayed'
    BY <1>18, <2>1, <2>2
      DEF HealFails, RestoreFrame, Stay, Status, Event, Replayed, Filled, Applies
  <2>7. Snapped' /\ HomeKept' /\ AwayKept'
    BY <1>18 DEF HealFails, RestoreFrame, Stay, Status, Event, Snapped, HomeKept, AwayKept
  <2>8. QED
    BY <2>3, <2>4, <2>5, <2>6, <2>7 DEF VolumeInv
<1>19. CASE Advance
  <2>1. pass' = NoPass /\ pass.at = "advance" /\ backup.at = "idle"
    BY <1>19 DEF Advance, PassOK
  <2>2. phase' \in {"Rehydrating", "WaitingReady", "Succeeded", "Failed"}
    BY <1>19, <2>1 DEF Advance, NextPhase, TypeOK, PassOK
  <2>3. phase' \in {"WaitingReady", "Succeeded"} /\ useful =>
          phase = "WaitingReady" \/ (Applies /\ pass.rehydrated)
    BY <1>19, <2>1 DEF Advance, NextPhase, TypeOK, PassOK, Applies
  <2>4. TypeOK'
    BY <1>19, <2>2, Nothings DEF Advance, RestoreFrame, Stay, TypeOK
  <2>5. Rendered'
    BY <1>19, NoPassCarries
      DEF Advance, RestoreFrame, Stay, Rendered, HealAgrees, KeyStaysPrivate
  <2>6. PassOK'
    BY <1>19, NoPassCarries DEF Advance, RestoreFrame, Stay, PassOK
  <2>7. Replayed'
    BY <1>19, <2>3, NoPassCarries DEF Advance, RestoreFrame, Stay, Replayed, Filled, Applies
  <2>8. Snapped' /\ HomeKept' /\ AwayKept'
    BY <1>19 DEF Advance, RestoreFrame, Stay, Snapped, HomeKept, AwayKept
  <2>9. QED
    BY <2>4, <2>5, <2>6, <2>7, <2>8 DEF VolumeInv
<1>20. CASE RestoreCut
  <2>1. left' \in 0 .. MaxEvents
    BY <1>20, Spends DEF RestoreCut
  <2>3. TypeOK'
    BY <1>20, <2>1, Nothings DEF RestoreCut, RestoreFrame, Stay, Status, Event, TypeOK
  <2>4. Rendered'
    BY <1>20, NoPassCarries
      DEF RestoreCut, RestoreFrame, Stay, Status, Event, Rendered, HealAgrees,
          KeyStaysPrivate
  <2>5. PassOK'
    BY <1>20, NoPassCarries DEF RestoreCut, RestoreFrame, Stay, Status, Event, PassOK
  <2>6. Replayed'
    BY <1>20, NoPassCarries
      DEF RestoreCut, RestoreFrame, Stay, Status, Event, Replayed, Filled, Applies
  <2>7. Snapped' /\ HomeKept' /\ AwayKept'
    BY <1>20
      DEF RestoreCut, RestoreFrame, Stay, Status, Event, Snapped, HomeKept, AwayKept
  <2>8. QED
    BY <2>3, <2>4, <2>5, <2>6, <2>7 DEF VolumeInv
<1>21. ASSUME NEW k \in Clusters, NEW x \in Snaps, SnapshotReady(k, x)
      PROVE  VolumeInv'
  <2>1. LET s == [snap[k][x] EXCEPT !.on = "ready"]
        IN s \in Snap /\ s.on = "ready" /\ s.holds = snap[k][x].holds
    BY <1>21, <1>s DEF Snap
  <2>2. /\ snap' \in [Clusters -> [Snaps -> Snap]] /\ snap[k][x].holds # "nothing"
        /\ \A l \in Clusters, y \in Snaps :
              \/ snap'[l][y] = snap[l][y]
              \/ l = k /\ y = x /\ snap'[l][y].holds = snap[k][x].holds
    BY <1>21, <1>s, <2>1 DEF SnapshotReady
  <2>3. TypeOK'
    BY <1>21, <2>1, <2>2 DEF SnapshotReady, ClusterFrame, TypeOK
  <2>4. Snapped'
    BY <1>21, <2>2 DEF SnapshotReady, ClusterFrame, Snapped
  <2>5. Rendered' /\ HomeKept' /\ AwayKept' /\ PassOK' /\ Replayed'
    BY <1>21
      DEF SnapshotReady, ClusterFrame, Rendered, HealAgrees, KeyStaysPrivate, HomeKept,
           AwayKept, PassOK, Replayed, Filled, Applies
  <2>6. QED
    BY <2>3, <2>4, <2>5 DEF VolumeInv
<1>22. ASSUME NEW k \in Clusters, NEW n \in Names, Bind(k, n)
      PROVE  VolumeInv'
  <2>1. claim[k][n] \in Claim /\ claim[k][n].ds \in Snaps \cup {NoSnap, Gone}
    BY <1>22, <1>c DEF Claim
  <2>2. ReadySnaps(k) \subseteq Snaps /\ \A x \in ReadySnaps(k) : snap[k][x].holds \in Names
    BY <1>22, <1>s DEF ReadySnaps, Snapped, Snap, Contents
  <2>3. LET h == IF claim[k][n].ds = NoSnap THEN "nothing" ELSE snap[k][claim[k][n].ds].holds
        IN h \in Contents /\ (claim[k][n].ds # NoSnap => h \in Names)
    BY <1>22, <2>2 DEF Bind, Contents
  <2>4. /\ claim' \in [Clusters -> [Names -> Claim]]
        /\ \A l \in Clusters, m \in Names :
              \/ claim'[l][m] = claim[l][m]
              \/ /\ l = k /\ m = n /\ claim[k][n].on = "pending"
                 /\ claim'[k][n].on = "bound" /\ claim'[k][n].ds = claim[k][n].ds
                 /\ claim[k][n].ds # NoSnap => claim'[k][n].holds \in Names
                 /\ claim'[k][n].holds \in Names \cup {"nothing"}
    BY <1>22, <1>c, <2>1, <2>3, ZenonT(60) DEF Bind, Claim, Contents
  <2>5. UNCHANGED <<pod, pass, remote, engine, useful, backup, phase, applied>>
    BY <1>22 DEF Bind, ClusterFrame
  <2>6. TypeOK'
    BY <1>22, <2>4 DEF Bind, ClusterFrame, TypeOK
  <2>7. HomeKept'
    BY <2>4, <2>5, ClaimNames, ZenonT(60) DEF Clusters, HomeKept
  <2>8. AwayKept'
    BY <2>4, <2>5, ClaimNames DEF Clusters, AwayKept
  <2>9. PassOK'
    BY <2>4, <2>5, ClaimNames DEF Clusters, PassOK
  <2>10. Replayed'
    BY <2>4, <2>5, ClaimNames DEF Clusters, Replayed, Filled, Applies
  <2>11. Rendered' /\ Snapped'
    BY <1>22 DEF Bind, ClusterFrame, Rendered, HealAgrees, KeyStaysPrivate, Snapped
  <2>12. QED
    BY <2>6, <2>7, <2>8, <2>9, <2>10, <2>11 DEF VolumeInv
<1>23. ASSUME NEW k \in Clusters, PodStarts(k)
      PROVE  VolumeInv'
  <2>1. pod' \in [Clusters -> Template \cup {NoPod}]
    BY <1>23 DEF PodStarts, TypeOK, Deployment
  <2>2. widened' = FALSE
    BY <1>23, CleanHasNoGroup DEF PodStarts, Wanted, Rendered, HealAgrees, KeyStaysPrivate
  <2>3. /\ claim' \in [Clusters -> [Names -> Claim]]
        /\ \A l \in Clusters, m \in Names :
              \/ claim'[l][m] = claim[l][m]
              \/ /\ l = k /\ claim[k][m].on = "bound" /\ claim[k][m].holds = "nothing"
                 /\ claim'[k][m].on = "bound" 
    BY <1>23, <1>c DEF PodStarts, Claim, Contents
  <2>5. UNCHANGED <<pass, remote, engine, useful, backup, phase, applied>>
    BY <1>23 DEF PodStarts, ClusterFrame
  <2>6. TypeOK'
    BY <1>23, <2>1, <2>3 DEF PodStarts, ClusterFrame, TypeOK
  <2>7. Rendered'
    BY <1>23, <2>2 DEF PodStarts, ClusterFrame, Rendered, HealAgrees, KeyStaysPrivate
  <2>8. HomeKept'
    <3>1. \A m \in Names : claim["home"][m].on = "bound" => claim["home"][m].holds # "nothing"
      BY ClaimNames DEF HomeKept
    <3>2. \A m \in Names : claim'["home"][m] = claim["home"][m]
      BY <2>3, <3>1 DEF Clusters
    <3>3. pod'["home"] # NoPod => \A m \in Names : claim["home"][m].on = "bound"
      BY <1>23 DEF PodStarts, HomeKept, TypeOK, Clusters
    <3> QED
      BY <3>2, <3>3 DEF HomeKept
  <2>9. AwayKept'
    BY <1>23 DEF PodStarts, ClusterFrame, AwayKept, Clusters
  <2>10. PassOK'
    BY <2>3, <2>5 DEF Clusters, PassOK
  <2>11. Replayed'
    BY <2>3, <2>5, ClaimNames DEF Clusters, Replayed, Filled, Applies
  <2>12. Snapped'
    BY <1>23 DEF PodStarts, ClusterFrame, Snapped
  <2>13. QED
    BY <2>6, <2>7, <2>8, <2>9, <2>10, <2>11, <2>12 DEF VolumeInv
<1>24. ASSUME NEW k \in Clusters, PodStops(k)
      PROVE  VolumeInv'
  <2>1. pod' \in [Clusters -> Template \cup {NoPod}]
    BY <1>24 DEF PodStops, TypeOK
  <2>2. TypeOK'
    BY <1>24, <2>1 DEF PodStops, ClusterFrame, TypeOK
  <2>3. HomeKept'
    BY <1>24, <2>1 DEF PodStops, ClusterFrame, HomeKept, TypeOK, Clusters
  <2>4. Rendered' /\ Snapped' /\ AwayKept' /\ PassOK' /\ Replayed'
    BY <1>24
      DEF PodStops, ClusterFrame, Rendered, HealAgrees, KeyStaysPrivate, Snapped,
           AwayKept, PassOK, Replayed, Filled, Applies
  <2>5. QED
    BY <2>2, <2>3, <2>4 DEF VolumeInv
<1>25. CASE ReplicaClaims
  <2>1. MapSC(claim["home"][Data].class) \in Classes
    BY ClaimNames DEF MapSC, Classes, TypeOK, Clusters, Claim
  <2>2. LET c == [NoClaim EXCEPT !.on = "bound", !.class = MapSC(claim["home"][Data].class)]
        IN c \in Claim /\ c.on = "bound" /\ c.holds = "nothing"
    BY <2>1, Nothings DEF Claim, NoClaim
  <2>3. /\ claim' \in [Clusters -> [Names -> Claim]]
        /\ \A l \in Clusters, m \in Names :
              \/ claim'[l][m] = claim[l][m]
              \/ /\ l = "away" /\ claim[l][m].on = "none"
                 /\ claim'[l][m].on = "bound" /\ claim'[l][m].holds = "nothing"
    BY <1>25, <2>2, ClaimNames DEF ReplicaClaims, TypeOK, Clusters
  <2>4. TypeOK'
    BY <1>25, <2>3 DEF ReplicaClaims, ClusterFrame, TypeOK
  <2>5. HomeKept'
    BY <1>25 DEF ReplicaClaims, ClusterFrame, HomeKept, Clusters
  <2>6. AwayKept'
    BY <1>25 DEF ReplicaClaims, ClusterFrame, AwayKept, Clusters
  <2>7. PassOK'
    BY <1>25 DEF ReplicaClaims, ClusterFrame, PassOK, Clusters
  <2>8. Replayed'
    BY <1>25 DEF ReplicaClaims, ClusterFrame, Replayed, Filled, Applies, Clusters
  <2>9. Rendered' /\ Snapped'
    BY <1>25
      DEF ReplicaClaims, ClusterFrame, Rendered, HealAgrees, KeyStaysPrivate, Snapped
  <2>10. QED
    BY <2>4, <2>5, <2>6, <2>7, <2>8, <2>9 DEF VolumeInv
<1>26. CASE ReplicaFills
  <2>1. claim["home"][Data].holds \in Contents
    BY ClaimNames DEF TypeOK, Clusters, Claim
  <2>2. /\ claim' \in [Clusters -> [Names -> Claim]]
        /\ \A l \in Clusters, m \in Names :
              \/ claim'[l][m] = claim[l][m]
              \/ /\ l = "away" /\ m = Data /\ claim[l][m].on = "bound"
                 /\ claim[l][m].holds # Data /\ claim'[l][m].on = "bound"
    BY <1>26, <1>c, ClaimNames DEF ReplicaFills, Clusters, Claim
  <2>3. TypeOK'
    BY <1>26, <2>1, <2>2 DEF ReplicaFills, ClusterFrame, TypeOK
  <2>4. HomeKept'
    BY <1>26, <2>1, <2>2 DEF ReplicaFills, ClusterFrame, HomeKept, Clusters
  <2>5. AwayKept'
    BY <1>26, <2>1, <2>2 DEF ReplicaFills, ClusterFrame, AwayKept, Clusters
  <2>6. PassOK'
    BY <1>26, <2>1, <2>2 DEF ReplicaFills, ClusterFrame, PassOK, Clusters
  <2>7. Replayed'
    BY <1>26 DEF ReplicaFills, ClusterFrame, Replayed, Filled, Applies, Clusters
  <2>8. Rendered' /\ Snapped'
    BY <1>26
      DEF ReplicaFills, ClusterFrame, Rendered, HealAgrees, KeyStaysPrivate, Snapped
  <2>9. QED
    BY <2>3, <2>4, <2>5, <2>6, <2>7, <2>8 DEF VolumeInv
<1>27. CASE LoseClaims
  <2>1. left' \in 0 .. MaxEvents
    BY <1>27, Spends DEF LoseClaims
  <2>2. pod' \in [Clusters -> Template \cup {NoPod}] /\ pod'["home"] = NoPod
    BY <1>27 DEF LoseClaims, TypeOK, Clusters
  <2>3. PICK S \in SUBSET Names \ {{}}, how \in {"none", "lost"} :
          claim' = [claim EXCEPT !["home"] = [n \in Names |->
                      CASE n \notin S -> @[n]
                        [] n \in S /\ how = "none" -> NoClaim
                        [] n \in S /\ how = "lost" -> [@[n] EXCEPT !.on = "lost", !.holds = "nothing"]]]
    BY <1>27 DEF LoseClaims
  <2>5. \A m \in Names :
          \/ claim'["home"][m] = claim["home"][m]
          \/ claim'["home"][m] = NoClaim
          \/ claim'["home"][m] = [claim["home"][m] EXCEPT !.on = "lost", !.holds = "nothing"]
    BY <1>c, <2>3 DEF Clusters
  <2>6. /\ claim' = [claim EXCEPT !["home"] = claim'["home"]]
        /\ claim'["home"] = [m \in Names |-> claim'["home"][m]]
    BY <1>c, <2>3 DEF Clusters
  <2>7. ASSUME NEW m \in Names
        PROVE  /\ claim'["home"][m] \in Claim
               /\ \/ claim'["home"][m] = claim["home"][m]
                  \/ claim'["home"][m].on \in {"none", "lost"} /\ claim'["home"][m].holds = "nothing"
    <3>1. claim["home"][m] \in Claim
      BY <1>c, <2>7 DEF Clusters
    <3>2. CASE claim'["home"][m] = claim["home"][m]
      BY <3>1, <3>2
    <3>3. CASE claim'["home"][m] = NoClaim
      BY <3>3, Nothings, LostClaim
    <3>4. CASE claim'["home"][m] = [claim["home"][m] EXCEPT !.on = "lost", !.holds = "nothing"]
      BY <3>1, <3>4, LostClaim
    <3>5. QED
      BY <2>5, <3>2, <3>3, <3>4
  <2>8. /\ claim' \in [Clusters -> [Names -> Claim]] /\ claim'["away"] = claim["away"]
    BY <1>c, <2>6, <2>7 DEF Clusters
  <2>9. TypeOK'
    BY <1>27, <2>1, <2>8 DEF LoseClaims, ClusterFrame, Event, TypeOK
  <2>10. HomeKept'
    BY <1>27, <2>2, <2>7, ZenonT(60) DEF LoseClaims, ClusterFrame, Event, HomeKept
  <2>11. AwayKept'
    BY <1>27, <2>8 DEF LoseClaims, ClusterFrame, Event, AwayKept
  <2>12. PassOK'
    BY <1>27 DEF LoseClaims, ClusterFrame, Event, PassOK
  <2>13. Replayed'
    BY <1>27, <2>8 DEF LoseClaims, ClusterFrame, Event, Replayed, Filled, Applies
  <2>14. Rendered' /\ Snapped'
    BY <1>27
      DEF LoseClaims, ClusterFrame, Event, Rendered, HealAgrees, KeyStaysPrivate,
           Snapped
  <2>15. QED
    BY <2>9, <2>10, <2>11, <2>12, <2>13, <2>14 DEF VolumeInv
<1>28. CASE Freeze
  <2>1. left' \in 0 .. MaxEvents
    BY <1>28, Spends DEF Freeze
  <2>2. deploy' \in [Clusters -> Deployment] /\ deploy'["away"] = deploy["away"]
    BY <1>28, ZenonT(60) DEF Freeze, TypeOK, Deployment, Clusters
  <2>3. TypeOK'
    BY <1>28, <2>1, <2>2 DEF Freeze, ClusterFrame, Event, TypeOK
  <2>4. Rendered'
    BY <1>28, <2>1, <2>2
      DEF Freeze, ClusterFrame, Event, Rendered, HealAgrees, KeyStaysPrivate
  <2>5. Snapped' /\ HomeKept' /\ AwayKept' /\ PassOK' /\ Replayed'
    BY <1>28
      DEF Freeze, ClusterFrame, Event, Snapped, HomeKept, AwayKept, PassOK, Replayed,
           Filled, Applies
  <2>6. QED
    BY <2>3, <2>4, <2>5 DEF VolumeInv
<1>29. CASE LoseSnapshot
  <2>1. left' \in 0 .. MaxEvents
    BY <1>29, Spends DEF LoseSnapshot
  <2>2. /\ snap' \in [Clusters -> [Snaps -> Snap]]
        /\ \A l \in Clusters, y \in Snaps : snap'[l][y] \in {snap[l][y], NoSnapshot}
    BY <1>29, <1>s, Nothings DEF LoseSnapshot
  <2>3. TypeOK'
    BY <1>29, <2>1, <2>2 DEF LoseSnapshot, ClusterFrame, Event, TypeOK
  <2>4. Snapped'
    <3>1. NoSnapshot.holds # "blank" /\ NoSnapshot.on # "ready"
      BY DEF NoSnapshot
    <3> QED
      BY <2>2, <3>1 DEF Snapped
  <2>5. Rendered' /\ HomeKept' /\ AwayKept' /\ PassOK' /\ Replayed'
    BY <1>29
      DEF LoseSnapshot, ClusterFrame, Event, Rendered, HealAgrees, KeyStaysPrivate,
           HomeKept, AwayKept, PassOK, Replayed, Filled, Applies
  <2>6. QED
    BY <2>3, <2>4, <2>5 DEF VolumeInv
<1>30. CASE ImportSnapshot
  <2>1. /\ snap' \in [Clusters -> [Snaps -> Snap]]
        /\ \A l \in Clusters, y \in Snaps : snap'[l][y] \in {snap[l][y], snap["home"][y], NoSnapshot}
    BY <1>30, Nothings DEF ImportSnapshot, TypeOK, Clusters
  <2>2. TypeOK'
    BY <1>30, <2>1 DEF ImportSnapshot, ClusterFrame, TypeOK
  <2>3. Snapped'
    BY <1>30, <2>1 DEF ImportSnapshot, ClusterFrame, Snapped, NoSnapshot, Clusters
  <2>4. Rendered' /\ HomeKept' /\ AwayKept' /\ PassOK' /\ Replayed'
    BY <1>30
      DEF ImportSnapshot, ClusterFrame, Rendered, HealAgrees, KeyStaysPrivate, HomeKept,
           AwayKept, PassOK, Replayed, Filled, Applies
  <2>5. QED
    BY <2>2, <2>3, <2>4 DEF VolumeInv
<1>31. CASE UNCHANGED vars
  <2>1. TypeOK'
    BY <1>31 DEF vars, TypeOK
  <2>2. Rendered'
    BY <1>31 DEF vars, Rendered, HealAgrees, KeyStaysPrivate
  <2>3. Snapped'
    BY <1>31 DEF vars, Snapped
  <2>4. HomeKept'
    BY <1>31 DEF vars, HomeKept
  <2>5. AwayKept'
    BY <1>31 DEF vars, AwayKept
  <2>6. PassOK'
    BY <1>31 DEF vars, PassOK
  <2>7. Replayed'
    BY <1>31 DEF vars, Replayed, Filled, Applies
  <2>8. QED
    BY <2>1, <2>2, <2>3, <2>4, <2>5, <2>6, <2>7 DEF VolumeInv
<1>32. QED
    BY <1>1, <1>2, <1>3, <1>4, <1>5, <1>6, <1>7, <1>8, <1>9, <1>10, <1>11, <1>12, <1>13,
       <1>14, <1>15, <1>16, <1>17, <1>18, <1>19, <1>20, <1>21, <1>22, <1>23, <1>24, <1>25,
       <1>26, <1>27, <1>28, <1>29, <1>30, <1>31
      DEF Next, BackupStep, RestoreStep, Cluster

\* The invariant holds in every reachable state.
THEOREM Invariance == Spec => []VolumeInv
<1>1. QED
    BY InitInv, StepInv, PTL DEF Spec

\* Every reachable state of a Restore and its clusters is well typed, for any
\* claims, templates and maps.
THEOREM TypeCorrect == Spec => []TypeOK
<1>1. VolumeInv => TypeOK
    BY DEF VolumeInv
<1>2. QED
    BY <1>1, Invariance, PTL

\* Heal never changes a Deployment that apply wrote on dest: the rules of
\* pkg/transform cover those of pkg/heal for every template.
THEOREM HealersAgree == Spec => []HealAgrees
<1>1. VolumeInv => HealAgrees
    BY DEF VolumeInv, Rendered
<1>2. QED
    BY <1>1, Invariance, PTL

\* No pod of dest ever mounts a filled Postgres volume with an fsGroup, whoever
\* filled the claim and whatever the source's template asks for.
THEOREM KeyPrivate == Spec => []KeyStaysPrivate
<1>1. VolumeInv => KeyStaysPrivate
    BY DEF VolumeInv, Rendered
<1>2. QED
    BY <1>1, Invariance, PTL

\* Only Advance ends a Restore in success, and only with a Ready workload.
LEMMA SucceedsByAdvance ==
    ASSUME VolumeInv, [Next]_vars, Succeeds
    PROVE  /\ pass.at = "advance" /\ useful /\ Ready(Dest)
           /\ phase = "WaitingReady" \/ (Applies /\ pass.rehydrated)
           /\ claim' = claim
<1>1. TypeOK /\ PassOK
    BY DEF VolumeInv
<1>2. phase' # phase /\ phase' = "Succeeded"
    BY DEF Succeeds
<1>3. Advance
  <2>1. CASE BackupStep
    BY <1>2, <2>1 DEF BackupStep, BackupBegins, CreateSnapshot, SnapshotFails, CaptureDump,
      BackupFrame
  <2>2. CASE ApplyRefused
    BY <1>2, <2>2 DEF ApplyRefused
  <2>3. CASE RestoreBegins \/ HealFails \/ RestoreCut \/ Export \/ SkipDump \/ DumpWaits
    BY <1>2, <2>3 DEF RestoreBegins, HealFails, RestoreCut, Export, SkipDump, DumpWaits, Status
  <2>4. CASE ApplyClaim \/ ApplyDeployment \/ EnsureClaim \/ PickSnapshot \/ CreateClaim
    BY <1>2, <2>4 DEF ApplyClaim, ApplyDeployment, EnsureClaim, PickSnapshot, CreateClaim, Status
  <2>5. CASE ReplayDump \/ RememberDump \/ Heal
    BY <1>2, <2>5 DEF ReplayDump, RememberDump, Heal, Status
  <2>6. CASE \E k \in Clusters : Cluster(k)
    BY <1>2, <2>6, ZenonT(60) DEF Cluster, PodStarts, PodStops, Bind, SnapshotReady, ClusterFrame
  <2>7. CASE ReplicaClaims \/ ReplicaFills \/ LoseClaims
    BY <1>2, <2>7 DEF ReplicaClaims, ReplicaFills, LoseClaims, ClusterFrame
  <2>8. CASE Freeze \/ LoseSnapshot \/ ImportSnapshot
    BY <1>2, <2>8 DEF Freeze, LoseSnapshot, ImportSnapshot, ClusterFrame
  <2>9. CASE UNCHANGED vars
    BY <1>2, <2>9 DEF vars
  <2>10. CASE Advance
    BY <2>10
  <2>11. QED
    BY <2>1, <2>2, <2>3, <2>4, <2>5, <2>6, <2>7, <2>8, <2>9, <2>10 DEF Next, RestoreStep
<1>4. pass.at = "advance" /\ phase' = NextPhase /\ claim' = claim
    BY <1>3 DEF Advance, Stay
<1>5. phase \in {"", "Rehydrating", "WaitingReady"}
    BY <1>1, <1>4 DEF TypeOK, PassOK
<1>6. QED
    BY <1>2, <1>4, <1>5 DEF NextPhase, Applies

\* A Restore in place that succeeds leaves its own data in every claim that was
\* not lost and the data of a snapshot in every recreated one: its pod is
\* Ready, so its claims are bound, and in the source's cluster a bound claim
\* holds just that.
THEOREM RestoresInPlace == Spec => InPlaceRestored
<1>1. ASSUME VolumeInv, [Next]_vars
      PROVE  Succeeds /\ ~remote =>
                \A n \in Names :
                    LET c == claim["home"][n]
                    IN c.holds \in (IF c.ds = NoSnap THEN {n} ELSE Names)
  <2> SUFFICES ASSUME Succeeds, ~remote
               PROVE  \A n \in Names :
                          LET c == claim["home"][n]
                          IN c.holds \in (IF c.ds = NoSnap THEN {n} ELSE Names)
    OBVIOUS
  <2>1. Ready("home")
    BY <1>1, SucceedsByAdvance DEF Dest
  <2>2. \A n \in Names : claim["home"][n].on = "bound"
    BY <1>1, <2>1 DEF Ready, VolumeInv, HomeKept
  <2>3. QED
    BY <1>1, <2>2 DEF VolumeInv, HomeKept
<1>2. QED
    BY <1>1, Invariance, PTL DEF InPlaceRestored, Spec

\* A Postgres whose Restore succeeds holds its own data: it left
\* Rehydrating with its dump replayed, and what was replayed stays.
THEOREM RestoresDatabase == Spec => DatabaseRestored
<1>1. ASSUME VolumeInv, [Next]_vars
      PROVE  Succeeds /\ engine = "postgres" => claim[Dest][Data].holds = Data
  <2> SUFFICES ASSUME Succeeds, engine = "postgres"
               PROVE  claim[Dest][Data].holds = Data
    OBVIOUS
  <2>1. /\ pass.at = "advance" /\ useful
        /\ phase = "WaitingReady" \/ (Applies /\ pass.rehydrated)
    BY <1>1, SucceedsByAdvance
  <2>2. applied
    BY <1>1, <2>1 DEF VolumeInv, Replayed
  <2>3. Filled
    BY <1>1, <2>2 DEF VolumeInv, Replayed
  <2>4. QED
    BY <2>3, ClaimNames DEF Filled, Dest
<1>2. QED
    BY <1>1, Invariance, PTL DEF DatabaseRestored, Spec
=============================================================================
