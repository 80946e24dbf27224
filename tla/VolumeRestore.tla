--------------------------- MODULE VolumeRestore ---------------------------
(***************************************************************************)
(* What a Restore does to one Deployment with claims, on the way from the  *)
(* source's objects to a pod on dest that serves its data: Backup takes    *)
(* CSI snapshots and a logical dump; Restore exports the claims and the    *)
(* Deployment, sanitizes them, applies them, fills missing claims from a   *)
(* snapshot, replays the dump, heals the pod template and waits for Ready. *)
(* Beside it the storage provisioner, the scheduler and kubelet act on     *)
(* what is there, VolSync fills the claims of dest, snapshots come and go, *)
(* and the source loses its claims or is frozen by a Cutover.              *)
(*                                                                         *)
(* A pair without remote credentials is one cluster: source and dest are   *)
(* the same objects.                                                       *)
(*                                                                         *)
(* The phases of the Action and its cache are those of RestoreAction; here *)
(* the artifact is the one the Restore started with.                       *)
(***************************************************************************)
EXTENDS Naturals, Sequences

CONSTANTS
    Claims,          \* sequence: the workload's claims in name order, data first
    Templates,       \* pod templates the source may run
    Pairs,           \* subset of BOOLEAN: is dest a cluster of its own
    SourceClass,     \* StorageClass of the source's claims
    StorageClassMap, \* ClusterPair.spec.storageClassMap
    RuntimeClassMap, \* ClusterPair.spec.runtimeClassMap
    AwayClasses,     \* StorageClasses of the other cluster
    AwayRuntimes,    \* RuntimeClasses of the other cluster
    MaxEvents        \* bound: losses, failing calls and crashes

VARIABLES
    left,    \* events still to come
    remote,  \* the pair has a dest of its own
    engine,  \* what the image is classified as
    claim,   \* claims of each cluster
    snap,    \* VolumeSnapshots of each cluster
    deploy,  \* the Deployment of each cluster
    pod,     \* its pod: the template it runs, or NoPod
    widened, \* kubelet has made the private key of restored data group-readable
    useful,  \* the Policy lists a useful artifact of the workload
    backup,  \* the pass of the Backup Action
    phase,   \* phase of the Restore Action
    applied, \* its dump-applied annotation
    pass     \* its pass

vars == <<left, remote, engine, claim, snap, deploy, pod, widened, useful,
          backup, phase, applied, pass>>

Clusters == {"home", "away"}
Dest == IF remote THEN "away" ELSE "home"
Index == DOMAIN Claims
Names == {Claims[i] : i \in Index}
Data == Claims[1]

\* A snapshot goes by the name of its claim; the minute in its name is left
\* out, so the snapshots of one claim count as one.  Gone is one from before.
Snaps == Names
NoSnap == "none"
Gone == "gone"

\* What a claim holds: tenant data of a claim, what an application writes when
\* it starts on an empty volume, or nothing.
Contents == Names \cup {"blank", "nothing"}
Classes == {SourceClass, ""} \cup {StorageClassMap[c] : c \in DOMAIN StorageClassMap}
Claim == [on : {"none", "pending", "bound", "lost"}, class : Classes,
          ds : Snaps \cup {NoSnap, Gone}, holds : Contents, pinned : BOOLEAN]
Snap == [on : {"none", "taken", "ready"}, holds : Contents]

NoClaim == [on |-> "none", class |-> "", ds |-> NoSnap, holds |-> "nothing", pinned |-> FALSE]
NoSnapshot == [on |-> "none", holds |-> "nothing"]

\* The fields of a pod template that Sanitize and the healers look at.
Pins == {"nodeSelector", "nodeName", "nodeAffinity"}
Tolerations == {"known", "runtime", "own"}
NoGroup == 1
RuntimeClasses == {""} \cup {RuntimeClassMap[r] : r \in DOMAIN RuntimeClassMap}
                       \cup {t.runtime : t \in Templates}
Template == [pins : SUBSET Pins, spread : BOOLEAN, tolerations : SUBSET Tolerations,
             runtime : RuntimeClasses, fsGroup : {0, NoGroup, 999},
             engine : {"postgres", "redis"}]
\* The template of no pod.
NoPod == [pins |-> {}, spread |-> FALSE, tolerations |-> {}, runtime |-> "no pod",
          fsGroup |-> NoGroup, engine |-> "redis"]
NoDeploy == [on |-> FALSE, replicas |-> 0, tmpl |-> NoPod]
Deployment == [on : BOOLEAN, replicas : {0, 1}, tmpl : Template \cup {NoPod}]

\* A pass of the Restore: where it is, the claim it is at, what it has rendered,
\* the snapshot it has picked and whether all was rehydrated so far.
Pass == [at : {"idle", "export", "claims", "deploy", "ensure", "create", "dump",
               "remember", "heal", "advance"},
         i : Index, claims : [Names -> Claim], deploy : Deployment,
         pick : Snaps \cup {NoSnap}, rehydrated : BOOLEAN]
NoPass == [at |-> "idle", i |-> 1, claims |-> [n \in Names |-> NoClaim],
           deploy |-> NoDeploy, pick |-> NoSnap, rehydrated |-> TRUE]
NoBackup == [at |-> "idle", i |-> 1]

ASSUME VolumeAssumption ==
    /\ Pairs \subseteq BOOLEAN
    /\ Claims \in Seq(STRING) /\ Claims # <<>>
    /\ \A i, j \in Index : Claims[i] = Claims[j] => i = j
    /\ Names \cap {"blank", "nothing", NoSnap, Gone} = {}
    /\ Templates \subseteq Template
    /\ MaxEvents \in Nat

Init ==
    /\ left = MaxEvents
    /\ remote \in Pairs
    /\ \E t \in Templates, ds \in {NoSnap} \cup {x \in {Gone} : remote} :
        /\ engine = t.engine
        /\ deploy = [home |-> [on |-> TRUE, replicas |-> 1, tmpl |-> t], away |-> NoDeploy]
        /\ pod = [home |-> t, away |-> NoPod]
        /\ claim = [home |-> [n \in Names |->
                        [on |-> "bound", class |-> SourceClass, holds |-> n, pinned |-> TRUE,
                         ds |-> IF n = Data THEN ds ELSE NoSnap]],
                    away |-> [n \in Names |-> NoClaim]]
    /\ snap = [k \in Clusters |-> [x \in Snaps |-> NoSnapshot]]
    /\ widened = FALSE
    /\ useful = FALSE
    /\ backup = NoBackup
    /\ phase = "" /\ applied = FALSE /\ pass = NoPass

Event == left > 0 /\ left' = left - 1

-----------------------------------------------------------------------------
(* transform.Object and the healers *)

\* Mutant: an unmapped RuntimeClass is kept.
RemapRuntimeKeep(r) == IF r \in DOMAIN RuntimeClassMap THEN RuntimeClassMap[r] ELSE r

RemapRuntimeClass(r) == IF r \in DOMAIN RuntimeClassMap THEN RuntimeClassMap[r] ELSE ""

MapSC(c) == IF c \in DOMAIN StorageClassMap THEN StorageClassMap[c] ELSE c

\* Mutant: the image is not in the catalogue.
MatchNothing(t) == FALSE

\* classify.MatchImage, which Sanitize and the healers share.
MatchPostgres(t) == t.engine = "postgres"

\* fsGroup 0 on every engine, any fsGroup on Postgres.
StripPodFSGroup(t) == IF t.fsGroup = 0 \/ MatchPostgres(t) THEN NoGroup ELSE t.fsGroup

\* Mutant: tolerations are left to the scheduler.
KeepTolerations(ts) == ts

\* The three known keys, and by pattern every runtime taint.
StripTolerations(ts) == ts \ {"known", "runtime"}

RenderTemplate(t) ==
    [pins |-> {}, spread |-> FALSE, tolerations |-> StripTolerations(t.tolerations),
     runtime |-> RemapRuntimeClass(t.runtime), fsGroup |-> StripPodFSGroup(t),
     engine |-> t.engine]

\* A claim goes through Object, not through PVC: its dataSource stays.
RenderClaim(c) ==
    IF c.on = "none" THEN NoClaim
    ELSE [on |-> "pending", class |-> MapSC(c.class), ds |-> c.ds,
          holds |-> "nothing", pinned |-> FALSE]

HealFSGroup(t) == IF t.fsGroup = 0 \/ MatchPostgres(t) THEN NoGroup ELSE t.fsGroup

\* What heal.PodSpec reports; the spread constraints go without a word.
HealNames(t) ==
    {h \in {"strip-node-affinity"} : t.pins # {} \/ "known" \in t.tolerations}
        \cup {h \in {"strip-root-fsgroup"} : HealFSGroup(t) # t.fsGroup}

HealPodSpec(t) ==
    [pins |-> {}, spread |-> FALSE, tolerations |-> t.tolerations \ {"known"},
     runtime |-> t.runtime, fsGroup |-> HealFSGroup(t), engine |-> t.engine]

\* What heal.PVC reports of a claim that is neither Bound nor Pending.
HealPVC(c) ==
    {h \in {"strip-selected-node"} : c.pinned}
        \cup {h \in {"remap-storageclass"} : c.class # "" /\ MapSC(c.class) # c.class}

-----------------------------------------------------------------------------
(* Snapshots *)

Before(x, y) ==
    \E i, j \in Index : x = Claims[i] /\ y = Claims[j] /\ i <= j

ReadySnaps(k) == {x \in Snaps : snap[k][x].on = "ready"}

\* The first ready snapshot in list order, of whichever claim and age; none
\* when none is ready.
LatestReady(k) == {x \in ReadySnaps(k) : \A y \in ReadySnaps(k) : Before(x, y)}

\* Ready reads the Deployment: at least one ready replica.  A Postgres whose
\* key is group-readable does not start.
Ready(k) ==
    /\ deploy[k].on /\ deploy[k].replicas > 0 /\ pod[k] # NoPod
    /\ ~(k = "away" /\ widened /\ pod[k].engine = "postgres")

-----------------------------------------------------------------------------
(* The Backup Action *)

BackupFrame == UNCHANGED <<remote, engine, claim, deploy, pod, widened, phase, applied, pass>>

BackupBegins ==
    /\ backup.at = "idle" /\ phase = "" /\ pass.at = "idle"
    /\ backup' = [at |-> "snapshot", i |-> 1]
    /\ UNCHANGED <<left, snap, useful>> /\ BackupFrame

\* CreateForWorkload, claim by claim; a name that exists is left alone.
CreateSnapshot ==
    LET n == Claims[backup.i]
    IN /\ backup.at = "snapshot"
       /\ snap' = IF snap["home"][n].on # "none" THEN snap
                  ELSE [snap EXCEPT !["home"][n] = [on |-> "taken", holds |-> claim["home"][n].holds]]
       /\ backup' = IF backup.i = Len(Claims) THEN [backup EXCEPT !.at = "dump"]
                    ELSE [backup EXCEPT !.i = @ + 1]
       /\ UNCHANGED <<left, useful>> /\ BackupFrame

\* An error stops the loop and is dropped: the dump follows.
SnapshotFails ==
    /\ backup.at = "snapshot" /\ Event
    /\ backup' = [backup EXCEPT !.at = "dump"]
    /\ UNCHANGED <<snap, useful>> /\ BackupFrame

\* dump.Capture execs in a ready pod of the source; the dump of an empty
\* database is below the floor.
CaptureDump ==
    /\ backup.at = "dump"
    /\ useful' = (Ready("home") /\ claim["home"][Data].holds \in Names)
    /\ backup' = NoBackup
    /\ UNCHANGED <<left, snap>> /\ BackupFrame

BackupStep == BackupBegins \/ CreateSnapshot \/ SnapshotFails \/ CaptureDump

-----------------------------------------------------------------------------
(* The Restore Action *)

RestoreFrame == UNCHANGED <<remote, engine, snap, useful, backup, widened>>
Stay == UNCHANGED <<claim, deploy, pod>>
Status == UNCHANGED <<phase, applied>>

Applies == phase \in {"", "Rehydrating"}

\* A workload without a useful artifact is skipped.
Work == IF useful THEN "ensure" ELSE "advance"

RestoreBegins ==
    /\ pass.at = "idle" /\ backup.at = "idle"
    /\ phase \notin {"Succeeded", "Failed"}
    /\ pass' = [NoPass EXCEPT !.at = IF Applies THEN "export" ELSE Work]
    /\ UNCHANGED left /\ RestoreFrame /\ Stay /\ Status

\* export.Workload and Sanitize.Render.
Export ==
    /\ pass.at = "export"
    /\ pass' = [pass EXCEPT
                  !.at = "claims",
                  !.claims = [n \in Names |-> RenderClaim(claim["home"][n])],
                  !.deploy = IF deploy["home"].on
                             THEN [deploy["home"] EXCEPT !.tmpl = RenderTemplate(@)]
                             ELSE NoDeploy]
    /\ UNCHANGED left /\ RestoreFrame /\ Stay /\ Status

\* apply.Typed, claims first: one that exists is left alone.
ApplyClaim ==
    LET n == Claims[pass.i]
    IN /\ pass.at = "claims"
       /\ claim' = IF claim[Dest][n].on = "none"
                   THEN [claim EXCEPT ![Dest][n] = pass.claims[n]] ELSE claim
       /\ pass' = IF pass.i = Len(Claims)
                  THEN [pass EXCEPT !.at = "deploy", !.i = 1, !.claims = NoPass.claims]
                  ELSE [pass EXCEPT !.i = @ + 1]
       /\ UNCHANGED <<left, deploy, pod>> /\ RestoreFrame /\ Status

\* ... then the Deployment, created or replaced with what was rendered.
ApplyDeployment ==
    /\ pass.at = "deploy"
    /\ deploy' = IF pass.deploy.on THEN [deploy EXCEPT ![Dest] = pass.deploy] ELSE deploy
    /\ pass' = [pass EXCEPT !.at = Work, !.deploy = NoDeploy]
    /\ UNCHANGED <<left, claim, pod>> /\ RestoreFrame /\ Status

\* A refused manifest ends the pass: restoreRetryable sorts the messages.
ApplyRefused ==
    /\ pass.at \in {"claims", "deploy"} /\ Event
    /\ phase' \in {"Rehydrating", "Failed"}
    /\ pass' = NoPass
    /\ UNCHANGED applied /\ RestoreFrame /\ Stay

\* Mutant: one claim too many.
AfterOneMore(p) == IF p.i > Len(Claims) THEN [p EXCEPT !.at = "dump", !.i = 1]
                   ELSE [p EXCEPT !.at = "ensure", !.i = @ + 1]

AfterClaim(p) == IF p.i = Len(Claims) THEN [p EXCEPT !.at = "dump", !.i = 1]
                 ELSE [p EXCEPT !.at = "ensure", !.i = @ + 1]

\* EnsurePVCFromSnapshot of a claim that is there, or that no snapshot can
\* fill.  An error counts as rehydrated because the artifact is useful; so does
\* a lost claim whose repair the API refuses (the spec of a claim is immutable).
EnsureClaim ==
    LET c == claim[Dest][Claims[pass.i]]
        unready == c.on = "pending" \/ (c.on = "lost" /\ HealPVC(c) = {})
    IN /\ pass.at = "ensure"
       /\ c.on # "none" \/ LatestReady(Dest) = {}
       /\ pass' = AfterClaim([pass EXCEPT !.rehydrated = @ /\ ~unready])
       /\ UNCHANGED left /\ RestoreFrame /\ Stay /\ Status

\* ... and of one that is missing, up to the Create.
PickSnapshot ==
    /\ pass.at = "ensure" /\ claim[Dest][Claims[pass.i]].on = "none"
    /\ \E x \in LatestReady(Dest) : pass' = [pass EXCEPT !.at = "create", !.pick = x]
    /\ UNCHANGED left /\ RestoreFrame /\ Stay /\ Status

\* Mutant: transform.PVC has cleared the dataSource for good.
FromNothing(x) == [NoClaim EXCEPT !.on = "pending"]

\* transform.PVC clears the dataSource, and it is put back.
FromSnapshot(x) == [NoClaim EXCEPT !.on = "pending", !.ds = x]

CreateClaim ==
    LET n == Claims[pass.i]
    IN /\ pass.at = "create"
       /\ claim' = IF claim[Dest][n].on = "none"
                   THEN [claim EXCEPT ![Dest][n] = FromSnapshot(pass.pick)] ELSE claim
       /\ pass' = AfterClaim([pass EXCEPT !.rehydrated = FALSE, !.pick = NoSnap])
       /\ UNCHANGED <<left, deploy, pod>> /\ RestoreFrame /\ Status

DumpOwed == pass.at = "dump" /\ Applies /\ ~applied

SkipDump ==
    /\ pass.at = "dump" /\ ~DumpOwed
    /\ pass' = [pass EXCEPT !.at = "heal"]
    /\ UNCHANGED left /\ RestoreFrame /\ Stay /\ Status

\* Mutant: a dump without a pod to exec in is nothing to wait for.
Unheeded(p) == p

\* rehydrated = false
Held(p) == [p EXCEPT !.rehydrated = FALSE]

\* dump.Apply: Redis has no restore command and is done at once; psql stops
\* at the first relation that exists already.
Replays == engine = "redis" \/ claim[Dest][Data].holds = "blank"

DumpWaits ==
    /\ DumpOwed /\ ~(Ready(Dest) /\ Replays)
    /\ pass' = [Held(pass) EXCEPT !.at = "heal"]
    /\ UNCHANGED left /\ RestoreFrame /\ Stay /\ Status

ReplayDump ==
    /\ DumpOwed /\ Ready(Dest) /\ Replays
    /\ claim' = IF engine = "redis" THEN claim ELSE [claim EXCEPT ![Dest][Data].holds = Data]
    /\ pass' = [pass EXCEPT !.at = "remember"]
    /\ UNCHANGED <<left, deploy, pod>> /\ RestoreFrame /\ Status

RememberDump ==
    /\ pass.at = "remember"
    /\ applied' = TRUE
    /\ pass' = [pass EXCEPT !.at = "heal"]
    /\ UNCHANGED <<left, phase>> /\ RestoreFrame /\ Stay

\* healWorkloadOn: written only when something was stripped; a conflict is
\* dropped like every error of it.
Heal ==
    /\ pass.at = "heal"
    /\ deploy' = IF deploy[Dest].on /\ HealNames(deploy[Dest].tmpl) # {}
                 THEN [deploy EXCEPT ![Dest].tmpl = HealPodSpec(@)] ELSE deploy
    /\ pass' = [pass EXCEPT !.at = "advance"]
    /\ UNCHANGED <<left, claim, pod>> /\ RestoreFrame /\ Status

HealFails ==
    /\ pass.at = "heal" /\ Event
    /\ pass' = [pass EXCEPT !.at = "advance"]
    /\ RestoreFrame /\ Stay /\ Status

\* restore.Advance for the one workload, with Ready read last: preflight fails
\* when nothing is restorable, and past it CanSucceed refuses.
NextPhase ==
    CASE phase = "" -> IF useful THEN "Rehydrating" ELSE "Failed"
      [] phase = "Rehydrating" /\ ~pass.rehydrated -> "Rehydrating"
      [] phase # "" /\ (phase = "WaitingReady" \/ pass.rehydrated) ->
            IF useful /\ Ready(Dest) THEN "Succeeded" ELSE "WaitingReady"

Advance ==
    /\ pass.at = "advance"
    /\ phase' = NextPhase
    /\ pass' = NoPass
    /\ UNCHANGED <<left, applied>> /\ RestoreFrame /\ Stay

\* A crash, or an error on the way: the next pass starts over.
RestoreCut ==
    /\ pass.at # "idle" /\ Event
    /\ pass' = NoPass
    /\ RestoreFrame /\ Stay /\ Status

RestoreStep ==
    \/ Export \/ ApplyClaim \/ ApplyDeployment \/ EnsureClaim \/ PickSnapshot \/ CreateClaim
    \/ SkipDump \/ DumpWaits \/ ReplayDump \/ RememberDump \/ Heal \/ Advance

-----------------------------------------------------------------------------
(* The clusters *)

ClusterFrame == UNCHANGED <<remote, engine, useful, backup, phase, applied, pass>>

Served(k) == IF k = "home" THEN Classes ELSE AwayClasses \cup {""}

\* The home cluster has the nodes and RuntimeClasses the template asks for.
Schedulable(k, t) == k = "home" \/ (t.pins = {} /\ t.runtime \in AwayRuntimes \cup {""})

Wanted(k) == deploy[k].on /\ deploy[k].replicas > 0

SnapshotReady(k, x) ==
    /\ snap[k][x].on = "taken" /\ snap[k][x].holds # "nothing"
    /\ snap' = [snap EXCEPT ![k][x].on = "ready"]
    /\ UNCHANGED <<left, claim, deploy, pod, widened>> /\ ClusterFrame

\* A claim is bound for the pod that waits for it.
Bind(k, n) ==
    LET c == claim[k][n]
    IN /\ c.on = "pending" /\ c.class \in Served(k)
       /\ c.ds = NoSnap \/ c.ds \in ReadySnaps(k)
       /\ Wanted(k) /\ Schedulable(k, deploy[k].tmpl)
       /\ claim' = [claim EXCEPT ![k][n].on = "bound", ![k][n].pinned = TRUE,
                       ![k][n].holds = IF c.ds = NoSnap THEN "nothing" ELSE snap[k][c.ds].holds]
       /\ UNCHANGED <<left, snap, deploy, pod, widened>> /\ ClusterFrame

\* kubelet mounts the claims, with fsGroup when the template has one, and the
\* application writes its files where it finds none.
PodStarts(k) ==
    LET t == deploy[k].tmpl
    IN /\ pod[k] = NoPod /\ Wanted(k) /\ Schedulable(k, t)
       /\ \A n \in Names : claim[k][n].on = "bound"
       /\ pod' = [pod EXCEPT ![k] = t]
       /\ widened' = (widened \/ (k = "away" /\ t.engine = "postgres" /\ t.fsGroup # NoGroup
                                    /\ claim[k][Data].holds \in Names))
       /\ claim' = [claim EXCEPT ![k] = [n \in Names |->
                       IF @[n].holds = "nothing" THEN [@[n] EXCEPT !.holds = "blank"] ELSE @[n]]]
       /\ UNCHANGED <<left, snap, deploy>> /\ ClusterFrame

\* Scaled down, or replaced by a pod of the new template.
PodStops(k) ==
    /\ pod[k] # NoPod
    /\ ~Wanted(k) \/ deploy[k].tmpl # pod[k]
    /\ pod' = [pod EXCEPT ![k] = NoPod]
    /\ UNCHANGED <<left, claim, snap, deploy, widened>> /\ ClusterFrame

\* VolSync: Replicate makes the data claim of dest, and restic writes the
\* source's data into it while no pod has it.
ReplicaClaims ==
    /\ remote /\ claim["away"][Data].on = "none" /\ claim["home"][Data].on = "bound"
    /\ claim' = [claim EXCEPT !["away"][Data] =
                    [NoClaim EXCEPT !.on = "bound", !.class = MapSC(claim["home"][Data].class)]]
    /\ UNCHANGED <<left, snap, deploy, pod, widened>> /\ ClusterFrame

ReplicaFills ==
    /\ remote /\ claim["away"][Data].on = "bound" /\ pod["away"] = NoPod
    /\ claim["home"][Data].on = "bound"
    /\ claim["away"][Data].holds # Data
    /\ claim' = [claim EXCEPT !["away"][Data].holds = claim["home"][Data].holds]
    /\ UNCHANGED <<left, snap, deploy, pod, widened>> /\ ClusterFrame

-----------------------------------------------------------------------------
(* What befalls them *)

\* Claims of the source go, with their pods: deleted, or without a volume.  A
\* Restore in place starts after the loss.
LoseClaims ==
    /\ Event
    /\ remote \/ (phase = "" /\ pass.at = "idle")
    /\ \E S \in SUBSET Names \ {{}}, how \in {"none", "lost"} :
        claim' = [claim EXCEPT !["home"] = [n \in Names |->
                    CASE n \notin S -> @[n]
                      [] n \in S /\ how = "none" -> NoClaim
                      [] n \in S /\ how = "lost" -> [@[n] EXCEPT !.on = "lost", !.holds = "nothing"]]]
    /\ pod' = [pod EXCEPT !["home"] = NoPod]
    /\ UNCHANGED <<snap, deploy, widened>> /\ ClusterFrame

\* A Cutover freezes the source.
Freeze ==
    /\ Event /\ remote
    /\ deploy' = [deploy EXCEPT !["home"].replicas = 0]
    /\ UNCHANGED <<claim, snap, pod, widened>> /\ ClusterFrame

LoseSnapshot ==
    /\ Event
    /\ \E k \in Clusters, x \in Snaps :
        /\ snap[k][x].on # "none"
        /\ snap' = [snap EXCEPT ![k][x] = NoSnapshot]
    /\ UNCHANGED <<claim, deploy, pod, widened>> /\ ClusterFrame

\* The ready snapshots are carried to the other cluster.
ImportSnapshot ==
    /\ remote
    /\ ReadySnaps("home") # {} /\ ReadySnaps("away") = {}
    /\ snap' = [snap EXCEPT !["away"] = [x \in Snaps |->
                   IF x \in ReadySnaps("home") THEN snap["home"][x] ELSE NoSnapshot]]
    /\ UNCHANGED <<left, claim, deploy, pod, widened>> /\ ClusterFrame

Cluster(k) ==
    \/ PodStarts(k) \/ PodStops(k)
    \/ \E n \in Names : Bind(k, n)
    \/ \E x \in Snaps : SnapshotReady(k, x)

Next ==
    \/ BackupStep
    \/ RestoreBegins \/ RestoreStep \/ ApplyRefused \/ HealFails \/ RestoreCut
    \/ \E k \in Clusters : Cluster(k)
    \/ ReplicaClaims \/ ReplicaFills
    \/ LoseClaims \/ Freeze \/ LoseSnapshot \/ ImportSnapshot

Spec == Init /\ [][Next]_vars

\* The Action is requeued until it ends; the cluster's controllers run.
FairSpec ==
    /\ Spec
    /\ WF_vars(RestoreBegins) /\ WF_vars(RestoreStep)
    /\ \A k \in Clusters : WF_vars(Cluster(k))

-----------------------------------------------------------------------------
TypeOK ==
    /\ left \in 0 .. MaxEvents
    /\ remote \in BOOLEAN /\ engine \in {"postgres", "redis"}
    /\ claim \in [Clusters -> [Names -> Claim]]
    /\ snap \in [Clusters -> [Snaps -> Snap]]
    /\ deploy \in [Clusters -> Deployment]
    /\ pod \in [Clusters -> Template \cup {NoPod}]
    /\ widened \in BOOLEAN /\ useful \in BOOLEAN /\ applied \in BOOLEAN
    /\ phase \in {"", "Rehydrating", "WaitingReady", "Succeeded", "Failed"}
    /\ backup \in [at : {"idle", "snapshot", "dump"}, i : Index]
    /\ pass \in Pass

Succeeds == phase # "Succeeded" /\ phase' = "Succeeded"

\* A Restore in place that succeeds leaves its own data in every claim that was
\* not lost, and in every recreated one the data of a snapshot: export and
\* Apply leave a claim alone, and EnsurePVCFromSnapshot, the only one to make a
\* claim that export did not find, keeps its dataSource.  Whose data that is
\* stays open in a workload with several claims: LatestReady takes the first
\* ready snapshot of the list and does not read its portage.io/pvc label.
InPlaceRestored ==
    [][Succeeds /\ ~remote =>
          \A n \in Names :
              LET c == claim["home"][n]
              IN c.holds \in (IF c.ds = NoSnap THEN {n} ELSE Names)]_vars

\* A database with a dump that can be replayed holds its own data when its
\* Restore succeeds, whichever way its claim came to be: Ready and pg_isready
\* on an empty database are not enough (runRestore, the dump branch).
DatabaseRestored ==
    [][Succeeds /\ engine = "postgres" => claim[Dest][Data].holds = Data]_vars

\* A Restore that succeeds leaves the tenant's data in the data claim of dest.
DataRestored ==
    [][Succeeds => claim[Dest][Data].holds \in Names]_vars

\* The healers find nothing in a Deployment that apply wrote, so apply and
\* heal, which both run in every pass, never undo each other and never roll
\* the pods: stripAffinity, the toleration lists and the fsGroup rules of
\* pkg/transform cover those of pkg/heal.
HealAgrees == deploy["away"].on => HealNames(deploy["away"].tmpl) = {}

\* No pod of dest mounts a filled Postgres volume with an fsGroup: the strip
\* comes before the first pod, whoever fills the claim and when.
KeyStaysPrivate == ~widened

\* What a Restore needs: the source's Deployment scaled up or one on dest that
\* is, claims that exist with a dataSource that is there, or a snapshot for
\* those that do not, and an empty database to replay into.
Recoverable ==
    /\ phase # "" /\ useful
    /\ deploy["home"].on /\ deploy["home"].replicas > 0
    /\ \A n \in Names :
        LET c == claim[Dest][n]
        IN \/ c.on = "bound"
           \/ c.on = "pending" /\ (c.ds = NoSnap \/ c.ds \in ReadySnaps(Dest))
           \/ c.on = "none" /\ ReadySnaps(Dest) # {}
           \/ c.on = "none" /\ remote /\ claim["home"][n].on # "none" /\ claim["home"][n].ds = NoSnap
    /\ engine = "postgres" => applied \/ claim[Dest][Data].holds \notin Names

\* A Restore that has what it needs ends: what was stripped and remapped lets
\* the claims bind and the pods run on dest.
RestoreEnds == <>[]Recoverable => <>(phase \in {"Succeeded", "Failed"})
=============================================================================
