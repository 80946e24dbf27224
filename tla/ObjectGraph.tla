---------------------------- MODULE ObjectGraph ----------------------------
(***************************************************************************)
(* The copy of the Kubernetes object graph from the source cluster to the  *)
(* destination, pkg/clusterobjects driven by                               *)
(* internal/controller/cluster_objects.go.  A pass lists the source (a     *)
(* Replicate Action, over and over) or loads a stored snapshot (a Restore  *)
(* Action), writes every object to the destination in rank order, goes on  *)
(* past the error of one object, and probes the result.  Two passes may    *)
(* run at once: Replicate Actions have a controller of their own.          *)
(*                                                                         *)
(* The graph has one object of every kind the code treats differently: a   *)
(* Capsule Tenant with its owners, a namespace of that Tenant, a           *)
(* CustomResourceDefinition, a custom resource of it in the namespace, and *)
(* a TenantOwner whose name is the one Portage itself uses.  The Capsule   *)
(* controllers and the API server of the destination are external.         *)
(***************************************************************************)
EXTENDS Naturals, FiniteSets

CONSTANTS
    Caller,         \* the subject Portage is authenticated as on the destination
    SourceOwners,   \* spec.owners of the source Tenant
    Guests,         \* subjects the operator of the destination may grant
    Stranger,       \* the subject of the source's TenantOwner
    NoOne,          \* no TenantOwner under that name
    Changing,       \* kinds of source objects that are deleted and created again
    Attempts,       \* writes tried against a conflict (4 in the code)
    MaxEvents,      \* faults, restarts and changes by others in a behaviour
    MaxRestores     \* Restore Actions in a behaviour

ASSUME GraphAssumption ==
    /\ Attempts \in Nat \ {0}
    /\ MaxEvents \in Nat
    /\ MaxRestores \in Nat
    /\ Changing \subseteq {"tenant", "ns", "crd", "cr", "grant"}
    /\ Caller \notin SourceOwners
    /\ NoOne \notin {Caller, Stranger}

VARIABLES
    left,       \* events that may still happen
    restores,   \* Restore Actions that may still be created
    src,        \* the source objects
    snap,       \* the stored items that a Restore is to load
    want,       \* that Restore is not finished
    tenant,     \* the destination Tenant: on, spec.owners, status.owners
    ns,         \* the destination namespace and its Tenant ownerReference
    crd,        \* the destination CRD
    cr,         \* the custom resource is on the destination
    grants,     \* the TenantOwners of the destination, by name
    users,      \* CapsuleConfiguration.status.users of the destination
    pass,       \* the running passes
    attested    \* the last Replicate pass attested the graph

vars == <<left, restores, src, snap, want, tenant, ns, crd, cr, grants, users, pass, attested>>

Passes == {"replicate", "restore"}
Kinds == {"tenant", "ns", "crd", "cr", "grant"}
Subjects == SourceOwners \union Guests \union {Caller, Stranger}

\* An object as listed: Item.Deleting is the deletionTimestamp of the source.
ItemState == {"none", "live", "deleting"}
Items == [obj : [Kinds -> ItemState], owners : SUBSET Subjects, tenanted : BOOLEAN]

NoItems == [obj |-> [k \in Kinds |-> "none"], owners |-> {}, tenanted |-> FALSE]
NoTenant == [on |-> FALSE, owners |-> {}, admitted |-> {}]
NoNamespace == [on |-> "none", owned |-> FALSE]

\* Where a pass stands: the object it is about to write, and the second call
\* of a read-modify-write.
Place == {"idle", "tenantPut", "ns", "ownerPut", "user", "register", "admit",
          "create", "nsPut", "crd", "others", "attest"}

Pass == [at : Place, items : Items, owners : SUBSET Subjects, owned : BOOLEAN,
         fresh : BOOLEAN, tries : 0..Attempts, name : {"primary", "alt"}, err : BOOLEAN]

NoPass == [at |-> "idle", items |-> NoItems, owners |-> {}, owned |-> FALSE,
           fresh |-> FALSE, tries |-> 0, name |-> "primary", err |-> FALSE]

Init ==
    /\ left = MaxEvents
    /\ restores = MaxRestores
    /\ src \in [obj : {[k \in Kinds |-> "live"]}, owners : {SourceOwners}, tenanted : BOOLEAN]
    /\ snap = NoItems
    /\ want = FALSE
    /\ tenant = NoTenant
    /\ ns \in {NoNamespace} \union IF src.tenanted THEN {[on |-> "live", owned |-> FALSE]} ELSE {}
    /\ crd = "none"
    /\ cr = FALSE
    /\ grants = [n \in {"primary", "alt"} |-> NoOne]
    /\ users = {}
    /\ pass = [p \in Passes |-> NoPass]
    /\ attested = FALSE

Event == left > 0 /\ left' = left - 1

(***************************************************************************)
(* The steps of a pass.                                                    *)
(***************************************************************************)
At(p, place) == pass[p].at = place

\* A pass at the next object: what was read for the last one is forgotten.
Onward(place, items, err) == [NoPass EXCEPT !.at = place, !.items = items, !.err = err]

\* The passes after a write to an object: what another pass has read of it, at
\* the places `touched`, is stale.
Staled(touched) ==
    [q \in Passes |-> IF pass[q].at \in touched THEN [pass[q] EXCEPT !.fresh = FALSE] ELSE pass[q]]

\* The step of p leads to place.
GoTo(p, place, touched) ==
    pass' = [Staled(touched) EXCEPT ![p] = Onward(place, pass[p].items, pass[p].err)]

\* One object's error does not abort the pass; the first one is kept.
Fails(p, place) ==
    pass' = [pass EXCEPT ![p] = Onward(place, pass[p].items, TRUE)]

OfTenant == {"tenantPut", "ownerPut"}
OfNamespace == {"nsPut"}

Graph == <<tenant, ns, crd, cr, grants>>
Outside == <<left, restores, src, snap, users>>

\* Mutant: the timestamp is stripped before Deleting is read.
ListedLive == [src EXCEPT !.obj = [k \in Kinds |-> IF src.obj[k] = "none" THEN "none" ELSE "live"]]

\* listClusterObjects and Sanitize: Deleting survives, the timestamp does not.
Listed == src

\* Marshal, Unmarshal: the wire item has no Deleting and the sanitized object
\* has no timestamp, so an object stored while it was being deleted is live.
Loaded == [snap EXCEPT !.obj = [k \in Kinds |-> IF snap.obj[k] = "none" THEN "none" ELSE "live"]]

\* Mutant: the source list replaces the destination's.
KeepNoOwners(own) == own

\* KeepDestTenantOwners: what is written is a union, accumulated over retries.
KeepDestTenantOwners(own) == own \union tenant.owners

\* The Get before an Update of the Tenant.
ReadTenant(p, place, items, tries, own) ==
    pass' = [pass EXCEPT ![p] = [Onward(place, items, pass[p].err) EXCEPT
                                   !.fresh = TRUE, !.tries = tries, !.owners = own]]

\* The items of a pass: those of the source, or the stored ones.
ItemsFor(p) == IF p = "restore" THEN Loaded ELSE Listed

\* A pass begins: it lists or loads its items and writes the first of them,
\* the Tenant.
Begin(p) ==
    /\ At(p, "idle")
    /\ p = "restore" => want
    /\ LET it == ItemsFor(p) IN
       \/ /\ it.obj["tenant"] = "none"
          /\ pass' = [pass EXCEPT ![p] = Onward("ns", it, FALSE)]
          /\ UNCHANGED tenant
       \/ /\ it.obj["tenant"] = "deleting"
          /\ tenant' = NoTenant
          /\ pass' = [Staled(IF tenant.on THEN OfTenant ELSE {}) EXCEPT ![p] = Onward("ns", it, FALSE)]
       \/ /\ it.obj["tenant"] = "live" /\ ~tenant.on
          /\ tenant' = [on |-> TRUE, owners |-> it.owners, admitted |-> {}]
          /\ pass' = [Staled(OfTenant) EXCEPT ![p] = Onward("ns", it, FALSE)]
       \/ /\ it.obj["tenant"] = "live" /\ tenant.on
          /\ ReadTenant(p, "tenantPut", it, 1, KeepDestTenantOwners(it.owners))
          /\ UNCHANGED tenant
    /\ UNCHANGED <<ns, crd, cr, grants, Outside, want, attested>>

\* Mutant: one attempt too many.
TenantPutLate(p) ==
    /\ At(p, "tenantPut")
    /\ \/ /\ ~tenant.on
          /\ GoTo(p, "ns", {})
          /\ UNCHANGED tenant
       \/ /\ tenant.on /\ pass[p].fresh
          /\ tenant' = [tenant EXCEPT !.owners = pass[p].owners]
          /\ GoTo(p, "ns", IF tenant' = tenant THEN {} ELSE OfTenant)
       \/ /\ tenant.on /\ ~pass[p].fresh
          /\ IF pass[p].tries <= Attempts
             THEN ReadTenant(p, "tenantPut", pass[p].items, pass[p].tries + 1,
                             KeepDestTenantOwners(pass[p].owners))
             ELSE Fails(p, "ns")
          /\ UNCHANGED tenant
    /\ UNCHANGED <<ns, crd, cr, grants, Outside, want, attested>>

\* The Update of updateWithRetry on a Tenant.  A write that changes nothing
\* leaves the resourceVersion alone; NotFound ends the loop without an error;
\* a conflict reads again, at most Attempts times.
TenantPut(p) ==
    /\ At(p, "tenantPut")
    /\ \/ /\ ~tenant.on
          /\ GoTo(p, "ns", {})
          /\ UNCHANGED tenant
       \/ /\ tenant.on /\ pass[p].fresh
          /\ tenant' = [tenant EXCEPT !.owners = pass[p].owners]
          /\ GoTo(p, "ns", IF tenant' = tenant THEN {} ELSE OfTenant)
       \/ /\ tenant.on /\ ~pass[p].fresh
          /\ IF pass[p].tries < Attempts
             THEN ReadTenant(p, "tenantPut", pass[p].items, pass[p].tries + 1,
                             KeepDestTenantOwners(pass[p].owners))
             ELSE Fails(p, "ns")
          /\ UNCHANGED tenant
    /\ UNCHANGED <<ns, crd, cr, grants, Outside, want, attested>>

\* ensureTenantSpecOwnerOnce up to its Update.
EnsureTenantSpecOwner(p, tries) ==
    IF Caller \in tenant.owners THEN GoTo(p, "user", {})
    ELSE ReadTenant(p, "ownerPut", pass[p].items, tries, tenant.owners \union {Caller})

\* syncOne and the head of syncNamespace: the Tenant has to be there first.
SyncNamespace(p) ==
    /\ At(p, "ns")
    /\ LET it == pass[p].items IN
       \/ /\ it.obj["ns"] = "none"
          /\ GoTo(p, "crd", {})
          /\ UNCHANGED ns
       \/ /\ it.obj["ns"] = "deleting"
          /\ ns' = IF ns.on = "live" THEN [ns EXCEPT !.on = "ending"] ELSE ns
          /\ GoTo(p, "crd", IF ns' = ns THEN {} ELSE OfNamespace)
       \/ /\ it.obj["ns"] = "live" /\ ~it.tenanted
          /\ GoTo(p, "create", {})
          /\ UNCHANGED ns
       \/ /\ it.obj["ns"] = "live" /\ it.tenanted
          /\ IF tenant.on THEN EnsureTenantSpecOwner(p, 1) ELSE Fails(p, "crd")
          /\ UNCHANGED ns
    /\ UNCHANGED <<tenant, crd, cr, grants, Outside, want, attested>>

\* The Update of ensureTenantSpecOwnerOnce; here NotFound is an error.
OwnerPut(p) ==
    /\ At(p, "ownerPut")
    /\ \/ /\ ~tenant.on
          /\ Fails(p, "crd")
          /\ UNCHANGED tenant
       \/ /\ tenant.on /\ pass[p].fresh
          /\ tenant' = [tenant EXCEPT !.owners = pass[p].owners]
          /\ GoTo(p, "user", OfTenant)
       \/ /\ tenant.on /\ ~pass[p].fresh
          /\ IF pass[p].tries < Attempts
             THEN EnsureTenantSpecOwner(p, pass[p].tries + 1) ELSE Fails(p, "crd")
          /\ UNCHANGED tenant
    /\ UNCHANGED <<ns, crd, cr, grants, Outside, want, attested>>

\* Mutant: a TenantOwner under the stable name counts as registered, whoever
\* its subject is.
PickStableName(p) ==
    /\ At(p, "user")
    /\ LET name == IF grants["primary"] = NoOne THEN "primary" ELSE "alt"
           done == name = "alt"
       IN  IF Caller \in users \/ done
           THEN GoTo(p, "admit", {})
           ELSE pass' = [pass EXCEPT ![p].at = "register", ![p].name = name]
    /\ UNCHANGED <<Graph, Outside, want, attested>>

\* capsuleUserListed and pickTenantOwnerName.  The alternate name carries a
\* digest of the caller, so nobody else's TenantOwner has it.
PickTenantOwner(p) ==
    /\ At(p, "user")
    /\ LET name == IF grants["primary"] = NoOne THEN "primary" ELSE "alt"
           done == grants["primary"] = Caller \/ (name = "alt" /\ grants["alt"] = Caller)
       IN  IF Caller \in users \/ done
           THEN GoTo(p, "admit", {})
           ELSE pass' = [pass EXCEPT ![p].at = "register", ![p].name = name]
    /\ UNCHANGED <<Graph, Outside, want, attested>>

\* The Create of ensureTenantOwner; AlreadyExists counts as done.
CreateTenantOwner(p) ==
    /\ At(p, "register")
    /\ grants' = [grants EXCEPT ![pass[p].name] = IF @ = NoOne THEN Caller ELSE @]
    /\ GoTo(p, "admit", {})
    /\ UNCHANGED <<tenant, ns, crd, cr, Outside, want, attested>>

\* What the admission of Capsule makes of a create (external): the
\* ownerReference is stamped for a Capsule user who owns the Tenant, and a
\* tenant label without it is denied.
CapsuleAdmits == tenant.on /\ Caller \in users /\ Caller \in tenant.admitted

\* Mutant: the sanitized object is written as it is, without ownerReferences.
KeepNoReference(p, tries) ==
    pass' = [pass EXCEPT ![p] = [@ EXCEPT !.at = "nsPut", !.fresh = TRUE, !.tries = tries,
                                          !.owned = FALSE]]

\* The Get before an Update of the namespace: KeepDestCapsuleOwners writes
\* back the ownerReference that was read.
KeepDestCapsuleOwners(p, tries) ==
    pass' = [pass EXCEPT ![p] = [@ EXCEPT !.at = "nsPut", !.fresh = TRUE, !.tries = tries,
                                          !.owned = ns.owned]]

\* The rest of syncNamespace.  A registered caller waits at "admit" for
\* status.owners, which lags spec.owners; an unknown caller is at "create".
CreateNamespace(p) ==
    /\ pass[p].at \in {"admit", "create"}
    /\ LET tenanted == pass[p].items.tenanted
           refused == \/ At(p, "admit") /\ ~(tenant.on /\ Caller \in tenant.admitted)
                      \/ tenanted /\ (IF ns.on = "none" THEN ~CapsuleAdmits ELSE ~ns.owned)
       IN  \/ /\ refused
              /\ Fails(p, "crd")
              /\ UNCHANGED ns
           \/ /\ ~refused /\ ns.on = "none"
              /\ ns' = [on |-> "live", owned |-> tenanted]
              /\ GoTo(p, "crd", OfNamespace)
           \/ /\ ~refused /\ ns.on # "none"
              /\ KeepDestCapsuleOwners(p, 1)
              /\ UNCHANGED ns
    /\ UNCHANGED <<tenant, crd, cr, grants, Outside, want, attested>>

\* The Update of updateWithRetry on a namespace.
NamespacePut(p) ==
    /\ At(p, "nsPut")
    /\ \/ /\ ns.on = "none"
          /\ GoTo(p, "crd", {})
          /\ UNCHANGED ns
       \/ /\ ns.on # "none" /\ pass[p].fresh
          /\ ns' = [ns EXCEPT !.owned = pass[p].owned]
          /\ GoTo(p, "crd", {})
       \/ /\ ns.on # "none" /\ ~pass[p].fresh
          /\ IF pass[p].tries < Attempts
             THEN KeepDestCapsuleOwners(p, pass[p].tries + 1) ELSE Fails(p, "crd")
          /\ UNCHANGED ns
    /\ UNCHANGED <<tenant, crd, cr, grants, Outside, want, attested>>

\* Deleting a definition deletes its resources.
SyncCRD(p) ==
    /\ At(p, "crd")
    /\ LET st == pass[p].items.obj["crd"] IN
       /\ crd' = IF st = "deleting" THEN "none"
                 ELSE IF st = "live" /\ crd = "none" THEN "new" ELSE crd
       /\ cr' = (cr /\ st # "deleting")
    /\ GoTo(p, "others", {})
    /\ UNCHANGED <<tenant, ns, grants, Outside, want, attested>>

\* The objects of no rank.  An API that is not served yet answers NotFound, a
\* namespace that is going away Forbidden: both are skipped without an error,
\* only Attest sees them.  The source's own TenantOwner is copied like any
\* object, over the one Portage registered under the same name.
SyncOthers(p) ==
    /\ At(p, "others")
    /\ LET obj == pass[p].items.obj
           served == crd = "established" /\ ns.on # "none"
       IN  /\ cr' = IF obj["cr"] = "deleting" /\ served THEN FALSE
                    ELSE cr \/ (obj["cr"] = "live" /\ served /\ ns.on = "live")
           /\ grants' = [grants EXCEPT !["primary"] = CASE obj["grant"] = "live" -> Stranger
                                                        [] obj["grant"] = "deleting" -> NoOne
                                                        [] obj["grant"] = "none" -> @]
    /\ GoTo(p, "attest", {})
    /\ UNCHANGED <<tenant, ns, crd, Outside, want, attested>>

\* What a Get of the destination finds for an object of kind k.
Present(k) ==
    CASE k = "tenant" -> tenant.on
      [] k = "ns" -> ns.on # "none"
      [] k = "crd" -> crd = "established"
      [] k = "cr" -> cr
      [] k = "grant" -> grants["primary"] # NoOne

\* Mutant: the error of Sync is dropped.
AttestAnyway(p) == \A k \in Kinds : pass[p].items.obj[k] = "live" => Present(k)

\* Attest after Sync, unless Sync returned an error.
Attest(p) == ~pass[p].err /\ \A k \in Kinds : pass[p].items.obj[k] = "live" => Present(k)

Finish(p) ==
    /\ At(p, "attest")
    /\ attested' = IF p = "replicate" THEN Attest(p) ELSE attested
    /\ want' = (want /\ ~(p = "restore" /\ Attest(p)))
    /\ snap' = IF want' THEN snap ELSE NoItems
    /\ pass' = [pass EXCEPT ![p] = NoPass]
    /\ UNCHANGED <<Graph, left, restores, src, users>>

\* The object a pass goes on with after the one at `place`.
NextObject(place) ==
    CASE place = "tenantPut" -> "ns"
      [] place \in {"ns", "ownerPut", "user", "register", "admit", "create", "nsPut"} -> "crd"
      [] place = "crd" -> "others"
      [] place \in {"others", "attest"} -> "attest"

\* skipListErr: a Forbidden ends the sync of an object without an error, but
\* for a namespace that is to be written.
Skippable(p) ==
    \/ pass[p].at \in {"tenantPut", "crd", "others"}
    \/ At(p, "ns") /\ pass[p].items.obj["ns"] = "deleting"

\* A call fails: the object is given up with an error, or skipped without one.
\* SelfSubjectReview failing only skips the registration.
CallFails(p) ==
    /\ Event
    /\ ~At(p, "idle")
    /\ \/ Fails(p, NextObject(pass[p].at))
       \/ Skippable(p) /\ GoTo(p, NextObject(pass[p].at), {})
       \/ At(p, "ns") /\ pass[p].items.obj["ns"] = "live" /\ GoTo(p, "create", {})
    /\ UNCHANGED <<Graph, restores, src, snap, users, want, attested>>

\* The first call of a pass, for the Tenant, fails in either way.
TenantCallFails(p) ==
    /\ Event
    /\ At(p, "idle")
    /\ p = "restore" => want
    /\ ItemsFor(p).obj["tenant"] # "none"
    /\ \E err \in BOOLEAN : pass' = [pass EXCEPT ![p] = Onward("ns", ItemsFor(p), err)]
    /\ UNCHANGED <<Graph, restores, src, snap, users, want, attested>>

\* The controller restarts: a pass is lost, a Restore starts over.
Restart(p) ==
    /\ Event
    /\ ~At(p, "idle")
    /\ pass' = [pass EXCEPT ![p] = NoPass]
    /\ UNCHANGED <<Graph, restores, src, snap, users, want, attested>>

PassStep(p) ==
    \/ Begin(p) \/ TenantPut(p)
    \/ SyncNamespace(p) \/ OwnerPut(p)
    \/ PickTenantOwner(p) \/ CreateTenantOwner(p)
    \/ CreateNamespace(p) \/ NamespacePut(p)
    \/ SyncCRD(p) \/ SyncOthers(p)
    \/ Finish(p)

(***************************************************************************)
(* The destination: Capsule and the API server.                            *)
(***************************************************************************)
\* The Tenant controller copies spec.owners to status.owners.
TenantReconciled ==
    /\ tenant.on /\ tenant.admitted # tenant.owners
    /\ tenant' = [tenant EXCEPT !.admitted = tenant.owners]
    /\ pass' = Staled(OfTenant)
    /\ UNCHANGED <<ns, crd, cr, grants, Outside, want, attested>>

\* status.users aggregates the subjects of the TenantOwners.
UsersReconciled ==
    /\ users # {grants[n] : n \in DOMAIN grants} \ {NoOne}
    /\ users' = {grants[n] : n \in DOMAIN grants} \ {NoOne}
    /\ UNCHANGED <<Graph, left, restores, src, snap, pass, want, attested>>

\* A namespace is collected with the Tenant that owns it.
NamespaceCollected ==
    /\ ns.on = "live" /\ ns.owned /\ ~tenant.on
    /\ ns' = [ns EXCEPT !.on = "ending"]
    /\ pass' = Staled(OfNamespace)
    /\ UNCHANGED <<tenant, crd, cr, grants, Outside, want, attested>>

NamespaceEnds ==
    /\ ns.on = "ending"
    /\ ns' = NoNamespace
    /\ cr' = FALSE
    /\ pass' = Staled(OfNamespace)
    /\ UNCHANGED <<tenant, crd, grants, Outside, want, attested>>

DefinitionServed ==
    /\ crd = "new"
    /\ crd' = "established"
    /\ UNCHANGED <<tenant, ns, cr, grants, Outside, pass, want, attested>>

Destination ==
    \/ TenantReconciled \/ UsersReconciled
    \/ NamespaceCollected \/ NamespaceEnds
    \/ DefinitionServed

(***************************************************************************)
(* The operators of both clusters, and backups.                            *)
(***************************************************************************)
\* An object of the source is deleted (a finalizer holds it), goes, comes back.
SourceChanges ==
    /\ Event
    /\ \E k \in Changing, st \in ItemState :
         /\ st # src.obj[k]
         /\ st = "deleting" => src.obj[k] = "live"
         /\ st = "live" => src.obj[k] = "none"
         /\ src' = [src EXCEPT !.obj[k] = st]
    /\ UNCHANGED <<Graph, restores, snap, users, pass, want, attested>>

\* spec.owners of the destination Tenant is edited.
OperatorEdits ==
    /\ Event
    /\ tenant.on
    /\ \E o \in Guests \union {Caller} :
         tenant' = [tenant EXCEPT !.owners = IF o \in @ THEN @ \ {o} ELSE @ \union {o}]
    /\ pass' = Staled(OfTenant)
    /\ UNCHANGED <<ns, crd, cr, grants, restores, src, snap, users, want, attested>>

OperatorDeletesNamespace ==
    /\ Event
    /\ ns.on = "live"
    /\ ns' = [ns EXCEPT !.on = "ending"]
    /\ pass' = Staled(OfNamespace)
    /\ UNCHANGED <<tenant, crd, cr, grants, restores, src, snap, users, want, attested>>

\* captureClusterObjects, then a Restore Action of what was stored.
CaptureAndRestore ==
    /\ restores > 0
    /\ ~want /\ At("restore", "idle")
    /\ restores' = restores - 1
    /\ snap' = Listed
    /\ want' = TRUE
    /\ UNCHANGED <<Graph, left, src, users, pass, attested>>

Operators == SourceChanges \/ OperatorEdits \/ OperatorDeletesNamespace \/ CaptureAndRestore

Next ==
    \/ \E p \in Passes : PassStep(p) \/ CallFails(p) \/ TenantCallFails(p) \/ Restart(p)
    \/ Destination
    \/ Operators

Spec == Init /\ [][Next]_vars

FairSpec ==
    /\ Spec
    /\ \A p \in Passes : WF_vars(PassStep(p))
    /\ WF_vars(TenantReconciled) /\ WF_vars(UsersReconciled)
    /\ WF_vars(NamespaceCollected) /\ WF_vars(NamespaceEnds)
    /\ WF_vars(DefinitionServed)

(***************************************************************************)
(* Properties.                                                             *)
(***************************************************************************)

\* Every variable has its type.
TypeOK ==
    /\ left \in 0..MaxEvents /\ restores \in 0..MaxRestores
    /\ src \in Items /\ snap \in Items
    /\ want \in BOOLEAN /\ attested \in BOOLEAN /\ cr \in BOOLEAN
    /\ tenant \in [on : BOOLEAN, owners : SUBSET Subjects, admitted : SUBSET Subjects]
    /\ ns \in [on : {"none", "live", "ending"}, owned : BOOLEAN]
    /\ crd \in {"none", "new", "established"}
    /\ grants \in [{"primary", "alt"} -> Subjects \union {NoOne}]
    /\ users \subseteq Subjects
    /\ pass \in [Passes -> Pass]

\* An owner of the destination Tenant is dropped only by its operator: neither
\* the mirror of the source Tenant (updateWithRetry, KeepDestTenantOwners) nor
\* the registration of the caller (ensureTenantSpecOwner) overwrites a grant,
\* whichever passes, edits and status writes they are interleaved with.
GrantsKept ==
    [][tenant.on /\ tenant'.on /\ left' = left => tenant.owners \subseteq tenant'.owners]_vars

\* A namespace loses its Tenant ownerReference only with its life: the updates
\* of syncNamespace write back what KeepDestCapsuleOwners read.
OwnedStays ==
    [][ns.owned /\ ~ns'.owned => ns'.on = "none"]_vars

\* A Replicate pass attests a graph with a namespace of a Tenant only if that
\* namespace has an ownerReference of kind Tenant: the error of a namespace
\* Capsule will not adopt survives the rest of the pass (syncNamespace, Sync).
\* HasCapsuleOwner reads neither the name nor the UID of the reference, so this
\* is ownership by a Tenant, the one Capsule stamped.
AttestedMeansOwned ==
    [][~attested /\ attested' =>
         LET it == pass["replicate"].items
         IN  it.obj["ns"] = "live" /\ it.tenanted => ns.owned]_vars

\* The source graph is in place, and no TenantOwner of it is being deleted.
Mirrored ==
    /\ \A k \in Kinds \ {"grant"} : src.obj[k] = "live"
    /\ src.obj["grant"] # "deleting"

\* With the source graph in place and no namespace in the way that Capsule
\* cannot adopt, Replicate gets the graph attested and keeps it so, whatever
\* failed, was edited or was restored before: the caller ends up in
\* status.owners and in status.users even when the source's own TenantOwner
\* takes the name Portage registered under (ensureCapsuleCaller, Attest).
GraphLands ==
    (<>[]Mirrored /\ <>[](ns.on = "none" \/ ns.owned \/ ~src.tenanted)) => <>[]attested

\* An object the source keeps deleting is removed from the destination for
\* good, once no Restore of an older snapshot is pending (syncOne).
DeletionFollows ==
    /\ (<>[](src.obj["tenant"] = "deleting") /\ <>[]~want) => <>[]~tenant.on
    /\ (<>[](src.obj["ns"] = "deleting") /\ <>[]~want) => <>[](ns.on = "none")
    /\ (<>[](src.obj["crd"] = "deleting") /\ <>[]~want) => <>[](crd = "none" /\ ~cr)
=============================================================================
