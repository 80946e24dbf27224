------------------------- MODULE ObjectGraphProofs -------------------------
(***************************************************************************)
(* Proofs about ObjectGraph: what a pass has read and not yet written back *)
(* is still true of the destination unless the API server is going to      *)
(* refuse the write, and a pass that has come past the namespace without   *)
(* an error leaves it with its Tenant.                                     *)
(***************************************************************************)
EXTENDS ObjectGraph, TLAPS

\* A namespace that is not there has no ownerReference.
NsSound == ns.on = "none" => ~ns.owned

\* A pass about to write the Tenant has every owner in what it will write, or
\* its resourceVersion is stale.
KeepsOwners(p) ==
    pass[p].at \in OfTenant /\ pass[p].fresh /\ tenant.on => tenant.owners \subseteq pass[p].owners

\* The same for the ownerReference of the namespace.
KeepsReference(p) ==
    pass[p].at \in OfNamespace /\ pass[p].fresh /\ ns.on # "none" => pass[p].owned = ns.owned

\* All passes agree on whether the namespace is one of a Tenant.
Agrees(p) == pass[p].at # "idle" => pass[p].items.tenanted = src.tenanted

SnapAgrees == want => snap.tenanted = src.tenanted

\* Past the namespace without an error, the namespace belongs to the Tenant.
Past == {"nsPut", "crd", "others", "attest"}

Adopts(p) ==
    /\ pass[p].at \in Past /\ ~pass[p].err
    /\ pass[p].items.obj["ns"] = "live" /\ pass[p].items.tenanted
    /\ ns.on # "none"
    => ns.owned

Sound(p) == KeepsOwners(p) /\ KeepsReference(p) /\ Agrees(p) /\ Adopts(p)

GraphInv == TypeOK /\ NsSound /\ SnapAgrees /\ \A p \in Passes : Sound(p)

-----------------------------------------------------------------------------
(* What a step does to the passes *)

\* A pass that does not take the step, after a write at the places `touched`.
Stays(q, touched) ==
    /\ pass'[q].at = pass[q].at /\ pass'[q].items = pass[q].items /\ pass'[q].err = pass[q].err
    /\ pass'[q].owners = pass[q].owners /\ pass'[q].owned = pass[q].owned
    /\ pass'[q].fresh => pass[q].fresh /\ pass[q].at \notin touched

\* Staled leaves every pass in its type and keeps all but `fresh`.
LEMMA StaledTyped ==
    ASSUME TypeOK, NEW touched
    PROVE  Staled(touched) \in [Passes -> Pass]
<1>1. ASSUME NEW q \in Passes PROVE [pass[q] EXCEPT !.fresh = FALSE] \in Pass
  <2>1. pass[q] \in Pass
    BY DEF TypeOK
  <2> QED
    BY <2>1 DEF Pass
<1>2. \A q \in Passes : pass[q] \in Pass
  BY DEF TypeOK
<1> QED
  BY <1>1, <1>2 DEF Staled

\* A step that stales what others have read and gives p a new record.
LEMMA StaledStep ==
    ASSUME TypeOK, NEW touched, NEW p \in Passes, NEW r \in Pass,
           pass' = [Staled(touched) EXCEPT ![p] = r]
    PROVE  /\ pass' \in [Passes -> Pass]
           /\ pass'[p] = r
           /\ \A q \in Passes : q # p => Stays(q, touched)
<1>1. pass' \in [Passes -> Pass] /\ pass'[p] = r
  BY StaledTyped
<1>2. ASSUME NEW q \in Passes, q # p PROVE Stays(q, touched)
  <2>1. pass'[q] = IF pass[q].at \in touched THEN [pass[q] EXCEPT !.fresh = FALSE] ELSE pass[q]
    BY <1>2, StaledTyped DEF Staled
  <2>2. pass[q] \in Pass
    BY DEF TypeOK
  <2> QED
    BY <2>1, <2>2 DEF Stays, Pass
<1> QED
  BY <1>1, <1>2

\* A step that only gives p a new record.
LEMMA PlainStep ==
    ASSUME TypeOK, NEW p \in Passes, NEW r \in Pass, pass' = [pass EXCEPT ![p] = r]
    PROVE  /\ pass' \in [Passes -> Pass]
           /\ pass'[p] = r
           /\ \A q \in Passes : q # p => Stays(q, {})
<1>1. pass' \in [Passes -> Pass] /\ pass'[p] = r
  BY DEF TypeOK
<1>2. ASSUME NEW q \in Passes, q # p PROVE Stays(q, {})
  BY <1>2 DEF TypeOK, Stays
<1> QED
  BY <1>1, <1>2

\* A step of no pass.
LEMMA OutsideStep ==
    ASSUME TypeOK, NEW touched, pass' = Staled(touched)
    PROVE  /\ pass' \in [Passes -> Pass]
           /\ \A q \in Passes : Stays(q, touched)
<1>1. pass' \in [Passes -> Pass]
  BY StaledTyped
<1>2. ASSUME NEW q \in Passes PROVE Stays(q, touched)
  <2>1. pass'[q] = IF pass[q].at \in touched THEN [pass[q] EXCEPT !.fresh = FALSE] ELSE pass[q]
    BY DEF Staled
  <2>2. pass[q] \in Pass
    BY DEF TypeOK
  <2> QED
    BY <2>1, <2>2 DEF Stays, Pass
<1> QED
  BY <1>1, <1>2

\* No pass is a pass.
LEMMA NoPassTyped == NoPass \in Pass
BY GraphAssumption DEF NoPass, NoItems, Pass, Place, Items, ItemState

\* A pass at the next object has nothing left of what it read.
LEMMA OnwardIs ==
    ASSUME NEW place \in Place, NEW items \in Items, NEW err \in BOOLEAN
    PROVE  /\ Onward(place, items, err) \in Pass
           /\ Onward(place, items, err).at = place
           /\ Onward(place, items, err).items = items
           /\ Onward(place, items, err).err = err
           /\ ~Onward(place, items, err).fresh
BY NoPassTyped DEF Onward, NoPass, Pass

-----------------------------------------------------------------------------
(* What a step does to the pass that does not take it *)

\* What a step may do to the namespace: remove it, keep its reference, or
\* create it the way its items say.
NsStep ==
    \/ ns'.on = "none"
    \/ ns.on # "none" /\ ns'.owned = ns.owned
    \/ ns.on = "none" /\ ns'.owned = src.tenanted

\* A write to the Tenant or the namespace is seen by the passes that have read it.
LEMMA OthersSound ==
    ASSUME NEW q \in Passes, NEW touched, Sound(q), Stays(q, touched),
           tenant' = tenant \/ ~tenant'.on \/ OfTenant \subseteq touched,
           ns' = ns \/ ns'.on = "none" \/ OfNamespace \subseteq touched,
           NsStep, src'.tenanted = src.tenanted
    PROVE  Sound(q)'
<1>1. KeepsOwners(q)'
  BY DEF Sound, KeepsOwners, Stays
<1>2. KeepsReference(q)'
  BY DEF Sound, KeepsReference, Stays
<1>3. Agrees(q)'
  BY DEF Sound, Agrees, Stays
<1>4. Adopts(q)'
  <2> SUFFICES ASSUME pass[q].at \in Past, ~pass[q].err, pass[q].items.obj["ns"] = "live",
                      pass[q].items.tenanted, ns'.on # "none"
               PROVE  ns'.owned
    BY DEF Adopts, Stays
  <2>1. src.tenanted
    BY DEF Sound, Agrees, Past
  <2> QED
    BY <2>1 DEF NsStep, Sound, Adopts
<1> QED
  BY <1>1, <1>2, <1>3, <1>4 DEF Sound

\* A pass that has just come to an object: only its items and error count.
LEMMA OnwardSound ==
    ASSUME NEW p \in Passes, ~pass'[p].fresh, Agrees(p)', Adopts(p)'
    PROVE  Sound(p)'
BY DEF Sound, KeepsOwners, KeepsReference

-----------------------------------------------------------------------------
(* The ways a pass goes on *)

\* p has come to `place` with nothing read.
Arrives(p, place, items, err, touched) ==
    /\ pass'[p].at = place /\ pass'[p].items = items /\ pass'[p].err = err /\ ~pass'[p].fresh
    /\ \A q \in Passes : q # p => Stays(q, touched)

\* GoTo keeps the error, Fails sets it.
LEMMA GoToStep ==
    ASSUME TypeOK, NEW p \in Passes, NEW place \in Place, NEW touched, GoTo(p, place, touched)
    PROVE  /\ pass' \in [Passes -> Pass]
           /\ Arrives(p, place, pass[p].items, pass[p].err, touched)
<1> DEFINE r == Onward(place, pass[p].items, pass[p].err)
<1>1. pass[p].items \in Items /\ pass[p].err \in BOOLEAN
  BY DEF TypeOK, Pass
<1>2. r \in Pass
  BY <1>1, OnwardIs
<1>3. pass' = [Staled(touched) EXCEPT ![p] = r]
  BY DEF GoTo
<1> HIDE DEF r
<1>4. pass' \in [Passes -> Pass] /\ pass'[p] = r /\ \A q \in Passes : q # p => Stays(q, touched)
  BY <1>2, <1>3, StaledStep
<1> QED
  BY <1>1, <1>4, OnwardIs DEF Arrives, r

\* Fails leads to `place` with the error set.
LEMMA FailsStep ==
    ASSUME TypeOK, NEW p \in Passes, NEW place \in Place, Fails(p, place)
    PROVE  /\ pass' \in [Passes -> Pass]
           /\ Arrives(p, place, pass[p].items, TRUE, {})
<1> DEFINE r == Onward(place, pass[p].items, TRUE)
<1>1. pass[p].items \in Items
  BY DEF TypeOK, Pass
<1>2. /\ r \in Pass /\ r.at = place /\ r.items = pass[p].items
      /\ r.err = TRUE /\ ~r.fresh
  BY <1>1, OnwardIs
<1>3. pass' = [pass EXCEPT ![p] = r]
  BY DEF Fails
<1> HIDE DEF r
<1>4. pass' \in [Passes -> Pass] /\ pass'[p] = r /\ \A q \in Passes : q # p => Stays(q, {})
  BY <1>2, <1>3, PlainStep
<1> QED
  BY <1>2, <1>4 DEF Arrives

\* A pass ends, or is lost.
LEMMA EndStep ==
    ASSUME TypeOK, NEW p \in Passes, pass' = [pass EXCEPT ![p] = NoPass]
    PROVE  /\ pass' \in [Passes -> Pass]
           /\ Arrives(p, "idle", NoItems, FALSE, {})
<1>3. NoPass \in Pass
  BY NoPassTyped
<1>4. pass' \in [Passes -> Pass] /\ pass'[p] = NoPass /\ \A q \in Passes : q # p => Stays(q, {})
  BY <1>3, PlainStep
<1> QED
  BY <1>4 DEF Arrives, NoPass

\* The Get before an Update of the Tenant.
LEMMA ReadStep ==
    ASSUME TypeOK, NEW p \in Passes, NEW place \in Place, NEW items \in Items,
           NEW tries \in 0 .. Attempts, NEW own \in SUBSET Subjects,
           ReadTenant(p, place, items, tries, own)
    PROVE  /\ pass' \in [Passes -> Pass]
           /\ pass'[p].at = place /\ pass'[p].items = items /\ pass'[p].err = pass[p].err
           /\ pass'[p].owners = own
           /\ \A q \in Passes : q # p => Stays(q, {})
<1> DEFINE b == Onward(place, items, pass[p].err)
           r == [b EXCEPT !.fresh = TRUE, !.tries = tries, !.owners = own]
<1>1. pass[p].err \in BOOLEAN
  BY DEF TypeOK, Pass
<1>2. b \in Pass /\ b.at = place /\ b.items = items /\ b.err = pass[p].err
  BY <1>1, OnwardIs
<1>3. pass' = [pass EXCEPT ![p] = r]
  BY DEF ReadTenant
<1> HIDE DEF b
<1>4. r \in Pass /\ r.at = place /\ r.items = items /\ r.err = pass[p].err /\ r.owners = own
  BY <1>2 DEF Pass
<1> HIDE DEF r
<1>5. pass' \in [Passes -> Pass] /\ pass'[p] = r /\ \A q \in Passes : q # p => Stays(q, {})
  BY <1>3, <1>4, PlainStep
<1> QED
  BY <1>4, <1>5

\* The Get before an Update of the namespace.
LEMMA ReferenceStep ==
    ASSUME TypeOK, NEW p \in Passes, NEW tries \in 0 .. Attempts, KeepDestCapsuleOwners(p, tries)
    PROVE  /\ pass' \in [Passes -> Pass]
           /\ pass'[p].at = "nsPut" /\ pass'[p].items = pass[p].items
           /\ pass'[p].err = pass[p].err /\ pass'[p].owned = ns.owned
           /\ \A q \in Passes : q # p => Stays(q, {})
<1> DEFINE r == [pass[p] EXCEPT !.at = "nsPut", !.fresh = TRUE, !.tries = tries, !.owned = ns.owned]
<1>1. pass[p] \in Pass /\ ns.owned \in BOOLEAN
  BY DEF TypeOK
<1>2. r \in Pass /\ r.at = "nsPut" /\ r.items = pass[p].items /\ r.err = pass[p].err
      /\ r.owned = ns.owned
  BY <1>1 DEF Pass, Place
<1>3. pass' = [pass EXCEPT ![p] = r]
  BY <1>1 DEF KeepDestCapsuleOwners, TypeOK
<1> HIDE DEF r
<1>4. pass' \in [Passes -> Pass] /\ pass'[p] = r /\ \A q \in Passes : q # p => Stays(q, {})
  BY <1>2, <1>3, PlainStep
<1> QED
  BY <1>2, <1>4

-----------------------------------------------------------------------------
(* The invariant from its parts *)

\* What another pass may rely on after a step that was seen at `touched`.
Seen(touched) ==
    /\ tenant' = tenant \/ ~tenant'.on \/ OfTenant \subseteq touched
    /\ ns' = ns \/ ns'.on = "none" \/ OfNamespace \subseteq touched
    /\ NsStep
    /\ src'.tenanted = src.tenanted

\* A step of p keeps the invariant if it keeps the types and leaves p sound.
LEMMA StepOf ==
    ASSUME GraphInv, NEW p \in Passes, NEW touched, TypeOK', NsSound', SnapAgrees', Sound(p)',
           \A q \in Passes : q # p => Stays(q, touched), Seen(touched)
    PROVE  GraphInv'
<1>1. ASSUME NEW q \in Passes, q # p PROVE Sound(q)'
  BY <1>1, OthersSound DEF GraphInv, Seen
<1>2. \A q \in Passes : Sound(q)'
  BY <1>1
<1> QED
  BY <1>2 DEF GraphInv

\* The same for a step of no pass.
LEMMA StepOutside ==
    ASSUME GraphInv, NEW touched, TypeOK', NsSound', SnapAgrees',
           \A q \in Passes : Stays(q, touched), Seen(touched)
    PROVE  GraphInv'
<1>1. ASSUME NEW q \in Passes PROVE Sound(q)'
  BY OthersSound DEF GraphInv, Seen
<1>2. \A q \in Passes : Sound(q)'
  BY <1>1
<1> QED
  BY <1>2 DEF GraphInv

\* A pass that has arrived is sound if its items agree and, past the
\* namespace, it has an error or the namespace has its Tenant.
LEMMA ArrivedSound ==
    ASSUME NEW p \in Passes, NEW place, NEW items, NEW err, NEW touched,
           Arrives(p, place, items, err, touched),
           place # "idle" => items.tenanted = src'.tenanted,
           place \in Past /\ ~err /\ items.obj["ns"] = "live" /\ items.tenanted /\ ns'.on # "none"
              => ns'.owned
    PROVE  Sound(p)'
<1>1. ~pass'[p].fresh /\ Agrees(p)' /\ Adopts(p)'
  BY DEF Arrives, Agrees, Adopts
<1> QED
  BY <1>1, OnwardSound

\* A step that leaves Tenant, namespace and source alone is seen nowhere.
LEMMA NothingSeen ==
    ASSUME NEW touched, UNCHANGED <<ns, src>>,
           tenant' = tenant \/ ~tenant'.on \/ OfTenant \subseteq touched
    PROVE  Seen(touched)
BY DEF Seen, NsStep

\* The items of a pass in progress.
LEMMA ItemsOf ==
    ASSUME GraphInv, NEW p \in Passes
    PROVE  /\ pass[p] \in Pass /\ pass[p].items \in Items /\ pass[p].err \in BOOLEAN
           /\ pass[p].at \in Place
           /\ pass[p].at # "idle" => pass[p].items.tenanted = src.tenanted
<1>1. pass[p] \in Pass
  BY DEF GraphInv, TypeOK
<1>2. Agrees(p)
  BY DEF GraphInv, Sound
<1> QED
  BY <1>1, <1>2 DEF Pass, Agrees

-----------------------------------------------------------------------------
(* The steps of a pass *)

\* What a pass lists or loads: items of the source's kind.
LEMMA ListedItems ==
    ASSUME GraphInv, NEW p \in Passes, p = "restore" => want
    PROVE  ItemsFor(p) \in Items /\ ItemsFor(p).tenanted = src.tenanted
<1> DEFINE it == ItemsFor(p)
<1>1. TypeOK /\ SnapAgrees
  BY DEF GraphInv
<1>2. CASE p = "restore"
  <2> DEFINE o == [k \in Kinds |-> IF snap.obj[k] = "none" THEN "none" ELSE "live"]
  <2>1. o \in [Kinds -> ItemState]
    BY DEF ItemState
  <2>2. it = [snap EXCEPT !.obj = o]
    BY <1>2 DEF ItemsFor, Loaded
  <2> HIDE DEF o
  <2>3. snap \in Items /\ snap.tenanted = src.tenanted
    BY <1>1, <1>2 DEF TypeOK, SnapAgrees
  <2> QED
    BY <2>1, <2>2, <2>3 DEF Items
<1>3. CASE p # "restore"
  BY <1>1, <1>3 DEF ItemsFor, Listed, TypeOK
<1> QED
  BY <1>2, <1>3

\* Begin: the list of the source, or the stored one, and the Tenant.
LEMMA BeginKeeps ==
    ASSUME GraphInv, NEW p \in Passes, Begin(p)
    PROVE  GraphInv'
<1> DEFINE it == ItemsFor(p)
<1>1. TypeOK /\ SnapAgrees /\ NsSound
  BY DEF GraphInv
<1>2. it \in Items /\ it.tenanted = src.tenanted
  BY ListedItems DEF Begin
<1>3. UNCHANGED <<ns, crd, cr, grants, left, restores, src, snap, users, want, attested>>
  BY DEF Begin, Outside
<1> HIDE DEF it
<1> DEFINE r == Onward("ns", it, FALSE)
<1>4. r \in Pass /\ r.at = "ns" /\ r.items = it /\ r.err = FALSE /\ ~r.fresh
  <2>1. "ns" \in Place /\ FALSE \in BOOLEAN
    BY DEF Place
  <2> QED
    BY <1>2, <2>1, OnwardIs
<1>5. \/ UNCHANGED tenant /\ pass' = [pass EXCEPT ![p] = r]
      \/ tenant' = NoTenant
         /\ pass' = [Staled(IF tenant.on THEN OfTenant ELSE {}) EXCEPT ![p] = r]
      \/ /\ tenant' = [on |-> TRUE, owners |-> it.owners, admitted |-> {}]
         /\ pass' = [Staled(OfTenant) EXCEPT ![p] = r]
      \/ ReadTenant(p, "tenantPut", it, 1, KeepDestTenantOwners(it.owners)) /\ UNCHANGED tenant
  BY DEF Begin, it
<1> HIDE DEF r
<1>6. SnapAgrees' /\ NsSound'
  BY <1>1, <1>3 DEF SnapAgrees, NsSound
<1>7. ASSUME pass' \in [Passes -> Pass],
             tenant' \in [on : BOOLEAN, owners : SUBSET Subjects, admitted : SUBSET Subjects]
      PROVE  TypeOK'
  BY <1>1, <1>3, <1>7 DEF TypeOK
<1>8. ASSUME NEW touched, Arrives(p, "ns", it, FALSE, touched) PROVE Sound(p)'
  BY <1>2, <1>3, <1>8, ArrivedSound DEF Past
<1>9. CASE UNCHANGED tenant /\ pass' = [pass EXCEPT ![p] = r]
  <2>1. pass' \in [Passes -> Pass] /\ pass'[p] = r /\ \A q \in Passes : q # p => Stays(q, {})
    BY <1>1, <1>4, <1>9, PlainStep
  <2>2. Arrives(p, "ns", it, FALSE, {})
    BY <2>1, <1>4 DEF Arrives
  <2>3. TypeOK'
    BY <2>1, <1>7, <1>9, <1>1 DEF TypeOK
  <2>4. Seen({})
    BY <1>3, <1>9, NothingSeen
  <2> QED
    BY <2>1, <2>2, <2>3, <2>4, <1>6, <1>8, StepOf
<1>10. CASE tenant' = NoTenant
            /\ pass' = [Staled(IF tenant.on THEN OfTenant ELSE {}) EXCEPT ![p] = r]
  <2> DEFINE t == IF tenant.on THEN OfTenant ELSE {}
  <2>1. pass' \in [Passes -> Pass] /\ pass'[p] = r /\ \A q \in Passes : q # p => Stays(q, t)
    <3> HIDE DEF t
    <3> QED BY <1>1, <1>4, <1>10, StaledStep DEF t
  <2>2. Arrives(p, "ns", it, FALSE, t)
    BY <2>1, <1>4 DEF Arrives
  <2>3. TypeOK'
    BY <2>1, <1>7, <1>10 DEF NoTenant
  <2>4. Seen(t)
    BY <1>3, <1>10, NothingSeen DEF NoTenant
  <2> HIDE DEF t
  <2> QED
    BY <2>1, <2>2, <2>3, <2>4, <1>6, <1>8, StepOf
<1>11. CASE /\ tenant' = [on |-> TRUE, owners |-> it.owners, admitted |-> {}]
            /\ pass' = [Staled(OfTenant) EXCEPT ![p] = r]
  <2>1. pass' \in [Passes -> Pass] /\ pass'[p] = r
        /\ \A q \in Passes : q # p => Stays(q, OfTenant)
    BY <1>1, <1>4, <1>11, StaledStep
  <2>2. Arrives(p, "ns", it, FALSE, OfTenant)
    BY <2>1, <1>4 DEF Arrives
  <2>3. TypeOK'
    BY <2>1, <1>2, <1>7, <1>11 DEF Items
  <2>4. Seen(OfTenant)
    BY <1>3, <1>11, NothingSeen
  <2> QED
    BY <2>1, <2>2, <2>3, <2>4, <1>6, <1>8, StepOf
<1>12. CASE ReadTenant(p, "tenantPut", it, 1, KeepDestTenantOwners(it.owners)) /\ UNCHANGED tenant
  <2> DEFINE own == KeepDestTenantOwners(it.owners)
  <2>1. own \in SUBSET Subjects /\ tenant.owners \subseteq own
    BY <1>1, <1>2 DEF TypeOK, Items, KeepDestTenantOwners
  <2>2. 1 \in 0 .. Attempts /\ "tenantPut" \in Place
    BY GraphAssumption DEF Place
  <2>3. ReadTenant(p, "tenantPut", it, 1, own)
    BY <1>12
  <2> HIDE DEF own
  <2>4. /\ pass' \in [Passes -> Pass]
        /\ pass'[p].at = "tenantPut" /\ pass'[p].items = it
        /\ pass'[p].owners = own
        /\ \A q \in Passes : q # p => Stays(q, {})
    BY <1>1, <1>2, <2>1, <2>2, <2>3, ReadStep
  <2>5. TypeOK'
    BY <2>4, <1>7, <1>12, <1>1 DEF TypeOK
  <2>6. Seen({})
    BY <1>3, <1>12, NothingSeen
  <2>7. Sound(p)'
    BY <2>1, <2>4, <1>2, <1>3, <1>12
       DEF Sound, KeepsOwners, KeepsReference, Agrees, Adopts, Past, OfNamespace
  <2> QED
    BY <2>4, <2>5, <2>6, <2>7, <1>6, StepOf
<1> QED
  BY <1>5, <1>9, <1>10, <1>11, <1>12

\* A pass that writes or reads the Tenant and then arrives at `place`, ahead of
\* the namespace or with an error.
LEMMA TenantArrives ==
    ASSUME GraphInv, NEW p \in Passes, pass[p].at # "idle", NEW place, NEW err, NEW touched,
           pass' \in [Passes -> Pass],
           tenant' \in [on : BOOLEAN, owners : SUBSET Subjects, admitted : SUBSET Subjects],
           Arrives(p, place, pass[p].items, err, touched), err \/ place \notin Past,
           tenant' = tenant \/ ~tenant'.on \/ OfTenant \subseteq touched,
           UNCHANGED <<ns, crd, cr, grants, left, restores, src, snap, users, want, attested>>
    PROVE  GraphInv'
<1>1. TypeOK' /\ NsSound' /\ SnapAgrees'
  BY DEF GraphInv, TypeOK, NsSound, SnapAgrees
<1>2. Sound(p)'
  BY ItemsOf, ArrivedSound
<1>3. Seen(touched)
  BY NothingSeen
<1>4. \A q \in Passes : q # p => Stays(q, touched)
  BY DEF Arrives
<1> QED
  BY <1>1, <1>2, <1>3, <1>4, StepOf

\* A pass that reads the Tenant again, with all its owners in what it is to
\* write.
LEMMA TenantRead ==
    ASSUME GraphInv, NEW p \in Passes, pass[p].at # "idle", NEW place \in OfTenant,
           NEW tries \in 0 .. Attempts, NEW own \in SUBSET Subjects,
           ReadTenant(p, place, pass[p].items, tries, own), tenant.owners \subseteq own,
           UNCHANGED <<tenant, ns, crd, cr, grants, left, restores, src, snap, users, want, attested>>
    PROVE  GraphInv'
<1>1. place \in Place /\ TypeOK
  BY DEF OfTenant, Place, GraphInv
<1>2. /\ pass' \in [Passes -> Pass]
      /\ pass'[p].at = place /\ pass'[p].items = pass[p].items
      /\ pass'[p].owners = own
      /\ \A q \in Passes : q # p => Stays(q, {})
  BY <1>1, ItemsOf, ReadStep
<1>3. TypeOK' /\ NsSound' /\ SnapAgrees'
  BY <1>2 DEF GraphInv, TypeOK, NsSound, SnapAgrees
<1>4. Sound(p)'
  BY <1>2, ItemsOf DEF Sound, KeepsOwners, KeepsReference, Agrees, Adopts, Past, OfTenant, OfNamespace
<1>5. Seen({})
  BY NothingSeen
<1> QED
  BY <1>2, <1>3, <1>4, <1>5, StepOf

\* TenantPut: the Tenant is gone, written, read again or given up.
LEMMA TenantPutKeeps ==
    ASSUME GraphInv, NEW p \in Passes, TenantPut(p)
    PROVE  GraphInv'
<1>1. TypeOK /\ pass[p].at = "tenantPut" /\ pass[p] \in Pass
  BY ItemsOf DEF GraphInv, TenantPut, At
<1>2. UNCHANGED <<ns, crd, cr, grants, left, restores, src, snap, users, want, attested>>
  BY DEF TenantPut, Outside
<1>3. "ns" \in Place /\ "ns" \notin Past /\ "ns" \in Place \ Past
  BY DEF Place, Past
<1>4. CASE ~tenant.on /\ GoTo(p, "ns", {}) /\ UNCHANGED tenant
  <2>1. pass' \in [Passes -> Pass] /\ Arrives(p, "ns", pass[p].items, pass[p].err, {})
    BY <1>1, <1>3, <1>4, GoToStep
  <2>2. tenant' \in [on : BOOLEAN, owners : SUBSET Subjects, admitted : SUBSET Subjects]
    BY <1>1, <1>4 DEF TypeOK
  <2> QED
    BY <1>1, <1>2, <1>3, <1>4, <2>1, <2>2, TenantArrives
<1>5. CASE /\ tenant.on /\ pass[p].fresh
           /\ tenant' = [tenant EXCEPT !.owners = pass[p].owners]
           /\ GoTo(p, "ns", IF tenant' = tenant THEN {} ELSE OfTenant)
  <2>1. tenant' \in [on : BOOLEAN, owners : SUBSET Subjects, admitted : SUBSET Subjects]
    <3>1. pass[p].owners \in SUBSET Subjects
      BY <1>1 DEF Pass
    <3> QED
      BY <3>1, <1>1, <1>5 DEF TypeOK
  <2>2. CASE tenant' = tenant
    <3>1. GoTo(p, "ns", {})
      BY <1>5, <2>2
    <3>2. pass' \in [Passes -> Pass] /\ Arrives(p, "ns", pass[p].items, pass[p].err, {})
      BY <1>1, <1>3, <3>1, GoToStep
    <3> QED
      BY <1>1, <1>2, <1>3, <2>1, <2>2, <3>2, TenantArrives
  <2>3. CASE tenant' # tenant
    <3>1. GoTo(p, "ns", OfTenant)
      BY <1>5, <2>3
    <3>2. pass' \in [Passes -> Pass] /\ Arrives(p, "ns", pass[p].items, pass[p].err, OfTenant)
      BY <1>1, <1>3, <3>1, GoToStep
    <3> QED
      BY <1>1, <1>2, <1>3, <2>1, <3>2, TenantArrives
  <2> QED
    BY <2>2, <2>3
<1>6. CASE /\ tenant.on /\ ~pass[p].fresh /\ pass[p].tries < Attempts /\ UNCHANGED tenant
           /\ ReadTenant(p, "tenantPut", pass[p].items, pass[p].tries + 1,
                         KeepDestTenantOwners(pass[p].owners))
  <2> DEFINE own == KeepDestTenantOwners(pass[p].owners)
             tries == pass[p].tries + 1
  <2>1. own \in SUBSET Subjects /\ tenant.owners \subseteq own
    <3>1. pass[p].owners \in SUBSET Subjects
      BY <1>1 DEF Pass
    <3> QED
      BY <3>1, <1>1 DEF TypeOK, KeepDestTenantOwners
  <2>2. tries \in 0 .. Attempts
    <3>1. pass[p].tries \in 0 .. Attempts
      BY <1>1 DEF Pass
    <3> QED
      BY <3>1, <1>6, GraphAssumption
  <2>3. ReadTenant(p, "tenantPut", pass[p].items, tries, own) /\ "tenantPut" \in OfTenant
    BY <1>6 DEF OfTenant
  <2> HIDE DEF own, tries
  <2> QED
    BY <1>1, <1>2, <1>6, <2>1, <2>2, <2>3, TenantRead
<1>7. CASE tenant.on /\ Fails(p, "ns") /\ UNCHANGED tenant
  <2>1. pass' \in [Passes -> Pass] /\ Arrives(p, "ns", pass[p].items, TRUE, {})
    BY <1>1, <1>3, <1>7, FailsStep
  <2>2. tenant' \in [on : BOOLEAN, owners : SUBSET Subjects, admitted : SUBSET Subjects]
    BY <1>1, <1>7 DEF TypeOK
  <2> QED
    BY <1>1, <1>2, <1>3, <1>7, <2>1, <2>2, TenantArrives
<1> QED
  BY <1>4, <1>5, <1>6, <1>7 DEF TenantPut

\* ensureTenantSpecOwnerOnce: the caller is an owner, or what is to be written
\* has every owner and the caller.
LEMMA OwnerRead ==
    ASSUME GraphInv, NEW p \in Passes, pass[p].at # "idle", NEW tries \in 0 .. Attempts,
           EnsureTenantSpecOwner(p, tries),
           UNCHANGED <<tenant, ns, crd, cr, grants, left, restores, src, snap, users, want, attested>>
    PROVE  GraphInv'
<1>1. TypeOK
  BY DEF GraphInv
<1>2. CASE Caller \in tenant.owners
  <2>1. "user" \in Place /\ "user" \notin Past
    BY DEF Place, Past
  <2>2. GoTo(p, "user", {})
    BY <1>2 DEF EnsureTenantSpecOwner
  <2>3. pass' \in [Passes -> Pass] /\ Arrives(p, "user", pass[p].items, pass[p].err, {})
    BY <1>1, <2>1, <2>2, GoToStep
  <2>4. tenant' \in [on : BOOLEAN, owners : SUBSET Subjects, admitted : SUBSET Subjects]
    BY <1>1 DEF TypeOK
  <2> QED
    BY <2>1, <2>3, <2>4, TenantArrives
<1>3. CASE Caller \notin tenant.owners
  <2> DEFINE own == tenant.owners \union {Caller}
  <2>1. own \in SUBSET Subjects /\ tenant.owners \subseteq own
    BY <1>1 DEF TypeOK, Subjects
  <2>2. ReadTenant(p, "ownerPut", pass[p].items, tries, own) /\ "ownerPut" \in OfTenant
    BY <1>3 DEF EnsureTenantSpecOwner, OfTenant
  <2> HIDE DEF own
  <2> QED
    BY <2>1, <2>2, TenantRead
<1> QED
  BY <1>2, <1>3

\* A pass that leaves the Tenant, the namespace and what it was listed from as
\* they are, and arrives at `place`.
LEMMA StillArrives ==
    ASSUME GraphInv, NEW p \in Passes, pass[p].at # "idle", NEW place, NEW err,
           TypeOK', Arrives(p, place, pass[p].items, err, {}),
           err \/ place \notin Past
             \/ (pass[p].items.obj["ns"] = "live" /\ pass[p].items.tenanted /\ ns.on # "none" => ns.owned),
           UNCHANGED <<tenant, ns, src, snap, want>>
    PROVE  GraphInv'
<1>1. NsSound' /\ SnapAgrees'
  BY DEF GraphInv, NsSound, SnapAgrees
<1>2. Sound(p)'
  BY ItemsOf, ArrivedSound
<1>3. Seen({})
  BY NothingSeen
<1>4. \A q \in Passes : q # p => Stays(q, {})
  BY DEF Arrives
<1> QED
  BY <1>1, <1>2, <1>3, <1>4, StepOf

\* A pass that is past the namespace goes on and leaves it as it is.
LEMMA PastStays ==
    ASSUME GraphInv, NEW p \in Passes, pass[p].at \in Past, NEW place,
           TypeOK', Arrives(p, place, pass[p].items, pass[p].err, {}),
           UNCHANGED <<tenant, ns, src, snap, want>>
    PROVE  GraphInv'
<1>1. pass[p].at # "idle"
  BY DEF Past
<1>2. pass[p].err \/ (pass[p].items.obj["ns"] = "live" /\ pass[p].items.tenanted /\ ns.on # "none"
                         => ns.owned)
  BY DEF GraphInv, Sound, Adopts
<1> QED
  BY <1>1, <1>2, StillArrives

\* OwnerPut: the write of the caller into spec.owners.
LEMMA OwnerPutKeeps ==
    ASSUME GraphInv, NEW p \in Passes, OwnerPut(p)
    PROVE  GraphInv'
<1>1. TypeOK /\ pass[p].at = "ownerPut" /\ pass[p].at # "idle" /\ pass[p] \in Pass
  BY ItemsOf DEF GraphInv, OwnerPut, At
<1>2. UNCHANGED <<ns, crd, cr, grants, left, restores, src, snap, users, want, attested>>
  BY DEF OwnerPut, Outside
<1>3. "crd" \in Place /\ "user" \in Place /\ "user" \notin Past
  BY DEF Place, Past
<1>4. CASE Fails(p, "crd") /\ UNCHANGED tenant
  <2>1. pass' \in [Passes -> Pass] /\ Arrives(p, "crd", pass[p].items, TRUE, {})
    BY <1>1, <1>3, <1>4, FailsStep
  <2>2. tenant' \in [on : BOOLEAN, owners : SUBSET Subjects, admitted : SUBSET Subjects]
    BY <1>1, <1>4 DEF TypeOK
  <2> QED
    BY <1>1, <1>2, <1>4, <2>1, <2>2, TenantArrives
<1>5. CASE /\ tenant' = [tenant EXCEPT !.owners = pass[p].owners]
           /\ GoTo(p, "user", OfTenant)
  <2>1. tenant' \in [on : BOOLEAN, owners : SUBSET Subjects, admitted : SUBSET Subjects]
    <3>1. pass[p].owners \in SUBSET Subjects
      BY <1>1 DEF Pass
    <3> QED
      BY <3>1, <1>1, <1>5 DEF TypeOK
  <2>2. pass' \in [Passes -> Pass] /\ Arrives(p, "user", pass[p].items, pass[p].err, OfTenant)
    BY <1>1, <1>3, <1>5, GoToStep
  <2> QED
    BY <1>1, <1>2, <1>3, <2>1, <2>2, TenantArrives
<1>6. CASE /\ pass[p].tries < Attempts /\ UNCHANGED tenant
           /\ EnsureTenantSpecOwner(p, pass[p].tries + 1)
  <2> DEFINE tries == pass[p].tries + 1
  <2>1. tries \in 0 .. Attempts
    <3>1. pass[p].tries \in 0 .. Attempts
      BY <1>1 DEF Pass
    <3> QED
      BY <3>1, <1>6, GraphAssumption
  <2>2. EnsureTenantSpecOwner(p, tries)
    BY <1>6
  <2> HIDE DEF tries
  <2> QED
    BY <1>1, <1>2, <1>6, <2>1, <2>2, OwnerRead
<1> QED
  BY <1>4, <1>5, <1>6 DEF OwnerPut

\* SyncNamespace: the head of syncNamespace, and the deletion of a namespace.
LEMMA SyncNamespaceKeeps ==
    ASSUME GraphInv, NEW p \in Passes, SyncNamespace(p)
    PROVE  GraphInv'
<1> DEFINE it == pass[p].items
<1>1. TypeOK /\ pass[p].at # "idle" /\ pass[p] \in Pass
  BY ItemsOf DEF GraphInv, SyncNamespace, At
<1>2. UNCHANGED <<tenant, crd, cr, grants, left, restores, src, snap, users, want, attested>>
  BY DEF SyncNamespace, Outside
<1>3. "crd" \in Place /\ "create" \in Place /\ "create" \notin Past
  BY DEF Place, Past
<1>4. CASE it.obj["ns"] = "none" /\ GoTo(p, "crd", {}) /\ UNCHANGED ns
  <2>1. pass' \in [Passes -> Pass] /\ Arrives(p, "crd", pass[p].items, pass[p].err, {})
    BY <1>1, <1>3, <1>4, GoToStep
  <2>2. TypeOK'
    BY <1>1, <1>2, <1>4, <2>1 DEF TypeOK
  <2> QED
    BY <1>1, <1>2, <1>4, <2>1, <2>2, StillArrives
<1>5. CASE /\ it.obj["ns"] = "deleting"
           /\ ns' = IF ns.on = "live" THEN [ns EXCEPT !.on = "ending"] ELSE ns
           /\ GoTo(p, "crd", IF ns' = ns THEN {} ELSE OfNamespace)
  <2>1. /\ ns' \in [on : {"none", "live", "ending"}, owned : BOOLEAN]
        /\ ns'.owned = ns.owned /\ (ns'.on = "none" <=> ns.on = "none")
    BY <1>1, <1>5 DEF TypeOK
  <2>2. PICK touched : GoTo(p, "crd", touched) /\ (ns' = ns \/ OfNamespace \subseteq touched)
    BY <1>5
  <2>3. pass' \in [Passes -> Pass] /\ Arrives(p, "crd", pass[p].items, pass[p].err, touched)
    BY <1>1, <1>3, <2>2, GoToStep
  <2>4. TypeOK' /\ NsSound' /\ SnapAgrees'
    BY <1>1, <1>2, <2>1, <2>3 DEF TypeOK, GraphInv, NsSound, SnapAgrees
  <2>5. Sound(p)'
    BY <1>1, <1>2, <1>5, <2>3, ItemsOf, ArrivedSound
  <2>6. Seen(touched)
    BY <1>2, <2>1, <2>2 DEF Seen, NsStep
  <2>7. \A q \in Passes : q # p => Stays(q, touched)
    BY <2>3 DEF Arrives
  <2> QED
    BY <2>4, <2>5, <2>6, <2>7, StepOf
<1>6. CASE GoTo(p, "create", {}) /\ UNCHANGED ns
  <2>1. pass' \in [Passes -> Pass] /\ Arrives(p, "create", pass[p].items, pass[p].err, {})
    BY <1>1, <1>3, <1>6, GoToStep
  <2>2. TypeOK'
    BY <1>1, <1>2, <1>6, <2>1 DEF TypeOK
  <2> QED
    BY <1>1, <1>2, <1>3, <1>6, <2>1, <2>2, StillArrives
<1>7. CASE EnsureTenantSpecOwner(p, 1) /\ UNCHANGED ns
  <2>1. 1 \in 0 .. Attempts
    BY GraphAssumption
  <2> QED
    BY <1>1, <1>2, <1>7, <2>1, OwnerRead
<1>8. CASE Fails(p, "crd") /\ UNCHANGED ns
  <2>1. pass' \in [Passes -> Pass] /\ Arrives(p, "crd", pass[p].items, TRUE, {})
    BY <1>1, <1>3, <1>8, FailsStep
  <2>2. TypeOK'
    BY <1>1, <1>2, <1>8, <2>1 DEF TypeOK
  <2> QED
    BY <1>1, <1>2, <1>8, <2>1, <2>2, StillArrives
<1> QED
  BY <1>4, <1>5, <1>6, <1>7, <1>8 DEF SyncNamespace

\* PickTenantOwner: it only moves the pass.
LEMMA PickTenantOwnerKeeps ==
    ASSUME GraphInv, NEW p \in Passes, PickTenantOwner(p)
    PROVE  GraphInv'
<1>1. TypeOK /\ pass[p].at = "user" /\ pass[p].at # "idle" /\ pass[p] \in Pass
  BY ItemsOf DEF GraphInv, PickTenantOwner, At
<1>2. UNCHANGED <<tenant, ns, crd, cr, grants, left, restores, src, snap, users, want, attested>>
  BY DEF PickTenantOwner, Outside, Graph
<1>3. "admit" \in Place /\ "admit" \notin Past /\ "register" \in Place
  BY DEF Place, Past
<1>4. CASE GoTo(p, "admit", {})
  <2>1. pass' \in [Passes -> Pass] /\ Arrives(p, "admit", pass[p].items, pass[p].err, {})
    BY <1>1, <1>3, <1>4, GoToStep
  <2>2. TypeOK'
    BY <1>1, <1>2, <2>1 DEF TypeOK
  <2> QED
    BY <1>1, <1>2, <1>3, <2>1, <2>2, StillArrives
<1>5. ASSUME NEW name \in {"primary", "alt"},
             pass' = [pass EXCEPT ![p].at = "register", ![p].name = name]
      PROVE  GraphInv'
  <2> DEFINE r == [pass[p] EXCEPT !.at = "register", !.name = name]
  <2>1. r \in Pass /\ r.at = "register" /\ r.items = pass[p].items
    BY <1>1, <1>3 DEF Pass
  <2>2. pass' = [pass EXCEPT ![p] = r]
    BY <1>1, <1>5 DEF TypeOK
  <2> HIDE DEF r
  <2>3. pass' \in [Passes -> Pass] /\ pass'[p] = r /\ \A q \in Passes : q # p => Stays(q, {})
    BY <1>1, <2>1, <2>2, PlainStep
  <2>4. TypeOK' /\ NsSound' /\ SnapAgrees'
    BY <1>1, <1>2, <2>3 DEF TypeOK, GraphInv, NsSound, SnapAgrees
  <2>5. Sound(p)'
    BY <1>1, <1>2, <2>1, <2>3, ItemsOf
       DEF Sound, KeepsOwners, KeepsReference, Agrees, Adopts, Past, OfTenant, OfNamespace
  <2>6. Seen({})
    BY <1>2, NothingSeen
  <2> QED
    BY <2>3, <2>4, <2>5, <2>6, StepOf
<1> QED
  BY <1>4, <1>5 DEF PickTenantOwner

\* CreateTenantOwner: it changes the grants alone.
LEMMA CreateTenantOwnerKeeps ==
    ASSUME GraphInv, NEW p \in Passes, CreateTenantOwner(p)
    PROVE  GraphInv'
<1>1. TypeOK /\ pass[p].at # "idle" /\ pass[p] \in Pass
  BY ItemsOf DEF GraphInv, CreateTenantOwner, At
<1>2. UNCHANGED <<tenant, ns, crd, cr, left, restores, src, snap, users, want, attested>>
  BY DEF CreateTenantOwner, Outside
<1>3. "admit" \in Place /\ "admit" \notin Past
  BY DEF Place, Past
<1>4. pass' \in [Passes -> Pass] /\ Arrives(p, "admit", pass[p].items, pass[p].err, {})
  BY <1>1, <1>3, GoToStep DEF CreateTenantOwner
<1>5. grants' \in [{"primary", "alt"} -> Subjects \union {NoOne}]
  <2>1. pass[p].name \in {"primary", "alt"} /\ Caller \in Subjects
    BY <1>1 DEF Pass, Subjects
  <2> QED
    BY <1>1, <2>1 DEF TypeOK, CreateTenantOwner
<1>6. TypeOK'
  BY <1>1, <1>2, <1>4, <1>5 DEF TypeOK
<1> QED
  BY <1>1, <1>2, <1>3, <1>4, <1>6, StillArrives

\* The Get before an Update of a namespace that has its Tenant.
LEMMA ReferenceRead ==
    ASSUME GraphInv, NEW p \in Passes, pass[p].at # "idle", NEW tries \in 0 .. Attempts,
           KeepDestCapsuleOwners(p, tries),
           ~pass[p].err /\ pass[p].items.obj["ns"] = "live" /\ pass[p].items.tenanted
             /\ ns.on # "none" => ns.owned,
           UNCHANGED <<tenant, ns, crd, cr, grants, left, restores, src, snap, users, want, attested>>
    PROVE  GraphInv'
<1>1. TypeOK
  BY DEF GraphInv
<1>2. /\ pass' \in [Passes -> Pass]
      /\ pass'[p].at = "nsPut" /\ pass'[p].items = pass[p].items
      /\ pass'[p].err = pass[p].err /\ pass'[p].owned = ns.owned
      /\ \A q \in Passes : q # p => Stays(q, {})
  BY <1>1, ReferenceStep
<1>3. TypeOK' /\ NsSound' /\ SnapAgrees'
  BY <1>2 DEF GraphInv, TypeOK, NsSound, SnapAgrees
<1>4. Sound(p)'
  BY <1>2, ItemsOf DEF Sound, KeepsOwners, KeepsReference, Agrees, Adopts, Past, OfTenant
<1>5. Seen({})
  BY NothingSeen
<1> QED
  BY <1>2, <1>3, <1>4, <1>5, StepOf

\* CreateNamespace: a created namespace is seen by whoever has read its absence,
\* and is owned if it is to be; an existing one is read back.
LEMMA CreateNamespaceKeeps ==
    ASSUME GraphInv, NEW p \in Passes, CreateNamespace(p)
    PROVE  GraphInv'
<1> DEFINE tenanted == pass[p].items.tenanted
           refused == \/ At(p, "admit") /\ ~(tenant.on /\ Caller \in tenant.admitted)
                      \/ tenanted /\ (IF ns.on = "none" THEN ~CapsuleAdmits ELSE ~ns.owned)
<1>1. TypeOK /\ pass[p].at # "idle" /\ pass[p] \in Pass /\ tenanted = src.tenanted
  BY ItemsOf DEF GraphInv, CreateNamespace
<1>2. UNCHANGED <<tenant, crd, cr, grants, left, restores, src, snap, users, want, attested>>
  BY DEF CreateNamespace, Outside
<1>3. "crd" \in Place
  BY DEF Place
<1>4. CASE Fails(p, "crd") /\ UNCHANGED ns
  <2>1. pass' \in [Passes -> Pass] /\ Arrives(p, "crd", pass[p].items, TRUE, {})
    BY <1>1, <1>3, <1>4, FailsStep
  <2>2. TypeOK'
    BY <1>1, <1>2, <1>4, <2>1 DEF TypeOK
  <2> QED
    BY <1>1, <1>2, <1>4, <2>1, <2>2, StillArrives
<1>5. CASE /\ ns.on = "none" /\ ns' = [on |-> "live", owned |-> tenanted]
           /\ GoTo(p, "crd", OfNamespace)
  <2>1. pass' \in [Passes -> Pass] /\ Arrives(p, "crd", pass[p].items, pass[p].err, OfNamespace)
    BY <1>1, <1>3, <1>5, GoToStep
  <2>2. src.tenanted \in BOOLEAN
    BY <1>1 DEF TypeOK, Items
  <2>3. ns' \in [on : {"none", "live", "ending"}, owned : BOOLEAN]
    BY <1>1, <1>5, <2>2
  <2>4. ns'.on = "live" /\ ns'.owned = src.tenanted
    BY <1>1, <1>5
  <2>5. TypeOK' /\ NsSound' /\ SnapAgrees'
    BY <1>1, <1>2, <2>1, <2>3, <2>4 DEF TypeOK, GraphInv, NsSound, SnapAgrees
  <2>6. Sound(p)'
    BY <1>1, <1>2, <2>1, <2>4, ArrivedSound
  <2>7. Seen(OfNamespace)
    BY <1>2, <1>5, <2>4 DEF Seen, NsStep
  <2>8. \A q \in Passes : q # p => Stays(q, OfNamespace)
    BY <2>1 DEF Arrives
  <2> QED
    BY <2>5, <2>6, <2>7, <2>8, StepOf
<1>6. CASE ~refused /\ ns.on # "none" /\ KeepDestCapsuleOwners(p, 1) /\ UNCHANGED ns
  <2>1. 1 \in 0 .. Attempts
    BY GraphAssumption
  <2>2. pass[p].items.tenanted => ns.owned
    BY <1>6
  <2> QED
    BY <1>1, <1>2, <1>6, <2>1, <2>2, ReferenceRead
<1> QED
  BY <1>4, <1>5, <1>6 DEF CreateNamespace

\* NamespacePut: the write that is not refused changes nothing.
LEMMA NamespacePutKeeps ==
    ASSUME GraphInv, NEW p \in Passes, NamespacePut(p)
    PROVE  GraphInv'
<1>1. TypeOK /\ pass[p].at = "nsPut" /\ pass[p].at # "idle" /\ pass[p].at \in Past /\ pass[p] \in Pass
  BY ItemsOf DEF GraphInv, NamespacePut, At, Past
<1>2. UNCHANGED <<tenant, crd, cr, grants, left, restores, src, snap, users, want, attested>>
  BY DEF NamespacePut, Outside
<1>3. "crd" \in Place
  BY DEF Place
<1>4. CASE /\ GoTo(p, "crd", {})
           /\ \/ ns' = ns
              \/ pass[p].fresh /\ ns.on # "none" /\ ns' = [ns EXCEPT !.owned = pass[p].owned]
  <2>1. pass' \in [Passes -> Pass] /\ Arrives(p, "crd", pass[p].items, pass[p].err, {})
    BY <1>1, <1>3, <1>4, GoToStep
  <2>2. ns' = ns
    <3>1. pass[p].fresh /\ ns.on # "none" => pass[p].owned = ns.owned
      BY <1>1 DEF GraphInv, Sound, KeepsReference, OfNamespace
    <3> QED
      BY <1>1, <1>4, <3>1 DEF TypeOK
  <2>3. TypeOK'
    BY <1>1, <1>2, <2>1, <2>2 DEF TypeOK
  <2> QED
    BY <1>1, <1>2, <2>1, <2>2, <2>3, PastStays
<1>5. CASE Fails(p, "crd") /\ UNCHANGED ns
  <2>1. pass' \in [Passes -> Pass] /\ Arrives(p, "crd", pass[p].items, TRUE, {})
    BY <1>1, <1>3, <1>5, FailsStep
  <2>2. TypeOK'
    BY <1>1, <1>2, <1>5, <2>1 DEF TypeOK
  <2> QED
    BY <1>1, <1>2, <1>5, <2>1, <2>2, StillArrives
<1>6. CASE pass[p].tries < Attempts /\ KeepDestCapsuleOwners(p, pass[p].tries + 1) /\ UNCHANGED ns
  <2> DEFINE tries == pass[p].tries + 1
  <2>1. tries \in 0 .. Attempts
    <3>1. pass[p].tries \in 0 .. Attempts
      BY <1>1 DEF Pass
    <3> QED
      BY <3>1, <1>6, GraphAssumption
  <2>2. KeepDestCapsuleOwners(p, tries)
    BY <1>6
  <2>3. ~pass[p].err /\ pass[p].items.obj["ns"] = "live" /\ pass[p].items.tenanted
          /\ ns.on # "none" => ns.owned
    BY <1>1 DEF GraphInv, Sound, Adopts
  <2> HIDE DEF tries
  <2> QED
    BY <1>1, <1>2, <1>6, <2>1, <2>2, <2>3, ReferenceRead
<1> QED
  BY <1>4, <1>5, <1>6 DEF NamespacePut

\* SyncCRD: past the namespace.
LEMMA SyncCRDKeeps ==
    ASSUME GraphInv, NEW p \in Passes, SyncCRD(p)
    PROVE  GraphInv'
<1>1. TypeOK /\ pass[p].at \in Past
  BY DEF GraphInv, SyncCRD, At, Past
<1>2. UNCHANGED <<tenant, ns, grants, left, restores, src, snap, users, want, attested>>
  BY DEF SyncCRD, Outside
<1>3. pass' \in [Passes -> Pass] /\ Arrives(p, "others", pass[p].items, pass[p].err, {})
  <2>1. "others" \in Place
    BY DEF Place
  <2> QED
    BY <1>1, <2>1, GoToStep DEF SyncCRD
<1>4. crd' \in {"none", "new", "established"} /\ cr' \in BOOLEAN
  BY <1>1 DEF TypeOK, SyncCRD
<1>5. TypeOK'
  BY <1>1, <1>2, <1>3, <1>4 DEF TypeOK
<1> QED
  BY <1>1, <1>2, <1>3, <1>5, PastStays

\* SyncOthers: past the namespace.
LEMMA SyncOthersKeeps ==
    ASSUME GraphInv, NEW p \in Passes, SyncOthers(p)
    PROVE  GraphInv'
<1>1. TypeOK /\ pass[p].at \in Past /\ pass[p].items \in Items
  BY ItemsOf DEF GraphInv, SyncOthers, At, Past
<1>2. UNCHANGED <<tenant, ns, crd, left, restores, src, snap, users, want, attested>>
  BY DEF SyncOthers, Outside
<1>3. pass' \in [Passes -> Pass] /\ Arrives(p, "attest", pass[p].items, pass[p].err, {})
  <2>1. "attest" \in Place
    BY DEF Place
  <2> QED
    BY <1>1, <2>1, GoToStep DEF SyncOthers
<1>4. cr' \in BOOLEAN
  BY <1>1 DEF TypeOK, SyncOthers
<1>5. grants' \in [{"primary", "alt"} -> Subjects \union {NoOne}]
  <2>1. pass[p].items.obj["grant"] \in ItemState
    BY <1>1 DEF Items, Kinds
  <2>2. PICK g \in Subjects \union {NoOne} : grants' = [grants EXCEPT !["primary"] = g]
    <3>1. CASE pass[p].items.obj["grant"] = "live"
      BY <3>1 DEF SyncOthers, Subjects
    <3>2. CASE pass[p].items.obj["grant"] = "deleting"
      BY <3>2 DEF SyncOthers
    <3>3. CASE pass[p].items.obj["grant"] = "none"
      BY <1>1, <3>3 DEF SyncOthers, TypeOK
    <3> QED
      BY <2>1, <3>1, <3>2, <3>3 DEF ItemState
  <2> QED
    BY <1>1, <2>2 DEF TypeOK
<1>6. TypeOK'
  BY <1>1, <1>2, <1>3, <1>4, <1>5 DEF TypeOK
<1> QED
  BY <1>1, <1>2, <1>3, <1>6, PastStays

\* A pass ends and leaves the destination as it is.
LEMMA Ended ==
    ASSUME GraphInv, NEW p \in Passes, TypeOK', SnapAgrees', pass' = [pass EXCEPT ![p] = NoPass],
           UNCHANGED <<tenant, ns, src>>
    PROVE  GraphInv'
<1>1. Arrives(p, "idle", NoItems, FALSE, {})
  BY EndStep DEF GraphInv
<1>2. "idle" \notin Past
  BY DEF Past
<1>3. Sound(p)'
  BY <1>1, <1>2, ArrivedSound
<1>4. Seen({})
  BY NothingSeen
<1>5. NsSound'
  BY DEF GraphInv, NsSound
<1>6. \A q \in Passes : q # p => Stays(q, {})
  BY <1>1 DEF Arrives
<1> QED
  BY <1>3, <1>4, <1>5, <1>6, StepOf

\* Finish: the pass is forgotten, and with it a Restore that is done.
LEMMA FinishKeeps ==
    ASSUME GraphInv, NEW p \in Passes, Finish(p)
    PROVE  GraphInv'
<1>1. TypeOK /\ SnapAgrees
  BY DEF GraphInv
<1>2. UNCHANGED <<tenant, ns, crd, cr, grants, left, restores, src, users>>
  BY DEF Finish, Graph
<1>3. pass' = [pass EXCEPT ![p] = NoPass] /\ pass' \in [Passes -> Pass]
  BY <1>1, EndStep DEF Finish
<1>4. want' \in BOOLEAN /\ attested' \in BOOLEAN
  BY <1>1 DEF Finish, Attest, TypeOK
<1>5. snap' \in Items
  <2>1. NoItems \in Items
    BY DEF NoItems, Items, ItemState
  <2> QED
    BY <1>1, <2>1 DEF Finish, TypeOK
<1>6. SnapAgrees'
  BY <1>1, <1>2 DEF Finish, SnapAgrees
<1>7. TypeOK'
  BY <1>1, <1>2, <1>3, <1>4, <1>5 DEF TypeOK
<1> QED
  BY <1>2, <1>3, <1>6, <1>7, Ended

\* An event leaves the budget in its type.
LEMMA EventTyped ==
    ASSUME TypeOK, Event
    PROVE  left' \in 0 .. MaxEvents
BY GraphAssumption DEF TypeOK, Event

\* Restart: the pass is forgotten.
LEMMA RestartKeeps ==
    ASSUME GraphInv, NEW p \in Passes, Restart(p)
    PROVE  GraphInv'
<1>1. TypeOK /\ SnapAgrees
  BY DEF GraphInv
<1>2. UNCHANGED <<tenant, ns, crd, cr, grants, restores, src, snap, users, want, attested>>
  BY DEF Restart, Graph
<1>3. pass' = [pass EXCEPT ![p] = NoPass] /\ pass' \in [Passes -> Pass]
  BY <1>1, EndStep DEF Restart
<1>4. left' \in 0 .. MaxEvents
  BY <1>1, EventTyped DEF Restart
<1>5. TypeOK' /\ SnapAgrees'
  BY <1>1, <1>2, <1>3, <1>4 DEF TypeOK, SnapAgrees
<1> QED
  BY <1>2, <1>3, <1>5, Ended

\* CallFails: the object is given up with an error, or skipped without one;
\* a namespace that is to be written is not skipped.
LEMMA CallFailsKeeps ==
    ASSUME GraphInv, NEW p \in Passes, CallFails(p)
    PROVE  GraphInv'
<1>1. TypeOK /\ pass[p].at # "idle" /\ pass[p].at \in Place
  BY ItemsOf DEF GraphInv, CallFails, At
<1>2. UNCHANGED <<tenant, ns, crd, cr, grants, restores, src, snap, users, want, attested>>
  BY DEF CallFails, Graph
<1>3. left' \in 0 .. MaxEvents
  BY <1>1, EventTyped DEF CallFails
<1>4. CASE Fails(p, NextObject(pass[p].at))
  <2> DEFINE place == NextObject(pass[p].at)
  <2>1. place \in Place
    BY <1>1 DEF NextObject, Place
  <2>2. Fails(p, place)
    BY <1>4
  <2> HIDE DEF place
  <2>3. pass' \in [Passes -> Pass] /\ Arrives(p, place, pass[p].items, TRUE, {})
    BY <1>1, <2>1, <2>2, FailsStep
  <2>4. TypeOK'
    BY <1>1, <1>2, <1>3, <2>3 DEF TypeOK
  <2> QED
    BY <1>1, <1>2, <2>3, <2>4, StillArrives
<1>6. CASE Skippable(p) /\ GoTo(p, NextObject(pass[p].at), {})
  <2> DEFINE place == NextObject(pass[p].at)
  <2>1. place \in Place
    BY <1>1 DEF NextObject, Place
  <2>2. GoTo(p, place, {})
    BY <1>6
  <2>3. \/ pass[p].at \in Past
        \/ place = "ns"
        \/ pass[p].items.obj["ns"] = "deleting"
    BY <1>6 DEF Skippable, At, Past, NextObject
  <2> HIDE DEF place
  <2>4. pass' \in [Passes -> Pass] /\ Arrives(p, place, pass[p].items, pass[p].err, {})
    BY <1>1, <2>1, <2>2, GoToStep
  <2>5. TypeOK'
    BY <1>1, <1>2, <1>3, <2>4 DEF TypeOK
  <2>6. CASE pass[p].at \in Past
    BY <1>2, <2>4, <2>5, <2>6, PastStays
  <2>7. CASE place = "ns" \/ pass[p].items.obj["ns"] = "deleting"
    <3>1. place \notin Past \/ pass[p].items.obj["ns"] # "live"
      BY <2>7 DEF Past
    <3> QED
      BY <1>1, <1>2, <2>4, <2>5, <3>1, StillArrives
  <2> QED
    BY <2>3, <2>6, <2>7
<1>5. CASE GoTo(p, "create", {})
  <2>1. "create" \in Place /\ "create" \notin Past
    BY DEF Place, Past
  <2>2. pass' \in [Passes -> Pass] /\ Arrives(p, "create", pass[p].items, pass[p].err, {})
    BY <1>1, <1>5, <2>1, GoToStep
  <2>3. TypeOK'
    BY <1>1, <1>2, <1>3, <2>2 DEF TypeOK
  <2> QED
    BY <1>1, <1>2, <2>1, <2>2, <2>3, StillArrives
<1> QED
  BY <1>4, <1>5, <1>6 DEF CallFails

\* TenantCallFails: the pass goes on to the namespace, and the Tenant stays as
\* it is.
LEMMA TenantCallFailsKeeps ==
    ASSUME GraphInv, NEW p \in Passes, TenantCallFails(p)
    PROVE  GraphInv'
<1> DEFINE it == ItemsFor(p)
<1>1. TypeOK /\ SnapAgrees /\ NsSound
  BY DEF GraphInv
<1>2. it \in Items /\ it.tenanted = src.tenanted
  BY ListedItems DEF TenantCallFails
<1>3. UNCHANGED <<tenant, ns, crd, cr, grants, restores, src, snap, users, want, attested>>
  BY DEF TenantCallFails, Graph
<1>4. left' \in 0 .. MaxEvents
  BY <1>1, EventTyped DEF TenantCallFails
<1>5. PICK err \in BOOLEAN : pass' = [pass EXCEPT ![p] = Onward("ns", it, err)]
  BY DEF TenantCallFails
<1> HIDE DEF it
<1> DEFINE r == Onward("ns", it, err)
<1>6. r \in Pass /\ r.at = "ns" /\ r.items = it /\ r.err = err /\ ~r.fresh
  <2>1. "ns" \in Place
    BY DEF Place
  <2> QED
    BY <1>2, <2>1, OnwardIs
<1>7. pass' = [pass EXCEPT ![p] = r]
  BY <1>5
<1> HIDE DEF r
<1>8. pass' \in [Passes -> Pass] /\ pass'[p] = r /\ \A q \in Passes : q # p => Stays(q, {})
  BY <1>1, <1>6, <1>7, PlainStep
<1>9. Arrives(p, "ns", it, err, {})
  BY <1>6, <1>8 DEF Arrives
<1>10. TypeOK'
  BY <1>1, <1>3, <1>4, <1>8 DEF TypeOK
<1>11. Sound(p)'
  BY <1>2, <1>3, <1>9, ArrivedSound DEF Past
<1>12. SnapAgrees' /\ NsSound'
  BY <1>1, <1>3 DEF SnapAgrees, NsSound
<1>13. Seen({})
  BY <1>3, NothingSeen
<1> QED
  BY <1>8, <1>10, <1>11, <1>12, <1>13, StepOf

-----------------------------------------------------------------------------
(* The steps of no pass *)

\* A step that no pass has to see.
LEMMA Unseen ==
    ASSUME GraphInv, TypeOK', SnapAgrees', UNCHANGED <<tenant, ns, pass>>, src'.tenanted = src.tenanted
    PROVE  GraphInv'
<1>1. \A q \in Passes : Stays(q, {})
  BY DEF Stays
<1>2. Seen({}) /\ NsSound'
  BY DEF Seen, NsStep, GraphInv, NsSound
<1> QED
  BY <1>1, <1>2, StepOutside

\* Capsule and the API server: every write is seen by the passes.
LEMMA DestinationKeeps ==
    ASSUME GraphInv, Destination
    PROVE  GraphInv'
<1>1. TypeOK /\ NsSound /\ SnapAgrees
  BY DEF GraphInv
<1>2. CASE TenantReconciled
  <2>1. UNCHANGED <<ns, crd, cr, grants, left, restores, src, snap, users, want, attested>>
    BY <1>2 DEF TenantReconciled, Outside
  <2>2. pass' \in [Passes -> Pass] /\ \A q \in Passes : Stays(q, OfTenant)
    BY <1>1, <1>2, OutsideStep DEF TenantReconciled
  <2>3. TypeOK' /\ NsSound' /\ SnapAgrees'
    BY <1>1, <1>2, <2>1, <2>2 DEF TypeOK, TenantReconciled, NsSound, SnapAgrees
  <2>4. Seen(OfTenant)
    BY <2>1 DEF Seen, NsStep
  <2> QED
    BY <2>2, <2>3, <2>4, StepOutside
<1>3. CASE UsersReconciled
  <2>1. UNCHANGED <<tenant, ns, crd, cr, grants, left, restores, src, snap, pass, want, attested>>
    BY <1>3 DEF UsersReconciled, Graph
  <2>2. users' \subseteq Subjects
    BY <1>1, <1>3 DEF TypeOK, UsersReconciled
  <2>3. TypeOK' /\ SnapAgrees'
    BY <1>1, <2>1, <2>2 DEF TypeOK, SnapAgrees
  <2> QED
    BY <2>1, <2>3, Unseen
<1>4. CASE NamespaceCollected
  <2>1. UNCHANGED <<tenant, crd, cr, grants, left, restores, src, snap, users, want, attested>>
    BY <1>4 DEF NamespaceCollected, Outside
  <2>2. pass' \in [Passes -> Pass] /\ \A q \in Passes : Stays(q, OfNamespace)
    BY <1>1, <1>4, OutsideStep DEF NamespaceCollected
  <2>3. /\ ns' \in [on : {"none", "live", "ending"}, owned : BOOLEAN]
        /\ ns.on # "none" /\ ns'.on # "none" /\ ns'.owned = ns.owned
    BY <1>1, <1>4 DEF TypeOK, NamespaceCollected
  <2>4. TypeOK' /\ NsSound' /\ SnapAgrees'
    BY <1>1, <2>1, <2>2, <2>3 DEF TypeOK, NsSound, SnapAgrees
  <2>5. Seen(OfNamespace)
    BY <2>1, <2>3 DEF Seen, NsStep
  <2> QED
    BY <2>2, <2>4, <2>5, StepOutside
<1>5. CASE NamespaceEnds
  <2>1. UNCHANGED <<tenant, crd, grants, left, restores, src, snap, users, want, attested>>
    BY <1>5 DEF NamespaceEnds, Outside
  <2>2. pass' \in [Passes -> Pass] /\ \A q \in Passes : Stays(q, OfNamespace)
    BY <1>1, <1>5, OutsideStep DEF NamespaceEnds
  <2>3. /\ ns' \in [on : {"none", "live", "ending"}, owned : BOOLEAN]
        /\ ns'.on = "none" /\ ~ns'.owned /\ cr' \in BOOLEAN
    BY <1>5 DEF NamespaceEnds, NoNamespace
  <2>4. TypeOK' /\ NsSound' /\ SnapAgrees'
    BY <1>1, <2>1, <2>2, <2>3 DEF TypeOK, NsSound, SnapAgrees
  <2>5. Seen(OfNamespace)
    BY <2>1, <2>3 DEF Seen, NsStep
  <2> QED
    BY <2>2, <2>4, <2>5, StepOutside
<1>6. CASE DefinitionServed
  <2>1. UNCHANGED <<tenant, ns, cr, grants, left, restores, src, snap, users, pass, want, attested>>
    BY <1>6 DEF DefinitionServed, Outside
  <2>2. TypeOK' /\ SnapAgrees'
    <3>1. crd' = "established"
      BY <1>6 DEF DefinitionServed
    <3>2. TypeOK'
      BY <1>1, <2>1, <3>1 DEF TypeOK
    <3>3. SnapAgrees'
      BY <1>1, <2>1 DEF SnapAgrees
    <3> QED
      BY <3>2, <3>3
  <2> QED
    BY <2>1, <2>2, Unseen
<1> QED
  BY <1>2, <1>3, <1>4, <1>5, <1>6 DEF Destination

\* The operators of both clusters: every write is seen by the passes.
LEMMA OperatorsKeep ==
    ASSUME GraphInv, Operators
    PROVE  GraphInv'
<1>1. TypeOK /\ NsSound /\ SnapAgrees
  BY DEF GraphInv
<1>2. CASE SourceChanges
  <2>1. UNCHANGED <<tenant, ns, crd, cr, grants, restores, snap, users, pass, want, attested>>
    BY <1>2 DEF SourceChanges, Graph
  <2>2. src' \in Items /\ src'.tenanted = src.tenanted
    <3>1. PICK k \in Changing, st \in ItemState : src' = [src EXCEPT !.obj[k] = st]
      BY <1>2 DEF SourceChanges
    <3>2. k \in Kinds
      BY GraphAssumption DEF Kinds
    <3> QED
      BY <1>1, <3>1, <3>2 DEF TypeOK, Items
  <2>3. left' \in 0 .. MaxEvents
    BY <1>1, <1>2, EventTyped DEF SourceChanges
  <2>4. TypeOK' /\ SnapAgrees'
    BY <1>1, <2>1, <2>2, <2>3 DEF TypeOK, SnapAgrees
  <2> QED
    BY <2>1, <2>2, <2>4, Unseen
<1>3. CASE OperatorEdits
  <2>1. UNCHANGED <<ns, crd, cr, grants, restores, src, snap, users, want, attested>>
    BY <1>3 DEF OperatorEdits
  <2>2. pass' \in [Passes -> Pass] /\ \A q \in Passes : Stays(q, OfTenant)
    BY <1>1, <1>3, OutsideStep DEF OperatorEdits
  <2>3. tenant' \in [on : BOOLEAN, owners : SUBSET Subjects, admitted : SUBSET Subjects]
    <3>1. PICK o \in Guests \union {Caller} :
            tenant' = [tenant EXCEPT !.owners = IF o \in @ THEN @ \ {o} ELSE @ \union {o}]
      BY <1>3 DEF OperatorEdits
    <3>2. o \in Subjects
      BY DEF Subjects
    <3> QED
      BY <1>1, <3>1, <3>2 DEF TypeOK
  <2>4. left' \in 0 .. MaxEvents
    BY <1>1, <1>3, EventTyped DEF OperatorEdits
  <2>5. TypeOK' /\ NsSound' /\ SnapAgrees'
    BY <1>1, <2>1, <2>2, <2>3, <2>4 DEF TypeOK, NsSound, SnapAgrees
  <2>6. Seen(OfTenant)
    BY <2>1 DEF Seen, NsStep
  <2> QED
    BY <2>2, <2>5, <2>6, StepOutside
<1>4. CASE OperatorDeletesNamespace
  <2>1. UNCHANGED <<tenant, crd, cr, grants, restores, src, snap, users, want, attested>>
    BY <1>4 DEF OperatorDeletesNamespace
  <2>2. pass' \in [Passes -> Pass] /\ \A q \in Passes : Stays(q, OfNamespace)
    BY <1>1, <1>4, OutsideStep DEF OperatorDeletesNamespace
  <2>3. /\ ns' \in [on : {"none", "live", "ending"}, owned : BOOLEAN]
        /\ ns.on # "none" /\ ns'.on # "none" /\ ns'.owned = ns.owned
    BY <1>1, <1>4 DEF TypeOK, OperatorDeletesNamespace
  <2>4. left' \in 0 .. MaxEvents
    BY <1>1, <1>4, EventTyped DEF OperatorDeletesNamespace
  <2>5. TypeOK' /\ NsSound' /\ SnapAgrees'
    BY <1>1, <2>1, <2>2, <2>3, <2>4 DEF TypeOK, NsSound, SnapAgrees
  <2>6. Seen(OfNamespace)
    BY <2>1, <2>3 DEF Seen, NsStep
  <2> QED
    BY <2>2, <2>5, <2>6, StepOutside
<1>5. CASE CaptureAndRestore
  <2>1. UNCHANGED <<tenant, ns, crd, cr, grants, left, src, users, pass, attested>>
    BY <1>5 DEF CaptureAndRestore, Graph
  <2>2. snap' = src /\ want' = TRUE /\ restores' \in 0 .. MaxRestores
    BY <1>1, <1>5, GraphAssumption DEF CaptureAndRestore, Listed, TypeOK
  <2>3. TypeOK' /\ SnapAgrees'
    BY <1>1, <2>1, <2>2 DEF TypeOK, SnapAgrees
  <2> QED
    BY <2>1, <2>3, Unseen
<1> QED
  BY <1>2, <1>3, <1>4, <1>5 DEF Operators

-----------------------------------------------------------------------------
(* The theorems *)

\* At the start no pass runs.
LEMMA InitGraph == Init => GraphInv
<1> SUFFICES ASSUME Init PROVE GraphInv
  OBVIOUS
<1>1. pass = [p \in Passes |-> NoPass] /\ pass \in [Passes -> Pass]
  BY NoPassTyped DEF Init
<1>2. src \in Items
  BY DEF Init, Items, ItemState, Subjects
<1>3. snap \in Items /\ tenant \in [on : BOOLEAN, owners : SUBSET Subjects, admitted : SUBSET Subjects]
  BY DEF Init, NoItems, NoTenant, Items, ItemState
<1>4. ns \in [on : {"none", "live", "ending"}, owned : BOOLEAN] /\ ~ns.owned
  <2>1. PICK o \in {"none", "live"} : ns = [on |-> o, owned |-> FALSE]
    BY DEF Init, NoNamespace
  <2>2. ~ns.owned
    BY <2>1
  <2> QED
    BY <2>1, <2>2
<1>5. grants \in [{"primary", "alt"} -> Subjects \union {NoOne}]
  BY DEF Init
<1>6. TypeOK
  <2>1. left \in 0 .. MaxEvents /\ restores \in 0 .. MaxRestores
    BY GraphAssumption DEF Init
  <2>2. want \in BOOLEAN /\ attested \in BOOLEAN /\ cr \in BOOLEAN
    BY DEF Init
  <2>3. crd \in {"none", "new", "established"} /\ users \subseteq Subjects
    BY DEF Init
  <2> QED
    BY <1>1, <1>2, <1>3, <1>4, <1>5, <2>1, <2>2, <2>3 DEF TypeOK
<1>7. NsSound /\ SnapAgrees
  BY <1>4 DEF NsSound, SnapAgrees, Init
<1>8. ASSUME NEW p \in Passes PROVE Sound(p)
  <2>1. pass[p].at = "idle"
    BY <1>1 DEF NoPass
  <2> QED
    BY <2>1 DEF Sound, KeepsOwners, KeepsReference, Agrees, Adopts, OfTenant, OfNamespace, Past
<1> QED
  BY <1>6, <1>7, <1>8 DEF GraphInv

\* Every step keeps the invariant.
LEMMA NextKeeps ==
    ASSUME GraphInv, [Next]_vars
    PROVE  GraphInv'
<1>1. ASSUME NEW p \in Passes, PassStep(p) PROVE GraphInv'
  BY <1>1, BeginKeeps, TenantPutKeeps, SyncNamespaceKeeps, OwnerPutKeeps, PickTenantOwnerKeeps,
     CreateTenantOwnerKeeps, CreateNamespaceKeeps, NamespacePutKeeps, SyncCRDKeeps,
     SyncOthersKeeps, FinishKeeps DEF PassStep
<1>2. ASSUME NEW p \in Passes, CallFails(p) PROVE GraphInv'
  BY <1>2, CallFailsKeeps
<1>3. ASSUME NEW p \in Passes, Restart(p) PROVE GraphInv'
  BY <1>3, RestartKeeps
<1>5. ASSUME NEW p \in Passes, TenantCallFails(p) PROVE GraphInv'
  BY <1>5, TenantCallFailsKeeps
<1>4. CASE UNCHANGED vars
  <2>1. UNCHANGED <<left, restores, src, snap, want, tenant, ns, crd, cr, grants, users, pass, attested>>
    BY <1>4 DEF vars
  <2>2. TypeOK' /\ SnapAgrees'
    BY <2>1 DEF GraphInv, TypeOK, SnapAgrees
  <2> QED
    BY <2>1, <2>2, Unseen
<1> QED
  BY <1>1, <1>2, <1>3, <1>4, <1>5, DestinationKeeps, OperatorsKeep DEF Next

\* What a pass has read and is about to write back is current or will be
\* refused, and past the namespace without an error it has its Tenant
\* (updateWithRetry, ensureTenantSpecOwner, syncNamespace).
THEOREM GraphInvariance == Spec => []GraphInv
<1>1. Init => GraphInv
  BY InitGraph
<1>2. GraphInv /\ [Next]_vars => GraphInv'
  BY NextKeeps
<1> QED
  BY <1>1, <1>2, PTL DEF Spec

\* Type correctness of the object graph: every variable has its type.
THEOREM GraphTyped == Spec => []TypeOK
<1>1. GraphInv => TypeOK
  BY DEF GraphInv
<1> QED
  BY <1>1, GraphInvariance, PTL

\* The mirror of the source Tenant and the registration of the caller never
\* drop an owner of the destination Tenant (KeepDestTenantOwners,
\* ensureTenantSpecOwnerOnce), with any number of owners and attempts.
THEOREM GrantsStay == Spec => GrantsKept
<1>1. ASSUME GraphInv, Next, tenant.on, tenant'.on, left' = left
      PROVE  tenant.owners \subseteq tenant'.owners
  <2>1. TypeOK /\ left' # left - 1
    BY <1>1 DEF GraphInv, TypeOK
  <2>2. tenant' = tenant \/ (\E p \in Passes : TenantPut(p) \/ OwnerPut(p)) \/ TenantReconciled
          \/ \E p \in Passes : Begin(p)
    BY <1>1, <2>1 DEF Next, PassStep, CallFails, TenantCallFails, Restart, Destination, Operators, SyncNamespace,
       PickTenantOwner, CreateTenantOwner, CreateNamespace, NamespacePut, SyncCRD, SyncOthers, Finish,
       UsersReconciled, NamespaceCollected, NamespaceEnds, DefinitionServed, SourceChanges,
       OperatorEdits, OperatorDeletesNamespace, CaptureAndRestore, Graph, Outside, Event
  <2>3. ASSUME NEW p \in Passes, TenantPut(p) \/ OwnerPut(p)
        PROVE  tenant.owners \subseteq tenant'.owners
    <3>1. pass[p].at \in OfTenant
      BY <2>3 DEF TenantPut, OwnerPut, At, OfTenant
    <3>2. pass[p].fresh => tenant.owners \subseteq pass[p].owners
      BY <1>1, <3>1 DEF GraphInv, Sound, KeepsOwners
    <3> QED
      BY <2>1, <2>3, <3>2 DEF TenantPut, OwnerPut, TypeOK
  <2>4. CASE TenantReconciled
    BY <2>1, <2>4 DEF TenantReconciled, TypeOK
  <2>5. ASSUME NEW p \in Passes, Begin(p)
        PROVE  tenant.owners \subseteq tenant'.owners
    <3>1. tenant' = tenant \/ tenant' = NoTenant \/ ~tenant.on
      BY <2>5 DEF Begin
    <3>2. ~NoTenant.on
      BY DEF NoTenant
    <3> QED
      BY <1>1, <3>1, <3>2
  <2> QED
    BY <2>2, <2>3, <2>4, <2>5
<1>2. ASSUME GraphInv, [Next]_vars
      PROVE  [tenant.on /\ tenant'.on /\ left' = left => tenant.owners \subseteq tenant'.owners]_vars
  BY <1>1, <1>2
<1> QED
  BY <1>2, GraphInvariance, PTL DEF Spec, GrantsKept

\* No update of a namespace removes its Tenant ownerReference
\* (KeepDestCapsuleOwners, updateWithRetry).
THEOREM ReferenceStays == Spec => OwnedStays
<1>1. ASSUME GraphInv, Next, ns.owned, ~ns'.owned
      PROVE  ns'.on = "none"
  <2>1. TypeOK /\ ns.on # "none"
    BY <1>1 DEF GraphInv, NsSound
  <2>2. \/ ns' = ns \/ \E p \in Passes : SyncNamespace(p) \/ CreateNamespace(p) \/ NamespacePut(p)
        \/ NamespaceCollected \/ NamespaceEnds \/ OperatorDeletesNamespace
    BY <1>1 DEF Next, PassStep, CallFails, TenantCallFails, Restart, Destination, Operators, Begin, TenantPut, OwnerPut,
       PickTenantOwner, CreateTenantOwner, SyncCRD, SyncOthers, Finish, TenantReconciled,
       UsersReconciled, DefinitionServed, SourceChanges, OperatorEdits, CaptureAndRestore, Graph
  <2>3. ASSUME NEW p \in Passes, SyncNamespace(p) \/ CreateNamespace(p) \/ NamespacePut(p)
        PROVE  ns'.owned = ns.owned
    <3>1. CASE SyncNamespace(p)
      BY <2>1, <3>1 DEF SyncNamespace, TypeOK
    <3>2. CASE CreateNamespace(p)
      BY <2>1, <3>2 DEF CreateNamespace
    <3>3. CASE NamespacePut(p)
      <4>1. pass[p].fresh => pass[p].owned = ns.owned
        BY <1>1, <2>1, <3>3 DEF GraphInv, Sound, KeepsReference, NamespacePut, At, OfNamespace
      <4> QED
        BY <2>1, <3>3, <4>1 DEF NamespacePut, TypeOK
    <3> QED
      BY <2>3, <3>1, <3>2, <3>3
  <2>4. CASE NamespaceCollected \/ NamespaceEnds \/ OperatorDeletesNamespace
    BY <1>1, <2>1, <2>4 DEF NamespaceCollected, NamespaceEnds, OperatorDeletesNamespace, NoNamespace, TypeOK
  <2> QED
    BY <1>1, <2>2, <2>3, <2>4
<1>2. ASSUME GraphInv, [Next]_vars
      PROVE  [ns.owned /\ ~ns'.owned => ns'.on = "none"]_vars
  BY <1>1, <1>2
<1> QED
  BY <1>2, GraphInvariance, PTL DEF Spec, OwnedStays

\* A pass attests a namespace of a Tenant only with its ownerReference: the
\* error of one that Capsule will not adopt is not lost on the way to Attest
\* (syncNamespace, Sync, Attest).
THEOREM AttestOwned == Spec => AttestedMeansOwned
<1>1. ASSUME GraphInv, Next, ~attested, attested', pass["replicate"].items.obj["ns"] = "live",
             pass["replicate"].items.tenanted
      PROVE  ns.owned
  <2>1. Finish("replicate") /\ "replicate" \in Passes
    <3>1. attested' # attested
      BY <1>1
    <3>2. \E p \in Passes : Finish(p)
      BY <1>1, <3>1 DEF Next, PassStep, CallFails, TenantCallFails, Restart, Destination, Operators, Begin, TenantPut, OwnerPut,
         SyncNamespace, CreateNamespace, NamespacePut, NamespaceCollected, NamespaceEnds,
         OperatorDeletesNamespace, PickTenantOwner, CreateTenantOwner, SyncCRD, SyncOthers, TenantReconciled,
         UsersReconciled, DefinitionServed, SourceChanges, OperatorEdits, CaptureAndRestore
    <3> QED
      BY <3>1, <3>2 DEF Finish, Passes
  <2>2. Attest("replicate")
    BY <1>1, <2>1 DEF Finish
  <2>3. ~pass["replicate"].err /\ ns.on # "none" /\ pass["replicate"].at \in Past
    BY <1>1, <2>1, <2>2 DEF Attest, Kinds, Present, Finish, At, Past
  <2> QED
    BY <1>1, <2>1, <2>3 DEF GraphInv, Sound, Adopts
<1>2. ASSUME GraphInv, [Next]_vars
      PROVE  [~attested /\ attested' =>
                LET it == pass["replicate"].items
                IN  it.obj["ns"] = "live" /\ it.tenanted => ns.owned]_vars
  BY <1>1, <1>2
<1> QED
  BY <1>2, GraphInvariance, PTL DEF Spec, AttestedMeansOwned
=============================================================================
