------------------------- MODULE CustomResourcesProofs -------------------------
(***************************************************************************)
(* Proofs about CustomResources: for any tenants, kinds and CRDs, any      *)
(* number of callers, and a lister as far behind upstream as it may be.    *)
(***************************************************************************)
EXTENDS CustomResources, TenantNamesProofs

Event == [type : {"added", "deleted"}, crd : CRD]

Ref == [group : Name, kind : STRING, tenant : Tenant, by : {"tenant", "platform"},
        written : Name]

Call == [step : {"own", "all", "done"}, inbound : BOOLEAN, ref : Ref,
         answer : {"none", "native", "own", "platform", "error"},
         namespaced : BOOLEAN, steady : BOOLEAN]

Typed ==
    /\ crds \subseteq CRD /\ lister \subseteq CRD /\ events \in Seq(Event)
    /\ refs \subseteq Ref
    /\ call \in [Caller -> Call \cup {NoCall}]

\* What a reference says upstream of what was written: a tenant's is a native
\* group or its own with the prefix, and the platform's has no tenant's prefix.
Kept(r) ==
    /\ r.by = "tenant" =>
          \/ IsNative(r.group, r.kind) /\ r.written = r.group
          \/ r.group = AddTenantIDPrefix(r.tenant, r.written)
    /\ r.by = "platform" =>
          r.written = r.group /\ \A t \in Tenant : ~HasTenantPrefix(t, r.group)

\* A lookup looks for a reference as a tenant writes it, or for one that is stored.
Asked(k) ==
    /\ k.inbound => k.ref.by = "tenant" /\ k.ref.written = k.ref.group
    /\ ~k.inbound => Kept(k.ref)

\* The steps of a lookup and what it may answer in them.
InOrder(k) ==
    /\ k.step = "done" <=> k.answer # "none"
    /\ k.inbound => k.step # "all" /\ k.answer # "platform"

\* What an answer says of the reference, whatever the lister knows by now ...
Says(k) ==
    /\ k.answer = "native" => IsNative(k.ref.group, k.ref.kind)
    /\ k.answer = "own" => HasTenantPrefix(k.ref.tenant, lookupGroup(k.ref, k.inbound))

\* ... and while the lister is the one that was asked: the second list is read
\* only if the tenant's CRDs do not have the reference.
SaysSteadily(k) ==
    /\ k.step = "all" =>
          Matching(ListCRDsForTenant(k.ref.tenant), k.ref.group, k.ref.kind) = {}
    /\ k.answer = "platform" => ~HasTenantPrefix(k.ref.tenant, k.ref.group)
    /\ k.answer \in {"own", "platform"} =>
          \E crd \in lister : /\ crd.kind = k.ref.kind /\ crd.namespaced = k.namespaced
                              /\ crd.group = lookupGroup(k.ref, k.inbound)

GoodCall(k) ==
    k # NoCall => Asked(k) /\ InOrder(k) /\ Says(k) /\ (k.steady => SaysSteadily(k))

RefInv == \A r \in refs : Kept(r)
CallInv == \A c \in Caller : GoodCall(call[c])

IInv == Typed /\ RefInv /\ CallInv

-----------------------------------------------------------------------------

LEMMA CRDsAreNamed ==
    \A crd \in CRD : crd.group \in Name /\ crd.kind \in STRING /\ crd.namespaced \in BOOLEAN
  BY CRDAssumption DEF CRDName

LEMMA NoCallIsIdle == NoCall.step = "idle" /\ \A k \in Call : k # NoCall
  BY DEF NoCall, Call

\* What is left to show of a step that changes the lookup of one caller.
LEMMA OneCallChanges ==
    ASSUME Typed, CallInv, NEW c \in Caller, NEW k, k \in Call \cup {NoCall}, GoodCall(k),
           call' = [call EXCEPT ![c] = k], UNCHANGED <<crds, lister, events>>, refs' \subseteq Ref
    PROVE  Typed' /\ CallInv'
<1>1. call' \in [Caller -> Call \cup {NoCall}]
  BY DEF Typed
<1>2. Typed'
  BY <1>1 DEF Typed
<1>3. \A d \in Caller : call'[d] = IF d = c THEN k ELSE call[d]
  BY DEF Typed
<1>4. ASSUME NEW d \in Caller PROVE GoodCall(call[d])'
  <2>1. GoodCall(call'[d])
    BY <1>3 DEF CallInv
  <2> QED
    BY <2>1 DEF GoodCall, Asked, Kept, InOrder, Says, SaysSteadily, ListCRDsForTenant,
                Matching
<1> QED  BY <1>2, <1>4 DEF CallInv

LEMMA BeginKeeps ==
    ASSUME IInv, NEW c \in Caller, NEW ref \in Ref, NEW inbound \in BOOLEAN,
           Begin(c, ref, inbound),
           inbound => ref.by = "tenant" /\ ref.written = ref.group,
           ~inbound => Kept(ref)
    PROVE  IInv'
<1> USE DEF IInv
<1> DEFINE native == IsNative(ref.group, ref.kind)
           k == [step |-> IF native THEN "done" ELSE "own", inbound |-> inbound, ref |-> ref,
                 answer |-> IF native THEN "native" ELSE "none",
                 namespaced |-> IsGroupKindNamespaced(ref.group, ref.kind), steady |-> TRUE]
<1>1. call' = [call EXCEPT ![c] = k] /\ UNCHANGED <<crds, lister, events, refs>>
  BY DEF Begin
<1>2. k \in Call
  BY DEF Call, IsGroupKindNamespaced
<1>3. GoodCall(k)
  <2>1. Asked(k)
    BY DEF Asked
  <2>2. InOrder(k)
    BY DEF InOrder
  <2>3. Says(k) /\ SaysSteadily(k)
    BY DEF Says, SaysSteadily
  <2> QED  BY <2>1, <2>2, <2>3 DEF GoodCall
<1> HIDE DEF k
<1>4. Typed' /\ CallInv'
  BY <1>1, <1>2, <1>3, OneCallChanges DEF Typed
<1> QED  BY <1>1, <1>4 DEF RefInv, Kept

(***************************************************************************)
(* A lookup is at its first list, and then at its second.                  *)
(***************************************************************************)
LEMMA ReturnKeeps ==
    ASSUME IInv, NEW c \in Caller, call[c].step \in {"own", "all"},
           NEW answer \in {"own", "platform", "error"}, NEW namespaced \in BOOLEAN,
           Return(c, answer, namespaced), UNCHANGED <<crds, lister, events, refs>>,
           answer = "own" =>
              HasTenantPrefix(call[c].ref.tenant, lookupGroup(call[c].ref, call[c].inbound)),
           answer = "platform" =>
              ~call[c].inbound /\ (call[c].steady =>
                                     ~HasTenantPrefix(call[c].ref.tenant, call[c].ref.group)),
           answer \in {"own", "platform"} =>
              \E crd \in lister : /\ crd.kind = call[c].ref.kind /\ crd.namespaced = namespaced
                                  /\ crd.group = lookupGroup(call[c].ref, call[c].inbound)
    PROVE  IInv'
<1> USE DEF IInv
<1> DEFINE k == [call[c] EXCEPT !.step = "done", !.answer = answer, !.namespaced = namespaced]
<1>1. call[c] \in Call /\ GoodCall(call[c]) /\ call[c] # NoCall
  BY NoCallIsIdle DEF Typed, CallInv
<1>2. call' = [call EXCEPT ![c] = k]
  BY DEF Return, Typed
<1>3. /\ k \in Call /\ k.step = "done" /\ k.answer = answer /\ k.namespaced = namespaced
      /\ k.inbound = call[c].inbound /\ k.ref = call[c].ref /\ k.steady = call[c].steady
  BY <1>1 DEF Call
<1> HIDE DEF k
<1>4. Asked(k)
  BY <1>1, <1>3 DEF GoodCall, Asked
<1>5. InOrder(k)
  BY <1>3 DEF InOrder
<1>6. Says(k)
  BY <1>3 DEF Says
<1>7. k.steady => SaysSteadily(k)
  BY <1>3 DEF SaysSteadily
<1>8. GoodCall(k)
  BY <1>4, <1>5, <1>6, <1>7 DEF GoodCall
<1>9. Typed' /\ CallInv'
  BY <1>2, <1>3, <1>8, OneCallChanges DEF Typed
<1> QED  BY <1>9 DEF RefInv, Kept

LEMMA LookUpOwnKeeps ==
    ASSUME IInv, NEW c \in Caller, LookUpOwn(c)
    PROVE  IInv'
<1> USE DEF IInv
<1> DEFINE ref == call[c].ref
           own == Matching(ListCRDsForTenant(ref.tenant), lookupGroup(ref, call[c].inbound),
                           ref.kind)
<1>1. call[c].step = "own" /\ UNCHANGED <<crds, lister, events, refs>>
  BY DEF LookUpOwn
<1>2. call[c] \in Call /\ GoodCall(call[c]) /\ call[c] # NoCall
  BY <1>1, NoCallIsIdle DEF Typed, CallInv
<1>3. CASE \E crd \in own : Return(c, "own", crd.namespaced)
  <2>1. PICK crd \in own : Return(c, "own", crd.namespaced)
    BY <1>3
  <2>2. /\ crd \in lister /\ crd \in CRD /\ crd.kind = ref.kind
        /\ crd.group = lookupGroup(ref, call[c].inbound)
        /\ HasTenantPrefix(ref.tenant, crd.group)
    BY DEF Matching, ListCRDsForTenant, OwnedBy, Typed
  <2>3. crd.namespaced \in BOOLEAN
    BY <2>2, CRDsAreNamed
  <2> QED  BY <1>1, <2>1, <2>2, <2>3, ReturnKeeps
<1>4. CASE own = {} /\ call[c].inbound /\ Return(c, "error", FALSE)
  BY <1>1, <1>4, ReturnKeeps
<1>5. CASE own = {} /\ ~call[c].inbound /\ call' = [call EXCEPT ![c].step = "all"]
  <2> DEFINE k == [call[c] EXCEPT !.step = "all"]
  <2>1. call' = [call EXCEPT ![c] = k]
    BY <1>5 DEF Typed
  <2>2. /\ k \in Call /\ k.step = "all" /\ k.answer = call[c].answer
        /\ k.inbound = call[c].inbound /\ k.ref = ref /\ k.steady = call[c].steady
        /\ k.namespaced = call[c].namespaced
    BY <1>2 DEF Call
  <2> HIDE DEF k
  <2>3. call[c].answer = "none"
    BY <1>1, <1>2 DEF GoodCall, InOrder
  <2>4. Asked(k)
    BY <1>2, <2>2 DEF GoodCall, Asked
  <2>5. InOrder(k) /\ Says(k) /\ SaysSteadily(k)
    BY <1>5, <2>2, <2>3 DEF InOrder, Says, SaysSteadily, lookupGroup
  <2>6. GoodCall(k)
    BY <2>4, <2>5 DEF GoodCall
  <2>7. Typed' /\ CallInv'
    BY <1>1, <2>1, <2>2, <2>6, OneCallChanges DEF Typed
  <2> QED  BY <1>1, <2>7 DEF RefInv, Kept
<1> QED  BY <1>3, <1>4, <1>5 DEF LookUpOwn

LEMMA LookUpAllKeeps ==
    ASSUME IInv, NEW c \in Caller, LookUpAll(c)
    PROVE  IInv'
<1> USE DEF IInv
<1> DEFINE ref == call[c].ref
           all == Matching(lister, ref.group, ref.kind)
<1>1. call[c].step = "all" /\ UNCHANGED <<crds, lister, events, refs>>
  BY DEF LookUpAll
<1>2. call[c] \in Call /\ GoodCall(call[c]) /\ call[c] # NoCall
  BY <1>1, NoCallIsIdle DEF Typed, CallInv
<1>3. ~call[c].inbound /\ lookupGroup(ref, call[c].inbound) = ref.group
  BY <1>1, <1>2 DEF GoodCall, InOrder, lookupGroup
<1>4. CASE \E crd \in all : Return(c, "platform", crd.namespaced)
  <2>1. PICK crd \in all : Return(c, "platform", crd.namespaced)
    BY <1>4
  <2>2. crd \in lister /\ crd \in CRD /\ crd.kind = ref.kind /\ crd.group = ref.group
    BY DEF Matching, Typed
  <2>3. crd.namespaced \in BOOLEAN
    BY <2>2, CRDsAreNamed
  <2>4. call[c].steady => ~HasTenantPrefix(ref.tenant, ref.group)
    BY <1>1, <1>2, <2>2
    DEF GoodCall, SaysSteadily, Matching, ListCRDsForTenant, OwnedBy
  <2> QED  BY <1>1, <1>3, <2>1, <2>2, <2>3, <2>4, ReturnKeeps
<1>5. CASE all = {} /\ Return(c, "error", FALSE)
  BY <1>1, <1>5, ReturnKeeps
<1> QED  BY <1>4, <1>5 DEF LookUpAll

(***************************************************************************)
(* A lookup begins, for what a tenant writes or for what is stored.        *)
(***************************************************************************)
LEMMA WriteKeeps ==
    ASSUME IInv, NEW c \in Caller, Write(c)
    PROVE  IInv'
<1>1. PICK t \in Tenant, gk \in Reference :
         Begin(c, [group |-> gk[1], kind |-> gk[2], tenant |-> t,
                   by |-> "tenant", written |-> gk[1]], TRUE)
  BY DEF Write
<1> DEFINE ref == [group |-> gk[1], kind |-> gk[2], tenant |-> t,
                   by |-> "tenant", written |-> gk[1]]
<1>2. gk[1] \in Name /\ gk[2] \in STRING
  BY CRDAssumption
<1>3. ref \in Ref /\ ref.by = "tenant" /\ ref.written = ref.group
  BY <1>2 DEF Ref
<1> HIDE DEF ref
<1>4. Begin(c, ref, TRUE)
  BY <1>1 DEF ref
<1> QED  BY <1>3, <1>4, BeginKeeps

LEMMA ReadKeeps ==
    ASSUME IInv, NEW c \in Caller, Read(c)
    PROVE  IInv'
<1>1. PICK ref \in refs : Begin(c, ref, FALSE)
  BY DEF Read
<1>2. ref \in Ref /\ Kept(ref)
  BY DEF IInv, Typed, RefInv
<1> QED  BY <1>1, <1>2, BeginKeeps

(***************************************************************************)
(* What is stored when a lookup has answered.                              *)
(***************************************************************************)
LEMMA StoredIsKept ==
    ASSUME NEW k \in Call, Asked(k), InOrder(k), Says(k), k.step = "done", k.inbound,
           k.answer # "error"
    PROVE  Stored(k) \in Ref /\ Kept(Stored(k))
<1> DEFINE r == Stored(k)
           group == IF k.answer = "own" THEN AddTenantIDPrefix(k.ref.tenant, k.ref.group)
                    ELSE k.ref.group
<1>1. /\ k.ref \in Ref /\ k.ref.group \in Name /\ k.ref.tenant \in Tenant
      /\ k.ref.by = "tenant" /\ k.ref.written = k.ref.group
  BY DEF Call, Ref, Asked
<1>2. group \in Name
  BY <1>1, TrimUndoesAdd
<1> HIDE DEF group
<1>3. r = [k.ref EXCEPT !.group = group]
  BY DEF Stored, group
<1> HIDE DEF r
<1>4. /\ r \in Ref /\ r.group = group /\ r.kind = k.ref.kind /\ r.tenant = k.ref.tenant
      /\ r.by = "tenant" /\ r.written = k.ref.group
  BY <1>1, <1>2, <1>3 DEF Ref
<1>5. k.answer \in {"native", "own"}
  BY DEF InOrder, Call
<1>6. Kept(r)
  BY <1>4, <1>5 DEF Kept, Says, group
<1> QED  BY <1>4, <1>6 DEF r

LEMMA FinishKeeps ==
    ASSUME IInv, NEW c \in Caller, Finish(c)
    PROVE  IInv'
<1> USE DEF IInv
<1>1. /\ call[c].step = "done" /\ UNCHANGED <<crds, lister, events>>
      /\ call' = [call EXCEPT ![c] = NoCall]
      /\ refs' = IF call[c].inbound /\ call[c].answer # "error"
                 THEN refs \cup {Stored(call[c])} ELSE refs
  BY DEF Finish
<1>2. call[c] \in Call /\ GoodCall(call[c]) /\ call[c] # NoCall
  BY <1>1, NoCallIsIdle DEF Typed, CallInv
<1>3. ASSUME call[c].inbound, call[c].answer # "error"
      PROVE  Stored(call[c]) \in Ref /\ Kept(Stored(call[c]))
  BY <1>1, <1>2, <1>3, StoredIsKept DEF GoodCall
<1>4. refs' \subseteq Ref /\ \A r \in refs' : Kept(r)
  BY <1>1, <1>3 DEF Typed, RefInv
<1>5. Typed' /\ CallInv'
  BY <1>1, <1>4, OneCallChanges DEF GoodCall
<1> QED  BY <1>4, <1>5 DEF RefInv, Kept

(***************************************************************************)
(* CRDs come and go upstream, and the lister hears of it.                  *)
(***************************************************************************)
LEMMA UpstreamKeeps ==
    ASSUME IInv, NEW crd \in CRD, Install(crd) \/ Uninstall(crd)
    PROVE  IInv'
<1> USE DEF IInv
<1>1. PICK type \in {"added", "deleted"} :
         events' = Append(events, [type |-> type, crd |-> crd])
  BY DEF Install, Uninstall
<1>2. crds' \subseteq CRD /\ UNCHANGED <<lister, refs, call>>
  BY DEF Install, Uninstall, Typed
<1>3. [type |-> type, crd |-> crd] \in Event
  BY DEF Event
<1>4. events' \in Seq(Event)
  BY <1>1, <1>3, AppendProperties DEF Typed
<1>5. Typed'
  BY <1>2, <1>4 DEF Typed
<1>6. CallInv'
  BY <1>2 DEF CallInv, GoodCall, Asked, Kept, InOrder, Says, SaysSteadily,
              ListCRDsForTenant, Matching
<1> QED  BY <1>2, <1>5, <1>6 DEF RefInv, Kept

LEMMA DeliverKeeps ==
    ASSUME IInv, Deliver
    PROVE  IInv'
<1> USE DEF IInv
<1>1. /\ events # << >> /\ events' = Tail(events) /\ UNCHANGED <<crds, refs>>
      /\ lister' = IF Head(events).type = "added" THEN lister \cup {Head(events).crd}
                   ELSE lister \ {Head(events).crd}
      /\ call' = [c \in Caller |-> IF call[c] = NoCall THEN NoCall
                                   ELSE [call[c] EXCEPT !.steady = FALSE]]
  BY DEF Deliver
<1>2. events' \in Seq(Event) /\ Head(events) \in Event
  BY <1>1, HeadTailProperties DEF Typed
<1>3. lister' \subseteq CRD
  BY <1>1, <1>2 DEF Typed, Event
<1>4. ASSUME NEW c \in Caller
      PROVE  call'[c] \in Call \cup {NoCall} /\ GoodCall(call[c])'
  <2>1. CASE call[c] = NoCall
    BY <1>1, <2>1 DEF GoodCall
  <2>2. CASE call[c] # NoCall
    <3> DEFINE k == call'[c]
    <3>1. call[c] \in Call /\ GoodCall(call[c])
      BY <2>2 DEF Typed, CallInv
    <3>2. k = [call[c] EXCEPT !.steady = FALSE]
      BY <1>1, <2>2
    <3> HIDE DEF k
    <3>3. /\ k \in Call /\ k.step = call[c].step /\ k.answer = call[c].answer
          /\ k.inbound = call[c].inbound /\ k.ref = call[c].ref /\ k.steady = FALSE
      BY <3>1, <3>2 DEF Call
    <3>4. Asked(k) /\ InOrder(k) /\ Says(k)
      BY <2>2, <3>1, <3>3 DEF GoodCall, Asked, InOrder, Says
    <3> QED
      BY <3>3, <3>4 DEF k, GoodCall, Asked, Kept, InOrder, Says
  <2> QED  BY <2>1, <2>2
<1>5. Typed'
  BY <1>1, <1>2, <1>3, <1>4 DEF Typed
<1> QED  BY <1>1, <1>4, <1>5 DEF CallInv, RefInv, Kept

\* A reference of the platform's is to a group of its own.
LEMMA StampKeeps ==
    ASSUME IInv, NEW t \in Tenant, Stamp(t)
    PROVE  IInv'
<1> USE DEF IInv
<1>1. PICK crd \in crds \cap PlatformCRD :
         refs' = refs \cup {[group |-> crd.group, kind |-> crd.kind, tenant |-> t,
                             by |-> "platform", written |-> crd.group]}
  BY DEF Stamp
<1>2. UNCHANGED <<crds, lister, events, call>>
  BY DEF Stamp
<1> DEFINE r == [group |-> crd.group, kind |-> crd.kind, tenant |-> t,
                 by |-> "platform", written |-> crd.group]
<1>3. /\ crd.group \in Name /\ crd.kind \in STRING
      /\ \A u \in Tenant : ~HasTenantPrefix(u, crd.group)
  BY CRDsAreNamed DEF Typed, PlatformCRD, OwnedBy
<1>4. r \in Ref /\ Kept(r)
  BY <1>3 DEF Ref, Kept
<1> HIDE DEF r
<1>5. refs' = refs \cup {r}
  BY <1>1 DEF r
<1>6. Typed'
  BY <1>2, <1>4, <1>5 DEF Typed
<1>7. CallInv'
  BY <1>2 DEF CallInv, GoodCall, Asked, Kept, InOrder, Says, SaysSteadily,
              ListCRDsForTenant, Matching
<1> QED  BY <1>4, <1>5, <1>6, <1>7 DEF RefInv, Kept

LEMMA IInvInit == Init => IInv
<1> SUFFICES ASSUME Init PROVE IInv
  OBVIOUS
<1>1. PlatformCRD \subseteq CRD /\ << >> \in Seq(Event)
  BY EmptySeq DEF PlatformCRD
<1> QED  BY <1>1 DEF Init, IInv, Typed, RefInv, CallInv, GoodCall

LEMMA IInvStep == IInv /\ [Next]_vars => IInv'
<1> SUFFICES ASSUME IInv, [Next]_vars PROVE IInv'
  OBVIOUS
<1>1. CASE UNCHANGED vars
  BY <1>1 DEF vars, IInv, Typed, RefInv, CallInv, GoodCall, Asked, Kept, InOrder, Says,
              SaysSteadily, ListCRDsForTenant, Matching
<1> QED
  BY <1>1, UpstreamKeeps, DeliverKeeps, WriteKeeps, ReadKeeps, LookUpOwnKeeps,
     LookUpAllKeeps, FinishKeeps, StampKeeps DEF Next

LEMMA IInvHolds == Spec => []IInv
  BY IInvInit, IInvStep, PTL DEF Spec

-----------------------------------------------------------------------------

LEMMA NativeHasNoPrefix ==
    ASSUME NEW r \in Ref, IsNative(r.group, r.kind)
    PROVE  \A t \in Tenant : ~HasTenantPrefix(t, r.group)
<1>1. <<r.group, r.kind>> \in NativeKind
  BY DEF IsNative
<1>2. <<r.group, r.kind>>[1] = r.group
  OBVIOUS
<1> QED  BY <1>1, <1>2, CRDAssumption

\* A stored reference reads back as it was written if it is trimmed just when
\* it has the prefix of its tenant.
LEMMA ReadsBack ==
    ASSUME NEW k \in Call, Kept(k.ref),
           k.answer = "own" <=> HasTenantPrefix(k.ref.tenant, k.ref.group)
    PROVE  ReadBack(k) = k.ref.written
<1> DEFINE r == k.ref
<1>1. r \in Ref /\ r.group \in Name /\ r.written \in Name /\ r.tenant \in Tenant
  BY DEF Call, Ref
<1>2. r.by = "tenant" \/ r.by = "platform"
  BY <1>1 DEF Ref
<1>3. CASE r.group = AddTenantIDPrefix(r.tenant, r.written)
  BY <1>1, <1>3, TrimUndoesAdd DEF ReadBack
<1>4. CASE r.written = r.group /\ ~HasTenantPrefix(r.tenant, r.group)
  BY <1>4 DEF ReadBack
<1> QED  BY <1>1, <1>2, <1>3, <1>4, NativeHasNoPrefix DEF Kept

(***************************************************************************)
(* A tenant reads its own references back as it wrote them, and the        *)
(* platform's as they are, as long as the lister does not change between   *)
(* the two lists of the lookup.                                            *)
(***************************************************************************)
THEOREM ReferencesReadBack == Spec => []SteadyReadBack
<1>1. IInv => SteadyReadBack
  <2> SUFFICES ASSUME IInv, NEW c \in Caller, call[c] # NoCall, call[c].steady,
                      Answered(call[c]), ~call[c].inbound
               PROVE  ReadBack(call[c]) = call[c].ref.written
    BY DEF SteadyReadBack, AsWritten
  <2> DEFINE k == call[c]
  <2>1. /\ k \in Call /\ Kept(k.ref) /\ InOrder(k) /\ Says(k) /\ SaysSteadily(k)
    BY DEF IInv, Typed, CallInv, GoodCall, Asked
  <2>2. k.answer \in {"native", "own", "platform"}
    BY <2>1 DEF Answered, InOrder, Call
  <2>3. k.ref \in Ref /\ k.ref.tenant \in Tenant
    BY <2>1 DEF Call, Ref
  <2>4. k.answer = "own" <=> HasTenantPrefix(k.ref.tenant, k.ref.group)
    BY <2>1, <2>2, <2>3, NativeHasNoPrefix DEF Says, SaysSteadily, lookupGroup
  <2> QED  BY <2>1, <2>4, ReadsBack
<1> QED  BY <1>1, IInvHolds, PTL

(***************************************************************************)
(* What a tenant stores refers to a native kind or to its own, at every    *)
(* moment and however stale the lister was that let it in.                 *)
(***************************************************************************)
THEOREM NoForeignReference == Spec => []ReferencesStayHome
<1>1. IInv => ReferencesStayHome
  <2> SUFFICES ASSUME IInv, NEW r \in refs, r.by = "tenant"
               PROVE  IsNative(r.group, r.kind) \/ HasTenantPrefix(r.tenant, r.group)
    BY DEF ReferencesStayHome
  <2>1. Kept(r) /\ r.tenant \in Tenant /\ r.written \in Name
    BY DEF IInv, Typed, RefInv, Ref
  <2> QED  BY <2>1, TrimUndoesAdd DEF Kept
<1> QED  BY <1>1, IInvHolds, PTL

(***************************************************************************)
(* An answer that was found in the lister is about the CRD of the group    *)
(* and kind that are stored, and its scope is that CRD's.                  *)
(***************************************************************************)
THEOREM AnswersAreAboutTheReference == Spec => []AnswersForItsCRD
<1>1. IInv => AnswersForItsCRD
  <2> SUFFICES ASSUME IInv, NEW c \in Caller, call[c] # NoCall, call[c].steady,
                      call[c].answer \in {"own", "platform"}
               PROVE  \E crd \in lister :
                        /\ crd.kind = call[c].ref.kind
                        /\ crd.namespaced = call[c].namespaced
                        /\ crd.group = IF call[c].inbound THEN Stored(call[c]).group
                                       ELSE call[c].ref.group
    BY DEF AnswersForItsCRD
  <2> DEFINE k == call[c]
  <2>1. k \in Call /\ InOrder(k) /\ SaysSteadily(k)
    BY DEF IInv, Typed, CallInv, GoodCall
  <2>2. k.inbound => k.answer = "own"
    BY <2>1 DEF InOrder
  <2>3. k.answer = "own" =>
           Stored(k).group = AddTenantIDPrefix(k.ref.tenant, k.ref.group)
    BY <2>1 DEF Stored, Call, Ref
  <2> QED  BY <2>1, <2>2, <2>3 DEF SaysSteadily, lookupGroup
<1> QED  BY <1>1, IInvHolds, PTL

(***************************************************************************)
(* With the lister changing under the lookup, too, only an answer that it  *)
(* is the platform's may read a reference back in other words: a CRD of    *)
(* the tenant's that appears between the two lists is taken for one of the *)
(* platform's, and no other race is lost.                                  *)
(***************************************************************************)
OnlyThePlatformsAnswerErrs ==
    \A c \in Caller :
        call[c] # NoCall /\ call[c].answer # "platform" => AsWritten(call[c])

THEOREM OtherAnswersReadBack == Spec => []OnlyThePlatformsAnswerErrs
<1>1. IInv => OnlyThePlatformsAnswerErrs
  <2> SUFFICES ASSUME IInv, NEW c \in Caller, call[c] # NoCall, call[c].answer # "platform",
                      Answered(call[c]), ~call[c].inbound
               PROVE  ReadBack(call[c]) = call[c].ref.written
    BY DEF OnlyThePlatformsAnswerErrs, AsWritten
  <2> DEFINE k == call[c]
  <2>1. k \in Call /\ Kept(k.ref) /\ InOrder(k) /\ Says(k)
    BY DEF IInv, Typed, CallInv, GoodCall, Asked
  <2>2. k.answer \in {"native", "own"} /\ k.ref \in Ref
    BY <2>1 DEF Answered, InOrder, Call
  <2>3. k.answer = "own" <=> HasTenantPrefix(k.ref.tenant, k.ref.group)
    BY <2>1, <2>2, NativeHasNoPrefix DEF Says, lookupGroup, Ref
  <2> QED  BY <2>1, <2>3, ReadsBack
<1> QED  BY <1>1, IInvHolds, PTL

=============================================================================
