----------------------------- MODULE TenantWire -----------------------------
(***************************************************************************)
(* The generated marshallers of the Tenant API: for every message what     *)
(* MarshalToSizedBuffer writes (…Bytes), what Size says it will (…Size)    *)
(* and what Unmarshal reads (…Unmarshal).  The three are generated from    *)
(* the Go types separately and know only the fields they were generated    *)
(* from.                                                                   *)
(*                                                                         *)
(* Strings and the messages of other modules (ObjectMeta, ListMeta,        *)
(* Duration, Quantity) are byte strings; a pointer is a sequence, empty    *)
(* when nil; the map of a quota is a pointer to a function, one of the     *)
(* ResourceLists.                                                          *)
(***************************************************************************)
EXTENDS Wire, Functions

CONSTANT ResourceLists

ASSUME ResourceListsAssumption ==
    \A hard \in ResourceLists : DOMAIN hard \subseteq Bytes /\ hard \in [DOMAIN hard -> Bytes]

TenantCapacities == [MaxNamespaces : Pointer(Int32), MaxClusterRoleBindings : Pointer(Int32),
                     MaxCRDs : Pointer(Int32)]
TenantStatuses == [Online : BOOLEAN]
TenantSuspensions == [Mode : Bytes, Reason : Bytes]
TenantQuotas == [Hard : Pointer(ResourceLists)]
TenantSpecs == [ID : Int32, Quota : TenantQuotas, Suspension : Pointer(TenantSuspensions),
                CredentialValidity : Pointer(Bytes), Capacity : Pointer(TenantCapacities)]
Tenants == [ObjectMeta : Bytes, Spec : TenantSpecs, Status : TenantStatuses]
TenantLists == [ListMeta : Bytes, Items : Seq(Tenants)]

\* Another module's message read over the one held: absent bytes leave it.
Foreign(old, bytes) == IF bytes = <<>> THEN old ELSE bytes

\* The zero value of each message, which Reset gives back.
Reset ==
    LET quota == [Hard |-> <<>>]
        spec == [ID |-> 0, Quota |-> quota, Suspension |-> <<>>,
                 CredentialValidity |-> <<>>, Capacity |-> <<>>]
        status == [Online |-> FALSE]
    IN [Tenant           |-> [ObjectMeta |-> <<>>, Spec |-> spec, Status |-> status],
        TenantList       |-> [ListMeta |-> <<>>, Items |-> <<>>],
        TenantSpec       |-> spec,
        TenantSuspension |-> [Mode |-> <<>>, Reason |-> <<>>],
        TenantCapacity   |-> [MaxNamespaces |-> <<>>, MaxClusterRoleBindings |-> <<>>,
                              MaxCRDs |-> <<>>]]

-----------------------------------------------------------------------------
(* TenantCapacity, TenantStatus, TenantSuspension.                         *)

TenantCapacityBytes(m) ==
    LET limit(tag, p) == IF p = <<>> THEN <<>> ELSE VarintField(tag, Word(p[1]))
    IN limit(8, m.MaxNamespaces) \o limit(16, m.MaxClusterRoleBindings) \o limit(24, m.MaxCRDs)
TenantCapacitySize(m) ==
    LET limit(p) == IF p = <<>> THEN 0 ELSE VarintSize(Word(p[1]))
    IN limit(m.MaxNamespaces) + limit(m.MaxClusterRoleBindings) + limit(m.MaxCRDs)
TenantCapacitySet(m, f) ==
    CASE f.num = 1 -> [m EXCEPT !.MaxNamespaces = <<Signed(f.v.val, IntSize)>>]
      [] f.num = 2 -> [m EXCEPT !.MaxClusterRoleBindings = <<Signed(f.v.val, IntSize)>>]
      [] f.num = 3 -> [m EXCEPT !.MaxCRDs = <<Signed(f.v.val, IntSize)>>]
TenantCapacityUnmarshal(m, d) == SetAll(TenantCapacitySet, m, Fields(d, <<0, 0, 0>>))

TenantStatusBytes(m) == <<8, IF m.Online THEN 1 ELSE 0>>
TenantStatusSize(m) == 2
TenantStatusSet(m, f) == [m EXCEPT !.Online = f.v.val # 0]
TenantStatusUnmarshal(m, d) == SetAll(TenantStatusSet, m, Fields(d, <<0>>))

TenantSuspensionBytes(m) == BytesField(10, m.Mode) \o BytesField(18, m.Reason)
TenantSuspensionSize(m) == BytesSize(Len(m.Mode)) + BytesSize(Len(m.Reason))
TenantSuspensionSet(m, f) ==
    CASE f.num = 1 -> [m EXCEPT !.Mode = f.v.val]
      [] f.num = 2 -> [m EXCEPT !.Reason = f.v.val]
TenantSuspensionUnmarshal(m, d) == SetAll(TenantSuspensionSet, m, Fields(d, <<2, 2>>))

-----------------------------------------------------------------------------
(* TenantQuota: a map, written as one entry message per key.               *)

StringLess(a, b) ==
    \E k \in 1..Len(b) :
        /\ \A j \in 1..(k - 1) : j <= Len(a) /\ a[j] = b[j]
        /\ k > Len(a) \/ a[k] < b[k]

\* The orders a runtime may range over the maps in: order[K] is the one for the
\* maps with the keys K.
OrdersOf(K) == {s \in Seq(K) : /\ \A k \in K : \E n \in DOMAIN s : s[n] = k
                              /\ \A n, o \in DOMAIN s : s[n] = s[o] => n = o}
IsMapOrder(order) ==
    \A hard \in ResourceLists : order[DOMAIN hard] \in OrdersOf(DOMAIN hard)

\* Mutant: the keys are written as they are ranged over.
KeysAsRanged(hard, order) == order[DOMAIN hard]

\* sort.Strings puts the keys it is given in order.
Strings(keys) ==
    LET order == CHOOSE order \in Bijection(DOMAIN keys, DOMAIN keys) :
            \A n, o \in DOMAIN keys : n < o => ~StringLess(keys[order[o]], keys[order[n]])
    IN [n \in DOMAIN keys |-> keys[order[n]]]

keysForHard(hard, order) == Strings(order[DOMAIN hard])

EntryBytes(key, value) == BytesField(10, key) \o BytesField(18, value)
TenantQuotaBytes(m, order) ==
    IF m.Hard = <<>> THEN <<>>
    ELSE LET hard == m.Hard[1]
         IN BytesFields(10, Each(LAMBDA k : EntryBytes(k, hard[k]), keysForHard(hard, order)))
EntrySize(key, value) == BytesSize(Len(key)) + BytesSize(Len(value))
TenantQuotaSize(m, order) ==
    IF m.Hard = <<>> THEN 0
    ELSE LET hard == m.Hard[1]
         IN SizesSum(Each(LAMBDA k : EntrySize(k, hard[k]), order[DOMAIN hard]))

\* One entry, the bytes of d from offset from to offset post.  Its fields are
\* told by their numbers alone and bounded by the end of d, not of the entry.
EntryMemberAt(d, post, i) ==
    LET member(t) ==
            IF ~t.ok THEN NotOk
            ELSE IF t.num \in {1, 2} THEN Member(t.num, d, ReadBytes(d, t.next))
            ELSE Skipped(skipGenerated(d, i), post)
    IN member(Tag(d, i))
EntrySet(e, f) ==
    CASE f.num = 1 -> [e EXCEPT !.key = f.v.val]
      [] f.num = 2 -> [e EXCEPT !.value = f.v.val]
MapEntry(d, from, post) ==
    SetAll(EntrySet, [key |-> <<>>, value |-> <<>>],
           MembersBy([i \in Nat |-> EntryMemberAt(d, post, i)], from, post))

\* The map is allocated by its first entry.
WithEntry(m, e) ==
    LET hard == IF m.Hard = <<>> THEN <<>> ELSE m.Hard[1]
        set == [k \in DOMAIN hard \cup {e.key} |-> IF k = e.key THEN e.value ELSE hard[k]]
    IN IF e = NotOk THEN NotOk ELSE [m EXCEPT !.Hard = <<set>>]

TenantQuotaSet(m, f) == WithEntry(m, MapEntry(f.d, f.v.from, f.v.next))
TenantQuotaUnmarshal(m, d) == SetAll(TenantQuotaSet, m, Fields(d, <<2>>))

-----------------------------------------------------------------------------
(* TenantSpec, Tenant, TenantList.                                         *)

TenantSpecBytes(m, order) ==
    VarintField(8, Word(m.ID)) \o BytesField(18, TenantQuotaBytes(m.Quota, order))
    \o BytesFields(26, Each(TenantSuspensionBytes, m.Suspension))
    \o BytesFields(34, m.CredentialValidity)
    \o BytesFields(42, Each(TenantCapacityBytes, m.Capacity))
\* Mutant: Size was generated before the type had CredentialValidity.
TenantSpecSizeStale(m, order) ==
    VarintSize(Word(m.ID)) + BytesSize(TenantQuotaSize(m.Quota, order))
    + SizesSum(Each(TenantSuspensionSize, m.Suspension))
    + SizesSum(Each(TenantCapacitySize, m.Capacity))
TenantSpecSize(m, order) ==
    VarintSize(Word(m.ID)) + BytesSize(TenantQuotaSize(m.Quota, order))
    + SizesSum(Each(TenantSuspensionSize, m.Suspension))
    + SizesSum(Each(Len, m.CredentialValidity))
    + SizesSum(Each(TenantCapacitySize, m.Capacity))
TenantSpecSet(m, f) ==
    LET allocated(p, zero) == IF p = <<>> THEN zero ELSE p[1]
    IN CASE f.num = 1 -> [m EXCEPT !.ID = Signed(f.v.val, IntSize)]
         [] f.num = 2 -> With(m, "Quota", TenantQuotaUnmarshal(m.Quota, f.v.val))
         [] f.num = 3 -> WithPointer(m, "Suspension",
                           TenantSuspensionUnmarshal(
                               allocated(m.Suspension, Reset.TenantSuspension), f.v.val))
         [] f.num = 4 -> [m EXCEPT !.CredentialValidity =
                           <<Foreign(allocated(@, <<>>), f.v.val)>>]
         [] f.num = 5 -> WithPointer(m, "Capacity",
                           TenantCapacityUnmarshal(
                               allocated(m.Capacity, Reset.TenantCapacity), f.v.val))
\* Mutant: Unmarshal was generated before the type had its pointers.
TenantSpecUnmarshalStale(m, d) == SetAll(TenantSpecSet, m, Fields(d, <<0, 2>>))
TenantSpecUnmarshal(m, d) == SetAll(TenantSpecSet, m, Fields(d, <<0, 2, 2, 2, 2>>))

TenantBytes(m, order) ==
    BytesField(10, m.ObjectMeta) \o BytesField(18, TenantSpecBytes(m.Spec, order))
    \o BytesField(26, TenantStatusBytes(m.Status))
TenantSize(m, order) ==
    BytesSize(Len(m.ObjectMeta)) + BytesSize(TenantSpecSize(m.Spec, order))
    + BytesSize(TenantStatusSize(m.Status))
TenantSet(m, f) ==
    CASE f.num = 1 -> [m EXCEPT !.ObjectMeta = Foreign(@, f.v.val)]
      [] f.num = 2 -> With(m, "Spec", TenantSpecUnmarshal(m.Spec, f.v.val))
      [] f.num = 3 -> With(m, "Status", TenantStatusUnmarshal(m.Status, f.v.val))
TenantUnmarshal(m, d) == SetAll(TenantSet, m, Fields(d, <<2, 2, 2>>))

TenantListBytes(m, order) ==
    BytesField(10, m.ListMeta)
    \o BytesFields(18, Each(LAMBDA t : TenantBytes(t, order), m.Items))
TenantListSize(m, order) ==
    BytesSize(Len(m.ListMeta)) + SizesSum(Each(LAMBDA t : TenantSize(t, order), m.Items))
TenantListSet(m, f) ==
    CASE f.num = 1 -> [m EXCEPT !.ListMeta = Foreign(@, f.v.val)]
      [] f.num = 2 -> WithItem(m, TenantUnmarshal(Reset.Tenant, f.v.val))
TenantListUnmarshal(m, d) == SetAll(TenantListSet, m, Fields(d, <<2, 2>>))
=============================================================================
