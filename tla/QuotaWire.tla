------------------------------ MODULE QuotaWire ------------------------------
(***************************************************************************)
(* The generated marshallers of the ClusterResourceQuota API, with the     *)
(* conventions of TenantWire: strings and the messages of other modules    *)
(* (ObjectMeta, ListMeta, LabelSelector, ResourceQuotaSpec and Status) are *)
(* byte strings, a pointer is a sequence that is empty when nil.           *)
(***************************************************************************)
EXTENDS Wire

ClusterResourceQuotaSpecs ==
    [ResourceQuotaSpec : Bytes, NamepsaceSelector : Pointer(Bytes), Namespaces : Seq(Bytes)]
ClusterResourceQuotaStatuses == [ResourceQuotaStatus : Bytes]
ClusterResourceQuotas ==
    [ObjectMeta : Bytes, Spec : ClusterResourceQuotaSpecs, Status : ClusterResourceQuotaStatuses]
ClusterResourceQuotaLists == [ListMeta : Bytes, Items : Seq(ClusterResourceQuotas)]

Merged(old, bytes) == IF bytes = <<>> THEN old ELSE bytes

\* The zero value of each message, which Reset gives back.
QuotaReset ==
    LET spec == [ResourceQuotaSpec |-> <<>>, NamepsaceSelector |-> <<>>,
                 Namespaces |-> <<>>]
        status == [ResourceQuotaStatus |-> <<>>]
    IN [ClusterResourceQuota |-> [ObjectMeta |-> <<>>, Spec |-> spec, Status |-> status],
        ClusterResourceQuotaList |-> [ListMeta |-> <<>>, Items |-> <<>>]]

-----------------------------------------------------------------------------

ClusterResourceQuotaSpecBytes(m) ==
    BytesField(10, m.ResourceQuotaSpec) \o BytesFields(18, m.NamepsaceSelector)
    \o BytesFields(26, m.Namespaces)
ClusterResourceQuotaSpecSize(m) ==
    BytesSize(Len(m.ResourceQuotaSpec)) + SizesSum(Each(Len, m.NamepsaceSelector))
    + SizesSum(Each(Len, m.Namespaces))
ClusterResourceQuotaSpecSet(m, f) ==
    LET allocated(p) == IF p = <<>> THEN <<>> ELSE p[1]
    IN CASE f.num = 1 -> [m EXCEPT !.ResourceQuotaSpec = Merged(@, f.v.val)]
         [] f.num = 2 -> [m EXCEPT !.NamepsaceSelector = <<Merged(allocated(@), f.v.val)>>]
         [] f.num = 3 -> [m EXCEPT !.Namespaces = Append(@, f.v.val)]
ClusterResourceQuotaSpecUnmarshal(m, d) ==
    SetAll(ClusterResourceQuotaSpecSet, m, Fields(d, <<2, 2, 2>>))

ClusterResourceQuotaStatusBytes(m) == BytesField(10, m.ResourceQuotaStatus)
ClusterResourceQuotaStatusSize(m) == BytesSize(Len(m.ResourceQuotaStatus))
ClusterResourceQuotaStatusSet(m, f) ==
    [m EXCEPT !.ResourceQuotaStatus = Merged(@, f.v.val)]
ClusterResourceQuotaStatusUnmarshal(m, d) ==
    SetAll(ClusterResourceQuotaStatusSet, m, Fields(d, <<2>>))

ClusterResourceQuotaBytes(m) ==
    BytesField(10, m.ObjectMeta) \o BytesField(18, ClusterResourceQuotaSpecBytes(m.Spec))
    \o BytesField(26, ClusterResourceQuotaStatusBytes(m.Status))
ClusterResourceQuotaSize(m) ==
    BytesSize(Len(m.ObjectMeta)) + BytesSize(ClusterResourceQuotaSpecSize(m.Spec))
    + BytesSize(ClusterResourceQuotaStatusSize(m.Status))
ClusterResourceQuotaSet(m, f) ==
    CASE f.num = 1 -> [m EXCEPT !.ObjectMeta = Merged(@, f.v.val)]
      [] f.num = 2 -> With(m, "Spec", ClusterResourceQuotaSpecUnmarshal(m.Spec, f.v.val))
      [] f.num = 3 -> With(m, "Status",
                           ClusterResourceQuotaStatusUnmarshal(m.Status, f.v.val))
ClusterResourceQuotaUnmarshal(m, d) ==
    SetAll(ClusterResourceQuotaSet, m, Fields(d, <<2, 2, 2>>))

ClusterResourceQuotaListBytes(m) ==
    BytesField(10, m.ListMeta) \o BytesFields(18, Each(ClusterResourceQuotaBytes, m.Items))
ClusterResourceQuotaListSize(m) ==
    BytesSize(Len(m.ListMeta)) + SizesSum(Each(ClusterResourceQuotaSize, m.Items))
ClusterResourceQuotaListSet(m, f) ==
    CASE f.num = 1 -> [m EXCEPT !.ListMeta = Merged(@, f.v.val)]
      [] f.num = 2 -> WithItem(m, ClusterResourceQuotaUnmarshal(
                                      QuotaReset.ClusterResourceQuota, f.v.val))
ClusterResourceQuotaListUnmarshal(m, d) ==
    SetAll(ClusterResourceQuotaListSet, m, Fields(d, <<2, 2>>))
=============================================================================
