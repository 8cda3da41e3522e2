--------------------------- MODULE MCObjectStream ---------------------------
(***************************************************************************)
(* An instance with one object for every boundary of the encoding: numbers *)
(* on both sides of one byte and of the sign, a length that takes two      *)
(* bytes, pointers that are nil, zero and set, maps with none to two keys. *)
(***************************************************************************)
EXTENDS ObjectStream, SequencesExt

Cpu == <<99>>
Memory == <<109>>
Long == [k \in 1..130 |-> 97]

NoLimits == <<>>
CpuOnly == Cpu :> <<>>
Both == (Memory :> <<56>>) @@ (Cpu :> <<52>>)
MCResourceLists == {NoLimits, CpuOnly, Both}

Spec0 == Reset.TenantSpec
Suspended == [Mode |-> <<82>>, Reason |-> <<>>]
Limits(a, b, c) == [MaxNamespaces |-> a, MaxClusterRoleBindings |-> b, MaxCRDs |-> c]
FullSpec ==
    [ID |-> 1023, Quota |-> [Hard |-> <<Both>>],
     Suspension |-> <<[Mode |-> <<70>>, Reason |-> <<117, 112>>]>>,
     CredentialValidity |-> <<<<8, 5>>>>,
     Capacity |-> <<Limits(<<16>>, <<0>>, <<-1>>)>>]

Specs ==
    {[Spec0 EXCEPT !.ID = id] : id \in {0, 127, 128, -1, -1024}}
    \cup {[Spec0 EXCEPT !.Quota.Hard = <<h>>] : h \in {NoLimits, CpuOnly}}
    \cup {[Spec0 EXCEPT !.Suspension = <<Suspended>>],
          [Spec0 EXCEPT !.CredentialValidity = <<<<>>>>],
          [Spec0 EXCEPT !.Capacity = <<Limits(<<>>, <<>>, <<>>)>>],
          [Spec0 EXCEPT !.Capacity = <<Limits(<<>>, <<128>>, <<>>)>>],
          FullSpec}

TenantOf(name, spec, online) ==
    [ObjectMeta |-> name, Spec |-> spec, Status |-> [Online |-> online]]
QuotaOf(name, selector, namespaces, status) ==
    [ObjectMeta |-> name,
     Spec |-> [ResourceQuotaSpec |-> <<3>>, NamepsaceSelector |-> selector,
               Namespaces |-> namespaces],
     Status |-> [ResourceQuotaStatus |-> status]]
Quotas == {QuotaOf(<<113>>, <<>>, <<>>, <<>>), QuotaOf(<<>>, <<<<>>>>, <<Cpu, <<>>>>, <<4>>),
           QuotaOf(<<113>>, <<<<7>>>>, <<Memory>>, <<>>)}

MCObjects ==
    {[kind |-> "Tenant", body |-> TenantOf(<<116>>, s, TRUE)] : s \in Specs}
    \cup {[kind |-> "Tenant", body |-> TenantOf(Long, Spec0, FALSE)],
          [kind |-> "TenantList", body |-> [ListMeta |-> <<>>, Items |-> <<>>]],
          [kind |-> "TenantList",
           body |-> [ListMeta |-> <<1>>, Items |-> <<TenantOf(<<116>>, FullSpec, FALSE),
                                                     TenantOf(<<>>, Spec0, TRUE)>>]]}
    \cup {[kind |-> "ClusterResourceQuota", body |-> q] : q \in Quotas}
    \cup {[kind |-> "ClusterResourceQuotaList",
           body |-> [ListMeta |-> <<2>>, Items |-> SetToSeq(Quotas)]]}

MCMapOrders ==
    {[K \in SUBSET {Cpu, Memory} |-> SelectSeq(both, LAMBDA k : k \in K)] :
        both \in {<<Cpu, Memory>>, <<Memory, Cpu>>}}

\* Field 6 and up, of every wire type, and a group that holds a group.
MCNewFields == {<<48, 130, 1>>, <<49, 1, 2, 3, 4, 5, 6, 7, 255>>, <<50, 2, 10, 8>>,
                <<53, 8, 26, 8, 128>>, <<51, 59, 8, 1, 60, 52>>, <<138, 1, 0>>}
=============================================================================
