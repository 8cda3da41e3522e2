-------------------------- MODULE MCTenantCredentials --------------------------
(***************************************************************************)
(* Two scenes of a controller at work: the credentials it issues, and the  *)
(* copies it makes of the objects it reads.                                *)
(***************************************************************************)
EXTENDS TenantCredentials, ObjectCopies

\* An issuer that ends while the run goes on and the one it is renewed to.
MCCA == {[notBefore |-> -1, notAfter |-> 2], [notBefore |-> 1, notAfter |-> 6]}

Finalizers2(array, len) == [array |-> array, len |-> len]

\* A Tenant with everything, at the addresses after n, and one with little.
FullMemory(n) ==
    << "meta", <<"other", "kubezoo", "last">>, "hard", "suspension", "validity", "1", "2", "3",
       [maxNamespaces |-> n + 6, maxClusterRoleBindings |-> n + 7, maxCRDs |-> n + 8] >>

Full(n) ==
    [meta |-> n + 1, finalizers |-> Finalizers2(n + 2, 3), hard |-> n + 3,
     suspension |-> n + 4, credentialValidity |-> n + 5, capacity |-> n + 9, online |-> TRUE]

SparseMemory(n) ==
    << <<"other">>, "2",
       [maxNamespaces |-> Nil, maxClusterRoleBindings |-> n + 2, maxCRDs |-> Nil] >>

Sparse(n) ==
    [meta |-> Nil, finalizers |-> Finalizers2(n + 1, 1), hard |-> Nil, suspension |-> Nil,
     credentialValidity |-> Nil, capacity |-> n + 3, online |-> FALSE]

Nothing ==
    [meta |-> Nil, finalizers |-> Finalizers2(Nil, 0), hard |-> Nil, suspension |-> Nil,
     credentialValidity |-> Nil, capacity |-> Nil, online |-> FALSE]

QuotaMemory == << "meta", <<"kubezoo">>, "spec", "selector", "namespaces", "status" >>

Quota(n) ==
    [meta |-> n + 1, finalizers |-> Finalizers2(n + 2, 1), resourceQuotaSpec |-> n + 3,
     namespaceSelector |-> n + 4, namespaces |-> n + 5, resourceQuotaStatus |-> n + 6]

List(mem, items) == Append(mem, items)

In(kind, mem, root) == [kind |-> kind, memory |-> mem, root |-> root]

MCCached ==
    { In("Tenant", FullMemory(0), Full(0)), In("Tenant", SparseMemory(0), Sparse(0)),
      In("Tenant", << >>, Nothing),
      In("TenantList", List(FullMemory(0) \o SparseMemory(9), <<Full(0), Sparse(9)>>),
         [meta |-> Nil, items |-> 13]),
      In("TenantList", << >>, [meta |-> Nil, items |-> Nil]),
      In("ClusterResourceQuota", QuotaMemory, Quota(0)),
      In("ClusterResourceQuotaList",
         List(QuotaMemory \o QuotaMemory, <<Quota(0), Quota(6)>>) \o <<"remaining">>,
         [meta |-> 14, items |-> 13]) }

-----------------------------------------------------------------------------

VARIABLE scene

SceneInit ==
    /\ Init /\ CopiesInit
    /\ \/ scene = "credentials" /\ source.kind = "Tenant" /\ memory = << >>
       \/ scene = "copies" /\ tenant.validity = 0 /\ caFile.notBefore = -1

SceneNext ==
    /\ \/ scene = "credentials" /\ Next /\ UNCHANGED copiesVars
       \/ scene = "copies" /\ CopiesNext /\ UNCHANGED vars
    /\ UNCHANGED scene

SceneSpec == SceneInit /\ [][SceneNext]_<<vars, copiesVars, scene>> /\ Fairness

=============================================================================
