---------------------------- MODULE MCWorkloadGrants ----------------------------
(***************************************************************************)
(* Two scenes of what tenants' workloads may do upstream.  Grants: two     *)
(* ServiceAccounts of one tenant with one name in two namespaces, one of   *)
(* another tenant, and roles that mix what is allowed and what is not.     *)
(* Freezes: the tenants are suspended and let go again while their         *)
(* ServiceAccounts, the platform's and a node write.                       *)
(***************************************************************************)
EXTENDS WorkloadGrants, FrozenTenants

T1 == <<"a", "a">>
T2 == <<"a", "-">>

MCNativeGroup ==
    { "", "*", "storage.k8s.io", "resource.k8s.io", "admissionregistration.k8s.io",
      "apiextensions.k8s.io", "authentication.k8s.io", "authorization.k8s.io",
      "networking.k8s.io", "node.k8s.io", "rbac.authorization.k8s.io" }
MCChar == {"a", "x", "-"} \cup (MCNativeGroup \ {""})
MCIDChar == {"a", "x"}
MCTenant == {T1, T2}
MCAdmin == <<"a">>

x == <<"x">>
Own1 == AddTenantIDPrefix(T1, x)
Own2 == AddTenantIDPrefix(T2, x)

W1 == ServiceAccount(Own1, x)
W2 == ServiceAccount(AddTenantIDPrefix(T1, <<"a">>), x)
W3 == ServiceAccount(Own2, x)
MCWorkloads == {W1, W2, W3}

R(gs, rs, vs) == [groups |-> gs, resources |-> rs, verbs |-> vs, names |-> {}, paths |-> FALSE]

MCRole ==
    { {},
      {R({NoName}, {"namespaces"}, {"get", "delete"}), R({NoName}, {"nodes"}, {"get", "delete"})},
      {R({NoName}, {"namespaces", "nodes/proxy"}, {"get"}), R({Own1}, {"x"}, {"get"})},
      {R({NoName, Own1, Own2}, {"namespaces", "x"}, {"get"})},
      {R({APIGroupAll}, {"*"}, {"*"}), R({NoName}, {"*"}, {"get"})},
      {[R({}, {}, {"get"}) EXCEPT !.paths = TRUE],
       [R({NoName}, {"nodes"}, {"get"}) EXCEPT !.paths = TRUE]},
      {[R({NoName, Own1}, {"nodes", "x"}, {"get"}) EXCEPT !.names = {"n"}],
       [R({Own1}, {"x"}, {"get"}) EXCEPT !.names = {"n"}]} }

\* those about the tenants' own groups
MCFewRoles == { rules \in MCRole : rules = {} \/ \E r \in rules : Own1 \in r.groups /\ r.names = {} }

\* one rule about an object of each of two resources, which the tenant may do
\* different things to
MCMixedRole == { {[R({NoName}, {"namespaces", "nodes"}, {"get", "delete"})
                   EXCEPT !.names = {"n"}]} }

MCAttempt == [group : {NoName, Own1, Own2},
              resource : {"namespaces", "nodes", "nodes/proxy", "x"},
              verb : {"get", "delete"},
              name : {"n", "m"}]

-----------------------------------------------------------------------------

(***************************************************************************)
(* Two workloads with any of the roles, or three with a few of them.       *)
(***************************************************************************)
FewWorkloads ==
    \/ role[W3] = {} /\ read[W3] = {}
    \/ \A w \in Workload : role[w] \in MCFewRoles /\ read[w] \in MCFewRoles

-----------------------------------------------------------------------------

\* "a-x" is to the tenant "a-" what "kube-system" is to a tenant "kube-s".
Platform == ServiceAccount(<<"a", "-", "x">>, x)

MCTenantNamespace == {Own1, Own2}
MCWriter == {W1, W2, W3, Platform, PlainUser(x)}

VARIABLE scene

SceneInit == GrantsInit /\ FreezeInit /\ scene \in {"grants", "freezes"}

SceneNext ==
    /\ \/ scene = "grants" /\ GrantsNext /\ UNCHANGED freezeVars
       \/ scene = "freezes" /\ FreezeNext /\ UNCHANGED grantsVars
    /\ UNCHANGED scene

SceneSpec == SceneInit /\ [][SceneNext]_<<grantsVars, freezeVars, scene>> /\ FreezeFairness

\* each by itself
GrantsAlone == SceneSpec /\ scene = "grants"
FreezesAlone == SceneSpec /\ scene = "freezes"

=============================================================================
