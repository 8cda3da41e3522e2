---------------------------- MODULE TenantIdentity ----------------------------
(***************************************************************************)
(* Who a forwarded request is upstream: the users, the groups kubezoo      *)
(* asserts, and how a group is found for a user (pkg/util/util.go,         *)
(* pkg/util/tenantsa.go).                                                  *)
(*                                                                         *)
(* A user is a plain name or the ServiceAccount of a namespace; a group is *)
(* one of the three sorts that begin with "kubezoo:" or any other.         *)
(***************************************************************************)
EXTENDS TenantNames

CONSTANT Admin  \* "admin"

ASSUME AdminAssumption == Admin \in Name

PlainUser(name) == [sort |-> "user", namespace |-> NoName, name |-> name]
ServiceAccount(ns, name) == [sort |-> "serviceaccount", namespace |-> ns, name |-> name]
NoUser == PlainUser(NoName)

Group(sort, t, ns, name) == [sort |-> sort, tenant |-> t, namespace |-> ns, name |-> name]

\* kubezooGroupPrefix
KubezooSorts == {"proxied", "proxied-sa", "role-author"}
IsKubezooGroup(g) == g.sort \in KubezooSorts

TenantAdminUser(t) == PlainUser(AddTenantIDPrefix(t, Admin))
ProxiedGroup(t) == Group("proxied", t, NoName, NoName)
RoleAuthorGroup == Group("role-author", NoName, NoName, NoName)

\* Mutant: one group for all the ServiceAccounts of a tenant.
GroupOfTenant(t, ns, name) == Group("proxied-sa", t, NoName, NoName)

\* Mutant: the namespace is taken in the spelling it comes in.
GroupAsSpelled(t, ns, name) == Group("proxied-sa", t, ns, name)

\* The group of one ServiceAccount, whichever way its namespace is spelled.
TenantSAGroup(t, upstreamNamespace, name) ==
    Group("proxied-sa", t, TrimTenantIDPrefix(t, upstreamNamespace), name)

NotASA == [ok |-> FALSE, tenant |-> NoName, namespace |-> NoName, name |-> NoName]

TenantSAFromUsername(u) ==
    IF /\ u.sort = "serviceaccount" /\ u.name # NoName
       /\ Len(u.namespace) > TenantIDLength + 1
       /\ u.namespace[TenantIDLength + 1] = Dash
    THEN [ok |-> TRUE, tenant |-> SubSeq(u.namespace, 1, TenantIDLength),
          namespace |-> u.namespace, name |-> u.name]
    ELSE NotASA

\* the verb and the resource of a request
writesAClusterRole(r) ==
    r.resource = "clusterroles" /\ r.verb \in {"create", "update", "patch"}

\* Mutant: a tenant's workloads carry the group of the tenant.
GroupsOfAnyone(t, u, groups, r) ==
    { g \in groups : ~IsKubezooGroup(g) } \cup
    IF t = NoName THEN {} ELSE
    {ProxiedGroup(t)} \cup (IF writesAClusterRole(r) THEN {RoleAuthorGroup} ELSE {})

\* Mutant: a group the credential carries is passed on.
GroupsPassedOn(t, u, groups, r) ==
    groups \cup
    IF t # NoName /\ u = TenantAdminUser(t) THEN {ProxiedGroup(t)} ELSE {}

(***************************************************************************)
(* The groups asserted for a request of user u, who authenticated for the  *)
(* tenant t (NoName when for none) with these groups.  What the credential *)
(* carries of kubezoo's own is dropped; the tenant's own credential gets   *)
(* the tenant's group, and role-author where it writes a ClusterRole; a    *)
(* ServiceAccount of the tenant gets its own group.                        *)
(***************************************************************************)
ImpersonationGroups(t, u, groups, r) ==
    LET sa == TenantSAFromUsername(u)
    IN  { g \in groups : ~IsKubezooGroup(g) } \cup
        CASE t = NoName -> {}
          [] t # NoName /\ u = TenantAdminUser(t) ->
               {ProxiedGroup(t)} \cup
               (IF writesAClusterRole(r) THEN {RoleAuthorGroup} ELSE {})
          [] t # NoName /\ u # TenantAdminUser(t) /\ sa.ok /\ sa.tenant = t ->
               {TenantSAGroup(t, sa.namespace, sa.name)}
          [] OTHER -> {}

===============================================================================
