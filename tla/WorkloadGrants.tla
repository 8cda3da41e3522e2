---------------------------- MODULE WorkloadGrants ----------------------------
(***************************************************************************)
(* What a tenant's ServiceAccounts may do at cluster scope.                *)
(*                                                                         *)
(* A tenant binds a ClusterRole to a ServiceAccount.  kubezoo's controller *)
(* (external) turns the rules that are safe into what upstream grants: the *)
(* rules that meet the tenant's own go to the group of the ServiceAccount, *)
(* the rules about the tenant's own API groups to the ServiceAccount in a  *)
(* cluster-wide binding (pkg/util/tenantsa.go, pkg/util/clusterwide.go,    *)
(* pkg/common/clusterscope.go).  A request is then authorized for the user *)
(* and the groups that the gateway asserts.                                *)
(***************************************************************************)
EXTENDS TenantIdentity

CONSTANTS NativeGroup,  \* the names of Kubernetes' API groups
          Workload,     \* the ServiceAccounts that tenants bind roles to
          Role,         \* the rules that a tenant's ClusterRole may hold
          Attempt       \* what may be tried: group, resource, verb and name

(***************************************************************************)
(* The name of a native group counts as one character that no id holds:    *)
(* none of those names reads as a tenant's.  The core group's is empty.    *)
(***************************************************************************)
Native(g) == IF g = "" THEN NoName ELSE <<g>>
APIGroupAll == Native("*")

\* A rule with no resource names is about all of them.  Non-resource URLs:
\* only whether a rule has any counts.
Rule == [groups : SUBSET Name, resources : SUBSET STRING, verbs : SUBSET STRING,
         names : SUBSET STRING, paths : BOOLEAN]

OwnerOf(w) == TenantIDFromPrefixed(w.namespace)

(***************************************************************************)
(* A workload is in a namespace that its tenant could give its name to,    *)
(* and what may be tried may be tried with any name that a rule holds.     *)
(***************************************************************************)
ASSUME WorkloadAssumption ==
    /\ NativeGroup \ {""} \subseteq Char \ (IDChar \cup {Dash})
    /\ Workload \subseteq [sort : {"serviceaccount"}, namespace : Name, name : Name \ {NoName}]
    /\ \A w \in Workload :
          /\ OwnerOf(w) \in Tenant
          /\ NamespaceNameForTenant(OwnerOf(w), TrimTenantIDPrefix(OwnerOf(w), w.namespace))
    /\ Role \subseteq SUBSET Rule
    /\ Attempt \subseteq [group : Name, resource : STRING, verb : STRING, name : STRING]
    /\ \A a \in Attempt : \A r \in UNION Role : \A n \in r.names :
          [a EXCEPT !.name = n] \in Attempt

NewRule(g, resources, verbs) ==
    [groups |-> {Native(g)}, resources |-> resources, verbs |-> verbs,
     names |-> {}, paths |-> FALSE]

Reads == {"get", "list", "watch"}
Writes == Reads \cup {"create", "update", "patch", "delete"}
All == Writes \cup {"deletecollection"}

\* What a tenant may do at cluster scope itself.
ClusterScopedRules ==
    { NewRule("", {"namespaces"}, Writes),
      NewRule("", {"nodes", "componentstatuses"}, Reads),
      NewRule("storage.k8s.io", {"storageclasses", "volumeattributesclasses"}, Reads),
      NewRule("resource.k8s.io", {"deviceclasses"}, Reads),
      NewRule("", {"persistentvolumes", "persistentvolumes/status"}, All),
      NewRule("admissionregistration.k8s.io",
              {"mutatingwebhookconfigurations", "validatingwebhookconfigurations"}, All),
      NewRule("apiextensions.k8s.io",
              {"customresourcedefinitions", "customresourcedefinitions/status"}, All),
      NewRule("authentication.k8s.io", {"tokenreviews"}, {"create"}),
      NewRule("authorization.k8s.io",
              {"selfsubjectaccessreviews", "selfsubjectrulesreviews", "subjectaccessreviews"},
              {"create"}),
      NewRule("networking.k8s.io", {"ingressclasses"}, All),
      NewRule("node.k8s.io", {"runtimeclasses"}, All),
      NewRule("rbac.authorization.k8s.io", {"clusterroles", "clusterrolebindings"}, All) }

\* Resources of the core group that are served and deliberately not granted.
NotGrantedToTenants ==
    {"nodes/proxy", "nodes/status", "namespaces/status", "namespaces/finalize"}

-----------------------------------------------------------------------------

covers(allowed, all, want) == all \in allowed \/ want \in allowed

allowedBy(rules, g, resource, verb) ==
    \E r \in rules : /\ covers(r.groups, APIGroupAll, g)
                     /\ covers(r.resources, "*", resource)
                     /\ covers(r.verbs, "*", verb)

\* The points of an asked-for rule that some allowed rule covers.
Kept(asked, allowed) ==
    { k \in asked.groups \X asked.resources \X asked.verbs :
        allowedBy(allowed, k[1], k[2], k[3]) }

(***************************************************************************)
(* The rule kept of an asked-for one, none where nothing is allowed.  It   *)
(* is put together axis by axis: the groups, the resources and the verbs   *)
(* of the points that are kept, each without the others.  The names and    *)
(* the paths that the rule asks for are not among them.                    *)
(***************************************************************************)
narrowToAllowed(asked, allowed) ==
    LET kept == Kept(asked, allowed)
    IN  IF kept = {} THEN {}
        ELSE {[groups    |-> { k[1] : k \in kept },
               resources |-> { k[2] : k \in kept },
               verbs     |-> { k[3] : k \in kept },
               names     |-> {},
               paths     |-> FALSE]}

ClusterScopedRulesForSA(asked, allowed) ==
    UNION { narrowToAllowed(r, allowed) : r \in asked }

GroupIsTenantOwned(g, t) == t # NoName /\ HasTenantPrefix(t, g)

\* Mutant: one of a rule's groups being the tenant's is enough.
OwnsAGroup(r, t) == ~r.paths /\ \E g \in r.groups : GroupIsTenantOwned(g, t)

ruleIsTenantOwned(r, t) ==
    /\ ~r.paths
    /\ r.groups # {}
    /\ \A g \in r.groups : GroupIsTenantOwned(g, t)

RulesSafeForClusterWideBinding(rules, t) == { r \in rules : ruleIsTenantOwned(r, t) }

-----------------------------------------------------------------------------

VARIABLES role,    \* the rules each workload's ClusterRole holds
          read,    \* those the controller has last worked from
          groups,  \* what upstream grants the group of a ServiceAccount
          wide     \* what it grants a ServiceAccount in a cluster-wide binding

grantsVars == <<role, read, groups, wide>>

\* The group the gateway asserts for the workload.
GroupsOfWorkload(w) == ImpersonationGroups(OwnerOf(w), w, {}, [verb |-> "get", resource |-> "pods"])

GrantsInit ==
    /\ role = [w \in Workload |-> {}]
    /\ read = [w \in Workload |-> {}]
    /\ groups = {}
    /\ wide = [w \in Workload |-> {}]

\* The tenant writes the ClusterRole it has bound to the workload.
WriteRole(w) ==
    /\ \E rules \in Role : role' = [role EXCEPT ![w] = rules]
    /\ UNCHANGED <<read, groups, wide>>

(***************************************************************************)
(* The controller names the group after the subject of the binding, in     *)
(* whichever spelling of the namespace it holds.                           *)
(***************************************************************************)
Reconcile(w) ==
    LET t == OwnerOf(w)
    IN  \E ns \in {w.namespace, TrimTenantIDPrefix(t, w.namespace)} :
          LET group == TenantSAGroup(t, ns, w.name)
          IN  /\ groups' = { g \in groups : g.group # group } \cup
                           { [group |-> group, rule |-> r] :
                               r \in ClusterScopedRulesForSA(role[w], ClusterScopedRules) }
              /\ wide' = [wide EXCEPT ![w] = RulesSafeForClusterWideBinding(role[w], t)]
              /\ read' = [read EXCEPT ![w] = role[w]]
              /\ UNCHANGED role

GrantsNext == \E w \in Workload : WriteRole(w) \/ Reconcile(w)

GrantsSpec == GrantsInit /\ [][GrantsNext]_grantsVars

-----------------------------------------------------------------------------

\* upstream's authorizer: a rule permits what all of its axes name
Permits(r, a) ==
    /\ {a.group, APIGroupAll} \cap r.groups # {}
    /\ {a.resource, "*"} \cap r.resources # {}
    /\ {a.verb, "*"} \cap r.verbs # {}
    /\ r.names = {} \/ a.name \in r.names

Covered(rules) == { a \in Attempt : \E r \in rules : Permits(r, a) }

GroupRules(w) == { g.rule : g \in { h \in groups : h.group \in GroupsOfWorkload(w) } }
MayDo(w) == Covered(GroupRules(w) \cup wide[w])

(***************************************************************************)
(* A ServiceAccount may do nothing to an object of any name that its own   *)
(* role asks to do to none (ClusterScopedRulesForSA).                      *)
(***************************************************************************)
UpToNames(attempts) ==
    { a \in Attempt : \E b \in attempts : a = [b EXCEPT !.name = a.name] }

OnlyTheKindsItsRoleAsks ==
    \A w \in Workload : MayDo(w) \subseteq UpToNames(Covered(read[w]))

(***************************************************************************)
(* What its role asks for and the tenant itself may do, it may do: the     *)
(* rules are granted to the group that its requests carry (TenantSAGroup,  *)
(* TenantSAFromUsername).  A wildcard asks for the wildcard.               *)
(***************************************************************************)
Literally(rules) ==
    { a \in Attempt : \E r \in rules :
        /\ a.group \in r.groups /\ a.resource \in r.resources /\ a.verb \in r.verbs
        /\ Permits(r, a) }

AskedAndAllowedIsGranted ==
    \A w \in Workload : Literally(read[w]) \cap Covered(ClusterScopedRules) \subseteq MayDo(w)

(***************************************************************************)
(* However a role is written, no ServiceAccount reaches a resource that is *)
(* deliberately not granted, and a cluster-wide binding reaches the        *)
(* tenant's own API groups alone and no path of the API server             *)
(* (NotGrantedToTenants, RulesSafeForClusterWideBinding).                  *)
(***************************************************************************)
NeverGranted ==
    \A w \in Workload :
        /\ \A a \in MayDo(w) : a.group = NoName => a.resource \notin NotGrantedToTenants
        /\ \A a \in Covered(wide[w]) : HasTenantPrefix(OwnerOf(w), a.group)
        /\ \A r \in wide[w] : ~r.paths

(***************************************************************************)
(* What upstream grants a ServiceAccount changes only when the controller  *)
(* works from its own role: no two share a group (TenantSAGroup).          *)
(***************************************************************************)
ReachIsOwnStep ==
    \A w \in Workload :
        (GroupRules(w) \cup wide[w])' # GroupRules(w) \cup wide[w] =>
           read'[w] = role[w] /\ read'[w] # read[w]

ReachIsOwn == [][ReachIsOwnStep]_grantsVars

(***************************************************************************)
(* "what its own role asks for, and nothing the tenant is not itself       *)
(* allowed" (ClusterScopedRulesForSA): what the group of a ServiceAccount  *)
(* permits, its role asked for, and the tenant may do itself.              *)
(***************************************************************************)
AskedAndAllowedOnly ==
    \A w \in Workload : Covered(GroupRules(w)) \subseteq Covered(read[w]) \cap Covered(ClusterScopedRules)

===============================================================================
