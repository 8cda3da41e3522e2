---------------------------- MODULE TenantRequests ----------------------------
(***************************************************************************)
(* The objects of a cluster and the requests that tenants make about them. *)
(*                                                                         *)
(* An object is known by its kind and two names: "owner", the one that     *)
(* carries the tenant's prefix upstream, and "name", the one that is       *)
(* stored as the tenant wrote it.                                          *)
(*                                                                         *)
(*   namespaced kinds           owner: the namespace    name: the name     *)
(*   cluster-scoped kinds       owner: the name         name: empty        *)
(*   CustomResourceDefinition   owner: the API group    name: the plural   *)
(***************************************************************************)
EXTENDS TenantNames

CONSTANTS Client,           \* tenants' users and workloads
          TenantOf,         \* the tenant a client authenticates as
          OwnerName,        \* the namespaces, names and groups clients send
          ObjectName,       \* the names and plurals clients send
          RequestKind,      \* the kinds that requests are about
          ReservedRole,     \* "cluster-admin" and "admin"
          ManagedBinding    \* RoleBinding names that begin with "kubezoo:"

NamespacedKind == {"ConfigMap", "RoleBinding"}
ClusterKind == {"Namespace", "ClusterRole", "CustomResourceDefinition"}
Kind == NamespacedKind \cup ClusterKind

Object == [kind : Kind, owner : Name, name : Name]

Namespace(ns) == [kind |-> "Namespace", owner |-> ns, name |-> NoName]

(***************************************************************************)
(* What a client may ask.  A list names at most a namespace; the other     *)
(* verbs name an object, in the tenant's terms, except that a namespace    *)
(* may be spelled as upstream spells it.  The name of a CRD may lack the   *)
(* dot that ends its plural: it has no group then.                         *)
(***************************************************************************)
Verb == {"create", "get", "update", "delete", "list"}

Lists == { [verb |-> "list", kind |-> k, owner |-> o, name |-> NoName] :
             k \in RequestKind, o \in OwnerName \cup {NoName} }

WellFormed(r) ==
    /\ r.kind \in NamespacedKind => r.owner # NoName /\ r.name # NoName
    /\ r.kind \in {"Namespace", "ClusterRole"} => r.owner # NoName /\ r.name = NoName
    /\ r.kind = "CustomResourceDefinition" => r.name # NoName

Request ==
    { r \in Lists : r.kind \in ClusterKind => r.owner = NoName } \cup
    { r \in [verb  : Verb \ {"list"}, kind : RequestKind,
             owner : OwnerName \cup {NoName}, name : ObjectName \cup {NoName}] :
        WellFormed(r) }

NoRequest == [verb |-> "none", kind |-> "none", owner |-> NoName, name |-> NoName]

ASSUME KubeZooAssumption ==
    /\ TenantOf \in [Client -> Tenant]
    /\ OwnerName \subseteq Name /\ ObjectName \subseteq Name
    /\ RequestKind \subseteq Kind
    /\ ReservedRole \subseteq Name /\ ManagedBinding \subseteq Name

Code == {"none", "ok", "refused", "invalid", "notfound", "exists"}

Reply(code, items) == [code |-> code, items |-> items]

(***************************************************************************)
(* RoleBindings that kubezoo keeps in a tenant's namespaces: a tenant does *)
(* not read, write or list them.                                           *)
(***************************************************************************)
IsManagedBindingName(o) == o.kind = "RoleBinding" /\ o.name \in ManagedBinding

\* A CRD without a group: the API server does not take such a name.
LacksGroup(o) == o.kind = "CustomResourceDefinition" /\ o.owner = NoName

\* What goes when o is deleted from among objs: a namespace takes its contents.
Erased(o, objs) ==
    {o} \cup { i \in objs : /\ o.kind = "Namespace"
                            /\ i.kind \in NamespacedKind
                            /\ i.owner = o.owner }

\* Why the object o cannot be created beside objs, "none" when it can.
Rejection(o, objs) ==
    IF LacksGroup(o) THEN "invalid"
    ELSE IF o.kind \in NamespacedKind /\ Namespace(o.owner) \notin objs THEN "notfound"
    ELSE IF o \in objs THEN "exists"
    ELSE "none"

\* The objects of a kind in one namespace, or in all of them.
Listed(kind, ns, objs) ==
    { o \in objs : /\ o.kind = kind
                   /\ kind \in NamespacedKind /\ ns # NoName => o.owner = ns }

===============================================================================
