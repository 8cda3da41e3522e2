---------------------------- MODULE TenantClusters ----------------------------
(***************************************************************************)
(* What kubezoo promises: every tenant has a cluster of its own.           *)
(*                                                                         *)
(* A request takes effect at one moment between its call and its return,   *)
(* on the cluster of its tenant and no other, and is answered from that    *)
(* cluster alone.  The operator keeps a few objects in the cluster, which  *)
(* the tenant may not write.  Nothing here knows that there is a single    *)
(* upstream cluster; all that is left of the prefix is that the namespace  *)
(* of an object has a second spelling, reserved in the names of new ones.  *)
(***************************************************************************)
EXTENDS TenantRequests

VARIABLES cluster,   \* the objects of each tenant's cluster that the tenant wrote
          kept,      \* the objects the operator keeps there
          phase, request, reply

vars == <<cluster, kept, phase, request, reply>>

Init ==
    /\ cluster = [t \in Tenant |-> {}]
    /\ kept = [t \in Tenant |-> {}]
    /\ phase = [c \in Client |-> "done"]
    /\ request = [c \in Client |-> NoRequest]
    /\ reply = [c \in Client |-> Reply("none", {})]

\* The object a request names, by the first spelling of its namespace.
Resolved(t, r) ==
    [kind  |-> r.kind,
     owner |-> IF r.kind \in NamespacedKind
               THEN TrimTenantIDPrefix(t, r.owner) ELSE r.owner,
     name  |-> r.name]

Mine(c) == Resolved(TenantOf[c], request[c])
Here(c) == cluster[TenantOf[c]] \cup kept[TenantOf[c]]

IsKeptRole(o) == o.kind = "ClusterRole" /\ o.owner \in ReservedRole

Forbidden(t, r) ==
    \/ r.verb = "create" /\ r.kind = "Namespace" /\ HasTenantPrefix(t, r.owner)
    \/ r.verb \in {"create", "update", "delete"} /\ IsKeptRole(r)
    \/ r.verb # "list" /\ IsManagedBindingName(r)

Call(c) ==
    /\ phase[c] = "done"
    /\ request'[c] \in Request
    /\ request' = [request EXCEPT ![c] = request'[c]]
    /\ phase' = [phase EXCEPT ![c] = "called"]
    /\ reply' = [reply EXCEPT ![c] = Reply("none", {})]
    /\ UNCHANGED <<cluster, kept>>

Refuse(c) ==
    /\ phase[c] = "called"
    /\ Forbidden(TenantOf[c], request[c])
    /\ phase' = [phase EXCEPT ![c] = "done"]
    /\ reply' = [reply EXCEPT ![c] = Reply("refused", {})]
    /\ request' = [request EXCEPT ![c] = NoRequest]
    /\ UNCHANGED <<cluster, kept>>

\* The request takes effect, with this answer.
Takes(c, verb, answer) ==
    /\ phase[c] = "called"
    /\ request[c].verb = verb
    /\ ~Forbidden(TenantOf[c], request[c])
    /\ phase' = [phase EXCEPT ![c] = "taken"]
    /\ reply' = [reply EXCEPT ![c] = answer]
    /\ UNCHANGED request

Create(c) ==
    \/ /\ Takes(c, "create", Reply("ok", {Mine(c)}))
       /\ Rejection(Mine(c), Here(c)) = "none"
       /\ cluster' = [cluster EXCEPT ![TenantOf[c]] = @ \cup {Mine(c)}]
       /\ UNCHANGED kept
    \/ /\ Takes(c, "create", Reply(Rejection(Mine(c), Here(c)), {}))
       /\ Rejection(Mine(c), Here(c)) # "none"
       /\ UNCHANGED <<cluster, kept>>

Get(c) ==
    /\ Takes(c, "get", IF Mine(c) \in Here(c) THEN Reply("ok", {Mine(c)})
                                             ELSE Reply("notfound", {}))
    /\ UNCHANGED <<cluster, kept>>

\* An object that is updated is its writer's from then on.
Update(c) ==
    \/ /\ Takes(c, "update", Reply("ok", {Mine(c)}))
       /\ Mine(c) \in Here(c)
       /\ cluster' = [cluster EXCEPT ![TenantOf[c]] = @ \cup {Mine(c)}]
       /\ kept' = [kept EXCEPT ![TenantOf[c]] = @ \ {Mine(c)}]
    \/ /\ Takes(c, "update", Reply("notfound", {}))
       /\ Mine(c) \notin Here(c)
       /\ UNCHANGED <<cluster, kept>>

Delete(c) ==
    \/ /\ Takes(c, "delete", Reply("ok", {}))
       /\ Mine(c) \in Here(c)
       /\ cluster' = [cluster EXCEPT ![TenantOf[c]] = @ \ Erased(Mine(c), Here(c))]
       /\ kept' = [kept EXCEPT ![TenantOf[c]] = @ \ Erased(Mine(c), Here(c))]
    \/ /\ Takes(c, "delete", Reply("notfound", {}))
       /\ Mine(c) \notin Here(c)
       /\ UNCHANGED <<cluster, kept>>

\* All of a kind, or its part of one namespace: where the request names one,
\* even by a prefix that is followed by nothing.
Found(c) ==
    { o \in Here(c) : /\ o.kind = Mine(c).kind
                      /\ (Mine(c).kind \in NamespacedKind /\ request[c].owner # NoName
                            => o.owner = Mine(c).owner) }

List(c) ==
    /\ Takes(c, "list", Reply("ok", { o \in Found(c) : ~IsManagedBindingName(o) }))
    /\ UNCHANGED <<cluster, kept>>

Return(c) ==
    /\ phase[c] = "taken"
    /\ phase' = [phase EXCEPT ![c] = "done"]
    /\ request' = [request EXCEPT ![c] = NoRequest]
    /\ UNCHANGED <<cluster, kept, reply>>

\* The operator keeps roles, and bindings in namespaces, or takes some back.
Keep(t) ==
    /\ \/ \E r \in ReservedRole :
            kept' = [kept EXCEPT ![t] = @ \cup
                       {[kind |-> "ClusterRole", owner |-> r, name |-> NoName]}]
       \/ \E ns \in cluster[t], b \in ManagedBinding :
            /\ ns.kind = "Namespace"
            /\ kept' = [kept EXCEPT ![t] = @ \cup
                          {[kind |-> "RoleBinding", owner |-> ns.owner, name |-> b]}]
    /\ UNCHANGED <<cluster, phase, request, reply>>

Withdraw(t) ==
    /\ kept' = [kept EXCEPT ![t] = { o \in @ : ~IsManagedBindingName(o) }]
    /\ UNCHANGED <<cluster, phase, request, reply>>

Next ==
    \/ \E c \in Client :
         \/ Call(c) \/ Refuse(c) \/ Return(c)
         \/ Create(c) \/ Get(c) \/ Update(c) \/ Delete(c) \/ List(c)
    \/ \E t \in Tenant : Keep(t) \/ Withdraw(t)

Spec == Init /\ [][Next]_vars

=============================================================================
