-------------------------------- MODULE KubeZoo --------------------------------
(***************************************************************************)
(* Many tenants' clusters kept in one upstream cluster.                    *)
(*                                                                         *)
(* A client's request is received by the gateway (external), which spells  *)
(* it upstream with the operators of pkg/util, goes to the API server      *)
(* (external) through the client of pkg/dynamic, and comes back filtered   *)
(* and trimmed with pkg/util again.  Requests of all the clients and the   *)
(* work of kubezoo's controller (external) interleave between those steps. *)
(***************************************************************************)
EXTENDS TenantRequests

CONSTANTS PlatformObject  \* upstream objects that no tenant owns

\* Mutant: a name that carries some tenant's prefix is not prefixed again.
ConvertOnlyBareNames(t, kind, owner) ==
    IF TenantIDFromPrefixed(owner) # NoName THEN owner ELSE AddTenantIDPrefix(t, owner)

\* Mutant: the group of a CRD is not prefixed.
ConvertNoGroup(t, kind, owner) ==
    IF kind = "CustomResourceDefinition" THEN owner ELSE AddTenantIDPrefix(t, owner)

(***************************************************************************)
(* The one upstream name of what a request names.                          *)
(***************************************************************************)
ConvertTenantObjectNameToUpstream(t, kind, owner) ==
    IF kind = "CustomResourceDefinition" /\ owner = NoName
    THEN owner
    ELSE AddTenantIDPrefix(t, owner)

UpstreamOwner(t, kind, owner) ==
    IF kind \in NamespacedKind
    THEN UpstreamNamespace(t, owner)
    ELSE ConvertTenantObjectNameToUpstream(t, kind, owner)

ToUpstream(t, r) ==
    [kind |-> r.kind, owner |-> UpstreamOwner(t, r.kind, r.owner), name |-> r.name]

ToTenant(t, o) == [o EXCEPT !.owner = TrimTenantIDPrefix(t, o.owner)]

UpstreamObjectBelongsToTenant(t, o) == HasTenantPrefix(t, o.owner)

(***************************************************************************)
(* The platform chooses its own names, and none of them reads as a         *)
(* tenant's: the code does not refuse a tenant id that begins the name of  *)
(* a namespace the platform has already.  A CRD always has a group.        *)
(***************************************************************************)
ASSUME PlatformAssumption ==
    /\ PlatformObject \subseteq Object
    /\ \A o \in PlatformObject :
          ~LacksGroup(o) /\ \A t \in Tenant : ~UpstreamObjectBelongsToTenant(t, o)

\* The roles that kubezoo keeps under the tenant's prefix.
IsReservedClusterName(t, o) ==
    o.kind = "ClusterRole" /\ \E r \in ReservedRole : o.owner = AddTenantIDPrefix(t, r)

-----------------------------------------------------------------------------

VARIABLES objects,   \* the upstream objects tenants and the platform wrote last
          managed,   \* the upstream objects kubezoo's controller wrote last
          phase,     \* how far each client's request has come
          request,   \* what each client asks
          reply      \* what upstream, then what kubezoo answered

vars == <<objects, managed, phase, request, reply>>

Upstream == objects \cup managed
Target(c) == ToUpstream(TenantOf[c], request[c])

TypeOK ==
    /\ objects \subseteq Object
    /\ managed \subseteq Object
    /\ phase \in [Client -> {"received", "forwarded", "answered", "done"}]
    /\ request \in [Client -> Request \cup {NoRequest}]
    /\ reply \in [Client -> [code : Code, items : SUBSET Object]]
    /\ \A c \in Client :
          /\ request[c] = NoRequest => phase[c] = "done"
          /\ phase[c] \in {"received", "forwarded"} => reply[c] = Reply("none", {})

Init ==
    /\ objects = PlatformObject
    /\ managed = {}
    /\ phase = [c \in Client |-> "done"]
    /\ request = [c \in Client |-> NoRequest]
    /\ reply = [c \in Client |-> Reply("none", {})]

-----------------------------------------------------------------------------

\* Mutant: the answer to the last request is left in place.
SendKeepsReply(c, r) ==
    /\ phase[c] = "done"
    /\ request' = [request EXCEPT ![c] = r]
    /\ phase' = [phase EXCEPT ![c] = "received"]
    /\ UNCHANGED <<objects, managed, reply>>

Send(c, r) ==
    /\ phase[c] = "done"
    /\ request' = [request EXCEPT ![c] = r]
    /\ phase' = [phase EXCEPT ![c] = "received"]
    /\ reply' = [reply EXCEPT ![c] = Reply("none", {})]
    /\ UNCHANGED <<objects, managed>>

\* Mutant: the reserved names are looked for in the tenant's spelling.
RefusedByTenantName(t, r) ==
    \/ r.verb = "create" /\ r.kind = "Namespace" /\ ~NamespaceNameForTenant(t, r.owner)
    \/ r.verb \in {"create", "update", "delete"} /\ IsReservedClusterName(t, r)
    \/ r.verb # "list" /\ IsManagedBindingName(r)

\* Mutant: reserved roles may not be created but may be deleted, and managed
\* bindings may not be deleted but may be created.
RefusedHalf(t, r) ==
    \/ r.verb = "create" /\ r.kind = "Namespace" /\ ~NamespaceNameForTenant(t, r.owner)
    \/ r.verb = "create" /\ IsReservedClusterName(t, ToUpstream(t, r))
    \/ r.verb = "delete" /\ IsManagedBindingName(ToUpstream(t, r))

\* Mutant: reserved roles may be updated.
RefusedButUpdates(t, r) ==
    \/ r.verb = "create" /\ r.kind = "Namespace" /\ ~NamespaceNameForTenant(t, r.owner)
    \/ r.verb \in {"create", "delete"} /\ IsReservedClusterName(t, ToUpstream(t, r))
    \/ r.verb # "list" /\ IsManagedBindingName(ToUpstream(t, r))

(***************************************************************************)
(* The names a tenant may not use: a new namespace under its own prefix, a *)
(* write to a role kubezoo keeps, any use of a binding kubezoo keeps.      *)
(***************************************************************************)
Refused(t, r) ==
    \/ r.verb = "create" /\ r.kind = "Namespace" /\ ~NamespaceNameForTenant(t, r.owner)
    \/ r.verb \in {"create", "update", "delete"} /\ IsReservedClusterName(t, ToUpstream(t, r))
    \/ r.verb # "list" /\ IsManagedBindingName(ToUpstream(t, r))

Forward(c) ==
    /\ phase[c] = "received"
    /\ IF Refused(TenantOf[c], request[c])
       THEN /\ phase' = [phase EXCEPT ![c] = "done"]
            /\ reply' = [reply EXCEPT ![c] = Reply("refused", {})]
            /\ request' = [request EXCEPT ![c] = NoRequest]
       ELSE /\ phase' = [phase EXCEPT ![c] = "forwarded"]
            /\ UNCHANGED <<request, reply>>
    /\ UNCHANGED <<objects, managed>>

\* Upstream answers c's request.
Answers(c, verb, answer) ==
    /\ phase[c] = "forwarded"
    /\ request[c].verb = verb
    /\ phase' = [phase EXCEPT ![c] = "answered"]
    /\ reply' = [reply EXCEPT ![c] = answer]
    /\ UNCHANGED request

Create(c) ==
    /\ UNCHANGED managed
    /\ \/ /\ Rejection(Target(c), Upstream) = "none"
          /\ Answers(c, "create", Reply("ok", {Target(c)}))
          /\ objects' = objects \cup {Target(c)}
       \/ /\ Rejection(Target(c), Upstream) # "none"
          /\ Answers(c, "create", Reply(Rejection(Target(c), Upstream), {}))
          /\ UNCHANGED objects

Get(c) ==
    /\ UNCHANGED <<objects, managed>>
    /\ IF Target(c) \in Upstream
       THEN Answers(c, "get", Reply("ok", {Target(c)}))
       ELSE Answers(c, "get", Reply("notfound", {}))

\* An object that is updated is its writer's from then on, whoever made it.
Update(c) ==
    \/ /\ Target(c) \in Upstream
       /\ Answers(c, "update", Reply("ok", {Target(c)}))
       /\ objects' = objects \cup {Target(c)}
       /\ managed' = managed \ {Target(c)}
    \/ /\ Target(c) \notin Upstream
       /\ Answers(c, "update", Reply("notfound", {}))
       /\ UNCHANGED <<objects, managed>>

Delete(c) ==
    \/ /\ Target(c) \in Upstream
       /\ Answers(c, "delete", Reply("ok", {}))
       /\ objects' = objects \ Erased(Target(c), Upstream)
       /\ managed' = managed \ Erased(Target(c), Upstream)
    \/ /\ Target(c) \notin Upstream
       /\ Answers(c, "delete", Reply("notfound", {}))
       /\ UNCHANGED <<objects, managed>>

List(c) ==
    /\ Answers(c, "list",
               Reply("ok", Listed(request[c].kind,
                                  UpstreamNamespace(TenantOf[c], request[c].owner),
                                  Upstream)))
    /\ UNCHANGED <<objects, managed>>

\* Mutant: a list is filtered by owner alone.
FilteredByOwner(t, items) == { o \in items : UpstreamObjectBelongsToTenant(t, o) }

\* Mutant: the list of a whole kind is not filtered.
FilteredByName(t, items) == { o \in items : ~IsManagedBindingName(o) }

(***************************************************************************)
(* The answer in the tenant's terms.  A list is filtered: what is not the  *)
(* tenant's, and the bindings kubezoo keeps, are left out of it.           *)
(***************************************************************************)
Filtered(t, items) ==
    { o \in items : UpstreamObjectBelongsToTenant(t, o) /\ ~IsManagedBindingName(o) }

InTenantTerms(t, r, items) ==
    { ToTenant(t, o) : o \in IF r.verb = "list" THEN Filtered(t, items) ELSE items }

Respond(c) ==
    /\ phase[c] = "answered"
    /\ phase' = [phase EXCEPT ![c] = "done"]
    /\ reply' = [reply EXCEPT ![c].items = InTenantTerms(TenantOf[c], request[c], reply[c].items)]
    /\ request' = [request EXCEPT ![c] = NoRequest]
    /\ UNCHANGED <<objects, managed>>

(***************************************************************************)
(* kubezoo's controller: the roles it keeps for a tenant, the bindings it  *)
(* keeps in a tenant's namespaces and takes back when the tenant is frozen.*)
(***************************************************************************)
KeepRole(t) ==
    /\ \E r \in ReservedRole :
         managed' = managed \cup {[kind  |-> "ClusterRole",
                                   owner |-> AddTenantIDPrefix(t, r), name |-> NoName]}
    /\ UNCHANGED <<objects, phase, request, reply>>

KeepBinding(t) ==
    /\ \E ns \in Upstream, b \in ManagedBinding :
         /\ ns.kind = "Namespace" /\ UpstreamObjectBelongsToTenant(t, ns)
         /\ managed' = managed \cup {[kind |-> "RoleBinding", owner |-> ns.owner, name |-> b]}
    /\ UNCHANGED <<objects, phase, request, reply>>

WithdrawBindings(t) ==
    /\ managed' = { o \in managed : ~(/\ IsManagedBindingName(o)
                                      /\ UpstreamObjectBelongsToTenant(t, o)) }
    /\ UNCHANGED <<objects, phase, request, reply>>

Step(c) ==
    Forward(c) \/ Create(c) \/ Get(c) \/ Update(c) \/ Delete(c) \/ List(c) \/ Respond(c)

Next ==
    \/ \E c \in Client : Step(c) \/ \E r \in Request : Send(c, r)
    \/ \E t \in Tenant : KeepRole(t) \/ KeepBinding(t) \/ WithdrawBindings(t)

Spec == Init /\ [][Next]_vars

-----------------------------------------------------------------------------

\* what a tenant would find in its cluster
View(t) == { o \in Upstream : UpstreamObjectBelongsToTenant(t, o) }

(***************************************************************************)
(* An object in a tenant's view is the one reached by asking for it under  *)
(* the name the view gives it, and a namespace in the view can be entered: *)
(* the requests that name it for their objects arrive in it.  It fails     *)
(* when two of a tenant's names meet upstream, or when something is stored *)
(* where no spelling leads (UpstreamNamespace, NamespaceNameForTenant).    *)
(***************************************************************************)
ViewIsAddressable ==
    \A t \in Tenant : \A o \in View(t) :
        /\ ToUpstream(t, ToTenant(t, o)) = o
        /\ o.kind = "Namespace" =>
              UpstreamNamespace(t, ToTenant(t, o).owner) = o.owner

(***************************************************************************)
(* What kubezoo keeps among a tenant's objects was written by kubezoo: no  *)
(* request makes an object under a reserved name (IsReservedClusterName,   *)
(* IsManagedBindingName).                                                  *)
(***************************************************************************)
ManagedIsKubezoos ==
    \A o \in objects \ PlatformObject :
        /\ ~IsManagedBindingName(o)
        /\ \A t \in Tenant : ~IsReservedClusterName(t, o)

(***************************************************************************)
(* No step changes a tenant's view but the API server's execution of a     *)
(* request of that tenant, or the controller's work, which adds and        *)
(* removes only what kubezoo keeps; the platform's objects never change.   *)
(***************************************************************************)
Executes(t) ==
    \E c \in Client : TenantOf[c] = t /\ phase[c] = "forwarded" /\ phase'[c] = "answered"

IsolatedStep ==
    /\ \A t \in Tenant :
          View(t)' # View(t) =>
             Executes(t) \/ KeepRole(t) \/ KeepBinding(t) \/ WithdrawBindings(t)
    /\ PlatformObject \subseteq objects'

Isolation == [][IsolatedStep]_vars

(***************************************************************************)
(* A role kubezoo keeps is not taken away by any request                   *)
(* (IsReservedClusterName).                                                *)
(***************************************************************************)
KeptRolesStayStep == \A o \in managed : o.kind = "ClusterRole" => o \in managed'

KeptRolesStay == [][KeptRolesStayStep]_vars

-----------------------------------------------------------------------------

(***************************************************************************)
(* Each tenant's cluster is its part of the upstream one, in its terms; a  *)
(* request has taken effect once upstream has answered it, and its answer  *)
(* is then the one that Respond will give.                                 *)
(***************************************************************************)
InTerms(t, objs) ==
    { ToTenant(t, o) : o \in { p \in objs : UpstreamObjectBelongsToTenant(t, p) } }

clusterBar == [t \in Tenant |-> InTerms(t, objects)]
keptBar == [t \in Tenant |-> InTerms(t, managed)]

phaseBar ==
    [c \in Client |-> CASE phase[c] \in {"received", "forwarded"} -> "called"
                        [] phase[c] = "answered" -> "taken"
                        [] phase[c] = "done" -> "done"]

replyBar ==
    [c \in Client |->
        IF phase[c] = "answered"
        THEN [reply[c] EXCEPT !.items = InTenantTerms(TenantOf[c], request[c], @)]
        ELSE reply[c]]

Clusters == INSTANCE TenantClusters
              WITH cluster <- clusterBar, kept <- keptBar,
                   phase <- phaseBar, reply <- replyBar

(***************************************************************************)
(* Sharing one upstream cluster is invisible: every run of kubezoo is one  *)
(* of tenants that each have a cluster of their own.                       *)
(***************************************************************************)
ImplementsTenantClusters == Clusters!Spec

=============================================================================
