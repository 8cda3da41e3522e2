---------------------------- MODULE Impersonation ----------------------------
(***************************************************************************)
(* The way of a request from its credential to the identity upstream sees. *)
(*                                                                         *)
(* Requests are handled concurrently.  The user.Info of a ServiceAccount   *)
(* token is handed out of a cache: every request that presents the token   *)
(* within its time to live holds the same Extra map.  A map is told by its *)
(* address; what it holds under TenantIDKey is all that matters of it.     *)
(***************************************************************************)
EXTENDS TenantIdentity

CONSTANTS Worker,      \* the gateway's goroutines, one request each at a time
          Credential,  \* what clients present; kubezoo's own work has one too
          Cached,      \* the credentials whose user.Info the token cache shares
          UserOf,      \* the user a credential authenticates, NoUser for kubezoo
          TenantOf,    \* the tenant it resolves to, NoName when to none
          GroupsOf,    \* the groups it carries
          Asked        \* what is asked: verb and resource

Header == {"user", "group", "uid", "extra"}  \* the Impersonate-* families

(***************************************************************************)
(* A request is forwarded through the dynamic client, which writes the     *)
(* headers anew, or relayed (exec, logs, attach, port-forward, proxy) with *)
(* the headers its client sent.                                            *)
(***************************************************************************)
Request ==
    [by : Credential, asks : Asked, relayed : {FALSE}, headers : {{}}] \cup
    [by : { c \in Credential : UserOf[c] # NoUser },
     asks : { a \in Asked : a.resource = "pods/exec" },
     relayed : {TRUE}, headers : SUBSET Header]

(***************************************************************************)
(* kubezoo signs the certificates of tenants itself: the subject's CN is   *)
(* the tenant's admin user, its OU the tenant (NewTenantCertAndKey).  So   *)
(* whoever authenticates as the admin user of a tenant resolves to it.     *)
(***************************************************************************)
ASSUME CredentialAssumption ==
    /\ Cached \subseteq Credential
    /\ UserOf \in [Credential -> {NoUser} \cup
                     [sort : {"user", "serviceaccount"}, namespace : Name, name : Name]]
    /\ TenantOf \in [Credential -> Tenant \cup {NoName}]
    /\ GroupsOf \in [Credential -> SUBSET [sort : KubezooSorts \cup {"other"}, tenant : Name,
                                           namespace : Name, name : Name]]
    /\ \A c \in Credential :
          /\ UserOf[c] = NoUser => TenantOf[c] = NoName /\ c \notin Cached
          /\ \A t \in Tenant : UserOf[c] = TenantAdminUser(t) => TenantOf[c] = t

\* No map in the cache is one that a worker makes for itself.
ASSUME MapAssumption == Cached \cap (Worker \X {"info", "copy"}) = {}

VARIABLES pc,        \* where each worker is
          request,   \* the request it handles
          held,      \* the Extra map of the user in the request's context
          tenantKey, \* the tenant each map holds under TenantIDKey
          arrival    \* what upstream has been sent

vars == <<pc, request, held, tenantKey, arrival>>

Map == Cached \cup (Worker \X {"info", "copy"})

NoRequest == [by |-> "none"]
Arrival(user, groups, clients) == [user |-> user, groups |-> groups, clients |-> clients]
Nothing == Arrival(NoUser, {}, {})

TypeOK ==
    /\ pc \in [Worker -> {"idle", "authenticated", "tagging", "ready", "sent"}]
    /\ request \in [Worker -> Request \cup {NoRequest}]
    /\ held \in [Worker -> Map]
    /\ tenantKey \in [Map -> Tenant \cup {NoName}]
    /\ \A w \in Worker :
          /\ pc[w] # "idle" => request[w] # NoRequest
          /\ pc[w] # "sent" => arrival[w] = Nothing
          /\ arrival[w].clients \subseteq Header

Init ==
    /\ pc = [w \in Worker |-> "idle"]
    /\ request = [w \in Worker |-> NoRequest]
    /\ held = [w \in Worker |-> <<w, "info">>]
    /\ tenantKey = [m \in Map |-> NoName]
    /\ arrival = [w \in Worker |-> Nothing]

-----------------------------------------------------------------------------

Authenticate(w) ==
    /\ pc[w] = "idle"
    /\ \E r \in Request :
         /\ request' = [request EXCEPT ![w] = r]
         /\ held' = [held EXCEPT ![w] = IF r.by \in Cached THEN r.by ELSE <<w, "info">>]
         /\ pc' = [pc EXCEPT ![w] = IF TenantOf[r.by] = NoName THEN "ready"
                                    ELSE "authenticated"]
    /\ UNCHANGED <<tenantKey, arrival>>

\* Mutant: the tenant id is written into the map that was authenticated.
TargetInPlace(w) == held[w]

(***************************************************************************)
(* AddTenantIDToUserInfo reads the map it is given and writes a new one,   *)
(* which takes a while.                                                    *)
(***************************************************************************)
Target(w) == <<w, "copy">>

BeginAddTenantID(w) ==
    /\ pc[w] = "authenticated"
    /\ pc' = [pc EXCEPT ![w] = "tagging"]
    /\ UNCHANGED <<request, held, tenantKey, arrival>>

\* Mutant: the context keeps the user that was authenticated.
EndAddingNothing(w) ==
    /\ pc[w] = "tagging"
    /\ tenantKey' = [tenantKey EXCEPT ![Target(w)] = TenantOf[request[w].by]]
    /\ pc' = [pc EXCEPT ![w] = "ready"]
    /\ UNCHANGED <<request, held, arrival>>

EndAddTenantID(w) ==
    /\ pc[w] = "tagging"
    /\ tenantKey' = [tenantKey EXCEPT ![Target(w)] = TenantOf[request[w].by]]
    /\ held' = [held EXCEPT ![w] = Target(w)]
    /\ pc' = [pc EXCEPT ![w] = "ready"]
    /\ UNCHANGED <<request, arrival>>

TenantIDFrom(w) == tenantKey[held[w]]

\* Mutant: the headers kubezoo does not set itself are left in.
DropUserAndGroup(headers) == headers \ {"user", "group"}

\* What is left of a relayed request's own Impersonate-* headers.
DropClientImpersonation(headers) == headers \ Header

\* Mutant: the headers are written for the tenants' own credentials alone.
ImpersonateTenants(w) ==
    IF TenantIDFrom(w) = NoName THEN Nothing
    ELSE Arrival(UserOf[request[w].by],
                 ImpersonationGroups(TenantIDFrom(w), UserOf[request[w].by],
                                     GroupsOf[request[w].by], request[w].asks),
                 {})

\* No user in the context: the request is kubezoo's own and goes as kubezoo.
setImpersonateHeaders(w) ==
    IF UserOf[request[w].by] = NoUser THEN Nothing
    ELSE Arrival(UserOf[request[w].by],
                 ImpersonationGroups(TenantIDFrom(w), UserOf[request[w].by],
                                     GroupsOf[request[w].by], request[w].asks),
                 {})

Send(w, sent) ==
    /\ pc[w] = "ready"
    /\ arrival' = [arrival EXCEPT ![w] = sent]
    /\ pc' = [pc EXCEPT ![w] = "sent"]
    /\ UNCHANGED <<request, held, tenantKey>>

Forward(w) == ~request[w].relayed /\ Send(w, setImpersonateHeaders(w))

\* The gateway's user and groups replace the client's, the rest travels on.
Relay(w) ==
    /\ request[w].relayed
    /\ Send(w, [setImpersonateHeaders(w) EXCEPT
                  !.clients = DropClientImpersonation(request[w].headers) \ {"user", "group"}])

Finish(w) ==
    /\ pc[w] = "sent"
    /\ pc' = [pc EXCEPT ![w] = "idle"]
    /\ request' = [request EXCEPT ![w] = NoRequest]
    /\ held' = [held EXCEPT ![w] = <<w, "info">>]
    /\ tenantKey' = [tenantKey EXCEPT ![<<w, "info">>] = NoName, ![<<w, "copy">>] = NoName]
    /\ arrival' = [arrival EXCEPT ![w] = Nothing]

Next ==
    \E w \in Worker :
        \/ Authenticate(w) \/ BeginAddTenantID(w) \/ EndAddTenantID(w)
        \/ pc[w] = "ready" /\ (Forward(w) \/ Relay(w))
        \/ Finish(w)

Spec == Init /\ [][Next]_vars

-----------------------------------------------------------------------------

\* the maps a worker is reading or writing, or may at any moment
InUse(w) ==
    CASE pc[w] = "tagging" -> {held[w], Target(w)}
      [] pc[w] \in {"authenticated", "ready"} -> {held[w]}
      [] OTHER -> {}

(***************************************************************************)
(* No map is written while another request uses it: a concurrent write is  *)
(* a fatal error of the Go runtime, which takes the gateway down for every *)
(* tenant (AddTenantIDToUserInfo).                                         *)
(***************************************************************************)
NoConcurrentMapWrite ==
    \A v, w \in Worker : v # w /\ pc[w] = "tagging" => Target(w) \notin InUse(v)

KubezooGroups(w) == { g \in arrival[w].groups : IsKubezooGroup(g) }

(***************************************************************************)
(* Two users have no group of kubezoo's in common, whatever their          *)
(* credentials carry, but the one that permits writing a ClusterRole: what *)
(* upstream grants a group it grants one tenant, or one ServiceAccount     *)
(* (ImpersonationGroups, TenantSAGroup).                                   *)
(***************************************************************************)
GroupsAreNotShared ==
    \A v, w \in Worker :
        arrival[v].user # arrival[w].user =>
           KubezooGroups(v) \cap KubezooGroups(w) \subseteq {RoleAuthorGroup}

(***************************************************************************)
(* A request arrives as the user that authenticated it and never as        *)
(* kubezoo itself, and brings no impersonation of the client's making      *)
(* (setImpersonateHeaders, DropClientImpersonation).                       *)
(***************************************************************************)
ArrivesAsItsUser ==
    \A w \in Worker :
        pc[w] = "sent" => arrival[w].user = UserOf[request[w].by] /\ arrival[w].clients = {}

(***************************************************************************)
(* The tenant's own credential, and it alone, arrives with the tenant's    *)
(* group; with it alone comes the permission to escalate, and only to      *)
(* write a ClusterRole (ImpersonationGroups, writesAClusterRole).          *)
(***************************************************************************)
TenantsOwnReach ==
    \A w \in Worker :
        pc[w] = "sent" =>
           /\ \A t \in Tenant :
                 ProxiedGroup(t) \in arrival[w].groups <=> arrival[w].user = TenantAdminUser(t)
           /\ RoleAuthorGroup \in arrival[w].groups =>
                 /\ \E t \in Tenant : ProxiedGroup(t) \in arrival[w].groups
                 /\ request[w].asks.resource = "clusterroles"
                 /\ request[w].asks.verb \notin {"get", "delete"}

=============================================================================
