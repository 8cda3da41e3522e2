----------------------------- MODULE IdentityProofs -----------------------------
(***************************************************************************)
(* Proofs about who a request is upstream and what that lets it do: as     *)
(* whom it arrives (Impersonation), for any number of goroutines, any      *)
(* credentials, tenants and users, and any groups that the credentials     *)
(* carry; what it reaches (DynamicClient), for any number of requests that *)
(* share a client, any namespaces, names and subresources, names that are  *)
(* also names of subresources included; what tenants' workloads may do     *)
(* (WorkloadGrants), for any tenants, ServiceAccounts and ClusterRoles;    *)
(* and what a frozen tenant's do (FrozenTenants), for any namespaces and   *)
(* whoever writes to them.                                                 *)
(***************************************************************************)
EXTENDS Impersonation, DynamicClient, WorkloadGrants, FrozenTenants, TenantNamesProofs

\* Only a worker's copy ever holds a tenant.
MapInv ==
    \A m \in Map : (\A w \in Worker : m # <<w, "copy">>) => tenantKey[m] = NoName

\* A worker has a cached map or one of its own; when its request is ready, the
\* map says which tenant its credential is of.
HeldInv ==
    \A w \in Worker :
        /\ held[w] \in Cached \cup {<<w, "info">>, <<w, "copy">>}
        /\ pc[w] = "ready" => tenantKey[held[w]] = TenantOf[request[w].by]

\* What upstream is sent of a request r.
Impersonated(r) ==
    IF UserOf[r.by] = NoUser THEN Nothing
    ELSE Arrival(UserOf[r.by],
                 ImpersonationGroups(TenantOf[r.by], UserOf[r.by], GroupsOf[r.by], r.asks), {})

SentInv == \A w \in Worker : pc[w] = "sent" => arrival[w] = Impersonated(request[w])

Typed == TypeOK /\ DOMAIN arrival = Worker /\ arrival = [w \in Worker |-> arrival[w]]

IInv == Typed /\ MapInv /\ HeldInv /\ SentInv

-----------------------------------------------------------------------------
(***************************************************************************)
(* The parts of a request and of its credential.                           *)
(***************************************************************************)
LEMMA RequestParts ==
    ASSUME NEW r \in Request
    PROVE  /\ r.by \in Credential /\ r.headers \subseteq Header
           /\ TenantOf[r.by] \in Tenant \cup {NoName}
           /\ r # NoRequest
<1>1. r.by \in Credential /\ r.headers \subseteq Header /\ r.asks \in Asked
  BY DEF Request
<1>2. r # NoRequest
  <2>1. DOMAIN r = {"by", "asks", "relayed", "headers"}
    BY DEF Request
  <2>2. DOMAIN NoRequest = {"by"}
    BY DEF NoRequest
  <2> QED  BY <2>1, <2>2
<1> QED  BY <1>1, <1>2, CredentialAssumption

\* The maps of two workers are two maps, and none is in the cache.
LEMMA MapsDiffer ==
    ASSUME NEW v \in Worker, NEW w \in Worker
    PROVE  /\ <<w, "info">> \in Map /\ <<w, "copy">> \in Map
           /\ <<w, "info">> \notin Cached /\ <<w, "copy">> \notin Cached
           /\ <<w, "info">> # <<v, "copy">>
           /\ v # w => <<w, "copy">> # <<v, "copy">> /\ <<w, "info">> # <<v, "info">>
  BY MapAssumption DEF Map

-----------------------------------------------------------------------------

LEMMA AuthenticateKeeps ==
    ASSUME IInv, NEW w \in Worker, Authenticate(w)
    PROVE  IInv'
<1> USE DEF IInv, Typed
<1>1. PICK r \in Request :
        /\ request' = [request EXCEPT ![w] = r]
        /\ held' = [held EXCEPT ![w] = IF r.by \in Cached THEN r.by ELSE <<w, "info">>]
        /\ pc' = [pc EXCEPT ![w] = IF TenantOf[r.by] = NoName THEN "ready" ELSE "authenticated"]
  BY DEF Authenticate
<1>2. pc[w] = "idle" /\ UNCHANGED <<tenantKey, arrival>>
  BY DEF Authenticate
<1>3. held' \in [Worker -> Map]
  BY <1>1, MapsDiffer DEF TypeOK, Map
<1>4. request' \in [Worker -> Request \cup {NoRequest}] /\ r # NoRequest
  BY <1>1, RequestParts DEF TypeOK
<1>5. Typed'
  BY <1>1, <1>2, <1>3, <1>4 DEF TypeOK
<1>6. MapInv'
  BY <1>2 DEF MapInv
<1>7. tenantKey[held'[w]] = NoName
  <2>1. held'[w] \in Cached \cup {<<w, "info">>} /\ held'[w] \in Map
    BY <1>1, <1>3 DEF TypeOK
  <2>2. \A v \in Worker : held'[w] # <<v, "copy">>
    BY <2>1, MapsDiffer
  <2> QED  BY <2>1, <2>2 DEF MapInv
<1>8. HeldInv'
  BY <1>1, <1>2, <1>7 DEF HeldInv, TypeOK
<1>9. SentInv'
  BY <1>1, <1>2 DEF SentInv, TypeOK
<1> QED  BY <1>5, <1>6, <1>8, <1>9

LEMMA BeginKeeps ==
    ASSUME IInv, NEW w \in Worker, BeginAddTenantID(w)
    PROVE  IInv'
<1> USE DEF IInv, Typed
<1>1. Typed'
  BY DEF BeginAddTenantID, TypeOK
<1>2. MapInv' /\ HeldInv' /\ SentInv'
  BY DEF BeginAddTenantID, MapInv, HeldInv, SentInv, TypeOK
<1> QED  BY <1>1, <1>2

LEMMA EndKeeps ==
    ASSUME IInv, NEW w \in Worker, EndAddTenantID(w)
    PROVE  IInv'
<1> USE DEF IInv, Typed
<1> DEFINE copy == <<w, "copy">>
<1>1. /\ pc[w] = "tagging"
      /\ tenantKey' = [tenantKey EXCEPT ![copy] = TenantOf[request[w].by]]
      /\ held' = [held EXCEPT ![w] = copy]
      /\ pc' = [pc EXCEPT ![w] = "ready"]
      /\ UNCHANGED <<request, arrival>>
  BY DEF EndAddTenantID, Target
<1>2. copy \in Map /\ \A v \in Worker \ {w} : copy \notin Cached \cup {<<v, "info">>, <<v, "copy">>}
  BY MapsDiffer
<1>3. TenantOf[request[w].by] \in Tenant \cup {NoName}
  BY <1>1, RequestParts DEF TypeOK
<1>4. Typed'
  BY <1>1, <1>2, <1>3 DEF TypeOK
<1>5. MapInv'
  BY <1>1, <1>2 DEF MapInv, TypeOK
<1>6. HeldInv'
  <2> SUFFICES ASSUME NEW v \in Worker
               PROVE  /\ held'[v] \in Cached \cup {<<v, "info">>, <<v, "copy">>}
                      /\ pc'[v] = "ready" => tenantKey'[held'[v]] = TenantOf[request'[v].by]
    BY DEF HeldInv
  <2>1. CASE v = w
    BY <1>1, <1>2, <2>1 DEF TypeOK
  <2>2. CASE v # w
    <3>1. held'[v] = held[v] /\ held[v] \in Cached \cup {<<v, "info">>, <<v, "copy">>}
      BY <1>1, <2>2 DEF HeldInv, TypeOK
    <3>2. held[v] # copy
      BY <1>2, <2>2, <3>1
    <3>3. tenantKey'[held[v]] = tenantKey[held[v]] /\ pc'[v] = pc[v]
      BY <1>1, <2>2, <3>2 DEF TypeOK
    <3> QED  BY <1>1, <3>1, <3>3 DEF HeldInv
  <2> QED  BY <2>1, <2>2
<1>7. SentInv'
  BY <1>1 DEF SentInv, TypeOK
<1> QED  BY <1>4, <1>5, <1>6, <1>7

LEMMA SendKeeps ==
    ASSUME IInv, NEW w \in Worker, pc[w] = "ready", Forward(w) \/ Relay(w)
    PROVE  IInv'
<1> USE DEF IInv, Typed
<1> DEFINE r == request[w]
<1>1. r \in Request
  BY DEF TypeOK
<1>2. setImpersonateHeaders(w) = Impersonated(r)
  BY DEF setImpersonateHeaders, Impersonated, HeldInv, TenantIDFrom
<1>3. Impersonated(r).clients = {}
  BY DEF Impersonated, Nothing, Arrival
<1>4. ASSUME NEW d, d = {} PROVE [Impersonated(r) EXCEPT !.clients = d] = Impersonated(r)
  BY <1>4 DEF Impersonated, Nothing, Arrival
<1>5. DropClientImpersonation(r.headers) \ {"user", "group"} = {}
  BY <1>1, RequestParts DEF DropClientImpersonation
<1>6. Send(w, Impersonated(r))
  <2>1. CASE Forward(w)
    BY <1>2, <2>1 DEF Forward
  <2>2. CASE Relay(w)
    BY <1>2, <1>4, <1>5, <2>2 DEF Relay
  <2> QED  BY <2>1, <2>2
<1>7. /\ arrival' = [arrival EXCEPT ![w] = Impersonated(r)]
      /\ pc' = [pc EXCEPT ![w] = "sent"]
      /\ UNCHANGED <<request, held, tenantKey>>
  BY <1>6 DEF Send
<1> HIDE DEF r
<1>8. /\ arrival'[w] = Impersonated(r) /\ DOMAIN arrival' = Worker
      /\ \A v \in Worker \ {w} : arrival'[v] = arrival[v]
      /\ arrival' = [v \in Worker |-> arrival'[v]]
  BY <1>7
<1>9. Typed'
  BY <1>3, <1>7, <1>8 DEF TypeOK
<1>10. MapInv' /\ HeldInv'
  BY <1>7 DEF MapInv, HeldInv, TypeOK
<1>11. SentInv'
  BY <1>7, <1>8 DEF SentInv, TypeOK, r
<1> QED  BY <1>9, <1>10, <1>11

LEMMA FinishKeeps ==
    ASSUME IInv, NEW w \in Worker, Finish(w)
    PROVE  IInv'
<1> USE DEF IInv, Typed
<1>1. /\ pc' = [pc EXCEPT ![w] = "idle"]
      /\ request' = [request EXCEPT ![w] = NoRequest]
      /\ held' = [held EXCEPT ![w] = <<w, "info">>]
      /\ tenantKey' = [tenantKey EXCEPT ![<<w, "info">>] = NoName, ![<<w, "copy">>] = NoName]
      /\ arrival' = [arrival EXCEPT ![w] = Nothing]
  BY DEF Finish
<1>2. /\ DOMAIN arrival' = Worker /\ arrival' = [v \in Worker |-> arrival'[v]]
      /\ \A v \in Worker : arrival'[v] = IF v = w THEN Nothing ELSE arrival[v]
  BY <1>1
<1>3. tenantKey' \in [Map -> Tenant \cup {NoName}]
  BY <1>1 DEF TypeOK
<1>4. \A m \in Map : tenantKey'[m] = IF m \in {<<w, "info">>, <<w, "copy">>} THEN NoName
                                     ELSE tenantKey[m]
  BY <1>1, MapsDiffer DEF TypeOK
<1>5. held' \in [Worker -> Map]
  BY <1>1, MapsDiffer DEF TypeOK
<1>6. Typed'
  BY <1>1, <1>2, <1>3, <1>5 DEF TypeOK, Nothing, Arrival
<1>7. MapInv'
  BY <1>4 DEF MapInv
<1>8. HeldInv'
  <2> SUFFICES ASSUME NEW v \in Worker
               PROVE  /\ held'[v] \in Cached \cup {<<v, "info">>, <<v, "copy">>}
                      /\ pc'[v] = "ready" => tenantKey'[held'[v]] = TenantOf[request'[v].by]
    BY DEF HeldInv
  <2>1. CASE v = w
    BY <1>1, <2>1 DEF TypeOK
  <2>2. CASE v # w
    <3>1. /\ held'[v] = held[v] /\ pc'[v] = pc[v] /\ request'[v] = request[v]
          /\ held[v] \in Map /\ held[v] \in Cached \cup {<<v, "info">>, <<v, "copy">>}
      BY <1>1, <2>2 DEF HeldInv, TypeOK
    <3>2. held[v] \notin {<<w, "info">>, <<w, "copy">>}
      BY <2>2, <3>1, MapsDiffer
    <3>3. tenantKey'[held[v]] = tenantKey[held[v]]
      BY <1>4, <3>1, <3>2
    <3> QED  BY <3>1, <3>3 DEF HeldInv
  <2> QED  BY <2>1, <2>2
<1>9. SentInv'
  BY <1>1, <1>2 DEF SentInv, TypeOK
<1> QED  BY <1>6, <1>7, <1>8, <1>9

LEMMA IInvInit == Init => IInv
<1> SUFFICES ASSUME Init PROVE IInv
  OBVIOUS
<1>1. Typed
  BY MapsDiffer DEF Init, Typed, TypeOK, Nothing, Arrival
<1>2. MapInv /\ HeldInv /\ SentInv
  BY DEF Init, MapInv, HeldInv, SentInv
<1> QED  BY <1>1, <1>2 DEF IInv

LEMMA IInvStep == IInv /\ [Next]_vars => IInv'
<1>1. ASSUME IInv, UNCHANGED vars PROVE IInv'
  BY <1>1 DEF vars, IInv, Typed, TypeOK, MapInv, HeldInv, SentInv
<1> QED
  BY <1>1, AuthenticateKeeps, BeginKeeps, EndKeeps, SendKeeps, FinishKeeps DEF Next

LEMMA IInvHolds == Spec => []IInv
  BY IInvInit, IInvStep, PTL DEF Spec

-----------------------------------------------------------------------------
(***************************************************************************)
(* Which of kubezoo's groups a request carries, and which user it is from  *)
(* when it carries one.                                                    *)
(***************************************************************************)
ByAdmin(r) == UserOf[r.by] = TenantAdminUser(TenantOf[r.by])

AsTenant(r, g) == ByAdmin(r) /\ g = ProxiedGroup(TenantOf[r.by])

AsAuthor(r, g) == ByAdmin(r) /\ g = RoleAuthorGroup /\ writesAClusterRole(r.asks)

AsWorkload(r, g) ==
    LET sa == TenantSAFromUsername(UserOf[r.by])
    IN  sa.ok /\ sa.tenant = TenantOf[r.by] /\ g = TenantSAGroup(sa.tenant, sa.namespace, sa.name)

KubezooGroup(r, g) ==
    TenantOf[r.by] \in Tenant /\ (AsTenant(r, g) \/ AsAuthor(r, g) \/ AsWorkload(r, g))

LEMMA TenantIsNamed == \A t \in Tenant : t # NoName
<1> SUFFICES ASSUME NEW t \in Tenant PROVE t # NoName
  OBVIOUS
<1>1. Len(t) = TenantIDLength /\ Len(NoName) = 0 /\ TenantIDLength # 0
  BY PrefixShape, LengthAssumption DEF NoName
<1> QED  BY <1>1

LEMMA GroupsCarried ==
    ASSUME NEW r \in Request
    PROVE  /\ \A g \in Impersonated(r).groups : IsKubezooGroup(g) => KubezooGroup(r, g)
           /\ UserOf[r.by] # NoUser /\ TenantOf[r.by] \in Tenant
              /\ UserOf[r.by] = TenantAdminUser(TenantOf[r.by])
                => ProxiedGroup(TenantOf[r.by]) \in Impersonated(r).groups
<1> DEFINE t == TenantOf[r.by]
           u == UserOf[r.by]
           others == { g \in GroupsOf[r.by] : ~IsKubezooGroup(g) }
           sa == TenantSAFromUsername(u)
<1>1. t \in Tenant \cup {NoName}
  BY RequestParts
<1>2. CASE u = NoUser
  BY <1>2 DEF Impersonated, Nothing, Arrival
<1>3. CASE u # NoUser
  <2>1. Impersonated(r).groups = ImpersonationGroups(t, u, GroupsOf[r.by], r.asks)
    BY <1>3 DEF Impersonated, Arrival
  <2>2. CASE t = NoName
    <3>1. Impersonated(r).groups = others \cup {}
      BY <2>1, <2>2 DEF ImpersonationGroups
    <3> QED  BY <2>2, <3>1, TenantIsNamed
  <2>3. CASE t # NoName /\ u = TenantAdminUser(t)
    <3>1. Impersonated(r).groups =
              others \cup ({ProxiedGroup(t)} \cup
                           (IF writesAClusterRole(r.asks) THEN {RoleAuthorGroup} ELSE {}))
      BY <2>1, <2>3 DEF ImpersonationGroups
    <3>2. t \in Tenant
      BY <1>1, <2>3
    <3> QED  BY <2>3, <3>1, <3>2 DEF KubezooGroup, AsTenant, AsAuthor, ByAdmin
  <2>4. CASE t # NoName /\ u # TenantAdminUser(t) /\ sa.ok /\ sa.tenant = t
    <3>1. Impersonated(r).groups = others \cup {TenantSAGroup(t, sa.namespace, sa.name)}
      BY <2>1, <2>4 DEF ImpersonationGroups
    <3>2. t \in Tenant
      BY <1>1, <2>4
    <3> QED  BY <2>4, <3>1, <3>2 DEF KubezooGroup, AsWorkload
  <2>5. CASE t # NoName /\ u # TenantAdminUser(t) /\ ~(sa.ok /\ sa.tenant = t)
    <3>1. Impersonated(r).groups = others \cup {}
      BY <2>1, <2>5 DEF ImpersonationGroups
    <3> QED  BY <2>5, <3>1
  <2> QED  BY <2>2, <2>3, <2>4, <2>5
<1> QED  BY <1>2, <1>3

(***************************************************************************)
(* A ServiceAccount's group tells which ServiceAccount it is: its tenant   *)
(* has fixed width, so taking the prefix off its namespace loses nothing.  *)
(***************************************************************************)
LEMMA SAIsNamedByItsGroup ==
    ASSUME NEW u \in [sort : {"user", "serviceaccount"}, namespace : Name, name : Name],
           NEW t \in Tenant, TenantSAFromUsername(u).ok, TenantSAFromUsername(u).tenant = t
    PROVE  /\ u = ServiceAccount(TenantSAFromUsername(u).namespace, TenantSAFromUsername(u).name)
           /\ TenantSAFromUsername(u).namespace =
                AddTenantIDPrefix(t, TrimTenantIDPrefix(t, TenantSAFromUsername(u).namespace))
<1> DEFINE ns == u.namespace
<1>1. /\ u.sort = "serviceaccount"
      /\ Len(ns) > TenantIDLength + 1 /\ ns[TenantIDLength + 1] = Dash
      /\ TenantSAFromUsername(u) = [ok |-> TRUE, tenant |-> SubSeq(ns, 1, TenantIDLength),
                                    namespace |-> ns, name |-> u.name]
  BY DEF TenantSAFromUsername, NotASA
<1>2. SubSeq(ns, 1, TenantIDLength) = t
  BY <1>1
<1>3. ns \in Name /\ Len(ns) \in Nat /\ TenantIDLength \in Nat
  BY LenProperties, LengthAssumption DEF Name
<1>4. \A i \in 1 .. TenantIDLength : ns[i] = t[i]
  BY <1>1, <1>2, <1>3 DEF Name
<1>5. HasTenantPrefix(t, ns)
  <2>1. Len(ns) >= TenantIDLength + 1 /\ ns[TenantIDLength + 1] = Dash
    BY <1>1, <1>3
  <2> HIDE DEF ns
  <2> QED  BY <1>3, <1>4, <2>1, PrefixCharacters
<1>6. AddTenantIDPrefix(t, TrimTenantIDPrefix(t, ns)) = ns
  BY <1>3, <1>5, AddUndoesTrim
<1> QED  BY <1>1, <1>6 DEF ServiceAccount

\* What is sent is sent as the user of the request's credential.
LEMMA SentAs ==
    ASSUME IInv, NEW w \in Worker, pc[w] = "sent"
    PROVE  /\ request[w] \in Request
           /\ arrival[w] = Impersonated(request[w])
           /\ arrival[w].user = UserOf[request[w].by] /\ arrival[w].clients = {}
<1>1. request[w] \in Request
  BY DEF IInv, Typed, TypeOK
<1>2. arrival[w] = Impersonated(request[w])
  BY DEF IInv, SentInv
<1> QED  BY <1>1, <1>2 DEF Impersonated, Nothing, Arrival

LEMMA GroupTellsUser ==
    ASSUME NEW q \in Request, NEW r \in Request, NEW g, g # RoleAuthorGroup,
           KubezooGroup(q, g), KubezooGroup(r, g)
    PROVE  UserOf[q.by] = UserOf[r.by]
<1> DEFINE User == [sort : {"user", "serviceaccount"}, namespace : Name, name : Name]
           sa(k) == TenantSAFromUsername(UserOf[k.by])
<1>1. UserOf[q.by] \in User /\ UserOf[r.by] \in User
  <2>1. NoUser \in User
    BY EmptySeq DEF NoUser, PlainUser, NoName, Name
  <2> QED  BY <2>1, RequestParts, CredentialAssumption
<1>2. TenantOf[q.by] \in Tenant /\ TenantOf[r.by] \in Tenant
  BY DEF KubezooGroup
<1>3. (AsTenant(q, g) \/ AsWorkload(q, g)) /\ (AsTenant(r, g) \/ AsWorkload(r, g))
  BY DEF KubezooGroup, AsAuthor
<1>4. CASE AsTenant(q, g) /\ AsTenant(r, g)
  BY <1>4 DEF AsTenant, ByAdmin, ProxiedGroup, Group
<1>5. CASE (AsTenant(q, g) /\ AsWorkload(r, g)) \/ (AsWorkload(q, g) /\ AsTenant(r, g))
  <2>1. \A s, t, n, m : ProxiedGroup(s) # TenantSAGroup(t, n, m)
    BY DEF ProxiedGroup, TenantSAGroup, Group
  <2> QED  BY <1>5, <2>1 DEF AsTenant, AsWorkload
<1>6. CASE AsWorkload(q, g) /\ AsWorkload(r, g)
  <2> DEFINE x == sa(q)
             y == sa(r)
             t == TenantOf[q.by]
  <2>1. /\ TenantOf[r.by] = t /\ x.name = y.name
        /\ TrimTenantIDPrefix(t, x.namespace) = TrimTenantIDPrefix(t, y.namespace)
    BY <1>6 DEF AsWorkload, TenantSAGroup, Group
  <2>2. x.ok /\ x.tenant = t /\ y.ok /\ y.tenant = t
    BY <1>6, <2>1 DEF AsWorkload
  <2>3. /\ UserOf[q.by] = ServiceAccount(x.namespace, x.name)
        /\ x.namespace = AddTenantIDPrefix(t, TrimTenantIDPrefix(t, x.namespace))
    BY <1>1, <1>2, <2>2, SAIsNamedByItsGroup
  <2>4. /\ UserOf[r.by] = ServiceAccount(y.namespace, y.name)
        /\ y.namespace = AddTenantIDPrefix(t, TrimTenantIDPrefix(t, y.namespace))
    BY <1>1, <1>2, <2>2, SAIsNamedByItsGroup
  <2> HIDE DEF x, y, t
  <2>5. x.namespace = y.namespace
    BY <2>1, <2>3, <2>4
  <2> QED  BY <2>1, <2>3, <2>4, <2>5
<1> QED  BY <1>3, <1>4, <1>5, <1>6

-----------------------------------------------------------------------------

(***************************************************************************)
(* Every variable of the way of a request keeps its type.                  *)
(***************************************************************************)
THEOREM ImpersonationTyped == Spec => []TypeOK
<1>1. IInv => TypeOK
  BY DEF IInv, Typed
<1> QED  BY <1>1, IInvHolds, PTL

(***************************************************************************)
(* The map that a worker writes the tenant id into is its own copy, never  *)
(* the one that the token cache shares.                                    *)
(***************************************************************************)
THEOREM MapsAreWrittenAlone == Spec => []NoConcurrentMapWrite
<1>1. IInv => NoConcurrentMapWrite
  <2> SUFFICES ASSUME IInv, NEW v \in Worker, NEW w \in Worker, v # w
               PROVE  Target(w) \notin InUse(v)
    BY DEF NoConcurrentMapWrite
  <2>1. held[v] # <<w, "copy">> /\ Target(w) # Target(v)
    BY MapsDiffer DEF IInv, HeldInv, Target
  <2>2. InUse(v) \subseteq {held[v], Target(v)}
    <3>1. CASE pc[v] = "tagging"
      BY <3>1 DEF InUse
    <3>2. CASE pc[v] \in {"authenticated", "ready"}
      BY <3>2 DEF InUse
    <3>3. CASE pc[v] \notin {"tagging", "authenticated", "ready"}
      BY <3>3 DEF InUse
    <3> QED  BY <3>1, <3>2, <3>3
  <2> QED  BY <2>1, <2>2 DEF Target
<1> QED  BY <1>1, IInvHolds, PTL

(***************************************************************************)
(* A request arrives as the user that authenticated it, with nothing of    *)
(* the client's making.                                                    *)
(***************************************************************************)
THEOREM RequestsArriveAsTheirUser == Spec => []ArrivesAsItsUser
<1>1. IInv => ArrivesAsItsUser
  BY SentAs DEF ArrivesAsItsUser
<1> QED  BY <1>1, IInvHolds, PTL

(***************************************************************************)
(* No two users have one of kubezoo's groups in common, but the one that   *)
(* permits writing a ClusterRole, whatever groups their credentials carry  *)
(* and however their namespaces are spelled.                               *)
(***************************************************************************)
THEOREM NoGroupIsShared == Spec => []GroupsAreNotShared
<1>1. IInv => GroupsAreNotShared
  <2> SUFFICES ASSUME IInv, NEW v \in Worker, NEW w \in Worker,
                      arrival[v].user # arrival[w].user,
                      NEW g \in KubezooGroups(v) \cap KubezooGroups(w), g # RoleAuthorGroup
               PROVE  FALSE
    BY DEF GroupsAreNotShared
  <2>1. g \in arrival[v].groups /\ g \in arrival[w].groups /\ IsKubezooGroup(g)
    BY DEF KubezooGroups
  <2>2. pc[v] = "sent" /\ pc[w] = "sent"
    BY <2>1 DEF IInv, Typed, TypeOK, Nothing, Arrival
  <2>3. KubezooGroup(request[v], g) /\ KubezooGroup(request[w], g)
    BY <2>1, <2>2, SentAs, GroupsCarried
  <2>4. UserOf[request[v].by] = UserOf[request[w].by]
    BY <2>2, <2>3, SentAs, GroupTellsUser
  <2> QED  BY <2>2, <2>4, SentAs
<1> QED  BY <1>1, IInvHolds, PTL

LEMMA AdminIsSomeone == \A t \in Tenant : TenantAdminUser(t) # NoUser
<1> SUFFICES ASSUME NEW t \in Tenant PROVE TenantAdminUser(t) # NoUser
  OBVIOUS
<1>1. AddTenantIDPrefix(t, Admin) \in Name
      /\ Len(AddTenantIDPrefix(t, Admin)) = TenantIDLength + 1 + Len(Admin) /\ Len(Admin) \in Nat
  BY TrimUndoesAdd, AdminAssumption, LenProperties DEF Name
<1>2. AddTenantIDPrefix(t, Admin) # NoName
  <2>1. Len(NoName) = 0 /\ TenantIDLength + 1 + Len(Admin) # 0
    BY <1>1, LengthAssumption DEF NoName
  <2> QED  BY <1>1, <2>1
<1> QED  BY <1>2 DEF TenantAdminUser, PlainUser, NoUser

(***************************************************************************)
(* A tenant's group is that of its own credential alone, and so is the     *)
(* group that permits escalating, which only comes with the writing of a   *)
(* ClusterRole.                                                            *)
(***************************************************************************)
THEOREM ReachIsTheTenants == Spec => []TenantsOwnReach
<1>1. IInv => TenantsOwnReach
  <2> SUFFICES ASSUME IInv, NEW w \in Worker, pc[w] = "sent"
               PROVE  /\ \A t \in Tenant : ProxiedGroup(t) \in arrival[w].groups
                                              <=> arrival[w].user = TenantAdminUser(t)
                      /\ RoleAuthorGroup \in arrival[w].groups =>
                            /\ \E t \in Tenant : ProxiedGroup(t) \in arrival[w].groups
                            /\ request[w].asks.resource = "clusterroles"
                            /\ request[w].asks.verb \notin {"get", "delete"}
    BY DEF TenantsOwnReach
  <2> DEFINE r == request[w]
             u == UserOf[r.by]
  <2>1. /\ r \in Request /\ r.by \in Credential
        /\ arrival[w] = Impersonated(r) /\ arrival[w].user = u
    BY SentAs, RequestParts
  <2>2. \A g \in arrival[w].groups : IsKubezooGroup(g) => KubezooGroup(r, g)
    BY <2>1, GroupsCarried
  <2>3. ASSUME NEW t \in Tenant, ProxiedGroup(t) \in arrival[w].groups
        PROVE  u = TenantAdminUser(t)
    <3>1. IsKubezooGroup(ProxiedGroup(t))
      BY DEF IsKubezooGroup, KubezooSorts, ProxiedGroup, Group
    <3>2. KubezooGroup(r, ProxiedGroup(t))
      BY <2>2, <2>3, <3>1
    <3> QED
      BY <3>2 DEF KubezooGroup, AsTenant, AsAuthor, AsWorkload, ByAdmin, ProxiedGroup,
                  RoleAuthorGroup, TenantSAGroup, Group
  <2>4. ASSUME NEW t \in Tenant, u = TenantAdminUser(t)
        PROVE  ProxiedGroup(t) \in arrival[w].groups
    <3>1. TenantOf[r.by] = t
      BY <2>1, <2>4, CredentialAssumption
    <3> QED  BY <2>1, <2>4, <3>1, GroupsCarried, AdminIsSomeone
  <2>5. ASSUME RoleAuthorGroup \in arrival[w].groups
        PROVE  /\ \E t \in Tenant : ProxiedGroup(t) \in arrival[w].groups
               /\ writesAClusterRole(r.asks)
    <3>1. IsKubezooGroup(RoleAuthorGroup)
      BY DEF IsKubezooGroup, KubezooSorts, RoleAuthorGroup, Group
    <3>2. KubezooGroup(r, RoleAuthorGroup)
      BY <2>2, <2>5, <3>1
    <3>3. TenantOf[r.by] \in Tenant /\ u = TenantAdminUser(TenantOf[r.by])
          /\ writesAClusterRole(r.asks)
      BY <3>2 DEF KubezooGroup, AsTenant, AsAuthor, AsWorkload, ByAdmin, ProxiedGroup,
                  RoleAuthorGroup, TenantSAGroup, Group
    <3> QED  BY <2>4, <3>3
  <2> QED  BY <2>1, <2>3, <2>4, <2>5 DEF writesAClusterRole
<1> QED  BY <1>1, IInvHolds, PTL

-----------------------------------------------------------------------------
(***************************************************************************)
(* What a request reaches.                                                 *)
(***************************************************************************)
\* The client a caller has is the shared one, which has no namespace, or a
\* copy with the namespace of its call.
HandleInv ==
    /\ shared = None
    /\ \A c \in Caller :
          call[c] # NoCall =>
             IF call[c].namespace = None THEN handle[c] = "shared"
             ELSE handle[c] = "own" /\ own[c] = call[c].namespace

ClientIInv == ClientTypeOK /\ HandleInv /\ ReachesWhatItNames /\ EveryVerbImpersonates

(***************************************************************************)
(* The arguments of a call.                                                *)
(***************************************************************************)
LEMMA CallParts ==
    ASSUME NEW k \in Call
    PROVE  /\ k.namespace \in Namespace \cup {None}
           /\ k.name \in ObjectName \cup {None}
           /\ k.sub \in Subresource \cup {None}
           /\ k.verb \in {"create", "update", "patch", "delete", "get"} => k.namespace # None
           /\ k.verb = "updatestatus" => k.sub = "status" /\ k.namespace # None
           /\ k.verb = "createsubresource" => k.sub # None /\ k.namespace # None
           /\ k.verb \in {"deletecollection", "list", "watch"} => k.sub = None
           /\ k # NoCall
<1>1. None \notin Namespace /\ None \notin Subresource /\ "status" \in Subresource
  BY ClientAssumption
<1>2. k.verb # "none" => k # NoCall
  BY DEF NoCall
<1> QED  BY <1>1, <1>2 DEF Call, Calls

\* A path with the name in it, and what it reaches.
LEMMA Paths ==
    ASSUME NEW k \in Call, k.name # None
    PROVE  /\ ObjectPath(k) = IF k.sub = None THEN <<k.name>> ELSE <<k.name, k.sub>>
           /\ ObjectPath(k) \in Seq(ObjectName \cup Subresource)
           /\ makeURLSegments(k.name) = <<k.name>>
<1>1. /\ k.name \in ObjectName
      /\ k.sub # None => k.sub \in Subresource
  BY CallParts
<1> DEFINE Part == ObjectName \cup Subresource
<1>2. makeURLSegments(k.name) = <<k.name>>
  BY DEF makeURLSegments
<1>3. CASE k.sub = None
  <2>1. ObjectPath(k) = <<k.name>> \o << >>
    BY <1>2, <1>3 DEF ObjectPath, subresources, makeURLSegments
  <2> QED  BY <1>1, <1>2, <1>3, <2>1
<1>4. CASE k.sub # None
  <2>1. ObjectPath(k) = <<k.name>> \o <<k.sub>>
    BY <1>2, <1>4 DEF ObjectPath, subresources, makeURLSegments
  <2>2. <<k.name>> \in Seq(Part) /\ <<k.sub>> \in Seq(Part) /\ <<k.name, k.sub>> \in Seq(Part)
    BY <1>1, <1>4
  <2>3. /\ <<k.name>> \o <<k.sub>> \in Seq(Part) /\ Len(<<k.name>> \o <<k.sub>>) = 2
        /\ (<<k.name>> \o <<k.sub>>)[1] = k.name /\ (<<k.name>> \o <<k.sub>>)[2] = k.sub
    BY <2>2, ConcatProperties
  <2>4. <<k.name>> \o <<k.sub>> = <<k.name, k.sub>>
    <3> DEFINE joined == <<k.name>> \o <<k.sub>>
               path   == <<k.name, k.sub>>
    <3>1. Len(joined) = Len(path) /\ \A i \in 1 .. Len(joined) : joined[i] = path[i]
      BY <2>3
    <3>2. joined \in Seq(Part) /\ path \in Seq(Part)
      BY <2>2, <2>3
    <3> HIDE DEF joined, path
    <3>3. joined = path
      BY <3>1, <3>2, SeqEqual
    <3> QED  BY <3>3 DEF joined, path
  <2> QED  BY <1>2, <1>4, <2>1, <2>2, <2>4
<1> QED  BY <1>3, <1>4

(***************************************************************************)
(* The request that a verb sends.                                          *)
(***************************************************************************)
Sends(c, method, path) ==
    /\ call[c] # NoCall /\ sent[c] = NoWire
    /\ sent' = [sent EXCEPT ![c] = [method |-> method, namespace |-> call[c].namespace,
                                    path |-> path, body |-> call[c].name, user |-> CallerUser[c]]]
    /\ UNCHANGED <<shared, own, handle, call>>

LEMMA DoSends ==
    ASSUME ClientTypeOK, HandleInv, NEW c \in Caller, call[c] # NoCall, sent[c] = NoWire,
           NEW method, NEW path, Do(c, method, path, impersonated(c))
    PROVE  Sends(c, method, path)
  BY DEF Do, Sends, HandleInv, impersonated

\* A request that reaches what its call means keeps all of the invariant.
LEMMA SendsKeeps ==
    ASSUME ClientIInv, NEW c \in Caller, NEW method \in Method,
           NEW path \in Seq(ObjectName \cup Subresource), Sends(c, method, path),
           Reached(sent'[c]) = Meant(call[c])
    PROVE  ClientIInv'
<1> USE DEF ClientIInv
<1>1. call[c] \in Call
  BY DEF Sends, ClientTypeOK
<1>2. [method |-> method, namespace |-> call[c].namespace, path |-> path,
       body |-> call[c].name, user |-> CallerUser[c]] \in Wire
  <2>1. /\ call[c].namespace \in Namespace \cup {None}
        /\ call[c].name \in ObjectName \cup {None} /\ CallerUser[c] \in STRING
    BY <1>1, CallParts, ClientAssumption
  <2> QED  BY <2>1 DEF Wire
<1>3. sent' \in [Caller -> Wire \cup {NoWire}]
  BY <1>2 DEF Sends, ClientTypeOK
<1>4. ClientTypeOK'
  BY <1>3 DEF Sends, ClientTypeOK
<1>5. HandleInv'
  BY DEF Sends, HandleInv
<1>6. ReachesWhatItNames'
  BY DEF Sends, ReachesWhatItNames, ClientTypeOK
<1>7. EveryVerbImpersonates'
  BY DEF Sends, EveryVerbImpersonates, ClientTypeOK
<1> QED  BY <1>4, <1>5, <1>6, <1>7

LEMMA DoneKeeps ==
    ASSUME ClientIInv, NEW c \in Caller, Done(c)
    PROVE  ClientIInv'
<1> USE DEF ClientIInv
<1>1. ClientTypeOK'
  BY DEF Done, ClientTypeOK
<1>2. HandleInv'
  BY DEF Done, HandleInv, ClientTypeOK
<1>3. ReachesWhatItNames' /\ EveryVerbImpersonates'
  BY DEF Done, ReachesWhatItNames, EveryVerbImpersonates, ClientTypeOK
<1> QED  BY <1>1, <1>2, <1>3

LEMMA ClientBeginKeeps ==
    ASSUME ClientIInv, NEW c \in Caller, Begin(c)
    PROVE  ClientIInv'
<1> USE DEF ClientIInv
<1>1. PICK k \in Call :
        /\ call' = [call EXCEPT ![c] = k]
        /\ \/ k.namespace # None /\ InNamespace(c, k.namespace)
           \/ k.namespace = None /\ UNCHANGED <<shared, own, handle>>
  BY DEF Begin
<1>2. call[c] = NoCall /\ sent[c] = NoWire /\ handle[c] = "shared" /\ sent' = sent
  BY DEF Begin, ClientTypeOK
<1>3. k.namespace \in Namespace \cup {None} /\ k # NoCall
  BY CallParts
<1>4. ClientTypeOK'
  BY <1>1, <1>2, <1>3 DEF InNamespace, ClientTypeOK
<1>5. HandleInv'
  BY <1>1, <1>2, <1>3 DEF InNamespace, HandleInv, ClientTypeOK
<1>6. ReachesWhatItNames' /\ EveryVerbImpersonates'
  BY <1>1, <1>2 DEF ReachesWhatItNames, EveryVerbImpersonates, ClientTypeOK
<1> QED  BY <1>4, <1>5, <1>6

-----------------------------------------------------------------------------
(***************************************************************************)
(* What is reached by a request to an object, to one of its subresources   *)
(* and to a collection.                                                    *)
(***************************************************************************)
LEMMA NamedKeeps ==
    ASSUME ClientIInv, NEW c \in Caller, NEW method \in Method, call[c] # NoCall, sent[c] = NoWire,
           call[c].verb \notin {"deletecollection", "list", "watch"},
           WithName(c, method, ObjectPath(call[c]))
    PROVE  ClientIInv'
<1>1. CASE Done(c)
  BY <1>1, DoneKeeps
<1>2. CASE call[c].name # None /\ Do(c, method, ObjectPath(call[c]), impersonated(c))
  <2> DEFINE k == call[c]
  <2>1. k \in Call /\ ClientTypeOK /\ HandleInv
    BY DEF ClientIInv, ClientTypeOK
  <2>2. Sends(c, method, ObjectPath(k))
    BY <1>2, <2>1, DoSends
  <2>3. ObjectPath(k) \in Seq(ObjectName \cup Subresource)
    BY <1>2, <2>1, Paths
  <2>4. sent'[c] = [method |-> method, namespace |-> k.namespace, path |-> ObjectPath(k),
                    body |-> k.name, user |-> CallerUser[c]]
    BY <2>1, <2>2 DEF Sends, ClientTypeOK
  <2>5. Reached(sent'[c]) = {At(k.namespace, k.name, k.sub)}
    <3>1. CASE k.sub = None
      <4>1. ObjectPath(k) = <<k.name>>
        BY <1>2, <2>1, <3>1, Paths
      <4> QED  BY <2>4, <3>1, <4>1 DEF Reached
    <3>2. CASE k.sub # None
      <4>1. ObjectPath(k) = <<k.name, k.sub>>
        BY <1>2, <2>1, <3>2, Paths
      <4> QED  BY <2>4, <4>1 DEF Reached
    <3> QED  BY <3>1, <3>2
  <2>6. Meant(k) = {At(k.namespace, k.name, k.sub)}
    BY DEF Meant
  <2> QED  BY <2>2, <2>3, <2>5, <2>6, SendsKeeps
<1> QED  BY <1>1, <1>2 DEF WithName

LEMMA CollectionKeeps ==
    ASSUME ClientIInv, NEW c \in Caller, NEW method \in Method, call[c] # NoCall, sent[c] = NoWire,
           Do(c, method, << >>, impersonated(c)),
           \/ /\ method \in {"DELETE", "GET"}
              /\ call[c].verb \in {"deletecollection", "list", "watch"}
           \/ method = "POST" /\ call[c].verb = "create" /\ call[c].sub = None
    PROVE  ClientIInv'
<1> DEFINE k == call[c]
<1>1. k \in Call /\ ClientTypeOK /\ HandleInv
  BY DEF ClientIInv, ClientTypeOK
<1>2. Sends(c, method, << >>)
  BY <1>1, DoSends
<1>3. sent'[c] = [method |-> method, namespace |-> k.namespace, path |-> << >>,
                  body |-> k.name, user |-> CallerUser[c]]
  BY <1>1, <1>2 DEF Sends, ClientTypeOK
<1>4. CASE method \in {"DELETE", "GET"} /\ k.verb \in {"deletecollection", "list", "watch"}
  <2>1. Reached(sent'[c]) = InAll(k.namespace)
    BY <1>3, <1>4 DEF Reached
  <2>2. Meant(k) = InAll(k.namespace)
    BY <1>4 DEF Meant
  <2> QED  BY <1>2, <2>1, <2>2, EmptySeq, SendsKeeps
<1>5. CASE method = "POST" /\ k.verb = "create" /\ k.sub = None
  <2>1. Reached(sent'[c]) = {At(k.namespace, k.name, None)}
    BY <1>3, <1>5 DEF Reached
  <2>2. Meant(k) = {At(k.namespace, k.name, None)}
    BY <1>5 DEF Meant
  <2> QED  BY <1>2, <2>1, <2>2, EmptySeq, SendsKeeps
<1> QED  BY <1>4, <1>5

-----------------------------------------------------------------------------

LEMMA ClientIInvInit == ClientInit => ClientIInv
  BY ClientAssumption
  DEF ClientInit, ClientIInv, ClientTypeOK, HandleInv, ReachesWhatItNames, EveryVerbImpersonates

LEMMA ClientIInvStep == ClientIInv /\ [ClientNext]_clientVars => ClientIInv'
<1> SUFFICES ASSUME ClientIInv, [ClientNext]_clientVars PROVE ClientIInv'
  OBVIOUS
<1>1. ASSUME NEW c \in Caller, NEW verb, verb # "none", Calling(c, verb)
      PROVE  call[c] # NoCall /\ sent[c] = NoWire /\ call[c].verb = verb
  BY <1>1 DEF Calling, NoCall
<1>2. ASSUME NEW c \in Caller, Begin(c) PROVE ClientIInv'
  BY <1>2, ClientBeginKeeps
<1>3. ASSUME NEW c \in Caller, CreateSubresource(c) PROVE ClientIInv'
  BY <1>1, <1>3, NamedKeeps DEF CreateSubresource, Method
<1>4. ASSUME NEW c \in Caller, Create(c) PROVE ClientIInv'
  BY <1>1, <1>4, NamedKeeps, CollectionKeeps DEF Create, Method
<1>5. ASSUME NEW c \in Caller, Update(c) \/ Delete(c) \/ Get(c) \/ Patch(c) PROVE ClientIInv'
  BY <1>1, <1>5, NamedKeeps DEF Update, Delete, Get, Patch, Method
<1>6. ASSUME NEW c \in Caller, UpdateStatus(c) PROVE ClientIInv'
  <2>1. call[c] # NoCall /\ sent[c] = NoWire /\ call[c].verb = "updatestatus"
    BY <1>1, <1>6 DEF UpdateStatus
  <2>2. call[c].sub = "status"
    BY <2>1, CallParts DEF ClientIInv, ClientTypeOK
  <2>3. ObjectPath(call[c]) = makeURLSegments(call[c].name) \o <<"status">>
    BY <2>2, ClientAssumption DEF ObjectPath, subresources, makeURLSegments
  <2> QED  BY <1>6, <2>1, <2>3, NamedKeeps DEF UpdateStatus, Method
<1>7. ASSUME NEW c \in Caller, DeleteCollection(c) \/ List(c) \/ Watch(c) PROVE ClientIInv'
  <2>1. makeURLSegments(None) = << >>
    BY DEF makeURLSegments
  <2> QED  BY <1>1, <1>7, <2>1, CollectionKeeps DEF DeleteCollection, List, Watch, Method
<1>8. ASSUME NEW c \in Caller, Answered(c) PROVE ClientIInv'
  BY <1>8, DoneKeeps DEF Answered
<1>9. ASSUME UNCHANGED clientVars PROVE ClientIInv'
  BY <1>9 DEF clientVars, ClientIInv, ClientTypeOK, HandleInv, ReachesWhatItNames, EveryVerbImpersonates
<1> QED
  BY <1>2, <1>3, <1>4, <1>5, <1>6, <1>7, <1>8, <1>9 DEF ClientNext

LEMMA ClientIInvHolds == ClientSpec => []ClientIInv
  BY ClientIInvInit, ClientIInvStep, PTL DEF ClientSpec

(***************************************************************************)
(* Callers, their copies of the client and what they sent keep their       *)
(* types; who calls nothing has sent nothing.                              *)
(***************************************************************************)
THEOREM ClientTyped == ClientSpec => []ClientTypeOK
<1>1. ClientIInv => ClientTypeOK
  BY DEF ClientIInv
<1> QED  BY <1>1, ClientIInvHolds, PTL

(***************************************************************************)
(* However many requests share a client, what each sends reaches what its  *)
(* call names and nothing else.                                            *)
(***************************************************************************)
THEOREM NothingElseIsReached == ClientSpec => []ReachesWhatItNames
<1>1. ClientIInv => ReachesWhatItNames
  BY DEF ClientIInv
<1> QED  BY <1>1, ClientIInvHolds, PTL

(***************************************************************************)
(* All ten verbs ask upstream as the user of their own request.            *)
(***************************************************************************)
THEOREM AllVerbsImpersonate == ClientSpec => []EveryVerbImpersonates
<1>1. ClientIInv => EveryVerbImpersonates
  BY DEF ClientIInv
<1> QED  BY <1>1, ClientIInvHolds, PTL

-----------------------------------------------------------------------------
\* The group of a workload, and what it is granted once a role was worked from.
SAGroupOf(w) == TenantSAGroup(OwnerOf(w), w.namespace, w.name)

GrantsOf(w, rules) ==
    { [group |-> SAGroupOf(w), rule |-> r] : r \in ClusterScopedRulesForSA(rules, ClusterScopedRules) }

(***************************************************************************)
(* What upstream grants is what the roles that the controller has worked   *)
(* from come to, each for the group of its own workload.                   *)
(***************************************************************************)
GrantsInv ==
    /\ role \in [Workload -> Role \cup {{}}]
    /\ read \in [Workload -> Role \cup {{}}]
    /\ groups = UNION { GrantsOf(w, read[w]) : w \in Workload }
    /\ wide = [w \in Workload |-> RulesSafeForClusterWideBinding(read[w], OwnerOf(w))]

-----------------------------------------------------------------------------
(***************************************************************************)
(* A workload and its group.                                               *)
(***************************************************************************)
LEMMA PrefixedHasItsTenant ==
    ASSUME NEW s \in Name, TenantIDFromPrefixed(s) \in Tenant
    PROVE  /\ HasTenantPrefix(TenantIDFromPrefixed(s), s)
           /\ Len(s) >= TenantIDLength + 2 /\ s[TenantIDLength + 1] = Dash
           /\ TenantIDFromPrefixed(s) = SubSeq(s, 1, TenantIDLength)
<1> DEFINE t == TenantIDFromPrefixed(s)
<1>1. Len(t) = TenantIDLength /\ TenantIDLength \in Nat \ {0} /\ Len(NoName) = 0
  BY PrefixShape, LengthAssumption DEF NoName
<1>2. /\ Len(s) >= TenantIDLength + 2 /\ s[TenantIDLength + 1] = Dash
      /\ t = SubSeq(s, 1, TenantIDLength)
  BY <1>1 DEF TenantIDFromPrefixed
<1>3. Len(s) \in Nat
  BY LenProperties DEF Name
<1>4. \A i \in 1 .. TenantIDLength : s[i] = t[i]
  BY <1>1, <1>2, <1>3 DEF Name
<1> HIDE DEF t
<1>5. t \in Tenant
  BY DEF t
<1>6. HasTenantPrefix(t, s)
  <2>1. Len(s) >= TenantIDLength + 1 /\ s[TenantIDLength + 1] = Dash
    BY <1>1, <1>2, <1>3
  <2> QED  BY <1>4, <1>5, <2>1, PrefixCharacters
<1> QED  BY <1>2, <1>6 DEF t

LEMMA WorkloadParts ==
    ASSUME NEW w \in Workload
    PROVE  /\ w.sort = "serviceaccount" /\ w.namespace \in Name /\ w.name # NoName
           /\ OwnerOf(w) \in Tenant /\ HasTenantPrefix(OwnerOf(w), w.namespace)
           /\ w = [sort |-> "serviceaccount", namespace |-> w.namespace, name |-> w.name]
           /\ TenantSAFromUsername(w) =
                [ok |-> TRUE, tenant |-> OwnerOf(w), namespace |-> w.namespace, name |-> w.name]
<1>1. /\ w.sort = "serviceaccount" /\ w.namespace \in Name /\ w.name # NoName
      /\ w = [sort |-> "serviceaccount", namespace |-> w.namespace, name |-> w.name]
      /\ OwnerOf(w) \in Tenant
  BY WorkloadAssumption
<1> DEFINE ns == w.namespace
<1>2. /\ HasTenantPrefix(OwnerOf(w), ns)
      /\ Len(ns) >= TenantIDLength + 2 /\ ns[TenantIDLength + 1] = Dash
      /\ OwnerOf(w) = SubSeq(ns, 1, TenantIDLength)
  BY <1>1, PrefixedHasItsTenant DEF OwnerOf
<1>3. Len(ns) \in Nat /\ TenantIDLength \in Nat
  BY <1>1, LenProperties, LengthAssumption DEF Name
<1> HIDE DEF ns
<1>4. Len(ns) > TenantIDLength + 1
  BY <1>2, <1>3
<1> QED  BY <1>1, <1>2, <1>4 DEF TenantSAFromUsername, ns

\* The gateway asserts the one group for a request of the workload.
LEMMA GroupAsserted ==
    ASSUME NEW w \in Workload
    PROVE  GroupsOfWorkload(w) = {SAGroupOf(w)}
<1> DEFINE t == OwnerOf(w)
<1>1. t # NoName
  <2>1. Len(t) = TenantIDLength /\ Len(NoName) = 0 /\ TenantIDLength # 0
    BY WorkloadParts, PrefixShape, LengthAssumption DEF NoName
  <2> QED  BY <2>1
<1>2. w # TenantAdminUser(t)
  BY WorkloadParts DEF TenantAdminUser, PlainUser
<1>3. LET sa == TenantSAFromUsername(w)
      IN  sa.ok /\ sa.tenant = t /\ sa.namespace = w.namespace /\ sa.name = w.name
  BY WorkloadParts
<1> HIDE DEF t
<1>4. \A u : {} \cup {u} = {u}
  OBVIOUS
<1>5. ImpersonationGroups(t, w, {}, [verb |-> "get", resource |-> "pods"]) =
          {TenantSAGroup(t, w.namespace, w.name)}
  BY <1>1, <1>2, <1>3 DEF ImpersonationGroups
<1> QED  BY <1>5 DEF GroupsOfWorkload, SAGroupOf, t

\* No two workloads share a group: it tells the tenant, the namespace and the name.
LEMMA GroupIsOwn ==
    ASSUME NEW v \in Workload, NEW w \in Workload, SAGroupOf(v) = SAGroupOf(w)
    PROVE  v = w
<1> DEFINE t == OwnerOf(w)
<1>1. /\ OwnerOf(v) = t /\ v.name = w.name
      /\ TrimTenantIDPrefix(t, v.namespace) = TrimTenantIDPrefix(t, w.namespace)
  BY DEF SAGroupOf, TenantSAGroup, Group
<1>2. /\ AddTenantIDPrefix(t, TrimTenantIDPrefix(t, v.namespace)) = v.namespace
      /\ AddTenantIDPrefix(t, TrimTenantIDPrefix(t, w.namespace)) = w.namespace
  BY <1>1, WorkloadParts, AddUndoesTrim
<1> QED  BY <1>1, <1>2, WorkloadParts

\* In either spelling of its namespace the workload has the one group.
LEMMA SpellingsMeet ==
    ASSUME NEW w \in Workload,
           NEW ns \in {w.namespace, TrimTenantIDPrefix(OwnerOf(w), w.namespace)}
    PROVE  TenantSAGroup(OwnerOf(w), ns, w.name) = SAGroupOf(w)
<1> DEFINE n == TrimTenantIDPrefix(OwnerOf(w), w.namespace)
<1>1. TrimTenantIDPrefix(OwnerOf(w), n) = n
  <2>1. ~HasTenantPrefix(OwnerOf(w), n)
    BY WorkloadAssumption DEF NamespaceNameForTenant
  <2> QED  BY <2>1 DEF TrimTenantIDPrefix
<1> QED  BY <1>1 DEF SAGroupOf, TenantSAGroup

-----------------------------------------------------------------------------

LEMMA NoRulesForNone ==
    /\ ClusterScopedRulesForSA({}, ClusterScopedRules) = {}
    /\ \A t : RulesSafeForClusterWideBinding({}, t) = {}
  BY DEF ClusterScopedRulesForSA, RulesSafeForClusterWideBinding

LEMMA GrantsInvInit == GrantsInit => GrantsInv
<1> SUFFICES ASSUME GrantsInit PROVE GrantsInv
  OBVIOUS
<1>1. \A w \in Workload : GrantsOf(w, read[w]) = {}
  BY NoRulesForNone DEF GrantsInit, GrantsOf
<1> QED  BY <1>1, NoRulesForNone DEF GrantsInit, GrantsInv

LEMMA ReconcileKeeps ==
    ASSUME GrantsInv, NEW w \in Workload, Reconcile(w)
    PROVE  GrantsInv'
<1> USE DEF GrantsInv
<1> DEFINE t == OwnerOf(w)
           g == SAGroupOf(w)
<1>1. PICK ns \in {w.namespace, TrimTenantIDPrefix(t, w.namespace)} :
         LET group == TenantSAGroup(t, ns, w.name)
         IN  /\ groups' = { h \in groups : h.group # group } \cup
                          { [group |-> group, rule |-> r] :
                              r \in ClusterScopedRulesForSA(role[w], ClusterScopedRules) }
             /\ wide' = [wide EXCEPT ![w] = RulesSafeForClusterWideBinding(role[w], t)]
             /\ read' = [read EXCEPT ![w] = role[w]]
             /\ UNCHANGED role
  BY DEF Reconcile
<1>2. TenantSAGroup(t, ns, w.name) = g
  BY SpellingsMeet
<1>3. /\ groups' = { h \in groups : h.group # g } \cup GrantsOf(w, role[w])
      /\ wide' = [wide EXCEPT ![w] = RulesSafeForClusterWideBinding(role[w], t)]
      /\ read' = [read EXCEPT ![w] = role[w]] /\ role' = role
  BY <1>1, <1>2 DEF GrantsOf
<1>4. /\ read' \in [Workload -> Role \cup {{}}]
      /\ \A v \in Workload : read'[v] = IF v = w THEN role[w] ELSE read[v]
  BY <1>3
<1>5. groups' = UNION { GrantsOf(v, read'[v]) : v \in Workload }
  <2>1. \A v \in Workload : \A rules : \A h \in GrantsOf(v, rules) : h.group = SAGroupOf(v)
    BY DEF GrantsOf
  <2>2. \A v \in Workload \ {w} : SAGroupOf(v) # g
    BY GroupIsOwn
  <2>3. { h \in groups : h.group # g } = UNION { GrantsOf(v, read[v]) : v \in Workload \ {w} }
    BY <2>1, <2>2
  <2>4. \A v \in Workload \ {w} : GrantsOf(v, read'[v]) = GrantsOf(v, read[v])
    BY <1>4
  <2>5. GrantsOf(w, read'[w]) = GrantsOf(w, role[w])
    BY <1>4
  <2> QED  BY <1>3, <2>3, <2>4, <2>5
<1>6. wide' = [v \in Workload |-> RulesSafeForClusterWideBinding(read'[v], OwnerOf(v))]
  BY <1>3, <1>4
<1> QED  BY <1>3, <1>4, <1>5, <1>6

LEMMA GrantsInvStep == GrantsInv /\ [GrantsNext]_grantsVars => GrantsInv'
<1> SUFFICES ASSUME GrantsInv, [GrantsNext]_grantsVars PROVE GrantsInv'
  OBVIOUS
<1>1. ASSUME NEW w \in Workload, WriteRole(w) PROVE GrantsInv'
  BY <1>1 DEF WriteRole, GrantsInv
<1>2. CASE UNCHANGED grantsVars
  BY <1>2 DEF grantsVars, GrantsInv
<1> QED  BY <1>1, <1>2, ReconcileKeeps DEF GrantsNext

LEMMA GrantsInvHolds == GrantsSpec => []GrantsInv
  BY GrantsInvInit, GrantsInvStep, PTL DEF GrantsSpec

\* What upstream grants a workload depends on the role that was read, and no other.
Granted ==
    \A w \in Workload :
        /\ GroupRules(w) = ClusterScopedRulesForSA(read[w], ClusterScopedRules)
        /\ wide[w] = RulesSafeForClusterWideBinding(read[w], OwnerOf(w))
        /\ read[w] \subseteq UNION Role

LEMMA GrantedRules == GrantsInv => Granted
<1> SUFFICES ASSUME GrantsInv, NEW w \in Workload
             PROVE  /\ GroupRules(w) = ClusterScopedRulesForSA(read[w], ClusterScopedRules)
                    /\ wide[w] = RulesSafeForClusterWideBinding(read[w], OwnerOf(w))
                    /\ read[w] \subseteq UNION Role
  BY DEF Granted
<1>1. \A v \in Workload : SAGroupOf(v) = SAGroupOf(w) => v = w
  BY GroupIsOwn
<1>2. { h \in groups : h.group \in GroupsOfWorkload(w) } = GrantsOf(w, read[w])
  BY <1>1, GroupAsserted DEF GrantsInv, GrantsOf
<1>3. GroupRules(w) = ClusterScopedRulesForSA(read[w], ClusterScopedRules)
  <2> DEFINE rules == ClusterScopedRulesForSA(read[w], ClusterScopedRules)
             grant(r) == [group |-> SAGroupOf(w), rule |-> r]
  <2>1. GroupRules(w) = { g.rule : g \in { grant(r) : r \in rules } }
    BY <1>2 DEF GroupRules, GrantsOf
  <2>2. \A r : grant(r).rule = r
    OBVIOUS
  <2> HIDE DEF rules, grant
  <2>3. { g.rule : g \in { grant(r) : r \in rules } } = rules
    BY <2>2
  <2> QED  BY <2>1, <2>3 DEF rules
<1> QED  BY <1>3 DEF GrantsInv

-----------------------------------------------------------------------------
(***************************************************************************)
(* What narrowing a rule leaves of it.                                     *)
(***************************************************************************)
LEMMA Narrowed ==
    ASSUME NEW asked, NEW allowed, NEW r \in narrowToAllowed(asked, allowed)
    PROVE  /\ r.groups \subseteq asked.groups /\ r.resources \subseteq asked.resources
           /\ r.verbs \subseteq asked.verbs /\ r.names = {}
           /\ \A resource \in r.resources :
                \E c \in allowed : covers(c.resources, "*", resource)
<1> DEFINE kept == Kept(asked, allowed)
<1>1. /\ r.groups = { k[1] : k \in kept } /\ r.resources = { k[2] : k \in kept }
      /\ r.verbs = { k[3] : k \in kept } /\ r.names = {}
  BY DEF narrowToAllowed
<1>2. \A k \in kept : /\ k[1] \in asked.groups /\ k[2] \in asked.resources
                      /\ k[3] \in asked.verbs /\ allowedBy(allowed, k[1], k[2], k[3])
  BY DEF Kept
<1> HIDE DEF kept
<1>3. \A k \in kept : \E c \in allowed : covers(c.resources, "*", k[2])
  BY <1>2 DEF allowedBy
<1> QED  BY <1>1, <1>2, <1>3

LEMMA NarrowedKeeps ==
    ASSUME NEW asked, NEW allowed, NEW g \in asked.groups, NEW resource \in asked.resources,
           NEW verb \in asked.verbs, allowedBy(allowed, g, resource, verb)
    PROVE  \E r \in narrowToAllowed(asked, allowed) :
              g \in r.groups /\ resource \in r.resources /\ verb \in r.verbs /\ r.names = {}
<1> DEFINE kept == Kept(asked, allowed)
           k == <<g, resource, verb>>
           r == [groups |-> { i[1] : i \in kept }, resources |-> { i[2] : i \in kept },
                 verbs |-> { i[3] : i \in kept }, names |-> {}, paths |-> FALSE]
<1>1. k \in kept /\ k[1] = g /\ k[2] = resource /\ k[3] = verb
  BY DEF Kept
<1>2. narrowToAllowed(asked, allowed) = {r}
  BY <1>1 DEF narrowToAllowed
<1> HIDE DEF kept, k
<1>3. g \in r.groups /\ resource \in r.resources /\ verb \in r.verbs /\ r.names = {}
  BY <1>1
<1> QED  BY <1>2, <1>3

\* The rules for tenants name every resource, and not those that are not granted.
LEMMA NothingReserved ==
    \A c \in ClusterScopedRules :
        "*" \notin c.resources /\ c.resources \cap NotGrantedToTenants = {}
<1> DEFINE Clean(resources) == "*" \notin resources /\ resources \cap NotGrantedToTenants = {}
           CleanRule(r) == Clean(r.resources)
<1>1. /\ Clean({"namespaces"}) /\ Clean({"nodes", "componentstatuses"})
      /\ Clean({"storageclasses", "volumeattributesclasses"}) /\ Clean({"deviceclasses"})
      /\ Clean({"persistentvolumes", "persistentvolumes/status"})
      /\ Clean({"mutatingwebhookconfigurations", "validatingwebhookconfigurations"})
      /\ Clean({"customresourcedefinitions", "customresourcedefinitions/status"})
      /\ Clean({"tokenreviews"})
      /\ Clean({"selfsubjectaccessreviews", "selfsubjectrulesreviews", "subjectaccessreviews"})
      /\ Clean({"ingressclasses"}) /\ Clean({"runtimeclasses"})
      /\ Clean({"clusterroles", "clusterrolebindings"})
  BY DEF NotGrantedToTenants
<1>2. \A g, resources, verbs : CleanRule(NewRule(g, resources, verbs)) <=> Clean(resources)
  BY DEF NewRule
<1> HIDE DEF Clean, CleanRule
<1>3. \A c \in ClusterScopedRules : CleanRule(c)
  BY <1>1, <1>2, Zenon DEF ClusterScopedRules
<1> QED  BY <1>3 DEF Clean, CleanRule

LEMMA AllGroupsAreNobodys == \A t \in Tenant : ~HasTenantPrefix(t, APIGroupAll)
<1> SUFFICES ASSUME NEW t \in Tenant PROVE ~HasTenantPrefix(t, APIGroupAll)
  OBVIOUS
<1>1. Len(APIGroupAll) = 1
  BY DEF APIGroupAll, Native
<1>2. Len(t \o TenantIDSeparator) = TenantIDLength + 1 /\ TenantIDLength \in Nat \ {0}
  BY PrefixShape, LengthAssumption
<1> QED  BY <1>1, <1>2 DEF HasTenantPrefix, IsPrefix

-----------------------------------------------------------------------------

(***************************************************************************)
(* A ServiceAccount may do to no kind of object what its own role does not *)
(* ask to do to that kind (ClusterScopedRulesForSA).                       *)
(***************************************************************************)
THEOREM NoKindBeyondItsRole == GrantsSpec => []OnlyTheKindsItsRoleAsks
<1>1. GrantsInv => OnlyTheKindsItsRoleAsks
  <2> SUFFICES ASSUME GrantsInv, NEW w \in Workload, NEW a \in MayDo(w)
               PROVE  a \in UpToNames(Covered(read[w]))
    BY DEF OnlyTheKindsItsRoleAsks
  <2>1. PICK r \in GroupRules(w) \cup wide[w] : a \in Attempt /\ Permits(r, a)
    BY DEF MayDo, Covered
  <2>2. PICK q \in read[w] : /\ r.groups \subseteq q.groups /\ r.resources \subseteq q.resources
                             /\ r.verbs \subseteq q.verbs
    <3>1. CASE r \in GroupRules(w)
      <4>1. PICK q \in read[w] : r \in narrowToAllowed(q, ClusterScopedRules)
        BY <3>1, GrantedRules DEF Granted, ClusterScopedRulesForSA
      <4> QED  BY <4>1, Narrowed
    <3>2. CASE r \in wide[w]
      BY <3>2, GrantedRules DEF Granted, RulesSafeForClusterWideBinding
    <3> QED  BY <2>1, <3>1, <3>2
  <2>3. /\ {a.group, APIGroupAll} \cap q.groups # {} /\ {a.resource, "*"} \cap q.resources # {}
        /\ {a.verb, "*"} \cap q.verbs # {}
    BY <2>1, <2>2 DEF Permits
  <2>4. a = [group |-> a.group, resource |-> a.resource, verb |-> a.verb, name |-> a.name]
    BY <2>1, WorkloadAssumption
  <2>5. CASE q.names = {}
    <3>1. a \in Covered(read[w])
      BY <2>1, <2>3, <2>5 DEF Covered, Permits
    <3>2. a = [a EXCEPT !.name = a.name]
      BY <2>4
    <3> QED  BY <2>1, <3>1, <3>2 DEF UpToNames
  <2>6. CASE q.names # {}
    <3>1. PICK n \in q.names : TRUE
      BY <2>6
    <3> DEFINE b == [a EXCEPT !.name = n]
    <3>2. q \in UNION Role
      BY GrantedRules DEF Granted
    <3>3. b \in Attempt
      BY <2>1, <3>2, WorkloadAssumption
    <3>4. /\ b.group = a.group /\ b.resource = a.resource /\ b.verb = a.verb /\ b.name = n
          /\ a = [b EXCEPT !.name = a.name]
      BY <2>4
    <3> HIDE DEF b
    <3>5. b \in Covered(read[w])
      BY <2>3, <3>3, <3>4 DEF Covered, Permits
    <3> QED  BY <2>1, <3>4, <3>5 DEF UpToNames
  <2> QED  BY <2>5, <2>6
<1> QED  BY <1>1, GrantsInvHolds, PTL

(***************************************************************************)
(* What its role asks for and its tenant may do, it may do: the group that *)
(* is granted is the group that is asserted.                               *)
(***************************************************************************)
THEOREM AskedForIsGranted == GrantsSpec => []AskedAndAllowedIsGranted
<1>1. GrantsInv => AskedAndAllowedIsGranted
  <2> SUFFICES ASSUME GrantsInv, NEW w \in Workload, NEW a \in Literally(read[w]),
                      a \in Covered(ClusterScopedRules)
               PROVE  a \in MayDo(w)
    BY DEF AskedAndAllowedIsGranted
  <2>1. PICK q \in read[w] : a.group \in q.groups /\ a.resource \in q.resources /\ a.verb \in q.verbs
    BY DEF Literally
  <2>2. PICK c \in ClusterScopedRules : a \in Attempt /\ Permits(c, a)
    BY DEF Covered
  <2>3. allowedBy(ClusterScopedRules, a.group, a.resource, a.verb)
    BY <2>2 DEF Permits, allowedBy, covers
  <2>4. PICK r \in narrowToAllowed(q, ClusterScopedRules) :
           a.group \in r.groups /\ a.resource \in r.resources /\ a.verb \in r.verbs /\ r.names = {}
    BY <2>1, <2>3, NarrowedKeeps
  <2>5. r \in GroupRules(w)
    BY <2>4, GrantedRules DEF Granted, ClusterScopedRulesForSA
  <2>6. Permits(r, a)
    BY <2>4 DEF Permits
  <2> QED  BY <2>2, <2>5, <2>6 DEF MayDo, Covered
<1> QED  BY <1>1, GrantsInvHolds, PTL

(***************************************************************************)
(* However a role is written, wildcards included, what is deliberately not *)
(* granted is out of reach, and a cluster-wide binding is about the        *)
(* tenant's own API groups alone.                                          *)
(***************************************************************************)
THEOREM ReservedStaysOutOfReach == GrantsSpec => []NeverGranted
<1>1. GrantsInv => NeverGranted
  <2> SUFFICES ASSUME GrantsInv, NEW w \in Workload
               PROVE  /\ \A a \in MayDo(w) : a.group = NoName => a.resource \notin NotGrantedToTenants
                      /\ \A a \in Covered(wide[w]) : HasTenantPrefix(OwnerOf(w), a.group)
                      /\ \A r \in wide[w] : ~r.paths
    BY DEF NeverGranted
  <2>1. OwnerOf(w) \in Tenant
    BY WorkloadParts
  <2>2. \A r \in wide[w] :
           ~r.paths /\ \A g \in r.groups : HasTenantPrefix(OwnerOf(w), g)
    BY GrantedRules
    DEF Granted, RulesSafeForClusterWideBinding, ruleIsTenantOwned, GroupIsTenantOwned
  <2>3. \A a \in Covered(wide[w]) : HasTenantPrefix(OwnerOf(w), a.group)
    BY <2>1, <2>2, AllGroupsAreNobodys DEF Covered, Permits
  <2>4. ASSUME NEW a \in Covered(GroupRules(w)) PROVE a.resource \notin NotGrantedToTenants
    <3>1. PICK r \in GroupRules(w) : Permits(r, a)
      BY DEF Covered
    <3>2. PICK q \in read[w] : r \in narrowToAllowed(q, ClusterScopedRules)
      BY GrantedRules DEF Granted, ClusterScopedRulesForSA
    <3>3. PICK s \in {a.resource, "*"} : s \in r.resources
      BY <3>1 DEF Permits
    <3>4. PICK c \in ClusterScopedRules : covers(c.resources, "*", s)
      BY <3>2, <3>3, Narrowed
    <3>5. a.resource \in c.resources
      BY <3>3, <3>4, NothingReserved DEF covers
    <3> QED  BY <3>5, NothingReserved
  <2>5. ~HasTenantPrefix(OwnerOf(w), NoName)
    <3>1. /\ Len(NoName) = 0 /\ TenantIDLength \in Nat
          /\ Len(OwnerOf(w) \o TenantIDSeparator) = TenantIDLength + 1
      BY <2>1, PrefixShape, LengthAssumption DEF NoName
    <3> QED  BY <3>1 DEF HasTenantPrefix, IsPrefix
  <2>6. \A a \in MayDo(w) : a \in Covered(GroupRules(w)) \/ a \in Covered(wide[w])
    BY DEF MayDo, Covered
  <2> QED  BY <2>2, <2>3, <2>4, <2>5, <2>6
<1> QED  BY <1>1, GrantsInvHolds, PTL

(***************************************************************************)
(* What upstream grants a ServiceAccount changes only when the controller  *)
(* works from its own role: nobody else's can touch it.                    *)
(***************************************************************************)
THEOREM ReachChangesWithItsRole == GrantsSpec => ReachIsOwn
<1>1. GrantsInv /\ Granted /\ Granted' /\ [GrantsNext]_grantsVars => [ReachIsOwnStep]_grantsVars
  <2> SUFFICES ASSUME GrantsInv, Granted, Granted', GrantsNext, NEW w \in Workload,
                      (GroupRules(w) \cup wide[w])' # GroupRules(w) \cup wide[w]
               PROVE  read'[w] = role[w] /\ read'[w] # read[w]
    BY DEF ReachIsOwnStep
  <2>1. read'[w] # read[w]
    BY DEF Granted
  <2>2. \A v \in Workload : WriteRole(v) => read' = read
    BY DEF WriteRole
  <2>3. PICK v \in Workload : Reconcile(v)
    BY <2>1, <2>2 DEF GrantsNext
  <2>4. read' = [read EXCEPT ![v] = role[v]]
    BY <2>3 DEF Reconcile
  <2> QED  BY <2>1, <2>4 DEF GrantsInv
<1>2. GrantsSpec => [][GrantsNext]_grantsVars
  BY PTL DEF GrantsSpec
<1> QED  BY <1>1, <1>2, GrantedRules, GrantsInvHolds, PTL DEF ReachIsOwn

-----------------------------------------------------------------------------
(***************************************************************************)
(* The freezing of tenants: what the expression of the policy makes of a   *)
(* tenant's own ServiceAccounts.                                           *)
(***************************************************************************)
LEMMA OwnWorkloadIsRefused ==
    ASSUME NEW ns \in TenantNamespace, ns \in labelled, NEW u \in Writer,
           TenantOfWriter(u) = NamespaceOwner(ns)
    PROVE  u \notin Admitted(ns)
<1> DEFINE t == NamespaceOwner(ns)
<1>1. ns \in Name /\ t \in Tenant
  BY FrozenAssumption
<1>2. Len(ns) >= TenantIDLength + 2 /\ t = SubSeq(ns, 1, TenantIDLength)
  BY <1>1, PrefixedHasItsTenant DEF NamespaceOwner
<1>3. t # NoName
  <2>1. Len(t) = TenantIDLength /\ Len(NoName) = 0 /\ TenantIDLength # 0
    BY <1>1, PrefixShape, LengthAssumption DEF NoName
  <2> QED  BY <2>1
<1>4. TenantSAFromUsername(u).tenant = t
  BY DEF TenantOfWriter
<1> HIDE DEF t
<1>5. /\ u.sort = "serviceaccount" /\ Len(u.namespace) > TenantIDLength + 1
      /\ SubSeq(u.namespace, 1, TenantIDLength) = t
  BY <1>3, <1>4 DEF TenantSAFromUsername, NotASA
<1>6. u.namespace \in Name
  BY FrozenAssumption
<1>7. Len(u.namespace) \in Nat /\ Len(ns) \in Nat /\ TenantIDLength \in Nat
  BY <1>1, <1>6, LenProperties, LengthAssumption DEF Name
<1>8. ~Expression(u, ns)
  BY <1>2, <1>5, <1>7 DEF Expression
<1> QED  BY <1>8 DEF Admitted

(***************************************************************************)
(* In a namespace that has the label no workload of its tenant changes     *)
(* anything, whatever the gateway lets through and from the step after the *)
(* label on (tenant-frozen-deny-writes.yaml).                              *)
(***************************************************************************)
HeldWhileLabelledStep ==
    \A ns \in TenantNamespace :
        ns \in labelled /\ changedBy'[ns] # changedBy[ns] =>
           TenantOfWriter(changedBy'[ns]) # NamespaceOwner(ns)

HeldWhileLabelled == [][HeldWhileLabelledStep]_freezeVars

FreezeTyped == changedBy \in [TenantNamespace -> Writer \cup {NoUser}]

THEOREM FrozenIsHeld == FreezeSpec => HeldWhileLabelled
<1>1. FreezeInit => FreezeTyped
  BY DEF FreezeInit, FreezeTyped
<1>2. FreezeTyped /\ [FreezeNext]_freezeVars => FreezeTyped'
  BY DEF FreezeTyped, FreezeNext, freezeVars, Suspend, Lift, Label, Unlabel, Write, Admitted
<1>3. FreezeTyped /\ [FreezeNext]_freezeVars => [HeldWhileLabelledStep]_freezeVars
  <2> SUFFICES ASSUME FreezeTyped, FreezeNext, NEW ns \in TenantNamespace, ns \in labelled,
                      changedBy'[ns] # changedBy[ns]
               PROVE  TenantOfWriter(changedBy'[ns]) # NamespaceOwner(ns)
    BY DEF HeldWhileLabelledStep
  <2>1. PICK n \in TenantNamespace, u \in Writer : Write(u, n)
    BY DEF FreezeNext, Suspend, Lift, Label, Unlabel
  <2>2. u \in Admitted(n) /\ changedBy' = [changedBy EXCEPT ![n] = u]
    BY <2>1 DEF Write
  <2>3. n = ns /\ changedBy'[ns] = u
    BY <2>2 DEF FreezeTyped
  <2> QED  BY <2>2, <2>3, OwnWorkloadIsRefused
<1> QED  BY <1>1, <1>2, <1>3, PTL DEF FreezeSpec, HeldWhileLabelled
================================================================================
