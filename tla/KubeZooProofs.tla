----------------------------- MODULE KubeZooProofs -----------------------------
(***************************************************************************)
(* Proofs about KubeZoo, for any number of tenants and clients, any names  *)
(* and any objects of the platform.                                        *)
(***************************************************************************)
EXTENDS KubeZoo, TenantNamesProofs

(***************************************************************************)
(* The parts of a request and of its upstream name.                        *)
(***************************************************************************)
LEMMA RequestParts ==
    ASSUME NEW r \in Request
    PROVE  /\ r.verb \in Verb /\ r.kind \in Kind /\ r.owner \in Name /\ r.name \in Name
           /\ r.verb # "list" => WellFormed(r)
           /\ r # NoRequest
<1>1. NoName \in Name
  BY EmptySeq DEF NoName, Name
<1>2. OwnerName \subseteq Name /\ ObjectName \subseteq Name /\ RequestKind \subseteq Kind
  BY KubeZooAssumption
<1>3. r.kind \in Kind => r # NoRequest
  BY DEF Kind, NamespacedKind, ClusterKind, NoRequest
<1>4. CASE r \in { q \in Lists : q.kind \in ClusterKind => q.owner = NoName }
  BY <1>1, <1>2, <1>3, <1>4 DEF Lists, Verb
<1>5. CASE r \in { q \in [verb  : Verb \ {"list"}, kind : RequestKind,
                          owner : OwnerName \cup {NoName}, name : ObjectName \cup {NoName}] :
                     WellFormed(q) }
  BY <1>1, <1>2, <1>3, <1>5 DEF Verb
<1> QED  BY <1>4, <1>5 DEF Request

LEMMA UpstreamOwnerIsName ==
    ASSUME NEW t \in Tenant, NEW k, NEW n \in Name
    PROVE  UpstreamOwner(t, k, n) \in Name
  BY TrimUndoesAdd DEF UpstreamOwner, UpstreamNamespace, ConvertTenantObjectNameToUpstream

LEMMA ToUpstreamType ==
    ASSUME NEW t \in Tenant, NEW r \in Request
    PROVE  ToUpstream(t, r) \in Object
  BY RequestParts, UpstreamOwnerIsName DEF ToUpstream, Object

LEMMA ToTenantType ==
    ASSUME NEW t \in Tenant, NEW o \in Object
    PROVE  ToTenant(t, o) \in Object
<1>1. TrimTenantIDPrefix(t, o.owner) \in Name
  BY AddUndoesTrim DEF TrimTenantIDPrefix, Object
<1> QED  BY <1>1 DEF ToTenant, Object

LEMMA AnswerType ==
    ASSUME NEW t \in Tenant, NEW r, NEW items \in SUBSET Object
    PROVE  InTenantTerms(t, r, items) \in SUBSET Object
  BY ToTenantType DEF InTenantTerms, Filtered

-----------------------------------------------------------------------------
(***************************************************************************)
(* Type correctness.                                                       *)
(***************************************************************************)
LEMMA TypeInit == Init => TypeOK
<1> SUFFICES ASSUME Init PROVE TypeOK
  OBVIOUS
<1> QED
  BY PlatformAssumption DEF Init, TypeOK, Reply, Code

\* Upstream's answer to a request that was forwarded.
LEMMA TypeAnswers ==
    ASSUME TypeOK, NEW c \in Client, NEW verb,
           NEW answer \in [code : Code, items : SUBSET Object],
           Answers(c, verb, answer),
           objects' \subseteq Object, managed' \subseteq Object
    PROVE  TypeOK'
<1>1. /\ phase' \in [Client -> {"received", "forwarded", "answered", "done"}]
      /\ request' \in [Client -> Request \cup {NoRequest}]
      /\ reply' \in [Client -> [code : Code, items : SUBSET Object]]
  BY DEF TypeOK, Answers
<1>2. \A d \in Client :
          /\ request'[d] = NoRequest => phase'[d] = "done"
          /\ phase'[d] \in {"received", "forwarded"} => reply'[d] = Reply("none", {})
  BY DEF TypeOK, Answers
<1> QED  BY <1>1, <1>2 DEF TypeOK

LEMMA TypeNext == TypeOK /\ [Next]_vars => TypeOK'
<1> SUFFICES ASSUME TypeOK, [Next]_vars PROVE TypeOK'
  OBVIOUS
<1> USE DEF TypeOK
<1>1. \A c \in Client : TenantOf[c] \in Tenant
  BY KubeZooAssumption
<1>2. \A c \in Client : phase[c] # "done" =>
          request[c] \in Request /\ Target(c) \in Object
  BY <1>1, ToUpstreamType DEF Target
<1>3. ASSUME NEW c \in Client, NEW r \in Request, Send(c, r) PROVE TypeOK'
  <2>1. request' = [request EXCEPT ![c] = r]
    BY <1>3 DEF Send
  <2>2. r # NoRequest
    BY RequestParts
  <2>3. /\ phase' = [phase EXCEPT ![c] = "received"]
        /\ reply' = [reply EXCEPT ![c] = Reply("none", {})]
        /\ objects' = objects /\ managed' = managed
    BY <1>3 DEF Send
  <2>4. /\ phase' \in [Client -> {"received", "forwarded", "answered", "done"}]
        /\ request' \in [Client -> Request \cup {NoRequest}]
        /\ reply' \in [Client -> [code : Code, items : SUBSET Object]]
    BY <2>1, <2>3 DEF Reply, Code
  <2>5. \A d \in Client :
            /\ request'[d] = NoRequest => phase'[d] = "done"
            /\ phase'[d] \in {"received", "forwarded"} => reply'[d] = Reply("none", {})
    BY <2>1, <2>2, <2>3
  <2> QED  BY <2>3, <2>4, <2>5
<1>4. ASSUME NEW c \in Client, Forward(c) PROVE TypeOK'
  <2>1. phase[c] = "received" /\ objects' = objects /\ managed' = managed
    BY <1>4 DEF Forward
  <2>2. CASE Refused(TenantOf[c], request[c])
    <3>1. /\ phase' = [phase EXCEPT ![c] = "done"]
          /\ reply' = [reply EXCEPT ![c] = Reply("refused", {})]
          /\ request' = [request EXCEPT ![c] = NoRequest]
      BY <1>4, <2>2 DEF Forward
    <3>2. reply' \in [Client -> [code : Code, items : SUBSET Object]]
      BY <3>1 DEF Reply, Code
    <3> QED  BY <2>1, <3>1, <3>2
  <2>3. CASE ~Refused(TenantOf[c], request[c])
    <3>1. /\ phase' = [phase EXCEPT ![c] = "forwarded"]
          /\ reply' = reply /\ request' = request
      BY <1>4, <2>3 DEF Forward
    <3> QED  BY <2>1, <3>1
  <2> QED  BY <2>2, <2>3
<1>5. ASSUME NEW c \in Client, Create(c) PROVE TypeOK'
  <2>1. phase[c] = "forwarded" /\ Target(c) \in Object /\ request[c] \in Request
    BY <1>2, <1>5 DEF Create, Answers
  <2>2. Rejection(Target(c), Upstream) \in Code
    BY DEF Rejection, Code
  <2>3. /\ objects' \subseteq Object /\ managed' \subseteq Object
    BY <1>5, <2>1 DEF Create
  <2>4. /\ Reply("ok", {Target(c)}) \in [code : Code, items : SUBSET Object]
        /\ Reply(Rejection(Target(c), Upstream), {}) \in [code : Code, items : SUBSET Object]
    BY <2>1, <2>2 DEF Reply, Code
  <2> QED  BY <1>5, <2>3, <2>4, TypeAnswers DEF Create
<1>6. ASSUME NEW c \in Client, Get(c) PROVE TypeOK'
  <2>1. phase[c] = "forwarded" /\ Target(c) \in Object /\ request[c] \in Request
    BY <1>2, <1>6 DEF Get, Answers
  <2>2. /\ Reply("ok", {Target(c)}) \in [code : Code, items : SUBSET Object]
        /\ Reply("notfound", {}) \in [code : Code, items : SUBSET Object]
    BY <2>1 DEF Reply, Code
  <2> QED  BY <1>6, <2>2, TypeAnswers DEF Get
<1>7. ASSUME NEW c \in Client, Delete(c) PROVE TypeOK'
  <2>1. /\ Reply("ok", {}) \in [code : Code, items : SUBSET Object]
        /\ Reply("notfound", {}) \in [code : Code, items : SUBSET Object]
    BY DEF Reply, Code
  <2> QED  BY <1>7, <2>1, TypeAnswers DEF Delete
<1>8. ASSUME NEW c \in Client, List(c) PROVE TypeOK'
  <2>1. \A k, ns : Listed(k, ns, Upstream) \subseteq Object
    BY DEF Listed, Upstream
  <2>2. \A k, ns : Reply("ok", Listed(k, ns, Upstream)) \in [code : Code, items : SUBSET Object]
    BY <2>1 DEF Reply, Code
  <2> QED  BY <1>8, <2>2, TypeAnswers DEF List
<1>9. ASSUME NEW c \in Client, Respond(c) PROVE TypeOK'
  <2>1. phase[c] = "answered" /\ reply[c].items \in SUBSET Object /\ request[c] \in Request
    BY <1>9, <1>2 DEF Respond
  <2>2. InTenantTerms(TenantOf[c], request[c], reply[c].items) \in SUBSET Object
    BY <1>1, <2>1, AnswerType
  <2> QED  BY <1>9, <2>1, <2>2 DEF Respond
<1>10. ASSUME NEW t \in Tenant, KeepRole(t) PROVE TypeOK'
  <2>1. \A r \in ReservedRole : AddTenantIDPrefix(t, r) \in Name
    BY KubeZooAssumption, TrimUndoesAdd
  <2>2. NoName \in Name
    BY EmptySeq DEF NoName, Name
  <2>3. managed' \subseteq Object
    BY <1>10, <2>1, <2>2 DEF KeepRole, Object, Kind, ClusterKind
  <2> QED  BY <1>10, <2>3 DEF KeepRole
<1>11. ASSUME NEW t \in Tenant, KeepBinding(t) PROVE TypeOK'
  <2>1. managed' \subseteq Object
    BY <1>11, KubeZooAssumption DEF KeepBinding, Object, Kind, NamespacedKind, Upstream
  <2> QED  BY <1>11, <2>1 DEF KeepBinding
<1>12. ASSUME NEW t \in Tenant, WithdrawBindings(t) PROVE TypeOK'
  BY <1>12 DEF WithdrawBindings
<1>13. CASE UNCHANGED vars
  BY <1>13 DEF vars
<1>14. ASSUME NEW c \in Client, Update(c) PROVE TypeOK'
  <2>1. phase[c] = "forwarded" /\ Target(c) \in Object
    BY <1>2, <1>14 DEF Update, Answers
  <2>2. /\ Reply("ok", {Target(c)}) \in [code : Code, items : SUBSET Object]
        /\ Reply("notfound", {}) \in [code : Code, items : SUBSET Object]
    BY <2>1 DEF Reply, Code
  <2>3. objects' \subseteq Object /\ managed' \subseteq Object
    BY <1>14, <2>1 DEF Update
  <2> QED  BY <1>14, <2>2, <2>3, TypeAnswers DEF Update
<1> QED
  BY <1>3, <1>4, <1>5, <1>6, <1>7, <1>8, <1>9, <1>10, <1>11, <1>12, <1>13, <1>14
     DEF Next, Step

(***************************************************************************)
(* The variables keep their types, whatever the interleaving.              *)
(***************************************************************************)
THEOREM TypeCorrect == Spec => []TypeOK
  BY TypeInit, TypeNext, PTL DEF Spec

-----------------------------------------------------------------------------
(***************************************************************************)
(* The inductive invariant.  What a request may do is settled when it is   *)
(* forwarded and is still true when upstream executes it; the platform's   *)
(* objects stay; and what the controller wrote is what it may write.       *)
(***************************************************************************)
ForwardedIsAllowed ==
    \A c \in Client : phase[c] = "forwarded" => ~Refused(TenantOf[c], request[c])

PlatformStays == PlatformObject \subseteq objects

EveryCRDHasGroup == \A o \in Upstream : ~LacksGroup(o)

ManagedIsReserved ==
    \A o \in managed :
        IsManagedBindingName(o) \/ \E t \in Tenant : IsReservedClusterName(t, o)

IndInv ==
    /\ TypeOK
    /\ ForwardedIsAllowed
    /\ PlatformStays
    /\ EveryCRDHasGroup
    /\ ManagedIsReserved
    /\ ManagedIsKubezoos
    /\ ViewIsAddressable

(***************************************************************************)
(* What a request names is its tenant's, unless it is a CRD without group. *)
(***************************************************************************)
LEMMA TargetIsOwned ==
    ASSUME NEW t \in Tenant, NEW r \in Request, r.verb # "list",
           ~LacksGroup(ToUpstream(t, r))
    PROVE  UpstreamObjectBelongsToTenant(t, ToUpstream(t, r))
<1>1. r.kind \in Kind /\ r.owner \in Name /\ WellFormed(r)
  BY RequestParts
<1>2. ToUpstream(t, r).owner = UpstreamOwner(t, r.kind, r.owner)
      /\ ToUpstream(t, r).kind = r.kind
  BY DEF ToUpstream
<1>3. CASE r.kind \in NamespacedKind
  <2>1. r.owner \in Name \ {NoName}
    BY <1>1, <1>3 DEF WellFormed
  <2> QED  BY <1>2, <1>3, <2>1, UpstreamNamespaceResolves
              DEF UpstreamOwner, UpstreamObjectBelongsToTenant
<1>4. CASE r.kind \notin NamespacedKind
  <2>1. ~(r.kind = "CustomResourceDefinition" /\ r.owner = NoName)
    BY <1>2, <1>4 DEF LacksGroup, UpstreamOwner, ConvertTenantObjectNameToUpstream
  <2>2. UpstreamOwner(t, r.kind, r.owner) = AddTenantIDPrefix(t, r.owner)
    BY <1>4, <2>1 DEF UpstreamOwner, ConvertTenantObjectNameToUpstream
  <2> QED  BY <1>1, <1>2, <2>2, TrimUndoesAdd DEF UpstreamObjectBelongsToTenant
<1> QED  BY <1>3, <1>4

(***************************************************************************)
(* The steps, by what they do to the objects: nothing, a request that      *)
(* upstream executes, or work of the controller.                           *)
(***************************************************************************)
Executing(c) ==
    /\ phase[c] = "forwarded" /\ phase'[c] = "answered"
    /\ request[c] \in Request
    /\ request[c].verb # "list"

Creates(c) ==
    /\ Executing(c)
    /\ request[c].verb = "create"
    /\ Rejection(Target(c), Upstream) = "none"
    /\ objects' = objects \cup {Target(c)}
    /\ managed' = managed

Deletes(c) ==
    /\ Executing(c)
    /\ request[c].verb = "delete"
    /\ Target(c) \in Upstream
    /\ objects' = objects \ Erased(Target(c), Upstream)
    /\ managed' = managed \ Erased(Target(c), Upstream)

(***************************************************************************)
(* A reserved name is reserved in one tenant's cluster.                    *)
(***************************************************************************)
LEMMA ReservedIsOwned ==
    ASSUME NEW t \in Tenant, NEW o, IsReservedClusterName(t, o)
    PROVE  UpstreamObjectBelongsToTenant(t, o)
  BY KubeZooAssumption, TrimUndoesAdd DEF IsReservedClusterName, UpstreamObjectBelongsToTenant

LEMMA OneOwner ==
    ASSUME NEW t \in Tenant, NEW u \in Tenant, NEW o \in Object,
           UpstreamObjectBelongsToTenant(t, o), UpstreamObjectBelongsToTenant(u, o)
    PROVE  t = u
  BY OneTenantPerName DEF UpstreamObjectBelongsToTenant, Object

(***************************************************************************)
(* An update is of an object that a tenant wrote, so it leaves the cluster *)
(* as it is: those that kubezoo keeps are refused.                         *)
(***************************************************************************)
LEMMA UpdateIsOfATenants ==
    ASSUME IndInv, NEW c \in Client, Update(c)
    PROVE  UNCHANGED <<objects, managed>>
<1> DEFINE t == TenantOf[c]
           o == Target(c)
<1>1. /\ phase[c] = "forwarded" /\ request[c].verb = "update" /\ request[c] \in Request
      /\ t \in Tenant
  BY KubeZooAssumption DEF Update, Answers, IndInv, TypeOK
<1>2. ~Refused(t, request[c])
  BY <1>1 DEF IndInv, ForwardedIsAllowed
<1>3. CASE o \in Upstream
  <2>1. ~LacksGroup(o) /\ o \in Object
    BY <1>1, <1>3, ToUpstreamType DEF IndInv, EveryCRDHasGroup, Target
  <2>2. UpstreamObjectBelongsToTenant(t, o)
    BY <1>1, <2>1, TargetIsOwned DEF Target
  <2>3. ~IsManagedBindingName(o) /\ ~IsReservedClusterName(t, o)
    BY <1>1, <1>2 DEF Refused, Target
  <2>4. o \notin managed
    BY <1>1, <2>1, <2>2, <2>3, ReservedIsOwned, OneOwner DEF IndInv, ManagedIsReserved
  <2> QED  BY <1>3, <2>4 DEF Update, Upstream
<1>4. CASE o \notin Upstream
  BY <1>4 DEF Update
<1> QED  BY <1>3, <1>4

LEMMA StepsByEffect ==
    ASSUME IndInv, [Next]_vars
    PROVE  \/ UNCHANGED <<objects, managed>>
           \/ \E c \in Client : Creates(c) \/ Deletes(c)
           \/ \E t \in Tenant : KeepRole(t) \/ KeepBinding(t) \/ WithdrawBindings(t)
<1> DEFINE Goal == \/ UNCHANGED <<objects, managed>>
                   \/ \E c \in Client : Creates(c) \/ Deletes(c)
                   \/ \E t \in Tenant : KeepRole(t) \/ KeepBinding(t) \/ WithdrawBindings(t)
<1>0. TypeOK
  BY DEF IndInv
<1>1. ASSUME NEW c \in Client, phase[c] = "forwarded" PROVE request[c] \in Request
  BY <1>0, <1>1 DEF TypeOK
<1>2. ASSUME NEW c \in Client, NEW verb, NEW answer, Answers(c, verb, answer)
      PROVE  /\ phase[c] = "forwarded" /\ phase'[c] = "answered"
             /\ request[c].verb = verb
  BY <1>0, <1>2 DEF TypeOK, Answers
<1>3. ASSUME NEW c \in Client, Create(c) PROVE Goal
  <2>1. CASE UNCHANGED objects
    BY <1>3, <2>1 DEF Create
  <2>2. CASE ~UNCHANGED objects
    <3>1. /\ Rejection(Target(c), Upstream) = "none"
          /\ Answers(c, "create", Reply("ok", {Target(c)}))
          /\ objects' = objects \cup {Target(c)} /\ managed' = managed
      BY <1>3, <2>2 DEF Create
    <3>2. Creates(c)
      BY <1>1, <1>2, <3>1 DEF Creates, Executing
    <3> QED  BY <3>2
  <2> QED  BY <2>1, <2>2
<1>4. ASSUME NEW c \in Client, Delete(c) PROVE Goal
  <2>1. CASE UNCHANGED <<objects, managed>>
    BY <2>1
  <2>2. CASE ~UNCHANGED <<objects, managed>>
    <3>1. /\ Target(c) \in Upstream
          /\ Answers(c, "delete", Reply("ok", {}))
          /\ objects' = objects \ Erased(Target(c), Upstream)
          /\ managed' = managed \ Erased(Target(c), Upstream)
      BY <1>4, <2>2 DEF Delete
    <3>2. Deletes(c)
      BY <1>1, <1>2, <3>1 DEF Deletes, Executing
    <3> QED  BY <3>2
  <2> QED  BY <2>1, <2>2
<1>5. ASSUME NEW c \in Client, NEW r \in Request, Send(c, r) PROVE Goal
  BY <1>5 DEF Send
<1>6. CASE UNCHANGED vars
  BY <1>6 DEF vars
<1>7. ASSUME NEW c \in Client, Forward(c) \/ Get(c) \/ List(c) \/ Respond(c)
      PROVE  Goal
  BY <1>7 DEF Forward, Get, List, Respond
<1>8. ASSUME NEW c \in Client, Update(c) PROVE Goal
  BY <1>8, UpdateIsOfATenants
<1> QED  BY <1>3, <1>4, <1>5, <1>6, <1>7, <1>8 DEF Next, Step

-----------------------------------------------------------------------------
(***************************************************************************)
(* Each part of the invariant is kept by every step.                       *)
(***************************************************************************)
LEMMA KeepsForwardedIsAllowed ==
    ASSUME IndInv, [Next]_vars
    PROVE  ForwardedIsAllowed'
<1> SUFFICES ASSUME NEW d \in Client, phase'[d] = "forwarded"
             PROVE  ~Refused(TenantOf[d], request'[d])
  BY DEF ForwardedIsAllowed
<1>1. TypeOK /\ ForwardedIsAllowed
  BY DEF IndInv
<1>2. ASSUME phase'[d] = phase[d], request'[d] = request[d]
      PROVE  ~Refused(TenantOf[d], request'[d])
  BY <1>1, <1>2 DEF ForwardedIsAllowed
<1>3. ASSUME NEW c \in Client, NEW r \in Request, Send(c, r)
      PROVE  ~Refused(TenantOf[d], request'[d])
  <2>1. c # d
    BY <1>1, <1>3 DEF Send, TypeOK
  <2>2. phase'[d] = phase[d] /\ request'[d] = request[d]
    BY <1>1, <1>3, <2>1 DEF Send, TypeOK
  <2> QED  BY <1>2, <2>2
<1>4. ASSUME NEW c \in Client, Forward(c) PROVE ~Refused(TenantOf[d], request'[d])
  <2>1. CASE c = d
    BY <1>1, <1>4, <2>1 DEF Forward, TypeOK
  <2>2. CASE c # d
    BY <1>1, <1>2, <1>4, <2>2 DEF Forward, TypeOK
  <2> QED  BY <2>1, <2>2
<1>5. ASSUME NEW c \in Client, NEW verb, NEW answer, Answers(c, verb, answer)
      PROVE  ~Refused(TenantOf[d], request'[d])
  BY <1>1, <1>2, <1>5 DEF Answers, TypeOK
<1>6. ASSUME NEW c \in Client, Respond(c) PROVE ~Refused(TenantOf[d], request'[d])
  BY <1>1, <1>2, <1>6 DEF Respond, TypeOK
<1>7. ASSUME NEW t \in Tenant, KeepRole(t) \/ KeepBinding(t) \/ WithdrawBindings(t)
      PROVE  ~Refused(TenantOf[d], request'[d])
  BY <1>2, <1>7 DEF KeepRole, KeepBinding, WithdrawBindings
<1>8. CASE UNCHANGED vars
  BY <1>2, <1>8 DEF vars
<1> QED
  BY <1>3, <1>4, <1>5, <1>6, <1>7, <1>8 DEF Next, Step, Create, Get, Update, Delete, List

(***************************************************************************)
(* What a deletion erases is the tenant's whose request it is.             *)
(***************************************************************************)
LEMMA ErasedIsOwned ==
    ASSUME IndInv, NEW c \in Client, Deletes(c), NEW o \in Erased(Target(c), Upstream)
    PROVE  UpstreamObjectBelongsToTenant(TenantOf[c], o)
<1>1. TenantOf[c] \in Tenant /\ request[c] \in Request /\ request[c].verb # "list"
  BY KubeZooAssumption DEF Deletes, Executing
<1>2. ~LacksGroup(Target(c))
  BY DEF IndInv, EveryCRDHasGroup, Deletes
<1>3. UpstreamObjectBelongsToTenant(TenantOf[c], Target(c))
  BY <1>1, <1>2, TargetIsOwned DEF Target
<1>4. o = Target(c) \/ o.owner = Target(c).owner
  BY DEF Erased
<1> QED  BY <1>3, <1>4 DEF UpstreamObjectBelongsToTenant

LEMMA KeepsPlatformStays ==
    ASSUME IndInv, [Next]_vars
    PROVE  PlatformStays'
<1>1. PlatformObject \subseteq objects /\ TypeOK
  BY DEF IndInv, PlatformStays
<1>2. ASSUME NEW c \in Client, Deletes(c) PROVE PlatformObject \subseteq objects'
  <2>1. ASSUME NEW o \in PlatformObject PROVE o \notin Erased(Target(c), Upstream)
    BY <1>2, ErasedIsOwned, PlatformAssumption, KubeZooAssumption
  <2> QED  BY <1>1, <1>2, <2>1 DEF Deletes
<1>3. ASSUME NEW c \in Client, Creates(c) PROVE PlatformObject \subseteq objects'
  BY <1>1, <1>3 DEF Creates
<1>4. ASSUME NEW t \in Tenant, KeepRole(t) \/ KeepBinding(t) \/ WithdrawBindings(t)
      PROVE  PlatformObject \subseteq objects'
  BY <1>1, <1>4 DEF KeepRole, KeepBinding, WithdrawBindings
<1> QED  BY <1>1, <1>2, <1>3, <1>4, StepsByEffect DEF PlatformStays

LEMMA KeepsEveryCRDHasGroup ==
    ASSUME IndInv, [Next]_vars
    PROVE  EveryCRDHasGroup'
<1>1. EveryCRDHasGroup /\ TypeOK
  BY DEF IndInv
<1>2. ASSUME NEW c \in Client, Creates(c) PROVE EveryCRDHasGroup'
  <2>1. ~LacksGroup(Target(c))
    BY <1>2 DEF Creates, Rejection
  <2> QED  BY <1>1, <1>2, <2>1 DEF Creates, EveryCRDHasGroup, Upstream
<1>3. ASSUME NEW c \in Client, Deletes(c) PROVE EveryCRDHasGroup'
  BY <1>1, <1>3 DEF Deletes, EveryCRDHasGroup, Upstream
<1>4. ASSUME NEW t \in Tenant, KeepRole(t) PROVE EveryCRDHasGroup'
  BY <1>1, <1>4 DEF KeepRole, EveryCRDHasGroup, Upstream, LacksGroup
<1>5. ASSUME NEW t \in Tenant, KeepBinding(t) PROVE EveryCRDHasGroup'
  BY <1>1, <1>5 DEF KeepBinding, EveryCRDHasGroup, Upstream, LacksGroup
<1>6. ASSUME NEW t \in Tenant, WithdrawBindings(t) PROVE EveryCRDHasGroup'
  BY <1>1, <1>6 DEF WithdrawBindings, EveryCRDHasGroup, Upstream
<1>7. CASE UNCHANGED <<objects, managed>>
  BY <1>1, <1>7 DEF EveryCRDHasGroup, Upstream
<1> QED  BY <1>1, <1>2, <1>3, <1>4, <1>5, <1>6, <1>7, StepsByEffect

LEMMA KeepsManagedIsReserved ==
    ASSUME IndInv, [Next]_vars
    PROVE  ManagedIsReserved'
<1>1. ManagedIsReserved /\ TypeOK
  BY DEF IndInv
<1>2. ASSUME NEW c \in Client, Creates(c) \/ Deletes(c) PROVE ManagedIsReserved'
  BY <1>1, <1>2 DEF Creates, Deletes, ManagedIsReserved
<1>3. ASSUME NEW t \in Tenant, KeepRole(t) PROVE ManagedIsReserved'
  <2>1. PICK r \in ReservedRole :
          managed' = managed \cup {[kind  |-> "ClusterRole",
                                    owner |-> AddTenantIDPrefix(t, r), name |-> NoName]}
    BY <1>3 DEF KeepRole
  <2>2. IsReservedClusterName(t, [kind  |-> "ClusterRole",
                                  owner |-> AddTenantIDPrefix(t, r), name |-> NoName])
    BY DEF IsReservedClusterName
  <2> QED  BY <1>1, <2>1, <2>2 DEF ManagedIsReserved
<1>4. ASSUME NEW t \in Tenant, KeepBinding(t) PROVE ManagedIsReserved'
  BY <1>1, <1>4 DEF KeepBinding, ManagedIsReserved, IsManagedBindingName
<1>5. ASSUME NEW t \in Tenant, WithdrawBindings(t) PROVE ManagedIsReserved'
  BY <1>1, <1>5 DEF WithdrawBindings, ManagedIsReserved
<1>6. CASE UNCHANGED <<objects, managed>>
  BY <1>1, <1>6 DEF ManagedIsReserved
<1> QED  BY <1>1, <1>2, <1>3, <1>4, <1>5, <1>6, StepsByEffect

(***************************************************************************)
(* The target of a create that upstream carries out.                       *)
(***************************************************************************)
LEMMA CreatedIsOwned ==
    ASSUME IndInv, NEW c \in Client, Creates(c)
    PROVE  /\ Target(c) \in Object
           /\ UpstreamObjectBelongsToTenant(TenantOf[c], Target(c))
           /\ ~Refused(TenantOf[c], request[c])
           /\ \A t \in Tenant : UpstreamObjectBelongsToTenant(t, Target(c)) => t = TenantOf[c]
<1>1. TenantOf[c] \in Tenant /\ request[c] \in Request /\ request[c].verb # "list"
  BY KubeZooAssumption DEF Creates, Executing
<1>2. ~LacksGroup(Target(c))
  BY DEF Creates, Rejection
<1>3. UpstreamObjectBelongsToTenant(TenantOf[c], Target(c))
  BY <1>1, <1>2, TargetIsOwned DEF Target
<1>4. Target(c) \in Object
  BY <1>1, ToUpstreamType DEF Target
<1>5. ~Refused(TenantOf[c], request[c])
  BY DEF IndInv, ForwardedIsAllowed, Creates, Executing
<1>6. ASSUME NEW t \in Tenant, UpstreamObjectBelongsToTenant(t, Target(c))
      PROVE  t = TenantOf[c]
  BY <1>1, <1>3, <1>4, <1>6, OneTenantPerName DEF UpstreamObjectBelongsToTenant, Object
<1> QED  BY <1>3, <1>4, <1>5, <1>6

LEMMA KeepsManagedIsKubezoos ==
    ASSUME IndInv, [Next]_vars
    PROVE  ManagedIsKubezoos'
<1>1. ManagedIsKubezoos /\ TypeOK
  BY DEF IndInv
<1>2. ASSUME NEW c \in Client, Creates(c) PROVE ManagedIsKubezoos'
  <2>1. request[c].verb = "create" /\ TenantOf[c] \in Tenant
    BY <1>2, KubeZooAssumption DEF Creates
  <2>2. /\ ~IsManagedBindingName(Target(c))
        /\ ~IsReservedClusterName(TenantOf[c], Target(c))
    BY <1>2, <2>1, CreatedIsOwned DEF Refused, Target
  <2>3. ASSUME NEW t \in Tenant PROVE ~IsReservedClusterName(t, Target(c))
    BY <1>2, <2>2, CreatedIsOwned, ReservedIsOwned
  <2> QED  BY <1>1, <1>2, <2>2, <2>3 DEF Creates, ManagedIsKubezoos
<1>3. ASSUME NEW c \in Client, Deletes(c) PROVE ManagedIsKubezoos'
  BY <1>1, <1>3 DEF Deletes, ManagedIsKubezoos
<1>4. ASSUME NEW t \in Tenant, KeepRole(t) \/ KeepBinding(t) \/ WithdrawBindings(t)
      PROVE  ManagedIsKubezoos'
  BY <1>1, <1>4 DEF KeepRole, KeepBinding, WithdrawBindings, ManagedIsKubezoos
<1>5. CASE UNCHANGED <<objects, managed>>
  BY <1>1, <1>5 DEF ManagedIsKubezoos
<1> QED  BY <1>1, <1>2, <1>3, <1>4, <1>5, StepsByEffect

(***************************************************************************)
(* The part of ViewIsAddressable about one object.                         *)
(***************************************************************************)
Addressable(t, o) ==
    /\ ToUpstream(t, ToTenant(t, o)) = o
    /\ o.kind = "Namespace" => UpstreamNamespace(t, ToTenant(t, o).owner) = o.owner

LEMMA ToTenantParts ==
    ASSUME NEW t \in Tenant, NEW o \in Object
    PROVE  /\ ToTenant(t, o).kind = o.kind /\ ToTenant(t, o).name = o.name
           /\ ToTenant(t, o).owner = TrimTenantIDPrefix(t, o.owner)
           /\ ToUpstream(t, ToTenant(t, o)) = o <=>
                 UpstreamOwner(t, o.kind, TrimTenantIDPrefix(t, o.owner)) = o.owner
<1>1. /\ ToTenant(t, o).kind = o.kind /\ ToTenant(t, o).name = o.name
      /\ ToTenant(t, o).owner = TrimTenantIDPrefix(t, o.owner)
  BY DEF ToTenant, Object
<1> QED  BY <1>1 DEF ToUpstream, Object

\* A cluster-scoped object whose upstream name was made from a tenant's.
LEMMA PrefixedIsAddressable ==
    ASSUME NEW t \in Tenant, NEW o \in Object, NEW n \in Name,
           o.kind \in ClusterKind, o.owner = AddTenantIDPrefix(t, n),
           o.kind = "CustomResourceDefinition" => n # NoName,
           o.kind = "Namespace" => n # NoName /\ NamespaceNameForTenant(t, n)
    PROVE  Addressable(t, o)
<1>1. TrimTenantIDPrefix(t, o.owner) = n
  BY TrimUndoesAdd
<1>2. o.kind \notin NamespacedKind
  BY DEF NamespacedKind, ClusterKind
<1>3. UpstreamOwner(t, o.kind, n) = AddTenantIDPrefix(t, n)
  BY <1>2 DEF UpstreamOwner, ConvertTenantObjectNameToUpstream
<1>4. o.kind = "Namespace" => UpstreamNamespace(t, n) = AddTenantIDPrefix(t, n)
  BY DEF UpstreamNamespace, NamespaceNameForTenant
<1> QED  BY <1>1, <1>3, <1>4, ToTenantParts DEF Addressable

\* An object in a namespace that can be entered.
LEMMA ContainedIsAddressable ==
    ASSUME NEW t \in Tenant, NEW o \in Object, o.kind \in NamespacedKind,
           Namespace(o.owner) \in Object, Addressable(t, Namespace(o.owner))
    PROVE  Addressable(t, o)
<1>1. o.kind # "Namespace"
  BY DEF NamespacedKind
<1>2. UpstreamNamespace(t, TrimTenantIDPrefix(t, o.owner)) = o.owner
  BY ToTenantParts DEF Addressable, Namespace
<1> QED  BY <1>1, <1>2, ToTenantParts DEF Addressable, UpstreamOwner

LEMMA ViewByObject ==
    ViewIsAddressable <=>
        \A t \in Tenant, o \in Upstream :
            UpstreamObjectBelongsToTenant(t, o) => Addressable(t, o)
  BY DEF ViewIsAddressable, View, Addressable

LEMMA CreatedIsAddressable ==
    ASSUME IndInv, NEW c \in Client, Creates(c)
    PROVE  Addressable(TenantOf[c], Target(c))
<1> DEFINE t == TenantOf[c]
           r == request[c]
           o == Target(c)
<1>1. /\ t \in Tenant /\ r \in Request /\ r.verb = "create" /\ o \in Object
      /\ UpstreamObjectBelongsToTenant(t, o) /\ ~Refused(t, r)
  BY KubeZooAssumption, CreatedIsOwned DEF Creates, Executing
<1>2. /\ o.kind = r.kind /\ o.name = r.name /\ o.owner = UpstreamOwner(t, r.kind, r.owner)
      /\ r.kind \in Kind /\ r.owner \in Name /\ WellFormed(r)
  BY <1>1, RequestParts DEF Target, ToUpstream
<1>3. CASE o.kind \in NamespacedKind
  <2>1. Namespace(o.owner) \in Upstream /\ Upstream \subseteq Object
    BY <1>3 DEF Creates, Rejection, IndInv, TypeOK, Upstream
  <2>2. UpstreamObjectBelongsToTenant(t, Namespace(o.owner))
    BY <1>1 DEF UpstreamObjectBelongsToTenant, Namespace
  <2>3. Addressable(t, Namespace(o.owner))
    BY <1>1, <2>1, <2>2, ViewByObject DEF IndInv
  <2> QED  BY <1>1, <1>3, <2>1, <2>3, ContainedIsAddressable
<1>4. CASE o.kind \notin NamespacedKind
  <2>1. o.kind \in ClusterKind
    BY <1>2, <1>4 DEF Kind
  <2>2. ~LacksGroup(o)
    BY DEF Creates, Rejection
  <2>3. o.kind = "CustomResourceDefinition" => r.owner # NoName
    BY <1>2, <1>4, <2>2 DEF LacksGroup, UpstreamOwner, ConvertTenantObjectNameToUpstream
  <2>4. o.owner = AddTenantIDPrefix(t, r.owner)
    BY <1>2, <1>4, <2>3 DEF UpstreamOwner, ConvertTenantObjectNameToUpstream
  <2>5. o.kind = "Namespace" => r.owner # NoName /\ NamespaceNameForTenant(t, r.owner)
    BY <1>1, <1>2 DEF WellFormed, Refused
  <2> QED  BY <1>1, <1>2, <2>1, <2>3, <2>4, <2>5, PrefixedIsAddressable
<1> QED  BY <1>3, <1>4

LEMMA KeepsViewIsAddressable ==
    ASSUME IndInv, [Next]_vars, TypeOK'
    PROVE  ViewIsAddressable'
<1>1. /\ \A t \in Tenant, o \in Upstream :
             UpstreamObjectBelongsToTenant(t, o) => Addressable(t, o)
      /\ TypeOK /\ Upstream \subseteq Object /\ Upstream' \subseteq Object
  BY ViewByObject DEF IndInv, TypeOK, Upstream
<1> SUFFICES ASSUME NEW t \in Tenant, NEW o \in Upstream',
                    UpstreamObjectBelongsToTenant(t, o)
             PROVE  Addressable(t, o)
  BY DEF ViewIsAddressable, View, Addressable
<1>2. CASE o \in Upstream
  BY <1>1, <1>2
<1>3. ASSUME NEW c \in Client, Creates(c) PROVE Addressable(t, o)
  <2>1. CASE o = Target(c)
    BY <1>3, <2>1, CreatedIsOwned, CreatedIsAddressable
  <2>2. CASE o # Target(c)
    BY <1>2, <1>3, <2>2 DEF Creates, Upstream
  <2> QED  BY <2>1, <2>2
<1>4. ASSUME NEW c \in Client, Deletes(c) PROVE Addressable(t, o)
  BY <1>2, <1>4 DEF Deletes, Upstream
<1>5. ASSUME NEW u \in Tenant, KeepRole(u) PROVE Addressable(t, o)
  <2>1. PICK r \in ReservedRole :
          managed' = managed \cup {[kind  |-> "ClusterRole",
                                    owner |-> AddTenantIDPrefix(u, r), name |-> NoName]}
    BY <1>5 DEF KeepRole
  <2>2. CASE o = [kind |-> "ClusterRole", owner |-> AddTenantIDPrefix(u, r), name |-> NoName]
    <3>1. o \in Object /\ r \in Name
      BY <1>1, KubeZooAssumption
    <3>2. t = u
      BY <2>2, <3>1, TrimUndoesAdd, OneTenantPerName
         DEF UpstreamObjectBelongsToTenant, Object
    <3> QED  BY <2>2, <3>1, <3>2, PrefixedIsAddressable DEF ClusterKind
  <2>3. CASE o \in Upstream
    BY <1>2, <2>3
  <2> QED  BY <1>5, <2>1, <2>2, <2>3 DEF KeepRole, Upstream
<1>6. ASSUME NEW u \in Tenant, KeepBinding(u) PROVE Addressable(t, o)
  <2>1. PICK ns \in Upstream, b \in ManagedBinding :
          /\ ns.kind = "Namespace"
          /\ managed' = managed \cup {[kind |-> "RoleBinding", owner |-> ns.owner, name |-> b]}
    BY <1>6 DEF KeepBinding
  <2>2. CASE o = [kind |-> "RoleBinding", owner |-> ns.owner, name |-> b]
    <3>1. o \in Object /\ ns \in Object /\ o.owner = ns.owner
      BY <1>1, <2>2
    <3>2. UpstreamObjectBelongsToTenant(t, ns)
      BY <3>1 DEF UpstreamObjectBelongsToTenant
    <3>3. Addressable(t, ns)
      BY <1>1, <3>2
    <3>4. UpstreamNamespace(t, TrimTenantIDPrefix(t, o.owner)) = o.owner
      BY <2>1, <3>1, <3>3, ToTenantParts DEF Addressable
    <3> QED  BY <2>2, <3>1, <3>4, ToTenantParts
                DEF Addressable, UpstreamOwner, NamespacedKind
  <2>3. CASE o \in Upstream
    BY <1>2, <2>3
  <2> QED  BY <1>6, <2>1, <2>2, <2>3 DEF KeepBinding, Upstream
<1>7. ASSUME NEW u \in Tenant, WithdrawBindings(u) PROVE Addressable(t, o)
  BY <1>2, <1>7 DEF WithdrawBindings, Upstream
<1>8. CASE UNCHANGED <<objects, managed>>
  BY <1>2, <1>8 DEF Upstream
<1> QED  BY <1>1, <1>3, <1>4, <1>5, <1>6, <1>7, <1>8, StepsByEffect

-----------------------------------------------------------------------------
LEMMA IndInvInit == Init => IndInv
<1> SUFFICES ASSUME Init PROVE IndInv
  OBVIOUS
<1>1. TypeOK
  BY TypeInit
<1>2. ForwardedIsAllowed
  BY DEF Init, ForwardedIsAllowed
<1>3. PlatformStays /\ EveryCRDHasGroup /\ ManagedIsReserved /\ ManagedIsKubezoos
  BY PlatformAssumption
     DEF Init, PlatformStays, EveryCRDHasGroup, ManagedIsReserved, ManagedIsKubezoos, Upstream
<1>4. ViewIsAddressable
  BY PlatformAssumption DEF Init, ViewIsAddressable, View, Upstream
<1> QED  BY <1>1, <1>2, <1>3, <1>4 DEF IndInv

LEMMA IndInvNext == IndInv /\ [Next]_vars => IndInv'
<1> SUFFICES ASSUME IndInv, [Next]_vars PROVE IndInv'
  OBVIOUS
<1>1. TypeOK'
  BY TypeNext DEF IndInv
<1> QED
  BY <1>1, KeepsForwardedIsAllowed, KeepsPlatformStays, KeepsEveryCRDHasGroup,
     KeepsManagedIsReserved, KeepsManagedIsKubezoos, KeepsViewIsAddressable
     DEF IndInv

LEMMA IndInvHolds == Spec => []IndInv
  BY IndInvInit, IndInvNext, PTL DEF Spec

(***************************************************************************)
(* Whatever a tenant sees it can ask for, by the name it sees, and every   *)
(* namespace it sees it can work in.                                       *)
(***************************************************************************)
THEOREM ViewAddressable == Spec => []ViewIsAddressable
<1>1. IndInv => ViewIsAddressable
  BY DEF IndInv
<1> QED  BY <1>1, IndInvHolds, PTL

(***************************************************************************)
(* No request of a tenant makes an object under a name kubezoo keeps.      *)
(***************************************************************************)
THEOREM ManagedByKubezoo == Spec => []ManagedIsKubezoos
<1>1. IndInv => ManagedIsKubezoos
  BY DEF IndInv
<1> QED  BY <1>1, IndInvHolds, PTL

-----------------------------------------------------------------------------
(***************************************************************************)
(* Action properties.                                                      *)
(***************************************************************************)
LEMMA StepsIsolate == IndInv /\ IndInv' /\ [Next]_vars => IsolatedStep
<1> SUFFICES ASSUME IndInv, IndInv', [Next]_vars PROVE IsolatedStep
  OBVIOUS
<1>1. PlatformObject \subseteq objects'
  BY KeepsPlatformStays DEF PlatformStays
<1> SUFFICES ASSUME NEW t \in Tenant, View(t)' # View(t)
             PROVE  Executes(t) \/ KeepRole(t) \/ KeepBinding(t) \/ WithdrawBindings(t)
  BY <1>1 DEF IsolatedStep
<1>2. TypeOK /\ Upstream \subseteq Object /\ Upstream' \subseteq Object
  BY DEF IndInv, TypeOK, Upstream
<1>3. PICK o : /\ (o \in Upstream /\ o \notin Upstream') \/ (o \in Upstream' /\ o \notin Upstream)
               /\ UpstreamObjectBelongsToTenant(t, o)
  BY DEF View
<1>4. o \in Object
  BY <1>2, <1>3
<1>5. ASSUME NEW c \in Client, Creates(c) PROVE Executes(t)
  <2>1. o = Target(c)
    BY <1>3, <1>5 DEF Creates, Upstream
  <2>2. t = TenantOf[c]
    BY <1>3, <1>5, <2>1, CreatedIsOwned
  <2> QED  BY <1>5, <2>2 DEF Creates, Executing, Executes
<1>6. ASSUME NEW c \in Client, Deletes(c) PROVE Executes(t)
  <2>1. o \in Erased(Target(c), Upstream)
    BY <1>3, <1>6 DEF Deletes, Upstream
  <2>2. t = TenantOf[c]
    BY <1>3, <1>4, <1>6, <2>1, ErasedIsOwned, OneOwner, KubeZooAssumption
  <2> QED  BY <1>6, <2>2 DEF Deletes, Executing, Executes
<1>7. ASSUME NEW u \in Tenant, KeepRole(u) PROVE KeepRole(t)
  <2>1. PICK r \in ReservedRole :
          managed' = managed \cup {[kind  |-> "ClusterRole",
                                    owner |-> AddTenantIDPrefix(u, r), name |-> NoName]}
    BY <1>7 DEF KeepRole
  <2>2. o.owner = AddTenantIDPrefix(u, r) /\ r \in Name
    BY <1>3, <1>7, <2>1, KubeZooAssumption DEF KeepRole, Upstream
  <2>3. t = u
    BY <1>3, <1>4, <2>2, TrimUndoesAdd, OneOwner DEF UpstreamObjectBelongsToTenant
  <2> QED  BY <1>7, <2>3
<1>8. ASSUME NEW u \in Tenant, KeepBinding(u) PROVE KeepBinding(t)
  <2>1. PICK ns \in Upstream, b \in ManagedBinding :
          /\ UpstreamObjectBelongsToTenant(u, ns)
          /\ managed' = managed \cup {[kind |-> "RoleBinding", owner |-> ns.owner, name |-> b]}
    BY <1>8 DEF KeepBinding
  <2>2. o.owner = ns.owner
    BY <1>3, <1>8, <2>1 DEF KeepBinding, Upstream
  <2>3. t = u
    BY <1>3, <1>4, <2>1, <2>2, OneOwner DEF UpstreamObjectBelongsToTenant
  <2> QED  BY <1>8, <2>3
<1>9. ASSUME NEW u \in Tenant, WithdrawBindings(u) PROVE WithdrawBindings(t)
  <2>1. UpstreamObjectBelongsToTenant(u, o)
    BY <1>3, <1>9 DEF WithdrawBindings, Upstream
  <2>2. t = u
    BY <1>3, <1>4, <2>1, OneOwner
  <2> QED  BY <1>9, <2>2
<1>10. ~UNCHANGED <<objects, managed>>
  BY <1>3 DEF Upstream
<1> QED  BY <1>2, <1>5, <1>6, <1>7, <1>8, <1>9, <1>10, StepsByEffect

(***************************************************************************)
(* A tenant's part of the upstream cluster changes by its own requests and *)
(* by the controller's work for it alone, and the platform's never.        *)
(***************************************************************************)
THEOREM TenantsAreIsolated == Spec => Isolation
<1>1. [Next]_vars /\ IndInv /\ IndInv' => [IsolatedStep]_vars
  BY StepsIsolate
<1> QED  BY <1>1, IndInvHolds, PTL DEF Spec, Isolation

LEMMA StepsKeepRoles == IndInv /\ [Next]_vars => KeptRolesStayStep
<1> SUFFICES ASSUME IndInv, [Next]_vars,
                    NEW o \in managed, o.kind = "ClusterRole", o \notin managed'
             PROVE  FALSE
  BY DEF KeptRolesStayStep
<1>1. TypeOK /\ ManagedIsReserved /\ o \in Object /\ o \in Upstream
  BY DEF IndInv, TypeOK, Upstream
<1>2. PICK u \in Tenant : IsReservedClusterName(u, o)
  BY <1>1 DEF ManagedIsReserved, IsManagedBindingName
<1>3. ASSUME NEW c \in Client, Deletes(c) PROVE FALSE
  <2>1. o \in Erased(Target(c), Upstream)
    BY <1>3 DEF Deletes
  <2>2. o = Target(c)
    BY <2>1 DEF Erased, NamespacedKind
  <2>3. u = TenantOf[c]
    BY <1>1, <1>2, <1>3, <2>1, ErasedIsOwned, ReservedIsOwned, OneOwner, KubeZooAssumption
  <2>4. Refused(TenantOf[c], request[c])
    BY <1>2, <1>3, <2>2, <2>3 DEF Refused, Deletes, Target
  <2> QED  BY <1>3, <2>4 DEF IndInv, ForwardedIsAllowed, Deletes, Executing
<1>4. ASSUME NEW t \in Tenant, WithdrawBindings(t) PROVE FALSE
  BY <1>4 DEF WithdrawBindings, IsManagedBindingName
<1> QED
  BY <1>1, <1>3, <1>4, StepsByEffect DEF Creates, KeepRole, KeepBinding

(***************************************************************************)
(* No request takes away a role kubezoo keeps.                             *)
(***************************************************************************)
THEOREM RolesAreKept == Spec => KeptRolesStay
<1>1. [Next]_vars /\ IndInv => [KeptRolesStayStep]_vars
  BY StepsKeepRoles
<1> QED  BY <1>1, IndInvHolds, PTL DEF Spec, KeptRolesStay

-----------------------------------------------------------------------------
(***************************************************************************)
(* The refinement of TenantClusters.  A tenant's terms lose nothing: among *)
(* the objects that are its own, the name it uses for one is the name of   *)
(* that one alone.                                                         *)
(***************************************************************************)
LEMMA TermsAreUnique ==
    ASSUME NEW t \in Tenant, NEW o \in Object, NEW p \in Object,
           UpstreamObjectBelongsToTenant(t, o), UpstreamObjectBelongsToTenant(t, p),
           ToTenant(t, o) = ToTenant(t, p)
    PROVE  o = p
<1>1. o.kind = p.kind /\ o.name = p.name
  BY ToTenantParts
<1>2. TrimTenantIDPrefix(t, o.owner) = TrimTenantIDPrefix(t, p.owner)
  BY ToTenantParts
<1>3. o.owner = p.owner
  BY <1>2, AddUndoesTrim DEF UpstreamObjectBelongsToTenant, Object
<1> QED  BY <1>1, <1>3 DEF Object

LEMMA InTermsMember ==
    ASSUME NEW t \in Tenant, NEW objs \in SUBSET Object, NEW p \in Object,
           UpstreamObjectBelongsToTenant(t, p)
    PROVE  ToTenant(t, p) \in InTerms(t, objs) <=> p \in objs
  BY TermsAreUnique DEF InTerms

LEMMA InTermsUnion ==
    ASSUME NEW t, NEW a, NEW b
    PROVE  InTerms(t, a \cup b) = InTerms(t, a) \cup InTerms(t, b)
  BY DEF InTerms

LEMMA InTermsMinus ==
    ASSUME NEW t \in Tenant, NEW a \in SUBSET Object, NEW b \in SUBSET Object
    PROVE  InTerms(t, a \ b) = InTerms(t, a) \ InTerms(t, b)
<1>1. ASSUME NEW x \in InTerms(t, a \ b) PROVE x \in InTerms(t, a) /\ x \notin InTerms(t, b)
  <2>1. PICK p \in a \ b : UpstreamObjectBelongsToTenant(t, p) /\ x = ToTenant(t, p)
    BY <1>1 DEF InTerms
  <2> QED  BY <2>1, InTermsMember
<1>2. ASSUME NEW x \in InTerms(t, a), x \notin InTerms(t, b) PROVE x \in InTerms(t, a \ b)
  BY <1>2 DEF InTerms
<1> QED  BY <1>1, <1>2

LEMMA InTermsOne ==
    ASSUME NEW t, NEW p, UpstreamObjectBelongsToTenant(t, p)
    PROVE  InTerms(t, {p}) = {ToTenant(t, p)}
  BY DEF InTerms

\* What is one tenant's is nothing in another's terms.
LEMMA InTermsOther ==
    ASSUME NEW t \in Tenant, NEW u \in Tenant, t # u, NEW a \in SUBSET Object,
           \A p \in a : UpstreamObjectBelongsToTenant(u, p)
    PROVE  InTerms(t, a) = {}
  BY OneOwner DEF InTerms

(***************************************************************************)
(* The abstract specification's words mean what they mean here.            *)
(***************************************************************************)
LEMMA SameWords ==
    /\ Clusters!NamespacedKind = NamespacedKind /\ Clusters!Request = Request
    /\ Clusters!NoRequest = NoRequest
    /\ \A code, items : Clusters!Reply(code, items) = Reply(code, items)
    /\ \A o, objs : Clusters!Rejection(o, objs) = Rejection(o, objs)
    /\ \A o, objs : Clusters!Erased(o, objs) = Erased(o, objs)
    /\ \A o : Clusters!IsManagedBindingName(o) <=> IsManagedBindingName(o)
    /\ \A t, n : Clusters!HasTenantPrefix(t, n) <=> HasTenantPrefix(t, n)
    /\ \A t, n : Clusters!TrimTenantIDPrefix(t, n) = TrimTenantIDPrefix(t, n)
<1>1. Clusters!NamespacedKind = NamespacedKind
  BY DEF Clusters!NamespacedKind, NamespacedKind
<1>2. Clusters!NoRequest = NoRequest
  BY DEF Clusters!NoRequest, Clusters!NoName, NoRequest, NoName
<1>3. \A code, items : Clusters!Reply(code, items) = Reply(code, items)
  BY DEF Clusters!Reply, Reply
<1>4. \A o, objs : Clusters!Rejection(o, objs) = Rejection(o, objs)
  BY <1>1 DEF Clusters!Rejection, Clusters!LacksGroup, Clusters!Namespace, Clusters!NoName,
              Rejection, LacksGroup, Namespace, NoName
<1>5. \A o, objs : Clusters!Erased(o, objs) = Erased(o, objs)
  BY <1>1 DEF Clusters!Erased, Erased
<1>6. \A o : Clusters!IsManagedBindingName(o) <=> IsManagedBindingName(o)
  BY DEF Clusters!IsManagedBindingName, IsManagedBindingName
<1>7. \A t, n : Clusters!HasTenantPrefix(t, n) <=> HasTenantPrefix(t, n)
  BY DEF Clusters!HasTenantPrefix, Clusters!TenantIDSeparator, Clusters!IsPrefix,
         HasTenantPrefix, TenantIDSeparator, IsPrefix
<1>8. \A t, n : Clusters!TrimTenantIDPrefix(t, n) = TrimTenantIDPrefix(t, n)
  BY <1>7 DEF Clusters!TrimTenantIDPrefix, TrimTenantIDPrefix
<1>9. Clusters!Request = Request
  BY <1>1 DEF Clusters!Request, Clusters!Lists, Clusters!Verb, Clusters!WellFormed,
              Clusters!ClusterKind, Clusters!NoName,
              Request, Lists, Verb, WellFormed, ClusterKind, NoName
<1> QED
  BY <1>1, <1>2, <1>3, <1>4, <1>5, <1>6, <1>7, <1>8, <1>9

-----------------------------------------------------------------------------
(***************************************************************************)
(* What a request names in its tenant's cluster is what it names upstream. *)
(***************************************************************************)
LEMMA ResolvedParts ==
    ASSUME NEW t \in Tenant, NEW r \in Request
    PROVE  Clusters!Resolved(t, r) =
             [kind  |-> r.kind,
              owner |-> IF r.kind \in NamespacedKind
                        THEN TrimTenantIDPrefix(t, r.owner) ELSE r.owner,
              name  |-> r.name]
  BY SameWords DEF Clusters!Resolved

\* Both spellings of a namespace are one name in the tenant's terms.
LEMMA SpellingsAreOne ==
    ASSUME NEW t \in Tenant, NEW n \in Name
    PROVE  TrimTenantIDPrefix(t, UpstreamNamespace(t, n)) = TrimTenantIDPrefix(t, n)
<1>1. CASE n = NoName \/ HasTenantPrefix(t, n)
  BY <1>1 DEF UpstreamNamespace
<1>2. CASE ~(n = NoName \/ HasTenantPrefix(t, n))
  <2>1. UpstreamNamespace(t, n) = AddTenantIDPrefix(t, n)
    BY <1>2 DEF UpstreamNamespace
  <2>2. TrimTenantIDPrefix(t, n) = n
    BY <1>2 DEF TrimTenantIDPrefix
  <2> QED  BY <2>1, <2>2, TrimUndoesAdd
<1> QED  BY <1>1, <1>2

LEMMA PrefixedIsNotEmpty ==
    ASSUME NEW t \in Tenant
    PROVE  /\ ~HasTenantPrefix(t, NoName)
           /\ \A n \in Name : AddTenantIDPrefix(t, n) # NoName
<1>1. NoName \in Name /\ Len(NoName) = 0
  BY EmptySeq DEF NoName, Name
<1>2. ~HasTenantPrefix(t, NoName)
  BY <1>1, PrefixCharacters, LengthAssumption
<1> QED  BY <1>2, TrimUndoesAdd

LEMMA ResolvedIsTarget ==
    ASSUME NEW t \in Tenant, NEW r \in Request, r.verb # "list"
    PROVE  /\ LacksGroup(Clusters!Resolved(t, r)) <=> LacksGroup(ToUpstream(t, r))
           /\ ~LacksGroup(ToUpstream(t, r)) =>
                 ToTenant(t, ToUpstream(t, r)) = Clusters!Resolved(t, r)
<1> DEFINE o == ToUpstream(t, r)
           m == Clusters!Resolved(t, r)
<1>1. /\ r.kind \in Kind /\ r.owner \in Name /\ o \in Object
      /\ o.kind = r.kind /\ o.name = r.name /\ o.owner = UpstreamOwner(t, r.kind, r.owner)
  BY RequestParts, ToUpstreamType DEF ToUpstream
<1>2. m = [kind |-> r.kind, owner |-> IF r.kind \in NamespacedKind
                                      THEN TrimTenantIDPrefix(t, r.owner) ELSE r.owner,
           name |-> r.name]
  BY ResolvedParts
<1>3. LacksGroup(m) <=> LacksGroup(o)
  BY <1>1, <1>2, PrefixedIsNotEmpty
     DEF LacksGroup, UpstreamOwner, ConvertTenantObjectNameToUpstream, NamespacedKind
<1>4. ASSUME ~LacksGroup(o) PROVE TrimTenantIDPrefix(t, o.owner) = m.owner
  <2>1. CASE r.kind \in NamespacedKind
    BY <1>1, <1>2, <2>1, SpellingsAreOne DEF UpstreamOwner
  <2>2. CASE r.kind \notin NamespacedKind
    BY <1>1, <1>2, <1>4, <2>2, TrimUndoesAdd
       DEF UpstreamOwner, ConvertTenantObjectNameToUpstream, LacksGroup
  <2> QED  BY <2>1, <2>2
<1>5. ToTenant(t, o) = [kind |-> o.kind, owner |-> TrimTenantIDPrefix(t, o.owner), name |-> o.name]
  BY <1>1 DEF ToTenant, Object
<1> QED  BY <1>1, <1>2, <1>3, <1>4, <1>5

LEMMA ForbiddenIsRefused ==
    ASSUME NEW t \in Tenant, NEW r \in Request
    PROVE  Clusters!Forbidden(t, r) <=> Refused(t, r)
<1>1. /\ ToUpstream(t, r).kind = r.kind /\ ToUpstream(t, r).name = r.name
      /\ ToUpstream(t, r).owner = UpstreamOwner(t, r.kind, r.owner) /\ r.owner \in Name
  BY RequestParts DEF ToUpstream
<1>2. Clusters!IsKeptRole(r) <=> IsReservedClusterName(t, ToUpstream(t, r))
  <2>1. CASE r.kind # "ClusterRole"
    BY <1>1, <2>1 DEF Clusters!IsKeptRole, IsReservedClusterName
  <2>2. CASE r.kind = "ClusterRole"
    <3>1. ToUpstream(t, r).owner = AddTenantIDPrefix(t, r.owner)
      BY <1>1, <2>2 DEF UpstreamOwner, NamespacedKind, ConvertTenantObjectNameToUpstream
    <3>2. \A q \in ReservedRole :
             AddTenantIDPrefix(t, r.owner) = AddTenantIDPrefix(t, q) => r.owner = q
      BY <1>1, TrimUndoesAdd, KubeZooAssumption
    <3> QED  BY <1>1, <2>2, <3>1, <3>2 DEF Clusters!IsKeptRole, IsReservedClusterName
  <2> QED  BY <2>1, <2>2
<1>3. IsManagedBindingName(r) <=> IsManagedBindingName(ToUpstream(t, r))
  BY <1>1 DEF IsManagedBindingName
<1> QED
  BY <1>2, <1>3, SameWords DEF Clusters!Forbidden, Refused, NamespaceNameForTenant

-----------------------------------------------------------------------------
(***************************************************************************)
(* What upstream answers about the shared cluster is what the tenant's own *)
(* cluster would answer.                                                   *)
(***************************************************************************)
LEMMA HereIsUpstream ==
    ASSUME NEW c \in Client
    PROVE  Clusters!Here(c) = InTerms(TenantOf[c], Upstream)
  BY KubeZooAssumption, InTermsUnion DEF Clusters!Here, clusterBar, keptBar, Upstream

\* A CRD of a tenant keeps its group in the tenant's terms.
LEMMA TermsKeepGroups ==
    ASSUME IndInv, NEW t \in Tenant, NEW x \in InTerms(t, Upstream)
    PROVE  ~LacksGroup(x)
<1>1. PICK o \in Upstream : UpstreamObjectBelongsToTenant(t, o) /\ x = ToTenant(t, o)
  BY DEF InTerms
<1>2. Addressable(t, o) /\ o \in Object
  BY <1>1, ViewByObject DEF IndInv, TypeOK, Upstream
<1>3. x.kind = o.kind /\ UpstreamOwner(t, o.kind, x.owner) = o.owner
  BY <1>1, <1>2, ToTenantParts DEF Addressable
<1>4. o.owner # NoName
  BY <1>1, PrefixedIsNotEmpty DEF UpstreamObjectBelongsToTenant
<1> QED  BY <1>3, <1>4 DEF LacksGroup, UpstreamOwner, ConvertTenantObjectNameToUpstream, NamespacedKind

\* A request upstream is about to execute, and what it names.
LEMMA NamedIsNamed ==
    ASSUME IndInv, NEW c \in Client, phase[c] = "forwarded", request[c].verb # "list"
    PROVE  /\ TenantOf[c] \in Tenant /\ request[c] \in Request
           /\ Target(c) \in Object /\ Upstream \in SUBSET Object
           /\ LacksGroup(Clusters!Mine(c)) <=> LacksGroup(Target(c))
           /\ ~LacksGroup(Target(c)) =>
                 /\ Clusters!Mine(c) = ToTenant(TenantOf[c], Target(c))
                 /\ UpstreamObjectBelongsToTenant(TenantOf[c], Target(c))
           /\ Target(c) \in Upstream <=> Clusters!Mine(c) \in Clusters!Here(c)
<1> DEFINE t == TenantOf[c]
           r == request[c]
           o == Target(c)
           m == Clusters!Mine(c)
<1>1. t \in Tenant /\ r \in Request /\ Upstream \in SUBSET Object
  BY KubeZooAssumption DEF IndInv, TypeOK, Upstream
<1>2. o \in Object
  BY <1>1, ToUpstreamType DEF Target
<1>3. m = Clusters!Resolved(t, r)
  BY DEF Clusters!Mine
<1>4. /\ LacksGroup(m) <=> LacksGroup(o)
      /\ ~LacksGroup(o) => m = ToTenant(t, o) /\ UpstreamObjectBelongsToTenant(t, o)
  BY <1>1, <1>3, ResolvedIsTarget, TargetIsOwned DEF Target
<1>5. o \in Upstream <=> m \in Clusters!Here(c)
  <2>1. CASE LacksGroup(o)
    BY <1>1, <1>4, <2>1, TermsKeepGroups, HereIsUpstream DEF IndInv, EveryCRDHasGroup
  <2>2. CASE ~LacksGroup(o)
    BY <1>1, <1>2, <1>4, <2>2, InTermsMember, HereIsUpstream
  <2> QED  BY <2>1, <2>2
<1> QED  BY <1>1, <1>2, <1>4, <1>5

LEMMA RejectionInTerms ==
    ASSUME IndInv, NEW c \in Client, phase[c] = "forwarded", request[c].verb # "list"
    PROVE  Rejection(Clusters!Mine(c), Clusters!Here(c)) = Rejection(Target(c), Upstream)
<1> DEFINE t == TenantOf[c]
           o == Target(c)
           m == Clusters!Mine(c)
<1>1. /\ t \in Tenant /\ o \in Object /\ Upstream \in SUBSET Object
      /\ LacksGroup(m) <=> LacksGroup(o)
      /\ ~LacksGroup(o) => m = ToTenant(t, o) /\ UpstreamObjectBelongsToTenant(t, o)
      /\ o \in Upstream <=> m \in Clusters!Here(c)
  BY NamedIsNamed
<1>2. CASE LacksGroup(o)
  BY <1>1, <1>2 DEF Rejection
<1>3. CASE ~LacksGroup(o)
  <2>1. m.kind = o.kind /\ m.owner = TrimTenantIDPrefix(t, o.owner)
    BY <1>1, <1>3, ToTenantParts
  <2> DEFINE ns == Namespace(o.owner)
  <2>2. ns \in Object /\ UpstreamObjectBelongsToTenant(t, ns)
    BY <1>1, <1>3, EmptySeq
       DEF Namespace, Object, Kind, ClusterKind, NoName, Name, UpstreamObjectBelongsToTenant
  <2>3. ToTenant(t, ns) = Namespace(m.owner)
    BY <2>1 DEF ToTenant, Namespace
  <2>4. ns \in Upstream <=> Namespace(m.owner) \in Clusters!Here(c)
    BY <1>1, <2>2, <2>3, InTermsMember, HereIsUpstream
  <2> QED  BY <1>1, <1>3, <2>1, <2>4 DEF Rejection
<1> QED  BY <1>2, <1>3

LEMMA ErasedInTerms ==
    ASSUME IndInv, NEW c \in Client, phase[c] = "forwarded", request[c].verb # "list",
           Target(c) \in Upstream
    PROVE  /\ InTerms(TenantOf[c], Erased(Target(c), Upstream))
                = Erased(Clusters!Mine(c), Clusters!Here(c))
           /\ Erased(Target(c), Upstream) \in SUBSET Object
           /\ \A i \in Erased(Target(c), Upstream) :
                 UpstreamObjectBelongsToTenant(TenantOf[c], i)
<1> DEFINE t == TenantOf[c]
           o == Target(c)
           m == Clusters!Mine(c)
           In == { i \in Upstream : /\ o.kind = "Namespace" /\ i.kind \in NamespacedKind
                                    /\ i.owner = o.owner }
           Within == { j \in Clusters!Here(c) :
                          /\ m.kind = "Namespace" /\ j.kind \in NamespacedKind
                          /\ j.owner = m.owner }
<1>1. /\ t \in Tenant /\ o \in Object /\ Upstream \in SUBSET Object
      /\ m = ToTenant(t, o) /\ UpstreamObjectBelongsToTenant(t, o)
  BY NamedIsNamed DEF IndInv, EveryCRDHasGroup
<1>2. m.kind = o.kind /\ m.owner = TrimTenantIDPrefix(t, o.owner)
  BY <1>1, ToTenantParts
<1>3. ASSUME NEW i \in Upstream, UpstreamObjectBelongsToTenant(t, i)
      PROVE  /\ ToTenant(t, i).kind = i.kind
             /\ ToTenant(t, i).owner = m.owner <=> i.owner = o.owner
  BY <1>1, <1>2, <1>3, ToTenantParts, AddUndoesTrim DEF UpstreamObjectBelongsToTenant, Object
<1>4. In \subseteq Upstream /\ \A i \in In : UpstreamObjectBelongsToTenant(t, i)
  BY <1>1 DEF UpstreamObjectBelongsToTenant
<1>5. InTerms(t, In) = Within
  <2>1. ASSUME NEW x \in InTerms(t, In) PROVE x \in Within
    BY <1>2, <1>3, <2>1, HereIsUpstream DEF InTerms
  <2>2. ASSUME NEW x \in Within PROVE x \in InTerms(t, In)
    <3>1. PICK i \in Upstream : UpstreamObjectBelongsToTenant(t, i) /\ x = ToTenant(t, i)
      BY <2>2, HereIsUpstream DEF InTerms
    <3>2. i \in In
      BY <1>2, <1>3, <2>2, <3>1
    <3> QED  BY <3>1, <3>2 DEF InTerms
  <2> QED  BY <2>1, <2>2
<1>6. Erased(o, Upstream) = {o} \cup In /\ Erased(m, Clusters!Here(c)) = {m} \cup Within
  BY DEF Erased
<1> HIDE DEF In, Within
<1>7. InTerms(t, {o} \cup In) = InTerms(t, {o}) \cup Within
  BY <1>5, InTermsUnion
<1>8. InTerms(t, {o}) = {m}
  BY <1>1, InTermsOne
<1>9. InTerms(t, Erased(o, Upstream)) = Erased(m, Clusters!Here(c))
  BY <1>6, <1>7, <1>8
<1>10. Erased(o, Upstream) \in SUBSET Object
  BY <1>1, <1>4, <1>6
<1>11. \A i \in Erased(o, Upstream) : UpstreamObjectBelongsToTenant(t, i)
  BY <1>1, <1>4, <1>6
<1> QED  BY <1>9, <1>10, <1>11

LEMMA ListedInTerms ==
    ASSUME IndInv, NEW c \in Client, phase[c] = "forwarded", request[c].verb = "list"
    PROVE  /\ Listed(request[c].kind, UpstreamNamespace(TenantOf[c], request[c].owner), Upstream)
                \in SUBSET Object
           /\ InTenantTerms(TenantOf[c], request[c],
                            Listed(request[c].kind,
                                   UpstreamNamespace(TenantOf[c], request[c].owner), Upstream))
                = { o \in Clusters!Found(c) : ~IsManagedBindingName(o) }
<1> DEFINE t == TenantOf[c]
           r == request[c]
           n == UpstreamNamespace(t, r.owner)
           m == Clusters!Mine(c)
           items == Listed(r.kind, n, Upstream)
           Found == { o \in Clusters!Found(c) : ~IsManagedBindingName(o) }
<1>1. t \in Tenant /\ r \in Request /\ Upstream \in SUBSET Object /\ r.owner \in Name
  BY KubeZooAssumption, RequestParts DEF IndInv, TypeOK, Upstream
<1>2. m.kind = r.kind /\ (r.kind \in NamespacedKind => m.owner = TrimTenantIDPrefix(t, r.owner))
  BY <1>1, ResolvedParts DEF Clusters!Mine
<1>3. ASSUME NEW o \in Upstream, UpstreamObjectBelongsToTenant(t, o), r.kind \in NamespacedKind
      PROVE  (n # NoName => o.owner = n) <=> (r.owner # NoName => ToTenant(t, o).owner = m.owner)
  <2>1. CASE r.owner = NoName
    BY <2>1 DEF UpstreamNamespace
  <2>2. CASE r.owner # NoName
    <3>1. n \in Name /\ HasTenantPrefix(t, n) /\ n # NoName
      BY <1>1, <2>2, UpstreamNamespaceResolves, PrefixedIsNotEmpty
    <3>2. TrimTenantIDPrefix(t, n) = m.owner
      BY <1>1, <1>2, <1>3, SpellingsAreOne
    <3>3. o \in Object /\ o.owner \in Name /\ HasTenantPrefix(t, o.owner)
      BY <1>1, <1>3 DEF UpstreamObjectBelongsToTenant, Object
    <3>4. ToTenant(t, o).owner = TrimTenantIDPrefix(t, o.owner)
      BY <1>1, <3>3, ToTenantParts
    <3>5. TrimTenantIDPrefix(t, o.owner) = TrimTenantIDPrefix(t, n) <=> o.owner = n
      BY <1>1, <3>1, <3>3, AddUndoesTrim
    <3> QED  BY <2>2, <3>1, <3>2, <3>4, <3>5
  <2> QED  BY <2>1, <2>2
<1>4. ASSUME NEW o \in Upstream, UpstreamObjectBelongsToTenant(t, o)
      PROVE  /\ ToTenant(t, o) \in Clusters!Here(c)
             /\ IsManagedBindingName(ToTenant(t, o)) <=> IsManagedBindingName(o)
             /\ o \in items <=> ToTenant(t, o) \in Clusters!Found(c)
  <2>1. ToTenant(t, o) \in Clusters!Here(c)
    BY <1>4, HereIsUpstream DEF InTerms
  <2>2. ToTenant(t, o).kind = o.kind /\ ToTenant(t, o).name = o.name
    BY <1>1, <1>4, ToTenantParts
  <2>3. o \in items <=>
          o.kind = r.kind /\ (r.kind \in NamespacedKind => (n # NoName => o.owner = n))
    BY <1>4 DEF Listed
  <2>4. ToTenant(t, o) \in Clusters!Found(c) <=>
          /\ o.kind = r.kind
          /\ r.kind \in NamespacedKind =>
                (r.owner # NoName => ToTenant(t, o).owner = m.owner)
    BY <1>2, <2>1, <2>2, SameWords DEF Clusters!Found, Clusters!NoName, NoName
  <2> QED  BY <1>3, <1>4, <2>1, <2>2, <2>3, <2>4 DEF IsManagedBindingName
<1>5. InTenantTerms(t, r, items) =
        { ToTenant(t, o) : o \in { p \in items : /\ UpstreamObjectBelongsToTenant(t, p)
                                                 /\ ~IsManagedBindingName(p) } }
  BY DEF InTenantTerms, Filtered
<1>6. items \subseteq Upstream /\ Clusters!Found(c) \subseteq Clusters!Here(c)
  BY DEF Listed, Clusters!Found
<1>7. ASSUME NEW x \in InTenantTerms(t, r, items) PROVE x \in Found
  <2>1. PICK o \in items : /\ UpstreamObjectBelongsToTenant(t, o) /\ ~IsManagedBindingName(o)
                           /\ x = ToTenant(t, o)
    BY <1>5, <1>7
  <2> QED  BY <1>4, <1>6, <2>1
<1>8. ASSUME NEW x \in Found PROVE x \in InTenantTerms(t, r, items)
  <2>1. PICK o \in Upstream : UpstreamObjectBelongsToTenant(t, o) /\ x = ToTenant(t, o)
    BY <1>6, <1>8, HereIsUpstream DEF InTerms
  <2> QED  BY <1>4, <1>5, <1>8, <2>1
<1>9. items \in SUBSET Object
  BY <1>1, <1>6
<1> QED  BY <1>7, <1>8, <1>9

-----------------------------------------------------------------------------
(***************************************************************************)
(* How the tenants' clusters follow the upstream one.                      *)
(***************************************************************************)
Part(objs) == [t \in Tenant |-> InTerms(t, objs)]

LEMMA PartGains ==
    ASSUME NEW t \in Tenant, NEW objs, NEW ps \in SUBSET Object,
           \A p \in ps : UpstreamObjectBelongsToTenant(t, p)
    PROVE  Part(objs \cup ps) = [Part(objs) EXCEPT ![t] = @ \cup InTerms(t, ps)]
<1>1. ASSUME NEW u \in Tenant, u # t PROVE InTerms(u, objs \cup ps) = InTerms(u, objs)
  BY <1>1, InTermsUnion, InTermsOther
<1>2. InTerms(t, objs \cup ps) = InTerms(t, objs) \cup InTerms(t, ps)
  BY InTermsUnion
<1> QED  BY <1>1, <1>2 DEF Part

LEMMA PartLoses ==
    ASSUME NEW t \in Tenant, NEW objs \in SUBSET Object, NEW ps \in SUBSET Object,
           \A p \in ps : UpstreamObjectBelongsToTenant(t, p)
    PROVE  Part(objs \ ps) = [Part(objs) EXCEPT ![t] = @ \ InTerms(t, ps)]
<1>1. ASSUME NEW u \in Tenant, u # t PROVE InTerms(u, objs \ ps) = InTerms(u, objs)
  BY <1>1, InTermsMinus, InTermsOther
<1>2. InTerms(t, objs \ ps) = InTerms(t, objs) \ InTerms(t, ps)
  BY InTermsMinus
<1> QED  BY <1>1, <1>2 DEF Part

LEMMA ClustersAreParts ==
    /\ clusterBar = Part(objects) /\ keptBar = Part(managed)
    /\ clusterBar' = Part(objects') /\ keptBar' = Part(managed')
  BY DEF clusterBar, keptBar, Part, InTerms

LEMMA ClusterGains ==
    ASSUME NEW t \in Tenant, NEW ps \in SUBSET Object,
           \A p \in ps : UpstreamObjectBelongsToTenant(t, p),
           objects' = objects \cup ps
    PROVE  clusterBar' = [clusterBar EXCEPT ![t] = @ \cup InTerms(t, ps)]
<1>1. Part(objects \cup ps) = [Part(objects) EXCEPT ![t] = @ \cup InTerms(t, ps)]
  BY PartGains
<1> QED  BY <1>1, ClustersAreParts

(***************************************************************************)
(* How the abstract requests follow the concrete ones.                     *)
(***************************************************************************)
TenantReply(c, answer) ==
    [answer EXCEPT !.items = InTenantTerms(TenantOf[c], request[c], @)]

LEMMA TenantReplyParts ==
    ASSUME NEW c, NEW code, NEW items
    PROVE  TenantReply(c, Reply(code, items))
             = Reply(code, InTenantTerms(TenantOf[c], request[c], items))
  BY DEF TenantReply, Reply

LEMMA AnswersTakes ==
    ASSUME IndInv, NEW c \in Client, NEW verb, NEW answer, Answers(c, verb, answer)
    PROVE  Clusters!Takes(c, verb, TenantReply(c, answer))
<1>1. /\ phase[c] = "forwarded" /\ request[c].verb = verb
      /\ phase' = [phase EXCEPT ![c] = "answered"]
      /\ reply' = [reply EXCEPT ![c] = answer]
      /\ request' = request
  BY DEF Answers
<1>2. /\ phase \in [Client -> {"received", "forwarded", "answered", "done"}]
      /\ reply \in [Client -> [code : Code, items : SUBSET Object]]
      /\ request[c] \in Request /\ TenantOf[c] \in Tenant
  BY <1>1, KubeZooAssumption DEF IndInv, TypeOK
<1>3. phaseBar[c] = "called"
  BY <1>1 DEF phaseBar
<1>4. ~Clusters!Forbidden(TenantOf[c], request[c])
  BY <1>1, <1>2, ForbiddenIsRefused DEF IndInv, ForwardedIsAllowed
<1>5. phaseBar' = [phaseBar EXCEPT ![c] = "taken"]
  BY <1>1, <1>2 DEF phaseBar
<1>6. replyBar' = [replyBar EXCEPT ![c] = TenantReply(c, answer)]
  BY <1>1, <1>2 DEF replyBar, TenantReply
<1> QED  BY <1>1, <1>3, <1>4, <1>5, <1>6 DEF Clusters!Takes

-----------------------------------------------------------------------------
(***************************************************************************)
(* Every step is one of TenantClusters, or none.                           *)
(***************************************************************************)
LEMMA SendRefines ==
    ASSUME IndInv, NEW c \in Client, NEW r \in Request, Send(c, r)
    PROVE  Clusters!Call(c)
<1>1. /\ phase[c] = "done" /\ phase' = [phase EXCEPT ![c] = "received"]
      /\ request' = [request EXCEPT ![c] = r]
      /\ reply' = [reply EXCEPT ![c] = Reply("none", {})]
      /\ objects' = objects /\ managed' = managed
  BY DEF Send
<1>2. /\ phase \in [Client -> {"received", "forwarded", "answered", "done"}]
      /\ request \in [Client -> Request \cup {NoRequest}]
      /\ reply \in [Client -> [code : Code, items : SUBSET Object]]
  BY DEF IndInv, TypeOK
<1>3. phaseBar[c] = "done" /\ phaseBar' = [phaseBar EXCEPT ![c] = "called"]
  BY <1>1, <1>2 DEF phaseBar
<1>4. replyBar' = [replyBar EXCEPT ![c] = Reply("none", {})]
  BY <1>1, <1>2 DEF replyBar
<1>5. request'[c] = r
  BY <1>1, <1>2
<1>6. clusterBar' = clusterBar /\ keptBar' = keptBar
  BY <1>1, ClustersAreParts
<1>7. request'[c] \in Clusters!Request
  BY <1>5, SameWords
<1>8. request' = [request EXCEPT ![c] = request'[c]]
  BY <1>1, <1>5
<1>9. Clusters!Reply("none", {}) = Reply("none", {})
  BY SameWords
<1> QED  BY <1>3, <1>4, <1>6, <1>7, <1>8, <1>9 DEF Clusters!Call

LEMMA ForwardRefines ==
    ASSUME IndInv, NEW c \in Client, Forward(c)
    PROVE  Clusters!Refuse(c) \/ UNCHANGED Clusters!vars
<1>1. /\ phase \in [Client -> {"received", "forwarded", "answered", "done"}]
      /\ request \in [Client -> Request \cup {NoRequest}]
      /\ reply \in [Client -> [code : Code, items : SUBSET Object]]
      /\ phase[c] = "received" /\ request[c] \in Request /\ TenantOf[c] \in Tenant
  BY KubeZooAssumption DEF IndInv, TypeOK, Forward
<1>2. clusterBar' = clusterBar /\ keptBar' = keptBar
  BY ClustersAreParts DEF Forward
<1>3. CASE Refused(TenantOf[c], request[c])
  <2>1. /\ phase' = [phase EXCEPT ![c] = "done"]
        /\ reply' = [reply EXCEPT ![c] = Reply("refused", {})]
        /\ request' = [request EXCEPT ![c] = NoRequest]
    BY <1>3 DEF Forward
  <2>2. phaseBar[c] = "called" /\ phaseBar' = [phaseBar EXCEPT ![c] = "done"]
    BY <1>1, <2>1 DEF phaseBar
  <2>3. replyBar' = [replyBar EXCEPT ![c] = Reply("refused", {})]
    BY <1>1, <2>1 DEF replyBar
  <2>4. Clusters!Forbidden(TenantOf[c], request[c])
    BY <1>1, <1>3, ForbiddenIsRefused
  <2> QED  BY <1>2, <2>1, <2>2, <2>3, <2>4, SameWords DEF Clusters!Refuse
<1>4. CASE ~Refused(TenantOf[c], request[c])
  <2>1. /\ phase' = [phase EXCEPT ![c] = "forwarded"]
        /\ reply' = reply /\ request' = request
    BY <1>4 DEF Forward
  <2>2. phaseBar' = phaseBar
    BY <1>1, <2>1 DEF phaseBar
  <2>3. replyBar' = replyBar
    BY <1>1, <2>1 DEF replyBar
  <2> QED  BY <1>2, <2>1, <2>2, <2>3 DEF Clusters!vars
<1> QED  BY <1>3, <1>4

LEMMA RespondRefines ==
    ASSUME IndInv, NEW c \in Client, Respond(c)
    PROVE  Clusters!Return(c)
<1>1. /\ phase[c] = "answered" /\ phase' = [phase EXCEPT ![c] = "done"]
      /\ reply' = [reply EXCEPT ![c].items =
                      InTenantTerms(TenantOf[c], request[c], reply[c].items)]
      /\ request' = [request EXCEPT ![c] = NoRequest]
      /\ objects' = objects /\ managed' = managed
  BY DEF Respond
<1>2. /\ phase \in [Client -> {"received", "forwarded", "answered", "done"}]
      /\ request \in [Client -> Request \cup {NoRequest}]
      /\ reply \in [Client -> [code : Code, items : SUBSET Object]]
  BY DEF IndInv, TypeOK
<1>3. phaseBar[c] = "taken" /\ phaseBar' = [phaseBar EXCEPT ![c] = "done"]
  BY <1>1, <1>2 DEF phaseBar
<1>4. replyBar' = replyBar
  BY <1>1, <1>2 DEF replyBar
<1>5. clusterBar' = clusterBar /\ keptBar' = keptBar
  BY <1>1, ClustersAreParts
<1> QED  BY <1>1, <1>3, <1>4, <1>5, SameWords DEF Clusters!Return

\* The answer to a request about one object, in the tenant's terms.
LEMMA OneAnswer ==
    ASSUME IndInv, NEW c \in Client, phase[c] = "forwarded", request[c].verb # "list", NEW code
    PROVE  /\ TenantReply(c, Reply(code, {})) = Clusters!Reply(code, {})
           /\ ~LacksGroup(Target(c)) =>
                 TenantReply(c, Reply(code, {Target(c)})) = Clusters!Reply(code, {Clusters!Mine(c)})
<1>1. \A items : InTenantTerms(TenantOf[c], request[c], items)
                   = { ToTenant(TenantOf[c], o) : o \in items }
  BY DEF InTenantTerms
<1>2. InTenantTerms(TenantOf[c], request[c], {}) = {}
  BY <1>1
<1>3. InTenantTerms(TenantOf[c], request[c], {Target(c)}) = {ToTenant(TenantOf[c], Target(c))}
  BY <1>1
<1> QED  BY <1>2, <1>3, TenantReplyParts, NamedIsNamed, SameWords

\* What a request names, as the upstream object that it is.
LEMMA TargetAsPart ==
    ASSUME IndInv, NEW c \in Client, phase[c] = "forwarded", request[c].verb # "list",
           ~LacksGroup(Target(c))
    PROVE  /\ {Target(c)} \in SUBSET Object
           /\ \A p \in {Target(c)} : UpstreamObjectBelongsToTenant(TenantOf[c], p)
           /\ InTerms(TenantOf[c], {Target(c)}) = {Clusters!Mine(c)}
  BY NamedIsNamed, InTermsOne

LEMMA CreateRefines ==
    ASSUME IndInv, NEW c \in Client, Create(c)
    PROVE  Clusters!Create(c)
<1>1. phase[c] = "forwarded" /\ request[c].verb # "list" /\ TenantOf[c] \in Tenant
  BY KubeZooAssumption DEF Create, Answers
<1>2. managed' = managed /\ keptBar' = keptBar
  BY ClustersAreParts DEF Create
<1>3. CASE Rejection(Target(c), Upstream) = "none"
  <2>1. Answers(c, "create", Reply("ok", {Target(c)})) /\ objects' = objects \cup {Target(c)}
    BY <1>3 DEF Create
  <2>2. ~LacksGroup(Target(c))
    BY <1>3 DEF Rejection
  <2>3. Clusters!Takes(c, "create", Clusters!Reply("ok", {Clusters!Mine(c)}))
    BY <1>1, <2>1, <2>2, AnswersTakes, OneAnswer
  <2>4. clusterBar' = [clusterBar EXCEPT ![TenantOf[c]] = @ \cup {Clusters!Mine(c)}]
    BY <1>1, <2>1, <2>2, TargetAsPart, ClusterGains
  <2>5. Clusters!Rejection(Clusters!Mine(c), Clusters!Here(c)) = "none"
    BY <1>1, <1>3, RejectionInTerms, SameWords
  <2> QED  BY <1>2, <2>3, <2>4, <2>5 DEF Clusters!Create
<1>4. CASE Rejection(Target(c), Upstream) # "none"
  <2>1. Answers(c, "create", Reply(Rejection(Target(c), Upstream), {})) /\ objects' = objects
    BY <1>4 DEF Create
  <2>2. Clusters!Rejection(Clusters!Mine(c), Clusters!Here(c)) = Rejection(Target(c), Upstream)
    BY <1>1, RejectionInTerms, SameWords
  <2>3. Clusters!Takes(c, "create", Clusters!Reply(Rejection(Target(c), Upstream), {}))
    BY <1>1, <2>1, AnswersTakes, OneAnswer
  <2>4. clusterBar' = clusterBar
    BY <2>1, ClustersAreParts
  <2> QED  BY <1>2, <1>4, <2>2, <2>3, <2>4 DEF Clusters!Create
<1> QED  BY <1>3, <1>4

LEMMA GetRefines ==
    ASSUME IndInv, NEW c \in Client, Get(c)
    PROVE  Clusters!Get(c)
<1>1. phase[c] = "forwarded" /\ request[c].verb # "list"
  BY DEF Get, Answers
<1>2. clusterBar' = clusterBar /\ keptBar' = keptBar
  BY ClustersAreParts DEF Get
<1>3. CASE Target(c) \in Upstream
  <2>1. Answers(c, "get", Reply("ok", {Target(c)}))
    BY <1>3 DEF Get
  <2>2. ~LacksGroup(Target(c))
    BY <1>3 DEF IndInv, EveryCRDHasGroup
  <2>3. Clusters!Takes(c, "get", Clusters!Reply("ok", {Clusters!Mine(c)}))
    BY <1>1, <2>1, <2>2, AnswersTakes, OneAnswer
  <2>4. Clusters!Mine(c) \in Clusters!Here(c)
    BY <1>1, <1>3, NamedIsNamed
  <2> QED  BY <1>2, <2>3, <2>4 DEF Clusters!Get
<1>4. CASE Target(c) \notin Upstream
  <2>1. Answers(c, "get", Reply("notfound", {}))
    BY <1>4 DEF Get
  <2>2. Clusters!Takes(c, "get", Clusters!Reply("notfound", {}))
    BY <1>1, <2>1, AnswersTakes, OneAnswer
  <2>3. Clusters!Mine(c) \notin Clusters!Here(c)
    BY <1>1, <1>4, NamedIsNamed
  <2> QED  BY <1>2, <2>2, <2>3 DEF Clusters!Get
<1> QED  BY <1>3, <1>4

LEMMA UpdateRefines ==
    ASSUME IndInv, NEW c \in Client, Update(c)
    PROVE  Clusters!Update(c)
<1>1. /\ phase[c] = "forwarded" /\ request[c].verb # "list" /\ TenantOf[c] \in Tenant
      /\ managed \in SUBSET Object
  BY KubeZooAssumption DEF Update, Answers, IndInv, TypeOK
<1>2. CASE Target(c) \in Upstream
  <2>1. /\ Answers(c, "update", Reply("ok", {Target(c)}))
        /\ objects' = objects \cup {Target(c)} /\ managed' = managed \ {Target(c)}
    BY <1>2 DEF Update
  <2>2. ~LacksGroup(Target(c))
    BY <1>2 DEF IndInv, EveryCRDHasGroup
  <2>3. Clusters!Takes(c, "update", Clusters!Reply("ok", {Clusters!Mine(c)}))
    BY <1>1, <2>1, <2>2, AnswersTakes, OneAnswer
  <2>4. Clusters!Mine(c) \in Clusters!Here(c)
    BY <1>1, <1>2, NamedIsNamed
  <2>5. clusterBar' = [clusterBar EXCEPT ![TenantOf[c]] = @ \cup {Clusters!Mine(c)}]
    BY <1>1, <2>1, <2>2, TargetAsPart, ClusterGains
  <2>6. keptBar' = [keptBar EXCEPT ![TenantOf[c]] = @ \ {Clusters!Mine(c)}]
    BY <1>1, <2>1, <2>2, TargetAsPart, PartLoses, ClustersAreParts
  <2> QED  BY <2>3, <2>4, <2>5, <2>6 DEF Clusters!Update
<1>3. CASE Target(c) \notin Upstream
  <2>1. /\ Answers(c, "update", Reply("notfound", {}))
        /\ objects' = objects /\ managed' = managed
    BY <1>3 DEF Update
  <2>2. Clusters!Takes(c, "update", Clusters!Reply("notfound", {}))
    BY <1>1, <2>1, AnswersTakes, OneAnswer
  <2>3. Clusters!Mine(c) \notin Clusters!Here(c)
    BY <1>1, <1>3, NamedIsNamed
  <2>4. clusterBar' = clusterBar /\ keptBar' = keptBar
    BY <2>1, ClustersAreParts
  <2> QED  BY <2>2, <2>3, <2>4 DEF Clusters!Update
<1> QED  BY <1>2, <1>3

LEMMA DeleteRefines ==
    ASSUME IndInv, NEW c \in Client, Delete(c)
    PROVE  Clusters!Delete(c)
<1>1. /\ phase[c] = "forwarded" /\ request[c].verb # "list" /\ TenantOf[c] \in Tenant
      /\ objects \in SUBSET Object /\ managed \in SUBSET Object
  BY KubeZooAssumption DEF Delete, Answers, IndInv, TypeOK
<1>2. CASE Target(c) \in Upstream
  <2> DEFINE t == TenantOf[c]
             gone == Erased(Target(c), Upstream)
             Gone == Clusters!Erased(Clusters!Mine(c), Clusters!Here(c))
  <2>1. /\ Answers(c, "delete", Reply("ok", {}))
        /\ objects' = objects \ gone /\ managed' = managed \ gone
    BY <1>2 DEF Delete
  <2>2. /\ gone \in SUBSET Object /\ \A i \in gone : UpstreamObjectBelongsToTenant(t, i)
        /\ InTerms(t, gone) = Gone
    BY <1>1, <1>2, ErasedInTerms, SameWords
  <2>3. Clusters!Takes(c, "delete", Clusters!Reply("ok", {}))
    BY <1>1, <2>1, AnswersTakes, OneAnswer
  <2>4. Clusters!Mine(c) \in Clusters!Here(c)
    BY <1>1, <1>2, NamedIsNamed
  <2> HIDE DEF t, gone, Gone
  <2>5. t \in Tenant
    BY <1>1 DEF t
  <2>6. clusterBar' = [clusterBar EXCEPT ![t] = @ \ Gone]
    <3>1. Part(objects \ gone) = [Part(objects) EXCEPT ![t] = @ \ InTerms(t, gone)]
      BY <1>1, <2>2, <2>5, PartLoses
    <3> QED  BY <2>1, <2>2, <3>1, ClustersAreParts
  <2>7. keptBar' = [keptBar EXCEPT ![t] = @ \ Gone]
    <3>1. Part(managed \ gone) = [Part(managed) EXCEPT ![t] = @ \ InTerms(t, gone)]
      BY <1>1, <2>2, <2>5, PartLoses
    <3> QED  BY <2>1, <2>2, <3>1, ClustersAreParts
  <2> QED  BY <2>3, <2>4, <2>6, <2>7 DEF Clusters!Delete, t, Gone
<1>3. CASE Target(c) \notin Upstream
  <2>1. /\ Answers(c, "delete", Reply("notfound", {}))
        /\ objects' = objects /\ managed' = managed
    BY <1>3 DEF Delete
  <2>2. Clusters!Takes(c, "delete", Clusters!Reply("notfound", {}))
    BY <1>1, <2>1, AnswersTakes, OneAnswer
  <2>3. Clusters!Mine(c) \notin Clusters!Here(c)
    BY <1>1, <1>3, NamedIsNamed
  <2>4. clusterBar' = clusterBar /\ keptBar' = keptBar
    BY <2>1, ClustersAreParts
  <2> QED  BY <2>2, <2>3, <2>4 DEF Clusters!Delete
<1> QED  BY <1>2, <1>3

LEMMA ListRefines ==
    ASSUME IndInv, NEW c \in Client, List(c)
    PROVE  Clusters!List(c)
<1> DEFINE items == Listed(request[c].kind,
                           UpstreamNamespace(TenantOf[c], request[c].owner), Upstream)
           Answer == { o \in Clusters!Found(c) : ~Clusters!IsManagedBindingName(o) }
<1>1. /\ phase[c] = "forwarded" /\ request[c].verb = "list"
      /\ Answers(c, "list", Reply("ok", items))
  BY DEF List, Answers
<1>2. InTenantTerms(TenantOf[c], request[c], items) = Answer
  BY <1>1, ListedInTerms, SameWords
<1>3. TenantReply(c, Reply("ok", items)) = Reply("ok", Answer)
  BY <1>2, TenantReplyParts
<1>4. Reply("ok", Answer) = Clusters!Reply("ok", Answer)
  BY SameWords
<1>5. Clusters!Takes(c, "list", TenantReply(c, Reply("ok", items)))
  BY <1>1, AnswersTakes
<1>6. Clusters!Takes(c, "list", Clusters!Reply("ok", Answer))
  BY <1>3, <1>4, <1>5
<1>7. clusterBar' = clusterBar /\ keptBar' = keptBar
  BY ClustersAreParts DEF List
<1> QED  BY <1>6, <1>7 DEF Clusters!List

\* What the controller adds to a tenant's objects.
LEMMA KeptGains ==
    ASSUME NEW t \in Tenant, NEW o \in Object, UpstreamObjectBelongsToTenant(t, o),
           managed' = managed \cup {o}
    PROVE  keptBar' = [keptBar EXCEPT ![t] = @ \cup {ToTenant(t, o)}]
<1>1. Part(managed \cup {o}) = [Part(managed) EXCEPT ![t] = @ \cup InTerms(t, {o})]
  BY PartGains
<1> QED  BY <1>1, ClustersAreParts, InTermsOne

LEMMA KeepRoleRefines ==
    ASSUME IndInv, NEW t \in Tenant, KeepRole(t)
    PROVE  Clusters!Keep(t)
<1>1. PICK r \in ReservedRole :
        managed' = managed \cup {[kind  |-> "ClusterRole",
                                  owner |-> AddTenantIDPrefix(t, r), name |-> NoName]}
  BY DEF KeepRole
<1> DEFINE o == [kind |-> "ClusterRole", owner |-> AddTenantIDPrefix(t, r), name |-> NoName]
<1>2. /\ o \in Object /\ UpstreamObjectBelongsToTenant(t, o)
      /\ TrimTenantIDPrefix(t, o.owner) = r
  BY KubeZooAssumption, TrimUndoesAdd, EmptySeq
     DEF Object, Kind, ClusterKind, NoName, Name, UpstreamObjectBelongsToTenant
<1>3. ToTenant(t, o) = [kind |-> "ClusterRole", owner |-> r, name |-> NoName]
  BY <1>2 DEF ToTenant
<1>4. keptBar' = [keptBar EXCEPT ![t] = @ \cup
                     {[kind |-> "ClusterRole", owner |-> r, name |-> NoName]}]
  <2>1. managed' = managed \cup {o}
    BY <1>1
  <2> QED  BY <1>2, <1>3, <2>1, KeptGains
<1>5. clusterBar' = clusterBar
  BY ClustersAreParts DEF KeepRole
<1>6. phaseBar' = phaseBar /\ replyBar' = replyBar /\ request' = request
  BY DEF KeepRole, phaseBar, replyBar, InTenantTerms, Filtered
<1> QED  BY <1>4, <1>5, <1>6 DEF Clusters!Keep, Clusters!NoName, NoName

LEMMA KeepBindingRefines ==
    ASSUME IndInv, NEW t \in Tenant, KeepBinding(t)
    PROVE  Clusters!Keep(t)
<1>1. PICK ns \in Upstream, b \in ManagedBinding :
        /\ ns.kind = "Namespace" /\ UpstreamObjectBelongsToTenant(t, ns)
        /\ managed' = managed \cup {[kind |-> "RoleBinding", owner |-> ns.owner, name |-> b]}
  BY DEF KeepBinding
<1> DEFINE o == [kind |-> "RoleBinding", owner |-> ns.owner, name |-> b]
           space == ToTenant(t, ns)
<1>2. ns \in Object /\ o \in Object /\ UpstreamObjectBelongsToTenant(t, o)
  BY <1>1, KubeZooAssumption
     DEF IndInv, TypeOK, Upstream, Object, Kind, NamespacedKind, UpstreamObjectBelongsToTenant
<1>3. ns \in objects
  BY <1>1 DEF Upstream, IndInv, ManagedIsReserved, IsManagedBindingName, IsReservedClusterName
<1>4. space \in clusterBar[t] /\ space.kind = "Namespace"
  BY <1>1, <1>2, <1>3, ToTenantParts DEF clusterBar, InTerms
<1>5. ToTenant(t, o) = [kind |-> "RoleBinding", owner |-> space.owner, name |-> b]
  BY <1>2, ToTenantParts DEF ToTenant
<1>6. keptBar' = [keptBar EXCEPT ![t] = @ \cup
                     {[kind |-> "RoleBinding", owner |-> space.owner, name |-> b]}]
  <2>1. managed' = managed \cup {o}
    BY <1>1
  <2> QED  BY <1>2, <1>5, <2>1, KeptGains
<1>7. clusterBar' = clusterBar
  BY ClustersAreParts DEF KeepBinding
<1>8. phaseBar' = phaseBar /\ replyBar' = replyBar /\ request' = request
  BY DEF KeepBinding, phaseBar, replyBar, InTenantTerms, Filtered
<1> HIDE DEF space
<1> QED  BY <1>4, <1>6, <1>7, <1>8 DEF Clusters!Keep

LEMMA WithdrawRefines ==
    ASSUME IndInv, NEW t \in Tenant, WithdrawBindings(t)
    PROVE  Clusters!Withdraw(t)
<1> DEFINE taken == { o \in managed : IsManagedBindingName(o) /\ UpstreamObjectBelongsToTenant(t, o) }
<1>1. managed \in SUBSET Object /\ taken \in SUBSET Object /\ managed' = managed \ taken
  BY DEF WithdrawBindings, IndInv, TypeOK
<1>2. \A o \in managed : UpstreamObjectBelongsToTenant(t, o) =>
         (IsManagedBindingName(ToTenant(t, o)) <=> IsManagedBindingName(o))
  BY <1>1, ToTenantParts DEF IsManagedBindingName
<1>3. InTerms(t, managed) \ InTerms(t, taken)
        = { x \in InTerms(t, managed) : ~IsManagedBindingName(x) }
  <2>1. ASSUME NEW x \in InTerms(t, managed)
        PROVE  x \in InTerms(t, taken) <=> IsManagedBindingName(x)
    BY <1>2 DEF InTerms
  <2> QED  BY <2>1
<1>4. Part(managed \ taken) = [Part(managed) EXCEPT ![t] = @ \ InTerms(t, taken)]
  BY <1>1, PartLoses
<1> HIDE DEF taken
<1>5. keptBar' = [keptBar EXCEPT ![t] = { x \in @ : ~IsManagedBindingName(x) }]
  BY <1>1, <1>3, <1>4, ClustersAreParts DEF Part
<1>6. clusterBar' = clusterBar
  BY ClustersAreParts DEF WithdrawBindings
<1>7. phaseBar' = phaseBar /\ replyBar' = replyBar /\ request' = request
  BY DEF WithdrawBindings, phaseBar, replyBar, InTenantTerms, Filtered
<1> QED  BY <1>5, <1>6, <1>7, SameWords DEF Clusters!Withdraw

LEMMA ClustersInit == Init => Clusters!Init
<1> SUFFICES ASSUME Init PROVE Clusters!Init
  OBVIOUS
<1>1. \A t \in Tenant : InTerms(t, objects) = {} /\ InTerms(t, managed) = {}
  BY PlatformAssumption DEF Init, InTerms
<1>2. clusterBar = [t \in Tenant |-> {}] /\ keptBar = [t \in Tenant |-> {}]
  BY <1>1 DEF clusterBar, keptBar
<1>3. phaseBar = [c \in Client |-> "done"]
  BY DEF Init, phaseBar
<1>4. replyBar = [c \in Client |-> Clusters!Reply("none", {})]
  BY DEF Init, replyBar, Reply, Clusters!Reply
<1>5. request = [c \in Client |-> Clusters!NoRequest]
  BY SameWords DEF Init
<1> QED  BY <1>2, <1>3, <1>4, <1>5 DEF Clusters!Init

LEMMA ClustersNext == IndInv /\ [Next]_vars => [Clusters!Next]_(Clusters!vars)
<1> SUFFICES ASSUME IndInv, [Next]_vars PROVE Clusters!Next \/ UNCHANGED Clusters!vars
  OBVIOUS
<1>1. ASSUME NEW c \in Client, NEW r \in Request, Send(c, r) PROVE Clusters!Next
  BY <1>1, SendRefines DEF Clusters!Next
<1>2. ASSUME NEW c \in Client, Forward(c) PROVE Clusters!Next \/ UNCHANGED Clusters!vars
  BY <1>2, ForwardRefines DEF Clusters!Next
<1>3. ASSUME NEW c \in Client, Create(c) PROVE Clusters!Next
  BY <1>3, CreateRefines DEF Clusters!Next
<1>4. ASSUME NEW c \in Client, Get(c) PROVE Clusters!Next
  BY <1>4, GetRefines DEF Clusters!Next
<1>5. ASSUME NEW c \in Client, Update(c) PROVE Clusters!Next
  BY <1>5, UpdateRefines DEF Clusters!Next
<1>6. ASSUME NEW c \in Client, Delete(c) PROVE Clusters!Next
  BY <1>6, DeleteRefines DEF Clusters!Next
<1>7. ASSUME NEW c \in Client, List(c) PROVE Clusters!Next
  BY <1>7, ListRefines DEF Clusters!Next
<1>8. ASSUME NEW c \in Client, Respond(c) PROVE Clusters!Next
  BY <1>8, RespondRefines DEF Clusters!Next
<1>9. ASSUME NEW t \in Tenant, KeepRole(t) \/ KeepBinding(t) \/ WithdrawBindings(t)
      PROVE  Clusters!Next
  BY <1>9, KeepRoleRefines, KeepBindingRefines, WithdrawRefines DEF Clusters!Next
<1>10. CASE UNCHANGED vars
  BY <1>10 DEF vars, Clusters!vars, clusterBar, keptBar, phaseBar, replyBar,
               InTerms, InTenantTerms, Filtered
<1> QED
  BY <1>1, <1>2, <1>3, <1>4, <1>5, <1>6, <1>7, <1>8, <1>9, <1>10 DEF Next, Step

(***************************************************************************)
(* However the requests of all the tenants interleave in the one upstream  *)
(* cluster, with each other and with kubezoo's controller, each tenant is  *)
(* answered as it would be by a cluster of its own.                        *)
(***************************************************************************)
THEOREM TenantsSeeOwnClusters == Spec => ImplementsTenantClusters
  BY ClustersInit, ClustersNext, IndInvHolds, PTL
     DEF Spec, ImplementsTenantClusters, Clusters!Spec

=============================================================================
