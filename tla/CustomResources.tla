---------------------------- MODULE CustomResources ----------------------------
(***************************************************************************)
(* References to kinds, on their way in from a tenant and back out.        *)
(*                                                                         *)
(* A tenant's CRDs are stored upstream with its prefix on their API group. *)
(* Whether a group is native, the tenant's or the platform's is decided by *)
(* NewCheckGroupKindFunc from the gateway's lister of CRDs, a cache that   *)
(* trails upstream by the events of its watch.  References are written and *)
(* read by the gateway's convertors (external).                            *)
(***************************************************************************)
EXTENDS TenantNames

CONSTANTS NativeKind,   \* the pairs of group and kind that are Kubernetes' own
          Namespaced,   \* those of them that are namespaced
          CRD,          \* the CRDs that tenants and the platform may install
          Reference,    \* the pairs of group and kind that tenants refer to
          Caller,       \* the requests that look a kind up
          MaxLag        \* bound: how many events the lister may be behind

(***************************************************************************)
(* A CRD of a tenant has its prefix; no group of the platform reads as a   *)
(* tenant's, and no native group does.                                     *)
(***************************************************************************)
CRDName == [group : Name, kind : STRING, namespaced : BOOLEAN]

OwnedBy(t, crd) == HasTenantPrefix(t, crd.group)
PlatformCRD == { c \in CRD : \A t \in Tenant : ~OwnedBy(t, c) }

ASSUME CRDAssumption ==
    /\ CRD \subseteq CRDName
    /\ Reference \subseteq Name \X STRING
    /\ NativeKind \subseteq Name \X STRING /\ Namespaced \subseteq NativeKind
    /\ \A gk \in NativeKind :
          /\ \A t \in Tenant : ~HasTenantPrefix(t, gk[1])
          /\ \A c \in CRD : c.group # gk[1]
    /\ MaxLag \in Nat \ {0}

VARIABLES crds,    \* the CRDs installed upstream
          lister,  \* those the gateway's lister knows
          events,  \* the watch events on their way to the lister
          refs,    \* the references stored upstream in tenants' objects, each with
                   \* who wrote it and the group as "written", in their terms
          call     \* the lookup each caller is at

vars == <<crds, lister, events, refs, call>>

(***************************************************************************)
(* A call is its direction (isTenantObject), the reference it is about,    *)
(* the list it is to read ("own", then "all") or "done", and its answer:   *)
(* "native", "own", "platform", "error" or none yet.  "steady" says that   *)
(* the lister has not changed since it began.                              *)
(***************************************************************************)
NoCall == [step |-> "idle"]

Init ==
    /\ crds = PlatformCRD
    /\ lister = PlatformCRD
    /\ events = << >>
    /\ refs = {}
    /\ call = [c \in Caller |-> NoCall]

-----------------------------------------------------------------------------

\* A CRD is installed or removed, by its tenant or by the platform.
Install(crd) ==
    /\ Len(events) < MaxLag
    /\ \A c \in crds : c.group # crd.group \/ c.kind # crd.kind
    /\ crds' = crds \cup {crd}
    /\ events' = Append(events, [type |-> "added", crd |-> crd])
    /\ UNCHANGED <<lister, refs, call>>

Uninstall(crd) ==
    /\ Len(events) < MaxLag
    /\ crd \in crds
    /\ crds' = crds \ {crd}
    /\ events' = Append(events, [type |-> "deleted", crd |-> crd])
    /\ UNCHANGED <<lister, refs, call>>

\* The lister's watch hands it the next event, in upstream's order.
Deliver ==
    /\ events # << >>
    /\ lister' = IF Head(events).type = "added" THEN lister \cup {Head(events).crd}
                 ELSE lister \ {Head(events).crd}
    /\ events' = Tail(events)
    /\ call' = [c \in Caller |-> IF call[c] = NoCall THEN NoCall
                                 ELSE [call[c] EXCEPT !.steady = FALSE]]
    /\ UNCHANGED <<crds, refs>>

-----------------------------------------------------------------------------

IsNative(group, kind) == <<group, kind>> \in NativeKind

IsGroupKindNamespaced(group, kind) == <<group, kind>> \in Namespaced

ListCRDsForTenant(t) == { crd \in lister : OwnedBy(t, crd) }

\* Mutant: the prefix is added in both directions.
LookupGroupPrefixed(ref, inbound) == AddTenantIDPrefix(ref.tenant, ref.group)

\* the group as upstream has it: a tenant's own spelling lacks the prefix
lookupGroup(ref, inbound) ==
    IF inbound THEN AddTenantIDPrefix(ref.tenant, ref.group) ELSE ref.group

\* Mutant: the kind alone is compared.
MatchingKind(set, group, kind) == { crd \in set : crd.kind = kind }

Matching(set, group, kind) == { crd \in set : crd.group = group /\ crd.kind = kind }

Return(c, answer, namespaced) ==
    call' = [call EXCEPT ![c].step = "done", ![c].answer = answer, ![c].namespaced = namespaced]

Begin(c, ref, inbound) ==
    /\ call[c] = NoCall
    /\ call' = [call EXCEPT ![c] =
                  [step |-> IF IsNative(ref.group, ref.kind) THEN "done" ELSE "own",
                   inbound |-> inbound, ref |-> ref,
                   answer |-> IF IsNative(ref.group, ref.kind) THEN "native" ELSE "none",
                   namespaced |-> IsGroupKindNamespaced(ref.group, ref.kind),
                   steady |-> TRUE]]
    /\ UNCHANGED <<crds, lister, events, refs>>

\* A reference comes in from a tenant, or one of its objects is read.
Write(c) ==
    \E t \in Tenant, gk \in Reference :
        Begin(c, [group |-> gk[1], kind |-> gk[2], tenant |-> t,
                  by |-> "tenant", written |-> gk[1]], TRUE)

Read(c) == \E ref \in refs : Begin(c, ref, FALSE)

\* Mutant: the lookup fails before it goes on to the second list.
LookUpOwnFailing(c) ==
    LET ref == call[c].ref
        own == Matching(ListCRDsForTenant(ref.tenant),
                        lookupGroup(ref, call[c].inbound), ref.kind)
    IN  /\ call[c].step = "own"
        /\ \/ \E crd \in own : Return(c, "own", crd.namespaced)
           \/ own = {} /\ call' = [call EXCEPT ![c].step = IF call[c].inbound
                                                           THEN "done" ELSE "all",
                                              ![c].answer = "error"]
        /\ UNCHANGED <<crds, lister, events, refs>>

\* Mutant: a platform CRD is resolved in both directions.
LookUpOwnThenAll(c) ==
    LET ref == call[c].ref
        own == Matching(ListCRDsForTenant(ref.tenant),
                        lookupGroup(ref, call[c].inbound), ref.kind)
        all == Matching(lister, ref.group, ref.kind)
    IN  /\ call[c].step = "own"
        /\ \/ \E crd \in own : Return(c, "own", crd.namespaced)
           \/ own = {} /\ \E crd \in all : Return(c, "platform", crd.namespaced)
           \/ own \cup all = {} /\ Return(c, "error", FALSE)
        /\ UNCHANGED <<crds, lister, events, refs>>

\* The first list: the tenant's CRDs.
LookUpOwn(c) ==
    LET ref == call[c].ref
        own == Matching(ListCRDsForTenant(ref.tenant),
                        lookupGroup(ref, call[c].inbound), ref.kind)
    IN  /\ call[c].step = "own"
        /\ \/ \E crd \in own : Return(c, "own", crd.namespaced)
           \/ own = {} /\ call[c].inbound /\ Return(c, "error", FALSE)
           \/ own = {} /\ ~call[c].inbound /\ call' = [call EXCEPT ![c].step = "all"]
        /\ UNCHANGED <<crds, lister, events, refs>>

\* The second list, on the way out only: everybody's CRDs.
LookUpAll(c) ==
    LET all == Matching(lister, call[c].ref.group, call[c].ref.kind)
    IN  /\ call[c].step = "all"
        /\ \/ \E crd \in all : Return(c, "platform", crd.namespaced)
           \/ all = {} /\ Return(c, "error", FALSE)
        /\ UNCHANGED <<crds, lister, events, refs>>

(***************************************************************************)
(* The convertor prefixes the group of a reference that comes in if it is  *)
(* the tenant's, and stores it unless the lookup failed; on the way out it *)
(* trims it in the same case.                                              *)
(***************************************************************************)
Stored(k) ==
    [k.ref EXCEPT !.group = IF k.answer = "own" THEN AddTenantIDPrefix(k.ref.tenant, @) ELSE @]

ReadBack(k) ==
    IF k.answer = "own" THEN TrimTenantIDPrefix(k.ref.tenant, k.ref.group) ELSE k.ref.group

Finish(c) ==
    /\ call[c].step = "done"
    /\ refs' = IF call[c].inbound /\ call[c].answer # "error"
               THEN refs \cup {Stored(call[c])} ELSE refs
    /\ call' = [call EXCEPT ![c] = NoCall]
    /\ UNCHANGED <<crds, lister, events>>

\* A controller of the platform puts a reference to its own on a tenant's object.
Stamp(t) ==
    /\ \E crd \in crds \cap PlatformCRD :
         refs' = refs \cup {[group |-> crd.group, kind |-> crd.kind, tenant |-> t,
                             by |-> "platform", written |-> crd.group]}
    /\ UNCHANGED <<crds, lister, events, call>>

Next ==
    \/ \E crd \in CRD : Install(crd) \/ Uninstall(crd)
    \/ Deliver
    \/ \E c \in Caller : Write(c) \/ Read(c) \/ LookUpOwn(c) \/ LookUpAll(c) \/ Finish(c)
    \/ \E t \in Tenant : Stamp(t)

Spec == Init /\ [][Next]_vars

-----------------------------------------------------------------------------

Answered(k) == k.step = "done" /\ k.answer # "error"

AsWritten(k) == Answered(k) /\ ~k.inbound => ReadBack(k) = k.ref.written

(***************************************************************************)
(* "A group that is not one of this tenant's may still be a real CRD the   *)
(* platform installed": only such a group is answered as the platform's,   *)
(* and a tenant reads its own references back as it wrote them             *)
(* (NewCheckGroupKindFunc).                                                *)
(***************************************************************************)
ReadBackAsWritten == \A c \in Caller : AsWritten(call[c])

(***************************************************************************)
(* So it is when the lister does not change between a lookup's two lists,  *)
(* however far it is behind upstream.                                      *)
(***************************************************************************)
SteadyReadBack ==
    \A c \in Caller : call[c] # NoCall /\ call[c].steady => AsWritten(call[c])

(***************************************************************************)
(* No tenant stores a reference to the platform's CRDs or to another       *)
(* tenant's: what it writes is native or its own (NewCheckGroupKindFunc).  *)
(***************************************************************************)
ReferencesStayHome ==
    \A ref \in refs :
        ref.by = "tenant" =>
           IsNative(ref.group, ref.kind) \/ HasTenantPrefix(ref.tenant, ref.group)

(***************************************************************************)
(* The answer is about the CRD that the stored reference names: its scope  *)
(* decides where the convertor looks for a prefix (NewCheckGroupKindFunc). *)
(***************************************************************************)
AnswersForItsCRD ==
    \A c \in Caller :
        call[c] # NoCall /\ call[c].steady /\ call[c].answer \in {"own", "platform"} =>
           \E crd \in lister : /\ crd.kind = call[c].ref.kind
                               /\ crd.namespaced = call[c].namespaced
                               /\ crd.group = IF call[c].inbound THEN Stored(call[c]).group
                                              ELSE call[c].ref.group

=============================================================================
