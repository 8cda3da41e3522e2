---------------------------- MODULE ObjectStream ----------------------------
(***************************************************************************)
(* Tenants, quotas and their lists on the wire.  A sender encodes one      *)
(* object after another (a stored object read back, a list answered, the   *)
(* events of a watch); a receiver resets the object it holds and decodes   *)
(* the next one into it.  What arrives may come from a newer build, with a *)
(* field this one does not know, and the connection may be cut anywhere in *)
(* the last object.                                                        *)
(*                                                                         *)
(* Objects is a set of records [kind, body]; MapOrders are the orders in   *)
(* which the sender's runtime may range over its maps, one while it sizes  *)
(* an object and another while it writes it; NewFields are encoded fields  *)
(* of numbers no message has.                                              *)
(***************************************************************************)
EXTENDS TenantWire, QuotaWire, SequencesExt

CONSTANTS Objects, MapOrders, NewFields

Known ==
    [kind : {"Tenant"}, body : Tenants] \cup [kind : {"TenantList"}, body : TenantLists]
    \cup [kind : {"ClusterResourceQuota"}, body : ClusterResourceQuotas]
    \cup [kind : {"ClusterResourceQuotaList"}, body : ClusterResourceQuotaLists]

SizeOf(o, order) ==
    LET m == o.body
    IN CASE o.kind = "Tenant" -> TenantSize(m, order)
         [] o.kind = "TenantList" -> TenantListSize(m, order)
         [] o.kind = "ClusterResourceQuota" -> ClusterResourceQuotaSize(m)
         [] o.kind = "ClusterResourceQuotaList" -> ClusterResourceQuotaListSize(m)

BytesOf(o, order) ==
    LET m == o.body
    IN CASE o.kind = "Tenant" -> TenantBytes(m, order)
         [] o.kind = "TenantList" -> TenantListBytes(m, order)
         [] o.kind = "ClusterResourceQuota" -> ClusterResourceQuotaBytes(m)
         [] o.kind = "ClusterResourceQuotaList" -> ClusterResourceQuotaListBytes(m)

Encoding(o, sizing, writing) == Marshal(SizeOf(o, sizing), BytesOf(o, writing))

\* The objects bytes of a newer build, whose objects have a field more: first,
\* last or, in a tenant, inside its spec.
Newer(o, field, order) ==
    LET m == o.body
    IN {field \o BytesOf(o, order), BytesOf(o, order) \o field} \cup
       (IF o.kind # "Tenant" THEN {}
        ELSE {BytesField(10, m.ObjectMeta)
              \o BytesField(18, field \o TenantSpecBytes(m.Spec, order))
              \o BytesField(26, TenantStatusBytes(m.Status))})

\* The length of a byte slice is an int.
IsSlice(d) == Len(d) < WordSize \div 2

ASSUME StreamAssumption ==
    /\ Objects \subseteq Known
    /\ \A order \in MapOrders : IsMapOrder(order)
    /\ \A field \in NewFields :
          /\ field \in Bytes /\ skipGenerated(field, 0) = Len(field)
          /\ Tag(field, 0).wire # 4 /\ Tag(field, 0).num > 5
    /\ \A o \in Objects, order \in MapOrders :
          /\ IsSlice(BytesOf(o, order))
          /\ \A field \in NewFields : \A d \in Newer(o, field, order) : IsSlice(d)

VARIABLES sent,  \* the object encoded last
          data,  \* its bytes, or Panic
          how,   \* what happened to them: "whole", "extended" or "cut"
          held,  \* the receiver's object, or NotOk
          read   \* has it decoded data into it?

streamVars == <<sent, data, how, held, read>>

ZeroOf == [Tenant |-> Reset.Tenant, TenantList |-> Reset.TenantList,
           ClusterResourceQuota |-> QuotaReset.ClusterResourceQuota,
           ClusterResourceQuotaList |-> QuotaReset.ClusterResourceQuotaList]

Unmarshal(kind, m, d) ==
    CASE kind = "Tenant" -> TenantUnmarshal(m, d)
      [] kind = "TenantList" -> TenantListUnmarshal(m, d)
      [] kind = "ClusterResourceQuota" -> ClusterResourceQuotaUnmarshal(m, d)
      [] kind = "ClusterResourceQuotaList" -> ClusterResourceQuotaListUnmarshal(m, d)

\* Mutant: a receiver is used again as it is.
ReceiverAsItIs(kind, o) ==
    IF o # NotOk /\ o.kind = kind THEN o.body ELSE ZeroOf[kind]

\* What the object held is before it is decoded into: proto.Unmarshal calls
\* its Reset.  A receiver for another kind is a new object.
Receiver(kind, o) == ZeroOf[kind]

-----------------------------------------------------------------------------

StreamInit ==
    /\ sent \in Objects
    /\ \E sizing, writing \in MapOrders : data = Encoding(sent, sizing, writing)
    /\ how = "whole"
    /\ held = [kind |-> sent.kind, body |-> ZeroOf[sent.kind]]
    /\ read = FALSE

Holding(kind, m) == IF m = NotOk THEN NotOk ELSE [kind |-> kind, body |-> m]

Decode ==
    /\ ~read /\ data # Panic
    /\ held' = Holding(sent.kind, Unmarshal(sent.kind, Receiver(sent.kind, held), data))
    /\ read' = TRUE
    /\ UNCHANGED <<sent, data, how>>

Encode(o, sizing, writing) ==
    /\ read /\ how # "cut"
    /\ sent' = o /\ data' = Encoding(o, sizing, writing)
    /\ how' = "whole" /\ read' = FALSE
    /\ UNCHANGED held

\* The sender is a newer build.
Extend(field, order) ==
    /\ ~read /\ how = "whole" /\ data # Panic
    /\ data' \in Newer(sent, field, order)
    /\ how' = "extended"
    /\ UNCHANGED <<sent, held, read>>

Cut(n) ==
    /\ ~read /\ how # "cut" /\ data # Panic
    /\ n < Len(data)
    /\ data' = SubSeq(data, 1, n)
    /\ how' = "cut"
    /\ UNCHANGED <<sent, held, read>>

StreamNext ==
    \/ Decode
    \/ \E o \in Objects, sizing, writing \in MapOrders : Encode(o, sizing, writing)
    \/ \E field \in NewFields, order \in MapOrders : Extend(field, order)
    \/ \E n \in 0..(Len(data) - 1) : Cut(n)

StreamSpec == StreamInit /\ [][StreamNext]_streamVars

-----------------------------------------------------------------------------

\* An empty map and none are the same on the wire.
SameTenant(t) ==
    [t EXCEPT !.Spec.Quota.Hard = IF @ = <<>> \/ DOMAIN @[1] = {} THEN <<>> ELSE @]
Normal(o) ==
    CASE o.kind = "Tenant" -> [o EXCEPT !.body = SameTenant(@)]
      [] o.kind = "TenantList" -> [o EXCEPT !.body.Items = Each(SameTenant, @)]
      [] OTHER -> o

\* Encoding an object and decoding it keeps every field, whatever was in the
\* receiver before and whatever a newer sender added: a suspension, a limit or
\* a negative number is never accepted, stored and silently absent.
KeepsEveryField ==
    read /\ how \in {"whole", "extended"} => held = Normal(sent)

\* Size and MarshalToSizedBuffer, generated apart, agree on every object: the
\* buffer is exactly filled, so nothing runs below its start and no byte of it
\* is returned unwritten.
FillsItsBuffer ==
    how = "whole" =>
        /\ data # Panic
        /\ \A order \in MapOrders : Len(data) = SizeOf(sent, order)

\* One object has one encoding, in whatever order its maps are ranged over: an
\* update that changes nothing is told by its bytes.
OneEncoding ==
    how = "whole" =>
        \A sizing, writing \in MapOrders : data = Encoding(sent, sizing, writing)

\* An object whose bytes were cut is refused, or lacks whole members: no part
\* of a spec, of an item or of a name is ever taken for the whole.
CutBetweenMembers ==
    read /\ how = "cut" /\ held # NotOk =>
        LET o == Normal(sent).body
        IN \A f \in DOMAIN o :
              \/ held.body[f] \in {o[f], ZeroOf[sent.kind][f]}
              \/ f = "Items" /\ IsPrefix(held.body.Items, o.Items)
=============================================================================
