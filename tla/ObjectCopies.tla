----------------------------- MODULE ObjectCopies -----------------------------
(***************************************************************************)
(* The objects of an informer's cache, which all its readers share, and    *)
(* the deep copies one makes before it writes (zz_generated.deepcopy.go of *)
(* both API groups; RemoveString and ContainString of pkg/util).           *)
(*                                                                         *)
(* A Go struct is a record.  What it holds by reference, a pointer, a map  *)
(* or a slice, is an address in memory, 0 when nil; assigning the struct   *)
(* copies the address.  A slice of strings has its array and its length.   *)
(***************************************************************************)
EXTENDS Naturals, SequencesExt

CONSTANTS Cached,     \* what may be in the cache: [memory, root, kind]
          Finalizer,  \* kubezoo's own
          MaxCopies,  \* bounds: how many copies are made of it,
          MaxEdits    \* and how often one is written to

Nil == 0

Capacity == {"maxNamespaces", "maxClusterRoleBindings", "maxCRDs"}

\* What points at a value without references.
Pointer == Capacity \cup
           {"meta", "hard", "suspension", "credentialValidity", "resourceQuotaSpec",
            "namespaceSelector", "namespaces", "resourceQuotaStatus"}

TenantFields == {"meta", "finalizers", "hard", "suspension", "credentialValidity", "capacity",
                 "online"}
QuotaFields == {"meta", "finalizers", "resourceQuotaSpec", "namespaceSelector", "namespaces",
                "resourceQuotaStatus"}

Fields(kind) == IF kind = "Tenant" THEN TenantFields ELSE QuotaFields

Lists == {"TenantList", "ClusterResourceQuotaList"}
Kinds == Lists \cup {"Tenant", "ClusterResourceQuota"}

ItemKind(kind) == IF kind = "TenantList" THEN "Tenant" ELSE "ClusterResourceQuota"

Panic == [array |-> Nil, len |-> 0]

-----------------------------------------------------------------------------

(***************************************************************************)
(* A cached object is well-formed when every address is in memory and what *)
(* is there has the type of the field.                                     *)
(***************************************************************************)
IsSequence(s) == Len(s) \in Nat /\ s = [i \in 1 .. Len(s) |-> s[i]]

CapacityFormed(memory, v) ==
    /\ v \in 0 .. Len(memory)
    /\ v # Nil => memory[v] \in [Capacity -> 0 .. Len(memory)]

\* The elements of a slice of len.
Distinct(array, len) ==
    \A i \in 1 .. len : \A j \in 1 .. len : array[i] = array[j] => i = j

\* A finalizer is on the list once.
FinalizersFormed(memory, h) ==
    /\ h \in [array : 0 .. Len(memory), len : Nat]
    /\ h.array # Nil =>
         /\ IsSequence(memory[h.array]) /\ h.len <= Len(memory[h.array])
         /\ Distinct(memory[h.array], h.len)

FieldFormed(memory, f, v) ==
    /\ f \in Pointer => v \in 0 .. Len(memory)
    /\ f = "capacity" => CapacityFormed(memory, v)
    /\ f = "finalizers" => FinalizersFormed(memory, v)

StructFormed(memory, fields, s) ==
    /\ DOMAIN s = fields /\ s = [f \in fields |-> s[f]]
    /\ \A f \in fields : FieldFormed(memory, f, s[f])

ItemsFormed(memory, fields, v) ==
    /\ v \in 0 .. Len(memory)
    /\ v # Nil =>
         /\ IsSequence(memory[v])
         /\ \A i \in 1 .. Len(memory[v]) : StructFormed(memory, fields, memory[v][i])

ListFormed(memory, fields, s) ==
    /\ DOMAIN s = {"meta", "items"} /\ s = [f \in {"meta", "items"} |-> s[f]]
    /\ s.meta \in 0 .. Len(memory)
    /\ ItemsFormed(memory, fields, s.items)

Formed(memory, kind, s) ==
    IF kind \in Lists
    THEN ListFormed(memory, Fields(ItemKind(kind)), s)
    ELSE StructFormed(memory, Fields(kind), s)

ASSUME CachedAssumption ==
    \A c \in Cached :
        c.kind \in Kinds /\ IsSequence(c.memory) /\ Formed(c.memory, c.kind, c.root)

-----------------------------------------------------------------------------

(***************************************************************************)
(* The copy as far as it has come: "out" was assigned from "in", and its   *)
(* references are replaced one after the other by fresh memory.            *)
(***************************************************************************)
With(acc, f, c) == [memory |-> c.memory, out |-> [acc.out EXCEPT ![f] = c.value]]

Shared(memory, v) == [memory |-> memory, value |-> v]

Fresh(memory, cell) == [memory |-> Append(memory, cell), value |-> Len(memory) + 1]

\* *out = new(...); **out = **in, and likewise a map or a slice of values
CopiedPointer(memory, v) ==
    IF v = Nil THEN Shared(memory, v) ELSE Fresh(memory, memory[v])

CopiedField(acc, f) == With(acc, f, CopiedPointer(acc.memory, acc.out[f]))

\* A field whose own copy is "inner".
CopiedStruct(inner) == Fresh(inner.memory, inner.out)

Held(memory, h) == IF h.array = Nil THEN << >> ELSE SubSeq(memory[h.array], 1, h.len)

CopiedFinalizers(memory, h) ==
    IF h.array = Nil
    THEN Shared(memory, h)
    ELSE [memory |-> Append(memory, Held(memory, h)),
          value |-> [array |-> Len(memory) + 1, len |-> h.len]]

\* ObjectMeta (external): its maps, and the array of the finalizers.
CopiedMeta(acc) ==
    LET c == CopiedField(acc, "meta")
    IN With(c, "finalizers", CopiedFinalizers(c.memory, c.out.finalizers))

TenantCapacityDeepCopy(acc) ==
    CopiedField(CopiedField(CopiedField(acc, "maxNamespaces"), "maxClusterRoleBindings"),
                "maxCRDs")

CopiedCapacity(memory, v) ==
    IF v = Nil
    THEN Shared(memory, v)
    ELSE CopiedStruct(TenantCapacityDeepCopy([memory |-> memory, out |-> memory[v]]))

\* Mutant: a field that was added after the code was generated is shared.
SpecWithoutCapacity(acc) ==
    CopiedField(CopiedField(CopiedField(acc, "hard"), "suspension"), "credentialValidity")

TenantSpecDeepCopy(acc) ==
    LET c == CopiedField(CopiedField(CopiedField(acc, "hard"), "suspension"),
                         "credentialValidity")
    IN With(c, "capacity", CopiedCapacity(c.memory, c.out.capacity))

TenantDeepCopy(acc) == TenantSpecDeepCopy(CopiedMeta(acc))

ClusterResourceQuotaSpecDeepCopy(acc) ==
    CopiedField(CopiedField(CopiedField(acc, "resourceQuotaSpec"), "namespaceSelector"),
                "namespaces")

ClusterResourceQuotaStatusDeepCopy(acc) == CopiedField(acc, "resourceQuotaStatus")

ClusterResourceQuotaDeepCopy(acc) ==
    ClusterResourceQuotaStatusDeepCopy(ClusterResourceQuotaSpecDeepCopy(CopiedMeta(acc)))

\* (*in)[i].DeepCopyInto(&(*out)[i])
ItemDeepCopy(kind, acc) ==
    IF kind = "Tenant" THEN TenantDeepCopy(acc) ELSE ClusterResourceQuotaDeepCopy(acc)

\* One more element of a list's items.
WithItem(kind, acc, item) ==
    LET c == ItemDeepCopy(kind, [memory |-> acc.memory, out |-> item])
    IN [memory |-> c.memory, out |-> Append(acc.out, c.out)]

\* The first i items, for every i.
CopiedItems(kind, memory, items) ==
    LET copied[i \in 0 .. Len(items)] ==
          IF i = 0
          THEN [memory |-> memory, out |-> << >>]
          ELSE WithItem(kind, copied[i - 1], items[i])
    IN copied

ItemsDeepCopy(kind, memory, v) ==
    IF v = Nil
    THEN Shared(memory, v)
    ELSE CopiedStruct(CopiedItems(kind, memory, memory[v])[Len(memory[v])])

\* Mutant: the items are copied as they are, with what they point at.
ItemsAsTheyAre(acc) == CopiedField(CopiedField(acc, "meta"), "items")

TenantListDeepCopy(acc) ==
    LET c == CopiedField(acc, "meta")
    IN With(c, "items", ItemsDeepCopy("Tenant", c.memory, c.out.items))

ClusterResourceQuotaListDeepCopy(acc) ==
    LET c == CopiedField(acc, "meta")
    IN With(c, "items", ItemsDeepCopy("ClusterResourceQuota", c.memory, c.out.items))

DeepCopyObject(kind, acc) ==
    CASE kind = "Tenant" -> TenantDeepCopy(acc)
      [] kind = "TenantList" -> TenantListDeepCopy(acc)
      [] kind = "ClusterResourceQuota" -> ClusterResourceQuotaDeepCopy(acc)
      [] kind = "ClusterResourceQuotaList" -> ClusterResourceQuotaListDeepCopy(acc)

-----------------------------------------------------------------------------

\* Mutant: nothing is ever found.
ContainNothing(sli, s) == FALSE

ContainString(sli, s) == \E i \in DOMAIN sli : sli[i] = s

(***************************************************************************)
(* The slice shrinks while the loop goes over what it was: the elements    *)
(* after s move forward in the array, which the caller's slice shares.     *)
(* s where the slice has ended already cannot be cut out.                  *)
(***************************************************************************)
Removed(acc, i, s) ==
    IF acc.panics \/ acc.array[i] # s THEN acc
    ELSE IF i > acc.len THEN [acc EXCEPT !.panics = TRUE]
    ELSE [panics |-> FALSE, len |-> acc.len - 1,
          array |-> [j \in DOMAIN acc.array |->
                       IF j \in i .. acc.len - 1 THEN acc.array[j + 1] ELSE acc.array[j]]]

\* The slice after the first i rounds, for every i.
Rounds(array, len, s) ==
    LET after[i \in 0 .. len] ==
          IF i = 0
          THEN [array |-> array, len |-> len, panics |-> FALSE]
          ELSE Removed(after[i - 1], i, s)
    IN after

RemoveString(array, len, s) == Rounds(array, len, s)[len]

-----------------------------------------------------------------------------

Pointed(memory, v) == IF v = Nil THEN << >> ELSE <<memory[v]>>

CapacityReading(memory, v) ==
    IF v = Nil THEN << >> ELSE <<[g \in Capacity |-> Pointed(memory, memory[v][g])]>>

\* What a field says, with all it points at.
FieldReading(memory, f, v) ==
    CASE f \in Pointer -> Pointed(memory, v)
      [] f = "capacity" -> CapacityReading(memory, v)
      [] f = "finalizers" -> Held(memory, v)
      [] OTHER -> v

StructReading(memory, s) == [f \in DOMAIN s |-> FieldReading(memory, f, s[f])]

ItemsReading(memory, v) ==
    IF v = Nil
    THEN << >>
    ELSE <<[i \in 1 .. Len(memory[v]) |-> StructReading(memory, memory[v][i])]>>

Reading(memory, kind, s) ==
    IF kind \in Lists
    THEN [meta |-> Pointed(memory, s.meta), items |-> ItemsReading(memory, s.items)]
    ELSE StructReading(memory, s)

(***************************************************************************)
(* The addresses of the values a struct leads to, which a reader writes to *)
(* through it.                                                             *)
(***************************************************************************)
FieldValues(memory, f, v) ==
    CASE f \in Pointer -> {v} \ {Nil}
      [] f = "capacity" -> IF v = Nil THEN {} ELSE { memory[v][g] : g \in Capacity } \ {Nil}
      [] OTHER -> {}

StructValues(memory, s) == UNION { FieldValues(memory, f, s[f]) : f \in DOMAIN s }

ItemsValues(memory, v) ==
    IF v = Nil
    THEN {}
    ELSE UNION { StructValues(memory, memory[v][i]) : i \in 1 .. Len(memory[v]) }

Values(memory, kind, s) ==
    IF kind \in Lists
    THEN ({s.meta} \ {Nil}) \cup ItemsValues(memory, s.items)
    ELSE StructValues(memory, s)

-----------------------------------------------------------------------------

VARIABLES source,   \* what is in the cache: its kind, the struct, what it said at first
          memory,
          copies,   \* the copies readers made of it
          wanted,   \* what each copy should say
          edits

copiesVars == <<source, memory, copies, wanted, edits>>

CopiesInit ==
    \E c \in Cached :
        /\ source = [kind |-> c.kind, root |-> c.root, said |-> Reading(c.memory, c.kind, c.root)]
        /\ memory = c.memory
        /\ copies = << >> /\ wanted = << >>
        /\ edits = 0

Copy ==
    /\ Len(copies) < MaxCopies
    /\ LET c == DeepCopyObject(source.kind, [memory |-> memory, out |-> source.root])
       IN memory' = c.memory /\ copies' = Append(copies, c.out)
    /\ wanted' = Append(wanted, source.said)
    /\ UNCHANGED <<source, edits>>

\* A reader writes to something its copy points at.
Edit(i) ==
    /\ edits < MaxEdits
    /\ \E a \in Values(memory, source.kind, copies[i]) :
         /\ memory[a] # "edited"
         /\ memory' = [memory EXCEPT ![a] = "edited"]
    /\ wanted' = [wanted EXCEPT ![i] = Reading(memory', source.kind, copies[i])]
    /\ edits' = edits + 1
    /\ UNCHANGED <<source, copies>>

HasFinalizers == source.kind \notin Lists

Becomes(i, h) == copies' = [copies EXCEPT ![i] = [@ EXCEPT !.finalizers = h]]

ShouldSay(i, finalizers) == wanted' = [wanted EXCEPT ![i] = [@ EXCEPT !.finalizers = finalizers]]

\* append writes behind the slice where its array has room ...
AppendInPlace(i, h) ==
    /\ h.array # Nil /\ h.len < Len(memory[h.array])
    /\ memory' = [memory EXCEPT ![h.array] = [@ EXCEPT ![h.len + 1] = Finalizer]]
    /\ Becomes(i, [array |-> h.array, len |-> h.len + 1])

\* ... and otherwise makes a new one.
AppendElsewhere(i, h) ==
    /\ ~(h.array # Nil /\ h.len < Len(memory[h.array]))
    /\ LET held == Held(memory, h)
       IN /\ memory' = Append(memory, Append(held, Finalizer))
          /\ Becomes(i, [array |-> Len(memory) + 1, len |-> Len(held) + 1])

\* A controller holds an object that is being used ...
Hold(i) ==
    /\ HasFinalizers /\ edits < MaxEdits
    /\ LET h == copies[i].finalizers
       IN /\ ~ContainString(Held(memory, h), Finalizer)
          /\ AppendInPlace(i, h) \/ AppendElsewhere(i, h)
    /\ ShouldSay(i, Append(wanted[i].finalizers, Finalizer))
    /\ edits' = edits + 1
    /\ UNCHANGED source

Without(seq, x) ==
    LET k == CHOOSE k \in DOMAIN seq : seq[k] = x
    IN IF \E j \in DOMAIN seq : seq[j] = x
       THEN [j \in 1 .. Len(seq) - 1 |-> IF j < k THEN seq[j] ELSE seq[j + 1]]
       ELSE seq

\* ... and lets go of one that may be deleted.
Release(i) ==
    /\ HasFinalizers /\ edits < MaxEdits
    /\ copies[i].finalizers.array # Nil
    /\ LET h == copies[i].finalizers
           r == RemoveString(memory[h.array], h.len, Finalizer)
       IN IF r.panics
          THEN Becomes(i, Panic) /\ UNCHANGED memory
          ELSE /\ memory' = [memory EXCEPT ![h.array] = r.array]
               /\ Becomes(i, [array |-> h.array, len |-> r.len])
    /\ ShouldSay(i, Without(wanted[i].finalizers, Finalizer))
    /\ edits' = edits + 1
    /\ UNCHANGED source

CopiesNext == Copy \/ \E i \in DOMAIN copies : Edit(i) \/ Hold(i) \/ Release(i)

CopiesSpec == CopiesInit /\ [][CopiesNext]_copiesVars

-----------------------------------------------------------------------------

(***************************************************************************)
(* "Objects returned here must be treated as read-only": whatever readers  *)
(* write to their copies, everybody else finds in the cache what was       *)
(* there.                                                                  *)
(***************************************************************************)
CachedIsReadOnly == Reading(memory, source.kind, source.root) = source.said

(***************************************************************************)
(* A copy says what the cached object says, to the last field, but for     *)
(* what its own reader wrote to it since; a finalizer that is let go of is *)
(* gone, and no other is (DeepCopyInto, RemoveString).                     *)
(***************************************************************************)
CopySaysTheSame ==
    \A i \in DOMAIN copies : Reading(memory, source.kind, copies[i]) = wanted[i]

=============================================================================
