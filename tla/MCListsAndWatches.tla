--------------------------- MODULE MCListsAndWatches ---------------------------
(***************************************************************************)
(* The informer of the tenant "aa" beside the tenant "a-" and a platform   *)
(* whose names begin with the same letters.                                *)
(***************************************************************************)
EXTENDS ListsAndWatches

T1 == <<"a", "a">>
T2 == <<"a", "-">>
x == <<"x">>

MCChar == {"a", "x", "-"}
MCIDChar == {"a", "x"}
MCTenant == {T1, T2}

\* The first tenant's "x" and "aa-x", the second's "x", the platform's "aax".
MCOwner ==
    { AddTenantIDPrefix(T1, x), AddTenantIDPrefix(T1, AddTenantIDPrefix(T1, x)),
      AddTenantIDPrefix(T2, x), T1 \o x }
MCObjectName == {x}

\* The tenant's "x", its upstream spelling, and nothing.
Spelled == AddTenantIDPrefix(T1, x)
MCSelecting == {x, Spelled, NoName}

Asks(kind, label, owner, name) ==
    [kind |-> kind, selector |-> [label |-> label, owner |-> owner, name |-> name]]

\* Whole kinds, a namespace in both spellings, an object of each kind, and
\* two values that nothing has: the empty one, and a CRD's without a group.
MCAsking ==
    { [kind |-> k, selector |-> Everything] : k \in Kind } \cup
    { Asks("Event", "metadata.namespace", o, NoName) : o \in MCSelecting } \cup
    { Asks("Event", "involvedObject.namespace", x, NoName),
      Asks("Event", "metadata.name", NoName, x),
      Asks("PersistentVolume", "metadata.name", Spelled, NoName),
      Asks("PersistentVolume", "metadata.name", x, NoName),
      Asks("CustomResourceDefinition", "metadata.name", x, x),
      Asks("CustomResourceDefinition", "metadata.name", NoName, x) }

=============================================================================
