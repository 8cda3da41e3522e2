------------------------------ MODULE TenantNames ------------------------------
(***************************************************************************)
(* How kubezoo spells a tenant's names upstream (pkg/util/util.go).        *)
(*                                                                         *)
(* A name is a sequence of characters.  Only two things about a character  *)
(* matter: whether a tenant id may hold it and whether it is the dash that *)
(* separates the id from the rest.  The id has a fixed width, which is     *)
(* what makes "does this name carry a prefix" decidable at all: an id may  *)
(* itself hold dashes, so nothing here splits on one.                      *)
(***************************************************************************)
EXTENDS Integers, SequencesExt

CONSTANTS Char,            \* the characters of a name
          IDChar,          \* the letters and digits, a-z and 0-9
          Dash,            \* "-"
          TenantIDLength,  \* 6 in the code
          Tenant           \* the ids of the tenants that exist

ASSUME CharAssumption == IDChar \subseteq Char /\ Dash \in Char \ IDChar

ASSUME LengthAssumption == TenantIDLength \in Nat \ {0}

Name == Seq(Char)
NoName == << >>

TenantIDSeparator == <<Dash>>

(***************************************************************************)
(* A tenant id is letters, digits and dashes, and does not start with a    *)
(* dash.  It may end with one.                                             *)
(***************************************************************************)
ValidateTenantName(tenantID) ==
    /\ Len(tenantID) = TenantIDLength
    /\ \A i \in 1 .. TenantIDLength :
          tenantID[i] \in IDChar \/ (i > 1 /\ tenantID[i] = Dash)

ASSUME TenantAssumption ==
    Tenant \subseteq { t \in Name : ValidateTenantName(t) }

AddTenantIDPrefix(tenantID, input) == tenantID \o TenantIDSeparator \o input

HasTenantPrefix(tenantID, s) == IsPrefix(tenantID \o TenantIDSeparator, s)

\* strings.TrimPrefix: the prefix is taken off once, if it is there
TrimTenantIDPrefix(tenantID, input) ==
    IF HasTenantPrefix(tenantID, input)
    THEN SubSeq(input, TenantIDLength + 2, Len(input))
    ELSE input

\* Mutant: a namespace with any tenant's prefix is taken as resolved.
ResolvesAnyPrefix(tenantID, namespace) ==
    IF Len(namespace) > TenantIDLength /\ namespace[TenantIDLength + 1] = Dash
    THEN namespace
    ELSE AddTenantIDPrefix(tenantID, namespace)

(***************************************************************************)
(* The upstream name of the namespace a request addresses.  A workload     *)
(* inside the cluster knows its namespace by the upstream name, so a name  *)
(* that carries the tenant's prefix is taken as resolved already.          *)
(***************************************************************************)
UpstreamNamespace(tenantID, namespace) ==
    IF namespace = NoName \/ HasTenantPrefix(tenantID, namespace)
    THEN namespace
    ELSE AddTenantIDPrefix(tenantID, namespace)

\* Mutant: no name is reserved.
NoReservedNamespace(tenantID, name) == TRUE

\* whether a tenant may call a new namespace this
NamespaceNameForTenant(tenantID, name) == ~HasTenantPrefix(tenantID, name)

\* the tenant id that a prefixed name carries, NoName where the code errs
TenantIDFromPrefixed(prefixed) ==
    IF Len(prefixed) >= TenantIDLength + 2 /\ prefixed[TenantIDLength + 1] = Dash
    THEN SubSeq(prefixed, 1, TenantIDLength)
    ELSE NoName

=============================================================================
