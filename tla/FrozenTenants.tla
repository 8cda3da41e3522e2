----------------------------- MODULE FrozenTenants -----------------------------
(***************************************************************************)
(* The freezing of a tenant, as upstream enforces it                       *)
(* (config/policy/tenant-frozen-deny-writes.yaml).                         *)
(*                                                                         *)
(* Upstream knows nothing of tenants.  kubezoo's controller (external)     *)
(* labels the namespaces of a suspended tenant, one after the other, and   *)
(* the API server admits a write to a labelled namespace by comparing the  *)
(* names of two namespaces.  The gateway refuses most of what a suspended  *)
(* tenant sends and lets through what its cache does not know; whatever    *)
(* comes through meets the policy.                                         *)
(***************************************************************************)
EXTENDS TenantIdentity

CONSTANTS TenantNamespace,  \* the upstream names of the tenants' namespaces
          Writer            \* the users that write to them

NamespaceOwner(ns) == TenantIDFromPrefixed(ns)

ASSUME FrozenAssumption ==
    /\ \A ns \in TenantNamespace : ns \in Name /\ NamespaceOwner(ns) \in Tenant
    /\ Writer \subseteq [sort : {"user", "serviceaccount"}, namespace : Name, name : Name]

VARIABLES suspended,  \* the tenants that are to be frozen
          labelled,   \* the namespaces with the label kubezoo.io/frozen
          changedBy   \* who changed something in each namespace last

freezeVars == <<suspended, labelled, changedBy>>

FreezeInit ==
    /\ suspended = {}
    /\ labelled = {}
    /\ changedBy = [ns \in TenantNamespace |-> NoUser]

-----------------------------------------------------------------------------

Suspend(t) ==
    /\ suspended' = suspended \cup {t}
    /\ UNCHANGED <<labelled, changedBy>>

Lift(t) ==
    /\ suspended' = suspended \ {t}
    /\ UNCHANGED <<labelled, changedBy>>

Label(ns) ==
    /\ NamespaceOwner(ns) \in suspended
    /\ labelled' = labelled \cup {ns}
    /\ UNCHANGED <<suspended, changedBy>>

Unlabel(ns) ==
    /\ NamespaceOwner(ns) \notin suspended
    /\ labelled' = labelled \ {ns}
    /\ UNCHANGED <<suspended, changedBy>>


(***************************************************************************)
(* The expression that a write must satisfy: the writer is no              *)
(* ServiceAccount, or the first characters of its namespace, as many as an *)
(* id has, are not those of the namespace written to.                      *)
(***************************************************************************)
Expression(u, ns) ==
    \/ Len(ns) < TenantIDLength + 1
    \/ u.sort # "serviceaccount"
    \/ Len(u.namespace) < TenantIDLength + 1
    \/ SubSeq(u.namespace, 1, TenantIDLength) # SubSeq(ns, 1, TenantIDLength)

\* The policy is bound to the namespaces that have the label.
Admitted(ns) == { u \in Writer : ns \in labelled => Expression(u, ns) }

Write(u, ns) ==
    /\ u \in Admitted(ns)
    /\ changedBy' = [changedBy EXCEPT ![ns] = u]
    /\ UNCHANGED <<suspended, labelled>>

FreezeNext ==
    \/ \E t \in Tenant : Suspend(t) \/ Lift(t)
    \/ \E ns \in TenantNamespace : Label(ns) \/ Unlabel(ns)
    \/ \E ns \in TenantNamespace, u \in Writer : Write(u, ns)

\* The controller gets round to every namespace.
FreezeFairness ==
    \A ns \in TenantNamespace :
        WF_freezeVars(Label(ns)) /\ WF_freezeVars(Unlabel(ns))

FreezeSpec == FreezeInit /\ [][FreezeNext]_freezeVars /\ FreezeFairness

-----------------------------------------------------------------------------

\* the tenant of an identity, as kubezoo reads it off
TenantOfWriter(u) == TenantSAFromUsername(u).tenant

OwnWorkloadWrites(t) ==
    \E ns \in TenantNamespace :
        /\ NamespaceOwner(ns) = t
        /\ changedBy'[ns] # changedBy[ns]
        /\ TenantOfWriter(changedBy'[ns]) = t


(***************************************************************************)
(* "Lets identities pass that are not this tenant's"                       *)
(* (tenant-frozen-deny-writes.yaml:28): in a frozen namespace nobody is    *)
(* held up but the workloads of its tenant.                                *)
(***************************************************************************)
OthersPass ==
    \A u \in Writer, ns \in TenantNamespace :
        u \notin Admitted(ns) => TenantOfWriter(u) = NamespaceOwner(ns)

================================================================================
