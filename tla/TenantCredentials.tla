--------------------------- MODULE TenantCredentials ---------------------------
(***************************************************************************)
(* How a tenant comes by its credential (pkg/util/certs.go, kubeconfig.go).*)
(*                                                                         *)
(* A controller (external, as BOOTSTRAP.md describes it) signs a client    *)
(* certificate with kubezoo's CA, leaves the kubeconfig on the Tenant for  *)
(* the platform to collect, and takes it back when the retention is over.  *)
(* All it remembers is in three annotations of the Tenant; it reads them   *)
(* from an informer's cache, which lags, and writes them with an update    *)
(* that the API server refuses when the Tenant has changed since.  It may  *)
(* crash anywhere.  Optional values are sets of at most one element.       *)
(***************************************************************************)
EXTENDS Integers, SequencesExt

CONSTANTS CA,                  \* the issuers: [notBefore, notAfter]
          Validity,            \* what a Tenant may ask for as its validity
          CertificateValidity, \* the fallback
          Retention,           \* how long the platform keeps a kubeconfig
          MaxTime, MaxAsks, MaxCrashes, MaxRotations  \* bounds

ASSUME CredentialsAssumption ==
    /\ CA \subseteq [notBefore : Int, notAfter : Int]
    /\ Validity \subseteq Int
    /\ CertificateValidity \in Nat \ {0}
    /\ Retention \in Nat
    /\ {MaxTime, MaxAsks, MaxCrashes, MaxRotations} \subseteq Nat

VARIABLES now,
          caFile, caKeyFile,  \* the issuer in each of the CA's two files
          tenant,   \* the stored Tenant
          seen,     \* the Tenant as the controller's informer has it
          work,     \* what the controller is about to write, if anything
          issued,   \* the credentials that were stored, in their order
          asks, crashes, rotations

files == <<caFile, caKeyFile>>
bounds == <<asks, crashes, rotations>>
vars == <<now, files, tenant, seen, work, issued, bounds>>

-----------------------------------------------------------------------------

Lesser(a, b) == IF a <= b THEN a ELSE b

\* Mutant: the certificate has the validity that was asked for.
SignedForAsLongAsAsked(ca, validity, at) ==
    [issuer |-> ca, notBefore |-> ca.notBefore,
     notAfter |-> at + (IF validity <= 0 THEN CertificateValidity ELSE validity)]

\* Mutant: a validity of zero is taken as it is.
SignedForNoTime(ca, validity, at) ==
    [issuer |-> ca, notBefore |-> ca.notBefore,
     notAfter |-> Lesser(at + validity, ca.notAfter)]

(***************************************************************************)
(* A certificate is good from when its issuer is, for the validity that    *)
(* was asked for or the fallback, and never for longer than its issuer.    *)
(***************************************************************************)
NewSignedCert(ca, validity, at) ==
    [issuer |-> ca, notBefore |-> ca.notBefore,
     notAfter |-> Lesser(at + (IF validity <= 0 THEN CertificateValidity ELSE validity),
                         ca.notAfter)]

\* The CA is read from its files every time, which must belong together.
NewTenantCertAndKey(certificate, key, validity, at) ==
    IF certificate = key THEN {NewSignedCert(certificate, validity, at)} ELSE {}

\* The kubeconfig holds the certificate with its private key.
GenKubeconfig(certs) == certs

-----------------------------------------------------------------------------

\* Mutant: a tenant has nothing issued when no expiry is known.
NeverIssued(t) == t.kubeconfig = {} /\ t.expiresAt = {}

\* The states that the annotations tell apart; the third is "withdrawn", in
\* which the controller does nothing, and the last is from before the marker.
NothingIssued(t) == t.kubeconfig = {} /\ t.issuedAt = {}
BeingCollected(t) == t.kubeconfig # {} /\ t.issuedAt # {}
Adoptable(t) == t.kubeconfig # {} /\ t.issuedAt = {}

\* Mutant: the key is kept until the credential stops working.
DueAtExpiry(t) == BeingCollected(t) /\ \A at \in t.expiresAt : now >= at

Due(t) == BeingCollected(t) /\ \A at \in t.issuedAt : now >= at + Retention

Expiry(certs) == { c.notAfter : c \in certs }

\* Mutant: the key is taken back and nothing is left to tell that it was there.
ClearedWhole(t) ==
    [t EXCEPT !.kubeconfig = {}, !.issuedAt = {}, !.expiresAt = {}]

\* Mutant: the expiry goes with the key.
ClearedWithExpiry(t) == [t EXCEPT !.kubeconfig = {}, !.expiresAt = {}]

\* The Tenant with its kubeconfig taken back: both times stay.
Cleared(t) == [t EXCEPT !.kubeconfig = {}]

Granted(t, certs) ==
    [t EXCEPT !.kubeconfig = GenKubeconfig(certs), !.issuedAt = {now},
              !.expiresAt = Expiry(certs)]

\* A kubeconfig from before the annotation: it is taken as issued now.
Adopted(t) == [t EXCEPT !.issuedAt = {now}]

-----------------------------------------------------------------------------

Certificate == [issuer : CA, notBefore : Int, notAfter : Int]
Optional(S) == {{}} \cup { {s} : s \in S }

IsTenant(t) ==
    /\ t.version \in Nat
    /\ t.validity \in Validity
    /\ t.kubeconfig \subseteq Certificate /\ t.kubeconfig \in Optional(t.kubeconfig)
    /\ t.issuedAt \in Optional(0 .. MaxTime)
    /\ t.expiresAt \subseteq Int /\ t.expiresAt \in Optional(t.expiresAt)

(***************************************************************************)
(* The types, and that nobody is ahead of the stored Tenant: whoever has   *)
(* its version has all of it.                                              *)
(***************************************************************************)
TypeOK ==
    /\ now \in 0 .. MaxTime
    /\ caFile \in CA /\ caKeyFile \in CA
    /\ IsTenant(tenant) /\ IsTenant(seen)
    /\ seen.version <= tenant.version
    /\ seen.version = tenant.version => seen = tenant
    /\ \A t \in work : IsTenant(t) /\ t.version <= tenant.version
    /\ work \in Optional(work)
    /\ issued \in Seq(Certificate)
    /\ asks \in 0 .. MaxAsks /\ crashes \in 0 .. MaxCrashes
    /\ rotations \in 0 .. MaxRotations

Init ==
    /\ now = 0
    /\ caFile \in CA /\ caKeyFile = caFile
    /\ tenant \in [version : {0}, validity : Validity, kubeconfig : {{}},
                   issuedAt : {{}}, expiresAt : {{}}]
    /\ seen = tenant
    /\ work = {}
    /\ issued = << >>
    /\ asks = 0 /\ crashes = 0 /\ rotations = 0

Tick ==
    /\ now < MaxTime
    /\ now' = now + 1
    /\ UNCHANGED <<files, tenant, seen, work, issued, bounds>>

\* The CA is renewed, one file after the other.
RotateCertificate ==
    /\ rotations < MaxRotations /\ caFile = caKeyFile
    /\ \E ca \in CA \ {caFile} : caFile' = ca
    /\ rotations' = rotations + 1
    /\ UNCHANGED <<now, caKeyFile, tenant, seen, work, issued, asks, crashes>>

RotateKey ==
    /\ caKeyFile # caFile
    /\ caKeyFile' = caFile
    /\ UNCHANGED <<now, caFile, tenant, seen, work, issued, bounds>>

\* The informer brings the controller's view up to date.
See ==
    /\ seen # tenant
    /\ seen' = tenant
    /\ UNCHANGED <<now, files, tenant, work, issued, bounds>>

(***************************************************************************)
(* The controller decides by the annotations of the Tenant it sees.        *)
(***************************************************************************)
Decides(t) ==
    /\ work = {}
    /\ work' = {t}
    /\ UNCHANGED <<now, files, tenant, seen, issued, bounds>>

Issue ==
    /\ NothingIssued(seen)
    /\ \E c \in NewTenantCertAndKey(caFile, caKeyFile, seen.validity, now) :
         Decides(Granted(seen, {c}))

Adopt == Adoptable(seen) /\ Decides(Adopted(seen))

Withdraw == Due(seen) /\ Decides(Cleared(seen))

\* Mutant: whatever the controller has is written over what is stored.
WriteOver ==
    /\ work # {}
    /\ \E t \in work :
         /\ tenant' = [t EXCEPT !.version = tenant.version + 1]
         /\ issued' = issued \o SetToSeq(t.kubeconfig \ tenant.kubeconfig)
    /\ work' = {}
    /\ UNCHANGED <<now, files, seen, bounds>>

\* An update of a Tenant that has changed since is refused.
Write ==
    /\ work # {}
    /\ \E t \in work :
         IF t.version = tenant.version
         THEN /\ tenant' = [t EXCEPT !.version = @ + 1]
              /\ issued' = issued \o SetToSeq(t.kubeconfig \ tenant.kubeconfig)
         ELSE UNCHANGED <<tenant, issued>>
    /\ work' = {}
    /\ UNCHANGED <<now, files, seen, bounds>>

\* The controller crashes: what it was about to write is lost.
Crash ==
    /\ crashes < MaxCrashes /\ work # {}
    /\ work' = {}
    /\ crashes' = crashes + 1
    /\ UNCHANGED <<now, files, tenant, seen, issued, asks, rotations>>

\* Mutant: the annotation is removed without a new version.
AskKeepsVersion ==
    /\ asks < MaxAsks /\ tenant.issuedAt # {}
    /\ \E v \in Validity : tenant' = [tenant EXCEPT !.issuedAt = {}, !.validity = v]
    /\ asks' = asks + 1
    /\ UNCHANGED <<now, files, seen, work, issued, crashes, rotations>>

\* Whoever wants a new credential removes the annotation that tells of the last.
Ask ==
    /\ asks < MaxAsks /\ tenant.issuedAt # {}
    /\ \E v \in Validity :
         tenant' = [tenant EXCEPT !.issuedAt = {}, !.validity = v, !.version = @ + 1]
    /\ asks' = asks + 1
    /\ UNCHANGED <<now, files, seen, work, issued, crashes, rotations>>

Reconcile == Issue \/ Adopt \/ Withdraw

Next ==
    \/ Tick \/ RotateCertificate \/ RotateKey \/ See
    \/ Reconcile \/ Write \/ Crash \/ Ask

(***************************************************************************)
(* The controller is restarted and retries; its informer catches up; a     *)
(* renewal of the CA that began is finished.  Nobody has to ask.           *)
(***************************************************************************)
Fairness == WF_vars(See) /\ WF_vars(Reconcile) /\ WF_vars(Write) /\ WF_vars(RotateKey)

Spec == Init /\ [][Next]_vars /\ Fairness

-----------------------------------------------------------------------------

(***************************************************************************)
(* "Issued once, not kept": no more credentials than were asked for, the   *)
(* first included, whatever the controller forgets and however old the     *)
(* Tenant is that it looks at (AnnotationTenantCredentialIssuedAt).        *)
(***************************************************************************)
IssuedOnce == Len(issued) <= 1 + asks

(***************************************************************************)
(* When the last credential stops working is on the Tenant, also after the *)
(* key is taken back and after the next was asked for: a collected         *)
(* credential is not knowable otherwise                                    *)
(* (AnnotationTenantCredentialExpiresAt).                                  *)
(***************************************************************************)
ExpiryIsKnown == tenant.expiresAt = (IF issued = << >> THEN {} ELSE {Last(issued).notAfter})

(***************************************************************************)
(* No credential claims to outlive the issuer that signed it, and one that *)
(* is signed while its issuer lives can be used: the validity is the only  *)
(* bound there is on a credential, and is never nothing (NewSignedCert).   *)
(***************************************************************************)
BoundedByItsIssuer ==
    /\ \A t \in work \cup {tenant} : \A c \in t.kubeconfig : c.notAfter <= c.issuer.notAfter
    /\ \A t \in work : NothingIssued(seen) =>
          \A c \in t.kubeconfig, at \in t.issuedAt :
             at < c.issuer.notAfter => at < c.notAfter

(***************************************************************************)
(* The platform does not keep a tenant's private key: once its retention   *)
(* is over it is taken back, unless the annotation is removed before       *)
(* (AnnotationTenantCredentialIssuedAt).                                   *)
(***************************************************************************)
Overdue == tenant.kubeconfig # {} /\ \E at \in tenant.issuedAt : now >= at + Retention

NotKept == \A n \in 0 .. MaxAsks :
    (Overdue /\ asks = n) ~> (asks > n \/ tenant.kubeconfig = {})

(***************************************************************************)
(* Removing the annotation of a credential that was withdrawn gets a new   *)
(* one, through crashes and a renewal of the CA                            *)
(* (AnnotationTenantCredentialIssuedAt).                                   *)
(***************************************************************************)
AskingGetsOne ==
    (tenant.kubeconfig = {} /\ tenant.issuedAt = {}) ~> tenant.kubeconfig # {}

=============================================================================
