--------------------------- MODULE ControllerProofs ---------------------------
(***************************************************************************)
(* Proofs about a controller at work: about TenantCredentials, for any     *)
(* issuers, validities and retention, and however often a credential is    *)
(* asked for, the controller crashes and the CA is renewed; and about      *)
(* ObjectCopies, for any objects in the cache, and however often they are  *)
(* copied and the copies are written to.                                   *)
(***************************************************************************)
EXTENDS TenantCredentials, ObjectCopies, FiniteSetTheorems, SequenceTheorems,
        WellFoundedInduction, TLAPS

Tenants == [version : Nat, validity : Int, kubeconfig : SUBSET Certificate,
            issuedAt : SUBSET Int, expiresAt : SUBSET Int]

Typed ==
    /\ now \in Nat /\ asks \in Nat
    /\ caFile \in CA /\ caKeyFile \in CA
    /\ tenant \in Tenants /\ seen \in Tenants /\ work \subseteq Tenants
    /\ issued \in Seq(Certificate)

\* Whoever has the version of the stored Tenant has all of it.
SeenInv == seen.version <= tenant.version /\ (seen.version = tenant.version => seen = tenant)

\* A credential more, and the Tenant says when it expires ...
Issues(t, c) ==
    /\ tenant.issuedAt = {}
    /\ t.kubeconfig \ tenant.kubeconfig = {c}
    /\ t.expiresAt = {c.notAfter}

\* ... or none, and the Tenant says what it said.
IssuesNothing(t) == t.kubeconfig \subseteq tenant.kubeconfig /\ t.expiresAt = tenant.expiresAt

\* What the controller is about to write will be refused or is made of the
\* stored Tenant.
WorkInv ==
    \A t \in work :
        /\ t.version <= tenant.version
        /\ t.version = tenant.version =>
              /\ t.issuedAt # {}
              /\ IssuesNothing(t) \/ \E c \in Certificate : Issues(t, c)

\* While the Tenant says of no issue there is one fewer than there may be.
CountInv == Len(issued) <= asks + (IF tenant.issuedAt = {} THEN 0 ELSE 1)

IInv == Typed /\ SeenInv /\ WorkInv /\ CountInv /\ ExpiryIsKnown

-----------------------------------------------------------------------------

LEMMA OneInASequence ==
    ASSUME NEW c
    PROVE  SetToSeq({c}) = <<c>>
<1> DEFINE Injections == { f \in [1 .. 1 -> {c}] : IsInjective(f) }
<1>1. Cardinality({c}) = 1
  BY FS_Singleton
<1>2. <<c>> \in [1 .. 1 -> {c}] /\ IsInjective(<<c>>)
  BY DEF IsInjective
<1>3. \A f \in [1 .. 1 -> {c}] : f = <<c>>
  OBVIOUS
<1> QED  BY <1>1, <1>2, <1>3 DEF SetToSeq

LEMMA NoneInASequence == SetToSeq({}) = << >>
<1>1. Cardinality({}) = 0
  BY FS_EmptySet
<1>2. << >> \in [1 .. 0 -> {}] /\ IsInjective(<< >>)
  BY DEF IsInjective
<1>3. \A f \in [1 .. 0 -> {}] : f = << >>
  OBVIOUS
<1> QED  BY <1>1, <1>2, <1>3 DEF SetToSeq

LEMMA OneMore ==
    ASSUME NEW S, NEW s \in Seq(S), NEW c \in S
    PROVE  /\ s \o <<c>> \in Seq(S) /\ Len(s \o <<c>>) = Len(s) + 1
           /\ s \o <<c>> # << >> /\ Last(s \o <<c>>) = c
<1> DEFINE one == <<c>>
<1>1. one \in Seq(S) /\ Len(one) = 1 /\ one[1] = c /\ Len(s) \in Nat
  BY LenProperties
<1> HIDE DEF one
<1>2. /\ s \o one \in Seq(S) /\ Len(s \o one) = Len(s) + 1
      /\ \A i \in 1 .. Len(s) + 1 :
            (s \o one)[i] = IF i <= Len(s) THEN s[i] ELSE one[i - Len(s)]
  BY <1>1, ConcatProperties
<1>3. (s \o one)[Len(s) + 1] = one[1]
  BY <1>1, <1>2
<1>4. s \o one # << >>
  <2>1. Len(<< >>) = 0
    OBVIOUS
  <2> QED  BY <1>1, <1>2, <2>1
<1>5. Last(s \o one) = c
  BY <1>1, <1>2, <1>3 DEF Last
<1> QED  BY <1>2, <1>4, <1>5 DEF one

LEMMA SignedType ==
    ASSUME NEW ca \in CA, NEW validity \in Int, NEW at \in Nat
    PROVE  NewSignedCert(ca, validity, at) \in Certificate
  BY CredentialsAssumption DEF NewSignedCert, Certificate, Lesser

LEMMA IInvInit == Init => IInv
<1> SUFFICES ASSUME Init PROVE IInv
  OBVIOUS
<1>1. tenant \in Tenants /\ tenant.issuedAt = {} /\ tenant.expiresAt = {} /\ seen = tenant
  <2>1. tenant \in [version : {0}, validity : Validity, kubeconfig : {{}}, issuedAt : {{}},
                     expiresAt : {{}}]
        /\ seen = tenant
    BY DEF Init
  <2>2. Validity \subseteq Int /\ {} \in SUBSET Certificate /\ {} \in SUBSET Int
    BY CredentialsAssumption
  <2>3. /\ tenant.version = 0 /\ tenant.validity \in Validity /\ tenant.kubeconfig = {}
        /\ tenant.issuedAt = {} /\ tenant.expiresAt = {}
    BY <2>1
  <2>4. tenant = [version |-> tenant.version, validity |-> tenant.validity,
                  kubeconfig |-> tenant.kubeconfig, issuedAt |-> tenant.issuedAt,
                  expiresAt |-> tenant.expiresAt]
    BY <2>1
  <2>5. tenant \in Tenants
    BY <2>2, <2>3, <2>4 DEF Tenants
  <2> QED  BY <2>1, <2>3, <2>5
<1>2. issued = << >> /\ issued \in Seq(Certificate) /\ Len(issued) = 0
  BY EmptySeq DEF Init
<1>3. Typed
  BY <1>1, <1>2 DEF Init, Typed
<1>4. SeenInv
  BY <1>1, <1>3 DEF Typed, Tenants, SeenInv
<1> QED
  BY <1>1, <1>2, <1>3, <1>4 DEF Init, IInv, WorkInv, CountInv, ExpiryIsKnown

-----------------------------------------------------------------------------
(***************************************************************************)
(* What the controller decides by a Tenant it sees.  If that is the stored *)
(* one, so is what it writes made of it.                                   *)
(***************************************************************************)
MadeOfSeen(t) ==
    /\ t \in Tenants /\ t.version = seen.version /\ t.issuedAt # {}
    /\ \/ t.kubeconfig \subseteq seen.kubeconfig /\ t.expiresAt = seen.expiresAt
       \/ /\ seen.issuedAt = {}
          /\ \E c \in Certificate : t.kubeconfig \ seen.kubeconfig = {c}
                                    /\ t.expiresAt = {c.notAfter}

LEMMA IssueMakes ==
    ASSUME Typed, Issue
    PROVE  \E t : Decides(t) /\ MadeOfSeen(t)
<1>1. PICK c \in NewTenantCertAndKey(caFile, caKeyFile, seen.validity, now) :
         NothingIssued(seen) /\ Decides(Granted(seen, {c}))
  BY DEF Issue
<1> DEFINE t == Granted(seen, {c})
<1>2. seen \in Tenants /\ seen.validity \in Int /\ now \in Nat
  BY DEF Typed, Tenants
<1>3. c \in Certificate
  BY <1>1, <1>2, SignedType DEF NewTenantCertAndKey, Typed
<1>4. c.notAfter \in Int
  BY <1>3 DEF Certificate
<1>5. t = [seen EXCEPT !.kubeconfig = {c}, !.issuedAt = {now}, !.expiresAt = {c.notAfter}]
  BY DEF Granted, GenKubeconfig, Expiry
<1> HIDE DEF t
<1>6. /\ t \in Tenants /\ t.version = seen.version /\ t.issuedAt = {now}
      /\ t.kubeconfig = {c} /\ t.expiresAt = {c.notAfter}
  <2>1. t = [version |-> seen.version, validity |-> seen.validity, kubeconfig |-> {c},
             issuedAt |-> {now}, expiresAt |-> {c.notAfter}]
    BY <1>2, <1>5 DEF Tenants
  <2>2. /\ seen.version \in Nat /\ {c} \in SUBSET Certificate
        /\ {now} \in SUBSET Int /\ {c.notAfter} \in SUBSET Int
    BY <1>2, <1>3, <1>4 DEF Tenants
  <2> QED  BY <1>2, <2>1, <2>2 DEF Tenants
<1>7. MadeOfSeen(t)
  BY <1>1, <1>3, <1>6 DEF MadeOfSeen, NothingIssued
<1> QED  BY <1>1, <1>7 DEF t

LEMMA NextVersion ==
    ASSUME NEW t \in Tenants, NEW u, u = [t EXCEPT !.version = @ + 1]
    PROVE  /\ u \in Tenants /\ u.version = t.version + 1
           /\ u.issuedAt = t.issuedAt /\ u.expiresAt = t.expiresAt
<1>1. u = [version |-> t.version + 1, validity |-> t.validity, kubeconfig |-> t.kubeconfig,
           issuedAt |-> t.issuedAt, expiresAt |-> t.expiresAt]
  BY DEF Tenants
<1>2. t.version + 1 \in Nat
  BY DEF Tenants
<1> QED  BY <1>1, <1>2 DEF Tenants

LEMMA ReconcileMakes ==
    ASSUME Typed, Reconcile
    PROVE  \E t : Decides(t) /\ MadeOfSeen(t)
<1> USE DEF Typed
<1>1. CASE Issue
  BY <1>1, IssueMakes
<1>2. CASE Adopt
  <2>1. MadeOfSeen(Adopted(seen))
    BY DEF Adopted, MadeOfSeen, Tenants
  <2> QED  BY <1>2, <2>1 DEF Adopt
<1>3. CASE Withdraw
  <2>1. seen.issuedAt # {}
    BY <1>3 DEF Withdraw, Due, BeingCollected
  <2>2. MadeOfSeen(Cleared(seen))
    BY <2>1 DEF Cleared, MadeOfSeen, Tenants
  <2> QED  BY <1>3, <2>2 DEF Withdraw
<1> QED  BY <1>1, <1>2, <1>3 DEF Reconcile

LEMMA ReconcileKeeps ==
    ASSUME IInv, Reconcile
    PROVE  IInv'
<1> USE DEF IInv
<1>1. PICK t : Decides(t) /\ MadeOfSeen(t)
  BY ReconcileMakes
<1>2. work' = {t} /\ UNCHANGED <<now, files, tenant, seen, issued, bounds>>
  BY <1>1 DEF Decides
<1>3. Typed'
  BY <1>1, <1>2 DEF Typed, MadeOfSeen, files, bounds
<1>4. WorkInv'
  <2>1. t.version <= tenant.version /\ (t.version = tenant.version => seen = tenant)
    BY <1>1 DEF MadeOfSeen, SeenInv
  <2> QED  BY <1>1, <1>2, <2>1 DEF MadeOfSeen, WorkInv, Issues, IssuesNothing
<1>5. SeenInv' /\ CountInv' /\ ExpiryIsKnown'
  BY <1>2 DEF SeenInv, CountInv, ExpiryIsKnown, bounds
<1> QED  BY <1>3, <1>4, <1>5

(***************************************************************************)
(* A write that is accepted.                                               *)
(***************************************************************************)
LEMMA AcceptedKeeps ==
    ASSUME IInv, NEW t \in work, t.version = tenant.version,
           tenant' = [t EXCEPT !.version = @ + 1],
           issued' = issued \o SetToSeq(t.kubeconfig \ tenant.kubeconfig),
           work' = {}, UNCHANGED <<now, files, seen, bounds>>
    PROVE  IInv'
<1> USE DEF IInv
<1>1. t \in Tenants /\ tenant \in Tenants /\ seen \in Tenants /\ issued \in Seq(Certificate)
  BY DEF Typed
<1>2. /\ tenant' \in Tenants /\ tenant'.version = tenant.version + 1
      /\ tenant'.issuedAt = t.issuedAt /\ tenant'.expiresAt = t.expiresAt
  BY <1>1, NextVersion
<1>3. t.issuedAt # {}
  BY DEF WorkInv
<1>4. SeenInv'
  BY <1>1, <1>2 DEF SeenInv, Tenants
<1>5. Len(issued) \in Nat /\ asks \in Nat
  BY <1>1, LenProperties DEF Typed
<1>6. CASE IssuesNothing(t)
  <2>1. t.kubeconfig \ tenant.kubeconfig = {}
    BY <1>6 DEF IssuesNothing
  <2>2. issued' = issued
    BY <1>1, <2>1, NoneInASequence, ConcatEmptySeq
  <2>3. Typed'
    BY <1>2, <2>2 DEF Typed, files, bounds
  <2>4. CountInv'
    BY <1>2, <1>3, <1>5, <2>2 DEF CountInv, bounds
  <2>5. ExpiryIsKnown'
    BY <1>2, <1>6, <2>2 DEF ExpiryIsKnown, IssuesNothing
  <2> QED  BY <1>4, <2>3, <2>4, <2>5 DEF WorkInv
<1>7. CASE \E c \in Certificate : Issues(t, c)
  <2>1. PICK c \in Certificate : Issues(t, c)
    BY <1>7
  <2>2. issued' = issued \o <<c>>
    <3>1. t.kubeconfig \ tenant.kubeconfig = {c}
      BY <2>1 DEF Issues
    <3> QED  BY <3>1, OneInASequence
  <2>3. /\ issued' \in Seq(Certificate) /\ Len(issued') = Len(issued) + 1
        /\ issued' # << >> /\ Last(issued') = c
    BY <1>1, <2>1, <2>2, OneMore
  <2>4. Typed'
    BY <1>2, <2>3 DEF Typed, files, bounds
  <2>5. CountInv'
    BY <1>2, <1>3, <1>5, <2>1, <2>3 DEF CountInv, Issues, bounds
  <2>6. ExpiryIsKnown'
    BY <1>2, <2>1, <2>3 DEF ExpiryIsKnown, Issues
  <2> QED  BY <1>4, <2>4, <2>5, <2>6 DEF WorkInv
<1> QED  BY <1>6, <1>7 DEF WorkInv

LEMMA WriteKeeps ==
    ASSUME IInv, Write
    PROVE  IInv'
<1>1. PICK t \in work : IF t.version = tenant.version
         THEN /\ tenant' = [t EXCEPT !.version = @ + 1]
              /\ issued' = issued \o SetToSeq(t.kubeconfig \ tenant.kubeconfig)
         ELSE UNCHANGED <<tenant, issued>>
  BY DEF Write
<1>2. work' = {} /\ UNCHANGED <<now, files, seen, bounds>>
  BY DEF Write
<1>3. CASE t.version = tenant.version
  BY <1>1, <1>2, <1>3, AcceptedKeeps
<1>4. CASE t.version # tenant.version
  BY <1>1, <1>2, <1>4
  DEF IInv, Typed, SeenInv, WorkInv, CountInv, ExpiryIsKnown, files, bounds
<1> QED  BY <1>3, <1>4

(***************************************************************************)
(* A credential is asked for: what the controller is about to write is of  *)
(* an older Tenant from now on.                                            *)
(***************************************************************************)
LEMMA AskKeeps ==
    ASSUME IInv, Ask
    PROVE  IInv'
<1> USE DEF IInv
<1>1. PICK v \in Validity :
         tenant' = [tenant EXCEPT !.issuedAt = {}, !.validity = v, !.version = @ + 1]
  BY DEF Ask
<1>2. /\ tenant.issuedAt # {} /\ asks' = asks + 1
      /\ UNCHANGED <<now, files, seen, work, issued, crashes, rotations>>
  BY DEF Ask
<1>3. v \in Int /\ tenant \in Tenants /\ seen \in Tenants /\ work \subseteq Tenants /\ asks \in Nat
  BY CredentialsAssumption DEF Typed
<1>4. /\ tenant' \in Tenants /\ tenant'.version = tenant.version + 1
      /\ tenant'.issuedAt = {} /\ tenant'.expiresAt = tenant.expiresAt
  <2>1. tenant' = [version |-> tenant.version + 1, validity |-> v,
                   kubeconfig |-> tenant.kubeconfig, issuedAt |-> {},
                   expiresAt |-> tenant.expiresAt]
    BY <1>1, <1>3 DEF Tenants
  <2>2. tenant.version + 1 \in Nat /\ {} \in SUBSET Int
    BY <1>3 DEF Tenants
  <2> QED  BY <1>3, <2>1, <2>2 DEF Tenants
<1>5. Typed'
  BY <1>2, <1>3, <1>4 DEF Typed, files
<1>6. SeenInv'
  BY <1>2, <1>3, <1>4 DEF SeenInv, Tenants
<1>7. WorkInv'
  BY <1>2, <1>3, <1>4 DEF WorkInv, Tenants
<1>8. CountInv'
  BY <1>2, <1>3, <1>4 DEF CountInv
<1>9. ExpiryIsKnown'
  BY <1>2, <1>4 DEF ExpiryIsKnown
<1> QED  BY <1>5, <1>6, <1>7, <1>8, <1>9

LEMMA IInvStep == IInv /\ [Next]_vars => IInv'
<1> SUFFICES ASSUME IInv, [Next]_vars PROVE IInv'
  OBVIOUS
<1> USE DEF IInv, files, bounds
<1>1. ASSUME UNCHANGED <<tenant, work, issued, asks>>
      PROVE  WorkInv' /\ CountInv' /\ ExpiryIsKnown'
  BY <1>1 DEF WorkInv, CountInv, ExpiryIsKnown, Issues, IssuesNothing
<1>2. CASE Tick
  <2>1. Typed' /\ SeenInv'
    BY <1>2 DEF Tick, Typed, SeenInv
  <2> QED  BY <1>1, <1>2, <2>1 DEF Tick
<1>3. CASE RotateCertificate \/ RotateKey
  <2>1. Typed' /\ SeenInv'
    BY <1>3 DEF RotateCertificate, RotateKey, Typed, SeenInv
  <2> QED  BY <1>1, <1>3, <2>1 DEF RotateCertificate, RotateKey
<1>4. CASE See
  <2>1. Typed' /\ SeenInv'
    BY <1>4 DEF See, Typed, Tenants, SeenInv
  <2> QED  BY <1>1, <1>4, <2>1 DEF See
<1>5. CASE Crash
  BY <1>5 DEF Crash, Typed, SeenInv, WorkInv, CountInv, ExpiryIsKnown
<1>6. CASE UNCHANGED vars
  <2>1. Typed' /\ SeenInv'
    BY <1>6 DEF vars, Typed, SeenInv
  <2> QED  BY <1>1, <1>6, <2>1 DEF vars
<1> QED
  BY <1>2, <1>3, <1>4, <1>5, <1>6, ReconcileKeeps, WriteKeeps, AskKeeps DEF Next

LEMMA IInvHolds == Spec => []IInv
  BY IInvInit, IInvStep, PTL DEF Spec

(***************************************************************************)
(* No more credentials are issued than were asked for, the first included, *)
(* however late the controller sees the Tenant and wherever it crashes.    *)
(***************************************************************************)
THEOREM NoCredentialTwice == Spec => []IssuedOnce
<1>1. IInv => IssuedOnce
  <2> SUFFICES ASSUME IInv PROVE Len(issued) <= 1 + asks
    BY DEF IssuedOnce
  <2>1. Len(issued) \in Nat /\ asks \in Nat
    BY LenProperties DEF IInv, Typed
  <2> QED  BY <2>1 DEF IInv, CountInv
<1> QED  BY <1>1, IInvHolds, PTL

(***************************************************************************)
(* The Tenant always tells when the credential that was issued last stops  *)
(* working.                                                                *)
(***************************************************************************)
THEOREM ExpiryStaysKnown == Spec => []ExpiryIsKnown
<1>1. IInv => ExpiryIsKnown
  BY DEF IInv
<1> QED  BY <1>1, IInvHolds, PTL

-----------------------------------------------------------------------------
(***************************************************************************)
(* What a Tenant holds: at most one credential, which does not outlive its *)
(* issuer, with the times of it.                                           *)
(***************************************************************************)
Shaped(t) == IsTenant(t) /\ \A c \in t.kubeconfig : c.notAfter <= c.issuer.notAfter

ShapeInv ==
    /\ now <= MaxTime /\ asks <= MaxAsks
    /\ crashes \in 0 .. MaxCrashes /\ rotations \in 0 .. MaxRotations
    /\ work \in Optional(work)
    /\ \A t \in work \cup {tenant, seen} : Shaped(t)

\* The credential was good for something when it was signed.
Usable(t) ==
    \A c \in t.kubeconfig, at \in t.issuedAt : at < c.issuer.notAfter => at < c.notAfter

\* Only the controller takes a kubeconfig back, and only one it has seen dated.
AdoptInv == Adoptable(seen) => tenant.kubeconfig # {}

\* What the controller is about to write was made of a Tenant it has seen: it
\* is of use or withdraws what is dated, or dates what was kept all the time.
MadeInv ==
    \A t \in work :
        /\ t.version <= seen.version
        /\ (t.kubeconfig = {} /\ t.version = seen.version) => seen.issuedAt # {}
        /\ Usable(t) \/ (seen.kubeconfig # {} /\ tenant.kubeconfig # {})

WellInv == ShapeInv /\ AdoptInv /\ MadeInv

-----------------------------------------------------------------------------

LEMMA AtMostOne ==
    /\ \A S : {} \in Optional(S)
    /\ \A S, s : s \in S => {s} \in Optional(S)
    /\ \A s : {s} \in Optional({s})
  BY DEF Optional

\* A signed certificate ends with its issuer at the latest, and is of use while
\* its issuer is good.
LEMMA SignedIsBounded ==
    ASSUME NEW ca \in CA, NEW validity \in Int, NEW at \in Nat,
           NEW c, c = NewSignedCert(ca, validity, at)
    PROVE  /\ c.notAfter <= c.issuer.notAfter
           /\ at < c.issuer.notAfter => at < c.notAfter
<1>1. c.issuer = ca /\ ca.notAfter \in Int
  BY CredentialsAssumption DEF NewSignedCert
<1>2. c.notAfter = Lesser(at + (IF validity <= 0 THEN CertificateValidity ELSE validity),
                          ca.notAfter)
  BY DEF NewSignedCert
<1> QED  BY <1>1, <1>2, CredentialsAssumption DEF Lesser

\* A new version of a Tenant holds what the Tenant held.
LEMMA NextVersionShaped ==
    ASSUME NEW t \in Tenants, Shaped(t), NEW u, u = [t EXCEPT !.version = @ + 1]
    PROVE  Shaped(u) /\ u.kubeconfig = t.kubeconfig /\ u.issuedAt = t.issuedAt
<1>1. u = [version |-> t.version + 1, validity |-> t.validity, kubeconfig |-> t.kubeconfig,
           issuedAt |-> t.issuedAt, expiresAt |-> t.expiresAt]
  BY DEF Tenants
<1>2. t.version + 1 \in Nat
  BY DEF Tenants
<1>3. /\ u.version = t.version + 1 /\ u.validity = t.validity
      /\ u.kubeconfig = t.kubeconfig /\ u.issuedAt = t.issuedAt /\ u.expiresAt = t.expiresAt
  BY <1>1
<1> QED  BY <1>2, <1>3 DEF Shaped, IsTenant

-----------------------------------------------------------------------------

LEMMA WellInit == Init => WellInv
<1> SUFFICES ASSUME Init PROVE WellInv
  OBVIOUS
<1>1. /\ tenant.version = 0 /\ tenant.validity \in Validity /\ tenant.kubeconfig = {}
      /\ tenant.issuedAt = {} /\ tenant.expiresAt = {}
  <2>1. tenant \in [version : {0}, validity : Validity, kubeconfig : {{}}, issuedAt : {{}},
                     expiresAt : {{}}]
    BY DEF Init
  <2> QED  BY <2>1
<1>2. Shaped(tenant) /\ seen = tenant
  BY <1>1, AtMostOne DEF Shaped, IsTenant, Init
<1>3. ShapeInv
  BY <1>2, CredentialsAssumption, AtMostOne DEF ShapeInv, Init
<1> QED  BY <1>1, <1>2, <1>3 DEF WellInv, AdoptInv, MadeInv, Adoptable, Init

(***************************************************************************)
(* What the controller decides.                                            *)
(***************************************************************************)
MadeWell(t) ==
    /\ Shaped(t) /\ t.version = seen.version
    /\ t.kubeconfig = {} => seen.issuedAt # {}
    /\ Usable(t) \/ Adoptable(seen)

LEMMA IssueMakesWell ==
    ASSUME Typed, ShapeInv, Issue
    PROVE  \E t : Decides(t) /\ MadeWell(t)
<1>1. PICK c \in NewTenantCertAndKey(caFile, caKeyFile, seen.validity, now) :
         NothingIssued(seen) /\ Decides(Granted(seen, {c}))
  BY DEF Issue
<1> DEFINE t == Granted(seen, {c})
<1>2. /\ seen \in Tenants /\ IsTenant(seen) /\ seen.validity \in Int
      /\ now \in Nat /\ now \in 0 .. MaxTime
  BY CredentialsAssumption DEF Typed, Tenants, ShapeInv, Shaped
<1>3. c = NewSignedCert(caFile, seen.validity, now) /\ caFile \in CA
  BY <1>1 DEF NewTenantCertAndKey, Typed
<1>4. c \in Certificate /\ c.notAfter \in Int
  BY <1>2, <1>3, SignedType DEF Certificate
<1>5. t = [seen EXCEPT !.kubeconfig = {c}, !.issuedAt = {now}, !.expiresAt = {c.notAfter}]
  BY DEF Granted, GenKubeconfig, Expiry
<1> HIDE DEF t
<1>6. /\ t.version = seen.version /\ t.validity = seen.validity
      /\ t.kubeconfig = {c} /\ t.issuedAt = {now} /\ t.expiresAt = {c.notAfter}
  BY <1>2, <1>5 DEF Tenants
<1>7. IsTenant(t)
  <2>1. {now} \in Optional(0 .. MaxTime) /\ {c} \in Optional({c})
        /\ {c.notAfter} \in Optional({c.notAfter})
    BY <1>2, AtMostOne
  <2> QED  BY <1>2, <1>4, <1>6, <2>1 DEF IsTenant
<1>8. c.notAfter <= c.issuer.notAfter /\ (now < c.issuer.notAfter => now < c.notAfter)
  BY <1>2, <1>3, SignedIsBounded
<1>9. MadeWell(t)
  BY <1>6, <1>7, <1>8 DEF MadeWell, Shaped, Usable
<1> QED  BY <1>1, <1>9 DEF t

LEMMA ReconcileMakesWell ==
    ASSUME Typed, ShapeInv, Reconcile
    PROVE  \E t : Decides(t) /\ MadeWell(t)
<1>1. seen \in Tenants /\ Shaped(seen) /\ now \in 0 .. MaxTime
  BY CredentialsAssumption DEF Typed, ShapeInv
<1>2. CASE Issue
  BY <1>2, IssueMakesWell
<1>3. CASE Adopt
  <2> DEFINE t == Adopted(seen)
  <2>1. /\ t.version = seen.version /\ t.validity = seen.validity /\ t.issuedAt = {now}
        /\ t.kubeconfig = seen.kubeconfig /\ t.expiresAt = seen.expiresAt
    BY <1>1 DEF Adopted, Tenants
  <2> HIDE DEF t
  <2>2. Shaped(t)
    <3>1. {now} \in Optional(0 .. MaxTime)
      BY <1>1, AtMostOne
    <3> QED  BY <1>1, <2>1, <3>1 DEF Shaped, IsTenant
  <2>3. Adoptable(seen) /\ Decides(t)
    BY <1>3 DEF Adopt, t
  <2>4. MadeWell(t)
    BY <2>1, <2>2, <2>3 DEF MadeWell, Adoptable
  <2> QED  BY <2>3, <2>4
<1>4. CASE Withdraw
  <2> DEFINE t == Cleared(seen)
  <2>1. /\ t.version = seen.version /\ t.validity = seen.validity /\ t.kubeconfig = {}
        /\ t.issuedAt = seen.issuedAt /\ t.expiresAt = seen.expiresAt
    BY <1>1 DEF Cleared, Tenants
  <2> HIDE DEF t
  <2>2. Shaped(t)
    BY <1>1, <2>1, AtMostOne DEF Shaped, IsTenant
  <2>3. seen.issuedAt # {} /\ Decides(t)
    BY <1>4 DEF Withdraw, Due, BeingCollected, t
  <2>4. MadeWell(t)
    BY <2>1, <2>2, <2>3 DEF MadeWell, Usable
  <2> QED  BY <2>3, <2>4
<1> QED  BY <1>2, <1>3, <1>4 DEF Reconcile

LEMMA ReconcileKeepsWell ==
    ASSUME IInv, WellInv, Reconcile
    PROVE  WellInv'
<1> USE DEF IInv, WellInv
<1>1. PICK t : Decides(t) /\ MadeWell(t)
  BY ReconcileMakesWell
<1>2. work' = {t} /\ UNCHANGED <<now, files, tenant, seen, issued, bounds>>
  BY <1>1 DEF Decides
<1>3. ShapeInv'
  <2>1. {t} \in Optional({t})
    BY AtMostOne
  <2> QED  BY <1>1, <1>2, <2>1 DEF ShapeInv, MadeWell, Shaped, IsTenant, bounds
<1>4. t.version <= seen.version
  BY <1>1 DEF MadeWell, Shaped, IsTenant
<1>5. MadeInv'
  BY <1>1, <1>2, <1>4 DEF MadeInv, MadeWell, Usable, AdoptInv, Adoptable
<1> QED  BY <1>2, <1>3, <1>5 DEF AdoptInv, Adoptable

LEMMA WriteKeepsWell ==
    ASSUME IInv, WellInv, Write
    PROVE  WellInv'
<1> USE DEF IInv, WellInv
<1>1. PICK t \in work : IF t.version = tenant.version
         THEN /\ tenant' = [t EXCEPT !.version = @ + 1]
              /\ issued' = issued \o SetToSeq(t.kubeconfig \ tenant.kubeconfig)
         ELSE UNCHANGED <<tenant, issued>>
  BY DEF Write
<1>2. work' = {} /\ UNCHANGED <<now, files, seen, bounds>>
  BY DEF Write
<1>3. /\ t \in Tenants /\ Shaped(t) /\ seen \in Tenants /\ tenant \in Tenants
      /\ {} \in Optional({})
  BY AtMostOne DEF Typed, ShapeInv
<1>4. CASE t.version = tenant.version
  <2>1. Shaped(tenant') /\ tenant'.kubeconfig = t.kubeconfig
    BY <1>1, <1>3, <1>4, NextVersionShaped
  <2>2. ShapeInv'
    BY <1>2, <1>3, <2>1 DEF ShapeInv, Shaped, IsTenant, bounds
  <2>3. AdoptInv'
    <3> SUFFICES ASSUME Adoptable(seen), t.kubeconfig = {} PROVE FALSE
      BY <1>2, <2>1 DEF AdoptInv, Adoptable
    <3>1. t.version = seen.version
      BY <1>3, <1>4 DEF MadeInv, SeenInv, Tenants
    <3> QED  BY <3>1 DEF MadeInv, Adoptable
  <2> QED  BY <1>2, <2>2, <2>3 DEF MadeInv
<1>5. CASE t.version # tenant.version
  BY <1>1, <1>2, <1>3, <1>5
  DEF ShapeInv, Shaped, IsTenant, AdoptInv, Adoptable, MadeInv, bounds
<1> QED  BY <1>4, <1>5

LEMMA AskKeepsWell ==
    ASSUME IInv, WellInv, Ask
    PROVE  WellInv'
<1> USE DEF IInv, WellInv
<1>1. PICK v \in Validity :
         tenant' = [tenant EXCEPT !.issuedAt = {}, !.validity = v, !.version = @ + 1]
  BY DEF Ask
<1>2. /\ asks < MaxAsks /\ asks' = asks + 1
      /\ UNCHANGED <<now, files, seen, work, issued, crashes, rotations>>
  BY DEF Ask
<1>3. tenant \in Tenants /\ Shaped(tenant) /\ asks \in Nat /\ MaxAsks \in Nat
  BY CredentialsAssumption DEF Typed, ShapeInv
<1>4. /\ tenant'.version = tenant.version + 1 /\ tenant'.validity = v
      /\ tenant'.kubeconfig = tenant.kubeconfig /\ tenant'.issuedAt = {}
      /\ tenant'.expiresAt = tenant.expiresAt
  BY <1>1, <1>3 DEF Tenants
<1>5. Shaped(tenant')
  <2>1. {} \in Optional(0 .. MaxTime)
    BY AtMostOne
  <2> QED  BY <1>3, <1>4, <2>1 DEF Shaped, IsTenant, Tenants
<1>6. ShapeInv'
  BY <1>2, <1>3, <1>5 DEF ShapeInv, Shaped, IsTenant
<1>7. AdoptInv' /\ MadeInv'
  BY <1>2, <1>4 DEF AdoptInv, MadeInv, Adoptable, Usable
<1> QED  BY <1>6, <1>7

LEMMA SeeKeepsWell ==
    ASSUME IInv, WellInv, See
    PROVE  WellInv'
<1> USE DEF IInv, WellInv
<1>1. seen # tenant /\ seen' = tenant /\ UNCHANGED <<now, files, tenant, work, issued, bounds>>
  BY DEF See
<1>2. ShapeInv'
  BY <1>1 DEF ShapeInv, Shaped, IsTenant, bounds
<1>3. AdoptInv'
  BY <1>1 DEF AdoptInv, Adoptable
<1>4. MadeInv'
  <2> SUFFICES ASSUME NEW t \in work
               PROVE  /\ t.version <= tenant.version /\ t.version # tenant.version
                      /\ Usable(t) \/ tenant.kubeconfig # {}
    BY <1>1 DEF MadeInv, Usable
  <2>1. t \in Tenants /\ seen \in Tenants /\ tenant \in Tenants
    BY DEF Typed
  <2> QED  BY <1>1, <2>1 DEF MadeInv, SeenInv, Tenants
<1> QED  BY <1>2, <1>3, <1>4

LEMMA WellStep == IInv /\ WellInv /\ [Next]_vars => WellInv'
<1> SUFFICES ASSUME IInv, WellInv, [Next]_vars PROVE WellInv'
  OBVIOUS
<1> USE DEF WellInv, files, bounds
<1>1. ASSUME UNCHANGED <<tenant, seen>>, work' = work \/ work' = {},
             now' <= MaxTime, asks' = asks, crashes' \in 0 .. MaxCrashes,
             rotations' \in 0 .. MaxRotations
      PROVE  WellInv'
  <2>1. ShapeInv'
    BY <1>1, AtMostOne DEF ShapeInv, Shaped, IsTenant
  <2> QED  BY <1>1, <2>1 DEF AdoptInv, MadeInv, Adoptable, Usable
<1>2. /\ now \in Nat /\ now <= MaxTime /\ crashes \in 0 .. MaxCrashes
      /\ rotations \in 0 .. MaxRotations
      /\ {MaxTime, MaxCrashes, MaxRotations} \subseteq Nat
  BY CredentialsAssumption DEF IInv, Typed, ShapeInv
<1>3. CASE Tick
  BY <1>1, <1>2, <1>3 DEF Tick
<1>4. CASE RotateCertificate
  BY <1>1, <1>2, <1>4 DEF RotateCertificate
<1>5. CASE RotateKey
  BY <1>1, <1>2, <1>5 DEF RotateKey
<1>6. CASE Crash
  BY <1>1, <1>2, <1>6 DEF Crash
<1>7. CASE UNCHANGED vars
  BY <1>1, <1>2, <1>7 DEF vars
<1> QED
  BY <1>3, <1>4, <1>5, <1>6, <1>7, ReconcileKeepsWell, WriteKeepsWell, AskKeepsWell,
     SeeKeepsWell DEF Next

LEMMA WellHolds == Spec => [](IInv /\ WellInv)
  BY IInvInit, IInvStep, WellInit, WellStep, PTL DEF Spec

(***************************************************************************)
(* The types: a Tenant holds one credential at most, the controller is     *)
(* about to write one Tenant at most, and nobody is ahead of the store.    *)
(***************************************************************************)
THEOREM TypeCorrect == Spec => []TypeOK
<1>1. IInv /\ WellInv => TypeOK
  BY CredentialsAssumption
  DEF IInv, WellInv, Typed, SeenInv, WorkInv, ShapeInv, Shaped, TypeOK
<1> QED  BY <1>1, WellHolds, PTL

(***************************************************************************)
(* No credential that a tenant has or gets outlives the issuer that signed *)
(* it, and what is signed while the issuer is good is of use, whatever     *)
(* validity the Tenant asks for (NewSignedCert).                           *)
(***************************************************************************)
THEOREM CredentialsAreBounded == Spec => []BoundedByItsIssuer
<1>1. IInv /\ WellInv => BoundedByItsIssuer
  BY DEF WellInv, ShapeInv, Shaped, MadeInv, Usable, NothingIssued, BoundedByItsIssuer
<1> QED  BY <1>1, WellHolds, PTL

-----------------------------------------------------------------------------
(***************************************************************************)
(* Memory.                                                                 *)
(***************************************************************************)

\* More memory, in which what there was has not changed.
Grown(m, m2) ==
    /\ IsSequence(m2) /\ Len(m) <= Len(m2)
    /\ \A a \in 1 .. Len(m) : m2[a] = m[a]

LEMMA SequenceIsSeq ==
    ASSUME NEW m, IsSequence(m)
    PROVE  m \in Seq({ m[a] : a \in 1 .. Len(m) })
BY DEF IsSequence

LEMMA SeqIsSequence ==
    ASSUME NEW S, NEW m \in Seq(S)
    PROVE  IsSequence(m)
BY DEF IsSequence

LEMMA Appended ==
    ASSUME NEW m, IsSequence(m), NEW x
    PROVE  /\ IsSequence(Append(m, x)) /\ Len(Append(m, x)) = Len(m) + 1
           /\ \A a \in 1 .. Len(m) : Append(m, x)[a] = m[a]
           /\ Append(m, x)[Len(m) + 1] = x
<1> DEFINE S == { m[a] : a \in 1 .. Len(m) } \cup {x}
<1>1. m \in Seq(S) /\ Len(m) \in Nat
  BY DEF IsSequence
<1>2. x \in S
  OBVIOUS
<1> HIDE DEF S
<1>3. Append(m, x) \in Seq(S)
  BY <1>1, <1>2
<1>4. IsSequence(Append(m, x))
  BY <1>3, SeqIsSequence
<1> QED  BY <1>1, <1>2, <1>4

LEMMA GrownByOne ==
    ASSUME NEW m, IsSequence(m), NEW x
    PROVE  Grown(m, Append(m, x)) /\ Len(m) \in Nat
BY Appended DEF Grown, IsSequence

LEMMA GrownTwice ==
    ASSUME NEW m, NEW m2, NEW m3, IsSequence(m), Grown(m, m2), Grown(m2, m3)
    PROVE  Grown(m, m3)
BY DEF Grown, IsSequence

Wrote(m, a, x, m2) == m2 = [m EXCEPT ![a] = x]

IsSlice(h, array, len) == h = [array |-> array, len |-> len]

LEMMA Overwritten ==
    ASSUME NEW m, IsSequence(m), NEW a \in 1 .. Len(m), NEW x,
           NEW m2, Wrote(m, a, x, m2)
    PROVE  /\ IsSequence(m2) /\ Len(m2) = Len(m)
           /\ m2[a] = x
           /\ \A b \in 1 .. Len(m) : b # a => m2[b] = m[b]
<1> DEFINE S == { m[b] : b \in 1 .. Len(m) } \cup {x}
<1>1. m \in Seq(S) /\ Len(m) \in Nat
  BY DEF IsSequence
<1>2. x \in S
  OBVIOUS
<1> HIDE DEF S
<1>3. m2 = [m EXCEPT ![a] = x]
  BY DEF Wrote
<1>4. m2 \in Seq(S) /\ Len(m2) = Len(m)
  BY <1>1, <1>2, <1>3
<1>5. IsSequence(m2)
  BY <1>4, SeqIsSequence
<1> QED  BY <1>1, <1>3, <1>4, <1>5

-----------------------------------------------------------------------------
(***************************************************************************)
(* A field.                                                                *)
(***************************************************************************)

\* The addresses of what has a type the program relies on.
FieldHolders(f, v) ==
    CASE f = "capacity" -> {v} \ {Nil}
      [] f = "finalizers" -> {v.array} \ {Nil}
      [] OTHER -> {}

FieldCells(m, f, v) == FieldValues(m, f, v) \cup FieldHolders(f, v)

LEMMA Kinds3 ==
    /\ \A f \in Pointer : f # "capacity" /\ f # "finalizers"
    /\ "capacity" \notin Pointer /\ "finalizers" \notin Pointer
BY DEF Pointer, Capacity

LEMMA OfPointer ==
    ASSUME NEW m, NEW f \in Pointer, NEW v
    PROVE  /\ FieldReading(m, f, v) = Pointed(m, v)
           /\ FieldValues(m, f, v) = {v} \ {Nil}
           /\ FieldHolders(f, v) = {}
           /\ FieldFormed(m, f, v) <=> v \in 0 .. Len(m)
BY Kinds3 DEF FieldReading, FieldValues, FieldHolders, FieldFormed

LEMMA OfCapacity ==
    ASSUME NEW m, NEW f, f = "capacity", NEW v
    PROVE  /\ FieldReading(m, f, v) = CapacityReading(m, v)
           /\ FieldValues(m, f, v) =
                IF v = Nil THEN {} ELSE { m[v][g] : g \in Capacity } \ {Nil}
           /\ FieldHolders(f, v) = {v} \ {Nil}
           /\ FieldFormed(m, f, v) <=> CapacityFormed(m, v)
BY Kinds3 DEF FieldReading, FieldValues, FieldHolders, FieldFormed

LEMMA OfFinalizers ==
    ASSUME NEW m, NEW f, f = "finalizers", NEW v
    PROVE  /\ FieldReading(m, f, v) = Held(m, v)
           /\ FieldValues(m, f, v) = {}
           /\ FieldHolders(f, v) = {v.array} \ {Nil}
           /\ FieldFormed(m, f, v) <=> FinalizersFormed(m, v)
BY Kinds3 DEF FieldReading, FieldValues, FieldHolders, FieldFormed

LEMMA OfOther ==
    ASSUME NEW m, NEW f, f \notin Pointer, f # "capacity", f # "finalizers", NEW v
    PROVE  /\ FieldReading(m, f, v) = v
           /\ FieldValues(m, f, v) = {}
           /\ FieldHolders(f, v) = {}
           /\ FieldFormed(m, f, v)
BY Kinds3 DEF FieldReading, FieldValues, FieldHolders, FieldFormed

LEMMA FieldInMemory ==
    ASSUME NEW m, Len(m) \in Nat, NEW f, NEW v, FieldFormed(m, f, v)
    PROVE  FieldCells(m, f, v) \subseteq 1 .. Len(m)
<1>1. CASE f \in Pointer
  BY <1>1, OfPointer DEF FieldCells, Nil
<1>2. CASE f = "capacity"
  <2>1. CapacityFormed(m, v)
    BY <1>2, OfCapacity
  <2>2. CASE v = Nil
    BY <1>2, <2>2, OfCapacity DEF FieldCells
  <2>3. CASE v # Nil
    <3>1. v \in 1 .. Len(m) /\ m[v] \in [Capacity -> 0 .. Len(m)]
      BY <2>1, <2>3 DEF CapacityFormed, Nil
    <3>2. { m[v][g] : g \in Capacity } \ {Nil} \subseteq 1 .. Len(m)
      BY <3>1 DEF Nil
    <3> QED  BY <1>2, <2>3, <3>1, <3>2, OfCapacity DEF FieldCells
  <2> QED  BY <2>2, <2>3
<1>3. CASE f = "finalizers"
  BY <1>3, OfFinalizers DEF FieldCells, FinalizersFormed, Nil
<1>4. CASE f \notin Pointer /\ f # "capacity" /\ f # "finalizers"
  BY <1>4, OfOther DEF FieldCells
<1> QED  BY <1>1, <1>2, <1>3, <1>4

\* What a field leads to, and that it is well-formed, is said by its holders.
LEMMA FieldFrame ==
    ASSUME NEW m, NEW m2, Len(m) \in Nat, Len(m2) \in Nat, Len(m) <= Len(m2),
           NEW f, NEW v, FieldFormed(m, f, v),
           \A a \in FieldHolders(f, v) : m2[a] = m[a]
    PROVE  FieldFormed(m2, f, v) /\ FieldValues(m2, f, v) = FieldValues(m, f, v)
<1>0. 0 .. Len(m) \subseteq 0 .. Len(m2)
  OBVIOUS
<1>1. CASE f \in Pointer
  <2>1. v \in 0 .. Len(m) /\ FieldValues(m, f, v) = {v} \ {Nil}
    BY <1>1, OfPointer
  <2>2. (FieldFormed(m2, f, v) <=> v \in 0 .. Len(m2)) /\ FieldValues(m2, f, v) = {v} \ {Nil}
    BY <1>1, OfPointer
  <2> QED  BY <1>0, <2>1, <2>2
<1>2. CASE f = "capacity"
  <2>1. CapacityFormed(m, v)
    BY <1>2, OfCapacity
  <2>2. v # Nil => m2[v] = m[v]
    BY <1>2, OfCapacity
  <2>3. v # Nil => m[v] \in [Capacity -> 0 .. Len(m2)]
    BY <1>0, <2>1 DEF CapacityFormed
  <2>4. CapacityFormed(m2, v)
    BY <1>0, <2>1, <2>2, <2>3 DEF CapacityFormed
  <2>5. FieldFormed(m2, f, v)
    BY <1>2, <2>4, OfCapacity
  <2>6. /\ FieldValues(m, f, v) =
             IF v = Nil THEN {} ELSE { m[v][g] : g \in Capacity } \ {Nil}
        /\ FieldValues(m2, f, v) =
             IF v = Nil THEN {} ELSE { m2[v][g] : g \in Capacity } \ {Nil}
    BY <1>2, OfCapacity
  <2> QED  BY <2>2, <2>5, <2>6
<1>3. CASE f = "finalizers"
  <2>1. FinalizersFormed(m, v)
    BY <1>3, OfFinalizers
  <2>2. v.array # Nil => m2[v.array] = m[v.array]
    BY <1>3, OfFinalizers
  <2>3. FinalizersFormed(m2, v)
    BY <1>0, <2>1, <2>2 DEF FinalizersFormed
  <2> QED  BY <1>3, <2>3, OfFinalizers
<1>4. CASE f \notin Pointer /\ f # "capacity" /\ f # "finalizers"
  BY <1>4, OfOther
<1> QED  BY <1>1, <1>2, <1>3, <1>4

\* What it says is said by its cells.
LEMMA FieldSaysTheSame ==
    ASSUME NEW m, NEW m2, NEW f, NEW v, FieldFormed(m, f, v),
           \A a \in FieldCells(m, f, v) : m2[a] = m[a]
    PROVE  FieldReading(m2, f, v) = FieldReading(m, f, v)
<1>1. CASE f \in Pointer
  <2>1. FieldReading(m, f, v) = Pointed(m, v) /\ FieldReading(m2, f, v) = Pointed(m2, v)
    BY <1>1, OfPointer
  <2>2. v # Nil => m2[v] = m[v]
    BY <1>1, OfPointer DEF FieldCells
  <2> QED  BY <2>1, <2>2 DEF Pointed
<1>2. CASE f = "capacity"
  <2>0. /\ FieldReading(m, f, v) = CapacityReading(m, v)
        /\ FieldReading(m2, f, v) = CapacityReading(m2, v)
    BY <1>2, OfCapacity
  <2>1. CASE v = Nil
    BY <2>0, <2>1 DEF CapacityReading
  <2>2. CASE v # Nil
    <3>1. m2[v] = m[v] /\ \A g \in Capacity : m[v][g] # Nil => m2[m[v][g]] = m[m[v][g]]
      BY <1>2, <2>2, OfCapacity DEF FieldCells
    <3>2. \A g \in Capacity : Pointed(m2, m2[v][g]) = Pointed(m, m[v][g])
      BY <3>1 DEF Pointed
    <3>3. CapacityReading(m2, v) = CapacityReading(m, v)
      BY <2>2, <3>2 DEF CapacityReading
    <3> QED  BY <2>0, <3>3
  <2> QED  BY <2>1, <2>2
<1>3. CASE f = "finalizers"
  <2>1. FieldReading(m, f, v) = Held(m, v) /\ FieldReading(m2, f, v) = Held(m2, v)
    BY <1>3, OfFinalizers
  <2>2. v.array # Nil => m2[v.array] = m[v.array]
    BY <1>3, OfFinalizers DEF FieldCells
  <2> QED  BY <2>1, <2>2 DEF Held
<1>4. CASE f \notin Pointer /\ f # "capacity" /\ f # "finalizers"
  <2>1. FieldReading(m, f, v) = v
    BY <1>4, OfOther
  <2>2. FieldReading(m2, f, v) = v
    BY <1>4, OfOther
  <2> QED  BY <2>1, <2>2
<1> QED  BY <1>1, <1>2, <1>3, <1>4

-----------------------------------------------------------------------------
(***************************************************************************)
(* A struct of fields, and a slice of structs.                             *)
(***************************************************************************)
StructHolders(s) == UNION { FieldHolders(f, s[f]) : f \in DOMAIN s }

StructCells(m, s) == StructValues(m, s) \cup StructHolders(s)

LEMMA CellsOfFields ==
    ASSUME NEW m, NEW s
    PROVE  StructCells(m, s) = UNION { FieldCells(m, f, s[f]) : f \in DOMAIN s }
BY DEF StructCells, StructValues, StructHolders, FieldCells

LEMMA StructInMemory ==
    ASSUME NEW m, Len(m) \in Nat, NEW fields, NEW s, StructFormed(m, fields, s)
    PROVE  StructCells(m, s) \subseteq 1 .. Len(m)
<1>1. \A f \in DOMAIN s : FieldCells(m, f, s[f]) \subseteq 1 .. Len(m)
  BY FieldInMemory DEF StructFormed
<1> QED  BY <1>1, CellsOfFields

LEMMA StructFrame ==
    ASSUME NEW m, NEW m2, Len(m) \in Nat, Len(m2) \in Nat, Len(m) <= Len(m2),
           NEW fields, NEW s, StructFormed(m, fields, s),
           \A a \in StructHolders(s) : m2[a] = m[a]
    PROVE  StructFormed(m2, fields, s) /\ StructValues(m2, s) = StructValues(m, s)
<1>1. ASSUME NEW f \in fields
      PROVE  FieldFormed(m2, f, s[f]) /\ FieldValues(m2, f, s[f]) = FieldValues(m, f, s[f])
  <2>1. FieldFormed(m, f, s[f]) /\ f \in DOMAIN s
    BY DEF StructFormed
  <2>2. \A a \in FieldHolders(f, s[f]) : m2[a] = m[a]
    BY <2>1 DEF StructHolders
  <2> QED  BY <2>1, <2>2, FieldFrame
<1>2. DOMAIN s = fields
  BY DEF StructFormed
<1>3. StructFormed(m2, fields, s)
  BY <1>1 DEF StructFormed
<1>4. StructValues(m2, s) = StructValues(m, s)
  BY <1>1, <1>2 DEF StructValues
<1> QED  BY <1>3, <1>4

LEMMA StructSaysTheSame ==
    ASSUME NEW m, NEW m2, NEW fields, NEW s, StructFormed(m, fields, s),
           \A a \in StructCells(m, s) : m2[a] = m[a]
    PROVE  StructReading(m2, s) = StructReading(m, s)
<1>1. ASSUME NEW f \in DOMAIN s
      PROVE  FieldReading(m2, f, s[f]) = FieldReading(m, f, s[f])
  <2>1. FieldFormed(m, f, s[f])
    BY DEF StructFormed
  <2>2. \A a \in FieldCells(m, f, s[f]) : m2[a] = m[a]
    BY CellsOfFields
  <2> QED  BY <2>1, <2>2, FieldSaysTheSame
<1> QED  BY <1>1 DEF StructReading

ItemsHolders(m, v) ==
    IF v = Nil THEN {} ELSE {v} \cup UNION { StructHolders(m[v][i]) : i \in 1 .. Len(m[v]) }

ItemsCells(m, v) == ItemsValues(m, v) \cup ItemsHolders(m, v)

LEMMA ItemsInMemory ==
    ASSUME NEW m, Len(m) \in Nat, NEW fields, NEW v, ItemsFormed(m, fields, v)
    PROVE  ItemsCells(m, v) \subseteq 1 .. Len(m)
<1>1. CASE v = Nil
  BY <1>1 DEF ItemsCells, ItemsValues, ItemsHolders
<1>2. CASE v # Nil
  <2>1. v \in 1 .. Len(m)
    BY <1>2 DEF ItemsFormed, Nil
  <2>2. \A i \in 1 .. Len(m[v]) : StructCells(m, m[v][i]) \subseteq 1 .. Len(m)
    BY <1>2, StructInMemory DEF ItemsFormed
  <2>3. \A i \in 1 .. Len(m[v]) :
          StructValues(m, m[v][i]) \subseteq 1 .. Len(m) /\ StructHolders(m[v][i]) \subseteq 1 .. Len(m)
    BY <2>2 DEF StructCells
  <2> QED  BY <1>2, <2>1, <2>3 DEF ItemsCells, ItemsValues, ItemsHolders
<1> QED  BY <1>1, <1>2

LEMMA ItemsFrame ==
    ASSUME NEW m, NEW m2, Len(m) \in Nat, Len(m2) \in Nat, Len(m) <= Len(m2),
           NEW fields, NEW v, ItemsFormed(m, fields, v),
           \A a \in ItemsHolders(m, v) : m2[a] = m[a]
    PROVE  /\ ItemsFormed(m2, fields, v) /\ ItemsValues(m2, v) = ItemsValues(m, v)
           /\ ItemsHolders(m2, v) = ItemsHolders(m, v)
<1>0. v \in 0 .. Len(m2)
  BY DEF ItemsFormed
<1>1. CASE v = Nil
  BY <1>0, <1>1 DEF ItemsFormed, ItemsValues, ItemsHolders
<1>2. CASE v # Nil
  <2>1. m2[v] = m[v] /\ IsSequence(m[v])
    BY <1>2 DEF ItemsHolders, ItemsFormed
  <2>2. ASSUME NEW i \in 1 .. Len(m[v])
        PROVE  /\ StructFormed(m2, fields, m[v][i])
               /\ StructValues(m2, m[v][i]) = StructValues(m, m[v][i])
    <3>1. StructFormed(m, fields, m[v][i])
      BY <1>2 DEF ItemsFormed
    <3>2. \A a \in StructHolders(m[v][i]) : m2[a] = m[a]
      BY <1>2 DEF ItemsHolders
    <3> QED  BY <3>1, <3>2, StructFrame
  <2>3. ItemsFormed(m2, fields, v)
    BY <1>0, <2>1, <2>2 DEF ItemsFormed
  <2>4. ItemsValues(m2, v) = ItemsValues(m, v)
    BY <2>1, <2>2 DEF ItemsValues
  <2>5. ItemsHolders(m2, v) = ItemsHolders(m, v)
    BY <2>1 DEF ItemsHolders
  <2> QED  BY <2>3, <2>4, <2>5
<1> QED  BY <1>1, <1>2

LEMMA ItemsSayTheSame ==
    ASSUME NEW m, NEW m2, NEW fields, NEW v, ItemsFormed(m, fields, v),
           \A a \in ItemsCells(m, v) : m2[a] = m[a]
    PROVE  ItemsReading(m2, v) = ItemsReading(m, v)
<1>1. CASE v = Nil
  BY <1>1 DEF ItemsReading
<1>2. CASE v # Nil
  <2>1. m2[v] = m[v]
    BY <1>2 DEF ItemsCells, ItemsHolders
  <2>2. ASSUME NEW i \in 1 .. Len(m[v])
        PROVE  StructReading(m2, m[v][i]) = StructReading(m, m[v][i])
    <3>1. StructFormed(m, fields, m[v][i])
      BY <1>2 DEF ItemsFormed
    <3>2. \A a \in StructCells(m, m[v][i]) : m2[a] = m[a]
      BY <1>2 DEF ItemsCells, ItemsHolders, ItemsValues, StructCells
    <3> QED  BY <3>1, <3>2, StructSaysTheSame
  <2> QED  BY <1>2, <2>1, <2>2 DEF ItemsReading
<1> QED  BY <1>1, <1>2

-----------------------------------------------------------------------------
(***************************************************************************)
(* An object of any kind.                                                  *)
(***************************************************************************)
Holders(m, kind, s) == IF kind \in Lists THEN ItemsHolders(m, s.items) ELSE StructHolders(s)

Cells(m, kind, s) == Values(m, kind, s) \cup Holders(m, kind, s)

LEMMA InMemory ==
    ASSUME NEW m, Len(m) \in Nat, NEW kind, NEW s, Formed(m, kind, s)
    PROVE  Cells(m, kind, s) \subseteq 1 .. Len(m)
<1>1. CASE kind \in Lists
  <2>1. ItemsCells(m, s.items) \subseteq 1 .. Len(m)
    BY <1>1, ItemsInMemory DEF Formed, ListFormed
  <2>2. {s.meta} \ {Nil} \subseteq 1 .. Len(m)
    BY <1>1 DEF Formed, ListFormed, Nil
  <2> QED  BY <1>1, <2>1, <2>2 DEF Cells, Values, Holders, ItemsCells
<1>2. CASE kind \notin Lists
  BY <1>2, StructInMemory DEF Cells, Values, Holders, StructCells, Formed
<1> QED  BY <1>1, <1>2

LEMMA Frame ==
    ASSUME NEW m, NEW m2, Len(m) \in Nat, Len(m2) \in Nat, Len(m) <= Len(m2),
           NEW kind, NEW s, Formed(m, kind, s),
           \A a \in Holders(m, kind, s) : m2[a] = m[a]
    PROVE  /\ Formed(m2, kind, s) /\ Values(m2, kind, s) = Values(m, kind, s)
           /\ Holders(m2, kind, s) = Holders(m, kind, s)
           /\ Cells(m2, kind, s) = Cells(m, kind, s)
<1>1. CASE kind \in Lists
  <2>1. ListFormed(m, Fields(ItemKind(kind)), s)
    BY <1>1 DEF Formed
  <2>2. /\ ItemsFormed(m2, Fields(ItemKind(kind)), s.items)
        /\ ItemsValues(m2, s.items) = ItemsValues(m, s.items)
        /\ ItemsHolders(m2, s.items) = ItemsHolders(m, s.items)
    BY <1>1, <2>1, ItemsFrame DEF ListFormed, Holders
  <2>3. ListFormed(m2, Fields(ItemKind(kind)), s)
    BY <2>1, <2>2 DEF ListFormed
  <2> QED  BY <1>1, <2>2, <2>3 DEF Formed, Values, Holders, Cells
<1>2. CASE kind \notin Lists
  <2>1. StructFormed(m2, Fields(kind), s) /\ StructValues(m2, s) = StructValues(m, s)
    BY <1>2, StructFrame DEF Formed, Holders
  <2> QED  BY <1>2, <2>1 DEF Formed, Values, Holders, Cells
<1> QED  BY <1>1, <1>2

LEMMA SaysTheSame ==
    ASSUME NEW m, NEW m2, NEW kind, NEW s, Formed(m, kind, s),
           \A a \in Cells(m, kind, s) : m2[a] = m[a]
    PROVE  Reading(m2, kind, s) = Reading(m, kind, s)
<1>1. CASE kind \in Lists
  <2>1. Pointed(m2, s.meta) = Pointed(m, s.meta)
    BY <1>1 DEF Cells, Values, Pointed
  <2>2. \A a \in ItemsCells(m, s.items) : m2[a] = m[a]
    BY <1>1 DEF Cells, Values, Holders, ItemsCells
  <2>3. ItemsReading(m2, s.items) = ItemsReading(m, s.items)
    BY <1>1, <2>2, ItemsSayTheSame DEF Formed, ListFormed
  <2> QED  BY <1>1, <2>1, <2>3 DEF Reading
<1>2. CASE kind \notin Lists
  <2>1. StructReading(m2, s) = StructReading(m, s)
    BY <1>2, StructSaysTheSame DEF Formed, Cells, Values, Holders, StructCells
  <2> QED  BY <1>2, <2>1 DEF Reading
<1> QED  BY <1>1, <1>2

-----------------------------------------------------------------------------
(***************************************************************************)
(* The copy of a field: it says the same, and all its cells are new.       *)
(***************************************************************************)
FieldFresh(m, f, v, m2, w) ==
    /\ FieldFormed(m2, f, w)
    /\ FieldReading(m2, f, w) = FieldReading(m, f, v)
    /\ FieldCells(m2, f, w) \subseteq Len(m) + 1 .. Len(m2)
    /\ FieldValues(m2, f, w) \cap FieldHolders(f, w) = {}

FieldCopied(m, f, v, c) == Grown(m, c.memory) /\ FieldFresh(m, f, v, c.memory, c.value)

LEMMA PointerCopied ==
    ASSUME NEW m, IsSequence(m), NEW f \in Pointer, NEW v, FieldFormed(m, f, v)
    PROVE  FieldCopied(m, f, v, CopiedPointer(m, v))
<1> DEFINE c == CopiedPointer(m, v)
<1>0. v \in 0 .. Len(m) /\ Len(m) \in Nat
  BY OfPointer DEF IsSequence
<1>1. CASE v = Nil
  <2>1. c.memory = m /\ c.value = v
    BY <1>1 DEF CopiedPointer, Shared
  <2>2. FieldCells(m, f, v) = {}
    BY <1>1, OfPointer DEF FieldCells
  <2>3. FieldValues(m, f, v) \cap FieldHolders(f, v) = {}
    BY <2>2 DEF FieldCells
  <2>4. Grown(m, m)
    BY <1>0 DEF Grown
  <2> QED  BY <2>1, <2>2, <2>3, <2>4 DEF FieldCopied, FieldFresh
<1>2. CASE v # Nil
  <2>1. c.memory = Append(m, m[v]) /\ c.value = Len(m) + 1
    BY <1>2 DEF CopiedPointer, Fresh
  <2>2. Grown(m, c.memory) /\ Len(c.memory) = Len(m) + 1 /\ c.memory[Len(m) + 1] = m[v]
    BY <2>1, GrownByOne, Appended
  <2> HIDE DEF c
  <2>a. c.value \in 0 .. Len(c.memory)
    BY <1>0, <2>1, <2>2
  <2>3. FieldFormed(c.memory, f, c.value)
    BY <2>a, OfPointer
  <2>4. FieldReading(c.memory, f, c.value) = Pointed(c.memory, c.value)
    BY OfPointer
  <2>5. FieldReading(m, f, v) = Pointed(m, v)
    BY OfPointer
  <2>6. Pointed(c.memory, c.value) = Pointed(m, v)
    BY <1>0, <1>2, <2>1, <2>2 DEF Pointed, Nil
  <2>7. FieldCells(c.memory, f, c.value) \subseteq {Len(m) + 1} /\ FieldHolders(f, c.value) = {}
    BY <2>1, OfPointer DEF FieldCells
  <2> QED  BY <1>0, <2>2, <2>3, <2>4, <2>5, <2>6, <2>7 DEF FieldCopied, FieldFresh, c
<1> QED  BY <1>1, <1>2

LEMMA SliceOf ==
    ASSUME NEW s, IsSequence(s), NEW n \in Nat, n <= Len(s)
    PROVE  /\ IsSequence(SubSeq(s, 1, n)) /\ Len(SubSeq(s, 1, n)) = n
           /\ \A i \in 1 .. n : SubSeq(s, 1, n)[i] = s[i]
           /\ SubSeq(s, 1, n) = [i \in 1 .. n |-> s[i]]
<1> DEFINE S == { s[i] : i \in 1 .. Len(s) }
<1>1. s \in Seq(S) /\ Len(s) \in Nat
  BY DEF IsSequence
<1> HIDE DEF S
<1>2. SubSeq(s, 1, n) \in Seq(S) /\ Len(SubSeq(s, 1, n)) = n
  BY <1>1
<1>3. \A i \in 1 .. n : SubSeq(s, 1, n)[i] = s[i]
  BY <1>1
<1>4. IsSequence(SubSeq(s, 1, n))
  BY <1>2, SeqIsSequence
<1>5. SubSeq(s, 1, n) = [i \in 1 .. n |-> s[i]]
  BY <1>2, <1>3, <1>4 DEF IsSequence
<1> QED  BY <1>2, <1>3, <1>4, <1>5

LEMMA FinalizersCopied ==
    ASSUME NEW m, IsSequence(m), NEW f, f = "finalizers", NEW h, FieldFormed(m, f, h)
    PROVE  FieldCopied(m, f, h, CopiedFinalizers(m, h))
<1> DEFINE c == CopiedFinalizers(m, h)
<1>0. FinalizersFormed(m, h) /\ Len(m) \in Nat
  BY OfFinalizers DEF IsSequence
<1>1. CASE h.array = Nil
  <2>1. c.memory = m /\ c.value = h
    BY <1>1 DEF CopiedFinalizers, Shared
  <2>2. FieldCells(m, f, h) = {}
    BY <1>1, OfFinalizers DEF FieldCells
  <2>3. FieldValues(m, f, h) \cap FieldHolders(f, h) = {}
    BY <2>2 DEF FieldCells
  <2>4. Grown(m, m)
    BY <1>0 DEF Grown
  <2> QED  BY <2>1, <2>2, <2>3, <2>4 DEF FieldCopied, FieldFresh
<1>2. CASE h.array # Nil
  <2> DEFINE held == SubSeq(m[h.array], 1, h.len)
  <2>1. c.memory = Append(m, held) /\ c.value = [array |-> Len(m) + 1, len |-> h.len]
    BY <1>2 DEF CopiedFinalizers, Held
  <2> HIDE DEF held, c
  <2>2. Grown(m, c.memory) /\ Len(c.memory) = Len(m) + 1 /\ c.memory[Len(m) + 1] = held
    BY <2>1, GrownByOne, Appended
  <2>3. IsSequence(m[h.array]) /\ h.len \in Nat /\ h.len <= Len(m[h.array])
    BY <1>0, <1>2 DEF FinalizersFormed
  <2>4. /\ IsSequence(held) /\ Len(held) = h.len
        /\ \A i \in 1 .. h.len : held[i] = m[h.array][i]
    BY <2>3, SliceOf DEF held
  <2>a. Distinct(held, h.len)
    BY <1>0, <1>2, <2>4 DEF FinalizersFormed, Distinct
  <2>5. SubSeq(held, 1, h.len) = held
    BY <2>4, <2>3, SliceOf DEF IsSequence
  <2>6. FinalizersFormed(c.memory, c.value)
    BY <1>0, <1>2, <2>1, <2>2, <2>3, <2>4, <2>a DEF FinalizersFormed
  <2>7. FieldFormed(c.memory, f, c.value)
    BY <2>6, OfFinalizers
  <2>8. FieldReading(c.memory, f, c.value) = Held(c.memory, c.value)
    BY OfFinalizers
  <2>9. FieldReading(m, f, h) = Held(m, h)
    BY OfFinalizers
  <2>10. Held(m, h) = held
    BY <1>2 DEF Held, held
  <2>11. Held(c.memory, c.value) = held
    BY <1>0, <2>1, <2>2, <2>5 DEF Held, Nil
  <2>12. FieldCells(c.memory, f, c.value) \subseteq {Len(m) + 1} /\ FieldValues(c.memory, f, c.value) = {}
    BY <2>1, OfFinalizers DEF FieldCells
  <2> QED  BY <1>0, <2>2, <2>7, <2>8, <2>9, <2>10, <2>11, <2>12 DEF FieldCopied, FieldFresh, c
<1> QED  BY <1>1, <1>2

-----------------------------------------------------------------------------
(***************************************************************************)
(* The copy of a struct, of which the fields in F have been replaced.      *)
(***************************************************************************)
Apart(m, s, F) ==
    \A f \in F : \A g \in F :
        f # g => FieldCells(m, f, s[f]) \cap FieldCells(m, g, s[g]) = {}

Progress(m, s, F, acc) ==
    /\ Grown(m, acc.memory)
    /\ DOMAIN acc.out = DOMAIN s /\ acc.out = [f \in DOMAIN s |-> acc.out[f]]
    /\ \A f \in DOMAIN s \ F : acc.out[f] = s[f]
    /\ \A f \in F : FieldFresh(m, f, s[f], acc.memory, acc.out[f])
    /\ Apart(acc.memory, acc.out, F)

LEMMA FieldInGrown ==
    ASSUME NEW m, IsSequence(m), NEW m2, Grown(m, m2), NEW f, NEW v, FieldFormed(m, f, v)
    PROVE  /\ FieldFormed(m2, f, v)
           /\ FieldReading(m2, f, v) = FieldReading(m, f, v)
           /\ FieldValues(m2, f, v) = FieldValues(m, f, v)
           /\ FieldCells(m2, f, v) = FieldCells(m, f, v)
<1>1. Len(m) \in Nat /\ Len(m2) \in Nat /\ Len(m) <= Len(m2)
  BY DEF IsSequence, Grown
<1>2. \A a \in FieldCells(m, f, v) : m2[a] = m[a]
  BY <1>1, FieldInMemory DEF Grown
<1>3. FieldFormed(m2, f, v) /\ FieldValues(m2, f, v) = FieldValues(m, f, v)
  BY <1>1, <1>2, FieldFrame DEF FieldCells
<1>4. FieldReading(m2, f, v) = FieldReading(m, f, v)
  BY <1>2, FieldSaysTheSame
<1> QED  BY <1>3, <1>4 DEF FieldCells

LEMMA Untouched ==
    ASSUME NEW m, IsSequence(m), NEW fields, NEW s, StructFormed(m, fields, s),
           NEW F, NEW acc, Progress(m, s, F, acc), NEW f \in fields, f \notin F
    PROVE  /\ acc.out[f] = s[f] /\ IsSequence(acc.memory)
           /\ FieldFormed(acc.memory, f, acc.out[f])
           /\ FieldReading(acc.memory, f, s[f]) = FieldReading(m, f, s[f])
<1>1. acc.out[f] = s[f] /\ FieldFormed(m, f, s[f]) /\ Grown(m, acc.memory)
  BY DEF Progress, StructFormed
<1> QED  BY <1>1, FieldInGrown DEF Grown

LEMMA StructStep ==
    ASSUME NEW m, IsSequence(m), NEW fields, NEW s, StructFormed(m, fields, s),
           NEW F \in SUBSET fields, NEW acc, Progress(m, s, F, acc),
           NEW f \in fields, f \notin F,
           NEW c, FieldCopied(acc.memory, f, acc.out[f], c)
    PROVE  Progress(m, s, F \cup {f}, With(acc, f, c))
<1> DEFINE next == With(acc, f, c)
           m1 == acc.memory
           m2 == c.memory
<1>0. /\ next.memory = m2 /\ DOMAIN s = fields
      /\ DOMAIN next.out = DOMAIN s /\ next.out = [g \in DOMAIN s |-> next.out[g]]
      /\ next.out[f] = c.value
      /\ \A g \in fields \ {f} : next.out[g] = acc.out[g]
  BY DEF With, Progress, StructFormed
<1>1. /\ acc.out[f] = s[f] /\ IsSequence(m1)
      /\ FieldReading(m1, f, s[f]) = FieldReading(m, f, s[f])
  BY Untouched
<1>2. Grown(m, m1) /\ Grown(m1, m2) /\ FieldFresh(m1, f, s[f], m2, c.value)
  BY <1>1 DEF Progress, FieldCopied
<1>3. Grown(m, m2)
  BY <1>2, GrownTwice
<1>4. Len(m) \in Nat /\ Len(m1) \in Nat /\ Len(m2) \in Nat /\ Len(m) <= Len(m1) /\ Len(m1) <= Len(m2)
  BY <1>2 DEF Grown, IsSequence
<1>5. FieldFresh(m, f, s[f], m2, c.value)
  BY <1>1, <1>2, <1>4 DEF FieldFresh
<1>6. ASSUME NEW g \in F
      PROVE  /\ FieldFresh(m, g, s[g], m2, acc.out[g])
             /\ FieldCells(m2, g, acc.out[g]) = FieldCells(m1, g, acc.out[g])
             /\ FieldCells(m2, g, acc.out[g]) \subseteq 1 .. Len(m1)
  <2>1. FieldFresh(m, g, s[g], m1, acc.out[g])
    BY DEF Progress
  <2>2. /\ FieldFormed(m2, g, acc.out[g])
        /\ FieldReading(m2, g, acc.out[g]) = FieldReading(m1, g, acc.out[g])
        /\ FieldValues(m2, g, acc.out[g]) = FieldValues(m1, g, acc.out[g])
        /\ FieldCells(m2, g, acc.out[g]) = FieldCells(m1, g, acc.out[g])
    BY <1>1, <1>2, <2>1, FieldInGrown DEF FieldFresh
  <2> QED  BY <1>4, <2>1, <2>2 DEF FieldFresh
<1> HIDE DEF next, m1, m2
<1>7. \A g \in F \cup {f} : FieldFresh(m, g, s[g], next.memory, next.out[g])
  BY <1>0, <1>5, <1>6
<1>8. FieldCells(m2, f, c.value) \subseteq Len(m1) + 1 .. Len(m2)
  BY <1>2 DEF FieldFresh
<1>9. ASSUME NEW g \in F
      PROVE  FieldCells(m2, g, acc.out[g]) \cap FieldCells(m2, f, c.value) = {}
  BY <1>4, <1>6, <1>8
<1>10. Apart(next.memory, next.out, F \cup {f})
  <2>1. ASSUME NEW g \in F, NEW g2 \in F, g # g2
        PROVE  FieldCells(m2, g, acc.out[g]) \cap FieldCells(m2, g2, acc.out[g2]) = {}
    BY <1>6, <2>1 DEF Progress, Apart, m1
  <2> QED  BY <1>0, <1>9, <2>1 DEF Apart
<1>11. \A g \in DOMAIN s \ (F \cup {f}) : next.out[g] = s[g]
  BY <1>0 DEF Progress
<1> QED  BY <1>0, <1>3, <1>7, <1>10, <1>11 DEF Progress, next

LEMMA FieldStep ==
    ASSUME NEW m, IsSequence(m), NEW fields, NEW s, StructFormed(m, fields, s),
           NEW F \in SUBSET fields, NEW acc, Progress(m, s, F, acc),
           NEW f \in fields, f \notin F, f \in Pointer
    PROVE  Progress(m, s, F \cup {f}, CopiedField(acc, f))
<1>1. IsSequence(acc.memory) /\ FieldFormed(acc.memory, f, acc.out[f])
  BY Untouched
<1>2. FieldCopied(acc.memory, f, acc.out[f], CopiedPointer(acc.memory, acc.out[f]))
  BY <1>1, PointerCopied
<1> QED  BY <1>2, StructStep DEF CopiedField

LEMMA Begin ==
    ASSUME NEW m, IsSequence(m), NEW fields, NEW s, StructFormed(m, fields, s)
    PROVE  Progress(m, s, {}, [memory |-> m, out |-> s])
<1>1. Grown(m, m)
  BY DEF Grown, IsSequence
<1>2. s = [f \in DOMAIN s |-> s[f]]
  BY DEF StructFormed
<1> QED  BY <1>1, <1>2 DEF Progress, Apart

\* A struct whose fields have all been replaced, but for those without references.
StructApart(m, s) ==
    /\ Apart(m, s, DOMAIN s)
    /\ \A f \in DOMAIN s : FieldValues(m, f, s[f]) \cap FieldHolders(f, s[f]) = {}

StructCopied(m, fields, s, c) ==
    /\ Grown(m, c.memory)
    /\ StructFormed(c.memory, fields, c.out)
    /\ StructReading(c.memory, c.out) = StructReading(m, s)
    /\ StructCells(c.memory, c.out) \subseteq Len(m) + 1 .. Len(c.memory)
    /\ StructApart(c.memory, c.out)

LEMMA Done ==
    ASSUME NEW m, IsSequence(m), NEW fields, NEW s, StructFormed(m, fields, s),
           NEW F \in SUBSET fields, NEW acc, Progress(m, s, F, acc),
           \A f \in fields \ F : f \notin Pointer /\ f # "capacity" /\ f # "finalizers"
    PROVE  StructCopied(m, fields, s, acc)
<1> DEFINE m2 == acc.memory
           t == acc.out
<1>0. DOMAIN s = fields /\ DOMAIN t = fields /\ t = [f \in fields |-> t[f]] /\ Grown(m, m2)
  BY DEF Progress, StructFormed
<1>1. ASSUME NEW f \in fields \ F
      PROVE  /\ FieldFormed(m2, f, t[f]) /\ FieldReading(m2, f, t[f]) = FieldReading(m, f, s[f])
             /\ FieldCells(m2, f, t[f]) = {} /\ FieldValues(m2, f, t[f]) = {}
  <2>1. t[f] = s[f] /\ FieldReading(m2, f, s[f]) = FieldReading(m, f, s[f])
    BY Untouched
  <2> HIDE DEF m2, t
  <2>2. /\ FieldFormed(m2, f, t[f]) /\ FieldValues(m2, f, t[f]) = {}
        /\ FieldHolders(f, t[f]) = {}
    BY OfOther
  <2> QED  BY <2>1, <2>2 DEF FieldCells
<1>2. ASSUME NEW f \in F
      PROVE  FieldFresh(m, f, s[f], m2, t[f])
  BY DEF Progress
<1>3. ASSUME NEW f \in fields
      PROVE  /\ FieldFormed(m2, f, t[f]) /\ FieldReading(m2, f, t[f]) = FieldReading(m, f, s[f])
             /\ FieldCells(m2, f, t[f]) \subseteq Len(m) + 1 .. Len(m2)
             /\ FieldValues(m2, f, t[f]) \cap FieldHolders(f, t[f]) = {}
  BY <1>1, <1>2 DEF FieldFresh
<1>4. Apart(m2, t, F)
  BY DEF Progress
<1> HIDE DEF m2, t
<1>5. Apart(m2, t, fields)
  BY <1>1, <1>4 DEF Apart
<1>6. StructApart(m2, t)
  BY <1>0, <1>3, <1>5 DEF StructApart
<1>7. StructFormed(m2, fields, t)
  BY <1>0, <1>3 DEF StructFormed
<1>8. StructReading(m2, t) = StructReading(m, s)
  BY <1>0, <1>3 DEF StructReading
<1>9. StructCells(m2, t) \subseteq Len(m) + 1 .. Len(m2)
  BY <1>0, <1>3, CellsOfFields
<1> QED  BY <1>0, <1>6, <1>7, <1>8, <1>9 DEF StructCopied, m2, t

LEMMA CellsApart ==
    ASSUME NEW m, NEW s, StructApart(m, s)
    PROVE  StructValues(m, s) \cap StructHolders(s) = {}
<1> SUFFICES ASSUME NEW f \in DOMAIN s, NEW g \in DOMAIN s,
                    NEW a \in FieldValues(m, f, s[f]), a \in FieldHolders(g, s[g])
             PROVE  FALSE
  BY DEF StructValues, StructHolders
<1> QED  BY DEF StructApart, Apart, FieldCells

-----------------------------------------------------------------------------
(***************************************************************************)
(* The copies of the structs of both API groups.                           *)
(***************************************************************************)
LEMMA TenantCapacityCopied ==
    ASSUME NEW m, IsSequence(m), NEW s, StructFormed(m, Capacity, s)
    PROVE  StructCopied(m, Capacity, s, TenantCapacityDeepCopy([memory |-> m, out |-> s]))
<1> DEFINE a0 == [memory |-> m, out |-> s]
           a1 == CopiedField(a0, "maxNamespaces")
           a2 == CopiedField(a1, "maxClusterRoleBindings")
           a3 == CopiedField(a2, "maxCRDs")
           F1 == {} \cup {"maxNamespaces"}
           F2 == F1 \cup {"maxClusterRoleBindings"}
           F3 == F2 \cup {"maxCRDs"}
<1>0. Progress(m, s, {}, a0)
  BY Begin
<1>1. Progress(m, s, F1, a1)
  <2> HIDE DEF a0
  <2> QED  BY <1>0, FieldStep DEF Capacity, Pointer
<1>2. Progress(m, s, F2, a2)
  <2>1. F1 \in SUBSET Capacity /\ "maxClusterRoleBindings" \notin F1
    BY DEF Capacity
  <2> HIDE DEF a1, F1
  <2> QED  BY <1>1, <2>1, FieldStep DEF Capacity, Pointer
<1>3. Progress(m, s, F3, a3)
  <2>1. F2 \in SUBSET Capacity /\ "maxCRDs" \notin F2
    BY DEF Capacity
  <2> HIDE DEF a2, F2
  <2> QED  BY <1>2, <2>1, FieldStep DEF Capacity, Pointer
<1>4. F3 = Capacity
  BY DEF Capacity
<1> HIDE DEF F3, a3
<1>5. StructCopied(m, Capacity, s, a3)
  BY <1>3, <1>4, Done
<1> QED  BY <1>5 DEF TenantCapacityDeepCopy, a3

LEMMA CapacityCopied ==
    ASSUME NEW m, IsSequence(m), NEW f, f = "capacity", NEW v, FieldFormed(m, f, v)
    PROVE  FieldCopied(m, f, v, CopiedCapacity(m, v))
<1> DEFINE c == CopiedCapacity(m, v)
<1>0. CapacityFormed(m, v) /\ Len(m) \in Nat
  BY OfCapacity DEF IsSequence
<1>1. CASE v = Nil
  <2>1. c.memory = m /\ c.value = v
    BY <1>1 DEF CopiedCapacity, Shared
  <2>2. FieldCells(m, f, v) = {}
    BY <1>1, OfCapacity DEF FieldCells
  <2>3. FieldValues(m, f, v) \cap FieldHolders(f, v) = {}
    BY <2>2 DEF FieldCells
  <2>4. Grown(m, m)
    BY <1>0 DEF Grown
  <2> QED  BY <2>1, <2>2, <2>3, <2>4 DEF FieldCopied, FieldFresh
<1>2. CASE v # Nil
  <2> DEFINE s == m[v]
             acc == TenantCapacityDeepCopy([memory |-> m, out |-> s])
             m1 == acc.memory
             t == acc.out
             m2 == c.memory
             w == c.value
  <2>1. s \in [Capacity -> 0 .. Len(m)]
    BY <1>0, <1>2 DEF CapacityFormed
  <2>2. \A g \in Capacity : g \in Pointer
    BY DEF Pointer
  <2>3. StructFormed(m, Capacity, s)
    <3> HIDE DEF s
    <3>1. \A g \in Capacity : FieldFormed(m, g, s[g])
      BY <2>1, <2>2, OfPointer
    <3> QED  BY <2>1, <3>1 DEF StructFormed
  <2>4. StructCopied(m, Capacity, s, acc)
    <3> HIDE DEF s
    <3> QED  BY <2>3, TenantCapacityCopied
  <2>5. m2 = Append(m1, t) /\ w = Len(m1) + 1
    BY <1>2 DEF CopiedCapacity, CopiedStruct, Fresh
  <2> HIDE DEF acc, c
  <2>6. /\ Grown(m, m1) /\ StructFormed(m1, Capacity, t)
        /\ StructReading(m1, t) = StructReading(m, s)
        /\ StructCells(m1, t) \subseteq Len(m) + 1 .. Len(m1)
    BY <2>4 DEF StructCopied
  <2> HIDE DEF s, m1, t, m2, w
  <2>7. IsSequence(m1) /\ Len(m1) \in Nat /\ Len(m) <= Len(m1)
    BY <2>6 DEF Grown, IsSequence
  <2>8. /\ Grown(m1, m2) /\ Len(m2) = Len(m1) + 1 /\ m2[w] = t
        /\ \A a \in 1 .. Len(m1) : m2[a] = m1[a]
    BY <2>5, <2>7, GrownByOne, Appended
  <2>9. Grown(m, m2)
    BY <2>6, <2>8, GrownTwice
  <2>10. DOMAIN s = Capacity /\ DOMAIN t = Capacity /\ t = [g \in Capacity |-> t[g]]
    BY <2>1, <2>6 DEF StructFormed
  <2>11. ASSUME NEW g \in Capacity
         PROVE  /\ t[g] \in 0 .. Len(m1) /\ Pointed(m2, t[g]) = Pointed(m, s[g])
                /\ t[g] # Nil => t[g] \in Len(m) + 1 .. Len(m1)
    <3>1. FieldFormed(m1, g, t[g]) /\ g \in Pointer
      BY <2>2, <2>6 DEF StructFormed
    <3>2. t[g] \in 0 .. Len(m1)
      BY <3>1, OfPointer
    <3>3. FieldReading(m1, g, t[g]) = FieldReading(m, g, s[g])
      BY <2>6, <2>10 DEF StructReading
    <3>4. FieldReading(m1, g, t[g]) = Pointed(m1, t[g])
      BY <3>1, OfPointer
    <3>5. FieldReading(m, g, s[g]) = Pointed(m, s[g])
      BY <3>1, OfPointer
    <3>6. Pointed(m2, t[g]) = Pointed(m1, t[g])
      BY <2>7, <2>8, <3>2 DEF Pointed, Nil
    <3>7. FieldCells(m1, g, t[g]) \subseteq Len(m) + 1 .. Len(m1)
      BY <2>6, <2>10, CellsOfFields
    <3>8. FieldValues(m1, g, t[g]) = {t[g]} \ {Nil}
      BY <3>1, OfPointer
    <3> QED  BY <3>2, <3>3, <3>4, <3>5, <3>6, <3>7, <3>8 DEF FieldCells
  <2>12. t \in [Capacity -> 0 .. Len(m2)]
    BY <2>7, <2>8, <2>10, <2>11
  <2>13. CapacityFormed(m2, w)
    BY <2>5, <2>7, <2>8, <2>12 DEF CapacityFormed
  <2>14. w # Nil
    BY <2>5, <2>7 DEF Nil
  <2>15. CapacityReading(m2, w) = CapacityReading(m, v)
    BY <1>2, <2>8, <2>11, <2>14 DEF CapacityReading, s
  <2>16. { t[g] : g \in Capacity } \ {Nil} \subseteq Len(m) + 1 .. Len(m1)
    BY <2>11
  <2>17. /\ FieldValues(m2, f, w) = { t[g] : g \in Capacity } \ {Nil}
         /\ FieldHolders(f, w) = {w}
    BY <2>8, <2>14, OfCapacity
  <2>18. /\ FieldCells(m2, f, w) \subseteq Len(m) + 1 .. Len(m2)
         /\ FieldValues(m2, f, w) \cap FieldHolders(f, w) = {}
    BY <1>0, <2>5, <2>7, <2>8, <2>16, <2>17 DEF FieldCells
  <2>19. FieldReading(m2, f, w) = CapacityReading(m2, w) /\ FieldFormed(m2, f, w)
    BY <2>13, OfCapacity
  <2>20. FieldReading(m, f, v) = CapacityReading(m, v)
    BY OfCapacity
  <2> QED  BY <2>9, <2>15, <2>18, <2>19, <2>20 DEF FieldCopied, FieldFresh, c, m2, w
<1> QED  BY <1>1, <1>2

LEMMA FinalizersStep ==
    ASSUME NEW m, IsSequence(m), NEW fields, NEW s, StructFormed(m, fields, s),
           NEW F \in SUBSET fields, NEW acc, Progress(m, s, F, acc),
           NEW f \in fields, f \notin F, f = "finalizers"
    PROVE  Progress(m, s, F \cup {f}, With(acc, f, CopiedFinalizers(acc.memory, acc.out[f])))
<1>1. IsSequence(acc.memory) /\ FieldFormed(acc.memory, f, acc.out[f])
  BY Untouched
<1>2. FieldCopied(acc.memory, f, acc.out[f], CopiedFinalizers(acc.memory, acc.out[f]))
  BY <1>1, FinalizersCopied
<1> QED  BY <1>2, StructStep

LEMMA CapacityStep ==
    ASSUME NEW m, IsSequence(m), NEW fields, NEW s, StructFormed(m, fields, s),
           NEW F \in SUBSET fields, NEW acc, Progress(m, s, F, acc),
           NEW f \in fields, f \notin F, f = "capacity"
    PROVE  Progress(m, s, F \cup {f}, With(acc, f, CopiedCapacity(acc.memory, acc.out[f])))
<1>1. IsSequence(acc.memory) /\ FieldFormed(acc.memory, f, acc.out[f])
  BY Untouched
<1>2. FieldCopied(acc.memory, f, acc.out[f], CopiedCapacity(acc.memory, acc.out[f]))
  BY <1>1, CapacityCopied
<1> QED  BY <1>2, StructStep

LEMMA MetaStep ==
    ASSUME NEW m, IsSequence(m), NEW fields, NEW s, StructFormed(m, fields, s),
           "meta" \in fields, "finalizers" \in fields
    PROVE  Progress(m, s, {"meta", "finalizers"}, CopiedMeta([memory |-> m, out |-> s]))
<1> DEFINE a0 == [memory |-> m, out |-> s]
           a1 == CopiedField(a0, "meta")
           a2 == With(a1, "finalizers", CopiedFinalizers(a1.memory, a1.out["finalizers"]))
           F1 == {} \cup {"meta"}
           F2 == F1 \cup {"finalizers"}
<1>0. Progress(m, s, {}, a0)
  BY Begin
<1>1. Progress(m, s, F1, a1)
  <2> HIDE DEF a0
  <2> QED  BY <1>0, FieldStep DEF Pointer
<1>2. Progress(m, s, F2, a2)
  <2>1. F1 \in SUBSET fields /\ "finalizers" \notin F1
    OBVIOUS
  <2> HIDE DEF a1, F1
  <2> QED  BY <1>1, <2>1, FinalizersStep
<1>3. F2 = {"meta", "finalizers"}
  OBVIOUS
<1>4. a2 = CopiedMeta(a0)
  BY DEF CopiedMeta
<1> QED  BY <1>2, <1>3, <1>4

LEMMA TenantCopied ==
    ASSUME NEW m, IsSequence(m), NEW s, StructFormed(m, TenantFields, s)
    PROVE  StructCopied(m, TenantFields, s, TenantDeepCopy([memory |-> m, out |-> s]))
<1> DEFINE a0 == [memory |-> m, out |-> s]
           a1 == CopiedMeta(a0)
           a2 == CopiedField(a1, "hard")
           a3 == CopiedField(a2, "suspension")
           a4 == CopiedField(a3, "credentialValidity")
           a5 == With(a4, "capacity", CopiedCapacity(a4.memory, a4.out["capacity"]))
           F1 == {"meta", "finalizers"}
           F2 == F1 \cup {"hard"}
           F3 == F2 \cup {"suspension"}
           F4 == F3 \cup {"credentialValidity"}
           F5 == F4 \cup {"capacity"}
<1>1. Progress(m, s, F1, a1)
  BY MetaStep DEF TenantFields
<1>2. Progress(m, s, F2, a2)
  <2>1. F1 \in SUBSET TenantFields /\ "hard" \notin F1
    BY DEF TenantFields
  <2> HIDE DEF a1, F1
  <2> QED  BY <1>1, <2>1, FieldStep DEF TenantFields, Pointer
<1>3. Progress(m, s, F3, a3)
  <2>1. F2 \in SUBSET TenantFields /\ "suspension" \notin F2
    BY DEF TenantFields
  <2> HIDE DEF a2, F2
  <2> QED  BY <1>2, <2>1, FieldStep DEF TenantFields, Pointer
<1>4. Progress(m, s, F4, a4)
  <2>1. F3 \in SUBSET TenantFields /\ "credentialValidity" \notin F3
    BY DEF TenantFields
  <2> HIDE DEF a3, F3
  <2> QED  BY <1>3, <2>1, FieldStep DEF TenantFields, Pointer
<1>5. Progress(m, s, F5, a5)
  <2>1. F4 \in SUBSET TenantFields /\ "capacity" \notin F4
    BY DEF TenantFields
  <2> HIDE DEF a4, F4
  <2> QED  BY <1>4, <2>1, CapacityStep DEF TenantFields
<1>6. /\ F5 \in SUBSET TenantFields
      /\ \A f \in TenantFields \ F5 : f \notin Pointer /\ f # "capacity" /\ f # "finalizers"
  BY DEF TenantFields, Pointer, Capacity
<1> HIDE DEF F5, a5
<1>7. StructCopied(m, TenantFields, s, a5)
  BY <1>5, <1>6, Done
<1> QED  BY <1>7 DEF TenantDeepCopy, TenantSpecDeepCopy, a5

LEMMA QuotaCopied ==
    ASSUME NEW m, IsSequence(m), NEW s, StructFormed(m, QuotaFields, s)
    PROVE  StructCopied(m, QuotaFields, s,
                        ClusterResourceQuotaDeepCopy([memory |-> m, out |-> s]))
<1> DEFINE a0 == [memory |-> m, out |-> s]
           a1 == CopiedMeta(a0)
           a2 == CopiedField(a1, "resourceQuotaSpec")
           a3 == CopiedField(a2, "namespaceSelector")
           a4 == CopiedField(a3, "namespaces")
           a5 == CopiedField(a4, "resourceQuotaStatus")
           F1 == {"meta", "finalizers"}
           F2 == F1 \cup {"resourceQuotaSpec"}
           F3 == F2 \cup {"namespaceSelector"}
           F4 == F3 \cup {"namespaces"}
           F5 == F4 \cup {"resourceQuotaStatus"}
<1>1. Progress(m, s, F1, a1)
  BY MetaStep DEF QuotaFields
<1>2. Progress(m, s, F2, a2)
  <2>1. F1 \in SUBSET QuotaFields /\ "resourceQuotaSpec" \notin F1
    BY DEF QuotaFields
  <2> HIDE DEF a1, F1
  <2> QED  BY <1>1, <2>1, FieldStep DEF QuotaFields, Pointer
<1>3. Progress(m, s, F3, a3)
  <2>1. F2 \in SUBSET QuotaFields /\ "namespaceSelector" \notin F2
    BY DEF QuotaFields
  <2> HIDE DEF a2, F2
  <2> QED  BY <1>2, <2>1, FieldStep DEF QuotaFields, Pointer
<1>4. Progress(m, s, F4, a4)
  <2>1. F3 \in SUBSET QuotaFields /\ "namespaces" \notin F3
    BY DEF QuotaFields
  <2> HIDE DEF a3, F3
  <2> QED  BY <1>3, <2>1, FieldStep DEF QuotaFields, Pointer
<1>5. Progress(m, s, F5, a5)
  <2>1. F4 \in SUBSET QuotaFields /\ "resourceQuotaStatus" \notin F4
    BY DEF QuotaFields
  <2> HIDE DEF a4, F4
  <2> QED  BY <1>4, <2>1, FieldStep DEF QuotaFields, Pointer
<1>6. F5 \in SUBSET QuotaFields /\ QuotaFields \ F5 = {}
  BY DEF QuotaFields
<1> HIDE DEF F5, a5
<1>7. StructCopied(m, QuotaFields, s, a5)
  BY <1>5, <1>6, Done
<1> QED  BY <1>7 DEF ClusterResourceQuotaDeepCopy, ClusterResourceQuotaStatusDeepCopy,
                     ClusterResourceQuotaSpecDeepCopy, a5

LEMMA ItemCopied ==
    ASSUME NEW m, IsSequence(m), NEW kind \in {"Tenant", "ClusterResourceQuota"},
           NEW s, StructFormed(m, Fields(kind), s)
    PROVE  StructCopied(m, Fields(kind), s, ItemDeepCopy(kind, [memory |-> m, out |-> s]))
<1>1. CASE kind = "Tenant"
  BY <1>1, TenantCopied DEF Fields, ItemDeepCopy
<1>2. CASE kind = "ClusterResourceQuota"
  BY <1>2, QuotaCopied DEF Fields, ItemDeepCopy
<1> QED  BY <1>1, <1>2

-----------------------------------------------------------------------------
(***************************************************************************)
(* Induction over the numbers, on the set of those that have a property:   *)
(* from there being a least number in every other set of numbers.          *)
(***************************************************************************)
LEMMA LessThan == OpToRel(<, Nat) = { p \in Nat \X Nat : p[1] < p[2] }
BY DEF OpToRel

LEMMA Least ==
    ASSUME NEW T, T \subseteq Nat, T # {}
    PROVE  \E k \in T : \A j \in T : k <= j
<1> DEFINE R == { p \in Nat \X Nat : p[1] < p[2] }
<1>1. IsWellFoundedOn(R, Nat)
  BY NatLessThanWellFounded, LessThan
<1>2. \A j, k \in Nat : j < k => <<j, k>> \in R
  OBVIOUS
<1> HIDE DEF R
<1>3. PICK k \in T : \A j \in T : <<j, k>> \notin R
  BY <1>1, WFMin
<1>4. ASSUME NEW j \in T
      PROVE  k <= j
  <2>1. j \in Nat /\ k \in Nat /\ <<j, k>> \notin R
    BY <1>3
  <2>2. ~(j < k)
    BY <2>1, <1>2
  <2> QED  BY <2>1, <2>2
<1> QED  BY <1>4

LEMMA Induction ==
    ASSUME NEW T, 0 \in T, \A n \in Nat : n \in T => n + 1 \in T
    PROVE  Nat \subseteq T
<1> SUFFICES ASSUME Nat \ T # {}  PROVE FALSE
  OBVIOUS
<1>1. PICK n \in Nat \ T : \A k \in Nat \ T : n <= k
  BY Least
<1>2. n # 0 /\ n - 1 \in Nat
  BY <1>1
<1>3. n - 1 \in T
  BY <1>1, <1>2
<1> QED  BY <1>2, <1>3

\* CopiedItems is the function its recursion describes.
LEMMA CopiedItemsIs ==
    ASSUME NEW kind, NEW m, NEW items, Len(items) \in Nat
    PROVE  /\ CopiedItems(kind, m, items)[0] = [memory |-> m, out |-> << >>]
           /\ \A i \in 1 .. Len(items) :
                CopiedItems(kind, m, items)[i] =
                  WithItem(kind, CopiedItems(kind, m, items)[i - 1], items[i])
<1> DEFINE none == [memory |-> m, out |-> << >>]
           Fits(g, n) == g = [i \in 0 .. n |->
                                IF i = 0 THEN none ELSE WithItem(kind, g[i - 1], items[i])]
           T == { n \in Nat : \E g : Fits(g, n) }
<1> HIDE DEF none
<1>1. 0 \in T
  <2>1. Fits([i \in 0 .. 0 |-> none], 0)
    OBVIOUS
  <2> QED  BY <2>1
<1>2. ASSUME NEW n \in Nat, n \in T
      PROVE  n + 1 \in T
  <2>1. PICK g : Fits(g, n)
    BY <1>2
  <2> DEFINE h == [i \in 0 .. n + 1 |->
                     IF i <= n THEN g[i] ELSE WithItem(kind, g[n], items[n + 1])]
  <2>2. ASSUME NEW i \in 0 .. n + 1
        PROVE  h[i] = IF i = 0 THEN none ELSE WithItem(kind, h[i - 1], items[i])
    <3>1. CASE i <= n
      <4>1. g[i] = IF i = 0 THEN none ELSE WithItem(kind, g[i - 1], items[i])
        BY <2>1, <3>1
      <4>2. h[i] = g[i] /\ (i # 0 => h[i - 1] = g[i - 1])
        BY <3>1
      <4> HIDE DEF h
      <4> QED  BY <4>1, <4>2
    <3>2. CASE i = n + 1
      <4>1. h[i] = WithItem(kind, g[n], items[i]) /\ h[i - 1] = g[n] /\ i # 0
        BY <3>2
      <4> HIDE DEF h
      <4> QED  BY <4>1
    <3> QED  BY <3>1, <3>2
  <2>3. Fits(h, n + 1)
    BY <2>2
  <2> HIDE DEF h, Fits
  <2> QED  BY <2>3
<1>3. Len(items) \in T
  <2> HIDE DEF T
  <2> QED  BY <1>1, <1>2, Induction
<1>4. PICK g : Fits(g, Len(items))
  BY <1>3
<1>5. CopiedItems(kind, m, items) = CHOOSE h : Fits(h, Len(items))
  BY DEF CopiedItems, none
<1>6. Fits(CopiedItems(kind, m, items), Len(items))
  BY <1>4, <1>5
<1> QED  BY <1>6 DEF none

-----------------------------------------------------------------------------
(***************************************************************************)
(* The copies of lists, item by item.                                      *)
(***************************************************************************)
LEMMA StructInGrown ==
    ASSUME NEW m, IsSequence(m), NEW m2, Grown(m, m2),
           NEW fields, NEW s, StructFormed(m, fields, s)
    PROVE  /\ StructFormed(m2, fields, s)
           /\ StructReading(m2, s) = StructReading(m, s)
           /\ StructValues(m2, s) = StructValues(m, s)
           /\ StructCells(m2, s) = StructCells(m, s)
<1>1. Len(m) \in Nat /\ Len(m2) \in Nat /\ Len(m) <= Len(m2)
  BY DEF IsSequence, Grown
<1>2. \A a \in StructCells(m, s) : m2[a] = m[a]
  BY <1>1, StructInMemory DEF Grown
<1>3. StructFormed(m2, fields, s) /\ StructValues(m2, s) = StructValues(m, s)
  BY <1>1, <1>2, StructFrame DEF StructCells
<1>4. StructReading(m2, s) = StructReading(m, s)
  BY <1>2, StructSaysTheSame
<1> QED  BY <1>3, <1>4 DEF StructCells

ItemsProgress(m, fields, items, n, acc) ==
    /\ Grown(m, acc.memory)
    /\ IsSequence(acc.out) /\ Len(acc.out) = n
    /\ \A i \in 1 .. n :
         /\ StructFormed(acc.memory, fields, acc.out[i])
         /\ StructReading(acc.memory, acc.out[i]) = StructReading(m, items[i])
         /\ StructCells(acc.memory, acc.out[i]) \subseteq Len(m) + 1 .. Len(acc.memory)
    /\ \A i \in 1 .. n : \A j \in 1 .. n :
         StructValues(acc.memory, acc.out[i]) \cap StructHolders(acc.out[j]) = {}

LEMMA ItemsStep ==
    ASSUME NEW m, IsSequence(m), NEW kind \in {"Tenant", "ClusterResourceQuota"},
           NEW items, NEW n \in Nat, NEW acc,
           ItemsProgress(m, Fields(kind), items, n, acc),
           StructFormed(m, Fields(kind), items[n + 1])
    PROVE  ItemsProgress(m, Fields(kind), items, n + 1, WithItem(kind, acc, items[n + 1]))
<1> DEFINE m1 == acc.memory
           x == items[n + 1]
           c == ItemDeepCopy(kind, [memory |-> m1, out |-> x])
           m2 == c.memory
           y == c.out
           fields == Fields(kind)
           next == WithItem(kind, acc, x)
           out == next.out
<1>1. Grown(m, m1) /\ IsSequence(m1) /\ IsSequence(acc.out) /\ Len(acc.out) = n
  BY DEF ItemsProgress, Grown
<1>2. next.memory = m2 /\ out = Append(acc.out, y)
  BY DEF WithItem
<1> HIDE DEF next, x, fields
<1>3. /\ IsSequence(out) /\ Len(out) = n + 1 /\ out[n + 1] = y
      /\ \A i \in 1 .. n : out[i] = acc.out[i]
  <2> HIDE DEF out, c, y
  <2> QED  BY <1>1, <1>2, Appended
<1>4. StructFormed(m1, fields, x) /\ StructReading(m1, x) = StructReading(m, x)
  BY <1>1, StructInGrown DEF fields, x
<1>5. StructCopied(m1, fields, x, c)
  <2> HIDE DEF m1
  <2> QED  BY <1>1, <1>4, ItemCopied DEF fields
<1> HIDE DEF c
<1>6. /\ Grown(m1, m2) /\ StructFormed(m2, fields, y)
      /\ StructReading(m2, y) = StructReading(m1, x)
      /\ StructCells(m2, y) \subseteq Len(m1) + 1 .. Len(m2)
      /\ StructValues(m2, y) \cap StructHolders(y) = {}
  BY <1>5, CellsApart DEF StructCopied
<1>7. Grown(m, m2)
  BY <1>1, <1>6, GrownTwice
<1>8. Len(m) \in Nat /\ Len(m1) \in Nat /\ Len(m2) \in Nat /\ Len(m) <= Len(m1) /\ Len(m1) <= Len(m2)
  BY <1>1, <1>6 DEF Grown, IsSequence
<1>9. ASSUME NEW i \in 1 .. n
      PROVE  /\ StructFormed(m2, fields, acc.out[i])
             /\ StructReading(m2, acc.out[i]) = StructReading(m, items[i])
             /\ StructValues(m2, acc.out[i]) = StructValues(m1, acc.out[i])
             /\ StructCells(m2, acc.out[i]) \subseteq Len(m) + 1 .. Len(m1)
  <2>1. /\ StructFormed(m1, fields, acc.out[i])
        /\ StructReading(m1, acc.out[i]) = StructReading(m, items[i])
        /\ StructCells(m1, acc.out[i]) \subseteq Len(m) + 1 .. Len(m1)
    BY DEF ItemsProgress, fields
  <2> QED  BY <1>1, <1>6, <2>1, StructInGrown
<1>10. \A i \in 1 .. n : \A j \in 1 .. n :
          StructValues(m1, acc.out[i]) \cap StructHolders(acc.out[j]) = {}
  BY DEF ItemsProgress
<1> HIDE DEF m1, m2, y, out
<1>11. ASSUME NEW i \in 1 .. n + 1
       PROVE  /\ StructFormed(m2, fields, out[i])
              /\ StructReading(m2, out[i]) = StructReading(m, items[i])
              /\ StructCells(m2, out[i]) \subseteq Len(m) + 1 .. Len(m2)
  <2>1. CASE i \in 1 .. n
    BY <1>3, <1>8, <1>9, <2>1
  <2>2. CASE i = n + 1
    BY <1>3, <1>4, <1>6, <1>8, <2>2 DEF x
  <2> QED  BY <2>1, <2>2
<1>12. ASSUME NEW i \in 1 .. n + 1, NEW j \in 1 .. n + 1
       PROVE  StructValues(m2, out[i]) \cap StructHolders(out[j]) = {}
  <2>0. \A k \in 1 .. n : /\ StructValues(m2, out[k]) \subseteq 1 .. Len(m1)
                          /\ StructHolders(out[k]) \subseteq 1 .. Len(m1)
    <3>1. Len(m) + 1 .. Len(m1) \subseteq 1 .. Len(m1)
      BY <1>8
    <3>2. \A k \in 1 .. n : StructCells(m2, out[k]) \subseteq 1 .. Len(m1)
      BY <1>3, <1>9, <3>1
    <3> QED  BY <3>2 DEF StructCells
  <2>00. /\ StructValues(m2, y) \subseteq Len(m1) + 1 .. Len(m2)
         /\ StructHolders(y) \subseteq Len(m1) + 1 .. Len(m2)
    BY <1>6 DEF StructCells
  <2>1. CASE i \in 1 .. n /\ j \in 1 .. n
    BY <1>3, <1>9, <1>10, <2>1
  <2>2. CASE i \in 1 .. n /\ j = n + 1
    BY <1>3, <1>8, <2>0, <2>00, <2>2
  <2>3. CASE i = n + 1 /\ j \in 1 .. n
    BY <1>3, <1>8, <2>0, <2>00, <2>3
  <2>4. CASE i = n + 1 /\ j = n + 1
    BY <1>3, <1>6, <2>4
  <2> QED  BY <2>1, <2>2, <2>3, <2>4
<1> QED  BY <1>2, <1>3, <1>7, <1>11, <1>12 DEF ItemsProgress, fields, next, x, out

LEMMA AllItems ==
    ASSUME NEW m, IsSequence(m), NEW kind \in {"Tenant", "ClusterResourceQuota"},
           NEW items, IsSequence(items),
           \A i \in 1 .. Len(items) : StructFormed(m, Fields(kind), items[i])
    PROVE  ItemsProgress(m, Fields(kind), items, Len(items),
                         CopiedItems(kind, m, items)[Len(items)])
<1> DEFINE copied == CopiedItems(kind, m, items)
           T == { n \in Nat : n <= Len(items) =>
                                ItemsProgress(m, Fields(kind), items, n, copied[n]) }
<1>0. Len(items) \in Nat
  BY DEF IsSequence
<1>1. /\ copied[0] = [memory |-> m, out |-> << >>]
      /\ \A i \in 1 .. Len(items) : copied[i] = WithItem(kind, copied[i - 1], items[i])
  BY <1>0, CopiedItemsIs
<1> HIDE DEF copied
<1>2. 0 \in T
  <2>1. Grown(m, m)
    BY DEF Grown, IsSequence
  <2>2. IsSequence(<< >>) /\ Len(<< >>) = 0
    BY DEF IsSequence
  <2> QED  BY <1>1, <2>1, <2>2 DEF ItemsProgress
<1>3. ASSUME NEW n \in Nat, n \in T
      PROVE  n + 1 \in T
  <2> SUFFICES ASSUME n + 1 <= Len(items)
               PROVE  ItemsProgress(m, Fields(kind), items, n + 1, copied[n + 1])
    OBVIOUS
  <2>1. ItemsProgress(m, Fields(kind), items, n, copied[n])
    BY <1>0, <1>3
  <2>2. copied[n + 1] = WithItem(kind, copied[n], items[n + 1]) /\ n + 1 \in 1 .. Len(items)
    BY <1>0, <1>1
  <2>3. StructFormed(m, Fields(kind), items[n + 1])
    BY <2>2
  <2> QED  BY <2>1, <2>2, <2>3, ItemsStep
<1>4. Len(items) \in T
  <2> HIDE DEF T
  <2> QED  BY <1>0, <1>2, <1>3, Induction
<1> QED  BY <1>0, <1>4 DEF copied

ItemsFresh(m, fields, v, m2, w) ==
    /\ ItemsFormed(m2, fields, w)
    /\ ItemsReading(m2, w) = ItemsReading(m, v)
    /\ ItemsCells(m2, w) \subseteq Len(m) + 1 .. Len(m2)
    /\ ItemsValues(m2, w) \cap ItemsHolders(m2, w) = {}

LEMMA ItemsCopied ==
    ASSUME NEW m, IsSequence(m), NEW kind \in {"Tenant", "ClusterResourceQuota"},
           NEW v, ItemsFormed(m, Fields(kind), v)
    PROVE  LET c == ItemsDeepCopy(kind, m, v)
           IN Grown(m, c.memory) /\ ItemsFresh(m, Fields(kind), v, c.memory, c.value)
<1> DEFINE c == ItemsDeepCopy(kind, m, v)
           fields == Fields(kind)
<1>0. Len(m) \in Nat
  BY DEF IsSequence
<1> HIDE DEF fields
<1>1. CASE v = Nil
  <2>1. c.memory = m /\ c.value = v
    BY <1>1 DEF ItemsDeepCopy, Shared
  <2>2. ItemsCells(m, v) = {}
    BY <1>1 DEF ItemsCells, ItemsValues, ItemsHolders
  <2>3. ItemsValues(m, v) \cap ItemsHolders(m, v) = {}
    BY <2>2 DEF ItemsCells
  <2>4. Grown(m, m)
    BY <1>0 DEF Grown
  <2> QED  BY <2>1, <2>2, <2>3, <2>4 DEF ItemsFresh, fields
<1>2. CASE v # Nil
  <2> DEFINE items == m[v]
             acc == CopiedItems(kind, m, items)[Len(items)]
             m1 == acc.memory
             out == acc.out
             m2 == c.memory
             w == c.value
             n == Len(items)
  <2>1. IsSequence(items) /\ \A i \in 1 .. Len(items) : StructFormed(m, fields, items[i])
    BY <1>2 DEF ItemsFormed, fields
  <2>2. ItemsProgress(m, fields, items, n, acc)
    <3> HIDE DEF items
    <3> QED  BY <2>1, AllItems DEF fields
  <2>3. m2 = Append(m1, out) /\ w = Len(m1) + 1
    BY <1>2 DEF ItemsDeepCopy, CopiedStruct, Fresh
  <2> HIDE DEF acc, c
  <2>4. /\ Grown(m, m1) /\ IsSequence(out) /\ Len(out) = n
        /\ \A i \in 1 .. n :
             /\ StructFormed(m1, fields, out[i])
             /\ StructReading(m1, out[i]) = StructReading(m, items[i])
             /\ StructCells(m1, out[i]) \subseteq Len(m) + 1 .. Len(m1)
        /\ \A i \in 1 .. n : \A j \in 1 .. n :
             StructValues(m1, out[i]) \cap StructHolders(out[j]) = {}
    BY <2>2 DEF ItemsProgress
  <2> HIDE DEF m1, out, m2, w, n, items
  <2>5. IsSequence(m1) /\ Len(m1) \in Nat /\ Len(m) <= Len(m1)
    BY <2>4 DEF Grown, IsSequence
  <2>6. Grown(m1, m2) /\ Len(m2) = Len(m1) + 1 /\ m2[w] = out /\ w # Nil
    BY <2>3, <2>5, GrownByOne, Appended DEF Nil
  <2>7. Grown(m, m2)
    BY <2>4, <2>6, GrownTwice
  <2>8. ASSUME NEW i \in 1 .. n
        PROVE  /\ StructFormed(m2, fields, out[i])
               /\ StructReading(m2, out[i]) = StructReading(m, items[i])
               /\ StructValues(m2, out[i]) = StructValues(m1, out[i])
               /\ StructCells(m2, out[i]) = StructCells(m1, out[i])
               /\ StructCells(m2, out[i]) \subseteq Len(m) + 1 .. Len(m1)
    BY <2>4, <2>5, <2>6, StructInGrown
  <2>9. ItemsFormed(m2, fields, w)
    BY <2>3, <2>4, <2>5, <2>6, <2>8 DEF ItemsFormed
  <2>10. ItemsReading(m2, w) = ItemsReading(m, v)
    <3>1. ItemsReading(m2, w) = <<[i \in 1 .. n |-> StructReading(m2, out[i])]>>
      BY <2>4, <2>6 DEF ItemsReading
    <3>2. ItemsReading(m, v) = <<[i \in 1 .. n |-> StructReading(m, items[i])]>>
      BY <1>2 DEF ItemsReading, items, n
    <3> QED  BY <2>8, <3>1, <3>2
  <2>11. /\ ItemsValues(m2, w) = UNION { StructValues(m1, out[i]) : i \in 1 .. n }
         /\ ItemsHolders(m2, w) = {w} \cup UNION { StructHolders(out[i]) : i \in 1 .. n }
    BY <2>4, <2>6, <2>8 DEF ItemsValues, ItemsHolders
  <2>12. \A i \in 1 .. n : /\ StructValues(m1, out[i]) \subseteq Len(m) + 1 .. Len(m1)
                           /\ StructHolders(out[i]) \subseteq Len(m) + 1 .. Len(m1)
    BY <2>4 DEF StructCells
  <2>13. w \in Len(m) + 1 .. Len(m2) /\ Len(m1) < w /\ Len(m2) \in Nat
    BY <1>0, <2>3, <2>5, <2>6
  <2>14. ItemsCells(m2, w) \subseteq Len(m) + 1 .. Len(m2)
    <3>1. Len(m) + 1 .. Len(m1) \subseteq Len(m) + 1 .. Len(m2)
      BY <1>0, <2>5, <2>6
    <3> QED  BY <2>11, <2>12, <2>13, <3>1 DEF ItemsCells
  <2>15. ItemsValues(m2, w) \cap ItemsHolders(m2, w) = {}
    <3>1. \A i \in 1 .. n : w \notin StructValues(m1, out[i])
      BY <1>0, <2>5, <2>12, <2>13
    <3> QED  BY <2>4, <2>11, <3>1
  <2> QED  BY <2>7, <2>9, <2>10, <2>14, <2>15 DEF ItemsFresh, c, m2, w, fields
<1> QED  BY <1>1, <1>2

-----------------------------------------------------------------------------
(***************************************************************************)
(* The copy of any object: it is well-formed, says the same, and shares    *)
(* no cell with anything there was; writing to a value of it changes       *)
(* nothing else of it.                                                     *)
(***************************************************************************)
Separate(m, kind, s) ==
    /\ Values(m, kind, s) \cap Holders(m, kind, s) = {}
    /\ kind \notin Lists => StructApart(m, s)

ObjectCopied(m, kind, s, c) ==
    /\ Grown(m, c.memory)
    /\ Formed(c.memory, kind, c.out)
    /\ Reading(c.memory, kind, c.out) = Reading(m, kind, s)
    /\ Cells(c.memory, kind, c.out) \subseteq Len(m) + 1 .. Len(c.memory)
    /\ Separate(c.memory, kind, c.out)

LEMMA ListCopied ==
    ASSUME NEW m, IsSequence(m), NEW kind \in Lists, NEW s, Formed(m, kind, s),
           NEW item, item = ItemKind(kind), NEW c,
           c = LET meta == CopiedField([memory |-> m, out |-> s], "meta")
               IN With(meta, "items", ItemsDeepCopy(item, meta.memory, meta.out.items))
    PROVE  ObjectCopied(m, kind, s, c)
<1> DEFINE fields == Fields(item)
           p == CopiedPointer(m, s.meta)
           m1 == p.memory
           a == p.value
           q == ItemsDeepCopy(item, m1, s.items)
           m2 == q.memory
           b == q.value
           t == c.out
<1>0. /\ ListFormed(m, fields, s) /\ Len(m) \in Nat
      /\ item \in {"Tenant", "ClusterResourceQuota"}
  BY DEF Formed, IsSequence, ItemKind
<1>1. FieldCopied(m, "meta", s.meta, p)
  <2>1. ASSUME NEW f \in Pointer  PROVE FieldFormed(m, f, s.meta)
    BY <1>0, OfPointer DEF ListFormed
  <2>2. \A f \in Pointer : FieldCopied(m, f, s.meta, p)
    BY <2>1, PointerCopied
  <2> QED  BY <2>2 DEF Pointer
<1>2. /\ c.memory = m2 /\ DOMAIN t = {"meta", "items"} /\ t = [f \in {"meta", "items"} |-> t[f]]
      /\ t.meta = a /\ t.items = b
  <2> HIDE DEF p, q
  <2>1. DOMAIN s = {"meta", "items"}
    BY <1>0 DEF ListFormed
  <2> QED  BY <2>1 DEF CopiedField, With, p, q
<1> HIDE DEF p, t
<1>3. Grown(m, m1) /\ IsSequence(m1) /\ Len(m1) \in Nat
  BY <1>1 DEF FieldCopied, Grown, IsSequence
<1>4. /\ a \in 0 .. Len(m1) /\ Pointed(m1, a) = Pointed(m, s.meta)
      /\ {a} \ {Nil} \subseteq Len(m) + 1 .. Len(m1)
  <2>1. FieldFresh(m, "meta", s.meta, m1, a)
    BY <1>1 DEF FieldCopied
  <2>2. \A f \in Pointer : FieldFresh(m, f, s.meta, m1, a) =>
          /\ a \in 0 .. Len(m1) /\ Pointed(m1, a) = Pointed(m, s.meta)
          /\ {a} \ {Nil} \subseteq Len(m) + 1 .. Len(m1)
    <3> SUFFICES ASSUME NEW f \in Pointer, FieldFresh(m, f, s.meta, m1, a)
                 PROVE  /\ a \in 0 .. Len(m1) /\ Pointed(m1, a) = Pointed(m, s.meta)
                        /\ {a} \ {Nil} \subseteq Len(m) + 1 .. Len(m1)
      OBVIOUS
    <3> HIDE DEF m1, a
    <3>1. FieldReading(m1, f, a) = Pointed(m1, a) /\ FieldValues(m1, f, a) = {a} \ {Nil}
      BY OfPointer
    <3>2. FieldReading(m, f, s.meta) = Pointed(m, s.meta)
      BY OfPointer
    <3>3. a \in 0 .. Len(m1)
      BY OfPointer DEF FieldFresh
    <3> QED  BY <3>1, <3>2, <3>3 DEF FieldFresh, FieldCells
  <2> QED  BY <2>1, <2>2 DEF Pointer
<1> HIDE DEF m1, a
<1>5. ItemsFormed(m1, fields, s.items) /\ ItemsReading(m1, s.items) = ItemsReading(m, s.items)
  <2>1. ItemsFormed(m, fields, s.items)
    BY <1>0 DEF ListFormed
  <2> HIDE DEF fields
  <2>2. \A x \in ItemsCells(m, s.items) : m1[x] = m[x]
    BY <1>0, <1>3, <2>1, ItemsInMemory DEF Grown
  <2>3. ItemsFormed(m1, fields, s.items)
    BY <1>0, <1>3, <2>1, <2>2, ItemsFrame DEF Grown, ItemsCells
  <2>4. ItemsReading(m1, s.items) = ItemsReading(m, s.items)
    BY <2>1, <2>2, ItemsSayTheSame
  <2> QED  BY <2>3, <2>4
<1>6. Grown(m1, m2) /\ ItemsFresh(m1, fields, s.items, m2, b)
  BY <1>0, <1>3, <1>5, ItemsCopied
<1> HIDE DEF q, m2, b
<1>7. Grown(m, m2)
  BY <1>3, <1>6, GrownTwice
<1>8. Len(m2) \in Nat /\ Len(m) <= Len(m1) /\ Len(m1) <= Len(m2)
  BY <1>3, <1>6 DEF Grown, IsSequence
<1>9. ItemsFormed(m2, fields, b) /\ ItemsReading(m2, b) = ItemsReading(m, s.items)
  BY <1>5, <1>6 DEF ItemsFresh
<1>10. Pointed(m2, a) = Pointed(m, s.meta) /\ a \in 0 .. Len(m2)
  BY <1>3, <1>4, <1>6, <1>8 DEF Pointed, Grown, Nil
<1>11. Formed(m2, kind, t)
  BY <1>2, <1>9, <1>10 DEF Formed, ListFormed
<1>12. Reading(m2, kind, t) = Reading(m, kind, s)
  BY <1>2, <1>9, <1>10 DEF Reading
<1>13. /\ Values(m2, kind, t) = ({a} \ {Nil}) \cup ItemsValues(m2, b)
       /\ Holders(m2, kind, t) = ItemsHolders(m2, b)
  BY <1>2 DEF Values, Holders
<1>14. /\ ItemsCells(m2, b) \subseteq Len(m1) + 1 .. Len(m2)
       /\ ItemsValues(m2, b) \cap ItemsHolders(m2, b) = {}
  BY <1>6 DEF ItemsFresh
<1>15. Cells(m2, kind, t) \subseteq Len(m) + 1 .. Len(m2)
  <2>1. /\ Len(m1) + 1 .. Len(m2) \subseteq Len(m) + 1 .. Len(m2)
        /\ Len(m) + 1 .. Len(m1) \subseteq Len(m) + 1 .. Len(m2)
    BY <1>0, <1>3, <1>8
  <2> QED  BY <1>4, <1>13, <1>14, <2>1 DEF Cells, ItemsCells
<1>16. Separate(m2, kind, t)
  <2>1. a \notin ItemsHolders(m2, b)
    <3>1. a \notin Len(m1) + 1 .. Len(m2)
      BY <1>3, <1>4, <1>8
    <3> QED  BY <1>14, <3>1 DEF ItemsCells
  <2> QED  BY <1>13, <1>14, <2>1 DEF Separate
<1> QED  BY <1>2, <1>7, <1>11, <1>12, <1>15, <1>16 DEF ObjectCopied, t

LEMMA CopiedWhole ==
    ASSUME NEW m, IsSequence(m), NEW kind \in Kinds, NEW s, Formed(m, kind, s)
    PROVE  ObjectCopied(m, kind, s, DeepCopyObject(kind, [memory |-> m, out |-> s]))
<1>1. CASE kind \in Lists
  <2>1. CASE kind = "TenantList"
    <3>1. DeepCopyObject(kind, [memory |-> m, out |-> s]) =
            TenantListDeepCopy([memory |-> m, out |-> s])
      BY <2>1 DEF DeepCopyObject
    <3>2. ItemKind(kind) = "Tenant"
      BY <2>1 DEF ItemKind
    <3> QED  BY <1>1, <3>1, <3>2, ListCopied DEF TenantListDeepCopy
  <2>2. CASE kind = "ClusterResourceQuotaList"
    <3>1. DeepCopyObject(kind, [memory |-> m, out |-> s]) =
            ClusterResourceQuotaListDeepCopy([memory |-> m, out |-> s])
      BY <2>2 DEF DeepCopyObject
    <3>2. ItemKind(kind) = "ClusterResourceQuota"
      BY <2>2 DEF ItemKind
    <3> QED  BY <1>1, <3>1, <3>2, ListCopied DEF ClusterResourceQuotaListDeepCopy
  <2> QED  BY <1>1, <2>1, <2>2 DEF Lists
<1>2. CASE kind \notin Lists
  <2> DEFINE c == DeepCopyObject(kind, [memory |-> m, out |-> s])
  <2>1. kind \in {"Tenant", "ClusterResourceQuota"}
    BY <1>2 DEF Kinds
  <2>2. c = ItemDeepCopy(kind, [memory |-> m, out |-> s])
    BY <2>1 DEF DeepCopyObject, ItemDeepCopy
  <2>3. StructFormed(m, Fields(kind), s)
    BY <1>2 DEF Formed
  <2>4. StructCopied(m, Fields(kind), s, c)
    BY <2>1, <2>2, <2>3, ItemCopied
  <2> HIDE DEF c
  <2>5. StructValues(c.memory, c.out) \cap StructHolders(c.out) = {}
    BY <2>4, CellsApart DEF StructCopied
  <2> QED  BY <1>2, <2>4, <2>5 DEF StructCopied, ObjectCopied, Formed, Reading, Cells, Values,
                                   Holders, Separate, StructCells, c
<1> QED  BY <1>1, <1>2

-----------------------------------------------------------------------------
(***************************************************************************)
(* RemoveString, and append, on finalizers that are on the list once.      *)
(***************************************************************************)
\* Rounds is the function its recursion describes.
LEMMA RoundsIs ==
    ASSUME NEW array, NEW len \in Nat, NEW x
    PROVE  /\ Rounds(array, len, x)[0] = [array |-> array, len |-> len, panics |-> FALSE]
           /\ \A i \in 1 .. len :
                Rounds(array, len, x)[i] = Removed(Rounds(array, len, x)[i - 1], i, x)
<1> DEFINE start == [array |-> array, len |-> len, panics |-> FALSE]
           Fits(g, n) == g = [i \in 0 .. n |-> IF i = 0 THEN start ELSE Removed(g[i - 1], i, x)]
           T == { n \in Nat : \E g : Fits(g, n) }
<1> HIDE DEF start
<1>1. 0 \in T
  <2>1. Fits([i \in 0 .. 0 |-> start], 0)
    OBVIOUS
  <2> QED  BY <2>1
<1>2. ASSUME NEW n \in Nat, n \in T
      PROVE  n + 1 \in T
  <2>1. PICK g : Fits(g, n)
    BY <1>2
  <2> DEFINE h == [i \in 0 .. n + 1 |-> IF i <= n THEN g[i] ELSE Removed(g[n], i, x)]
  <2>2. ASSUME NEW i \in 0 .. n + 1
        PROVE  h[i] = IF i = 0 THEN start ELSE Removed(h[i - 1], i, x)
    <3>1. CASE i <= n
      <4>1. g[i] = IF i = 0 THEN start ELSE Removed(g[i - 1], i, x)
        BY <2>1, <3>1
      <4>2. h[i] = g[i] /\ (i # 0 => h[i - 1] = g[i - 1])
        BY <3>1
      <4> HIDE DEF h
      <4> QED  BY <4>1, <4>2
    <3>2. CASE i = n + 1
      <4>1. h[i] = Removed(g[n], i, x) /\ h[i - 1] = g[n] /\ i # 0
        BY <3>2
      <4> HIDE DEF h
      <4> QED  BY <4>1
    <3> QED  BY <3>1, <3>2
  <2>3. Fits(h, n + 1)
    BY <2>2
  <2> HIDE DEF h, Fits
  <2> QED  BY <2>3
<1>3. len \in T
  <2> HIDE DEF T
  <2> QED  BY <1>1, <1>2, Induction
<1>4. PICK g : Fits(g, len)
  BY <1>3
<1>5. Rounds(array, len, x) = CHOOSE h : Fits(h, len)
  BY DEF Rounds, start
<1> DEFINE R == Rounds(array, len, x)
<1>6. Fits(R, len)
  BY <1>4, <1>5
<1> HIDE DEF R
<1>7. \A i \in 0 .. len : R[i] = IF i = 0 THEN start ELSE Removed(R[i - 1], i, x)
  BY <1>6
<1>8. R[0] = start /\ \A i \in 1 .. len : R[i] = Removed(R[i - 1], i, x)
  BY <1>7
<1> QED  BY <1>8 DEF start, R

\* The array after its k-th element has been cut out of a slice of len.
Cut(array, len, k) ==
    [j \in DOMAIN array |-> IF j \in k .. len - 1 THEN array[j + 1] ELSE array[j]]

LEMMA RemoveFound ==
    ASSUME NEW array, IsSequence(array), NEW len \in Nat, len <= Len(array), NEW x,
           Distinct(array, len),
           NEW k \in 1 .. len, array[k] = x
    PROVE  RemoveString(array, len, x) =
             [panics |-> FALSE, len |-> len - 1, array |-> Cut(array, len, k)]
<1> DEFINE R == Rounds(array, len, x)
           start == [array |-> array, len |-> len, panics |-> FALSE]
           end == [panics |-> FALSE, len |-> len - 1, array |-> Cut(array, len, k)]
           T == { n \in Nat : n <= len => R[n] = IF n < k THEN start ELSE end }
<1>0. R[0] = start /\ \A i \in 1 .. len : R[i] = Removed(R[i - 1], i, x)
  BY RoundsIs
<1>00. Len(array) \in Nat /\ DOMAIN array = 1 .. Len(array)
  BY DEF IsSequence
<1> HIDE DEF R
<1>1. 0 \in T
  BY <1>0
<1>2. ASSUME NEW n \in Nat, n \in T
      PROVE  n + 1 \in T
  <2> SUFFICES ASSUME n + 1 <= len
               PROVE  R[n + 1] = IF n + 1 < k THEN start ELSE end
    OBVIOUS
  <2>1. R[n] = (IF n < k THEN start ELSE end) /\ R[n + 1] = Removed(R[n], n + 1, x)
    BY <1>0, <1>2
  <2>2. CASE n + 1 < k
    <3>1. array[n + 1] # x /\ n < k
      BY <2>2 DEF Distinct
    <3> QED  BY <2>1, <2>2, <3>1 DEF Removed
  <2>3. CASE n + 1 = k
    <3>1. R[n] = start /\ start.array[n + 1] = x /\ ~(n + 1 > start.len)
      BY <2>1, <2>3
    <3>a. start.panics = FALSE /\ start.array[k] = x /\ ~(k > start.len)
      OBVIOUS
    <3>b. R[n + 1] = Removed(start, k, x)
      BY <2>1, <2>3, <3>1
    <3>2. R[n + 1] = [panics |-> FALSE, len |-> start.len - 1,
                      array |-> [j \in DOMAIN start.array |->
                                   IF j \in k .. start.len - 1
                                   THEN start.array[j + 1] ELSE start.array[j]]]
      <4> HIDE DEF start
      <4> QED  BY <3>a, <3>b DEF Removed
    <3>3. R[n + 1] = end
      BY <3>2 DEF Cut
    <3> QED  BY <2>3, <3>3
  <2>4. CASE n + 1 > k
    <3>1. R[n] = end /\ n + 1 \in DOMAIN array
      BY <1>00, <2>1, <2>4
    <3>2. end.array[n + 1] = IF n + 1 \in k .. len - 1 THEN array[n + 2] ELSE array[n + 1]
      BY <3>1 DEF Cut
    <3>3. end.array[n + 1] # x
      <4>1. CASE n + 1 \in k .. len - 1
        <5>1. n + 2 \in 1 .. len /\ n + 2 # k
          BY <2>4, <4>1
        <5> QED  BY <3>2, <4>1, <5>1 DEF Distinct
      <4>2. CASE n + 1 \notin k .. len - 1
        <5>1. n + 1 \in 1 .. len /\ n + 1 # k
          BY <2>4
        <5> QED  BY <3>2, <4>2, <5>1 DEF Distinct
      <4> QED  BY <4>1, <4>2
    <3>4. R[n + 1] = end
      BY <2>1, <3>1, <3>3 DEF Removed
    <3> QED  BY <2>4, <3>4
  <2> QED  BY <2>2, <2>3, <2>4
<1>3. len \in T
  <2> HIDE DEF T
  <2> QED  BY <1>1, <1>2, Induction
<1>4. R[len] = end
  BY <1>3
<1> QED  BY <1>4 DEF RemoveString, R

LEMMA RemoveNone ==
    ASSUME NEW array, NEW len \in Nat, NEW x, \A i \in 1 .. len : array[i] # x
    PROVE  RemoveString(array, len, x) = [array |-> array, len |-> len, panics |-> FALSE]
<1> DEFINE R == Rounds(array, len, x)
           start == [array |-> array, len |-> len, panics |-> FALSE]
           T == { n \in Nat : n <= len => R[n] = start }
<1>0. R[0] = start /\ \A i \in 1 .. len : R[i] = Removed(R[i - 1], i, x)
  BY RoundsIs
<1> HIDE DEF R
<1>1. 0 \in T
  BY <1>0
<1>2. ASSUME NEW n \in Nat, n \in T
      PROVE  n + 1 \in T
  <2> SUFFICES ASSUME n + 1 <= len
               PROVE  R[n + 1] = start
    OBVIOUS
  <2>1. R[n] = start /\ R[n + 1] = Removed(R[n], n + 1, x) /\ array[n + 1] # x
    BY <1>0, <1>2
  <2> QED  BY <2>1 DEF Removed
<1>3. len \in T
  <2> HIDE DEF T
  <2> QED  BY <1>1, <1>2, Induction
<1>4. R[len] = start
  BY <1>3
<1> QED  BY <1>4 DEF RemoveString, R

\* The finalizers h of memory m are released from x: h2 of m2.
Releases(m, h, x, r, m2, h2) ==
    /\ h.array # Nil /\ r = RemoveString(m[h.array], h.len, x)
    /\ Wrote(m, h.array, r.array, m2) /\ IsSlice(h2, h.array, r.len)

InRange(r) == r.panics = FALSE

LEMMA Released ==
    ASSUME NEW m, IsSequence(m), NEW h, FinalizersFormed(m, h), NEW x,
           NEW r, NEW m2, NEW h2, Releases(m, h, x, r, m2, h2)
    PROVE  /\ InRange(r)
           /\ FinalizersFormed(m2, h2)
           /\ Held(m2, h2) = Without(Held(m, h), x)
<1> DEFINE array == m[h.array]
           len == h.len
           held == Held(m, h)
<1> USE DEF Releases
<1>0. /\ h.array \in 1 .. Len(m) /\ len \in Nat /\ len <= Len(array) /\ IsSequence(array)
      /\ Distinct(array, len) /\ Wrote(m, h.array, r.array, m2) /\ h.array # Nil
      /\ Len(m) \in Nat /\ Len(array) \in Nat /\ DOMAIN array = 1 .. Len(array)
  BY DEF FinalizersFormed, Nil, IsSequence
<1>1. Len(m2) = Len(m) /\ m2[h.array] = r.array
  BY <1>0, Overwritten
<1>a. r = RemoveString(array, len, x) /\ held = SubSeq(array, 1, len)
  BY DEF Held
<1>b. h2.array = h.array /\ h2.len = r.len /\ (r.len \in Nat => h2 \in [array : 0 .. Len(m), len : Nat])
  BY <1>0 DEF IsSlice
<1>2. held = [i \in 1 .. len |-> array[i]] /\ Len(held) = len /\ DOMAIN held = 1 .. len
  <2>1. held = SubSeq(array, 1, len)
    BY DEF Held
  <2> HIDE DEF array, len, held
  <2> QED  BY <1>0, <2>1, SliceOf
<1> HIDE DEF array, len, held, Releases
<1>3. CASE \E k \in 1 .. len : array[k] = x
  <2>1. PICK k \in 1 .. len : array[k] = x
    BY <1>3
  <2>2. r.panics = FALSE /\ r.len = len - 1 /\ r.array = Cut(array, len, k)
    <3>1. RemoveString(array, len, x) =
            [panics |-> FALSE, len |-> len - 1, array |-> Cut(array, len, k)]
      BY <1>0, <2>1, RemoveFound
    <3> QED  BY <1>a, <3>1
  <2>3. IsSequence(r.array) /\ Len(r.array) = Len(array)
    <3>1. r.array = [j \in 1 .. Len(array) |->
                       IF j \in k .. len - 1 THEN array[j + 1] ELSE array[j]]
      BY <1>0, <2>2 DEF Cut
    <3> DEFINE S == { r.array[j] : j \in 1 .. Len(array) }
    <3>2. \A j \in 1 .. Len(array) : r.array[j] \in S
      OBVIOUS
    <3> HIDE DEF S
    <3>3. r.array \in [1 .. Len(array) -> S]
      BY <3>1, <3>2
    <3> DEFINE u == r.array
    <3> HIDE DEF u
    <3>4. u \in [1 .. Len(array) -> S] /\ Len(array) \in Nat
      BY <1>0, <3>3 DEF u
    <3>5. u \in Seq(S) /\ Len(u) = Len(array)
      BY <3>4
    <3> QED  BY <3>5, SeqIsSequence DEF u
  <2>4. \A j \in 1 .. len - 1 : r.array[j] = IF j < k THEN array[j] ELSE array[j + 1]
    BY <1>0, <2>1, <2>2 DEF Cut
  <2>5. Distinct(r.array, len - 1)
    <3> SUFFICES ASSUME NEW i \in 1 .. len - 1, NEW j \in 1 .. len - 1, r.array[i] = r.array[j]
                 PROVE  i = j
      BY DEF Distinct
    <3> DEFINE at(y) == IF y < k THEN y ELSE y + 1
    <3>1. at(i) \in 1 .. len /\ at(j) \in 1 .. len /\ array[at(i)] = array[at(j)]
      BY <1>0, <2>1, <2>4
    <3>2. at(i) = at(j)
      BY <1>0, <3>1 DEF Distinct
    <3> QED  BY <1>0, <2>1, <3>2
  <2>6. len - 1 \in Nat /\ len - 1 <= Len(r.array)
    BY <1>0, <2>1, <2>3
  <2>7. FinalizersFormed(m2, h2)
    BY <1>0, <1>1, <1>b, <2>2, <2>3, <2>5, <2>6 DEF FinalizersFormed
  <2>8. Held(m2, h2) = [j \in 1 .. len - 1 |-> r.array[j]]
    <3>1. Held(m2, h2) = SubSeq(r.array, 1, len - 1)
      BY <1>0, <1>1, <1>b, <2>2 DEF Held
    <3> QED  BY <2>3, <2>6, <3>1, SliceOf
  <2>9. Without(held, x) = [j \in 1 .. len - 1 |-> IF j < k THEN held[j] ELSE held[j + 1]]
    <3>1. held[k] = x /\ \A j \in DOMAIN held : held[j] = x => j = k
      BY <1>0, <1>2, <2>1 DEF Distinct
    <3>2. k = CHOOSE j \in DOMAIN held : held[j] = x
      BY <1>2, <2>1, <3>1
    <3> DEFINE K == CHOOSE j \in DOMAIN held : held[j] = x
    <3>3. \E j \in DOMAIN held : held[j] = x
      BY <1>2, <2>1, <3>1
    <3>4. Without(held, x) = [j \in 1 .. Len(held) - 1 |-> IF j < K THEN held[j] ELSE held[j + 1]]
      BY <3>3 DEF Without
    <3> HIDE DEF K
    <3> QED  BY <1>2, <3>2, <3>4 DEF K
  <2>10. \A j \in 1 .. len - 1 : r.array[j] = IF j < k THEN held[j] ELSE held[j + 1]
    BY <1>0, <1>2, <2>1, <2>4
  <2> QED  BY <2>2, <2>7, <2>8, <2>9, <2>10 DEF held, InRange
<1>4. CASE \A k \in 1 .. len : array[k] # x
  <2>1. r.panics = FALSE /\ r.len = len /\ r.array = array
    <3>1. RemoveString(array, len, x) = [array |-> array, len |-> len, panics |-> FALSE]
      BY <1>0, <1>4, RemoveNone
    <3> QED  BY <1>a, <3>1
  <2>2. FinalizersFormed(m2, h2)
    BY <1>0, <1>1, <1>b, <2>1 DEF FinalizersFormed
  <2>3. Held(m2, h2) = held
    BY <1>0, <1>1, <1>a, <1>b, <2>1 DEF Held
  <2>4. Without(held, x) = held
    BY <1>2, <1>4 DEF Without
  <2> QED  BY <2>1, <2>2, <2>3, <2>4 DEF held, InRange
<1> QED  BY <1>3, <1>4

LEMMA AppendedIs ==
    ASSUME NEW s, IsSequence(s), NEW x, NEW t, IsSequence(t), Len(t) = Len(s) + 1,
           \A i \in 1 .. Len(s) : t[i] = s[i], t[Len(s) + 1] = x
    PROVE  Append(s, x) = t
<1>1. /\ IsSequence(Append(s, x)) /\ Len(Append(s, x)) = Len(s) + 1
      /\ \A i \in 1 .. Len(s) : Append(s, x)[i] = s[i]
      /\ Append(s, x)[Len(s) + 1] = x
  BY Appended
<1> DEFINE u == Append(s, x)
<1> HIDE DEF u
<1>2. \A i \in 1 .. Len(s) + 1 : u[i] = t[i]
  BY <1>1 DEF u, IsSequence
<1>3. u = [i \in 1 .. Len(s) + 1 |-> u[i]] /\ t = [i \in 1 .. Len(s) + 1 |-> t[i]]
  BY <1>1 DEF u, IsSequence
<1>4. u = t
  BY <1>2, <1>3
<1> QED  BY <1>4 DEF u

\* x is appended to the finalizers h of memory m where there is room.
Appends(m, h, x, next, m2, h2) ==
    /\ h.array # Nil /\ h.len < Len(m[h.array])
    /\ Wrote(m[h.array], h.len + 1, x, next) /\ Wrote(m, h.array, next, m2)
    /\ IsSlice(h2, h.array, h.len + 1)

LEMMA AppendedInPlace ==
    ASSUME NEW m, IsSequence(m), NEW h, FinalizersFormed(m, h), NEW x,
           ~ContainString(Held(m, h), x),
           NEW next, NEW m2, NEW h2, Appends(m, h, x, next, m2, h2)
    PROVE  /\ FinalizersFormed(m2, h2)
           /\ Held(m2, h2) = Append(Held(m, h), x)
<1> DEFINE array == m[h.array]
           len == h.len
           held == Held(m, h)
<1> USE DEF Appends
<1>0. /\ h.array \in 1 .. Len(m) /\ len \in Nat /\ len < Len(array) /\ IsSequence(array)
      /\ Distinct(array, len)
      /\ Len(m) \in Nat /\ Len(array) \in Nat /\ DOMAIN array = 1 .. Len(array)
      /\ DOMAIN m = 1 .. Len(m)
  BY DEF FinalizersFormed, Nil, IsSequence
<1>a. /\ h2.array = h.array /\ h2.len = len + 1
      /\ len + 1 \in Nat => h2 \in [array : 0 .. Len(m), len : Nat]
  BY <1>0 DEF IsSlice
<1>2. Len(m2) = Len(m) /\ m2[h.array] = next
  BY <1>0, Overwritten
<1>3. /\ IsSequence(next) /\ Len(next) = Len(array) /\ next[len + 1] = x
      /\ \A i \in 1 .. len : next[i] = array[i]
  <2>1. len + 1 \in 1 .. Len(array)
    BY <1>0
  <2>2. \A i \in 1 .. len : i \in 1 .. Len(array) /\ i # len + 1
    BY <1>0
  <2>3. Wrote(array, len + 1, x, next)
    OBVIOUS
  <2> HIDE DEF array, len, Appends
  <2> QED  BY <1>0, <2>1, <2>2, <2>3, Overwritten
<1>4. /\ held = SubSeq(array, 1, len) /\ IsSequence(held) /\ Len(held) = len
      /\ \A i \in 1 .. len : held[i] = array[i]
  <2>1. held = SubSeq(array, 1, len)
    BY DEF Held
  <2> HIDE DEF array, len, held
  <2> QED  BY <1>0, <2>1, SliceOf
<1> HIDE DEF array, len, held, Appends
<1>5. \A i \in 1 .. len : array[i] # x
  BY <1>4 DEF ContainString, held, IsSequence
<1>6. Distinct(next, len + 1)
  BY <1>0, <1>3, <1>5 DEF Distinct
<1>7. len + 1 \in Nat /\ len + 1 <= Len(next)
  BY <1>0, <1>3
<1>8. FinalizersFormed(m2, h2)
  BY <1>0, <1>2, <1>3, <1>6, <1>7, <1>a DEF FinalizersFormed
<1>9. Held(m2, h2) = SubSeq(next, 1, len + 1)
  BY <1>0, <1>2, <1>a DEF Held, Nil
<1>10. Append(held, x) = SubSeq(next, 1, len + 1)
  <2> DEFINE t == SubSeq(next, 1, len + 1)
  <2>1. IsSequence(t) /\ Len(t) = len + 1 /\ \A i \in 1 .. len + 1 : t[i] = next[i]
    BY <1>3, <1>7, SliceOf
  <2> HIDE DEF t
  <2>2. /\ \A i \in 1 .. Len(held) : t[i] = held[i]
        /\ t[Len(held) + 1] = x /\ Len(t) = Len(held) + 1
    <3>1. \A i \in 1 .. len : i \in 1 .. len + 1
      BY <1>0
    <3>2. len + 1 \in 1 .. len + 1
      BY <1>0
    <3> QED  BY <1>3, <1>4, <2>1, <3>1, <3>2
  <2>3. Append(held, x) = t
    BY <1>4, <2>1, <2>2, AppendedIs
  <2> QED  BY <2>3 DEF t
<1> QED  BY <1>8, <1>9, <1>10 DEF held

\* ... and in new memory.
AppendsElsewhere(m, h, x, m2, h2) ==
    /\ m2 = Append(m, Append(Held(m, h), x))
    /\ h2 = [array |-> Len(m) + 1, len |-> Len(Held(m, h)) + 1]

LEMMA AppendedElsewhere ==
    ASSUME NEW m, IsSequence(m), NEW h, FinalizersFormed(m, h), NEW x,
           ~ContainString(Held(m, h), x),
           NEW m2, NEW h2, AppendsElsewhere(m, h, x, m2, h2)
    PROVE  /\ FinalizersFormed(m2, h2)
           /\ Held(m2, h2) = Append(Held(m, h), x)
<1> DEFINE held == Held(m, h)
           next == Append(held, x)
           len == Len(held)
<1>0. Len(m) \in Nat
  BY DEF IsSequence
<1>1. /\ IsSequence(held)
      /\ Distinct(held, len)
  <2>1. CASE h.array = Nil
    <3>1. held = << >>
      BY <2>1 DEF Held
    <3> QED  BY <3>1 DEF IsSequence, Distinct
  <2>2. CASE h.array # Nil
    <3>1. held = SubSeq(m[h.array], 1, h.len)
      BY <2>2 DEF Held
    <3> HIDE DEF held
    <3>2. /\ IsSequence(m[h.array]) /\ h.len \in Nat /\ h.len <= Len(m[h.array])
          /\ Distinct(m[h.array], h.len)
      BY <2>2 DEF FinalizersFormed
    <3>3. /\ IsSequence(held) /\ Len(held) = h.len
          /\ \A i \in 1 .. h.len : held[i] = m[h.array][i]
      BY <3>1, <3>2, SliceOf
    <3> QED  BY <3>2, <3>3 DEF Distinct
  <2> QED  BY <2>1, <2>2
<1>b. /\ h2.array = Len(m) + 1 /\ h2.len = len + 1
      /\ h2 = [array |-> Len(m) + 1, len |-> len + 1]
  BY DEF AppendsElsewhere
<1> HIDE DEF held
<1>c. len \in Nat
  BY <1>1 DEF IsSequence
<1>2. /\ IsSequence(next) /\ Len(next) = len + 1 /\ next[len + 1] = x /\ len \in Nat
      /\ \A i \in 1 .. len : next[i] = held[i]
  BY <1>1, <1>c, Appended
<1>3. Len(m2) = Len(m) + 1 /\ m2[Len(m) + 1] = next
  BY Appended DEF held, AppendsElsewhere
<1> HIDE DEF next
<1>4. \A i \in 1 .. len : held[i] # x
  BY <1>1 DEF ContainString, held, IsSequence
<1> HIDE DEF len
<1>5. Distinct(next, len + 1)
  BY <1>1, <1>2, <1>4 DEF Distinct
<1>d. len \in Nat
  BY <1>c DEF len
<1>6. len + 1 \in Nat /\ len + 1 <= Len(next) /\ h2 \in [array : 0 .. Len(m2), len : Nat]
  BY <1>0, <1>2, <1>3, <1>b, <1>d
<1>7. FinalizersFormed(m2, h2)
  BY <1>2, <1>3, <1>5, <1>6, <1>b DEF FinalizersFormed
<1>8. Held(m2, h2) = SubSeq(next, 1, len + 1)
  <2>1. h2.array # Nil
    BY <1>0, <1>b DEF Nil
  <2>2. Held(m2, h2) = SubSeq(m2[h2.array], 1, h2.len)
    BY <2>1 DEF Held
  <2> QED  BY <1>3, <1>b, <2>2
<1>9. SubSeq(next, 1, len + 1) = next
  BY <1>2, <1>6, SliceOf DEF IsSequence
<1> QED  BY <1>7, <1>8, <1>9 DEF next, held

-----------------------------------------------------------------------------
(***************************************************************************)
(* The cached object and the copies of it.                                 *)
(***************************************************************************)
CopyInv(i) ==
    /\ Formed(memory, source.kind, copies[i])
    /\ Reading(memory, source.kind, copies[i]) = wanted[i]
    /\ Separate(memory, source.kind, copies[i])
    /\ Cells(memory, source.kind, copies[i]) \cap Cells(memory, source.kind, source.root) = {}

CopiesInv ==
    /\ source.kind \in Kinds /\ IsSequence(memory)
    /\ Formed(memory, source.kind, source.root)
    /\ CachedIsReadOnly
    /\ IsSequence(copies) /\ IsSequence(wanted) /\ Len(wanted) = Len(copies)
    /\ \A i \in 1 .. Len(copies) : CopyInv(i)
    /\ \A i \in 1 .. Len(copies) : \A j \in 1 .. Len(copies) :
         i # j => Cells(memory, source.kind, copies[i]) \cap Cells(memory, source.kind, copies[j]) = {}

LEMMA CopiesInvInit == CopiesInit => CopiesInv
<1> SUFFICES ASSUME CopiesInit  PROVE CopiesInv
  OBVIOUS
<1>1. PICK c \in Cached :
        /\ source = [kind |-> c.kind, root |-> c.root, said |-> Reading(c.memory, c.kind, c.root)]
        /\ memory = c.memory /\ copies = << >> /\ wanted = << >>
  BY DEF CopiesInit
<1>2. c.kind \in Kinds /\ IsSequence(c.memory) /\ Formed(c.memory, c.kind, c.root)
  BY CachedAssumption
<1>3. IsSequence(<< >>) /\ Len(<< >>) = 0
  BY DEF IsSequence
<1>4. /\ source.kind = c.kind /\ source.root = c.root
      /\ source.said = Reading(c.memory, c.kind, c.root)
  BY <1>1
<1> QED  BY <1>1, <1>2, <1>3, <1>4 DEF CopiesInv, CachedIsReadOnly

\* What was separate stays so where its holders do not change.
LEMMA SeparateFrame ==
    ASSUME NEW m, NEW m2, Len(m) \in Nat, Len(m2) \in Nat, Len(m) <= Len(m2),
           NEW kind, NEW s, Formed(m, kind, s), Separate(m, kind, s),
           \A a \in Holders(m, kind, s) : m2[a] = m[a]
    PROVE  Separate(m2, kind, s)
<1>1. Values(m2, kind, s) \cap Holders(m2, kind, s) = {}
  BY Frame DEF Separate
<1>2. CASE kind \in Lists
  BY <1>1, <1>2 DEF Separate
<1>3. CASE kind \notin Lists
  <2>1. StructFormed(m, Fields(kind), s) /\ StructApart(m, s)
    BY <1>3 DEF Formed, Separate
  <2>2. ASSUME NEW f \in DOMAIN s
        PROVE  FieldValues(m2, f, s[f]) = FieldValues(m, f, s[f])
    <3>1. FieldFormed(m, f, s[f])
      BY <2>1 DEF StructFormed
    <3>2. \A a \in FieldHolders(f, s[f]) : m2[a] = m[a]
      BY <1>3 DEF Holders, StructHolders
    <3> QED  BY <3>1, <3>2, FieldFrame
  <2>3. StructApart(m2, s)
    BY <2>1, <2>2 DEF StructApart, Apart, FieldCells
  <2> QED  BY <1>1, <1>3, <2>3 DEF Separate
<1> QED  BY <1>2, <1>3

LEMMA Undisturbed ==
    ASSUME NEW m, NEW m2, Len(m) \in Nat, Len(m2) \in Nat, Len(m) <= Len(m2),
           NEW kind, NEW s, Formed(m, kind, s),
           \A a \in Cells(m, kind, s) : m2[a] = m[a]
    PROVE  /\ Formed(m2, kind, s)
           /\ Reading(m2, kind, s) = Reading(m, kind, s)
           /\ Cells(m2, kind, s) = Cells(m, kind, s)
           /\ Separate(m, kind, s) => Separate(m2, kind, s)
<1>1. \A a \in Holders(m, kind, s) : m2[a] = m[a]
  BY DEF Cells
<1>2. Formed(m2, kind, s) /\ Cells(m2, kind, s) = Cells(m, kind, s)
  BY <1>1, Frame
<1>3. Reading(m2, kind, s) = Reading(m, kind, s)
  BY SaysTheSame
<1> QED  BY <1>1, <1>2, <1>3, SeparateFrame

\* A reader that writes where only its copy leads, or to new memory, and
\* whose copy then says what it should: nobody else sees a difference.
LEMMA OwnChange ==
    ASSUME CopiesInv, UNCHANGED source,
           NEW i \in 1 .. Len(copies), IsSequence(memory'), Len(memory) <= Len(memory'),
           \A a \in 1 .. Len(memory) :
             a \notin Cells(memory, source.kind, copies[i]) => memory'[a] = memory[a],
           NEW t, NEW w, Wrote(copies, i, t, copies'), Wrote(wanted, i, w, wanted'),
           Formed(memory', source.kind, t), Reading(memory', source.kind, t) = w,
           Separate(memory', source.kind, t),
           Cells(memory', source.kind, t) \subseteq
             Cells(memory, source.kind, copies[i]) \cup (Len(memory) + 1 .. Len(memory'))
    PROVE  CopiesInv'
<1> DEFINE k == source.kind
           m == memory
           m2 == memory'
           root == source.root
           n == Len(copies)
<1>0. /\ source' = source /\ k \in Kinds /\ IsSequence(m) /\ Len(m) \in Nat /\ Len(m2) \in Nat
      /\ n \in Nat
  BY DEF CopiesInv, IsSequence
<1>1. /\ IsSequence(copies') /\ Len(copies') = n /\ copies'[i] = t
      /\ \A j \in 1 .. n : j # i => copies'[j] = copies[j]
  <2>1. IsSequence(copies) /\ i \in 1 .. Len(copies) /\ Len(copies) = n
    BY DEF CopiesInv
  <2> HIDE DEF n
  <2> QED  BY <2>1, Overwritten
<1>2. /\ IsSequence(wanted') /\ Len(wanted') = n /\ wanted'[i] = w
      /\ \A j \in 1 .. n : j # i => wanted'[j] = wanted[j]
  <2>1. IsSequence(wanted) /\ i \in 1 .. Len(wanted) /\ Len(wanted) = n
    BY DEF CopiesInv
  <2> HIDE DEF n
  <2> QED  BY <2>1, Overwritten
<1>3. ASSUME NEW s, Formed(m, k, s), Cells(m, k, s) \cap Cells(m, k, copies[i]) = {}
      PROVE  /\ Formed(m2, k, s)
             /\ Reading(m2, k, s) = Reading(m, k, s)
             /\ Cells(m2, k, s) = Cells(m, k, s)
             /\ Separate(m, k, s) => Separate(m2, k, s)
             /\ Cells(m2, k, s) \cap Cells(m2, k, t) = {}
  <2>1. Cells(m, k, s) \subseteq 1 .. Len(m)
    BY <1>0, <1>3, InMemory
  <2>2. \A a \in Cells(m, k, s) : m2[a] = m[a]
    BY <1>3, <2>1
  <2>3. /\ Formed(m2, k, s)
        /\ Reading(m2, k, s) = Reading(m, k, s)
        /\ Cells(m2, k, s) = Cells(m, k, s)
        /\ Separate(m, k, s) => Separate(m2, k, s)
    BY <1>0, <1>3, <2>2, Undisturbed
  <2>4. Cells(m, k, s) \cap (Len(m) + 1 .. Len(m2)) = {}
    BY <1>0, <2>1
  <2> QED  BY <1>3, <2>3, <2>4
<1>4. /\ Formed(m2, k, root) /\ Reading(m2, k, root) = source.said
      /\ Cells(m2, k, root) = Cells(m, k, root)
      /\ Cells(m2, k, t) \cap Cells(m2, k, root) = {}
  <2>1. Formed(m, k, root) /\ Reading(m, k, root) = source.said
    BY DEF CopiesInv, CachedIsReadOnly
  <2>2. Cells(m, k, root) \cap Cells(m, k, copies[i]) = {}
    BY DEF CopiesInv, CopyInv
  <2> QED  BY <1>3, <2>1, <2>2
<1>5. ASSUME NEW j \in 1 .. n, j # i
      PROVE  /\ Formed(m2, k, copies[j]) /\ Reading(m2, k, copies[j]) = wanted[j]
             /\ Separate(m2, k, copies[j])
             /\ Cells(m2, k, copies[j]) = Cells(m, k, copies[j])
             /\ Cells(m2, k, copies[j]) \cap Cells(m2, k, root) = {}
             /\ Cells(m2, k, copies[j]) \cap Cells(m2, k, t) = {}
  <2>1. CopyInv(j) /\ Cells(m, k, copies[j]) \cap Cells(m, k, copies[i]) = {}
    BY <1>5 DEF CopiesInv
  <2>2. Formed(m, k, copies[j]) /\ Separate(m, k, copies[j])
    BY <2>1 DEF CopyInv
  <2>3. /\ Formed(m2, k, copies[j]) /\ Reading(m2, k, copies[j]) = Reading(m, k, copies[j])
        /\ Cells(m2, k, copies[j]) = Cells(m, k, copies[j])
        /\ Separate(m2, k, copies[j])
        /\ Cells(m2, k, copies[j]) \cap Cells(m2, k, t) = {}
    BY <1>3, <2>1, <2>2
  <2> QED  BY <1>4, <2>1, <2>3 DEF CopyInv
<1>6. ASSUME NEW j \in 1 .. n  PROVE CopyInv(j)'
  <2>1. CASE j = i
    BY <1>0, <1>1, <1>2, <1>4, <2>1 DEF CopyInv
  <2>2. CASE j # i
    BY <1>0, <1>1, <1>2, <1>5, <2>2 DEF CopyInv
  <2> QED  BY <2>1, <2>2
<1>7. ASSUME NEW j \in 1 .. n, NEW l \in 1 .. n, j # l
      PROVE  Cells(m2, k, copies'[j]) \cap Cells(m2, k, copies'[l]) = {}
  <2>1. CASE j = i
    BY <1>1, <1>5, <1>7, <2>1
  <2>2. CASE l = i
    BY <1>1, <1>5, <1>7, <2>2
  <2>3. CASE j # i /\ l # i
    <3>1. Cells(m, k, copies[j]) \cap Cells(m, k, copies[l]) = {}
      BY <1>7 DEF CopiesInv
    <3> QED  BY <1>1, <1>5, <2>3, <3>1
  <2> QED  BY <2>1, <2>2, <2>3
<1> QED  BY <1>0, <1>1, <1>2, <1>4, <1>6, <1>7 DEF CopiesInv, CachedIsReadOnly

LEMMA CopyKeepsInv ==
    ASSUME CopiesInv, Copy
    PROVE  CopiesInv'
<1> DEFINE k == source.kind
           m == memory
           root == source.root
           n == Len(copies)
           c == DeepCopyObject(k, [memory |-> m, out |-> root])
           t == c.out
<1>0. /\ source' = source /\ k \in Kinds /\ IsSequence(m) /\ Formed(m, k, root)
      /\ Reading(m, k, root) = source.said /\ Len(m) \in Nat /\ n \in Nat
  BY DEF Copy, CopiesInv, CachedIsReadOnly, IsSequence
<1>1. /\ memory' = c.memory /\ copies' = Append(copies, t)
      /\ wanted' = Append(wanted, source.said)
  BY DEF Copy
<1>2. ObjectCopied(m, k, root, c)
  BY <1>0, CopiedWhole
<1> HIDE DEF c, t, k, m, root, n
<1>3. /\ Grown(m, memory') /\ Formed(memory', k, t)
      /\ Reading(memory', k, t) = source.said /\ Separate(memory', k, t)
      /\ Cells(memory', k, t) \subseteq Len(m) + 1 .. Len(memory')
  BY <1>0, <1>1, <1>2 DEF ObjectCopied, t
<1>4. IsSequence(memory') /\ Len(memory') \in Nat /\ Len(m) <= Len(memory')
  BY <1>3 DEF Grown, IsSequence
<1>5. /\ IsSequence(copies') /\ Len(copies') = n + 1 /\ copies'[n + 1] = t
      /\ \A j \in 1 .. n : copies'[j] = copies[j]
  BY <1>1, Appended DEF CopiesInv, n
<1>6. /\ IsSequence(wanted') /\ Len(wanted') = n + 1 /\ wanted'[n + 1] = source.said
      /\ \A j \in 1 .. n : wanted'[j] = wanted[j]
  BY <1>1, Appended DEF CopiesInv, n
<1>7. ASSUME NEW s, Formed(m, k, s)
      PROVE  /\ Formed(memory', k, s)
             /\ Reading(memory', k, s) = Reading(m, k, s)
             /\ Cells(memory', k, s) = Cells(m, k, s)
             /\ Separate(m, k, s) => Separate(memory', k, s)
             /\ Cells(memory', k, s) \cap Cells(memory', k, t) = {}
  <2>1. Cells(m, k, s) \subseteq 1 .. Len(m)
    BY <1>0, <1>7, InMemory
  <2>2. \A a \in Cells(m, k, s) : memory'[a] = m[a]
    BY <1>3, <2>1 DEF Grown
  <2>3. /\ Formed(memory', k, s)
        /\ Reading(memory', k, s) = Reading(m, k, s)
        /\ Cells(memory', k, s) = Cells(m, k, s)
        /\ Separate(m, k, s) => Separate(memory', k, s)
    BY <1>0, <1>4, <1>7, <2>2, Undisturbed
  <2> QED  BY <1>0, <1>3, <1>4, <2>1, <2>3
<1>8. /\ Formed(memory', k, root) /\ Reading(memory', k, root) = source.said
      /\ Cells(memory', k, root) = Cells(m, k, root)
      /\ Cells(memory', k, root) \cap Cells(memory', k, t) = {}
  BY <1>0, <1>7
<1>9. ASSUME NEW j \in 1 .. n
      PROVE  /\ Formed(memory', k, copies[j]) /\ Reading(memory', k, copies[j]) = wanted[j]
             /\ Separate(memory', k, copies[j])
             /\ Cells(memory', k, copies[j]) = Cells(m, k, copies[j])
             /\ Cells(memory', k, copies[j]) \cap Cells(memory', k, root) = {}
             /\ Cells(memory', k, copies[j]) \cap Cells(memory', k, t) = {}
  <2>1. /\ Formed(m, k, copies[j]) /\ Separate(m, k, copies[j])
        /\ Reading(m, k, copies[j]) = wanted[j]
        /\ Cells(m, k, copies[j]) \cap Cells(m, k, root) = {}
    BY DEF CopiesInv, CopyInv, m, k, root, n
  <2> QED  BY <1>7, <1>8, <2>1
<1>10. ASSUME NEW j \in 1 .. n + 1  PROVE CopyInv(j)'
  <2>1. source'.kind = k /\ source'.root = root
    BY <1>0 DEF k, root
  <2>2. CASE j = n + 1
    BY <1>3, <1>5, <1>6, <1>8, <2>1, <2>2 DEF CopyInv
  <2>3. CASE j \in 1 .. n
    BY <1>5, <1>6, <1>9, <2>1, <2>3 DEF CopyInv
  <2> QED  BY <1>0, <2>2, <2>3
<1>11. ASSUME NEW j \in 1 .. n + 1, NEW l \in 1 .. n + 1, j # l
       PROVE  Cells(memory', k, copies'[j]) \cap Cells(memory', k, copies'[l]) = {}
  <2>1. CASE j = n + 1
    BY <1>0, <1>5, <1>9, <1>11, <2>1
  <2>2. CASE l = n + 1
    BY <1>0, <1>5, <1>9, <1>11, <2>2
  <2>3. CASE j \in 1 .. n /\ l \in 1 .. n
    <3>1. Cells(m, k, copies[j]) \cap Cells(m, k, copies[l]) = {}
      BY <1>11, <2>3 DEF CopiesInv, m, k, n
    <3> QED  BY <1>5, <1>9, <2>3, <3>1
  <2> QED  BY <1>0, <2>1, <2>2, <2>3
<1> QED  BY <1>0, <1>4, <1>5, <1>6, <1>8, <1>10, <1>11 DEF CopiesInv, CachedIsReadOnly, k, root

LEMMA EditKeepsInv ==
    ASSUME CopiesInv, NEW i \in DOMAIN copies, Edit(i)
    PROVE  CopiesInv'
<1> DEFINE k == source.kind
           m == memory
           t == copies[i]
<1>0. /\ i \in 1 .. Len(copies) /\ IsSequence(m) /\ Len(m) \in Nat /\ IsSequence(copies)
  BY DEF CopiesInv, IsSequence
<1>1. /\ Formed(m, k, t) /\ Separate(m, k, t)
  BY <1>0 DEF CopiesInv, CopyInv
<1>2. PICK a \in Values(m, k, t) : memory' = [m EXCEPT ![a] = "edited"]
  BY DEF Edit
<1>3. a \in 1 .. Len(m) /\ a \in Cells(m, k, t) /\ a \notin Holders(m, k, t)
  BY <1>0, <1>1, <1>2, InMemory DEF Cells, Separate
<1>4. /\ IsSequence(memory') /\ Len(memory') = Len(m)
      /\ \A b \in 1 .. Len(m) : b # a => memory'[b] = m[b]
  <2>1. Wrote(m, a, "edited", memory')
    BY <1>2 DEF Wrote
  <2> HIDE DEF m
  <2> QED  BY <1>0, <1>3, <2>1, Overwritten
<1>5. \A b \in Holders(m, k, t) : memory'[b] = m[b]
  BY <1>0, <1>1, <1>3, <1>4, InMemory DEF Cells
<1>6. Formed(memory', k, t) /\ Cells(memory', k, t) = Cells(m, k, t)
  BY <1>0, <1>1, <1>4, <1>5, Frame
<1>7. Separate(memory', k, t)
  BY <1>0, <1>1, <1>4, <1>5, SeparateFrame
<1> DEFINE w == Reading(memory', k, t)
<1>8. Wrote(copies, i, t, copies')
  BY <1>0 DEF Edit, IsSequence, Wrote
<1>9. Wrote(wanted, i, w, wanted') /\ UNCHANGED source
  BY DEF Edit, Wrote
<1>10. \A b \in 1 .. Len(m) : b \notin Cells(m, k, t) => memory'[b] = m[b]
  BY <1>3, <1>4
<1>11. UNCHANGED source
  BY <1>9
<1>12. Len(m) <= Len(memory')
  BY <1>0, <1>4
<1>13. Reading(memory', k, t) = w
  OBVIOUS
<1>14. Cells(memory', k, t) \subseteq Cells(m, k, t) \cup (Len(m) + 1 .. Len(memory'))
  BY <1>6
<1> HIDE DEF w
<1> QED  BY <1>0, <1>4, <1>6, <1>7, <1>8, <1>9, <1>10, <1>11, <1>12, <1>13, <1>14, OwnChange

\* Other finalizers, where the old ones were or in new memory.
LEMMA FinalizersChanged ==
    ASSUME NEW m, IsSequence(m), NEW kind, kind \notin Lists, NEW s, Formed(m, kind, s),
           Separate(m, kind, s), "finalizers" \in DOMAIN s,
           NEW m2, IsSequence(m2), Len(m) <= Len(m2),
           NEW h2, FinalizersFormed(m2, h2),
           \A a \in 1 .. Len(m) : a # s.finalizers.array => m2[a] = m[a],
           h2.array \in {s.finalizers.array} \cup (Len(m) + 1 .. Len(m2)),
           NEW t, t = [s EXCEPT !.finalizers = h2]
    PROVE  /\ Formed(m2, kind, t) /\ Separate(m2, kind, t)
           /\ Reading(m2, kind, t) =
                [Reading(m, kind, s) EXCEPT !.finalizers = Held(m2, h2)]
           /\ Cells(m2, kind, t) \subseteq Cells(m, kind, s) \cup (Len(m) + 1 .. Len(m2))
<1> DEFINE array == s.finalizers.array
           fields == Fields(kind)
<1>0. /\ Len(m) \in Nat /\ Len(m2) \in Nat
      /\ StructFormed(m, fields, s) /\ StructApart(m, s)
      /\ DOMAIN s = fields /\ DOMAIN t = fields /\ t = [f \in fields |-> t[f]]
      /\ "finalizers" \in fields
  BY DEF IsSequence, Formed, StructFormed, Separate
<1>1. t.finalizers = h2 /\ \A f \in fields : f # "finalizers" => t[f] = s[f]
  BY <1>0
<1> HIDE DEF fields
<1>2. ASSUME NEW f \in fields, f # "finalizers"
      PROVE  /\ t[f] = s[f] /\ FieldFormed(m2, f, t[f])
             /\ FieldReading(m2, f, t[f]) = FieldReading(m, f, s[f])
             /\ FieldValues(m2, f, t[f]) = FieldValues(m, f, s[f])
             /\ FieldCells(m2, f, t[f]) = FieldCells(m, f, s[f])
             /\ FieldCells(m, f, s[f]) \subseteq 1 .. Len(m)
             /\ array \notin FieldCells(m, f, s[f])
  <2>1. FieldFormed(m, f, s[f]) /\ t[f] = s[f]
    BY <1>0, <1>1, <1>2 DEF StructFormed
  <2>2. FieldCells(m, f, s[f]) \subseteq 1 .. Len(m)
    BY <1>0, <2>1, FieldInMemory
  <2>3. array \notin FieldCells(m, f, s[f])
    <3>1. CASE array = Nil
      BY <2>2, <3>1 DEF Nil
    <3>2. CASE array # Nil
      <4>1. \A g \in fields : g = "finalizers" => array \in FieldCells(m, g, s[g])
        <5> SUFFICES ASSUME NEW g \in fields, g = "finalizers"
                     PROVE  array \in FieldCells(m, g, s[g])
          OBVIOUS
        <5>1. FieldHolders(g, s[g]) = {s[g].array} \ {Nil} /\ s[g].array = array
          BY OfFinalizers
        <5> QED  BY <3>2, <5>1 DEF FieldCells
      <4>2. \A g \in fields : g # f => FieldCells(m, f, s[f]) \cap FieldCells(m, g, s[g]) = {}
        BY <1>0, <1>2 DEF StructApart, Apart
      <4> QED  BY <1>0, <1>2, <4>1, <4>2
    <3> QED  BY <3>1, <3>2
  <2>4. \A a \in FieldCells(m, f, s[f]) : m2[a] = m[a]
    BY <2>2, <2>3
  <2>5. FieldFormed(m2, f, s[f]) /\ FieldValues(m2, f, s[f]) = FieldValues(m, f, s[f])
    BY <1>0, <2>1, <2>4, FieldFrame DEF FieldCells
  <2>6. FieldReading(m2, f, s[f]) = FieldReading(m, f, s[f])
    BY <2>1, <2>4, FieldSaysTheSame
  <2> QED  BY <2>1, <2>2, <2>3, <2>5, <2>6 DEF FieldCells
<1>3. ASSUME NEW f \in fields, f = "finalizers"
      PROVE  /\ t[f] = h2 /\ FieldFormed(m2, f, t[f])
             /\ FieldReading(m2, f, t[f]) = Held(m2, h2)
             /\ FieldValues(m2, f, t[f]) = {}
             /\ FieldCells(m2, f, t[f]) = {h2.array} \ {Nil}
             /\ FieldCells(m, f, s[f]) = {array} \ {Nil}
  <2>1. t[f] = h2 /\ s[f].array = array
    BY <1>1, <1>3
  <2>2. FieldReading(m2, f, h2) = Held(m2, h2) /\ FieldFormed(m2, f, h2)
    BY <1>3, OfFinalizers
  <2>3. FieldValues(m2, f, h2) = {} /\ FieldHolders(f, h2) = {h2.array} \ {Nil}
    BY <1>3, OfFinalizers
  <2>4. FieldValues(m, f, s[f]) = {} /\ FieldHolders(f, s[f]) = {s[f].array} \ {Nil}
    BY <1>3, OfFinalizers
  <2> QED  BY <2>1, <2>2, <2>3, <2>4 DEF FieldCells
<1>4. StructFormed(m2, fields, t)
  BY <1>0, <1>2, <1>3 DEF StructFormed
<1>5. StructReading(m2, t) = [StructReading(m, s) EXCEPT !.finalizers = Held(m2, h2)]
  <2>1. ASSUME NEW f \in fields
        PROVE  FieldReading(m2, f, t[f]) =
                 IF f = "finalizers" THEN Held(m2, h2) ELSE FieldReading(m, f, s[f])
    BY <1>2, <1>3
  <2> QED  BY <1>0, <2>1 DEF StructReading
<1>6. ASSUME NEW f \in fields
      PROVE  FieldCells(m2, f, t[f]) \subseteq FieldCells(m, f, s[f]) \cup (Len(m) + 1 .. Len(m2))
  <2>1. CASE f # "finalizers"
    BY <1>2, <2>1
  <2>2. CASE f = "finalizers"
    BY <1>3, <2>2
  <2> QED  BY <2>1, <2>2
<1>7. StructCells(m2, t) \subseteq StructCells(m, s) \cup (Len(m) + 1 .. Len(m2))
  BY <1>0, <1>6, CellsOfFields
<1>8. ASSUME NEW f \in fields, f # "finalizers"
      PROVE  h2.array \notin FieldCells(m2, f, t[f])
  <2>1. FieldCells(m2, f, t[f]) \subseteq 1 .. Len(m) /\ array \notin FieldCells(m2, f, t[f])
    BY <1>2, <1>8
  <2> QED  BY <1>0, <2>1
<1>9. Apart(m2, t, fields)
  <2> SUFFICES ASSUME NEW f \in fields, NEW g \in fields, f # g
               PROVE  FieldCells(m2, f, t[f]) \cap FieldCells(m2, g, t[g]) = {}
    BY DEF Apart
  <2>1. CASE f = "finalizers"
    BY <1>3, <1>8, <2>1
  <2>2. CASE g = "finalizers"
    BY <1>3, <1>8, <2>2
  <2>3. CASE f # "finalizers" /\ g # "finalizers"
    <3>1. FieldCells(m, f, s[f]) \cap FieldCells(m, g, s[g]) = {}
      BY <1>0 DEF StructApart, Apart
    <3> QED  BY <1>2, <2>3, <3>1
  <2> QED  BY <2>1, <2>2, <2>3
<1>10. ASSUME NEW f \in fields
       PROVE  FieldValues(m2, f, t[f]) \cap FieldHolders(f, t[f]) = {}
  <2>1. CASE f = "finalizers"
    BY <1>3, <2>1
  <2>2. CASE f # "finalizers"
    BY <1>0, <1>2, <2>2 DEF StructApart
  <2> QED  BY <2>1, <2>2
<1>11. StructApart(m2, t)
  BY <1>0, <1>9, <1>10 DEF StructApart
<1>12. StructValues(m2, t) \cap StructHolders(t) = {}
  BY <1>11, CellsApart
<1> QED  BY <1>4, <1>5, <1>7, <1>11, <1>12
         DEF Formed, Reading, Separate, Cells, Values, Holders, StructCells, fields

-----------------------------------------------------------------------------
LEMMA FinalizersKeepInv ==
    ASSUME CopiesInv, UNCHANGED source, HasFinalizers, NEW i \in 1 .. Len(copies),
           NEW h, h = copies[i].finalizers, IsSequence(memory'), Len(memory) <= Len(memory'),
           \A a \in 1 .. Len(memory) : a # h.array => memory'[a] = memory[a],
           NEW h2, FinalizersFormed(memory', h2),
           h2.array \in {h.array} \cup (Len(memory) + 1 .. Len(memory')),
           Becomes(i, h2), ShouldSay(i, Held(memory', h2))
    PROVE  CopiesInv'
<1> DEFINE k == source.kind
           s == copies[i]
           t == [s EXCEPT !.finalizers = h2]
           w == [wanted[i] EXCEPT !.finalizers = Held(memory', h2)]
<1>1. /\ Formed(memory, k, s) /\ Separate(memory, k, s) /\ Reading(memory, k, s) = wanted[i]
      /\ k \notin Lists /\ IsSequence(memory) /\ Len(memory) \in Nat /\ Len(memory') \in Nat
  BY DEF CopiesInv, CopyInv, HasFinalizers, IsSequence
<1>2. "finalizers" \in DOMAIN s
  BY <1>1 DEF Formed, StructFormed, Fields, TenantFields, QuotaFields
<1>3. Wrote(copies, i, t, copies') /\ Wrote(wanted, i, w, wanted')
  BY DEF Becomes, ShouldSay, Wrote
<1>4. /\ Formed(memory', k, t) /\ Separate(memory', k, t)
      /\ Reading(memory', k, t) = [Reading(memory, k, s) EXCEPT !.finalizers = Held(memory', h2)]
      /\ Cells(memory', k, t) \subseteq
           Cells(memory, k, s) \cup (Len(memory) + 1 .. Len(memory'))
  <2>1. s.finalizers = h
    OBVIOUS
  <2> HIDE DEF s, k
  <2> QED  BY <1>1, <1>2, <2>1, FinalizersChanged
<1>5. Reading(memory', k, t) = w
  BY <1>1, <1>4
<1>6. \A a \in 1 .. Len(memory) : a \notin Cells(memory, k, s) => memory'[a] = memory[a]
  <2>1. ASSUME NEW f \in DOMAIN s, f = "finalizers", h.array \in 1 .. Len(memory)
        PROVE  h.array \in FieldHolders(f, s[f])
    BY <2>1, OfFinalizers DEF Nil
  <2>2. h.array \in 1 .. Len(memory) => h.array \in StructHolders(s)
    BY <1>2, <2>1 DEF StructHolders
  <2> QED  BY <1>1, <2>2 DEF Cells, Holders
<1> HIDE DEF t, w
<1> QED  BY <1>3, <1>4, <1>5, <1>6, OwnChange

\* What the invariant says of the finalizers of a copy.
LEMMA OnTheCopy ==
    ASSUME CopiesInv, HasFinalizers, NEW i \in 1 .. Len(copies)
    PROVE  /\ FinalizersFormed(memory, copies[i].finalizers)
           /\ wanted[i].finalizers = Held(memory, copies[i].finalizers)
<1> DEFINE s == copies[i]
<1>1. StructFormed(memory, Fields(source.kind), s) /\ StructReading(memory, s) = wanted[i]
  BY DEF CopiesInv, CopyInv, HasFinalizers, Formed, Reading
<1>2. "finalizers" \in DOMAIN s /\ DOMAIN s = Fields(source.kind)
  BY <1>1 DEF StructFormed, Fields, TenantFields, QuotaFields
<1>3. ASSUME NEW f \in DOMAIN s, f = "finalizers"
      PROVE  FinalizersFormed(memory, s[f]) /\ wanted[i][f] = Held(memory, s[f])
  <2>1. FieldFormed(memory, f, s[f])
    BY <1>1, <1>2 DEF StructFormed
  <2>2. wanted[i][f] = FieldReading(memory, f, s[f])
    BY <1>1 DEF StructReading
  <2> QED  BY <1>3, <2>1, <2>2, OfFinalizers
<1> QED  BY <1>2, <1>3

LEMMA HoldKeepsInv ==
    ASSUME CopiesInv, NEW i \in DOMAIN copies, Hold(i)
    PROVE  CopiesInv'
<1> DEFINE h == copies[i].finalizers
           x == Held(memory, h)
<1>1. /\ i \in 1 .. Len(copies) /\ IsSequence(memory) /\ Len(memory) \in Nat
      /\ HasFinalizers /\ UNCHANGED source /\ ~ContainString(x, Finalizer)
      /\ AppendInPlace(i, h) \/ AppendElsewhere(i, h)
      /\ ShouldSay(i, Append(wanted[i].finalizers, Finalizer))
  BY DEF CopiesInv, IsSequence, Hold
<1>2. FinalizersFormed(memory, h) /\ ShouldSay(i, Append(x, Finalizer))
  BY <1>1, OnTheCopy
<1>3. CASE AppendInPlace(i, h)
  <2> DEFINE h2 == [array |-> h.array, len |-> h.len + 1]
             next == [memory[h.array] EXCEPT ![h.len + 1] = Finalizer]
  <2>1. /\ h.array # Nil /\ h.len < Len(memory[h.array]) /\ Becomes(i, h2)
        /\ memory' = [memory EXCEPT ![h.array] = [@ EXCEPT ![h.len + 1] = Finalizer]]
    BY <1>3 DEF AppendInPlace
  <2>2. Wrote(memory, h.array, next, memory')
    BY <2>1 DEF Wrote
  <2>3. h.array \in 1 .. Len(memory)
    BY <1>1, <1>2, <2>1 DEF FinalizersFormed, Nil
  <2>a. Appends(memory, h, Finalizer, next, memory', h2)
    BY <2>1, <2>2 DEF Appends, IsSlice, Wrote
  <2> HIDE DEF next
  <2>4. /\ IsSequence(memory') /\ Len(memory') = Len(memory)
        /\ \A a \in 1 .. Len(memory) : a # h.array => memory'[a] = memory[a]
    BY <1>1, <2>2, <2>3, Overwritten
  <2> HIDE DEF h, h2
  <2>5. FinalizersFormed(memory', h2) /\ Held(memory', h2) = Append(x, Finalizer)
    BY <1>1, <1>2, <2>a, AppendedInPlace
  <2>6. h2.array = h.array
    BY DEF h2
  <2> HIDE DEF x
  <2>7. Len(memory) <= Len(memory') /\ h2.array \in {h.array} \cup (Len(memory) + 1 .. Len(memory'))
        /\ ShouldSay(i, Held(memory', h2)) /\ h = copies[i].finalizers /\ UNCHANGED source
    BY <1>1, <1>2, <2>4, <2>5, <2>6 DEF h
  <2> QED  BY <1>1, <2>1, <2>4, <2>5, <2>7, FinalizersKeepInv
<1>4. CASE AppendElsewhere(i, h)
  <2> DEFINE h2 == [array |-> Len(memory) + 1, len |-> Len(x) + 1]
  <2>1. memory' = Append(memory, Append(x, Finalizer)) /\ Becomes(i, h2)
    BY <1>4 DEF AppendElsewhere
  <2>3. h2.array = Len(memory) + 1 /\ AppendsElsewhere(memory, h, Finalizer, memory', h2)
    BY <2>1 DEF AppendsElsewhere
  <2> HIDE DEF h, h2
  <2>2. FinalizersFormed(memory', h2) /\ Held(memory', h2) = Append(x, Finalizer)
    BY <1>1, <1>2, <2>3, AppendedElsewhere
  <2> HIDE DEF x
  <2>4. /\ IsSequence(memory') /\ Len(memory') = Len(memory) + 1
        /\ \A a \in 1 .. Len(memory) : memory'[a] = memory[a]
    BY <1>1, <2>1, Appended
  <2>5. Len(memory) <= Len(memory') /\ h2.array \in {h.array} \cup (Len(memory) + 1 .. Len(memory'))
        /\ ShouldSay(i, Held(memory', h2)) /\ h = copies[i].finalizers /\ UNCHANGED source
    BY <1>1, <1>2, <2>2, <2>3, <2>4 DEF h
  <2> QED  BY <1>1, <2>1, <2>2, <2>4, <2>5, FinalizersKeepInv
<1> QED  BY <1>1, <1>3, <1>4

LEMMA ReleaseKeepsInv ==
    ASSUME CopiesInv, NEW i \in DOMAIN copies, Release(i)
    PROVE  CopiesInv'
<1> DEFINE h == copies[i].finalizers
           x == Held(memory, h)
           r == RemoveString(memory[h.array], h.len, Finalizer)
           h2 == [array |-> h.array, len |-> r.len]
           m2 == [memory EXCEPT ![h.array] = r.array]
<1>1. /\ i \in 1 .. Len(copies) /\ IsSequence(memory) /\ Len(memory) \in Nat
      /\ HasFinalizers /\ UNCHANGED source /\ h.array # Nil
      /\ ShouldSay(i, Without(wanted[i].finalizers, Finalizer))
  BY DEF CopiesInv, IsSequence, Release
<1>2. FinalizersFormed(memory, h) /\ ShouldSay(i, Without(x, Finalizer))
  BY <1>1, OnTheCopy
<1>3. IF r.panics THEN Becomes(i, Panic) /\ UNCHANGED memory
      ELSE memory' = m2 /\ Becomes(i, h2)
  BY DEF Release
<1>4. /\ Releases(memory, h, Finalizer, r, m2, h2) /\ Wrote(memory, h.array, r.array, m2)
      /\ h2.array = h.array /\ h = copies[i].finalizers
  BY <1>1 DEF Releases, IsSlice, Wrote
<1> HIDE DEF h, r, h2, m2
<1>5. InRange(r) /\ FinalizersFormed(m2, h2) /\ Held(m2, h2) = Without(x, Finalizer)
  BY <1>1, <1>2, <1>4, Released
<1> HIDE DEF x
<1>6. memory' = m2 /\ Becomes(i, h2)
  BY <1>3, <1>5 DEF InRange
<1>7. h.array \in 1 .. Len(memory)
  BY <1>1, <1>2 DEF FinalizersFormed, Nil
<1>8. Wrote(memory, h.array, r.array, memory')
  BY <1>4, <1>6
<1>9. /\ IsSequence(memory') /\ Len(memory') = Len(memory)
      /\ \A a \in 1 .. Len(memory) : a # h.array => memory'[a] = memory[a]
  BY <1>1, <1>7, <1>8, Overwritten
<1>a. FinalizersFormed(memory', h2) /\ Held(memory', h2) = Without(x, Finalizer)
  BY <1>5, <1>6
<1>10. /\ Len(memory) <= Len(memory')
       /\ h2.array \in {h.array} \cup (Len(memory) + 1 .. Len(memory'))
       /\ ShouldSay(i, Held(memory', h2))
  BY <1>1, <1>2, <1>4, <1>a, <1>9
<1> QED  BY <1>a, <1>1, <1>4, <1>6, <1>9, <1>10, FinalizersKeepInv

LEMMA CopiesInvNext == CopiesInv /\ [CopiesNext]_copiesVars => CopiesInv'
<1> SUFFICES ASSUME CopiesInv, [CopiesNext]_copiesVars  PROVE CopiesInv'
  OBVIOUS
<1>1. CASE Copy
  BY <1>1, CopyKeepsInv
<1>2. ASSUME NEW i \in DOMAIN copies, Edit(i)  PROVE CopiesInv'
  BY <1>2, EditKeepsInv
<1>3. ASSUME NEW i \in DOMAIN copies, Hold(i)  PROVE CopiesInv'
  BY <1>3, HoldKeepsInv
<1>4. ASSUME NEW i \in DOMAIN copies, Release(i)  PROVE CopiesInv'
  BY <1>4, ReleaseKeepsInv
<1>5. CASE UNCHANGED copiesVars
  BY <1>5 DEF copiesVars, CopiesInv, CopyInv, CachedIsReadOnly
<1> QED  BY <1>1, <1>2, <1>3, <1>4, <1>5 DEF CopiesNext

(***************************************************************************)
(* Theorem: at every moment no copy leads to a cell that another copy or   *)
(* the cached object leads to, and the cells of one copy that a reader     *)
(* writes to are none in which the shape of the copy itself is kept: the   *)
(* reason why nobody sees what another writes.                             *)
(***************************************************************************)
THEOREM CopiesAreApart == CopiesSpec => []CopiesInv
<1> QED  BY CopiesInvInit, CopiesInvNext, PTL DEF CopiesSpec

(***************************************************************************)
(* Theorem: whatever the kind of the cached object and its references,     *)
(* however many copies are made and however often they are written to, the *)
(* object in the cache says what it said when the informer put it there.   *)
(***************************************************************************)
THEOREM CachedStaysReadOnly == CopiesSpec => []CachedIsReadOnly
<1>1. CopiesInv => CachedIsReadOnly
  BY DEF CopiesInv
<1> QED  BY <1>1, CopiesAreApart, PTL

(***************************************************************************)
(* Theorem: a copy says what the cached object says but for what its       *)
(* reader wrote to it, and RemoveString takes kubezoo's finalizer from it  *)
(* and no other, without a slice bound that is out of range.               *)
(***************************************************************************)
THEOREM CopiesSayTheSame == CopiesSpec => []CopySaysTheSame
<1>1. CopiesInv => CopySaysTheSame
  BY DEF CopiesInv, CopyInv, CopySaysTheSame, IsSequence
<1> QED  BY <1>1, CopiesAreApart, PTL

===============================================================================
