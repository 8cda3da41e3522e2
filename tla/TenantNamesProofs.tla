--------------------------- MODULE TenantNamesProofs ---------------------------
(***************************************************************************)
(* Lemmas about the operators of TenantNames, for every alphabet, every    *)
(* width of the tenant id and every set of tenants.                        *)
(***************************************************************************)
EXTENDS TenantNames, SequenceTheorems, TLAPS

(***************************************************************************)
(* Two facts about sequences that the trimming of a prefix rests on.       *)
(***************************************************************************)
LEMMA DropOfConcat ==
    ASSUME NEW S, NEW p \in Seq(S), NEW n \in Seq(S)
    PROVE  SubSeq(p \o n, Len(p) + 1, Len(p) + Len(n)) = n
<1>1. Len(p) \in Nat /\ Len(n) \in Nat
  BY LenProperties
<1>2. CASE Len(n) = 0
  <2>1. n = << >>
    BY <1>2, EmptySeq
  <2> QED  BY <1>1, <1>2, <2>1, SubSeqEmpty
<1>3. CASE Len(n) # 0
  <2> DEFINE lo == Len(p) + 1
             hi == Len(p) + Len(n)
  <2>1. /\ lo \in Len(p) + 1 .. Len(p) + Len(n)
        /\ hi \in Len(p) + 1 .. Len(p) + Len(n)
        /\ lo - Len(p) = 1 /\ hi - Len(p) = Len(n)
    BY <1>1, <1>3
  <2>2. SubSeq(p \o n, lo, hi) = SubSeq(n, lo - Len(p), hi - Len(p))
    <3> HIDE DEF lo, hi
    <3> QED  BY <2>1, SubSeqOfConcat2
  <2> QED  BY <2>1, <2>2, SubSeqFull
<1> QED  BY <1>2, <1>3

LEMMA SplitAt ==
    ASSUME NEW S, NEW s \in Seq(S), NEW k \in 0 .. Len(s)
    PROVE  SubSeq(s, 1, k) \o SubSeq(s, k + 1, Len(s)) = s
<1>1. Len(s) \in Nat
  BY LenProperties
<1>2. 1 \in 1 .. Len(s) + 1 /\ k \in 1 - 1 .. Len(s) /\ Len(s) \in k .. Len(s)
  BY <1>1
<1>3. SubSeq(s, 1, k) \o SubSeq(s, k + 1, Len(s)) = SubSeq(s, 1, Len(s))
  BY <1>2, ConcatAdjacentSubSeq, Zenon
<1> QED  BY <1>3, SubSeqFull

(***************************************************************************)
(* The prefix of a tenant: its shape, character by character.              *)
(***************************************************************************)
LEMMA PrefixShape ==
    ASSUME NEW t \in Tenant
    PROVE  /\ t \in Name /\ Len(t) = TenantIDLength
           /\ TenantIDSeparator \in Name
           /\ t \o TenantIDSeparator \in Name
           /\ Len(t \o TenantIDSeparator) = TenantIDLength + 1
           /\ \A i \in 1 .. TenantIDLength : (t \o TenantIDSeparator)[i] = t[i]
           /\ (t \o TenantIDSeparator)[TenantIDLength + 1] = Dash
<1>1. t \in Name /\ Len(t) = TenantIDLength /\ TenantIDLength \in Nat
  BY TenantAssumption, LengthAssumption DEF ValidateTenantName
<1>2. TenantIDSeparator \in Name /\ Len(TenantIDSeparator) = 1 /\ TenantIDSeparator[1] = Dash
  BY CharAssumption DEF TenantIDSeparator, Name
<1> DEFINE p == t \o TenantIDSeparator
<1>3. /\ p \in Seq(Char) /\ Len(p) = Len(t) + Len(TenantIDSeparator)
      /\ \A i \in 1 .. Len(t) + Len(TenantIDSeparator) :
            p[i] = IF i <= Len(t) THEN t[i] ELSE TenantIDSeparator[i - Len(t)]
  BY <1>1, <1>2, ConcatProperties DEF Name
<1> HIDE DEF p
<1>4. /\ Len(p) = TenantIDLength + 1
      /\ \A i \in 1 .. TenantIDLength : p[i] = t[i]
      /\ p[TenantIDLength + 1] = Dash
  BY <1>1, <1>2, <1>3
<1> QED  BY <1>1, <1>2, <1>3, <1>4 DEF p, Name

(***************************************************************************)
(* Whether a name carries a tenant's prefix, character by character: this  *)
(* is what strings.HasPrefix(name, tenantID+"-") looks at.                 *)
(***************************************************************************)
LEMMA PrefixCharacters ==
    ASSUME NEW t \in Tenant, NEW s \in Name
    PROVE  HasTenantPrefix(t, s) <=>
             /\ Len(s) >= TenantIDLength + 1
             /\ \A i \in 1 .. TenantIDLength : s[i] = t[i]
             /\ s[TenantIDLength + 1] = Dash
<1> DEFINE p == t \o TenantIDSeparator
           k == TenantIDLength + 1
<1>1. p \in Name /\ Len(p) = k /\ k \in Nat \ {0} /\ Len(s) \in Nat
  BY PrefixShape, LengthAssumption, LenProperties DEF Name
<1>2. /\ \A i \in 1 .. TenantIDLength : p[i] = t[i]
      /\ p[k] = Dash
  BY PrefixShape
<1>3. SubSeq(p, 1, k) = p
  BY <1>1, SubSeqFull DEF Name
<1>4. ASSUME Len(s) >= k
      PROVE  /\ SubSeq(s, 1, k) \in Name
             /\ Len(SubSeq(s, 1, k)) = k
             /\ \A i \in 1 .. k : SubSeq(s, 1, k)[i] = s[i]
  <2>1. \A i \in 1 .. k : s[i] \in Char
    BY <1>1, <1>4, ElementOfSeq DEF Name
  <2> QED  BY <1>1, <2>1, SubSeqProperties, Z3 DEF Name
<1>5. HasTenantPrefix(t, s) <=> k <= Len(s) /\ p = SubSeq(s, 1, k)
  BY <1>1, <1>3 DEF HasTenantPrefix, IsPrefix
<1>6. ASSUME Len(s) >= k
      PROVE  p = SubSeq(s, 1, k) <=> \A i \in 1 .. k : s[i] = p[i]
  BY <1>1, <1>4, <1>6, SeqEqual DEF Name
<1>7. (\A i \in 1 .. k : s[i] = p[i]) <=>
          (\A i \in 1 .. TenantIDLength : s[i] = t[i]) /\ s[k] = Dash
  <2>1. 1 .. k = 1 .. TenantIDLength \cup {k}
    BY LengthAssumption
  <2> QED  BY <1>2, <2>1
<1> QED  BY <1>1, <1>5, <1>6, <1>7

(***************************************************************************)
(* A prefixed name is a name, carries the prefix, and gives the original   *)
(* back when it is trimmed: what a tenant wrote is what it reads.          *)
(***************************************************************************)
LEMMA TrimUndoesAdd ==
    ASSUME NEW t \in Tenant, NEW n \in Name
    PROVE  /\ AddTenantIDPrefix(t, n) \in Name
           /\ Len(AddTenantIDPrefix(t, n)) = TenantIDLength + 1 + Len(n)
           /\ HasTenantPrefix(t, AddTenantIDPrefix(t, n))
           /\ TrimTenantIDPrefix(t, AddTenantIDPrefix(t, n)) = n
<1> DEFINE p == t \o TenantIDSeparator
           k == TenantIDLength + 1
           a == AddTenantIDPrefix(t, n)
<1>1. /\ p \in Name /\ Len(p) = k /\ k \in Nat \ {0} /\ Len(n) \in Nat
      /\ \A i \in 1 .. TenantIDLength : p[i] = t[i]
      /\ p[k] = Dash
  BY PrefixShape, LengthAssumption, LenProperties DEF Name
<1>2. a = p \o n
  BY PrefixShape, ConcatAssociative DEF AddTenantIDPrefix, Name
<1>3. /\ a \in Name /\ Len(a) = k + Len(n)
      /\ \A i \in 1 .. k + Len(n) : a[i] = IF i <= k THEN p[i] ELSE n[i - k]
  <2>1. /\ p \o n \in Seq(Char)
        /\ Len(p \o n) = Len(p) + Len(n)
        /\ \A i \in 1 .. Len(p) + Len(n) :
              (p \o n)[i] = IF i <= Len(p) THEN p[i] ELSE n[i - Len(p)]
    BY <1>1, ConcatProperties DEF Name
  <2> QED  BY <1>1, <1>2, <2>1 DEF Name
<1>4. HasTenantPrefix(t, a)
  <2>1. \A i \in 1 .. k : a[i] = p[i]
    BY <1>1, <1>3
  <2>2. Len(a) >= TenantIDLength + 1
    BY <1>1, <1>3
  <2>3. k \in 1 .. k /\ \A i \in 1 .. TenantIDLength : i \in 1 .. k
    BY LengthAssumption
  <2> QED  BY <1>1, <1>3, <2>1, <2>2, <2>3, PrefixCharacters
<1>5. SubSeq(a, TenantIDLength + 2, Len(a)) = n
  <2>1. SubSeq(p \o n, Len(p) + 1, Len(p) + Len(n)) = n
    BY <1>1, DropOfConcat DEF Name
  <2>2. Len(p) + 1 = TenantIDLength + 2 /\ Len(p) + Len(n) = Len(a)
    BY <1>1, <1>3, LengthAssumption
  <2> QED  BY <1>2, <2>1, <2>2
<1> QED  BY <1>1, <1>3, <1>4, <1>5 DEF TrimTenantIDPrefix

(***************************************************************************)
(* Trimming is the inverse of prefixing on the names that carry the        *)
(* prefix: no two of a tenant's upstream names read alike.                 *)
(***************************************************************************)
LEMMA AddUndoesTrim ==
    ASSUME NEW t \in Tenant, NEW s \in Name, HasTenantPrefix(t, s)
    PROVE  /\ TrimTenantIDPrefix(t, s) \in Name
           /\ AddTenantIDPrefix(t, TrimTenantIDPrefix(t, s)) = s
<1> DEFINE p == t \o TenantIDSeparator
           k == TenantIDLength + 1
           n == TrimTenantIDPrefix(t, s)
<1>1. /\ p \in Name /\ Len(p) = k /\ k \in Nat \ {0} /\ Len(s) \in Nat /\ Len(s) >= k
  BY PrefixShape, PrefixCharacters, LengthAssumption, LenProperties DEF Name
<1>2. n = SubSeq(s, k + 1, Len(s))
  BY LengthAssumption DEF TrimTenantIDPrefix
<1>3. n \in Name
  <2>1. \A i \in k + 1 .. Len(s) : s[i] \in Char
    BY <1>1, ElementOfSeq DEF Name
  <2> QED  BY <1>1, <1>2, <2>1, SubSeqProperties DEF Name
<1>4. p = SubSeq(s, 1, k)
  BY <1>1, SubSeqFull DEF HasTenantPrefix, IsPrefix, Name
<1>5. SubSeq(s, 1, k) \o SubSeq(s, k + 1, Len(s)) = SubSeq(s, 1, Len(s))
  <2>1. s \in Seq(Char) /\ k \in 0 .. Len(s)
    BY <1>1 DEF Name
  <2> HIDE DEF k
  <2> QED  BY <2>1, SplitAt, SubSeqFull
<1>6. AddTenantIDPrefix(t, n) = p \o n
  BY <1>3, PrefixShape, ConcatAssociative DEF AddTenantIDPrefix, Name
<1> QED  BY <1>2, <1>3, <1>4, <1>5, <1>6, SubSeqFull DEF Name

(***************************************************************************)
(* No name belongs to two tenants, whatever dashes their ids hold: the     *)
(* ids have one width, so two prefixes of one name are the same id.        *)
(***************************************************************************)
THEOREM OneTenantPerName ==
    ASSUME NEW t1 \in Tenant, NEW t2 \in Tenant, NEW s \in Name,
           HasTenantPrefix(t1, s), HasTenantPrefix(t2, s)
    PROVE  t1 = t2
<1>1. \A i \in 1 .. TenantIDLength : t1[i] = t2[i]
  BY PrefixCharacters
<1>2. t1 \in Seq(Char) /\ t2 \in Seq(Char) /\ Len(t1) = Len(t2) /\ Len(t1) = TenantIDLength
  BY PrefixShape DEF Name
<1> QED  BY <1>1, <1>2, SeqEqual

(***************************************************************************)
(* UpstreamNamespace always lands in the tenant's own names, and resolving *)
(* a resolved name changes nothing: the two spellings a workload and a     *)
(* tenant use of one namespace meet.                                       *)
(***************************************************************************)
THEOREM UpstreamNamespaceResolves ==
    ASSUME NEW t \in Tenant, NEW n \in Name \ {NoName}
    PROVE  /\ UpstreamNamespace(t, n) \in Name
           /\ HasTenantPrefix(t, UpstreamNamespace(t, n))
           /\ UpstreamNamespace(t, UpstreamNamespace(t, n)) = UpstreamNamespace(t, n)
  BY TrimUndoesAdd DEF UpstreamNamespace

(***************************************************************************)
(* The id read off a prefixed name is the id that was put there.           *)
(***************************************************************************)
THEOREM TenantIDIsReadBack ==
    ASSUME NEW t \in Tenant, NEW n \in Name \ {NoName}
    PROVE  TenantIDFromPrefixed(AddTenantIDPrefix(t, n)) = t
<1> DEFINE a == AddTenantIDPrefix(t, n)
<1>1. a \in Name /\ Len(a) = TenantIDLength + 1 + Len(n) /\ HasTenantPrefix(t, a)
  BY TrimUndoesAdd
<1>2. Len(n) \in Nat \ {0}
  BY LenProperties, EmptySeq DEF NoName, Name
<1>3. /\ Len(a) >= TenantIDLength + 2
      /\ a[TenantIDLength + 1] = Dash
      /\ \A i \in 1 .. TenantIDLength : a[i] = t[i]
  BY <1>1, <1>2, PrefixCharacters, LengthAssumption
<1>4. SubSeq(a, 1, TenantIDLength) = t
  <2>1. \A i \in 1 .. TenantIDLength : a[i] \in Char
    BY <1>1, <1>3, LengthAssumption, ElementOfSeq DEF Name
  <2>2. /\ SubSeq(a, 1, TenantIDLength) \in Seq(Char)
        /\ Len(SubSeq(a, 1, TenantIDLength)) = TenantIDLength
        /\ \A i \in 1 .. TenantIDLength : SubSeq(a, 1, TenantIDLength)[i] = a[i]
    BY <2>1, LengthAssumption, SubSeqProperties
  <2>3. t \in Seq(Char) /\ Len(t) = TenantIDLength
    BY PrefixShape DEF Name
  <2> QED  BY <1>3, <2>2, <2>3, SeqEqual
<1> QED  BY <1>3, <1>4 DEF TenantIDFromPrefixed

=============================================================================
