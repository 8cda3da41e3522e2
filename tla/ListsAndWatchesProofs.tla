------------------------ MODULE ListsAndWatchesProofs ------------------------
(***************************************************************************)
(* Proofs about ListsAndWatches, for any tenants and names, whatever the   *)
(* informer asks for, and however often upstream changes and streams       *)
(* break.                                                                  *)
(***************************************************************************)
EXTENDS ListsAndWatches, TenantNamesProofs

-----------------------------------------------------------------------------
(***************************************************************************)
(* The names of the tenant's objects, here and upstream.                   *)
(***************************************************************************)
LEMMA OwnNames ==
    ASSUME NEW n \in Owner, HasTenantPrefix(Self, n)
    PROVE  /\ n \in Name /\ TrimTenantIDPrefix(Self, n) \in Name
           /\ AddTenantIDPrefix(Self, TrimTenantIDPrefix(Self, n)) = n
           /\ n # NoName /\ TrimTenantIDPrefix(Self, n) # NoName
<1>1. n \in Name /\ n # AddTenantIDPrefix(Self, NoName) /\ Self \in Tenant
  BY ListsAndWatchesAssumption
<1>2. /\ TrimTenantIDPrefix(Self, n) \in Name
      /\ AddTenantIDPrefix(Self, TrimTenantIDPrefix(Self, n)) = n
  BY <1>1, AddUndoesTrim
<1>3. NoName \in Name /\ Len(NoName) = 0
  BY EmptySeq DEF NoName, Name
<1>4. ~HasTenantPrefix(Self, NoName)
  BY <1>1, <1>3, PrefixCharacters, LengthAssumption
<1> QED  BY <1>1, <1>2, <1>4

LEMMA ToTenantParts ==
    ASSUME NEW k \in Kind, NEW o \in ObjectsOf(k)
    PROVE  /\ ToTenant(Self, o) = [owner |-> TrimTenantIDPrefix(Self, o.owner), name |-> o.name]
           /\ o.owner \in Owner
  BY DEF ToTenant, ObjectsOf

\* Among the tenant's objects, its name for one is the name of that one alone.
LEMMA TermsAreUnique ==
    ASSUME NEW k \in Kind, NEW o \in ObjectsOf(k), NEW p \in ObjectsOf(k),
           HasTenantPrefix(Self, o.owner), HasTenantPrefix(Self, p.owner),
           ToTenant(Self, o) = ToTenant(Self, p)
    PROVE  o = p
<1>1. o.name = p.name /\ TrimTenantIDPrefix(Self, o.owner) = TrimTenantIDPrefix(Self, p.owner)
  BY ToTenantParts
<1>2. o.owner = p.owner
  BY <1>1, OwnNames, ToTenantParts
<1> QED  BY <1>1, <1>2 DEF ObjectsOf

-----------------------------------------------------------------------------
(***************************************************************************)
(* The rewritten selector selects, among the tenant's objects, what the    *)
(* tenant meant by the selector it sent.                                   *)
(***************************************************************************)

\* A namespace in either spelling, in upstream's terms and in the tenant's.
LEMMA NamespaceMeant ==
    ASSUME NEW s \in Name \ {NoName}, NEW n \in Owner, HasTenantPrefix(Self, n)
    PROVE  UpstreamNamespace(Self, s) = n
             <=> TrimTenantIDPrefix(Self, s) = TrimTenantIDPrefix(Self, n)
<1>1. Self \in Tenant
  BY ListsAndWatchesAssumption
<1>2. CASE HasTenantPrefix(Self, s)
  <2>1. UpstreamNamespace(Self, s) = s
    BY <1>2 DEF UpstreamNamespace
  <2>2. AddTenantIDPrefix(Self, TrimTenantIDPrefix(Self, s)) = s
    BY <1>1, <1>2, AddUndoesTrim
  <2> QED  BY <2>1, <2>2, OwnNames
<1>3. CASE ~HasTenantPrefix(Self, s)
  <2>1. UpstreamNamespace(Self, s) = AddTenantIDPrefix(Self, s)
    BY <1>3 DEF UpstreamNamespace
  <2>2. TrimTenantIDPrefix(Self, s) = s
    BY <1>3 DEF TrimTenantIDPrefix
  <2>3. TrimTenantIDPrefix(Self, AddTenantIDPrefix(Self, s)) = s
    BY <1>1, TrimUndoesAdd
  <2> QED  BY <2>1, <2>2, <2>3, OwnNames
<1> QED  BY <1>2, <1>3

LEMMA NameMeant ==
    ASSUME NEW s \in Name, NEW n \in Owner, HasTenantPrefix(Self, n)
    PROVE  AddTenantIDPrefix(Self, s) = n <=> s = TrimTenantIDPrefix(Self, n)
  BY OwnNames, TrimUndoesAdd, ListsAndWatchesAssumption

LEMMA SelectorParts ==
    ASSUME NEW a \in Asked
    PROVE  /\ a.kind \in Kind
           /\ \/ a.selector = Everything
              \/ /\ a.selector.label \in NamespaceLabel /\ a.selector.owner \in Selecting
                 /\ a.selector = [label |-> a.selector.label, owner |-> a.selector.owner,
                                  name |-> NoName]
              \/ /\ a.selector.label = "metadata.name" /\ NamespaceScoped(a.kind)
                 /\ a.selector.owner = NoName /\ a.selector.name # NoName
                 /\ a.selector = [label |-> "metadata.name", owner |-> NoName,
                                  name |-> a.selector.name]
              \/ /\ a.selector.label = "metadata.name" /\ ~NamespaceScoped(a.kind)
                 /\ a.selector.owner \in Selecting
                 /\ IsCRD(a.kind) => a.selector.name # NoName
                 /\ a.selector = [label |-> "metadata.name", owner |-> a.selector.owner,
                                  name |-> a.selector.name]
<1>1. a.kind \in Kind /\ a.selector \in Selectors(a.kind)
  BY DEF Asked
<1>2. NoName \notin ObjectName
  BY ListsAndWatchesAssumption
<1>3. CASE NamespaceScoped(a.kind)
  BY <1>1, <1>2, <1>3 DEF Selectors
<1>4. CASE ~NamespaceScoped(a.kind)
  BY <1>1, <1>2, <1>4 DEF Selectors
<1> QED  BY <1>1, <1>3, <1>4

LEMMA SelectorsAgree ==
    ASSUME asked \in Asked, NEW o \in ObjectsOf(asked.kind), HasTenantPrefix(Self, o.owner)
    PROVE  Selects(asked.kind, Sent, o) <=> Selects(asked.kind, Meant, ToTenant(Self, o))
<1> DEFINE k == asked.kind
           s == asked.selector
           p == ToTenant(Self, o)
<1>0. k \in Kind /\ Self \in Tenant /\ Selecting \subseteq Name
  BY SelectorParts, ListsAndWatchesAssumption
<1>1. /\ p.owner = TrimTenantIDPrefix(Self, o.owner) /\ p.name = o.name
      /\ o.owner \in Owner /\ Self \in Tenant /\ Selecting \subseteq Name
  <2>1. p = [owner |-> TrimTenantIDPrefix(Self, o.owner), name |-> o.name] /\ o.owner \in Owner
    BY <1>0, ToTenantParts
  <2> QED  BY <1>0, <2>1
<1>2. o.owner # NoName /\ p.owner # NoName
  BY <1>1, OwnNames
<1>3. CASE s = Everything
  BY <1>3 DEF Selects, Sent, Meant, ConvertInternalListOptions, Everything, NamespaceLabel
<1>4. CASE /\ s.label \in NamespaceLabel /\ s.owner \in Selecting
           /\ s = [label |-> s.label, owner |-> s.owner, name |-> NoName]
  <2>1. /\ Selects(k, Sent, o) <=> Sent.owner = o.owner
        /\ Selects(k, Meant, p) <=> Meant.owner = p.owner
        /\ Meant.owner = TrimTenantIDPrefix(Self, s.owner)
        /\ Sent.owner = IF s.owner = NoName THEN NoName ELSE UpstreamNamespace(Self, s.owner)
    <3>1. Meant.label = s.label /\ Meant.owner = TrimTenantIDPrefix(Self, s.owner)
      BY <1>4 DEF Meant
    <3>2. CASE s.owner = NoName
      <4>1. Sent = s
        BY <1>4, <3>2 DEF Sent, ConvertInternalListOptions
      <4> QED  BY <1>4, <3>1, <3>2, <4>1 DEF Selects, NamespaceLabel
    <3>3. CASE s.owner # NoName
      <4>1. Sent = [s EXCEPT !.owner = UpstreamNamespace(Self, s.owner)]
        BY <1>4, <3>3 DEF Sent, ConvertInternalListOptions, NamespaceLabel
      <4>2. Sent.label = s.label /\ Sent.owner = UpstreamNamespace(Self, s.owner)
        BY <1>4, <4>1
      <4> QED  BY <1>4, <3>1, <3>3, <4>2 DEF Selects, NamespaceLabel
    <3> QED  BY <3>2, <3>3
  <2>2. CASE s.owner = NoName
    <3>1. TrimTenantIDPrefix(Self, NoName) = NoName
      <4>1. NoName \in Name /\ Len(NoName) = 0
        BY EmptySeq DEF NoName, Name
      <4>2. ~HasTenantPrefix(Self, NoName)
        BY <1>1, <4>1, PrefixCharacters, LengthAssumption
      <4> QED  BY <4>2 DEF TrimTenantIDPrefix
    <3> QED  BY <1>2, <2>1, <2>2, <3>1
  <2>3. CASE s.owner # NoName
    BY <1>1, <1>4, <2>1, <2>3, NamespaceMeant
  <2> QED  BY <2>2, <2>3
<1>5. CASE /\ s.label = "metadata.name" /\ NamespaceScoped(k)
           /\ s.owner = NoName /\ s.name # NoName
  <2>1. Sent = s /\ Meant = s
    BY <1>5 DEF Sent, Meant, ConvertInternalListOptions, NamespaceLabel
  <2> QED  BY <1>1, <1>5, <2>1 DEF Selects, NamespaceLabel
<1>6. CASE /\ s.label = "metadata.name" /\ ~NamespaceScoped(k)
           /\ s.owner \in Selecting /\ (IsCRD(k) => s.name # NoName)
           /\ s = [label |-> "metadata.name", owner |-> s.owner, name |-> s.name]
  <2>1. Meant = s /\ Sent.label = "metadata.name" /\ Sent.name = s.name
    BY <1>6 DEF Sent, Meant, ConvertInternalListOptions, NamespaceLabel
  <2>2. /\ Selects(k, Sent, o) <=> Sent.name = o.name /\ Sent.owner = o.owner
        /\ Selects(k, Meant, p) <=> s.name = p.name /\ s.owner = p.owner
    BY <1>6, <2>1 DEF Selects, NamespaceLabel
  <2>3. CASE s.owner = NoName /\ (s.name = NoName \/ IsCRD(k))
    <3>1. Sent.owner = NoName
      BY <1>6, <2>3 DEF Sent, ConvertInternalListOptions, NamespaceLabel,
                        ConvertTenantObjectNameToUpstream
    <3> QED  BY <1>2, <2>2, <2>3, <3>1
  <2>4. CASE ~(s.owner = NoName /\ (s.name = NoName \/ IsCRD(k)))
    <3>1. Sent.owner = AddTenantIDPrefix(Self, s.owner)
      BY <1>6, <2>4 DEF Sent, ConvertInternalListOptions, NamespaceLabel,
                        ConvertTenantObjectNameToUpstream
    <3>2. Sent.owner = o.owner <=> s.owner = p.owner
      BY <1>1, <1>6, <3>1, NameMeant
    <3> QED  BY <1>1, <2>1, <2>2, <3>2
  <2> QED  BY <2>3, <2>4
<1>7. asked \in Asked
  OBVIOUS
<1> QED  BY <1>3, <1>4, <1>5, <1>6, <1>7, SelectorParts

-----------------------------------------------------------------------------
(***************************************************************************)
(* The inductive invariant.  A version is what its change made of the one  *)
(* before; a list on its way is of a version that is not older than what   *)
(* the informer knows; and the cache is what stood at the version it knows *)
(* and, in what it asked for, still stood where its stream has come to.    *)
(***************************************************************************)
Version == [type : {"put", "gone"}, object : Objects, standing : SUBSET Objects]

Typed ==
    /\ asked \in Asked
    /\ log \in Seq(Version)
    /\ known \in Nat /\ position \in Nat
    /\ known <= position /\ position <= Len(log)

VersionsInv == \A v \in 1 .. Len(log) : log[v].standing = Applied(log[v], Standing(v - 1))

AnswerInv ==
    phase = "respond" =>
        /\ answer.version \in known .. Len(log)
        /\ answer.items = { o \in Standing(answer.version) : Selects(asked.kind, Sent, o) }

CacheInv ==
    /\ cache = Seen(known)
    /\ \A v \in known .. position : Seen(v) = Seen(known)

IInv == Typed /\ VersionsInv /\ AnswerInv /\ CacheInv

LEMMA StandingType ==
    ASSUME Typed, NEW v \in 0 .. Len(log)
    PROVE  Standing(v) \in SUBSET Objects
<1>1. CASE v = 0
  BY <1>1 DEF Standing
<1>2. CASE v # 0
  <2>1. v \in 1 .. Len(log)
    BY <1>2
  <2>2. log[v] \in Version
    BY <2>1, ElementOfSeq DEF Typed
  <2> QED  BY <1>2, <2>2 DEF Standing, Version
<1> QED  BY <1>1, <1>2

LEMMA OwnParts ==
    ASSUME Typed, NEW o \in Objects
    PROVE  /\ asked.kind \in Kind /\ o \in ObjectsOf(asked.kind)
           /\ Own(o) => HasTenantPrefix(Self, o.owner)
           /\ HasTenantPrefix(Self, o.owner) => (Own(o) <=> Selects(asked.kind, Sent, o))
  BY SelectorParts, SelectorsAgree DEF Typed, Objects, Own

\* What the tenant should see after a change.
SeenAfter(e, seen) ==
    IF Own(e.object)
    THEN Applied([type |-> e.type, object |-> ToTenant(Self, e.object)], seen)
    ELSE seen

LEMMA SeenOfApplied ==
    ASSUME Typed, NEW objs \in SUBSET Objects, NEW e, e.object \in Objects
    PROVE  InTerms(Self, { o \in Applied(e, objs) : Own(o) })
             = SeenAfter(e, InTerms(Self, { o \in objs : Own(o) }))
<1> DEFINE x == e.object
           mine == { o \in objs : Own(o) }
           after == { o \in Applied(e, objs) : Own(o) }
<1>1. CASE ~Own(x)
  <2>1. after = mine
    BY <1>1 DEF Applied
  <2> QED  BY <1>1, <2>1 DEF SeenAfter
<1>2. CASE Own(x) /\ e.type = "put"
  <2>1. after = mine \cup {x}
    BY <1>2 DEF Applied
  <2>2. InTerms(Self, mine \cup {x}) = InTerms(Self, mine) \cup {ToTenant(Self, x)}
    BY DEF InTerms
  <2>3. SeenAfter(e, InTerms(Self, mine)) = InTerms(Self, mine) \cup {ToTenant(Self, x)}
    BY <1>2 DEF SeenAfter, Applied
  <2> QED  BY <2>1, <2>2, <2>3
<1>3. CASE Own(x) /\ e.type # "put"
  <2>1. after = mine \ {x}
    BY <1>3 DEF Applied
  <2>2. \A o \in mine : ToTenant(Self, o) = ToTenant(Self, x) <=> o = x
    BY <1>3, OwnParts, TermsAreUnique
  <2>3. InTerms(Self, mine \ {x}) = InTerms(Self, mine) \ {ToTenant(Self, x)}
    <3>1. ASSUME NEW p \in InTerms(Self, mine \ {x})
          PROVE  p \in InTerms(Self, mine) \ {ToTenant(Self, x)}
      BY <2>2 DEF InTerms
    <3>2. ASSUME NEW p \in InTerms(Self, mine) \ {ToTenant(Self, x)}
          PROVE  p \in InTerms(Self, mine \ {x})
      BY DEF InTerms
    <3> QED  BY <3>1, <3>2
  <2>4. SeenAfter(e, InTerms(Self, mine)) = InTerms(Self, mine) \ {ToTenant(Self, x)}
    BY <1>3 DEF SeenAfter, Applied
  <2> QED  BY <2>1, <2>3, <2>4
<1> QED  BY <1>1, <1>2, <1>3

LEMMA SeenSteps ==
    ASSUME Typed, VersionsInv, NEW v \in 1 .. Len(log)
    PROVE  Seen(v) = SeenAfter(log[v], Seen(v - 1))
<1>1. log[v] \in Version /\ v \in Nat /\ v - 1 \in 0 .. Len(log)
  BY ElementOfSeq DEF Typed
<1>2. Standing(v) = Applied(log[v], Standing(v - 1))
  BY <1>1 DEF VersionsInv, Standing
<1>3. Standing(v - 1) \in SUBSET Objects /\ log[v].object \in Objects
  BY <1>1, StandingType DEF Version
<1> QED  BY <1>2, <1>3, SeenOfApplied DEF Seen

\* The list as the informer gets it.
LEMMA FilteredIsSeen ==
    ASSUME Typed, NEW v \in 0 .. Len(log)
    PROVE  InTerms(Self, FilterUnstructuredList(Self, asked.kind,
                            { o \in Standing(v) : Selects(asked.kind, Sent, o) }))
             = Seen(v)
<1>1. \A o \in Standing(v) :
         Own(o) <=> HasTenantPrefix(Self, o.owner) /\ Selects(asked.kind, Sent, o)
  BY StandingType, OwnParts
<1>2. FilterUnstructuredList(Self, asked.kind,
                             { o \in Standing(v) : Selects(asked.kind, Sent, o) })
        = { o \in Standing(v) : Own(o) }
  BY <1>1 DEF FilterUnstructuredList, UpstreamObjectBelongsToTenant
<1> QED  BY <1>2 DEF Seen

-----------------------------------------------------------------------------
LEMMA IInvInit == Init => IInv
<1> SUFFICES ASSUME Init PROVE IInv
  OBVIOUS
<1>1. log = << >> /\ known = 0 /\ position = 0 /\ cache = {} /\ phase = "list" /\ asked \in Asked
  BY AskingAssumption DEF Init
<1>2. log \in Seq(Version) /\ Len(log) = 0
  BY <1>1, EmptySeq
<1>3. Seen(0) = {}
  BY DEF Seen, Standing, InTerms
<1>4. Typed
  BY <1>1, <1>2 DEF Typed
<1>5. VersionsInv /\ AnswerInv
  BY <1>1, <1>2 DEF VersionsInv, AnswerInv
<1>6. CacheInv
  BY <1>1, <1>3 DEF CacheInv
<1> QED  BY <1>4, <1>5, <1>6 DEF IInv

\* What stood at a version never changes.
LEMMA PastStays ==
    ASSUME Typed, UNCHANGED asked, NEW e, log' = Append(log, e), e \in Version
    PROVE  /\ log' \in Seq(Version) /\ Len(log') = Len(log) + 1 /\ log'[Len(log) + 1] = e
           /\ \A v \in 1 .. Len(log) : log'[v] = log[v]
           /\ \A v \in 0 .. Len(log) : Standing(v)' = Standing(v) /\ Seen(v)' = Seen(v)
<1>1. /\ log' \in Seq(Version) /\ Len(log') = Len(log) + 1 /\ log'[Len(log) + 1] = e
      /\ \A v \in 1 .. Len(log) : log'[v] = log[v]
  BY AppendProperties DEF Typed
<1>2. \A v \in 0 .. Len(log) : Standing(v)' = Standing(v)
  BY <1>1 DEF Standing
<1>3. \A v \in 0 .. Len(log) : Seen(v)' = Seen(v)
  BY <1>2 DEF Seen, InTerms, Own, Meant
<1> QED  BY <1>1, <1>2, <1>3

LEMMA ChangeParts ==
    ASSUME Typed, Change
    PROVE  \E e \in Version :
              /\ log' = Append(log, e)
              /\ e.standing = Applied(e, Standing(Len(log)))
<1>1. PICK e \in Events(Objects) :
        log' = Append(log, [type |-> e.type, object |-> e.object,
                            standing |-> Applied(e, Present)])
  BY DEF Change
<1>2. Present \in SUBSET Objects /\ Present = Standing(Len(log))
  BY StandingType, LenProperties DEF Present, Typed
<1>3. Applied(e, Present) \in SUBSET Objects /\ e.type \in {"put", "gone"} /\ e.object \in Objects
  BY <1>1, <1>2 DEF Applied, Events
<1> DEFINE w == [type |-> e.type, object |-> e.object, standing |-> Applied(e, Present)]
<1>4. w \in Version /\ w.standing = Applied(w, Standing(Len(log)))
  BY <1>2, <1>3 DEF Version, Applied
<1> QED  BY <1>1, <1>4

LEMMA ChangeKeeps ==
    ASSUME IInv, Change
    PROVE  IInv'
<1>1. PICK e \in Version : log' = Append(log, e) /\ e.standing = Applied(e, Standing(Len(log)))
  BY ChangeParts DEF IInv
<1>2. /\ asked' = asked /\ phase' = phase /\ answer' = answer /\ position' = position
      /\ known' = known /\ cache' = cache
  BY DEF Change
<1>3. /\ log' \in Seq(Version) /\ Len(log') = Len(log) + 1 /\ log'[Len(log) + 1] = e
      /\ \A v \in 1 .. Len(log) : log'[v] = log[v]
      /\ \A v \in 0 .. Len(log) : Standing(v)' = Standing(v) /\ Seen(v)' = Seen(v)
  BY <1>1, <1>2, PastStays DEF IInv
<1>4. Len(log) \in Nat
  BY LenProperties DEF IInv, Typed
<1>5. Typed'
  BY <1>2, <1>3, <1>4 DEF IInv, Typed, Version, Objects
<1>6. VersionsInv'
  <2> SUFFICES ASSUME NEW v \in 1 .. Len(log')
               PROVE  log'[v].standing = Applied(log'[v], Standing(v - 1)')
    BY DEF VersionsInv, Applied
  <2>1. CASE v = Len(log) + 1
    BY <1>1, <1>3, <1>4, <2>1
  <2>2. CASE v # Len(log) + 1
    <3>1. v \in 1 .. Len(log) /\ v - 1 \in 0 .. Len(log)
      BY <1>3, <1>4, <2>2
    <3> QED  BY <1>3, <3>1 DEF IInv, VersionsInv
  <2> QED  BY <2>1, <2>2
<1>7. AnswerInv'
  <2> SUFFICES ASSUME phase = "respond"
               PROVE  /\ answer.version \in known .. Len(log')
                      /\ answer.items = { o \in Standing(answer.version)' :
                                             Selects(asked.kind, Sent', o) }
    BY <1>2 DEF AnswerInv
  <2>1. /\ answer.version \in known .. Len(log)
        /\ answer.items = { o \in Standing(answer.version) : Selects(asked.kind, Sent, o) }
    BY DEF IInv, AnswerInv
  <2>2. answer.version \in 0 .. Len(log) /\ known \in Nat
    BY <1>4, <2>1 DEF IInv, Typed
  <2>3. Sent' = Sent
    BY <1>2 DEF Sent
  <2>4. Standing(answer.version)' = Standing(answer.version)
    <3>1. PICK v \in 0 .. Len(log) : v = answer.version
      BY <2>2
    <3>2. Standing(v)' = Standing(v)
      BY <1>3
    <3> QED  BY <1>2, <3>1, <3>2 DEF Standing
  <2>5. answer.version \in known .. Len(log')
    BY <1>3, <1>4, <2>1, <2>2
  <2> QED  BY <2>1, <2>3, <2>4, <2>5
<1>8. CacheInv'
  <2>1. known \in 0 .. Len(log) /\ \A v \in known .. position : v \in 0 .. Len(log)
    BY <1>4 DEF IInv, Typed
  <2> QED  BY <1>2, <1>3, <2>1 DEF IInv, CacheInv
<1> QED  BY <1>5, <1>6, <1>7, <1>8 DEF IInv

\* Steps that leave upstream's versions and the informer's cache as they are.
LEMMA PausesKeep ==
    ASSUME IInv, UNCHANGED <<asked, log, known, cache>>,
           phase' \in {"list", "open", "watch"}, position' = position \/ position' = known
    PROVE  IInv'
<1>1. \A v : Standing(v)' = Standing(v)
  BY DEF Standing
<1>2. \A v : Seen(v)' = Seen(v)
  BY <1>1 DEF Seen, InTerms, Own, Meant
<1>3. known <= position /\ known \in Nat /\ position \in Nat
  BY DEF IInv, Typed
<1>4. Typed'
  BY <1>3 DEF IInv, Typed, Version, Objects
<1>5. VersionsInv'
  BY <1>1 DEF IInv, VersionsInv, Applied
<1>6. CacheInv'
  BY <1>2, <1>3 DEF IInv, CacheInv
<1> QED  BY <1>4, <1>5, <1>6 DEF IInv, AnswerInv

LEMMA NothingKeeps ==
    ASSUME IInv, UNCHANGED <<asked, log, known, cache, position, phase, answer>>
    PROVE  IInv'
<1>1. \A v : Standing(v)' = Standing(v)
  BY DEF Standing
<1>2. \A v : Seen(v)' = Seen(v)
  BY <1>1 DEF Seen, InTerms, Own, Meant
<1>3. Typed'
  BY DEF IInv, Typed, Version, Objects
<1>4. VersionsInv'
  BY <1>1 DEF IInv, VersionsInv, Applied
<1>5. CacheInv'
  BY <1>2 DEF IInv, CacheInv
<1>6. AnswerInv'
  BY <1>1 DEF IInv, AnswerInv, Sent
<1> QED  BY <1>3, <1>4, <1>5, <1>6 DEF IInv

LEMMA ListKeeps ==
    ASSUME IInv, List
    PROVE  IInv'
<1>1. /\ UNCHANGED <<asked, log, known, cache, position>>
      /\ answer' = [version |-> Len(log), items |-> { o \in Present : Selects(asked.kind, Sent, o) }]
  BY DEF List
<1>2. \A v : Standing(v)' = Standing(v)
  BY <1>1 DEF Standing
<1>3. \A v : Seen(v)' = Seen(v)
  BY <1>1, <1>2 DEF Seen, InTerms, Own, Meant
<1>4. Typed'
  BY <1>1 DEF IInv, Typed, Version, Objects
<1>5. VersionsInv' /\ CacheInv'
  BY <1>1, <1>2, <1>3 DEF IInv, VersionsInv, CacheInv, Applied
<1>6. Len(log) \in known .. Len(log)
  BY LenProperties DEF IInv, Typed
<1>7. AnswerInv'
  BY <1>1, <1>2, <1>6 DEF AnswerInv, Present, Sent
<1> QED  BY <1>4, <1>5, <1>7 DEF IInv

LEMMA RespondKeeps ==
    ASSUME IInv, Respond
    PROVE  /\ IInv'
           /\ known' \in known .. Len(log) /\ cache' = Seen(known')
           /\ \A v : Seen(v)' = Seen(v)
<1>1. /\ phase = "respond" /\ phase' = "open" /\ UNCHANGED <<asked, log>>
      /\ cache' = InTerms(Self, FilterUnstructuredList(Self, asked.kind, answer.items))
      /\ known' = answer.version /\ position' = answer.version
  BY DEF Respond
<1>2. /\ answer.version \in known .. Len(log)
      /\ answer.items = { o \in Standing(answer.version) : Selects(asked.kind, Sent, o) }
  BY <1>1 DEF IInv, AnswerInv
<1>3. answer.version \in 0 .. Len(log) /\ Len(log) \in Nat /\ known \in Nat
  BY <1>2, LenProperties DEF IInv, Typed
<1>4. cache' = Seen(known')
  BY <1>1, <1>2, <1>3, FilteredIsSeen DEF IInv
<1>5. \A v : Standing(v)' = Standing(v)
  BY <1>1 DEF Standing
<1>6. \A v : Seen(v)' = Seen(v)
  BY <1>1, <1>5 DEF Seen, InTerms, Own, Meant
<1>7. Typed'
  BY <1>1, <1>2, <1>3 DEF IInv, Typed, Version, Objects
<1>8. VersionsInv' /\ AnswerInv'
  BY <1>1, <1>5 DEF IInv, VersionsInv, AnswerInv, Applied
<1>9. CacheInv'
  <2>1. cache' = Seen(known)'
    BY <1>4, <1>5, <1>1 DEF Seen, InTerms, Own, Meant, Standing
  <2>2. ASSUME NEW v \in known' .. position' PROVE v = known'
    BY <1>1, <1>3, <2>2
  <2>3. \A v \in known' .. position' : Seen(v)' = Seen(known)'
    BY <1>1, <2>2 DEF Seen, InTerms, Own, Meant, Standing
  <2> QED  BY <2>1, <2>3 DEF CacheInv
<1> QED  BY <1>1, <1>2, <1>4, <1>6, <1>7, <1>8, <1>9 DEF IInv

LEMMA DeliverKeeps ==
    ASSUME IInv, Deliver
    PROVE  /\ IInv'
           /\ \/ known' \in known .. Len(log) /\ cache' = Seen(known')
              \/ known' = known /\ cache' = cache
           /\ \A v : Seen(v)' = Seen(v)
<1> DEFINE at == position + 1
           e == log[at]
<1>1. /\ phase = "watch" /\ position < Len(log) /\ position' = at
      /\ UNCHANGED <<asked, log, phase, answer>>
  BY DEF Deliver
<1>2. /\ Typed /\ VersionsInv /\ Len(log) \in Nat /\ known \in Nat /\ position \in Nat
      /\ known <= position
  BY LenProperties DEF IInv, Typed
<1>3. at \in 1 .. Len(log) /\ at \in Nat /\ at - 1 = position
  BY <1>1, <1>2
<1>4. Seen(at) = SeenAfter(e, Seen(position)) /\ e.object \in Objects
  <2> HIDE DEF at
  <2>1. log[at] \in Version
    BY <1>2, <1>3, ElementOfSeq DEF Typed
  <2>2. Seen(at) = SeenAfter(log[at], Seen(position))
    BY <1>2, <1>3, SeenSteps
  <2> QED  BY <2>1, <2>2 DEF Version
<1>5. Seen(position) = cache /\ \A v \in known .. position : Seen(v) = cache
  BY <1>2 DEF IInv, CacheInv
<1>6. \A v : Seen(v)' = Seen(v) /\ Standing(v)' = Standing(v)
  BY <1>1 DEF Seen, Standing, InTerms, Own, Meant
<1>7. /\ Selects(asked.kind, Sent, e.object)
      /\ UpstreamObjectBelongsToTenant(Self, asked.kind, e.object)
      <=> Own(e.object)
  BY <1>2, <1>4, OwnParts DEF UpstreamObjectBelongsToTenant
<1>8. VersionsInv' /\ AnswerInv'
  BY <1>1, <1>2, <1>6 DEF VersionsInv, AnswerInv, Applied
<1>9. CASE Own(e.object)
  <2>1. /\ known' = at
        /\ cache' = Applied([e EXCEPT !.object = ToTenant(Self, @)], cache)
    BY <1>7, <1>9 DEF Deliver
  <2>2. cache' = Seen(at)
    BY <1>4, <1>5, <1>9, <2>1 DEF SeenAfter, Applied
  <2>3. Typed'
    BY <1>1, <1>2, <1>3, <2>1 DEF Typed, Version, Objects
  <2>4. CacheInv'
    <3>1. \A v \in known' .. position' : v = at
      BY <1>1, <1>3, <2>1
    <3>2. Seen(known)' = Seen(at)
      BY <1>1, <2>1 DEF Seen, Standing, InTerms, Own, Meant
    <3> QED  BY <1>6, <2>2, <3>1, <3>2 DEF CacheInv
  <2> QED  BY <1>2, <1>3, <1>6, <1>8, <2>1, <2>2, <2>3, <2>4 DEF IInv
<1>10. CASE ~Own(e.object)
  <2>1. known' = known /\ cache' = cache
    BY <1>7, <1>10 DEF Deliver
  <2>2. Seen(at) = cache
    BY <1>4, <1>5, <1>10 DEF SeenAfter
  <2>3. Typed'
    BY <1>1, <1>2, <1>3, <2>1 DEF Typed, Version, Objects
  <2>4. CacheInv'
    <3>1. \A v \in known' .. position' : v \in known .. position \/ v = at
      BY <1>1, <1>2, <2>1
    <3>2. \A v \in known' .. position' : Seen(v) = cache
      BY <1>5, <2>2, <3>1
    <3>3. Seen(known)' = Seen(known) /\ Seen(known) = cache
      BY <1>1, <1>2, <1>5, <2>1 DEF Seen, Standing, InTerms, Own, Meant
    <3> QED  BY <1>6, <2>1, <3>2, <3>3 DEF CacheInv
  <2> QED  BY <1>6, <1>8, <2>1, <2>3, <2>4 DEF IInv
<1> QED  BY <1>9, <1>10

LEMMA IInvStep == IInv /\ [Next]_vars => IInv'
<1> SUFFICES ASSUME IInv, [Next]_vars PROVE IInv'
  OBVIOUS
<1>1. CASE Change
  BY <1>1, ChangeKeeps
<1>2. CASE Compact
  <2>1. UNCHANGED <<asked, log, known, cache, position, phase, answer>>
    BY <1>2 DEF Compact
  <2> QED  BY <2>1, NothingKeeps
<1>3. CASE List
  BY <1>3, ListKeeps
<1>4. CASE Respond
  BY <1>4, RespondKeeps
<1>5. CASE Open
  <2>1. /\ UNCHANGED <<asked, log, known, cache, position>>
        /\ phase' \in {"list", "open", "watch"}
    BY <1>5 DEF Open
  <2> QED  BY <2>1, PausesKeep
<1>6. CASE Deliver
  BY <1>6, DeliverKeeps
<1>7. CASE Cut
  <2>1. /\ UNCHANGED <<asked, log, known, cache>> /\ position' = known
        /\ phase' \in {"list", "open", "watch"}
    BY <1>7 DEF Cut
  <2> QED  BY <2>1, PausesKeep
<1>8. CASE UNCHANGED vars
  BY <1>8, NothingKeeps DEF vars
<1> QED  BY <1>1, <1>2, <1>3, <1>4, <1>5, <1>6, <1>7, <1>8 DEF Next, InformerStep

LEMMA SpecSteps == Spec => Init /\ [][Next]_vars
  BY PTL DEF Spec

LEMMA IInvHolds == Spec => []IInv
  BY IInvInit, IInvStep, SpecSteps, PTL

-----------------------------------------------------------------------------
(***************************************************************************)
(* Every step is one of TenantInformer, or none.                           *)
(***************************************************************************)
LEMMA MomentsParts ==
    ASSUME Typed
    PROVE  /\ momentsBar \in Seq(SUBSET SomeObject)
           /\ Len(momentsBar) = Len(log) + 1
           /\ \A v \in 0 .. Len(log) : momentsBar[v + 1] = Seen(v)
           /\ Seen(Len(log)) \in SUBSET SomeObject
           /\ Last(momentsBar) = Seen(Len(log))
<1>1. Len(log) \in Nat
  BY LenProperties DEF Typed
<1>2. ASSUME NEW v \in 0 .. Len(log) PROVE Seen(v) \in SUBSET SomeObject
  <2>1. Standing(v) \subseteq ObjectsOf(asked.kind) /\ asked.kind \in Kind
    BY StandingType, SelectorParts DEF Typed, Objects
  <2>2. \A o \in Standing(v) : Own(o) => HasTenantPrefix(Self, o.owner)
    BY DEF Own
  <2> QED  BY <2>1, <2>2 DEF Seen, SomeObject, InTerms
<1>3. momentsBar \in [1 .. Len(log) + 1 -> SUBSET SomeObject]
  <2>1. \A m \in 1 .. Len(log) + 1 : m - 1 \in 0 .. Len(log)
    BY <1>1
  <2> QED  BY <1>2, <2>1 DEF momentsBar
<1>4. momentsBar \in Seq(SUBSET SomeObject) /\ Len(momentsBar) = Len(log) + 1
  BY <1>1, <1>3, SeqDef, LenProperties
<1>5. \A v \in 0 .. Len(log) : momentsBar[v + 1] = Seen(v)
  <2> TAKE v \in 0 .. Len(log)
  <2>1. v + 1 \in 1 .. Len(log) + 1 /\ (v + 1) - 1 = v
    BY <1>1
  <2> QED  BY <2>1 DEF momentsBar
<1>6. Last(momentsBar) = Seen(Len(log))
  BY <1>1, <1>4, <1>5 DEF Last
<1> QED  BY <1>1, <1>2, <1>4, <1>5, <1>6

LEMMA InformerInit == Init => Informer!Init
<1> SUFFICES ASSUME Init PROVE Informer!Init
  OBVIOUS
<1>1. Len(log) = 0 /\ known = 0 /\ cache = {}
  BY EmptySeq DEF Init
<1>2. Seen(0) = {}
  BY DEF Seen, Standing, InTerms
<1>3. momentsBar = [m \in 1 .. 1 |-> {}]
  BY <1>1, <1>2 DEF momentsBar
<1>4. [m \in 1 .. 1 |-> {}] = << {} >>
  OBVIOUS
<1> QED  BY <1>1, <1>3, <1>4 DEF Informer!Init, atBar

LEMMA ChangePasses ==
    ASSUME IInv, Change
    PROVE  Informer!Pass
<1>1. PICK e \in Version : log' = Append(log, e) /\ e.standing = Applied(e, Standing(Len(log)))
  BY ChangeParts DEF IInv
<1>2. UNCHANGED <<asked, known, cache>>
  BY DEF Change
<1>3. /\ Len(log') = Len(log) + 1 /\ log'[Len(log) + 1] = e
      /\ \A v \in 0 .. Len(log) : Seen(v)' = Seen(v)
  BY <1>1, <1>2, PastStays DEF IInv
<1>4. Typed /\ Len(log) \in Nat
  BY LenProperties DEF IInv, Typed
<1>n. PICK n \in Nat : n = Len(log) + 1
  BY <1>4
<1>5. n # 0 /\ Len(log') = n /\ log'[n] = e
  BY <1>3, <1>4, <1>n
<1> DEFINE now == SeenAfter(e, Seen(Len(log)))
<1>6. Seen(n)' = now
  <2>1. Standing(n)' = Applied(e, Standing(Len(log)))
    BY <1>1, <1>5 DEF Standing
  <2>2. Seen(n)' = InTerms(Self, { o \in Applied(e, Standing(Len(log))) : Own(o) })
    BY <1>2, <2>1 DEF Seen, InTerms, Own, Meant
  <2>3. Standing(Len(log)) \in SUBSET Objects /\ e.object \in Objects
    BY <1>4, StandingType DEF Version
  <2> QED  BY <1>4, <2>2, <2>3, SeenOfApplied DEF Seen
<1>7. /\ momentsBar \in Seq(SUBSET SomeObject) /\ Len(momentsBar) = n
      /\ \A v \in 0 .. Len(log) : momentsBar[v + 1] = Seen(v)
      /\ Seen(Len(log)) \in SUBSET SomeObject
      /\ Last(momentsBar) = Seen(Len(log))
  BY <1>4, <1>n, MomentsParts
<1>8. now \in {Seen(Len(log))} \cup { Applied(c, Seen(Len(log))) : c \in Events(SomeObject) }
  <2>1. CASE Own(e.object)
    <3> DEFINE c == [type |-> e.type, object |-> ToTenant(Self, e.object)]
    <3>1. e.object \in ObjectsOf(asked.kind) /\ asked.kind \in Kind /\ HasTenantPrefix(Self, e.object.owner)
      BY <1>4, <2>1, OwnParts DEF Version
    <3>2. ToTenant(Self, e.object) \in SomeObject
      BY <3>1 DEF SomeObject, InTerms
    <3>3. c \in Events(SomeObject)
      BY <3>2 DEF Events, Version
    <3>4. now = Applied(c, Seen(Len(log)))
      BY <2>1 DEF SeenAfter
    <3> QED  BY <3>3, <3>4
  <2>2. CASE ~Own(e.object)
    BY <2>2 DEF SeenAfter
  <2> QED  BY <2>1, <2>2
<1>9. now \in SUBSET SomeObject
  <2>1. \A c \in Events(SomeObject) : c.object \in SomeObject
    BY DEF Events
  <2> QED  BY <1>7, <1>8, <2>1 DEF Applied
<1> HIDE DEF now
<1>10. momentsBar' = Append(momentsBar, now)
  <2> DEFINE longer == Append(momentsBar, now)
  <2>1. /\ longer \in Seq(SUBSET SomeObject) /\ Len(longer) = n + 1
        /\ \A i \in 1 .. n : longer[i] = momentsBar[i]
        /\ longer[n + 1] = now
    BY <1>7, <1>9, AppendProperties
  <2> HIDE DEF longer
  <2>2. longer \in [1 .. n + 1 -> SUBSET SomeObject]
    BY <2>1, LenProperties
  <2>3. momentsBar' = [i \in 1 .. n + 1 |-> Seen(i - 1)']
    BY <1>5 DEF momentsBar
  <2>4. ASSUME NEW i \in 1 .. n + 1 PROVE longer[i] = Seen(i - 1)'
    <3>1. CASE i = n + 1
      <4>1. i - 1 = n
        BY <1>5, <3>1
      <4> QED  BY <1>6, <2>1, <3>1, <4>1
    <3>2. CASE i # n + 1
      <4>1. i \in 1 .. n /\ i - 1 \in 0 .. Len(log) /\ (i - 1) + 1 = i
        BY <1>4, <1>n, <3>2
      <4>2. Seen(i - 1)' = Seen(i - 1)
        BY <1>3, <4>1
      <4>3. momentsBar[(i - 1) + 1] = Seen(i - 1)
        BY <1>7, <4>1
      <4> QED  BY <2>1, <4>1, <4>2, <4>3
    <3> QED  BY <3>1, <3>2
  <2>5. longer = [i \in 1 .. n + 1 |-> Seen(i - 1)']
    BY <2>2, <2>4
  <2> QED  BY <2>3, <2>5 DEF longer
<1>11. atBar' = atBar /\ cache' = cache
  BY <1>2 DEF atBar
<1>12. now \in {Last(momentsBar)} \cup { Applied(c, Last(momentsBar)) : c \in Events(SomeObject) }
  BY <1>7, <1>8
<1>13. \A c, s : Informer!Applied(c, s) = Applied(c, s)
  BY DEF Informer!Applied, Applied
<1>14. now \in {Last(momentsBar)} \cup { Informer!Applied(c, Last(momentsBar)) : c \in Events(SomeObject) }
  BY <1>12, <1>13
<1>15. \E m \in {Last(momentsBar)} \cup
                  { Informer!Applied(c, Last(momentsBar)) : c \in Events(SomeObject) } :
          momentsBar' = Append(momentsBar, m)
  <2> HIDE DEF momentsBar
  <2> QED  BY <1>10, <1>14
<1>16. UNCHANGED <<atBar, cache>>
  BY <1>11
<1>17. Informer!Last(momentsBar) = Last(momentsBar)
  BY DEF Informer!Last, Last
<1> QED  BY <1>15, <1>16, <1>17 DEF Informer!Pass

\* The cache moves on to a version that is not older.
LEMMA CacheCatchesUp ==
    ASSUME Typed, NEW v \in known .. Len(log), known' = v, cache' = Seen(v),
           \A u : Seen(u)' = Seen(u), UNCHANGED log
    PROVE  Informer!CatchUp
<1>1. Len(log) \in Nat /\ known \in Nat
  BY LenProperties DEF Typed
<1>2. Len(momentsBar) = Len(log) + 1 /\ momentsBar[v + 1] = Seen(v)
  BY <1>1, MomentsParts
<1>3. atBar' = v + 1 /\ atBar' \in atBar .. Len(momentsBar)
  BY <1>1, <1>2 DEF atBar
<1>4. momentsBar' = momentsBar
  BY DEF momentsBar
<1> QED  BY <1>2, <1>3, <1>4 DEF Informer!CatchUp

LEMMA InformerNext == IInv /\ [Next]_vars => [Informer!Next]_(Informer!vars)
<1> SUFFICES ASSUME IInv, [Next]_vars PROVE Informer!Next \/ UNCHANGED Informer!vars
  OBVIOUS
<1>1. CASE Change
  BY <1>1, ChangePasses DEF Informer!Next
<1>2. ASSUME UNCHANGED <<asked, log, known, cache>> PROVE UNCHANGED Informer!vars
  <2>1. \A v : Standing(v)' = Standing(v)
    BY <1>2 DEF Standing
  <2>2. \A v : Seen(v)' = Seen(v)
    BY <1>2, <2>1 DEF Seen, InTerms, Own, Meant
  <2>3. momentsBar' = momentsBar /\ atBar' = atBar
    BY <1>2, <2>2 DEF momentsBar, atBar
  <2> QED  BY <1>2, <2>3 DEF Informer!vars
<1>3. CASE Compact \/ List \/ Open \/ Cut
  BY <1>2, <1>3 DEF Compact, List, Open, Cut
<1>4. CASE Respond
  BY <1>4, RespondKeeps, CacheCatchesUp DEF Informer!Next, IInv, Respond
<1>5. CASE Deliver
  <2>1. UNCHANGED <<asked, log>> /\ \A v : Seen(v)' = Seen(v)
    BY <1>5, DeliverKeeps DEF Deliver
  <2>2. CASE known' \in known .. Len(log) /\ cache' = Seen(known')
    BY <2>1, <2>2, CacheCatchesUp DEF Informer!Next, IInv
  <2>3. CASE known' = known /\ cache' = cache
    BY <1>2, <2>1, <2>3
  <2> QED  BY <1>5, <2>2, <2>3, DeliverKeeps
<1>6. CASE UNCHANGED vars
  BY <1>2, <1>6 DEF vars
<1> QED  BY <1>1, <1>3, <1>4, <1>5, <1>6 DEF Next, InformerStep

(***************************************************************************)
(* The cache of a tenant's informer is always what some moment of the      *)
(* tenant's own cluster looked like, narrowed to what it asked for, and    *)
(* never goes back (ConvertInternalListOptions, FilterUnstructuredList,    *)
(* UpstreamObjectBelongsToTenant).                                         *)
(***************************************************************************)
THEOREM CacheIsAMoment == Spec => ImplementsTenantInformer
  BY InformerInit, InformerNext, IInvHolds, SpecSteps, PTL
     DEF ImplementsTenantInformer, Informer!Spec

=============================================================================
