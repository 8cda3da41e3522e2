---------------------------- MODULE ListsAndWatches ----------------------------
(***************************************************************************)
(* A tenant's informer, through kubezoo.                                   *)
(*                                                                         *)
(* The informer (client-go's reflector, external) lists one kind, then     *)
(* watches it from the version of the list, and keeps a cache.  Both       *)
(* requests pass the gateway (external), which rewrites the field selector *)
(* for upstream, goes up with List and Watch of pkg/dynamic, and filters   *)
(* and trims with pkg/util what comes back: a list as a whole, a watch one *)
(* event at a time.  Upstream all tenants' changes make one sequence of    *)
(* versions; streams break, and old versions are compacted away.           *)
(***************************************************************************)
EXTENDS TenantNames

CONSTANTS Self,       \* the tenant whose informer this is
          Owner,      \* upstream: names, namespaces and groups
          ObjectName, \* names of namespaced objects and plurals of CRDs
          Selecting,  \* the owners a selector may ask for
          Asking,     \* what informers of this tenant ask for
          MaxLog,     \* bound: how often upstream changes
          MaxCuts     \* bound: how often a stream breaks

\* The API server takes no empty name and none that ends in a dash: nothing
\* upstream is called by the prefix alone.
ASSUME ListsAndWatchesAssumption ==
    /\ Self \in Tenant
    /\ Owner \subseteq Name \ {AddTenantIDPrefix(Self, NoName)}
    /\ ObjectName \subseteq Name \ {NoName}
    /\ Selecting \subseteq Name
    /\ MaxLog \in Nat /\ MaxCuts \in Nat

(***************************************************************************)
(* As in TenantRequests, "owner" is the name that carries the prefix: the  *)
(* namespace, the name of a cluster-scoped object, the group of a CRD.     *)
(***************************************************************************)
Kind == {"Event", "PersistentVolume", "CustomResourceDefinition"}
NamespaceScoped(kind) == kind = "Event"
IsCRD(kind) == kind = "CustomResourceDefinition"

ObjectsOf(kind) ==
    [owner : Owner, name : IF kind = "PersistentVolume" THEN {NoName} ELSE ObjectName]

Events(objs) == [type : {"put", "gone"}, object : objs]

(***************************************************************************)
(* What an informer asks for: a kind, and at most one field.  The value of *)
(* metadata.name is, as the names of objects are, an owner and a name.     *)
(***************************************************************************)
NamespaceLabel == {"metadata.namespace", "involvedObject.namespace"}

Everything == [label |-> "none", owner |-> NoName, name |-> NoName]

Selectors(kind) ==
    {Everything} \cup
    (IF NamespaceScoped(kind)
     THEN [label : NamespaceLabel, owner : Selecting, name : {NoName}] \cup
          [label : {"metadata.name"}, owner : {NoName}, name : ObjectName]
     ELSE [label : {"metadata.name"}, owner : Selecting,
           name : IF IsCRD(kind) THEN ObjectName ELSE {NoName}])

Asked == { a \in [kind : Kind, selector : UNION { Selectors(k) : k \in Kind }] :
             a.selector \in Selectors(a.kind) }

ASSUME AskingAssumption == Asking \subseteq Asked

\* The field selector as the API server applies it.
Selects(kind, selector, o) ==
    CASE selector.label = "none" -> TRUE
      [] selector.label \in NamespaceLabel -> selector.owner = o.owner
      [] selector.label = "metadata.name" ->
            /\ selector.name = o.name
            /\ selector.owner = IF NamespaceScoped(kind) THEN NoName ELSE o.owner

-----------------------------------------------------------------------------

\* The object's upstream name; a CRD's name without a dot stays as it is.
ConvertTenantObjectNameToUpstream(t, kind, owner) ==
    IF IsCRD(kind) /\ owner = NoName THEN owner ELSE AddTenantIDPrefix(t, owner)

\* Mutant: only the namespace of what an event is about is rewritten.
ConvertsInvolvedObjectOnly(t, kind, selector) ==
    IF selector.label = "involvedObject.namespace"
    THEN [selector EXCEPT !.owner = UpstreamNamespace(t, @)]
    ELSE selector

(***************************************************************************)
(* The field selector in upstream's terms: a namespace in either of its    *)
(* spellings, the name of what is not in a namespace.  An empty value is   *)
(* left as it is.                                                          *)
(***************************************************************************)
ConvertInternalListOptions(t, kind, selector) ==
    IF selector.owner = NoName /\ selector.name = NoName
    THEN selector
    ELSE CASE selector.label \in NamespaceLabel ->
                 [selector EXCEPT !.owner = UpstreamNamespace(t, @)]
           [] selector.label = "metadata.name" /\ ~NamespaceScoped(kind) ->
                 [selector EXCEPT !.owner = ConvertTenantObjectNameToUpstream(t, kind, @)]
           [] OTHER -> selector

\* Mutant: the prefix is looked for at the beginning of a CRD's name.
BelongsByFullName(t, kind, o) ==
    HasTenantPrefix(t, IF IsCRD(kind) THEN o.name ELSE o.owner)

\* The prefix decides, on the group of a CRD, the namespace or the name.
UpstreamObjectBelongsToTenant(t, kind, o) == HasTenantPrefix(t, o.owner)

FilterUnstructuredList(t, kind, items) ==
    { o \in items : UpstreamObjectBelongsToTenant(t, kind, o) }

ToTenant(t, o) == [o EXCEPT !.owner = TrimTenantIDPrefix(t, @)]

-----------------------------------------------------------------------------

VARIABLES asked,     \* the kind and the selector, never changed
          log,       \* how upstream's objects of that kind changed, and what
                     \* then stood; a version is a length of it
          oldest,    \* the oldest version upstream can still watch from
          phase,     \* what the informer is about to do
          answer,    \* the list on its way
          position,  \* the version up to which the stream was read
          known,     \* the last version the informer was told of
          cache,     \* the informer's objects, in the tenant's terms
          cuts       \* streams that broke so far

vars == <<asked, log, oldest, phase, answer, position, known, cache, cuts>>

\* What stands after the change e among the objects objs.
Applied(e, objs) ==
    IF e.type = "put" THEN objs \cup {e.object} ELSE objs \ {e.object}

Objects == ObjectsOf(asked.kind)

\* Upstream's objects at a version, and now.
Standing(v) == IF v = 0 THEN {} ELSE log[v].standing
Present == Standing(Len(log))

InTerms(t, objs) == { ToTenant(t, o) : o \in objs }

NoAnswer == [version |-> 0, items |-> {}]

Init ==
    /\ asked \in Asking
    /\ log = << >> /\ oldest = 0
    /\ phase = "list" /\ answer = NoAnswer
    /\ position = 0 /\ known = 0 /\ cache = {}
    /\ cuts = 0

\* A tenant, or the platform, creates, changes or deletes an object.
Change ==
    /\ Len(log) < MaxLog
    /\ \E e \in Events(Objects) :
         /\ e.type = "gone" <=> e.object \in Present
         /\ log' = Append(log, [type |-> e.type, object |-> e.object,
                                standing |-> Applied(e, Present)])
    /\ UNCHANGED <<asked, oldest, phase, answer, position, known, cache, cuts>>

Compact ==
    /\ oldest < Len(log)
    /\ oldest' = Len(log)
    /\ UNCHANGED <<asked, log, phase, answer, position, known, cache, cuts>>

\* The selector the gateway sends up.
Sent == ConvertInternalListOptions(Self, asked.kind, asked.selector)

List ==
    /\ phase = "list"
    /\ answer' = [version |-> Len(log), items |-> { o \in Present : Selects(asked.kind, Sent, o) }]
    /\ phase' = "respond"
    /\ UNCHANGED <<asked, log, oldest, position, known, cache, cuts>>

\* Mutant: the filtered list has not the version of the list it is made from.
RespondWithoutVersion ==
    /\ phase = "respond"
    /\ cache' = InTerms(Self, FilterUnstructuredList(Self, asked.kind, answer.items))
    /\ known' = 0 /\ position' = 0
    /\ answer' = NoAnswer
    /\ phase' = "open"
    /\ UNCHANGED <<asked, log, oldest, cuts>>

\* The list arrives, filtered, and replaces what the informer had.
Respond ==
    /\ phase = "respond"
    /\ cache' = InTerms(Self, FilterUnstructuredList(Self, asked.kind, answer.items))
    /\ known' = answer.version /\ position' = answer.version
    /\ answer' = NoAnswer
    /\ phase' = "open"
    /\ UNCHANGED <<asked, log, oldest, cuts>>

\* A watch from a version that is compacted away is refused: list again.
Open ==
    /\ phase = "open"
    /\ phase' = IF known < oldest THEN "list" ELSE "watch"
    /\ UNCHANGED <<asked, log, oldest, answer, position, known, cache, cuts>>

(***************************************************************************)
(* The next change is read from the stream, which upstream's selector may  *)
(* leave out; the gateway drops it or hands it on.  Only a change that is  *)
(* handed on tells the informer a version.                                 *)
(***************************************************************************)
Deliver ==
    /\ phase = "watch" /\ position < Len(log)
    /\ position' = position + 1
    /\ LET e == log[position + 1]
       IN IF /\ Selects(asked.kind, Sent, e.object)
             /\ UpstreamObjectBelongsToTenant(Self, asked.kind, e.object)
          THEN /\ known' = position + 1
               /\ cache' = Applied([e EXCEPT !.object = ToTenant(Self, @)], cache)
          ELSE UNCHANGED <<known, cache>>
    /\ UNCHANGED <<asked, log, oldest, phase, answer, cuts>>

\* The stream breaks: the informer goes on from the last version it knows.
Cut ==
    /\ phase = "watch" /\ cuts < MaxCuts
    /\ phase' = "open"
    /\ position' = known
    /\ cuts' = cuts + 1
    /\ UNCHANGED <<asked, log, oldest, answer, known, cache>>

InformerStep == List \/ Respond \/ Open \/ Deliver

Next == Change \/ Compact \/ InformerStep \/ Cut

(***************************************************************************)
(* The informer retries for as long as it runs, and the gateway reads its  *)
(* streams in a loop; upstream owes nobody a change, and a stream need not *)
(* break.                                                                  *)
(***************************************************************************)
Spec == Init /\ [][Next]_vars /\ WF_vars(InformerStep)

-----------------------------------------------------------------------------

(***************************************************************************)
(* What the tenant's request means in its own cluster, whatever is sent.   *)
(***************************************************************************)
Meant ==
    IF asked.selector.label \in NamespaceLabel
    THEN [asked.selector EXCEPT !.owner = TrimTenantIDPrefix(Self, @)]
    ELSE asked.selector

Own(o) ==
    /\ HasTenantPrefix(Self, o.owner)
    /\ Selects(asked.kind, Meant, ToTenant(Self, o))

\* What the informer should have been told stood at a version.
Seen(v) == InTerms(Self, { o \in Standing(v) : Own(o) })

momentsBar == [m \in 1 .. Len(log) + 1 |-> Seen(m - 1)]
atBar == known + 1

SomeObject == UNION { InTerms(Self, { o \in ObjectsOf(k) : HasTenantPrefix(Self, o.owner) }) :
                        k \in Kind }

Informer == INSTANCE TenantInformer
              WITH moments <- momentsBar, at <- atBar, Changes <- Events(SomeObject)

(***************************************************************************)
(* The cache is always a moment of the tenant's own cluster, narrowed to   *)
(* what the tenant asked for, and never goes back: no other tenant's       *)
(* object is in it, none of its own is missing, whatever streams broke and *)
(* versions were compacted in between (ConvertInternalListOptions,         *)
(* UpstreamObjectBelongsToTenant, FilterUnstructuredList).                 *)
(***************************************************************************)
ImplementsTenantInformer == Informer!Spec

(***************************************************************************)
(* An informer does not watch an empty world forever: what stays in the    *)
(* tenant's cluster ends up in the cache for good, and what stays away     *)
(* from it ends up out of the cache (ConvertInternalListOptions).          *)
(***************************************************************************)
CatchesUp ==
    \A o \in SomeObject :
        /\ <>[](o \in Seen(Len(log))) => <>[](o \in cache)
        /\ <>[](o \notin Seen(Len(log))) => <>[](o \notin cache)

=============================================================================
