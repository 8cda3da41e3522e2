----------------------------- MODULE DynamicClient -----------------------------
(***************************************************************************)
(* The client that carries requests upstream (pkg/dynamic/simple.go).      *)
(*                                                                         *)
(* One client of a resource is shared by the requests in flight; each      *)
(* takes a client of its own namespace from it and calls a verb, which     *)
(* sends one HTTP request.  What that request does is decided upstream, by *)
(* its method and its path and not by the verb that was meant: the path of *)
(* an object without the name is the path of the whole collection, and     *)
(* that of a subresource without the name is the path of an object.        *)
(***************************************************************************)
EXTENDS SequencesExt

CONSTANTS Caller,       \* the requests in flight
          Namespace,    \* the namespaces the resource's objects are in
          ObjectName,   \* their names
          Subresource,  \* and their subresources
          CallerUser    \* the user in the context of a request, None when none

None == ""  \* no name, no namespace, no subresource, no user

ASSUME ClientAssumption ==
    /\ None \notin Namespace \cup ObjectName \cup Subresource
    /\ "status" \in Subresource
    /\ CallerUser \in [Caller -> STRING]

VARIABLES shared,  \* the namespace in the shared client
          own,     \* the namespace in each caller's copy of it
          handle,  \* which of the two a caller has
          call,    \* the verb each caller calls, with its arguments
          sent     \* the HTTP request it has sent

clientVars == <<shared, own, handle, call, sent>>

(***************************************************************************)
(* "name" is the name argument or the name in the object that is passed,   *)
(* and may be missing.  Without a namespace a call is about all of them.   *)
(***************************************************************************)
Calls(verbs, namespaces, subs) ==
    [verb : verbs, namespace : namespaces, name : ObjectName \cup {None}, sub : subs]

Call ==
    Calls({"deletecollection"}, Namespace, {None}) \cup
    Calls({"list", "watch"}, Namespace \cup {None}, {None}) \cup
    Calls({"createsubresource"}, Namespace, Subresource) \cup
    Calls({"updatestatus"}, Namespace, {"status"}) \cup
    Calls({"create", "update", "patch", "delete", "get"}, Namespace, Subresource \cup {None})
NoCall == [verb |-> "none"]

Method == {"POST", "PUT", "PATCH", "DELETE", "GET"}
Wire == [method : Method, namespace : Namespace \cup {None},
         path : Seq(ObjectName \cup Subresource), body : ObjectName \cup {None}, user : STRING]
NoWire == [method |-> "none"]

ClientTypeOK ==
    /\ shared \in Namespace \cup {None}
    /\ own \in [Caller -> Namespace \cup {None}]
    /\ handle \in [Caller -> {"shared", "own"}]
    /\ call \in [Caller -> Call \cup {NoCall}]
    /\ sent \in [Caller -> Wire \cup {NoWire}]
    /\ \A c \in Caller : call[c] = NoCall => sent[c] = NoWire /\ handle[c] = "shared"

ClientInit ==
    /\ shared = None
    /\ own = [c \in Caller |-> None]
    /\ handle = [c \in Caller |-> "shared"]
    /\ call = [c \in Caller |-> NoCall]
    /\ sent = [c \in Caller |-> NoWire]

-----------------------------------------------------------------------------

\* Mutant: the namespace is set in the client it is asked of.
InNamespaceInPlace(c, ns) ==
    /\ shared' = ns
    /\ UNCHANGED <<own, handle>>

\* Namespace: a copy of the client, with the namespace.
InNamespace(c, ns) ==
    /\ own' = [own EXCEPT ![c] = ns]
    /\ handle' = [handle EXCEPT ![c] = "own"]
    /\ UNCHANGED shared

Begin(c) ==
    /\ call[c] = NoCall
    /\ \E k \in Call :
         /\ call' = [call EXCEPT ![c] = k]
         /\ \/ k.namespace # None /\ InNamespace(c, k.namespace)
            \/ k.namespace = None /\ UNCHANGED <<shared, own, handle>>
    /\ UNCHANGED sent

\* setImpersonateHeaders: with no user in the context the request goes as
\* kubezoo itself.
impersonated(c) == CallerUser[c]

\* The path after the resource; what is missing leaves no segment.
makeURLSegments(name) == IF name = None THEN << >> ELSE <<name>>
subresources(k) == makeURLSegments(k.sub)

Do(c, method, path, user) ==
    /\ sent' = [sent EXCEPT ![c] =
                  [method    |-> method,
                   namespace |-> IF handle[c] = "own" THEN own[c] ELSE shared,
                   path      |-> path,
                   body      |-> call[c].name,
                   user      |-> user]]
    /\ UNCHANGED <<shared, own, handle, call>>

Done(c) ==
    /\ call' = [call EXCEPT ![c] = NoCall]
    /\ sent' = [sent EXCEPT ![c] = NoWire]
    /\ own' = [own EXCEPT ![c] = None]
    /\ handle' = [handle EXCEPT ![c] = "shared"]
    /\ UNCHANGED shared

Calling(c, verb) == call[c].verb = verb /\ sent[c] = NoWire

\* "name is required": nothing is sent.
WithName(c, method, path) ==
    \/ call[c].name # None /\ Do(c, method, path, impersonated(c))
    \/ call[c].name = None /\ Done(c)

ObjectPath(k) == makeURLSegments(k.name) \o subresources(k)

CreateSubresource(c) ==
    /\ Calling(c, "createsubresource")
    /\ WithName(c, "POST", ObjectPath(call[c]))

\* The name goes into the path of a subresource alone.
Create(c) ==
    /\ Calling(c, "create")
    /\ \/ call[c].sub # None /\ WithName(c, "POST", ObjectPath(call[c]))
       \/ call[c].sub = None /\ Do(c, "POST", << >>, impersonated(c))

Update(c) == Calling(c, "update") /\ WithName(c, "PUT", ObjectPath(call[c]))

UpdateStatus(c) ==
    /\ Calling(c, "updatestatus")
    /\ WithName(c, "PUT", makeURLSegments(call[c].name) \o <<"status">>)

\* Mutant: a delete does not look at the name.
DeleteUnnamed(c) ==
    /\ Calling(c, "delete")
    /\ Do(c, "DELETE", ObjectPath(call[c]), impersonated(c))

Delete(c) == Calling(c, "delete") /\ WithName(c, "DELETE", ObjectPath(call[c]))

DeleteCollection(c) ==
    /\ Calling(c, "deletecollection")
    /\ Do(c, "DELETE", makeURLSegments(None), impersonated(c))

Get(c) == Calling(c, "get") /\ WithName(c, "GET", ObjectPath(call[c]))

List(c) == Calling(c, "list") /\ Do(c, "GET", makeURLSegments(None), impersonated(c))

Watch(c) == Calling(c, "watch") /\ Do(c, "GET", makeURLSegments(None), impersonated(c))

\* Mutant: a patch is not impersonated, alone among the verbs.
PatchAsKubezoo(c) ==
    /\ Calling(c, "patch")
    /\ \/ call[c].name # None /\ Do(c, "PATCH", ObjectPath(call[c]), None)
       \/ call[c].name = None /\ Done(c)

Patch(c) == Calling(c, "patch") /\ WithName(c, "PATCH", ObjectPath(call[c]))

\* Upstream has answered.
Answered(c) == sent[c] # NoWire /\ Done(c)

ClientNext ==
    \E c \in Caller :
        \/ Begin(c)
        \/ CreateSubresource(c) \/ Create(c) \/ Update(c) \/ UpdateStatus(c)
        \/ Delete(c) \/ DeleteCollection(c) \/ Get(c) \/ List(c) \/ Watch(c) \/ Patch(c)
        \/ Answered(c)

ClientSpec == ClientInit /\ [][ClientNext]_clientVars

-----------------------------------------------------------------------------

At(ns, name, sub) == [namespace |-> ns, name |-> name, sub |-> sub]
InAll(ns) == { At(n, o, None) : n \in IF ns = None THEN Namespace ELSE {ns}, o \in ObjectName }

\* Upstream, a path is a collection, an object or an object's subresource.
Reached(wire) ==
    CASE wire.path = << >> /\ wire.method = "POST" -> {At(wire.namespace, wire.body, None)}
      [] wire.path = << >> /\ wire.method \in {"DELETE", "GET"} -> InAll(wire.namespace)
      [] wire.path = << >> /\ wire.method \in {"PUT", "PATCH"} -> {}
      [] Len(wire.path) = 1 -> {At(wire.namespace, wire.path[1], None)}
      [] Len(wire.path) = 2 -> {At(wire.namespace, wire.path[1], wire.path[2])}

\* what the call says it is about
Meant(k) ==
    IF k.verb \in {"deletecollection", "list", "watch"} THEN InAll(k.namespace)
    ELSE {At(k.namespace, k.name, k.sub)}

(***************************************************************************)
(* What a call sends reaches what the call names: not the namespace that   *)
(* another request asked for, nor, for want of a name, a whole collection  *)
(* or an object that has the name of a subresource (Namespace,             *)
(* makeURLSegments and the verbs' checks).                                 *)
(***************************************************************************)
ReachesWhatItNames ==
    \A c \in Caller : sent[c] # NoWire => Reached(sent[c]) = Meant(call[c])

(***************************************************************************)
(* Whatever the verb, upstream is asked as the user of the request's own   *)
(* context (setImpersonateHeaders).                                        *)
(***************************************************************************)
EveryVerbImpersonates ==
    \A c \in Caller : sent[c] # NoWire => sent[c].user = CallerUser[c]

=============================================================================
