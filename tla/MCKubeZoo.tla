------------------------------- MODULE MCKubeZoo -------------------------------
(***************************************************************************)
(* Two tenants with ids of two characters, the second ending in a dash,    *)
(* and names that read as each tenant's prefixed ones.                     *)
(***************************************************************************)
EXTENDS KubeZoo

CONSTANTS Alice, Alfred, Bob

T1 == <<"a", "a">>
T2 == <<"a", "-">>

MCChar == {"a", "x", "-"}
MCIDChar == {"a", "x"}
MCTenant == {T1, T2}
MCOneTenant == {T1}
MCTenantOf == [c \in Client |-> IF c = Bob THEN T2 ELSE T1]

x == <<"x">>

\* "x", and the upstream name of the first tenant's "x": its own second
\* spelling to the first tenant, a name like another to the second.
MCOwnerName == {x, AddTenantIDPrefix(T1, x)}
\* The first tenant's prefix with nothing after it, too: no namespace is
\* called that, but a list may ask for one.
MCSpelledName == MCOwnerName \cup {AddTenantIDPrefix(T1, NoName)}
MCObjectName == {x}
MCBindingName == {x, <<"x", "x">>}
MCReservedRole == {x}
MCManagedBinding == {<<"x", "x">>}

Obj(kind, owner, name) == [kind |-> kind, owner |-> owner, name |-> name]

MCPlatformObject ==
    { Namespace(x), Obj("ConfigMap", x, x), Obj("ClusterRole", x, NoName),
      Obj("CustomResourceDefinition", x, x) }

-----------------------------------------------------------------------------

(***************************************************************************)
(* A run explores scenes, each of them a part of Spec: the clients that    *)
(* ask, the tenants that kubezoo's controller works for, and the kinds and *)
(* names the requests are about.                                           *)
(***************************************************************************)
CONSTANT Scenes
VARIABLE scene

Unkept ==
    { [clients |-> {Alice, Bob}, tenants |-> {}, kinds |-> {"Namespace", "ConfigMap"},
       names |-> {x}],
      [clients |-> {Alice, Bob}, tenants |-> {},
       kinds |-> {"CustomResourceDefinition"}, names |-> {x}] }

Kept ==
    { [clients |-> {Alice, Bob}, tenants |-> MCTenant, kinds |-> {"ClusterRole"}, names |-> {}],
      [clients |-> {Alice, Alfred}, tenants |-> {T1},
       kinds |-> {"Namespace", "RoleBinding"}, names |-> MCBindingName] }

Asks(c) ==
    \E r \in Request :
        /\ r.kind \in scene.kinds /\ r.name \in scene.names \cup {NoName}
        /\ Send(c, r)

Keeps(t) ==
    \/ "ClusterRole" \in scene.kinds /\ KeepRole(t)
    \/ "RoleBinding" \in scene.kinds /\ (KeepBinding(t) \/ WithdrawBindings(t))

SceneNext ==
    /\ \/ \E c \in scene.clients : Asks(c) \/ Step(c)
       \/ \E t \in scene.tenants : Keeps(t)
    /\ UNCHANGED scene

SceneInit == Init /\ scene \in Scenes

SceneSpec == SceneInit /\ [][SceneNext]_<<vars, scene>>

=============================================================================
