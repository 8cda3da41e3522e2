------------------------------ MODULE MCForwarding ------------------------------
(***************************************************************************)
(* Two scenes of a request on its way upstream.  Whom it arrives as: two   *)
(* tenants, two ServiceAccounts of the first with one name, one of the     *)
(* second, one of the platform, the tenants' certificates, and a           *)
(* certificate that was issued with groups kubezoo keeps for itself.  What *)
(* it reaches: a tenant's request and one of kubezoo's own that share a    *)
(* client, two namespaces, and an object that has the name of a            *)
(* subresource.                                                            *)
(***************************************************************************)
EXTENDS Impersonation, DynamicClient

CONSTANTS Cert1, Cert2, Token1, Token1x, Token2, Platform, Misissued, Kubezoo

T1 == <<"a", "a">>
T2 == <<"a", "-">>

MCChar == {"a", "x", "-"}
MCIDChar == {"a", "x"}
MCTenant == {T1, T2}
MCAdmin == <<"a">>

x == <<"x">>

MCUserOf ==
    [c \in Credential |->
        CASE c = Cert1 -> TenantAdminUser(T1)
          [] c = Cert2 -> TenantAdminUser(T2)
          [] c = Token1 -> ServiceAccount(AddTenantIDPrefix(T1, x), x)
          [] c = Token1x -> ServiceAccount(AddTenantIDPrefix(T1, <<"x", "x">>), x)
          [] c = Token2 -> ServiceAccount(AddTenantIDPrefix(T2, x), x)
          [] c = Platform -> ServiceAccount(x, x)
          [] c = Misissued -> PlainUser(x)
          [] c = Kubezoo -> NoUser]

MCTenantOf ==
    [c \in Credential |->
        CASE c \in {Cert1, Token1, Token1x, Misissued} -> T1
          [] c \in {Cert2, Token2} -> T2
          [] OTHER -> NoName]

MCGroupsOf ==
    [c \in Credential |->
        CASE c = Misissued -> {ProxiedGroup(T2), RoleAuthorGroup,
                               Group("proxied-sa", T2, x, x)}
          [] c = Kubezoo -> {}
          [] OTHER -> {Group("other", NoName, NoName, x)}]

MCAsked == { [verb |-> "create", resource |-> "clusterroles"],
             [verb |-> "delete", resource |-> "clusterroles"],
             [verb |-> "create", resource |-> "clusterrolebindings"],
             [verb |-> "create", resource |-> "pods/exec"] }

MCCallerUser == [c \in Caller |-> IF c = "request" THEN "tenant" ELSE None]

-----------------------------------------------------------------------------

VARIABLE scene

SceneInit == Init /\ ClientInit /\ scene \in {"whom", "what"}

SceneNext ==
    /\ \/ scene = "whom" /\ Next /\ UNCHANGED clientVars
       \/ scene = "what" /\ ClientNext /\ UNCHANGED vars
    /\ UNCHANGED scene

SceneSpec == SceneInit /\ [][SceneNext]_<<vars, clientVars, scene>>

=============================================================================
