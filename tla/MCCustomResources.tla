---------------------------- MODULE MCCustomResources ----------------------------
(***************************************************************************)
(* Two tenants with a group of one name, installed again with another      *)
(* scope; the platform with a group and a kind of the same names.          *)
(***************************************************************************)
EXTENDS CustomResources

T1 == <<"a", "a">>
T2 == <<"a", "-">>

MCChar == {"a", "x", "-"}
MCIDChar == {"a", "x"}
MCTenant == {T1, T2}

x == <<"x">>

MCNativeKind == {<<NoName, "Node">>}
Installed(g, scoped) == [group |-> g, kind |-> "K", namespaced |-> scoped]

MCCRD == { Installed(AddTenantIDPrefix(T1, x), TRUE), Installed(AddTenantIDPrefix(T1, x), FALSE),
           Installed(AddTenantIDPrefix(T2, x), FALSE), Installed(x, FALSE) }

MCReference == { <<NoName, "Node">>, <<x, "K">>, <<AddTenantIDPrefix(T1, x), "K">> }

=============================================================================
