SPECIFICATION SceneSpec

CONSTANTS
    Alice = Alice
    Alfred = Alfred
    Bob = Bob
    Client = {Alice, Alfred, Bob}
    TenantOf <- MCTenantOf
    Char <- MCChar
    IDChar <- MCIDChar
    Dash = "-"
    TenantIDLength = 2
    Tenant <- MCTenant
    OwnerName <- MCSpelledName
    ObjectName <- MCBindingName
    RequestKind = {"ClusterRole", "Namespace", "RoleBinding"}
    ReservedRole <- MCReservedRole
    ManagedBinding <- MCManagedBinding
    PlatformObject <- MCPlatformObject
    Scenes <- Kept

INVARIANTS ManagedIsKubezoos
PROPERTIES KeptRolesStay ImplementsTenantClusters
