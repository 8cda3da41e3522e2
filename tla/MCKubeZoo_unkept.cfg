SPECIFICATION SceneSpec

CONSTANTS
    Alice = Alice
    Alfred = Alfred
    Bob = Bob
    Client = {Alice, Bob}
    TenantOf <- MCTenantOf
    Char <- MCChar
    IDChar <- MCIDChar
    Dash = "-"
    TenantIDLength = 2
    Tenant <- MCTenant
    OwnerName <- MCOwnerName
    ObjectName <- MCObjectName
    RequestKind = {"Namespace", "ConfigMap", "CustomResourceDefinition"}
    ReservedRole = {}
    ManagedBinding = {}
    PlatformObject <- MCPlatformObject
    Scenes <- Unkept

INVARIANTS TypeOK ViewIsAddressable
PROPERTIES Isolation ImplementsTenantClusters
