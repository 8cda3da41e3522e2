SPECIFICATION SceneSpec

CONSTANTS
    Char <- MCChar
    IDChar <- MCIDChar
    Dash = "-"
    TenantIDLength = 2
    Tenant <- MCTenant
    Admin <- MCAdmin
    NativeGroup <- MCNativeGroup
    Workload <- MCWorkloads
    Role <- MCRole
    Attempt <- MCAttempt
    TenantNamespace <- MCTenantNamespace
    Writer <- MCWriter

INVARIANTS
    OnlyTheKindsItsRoleAsks
    AskedAndAllowedIsGranted
    NeverGranted
PROPERTIES ReachIsOwn 
CONSTRAINT FewWorkloads
