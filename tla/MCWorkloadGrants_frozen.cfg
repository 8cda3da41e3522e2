SPECIFICATION FreezesAlone

CONSTANTS
    Char <- MCChar
    IDChar <- MCIDChar
    Dash = "-"
    TenantIDLength = 2
    Tenant <- MCTenant
    Admin <- MCAdmin
    NativeGroup <- MCNativeGroup
    Workload <- MCWorkloads
    Role <- MCMixedRole
    Attempt <- MCAttempt
    TenantNamespace <- MCTenantNamespace
    Writer <- MCWriter

INVARIANTS OthersPass
