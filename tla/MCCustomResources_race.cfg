SPECIFICATION Spec

CONSTANTS
    Char <- MCChar
    IDChar <- MCIDChar
    Dash = "-"
    TenantIDLength = 2
    Tenant <- MCTenant
    NativeKind <- MCNativeKind
    Namespaced = {}
    CRD <- MCCRD
    Reference <- MCReference
    Caller = {c1}
    MaxLag = 2

INVARIANTS ReadBackAsWritten
