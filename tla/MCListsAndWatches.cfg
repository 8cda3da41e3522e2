SPECIFICATION Spec

CONSTANTS
    Char <- MCChar
    IDChar <- MCIDChar
    Dash = "-"
    TenantIDLength = 2
    Tenant <- MCTenant
    Self <- T1
    Owner <- MCOwner
    ObjectName <- MCObjectName
    Selecting <- MCSelecting
    Asking <- MCAsking
    MaxLog = 3
    MaxCuts = 1

PROPERTIES ImplementsTenantInformer CatchesUp

CHECK_DEADLOCK FALSE
