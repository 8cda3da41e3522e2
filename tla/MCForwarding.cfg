SPECIFICATION SceneSpec

CONSTANTS
    Cert1 = Cert1
    Cert2 = Cert2
    Token1 = Token1
    Token1x = Token1x
    Token2 = Token2
    Platform = Platform
    Misissued = Misissued
    Kubezoo = Kubezoo
    Worker = {w1, w2}
    Credential = {Cert1, Cert2, Token1, Token1x, Token2, Platform, Misissued, Kubezoo}
    Cached = {Token1, Token1x, Token2, Platform}
    UserOf <- MCUserOf
    TenantOf <- MCTenantOf
    GroupsOf <- MCGroupsOf
    Asked <- MCAsked
    Char <- MCChar
    IDChar <- MCIDChar
    Dash = "-"
    TenantIDLength = 2
    Tenant <- MCTenant
    Admin <- MCAdmin
    Caller = {"request", "probe"}
    Namespace = {"n", "m"}
    ObjectName = {"o", "status"}
    Subresource = {"status", "scale"}
    CallerUser <- MCCallerUser

INVARIANTS
    NoConcurrentMapWrite GroupsAreNotShared ArrivesAsItsUser TenantsOwnReach
    ReachesWhatItNames EveryVerbImpersonates
