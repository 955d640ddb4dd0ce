CONSTANTS
    Bearers <- MCBearers
    Headers = {"none", "acme"}
    StdioTenant = "acme"
    Rules <- MCRules
    Allowlist <- MCAllowlist
    Plugins <- MCPlugins
    Removable = {"billing.lookup"}
    Messages <- MCMessages
    Keys <- MCKeys
    ApprovalTtl = 0
    MaxTime = 1
SPECIFICATION Spec
INVARIANTS
    ListAgreesWithCalls
    TenantBound
    DiscoveryComplete
PROPERTIES
    WritesAreApproved
