\* A finding that is no profile is filtered with the profiles.
SPECIFICATION AllSpec
CONSTANTS
    Values <- MCValues
    Types <- MCTypes
    Modules <- MCModules
    Accepts <- MCAccepts
    Detects <- MCDetects
    Identifiers <- MCIdentifiers
    Target = "jo smith"
    Pivots <- MCPivots
    Slug <- MCSlug
    Addresses <- MCAddresses
    ToolLimit <- MCToolLimit
    MaxIterations = 4
    MaxIdentifiers = 6
    MaxTargets = 3
    Plain <- MCPlain
    Sources <- MCSources
    Refused <- MCRefused
    Permits = 2
    MaxAttempts = 3
    Pool <- MCPool
    LoopFindings <- MCLoopFindings
    ToolFindings <- MCToolFindings
    Dossier <- MCDossier
    MaxProfiles = 1
    NoUrl = ""
INVARIANT OnlyProfilesFiltered
CHECK_DEADLOCK FALSE
