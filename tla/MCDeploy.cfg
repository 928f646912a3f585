SPECIFICATION Spec
CONSTANTS
    r1 = r1
    r2 = r2
    V4Bits = 3
    V6Bits = 4
    MappedPrefix = 1
    WithTls = TRUE
    MaxPermits = 10000
    MaxUsize = 100000
    MaxGeneration = 2
    Texts <- MCTexts
    Sites <- MCSites
    Replicas <- MCReplicas
    PageTag = "tag"
    PagePath = "/page"
    ConfiguredToken <- MCConfiguredToken
    OwnTokens <- MCOwnTokens
INVARIANTS
    
    PublishedIsChecked
    
    OnlyTrustedBelieved
    PolicyFitsProcess
    RevalidatedStaysFresh
CHECK_DEADLOCK FALSE
