SPECIFICATION Spec
CONSTANTS
    html = html
    rsc = rsc
    page = page
    tag = tag
    r = r
    Keys <- MCKeys
    PathOf <- MCPathOf
    Tags <- MCTags
    Fills <- TwoFills
    Readers <- MCReaders
    Asked <- AllPurges
    max_bytes = 3
    Clock = TRUE
    MaxMeta = 2
    MaxChunks = 1
SYMMETRY Symmetry
INVARIANTS BytesExact IndexExact PurgedStaysOut FollowersWhole
PROPERTIES RefusedOnlyByFills
CHECK_DEADLOCK FALSE
