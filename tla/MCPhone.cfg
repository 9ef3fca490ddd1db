SPECIFICATION Spec
CONSTANTS
    c1 = c1
    c2 = c2
    Computer = {c1, c2}
    Homes <- MCHomes
    MaxSetUps = 3
    MaxPairings <- MCMaxPairings
    MaxRemovals = 1
    IDLE = 2
    ASK_LIFETIME = 1
    MaxAsks = 2
    Path = {p, q}
    Showable = {p}
    Theirs = {}
    MaxCopies = 1
    MaxFiles = 3
    MaxClears = 1
    Peer = {p1, p2}
    COLLECTING = 1
    PAUSED = 3
    LINGER = 1
    FROZEN = 2
    Budget = 2
    Long = 5
    MaxFreeze = 3
    Lefts <- MCLefts
    Name = {f, g}
    ck1 = ck1
    ck2 = ck2
    ck3 = ck3
    ck4 = ck4
    Chunk = {ck1, ck2, ck3, ck4}
    Cut = Cut
    Manifest <- MCManifest
    Small = {"tiny"}
    IN_FLIGHT = 2
    AHEAD = 2
    MaxChanges = 1
    pictures = pictures
    camera = camera
    photo = photo
    Folder = {pictures, camera}
    Inside <- MCInside
    WhatsApp = WhatsApp
    BackupFile = {photo, film, chats}
    FolderOf <- MCFolderOf
    Media = {film}
    Bounds <- MCBounds
    Worlds = {"own", "kept", "asked", "pass", "fetch", "backup"}
INVARIANT KnownToTheOnlyOne
INVARIANT NoCycles
INVARIANT OpenIsApproved
INVARIANT LocksWhenIdle
INVARIANT OnlyCopyStays
INVARIANT StaysForIt
INVARIANT CarriedOn
INVARIANT LastChoiceStands
INVARIANT KeptWhenGone
CHECK_DEADLOCK FALSE
