CONSTANTS
    phone = phone
    laptop = laptop
    home = home
    away = away
    visit = visit
    Device = {phone, laptop}
    Meeting = {visit}
    Own = Own
    MAX_IDENTITIES = 2
    MaxDialled <- MCMaxDialled
    Network = {home, away}
    Open = {home}
    Nowhere = Nowhere
    Reaching <- MCReaching
    NetAtFirst <- MCNetAtFirst
    MaxMoves = 1
    MaxReaches = 1
SPECIFICATION FairSpec
INVARIANT UpIsRegistered
PROPERTY FoundIfThere
PROPERTY EveryReachEnds
CHECK_DEADLOCK FALSE
