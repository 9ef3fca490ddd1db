CONSTANTS
    laptop = laptop
    phone = phone
    Device = {laptop, phone}
    Phone = {laptop, phone}
    MaxMembers = 2
    MaxTokens = 1
    MaxConnections = 2
    MaxOpened <- MCMaxOpened
    MaxMoves <- MCMaxMoves
    MaxCommands <- MCMaxCommands
    MaxRestarts = 1
SPECIFICATION Spec
INVARIANT NoNoteIsLost
INVARIANT AddressIsCurrent
INVARIANT TokensAreKept
PROPERTY ToldNotWoken
CHECK_DEADLOCK FALSE
