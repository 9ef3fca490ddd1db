CONSTANTS
  phone = phone
  stranger = stranger
  Device = {phone, stranger}
  Hand = {phone}
  KeyOf <- MCKeyOf
  NoDevice = NoDevice
  TRIES = 1
  MaxCodes = 2
  MaxAsks <- MCMaxAsks
SPECIFICATION FairSpec
INVARIANT StrangersStayOut
PROPERTY NobodyWaitsForever
CHECK_DEADLOCK FALSE
