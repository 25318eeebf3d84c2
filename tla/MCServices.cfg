SPECIFICATION Spec
CONSTANTS
  h1 = h1
  h2 = h2
  c1 = c1
  c2 = c2
  Helpers <- TwoHelpers
  Clients <- TwoClients
  MaxStarts = 2
  HelperCases <- AllHelperCases
  JournalCases <- AllJournalCases
  DamageCases <- MCDamage
  BlockCases <- MCBlocks
  MaxEntryArrays = 3
  MaxHashChain = 6
  MaxEntryFields = 4
  MaxCandidates = 12
  PayloadHash <- MCHash
  MaxQueryFiles = 3
  MaxQueryUnits = 2
  MaxQueryEntries = 5
  MaxResultBytes = 9
  MaxVarlinkMessage = 4
  Now = 10
  NibbleMax = 3
  ByteMax = 3
  MinMatch = 2
INVARIANTS SocketKept RequestTrue QueryTrue DamageContained
PROPERTIES EveryRequestEnds 
