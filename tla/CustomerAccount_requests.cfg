CONSTANTS
  chat = chat
  platform = platform
  Threads = {chat, platform}
  Chats = {chat}
  Callers = {c1, c2}
  MaxCalls = 3
  MaxBreaks = 1
  Editors = {e1, e2}
  MaxEdits = 4
  MaxLosses = 1
  MaxRequests = 4
  k1 = k1
  k2 = k2
  Cities = {k1, k2}
  Governorates = {"north", "south"}
  Names = {"port", "hill"}
  Latins = {"p", ""}
  Offers <- MCOffers
  Lists <- MCLists
  Edits <- MCEdits
  FirstCities <- MCFirstCities
  Askers = {a1, a2}
  MaxAsks = 3
  Whole = Whole
  Costs = {1}
  FirstRates <- MCFirstRates
  NoHome = NoHome
SPECIFICATION Spec
SYMMETRY MCSymmetry
INVARIANTS BookSound ThreadsSound DeliverySound
PROPERTY KeepTheirCity
CHECK_DEADLOCK FALSE
