CONSTANTS
  Exchange = {"binance", "okx"}
  Request <- MCRequest
  LastBar = 6
  FirstOpen = 5
  Listing = {1, 3}
  MaxDropped = 1
  BinanceLimit = 2
  HistoryLimit = 2
  RecentLimit = 3
  DefaultLimit = 4
  Attempts = 2
  MaxFaults = 2
SPECIFICATION FairSpec
INVARIANTS HoleFree AllReturned
PROPERTY Terminates
