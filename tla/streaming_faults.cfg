SPECIFICATION Spec
CONSTANTS
  w1 = w1
  w2 = w2
  BTC = BTC
  CP4 = CP4
  Workers = {w1, w2}
  Tickers = {BTC}
  Crypto = {BTC}
  Scenario = {BTC}
  Rated = {CP4}
  Quotes <- MCQuotes
  Downgrades <- MCDowngrades
  Official <- MCOfficial
  Poison <- MCPoison
  Buses = {"pubsub", "kafka"}
  LastDay = 1
  COINGECKO_MAX_RETRIES = 3
  MaxAttempts = 3
  MaxFaults = 2
INVARIANTS
  AckedIsSettled
  PublishedOnce
  LatestIsNewest
PROPERTIES
  NoKeyIsWedged
CHECK_DEADLOCK FALSE
