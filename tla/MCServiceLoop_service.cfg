\* One connection, three requests; one tenant well, one silent, one dripping.
CONSTANTS
  c1 = c1
  c2 = c2
  c3 = c3
  well = well
  mute = mute
  drip = drip
  NoCall = NoCall
  Tenants = {well, mute, drip}
  Traffic <- MCTraffic
  SlowLogin = {mute}
  Silent = {mute, drip}
  Dripping = {drip}
  Calls = {c1, c2, c3}
  PoolSize = 1
  PoolTimeout = 1
  RequestTimeout = 2
  ReplyTime = 1
SPECIFICATION FairLoopSpec
INVARIANTS LoopTypeOK ConnectionsAccounted LatencyBounded
PROPERTY EveryCallIsAnswered
