\* A vault that answers late keeps the connection for longer than the pool waits;
\* backends that are well answer so soon that no three calls can.
CONSTANTS
  c1 = c1
  c2 = c2
  c3 = c3
  well = well
  mute = mute
  drip = drip
  NoCall = NoCall
  Tenants = {well, mute}
  Traffic <- MCOutage
  SlowLogin = {}
  Silent = {mute}
  Dripping = {}
  Calls = {c1, c2, c3}
  PoolSize = 1
  PoolTimeout = 9
  RequestTimeout = 5
  ReplyTime = 1
SPECIFICATION LoopSpec
INVARIANT OutageIsLocal
SYMMETRY Alike
