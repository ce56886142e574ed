\* sync_influx pours what the signals have sent already.
SPECIFICATION MCStreamSpec
CONSTANTS
  oven = oven
  mixer = mixer
  twin1 = twin1
  w1 = w1
  w2 = w2
  h1 = h1
  loaf = loaf
  trial = trial
  d1 = d1
  d2 = d2
  p1 = p1
  p2 = p2
  NoDevice = NoDevice
  NoThing = NoThing
  BatchRows = {1}
  Devices <- MCDevices
  Things = {twin1}
  FirstTwin <- MCFirstTwin
  Savers = {w1, w2}
  MaxSteps = 2
  Nowhere = Nowhere
  Parties = {loaf, trial}
  Rehearsals = {trial}
  Machines = {oven}
  Hands = {h1}
  MaxMoves = 3
  Runs = {d1, d2}
  NoRun = NoRun
  MaxTrays = 2
  LastPost = 3
  TickLimit = 1
  People = {p1, p2}
  MaxCalls = 5
  l1 = l1
  bun = bun
  g1 = g1
  g2 = g2
  u1 = u1
  u2 = u2
  t1 = t1
  t2 = t2
  Loaves = {l1}
  DayLength = 3
  ShiftOne = 1
  ShiftTwo = 2
  LastTick = 9
  Goods = {bun}
  Amounts = {1, 2}
  Users = {u1, u2}
  Empty = Empty
  Bad = Bad
  NoWord = NoWord
  NoPage = NoPage
  MaxTurns = 3
  Wares = {g1, g2}
  Dates = {1}
  Foot = Foot
  Weeks = {1, 2}
  Numbers = {0, 1}
  NoFix = NoFix
  NoNumber = NoNumber
  Tries = {t1, t2}
  MaxEdits = 3
CHECK_DEADLOCK FALSE
INVARIANTS
  PouringTwiceIsHarmless
