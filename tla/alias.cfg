SPECIFICATION InvocationsSpec
CONSTANTS
  land = land
  deploy = deploy
  verify = verify
  mend = mend
  reconcile = reconcile
  teardown = teardown
  ashe = ashe
  sona = sona
  a1 = a1
  a2 = a2
  pred = pred
  succ = succ
  third = third
  wpred = wpred
  wsucc = wsucc
  wthird = wthird
  Uses = {land, deploy, verify, mend, reconcile, teardown}
  KindOf <- KindsOfUses
  UsageOf <- UsageOfUses
  Gated = {reconcile, teardown}
  Runners = {p1, p2}
  MaxRevision = 2
  Allowed <- Scopes
  MaxBusy <- TwoAtOnce
  MaxAttempts <- ThreeThenFour
  MaxRepairs <- OneRepair
  NoUse = NoUse
  Shotcallers = {a1, a2}
  Callsigns = {ashe, sona}
  Order <- Queue
  Legacy = {a2}
  MaxWrites = 1
  NoRoute = NoRoute
  Searches = {s1, s2}
  Tasks = {t1, t2}
  Coordinators = {c1}
  Reopens = {d1}
  MaxEdits = 1
  NoAttempt = NoAttempt
  NoTask = NoTask
  NoReopen = NoReopen
  Requests = {r1, r2}
  Agents = {pred, succ, third}
  Windows = {wpred, wsucc, wthird}
  AgentOf <- OwnWindow
  Capturing = {pred}
  Intake = {}
  Modes = {"direct"}
  Flaky = {wpred, wsucc}
  NoAgent = NoAgent
  NoWindow = NoWindow
  NoRequest = NoRequest
  Line = {pred, succ, third}
  First = pred
  Champions = {ch1}
  Operations = {o1, o2}
  MaxBinding = 1
INVARIANTS
  AliasIsPaired
CHECK_DEADLOCK FALSE
