SPECIFICATION TwoRolloversSpec
CONSTANTS
  home = home
  pred = pred
  succ = succ
  third = third
  whome = whome
  wpred = wpred
  wsucc = wsucc
  wthird = wthird
  o1 = o1
  o2 = o2
  Requests = {r1}
  Agents = {home, pred, succ, third}
  Windows = {whome, wpred, wsucc, wthird}
  AgentOf <- OwnWindow
  Capturing = {pred}
  Intake = {home, pred, succ}
  Modes = {"direct"}
  Flaky = {wpred, wsucc}
  NoAgent = NoAgent
  NoWindow = NoWindow
  NoRequest = NoRequest
  Line = {pred, succ, third}
  First = pred
  Champions = {}
  Operations = {o1, o2}
  MaxBinding = 0
PROPERTIES
  EverySwitchDrains
CHECK_DEADLOCK FALSE
