SPECIFICATION FairSpec
CONSTANTS
  MaxFence = 3
  MaxRestores = 1
  Delegates = {champion}
  Turns = {t1}
  NoTurn = NoTurn
  Recovery = Recovery
  Terminals = {stop1, stop2}
  NoTerminal = NoTerminal
  MaxMessages = 2
  MaxGrants = 1
INVARIANTS
  StopIsAuthorized
  AuthorizedIsDelivered
PROPERTIES
  AuthorizationIsKept
  
