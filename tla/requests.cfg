SPECIFICATION RequestsSpec
CONSTANTS
  garen = garen
  jarvan = jarvan
  g1 = g1
  g2 = g2
  j1 = j1
  Requests = {r1}
  Agents = {garen, jarvan}
  Windows = {g1, g2, j1}
  AgentOf <- TwoAgents
  Capturing = {garen}
  Intake = {garen, jarvan}
  Modes = {"direct", "champion"}
  Flaky = {j1}
  NoAgent = NoAgent
  NoWindow = NoWindow
  NoRequest = NoRequest
INVARIANTS
  RequestsAgree
PROPERTIES
  ImplementsStewardship
  OwnershipMovesByConsent
  OfferIsTaken
  NoSilentProgress
