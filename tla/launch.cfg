SPECIFICATION FairSpec
CONSTANTS
  Assignments = {a1, a2}
  NoAssignment = NoAssignment
  Callsigns = {c1}
  NoCallsign = NoCallsign
  Launchers = {p1, p2}
  NoLauncher = NoLauncher
INVARIANTS AssignmentsAgree
PROPERTIES AcceptanceIsFinal ImplementsPool LaunchIsNotStranded
CHECK_DEADLOCK FALSE
