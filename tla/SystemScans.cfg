SPECIFICATION Spec
CONSTANTS
  Program <- MCProgram
  Sample <- MCSample
  Built <- MCBuilt
  Library <- MCLibrary
  Task <- MCTask
  Service <- MCService
  Subscription = 1
  Process <- MCProcess
  Hash = {"h"}
  Known <- MCKnown
  Elsewhere <- MCElsewhere
  Autorun <- MCAutorun
  Rules <- MCRules
  Provided <- MCProvided
  MaxScans = 2
  MaxFailures = 1
INVARIANTS VerdictsAgree NothingSkipped
PROPERTIES AlarmsOnlyGrow ScansEnd
CHECK_DEADLOCK FALSE
