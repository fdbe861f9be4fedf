\* A request, or its repetition, is over once it is answered.
CONSTANTS
  Qualities = {0, 1, 2}
  MaxItems = 3
  MaxServed = 2
  Agents <- UserAgents
SPECIFICATION EndpointSpec
INVARIANTS
  PreferenceOrderFree
  ChoiceAuthoritative
  AgentBreaksTies
  SharedCopyFits
  LookupFailuresNotKept
CHECK_DEADLOCK FALSE
