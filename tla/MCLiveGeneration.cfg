\* One typed request.
CONSTANTS
  Requests = {r1}
  User = user
  Tokens = 1
  MaxCalls = 1
  MaxTalks = 0
  MaxLosses = 0
SPECIFICATION Spec
INVARIANT SynthesisIsGroqs
CHECK_DEADLOCK FALSE
