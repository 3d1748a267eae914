CONSTANTS
  Operators = {o1}
  MaxReleases = 1
SPECIFICATION GatewaySpec
INVARIANTS
  UnprovenMutationIsUnknown
