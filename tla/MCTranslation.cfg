SPECIFICATION Spec
CONSTANTS
  Names <- MCNames
  Leftovers <- MCLeftovers
  RequestIds = {7, 65535}
INVARIANTS
  AgentGetsTheRequest
  PopupShowsTheRequest
  HitsAreOwn
