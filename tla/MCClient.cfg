SPECIFICATION Spec
CONSTANTS
  Configs = {"supported", "unsupported"}
INVARIANTS FreshStallFlag RendererOwned BlockedByLoss
PROPERTIES EndsWhenAsked Reconnects
