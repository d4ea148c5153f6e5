SPECIFICATION TaskSpec
CONSTANTS
  Deliveries = {d1, d2}
CHECK_DEADLOCK FALSE
INVARIANTS UncertainStaysOpen
