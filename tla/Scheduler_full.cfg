\* One worker, so a channel of two places, and three monitors: it overflows.
SPECIFICATION PromptSpec
CONSTANTS
  Monitors = {m1, m2, m3}
  Workers = {w1}
  None = None
INVARIANTS
  MarksAreExact
PROPERTIES
  NoStarvation
