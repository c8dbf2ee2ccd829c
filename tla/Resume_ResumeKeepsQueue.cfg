SPECIFICATION Spec
CONSTANTS
  Cases = {c1, c2}
  Seed = c1
  MaxKills = 2
INVARIANTS
  ResumeKeepsQueue
