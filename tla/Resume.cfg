SPECIFICATION FairSpec
CONSTANTS
  Cases = {c1, c2, c3}
  Seed = c1
  MaxKills = 3
INVARIANTS
  TypeOK
  KillsAreSafe
PROPERTIES
  ResumeCompletes
