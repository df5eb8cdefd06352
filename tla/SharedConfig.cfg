SPECIFICATION Spec
CONSTANTS
  None = None
  Procs = {m1, m2, c1}
  Mains = {m1, m2}
  Environments = {{"end"}, {"kill", "end"}, {"interrupt", "invalid", "end", "gap"},
                  {"invalid", "together", "end", "gap"}}
CHECK_DEADLOCK FALSE
SYMMETRY Twins
INVARIANTS LockedInit Agreement NothingStaleIsNamed TakenIsHeld
