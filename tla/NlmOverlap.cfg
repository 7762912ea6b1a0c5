SPECIFICATION Spec
CONSTANTS
  Procs = {p1, p2}
  Reports = {r1}
  Alone = {}
  MaxKills = 0
INVARIANTS
  NoSourceSeepsAway


