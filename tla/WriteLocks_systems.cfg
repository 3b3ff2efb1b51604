\* An S/4 and an ECC system with select_system and sessions that expire; the
\* tools that relock, no failing unlock, one call at a time.
SPECIFICATION Spec
CONSTANTS
  Callers = {c1}
  Systems = {s4, ecc}
  Objects = {o1, o2}
  ECC = {ecc}
  Tools <- EccTools
  Overlap = FALSE
  Fails = FALSE
  Expires = TRUE
  MaxHandles = 4
SYMMETRY LockSymmetry
INVARIANTS SystemsApart NoBlindWrite
