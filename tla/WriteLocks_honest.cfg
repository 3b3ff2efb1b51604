\* Two calls on two objects of an S/4 or an ECC system; every request may
\* fail, or its answer be lost; no activation.
SPECIFICATION Spec
CONSTANTS
  Callers = {c1, c2}
  Systems = {s4, ecc}
  Objects = {o1, o2}
  ECC = {ecc}
  Tools <- LockTools
  Overlap = FALSE
  Fails = TRUE
  Expires = FALSE
  MaxHandles = 3
SYMMETRY LockSymmetry
INVARIANTS TypeOK NoOrphan NoStale EntriesTracked RollsBackItsOwnLock
