\* Two calls on two transports; every answer may be lost but a release's.
SPECIFICATION Spec
CONSTANTS
  Callers = {c1, c2}
  Trs = {t1, t2}
  Faults = {"refuse", "lost"}
SYMMETRY TransportSymmetry
INVARIANTS TypeOK NoSecondTry AnswersTrue
