SPECIFICATION FlagsSpec
CONSTANTS
  Thread = {t1, t2, t3}
  Blocks = {b1, b2}
  Outside = Outside
  NoThread = NoThread
SYMMETRY Symmetry
INVARIANTS ProfitabilitySound NoStaleHints
