SPECIFICATION Spec
CONSTANTS
  Threads = {t1, t2}
  Obj = {"a", "b", "c"}
  Link = {"l"}
  Nowhere = "nowhere"
  Programs <- MCPrograms
  MaxEntries = 2
SYMMETRY Symmetry
INVARIANTS NothingDangles LinksValid NeverAccessible
PROPERTY RegisteringReplaces
