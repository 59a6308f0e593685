SPECIFICATION Spec
CONSTANTS
  Thread = {t1, t2}
  Cage = {2, 3}
  Callnum = {5}
  RawposixCageid = 1
  ZeroArgs = "zeros"
  Handlers <- RaceHandlers
  None = None
  Backends <- AllBackends
INVARIANTS TypeOK OneTarget NoForeignArgs SettledPins
SYMMETRY Alike
