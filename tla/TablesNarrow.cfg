\* The default backend, one thread.
SPECIFICATION Spec
CONSTANTS
  Thread = {t1}
  Cage = {2, 3}
  Callnum = {5}
  RawposixCageid = 1
  ZeroArgs = "zeros"
  Handlers <- NarrowHandlers
  None = None
  Backends = {"mutex"}
INVARIANT NarrowPinned
