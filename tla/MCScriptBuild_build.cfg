CONSTANTS
  app = app  lib = lib  core = core  tool = tool  bad = bad  p1 = p1  p2 = p2
  Script = {app, lib, core, tool}
  Worker = {p1, p2}
  Pool = {t1, t2}
  Gui = gui_thread
  None = None
  Uses <- Triangle
  Children <- TriangleProjects
  Listeners <- TriangleCreated
  Unresolvable = {tool}
  Faulty = {}
  MaxSessions = 1
  MayCancel = FALSE
SYMMETRY PoolSymmetry
CONSTRAINT Unspoilt
SPECIFICATION Spec
CHECK_DEADLOCK FALSE
INVARIANTS
  NoRequestIsLost
  CompiledAfterDependencies
  GoesOnOnce
  CompilersAreKnown
  ToldIsFinal
