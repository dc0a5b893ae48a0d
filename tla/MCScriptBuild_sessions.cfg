CONSTANTS
  app = app  lib = lib  core = core  tool = tool  bad = bad  p1 = p1  p2 = p2
  Script = {app, core, tool, bad}
  Worker = {p1}
  Pool = {t1}
  Gui = gui_thread
  None = None
  Uses <- Shared
  Children <- SharedProject
  Listeners <- SharedCreated
  Unresolvable = {}
  Faulty = {bad}
  MaxSessions = 2
  MayCancel = TRUE
CONSTRAINT Unspoilt
SPECIFICATION FairSpec
CHECK_DEADLOCK FALSE
INVARIANTS
  TypeOK
  LocksInOrder
PROPERTIES
  BuiltWhenOver
  BuildEnds
