\* Three events in all - builds, calls, edits and restarts - and a write error.
CONSTANTS
  Ids = {gt, lt, i1, i2, i3}
  Names = {generate_tool, legacy, widget, forged}
  Intents = {watch, make}
  TechIds = {t1, t2}
  Sources = {s1, s2}
  BuiltinTool = gt
  BuiltinName = generate_tool
  BuiltinIntent = make
  LegacyTool = lt
  LegacyName = legacy
  AnySource = s1
  None = None
  MaxVersions = 1
  MaxPatch = 2
  MaxFaults = 1
  MaxBoots = 1
  Streams = {watch}
  WidgetName = widget
  Banned = {lt}
  Slots = {e1, e2}
  MaxBuilds = 2
  MaxEvents = 3
SPECIFICATION Spec
INVARIANTS RecordsAreExact ConsentIsMeant DeclarationsFollow
PROPERTIES RestartRestores EveryBuildSettles
CHECK_DEADLOCK FALSE
