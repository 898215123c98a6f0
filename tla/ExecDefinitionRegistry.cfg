SPECIFICATION FairSpec
CONSTANTS
  base = base
  derived = derived
  api = api
  ext = ext
  n1 = n1
  n2 = n2
  k1 = k1
  k2 = k2
  Threads = {t1, t2}
  App = t1
  Others = {o}
  Schemas = {base, derived, api, ext}
  Names = {n1, n2}
  Linked <- LinkedFunctions
  Plugin <- PluginFunctions
  Registers <- RegisteredNames
  Keys = {k1, k2}
  Expanded <- ExpandedSchemas
  Scripts <- SwiftScripts
  None = None
INVARIANTS
  TypeOK
  BuiltOnce
  ComposedIsComplete
PROPERTIES
  CallsReturn
