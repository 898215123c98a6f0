SPECIFICATION FairSpec
CONSTANTS
  Hydra = {h1, h2}
  App = App
  Render = Render
  Nobody = Nobody
  MaxEdits = 3
  MaxPauses = 2
  MaxRestarts = 2
  MaxSpurious = 1
INVARIANTS
  TypeOK
  NoEditWhileRendering
  NoStaleStop
  NoLostStart
  RenderingIsServed
PROPERTIES
  StopsReturn
  RendersEnd
