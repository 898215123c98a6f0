SPECIFICATION Spec
CONSTANTS
  Hydra = {h1, h2}
  App = App
  Render = Render
  Nobody = Nobody
  MaxEdits = 1
  MaxPauses = 2
  MaxRestarts = 1
  MaxSpurious = 1
PROPERTIES
  PauseChangeIsReported
