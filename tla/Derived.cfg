\* One sidecar through launches, edits and crashes.
SPECIFICATION Spec
CONSTANTS
  None = None
  Torn = Torn
  Types <- TwoTypes
  Shapes <- TwoShapes
  MaxWeights = 2
INVARIANTS
  ServedAsAsked
PROPERTIES
  SidecarWhole
  LaterRunsPayNothing
  ServerTruthSurvives
