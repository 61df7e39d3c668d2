CONSTANTS
  Pressures <- MCPressures
  Remedies <- MCRemedies
  NumLayers = 2
SPECIFICATION Spec
INVARIANTS PressureIsAnswered OfflineIsTrue
PROPERTIES StateOwnership
