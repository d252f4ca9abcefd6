SPECIFICATION Spec
CONSTANTS
  Coordinates <- MCCoordinates
  Touches <- MCTouches
INVARIANTS Inv RootIsExact IndicesInTables
