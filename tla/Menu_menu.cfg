CONSTANTS
  Brightnesses <- SomeBrightnesses
  MaxFiles = 5
  MaxText = 1
SPECIFICATION MenuSpec
INVARIANTS
  TypeOK
  FocusOnScreen
  EnterActsOnShown
  OneDevTask
  HangsOnlyHalfWay
  OnAFile
  WindowIsASlice
  CursorFits
  ShortListIsShown
  StoredAsEntered
  LabelsTellEdits
  RestoresTheStored
PROPERTIES
  OpensTheIcon
  OpenAndUpShow
CHECK_DEADLOCK FALSE
