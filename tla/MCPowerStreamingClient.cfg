SPECIFICATION ClientSpec
CONSTANTS
  Servers <- ServersValue
  Kinds <- KindsValue
  Iterators = {i1}
  MaxTime = 2
  MaxFailures = 1
PROPERTIES ReadingsGoForward StopEndsIterators ReadingsCatchUp
CHECK_DEADLOCK FALSE
