SPECIFICATION Spec
CONSTANTS
  Min = 1
  Max = 8
  None = None
PROPERTIES ThrottledStaysDown
