SPECIFICATION MCSpec
CONSTANTS
  Uris = {a}
  MaxVersion = 3
  MaxQueue = 3
  MaxId = 2
PROPERTY
  CurrentPoolExists
