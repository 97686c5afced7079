SPECIFICATION Spec
CONSTANTS
  f1 = f1
  f2 = f2
  Feature = {f1}
  Queue <- OneFeature
  Connected = {f1}
  Path = {p1}
  RepairLimit = 0
  ReviewLimit = 1
  Asks = {"start", "stop"}
  None = None
  MaxVersion = 1
  MaxRestarts = 0
  MaxStops = 1
  MaxOutside = 0
PROPERTIES
  PublicationHonoursStop
