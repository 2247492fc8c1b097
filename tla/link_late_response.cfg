SPECIFICATION Spec
CONSTANTS
  Base = "base"
  Endpoint = "endpoint"
  Param = {"sf"}
  AirParam = {"sf"}
  Valid <- McValid
  Default <- McDefault
  Trust = 3
  SendWait <- McSendWait
  RspWait = 2
  TrustWait = 7
  CommandNodes = {}
  RestartNodes = {}
  OverlappingRequests = FALSE
PROPERTY ResponseTestsNewLink
