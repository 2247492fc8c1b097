SPECIFICATION Spec
CONSTANTS
  Base = "base"
  Endpoint = "endpoint"
  Param = {"sf"}
  AirParam = {"sf"}
  Valid <- McValid
  Default <- McDefault
  Trust = 1
  SendWait <- McSendWait
  RspWait = 2
  TrustWait = 3
  CommandNodes = {"base"}
  RestartNodes = {"base"}
  OverlappingRequests = TRUE
PROPERTY AckMeansAdoption
PROPERTY ServerKeepsOrRestores
