\* Two requests and two troubles of any kind. The model may stop: all deliveries are dealt with.
CONSTANTS
  c1 = c1
  NoCarrier = NoCarrier
  Carriers = {c1}
  MaxRequests = 2
  MaxDeployments = 2
  MaxTroubles = 3
SPECIFICATION Spec
PROPERTIES FailuresStayWithTheirRequest
CHECK_DEADLOCK FALSE
