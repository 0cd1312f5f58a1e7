SPECIFICATION Spec
CONSTANTS
  RoutingRequests <- EdgeRequests
INVARIANTS
  TypeOK
  
  FallbackServes
