--------------------------- MODULE MCRoutingEngine --------------------------
(* An instance of RoutingEngine for TLC: requests at the edges of the context
   windows and of the range of complexities. *)
EXTENDS RoutingEngine

EdgeRequests ==
  [capability : Capability, head : {"architecture", "codegen", "extraction", "x"},
   tokens : {0, 32001, 2000000}, priority : {0, 1, 7, 10}, retries : 0..3,
   hint : {NoHint, "simple"}]
=============================================================================
