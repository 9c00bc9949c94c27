SPECIFICATION FairSpec
CONSTANTS
  N = 2
  Faults = {"rdma_connect", "ibv_post_recv"}
  NoRoute = {}
  Callers = {0, 1}
  Quitters = {0}
INVARIANTS ReceivePosted
PROPERTIES HandshakeCompletes WriteReturns ReleaseReturns
CHECK_DEADLOCK FALSE
