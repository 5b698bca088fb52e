-------------------------- MODULE MCPeerConnections --------------------------
(* One node with a late answer, with an "online" event, and two nodes at once. *)
EXTENDS PeerConnections

MCPlans ==
  {[callers |-> 1, online |-> 0, late |-> 1, tasks |-> 3],
   [callers |-> 1, online |-> 1, late |-> 0, tasks |-> 2],
   [callers |-> 2, online |-> 0, late |-> 0, tasks |-> 2]}
=============================================================================
