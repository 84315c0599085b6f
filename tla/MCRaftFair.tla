---------------------------- MODULE MCRaftFair ----------------------------
(* RaftLiveness instantiated for TLC, from the start.                      *)
EXTENDS RaftLiveness
============================================================================
