---------------------------- MODULE MCPersistent ----------------------------
(* Persistent mode with two process ids: the child that was killed while it *)
(* slept and the one forked in its place.                                   *)
EXTENDS Persistent

MCPids == {1, 2}
=============================================================================
