---------------------------- MODULE MCForkServer ----------------------------
(* The fork-server protocol with two process ids: one for the child of the  *)
(* current test case and one for the child of the next, or a bystander.     *)
EXTENDS ForkServer

MCPids == {1, 2}
=============================================================================
