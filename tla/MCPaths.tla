------------------------------ MODULE MCPaths ------------------------------
(* An instance of Paths for TLC: a directory /a with a subdirectory /a/b. *)
EXTENDS Paths

MCDirs == {<<>>, <<"a">>, <<"a", "b">>}
=============================================================================
