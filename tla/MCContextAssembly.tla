-------------------------- MODULE MCContextAssembly --------------------------
(* Small instances of ContextAssembly for TLC.                             *)
EXTENDS ContextAssembly

OneSig == {"search foo"}
Short == {1}
Lengths == {1, 3}
Never == {FALSE}
Either == BOOLEAN
=============================================================================
