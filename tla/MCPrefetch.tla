----------------------------- MODULE MCPrefetch -----------------------------
(* Two slices of a search call once each, with up to two lists, so that    *)
(* the threads of the first call may still be at work, wait for each other *)
(* or for the writer when the second begins, or when all is destroyed.     *)
EXTENDS Prefetch

CONSTANTS A, B

MCArguments == {<<>>, <<A, A>>, <<A, B>>}
=============================================================================
