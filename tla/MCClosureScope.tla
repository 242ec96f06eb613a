--------------------------- MODULE MCClosureScope ---------------------------
(* Methods of at most MaxScopes scopes over a few names.                   *)
EXTENDS ClosureScope

CONSTANTS x, a, self, stateful_self
=============================================================================
