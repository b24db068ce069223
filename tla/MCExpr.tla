------------------------------- MODULE MCExpr -------------------------------
(* Expressions of at most MaxTokens tokens on words of three bits, with an *)
(* operator or two of most levels.                                         *)
EXTENDS Expr

MCMemory == [a \in 0 .. Base - 1 |-> (a + 3) % Base]
=============================================================================
