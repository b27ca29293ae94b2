---------------------------- MODULE MCOAuthStore ----------------------------
(* Two backends of one name, both connected, the names that stand for the    *)
(* first one or for both, and one process that clears.                       *)
EXTENDS OAuthStore

CONSTANTS b1, b2, p1, p2, d1, d2

MCDir     == [b \in {b1, b2} |-> IF b = b1 THEN d1 ELSE d2]
MCFor     == [p \in {p1, p2} |-> IF p = p1 THEN b1 ELSE b2]
MCTargets == {{b1}, {b1, b2}}
=============================================================================
