----------------------------- MODULE MCSession -----------------------------
(* Four calls, each of which connects or invokes; two sessions, two renewals. *)
EXTENDS Session, TLC

CallsAreAlike == Permutations(Calls) \cup Permutations(Sessions)
=============================================================================
