------------------------- MODULE MCEphemeralServer -------------------------
(* Two requests: the first has no time of its own for a second attempt when  *)
(* its server hangs, as there is none for a third one with the constants of  *)
(* the code; the second has.  Both may be polled late.                       *)
EXTENDS EphemeralServer

CONSTANTS r1, r2

MCTimeout == [r \in {r1, r2} |-> IF r = r1 THEN 1 ELSE 2]
=============================================================================
