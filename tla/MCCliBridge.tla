---------------------------- MODULE MCCliBridge ----------------------------
(* Four sessions, the third with the process id of the first, the fourth     *)
(* alone; two ports;   a command under the first id, one under two of them.  *)
EXTENDS CliBridge

CONSTANTS s1, s2, s3, s4, u1, u2

MCPid  == [s \in {s1, s2, s3, s4} |-> CASE s = s2 -> 2 [] s = s4 -> 3 [] OTHER -> 1]
MCHome == [u \in {u1, u2} |-> IF u = u1 THEN <<1>> ELSE <<2, 1>>]
=============================================================================
