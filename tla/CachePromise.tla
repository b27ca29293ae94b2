--------------------------- MODULE CachePromise ----------------------------
(***************************************************************************)
(* What a cache with invalidation promises its callers, without saying how *)
(* it stores or locks anything: the answer to a call was read from the     *)
(* backend in an epoch between the one the call began in and the present   *)
(* one.  An invalidation begins a new epoch.                               *)
(***************************************************************************)
EXTENDS Naturals

CONSTANT Callers

VARIABLES
    epoch,  \* number of invalidations so far
    call    \* per caller: {} or one call, with the epochs of its beginning and
            \* of its answer (the empty set while there is none)

vars == <<epoch, call>>

Init == epoch = 0 /\ call = [c \in Callers |-> {}]

Begin(c) ==
    /\ call[c] = {}
    /\ call' = [call EXCEPT ![c] = {[since |-> epoch, answer |-> {}]}]
    /\ UNCHANGED epoch

Answer(c) ==
    \E k \in call[c] :
        /\ k.answer = {}
        /\ \E e \in k.since .. epoch :
              call' = [call EXCEPT ![c] = {[since |-> k.since, answer |-> {e}]}]
        /\ UNCHANGED epoch

\* The caller took the answer, gave up, or was told that the backend failed.
End(c) ==
    /\ call[c] # {}
    /\ call' = [call EXCEPT ![c] = {}]
    /\ UNCHANGED epoch

Invalidate == epoch' = epoch + 1 /\ UNCHANGED call

Next == Invalidate \/ \E c \in Callers : Begin(c) \/ Answer(c) \/ End(c)

Spec == Init /\ [][Next]_vars
=============================================================================
