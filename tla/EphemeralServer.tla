-------------------------- MODULE EphemeralServer --------------------------
(***************************************************************************)
(* EphemeralLlamaServerRuntime, llm_assist/mod.rs: one llama-server per    *)
(* attempt of a request, at most SERVER_START_RETRIES attempts, everything *)
(* under the timeout of the request.  The port is found by binding port 0  *)
(* and closing the listener, so it belongs to nobody until the server has  *)
(* bound it again.  A process that is killed runs no destructor and leaves *)
(* its servers behind: that is outside this model.                         *)
(*                                                                         *)
(* elapsed is the time of a request in units of which READY make           *)
(* SERVER_READY_TIMEOUT and TIMEOUT[r] make the timeout of request r.  The *)
(* timer of the request is polled after what it bounds, and only when the  *)
(* executor comes to it: a request goes on past its timeout for as long as *)
(* LATE units, whatever is ready being taken first.                        *)
(***************************************************************************)
EXTENDS Naturals

CONSTANTS
    Requests,  \* requests that are completed concurrently
    Ports,     \* the ephemeral ports of the loopback interface
    NoPort,
    RETRIES,   \* SERVER_START_RETRIES
    READY,     \* SERVER_READY_TIMEOUT
    TIMEOUT,   \* LlmRequest.timeout of each
    LATE       \* bound: how late the executor may poll a request

ASSUME EphemeralAssumption ==
    /\ NoPort \notin Ports
    /\ RETRIES \in Nat \ {0}
    /\ READY \in Nat \ {0}
    /\ TIMEOUT \in [Requests -> Nat \ {0}]
    /\ LATE \in Nat

Attempts == 1 .. RETRIES
Servers  == Requests \X Attempts

VARIABLES
    pc,
    attempt,
    server,   \* state of every llama-server process
    at,       \* the port that was reserved for it
    elapsed,  \* since complete was called
    began,    \* elapsed when the attempt polled for the first time
    from,     \* whose server answered, {} before
    quick,    \* history: an attempt failed otherwise than by SERVER_READY_TIMEOUT
    raced     \* history: <<r, q>>, r reserved a port q had reserved and not bound

vars == <<pc, attempt, server, at, elapsed, began, from, quick, raced>>
clock == <<elapsed, began>>
history == <<quick, raced>>

Awaits == {"poll", "health", "post", "reap"}
Ended  == {"ok", "error", "dropped"}
Live   == {"loading", "listening"}

TypeOK ==
    /\ pc \in [Requests -> {"idle", "attempt", "spawn"} \cup Awaits \cup Ended]
    /\ attempt \in [Requests -> Attempts]
    /\ server \in [Servers -> {"none", "loading", "listening", "killed", "gone"}]
    /\ at \in [Servers -> Ports \cup {NoPort}]
    /\ elapsed \in [Requests -> Nat] /\ \A r \in Requests : elapsed[r] <= TIMEOUT[r] + LATE
    /\ began \in [Requests -> Nat]
    /\ from \in [Requests -> SUBSET Requests]
    /\ quick \in [Requests -> BOOLEAN]
    /\ raced \subseteq Requests \X Requests

Init ==
    /\ pc = [r \in Requests |-> "idle"]
    /\ attempt = [r \in Requests |-> 1]
    /\ server = [s \in Servers |-> "none"]
    /\ at = [s \in Servers |-> NoPort]
    /\ elapsed = [r \in Requests |-> 0]
    /\ began = [r \in Requests |-> 0]
    /\ from = [r \in Requests |-> {}]
    /\ quick = [r \in Requests |-> FALSE]
    /\ raced = {}

Own(r)   == <<r, attempt[r]>>
Bound(p) == \E s \in Servers : at[s] = p /\ server[s] \in {"listening", "killed"}
ListensAt(s, p) == at[s] = p /\ server[s] = "listening"

\* Child::start_kill, in shutdown, in Drop and by kill_on_drop
Killed(s) == [server EXCEPT ![s] = IF @ \in Live THEN "killed" ELSE @]

----------------------------------------------------------------------------
(* complete and complete_once *)

Complete(r) ==
    /\ pc[r] = "idle"
    /\ pc' = [pc EXCEPT ![r] = "attempt"]
    /\ UNCHANGED <<attempt, server, at, clock, from, history>>

\* The future of complete is gone and its timers with it.
Ends(r, end) ==
    /\ pc' = [pc EXCEPT ![r] = end]
    /\ elapsed' = [elapsed EXCEPT ![r] = 0]
    /\ began' = [began EXCEPT ![r] = 0]

\* The next attempt, or the last error.
NextAttempt(r) ==
    IF attempt[r] < RETRIES
    THEN /\ pc' = [pc EXCEPT ![r] = "attempt"]
         /\ attempt' = [attempt EXCEPT ![r] = @ + 1]
         /\ UNCHANGED clock
    ELSE Ends(r, "error") /\ UNCHANGED attempt

\* try_complete_once returns an error: the child, if any, is dropped and
\* killed, but nobody waits for it to be gone.
FailsAs(r, other, after) ==
    /\ NextAttempt(r)
    /\ server' = after
    /\ quick' = [quick EXCEPT ![r] = @ \/ other]
    /\ UNCHANGED <<at, from, raced>>

\* Mutant: the child is not tied to the attempt.
AttemptFailsLeaves(r) == FailsAs(r, TRUE, server)

AttemptFails(r) == FailsAs(r, TRUE, Killed(Own(r)))

----------------------------------------------------------------------------
(* try_complete_once: reserve_local_addr, ServerChild::spawn *)

ReserveAny(r, p, free) ==
    /\ pc[r] = "attempt"
    /\ free
    /\ pc' = [pc EXCEPT ![r] = "spawn"]
    /\ at' = [at EXCEPT ![Own(r)] = p]
    /\ raced' = raced \cup
         {<<r, q>> : q \in {q \in Requests \ {r} :
                              /\ pc[q] \notin Ended
                              /\ at[Own(q)] = p /\ server[Own(q)] # "listening"}}
    /\ UNCHANGED <<attempt, server, clock, from, quick>>

\* Mutant: a port is picked without binding it.
ReservePicks(r, p) == ReserveAny(r, p, TRUE)

Reserve(r, p) == ReserveAny(r, p, ~Bound(p))

ReserveFails(r) ==
    /\ pc[r] = "attempt"
    /\ \A p \in Ports : Bound(p)
    /\ AttemptFails(r)

Spawn(r) ==
    /\ pc[r] = "spawn"
    /\ pc' = [pc EXCEPT ![r] = "poll"]
    /\ server' = [server EXCEPT ![Own(r)] = "loading"]
    /\ began' = [began EXCEPT ![r] = elapsed[r]]
    /\ UNCHANGED <<attempt, at, elapsed, from, history>>

SpawnFails(r) ==
    /\ pc[r] = "spawn"
    /\ AttemptFails(r)

----------------------------------------------------------------------------
(* wait_until_ready: try_wait, then GET /health, then the deadline *)

ChildLives(r) ==
    /\ pc[r] = "poll"
    /\ server[Own(r)] # "gone"
    /\ pc' = [pc EXCEPT ![r] = "health"]
    /\ UNCHANGED <<attempt, server, at, clock, from, history>>

ChildExited(r) ==
    /\ pc[r] = "poll"
    /\ server[Own(r)] = "gone"
    /\ AttemptFails(r)

HealthOk(r) ==
    /\ pc[r] = "health"
    /\ \E s \in Servers : ListensAt(s, at[Own(r)])
    /\ pc' = [pc EXCEPT ![r] = "post"]
    /\ UNCHANGED <<attempt, server, at, clock, from, history>>

PollAgain(r) ==
    /\ pc[r] = "health"
    /\ elapsed[r] < began[r] + READY
    /\ pc' = [pc EXCEPT ![r] = "poll"]
    /\ UNCHANGED <<attempt, server, at, clock, from, history>>

\* Mutant: the first check that fails counts as the last one.
NotReadyAtOnce(r) ==
    /\ pc[r] = "health"
    /\ FailsAs(r, FALSE, Killed(Own(r)))

\* Also when the timer of the request is due: it is polled later.
NotReady(r) ==
    /\ pc[r] = "health"
    /\ began[r] + READY <= elapsed[r]
    /\ FailsAs(r, FALSE, Killed(Own(r)))

----------------------------------------------------------------------------
(* post_chat_completion, shutdown *)

Answered(r) ==
    /\ pc[r] = "post"
    /\ \E s \in Servers : /\ ListensAt(s, at[Own(r)])
                          /\ from' = [from EXCEPT ![r] = {s[1]}]
    /\ server' = Killed(Own(r))
    /\ pc' = [pc EXCEPT ![r] = "reap"]
    /\ UNCHANGED <<attempt, at, clock, history>>

\* A refused connection, a status that is not success, a broken body or no choices.
PostFails(r) ==
    /\ pc[r] = "post"
    /\ AttemptFails(r)

\* The child is gone, or five seconds have passed.
Reaped(r) ==
    /\ pc[r] = "reap"
    /\ Ends(r, "ok")
    /\ UNCHANGED <<attempt, server, at, from, history>>

----------------------------------------------------------------------------
(* The timeout around complete_once, and a caller that drops the future *)

Elapse(r) ==
    /\ pc[r] \in Awaits
    /\ elapsed[r] < TIMEOUT[r] + LATE
    /\ elapsed' = [elapsed EXCEPT ![r] = @ + 1]
    /\ UNCHANGED <<pc, attempt, server, at, began, from, history>>

\* The future is dropped where it waits, and the child with it.
Dropped(r) ==
    /\ pc[r] \in Awaits
    /\ Ends(r, "dropped")
    /\ server' = Killed(Own(r))
    /\ UNCHANGED <<attempt, at, from, history>>

\* Mutant: only the POST has a timeout.
TimedOutPosting(r) == TIMEOUT[r] <= elapsed[r] /\ pc[r] = "post" /\ Dropped(r)

TimedOut(r) == TIMEOUT[r] <= elapsed[r] /\ Dropped(r)

Cancelled(r) == Dropped(r)

----------------------------------------------------------------------------
(* The llama-server processes (external) *)

Becomes(s, state) ==
    /\ server' = [server EXCEPT ![s] = state]
    /\ UNCHANGED <<pc, attempt, at, clock, from, history>>

Listen(s) == server[s] = "loading" /\ ~Bound(at[s]) /\ Becomes(s, "listening")

\* It crashes, or cannot bind its port.
Exit(s) == server[s] \in Live /\ Becomes(s, "gone")

Gone(s) == server[s] = "killed" /\ Becomes(s, "gone")

----------------------------------------------------------------------------
Step(r) ==
    \/ Complete(r) \/ \E p \in Ports : Reserve(r, p)
    \/ ReserveFails(r) \/ Spawn(r) \/ SpawnFails(r)
    \/ ChildLives(r) \/ ChildExited(r) \/ HealthOk(r) \/ PollAgain(r) \/ NotReady(r)
    \/ Answered(r) \/ PostFails(r) \/ Reaped(r)
    \/ Elapse(r) \/ TimedOut(r) \/ Cancelled(r)

Next ==
    \/ \E r \in Requests : Step(r)
    \/ \E s \in Servers : Listen(s) \/ Exit(s) \/ Gone(s)

\* The executor polls a task whose synchronous part is not finished; time
\* passes and the timer of tokio::time::timeout fires.  The server and the
\* network promise nothing.
Begins(r) ==
    (\E p \in Ports : Reserve(r, p)) \/ ReserveFails(r) \/ Spawn(r) \/ SpawnFails(r)

Spec ==
    /\ Init /\ [][Next]_vars
    /\ \A r \in Requests : WF_vars(Begins(r)) /\ WF_vars(Elapse(r)) /\ WF_vars(TimedOut(r))

----------------------------------------------------------------------------
(* Properties *)

\* Whatever way a request ends, timeout, cancellation and errors included, no
\* server that it started is left running, and an earlier attempt's server is
\* never left running beside the next one.
NoServerLeft ==
    \A s \in Servers :
        server[s] \in Live
        => s = Own(s[1]) /\ pc[s[1]] \in Awaits

\* A request is answered by the server of another one only when both had
\* reserved the same port before either server was bound to it: reserving
\* never yields the port of a server that runs.
StrayAnswerOnlyAfterPortRace ==
    \A r \in Requests :
        \A q \in from[r] \ {r} : <<r, q>> \in raced \/ <<q, r>> \in raced

\* Servers that hang use up the timeout of the request: as long as no attempt has
\* failed otherwise, each of those before the present one has had the whole of
\* SERVER_READY_TIMEOUT.  With 120 s and 60 s a third attempt is begun only when the
\* request has already timed out.
HungAttemptsTakeTheirTime ==
    \A r \in Requests : pc[r] \notin Ended /\ ~quick[r] => (attempt[r] - 1) * READY <= elapsed[r]

\* Every request that was begun ends while the process lives, even when the
\* server never answers /health or the POST.
RequestEnds ==
    \A r \in Requests : pc[r] = "attempt" ~> pc[r] \in Ended

=============================================================================
