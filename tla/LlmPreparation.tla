-------------------------- MODULE LlmPreparation ---------------------------
(***************************************************************************)
(* LlmPreparationManager::prepare, llm_assist/mod.rs: the first caller     *)
(* prepares the local runtime (llama-server, then the model file), the     *)
(* callers that come meanwhile wait for its notification, later ones get   *)
(* the recorded outcome.                                                   *)
(*                                                                         *)
(* Every section that holds the state mutex runs without an await from the *)
(* lock to the drop of the guard, so it is one action.  The runtime is     *)
(* multi-threaded: between two sections anything else may run.             *)
(***************************************************************************)
EXTENDS Naturals

CONSTANTS
    Callers,     \* tasks that call prepare, in the background or from complete
    Cancellable  \* the callers whose future may be dropped at an await

ASSUME CallersAssumption == Cancellable \subseteq Callers

VARIABLES
    state,    \* PreparationState, the payloads left out
    task,
    outcome,  \* the preparer's local result
    answers,  \* history: every outcome returned to a caller
    started,  \* history: how many times prepare_inner was entered, at most 2
    dropped   \* history: the future of a preparer was dropped

managerVars == <<state, task, outcome, answers, started, dropped>>

Outcomes == {"ready", "failed"}
States   == {"not_started", "preparing"} \cup Outcomes
PreparerPcs == {"runtime", "model", "finish"}
WaiterPcs   == {"gap", "waiting", "woken"}
Pcs == {"idle", "enter"} \cup PreparerPcs \cup WaiterPcs

ManagerTypeOK ==
    /\ state \in States
    /\ task \in [Callers -> Pcs]
    /\ outcome \in [Callers -> Outcomes \cup {"none"}]
    /\ answers \subseteq States
    /\ started \in 0 .. 2
    /\ dropped \in BOOLEAN

ManagerInit ==
    /\ state = "not_started"
    /\ task = [c \in Callers |-> "idle"]
    /\ outcome = [c \in Callers |-> "none"]
    /\ answers = {}
    /\ started = 0
    /\ dropped = FALSE

Moves(c, from, to) == task[c] = from /\ task' = [task EXCEPT ![c] = to]

Call(c) ==
    /\ Moves(c, "idle", "enter")
    /\ UNCHANGED <<state, outcome, answers, started, dropped>>

----------------------------------------------------------------------------
(* The first locked section, one action per arm of the match *)

EnterDone(c) ==
    /\ state \in Outcomes
    /\ Moves(c, "enter", "idle")
    /\ answers' = answers \cup {state}
    /\ UNCHANGED <<state, outcome, started, dropped>>

\* The guard is dropped at the end of the block, the notification is not yet
\* subscribed to.
EnterWhilePreparing(c) ==
    /\ state = "preparing"
    /\ Moves(c, "enter", "gap")
    /\ UNCHANGED <<state, outcome, answers, started, dropped>>

\* Mutant: the first caller does not mark the preparation as begun.
EnterFirstUnmarked(c) ==
    /\ state = "not_started"
    /\ Moves(c, "enter", "runtime")
    /\ started' = IF started < 2 THEN started + 1 ELSE started
    /\ UNCHANGED <<state, outcome, answers, dropped>>

EnterFirst(c) ==
    /\ state = "not_started"
    /\ Moves(c, "enter", "runtime")
    /\ state' = "preparing"
    /\ started' = IF started < 2 THEN started + 1 ELSE started
    /\ UNCHANGED <<outcome, answers, dropped>>

----------------------------------------------------------------------------
(* prepare_inner: ensure_llama_server, then ensure_model *)

\* Mutant: an error wakes the waiters before the outcome is recorded.
InnerFailsNotifies(c) ==
    /\ task[c] \in {"runtime", "model"}
    /\ task' = [d \in Callers |-> IF d = c THEN "finish"
                                  ELSE IF task[d] = "waiting" THEN "woken" ELSE task[d]]
    /\ outcome' = [outcome EXCEPT ![c] = "failed"]
    /\ UNCHANGED <<state, answers, started, dropped>>

InnerFails(c) ==
    /\ task[c] \in {"runtime", "model"}
    /\ task' = [task EXCEPT ![c] = "finish"]
    /\ outcome' = [outcome EXCEPT ![c] = "failed"]
    /\ UNCHANGED <<state, answers, started, dropped>>

RuntimeEnsured(c) ==
    /\ Moves(c, "runtime", "model")
    /\ UNCHANGED <<state, outcome, answers, started, dropped>>

ModelEnsured(c) ==
    /\ Moves(c, "model", "finish")
    /\ outcome' = [outcome EXCEPT ![c] = "ready"]
    /\ UNCHANGED <<state, answers, started, dropped>>

\* Mutant: a failure is recorded as a success.
FinishIgnoresError(c) ==
    /\ Moves(c, "finish", "idle")
    /\ state' = "ready"
    /\ outcome' = [outcome EXCEPT ![c] = "none"]
    /\ answers' = answers \cup {outcome[c]}
    /\ UNCHANGED <<started, dropped>>

\* Mutant: nobody is notified.
FinishSilently(c) ==
    /\ Moves(c, "finish", "idle")
    /\ state' = outcome[c]
    /\ outcome' = [outcome EXCEPT ![c] = "none"]
    /\ answers' = answers \cup {outcome[c]}
    /\ UNCHANGED <<started, dropped>>

\* The preparer records the outcome and, still under the lock, wakes the waiters
\* that are registered now.  notify_waiters leaves no permit for later ones.
Finish(c) ==
    /\ task[c] = "finish"
    /\ state' = outcome[c]
    /\ task' = [d \in Callers |-> IF d = c THEN "idle"
                                  ELSE IF task[d] = "waiting" THEN "woken" ELSE task[d]]
    /\ outcome' = [outcome EXCEPT ![c] = "none"]
    /\ answers' = answers \cup {outcome[c]}
    /\ UNCHANGED <<started, dropped>>

----------------------------------------------------------------------------
(* The loop of a waiter *)

\* notified(): from here on a notify_waiters reaches this caller.
Subscribe(c) ==
    /\ Moves(c, "gap", "waiting")
    /\ UNCHANGED <<state, outcome, answers, started, dropped>>

\* Back under the lock, the caller takes the outcome or goes round the loop.
WokenChecks(c) ==
    /\ task[c] = "woken"
    /\ task' = [task EXCEPT ![c] = IF state \in Outcomes THEN "idle" ELSE "gap"]
    /\ answers' = IF state \in Outcomes THEN answers \cup {state} ELSE answers
    /\ UNCHANGED <<state, outcome, started, dropped>>

\* The future of the call is dropped at one of its awaits.
Cancel(c) ==
    /\ c \in Cancellable
    /\ task[c] \in {"enter", "waiting", "woken"} \cup PreparerPcs
    /\ task' = [task EXCEPT ![c] = "idle"]
    /\ outcome' = [outcome EXCEPT ![c] = "none"]
    /\ dropped' = (dropped \/ task[c] \in PreparerPcs)
    /\ UNCHANGED <<state, answers, started>>

Proceeds(c) ==
    \/ EnterDone(c) \/ EnterWhilePreparing(c) \/ EnterFirst(c)
    \/ InnerFails(c) \/ RuntimeEnsured(c) \/ ModelEnsured(c) \/ Finish(c)
    \/ Subscribe(c) \/ WokenChecks(c)

ManagerNext == \E c \in Callers : Call(c) \/ Proceeds(c) \/ Cancel(c)

ManagerSpec == ManagerInit /\ [][ManagerNext]_managerVars

\* The runtime polls every runnable task, and the downloads end one way or the
\* other; nobody has to call or to cancel.
ManagerFairness == \A c \in Callers : WF_managerVars(Proceeds(c))

ManagerFairSpec == ManagerSpec /\ ManagerFairness

----------------------------------------------------------------------------
(* Properties *)

Preparers == {c \in Callers : task[c] \in PreparerPcs}

\* The runtime is prepared once: prepare_inner never runs twice, not even one call
\* after the other, however many callers race at the start.
PreparedOnce == started <= 1 /\ \A c, d \in Preparers : c = d

\* All callers get the same outcome, and it stays the recorded one: a caller that
\* waited and one that came later never disagree.
Agreement == answers \subseteq {state}

\* A waiter that is woken finds the outcome: the state is set before the waiters
\* are notified, under one hold of the lock, so the loop never goes round.
WokenFindsOutcome == \A c \in Callers : task[c] = "woken" => state \in Outcomes

\* "preparing" means that a caller is at work on it, and so that waiting makes sense,
\* with one exception: the future that prepared was dropped, and then it stays so
\* for ever, because no later caller takes the work over.
PreparingHasPreparer == state = "preparing" <=> (Preparers # {} \/ dropped)

\* A waiter that is registered while the preparation runs gets its answer, unless
\* the preparer is dropped.
RegisteredIsWoken ==
    \A c \in Callers :
        (task[c] = "waiting" /\ state = "preparing") ~> (task[c] = "idle" \/ dropped)

\* What the design says: a use of the assistant waits for a running preparation, so
\* every call comes back.
EveryCallReturns == \A c \in Callers : (task[c] = "enter") ~> (task[c] = "idle")
=============================================================================
