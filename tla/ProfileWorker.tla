--------------------------- MODULE ProfileWorker ----------------------------
(***************************************************************************)
(* user-service-worker and the broker in front of it: the durable queue of *)
(* user.registered events and the profile rows made from them.  The worker *)
(* is handed one event at a time and answers it; an event it has not       *)
(* acknowledged stays first in the queue, also when the worker dies.       *)
(***************************************************************************)
EXTENDS Naturals, Sequences

CONSTANTS
    Accounts,   \* bound: ids of auth-service accounts
    None        \* no account

ASSUME AccountAssumption == None \notin Accounts

VARIABLES
    queue,      \* user ids of the events in the queue, the unacknowledged first
    bound,      \* the queue is declared and bound to the exchange
    worker,     \* where the worker is, and the event it holds
    profiles    \* profiles[a]: number of profile rows with user_id a

workerVars == <<queue, bound, worker, profiles>>

WorkerStates == {"down", "idle", "insert", "ack", "nack"}
Stopped == [pc |-> "down", held |-> None]

WorkerInit ==
    /\ queue = <<>>
    /\ bound = FALSE
    /\ worker = Stopped
    /\ profiles = [a \in Accounts |-> 0]

\* basic_publish through the exchange: without a bound queue the event is gone.
RouteEvent(a) == queue' = IF bound THEN Append(queue, a) ELSE queue

-----------------------------------------------------------------------------
Goto(pc) == worker' = [worker EXCEPT !.pc = pc]

\* main: declare and bind the queue, consume with prefetch 1.
StartWorker ==
    /\ worker = Stopped
    /\ bound' = TRUE
    /\ worker' = [pc |-> "idle", held |-> None]
    /\ UNCHANGED <<queue, profiles>>

Deliver ==
    /\ worker.pc = "idle"
    /\ queue # <<>>
    /\ worker' = [pc |-> "insert", held |-> Head(queue)]
    /\ UNCHANGED <<queue, bound, profiles>>

\* Mutant: the column without its UNIQUE constraint.
NeverTaken(a) == FALSE
ProfileTaken(a) == profiles[a] > 0

\* Mutant: the duplicate is a failure like any other.
RetryDuplicate == "nack"
AfterDuplicate == "ack"

\* create_profile_from_event: a new row, or the duplicate that is no error.
CreateProfile ==
    /\ worker.pc = "insert"
    /\ IF ProfileTaken(worker.held)
         THEN Goto(AfterDuplicate) /\ UNCHANGED profiles
         ELSE /\ profiles' = [profiles EXCEPT ![worker.held] = @ + 1]
              /\ Goto("ack")
    /\ UNCHANGED <<queue, bound>>

\* Mutant: acknowledged although the database failed.
AckAnyway == "ack"
AfterFailure == "nack"

\* The database fails: the row was not inserted, or it was and no answer came.
DatabaseFails ==
    /\ worker.pc = "insert"
    /\ \/ UNCHANGED profiles
       \/ /\ ~ProfileTaken(worker.held)
          /\ profiles' = [profiles EXCEPT ![worker.held] = @ + 1]
    /\ Goto(AfterFailure)
    /\ UNCHANGED <<queue, bound>>

Ack ==
    /\ worker.pc = "ack"
    /\ queue' = Tail(queue)
    /\ worker' = [pc |-> "idle", held |-> None]
    /\ UNCHANGED <<bound, profiles>>

\* requeue = True: the event is first in the queue again.
Nack ==
    /\ worker.pc = "nack"
    /\ worker' = [pc |-> "idle", held |-> None]
    /\ UNCHANGED <<queue, bound, profiles>>

\* The process or its connection ends; durable queue and persistent events stay.
StopWorker ==
    /\ worker.pc # "down"
    /\ worker' = Stopped
    /\ UNCHANGED <<queue, bound, profiles>>

WorkerStep ==
    \/ StartWorker
    \/ Deliver
    \/ CreateProfile
    \/ DatabaseFails
    \/ Ack
    \/ Nack
    \/ StopWorker

WorkerFairness ==
    /\ WF_workerVars(StartWorker)
    /\ SF_workerVars(Deliver)
    /\ SF_workerVars(CreateProfile)
    /\ SF_workerVars(Ack)
    /\ WF_workerVars(Nack)
==============================================================================
