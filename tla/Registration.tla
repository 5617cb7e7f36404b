---------------------------- MODULE Registration ----------------------------
(***************************************************************************)
(* auth-service's registration, composed with the worker that turns the    *)
(* event of a registration into a profile.  A request checks the username  *)
(* and the email, inserts the account, publishes the event and mails the   *)
(* link; it can end after each of these steps, and none of the later steps *)
(* is ever done again.                                                     *)
(***************************************************************************)
EXTENDS ProfileWorker

CONSTANTS
    Usernames,  \* usernames
    Emails,     \* addresses
    Requests    \* bound: registrations in hand at one time

VARIABLES
    accounts,   \* accounts[a]: a row of users_auth, or None
    request,    \* request[r]: the registration r in hand
    mailed      \* accounts whose verification link was sent

authVars == <<accounts, request, mailed>>
vars == <<workerVars, authVars>>

AccountRecords == [username : Usernames, email : Emails, active : BOOLEAN]
RequestSteps == {"idle", "email", "insert", "publish", "mail"}

ASSUME RegistrationAssumption == None \notin AccountRecords

Free == [pc |-> "idle", username |-> None, email |-> None, account |-> None]

Init ==
    /\ WorkerInit
    /\ accounts = [a \in Accounts |-> None]
    /\ request = [r \in Requests |-> Free]
    /\ mailed = {}

-----------------------------------------------------------------------------
Used == {a \in Accounts : accounts[a] # None}
UsernameTaken(u) == \E a \in Used : accounts[a].username = u
EmailTaken(e) == \E a \in Used : accounts[a].email = e

Advance(r, pc) == request' = [request EXCEPT ![r].pc = pc]
EndRequest(r) == request' = [request EXCEPT ![r] = Free]

\* A request arrives and does its first SELECT: 409 if the username is there.
BeginRegister(r, u, e) ==
    /\ request[r].pc = "idle"
    /\ ~UsernameTaken(u)
    /\ request' = [request EXCEPT ![r] =
                     [pc |-> "email", username |-> u, email |-> e, account |-> None]]
    /\ UNCHANGED <<workerVars, accounts, mailed>>

\* The second SELECT before the INSERT.
CheckEmail(r) ==
    /\ request[r].pc = "email"
    /\ IF EmailTaken(request[r].email) THEN EndRequest(r) ELSE Advance(r, "insert")
    /\ UNCHANGED <<workerVars, accounts, mailed>>

\* Mutant: the two SELECTs are thought to be enough.
CheckedBefore(r) == FALSE
Duplicate(r) == UsernameTaken(request[r].username) \/ EmailTaken(request[r].email)

\* Mutant: the account is made without the address.
AccountWithoutEmail(r) ==
    [username |-> request[r].username, email |-> None, active |-> FALSE]
NewAccount(r) ==
    [username |-> request[r].username, email |-> request[r].email, active |-> FALSE]

\* INSERT and commit; the UNIQUE columns have the last word (IntegrityError).
InsertAccount(r) ==
    /\ request[r].pc = "insert"
    /\ \/ /\ ~Duplicate(r)
          /\ \E a \in Accounts \ Used :
               /\ accounts' = [accounts EXCEPT ![a] = NewAccount(r)]
               /\ request' = [request EXCEPT ![r].pc = "publish", ![r].account = a]
       \/ /\ Duplicate(r)
          /\ EndRequest(r)
          /\ UNCHANGED accounts
    /\ UNCHANGED <<workerVars, mailed>>

\* publish_user_registered: a failure is logged and the request goes on.
PublishRegistered(r) ==
    /\ request[r].pc = "publish"
    /\ RouteEvent(request[r].account) \/ UNCHANGED queue
    /\ Advance(r, "mail")
    /\ UNCHANGED <<bound, worker, profiles, accounts, mailed>>

\* send_verification_email: sent or not, the account stays.
MailLink(r) ==
    /\ request[r].pc = "mail"
    /\ mailed' = mailed \cup {request[r].account} \/ UNCHANGED mailed
    /\ EndRequest(r)
    /\ UNCHANGED <<workerVars, accounts>>

\* The request ends where it is: an exception, or auth-service restarts.
AbortRequest(r) ==
    /\ request[r].pc # "idle"
    /\ EndRequest(r)
    /\ UNCHANGED <<workerVars, accounts, mailed>>

\* GET /auth/verify-email with a link that has not expired.
VerifyEmail(a) ==
    /\ a \in mailed
    /\ accounts' = [accounts EXCEPT ![a].active = TRUE]
    /\ UNCHANGED <<workerVars, request, mailed>>

RegisterStep(r) ==
    \/ CheckEmail(r)
    \/ InsertAccount(r)
    \/ PublishRegistered(r)
    \/ MailLink(r)

Next ==
    \/ WorkerStep /\ UNCHANGED authVars
    \/ \E r \in Requests, u \in Usernames, e \in Emails : BeginRegister(r, u, e)
    \/ \E r \in Requests : RegisterStep(r) \/ AbortRequest(r)
    \/ \E a \in Accounts : VerifyEmail(a)

Spec == Init /\ [][Next]_vars

FairSpec ==
    /\ Spec
    /\ WorkerFairness
    /\ \A r \in Requests : WF_vars(RegisterStep(r))

-----------------------------------------------------------------------------
\* Types of the tables, the queue and the two processes' locals.
TypeOK ==
    /\ queue \in Seq(Accounts)
    /\ bound \in BOOLEAN
    /\ worker \in [pc : WorkerStates, held : Accounts \cup {None}]
    /\ profiles \in [Accounts -> Nat]
    /\ accounts \in [Accounts -> AccountRecords \cup {None}]
    /\ request \in [Requests -> [pc : RequestSteps, username : Usernames \cup {None},
                                 email : Emails \cup {None},
                                 account : Accounts \cup {None}]]
    /\ mailed \subseteq Accounts

\* Two registrations that pass both SELECTs at the same time never end as two
\* accounts with one username or one address.
AccountsDistinct ==
    \A a, b \in Used : a # b =>
        /\ accounts[a].username # accounts[b].username
        /\ accounts[a].email # accounts[b].email

\* Redelivered after a crash, a lost answer or a nack, an event makes one
\* profile, and only for an account that is committed.
OneProfileEach ==
    \A a \in Accounts : profiles[a] <= IF a \in Used THEN 1 ELSE 0

\* "at-least-once delivery": an event leaves the queue only when its account
\* has a profile, whatever failed on the way.
AckedHasProfile ==
    [][queue # <<>> /\ queue' = Tail(queue) => profiles[Head(queue)] = 1]_vars

\* An event in the queue becomes a profile, those behind another one too.
QueuedGetsProfile ==
    \A a \in Accounts :
        (\E k \in 1 .. Len(queue) : queue[k] = a) ~> profiles[a] = 1

\* "a missed event can be recovered later" (auth-service, events.py): whoever
\* registered has a profile in the end.
RegisteredGetsProfile ==
    \A a \in Accounts : accounts[a] # None ~> profiles[a] = 1
==============================================================================
