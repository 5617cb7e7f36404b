-------------------------- MODULE Registration_proofs --------------------------
(***************************************************************************)
(* Registration and the profile worker, for all accounts and any number of *)
(* registrations at a time.  An account id in a request, in the queue or   *)
(* in the worker's hand is one that was committed; the event in hand is    *)
(* the first of the queue; one about to be acknowledged has its profile.   *)
(***************************************************************************)
EXTENDS Registration, TLAPS

-----------------------------------------------------------------------------
\* A request that passed the first SELECT has a name and an address; one that
\* inserted its account knows it.
RequestsOK ==
    \A r \in Requests :
        /\ request[r].pc # "idle" =>
             request[r].username \in Usernames /\ request[r].email \in Emails
        /\ request[r].pc \in {"publish", "mail"} => request[r].account \in Used

\* Events and links are of committed accounts.
Committed == /\ \A k \in 1 .. Len(queue) : queue[k] \in Used
             /\ mailed \subseteq Used

\* The unacknowledged event is the first of the queue.
InHand == worker.pc \in {"insert", "ack", "nack"} =>
             queue # <<>> /\ worker.held = Head(queue)

Done == worker.pc = "ack" => profiles[worker.held] = 1

RInv == /\ TypeOK /\ RequestsOK /\ Committed /\ InHand /\ Done
        /\ OneProfileEach /\ AccountsDistinct

-----------------------------------------------------------------------------
(* The queue.                                                               *)

LEMMA QueueAppend ==
    ASSUME NEW q \in Seq(Accounts), NEW a \in Accounts
    PROVE  /\ Append(q, a) \in Seq(Accounts) /\ Append(q, a) # Tail(q)
           /\ \A k \in 1 .. Len(Append(q, a)) : Append(q, a)[k] = a \/
                (k \in 1 .. Len(q) /\ Append(q, a)[k] = q[k])
           /\ q # <<>> => Append(q, a) # <<>> /\ Head(Append(q, a)) = Head(q)
<1>1. /\ Append(q, a) \in Seq(Accounts) /\ Len(Append(q, a)) = Len(q) + 1
      /\ \A k \in 1 .. Len(q) : Append(q, a)[k] = q[k]
      /\ Append(q, a)[Len(q) + 1] = a
  OBVIOUS
<1>2. q # <<>> => Head(q) = q[1] /\ Len(q) \in Nat \ {0} /\ Len(Tail(q)) = Len(q) - 1
  OBVIOUS
<1>3. Append(q, a) # <<>> /\ Head(Append(q, a)) = Append(q, a)[1]
  BY <1>1
<1>4. Append(q, a) # Tail(q)
  <2>1. CASE q = <<>>
    BY <2>1
  <2>2. CASE q # <<>>
    BY <1>1, <1>2, <2>2
  <2> QED
    BY <2>1, <2>2
<1> QED
  BY <1>1, <1>2, <1>3, <1>4

LEMMA QueueTail ==
    ASSUME NEW q \in Seq(Accounts), q # <<>>
    PROVE  /\ Tail(q) \in Seq(Accounts) /\ q # Tail(q)
           /\ \A k \in 1 .. Len(Tail(q)) : k + 1 \in 1 .. Len(q) /\ Tail(q)[k] = q[k + 1]
           /\ Head(q) \in Accounts /\ 1 \in 1 .. Len(q) /\ Head(q) = q[1]
OBVIOUS

\* How a step changes the queue.
QueueChange ==
    \/ UNCHANGED queue
    \/ \E r \in Requests : /\ request[r].pc = "publish"
                           /\ queue' = Append(queue, request[r].account)
                           /\ UNCHANGED <<worker, profiles, accounts>>
    \/ Ack

LEMMA QueueChanges ==
    ASSUME [Next]_vars
    PROVE  QueueChange
BY DEF Next, WorkerStep, StartWorker, Deliver, CreateProfile, DatabaseFails, Nack,
       StopWorker, BeginRegister, RegisterStep, CheckEmail, InsertAccount,
       PublishRegistered, RouteEvent, MailLink, AbortRequest, VerifyEmail, vars,
       workerVars, authVars, QueueChange

-----------------------------------------------------------------------------
(* Accounts and requests.                                                   *)

\* No step takes an account back.
LEMMA AccountsStay ==
    ASSUME TypeOK, Committed, RegistrationAssumption, RequestsOK, [Next]_vars
    PROVE  /\ Used \subseteq Used'
           /\ accounts' \in [Accounts -> AccountRecords \cup {None}]
           /\ \A a \in Used : /\ accounts'[a].username = accounts[a].username
                              /\ accounts'[a].email = accounts[a].email
<1>1. CASE UNCHANGED accounts
  BY <1>1 DEF Used, TypeOK
<1>2. ASSUME NEW r \in Requests, InsertAccount(r), ~UNCHANGED accounts
      PROVE  /\ Used \subseteq Used'
             /\ accounts' \in [Accounts -> AccountRecords \cup {None}]
             /\ \A a \in Used : accounts'[a] = accounts[a]
  <2>1. PICK a \in Accounts \ Used : accounts' = [accounts EXCEPT ![a] = NewAccount(r)]
    BY <1>2 DEF InsertAccount
  <2>2. NewAccount(r) \in AccountRecords
    BY <1>2 DEF InsertAccount, RequestsOK, NewAccount, AccountRecords
  <2>3. accounts' \in [Accounts -> AccountRecords \cup {None}]
    BY <2>1, <2>2 DEF TypeOK
  <2>4. \A b \in Used : accounts'[b] = accounts[b]
    BY <2>1 DEF Used, TypeOK
  <2> QED
    BY <2>3, <2>4 DEF Used
<1>3. ASSUME NEW a \in Accounts, VerifyEmail(a)
      PROVE  /\ Used \subseteq Used'
             /\ accounts' \in [Accounts -> AccountRecords \cup {None}]
             /\ \A b \in Used : /\ accounts'[b].username = accounts[b].username
                                /\ accounts'[b].email = accounts[b].email
  <2>1. accounts[a] \in AccountRecords
    BY <1>3 DEF VerifyEmail, Committed, Used, TypeOK
  <2>2. /\ [accounts[a] EXCEPT !.active = TRUE] \in AccountRecords
        /\ [accounts[a] EXCEPT !.active = TRUE].username = accounts[a].username
        /\ [accounts[a] EXCEPT !.active = TRUE].email = accounts[a].email
    BY <2>1 DEF AccountRecords
  <2>3. /\ accounts'[a] = [accounts[a] EXCEPT !.active = TRUE]
        /\ \A b \in Accounts : b # a => accounts'[b] = accounts[b]
        /\ accounts' \in [Accounts -> AccountRecords \cup {None}]
    BY <1>3, <2>2 DEF VerifyEmail, TypeOK
  <2> QED
    BY <2>2, <2>3, RegistrationAssumption DEF Used, RegistrationAssumption
<1> QED
  BY <1>1, <1>2, <1>3 DEF Next, WorkerStep, BeginRegister, RegisterStep, CheckEmail,
                          PublishRegistered, MailLink, AbortRequest, authVars, vars, InsertAccount

LEMMA RequestsKept ==
    ASSUME TypeOK, Committed, RegistrationAssumption, RequestsOK, [Next]_vars
    PROVE  /\ RequestsOK'
           /\ request' \in [Requests -> [pc : RequestSteps, username : Usernames \cup {None},
                 email : Emails \cup {None}, account : Accounts \cup {None}]]
<1> DEFINE T == [pc : RequestSteps, username : Usernames \cup {None},
                 email : Emails \cup {None}, account : Accounts \cup {None}]
<1> DEFINE OK(q, U) ==
        /\ q \in T
        /\ q.pc # "idle" => q.username \in Usernames /\ q.email \in Emails
        /\ q.pc \in {"publish", "mail"} => q.account \in U
<1>0. Used \subseteq Used' /\ request \in [Requests -> T]
  BY AccountsStay DEF TypeOK
<1>a. ASSUME NEW r \in Requests, request' \in [Requests -> T], OK(request'[r], Used'),
             \A s \in Requests : s # r => request'[s] = request[s]
      PROVE  RequestsOK'
  BY <1>0, <1>a DEF RequestsOK
<1>1. ASSUME NEW r \in Requests, NEW q, request' = [request EXCEPT ![r] = q], OK(q, Used')
      PROVE  RequestsOK' /\ request' \in [Requests -> T]
  BY <1>0, <1>1, <1>a
<1>2. CASE UNCHANGED request
  BY <1>0, <1>2 DEF RequestsOK
<1>3. OK(Free, Used')
  BY DEF Free, RequestSteps
<1>4. ASSUME NEW r \in Requests, EndRequest(r)
      PROVE  RequestsOK' /\ request' \in [Requests -> T]
  BY <1>1, <1>3, <1>4 DEF EndRequest
<1>5. ASSUME NEW r \in Requests, NEW u \in Usernames, NEW e \in Emails,
             BeginRegister(r, u, e)
      PROVE  RequestsOK' /\ request' \in [Requests -> T]
  <2> DEFINE q == [pc |-> "email", username |-> u, email |-> e, account |-> None]
  <2>1. OK(q, Used')
    BY DEF RequestSteps
  <2> QED
    BY <1>1, <1>5, <2>1 DEF BeginRegister
<1>6. ASSUME NEW r \in Requests, NEW pc \in {"insert", "mail"}, Advance(r, pc),
             request[r].pc # "idle", pc = "mail" => request[r].pc = "publish"
      PROVE  RequestsOK' /\ request' \in [Requests -> T]
  <2> DEFINE q == [request[r] EXCEPT !.pc = pc]
  <2>1. OK(q, Used')
    BY <1>0, <1>6 DEF RequestSteps, RequestsOK
  <2>2. request' = [request EXCEPT ![r] = q]
    BY <1>6 DEF Advance
  <2> QED
    BY <1>1, <2>1, <2>2
<1>7. ASSUME NEW r \in Requests, InsertAccount(r)
      PROVE  RequestsOK' /\ request' \in [Requests -> T]
  <2>1. CASE Duplicate(r)
    BY <1>4, <1>7, <2>1 DEF InsertAccount
  <2>2. CASE ~Duplicate(r)
    <3>1. PICK a \in Accounts \ Used :
             /\ accounts' = [accounts EXCEPT ![a] = NewAccount(r)]
             /\ request' = [request EXCEPT ![r].pc = "publish", ![r].account = a]
      BY <1>7, <2>2 DEF InsertAccount
    <3>2. a \in Used'
      <4>1. NewAccount(r) \in AccountRecords
        BY <1>7 DEF InsertAccount, RequestsOK, NewAccount, AccountRecords
      <4> QED
        BY <3>1, <4>1, RegistrationAssumption DEF Used, TypeOK, RegistrationAssumption
    <3>3. request[r].pc = "insert" /\ request[r] \in T
      BY <1>0, <1>7 DEF InsertAccount
    <3>4. request[r].username \in Usernames /\ request[r].email \in Emails
      BY <3>3 DEF RequestsOK
    <3>5. /\ request'[r] \in T /\ request'[r].pc = "publish" /\ request'[r].account = a
          /\ request'[r].username \in Usernames /\ request'[r].email \in Emails
      BY <1>0, <3>1, <3>3, <3>4 DEF RequestSteps
    <3>6. /\ request' \in [Requests -> T]
          /\ \A s \in Requests : s # r => request'[s] = request[s]
      BY <1>0, <3>1, <3>3 DEF RequestSteps
    <3> QED
      BY <1>a, <3>2, <3>5, <3>6
  <2> QED
    BY <2>1, <2>2
<1>8. ASSUME NEW r \in Requests, CheckEmail(r) \/ PublishRegistered(r) \/ MailLink(r)
                                   \/ AbortRequest(r)
      PROVE  RequestsOK' /\ request' \in [Requests -> T]
  BY <1>4, <1>6, <1>8 DEF CheckEmail, PublishRegistered, MailLink, AbortRequest
<1> HIDE DEF T
<1> QED
  BY <1>2, <1>5, <1>7, <1>8 DEF Next, RegisterStep, VerifyEmail, authVars, vars, T
\* The UNIQUE columns: a new account repeats no name and no address.
LEMMA DistinctKept ==
    ASSUME TypeOK, Committed, RegistrationAssumption, RequestsOK, AccountsDistinct,
           [Next]_vars
    PROVE  AccountsDistinct'
<1>0. \A a \in Used : /\ a \in Used'
                      /\ accounts'[a].username = accounts[a].username
                      /\ accounts'[a].email = accounts[a].email
  BY AccountsStay
<1>1. CASE Used' = Used
  BY <1>0, <1>1 DEF AccountsDistinct
<1>2. ASSUME NEW r \in Requests, InsertAccount(r), Used' # Used
      PROVE  AccountsDistinct'
  <2>1. ~Duplicate(r)
    BY <1>2 DEF InsertAccount, Used
  <2>2. PICK a \in Accounts \ Used : accounts' = [accounts EXCEPT ![a] = NewAccount(r)]
    BY <1>2, <2>1 DEF InsertAccount
  <2>3. /\ accounts'[a].username = request[r].username
        /\ accounts'[a].email = request[r].email
    BY <2>2 DEF NewAccount, TypeOK
  <2>4. \A b \in Used : /\ accounts[b].username # request[r].username
                        /\ accounts[b].email # request[r].email
    BY <2>1 DEF Duplicate, UsernameTaken, EmailTaken
  <2>5. Used' \subseteq Used \cup {a}
    BY <2>2 DEF Used, TypeOK
  <2> QED
    BY <1>0, <2>3, <2>4, <2>5 DEF AccountsDistinct
<1>3. ASSUME NEW a \in Accounts, VerifyEmail(a)
      PROVE  Used' = Used
  <2>1. a \in Used /\ Used \subseteq Used'
    BY <1>0, <1>3 DEF VerifyEmail, Committed
  <2> QED
    BY <1>3, <2>1 DEF VerifyEmail, Used, TypeOK
<1>4. CASE UNCHANGED accounts
  BY <1>1, <1>4 DEF Used
<1> QED
  BY <1>1, <1>2, <1>3, <1>4
  DEF Next, WorkerStep, BeginRegister, RegisterStep, CheckEmail, PublishRegistered,
      MailLink, AbortRequest, authVars, vars

LEMMA CommittedKept ==
    ASSUME TypeOK, Committed, RegistrationAssumption, RequestsOK, [Next]_vars
    PROVE  queue' \in Seq(Accounts) /\ mailed' \subseteq Accounts /\ Committed'
<1>0. Used \subseteq Used' /\ queue \in Seq(Accounts) /\ mailed \subseteq Accounts
  BY AccountsStay DEF TypeOK
<1>1. mailed' \subseteq Used'
  <2>1. CASE UNCHANGED mailed
    BY <1>0, <2>1 DEF Committed
  <2>2. ASSUME NEW r \in Requests, MailLink(r)
        PROVE  mailed' \subseteq Used'
    <3>1. request[r].account \in Used
      BY <2>2 DEF MailLink, RequestsOK
    <3>2. mailed' \subseteq mailed \cup {request[r].account}
      BY <2>2 DEF MailLink
    <3> QED
      BY <1>0, <3>1, <3>2 DEF Committed
  <2> QED
    BY <2>1, <2>2 DEF Next, BeginRegister, RegisterStep, CheckEmail, InsertAccount,
                      PublishRegistered, AbortRequest, VerifyEmail, authVars, vars
<1>2. mailed' \subseteq Accounts
  BY <1>1 DEF Used
<1>3. CASE UNCHANGED queue
  BY <1>0, <1>1, <1>2, <1>3 DEF Committed
<1>4. ASSUME NEW r \in Requests, request[r].pc = "publish",
             queue' = Append(queue, request[r].account)
      PROVE  queue' \in Seq(Accounts) /\ Committed'
  <2>1. request[r].account \in Used /\ request[r].account \in Accounts
    BY <1>4 DEF RequestsOK, Used
  <2> QED
    BY <1>0, <1>1, <1>4, <2>1, QueueAppend DEF Committed
<1>5. ASSUME Ack, queue # <<>>
      PROVE  queue' \in Seq(Accounts) /\ Committed'
  BY <1>0, <1>1, <1>5, QueueTail DEF Ack, Committed
<1>6. ASSUME Ack, queue = <<>>
      PROVE  queue' \in Seq(Accounts) /\ Committed'
  <2>1. queue' = <<>>
    BY <1>6 DEF Ack
  <2> QED
    BY <1>1, <2>1 DEF Committed
<1> QED
  BY <1>2, <1>3, <1>4, <1>5, <1>6, QueueChanges DEF QueueChange

-----------------------------------------------------------------------------
(* The worker.                                                              *)

\* What the worker holds.
LEMMA HeldIsUsed ==
    ASSUME TypeOK, Committed, InHand, worker.pc \in {"insert", "ack", "nack"}
    PROVE  worker.held \in Used /\ worker.held \in Accounts /\ queue # <<>>
BY QueueTail DEF TypeOK, Committed, InHand, Used

\* A step of the worker, and no other, changes the profiles.
WorkerParts == /\ bound' \in BOOLEAN
               /\ worker' \in [pc : WorkerStates, held : Accounts \cup {None}]
               /\ profiles' \in [Accounts -> Nat]
               /\ InHand' /\ Done' /\ OneProfileEach'

LEMMA WorkerKept ==
    ASSUME RInv, RegistrationAssumption, WorkerStep, UNCHANGED accounts
    PROVE  WorkerParts
<1> USE DEF WorkerStates
<1>0. /\ queue \in Seq(Accounts) /\ bound \in BOOLEAN
      /\ worker \in [pc : WorkerStates, held : Accounts \cup {None}]
      /\ profiles \in [Accounts -> Nat] /\ Used' = Used
  BY DEF RInv, TypeOK, Used
<1>a. ASSUME NEW pc \in {"down", "idle"}, worker' = [pc |-> pc, held |-> None],
             UNCHANGED profiles, bound' \in BOOLEAN
      PROVE  WorkerParts
  <2>1. OneProfileEach'
    BY <1>0, <1>a DEF RInv, OneProfileEach
  <2>2. InHand' /\ Done'
    BY <1>a DEF InHand, Done
  <2> QED
    BY <1>0, <1>a, <2>1, <2>2 DEF WorkerParts
<1>1. ASSUME StartWorker \/ StopWorker
      PROVE  WorkerParts
  BY <1>0, <1>1, <1>a DEF StartWorker, StopWorker, Stopped
<1>2. ASSUME Deliver
      PROVE  WorkerParts
  <2>1. Head(queue) \in Accounts
    BY <1>0, <1>2, QueueTail DEF Deliver
  <2> QED
    BY <1>0, <1>2, <2>1 DEF Deliver, WorkerParts, RInv, InHand, Done, OneProfileEach
<1>3. ASSUME CreateProfile, ProfileTaken(worker.held)
      PROVE  WorkerParts
  <2>1. worker.held \in Accounts /\ worker.held \in Used
    BY <1>3, HeldIsUsed DEF CreateProfile, RInv
  <2>2. profiles[worker.held] = 1
    BY <1>0, <1>3, <2>1 DEF RInv, OneProfileEach, ProfileTaken
  <2> QED
    BY <1>0, <1>3, <2>2 DEF CreateProfile, Goto, AfterDuplicate, WorkerParts, RInv, InHand,
                            Done, OneProfileEach
<1>4. ASSUME worker.pc = "insert", ~ProfileTaken(worker.held),
             profiles' = [profiles EXCEPT ![worker.held] = @ + 1]
      PROVE  profiles' \in [Accounts -> Nat] /\ OneProfileEach' /\ profiles'[worker.held] = 1
  <2>1. worker.held \in Accounts /\ worker.held \in Used
    BY <1>4, HeldIsUsed DEF RInv
  <2>2. profiles[worker.held] = 0
    BY <1>0, <1>4, <2>1 DEF ProfileTaken
  <2> QED
    BY <1>0, <1>4, <2>1, <2>2 DEF RInv, OneProfileEach
<1>5. ASSUME CreateProfile, ~ProfileTaken(worker.held)
      PROVE  WorkerParts
  BY <1>0, <1>4, <1>5 DEF CreateProfile, Goto, WorkerParts, RInv, InHand, Done
<1>6. ASSUME DatabaseFails
      PROVE  WorkerParts
  <2>1. profiles' \in [Accounts -> Nat] /\ OneProfileEach'
    BY <1>0, <1>4, <1>6 DEF DatabaseFails, RInv, OneProfileEach
  <2> QED
    BY <1>0, <1>6, <2>1 DEF DatabaseFails, Goto, AfterFailure, WorkerParts, RInv, InHand,
                            Done
<1>7. ASSUME Ack \/ Nack
      PROVE  WorkerParts
  BY <1>0, <1>7, <1>a DEF Ack, Nack
<1> QED
  BY <1>1, <1>2, <1>3, <1>5, <1>6, <1>7 DEF WorkerStep

\* Publishing leaves the first event first; a new account has no profile yet.
LEMMA OthersKept ==
    ASSUME RInv, RegistrationAssumption, [Next]_vars, UNCHANGED <<worker, bound, profiles>>,
           UNCHANGED queue \/ \E r \in Requests : /\ request[r].pc = "publish"
                                                  /\ queue' = Append(queue, request[r].account)
    PROVE  WorkerParts
<1>0. queue \in Seq(Accounts) /\ Used \subseteq Used' /\ Used \subseteq Accounts
  BY AccountsStay DEF RInv, TypeOK, Used
<1>1. ASSUME queue # <<>>
      PROVE  queue' # <<>> /\ Head(queue') = Head(queue)
  <2>1. CASE UNCHANGED queue
    BY <1>1, <2>1
  <2>2. ASSUME NEW r \in Requests, request[r].pc = "publish",
               queue' = Append(queue, request[r].account)
        PROVE  queue' # <<>> /\ Head(queue') = Head(queue)
    <3>1. request[r].account \in Accounts
      BY <1>0, <2>2 DEF RInv, RequestsOK
    <3> QED
      BY <1>0, <1>1, <2>2, <3>1, QueueAppend
  <2> QED
    BY <2>1, <2>2
<1>2. InHand'
  BY <1>1 DEF RInv, InHand
<1>3. OneProfileEach'
  BY <1>0 DEF RInv, OneProfileEach, TypeOK
<1> QED
  BY <1>2, <1>3 DEF WorkerParts, RInv, TypeOK, Done

LEMMA RInvKept ==
    ASSUME RInv, RegistrationAssumption, [Next]_vars
    PROVE  RInv'
<1>1. WorkerParts
  <2>1. CASE WorkerStep /\ UNCHANGED authVars
    BY <2>1, WorkerKept DEF authVars
  <2>2. CASE ~WorkerStep
    <3>1. UNCHANGED <<worker, bound, profiles>>
      BY <2>2 DEF Next, BeginRegister, RegisterStep, CheckEmail, InsertAccount,
           PublishRegistered, MailLink, AbortRequest, VerifyEmail, workerVars, vars
    <3>2. ~Ack
      BY <2>2 DEF WorkerStep
    <3> QED
      BY <3>1, <3>2, OthersKept, QueueChanges DEF QueueChange
  <2>3. CASE WorkerStep /\ ~UNCHANGED authVars
    <3>1. UNCHANGED <<worker, bound, profiles>>
      BY <2>3 DEF Next, BeginRegister, RegisterStep, CheckEmail, InsertAccount,
           PublishRegistered, MailLink, AbortRequest, VerifyEmail, workerVars, vars, authVars
    <3>2. ~Ack
      BY <3>1 DEF Ack, RInv, TypeOK
    <3> QED
      BY <3>1, <3>2, OthersKept, QueueChanges DEF QueueChange
  <2> QED
    BY <2>1, <2>2, <2>3
<1>2. /\ queue' \in Seq(Accounts) /\ mailed' \subseteq Accounts
      /\ Committed' /\ RequestsOK' /\ AccountsDistinct'
      /\ accounts' \in [Accounts -> AccountRecords \cup {None}]
      /\ request' \in [Requests -> [pc : RequestSteps, username : Usernames \cup {None},
               email : Emails \cup {None}, account : Accounts \cup {None}]]
  BY CommittedKept, RequestsKept, DistinctKept, AccountsStay DEF RInv
<1> QED
  BY <1>1, <1>2 DEF RInv, TypeOK, WorkerParts

LEMMA RInvInit == Init => RInv
<1> SUFFICES ASSUME Init PROVE RInv
  OBVIOUS
<1>1. Used = {} /\ queue = <<>> /\ mailed = {} /\ worker = Stopped
  BY DEF Init, WorkerInit, Used
<1>2. TypeOK
  <2>0. <<>> \in Seq(Accounts)
    OBVIOUS
  <2>1. queue \in Seq(Accounts) /\ bound \in BOOLEAN /\ mailed \subseteq Accounts
    BY <2>0, Zenon DEF Init, WorkerInit
  <2>2. worker \in [pc : WorkerStates, held : Accounts \cup {None}]
    BY <1>1 DEF Stopped, WorkerStates
  <2>3. /\ profiles \in [Accounts -> Nat]
        /\ accounts \in [Accounts -> AccountRecords \cup {None}]
    BY DEF Init, WorkerInit
  <2>4. Free \in [pc : RequestSteps, username : Usernames \cup {None},
                  email : Emails \cup {None}, account : Accounts \cup {None}]
    BY DEF Free, RequestSteps
  <2> QED
    BY <2>1, <2>2, <2>3, <2>4 DEF Init, TypeOK
<1>3. RequestsOK
  BY DEF Init, Free, RequestsOK
<1>4. Committed /\ AccountsDistinct
  BY <1>1 DEF Committed, AccountsDistinct
<1>5. InHand /\ Done
  BY <1>1 DEF Stopped, InHand, Done
<1>6. OneProfileEach
  <2>1. \A a \in Accounts : profiles[a] = 0
    BY DEF Init, WorkerInit
  <2>2. \A a \in Accounts : 0 <= IF a \in Used THEN 1 ELSE 0
    OBVIOUS
  <2> QED
    BY <2>1, <2>2 DEF OneProfileEach
<1> QED
  BY <1>2, <1>3, <1>4, <1>5, <1>6 DEF RInv

LEMMA RInvAlways == Spec => []RInv
<1>1. RInv /\ [Next]_vars => RInv'
  BY RegistrationAssumption, RInvKept
<1> QED
  BY <1>1, RInvInit, PTL DEF Spec

-----------------------------------------------------------------------------
\* Tables, queue and processes are type correct.
THEOREM TypeCorrect == Spec => []TypeOK
<1>1. RInv => TypeOK
  BY DEF RInv
<1> QED
  BY <1>1, RInvAlways, PTL

\* Registrations at the same time never share a username or an address, although
\* each only checks before it inserts (auth_service.register).
THEOREM Distinct == Spec => []AccountsDistinct
<1>1. RInv => AccountsDistinct
  BY DEF RInv
<1> QED
  BY <1>1, RInvAlways, PTL

\* However often an event is delivered, its account, which is committed, has one
\* profile at most (create_profile_from_event).
THEOREM OneProfile == Spec => []OneProfileEach
<1>1. RInv => OneProfileEach
  BY DEF RInv
<1> QED
  BY <1>1, RInvAlways, PTL

\* consumer.py, "at-least-once delivery": no event is acknowledged before the
\* profile of its account exists.
THEOREM AckAfterProfile == Spec => AckedHasProfile
<1> DEFINE Acked == queue # <<>> /\ queue' = Tail(queue) => profiles[Head(queue)] = 1
<1>1. ASSUME RInv, [Next]_vars
      PROVE  [Acked]_vars
  <2> SUFFICES ASSUME queue # <<>>, queue' = Tail(queue)
               PROVE  profiles[Head(queue)] = 1
    OBVIOUS
  <2>1. queue \in Seq(Accounts) /\ queue' # queue
    BY QueueTail, <1>1 DEF RInv, TypeOK
  <2>2. ASSUME NEW r \in Requests, request[r].pc = "publish"
        PROVE  queue' # Append(queue, request[r].account)
    <3>1. request[r].account \in Accounts
      BY <1>1, <2>2 DEF RInv, RequestsOK, Used
    <3> QED
      BY <2>1, <3>1, QueueAppend
  <2>3. Ack
    BY <1>1, <2>1, <2>2, QueueChanges DEF QueueChange
  <2> QED
    BY <1>1, <2>3 DEF Ack, RInv, InHand, Done
<1>2. RInv /\ [Next]_vars => [Acked]_vars
  BY <1>1
<1> QED
  BY <1>2, RInvAlways, PTL DEF Spec, AckedHasProfile
==============================================================================
