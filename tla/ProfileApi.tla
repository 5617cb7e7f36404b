----------------------------- MODULE ProfileApi -----------------------------
(***************************************************************************)
(* user-service's API for a customer with a token: PATCH loads the profile *)
(* in one statement and commits the changed columns in a later one, while  *)
(* tokens expire and other requests do the same.                           *)
(***************************************************************************)
EXTENDS Tokens

CONSTANTS
    Fields,    \* full_name, phone, delivery_address, ...
    Values,    \* values of a field; None is null
    Requests,  \* bound: requests in hand at one time
    Keep       \* a field a PATCH leaves out

ASSUME ProfileAssumption == Keep \notin Values \cup {None}

VARIABLES
    profiles,  \* profiles[a]: the row with user_id a and a's username, or None
    session,   \* session[r]: the PATCH r in hand
    met        \* history: fields of r that had the value sent, since r began

vars == <<tokenVars, profiles, session, met>>

Rows == [Fields -> Values \cup {None}]
Asks == [Fields -> Values \cup {None, Keep}]

Free == [pc |-> "idle", by |-> None, id |-> None, ask |-> None, seen |-> None]

Init ==
    /\ TokensInit
    /\ profiles = [a \in Accounts |-> None]
    /\ session = [r \in Requests |-> Free]
    /\ met = [r \in Requests |-> {}]

Go(r, change) == session' = [session EXCEPT ![r] = change]

\* The worker inserts the row for a registered account (see ProfileWorker).
CreateProfile(a) ==
    /\ profiles[a] = None
    /\ profiles' = [profiles EXCEPT ![a] = [f \in Fields |-> None]]
    /\ UNCHANGED <<tokenVars, session>>

\* _require_self_or_403
IsSelf(t, a) == t.subject = a

\* The token is checked, then the row is loaded (404) and its username compared.
BeginPatch(r, t, a, ask) ==
    /\ session[r].pc = "idle"
    /\ t \in tokens /\ t.type = "access"
    /\ profiles[a] # None
    /\ IsSelf(t, a)
    /\ Go(r, [pc |-> "commit", by |-> t.subject, id |-> a, ask |-> ask,
              seen |-> profiles[a]])
    /\ UNCHANGED <<tokenVars, profiles>>

\* The columns in the UPDATE: sent, and not what was loaded.
Changed(s) == {f \in Fields : s.ask[f] # Keep /\ s.ask[f] # s.seen[f]}

\* Mutants: every column as it was loaded; fields not sent as well; no commit.
WholeRow(s) == [f \in Fields |-> IF s.ask[f] # Keep THEN s.ask[f] ELSE s.seen[f]]
AllFields(s) == s.ask
NotCommitted(s) == profiles[s.id]
PatchedRow(s) ==
    [f \in Fields |-> IF f \in Changed(s) THEN s.ask[f] ELSE profiles[s.id][f]]

\* update_profile: setattr for each field sent, commit.
CommitPatch(r) ==
    /\ session[r].pc = "commit"
    /\ profiles' = [profiles EXCEPT ![session[r].id] = PatchedRow(session[r])]
    /\ Go(r, [session[r] EXCEPT !.pc = "reply"])
    /\ UNCHANGED tokenVars

\* The answer, or a lost connection or a restart at any point before it.
EndRequest(r) ==
    /\ session[r].pc # "idle"
    /\ Go(r, Free)
    /\ UNCHANGED <<tokenVars, profiles>>

Step ==
    \/ TokenStep /\ UNCHANGED <<profiles, session>>
    \/ \E a \in Accounts : CreateProfile(a)
    \/ \E r \in Requests, t \in tokens, a \in Accounts, ask \in Asks : BeginPatch(r, t, a, ask)
    \/ \E r \in Requests : CommitPatch(r) \/ EndRequest(r)

MetNow(r) ==
    IF session[r].pc = "idle" THEN {}
    ELSE {f \in Fields : profiles[session[r].id][f] = session[r].ask[f]}

Next ==
    /\ Step
    /\ met' = [r \in Requests |->
                 IF session'[r].pc = "idle" THEN {} ELSE met[r] \cup MetNow(r)']

Spec == Init /\ [][Next]_vars

-----------------------------------------------------------------------------
\* Types of the tables, the tokens and a request's locals.
TypeOK ==
    /\ TokensTypeOK
    /\ profiles \in [Accounts -> Rows \cup {None}]
    /\ session \in [Requests -> [pc : {"idle", "commit", "reply"},
                                 by : Accounts \cup {None}, id : Accounts \cup {None},
                                 ask : Asks \cup {None}, seen : Rows \cup {None}]]
    /\ met \in [Requests -> SUBSET Fields]

\* "everything else on the existing profile is left untouched" (user_schema.py):
\* a field changes only to a value its owner sent in a PATCH, so two PATCHes of
\* different fields never undo each other, however old the rows they loaded.
ProfileFieldsKept ==
    [][\A a \in Accounts, f \in Fields :
         profiles[a] # None /\ profiles'[a][f] # profiles[a][f] =>
           \E r \in Requests :
             /\ session[r].pc = "commit" /\ session[r].id = a
             /\ session[r].by = a /\ session[r].ask[f] = profiles'[a][f]]_vars

\* A PATCH that is answered was true: each field it sent has had, at some moment
\* of the request, the value sent.
ProfilePatchHeld ==
    \A r \in Requests :
        session[r].pc = "reply" =>
            \A f \in Fields : session[r].ask[f] # Keep => f \in met[r]
==============================================================================
