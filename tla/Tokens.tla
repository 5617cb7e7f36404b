------------------------------- MODULE Tokens -------------------------------
(***************************************************************************)
(* auth-service after the registration: the verification link, login and   *)
(* refresh, and the tokens customers keep.  A token is checked by its      *)
(* signature and its age alone; no service asks auth-service about it, so  *)
(* what it says of an account can be older than the account's row.         *)
(***************************************************************************)
EXTENDS Naturals

CONSTANTS
    Accounts,     \* ids; an account has one username
    AccessLife,   \* ticks an access token is valid (15 minutes)
    RefreshLife,  \* ticks a refresh token is valid (30 days)
    LinkLife,     \* ticks a verification link is valid (24 hours)
    None          \* nothing

ASSUME TokenAssumption ==
    /\ {AccessLife, RefreshLife, LinkLife} \subseteq Nat
    /\ None \notin Accounts \cup Nat

VARIABLES
    active,      \* active[a]: is_active
    staff,       \* staff[a]: is_staff
    link,        \* link[a]: age of the verification link mailed, or None
    tokens,      \* tokens in the hands of customers, not expired
    sinceStaff   \* history: ticks since a was staff, AccessLife + 1 for more

tokenVars == <<active, staff, link, tokens, sinceStaff>>

\* login is history: ticks since the password that the token goes back to.
TokenRecords ==
    [type : {"access", "refresh"}, subject : Accounts, user_id : Accounts \cup {None},
     is_staff : BOOLEAN, age : Nat, login : Nat]

TokensInit ==
    /\ active = [a \in Accounts |-> FALSE]
    /\ staff = [a \in Accounts |-> FALSE]
    /\ link = [a \in Accounts |-> None]
    /\ tokens = {}
    /\ sinceStaff = [a \in Accounts |-> AccessLife + 1]

-----------------------------------------------------------------------------
\* register: the link is made and mailed, once (see Registration).
MailVerificationLink(a) ==
    /\ link[a] = None
    /\ link' = [link EXCEPT ![a] = 0]
    /\ UNCHANGED <<active, staff, tokens, sinceStaff>>

\* GET /auth/verify-email: the link is not expired; it may be followed again.
VerifyEmail(a) ==
    /\ link[a] # None /\ link[a] <= LinkLife
    /\ active' = [active EXCEPT ![a] = TRUE]
    /\ UNCHANGED <<staff, link, tokens, sinceStaff>>

\* Mutant: whoever knows the password may log in.
PasswordIsEnough(a) == TRUE
MayLogIn(a) == active[a]

AccessToken(a, user_id, is_staff, login) ==
    [type |-> "access", subject |-> a, user_id |-> user_id, is_staff |-> is_staff,
     age |-> 0, login |-> login]

RefreshToken(a, login) ==
    [type |-> "refresh", subject |-> a, user_id |-> a, is_staff |-> FALSE,
     age |-> 0, login |-> login]

\* POST /auth/login with the right password: 403 before the link is followed.
Login(a) ==
    /\ MayLogIn(a)
    /\ tokens' = tokens \cup {AccessToken(a, a, staff[a], 0), RefreshToken(a, 0)}
    /\ UNCHANGED <<active, staff, link, sinceStaff>>

\* Mutants: the new token without user_id; a new refresh token as well.
RefreshedWithoutId(t) == {AccessToken(t.subject, None, FALSE, t.login)}
RotatedTokens(t) ==
    {AccessToken(t.subject, t.user_id, FALSE, t.login), RefreshToken(t.subject, t.login)}
RefreshedTokens(t) == {AccessToken(t.subject, t.user_id, FALSE, t.login)}

\* POST /auth/refresh: claims are taken from the token, no row is read.
Refresh(t) ==
    /\ t \in tokens /\ t.type = "refresh"
    /\ tokens' = tokens \cup RefreshedTokens(t)
    /\ UNCHANGED <<active, staff, link, sinceStaff>>

\* is_staff is set in the database by hand.
SetStaff(a) ==
    /\ staff' = [staff EXCEPT ![a] = ~staff[a]]
    /\ sinceStaff' = [sinceStaff EXCEPT ![a] = 0]
    /\ UNCHANGED <<active, link, tokens>>

\* Mutant: expires_time is left to its default.
OneLife(type) == RefreshLife
Life(type) == IF type = "access" THEN AccessLife ELSE RefreshLife

Older(t) == [t EXCEPT !.age = @ + 1, !.login = @ + 1]

\* Time passes; an expired token is refused by every service.
Tick ==
    /\ tokens' = {Older(t) : t \in {x \in tokens : x.age < Life(x.type)}}
    /\ link' = [a \in Accounts |->
         IF link[a] # None /\ link[a] <= LinkLife THEN link[a] + 1 ELSE link[a]]
    /\ sinceStaff' = [a \in Accounts |->
         IF staff[a] THEN 0
         ELSE IF sinceStaff[a] <= AccessLife THEN sinceStaff[a] + 1 ELSE sinceStaff[a]]
    /\ UNCHANGED <<active, staff>>

TokenStep ==
    \/ \E a \in Accounts :
         MailVerificationLink(a) \/ VerifyEmail(a) \/ Login(a) \/ SetStaff(a)
    \/ \E t \in tokens : Refresh(t)
    \/ Tick

-----------------------------------------------------------------------------
(* The checks the other services make.                                      *)

\* order-service, get_current_user_id: whose carts and orders these are.
CartOwner(t) == t.user_id

\* product-service, require_staff
MayEditCatalog(t) == t.type = "access" /\ t.is_staff

-----------------------------------------------------------------------------
TokensTypeOK ==
    /\ active \in [Accounts -> BOOLEAN]
    /\ staff \in [Accounts -> BOOLEAN]
    /\ link \in [Accounts -> Nat \cup {None}]
    /\ tokens \subseteq TokenRecords
    /\ sinceStaff \in [Accounts -> Nat]

\* "is_staff is baked into the token at login time" (README.md): whoever can edit
\* the catalogue was staff an access token's life ago or later, however often the
\* token was refreshed since, and gave the password no longer ago than that.
StaffEndsSoon ==
    \A t \in tokens : MayEditCatalog(t) =>
        sinceStaff[t.subject] <= AccessLife /\ t.login <= AccessLife

\* No chain of refreshes outlives a login by more than one token of each kind.
SessionEnds == \A t \in tokens : t.login <= RefreshLife + AccessLife

\* No token for an account whose address nobody has proved.
VerifiedOnly == \A t \in tokens : active[t.subject] /\ link[t.subject] # None

\* user-service goes by the username, order-service by the user_id: every token,
\* refreshed or not, carries both, and both mean one account. get_current_user_id
\* answers 422 to a token without the claim; its comment says that auth-service
\* "doesn't embed it today", which this property refutes.
OneIdentity == \A t \in tokens : CartOwner(t) = t.subject
==============================================================================
