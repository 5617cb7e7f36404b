-------------------------- MODULE ProfileApi_proofs --------------------------
(***************************************************************************)
(* The tokens and the profile API, for all accounts, requests and          *)
(* lifetimes.  What a token may claim is bounded by its age, and its age   *)
(* by its life; what a PATCH may write is bounded by what it has seen.     *)
(***************************************************************************)
EXTENDS ProfileApi, TLAPS

-----------------------------------------------------------------------------
(* The invariants of the tokens.                                            *)

\* An account whose row says staff has been staff a moment ago.
StaffNow == \A a \in Accounts : staff[a] => sinceStaff[a] = 0

\* No token is older than its life; a refresh token is as old as its login, an
\* access token was made while the refresh token of its login was valid.
Ages ==
    \A t \in tokens :
        /\ t.age <= Life(t.type)
        /\ t.type = "refresh" => t.login = t.age
        /\ t.type = "access" => t.login <= t.age + RefreshLife

\* A token with is_staff is as old as its login, and the account was staff then.
StaffClaims ==
    \A t \in tokens : t.is_staff = TRUE =>
        t.login = t.age /\ sinceStaff[t.subject] <= t.age

TokenInv == TokensTypeOK /\ StaffNow /\ Ages /\ StaffClaims

\* Every step of the API leaves the tokens alone or is a step of theirs.
LEMMA TokenSteps ==
    ASSUME [Next]_vars
    PROVE  TokenStep \/ UNCHANGED tokenVars
BY DEF Next, Step, CreateProfile, BeginPatch, CommitPatch, EndRequest, vars

LEMMA NewTokens ==
    ASSUME TokensTypeOK, NEW a \in Accounts
    PROVE  /\ AccessToken(a, a, staff[a], 0) \in TokenRecords
           /\ RefreshToken(a, 0) \in TokenRecords
BY DEF TokensTypeOK, AccessToken, RefreshToken, TokenRecords

LEMMA RefreshedToken ==
    ASSUME NEW t \in TokenRecords
    PROVE  AccessToken(t.subject, t.user_id, FALSE, t.login) \in TokenRecords
BY DEF AccessToken, TokenRecords

LEMMA OlderToken ==
    ASSUME NEW t \in TokenRecords
    PROVE  /\ Older(t) \in TokenRecords
           /\ Older(t).type = t.type /\ Older(t).subject = t.subject
           /\ Older(t).user_id = t.user_id /\ Older(t).is_staff = t.is_staff
           /\ Older(t).age = t.age + 1 /\ Older(t).login = t.login + 1
<1> DEFINE n == t.age + 1
           m == t.login + 1
<1>1. n \in Nat /\ m \in Nat
  BY DEF TokenRecords
<1>2. Older(t) = [t EXCEPT !.age = n, !.login = m]
  BY Zenon DEF Older
<1> HIDE DEF n, m
<1>3. Older(t) \in TokenRecords
  BY <1>1, <1>2 DEF TokenRecords
<1>4. Older(t).is_staff = t.is_staff
  BY <1>2 DEF TokenRecords
<1>5. /\ Older(t).type = t.type /\ Older(t).subject = t.subject
      /\ Older(t).user_id = t.user_id
  BY <1>2 DEF TokenRecords
<1>6. Older(t).age = n /\ Older(t).login = m
  BY <1>2 DEF TokenRecords
<1> QED
  BY <1>3, <1>4, <1>5, <1>6, Zenon DEF n, m

\* The tokens after a step: as before, new from a login or a refresh, or older.
TokenOrigin(t) ==
    \/ t \in tokens /\ UNCHANGED staff /\ UNCHANGED sinceStaff
    \/ \E a \in Accounts : t \in tokens /\ SetStaff(a)
    \/ \E a \in Accounts : Login(a) /\ t \in {AccessToken(a, a, staff[a], 0), RefreshToken(a, 0)}
    \/ \E u \in tokens : Refresh(u) /\ t = AccessToken(u.subject, u.user_id, FALSE, u.login)
    \/ Tick /\ \E u \in tokens : u.age < Life(u.type) /\ t = Older(u)

LEMMA Origins ==
    ASSUME TokenStep \/ UNCHANGED tokenVars, NEW t \in tokens'
    PROVE  TokenOrigin(t)
<1>1. ASSUME NEW a \in Accounts, MailVerificationLink(a) \/ VerifyEmail(a)
      PROVE  TokenOrigin(t)
  BY <1>1 DEF MailVerificationLink, VerifyEmail, TokenOrigin
<1>2. ASSUME NEW a \in Accounts, Login(a)
      PROVE  TokenOrigin(t)
  BY <1>2 DEF Login, TokenOrigin
<1>3. ASSUME NEW a \in Accounts, SetStaff(a)
      PROVE  TokenOrigin(t)
  BY <1>3 DEF SetStaff, TokenOrigin
<1>4. ASSUME NEW u \in tokens, Refresh(u)
      PROVE  TokenOrigin(t)
  BY <1>4 DEF Refresh, RefreshedTokens, TokenOrigin
<1>5. ASSUME Tick
      PROVE  TokenOrigin(t)
  BY <1>5 DEF Tick, TokenOrigin
<1> QED
  BY <1>1, <1>2, <1>3, <1>4, <1>5 DEF TokenStep, TokenOrigin, tokenVars

LEMMA TokenTypes ==
    ASSUME TokensTypeOK, TokenStep \/ UNCHANGED tokenVars
    PROVE  TokensTypeOK'
<1>1. tokens' \subseteq TokenRecords
  <2> SUFFICES ASSUME NEW t \in tokens' PROVE t \in TokenRecords
    OBVIOUS
  <2>1. tokens \subseteq TokenRecords
    BY DEF TokensTypeOK
  <2> QED
    BY <2>1, Origins, NewTokens, RefreshedToken, OlderToken DEF TokenOrigin
<1>2. UNCHANGED tokenVars => TokensTypeOK'
  BY DEF TokensTypeOK, tokenVars
<1>3. ASSUME NEW a \in Accounts, MailVerificationLink(a) \/ VerifyEmail(a) \/ Login(a)
      PROVE  TokensTypeOK'
  <2>1. CASE MailVerificationLink(a)
    BY <1>1, <2>1 DEF TokensTypeOK, MailVerificationLink
  <2>2. CASE VerifyEmail(a)
    BY <1>1, <2>2 DEF TokensTypeOK, VerifyEmail
  <2>3. CASE Login(a)
    BY <1>1, <2>3 DEF TokensTypeOK, Login
  <2> QED
    BY <1>3, <2>1, <2>2, <2>3
<1>4. ASSUME NEW a \in Accounts, SetStaff(a)
      PROVE  TokensTypeOK'
  BY <1>1, <1>4 DEF TokensTypeOK, SetStaff
<1>5. ASSUME NEW t \in tokens, Refresh(t)
      PROVE  TokensTypeOK'
  BY <1>1, <1>5 DEF TokensTypeOK, Refresh
<1>6. ASSUME Tick
      PROVE  TokensTypeOK'
  BY <1>1, <1>6 DEF TokensTypeOK, Tick
<1> QED
  BY <1>2, <1>3, <1>4, <1>5, <1>6 DEF TokenStep
LEMMA StaffNowKept ==
    ASSUME TokensTypeOK, StaffNow, TokenStep \/ UNCHANGED tokenVars
    PROVE  StaffNow'
<1> SUFFICES ASSUME NEW a \in Accounts, staff'[a]
             PROVE  sinceStaff'[a] = 0
  BY DEF StaffNow
<1>1. CASE UNCHANGED <<staff, sinceStaff>>
  BY <1>1 DEF StaffNow
<1>2. CASE \E b \in Accounts : SetStaff(b)
  BY <1>2 DEF StaffNow, SetStaff, TokensTypeOK
<1>3. CASE Tick
  BY <1>3 DEF Tick
<1> QED
  BY <1>1, <1>2, <1>3 DEF TokenStep, MailVerificationLink, VerifyEmail, Login, Refresh,
                          tokenVars

\* A new token of either kind is as young as it can be.
LEMMA AgesKept ==
    ASSUME TokenAssumption, TokensTypeOK, Ages, TokenStep \/ UNCHANGED tokenVars
    PROVE  Ages'
<1> DEFINE Aged(t) == /\ t.age <= Life(t.type)
                      /\ t.type = "refresh" => t.login = t.age
                      /\ t.type = "access" => t.login <= t.age + RefreshLife
<1> SUFFICES ASSUME NEW t \in tokens'
             PROVE  Aged(t)
  BY DEF Ages, Life
<1>1. TokenOrigin(t)
  BY Origins
<1>2. CASE t \in tokens
  BY <1>2 DEF Ages
<1>3. ASSUME NEW a \in Accounts,
             t \in {AccessToken(a, a, staff[a], 0), RefreshToken(a, 0)}
      PROVE  Aged(t)
  <2>1. t.age = 0 /\ t.login = 0 /\ t.type \in {"access", "refresh"}
    BY <1>3 DEF AccessToken, RefreshToken
  <2> QED
    BY <2>1 DEF Life, TokenAssumption
<1>4. ASSUME NEW u \in tokens, Refresh(u),
             t = AccessToken(u.subject, u.user_id, FALSE, u.login)
      PROVE  Aged(t)
  <2>1. t.age = 0 /\ t.type = "access" /\ t.login = u.login
    BY <1>4 DEF AccessToken
  <2>2. u.login = u.age /\ u.age <= RefreshLife
    BY <1>4 DEF Refresh, Ages, Life
  <2> QED
    BY <2>1, <2>2 DEF Life, TokenAssumption
<1>5. ASSUME NEW u \in tokens, u.age < Life(u.type), t = Older(u)
      PROVE  Aged(t)
  <2>1. u \in TokenRecords
    BY DEF TokensTypeOK
  <2>2. u.age \in Nat /\ u.login \in Nat
    BY <2>1 DEF TokenRecords
  <2>3. t.type = u.type /\ t.age = u.age + 1 /\ t.login = u.login + 1
    BY <1>5, <2>1, OlderToken
  <2> QED
    BY <1>5, <2>2, <2>3 DEF Ages, Life, TokenAssumption
<1> QED
  BY <1>1, <1>2, <1>3, <1>4, <1>5 DEF TokenOrigin

\* The claim of being staff comes from a row that said so.
LEMMA StaffClaimsKept ==
    ASSUME TokenAssumption, TokensTypeOK, StaffNow, StaffClaims,
           TokenStep \/ UNCHANGED tokenVars
    PROVE  StaffClaims'
<1> SUFFICES ASSUME NEW t \in tokens', t.is_staff = TRUE
             PROVE  t.login = t.age /\ sinceStaff'[t.subject] <= t.age
  BY DEF StaffClaims
<1>1. TokenOrigin(t)
  BY Origins
<1>t. ASSUME NEW u \in tokens
      PROVE  /\ u \in TokenRecords /\ u.subject \in Accounts
             /\ u.age \in Nat /\ u.login \in Nat /\ sinceStaff[u.subject] \in Nat
  BY DEF TokensTypeOK, TokenRecords
<1>2. CASE t \in tokens /\ UNCHANGED sinceStaff
  BY <1>2 DEF StaffClaims
<1>3. ASSUME NEW a \in Accounts, t \in tokens, SetStaff(a)
      PROVE  t.login = t.age /\ sinceStaff'[t.subject] <= t.age
  <2>1. t.login = t.age /\ sinceStaff[t.subject] <= t.age
    BY <1>3 DEF StaffClaims
  <2>2. sinceStaff'[t.subject] \in {0, sinceStaff[t.subject]}
    BY <1>3, <1>t DEF SetStaff, TokensTypeOK
  <2> QED
    BY <1>3, <1>t, <2>1, <2>2
<1>4. ASSUME NEW a \in Accounts, Login(a),
             t \in {AccessToken(a, a, staff[a], 0), RefreshToken(a, 0)}
      PROVE  t.login = t.age /\ sinceStaff'[t.subject] <= t.age
  <2>1. t.login = 0 /\ t.age = 0 /\ t.subject = a
    BY <1>4 DEF AccessToken, RefreshToken
  <2>2. staff[a]
    BY <1>4 DEF AccessToken, RefreshToken
  <2>3. sinceStaff'[a] = 0
    BY <1>4, <2>2 DEF StaffNow, Login
  <2> QED
    BY <2>1, <2>3
<1>5. ASSUME NEW u \in tokens, t = AccessToken(u.subject, u.user_id, FALSE, u.login)
      PROVE  FALSE
  BY <1>5 DEF AccessToken
<1>6. ASSUME Tick, NEW u \in tokens, t = Older(u)
      PROVE  t.login = t.age /\ sinceStaff'[t.subject] <= t.age
  <2>1. u.is_staff = TRUE /\ t.subject = u.subject
    BY <1>6, <1>t, OlderToken, Zenon
  <2>2. t.age = u.age + 1 /\ t.login = u.login + 1
    BY <1>6, <1>t, OlderToken
  <2>3. u.login = u.age /\ sinceStaff[u.subject] <= u.age
    BY <2>1 DEF StaffClaims
  <2>4. sinceStaff'[u.subject] \in {0, sinceStaff[u.subject], sinceStaff[u.subject] + 1}
    BY <1>6, <1>t DEF Tick
  <2> QED
    BY <1>t, <2>1, <2>2, <2>3, <2>4
<1> QED
  BY <1>1, <1>2, <1>3, <1>4, <1>5, <1>6 DEF TokenOrigin

LEMMA TokenInvInit ==
    ASSUME TokenAssumption, TokensInit
    PROVE  TokenInv
BY DEF TokenAssumption, TokensInit, TokenInv, TokensTypeOK, StaffNow, Ages, StaffClaims

LEMMA TokenInvKept ==
    ASSUME TokenAssumption, TokenInv, [Next]_vars
    PROVE  TokenInv'
BY TokenSteps, TokenTypes, StaffNowKept, AgesKept, StaffClaimsKept DEF TokenInv

\* The bounds on ages, at every moment.
THEOREM TokenBounds == Spec => []TokenInv
<1>1. Init => TokenInv
  BY TokenAssumption, TokenInvInit DEF Init
<1>2. TokenInv /\ [Next]_vars => TokenInv'
  BY TokenAssumption, TokenInvKept
<1> QED
  BY <1>1, <1>2, PTL DEF Spec

\* README.md, "is_staff is baked into the token at login time": the right to edit
\* the catalogue ends an access token's life after the flag, refreshed or not.
THEOREM StaffRightsEnd == Spec => []StaffEndsSoon
<1>1. ASSUME TokenInv
      PROVE  StaffEndsSoon
  <2> SUFFICES ASSUME NEW t \in tokens, MayEditCatalog(t)
               PROVE  sinceStaff[t.subject] <= AccessLife /\ t.login <= AccessLife
    BY DEF StaffEndsSoon
  <2>1. t.age \in Nat /\ t.login \in Nat /\ sinceStaff[t.subject] \in Nat
    BY <1>1 DEF TokenInv, TokensTypeOK, TokenRecords
  <2>2. t.login = t.age /\ sinceStaff[t.subject] <= t.age
    BY <1>1 DEF TokenInv, StaffClaims, MayEditCatalog
  <2>3. t.age <= AccessLife
    BY <1>1 DEF TokenInv, Ages, Life, MayEditCatalog
  <2> QED
    BY <2>1, <2>2, <2>3, TokenAssumption DEF TokenAssumption
<1> QED
  BY <1>1, TokenBounds, PTL

\* Refreshing does not extend a login: the last token of it expires one access
\* token's life after its refresh token (auth_routes.refresh).
THEOREM SessionsEnd == Spec => []SessionEnds
<1>1. ASSUME TokenInv
      PROVE  SessionEnds
  <2> SUFFICES ASSUME NEW t \in tokens
               PROVE  t.login <= RefreshLife + AccessLife
    BY DEF SessionEnds
  <2>1. t.age \in Nat /\ t.login \in Nat /\ t.type \in {"access", "refresh"}
    BY <1>1 DEF TokenInv, TokensTypeOK, TokenRecords
  <2>2. /\ t.age <= Life(t.type)
        /\ t.type = "refresh" => t.login = t.age
        /\ t.type = "access" => t.login <= t.age + RefreshLife
    BY <1>1 DEF TokenInv, Ages
  <2> QED
    BY <2>1, <2>2, TokenAssumption DEF TokenAssumption, Life
<1> QED
  BY <1>1, TokenBounds, PTL
-----------------------------------------------------------------------------
(* Whom a token speaks for.                                                 *)

\* A link that was mailed stays mailed, a verified address stays verified.
LEMMA VerificationKept ==
    ASSUME TokenAssumption, TokensTypeOK, NEW a \in Accounts,
           TokenStep \/ UNCHANGED tokenVars
    PROVE  /\ active[a] => active'[a]
           /\ link[a] # None => link'[a] # None
<1>1. CASE UNCHANGED <<active, link>>
  BY <1>1
<1>2. ASSUME NEW b \in Accounts, MailVerificationLink(b)
      PROVE  active' = active /\ (link[a] # None => link'[a] # None)
  BY <1>2 DEF MailVerificationLink, TokensTypeOK
<1>3. ASSUME NEW b \in Accounts, VerifyEmail(b)
      PROVE  link' = link /\ (active[a] => active'[a])
  BY <1>3 DEF VerifyEmail, TokensTypeOK
<1>4. CASE Tick
  <2>1. active' = active
    BY <1>4 DEF Tick
  <2>2. link[a] # None => link[a] \in Nat /\ link[a] + 1 # None
    BY DEF TokensTypeOK, TokenAssumption
  <2>3. link'[a] \in {link[a], link[a] + 1}
    BY <1>4 DEF Tick
  <2> QED
    BY <2>1, <2>2, <2>3
<1> QED
  BY <1>1, <1>2, <1>3, <1>4 DEF TokenStep, Login, Refresh, SetStaff, tokenVars

\* An account that is active has been mailed a link.
ActiveMailed == \A a \in Accounts : active[a] => link[a] # None

OwnerInv == TokensTypeOK /\ ActiveMailed /\ VerifiedOnly /\ OneIdentity

LEMMA ActiveMailedKept ==
    ASSUME TokenAssumption, TokensTypeOK, ActiveMailed, TokenStep \/ UNCHANGED tokenVars
    PROVE  ActiveMailed'
<1> SUFFICES ASSUME NEW a \in Accounts, active'[a]
             PROVE  link'[a] # None
  BY DEF ActiveMailed
<1>1. CASE active[a]
  BY <1>1, VerificationKept DEF ActiveMailed
<1>2. ASSUME NEW b \in Accounts, VerifyEmail(b)
      PROVE  link'[a] # None
  BY <1>2 DEF VerifyEmail, ActiveMailed, TokensTypeOK
<1>3. CASE UNCHANGED active
  BY <1>1, <1>3
<1> QED
  BY <1>2, <1>3 DEF TokenStep, MailVerificationLink, Login, Refresh, SetStaff, Tick,
                    tokenVars

\* Where a token comes from, as far as its owner goes.
LEMMA OwnerOrigin ==
    ASSUME TokensTypeOK, TokenStep \/ UNCHANGED tokenVars, NEW t \in tokens'
    PROVE  \/ \E u \in tokens : t.subject = u.subject /\ t.user_id = u.user_id
           \/ /\ t.subject \in Accounts /\ t.user_id = t.subject
              /\ active[t.subject] /\ UNCHANGED active
<1>1. TokenOrigin(t)
  BY Origins
<1>2. ASSUME NEW a \in Accounts, Login(a),
             t \in {AccessToken(a, a, staff[a], 0), RefreshToken(a, 0)}
      PROVE  /\ t.subject = a /\ t.user_id = a
             /\ active[a] /\ UNCHANGED active
  BY <1>2 DEF AccessToken, RefreshToken, Login, MayLogIn
<1>3. ASSUME NEW u \in tokens, t = AccessToken(u.subject, u.user_id, FALSE, u.login)
      PROVE  t.subject = u.subject /\ t.user_id = u.user_id
  BY <1>3 DEF AccessToken
<1>4. ASSUME NEW u \in tokens, t = Older(u)
      PROVE  t.subject = u.subject /\ t.user_id = u.user_id
  BY <1>4, OlderToken DEF TokensTypeOK
<1> QED
  BY <1>1, <1>2, <1>3, <1>4 DEF TokenOrigin

LEMMA OwnerInvKept ==
    ASSUME TokenAssumption, OwnerInv, [Next]_vars
    PROVE  OwnerInv'
<1>1. TokenStep \/ UNCHANGED tokenVars
  BY TokenSteps
<1>2. TokensTypeOK' /\ ActiveMailed'
  BY <1>1, TokenTypes, ActiveMailedKept DEF OwnerInv
<1>3. ASSUME NEW t \in tokens'
      PROVE  /\ active'[t.subject] /\ link'[t.subject] # None
             /\ t.user_id = t.subject
  <2>1. CASE \E u \in tokens : t.subject = u.subject /\ t.user_id = u.user_id
    <3> PICK u \in tokens : t.subject = u.subject /\ t.user_id = u.user_id
      BY <2>1
    <3>1. u.subject \in Accounts
      BY DEF OwnerInv, TokensTypeOK, TokenRecords
    <3>2. active[u.subject] /\ link[u.subject] # None /\ u.user_id = u.subject
      BY DEF OwnerInv, VerifiedOnly, OneIdentity, CartOwner
    <3> QED
      BY <1>1, <3>1, <3>2, VerificationKept DEF OwnerInv
  <2>2. CASE /\ t.subject \in Accounts /\ t.user_id = t.subject
             /\ active[t.subject] /\ UNCHANGED active
    BY <1>2, <2>2 DEF ActiveMailed
  <2> QED
    BY <1>1, <2>1, <2>2, OwnerOrigin DEF OwnerInv
<1> QED
  BY <1>2, <1>3 DEF OwnerInv, VerifiedOnly, OneIdentity, CartOwner

LEMMA OwnerInvAlways == Spec => []OwnerInv
<1>1. Init => OwnerInv
  BY TokenAssumption, TokenInvInit
  DEF Init, TokensInit, TokenInv, OwnerInv, ActiveMailed, VerifiedOnly, OneIdentity
<1>2. OwnerInv /\ [Next]_vars => OwnerInv'
  BY TokenAssumption, OwnerInvKept
<1> QED
  BY <1>1, <1>2, PTL DEF Spec

\* Nobody holds a token for an account whose address is not verified.
THEOREM OnlyVerified == Spec => []VerifiedOnly
<1>1. OwnerInv => VerifiedOnly
  BY DEF OwnerInv
<1> QED
  BY <1>1, OwnerInvAlways, PTL

\* user-service (subject) and order-service (user_id) mean one account.
THEOREM OneAccount == Spec => []OneIdentity
<1>1. OwnerInv => OneIdentity
  BY DEF OwnerInv
<1> QED
  BY <1>1, OwnerInvAlways, PTL

-----------------------------------------------------------------------------
(* The profiles.                                                            *)

\* A PATCH in hand: its row exists and is its caller's; what it was asked to set
\* and need not write was so when the row was loaded.
PatchInHand ==
    \A r \in Requests : session[r].pc # "idle" =>
        /\ session[r].id \in Accounts /\ session[r].by = session[r].id
        /\ session[r].ask \in Asks /\ session[r].seen \in Rows
        /\ profiles[session[r].id] \in Rows

SeenIsMet ==
    \A r \in Requests, f \in Fields :
        /\ session[r].pc = "commit"
        /\ session[r].ask[f] # Keep
        /\ session[r].ask[f] = session[r].seen[f]
        => f \in met[r]

ApiInv == TypeOK /\ PatchInHand

\* What a PATCH writes is a row.
LEMMA PatchedIsRow ==
    ASSUME ApiInv, NEW r \in Requests, session[r].pc = "commit"
    PROVE  PatchedRow(session[r]) \in Rows
BY DEF ApiInv, PatchInHand, PatchedRow, Changed, Rows, Asks

LEMMA ApiInvKept ==
    ASSUME TokenAssumption, ApiInv, [Next]_vars
    PROVE  ApiInv'
<1>1. TokensTypeOK'
  BY TokenSteps, TokenTypes DEF ApiInv, TypeOK
<1> DEFINE Tables == /\ profiles' \in [Accounts -> Rows \cup {None}]
                     /\ session' \in [Requests -> [pc : {"idle", "commit", "reply"},
                          by : Accounts \cup {None}, id : Accounts \cup {None},
                          ask : Asks \cup {None}, seen : Rows \cup {None}]]
                     /\ PatchInHand'
<1>2. ASSUME UNCHANGED <<profiles, session>>
      PROVE  Tables
  BY <1>2 DEF ApiInv, TypeOK, PatchInHand
<1>3. ASSUME NEW a \in Accounts, CreateProfile(a)
      PROVE  Tables
  BY <1>3 DEF CreateProfile, ApiInv, TypeOK, PatchInHand, Rows
<1>4. ASSUME NEW r \in Requests, NEW t \in tokens, NEW a \in Accounts, NEW ask \in Asks,
             BeginPatch(r, t, a, ask)
      PROVE  Tables
  BY <1>4 DEF BeginPatch, IsSelf, Go, ApiInv, TypeOK, PatchInHand
<1>5. ASSUME NEW r \in Requests, CommitPatch(r)
      PROVE  Tables
  BY <1>5, PatchedIsRow DEF CommitPatch, Go, ApiInv, TypeOK, PatchInHand
<1>6. ASSUME NEW r \in Requests, EndRequest(r)
      PROVE  Tables
  BY <1>6 DEF EndRequest, Go, Free, ApiInv, TypeOK, PatchInHand
<1> HIDE DEF Tables
<1>7. Tables
  BY <1>2, <1>3, <1>4, <1>5, <1>6 DEF Next, Step, vars
<1>8. met' \in [Requests -> SUBSET Fields]
  BY DEF Next, MetNow, ApiInv, TypeOK, vars
<1> QED
  BY <1>1, <1>7, <1>8 DEF Tables, ApiInv, TypeOK

LEMMA ApiInvAlways == Spec => []ApiInv
<1>1. Init => ApiInv
  BY TokenAssumption, TokenInvInit DEF Init, TokenInv, ApiInv, TypeOK, PatchInHand, Free
<1>2. ApiInv /\ [Next]_vars => ApiInv'
  BY TokenAssumption, ApiInvKept
<1> QED
  BY <1>1, <1>2, PTL DEF Spec

\* Tables, tokens and requests are type correct.
THEOREM TypeCorrect == Spec => []TypeOK
<1>1. ApiInv => TypeOK
  BY DEF ApiInv
<1> QED
  BY <1>1, ApiInvAlways, PTL

\* user_schema.py, "everything else on the existing profile is left untouched":
\* however many PATCHes work on old rows of one profile.
THEOREM FieldsKept == Spec => ProfileFieldsKept
<1> DEFINE Kept == \A a \in Accounts, f \in Fields :
         profiles[a] # None /\ profiles'[a][f] # profiles[a][f] =>
           \E r \in Requests :
             /\ session[r].pc = "commit" /\ session[r].id = a
             /\ session[r].by = a /\ session[r].ask[f] = profiles'[a][f]
<1>1. ASSUME ApiInv, [Next]_vars
      PROVE  [Kept]_vars
  <2> SUFFICES ASSUME NEW a \in Accounts, NEW f \in Fields,
                      profiles[a] # None, profiles'[a][f] # profiles[a][f]
               PROVE  \E r \in Requests :
                        /\ session[r].pc = "commit" /\ session[r].id = a
                        /\ session[r].by = a /\ session[r].ask[f] = profiles'[a][f]
    OBVIOUS
  <2>1. \E r \in Requests : CommitPatch(r)
    BY <1>1 DEF Next, Step, CreateProfile, BeginPatch, EndRequest, vars, ApiInv, TypeOK
  <2>2. PICK r \in Requests : CommitPatch(r)
    BY <2>1
  <2>3. session[r].id = a /\ profiles'[a] = PatchedRow(session[r])
    BY <1>1, <2>2 DEF CommitPatch, ApiInv, TypeOK
  <2>4. f \in Changed(session[r])
    BY <2>3 DEF PatchedRow
  <2>5. profiles'[a][f] = session[r].ask[f]
    BY <2>3, <2>4 DEF PatchedRow
  <2> QED
    BY <1>1, <2>2, <2>3, <2>5 DEF CommitPatch, ApiInv, PatchInHand
<1>2. ApiInv /\ [Next]_vars => [Kept]_vars
  BY <1>1
<1> QED
  BY <1>2, ApiInvAlways, PTL DEF Spec, ProfileFieldsKept

HeldInv == SeenIsMet /\ ProfilePatchHeld

\* met follows the profile while a request is in hand.
LEMMA MetFollows ==
    ASSUME ApiInv, Next, NEW r \in Requests, session'[r].pc # "idle"
    PROVE  /\ met[r] \subseteq met'[r]
           /\ \A f \in Fields : profiles'[session'[r].id][f] = session'[r].ask[f]
                                   => f \in met'[r]
BY DEF Next, MetNow, ApiInv, TypeOK

LEMMA HeldInvKept ==
    ASSUME ApiInv, HeldInv, [Next]_vars
    PROVE  HeldInv'
<1>1. CASE UNCHANGED vars
  BY <1>1 DEF HeldInv, SeenIsMet, ProfilePatchHeld, vars
<1>2. ASSUME Next, NEW r \in Requests, NEW f \in Fields, session'[r].pc # "idle",
             session'[r].ask[f] # Keep,
             session'[r].pc = "commit" => session'[r].ask[f] = session'[r].seen[f]
      PROVE  f \in met'[r]
  <2>0. session[r] = session'[r] => f \in met'[r]
    BY <1>2, MetFollows DEF HeldInv, SeenIsMet, ProfilePatchHeld, ApiInv, TypeOK
  <2>1. ASSUME NEW t \in tokens, NEW a \in Accounts, NEW ask \in Asks,
               BeginPatch(r, t, a, ask)
        PROVE  f \in met'[r]
    <3>1. session'[r].id = a /\ session'[r].seen = profiles[a] /\ profiles' = profiles
          /\ session'[r].pc = "commit"
      BY <2>1 DEF BeginPatch, Go, ApiInv, TypeOK
    <3> QED
      BY <1>2, <3>1, MetFollows
  <2>2. CASE CommitPatch(r)
    <3>1. /\ session'[r] = [session[r] EXCEPT !.pc = "reply"]
          /\ session[r].pc = "commit"
          /\ profiles'[session[r].id] = PatchedRow(session[r])
      BY <2>2 DEF CommitPatch, Go, ApiInv, TypeOK, PatchInHand
    <3>2. session'[r].ask = session[r].ask /\ session'[r].id = session[r].id
      BY <3>1 DEF ApiInv, TypeOK
    <3>3. CASE f \in Changed(session[r])
      BY <1>2, <3>1, <3>2, <3>3, MetFollows DEF PatchedRow
    <3>4. CASE f \notin Changed(session[r])
      BY <1>2, <3>2, <3>1, <3>4, MetFollows DEF Changed, HeldInv, SeenIsMet
    <3> QED
      BY <3>3, <3>4
  <2>3. CASE EndRequest(r)
    BY <1>2, <2>3 DEF EndRequest, Go, Free, ApiInv, TypeOK
  <2>4. ASSUME NEW q \in Requests, q # r,
               \/ CommitPatch(q) \/ EndRequest(q)
               \/ \E t \in tokens, a \in Accounts, ask \in Asks : BeginPatch(q, t, a, ask)
        PROVE  session[r] = session'[r]
    BY <2>4 DEF CommitPatch, EndRequest, BeginPatch, Go, ApiInv, TypeOK
  <2>5. ASSUME NEW a \in Accounts, CreateProfile(a)
        PROVE  session[r] = session'[r]
    BY <2>5 DEF CreateProfile
  <2> QED
    BY <1>2, <2>0, <2>1, <2>2, <2>3, <2>4, <2>5 DEF Next, Step
<1> QED
  BY <1>1, <1>2 DEF HeldInv, SeenIsMet, ProfilePatchHeld

\* A PATCH that is answered was true at some moment of the request.
THEOREM PatchHeld == Spec => []ProfilePatchHeld
<1>1. Init => HeldInv
  BY DEF Init, Free, HeldInv, SeenIsMet, ProfilePatchHeld
<1>2. ApiInv /\ HeldInv /\ [Next]_vars => HeldInv'
  BY HeldInvKept
<1>3. HeldInv => ProfilePatchHeld
  BY DEF HeldInv
<1> QED
  BY <1>1, <1>2, <1>3, ApiInvAlways, PTL DEF Spec
==============================================================================
