--------------------------- MODULE Session_proofs ---------------------------
(***************************************************************************)
(* Proofs about Session: for any accounts, tokens and owners of tokens, no *)
(* profile survives a logout, and a browser that signs in with passwords,  *)
(* one session after the other, shows the owner of its token.              *)
(***************************************************************************)
EXTENDS Session, TLAPS

-----------------------------------------------------------------------------
(* What the helpers return. *)

\* A profile request that is sent is a request.
LEMMA SentType ==
  ASSUME NEW t \in Tokens, NEW ck \in MaybeToken
  PROVE  Sent(t, ck) \in Flights
  BY DEF Sent, As, Flights, MaybeToken

\* No request is a state of requests, too.
LEMMA IdleType == Idle \in Flights
  BY DEF Flights

\* A query without an answer is a cache entry.
LEMMA UnknownType == Unknown \in Entries
  BY DEF Unknown, Entries, MaybeUser

\* Requests forgotten by their component are requests.
LEMMA ForgetType ==
  ASSUME NEW as \in SUBSET Asks
  PROVE  Forget(as) \in SUBSET Asks
<1>1. ASSUME NEW a \in as
      PROVE  [a EXCEPT !.mine = FALSE] \in Asks
  BY DEF Asks
<1>2. CASE Mounted
  BY <1>2 DEF Forget
<1>3. CASE ~Mounted
  BY <1>1, <1>3, Zenon DEF Forget
<1> QED
  BY <1>2, <1>3

\* Without a request there is none to forget.
LEMMA ForgetNone == Forget({}) = {}
  BY DEF Forget

\* The parts of TypeOK the actions share.
LEMMA RunsType ==
  ASSUME ran \in Runs, ran' = ran \/ ran' = Unrun
  PROVE  ran' \in Runs
  BY DEF Runs

\* Rendering runs the effects whose dependencies have changed, and no other kind.
LEMMA RenderType ==
  ASSUME ran \in Runs, NEW as \in SUBSET Asks, Render(as)
  PROVE  ran' \in Runs /\ asks' \in SUBSET Asks
  BY RunsType, ForgetType DEF Render

\* An address the router is told to show is an address.
LEMMA GotoType ==
  ASSUME NEW p \in Pages, Goto(p)
  PROVE  page' \in Pages /\ url' \in MaybeToken /\ next' \in Nexts
  BY DEF Goto, MaybeToken, Nexts

\* A new token brings its own profile request.
LEMMA SetTokenType ==
  ASSUME NEW t \in Tokens, NEW ck \in MaybeToken, SetToken(t, ck),
         flight \in [Tokens -> Flights]
  PROVE  token' \in MaybeToken /\ flight' \in [Tokens -> Flights]
  BY SentType DEF SetToken, MaybeToken

\* So does asking again.
LEMMA RefetchType ==
  ASSUME NEW t \in Tokens, NEW ck \in MaybeToken, Refetch(t, ck),
         flight \in [Tokens -> Flights]
  PROVE  flight' \in [Tokens -> Flights]
  BY SentType DEF Refetch

\* Loading the application leaves everything well formed.
LEMMA LoadType ==
  ASSUME NEW p \in Pages, NEW u \in MaybeToken, NEW n \in Nexts, NEW ck \in MaybeToken,
         Load(p, u, n, ck)
  PROVE  /\ page' \in Pages /\ url' \in MaybeToken /\ next' \in Nexts
         /\ profile' \in [Tokens -> Entries] /\ flight' \in [Tokens -> Flights]
         /\ ran' \in Runs /\ asks' \in SUBSET Asks /\ saving' \in Savings
<1>1. flight' \in [Tokens -> Flights]
  BY SentType, IdleType DEF Load
<1>2. profile' \in [Tokens -> Entries]
  BY UnknownType DEF Load
<1>3. page' \in Pages /\ url' \in MaybeToken /\ next' \in Nexts
  BY DEF Load, MaybeToken, Nexts
<1>4. ran' \in Runs /\ asks' \in SUBSET Asks /\ saving' \in Savings
  BY DEF Load, Runs, Savings
<1> QED
  BY <1>1, <1>2, <1>3, <1>4

\* Logging out leaves everything well formed.
LEMMA LogOutType ==
  ASSUME TypeOK, NEW p \in Pages, LogOut(p)
  PROVE  /\ token' \in MaybeToken /\ profile' \in [Tokens -> Entries]
         /\ flight' \in [Tokens -> Flights] /\ ran' \in Runs /\ asks' \in SUBSET Asks
         /\ page' \in Pages /\ url' \in MaybeToken /\ next' \in Nexts
<1>1. ran' \in Runs /\ asks' \in SUBSET Asks
  BY RenderType DEF LogOut, TypeOK
<1>2. page' \in Pages /\ url' \in MaybeToken /\ next' \in Nexts
  BY GotoType DEF LogOut
<1>3. profile' \in [Tokens -> Entries] /\ flight' \in [Tokens -> Flights]
  BY UnknownType, IdleType DEF LogOut, RemoveProfiles
<1> QED
  BY <1>1, <1>2, <1>3 DEF LogOut, MaybeToken

-----------------------------------------------------------------------------
\* The initial states are of the kinds TypeOK lists.
LEMMA InitType == Init => TypeOK
<1> SUFFICES ASSUME Init PROVE TypeOK
  OBVIOUS
<1>1. profile \in [Tokens -> Entries] /\ flight \in [Tokens -> Flights]
  BY UnknownType, IdleType DEF Init
<1>2. /\ method \in Methods /\ page \in Pages /\ next \in Nexts
      /\ token \in MaybeToken /\ cookie \in MaybeToken /\ url \in MaybeToken
  BY DEF Init, MaybeToken, Nexts
<1>3. /\ issued \subseteq Tokens /\ expired \subseteq issued
      /\ mustReset \subseteq Users /\ asks \subseteq Asks
  BY DEF Init
<1>4. ran \in Runs /\ saving \in Savings
  BY DEF Init, Runs, Savings
<1>5. acts \in 0..MaxActs
  BY ActsAssumption DEF Init
<1>6. disturbed \in BOOLEAN
  BY Zenon DEF Init
<1> QED
  BY <1>1, <1>2, <1>3, <1>4, <1>5, <1>6 DEF TypeOK

\* The signed-in user is a user, or nobody.
LEMMA UserType == TypeOK => User \in MaybeUser
  BY DEF TypeOK, User, MaybeToken, MaybeUser, Entries

\* Every redirect leads to a page.
LEMMA TargetType == TypeOK => Target \in Pages
<1> SUFFICES ASSUME TypeOK PROVE Target \in Pages
  OBVIOUS
<1>1. Home \in Pages /\ ProtectedTarget \in Pages /\ LoginTarget \in Pages /\ ResetTarget \in Pages
  BY DEF Home, ProtectedTarget, LoginTarget, ResetTarget, Pages
<1> QED
  BY <1>1 DEF Target, TypeOK, Pages

\* What effects depend on has the form of what they ran with.
LEMMA DepsType == TypeOK => Deps \in Runs
<1> SUFFICES ASSUME TypeOK PROVE Deps \in Runs
  OBVIOUS
<1>1. IsAuthenticated \in BOOLEAN
  BY Zenon DEF IsAuthenticated
<1>2. RequiresPasswordReset \in BOOLEAN
  BY Zenon DEF RequiresPasswordReset
<1>3. (IF page = "login" THEN url ELSE NoToken) \in MaybeToken
  BY DEF TypeOK, MaybeToken
<1> DEFINE auth == IF page \in {"login", "home", "reset"} THEN IsAuthenticated ELSE FALSE
           reset == IF page \in {"login", "home", "reset"} THEN RequiresPasswordReset ELSE FALSE
<1>4. auth \in BOOLEAN /\ reset \in BOOLEAN
  BY <1>1, <1>2, Zenon
<1>5. [st |-> "ran", auth |-> auth, reset |-> reset,
       url |-> IF page = "login" THEN url ELSE NoToken] \in Runs
  <2> HIDE DEF auth, reset
  <2> QED
    BY <1>3, <1>4 DEF Runs
<1> QED
  BY <1>5 DEF Deps

\* Every step keeps the kinds of values.
LEMMA NextType == TypeOK /\ [Next]_vars => TypeOK'
<1> SUFFICES ASSUME TypeOK, [Next]_vars PROVE TypeOK'
  OBVIOUS
<1> USE DEF TypeOK
<1>1. ASSUME NEW u \in Users, SignIn(u) PROVE TypeOK'
  <2>1. disturbed' \in BOOLEAN
    <3>1. disturbed' = (disturbed \/ asks # {} \/ token # NoToken)
      BY <1>1 DEF SignIn
    <3>2. QED
      BY <3>1, Zenon
  <2>2. asks' \subseteq Asks
    <3>1. [user |-> u, next |-> next, mine |-> TRUE] \in Asks
      BY DEF Asks
    <3>2. asks' = asks \union {[user |-> u, next |-> next, mine |-> TRUE]}
      BY <1>1 DEF SignIn
    <3>3. QED
      BY <3>1, <3>2, Zenon
  <2>3. acts' \in 0..MaxActs
    BY <1>1, ActsAssumption DEF SignIn, Act
  <2>4. /\ method' = method /\ token' = token /\ cookie' = cookie
        /\ issued' = issued /\ expired' = expired /\ mustReset' = mustReset
        /\ profile' = profile /\ flight' = flight /\ page' = page
        /\ url' = url /\ next' = next /\ ran' = ran /\ saving' = saving
    BY <1>1 DEF SignIn
  <2>5. QED
    BY <2>1, <2>2, <2>3, <2>4, Zenon
<1>2. ASSUME NEW p \in Pages, Visit(p) PROVE TypeOK'
  BY <1>2, ActsAssumption, GotoType, RenderType DEF Visit, Act
<1>3. ASSUME NEW p \in Pages, NEW u \in MaybeToken, NEW n \in Nexts, Open(p, u, n) PROVE TypeOK'
  BY <1>3, ActsAssumption, LoadType DEF Open, Act
<1>4. ASSUME NEW t \in Tokens, OpenIdReturns(t) PROVE TypeOK'
  <2>1. (IF next = "none" THEN "login" ELSE next) \in Pages /\ "none" \in Nexts /\ t \in MaybeToken
    BY DEF Pages, Nexts, MaybeToken
  <2>2. QED
    <3> DEFINE p == IF next = "none" THEN "login" ELSE next
    <3>1. Load(p, t, "none", cookie)
      BY <1>4 DEF OpenIdReturns
    <3>2. p \in Pages
      BY <2>1
    <3> HIDE DEF p
    <3>3. /\ page' \in Pages /\ url' \in MaybeToken /\ next' \in Nexts
          /\ profile' \in [Tokens -> Entries] /\ flight' \in [Tokens -> Flights]
          /\ ran' \in Runs /\ asks' \in SUBSET Asks /\ saving' \in Savings
      BY <2>1, <3>1, <3>2, LoadType
    <3>4. issued' \subseteq Tokens /\ expired' \subseteq issued' /\ acts' \in 0..MaxActs
      BY <1>4, ActsAssumption DEF OpenIdReturns, Act
    <3>5. QED
      BY <1>4, <3>3, <3>4 DEF OpenIdReturns
<1>5. CASE HeaderLogout \/ SideLogout
  BY <1>5, ActsAssumption, LogOutType DEF HeaderLogout, SideLogout, LogOut, Act, Pages
<1>6. CASE SaveUser
  <2>1. token # NoToken /\ User \in Users /\ page \in {"reset", "profile"}
    BY <1>6, UserType DEF SaveUser, ResetForm, ProfileForm, RequiresPasswordReset,
       IsAuthenticated, User, MaybeUser
  <2>2. As(token, cookie) \in Tokens
    BY <2>1 DEF As, MaybeToken
  <2>3. saving' \in Savings
    BY <1>6, <2>1, <2>2 DEF SaveUser, Savings
  <2>4. QED
    BY <1>6, <2>3, ActsAssumption DEF SaveUser, Act
<1>7. CASE Reconnect
  BY <1>7, ActsAssumption, RefetchType, RenderType DEF Reconnect, Act, MaybeToken
<1>8. ASSUME NEW a \in asks, NEW t \in Tokens, SignInOk(a, t) PROVE TypeOK'
  <2>1. cookie' \in MaybeToken /\ t \in MaybeToken /\ issued' \subseteq Tokens /\ expired' \subseteq issued'
    BY <1>8 DEF SignInOk, Cookie, MaybeToken
  <2>2. CASE a.next # "none"
    <3>1. a.next \in Pages /\ "none" \in Nexts
      BY <2>2 DEF Asks, Nexts, Pages
    <3>2. QED
      BY <1>8, <2>1, <2>2, <3>1, LoadType DEF SignInOk
  <2>3. CASE a.next = "none"
    <3>1. token' \in MaybeToken /\ flight' \in [Tokens -> Flights]
      BY <1>8, <2>1, <2>3, SetTokenType DEF SignInOk
    <3>2. ran' \in Runs /\ asks' \in SUBSET Asks
      BY <1>8, <2>3, RenderType DEF SignInOk
    <3>3. QED
      BY <1>8, <2>1, <2>3, <3>1, <3>2 DEF SignInOk
  <2>4. QED
    BY <2>2, <2>3
<1>9. ASSUME NEW a \in asks, SignInFails(a) PROVE TypeOK'
  BY <1>9 DEF SignInFails
<1>10. ASSUME NEW t \in Tokens, ServeProfile(t) PROVE TypeOK'
  <2> DEFINE ok == Good(flight[t].as)
             reply == [user |-> IF ok THEN Owner[flight[t].as] ELSE NoOne,
                       reset |-> ok /\ Owner[flight[t].as] \in mustReset,
                       rejected |-> ~ok]
  <2>1. flight[t].as \in Tokens
    BY <1>10 DEF ServeProfile, Flights, Idle
  <2>2. (ok /\ Owner[flight[t].as] \in mustReset) \in BOOLEAN /\ (~ok) \in BOOLEAN
    BY Zenon
  <2>3. (IF ok THEN Owner[flight[t].as] ELSE NoOne) \in MaybeUser
    BY <2>1, OwnerAssumption DEF MaybeUser
  <2>4. reply \in Replies
    <3> DEFINE x == ok /\ Owner[flight[t].as] \in mustReset
               y == ~ok
               z == IF ok THEN Owner[flight[t].as] ELSE NoOne
    <3>1. x \in BOOLEAN /\ y \in BOOLEAN /\ z \in MaybeUser
      BY <2>2, <2>3
    <3> HIDE DEF x, y, z, ok
    <3>2. [user |-> z, reset |-> x, rejected |-> y] \in Replies
      BY <3>1 DEF Replies
    <3>3. QED
      BY <3>2 DEF x, y, z
  <2>5. flight' = [flight EXCEPT ![t] = [st |-> "read", reply |-> reply]]
    BY <1>10 DEF ServeProfile
  <2> HIDE DEF reply, ok
  <2>6. flight' \in [Tokens -> Flights]
    BY <2>4, <2>5 DEF Flights
  <2>7. QED
    BY <1>10, <2>6 DEF ServeProfile
<1>11. ASSUME NEW t \in Tokens, GetProfile(t) PROVE TypeOK'
  <2>1. flight[t].reply \in Replies
    BY <1>11 DEF GetProfile, Flights, Idle
  <2>2. [user |-> flight[t].reply.user, reset |-> flight[t].reply.reset] \in Entries
    BY <2>1 DEF Replies, Entries
  <2>3. profile' \in [Tokens -> Entries] /\ cookie' \in MaybeToken
    BY <1>11, <2>2 DEF GetProfile, MaybeToken
  <2>4. flight' \in [Tokens -> Flights]
    BY <1>11, IdleType DEF GetProfile
  <2>5. QED
    BY <1>11, <2>3, <2>4, RenderType DEF GetProfile
<1>12. ASSUME NEW t \in Tokens, LoseProfile(t) PROVE TypeOK'
  BY <1>12, IdleType, RenderType DEF LoseProfile
<1>13. CASE ServeSave
  <2>1. saving' \in Savings
    BY <1>13 DEF ServeSave, Savings, Unsaved
  <2>2. QED
    BY <1>13, <2>1 DEF ServeSave
<1>14. CASE UserSaved
  <2>1. saving' \in Savings
    BY <1>14 DEF UserSaved, Savings
  <2>2. flight' \in [Tokens -> Flights]
    BY <1>14, RefetchType DEF UserSaved, MaybeToken
  <2>3. page' \in Pages /\ url' \in MaybeToken /\ next' \in Nexts
    BY <1>14, GotoType DEF UserSaved, Pages
  <2>4. QED
    BY <1>14, <2>1, <2>2, <2>3, RenderType DEF UserSaved
<1>15. CASE UserNotSaved
  BY <1>15 DEF UserNotSaved, Savings
<1>16. ASSUME NEW t \in Tokens, Expire(t) PROVE TypeOK'
  BY <1>16 DEF Expire
<1>17. CASE CheckToken
  BY <1>17, LogOutType DEF CheckToken, LogOut, Pages
<1>18. CASE Effects
  <2>1. token' \in MaybeToken /\ flight' \in [Tokens -> Flights]
    BY <1>18, SetTokenType DEF Effects, TakesToken, Deps, MaybeToken
  <2>2. page' \in Pages /\ url' \in MaybeToken /\ next' \in Nexts
    BY <1>18, GotoType, TargetType DEF Effects
  <2>3. ran' \in Runs
    BY <1>18, DepsType DEF Effects, Runs
  <2>4. asks' \in SUBSET Asks
    BY <1>18, ForgetType DEF Effects
  <2>5. QED
    BY <1>18, <2>1, <2>2, <2>3, <2>4 DEF Effects
<1>19. CASE UNCHANGED vars
  BY <1>19 DEF vars
<1> QED
  BY <1>1, <1>2, <1>3, <1>4, <1>5, <1>6, <1>7, <1>8, <1>9, <1>10, <1>11, <1>12, <1>13,
     <1>14, <1>15, <1>16, <1>17, <1>18, <1>19
  DEF Next, UserActs, Answered, Fetching, Saving

\* Every variable keeps to its kind, whatever is in flight when.
THEOREM TypeCorrect == Spec => []TypeOK
  BY InitType, NextType, PTL DEF Spec

-----------------------------------------------------------------------------
\* The first page is loaded without a token and without answers.
LEMMA ForgottenInit == Init => LogoutForgets
  BY DEF Init, LogoutForgets

\* A step keeps a browser without a token empty: it starts no request without
\* a token, and no request is left whose answer could come.
LEMMA ForgottenNext == TypeOK /\ LogoutForgets /\ [Next]_vars => LogoutForgets'
<1> SUFFICES ASSUME TypeOK, LogoutForgets, [Next]_vars, token' = NoToken, NEW s \in Tokens
             PROVE  profile'[s] = Unknown /\ flight'[s] = Idle
  BY DEF LogoutForgets
<1> DEFINE Kept == token' = token /\ profile' = profile /\ flight' = flight
<1>0. ASSUME Kept PROVE profile'[s] = Unknown /\ flight'[s] = Idle
  BY <1>0 DEF LogoutForgets
<1>1. ASSUME NEW u \in Users, SignIn(u) PROVE Kept
  BY <1>1 DEF SignIn
<1>2. ASSUME NEW p \in Pages, Visit(p) PROVE Kept
  BY <1>2 DEF Visit
<1>3. ASSUME NEW p, NEW u, NEW n, NEW ck, Load(p, u, n, ck), token' = token
      PROVE  profile'[s] = Unknown /\ flight'[s] = Idle
  BY <1>3, NoneAssumption DEF Load
<1>4. ASSUME NEW p, LogOut(p) PROVE profile'[s] = Unknown /\ flight'[s] = Idle
  BY <1>4 DEF LogOut, RemoveProfiles
<1>5. CASE SaveUser
  BY <1>0, <1>5 DEF SaveUser
<1>6. CASE Reconnect
  BY <1>6 DEF Reconnect
<1>7. ASSUME NEW a \in asks, NEW t \in Tokens, SignInOk(a, t)
      PROVE  profile'[s] = Unknown /\ flight'[s] = Idle
  <2>1. CASE a.next # "none"
    BY <1>3, <1>7, <2>1 DEF SignInOk
  <2>2. CASE a.next = "none"
    BY <1>0, <1>7, <2>2, NoneAssumption DEF SignInOk, SetToken
  <2>3. QED
    BY <2>1, <2>2
<1>8. ASSUME NEW a \in asks, SignInFails(a) PROVE Kept
  BY <1>8 DEF SignInFails
<1>9. ASSUME NEW t \in Tokens, Fetching(t) PROVE profile'[s] = Unknown /\ flight'[s] = Idle
  <2>1. token = NoToken
    BY <1>9 DEF Fetching, ServeProfile, GetProfile, LoseProfile
  <2>2. flight[t] = Idle
    BY <2>1 DEF LogoutForgets
  <2>3. QED
    BY <1>9, <2>2 DEF Fetching, ServeProfile, GetProfile, LoseProfile, Idle
<1>10. CASE Saving
  <2>1. token' = token /\ profile' = profile
    BY <1>10 DEF Saving, ServeSave, UserSaved, UserNotSaved
  <2>2. flight' = flight
    BY <1>10, <2>1 DEF Saving, ServeSave, UserSaved, UserNotSaved
  <2>3. QED
    BY <1>0, <2>1, <2>2
<1>11. ASSUME NEW t \in Tokens, Expire(t) PROVE Kept
  BY <1>11 DEF Expire
<1>12. CASE Effects
  <2>1. CASE TakesToken
    BY <1>12, <2>1 DEF Effects, SetToken, TakesToken, Deps
  <2>2. CASE ~TakesToken
    BY <1>0, <1>12, <2>2 DEF Effects
  <2>3. QED
    BY <2>1, <2>2
<1>13. CASE UNCHANGED vars
  BY <1>0, <1>13 DEF vars
<1> HIDE DEF Kept
<1>14. ASSUME NEW p \in Pages, NEW u \in MaybeToken, NEW n \in Nexts, Open(p, u, n)
       PROVE  profile'[s] = Unknown /\ flight'[s] = Idle
  BY <1>3, <1>14 DEF Open
<1>15. ASSUME NEW t \in Tokens, OpenIdReturns(t)
       PROVE  profile'[s] = Unknown /\ flight'[s] = Idle
  BY <1>3, <1>15 DEF OpenIdReturns
<1>16. CASE HeaderLogout \/ SideLogout \/ CheckToken
  BY <1>4, <1>16 DEF HeaderLogout, SideLogout, CheckToken
<1> QED
  BY <1>0, <1>1, <1>2, <1>5, <1>6, <1>7, <1>8, <1>9, <1>10, <1>11, <1>12, <1>13, <1>14, <1>15, <1>16
  DEF Next, UserActs, Answered

\* AuthProvider's logout leaves nothing behind, with any number of tokens and
\* whatever was in flight.
THEOREM LogoutForgotten == Spec => []LogoutForgets
<1>1. Init => TypeOK /\ LogoutForgets
  BY InitType, ForgottenInit
<1>2. TypeOK /\ LogoutForgets /\ [Next]_vars => (TypeOK /\ LogoutForgets)'
  BY NextType, ForgottenNext
<1> QED
  BY <1>1, <1>2, PTL DEF Spec

-----------------------------------------------------------------------------
(* Why the account shown is the token's: with passwords and one session    *)
(* after the other, the only token the cookie can hold is the one held, or *)
(* the one that is in the address and about to be taken over.              *)

\* Nobody signs in over a session or over another sign-in.
TokenInv == token # NoToken => cookie \in {token, NoToken} /\ asks = {}

\* The token of the address is the cookie's, and taken over before anything else.
UrlInv == url # NoToken =>
  /\ page = "login" /\ asks = {}
  /\ cookie \in {url, NoToken} /\ token \in {url, NoToken}
  /\ ran.st = "ran" /\ ran.url = url => token # NoToken

OneAsk == \A a, b \in asks : a = b

\* A profile is asked for as its own token, and answered with its owner.
ServedInv == \A t \in Tokens :
  /\ profile[t].user \in {NoOne, Owner[t]}
  /\ flight[t].st = "sent" => flight[t].as = t
  /\ flight[t].st = "read" => flight[t].reply.user \in {NoOne, Owner[t]}

OwnInv == method = "password" /\ ~disturbed => TokenInv /\ UrlInv /\ OneAsk /\ ServedInv

\* Forgetting makes no requests.
LEMMA ForgetOne ==
  ASSUME NEW as, \A a, b \in as : a = b
  PROVE  \A a, b \in Forget(as) : a = b
  BY Zenon DEF Forget

\* The first page shows nobody.
LEMMA OwnInit == Init => OwnInv
  BY DEF Init, OwnInv, TokenInv, UrlInv, OneAsk, ServedInv, Unknown, Idle

\* A request sent with the token itself, or nothing, in the cookie is judged
\* by the token.
LEMMA SentOwn ==
  ASSUME NEW t \in Tokens, NEW ck, ck \in {t, NoToken}
  PROVE  Sent(t, ck) = [st |-> "sent", as |-> t]
  BY DEF Sent, As

\* Sending the request of one token, and forgetting profiles, keeps ServedInv.
LEMMA ServedSent ==
  ASSUME TypeOK, ServedInv, NEW t \in Tokens, NEW ck, ck \in {t, NoToken}, profile' = profile,
         flight' = flight \/ flight' = [flight EXCEPT ![t] = Sent(t, ck)]
  PROVE  ServedInv'
  BY SentOwn DEF ServedInv, TypeOK

\* Loading the application asks for the profile with the token it was given.
LEMMA ServedLoad ==
  ASSUME TypeOK, NEW p, NEW u, NEW n, NEW ck, Load(p, u, n, ck), token # NoToken => ck \in {token, NoToken}
  PROVE  ServedInv'
  BY SentOwn, NoneAssumption DEF Load, ServedInv, Unknown, Idle, TypeOK, MaybeToken

\* Where none of it changes but what is rendered, OwnInv is kept.
LEMMA OwnKept ==
  ASSUME TypeOK, OwnInv, token' = token, cookie' \in {cookie, NoToken},
         UNCHANGED <<method, disturbed>>,
         method = "password" /\ ~disturbed => ServedInv',
         asks' = asks \/ asks' = Forget(asks), ran' = ran \/ ran' = Unrun,
         (url' = url /\ page' = page) \/ url' = NoToken
  PROVE  OwnInv'
<1> SUFFICES ASSUME method = "password", ~disturbed
             PROVE  TokenInv' /\ UrlInv' /\ OneAsk' /\ ServedInv'
  BY DEF OwnInv
<1>1. TokenInv /\ UrlInv /\ OneAsk
  BY DEF OwnInv
<1>2. asks = {} => asks' = {}
  BY ForgetNone
<1>3. TokenInv'
  BY <1>1, <1>2 DEF TokenInv
<1>4. UrlInv'
  BY <1>1, <1>2 DEF UrlInv, Unrun
<1>5. OneAsk'
  <2>1. CASE asks' = asks
    BY <1>1, <2>1, Zenon DEF OneAsk
  <2>2. CASE asks' = Forget(asks)
    <3>1. \A a, b \in Forget(asks) : a = b
      BY <1>1, ForgetOne, Zenon DEF OneAsk
    <3>2. QED
      BY <2>2, <3>1, Zenon DEF OneAsk
  <2>3. QED
    BY <2>1, <2>2
<1> QED
  BY <1>1, <1>3, <1>4, <1>5

\* Every step keeps it.
LEMMA OwnNext == TypeOK /\ OwnInv /\ [Next]_vars => OwnInv'
<1> SUFFICES ASSUME TypeOK, OwnInv, [Next]_vars PROVE OwnInv'
  OBVIOUS
<1>a. ASSUME profile' = profile, flight' = flight, method = "password", ~disturbed
      PROVE  ServedInv'
  BY <1>a DEF OwnInv, ServedInv
<1>b. ASSUME NEW as, Render(as) PROVE asks' = Forget(as) /\ (ran' = ran \/ ran' = Unrun)
  BY <1>b DEF Render
<1>1. ASSUME NEW u \in Users, SignIn(u) PROVE OwnInv'
  <2> SUFFICES ASSUME method = "password", ~disturbed, asks = {}, token = NoToken
               PROVE  TokenInv' /\ UrlInv' /\ OneAsk' /\ ServedInv'
    BY <1>1 DEF SignIn, OwnInv
  <2>1. UrlInv /\ ServedInv
    BY DEF OwnInv
  <2>2. url = NoToken
    BY <1>1, <2>1 DEF UrlInv, SignIn, LoginForm, Ready, Deps
  <2>3. TokenInv' /\ UrlInv' /\ ServedInv'
    BY <1>1, <1>a, <2>1, <2>2 DEF SignIn, TokenInv, UrlInv
  <2>4. OneAsk'
    <3>1. asks' = {[user |-> u, next |-> next, mine |-> TRUE]}
      BY <1>1, Zenon DEF SignIn
    <3>2. QED
      BY <3>1, Zenon DEF OneAsk
  <2>5. QED
    BY <2>3, <2>4
<1>2. ASSUME NEW p \in Pages, Visit(p) PROVE OwnInv'
  BY <1>2, <1>a, <1>b, OwnKept DEF Visit, Goto
<1>3. ASSUME NEW p \in Pages, NEW u \in MaybeToken, NEW n \in Nexts, Open(p, u, n) PROVE OwnInv'
  <2> SUFFICES ASSUME method = "password", ~disturbed
               PROVE  TokenInv' /\ UrlInv' /\ OneAsk' /\ ServedInv'
    BY <1>3 DEF Open, OwnInv
  <2>1. TokenInv /\ u = NoToken /\ Load(p, NoToken, n, cookie)
    BY <1>3 DEF OwnInv, Open
  <2>2. ServedInv'
    BY <2>1, ServedLoad DEF TokenInv
  <2>3. asks' = {} /\ url' = NoToken /\ token' = token /\ cookie' = cookie
    BY <1>3, <2>1 DEF Load, Open
  <2>4. QED
    BY <2>1, <2>2, <2>3 DEF TokenInv, UrlInv, OneAsk
<1>4. ASSUME NEW t \in Tokens, OpenIdReturns(t) PROVE OwnInv'
  BY <1>4 DEF OpenIdReturns, OwnInv
<1>5. ASSUME NEW p, LogOut(p) PROVE OwnInv'
  <2> SUFFICES ASSUME method = "password", ~disturbed
               PROVE  TokenInv' /\ UrlInv' /\ OneAsk' /\ ServedInv'
    BY <1>5 DEF LogOut, OwnInv
  <2>1. token' = NoToken /\ url' = NoToken
    BY <1>5 DEF LogOut, Goto
  <2>2. ServedInv'
    BY <1>5 DEF LogOut, RemoveProfiles, ServedInv, Unknown, Idle
  <2>3. OneAsk'
    <3>1. asks' = Forget(asks)
      BY <1>5 DEF LogOut, Render
    <3>2. \A a, b \in Forget(asks) : a = b
      BY ForgetOne, Zenon DEF OwnInv, OneAsk
    <3>3. QED
      BY <3>1, <3>2, Zenon DEF OneAsk
  <2>4. QED
    BY <2>1, <2>2, <2>3 DEF TokenInv, UrlInv
<1>6. CASE SaveUser
  BY <1>6, <1>a, OwnKept DEF SaveUser
<1>7. CASE Reconnect
  <2>1. ASSUME method = "password", ~disturbed PROVE ServedInv'
    BY <1>7, <2>1, ServedSent DEF Reconnect, Refetch, OwnInv, TokenInv, TypeOK, MaybeToken
  <2>2. QED
    BY <1>7, <1>b, <2>1, OwnKept DEF Reconnect
<1>8. ASSUME NEW a \in asks, NEW t \in Tokens, SignInOk(a, t) PROVE OwnInv'
  <2> SUFFICES ASSUME method = "password", ~disturbed
               PROVE  TokenInv' /\ UrlInv' /\ OneAsk' /\ ServedInv'
    BY <1>8 DEF SignInOk, OwnInv
  <2>1. TokenInv /\ UrlInv /\ OneAsk /\ ServedInv
    BY DEF OwnInv
  <2>2. token = NoToken /\ url = NoToken /\ cookie' = t
    BY <1>8, <2>1 DEF TokenInv, UrlInv, SignInOk, Cookie
  <2>3. CASE a.next # "none"
    <3>1. Load(a.next, t, "none", t) /\ token' = token
      BY <1>8, <2>2, <2>3 DEF SignInOk
    <3>2. ServedInv'
      BY <2>2, <3>1, ServedLoad
    <3>3. asks' = {} /\ ran' = Unrun /\ url' \in {t, NoToken} /\ (url' # NoToken => page' = "login")
      BY <3>1 DEF Load
    <3>4. QED
      BY <2>2, <3>1, <3>2, <3>3 DEF TokenInv, UrlInv, OneAsk, Unrun
  <2>4. CASE a.next = "none"
    <3>1. asks \ {a} = {}
      BY <2>1, Zenon DEF OneAsk
    <3>2. asks' = {}
      BY <1>8, <1>b, <2>4, <3>1, ForgetNone DEF SignInOk
    <3>3. token' \in {t, NoToken} /\ url' = NoToken
      BY <1>8, <2>2, <2>4 DEF SignInOk, SetToken
    <3>4. ServedInv'
      BY <1>8, <2>1, <2>2, <2>4, ServedSent DEF SignInOk, SetToken
    <3>5. QED
      BY <2>2, <3>2, <3>3, <3>4 DEF TokenInv, UrlInv, OneAsk
  <2>5. QED
    BY <2>3, <2>4
<1>9. ASSUME NEW a \in asks, SignInFails(a) PROVE OwnInv'
  <2> SUFFICES ASSUME method = "password", ~disturbed
               PROVE  TokenInv' /\ UrlInv' /\ OneAsk' /\ ServedInv'
    BY <1>9 DEF SignInFails, OwnInv
  <2>1. asks' \subseteq asks
    BY <1>9, Zenon DEF SignInFails
  <2>2. OneAsk'
    BY <2>1, Zenon DEF OwnInv, OneAsk
  <2>3. ServedInv'
    BY <1>9, <1>a DEF SignInFails
  <2>4. QED
    BY <1>9, <2>1, <2>2, <2>3 DEF OwnInv, SignInFails, TokenInv, UrlInv
<1>10. ASSUME NEW t \in Tokens, ServeProfile(t) PROVE OwnInv'
  <2>1. ASSUME method = "password", ~disturbed PROVE ServedInv'
    <3>1. flight[t].as = t /\ ServedInv
      BY <1>10, <2>1 DEF OwnInv, ServedInv, ServeProfile
    <3>2. flight'[t].st = "read" /\ flight'[t].reply.user \in {NoOne, Owner[t]}
      BY <1>10, <3>1 DEF ServeProfile, TypeOK
    <3>3. profile' = profile /\ \A s \in Tokens : s # t => flight'[s] = flight[s]
      BY <1>10 DEF ServeProfile, TypeOK
    <3>4. QED
      BY <3>1, <3>2, <3>3 DEF ServedInv
  <2>2. QED
    BY <1>10, <2>1, OwnKept DEF ServeProfile
<1>11. ASSUME NEW t \in Tokens, GetProfile(t) \/ LoseProfile(t) PROVE OwnInv'
  <2>1. ASSUME method = "password", ~disturbed PROVE ServedInv'
    BY <1>11, <2>1 DEF OwnInv, ServedInv, GetProfile, LoseProfile, TypeOK, Idle
  <2>2. QED
    BY <1>11, <1>b, <2>1, OwnKept DEF GetProfile, LoseProfile
<1>12. CASE ServeSave
  BY <1>12, <1>a, OwnKept DEF ServeSave
<1>13. CASE UserSaved
  <2>1. ASSUME method = "password", ~disturbed PROVE ServedInv'
    BY <1>13, <1>a, <2>1, ServedSent DEF UserSaved, Refetch, OwnInv, TokenInv, TypeOK, MaybeToken
  <2>2. QED
    BY <1>13, <1>b, <2>1, OwnKept DEF UserSaved, Goto
<1>14. CASE UserNotSaved
  BY <1>14, <1>a, OwnKept DEF UserNotSaved
<1>15. ASSUME NEW t \in Tokens, Expire(t) PROVE OwnInv'
  BY <1>15, <1>a, OwnKept DEF Expire
<1>16. CASE Effects
  <2>1. CASE ~TakesToken
    <3>1. UNCHANGED <<token, flight, profile, cookie, method, disturbed>>
      BY <1>16, <2>1 DEF Effects
    <3> SUFFICES ASSUME method = "password", ~disturbed
                 PROVE  TokenInv' /\ UrlInv' /\ OneAsk' /\ ServedInv'
      BY <3>1 DEF OwnInv
    <3>2. TokenInv /\ UrlInv /\ OneAsk
      BY DEF OwnInv
    <3>3. asks' = Forget(asks) /\ (asks = {} => asks' = {})
      BY <1>16, ForgetNone DEF Effects
    <3>4. OneAsk'
      <4>1. \A a, b \in Forget(asks) : a = b
        BY <3>2, ForgetOne, Zenon DEF OneAsk
      <4>2. QED
        BY <3>3, <4>1, Zenon DEF OneAsk
    <3>5. url # NoToken => token # NoToken
      BY <2>1, <3>2 DEF UrlInv, TakesToken, Deps, TypeOK, Runs, Unrun
    <3>6. (url' = url /\ page' = page) \/ url' = NoToken
      BY <1>16 DEF Effects, Goto
    <3>7. QED
      BY <1>a, <3>1, <3>2, <3>3, <3>4, <3>5, <3>6 DEF TokenInv, UrlInv
  <2>2. CASE TakesToken
    <3>1. url \in Tokens /\ SetToken(url, cookie)
      BY <1>16, <2>2 DEF Effects, TakesToken, Deps, TypeOK, MaybeToken
    <3> SUFFICES ASSUME method = "password", ~disturbed
                 PROVE  TokenInv' /\ UrlInv' /\ OneAsk' /\ ServedInv'
      BY <1>16 DEF OwnInv, Effects
    <3>2. asks = {} /\ cookie \in {url, NoToken} /\ ServedInv
      BY <3>1, NoneAssumption DEF OwnInv, UrlInv
    <3>3. asks' = {} /\ cookie' = cookie /\ profile' = profile
      BY <1>16, <3>2, ForgetNone DEF Effects
    <3>4. token' = url /\ ServedInv'
      BY <3>1, <3>2, <3>3, ServedSent DEF SetToken
    <3>5. (url' = url /\ page' = page) \/ url' = NoToken
      BY <1>16 DEF Effects, Goto
    <3>6. page = "login"
      BY <2>2 DEF TakesToken, Deps
    <3>7. QED
      BY <3>1, <3>2, <3>3, <3>4, <3>5, <3>6, NoneAssumption DEF TokenInv, UrlInv, OneAsk
  <2>3. QED
    BY <2>1, <2>2
<1>17. CASE UNCHANGED vars
  BY <1>17, <1>a, OwnKept DEF vars
<1>18. CASE HeaderLogout \/ SideLogout \/ CheckToken
  BY <1>5, <1>18 DEF HeaderLogout, SideLogout, CheckToken
<1> QED
  BY <1>1, <1>2, <1>3, <1>4, <1>6, <1>7, <1>8, <1>9, <1>10, <1>11, <1>12, <1>13,
     <1>14, <1>15, <1>16, <1>17, <1>18
  DEF Next, UserActs, Answered, Fetching, Saving

\* Whoever signs in, whatever is reloaded, navigated, lost or rejected: the
\* account the pages show is the one the token was issued to.
THEOREM OwnerIsShown == Spec => []OwnerShown
<1>1. Init => TypeOK /\ OwnInv
  BY InitType, OwnInit
<1>2. TypeOK /\ OwnInv /\ [Next]_vars => (TypeOK /\ OwnInv)'
  BY NextType, OwnNext
<1>3. TypeOK /\ OwnInv => OwnerShown
  BY DEF OwnerShown, OwnInv, ServedInv, IsAuthenticated, User, TypeOK, MaybeToken
<1> QED
  BY <1>1, <1>2, <1>3, PTL DEF Spec

=============================================================================
