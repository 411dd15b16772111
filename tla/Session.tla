------------------------------ MODULE Session ------------------------------
(***************************************************************************)
(* Who is signed in to the dashboard, and which page that takes them to:   *)
(* AuthProvider (context/AuthContext.tsx), LoginPage, ProtectedRoute, the  *)
(* pages /password-reset and /profile, and the part of the server that     *)
(* answers /auth/login and /auth/profile.                                  *)
(*                                                                         *)
(* The token of AuthProvider and the one in sessionStorage are written     *)
(* together and are one variable.  The profile is a query of TanStack      *)
(* Query under the key ['profile', token]: a cached entry per token and at *)
(* most one request in flight for it.  A React effect runs when its page   *)
(* is mounted and when a value it depends on has changed: "ran" holds the  *)
(* values of the last run.  "home" stands for every page inside            *)
(* ProtectedRoute.                                                         *)
(***************************************************************************)
EXTENDS Naturals

CONSTANTS Users,      \* accounts of the server
          Admins,     \* those of role admin
          Tokens,     \* tokens the server can issue
          Owner,      \* the user each token is issued to
          NoOne,      \* no user
          NoToken,    \* no token
          Methods,    \* how users sign in: "password", "openid" or both
          MaxActs     \* bound: what the user and the network's return do

ASSUME OwnerAssumption == Owner \in [Tokens -> Users]
ASSUME AdminAssumption == Admins \subseteq Users
ASSUME NoneAssumption == NoOne \notin Users /\ NoToken \notin Tokens
ASSUME MethodAssumption == Methods \subseteq {"password", "openid"}
ASSUME ActsAssumption == MaxActs \in Nat

VARIABLES
  method,      \* how this deployment signs its users in
  token,       \* AuthProvider's token, and sessionStorage's
  cookie,      \* the token in the auth-session cookie, which the server prefers
  issued,      \* tokens the server has issued
  expired,     \* tokens past their six hours
  mustReset,   \* the users the server wants a new password from
  profile,     \* the cached profile of each token
  flight,      \* the profile request in flight for each token
  page,        \* the page the router is on
  url,         \* the token in the query string of /login
  next,        \* the page in the "next" of the query string of /login
  ran,         \* what the page's effects depended on when they last ran
  asks,        \* sign-ins sent and not answered
  saving,      \* the update of a user that is sent and not answered
  disturbed,   \* a sign-in was sent over another one or over a token held
  acts         \* what the user has done so far

vars == <<method, token, cookie, issued, expired, mustReset, profile, flight,
          page, url, next, ran, asks, saving, disturbed, acts>>

Pages == {"login", "home", "reset", "profile"}
Nexts == {"none", "home", "login"}
MaybeToken == Tokens \union {NoToken}
MaybeUser == Users \union {NoOne}

Unknown == [user |-> NoOne, reset |-> FALSE]
Entries == [user : MaybeUser, reset : BOOLEAN]
Replies == [user : MaybeUser, reset : BOOLEAN, rejected : BOOLEAN]
Idle == [st |-> "idle"]
Flights == {Idle} \union [st : {"sent"}, as : Tokens] \union [st : {"read"}, reply : Replies]
Unrun == [st |-> "unrun"]
Runs == {Unrun} \union [st : {"ran"}, auth : BOOLEAN, reset : BOOLEAN, url : MaybeToken]
Asks == [user : Users, next : Nexts, mine : BOOLEAN]
Unsaved == [st |-> "no"]
Savings == {Unsaved} \union
           [st : {"sent", "done", "refused"}, as : Tokens, user : Users, from : {"reset", "profile"}]

User == IF token = NoToken THEN NoOne ELSE profile[token].user
IsAuthenticated == User # NoOne
RequiresPasswordReset == IsAuthenticated /\ profile[token].reset

\* A token without data whose profile is being fetched: AuthProvider renders
\* its Loader in place of the page, which is unmounted.
Loading == /\ token # NoToken
           /\ profile[token].user = NoOne
           /\ flight[token] # Idle

\* What the root puts round the page: the navigation is there for who is signed
\* in.  Another layout is another tree, in which the page is mounted anew.
Layout == CASE page \in {"login", "reset"} -> "bare"
            [] page \in {"home", "profile"} /\ IsAuthenticated -> "navigation"
            [] OTHER -> "minimal"

Init == /\ method \in Methods
        /\ token = NoToken
        /\ cookie = NoToken
        /\ issued = {}
        /\ expired = {}
        /\ mustReset \in SUBSET Users
        /\ profile = [t \in Tokens |-> Unknown]
        /\ flight = [t \in Tokens |-> Idle]
        /\ page \in Pages
        /\ url = NoToken
        /\ next = "none"
        /\ ran = Unrun
        /\ asks = {}
        /\ saving = Unsaved
        /\ disturbed = FALSE
        /\ acts = 0

-----------------------------------------------------------------------------
(* What the actions are made of. *)

\* The token a request is judged by: GetUser looks at the cookie first.
As(t, ck) == IF ck # NoToken THEN ck ELSE t
Sent(t, ck) == [st |-> "sent", as |-> As(t, ck)]

\* Deps: what the effects of the page depend on.
Deps == [st |-> "ran",
         auth |-> IF page \in {"login", "home", "reset"} THEN IsAuthenticated ELSE FALSE,
         reset |-> IF page \in {"login", "home", "reset"} THEN RequiresPasswordReset ELSE FALSE,
         url |-> IF page = "login" THEN url ELSE NoToken]

\* A page that was replaced or unmounted by the Loader comes back with no
\* effect run and no sign-in of its own pending.
Mounted == page' = page /\ Layout' = Layout /\ ~Loading'
Forget(as) == IF Mounted THEN as ELSE {[a EXCEPT !.mine = FALSE] : a \in as}
Render(as) == ran' = (IF Mounted THEN ran ELSE Unrun) /\ asks' = Forget(as)

\* navigate: the query string goes with the page it was on.
Goto(p) == page' = p /\ url' = NoToken /\ next' = "none"

\* setToken: the query's key changes; an entry without data is fetched, one
\* with data is fetched if it is older than five minutes.
SetToken(t, ck) ==
  /\ token' = t
  /\ \E old \in BOOLEAN :
       flight' = IF t # token /\ flight[t] = Idle /\ (profile[t].user = NoOne \/ old)
                 THEN [flight EXCEPT ![t] = Sent(t, ck)] ELSE flight

\* invalidateQueries(['profile', token]): what is in flight is discarded and
\* the profile asked for again.
Refetch(t, ck) == flight' = [flight EXCEPT ![t] = Sent(t, ck)]

\* A load of the whole page: only sessionStorage, here the token, survives.
Load(p, u, n, ck) ==
  /\ page' = p
  /\ url' = IF p = "login" THEN u ELSE NoToken
  /\ next' = IF p = "login" THEN n ELSE "none"
  /\ profile' = [t \in Tokens |-> Unknown]
  /\ flight' = [t \in Tokens |-> IF t = token THEN Sent(t, ck) ELSE Idle]
  /\ ran' = Unrun
  /\ asks' = {}
  /\ saving' = Unsaved

\* removeQueries(['profile']): every key that begins so, with its request.
RemoveOwnProfile == /\ profile' = [profile EXCEPT ![token] = Unknown]
                    /\ flight' = [flight EXCEPT ![token] = Idle]
RemoveProfiles == /\ profile' = [t \in Tokens |-> Unknown]
                  /\ flight' = [t \in Tokens |-> Idle]

LogOut(p) ==
  /\ token' = NoToken
  /\ RemoveProfiles
  /\ Goto(p)
  /\ UNCHANGED <<method, cookie, issued, expired, mustReset, saving, disturbed>>
  /\ Render(asks)

Act == acts < MaxActs /\ acts' = acts + 1

-----------------------------------------------------------------------------
(* The user. *)

\* React runs the effects of what it rendered before it takes the next click.
Ready == ~Loading /\ ran = Deps

\* The form of /login: its button is disabled while a sign-in of it is pending.
LoginForm == page = "login" /\ Ready /\ \A a \in asks : ~a.mine

\* The form of /password-reset, for whom it is required, and the one of
\* /profile; which accounts have a password of their own is left open.
ResetForm == page = "reset" /\ Ready /\ RequiresPasswordReset
ProfileForm == page = "profile" /\ Ready /\ IsAuthenticated

SignIn(u) ==
  /\ Act
  /\ LoginForm
  /\ asks' = asks \union {[user |-> u, next |-> next, mine |-> TRUE]}
  /\ disturbed' = (disturbed \/ asks # {} \/ token # NoToken)
  /\ UNCHANGED <<method, token, cookie, issued, expired, mustReset, profile,
                 flight, page, url, next, ran, saving>>

\* A link, the back button: navigation inside the application.
Visit(p) ==
  /\ Act
  /\ p # page
  /\ Goto(p)
  /\ UNCHANGED <<method, token, cookie, issued, expired, mustReset, profile,
                 flight, saving, disturbed>>
  /\ Render(asks)

\* A reload or an address typed in; the address may hold a "next", and a token
\* of an earlier sign-in where tokens are handed over in the address.
Open(p, u, n) ==
  /\ Act
  /\ u # NoToken => method = "openid" /\ u \in issued /\ p = "login"
  /\ n # "none" => p = "login"
  /\ Load(p, u, n, cookie)
  /\ UNCHANGED <<method, token, cookie, issued, expired, mustReset, disturbed>>

\* The identity provider sends the browser back with a token in the address,
\* to the "next" of /login or to /login, which alone reads it; the callback
\* leaves the token in the auth-session cookie as it is.
OpenIdReturns(t) ==
  /\ Act
  /\ method = "openid" /\ page = "login" /\ t \notin issued
  /\ issued' = issued \union {t}
  /\ Load(IF next = "none" THEN "login" ELSE next, t, "none", cookie)
  /\ UNCHANGED <<method, token, cookie, expired, mustReset, disturbed>>

\* The header's button goes to / after the logout, the side bar's stays at /login.
HeaderLogout == Act /\ Ready /\ Layout = "navigation" /\ LogOut("home")
SideLogout == Act /\ Ready /\ Layout = "navigation" /\ LogOut("login")

\* One update at a time is followed.
SaveUser ==
  /\ Act
  /\ saving = Unsaved
  /\ ResetForm \/ ProfileForm
  /\ saving' = [st |-> "sent", as |-> As(token, cookie), user |-> User, from |-> page]
  /\ UNCHANGED <<method, token, cookie, issued, expired, mustReset, profile,
                 flight, page, url, next, ran, asks, disturbed>>

-----------------------------------------------------------------------------
(* The server and the network. *)

\* A token is good until it expires, if the server issued it.
Good(t) == t \in issued \ expired

\* What the server puts into the auth-session cookie of a password sign-in.
FirstCookie(t) == IF cookie = NoToken THEN t ELSE cookie
Cookie(t) == t

\* The server answers a sign-in: the cookie holds the new token whatever the
\* page then does with it.
SignInOk(a, t) ==
  /\ a \in asks
  /\ Owner[t] = a.user /\ t \notin issued
  /\ issued' = issued \union {t}
  /\ cookie' = Cookie(t)
  /\ IF a.next # "none"
     THEN Load(a.next, t, "none", cookie') /\ UNCHANGED token
     ELSE /\ IF a.user \in Admins THEN SetToken(t, cookie') ELSE UNCHANGED <<token, flight>>
          /\ UNCHANGED <<profile, page, url, next, saving>>
          /\ Render(asks \ {a})
  /\ UNCHANGED <<method, expired, mustReset, disturbed, acts>>

SignInFails(a) ==
  /\ a \in asks
  /\ asks' = asks \ {a}
  /\ UNCHANGED <<method, token, cookie, issued, expired, mustReset, profile,
                 flight, page, url, next, ran, saving, disturbed, acts>>

\* HandleGetProfile reads the user of the token the request is judged by.
ServeProfile(t) ==
  /\ flight[t].st = "sent"
  /\ LET as == flight[t].as
         ok == Good(as)
     IN flight' = [flight EXCEPT ![t] =
          [st |-> "read",
           reply |-> [user |-> IF ok THEN Owner[as] ELSE NoOne,
                      reset |-> ok /\ Owner[as] \in mustReset,
                      rejected |-> ~ok]]]
  /\ UNCHANGED <<method, token, cookie, issued, expired, mustReset, profile,
                 page, url, next, ran, asks, saving, disturbed, acts>>

\* The answer arrives: a rejection takes the cookie away and leaves the data.
GetProfile(t) ==
  /\ flight[t].st = "read"
  /\ flight' = [flight EXCEPT ![t] = Idle]
  /\ LET r == flight[t].reply
     IN /\ profile' = IF r.user = NoOne THEN profile
                      ELSE [profile EXCEPT ![t] = [user |-> r.user, reset |-> r.reset]]
        /\ cookie' = IF r.rejected THEN NoToken ELSE cookie
  /\ UNCHANGED <<method, token, issued, expired, mustReset, page, url, next,
                 saving, disturbed, acts>>
  /\ Render(asks)

\* The request or its answer is lost: retry is off.
LoseProfile(t) ==
  /\ flight[t] # Idle
  /\ flight' = [flight EXCEPT ![t] = Idle]
  /\ UNCHANGED <<method, token, cookie, issued, expired, mustReset, profile,
                 page, url, next, saving, disturbed, acts>>
  /\ Render(asks)

\* The network comes back: the query in use is fetched again.
Reconnect ==
  /\ Act
  /\ token # NoToken /\ flight[token] = Idle
  /\ Refetch(token, cookie)
  /\ UNCHANGED <<method, token, cookie, issued, expired, mustReset, profile,
                 page, url, next, saving, disturbed>>
  /\ Render(asks)

\* POST /api/user/{id} is for administrators, and ends the need of a reset.
ServeSave ==
  /\ saving.st = "sent"
  /\ LET ok == Good(saving.as) /\ Owner[saving.as] \in Admins
     IN /\ saving' = [saving EXCEPT !.st = IF ok THEN "done" ELSE "refused"]
        /\ mustReset' = IF ok THEN mustReset \ {saving.user} ELSE mustReset
  /\ UNCHANGED <<method, token, cookie, issued, expired, profile, flight, page,
                 url, next, ran, asks, disturbed, acts>>

\* onSuccess: fetch the profile again, and leave /password-reset for /, where
\* the profile of before is still the one in the cache.
UserSaved ==
  /\ saving.st = "done"
  /\ IF token = NoToken THEN UNCHANGED flight ELSE Refetch(token, cookie)
  /\ IF saving.from = "reset" THEN Goto("home") ELSE UNCHANGED <<page, url, next>>
  /\ saving' = Unsaved
  /\ UNCHANGED <<method, token, cookie, issued, expired, mustReset, profile,
                 disturbed, acts>>
  /\ Render(asks)

UserNotSaved ==
  /\ saving.st = "refused"
  /\ saving' = Unsaved
  /\ UNCHANGED <<method, token, cookie, issued, expired, mustReset, profile,
                 flight, page, url, next, ran, asks, disturbed, acts>>

Expire(t) ==
  /\ t \in issued \ expired
  /\ expired' = expired \union {t}
  /\ UNCHANGED <<method, token, cookie, issued, mustReset, profile, flight, page,
                 url, next, ran, asks, saving, disturbed, acts>>

-----------------------------------------------------------------------------
(* What the application does by itself. *)

\* checkToken, on every change of the token and every ten seconds.
CheckToken == token \in expired /\ LogOut("login") /\ UNCHANGED acts

\* Where the effects of a page, or its rendering, navigate.
Home == IF RequiresPasswordReset THEN "reset" ELSE "home"
ProtectedUnchecked == Home
ProtectedTarget == IF ~IsAuthenticated THEN "login" ELSE Home
LoginTarget == IF IsAuthenticated THEN Home ELSE "login"
ResetTarget == IF IsAuthenticated /\ ~RequiresPasswordReset THEN "home" ELSE "reset"
Target == CASE page = "home" -> ProtectedTarget
            [] page = "login" -> LoginTarget
            [] page = "reset" -> ResetTarget
            [] OTHER -> page


\* The effects a page runs once it is mounted and when what they depend on has
\* changed: the one that navigates, then the one that takes over the token of
\* the address.
Navigates == ran.st = "unrun" \/ ran.auth # Deps.auth \/ ran.reset # Deps.reset
TakesToken == Deps.url # NoToken /\ (ran.st = "unrun" \/ ran.url # Deps.url)

Effects ==
  /\ ~Loading /\ ran # Deps
  /\ IF Navigates /\ Target # page THEN Goto(Target) ELSE UNCHANGED <<page, url, next>>
  /\ IF TakesToken THEN SetToken(url, cookie) ELSE UNCHANGED <<token, flight>>
  /\ UNCHANGED <<method, cookie, issued, expired, mustReset, profile, saving,
                 disturbed, acts>>
  /\ ran' = (IF Mounted THEN Deps ELSE Unrun)
  /\ asks' = Forget(asks)

-----------------------------------------------------------------------------
UserActs == \/ \E u \in Users : SignIn(u)
            \/ \E p \in Pages : Visit(p)
            \/ \E p \in Pages, u \in MaybeToken, n \in Nexts : Open(p, u, n)
            \/ \E t \in Tokens : OpenIdReturns(t)
            \/ HeaderLogout \/ SideLogout \/ SaveUser \/ Reconnect

Answered(a) == SignInFails(a) \/ \E t \in Tokens : SignInOk(a, t)
Fetching(t) == ServeProfile(t) \/ GetProfile(t) \/ LoseProfile(t)
Saving == ServeSave \/ UserSaved \/ UserNotSaved

Next == \/ UserActs
        \/ \E a \in asks : Answered(a)
        \/ \E t \in Tokens : Fetching(t) \/ Expire(t)
        \/ Saving
        \/ CheckToken
        \/ Effects

\* React runs effects, the interval of checkToken goes on, and a request is
\* answered or lost.  Nobody is owed a click, and no token expires on demand.
Fairness == /\ WF_vars(Effects) /\ WF_vars(CheckToken) /\ WF_vars(Saving)
            /\ \A t \in Tokens : WF_vars(Fetching(t))

Spec == Init /\ [][Next]_vars /\ Fairness

-----------------------------------------------------------------------------
\* Every variable holds a value of its kind, a profile in flight included.
TypeOK ==
  /\ method \in Methods
  /\ token \in MaybeToken /\ cookie \in MaybeToken
  /\ issued \subseteq Tokens /\ expired \subseteq issued
  /\ mustReset \subseteq Users
  /\ profile \in [Tokens -> Entries]
  /\ flight \in [Tokens -> Flights]
  /\ page \in Pages /\ url \in MaybeToken /\ next \in Nexts
  /\ ran \in Runs
  /\ asks \subseteq Asks
  /\ saving \in Savings
  /\ disturbed \in BOOLEAN
  /\ acts \in 0..MaxActs

\* The server looks at the cookie before the header, so a browser with two
\* tokens could show the wrong account.  Where users sign in with a password,
\* one at a time and after a logout, who is shown is whom the token is of.
OwnerShown ==
  method = "password" /\ ~disturbed /\ IsAuthenticated => User = Owner[token]

\* After a logout nothing of the session is left, whatever was in flight: no
\* profile of any token is cached and no request can bring one back.
LogoutForgets ==
  token = NoToken => \A t \in Tokens : profile[t] = Unknown /\ flight[t] = Idle

\* Each page is shown to whom it is for.
AtRest == /\ ~Loading
          /\ page = "login" => ~IsAuthenticated
          /\ page = "home" => IsAuthenticated /\ ~RequiresPasswordReset
          /\ page = "reset" /\ IsAuthenticated => RequiresPasswordReset

\* Once the user stops, the redirects of LoginPage, ProtectedRoute and
\* PasswordResetPage, each on data that may be stale, do not chase each other
\* and do not stop short: the browser comes to rest on a page that fits.
RedirectsSettle == <>[]AtRest
=============================================================================
