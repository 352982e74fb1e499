------------------------------ MODULE Sessions ------------------------------
(***************************************************************************)
(* Logging in and out, and how a request is authenticated.  The server     *)
(* keeps no session: a login signs a token that names the user and expires,*)
(* the browser keeps it in a cookie with a life of its own, and every      *)
(* request is authenticated from the token it carries.  The tabs of one    *)
(* browser share the cookie; their requests and the answers to them are on *)
(* the way at the same time.                                               *)
(***************************************************************************)
EXTENDS Integers

CONSTANTS
  Names, Tabs,
  Roles,        \* the roles of the accounts
  TokenLife,    \* jwt.expiration-ms, one hour unless configured
  CookieLife,   \* Max-Age of the login's cookie, one day
  MaxTime       \* bound of the clock

ASSUME LivesAssumption == {TokenLife, CookieLife, MaxTime} \subseteq Nat /\ TokenLife < CookieLife

Protected == {"dashboard", "set_cookie"}
Pages == Protected \cup {"home", "logout"}

NoUser == "none"
NoRole == "none"
NoAuth == [name |-> NoUser, role |-> NoRole]
NoToken == [sub |-> NoUser, role |-> NoRole, exp |-> 0]

VARIABLES
  now,        \* the clock
  accounts,   \* the role findByUsername finds for a name, if it finds a user
  left,       \* history: when an account of this name and role was last deleted
  jar,        \* the browser's cookie named "token"
  kept,       \* the token a program has kept of the last login
  out,        \* history: logged out, and no answer to a login received since
  tab         \* per tab: its request or the answer to it

vars == <<now, accounts, left, jar, kept, out, tab>>

\* The string the cookie service stores, which has no signature of the server.
Placeholder == [sub |-> "placeholder", role |-> NoRole, exp |-> 0]

Token == [sub : Names, role : Roles, exp : 0..(MaxTime + TokenLife)]
Values == Token \cup {NoToken, Placeholder}

Cookie(v, session, until) == [value |-> v, session |-> session, until |-> until]
NoCookie == Cookie(NoToken, FALSE, 0)

\* What an answer does to the cookie: nothing, or Set-Cookie with a value and
\* with or without a Max-Age.
Keep == [op |-> "keep"]
SetCookie(v, session) == [op |-> "set", value |-> v, session |-> session]
Clear == [op |-> "clear"]

Idle == [pc |-> "idle"]
Goto(t, r) == tab' = [tab EXCEPT ![t] = r]

-----------------------------------------------------------------------------
(* The browser.                                                            *)

\* The cookie a request carries: none once its life is over.
CookieSent == IF jar.session \/ now < jar.until THEN jar.value ELSE NoToken

\* A request with the cookie, which no handler of a login or logout looks at;
\* login is the token of the login it follows.
Request(page, user, header, login) ==
  [pc |-> "sent", page |-> page, user |-> user, header |-> header, login |-> login,
   cookie |-> IF page \in {"login", "logout"} THEN NoToken ELSE CookieSent]

\* A page is asked for, or the login form sent.  A program may put a token
\* it has kept in the Authorization header, which matters to protected pages.
Send(t, page, header) ==
  /\ tab[t] = Idle
  /\ header # NoToken => page = "dashboard"
  /\ Goto(t, Request(page, NoUser, header, NoToken))
  /\ UNCHANGED <<now, accounts, left, jar, kept, out>>

SendLogin(t, n) ==
  /\ tab[t] = Idle
  /\ Goto(t, Request("login", n, NoToken, NoToken))
  /\ UNCHANGED <<now, accounts, left, jar, kept, out>>

\* The answer to a login sends the browser on to the dashboard.
FollowRedirect(t) ==
  /\ tab[t].pc = "redirect"
  /\ Goto(t, Request("dashboard", NoUser, NoToken, tab[t].login))
  /\ UNCHANGED <<now, accounts, left, jar, kept, out>>

\* The answer arrives: the cookie is stored or removed, and a tab that is about
\* to follow its login's redirect no longer has the cookie of that login.
Receive(t) ==
  /\ tab[t].pc = "answered"
  /\ LET set == tab[t].set
         login == tab[t].page = "login" /\ set.op = "set"
     IN  /\ jar' = CASE set.op = "keep" -> jar
                     [] set.op = "clear" -> NoCookie
                     [] set.op = "set" ->
                          Cookie(set.value, set.session,
                                 IF set.session THEN 0 ELSE now + CookieLife)
         /\ tab' = [v \in Tabs |->
              IF v = t THEN IF login THEN [pc |-> "redirect", login |-> set.value] ELSE Idle
              ELSE IF tab[v].pc = "redirect" /\ set.op # "keep"
                   THEN [tab[v] EXCEPT !.login = NoToken]
              ELSE tab[v]]
         /\ kept' = IF login THEN set.value ELSE kept
         /\ out' = ((out \/ tab[t].page = "logout") /\ ~login)
  /\ UNCHANGED <<now, accounts, left>>

\* The browser is closed and opened again: a session cookie is gone.
RestartBrowser ==
  /\ jar' = IF jar.session THEN NoCookie ELSE jar
  /\ tab' = [t \in Tabs |-> Idle]
  /\ UNCHANGED <<now, accounts, left, kept, out>>

-----------------------------------------------------------------------------
(* The token and the filter.                                               *)

\* Mutant: the token lives as long as the cookie.
generateTokenForCookie(n, role) == [sub |-> n, role |-> role, exp |-> now + CookieLife]

generateToken(n, role) == [sub |-> n, role |-> role, exp |-> now + TokenLife]

\* Mutant: the token is read without looking at its expiry.
VerifiedForEver(tok) == tok \in Token

\* Mutant: a token is refused in the moment it expires.
VerifiedStrictly(tok) == tok \in Token /\ now < tok.exp

\* decodeToken accepts a token with the server's signature until it expires.
\* Only generateToken signs tokens.
Verified(tok) == tok \in Token /\ now <= tok.exp

\* The cookie comes before the Authorization header.
extractToken(r) == IF r.cookie # NoToken THEN r.cookie ELSE r.header

\* The filter passes public pages by; the configured pattern auth/login does not
\* match the path of a login.
shouldNotFilter(page) == page \in {"home", "logout"}

\* JwtAuthFilter: whether the user still exists is looked up and only logged.
Authentication(r) ==
  LET tok == extractToken(r)
  IN  IF ~shouldNotFilter(r.page) /\ Verified(tok)
      THEN [name |-> tok.sub, role |-> tok.role] ELSE NoAuth

-----------------------------------------------------------------------------
(* The handlers.                                                           *)

Reply(t, status, set, auth) ==
  /\ Goto(t, [pc |-> "answered", page |-> tab[t].page, status |-> status, set |-> set,
              login |-> tab[t].login, auth |-> auth,
              at |-> IF tab[t].page \in Protected THEN now ELSE 0])
  /\ UNCHANGED <<now, accounts, left, jar, kept, out>>

\* The entry point: a protected page was asked for without authentication.
Unauthorized(t) == Reply(t, "unauthorized", Keep, NoAuth)

Asked(t, page) == tab[t].pc = "sent" /\ tab[t].page = page

\* POST /auth/login, with the right password or a wrong one.
Login(t, right) ==
  /\ Asked(t, "login")
  /\ LET n == tab[t].user
         tok == generateToken(n, accounts[n])
     IN  IF accounts[n] # NoRole /\ right
         THEN Reply(t, "redirect", SetCookie(tok, FALSE), NoAuth)
         ELSE Reply(t, "failed", Keep, NoAuth)

\* Mutant: the cookie with the token is not among the deleted ones.
LogoutCookiesKept == Keep

\* deleteCookies.
LogoutCookies == Clear

\* /logout is answered by the security filter chain, whoever asks; the two
\* handlers of the controllers are behind it.
Logout(t) ==
  /\ Asked(t, "logout")
  /\ Reply(t, "redirect", LogoutCookies, NoAuth)

\* GET / is public: the filter does not look at the request, and the page
\* calls whoever has a cookie logged in.
Home(t) ==
  /\ Asked(t, "home")
  /\ Reply(t, IF tab[t].cookie # NoToken THEN "logged_in" ELSE "logged_out",
           Keep, Authentication(tab[t]))

\* GET /dashboard.
Dashboard(t) ==
  /\ Asked(t, "dashboard")
  /\ LET auth == Authentication(tab[t])
     IN  IF auth = NoAuth THEN Unauthorized(t)
         ELSE Reply(t, IF accounts[auth.name] = NoRole THEN "not_found" ELSE "ok", Keep, auth)

\* GET /api/set_cookie.
SetCookieHandler(t) ==
  /\ Asked(t, "set_cookie")
  /\ LET auth == Authentication(tab[t])
     IN  IF auth = NoAuth THEN Unauthorized(t)
         ELSE Reply(t, "ok", SetCookie(Placeholder, TRUE), auth)

-----------------------------------------------------------------------------
(* The users table and the clock.                                          *)

\* A registration over the id of an account is the deletion of its name and the
\* addition of another; an account without a role, which cannot log in, is none.
AddAccount(n, role) ==
  /\ accounts[n] = NoRole
  /\ accounts' = [accounts EXCEPT ![n] = role]
  /\ UNCHANGED <<now, left, jar, kept, out, tab>>

DeleteAccount(n) ==
  /\ accounts[n] # NoRole
  /\ accounts' = [accounts EXCEPT ![n] = NoRole]
  /\ left' = [left EXCEPT ![n, accounts[n]] = now]
  /\ UNCHANGED <<now, jar, kept, out, tab>>

Tick ==
  /\ now < MaxTime
  /\ now' = now + 1
  /\ UNCHANGED <<accounts, left, jar, kept, out, tab>>

\* A time so long ago that no token is left from it.
Never == -(TokenLife + 1)

Init ==
  /\ now = 0
  /\ accounts \in [Names -> Roles \cup {NoRole}]
  /\ left = [p \in Names \X Roles |-> Never]
  /\ jar = NoCookie
  /\ kept = NoToken
  /\ out = FALSE
  /\ tab = [t \in Tabs |-> Idle]

Next ==
  \/ \E t \in Tabs :
       \/ \E page \in Pages, header \in {kept, NoToken} : Send(t, page, header)
       \/ \E n \in Names : SendLogin(t, n)
       \/ FollowRedirect(t) \/ Receive(t)
       \/ \E right \in BOOLEAN : Login(t, right)
       \/ Logout(t) \/ Home(t) \/ Dashboard(t) \/ SetCookieHandler(t)
  \/ RestartBrowser
  \/ \E n \in Names, role \in Roles : AddAccount(n, role)
  \/ \E n \in Names : DeleteAccount(n)
  \/ Tick

Spec == Init /\ [][Next]_vars

-----------------------------------------------------------------------------
(* Properties.                                                             *)

Answered(t) == tab[t].pc = "answered"

\* The clock, the accounts, the cookie and the kept token have their types, and
\* no token outlives the clock by more than its life.
TypeOK ==
  /\ now \in 0..MaxTime
  /\ accounts \in [Names -> Roles \cup {NoRole}]
  /\ jar \in [value : Values, session : BOOLEAN, until : 0..(MaxTime + CookieLife)]
  /\ kept \in Token \cup {NoToken}
  /\ {jar.value.exp, kept.exp} \subseteq 0..(now + TokenLife)

\* A request is authenticated for a user and a role only while the account has
\* this role, or for the life of a token after it was deleted; a new account
\* with the name of a deleted one does not prolong that.
DeletionBounded ==
  \A t \in Tabs : Answered(t) /\ tab[t].auth # NoAuth =>
    \/ accounts[tab[t].auth.name] = tab[t].auth.role
    \/ tab[t].at <= left[tab[t].auth.name, tab[t].auth.role] + TokenLife

\* After the answer to a logout the browser has no token until the answer to a
\* login arrives, whatever answers to requests of other tabs arrive late.
LogoutSticks == out => jar.value \notin Token

\* The dashboard a login leads to is served to the user who logged in, unless
\* the token has expired by then or another tab has changed the cookie before
\* the browser asks for the dashboard.
LoginLeadsToDashboard ==
  \A t \in Tabs :
    Answered(t) /\ tab[t].page = "dashboard" /\ tab[t].login # NoToken
        /\ tab[t].at <= tab[t].login.exp =>
      tab[t].auth = [name |-> tab[t].login.sub, role |-> tab[t].login.role]
=============================================================================
