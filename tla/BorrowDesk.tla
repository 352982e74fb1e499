----------------------------- MODULE BorrowDesk -----------------------------
(***************************************************************************)
(* The borrow page of an administrator, open in several tabs of one        *)
(* browser.  The tabs share one HTTP session, which keeps the user the     *)
(* administrator verified; each tab posts the user its page was rendered   *)
(* with in a hidden field.  With scripts on, borrow.js asks the server     *)
(* about the user typed in, says for whom books will be borrowed and       *)
(* enables the borrow button.                                              *)
(***************************************************************************)
EXTENDS Naturals, FiniteSets

CONSTANTS
  Users,      \* the user ids an administrator may type
  Admin,      \* the administrator's own id
  Tabs

ASSUME AdminAssumption == Admin \in Users

NoUser == "none"

VARIABLES
  scripted,       \* the browser runs borrow.js
  users,          \* the users table
  verifiedUserId, \* session attribute
  isVerified,     \* session attribute, null counting as FALSE
  verified,       \* history: the ids the server has verified for the session
  posted,         \* history: the ids that were posted in the hidden field
  overtaken,      \* history: tabs whose borrow was overtaken by another tab's write
  tab,            \* per tab: the page and its script
  req             \* per tab: the request being served, and what the last POST did

session == <<verifiedUserId, isVerified>>
history == <<verified, posted, overtaken>>
vars == <<scripted, users, session, history, tab, req>>

\* user_id is the hidden field of the borrow form, input the text field,
\* asked the id of the AJAX call under way, promised the id that borrow.js has
\* said books will be borrowed for.
Page(u) == [user_id |-> u, input |-> u, asked |-> NoUser, promised |-> NoUser]

NoRequest == [pc |-> "idle"]
Open(t) == req[t].pc \in {"idle", "borrowed"}
Goto(t, r) == req' = [req EXCEPT ![t] = r]

\* Tab t writes the session attribute: the other tabs between their write and
\* their read of it are overtaken.
Overtake(t) == overtaken' = (overtaken \ {t}) \cup {v \in Tabs \ {t} : req[v].pc = "read"}

Show(t, page) == tab' = [tab EXCEPT ![t] = page]

\* Every page looks the administrator's own id up first, and fails without it.
LoggedIn == Admin \in users

-----------------------------------------------------------------------------
(* The page and its script.                                                *)

\* Typing an id takes back what the script has said about another one.
TypeUser(t, u) ==
  /\ Open(t)
  /\ tab[t].input # u
  /\ Show(t, [tab[t] EXCEPT !.input = u, !.promised = NoUser])
  /\ UNCHANGED <<scripted, users, session, history, req>>

\* The verify button with scripts: the AJAX call, and the button is disabled
\* until the answer, which keeps the browser from submitting the form.
ClickVerify(t) ==
  /\ scripted
  /\ Open(t)
  /\ tab[t].input # NoUser
  /\ tab[t].asked = NoUser
  /\ Show(t, [tab[t] EXCEPT !.asked = tab[t].input])
  /\ UNCHANGED <<scripted, users, session, history, req>>

\* verifyUserId answers the script, which fills in the text field; the hidden
\* field and the session stay as they are.
AjaxAnswer(t) ==
  /\ tab[t].asked # NoUser
  /\ LET u == IF tab[t].asked \in users THEN tab[t].asked ELSE NoUser
     IN  Show(t, [tab[t] EXCEPT !.asked = NoUser, !.input = u, !.promised = u])
  /\ UNCHANGED <<scripted, users, session, history, req>>

\* The call fails, and the text field stays as it is.
AjaxError(t) ==
  /\ tab[t].asked # NoUser
  /\ Show(t, [tab[t] EXCEPT !.asked = NoUser, !.promised = NoUser])
  /\ UNCHANGED <<scripted, users, session, history, req>>

-----------------------------------------------------------------------------
(* GET /borrow.  The session's attributes are read and written one by one. *)

\* The verify button without scripts: the search form with verify=1.
VerifyUser(t) ==
  /\ ~scripted
  /\ Open(t) /\ LoggedIn
  /\ tab[t].input # NoUser
  /\ LET exists == tab[t].input \in users
     IN  /\ verifiedUserId' = IF exists THEN tab[t].input ELSE NoUser
         /\ verified' = IF exists THEN verified \cup {tab[t].input} ELSE verified
         /\ Overtake(t)
         /\ Goto(t, [pc |-> "flag", exists |-> exists])
  /\ UNCHANGED <<scripted, users, isVerified, posted, tab>>

\* An id that does not exist is rendered into the page all the same.
FlagUser(t) ==
  /\ req[t].pc = "flag"
  /\ isVerified' = req[t].exists
  /\ Show(t, Page(tab[t].input))
  /\ Goto(t, NoRequest)
  /\ UNCHANGED <<scripted, users, verifiedUserId, history>>

\* A search, or the page being opened (with an empty text field).
GetPage(t, input) ==
  /\ Open(t) /\ LoggedIn
  /\ input \in {tab[t].input, NoUser}
  /\ Goto(t, [pc |-> "render", input |-> input, sessionUserId |-> verifiedUserId])
  /\ UNCHANGED <<scripted, users, session, history, tab>>

\* The page shows the user of the session if it is a verified one, and
\* otherwise the one typed.
RenderPage(t) ==
  /\ req[t].pc = "render"
  /\ Show(t, Page(IF req[t].sessionUserId # NoUser /\ isVerified
                  THEN req[t].sessionUserId ELSE req[t].input))
  /\ Goto(t, NoRequest)
  /\ UNCHANGED <<scripted, users, session, history>>

-----------------------------------------------------------------------------
(* POST /borrow.                                                           *)

\* Mutant: a user the session already has is kept.
StoredOnce(user_id) == IF verifiedUserId = NoUser THEN user_id ELSE verifiedUserId

\* A posted user_id goes into the session.
Stored(user_id) == IF user_id # NoUser THEN user_id ELSE verifiedUserId

\* The borrow button, which the script enables once it has verified a user.
\* The record keeps the id posted and the id the script had named.
StoreBorrower(t) ==
  /\ Open(t) /\ LoggedIn
  /\ scripted => tab[t].promised # NoUser
  /\ verifiedUserId' = Stored(tab[t].user_id)
  /\ Overtake(t)
  /\ posted' = posted \cup ({tab[t].user_id} \ {NoUser})
  /\ Goto(t, [pc |-> "read", user_id |-> tab[t].user_id, promised |-> tab[t].promised])
  /\ UNCHANGED <<scripted, users, isVerified, verified, tab>>

\* Mutant: without a user in the session the books go to the administrator.
BorrowerOrAdmin == IF verifiedUserId \in users THEN {verifiedUserId} ELSE {Admin}

\* The user of the session, if it exists.
Borrower == {verifiedUserId} \cap users

\* The answer renders the page again.
BorrowForUser(t) ==
  /\ req[t].pc = "read"
  /\ \/ \E u \in Borrower :
          /\ Goto(t, [pc |-> "borrowed", for |-> u, user_id |-> req[t].user_id,
                      promised |-> req[t].promised])
          /\ Show(t, Page(u))
     \/ /\ Borrower = {}
        /\ Goto(t, NoRequest)
        /\ Show(t, Page(NoUser))
  /\ UNCHANGED <<scripted, users, session, history>>

-----------------------------------------------------------------------------
\* POST /delete_user.
DeleteUser(u) ==
  /\ u \in users
  /\ users' = users \ {u}
  /\ UNCHANGED <<scripted, session, history, tab, req>>

Init ==
  /\ scripted \in BOOLEAN
  /\ users \in SUBSET Users
  /\ Admin \in users
  /\ verifiedUserId = NoUser
  /\ isVerified = FALSE
  /\ verified = {}
  /\ posted = {}
  /\ overtaken = {}
  /\ tab = [t \in Tabs |-> Page(NoUser)]
  /\ req = [t \in Tabs |-> NoRequest]

Next ==
  \/ \E t \in Tabs :
       \/ \E u \in Users : TypeUser(t, u)
       \/ ClickVerify(t) \/ AjaxAnswer(t) \/ AjaxError(t)
       \/ VerifyUser(t) \/ FlagUser(t)
       \/ \E input \in Users \cup {NoUser} : GetPage(t, input)
       \/ RenderPage(t) \/ StoreBorrower(t) \/ BorrowForUser(t)
  \/ \E u \in Users : DeleteUser(u)

Spec == Init /\ [][Next]_vars

-----------------------------------------------------------------------------
(* Properties.                                                             *)

Borrowed(t) == req[t].pc = "borrowed"

\* However the requests of the tabs interleave, nobody gets a book whom no
\* tab of this session has verified or posted: a deleted user is not replaced
\* by the administrator, and a page that posts nobody borrows only for a user
\* another tab brought into the session.
BorrowerFromSomeTab == \A t \in Tabs : Borrowed(t) => req[t].for \in verified \cup posted

\* A borrow goes to the user posted in the hidden user_id field, whatever other
\* tabs have verified or posted since the page was rendered; the only exception
\* is a request of another tab between borrowBooks' write and its read of the
\* session attribute.  Whether the hidden field holds the user that the page
\* names is the question of BorrowedForPromised.
OnlyOvertakenBorrowElsewhere ==
  \A t \in Tabs \ overtaken :
    Borrowed(t) /\ req[t].user_id # NoUser => req[t].for = req[t].user_id

\* What borrow.js tells the administrator, "Books will be borrowed for User
\* ID: ", and says of the form, "The form will automatically include the
\* user_id field with the verified ID": no other tab interfering, the books go
\* to the user the script has named.
BorrowedForPromised ==
  \A t \in Tabs \ overtaken :
    Borrowed(t) /\ req[t].promised # NoUser => req[t].for = req[t].promised
=============================================================================
