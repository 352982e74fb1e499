------------------------------ MODULE Accounts ------------------------------
(***************************************************************************)
(* The users table: registration, the administrator's add and delete pages *)
(* and the profile page, served by several request threads.                *)
(*                                                                         *)
(* No service of this part is transactional and open-in-view is off, so    *)
(* every repository call is a database transaction of its own and every    *)
(* entity is detached between two calls: what a request read may be stale  *)
(* when it writes.  Neither username nor email is unique in the schema.    *)
(* The pages that store a user bind all the fields of the entity, so that  *)
(* a form may carry the id of an account, and then replaces its row.       *)
(***************************************************************************)
EXTENDS Naturals, FiniteSets

CONSTANTS
  Names, Emails, Passwords,
  Details,    \* the other profile fields, all filled in
  FormRoles,  \* the roles a form is submitted with
  Ids,        \* bound: the identity values the table can hand out
  MaxPosts,   \* bound: the forms that get past their first check
  Workers,    \* the request threads
  Ops         \* the pages in use

\* The roles of the Role enumeration.
Roles == {"USER", "ADMIN"}
ASSUME RolesAssumption == FormRoles \subseteq Roles

Blank == "blank"      \* a form with a required field left empty
NoRole == "null"      \* a form without a role
NoId == "no id"       \* a form without an id, as the pages render it
Nobody == "nobody"    \* a request without an authentication

VARIABLES
  rows,       \* the users table: a function from the ids it holds
  born,       \* the identity values handed out so far
  posts,      \* how many forms were posted
  req,        \* per worker: the request being served
  forms,      \* history: per id, the profiles that were submitted for it
  names,      \* history: per id, the identities that were submitted for it
  late,       \* history: requests whose username was stored since they looked
  shared      \* history: names that were stored twice, by such a request or the
              \* add page

submitted == <<forms, names>>
clashes == <<late, shared>>
vars == <<rows, born, posts, req, submitted, clashes>>

Row == [username : Names, email : Emails, details : Details,
        password : {"bcrypt"} \X Passwords, role : Roles \cup {NoRole}]

\* Both pages bind all fields of User, the id among them.
Form == [id : Ids \cup {NoId}, username : Names, email : Emails, details : Details \cup {Blank},
         password : Passwords, role : FormRoles \cup {NoRole}]

\* Bounds: a form without an id is taken only while an identity value is left
\* for it.
Waiting == {w \in Workers : req[w].pc \in {"email", "insert"} /\ req[w].form.id = NoId}
Posted(id) ==
  /\ id = NoId => Cardinality(born) + Cardinality(Waiting) < Cardinality(Ids)
  /\ posts < MaxPosts
  /\ posts' = posts + 1

NoRequest == [pc |-> "idle"]
Serving(w, pc) == req[w].pc = pc
Goto(w, r) == req' = [req EXCEPT ![w] = r]
Answer(w) == Goto(w, NoRequest)

-----------------------------------------------------------------------------
(* The repository and the password encoder.                                *)

IdsNamed(n) == {i \in DOMAIN rows : rows[i].username = n}
existsByUsername(n) == IdsNamed(n) # {}
existsByEmail(e) == \E i \in DOMAIN rows : rows[i].email = e

\* findByUsername returns one user; it fails when two rows match.
FoundByUsername(n) == {i \in DOMAIN rows : IdsNamed(n) = {i}}

encode(p) == <<"bcrypt", p>>
matches(raw, encoded) == encoded = encode(raw)

Profile(r) == <<r.email, r.details>>
Identity(r) == <<r.username, r.password, r.role>>

\* The row a form becomes.
Encoded(f) == [username |-> f.username, email |-> f.email, details |-> f.details,
               password |-> encode(f.password), role |-> f.role]

\* The username that the request of v has looked up, or read, and will store.
Awaits(v, n) ==
  \/ req[v].pc \in {"email", "insert"} /\ req[v].form.username = n
  \/ req[v].pc = "save" /\ req[v].row.username = n

\* The request of w stores the row r under the id i; blind: it has not looked
\* for the username, or looked too early.
Store(w, i, r, blind) ==
  /\ rows' = [k \in DOMAIN rows \cup {i} |-> IF k = i THEN r ELSE rows[k]]
  /\ late' = (late \ {w}) \cup {v \in Workers \ {w} : Awaits(v, r.username)}
  /\ shared' = IF blind /\ IdsNamed(r.username) \ {i} # {} THEN shared \cup {r.username}
               ELSE shared

\* What was submitted for the id i now includes the row r.
Submit(i, r) ==
  /\ forms' = [forms EXCEPT ![i] = @ \cup {Profile(r)}]
  /\ names' = [names EXCEPT ![i] = @ \cup {Identity(r)}]

\* Mutant: an id that no row has is inserted.
SaveUserUnderAnyId(w, id, r, blind) ==
  /\ \/ /\ id = NoId
        /\ \E i \in Ids \ born : /\ Store(w, i, r, blind) /\ Submit(i, r)
                                /\ born' = born \cup {i}
     \/ id # NoId /\ Store(w, id, r, blind) /\ Submit(id, r) /\ UNCHANGED born
  /\ Answer(w)

\* save: without an id an INSERT, which takes the next identity value; with one a
\* merge, which writes all columns of the row that has it, and fails if none has.
SaveUser(w, id, r, blind) ==
  /\ \/ /\ id = NoId
        /\ \E i \in Ids \ born : /\ Store(w, i, r, blind) /\ Submit(i, r)
                                /\ born' = born \cup {i}
     \/ /\ id \in DOMAIN rows
        /\ Store(w, id, r, blind) /\ Submit(id, r)
        /\ UNCHANGED born
     \/ /\ id \in Ids \ DOMAIN rows
        /\ late' = late \ {w}
        /\ UNCHANGED <<rows, born, submitted, shared>>
  /\ Answer(w)

-----------------------------------------------------------------------------
(* POST /register.                                                         *)

\* Mutant: the username is not looked up.
CheckUsernameBlind(w, f) ==
  /\ "register" \in Ops
  /\ Serving(w, "idle")
  /\ Posted(f.id) /\ Goto(w, [pc |-> "email", form |-> f])
  /\ UNCHANGED <<rows, born, submitted, clashes>>

CheckUsername(w, f) ==
  /\ "register" \in Ops
  /\ Serving(w, "idle")
  /\ IF existsByUsername(f.username) THEN Answer(w) /\ UNCHANGED posts
     ELSE Posted(f.id) /\ Goto(w, [pc |-> "email", form |-> f])
  /\ UNCHANGED <<rows, born, submitted, clashes>>

CheckEmail(w) ==
  /\ Serving(w, "email")
  /\ IF existsByEmail(req[w].form.email) \/ req[w].form.details = Blank
     THEN Answer(w) /\ late' = late \ {w}
     ELSE Goto(w, [pc |-> "insert", form |-> req[w].form]) /\ UNCHANGED late
  /\ UNCHANGED <<rows, born, posts, submitted, shared>>

Register(w) ==
  /\ Serving(w, "insert")
  /\ SaveUser(w, req[w].form.id, Encoded(req[w].form), w \in late)
  /\ UNCHANGED posts

-----------------------------------------------------------------------------
(* POST /add_user: no look at the table before save, and a default role.   *)

WithRole(r) == [r EXCEPT !.role = IF r.role = NoRole THEN "USER" ELSE r.role]

\* Mutant: the add page stores the password as typed.
AddUserPlain(w, f) ==
  /\ "add" \in Ops
  /\ Serving(w, "idle")
  /\ f.details # Blank
  /\ Posted(f.id)
  /\ SaveUser(w, f.id, WithRole([Encoded(f) EXCEPT !.password = f.password]), TRUE)

AddUser(w, f) ==
  /\ "add" \in Ops
  /\ Serving(w, "idle")
  /\ f.details # Blank
  /\ Posted(f.id)
  /\ SaveUser(w, f.id, WithRole(Encoded(f)), TRUE)

-----------------------------------------------------------------------------
(* POST /update_profile: three transactions.                               *)

FindProfile(w, n, email, details) ==
  /\ "profile" \in Ops
  /\ Serving(w, "idle")
  /\ IF FoundByUsername(n) = {} \/ details = Blank
     THEN Answer(w) /\ UNCHANGED <<posts, forms>>
     ELSE \E i \in FoundByUsername(n) :
            /\ Posted(i)
            /\ Goto(w, [pc |-> "reread", id |-> i, email |-> email, details |-> details])
            /\ forms' = [forms EXCEPT ![i] = @ \cup {<<email, details>>}]
  /\ UNCHANGED <<rows, born, names, clashes>>

\* Mutant: a field of the form is not copied.
WrittenBackWithoutEmail(row, email, details) == [row EXCEPT !.details = details]

\* Mutant: the copied row loses the fields the form does not show.
WrittenBackReset(row, email, details) ==
  [row EXCEPT !.email = email, !.details = details, !.role = "USER"]

\* The fields updateUser copies from the form into the row it has read.
WrittenBack(row, email, details) ==
  [row EXCEPT !.email = email, !.details = details]

\* updateUser reads the row again and copies the form into it.
Reread(w) ==
  /\ Serving(w, "reread")
  /\ IF req[w].id \in DOMAIN rows
     THEN Goto(w, [pc |-> "save", id |-> req[w].id,
                   row |-> WrittenBack(rows[req[w].id], req[w].email, req[w].details)])
     ELSE Answer(w)
  /\ UNCHANGED <<rows, born, posts, submitted, clashes>>

\* Mutant: merging a detached entity whose row is gone inserts it again.
SaveProfileOrInsert(w) ==
  /\ Serving(w, "save")
  /\ Store(w, req[w].id, req[w].row, w \in late)
  /\ Answer(w)
  /\ UNCHANGED <<born, posts, submitted>>

\* save merges the detached entity: all columns are written, whatever was
\* committed since; a row that is gone is an OptimisticLockException.
SaveProfile(w) ==
  /\ Serving(w, "save")
  /\ IF req[w].id \in DOMAIN rows
     THEN Store(w, req[w].id, req[w].row, w \in late)
     ELSE late' = late \ {w} /\ UNCHANGED <<rows, shared>>
  /\ Answer(w)
  /\ UNCHANGED <<born, posts, submitted>>

-----------------------------------------------------------------------------
(* POST /delete_user.                                                      *)

\* A caller the page knows must be an administrator; the shipped configuration
\* serves the page without an authentication.
isAdmin(n) == n = Nobody \/ \E i \in FoundByUsername(n) : rows[i].role = "ADMIN"

FindToDelete(w, caller, i) ==
  /\ "delete" \in Ops
  /\ Serving(w, "idle")
  /\ IF isAdmin(caller) /\ i \in DOMAIN rows
     THEN Goto(w, [pc |-> "delete", id |-> i])
     ELSE Answer(w)
  /\ UNCHANGED <<rows, born, posts, submitted, clashes>>

\* deleteById: nothing happens when the row is gone by now, or when a loan of
\* the user makes the foreign key refuse the DELETE.
DeleteById(w) ==
  /\ Serving(w, "delete")
  /\ \/ rows' = [k \in DOMAIN rows \ {req[w].id} |-> rows[k]]
     \/ UNCHANGED rows
  /\ Answer(w)
  /\ UNCHANGED <<born, posts, submitted, clashes>>

-----------------------------------------------------------------------------
Init ==
  /\ rows = << >>
  /\ born = {}
  /\ posts = 0
  /\ req = [w \in Workers |-> NoRequest]
  /\ forms = [i \in Ids |-> {}]
  /\ names = [i \in Ids |-> {}]
  /\ late = {} /\ shared = {}

Next == \E w \in Workers :
  \/ \E f \in Form : CheckUsername(w, f) \/ AddUser(w, f)
  \/ CheckEmail(w) \/ Register(w)
  \/ \E n \in Names, e \in Emails, d \in Details \cup {Blank} : FindProfile(w, n, e, d)
  \/ Reread(w) \/ SaveProfile(w)
  \/ \E n \in Names \cup {Nobody}, i \in Ids : FindToDelete(w, n, i)
  \/ DeleteById(w)

Spec == Init /\ [][Next]_vars

-----------------------------------------------------------------------------
(* Properties.                                                             *)

Requests ==
  [pc : {"idle"}] \cup [pc : {"email"}, form : Form]
    \cup [pc : {"insert"}, form : {f \in Form : f.details # Blank}]
    \cup [pc : {"reread"}, id : Ids, email : Emails, details : Details]
    \cup [pc : {"save"}, id : Ids, row : Row] \cup [pc : {"delete"}, id : Ids]

\* The rows of the table and the requests have their types, and every id that
\* the table holds or a request remembers was handed out.
TypeOK ==
  /\ rows \in [DOMAIN rows -> Row]
  /\ DOMAIN rows \subseteq born
  /\ born \subseteq Ids
  /\ posts \in Nat
  /\ forms \in [Ids -> SUBSET (Emails \X Details)]
  /\ names \in [Ids -> SUBSET (Names \X ({"bcrypt"} \X Passwords) \X (Roles \cup {NoRole}))]
  /\ late \subseteq Workers /\ shared \subseteq Names
  /\ req \in [Workers -> Requests]
  /\ \A w \in Workers : req[w].pc \in {"reread", "save", "delete"} => req[w].id \in born

\* The users whom loginUser lets in with a username and a password; it fails for
\* one without a role.
LoginAs(n, p) ==
  {i \in FoundByUsername(n) : matches(p, rows[i].password) /\ rows[i].role # NoRole}

\* An account with a role whose username nobody else has can log in with a
\* password that was posted: none of the pages that store a row breaks it, and a
\* deletion gives the survivor of a duplicate its account back.
SoleAccountCanLogIn ==
  \A i \in DOMAIN rows :
    IdsNamed(rows[i].username) = {i} /\ rows[i].role # NoRole =>
      \E p \in Passwords : LoginAs(rows[i].username, p) = {i}

\* A deleted account never comes back, even when its profile was being saved
\* while it was deleted, or when a form is posted with its id.
DeletedStaysDeleted ==
  [][\A i \in born \ DOMAIN rows : i \notin DOMAIN rows']_vars

\* Two profile updates of one account never mix: what is stored is the
\* registration or one submitted form as a whole.
NoTornProfile == \A i \in DOMAIN rows : Profile(rows[i]) \in forms[i]

\* The username, the password and the role of an account belong together: they
\* are those of one form that was stored for it, although a profile update that
\* was under way writes back the ones it read.
NoMixedIdentity == \A i \in DOMAIN rows : Identity(rows[i]) \in names[i]

\* Two accounts share a username only if the add page stored it, which looks
\* nothing up, or a request whose look-up or read came before the other account
\* had the name: registerUser keeps every other way out.
SharedNameOnlyFromRace ==
  \A i, k \in DOMAIN rows :
    i # k /\ rows[i].username = rows[k].username => rows[i].username \in shared

\* Why the last three hold.  A request about to save a profile carries a profile
\* and an identity submitted for its account.  Unless it is late, nobody has the
\* username a registration has looked up, and nobody else the one that is to be
\* written back, unless it is a shared one.
SaveInv ==
  \A w \in Workers :
    /\ req[w].pc = "reread" => <<req[w].email, req[w].details>> \in forms[req[w].id]
    /\ req[w].pc = "save" =>
         Profile(req[w].row) \in forms[req[w].id] /\ Identity(req[w].row) \in names[req[w].id]
ClashInv ==
  \A w \in Workers \ late :
    /\ req[w].pc \in {"email", "insert"} => IdsNamed(req[w].form.username) = {}
    /\ req[w].pc = "save" =>
         IdsNamed(req[w].row.username) \ {req[w].id} = {} \/ req[w].row.username \in shared
=============================================================================
