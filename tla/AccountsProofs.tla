--------------------------- MODULE AccountsProofs ---------------------------
(***************************************************************************)
(* Proofs about Accounts, for any number of workers, accounts and forms.   *)
(* A step stores one row, deletes one, or only moves a request on; each of *)
(* the three has a lemma.                                                  *)
(***************************************************************************)
EXTENDS Accounts, TLAPS

Inv ==
  /\ TypeOK /\ SaveInv /\ ClashInv
  /\ NoTornProfile /\ NoMixedIdentity /\ SharedNameOnlyFromRace

Identities == Names \X ({"bcrypt"} \X Passwords) \X (Roles \cup {NoRole})

\* What was submitted stays submitted.
Growing ==
  /\ forms' \in [Ids -> SUBSET (Emails \X Details)]
  /\ names' \in [Ids -> SUBSET Identities]
  /\ \A i \in Ids : forms[i] \subseteq forms'[i] /\ names[i] \subseteq names'[i]

\* IdsNamed after a step.
NamedAfter(n) == {i \in DOMAIN rows' : rows'[i].username = n}

\* What the shape of a request says about its fields.
LEMMA RequestFields ==
  ASSUME NEW r \in Requests
  PROVE  /\ r.pc \in {"idle", "email", "insert", "reread", "save", "delete"}
         /\ r.pc \in {"email", "insert"} => r.form \in Form
         /\ r.pc = "insert" => r.form.details # Blank
         /\ r.pc = "reread" => r.id \in Ids /\ r.email \in Emails /\ r.details \in Details
         /\ r.pc = "save" => r.id \in Ids /\ r.row \in Row
         /\ r.pc = "delete" => r.id \in Ids
BY DEF Requests

\* The answer to a request leaves an idle thread.
LEMMA IdleRequest == NoRequest \in Requests /\ NoRequest.pc = "idle"
BY DEF NoRequest, Requests

\* What a row says about its owner.
LEMMA RowFields ==
  ASSUME NEW r \in Row
  PROVE  /\ Profile(r) \in Emails \X Details
         /\ Identity(r) \in Identities
         /\ r.username \in Names
BY DEF Row, Profile, Identity, Identities

\* The password encoder turns a complete form into a row, with or without the
\* default role of the add page.
LEMMA EncodedRow ==
  ASSUME NEW f \in Form, f.details # Blank
  PROVE  /\ Encoded(f) \in Row /\ WithRole(Encoded(f)) \in Row
         /\ Encoded(f).username = f.username
<1>1. Encoded(f) \in Row /\ Encoded(f).username = f.username
  BY RolesAssumption DEF Encoded, encode, Form, Row
<1>2. ASSUME NEW r \in Row PROVE WithRole(r) \in Row
  BY DEF WithRole, Row, Roles, NoRole
<1> QED
  BY <1>1, <1>2

\* updateUser changes the profile of a row and nothing else.
LEMMA WrittenBackFacts ==
  ASSUME NEW r \in Row, NEW e \in Emails, NEW d \in Details
  PROVE  /\ WrittenBack(r, e, d) \in Row
         /\ Profile(WrittenBack(r, e, d)) = <<e, d>>
         /\ Identity(WrittenBack(r, e, d)) = Identity(r)
         /\ WrittenBack(r, e, d).username = r.username
BY DEF WrittenBack, Row, Profile, Identity

-----------------------------------------------------------------------------
\* A step that only moves a request on preserves the invariant when the new
\* request satisfies what the invariant says of it; more submitted forms do no
\* harm, and neither does it to forget that an answered request was late.
LEMMA RequestInv ==
  ASSUME Inv, NEW w \in Workers, NEW r \in Requests,
         rows' = rows, born' = born, shared' = shared, posts' \in Nat, Growing,
         late' = late \/ (late' = late \ {w} /\ r.pc = "idle"),
         req' = [req EXCEPT ![w] = r],
         r.pc \in {"reread", "save", "delete"} => r.id \in born,
         r.pc = "reread" => <<r.email, r.details>> \in forms'[r.id],
         r.pc = "save" => /\ Profile(r.row) \in forms'[r.id] /\ Identity(r.row) \in names'[r.id]
                          /\ \/ IdsNamed(r.row.username) \ {r.id} = {}
                             \/ r.row.username \in shared,
         r.pc \in {"email", "insert"} => w \in late \/ IdsNamed(r.form.username) = {}
  PROVE  Inv'
<1>1. \A v \in Workers : req'[v] = IF v = w THEN r ELSE req[v]
  BY DEF Inv, TypeOK
<1>2. TypeOK'
  <2>1. req' \in [Workers -> Requests] /\ late' \subseteq Workers
    BY DEF Inv, TypeOK
  <2>2. \A v \in Workers : req'[v].pc \in {"reread", "save", "delete"} => req'[v].id \in born'
    BY <1>1 DEF Inv, TypeOK
  <2> QED
    BY <2>1, <2>2 DEF Inv, TypeOK, Growing, Identities
<1>3. SaveInv'
  <2> SUFFICES ASSUME NEW v \in Workers
               PROVE  /\ req'[v].pc = "reread" => <<req'[v].email, req'[v].details>> \in forms'[req'[v].id]
                      /\ req'[v].pc = "save" =>
                           /\ Profile(req'[v].row) \in forms'[req'[v].id]
                           /\ Identity(req'[v].row) \in names'[req'[v].id]
    BY Zenon DEF SaveInv, Profile, Identity
  <2>1. CASE v = w
    BY <1>1, <2>1
  <2>2. CASE v # w
    <3>1. req[v].pc \in {"reread", "save"} => req[v].id \in Ids
      BY DEF Inv, TypeOK
    <3> QED
      BY <1>1, <2>2, <3>1 DEF Inv, SaveInv, Growing
  <2> QED
    BY <2>1, <2>2
<1>4. ClashInv'
  <2> SUFFICES ASSUME NEW v \in Workers, v \notin late'
               PROVE  /\ req'[v].pc \in {"email", "insert"} => IdsNamed(req'[v].form.username) = {}
                      /\ req'[v].pc = "save" => \/ IdsNamed(req'[v].row.username) \ {req'[v].id} = {}
                                                \/ req'[v].row.username \in shared
    BY Zenon DEF ClashInv, IdsNamed
  <2>1. CASE v = w
    BY <1>1, <2>1
  <2>2. CASE v # w
    BY <1>1, <2>2 DEF Inv, ClashInv
  <2> QED
    BY <2>1, <2>2
<1>5. NoTornProfile' /\ NoMixedIdentity' /\ SharedNameOnlyFromRace'
  <2>1. \A i \in DOMAIN rows : i \in Ids
    BY DEF Inv, TypeOK
  <2>2. \A i \in DOMAIN rows : Profile(rows[i]) \in forms'[i] /\ Identity(rows[i]) \in names'[i]
    BY <2>1 DEF Inv, NoTornProfile, NoMixedIdentity, Growing
  <2>3. SharedNameOnlyFromRace'
    BY DEF Inv, SharedNameOnlyFromRace
  <2> QED
    BY <2>2, <2>3, Zenon DEF NoTornProfile, NoMixedIdentity, Profile, Identity
<1> QED
  BY <1>2, <1>3, <1>4, <1>5, Zenon DEF Inv

\* save preserves the invariant when the row was submitted, and when a request
\* that is not blind stores a name that nobody else has or that is shared.
LEMMA StoreInv ==
  ASSUME Inv, NEW w \in Workers, NEW i \in Ids, NEW r \in Row, NEW blind \in BOOLEAN,
         Store(w, i, r, blind), Answer(w),
         born \subseteq born', born' \subseteq Ids, i \in born', posts' \in Nat, Growing,
         Profile(r) \in forms'[i], Identity(r) \in names'[i],
         ~blind => IdsNamed(r.username) \ {i} = {} \/ r.username \in shared
  PROVE  Inv'
<1>1. /\ \A v \in Workers : req'[v] = IF v = w THEN NoRequest ELSE req[v]
      /\ req' \in [Workers -> Requests]
  BY IdleRequest DEF Answer, Goto, Inv, TypeOK
<1>2. /\ rows' \in [DOMAIN rows' -> Row]
      /\ DOMAIN rows' = DOMAIN rows \cup {i}
      /\ \A k \in DOMAIN rows' : rows'[k] = IF k = i THEN r ELSE rows[k]
  BY DEF Store, Inv, TypeOK
<1>3. /\ late' = (late \ {w}) \cup {v \in Workers \ {w} : Awaits(v, r.username)}
      /\ shared \subseteq shared' /\ shared' \subseteq Names
      /\ IdsNamed(r.username) \ {i} # {} => r.username \in shared'
  BY RowFields DEF Store, Inv, TypeOK
<1>4. TypeOK'
  <2>1. \A v \in Workers : req'[v].pc \in {"reread", "save", "delete"} => req'[v].id \in born'
    BY <1>1, IdleRequest DEF Inv, TypeOK
  <2>2. late' \subseteq Workers /\ DOMAIN rows' \subseteq born'
    BY <1>2, <1>3 DEF Inv, TypeOK
  <2> QED
    BY <1>1, <1>2, <1>3, <2>1, <2>2 DEF TypeOK, Growing, Identities
<1>5. SaveInv'
  <2> SUFFICES ASSUME NEW v \in Workers
               PROVE  /\ req'[v].pc = "reread" => <<req'[v].email, req'[v].details>> \in forms'[req'[v].id]
                      /\ req'[v].pc = "save" =>
                           /\ Profile(req'[v].row) \in forms'[req'[v].id]
                           /\ Identity(req'[v].row) \in names'[req'[v].id]
    BY Zenon DEF SaveInv, Profile, Identity
  <2>1. CASE v = w
    BY <1>1, <2>1, IdleRequest
  <2>2. CASE v # w
    <3>1. req[v].pc \in {"reread", "save"} => req[v].id \in Ids
      BY DEF Inv, TypeOK
    <3> QED
      BY <1>1, <2>2, <3>1 DEF Inv, SaveInv, Growing
  <2> QED
    BY <2>1, <2>2
<1>6. ASSUME NEW n, n # r.username
      PROVE  NamedAfter(n) \subseteq IdsNamed(n)
  BY <1>2, <1>6 DEF IdsNamed, NamedAfter
<1>7. ClashInv'
  <2> SUFFICES ASSUME NEW v \in Workers, v \notin late'
               PROVE  /\ req'[v].pc \in {"email", "insert"} => NamedAfter(req'[v].form.username) = {}
                      /\ req'[v].pc = "save" => \/ NamedAfter(req'[v].row.username) \ {req'[v].id} = {}
                                                \/ req'[v].row.username \in shared'
    BY Zenon DEF ClashInv, IdsNamed, NamedAfter
  <2>1. CASE v = w
    BY <1>1, <2>1, IdleRequest
  <2>2. CASE v # w
    <3>1. v \notin late /\ ~Awaits(v, r.username)
      BY <1>3, <2>2
    <3>2. req'[v] = req[v]
      BY <1>1, <2>2
    <3>3. CASE req[v].pc \in {"email", "insert"}
      <4>1. req[v].form.username # r.username /\ IdsNamed(req[v].form.username) = {}
        BY <3>1, <3>3, Zenon DEF Awaits, Inv, ClashInv
      <4> QED
        BY <1>6, <3>2, <3>3, <4>1
    <3>4. CASE req[v].pc = "save"
      <4>1. req[v].row.username # r.username
        BY <3>1, <3>4, Zenon DEF Awaits
      <4>2. IdsNamed(req[v].row.username) \ {req[v].id} = {} \/ req[v].row.username \in shared
        BY <3>1, <3>4, Zenon DEF Inv, ClashInv
      <4> QED
        BY <1>3, <1>6, <3>2, <3>4, <4>1, <4>2
    <3> QED
      BY <3>2, <3>3, <3>4
  <2> QED
    BY <2>1, <2>2
<1>8. NoTornProfile' /\ NoMixedIdentity'
  <2>1. ASSUME NEW k \in DOMAIN rows'
        PROVE  Profile(rows'[k]) \in forms'[k] /\ Identity(rows'[k]) \in names'[k]
    <3>1. CASE k = i
      BY <1>2, <3>1
    <3>2. CASE k # i
      <4>1. k \in DOMAIN rows /\ k \in Ids /\ rows'[k] = rows[k]
        BY <1>2, <2>1, <3>2 DEF Inv, TypeOK
      <4> QED
        BY <4>1 DEF Inv, NoTornProfile, NoMixedIdentity, Growing
    <3> QED
      BY <3>1, <3>2
  <2> QED
    BY <2>1, Zenon DEF NoTornProfile, NoMixedIdentity, Profile, Identity
<1>9. SharedNameOnlyFromRace'
  <2> SUFFICES ASSUME NEW j \in DOMAIN rows', NEW k \in DOMAIN rows', j # k,
                      rows'[j].username = rows'[k].username
               PROVE  rows'[j].username \in shared'
    BY Zenon DEF SharedNameOnlyFromRace
  <2>1. CASE j # i /\ k # i
    <3>1. j \in DOMAIN rows /\ k \in DOMAIN rows /\ rows'[j] = rows[j] /\ rows'[k] = rows[k]
      BY <1>2, <2>1
    <3> QED
      BY <1>3, <3>1 DEF Inv, SharedNameOnlyFromRace
  <2>2. CASE j = i
    <3>1. k \in IdsNamed(r.username) \ {i} /\ rows'[j].username = r.username
      BY <1>2, <2>2 DEF IdsNamed
    <3> QED
      BY <1>3, <3>1
  <2>3. CASE k = i
    <3>1. j \in IdsNamed(r.username) \ {i} /\ rows'[j].username = r.username
      BY <1>2, <2>3 DEF IdsNamed
    <3> QED
      BY <1>3, <3>1
  <2> QED
    BY <2>1, <2>2, <2>3
<1> QED
  BY <1>4, <1>5, <1>7, <1>8, <1>9, Zenon DEF Inv

\* deleteById preserves the invariant: fewer rows, fewer names.
LEMMA DeleteByIdInv ==
  ASSUME Inv, NEW w \in Workers, DeleteById(w)
  PROVE  Inv'
<1>1. /\ DOMAIN rows' \subseteq DOMAIN rows
      /\ rows' \in [DOMAIN rows' -> Row]
      /\ \A k \in DOMAIN rows' : rows'[k] = rows[k]
      /\ born' = born /\ posts' = posts /\ forms' = forms /\ names' = names
      /\ late' = late /\ shared' = shared
  BY DEF DeleteById, Inv, TypeOK, submitted, clashes
<1>2. /\ req' \in [Workers -> Requests]
      /\ \A v \in Workers : req'[v] = IF v = w THEN NoRequest ELSE req[v]
  BY IdleRequest DEF DeleteById, Answer, Goto, Inv, TypeOK
<1>3. TypeOK'
  BY <1>1, <1>2, IdleRequest DEF Inv, TypeOK
<1>4. SaveInv'
  BY <1>1, <1>2, IdleRequest DEF Inv, SaveInv, Profile, Identity
<1>5. \A n : NamedAfter(n) \subseteq IdsNamed(n)
  BY <1>1 DEF IdsNamed, NamedAfter
<1>6. ClashInv'
  <2> SUFFICES ASSUME NEW v \in Workers, v \notin late'
               PROVE  /\ req'[v].pc \in {"email", "insert"} => NamedAfter(req'[v].form.username) = {}
                      /\ req'[v].pc = "save" => \/ NamedAfter(req'[v].row.username) \ {req'[v].id} = {}
                                                \/ req'[v].row.username \in shared'
    BY Zenon DEF ClashInv, IdsNamed, NamedAfter
  <2>1. CASE v = w
    BY <1>2, <2>1, IdleRequest
  <2>2. CASE v # w
    BY <1>1, <1>2, <1>5, <2>2 DEF Inv, ClashInv
  <2> QED
    BY <2>1, <2>2
<1>7. NoTornProfile' /\ NoMixedIdentity' /\ SharedNameOnlyFromRace'
  BY <1>1 DEF Inv, NoTornProfile, NoMixedIdentity, SharedNameOnlyFromRace, Profile, Identity
<1> QED
  BY <1>3, <1>4, <1>6, <1>7, Zenon DEF Inv

-----------------------------------------------------------------------------
\* What a step that submits a row for the id i adds.
LEMMA SubmitGrows ==
  ASSUME Inv, NEW i \in Ids, NEW r \in Row, Submit(i, r)
  PROVE  Growing /\ Profile(r) \in forms'[i] /\ Identity(r) \in names'[i]
<1>1. Profile(r) \in Emails \X Details /\ Identity(r) \in Identities
  BY RowFields
<1>2. forms \in [Ids -> SUBSET (Emails \X Details)] /\ names \in [Ids -> SUBSET Identities]
  BY DEF Inv, TypeOK, Identities
<1> QED
  BY <1>1, <1>2 DEF Submit, Growing

\* A step that submits nothing.
LEMMA SubmittedSame ==
  ASSUME Inv, forms' = forms, names' = names
  PROVE  Growing
<1>1. forms \in [Ids -> SUBSET (Emails \X Details)] /\ names \in [Ids -> SUBSET Identities]
  BY DEF Inv, TypeOK, Identities
<1> QED
  BY <1>1 DEF Growing

\* A request that is answered and stores nothing.
LEMMA AnswerInv ==
  ASSUME Inv, NEW w \in Workers, Answer(w), UNCHANGED <<rows, born, posts, submitted, shared>>,
         late' = late \/ late' = late \ {w}
  PROVE  Inv'
<1>1. Growing /\ posts' \in Nat
  BY SubmittedSame DEF submitted, Inv, TypeOK
<1> QED
  BY <1>1, RequestInv, IdleRequest DEF Answer, Goto

\* save preserves the invariant, with and without an id, when a request that is
\* not blind stores a name nobody has.
LEMMA SaveUserInv ==
  ASSUME Inv, NEW w \in Workers, NEW id \in Ids \cup {NoId}, NEW r \in Row, NEW blind \in BOOLEAN,
         SaveUser(w, id, r, blind), posts' \in Nat,
         ~blind => IdsNamed(r.username) = {}
  PROVE  Inv'
<1>1. DOMAIN rows \subseteq born /\ born \subseteq Ids /\ Answer(w)
  BY DEF Inv, TypeOK, SaveUser
<1>2. CASE \E i \in Ids \ born : Store(w, i, r, blind) /\ Submit(i, r) /\ born' = born \cup {i}
  <2>1. PICK i \in Ids \ born : Store(w, i, r, blind) /\ Submit(i, r) /\ born' = born \cup {i}
    BY <1>2
  <2>2. Growing /\ Profile(r) \in forms'[i] /\ Identity(r) \in names'[i]
    BY <2>1, SubmitGrows
  <2>3. born \subseteq born' /\ born' \subseteq Ids /\ i \in born' /\ i \in Ids
    BY <1>1, <2>1
  <2>4. ~blind => IdsNamed(r.username) \ {i} = {} \/ r.username \in shared
    OBVIOUS
  <2> QED
    BY <1>1, <2>1, <2>2, <2>3, <2>4, StoreInv
<1>3. CASE /\ id \in DOMAIN rows
           /\ Store(w, id, r, blind) /\ Submit(id, r)
           /\ UNCHANGED born
  <2>1. born \subseteq born' /\ born' \subseteq Ids /\ id \in born' /\ id \in Ids
    BY <1>1, <1>3
  <2>2. Growing /\ Profile(r) \in forms'[id] /\ Identity(r) \in names'[id]
    BY <1>3, <2>1, SubmitGrows
  <2>3. ~blind => IdsNamed(r.username) \ {id} = {} \/ r.username \in shared
    OBVIOUS
  <2> QED
    BY <1>1, <1>3, <2>1, <2>2, <2>3, StoreInv
<1>4. CASE late' = late \ {w} /\ UNCHANGED <<rows, born, submitted, shared>>
  <2>1. Growing
    BY <1>4, SubmittedSame DEF submitted
  <2> QED
    BY <1>1, <1>4, <2>1, RequestInv, IdleRequest DEF Answer, Goto
<1> QED
  BY <1>2, <1>3, <1>4, Zenon DEF SaveUser

\* registerUser's look-up: nobody has the name when the request moves on.
LEMMA CheckUsernameInv ==
  ASSUME Inv, NEW w \in Workers, NEW f \in Form, CheckUsername(w, f)
  PROVE  Inv'
<1>1. CASE existsByUsername(f.username)
  BY <1>1, AnswerInv DEF CheckUsername, clashes
<1>2. CASE ~existsByUsername(f.username)
  <2> DEFINE r == [pc |-> "email", form |-> f]
  <2>1. r \in Requests /\ r.pc = "email" /\ r.form = f
    BY DEF Requests
  <2>2. /\ req' = [req EXCEPT ![w] = r] /\ posts' \in Nat
        /\ rows' = rows /\ born' = born /\ shared' = shared /\ late' = late
    BY <1>2 DEF CheckUsername, Goto, Posted, clashes, Inv, TypeOK
  <2>3. Growing
    BY SubmittedSame DEF CheckUsername, submitted
  <2>4. IdsNamed(f.username) = {}
    BY <1>2 DEF existsByUsername
  <2> HIDE DEF r
  <2> QED
    BY <2>1, <2>2, <2>3, <2>4, RequestInv
<1> QED
  BY <1>1, <1>2

\* registerUser's second look-up: a request that goes on to store a complete form
\* still holds a name nobody has, or is late.
LEMMA CheckEmailInv ==
  ASSUME Inv, NEW w \in Workers, CheckEmail(w)
  PROVE  Inv'
<1>1. CASE existsByEmail(req[w].form.email) \/ req[w].form.details = Blank
  BY <1>1, AnswerInv DEF CheckEmail
<1>2. CASE ~(existsByEmail(req[w].form.email) \/ req[w].form.details = Blank)
  <2> DEFINE f == req[w].form
  <2> DEFINE r == [pc |-> "insert", form |-> f]
  <2>1. f \in Form /\ f.details # Blank
    BY <1>2, RequestFields DEF CheckEmail, Serving, Inv, TypeOK
  <2>2. w \in late \/ IdsNamed(f.username) = {}
    BY Zenon DEF CheckEmail, Serving, Inv, ClashInv
  <2>3. /\ req' = [req EXCEPT ![w] = r] /\ posts' \in Nat
        /\ rows' = rows /\ born' = born /\ shared' = shared /\ late' = late
    BY <1>2 DEF CheckEmail, Goto, Inv, TypeOK
  <2>4. Growing
    BY SubmittedSame DEF CheckEmail, submitted
  <2> HIDE DEF f
  <2>5. r \in Requests /\ r.pc = "insert" /\ r.form = f
    BY <2>1 DEF Requests
  <2> HIDE DEF r
  <2> QED
    BY <2>2, <2>3, <2>4, <2>5, RequestInv
<1> QED
  BY <1>1, <1>2

\* registerUser's save.
LEMMA RegisterInv ==
  ASSUME Inv, NEW w \in Workers, Register(w)
  PROVE  Inv'
<1> DEFINE f == req[w].form
<1>1. f \in Form /\ f.details # Blank
  BY RequestFields DEF Register, Serving, Inv, TypeOK
<1>2. w \notin late => IdsNamed(f.username) = {}
  BY Zenon DEF Register, Serving, Inv, ClashInv
<1>3. SaveUser(w, f.id, Encoded(f), w \in late) /\ posts' \in Nat
  BY DEF Register, Inv, TypeOK
<1> HIDE DEF f
<1>4. Encoded(f) \in Row /\ Encoded(f).username = f.username /\ f.id \in Ids \cup {NoId}
  BY <1>1, EncodedRow DEF Form
<1>5. (w \in late) \in BOOLEAN
  OBVIOUS
<1> QED
  BY <1>2, <1>3, <1>4, <1>5, SaveUserInv, Zenon

\* The add page: blind.
LEMMA AddUserInv ==
  ASSUME Inv, NEW w \in Workers, NEW f \in Form, AddUser(w, f)
  PROVE  Inv'
<1>1. WithRole(Encoded(f)) \in Row /\ f.id \in Ids \cup {NoId}
  BY EncodedRow DEF AddUser, Form
<1>2. SaveUser(w, f.id, WithRole(Encoded(f)), TRUE) /\ posts' = posts + 1
  BY Zenon DEF AddUser, Posted
<1>3. posts' \in Nat
  BY <1>2 DEF Inv, TypeOK
<1> QED
  BY <1>1, <1>2, <1>3, SaveUserInv, Zenon

\* updateProfile's look-up records the submitted profile.
LEMMA FindProfileInv ==
  ASSUME Inv, NEW w \in Workers, NEW n \in Names, NEW e \in Emails, NEW d \in Details \cup {Blank},
         FindProfile(w, n, e, d)
  PROVE  Inv'
<1>1. CASE FoundByUsername(n) = {} \/ d = Blank
  BY <1>1, AnswerInv DEF FindProfile, submitted, clashes
<1>2. CASE ~(FoundByUsername(n) = {} \/ d = Blank)
  <2>1. PICK i \in FoundByUsername(n) :
          /\ posts' = posts + 1
          /\ req' = [req EXCEPT ![w] = [pc |-> "reread", id |-> i, email |-> e, details |-> d]]
          /\ forms' = [forms EXCEPT ![i] = @ \cup {<<e, d>>}]
    BY <1>2 DEF FindProfile, Goto, Posted
  <2> DEFINE r == [pc |-> "reread", id |-> i, email |-> e, details |-> d]
  <2>2. i \in born /\ i \in Ids
    BY DEF FoundByUsername, Inv, TypeOK
  <2>3. r \in Requests /\ r.pc = "reread" /\ r.id = i /\ r.email = e /\ r.details = d
    BY <1>2, <2>2 DEF Requests
  <2>4. Growing /\ <<e, d>> \in forms'[i]
    <3>1. /\ forms \in [Ids -> SUBSET (Emails \X Details)]
          /\ names \in [Ids -> SUBSET Identities] /\ names' = names
      BY DEF FindProfile, Inv, TypeOK, Identities
    <3> QED
      BY <1>2, <2>1, <2>2, <3>1 DEF Growing
  <2>5. /\ rows' = rows /\ born' = born /\ shared' = shared /\ late' = late
        /\ posts' \in Nat
    BY <2>1 DEF FindProfile, clashes, Inv, TypeOK
  <2>6. req' = [req EXCEPT ![w] = r]
    BY <2>1
  <2> HIDE DEF r
  <2> QED
    BY <2>2, <2>3, <2>4, <2>5, <2>6, RequestInv
<1> QED
  BY <1>1, <1>2

\* updateUser's read: the row it will write back is stored at this moment, so
\* that another account with its name shares it.
LEMMA RereadInv ==
  ASSUME Inv, NEW w \in Workers, Reread(w)
  PROVE  Inv'
<1>1. CASE req[w].id \notin DOMAIN rows
  BY <1>1, AnswerInv DEF Reread, clashes
<1>2. CASE req[w].id \in DOMAIN rows
  <2> DEFINE i == req[w].id
  <2> DEFINE b == WrittenBack(rows[i], req[w].email, req[w].details)
  <2> DEFINE r == [pc |-> "save", id |-> i, row |-> b]
  <2>1. /\ i \in DOMAIN rows /\ i \in born /\ i \in Ids
        /\ req[w].email \in Emails /\ req[w].details \in Details
        /\ rows[i] \in Row
    BY <1>2, RequestFields DEF Reread, Serving, Inv, TypeOK
  <2>2. /\ <<req[w].email, req[w].details>> \in forms[i]
        /\ Identity(rows[i]) \in names[i]
    BY <1>2, Zenon DEF Reread, Serving, Inv, SaveInv, NoMixedIdentity
  <2>3. b \in Row /\ Profile(b) \in forms[i] /\ Identity(b) \in names[i] /\ b.username = rows[i].username
    BY <2>1, <2>2, WrittenBackFacts
  <2>4. /\ req' = [req EXCEPT ![w] = r] /\ posts' \in Nat /\ forms' = forms /\ names' = names
        /\ rows' = rows /\ born' = born /\ shared' = shared /\ late' = late
    BY <1>2 DEF Reread, Goto, submitted, clashes, Inv, TypeOK
  <2>5. Growing
    BY <2>4, SubmittedSame
  <2> HIDE DEF i, b
  <2>6. IdsNamed(b.username) \ {i} = {} \/ b.username \in shared
    BY <2>1, <2>3 DEF IdsNamed, Inv, SharedNameOnlyFromRace
  <2>7. r \in Requests /\ r.pc = "save" /\ r.id = i /\ r.row = b
    BY <2>1, <2>3 DEF Requests
  <2> HIDE DEF r
  <2> QED
    BY <2>1, <2>3, <2>4, <2>5, <2>6, <2>7, RequestInv
<1> QED
  BY <1>1, <1>2

\* updateUser's save.
LEMMA SaveProfileInv ==
  ASSUME Inv, NEW w \in Workers, SaveProfile(w)
  PROVE  Inv'
<1>1. CASE req[w].id \notin DOMAIN rows
  BY <1>1, AnswerInv DEF SaveProfile
<1>2. CASE req[w].id \in DOMAIN rows
  <2> DEFINE i == req[w].id
  <2> DEFINE r == req[w].row
  <2>1. /\ i \in Ids /\ i \in born /\ r \in Row /\ posts' \in Nat /\ born' = born
        /\ born \subseteq Ids
    BY <1>2, RequestFields DEF SaveProfile, Serving, Inv, TypeOK
  <2>2. /\ Profile(r) \in forms[i] /\ Identity(r) \in names[i]
        /\ w \in late \/ IdsNamed(r.username) \ {i} = {} \/ r.username \in shared
    BY Zenon DEF SaveProfile, Serving, Inv, SaveInv, ClashInv
  <2>3. Store(w, i, r, w \in late) /\ Answer(w) /\ forms' = forms /\ names' = names
    BY <1>2 DEF SaveProfile, submitted
  <2>4. Growing
    BY <2>3, SubmittedSame
  <2>5. (w \in late) \in BOOLEAN
    OBVIOUS
  <2>6. born \subseteq born' /\ born' \subseteq Ids /\ i \in born'
    BY <2>1
  <2> HIDE DEF i, r
  <2> QED
    BY <2>1, <2>2, <2>3, <2>4, <2>5, <2>6, StoreInv, Zenon
<1> QED
  BY <1>1, <1>2

\* The delete page's look-up.
LEMMA FindToDeleteInv ==
  ASSUME Inv, NEW w \in Workers, NEW n \in Names \cup {Nobody}, NEW i \in Ids, FindToDelete(w, n, i)
  PROVE  Inv'
<1>1. CASE ~(isAdmin(n) /\ i \in DOMAIN rows)
  BY <1>1, AnswerInv DEF FindToDelete, clashes
<1>2. CASE isAdmin(n) /\ i \in DOMAIN rows
  <2> DEFINE r == [pc |-> "delete", id |-> i]
  <2>1. r \in Requests /\ r.pc = "delete" /\ r.id = i /\ i \in born
    BY <1>2 DEF Requests, Inv, TypeOK
  <2>2. /\ req' = [req EXCEPT ![w] = r] /\ posts' \in Nat
        /\ rows' = rows /\ born' = born /\ shared' = shared /\ late' = late
    BY <1>2 DEF FindToDelete, Goto, clashes, Inv, TypeOK
  <2>3. Growing
    BY SubmittedSame DEF FindToDelete, submitted
  <2> HIDE DEF r
  <2> QED
    BY <2>1, <2>2, <2>3, RequestInv
<1> QED
  BY <1>1, <1>2

-----------------------------------------------------------------------------
\* Every step preserves the invariant.
LEMMA NextInv ==
  ASSUME Inv, [Next]_vars
  PROVE  Inv'
<1>1. CASE Next
  BY <1>1, CheckUsernameInv, AddUserInv, CheckEmailInv, RegisterInv, FindProfileInv,
     RereadInv, SaveProfileInv, FindToDeleteInv, DeleteByIdInv, Zenon DEF Next
<1>2. CASE UNCHANGED vars
  <2>1. UNCHANGED <<rows, born, posts, req, forms, names, late, shared>>
    BY <1>2 DEF vars, submitted, clashes
  <2> QED
    BY <2>1, Zenon DEF Inv, TypeOK, SaveInv, ClashInv, NoTornProfile, NoMixedIdentity,
       SharedNameOnlyFromRace, IdsNamed, Profile, Identity
<1> QED
  BY <1>1, <1>2

\* The initial state satisfies the invariant.
LEMMA InitInv ==
  ASSUME Init
  PROVE  Inv
<1>1. rows = << >> /\ DOMAIN rows = {} /\ rows \in [{} -> Row]
  BY DEF Init
<1>2. \A w \in Workers : req[w] = NoRequest
  BY DEF Init
<1>3. TypeOK
  BY <1>1, <1>2, IdleRequest DEF Init, TypeOK
<1>4. SaveInv /\ ClashInv
  BY <1>2, IdleRequest DEF SaveInv, ClashInv
<1> QED
  BY <1>1, <1>3, <1>4 DEF Inv, NoTornProfile, NoMixedIdentity, SharedNameOnlyFromRace

\* The invariant holds in every reachable state.
THEOREM AccountsInvariantTheorem == Spec => []Inv
BY InitInv, NextInv, PTL DEF Spec

\* For any number of request threads, what the table stores as a profile is
\* the registration or one whole form of updateProfile.
THEOREM NoTornProfileTheorem == Spec => []NoTornProfile
<1>1. Inv => NoTornProfile
  BY DEF Inv
<1> QED
  BY <1>1, AccountsInvariantTheorem, PTL

\* For any number of request threads, the username, the password and the role of
\* an account were stored for it by one form, although updateUser writes back
\* whole rows that it read before.
THEOREM NoMixedIdentityTheorem == Spec => []NoMixedIdentity
<1>1. Inv => NoMixedIdentity
  BY DEF Inv
<1> QED
  BY <1>1, AccountsInvariantTheorem, PTL

\* For any number of request threads, two accounts share a username only through
\* the add page, which looks nothing up, or a request that another overtook
\* after its look-up: registerUser leaves no other way.
THEOREM SharedNameTheorem == Spec => []SharedNameOnlyFromRace
<1>1. Inv => SharedNameOnlyFromRace
  BY DEF Inv
<1> QED
  BY <1>1, AccountsInvariantTheorem, PTL

\* For any number of request threads, loginUser lets the owner of a username
\* that nobody else has in, if the account has a role.
THEOREM SoleAccountTheorem == Spec => []SoleAccountCanLogIn
<1>1. ASSUME TypeOK PROVE SoleAccountCanLogIn
  <2> SUFFICES ASSUME NEW i \in DOMAIN rows, IdsNamed(rows[i].username) = {i}, rows[i].role # NoRole
               PROVE  \E p \in Passwords : LoginAs(rows[i].username, p) = {i}
    BY DEF SoleAccountCanLogIn
  <2>1. PICK p \in Passwords : rows[i].password = encode(p)
    BY <1>1 DEF TypeOK, Row, encode
  <2>2. FoundByUsername(rows[i].username) = {i}
    BY DEF FoundByUsername
  <2>3. LoginAs(rows[i].username, p) = {i}
    BY <2>1, <2>2 DEF LoginAs, matches
  <2> QED
    BY <2>3
<1>2. Inv => SoleAccountCanLogIn
  BY <1>1 DEF Inv
<1> QED
  BY <1>2, AccountsInvariantTheorem, PTL

\* No step gives an id whose row is gone a row again.
LEMMA GoneStaysGone ==
  ASSUME Inv, Next
  PROVE  \A i \in born \ DOMAIN rows : i \notin DOMAIN rows'
<1>1. ASSUME NEW w, NEW id, NEW r, NEW blind, SaveUser(w, id, r, blind)
      PROVE  \A i \in born \ DOMAIN rows : i \notin DOMAIN rows'
  <2>1. ASSUME NEW i, Store(w, i, r, blind) PROVE DOMAIN rows' = DOMAIN rows \cup {i}
    BY <2>1 DEF Store
  <2>2. \/ \E i \in Ids \ born : Store(w, i, r, blind)
        \/ id \in DOMAIN rows /\ Store(w, id, r, blind)
        \/ rows' = rows
    BY <1>1, Zenon DEF SaveUser
  <2> QED
    BY <2>1, <2>2
<1>2. ASSUME NEW w, SaveProfile(w)
      PROVE  DOMAIN rows' = DOMAIN rows
  BY <1>2 DEF SaveProfile, Store
<1>3. ASSUME NEW w, DeleteById(w)
      PROVE  DOMAIN rows' \subseteq DOMAIN rows
  BY <1>3 DEF DeleteById
<1>4. CASE \E w, id, r, blind : SaveUser(w, id, r, blind)
  BY <1>1, <1>4
<1>5. CASE \E w : SaveProfile(w)
  BY <1>2, <1>5
<1>6. CASE \E w : DeleteById(w)
  BY <1>3, <1>6
<1>7. CASE UNCHANGED rows
  BY <1>7
<1> QED
  BY <1>4, <1>5, <1>6, <1>7, Zenon DEF Next, CheckUsername, AddUser, CheckEmail, Register,
     FindProfile, Reread, FindToDelete

\* For any number of request threads, no request brings a deleted account
\* back: neither a profile being saved while its account is deleted nor a form
\* posted with its id.
THEOREM DeletedStaysDeletedTheorem == Spec => DeletedStaysDeleted
<1>1. Inv /\ [Next]_vars => [\A i \in born \ DOMAIN rows : i \notin DOMAIN rows']_vars
  BY GoneStaysGone
<1> QED
  BY <1>1, AccountsInvariantTheorem, PTL DEF Spec, DeletedStaysDeleted
=============================================================================
