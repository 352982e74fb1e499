# A TLA+ verification of the library server and of parts of its Redis

The repository holds the back end of a lending library: a Spring Boot
application on MySQL whose pages let users register, borrow and return books,
and let administrators keep the catalogue and the accounts. Its source is under
`src/library_server/src/main/java/library/org/library/`; paths below are
relative to that directory unless they end in `.c`. The repository also holds
the source of Redis 7.4.0, `src/library_server/redis-7.4.0/`, to which the
server is configured to connect. Of Redis two parts are modelled whose difficulty lies in
failures: Sentinel, which elects who replaces a dead master, and the append only
file, from which a server recovers after a crash. Files ending in `.c` are those
of `redis-7.4.0/src/`.

The library server keeps all its state in four tables and a few HTTP session
attributes, and serves every request on a thread of its own. What is hard about
it is therefore not one handler but what several handlers do to the same rows
at the same time, and what a handler that fails half way leaves behind.

## 1. The parts of the system

| part | state | operations | hard behaviours |
| --- | --- | --- | --- |
| circulation: `BorrowedBooksServiceImpl`, `ReturnBooksService`, `BookService.deleteBooks`, their controllers | `books.available_copies`, `books.total_copies`, `borrowed_books`, `inventory.status` | borrow up to three books, return a list, delete a list, add or replace a book, delete a user | read-modify-write of a counter without version or lock, stale availability check, lists with repeated ids, deadlocks, queued UPDATE and DELETE statements, exceptions that do not roll back |
| accounts: `AuthService`, `UserServiceImpl`, `ProfileController`, `AddUserController`, `DeleteUserController` | `users` | register, add, replace, edit the profile, delete, check a password | check-then-insert in two transactions, write-back of a detached entity, deletion or replacement while a profile is edited |
| sessions: `AuthController`, `JwtAuthFilter`, `JwtUtil`, `HomeController`, `SetCookieController` | the browser's cookies | log in, log out, authenticate a request | the cookie outlives the token, a token outlives the account |
| borrow desk: `BorrowedBooksController`, `borrow_books.html`, `borrow.js` | session attributes `verifiedUserId`, `isVerified` | verify a user, borrow for them | several tabs share one session, the page shows one user and the session holds another |
| catalogue: `BookService.addBook`, `importFromExcel`, `BookMasterService`, images | `books`, files | add, import, list | an import that fails half way and is repeated |
| views: `DashboardService`, `LibraryService`, `ViewBorrowedBooksServiceImpl`, `mapToDto` | none | fines of a loan | several formulas for one fine |
| rate limiter: `RateLimitFilter`, `RateLimitConfig`, `WebConfig` | permits of the period | let a request through | the filter is registered twice |
| Redis Sentinel: `sentinel.c` | epochs, votes, the failover of a master, the configuration file | vote, count, fail over, exchange hello messages, restart | lost, late and repeated messages, restarts between a vote and its use, epochs that move on during an election |
| Redis append only file: `aof.c`, `bio.c`, parts of `server.c` and `config.c` | BASE and INCR files, the manifest, the buffer, the background jobs | write, flush, sync, rewrite, switch on and off, load | a crash or a failing system call between any two steps of a rewrite, loss of what was not synced |

The parts meet in the tables. Circulation reads `users` and relies on the
foreign keys of `borrowed_books`; the deletion of a user is an action of both
`Circulation` (which sees the loans) and `Accounts` (which sees the account).
The library server only opens a connection to Redis (`RedisConfig`) and stores
nothing in it, so the two Redis parts are modelled on their own.

## 2. The modules

| module | what it is |
| --- | --- |
| `Circulation` | borrowing, returning and deleting at the level of SQL statements, on several threads |
| `LoanRegister` | the abstract specification: who holds which book, a request at a time |
| `CirculationInv` | the inductive invariants of `Circulation` |
| `CirculationProofs` | the proofs: `IInv` is inductive, `LoanRegister` is implemented, copies and loans stay in balance |
| `MCCirculation` | the constants of the model-checking runs |
| `Accounts`, `AccountsProofs`, `MCAccounts` | the users table, its proofs, its run |
| `BorrowDesk`, `MCBorrowDesk` | the borrow page of an administrator in several tabs, its run |
| `Sessions`, `MCSessions` | login, logout and the authentication of requests, its run |
| `Sentinel`, `SentinelProofs`, `MCSentinel` | the election and the failover of Redis Sentinel, its proofs, its runs |
| `AofFiles`, `Aof` | the append only file of Redis: its files and manifest as values, and the server; the runs use `Aof` directly |

### Circulation

A request is a record in `req[w]`: the operation, its lists of ids, the index
of the loop and the point it has reached. A transaction is a record in `tx[w]`.
The database and Hibernate are not part of the source; they are modelled from
how the services use them:

* The first SELECT of a transaction fixes what it sees (`live`, `copy`,
  `view`). No isolation level is configured, and MySQL's is REPEATABLE READ.
* An INSERT with an identity key is executed at once (`ins`). A changed or
  removed entity is queued (`dirty`, `doomed`) until a query on the table or
  the commit flushes it (`wrote`, `del`).
* The entities have no version. An UPDATE writes every column, the counter as
  computed from the snapshot and `total_copies` as it was read (`WrittenTotal`).
  A DELETE or UPDATE that finds no row fails the transaction.
* An INSERT of a loan takes shared locks on its book and its user, an UPDATE or
  DELETE an exclusive one. A transaction that waits is either released, or
  aborted as a deadlock victim or after the timeout (`LockWaitAbort`).
* A `RuntimeException` rolls back; a checked exception commits. `deleteBooks`
  throws a checked one.
* `ConnectionLost` undoes a request at any point.

`BorrowBook`, `ReturnBook` and `DeleteBook` are one turn of the service's loop.
A flush is one step although it executes several statements: it only takes
locks and holds them to the end, so nobody can tell the statements apart. For
the same reason the flush and commit of a borrow or a deletion is one step.

`POST /add_books` binds every field of `Book`, the id too, and `save` merges an
entity that has one. So the page either inserts a book (`AddBook`) or writes the
form over the row of an existing one (`ReplaceBook`), whatever is lent of it.
The history variable `tainted` records the books whose counter was overwritten:
from a snapshot that missed another commit, or by `ReplaceBook` while copies
were lent.

Abstracted: the contents of books and users, the order of rows, dates, the row
locks of `inventory`, and the pages.

### Accounts

No service of this part is transactional and `spring.jpa.open-in-view` is
`false`, so each repository call is a transaction and an action. `CheckUsername`,
`CheckEmail` and `Register` are the three calls of `registerUser`;
`FindProfile`, `Reread` and `SaveProfile` those of `updateProfile` and
`updateUser`; `FindToDelete` and `DeleteById` those of the delete page.
`SaveProfile` is Hibernate's merge of a detached entity: it writes every
column, and fails when the row is gone. Registration and the add page bind every
field of `User`: a form may come without a role, which only the add page fills
in, and with the id of an account, whose row `SaveUser` then replaces. An
account without a role is stored, and `loginUser` fails for it (`LoginAs`).

The history variables: `forms` and `names` keep the profiles and the identities
submitted for each account; `late` holds the requests whose username somebody
else stored after they looked it up, or read it, and `shared` the names that
such a request, or the add page, stored a second time. Whether `DeleteById` is refused by a loan
is nondeterministic here; `Circulation` decides it from the loans.

### Borrow desk

The tabs of a browser share one HTTP session. Its attributes are read and
written one at a time, so a verification is two steps (`VerifyUser`,
`FlagUser`), the rendering of a page two (`GetPage`, `RenderPage`) and a borrow
two (`StoreBorrower`, `BorrowForUser`). A tab has the hidden field of the
borrow form and the text field of the search form, both set when the page is
rendered, and the state of `borrow.js`: the id it has asked the server about
and the id it has promised. A call that fails disables the borrow button again
(`AjaxError`). With `scripted`, the verify button makes the AJAX
call and is disabled until the answer, so that the browser does not submit the
form; without it the form is submitted with `verify=1`. Both kinds of browser
are initial states. `Circulation` continues where `BorrowForUser` ends.

### Sessions

The server keeps no session of a login. `jar` is the browser's cookie named
`token`, with the end of its life; a token is the record of its claims, and a
value is signed exactly when it is such a record, because only `generateToken`
makes one. A tab sends a request with the cookie of that moment, the server
answers it (`Login`, `Logout`, `Home`, `Dashboard`, `SetCookieHandler`), and the
browser applies the answer's `Set-Cookie` when it arrives (`Receive`): three
steps, so that answers overtake each other. The answer to a login makes the
tab ask for the dashboard (`FollowRedirect`). `kept` is a token a program sends
in the `Authorization` header; the cookie comes first. `accounts` is what
`findByUsername` finds for a name; a name two rows share counts as not found, and
so does an account without a role. The replacement of an account's row is the
deletion of one name and the addition of another.
The history variables are `left`, when an account was last deleted, and `out`.

The filter chain's own logout answers every `/logout`, since CSRF protection is
off; the logout handlers of `AuthController` and `HomeController` are never
reached. The server listens on plain HTTP at 127.0.0.1, so `isSecureRequest` is
false and the `Secure` and `SameSite` attributes are left out. No handler has a
path under `/admin/`. The session attributes of the borrow page are in
`BorrowDesk`.

### Sentinel

All Sentinels watch one master and know each other. `epoch`, `vote`, `conf` and
`fo` are the fields of `sentinelState` and `sentinelRedisInstance` that the
election and the failover use; `heard` is what a Sentinel keeps of the others'
answers; `disk` is its configuration file, written wherever the code calls
`sentinelFlushConfig`. The file keeps the epoch of the last vote and not the
leader voted for.

* Requests for a vote and their answers are sets that only grow, so each may be
  lost, late, repeated or overtaken. A hello message is taken over with the
  state its sender has at that moment, or not at all.
* Whether a master is down, a slave is good or a state has timed out is a
  judgement about time, and left open: `StartFailoverIfNeeded`, `AbortFailover`
  and `FailoverEnd` may happen whenever the other conditions hold. The one delay
  that orders elections, twice `failover_timeout`, is the flag `delayed`.
* A step of the timer that starts a failover also asks the others and takes the
  first step of the state machine, as `sentinelHandleRedisInstance` does.
* `Restart` reads the file back. The file is assumed to be written: a failing
  `sentinelFlushConfig` is not modelled.

The histories are `votes`, `elected` (with the winner's current epoch),
`promotions`, and `crossed`, the configuration epochs that a leader with a
promoted slave of its own took over from another's hello message.

Left out: subjective down detection, links and reconnection, TILT, forced
failovers, `SENTINEL SET` and `RESET`, scripts, and the reconfiguration of the
remaining slaves.

### Append only file

A command is a number, the dataset the sequence of commands applied. A file has
its data and the length that is synced; the manifest lists one BASE file, the
INCR files and the history files. `srv` is the process, with the descriptor it
writes to, its buffer, the queue of the background thread and the two fsync
offsets. `Flush` is `flushAppendOnlyFile`: the set of outcomes that the clock,
short writes and failing calls allow. `backgroundRewriteDoneHandler` is four
actions (`RenameBase`, `RenameIncr`, `PersistRewrite`, `RewriteDone`), because
the process may end between any two of them; every other handler is one.

Three actions end the process: `Shutdown`, `Killed` (what was written stays; a
forced shutdown that does not wait for the first rewrite is one of these) and
`PowerLoss` (each file keeps what is synced and some of the rest). Operations on
the directory are durable at once and in order. A loss of power may cut a file
within a command. With `aof-load-truncated` as shipped, the last file is then
truncated to whole commands; any other cut file (`torn`) makes the server refuse
to start, as `loadAppendOnlyFiles` does.

`NoFsyncOnRewrite` is the option `no-appendfsync-on-rewrite`. With it a flush
during a rewrite leaves the fsync out (`Skips`), and an answer given then is not
counted as acknowledged under `always`. The history `acked` takes in the commands
a `beforeSleep` answers under `always`, those that came before the policy was
changed included; `replied` is the last command answered so far. A background
fsync that fails also moves `replied`: the server takes what it should have
synced for synced, and `AckedSurvives` does not speak of the commands that wait
for their reply at that moment.

The code has ways to a wrong file that need a particular failure. The history
`slips` records which of them were taken, and each property names those it
excepts:

| slip | how it comes about |
| --- | --- |
| `dirsync` | the sync of the directory fails after the manifest was replaced; the caller takes the manifest for not persisted, and a rewrite deletes the files it now lists |
| `name_reused` | a start finds no INCR line, numbers its INCR file from 1 and so uses a name that the history list is about to delete |
| `gap` | a loss of power cuts a file that is not the last while later commands survive |
| `torn` | the same, the cut being within a command: the server refuses the file |
| `unflushed` | a rewrite starts although the flush before it failed: the commands in the buffer are in the snapshot and in the new INCR file |
| `orphan_fd` | the fork fails in `startAppendOnly`, which leaves the descriptor open with AOF off; the next rewrite keeps the last INCR file |
| `foreign_temp` | the handler renames a temporary INCR file of an earlier attempt; it takes four switches and is beyond the bound of the run |

About `name_reused`: the comment in `backgroundRewriteDoneHandler` says of the
history files that "the history deletion failure will not cause any problems"
(`aof.c` 2701 to 2702). It holds unless the rewrite ran with AOF off, when every INCR
file is history and `aofLoadManifestFromFile` (327 to 335) finds no number to
continue from.

Left out: `appendfsync no`, the format of the files, the upgrade from a single
file, `aof-load-truncated no`, and the restart of the AOF in a full
synchronisation.

### Assumptions about the schema

The repository contains no schema (`ddl-auto=validate`). The models take the
constraints the entities declare: the unique pair (book, user) and the foreign
keys of `borrowed_books`, the foreign key of `inventory`, and no unique column
in `users`.

`DeleteUserController.java` contains two classes one after the other; the first
one (lines 1 to 79) is modelled. `returnBooksForUser` of
`BorrowedBooksServiceImpl` is called by nobody and is left out.

## 3. The runs

| run | instance | what it shows |
| --- | --- | --- |
| `overlap` | one book, two users, two threads, lists up to two ids, totals -1 to 2, with and without an inventory row | types; the counter stays in range and drifts from the loans only when a stale snapshot (of a borrow or of a return) or the add page overwrites it; a success answer means every listed book was lent, and an error answer that nothing was stored |
| `service` | SERVICEINST | no loan survives its book or borrower; every commit is a step of `LoanRegister`; every request is answered |
| `accounts` | two threads, two accounts, three posted forms, with and without role and id, all pages | neither profiles nor identities are mixed; a name is shared only through the add page or a look-up that came too early; deleted accounts stay deleted; an account with a role and a username of its own can log in |
| `desk` | two tabs, two users, with and without the script | nobody gets a book whom no tab verified or posted, also when the chosen user is deleted meanwhile; a borrow goes to the user in the hidden field of its form unless another tab's request comes between the write and the read of the session attribute |
| `sessions` | two tabs, one user name, two roles, tokens of life 1 and cookies of life 2, clock to 2 | a logout holds although answers arrive late; a login leads to its own dashboard unless another tab changes the cookie; a deleted account, or the role it had before it was registered again, is authenticated no longer than a token lives |
| `sentinel` | three Sentinels, two instances, quorum 2, two failovers, one restart or expired delay | each votes once in an epoch, restarts included; elections counted in their own epoch have one winner; an advertised address was promoted in its configuration epoch; the epoch of the last vote never goes back |
| `aof` | `always` and `everysec`, fsyncs left out during a rewrite or not, two commands, one rewrite, two switches, one failing call, one end of the process, with fairness | outside the slips the server finds its files, the files hold a past dataset and, while AOF is on, the whole one; what was answered under `always` survives; a waiting AOF comes up and the buffer empties |

Five runs end in a violation, each of a statement the code itself makes:

| run | what happens |
| --- | --- |
| `overlending` | two overlapping borrows of the last copy both succeed |
| `partial_delete` | a deletion answered with an error has deleted the books before the missing one |
| `promised` | `borrow.js` verifies a user and says "Books will be borrowed for User ID: " (62); it then writes the id into the text field of the search form (67 to 70), while the hidden `user_id` field of the borrow form keeps the user the page was rendered with. A single tab that searched for one user and verifies another borrows for the first |
| `two_leaders` | a Sentinel that still waits for the election of an epoch counts the votes of a later one (`sentinel.c` 4803), and is elected for an epoch that has another leader |
| `waitaof` | with `everysec`, an empty buffer and less than a second since the last fsync, `flushAppendOnlyFile` sets the fsynced offset to commands that are written and not synced (`aof.c` 1077); `WAITAOF` answers for them |

Further observations about the library server that have no run of their own:

* Two overlapping registrations can store one username twice, since the look-up
  and the INSERT are two transactions (`AuthService` 36 and 52); afterwards
  neither account can log in. `SharedNameOnlyFromRace` says that besides such a
  race and the add page, which looks nothing up, no request does it.
* A form of the add page that carries the id of a book on loan puts all copies
  back on the shelf. `DriftOnlyFromOverwrite` excepts the book from then on.
* A registration without a role is stored, and the account cannot log in.
* The home page takes the presence of the cookie for a login. The cookie lives
  longer than the token in it.

### Bounds

`MaxList` bounds the ids in a request. Two are enough to repeat an id and to
fail after a success. The limit of three books is beyond the runs; the
refinement theorem covers it for every `MaxList`. Two threads are
enough for every conflict between two transactions; the proofs cover more.
Two tabs are enough for one to change what the other reads. `Ids` bounds the
accounts ever created, and a form without an id is taken only while one is left
for it; `MaxPosts` bounds the forms that get past their first check. Three are
enough for an account, a second writer of it and a race between the two. Totals include zero and a negative number because
no form refuses them. Symmetry is used for ids, names and threads, which are
only compared for equality, and not in the run with a liveness property.

The clock of `Sessions` stops at `MaxTime`. Two ticks are enough for a token to
expire before its cookie; the shipped lives are one hour and one day. Two roles
tell an account from its successor of the same name, which `DeletionBounded`
needs, and two tokens that differ in the role are as good as those of two users
for the other properties, so one name is enough.

`MaxStarts` counts the failovers of all Sentinels. Two let elections of one
epoch and of successive epochs meet; the two leaders of one epoch need a third.
`LongRun` says whether twice `failover_timeout` may pass. The bounds `MaxCommands`, `MaxRewrites`,
`MaxSwitches`, `MaxCrashes` and `MaxFaults` of `Aof` count over a behaviour. Two
commands are enough to lose, repeat or swap one; a single failing call and a
single end of the process already meet at every pair of steps. Two switches turn AOF off and on
again. Symmetry permutes the Sentinels; the instances are not permuted, because
one is the first master.

`CHECK_DEADLOCK FALSE` is set for `Sentinel` and `Aof`: their bounds run out,
and a server whose listed file is missing does not start.

### Fairness

`FairSpec` gives each thread weak fairness on `Serve`: a servlet thread that
has accepted a request keeps running, and InnoDB ends every lock wait by a
grant, a deadlock abort or the timeout. Nothing is assumed of clients.

`FairSpec` of `Aof` gives weak fairness to three things: `beforeSleep` while the
buffer is not empty, since the event loop calls it on every iteration and
`serverCron` wakes the loop; the scheduled rewrite, which `serverCron` tries
until it starts; and the handler of a child, since a child ends and is waited
for. Failures are not fair, and the bound on them stands for the assumption
that system calls work again at some point. The background thread needs no
fairness: a flush is put off for a running fsync for at most two seconds.

## 4. The proofs

TLAPS proves the following for any sets of books, users and threads and any
length of list. The assumptions are those named in `Circulation` (totals are
integers, books and users are finite sets, `MaxList` is a natural number, the
inventory states) and in `Accounts` (a form carries no role, or one of the enumeration).

* `CirculationProofs`, from the inductive invariant `IInv`: `TypeTheorem`,
  `AvailInRangeTheorem` and `NoOrphanLoansTheorem`. `AvailInRange` is not
  inductive: it needs that the copy in every open transaction is in range too,
  between zero and the total the transaction read (`SeenOK`), whatever was
  committed since. `NoOrphanLoans` needs that an uncommitted loan keeps its book
  and user (`SeenOK`), which the locks give, and that each operation has only
  done its own kind of write (`OwnOK`).
* In the same module, `RefinementTheorem`, that `Circulation` implements
  `LoanRegister`, `BorrowOkMeansLentTheorem` and `FailedLoanTheorem`. Each commit
  maps to `Lend`, `TakeBack` or `Withdraw`, every other step of a request to a
  stutter.
* And `DriftTheorem`, from `BalanceInv`. In the eyes of each transaction its copy
  of an untainted book and the loans it sees add up to the total it read; as long
  as the book is not stale these are the loans of the table. The last part of
  the module has the lemmas that count loans.
* `AccountsProofs`: `NoTornProfileTheorem`, `NoMixedIdentityTheorem`,
  `SharedNameTheorem`, `SoleAccountTheorem` and `DeletedStaysDeletedTheorem`, for
  any sets of names, forms, ids and threads. The strengthening is `SaveInv`, a
  request about to save carries a profile and an identity submitted for its
  account, and `ClashInv`, the username of a request that is not late is still
  free.
* `SentinelProofs`: `SentinelType`, `VoteOnce`, `LeaderUnique`,
  `VoteForwardOnly` and `ConfigurationBacked`, for any finite set of Sentinels,
  any quorum and any number of failovers and restarts. `VoteOncePerEpoch` is not
  inductive: it needs that no vote is younger than the last one, that the file
  knows the last one's epoch (`EpochInv`), and that every vote heard or on its
  way was cast (`BallotInv`). For `LeaderUnique`, `ElectionInv` gives each winner
  counted in its own epoch a majority that voted for it, and two majorities
  share a voter. `ConfigInv` says that the configuration in memory and the one
  in the file are both backed by a promotion. The assumptions are those named
  in `Sentinel`.

Only model-checked: `RequestAnswered` and `AofSettles` (liveness under fairness
is out of the prover's reach), the properties of `BorrowDesk` and `Sessions`,
and the safety properties of `Aof`. The latter compare
the concatenation of a list of files with the dataset, which needs induction
over sequences, out of the prover's reach as well.

## 5. Not modelled

* Catalogue. `Circulation` has the INSERT and the replacement of a book. The spreadsheet import is a
  loop of such INSERTs, each a transaction of its own, which stops at the first
  bad row and keeps those before it. Search, listing and images are conversions
  of text and files.
* Fines and loan views: formulas of the due date and the day, evaluated on rows
  `Circulation` maintains. Nothing is stored.
* Rate limiter: the permits are counted by Resilience4j. The filter has no state.
  It is declared as a component and as a bean, so a request passes it twice.
* Composition of `BorrowDesk` with `Circulation`: they meet in one value, the
  borrower, which `Circulation` takes from all users.
* Configuration beans, the Redis and database set-up, error pages and read-only
  lists change no state. `JwtService`, `CustomUserDetailsService` and
  `CustomUserDetails` are reached by no request.
* Redis apart from Sentinel and the append only file: data types, replication,
  cluster, RDB, networking, modules and scripting. It is a program of more than
  150 thousand lines, of which this project covers a small share.
* Of the append only file, two liveness questions: a background fsync that
  failed is not repeated by itself (`bio.c` 316), and a write error in a server
  that waits for its first rewrite is not cleared when the handler empties the
  buffer (`aof.c` 2745). In both cases writes stay refused until something else
  happens, so there is no eventuality to assert.
