--------------------------------- MODULE Aof ---------------------------------
(***************************************************************************)
(* The append only file of Redis: its files (see AofFiles) are written by  *)
(* the main thread, synced by a background thread and replaced by a        *)
(* rewrite whose snapshot a child process saves.                           *)
(*                                                                         *)
(* The dataset is the sequence of the commands applied.  A command's       *)
(* number also stands for the replication offset after it.  Clocks are     *)
(* left out: whether a second has passed since the last fsync, or two      *)
(* since a flush was postponed, is open at every flush.                    *)
(***************************************************************************)
EXTENDS AofFiles

CONSTANTS
  Policies,     \* the values of appendfsync in use
  NoFsyncOnRewrite, \* no-appendfsync-on-rewrite may be set
  MaxCommands,  \* bound: commands clients send
  MaxRewrites,  \* bound: rewrites asked for
  MaxSwitches,  \* bound: CONFIG SET of appendonly or appendfsync
  MaxCrashes,   \* bound: ends of the process
  MaxFaults     \* bound: system calls that fail, children that fail

ASSUME NoFsyncOnRewriteAssumption == NoFsyncOnRewrite \in BOOLEAN

VARIABLES
  srv,      \* the server process, see Started
  disk,     \* the directory: its files, and the manifest
  policy,   \* server.aof_fsync
  issued,   \* the number of the last command: server.master_repl_offset
  replied,  \* history: the last command whose reply was sent, or which waited
            \* for it when a background fsync failed
  acked,    \* history: commands answered after the fsync of "always" and AOF_ON
  slips,    \* history: the known ways to a wrong file that were taken
  used      \* how much of the bounds is used up

vars == <<srv, disk, policy, issued, replied, acked, slips, used>>
history == <<acked, slips>>

Spend(u, what, n) == [u EXCEPT ![what] = @ + n]
Spare(what, n) == used[what] + n <=
  CASE what = "faults" -> MaxFaults [] what = "rewrites" -> MaxRewrites
    [] what = "switches" -> MaxSwitches [] what = "crashes" -> MaxCrashes

-----------------------------------------------------------------------------
(* Flushing.                                                               *)

\* The descriptors of the names in from now belong to the name to.
Moved(s, from, to) ==
  LET now(f) == IF f \in from THEN to ELSE f
  IN  [s EXCEPT !.fd = now(@), !.jobs = [i \in DOMAIN @ |->
                                           [file |-> now(@[i].file), upto |-> @[i].upto,
                                            close |-> @[i].close]]]

Job(f, close) == [file |-> f, upto |-> issued, close |-> close]
aofFsyncInProgress(s) == \E i \in DOMAIN s.jobs : ~s.jobs[i].close
Outcome(s, d, n) == [s |-> s, d |-> d, faults |-> n]
Exit(s) == [s EXCEPT !.pc = "down"]

\* Mutant: "always" leaves the fsync to the background thread.
TryFsyncLater(s, d, due, busy, skip) ==
  {Outcome(IF policy = "always" \/ (due /\ ~busy)
           THEN [s EXCEPT !.jobs = Append(@, Job(s.fd, FALSE)), !.off = s.size]
           ELSE s, d, 0)}

\* no-appendfsync-on-rewrite is set and a child is active, which may also be
\* one that saves an RDB file.
Skips == IF NoFsyncOnRewrite THEN BOOLEAN ELSE {FALSE}

\* The end of flushAppendOnlyFile; due: a second has passed since the last one.
TryFsync(s, d, due, busy, skip) ==
  IF skip THEN {Outcome(s, d, 0)}
  ELSE IF policy = "always"
  THEN {Outcome([s EXCEPT !.off = s.size, !.pending = issued], Synced(d, s.fd), 0),
        Outcome(Exit(s), d, 1)}
  ELSE {Outcome(IF due /\ ~busy
                THEN [s EXCEPT !.jobs = Append(@, Job(s.fd, FALSE)), !.off = s.size]
                ELSE s, d, 0)}

\* flushAppendOnlyFile with an empty buffer.
FlushNothing(s, d, due, busy, skip) ==
  IF s.off # s.size /\ (policy = "always" \/ (due /\ ~busy))
  THEN TryFsync(s, d, due, busy, skip)
  ELSE {Outcome(IF s.off # s.size /\ due THEN s ELSE [s EXCEPT !.pending = issued], d, 0)}

\* The write fails after k commands, and what is written stays.
WriteError(s, d, k) ==
  LET n == IF s.fd = Closed THEN 0 ELSE 1
      e == Appended(d, s.fd, SubSeq(s.buf, 1, k))
  IN  IF policy = "always" THEN Outcome(Exit(s), e, n)
      ELSE Outcome([s EXCEPT !.status = "err", !.size = @ + k,
                             !.buf = SubSeq(@, k + 1, Len(@))], e, n)

WriteBuffer(s, d, due, busy, skip) ==
  LET t == [s EXCEPT !.status = "ok", !.size = @ + Len(s.buf), !.buf = <<>>]
  IN  (IF s.fd = Closed THEN {} ELSE TryFsync(t, Appended(d, s.fd, s.buf), due, busy, skip))
        \cup {WriteError(s, d, k) : k \in IF s.fd = Closed THEN {0} ELSE 0..(Len(s.buf) - 1)}

\* flushAppendOnlyFile: what may become of the server and the disk.
Flush(s, d, force, skip) ==
  LET busy == policy = "everysec" /\ aofFsyncInProgress(s)
  IN  UNION {IF s.buf = <<>> THEN FlushNothing(s, d, due, busy, skip)
             ELSE WriteBuffer(s, d, due, busy, skip)
                    \cup (IF busy /\ ~force THEN {Outcome(s, d, 0)} ELSE {})
               : due \in BOOLEAN}

-----------------------------------------------------------------------------
(* The steps of the main thread.                                           *)

Up == srv.pc = "run"
Spent(n) == /\ Spare("faults", n)
            /\ used' = Spend(used, "faults", n)

\* Mutant: commands beside the first rewrite are not recorded.
CommandOnlyOn ==
  /\ Up /\ issued < MaxCommands
  /\ srv.state # "off" => srv.status = "ok" /\ srv.bio = "ok"
  /\ issued' = issued + 1
  /\ srv' = [srv EXCEPT !.db = Append(@, issued'),
                        !.buf = IF srv.state = "on" THEN Append(@, issued') ELSE @]
  /\ UNCHANGED <<disk, policy, replied, history, used>>

\* A write command, unless writeCommandsDeniedByDiskError; feedAppendOnlyFile.
Command ==
  /\ Up /\ issued < MaxCommands
  /\ srv.state # "off" => srv.status = "ok" /\ srv.bio = "ok"
  /\ issued' = issued + 1
  /\ srv' = [srv EXCEPT !.db = Append(@, issued'),
                        !.buf = IF srv.state = "on" \/ (srv.state = "wait" /\ srv.child.runs)
                                THEN Append(@, issued') ELSE @]
  /\ UNCHANGED <<disk, policy, replied, history, used>>

\* What a flush may lead to; without an AOF there is none.
Flushed(force, skip) ==
  IF srv.state = "off" THEN {Outcome(srv, disk, 0)} ELSE Flush(srv, disk, force, skip)

\* beforeSleep: the buffer is flushed, then the replies are sent.
BeforeSleep ==
  /\ Up
  /\ \E skip \in Skips : \E o \in Flushed(FALSE, skip) :
       LET on == o.s.pc = "run" /\ srv.state = "on"
       IN  /\ srv' = IF on /\ srv.fsynced # -1 THEN [o.s EXCEPT !.fsynced = o.s.pending] ELSE o.s
           /\ disk' = o.d
           /\ replied' = IF o.s.pc = "run" THEN issued ELSE replied
           /\ acked' = acked \cup (IF on /\ policy = "always" /\ ~skip
                                 THEN (replied + 1)..issued ELSE {})
           /\ Spent(o.faults)
  /\ UNCHANGED <<policy, issued, slips>>

\* bioProcessBackgroundJobs
BioJob ==
  /\ srv.pc # "down" /\ srv.jobs # <<>>
  /\ \/ /\ disk' = Synced(disk, Head(srv.jobs).file)
        /\ srv' = [srv EXCEPT !.jobs = Tail(@), !.bio = "ok", !.pending = Head(srv.jobs).upto]
        /\ UNCHANGED <<replied, used>>
     \/ /\ srv' = [srv EXCEPT !.jobs = Tail(@), !.bio = "err"]
        /\ replied' = issued
        /\ Spent(1)
        /\ UNCHANGED disk
  /\ UNCHANGED <<policy, issued, history>>

\* bioDrainWorker; a job that fails has failed before, in BioJob.
Drained(s, d) ==
  LET files == {s.jobs[i].file : i \in DOMAIN s.jobs}
  IN  IF files = {} THEN [s |-> s, d |-> d]
      ELSE [s |-> [s EXCEPT !.jobs = <<>>, !.bio = "ok", !.pending = Last(s.jobs).upto],
            d |-> [d EXCEPT !.dir = [f \in DOMAIN @ |->
                     IF f \in files THEN File(@[f].data) ELSE @[f]]]]

-----------------------------------------------------------------------------
(* Starting a rewrite.                                                     *)

\* The old file goes to the background thread, the new one is written from now.
Switched(s, f, m) ==
  [s EXCEPT !.jobs = IF s.fd = Closed THEN @ ELSE Append(@, Job(s.fd, TRUE)),
            !.fd = f, !.size = 0, !.off = 0, !.man = m]

\* openNewIncrAofForAppend; ok tells whether it succeeds.
OpenNewIncr(s, d) ==
  LET m == NewIncr(s.man)
      result(t, e, n, ok) == [s |-> t, d |-> e, faults |-> n, ok |-> ok]
      fail == {result(s, d, 1, FALSE)}
  IN  CASE s.state = "off" -> {result(s, d, 0, TRUE)}
        [] s.state = "wait" ->
             {result(Switched(s, Temp, s.man), Put(d, Temp, File(<<>>)), 0, TRUE)} \cup fail
        [] s.state = "on" ->
             {result(IF p.ok THEN Switched(s, Incr(m.seq), m) ELSE s, p.d, p.faults, p.ok)
                : p \in Persist(Put(d, Incr(m.seq), File(<<>>)), m)} \cup fail

\* With AOF_WAIT_REWRITE the offsets of the old file are done with.
Settled(s, d) ==
  IF s.state # "wait" THEN [s |-> s, d |-> d]
  ELSE LET r == Drained(s, d)
       IN  [r EXCEPT !.s.pending = issued, !.s.fsynced = 0]

\* rewriteAppendOnlyFileBackground, without another child: flush, open a new
\* file, fork.
RewriteBackground(s, d) ==
  UNION {IF o.s.pc = "down" THEN {[s |-> o.s, d |-> o.d, faults |-> o.faults, ok |-> TRUE]}
         ELSE UNION {IF ~p.ok THEN {[p EXCEPT !.faults = @ + o.faults]}
                     ELSE LET r == Settled(p.s, p.d)
                              n == p.faults + o.faults
                              c == [runs |-> TRUE, snap |-> s.db, late |-> r.s.buf # <<>>,
                                    first |-> s.state = "wait"]
                          IN  {[s |-> [r.s EXCEPT !.child = c, !.scheduled = FALSE],
                                d |-> r.d, faults |-> n, ok |-> TRUE],
                               [s |-> r.s, d |-> r.d, faults |-> n + 1, ok |-> FALSE]}
                       : p \in OpenNewIncr(o.s, o.d)}
           : o \in Flush(s, d, TRUE, FALSE)}

\* The slip of a manifest that was replaced and then taken for not persisted.
Unrecorded(m, saved) == IF saved \notin {m, disk.man} THEN {"dirsync"} ELSE {}

Rewrite ==
  /\ \E r \in RewriteBackground(srv, disk) :
       /\ srv' = r.s /\ disk' = r.d
       /\ Spare("faults", r.faults)
       /\ used' = [used EXCEPT !.faults = @ + r.faults,
                               !.rewrites = @ + IF srv.scheduled THEN 0 ELSE 1]
       /\ slips' = slips \cup Unrecorded(r.s.man, r.d.man)
  /\ UNCHANGED <<policy, issued, replied, acked>>

\* BGREWRITEAOF, or a file that has grown too large; in a transaction or beside
\* another child the rewrite is put off.
BgRewriteAof ==
  /\ Up /\ ~srv.child.runs /\ ~srv.scheduled /\ Spare("rewrites", 1)
  /\ \/ Rewrite
     \/ /\ srv' = [srv EXCEPT !.scheduled = TRUE]
        /\ used' = Spend(used, "rewrites", 1)
        /\ UNCHANGED <<disk, policy, issued, replied, history>>

\* serverCron
ScheduledRewrite == Up /\ ~srv.child.runs /\ srv.scheduled /\ Rewrite

-----------------------------------------------------------------------------
(* CONFIG SET.                                                             *)

\* startAppendOnly; in a transaction, or beside another child, the rewrite is
\* only scheduled.
StartAppendOnly ==
  /\ Up /\ srv.state = "off" /\ Spare("switches", 1)
  /\ LET waiting == [srv EXCEPT !.state = "wait"]
         clean(s) == [s EXCEPT !.status = "ok", !.bio = "ok"]
     IN  \/ /\ srv' = clean([waiting EXCEPT !.scheduled = TRUE])
            /\ used' = Spend(used, "switches", 1)
            /\ UNCHANGED disk
         \/ \E r \in RewriteBackground([waiting EXCEPT !.child = NoChild], disk) :
              /\ srv' = IF r.ok THEN clean(r.s) ELSE [r.s EXCEPT !.state = "off"]
              /\ disk' = r.d
              /\ Spare("faults", r.faults)
              /\ used' = Spend(Spend(used, "switches", 1), "faults", r.faults)
  /\ UNCHANGED <<policy, issued, replied, history>>

\* stopAppendOnly.  A job of the background thread may find its descriptor
\* closed, which is no error.
StopAppendOnly ==
  /\ Up /\ srv.state # "off" /\ Spare("switches", 1)
  /\ \E skip \in Skips, n \in 0..1 : \E o \in Flush(srv, disk, TRUE, skip) :
       /\ srv' = IF o.s.pc = "down" THEN o.s
                 ELSE [Moved(o.s, {o.s.fd}, Gone) EXCEPT
                         !.fd = Closed, !.state = "off", !.scheduled = FALSE, !.size = 0,
                         !.off = 0, !.fsynced = -1, !.pending = 0, !.child = NoChild,
                         !.buf = <<>>]
       /\ disk' = IF o.s.pc = "run" /\ n = 0 THEN Synced(o.d, o.s.fd) ELSE o.d
       /\ Spare("faults", o.faults + n)
       /\ used' = Spend(Spend(used, "switches", 1), "faults", o.faults + n)
  /\ UNCHANGED <<policy, issued, replied, history>>

\* updateAppendFsync.
SetAppendFsync(p) ==
  /\ Up /\ p # policy /\ Spare("switches", 1)
  /\ policy' = p
  /\ LET r == IF p = "always" THEN Drained(srv, disk) ELSE [s |-> srv, d |-> disk]
     IN  srv' = r.s /\ disk' = r.d
  /\ used' = Spend(used, "switches", 1)
  /\ UNCHANGED <<issued, replied, history>>

-----------------------------------------------------------------------------
(* backgroundRewriteDoneHandler, up to each point where the process may end. *)

\* Mutant: a first rewrite that fails is not scheduled again.
CleanupForgetful(s, d) ==
  IF s.state = "wait"
  THEN [s |-> [Moved(s, {Temp}, Gone) EXCEPT !.pc = "run", !.child = NoChild, !.buf = <<>>],
        d |-> Unlink(d, {Temp})]
  ELSE [s |-> [s EXCEPT !.pc = "run", !.child = NoChild], d |-> d]

\* The end of the handler on the server s.
Cleanup(s, d) ==
  IF s.state = "wait"
  THEN [s |-> [Moved(s, {Temp}, Gone) EXCEPT !.pc = "run", !.child = NoChild, !.buf = <<>>,
                                             !.scheduled = TRUE],
        d |-> Unlink(d, {Temp})]
  ELSE [s |-> [s EXCEPT !.pc = "run", !.child = NoChild], d |-> d]

Fail(s, d, n) ==
  /\ srv' = Cleanup(s, d).s /\ disk' = Cleanup(s, d).d
  /\ Spent(n)

NextBase == Base(srv.man.base + 1)
NextIncr == Incr(srv.man.seq + 1)

\* The child exits with an error or by a signal, or its file is not renamed.
RewriteFailed ==
  /\ Up /\ srv.child.runs
  /\ Fail(srv, disk, 1)
  /\ UNCHANGED <<policy, issued, replied, history>>

\* The child's file, which it has synced, becomes the new BASE file.
RenameBase ==
  /\ Up /\ srv.child.runs
  /\ srv' = [srv EXCEPT !.pc = "renamed"]
  /\ disk' = Put(disk, NextBase, File(srv.child.snap))
  /\ UNCHANGED <<policy, issued, replied, history, used>>

\* The temporary INCR file becomes the next INCR file.
RenameIncr ==
  /\ srv.pc = "renamed" /\ srv.state = "wait"
  /\ \/ /\ Temp \in DOMAIN disk.dir
        /\ srv' = [Moved(srv, {Temp}, NextIncr) EXCEPT !.pc = "linked"]
        /\ disk' = Unlink(Put(disk, NextIncr, disk.dir[Temp]), {Temp})
        /\ slips' = slips \cup (IF srv.child.first THEN {} ELSE {"foreign_temp"})
        /\ UNCHANGED used
     \/ /\ Fail(srv, Unlink(disk, {NextBase}), IF Temp \in DOMAIN disk.dir THEN 1 ELSE 0)
        /\ UNCHANGED slips
  /\ UNCHANGED <<policy, issued, replied, acked>>

\* The manifest with the new files is persisted, or they are deleted again.
PersistRewrite ==
  /\ srv.pc = IF srv.state = "wait" THEN "linked" ELSE "renamed"
  /\ LET waits == srv.state = "wait"
         m == Rewritten(IF waits THEN NewIncr(NewBase(srv.man)) ELSE NewBase(srv.man), srv.fd)
         files == {NextBase} \cup (IF waits THEN {NextIncr} ELSE {})
     IN  \E p \in Persist(disk, m) :
           IF p.ok
           THEN /\ srv' = [srv EXCEPT !.pc = "listed", !.man = m]
                /\ disk' = p.d
                /\ slips' = slips \cup (IF srv.child.late THEN {"unflushed"} ELSE {})
                     \cup (IF srv.state = "off" /\ srv.fd # Closed THEN {"orphan_fd"} ELSE {})
                /\ UNCHANGED used
           ELSE /\ Fail(Moved(srv, files, Gone), Unlink(p.d, files), p.faults)
                /\ slips' = slips \cup Unrecorded(srv.man, p.d.man)
  /\ UNCHANGED <<policy, issued, replied, acked>>

\* aofDelHistoryFiles.  The list is empty afterwards even if that is not saved.
Collected(s, d) ==
  LET m == [s.man EXCEPT !.hist = {}]
  IN  IF s.man.hist = {} THEN {Outcome(s, d, 0)}
      ELSE {Outcome([Moved(s, s.man.hist, Gone) EXCEPT !.man = m], p.d, p.faults)
              : p \in Persist(Unlink(d, s.man.hist), m)}

\* The old files are deleted and AOF_WAIT_REWRITE ends.
RewriteDone ==
  /\ srv.pc = "listed"
  /\ \E o \in Collected(srv, disk) :
       /\ srv' = Cleanup(IF srv.state = "wait"
                         THEN [o.s EXCEPT !.state = "on", !.fsynced = srv.pending]
                         ELSE o.s, o.d).s
       /\ disk' = o.d
       /\ Spent(o.faults)
  /\ UNCHANGED <<policy, issued, replied, history>>

-----------------------------------------------------------------------------
(* The end of the process and its next start.                              *)

\* finishShutdown: the buffer is written and synced, and a failed sync is only
\* logged; while the first AOF is being written the server does not stop.
Shutdown ==
  /\ Up /\ Spare("crashes", 1)
  /\ ~(srv.state = "wait" /\ srv.child.runs)
  /\ \E skip \in Skips, n \in 0..1 : \E o \in Flushed(TRUE, skip) :
       /\ srv' = Exit(o.s)
       /\ disk' = IF o.s.pc = "run" /\ srv.state # "off" /\ n = 0 THEN Synced(o.d, o.s.fd) ELSE o.d
       /\ Spare("faults", o.faults + n)
       /\ used' = Spend(Spend(used, "crashes", 1), "faults", o.faults + n)
  /\ UNCHANGED <<policy, issued, replied, history>>

\* The process is killed: what it has written stays.
Killed ==
  /\ srv.pc # "down" /\ Spare("crashes", 1)
  /\ srv' = Exit(srv)
  /\ used' = Spend(used, "crashes", 1)
  /\ UNCHANGED <<disk, policy, issued, replied, history>>

\* The machine loses power: a file keeps what is synced and part of the rest.
\* The cut may be within a command; in the last file the next start truncates
\* it, which leaves what a cut before the command does.
PowerLoss ==
  /\ srv.pc # "down" /\ Spare("crashes", 1)
  /\ srv' = Exit(srv)
  /\ \E kept \in [DOMAIN disk.dir -> 0..MaxCommands] :
       /\ \A f \in DOMAIN kept : kept[f] \in disk.dir[f].synced..Len(disk.dir[f].data)
       /\ LET cut == {f \in Inner(disk.man) \cap DOMAIN kept : kept[f] < Len(disk.dir[f].data)}
          IN  \E torn \in SUBSET cut :
                /\ disk' = [disk EXCEPT !.torn = torn, !.dir = [f \in DOMAIN @ |->
                              File(SubSeq(@[f].data, 1, kept[f]))]]
                /\ slips' = slips \cup (IF cut # {} THEN {"gap"} ELSE {})
                                  \cup (IF torn # {} THEN {"torn"} ELSE {})
  /\ used' = Spend(used, "crashes", 1)
  /\ UNCHANGED <<policy, issued, replied, acked>>

\* A server that has just loaded the files of the manifest m.
Started(m, d) ==
  [pc |-> "run", state |-> "on", scheduled |-> FALSE, child |-> NoChild,
   man |-> m, fd |-> Incr(Last(m.incr)), buf |-> <<>>,
   size |-> Len(d.dir[Incr(Last(m.incr))].data),  \* aof_last_incr_size
   off |-> Len(d.dir[Incr(Last(m.incr))].data),   \* aof_last_incr_fsync_offset
   jobs |-> <<>>,       \* of the background thread, in order
   pending |-> 0,       \* fsynced_reploff_pending
   fsynced |-> 0,       \* fsynced_reploff
   status |-> "ok",     \* aof_last_write_status
   bio |-> "ok",        \* aof_bio_fsync_status
   db |-> Replay(d)]

\* aofLoadManifestFromFile: the sequence number comes from the INCR lines.
LoadManifest(m) == [m EXCEPT !.seq = IF m.incr = <<>> THEN 0 ELSE Last(m.incr)]

\* main: the manifest and its files are loaded, the last INCR file is opened or
\* created, and the history files are deleted.  CONFIG REWRITE may have saved
\* appendfsync or not.
Restart ==
  /\ srv.pc = "down" /\ Loadable(disk)
  /\ LET old == LoadManifest(disk.man)
         m == IF old.incr = <<>> THEN NewIncr(old) ELSE old
         f == Incr(Last(m.incr))
         d == [IF f \in DOMAIN disk.dir THEN disk ELSE Put(disk, f, File(<<>>))
                 EXCEPT !.man = m]
         s == [Started(m, d) EXCEPT !.db = Replay(disk)]
     IN  /\ \E o \in Collected(s, d) : srv' = o.s /\ disk' = o.d /\ Spent(o.faults)
         /\ slips' = slips \cup (IF f \in m.hist THEN {"name_reused"} ELSE {})
  /\ replied' = issued /\ policy' \in Policies
  /\ UNCHANGED <<issued, acked>>

-----------------------------------------------------------------------------
\* The server has started with appendonly yes and an empty directory.
Init ==
  LET m == [base |-> 1, incr |-> <<1>>, hist |-> {}, seq |-> 1]
  IN  /\ disk = [man |-> m, dir |-> [f \in {Base(1), Incr(1)} |-> File(<<>>)], torn |-> {}]
      /\ srv = Started(m, disk)
      /\ policy \in Policies
      /\ issued = 0 /\ replied = 0
      /\ acked = {} /\ slips = {}
      /\ used = [faults |-> 0, rewrites |-> 0, switches |-> 0, crashes |-> 0]

Handler == RenameBase \/ RenameIncr \/ PersistRewrite \/ RewriteDone

Next ==
  \/ Command \/ BeforeSleep \/ BioJob \/ BgRewriteAof \/ ScheduledRewrite
  \/ StartAppendOnly \/ StopAppendOnly
  \/ \E p \in Policies : SetAppendFsync(p)
  \/ RewriteFailed \/ Handler
  \/ Shutdown \/ Killed \/ PowerLoss \/ Restart

Spec == Init /\ [][Next]_vars

\* The event loop, its timer and the child go on.
FairSpec == Spec /\ WF_vars(srv.buf # <<>> /\ BeforeSleep)
                 /\ WF_vars(ScheduledRewrite) /\ WF_vars(Handler)

-----------------------------------------------------------------------------
(* Properties.                                                             *)

\* Whatever fails or is killed, and at whichever step of a rewrite, the server
\* starts again: it finds all the files its manifest lists, and none but the
\* last is truncated.  The exceptions: a manifest that was replaced before the
\* sync of the directory failed, a new INCR file that takes the name of one
\* still to be deleted, and a loss of power that cuts a command of the previous
\* INCR file in two before the background thread has synced it.
StartsAgain == slips \cap (Fatal \cup {"torn"}) = {} => Loadable(disk)

\* What the files hold is at every moment a dataset the server has had: no
\* command is missing before one that is there, and none is there twice.
ReplayIsPast == slips = {} => IsPrefix(Replay(disk), srv.db)

\* While the AOF is on, the files and the buffer hold exactly the dataset,
\* unless a rewrite was started on a buffer that could not be flushed.
ReplayIsDataset ==
  Up /\ srv.state = "on" /\ slips \cap (Fatal \cup {"unflushed", "foreign_temp"}) = {} =>
    Replay(disk) \o srv.buf = srv.db

\* A command that was answered under "always", the fsync not left out for
\* no-appendfsync-on-rewrite, is durable from then on, through every crash and
\* loss of power, rewrites, their failures, and changes of appendonly and
\* appendfsync, also when it came before appendfsync was changed and a
\* background fsync did not fail in between.  The exceptions are the ones above, and a first
\* AOF that was made by a rewrite from before AOF_WAIT_REWRITE, whose INCR file
\* lacks the commands in between.
AckedSurvives == slips \cap (Fatal \cup {"foreign_temp"}) = {} => acked \subseteq Durable(disk)

\* serverCron, the handler and beforeSleep: once no more commands and failures
\* come, a server that waits for its first rewrite has its AOF, however the
\* rewrite failed before, and no command is left in the buffer.
AofSettles == []<>(srv.pc = "down" \/ (srv.state # "wait" /\ srv.buf = <<>>))

\* flushAppendOnlyFile's comment: what fsynced_reploff_pending covers is on the
\* disk, so a command up to fsynced_reploff, for which WAITAOF answers, is.
FsyncedIsDurable ==
  Up /\ srv.state = "on" => {c \in Range(srv.db) : c <= srv.fsynced} \subseteq Durable(disk)
=============================================================================
