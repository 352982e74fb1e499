------------------------------- MODULE AofFiles -------------------------------
(***************************************************************************)
(* The files of the append only file of Redis: a BASE file with a snapshot *)
(* of the dataset, INCR files with the commands since, and the manifest    *)
(* that lists them.  A directory d holds the files by name, d.dir, the     *)
(* manifest as it is saved, d.man, and the names d.torn of the listed      *)
(* files, but the last, that end within a command.                         *)
(*                                                                         *)
(* Commands are numbers.  Operations on the directory are durable at once  *)
(* and in order; the data of a file is durable up to its last fsync.       *)
(***************************************************************************)
EXTENDS Integers, Sequences, FiniteSets, Functions

\* SequencesExt has these too, but with the theorems of Bags, which each step of
\* a proof would carry along.
Last(s) == s[Len(s)]
Front(s) == SubSeq(s, 1, Len(s) - 1)
IsPrefix(s, t) == Len(s) <= Len(t) /\ SubSeq(s, 1, Len(s)) = SubSeq(t, 1, Len(s))
Concatenated(ss) ==
  LET upto[i \in 1..Len(ss)] == IF i = 1 THEN ss[i] ELSE upto[i - 1] \o ss[i]
  IN  upto[Len(ss)]

Base(n) == <<"base", n>>
Incr(n) == <<"incr", n>>
Temp == <<"temp", 0>>    \* the temporary INCR file of AOF_WAIT_REWRITE
Closed == <<"closed", 0>> \* no file descriptor
Gone == <<"gone", 0>>    \* a descriptor of a file that has no name any more

\* The child process: the snapshot it saves, and as a history whether it was
\* started on a buffer that could not be flushed (late), and whether it was
\* started by AOF_WAIT_REWRITE (first).
NoChild == [runs |-> FALSE, snap |-> <<>>, late |-> FALSE, first |-> FALSE]

-----------------------------------------------------------------------------
(* Files.                                                                  *)

File(cmds) == [data |-> cmds, synced |-> Len(cmds)]
Put(d, f, file) == [d EXCEPT !.dir = [g \in DOMAIN @ \cup {f} |-> IF g = f THEN file ELSE @[g]]]
Unlink(d, names) == [d EXCEPT !.dir = [g \in DOMAIN @ \ names |-> @[g]]]
Appended(d, f, cmds) == IF f \in DOMAIN d.dir THEN [d EXCEPT !.dir[f].data = @ \o cmds] ELSE d
Synced(d, f) ==
  IF f \in DOMAIN d.dir THEN [d EXCEPT !.dir[f].synced = Len(d.dir[f].data)] ELSE d

-----------------------------------------------------------------------------
(* The manifest.                                                           *)

\* Mutant: the new BASE file gets the number of the old one.
NewBaseSameName(m) == [m EXCEPT !.hist = @ \cup {Base(m.base)}]

\* Mutant: the INCR files that were rewritten stay in the list.
RewrittenKept(m, fd) == m

\* getNewIncrAofName, getNewBaseFileNameAndMarkPreAsHistory and
\* markRewrittenIncrAofAsHistory.
NewIncr(m) == [m EXCEPT !.incr = Append(@, m.seq + 1), !.seq = @ + 1]
NewBase(m) == [m EXCEPT !.base = @ + 1, !.hist = @ \cup {Base(m.base)}]
Rewritten(m, fd) ==
  LET n == IF fd # Closed /\ m.incr # <<>> THEN Len(m.incr) - 1 ELSE Len(m.incr)
  IN  [m EXCEPT !.incr = SubSeq(@, n + 1, Len(@)),
                !.hist = @ \cup {Incr(m.incr[i]) : i \in 1..n}]

\* persistAofManifest: it may fail before or after the manifest is replaced.
Persist(d, m) ==
  {[d |-> [d EXCEPT !.man = m], ok |-> TRUE, faults |-> 0],
   [d |-> d, ok |-> FALSE, faults |-> 1],
   [d |-> [d EXCEPT !.man = m], ok |-> FALSE, faults |-> 1]}

Listed(m) == <<Base(m.base)>> \o [i \in DOMAIN m.incr |-> Incr(m.incr[i])]

\* The listed files that another one follows.
Inner(m) == Range(Front(Listed(m)))

\* loadAppendOnlyFiles succeeds: no listed file is missing, and none but the
\* last, which would be truncated, ends within a command.
Loadable(d) == Range(Listed(d.man)) \subseteq DOMAIN d.dir /\ d.torn \cap Inner(d.man) = {}

\* loadAppendOnlyFiles: the commands of all listed files in order.
Replay(d) ==
  Concatenated([i \in DOMAIN Listed(d.man) |-> d.dir[Listed(d.man)[i]].data])
\* What of it no loss of power can take away.
Durable(d) ==
  UNION {LET f == d.dir[Listed(d.man)[i]]
         IN  Range(SubSeq(f.data, 1, f.synced)) : i \in DOMAIN Listed(d.man)}

-----------------------------------------------------------------------------
\* The slips after which a listed file may be missing: a manifest that was
\* replaced before the sync of the directory failed, and a new INCR file that
\* took the name of one still to be deleted.
Fatal == {"dirsync", "name_reused"}
=============================================================================
