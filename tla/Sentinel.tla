------------------------------ MODULE Sentinel ------------------------------
(***************************************************************************)
(* Redis Sentinel: the processes that watch one master, elect a leader for *)
(* a failover and spread the address of the new master.                    *)
(*                                                                         *)
(* Whether an instance is down, reachable, sane or late is a judgement     *)
(* about elapsed time.  The environment decides it here: a failover may    *)
(* start, be given up or end at any moment the other conditions of the     *)
(* code allow.  The one delay that orders elections, twice                 *)
(* failover_timeout after a start or a vote, is the flag delayed.  Every   *)
(* Sentinel knows all the others.  Requests for a vote and their answers   *)
(* are never consumed: they may be lost, late, repeated or overtaken.  A   *)
(* hello message arrives with the state its sender has, or not at all.     *)
(***************************************************************************)
EXTENDS Integers, FiniteSets

CONSTANTS
  Sentinels,    \* the run ids of the Sentinels
  Instances,    \* the addresses of the Redis servers of the group
  FirstMaster,  \* the address in the sentinel monitor line
  Quorum,       \* the quorum in the sentinel monitor line
  Nobody,       \* the NULL leader and the NULL promoted slave
  MaxStarts,    \* bound: failovers started
  MaxIncidents, \* bound: restarts of a Sentinel and delays that run out
  LongRun       \* may more than twice failover_timeout pass?

ASSUME SentinelsAssumption == IsFiniteSet(Sentinels) /\ Nobody \notin Sentinels
ASSUME InstancesAssumption == FirstMaster \in Instances /\ Nobody \notin Instances
ASSUME QuorumAssumption == Quorum \in Nat
ASSUME LongRunAssumption == LongRun \in BOOLEAN

VARIABLES
  epoch,        \* sentinel.current_epoch
  vote,         \* master->leader and master->leader_epoch
  conf,         \* master->config_epoch and master->addr
  fo,           \* master->failover_state, failover_epoch, promoted_slave
  heard,        \* leader and leader_epoch of each other Sentinel's last answer
  delayed,      \* failover_start_time forbids to start a failover
  disk,         \* what the configuration file holds
  asks,         \* sent: requests for a vote
  answers,      \* sent: their answers
  votes,        \* history: every vote cast
  elected,      \* history: elections won, with the winner's current epoch then
  promotions,   \* history: the address promoted in each epoch
  crossed,      \* history: configuration epochs a leader took over as its own
  starts, incidents  \* how much of the bounds is used up

sent == <<asks, answers>>
used == <<starts, incidents>>
history == <<votes, elected, promotions, crossed>>
vars == <<epoch, vote, conf, fo, heard, delayed, disk, sent, history, used>>

Others(s) == Sentinels \ {s}
NoVote == [leader |-> Nobody, epoch |-> 0]
NoFailover == [state |-> "none", epoch |-> 0, promoted |-> Nobody]
Larger(m, n) == IF m < n THEN n ELSE m

\* sentinelGetCurrentMasterAddress
CurrentMasterAddress(c, f) == IF f.state = "reconf_slaves" THEN f.promoted ELSE c.addr

\* Mutant: the file keeps the address of the old master during a failover.
SavedOldAddress(cur, v, c, f) == [epoch |-> cur, voted |-> v.epoch, conf |-> c]

\* Mutant: the epoch of the last vote is not saved.
SavedWithoutVote(cur, v, c, f) ==
  [epoch |-> cur, voted |-> 0,
   conf |-> [epoch |-> c.epoch, addr |-> CurrentMasterAddress(c, f)]]

\* sentinelFlushConfig: what the file keeps of a Sentinel's state.  The leader
\* it voted for is not kept.
Saved(cur, v, c, f) ==
  [epoch |-> cur, voted |-> v.epoch,
   conf |-> [epoch |-> c.epoch, addr |-> CurrentMasterAddress(c, f)]]

-----------------------------------------------------------------------------
(* The election.                                                           *)

\* Mutant: a second request of the epoch changes the vote.
VoteLeaderAgain(v, cur, e, c) ==
  IF v.epoch <= e /\ cur <= e THEN [leader |-> c, epoch |-> cur] ELSE v

\* sentinelVoteLeader: the vote of a Sentinel with vote v and epoch cur (the
\* requested epoch e included) when it is asked to vote for c in epoch e.
VoteLeader(v, cur, e, c) ==
  IF v.epoch < e /\ cur <= e THEN [leader |-> c, epoch |-> cur] ELSE v

\* The vote v of s as an element of votes.
Cast(s, v) == IF v.leader = Nobody THEN {}
              ELSE {[voter |-> s, epoch |-> v.epoch, leader |-> v.leader]}

\* The other Sentinels that s counts for c when its current epoch is cur.
For(s, cur, c) == {t \in Others(s) : heard[s][t] = [leader |-> c, epoch |-> cur]}
Tally(s, cur, c) == Cardinality(For(s, cur, c))

\* The candidates with the most counted votes; the order of a dictionary
\* decides between them.
Front(s, cur) ==
  {c \in Sentinels : Tally(s, cur, c) > 0
                     /\ \A d \in Sentinels : Tally(s, cur, d) <= Tally(s, cur, c)}

\* Mutant: half of the Sentinels are enough, and the quorum is not asked for.
WinsWithHalf(s, cur, e, c, v) ==
  LET most == IF Front(s, cur) = {} THEN 0 ELSE Tally(s, cur, c)
      own == Tally(s, cur, v.leader) + 1
      overtakes == v.leader # Nobody /\ v.epoch = e /\ own > most
      winner == IF overtakes THEN v.leader ELSE c
  IN  winner = s /\ (IF overtakes THEN own ELSE most) >= Cardinality(Sentinels) \div 2

\* The end of sentinelGetLeader: is s the leader of epoch e when c led the
\* count, if anybody did, and v is the vote of s?
Wins(s, cur, e, c, v) ==
  LET most == IF Front(s, cur) = {} THEN 0 ELSE Tally(s, cur, c)
      own == Tally(s, cur, v.leader) + 1
      overtakes == v.leader # Nobody /\ v.epoch = e /\ own > most
      winner == IF overtakes THEN v.leader ELSE c
      n == IF overtakes THEN own ELSE most
  IN  winner = s /\ n >= Cardinality(Sentinels) \div 2 + 1 /\ n >= Quorum

\* sentinelFailoverWaitStart for s at epoch cur with the failover f; losers is
\* what may become of f when s is not elected.
WaitStart(s, cur, f, losers) ==
  \E c \in IF Front(s, cur) = {} THEN {s} ELSE Front(s, cur) :
    LET v == VoteLeader(vote[s], cur, f.epoch, c)
        won == Wins(s, cur, f.epoch, c, v)
    IN  /\ epoch' = [epoch EXCEPT ![s] = cur]
        /\ vote' = [vote EXCEPT ![s] = v]
        /\ \E g \in IF won THEN {[f EXCEPT !.state = "select_slave"]} ELSE losers :
             fo' = [fo EXCEPT ![s] = g]
        /\ disk' = IF v = vote[s] THEN disk
                   ELSE [disk EXCEPT ![s] = Saved(cur, v, conf[s], f)]
        /\ votes' = votes \cup Cast(s, v)
        /\ elected' = elected \cup
             (IF won THEN {[leader |-> s, epoch |-> f.epoch, at |-> cur]} ELSE {})
        /\ UNCHANGED <<conf, heard, promotions, crossed>>

Ask(s, cur) == asks' = asks \cup {[from |-> s, epoch |-> cur, addr |-> conf[s].addr]}

\* sentinelStartFailoverIfNeeded on a master that is objectively down.  The
\* same call of the timer asks everybody and takes the first step of the
\* state machine.
StartFailoverIfNeeded(s) ==
  LET f == [state |-> "wait_start", epoch |-> epoch[s] + 1, promoted |-> Nobody]
  IN  /\ fo[s].state = "none"
      /\ ~delayed[s]
      /\ starts < MaxStarts /\ starts' = starts + 1
      /\ WaitStart(s, epoch[s] + 1, f, {f})
      /\ delayed' = [delayed EXCEPT ![s] = TRUE]
      /\ Ask(s, epoch[s] + 1)
      /\ UNCHANGED <<answers, incidents>>

\* The timer in state WAIT_START: the election may have timed out.
FailoverWaitStart(s) ==
  /\ fo[s].state = "wait_start"
  /\ WaitStart(s, epoch[s], fo[s], {fo[s], NoFailover})
  /\ UNCHANGED <<delayed, sent, used>>

\* sentinelAskMasterStateToOtherSentinels in a failover.
AskForVotes(s) ==
  /\ fo[s].state # "none"
  /\ Ask(s, epoch[s])
  /\ UNCHANGED <<epoch, vote, conf, fo, heard, delayed, disk, answers, history, used>>

\* SENTINEL IS-MASTER-DOWN-BY-ADDR with a run id, about the master t watches.
IsMasterDownByAddr(t, m) ==
  LET cur == Larger(epoch[t], m.epoch)
      v == VoteLeader(vote[t], cur, m.epoch, m.from)
  IN  /\ t # m.from /\ m.addr = conf[t].addr
      /\ epoch' = [epoch EXCEPT ![t] = cur]
      /\ vote' = [vote EXCEPT ![t] = v]
      /\ delayed' = [delayed EXCEPT ![t] = delayed[t] \/ v # vote[t]]
      /\ disk' = IF cur = epoch[t] /\ v = vote[t] THEN disk
                 ELSE [disk EXCEPT ![t] = Saved(cur, v, conf[t], fo[t])]
      /\ votes' = votes \cup Cast(t, v)
      /\ answers' = answers \cup {[to |-> m.from, from |-> t, vote |-> v]}
      /\ UNCHANGED <<conf, fo, heard, asks, elected, promotions, crossed, used>>

\* sentinelReceiveIsMasterDownReply, when the answer carries a vote.  An answer
\* that the code drops later because it is too old counts as lost.
ReceiveIsMasterDownReply(m) ==
  /\ m.vote.leader # Nobody /\ m.vote # heard[m.to][m.from]
  /\ heard' = [heard EXCEPT ![m.to][m.from] = m.vote]
  /\ UNCHANGED <<epoch, vote, conf, fo, delayed, disk, sent, history, used>>

\* Twice failover_timeout has passed since the last start or vote.
DelayOver(s) ==
  /\ LongRun
  /\ delayed[s] /\ fo[s].state = "none"
  /\ incidents < MaxIncidents /\ incidents' = incidents + 1
  /\ delayed' = [delayed EXCEPT ![s] = FALSE]
  /\ UNCHANGED <<epoch, vote, conf, fo, heard, disk, sent, history, starts>>

-----------------------------------------------------------------------------
(* The failover.                                                           *)

FailoverStep(s, f) ==
  /\ fo' = [fo EXCEPT ![s] = f]
  /\ UNCHANGED <<epoch, vote, conf, heard, delayed, disk, sent, history, used>>

\* sentinelAbortFailover: no good slave, or a slave that is not promoted in time.
AbortFailover(s) ==
  /\ fo[s].state \in {"select_slave", "send_slaveof_noone", "wait_promotion"}
  /\ FailoverStep(s, NoFailover)

\* Mutant: the selected slave is not recorded.
FailoverSelectNobody(s) ==
  /\ fo[s].state = "select_slave"
  /\ FailoverStep(s, [fo[s] EXCEPT !.state = "send_slaveof_noone"])

\* sentinelFailoverSelectSlave; health, priority and offset are left open.
FailoverSelectSlave(s) ==
  /\ fo[s].state = "select_slave"
  /\ \E i \in Instances \ {conf[s].addr} :
       FailoverStep(s, [fo[s] EXCEPT !.state = "send_slaveof_noone", !.promoted = i])

FailoverSendSlaveOfNoOne(s) ==
  /\ fo[s].state = "send_slaveof_noone"
  /\ FailoverStep(s, [fo[s] EXCEPT !.state = "wait_promotion"])

\* sentinelRefreshInstanceInfo: the promoted slave reports that it is a master.
PromotedSlave(s) ==
  /\ fo[s].state = "wait_promotion"
  /\ conf' = [conf EXCEPT ![s].epoch = fo[s].epoch]
  /\ fo' = [fo EXCEPT ![s].state = "reconf_slaves"]
  /\ disk' = [disk EXCEPT ![s] = Saved(epoch[s], vote[s], conf'[s], fo'[s])]
  /\ promotions' = promotions \cup {[epoch |-> fo[s].epoch, addr |-> fo[s].promoted]}
  /\ UNCHANGED <<epoch, vote, heard, delayed, sent, votes, elected, crossed, used>>

\* sentinelResetMasterAndChangeAddress at epoch cur, to the address a with the
\* configuration epoch e.
ResetMasterAndChangeAddress(s, cur, e, a) ==
  /\ conf' = [conf EXCEPT ![s] = [epoch |-> e, addr |-> a]]
  /\ vote' = [vote EXCEPT ![s].leader = Nobody]
  /\ fo' = [fo EXCEPT ![s] = NoFailover]
  /\ delayed' = [delayed EXCEPT ![s] = FALSE]
  /\ disk' = [disk EXCEPT ![s] = Saved(cur, vote[s], conf'[s], NoFailover)]

\* sentinelFailoverDetectEnd found the slaves reconfigured, or timed out; the
\* timer ends with sentinelFailoverSwitchToPromotedSlave.
FailoverEnd(s) ==
  /\ fo[s].state = "reconf_slaves"
  /\ ResetMasterAndChangeAddress(s, epoch[s], conf[s].epoch, fo[s].promoted)
  /\ UNCHANGED <<epoch, heard, sent, history, used>>

\* sentinelSendHello
Hello(s) == [epoch |-> epoch[s], conf |-> conf[s].epoch,
             addr |-> CurrentMasterAddress(conf[s], fo[s])]

\* sentinelProcessHelloMessage.  The current epoch is saved before the new
\* configuration epoch is known, and the latter only with a new address.
ProcessHelloMessage(t, m) ==
  LET cur == Larger(epoch[t], m.epoch)
      newer == conf[t].epoch < m.conf
  IN  /\ newer \/ cur > epoch[t]
      /\ epoch' = [epoch EXCEPT ![t] = cur]
      /\ \/ /\ newer /\ m.addr # conf[t].addr
            /\ ResetMasterAndChangeAddress(t, cur, m.conf, m.addr)
            /\ UNCHANGED crossed
         \/ /\ ~(newer /\ m.addr # conf[t].addr)
            /\ conf' = [conf EXCEPT ![t].epoch = Larger(conf[t].epoch, m.conf)]
            /\ disk' = IF cur = epoch[t] THEN disk
                       ELSE [disk EXCEPT ![t] = Saved(cur, vote[t], conf[t], fo[t])]
            /\ crossed' = crossed \cup
                 (IF newer /\ fo[t].state = "reconf_slaves" THEN {m.conf} ELSE {})
            /\ UNCHANGED <<vote, fo, delayed>>
      /\ UNCHANGED <<heard, sent, votes, elected, promotions, used>>

\* A Sentinel dies and reads its configuration file again.
Restart(s) ==
  /\ incidents < MaxIncidents /\ incidents' = incidents + 1
  /\ epoch' = [epoch EXCEPT ![s] = Larger(disk[s].epoch, disk[s].conf.epoch)]
  /\ vote' = [vote EXCEPT ![s] = [leader |-> Nobody, epoch |-> disk[s].voted]]
  /\ conf' = [conf EXCEPT ![s] = disk[s].conf]
  /\ fo' = [fo EXCEPT ![s] = NoFailover]
  /\ heard' = [heard EXCEPT ![s] = [t \in Sentinels |-> NoVote]]
  /\ delayed' = [delayed EXCEPT ![s] = FALSE]
  /\ UNCHANGED <<disk, sent, history, starts>>

-----------------------------------------------------------------------------
Init ==
  LET c == [epoch |-> 0, addr |-> FirstMaster]
  IN  /\ epoch = [s \in Sentinels |-> 0]
      /\ vote = [s \in Sentinels |-> NoVote]
      /\ conf = [s \in Sentinels |-> c]
      /\ fo = [s \in Sentinels |-> NoFailover]
      /\ heard = [s \in Sentinels |-> [t \in Sentinels |-> NoVote]]
      /\ delayed = [s \in Sentinels |-> FALSE]
      /\ disk = [s \in Sentinels |-> Saved(0, NoVote, c, NoFailover)]
      /\ asks = {} /\ answers = {}
      /\ votes = {} /\ elected = {} /\ promotions = {} /\ crossed = {}
      /\ starts = 0 /\ incidents = 0

Next ==
  \/ \E s \in Sentinels :
       \/ StartFailoverIfNeeded(s) \/ FailoverWaitStart(s) \/ AskForVotes(s)
       \/ DelayOver(s) \/ AbortFailover(s) \/ FailoverSelectSlave(s)
       \/ FailoverSendSlaveOfNoOne(s) \/ PromotedSlave(s) \/ FailoverEnd(s)
       \/ Restart(s)
       \/ \E m \in asks : IsMasterDownByAddr(s, m)
       \/ \E t \in Others(s) : ProcessHelloMessage(s, Hello(t))
  \/ \E m \in answers : ReceiveIsMasterDownReply(m)

Spec == Init /\ [][Next]_vars

-----------------------------------------------------------------------------
(* Properties.                                                             *)

Vote == [leader : Sentinels \cup {Nobody}, epoch : Nat]
Configuration == [epoch : Nat, addr : Instances]
SavedState == [epoch : Nat, voted : Nat, conf : Configuration]
Failover ==
  [state : {"none", "wait_start", "select_slave"}, epoch : Nat, promoted : {Nobody}]
    \cup [state : {"send_slaveof_noone", "wait_promotion", "reconf_slaves"},
          epoch : Nat, promoted : Instances]

\* Every variable has the shape the C structures give it; a promoted slave is
\* known from SEND_SLAVEOF_NOONE on.
TypeOK ==
  /\ epoch \in [Sentinels -> Nat]
  /\ vote \in [Sentinels -> Vote]
  /\ conf \in [Sentinels -> Configuration]
  /\ fo \in [Sentinels -> Failover]
  /\ heard \in [Sentinels -> [Sentinels -> Vote]]
  /\ delayed \in [Sentinels -> BOOLEAN]
  /\ disk \in [Sentinels -> SavedState]
  /\ asks \subseteq [from : Sentinels, epoch : Nat, addr : Instances]
  /\ answers \subseteq [to : Sentinels, from : Sentinels, vote : Vote]
  /\ votes \subseteq [voter : Sentinels, epoch : Nat, leader : Sentinels]
  /\ elected \subseteq [leader : Sentinels, epoch : Nat, at : Nat]
  /\ promotions \subseteq [epoch : Nat, addr : Instances]
  /\ crossed \subseteq Nat
  /\ starts \in Nat /\ incidents \in Nat

\* sentinelVoteLeader: a Sentinel never votes for two leaders in one epoch,
\* whatever requests reach it and whenever it restarts.
VoteOncePerEpoch ==
  \A v, w \in votes : v.voter = w.voter /\ v.epoch = w.epoch => v.leader = w.leader

\* sentinelGetLeader: two Sentinels that were elected in the same epoch, each
\* before its current epoch moved on, are the same.
UndisturbedLeaderUnique ==
  \A a, b \in elected :
    a.epoch = b.epoch /\ a.at = a.epoch /\ b.at = b.epoch => a.leader = b.leader

\* sentinelGetLeader's comment: a leader of an epoch has the majority of the
\* votes of that epoch, so no epoch has two leaders.
OneLeaderPerEpoch ==
  \A a, b \in elected : a.epoch = b.epoch => a.leader = b.leader

\* The address a Sentinel advertises for a configuration epoch is one that a
\* leader saw promoted in that epoch, after any exchange of hello messages,
\* aborted failover or restart.  Excepted are the epochs that a leader with a
\* promoted slave of its own took over from another's hello message.
ConfigurationWasWon ==
  \A s \in Sentinels :
    conf[s].epoch \notin crossed \cup {0} =>
      [epoch |-> conf[s].epoch, addr |-> CurrentMasterAddress(conf[s], fo[s])] \in promotions

\* The epoch of a Sentinel's last vote never goes back, not even when it
\* restarts from its configuration file.
VoteEpochNeverBack == [][\A s \in Sentinels : vote'[s].epoch >= vote[s].epoch]_vars
=============================================================================
