--------------------------- MODULE SentinelProofs ---------------------------
(***************************************************************************)
(* Proofs about Sentinel, for any finite set of Sentinels, any quorum and  *)
(* any number of starts, restarts and delays.                              *)
(***************************************************************************)
EXTENDS Sentinel, FiniteSetTheorems, TLAPS

\* The last vote of a Sentinel is among its votes, none is younger, and
\* whatever another Sentinel has heard or will hear of it is one of them.
BallotInv ==
  /\ VoteOncePerEpoch
  /\ \A s \in Sentinels : Cast(s, vote[s]) \subseteq votes
  /\ \A v \in votes : v.epoch <= vote[v.voter].epoch
  /\ \A s, t \in Sentinels : Cast(t, heard[s][t]) \subseteq votes
  /\ \A m \in answers : Cast(m.from, m.vote) \subseteq votes

\* No epoch of a vote or a failover is ahead of the current epoch, and the
\* file knows the epoch of the last vote.
EpochInv ==
  \A s \in Sentinels :
    /\ vote[s].epoch <= epoch[s]
    /\ fo[s].state # "none" => fo[s].epoch <= epoch[s]
    /\ disk[s].voted = vote[s].epoch
    /\ disk[s].voted <= disk[s].epoch

\* Q is a majority that voted for l in epoch e.
VotedFor(Q, l, e) ==
  /\ Q \subseteq Sentinels
  /\ 2 * Cardinality(Q) > Cardinality(Sentinels)
  /\ \A q \in Q : [voter |-> q, epoch |-> e, leader |-> l] \in votes

\* A leader elected in its current epoch has a majority of that epoch.
ElectionInv ==
  \A a \in elected : a.at = a.epoch => \E Q \in SUBSET Sentinels : VotedFor(Q, a.leader, a.epoch)

Inv == TypeOK /\ BallotInv /\ EpochInv /\ ElectionInv

-----------------------------------------------------------------------------
(* Votes.                                                                  *)

\* sentinelVoteLeader returns the old vote or a new one of a younger epoch.
LEMMA VoteLeaderFacts ==
  ASSUME NEW v \in Vote, NEW cur \in Nat, NEW e \in Nat, NEW c \in Sentinels,
         e <= cur, v.epoch <= cur
  PROVE  LET w == VoteLeader(v, cur, e, c)
         IN  /\ w \in Vote /\ w.epoch <= cur /\ v.epoch <= w.epoch
             /\ w # v => w.epoch > v.epoch /\ w.leader \in Sentinels
BY DEF VoteLeader, Vote

\* Cast names the vote, unless nobody was voted for.
LEMMA CastFacts ==
  ASSUME NEW s \in Sentinels, NEW v \in Vote
  PROVE  /\ Cast(s, v) \subseteq [voter : Sentinels, epoch : Nat, leader : Sentinels]
         /\ \A b \in Cast(s, v) : b.voter = s /\ b.epoch = v.epoch /\ b.leader = v.leader
         /\ v.leader # Nobody => [voter |-> s, epoch |-> v.epoch, leader |-> v.leader] \in Cast(s, v)
BY DEF Cast, Vote

\* A vote that is the last one or younger keeps the ballots in order.
LEMMA Ballot ==
  ASSUME TypeOK, BallotInv, NEW s \in Sentinels, NEW v \in Vote,
         v # vote[s] => v.epoch > vote[s].epoch /\ v.leader \in Sentinels,
         vote' = [vote EXCEPT ![s] = v], votes' = votes \cup Cast(s, v),
         heard' = heard,
         \A m \in answers' : m \in answers \/ (m.from = s /\ m.vote = v)
  PROVE  BallotInv'
<1>1. \A t \in Sentinels : vote'[t] = IF t = s THEN v ELSE vote[t]
  BY Zenon DEF TypeOK
<1>2. \A b \in Cast(s, v) : b.voter = s /\ b.epoch = v.epoch /\ b.leader = v.leader
  BY CastFacts, Zenon
<1>3. \A b \in votes : b.voter \in Sentinels /\ b.epoch \in Nat
  BY Zenon DEF TypeOK
<1>4. vote[s] \in Vote /\ v.epoch \in Nat /\ vote[s].epoch \in Nat
  BY Zenon DEF TypeOK, Vote
<1>5. VoteOncePerEpoch'
  <2>1. CASE v = vote[s]
    <3>1. Cast(s, v) \subseteq votes
      BY <2>1, Zenon DEF BallotInv
    <3>2. QED
      BY <3>1, Zenon DEF BallotInv, VoteOncePerEpoch
  <2>2. CASE v # vote[s]
    <3>1. \A b \in votes : b.voter = s => b.epoch < v.epoch
      BY <2>2, <1>3, <1>4 DEF BallotInv
    <3>2. SUFFICES ASSUME NEW a \in votes', NEW b \in votes',
                          a.voter = b.voter, a.epoch = b.epoch
                   PROVE  a.leader = b.leader
      BY Zenon DEF VoteOncePerEpoch
    <3>3. CASE a \in votes /\ b \in votes
      BY <3>2, <3>3, Zenon DEF BallotInv, VoteOncePerEpoch
    <3>4. CASE a \in Cast(s, v) /\ b \in Cast(s, v)
      BY <3>2, <3>4, <1>2, Zenon
    <3>5. CASE a \in votes /\ b \in Cast(s, v)
      BY <3>1, <3>2, <3>5, <1>2, <1>3, <1>4
    <3>6. CASE a \in Cast(s, v) /\ b \in votes
      BY <3>1, <3>2, <3>6, <1>2, <1>3, <1>4
    <3>7. QED
      BY <3>3, <3>4, <3>5, <3>6, Zenon
  <2>3. QED
    BY <2>1, <2>2, Zenon
<1>6. \A t \in Sentinels : Cast(t, vote'[t]) \subseteq votes'
  BY <1>1, Zenon DEF BallotInv
<1>7. \A b \in votes' : b.epoch <= vote'[b.voter].epoch
  <2>1. \A b \in votes : b.epoch <= vote'[b.voter].epoch
    BY <1>1, <1>3, <1>4 DEF BallotInv
  <2>2. \A b \in Cast(s, v) : b.epoch <= vote'[b.voter].epoch
    BY <1>1, <1>2, <1>4
  <2>3. QED
    BY <2>1, <2>2, Zenon
<1>8. \A t, u \in Sentinels : Cast(u, heard'[t][u]) \subseteq votes'
  BY Zenon DEF BallotInv
<1>9. \A m \in answers' : Cast(m.from, m.vote) \subseteq votes'
  BY Zenon DEF BallotInv
<1>10. QED
  BY <1>5, <1>6, <1>7, <1>8, <1>9, Zenon DEF BallotInv

\* A majority stays one when votes are added.
LEMMA VotesKept ==
  ASSUME ElectionInv, votes \subseteq votes', elected' = elected
  PROVE  ElectionInv'
BY Zenon DEF ElectionInv, VotedFor

\* Two majorities share a Sentinel.
LEMMA MajoritiesMeet ==
  ASSUME NEW P \in SUBSET Sentinels, NEW Q \in SUBSET Sentinels,
         2 * Cardinality(P) > Cardinality(Sentinels),
         2 * Cardinality(Q) > Cardinality(Sentinels)
  PROVE  \E q \in P : q \in Q
<1>1. P \cap Q # {}
  <2>1. Cardinality(P) + Cardinality(Q) > Cardinality(Sentinels)
    <3>1. Cardinality(P) \in Nat /\ Cardinality(Q) \in Nat /\ Cardinality(Sentinels) \in Nat
      BY SentinelsAssumption, FS_Subset, FS_CardinalityType, Zenon
    <3>2. QED
      BY <3>1
  <2>2. QED
    BY <2>1, SentinelsAssumption, FS_MajoritiesIntersect, Zenon
<1>2. QED
  BY <1>1, Zenon

\* The invariant makes an undisturbed leader unique.
LEMMA UniqueFromInv ==
  ASSUME Inv
  PROVE  UndisturbedLeaderUnique
<1>1. SUFFICES ASSUME NEW a \in elected, NEW b \in elected,
                      a.epoch = b.epoch, a.at = a.epoch, b.at = b.epoch
               PROVE  a.leader = b.leader
  BY Zenon DEF UndisturbedLeaderUnique
<1>2. PICK P \in SUBSET Sentinels : VotedFor(P, a.leader, a.epoch)
  BY <1>1, Zenon DEF Inv, ElectionInv
<1>3. PICK Q \in SUBSET Sentinels : VotedFor(Q, b.leader, b.epoch)
  BY <1>1, Zenon DEF Inv, ElectionInv
<1>4. PICK q \in P : q \in Q
  BY <1>2, <1>3, MajoritiesMeet, Zenon DEF VotedFor
<1>5. /\ [voter |-> q, epoch |-> a.epoch, leader |-> a.leader] \in votes
      /\ [voter |-> q, epoch |-> a.epoch, leader |-> b.leader] \in votes
  BY <1>1, <1>2, <1>3, <1>4, Zenon DEF VotedFor
<1>6. QED
  BY <1>5, Zenon DEF Inv, BallotInv, VoteOncePerEpoch

\* What s counts for c are votes for c in the epoch it counts.
LEMMA ForVotes ==
  ASSUME TypeOK, BallotInv, NEW s \in Sentinels, NEW cur \in Nat, NEW c \in Sentinels
  PROVE  /\ For(s, cur, c) \in SUBSET Sentinels /\ s \notin For(s, cur, c)
         /\ IsFiniteSet(For(s, cur, c)) /\ Tally(s, cur, c) \in Nat
         /\ \A q \in For(s, cur, c) : [voter |-> q, epoch |-> cur, leader |-> c] \in votes
<1>1. For(s, cur, c) \in SUBSET Sentinels /\ s \notin For(s, cur, c)
  BY Zenon DEF For, Others
<1>2. IsFiniteSet(For(s, cur, c)) /\ Tally(s, cur, c) \in Nat
  BY <1>1, SentinelsAssumption, FS_Subset, FS_CardinalityType, Zenon DEF Tally
<1>3. ASSUME NEW q \in For(s, cur, c)
      PROVE  [voter |-> q, epoch |-> cur, leader |-> c] \in votes
  <2>1. heard[s][q] = [leader |-> c, epoch |-> cur] /\ q \in Sentinels
    BY <1>3, Zenon DEF For, Others
  <2>2. [voter |-> q, epoch |-> cur, leader |-> c] \in Cast(q, heard[s][q])
    BY <2>1, SentinelsAssumption DEF Cast
  <2>3. QED
    BY <2>1, <2>2, Zenon DEF BallotInv
<1>4. QED
  BY <1>1, <1>2, <1>3, Zenon

\* Who wins in its current epoch has a majority of the votes of that epoch.
LEMMA WonMajority ==
  ASSUME TypeOK, BallotInv, NEW s \in Sentinels, NEW cur \in Nat, NEW v \in Vote,
         NEW c \in Sentinels, Wins(s, cur, cur, c, v)
  PROVE  \E Q \in SUBSET Sentinels :
           /\ 2 * Cardinality(Q) > Cardinality(Sentinels)
           /\ \A q \in Q : [voter |-> q, epoch |-> cur, leader |-> s] \in votes \cup Cast(s, v)
<1> DEFINE N == Cardinality(Sentinels)
           most == IF Front(s, cur) = {} THEN 0 ELSE Tally(s, cur, c)
           own == Tally(s, cur, v.leader) + 1
           overtakes == v.leader # Nobody /\ v.epoch = cur /\ own > most
<1>1. N \in Nat
  BY SentinelsAssumption, FS_CardinalityType, Zenon
<1>2. CASE overtakes
  <2>1. v.leader = s /\ own >= N \div 2 + 1 /\ v.epoch = cur
    BY <1>2, Zenon DEF Wins
  <2>2. PICK Q : Q = For(s, cur, s) \cup {s}
    BY Zenon
  <2>3. Q \in SUBSET Sentinels /\ Cardinality(Q) = own
    BY <2>1, <2>2, ForVotes, FS_AddElement, Zenon DEF Tally
  <2>4. Tally(s, cur, s) \in Nat
    BY ForVotes, Zenon
  <2>5. 2 * Cardinality(Q) > N
    BY <2>1, <2>3, <2>4, <1>1
  <2>6. [voter |-> s, epoch |-> cur, leader |-> s] \in Cast(s, v)
    BY <2>1, CastFacts, SentinelsAssumption, Zenon
  <2>7. \A q \in Q : [voter |-> q, epoch |-> cur, leader |-> s] \in votes \cup Cast(s, v)
    BY <2>2, <2>6, ForVotes, Zenon
  <2>8. QED
    BY <2>3, <2>5, <2>7, Zenon
<1>3. CASE ~overtakes
  <2>1. c = s /\ most >= N \div 2 + 1
    BY <1>3, Zenon DEF Wins
  <2>2. most = Tally(s, cur, s) /\ Tally(s, cur, s) \in Nat
    BY <2>1, <1>1, ForVotes
  <2>3. 2 * Cardinality(For(s, cur, s)) > N
    BY <2>1, <2>2, <1>1 DEF Tally
  <2>4. QED
    BY <2>3, ForVotes, Zenon
<1>4. QED
  BY <1>2, <1>3, Zenon

-----------------------------------------------------------------------------
(* The steps.                                                              *)

\* What sentinelFlushConfig writes has the shape of a file.
LEMMA SavedFacts ==
  ASSUME NEW cur \in Nat, NEW v \in Vote, NEW c \in Configuration, NEW f \in Failover
  PROVE  /\ CurrentMasterAddress(c, f) \in Instances
         /\ Saved(cur, v, c, f) \in SavedState
         /\ Saved(cur, v, c, f).epoch = cur /\ Saved(cur, v, c, f).voted = v.epoch
<1>1. CurrentMasterAddress(c, f) \in Instances
  BY Zenon DEF CurrentMasterAddress, Configuration, Failover
<1>2. QED
  BY <1>1, Zenon DEF Saved, SavedState, Vote, Configuration

\* A step of WAIT_START, taken by the timer that starts the failover or later.
LEMMA WaitStartStep ==
  ASSUME Inv, NEW s \in Sentinels, NEW cur \in Nat, epoch[s] <= cur,
         NEW f \in Failover, f.state = "wait_start", f.epoch <= cur,
         NEW losers, losers \subseteq {f, NoFailover},
         WaitStart(s, cur, f, losers),
         delayed' \in [Sentinels -> BOOLEAN],
         asks' \subseteq [from : Sentinels, epoch : Nat, addr : Instances],
         answers' = answers, starts' \in Nat, incidents' \in Nat
  PROVE  Inv'
<1>1. PICK c \in IF Front(s, cur) = {} THEN {s} ELSE Front(s, cur) :
        LET v == VoteLeader(vote[s], cur, f.epoch, c)
            won == Wins(s, cur, f.epoch, c, v)
        IN  /\ epoch' = [epoch EXCEPT ![s] = cur]
            /\ vote' = [vote EXCEPT ![s] = v]
            /\ \E g \in IF won THEN {[f EXCEPT !.state = "select_slave"]} ELSE losers :
                 fo' = [fo EXCEPT ![s] = g]
            /\ disk' = IF v = vote[s] THEN disk
                       ELSE [disk EXCEPT ![s] = Saved(cur, v, conf[s], f)]
            /\ votes' = votes \cup Cast(s, v)
            /\ elected' = elected \cup
                 (IF won THEN {[leader |-> s, epoch |-> f.epoch, at |-> cur]} ELSE {})
            /\ UNCHANGED <<conf, heard, promotions, crossed>>
  BY Zenon DEF WaitStart
<1> DEFINE v == VoteLeader(vote[s], cur, f.epoch, c)
           won == Wins(s, cur, f.epoch, c, v)
<1>2. c \in Sentinels
  BY Zenon DEF Front
<1>3. vote[s] \in Vote /\ f.epoch \in Nat /\ epoch[s] \in Nat /\ vote[s].epoch \in Nat
      /\ vote[s].epoch <= cur
  BY DEF Inv, TypeOK, SavedState, EpochInv, Vote, Failover
<1>4. /\ v \in Vote /\ v.epoch <= cur /\ vote[s].epoch <= v.epoch
      /\ v # vote[s] => v.epoch > vote[s].epoch /\ v.leader \in Sentinels
  BY <1>2, <1>3, VoteLeaderFacts, Zenon
<1> HIDE DEF v
<1>5. PICK g : g \in Failover /\ fo' = [fo EXCEPT ![s] = g]
               /\ (g.state # "none" => g.epoch = f.epoch)
  <2>1. PICK g \in IF won THEN {[f EXCEPT !.state = "select_slave"]} ELSE losers :
          fo' = [fo EXCEPT ![s] = g]
    BY <1>1, Zenon DEF v
  <2>2. [f EXCEPT !.state = "select_slave"] \in Failover
    BY Zenon DEF Failover
  <2>3. NoFailover \in Failover
    BY Zenon DEF NoFailover, Failover
  <2>4. QED
    BY <2>1, <2>2, <2>3, Zenon DEF NoFailover, Failover
<1>6. /\ epoch' = [epoch EXCEPT ![s] = cur] /\ vote' = [vote EXCEPT ![s] = v]
      /\ disk' = IF v = vote[s] THEN disk
                 ELSE [disk EXCEPT ![s] = Saved(cur, v, conf[s], f)]
      /\ votes' = votes \cup Cast(s, v)
      /\ elected' = elected \cup
           (IF won THEN {[leader |-> s, epoch |-> f.epoch, at |-> cur]} ELSE {})
      /\ UNCHANGED <<conf, heard, promotions, crossed>>
  BY <1>1, Zenon DEF v
<1>7. TypeOK'
  <2>1. disk' \in [Sentinels -> SavedState]
    BY <1>4, <1>6, SavedFacts, Zenon DEF Inv, TypeOK
  <2>2. votes' \subseteq [voter : Sentinels, epoch : Nat, leader : Sentinels]
    BY <1>4, <1>6, CastFacts, Zenon DEF Inv, TypeOK
  <2>3. elected' \subseteq [leader : Sentinels, epoch : Nat, at : Nat]
    BY <1>3, <1>6 DEF Inv, TypeOK
  <2>4. fo' \in [Sentinels -> Failover]
    BY <1>5, Zenon DEF Inv, TypeOK
  <2>5. epoch' \in [Sentinels -> Nat] /\ vote' \in [Sentinels -> Vote]
    BY <1>4, <1>6, Zenon DEF Inv, TypeOK
  <2>6. QED
    BY <2>1, <2>2, <2>3, <2>4, <2>5, <1>6, Zenon DEF Inv, TypeOK
<1>8. BallotInv'
  BY <1>4, <1>6, Ballot, Zenon DEF Inv
<1>9. EpochInv'
  <2>1. ASSUME NEW t \in Sentinels
        PROVE  /\ vote'[t].epoch <= epoch'[t]
               /\ fo'[t].state # "none" => fo'[t].epoch <= epoch'[t]
    BY <1>3, <1>4, <1>5, <1>6, Zenon DEF Inv, TypeOK, SavedState, EpochInv
  <2>2. ASSUME NEW t \in Sentinels
        PROVE  disk'[t].voted = vote'[t].epoch /\ disk'[t].voted <= disk'[t].epoch
    <3>1. conf[s] \in Configuration
      BY Zenon DEF Inv, TypeOK
    <3>2. Saved(cur, v, conf[s], f).epoch = cur /\ Saved(cur, v, conf[s], f).voted = v.epoch
      BY <3>1, <1>4, SavedFacts
    <3>3. QED
      BY <3>2, <1>3, <1>4, <1>6, Zenon DEF Inv, TypeOK, SavedState, EpochInv
  <2>3. QED
    BY <2>1, <2>2, Zenon DEF EpochInv
<1>10. ElectionInv'
  <2>1. votes \subseteq votes'
    BY <1>6, Zenon
  <2>2. CASE ~won
    BY <2>1, <2>2, <1>6, VotesKept, Zenon DEF Inv
  <2>3. CASE won
    <3>1. SUFFICES ASSUME NEW a \in elected', a.at = a.epoch
                   PROVE  \E Q \in SUBSET Sentinels : VotedFor(Q, a.leader, a.epoch)'
      BY Zenon DEF ElectionInv
    <3>2. CASE a \in elected
      <4>1. PICK Q \in SUBSET Sentinels : VotedFor(Q, a.leader, a.epoch)
        BY <3>1, <3>2, Zenon DEF Inv, ElectionInv
      <4>2. VotedFor(Q, a.leader, a.epoch)'
        BY <4>1, <2>1, Zenon DEF VotedFor
      <4>3. QED
        BY <4>2, Zenon
    <3>3. CASE a = [leader |-> s, epoch |-> f.epoch, at |-> cur]
      <4>1. f.epoch = cur /\ a.leader = s /\ a.epoch = cur
        BY <3>1, <3>3, Zenon
      <4>2. PICK Q \in SUBSET Sentinels :
              /\ 2 * Cardinality(Q) > Cardinality(Sentinels)
              /\ \A q \in Q : [voter |-> q, epoch |-> cur, leader |-> s] \in votes \cup Cast(s, v)
        BY <4>1, <2>3, <1>2, <1>4, WonMajority DEF Inv
      <4>3. VotedFor(Q, a.leader, a.epoch)'
        BY <4>1, <4>2, <1>6, Zenon DEF VotedFor
      <4>4. QED
        BY <4>3, Zenon
    <3>4. QED
      BY <3>2, <3>3, <2>3, <1>6, Zenon
  <2>4. QED
    BY <2>2, <2>3, Zenon
<1>11. QED
  BY <1>7, <1>8, <1>9, <1>10, Zenon DEF Inv

\* A step that casts no vote keeps the ballots in order, when it only forgets
\* whom a Sentinel voted for, forgets answers or hears one.
LEMMA QuietBallot ==
  ASSUME TypeOK, BallotInv, votes' = votes, answers' = answers,
         \A t \in Sentinels : vote'[t].epoch = vote[t].epoch
                              /\ vote'[t].leader \in {Nobody, vote[t].leader},
         \A t, u \in Sentinels : \/ heard'[t][u] = heard[t][u]
                                 \/ heard'[t][u] = NoVote
                                 \/ \E m \in answers : m.from = u /\ heard'[t][u] = m.vote
  PROVE  BallotInv'
<1>1. VoteOncePerEpoch' /\ \A m \in answers' : Cast(m.from, m.vote) \subseteq votes'
  BY Zenon DEF BallotInv, VoteOncePerEpoch
<1>2. \A t \in Sentinels : Cast(t, vote'[t]) \subseteq votes'
  BY DEF BallotInv, Cast
<1>3. \A b \in votes' : b.epoch <= vote'[b.voter].epoch
  BY Zenon DEF BallotInv, TypeOK
<1>4. \A t, u \in Sentinels : Cast(u, heard'[t][u]) \subseteq votes'
  <2>1. \A u \in Sentinels : Cast(u, NoVote) = {}
    BY Zenon DEF Cast, NoVote
  <2>2. QED
    BY <2>1 DEF BallotInv
<1>5. QED
  BY <1>1, <1>2, <1>3, <1>4, Zenon DEF BallotInv

\* Steps that only move the failover of one Sentinel on, in its epoch.
LEMMA FailoverStepInv ==
  ASSUME Inv, NEW s \in Sentinels, NEW f \in Failover,
         f.state # "none" => fo[s].state # "none" /\ f.epoch = fo[s].epoch,
         FailoverStep(s, f)
  PROVE  Inv'
<1>1. /\ fo' = [fo EXCEPT ![s] = f]
      /\ UNCHANGED <<epoch, vote, conf, heard, delayed, disk, asks, answers,
                     votes, elected, promotions, crossed, starts, incidents>>
  BY Zenon DEF FailoverStep, sent, history, used
<1>2. TypeOK'
  BY <1>1, Zenon DEF Inv, TypeOK
<1>3. BallotInv'
  BY <1>1, QuietBallot, Zenon DEF Inv
<1>4. EpochInv'
  BY <1>1, Zenon DEF Inv, TypeOK, SavedState, EpochInv
<1>5. ElectionInv'
  BY <1>1, VotesKept, Zenon DEF Inv
<1>6. QED
  BY <1>2, <1>3, <1>4, <1>5, Zenon DEF Inv

\* Steps that change nothing but requests, delays and bounds.
LEMMA IdleInv ==
  ASSUME Inv, UNCHANGED <<epoch, vote, conf, fo, heard, disk, answers, votes, elected,
                          promotions, crossed>>,
         delayed' \in [Sentinels -> BOOLEAN],
         asks' \subseteq [from : Sentinels, epoch : Nat, addr : Instances],
         starts' \in Nat, incidents' \in Nat
  PROVE  Inv'
<1>1. TypeOK'
  BY Zenon DEF Inv, TypeOK
<1>2. BallotInv'
  BY QuietBallot, Zenon DEF Inv
<1>3. EpochInv'
  BY Zenon DEF Inv, EpochInv
<1>4. ElectionInv'
  BY VotesKept, Zenon DEF Inv
<1>5. QED
  BY <1>1, <1>2, <1>3, <1>4, Zenon DEF Inv

\* The change of the master's address keeps the epoch of the last vote.
LEMMA ResetInv ==
  ASSUME Inv, NEW s \in Sentinels, NEW cur \in Nat, epoch[s] <= cur,
         NEW e \in Nat, NEW a \in Instances,
         ResetMasterAndChangeAddress(s, cur, e, a),
         epoch' = [epoch EXCEPT ![s] = cur],
         UNCHANGED <<heard, asks, answers, votes, elected, promotions, starts, incidents>>,
         crossed' \subseteq Nat
  PROVE  Inv'
<1> DEFINE c == [epoch |-> e, addr |-> a]
           d == Saved(cur, vote[s], c, NoFailover)
<1>1. NoFailover \in Failover /\ c \in Configuration /\ vote[s] \in Vote
  BY Zenon DEF NoFailover, Failover, Configuration, Inv, TypeOK
<1>2. /\ conf' = [conf EXCEPT ![s] = c] /\ vote' = [vote EXCEPT ![s].leader = Nobody]
      /\ fo' = [fo EXCEPT ![s] = NoFailover] /\ delayed' = [delayed EXCEPT ![s] = FALSE]
      /\ disk' = [disk EXCEPT ![s] = d]
  BY Zenon DEF ResetMasterAndChangeAddress, Inv, TypeOK
<1>3. /\ d \in SavedState
      /\ d.epoch = cur /\ d.voted = vote[s].epoch
  BY <1>1, SavedFacts
<1> HIDE DEF c, d
<1>4. \A t \in Sentinels : vote'[t] \in Vote /\ vote'[t].epoch = vote[t].epoch
                           /\ vote'[t].leader \in {Nobody, vote[t].leader}
  BY <1>2, Zenon DEF Inv, TypeOK, Vote
<1>5. TypeOK'
  <2>1. vote' \in [Sentinels -> Vote]
    BY <1>2, <1>4, Zenon DEF Inv, TypeOK
  <2>2. disk' \in [Sentinels -> SavedState]
    BY <1>2, <1>3, Zenon DEF Inv, TypeOK
  <2>3. conf' \in [Sentinels -> Configuration] /\ fo' \in [Sentinels -> Failover]
    BY <1>1, <1>2, Zenon DEF Inv, TypeOK
  <2>4. QED
    BY <2>1, <2>2, <2>3, <1>2, Zenon DEF Inv, TypeOK
<1>6. BallotInv'
  BY <1>4, QuietBallot, Zenon DEF Inv
<1>7. EpochInv'
  <2>1. ASSUME NEW t \in Sentinels
        PROVE  /\ vote'[t].epoch <= epoch'[t]
               /\ fo'[t].state # "none" => fo'[t].epoch <= epoch'[t]
    <3>1. vote[t].epoch \in Nat /\ epoch[t] \in Nat /\ vote[t].epoch <= epoch[t]
          /\ fo[t].epoch \in Nat
      BY Zenon DEF Inv, TypeOK, SavedState, EpochInv, Vote, Failover
    <3>2. QED
      BY <3>1, <1>2, <1>4 DEF Inv, TypeOK, SavedState, EpochInv, NoFailover
  <2>2. ASSUME NEW t \in Sentinels
        PROVE  disk'[t].voted = vote'[t].epoch /\ disk'[t].voted <= disk'[t].epoch
    <3>1. vote[s].epoch \in Nat /\ epoch[s] \in Nat /\ vote[s].epoch <= cur
      BY DEF Inv, TypeOK, SavedState, EpochInv, Vote
    <3>2. QED
      BY <3>1, <1>2, <1>3, <1>4, Zenon DEF Inv, TypeOK, SavedState, EpochInv
  <2>3. QED
    BY <2>1, <2>2, Zenon DEF EpochInv
<1>8. ElectionInv'
  BY VotesKept, Zenon DEF Inv
<1>9. QED
  BY <1>5, <1>6, <1>7, <1>8, Zenon DEF Inv

\* A request for a vote.
LEMMA RequestInv ==
  ASSUME Inv, NEW t \in Sentinels, NEW m \in asks, IsMasterDownByAddr(t, m)
  PROVE  Inv'
<1> DEFINE cur == Larger(epoch[t], m.epoch)
           v == VoteLeader(vote[t], cur, m.epoch, m.from)
<1>1. m.epoch \in Nat /\ m.from \in Sentinels /\ epoch[t] \in Nat /\ vote[t] \in Vote
      /\ vote[t].epoch \in Nat /\ vote[t].epoch <= epoch[t]
  BY Zenon DEF Inv, TypeOK, SavedState, EpochInv, Vote
<1>2. cur \in Nat /\ epoch[t] <= cur /\ m.epoch <= cur /\ vote[t].epoch <= cur
  BY <1>1 DEF Larger
<1>3. /\ v \in Vote /\ v.epoch <= cur /\ vote[t].epoch <= v.epoch
      /\ v # vote[t] => v.epoch > vote[t].epoch /\ v.leader \in Sentinels
  BY <1>1, <1>2, VoteLeaderFacts, Zenon
<1>4. /\ epoch' = [epoch EXCEPT ![t] = cur] /\ vote' = [vote EXCEPT ![t] = v]
      /\ delayed' = [delayed EXCEPT ![t] = delayed[t] \/ v # vote[t]]
      /\ disk' = IF cur = epoch[t] /\ v = vote[t] THEN disk
                 ELSE [disk EXCEPT ![t] = Saved(cur, v, conf[t], fo[t])]
      /\ votes' = votes \cup Cast(t, v)
      /\ answers' = answers \cup {[to |-> m.from, from |-> t, vote |-> v]}
      /\ UNCHANGED <<conf, fo, heard, asks, elected, promotions, crossed, starts, incidents>>
  BY Zenon DEF IsMasterDownByAddr, used
<1> HIDE DEF cur, v
<1>5. /\ Saved(cur, v, conf[t], fo[t]) \in SavedState
      /\ Saved(cur, v, conf[t], fo[t]).epoch = cur
      /\ Saved(cur, v, conf[t], fo[t]).voted = v.epoch
  <2>1. conf[t] \in Configuration /\ fo[t] \in Failover /\ cur \in Nat /\ v \in Vote
    BY <1>2, <1>3, Zenon DEF Inv, TypeOK
  <2>2. CurrentMasterAddress(conf[t], fo[t]) \in Instances
    BY <2>1, Zenon DEF CurrentMasterAddress, Configuration, Failover
  <2>3. QED
    BY <2>1, <2>2, Zenon DEF Saved, SavedState, Vote, Configuration
<1>6. TypeOK'
  <2>1. disk' \in [Sentinels -> SavedState]
    BY <1>4, <1>5, Zenon DEF Inv, TypeOK
  <2>2. votes' \subseteq [voter : Sentinels, epoch : Nat, leader : Sentinels]
    BY <1>3, <1>4, CastFacts, Zenon DEF Inv, TypeOK
  <2>3. answers' \subseteq [to : Sentinels, from : Sentinels, vote : Vote]
    BY <1>1, <1>3, <1>4 DEF Inv, TypeOK
  <2>4. epoch' \in [Sentinels -> Nat] /\ vote' \in [Sentinels -> Vote]
    BY <1>2, <1>3, <1>4, Zenon DEF Inv, TypeOK
  <2>5. delayed' \in [Sentinels -> BOOLEAN]
    BY <1>4, Zenon DEF Inv, TypeOK
  <2>6. QED
    BY <2>1, <2>2, <2>3, <2>4, <2>5, <1>4, Zenon DEF Inv, TypeOK
<1>7. BallotInv'
  <2>1. \A n \in answers' : n \in answers \/ (n.from = t /\ n.vote = v)
    BY <1>4
  <2>2. TypeOK /\ BallotInv
    BY Zenon DEF Inv
  <2>3. QED
    BY <2>1, <2>2, <1>3, <1>4, Ballot, Zenon
<1>8. EpochInv'
  <2>1. ASSUME NEW u \in Sentinels
        PROVE  /\ vote'[u].epoch <= epoch'[u]
               /\ fo'[u].state # "none" => fo'[u].epoch <= epoch'[u]
    <3>1. fo[u].epoch \in Nat
      BY Zenon DEF Inv, TypeOK, Failover
    <3>2. QED
      BY <3>1, <1>1, <1>2, <1>3, <1>4 DEF Inv, TypeOK, SavedState, EpochInv
  <2>2. ASSUME NEW u \in Sentinels
        PROVE  disk'[u].voted = vote'[u].epoch /\ disk'[u].voted <= disk'[u].epoch
    BY <1>2, <1>3, <1>4, <1>5, Zenon DEF Inv, TypeOK, SavedState, EpochInv
  <2>3. QED
    BY <2>1, <2>2, Zenon DEF EpochInv
<1>9. ElectionInv'
  BY <1>4, VotesKept, Zenon DEF Inv
<1>10. QED
  BY <1>6, <1>7, <1>8, <1>9, Zenon DEF Inv

\* An answer.
LEMMA ReplyInv ==
  ASSUME Inv, NEW m \in answers, ReceiveIsMasterDownReply(m)
  PROVE  Inv'
<1>1. m.to \in Sentinels /\ m.from \in Sentinels /\ m.vote \in Vote
  BY Zenon DEF Inv, TypeOK
<1>2. /\ heard' = [heard EXCEPT ![m.to][m.from] = m.vote]
      /\ UNCHANGED <<epoch, vote, conf, fo, delayed, disk, asks, answers, votes, elected,
                     promotions, crossed, starts, incidents>>
  BY Zenon DEF ReceiveIsMasterDownReply, sent, history, used
<1>3. \A t, u \in Sentinels : heard'[t][u] = IF t = m.to /\ u = m.from THEN m.vote
                                             ELSE heard[t][u]
  BY <1>1, <1>2, Zenon DEF Inv, TypeOK
<1>4. TypeOK'
  BY <1>1, <1>2, Zenon DEF Inv, TypeOK
<1>5. BallotInv'
  BY <1>2, <1>3, QuietBallot DEF Inv
<1>6. EpochInv' /\ ElectionInv'
  BY <1>2, VotesKept, Zenon DEF Inv, EpochInv
<1>7. QED
  BY <1>4, <1>5, <1>6, Zenon DEF Inv

\* The acknowledged promotion.
LEMMA PromotedInv ==
  ASSUME Inv, NEW s \in Sentinels, PromotedSlave(s)
  PROVE  Inv'
<1>1. fo[s] \in Failover /\ fo[s].state = "wait_promotion" /\ fo[s].epoch \in Nat
      /\ conf[s] \in Configuration /\ fo[s].promoted \in Instances
      /\ vote[s] \in Vote /\ epoch[s] \in Nat
  BY Zenon DEF PromotedSlave, Inv, TypeOK, Failover
<1>2. PICK f \in Failover, c \in Configuration :
        /\ f = [fo[s] EXCEPT !.state = "reconf_slaves"] /\ f.epoch = fo[s].epoch
        /\ c = [conf[s] EXCEPT !.epoch = fo[s].epoch]
  <2>1. /\ [fo[s] EXCEPT !.state = "reconf_slaves"] \in Failover
        /\ [fo[s] EXCEPT !.state = "reconf_slaves"].epoch = fo[s].epoch
    BY <1>1, Zenon DEF Failover
  <2>2. [conf[s] EXCEPT !.epoch = fo[s].epoch] \in Configuration
    BY <1>1, Zenon DEF Configuration
  <2>3. QED
    BY <2>1, <2>2, Zenon
<1> DEFINE d == Saved(epoch[s], vote[s], c, f)
<1>3. /\ d \in SavedState
      /\ d.epoch = epoch[s] /\ d.voted = vote[s].epoch
  <2>1. vote[s] \in Vote /\ epoch[s] \in Nat
    BY <1>1, Zenon
  <2>2. QED
    BY <2>1, SavedFacts
<1>4. /\ conf' = [conf EXCEPT ![s] = c] /\ fo' = [fo EXCEPT ![s] = f]
      /\ promotions' = promotions \cup {[epoch |-> fo[s].epoch, addr |-> fo[s].promoted]}
      /\ UNCHANGED <<epoch, vote, heard, delayed, asks, answers, votes, elected, crossed,
                     starts, incidents>>
  BY <1>2, Zenon DEF PromotedSlave, sent, used, Inv, TypeOK
<1>5. disk' = [disk EXCEPT ![s] = d]
  <2>1. conf'[s] = c /\ fo'[s] = f
    BY <1>4, Zenon DEF Inv, TypeOK
  <2>2. QED
    BY <2>1, Zenon DEF PromotedSlave
<1> HIDE DEF d
<1>6. TypeOK'
  BY <1>1, <1>2, <1>3, <1>4, <1>5 DEF Inv, TypeOK
<1>7. BallotInv'
  BY <1>4, QuietBallot, Zenon DEF Inv
<1>8. EpochInv'
  BY <1>1, <1>2, <1>3, <1>4, <1>5, Zenon DEF Inv, TypeOK, SavedState, EpochInv
<1>9. ElectionInv'
  BY <1>4, VotesKept, Zenon DEF Inv
<1>10. QED
  BY <1>6, <1>7, <1>8, <1>9, Zenon DEF Inv

\* A hello message.
LEMMA HelloInv ==
  ASSUME Inv, NEW t \in Sentinels, NEW u \in Sentinels, ProcessHelloMessage(t, Hello(u))
  PROVE  Inv'
<1> DEFINE m == Hello(u)
           cur == Larger(epoch[t], m.epoch)
           newer == conf[t].epoch < m.conf
<1>1. m.epoch \in Nat /\ m.conf \in Nat /\ m.addr \in Instances
  <2>1. conf[u] \in Configuration /\ fo[u] \in Failover /\ epoch[u] \in Nat
    BY Zenon DEF Inv, TypeOK
  <2>2. CurrentMasterAddress(conf[u], fo[u]) \in Instances
    BY <2>1, Zenon DEF CurrentMasterAddress, Configuration, Failover
  <2>3. QED
    BY <2>1, <2>2, Zenon DEF Hello, Configuration
<1>2. conf[t] \in Configuration /\ fo[t] \in Failover /\ epoch[t] \in Nat
      /\ vote[t] \in Vote /\ vote[t].epoch \in Nat /\ conf[t].epoch \in Nat
  BY Zenon DEF Inv, TypeOK, Vote, Configuration
<1>3. cur \in Nat /\ epoch[t] <= cur
  BY <1>1, <1>2 DEF Larger
<1>4. /\ epoch' = [epoch EXCEPT ![t] = cur]
      /\ UNCHANGED <<heard, asks, answers, votes, elected, promotions, starts, incidents>>
  BY Zenon DEF ProcessHelloMessage, sent, used
<1>5. CASE newer /\ m.addr # conf[t].addr
  <2>1. ResetMasterAndChangeAddress(t, cur, m.conf, m.addr) /\ crossed' = crossed
    BY <1>5, Zenon DEF ProcessHelloMessage
  <2>2. QED
    BY <2>1, <1>1, <1>3, <1>4, ResetInv, Zenon DEF Inv, TypeOK
<1>6. CASE ~(newer /\ m.addr # conf[t].addr)
  <2> DEFINE d == Saved(cur, vote[t], conf[t], fo[t])
             e == Larger(conf[t].epoch, m.conf)
  <2>1. /\ conf' = [conf EXCEPT ![t].epoch = e]
        /\ disk' = IF cur = epoch[t] THEN disk ELSE [disk EXCEPT ![t] = d]
        /\ crossed' = crossed \cup
             (IF newer /\ fo[t].state = "reconf_slaves" THEN {m.conf} ELSE {})
        /\ UNCHANGED <<vote, fo, delayed>>
    BY <1>6, Zenon DEF ProcessHelloMessage
  <2>2. e \in Nat
    BY <1>1, <1>2, Zenon DEF Larger
  <2>3. d \in SavedState
        /\ d.epoch = cur /\ d.voted = vote[t].epoch
    BY <1>2, <1>3, SavedFacts
  <2> HIDE DEF d, e, m, cur
  <2>4. TypeOK'
    <3>1. conf' \in [Sentinels -> Configuration]
      BY <2>1, <2>2, Zenon DEF Inv, TypeOK, Configuration
    <3>2. disk' \in [Sentinels -> SavedState]
      BY <2>1, <2>3, Zenon DEF Inv, TypeOK
    <3>3. crossed' \subseteq Nat /\ epoch' \in [Sentinels -> Nat]
      BY <2>1, <1>1, <1>3, <1>4, Zenon DEF Inv, TypeOK
    <3>4. QED
      BY <3>1, <3>2, <3>3, <2>1, <1>4, Zenon DEF Inv, TypeOK
  <2>5. BallotInv'
    BY <2>1, <1>4, QuietBallot, Zenon DEF Inv
  <2>6. EpochInv'
    <3>1. ASSUME NEW s \in Sentinels
          PROVE  /\ vote'[s].epoch <= epoch'[s]
                 /\ fo'[s].state # "none" => fo'[s].epoch <= epoch'[s]
      <4>1. fo[s].epoch \in Nat /\ vote[s].epoch \in Nat /\ epoch[s] \in Nat
        BY Zenon DEF Inv, TypeOK, Failover, Vote
      <4>2. QED
        BY <4>1, <2>1, <1>3, <1>4 DEF Inv, TypeOK, SavedState, EpochInv
    <3>2. ASSUME NEW s \in Sentinels
          PROVE  disk'[s].voted = vote'[s].epoch /\ disk'[s].voted <= disk'[s].epoch
      BY <2>1, <2>3, <1>2, <1>3 DEF Inv, TypeOK, SavedState, EpochInv
    <3>3. QED
      BY <3>1, <3>2, Zenon DEF EpochInv
  <2>7. ElectionInv'
    BY <1>4, VotesKept, Zenon DEF Inv
  <2>8. QED
    BY <2>4, <2>5, <2>6, <2>7, Zenon DEF Inv
<1>7. QED
  BY <1>5, <1>6, Zenon

\* A restart.
LEMMA RestartInv ==
  ASSUME Inv, NEW s \in Sentinels, Restart(s)
  PROVE  Inv'
<1> DEFINE e == Larger(disk[s].epoch, disk[s].conf.epoch)
           v == [leader |-> Nobody, epoch |-> disk[s].voted]
<1>1. /\ epoch' = [epoch EXCEPT ![s] = e] /\ vote' = [vote EXCEPT ![s] = v]
      /\ conf' = [conf EXCEPT ![s] = disk[s].conf] /\ fo' = [fo EXCEPT ![s] = NoFailover]
      /\ heard' = [heard EXCEPT ![s] = [t \in Sentinels |-> NoVote]]
      /\ delayed' = [delayed EXCEPT ![s] = FALSE] /\ incidents' = incidents + 1
      /\ UNCHANGED <<disk, asks, answers, votes, elected, promotions, crossed, starts>>
  BY Zenon DEF Restart, sent, history
<1>2. disk[s].epoch \in Nat /\ disk[s].voted \in Nat /\ disk[s].conf \in Configuration
      /\ disk[s].conf.epoch \in Nat
  BY Zenon DEF Inv, TypeOK, SavedState, Configuration
<1>3. e \in Nat /\ disk[s].epoch <= e
  BY <1>2 DEF Larger
<1>4. v \in Vote /\ NoVote \in Vote /\ NoFailover \in Failover
  BY <1>2, Zenon DEF Vote, NoVote, NoFailover, Failover
<1>5. v.epoch = vote[s].epoch /\ v.epoch <= e
  BY <1>2, <1>3 DEF Inv, EpochInv
<1>6. v.leader = Nobody
  BY Zenon
<1> HIDE DEF e, v
<1>7. TypeOK'
  <2>1. heard' \in [Sentinels -> [Sentinels -> Vote]]
    BY <1>1, <1>4, Zenon DEF Inv, TypeOK
  <2>2. QED
    BY <2>1, <1>1, <1>2, <1>3, <1>4 DEF Inv, TypeOK
<1>8. BallotInv'
  <2>1. \A t \in Sentinels : vote'[t].epoch = vote[t].epoch
                             /\ vote'[t].leader \in {Nobody, vote[t].leader}
    BY <1>1, <1>5, <1>6, Zenon DEF Inv, TypeOK
  <2>2. \A t, u \in Sentinels : heard'[t][u] = heard[t][u] \/ heard'[t][u] = NoVote
    BY <1>1, Zenon DEF Inv, TypeOK
  <2>3. QED
    BY <2>1, <2>2, <1>1, QuietBallot, Zenon DEF Inv
<1>9. EpochInv'
  BY <1>1, <1>3, <1>5, Zenon DEF Inv, TypeOK, SavedState, EpochInv, NoFailover
<1>10. ElectionInv'
  BY <1>1, VotesKept, Zenon DEF Inv
<1>11. QED
  BY <1>7, <1>8, <1>9, <1>10, Zenon DEF Inv

-----------------------------------------------------------------------------
(* The theorems about votes and leaders.                                   *)

\* Sentinels that have never voted satisfy the invariant.
LEMMA InitInv == Init => Inv
<1> SUFFICES ASSUME Init PROVE Inv
  BY Zenon
<1> DEFINE c == [epoch |-> 0, addr |-> FirstMaster]
<1>1. NoVote \in Vote /\ NoFailover \in Failover /\ c \in Configuration
      /\ NoVote.epoch = 0 /\ NoFailover.state = "none"
  BY InstancesAssumption, Zenon DEF NoVote, Vote, NoFailover, Failover, Configuration
<1>2. /\ Saved(0, NoVote, c, NoFailover) \in SavedState
      /\ Saved(0, NoVote, c, NoFailover).epoch = 0 /\ Saved(0, NoVote, c, NoFailover).voted = 0
  <2>1. CurrentMasterAddress(c, NoFailover) = FirstMaster
    BY Zenon DEF CurrentMasterAddress, NoFailover
  <2>2. QED
    BY <2>1, <1>1, InstancesAssumption, Zenon DEF Saved, SavedState, Configuration
<1>3. TypeOK
  BY <1>1, <1>2, Zenon DEF Init, TypeOK
<1>4. BallotInv
  <2>1. \A u \in Sentinels : Cast(u, NoVote) = {}
    BY Zenon DEF Cast, NoVote
  <2>2. QED
    BY <2>1, Zenon DEF Init, BallotInv, VoteOncePerEpoch
<1>5. EpochInv /\ ElectionInv
  BY <1>1, <1>2 DEF Init, EpochInv, ElectionInv
<1>6. QED
  BY <1>3, <1>4, <1>5, Zenon DEF Inv

\* Every step keeps the invariant.
LEMMA NextInv == Inv /\ [Next]_vars => Inv'
<1> SUFFICES ASSUME Inv, [Next]_vars PROVE Inv'
  BY Zenon
<1>1. ASSUME NEW s \in Sentinels, StartFailoverIfNeeded(s) PROVE Inv'
  <2> DEFINE f == [state |-> "wait_start", epoch |-> epoch[s] + 1, promoted |-> Nobody]
  <2>1. epoch[s] \in Nat /\ epoch[s] + 1 \in Nat /\ epoch[s] <= epoch[s] + 1
        /\ conf[s].addr \in Instances
    BY DEF Inv, TypeOK, Configuration
  <2>2. f \in Failover /\ f.state = "wait_start" /\ f.epoch <= epoch[s] + 1
    BY <2>1 DEF Failover
  <2>3. /\ WaitStart(s, epoch[s] + 1, f, {f}) /\ answers' = answers
        /\ starts' = starts + 1 /\ incidents' = incidents
        /\ delayed' = [delayed EXCEPT ![s] = TRUE] /\ Ask(s, epoch[s] + 1)
    BY <1>1, Zenon DEF StartFailoverIfNeeded
  <2> HIDE DEF f
  <2>4. asks' \subseteq [from : Sentinels, epoch : Nat, addr : Instances]
    BY <2>1, <2>3 DEF Ask, Inv, TypeOK
  <2>5. delayed' \in [Sentinels -> BOOLEAN] /\ starts' \in Nat /\ incidents' \in Nat
    BY <2>3 DEF Inv, TypeOK
  <2>6. {f} \subseteq {f, NoFailover}
    BY Zenon
  <2>7. starts' \in Nat /\ incidents' \in Nat /\ answers' = answers
    BY <2>3, <2>5, Zenon
  <2>8. PICK e \in Nat : e = epoch[s] + 1
    BY <2>1, Zenon
  <2>9. epoch[s] <= e /\ f.epoch <= e /\ WaitStart(s, e, f, {f})
    BY <2>1, <2>2, <2>3, <2>8, Zenon
  <2>10. QED
    BY <2>2, <2>4, <2>5, <2>6, <2>7, <2>9, WaitStartStep, Zenon
<1>2. ASSUME NEW s \in Sentinels, FailoverWaitStart(s) PROVE Inv'
  <2>1. epoch[s] \in Nat /\ epoch[s] <= epoch[s] /\ fo[s] \in Failover
    BY DEF Inv, TypeOK
  <2>2. fo[s].state = "wait_start" /\ fo[s].epoch <= epoch[s]
    BY <1>2, Zenon DEF FailoverWaitStart, Inv, EpochInv
  <2>3. WaitStart(s, epoch[s], fo[s], {fo[s], NoFailover}) /\ answers' = answers
    BY <1>2, Zenon DEF FailoverWaitStart, sent
  <2>4. /\ delayed' \in [Sentinels -> BOOLEAN] /\ starts' \in Nat /\ incidents' \in Nat
        /\ asks' \subseteq [from : Sentinels, epoch : Nat, addr : Instances]
    BY <1>2, Zenon DEF FailoverWaitStart, sent, used, Inv, TypeOK
  <2>5. {fo[s], NoFailover} \subseteq {fo[s], NoFailover}
    BY Zenon
  <2>6. QED
    BY <2>1, <2>2, <2>3, <2>4, <2>5, WaitStartStep, Zenon
<1>3. ASSUME NEW s \in Sentinels, AskForVotes(s) PROVE Inv'
  <2>1. epoch[s] \in Nat /\ conf[s].addr \in Instances
    BY Zenon DEF Inv, TypeOK, Configuration
  <2>2. asks' \subseteq [from : Sentinels, epoch : Nat, addr : Instances]
    BY <2>1, <1>3 DEF AskForVotes, Ask, Inv, TypeOK
  <2>3. QED
    BY <2>2, <1>3, IdleInv, Zenon DEF AskForVotes, history, used, Inv, TypeOK
<1>4. ASSUME NEW s \in Sentinels, DelayOver(s) PROVE Inv'
  BY <1>4, IdleInv DEF DelayOver, sent, history, Inv, TypeOK
<1>5. ASSUME NEW s \in Sentinels, AbortFailover(s) PROVE Inv'
  <2>1. NoFailover \in Failover /\ NoFailover.state = "none"
    BY Zenon DEF NoFailover, Failover
  <2>2. QED
    BY <2>1, <1>5, FailoverStepInv, Zenon DEF AbortFailover
<1>6. ASSUME NEW s \in Sentinels, FailoverSelectSlave(s) PROVE Inv'
  <2>1. PICK i \in Instances : FailoverStep(s, [fo[s] EXCEPT !.state = "send_slaveof_noone",
                                                            !.promoted = i])
    BY <1>6, Zenon DEF FailoverSelectSlave
  <2>2. fo[s] \in Failover /\ fo[s].state = "select_slave"
    BY <1>6, Zenon DEF FailoverSelectSlave, Inv, TypeOK
  <2>3. [fo[s] EXCEPT !.state = "send_slaveof_noone", !.promoted = i] \in Failover
    BY <2>2, Zenon DEF Failover
  <2>4. [fo[s] EXCEPT !.state = "send_slaveof_noone", !.promoted = i].epoch = fo[s].epoch
        /\ fo[s].state # "none"
    BY <2>2, Zenon DEF Failover
  <2>5. QED
    BY <2>1, <2>3, <2>4, FailoverStepInv, Zenon
<1>7. ASSUME NEW s \in Sentinels, FailoverSendSlaveOfNoOne(s) PROVE Inv'
  <2>1. fo[s] \in Failover /\ fo[s].state = "send_slaveof_noone"
    BY <1>7, Zenon DEF FailoverSendSlaveOfNoOne, Inv, TypeOK
  <2>2. [fo[s] EXCEPT !.state = "wait_promotion"] \in Failover
        /\ [fo[s] EXCEPT !.state = "wait_promotion"].epoch = fo[s].epoch
        /\ fo[s].state # "none"
    BY <2>1, Zenon DEF Failover
  <2>3. FailoverStep(s, [fo[s] EXCEPT !.state = "wait_promotion"])
    BY <1>7, Zenon DEF FailoverSendSlaveOfNoOne
  <2>4. QED
    BY <2>2, <2>3, FailoverStepInv, Zenon
<1>8. ASSUME NEW s \in Sentinels, FailoverEnd(s) PROVE Inv'
  <2>1. epoch[s] \in Nat /\ epoch[s] <= epoch[s] /\ conf[s].epoch \in Nat
        /\ fo[s].promoted \in Instances
    <3>1. conf[s] \in Configuration /\ fo[s] \in Failover /\ fo[s].state = "reconf_slaves"
      BY <1>8, Zenon DEF FailoverEnd, Inv, TypeOK
    <3>2. fo[s].promoted \in Instances
      BY <3>1, Zenon DEF Failover
    <3>3. QED
      BY <3>1, <3>2 DEF Inv, TypeOK, Configuration
  <2>2. epoch' = [epoch EXCEPT ![s] = epoch[s]]
    BY <1>8, Zenon DEF FailoverEnd, Inv, TypeOK
  <2>3. /\ ResetMasterAndChangeAddress(s, epoch[s], conf[s].epoch, fo[s].promoted)
        /\ UNCHANGED <<heard, asks, answers, votes, elected, promotions, starts, incidents>>
        /\ crossed' \subseteq Nat
    BY <1>8, Zenon DEF FailoverEnd, sent, history, used, Inv, TypeOK
  <2>4. QED
    BY <2>1, <2>2, <2>3, ResetInv, Zenon
<1>9. ASSUME UNCHANGED vars PROVE Inv'
  BY <1>9, IdleInv, Zenon DEF vars, sent, history, used, Inv, TypeOK
<1>10. QED
  BY <1>1, <1>2, <1>3, <1>4, <1>5, <1>6, <1>7, <1>8, <1>9,
     PromotedInv, RestartInv, RequestInv, HelloInv, ReplyInv, Zenon DEF Next, Others

\* Every variable keeps its shape, for any finite set of Sentinels.
THEOREM SentinelType == Spec => []TypeOK
<1>1. Inv => TypeOK
  BY Zenon DEF Inv
<1>2. QED
  BY <1>1, InitInv, NextInv, PTL DEF Spec

\* sentinelVoteLeader: no Sentinel ever votes for two leaders in one epoch.
THEOREM VoteOnce == Spec => []VoteOncePerEpoch
<1>1. Inv => VoteOncePerEpoch
  BY Zenon DEF Inv, BallotInv
<1>2. QED
  BY <1>1, InitInv, NextInv, PTL DEF Spec

\* sentinelGetLeader: leaders elected in the same, current epoch are the same.
THEOREM LeaderUnique == Spec => []UndisturbedLeaderUnique
<1>1. Inv => UndisturbedLeaderUnique
  BY UniqueFromInv, Zenon
<1>2. QED
  BY <1>1, InitInv, NextInv, PTL DEF Spec

-----------------------------------------------------------------------------
(* The epoch of the last vote.                                             *)

\* A step that changes one vote, to a vote of no earlier epoch, takes none back.
LEMMA VoteForward ==
  ASSUME TypeOK, NEW s \in Sentinels, NEW w \in Vote,
         vote' = [vote EXCEPT ![s] = w], w.epoch >= vote[s].epoch
  PROVE  \A t \in Sentinels : vote'[t].epoch >= vote[t].epoch
<1>1. \A t \in Sentinels : vote[t] \in Vote /\ vote[t].epoch \in Nat
  BY Zenon DEF TypeOK, Vote
<1>2. \A t \in Sentinels : vote'[t] = IF t = s THEN w ELSE vote[t]
  BY Zenon DEF TypeOK
<1>3. QED
  BY <1>1, <1>2

\* A step of the election is a step forward.
LEMMA WaitStartForward ==
  ASSUME Inv, NEW s \in Sentinels, NEW cur \in Nat, epoch[s] <= cur,
         NEW f, f.epoch \in Nat, f.epoch <= cur, NEW losers, WaitStart(s, cur, f, losers)
  PROVE  \A t \in Sentinels : vote'[t].epoch >= vote[t].epoch
<1>1. PICK c \in IF Front(s, cur) = {} THEN {s} ELSE Front(s, cur) :
        vote' = [vote EXCEPT ![s] = VoteLeader(vote[s], cur, f.epoch, c)]
  BY Zenon DEF WaitStart
<1>2. c \in Sentinels
  BY Zenon DEF Front
<1>3. vote[s] \in Vote /\ vote[s].epoch \in Nat /\ epoch[s] \in Nat /\ vote[s].epoch <= cur
  BY DEF Inv, TypeOK, SavedState, EpochInv, Vote
<1> DEFINE w == VoteLeader(vote[s], cur, f.epoch, c)
<1>4. w \in Vote /\ vote[s].epoch <= w.epoch
  BY <1>2, <1>3, VoteLeaderFacts, Zenon
<1>5. TypeOK /\ w.epoch \in Nat
  BY <1>4, Zenon DEF Inv, Vote
<1> HIDE DEF w
<1>6. w.epoch >= vote[s].epoch
  BY <1>3, <1>4, <1>5, Zenon
<1>7. QED
  BY <1>1, <1>4, <1>5, <1>6, VoteForward, Zenon DEF w

\* No step takes the epoch of a vote back.
LEMMA ForwardStep ==
  ASSUME Inv, [Next]_vars
  PROVE  \A t \in Sentinels : vote'[t].epoch >= vote[t].epoch
<1>0. \A t \in Sentinels : vote[t] \in Vote /\ vote[t].epoch \in Nat
  BY Zenon DEF Inv, TypeOK, Vote
<1>1. ASSUME vote' = vote PROVE \A t \in Sentinels : vote'[t].epoch >= vote[t].epoch
  BY <1>0, <1>1
<1>2. ASSUME NEW s \in Sentinels, vote' = [vote EXCEPT ![s].leader = Nobody]
      PROVE  \A t \in Sentinels : vote'[t].epoch >= vote[t].epoch
  <2>1. \A t \in Sentinels : vote'[t].epoch = vote[t].epoch
    BY <1>0, <1>2, Zenon DEF Inv, TypeOK, Vote
  <2>2. QED
    BY <1>0, <2>1
<1>3. ASSUME NEW s \in Sentinels, StartFailoverIfNeeded(s)
      PROVE  \A t \in Sentinels : vote'[t].epoch >= vote[t].epoch
  <2> DEFINE f == [state |-> "wait_start", epoch |-> epoch[s] + 1, promoted |-> Nobody]
  <2>1. epoch[s] + 1 \in Nat /\ epoch[s] <= epoch[s] + 1
    BY DEF Inv, TypeOK
  <2>2. f.epoch \in Nat /\ f.epoch <= epoch[s] + 1
    BY <2>1
  <2>3. WaitStart(s, epoch[s] + 1, f, {f})
    BY <1>3, Zenon DEF StartFailoverIfNeeded
  <2> HIDE DEF f
  <2>4. QED
    BY <2>1, <2>2, <2>3, WaitStartForward, Zenon
<1>4. ASSUME NEW s \in Sentinels, FailoverWaitStart(s)
      PROVE  \A t \in Sentinels : vote'[t].epoch >= vote[t].epoch
  <2>1. epoch[s] \in Nat /\ epoch[s] <= epoch[s] /\ fo[s].epoch \in Nat /\ fo[s].epoch <= epoch[s]
    BY <1>4 DEF FailoverWaitStart, Inv, TypeOK, SavedState, EpochInv, Failover
  <2>2. WaitStart(s, epoch[s], fo[s], {fo[s], NoFailover})
    BY <1>4, Zenon DEF FailoverWaitStart
  <2>3. QED
    BY <2>1, <2>2, WaitStartForward, Zenon
<1>5. ASSUME NEW s \in Sentinels, NEW m \in asks, IsMasterDownByAddr(s, m)
      PROVE  \A t \in Sentinels : vote'[t].epoch >= vote[t].epoch
  <2>1. epoch[s] \in Nat /\ m.epoch \in Nat /\ m.from \in Sentinels /\ vote[s].epoch <= epoch[s]
    BY Zenon DEF Inv, TypeOK, SavedState, EpochInv
  <2> DEFINE cur == Larger(epoch[s], m.epoch)
             w == VoteLeader(vote[s], cur, m.epoch, m.from)
  <2>2. cur \in Nat /\ m.epoch <= cur /\ vote[s].epoch <= cur
    BY <1>0, <2>1 DEF Larger
  <2>3. vote' = [vote EXCEPT ![s] = w]
    BY <1>5, Zenon DEF IsMasterDownByAddr
  <2> HIDE DEF cur
  <2>4. w \in Vote /\ vote[s].epoch <= w.epoch
    BY <1>0, <2>1, <2>2, VoteLeaderFacts, Zenon
  <2> HIDE DEF w
  <2>5. TypeOK /\ w.epoch >= vote[s].epoch
    BY <1>0, <2>4, Zenon DEF Inv, Vote
  <2>6. QED
    BY <2>3, <2>4, <2>5, VoteForward, Zenon
<1>6. ASSUME NEW s \in Sentinels, Restart(s)
      PROVE  \A t \in Sentinels : vote'[t].epoch >= vote[t].epoch
  <2> DEFINE w == [leader |-> Nobody, epoch |-> disk[s].voted]
  <2>1. w \in Vote /\ w.epoch >= vote[s].epoch
    BY <1>0 DEF Inv, EpochInv, Vote
  <2>2. vote' = [vote EXCEPT ![s] = w] /\ TypeOK
    BY <1>6, Zenon DEF Restart, Inv
  <2> HIDE DEF w
  <2>3. QED
    BY <2>1, <2>2, VoteForward, Zenon
<1>7. ASSUME NEW s \in Sentinels, FailoverEnd(s)
      PROVE  \A t \in Sentinels : vote'[t].epoch >= vote[t].epoch
  BY <1>2, <1>7, Zenon DEF FailoverEnd, ResetMasterAndChangeAddress
<1>8. ASSUME NEW s \in Sentinels, NEW t \in Others(s), ProcessHelloMessage(s, Hello(t))
      PROVE  \A u \in Sentinels : vote'[u].epoch >= vote[u].epoch
  BY <1>1, <1>2, <1>8, Zenon DEF ProcessHelloMessage, ResetMasterAndChangeAddress
<1>9. ASSUME NEW s \in Sentinels,
             \/ AskForVotes(s) \/ DelayOver(s) \/ AbortFailover(s) \/ FailoverSelectSlave(s)
             \/ FailoverSendSlaveOfNoOne(s) \/ PromotedSlave(s)
      PROVE  vote' = vote
  BY <1>9, Zenon DEF AskForVotes, DelayOver, AbortFailover, FailoverSelectSlave,
              FailoverSendSlaveOfNoOne, PromotedSlave, FailoverStep
<1>10. ASSUME NEW m \in answers, ReceiveIsMasterDownReply(m) PROVE vote' = vote
  BY <1>10, Zenon DEF ReceiveIsMasterDownReply
<1>11. UNCHANGED vars => vote' = vote
  BY Zenon DEF vars
<1>12. QED
  BY <1>1, <1>3, <1>4, <1>5, <1>6, <1>7, <1>8, <1>9, <1>10, <1>11, Zenon DEF Next

\* sentinelVoteLeader, sentinelFlushConfig and the configuration file: the
\* epoch of a Sentinel's last vote never goes back.
THEOREM VoteForwardOnly == Spec => VoteEpochNeverBack
<1>1. Inv /\ [Next]_vars => [\A s \in Sentinels : vote'[s].epoch >= vote[s].epoch]_vars
  BY ForwardStep, Zenon
<1>2. QED
  BY <1>1, InitInv, NextInv, PTL DEF Spec, VoteEpochNeverBack

-----------------------------------------------------------------------------
(* The configuration.                                                      *)

\* The epoch e for the address a is the first one, was taken over by a leader
\* (X) or was won by a promotion (P).
Backed(P, X, e, a) == e \in X \cup {0} \/ [epoch |-> e, addr |-> a] \in P

\* What a Sentinel advertises is backed, and so is what its file holds.
ConfigInv ==
  \A s \in Sentinels :
    /\ Backed(promotions, crossed, conf[s].epoch, CurrentMasterAddress(conf[s], fo[s]))
    /\ Backed(promotions, crossed, disk[s].conf.epoch, disk[s].conf.addr)

\* What a backed configuration leaves in the file is backed.
LEMMA SavedBacked ==
  ASSUME NEW cur, NEW v, NEW c, NEW f, NEW P, NEW X,
         Backed(P, X, c.epoch, CurrentMasterAddress(c, f))
  PROVE  Backed(P, X, Saved(cur, v, c, f).conf.epoch, Saved(cur, v, c, f).conf.addr)
BY Zenon DEF Saved

\* A Sentinel whose new configuration and new file are backed.
LEMMA BackedStep ==
  ASSUME TypeOK, ConfigInv, NEW s \in Sentinels, NEW c, NEW f, NEW d,
         conf' = [conf EXCEPT ![s] = c], fo' = [fo EXCEPT ![s] = f],
         disk' = [disk EXCEPT ![s] = d],
         promotions \subseteq promotions', crossed \subseteq crossed',
         Backed(promotions', crossed', c.epoch, CurrentMasterAddress(c, f)),
         Backed(promotions', crossed', d.conf.epoch, d.conf.addr)
  PROVE  ConfigInv'
<1> SUFFICES ASSUME NEW t \in Sentinels
             PROVE  /\ Backed(promotions', crossed', conf'[t].epoch,
                              CurrentMasterAddress(conf'[t], fo'[t]))
                    /\ Backed(promotions', crossed', disk'[t].conf.epoch, disk'[t].conf.addr)
  BY Zenon DEF ConfigInv
<1>1. CASE t = s
  <2>1. conf'[t] = c /\ fo'[t] = f /\ disk'[t] = d
    BY <1>1, Zenon DEF TypeOK
  <2>2. QED
    BY <2>1, Zenon
<1>2. CASE t # s
  <2>1. conf'[t] = conf[t] /\ fo'[t] = fo[t] /\ disk'[t] = disk[t]
    BY <1>2, Zenon DEF TypeOK
  <2>2. \A e, a : Backed(promotions, crossed, e, a) => Backed(promotions', crossed', e, a)
    BY Zenon DEF Backed
  <2>3. /\ Backed(promotions, crossed, conf[t].epoch, CurrentMasterAddress(conf[t], fo[t]))
        /\ Backed(promotions, crossed, disk[t].conf.epoch, disk[t].conf.addr)
    BY Zenon DEF ConfigInv
  <2>4. QED
    BY <2>1, <2>2, <2>3, Zenon
<1>3. QED
  BY <1>1, <1>2, Zenon

\* A step that keeps configurations and changes a failover that has not seen
\* its slave promoted; the file is kept or written.
LEMMA QuietConfig ==
  ASSUME TypeOK, ConfigInv, NEW s \in Sentinels, NEW f, NEW cur, NEW v, NEW g,
         conf' = conf, fo' = [fo EXCEPT ![s] = f],
         \/ disk' = disk
         \/ disk' = [disk EXCEPT ![s] = Saved(cur, v, conf[s], g)],
         promotions' = promotions, crossed' = crossed,
         \/ f = fo[s]
         \/ f.state # "reconf_slaves" /\ fo[s].state # "reconf_slaves",
         \/ g = fo[s]
         \/ g.state # "reconf_slaves" /\ fo[s].state # "reconf_slaves"
  PROVE  ConfigInv'
<1>1. /\ CurrentMasterAddress(conf[s], f) = CurrentMasterAddress(conf[s], fo[s])
      /\ CurrentMasterAddress(conf[s], g) = CurrentMasterAddress(conf[s], fo[s])
  BY Zenon DEF CurrentMasterAddress
<1>2. /\ Backed(promotions', crossed', conf[s].epoch, CurrentMasterAddress(conf[s], f))
      /\ Backed(promotions', crossed', conf[s].epoch, CurrentMasterAddress(conf[s], g))
      /\ Backed(promotions', crossed', disk[s].conf.epoch, disk[s].conf.addr)
  BY <1>1, Zenon DEF ConfigInv
<1>3. conf' = [conf EXCEPT ![s] = conf[s]] /\ disk = [disk EXCEPT ![s] = disk[s]]
      /\ promotions \subseteq promotions' /\ crossed \subseteq crossed'
  BY Zenon DEF TypeOK
<1>4. CASE disk' = disk
  BY <1>2, <1>3, <1>4, BackedStep, Zenon
<1>5. CASE disk' = [disk EXCEPT ![s] = Saved(cur, v, conf[s], g)]
  <2> DEFINE d == Saved(cur, v, conf[s], g)
  <2>1. Backed(promotions', crossed', d.conf.epoch, d.conf.addr)
    BY <1>2, SavedBacked, Zenon
  <2>2. disk' = [disk EXCEPT ![s] = d]
    BY <1>5, Zenon
  <2> HIDE DEF d
  <2>3. QED
    BY <1>2, <1>3, <2>1, <2>2, BackedStep, Zenon
<1>6. QED
  BY <1>4, <1>5, Zenon

\* A change of address to one that is backed.
LEMMA ResetConfig ==
  ASSUME TypeOK, ConfigInv, NEW s \in Sentinels, NEW cur, NEW e, NEW a,
         ResetMasterAndChangeAddress(s, cur, e, a),
         promotions' = promotions, crossed' = crossed,
         Backed(promotions, crossed, e, a)
  PROVE  ConfigInv'
<1> DEFINE c == [epoch |-> e, addr |-> a]
           d == Saved(cur, vote[s], c, NoFailover)
<1>1. /\ conf' = [conf EXCEPT ![s] = c] /\ fo' = [fo EXCEPT ![s] = NoFailover]
      /\ disk' = [disk EXCEPT ![s] = d]
  BY Zenon DEF ResetMasterAndChangeAddress, TypeOK
<1>2. Backed(promotions', crossed', c.epoch, CurrentMasterAddress(c, NoFailover))
  BY Zenon DEF CurrentMasterAddress, NoFailover
<1> HIDE DEF c
<1>3. Backed(promotions', crossed', d.conf.epoch, d.conf.addr)
  BY <1>2, SavedBacked, Zenon
<1> HIDE DEF d
<1>4. promotions \subseteq promotions' /\ crossed \subseteq crossed'
  BY Zenon
<1>5. QED
  BY <1>1, <1>2, <1>3, <1>4, BackedStep, Zenon

\* Steps of one failover that has not seen its slave promoted.
LEMMA FailoverStepConfig ==
  ASSUME TypeOK, ConfigInv, NEW s \in Sentinels, NEW f, FailoverStep(s, f),
         f.state # "reconf_slaves" /\ fo[s].state # "reconf_slaves"
  PROVE  ConfigInv'
<1>1. /\ conf' = conf /\ fo' = [fo EXCEPT ![s] = f] /\ disk' = disk
      /\ promotions' = promotions /\ crossed' = crossed
  BY Zenon DEF FailoverStep, history
<1>2. QED
  BY <1>1, QuietConfig, Zenon

\* A step of the election.
LEMMA WaitStartConfig ==
  ASSUME TypeOK, ConfigInv, NEW s \in Sentinels, NEW cur, NEW f, NEW losers,
         fo[s].state # "reconf_slaves", f \in Failover, f.state = "wait_start",
         losers \subseteq {f, NoFailover}, WaitStart(s, cur, f, losers)
  PROVE  ConfigInv'
<1>1. PICK v, g :
        /\ fo' = [fo EXCEPT ![s] = g] /\ g \in losers \cup {[f EXCEPT !.state = "select_slave"]}
        /\ disk' = disk \/ disk' = [disk EXCEPT ![s] = Saved(cur, v, conf[s], f)]
        /\ conf' = conf /\ promotions' = promotions /\ crossed' = crossed
  BY Zenon DEF WaitStart
<1>2. g.state # "reconf_slaves" /\ f.state # "reconf_slaves"
  BY <1>1 DEF Failover, NoFailover
<1>3. CASE disk' = disk
  BY <1>1, <1>2, <1>3, QuietConfig, Zenon
<1>4. CASE disk' = [disk EXCEPT ![s] = Saved(cur, v, conf[s], f)]
  BY <1>1, <1>2, <1>4, QuietConfig, Zenon
<1>5. QED
  BY <1>1, <1>3, <1>4, Zenon

\* The acknowledged promotion backs the new configuration.
LEMMA PromotedConfig ==
  ASSUME TypeOK, ConfigInv, NEW s \in Sentinels, PromotedSlave(s)
  PROVE  ConfigInv'
<1>1. PICK c, f :
        /\ f = [fo[s] EXCEPT !.state = "reconf_slaves"]
        /\ c = [conf[s] EXCEPT !.epoch = fo[s].epoch]
  BY Zenon
<1>2. /\ f.state = "reconf_slaves" /\ f.promoted = fo[s].promoted
      /\ c.epoch = fo[s].epoch
  <2>1. fo[s] \in Failover /\ conf[s] \in Configuration
    BY Zenon DEF TypeOK
  <2>2. QED
    BY <1>1, <2>1, Zenon DEF Failover, Configuration
<1>3. /\ conf' = [conf EXCEPT ![s] = c] /\ fo' = [fo EXCEPT ![s] = f]
      /\ promotions' = promotions \cup {[epoch |-> fo[s].epoch, addr |-> fo[s].promoted]}
      /\ crossed' = crossed
  BY <1>1, Zenon DEF PromotedSlave, TypeOK
<1> DEFINE d == Saved(epoch[s], vote[s], c, f)
<1>4. disk' = [disk EXCEPT ![s] = d]
  <2>1. conf'[s] = c /\ fo'[s] = f
    BY <1>3, Zenon DEF TypeOK
  <2>2. QED
    BY <2>1, Zenon DEF PromotedSlave
<1>5. Backed(promotions', crossed', c.epoch, CurrentMasterAddress(c, f))
  BY <1>2, <1>3, Zenon DEF Backed, CurrentMasterAddress
<1>6. Backed(promotions', crossed', d.conf.epoch, d.conf.addr)
  BY <1>5, SavedBacked, Zenon
<1>7. promotions \subseteq promotions' /\ crossed \subseteq crossed'
  BY <1>3, Zenon
<1> HIDE DEF d
<1>8. QED
  BY <1>3, <1>4, <1>5, <1>6, <1>7, BackedStep, Zenon

\* A hello message: its configuration is that of its sender.
LEMMA HelloConfig ==
  ASSUME TypeOK, ConfigInv, NEW t \in Sentinels, NEW u \in Sentinels,
         ProcessHelloMessage(t, Hello(u))
  PROVE  ConfigInv'
<1> DEFINE m == Hello(u)
           cur == Larger(epoch[t], m.epoch)
           newer == conf[t].epoch < m.conf
<1>1. Backed(promotions, crossed, m.conf, m.addr)
  BY Zenon DEF Hello, ConfigInv
<1>2. promotions' = promotions
  BY Zenon DEF ProcessHelloMessage
<1>3. CASE newer /\ m.addr # conf[t].addr
  <2>1. ResetMasterAndChangeAddress(t, cur, m.conf, m.addr) /\ crossed' = crossed
    BY <1>3, Zenon DEF ProcessHelloMessage
  <2> HIDE DEF m, cur
  <2>2. QED
    BY <1>1, <1>2, <2>1, ResetConfig, Zenon
<1>4. CASE ~(newer /\ m.addr # conf[t].addr)
  <2>1. PICK c : c = [conf[t] EXCEPT !.epoch = Larger(conf[t].epoch, m.conf)]
    BY Zenon
  <2>2. c.epoch = Larger(conf[t].epoch, m.conf) /\ c.addr = conf[t].addr
    <3>1. conf[t] \in Configuration
      BY Zenon DEF TypeOK
    <3>2. QED
      BY <2>1, <3>1, Zenon DEF Configuration
  <2>3. /\ conf' = [conf EXCEPT ![t] = c]
        /\ crossed' = crossed \cup
             (IF newer /\ fo[t].state = "reconf_slaves" THEN {m.conf} ELSE {})
        /\ fo' = [fo EXCEPT ![t] = fo[t]]
        /\ \/ disk' = [disk EXCEPT ![t] = disk[t]]
           \/ disk' = [disk EXCEPT ![t] = Saved(cur, vote[t], conf[t], fo[t])]
    BY <1>4, <2>1, Zenon DEF ProcessHelloMessage, TypeOK
  <2>4. promotions \subseteq promotions' /\ crossed \subseteq crossed'
    BY <1>2, <2>3, Zenon
  <2>5. \A e, a : Backed(promotions, crossed, e, a) => Backed(promotions', crossed', e, a)
    BY <2>4, Zenon DEF Backed
  <2>6. Backed(promotions', crossed', c.epoch, CurrentMasterAddress(c, fo[t]))
    <3>1. CASE ~newer
      <4>1. c.epoch = conf[t].epoch
        BY <3>1, <2>2, Zenon DEF Larger
      <4>2. CurrentMasterAddress(c, fo[t]) = CurrentMasterAddress(conf[t], fo[t])
        BY <2>2, Zenon DEF CurrentMasterAddress
      <4>3. QED
        BY <4>1, <4>2, <2>5, Zenon DEF ConfigInv
    <3>2. CASE newer /\ fo[t].state = "reconf_slaves"
      BY <3>2, <2>2, <2>3, Zenon DEF Larger, Backed
    <3>3. CASE newer /\ fo[t].state # "reconf_slaves"
      <4>1. c.epoch = m.conf /\ CurrentMasterAddress(c, fo[t]) = m.addr
        BY <1>4, <3>3, <2>2, Zenon DEF Larger, CurrentMasterAddress
      <4>2. QED
        BY <4>1, <1>1, <2>5, Zenon
    <3>4. QED
      BY <3>1, <3>2, <3>3, Zenon
  <2>7. /\ Backed(promotions', crossed', disk[t].conf.epoch, disk[t].conf.addr)
        /\ Backed(promotions', crossed', conf[t].epoch, CurrentMasterAddress(conf[t], fo[t]))
    BY <2>5, Zenon DEF ConfigInv
  <2> DEFINE d == Saved(cur, vote[t], conf[t], fo[t])
  <2> HIDE DEF cur
  <2>8. Backed(promotions', crossed', d.conf.epoch, d.conf.addr)
    BY <2>7, SavedBacked, Zenon
  <2>9. CASE disk' = [disk EXCEPT ![t] = disk[t]]
    BY <2>9, <2>3, <2>4, <2>6, <2>7, BackedStep, Zenon
  <2>10. CASE disk' = [disk EXCEPT ![t] = d]
    <3> HIDE DEF d
    <3>1. QED
      BY <2>10, <2>3, <2>4, <2>6, <2>8, BackedStep, Zenon
  <2>11. QED
    BY <2>3, <2>9, <2>10, Zenon
<1>5. QED
  BY <1>3, <1>4, Zenon

\* A restart takes the configuration from the file.
LEMMA RestartConfig ==
  ASSUME TypeOK, ConfigInv, NEW s \in Sentinels, Restart(s)
  PROVE  ConfigInv'
<1>1. /\ conf' = [conf EXCEPT ![s] = disk[s].conf] /\ fo' = [fo EXCEPT ![s] = NoFailover]
      /\ disk' = [disk EXCEPT ![s] = disk[s]] /\ promotions' = promotions /\ crossed' = crossed
  BY Zenon DEF Restart, history, TypeOK
<1>2. promotions \subseteq promotions' /\ crossed \subseteq crossed'
  BY <1>1, Zenon
<1>3. /\ Backed(promotions', crossed', disk[s].conf.epoch, disk[s].conf.addr)
      /\ CurrentMasterAddress(disk[s].conf, NoFailover) = disk[s].conf.addr
  BY <1>1, Zenon DEF ConfigInv, CurrentMasterAddress, NoFailover
<1>4. Backed(promotions', crossed', disk[s].conf.epoch, CurrentMasterAddress(disk[s].conf, NoFailover))
  BY <1>3, Zenon
<1>5. QED
  BY <1>1, <1>2, <1>3, <1>4, BackedStep, Zenon

\* Every step keeps the configurations backed.
LEMMA ConfigNext == Inv /\ ConfigInv /\ [Next]_vars => ConfigInv'
<1> SUFFICES ASSUME Inv, ConfigInv, [Next]_vars PROVE ConfigInv'
  BY Zenon
<1>0. TypeOK
  BY Zenon DEF Inv
<1>1. ASSUME UNCHANGED <<conf, fo, disk, promotions, crossed>> PROVE ConfigInv'
  BY <1>1, Zenon DEF ConfigInv
<1>2. ASSUME NEW s \in Sentinels, StartFailoverIfNeeded(s) PROVE ConfigInv'
  <2> DEFINE f == [state |-> "wait_start", epoch |-> epoch[s] + 1, promoted |-> Nobody]
  <2>1. f \in Failover /\ f.state = "wait_start" /\ {f} \subseteq {f, NoFailover}
    BY DEF Failover, Inv, TypeOK
  <2>2. WaitStart(s, epoch[s] + 1, f, {f}) /\ fo[s].state # "reconf_slaves"
    BY <1>2, Zenon DEF StartFailoverIfNeeded
  <2> HIDE DEF f
  <2>3. QED
    BY <1>0, <2>1, <2>2, WaitStartConfig, Zenon
<1>3. ASSUME NEW s \in Sentinels, FailoverWaitStart(s) PROVE ConfigInv'
  <2>1. /\ fo[s] \in Failover /\ fo[s].state = "wait_start" /\ fo[s].state # "reconf_slaves"
        /\ {fo[s], NoFailover} \subseteq {fo[s], NoFailover}
        /\ WaitStart(s, epoch[s], fo[s], {fo[s], NoFailover})
    BY <1>3, Zenon DEF FailoverWaitStart, Inv, TypeOK
  <2>2. QED
    BY <1>0, <2>1, WaitStartConfig, Zenon
<1>4. ASSUME NEW s \in Sentinels,
             AskForVotes(s) \/ DelayOver(s)
      PROVE  ConfigInv'
  BY <1>1, <1>4, Zenon DEF AskForVotes, DelayOver, history
<1>5. ASSUME NEW s \in Sentinels, AbortFailover(s) PROVE ConfigInv'
  <2>1. /\ FailoverStep(s, NoFailover)
        /\ NoFailover.state # "reconf_slaves" /\ fo[s].state # "reconf_slaves"
    BY <1>5, Zenon DEF AbortFailover, NoFailover
  <2>2. QED
    BY <1>0, <2>1, FailoverStepConfig, Zenon
<1>6. ASSUME NEW s \in Sentinels, FailoverSelectSlave(s) PROVE ConfigInv'
  <2>1. PICK f : \E i \in Instances : f = [fo[s] EXCEPT !.state = "send_slaveof_noone",
                                                       !.promoted = i]
                                      /\ FailoverStep(s, f)
    BY <1>6, Zenon DEF FailoverSelectSlave
  <2>2. fo[s] \in Failover /\ fo[s].state = "select_slave"
    BY <1>6, Zenon DEF FailoverSelectSlave, Inv, TypeOK
  <2>3. f.state # "reconf_slaves" /\ fo[s].state # "reconf_slaves"
    BY <2>1, <2>2, Zenon DEF Failover
  <2>4. QED
    BY <1>0, <2>1, <2>3, FailoverStepConfig, Zenon
<1>7. ASSUME NEW s \in Sentinels, FailoverSendSlaveOfNoOne(s) PROVE ConfigInv'
  <2>1. PICK f : f = [fo[s] EXCEPT !.state = "wait_promotion"] /\ FailoverStep(s, f)
    BY <1>7, Zenon DEF FailoverSendSlaveOfNoOne
  <2>2. fo[s] \in Failover /\ fo[s].state = "send_slaveof_noone"
    BY <1>7, Zenon DEF FailoverSendSlaveOfNoOne, Inv, TypeOK
  <2>3. f.state # "reconf_slaves" /\ fo[s].state # "reconf_slaves"
    BY <2>1, <2>2, Zenon DEF Failover
  <2>4. QED
    BY <1>0, <2>1, <2>3, FailoverStepConfig, Zenon
<1>8. ASSUME NEW s \in Sentinels, FailoverEnd(s) PROVE ConfigInv'
  <2>1. /\ ResetMasterAndChangeAddress(s, epoch[s], conf[s].epoch, fo[s].promoted)
        /\ promotions' = promotions /\ crossed' = crossed /\ fo[s].state = "reconf_slaves"
    BY <1>8, Zenon DEF FailoverEnd, history
  <2>2. Backed(promotions, crossed, conf[s].epoch, fo[s].promoted)
    BY <2>1, Zenon DEF ConfigInv, CurrentMasterAddress
  <2>3. QED
    BY <1>0, <2>1, <2>2, ResetConfig, Zenon
<1>9. ASSUME NEW s \in Sentinels, NEW m \in asks, IsMasterDownByAddr(s, m) PROVE ConfigInv'
  <2>1. PICK cur, v : disk' = disk \/ disk' = [disk EXCEPT ![s] = Saved(cur, v, conf[s], fo[s])]
    BY <1>9, Zenon DEF IsMasterDownByAddr
  <2>2. /\ conf' = conf /\ fo' = [fo EXCEPT ![s] = fo[s]]
        /\ promotions' = promotions /\ crossed' = crossed
    BY <1>9, Zenon DEF IsMasterDownByAddr, Inv, TypeOK
  <2>3. CASE disk' = disk
    BY <1>0, <2>2, <2>3, QuietConfig, Zenon
  <2>4. CASE disk' = [disk EXCEPT ![s] = Saved(cur, v, conf[s], fo[s])]
    BY <1>0, <2>2, <2>4, QuietConfig, Zenon
  <2>5. QED
    BY <2>1, <2>3, <2>4, Zenon
<1>10. ASSUME NEW m \in answers, ReceiveIsMasterDownReply(m) PROVE ConfigInv'
  BY <1>1, <1>10, Zenon DEF ReceiveIsMasterDownReply, history
<1>11. UNCHANGED vars => ConfigInv'
  BY <1>1, Zenon DEF vars, history
<1>12. QED
  BY <1>0, <1>2, <1>3, <1>4, <1>5, <1>6, <1>7, <1>8, <1>9, <1>10, <1>11,
     PromotedConfig, HelloConfig, RestartConfig, Zenon DEF Next, Others

\* The addresses that Sentinels advertise were won, whatever is exchanged,
\* aborted or restarted.
THEOREM ConfigurationBacked == Spec => []ConfigurationWasWon
<1>1. Init => ConfigInv
  BY DEF Init, ConfigInv, Backed, Saved
<1>2. ConfigInv => ConfigurationWasWon
  BY Zenon DEF ConfigInv, Backed, ConfigurationWasWon
<1>3. QED
  BY <1>1, <1>2, InitInv, NextInv, ConfigNext, PTL DEF Spec
=============================================================================
