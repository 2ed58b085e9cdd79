---------------------------- MODULE VotingProofs ----------------------------
(***************************************************************************)
(* Theorems about Voting, for every validator set, quorum system, bound on *)
(* rounds and restarts, and for every way the goroutines of a node are     *)
(* scheduled.                                                              *)
(***************************************************************************)
EXTENDS Voting, TLAPS, SequenceTheorems

-----------------------------------------------------------------------------
(* The inductive invariant. *)

PolkaOf(v) == [type |-> "prevote", round |-> v.round, block |-> v.block]
CommitOf(c) == [type |-> "precommit", round |-> c.round, block |-> c.block]

\* A decision of node n that the votes V justify: a vote of its own, and if it
\* is a precommit for a block, a polka for it; a proposal whose certificate is
\* backed; a commit whose quorum exists.
Justified(n, st, V) ==
  /\ st.op \in {"prevote", "precommit", "flush"} =>
       /\ st.vote.voter = n
       /\ st.vote.type = "precommit" /\ st.vote.block # Nil => PolkaOf(st.vote) \in Reached(V)
  /\ st.op = "ingest" => CertTally(st.polka) \subseteq Reached(V)
  /\ st.op = "finish" => CommitOf(st.cert) \in Reached(V)

StepsOf(n, V) == {st \in Step : Justified(n, st, V)}
QueuedOf(n, V) == {st \in CastStep \cup IngestStep : Justified(n, st, V)}

Control ==
  \A n \in Honest : \A g \in Goroutine :
    /\ pc[n][g] \in StepsOf(n, votes)
    /\ queue[n][g] \in Seq(QueuedOf(n, votes))

\* Every quorum a node, a proposal or a decision relies on is made of votes
\* that were published.
Tallied ==
  /\ \A n \in Honest : quorums[n] \subseteq Reached(votes)
  /\ \A p \in proposals : CertTally(p.polka) \subseteq Reached(votes)
  /\ \A n \in Honest : decided[n] # None => CommitOf(decided[n]) \in Reached(votes)

\* Until it commits, a node remembers every vote it published, in memory and
\* on disk.
Remembered ==
  \A n \in Honest : decided[n] = None => own[n] = CastBy(n) /\ disk[n] = CastBy(n)

VotesBacked ==
  \A v \in votes :
    v.voter \in Honest /\ v.type = "precommit" /\ v.block # Nil => PolkaOf(v) \in Reached(votes)

IInv == TypeOK /\ Control /\ Tallied /\ Remembered /\ VotesBacked /\ OncePerPosition

-----------------------------------------------------------------------------
(* Quorums only grow. *)

LEMMA ReachedMonotone ==
  ASSUME NEW V, NEW W, V \subseteq W, W \subseteq Vote
  PROVE  Reached(V) \subseteq Reached(W)
<1> SUFFICES ASSUME NEW q \in Reached(V) PROVE q \in Reached(W)
  OBVIOUS
<1>1. Voters(V, q) \subseteq Voters(W, q)
  BY DEF Voters
<1>2. Voters(W, q) \subseteq Validator
  BY DEF Voters
<1>3. Voters(V, q) \in Quorum
  BY DEF Reached, HasQuorum
<1>4. Voters(W, q) \in Quorum
  BY <1>1, <1>2, <1>3, VotingAssumption
<1> QED
  BY <1>4 DEF Reached, HasQuorum

LEMMA StepsMonotone ==
  ASSUME NEW n, NEW V, NEW W, V \subseteq W, W \subseteq Vote
  PROVE  /\ StepsOf(n, V) \subseteq StepsOf(n, W)
         /\ QueuedOf(n, V) \subseteq QueuedOf(n, W)
         /\ Seq(QueuedOf(n, V)) \subseteq Seq(QueuedOf(n, W))
<1>1. Reached(V) \subseteq Reached(W)
  BY ReachedMonotone
<1>2. \A st : Justified(n, st, V) => Justified(n, st, W)
  BY <1>1 DEF Justified
<1>3. QueuedOf(n, V) \subseteq QueuedOf(n, W)
  BY <1>2 DEF QueuedOf
<1> QED
  BY <1>2, <1>3, SeqMonotonic DEF StepsOf

LEMMA ReachedTally == ASSUME NEW V PROVE Reached(V) \subseteq Tally
  BY DEF Reached

-----------------------------------------------------------------------------
(* What the control operators leave a goroutine with. *)

LEMMA RunResult ==
  ASSUME NEW Q, NEW steps \in Seq(Q)
  PROVE  /\ (IF steps = <<>> THEN Idle ELSE Head(steps)) \in Q \cup {Idle}
         /\ (IF steps = <<>> THEN <<>> ELSE Tail(steps)) \in Seq(Q)
<1>1. CASE steps = <<>>
  BY <1>1, EmptySeq
<1>2. CASE steps # <<>>
  BY <1>2, HeadTailProperties
<1> QED
  BY <1>1, <1>2

LEMMA IdleJustified == ASSUME NEW n, NEW V PROVE Idle \in StepsOf(n, V)
  BY DEF Idle, StepsOf, Step, Justified

LEMMA QueuedAreSteps == ASSUME NEW n, NEW V PROVE QueuedOf(n, V) \subseteq StepsOf(n, V)
  BY DEF QueuedOf, StepsOf, Step

\* The control state stays justified when one goroutine moves to a justified
\* step and votes are only added.
LEMMA ControlMoves ==
  ASSUME TypeOK, Control, votes \subseteq votes', votes' \subseteq Vote,
         NEW n \in Honest, NEW g \in Goroutine,
         NEW st \in StepsOf(n, votes'), NEW sq \in Seq(QueuedOf(n, votes')),
         pc' = [pc EXCEPT ![n][g] = st],
         queue' = [queue EXCEPT ![n][g] = sq]
  PROVE  /\ Control'
         /\ pc' \in [Validator -> [Goroutine -> Step]]
         /\ queue' \in [Validator -> [Goroutine -> Seq(CastStep \cup IngestStep)]]
<1>1. \A m \in Honest : \A h \in Goroutine :
        pc[m][h] \in StepsOf(m, votes') /\ queue[m][h] \in Seq(QueuedOf(m, votes'))
  BY StepsMonotone DEF Control
<1>2. sq \in Seq(CastStep \cup IngestStep)
  BY SeqMonotonic DEF QueuedOf
<1>3. st \in Step
  BY DEF StepsOf
<1>4. pc \in [Validator -> [Goroutine -> Step]]
  BY DEF TypeOK
<1>5. queue \in [Validator -> [Goroutine -> Seq(CastStep \cup IngestStep)]]
  BY DEF TypeOK
<1>6. n \in Validator
  BY DEF Honest
<1>7. Control'
  <2> SUFFICES ASSUME NEW m \in Honest, NEW h \in Goroutine
               PROVE  pc'[m][h] \in StepsOf(m, votes') /\ queue'[m][h] \in Seq(QueuedOf(m, votes'))
    BY DEF Control
  <2>1. m \in Validator
    BY DEF Honest
  <2>2. CASE m = n /\ h = g
    BY <1>4, <1>5, <1>6, <2>2
  <2>3. CASE ~(m = n /\ h = g)
    BY <1>1, <1>4, <1>5, <1>6, <2>1, <2>3
  <2> QED
    BY <2>2, <2>3
<1>8. pc' \in [Validator -> [Goroutine -> Step]]
  BY <1>3, <1>4, <1>6
<1>9. queue' \in [Validator -> [Goroutine -> Seq(CastStep \cup IngestStep)]]
  BY <1>2, <1>5, <1>6
<1> QED
  BY <1>7, <1>8, <1>9

-----------------------------------------------------------------------------
(* What follows a recorded vote, at a node whose quorums are S. *)

LEMMA DecisionsJustified ==
  ASSUME NEW n \in Honest, NEW V, NEW S, S \subseteq Reached(V),
         NEW O, NEW B, NEW r \in Round,
         NEW v \in Decisions(n, r, S, O, B)
  PROVE  Cast("precommit", v) \in StepsOf(n, V)
<1>1. S \subseteq Tally
  BY ReachedTally
<1>2. n \in Validator
  BY DEF Honest
<1>3. CASE v.block = Nil
  <2>1. v = VoteOf("precommit", r, Nil, n)
    BY <1>1, <1>3 DEF Decisions, VoteOf, Highest, Polkas
  <2>2. v \in Vote
    BY <1>2, <2>1 DEF VoteOf, Vote, Phase
  <2> QED
    BY <2>1, <2>2 DEF Cast, StepsOf, Step, CastStep, Justified, VoteOf
<1>4. CASE v.block # Nil
  <2>1. PICK q \in Highest(Polkas(S)) : v = VoteOf("precommit", r, q.block, n) /\ \E p \in Highest(Polkas(S)) : p.round = r
    BY <1>4 DEF Decisions, VoteOf
  <2>2. PICK p \in Highest(Polkas(S)) : p.round = r
    BY <2>1
  <2>3. q \in S /\ p \in S /\ q.type = "prevote" /\ q.block # Nil /\ q.round <= p.round /\ p.round <= q.round
    BY <2>2 DEF Highest, Polkas
  <2>4. q \in Tally /\ p \in Tally
    BY <1>1, <2>3
  <2>5. q.round = r
    BY <2>2, <2>3, <2>4, VotingAssumption DEF Tally, Round
  <2>6. q = [type |-> "prevote", round |-> r, block |-> q.block] /\ q.block \in Block
    BY <2>3, <2>4, <2>5 DEF Tally
  <2>7. v = [type |-> "precommit", round |-> r, block |-> q.block, voter |-> n]
    BY <2>1 DEF VoteOf
  <2>8. v \in Vote
    BY <1>2, <2>6, <2>7 DEF Vote, Phase
  <2>9. PolkaOf(v) = q
    BY <2>6, <2>7 DEF PolkaOf
  <2> QED
    BY <2>3, <2>7, <2>8, <2>9 DEF Cast, StepsOf, Step, CastStep, Justified
<1> QED
  BY <1>3, <1>4

LEMMA ResumeResult ==
  ASSUME TypeOK, Control, votes \subseteq votes', votes' \subseteq Vote,
         NEW n \in Honest, NEW g \in Goroutine, Resume(n, g)
  PROVE  \E st \in StepsOf(n, votes'), sq \in Seq(QueuedOf(n, votes')) :
           /\ pc' = [pc EXCEPT ![n][g] = st]
           /\ queue' = [queue EXCEPT ![n][g] = sq]
<1> DEFINE Q == QueuedOf(n, votes')
           steps == queue[n][g]
<1>1. /\ steps \in Seq(Q)
      /\ pc' = [pc EXCEPT ![n][g] = IF steps = <<>> THEN Idle ELSE Head(steps)]
      /\ queue' = [queue EXCEPT ![n][g] = IF steps = <<>> THEN <<>> ELSE Tail(steps)]
  BY StepsMonotone DEF Control, Resume, Run
<1> HIDE DEF Q, steps
<1>2. \E st \in Q \cup {Idle}, sq \in Seq(Q) :
         /\ pc' = [pc EXCEPT ![n][g] = st]
         /\ queue' = [queue EXCEPT ![n][g] = sq]
  BY <1>1, RunResult
<1> QED
  BY <1>2, QueuedAreSteps, IdleJustified DEF Q

LEMMA MaybeCommitResult ==
  ASSUME TypeOK, Control, votes \subseteq votes', votes' \subseteq Vote,
         NEW n \in Honest, NEW g \in Goroutine,
         NEW S, S \subseteq Reached(votes'), NEW B,
         MaybeCommit(n, g, S, B)
  PROVE  /\ \E st \in StepsOf(n, votes'), sq \in Seq(QueuedOf(n, votes')) :
              /\ pc' = [pc EXCEPT ![n][g] = st]
              /\ queue' = [queue EXCEPT ![n][g] = sq]
         /\ committing' \in [Validator -> BOOLEAN]
<1>1. queue[n][g] \in Seq(QueuedOf(n, votes'))
  BY StepsMonotone DEF Control
<1>2. n \in Validator
  BY DEF Honest
<1>3. CASE /\ \E q \in Winners(S, B) :
                Continue(n, g, [op |-> "finish", cert |-> [round |-> q.round, block |-> q.block]])
           /\ committing' = [committing EXCEPT ![n] = TRUE]
  <2>1. PICK q \in Winners(S, B) :
          Continue(n, g, [op |-> "finish", cert |-> [round |-> q.round, block |-> q.block]])
    BY <1>3
  <2> DEFINE st == [op |-> "finish", cert |-> [round |-> q.round, block |-> q.block]]
  <2>2. q \in Reached(votes') /\ q.type = "precommit"
    BY DEF Winners, Highest
  <2>3. q \in Tally
    BY <2>2, ReachedTally
  <2>4. q.round \in Round /\ q.block \in Block /\ q = [type |-> "precommit", round |-> q.round, block |-> q.block]
    BY <2>2, <2>3 DEF Tally
  <2>5. CommitOf(st.cert) = q
    BY <2>4 DEF CommitOf
  <2>6. st \in Step
    BY <2>4 DEF Step, FinishStep, Cert
  <2>7. st \in StepsOf(n, votes')
    BY <2>2, <2>5, <2>6 DEF StepsOf, Justified
  <2>8. queue' = [queue EXCEPT ![n][g] = queue[n][g]]
    BY <2>1 DEF Continue, TypeOK
  <2>9. committing' \in [Validator -> BOOLEAN]
    BY <1>3 DEF TypeOK
  <2> QED
    BY <1>1, <2>1, <2>7, <2>8, <2>9 DEF Continue
<1>4. CASE Resume(n, g) /\ UNCHANGED committing
  BY <1>4, ResumeResult DEF TypeOK
<1> QED
  BY <1>3, <1>4 DEF MaybeCommit

LEMMA OnVotesResult ==
  ASSUME TypeOK, Control, votes \subseteq votes', votes' \subseteq Vote,
         NEW n \in Honest, NEW g \in Goroutine,
         NEW S, S \subseteq Reached(votes'), NEW O,
         OnVotes(n, g, S, O)
  PROVE  /\ \E st \in StepsOf(n, votes'), sq \in Seq(QueuedOf(n, votes')) :
              /\ pc' = [pc EXCEPT ![n][g] = st]
              /\ queue' = [queue EXCEPT ![n][g] = sq]
         /\ committing' \in [Validator -> BOOLEAN]
         /\ valid' \in [Validator -> Cert \cup {None}]
<1>1. queue[n][g] \in Seq(QueuedOf(n, votes'))
  BY StepsMonotone DEF Control
<1>2. n \in Validator
  BY DEF Honest
<1>3. valid' \in [Validator -> Cert \cup {None}]
  <2>1. \A q \in Highest(Polkas(S)) : [round |-> q.round, block |-> q.block] \in Cert
    BY ReachedTally DEF Highest, Polkas, Tally, Cert
  <2>2. valid \in [Validator -> Cert \cup {None}]
    BY DEF TypeOK
  <2>3. \/ valid' = valid
        \/ \E q \in Highest(Polkas(S)) :
             valid' = [valid EXCEPT ![n] = [round |-> q.round, block |-> q.block]]
    BY DEF OnVotes, UpdateValid
  <2> QED
    BY <1>2, <2>1, <2>2, <2>3
<1>4. round[n] \in Round
  BY <1>2 DEF TypeOK
<1> DEFINE D == Decisions(n, round[n], S, O, bodies[n])
<1>5. CASE (\E v \in D : Continue(n, g, Cast("precommit", v))) /\ UNCHANGED committing
  <2>1. PICK v \in D : Continue(n, g, Cast("precommit", v))
    BY <1>5
  <2>2. Cast("precommit", v) \in StepsOf(n, votes')
    BY <1>4, DecisionsJustified
  <2>3. queue' = [queue EXCEPT ![n][g] = queue[n][g]]
    BY <2>1 DEF Continue, TypeOK
  <2> QED
    BY <1>1, <1>3, <1>5, <2>1, <2>2, <2>3 DEF Continue, TypeOK
<1>6. CASE MaybeCommit(n, g, S, bodies[n])
  BY <1>3, <1>6, MaybeCommitResult
<1> QED
  BY <1>5, <1>6 DEF OnVotes

-----------------------------------------------------------------------------
(* Each action preserves the invariant. *)

\* When nothing is published and nothing forgotten, only the moving parts of
\* the invariant have to be shown again.
LEMMA SameVotes ==
  ASSUME IInv, UNCHANGED <<own, disk, votes, decided>>
  PROVE  Remembered' /\ VotesBacked' /\ OncePerPosition'
  BY DEF IInv, Remembered, VotesBacked, OncePerPosition, CastBy

LEMMA TickStep ==
  ASSUME IInv, NEW n \in Honest, Tick(n)
  PROVE  IInv'
<1> USE VotingAssumption
<1> DEFINE g == GoroutineOf["driver"]
           Q == QueuedOf(n, votes)
<1>1. n \in Validator /\ g \in Goroutine
  BY DEF Honest, Entry
<1>2. TypeOK /\ Control /\ Tallied
  BY DEF IInv
<1>3. UNCHANGED <<lock, valid, bodies, own, quorums, committing, disk, decided,
                  votes, proposals, crashes>>
  BY DEF Tick
<1>4. PICK expired \in BOOLEAN :
        LET r == IF expired THEN round[n] + 1 ELSE round[n]
            flush == IF expired THEN NilVotes(n, round[n]) ELSE <<>>
        IN /\ r <= MaxRound
           /\ round' = [round EXCEPT ![n] = r]
           /\ \E ingest \in Build(n, r) : Run(n, g, flush \o ingest)
  BY DEF Tick
<1> DEFINE r == IF expired THEN round[n] + 1 ELSE round[n]
           flush == IF expired THEN NilVotes(n, round[n]) ELSE <<>>
<1>5. round[n] \in Round /\ r \in Round
  BY <1>1, <1>2, <1>4 DEF TypeOK, Round
<1>6. PICK ingest \in Build(n, r) : Run(n, g, flush \o ingest)
  BY <1>4
<1>7. flush \in Seq(Q)
  <2>1. \A ty \in Phase : NilVote(n, ty, round[n]) \in Seq(Q)
    <3> SUFFICES ASSUME NEW ty \in Phase PROVE NilVote(n, ty, round[n]) \in Seq(Q)
      OBVIOUS
    <3> DEFINE st == Cast("flush", VoteOf(ty, round[n], Nil, n))
    <3>1. st \in Q
      BY <1>1, <1>5 DEF QueuedOf, Justified, Cast, CastStep, VoteOf, Vote
    <3>2. <<>> \in Seq(Q) /\ <<st>> \in Seq(Q)
      BY <3>1, EmptySeq
    <3> QED
      BY <3>2 DEF NilVote
  <2>2. NilVotes(n, round[n]) \in Seq(Q)
    BY <2>1, ConcatProperties DEF NilVotes, Phase
  <2> QED
    BY <2>2, EmptySeq
<1>8. ingest \in Seq(Q)
  <2>1. CASE ingest = <<>>
    BY <2>1, EmptySeq
  <2>2. CASE \E st \in Q : ingest = <<st>>
    BY <2>2
  <2>3. \/ ingest = <<>>
        \/ \E b \in Block, c \in Cert \cup {None} :
             /\ CertTally(c) \subseteq quorums[n]
             /\ ingest = <<[op |-> "ingest", block |-> b, round |-> r, polka |-> c]>>
    <3>1. CASE Leader[r] = n /\ valid[n] # None /\ valid[n].block \in bodies[n]
      <4>1. valid[n] \in Cert
        BY <1>1, <1>2, <3>1 DEF TypeOK
      <4> DEFINE c == IF CertTally(valid[n]) \subseteq quorums[n] THEN valid[n] ELSE None
      <4>2. c \in Cert \cup {None} /\ CertTally(c) \subseteq quorums[n]
        BY <4>1 DEF CertTally
      <4>3. valid[n].block \in Block
        BY <4>1 DEF Cert
      <4>4. ingest = <<[op |-> "ingest", block |-> valid[n].block, round |-> r, polka |-> c]>>
        BY <1>6, <3>1 DEF Build
      <4> QED
        BY <4>2, <4>3, <4>4
    <3>2. CASE \E k \in Variant : ingest = <<[op |-> "ingest", block |-> [round |-> r, variant |-> k],
                                              round |-> r, polka |-> None]>>
      BY <1>5, <3>2 DEF Block, CertTally
    <3> QED
      BY <1>6, <3>1, <3>2 DEF Build
  <2>4. \A b \in Block, c \in Cert \cup {None} : CertTally(c) \subseteq quorums[n] =>
          [op |-> "ingest", block |-> b, round |-> r, polka |-> c] \in Q
    BY <1>2, <1>5 DEF QueuedOf, Justified, IngestStep, Tallied
  <2> QED
    BY <2>1, <2>2, <2>3, <2>4
<1>9. flush \o ingest \in Seq(Q)
  BY <1>7, <1>8, ConcatProperties
<1>10. \E st \in Q \cup {Idle}, sq \in Seq(Q) :
         /\ pc' = [pc EXCEPT ![n][g] = st]
         /\ queue' = [queue EXCEPT ![n][g] = sq]
  <2> DEFINE steps == flush \o ingest
  <2>0. steps \in Seq(Q)
    BY <1>9
  <2>1. /\ pc' = [pc EXCEPT ![n][g] = IF steps = <<>> THEN Idle ELSE Head(steps)]
        /\ queue' = [queue EXCEPT ![n][g] = IF steps = <<>> THEN <<>> ELSE Tail(steps)]
    BY <1>6 DEF Run
  <2> HIDE DEF steps, Q
  <2> QED
    BY <2>0, <2>1, RunResult
<1>11. PICK st \in StepsOf(n, votes'), sq \in Seq(QueuedOf(n, votes')) :
         /\ pc' = [pc EXCEPT ![n][g] = st]
         /\ queue' = [queue EXCEPT ![n][g] = sq]
  BY <1>3, <1>10, QueuedAreSteps, IdleJustified
<1>12. votes \subseteq votes' /\ votes' \subseteq Vote
  BY <1>2, <1>3 DEF TypeOK
<1> HIDE DEF g
<1>13. /\ Control'
       /\ pc' \in [Validator -> [Goroutine -> Step]]
       /\ queue' \in [Validator -> [Goroutine -> Seq(CastStep \cup IngestStep)]]
  BY <1>1, <1>2, <1>11, <1>12, ControlMoves
<1>14. round' \in [Validator -> Round]
  BY <1>1, <1>2, <1>4, <1>5 DEF TypeOK
<1>15. TypeOK'
  BY <1>2, <1>3, <1>13, <1>14 DEF TypeOK
<1>16. Tallied'
  BY <1>2, <1>3 DEF Tallied
<1> QED
  BY <1>3, <1>13, <1>15, <1>16, SameVotes DEF IInv

LEMMA QuorumReached ==
  ASSUME NEW V, NEW q \in Tally, HasQuorum(V, q)
  PROVE  q \in Reached(V)
<1>1. PICK n \in Voters(V, q) : TRUE
  BY VotingAssumption DEF HasQuorum
<1>2. VoteOf(q.type, q.round, q.block, n) \in V
  BY <1>1 DEF Voters
<1>3. TallyOf(VoteOf(q.type, q.round, q.block, n)) = q
  BY DEF TallyOf, VoteOf, Tally
<1> QED
  BY <1>2, <1>3 DEF Reached

LEMMA SendableBacked ==
  ASSUME IInv, NEW p \in Sendable
  PROVE  p \in Proposal /\ CertTally(p.polka) \subseteq Reached(votes)
<1>1. CASE p \in proposals
  BY <1>1 DEF IInv, TypeOK, Tallied
<1>2. CASE p \in Proposal /\ \A q \in CertTally(p.polka) : HasQuorum(votes, q)
  <2>1. CertTally(p.polka) \subseteq Tally
    BY <1>2 DEF CertTally, Proposal, Cert, Tally
  <2> QED
    BY <1>2, <2>1, QuorumReached
<1> QED
  BY <1>1, <1>2 DEF Sendable

LEMMA AcceptStep ==
  ASSUME IInv, NEW n \in Honest, NEW g \in Goroutine, NEW p \in Proposal,
         CertTally(p.polka) \subseteq Reached(votes),
         Accept(n, g, p),
         proposals' \subseteq proposals \cup {p}
  PROVE  IInv'
<1>1. n \in Validator
  BY DEF Honest
<1>2. TypeOK /\ Control /\ Tallied
  BY DEF IInv
<1>3. UNCHANGED <<valid, own, committing, disk, decided, votes, crashes>>
  BY DEF Accept
<1>4. p.block \in Block /\ p.round \in Round /\ p.polka \in Cert \cup {None}
  BY DEF Proposal
<1>5. PICK b \in Block \cup {Nil} :
        Continue(n, g, Cast("prevote", VoteOf("prevote", p.round, b, n)))
  BY <1>4 DEF Accept
<1> DEFINE st == Cast("prevote", VoteOf("prevote", p.round, b, n))
<1>6. st \in StepsOf(n, votes')
  BY <1>1, <1>4 DEF Cast, StepsOf, Step, CastStep, Justified, VoteOf, Vote, Phase
<1>7. /\ pc' = [pc EXCEPT ![n][g] = st]
      /\ queue' = [queue EXCEPT ![n][g] = queue[n][g]]
  BY <1>2, <1>5 DEF Continue, TypeOK
<1>8. queue[n][g] \in Seq(QueuedOf(n, votes'))
  BY <1>2, <1>3 DEF Control
<1>9. votes \subseteq votes' /\ votes' \subseteq Vote
  BY <1>2, <1>3 DEF TypeOK
<1> HIDE DEF st
<1>10. /\ Control'
       /\ pc' \in [Validator -> [Goroutine -> Step]]
       /\ queue' \in [Validator -> [Goroutine -> Seq(CastStep \cup IngestStep)]]
  BY <1>2, <1>6, <1>7, <1>8, <1>9, ControlMoves
<1>11. CertTally(p.polka) \subseteq Tally
  BY ReachedTally
<1>12. /\ quorums' \in [Validator -> SUBSET Tally]
       /\ bodies' \in [Validator -> SUBSET Block]
  BY <1>1, <1>2, <1>4, <1>11 DEF Accept, TypeOK
<1>13. /\ round' \in [Validator -> Round]
       /\ lock' \in [Validator -> Cert \cup {None}]
  <2>1. round' \in [Validator -> Round]
    BY <1>1, <1>2, <1>4 DEF Accept, TypeOK
  <2>2. lock' \in [Validator -> Cert \cup {None}]
    BY <1>1, <1>2 DEF Accept, TypeOK
  <2> QED
    BY <2>1, <2>2
<1>14. proposals' \in SUBSET Proposal
  BY <1>2 DEF TypeOK
<1>15. TypeOK'
  BY <1>2, <1>3, <1>10, <1>12, <1>13, <1>14 DEF TypeOK
<1>16. Tallied'
  <2>1. \A m \in Honest : quorums'[m] \subseteq Reached(votes)
    <3> SUFFICES ASSUME NEW m \in Honest PROVE quorums'[m] \subseteq Reached(votes)
      OBVIOUS
    <3>1. m \in Validator /\ quorums[m] \subseteq Reached(votes) /\ quorums[n] \subseteq Reached(votes)
      BY <1>2 DEF Honest, Tallied
    <3>2. quorums'[m] \subseteq quorums[m] \cup CertTally(p.polka)
      BY <1>1, <1>2, <3>1 DEF Accept, TypeOK
    <3> QED
      BY <3>1, <3>2
  <2>2. \A o \in proposals' : CertTally(o.polka) \subseteq Reached(votes)
    BY <1>2 DEF Tallied
  <2> QED
    BY <1>2, <1>3, <2>1, <2>2 DEF Tallied
<1> QED
  BY <1>3, <1>10, <1>15, <1>16, SameVotes DEF IInv

LEMMA HandleProposalStep ==
  ASSUME IInv, NEW n \in Honest, NEW p \in Sendable, HandleProposal(n, p)
  PROVE  IInv'
<1>1. GoroutineOf["proposal"] \in Goroutine
  BY VotingAssumption DEF Entry
<1> QED
  BY <1>1, SendableBacked, AcceptStep DEF HandleProposal

LEMMA IngestStepPreserves ==
  ASSUME IInv, NEW n \in Honest, NEW g \in Goroutine, Ingest(n, g)
  PROVE  IInv'
<1> DEFINE p == [block |-> pc[n][g].block, round |-> pc[n][g].round, polka |-> pc[n][g].polka]
<1>1. pc[n][g] \in Step /\ Justified(n, pc[n][g], votes)
  BY DEF IInv, Control, StepsOf
<1>2. pc[n][g].op = "ingest"
  BY DEF Ingest
<1>3. p \in Proposal
  BY <1>1, <1>2 DEF Step, Idle, CastStep, IngestStep, FinishStep, Proposal
<1>4. CertTally(p.polka) \subseteq Reached(votes)
  BY <1>1, <1>2 DEF Justified
<1>5. Accept(n, g, p) /\ proposals' = proposals \cup {p}
  BY DEF Ingest
<1> HIDE DEF p
<1> QED
  BY <1>3, <1>4, <1>5, AcceptStep

LEMMA HandleVoteStep ==
  ASSUME IInv, NEW n \in Honest, HandleVote(n)
  PROVE  IInv'
<1> DEFINE g == GoroutineOf["vote"]
<1>1. n \in Validator /\ g \in Goroutine
  BY VotingAssumption DEF Honest, Entry
<1>2. TypeOK /\ Control /\ Tallied
  BY DEF IInv
<1>3. UNCHANGED <<round, lock, bodies, own, disk, decided, votes, proposals, crashes>>
  BY DEF HandleVote
<1>4. PICK S \in {quorums[n]} \cup {quorums[n] \cup {q} : q \in Reached(votes)} :
        /\ quorums' = [quorums EXCEPT ![n] = S]
        /\ OnVotes(n, g, S, own[n])
  BY DEF HandleVote
<1>5. S \subseteq Reached(votes') /\ S \subseteq Tally
  BY <1>2, <1>3, <1>4, ReachedTally DEF Tallied
<1>6. votes \subseteq votes' /\ votes' \subseteq Vote
  BY <1>2, <1>3 DEF TypeOK
<1> HIDE DEF g
<1>7. /\ \E st \in StepsOf(n, votes'), sq \in Seq(QueuedOf(n, votes')) :
           /\ pc' = [pc EXCEPT ![n][g] = st]
           /\ queue' = [queue EXCEPT ![n][g] = sq]
      /\ committing' \in [Validator -> BOOLEAN]
      /\ valid' \in [Validator -> Cert \cup {None}]
  BY <1>1, <1>2, <1>4, <1>5, <1>6, OnVotesResult
<1>8. /\ Control'
      /\ pc' \in [Validator -> [Goroutine -> Step]]
      /\ queue' \in [Validator -> [Goroutine -> Seq(CastStep \cup IngestStep)]]
  BY <1>1, <1>2, <1>6, <1>7, ControlMoves
<1>9. TypeOK'
  BY <1>1, <1>2, <1>3, <1>4, <1>5, <1>7, <1>8 DEF TypeOK
<1>10. Tallied'
  BY <1>1, <1>2, <1>3, <1>4, <1>5 DEF Tallied, TypeOK, Honest
<1> QED
  BY <1>3, <1>8, <1>9, <1>10, SameVotes DEF IInv

LEMMA SyncStep ==
  ASSUME IInv, NEW n \in Honest, NEW m \in Honest, Sync(n, m)
  PROVE  IInv'
<1> DEFINE g == GoroutineOf["sync"]
           q == CommitOf(decided[m])
           S == quorums[n] \cup {q}
           B == bodies[n] \cup {q.block}
<1>1. n \in Validator /\ m \in Validator /\ g \in Goroutine
  BY VotingAssumption DEF Honest, Entry
<1>2. TypeOK /\ Control /\ Tallied
  BY DEF IInv
<1>3. /\ UNCHANGED <<round, lock, valid, own, disk, decided, votes, proposals, crashes>>
      /\ decided[m] # None
      /\ quorums' = [quorums EXCEPT ![n] = S]
      /\ bodies' = [bodies EXCEPT ![n] = B]
      /\ MaybeCommit(n, g, S, B)
  BY DEF Sync, CommitOf
<1>4. S \subseteq Reached(votes') /\ S \subseteq Tally
  BY <1>2, <1>3, ReachedTally DEF Tallied
<1>5. q.block \in Block
  BY <1>1, <1>2, <1>3 DEF TypeOK, CommitOf, Cert
<1>6. votes \subseteq votes' /\ votes' \subseteq Vote
  BY <1>2, <1>3 DEF TypeOK
<1> HIDE DEF g, S
<1>7. /\ \E st \in StepsOf(n, votes'), sq \in Seq(QueuedOf(n, votes')) :
           /\ pc' = [pc EXCEPT ![n][g] = st]
           /\ queue' = [queue EXCEPT ![n][g] = sq]
      /\ committing' \in [Validator -> BOOLEAN]
  BY <1>1, <1>2, <1>3, <1>4, <1>6, MaybeCommitResult
<1>8. /\ Control'
      /\ pc' \in [Validator -> [Goroutine -> Step]]
      /\ queue' \in [Validator -> [Goroutine -> Seq(CastStep \cup IngestStep)]]
  BY <1>1, <1>2, <1>6, <1>7, ControlMoves
<1>9. TypeOK'
  BY <1>1, <1>2, <1>3, <1>4, <1>5, <1>7, <1>8 DEF TypeOK
<1>10. Tallied'
  BY <1>1, <1>2, <1>3, <1>4 DEF Tallied, TypeOK, Honest
<1> QED
  BY <1>3, <1>8, <1>9, <1>10, SameVotes DEF IInv

LEMMA CastRefusedStep ==
  ASSUME IInv, NEW n \in Honest, NEW g \in Goroutine, CastRefused(n, g)
  PROVE  IInv'
<1>1. n \in Validator
  BY DEF Honest
<1>2. TypeOK /\ Control /\ Tallied
  BY DEF IInv
<1>3. UNCHANGED <<round, lock, valid, bodies, own, quorums, disk, decided, votes,
                  proposals, crashes>>
  BY DEF CastRefused
<1>4. \/ MaybeCommit(n, g, quorums[n], bodies[n])
      \/ Resume(n, g) /\ UNCHANGED committing
  BY DEF CastRefused
<1>5. quorums[n] \subseteq Reached(votes')
  BY <1>2, <1>3 DEF Tallied
<1>6. votes \subseteq votes' /\ votes' \subseteq Vote
  BY <1>2, <1>3 DEF TypeOK
<1>7. /\ \E st \in StepsOf(n, votes'), sq \in Seq(QueuedOf(n, votes')) :
           /\ pc' = [pc EXCEPT ![n][g] = st]
           /\ queue' = [queue EXCEPT ![n][g] = sq]
      /\ committing' \in [Validator -> BOOLEAN]
  <2>1. CASE MaybeCommit(n, g, quorums[n], bodies[n])
    BY <1>2, <1>5, <1>6, <2>1, MaybeCommitResult
  <2>2. CASE Resume(n, g) /\ UNCHANGED committing
    BY <1>2, <1>6, <2>2, ResumeResult DEF TypeOK
  <2> QED
    BY <1>4, <2>1, <2>2
<1>8. /\ Control'
      /\ pc' \in [Validator -> [Goroutine -> Step]]
      /\ queue' \in [Validator -> [Goroutine -> Seq(CastStep \cup IngestStep)]]
  BY <1>2, <1>6, <1>7, ControlMoves
<1>9. TypeOK'
  BY <1>2, <1>3, <1>7, <1>8 DEF TypeOK
<1>10. Tallied'
  BY <1>2, <1>3 DEF Tallied
<1> QED
  BY <1>3, <1>8, <1>9, <1>10, SameVotes DEF IInv

LEMMA CastVoteStep ==
  ASSUME IInv, NEW n \in Honest, NEW g \in Goroutine, CastVote(n, g)
  PROVE  IInv'
<1> DEFINE v == pc[n][g].vote
<1>1. n \in Validator
  BY DEF Honest
<1>2. TypeOK /\ Control /\ Tallied /\ Remembered /\ VotesBacked /\ OncePerPosition
  BY DEF IInv
<1>3. /\ UNCHANGED <<round, bodies, decided, proposals, crashes>>
      /\ decided[n] = None
      /\ v.block = Nil \/ v.block \in bodies[n]
      /\ ~VotedOtherwise(own[n], v)
      /\ disk' = [disk EXCEPT ![n] = @ \cup {v}]
      /\ own' = [own EXCEPT ![n] = own[n] \cup {v}]
      /\ votes' = votes \cup {v}
      /\ \/ /\ lock' = [lock EXCEPT ![n] = [round |-> v.round, block |-> v.block]]
            /\ v.block # Nil
         \/ lock' = lock
  BY DEF CastVote, Undecided, TakesLock
<1>4. /\ v \in Vote
      /\ v.voter = n
      /\ v.type = "precommit" /\ v.block # Nil => PolkaOf(v) \in Reached(votes)
  <2>1. pc[n][g] \in CastStep /\ Justified(n, pc[n][g], votes)
    BY <1>2 DEF CastVote, Control, StepsOf
  <2> QED
    BY <2>1 DEF Justified, CastStep
<1>5. PICK S \in {quorums[n], quorums[n] \cup ({TallyOf(v)} \cap Reached(votes'))} :
        /\ quorums' = [quorums EXCEPT ![n] = S]
        /\ OnVotes(n, g, S, own[n] \cup {v})
  BY <1>3 DEF CastVote
<1>6. votes \subseteq votes' /\ votes' \subseteq Vote
  BY <1>2, <1>3, <1>4 DEF TypeOK
<1>7. Reached(votes) \subseteq Reached(votes')
  BY <1>6, ReachedMonotone
<1>8. S \subseteq Reached(votes') /\ S \subseteq Tally
  BY <1>2, <1>5, <1>7, ReachedTally DEF Tallied
<1>9. /\ \E st \in StepsOf(n, votes'), sq \in Seq(QueuedOf(n, votes')) :
           /\ pc' = [pc EXCEPT ![n][g] = st]
           /\ queue' = [queue EXCEPT ![n][g] = sq]
      /\ committing' \in [Validator -> BOOLEAN]
      /\ valid' \in [Validator -> Cert \cup {None}]
  BY <1>2, <1>5, <1>6, <1>8, OnVotesResult
<1>10. /\ Control'
       /\ pc' \in [Validator -> [Goroutine -> Step]]
       /\ queue' \in [Validator -> [Goroutine -> Seq(CastStep \cup IngestStep)]]
  BY <1>2, <1>6, <1>9, ControlMoves
<1> HIDE DEF v
<1>11. lock' \in [Validator -> Cert \cup {None}]
  <2>1. v.block # Nil => [round |-> v.round, block |-> v.block] \in Cert
    BY <1>4 DEF Vote, Cert
  <2> QED
    BY <1>1, <1>2, <1>3, <2>1 DEF TypeOK
<1>12. TypeOK'
  BY <1>1, <1>2, <1>3, <1>4, <1>5, <1>6, <1>8, <1>9, <1>10, <1>11 DEF TypeOK
<1>13. Tallied'
  <2>1. \A m \in Honest : quorums'[m] \subseteq Reached(votes')
    BY <1>1, <1>2, <1>5, <1>7, <1>8 DEF Tallied, TypeOK, Honest
  <2> QED
    BY <1>2, <1>3, <1>7, <2>1 DEF Tallied
<1>14. \A m \in Validator : CastBy(m)' = IF m = n THEN CastBy(m) \cup {v} ELSE CastBy(m)
  BY <1>3, <1>4 DEF CastBy
<1>15. Remembered'
  BY <1>1, <1>2, <1>3, <1>14 DEF Remembered, TypeOK, Honest
<1>16. VotesBacked'
  BY <1>2, <1>3, <1>4, <1>7 DEF VotesBacked
<1>17. OncePerPosition'
  <2>1. \A w \in CastBy(n) : w.type = v.type /\ w.round = v.round => w = v
    <3> SUFFICES ASSUME NEW w \in CastBy(n), w.type = v.type, w.round = v.round PROVE w = v
      OBVIOUS
    <3>1. own[n] = CastBy(n)
      BY <1>2, <1>3 DEF Remembered
    <3>2. w.block = v.block
      BY <1>3, <3>1 DEF VotedOtherwise
    <3>3. w \in Vote /\ w.voter = n
      BY <1>2 DEF CastBy, TypeOK
    <3> QED
      BY <1>4, <3>2, <3>3 DEF Vote
  <2> SUFFICES ASSUME NEW m \in Honest, NEW u \in CastBy(m)', NEW w \in CastBy(m)',
                      u.type = w.type, u.round = w.round
               PROVE  u = w
    BY DEF OncePerPosition
  <2>2. m \in Validator
    BY DEF Honest
  <2>3. CASE u \in CastBy(m) /\ w \in CastBy(m)
    BY <1>2, <2>3 DEF OncePerPosition
  <2>4. CASE m = n /\ (u = v \/ w = v)
    BY <1>14, <2>1, <2>2, <2>4
  <2> QED
    BY <1>14, <2>2, <2>3, <2>4
<1> QED
  BY <1>10, <1>12, <1>13, <1>15, <1>16, <1>17 DEF IInv

LEMMA IdleControl ==
  ASSUME TypeOK, Control, UNCHANGED votes, NEW n \in Honest,
         pc' = [pc EXCEPT ![n] = [h \in Goroutine |-> Idle]],
         queue' = [queue EXCEPT ![n] = [h \in Goroutine |-> <<>>]]
  PROVE  /\ Control'
         /\ pc' \in [Validator -> [Goroutine -> Step]]
         /\ queue' \in [Validator -> [Goroutine -> Seq(CastStep \cup IngestStep)]]
<1>1. n \in Validator /\ \A Q : <<>> \in Seq(Q)
  BY EmptySeq DEF Honest
<1>2. /\ pc \in [Validator -> [Goroutine -> Step]]
      /\ queue \in [Validator -> [Goroutine -> Seq(CastStep \cup IngestStep)]]
  BY DEF TypeOK
<1>3. \A m \in Honest : \A h \in Goroutine :
        pc'[m][h] \in StepsOf(m, votes) /\ queue'[m][h] \in Seq(QueuedOf(m, votes))
  <2> SUFFICES ASSUME NEW m \in Honest, NEW h \in Goroutine
               PROVE  pc'[m][h] \in StepsOf(m, votes) /\ queue'[m][h] \in Seq(QueuedOf(m, votes))
    OBVIOUS
  <2>1. m \in Validator
    BY DEF Honest
  <2>2. CASE m = n
    BY <1>1, <1>2, <2>1, <2>2, IdleJustified
  <2>3. CASE m # n
    BY <1>1, <1>2, <2>1, <2>3 DEF Control
  <2> QED
    BY <2>2, <2>3
<1>4. Control'
  BY <1>3 DEF Control
<1>5. pc' \in [Validator -> [Goroutine -> Step]]
  BY <1>1, <1>2 DEF Step
<1>6. queue' \in [Validator -> [Goroutine -> Seq(CastStep \cup IngestStep)]]
  BY <1>1, <1>2
<1> QED
  BY <1>4, <1>5, <1>6

LEMMA FinishStepPreserves ==
  ASSUME IInv, NEW n \in Honest, NEW g \in Goroutine, Finish(n, g)
  PROVE  IInv'
<1>1. n \in Validator
  BY DEF Honest
<1>2. TypeOK /\ Control /\ Tallied /\ Remembered /\ VotesBacked /\ OncePerPosition
  BY DEF IInv
<1>3. UNCHANGED <<votes, proposals, crashes>>
  BY DEF Finish
<1>4. pc[n][g].cert \in Cert /\ CommitOf(pc[n][g].cert) \in Reached(votes)
  <2>1. pc[n][g] \in Step /\ Justified(n, pc[n][g], votes) /\ pc[n][g].op = "finish"
    BY <1>2 DEF Finish, Control, StepsOf
  <2> QED
    BY <2>1 DEF Justified, Step, Idle, CastStep, IngestStep, FinishStep
<1>5. decided' = [decided EXCEPT ![n] = pc[n][g].cert] /\ None \notin Cert
  BY VotingAssumption DEF Finish
<1>6. /\ Control'
      /\ pc' \in [Validator -> [Goroutine -> Step]]
      /\ queue' \in [Validator -> [Goroutine -> Seq(CastStep \cup IngestStep)]]
  BY <1>2, <1>3, IdleControl DEF Finish
<1>7. TypeOK'
  <2>1. 0 \in Round
    BY VotingAssumption DEF Round
  <2>2. /\ round' \in [Validator -> Round]
        /\ lock' \in [Validator -> Cert \cup {None}]
        /\ valid' \in [Validator -> Cert \cup {None}]
        /\ decided' \in [Validator -> Cert \cup {None}]
    BY <1>1, <1>2, <1>4, <1>5, <2>1 DEF Finish, TypeOK
  <2>3. /\ bodies' \in [Validator -> SUBSET Block]
        /\ own' \in [Validator -> SUBSET Vote]
        /\ quorums' \in [Validator -> SUBSET Tally]
        /\ committing' \in [Validator -> BOOLEAN]
        /\ disk' \in [Validator -> SUBSET Vote]
    BY <1>1, <1>2 DEF Finish, TypeOK
  <2> QED
    BY <1>2, <1>3, <1>6, <2>2, <2>3 DEF TypeOK
<1>8. Tallied'
  BY <1>1, <1>2, <1>3, <1>4, <1>5 DEF Finish, Tallied, TypeOK, Honest
<1>9. Remembered'
  BY <1>1, <1>2, <1>3, <1>4, <1>5 DEF Finish, Remembered, TypeOK, CastBy, Honest
<1>10. VotesBacked' /\ OncePerPosition'
  BY <1>2, <1>3 DEF VotesBacked, OncePerPosition, CastBy
<1> QED
  BY <1>6, <1>7, <1>8, <1>9, <1>10 DEF IInv

LEMMA RestartStep ==
  ASSUME IInv, NEW n \in Honest, Restart(n)
  PROVE  IInv'
<1>1. n \in Validator
  BY DEF Honest
<1>2. TypeOK /\ Control /\ Tallied /\ Remembered /\ VotesBacked /\ OncePerPosition
  BY DEF IInv
<1>3. UNCHANGED <<disk, decided, votes, proposals>>
  BY DEF Restart
<1>4. /\ Control'
      /\ pc' \in [Validator -> [Goroutine -> Step]]
      /\ queue' \in [Validator -> [Goroutine -> Seq(CastStep \cup IngestStep)]]
  BY <1>2, <1>3, IdleControl DEF Restart
<1>5. lock' \in [Validator -> Cert \cup {None}]
  <2>1. \A l \in ResumeLock(disk[n]) : l \in Cert \cup {None}
    <3>1. \A v \in Highest(Precommits(disk[n])) : v \in Vote /\ v.block # Nil
      BY <1>1, <1>2 DEF Highest, Precommits, TypeOK
    <3> QED
      BY <3>1 DEF ResumeLock, Vote, Cert
  <2> QED
    BY <1>1, <1>2, <2>1 DEF Restart, TypeOK
<1>6. crashes' \in 0 .. MaxCrashes
  BY <1>2, VotingAssumption DEF Restart, TypeOK
<1>7. round' \in [Validator -> Round]
  BY <1>1, <1>2 DEF Restart, TypeOK
<1>8. TypeOK'
  BY <1>1, <1>2, <1>3, <1>4, <1>5, <1>6, <1>7 DEF Restart, TypeOK
<1>9. Tallied'
  BY <1>1, <1>2, <1>3 DEF Restart, Tallied, TypeOK, Honest
<1>10. Remembered'
  BY <1>1, <1>2, <1>3 DEF Restart, Undecided, Remembered, TypeOK, CastBy, Honest
<1>11. VotesBacked' /\ OncePerPosition'
  BY <1>2, <1>3 DEF VotesBacked, OncePerPosition, CastBy
<1> QED
  BY <1>4, <1>8, <1>9, <1>10, <1>11 DEF IInv

-----------------------------------------------------------------------------
(* The theorems. *)

LEMMA InitInvariant == Init => IInv
<1> SUFFICES ASSUME Init PROVE IInv
  OBVIOUS
<1>1. \A n \in Honest : n \in Validator /\ n \notin Faulty /\ CastBy(n) = {}
  BY DEF Honest, Init, CastBy
<1>2. TypeOK
  BY EmptySeq, VotingAssumption DEF Init, TypeOK, Round, Step
<1>3. Control
  BY <1>1, EmptySeq, IdleJustified DEF Init, Control
<1>4. Tallied /\ Remembered /\ VotesBacked /\ OncePerPosition
  BY <1>1 DEF Init, Tallied, Remembered, VotesBacked, OncePerPosition, Honest
<1> QED
  BY <1>2, <1>3, <1>4 DEF IInv

LEMMA NextInvariant == IInv /\ [Next]_vars => IInv'
<1> SUFFICES ASSUME IInv, [Next]_vars PROVE IInv'
  OBVIOUS
<1>1. CASE UNCHANGED vars
  BY <1>1 DEF vars, memory, control, IInv, TypeOK, Control, Tallied, Remembered, VotesBacked,
              OncePerPosition, CastBy
<1>2. CASE Next
  BY <1>2, TickStep, HandleProposalStep, HandleVoteStep, IngestStepPreserves, CastVoteStep,
     CastRefusedStep, FinishStepPreserves, SyncStep, RestartStep DEF Next
<1> QED
  BY <1>1, <1>2

\* The strengthening that is inductive: every pending decision of every
\* goroutine is backed by published votes, and a node remembers what it signed.
THEOREM Invariance == Spec => []IInv
  BY InitInvariant, NextInvariant, PTL DEF Spec

\* The variables keep their types, and with them the shape of every pending
\* step of every goroutine.
THEOREM TypeCorrect == Spec => []TypeOK
  BY Invariance, PTL DEF IInv

\* No honest validator signs two votes for one position, however its goroutines
\* interleave and however often it restarts.
THEOREM NeverEquivocates == Spec => []OncePerPosition
  BY Invariance, PTL DEF IInv

\* An honest precommit for a block always rests on a prevote quorum of its round.
THEOREM PrecommitsBacked == Spec => []PolkaBacked
<1>1. IInv => PolkaBacked
  BY DEF IInv, VotesBacked, PolkaBacked, PolkaOf, Reached
<1> QED
  BY <1>1, Invariance, PTL

\* Whatever a node commits has a quorum of precommits in one round.
THEOREM CommitsCertified == Spec => []CommitCertified
<1>1. IInv => CommitCertified
  BY DEF IInv, Tallied, CommitCertified, CommitOf, Reached
<1> QED
  BY <1>1, Invariance, PTL

-----------------------------------------------------------------------------
(* Agreement. However the goroutines of a node are scheduled, the only thing *)
(* that can break it is a vote cast after another goroutine has made it      *)
(* wrong (Timely); a node that runs its handlers one at a time casts no such *)
(* vote. Its inductive invariant:                                      *)

IsPrecommit(v) == v.type = "precommit" /\ v.block # Nil
IsPrevoteNot(w, b) == w.type = "prevote" /\ w.block \notin {Nil, b}

\* A quorum has prevoted another block than b, in round r or later: who was
\* locked on b in round r may be locked no more.
Released(b, r) ==
  \E q \in Reached(votes) : IsPrevoteNot(q, b) /\ q.round >= r

\* A lock is on a block that the node precommitted, and covers every precommit of
\* the node until it is released.
LockKept ==
  \A n \in Honest : decided[n] = None =>
    /\ lock[n] # None => VoteOf("precommit", lock[n].round, lock[n].block, n) \in votes
    /\ \A v \in CastBy(n) : IsPrecommit(v) =>
         \/ lock[n] # None /\ lock[n].block = v.block /\ lock[n].round >= v.round
         \/ Released(v.block, v.round)

LaterReleased ==
  \A n \in Honest : \A v, w \in CastBy(n) :
    IsPrecommit(v) /\ IsPrevoteNot(w, v.block) /\ w.round > v.round
      => Released(v.block, v.round)

\* Whether block b may still be committed by the precommits of round r: the honest
\* members of some quorum have precommitted it there, or have prevoted no other
\* block since and so may do it yet.
MayPrecommit(n, r, b) ==
  \/ VoteOf("precommit", r, b, n) \in votes
  \/ \A w \in CastBy(n) : IsPrevoteNot(w, b) => w.round <= r
MayCommit(r, b) == \E Q \in Quorum : \A n \in Q \cap Honest : MayPrecommit(n, r, b)

\* Once a block has its prevotes, no other one can be committed in an earlier round.
PolkasSafe ==
  \A q \in Reached(votes) : q.type = "prevote" /\ q.block # Nil =>
    \A b \in Block \ {q.block}, r \in Round : r < q.round => ~MayCommit(r, b)

AInv == IInv /\ LockKept /\ LaterReleased /\ PolkasSafe

-----------------------------------------------------------------------------
(* Quorums meet in an honest validator. *)

LEMMA QuorumsMeet ==
  ASSUME NEW P \in Quorum, NEW Q \in Quorum
  PROVE  \E n \in Honest : n \in P /\ n \in Q
  BY VotingAssumption

LEMMA ReachedVoter ==
  ASSUME NEW V, NEW q \in Reached(V), NEW n \in Voters(V, q)
  PROVE  VoteOf(q.type, q.round, q.block, n) \in V
  BY DEF Voters

\* Two blocks do not both get a quorum in one phase of one round.
LEMMA OneBlockARound ==
  ASSUME IInv, NEW p \in Reached(votes), NEW q \in Reached(votes),
         p.type = q.type, p.round = q.round
  PROVE  p.block = q.block
<1>1. Voters(votes, p) \in Quorum /\ Voters(votes, q) \in Quorum
  BY DEF Reached, HasQuorum
<1>2. PICK n \in Honest : n \in Voters(votes, p) /\ n \in Voters(votes, q)
  BY <1>1, QuorumsMeet
<1>3. /\ VoteOf(p.type, p.round, p.block, n) \in CastBy(n)
      /\ VoteOf(q.type, q.round, q.block, n) \in CastBy(n)
  BY <1>2, ReachedVoter DEF CastBy, VoteOf
<1>4. VoteOf(p.type, p.round, p.block, n) = VoteOf(q.type, q.round, q.block, n)
  BY <1>3 DEF IInv, OncePerPosition, VoteOf
<1> QED
  BY <1>4 DEF VoteOf

LEMMA PrecommitPolka ==
  ASSUME IInv, NEW n \in Honest, NEW v \in CastBy(n), IsPrecommit(v)
  PROVE  /\ PolkaOf(v) \in Reached(votes)
         /\ v \in Vote /\ v.round \in Round /\ v.block \in Block
         /\ v = VoteOf("precommit", v.round, v.block, n)
<1>1. v \in Vote /\ v.voter = n /\ v \in votes
  BY DEF CastBy, IInv, TypeOK
<1>2. PolkaOf(v) \in Reached(votes)
  BY <1>1 DEF IInv, VotesBacked, IsPrecommit
<1> QED
  BY <1>1, <1>2 DEF Vote, VoteOf, IsPrecommit

\* What is committed is what its round's prevotes were for.
LEMMA CommitPolka ==
  ASSUME IInv, NEW q \in Reached(votes), q.type = "precommit"
  PROVE  [type |-> "prevote", round |-> q.round, block |-> q.block] \in Reached(votes)
<1>1. Voters(votes, q) \in Quorum /\ q \in Tally
  BY ReachedTally DEF Reached, HasQuorum
<1>2. PICK n \in Honest : n \in Voters(votes, q)
  BY <1>1, QuorumsMeet
<1> DEFINE v == VoteOf(q.type, q.round, q.block, n)
<1>3. v \in CastBy(n)
  BY <1>2, ReachedVoter DEF CastBy, VoteOf
<1>4. IsPrecommit(v)
  BY <1>1, VotingAssumption DEF IsPrecommit, VoteOf, Tally
<1>5. PolkaOf(v) \in Reached(votes)
  BY <1>3, <1>4, PrecommitPolka
<1> QED
  BY <1>5 DEF PolkaOf, VoteOf

-----------------------------------------------------------------------------
(* The invariant gives agreement. *)

LEMMA InvariantAgrees == AInv => Agreement
<1> SUFFICES ASSUME AInv, NEW n \in Honest, NEW m \in Honest,
                    decided[n] # None, decided[m] # None,
                    decided[n].block # decided[m].block
             PROVE  FALSE
  BY DEF Agreement
<1>1. IInv /\ PolkasSafe
  BY DEF AInv
<1>2. \A k \in Honest : decided[k] # None =>
        /\ CommitOf(decided[k]) \in Reached(votes)
        /\ decided[k] \in Cert
        /\ decided[k].round \in Round /\ decided[k].block \in Block
  BY <1>1 DEF IInv, Tallied, TypeOK, Honest, Cert
<1>3. ASSUME NEW k \in Honest, NEW h \in Honest, decided[k] # None, decided[h] # None,
             decided[k].block # decided[h].block, decided[k].round < decided[h].round
      PROVE  FALSE
  <2> DEFINE p == CommitOf(decided[k])
             q == [type |-> "prevote", round |-> decided[h].round, block |-> decided[h].block]
  <2>1. q \in Reached(votes)
    <3>1. CommitOf(decided[h]) \in Reached(votes) /\ CommitOf(decided[h]).type = "precommit"
      BY <1>2, <1>3 DEF CommitOf
    <3>2. [type |-> "prevote", round |-> CommitOf(decided[h]).round,
           block |-> CommitOf(decided[h]).block] \in Reached(votes)
      BY <1>1, <3>1, CommitPolka
    <3> QED
      BY <3>2 DEF CommitOf
  <2>2. MayCommit(decided[k].round, decided[k].block)
    <3>1. p \in Reached(votes) /\ Voters(votes, p) \in Quorum
      BY <1>2, <1>3 DEF Reached, HasQuorum
    <3>2. \A i \in Voters(votes, p) : VoteOf("precommit", decided[k].round, decided[k].block, i) \in votes
      BY DEF Voters, CommitOf
    <3> QED
      BY <3>1, <3>2 DEF MayCommit, MayPrecommit
  <2>3. q.type = "prevote" /\ q.block # Nil
    BY <1>2, <1>3, VotingAssumption
  <2>4. ~MayCommit(decided[k].round, decided[k].block)
    BY <1>1, <1>2, <1>3, <2>1, <2>3 DEF PolkasSafe
  <2> QED
    BY <2>2, <2>4
<1>4. CASE decided[n].round = decided[m].round
  <2>1. CommitOf(decided[n]).block = CommitOf(decided[m]).block
    BY <1>1, <1>2, <1>4, OneBlockARound DEF CommitOf
  <2> QED
    BY <2>1 DEF CommitOf
<1>5. CASE decided[n].round < decided[m].round
  BY <1>3, <1>5
<1>6. CASE decided[m].round < decided[n].round
  BY <1>3, <1>6
<1>7. decided[n].round \in Nat /\ decided[m].round \in Nat
  BY <1>2, VotingAssumption DEF Round
<1> QED
  BY <1>4, <1>5, <1>6, <1>7

LEMMA InvariantHonoursLocks == AInv => LockHonoured
<1> SUFFICES ASSUME AInv, NEW n \in Honest,
                    NEW v \in CastBy(n), v.block # Nil, v.type = "precommit",
                    NEW w \in CastBy(n), w.block # Nil, w.type = "prevote",
                    w.round > v.round, w.block # v.block
             PROVE  \E r \in v.round .. MaxRound, b \in Block \ {v.block} :
                      HasQuorum(votes, [type |-> "prevote", round |-> r, block |-> b])
  BY DEF LockHonoured
<1>1. Released(v.block, v.round)
  BY DEF AInv, LaterReleased, IsPrecommit, IsPrevoteNot
<1>2. PICK q \in Reached(votes) : IsPrevoteNot(q, v.block) /\ q.round >= v.round
  BY <1>1 DEF Released
<1>3. q \in Tally /\ HasQuorum(votes, q)
  BY DEF Reached
<1>4. q = [type |-> "prevote", round |-> q.round, block |-> q.block] /\ q.block \in Block \ {v.block}
  BY <1>2, <1>3 DEF IsPrevoteNot, Tally
<1>5. v.round \in Round /\ q.round \in Round
  BY <1>3, PrecommitPolka DEF AInv, IsPrecommit, Tally
<1>6. q.round \in v.round .. MaxRound
  BY <1>2, <1>5, VotingAssumption DEF Round
<1> QED
  BY <1>3, <1>4, <1>6

-----------------------------------------------------------------------------
(* Each action preserves the invariant. Only locks and votes matter to it. *)

LEMMA ReleasedMonotone ==
  ASSUME votes \subseteq votes', votes' \subseteq Vote, NEW b, NEW r, Released(b, r)
  PROVE  Released(b, r)'
<1>1. Reached(votes) \subseteq Reached(votes')
  BY ReachedMonotone
<1> QED
  BY <1>1 DEF Released

\* No vote is published: the votes say what they said.
LEMMA NoVote ==
  ASSUME LaterReleased, PolkasSafe, UNCHANGED votes
  PROVE  LaterReleased' /\ PolkasSafe'
  BY DEF LaterReleased, PolkasSafe, Released, MayCommit, MayPrecommit, CastBy

\* Nor does a node that has not decided change its lock.
LEMMA NoLock ==
  ASSUME AInv, UNCHANGED votes,
         \A n \in Honest : decided'[n] = None => decided[n] = None /\ lock'[n] = lock[n]
  PROVE  LockKept' /\ LaterReleased' /\ PolkasSafe'
<1>1. LockKept /\ LaterReleased /\ PolkasSafe
  BY DEF AInv
<1>2. LockKept'
  BY <1>1 DEF LockKept, Released, CastBy
<1> QED
  BY <1>1, <1>2, NoVote

LEMMA AcceptKeeps ==
  ASSUME AInv, NEW n \in Honest, NEW g \in Goroutine, NEW p \in Proposal,
         CertTally(p.polka) \subseteq Reached(votes),
         Accept(n, g, p)
  PROVE  LockKept' /\ LaterReleased' /\ PolkasSafe'
<1>1. LockKept /\ LaterReleased /\ PolkasSafe /\ TypeOK
  BY DEF AInv, IInv
<1>2. UNCHANGED <<decided, votes>>
  BY DEF Accept
<1>3. n \in Validator /\ Honest \subseteq Validator
  BY DEF Honest
<1>4. CASE Unlocks(n, p)
  <2>1. lock' = [lock EXCEPT ![n] = None]
    BY <1>4 DEF Accept
  <2> DEFINE q == [type |-> "prevote", round |-> p.polka.round, block |-> p.polka.block]
  <2>2. q \in Reached(votes) /\ q.block # lock[n].block /\ q.round >= lock[n].round
    BY <1>4 DEF Unlocks, CertTally
  <2>3. q.block # Nil /\ q.round \in Nat /\ lock[n].round \in Nat
    <3>1. p.polka \in Cert
      BY <1>4 DEF Unlocks, Proposal
    <3>2. lock[n] \in Cert
      BY <1>1, <1>3, <1>4 DEF Unlocks, TypeOK
    <3> QED
      BY <3>1, <3>2, VotingAssumption DEF Cert, Round
  <2>4. ASSUME NEW v \in CastBy(n), IsPrecommit(v),
               lock[n].block = v.block, lock[n].round >= v.round
        PROVE  Released(v.block, v.round)
    <3>1. v.round \in Nat
      BY <2>4, PrecommitPolka, VotingAssumption DEF AInv, Round
    <3>2. IsPrevoteNot(q, v.block) /\ q.round >= v.round
      BY <2>2, <2>3, <2>4, <3>1 DEF IsPrevoteNot
    <3> QED
      BY <2>2, <3>2 DEF Released
  <2>5. LockKept'
    <3> SUFFICES ASSUME NEW m \in Honest, decided'[m] = None
                 PROVE  /\ lock'[m] # None => VoteOf("precommit", lock'[m].round, lock'[m].block, m) \in votes'
                        /\ \A v \in CastBy(m)' : IsPrecommit(v) =>
                             \/ lock'[m] # None /\ lock'[m].block = v.block /\ lock'[m].round >= v.round
                             \/ Released(v.block, v.round)'
      BY DEF LockKept
    <3>1. CastBy(m)' = CastBy(m) /\ decided[m] = None /\ \A b, r : Released(b, r) <=> Released(b, r)'
      BY <1>2 DEF CastBy, Released
    <3>2. CASE m = n
      <4>1. lock'[m] = None
        BY <1>1, <1>3, <2>1, <3>2 DEF TypeOK
      <4>2. ASSUME NEW v \in CastBy(n), IsPrecommit(v) PROVE Released(v.block, v.round)
        BY <1>1, <2>4, <3>1, <3>2, <4>2 DEF LockKept
      <4> QED
        BY <3>1, <3>2, <4>1, <4>2
    <3>3. CASE m # n
      <4>1. lock'[m] = lock[m]
        BY <1>1, <1>3, <2>1, <3>3 DEF TypeOK
      <4> QED
        BY <1>1, <1>2, <3>1, <4>1 DEF LockKept
    <3> QED
      BY <3>2, <3>3
  <2> QED
    BY <1>1, <1>2, <2>5, NoVote
<1>5. CASE ~Unlocks(n, p)
  <2>1. lock' = lock
    BY <1>5 DEF Accept
  <2> QED
    BY <1>2, <2>1, NoLock
<1> QED
  BY <1>4, <1>5

\* A restart takes the lock of the highest precommit, which covers all of them.
LEMMA RestartKeeps ==
  ASSUME AInv, NEW n \in Honest, Restart(n)
  PROVE  LockKept' /\ LaterReleased' /\ PolkasSafe'
<1>1. LockKept /\ LaterReleased /\ PolkasSafe /\ TypeOK /\ Remembered /\ IInv
  BY DEF AInv, IInv
<1>2. UNCHANGED <<decided, votes>> /\ decided[n] = None
  BY DEF Restart, Undecided
<1>3. n \in Validator /\ Honest \subseteq Validator
  BY DEF Honest
<1>4. disk[n] = CastBy(n)
  BY <1>1, <1>2 DEF Remembered
<1>5. PICK l \in ResumeLock(CastBy(n)) : lock' = [lock EXCEPT ![n] = l]
  BY <1>4 DEF Restart
<1>6. Precommits(CastBy(n)) = {v \in CastBy(n) : IsPrecommit(v)}
  BY DEF Precommits, IsPrecommit
<1>7. /\ l # None => VoteOf("precommit", l.round, l.block, n) \in votes
      /\ \A v \in CastBy(n) : IsPrecommit(v) =>
           \/ l # None /\ l.block = v.block /\ l.round >= v.round
           \/ Released(v.block, v.round)
  <2>1. CASE Precommits(CastBy(n)) = {}
    BY <1>5, <1>6, <2>1 DEF ResumeLock
  <2>2. CASE Precommits(CastBy(n)) # {}
    <3>1. PICK u \in Highest(Precommits(CastBy(n))) : l = [round |-> u.round, block |-> u.block]
      BY <1>5, <2>2 DEF ResumeLock
    <3>2. u \in CastBy(n) /\ IsPrecommit(u) /\ \A v \in CastBy(n) : IsPrecommit(v) => v.round <= u.round
      BY <1>6, <3>1 DEF Highest
    <3>3. /\ PolkaOf(u) \in Reached(votes) /\ u.round \in Round /\ u.block \in Block
          /\ u = VoteOf("precommit", u.round, u.block, n)
      BY <1>1, <3>2, PrecommitPolka
    <3>4. l # None
      BY <3>1, <3>3, VotingAssumption DEF Cert
    <3>5. VoteOf("precommit", l.round, l.block, n) \in votes
      BY <3>1, <3>2, <3>3 DEF CastBy
    <3>6. ASSUME NEW v \in CastBy(n), IsPrecommit(v), l.block # v.block
          PROVE  Released(v.block, v.round)
      <4>1. IsPrevoteNot(PolkaOf(u), v.block) /\ PolkaOf(u).round >= v.round
        BY <1>1, <3>1, <3>2, <3>6, PrecommitPolka, VotingAssumption DEF IsPrevoteNot, PolkaOf, IsPrecommit, Round
      <4> QED
        BY <3>3, <4>1 DEF Released
    <3>7. \A v \in CastBy(n) : IsPrecommit(v) => l.round >= v.round
      BY <1>1, <3>1, <3>2, <3>3, PrecommitPolka, VotingAssumption DEF Round
    <3> QED
      BY <3>4, <3>5, <3>6, <3>7
  <2> QED
    BY <2>1, <2>2
<1>8. LockKept'
  <2> SUFFICES ASSUME NEW m \in Honest, decided'[m] = None
               PROVE  /\ lock'[m] # None => VoteOf("precommit", lock'[m].round, lock'[m].block, m) \in votes'
                      /\ \A v \in CastBy(m)' : IsPrecommit(v) =>
                           \/ lock'[m] # None /\ lock'[m].block = v.block /\ lock'[m].round >= v.round
                           \/ Released(v.block, v.round)'
    BY DEF LockKept
  <2>1. CastBy(m)' = CastBy(m) /\ decided[m] = None /\ \A b, r : Released(b, r) <=> Released(b, r)'
    BY <1>2 DEF CastBy, Released
  <2>2. CASE m = n
    BY <1>1, <1>2, <1>3, <1>5, <1>7, <2>1, <2>2 DEF TypeOK
  <2>3. CASE m # n
    BY <1>1, <1>2, <1>3, <1>5, <2>1, <2>3 DEF TypeOK, LockKept
  <2> QED
    BY <2>2, <2>3
<1> QED
  BY <1>1, <1>2, <1>8, NoVote

\* A vote that is timely, cast by a node that keeps its locks.
LEMMA CastKeeps ==
  ASSUME AInv, NEW n \in Honest, NEW g \in Goroutine,
         CastVote(n, g), Timely(n, pc[n][g].vote)
  PROVE  LockKept' /\ LaterReleased' /\ PolkasSafe'
<1> DEFINE v == pc[n][g].vote
<1>1. LockKept /\ LaterReleased /\ PolkasSafe /\ TypeOK /\ Control /\ Remembered /\ IInv
  BY DEF AInv, IInv
<1>2. n \in Validator /\ Honest \subseteq Validator
  BY DEF Honest
<1>3. /\ UNCHANGED decided
      /\ decided[n] = None
      /\ ~VotedOtherwise(own[n], v)
      /\ votes' = votes \cup {v}
      /\ lock' = IF TakesLock(n, v)
                 THEN [lock EXCEPT ![n] = [round |-> v.round, block |-> v.block]] ELSE lock
  BY DEF CastVote, Undecided
<1>4. /\ v \in Vote
      /\ v.voter = n
      /\ v.type = "precommit" /\ v.block # Nil => PolkaOf(v) \in Reached(votes)
  <2>1. pc[n][g] \in CastStep /\ Justified(n, pc[n][g], votes)
    BY <1>1 DEF CastVote, Control, StepsOf
  <2> QED
    BY <2>1 DEF Justified, CastStep
<1>5. own[n] = CastBy(n)
  BY <1>1, <1>3 DEF Remembered
<1>6. Timely(n, v)
  OBVIOUS
<1> HIDE DEF v
<1>7. votes \subseteq votes' /\ votes' \subseteq Vote
  BY <1>1, <1>3, <1>4 DEF TypeOK
<1>8. \A b, r : Released(b, r) => Released(b, r)'
  BY <1>7, ReleasedMonotone
<1>9. \A m \in Validator : CastBy(m)' = IF m = n THEN CastBy(m) \cup {v} ELSE CastBy(m)
  BY <1>3, <1>4 DEF CastBy
<1>10. v.round \in Nat /\ v.round \in Round /\ Nil \notin Block
  BY <1>4, VotingAssumption DEF Vote, Round
<1>11. lock[n] # None => /\ lock[n].round \in Nat /\ lock[n].block \in Block
                         /\ VoteOf("precommit", lock[n].round, lock[n].block, n) \in CastBy(n)
  <2> SUFFICES ASSUME lock[n] # None
               PROVE  /\ lock[n].round \in Nat /\ lock[n].block \in Block
                      /\ VoteOf("precommit", lock[n].round, lock[n].block, n) \in CastBy(n)
    OBVIOUS
  <2>1. lock[n] \in Cert
    BY <1>1, <1>2 DEF TypeOK
  <2>2. VoteOf("precommit", lock[n].round, lock[n].block, n) \in votes
    BY <1>1, <1>3 DEF LockKept
  <2> QED
    BY <2>1, <2>2, VotingAssumption DEF Cert, Round, CastBy, VoteOf
\* What a precommit for a block releases: every lock on another one, of no later round.
<1>12. ASSUME NEW u \in Vote, IsPrecommit(u), PolkaOf(u) \in Reached(votes),
              NEW b \in Block, b # u.block, NEW r \in Nat, r <= u.round
       PROVE  Released(b, r)
  <2>1. IsPrevoteNot(PolkaOf(u), b) /\ PolkaOf(u).round >= r
    BY <1>12, VotingAssumption DEF IsPrevoteNot, PolkaOf, IsPrecommit, Vote, Round
  <2> QED
    BY <1>12, <2>1 DEF Released
\* The lock of n, and the precommits it covers.
<1>13. /\ lock'[n] # None => VoteOf("precommit", lock'[n].round, lock'[n].block, n) \in votes'
       /\ \A u \in CastBy(n)' : IsPrecommit(u) =>
            \/ lock'[n] # None /\ lock'[n].block = u.block /\ lock'[n].round >= u.round
            \/ Released(u.block, u.round)'
  <2>1. CASE TakesLock(n, v)
    <3>1. lock'[n] = [round |-> v.round, block |-> v.block]
      BY <1>1, <1>2, <1>3, <2>1 DEF TypeOK
    <3>2. IsPrecommit(v) /\ (lock[n] = None \/ v.round >= lock[n].round)
      BY <2>1 DEF TakesLock, IsPrecommit
    <3>3. v.block \in Block /\ PolkaOf(v) \in Reached(votes)
      BY <1>4, <3>2 DEF IsPrecommit, Vote
    <3>4. lock'[n] # None
      BY <1>10, <3>1, <3>3, VotingAssumption DEF Cert
    <3>5. VoteOf("precommit", lock'[n].round, lock'[n].block, n) = v
      BY <1>4, <3>1, <3>2 DEF VoteOf, Vote, IsPrecommit
    <3>6. ASSUME NEW u \in CastBy(n), IsPrecommit(u)
          PROVE  \/ lock'[n].block = u.block /\ lock'[n].round >= u.round
                 \/ Released(u.block, u.round)
      <4>1. u.block \in Block /\ u.round \in Nat
        BY <1>1, <3>6, PrecommitPolka, VotingAssumption DEF Round
      <4>2. CASE Released(u.block, u.round)
        BY <4>2
      <4>3. CASE ~Released(u.block, u.round)
        <5>1. lock[n] # None /\ lock[n].block = u.block /\ lock[n].round >= u.round
          BY <1>1, <1>3, <3>6, <4>3 DEF LockKept
        <5>2. v.round >= u.round
          BY <1>10, <1>11, <3>2, <4>1, <5>1
        <5>3. v.block = u.block
          BY <1>4, <1>12, <3>2, <3>3, <4>1, <4>3, <5>2
        <5> QED
          BY <3>1, <5>2, <5>3
      <4> QED
        BY <4>2, <4>3
    <3> QED
      BY <1>2, <1>3, <1>8, <1>9, <1>10, <3>1, <3>4, <3>5, <3>6
  <2>2. CASE ~TakesLock(n, v)
    <3>1. lock'[n] = lock[n]
      BY <1>3, <2>2
    <3>2. ASSUME IsPrecommit(v)
          PROVE  \/ lock[n] # None /\ lock[n].block = v.block /\ lock[n].round >= v.round
                 \/ Released(v.block, v.round)
      <4>1. lock[n] # None /\ v.round < lock[n].round
        BY <1>10, <1>11, <2>2, <3>2 DEF TakesLock, IsPrecommit
      <4> DEFINE u == VoteOf("precommit", lock[n].round, lock[n].block, n)
      <4>2. u \in CastBy(n) /\ IsPrecommit(u) /\ u.block = lock[n].block /\ u.round = lock[n].round
        BY <1>10, <1>11, <4>1 DEF IsPrecommit, VoteOf
      <4>3. u \in Vote /\ PolkaOf(u) \in Reached(votes)
        BY <1>1, <4>2, PrecommitPolka
      <4>4. v.block \in Block
        BY <1>4, <3>2 DEF IsPrecommit, Vote
      <4> HIDE DEF u
      <4>5. CASE v.block # lock[n].block
        BY <1>10, <1>11, <1>12, <4>1, <4>2, <4>3, <4>4, <4>5
      <4>6. CASE v.block = lock[n].block
        BY <1>10, <1>11, <4>1, <4>6
      <4> QED
        BY <4>5, <4>6
    <3>3. \A u \in CastBy(n) : IsPrecommit(u) =>
            \/ lock[n] # None /\ lock[n].block = u.block /\ lock[n].round >= u.round
            \/ Released(u.block, u.round)
      BY <1>1, <1>3 DEF LockKept
    <3>4. lock[n] # None => VoteOf("precommit", lock[n].round, lock[n].block, n) \in votes
      BY <1>1, <1>3 DEF LockKept
    <3> QED
      BY <1>2, <1>3, <1>8, <1>9, <3>1, <3>2, <3>3, <3>4
  <2> QED
    BY <2>1, <2>2
<1>14. LockKept'
  <2> SUFFICES ASSUME NEW m \in Honest, decided'[m] = None
               PROVE  /\ lock'[m] # None => VoteOf("precommit", lock'[m].round, lock'[m].block, m) \in votes'
                      /\ \A u \in CastBy(m)' : IsPrecommit(u) =>
                           \/ lock'[m] # None /\ lock'[m].block = u.block /\ lock'[m].round >= u.round
                           \/ Released(u.block, u.round)'
    BY DEF LockKept
  <2>1. CASE m = n
    BY <1>13, <2>1
  <2>2. CASE m # n
    <3>1. lock'[m] = lock[m] /\ CastBy(m)' = CastBy(m) /\ decided[m] = None
      BY <1>1, <1>2, <1>3, <1>9, <2>2 DEF TypeOK
    <3> QED
      BY <1>1, <1>3, <1>8, <3>1 DEF LockKept
  <2> QED
    BY <2>1, <2>2
\* A later prevote for another block, in the state before: it had been released.
<1>15. ASSUME NEW m \in Honest, NEW u \in CastBy(m)', NEW w \in CastBy(m)',
              IsPrecommit(u), IsPrevoteNot(w, u.block), w.round > u.round
       PROVE  Released(u.block, u.round)
  <2>1. u \in Vote /\ w \in Vote /\ m \in Validator
    BY <1>2, <1>7 DEF CastBy
  <2>2. CASE u \in CastBy(m) /\ w \in CastBy(m)
    BY <1>1, <1>15, <2>2 DEF LaterReleased
  <2>3. CASE u \in CastBy(m) /\ w \notin CastBy(m)
    <3>1. m = n /\ w = v
      BY <1>9, <2>1, <2>3
    <3>2. v.block # Nil /\ v.type = "prevote" /\ v.block # u.block
      BY <1>15, <3>1 DEF IsPrevoteNot
    <3>3. lock[n] = None \/ lock[n].block = v.block
      BY <1>6, <3>2 DEF Timely
    <3> QED
      BY <1>1, <1>3, <1>15, <2>3, <3>1, <3>2, <3>3 DEF LockKept
  <2>4. CASE u \notin CastBy(m) /\ w \in CastBy(m)
    <3>1. m = n /\ u = v
      BY <1>9, <2>1, <2>4
    <3>2. w.round <= v.round
      BY <1>5, <1>6, <1>15, <2>4, <3>1 DEF Timely, IsPrecommit, IsPrevoteNot
    <3> QED
      BY <1>15, <2>1, <3>1, <3>2 DEF Vote, Round
  <2>5. CASE u \notin CastBy(m) /\ w \notin CastBy(m)
    BY <1>9, <1>15, <2>1, <2>5 DEF IsPrecommit, IsPrevoteNot
  <2> QED
    BY <2>2, <2>3, <2>4, <2>5
<1>16. LaterReleased'
  BY <1>8, <1>15 DEF LaterReleased
\* What may be committed now might have been before.
<1>17. ASSUME NEW r \in Round, NEW b \in Block, MayCommit(r, b)'
       PROVE  MayCommit(r, b)
  <2>1. PICK Q \in Quorum : \A m \in Q \cap Honest : MayPrecommit(m, r, b)'
    BY <1>17 DEF MayCommit
  <2>2. ASSUME NEW m \in Q \cap Honest PROVE MayPrecommit(m, r, b)
    <3>1. m \in Validator
      BY <1>2
    <3>2. CASE \A w \in CastBy(m)' : IsPrevoteNot(w, b) => w.round <= r
      BY <1>9, <3>1, <3>2 DEF MayPrecommit
    <3>3. CASE VoteOf("precommit", r, b, m) \in votes
      BY <3>3 DEF MayPrecommit
    <3>4. CASE VoteOf("precommit", r, b, m) \in votes' /\ VoteOf("precommit", r, b, m) \notin votes
      <4>1. v = VoteOf("precommit", r, b, m) /\ m = n
        BY <1>3, <1>4, <3>4 DEF VoteOf
      <4>2. v.type = "precommit" /\ v.block = b /\ v.round = r /\ v.block # Nil
        BY <1>10, <4>1 DEF VoteOf
      <4> QED
        BY <1>5, <1>6, <4>1, <4>2 DEF Timely, MayPrecommit, IsPrevoteNot
    <3> QED
      BY <2>1, <3>2, <3>3, <3>4 DEF MayPrecommit
  <2> QED
    BY <2>2 DEF MayCommit
<1>18. PolkasSafe'
  <2> SUFFICES ASSUME NEW q \in Reached(votes'), q.type = "prevote", q.block # Nil,
                      NEW b \in Block \ {q.block}, NEW r \in Round, r < q.round,
                      MayCommit(r, b)'
               PROVE  FALSE
    BY DEF PolkasSafe
  <2>1. MayCommit(r, b)
    BY <1>17
  <2>2. PICK Q \in Quorum : \A m \in Q \cap Honest : MayPrecommit(m, r, b)'
    BY DEF MayCommit
  <2>3. q \in Tally /\ Voters(votes', q) \in Quorum
    BY DEF Reached, HasQuorum
  <2>4. PICK m \in Honest : m \in Q /\ m \in Voters(votes', q)
    BY <2>3, QuorumsMeet
  <2> DEFINE w == VoteOf(q.type, q.round, q.block, m)
             u == VoteOf("precommit", r, b, m)
  <2>5. w \in CastBy(m)' /\ IsPrevoteNot(w, b) /\ w.round = q.round
    BY <2>4, ReachedVoter DEF CastBy, VoteOf, IsPrevoteNot
  <2>6. r \in Nat /\ q.round \in Nat
    BY <2>3, VotingAssumption DEF Tally, Round
  <2>7. u \in CastBy(m)' /\ IsPrecommit(u) /\ u.block = b /\ u.round = r
    <3>1. u \in votes'
      BY <2>2, <2>4, <2>5, <2>6 DEF MayPrecommit
    <3> QED
      BY <1>10, <3>1 DEF CastBy, VoteOf, IsPrecommit
  <2>8. Released(b, r)
    <3>1. IsPrevoteNot(w, u.block) /\ w.round > u.round
      BY <2>5, <2>6, <2>7
    <3> HIDE DEF u, w
    <3> QED
      BY <1>15, <2>5, <2>7, <3>1
  <2>9. PICK p \in Reached(votes) : IsPrevoteNot(p, b) /\ p.round >= r
    BY <2>8 DEF Released
  <2>10. p \in Tally /\ p.round \in Nat
    BY <2>9, ReachedTally, VotingAssumption DEF Tally, Round
  <2>11. CASE p.round > r
    BY <1>1, <2>1, <2>9, <2>11 DEF PolkasSafe, IsPrevoteNot
  <2>12. CASE p.round = r
    \* Both blocks have their prevotes in round r: that of b is precommitted there.
    <3>1. b \in Block /\ [type |-> "prevote", round |-> r, block |-> b] \in Reached(votes)
      <4>1. PolkaOf(u) \in Reached(votes)
        <5>1. CASE u \in CastBy(m)
          BY <1>1, <2>7, <5>1, PrecommitPolka
        <5>2. CASE u \notin CastBy(m)
          <6>1. u = v
            BY <1>2, <1>9, <2>7, <5>2
          <6> QED
            BY <1>4, <2>7, <6>1 DEF IsPrecommit
        <5> QED
          BY <5>1, <5>2
      <4> QED
        BY <4>1 DEF PolkaOf, VoteOf
    <3>2. p.type = "prevote"
      BY <2>9 DEF IsPrevoteNot
    <3>3. p.block = b
      BY <1>1, <2>12, <3>1, <3>2, OneBlockARound
    <3> QED
      BY <2>9, <3>3 DEF IsPrevoteNot
  <2> QED
    BY <2>6, <2>9, <2>10, <2>11, <2>12
<1> QED
  BY <1>14, <1>16, <1>18

-----------------------------------------------------------------------------
(* Agreement as long as no vote is overtaken. *)

LEMMA InitAgreement == Init => AInv
<1> SUFFICES ASSUME Init PROVE AInv
  OBVIOUS
<1>1. IInv
  BY InitInvariant
<1>2. \A n \in Honest : CastBy(n) = {} /\ lock[n] = None
  BY DEF Honest, Init, CastBy
<1>3. LockKept /\ LaterReleased
  BY <1>2 DEF LockKept, LaterReleased
<1>4. Reached(votes) = {}
  <2> SUFFICES ASSUME NEW q \in Reached(votes) PROVE FALSE
    OBVIOUS
  <2>1. Voters(votes, q) \in Quorum
    BY DEF Reached, HasQuorum
  <2>2. PICK n \in Honest : n \in Voters(votes, q)
    BY <2>1, QuorumsMeet
  <2>3. VoteOf(q.type, q.round, q.block, n) \in CastBy(n)
    BY <2>2, ReachedVoter DEF CastBy, VoteOf
  <2> QED
    BY <1>2, <2>3
<1> QED
  BY <1>1, <1>3, <1>4 DEF AInv, PolkasSafe

LEMMA NextAgreement ==
  ASSUME AInv, [Next]_vars,
         [\A n \in Honest, g \in Goroutine : CastVote(n, g) => Timely(n, pc[n][g].vote)]_vars
  PROVE  AInv'
<1>1. IInv'
  BY NextInvariant DEF AInv
<1>2. ASSUME LockKept' /\ LaterReleased' /\ PolkasSafe' PROVE AInv'
  BY <1>1, <1>2 DEF AInv
<1>3. CASE UNCHANGED vars
  BY <1>2, <1>3, NoLock DEF vars, memory
<1>4. CASE Next /\ ~UNCHANGED vars
  <2>1. PICK n \in Honest :
          \/ Tick(n)
          \/ \E p \in Sendable : HandleProposal(n, p)
          \/ HandleVote(n)
          \/ \E g \in Goroutine :
               Ingest(n, g) \/ CastVote(n, g) \/ CastRefused(n, g) \/ Finish(n, g)
          \/ \E m \in Honest : Sync(n, m)
          \/ Restart(n)
    BY <1>4 DEF Next
  <2>2. CASE Tick(n)
    BY <1>2, <2>2, NoLock DEF Tick
  <2>3. ASSUME NEW p \in Sendable, HandleProposal(n, p) PROVE AInv'
    <3>1. GoroutineOf["proposal"] \in Goroutine
      BY VotingAssumption DEF Entry
    <3>2. p \in Proposal /\ CertTally(p.polka) \subseteq Reached(votes)
      BY SendableBacked DEF AInv
    <3> QED
      BY <1>2, <2>3, <3>1, <3>2, AcceptKeeps DEF HandleProposal
  <2>4. CASE HandleVote(n)
    BY <1>2, <2>4, NoLock DEF HandleVote
  <2>5. ASSUME NEW g \in Goroutine, Ingest(n, g) PROVE AInv'
    <3> DEFINE p == [block |-> pc[n][g].block, round |-> pc[n][g].round, polka |-> pc[n][g].polka]
    <3>1. pc[n][g] \in Step /\ Justified(n, pc[n][g], votes) /\ pc[n][g].op = "ingest"
      BY <2>5 DEF AInv, IInv, Control, StepsOf, Ingest
    <3>2. p \in Proposal /\ CertTally(p.polka) \subseteq Reached(votes)
      BY <3>1 DEF Justified, Step, Idle, CastStep, IngestStep, FinishStep, Proposal
    <3>3. Accept(n, g, p)
      BY <2>5 DEF Ingest
    <3> HIDE DEF p
    <3> QED
      BY <1>2, <3>2, <3>3, AcceptKeeps
  <2>6. ASSUME NEW g \in Goroutine, CastVote(n, g) PROVE AInv'
    BY <1>2, <1>4, <2>6, CastKeeps
  <2>7. ASSUME NEW g \in Goroutine, CastRefused(n, g) PROVE AInv'
    BY <1>2, <2>7, NoLock DEF CastRefused
  <2>8. ASSUME NEW g \in Goroutine, Finish(n, g) PROVE AInv'
    <3>1. \A m \in Honest : decided'[m] = None => decided[m] = None /\ lock'[m] = lock[m]
      <4> SUFFICES ASSUME NEW m \in Honest, decided'[m] = None
                   PROVE  decided[m] = None /\ lock'[m] = lock[m]
        OBVIOUS
      <4>1. m # n
        <5>1. decided'[n] \in Cert
          <6>1. pc[n][g] \in Step /\ pc[n][g].op = "finish"
            BY <2>8 DEF AInv, IInv, TypeOK, Finish, Honest
          <6>2. pc[n][g].cert \in Cert
            BY <6>1 DEF Step, Idle, CastStep, IngestStep, FinishStep
          <6> QED
            BY <2>8, <6>2 DEF Finish, AInv, IInv, TypeOK, Honest
        <5> QED
          BY <5>1, VotingAssumption
      <4> QED
        BY <2>8, <4>1 DEF Finish, AInv, IInv, TypeOK, Honest
    <3> QED
      BY <1>2, <2>8, <3>1, NoLock DEF Finish
  <2>9. ASSUME NEW m \in Honest, Sync(n, m) PROVE AInv'
    BY <1>2, <2>9, NoLock DEF Sync
  <2>10. CASE Restart(n)
    BY <1>2, <2>10, RestartKeeps
  <2> QED
    BY <2>1, <2>2, <2>3, <2>4, <2>5, <2>6, <2>7, <2>8, <2>9, <2>10
<1> QED
  BY <1>3, <1>4

\* However the goroutines of the nodes are scheduled, and with any number of restarts:
\* as long as no vote is cast that has been overtaken since it was decided on, no two
\* honest validators commit different blocks, and a lock is released by a quorum only.
THEOREM AgreementUnlessOvertaken == Spec /\ NoneOvertaken => [](Agreement /\ LockHonoured)
<1>1. AInv => Agreement /\ LockHonoured
  BY InvariantAgrees, InvariantHonoursLocks
<1> QED
  BY <1>1, InitAgreement, NextAgreement, PTL DEF Spec, NoneOvertaken

-----------------------------------------------------------------------------
(* One goroutine overtakes nothing. *)

\* A step that was decided on is still one to take in round r with lock l.
Fits(r, l, st) ==
  /\ st.op = "prevote" /\ st.vote.block # Nil =>
       /\ st.vote.type = "prevote" /\ st.vote.round <= r
       /\ l = None \/ l.block = st.vote.block
  /\ st.op = "precommit" => st.vote.type = "precommit" /\ st.vote.round = r
  /\ st.op = "flush" => st.vote.block = Nil

\* What the driver puts off: nil votes, and a proposal.
Deferred == {st \in CastStep \cup IngestStep : st.op = "ingest" \/ (st.op = "flush" /\ st.vote.block = Nil)}

\* A node that has not decided is in a round no lower than its prevotes for blocks.
Caught(n) == \A w \in CastBy(n) : w.type = "prevote" /\ w.block # Nil => w.round <= round[n]

InTurn ==
  \A n \in Honest : decided[n] = None =>
    /\ Caught(n)
    /\ \A g \in Goroutine : Fits(round[n], lock[n], pc[n][g]) /\ queue[n][g] \in Seq(Deferred)

LEMMA InTurnTimely ==
  ASSUME IInv, InTurn, NEW n \in Honest, NEW g \in Goroutine, CastVote(n, g)
  PROVE  Timely(n, pc[n][g].vote)
<1> DEFINE v == pc[n][g].vote
<1>1. decided[n] = None /\ pc[n][g] \in CastStep
  BY DEF CastVote, Undecided
<1>2. Caught(n) /\ Fits(round[n], lock[n], pc[n][g]) /\ own[n] = CastBy(n)
  BY <1>1 DEF InTurn, IInv, Remembered
<1>3. pc[n][g].op \in {"prevote", "precommit", "flush"}
  BY <1>1 DEF CastStep
<1>4. \A w \in own[n] : IsPrevoteNot(w, v.block) => w.type = "prevote" /\ w.block # Nil
  BY DEF IsPrevoteNot
<1> QED
  BY <1>2, <1>3, <1>4 DEF Timely, Fits, Caught

\* Node n, which has one goroutine, goes on with a step that fits.
LEMMA TurnTaken ==
  ASSUME Serial, InTurn, TypeOK, NEW n \in Honest, NEW g \in Goroutine,
         NEW st, NEW sq \in Seq(Deferred),
         pc' = [pc EXCEPT ![n][g] = st], queue' = [queue EXCEPT ![n][g] = sq],
         Fits(round'[n], lock'[n], st), decided'[n] = None => Caught(n)',
         \A m \in Honest \ {n} : /\ round'[m] = round[m] /\ lock'[m] = lock[m]
                                 /\ decided'[m] = decided[m] /\ CastBy(m)' = CastBy(m)
  PROVE  InTurn'
<1> SUFFICES ASSUME NEW m \in Honest, decided'[m] = None
             PROVE  Caught(m)' /\ \A h \in Goroutine : Fits(round'[m], lock'[m], pc'[m][h]) /\ queue'[m][h] \in Seq(Deferred)
  BY DEF InTurn
<1>1. n \in Validator /\ m \in Validator
  BY DEF Honest
<1>2. /\ pc \in [Validator -> [Goroutine -> Step]]
      /\ queue \in [Validator -> [Goroutine -> Seq(CastStep \cup IngestStep)]]
  BY DEF TypeOK
<1>3. CASE m = n
  <2> SUFFICES ASSUME NEW h \in Goroutine
               PROVE  Fits(round'[n], lock'[n], pc'[n][h]) /\ queue'[n][h] \in Seq(Deferred)
    BY <1>3
  <2>1. h = g
    BY DEF Serial
  <2>2. pc'[n][h] = st /\ queue'[n][h] = sq
    BY <1>1, <1>2, <2>1
  <2>3. Fits(round'[n], lock'[n], pc'[n][h]) <=> Fits(round'[n], lock'[n], st)
    BY <2>2 DEF Fits
  <2> QED
    BY <2>2, <2>3
<1>4. CASE m # n
  <2>1. \A h \in Goroutine : pc'[m][h] = pc[m][h] /\ queue'[m][h] = queue[m][h]
    BY <1>1, <1>2, <1>4
  <2>2. decided[m] = None /\ Caught(m) /\ \A h \in Goroutine : Fits(round[m], lock[m], pc[m][h]) /\ queue[m][h] \in Seq(Deferred)
    BY <1>4 DEF InTurn
  <2> QED
    BY <1>4, <2>1, <2>2 DEF Caught, Fits
<1> QED
  BY <1>3, <1>4

LEMMA DeferredFits == ASSUME NEW r, NEW l, NEW st \in Deferred \cup {Idle} PROVE Fits(r, l, st)
  BY DEF Deferred, Idle, Fits

\* The control operators leave the goroutine with a step that fits.
LEMMA MaybeCommitFits ==
  ASSUME TypeOK, NEW n \in Honest, NEW g \in Goroutine, queue[n][g] \in Seq(Deferred),
         NEW S, NEW B,
         MaybeCommit(n, g, S, B) \/ Resume(n, g)
  PROVE  \E st : \E sq \in Seq(Deferred) :
           /\ pc' = [pc EXCEPT ![n][g] = st]
           /\ queue' = [queue EXCEPT ![n][g] = sq]
           /\ Fits(round'[n], lock'[n], st)
<1>1. CASE \E q \in Winners(S, B) :
             Continue(n, g, [op |-> "finish", cert |-> [round |-> q.round, block |-> q.block]])
  <2>1. PICK q \in Winners(S, B) :
          Continue(n, g, [op |-> "finish", cert |-> [round |-> q.round, block |-> q.block]])
    BY <1>1
  <2> DEFINE st == [op |-> "finish", cert |-> [round |-> q.round, block |-> q.block]]
  <2>2. Fits(round'[n], lock'[n], st)
    BY DEF Fits
  <2>3. pc' = [pc EXCEPT ![n][g] = st] /\ queue' = [queue EXCEPT ![n][g] = queue[n][g]]
    BY <2>1 DEF Continue, TypeOK
  <2> HIDE DEF st
  <2> QED
    BY <2>2, <2>3
<1>2. CASE Resume(n, g)
  <2> DEFINE steps == queue[n][g]
             st == IF steps = <<>> THEN Idle ELSE Head(steps)
             sq == IF steps = <<>> THEN <<>> ELSE Tail(steps)
  <2>1. pc' = [pc EXCEPT ![n][g] = st] /\ queue' = [queue EXCEPT ![n][g] = sq]
    BY <1>2 DEF Resume, Run
  <2>2. st \in Deferred \cup {Idle} /\ sq \in Seq(Deferred)
    <3>1. steps \in Seq(Deferred)
      OBVIOUS
    <3> HIDE DEF steps
    <3> QED
      BY <3>1, RunResult
  <2>3. Fits(round'[n], lock'[n], st)
    BY <2>2, DeferredFits
  <2> HIDE DEF st, sq
  <2> QED
    BY <2>1, <2>2, <2>3
<1> QED
  BY <1>1, <1>2 DEF MaybeCommit

LEMMA OnVotesFits ==
  ASSUME TypeOK, NEW n \in Honest, NEW g \in Goroutine, queue[n][g] \in Seq(Deferred),
         NEW S, NEW O, OnVotes(n, g, S, O), UNCHANGED round
  PROVE  \E st : \E sq \in Seq(Deferred) :
           /\ pc' = [pc EXCEPT ![n][g] = st]
           /\ queue' = [queue EXCEPT ![n][g] = sq]
           /\ Fits(round'[n], lock'[n], st)
<1>1. CASE MaybeCommit(n, g, S, bodies[n])
  BY <1>1, MaybeCommitFits
<1>2. CASE \E v \in Decisions(n, round[n], S, O, bodies[n]) : Continue(n, g, Cast("precommit", v))
  <2>1. PICK v \in Decisions(n, round[n], S, O, bodies[n]) : Continue(n, g, Cast("precommit", v))
    BY <1>2
  <2>2. v.type = "precommit" /\ v.round = round[n]
    BY <2>1 DEF Decisions, VoteOf
  <2> DEFINE st == Cast("precommit", v)
  <2>3. Fits(round'[n], lock'[n], st)
    BY <2>2 DEF Fits, Cast
  <2>4. pc' = [pc EXCEPT ![n][g] = st] /\ queue' = [queue EXCEPT ![n][g] = queue[n][g]]
    BY <2>1 DEF Continue, TypeOK
  <2> HIDE DEF st
  <2> QED
    BY <2>3, <2>4
<1> QED
  BY <1>1, <1>2 DEF OnVotes

LEMMA TickInTurn ==
  ASSUME Serial, IInv, InTurn, NEW n \in Honest, Tick(n)
  PROVE  InTurn'
<1> USE VotingAssumption
<1> DEFINE g == GoroutineOf["driver"]
<1>1. n \in Validator /\ g \in Goroutine /\ TypeOK
  BY DEF Honest, Entry, IInv
<1>2. UNCHANGED <<lock, decided, votes>> /\ decided[n] = None
  BY DEF Tick, Free, Undecided
<1>3. PICK expired \in BOOLEAN :
        LET r == IF expired THEN round[n] + 1 ELSE round[n]
            flush == IF expired THEN NilVotes(n, round[n]) ELSE <<>>
        IN /\ r <= MaxRound
           /\ round' = [round EXCEPT ![n] = r]
           /\ \E ingest \in Build(n, r) : Run(n, g, flush \o ingest)
  BY DEF Tick
<1> DEFINE r == IF expired THEN round[n] + 1 ELSE round[n]
           flush == IF expired THEN NilVotes(n, round[n]) ELSE <<>>
<1>4. round[n] \in Round /\ r \in Round /\ r >= round[n]
  BY <1>1, <1>3 DEF TypeOK, Round
<1>5. PICK ingest \in Build(n, r) : Run(n, g, flush \o ingest)
  BY <1>3
<1>6. flush \in Seq(Deferred)
  <2>1. \A ty \in Phase : NilVote(n, ty, round[n]) \in Seq(Deferred)
    <3> SUFFICES ASSUME NEW ty \in Phase PROVE NilVote(n, ty, round[n]) \in Seq(Deferred)
      OBVIOUS
    <3> DEFINE st == Cast("flush", VoteOf(ty, round[n], Nil, n))
    <3>1. st \in Deferred
      BY <1>1, <1>4 DEF Deferred, Cast, CastStep, VoteOf, Vote
    <3>2. <<>> \in Seq(Deferred) /\ <<st>> \in Seq(Deferred)
      BY <3>1, EmptySeq
    <3> QED
      BY <3>2 DEF NilVote
  <2>2. NilVotes(n, round[n]) \in Seq(Deferred)
    BY <2>1, ConcatProperties DEF NilVotes, Phase
  <2> QED
    BY <2>2, EmptySeq
<1>7. ingest \in Seq(Deferred)
  <2>1. \A b \in Block, i \in Round, c \in Cert \cup {None} :
          [op |-> "ingest", block |-> b, round |-> i, polka |-> c] \in Deferred
    BY DEF Deferred, IngestStep
  <2>2. CASE ingest = <<>>
    BY <2>2, EmptySeq
  <2>3. CASE Leader[r] = n /\ valid[n] # None /\ valid[n].block \in bodies[n]
    <3> DEFINE c == IF CertTally(valid[n]) \subseteq quorums[n] THEN valid[n] ELSE None
    <3>1. valid[n] \in Cert
      BY <1>1, <2>3 DEF TypeOK
    <3>2. c \in Cert \cup {None} /\ valid[n].block \in Block
      BY <3>1 DEF Cert
    <3>3. ingest = <<[op |-> "ingest", block |-> valid[n].block, round |-> r, polka |-> c]>>
      BY <1>5, <2>3 DEF Build
    <3>4. [op |-> "ingest", block |-> valid[n].block, round |-> r, polka |-> c] \in Deferred
      BY <1>4, <2>1, <3>2
    <3> HIDE DEF c
    <3> QED
      BY <3>3, <3>4
  <2>4. CASE \E k \in Variant : ingest = <<[op |-> "ingest", block |-> [round |-> r, variant |-> k],
                                            round |-> r, polka |-> None]>>
    BY <1>4, <2>1, <2>4 DEF Block
  <2> QED
    BY <1>5, <2>2, <2>3, <2>4 DEF Build
<1> DEFINE steps == flush \o ingest
           st == IF steps = <<>> THEN Idle ELSE Head(steps)
           sq == IF steps = <<>> THEN <<>> ELSE Tail(steps)
<1>8. pc' = [pc EXCEPT ![n][g] = st] /\ queue' = [queue EXCEPT ![n][g] = sq]
  BY <1>5 DEF Run
<1>9. st \in Deferred \cup {Idle} /\ sq \in Seq(Deferred)
  <2>1. steps \in Seq(Deferred)
    BY <1>6, <1>7, ConcatProperties
  <2> HIDE DEF steps
  <2> QED
    BY <2>1, RunResult
<1>10. Fits(round'[n], lock'[n], st)
  BY <1>9, DeferredFits
<1>11. Caught(n)'
  <2>1. Caught(n) /\ CastBy(n)' = CastBy(n) /\ round'[n] = r
    BY <1>1, <1>2, <1>3 DEF InTurn, CastBy, TypeOK
  <2>2. \A w \in CastBy(n) : w.round \in Nat
    BY <1>1 DEF CastBy, TypeOK, Vote, Round
  <2> QED
    BY <1>4, <2>1, <2>2 DEF Caught, Round
<1>12. \A m \in Honest \ {n} : /\ round'[m] = round[m] /\ lock'[m] = lock[m]
                               /\ decided'[m] = decided[m] /\ CastBy(m)' = CastBy(m)
  BY <1>1, <1>2, <1>3 DEF TypeOK, CastBy, Honest
<1> HIDE DEF g, st, sq
<1> QED
  BY <1>1, <1>8, <1>9, <1>10, <1>11, <1>12, TurnTaken

LEMMA AcceptInTurn ==
  ASSUME Serial, IInv, InTurn, NEW n \in Honest, NEW g \in Goroutine, NEW p \in Proposal,
         Undecided(n), Accept(n, g, p)
  PROVE  InTurn'
<1>1. n \in Validator /\ TypeOK /\ p.round \in Round /\ decided[n] = None
  BY DEF Honest, IInv, Proposal, Undecided
<1>2. UNCHANGED <<decided, votes>>
  BY DEF Accept
<1>3. queue[n][g] \in Seq(Deferred) /\ Caught(n)
  BY <1>1 DEF InTurn
<1> DEFINE support == /\ lock[n] = None \/ lock[n].block = p.block \/ Unlocks(n, p)
                      /\ p.block.variant \notin Refuses[n]
           b == IF support THEN p.block ELSE Nil
           v == VoteOf("prevote", p.round, b, n)
           st == Cast("prevote", v)
<1>4. pc' = [pc EXCEPT ![n][g] = st] /\ queue' = [queue EXCEPT ![n][g] = queue[n][g]]
  BY <1>1 DEF Accept, Continue, TypeOK
<1>5. /\ round'[n] = (IF p.round > round[n] THEN p.round ELSE round[n])
      /\ lock'[n] = IF Unlocks(n, p) THEN None ELSE lock[n]
      /\ round[n] \in Nat /\ p.round \in Nat
  BY <1>1, VotingAssumption DEF Accept, TypeOK, Round
<1>6. Fits(round'[n], lock'[n], st)
  BY <1>5 DEF Fits, Cast, VoteOf
<1>7. Caught(n)'
  <2>1. CastBy(n)' = CastBy(n) /\ \A w \in CastBy(n) : w.round \in Nat
    BY <1>1, <1>2, VotingAssumption DEF CastBy, TypeOK, Vote, Round
  <2> QED
    BY <1>3, <1>5, <2>1 DEF Caught
<1>8. \A m \in Honest \ {n} : /\ round'[m] = round[m] /\ lock'[m] = lock[m]
                              /\ decided'[m] = decided[m] /\ CastBy(m)' = CastBy(m)
  BY <1>1, <1>2 DEF Accept, TypeOK, CastBy, Honest
<1> HIDE DEF st
<1> QED
  BY <1>1, <1>3, <1>4, <1>6, <1>7, <1>8, TurnTaken

\* The steps that change neither round nor lock, and cast nothing.
LEMMA CountInTurn ==
  ASSUME Serial, IInv, InTurn, NEW n \in Honest, NEW g \in Goroutine,
         UNCHANGED <<round, lock, decided, votes>>, decided[n] = None,
         NEW S, NEW B, NEW O,
         MaybeCommit(n, g, S, B) \/ Resume(n, g) \/ OnVotes(n, g, S, O)
  PROVE  InTurn'
<1>1. TypeOK /\ queue[n][g] \in Seq(Deferred) /\ Caught(n)
  BY DEF IInv, InTurn
<1>2. PICK st : \E sq \in Seq(Deferred) :
         /\ pc' = [pc EXCEPT ![n][g] = st]
         /\ queue' = [queue EXCEPT ![n][g] = sq]
         /\ Fits(round'[n], lock'[n], st)
  BY <1>1, MaybeCommitFits, OnVotesFits
<1>3. Caught(n)' /\ \A m \in Honest : CastBy(m)' = CastBy(m)
  BY <1>1 DEF Caught, CastBy
<1> QED
  BY <1>1, <1>2, <1>3, TurnTaken

LEMMA CastVoteInTurn ==
  ASSUME Serial, IInv, InTurn, NEW n \in Honest, NEW g \in Goroutine, CastVote(n, g)
  PROVE  InTurn'
<1> DEFINE v == pc[n][g].vote
<1>1. n \in Validator /\ TypeOK /\ decided[n] = None
  BY DEF Honest, IInv, CastVote, Undecided
<1>2. queue[n][g] \in Seq(Deferred) /\ Caught(n) /\ Fits(round[n], lock[n], pc[n][g])
  BY <1>1 DEF InTurn
<1>3. pc[n][g] \in CastStep /\ v \in Vote /\ v.voter = n
  BY DEF CastVote, IInv, Control, StepsOf, Justified, CastStep
<1>4. /\ UNCHANGED <<round, decided>>
      /\ votes' = votes \cup {v}
      /\ lock' = IF TakesLock(n, v)
                 THEN [lock EXCEPT ![n] = [round |-> v.round, block |-> v.block]] ELSE lock
      /\ \E S : OnVotes(n, g, S, own[n] \cup {v})
  BY DEF CastVote
<1>5. PICK st : \E sq \in Seq(Deferred) :
         /\ pc' = [pc EXCEPT ![n][g] = st]
         /\ queue' = [queue EXCEPT ![n][g] = sq]
         /\ Fits(round'[n], lock'[n], st)
  BY <1>1, <1>2, <1>4, OnVotesFits
<1>6. Caught(n)'
  <2>1. CastBy(n)' \subseteq CastBy(n) \cup {v}
    BY <1>4 DEF CastBy
  <2>2. v.type = "prevote" /\ v.block # Nil => v.round <= round[n]
    BY <1>2, <1>3 DEF Fits, CastStep
  <2> QED
    BY <1>2, <1>4, <2>1, <2>2 DEF Caught
<1>7. \A m \in Honest \ {n} : /\ round'[m] = round[m] /\ lock'[m] = lock[m]
                              /\ decided'[m] = decided[m] /\ CastBy(m)' = CastBy(m)
  BY <1>1, <1>3, <1>4 DEF TypeOK, CastBy, Honest
<1> QED
  BY <1>1, <1>5, <1>6, <1>7, TurnTaken

\* A node whose goroutines are idle, in the round that a restart resumes.
LEMMA IdleInTurn ==
  ASSUME Serial, IInv, InTurn, NEW n \in Honest,
         pc' = [pc EXCEPT ![n] = [h \in Goroutine |-> Idle]],
         queue' = [queue EXCEPT ![n] = [h \in Goroutine |-> <<>>]],
         UNCHANGED votes, decided'[n] = None => Caught(n)',
         \A m \in Honest \ {n} : /\ round'[m] = round[m] /\ lock'[m] = lock[m]
                                 /\ decided'[m] = decided[m]
  PROVE  InTurn'
<1> SUFFICES ASSUME NEW m \in Honest, decided'[m] = None
             PROVE  /\ Caught(m)'
                    /\ \A h \in Goroutine : Fits(round'[m], lock'[m], pc'[m][h]) /\ queue'[m][h] \in Seq(Deferred)
  BY DEF InTurn
<1>1. n \in Validator /\ m \in Validator /\ TypeOK
  BY DEF Honest, IInv
<1>2. CASE m = n
  <2>1. \A h \in Goroutine : pc'[n][h] = Idle /\ queue'[n][h] = <<>>
    BY <1>1 DEF TypeOK
  <2> QED
    BY <1>2, <2>1, DeferredFits, EmptySeq
<1>3. CASE m # n
  <2>1. pc'[m] = pc[m] /\ queue'[m] = queue[m] /\ CastBy(m)' = CastBy(m)
    BY <1>1, <1>3 DEF TypeOK, CastBy
  <2> QED
    BY <1>3, <2>1 DEF InTurn, Caught
<1> QED
  BY <1>2, <1>3

LEMMA FinishInTurn ==
  ASSUME Serial, IInv, InTurn, NEW n \in Honest, NEW g \in Goroutine, Finish(n, g)
  PROVE  InTurn'
<1>1. n \in Validator /\ TypeOK /\ Honest \subseteq Validator
  BY DEF Honest, IInv
<1>2. pc[n][g] \in Step /\ pc[n][g].op = "finish"
  BY <1>1 DEF TypeOK, Finish
<1>3. pc[n][g].cert \in Cert
  BY <1>2 DEF Step, Idle, CastStep, IngestStep, FinishStep
<1>4. decided'[n] # None
  BY <1>1, <1>3, VotingAssumption DEF Finish, TypeOK
<1>5. \A m \in Honest \ {n} : /\ round'[m] = round[m] /\ lock'[m] = lock[m]
                              /\ decided'[m] = decided[m]
  BY <1>1 DEF Finish, TypeOK
<1> QED
  BY <1>4, <1>5, IdleInTurn DEF Finish

LEMMA RestartInTurn ==
  ASSUME Serial, IInv, InTurn, NEW n \in Honest, Restart(n)
  PROVE  InTurn'
<1>1. n \in Validator /\ TypeOK /\ Honest \subseteq Validator /\ decided[n] = None
  BY DEF Honest, IInv, Restart, Undecided
<1>2. disk[n] = CastBy(n) /\ UNCHANGED <<votes, decided>>
  BY <1>1 DEF IInv, Remembered, Restart
<1>3. round'[n] \in ResumeRound(CastBy(n))
  BY <1>1, <1>2 DEF Restart, TypeOK
<1>4. \A w \in CastBy(n) : w.round \in Nat
  BY <1>1, VotingAssumption DEF CastBy, TypeOK, Vote, Round
<1>5. Caught(n)'
  <2>1. \A w \in CastBy(n) : w.round <= round'[n]
    BY <1>3, <1>4 DEF ResumeRound, Highest
  <2> QED
    BY <1>2, <2>1 DEF Caught, CastBy
<1>6. \A m \in Honest \ {n} : /\ round'[m] = round[m] /\ lock'[m] = lock[m]
                              /\ decided'[m] = decided[m]
  BY <1>1, <1>2 DEF Restart, TypeOK
<1> QED
  BY <1>2, <1>5, <1>6, IdleInTurn DEF Restart

LEMMA InitInTurn == Init => InTurn
  BY EmptySeq, DeferredFits DEF Init, InTurn, Caught, CastBy, Honest

LEMMA NextInTurn ==
  ASSUME Serial, IInv, InTurn, [Next]_vars
  PROVE  InTurn'
<1>1. CASE UNCHANGED vars
  BY <1>1 DEF vars, memory, control, InTurn, Caught, CastBy
<1>2. CASE Next
  <2>1. PICK n \in Honest :
          \/ Tick(n)
          \/ \E p \in Sendable : HandleProposal(n, p)
          \/ HandleVote(n)
          \/ \E g \in Goroutine :
               Ingest(n, g) \/ CastVote(n, g) \/ CastRefused(n, g) \/ Finish(n, g)
          \/ \E m \in Honest : Sync(n, m)
          \/ Restart(n)
    BY <1>2 DEF Next
  <2>2. GoroutineOf \in [Entry -> Goroutine] /\ {"proposal", "vote", "sync"} \subseteq Entry
    BY VotingAssumption DEF Entry
  <2>3. CASE Tick(n)
    BY <2>3, TickInTurn
  <2>4. ASSUME NEW p \in Sendable, HandleProposal(n, p) PROVE InTurn'
    <3>1. p \in Proposal
      BY SendableBacked
    <3> QED
      BY <2>2, <2>4, <3>1, AcceptInTurn DEF HandleProposal, Free
  <2>5. CASE HandleVote(n)
    BY <2>2, <2>5, CountInTurn DEF HandleVote, Free, Undecided
  <2>6. ASSUME NEW g \in Goroutine, Ingest(n, g) PROVE InTurn'
    <3> DEFINE p == [block |-> pc[n][g].block, round |-> pc[n][g].round, polka |-> pc[n][g].polka]
    <3>1. pc[n][g] \in Step /\ pc[n][g].op = "ingest"
      BY <2>6 DEF IInv, Control, StepsOf, Ingest
    <3>2. p \in Proposal
      BY <3>1 DEF Step, Idle, CastStep, IngestStep, FinishStep, Proposal
    <3>3. Accept(n, g, p) /\ Undecided(n)
      BY <2>6 DEF Ingest
    <3> HIDE DEF p
    <3> QED
      BY <3>2, <3>3, AcceptInTurn
  <2>7. ASSUME NEW g \in Goroutine, CastVote(n, g) PROVE InTurn'
    BY <2>7, CastVoteInTurn
  <2>8. ASSUME NEW g \in Goroutine, CastRefused(n, g) PROVE InTurn'
    BY <2>8, CountInTurn DEF CastRefused, Undecided
  <2>9. ASSUME NEW g \in Goroutine, Finish(n, g) PROVE InTurn'
    BY <2>9, FinishInTurn
  <2>10. ASSUME NEW m \in Honest, Sync(n, m) PROVE InTurn'
    BY <2>2, <2>10, CountInTurn DEF Sync, Free, Undecided
  <2>11. CASE Restart(n)
    BY <2>11, RestartInTurn
  <2> QED
    BY <2>1, <2>3, <2>4, <2>5, <2>6, <2>7, <2>8, <2>9, <2>10, <2>11
<1> QED
  BY <1>1, <1>2

\* A node that runs its handlers one at a time casts no vote that was overtaken.
THEOREM SerialOvertakesNothing == Serial => (Spec => NoneOvertaken)
<1> SUFFICES ASSUME Serial PROVE Spec => NoneOvertaken
  OBVIOUS
<1> DEFINE A == \A n \in Honest, g \in Goroutine : CastVote(n, g) => Timely(n, pc[n][g].vote)
<1>1. IInv /\ InTurn => A
  BY InTurnTimely
<1>2. IInv /\ InTurn /\ [Next]_vars => InTurn'
  BY NextInTurn
<1> QED
  BY <1>1, <1>2, InitInvariant, NextInvariant, InitInTurn, PTL DEF Spec, NoneOvertaken

\* So its heights agree.
THEOREM SerialAgreement == Serial => (Spec => []Agreement)
  BY SerialOvertakesNothing, AgreementUnlessOvertaken, PTL

THEOREM SerialLocks == Serial => (Spec => []LockHonoured)
  BY SerialOvertakesNothing, AgreementUnlessOvertaken, PTL

-----------------------------------------------------------------------------
(* Locks, however the goroutines are scheduled. *)

LockCast ==
  \A n \in Honest : decided[n] = None /\ lock[n] # None =>
    VoteOf("precommit", lock[n].round, lock[n].block, n) \in votes

\* What may become of a lock.
LockStep(n) ==
  lock[n] # None /\ lock'[n] # lock[n] /\ decided'[n] = None
    => \/ /\ lock'[n] # None /\ lock'[n].block = lock[n].block
          /\ lock'[n].round >= lock[n].round
       \/ \E r \in lock[n].round .. MaxRound, b \in Block \ {lock[n].block} :
            /\ HasQuorum(votes, [type |-> "prevote", round |-> r, block |-> b])
            /\ lock'[n] \in {None, [round |-> r, block |-> b]}

LEMMA SameLocks ==
  ASSUME LockCast, UNCHANGED <<lock, decided>>, votes \subseteq votes'
  PROVE  LockCast' /\ \A n \in Honest : LockStep(n)
  BY DEF LockCast, LockStep

\* Node n moves its lock to l, which is one it precommitted, or none.
LEMMA LockMoves ==
  ASSUME TypeOK, LockCast, NEW n \in Honest, NEW l,
         lock' = [lock EXCEPT ![n] = l], UNCHANGED decided, votes \subseteq votes',
         l # None => VoteOf("precommit", l.round, l.block, n) \in votes',
         LockStep(n)
  PROVE  LockCast' /\ \A m \in Honest : LockStep(m)
<1>1. lock'[n] = l /\ \A m \in Honest : m # n => lock'[m] = lock[m]
  BY DEF TypeOK, Honest
<1> QED
  BY <1>1 DEF LockCast, LockStep

LEMMA AcceptLocks ==
  ASSUME IInv, LockCast, NEW n \in Honest, NEW g \in Goroutine, NEW p \in Proposal,
         CertTally(p.polka) \subseteq Reached(votes), Accept(n, g, p)
  PROVE  LockCast' /\ \A m \in Honest : LockStep(m)
<1>1. TypeOK /\ n \in Validator /\ UNCHANGED <<decided, votes>>
  BY DEF IInv, Honest, Accept
<1>2. CASE Unlocks(n, p)
  <2>1. lock' = [lock EXCEPT ![n] = None] /\ lock'[n] = None
    BY <1>1, <1>2 DEF Accept, TypeOK
  <2>2. /\ p.polka \in Cert /\ lock[n] \in Cert
        /\ p.polka.block # lock[n].block /\ p.polka.round >= lock[n].round
        /\ [type |-> "prevote", round |-> p.polka.round, block |-> p.polka.block] \in Reached(votes)
    BY <1>1, <1>2 DEF Unlocks, Proposal, TypeOK, CertTally
  <2>3. p.polka.round \in lock[n].round .. MaxRound /\ p.polka.block \in Block
    BY <2>2, VotingAssumption DEF Cert, Round
  <2>4. LockStep(n)
    BY <2>1, <2>2, <2>3 DEF LockStep, Reached
  <2> QED
    BY <1>1, <2>1, <2>4, LockMoves
<1>3. CASE ~Unlocks(n, p)
  BY <1>1, <1>3, SameLocks DEF Accept
<1> QED
  BY <1>2, <1>3

LEMMA CastLocks ==
  ASSUME IInv, LockCast, NEW n \in Honest, NEW g \in Goroutine, CastVote(n, g)
  PROVE  LockCast' /\ \A m \in Honest : LockStep(m)
<1> DEFINE v == pc[n][g].vote
           l == [round |-> v.round, block |-> v.block]
<1>1. /\ TypeOK /\ n \in Validator /\ UNCHANGED decided /\ votes' = votes \cup {v}
      /\ lock' = IF TakesLock(n, v) THEN [lock EXCEPT ![n] = l] ELSE lock
  BY DEF IInv, Honest, CastVote
<1>2. v \in Vote /\ v.voter = n /\ (v.type = "precommit" /\ v.block # Nil => PolkaOf(v) \in Reached(votes))
  <2>1. pc[n][g] \in CastStep /\ Justified(n, pc[n][g], votes)
    BY DEF CastVote, IInv, Control, StepsOf
  <2> QED
    BY <2>1 DEF Justified, CastStep
<1> HIDE DEF v
<1>3. CASE TakesLock(n, v)
  <2>1. lock' = [lock EXCEPT ![n] = l] /\ lock'[n] = l
    BY <1>1, <1>3 DEF TypeOK
  <2>2. VoteOf("precommit", l.round, l.block, n) = v /\ v.block \in Block /\ v.round \in Round
    BY <1>2, <1>3 DEF TakesLock, Vote, VoteOf
  <2>3. l # None /\ HasQuorum(votes, [type |-> "prevote", round |-> v.round, block |-> v.block])
    BY <1>2, <1>3, <2>2, VotingAssumption DEF TakesLock, Cert, PolkaOf, Reached
  <2>4. LockStep(n)
    <3> SUFFICES ASSUME lock[n] # None
                 PROVE  \/ l.block = lock[n].block /\ l.round >= lock[n].round
                        \/ /\ v.round \in lock[n].round .. MaxRound
                           /\ v.block \in Block \ {lock[n].block}
      BY <2>1, <2>3 DEF LockStep
    <3>1. v.round >= lock[n].round /\ lock[n] \in Cert
      BY <1>1, <1>3 DEF TakesLock, TypeOK
    <3> QED
      BY <2>2, <3>1, VotingAssumption DEF Cert, Round
  <2> HIDE DEF l
  <2> QED
    BY <1>1, <2>1, <2>2, <2>4, LockMoves
<1>4. CASE ~TakesLock(n, v)
  BY <1>1, <1>4, SameLocks
<1> QED
  BY <1>3, <1>4

LEMMA RestartLocks ==
  ASSUME IInv, LockCast, NEW n \in Honest, Restart(n)
  PROVE  LockCast' /\ \A m \in Honest : LockStep(m)
<1>1. TypeOK /\ n \in Validator /\ UNCHANGED <<decided, votes>> /\ decided[n] = None
  BY DEF IInv, Honest, Restart, Undecided
<1>2. disk[n] = CastBy(n)
  BY <1>1 DEF IInv, Remembered
<1>3. PICK l \in ResumeLock(CastBy(n)) : lock' = [lock EXCEPT ![n] = l] /\ lock'[n] = l
  BY <1>1, <1>2 DEF Restart, TypeOK
<1>4. Precommits(CastBy(n)) = {v \in CastBy(n) : IsPrecommit(v)}
  BY DEF Precommits, IsPrecommit
<1>5. CASE l = None
  <2>1. Precommits(CastBy(n)) = {}
    <3>1. ASSUME NEW u \in Highest(Precommits(CastBy(n))) PROVE [round |-> u.round, block |-> u.block] # None
      <4>1. u.round \in Round /\ u.block \in Block
        BY <1>4, PrecommitPolka DEF Highest
      <4> QED
        BY <4>1, VotingAssumption DEF Cert
    <3> QED
      BY <1>3, <1>5, <3>1 DEF ResumeLock
  <2>2. lock[n] = None
    <3> SUFFICES ASSUME lock[n] # None PROVE FALSE
      OBVIOUS
    <3> DEFINE u == VoteOf("precommit", lock[n].round, lock[n].block, n)
    <3>1. u \in CastBy(n) /\ lock[n] \in Cert
      BY <1>1 DEF LockCast, CastBy, VoteOf, TypeOK
    <3>2. IsPrecommit(u)
      BY <3>1, VotingAssumption DEF IsPrecommit, VoteOf, Cert
    <3> QED
      BY <1>4, <2>1, <3>1, <3>2
  <2> QED
    BY <1>1, <1>3, <1>5, <2>2, LockMoves DEF LockStep
<1>6. CASE l # None
  <2>1. PICK u \in Highest(Precommits(CastBy(n))) : l = [round |-> u.round, block |-> u.block]
    BY <1>3, <1>6 DEF ResumeLock
  <2>2. u \in CastBy(n) /\ IsPrecommit(u) /\ \A v \in CastBy(n) : IsPrecommit(v) => v.round <= u.round
    BY <1>4, <2>1 DEF Highest
  <2>3. /\ PolkaOf(u) \in Reached(votes) /\ u.round \in Round /\ u.block \in Block
        /\ u = VoteOf("precommit", u.round, u.block, n)
    BY <2>2, PrecommitPolka
  <2>4. VoteOf("precommit", l.round, l.block, n) \in votes
    BY <2>1, <2>2, <2>3 DEF CastBy
  <2>5. LockStep(n)
    <3> SUFFICES ASSUME lock[n] # None
                 PROVE  \/ l.block = lock[n].block /\ l.round >= lock[n].round
                        \/ /\ l.round \in lock[n].round .. MaxRound
                           /\ l.block \in Block \ {lock[n].block}
      BY <1>3, <1>6, <2>1, <2>3 DEF LockStep, PolkaOf, Reached
    <3> DEFINE w == VoteOf("precommit", lock[n].round, lock[n].block, n)
    <3>1. w \in CastBy(n) /\ lock[n] \in Cert
      BY <1>1 DEF LockCast, CastBy, VoteOf, TypeOK
    <3>2. IsPrecommit(w) /\ w.round = lock[n].round
      BY <3>1, VotingAssumption DEF IsPrecommit, VoteOf, Cert
    <3>3. lock[n].round <= l.round
      BY <2>1, <2>2, <3>1, <3>2
    <3> QED
      BY <2>1, <2>3, <3>1, <3>3, VotingAssumption DEF Cert, Round
  <2> QED
    BY <1>1, <1>3, <2>4, <2>5, LockMoves
<1> QED
  BY <1>5, <1>6

LEMMA FinishLocks ==
  ASSUME IInv, LockCast, NEW n \in Honest, NEW g \in Goroutine, Finish(n, g)
  PROVE  LockCast' /\ \A m \in Honest : LockStep(m)
<1>1. TypeOK /\ n \in Validator /\ Honest \subseteq Validator /\ UNCHANGED votes
  BY DEF IInv, Honest, Finish
<1>2. pc[n][g] \in Step /\ pc[n][g].op = "finish"
  BY <1>1 DEF TypeOK, Finish
<1>3. decided'[n] # None
  BY <1>1, <1>2, VotingAssumption DEF Finish, TypeOK, Step, Idle, CastStep, IngestStep, FinishStep
<1>4. \A m \in Honest : m # n => lock'[m] = lock[m] /\ decided'[m] = decided[m]
  BY <1>1 DEF Finish, TypeOK
<1> QED
  BY <1>1, <1>3, <1>4 DEF LockCast, LockStep

LEMMA NextLocks ==
  ASSUME IInv, LockCast, [Next]_vars
  PROVE  LockCast' /\ \A m \in Honest : LockStep(m)
<1>1. CASE UNCHANGED vars
  BY <1>1, SameLocks DEF vars, memory
<1>2. CASE Next
  <2>1. PICK n \in Honest :
          \/ Tick(n)
          \/ \E p \in Sendable : HandleProposal(n, p)
          \/ HandleVote(n)
          \/ \E g \in Goroutine :
               Ingest(n, g) \/ CastVote(n, g) \/ CastRefused(n, g) \/ Finish(n, g)
          \/ \E m \in Honest : Sync(n, m)
          \/ Restart(n)
    BY <1>2 DEF Next
  <2>2. GoroutineOf["proposal"] \in Goroutine
    BY VotingAssumption DEF Entry
  <2>3. CASE Tick(n) \/ HandleVote(n) \/ (\E m \in Honest : Sync(n, m))
             \/ (\E g \in Goroutine : CastRefused(n, g))
    BY <2>3, SameLocks DEF Tick, HandleVote, Sync, CastRefused
  <2>4. ASSUME NEW p \in Sendable, HandleProposal(n, p)
        PROVE  LockCast' /\ \A m \in Honest : LockStep(m)
    BY <2>2, <2>4, SendableBacked, AcceptLocks DEF HandleProposal
  <2>5. ASSUME NEW g \in Goroutine, Ingest(n, g)
        PROVE  LockCast' /\ \A m \in Honest : LockStep(m)
    <3> DEFINE p == [block |-> pc[n][g].block, round |-> pc[n][g].round, polka |-> pc[n][g].polka]
    <3>1. pc[n][g] \in Step /\ Justified(n, pc[n][g], votes) /\ pc[n][g].op = "ingest"
      BY <2>5 DEF IInv, Control, StepsOf, Ingest
    <3>2. p \in Proposal /\ CertTally(p.polka) \subseteq Reached(votes)
      BY <3>1 DEF Justified, Step, Idle, CastStep, IngestStep, FinishStep, Proposal
    <3>3. Accept(n, g, p)
      BY <2>5 DEF Ingest
    <3> HIDE DEF p
    <3> QED
      BY <3>2, <3>3, AcceptLocks
  <2> QED
    BY <2>1, <2>3, <2>4, <2>5, CastLocks, FinishLocks, RestartLocks
<1> QED
  BY <1>1, <1>2

\* However the goroutines are scheduled and however often a node restarts, a lock is
\* given up or moved to another block only for a quorum no older than the lock.
THEOREM LocksMoveUp == Spec => LockMovesUp
<1>1. Init => LockCast
  BY DEF Init, LockCast, Honest
<1>2. IInv /\ LockCast /\ [Next]_vars => LockCast' /\ \A n \in Honest : LockStep(n)
  BY NextLocks
<1> QED
  BY <1>1, <1>2, InitInvariant, NextInvariant, PTL DEF Spec, LockMovesUp, LockStep

-----------------------------------------------------------------------------
(* The voting of a height implements the choice of one block. *)

LEMMA ChoiceStep ==
  ASSUME IInv, Agreement', [Next]_vars
  PROVE  [Choice!Next]_[n \in Honest |-> IF decided[n] = None THEN None ELSE decided[n].block]
<1> DEFINE chosen == [n \in Honest |-> IF decided[n] = None THEN None ELSE decided[n].block]
<1>1. ASSUME UNCHANGED decided PROVE UNCHANGED chosen
  BY <1>1
<1>2. ASSUME NEW n \in Honest, NEW g \in Goroutine, Finish(n, g) PROVE Choice!Next
  <2>1. n \in Validator /\ Honest \subseteq Validator /\ TypeOK /\ decided[n] = None
    BY <1>2 DEF Honest, IInv, Finish, Undecided
  <2>2. pc[n][g] \in Step /\ pc[n][g].op = "finish"
    BY <1>2, <2>1 DEF TypeOK, Finish
  <2> DEFINE c == pc[n][g].cert
  <2>3. c \in Cert /\ c # None /\ c.block \in Block
    BY <2>2, VotingAssumption DEF Step, Idle, CastStep, IngestStep, FinishStep, Cert
  <2>4. decided' = [decided EXCEPT ![n] = c]
    BY <1>2 DEF Finish
  <2>5. decided'[n] = c /\ \A m \in Honest : m # n => decided'[m] = decided[m]
    BY <2>1, <2>4 DEF TypeOK
  <2> HIDE DEF c
  <2>6. PICK b \in Block : b = c.block
    BY <2>3
  <2>7. \A m \in Honest : chosen[m] \in {None, b}
    BY <2>1, <2>3, <2>5, <2>6 DEF Agreement
  <2>8. chosen' = [chosen EXCEPT ![n] = b]
    BY <2>1, <2>3, <2>5, <2>6
  <2>9. chosen[n] = None
    BY <2>1
  <2>10. Choice!Adopt(n, b)
    BY <2>7, <2>8, <2>9 DEF Choice!Adopt
  <2> QED
    BY <2>10 DEF Choice!Next
<1>3. CASE UNCHANGED vars
  BY <1>1, <1>3 DEF vars
<1>4. CASE Next
  <2>1. \/ \E n \in Honest, g \in Goroutine : Finish(n, g)
        \/ UNCHANGED decided
    <3>1. \A n \in Honest : Tick(n) \/ HandleVote(n) \/ Restart(n) => UNCHANGED decided
      BY DEF Tick, HandleVote, Restart
    <3>2. \A n \in Honest : \A p : HandleProposal(n, p) => UNCHANGED decided
      BY DEF HandleProposal, Accept
    <3>3. \A n \in Honest, m \in Honest : Sync(n, m) => UNCHANGED decided
      BY DEF Sync
    <3>4. \A n \in Honest, g \in Goroutine :
            Ingest(n, g) \/ CastVote(n, g) \/ CastRefused(n, g) => UNCHANGED decided
      BY DEF Ingest, Accept, CastVote, CastRefused
    <3> QED
      BY <1>4, <3>1, <3>2, <3>3, <3>4 DEF Next
  <2> QED
    BY <1>1, <1>2, <2>1
<1> QED
  BY <1>3, <1>4

LEMMA ChoiceInit == Init => Choice!Init
  BY DEF Init, Choice!Init, Honest

\* As long as no vote is overtaken, the votes of a height do what Consensus promises:
\* each node adopts a block once, and the one the others adopted.
THEOREM ChoosesOnceUnlessOvertaken == Spec /\ NoneOvertaken => ChoosesOnce
  BY AgreementUnlessOvertaken, ChoiceInit, ChoiceStep, InitInvariant, NextInvariant, PTL
     DEF Spec, ChoosesOnce, Choice!Spec

THEOREM SerialChoosesOnce == Serial => (Spec => ChoosesOnce)
  BY SerialOvertakesNothing, ChoosesOnceUnlessOvertaken, PTL
=============================================================================
