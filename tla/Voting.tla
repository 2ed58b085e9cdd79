------------------------------- MODULE Voting -------------------------------
(***************************************************************************)
(* One height of the consensus engine (internal/consensus/engine.go): how  *)
(* the validators of the active set propose, prevote, precommit and commit *)
(* one block, each of them running several goroutines over state guarded   *)
(* by one mutex, and restarting from the votes it keeps on disk.           *)
(*                                                                         *)
(* A step of the model is what a goroutine does between taking e.mu and    *)
(* leaving its last critical section before it acts on what it decided:    *)
(* a decision and the vote, the proposal or the commit that follows from   *)
(* it are two steps, because the engine releases e.mu between the two.     *)
(* What is abstracted:                                                     *)
(*   - A block is the round it was built in and a Variant: what the        *)
(*     mempool and the clock put into it. The round has one leader, so     *)
(*     the proposer needs no field.                                        *)
(*   - The vote tallies of a node are the tallies that have reached a      *)
(*     quorum there: a vote that completes none changes nothing the engine *)
(*     reads. A published vote may reach a peer at any time, in any order, *)
(*     or never.                                                           *)
(*   - Signatures: a vote or a block carries its true author.              *)
(***************************************************************************)
EXTENDS Naturals, Sequences

CONSTANTS
  Validator,    \* the active set at this height
  Faulty,       \* the validators that may sign anything
  Quorum,       \* the sets of validators whose power reaches QuorumPower
  MaxRound,     \* bound on the rounds explored
  Leader,       \* Leader[r]: the validator that may propose in round r
  Variant,      \* what a fresh block can contain
  Refuses,      \* Refuses[n]: variants with changes n's operator did not approve
  MaxCrashes,   \* bound on restarts of honest validators
  Goroutine,    \* the goroutines of one engine
  GoroutineOf,  \* the goroutine that serves each entry point
  Nil,          \* the marker a nil vote carries instead of a block
  None          \* no lock, no certificate, no decision

Round == 0 .. MaxRound
Block == [round : Round, variant : Variant]
Honest == Validator \ Faulty
Entry == {"driver", "proposal", "vote", "sync"}

Phase == {"prevote", "precommit"}
\* The tallies a quorum of which the engine reads: all but nil precommits.
Tally == [type : {"prevote"}, round : Round, block : Block \cup {Nil}]
         \cup [type : {"precommit"}, round : Round, block : Block]
Vote == [type : Phase, round : Round, block : Block \cup {Nil}, voter : Validator]
Cert == [round : Round, block : Block]
Proposal == [block : Block, round : Round, polka : Cert \cup {None}]

ASSUME VotingAssumption ==
  /\ Faulty \subseteq Validator
  /\ Quorum \subseteq SUBSET Validator
  /\ \A P, Q \in Quorum : P \cap Q \cap Honest # {}
  /\ \A Q \in Quorum, S \in SUBSET Validator : Q \subseteq S => S \in Quorum
  /\ MaxRound \in Nat
  /\ MaxCrashes \in Nat
  /\ Leader \in [Round -> Validator]
  /\ Refuses \in [Validator -> SUBSET Variant]
  /\ GoroutineOf \in [Entry -> Goroutine]
  /\ Nil \notin Block
  /\ None \notin Cert

VARIABLES
  round,       \* the round of a node
  lock,        \* the block a node is locked on, and since which round
  valid,       \* the highest block a node has seen a prevote quorum for
  bodies,      \* the blocks of which a node holds the body
  own,         \* the votes of its own a node has in memory
  quorums,     \* the tallies that have reached a quorum at a node
  committing,  \* whether a goroutine of a node is committing a block
  pc,          \* what each goroutine does next
  queue,       \* what the driver still has to do in this tick
  disk,        \* SelfVoteStore: the votes a node keeps across restarts
  decided,     \* the block a node has in its chain, with the round of its quorum
  votes,       \* the votes published so far
  proposals,   \* the proposals published so far
  crashes      \* restarts so far (bounded by MaxCrashes)

memory == <<round, lock, valid, bodies, own, quorums, committing>>
control == <<pc, queue>>
vars == <<memory, control, disk, decided, votes, proposals, crashes>>

-----------------------------------------------------------------------------
(* Votes, tallies and quorums. *)

VoteOf(ty, r, b, n) == [type |-> ty, round |-> r, block |-> b, voter |-> n]
TallyOf(v) == [type |-> v.type, round |-> v.round, block |-> v.block]
Voters(V, q) == {n \in Validator : VoteOf(q.type, q.round, q.block, n) \in V}
HasQuorum(V, q) == Voters(V, q) \in Quorum

\* Fault for the mutation runs: asking for more than a third of the power instead of two thirds.
ReachedByThird(V) ==
  {q \in {TallyOf(v) : v \in V} \cap Tally : \A Q \in Quorum : Voters(V, q) \cap Q # {}}

\* The tallies for which V holds the votes of a quorum.
Reached(V) == {q \in {TallyOf(v) : v \in V} \cap Tally : HasQuorum(V, q)}

\* The tally a certificate proves: its votes are recorded with the proposal.
CertTally(c) ==
  IF c = None THEN {} ELSE {[type |-> "prevote", round |-> c.round, block |-> c.block]}

Polkas(S) == {q \in S : q.type = "prevote" /\ q.block # Nil}
NilPolkas(S) == {q \in S : q.type = "prevote" /\ q.block = Nil}
Highest(S) == {q \in S : \A p \in S : p.round <= q.round}

\* selfVoteAtLocked: whether the votes O hold one for this phase and round.
Voted(O, ty, r) == \E v \in O : v.type = ty /\ v.round = r

\* Fault for the mutation runs: only looking at precommits.
PrecommittedOtherwise(O, w) ==
  \E v \in O : v.type = "precommit" /\ w.type = v.type /\ v.round = w.round /\ v.block # w.block

\* castVoteMsg: whether O holds another vote in the position of w.
VotedOtherwise(O, w) ==
  \E v \in O : v.type = w.type /\ v.round = w.round /\ v.block # w.block

-----------------------------------------------------------------------------
(* Control: a goroutine is idle, or about to act on a decision it took. *)

Idle == [op |-> "idle"]
CastStep == [op : {"prevote", "precommit", "flush"}, vote : Vote]
IngestStep == [op : {"ingest"}, block : Block, round : Round, polka : Cert \cup {None}]
FinishStep == [op : {"finish"}, cert : Cert]
Step == {Idle} \cup CastStep \cup IngestStep \cup FinishStep

Cast(op, v) == [op |-> op, vote |-> v]

\* Goroutine g of node n goes on with the given steps.
Run(n, g, steps) ==
  /\ pc' = [pc EXCEPT ![n][g] = IF steps = <<>> THEN Idle ELSE Head(steps)]
  /\ queue' = [queue EXCEPT ![n][g] = IF steps = <<>> THEN <<>> ELSE Tail(steps)]

\* Goroutine g of node n does one more step before what it has queued.
Continue(n, g, step) == pc' = [pc EXCEPT ![n][g] = step] /\ UNCHANGED queue

Resume(n, g) == Run(n, g, queue[n][g])

Undecided(n) == n \in Honest /\ decided[n] = None
Free(n, g) == Undecided(n) /\ pc[n][g] = Idle

-----------------------------------------------------------------------------
(* What follows every recorded vote: processPrevoteQuorum, maybeCommit. *)

\* Fault for the mutation runs: precommitting in this round on a polka of any round.
DecisionsOnAnyPolka(n, r, S, O, B) ==
  IF Voted(O, "precommit", r) THEN {}
  ELSE {VoteOf("precommit", r, q.block, n) :
          q \in {p \in Highest(Polkas(S)) : p.block \in B}}

\* The precommit processPrevoteQuorum decides on, if any: for the block of the
\* highest polka if that is this round's, else nil on this round's nil quorum.
Decisions(n, r, S, O, B) ==
  IF Voted(O, "precommit", r) THEN {}
  ELSE IF \E q \in Highest(Polkas(S)) : q.round = r
       THEN {VoteOf("precommit", r, q.block, n) :
               q \in {p \in Highest(Polkas(S)) : p.block \in B}}
       ELSE {VoteOf("precommit", r, Nil, n) :
               q \in {p \in Highest(NilPolkas(S)) : p.round = r}}

\* The committable blocks: a precommit quorum in one round, and the body held.
Winners(S, B) == Highest({q \in S : q.type = "precommit" /\ q.block \in B})

MaybeCommit(n, g, S, B) ==
  \/ /\ ~committing[n]
     /\ \E q \in Winners(S, B) :
          Continue(n, g, [op |-> "finish", cert |-> [round |-> q.round, block |-> q.block]])
     /\ committing' = [committing EXCEPT ![n] = TRUE]
  \/ /\ committing[n] \/ Winners(S, B) = {}
     /\ Resume(n, g)
     /\ UNCHANGED committing

UpdateValid(n, S) ==
  LET better == {q \in Highest(Polkas(S)) : valid[n] = None \/ q.round >= valid[n].round}
  IN IF better = {} THEN UNCHANGED valid
     ELSE \E q \in better :
            valid' = [valid EXCEPT ![n] = [round |-> q.round, block |-> q.block]]

OnVotes(n, g, S, O) ==
  /\ UpdateValid(n, S)
  /\ LET D == Decisions(n, round[n], S, O, bodies[n]) IN
     \/ /\ \E v \in D : Continue(n, g, Cast("precommit", v))
        /\ UNCHANGED committing
     \/ /\ D = {}
        /\ MaybeCommit(n, g, S, bodies[n])

-----------------------------------------------------------------------------
(* The entry points. *)

\* The proposals buildProposalLocked may return to the leader of round r: the
\* valid block with its certificate; nothing while locked on a block whose body
\* is missing; otherwise a fresh block, if there is anything to put in one.
Build(n, r) ==
  IF Leader[r] # n THEN {<<>>}
  ELSE IF valid[n] # None /\ valid[n].block \in bodies[n]
       THEN {<<[op |-> "ingest", block |-> valid[n].block, round |-> r,
                polka |-> IF CertTally(valid[n]) \subseteq quorums[n]
                          THEN valid[n] ELSE None]>>}
  ELSE IF valid[n] # None /\ lock[n] # None THEN {<<>>}
  ELSE {<<>>} \cup
       {<<[op |-> "ingest", block |-> [round |-> r, variant |-> k], round |-> r,
           polka |-> None]>> : k \in Variant}

\* The nil votes that put the expired round on the record.
NilVote(n, ty, r) ==
  IF Voted(own[n], ty, r) THEN <<>> ELSE <<Cast("flush", VoteOf(ty, r, Nil, n))>>
NilVotes(n, r) == NilVote(n, "prevote", r) \o NilVote(n, "precommit", r)

Tick(n) ==
  LET g == GoroutineOf["driver"] IN
  /\ Free(n, g)
  /\ \E expired \in BOOLEAN :
       LET r == IF expired THEN round[n] + 1 ELSE round[n]
           flush == IF expired THEN NilVotes(n, round[n]) ELSE <<>>
       IN /\ r <= MaxRound
          /\ round' = [round EXCEPT ![n] = r]
          /\ \E ingest \in Build(n, r) :
               /\ expired \/ ingest # <<>>
               /\ Run(n, g, flush \o ingest)
  /\ UNCHANGED <<lock, valid, bodies, own, quorums, committing, disk, decided,
                 votes, proposals, crashes>>

\* Fault for the mutation runs: releasing the lock on a certificate older than it.
UnlocksOnAnyPolka(n, p) ==
  /\ lock[n] # None /\ lock[n].block # p.block
  /\ p.polka # None /\ p.polka.block = p.block

\* mayPrevoteLocked: a proposal that conflicts with the lock releases it only
\* with a certificate for its block, no older than the lock.
Unlocks(n, p) ==
  /\ lock[n] # None /\ lock[n].block # p.block
  /\ p.polka # None /\ p.polka.block = p.block
  /\ p.polka.round >= lock[n].round

\* acceptProposal: file the certificate and the body, move to the proposal's
\* round, and decide whether to support it. The prevote is cast later.
Accept(n, g, p) ==
  LET support == /\ lock[n] = None \/ lock[n].block = p.block \/ Unlocks(n, p)
                 /\ p.block.variant \notin Refuses[n]
  IN /\ quorums' = [quorums EXCEPT ![n] = @ \cup CertTally(p.polka)]
     /\ bodies' = [bodies EXCEPT ![n] = @ \cup {p.block}]
     /\ round' = [round EXCEPT ![n] = IF p.round > @ THEN p.round ELSE @]
     /\ lock' = IF Unlocks(n, p) THEN [lock EXCEPT ![n] = None] ELSE lock
     /\ Continue(n, g, Cast("prevote",
          VoteOf("prevote", p.round, IF support THEN p.block ELSE Nil, n)))
     /\ UNCHANGED <<valid, own, committing, disk, decided, votes, crashes>>

\* The proposals a node may receive: what honest leaders published, and what a
\* faulty leader makes up from a block of its own or one it was sent, with any
\* certificate the published votes support. verifyProposalEnvelope refuses the rest.
Sendable ==
  proposals \cup
  {p \in Proposal :
     /\ Leader[p.round] \in Faulty
     /\ p.block.round <= p.round
     /\ Leader[p.block.round] \in Faulty \/ \E o \in proposals : o.block = p.block
     /\ \A q \in CertTally(p.polka) : HasQuorum(votes, q)}

HandleProposal(n, p) ==
  /\ Free(n, GoroutineOf["proposal"])
  /\ Accept(n, GoroutineOf["proposal"], p)
  /\ UNCHANGED proposals

\* ingestProposal: the leader accepts its own proposal and publishes it.
Ingest(n, g) ==
  /\ Undecided(n)
  /\ pc[n][g].op = "ingest"
  /\ LET p == [block |-> pc[n][g].block, round |-> pc[n][g].round, polka |-> pc[n][g].polka]
     IN Accept(n, g, p) /\ proposals' = proposals \cup {p}

\* handleVote: a vote arrives that completes a quorum, or completes none.
HandleVote(n) ==
  LET g == GoroutineOf["vote"] IN
  /\ Free(n, g)
  /\ \E S \in {quorums[n]} \cup {quorums[n] \cup {q} : q \in Reached(votes)} :
       /\ quorums' = [quorums EXCEPT ![n] = S]
       /\ OnVotes(n, g, S, own[n])
  /\ UNCHANGED <<round, lock, bodies, own, disk, decided, votes, proposals, crashes>>

\* castVoteMsg refuses a vote for a block without a body, and a second vote in
\* a position that holds another one. The caller then goes on: a precommit
\* decided by processPrevoteQuorum is followed by maybeCommit.
CastRefused(n, g) ==
  LET v == pc[n][g].vote IN
  /\ Undecided(n)
  /\ pc[n][g] \in CastStep
  /\ \/ v.block # Nil /\ v.block \notin bodies[n]
     \/ VotedOtherwise(own[n], v)
  /\ IF pc[n][g].op = "precommit"
     THEN MaybeCommit(n, g, quorums[n], bodies[n])
     ELSE Resume(n, g) /\ UNCHANGED committing
  /\ UNCHANGED <<round, lock, valid, bodies, own, quorums, disk, decided, votes,
                 proposals, crashes>>

\* castVoteMsg: a precommit for a block takes the lock unless it is older.
TakesLock(n, v) ==
  /\ v.type = "precommit" /\ v.block # Nil
  /\ lock[n] = None \/ v.round >= lock[n].round

\* castVoteMsg: take the lock with a precommit, persist, record and publish the
\* vote, which may complete a quorum here if the others' votes have arrived.
CastVote(n, g) ==
  LET v == pc[n][g].vote
      O == own[n] \cup {v}
      V == votes \cup {v}
  IN
  /\ Undecided(n)
  /\ pc[n][g] \in CastStep
  /\ v.block = Nil \/ v.block \in bodies[n]
  /\ ~VotedOtherwise(own[n], v)
  /\ lock' = IF TakesLock(n, v)
             THEN [lock EXCEPT ![n] = [round |-> v.round, block |-> v.block]]
             ELSE lock
  /\ disk' = [disk EXCEPT ![n] = @ \cup {v}]
  /\ own' = [own EXCEPT ![n] = O]
  /\ votes' = V
  /\ \E S \in {quorums[n], quorums[n] \cup ({TallyOf(v)} \cap Reached(V))} :
       /\ quorums' = [quorums EXCEPT ![n] = S]
       /\ OnVotes(n, g, S, O)
  /\ UNCHANGED <<round, bodies, decided, proposals, crashes>>

\* commitAndApply and advanceHeight: the block and its quorum are durable, the
\* node leaves the height and forgets what it kept for it.
Finish(n, g) ==
  /\ Undecided(n)
  /\ pc[n][g].op = "finish"
  /\ decided' = [decided EXCEPT ![n] = pc[n][g].cert]
  /\ round' = [round EXCEPT ![n] = 0]
  /\ lock' = [lock EXCEPT ![n] = None]
  /\ valid' = [valid EXCEPT ![n] = None]
  /\ bodies' = [bodies EXCEPT ![n] = {}]
  /\ own' = [own EXCEPT ![n] = {}]
  /\ quorums' = [quorums EXCEPT ![n] = {}]
  /\ committing' = [committing EXCEPT ![n] = FALSE]
  /\ disk' = [disk EXCEPT ![n] = {}]
  /\ pc' = [pc EXCEPT ![n] = [h \in Goroutine |-> Idle]]
  /\ queue' = [queue EXCEPT ![n] = [h \in Goroutine |-> <<>>]]
  /\ UNCHANGED <<votes, proposals, crashes>>

\* applySyncedBlock: a peer that has committed serves the block and the
\* precommits that committed it.
Sync(n, m) ==
  LET g == GoroutineOf["sync"]
      q == [type |-> "precommit", round |-> decided[m].round, block |-> decided[m].block]
      S == quorums[n] \cup {q}
      B == bodies[n] \cup {q.block}
  IN
  /\ Free(n, g)
  /\ m \in Honest /\ decided[m] # None
  /\ quorums' = [quorums EXCEPT ![n] = S]
  /\ bodies' = [bodies EXCEPT ![n] = B]
  /\ MaybeCommit(n, g, S, B)
  /\ UNCHANGED <<round, lock, valid, own, disk, decided, votes, proposals, crashes>>

-----------------------------------------------------------------------------
(* Failures. *)

\* resumeSelfVotesLocked: the lock follows from the highest precommit for a
\* block on disk, and the height resumes past every round the node voted in.
Precommits(V) == {v \in V : v.type = "precommit" /\ v.block # Nil}

\* Fault for the mutation runs: restarting with no lock.
ResumeUnlocked(V) == {None}

ResumeLock(V) ==
  IF Precommits(V) = {} THEN {None}
  ELSE {[round |-> v.round, block |-> v.block] : v \in Highest(Precommits(V))}

ResumeRound(V) == IF V = {} THEN {0} ELSE {v.round + 1 : v \in Highest(V)}

Restart(n) ==
  /\ Undecided(n)
  /\ crashes < MaxCrashes
  /\ crashes' = crashes + 1
  /\ \E r \in ResumeRound(disk[n]) \cap Round : round' = [round EXCEPT ![n] = r]
  /\ \E l \in ResumeLock(disk[n]) : lock' = [lock EXCEPT ![n] = l]
  /\ valid' = [valid EXCEPT ![n] = None]
  /\ bodies' = [bodies EXCEPT ![n] = {}]
  /\ own' = [own EXCEPT ![n] = disk[n]]
  /\ quorums' = [quorums EXCEPT ![n] = {}]
  /\ committing' = [committing EXCEPT ![n] = FALSE]
  /\ pc' = [pc EXCEPT ![n] = [h \in Goroutine |-> Idle]]
  /\ queue' = [queue EXCEPT ![n] = [h \in Goroutine |-> <<>>]]
  /\ UNCHANGED <<disk, decided, votes, proposals>>

-----------------------------------------------------------------------------
Init ==
  /\ round = [n \in Validator |-> 0]
  /\ lock = [n \in Validator |-> None]
  /\ valid = [n \in Validator |-> None]
  /\ bodies = [n \in Validator |-> {}]
  /\ own = [n \in Validator |-> {}]
  /\ quorums = [n \in Validator |-> {}]
  /\ committing = [n \in Validator |-> FALSE]
  /\ pc = [n \in Validator |-> [g \in Goroutine |-> Idle]]
  /\ queue = [n \in Validator |-> [g \in Goroutine |-> <<>>]]
  /\ disk = [n \in Validator |-> {}]
  /\ decided = [n \in Validator |-> None]
  /\ votes = {v \in Vote : v.voter \in Faulty}
  /\ proposals = {}
  /\ crashes = 0

Next ==
  \E n \in Honest :
    \/ Tick(n)
    \/ \E p \in Sendable : HandleProposal(n, p)
    \/ HandleVote(n)
    \/ \E g \in Goroutine :
         Ingest(n, g) \/ CastVote(n, g) \/ CastRefused(n, g) \/ Finish(n, g)
    \/ \E m \in Honest : Sync(n, m)
    \/ Restart(n)

Spec == Init /\ [][Next]_vars

-----------------------------------------------------------------------------
\* The variables have their types.
TypeOK ==
  /\ round \in [Validator -> Round]
  /\ lock \in [Validator -> Cert \cup {None}]
  /\ valid \in [Validator -> Cert \cup {None}]
  /\ bodies \in [Validator -> SUBSET Block]
  /\ own \in [Validator -> SUBSET Vote]
  /\ quorums \in [Validator -> SUBSET Tally]
  /\ committing \in [Validator -> BOOLEAN]
  /\ pc \in [Validator -> [Goroutine -> Step]]
  /\ queue \in [Validator -> [Goroutine -> Seq(CastStep \cup IngestStep)]]
  /\ disk \in [Validator -> SUBSET Vote]
  /\ decided \in [Validator -> Cert \cup {None}]
  /\ votes \in SUBSET Vote
  /\ proposals \in SUBSET Proposal
  /\ crashes \in 0 .. MaxCrashes

-----------------------------------------------------------------------------
(* Properties that hold however the goroutines of a node interleave. *)

CastBy(n) == {v \in votes : v.voter = n}

\* An honest validator never signs two votes for one phase of one round, not
\* even across a restart: the pair would be evidence that slashes its bond
\* (castVoteMsg, SelfVoteStore).
OncePerPosition ==
  \A n \in Honest : \A v, w \in CastBy(n) :
    v.type = w.type /\ v.round = w.round => v = w

\* An honest validator precommits a block only in a round in which a quorum
\* prevoted it (processPrevoteQuorum).
PolkaBacked ==
  \A v \in votes :
    v.voter \in Honest /\ v.type = "precommit" /\ v.block # Nil
      => HasQuorum(votes, [type |-> "prevote", round |-> v.round, block |-> v.block])

\* What a node commits has a quorum of precommits in one single round, so that
\* the certificate it stores convinces any peer it serves (maybeCommit).
CommitCertified ==
  \A n \in Honest :
    decided[n] # None =>
      HasQuorum(votes, [type |-> "precommit", round |-> decided[n].round,
                        block |-> decided[n].block])

\* A lock moves only to a block with a prevote quorum no older than the lock,
\* and a restart takes a node back to no older lock than it had
\* (acceptProposal, castVoteMsg, resumeSelfVotesLocked).
LockMovesUp ==
  [][\A n \in Honest :
       lock[n] # None /\ lock'[n] # lock[n] /\ decided'[n] = None
         => \/ /\ lock'[n] # None /\ lock'[n].block = lock[n].block
               /\ lock'[n].round >= lock[n].round
            \/ \E r \in lock[n].round .. MaxRound, b \in Block \ {lock[n].block} :
                 /\ HasQuorum(votes, [type |-> "prevote", round |-> r, block |-> b])
                 /\ lock'[n] \in {None, [round |-> r, block |-> b]}]_vars

-----------------------------------------------------------------------------
(* What the handlers of a node must not do to each other. *)

\* A vote that was decided on is still one to cast: a prevote agrees with the lock,
\* and no other block was prevoted in a round after that of a precommit.
Timely(n, v) ==
  v.block # Nil =>
    /\ v.type = "prevote" => lock[n] = None \/ lock[n].block = v.block
    /\ v.type = "precommit" =>
         \A w \in own[n] : w.type = "prevote" /\ w.block \notin {Nil, v.block} => w.round <= v.round

NoneOvertaken ==
  [][\A n \in Honest, g \in Goroutine : CastVote(n, g) => Timely(n, pc[n][g].vote)]_vars

\* One goroutine does everything: nothing happens between a decision and its vote.
Serial == \A g, h \in Goroutine : g = h

-----------------------------------------------------------------------------
(* Properties that need the handlers of a node not to interleave. *)

\* No two honest validators commit different blocks at one height.
Agreement ==
  \A n, m \in Honest :
    decided[n] # None /\ decided[m] # None => decided[n].block = decided[m].block

\* A validator that precommitted a block prevotes another one in a later round
\* only if a quorum has prevoted another one in the round of the precommit or later
\* (castPrecommit, mayPrevoteLocked).
LockHonoured ==
  \A n \in Honest :
    LET mine == {v \in CastBy(n) : v.block # Nil} IN
    \A v \in {u \in mine : u.type = "precommit"} :
      \A w \in {u \in mine : u.type = "prevote" /\ u.round > v.round /\ u.block # v.block} :
        \E r \in v.round .. MaxRound, b \in Block \ {v.block} :
          HasQuorum(votes, [type |-> "prevote", round |-> r, block |-> b])

\* The voting of a height implements the choice of a single block.
Choice == INSTANCE Consensus WITH
  Node <- Honest, Value <- Block,
  choice <- [n \in Honest |-> IF decided[n] = None THEN None ELSE decided[n].block]
ChoosesOnce == Choice!Spec

=============================================================================
