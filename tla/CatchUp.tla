------------------------------ MODULE CatchUp ------------------------------
(***************************************************************************)
(* How a node that fell behind obtains the committed blocks                *)
(* (internal/consensus/engine.go): votes and bodies buffered for later     *)
(* heights, heads that validators announce, requests and answers, each     *)
(* throttled by a timer, over a network that may lose or delay anything.   *)
(*                                                                         *)
(* There is one block per height, as module Voting shows agreement: what   *)
(* is left of a height here is which precommits and which body a node has. *)
(* The driver's loop is Announce and Ask; the rounds of a height, and the  *)
(* vote a node prevotes with, are left to module Voting.                   *)
(***************************************************************************)
EXTENDS Integers, FiniteSets

CONSTANTS
  Peer,
  Voter,        \* the nodes that vote and announce their heads
  CommitQuorum,           \* sets of validators whose precommits commit a block
  Tip,        \* bound on the chain
  Window,           \* heights ahead that are buffered (maxFutureStash)
  Batch,            \* blocks in an answer (MaxSyncBatch)
  AskEvery,         \* units of time between two requests (the round timeout)
  ServeEvery,       \* ... between two answers (half of it)
  AnnounceEvery,    \* ... between two announcements
  MaxFaults         \* bound on restarts and failed commits

Height == 0 .. Tip
Block == 0 .. Tip - 1

SyncRequest == [by : Peer, height : Height, to : Peer]
SyncAnswer == [by : Peer, blocks : SUBSET Block, to : Peer]

ASSUME CatchUpAssumption ==
  /\ IsFiniteSet(Peer) /\ Voter \subseteq Peer
  /\ CommitQuorum \subseteq SUBSET Voter
  /\ {Tip, Window, Batch, AskEvery, ServeEvery, AnnounceEvery, MaxFaults} \subseteq Nat

VARIABLES
  height,     \* the height a node works on, which is the length of its chain
  votes,      \* precommits it has: of its blocks, of its height and of later ones
  bodies,     \* blocks it has: of its chain, proposed at its height, stashed for later
  heard,      \* the greatest height announced to it
  asks,       \* requests on their way
  answers,    \* answers on their way
  askWait,    \* how long until a node may ask again
  serveWait,  \* ... may answer again
  headWait,   \* ... announces its head again
  cast,       \* the precommits published for a block
  faults      \* faults so far

node == <<height, votes, bodies>>
net == <<asks, answers>>
timers == <<askWait, serveWait, headWait>>
catchUpVars == <<node, heard, net, timers, cast, faults>>

CatchUpTypeOK ==
  /\ height \in [Peer -> Height]
  /\ votes \in [Peer -> [Block -> SUBSET Voter]]
  /\ bodies \in [Peer -> SUBSET Block]
  /\ heard \in [Peer -> Height]
  /\ asks \subseteq SyncRequest
  /\ answers \subseteq SyncAnswer
  /\ askWait \in [Peer -> 0 .. AskEvery]
  /\ serveWait \in [Peer -> 0 .. ServeEvery]
  /\ headWait \in [Voter -> 0 .. AnnounceEvery]
  /\ cast \in [Block -> SUBSET Voter]
  /\ faults \in 0 .. MaxFaults

CatchUpInit ==
  /\ height = [n \in Peer |-> 0]
  /\ votes = [n \in Peer |-> [b \in Block |-> {}]]
  /\ bodies = [n \in Peer |-> {}]
  /\ heard = [n \in Peer |-> 0]
  /\ asks = {} /\ answers = {}
  /\ askWait = [n \in Peer |-> 0]
  /\ serveWait = [n \in Peer |-> 0]
  /\ headWait = [v \in Voter |-> 0]
  /\ cast = [b \in Block |-> {}]
  /\ faults = 0

-----------------------------------------------------------------------------

\* The votes and the bodies of a height in the window of a node at height h.
InWindow(h) == Block \cap h .. h + Window

\* Votes for a height that is behind or too far ahead are dropped.
Tallied(n, new) ==
  [b \in Block |-> IF b \in InWindow(height[n]) THEN votes[n][b] \cup new[b] ELSE votes[n][b]]

HasQuorum(V, b) == \E Q \in CommitQuorum : Q \subseteq V[b]

\* maybeCommit, draining the stash and voting at the next height until some
\* height is not ready: the height that is reached with these votes and bodies.
Reached(h, V, B) ==
  CHOOSE k \in Height :
    /\ k >= h /\ \A b \in Block : h <= b /\ b < k => b \in B /\ HasQuorum(V, b)
    /\ k \in Block => ~(k \in B /\ HasQuorum(V, k))

\* A quorum of precommits for the block of height h, and no body.
QuorumWithoutBody(h, V, B) == h \in Block \ B /\ HasQuorum(V, h)

AskOf(n, h) == {[by |-> n, height |-> h, to |-> m] : m \in Peer \ {n}}

\* Votes and bodies are filed, heights commit, and if the last one lacks its
\* body the node asks for it.
Settle(n, V, B) ==
  LET h == Reached(height[n], V, B)
      asking == QuorumWithoutBody(h, V, B) /\ askWait[n] = 0
  IN /\ votes' = [votes EXCEPT ![n] = V]
     /\ bodies' = [bodies EXCEPT ![n] = B]
     /\ height' = [height EXCEPT ![n] = h]
     /\ asks' = IF asking THEN asks \cup AskOf(n, h) ELSE asks
     /\ askWait' = IF asking THEN [askWait EXCEPT ![n] = AskEvery] ELSE askWait

\* The same without looking for a quorum.
Buffer(n, V, B) ==
  /\ votes' = [votes EXCEPT ![n] = V]
  /\ bodies' = [bodies EXCEPT ![n] = B]
  /\ UNCHANGED <<height, asks, askWait>>

\* Fault for the mutation runs: only votes and bodies tell, which an idle
\* network does not send.
BehindOnVotes(n, top) ==
  \/ \E b \in Block : b > height[n] /\ (b \in bodies[n] \/ votes[n][b] # {})
  \/ QuorumWithoutBody(height[n], votes[n], bodies[n])

\* With top the highest head announced to the node.
Behind(n, top) ==
  \/ top > height[n]
  \/ \E b \in Block : b > height[n] /\ (b \in bodies[n] \/ votes[n][b] # {})
  \/ QuorumWithoutBody(height[n], votes[n], bodies[n])

-----------------------------------------------------------------------------
(* The ordinary flow, lossy: any message of it may reach a node or not.    *)

\* A validator that has the body of its height's block, which for a leader
\* is its own, precommits it. What leads to the precommit is in Voting.
Precommit(v) ==
  /\ height[v] \in Block
  /\ LET b == height[v] IN
     /\ v \notin votes[v][b]
     /\ cast' = [cast EXCEPT ![b] = @ \cup {v}]
     /\ Settle(v, [votes[v] EXCEPT ![b] = @ \cup {v}], bodies[v] \cup {b})
  /\ UNCHANGED <<heard, answers, serveWait, headWait, faults>>

HearVote(n, v) ==
  /\ \E b \in InWindow(height[n]) :
       /\ v \in cast[b] \ votes[n][b]
       /\ Settle(n, [votes[n] EXCEPT ![b] = @ \cup {v}], bodies[n])
  /\ UNCHANGED <<heard, answers, serveWait, headWait, cast, faults>>

\* A proposal for the height of the node is cached. Only a prevote cast for
\* it goes on to look for a quorum, so a node that does not vote, or voted in
\* this round, holds the body and the quorum without committing.
HearProposal(n) ==
  /\ \E b \in InWindow(height[n]) \ bodies[n] :
       /\ cast[b] # {}
       /\ \/ n \in Voter /\ Settle(n, votes[n], bodies[n] \cup {b})
          \/ Buffer(n, votes[n], bodies[n] \cup {b})
  /\ UNCHANGED <<heard, answers, serveWait, headWait, cast, faults>>

-----------------------------------------------------------------------------
(* Sync.                                                                   *)

\* maybeRequestSync: from the driver, a head that is ahead, or a quorum whose
\* body is missing.
Ask(n) ==
  /\ Behind(n, heard[n]) /\ askWait[n] = 0
  /\ askWait' = [askWait EXCEPT ![n] = AskEvery]
  /\ asks' = asks \cup AskOf(n, height[n])
  /\ UNCHANGED <<node, heard, answers, serveWait, headWait, cast, faults>>

HeardFrom(v, R) ==
  [n \in Peer |-> IF n \in R /\ height[v] > heard[n] THEN height[v] ELSE heard[n]]

\* The announcement reaches the nodes R at once: all a delay does to it is to
\* make it an older one. A node that learns it is behind asks in turn.
Announce(v, R) ==
  /\ headWait[v] = 0
  /\ headWait' = [headWait EXCEPT ![v] = AnnounceEvery]
  /\ heard' = HeardFrom(v, R)
  /\ LET asking == {n \in R : height[v] > height[n] /\ Behind(n, heard'[n]) /\ askWait[n] = 0} IN
     /\ askWait' = [n \in Peer |-> IF n \in asking THEN AskEvery ELSE askWait[n]]
     /\ asks' = asks \cup UNION {AskOf(n, height[n]) : n \in asking}
  /\ UNCHANGED <<node, answers, serveWait, cast, faults>>

Served(m, h) == {b \in Block : h <= b /\ b < height[m] /\ b < h + Batch}

\* A node answers one request per interval, whoever asks, and the ones it has
\* nothing for count as well.
Serve(r) ==
  /\ r \in asks /\ serveWait[r.to] = 0
  /\ asks' = asks \ {r}
  /\ serveWait' = [serveWait EXCEPT ![r.to] = ServeEvery]
  /\ LET blocks == Served(r.to, r.height) IN
     answers' = IF blocks = {} THEN answers
                ELSE answers \cup {[by |-> r.to, blocks |-> blocks, to |-> n] : n \in Peer \ {r.to}}
  /\ UNCHANGED <<node, heard, askWait, headWait, cast, faults>>

ServeRefused(r) ==
  /\ r \in asks /\ serveWait[r.to] > 0
  /\ asks' = asks \ {r}
  /\ UNCHANGED <<node, heard, answers, timers, cast, faults>>

\* The precommits of each block of the answer and its body, in ascending
\* order. An answer without the block of this height is only buffered.
ApplySync(a) ==
  /\ a \in answers
  /\ LET h == height[a.to]
         V == Tallied(a.to, [b \in Block |-> IF b \in a.blocks THEN votes[a.by][b] ELSE {}])
         B == bodies[a.to] \cup (a.blocks \cap InWindow(h))
     IN IF h \in a.blocks THEN Settle(a.to, V, B) ELSE Buffer(a.to, V, B)
  /\ answers' = answers \ {a}
  /\ UNCHANGED <<heard, serveWait, headWait, cast, faults>>

Lose ==
  /\ \/ \E r \in asks : asks' = asks \ {r} /\ UNCHANGED answers
     \/ \E a \in answers : answers' = answers \ {a} /\ UNCHANGED asks
  /\ UNCHANGED <<node, heard, timers, cast, faults>>

-----------------------------------------------------------------------------

Less(i) == IF i = 0 THEN 0 ELSE i - 1

Elapse ==
  /\ \E n \in Peer : askWait[n] + serveWait[n] > 0 \/ (n \in Voter /\ headWait[n] > 0)
  /\ askWait' = [n \in Peer |-> Less(askWait[n])]
  /\ serveWait' = [n \in Peer |-> Less(serveWait[n])]
  /\ headWait' = [v \in Voter |-> Less(headWait[v])]
  /\ UNCHANGED <<node, heard, net, cast, faults>>

OwnBlocks(n) == {b \in Block : b < height[n]}

\* The chain, with the precommits of each block, and what the node precommitted
\* itself are on disk; the rest is in memory.
RestartPeer(n) ==
  /\ faults < MaxFaults /\ faults' = faults + 1
  /\ votes' = [votes EXCEPT ![n] =
       [b \in Block |-> IF b \in OwnBlocks(n) THEN @[b] ELSE @[b] \cap {n}]]
  /\ bodies' = [bodies EXCEPT ![n] = OwnBlocks(n)]
  /\ heard' = [heard EXCEPT ![n] = 0]
  /\ askWait' = [askWait EXCEPT ![n] = 0]
  /\ serveWait' = [serveWait EXCEPT ![n] = 0]
  /\ headWait' = [v \in Voter |-> IF v = n THEN 0 ELSE headWait[v]]
  /\ UNCHANGED <<height, net, cast>>

\* A block that completes a quorum fails to be written. The node is reconciled
\* to its chain, where it was, and drops what it had at this height.
CommitFails(n, b) ==
  /\ faults < MaxFaults /\ faults' = faults + 1
  /\ b = height[n] /\ b \in bodies[n]
  /\ \E v \in cast[b] \ votes[n][b], Q \in CommitQuorum : Q \subseteq votes[n][b] \cup {v}
  /\ votes' = [votes EXCEPT ![n][b] = {}]
  /\ bodies' = [bodies EXCEPT ![n] = @ \ {b}]
  /\ UNCHANGED <<height, heard, net, timers, cast>>

-----------------------------------------------------------------------------

CatchUpNext ==
  \/ \E v \in Voter : Precommit(v)
  \/ \E n \in Peer, v \in Voter : HearVote(n, v)
  \/ \E n \in Peer : HearProposal(n)
  \/ \E n \in Peer : Ask(n)
  \/ \E v \in Voter, R \in SUBSET Peer : Announce(v, R \ {v})
  \/ \E r \in asks : Serve(r)
  \/ \E r \in asks : ServeRefused(r)
  \/ \E a \in answers : ApplySync(a)
  \/ Lose
  \/ Elapse
  \/ \E n \in Peer : RestartPeer(n)
  \/ \E n \in Peer, b \in Block : CommitFails(n, b)

\* The driver runs on, time passes, and of infinitely many messages from one
\* node to another one arrives.
CatchUpFairness ==
  /\ WF_catchUpVars(Elapse)
  /\ \A n \in Peer : WF_catchUpVars(Ask(n))
  /\ \A v \in Voter : \A n \in Peer \ {v} :
       SF_catchUpVars(\E R \in SUBSET Peer : n \in R /\ Announce(v, R \ {v}))
  /\ \A n \in Peer : \A m \in Peer \ {n} :
       /\ SF_catchUpVars(\E r \in asks : r.by = n /\ r.to = m /\ (Serve(r) \/ ServeRefused(r)))
       /\ SF_catchUpVars(\E a \in answers : a.by = m /\ a.to = n /\ ApplySync(a))

CatchUpSpec == CatchUpInit /\ [][CatchUpNext]_catchUpVars /\ CatchUpFairness

-----------------------------------------------------------------------------

\* A block some validator committed is committed by every node in the end,
\* whatever messages and restarts lost on the way, and kept with the precommits
\* that let the node convince the next one.
CatchesUp ==
  \A n \in Peer, b \in Block :
    (\E v \in Voter : height[v] > b) ~>
      (b < height[n] /\ b \in bodies[n] /\ \E Q \in CommitQuorum : Q \subseteq votes[n][b])
=============================================================================
