------------------------------- MODULE Watchdog -------------------------------
(***************************************************************************)
(* A node that watches itself: the sampling of the ledger's lock           *)
(* (internal/node/ledger_watch.go, internal/market/ledger.go), which tells *)
(* a supervisor that nothing gets in any more, and the loop that keeps     *)
(* bootstrap peers connected (node.go), which tells an operator. What is   *)
(* logged about a stall is left out.                                       *)
(***************************************************************************)
EXTENDS Integers, Sequences

CONSTANTS
  Threshold,     \* defaultLedgerStallThreshold
  Interval,      \* defaultLedgerStallInterval
  MaxWaiting,    \* bound: writers that queue at a time
  Neighbour,     \* bootstrap peers
  Malformed,     \* those whose address is not one
  MaxFlips       \* bound: changes of a link by other causes than a dial

ASSUME WatchdogAssumption ==
  /\ {Threshold, Interval, MaxWaiting} \subseteq Nat \ {0} /\ MaxFlips \in Nat
  /\ Interval <= Threshold /\ Malformed \subseteq Neighbour

VARIABLES
  mutex,         \* "free", "taken" before it is noted, "held", "leaving"
  readers,       \* whether one reads
  waiting,       \* writeWaiters
  acquired,      \* whether writeAcquires moved since the watch read it
  heldFor,       \* how long the writer has been noted
  denied,        \* how long writers have queued and none got in
  sinceSample, pc, seen, \* the ticker, and the watch between two of its steps
  quiet,         \* since progressAt
  reported,      \* reported
  health,        \* what is answered to a supervisor
  down           \* whether Stop has begun

lockVars == <<mutex, readers, waiting, heldFor, denied>>
watchVars == <<lockVars, acquired, sinceSample, pc, seen, quiet, reported, health, down>>

VARIABLES
  link,          \* per peer: whether connected
  flips,         \* changes so far
  peerState,     \* connected, warned
  lines          \* what was printed

dialVars == <<link, flips, peerState, lines>>
watchdogVars == <<watchVars, dialVars>>

-----------------------------------------------------------------------------
(* The lock. *)

\* lockWrite until the mutex is ours.
QueueWriter ==
  /\ waiting < MaxWaiting
  /\ waiting' = waiting + 1
  /\ UNCHANGED <<mutex, readers, heldFor, denied, acquired, sinceSample, pc, seen, quiet, reported, health, down>>

TakeMutex ==
  /\ mutex = "free" /\ ~readers /\ waiting > 0
  /\ mutex' = "taken"
  /\ UNCHANGED <<readers, waiting, heldFor, denied, acquired, sinceSample, pc, seen, quiet, reported, health, down>>

\* The waiter is one less, the acquisition counted, the holder stamped.
NoteHolder ==
  /\ mutex = "taken"
  /\ mutex' = "held" /\ waiting' = waiting - 1
  /\ acquired' = TRUE
  /\ heldFor' = 0 /\ denied' = 0
  /\ UNCHANGED <<readers, sinceSample, pc, seen, quiet, reported, health, down>>

\* unlockWrite: the stamp is cleared before the mutex is given up.
ClearHolder ==
  /\ mutex = "held"
  /\ mutex' = "leaving" /\ heldFor' = 0
  /\ UNCHANGED <<readers, waiting, denied, acquired, sinceSample, pc, seen, quiet, reported, health, down>>

GiveUpMutex ==
  /\ mutex = "leaving"
  /\ mutex' = "free"
  /\ UNCHANGED <<readers, waiting, heldFor, denied, acquired, sinceSample, pc, seen, quiet, reported, health, down>>

\* ReadOnly: a queued writer comes before a reader.
Reading ==
  /\ IF readers THEN TRUE ELSE mutex = "free" /\ waiting = 0
  /\ readers' = ~readers
  /\ UNCHANGED <<mutex, waiting, heldFor, denied, acquired, sinceSample, pc, seen, quiet, reported, health, down>>

-----------------------------------------------------------------------------
(* The watch. A sample is never later than the interval. *)

Cap == Threshold + 3 * Interval
Older(t) == IF t < Cap THEN t + 1 ELSE t

PassTime ==
  /\ pc = "idle" /\ sinceSample < Interval
  /\ sinceSample' = sinceSample + 1
  /\ heldFor' = IF mutex = "held" THEN Older(heldFor) ELSE 0
  /\ denied' = IF waiting > 0 THEN Older(denied) ELSE 0
  /\ quiet' = Older(quiet)
  /\ UNCHANGED <<mutex, readers, waiting, acquired, pc, seen, reported, health, down>>

\* Fault for the mutation runs: only an acquisition restarts the window.
RestartsOnProgress == acquired

\* The window restarts when somebody got in, and when nobody is kept out.
Restarts == acquired \/ waiting = 0

\* sample loads the counts, then the stamp.
LoadCounts ==
  /\ pc = "idle" /\ sinceSample = Interval
  /\ pc' = "counted"
  /\ sinceSample' = 0
  /\ quiet' = IF Restarts THEN 0 ELSE quiet
  /\ acquired' = FALSE
  /\ seen' = [waiting |-> waiting, denied |-> denied]
  /\ UNCHANGED <<lockVars, reported, health, down>>

HeldTooLong == mutex = "held" /\ heldFor >= Threshold
NoProgress == seen.waiting > 0 /\ quiet >= Threshold

\* raise, once for a stall: the health first.
Raise ==
  /\ pc = "counted" /\ (HeldTooLong \/ NoProgress)
  /\ pc' = "idle"
  /\ reported' = TRUE
  /\ health' = IF reported THEN health ELSE "not serving"
  /\ UNCHANGED <<lockVars, acquired, sinceSample, seen, quiet, down>>

\* recovered, up to its look at the context.
Recover ==
  /\ pc = "counted" /\ ~HeldTooLong /\ ~NoProgress
  /\ reported' = FALSE
  /\ pc' = IF reported /\ ~down THEN "clearing" ELSE "idle"
  /\ UNCHANGED <<lockVars, acquired, sinceSample, seen, quiet, health, down>>

ServeAgain ==
  /\ pc = "clearing"
  /\ pc' = "idle" /\ health' = "serving"
  /\ UNCHANGED <<lockVars, acquired, sinceSample, seen, quiet, reported, down>>

\* Stop cancels the context and the server says that it does not serve, here at
\* once.
StopServing ==
  /\ ~down
  /\ down' = TRUE /\ health' = "not serving"
  /\ UNCHANGED <<lockVars, acquired, sinceSample, pc, seen, quiet, reported>>

-----------------------------------------------------------------------------
(* The dialler. *)

Flip(p) ==
  /\ flips < MaxFlips /\ p \notin Malformed
  /\ flips' = flips + 1
  /\ link' = [link EXCEPT ![p] = ~@]
  /\ UNCHANGED <<peerState, lines>>

Say(p, what) == lines' = [lines EXCEPT ![p] = @ \o what]

\* A malformed address is mentioned once.
DialMalformed(p) ==
  /\ p \in Malformed /\ ~peerState[p].warned
  /\ peerState' = [peerState EXCEPT ![p] = [connected |-> @.connected, warned |-> TRUE]]
  /\ Say(p, <<"unusable">>)
  /\ UNCHANGED <<link, flips>>

\* Once an outage.
Warns(p) == ~peerState[p].warned

\* dial: what it finds, what comes of connecting, and the lines of both.
Dial(p) ==
  LET was == peerState[p]
      lost == IF was.connected /\ ~link[p] THEN <<"lost">> ELSE <<>>
  IN /\ p \notin Malformed
     /\ \/ /\ link[p]
           /\ link' = link
           /\ peerState' = [peerState EXCEPT ![p] =
                [connected |-> TRUE, warned |-> was.warned /\ was.connected]]
           /\ Say(p, IF was.connected THEN <<>> ELSE <<"connected">>)
        \/ /\ ~link[p]
           /\ link' = [link EXCEPT ![p] = TRUE]
           /\ peerState' = [peerState EXCEPT ![p] = [connected |-> TRUE, warned |-> FALSE]]
           /\ Say(p, lost \o <<"connected">>)
        \/ /\ ~link[p]
           /\ link' = link
           /\ peerState' = [peerState EXCEPT ![p] = [connected |-> FALSE, warned |-> TRUE]]
           /\ Say(p, lost \o IF Warns(p) THEN <<"failed">> ELSE <<>>)
     /\ UNCHANGED flips

-----------------------------------------------------------------------------

WatchdogInit ==
  /\ mutex = "free" /\ readers = FALSE /\ waiting = 0 /\ acquired = FALSE
  /\ heldFor = 0 /\ denied = 0
  /\ sinceSample = Interval /\ pc = "idle" /\ seen = [waiting |-> 0, denied |-> 0]
  /\ quiet = 0 /\ reported = FALSE /\ health = "serving" /\ down = FALSE
  /\ link = [p \in Neighbour |-> FALSE] /\ flips = 0
  /\ peerState = [p \in Neighbour |-> [connected |-> FALSE, warned |-> FALSE]]
  /\ lines = [p \in Neighbour |-> <<>>]

Watch ==
  \/ QueueWriter \/ TakeMutex \/ NoteHolder \/ ClearHolder \/ GiveUpMutex \/ Reading
  \/ PassTime
  \/ LoadCounts \/ Raise \/ Recover \/ ServeAgain
  \/ StopServing

KeepConnected == \E p \in Neighbour : Flip(p) \/ DialMalformed(p) \/ Dial(p)

WatchdogNext ==
  \/ Watch /\ UNCHANGED dialVars
  \/ KeepConnected /\ UNCHANGED watchVars

WatchdogSpec == WatchdogInit /\ [][WatchdogNext]_watchdogVars

-----------------------------------------------------------------------------
(* Properties. *)

\* No false alarm, however quiet or busy the ledger is: who raises one has seen a
\* writer hold the lock for the threshold, or writers kept out for all of it but
\* an interval.
AlarmIsTrue ==
  reported' /\ ~reported => heldFor >= Threshold \/ seen.denied >= Threshold - Interval

\* No missed one: a wedge is reported an interval after the threshold at the
\* latest if a writer holds on, two if a reader does.
WedgeIsTold ==
  pc = "idle" /\ ~reported => heldFor <= Threshold + Interval /\ denied <= Threshold + 2 * Interval

\* What is answered is what was found, until the node stops.
HealthIsTold == pc = "idle" /\ ~down => (health = "serving" <=> ~reported)

\* Changes are printed, not attempts: no line follows itself, and the last one
\* tells how the peer was found.
OneLineAnOutage ==
  \A p \in Neighbour :
    /\ \A i \in 1 .. Len(lines[p]) - 1 : lines[p][i] # lines[p][i + 1]
    /\ peerState[p].connected => lines[p][Len(lines[p])] = "connected"

\* What the node tells of itself: an alarm is true when it is raised, none is missed
\* or kept, and an outage of a peer is told once.
WatchTells ==
  [][AlarmIsTrue]_watchVars /\ [](WedgeIsTold /\ HealthIsTold /\ OneLineAnOutage)
=============================================================================
