------------------------------ MODULE Gateway ------------------------------
(***************************************************************************)
(* The OpenAI-compatible endpoint (internal/openaiapi) with its durable    *)
(* idempotency keys (internal/node/idempotency.go). A client that lost an  *)
(* answer sends the same request again under the same key. A job is what   *)
(* module Inference makes of it, in brief: it fails before it is charged,  *)
(* or its payment is submitted, and the handler hears of the outcome or    *)
(* stops waiting first. A payment that was submitted is committed, or lost *)
(* with the mempools that hold it, whoever waits for it.                   *)
(***************************************************************************)
EXTENDS Integers, Sequences, FiniteSets

CONSTANTS
  Server,       \* goroutines that serve posts
  IdemKey,       \* the keys of one buyer; with NoKey, posts without one
  NoKey,
  Digest,        \* what the fingerprint of a request may be
  IdemTTL,       \* IdempotencyTTL
  MaxPosts, MaxHours, MaxReboots, \* bounds
  Unused

ASSUME GatewayAssumption ==
  IdemTTL \in Nat \ {0} /\ Unused \notin [digest : Digest \cup {Unused}, done : BOOLEAN, at : Nat]

VARIABLES
  records,       \* on disk: what a key remembers, or Unused
  orders,        \* every job a post opened, in order
  serving,       \* what each handler is doing, or Unused
  hour,          \* the clock
  reboots        \* restarts so far

gatewayVars == <<records, orders, serving, hour, reboots>>

GatewayInit ==
  /\ records = [k \in IdemKey |-> Unused]
  /\ orders = <<>>
  /\ serving = [h \in Server |-> Unused]
  /\ hour = 0 /\ reboots = 0

-----------------------------------------------------------------------------
(* Keys. *)

Remembered(k) == k # NoKey /\ records[k] # Unused /\ hour - records[k].at < IdemTTL

\* Fault for the mutation runs: a record that is not completed refuses nobody.
ReserveFinished(k, q) ==
  /\ ~(Remembered(k) /\ records[k].done)
  /\ records' = IF k = NoKey THEN records
                ELSE [records EXCEPT ![k] = [digest |-> q, done |-> FALSE, at |-> hour]]

\* Reserve, under the mutex of the store: a key that is not remembered is taken.
\* A remembered one refuses the post, which changes nothing: it named another
\* request (422), or one that is running or was charged (409).
Reserve(k, q) ==
  /\ ~Remembered(k)
  /\ records' = IF k = NoKey THEN records
                ELSE [records EXCEPT ![k] = [digest |-> q, done |-> FALSE, at |-> hour]]

\* Release (ForgetKey) forgets whatever the key holds.
ForgetKey(k) == records' = [records EXCEPT ![k] = Unused]

\* Complete keeps the time of the record, or starts one.
Complete(k) ==
  records' = IF k = NoKey THEN records
             ELSE [records EXCEPT ![k] = IF @ = Unused THEN [digest |-> Unused, done |-> TRUE, at |-> hour]
                                         ELSE [@ EXCEPT !.done = TRUE]]

-----------------------------------------------------------------------------
(* A post. *)

IsAt(h, place) == serving[h] # Unused /\ serving[h].at = place
Move(h, place) == serving' = [serving EXCEPT ![h].at = place]
Order(h) == serving[h].order
Becomes(i, s) == orders' = [orders EXCEPT ![i].state = s]

\* chatCompletions up to the key: what does not decode, has no buyer, no model or
\* no message never gets here.
Post(h, k, q) ==
  /\ serving[h] = Unused /\ Len(orders) < MaxPosts
  /\ Reserve(k, q)
  /\ serving' = [serving EXCEPT ![h] = [key |-> k, digest |-> q, at |-> "route", order |-> 0]]
  /\ UNCHANGED <<orders, hour, reboots>>

\* No provider serves the model, the connection cannot be flushed, or the
\* service refuses the job.
Unroutable(h) ==
  /\ IsAt(h, "route")
  /\ Move(h, "failed")
  /\ UNCHANGED <<records, orders, hour, reboots>>

\* SubmitInferenceJob at the cheapest provider.
Submit(h) ==
  /\ IsAt(h, "route")
  /\ orders' = Append(orders, [key |-> serving[h].key, digest |-> serving[h].digest,
                               state |-> "open", at |-> hour, cut |-> FALSE])
  /\ serving' = [serving EXCEPT ![h].at = "model", ![h].order = Len(orders) + 1]
  /\ UNCHANGED <<records, hour, reboots>>

\* The run fails, or its payment is refused: nobody was charged.
RunFails(h) ==
  /\ IsAt(h, "model")
  /\ Becomes(Order(h), "failed")
  /\ Move(h, "failed")
  /\ UNCHANGED <<records, hour, reboots>>

\* The answer is there and its payment is in the mempool.
PaymentSubmitted(h) ==
  /\ IsAt(h, "model")
  /\ Becomes(Order(h), "settling")
  /\ Move(h, "wait")
  /\ UNCHANGED <<records, hour, reboots>>

\* The payment commits and applies, whether or not somebody waits.
PaymentCommits(i) ==
  /\ orders[i].state = "settling"
  /\ Becomes(i, "charged")
  /\ UNCHANGED <<records, serving, hour, reboots>>

\* It commits without effect, or no mempool holds it any more.
PaymentLost(i) ==
  /\ orders[i].state = "settling"
  /\ Becomes(i, "failed")
  /\ UNCHANGED <<records, serving, hour, reboots>>

\* FulfillJob or StreamJob returns the finished job, or the error of a payment
\* that came to nothing.
Settled(h) ==
  /\ IsAt(h, "wait")
  /\ orders[Order(h)].state \in {"charged", "failed"}
  /\ Move(h, IF orders[Order(h)].state = "charged" THEN "charged" ELSE "failed")
  /\ UNCHANGED <<records, orders, hour, reboots>>

\* The client hangs up or the wait times out: an error, with the payment where
\* it was.
WaitCut(h) ==
  /\ IsAt(h, "wait")
  /\ orders' = [orders EXCEPT ![Order(h)].cut = TRUE]
  /\ Move(h, "failed")
  /\ UNCHANGED <<records, hour, reboots>>

\* The error path: the key is released, the error is the answer.
AnswerError(h) ==
  /\ IsAt(h, "failed")
  /\ ForgetKey(serving[h].key)
  /\ serving' = [serving EXCEPT ![h] = Unused]
  /\ UNCHANGED <<orders, hour, reboots>>

\* Fault for the mutation runs: a charged request frees its key as a failed one.
AnswerForgetting(h) ==
  /\ IsAt(h, "charged")
  /\ ForgetKey(serving[h].key)
  /\ serving' = [serving EXCEPT ![h] = Unused]
  /\ UNCHANGED <<orders, hour, reboots>>

\* The key is completed with its job, then the answer goes out.
Answer(h) ==
  /\ IsAt(h, "charged")
  /\ Complete(serving[h].key)
  /\ serving' = [serving EXCEPT ![h] = Unused]
  /\ UNCHANGED <<orders, hour, reboots>>

\* A request is served within the time a key is remembered.
Hour ==
  /\ hour < MaxHours
  /\ \A h \in Server : serving[h] = Unused \/ IsAt(h, "wait")
  /\ \A h \in Server : IsAt(h, "wait") => hour + 1 - orders[Order(h)].at < IdemTTL
  /\ hour' = hour + 1
  /\ UNCHANGED <<records, orders, serving, reboots>>

\* The node stops with requests in the middle. Their jobs are gone; a payment may
\* be in the mempool of a peer.
Reboot ==
  /\ reboots < MaxReboots
  /\ reboots' = reboots + 1
  /\ serving' = [h \in Server |-> Unused]
  /\ orders' = [i \in DOMAIN orders |->
                  IF orders[i].state = "open" THEN [orders[i] EXCEPT !.state = "failed"] ELSE orders[i]]
  /\ UNCHANGED <<records, hour>>

GatewayNext ==
  \/ \E h \in Server :
       \/ \E k \in IdemKey, q \in Digest : Post(h, k, q)
       \/ Unroutable(h)
       \/ Submit(h)
       \/ RunFails(h)
       \/ PaymentSubmitted(h)
       \/ Settled(h)
       \/ WaitCut(h)
       \/ AnswerError(h)
       \/ Answer(h)
  \/ \E i \in DOMAIN orders : PaymentCommits(i) \/ PaymentLost(i)
  \/ Hour
  \/ Reboot

GatewaySpec == GatewayInit /\ [][GatewayNext]_gatewayVars

-----------------------------------------------------------------------------
(* Properties. *)

\* Two jobs of one key, opened while it is remembered, that charge the buyer both.
Doubled(i, j) ==
  /\ i < j /\ orders[i].key = orders[j].key /\ orders[i].key # NoKey
  /\ orders[j].at - orders[i].at < IdemTTL
  /\ orders[i].state = "charged" /\ orders[j].state = "charged"

\* A key pays once: posts under it that race, follow an answer, or follow a
\* restart in the middle of a request open no second job that is charged, but for
\* a job whose handler stopped waiting for its payment.
ChargedOnceAnswered == \A i, j \in DOMAIN orders : Doubled(i, j) => orders[i].cut

\* What the comments of the error paths say: a job answered with an error charged
\* nobody, so a key that is used again never pays twice.
ChargedOncePerKey == \A i, j \in DOMAIN orders : ~Doubled(i, j)
=============================================================================
