------------------------------- MODULE Market -------------------------------
(***************************************************************************)
(* The compute market of one node (internal/market/market.go) and the      *)
(* coordinator that settles its jobs on the chain                          *)
(* (internal/node/compute_settlement.go), behind the handlers of           *)
(* internal/marketapi. A call holds the market's locks from its first      *)
(* check to its last write, so it is one action; what interleaves is the   *)
(* steps of SettleAndCompleteJob, which waits for the chain in between.    *)
(*                                                                         *)
(* The provider and the job of a call are two writes to the disk: the      *)
(* second may fail after the first. A unit of work costs one coin. A quote *)
(* lasts TTL from the moment it was observed. What a transfer does on the  *)
(* chain, fees included, is module Settlement's subject.                   *)
(***************************************************************************)
EXTENDS Integers, Sequences, FiniteSets, Sums, SequencesExt

CONSTANTS
  Provider,      \* providers this node sells for
  Capacity,      \* the capacity each is registered with
  Buyer,         \* buyers whose keys the node holds
  RemoteBuyer,   \* buyers at other nodes
  Genesis,       \* opening balances of buyers
  Unit,          \* sizes of jobs
  RequestNonce,  \* nonces of remote requests
  Caller,        \* requests to complete a job served at once
  TTL,           \* how long a quote is good
  MaxTime,       \* bound on the clock
  MaxQuotes,     \* bound on the quotes stated
  MaxJobs,       \* bound on jobs
  MaxTxs,        \* bound on transfers signed
  MaxCrashes,    \* bound on restarts
  None           \* no such thing

Quote == [id : Nat, version : Nat, observed : Nat]
Offer == [quote : Quote, available : Nat, suspended : BOOLEAN]

\* A signed order from another node; its digest is all of it.
Request ==
  [buyer : RemoteBuyer, provider : Provider, units : Unit, nonce : RequestNonce, quote : Quote]

\* A transfer to the provider of a job, signed by its buyer.
Transfer == [job : Nat, by : Buyer, amount : Nat, nonce : Nat, serial : Nat]

ASSUME MarketAssumption ==
  /\ Capacity \in [Provider -> Nat \ {0}]
  /\ Buyer \cap RemoteBuyer = {}
  /\ Genesis \in [Buyer \cup RemoteBuyer -> Nat]
  /\ Unit \subseteq Nat \ {0}
  /\ RequestNonce \subseteq Nat
  /\ {TTL, MaxTime, MaxQuotes, MaxJobs, MaxTxs, MaxCrashes} \subseteq Nat
  /\ None \notin Request \cup Transfer \cup Offer

VARIABLES
  offer,       \* providers: what the node says of them, or None
  shelf,       \* the same on disk
  jobs,        \* the jobs, by number, in memory and on disk
  requested,   \* remoteRequests: <<buyer, nonce, job>>
  quotes,      \* quotes stated so far
  now,         \* the clock
  nonces,      \* the coordinator's next nonce of each buyer
  pending,     \* its transfer under way for each job, or None
  call,        \* the requests to complete a job being served
  known,       \* transfers this node's engine knows of
  afloat,      \* signed transfers that may still be committed
  applied,     \* committed: the transfers that moved coins
  skipped,     \* committed: those that did not
  balance,     \* what buyers have
  settler,     \* whether the node settles on a chain
  disturbed,   \* history: providers reset under their jobs, or torn by a failed write
  overlapped,  \* history: jobs completed by two requests at once
  crashes      \* restarts so far

books == <<offer, shelf, quotes, disturbed>>
orders == <<jobs, requested>>
coordinator == <<nonces, pending, call, overlapped>>
chainside == <<known, afloat, applied, skipped, balance>>
marketVars == <<books, orders, coordinator, chainside, now, settler, crashes>>

Idle == [at |-> "idle"]
Active(i) == jobs[i].status = "pending"
Registered(p) == offer[p] # None

\* The jobs that hold capacity of p.
Holding(p) == {i \in DOMAIN jobs : jobs[i].provider = p /\ jobs[i].status \in {"pending", "direct"}}

-----------------------------------------------------------------------------
(* Providers and their quotes. *)

\* A provider record is written first, then shown.
Post(p, o) ==
  /\ offer' = [offer EXCEPT ![p] = o]
  /\ shelf' = [shelf EXCEPT ![p] = o]

\* normalizeProviderQuote: a quote stated now, with an identity of its own.
Fresh(version) == [id |-> quotes + 1, version |-> version, observed |-> now]

\* Bounds the identities of quotes and their versions.
Stated == quotes < MaxQuotes /\ quotes' = quotes + 1

\* RegisterProvider: all of the capacity is available, at version 1, whatever
\* was there before.
RegisterProvider(p) ==
  /\ Stated
  /\ Post(p, [quote |-> Fresh(1), available |-> Capacity[p], suspended |-> FALSE])
  /\ disturbed' = IF Holding(p) = {} THEN disturbed ELSE disturbed \cup {p}
  /\ UNCHANGED <<orders, coordinator, chainside, now, settler, crashes>>

\* UpdateProviderQuote: the capacity, what is left of it and the suspension stay.
UpdateProviderQuote(p) ==
  /\ Registered(p) /\ Stated
  /\ Post(p, [offer[p] EXCEPT !.quote = Fresh(@.version + 1)])
  /\ UNCHANGED <<orders, coordinator, chainside, now, settler, crashes, disturbed>>

\* quoteDueForRenewal: half the window is spent, and its backend answers.
DueForRenewal(p) ==
  Registered(p) /\ ~offer[p].suspended /\ 2 * (now - offer[p].quote.observed) >= TTL

\* RenewProviderQuotes, for one provider: the same quote, from now on, at the
\* next version.
RenewProviderQuote(p) ==
  /\ DueForRenewal(p) /\ Stated
  /\ Post(p, [offer[p] EXCEPT !.quote.version = @ + 1, !.quote.observed = now])
  /\ UNCHANGED <<orders, coordinator, chainside, now, settler, crashes, disturbed>>

\* SetProviderSuspended, by the health check of its backend.
SetProviderSuspended(p) ==
  /\ Registered(p)
  /\ Post(p, [offer[p] EXCEPT !.suspended = ~@])
  /\ UNCHANGED <<quotes, orders, coordinator, chainside, now, settler, crashes, disturbed>>

\* validateProviderQuoteForUse
Usable(quote) == now < quote.observed + TTL

-----------------------------------------------------------------------------
(* Reserving capacity. *)

Job(buyer, p, units, digest) ==
  [buyer |-> buyer, provider |-> p, units |-> units, digest |-> digest, status |-> "pending"]

Sells(p, units) ==
  /\ Registered(p) /\ ~offer[p].suspended /\ Usable(offer[p].quote)
  /\ offer[p].available >= units

Take(o, units) == [o EXCEPT !.available = @ - units]

\* Fault for the mutation runs: a request is known by what it asks for.
KnownByContent(r) == \E k \in requested : jobs[k[3]].digest = r

\* The request was served before: the nonce of its buyer is taken.
KnownRequest(r) == \E k \in requested : k[1] = r.buyer /\ k[2] = r.nonce

\* SubmitJob, by a local buyer.
SubmitJob(b, p, units) ==
  /\ Len(jobs) < MaxJobs
  /\ Sells(p, units) /\ balance[b] >= units
  /\ Post(p, Take(offer[p], units))
  /\ jobs' = Append(jobs, Job(b, p, units, None))
  /\ UNCHANGED <<quotes, requested, coordinator, chainside, now, settler, crashes, disturbed>>

\* The provider is on disk, the job is not, and neither is the repair: the next
\* restart finds less available than there is.
SubmitJobTorn(b, p, units) ==
  /\ Len(jobs) < MaxJobs
  /\ Sells(p, units) /\ balance[b] >= units
  /\ shelf' = [shelf EXCEPT ![p] = Take(offer[p], units)]
  /\ disturbed' = disturbed \cup {p}
  /\ UNCHANGED <<offer, quotes, orders, coordinator, chainside, now, settler, crashes>>

\* ReserveRemoteJob: once per buyer and nonce, at the quote the buyer accepted,
\* in one write. A request known already is answered with its job, or refused.
ReserveRemoteJob(r) ==
  /\ Len(jobs) < MaxJobs
  /\ ~KnownRequest(r)
  /\ Sells(r.provider, r.units) /\ offer[r.provider].quote = r.quote
  /\ balance[r.buyer] >= r.units
  /\ Post(r.provider, Take(offer[r.provider], r.units))
  /\ jobs' = Append(jobs, Job(r.buyer, r.provider, r.units, r))
  /\ requested' = requested \cup {<<r.buyer, r.nonce, Len(jobs) + 1>>}
  /\ UNCHANGED <<quotes, coordinator, chainside, now, settler, crashes, disturbed>>

-----------------------------------------------------------------------------
(* Releasing it. *)

\* Fault for the mutation runs: a job that ended gives nothing back.
KeptBy(i) == offer[jobs[i].provider]

\* The provider with the units of job i back, never above its capacity.
RestoredBy(i) ==
  LET p == jobs[i].provider
  IN [offer[p] EXCEPT !.available = Min({@ + jobs[i].units, Capacity[p]})]

End(i, status) == jobs' = [jobs EXCEPT ![i].status = status]

Release(i, status) ==
  /\ Active(i)
  /\ Post(jobs[i].provider, RestoredBy(i))
  /\ End(i, status)
  /\ UNCHANGED <<requested, quotes, disturbed>>

\* The capacity is back, in memory and on disk, and the job is still pending.
ReleaseTorn(i) ==
  /\ Active(i)
  /\ Post(jobs[i].provider, RestoredBy(i))
  /\ disturbed' = disturbed \cup {jobs[i].provider}
  /\ UNCHANGED <<orders, quotes>>

\* CancelJob, for whoever asks.
CancelJob(i) ==
  /\ Release(i, "cancelled") \/ ReleaseTorn(i)
  /\ UNCHANGED <<coordinator, chainside, now, settler, crashes>>

\* CompleteJob of a node without a chain: the ledger pays, and the capacity stays
\* taken.
CompleteJobDirectly(i) ==
  /\ ~settler /\ Active(i)
  /\ balance[jobs[i].buyer] >= jobs[i].units
  /\ balance' = [balance EXCEPT ![jobs[i].buyer] = @ - jobs[i].units]
  /\ End(i, "direct")
  /\ UNCHANGED <<books, requested, coordinator, known, afloat, applied, skipped, now, settler, crashes>>

-----------------------------------------------------------------------------
(* SettleAndCompleteJob, by a request c. *)

Committed == applied \cup skipped
SameNonce(t, u) == t.by = u.by /\ t.nonce = u.nonce

\* Submit of the engine: a nonce it knows belongs to one transfer.
Submits(t) ==
  /\ t \in known \cup Committed \/ \A u \in known \cup Committed : ~SameNonce(t, u)
  /\ known' = IF t \in Committed THEN known ELSE known \cup {t}
  /\ afloat' = IF t \in Committed THEN afloat ELSE afloat \cup {t}
  /\ UNCHANGED <<applied, skipped, balance>>

Serving(i) == {c \in Caller : call[c] # Idle /\ call[c].job = i}

\* GetJob finds the job pending, and the transfer it has under way, if any.
BeginSettle(c, i) ==
  /\ settler /\ call[c] = Idle
  /\ Active(i) /\ jobs[i].buyer \in Buyer
  /\ call' = [call EXCEPT ![c] = [at |-> "submit", job |-> i, tx |-> pending[i]]]
  /\ overlapped' = IF Serving(i) = {} THEN overlapped ELSE overlapped \cup {i}
  /\ UNCHANGED <<books, orders, nonces, pending, chainside, now, settler, crashes>>

Waits(c, t) == call' = [call EXCEPT ![c] = [@ EXCEPT !.at = "wait", !.tx = t]]
Answers(c) == call' = [call EXCEPT ![c] = Idle]

\* A retry submits the transfer it signed before.
Resubmit(c) ==
  /\ call[c] # Idle /\ call[c].at = "submit" /\ call[c].tx # None
  /\ Submits(call[c].tx)
  /\ Waits(c, call[c].tx)
  /\ UNCHANGED <<books, orders, nonces, pending, overlapped, now, settler, crashes>>

\* A new transfer, at the coordinator's next nonce.
NewTx(i) ==
  [job |-> i, by |-> jobs[i].buyer, amount |-> jobs[i].units, nonce |-> nonces[jobs[i].buyer],
   serial |-> Cardinality(known \cup afloat \cup Committed) + 1]

SignsNext(c) ==
  /\ call[c] # Idle /\ call[c].at = "submit" /\ call[c].tx = None
  /\ Cardinality(known \cup afloat \cup Committed) < MaxTxs
  /\ nonces' = [nonces EXCEPT ![jobs[call[c].job].buyer] = @ + 1]

SignTransfer(c) ==
  /\ SignsNext(c)
  /\ LET i == call[c].job
     IN /\ Submits(NewTx(i))
        /\ pending' = [pending EXCEPT ![i] = NewTx(i)]
        /\ Waits(c, NewTx(i))
  /\ UNCHANGED <<books, orders, overlapped, now, settler, crashes>>

\* The nonce is taken: the request fails, and the next one tries the next nonce.
NonceRefused(c) ==
  /\ SignsNext(c)
  /\ \E u \in known \cup Committed : SameNonce(NewTx(call[c].job), u)
  /\ Answers(c)
  /\ UNCHANGED <<books, orders, pending, overlapped, chainside, now, settler, crashes>>

\* Fault for the mutation runs: a request that gives up forgets its transfer.
ForgetsOnTimeout(c) == pending' = [pending EXCEPT ![call[c].job] = None]

\* The transfer of a request that gives up stays under way.
AfterTimeout(c) == UNCHANGED pending

\* The chain takes longer than the request waits.
SettleTimesOut(c) ==
  /\ call[c] # Idle /\ call[c].at = "wait"
  /\ Answers(c) /\ AfterTimeout(c)
  /\ UNCHANGED <<books, orders, nonces, overlapped, chainside, now, settler, crashes>>

\* The outcome is known: nothing is under way any more.
SettleDecided(c) ==
  /\ call[c] # Idle /\ call[c].at = "wait" /\ call[c].tx \in Committed
  /\ pending' = [pending EXCEPT ![call[c].job] = None]
  /\ call' = [call EXCEPT ![c].at = "finish"]
  /\ UNCHANGED <<books, orders, nonces, overlapped, chainside, now, settler, crashes>>

\* ReleaseAsCompleted after a payment, CancelJob after none; nothing when the job
\* has ended in the meantime.
FinishSettle(c) ==
  /\ call[c] # Idle /\ call[c].at = "finish"
  /\ LET i == call[c].job
     IN IF Active(i)
        THEN Release(i, IF call[c].tx \in applied THEN "completed" ELSE "cancelled") \/ ReleaseTorn(i)
        ELSE UNCHANGED <<books, orders>>
  /\ Answers(c)
  /\ UNCHANGED <<nonces, pending, overlapped, chainside, now, settler, crashes>>

-----------------------------------------------------------------------------
(* The chain, the clock and restarts. *)

\* A block holds t: it moves the coins if the buyer has them.
CommitTx(t) ==
  /\ t \in afloat
  /\ \A u \in Committed : ~SameNonce(t, u)
  /\ afloat' = afloat \ {t} /\ known' = known \ {t}
  /\ IF balance[t.by] >= t.amount
     THEN /\ applied' = applied \cup {t} /\ UNCHANGED skipped
          /\ balance' = [balance EXCEPT ![t.by] = @ - t.amount]
     ELSE skipped' = skipped \cup {t} /\ UNCHANGED <<applied, balance>>
  /\ UNCHANGED <<books, orders, coordinator, now, settler, crashes>>

MarketTick ==
  /\ now < MaxTime
  /\ now' = now + 1
  /\ UNCHANGED <<books, orders, coordinator, chainside, settler, crashes>>

\* Fault for the mutation runs: the requests served are not read back.
RequestsForgotten == {}

\* load: the served requests are found in the jobs.
RequestsOnDisk ==
  {<<jobs[i].buyer, jobs[i].digest.nonce, i>> : i \in {k \in DOMAIN jobs : jobs[k].digest # None}}

\* NewMarket and NewComputeSettlementCoordinator: what the coordinator knew is
\* gone, and so is the node's own mempool; other nodes keep what it gossiped.
RestartMarket ==
  /\ crashes < MaxCrashes
  /\ crashes' = crashes + 1
  /\ offer' = shelf
  /\ requested' = RequestsOnDisk
  /\ nonces' = [b \in Buyer |-> 0]
  /\ pending' = [i \in 1 .. MaxJobs |-> None]
  /\ call' = [c \in Caller |-> Idle]
  /\ known' = {}
  /\ UNCHANGED <<shelf, quotes, disturbed, jobs, overlapped, afloat, applied, skipped, balance, now, settler>>

MarketInit ==
  /\ offer = [p \in Provider |-> None] /\ shelf = offer
  /\ jobs = <<>> /\ requested = {}
  /\ quotes = 0 /\ now = 0
  /\ nonces = [b \in Buyer |-> 0]
  /\ pending = [i \in 1 .. MaxJobs |-> None]
  /\ call = [c \in Caller |-> Idle]
  /\ known = {} /\ afloat = {} /\ applied = {} /\ skipped = {}
  /\ balance = Genesis
  /\ settler \in BOOLEAN
  /\ disturbed = {} /\ overlapped = {}
  /\ crashes = 0

Selling(p) ==
  \/ RegisterProvider(p)
  \/ UpdateProviderQuote(p)
  \/ RenewProviderQuote(p)
  \/ SetProviderSuspended(p)

Buying(b, p, units) == SubmitJob(b, p, units) \/ SubmitJobTorn(b, p, units)

Settling(c) ==
  \/ \E i \in DOMAIN jobs : BeginSettle(c, i)
  \/ Resubmit(c)
  \/ SignTransfer(c)
  \/ NonceRefused(c)
  \/ SettleTimesOut(c)
  \/ SettleDecided(c)
  \/ FinishSettle(c)

MarketNext ==
  \/ \E p \in Provider : Selling(p)
  \/ \E b \in Buyer, p \in Provider, u \in Unit : Buying(b, p, u)
  \/ \E i \in DOMAIN jobs : CancelJob(i) \/ CompleteJobDirectly(i)
  \/ \E c \in Caller : Settling(c)
  \/ \E t \in afloat : CommitTx(t)
  \/ MarketTick
  \/ RestartMarket

-----------------------------------------------------------------------------
(* Properties. *)

Held(p) == Total([i \in DOMAIN jobs |-> jobs[i].units], Holding(p))

\* Capacity is neither sold twice nor lost: what is available and what jobs hold
\* make up the capacity, whichever of the calls that release a job ran and in
\* whatever order, restarts included. Registering a provider again under its
\* jobs, and a write that fails half way, break this in the code.
CapacityAccounted ==
  \A p \in Provider : Registered(p) /\ p \notin disturbed => offer[p].available + Held(p) = Capacity[p]

\* A remote request reserves at most one job, however often and whenever it is
\* delivered, across restarts.
OneJobPerRequest ==
  \A i, k \in DOMAIN jobs :
    /\ jobs[i].digest # None /\ jobs[k].digest # None
    /\ jobs[i].digest.buyer = jobs[k].digest.buyer /\ jobs[i].digest.nonce = jobs[k].digest.nonce
    => i = k

Charges(i) == Cardinality({t \in applied : t.job = i})

\* Settlement after timeouts and retries is exactly once, while the node stays up,
\* its writes succeed and requests for one job come one after another: a job is
\* charged at most once. A completed one was charged, in any case.
JobChargedOnce ==
  \A i \in DOMAIN jobs :
    /\ crashes = 0 /\ i \notin overlapped /\ jobs[i].provider \notin disturbed => Charges(i) <= 1
    /\ jobs[i].status = "completed" => Charges(i) > 0

\* No buyer pays twice for one request: it makes one job, and a job is charged
\* once.
ChargedOnce == OneJobPerRequest /\ JobChargedOnce
=============================================================================
