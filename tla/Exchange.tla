------------------------------ MODULE Exchange ------------------------------
(***************************************************************************)
(* The market over gossip (internal/marketexchange): a node announces what *)
(* it sells, another node keeps a directory of what it hears, and a buyer  *)
(* there orders at a quote it read. Announcements and orders are signed,   *)
(* and may be delivered late, out of order, more than once or never. The   *)
(* selling node is the market of module Market; the clocks of the two      *)
(* nodes agree.                                                            *)
(***************************************************************************)
EXTENDS Market

CONSTANTS
  ProviderTTL    \* how long the directory keeps what it heard

Announcement == [provider : Provider, quote : Quote, available : Nat \ {0}, at : Nat]
Entry == [quote : Quote, available : Nat \ {0}, received : Nat, first : Nat]

ASSUME ExchangeAssumption == ProviderTTL \in Nat

VARIABLES
  announced,   \* announcements on the network
  directory,   \* providers: what the other node heard last, or None
  ordered      \* orders on the network

gossip == <<announced, directory, ordered>>
exchangeVars == <<marketVars, gossip>>

\* announceOnce, for one provider: in the order book and with something to sell.
AnnounceProvider(p) ==
  /\ Registered(p) /\ Usable(offer[p].quote)
  /\ ~offer[p].suspended /\ offer[p].available > 0
  /\ announced' = announced \cup
       {[provider |-> p, quote |-> offer[p].quote, available |-> offer[p].available, at |-> now]}
  /\ UNCHANGED <<marketVars, directory, ordered>>

\* An announcement replaces an older version of the quote, or restates the same.
Supersedes(a, e) == a.quote.version > e.quote.version \/ a.quote = e.quote

\* handleAnnouncement
HandleAnnouncement(a) ==
  LET p == a.provider
      known_ == directory[p] # None
  IN /\ Usable(a.quote)
     /\ known_ => Supersedes(a, directory[p])
     /\ directory' = [directory EXCEPT ![p] =
          [quote |-> a.quote, available |-> a.available, received |-> now,
           first |-> IF known_ THEN directory[p].first ELSE now]]
     /\ UNCHANGED <<marketVars, announced, ordered>>

\* isUnavailableAt: not heard of for too long, or the quote expired.
Unavailable(p) == now - directory[p].received > ProviderTTL \/ ~Usable(directory[p].quote)

\* ListRemoteProviders: listing the directory drops what is unavailable.
ListRemoteProviders ==
  /\ directory' = [p \in Provider |->
       IF directory[p] # None /\ Unavailable(p) THEN None ELSE directory[p]]
  /\ directory' # directory
  /\ UNCHANGED <<marketVars, announced, ordered>>

\* SubmitRemoteJob: an order at the quote the directory shows.
SubmitRemoteJob(b, p, units, nonce) ==
  /\ directory[p] # None /\ ~Unavailable(p)
  /\ directory[p].available >= units
  /\ ordered' = ordered \cup
       {[buyer |-> b, provider |-> p, units |-> units, nonce |-> nonce, quote |-> directory[p].quote]}
  /\ UNCHANGED <<marketVars, announced, directory>>

\* handleJobRequest: the order is checked against the clock, then reserved.
HandleJobRequest(r) ==
  /\ r \in ordered /\ Usable(r.quote)
  /\ ReserveRemoteJob(r)
  /\ UNCHANGED gossip

\* The listening node restarts: its directory is in memory.
RestartDirectory ==
  /\ crashes < MaxCrashes
  /\ crashes' = crashes + 1
  /\ directory' = [p \in Provider |-> None]
  /\ UNCHANGED <<books, orders, coordinator, chainside, now, settler, announced, ordered>>

ExchangeInit ==
  /\ MarketInit
  /\ announced = {} /\ ordered = {}
  /\ directory = [p \in Provider |-> None]

Gossiping ==
  \/ \E p \in Provider : AnnounceProvider(p)
  \/ \E a \in announced : HandleAnnouncement(a)
  \/ ListRemoteProviders
  \/ \E b \in RemoteBuyer, p \in Provider, u \in Unit, n \in RequestNonce : SubmitRemoteJob(b, p, u, n)
  \/ \E r \in ordered : HandleJobRequest(r)
  \/ RestartDirectory

ExchangeNext == (MarketNext /\ UNCHANGED gossip) \/ Gossiping

ExchangeSpec == ExchangeInit /\ [][ExchangeNext]_exchangeVars
=============================================================================
