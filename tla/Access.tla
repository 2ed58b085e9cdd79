------------------------------- MODULE Access -------------------------------
(***************************************************************************)
(* What a request passes before its handler runs: the rate limit of the    *)
(* HTTP endpoint (internal/connectapi), the API keys (internal/admin),     *)
(* which a reload replaces while requests are served, and, for a run       *)
(* anybody may ask for, the authorization of the buyer                     *)
(* (internal/inference/runauth.go). A signature is valid or it is not: an  *)
(* authorization stands for the fields it covers, and a request that       *)
(* differs in one of them carries another authorization.                   *)
(***************************************************************************)
EXTENDS Integers, FiniteSets, Sums

CONSTANTS
  Client,        \* credentials, and addresses that present none
  Key,           \* the credentials among them that a key set may hold
  Auth,          \* run authorizations
  Genuine,       \* those whose signature is the buyer's
  SignedAt,      \* their timestamps
  Cost,          \* tokens are counted in parts, of which a request takes Cost
  Refill,        \* parts a bucket gains each unit of time
  Burst,         \* parts a full bucket holds
  IdleTTL,       \* idleBucketTTL
  AuthWindow,    \* RunAuthorizationWindow
  MaxMoment, MaxRequests, MaxRestarts, \* bounds
  Absent

ASSUME AccessAssumption ==
  /\ Key \subseteq Client /\ Genuine \subseteq Auth
  /\ SignedAt \in [Auth -> Nat]
  /\ {Cost, Refill, Burst, IdleTTL} \subseteq Nat \ {0}
  /\ {AuthWindow, MaxMoment, MaxRequests, MaxRestarts} \subseteq Nat /\ AuthWindow <= MaxMoment
  /\ Absent \notin Nat \cup [tokens : 0 .. Burst, at : Nat]

VARIABLES
  moment,        \* the node's clock
  buckets,       \* per client: a bucket, or Absent
  lastPurge,     \* of the buckets
  keys,          \* the key set
  public,        \* configuration: PublicReads, SignedWrites
  seenAuths,     \* acceptances remembered, with their time
  authPurge,     \* when they were last purged
  admittedSince, \* history: requests let through, of each caller, at a moment or later
  ran,           \* history: runs of each authorization, by process
  process        \* restarts so far

limiterVars == <<buckets, lastPurge, admittedSince>>
authVars == <<seenAuths, authPurge, ran>>
accessVars == <<moment, limiterVars, keys, public, authVars, process>>

AccessInit ==
  /\ moment = AuthWindow
  /\ buckets = [c \in Client |-> Absent]
  /\ lastPurge = moment
  /\ keys = Key
  /\ public \in [{"reads", "writes"} -> BOOLEAN]
  /\ seenAuths = [a \in Auth |-> Absent]
  /\ authPurge = 0
  /\ admittedSince = [c \in Client |-> [t \in 0 .. MaxMoment |-> 0]]
  /\ ran = [a \in Auth |-> [p \in 0 .. MaxRestarts |-> 0]]
  /\ process = 0

-----------------------------------------------------------------------------
(* The rate limit. *)

IdleFor(b, at) == b # Absent /\ moment - b.at >= at

\* Fault for the mutation runs: every purge forgets every bucket.
PurgedAll ==
  IF moment - lastPurge < IdleTTL THEN buckets ELSE [c \in Client |-> Absent]

\* purgeLocked: once per TTL, buckets nobody used for as long.
PurgedBuckets ==
  IF moment - lastPurge < IdleTTL THEN buckets
  ELSE [c \in Client |-> IF IdleFor(buckets[c], IdleTTL) THEN Absent ELSE buckets[c]]

\* The tokens of a bucket now: a caller not seen before starts with a full one.
Refilled(b) == IF b = Absent THEN Burst ELSE Min({b.tokens + (moment - b.at) * Refill, Burst})

Affordable(n) == n >= Cost

\* The history with a request let through now.
OneMore(c) ==
  [t \in 0 .. MaxMoment |-> IF t <= moment THEN admittedSince[c][t] + 1 ELSE admittedSince[c][t]]

\* allow: purge, refill, and take a token if there is one.
Allow(c, admitted) ==
  LET n == Refilled(PurgedBuckets[c])
  IN /\ lastPurge' = IF moment - lastPurge < IdleTTL THEN lastPurge ELSE moment
     /\ admitted = Affordable(n)
     /\ buckets' = [PurgedBuckets EXCEPT ![c] =
                      [tokens |-> IF admitted THEN n - Cost ELSE n, at |-> moment]]
     /\ admittedSince' = IF admitted THEN [admittedSince EXCEPT ![c] = OneMore(c)] ELSE admittedSince

Requests == Total([c \in Client |-> admittedSince[c][0]], Client)

-----------------------------------------------------------------------------
(* Run authorizations. *)

\* Fault for the mutation runs: an acceptance is forgotten after half the window.
ForgetsEarly(t) == t # Absent /\ moment - t > AuthWindow \div 2

\* accept forgets, at most once per window, what is older than the window.
Forgets(t) == t # Absent /\ moment - t > AuthWindow

Fresh(a) == moment - SignedAt[a] <= AuthWindow /\ SignedAt[a] - moment <= AuthWindow

\* verifySignature: the buyer's key signed exactly this request.
Authentic(a) == a \in Genuine

\* accept: an acceptance is remembered, and refused while it is.
Accepted(a) ==
  LET purges == moment - authPurge > AuthWindow
      known == [b \in Auth |-> IF purges /\ Forgets(seenAuths[b]) THEN Absent ELSE seenAuths[b]]
  IN /\ authPurge' = IF purges THEN moment ELSE authPurge
     /\ IF known[a] = Absent
        THEN /\ seenAuths' = [known EXCEPT ![a] = moment]
             /\ ran' = [ran EXCEPT ![a][process] = @ + 1]
        ELSE /\ seenAuths' = known
             /\ UNCHANGED ran

\* VerifyRunAuthorization and the run it lets through.
Verify(a) == Fresh(a) /\ Authentic(a) /\ Accepted(a)

-----------------------------------------------------------------------------
(* Requests. *)

\* AuthenticateKey: the credential is in the set as it stands now.
Holds(c) == c \in keys

\* rpcHandler and streamHandler: a method is open when the configuration opens
\* its kind, otherwise the credential must be in the key set.
Passes(c, kind) == (kind \in DOMAIN public /\ public[kind]) \/ Holds(c)

\* A request over the limit is refused before anything looks at it.
RefuseRequest(c) ==
  /\ Allow(c, FALSE)
  /\ UNCHANGED <<moment, keys, public, authVars, process>>

\* A read, a request without the credential its method needs, or one whose
\* authorization does not verify: only the limiter changes.
ServeRead(c, kind) ==
  /\ Requests < MaxRequests
  /\ kind = "writes" => ~Passes(c, kind)
  /\ Allow(c, TRUE)
  /\ UNCHANGED <<moment, keys, public, authVars, process>>

\* authorizeRun: a run with an authorization is verified. One without is for a
\* node that takes runs from its key holders only, and is not recorded here.
ServeRun(c, a) ==
  /\ Requests < MaxRequests
  /\ Passes(c, "writes")
  /\ Allow(c, TRUE)
  /\ Verify(a)
  /\ UNCHANGED <<moment, keys, public, process>>

\* ReplaceKeys: the next set, never an empty one, in one step.
ReplaceKeys ==
  /\ \E next \in (SUBSET Key) \ {{}} : next # keys /\ keys' = next
  /\ UNCHANGED <<moment, limiterVars, public, authVars, process>>

AccessTick ==
  /\ moment < MaxMoment
  /\ moment' = moment + 1
  /\ UNCHANGED <<limiterVars, keys, public, authVars, process>>

\* Buckets and acceptances are in memory.
AccessRestart ==
  /\ process < MaxRestarts
  /\ process' = process + 1
  /\ buckets' = [c \in Client |-> Absent]
  /\ lastPurge' = moment
  /\ admittedSince' = [c \in Client |-> [t \in 0 .. MaxMoment |-> 0]]
  /\ seenAuths' = [a \in Auth |-> Absent]
  /\ authPurge' = 0
  /\ keys' = Key
  /\ UNCHANGED <<moment, public, ran>>

AccessNext ==
  \/ \E c \in Client :
       \/ RefuseRequest(c)
       \/ \E kind \in {"reads", "writes", "keyed"} : ServeRead(c, kind)
       \/ \E a \in Auth : ServeRun(c, a)
  \/ ReplaceKeys
  \/ AccessTick
  \/ AccessRestart

AccessSpec == AccessInit /\ [][AccessNext]_accessVars

-----------------------------------------------------------------------------
(* Properties. *)

\* In no window of time does a caller get more than a full bucket and what the
\* bucket gained meanwhile, whatever buckets other callers' requests purged.
\* It holds where IdleTTL fills a bucket, as a purged one comes back full.
WithinRate ==
  \A c \in Client : \A s \in 0 .. moment :
    Cost * admittedSince[c][s] <= Burst + Refill * (moment - s)

\* An authorization not dated ahead of the clock is run once in the life of a
\* process: it is remembered for as long as it is fresh.
SingleUse == \A a \in Auth : SignedAt[a] <= AuthWindow => \A p \in 0 .. process : ran[a][p] <= 1
=============================================================================
