--------------------------- MODULE RequestProofs ---------------------------
(***************************************************************************)
(* Theorems about what a client's request meets at a node, for every set   *)
(* of clients, keys, files and peers and every bound: the process that     *)
(* serves it (Lifecycle, Watchdog), its caller's rate, the authorization   *)
(* and the idempotency key it carries (Access, Gateway), the buyer's own   *)
(* program (Purchase), and what the answer costs (Metering).               *)
(***************************************************************************)
EXTENDS MCInference, SumProofs, SequenceTheorems, TLAPS

-----------------------------------------------------------------------------
(* Lifecycle: what is at work uses what is open. *)

Servers == {"admin", "market", "ethrpc", "inference", "agents", "connect"}
Loops == {"exchange loops", "engine loops", "dialer", "announcer", "sweeps", "watcher"}

\* Everything that is at work or may begin to be.
Live == loops \cup listening \cup atWork

\* Start goes through its steps in this order.
Ordered ==
  /\ "genesis" \in began => "store" \in began /\ "market ledger" \in began
  /\ "host" \in began <=> "transport" \in began
  /\ "transport" \in began => "genesis" \in began
  /\ "exchange" \in began => "transport" \in began
  /\ "identity" \in began => "exchange" \in began
  /\ "bridge" \in began => "identity" \in began
  /\ "engine" \in began => "bridge" \in began
  /\ "dialer" \in began => "engine" \in began
  /\ "authenticator" \in began => "dialer" \in began
  /\ "coordinators" \in began => "authenticator" \in began
  /\ "inference" \in began => "coordinators" \in began
  /\ "sweeps" \in began => "inference" \in began
  /\ "run authorization" \in began => "sweeps" \in began
  /\ "agent manager" \in began => "run authorization" \in began
  /\ "connect" \in began => "agent manager" \in began

\* What Stop has waited for is not there any more.
Gone ==
  /\ stopped >= 1 => "watcher" \notin Live
  /\ stopped >= 2 /\ ~watched => "ethrpc" \notin Live
  /\ stopped >= 4 => "agents" \notin Live
  /\ stopped >= 5 => "inference" \notin Live
  /\ stopped >= 6 => "market" \notin Live
  /\ stopped >= 7 => "admin" \notin Live
  /\ stopped >= 8 => "exchange loops" \notin Live /\ "engine loops" \notin Live

ConfigShape ==
  /\ file \in Files
  /\ conf = [parses |-> conf.parses, acls |-> conf.acls, entries |-> conf.entries]

\* The first resource is closed when eight steps of Stop are done.
LifeInv ==
  /\ stage \in {"off", "starting", "running", "stopping"}
  /\ stopped \in Nat
  /\ loops \subseteq Loops /\ listening \subseteq Servers /\ atWork \subseteq Loops \cup Servers
  /\ watched \in BOOLEAN /\ cancelled \in BOOLEAN
  /\ ConfigShape
  /\ stage # "stopping" => stopped = 0 /\ ~cancelled
  /\ stage = "off" => began = {} /\ Live = {}
  /\ stage = "starting" => Ordered
  /\ stopped <= 8 => \A a \in Live : Uses(a) \subseteq began
  /\ stopped < 7 /\ ~watched => ~cancelled
  /\ stage = "stopping" => Gone
  /\ KeysInForce

LEMMA UsesOf ==
  /\ Uses("exchange loops") = {"store", "transport", "market ledger"}
  /\ Uses("engine loops") = {"store", "transport", "market ledger", "genesis", "bridge", "identity"}
  /\ Uses("watcher") = {"store", "engine", "bridge"}
  /\ Uses("dialer") = {"host"}
  /\ Uses("admin") = {"authenticator"}
  /\ Uses("market") = {"authenticator", "coordinators", "store", "engine", "exchange", "bridge"}
  /\ Uses("ethrpc") = {"engine", "store"}
  /\ Uses("inference") = {"authenticator", "inference", "run authorization", "engine", "store", "transport"}
  /\ Uses("agents") = {"authenticator", "agent manager", "engine", "store"}
  /\ Uses("connect") = {"authenticator", "coordinators", "inference", "agent manager", "engine", "store"}
  /\ Uses("announcer") = {"exchange", "market ledger", "transport"}
  /\ Uses("sweeps") = {"inference", "engine", "store", "market ledger"}
  BY DEF Uses

\* A step of Start that comes in its turn, and whose goroutines and servers have what they
\* use.
LEMMA StartingKeeps ==
  ASSUME LifeInv, stage = "starting", stage' \in {"starting", "running"},
         UNCHANGED <<watched, atWork, cancelled, stopped, file, conf>>,
         began \subseteq began', loops' \subseteq Loops, listening' \subseteq Servers,
         \A a \in (loops' \ loops) \cup (listening' \ listening) : Uses(a) \subseteq began',
         Ordered', KeysInForce'
  PROVE  LifeInv'
<1>1. stopped' = 0 /\ ~cancelled' /\ stage' # "off" /\ stage' # "stopping" /\ ConfigShape'
  BY DEF LifeInv, ConfigShape
<1>2. \A a \in Live' : Uses(a) \subseteq began'
  BY <1>1 DEF LifeInv, Live
<1> QED BY <1>1, <1>2 DEF LifeInv

LEMMA StartStoresKeeps ==
  ASSUME LifeInv, StartStores
  PROVE  LifeInv'
<1>1. /\ stage = "starting" /\ stage' = "starting" /\ began' = {"store", "market ledger", "genesis"}
      /\ UNCHANGED <<loops, listening, atWork, cancelled, stopped, watched, file, conf, inForce>>
      /\ began = {}
  BY DEF StartStores, Rest
<1>2. Live' = Live /\ ConfigShape' /\ Ordered' /\ KeysInForce'
  BY <1>1 DEF LifeInv, Live, ConfigShape, Ordered, KeysInForce
<1> QED BY <1>1, <1>2 DEF LifeInv

LEMMA StartNetworkKeeps ==
  ASSUME LifeInv, StartNetwork
  PROVE  LifeInv'
<1>1. /\ stage = "starting" /\ stage' = "starting" /\ Ordered /\ "genesis" \in began
      /\ began' = began \cup {"host", "transport"} /\ loops' = loops \cup {}
      /\ listening' = listening \cup {}
      /\ UNCHANGED <<watched, atWork, cancelled, stopped, file, conf>>
      /\ inForce' = inForce
  BY DEF StartNetwork, Bring, LifeInv
<1>2. Ordered'
  BY <1>1 DEF Ordered
<1>3. KeysInForce'
  BY <1>1 DEF LifeInv, KeysInForce
<1>4. loops' \subseteq Loops /\ listening' \subseteq Servers /\ began \subseteq began'
  BY <1>1 DEF LifeInv, Loops, Servers
<1>5. (loops' \ loops) \cup (listening' \ listening) = {}
  BY <1>1
<1> QED BY <1>1, <1>2, <1>3, <1>4, <1>5, StartingKeeps

LEMMA StartExchangeKeeps ==
  ASSUME LifeInv, StartExchange
  PROVE  LifeInv'
<1>1. /\ stage = "starting" /\ stage' = "starting" /\ Ordered /\ "transport" \in began
      /\ began' = began \cup {"exchange"} /\ loops' = loops \cup {"exchange loops"}
      /\ listening' = listening \cup {}
      /\ UNCHANGED <<watched, atWork, cancelled, stopped, file, conf>>
      /\ inForce' = inForce
  BY DEF StartExchange, Bring, LifeInv
<1>2. Ordered'
  BY <1>1 DEF Ordered
<1>3. KeysInForce'
  BY <1>1 DEF LifeInv, KeysInForce
<1>4. Uses("exchange loops") \subseteq began'
  BY <1>1, <1>2, UsesOf DEF Ordered
<1>5. loops' \subseteq Loops /\ listening' \subseteq Servers /\ began \subseteq began'
  BY <1>1 DEF LifeInv, Loops, Servers
<1>6. \A a \in (loops' \ loops) \cup (listening' \ listening) : Uses(a) \subseteq began'
  BY <1>1, <1>4
<1> QED BY <1>1, <1>2, <1>3, <1>5, <1>6, StartingKeeps

LEMMA StartIdentityKeeps ==
  ASSUME LifeInv, StartIdentity
  PROVE  LifeInv'
<1>1. /\ stage = "starting" /\ stage' = "starting" /\ Ordered /\ "exchange" \in began
      /\ began' = began \cup {"identity"} /\ loops' = loops \cup {}
      /\ listening' = listening \cup {}
      /\ UNCHANGED <<watched, atWork, cancelled, stopped, file, conf>>
      /\ inForce' = inForce
  BY DEF StartIdentity, Bring, LifeInv
<1>2. Ordered'
  BY <1>1 DEF Ordered
<1>3. KeysInForce'
  BY <1>1 DEF LifeInv, KeysInForce
<1>4. loops' \subseteq Loops /\ listening' \subseteq Servers /\ began \subseteq began'
  BY <1>1 DEF LifeInv, Loops, Servers
<1>5. (loops' \ loops) \cup (listening' \ listening) = {}
  BY <1>1
<1> QED BY <1>1, <1>2, <1>3, <1>4, <1>5, StartingKeeps

LEMMA StartBridgeKeeps ==
  ASSUME LifeInv, StartBridge
  PROVE  LifeInv'
<1>1. /\ stage = "starting" /\ stage' = "starting" /\ Ordered /\ "identity" \in began
      /\ began' = began \cup {"bridge"} /\ loops' = loops \cup {}
      /\ listening' = listening \cup {}
      /\ UNCHANGED <<watched, atWork, cancelled, stopped, file, conf>>
      /\ inForce' = inForce
  BY DEF StartBridge, Bring, LifeInv
<1>2. Ordered'
  BY <1>1 DEF Ordered
<1>3. KeysInForce'
  BY <1>1 DEF LifeInv, KeysInForce
<1>4. loops' \subseteq Loops /\ listening' \subseteq Servers /\ began \subseteq began'
  BY <1>1 DEF LifeInv, Loops, Servers
<1>5. (loops' \ loops) \cup (listening' \ listening) = {}
  BY <1>1
<1> QED BY <1>1, <1>2, <1>3, <1>4, <1>5, StartingKeeps

LEMMA StartEngineKeeps ==
  ASSUME LifeInv, StartEngine
  PROVE  LifeInv'
<1>1. /\ stage = "starting" /\ stage' = "starting" /\ Ordered /\ "bridge" \in began
      /\ began' = began \cup {"engine"} /\ loops' = loops \cup {"engine loops"}
      /\ listening' = listening \cup {}
      /\ UNCHANGED <<watched, atWork, cancelled, stopped, file, conf>>
      /\ inForce' = inForce
  BY DEF StartEngine, Bring, LifeInv
<1>2. Ordered'
  BY <1>1 DEF Ordered
<1>3. KeysInForce'
  BY <1>1 DEF LifeInv, KeysInForce
<1>4. Uses("engine loops") \subseteq began'
  BY <1>1, <1>2, UsesOf DEF Ordered
<1>5. loops' \subseteq Loops /\ listening' \subseteq Servers /\ began \subseteq began'
  BY <1>1 DEF LifeInv, Loops, Servers
<1>6. \A a \in (loops' \ loops) \cup (listening' \ listening) : Uses(a) \subseteq began'
  BY <1>1, <1>4
<1> QED BY <1>1, <1>2, <1>3, <1>5, <1>6, StartingKeeps

LEMMA StartDialerKeeps ==
  ASSUME LifeInv, StartDialer
  PROVE  LifeInv'
<1>1. /\ stage = "starting" /\ stage' = "starting" /\ Ordered /\ "engine" \in began
      /\ began' = began \cup {"dialer"} /\ loops' = loops \cup {"dialer"}
      /\ listening' = listening \cup {}
      /\ UNCHANGED <<watched, atWork, cancelled, stopped, file, conf>>
      /\ inForce' = inForce
  BY DEF StartDialer, Bring, LifeInv
<1>2. Ordered'
  BY <1>1 DEF Ordered
<1>3. KeysInForce'
  BY <1>1 DEF LifeInv, KeysInForce
<1>4. Uses("dialer") \subseteq began'
  BY <1>1, <1>2, UsesOf DEF Ordered
<1>5. loops' \subseteq Loops /\ listening' \subseteq Servers /\ began \subseteq began'
  BY <1>1 DEF LifeInv, Loops, Servers
<1>6. \A a \in (loops' \ loops) \cup (listening' \ listening) : Uses(a) \subseteq began'
  BY <1>1, <1>4
<1> QED BY <1>1, <1>2, <1>3, <1>5, <1>6, StartingKeeps

LEMMA StartAdminKeeps ==
  ASSUME LifeInv, StartAdmin
  PROVE  LifeInv'
<1>1. /\ stage = "starting" /\ stage' = "starting" /\ Ordered /\ "dialer" \in began
      /\ began' = began \cup {"authenticator"} /\ loops' = loops \cup {}
      /\ listening' = listening \cup {"admin"}
      /\ UNCHANGED <<watched, atWork, cancelled, stopped, file, conf>>
      /\ inForce' = Added(FromConfig(conf))
  BY DEF StartAdmin, Bring, LifeInv
<1>2. Ordered'
  BY <1>1 DEF Ordered
<1>3. KeysInForce'
  BY <1>1 DEF LifeInv, KeysInForce
<1>4. Uses("admin") \subseteq began'
  BY <1>1, <1>2, UsesOf DEF Ordered
<1>5. loops' \subseteq Loops /\ listening' \subseteq Servers /\ began \subseteq began'
  BY <1>1 DEF LifeInv, Loops, Servers
<1>6. \A a \in (loops' \ loops) \cup (listening' \ listening) : Uses(a) \subseteq began'
  BY <1>1, <1>4
<1> QED BY <1>1, <1>2, <1>3, <1>5, <1>6, StartingKeeps

LEMMA StartMarketKeeps ==
  ASSUME LifeInv, StartMarket
  PROVE  LifeInv'
<1>1. /\ stage = "starting" /\ stage' = "starting" /\ Ordered /\ "authenticator" \in began
      /\ began' = began \cup {"coordinators"} /\ loops' = loops \cup {}
      /\ listening' = listening \cup {"market"}
      /\ UNCHANGED <<watched, atWork, cancelled, stopped, file, conf>>
      /\ inForce' = inForce
  BY DEF StartMarket, Bring, LifeInv
<1>2. Ordered'
  BY <1>1 DEF Ordered
<1>3. KeysInForce'
  BY <1>1 DEF LifeInv, KeysInForce
<1>4. Uses("market") \subseteq began'
  BY <1>1, <1>2, UsesOf DEF Ordered
<1>5. loops' \subseteq Loops /\ listening' \subseteq Servers /\ began \subseteq began'
  BY <1>1 DEF LifeInv, Loops, Servers
<1>6. \A a \in (loops' \ loops) \cup (listening' \ listening) : Uses(a) \subseteq began'
  BY <1>1, <1>4
<1> QED BY <1>1, <1>2, <1>3, <1>5, <1>6, StartingKeeps

LEMMA StartInferenceKeeps ==
  ASSUME LifeInv, StartInference
  PROVE  LifeInv'
<1>1. /\ stage = "starting" /\ stage' = "starting" /\ Ordered /\ "coordinators" \in began
      /\ began' = began \cup {"inference"} /\ loops' = loops \cup {}
      /\ listening' = listening \cup {}
      /\ UNCHANGED <<watched, atWork, cancelled, stopped, file, conf>>
      /\ inForce' = inForce
  BY DEF StartInference, Bring, LifeInv
<1>2. Ordered'
  BY <1>1 DEF Ordered
<1>3. KeysInForce'
  BY <1>1 DEF LifeInv, KeysInForce
<1>4. loops' \subseteq Loops /\ listening' \subseteq Servers /\ began \subseteq began'
  BY <1>1 DEF LifeInv, Loops, Servers
<1>5. (loops' \ loops) \cup (listening' \ listening) = {}
  BY <1>1
<1> QED BY <1>1, <1>2, <1>3, <1>4, <1>5, StartingKeeps

LEMMA StartSweepsKeeps ==
  ASSUME LifeInv, StartSweeps
  PROVE  LifeInv'
<1>1. /\ stage = "starting" /\ stage' = "starting" /\ Ordered /\ "inference" \in began
      /\ began' = began \cup {"sweeps"} /\ loops' = loops \cup {"announcer", "sweeps"}
      /\ listening' = listening \cup {"ethrpc"}
      /\ UNCHANGED <<watched, atWork, cancelled, stopped, file, conf>>
      /\ inForce' = inForce
  BY DEF StartSweeps, Bring, LifeInv
<1>2. Ordered'
  BY <1>1 DEF Ordered
<1>3. KeysInForce'
  BY <1>1 DEF LifeInv, KeysInForce
<1>4. /\ Uses("announcer") \subseteq began' /\ Uses("sweeps") \subseteq began'
      /\ Uses("ethrpc") \subseteq began'
  BY <1>1, <1>2, UsesOf DEF Ordered
<1>5. loops' \subseteq Loops /\ listening' \subseteq Servers /\ began \subseteq began'
  BY <1>1 DEF LifeInv, Loops, Servers
<1>6. \A a \in (loops' \ loops) \cup (listening' \ listening) : Uses(a) \subseteq began'
  BY <1>1, <1>4
<1> QED BY <1>1, <1>2, <1>3, <1>5, <1>6, StartingKeeps

LEMMA StartInferenceServerKeeps ==
  ASSUME LifeInv, StartInferenceServer
  PROVE  LifeInv'
<1>1. /\ stage = "starting" /\ stage' = "starting" /\ Ordered /\ "sweeps" \in began
      /\ began' = began \cup {"run authorization"} /\ loops' = loops \cup {}
      /\ listening' = listening \cup {"inference"}
      /\ UNCHANGED <<watched, atWork, cancelled, stopped, file, conf>>
      /\ inForce' = inForce
  BY DEF StartInferenceServer, Bring, LifeInv
<1>2. Ordered'
  BY <1>1 DEF Ordered
<1>3. KeysInForce'
  BY <1>1 DEF LifeInv, KeysInForce
<1>4. Uses("inference") \subseteq began'
  BY <1>1, <1>2, UsesOf DEF Ordered
<1>5. loops' \subseteq Loops /\ listening' \subseteq Servers /\ began \subseteq began'
  BY <1>1 DEF LifeInv, Loops, Servers
<1>6. \A a \in (loops' \ loops) \cup (listening' \ listening) : Uses(a) \subseteq began'
  BY <1>1, <1>4
<1> QED BY <1>1, <1>2, <1>3, <1>5, <1>6, StartingKeeps

LEMMA StartAgentsKeeps ==
  ASSUME LifeInv, StartAgents
  PROVE  LifeInv'
<1>1. /\ stage = "starting" /\ stage' = "starting" /\ Ordered /\ "run authorization" \in began
      /\ began' = began \cup {"agent manager"} /\ loops' = loops \cup {}
      /\ listening' = listening \cup {"agents"}
      /\ UNCHANGED <<watched, atWork, cancelled, stopped, file, conf>>
      /\ inForce' = inForce
  BY DEF StartAgents, Bring, LifeInv
<1>2. Ordered'
  BY <1>1 DEF Ordered
<1>3. KeysInForce'
  BY <1>1 DEF LifeInv, KeysInForce
<1>4. Uses("agents") \subseteq began'
  BY <1>1, <1>2, UsesOf DEF Ordered
<1>5. loops' \subseteq Loops /\ listening' \subseteq Servers /\ began \subseteq began'
  BY <1>1 DEF LifeInv, Loops, Servers
<1>6. \A a \in (loops' \ loops) \cup (listening' \ listening) : Uses(a) \subseteq began'
  BY <1>1, <1>4
<1> QED BY <1>1, <1>2, <1>3, <1>5, <1>6, StartingKeeps

LEMMA StartConnectKeeps ==
  ASSUME LifeInv, StartConnect
  PROVE  LifeInv'
<1>1. /\ stage = "starting" /\ stage' = "starting" /\ Ordered /\ "agent manager" \in began
      /\ began' = began \cup {"connect"} /\ loops' = loops \cup {}
      /\ listening' = listening \cup {"connect"}
      /\ UNCHANGED <<watched, atWork, cancelled, stopped, file, conf>>
      /\ inForce' = inForce
  BY DEF StartConnect, Bring, LifeInv
<1>2. Ordered'
  BY <1>1 DEF Ordered
<1>3. KeysInForce'
  BY <1>1 DEF LifeInv, KeysInForce
<1>4. Uses("connect") \subseteq began'
  BY <1>1, <1>2, UsesOf DEF Ordered
<1>5. loops' \subseteq Loops /\ listening' \subseteq Servers /\ began \subseteq began'
  BY <1>1 DEF LifeInv, Loops, Servers
<1>6. \A a \in (loops' \ loops) \cup (listening' \ listening) : Uses(a) \subseteq began'
  BY <1>1, <1>4
<1> QED BY <1>1, <1>2, <1>3, <1>5, <1>6, StartingKeeps

LEMMA StartWatcherKeeps ==
  ASSUME LifeInv, StartWatcher
  PROVE  LifeInv'
<1>1. /\ stage = "starting" /\ stage' = "running" /\ Ordered /\ "connect" \in began
      /\ began' = began \cup {"watcher"} /\ loops' = loops \cup (IF watched THEN {"watcher"} ELSE {})
      /\ listening' = listening \cup {}
      /\ UNCHANGED <<watched, atWork, cancelled, stopped, file, conf>>
      /\ inForce' = inForce
  BY DEF StartWatcher, Bring, LifeInv
<1>2. Ordered'
  BY <1>1 DEF Ordered
<1>3. KeysInForce'
  BY <1>1 DEF LifeInv, KeysInForce
<1>4. Uses("watcher") \subseteq began'
  BY <1>1, <1>2, UsesOf DEF Ordered
<1>5. loops' \subseteq Loops /\ listening' \subseteq Servers /\ began \subseteq began'
  BY <1>1 DEF LifeInv, Loops, Servers
<1>6. \A a \in (loops' \ loops) \cup (listening' \ listening) : Uses(a) \subseteq began'
  BY <1>1, <1>4
<1> QED BY <1>1, <1>2, <1>3, <1>5, <1>6, StartingKeeps

\* Work that begins was already live; nothing else that runs is added.
LEMMA WorkKeeps ==
  ASSUME LifeInv, Live' \subseteq Live, loops' \subseteq loops, listening' \subseteq listening,
         atWork' \subseteq Loops \cup Servers, UNCHANGED <<stage, began, cancelled, stopped, Rest>>
  PROVE  LifeInv'
<1>1. UNCHANGED <<stage, began, cancelled, stopped, watched, file, conf, inForce>>
  BY DEF Rest
<1>2. Gone => Gone'
  BY <1>1 DEF Gone
<1>3. ConfigShape' /\ KeysInForce' /\ (Ordered => Ordered')
  BY <1>1 DEF LifeInv, ConfigShape, KeysInForce, Ordered
<1>4. stage' = "off" => Live' = {}
  BY <1>1 DEF LifeInv
<1> QED BY <1>1, <1>2, <1>3, <1>4 DEF LifeInv

LEMMA RoundKeeps ==
  ASSUME LifeInv, NEW a, \/ a \in loops \cup listening /\ BeginRound(a)
                         \/ FinishRound(a) \/ LeaveLoop(a) \/ Refuse(a)
  PROVE  LifeInv'
<1>1. CASE a \in loops \cup listening /\ BeginRound(a)
  BY <1>1, WorkKeeps DEF BeginRound, Live, LifeInv
<1>2. CASE FinishRound(a)
  BY <1>2, WorkKeeps DEF FinishRound, Live, LifeInv
<1>3. CASE LeaveLoop(a)
  BY <1>3, WorkKeeps DEF LeaveLoop, Live, LifeInv
<1>4. CASE Refuse(a)
  BY <1>4, WorkKeeps DEF Refuse, Live, LifeInv
<1> QED BY <1>1, <1>2, <1>3, <1>4

\* Only the last three steps of Stop close something.
LEMMA DoneKeeps ==
  ASSUME LifeInv, NEW what, NEW waitsFor, NEW closes, Done(what, waitsFor, closes),
         stopped < 8 => closes = {}, "authenticator" \notin closes, Gone'
  PROVE  LifeInv'
<1>1. /\ stage = "stopping" /\ stopped' = stopped + 1 /\ began' = began \ closes
      /\ UNCHANGED <<stage, loops, listening, atWork, cancelled, watched, file, conf, inForce>>
  BY DEF Done, Turn, Rest
<1>2. Live' = Live /\ ConfigShape' /\ KeysInForce'
  BY <1>1 DEF LifeInv, Live, ConfigShape, KeysInForce
<1>3. stopped' <= 8 => \A a \in Live' : Uses(a) \subseteq began'
  <2>1. stopped' <= 8 => closes = {} /\ stopped <= 8
    BY <1>1 DEF LifeInv
  <2> QED BY <1>1, <1>2, <2>1 DEF LifeInv
<1>4. stopped' < 7 /\ ~watched' => ~cancelled'
  BY <1>1 DEF LifeInv
<1> QED BY <1>1, <1>2, <1>3, <1>4 DEF LifeInv

LEMMA TurnOf ==
  ASSUME LifeInv, NEW what, Turn(what)
  PROVE  /\ stopped \in 0 .. 10 /\ what = StopOrder[stopped + 1]
         /\ what = "watcher" => stopped = 0
         /\ what = "ethrpc" => stopped = 1
         /\ what = "connect" => stopped = 2
         /\ what = "agents" => stopped = 3
         /\ what = "inference" => stopped = 4
         /\ what = "market" => stopped = 5
         /\ what = "admin" => stopped = 6
         /\ what = "loops" => stopped = 7
         /\ what \in {"transport", "host", "store"} => stopped >= 8
<1>1. stopped \in Nat /\ stopped < Len(StopOrder) /\ what = StopOrder[stopped + 1]
  BY DEF LifeInv, Turn
<1>2. stopped \in 0 .. 10
  BY <1>1 DEF StopOrder
<1> QED BY <1>1, <1>2 DEF StopOrder

LEMMA StopKeeps ==
  ASSUME LifeInv,
         \/ StopWatcher \/ StopEthRPC \/ StopConnect \/ WaitForLoops
         \/ \E server \in {"agents", "inference", "market", "admin"} : StopServer(server)
  PROVE  LifeInv'
<1>1. PICK what, waitsFor :
        /\ Done(what, waitsFor, {})
        /\ what = "watcher" => waitsFor = {"watcher"}
        /\ what = "ethrpc" /\ ~cancelled => waitsFor = {"ethrpc"}
        /\ what \in {"agents", "inference", "market", "admin"} => waitsFor = {what}
        /\ what = "loops" => waitsFor = {"exchange loops", "engine loops"}
        /\ what \in {"watcher", "ethrpc", "connect", "agents", "inference", "market", "admin", "loops"}
  <2>1. CASE StopWatcher
    BY <2>1 DEF StopWatcher
  <2>2. CASE StopEthRPC
    BY <2>2 DEF StopEthRPC
  <2>3. CASE StopConnect
    BY <2>3 DEF StopConnect
  <2>4. CASE WaitForLoops
    BY <2>4 DEF WaitForLoops
  <2>5. CASE \E server \in {"agents", "inference", "market", "admin"} : StopServer(server)
    BY <2>5 DEF StopServer
  <2> QED BY <2>1, <2>2, <2>3, <2>4, <2>5
<1>2. /\ Turn(what) /\ stage = "stopping" /\ what \notin listening
      /\ waitsFor \cap (loops \cup atWork) = {} /\ stopped' = stopped + 1
      /\ UNCHANGED <<loops, listening, atWork, cancelled, watched>>
  BY <1>1 DEF Done, Turn, Rest
<1>3. stopped \in 0 .. 10 /\ Gone /\ listening \subseteq Servers
  BY <1>2, TurnOf DEF LifeInv
<1>4. "exchange loops" \notin listening /\ "engine loops" \notin listening
  BY <1>3 DEF Servers
<1>5. stopped = 1 /\ ~watched => ~cancelled
  BY DEF LifeInv
<1>6. /\ stopped = 0 => what = "watcher"
      /\ stopped = 1 => what = "ethrpc"
      /\ stopped = 3 => what = "agents"
      /\ stopped = 4 => what = "inference"
      /\ stopped = 5 => what = "market"
      /\ stopped = 6 => what = "admin"
      /\ stopped = 7 => what = "loops"
  <2>1. what = StopOrder[stopped + 1]
    BY <1>2, TurnOf
  <2> QED BY <2>1 DEF StopOrder
<1>7. Live' = Live
  BY <1>2 DEF Live
<1>8. Gone'
  <2>1. stopped = 0 => "watcher" \notin Live
    BY <1>1, <1>2, <1>6 DEF Live
  <2>2. stopped = 1 /\ ~watched => "ethrpc" \notin Live
    BY <1>1, <1>2, <1>5, <1>6 DEF Live
  <2>3. /\ stopped = 3 => "agents" \notin Live
        /\ stopped = 4 => "inference" \notin Live
        /\ stopped = 5 => "market" \notin Live
        /\ stopped = 6 => "admin" \notin Live
    <3>1. CASE stopped = 3
      BY <3>1, <1>1, <1>2, <1>6 DEF Live
    <3>2. CASE stopped = 4
      BY <3>2, <1>1, <1>2, <1>6 DEF Live
    <3>3. CASE stopped = 5
      BY <3>3, <1>1, <1>2, <1>6 DEF Live
    <3>4. CASE stopped = 6
      BY <3>4, <1>1, <1>2, <1>6 DEF Live
    <3> QED BY <3>1, <3>2, <3>3, <3>4
  <2>4. stopped = 7 => "exchange loops" \notin Live /\ "engine loops" \notin Live
    BY <1>1, <1>2, <1>4, <1>6 DEF Live
  <2>5. stopped' = stopped + 1 /\ watched' = watched /\ Live' = Live
    BY <1>2, <1>7
  <2>6. /\ stopped' >= 1 => stopped = 0 \/ stopped >= 1
        /\ stopped' >= 2 => stopped = 1 \/ stopped >= 2
        /\ stopped' >= 4 => stopped = 3 \/ stopped >= 4
        /\ stopped' >= 5 => stopped = 4 \/ stopped >= 5
        /\ stopped' >= 6 => stopped = 5 \/ stopped >= 6
        /\ stopped' >= 7 => stopped = 6 \/ stopped >= 7
        /\ stopped' >= 8 => stopped = 7 \/ stopped >= 8
    BY <1>3, <2>5
  <2>7. /\ stopped' >= 1 => "watcher" \notin Live
        /\ stopped' >= 2 /\ ~watched => "ethrpc" \notin Live
        /\ stopped' >= 4 => "agents" \notin Live
        /\ stopped' >= 5 => "inference" \notin Live
        /\ stopped' >= 6 => "market" \notin Live
        /\ stopped' >= 7 => "admin" \notin Live
        /\ stopped' >= 8 => "exchange loops" \notin Live /\ "engine loops" \notin Live
    BY <1>3, <2>1, <2>2, <2>3, <2>4, <2>6 DEF Gone
  <2> QED BY <2>5, <2>7 DEF Gone
<1> QED BY <1>1, <1>8, DoneKeeps

LEMMA CloseKeeps ==
  ASSUME LifeInv, Close
  PROVE  LifeInv'
<1>1. PICK resource \in {"transport", "host", "store"} : Done(resource, {}, {resource})
  BY DEF Close
<1>2. Turn(resource) /\ UNCHANGED <<loops, listening, atWork, watched>> /\ stopped' = stopped + 1
  BY <1>1 DEF Done, Rest
<1>3. stopped >= 8 /\ stopped \in Nat /\ Gone
  BY <1>2, TurnOf DEF LifeInv, Turn
<1>4. Gone'
  <2>1. stopped' >= 8 /\ Live' = Live /\ watched' = watched
    BY <1>2, <1>3 DEF Live
  <2>2. /\ stopped >= 1 /\ stopped >= 2 /\ stopped >= 4 /\ stopped >= 5 /\ stopped >= 6
        /\ stopped >= 7 /\ stopped >= 8
    BY <1>3
  <2> QED BY <1>3, <2>1, <2>2 DEF Gone
<1>5. stopped < 8 => {resource} = {}
  BY <1>3
<1> QED BY <1>1, <1>4, <1>5, DoneKeeps

LEMMA SignalKeeps ==
  ASSUME LifeInv, BeginStop \/ CancelLoops
  PROVE  LifeInv'
<1>1. /\ UNCHANGED <<began, loops, listening, atWork, stopped, watched, file, conf, inForce>>
      /\ stage' = "stopping" /\ cancelled' \in BOOLEAN /\ stage # "off"
  BY DEF BeginStop, CancelLoops, Turn, Rest, LifeInv
<1>2. ConfigShape' /\ KeysInForce' /\ Live' = Live
  BY <1>1 DEF LifeInv, ConfigShape, KeysInForce, Live
<1>3. Gone' /\ (stopped' < 7 /\ ~watched' => ~cancelled')
  <2>1. CASE BeginStop
    <3>1. stopped = 0 /\ cancelled' = watched
      BY <2>1 DEF BeginStop, LifeInv
    <3> QED BY <1>1, <3>1 DEF Gone
  <2>2. CASE CancelLoops
    <3>1. stopped = 7 /\ Gone
      BY <2>2, TurnOf DEF CancelLoops, LifeInv, Turn
    <3> QED BY <1>1, <1>2, <3>1 DEF Gone
  <2> QED BY <2>1, <2>2
<1> QED BY <1>1, <1>2, <1>3 DEF LifeInv

\* The keys and the config of the process.
LEMMA ConfigKeeps ==
  ASSUME LifeInv, NewNode \/ ReloadAPIKeys \/ (\E f \in Files : Edit(f))
  PROVE  LifeInv'
<1>1. CASE NewNode
  <2>1. /\ stage = "off" /\ stage' = "starting" /\ conf' = file /\ watched' \in BOOLEAN
        /\ UNCHANGED <<began, loops, listening, atWork, cancelled, stopped, file, inForce>>
    BY <1>1 DEF NewNode
  <2>2. began' = {} /\ Live' = {}
    BY <2>1 DEF LifeInv, Live
  <2>3. ConfigShape'
    BY <2>1, LifecycleAssumption DEF LifeInv, ConfigShape
  <2>4. Ordered' /\ KeysInForce'
    BY <2>2 DEF Ordered, KeysInForce
  <2> QED BY <2>1, <2>2, <2>3, <2>4 DEF LifeInv
<1>2. CASE ReloadAPIKeys
  <2>1. /\ stage = "running" /\ file.acls = conf.acls
        /\ inForce' = Added(FromConfig(file))
        /\ conf' = [conf EXCEPT !.entries = file.entries]
        /\ UNCHANGED <<stage, began, loops, listening, atWork, cancelled, stopped, watched, file>>
    BY <1>2 DEF ReloadAPIKeys, machine
  <2>2. conf = [parses |-> conf.parses, acls |-> conf.acls, entries |-> conf.entries]
    BY DEF LifeInv, ConfigShape
  <2>3. conf' = [parses |-> conf.parses, acls |-> conf.acls, entries |-> file.entries]
    BY <2>1, <2>2
  <2>4. conf'.parses = conf.parses /\ conf'.acls = conf.acls /\ conf'.entries = file.entries
    BY <2>3
  <2>5. ConfigShape'
    BY <2>1, <2>3, <2>4 DEF LifeInv, ConfigShape
  <2>6. FromConfig(conf') = FromConfig(file)
    BY <2>1, <2>4 DEF FromConfig
  <2>7. KeysInForce'
    BY <2>1, <2>6 DEF KeysInForce
  <2>8. Live' = Live
    BY <2>1 DEF Live
  <2> QED BY <2>1, <2>5, <2>7, <2>8 DEF LifeInv
<1>3. ASSUME NEW f \in Files, Edit(f) PROVE LifeInv'
  <2>1. /\ UNCHANGED <<stage, began, loops, listening, atWork, cancelled, stopped, watched, conf, inForce>>
        /\ file' = f
    BY <1>3 DEF Edit, machine
  <2>2. Live' = Live
    BY <2>1 DEF Live
  <2>3. ConfigShape' /\ KeysInForce'
    BY <1>3, <2>1 DEF LifeInv, ConfigShape, KeysInForce
  <2>4. (Ordered => Ordered') /\ (Gone => Gone')
    BY <2>1, <2>2 DEF Ordered, Gone
  <2> QED BY <2>1, <2>2, <2>3, <2>4 DEF LifeInv
<1> QED BY <1>1, <1>2, <1>3

LEMMA ExitKeeps ==
  ASSUME LifeInv, Exit
  PROVE  LifeInv'
<1>1. /\ stage' = "off" /\ began' = {} /\ loops' = {} /\ listening' = {} /\ atWork' = {}
      /\ cancelled' = FALSE /\ stopped' = 0 /\ UNCHANGED <<watched, file, conf>>
  BY DEF Exit
<1>2. Live' = {} /\ ConfigShape' /\ KeysInForce'
  BY <1>1 DEF Live, LifeInv, ConfigShape, KeysInForce
<1> QED BY <1>1, <1>2 DEF LifeInv

LEMMA LifeInit == LifecycleInit => LifeInv
<1> SUFFICES ASSUME LifecycleInit PROVE LifeInv
  OBVIOUS
<1>1. ConfigShape
  BY LifecycleAssumption DEF LifecycleInit, ConfigShape
<1>2. Live = {} /\ KeysInForce
  BY DEF LifecycleInit, Live, KeysInForce
<1> QED BY <1>1, <1>2 DEF LifecycleInit, LifeInv

LEMMA LifeStep ==
  ASSUME LifeInv, [LifecycleNext]_lifecycleVars
  PROVE  LifeInv'
<1>1. CASE UNCHANGED lifecycleVars
  <2>1. UNCHANGED <<stage, began, cancelled, stopped, loops, listening, atWork, Rest>>
    BY <1>1 DEF lifecycleVars, machine, Rest
  <2>2. Live' = Live
    BY <2>1 DEF Live
  <2> QED BY <2>1, <2>2, WorkKeeps DEF LifeInv
<1>2. CASE LifecycleNext
  BY <1>2, ConfigKeeps, StartStoresKeeps, StartNetworkKeeps, StartExchangeKeeps, StartIdentityKeeps,
     StartBridgeKeeps, StartEngineKeeps, StartDialerKeeps, StartAdminKeeps, StartMarketKeeps,
     StartInferenceKeeps, StartSweepsKeeps, StartInferenceServerKeeps, StartAgentsKeeps,
     StartConnectKeeps, StartWatcherKeeps, RoundKeeps, SignalKeeps, StopKeeps, CloseKeeps, ExitKeeps
     DEF LifecycleNext
<1> QED BY <1>1, <1>2

\* Nothing of a node is at work on what has not been brought up, nor, if Stop waits for it, on
\* what has been closed, whatever signals arrive when; and the API keys in force are those of the
\* last config that was good (Node.Start, Node.Stop, ReloadAPIKeys).
THEOREM WorksOnOpen == LifecycleSpec => []NodeWhole
<1>1. LifeInv => NodeWhole
  <2> SUFFICES ASSUME LifeInv, NEW a \in atWork, stage # "stopping" \/ a \notin Unwaited
               PROVE  Uses(a) \subseteq began
    BY DEF LifeInv, NodeWhole, OnlyOnOpen
  <2>1. a \in Live /\ a \in Loops \cup Servers /\ stopped \in Nat
    BY DEF Live, LifeInv
  <2>2. CASE stopped <= 8
    BY <2>1, <2>2 DEF LifeInv
  <2>3. CASE stopped > 8
    <3>1. stage = "stopping" /\ Gone
      BY <2>3 DEF LifeInv
    <3>2. a \notin Unwaited
      BY <3>1
    <3>3. /\ a \notin {"watcher", "agents", "inference", "market", "admin"}
          /\ a \notin {"exchange loops", "engine loops"} /\ (~watched => a # "ethrpc")
      <4>1. /\ stopped >= 1 /\ stopped >= 2 /\ stopped >= 4 /\ stopped >= 5 /\ stopped >= 6
            /\ stopped >= 7 /\ stopped >= 8
        BY <2>1, <2>3
      <4> QED BY <2>1, <3>1, <4>1 DEF Gone
    <3>4. a \notin {"dialer", "announcer", "sweeps", "connect"} /\ (watched => a # "ethrpc")
      BY <3>2 DEF Unwaited
    <3> QED BY <2>1, <3>3, <3>4 DEF Loops, Servers
  <2> QED BY <2>1, <2>2, <2>3
<1> QED BY <1>1, LifeInit, LifeStep, PTL DEF LifecycleSpec


-----------------------------------------------------------------------------
(* Watchdog: what is told of a stall, and of a peer. *)

\* What the watch knows: the window is quiet for as long as writers were kept out, but for the
\* part of an interval before the first of them.
WindowInv ==
  /\ mutex \in {"free", "taken", "held", "leaving"} /\ pc \in {"idle", "counted", "clearing"}
  /\ acquired \in BOOLEAN /\ reported \in BOOLEAN /\ down \in BOOLEAN
  /\ waiting \in Nat /\ sinceSample \in 0 .. Interval
  /\ heldFor \in 0 .. Cap /\ denied \in 0 .. Cap /\ quiet \in 0 .. Cap
  /\ seen.waiting \in Nat /\ seen.denied \in Nat
  /\ mutex = "taken" => waiting > 0
  /\ mutex # "held" => heldFor = 0
  /\ waiting = 0 => denied = 0
  /\ acquired => denied <= sinceSample
  /\ denied <= quiet + Interval
  /\ pc # "idle" => sinceSample = 0
  /\ quiet > sinceSample /\ ~acquired => waiting > 0 /\ denied >= quiet - Interval
  /\ pc = "counted" /\ seen.waiting > 0 /\ quiet > 0 => seen.denied >= quiet - Interval
  /\ pc = "counted" /\ seen.waiting = 0 => quiet = 0

\* Until a stall is reported there is none that is older than the sample.
Punctual ==
  pc # "counted" /\ ~reported =>
    heldFor < Threshold + sinceSample /\ quiet < Threshold + sinceSample

Answered ==
  /\ health \in {"serving", "not serving"}
  /\ ~down /\ pc # "clearing" => (health = "serving" <=> ~reported)
  /\ ~down /\ pc = "clearing" => ~reported /\ health = "not serving"

WatchInv == WindowInv /\ Punctual /\ Answered

LEMMA OlderOne ==
  ASSUME NEW t \in 0 .. Cap
  PROVE  /\ Cap \in Nat /\ Interval < Cap
         /\ Older(t) \in 0 .. Cap /\ Older(t) >= t /\ Older(t) <= t + 1
         /\ t < Cap => Older(t) = t + 1
         /\ t = Cap => Older(t) = Cap
  BY WatchdogAssumption DEF Cap, Older

LEMMA LockKeeps ==
  ASSUME WatchInv, QueueWriter \/ TakeMutex \/ NoteHolder \/ ClearHolder \/ GiveUpMutex \/ Reading
  PROVE  WatchInv'
<1> USE DEF WatchInv
<1>1. /\ UNCHANGED <<sinceSample, pc, seen, quiet, reported, health, down>>
      /\ heldFor' \in {heldFor, 0} /\ denied' \in {denied, 0}
  BY DEF QueueWriter, TakeMutex, NoteHolder, ClearHolder, GiveUpMutex, Reading
<1>2. Cap \in Nat /\ Interval \in Nat
  BY WatchdogAssumption DEF Cap
<1>3. Punctual' /\ Answered'
  <2>1. heldFor < Threshold + sinceSample => heldFor' < Threshold + sinceSample
    BY <1>1, <1>2, WatchdogAssumption DEF WindowInv
  <2> QED BY <1>1, <2>1 DEF Punctual, Answered
<1>4. WindowInv'
  <2>1. CASE QueueWriter
    BY <2>1, <1>2 DEF QueueWriter, WindowInv
  <2>2. CASE TakeMutex
    BY <2>2, <1>2 DEF TakeMutex, WindowInv
  <2>3. CASE NoteHolder
    BY <2>3, <1>2 DEF NoteHolder, WindowInv
  <2>4. CASE ClearHolder
    BY <2>4, <1>2 DEF ClearHolder, WindowInv
  <2>5. CASE GiveUpMutex
    BY <2>5, <1>2 DEF GiveUpMutex, WindowInv
  <2>6. CASE Reading
    BY <2>6, <1>2 DEF Reading, WindowInv
  <2> QED BY <2>1, <2>2, <2>3, <2>4, <2>5, <2>6
<1> QED BY <1>3, <1>4

LEMMA TimeKeeps ==
  ASSUME WatchInv, PassTime
  PROVE  WatchInv'
<1>1. /\ pc = "idle" /\ sinceSample < Interval /\ sinceSample' = sinceSample + 1
      /\ heldFor' = IF mutex = "held" THEN Older(heldFor) ELSE 0
      /\ denied' = IF waiting > 0 THEN Older(denied) ELSE 0
      /\ quiet' = Older(quiet)
      /\ UNCHANGED <<mutex, waiting, acquired, pc, seen, reported, health, down>>
  BY DEF PassTime
<1>2. /\ Interval \in Nat /\ Threshold \in Nat /\ Cap \in Nat /\ Interval < Cap
      /\ heldFor \in 0 .. Cap /\ denied \in 0 .. Cap /\ quiet \in 0 .. Cap
      /\ waiting \in Nat /\ sinceSample \in 0 .. Interval
  BY WatchdogAssumption, OlderOne DEF WatchInv, WindowInv
<1>3. /\ quiet' \in 0 .. Cap /\ quiet' <= quiet + 1 /\ quiet' >= quiet
      /\ quiet < Cap => quiet' = quiet + 1
      /\ denied' \in 0 .. Cap /\ denied' <= denied + 1
      /\ heldFor' \in 0 .. Cap /\ heldFor' <= heldFor + 1
      /\ waiting > 0 => denied' >= denied /\ (denied < Cap => denied' = denied + 1)
  BY <1>1, <1>2, OlderOne
<1>4. quiet' > sinceSample' /\ ~acquired' => waiting' > 0 /\ denied' >= quiet' - Interval
  <2> SUFFICES ASSUME quiet' > sinceSample', ~acquired'
               PROVE  waiting' > 0 /\ denied' >= quiet' - Interval
    OBVIOUS
  <2>1. quiet > sinceSample
    BY <1>1, <1>2, <1>3
  <2>2. waiting > 0 /\ denied >= quiet - Interval
    BY <1>1, <2>1 DEF WatchInv, WindowInv
  <2>3. CASE quiet < Cap /\ denied < Cap
    BY <1>1, <1>2, <1>3, <2>2, <2>3
  <2>4. CASE quiet = Cap \/ denied = Cap
    <3>1. denied >= Cap - Interval /\ denied' >= denied
      BY <1>2, <1>3, <2>2, <2>4
    <3>2. CASE denied = Cap
      BY <1>1, <1>2, <1>3, <2>2, <3>1, <3>2
    <3>3. CASE quiet = Cap
      BY <1>1, <1>2, <1>3, <2>2, <3>1, <3>3
    <3> QED BY <2>4, <3>2, <3>3
  <2> QED BY <1>2, <2>3, <2>4
<1>5. denied' <= quiet' + Interval
  <2>1. denied <= quiet + Interval
    BY DEF WatchInv, WindowInv
  <2>2. CASE quiet < Cap
    BY <1>2, <1>3, <2>1, <2>2
  <2>3. CASE quiet = Cap
    <3>1. denied' <= Cap /\ quiet' >= Cap
      BY <1>2, <1>3, <2>3
    <3>2. denied' \in Int /\ quiet' \in Int /\ Cap \in Int /\ Interval \in Nat
      BY <1>2, <1>3
    <3>3. \A a, b, c \in Int, i \in Nat : a <= c /\ b >= c => a <= b + i
      OBVIOUS
    <3> QED BY <3>1, <3>2, <3>3
  <2> QED BY <1>2, <2>2, <2>3
<1>6. WindowInv'
  BY <1>1, <1>2, <1>3, <1>4, <1>5 DEF WatchInv, WindowInv
<1>7. Punctual' /\ Answered'
  <2>1. /\ heldFor < Threshold + sinceSample => heldFor' < Threshold + sinceSample'
        /\ quiet < Threshold + sinceSample => quiet' < Threshold + sinceSample'
    <3>1. heldFor' \in Int /\ quiet' \in Int /\ sinceSample' = sinceSample + 1
      BY <1>1, <1>2, <1>3
    <3> QED BY <1>2, <1>3, <3>1
  <2> QED BY <1>1, <2>1 DEF WatchInv, Punctual, Answered
<1> QED BY <1>6, <1>7 DEF WatchInv

LEMMA SampleKeeps ==
  ASSUME WatchInv, LoadCounts \/ Raise \/ Recover \/ ServeAgain \/ StopServing
  PROVE  WatchInv'
<1>1. Interval \in Nat \ {0} /\ Threshold \in Nat \ {0} /\ Cap \in Nat
  BY WatchdogAssumption DEF Cap
<1> USE DEF WatchInv
<1>2. CASE LoadCounts
  <2>1. /\ pc = "idle" /\ sinceSample = Interval /\ pc' = "counted" /\ sinceSample' = 0
        /\ quiet' = IF acquired \/ waiting = 0 THEN 0 ELSE quiet
        /\ acquired' = FALSE /\ seen'.waiting = waiting /\ seen'.denied = denied
        /\ UNCHANGED <<mutex, waiting, heldFor, denied, reported, health, down>>
    BY <1>2 DEF LoadCounts, lockVars, Restarts
  <2>2. /\ waiting \in Nat /\ denied \in 0 .. Cap /\ quiet \in 0 .. Cap /\ quiet' \in 0 .. Cap
        /\ quiet' \in {0, quiet}
    BY <1>1, <2>1 DEF WindowInv
  <2>3. denied' <= quiet' + Interval
    <3>1. CASE acquired
      BY <1>1, <2>1, <2>2, <3>1 DEF WindowInv
    <3>2. CASE waiting = 0
      BY <1>1, <2>1, <2>2, <3>2 DEF WindowInv
    <3>3. CASE ~acquired /\ waiting # 0
      BY <1>1, <2>1, <2>2, <3>3 DEF WindowInv
    <3> QED BY <3>1, <3>2, <3>3
  <2>4. quiet' > 0 => waiting > 0 /\ denied >= quiet' - Interval
    <3> SUFFICES ASSUME quiet' > 0 PROVE waiting > 0 /\ denied >= quiet' - Interval
      OBVIOUS
    <3>1. ~acquired /\ waiting > 0
      BY <1>1, <2>1, <2>2
    <3>2. quiet' = quiet
      BY <1>1, <2>1, <2>2
    <3>3. CASE quiet > Interval
      BY <2>1, <3>1, <3>2, <3>3 DEF WindowInv
    <3>4. CASE quiet <= Interval
      <4>1. quiet \in Int /\ denied \in Nat /\ Interval \in Int
        BY <1>1, <2>2
      <4>2. \A a, i \in Int, b \in Nat : a <= i => b >= a - i
        OBVIOUS
      <4>3. denied >= quiet' - Interval
        BY <3>4, <3>2, <4>1, <4>2
      <4> QED BY <3>1, <4>3
    <3>5. quiet \in Int /\ Interval \in Int
      BY <1>1, <2>2
    <3>6. quiet > Interval \/ quiet <= Interval
      BY <3>5
    <3> QED BY <3>3, <3>4, <3>6
  <2>5. waiting = 0 => quiet' = 0
    BY <2>1
  <2>6. /\ mutex' \in {"free", "taken", "held", "leaving"} /\ pc' \in {"idle", "counted", "clearing"}
        /\ acquired' \in BOOLEAN /\ reported' \in BOOLEAN /\ down' \in BOOLEAN
    BY <2>1 DEF WindowInv
  <2>7. /\ waiting' \in Nat /\ sinceSample' \in 0 .. Interval
        /\ heldFor' \in 0 .. Cap /\ denied' \in 0 .. Cap
        /\ seen'.waiting \in Nat /\ seen'.denied \in Nat
        /\ mutex' = "taken" => waiting' > 0
        /\ mutex' # "held" => heldFor' = 0
        /\ waiting' = 0 => denied' = 0
    BY <1>1, <2>1 DEF WindowInv
  <2>8. WindowInv'
    BY <2>1, <2>2, <2>3, <2>4, <2>5, <2>6, <2>7 DEF WindowInv
  <2>9. Punctual' /\ Answered'
    BY <2>1 DEF Punctual, Answered
  <2> QED BY <2>9, <2>8
<1>3. CASE Raise
  <2>1. /\ pc' = "idle" /\ reported' = TRUE /\ pc = "counted"
        /\ health' = IF reported THEN health ELSE "not serving"
        /\ UNCHANGED <<mutex, waiting, heldFor, denied, acquired, sinceSample, seen, quiet, down>>
    BY <1>3 DEF Raise, lockVars
  <2>2. WindowInv'
    BY <1>1, <2>1 DEF WindowInv
  <2>3. Punctual' /\ Answered'
    BY <2>1 DEF Punctual, Answered, WindowInv
  <2> QED BY <2>2, <2>3
<1>4. CASE Recover
  <2>1. /\ pc = "counted" /\ reported' = FALSE /\ pc' = IF reported /\ ~down THEN "clearing" ELSE "idle"
        /\ UNCHANGED <<mutex, waiting, heldFor, denied, acquired, sinceSample, seen, quiet, health, down>>
        /\ ~(mutex = "held" /\ heldFor >= Threshold) /\ ~(seen.waiting > 0 /\ quiet >= Threshold)
    BY <1>4 DEF Recover, lockVars, HeldTooLong, NoProgress
  <2>2. WindowInv'
    BY <1>1, <2>1 DEF WindowInv
  <2>3. heldFor < Threshold /\ quiet < Threshold /\ sinceSample = 0
    BY <1>1, <2>1 DEF WindowInv
  <2>4. Punctual'
    BY <1>1, <2>1, <2>3 DEF Punctual
  <2>5. Answered'
    BY <2>1 DEF Answered, WindowInv
  <2> QED BY <2>2, <2>4, <2>5
<1>5. CASE ServeAgain
  <2>1. /\ pc = "clearing" /\ pc' = "idle" /\ health' = "serving"
        /\ UNCHANGED <<mutex, waiting, heldFor, denied, acquired, sinceSample, seen, quiet, reported, down>>
    BY <1>5 DEF ServeAgain, lockVars
  <2>2. WindowInv'
    BY <1>1, <2>1 DEF WindowInv
  <2>3. Punctual' /\ Answered'
    BY <2>1 DEF Punctual, Answered
  <2> QED BY <2>2, <2>3
<1>6. CASE StopServing
  <2>1. /\ down' = TRUE /\ health' = "not serving"
        /\ UNCHANGED <<mutex, waiting, heldFor, denied, acquired, sinceSample, pc, seen, quiet, reported>>
    BY <1>6 DEF StopServing, lockVars
  <2>2. WindowInv'
    BY <1>1, <2>1 DEF WindowInv
  <2>3. Punctual' /\ Answered'
    BY <2>1 DEF Punctual, Answered
  <2> QED BY <2>2, <2>3
<1> QED BY <1>2, <1>3, <1>4, <1>5, <1>6

\* What was printed of a peer says how it was found, and tells a change with each line.
Changes(s) == \A i \in 1 .. Len(s) - 1 : s[i] # s[i + 1]

Said == {"unusable", "connected", "failed", "lost"}

Told(p) ==
  /\ peerState[p] = [connected |-> peerState[p].connected, warned |-> peerState[p].warned]
  /\ peerState[p].connected \in BOOLEAN /\ peerState[p].warned \in BOOLEAN
  /\ lines[p] \in Seq(Said) /\ Changes(lines[p])
  /\ p \in Malformed => ~peerState[p].connected
  /\ ~peerState[p].connected /\ ~peerState[p].warned => lines[p] = <<>>
  /\ peerState[p].connected =>
       ~peerState[p].warned /\ lines[p] # <<>> /\ lines[p][Len(lines[p])] = "connected"
  /\ p \notin Malformed /\ ~peerState[p].connected /\ peerState[p].warned =>
       lines[p] # <<>> /\ lines[p][Len(lines[p])] = "failed"

DialInv ==
  /\ peerState = [p \in Neighbour |-> peerState[p]]
  /\ lines = [p \in Neighbour |-> lines[p]]
  /\ \A p \in Neighbour : Told(p)

LEMMA OneMoreLine ==
  ASSUME NEW s \in Seq(Said), NEW x \in Said, Changes(s), s = <<>> \/ s[Len(s)] # x
  PROVE  /\ s \o <<x>> \in Seq(Said) /\ s \o <<x>> # <<>> /\ Changes(s \o <<x>>)
         /\ (s \o <<x>>)[Len(s \o <<x>>)] = x
<1> DEFINE t == s \o <<x>>
<1>1. t \in Seq(Said) /\ Len(t) = Len(s) + 1 /\ Len(s) \in Nat /\ t[Len(t)] = x
  OBVIOUS
<1>2. \A i \in 1 .. Len(s) : t[i] = s[i]
  OBVIOUS
<1>3. s = <<>> <=> Len(s) = 0
  OBVIOUS
<1> HIDE DEF t
<1>4. ASSUME NEW i \in 1 .. Len(t) - 1 PROVE t[i] # t[i + 1]
  <2>1. i \in 1 .. Len(s)
    BY <1>1
  <2>2. CASE i = Len(s)
    BY <1>1, <1>2, <1>3, <2>1, <2>2
  <2>3. CASE i < Len(s)
    <3>1. i + 1 \in 1 .. Len(s) /\ i \in 1 .. Len(s) - 1
      BY <1>1, <2>1, <2>3
    <3> QED BY <1>2, <2>1, <3>1 DEF Changes
  <2> QED BY <1>1, <2>1, <2>2, <2>3
<1>5. t # <<>>
  BY <1>1
<1> QED BY <1>1, <1>4, <1>5 DEF Changes, t

LEMMA DialKeeps ==
  ASSUME DialInv, NEW p \in Neighbour, Flip(p) \/ DialMalformed(p) \/ Dial(p)
  PROVE  DialInv'
<1> DEFINE was == peerState[p]
           s == lines[p]
<1>1. Told(p) /\ peerState = [q \in Neighbour |-> peerState[q]] /\ lines = [q \in Neighbour |-> lines[q]]
  BY DEF DialInv
<1>2. ASSUME NEW new, NEW text,
             peerState' = [peerState EXCEPT ![p] = new], lines' = [lines EXCEPT ![p] = text],
             new = [connected |-> new.connected, warned |-> new.warned],
             new.connected \in BOOLEAN, new.warned \in BOOLEAN,
             text \in Seq(Said), Changes(text),
             p \in Malformed => ~new.connected,
             ~new.connected /\ ~new.warned => text = <<>>,
             new.connected => ~new.warned /\ text # <<>> /\ text[Len(text)] = "connected",
             p \notin Malformed /\ ~new.connected /\ new.warned =>
               text # <<>> /\ text[Len(text)] = "failed"
      PROVE  DialInv'
  <2>1. /\ peerState' = [q \in Neighbour |-> IF q = p THEN new ELSE peerState[q]]
        /\ lines' = [q \in Neighbour |-> IF q = p THEN text ELSE lines[q]]
    BY <1>1, <1>2
  <2>2. /\ peerState' = [q \in Neighbour |-> peerState'[q]]
        /\ lines' = [q \in Neighbour |-> lines'[q]]
    BY <2>1
  <2>3. ASSUME NEW q \in Neighbour PROVE Told(q)'
    <3>1. CASE q = p
      <4>1. peerState'[q] = new /\ lines'[q] = text
        BY <2>1, <3>1
      <4> QED BY <1>2, <3>1, <4>1 DEF Told
    <3>2. CASE q # p
      <4>1. peerState'[q] = peerState[q] /\ lines'[q] = lines[q]
        BY <2>1, <3>2
      <4> QED BY <4>1 DEF Told, DialInv
    <3> QED BY <3>1, <3>2
  <2> QED BY <2>2, <2>3 DEF DialInv
<1>3. CASE Flip(p)
  <2>1. UNCHANGED <<peerState, lines>>
    BY <1>3 DEF Flip
  <2> QED BY <2>1 DEF DialInv, Told
<1>4. CASE DialMalformed(p)
  <2>1. /\ p \in Malformed /\ ~was.warned
        /\ peerState' = [peerState EXCEPT ![p] = [connected |-> was.connected, warned |-> TRUE]]
        /\ lines' = [lines EXCEPT ![p] = s \o <<"unusable">>]
    BY <1>4 DEF DialMalformed, Say
  <2>2. was = [connected |-> FALSE, warned |-> FALSE] /\ s = <<>>
    BY <1>1, <2>1 DEF Told
  <2>3. peerState' = [peerState EXCEPT ![p] = [connected |-> FALSE, warned |-> TRUE]]
    BY <2>1, <2>2
  <2>4. /\ s \o <<"unusable">> \in Seq(Said) /\ Changes(s \o <<"unusable">>)
    BY <1>1, <2>2, OneMoreLine DEF Told, Said
  <2> QED BY <1>2, <2>1, <2>4, <2>3
<1>5. CASE Dial(p)
  <2>1. p \notin Malformed
    BY <1>5 DEF Dial
  <2>2. CASE UNCHANGED lines /\ UNCHANGED peerState
    BY <2>2 DEF DialInv, Told
  <2>3. CASE /\ ~was.connected
             /\ peerState' = [peerState EXCEPT ![p] = [connected |-> TRUE, warned |-> FALSE]]
             /\ lines' = [lines EXCEPT ![p] = s \o <<"connected">>]
    <3>1. s = <<>> \/ s[Len(s)] # "connected"
      BY <1>1, <2>1, <2>3 DEF Told
    <3>2. /\ s \o <<"connected">> \in Seq(Said) /\ Changes(s \o <<"connected">>)
          /\ s \o <<"connected">> # <<>> /\ (s \o <<"connected">>)[Len(s \o <<"connected">>)] = "connected"
      BY <1>1, <3>1, OneMoreLine DEF Told, Said
    <3> QED BY <1>2, <2>1, <2>3, <3>2
  <2>4. CASE /\ ~was.connected /\ ~was.warned
             /\ peerState' = [peerState EXCEPT ![p] = [connected |-> FALSE, warned |-> TRUE]]
             /\ lines' = [lines EXCEPT ![p] = s \o <<"failed">>]
    <3>1. s = <<>>
      BY <1>1, <2>4 DEF Told
    <3>2. /\ s \o <<"failed">> \in Seq(Said) /\ Changes(s \o <<"failed">>)
          /\ s \o <<"failed">> # <<>> /\ (s \o <<"failed">>)[Len(s \o <<"failed">>)] = "failed"
      BY <1>1, <3>1, OneMoreLine DEF Told, Said
    <3> QED BY <1>2, <2>1, <2>4, <3>2
  <2>5. ASSUME was.connected, NEW new, NEW last \in {"connected", "failed"},
               new = [connected |-> last = "connected", warned |-> last = "failed"],
               peerState' = [peerState EXCEPT ![p] = new],
               lines' = [lines EXCEPT ![p] = s \o (<<"lost">> \o <<last>>)]
        PROVE  DialInv'
    <3>1. s \in Seq(Said) /\ Changes(s) /\ s # <<>> /\ s[Len(s)] = "connected"
      BY <1>1, <2>5 DEF Told
    <3> DEFINE lost == s \o <<"lost">>
               told == lost \o <<last>>
    <3>2. lost \in Seq(Said) /\ Changes(lost) /\ lost # <<>> /\ lost[Len(lost)] = "lost"
      BY <3>1, OneMoreLine DEF Said
    <3>3. s \o (<<"lost">> \o <<last>>) = told
      BY <3>1 DEF Said
    <3> HIDE DEF lost
    <3>4. told \in Seq(Said) /\ Changes(told) /\ told # <<>> /\ told[Len(told)] = last
      BY <3>2, OneMoreLine DEF Said
    <3> HIDE DEF told
    <3>5. /\ new.connected = (last = "connected") /\ new.warned = (last = "failed")
          /\ new = [connected |-> new.connected, warned |-> new.warned]
      BY <2>5
    <3> QED BY <1>2, <2>1, <2>5, <3>3, <3>4, <3>5
  <2>6. was.connected \in BOOLEAN /\ was.warned \in BOOLEAN /\ (was.connected => ~was.warned)
    BY <1>1 DEF Told
  <2>7. CASE link[p]
    <3>1. /\ peerState' = [peerState EXCEPT ![p] = [connected |-> TRUE, warned |-> was.warned /\ was.connected]]
          /\ lines' = [lines EXCEPT ![p] = s \o IF was.connected THEN <<>> ELSE <<"connected">>]
      BY <1>5, <2>7 DEF Dial, Say
    <3>2. (was.warned /\ was.connected) = FALSE
      BY <2>6
    <3>3. CASE was.connected
      <4>1. was = [connected |-> TRUE, warned |-> FALSE] /\ s \o <<>> = s
        BY <1>1, <2>6, <3>3 DEF Told
      <4>2. UNCHANGED peerState /\ UNCHANGED lines
        BY <1>1, <3>1, <3>2, <3>3, <4>1
      <4> QED BY <2>2, <4>2
    <3>4. CASE ~was.connected
      BY <2>3, <3>1, <3>2, <3>4
    <3> QED BY <3>3, <3>4
  <2>8. CASE ~link[p]
    <3> DEFINE lost == IF was.connected THEN <<"lost">> ELSE <<>>
    <3>1. \/ /\ peerState' = [peerState EXCEPT ![p] = [connected |-> TRUE, warned |-> FALSE]]
             /\ lines' = [lines EXCEPT ![p] = s \o (lost \o <<"connected">>)]
          \/ /\ peerState' = [peerState EXCEPT ![p] = [connected |-> FALSE, warned |-> TRUE]]
             /\ lines' = [lines EXCEPT ![p] = s \o (lost \o IF ~was.warned THEN <<"failed">> ELSE <<>>)]
      BY <1>5, <2>8 DEF Dial, Say, Warns
    <3>2. CASE was.connected
      <4>1. lost = <<"lost">> /\ ~was.warned
        BY <2>6, <3>2
      <4>2. \/ /\ peerState' = [peerState EXCEPT ![p] = [connected |-> TRUE, warned |-> FALSE]]
               /\ lines' = [lines EXCEPT ![p] = s \o (<<"lost">> \o <<"connected">>)]
            \/ /\ peerState' = [peerState EXCEPT ![p] = [connected |-> FALSE, warned |-> TRUE]]
               /\ lines' = [lines EXCEPT ![p] = s \o (<<"lost">> \o <<"failed">>)]
        BY <3>1, <4>1
      <4> QED BY <2>5, <3>2, <4>2
    <3>3. CASE ~was.connected
      <4>1. /\ lost \o <<"connected">> = <<"connected">>
            /\ lost \o <<"failed">> = <<"failed">>
            /\ lost \o <<>> = <<>> /\ s \o <<>> = s
        BY <1>1, <3>3 DEF Told
      <4>2. CASE ~was.warned
        BY <2>3, <2>4, <3>1, <3>3, <4>1, <4>2
      <4>3. CASE was.warned
        <5>1. was = [connected |-> FALSE, warned |-> TRUE]
          BY <1>1, <2>6, <3>3, <4>3 DEF Told
        <5>2. CASE /\ peerState' = [peerState EXCEPT ![p] = [connected |-> TRUE, warned |-> FALSE]]
                   /\ lines' = [lines EXCEPT ![p] = s \o (lost \o <<"connected">>)]
          BY <2>3, <3>3, <4>1, <5>2
        <5>3. CASE /\ peerState' = [peerState EXCEPT ![p] = [connected |-> FALSE, warned |-> TRUE]]
                   /\ lines' = [lines EXCEPT ![p] = s \o (lost \o IF ~was.warned THEN <<"failed">> ELSE <<>>)]
          <6>1. peerState' = [peerState EXCEPT ![p] = was]
            BY <5>1, <5>3
          <6>2. lines' = [lines EXCEPT ![p] = s]
            BY <4>1, <4>3, <5>3
          <6>3. UNCHANGED peerState
            BY <1>1, <6>1
          <6>4. UNCHANGED lines
            BY <1>1, <6>2
          <6> QED BY <2>2, <6>3, <6>4
        <5> QED BY <3>1, <5>2, <5>3
      <4> QED BY <2>6, <4>2, <4>3
    <3> QED BY <2>6, <3>2, <3>3
  <2> QED BY <2>7, <2>8
<1> QED BY <1>3, <1>4, <1>5
LEMMA WatchInitially == WatchdogInit => WatchInv /\ DialInv
<1> SUFFICES ASSUME WatchdogInit PROVE WatchInv /\ DialInv
  OBVIOUS
<1>1. Interval \in Nat \ {0} /\ Threshold \in Nat \ {0} /\ Cap \in Nat
  BY WatchdogAssumption DEF Cap
<1>2. WindowInv /\ Punctual /\ Answered
  <2>1. /\ mutex = "free" /\ waiting = 0 /\ acquired = FALSE /\ heldFor = 0 /\ denied = 0
        /\ sinceSample = Interval /\ pc = "idle" /\ seen.waiting = 0 /\ seen.denied = 0
        /\ quiet = 0 /\ reported = FALSE /\ health = "serving" /\ down = FALSE
    BY DEF WatchdogInit
  <2>2. /\ sinceSample \in 0 .. Interval /\ heldFor \in 0 .. Cap /\ denied \in 0 .. Cap /\ quiet \in 0 .. Cap
        /\ ~(quiet > sinceSample) /\ denied <= quiet + Interval /\ ~(quiet > 0) /\ waiting \in Nat
        /\ seen.waiting \in Nat /\ seen.denied \in Nat
    BY <1>1, <2>1
  <2>3. WindowInv
    BY <2>1, <2>2 DEF WindowInv
  <2>4. Punctual
    BY <1>1, <2>1 DEF Punctual
  <2>5. Answered
    BY <2>1 DEF Answered
  <2> QED BY <2>3, <2>4, <2>5
<1>3. \A p \in Neighbour : Told(p)
  <2> SUFFICES ASSUME NEW p \in Neighbour PROVE Told(p)
    OBVIOUS
  <2>1. peerState[p] = [connected |-> FALSE, warned |-> FALSE] /\ lines[p] = <<>>
    BY DEF WatchdogInit
  <2> QED BY <2>1 DEF Told, Changes
<1>4. DialInv
  BY <1>3 DEF WatchdogInit, DialInv
<1> QED BY <1>2, <1>4 DEF WatchInv

LEMMA WatchStep ==
  ASSUME WatchInv, DialInv, [WatchdogNext]_watchdogVars
  PROVE  WatchInv' /\ DialInv'
<1>1. ASSUME UNCHANGED watchVars PROVE WatchInv'
  <2>1. UNCHANGED <<mutex, waiting, heldFor, denied, acquired, sinceSample, pc, seen, quiet,
                    reported, health, down>>
    BY <1>1 DEF watchVars, lockVars
  <2>2. WindowInv'
    BY <2>1 DEF WatchInv, WindowInv
  <2>3. Punctual' /\ Answered'
    BY <2>1 DEF WatchInv, Punctual, Answered
  <2> QED BY <2>2, <2>3 DEF WatchInv
<1>2. ASSUME UNCHANGED dialVars PROVE DialInv'
  BY <1>2 DEF dialVars, DialInv, Told
<1>3. CASE Watch /\ UNCHANGED dialVars
  BY <1>2, <1>3, LockKeeps, TimeKeeps, SampleKeeps DEF Watch
<1>4. CASE KeepConnected /\ UNCHANGED watchVars
  BY <1>1, <1>4, DialKeeps DEF KeepConnected
<1>5. CASE UNCHANGED watchdogVars
  BY <1>1, <1>2, <1>5 DEF watchdogVars
<1> QED BY <1>3, <1>4, <1>5 DEF WatchdogNext

\* What a node tells of itself is true and is told: whoever raises an alarm has seen a writer hold
\* the lock for the threshold, or writers kept out for all of it but an interval; a wedge is
\* reported in time; the health that is answered is what was found; and an outage of a peer is
\* printed once (ledgerWatch.sample, raise, recovered, and the dialler's loop).
THEOREM WatchIsTrue == WatchdogSpec => WatchTells
<1>1. WatchInv /\ DialInv => WedgeIsTold /\ HealthIsTold /\ OneLineAnOutage
  <2> SUFFICES ASSUME WatchInv, DialInv PROVE WedgeIsTold /\ HealthIsTold /\ OneLineAnOutage
    OBVIOUS
  <2>1. WedgeIsTold
    <3> SUFFICES ASSUME pc = "idle", ~reported
                 PROVE  heldFor <= Threshold + Interval /\ denied <= Threshold + 2 * Interval
      BY DEF WedgeIsTold
    <3>1. heldFor < Threshold + sinceSample /\ quiet < Threshold + sinceSample
      BY DEF WatchInv, Punctual
    <3>2. /\ sinceSample \in 0 .. Interval /\ heldFor \in Nat /\ denied \in Nat /\ quiet \in Nat
          /\ denied <= quiet + Interval
      BY DEF WatchInv, WindowInv
    <3>3. Interval \in Nat /\ Threshold \in Nat
      BY WatchdogAssumption
    <3> QED BY <3>1, <3>2, <3>3
  <2>2. HealthIsTold
    BY DEF WatchInv, Answered, HealthIsTold
  <2>3. OneLineAnOutage
    BY DEF DialInv, Told, Changes, OneLineAnOutage
  <2> QED BY <2>1, <2>2, <2>3
<1>2. WatchInv /\ [WatchdogNext]_watchdogVars => [AlarmIsTrue]_watchVars
  <2> SUFFICES ASSUME WatchInv, WatchdogNext, reported', ~reported
               PROVE  heldFor >= Threshold \/ seen.denied >= Threshold - Interval
    BY DEF AlarmIsTrue, watchdogVars
  <2>1. Raise
    BY DEF WatchdogNext, Watch, KeepConnected, Flip, DialMalformed, Dial, watchVars, QueueWriter,
       TakeMutex, NoteHolder, ClearHolder, GiveUpMutex, Reading, PassTime, LoadCounts, Recover,
       ServeAgain, StopServing
  <2>2. pc = "counted" /\ (heldFor >= Threshold \/ (seen.waiting > 0 /\ quiet >= Threshold))
    BY <2>1 DEF Raise, HeldTooLong, NoProgress
  <2>3. CASE seen.waiting > 0 /\ quiet >= Threshold
    <3>1. quiet \in Nat /\ Threshold \in Nat \ {0} /\ Interval \in Nat /\ seen.denied \in Nat
      BY WatchdogAssumption DEF WatchInv, WindowInv
    <3>2. seen.denied >= quiet - Interval
      BY <2>2, <2>3, <3>1 DEF WatchInv, WindowInv
    <3> QED BY <2>3, <3>1, <3>2
  <2> QED BY <2>2, <2>3
<1> QED BY <1>1, <1>2, WatchInitially, WatchStep, PTL DEF WatchdogSpec, WatchTells

-----------------------------------------------------------------------------
(* Gateway: a key is charged once. *)

Memory == [digest : Digest \cup {Unused}, done : BOOLEAN, at : Nat]
Opened == [key : IdemKey, digest : Digest, state : {"open", "settling", "charged", "failed"},
           at : Nat, cut : BOOLEAN]
Handling == [key : IdemKey, digest : Digest,
             at : {"route", "model", "wait", "charged", "failed"}, order : Nat]

GateType ==
  /\ records \in [IdemKey -> {Unused} \cup Memory]
  /\ orders \in Seq(Opened)
  /\ serving \in [Server -> {Unused} \cup Handling]
  /\ hour \in Nat

\* A job that may charge its key while the key is remembered.
Owes(i) ==
  /\ orders[i].key # NoKey /\ orders[i].state # "failed" /\ ~orders[i].cut
  /\ hour - orders[i].at < IdemTTL

\* The key of a request is remembered from its reservation to its answer.
KeyHeld(h) ==
  LET k == serving[h].key
      i == serving[h].order
  IN /\ i \in 0 .. Len(orders)
     /\ i # 0 => orders[i].key = k
     /\ k # NoKey =>
          /\ records[k] # Unused /\ hour - records[k].at < IdemTTL
          /\ i # 0 => records[k].at = orders[i].at

\* Where a handler is, by where its job is.
Placed(h) ==
  LET place == serving[h].at
      i == serving[h].order
  IN /\ place = "route" => i = 0 /\ (serving[h].key # NoKey => records[serving[h].key].at = hour)
     /\ place = "model" => i # 0 /\ orders[i].state = "open"
     /\ place \in {"wait", "charged"} => i # 0
     /\ place = "failed" => i = 0 \/ orders[i].state = "failed" \/ orders[i].cut

Apart(g, h) ==
  /\ serving[g].key = serving[h].key => serving[g].key = NoKey
  /\ serving[g].order = serving[h].order => serving[g].order = 0

\* A job that may charge a key is what the key is remembered for, and the job of whoever serves it.
OrderKept(i) ==
  Owes(i) =>
    /\ records[orders[i].key] # Unused /\ records[orders[i].key].at = orders[i].at
    /\ \A h \in Server :
         serving[h] # Unused /\ serving[h].key = orders[i].key => serving[h].order = i

OnceCharged(i, j) ==
  i < j /\ orders[i].key = orders[j].key /\ orders[i].key # NoKey /\ orders[j].at - orders[i].at < IdemTTL =>
    orders[i].state = "failed" \/ orders[i].cut

GateInv ==
  /\ GateType
  /\ \A h \in Server : serving[h] # Unused => KeyHeld(h) /\ Placed(h)
  /\ \A g, h \in Server : g # h /\ serving[g] # Unused /\ serving[h] # Unused => Apart(g, h)
  /\ \A i \in DOMAIN orders : OrderKept(i)
  /\ \A i, j \in DOMAIN orders : OnceCharged(i, j)

LEMMA OrderIs ==
  ASSUME GateType, NEW i \in DOMAIN orders
  PROVE  /\ orders[i] \in Opened /\ orders[i].key \in IdemKey /\ orders[i].at \in Nat
         /\ orders[i].cut \in BOOLEAN
         /\ orders[i].state \in {"open", "settling", "charged", "failed"}
         /\ i \in 1 .. Len(orders) /\ Len(orders) \in Nat
<1>1. orders[i] \in Opened /\ i \in 1 .. Len(orders) /\ Len(orders) \in Nat
  BY DEF GateType
<1> QED BY <1>1 DEF Opened

LEMMA HandlerIs ==
  ASSUME GateType, NEW h \in Server, serving[h] # Unused
  PROVE  /\ serving[h] \in Handling /\ serving[h].key \in IdemKey /\ serving[h].order \in Nat
         /\ serving[h].at \in {"route", "model", "wait", "charged", "failed"}
  BY DEF GateType, Handling

LEMMA Moved ==
  ASSUME GateType, NEW h \in Server, serving[h] # Unused, NEW place,
         place \in {"route", "model", "wait", "charged", "failed"}, Move(h, place)
  PROVE  /\ serving' \in [Server -> {Unused} \cup Handling]
         /\ \A g \in Server : g # h => serving'[g] = serving[g]
         /\ serving'[h].at = place /\ serving'[h].key = serving[h].key
         /\ serving'[h].order = serving[h].order
<1>1. serving[h] \in Handling
  BY HandlerIs
<1>2. serving'[h] = [serving[h] EXCEPT !.at = place] /\ serving' \in [Server -> {Unused} \cup Handling]
  <2>1. [serving[h] EXCEPT !.at = place] \in Handling
    BY <1>1 DEF Handling
  <2>2. serving' = [serving EXCEPT ![h] = [serving[h] EXCEPT !.at = place]]
    BY DEF Move
  <2> QED BY <2>1, <2>2 DEF GateType
<1>3. \A g \in Server : g # h => serving'[g] = serving[g]
  BY DEF Move, GateType
<1> QED BY <1>1, <1>2, <1>3 DEF Handling

LEMMA Became ==
  ASSUME GateType, NEW i \in DOMAIN orders, NEW s \in {"open", "settling", "charged", "failed"},
         Becomes(i, s)
  PROVE  /\ orders' \in Seq(Opened) /\ Len(orders') = Len(orders)
         /\ \A j \in DOMAIN orders : j # i => orders'[j] = orders[j]
         /\ orders'[i].state = s /\ orders'[i].key = orders[i].key
         /\ orders'[i].at = orders[i].at /\ orders'[i].cut = orders[i].cut
<1>1. orders[i] \in Opened /\ i \in 1 .. Len(orders)
  BY OrderIs
<1>2. orders' = [orders EXCEPT ![i] = [orders[i] EXCEPT !.state = s]]
  BY DEF Becomes
<1>3. [orders[i] EXCEPT !.state = s] \in Opened
  BY <1>1 DEF Opened
<1>4. orders' \in Seq(Opened) /\ Len(orders') = Len(orders)
  BY <1>1, <1>2, <1>3 DEF GateType
<1>5. orders'[i] = [orders[i] EXCEPT !.state = s] /\ (\A j \in DOMAIN orders : j # i => orders'[j] = orders[j])
  BY <1>1, <1>2 DEF GateType
<1> QED BY <1>1, <1>4, <1>5 DEF Opened

\* A step that only brings jobs and handlers further.
LEMMA FurtherKeeps ==
  ASSUME GateInv, UNCHANGED <<records, hour>>,
         orders' \in Seq(Opened), Len(orders') = Len(orders),
         \A i \in DOMAIN orders :
           /\ orders'[i].key = orders[i].key /\ orders'[i].at = orders[i].at
           /\ orders[i].state = "failed" => orders'[i].state = "failed"
           /\ orders[i].cut => orders'[i].cut,
         serving' \in [Server -> {Unused} \cup Handling],
         \A h \in Server : serving'[h] # Unused =>
           /\ serving[h] # Unused /\ Placed(h)'
           /\ serving'[h].key = serving[h].key /\ serving'[h].order = serving[h].order
  PROVE  GateInv'
<1> USE DEF GateInv
<1>1. GateType' /\ DOMAIN orders' = DOMAIN orders /\ Len(orders) \in Nat
      /\ DOMAIN orders = 1 .. Len(orders)
  BY DEF GateType
<1>2. ASSUME NEW h \in Server, serving'[h] # Unused PROVE KeyHeld(h)'
  <2>1. KeyHeld(h) /\ serving[h] # Unused
    BY <1>2
  <2>2. serving[h].order # 0 => serving[h].order \in DOMAIN orders
    BY <1>1, <2>1 DEF KeyHeld
  <2>3. serving'[h].key = serving[h].key /\ serving'[h].order = serving[h].order
    BY <1>2
  <2> QED BY <1>1, <2>1, <2>2, <2>3 DEF KeyHeld
<1>3. \A g, h \in Server : g # h /\ serving'[g] # Unused /\ serving'[h] # Unused => Apart(g, h)'
  BY DEF Apart
<1>4. ASSUME NEW i \in DOMAIN orders PROVE OrderKept(i)'
  <2>1. Owes(i)' => Owes(i)
    BY <1>4 DEF Owes
  <2> QED BY <1>4, <2>1 DEF OrderKept
<1>5. ASSUME NEW i \in DOMAIN orders, NEW j \in DOMAIN orders PROVE OnceCharged(i, j)'
  BY <1>5 DEF OnceCharged
<1> QED BY <1>1, <1>2, <1>3, <1>4, <1>5

\* A handler that moves, and perhaps its job.
LEMMA HandlerKeeps ==
  ASSUME GateInv, NEW h \in Server,
         Unroutable(h) \/ RunFails(h) \/ PaymentSubmitted(h) \/ Settled(h) \/ WaitCut(h)
  PROVE  GateInv'
<1>1. GateType /\ serving[h] # Unused /\ KeyHeld(h) /\ Placed(h) /\ UNCHANGED <<records, hour>>
  BY DEF GateInv, Unroutable, RunFails, PaymentSubmitted, Settled, WaitCut, IsAt
<1> DEFINE i == serving[h].order
<1>2. i # 0 => i \in DOMAIN orders /\ i \in 1 .. Len(orders)
  BY <1>1 DEF KeyHeld, GateType
<1>3. \A g \in Server : g # h /\ serving[g] # Unused /\ serving[g].order = i => i = 0
  BY <1>1 DEF GateInv, Apart
<1>4. ASSUME NEW place \in {"route", "model", "wait", "charged", "failed"}, Move(h, place),
             orders' \in Seq(Opened), Len(orders') = Len(orders),
             \A j \in DOMAIN orders : j # i => orders'[j] = orders[j],
             i # 0 => /\ orders'[i].key = orders[i].key /\ orders'[i].at = orders[i].at
                      /\ orders[i].state = "failed" => orders'[i].state = "failed"
                      /\ orders[i].cut => orders'[i].cut,
             place \in {"wait", "charged"} => i # 0, place \notin {"route", "model"},
             place = "failed" => i = 0 \/ orders'[i].state = "failed" \/ orders'[i].cut
      PROVE  GateInv'
  <2>1. /\ serving' \in [Server -> {Unused} \cup Handling]
        /\ \A g \in Server : g # h => serving'[g] = serving[g]
        /\ serving'[h].at = place /\ serving'[h].key = serving[h].key
        /\ serving'[h].order = i
    BY <1>1, <1>4, Moved
  <2>2. Placed(h)'
    BY <1>4, <2>1 DEF Placed
  <2>3. ASSUME NEW g \in Server, g # h, serving'[g] # Unused PROVE Placed(g)'
    <3>1. serving'[g] = serving[g] /\ Placed(g) /\ KeyHeld(g)
      BY <2>1, <2>3 DEF GateInv
    <3>2. serving[g].order # 0 => orders'[serving[g].order] = orders[serving[g].order]
      <4> SUFFICES ASSUME serving[g].order # 0
                   PROVE  orders'[serving[g].order] = orders[serving[g].order]
        OBVIOUS
      <4>1. serving[g].order \in DOMAIN orders
        BY <1>1, <3>1 DEF KeyHeld, GateType
      <4>2. serving[g].order # i
        BY <1>3, <2>3, <3>1
      <4> QED BY <1>4, <4>1, <4>2
    <3> QED BY <1>1, <3>1, <3>2 DEF Placed
  <2>4. \A j \in DOMAIN orders :
          /\ orders'[j].key = orders[j].key /\ orders'[j].at = orders[j].at
          /\ orders[j].state = "failed" => orders'[j].state = "failed"
          /\ orders[j].cut => orders'[j].cut
    <3> SUFFICES ASSUME NEW j \in DOMAIN orders
                 PROVE  /\ orders'[j].key = orders[j].key /\ orders'[j].at = orders[j].at
                        /\ orders[j].state = "failed" => orders'[j].state = "failed"
                        /\ orders[j].cut => orders'[j].cut
      OBVIOUS
    <3>1. CASE j = i
      <4>1. i # 0
        BY <1>1, <3>1 DEF GateType
      <4> QED BY <1>4, <3>1, <4>1
    <3>2. CASE j # i
      BY <1>4, <3>2
    <3> QED BY <3>1, <3>2
  <2>5. \A g \in Server : serving'[g] # Unused =>
          /\ serving[g] # Unused /\ Placed(g)'
          /\ serving'[g].key = serving[g].key /\ serving'[g].order = serving[g].order
    BY <1>1, <2>1, <2>2, <2>3
  <2> QED BY <1>1, <1>4, <2>1, <2>4, <2>5, FurtherKeeps
<1>5. CASE Unroutable(h)
  BY <1>1, <1>4, <1>5 DEF Unroutable, GateType, IsAt, Placed
<1>6. CASE RunFails(h)
  <2>1. i # 0 /\ Becomes(i, "failed") /\ Move(h, "failed")
    BY <1>1, <1>6 DEF RunFails, IsAt, Placed, Order
  <2> QED BY <1>1, <1>2, <1>4, <2>1, Became
<1>7. CASE PaymentSubmitted(h)
  <2>1. i # 0 /\ Becomes(i, "settling") /\ Move(h, "wait") /\ orders[i].state = "open"
    BY <1>1, <1>7 DEF PaymentSubmitted, IsAt, Placed, Order
  <2> QED BY <1>1, <1>2, <1>4, <2>1, Became
<1>8. CASE Settled(h)
  <2>1. /\ i # 0 /\ UNCHANGED orders
        /\ \/ Move(h, "charged")
           \/ Move(h, "failed") /\ orders[i].state = "failed"
    BY <1>1, <1>8 DEF Settled, IsAt, Placed, Order
  <2> QED BY <1>1, <1>2, <1>4, <2>1 DEF GateType
<1>9. CASE WaitCut(h)
  <2>1. /\ i # 0 /\ orders' = [orders EXCEPT ![i] = [orders[i] EXCEPT !.cut = TRUE]]
        /\ Move(h, "failed")
    BY <1>1, <1>9 DEF WaitCut, IsAt, Placed, Order
  <2>2. orders[i] \in Opened
    BY <1>1, <1>2, <2>1, OrderIs
  <2>3. PICK new : new = [orders[i] EXCEPT !.cut = TRUE]
    OBVIOUS
  <2>4. new \in Opened /\ new.cut /\ new.key = orders[i].key /\ new.at = orders[i].at
        /\ new.state = orders[i].state
    BY <2>2, <2>3 DEF Opened
  <2>5. /\ orders' \in Seq(Opened) /\ Len(orders') = Len(orders) /\ orders'[i] = new
        /\ \A j \in DOMAIN orders : j # i => orders'[j] = orders[j]
    <3>1. orders' = [orders EXCEPT ![i] = new]
      BY <2>1, <2>3
    <3>2. i \in DOMAIN orders /\ orders \in Seq(Opened) /\ new \in Opened
      BY <1>1, <1>2, <2>1, <2>4 DEF GateType
    <3> HIDE DEF i
    <3> QED BY <3>1, <3>2
  <2> QED BY <1>4, <2>1, <2>4, <2>5
<1> QED BY <1>5, <1>6, <1>7, <1>8, <1>9

LEMMA PaymentKeeps ==
  ASSUME GateInv, NEW i \in DOMAIN orders, PaymentCommits(i) \/ PaymentLost(i)
  PROVE  GateInv'
<1>1. PICK s \in {"charged", "failed"} :
        Becomes(i, s) /\ orders[i].state = "settling" /\ UNCHANGED <<records, serving, hour>>
  BY DEF PaymentCommits, PaymentLost
<1>2. GateType
  BY DEF GateInv
<1>3. /\ orders' \in Seq(Opened) /\ Len(orders') = Len(orders)
      /\ \A j \in DOMAIN orders : j # i => orders'[j] = orders[j]
      /\ orders'[i].state = s /\ orders'[i].key = orders[i].key
      /\ orders'[i].at = orders[i].at /\ orders'[i].cut = orders[i].cut
  BY <1>1, <1>2, Became
<1>4. ASSUME NEW j \in DOMAIN orders
      PROVE  /\ orders'[j].key = orders[j].key /\ orders'[j].at = orders[j].at
             /\ orders[j].state = "failed" => orders'[j].state = "failed"
             /\ orders[j].cut => orders'[j].cut
             /\ orders[j].state = "open" => orders'[j].state = "open"
  <2>1. CASE j = i
    BY <1>1, <1>3, <2>1
  <2>2. CASE j # i
    BY <1>3, <2>2
  <2> QED BY <2>1, <2>2
<1>5. ASSUME NEW h \in Server, serving'[h] # Unused
      PROVE  /\ serving[h] # Unused /\ Placed(h)'
             /\ serving'[h].key = serving[h].key /\ serving'[h].order = serving[h].order
  <2>1. serving' = serving /\ serving[h] # Unused /\ KeyHeld(h) /\ Placed(h)
    BY <1>1, <1>5 DEF GateInv
  <2>2. serving[h].order # 0 => serving[h].order \in DOMAIN orders
    BY <1>2, <2>1 DEF KeyHeld, GateType
  <2> QED BY <1>1, <1>4, <2>1, <2>2 DEF Placed
<1> QED BY <1>1, <1>2, <1>3, <1>4, <1>5, FurtherKeeps DEF GateType

\* Nobody serves a key that is not remembered, and no job may charge it any more.
LEMMA ForgottenIsFree ==
  ASSUME GateInv, NEW k \in IdemKey, k # NoKey, ~Remembered(k)
  PROVE  /\ \A h \in Server : serving[h] # Unused => serving[h].key # k
         /\ \A i \in DOMAIN orders : Owes(i) => orders[i].key # k
  BY DEF GateInv, KeyHeld, OrderKept, Owes, Remembered

LEMMA PostKeeps ==
  ASSUME GateInv, NEW h \in Server, NEW k \in IdemKey, NEW q \in Digest, Post(h, k, q)
  PROVE  GateInv'
<1> DEFINE new == [key |-> k, digest |-> q, at |-> "route", order |-> 0]
           memory == [digest |-> q, done |-> FALSE, at |-> hour]
<1>1. /\ GateType /\ serving[h] = Unused /\ UNCHANGED <<orders, hour>>
      /\ serving' = [serving EXCEPT ![h] = new] /\ ~Remembered(k)
      /\ records' = IF k = NoKey THEN records ELSE [records EXCEPT ![k] = memory]
      /\ IdemTTL \in Nat \ {0} /\ hour \in Nat
  BY GatewayAssumption DEF GateInv, GateType, Post, Reserve
<1>2. new \in Handling /\ memory \in Memory /\ memory # Unused /\ memory.at = hour
      /\ new.key = k /\ new.order = 0 /\ new.at = "route"
  <2>1. new \in Handling /\ memory \in Memory
    BY <1>1 DEF Handling, Memory
  <2> QED BY <2>1, GatewayAssumption DEF Memory
<1> HIDE DEF new, memory
<1>3. /\ serving' \in [Server -> {Unused} \cup Handling] /\ serving'[h] = new
      /\ \A g \in Server : g # h => serving'[g] = serving[g]
  BY <1>1, <1>2 DEF GateType
<1>4. /\ records' \in [IdemKey -> {Unused} \cup Memory]
      /\ k # NoKey => records'[k] = memory
      /\ \A l \in IdemKey : l # k => records'[l] = records[l]
      /\ k = NoKey => records' = records
  BY <1>1, <1>2 DEF GateType
<1>5. /\ k # NoKey => \A g \in Server : serving[g] # Unused => serving[g].key # k
      /\ k # NoKey => \A i \in DOMAIN orders : Owes(i) => orders[i].key # k
  BY <1>1, ForgottenIsFree
<1>6. GateType'
  BY <1>1, <1>3, <1>4 DEF GateType
<1>7. ASSUME NEW g \in Server, serving'[g] # Unused PROVE KeyHeld(g)' /\ Placed(g)'
  <2>1. CASE g = h
    BY <1>1, <1>2, <1>3, <1>4, <2>1 DEF KeyHeld, Placed, GateType
  <2>2. CASE g # h
    <3>1. serving'[g] = serving[g] /\ serving[g] # Unused /\ KeyHeld(g) /\ Placed(g)
      BY <1>3, <1>7, <2>2 DEF GateInv
    <3>2. serving[g].key \in IdemKey
      BY <1>1, <3>1, HandlerIs
    <3>3. serving[g].key # NoKey => records'[serving[g].key] = records[serving[g].key]
      BY <1>4, <1>5, <3>1, <3>2
    <3> QED BY <1>1, <3>1, <3>3 DEF KeyHeld, Placed
  <2> QED BY <2>1, <2>2
<1>8. ASSUME NEW f \in Server, NEW g \in Server, f # g, serving'[f] # Unused, serving'[g] # Unused
      PROVE  Apart(f, g)'
  <2>1. CASE f = h
    BY <1>2, <1>3, <1>5, <1>8, <2>1 DEF Apart
  <2>2. CASE g = h
    BY <1>2, <1>3, <1>5, <1>8, <2>2 DEF Apart
  <2>3. CASE f # h /\ g # h
    BY <1>3, <1>8, <2>3 DEF Apart, GateInv
  <2> QED BY <2>1, <2>2, <2>3
<1>9. ASSUME NEW i \in DOMAIN orders PROVE OrderKept(i)'
  <2> SUFFICES ASSUME Owes(i)' PROVE OrderKept(i)'
    BY DEF OrderKept
  <2>1. Owes(i) /\ OrderKept(i) /\ orders'[i] = orders[i] /\ orders[i].key \in IdemKey
        /\ orders[i].key # NoKey
    BY <1>1, <1>9, OrderIs DEF Owes, GateInv
  <2>2. orders[i].key # k /\ records'[orders[i].key] = records[orders[i].key]
    BY <1>4, <1>5, <2>1
  <2>3. ASSUME NEW g \in Server, serving'[g] # Unused, serving'[g].key = orders[i].key
        PROVE  serving'[g].order = i
    BY <1>2, <1>3, <2>1, <2>2, <2>3 DEF OrderKept
  <2> QED BY <2>1, <2>2, <2>3 DEF OrderKept
<1>10. \A i, j \in DOMAIN orders : OnceCharged(i, j)'
  BY <1>1 DEF OnceCharged, GateInv
<1> QED BY <1>1, <1>6, <1>7, <1>8, <1>9, <1>10 DEF GateInv

LEMMA SubmitKeeps ==
  ASSUME GateInv, NEW h \in Server, Submit(h)
  PROVE  GateInv'
<1> DEFINE k == serving[h].key
           n == Len(orders)
           job1 == [key |-> k, digest |-> serving[h].digest, state |-> "open", at |-> hour, cut |-> FALSE]
           new == [serving[h] EXCEPT !.at = "model", !.order = n + 1]
<1>1. /\ GateType /\ serving[h] # Unused /\ serving[h].at = "route" /\ UNCHANGED <<records, hour>>
      /\ KeyHeld(h) /\ Placed(h) /\ serving[h].order = 0 /\ n \in Nat /\ hour \in Nat
      /\ IdemTTL \in Nat \ {0}
  BY GatewayAssumption DEF GateInv, GateType, Submit, IsAt, Placed
<1>2. serving[h] \in Handling /\ k \in IdemKey
  BY <1>1, HandlerIs
<1>3. /\ job1 \in Opened /\ job1.key = k /\ job1.at = hour /\ job1.state = "open" /\ ~job1.cut
      /\ new \in Handling /\ new.key = k /\ new.at = "model" /\ new.order = n + 1
  <2>1. serving[h].digest \in Digest /\ n + 1 \in Nat /\ hour \in Nat
    BY <1>1, <1>2 DEF Handling
  <2>2. job1 \in Opened
    BY <1>2, <2>1 DEF Opened
  <2>3. job1.key = k /\ job1.at = hour /\ job1.state = "open" /\ ~job1.cut
    OBVIOUS
  <2>4. new \in Handling
    BY <1>2, <2>1 DEF Handling
  <2>5. new.key = k /\ new.at = "model" /\ new.order = n + 1
    BY <1>2 DEF Handling
  <2> QED BY <2>2, <2>3, <2>4, <2>5
<1>4. orders' = Append(orders, job1) /\ serving' = [serving EXCEPT ![h] = new]
  BY DEF Submit
<1> HIDE DEF job1, new
<1>5. /\ orders' \in Seq(Opened) /\ Len(orders') = n + 1 /\ orders'[n + 1] = job1
      /\ \A i \in DOMAIN orders : orders'[i] = orders[i]
      /\ DOMAIN orders' = 1 .. n + 1 /\ DOMAIN orders = 1 .. n
  BY <1>1, <1>3, <1>4 DEF GateType
<1>6. /\ serving' \in [Server -> {Unused} \cup Handling] /\ serving'[h] = new
      /\ \A g \in Server : g # h => serving'[g] = serving[g]
  BY <1>1, <1>3, <1>4 DEF GateType
<1>7. GateType'
  BY <1>1, <1>5, <1>6 DEF GateType
<1>8. ASSUME NEW g \in Server, g # h, serving'[g] # Unused
      PROVE  /\ serving'[g] = serving[g] /\ serving[g] # Unused /\ KeyHeld(g) /\ Placed(g)
             /\ serving[g].order \in 0 .. n /\ Apart(g, h)
  BY <1>1, <1>6, <1>8 DEF GateInv, KeyHeld
<1>9. k # NoKey => records[k] # Unused /\ records[k].at = hour
  BY <1>1 DEF KeyHeld, Placed
<1> HIDE DEF n, k
<1>10. ASSUME NEW g \in Server, serving'[g] # Unused PROVE KeyHeld(g)' /\ Placed(g)'
  <2>1. CASE g = h
    <3>1. /\ serving'[g].key = k /\ serving'[g].order = n + 1 /\ serving'[g].at = "model"
          /\ orders'[n + 1].key = k /\ orders'[n + 1].at = hour /\ orders'[n + 1].state = "open"
          /\ n + 1 # 0 /\ n + 1 \in 0 .. Len(orders') /\ hour' - hour < IdemTTL
      BY <1>1, <1>3, <1>5, <1>6, <2>1
    <3> QED BY <1>1, <1>9, <3>1 DEF KeyHeld, Placed
  <2>2. CASE g # h
    <3>1. serving[g].order # 0 => orders'[serving[g].order] = orders[serving[g].order]
      BY <1>1, <1>5, <1>8, <1>10, <2>2
    <3>2. serving[g].order \in 0 .. Len(orders')
      BY <1>1, <1>5, <1>8, <1>10, <2>2
    <3> QED BY <1>1, <1>8, <1>10, <2>2, <3>1, <3>2 DEF KeyHeld, Placed
  <2> QED BY <2>1, <2>2
<1>11. ASSUME NEW f \in Server, NEW g \in Server, f # g, serving'[f] # Unused, serving'[g] # Unused
       PROVE  Apart(f, g)'
  <2>1. ASSUME NEW e \in Server, e # h, serving'[e] # Unused PROVE Apart(e, h)' /\ Apart(h, e)'
    <3>1. serving'[e].order # n + 1 /\ serving'[e].key = serving[e].key
      BY <1>1, <1>8, <2>1
    <3>2. serving[e].key = k => k = NoKey
      BY <1>8, <2>1 DEF Apart, k
    <3> QED BY <1>3, <1>6, <3>1, <3>2 DEF Apart
  <2>2. CASE f # h /\ g # h
    BY <1>8, <1>11, <2>2 DEF Apart, GateInv
  <2> QED BY <1>11, <2>1, <2>2
<1>12. \A i \in DOMAIN orders : Owes(i) /\ k # NoKey => orders[i].key # k
  <2> SUFFICES ASSUME NEW i \in DOMAIN orders, Owes(i), k # NoKey, orders[i].key = k PROVE FALSE
    OBVIOUS
  <2>1. serving[h].order = i
    BY <1>1 DEF GateInv, OrderKept, k
  <2> QED BY <1>1, <1>5, <2>1
<1>13. ASSUME NEW i \in DOMAIN orders' PROVE OrderKept(i)'
  <2> SUFFICES ASSUME Owes(i)' PROVE OrderKept(i)'
    BY DEF OrderKept
  <2>1. CASE i = n + 1
    <3>1. orders'[i].key = k /\ orders'[i].at = hour /\ k # NoKey
      BY <1>3, <1>5, <2>1 DEF Owes
    <3>2. ASSUME NEW g \in Server, serving'[g] # Unused, serving'[g].key = k
          PROVE  serving'[g].order = i
      BY <1>3, <1>6, <1>8, <2>1, <3>1, <3>2 DEF Apart, k
    <3> QED BY <1>1, <1>9, <3>1, <3>2 DEF OrderKept
  <2>2. CASE i # n + 1
    <3>1. i \in DOMAIN orders /\ orders'[i] = orders[i]
      BY <1>1, <1>5, <1>13, <2>2
    <3>2. Owes(i) /\ OrderKept(i) /\ orders[i].key # NoKey
      BY <1>1, <3>1 DEF Owes, GateInv
    <3>3. orders[i].key # k
      BY <1>12, <3>1, <3>2
    <3>4. ASSUME NEW g \in Server, serving'[g] # Unused, serving'[g].key = orders[i].key
          PROVE  serving'[g].order = i
      BY <1>3, <1>6, <1>8, <3>2, <3>3, <3>4 DEF OrderKept
    <3> QED BY <1>1, <3>1, <3>2, <3>4 DEF OrderKept
  <2> QED BY <2>1, <2>2
<1>14. ASSUME NEW i \in DOMAIN orders', NEW j \in DOMAIN orders' PROVE OnceCharged(i, j)'
  <2> SUFFICES ASSUME i < j, orders'[i].key = orders'[j].key, orders'[i].key # NoKey,
                      orders'[j].at - orders'[i].at < IdemTTL
               PROVE  orders'[i].state = "failed" \/ orders'[i].cut
    BY DEF OnceCharged
  <2>1. i \in DOMAIN orders /\ orders'[i] = orders[i]
    BY <1>1, <1>5, <1>14
  <2>2. CASE j = n + 1
    <3>1. orders[i].key = k /\ k # NoKey /\ hour - orders[i].at < IdemTTL
      BY <1>3, <1>5, <2>1, <2>2
    <3> QED BY <1>12, <2>1, <3>1 DEF Owes
  <2>3. CASE j # n + 1
    <3>1. j \in DOMAIN orders /\ orders'[j] = orders[j]
      BY <1>1, <1>5, <1>14, <2>3
    <3> QED BY <2>1, <3>1 DEF GateInv, OnceCharged
  <2> QED BY <2>2, <2>3
<1> QED BY <1>7, <1>10, <1>11, <1>13, <1>14 DEF GateInv

\* An answer ends the request: what is remembered of the key is changed for nobody else.
LEMMA EndKeeps ==
  ASSUME GateInv, NEW h \in Server, serving[h] # Unused, UNCHANGED <<orders, hour>>,
         serving' = [serving EXCEPT ![h] = Unused],
         records' \in [IdemKey -> {Unused} \cup Memory],
         \A l \in IdemKey : l # serving[h].key => records'[l] = records[l],
         ASSUME NEW i \in DOMAIN orders, Owes(i), orders[i].key = serving[h].key
         PROVE  records'[serving[h].key] # Unused
                /\ records'[serving[h].key].at = records[serving[h].key].at
  PROVE  GateInv'
<1> DEFINE k == serving[h].key
<1>1. GateType /\ k \in IdemKey
  BY HandlerIs DEF GateInv
<1>2. /\ serving'[h] = Unused /\ serving' \in [Server -> {Unused} \cup Handling]
      /\ \A g \in Server : g # h => serving'[g] = serving[g]
  BY <1>1 DEF GateType
<1>3. GateType'
  BY <1>1, <1>2 DEF GateType
<1>4. ASSUME NEW g \in Server, serving'[g] # Unused
      PROVE  /\ g # h /\ serving'[g] = serving[g] /\ serving[g] # Unused
             /\ KeyHeld(g)' /\ Placed(g)'
  <2>1. g # h /\ serving'[g] = serving[g] /\ serving[g] # Unused
    BY <1>2, <1>4
  <2>2. KeyHeld(g) /\ Placed(g) /\ Apart(g, h) /\ serving[g].key \in IdemKey
    BY <1>1, <2>1, HandlerIs DEF GateInv
  <2>3. serving[g].key # NoKey => records'[serving[g].key] = records[serving[g].key]
    BY <2>2 DEF Apart
  <2> QED BY <2>1, <2>2, <2>3 DEF KeyHeld, Placed
<1>5. \A f, g \in Server : f # g /\ serving'[f] # Unused /\ serving'[g] # Unused => Apart(f, g)'
  BY <1>4 DEF GateInv, Apart
<1>6. ASSUME NEW i \in DOMAIN orders PROVE OrderKept(i)'
  <2> SUFFICES ASSUME Owes(i)' PROVE OrderKept(i)'
    BY DEF OrderKept
  <2>1. Owes(i) /\ OrderKept(i) /\ orders[i].key \in IdemKey
    BY <1>1, OrderIs DEF Owes, GateInv
  <2>2. /\ records'[orders[i].key] # Unused
        /\ records'[orders[i].key].at = records[orders[i].key].at
    <3>1. CASE orders[i].key = k
      BY <2>1, <3>1
    <3>2. CASE orders[i].key # k
      BY <2>1, <3>2 DEF OrderKept
    <3> QED BY <3>1, <3>2
  <2> QED BY <1>4, <2>1, <2>2 DEF OrderKept
<1>7. \A i, j \in DOMAIN orders : OnceCharged(i, j)'
  BY DEF OnceCharged, GateInv
<1> QED BY <1>3, <1>4, <1>5, <1>6, <1>7 DEF GateInv

LEMMA AnswerKeeps ==
  ASSUME GateInv, NEW h \in Server, AnswerError(h) \/ Answer(h)
  PROVE  GateInv'
<1> DEFINE k == serving[h].key
<1>1. /\ GateType /\ serving[h] # Unused /\ KeyHeld(h) /\ Placed(h) /\ k \in IdemKey
      /\ serving' = [serving EXCEPT ![h] = Unused] /\ UNCHANGED <<orders, hour>>
      /\ records \in [IdemKey -> {Unused} \cup Memory] /\ hour \in Nat
  BY HandlerIs DEF GateInv, GateType, AnswerError, Answer, IsAt
<1>2. CASE AnswerError(h)
  <2>1. records' = [records EXCEPT ![k] = Unused] /\ serving[h].at = "failed"
    BY <1>2 DEF AnswerError, ForgetKey, IsAt
  <2>2. ASSUME NEW i \in DOMAIN orders, Owes(i), orders[i].key = k PROVE FALSE
    <3>1. serving[h].order = i
      BY <1>1, <2>2 DEF GateInv, OrderKept
    <3>2. i \in 1 .. Len(orders)
      BY <1>1, OrderIs
    <3> QED BY <2>1, <2>2, <3>1, <3>2, <1>1 DEF Placed, Owes
  <2>3. /\ records' \in [IdemKey -> {Unused} \cup Memory]
        /\ \A l \in IdemKey : l # k => records'[l] = records[l]
    BY <1>1, <2>1
  <2> QED BY <1>1, <2>2, <2>3, EndKeeps
<1>3. CASE Answer(h)
  <2>1. CASE k = NoKey
    <3>1. records' = records
      BY <1>3, <2>1 DEF Answer, Complete
    <3> QED BY <1>1, <2>1, <3>1, EndKeeps DEF Owes
  <2>2. CASE k # NoKey
    <3>1. records[k] # Unused /\ records[k] \in Memory
      BY <1>1, <2>2 DEF KeyHeld
    <3>2. PICK new : new = [records[k] EXCEPT !.done = TRUE]
      OBVIOUS
    <3>3. new \in Memory /\ new.at = records[k].at
      BY <3>1, <3>2 DEF Memory
    <3>4. new # Unused
      BY <3>3, GatewayAssumption DEF Memory
    <3>5. records' = [records EXCEPT ![k] = new]
      BY <1>3, <2>2, <3>1, <3>2 DEF Answer, Complete
    <3>6. /\ records' \in [IdemKey -> {Unused} \cup Memory] /\ records'[k] = new
          /\ \A l \in IdemKey : l # k => records'[l] = records[l]
      BY <1>1, <3>3, <3>5
    <3> QED BY <1>1, <3>3, <3>4, <3>6, EndKeeps
  <2> QED BY <2>1, <2>2
<1> QED BY <1>2, <1>3

LEMMA HourKeeps ==
  ASSUME GateInv, Hour
  PROVE  GateInv'
<1>1. /\ GateType /\ hour' = hour + 1 /\ hour \in Nat /\ UNCHANGED <<records, orders, serving>>
      /\ IdemTTL \in Nat
  BY GatewayAssumption DEF GateInv, GateType, Hour
<1>2. ASSUME NEW h \in Server, serving'[h] # Unused PROVE KeyHeld(h)' /\ Placed(h)'
  <2>1. /\ serving[h] # Unused /\ KeyHeld(h) /\ Placed(h) /\ serving[h].at = "wait"
        /\ hour + 1 - orders[serving[h].order].at < IdemTTL
    BY <1>1, <1>2 DEF GateInv, Hour, IsAt, Order
  <2>2. serving[h].order # 0
    BY <2>1 DEF Placed
  <2>3. KeyHeld(h)'
    <3>1. ASSUME serving[h].key # NoKey
          PROVE  /\ records[serving[h].key] # Unused
                 /\ hour' - records[serving[h].key].at < IdemTTL
      <4>1. /\ records[serving[h].key] # Unused
            /\ records[serving[h].key].at = orders[serving[h].order].at
        BY <2>1, <2>2, <3>1 DEF KeyHeld
      <4>2. hour' = hour + 1 /\ hour \in Nat
        BY <1>1
      <4>3. records[serving[h].key].at \in Nat
        <5>1. serving[h].key \in IdemKey
          BY <1>1, <2>1, HandlerIs
        <5> QED BY <1>1, <4>1, <5>1 DEF GateType, Memory
      <4> QED BY <2>1, <4>1, <4>2, <4>3
    <3>2. UNCHANGED <<records, orders, serving>>
      BY <1>1
    <3> QED BY <2>1, <3>1, <3>2 DEF KeyHeld
  <2>4. Placed(h)'
    BY <1>1, <2>1 DEF Placed
  <2> QED BY <2>3, <2>4
<1>3. ASSUME NEW i \in DOMAIN orders PROVE OrderKept(i)'
  <2>1. Owes(i)' => Owes(i)
    <3>1. orders[i].at \in Nat
      BY <1>1, OrderIs
    <3> QED BY <1>1, <3>1 DEF Owes
  <2> QED BY <1>1, <2>1 DEF GateInv, OrderKept
<1>4. \A g, h \in Server : g # h /\ serving'[g] # Unused /\ serving'[h] # Unused => Apart(g, h)'
  BY <1>1 DEF GateInv, Apart
<1>5. \A i, j \in DOMAIN orders : OnceCharged(i, j)'
  BY <1>1 DEF GateInv, OnceCharged
<1>6. GateType'
  BY <1>1 DEF GateType
<1> QED BY <1>1, <1>2, <1>3, <1>4, <1>5, <1>6 DEF GateInv

LEMMA RebootKeeps ==
  ASSUME GateInv, Reboot
  PROVE  GateInv'
<1>1. /\ GateType /\ UNCHANGED <<records, hour>> /\ orders \in Seq(Opened)
      /\ serving' = [h \in Server |-> Unused]
      /\ orders' = [i \in DOMAIN orders |->
                      IF orders[i].state = "open" THEN [orders[i] EXCEPT !.state = "failed"] ELSE orders[i]]
  BY DEF GateInv, GateType, Reboot
<1>2. ASSUME NEW i \in DOMAIN orders
      PROVE  /\ orders'[i] \in Opened
             /\ orders'[i].key = orders[i].key /\ orders'[i].at = orders[i].at
             /\ orders[i].state = "failed" => orders'[i].state = "failed"
             /\ orders[i].cut => orders'[i].cut
  <2>1. orders[i] \in Opened
    BY <1>1
  <2>2. orders'[i] = IF orders[i].state = "open" THEN [orders[i] EXCEPT !.state = "failed"] ELSE orders[i]
    BY <1>1
  <2>3. CASE orders[i].state = "open"
    BY <2>1, <2>2, <2>3 DEF Opened
  <2>4. CASE orders[i].state # "open"
    BY <2>1, <2>2, <2>4
  <2> QED BY <2>3, <2>4
<1>3. orders' \in Seq(Opened) /\ Len(orders') = Len(orders)
  <2>1. DOMAIN orders' = 1 .. Len(orders) /\ Len(orders) \in Nat /\ orders' = [i \in 1 .. Len(orders) |-> orders'[i]]
    BY <1>1
  <2> QED BY <1>2, <2>1, IsASeq
<1>4. \A h \in Server : serving'[h] = Unused
  BY <1>1
<1>5. serving' \in [Server -> {Unused} \cup Handling]
  BY <1>1
<1> QED BY <1>1, <1>2, <1>3, <1>4, <1>5, FurtherKeeps

LEMMA GateStep ==
  ASSUME GateInv, [GatewayNext]_gatewayVars
  PROVE  GateInv'
<1>1. CASE UNCHANGED gatewayVars
  <2>1. UNCHANGED <<records, orders, serving, hour>>
    BY <1>1 DEF gatewayVars
  <2>2. \A h \in Server : Placed(h) => Placed(h)'
    BY <2>1 DEF Placed
  <2> QED BY <2>1, <2>2, FurtherKeeps DEF GateInv, GateType
<1>2. CASE GatewayNext
  BY <1>2, PostKeeps, SubmitKeeps, HandlerKeeps, AnswerKeeps, PaymentKeeps, HourKeeps, RebootKeeps
     DEF GatewayNext
<1> QED BY <1>1, <1>2

LEMMA GateInitially == GatewayInit => GateInv
  BY DEF GatewayInit, GateInv, GateType

\* A key pays once: posts under it that race, follow an answer, or follow a restart open no second
\* job that is charged, but for a job whose handler stopped waiting for its payment (Reserve,
\* Complete and ForgetKey around chatCompletions).
THEOREM KeyPaysOnce == GatewaySpec => []ChargedOnceAnswered
<1>1. GateInv => ChargedOnceAnswered
  BY DEF GateInv, OnceCharged, ChargedOnceAnswered, Doubled
<1> QED BY <1>1, GateInitially, GateStep, PTL DEF GatewaySpec

-----------------------------------------------------------------------------
(* Access: an authorization is run once in the life of a process. *)

UseType ==
  /\ moment \in Nat /\ moment >= AuthWindow
  /\ process \in 0 .. MaxRestarts
  /\ seenAuths \in [Auth -> {Absent} \cup Nat]
  /\ ran \in [Auth -> [0 .. MaxRestarts -> Nat]]

\* What was run by this process is remembered, since no earlier than it was fresh, or it is stale.
UsedOnce(a) ==
  SignedAt[a] <= AuthWindow =>
    /\ \A p \in 0 .. MaxRestarts : ran[a][p] <= 1 /\ (p > process => ran[a][p] = 0)
    /\ ran[a][process] = 0 \/ seenAuths[a] # Absent \/ moment - SignedAt[a] > AuthWindow

UseInv ==
  /\ UseType
  /\ \A a \in Auth : seenAuths[a] # Absent => seenAuths[a] >= AuthWindow
  /\ \A a \in Auth : UsedOnce(a)

LEMMA VerifyKeeps ==
  ASSUME UseInv, NEW a \in Auth, Verify(a), UNCHANGED <<moment, process>>
  PROVE  UseInv'
<1> DEFINE purges == moment - authPurge > AuthWindow
           known == [b \in Auth |-> IF purges /\ Forgets(seenAuths[b]) THEN Absent ELSE seenAuths[b]]
<1>1. /\ UseType /\ AuthWindow \in Nat /\ Absent \notin Nat /\ MaxRestarts \in Nat
      /\ SignedAt \in [Auth -> Nat] /\ moment \in Nat /\ moment >= AuthWindow
      /\ moment - SignedAt[a] <= AuthWindow
  BY AccessAssumption DEF UseInv, UseType, Verify, Fresh
<1>2. /\ known \in [Auth -> {Absent} \cup Nat]
      /\ \A b \in Auth : known[b] # Absent => known[b] = seenAuths[b]
  BY <1>1 DEF UseType
<1>3. ASSUME NEW b \in Auth, SignedAt[b] <= AuthWindow
      PROVE  ran[b][process] = 0 \/ known[b] # Absent \/ moment - SignedAt[b] > AuthWindow
  <2> SUFFICES ASSUME seenAuths[b] # Absent, known[b] = Absent
               PROVE  moment - SignedAt[b] > AuthWindow
    BY <1>3 DEF UseInv, UsedOnce
  <2>1. moment - seenAuths[b] > AuthWindow
    BY DEF Forgets
  <2>2. seenAuths[b] \in Nat /\ SignedAt[b] \in Nat /\ seenAuths[b] >= AuthWindow
    BY <1>1 DEF UseInv, UseType
  <2> QED BY <1>1, <1>3, <2>1, <2>2
<1>4. \/ known[a] = Absent /\ seenAuths' = [known EXCEPT ![a] = moment]
         /\ ran' = [ran EXCEPT ![a][process] = @ + 1]
      \/ known[a] # Absent /\ seenAuths' = known /\ UNCHANGED ran
  BY DEF Verify, Accepted
<1> HIDE DEF known
<1>5. CASE known[a] # Absent /\ seenAuths' = known /\ UNCHANGED ran
  <2>1. UseType'
    BY <1>1, <1>2, <1>5 DEF UseType
  <2>2. \A b \in Auth : seenAuths'[b] # Absent => seenAuths'[b] >= AuthWindow
    BY <1>2, <1>5 DEF UseInv
  <2>3. ASSUME NEW b \in Auth PROVE UsedOnce(b)'
    BY <1>3, <1>5 DEF UseInv, UsedOnce
  <2> QED BY <2>1, <2>2, <2>3 DEF UseInv
<1>6. CASE known[a] = Absent /\ seenAuths' = [known EXCEPT ![a] = moment]
           /\ ran' = [ran EXCEPT ![a][process] = @ + 1]
  <2>1. /\ seenAuths' \in [Auth -> {Absent} \cup Nat] /\ seenAuths'[a] = moment
        /\ \A b \in Auth : b # a => seenAuths'[b] = known[b]
    BY <1>1, <1>2, <1>6
  <2>2. /\ ran[a] \in [0 .. MaxRestarts -> Nat] /\ process \in 0 .. MaxRestarts
        /\ ran \in [Auth -> [0 .. MaxRestarts -> Nat]]
    BY <1>1 DEF UseType
  <2>3. [ran[a] EXCEPT ![process] = ran[a][process] + 1] \in [0 .. MaxRestarts -> Nat]
    BY <2>2
  <2>4. ran' = [ran EXCEPT ![a] = [ran[a] EXCEPT ![process] = ran[a][process] + 1]]
    BY <1>6
  <2>5. /\ ran' \in [Auth -> [0 .. MaxRestarts -> Nat]]
        /\ ran'[a] = [ran[a] EXCEPT ![process] = ran[a][process] + 1]
        /\ \A b \in Auth : b # a => ran'[b] = ran[b]
    BY <2>2, <2>3, <2>4
  <2>6. /\ ran'[a][process] = ran[a][process] + 1
        /\ \A p \in 0 .. MaxRestarts : p # process => ran'[a][p] = ran[a][p]
    BY <2>2, <2>5
  <2>7. UseType'
    BY <1>1, <2>1, <2>5 DEF UseType
  <2>8. \A b \in Auth : seenAuths'[b] # Absent => seenAuths'[b] >= AuthWindow
    BY <1>1, <1>2, <2>1 DEF UseInv
  <2>9. ASSUME SignedAt[a] <= AuthWindow PROVE UsedOnce(a)'
    <3>1. ran[a][process] = 0
      BY <1>1, <1>3, <1>6, <2>9
    <3>2. \A p \in 0 .. MaxRestarts : ran'[a][p] <= 1 /\ (p > process => ran'[a][p] = 0)
      <4> SUFFICES ASSUME NEW p \in 0 .. MaxRestarts
                   PROVE  ran'[a][p] <= 1 /\ (p > process => ran'[a][p] = 0)
        OBVIOUS
      <4>1. ran[a][p] <= 1 /\ (p > process => ran[a][p] = 0)
        BY <2>9 DEF UseInv, UsedOnce
      <4>2. CASE p = process
        BY <1>1, <2>2, <2>6, <3>1, <4>2
      <4>3. CASE p # process
        BY <2>6, <4>1, <4>3
      <4> QED BY <4>2, <4>3
    <3>3. seenAuths'[a] # Absent
      BY <1>1, <2>1
    <3> QED BY <3>2, <3>3 DEF UsedOnce
  <2>10. ASSUME NEW b \in Auth, b # a PROVE UsedOnce(b)'
    BY <1>3, <2>1, <2>5, <2>10 DEF UseInv, UsedOnce
  <2>11. \A b \in Auth : UsedOnce(b)'
    BY <2>9, <2>10 DEF UsedOnce
  <2> QED BY <2>7, <2>8, <2>11 DEF UseInv
<1> QED BY <1>4, <1>5, <1>6

LEMMA UseStep ==
  ASSUME UseInv, [AccessNext]_accessVars
  PROVE  UseInv'
<1>1. /\ AuthWindow \in Nat /\ MaxRestarts \in Nat /\ SignedAt \in [Auth -> Nat]
      /\ moment \in Nat /\ moment >= AuthWindow /\ process \in 0 .. MaxRestarts
  BY AccessAssumption DEF UseInv, UseType
<1>2. CASE UNCHANGED <<moment, process, seenAuths, ran>>
  BY <1>2 DEF UseInv, UseType, UsedOnce
<1>3. CASE AccessTick
  <2>1. moment' = moment + 1 /\ UNCHANGED <<process, seenAuths, ran>>
    BY <1>3 DEF AccessTick, authVars
  <2>2. UseType'
    BY <1>1, <2>1 DEF UseInv, UseType
  <2>3. ASSUME NEW a \in Auth PROVE UsedOnce(a)'
    <3>1. SignedAt[a] \in Nat /\ UsedOnce(a)
      BY <1>1 DEF UseInv
    <3>2. moment - SignedAt[a] > AuthWindow => moment' - SignedAt[a] > AuthWindow
      BY <1>1, <2>1, <3>1
    <3> QED BY <2>1, <3>1, <3>2 DEF UsedOnce
  <2> QED BY <2>1, <2>2, <2>3 DEF UseInv
<1>4. CASE AccessRestart
  <2>1. /\ process < MaxRestarts /\ process' = process + 1
        /\ seenAuths' = [a \in Auth |-> Absent] /\ UNCHANGED <<moment, ran>>
    BY <1>4 DEF AccessRestart
  <2>2. UseType' /\ process' \in 0 .. MaxRestarts /\ process' > process
    BY <1>1, <2>1 DEF UseInv, UseType
  <2>3. ASSUME NEW a \in Auth PROVE UsedOnce(a)'
    <3>1. \A p \in 0 .. MaxRestarts : p > process' => p > process
      BY <1>1, <2>1
    <3> QED BY <2>1, <2>2, <3>1 DEF UseInv, UsedOnce
  <2> QED BY <2>1, <2>2, <2>3 DEF UseInv
<1>5. CASE \E c \in Client, a \in Auth : ServeRun(c, a)
  BY <1>5, VerifyKeeps DEF ServeRun
<1> QED BY <1>2, <1>3, <1>4, <1>5 DEF AccessNext, RefuseRequest, ServeRead, ReplaceKeys, authVars,
        accessVars

LEMMA UseInitially == AccessInit => UseInv
<1> SUFFICES ASSUME AccessInit PROVE UseInv
  OBVIOUS
<1>1. /\ moment = AuthWindow /\ process = 0 /\ seenAuths = [a \in Auth |-> Absent]
      /\ ran = [a \in Auth |-> [p \in 0 .. MaxRestarts |-> 0]]
      /\ AuthWindow \in Nat /\ MaxRestarts \in Nat
  BY AccessAssumption DEF AccessInit
<1>2. UseType
  BY <1>1 DEF UseType
<1>3. \A a \in Auth : UsedOnce(a)
  BY <1>1 DEF UsedOnce
<1> QED BY <1>1, <1>2, <1>3 DEF UseInv

\* An authorization that is not dated ahead of the clock is run once in the life of a process: it
\* is remembered for as long as it is fresh (runAuthVerifier.accept).
THEOREM AuthorizationRunsOnce == AccessSpec => []SingleUse
<1>1. UseInv => SingleUse
  <2> SUFFICES ASSUME UseInv, NEW a \in Auth, SignedAt[a] <= AuthWindow, NEW p \in 0 .. process
               PROVE  ran[a][p] <= 1
    BY DEF SingleUse
  <2>1. p \in 0 .. MaxRestarts
    BY AccessAssumption DEF UseInv, UseType
  <2> QED BY <2>1 DEF UseInv, UsedOnce
<1> QED BY <1>1, UseInitially, UseStep, PTL DEF AccessSpec

\* Retrying costs a buyer nothing: both, in the program that serves the request.
THEOREM RetriesServedOnce == RequestSpec => []ServedOnce
<1>1. RequestInit => UseInv /\ GateInv
  BY UseInitially, GateInitially DEF RequestInit
<1>2. UseInv /\ GateInv /\ [RequestNext]_<<vars, paths, node, part>> => UseInv' /\ GateInv'
  <2> SUFFICES ASSUME UseInv, GateInv, [RequestNext]_<<vars, paths, node, part>>
               PROVE  UseInv' /\ GateInv'
    OBVIOUS
  <2>1. [AccessNext]_accessVars /\ [GatewayNext]_gatewayVars
    BY DEF RequestNext, StepOfInference, StepOfAccess, StepOfGateway, StepOfMetering, StepOfPurchase,
       StepOfLifecycle, StepOfWatch, StepOfDial, paths
  <2> QED BY <2>1, UseStep, GateStep
<1>3. UseInv /\ GateInv => ServedOnce
  <2> SUFFICES ASSUME UseInv, GateInv PROVE ServedOnce
    OBVIOUS
  <2>1. ChargedOnceAnswered
    BY DEF GateInv, OnceCharged, ChargedOnceAnswered, Doubled
  <2>2. ASSUME NEW a \in Auth, SignedAt[a] <= AuthWindow, NEW p \in 0 .. process PROVE ran[a][p] <= 1
    <3>1. p \in 0 .. MaxRestarts
      BY AccessAssumption DEF UseInv, UseType
    <3> QED BY <2>2, <3>1 DEF UseInv, UsedOnce
  <2> QED BY <2>1, <2>2 DEF ServedOnce, SingleUse
<1> QED BY <1>1, <1>2, <1>3, PTL DEF RequestSpec

-----------------------------------------------------------------------------
(* Access: the rate of a caller. *)

\* A bucket that nobody used for the life of an idle bucket is full again: the defaults of the
\* code, a burst of a minute's requests and ten minutes of life, say so.
FillsWhileIdle == Burst <= IdleTTL * Refill

Bucket == [tokens : 0 .. Burst, at : Nat]

RateType ==
  /\ moment \in Nat
  /\ buckets \in [Client -> Bucket \cup {Absent}]
  /\ \A c \in Client : buckets[c] # Absent => buckets[c].at <= moment
  /\ admittedSince \in [Client -> [0 .. MaxMoment -> Nat]]

\* What a caller was let through since a moment, with what it may still ask for at once, is no
\* more than a full bucket and what it gained since.
Earned(c) ==
  \A s \in 0 .. MaxMoment :
    /\ s <= moment => Cost * admittedSince[c][s] + Refilled(buckets[c]) <= Burst + Refill * (moment - s)
    /\ s > moment => admittedSince[c][s] = 0

RateInv == RateType /\ moment <= MaxMoment /\ \A c \in Client : Earned(c)

LEMMA AtMost ==
  ASSUME NEW n \in Nat
  PROVE  Min({n, Burst}) \in 0 .. Burst /\ Min({n, Burst}) = IF n <= Burst THEN n ELSE Burst
  BY AccessAssumption DEF Min

LEMMA RefilledIs ==
  ASSUME moment \in Nat, NEW b \in Bucket, b.at <= moment, b # Absent
  PROVE  /\ Refilled(b) \in 0 .. Burst
         /\ Refilled(b) = IF b.tokens + (moment - b.at) * Refill <= Burst
                          THEN b.tokens + (moment - b.at) * Refill ELSE Burst
<1> DEFINE gained == b.tokens + (moment - b.at) * Refill
<1>1. /\ Burst \in Nat /\ Refill \in Nat /\ b.tokens \in 0 .. Burst /\ moment - b.at \in Nat
  BY AccessAssumption DEF Bucket
<1>2. (moment - b.at) * Refill \in Nat
  BY <1>1
<1>3. gained \in Nat
  BY <1>1, <1>2
<1>4. Refilled(b) = Min({gained, Burst})
  BY DEF Refilled
<1> HIDE DEF gained
<1> QED BY <1>3, <1>4, AtMost DEF gained

\* A purge gives a bucket back as full as it was.
LEMMA PurgeKeepsTokens ==
  ASSUME RateType, FillsWhileIdle, NEW c \in Client
  PROVE  /\ PurgedBuckets \in [Client -> Bucket \cup {Absent}]
         /\ PurgedBuckets[c] # Absent => PurgedBuckets[c] = buckets[c]
         /\ Refilled(PurgedBuckets[c]) = Refilled(buckets[c])
         /\ Refilled(buckets[c]) \in 0 .. Burst
<1>1. /\ moment \in Nat /\ Burst \in Nat /\ Refill \in Nat /\ IdleTTL \in Nat
      /\ buckets \in [Client -> Bucket \cup {Absent}] /\ (buckets[c] # Absent => buckets[c].at <= moment)
  BY AccessAssumption DEF RateType
<1>2. PurgedBuckets \in [Client -> Bucket \cup {Absent}]
  BY <1>1 DEF PurgedBuckets
<1>3. \/ PurgedBuckets[c] = buckets[c]
      \/ PurgedBuckets[c] = Absent /\ buckets[c] # Absent /\ moment - buckets[c].at >= IdleTTL
  BY <1>1 DEF PurgedBuckets, IdleFor
<1>4. Refilled(buckets[c]) \in 0 .. Burst
  <2>1. CASE buckets[c] = Absent
    BY <1>1, <2>1 DEF Refilled
  <2>2. CASE buckets[c] # Absent
    BY <1>1, <2>2, RefilledIs
  <2> QED BY <2>1, <2>2
<1>5. ASSUME PurgedBuckets[c] = Absent, buckets[c] # Absent, moment - buckets[c].at >= IdleTTL
      PROVE  Refilled(PurgedBuckets[c]) = Refilled(buckets[c])
  <2>1. /\ buckets[c].tokens \in 0 .. Burst /\ buckets[c].at \in Nat /\ buckets[c] \in Bucket
    BY <1>1, <1>5 DEF Bucket
  <2>2. (moment - buckets[c].at) * Refill >= IdleTTL * Refill
    BY <1>1, <1>5, <2>1
  <2>3. (moment - buckets[c].at) * Refill \in Int /\ IdleTTL * Refill \in Int
    BY <1>1, <2>1
  <2>4. buckets[c].tokens + (moment - buckets[c].at) * Refill >= Burst
    BY <1>1, <2>1, <2>2, <2>3 DEF FillsWhileIdle
  <2>5. Refilled(buckets[c]) = Burst
    <3> DEFINE gained == buckets[c].tokens + (moment - buckets[c].at) * Refill
    <3>1. gained \in Int /\ gained >= Burst
      BY <2>1, <2>3, <2>4
    <3>2. Refilled(buckets[c]) = IF gained <= Burst THEN gained ELSE Burst
      BY <1>1, <1>5, <2>1, RefilledIs
    <3> HIDE DEF gained
    <3> QED BY <1>1, <3>1, <3>2
  <2> QED BY <1>5, <2>5 DEF Refilled
<1> QED BY <1>2, <1>3, <1>4, <1>5

LEMMA AllowKeeps ==
  ASSUME RateInv, FillsWhileIdle, NEW c \in Client, NEW admitted \in BOOLEAN, Allow(c, admitted),
         UNCHANGED moment
  PROVE  RateInv'
<1> DEFINE n == Refilled(PurgedBuckets[c])
           left == IF admitted THEN n - Cost ELSE n
           kept == [tokens |-> left, at |-> moment]
<1>1. /\ RateType /\ moment \in Nat /\ moment <= MaxMoment /\ Cost \in Nat /\ Burst \in Nat /\ MaxMoment \in Nat
      /\ Refill \in Nat /\ (\A d \in Client : Earned(d))
      /\ admittedSince \in [Client -> [0 .. MaxMoment -> Nat]]
  BY AccessAssumption DEF RateInv, RateType
<1>2. /\ n \in 0 .. Burst /\ n = Refilled(buckets[c])
      /\ PurgedBuckets \in [Client -> Bucket \cup {Absent}]
  BY <1>1, PurgeKeepsTokens
<1>3. /\ admitted = (n >= Cost)
      /\ buckets' = [PurgedBuckets EXCEPT ![c] = kept]
      /\ admittedSince' = IF admitted THEN [admittedSince EXCEPT ![c] = OneMore(c)] ELSE admittedSince
  BY DEF Allow, Affordable
<1> HIDE DEF n
<1>4. left \in 0 .. Burst
  <2>1. ASSUME admitted PROVE left = n - Cost /\ n >= Cost
    BY <1>3, <2>1
  <2>2. ASSUME ~admitted PROVE left = n
    BY <2>2
  <2>3. (left = n - Cost /\ n >= Cost) \/ left = n
    BY <2>1, <2>2
  <2> HIDE DEF left
  <2> QED BY <1>1, <1>2, <2>3
<1> HIDE DEF left
<1>5. kept \in Bucket /\ kept # Absent /\ kept.at = moment /\ kept.tokens = left
  BY <1>1, <1>4, AccessAssumption DEF Bucket
<1>6. /\ buckets' \in [Client -> Bucket \cup {Absent}] /\ buckets'[c] = kept
      /\ \A d \in Client : d # c => buckets'[d] = PurgedBuckets[d]
  BY <1>2, <1>3, <1>5
<1>7. OneMore(c) \in [0 .. MaxMoment -> Nat]
  <2>1. \A t \in 0 .. MaxMoment : admittedSince[c][t] \in Nat /\ admittedSince[c][t] + 1 \in Nat
    BY <1>1
  <2> QED BY <2>1 DEF OneMore
<1>8. /\ admittedSince' \in [Client -> [0 .. MaxMoment -> Nat]]
      /\ \A d \in Client : d # c => admittedSince'[d] = admittedSince[d]
      /\ admitted => admittedSince'[c] = OneMore(c)
      /\ ~admitted => admittedSince'[c] = admittedSince[c]
  BY <1>1, <1>3, <1>7
<1> HIDE DEF kept
<1>9. RateType'
  <2>1. ASSUME NEW d \in Client, buckets'[d] # Absent PROVE buckets'[d].at <= moment
    <3>1. CASE d = c
      BY <1>1, <1>5, <1>6, <3>1
    <3>2. CASE d # c
      BY <1>1, <1>6, <2>1, <3>2, PurgeKeepsTokens DEF RateType
    <3> QED BY <3>1, <3>2
  <2> QED BY <1>1, <1>6, <1>8, <2>1 DEF RateType
<1>10. ASSUME NEW d \in Client, d # c PROVE Earned(d)'
  <2>1. Refilled(buckets[d])' = Refilled(buckets[d])
    <3>1. Refilled(buckets[d])' = Refilled(PurgedBuckets[d])
      BY <1>6, <1>10 DEF Refilled
    <3> QED BY <1>1, <3>1, PurgeKeepsTokens
  <2> QED BY <1>1, <1>8, <1>10, <2>1 DEF Earned
<1>11. Refilled(buckets[c])' = left
  <2>1. Refilled(buckets[c])' = Refilled(kept)
    BY <1>6 DEF Refilled
  <2>2. kept.tokens + (moment - kept.at) * Refill = left
    BY <1>1, <1>4, <1>5
  <2>3. Refilled(kept) = IF left <= Burst THEN left ELSE Burst
    BY <1>1, <1>4, <1>5, <2>2, RefilledIs
  <2> QED BY <1>4, <2>1, <2>3
<1>12. Earned(c)'
  <2> SUFFICES ASSUME NEW s \in 0 .. MaxMoment
               PROVE  /\ s <= moment => Cost * admittedSince'[c][s] + left <= Burst + Refill * (moment - s)
                      /\ s > moment => admittedSince'[c][s] = 0
    BY <1>11 DEF Earned
  <2>1. /\ s <= moment => Cost * admittedSince[c][s] + n <= Burst + Refill * (moment - s)
        /\ s > moment => admittedSince[c][s] = 0
    BY <1>1, <1>2 DEF Earned
  <2>2. admittedSince[c][s] \in Nat
    BY <1>1
  <2>3. CASE admitted
    <3>1. /\ s <= moment => admittedSince'[c][s] = admittedSince[c][s] + 1
          /\ s > moment => admittedSince'[c][s] = admittedSince[c][s]
      BY <1>1, <1>8, <2>3 DEF OneMore
    <3>2. left = n - Cost
      BY <2>3 DEF left
    <3>3. Cost * (admittedSince[c][s] + 1) = Cost * admittedSince[c][s] + Cost
      BY <1>1, <2>2
    <3>4. Cost * admittedSince[c][s] \in Int /\ n \in Int
      BY <1>1, <1>2, <2>2
    <3>5. (Cost * admittedSince[c][s] + Cost) + left = Cost * admittedSince[c][s] + n
      BY <1>1, <3>2, <3>4
    <3> QED BY <2>1, <3>1, <3>3, <3>5
  <2>4. CASE ~admitted
    BY <1>8, <2>1, <2>4 DEF left
  <2> QED BY <2>3, <2>4
<1>13. \A d \in Client : Earned(d)'
  BY <1>10, <1>12
<1>14. (\A d \in Client : Earned(d))'
  BY <1>13
<1> QED BY <1>1, <1>9, <1>14 DEF RateInv

LEMMA RateTickKeeps ==
  ASSUME RateInv, AccessTick
  PROVE  RateInv'
<1>1. /\ RateType /\ moment \in Nat /\ MaxMoment \in Nat /\ Cost \in Nat /\ Burst \in Nat /\ Refill \in Nat
      /\ moment < MaxMoment /\ moment' = moment + 1 /\ UNCHANGED <<buckets, admittedSince>>
      /\ admittedSince \in [Client -> [0 .. MaxMoment -> Nat]] /\ buckets \in [Client -> Bucket \cup {Absent}]
  BY AccessAssumption DEF RateInv, RateType, AccessTick, limiterVars
<1>2. RateType' /\ moment' <= MaxMoment
  <2>1. ASSUME NEW d \in Client, buckets[d] # Absent PROVE buckets[d].at <= moment'
    <3>1. buckets[d].at \in Nat /\ buckets[d].at <= moment
      BY <1>1, <2>1 DEF RateType, Bucket
    <3> QED BY <1>1, <3>1
  <2> QED BY <1>1, <2>1 DEF RateType
<1>3. ASSUME NEW c \in Client PROVE Earned(c)'
  <2> DEFINE had == Refilled(buckets[c])
             has == Refilled(buckets[c])'
  <2>1. has \in 0 .. Burst /\ had \in 0 .. Burst /\ has <= had + Refill
    <3>1. CASE buckets[c] = Absent
      BY <1>1, <3>1 DEF Refilled
    <3>2. CASE buckets[c] # Absent
      <4>1. buckets[c] \in Bucket /\ buckets[c].at \in Nat /\ buckets[c].at <= moment /\ buckets[c].tokens \in 0 .. Burst
        BY <1>1, <3>2 DEF RateType, Bucket
      <4> DEFINE more == (moment - buckets[c].at) * Refill
                 later == (moment' - buckets[c].at) * Refill
      <4>2. had \in 0 .. Burst /\ had = IF buckets[c].tokens + more <= Burst THEN buckets[c].tokens + more ELSE Burst
        BY <1>1, <3>2, <4>1, RefilledIs
      <4>3. has \in 0 .. Burst /\ has = IF buckets[c].tokens + later <= Burst THEN buckets[c].tokens + later ELSE Burst
        <5>1. later \in Nat
          BY <1>1, <4>1
        <5>2. has = Min({buckets[c].tokens + later, Burst})
          BY <1>1, <3>2 DEF Refilled
        <5> HIDE DEF later, has
        <5>3. buckets[c].tokens + later \in Nat
          BY <1>1, <4>1, <5>1
        <5> QED BY <5>2, <5>3, AtMost
      <4>4. /\ more \in Int /\ later = more + Refill
        <5>1. moment' - buckets[c].at = (moment - buckets[c].at) + 1
          BY <1>1, <4>1
        <5>2. ((moment - buckets[c].at) + 1) * Refill = (moment - buckets[c].at) * Refill + Refill
          BY <1>1, <4>1
        <5> QED BY <1>1, <4>1, <5>1, <5>2
      <4> HIDE DEF more, later, had, has
      <4> QED BY <1>1, <4>1, <4>2, <4>3, <4>4
    <3> QED BY <3>1, <3>2
  <2> HIDE DEF had, has
  <2>2. ASSUME NEW s \in 0 .. MaxMoment
        PROVE  /\ s <= moment' => Cost * admittedSince[c][s] + has <= Burst + Refill * (moment' - s)
               /\ s > moment' => admittedSince[c][s] = 0
    <3>1. /\ s <= moment => Cost * admittedSince[c][s] + had <= Burst + Refill * (moment - s)
          /\ s > moment => admittedSince[c][s] = 0
      BY DEF RateInv, Earned, had
    <3>2. admittedSince[c][s] \in Nat /\ Cost * admittedSince[c][s] \in Int
      BY <1>1
    <3>3. CASE s <= moment
      <4>1. Refill * (moment' - s) = Refill * (moment - s) + Refill /\ Refill * (moment - s) \in Int
        <5>1. moment' - s = (moment - s) + 1
          BY <1>1
        <5>2. Refill * ((moment - s) + 1) = Refill * (moment - s) + Refill
          BY <1>1
        <5> QED BY <1>1, <5>1, <5>2
      <4>2. Cost * admittedSince[c][s] + has <= Burst + (Refill * (moment - s) + Refill)
        BY <1>1, <2>1, <3>1, <3>2, <3>3, <4>1
      <4> QED BY <1>1, <3>3, <4>1, <4>2
    <3>4. CASE s > moment
      <4>1. admittedSince[c][s] = 0 /\ Cost * 0 = 0
        BY <1>1, <3>1, <3>4
      <4>2. s <= moment' => Refill * (moment' - s) = 0
        <5>1. s <= moment' => moment' - s = 0
          BY <1>1, <3>4
        <5> QED BY <1>1, <5>1
      <4> QED BY <1>1, <2>1, <4>1, <4>2
    <3> QED BY <1>1, <3>3, <3>4
  <2> QED BY <1>1, <2>2 DEF Earned, has
<1>4. (\A c \in Client : Earned(c))'
  BY <1>3
<1> QED BY <1>2, <1>4 DEF RateInv

LEMMA EmptyEarned ==
  ASSUME moment \in Nat, moment <= MaxMoment, buckets = [c \in Client |-> Absent],
         admittedSince = [c \in Client |-> [t \in 0 .. MaxMoment |-> 0]]
  PROVE  RateInv
<1>1. Burst \in Nat /\ Refill \in Nat /\ MaxMoment \in Nat /\ Cost \in Nat
  BY AccessAssumption
<1>2. RateType
  BY DEF RateType
<1>3. ASSUME NEW c \in Client, NEW s \in 0 .. MaxMoment, s <= moment
      PROVE  Cost * admittedSince[c][s] + Refilled(buckets[c]) <= Burst + Refill * (moment - s)
  <2>1. admittedSince[c][s] = 0 /\ Refilled(buckets[c]) = Burst /\ Cost * 0 = 0
    BY <1>1 DEF Refilled
  <2>2. moment - s \in Nat
    BY <1>1, <1>3
  <2>3. Refill * (moment - s) \in Nat
    BY <1>1, <2>2
  <2> QED BY <1>1, <2>1, <2>3
<1> QED BY <1>2, <1>3 DEF RateInv, Earned

LEMMA RateStep == RateInv /\ FillsWhileIdle /\ [AccessNext]_accessVars => RateInv'
<1> SUFFICES ASSUME RateInv, FillsWhileIdle, [AccessNext]_accessVars PROVE RateInv'
  OBVIOUS
<1>1. CASE UNCHANGED <<moment, buckets, admittedSince>>
  BY <1>1 DEF RateInv, RateType, Earned, Refilled
<1>2. CASE AccessTick
  BY <1>2, RateTickKeeps
<1>3. CASE AccessRestart
  <2>1. /\ moment' = moment /\ buckets' = [c \in Client |-> Absent] /\ moment \in Nat /\ moment <= MaxMoment
        /\ admittedSince' = [c \in Client |-> [t \in 0 .. MaxMoment |-> 0]]
    BY <1>3 DEF AccessRestart, RateInv, RateType
  <2>2. (moment \in Nat /\ moment <= MaxMoment /\ buckets = [c \in Client |-> Absent] /\
         admittedSince = [c \in Client |-> [t \in 0 .. MaxMoment |-> 0]] => RateInv)'
    BY EmptyEarned, PTL
  <2> QED BY <2>1, <2>2
<1>4. CASE \E c \in Client : \E admitted \in BOOLEAN : Allow(c, admitted) /\ UNCHANGED moment
  BY <1>4, AllowKeeps
<1> QED BY <1>1, <1>2, <1>3, <1>4 DEF AccessNext, RefuseRequest, ServeRead, ServeRun, ReplaceKeys,
        limiterVars, accessVars

\* In no window of time does a caller get more than a full bucket and what it gained meanwhile,
\* whatever the others send and however often their requests purge (rateLimiter.allow).
THEOREM RateIsKept == FillsWhileIdle /\ AccessSpec => []WithinRate
<1> SUFFICES ASSUME FillsWhileIdle PROVE AccessSpec => []WithinRate
  OBVIOUS
<1>1. AccessInit => RateInv
  BY EmptyEarned, AccessAssumption DEF AccessInit
<1>2. RateInv => WithinRate
  <2> SUFFICES ASSUME RateInv, NEW c \in Client, NEW s \in 0 .. moment
               PROVE  Cost * admittedSince[c][s] <= Burst + Refill * (moment - s)
    BY DEF WithinRate
  <2>1. s \in 0 .. MaxMoment /\ s <= moment /\ moment \in Nat /\ Burst \in Nat /\ Cost \in Nat /\ Refill \in Nat
    BY AccessAssumption DEF RateInv, RateType
  <2>2. Cost * admittedSince[c][s] + Refilled(buckets[c]) <= Burst + Refill * (moment - s)
    BY <2>1 DEF RateInv, Earned
  <2>3. Refilled(buckets[c]) \in 0 .. Burst
    <3>1. CASE buckets[c] = Absent
      BY <2>1, <3>1 DEF Refilled
    <3>2. CASE buckets[c] # Absent
      BY <2>1, <3>2, RefilledIs DEF RateInv, RateType
    <3> QED BY <3>1, <3>2
  <2>4. admittedSince[c][s] \in Nat
    BY <2>1 DEF RateInv, RateType
  <2>5. Cost * admittedSince[c][s] \in Int /\ Refill * (moment - s) \in Int
    BY <2>1, <2>4
  <2> QED BY <2>1, <2>2, <2>3, <2>5
<1>3. RateInv /\ [AccessNext]_accessVars => RateInv'
  BY RateStep
<1> QED BY <1>1, <1>2, <1>3, PTL DEF AccessSpec

-----------------------------------------------------------------------------
(* Purchase: what is signed with a buyer's key. *)

HeardOf ==
  [text : Nat, working : Nat, bill : Int, price : {0, AskPrice}, deposit : Nat, whole : BOOLEAN]

BuyType ==
  /\ order \in [at : {"none", "reserved", "funded", "running", "billed", "settled", "claimed"},
                text : Nat, working : Nat, bill : Int, deposit : Nat]
  /\ heard \in HeardOf
  /\ honest \in BOOLEAN /\ worked \in Nat
  /\ signatures \subseteq [what : {"deposit", "settlement", "recovered", "invoice"}, amount : Int, on : HeardOf]

\* The most that the text of the job can have cost.
Most == AskPrice * UnitBound(order.text, order.working)

\* What was heard is no more than what there is, and honest bills are of it.
Heeded ==
  /\ heard.text <= order.text /\ heard.working <= order.working /\ heard.deposit = order.deposit
  /\ honest /\ order.at = "billed" => order.bill \in 1 .. order.deposit /\ order.bill <= Most

BySeat ==
  /\ seat \in {"start", "ask", "plain", "invoiced"} => order.at = "none"
  /\ seat = "fund" => order.at = "reserved"
  /\ seat \in {"check", "settle"} => order.at \in {"billed", "claimed"}
  /\ seat = "check" => heard.bill = order.bill /\ (honest /\ heard.whole => Acceptable)
  /\ seat = "settle" => \E s \in signatures : s.what = "settlement"
  /\ seat = "refused" => ~(honest /\ heard.whole)
  /\ seat \in {"ask", "plain"} => worked = 0
  /\ worked <= 1
  /\ CutIsRecovered

\* A signature of each kind is the only one, and what is signed for a job is its bill.
Signed1(s) ==
  /\ s.what = "settlement" =>
       /\ seat \in {"settle", "done", "failed", "killed"}
       /\ order.at \in {"billed", "settled", "claimed"} /\ s.amount = order.bill
       /\ s.amount \in 1 .. s.on.deposit
       /\ s.on.price # 0 => s.amount <= Most
  /\ s.what = "recovered" =>
       seat \in {"failed", "refused", "killed"} /\ order.at = "settled" /\ s.amount = order.bill

SignedOnce ==
  /\ seat \in {"start", "fund", "ask", "plain", "invoiced"} => signatures = {}
  /\ \A s \in signatures : Signed1(s)
  /\ \A s, t \in signatures : s.what = t.what => s = t

BuyInv == BuyType /\ Heeded /\ BySeat /\ SignedOnce

LEMMA MostIs ==
  ASSUME BuyType
  PROVE  /\ AskPrice \in Nat \ {0} /\ Most \in Nat
         /\ heard.text <= order.text /\ heard.working <= order.working /\ heard.price # 0 =>
              UnitBound(heard.text, heard.working) * heard.price <= Most
         /\ heard.text = order.text /\ heard.working = order.working /\ heard.price # 0 =>
              UnitBound(heard.text, heard.working) * heard.price = Most
<1>1. /\ AskPrice \in Nat \ {0} /\ Prompt \in Nat /\ order.text \in Nat /\ order.working \in Nat
      /\ heard.text \in Nat /\ heard.working \in Nat /\ heard.price \in {0, AskPrice}
  BY PurchaseAssumption DEF BuyType, HeardOf
<1>2. \A a, x, y \in Nat : a * x \in Nat /\ a * x = x * a /\ (x <= y => a * x <= a * y)
  OBVIOUS
<1>3. /\ UnitBound(order.text, order.working) \in Nat /\ UnitBound(heard.text, heard.working) \in Nat
      /\ heard.text <= order.text /\ heard.working <= order.working =>
           UnitBound(heard.text, heard.working) <= UnitBound(order.text, order.working)
  BY <1>1 DEF UnitBound
<1>4. Most \in Nat
  BY <1>1, <1>2, <1>3 DEF Most
<1>5. ASSUME heard.price # 0, UnitBound(heard.text, heard.working) <= UnitBound(order.text, order.working)
      PROVE  UnitBound(heard.text, heard.working) * heard.price <= Most
  <2>1. heard.price = AskPrice
    BY <1>1, <1>5
  <2> QED BY <1>1, <1>2, <1>3, <1>5, <2>1 DEF Most
<1>6. ASSUME heard.price # 0, heard.text = order.text, heard.working = order.working
      PROVE  UnitBound(heard.text, heard.working) * heard.price = Most
  <2>1. heard.price = AskPrice
    BY <1>1, <1>6
  <2> QED BY <1>1, <1>2, <1>3, <1>6, <2>1 DEF Most
<1> QED BY <1>1, <1>3, <1>4, <1>5, <1>6

\* Steps of the buyer that sign nothing and hear nothing.
LEMMA SeatKeeps ==
  ASSUME BuyInv, UNCHANGED <<honest, order, heard, signatures>>, worked' \in Nat, BySeat',
         seat' \in {"start", "fund", "ask", "plain", "invoiced"} => signatures = {},
         \A s \in signatures :
           /\ s.what = "settlement" => seat' \in {"settle", "done", "failed", "killed"}
           /\ s.what = "recovered" => seat' \in {"failed", "refused", "killed"}
  PROVE  BuyInv'
<1>1. Most' = Most
  BY DEF Most
<1>2. BuyType'
  BY DEF BuyInv, BuyType
<1>3. Heeded'
  BY <1>1 DEF BuyInv, Heeded
<1>4. ASSUME NEW s \in signatures' PROVE Signed1(s)'
  BY <1>1, <1>4 DEF BuyInv, SignedOnce, Signed1
<1>5. SignedOnce'
  BY <1>4 DEF BuyInv, SignedOnce
<1> QED BY <1>2, <1>3, <1>5 DEF BuyInv

LEMMA CommandKeeps ==
  ASSUME BuyInv, ContextEnds \/ GivesUp \/ LoseStream \/ Kill \/ RunWithProgress \/ RunPlain
  PROVE  BuyInv'
<1>1. /\ UNCHANGED <<honest, order, heard, signatures>> /\ BySeat /\ worked \in Nat
      /\ \A s \in signatures : Signed1(s)
      /\ seat \in {"start", "fund", "ask", "plain", "invoiced"} => signatures = {}
  BY DEF BuyInv, BuyType, SignedOnce, ContextEnds, GivesUp, LoseStream, Kill, RunWithProgress, RunPlain,
     Go, Fails
<1>2. /\ worked' \in Nat /\ worked' <= 1 /\ (seat' \in {"ask", "plain"} => worked' = 0)
      /\ seat' # seat => seat' \notin {"start", "fund", "ask", "check", "settle", "refused"}
      /\ seat' \in {"plain", "invoiced"} => seat \in {"ask", "plain", "invoiced"}
      /\ seat' = "failed" /\ seat # "failed" =>
           seat \in {"start", "fund", "ask", "plain", "invoiced"}
      /\ seat' # seat => seat \notin {"done", "failed", "refused", "killed"}
                         /\ (seat = "settle" => seat' = "killed")
      /\ recoveryAsked' = recoveryAsked
  BY <1>1 DEF BySeat, ContextEnds, GivesUp, LoseStream, Kill, RunWithProgress, RunPlain, Go, Fails, FallsBack
<1>3. Acceptable' = Acceptable
  BY <1>1 DEF Acceptable
<1>4. BySeat'
  BY <1>1, <1>2, <1>3 DEF BySeat, CutIsRecovered
<1>5. seat' \in {"start", "fund", "ask", "plain", "invoiced"} => signatures = {}
  BY <1>1, <1>2
<1>6. \A s \in signatures :
        /\ s.what = "settlement" => seat' \in {"settle", "done", "failed", "killed"}
        /\ s.what = "recovered" => seat' \in {"failed", "refused", "killed"}
  BY <1>1, <1>2 DEF Signed1
<1> QED BY <1>1, <1>2, <1>4, <1>5, <1>6, SeatKeeps

\* Steps of the node, before the bill is made.
LEMMA NodeKeeps ==
  ASSUME BuyInv, Produce \/ MakeBill \/ Claim
  PROVE  BuyInv'
<1>1. /\ BuyType /\ Heeded /\ BySeat /\ SignedOnce
      /\ UNCHANGED <<honest, seat, heard, recoveryAsked, signatures, worked>>
      /\ order \in [at : {"none", "reserved", "funded", "running", "billed", "settled", "claimed"},
                    text : Nat, working : Nat, bill : Int, deposit : Nat]
  BY DEF BuyInv, BuyType, Produce, MakeBill, Claim
<1>2. Acceptable' = Acceptable
  BY <1>1 DEF Acceptable
<1>3. CASE Produce
  <2>1. /\ order.at = "running"
        /\ \/ order' = [order EXCEPT !.text = order.text + 1]
           \/ order' = [order EXCEPT !.working = order.working + 1]
    BY <1>3 DEF Produce
  <2>2. /\ order' \in [at : {"none", "reserved", "funded", "running", "billed", "settled", "claimed"},
                       text : Nat, working : Nat, bill : Int, deposit : Nat]
        /\ order'.at = "running" /\ order'.deposit = order.deposit
        /\ order'.text >= order.text /\ order'.working >= order.working
    BY <1>1, <2>1
  <2>3. BuyType' /\ heard.text \in Nat /\ heard.working \in Nat
    BY <1>1, <2>2 DEF BuyType, HeardOf
  <2>4. Heeded'
    BY <1>1, <2>1, <2>2, <2>3 DEF Heeded
  <2>5. BySeat'
    BY <1>1, <1>2, <2>1, <2>2 DEF BySeat, CutIsRecovered
  <2>6. SignedOnce'
    BY <1>1, <2>1 DEF SignedOnce, Signed1
  <2> QED BY <2>3, <2>4, <2>5, <2>6 DEF BuyInv
<1>4. CASE MakeBill
  <2>1. PICK b \in Bills : order.at = "running" /\ order' = [order EXCEPT !.at = "billed", !.bill = b]
    BY <1>4 DEF MakeBill
  <2>2. b \in Int /\ (honest => b \in 1 .. order.deposit /\ b <= Most)
    BY <1>1, <2>1, MostIs DEF Bills, Most
  <2>3. /\ order' \in [at : {"none", "reserved", "funded", "running", "billed", "settled", "claimed"},
                       text : Nat, working : Nat, bill : Int, deposit : Nat]
        /\ order'.at = "billed" /\ order'.bill = b /\ order'.deposit = order.deposit
        /\ order'.text = order.text /\ order'.working = order.working
    BY <1>1, <2>1, <2>2
  <2>4. Most' = Most
    BY <2>3 DEF Most
  <2>5. BuyType'
    BY <1>1, <2>3 DEF BuyType
  <2>6. Heeded'
    BY <1>1, <2>2, <2>3, <2>4 DEF Heeded
  <2>7. BySeat'
    BY <1>1, <1>2, <2>1, <2>3 DEF BySeat, CutIsRecovered
  <2>8. SignedOnce'
    BY <1>1, <2>1 DEF SignedOnce, Signed1
  <2> QED BY <2>5, <2>6, <2>7, <2>8 DEF BuyInv
<1>5. CASE Claim
  <2>1. \/ order' = order
        \/ order.at \in {"funded", "running", "billed"} /\ order' = [order EXCEPT !.at = "claimed"]
    BY <1>5 DEF Claim
  <2>2. CASE order' = order
    <3>1. BySeat' /\ worked' \in Nat
      BY <1>1, <1>2, <2>2 DEF BySeat, CutIsRecovered, BuyType
    <3> QED BY <1>1, <2>2, <3>1, SeatKeeps DEF SignedOnce, Signed1
  <2>3. CASE order.at \in {"funded", "running", "billed"} /\ order' = [order EXCEPT !.at = "claimed"]
    <3>1. /\ order' \in [at : {"none", "reserved", "funded", "running", "billed", "settled", "claimed"},
                         text : Nat, working : Nat, bill : Int, deposit : Nat]
          /\ order'.at = "claimed" /\ order'.bill = order.bill /\ order'.deposit = order.deposit
          /\ order'.text = order.text /\ order'.working = order.working
      BY <1>1, <2>3
    <3>2. Most' = Most
      BY <3>1 DEF Most
    <3>3. BuyType' /\ Heeded'
      BY <1>1, <3>1 DEF BuyType, Heeded
    <3>4. BySeat'
      BY <1>1, <1>2, <2>3, <3>1 DEF BySeat, CutIsRecovered
    <3>5. SignedOnce'
      BY <1>1, <2>3, <3>1, <3>2 DEF SignedOnce, Signed1
    <3> QED BY <3>3, <3>4, <3>5 DEF BuyInv
  <2> QED BY <2>1, <2>2, <2>3
<1> QED BY <1>3, <1>4, <1>5

\* What one more signature changes.
LEMMA SignAdds ==
  ASSUME BuyInv, NEW what \in {"deposit", "settlement", "recovered", "invoice"}, NEW amount \in Int,
         Sign(what, amount), \A s \in signatures : s.what # what
  PROVE  \E new \in [what : {"deposit", "settlement", "recovered", "invoice"}, amount : Int, on : HeardOf] :
           /\ signatures' = signatures \cup {new}
           /\ new.what = what /\ new.amount = amount /\ new.on = heard
           /\ \A s, t \in signatures' : s.what = t.what => s = t
<1> DEFINE new == [what |-> what, amount |-> amount, on |-> heard]
<1>1. heard \in HeardOf /\ signatures' = signatures \cup {new}
  BY DEF BuyInv, BuyType, Sign
<1>2. new \in [what : {"deposit", "settlement", "recovered", "invoice"}, amount : Int, on : HeardOf]
      /\ new.what = what /\ new.amount = amount /\ new.on = heard
  BY <1>1
<1> HIDE DEF new
<1>3. \A s, t \in signatures' : s.what = t.what => s = t
  BY <1>1, <1>2 DEF BuyInv, SignedOnce
<1> QED BY <1>1, <1>2, <1>3

\* Up to the stream.
LEMMA OpenKeeps ==
  ASSUME BuyInv, ReserveJob \/ Fund \/ OpenStream
  PROVE  BuyInv'
<1>1. /\ BuyType /\ Heeded /\ BySeat /\ SignedOnce
      /\ order \in [at : {"none", "reserved", "funded", "running", "billed", "settled", "claimed"},
                    text : Nat, working : Nat, bill : Int, deposit : Nat]
      /\ heard \in HeardOf /\ AskPrice \in Nat
  BY PurchaseAssumption DEF BuyInv, BuyType
<1>2. CASE ReserveJob
  <2>1. PICK deposit \in Deposits, price \in {0, AskPrice} :
          /\ order' = [order EXCEPT !.at = "reserved", !.deposit = deposit]
          /\ heard' = [heard EXCEPT !.deposit = deposit, !.price = price]
          /\ seat' \in {"failed", "fund"} /\ seat = "start"
          /\ UNCHANGED <<honest, signatures, worked, recoveryAsked>>
    BY <1>2 DEF ReserveJob, Go
  <2>2. deposit \in Nat
    BY PurchaseAssumption
  <2>3. /\ order' \in [at : {"none", "reserved", "funded", "running", "billed", "settled", "claimed"},
                       text : Nat, working : Nat, bill : Int, deposit : Nat]
        /\ order'.at = "reserved" /\ order'.deposit = deposit
        /\ order'.text = order.text /\ order'.working = order.working
    BY <1>1, <2>1, <2>2
  <2>4. /\ heard' \in HeardOf /\ heard'.deposit = deposit
        /\ heard'.text = heard.text /\ heard'.working = heard.working
    BY <1>1, <2>1, <2>2 DEF HeardOf
  <2>5. signatures = {}
    BY <1>1, <2>1 DEF SignedOnce
  <2>6. BuyType' /\ Heeded'
    BY <1>1, <2>1, <2>3, <2>4 DEF BuyType, Heeded
  <2>7. BySeat'
    BY <1>1, <2>1, <2>3 DEF BySeat, CutIsRecovered
  <2>8. SignedOnce'
    BY <2>1, <2>5 DEF SignedOnce
  <2> QED BY <2>6, <2>7, <2>8 DEF BuyInv
<1>3. CASE Fund
  <2>1. /\ seat = "fund" /\ Sign("deposit", heard.deposit) /\ seat' \in {"open", "failed"}
        /\ order' = [order EXCEPT !.at = "funded"]
        /\ UNCHANGED <<honest, heard, recoveryAsked, worked>>
    BY <1>3 DEF Fund, Go
  <2>2. signatures = {} /\ heard.deposit \in Int
    BY <1>1, <2>1 DEF SignedOnce, HeardOf
  <2>3. PICK new \in [what : {"deposit", "settlement", "recovered", "invoice"}, amount : Int, on : HeardOf] :
          /\ signatures' = {new} /\ new.what = "deposit"
          /\ \A s, t \in signatures' : s.what = t.what => s = t
    BY <2>1, <2>2, SignAdds
  <2>4. /\ order' \in [at : {"none", "reserved", "funded", "running", "billed", "settled", "claimed"},
                       text : Nat, working : Nat, bill : Int, deposit : Nat]
        /\ order'.at = "funded" /\ order'.deposit = order.deposit
        /\ order'.text = order.text /\ order'.working = order.working
    BY <1>1, <2>1
  <2>5. BuyType' /\ Heeded'
    BY <1>1, <2>1, <2>3, <2>4 DEF BuyType, Heeded
  <2>6. BySeat'
    BY <1>1, <2>1, <2>4 DEF BySeat, CutIsRecovered
  <2>7. SignedOnce'
    BY <2>1, <2>3 DEF SignedOnce, Signed1
  <2> QED BY <2>5, <2>6, <2>7 DEF BuyInv
<1>4. CASE OpenStream
  <2>1. /\ seat = "open" /\ seat' = "stream" /\ order' = [order EXCEPT !.at = "running"]
        /\ UNCHANGED <<honest, heard, recoveryAsked, signatures, worked>>
    BY <1>4 DEF OpenStream, Go
  <2>2. /\ order' \in [at : {"none", "reserved", "funded", "running", "billed", "settled", "claimed"},
                       text : Nat, working : Nat, bill : Int, deposit : Nat]
        /\ order'.at = "running" /\ order'.deposit = order.deposit
        /\ order'.text = order.text /\ order'.working = order.working
    BY <1>1, <2>1
  <2>3. BuyType' /\ Heeded'
    BY <1>1, <2>1, <2>2 DEF BuyType, Heeded
  <2>4. BySeat'
    BY <1>1, <2>1, <2>2 DEF BySeat, CutIsRecovered
  <2>5. SignedOnce'
    BY <1>1, <2>1 DEF SignedOnce, Signed1
  <2> QED BY <2>3, <2>4, <2>5 DEF BuyInv
<1> QED BY <1>2, <1>3, <1>4

\* What is heard.
LEMMA HearingKeeps ==
  ASSUME BuyInv, UNCHANGED <<honest, order, signatures, worked>>, heard' \in HeardOf,
         heard'.text <= order.text, heard'.working <= order.working, heard'.deposit = heard.deposit,
         seat \in {"stream", "recover"},
         \/ seat' = "stream"
         \/ seat' = "failed" /\ recoveryAsked'
         \/ /\ seat' = "check" /\ order.at = "billed" /\ heard'.bill = order.bill
            /\ heard'.whole => heard'.text = order.text /\ heard'.working = order.working
  PROVE  BuyInv'
<1>1. BuyType /\ Heeded /\ BySeat /\ SignedOnce /\ Most' = Most
  BY DEF BuyInv, Most
<1>2. BuyType'
  BY <1>1 DEF BuyType
<1>3. Heeded'
  BY <1>1 DEF Heeded, Most
<1>4. SignedOnce'
  BY <1>1 DEF SignedOnce, Signed1
<1>5. ASSUME seat' = "check", honest', heard'.whole PROVE Acceptable'
  <2>1. /\ order.bill \in 1 .. order.deposit /\ order.bill <= Most
        /\ heard'.bill = order.bill /\ heard'.deposit = order.deposit
        /\ heard'.text = order.text /\ heard'.working = order.working
    BY <1>1, <1>5 DEF Heeded
  <2>2. BuyType' => (heard'.price # 0 => UnitBound(heard'.text, heard'.working) * heard'.price = Most')
    <3>1. heard'.price # 0 /\ BuyType' /\ heard'.text = order'.text /\ heard'.working = order'.working =>
            UnitBound(heard'.text, heard'.working) * heard'.price = Most'
      <4>1. (BuyType /\ heard.price # 0 /\ heard.text = order.text /\ heard.working = order.working =>
              UnitBound(heard.text, heard.working) * heard.price = Most)'
        BY MostIs, PTL
      <4> QED BY <4>1
    <3> QED BY <2>1, <3>1
  <2>3. order.bill \in Int /\ order.deposit \in Int /\ Most \in Int
    BY <1>1, MostIs DEF BuyType
  <2> QED BY <1>1, <1>2, <2>1, <2>2, <2>3 DEF Acceptable
<1>6. BySeat'
  BY <1>1, <1>5 DEF BySeat, CutIsRecovered
<1> QED BY <1>2, <1>3, <1>4, <1>6 DEF BuyInv

LEMMA HearKeeps ==
  ASSUME BuyInv, HearDelta \/ LastFrame \/ AskRecovery
  PROVE  BuyInv'
<1>1. /\ BuyType /\ Heeded /\ heard \in HeardOf
      /\ heard.text \in Nat /\ heard.working \in Nat /\ order.text \in Nat /\ order.working \in Nat
      /\ heard.text <= order.text /\ heard.working <= order.working /\ order.bill \in Int
  BY DEF BuyInv, BuyType, HeardOf, Heeded
<1>2. UNCHANGED <<honest, order, signatures, worked>> /\ seat \in {"stream", "recover"}
  BY DEF HearDelta, LastFrame, AskRecovery
<1>3. CASE HearDelta
  <2>1. /\ heard' = [heard EXCEPT !.text = heard.text + 1] /\ heard.text < order.text
        /\ seat' = "stream"
    BY <1>3 DEF HearDelta
  <2>2. /\ heard' \in HeardOf /\ heard'.text = heard.text + 1 /\ heard'.working = heard.working
        /\ heard'.deposit = heard.deposit
    BY <1>1, <2>1 DEF HeardOf
  <2>3. heard'.text <= order.text /\ heard'.working <= order.working
    BY <1>1, <2>1, <2>2
  <2> QED BY <1>2, <2>1, <2>2, <2>3, HearingKeeps
<1>4. CASE LastFrame
  <2>1. /\ heard' = [heard EXCEPT !.working = order.working, !.bill = order.bill, !.whole = TRUE]
        /\ seat' = "check" /\ order.at = "billed" /\ heard.text = order.text
    BY <1>4 DEF LastFrame, Go, FrameWorking
  <2>2. /\ heard' \in HeardOf /\ heard'.text = order.text /\ heard'.working = order.working
        /\ heard'.deposit = heard.deposit /\ heard'.bill = order.bill
    BY <1>1, <2>1 DEF HeardOf
  <2>3. heard'.text <= order.text /\ heard'.working <= order.working
    BY <1>1, <2>2
  <2> QED BY <1>2, <2>1, <2>2, <2>3, HearingKeeps
<1>5. CASE AskRecovery
  <2>1. CASE UNCHANGED heard /\ seat' = "failed"
    <3>1. recoveryAsked' = TRUE
      BY <1>5 DEF AskRecovery
    <3> QED BY <1>1, <1>2, <2>1, <3>1, HearingKeeps
  <2>2. CASE /\ order.at = "billed" /\ seat' = "check"
             /\ heard' = [heard EXCEPT !.text = IF heard.text = 0 THEN order.text ELSE heard.text,
                                       !.working = order.working, !.bill = order.bill,
                                       !.whole = heard.text \in {0, order.text}]
    <3>1. (IF heard.text = 0 THEN order.text ELSE heard.text) \in Nat
          /\ (heard.text \in {0, order.text}) \in BOOLEAN
      BY <1>1
    <3>2. /\ heard' \in HeardOf
          /\ heard'.text = IF heard.text = 0 THEN order.text ELSE heard.text
          /\ heard'.working = order.working
          /\ heard'.deposit = heard.deposit /\ heard'.bill = order.bill
          /\ heard'.whole => heard.text \in {0, order.text}
      BY <1>1, <2>2, <3>1 DEF HeardOf
    <3>3. heard'.text <= order.text /\ heard'.working <= order.working
      BY <1>1, <3>2
    <3>4. heard'.whole => heard'.text = order.text
      BY <3>2
    <3> QED BY <1>2, <2>2, <3>2, <3>3, <3>4, HearingKeeps
  <2> QED BY <1>5, <2>1, <2>2 DEF AskRecovery, Go, FrameWorking
<1> QED BY <1>3, <1>4, <1>5

\* The bill is checked: what is signed is what the node asked, within the bounds.
LEMMA CheckKeeps ==
  ASSUME BuyInv, CheckBill
  PROVE  BuyInv'
<1>1. /\ BuyType /\ Heeded /\ BySeat /\ SignedOnce
      /\ seat = "check" /\ UNCHANGED <<honest, order, heard, recoveryAsked, worked>>
      /\ heard \in HeardOf /\ order.deposit = heard.deposit /\ worked \in Nat
      /\ heard.bill \in Int /\ heard.deposit \in Nat /\ heard.bill = order.bill
      /\ order.at \in {"billed", "claimed"} /\ (honest /\ heard.whole => Acceptable)
  BY DEF BuyInv, CheckBill, BuyType, HeardOf, Heeded, BySeat
<1>2. \A s \in signatures : s.what \notin {"settlement", "recovered"}
  BY <1>1 DEF SignedOnce, Signed1
<1>3. Acceptable' = Acceptable /\ Most' = Most
  BY <1>1 DEF Acceptable, Most
<1>4. CASE Acceptable
  <2>1. Sign("settlement", heard.bill) /\ seat' = "settle"
    BY <1>4 DEF CheckBill, Go
  <2>2. PICK new \in [what : {"deposit", "settlement", "recovered", "invoice"}, amount : Int, on : HeardOf] :
          /\ signatures' = signatures \cup {new}
          /\ new.what = "settlement" /\ new.amount = heard.bill /\ new.on = heard
          /\ \A s, t \in signatures' : s.what = t.what => s = t
    BY <1>1, <1>2, <2>1, SignAdds
  <2>3. new.amount \in 1 .. new.on.deposit
    BY <1>1, <1>4, <2>2 DEF Acceptable
  <2>4. new.on.price # 0 => new.amount <= Most
    <3>1. heard.text <= order.text /\ heard.working <= order.working /\ Most \in Nat
      BY <1>1, MostIs DEF Heeded
    <3>2. ASSUME heard.price # 0 PROVE heard.bill <= Most
      <4>1. /\ UnitBound(heard.text, heard.working) * heard.price <= Most
            /\ heard.bill <= UnitBound(heard.text, heard.working) * heard.price
        BY <1>1, <1>4, <3>1, <3>2, MostIs DEF Acceptable
      <4>2. UnitBound(heard.text, heard.working) * heard.price \in Int
        BY <1>1, PurchaseAssumption DEF UnitBound, HeardOf
      <4> QED BY <1>1, <3>1, <4>1, <4>2
    <3> QED BY <2>2, <3>2
  <2>5. \A s \in signatures' : Signed1(s)'
    BY <1>1, <1>2, <1>3, <2>1, <2>2, <2>3, <2>4 DEF SignedOnce, Signed1
  <2>6. SignedOnce'
    BY <2>1, <2>2, <2>5 DEF SignedOnce
  <2>7. BuyType' /\ Heeded'
    BY <1>1, <1>3, <2>2 DEF BuyType, Heeded
  <2>8. BySeat'
    BY <1>1, <2>1, <2>2 DEF BySeat, CutIsRecovered
  <2> QED BY <2>6, <2>7, <2>8 DEF BuyInv
<1>5. CASE ~Acceptable
  <2>1. UNCHANGED signatures /\ seat' = "refused"
    BY <1>5 DEF CheckBill, Go
  <2>2. BySeat'
    BY <1>1, <1>5, <2>1 DEF BySeat, CutIsRecovered
  <2> QED BY <1>1, <1>2, <2>1, <2>2, SeatKeeps
<1> QED BY <1>4, <1>5


\* The settlement, at the node or from another process.
LEMMA SettleKeeps ==
  ASSUME BuyInv, Settle \/ RecoverCommand
  PROVE  BuyInv'
<1>1. /\ BuyType /\ Heeded /\ BySeat /\ SignedOnce
      /\ order \in [at : {"none", "reserved", "funded", "running", "billed", "settled", "claimed"},
                    text : Nat, working : Nat, bill : Int, deposit : Nat]
      /\ UNCHANGED <<honest, heard, recoveryAsked, worked>>
  BY DEF BuyInv, BuyType, Settle, RecoverCommand
<1>2. \/ order' = order
      \/ order.at = "billed" /\ order' = [order EXCEPT !.at = "settled"]
  BY DEF Settle, RecoverCommand
<1>3. /\ order' \in [at : {"none", "reserved", "funded", "running", "billed", "settled", "claimed"},
                     text : Nat, working : Nat, bill : Int, deposit : Nat]
      /\ order'.bill = order.bill /\ order'.deposit = order.deposit
      /\ order'.text = order.text /\ order'.working = order.working
      /\ \/ order'.at = order.at
         \/ order.at = "billed" /\ order'.at = "settled"
  BY <1>1, <1>2
<1>4. Most' = Most
  BY <1>3 DEF Most
<1>5. Heeded'
  BY <1>1, <1>3, <1>4 DEF Heeded
<1>6. CASE Settle
  <2>1. seat = "settle" /\ seat' \in {"done", "failed"} /\ UNCHANGED signatures
    BY <1>6 DEF Settle, Go
  <2>2. PICK paid \in signatures : paid.what = "settlement"
    BY <1>1, <2>1 DEF BySeat
  <2>3. \A s \in signatures : Signed1(s)'
    BY <1>1, <1>3, <1>4, <2>1 DEF SignedOnce, Signed1
  <2>4. SignedOnce'
    BY <1>1, <2>1, <2>3 DEF SignedOnce
  <2>5. BuyType'
    BY <1>1, <1>3, <2>1 DEF BuyType
  <2>6. BySeat'
    BY <1>1, <2>1, <2>2 DEF BySeat, CutIsRecovered
  <2> QED BY <1>5, <2>4, <2>5, <2>6 DEF BuyInv
<1>7. CASE RecoverCommand
  <2>1. /\ seat \in {"failed", "refused", "killed"} /\ seat' = seat
        /\ order.at = "billed" /\ order'.at = "settled" /\ Sign("recovered", order.bill)
    BY <1>1, <1>7 DEF RecoverCommand
  <2>2. \A s \in signatures : s.what # "recovered"
    BY <1>1, <2>1 DEF SignedOnce, Signed1
  <2>3. PICK new \in [what : {"deposit", "settlement", "recovered", "invoice"}, amount : Int, on : HeardOf] :
          /\ signatures' = signatures \cup {new}
          /\ new.what = "recovered" /\ new.amount = order.bill /\ new.on = heard
          /\ \A s, t \in signatures' : s.what = t.what => s = t
    BY <1>1, <2>1, <2>2, SignAdds
  <2>4. \A s \in signatures' : Signed1(s)'
    BY <1>1, <1>3, <1>4, <2>1, <2>3 DEF SignedOnce, Signed1
  <2>5. SignedOnce'
    BY <2>1, <2>3, <2>4 DEF SignedOnce
  <2>6. BuyType'
    BY <1>1, <1>3, <2>3 DEF BuyType
  <2>7. BySeat'
    BY <1>1, <2>1 DEF BySeat, CutIsRecovered
  <2> QED BY <1>5, <2>5, <2>6, <2>7 DEF BuyInv
<1> QED BY <1>6, <1>7

LEMMA InvoiceKeeps ==
  ASSUME BuyInv, SignInvoice
  PROVE  BuyInv'
<1>1. /\ BuyType /\ Heeded /\ BySeat /\ SignedOnce
      /\ UNCHANGED <<honest, order, heard, recoveryAsked, worked>>
      /\ seat = "invoiced" /\ seat' \in {"done", "failed"} /\ Sign("invoice", 1)
      /\ order.at = "none"
  BY DEF BuyInv, SignInvoice, Go, BySeat
<1>2. signatures = {}
  BY <1>1 DEF SignedOnce
<1>3. PICK new \in [what : {"deposit", "settlement", "recovered", "invoice"}, amount : Int, on : HeardOf] :
        signatures' = signatures \cup {new} /\ new.what = "invoice"
  BY <1>1, <1>2, SignAdds
<1>4. BuyType' /\ Heeded'
  BY <1>1, <1>3 DEF BuyType, Heeded, Most
<1>5. SignedOnce'
  BY <1>1, <1>2, <1>3 DEF SignedOnce, Signed1
<1>6. BySeat'
  BY <1>1 DEF BySeat, CutIsRecovered
<1> QED BY <1>4, <1>5, <1>6 DEF BuyInv

LEMMA BuyInitially == PurchaseInit => BuyInv
<1> SUFFICES ASSUME PurchaseInit PROVE BuyInv
  OBVIOUS
<1>1. /\ order = Unmade /\ heard = Untold /\ signatures = {} /\ worked = 0
      /\ seat \in {"start", "ask", "plain"} /\ honest \in BOOLEAN
  BY DEF PurchaseInit
<1>2. BuyType
  BY <1>1 DEF BuyType, HeardOf, Unmade, Untold, NoBill
<1>3. Heeded
  BY <1>1 DEF Heeded, Unmade, Untold
<1>4. BySeat /\ SignedOnce
  BY <1>1 DEF BySeat, SignedOnce, CutIsRecovered, Unmade
<1> QED BY <1>2, <1>3, <1>4 DEF BuyInv

LEMMA BuyStep == BuyInv /\ [PurchaseNext]_purchaseVars => BuyInv'
<1> SUFFICES ASSUME BuyInv, [PurchaseNext]_purchaseVars PROVE BuyInv'
  OBVIOUS
<1>1. CASE UNCHANGED purchaseVars
  <2>1. BySeat' /\ worked' \in Nat
    BY <1>1 DEF purchaseVars, BuyInv, BuyType, BySeat, CutIsRecovered, Acceptable
  <2> QED BY <1>1, <2>1, SeatKeeps DEF purchaseVars, BuyInv, SignedOnce, Signed1
<1>2. CASE Produce \/ MakeBill \/ Claim
  BY <1>2, NodeKeeps
<1>3. CASE ReserveJob \/ Fund \/ OpenStream
  BY <1>3, OpenKeeps
<1>4. CASE ContextEnds \/ GivesUp \/ LoseStream \/ Kill \/ RunWithProgress \/ RunPlain
  BY <1>4, CommandKeeps
<1>5. CASE HearDelta \/ LastFrame \/ AskRecovery
  BY <1>5, HearKeeps
<1>6. CASE CheckBill
  BY <1>6, CheckKeeps
<1>7. CASE Settle \/ RecoverCommand
  BY <1>7, SettleKeeps
<1>8. CASE SignInvoice
  BY <1>8, InvoiceKeeps
<1> QED BY <1>1, <1>2, <1>3, <1>4, <1>5, <1>6, <1>7, <1>8 DEF PurchaseNext

\* Whoever the node is: a settlement signed unseen is within the deposit and what
\* the text that came can have cost; an honest bill for the whole text is not
\* refused; a funded command that failed asked for its settlement; and a command runs
\* one job, signs each payment once and pays the one bill (internal/cli).
THEOREM BuyerIsKept == PurchaseSpec => []BuyerKept
<1>1. BuyInv => BuyerKept
  <2> SUFFICES ASSUME BuyInv PROVE BuyerKept
    OBVIOUS
  <2>1. BuyType /\ BySeat /\ SignedOnce
    BY DEF BuyInv
  <2>2. BillCovered
    BY <2>1 DEF BillCovered, SignedOnce, Signed1, Most
  <2>3. HonestBillPaid /\ CutIsRecovered
    BY <2>1 DEF HonestBillPaid, BySeat
  <2>4. PaysOneBill
    <3>1. ASSUME NEW s \in signatures, NEW t \in signatures, {s.what, t.what} = {"settlement", "recovered"}
          PROVE  s.amount = t.amount
      <4>1. s.what \in {"settlement", "recovered"} /\ t.what \in {"settlement", "recovered"}
        BY <3>1
      <4> QED BY <2>1, <4>1 DEF SignedOnce, Signed1
    <3> QED BY <2>1, <3>1 DEF PaysOneBill, BySeat, SignedOnce
  <2> QED BY <2>2, <2>3, <2>4 DEF BuyerKept
<1> QED BY <1>1, BuyInitially, BuyStep, PTL DEF PurchaseSpec

-----------------------------------------------------------------------------
(* Metering: what a cut stream costs. *)

Parts == {"text", "working", "calls", "usage"}

\* What arrived of the text is no more than there is of it; a charge for a cut stream is within
\* what the whole answer comes to.
MeterInv ==
  /\ answer \in Answers
  /\ got = [x \in Parts |-> got[x]]
  /\ got.text \in Nat /\ got.text <= answer.text
  /\ ended = "no" => charge = Unknown
  /\ Metered

LEMMA LeastOfThree ==
  ASSUME NEW a \in Nat, NEW b \in Nat, NEW c \in Nat
  PROVE  /\ Min({a, b, c}) \in {a, b, c}
         /\ Min({a, b, c}) <= a /\ Min({a, b, c}) <= b /\ Min({a, b, c}) <= c
<1> DEFINE m == IF a <= b THEN IF a <= c THEN a ELSE c ELSE IF b <= c THEN b ELSE c
<1>1. m \in {a, b, c} /\ \A y \in {a, b, c} : m <= y
  OBVIOUS
<1> HIDE DEF m
<1>2. \E x \in {a, b, c} : \A y \in {a, b, c} : x <= y
  BY <1>1
<1>3. Min({a, b, c}) \in {a, b, c} /\ \A y \in {a, b, c} : Min({a, b, c}) <= y
  BY <1>2 DEF Min
<1> QED BY <1>3

\* The pieces of the calls of an answer, with their names.
CallBytes(a) == Total([i \in CallsOf(a) |-> 1 + a.calls[i].pieces], CallsOf(a))

LEMMA CallsCounted ==
  ASSUME NEW a, \A i \in Index : a.calls[i].pieces \in Nat
  PROVE  /\ Cardinality(CallsOf(a)) \in Nat /\ CallBytes(a) \in Nat
         /\ CallsOf(a) = {} => Cardinality(CallsOf(a)) = 0 /\ CallBytes(a) = 0
<1> DEFINE C == CallsOf(a)
           f == [i \in C |-> 1 + a.calls[i].pieces]
<1>1. C \subseteq Index
  BY DEF CallsOf
<1>2. IsFiniteSet(C) /\ Cardinality(C) \in Nat
  BY <1>1, MeteringAssumption, FS_Subset, FS_CardinalityType
<1>3. Counts(f, C)
  <2>1. \A i \in C : f[i] \in Nat
    BY <1>1
  <2> HIDE DEF C, f
  <2> QED BY <1>2, <2>1 DEF Counts
<1>4. CallBytes(a) = Total(f, C)
  BY DEF CallBytes
<1> HIDE DEF C, f
<1>5. Total(f, C) \in Nat
  BY <1>3, TotalType
<1>6. C = {} => Total(f, C) = 0 /\ Cardinality(C) = 0
  BY TotalEmpty, FS_EmptySet
<1> QED BY <1>2, <1>4, <1>5, <1>6 DEF C

LEMMA GreaterOf ==
  ASSUME NEW a \in Nat, NEW b \in Nat
  PROVE  Max({a, b}) = IF a >= b THEN a ELSE b
  BY DEF Max

LEMMA CutCostsLess ==
  ASSUME answer \in Answers, got = [x \in Parts |-> got[x]], got.text \in Nat, got.text <= answer.text
  PROVE  Charged(Partial, UnitsOf(Partial, TRUE)) <= Charged(answer, UnitsFor(Derived(answer)))
<1> DEFINE p == Partial
           dp == Derived(p)
           da == Derived(answer)
           bp == PromptBytes + 2 * (p.text + p.working) + CallBytes(p) + 3 * Overhead
           ba == PromptBytes + 2 * (answer.text + answer.working) + CallBytes(answer) + 3 * Overhead
<1>1. /\ p.text = got.text /\ p.working = 0 /\ p.usage = Unknown
      /\ \A i \in Index : p.calls[i].named = FALSE /\ p.calls[i].pieces = 0
  BY DEF Partial, Parts, Unsent
<1>2. /\ answer.text \in Nat /\ answer.working \in Nat
      /\ \A i \in Index : answer.calls[i].pieces \in Nat
  BY MeteringAssumption DEF Answers
<1>3. {PromptWords, PromptBytes, Quoted, UnitPrice, Overhead, CeilingFloor} \subseteq Nat
  BY MeteringAssumption
<1>4. UnitsOf(p, TRUE) = UnitsFor(dp)
  BY <1>1 DEF UnitsOf
<1> HIDE DEF p
<1>5. Cardinality(CallsOf(p)) = 0 /\ CallBytes(p) = 0
  <2>1. CallsOf(p) = {}
    BY <1>1 DEF CallsOf
  <2>2. \A i \in Index : p.calls[i].pieces \in Nat
    BY <1>1
  <2> QED BY <2>1, <2>2, CallsCounted
<1>6. Cardinality(CallsOf(answer)) \in Nat /\ CallBytes(answer) \in Nat
  BY <1>2, CallsCounted
<1>7. dp \in Nat /\ da \in Nat /\ dp <= da
  <2> DEFINE ca == Cardinality(CallsOf(answer))
  <2>1. dp = PromptWords + p.text + p.working + Cardinality(CallsOf(p))
    BY DEF Derived
  <2>2. da = PromptWords + answer.text + answer.working + ca
    BY DEF Derived
  <2>3. ca \in Nat
    BY <1>6
  <2> HIDE DEF dp, da, ca
  <2> QED BY <1>1, <1>2, <1>3, <1>5, <2>1, <2>2, <2>3
<1>8. bp \in Nat /\ ba \in Nat /\ bp <= ba
  <2> DEFINE wp == p.text + p.working
             wa == answer.text + answer.working
             o == 3 * Overhead
  <2>1. wp \in Nat /\ wa \in Nat /\ wp <= wa /\ o \in Nat /\ PromptBytes \in Nat
    BY <1>1, <1>2, <1>3
  <2>2. bp = PromptBytes + 2 * wp + CallBytes(p) + o /\ ba = PromptBytes + 2 * wa + CallBytes(answer) + o
    OBVIOUS
  <2> HIDE DEF wp, wa, o, bp, ba
  <2> QED BY <1>5, <1>6, <2>1, <2>2
<1>9. Ceiling(p) = Max({bp, CeilingFloor}) /\ Ceiling(answer) = Max({ba, CeilingFloor})
  BY DEF Ceiling, CallBytes
<1> DEFINE u == UnitsFor(dp)
           v == UnitsFor(da)
           x == Ceiling(p)
           y == Ceiling(answer)
           least == Min({u, Quoted, x})
           most == Min({v, Quoted, y})
<1>10. Charged(p, u) = UnitPrice * least /\ Charged(answer, v) = UnitPrice * most
  BY DEF Charged
<1> HIDE DEF dp, da, bp, ba
<1>11. u \in Nat /\ v \in Nat /\ u <= v
  BY <1>7 DEF UnitsFor
<1>12. x \in Nat /\ y \in Nat /\ x <= y
  BY <1>3, <1>8, <1>9, GreaterOf
<1> HIDE DEF x, y
<1>13. least \in Nat /\ most \in Nat /\ least <= most
  <2> HIDE DEF u, v
  <2>1. /\ least \in {u, Quoted, x} /\ least <= u /\ least <= Quoted /\ least <= x
        /\ most \in {v, Quoted, y}
    BY <1>3, <1>11, <1>12, LeastOfThree
  <2> HIDE DEF least, most
  <2> QED BY <1>3, <1>11, <1>12, <2>1
<1> HIDE DEF least, most, u, v
<1>14. UnitPrice * least <= UnitPrice * most
  BY <1>3, <1>13
<1> QED BY <1>4, <1>10, <1>14 DEF p, u, v, da

LEMMA MeterStep == MeterInv /\ [MeteringNext]_meteringVars => MeterInv'
<1> SUFFICES ASSUME MeterInv, [MeteringNext]_meteringVars PROVE MeterInv'
  OBVIOUS
<1>1. /\ answer \in Answers /\ got = [x \in Parts |-> got[x]] /\ got.text \in Nat /\ got.text <= answer.text
      /\ Metered /\ answer.text \in Nat
  BY MeteringAssumption DEF MeterInv, Answers
<1>2. CASE UNCHANGED meteringVars
  BY <1>2 DEF meteringVars, MeterInv, Metered, Charged, Ceiling, Derived, CallsOf, UnitsFor
<1>3. ASSUME UNCHANGED <<answer, ended, charge>>, got' = [x \in Parts |-> got'[x]], got'.text \in Nat,
             got'.text <= answer.text
      PROVE  MeterInv'
  BY <1>1, <1>3 DEF MeterInv, Metered, Charged, Ceiling, Derived, CallsOf, UnitsFor
<1>4. CASE TextFrame
  <2>1. got' = [got EXCEPT !.text = got.text + 1] /\ got.text < answer.text
        /\ UNCHANGED <<answer, ended, charge>>
    BY <1>4 DEF TextFrame, Frame
  <2>2. got'.text = got.text + 1 /\ got' = [x \in Parts |-> got'[x]]
    BY <1>1, <2>1 DEF Parts
  <2> QED BY <1>1, <1>3, <2>1, <2>2
<1>5. CASE WorkingFrame \/ UsageFrame \/ \E i \in Index : CallFrame(i)
  <2>1. UNCHANGED <<answer, ended, charge>> /\ got'.text = got.text /\ got' = [x \in Parts |-> got'[x]]
    <3>1. CASE WorkingFrame
      BY <1>1, <3>1 DEF WorkingFrame, Frame, Parts
    <3>2. CASE UsageFrame
      BY <1>1, <3>2 DEF UsageFrame, Frame, Parts
    <3>3. ASSUME NEW i \in Index, CallFrame(i)
          PROVE  UNCHANGED <<answer, ended, charge>> /\ got'.text = got.text /\ got' = [x \in Parts |-> got'[x]]
      <4>1. \E c : got' = [got EXCEPT !.calls = c]
        BY <3>3 DEF CallFrame, Add
      <4>2. UNCHANGED <<answer, ended, charge>>
        BY <3>3 DEF CallFrame, Frame
      <4> QED BY <1>1, <4>1, <4>2 DEF Parts
    <3> QED BY <1>5, <3>1, <3>2, <3>3
  <2> QED BY <1>1, <1>3, <2>1
<1>6. CASE StreamEnds \/ StreamCut \/ Infer
  <2>1. UNCHANGED <<answer, charge>> /\ (got' = got \/ got' = answer) /\ ended = "no"
    BY <1>6 DEF StreamEnds, StreamCut, Infer
  <2>3. charge' = Unknown
    BY <2>1 DEF MeterInv
  <2>2. answer = [x \in Parts |-> answer[x]]
    BY <1>1 DEF Answers, Parts
  <2>4. got' = [x \in Parts |-> got'[x]] /\ got'.text \in Nat /\ got'.text <= answer'.text
    BY <1>1, <2>1, <2>2
  <2> QED BY <1>1, <2>1, <2>3, <2>4 DEF MeterInv, Metered
<1>7. CASE BillRun
  <2>1. UNCHANGED <<answer, got, ended>> /\ ended # "no"
    BY <1>7 DEF BillRun
  <2>2. ended = "cut" => charge' <= Charged(answer, UnitsFor(Derived(answer)))
    BY <1>1, <1>7, CutCostsLess DEF BillRun
  <2>3. Charged(answer, UnitsFor(Derived(answer)))' = Charged(answer, UnitsFor(Derived(answer)))
    BY <2>1 DEF Charged, Ceiling, Derived, CallsOf, UnitsFor
  <2> QED BY <1>1, <2>1, <2>2, <2>3 DEF MeterInv, Metered
<1> QED BY <1>2, <1>4, <1>5, <1>6, <1>7 DEF MeteringNext

\* A stream cut short costs the buyer no more than the whole answer would, for every answer,
\* every cut, and whatever usage the vendor reports (partialResponse, settleRun).
THEOREM CutNeverDearer == MeteringInit /\ [][MeteringNext]_meteringVars => []Metered
<1>1. MeteringInit => MeterInv
  <2> SUFFICES ASSUME MeteringInit PROVE MeterInv
    OBVIOUS
  <2>1. /\ answer \in Answers /\ charge = Unknown
        /\ got = [text |-> 0, working |-> 0, calls |-> [i \in Index |-> Unsent], usage |-> Unknown]
    BY DEF MeteringInit
  <2>2. answer.text \in Nat
    BY <2>1, MeteringAssumption DEF Answers
  <2> QED BY <2>1, <2>2 DEF MeterInv, Metered, Parts
<1>2. MeterInv => Metered
  BY DEF MeterInv
<1> QED BY <1>1, <1>2, MeterStep, PTL
=============================================================================
