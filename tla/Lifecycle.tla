------------------------------ MODULE Lifecycle ------------------------------
(***************************************************************************)
(* The process of a node (internal/node/node.go, cmd/matrixd): what Start  *)
(* brings up and in which order, what Stop takes down, what it waits for   *)
(* and what it only tells to end, and the API keys in force, which a       *)
(* signal may reload (internal/admin/auth.go). What the parts do is in the *)
(* other modules; here each of them is at work or not, on what it uses.    *)
(***************************************************************************)
EXTENDS Integers, Sequences, FiniteSets

CONSTANTS
  Files,         \* contents of the config file: [parses, acls, entries]
  Given,         \* MATRIX_ADMIN_API_KEY, as entries of which there is at most one
  MaxEdits, MaxProcesses, MaxAtWork \* bounds: edits, processes, calls at a time

ASSUME LifecycleAssumption ==
  /\ {MaxEdits, MaxProcesses, MaxAtWork} \subseteq Nat
  /\ Len(Given) <= 1
  /\ \A f \in Files : f.acls \in BOOLEAN /\ f.parses \in BOOLEAN
                      /\ f = [parses |-> f.parses, acls |-> f.acls, entries |-> f.entries]

VARIABLES
  stage,         \* "off", "starting", "running", "stopping"
  watched,       \* whether a bridge watcher is configured
  began,         \* what Start has brought up
  loops,         \* goroutines that have not returned
  listening,     \* servers that take requests
  atWork,        \* goroutines and servers in a call
  cancelled,     \* whether n.ctx is cancelled
  stopped,       \* steps of Stop that are done
  file,          \* the config file
  conf,          \* what the process read from it
  inForce,       \* the authenticator's keys: an account by key
  edits, processes \* counts, bounded

machine == <<stage, watched, began, loops, listening, atWork, cancelled, stopped>>
Rest == <<watched, file, conf, inForce, edits, processes>>
lifecycleVars == <<machine, file, conf, inForce, edits, processes>>

Blank == "blank"
NoKeys == [k \in {} |-> Blank]

-----------------------------------------------------------------------------
(* API keys. An entry is a key, perhaps blank, and the account it spends from. *)

\* AddKey of each, in order: a later entry for a key takes its place.
Added(entries) ==
  [k \in {entries[i].key : i \in DOMAIN entries} |->
     LET last == CHOOSE i \in DOMAIN entries :
           entries[i].key = k /\ \A j \in DOMAIN entries : entries[j].key = k => j <= i
     IN entries[last].account]

\* apiKeysFromConfig.
Usable(f) == f.acls => \A i \in DOMAIN f.entries : f.entries[i].key # Blank
FromConfig(f) == IF f.acls THEN f.entries \o Given ELSE <<>>

\* ReplaceKeys: nothing is swapped in unless all of it can be.
Replaceable(entries) == entries # <<>> /\ \A i \in DOMAIN entries : entries[i].key # Blank

Edit(f) ==
  /\ edits < MaxEdits /\ f # file
  /\ edits' = edits + 1
  /\ file' = f
  /\ UNCHANGED <<machine, conf, inForce, processes>>

\* ReloadAPIKeys, on SIGHUP, which is handled once Start has returned.
ReloadAPIKeys ==
  /\ stage = "running"
  /\ file.parses /\ file.acls = conf.acls /\ Usable(file)
  /\ Replaceable(FromConfig(file))
  /\ inForce' = Added(FromConfig(file))
  /\ conf' = [conf EXCEPT !.entries = file.entries]
  /\ UNCHANGED <<machine, file, edits, processes>>

-----------------------------------------------------------------------------
(* Start. A step that fails ends the process, as does a signal before Start has *)
(* returned.                                                                   *)

\* New: the config is read.
NewNode ==
  /\ stage = "off" /\ processes < MaxProcesses
  /\ file.parses
  /\ stage' = "starting" /\ processes' = processes + 1
  /\ conf' = file
  /\ watched' \in BOOLEAN
  /\ UNCHANGED <<began, loops, listening, atWork, cancelled, stopped, file, inForce, edits>>

Bring(after, things, goroutines, servers) ==
  /\ stage = "starting"
  /\ after \in began /\ things \cap began = {}
  /\ began' = began \cup things
  /\ loops' = loops \cup goroutines
  /\ listening' = listening \cup servers
  /\ UNCHANGED <<watched, atWork, cancelled, stopped, file, conf, edits, processes>>

\* The store, the market's order book and ledger on it, and genesis.
StartStores ==
  /\ stage = "starting" /\ began = {}
  /\ began' = {"store", "market ledger", "genesis"}
  /\ UNCHANGED <<stage, loops, listening, atWork, cancelled, stopped, Rest>>

StartNetwork == Bring("genesis", {"host", "transport"}, {}, {}) /\ UNCHANGED <<stage, inForce>>

StartExchange == Bring("transport", {"exchange"}, {"exchange loops"}, {}) /\ UNCHANGED <<stage, inForce>>

\* Identity, validator set and stake settings.
StartIdentity == Bring("exchange", {"identity"}, {}, {}) /\ UNCHANGED <<stage, inForce>>

\* The escrow that genesis gave is adopted, the attestor's key unlocked.
StartBridge == Bring("identity", {"bridge"}, {}, {}) /\ UNCHANGED <<stage, inForce>>

StartEngine == Bring("bridge", {"engine"}, {"engine loops"}, {}) /\ UNCHANGED <<stage, inForce>>

StartDialer == Bring("engine", {"dialer"}, {"dialer"}, {}) /\ UNCHANGED <<stage, inForce>>

\* The admin server's authenticator is the one of every other surface.
StartAdmin ==
  /\ Usable(conf)
  /\ Bring("dialer", {"authenticator"}, {}, {"admin"})
  /\ inForce' = Added(FromConfig(conf))
  /\ UNCHANGED stage

\* With the coordinators that settle for its callers.
StartMarket == Bring("authenticator", {"coordinators"}, {}, {"market"}) /\ UNCHANGED <<stage, inForce>>

\* The service with its guard and its backends.
StartInference == Bring("coordinators", {"inference"}, {}, {}) /\ UNCHANGED <<stage, inForce>>

\* The loops that announce, expire, return, evict and watch, here two, and the
\* wallets' endpoint.
StartSweeps ==
  Bring("inference", {"sweeps"}, {"announcer", "sweeps"}, {"ethrpc"})
  /\ UNCHANGED <<stage, inForce>>

\* RequireRunAuthorization is set before it listens.
StartInferenceServer ==
  Bring("sweeps", {"run authorization"}, {}, {"inference"}) /\ UNCHANGED <<stage, inForce>>

StartAgents ==
  Bring("run authorization", {"agent manager"}, {}, {"agents"}) /\ UNCHANGED <<stage, inForce>>

\* One HTTP endpoint for the services behind the gRPC servers.
StartConnect == Bring("agent manager", {"connect"}, {}, {"connect"}) /\ UNCHANGED <<stage, inForce>>

StartWatcher ==
  /\ Bring("connect", {"watcher"}, IF watched THEN {"watcher"} ELSE {}, {})
  /\ stage' = "running"
  /\ UNCHANGED inForce

-----------------------------------------------------------------------------
(* At work. *)

\* What a call of it reads or writes.
Uses(a) ==
  CASE a = "exchange loops" -> {"store", "transport", "market ledger"}
    [] a = "engine loops" -> {"store", "transport", "market ledger", "genesis", "bridge", "identity"}
    [] a = "watcher" -> {"store", "engine", "bridge"}
    [] a = "dialer" -> {"host"}
    [] a = "admin" -> {"authenticator"}
    [] a = "market" -> {"authenticator", "coordinators", "store", "engine", "exchange", "bridge"}
    [] a = "ethrpc" -> {"engine", "store"}
    [] a = "inference" -> {"authenticator", "inference", "run authorization", "engine", "store", "transport"}
    [] a = "agents" -> {"authenticator", "agent manager", "engine", "store"}
    [] a = "connect" -> {"authenticator", "coordinators", "inference", "agent manager", "engine", "store"}
    [] a = "announcer" -> {"exchange", "market ledger", "transport"}
    [] OTHER -> {"inference", "engine", "store", "market ledger"}

\* A loop may begin a round although it was told to end: select picks either.
BeginRound(a) ==
  /\ Cardinality(atWork) < MaxAtWork
  /\ a \in (loops \cup listening) \ atWork
  /\ atWork' = atWork \cup {a}
  /\ UNCHANGED <<stage, began, loops, listening, cancelled, stopped, Rest>>

FinishRound(a) ==
  /\ a \in atWork
  /\ atWork' = atWork \ {a}
  /\ UNCHANGED <<stage, began, loops, listening, cancelled, stopped, Rest>>

\* A loop sees n.ctx cancelled.
LeaveLoop(g) ==
  /\ cancelled /\ g \in loops \ atWork
  /\ loops' = loops \ {g}
  /\ UNCHANGED <<stage, began, listening, atWork, cancelled, stopped, Rest>>

-----------------------------------------------------------------------------
(* Stop: in order, each step after what it waits for. *)

\* Fault for the mutation runs: the store is closed before the loops have returned.
StoreFirst ==
  <<"watcher", "ethrpc", "connect", "agents", "inference", "market", "admin", "store", "loops",
    "transport", "host">>

StopOrder ==
  <<"watcher", "ethrpc", "connect", "agents", "inference", "market", "admin", "loops",
    "transport", "host", "store">>

Turn(what) == stage = "stopping" /\ stopped < Len(StopOrder) /\ StopOrder[stopped + 1] = what

\* SIGINT or SIGTERM. With a watcher the context is cancelled first.
BeginStop ==
  /\ stage = "running"
  /\ stage' = "stopping"
  /\ cancelled' = watched
  /\ UNCHANGED <<began, loops, listening, atWork, stopped, Rest>>

\* Nothing new is taken by the server whose turn it is.
Refuse(server) ==
  /\ Turn(server) /\ server \in listening
  /\ listening' = listening \ {server}
  /\ UNCHANGED <<stage, began, loops, atWork, cancelled, stopped, Rest>>

Done(what, waitsFor, closes) ==
  /\ Turn(what) /\ what \notin listening
  /\ waitsFor \cap (loops \cup atWork) = {}
  /\ stopped' = stopped + 1
  /\ began' = began \ closes
  /\ UNCHANGED <<stage, loops, listening, atWork, cancelled, Rest>>

StopWatcher == Done("watcher", {"watcher"}, {})

\* Shutdown waits for the calls in flight unless its context is cancelled.
StopEthRPC == Done("ethrpc", IF cancelled THEN {} ELSE {"ethrpc"}, {})

\* For five seconds at most.
StopConnect == Done("connect", {}, {})

\* GracefulStop finishes what was taken.
StopServer(server) == server \in {"agents", "inference", "market", "admin"} /\ Done(server, {server}, {})

CancelLoops ==
  /\ Turn("loops") /\ ~cancelled
  /\ cancelled' = TRUE
  /\ UNCHANGED <<stage, began, loops, listening, atWork, stopped, Rest>>

WaitForLoops == cancelled /\ Done("loops", {"exchange loops", "engine loops"}, {})

Close == \E resource \in {"transport", "host", "store"} : Done(resource, {}, {resource})

\* Main has returned, or a step of Start failed, or the process is killed.
Exit ==
  /\ stage # "off"
  /\ stage' = "off"
  /\ began' = {} /\ loops' = {} /\ listening' = {} /\ atWork' = {}
  /\ cancelled' = FALSE /\ stopped' = 0
  /\ inForce' = NoKeys
  /\ UNCHANGED <<watched, file, conf, edits, processes>>

-----------------------------------------------------------------------------

LifecycleInit ==
  /\ stage = "off" /\ watched = FALSE
  /\ began = {} /\ loops = {} /\ listening = {} /\ atWork = {}
  /\ cancelled = FALSE /\ stopped = 0
  /\ file \in Files /\ conf = file /\ inForce = NoKeys
  /\ edits = 0 /\ processes = 0

LifecycleNext ==
  \/ \E f \in Files : Edit(f)
  \/ ReloadAPIKeys
  \/ NewNode
  \/ StartStores \/ StartNetwork \/ StartExchange \/ StartIdentity \/ StartBridge \/ StartEngine
  \/ StartDialer \/ StartAdmin \/ StartMarket \/ StartInference \/ StartSweeps
  \/ StartInferenceServer \/ StartAgents \/ StartConnect \/ StartWatcher
  \/ \E a \in loops \cup listening : BeginRound(a)
  \/ \E a \in atWork : FinishRound(a)
  \/ \E g \in loops : LeaveLoop(g)
  \/ BeginStop
  \/ \E server \in listening : Refuse(server)
  \/ StopWatcher \/ StopEthRPC \/ StopConnect
  \/ \E server \in {"agents", "inference", "market", "admin"} : StopServer(server)
  \/ CancelLoops \/ WaitForLoops \/ Close
  \/ Exit

LifecycleSpec == LifecycleInit /\ [][LifecycleNext]_lifecycleVars

-----------------------------------------------------------------------------
(* Properties. *)

\* What Stop does not wait for.
Unwaited == {"dialer", "announcer", "sweeps", "connect"} \cup IF watched THEN {"ethrpc"} ELSE {}

\* Nothing is at work before what it uses has been brought up, nor, if Stop waits
\* for it, after that was closed.
OnlyOnOpen ==
  \A a \in atWork :
    stage # "stopping" \/ a \notin Unwaited => Uses(a) \subseteq began

\* The keys in force are those that starting from the config in force would give,
\* whatever files were tried in between.
KeysInForce == "authenticator" \in began => inForce = Added(FromConfig(conf))

\* What a node is at work on is open, and its keys are the last that were good.
NodeWhole == OnlyOnOpen /\ KeysInForce
=============================================================================
