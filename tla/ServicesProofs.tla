--------------------------- MODULE ServicesProofs ---------------------------
(***************************************************************************)
(* Theorems about Agents and Market, for every set of agents, modules,     *)
(* providers, jobs and handlers: what a deployer pays and when its agent   *)
(* is evicted, that a buyer pays once for a request, and that a provider   *)
(* sells what it has and no more.                                          *)
(***************************************************************************)
EXTENDS Exchange, Agents, SumProofs, TLAPS

-----------------------------------------------------------------------------
(* The arithmetic of rent. *)

\* What is left of a division by a positive number, and what it is a part of.
LEMMA Quotient ==
  ASSUME NEW a \in Nat, NEW d \in Nat \ {0}
  PROVE  /\ a \div d \in Nat
         /\ a % d \in 0 .. d - 1
         /\ a = d * (a \div d) + (a % d)
BY Z3

LEMMA Product ==
  ASSUME NEW a \in Nat, NEW b \in Nat
  PROVE  a * b \in Nat
BY Z3

LEMMA Larger ==
  ASSUME NEW a \in Nat, NEW b \in Nat, NEW k \in Nat, a <= b
  PROVE  k * a <= k * b /\ a * k <= b * k /\ k * a \in Nat /\ k * b \in Nat
BY Z3

\* A number of times a positive number is no more than another one's.
LEMMA Cancel ==
  ASSUME NEW k \in Nat \ {0}, NEW a \in Nat, NEW b \in Nat, k * a <= k * b
  PROVE  a <= b
BY Z3

Rate(size) == size * StoragePrice

LEMMA Rates ==
  ASSUME NEW m \in Wasm
  PROVE  /\ Rate(Size[m]) \in Nat \ {0} /\ Dearest \in Nat \ {0} /\ Rate(Size[m]) <= Dearest
         /\ Size[m] \in Nat \ {0}
<1>1. Size[m] \in Nat \ {0} /\ Size[m] <= MaxModuleBytes /\ MaxModuleBytes \in Nat \ {0}
      /\ StoragePrice \in Nat \ {0}
  BY AgentsAssumption
<1>2. Size[m] * StoragePrice \in Nat /\ Size[m] * StoragePrice # 0
  BY <1>1, Z3
<1>3. StoragePrice * MaxModuleBytes \in Nat /\ StoragePrice * MaxModuleBytes # 0
  BY <1>1, Z3
<1>4. Size[m] * StoragePrice <= StoragePrice * MaxModuleBytes
  BY <1>1, Z3
<1> QED BY <1>1, <1>2, <1>3, <1>4 DEF Rate, Dearest

\* The credits of a charge cost no more than the time since the last one, and less
\* than a unit of time more than the time they cover, which does not go beyond it.
LEMMA Rounding ==
  ASSUME NEW m \in Wasm, NEW elapsed \in Int, Accrued(Size[m], StoragePrice, elapsed) > 0
  PROVE  LET owed == Accrued(Size[m], StoragePrice, elapsed)
             cov == Covered(Size[m], StoragePrice, owed)
         IN /\ owed \in Nat \ {0} /\ cov \in Nat /\ elapsed \in Nat /\ cov <= elapsed
            /\ owed * RentUnit \in Nat /\ Dearest * cov \in Nat
            /\ owed * RentUnit <= Dearest * cov + (Dearest - 1)
<1> DEFINE owed == Accrued(Size[m], StoragePrice, elapsed)
           cov == Covered(Size[m], StoragePrice, owed)
           rate == Rate(Size[m])
<1>1. elapsed \in Nat /\ owed = (Size[m] * StoragePrice * elapsed) \div RentUnit
  BY DEF Accrued
<1>2. rate \in Nat \ {0} /\ Dearest \in Nat \ {0} /\ rate <= Dearest /\ RentUnit \in Nat \ {0}
  BY Rates, AgentsAssumption
<1>3. owed = (rate * elapsed) \div RentUnit /\ cov = (owed * RentUnit) \div rate
  BY <1>1 DEF Rate, Covered
<1> HIDE DEF owed, cov, rate
<1>4. rate * elapsed \in Nat
  BY <1>1, <1>2, Product
<1>5. /\ owed \in Nat
      /\ (rate * elapsed) % RentUnit \in 0 .. RentUnit - 1
      /\ rate * elapsed = RentUnit * owed + ((rate * elapsed) % RentUnit)
  BY <1>2, <1>3, <1>4, Quotient
<1>6. owed * RentUnit \in Nat /\ owed * RentUnit = RentUnit * owed
  BY <1>2, <1>5, Product, Z3
<1>7. owed * RentUnit <= rate * elapsed
  BY <1>4, <1>5, <1>6, <1>2
<1>8. /\ cov \in Nat
      /\ (owed * RentUnit) % rate \in 0 .. rate - 1
      /\ owed * RentUnit = rate * cov + ((owed * RentUnit) % rate)
  BY <1>2, <1>3, <1>6, Quotient
<1>9. rate * cov \in Nat
  BY <1>2, <1>8, Product
<1>10. cov <= elapsed
  <2>1. rate * cov <= rate * elapsed
    BY <1>2, <1>4, <1>6, <1>7, <1>8, <1>9
  <2> QED BY <2>1, <1>1, <1>2, <1>8, Cancel
<1>11. rate * cov <= Dearest * cov /\ Dearest * cov \in Nat
  BY <1>2, <1>8, Larger
<1>12. owed * RentUnit <= Dearest * cov + (Dearest - 1)
  BY <1>2, <1>6, <1>8, <1>9, <1>11
<1>13. owed \in Nat \ {0}
  BY <1>5 DEF owed
<1> QED BY <1>1, <1>6, <1>8, <1>10, <1>11, <1>12, <1>13 DEF owed, cov

-----------------------------------------------------------------------------
(* What the variables of Agents may hold. *)

Charge ==
  [by : Deployer, nonce : Nat, amount : Nat, for : AgentId, kind : {"run", "rent"}]

Idling == {Free}

Asked ==
  [at : {"wait", "charged"}, id : AgentId, module : Wasm, payer : Deployer, tx : Charge \cup {Nothing}]

\* A record whose rent runs.
Billable == {rec \in Record : rec.through \in Nat /\ rec.rate \in Nat \ {0}}

Making == [at : {"run", "written"}, id : AgentId, rec : Billable]

Underway == [at : {"next"}, now : Nat, left : SUBSET AgentId]

Billing ==
  [at : {"wait", "paid", "unpaid"}, now : Nat, left : SUBSET AgentId, id : AgentId, rec : Billable,
   tx : Charge]

AgentTypes ==
  /\ records \in [AgentId -> Record \cup {Nothing}]
  /\ stored \in [AgentId -> Record \cup {Nothing}]
  /\ agentNonce \in [Deployer -> Nat]
  /\ deploying \in [Deploying -> Idling \cup Asked \cup Making]
  /\ sweep \in Idling \cup Underway \cup Billing
  /\ clock \in Nat /\ restarts \in Nat
  /\ floating \subseteq Charge
  /\ collected \in [AgentId -> Nat] /\ bills \in [AgentId -> Nat]
  /\ begun \in [AgentId -> Nat] /\ paidAt \in [AgentId -> Nat]
  /\ raced \subseteq AgentId

\* The types of what follows a case on the step of a request or of the sweep.
LEMMA Kinds ==
  ASSUME AgentTypes
  PROVE  /\ \A d \in Deploying :
              /\ deploying[d].at \in {"wait", "charged"} => deploying[d] \in Asked
              /\ deploying[d].at \in {"run", "written"} => deploying[d] \in Making
         /\ sweep.at = "next" => sweep \in Underway
         /\ sweep.at \in {"wait", "paid", "unpaid"} => sweep \in Billing
         /\ sweep.at \in {"idle", "next", "wait", "paid", "unpaid"}
<1>1. \A x \in Idling : x.at = "idle"
  BY DEF Idling, Free
<1>2. \A x \in Asked : x.at \in {"wait", "charged"}
  BY DEF Asked
<1>3. \A x \in Making : x.at \in {"run", "written"}
  BY DEF Making
<1>4. (\A x \in Underway : x.at = "next") /\ (\A x \in Billing : x.at \in {"wait", "paid", "unpaid"})
  BY DEF Underway, Billing
<1>5. \A d \in Deploying : deploying[d] \in Idling \cup Asked \cup Making
  BY DEF AgentTypes
<1>6. sweep \in Idling \cup Underway \cup Billing
  BY DEF AgentTypes
<1> QED BY <1>1, <1>2, <1>3, <1>4, <1>5, <1>6

Makes(d, id) == deploying[d].at \in {"run", "written"} /\ deploying[d].id = id
Bills(id) == sweep.at \in {"wait", "paid", "unpaid"} /\ sweep.id = id

\* Rent up to "through" is paid for, but for the rounding of the charges.
Fair(id, through) ==
  /\ begun[id] <= through
  /\ collected[id] * RentUnit <= Dearest * (through - begun[id]) + (Dearest - 1) * bills[id]

\* A record says no more than was paid, its clock runs or never ran, and the
\* grace clock does not run from before the last payment.
Sound(id, rec) ==
  /\ rec.paid <= collected[id]
  /\ rec.rate \in {0, StoragePrice}
  /\ rec.through = Nothing \/ rec.rate = 0 =>
       /\ rec.through = Nothing /\ rec.rate = 0 /\ rec.delinquent = Nothing
       /\ restarts = 0 => collected[id] = 0
  /\ rec.through # Nothing =>
       /\ rec.through <= clock
       /\ restarts = 0 /\ ~(sweep.at = "paid" /\ sweep.id = id) => Fair(id, rec.through)
  /\ rec.delinquent # Nothing => paidAt[id] <= rec.delinquent

Newborn(rec) ==
  /\ rec.paid = 0 /\ rec.delinquent = Nothing /\ rec.rate = StoragePrice
  /\ rec.through # Nothing /\ rec.through <= clock

\* What is on disk is in memory, once it was shown there.
Shown(id) ==
  /\ stored[id] = Nothing => records[id] = Nothing /\ (restarts = 0 => collected[id] = 0)
  /\ (\A d \in Deploying : Makes(d, id) => deploying[d].at = "run") => records[id] = stored[id]

SoundRecords(id) ==
  \A rec \in Record : rec \in {stored[id], records[id]} => Sound(id, rec)

OneWriter(id) ==
  /\ \A d, e \in Deploying : Makes(d, id) /\ Makes(e, id) => d = e
  /\ \A d \in Deploying : Makes(d, id) => ~Bills(id)

Made(id) ==
  \A d \in Deploying : Makes(d, id) =>
    /\ deploying[d].at = "written" => stored[id] = deploying[d].rec
    /\ deploying[d].at = "run" =>
         \A rec \in Record : rec = deploying[d].rec =>
           IF stored[id] = Nothing THEN Newborn(rec) ELSE Sound(id, rec)

\* The bill of the sweep is of the record as it still is.
Billed(id) ==
  Bills(id) =>
    LET rec == sweep.rec
        owed == sweep.tx.amount
    IN /\ rec = records[id] /\ rec.through # Nothing /\ rec.rate = StoragePrice
       /\ owed = Accrued(Size[rec.module], rec.rate, sweep.now - rec.through) /\ owed > 0
       /\ sweep.at = "paid" =>
            /\ rec.paid + owed <= collected[id]
            /\ restarts = 0 => Fair(id, rec.through + Covered(Size[rec.module], rec.rate, owed))

InTurn(id) ==
  sweep.at # "idle" /\ (id \in sweep.left \/ Bills(id)) =>
    stored[id] # Nothing /\ records[id] # Nothing /\ paidAt[id] <= sweep.now

Aged(id) == paidAt[id] <= clock /\ begun[id] <= clock

Kept(id) ==
  Shown(id) /\ SoundRecords(id) /\ OneWriter(id) /\ Made(id) /\ Billed(id) /\ InTurn(id) /\ Aged(id)

\* No rent floats but the sweep's, while the node stays up.
Floats ==
  /\ restarts = 0 => \A t \in floating : t.kind = "rent" => sweep.at = "wait" /\ t = sweep.tx
  /\ \A d \in Deploying : deploying[d].at = "wait" => deploying[d].tx.kind = "run"

Swept ==
  /\ sweep.at # "idle" => sweep.now <= clock
  /\ sweep.at \in {"wait", "paid", "unpaid"} =>
       sweep.id \notin sweep.left /\ sweep.tx.for = sweep.id /\ sweep.tx.kind = "rent"

AgentInv == AgentTypes /\ Floats /\ Swept /\ \A id \in AgentId \ raced : Kept(id)

LEMMA RecordsNotNothing == Nothing \notin Record /\ Nothing \notin Nat
BY AgentsAssumption

-----------------------------------------------------------------------------
(* The invariant of Agents. *)

\* A sound record stays so while its rent does.
LEMMA SoundStays ==
  ASSUME NEW id \in AgentId, AgentTypes, AgentTypes',
         collected'[id] = collected[id], bills'[id] = bills[id],
         begun'[id] = begun[id], paidAt'[id] = paidAt[id],
         clock <= clock', restarts' = 0 => restarts = 0,
         restarts' = 0 /\ sweep.at = "paid" /\ sweep.id = id => sweep'.at = "paid" /\ sweep'.id = id
  PROVE  \A rec \in Record : Sound(id, rec) => Sound(id, rec)'
<1> SUFFICES ASSUME NEW rec \in Record, Sound(id, rec) PROVE Sound(id, rec)'
  OBVIOUS
<1>1. Fair(id, rec.through) => Fair(id, rec.through)'
  BY DEF Fair
<1>2. clock \in Nat /\ clock' \in Nat /\ (rec.through # Nothing => rec.through \in Nat)
  BY DEF AgentTypes, Record
<1> QED BY <1>1, <1>2 DEF Sound

\* Whoever paid nothing was not overcharged.
LEMMA NoOvercharge ==
  ASSUME NEW through \in Nat, NEW b \in Nat, b <= through, NEW n \in Nat, NEW c \in Nat, c = 0
  PROVE  c * RentUnit <= Dearest * (through - b) + (Dearest - 1) * n
<1>1. Dearest \in Nat \ {0} /\ RentUnit \in Nat
  <2>1. StoragePrice * MaxModuleBytes \in Nat /\ StoragePrice * MaxModuleBytes # 0
    BY AgentsAssumption, Z3
  <2> QED BY <2>1, AgentsAssumption DEF Dearest
<1>2. through - b \in Nat /\ Dearest - 1 \in Nat
  BY <1>1
<1>3. Dearest * (through - b) \in Nat /\ (Dearest - 1) * n \in Nat
  BY <1>1, <1>2, Product
<1>4. c * RentUnit = 0
  BY <1>1
<1> QED BY <1>1, <1>3, <1>4

LEMMA NothingOwed ==
  ASSUME NEW id \in AgentId, AgentTypes, NEW through \in Nat, begun[id] <= through, collected[id] = 0
  PROVE  Fair(id, through)
BY NoOvercharge DEF AgentTypes, Fair

\* A step that touches neither an agent's records nor their writers.
LEMMA Untouched ==
  ASSUME NEW id \in AgentId, AgentTypes, AgentTypes', Kept(id),
         records'[id] = records[id], stored'[id] = stored[id],
         collected'[id] = collected[id], bills'[id] = bills[id],
         begun'[id] = begun[id], paidAt'[id] = paidAt[id],
         clock <= clock', restarts' = restarts,
         \A d \in Deploying : Makes(d, id) \/ Makes(d, id)' => deploying'[d] = deploying[d],
         Bills(id) \/ Bills(id)' => sweep' = sweep,
         sweep'.at # "idle" /\ id \in sweep'.left =>
           stored[id] # Nothing /\ records[id] # Nothing /\ paidAt[id] <= sweep'.now
  PROVE  Kept(id)'
<1>1. \A d \in Deploying : Makes(d, id) <=> Makes(d, id)'
  BY DEF Makes
<1>2. Bills(id) <=> Bills(id)'
  BY DEF Bills
<1>3. sweep.at = "paid" /\ sweep.id = id <=> sweep'.at = "paid" /\ sweep'.id = id
  BY <1>2 DEF Bills
<1>4. \A rec \in Record : Sound(id, rec) => Sound(id, rec)'
  BY <1>3, SoundStays
<1>5. \A rec \in Record : Newborn(rec) => Newborn(rec)'
  BY DEF Newborn, AgentTypes, Record
<1>6. Shown(id)'
  BY <1>1 DEF Kept, Shown
<1>7. SoundRecords(id)'
  BY <1>4 DEF Kept, SoundRecords
<1>8. OneWriter(id)'
  BY <1>1, <1>2 DEF Kept, OneWriter
<1>9. Made(id)'
  BY <1>1, <1>4, <1>5 DEF Kept, Made
<1>10. Billed(id)'
  BY <1>2 DEF Kept, Billed, Fair
<1>11. InTurn(id)'
  BY <1>2 DEF Kept, InTurn
<1>12. Aged(id)'
  BY DEF Kept, Aged, AgentTypes
<1> QED BY <1>6, <1>7, <1>8, <1>9, <1>10, <1>11, <1>12 DEF Kept

LEMMA AgentInitially == AgentsInit => AgentInv
<1> SUFFICES ASSUME AgentsInit PROVE AgentInv
  OBVIOUS
<1>1. /\ records = stored
      /\ stored \in [AgentId -> {Nothing} \cup {Legacy(m, a) : m \in Wasm, a \in Deployer \cup {Nothing}}]
      /\ collected = [id \in AgentId |-> 0] /\ bills = [id \in AgentId |-> 0]
      /\ begun = [id \in AgentId |-> 0] /\ paidAt = [id \in AgentId |-> 0]
      /\ deploying = [d \in Deploying |-> Free] /\ sweep = Free /\ Free.at = "idle"
      /\ clock = 0 /\ restarts = 0 /\ floating = {} /\ raced = {} /\ agentNonce = [a \in Deployer |-> 0]
  BY DEF AgentsInit, Free
<1>2. \A m \in Wasm, a \in Deployer \cup {Nothing} : Legacy(m, a) \in Record
  BY DEF Legacy, Record
<1>3. AgentTypes
  BY <1>1, <1>2 DEF AgentTypes, Idling
<1>4. Floats /\ Swept
  BY <1>1 DEF Floats, Swept
<1>5. ASSUME NEW id \in AgentId PROVE Kept(id)
  <2>1. (\A d \in Deploying : ~Makes(d, id)) /\ ~Bills(id)
    BY <1>1 DEF Makes, Bills
  <2>2. \A rec \in Record : rec = stored[id] =>
          rec.paid = 0 /\ rec.rate = 0 /\ rec.through = Nothing /\ rec.delinquent = Nothing
    BY <1>1, RecordsNotNothing DEF Legacy
  <2>3. SoundRecords(id)
    BY <1>1, <2>2 DEF SoundRecords, Sound
  <2> QED BY <1>1, <2>1, <2>3 DEF Kept, Shown, OneWriter, Made, Billed, InTurn, Aged
<1> QED BY <1>1, <1>3, <1>4, <1>5 DEF AgentInv

LEMMA DeployKeeps ==
  ASSUME AgentInv, NEW d \in Deploying,
         \/ \E id \in AgentId, m \in Wasm, a \in Deployer : BeginDeploy(d, id, m, a)
         \/ AbandonDeploy(d)
  PROVE  AgentInv'
<1>1. AgentTypes /\ Floats /\ Swept /\ \A id \in AgentId \ raced : Kept(id)
  BY DEF AgentInv
<1>2. UNCHANGED <<agentStore, sweep, clock, spent, collected, bills, ages, restarts>>
  BY DEF BeginDeploy, AbandonDeploy, payments
<1>3. /\ agentNonce' \in [Deployer -> Nat]
      /\ \A t \in floating' : t \in floating \/ (t \in Charge /\ t.kind = "run")
      /\ \E step \in Idling \cup Asked :
           /\ deploying' = [deploying EXCEPT ![d] = step]
           /\ step.at = "wait" => step.tx.kind = "run"
           /\ step.at \notin {"run", "written"}
      /\ deploying[d].at \notin {"run", "written"}
  <2>1. CASE AbandonDeploy(d)
    <3>1. deploying' = [deploying EXCEPT ![d] = Free] /\ Free \in Idling /\ Free.at = "idle"
          /\ deploying[d].at = "wait" /\ UNCHANGED <<agentNonce, floating>>
      BY <2>1 DEF AbandonDeploy, Step, payments, Free, Idling
    <3> QED BY <1>1, <3>1 DEF AgentTypes
  <2>2. CASE \E id \in AgentId, m \in Wasm, a \in Deployer : BeginDeploy(d, id, m, a)
    <3>1. PICK id \in AgentId, m \in Wasm, a \in Deployer : BeginDeploy(d, id, m, a)
      BY <2>2
    <3> DEFINE tx == ChargeTx(a, RunPrice, id, "run")
               asks(at, t) == [at |-> at, id |-> id, module |-> m, payer |-> a, tx |-> t]
    <3>2. deploying[d] = Free /\ Free.at = "idle" /\ Free \in Idling
      BY <3>1 DEF BeginDeploy, Free, Idling
    <3>3. tx \in Charge /\ tx.kind = "run"
      <4>1. RunPrice \in Nat /\ agentNonce[a] \in Nat
        BY <1>1, AgentsAssumption DEF AgentTypes
      <4> QED BY <4>1 DEF ChargeTx, Charge
    <3>4. /\ asks("charged", Nothing) \in Asked /\ asks("charged", Nothing).at = "charged"
          /\ asks("wait", tx) \in Asked /\ asks("wait", tx).at = "wait" /\ asks("wait", tx).tx = tx
      BY <3>3 DEF Asked
    <3>5. agentNonce' = agentNonce \/ agentNonce' = [agentNonce EXCEPT ![a] = @ + 1]
      BY <3>1 DEF BeginDeploy, UsesNonce
    <3>6. \/ deploying' = [deploying EXCEPT ![d] = asks("charged", Nothing)] /\ floating' = floating
          \/ deploying' = deploying /\ floating' = floating
          \/ deploying' = [deploying EXCEPT ![d] = asks("wait", tx)] /\ floating' = floating \cup {tx}
      BY <3>1 DEF BeginDeploy
    <3>7. deploying' = deploying => deploying' = [deploying EXCEPT ![d] = Free]
      BY <1>1, <3>2 DEF AgentTypes
    <3>8. agentNonce' \in [Deployer -> Nat]
      BY <1>1, <3>5 DEF AgentTypes
    <3> HIDE DEF tx, asks
    <3> QED BY <3>2, <3>3, <3>4, <3>6, <3>7, <3>8
  <2> QED BY <2>1, <2>2
<1>4. PICK step \in Idling \cup Asked :
        /\ deploying' = [deploying EXCEPT ![d] = step]
        /\ step.at = "wait" => step.tx.kind = "run"
        /\ step.at \notin {"run", "written"}
  BY <1>3
<1>5. AgentTypes'
  BY <1>1, <1>2, <1>3, <1>4 DEF AgentTypes, agentStore, ages
<1>6. Floats' /\ Swept'
  <2>1. \A e \in Deploying : deploying'[e] = IF e = d THEN step ELSE deploying[e]
    BY <1>1, <1>4 DEF AgentTypes
  <2> QED BY <1>1, <1>2, <1>3, <1>4, <2>1 DEF Floats, Swept
<1>7. ASSUME NEW id \in AgentId \ raced' PROVE Kept(id)'
  <2>1. \A e \in Deploying : Makes(e, id) \/ Makes(e, id)' => deploying'[e] = deploying[e]
    BY <1>1, <1>3, <1>4 DEF Makes, AgentTypes
  <2>2. Kept(id) /\ raced' = raced
    BY <1>1, <1>2, <1>7 DEF ages
  <2>3. clock <= clock'
    BY <1>1, <1>2 DEF AgentTypes
  <2>4. sweep'.at # "idle" /\ id \in sweep'.left =>
          stored[id] # Nothing /\ records[id] # Nothing /\ paidAt[id] <= sweep'.now
    BY <1>2, <2>2 DEF Kept, InTurn
  <2> QED BY <1>1, <1>2, <1>5, <2>1, <2>2, <2>3, <2>4, Untouched DEF agentStore, ages
<1> QED BY <1>5, <1>6, <1>7 DEF AgentInv

\* Messages, the clock, and the sweep between two agents.
LEMMA QuietKeeps ==
  ASSUME AgentInv,
         \/ \E d \in Deploying, id \in AgentId : Deliver(d, id)
         \/ \E id \in AgentId : DrainInbox(id) \/ SkipAgent(id)
         \/ StartSweep \/ EndSweep \/ AgentTick \/ UNCHANGED agentVars
  PROVE  AgentInv'
<1>1. AgentTypes /\ Floats /\ Swept /\ \A id \in AgentId \ raced : Kept(id)
  BY DEF AgentInv
<1>2. UNCHANGED <<records, stored, agentNonce, deploying, payments, ages, restarts>>
      /\ clock' \in Nat /\ clock <= clock'
  BY <1>1 DEF Deliver, DrainInbox, SkipAgent, StartSweep, EndSweep, AgentTick, agentVars, agentStore, AgentTypes
<1>3. \/ sweep' = sweep
      \/ sweep' = Free /\ sweep.at = "next"
      \/ /\ sweep.at = "idle"
         /\ sweep' = [at |-> "next", now |-> clock, left |-> {id \in AgentId : records[id] # Nothing}]
      \/ \E id \in AgentId : sweep.at = "next" /\ sweep' = Rest(id)
  BY DEF Deliver, DrainInbox, SkipAgent, StartSweep, EndSweep, AgentTick, Sweeps, agentVars
<1>4. sweep' = sweep \/ (sweep.at \in {"idle", "next"} /\ sweep' \in Idling \cup Underway)
  <2>1. Free \in Idling
    BY DEF Idling
  <2>2. clock \in Nat /\ (sweep.at = "next" => sweep.now \in Nat /\ sweep.left \subseteq AgentId)
    BY <1>1, Kinds DEF AgentTypes, Underway
  <2> QED BY <1>3, <2>1, <2>2 DEF Underway, Rest
<1>5. AgentTypes'
  BY <1>1, <1>2, <1>4 DEF AgentTypes, ages, payments
<1>6. sweep' = sweep \/ sweep'.at \in {"idle", "next"}
  BY <1>3 DEF Rest, Free
<1>7. sweep'.at # "idle" => sweep'.now <= clock'
  BY <1>1, <1>2, <1>3, Kinds DEF Rest, Free, Swept, AgentTypes, Underway, Billing
<1>8. Swept'
  BY <1>1, <1>6, <1>7 DEF Swept
<1>9. Floats'
  BY <1>1, <1>2, <1>4 DEF Floats, payments
<1>10. ASSUME NEW id \in AgentId \ raced' PROVE Kept(id)'
  <2>1. Kept(id) /\ raced' = raced
    BY <1>1, <1>2, <1>10 DEF ages
  <2>2. \A e \in Deploying : Makes(e, id) \/ Makes(e, id)' => deploying'[e] = deploying[e]
    BY <1>2
  <2>3. Bills(id) \/ Bills(id)' => sweep' = sweep
    BY <1>4, <1>6 DEF Bills
  <2>4. ASSUME sweep'.at # "idle", id \in sweep'.left
        PROVE  stored[id] # Nothing /\ records[id] # Nothing /\ paidAt[id] <= sweep'.now
    <3>1. CASE sweep' = sweep
      BY <2>1, <2>4, <3>1 DEF Kept, InTurn
    <3>2. CASE sweep' = Free
      BY <2>4, <3>2 DEF Free
    <3>3. CASE sweep' = [at |-> "next", now |-> clock, left |-> {i \in AgentId : records[i] # Nothing}]
      BY <2>1, <2>4, <3>3 DEF Kept, Shown, Aged
    <3>4. CASE \E i \in AgentId : sweep.at = "next" /\ sweep' = Rest(i)
      BY <2>1, <2>4, <3>4 DEF Kept, InTurn, Rest
    <3> QED BY <1>3, <3>1, <3>2, <3>3, <3>4
  <2> QED BY <1>1, <1>2, <1>5, <2>1, <2>2, <2>3, <2>4, Untouched DEF ages, payments
<1> QED BY <1>5, <1>8, <1>9, <1>10 DEF AgentInv

LEMMA FairGrows ==
  ASSUME NEW c \in Nat, NEW n \in Nat, NEW b \in Nat, NEW through \in Nat, b <= through,
         NEW m \in Wasm, NEW now_ \in Nat,
         Accrued(Size[m], StoragePrice, now_ - through) > 0,
         c * RentUnit <= Dearest * (through - b) + (Dearest - 1) * n
  PROVE  LET owed == Accrued(Size[m], StoragePrice, now_ - through)
             cov == Covered(Size[m], StoragePrice, owed)
         IN /\ cov \in Nat /\ through + cov <= now_
            /\ (c + owed) * RentUnit <= Dearest * ((through + cov) - b) + (Dearest - 1) * (n + 1)
<1> DEFINE owed == Accrued(Size[m], StoragePrice, now_ - through)
           cov == Covered(Size[m], StoragePrice, owed)
           more == through - b
<1>1. /\ owed \in Nat \ {0} /\ cov \in Nat /\ cov <= now_ - through
      /\ owed * RentUnit \in Nat /\ Dearest * cov \in Nat
      /\ owed * RentUnit <= Dearest * cov + (Dearest - 1)
  BY Rounding
<1>2. Dearest \in Nat \ {0} /\ RentUnit \in Nat
  BY Rates, AgentsAssumption
<1>3. more \in Nat /\ (through + cov) - b = more + cov
  BY <1>1
<1> HIDE DEF owed, cov, more
<1>4. Dearest * (more + cov) = Dearest * more + Dearest * cov
  BY <1>1, <1>2, <1>3, Z3
<1>5. (Dearest - 1) * (n + 1) = (Dearest - 1) * n + (Dearest - 1)
  BY <1>2, Z3
<1>6. (c + owed) * RentUnit = c * RentUnit + owed * RentUnit
  BY <1>1, <1>2, Z3
<1>7. c * RentUnit \in Nat /\ Dearest * more \in Nat /\ (Dearest - 1) * n \in Nat
  BY <1>2, <1>3, Product
<1>8. c * RentUnit <= Dearest * more + (Dearest - 1) * n
  BY DEF more
<1>9. (c + owed) * RentUnit <= Dearest * (more + cov) + (Dearest - 1) * (n + 1)
  BY <1>1, <1>2, <1>4, <1>5, <1>6, <1>7, <1>8
<1> QED BY <1>1, <1>3, <1>9 DEF owed, cov

LEMMA SettleKeepsRent ==
  ASSUME AgentInv, NEW t \in floating, NEW paid \in BOOLEAN, SettleCharge(t, paid)
  PROVE  AgentInv'
<1>1. AgentTypes /\ Floats /\ Swept /\ \A id \in AgentId \ raced : Kept(id)
  BY DEF AgentInv
<1> DEFINE rent == paid /\ t.kind = "rent"
           swept == sweep.at = "wait" /\ sweep.tx = t
<1>2. /\ UNCHANGED <<agentStore, agentNonce, clock, ages, restarts>>
      /\ floating' = floating \ {t}
      /\ collected' = IF rent THEN [collected EXCEPT ![t.for] = @ + t.amount] ELSE collected
      /\ bills' = IF rent THEN [bills EXCEPT ![t.for] = @ + 1] ELSE bills
      /\ sweep' = IF swept THEN [sweep EXCEPT !.at = IF paid THEN "paid" ELSE "unpaid"] ELSE sweep
  BY DEF SettleCharge
<1>3. t \in Charge /\ t.for \in AgentId /\ t.amount \in Nat
  BY <1>1 DEF AgentTypes, Charge
<1>4. /\ deploying' \in [Deploying -> Idling \cup Asked \cup Making]
      /\ \A d \in Deploying :
           \/ deploying'[d] = deploying[d]
           \/ (deploying[d].at = "wait" /\ deploying'[d].at \in {"idle", "charged"})
  <2>1. \A d \in Deploying :
          \/ deploying'[d] = deploying[d]
          \/ deploying[d].at = "wait" /\ deploying'[d] = [deploying[d] EXCEPT !.at = "charged"]
          \/ deploying[d].at = "wait" /\ deploying'[d] = Free
    BY DEF SettleCharge
  <2>2. \A x \in Asked : [x EXCEPT !.at = "charged"] \in Asked /\ [x EXCEPT !.at = "charged"].at = "charged"
    BY DEF Asked
  <2>3. DOMAIN deploying' = Deploying /\ deploying' = [d \in Deploying |-> deploying'[d]]
    BY DEF SettleCharge
  <2>4. \A d \in Deploying : deploying[d] \in Idling \cup Asked \cup Making
    BY <1>1 DEF AgentTypes
  <2>5. Free.at = "idle" /\ Free \in Idling
    BY DEF Free, Idling
  <2>6. \A d \in Deploying : /\ deploying'[d] \in Idling \cup Asked \cup Making
                             /\ \/ deploying'[d] = deploying[d]
                                \/ (deploying[d].at = "wait" /\ deploying'[d].at \in {"idle", "charged"})
    <3> SUFFICES ASSUME NEW d \in Deploying
                 PROVE  /\ deploying'[d] \in Idling \cup Asked \cup Making
                        /\ \/ deploying'[d] = deploying[d]
                           \/ (deploying[d].at = "wait" /\ deploying'[d].at \in {"idle", "charged"})
      OBVIOUS
    <3>1. deploying[d].at = "wait" => deploying[d] \in Asked
      BY <1>1, Kinds
    <3> QED BY <2>1, <2>2, <2>4, <2>5, <3>1
  <2> QED BY <2>3, <2>6
<1>5. /\ swept => /\ sweep \in Billing /\ sweep' \in Billing
                 /\ sweep'.at = (IF paid THEN "paid" ELSE "unpaid")
                 /\ sweep'.now = sweep.now /\ sweep'.left = sweep.left /\ sweep'.id = sweep.id
                 /\ sweep'.rec = sweep.rec /\ sweep'.tx = sweep.tx
      /\ ~swept => sweep' = sweep
  BY <1>1, <1>2, Kinds DEF Billing
<1>6. AgentTypes'
  <2>1. sweep' \in Idling \cup Underway \cup Billing
    BY <1>1, <1>5 DEF AgentTypes
  <2>2. collected' \in [AgentId -> Nat] /\ bills' \in [AgentId -> Nat]
    BY <1>1, <1>2, <1>3 DEF AgentTypes
  <2> QED BY <1>1, <1>2, <1>4, <2>1, <2>2 DEF AgentTypes, agentStore, ages
<1>7. Swept'
  <2>1. CASE swept
    BY <1>1, <1>2, <1>5, <2>1 DEF Swept
  <2>2. CASE ~swept
    BY <1>1, <1>2, <1>5, <2>2 DEF Swept
  <2> QED BY <2>1, <2>2
<1>8. Floats'
  <2>1. restarts' = 0 => \A u \in floating' : u.kind = "rent" => sweep'.at = "wait" /\ u = sweep'.tx
    BY <1>1, <1>2, <1>5 DEF Floats
  <2>2. \A d \in Deploying : deploying'[d].at = "wait" => deploying'[d].tx.kind = "run"
    BY <1>1, <1>4 DEF Floats
  <2> QED BY <2>1, <2>2 DEF Floats
<1> HIDE DEF rent, swept
<1>9. ASSUME NEW id \in AgentId \ raced' PROVE Kept(id)'
  <2>1. Kept(id) /\ id \in AgentId \ raced
    BY <1>1, <1>2, <1>9 DEF ages
  <2>2. \A e \in Deploying : Makes(e, id) \/ Makes(e, id)' => deploying'[e] = deploying[e]
    BY <1>4 DEF Makes
  <2>3. clock <= clock' /\ clock' = clock /\ clock \in Nat
    BY <1>1, <1>2 DEF AgentTypes
  <2>4. sweep'.at # "idle" /\ id \in sweep'.left =>
          stored[id] # Nothing /\ records[id] # Nothing /\ paidAt[id] <= sweep'.now
    BY <1>5, <2>1 DEF Kept, InTurn, swept
  <2>5. CASE ~(swept /\ sweep.id = id) /\ ~(rent /\ t.for = id)
    <3>1. collected'[id] = collected[id] /\ bills'[id] = bills[id]
      BY <1>1, <1>2, <1>3, <2>5 DEF AgentTypes
    <3>2. Bills(id) \/ Bills(id)' => sweep' = sweep
      BY <1>5, <2>5 DEF Bills
    <3> QED BY <1>1, <1>2, <1>6, <2>1, <2>2, <2>3, <2>4, <3>1, <3>2, Untouched DEF agentStore, ages
  <2>6. CASE (swept /\ sweep.id = id) \/ (rent /\ t.for = id)
    <3>1. collected'[id] \in Nat /\ collected[id] \in Nat /\ collected[id] <= collected'[id]
      <4>1. collected'[id] = IF rent /\ t.for = id THEN collected[id] + t.amount ELSE collected[id]
        BY <1>1, <1>2, <1>3 DEF AgentTypes
      <4> QED BY <1>1, <1>3, <4>1 DEF AgentTypes
    <3>2. restarts = 0 => swept /\ sweep.id = id
      BY <1>1, <2>6 DEF Floats, Swept, rent, swept
    <3>3. restarts = 0 /\ rent => sweep'.at = "paid" /\ sweep'.id = id
      BY <1>5, <3>2 DEF rent
    <3>4. restarts = 0 /\ ~rent => collected'[id] = collected[id] /\ bills'[id] = bills[id]
      BY <1>2
    <3>5. Bills(id) <=> Bills(id)'
      BY <1>5 DEF Bills, swept
    <3>6. Bills(id) => /\ sweep'.now = sweep.now /\ sweep'.left = sweep.left /\ sweep'.id = sweep.id
                       /\ sweep'.rec = sweep.rec /\ sweep'.tx = sweep.tx
      BY <1>5
    <3>7. \A e \in Deploying : Makes(e, id) <=> Makes(e, id)'
      BY <2>2 DEF Makes
    <3>8. restarts = 0 => Bills(id)
      BY <3>2 DEF Bills, swept
    <3>9. ASSUME NEW rec \in Record, Sound(id, rec), rec \in {stored[id], records[id]}
          PROVE  Sound(id, rec)'
      <4>1. rec.paid <= collected'[id]
        BY <3>1, <3>9 DEF Sound, Record
      <4>2. restarts = 0 => records[id] = stored[id]
        BY <2>1, <3>8 DEF Kept, OneWriter, Shown
      <4>3. restarts = 0 => rec = sweep.rec /\ rec.through # Nothing
        BY <2>1, <3>8, <3>9, <4>2 DEF Kept, Billed
      <4>4. restarts = 0 /\ ~rent /\ Fair(id, rec.through) => Fair(id, rec.through)'
        BY <1>2, <3>4 DEF Fair, ages
      <4>5. sweep.at # "paid" \/ restarts # 0
        BY <3>2 DEF swept
      <4>6. rec.rate = 0 => rec.through = Nothing
        BY <3>9 DEF Sound
      <4>7. restarts' = restarts /\ clock' = clock /\ paidAt' = paidAt
        BY <1>2 DEF ages
      <4>8. restarts = 0 => rec.rate # 0
        BY <4>3, <4>6
      <4>9. rec.through # Nothing /\ restarts' = 0 /\ ~(sweep'.at = "paid" /\ sweep'.id = id) =>
              Fair(id, rec.through)'
        BY <3>3, <3>9, <4>4, <4>5, <4>7 DEF Sound
      <4> QED BY <3>9, <4>1, <4>3, <4>7, <4>8, <4>9 DEF Sound
    <3>10. SoundRecords(id)'
      BY <1>2, <2>1, <3>9 DEF Kept, SoundRecords, agentStore
    <3>11. Shown(id)'
      <4>1. stored[id] = Nothing => restarts # 0
        BY <2>1, <3>8 DEF Kept, InTurn, Bills
      <4> QED BY <1>2, <2>1, <2>2, <3>7, <4>1 DEF Kept, Shown, agentStore
    <3>12. OneWriter(id)'
      BY <2>1, <3>5, <3>7 DEF Kept, OneWriter
    <3>13. Made(id)'
      <4>1. ASSUME NEW rec \in Record, Sound(id, rec), restarts # 0 PROVE Sound(id, rec)'
        <5>1. rec.paid <= collected'[id]
          BY <3>1, <4>1 DEF Sound, Record
        <5> QED BY <1>2, <4>1, <5>1 DEF Sound, ages
      <4>2. \A rec \in Record : Newborn(rec) => Newborn(rec)'
        BY <2>3 DEF Newborn
      <4>3. \A d \in Deploying : Makes(d, id) => restarts # 0
        BY <2>1, <3>8 DEF Kept, OneWriter
      <4> QED BY <1>2, <2>1, <2>2, <3>7, <4>1, <4>2, <4>3 DEF Kept, Made, agentStore
    <3>14. Billed(id)'
      <4> SUFFICES ASSUME Bills(id) PROVE Billed(id)'
        BY <3>5 DEF Billed
      <4> DEFINE rec == sweep.rec
                 owed == sweep.tx.amount
                 cov == Covered(Size[rec.module], rec.rate, owed)
      <4>1. /\ rec = records[id] /\ rec.through # Nothing /\ rec.rate = StoragePrice
            /\ owed = Accrued(Size[rec.module], rec.rate, sweep.now - rec.through) /\ owed > 0
        BY <2>1 DEF Kept, Billed
      <4>2. sweep \in Billing /\ rec \in Record /\ owed \in Nat /\ sweep.now \in Nat
            /\ rec.through \in Nat /\ rec.module \in Wasm /\ rec.paid \in Nat
        BY <1>1, <4>1, Kinds DEF Bills, Billing, Billable, Record, Charge
      <4>3. Sound(id, rec)
        BY <2>1, <4>1, <4>2 DEF Kept, SoundRecords
      <4>4. ASSUME sweep'.at = "paid"
            PROVE  /\ rec.paid + owed <= collected'[id]
                   /\ restarts = 0 => Fair(id, rec.through + cov)'
        <5>1. CASE sweep.at = "paid"
          <6>1. ~swept
            BY <5>1 DEF swept
          <6>2. rec.paid + owed <= collected[id]
            BY <2>1, <5>1 DEF Kept, Billed
          <6>3. restarts # 0
            BY <3>2, <6>1
          <6> QED BY <3>1, <4>2, <6>2, <6>3
        <5>2. CASE sweep.at # "paid"
          <6>1. swept /\ paid /\ sweep.tx = t
            BY <1>5, <4>4, <5>2 DEF swept
          <6>2. t.kind = "rent" /\ t.for = id /\ owed = t.amount
            BY <1>1, <6>1 DEF Swept, Bills
          <6>3. rent
            BY <6>1, <6>2 DEF rent
          <6>4. collected'[id] = collected[id] + owed /\ bills'[id] = bills[id] + 1 /\ begun' = begun
            BY <1>1, <1>2, <1>3, <6>2, <6>3 DEF AgentTypes, ages
          <6>5. rec.paid <= collected[id]
            BY <4>3 DEF Sound
          <6>6. rec.paid + owed <= collected'[id]
            BY <3>1, <4>2, <6>4, <6>5
          <6>7. restarts = 0 => Fair(id, rec.through)
            BY <4>1, <4>3, <5>2 DEF Sound
          <6>8. collected[id] \in Nat /\ bills[id] \in Nat /\ begun[id] \in Nat
            BY <1>1 DEF AgentTypes
          <6> HIDE DEF rec, owed, cov
          <6>9. ASSUME restarts = 0 PROVE Fair(id, rec.through + cov)'
            <7>1. /\ begun[id] <= rec.through
                  /\ collected[id] * RentUnit <= Dearest * (rec.through - begun[id]) + (Dearest - 1) * bills[id]
              BY <6>7, <6>9 DEF Fair
            <7>2. /\ cov \in Nat
                  /\ (collected[id] + owed) * RentUnit
                       <= Dearest * ((rec.through + cov) - begun[id]) + (Dearest - 1) * (bills[id] + 1)
              BY <4>1, <4>2, <6>8, <7>1, FairGrows DEF cov
            <7>3. rec' = rec /\ owed' = owed
              BY <3>6 DEF rec, owed
            <7>4. cov' = cov
              BY <7>3 DEF cov, Covered
            <7>5. begun[id] <= rec.through + cov
              BY <4>2, <6>8, <7>1, <7>2
            <7>6. /\ begun'[id] <= rec'.through + cov'
                  /\ collected'[id] * RentUnit
                       <= Dearest * ((rec'.through + cov') - begun'[id]) + (Dearest - 1) * bills'[id]
              BY <6>4, <7>2, <7>3, <7>4, <7>5
            <7> QED BY <7>6 DEF Fair
          <6> QED BY <6>6, <6>9 DEF rec, owed, cov
        <5> QED BY <5>1, <5>2
      <4> QED BY <1>2, <3>6, <4>1, <4>4 DEF Billed, Fair, agentStore
    <3>15. InTurn(id)'
      BY <1>2, <2>1, <2>4, <3>5, <3>6 DEF Kept, InTurn, agentStore, ages, Bills
    <3>16. Aged(id)'
      BY <1>2, <2>1 DEF Kept, Aged, ages
    <3> QED BY <3>10, <3>11, <3>12, <3>13, <3>14, <3>15, <3>16 DEF Kept
  <2> QED BY <2>5, <2>6
<1> QED BY <1>6, <1>7, <1>8, <1>9 DEF AgentInv

\* A step of request d, of the agent "mine": others are untouched.
LEMMA OthersUntouched ==
  ASSUME AgentInv, AgentTypes', NEW d \in Deploying, NEW mine \in AgentId,
         \A e \in Deploying \ {d} : deploying'[e] = deploying[e],
         \A id \in AgentId \ {mine} : ~Makes(d, id) /\ ~Makes(d, id)',
         \A id \in AgentId \ {mine} : /\ records'[id] = records[id] /\ stored'[id] = stored[id]
                                    /\ begun'[id] = begun[id] /\ paidAt'[id] = paidAt[id],
         UNCHANGED <<collected, bills, sweep, clock, restarts>>
  PROVE  \A id \in AgentId \ raced : id # mine => Kept(id)'
<1> SUFFICES ASSUME NEW id \in AgentId \ raced, id # mine PROVE Kept(id)'
  OBVIOUS
<1>1. Kept(id) /\ AgentTypes
  BY DEF AgentInv
<1>2. \A e \in Deploying : Makes(e, id) \/ Makes(e, id)' => deploying'[e] = deploying[e]
  OBVIOUS
<1>3. sweep'.at # "idle" /\ id \in sweep'.left =>
        stored[id] # Nothing /\ records[id] # Nothing /\ paidAt[id] <= sweep'.now
  BY <1>1 DEF Kept, InTurn
<1>4. clock <= clock'
  BY <1>1 DEF AgentTypes
<1> QED BY <1>1, <1>2, <1>3, <1>4, Untouched

LEMMA RunKeeps ==
  ASSUME AgentInv, NEW d \in Deploying, RunModule(d)
  PROVE  AgentInv'
<1> DEFINE id0 == deploying[d].id
           rec0 == NewRecord(id0, deploying[d].module, deploying[d].payer)
<1>1. AgentTypes /\ Floats /\ Swept /\ \A id \in AgentId \ raced : Kept(id)
  BY DEF AgentInv
<1>2. /\ deploying[d].at = "charged"
      /\ deploying' = [deploying EXCEPT ![d] = [at |-> "run", id |-> id0, rec |-> rec0]]
      /\ raced' = IF Writing(id0) THEN raced \cup {id0} ELSE raced
      /\ UNCHANGED <<agentStore, agentNonce, sweep, clock, payments, begun, paidAt, restarts>>
  BY DEF RunModule, Step
<1>3. deploying[d] \in Asked /\ id0 \in AgentId /\ deploying[d].module \in Wasm /\ deploying[d].payer \in Deployer
  BY <1>1, <1>2, Kinds DEF Asked
<1>4. StoragePrice \in Nat \ {0} /\ clock \in Nat
  BY <1>1, AgentsAssumption DEF AgentTypes
<1>5. /\ records[id0] = Nothing =>
           Newborn(rec0) /\ rec0 \in Record /\ rec0.through = clock /\ rec0.rate = StoragePrice
      /\ records[id0] # Nothing =>
           /\ records[id0] \in Record /\ rec0 \in Record
           /\ rec0.paid = records[id0].paid /\ rec0.delinquent = records[id0].delinquent
           /\ rec0.through = (IF records[id0].through = Nothing THEN clock ELSE records[id0].through)
           /\ rec0.rate = (IF records[id0].rate = 0 THEN StoragePrice ELSE records[id0].rate)
  <2>1. CASE records[id0] = Nothing
    <3>1. rec0 = [module |-> deploying[d].module, deployer |-> deploying[d].payer, through |-> clock,
                 paid |-> 0, delinquent |-> Nothing, rate |-> StoragePrice]
      BY <2>1 DEF NewRecord
    <3> HIDE DEF rec0
    <3> QED BY <1>3, <1>4, <2>1, <3>1, RecordsNotNothing DEF Newborn, Record
  <2>2. CASE records[id0] # Nothing
    <3> DEFINE prev == records[id0]
    <3>1. prev \in Record
      BY <1>1, <1>3, <2>2 DEF AgentTypes
    <3>2. rec0 = [module |-> deploying[d].module, deployer |-> deploying[d].payer,
                 through |-> IF prev.through = Nothing THEN clock ELSE prev.through,
                 paid |-> prev.paid, delinquent |-> prev.delinquent,
                 rate |-> IF prev.rate = 0 THEN StoragePrice ELSE prev.rate]
      BY <2>2 DEF NewRecord
    <3> HIDE DEF rec0
    <3>3. /\ prev.through \in Nat \cup {Nothing} /\ prev.paid \in Nat
          /\ prev.delinquent \in Nat \cup {Nothing} /\ prev.rate \in Nat
      BY <3>1 DEF Record
    <3>4. rec0 \in Record
      BY <1>3, <1>4, <3>2, <3>3 DEF Record
    <3> QED BY <2>2, <3>1, <3>2, <3>4
  <2> QED BY <2>1, <2>2
<1>6. rec0 \in Billable
  <2>1. \A rec \in Record : (rec.through = Nothing \/ rec.through \in Nat) /\ rec.rate \in Nat
    BY DEF Record
  <2> QED BY <1>4, <1>5, <2>1 DEF Billable
<1> HIDE DEF rec0
<1>7. PICK mine \in AgentId, new \in Billable, step \in Making :
        /\ mine = id0 /\ new = rec0 /\ deploying' = [deploying EXCEPT ![d] = step]
        /\ step.at = "run" /\ step.id = mine /\ step.rec = new
  <2>1. [at |-> "run", id |-> id0, rec |-> rec0] \in Making
    BY <1>3, <1>6 DEF Making
  <2> QED BY <1>2, <1>3, <1>6, <2>1
<1> HIDE DEF id0
<1>8. \A e \in Deploying : deploying'[e] = IF e = d THEN step ELSE deploying[e]
  BY <1>1, <1>7 DEF AgentTypes
<1>9. AgentTypes'
  BY <1>1, <1>2, <1>7 DEF AgentTypes, agentStore, payments
<1>10. Floats' /\ Swept'
  <2>1. Floats'
    BY <1>1, <1>2, <1>7, <1>8 DEF Floats, payments
  <2> QED BY <1>1, <1>2, <2>1 DEF Swept
<1>11. \A id \in AgentId : (~Makes(d, id)) /\ (id # mine => ~Makes(d, id)')
  BY <1>2, <1>7, <1>8 DEF Makes
<1>12. \A id \in AgentId \ raced : id # mine => Kept(id)'
  BY <1>2, <1>8, <1>9, <1>11, OthersUntouched DEF agentStore, payments
<1>13. ASSUME mine \notin raced' PROVE Kept(mine)'
  <2>1. Kept(mine) /\ ~Writing(mine)
    BY <1>1, <1>2, <1>7, <1>13
  <2>2. (\A e \in Deploying : ~Makes(e, mine)) /\ ~Bills(mine)
    BY <2>1 DEF Writing, Makes, Bills
  <2>3. records[mine] = stored[mine]
    BY <2>1, <2>2 DEF Kept, Shown
  <2>4. ~Bills(mine)'
    BY <1>2, <2>2 DEF Bills
  <2>5. \A e \in Deploying : Makes(e, mine)' => e = d
    BY <1>8, <2>2 DEF Makes
  <2>6. \A rec \in Record : Sound(mine, rec) => Sound(mine, rec)'
    BY <1>2 DEF Sound, Fair, payments
  <2>7. stored[mine] # Nothing => Sound(mine, new)
    <3> SUFFICES ASSUME stored[mine] # Nothing PROVE Sound(mine, new)
      OBVIOUS
    <3> DEFINE prev == records[mine]
    <3>1. /\ prev \in Record
          /\ new.paid = prev.paid /\ new.delinquent = prev.delinquent
          /\ new.through = (IF prev.through = Nothing THEN clock ELSE prev.through)
          /\ new.rate = (IF prev.rate = 0 THEN StoragePrice ELSE prev.rate)
      BY <1>5, <1>7, <2>3
    <3>2. Sound(mine, prev)
      BY <2>1, <2>3, <3>1 DEF Kept, SoundRecords
    <3> HIDE DEF prev
    <3>3. CASE prev.through # Nothing
      BY <1>4, <3>1, <3>2, <3>3 DEF Sound
    <3>4. CASE prev.through = Nothing
      <4>1. /\ prev.rate = 0 /\ prev.delinquent = Nothing /\ prev.paid <= collected[mine]
            /\ restarts = 0 => collected[mine] = 0
        BY <3>2, <3>4 DEF Sound
      <4>2. new.through = clock /\ new.rate = StoragePrice /\ new.delinquent = Nothing /\ clock # Nothing
        BY <1>4, <3>1, <3>4, <4>1, RecordsNotNothing
      <4>3. begun[mine] <= clock /\ begun[mine] \in Nat /\ bills[mine] \in Nat
        BY <1>1, <1>3, <2>1 DEF Kept, Aged, AgentTypes
      <4>4. restarts = 0 => Fair(mine, clock)
        BY <1>1, <1>4, <4>1, <4>3, NothingOwed
      <4> QED BY <1>4, <3>1, <4>1, <4>2, <4>4 DEF Sound
    <3> QED BY <3>3, <3>4
  <2>8. stored[mine] = Nothing => Newborn(new)
    BY <1>5, <1>7, <2>3
  <2>10. Made(mine)'
    <3>1. \A rec \in Record : Newborn(rec) => Newborn(rec)'
      BY <1>2 DEF Newborn
    <3>2. stored' = stored
      BY <1>2 DEF agentStore
    <3>3. deploying'[d].at = "run" /\ deploying'[d].rec = new
      BY <1>7, <1>8
    <3>4. \A rec \in Record : rec = new => IF stored[mine] = Nothing THEN Newborn(rec)' ELSE Sound(mine, rec)'
      BY <2>6, <2>7, <2>8, <3>1
    <3>5. \A e \in Deploying, rec \in Record : Makes(e, mine)' /\ rec = deploying'[e].rec =>
            /\ deploying'[e].at = "run"
            /\ IF stored'[mine] = Nothing THEN Newborn(rec)' ELSE Sound(mine, rec)'
      BY <2>5, <3>2, <3>3, <3>4
    <3>6. \A e \in Deploying : Makes(e, mine)' => deploying'[e].at = "run"
      BY <2>5, <3>3
    <3> QED BY <3>5, <3>6 DEF Made
  <2>11. SoundRecords(mine)'
    BY <1>2, <2>1, <2>6 DEF Kept, SoundRecords, agentStore
  <2>12. Shown(mine)'
    BY <1>2, <2>1, <2>3 DEF Kept, Shown, agentStore, payments
  <2>13. OneWriter(mine)'
    BY <2>4, <2>5 DEF OneWriter
  <2>14. Billed(mine)'
    BY <2>4 DEF Billed
  <2>15. InTurn(mine)' /\ Aged(mine)'
    BY <1>2, <2>1, <2>4 DEF Kept, InTurn, Aged, agentStore
  <2> QED BY <2>10, <2>11, <2>12, <2>13, <2>14, <2>15 DEF Kept
<1>14. \A id \in AgentId \ raced' : Kept(id)'
  <2> SUFFICES ASSUME NEW id \in AgentId \ raced' PROVE Kept(id)'
    OBVIOUS
  <2>1. id \notin raced
    BY <1>2
  <2>2. CASE id = mine
    BY <1>13, <2>2
  <2>3. CASE id # mine
    BY <1>12, <2>1, <2>3
  <2> QED BY <2>2, <2>3
<1> QED BY <1>9, <1>10, <1>14 DEF AgentInv

LEMMA PersistKeeps ==
  ASSUME AgentInv, NEW d \in Deploying, PersistDeployment(d)
  PROVE  AgentInv'
<1>1. AgentTypes /\ Floats /\ Swept /\ \A id \in AgentId \ raced : Kept(id)
  BY DEF AgentInv
<1>2. deploying[d].at = "run" /\ deploying[d] \in Making
  BY <1>1, Kinds DEF PersistDeployment, Step
<1>3. PICK mine \in AgentId, rec \in Record : mine = deploying[d].id /\ rec = deploying[d].rec
  BY <1>2 DEF Making, Billable
<1>4. /\ stored' = [stored EXCEPT ![mine] = rec]
      /\ begun' = IF stored[mine] = Nothing THEN [begun EXCEPT ![mine] = rec.through] ELSE begun
      /\ paidAt' = IF stored[mine] = Nothing THEN [paidAt EXCEPT ![mine] = rec.through] ELSE paidAt
      /\ deploying' = [deploying EXCEPT ![d] = [deploying[d] EXCEPT !.at = "written"]]
      /\ UNCHANGED <<records, inbox, agentNonce, sweep, clock, payments, raced, restarts>>
  BY <1>3 DEF PersistDeployment
<1>5. [deploying[d] EXCEPT !.at = "written"] \in Making
      /\ deploying'[d].at = "written" /\ deploying'[d].id = mine /\ deploying'[d].rec = rec
  BY <1>1, <1>2, <1>3, <1>4 DEF AgentTypes, Making
<1>6. \A e \in Deploying : e # d => deploying'[e] = deploying[e]
  BY <1>4
<1>7. Makes(d, mine) /\ Makes(d, mine)' /\ \A id \in AgentId : id # mine => ~Makes(d, id) /\ ~Makes(d, id)'
  BY <1>2, <1>3, <1>5 DEF Makes
<1>8. mine \notin raced => (stored[mine] = Nothing => Newborn(rec)) /\ (stored[mine] # Nothing => Sound(mine, rec))
  <2> SUFFICES ASSUME mine \notin raced
               PROVE  (stored[mine] = Nothing => Newborn(rec)) /\ (stored[mine] # Nothing => Sound(mine, rec))
    OBVIOUS
  <2>1. Made(mine)
    BY <1>1 DEF Kept
  <2> QED BY <1>2, <1>3, <1>7, <2>1 DEF Made
<1>9. rec.through \in Nat
  BY <1>2, <1>3 DEF Making, Billable
<1>10. AgentTypes'
  <2>1. begun' \in [AgentId -> Nat] /\ paidAt' \in [AgentId -> Nat]
    BY <1>1, <1>3, <1>4, <1>9 DEF AgentTypes
  <2>2. stored' \in [AgentId -> Record \cup {Nothing}]
    BY <1>1, <1>3, <1>4 DEF AgentTypes
  <2>3. deploying' \in [Deploying -> Idling \cup Asked \cup Making]
    BY <1>1, <1>4, <1>5 DEF AgentTypes
  <2> QED BY <1>1, <1>4, <2>1, <2>2, <2>3 DEF AgentTypes, payments
<1>11. Floats' /\ Swept'
  <2>1. Floats'
    BY <1>1, <1>4, <1>5, <1>6 DEF Floats, payments
  <2> QED BY <1>1, <1>4, <2>1 DEF Swept
<1>12. \A id \in AgentId \ raced : id # mine => Kept(id)'
  <2>1. \A id \in AgentId \ {mine} : /\ records'[id] = records[id] /\ stored'[id] = stored[id]
                                    /\ begun'[id] = begun[id] /\ paidAt'[id] = paidAt[id]
    BY <1>1, <1>4 DEF AgentTypes
  <2>2. \A e \in Deploying \ {d} : deploying'[e] = deploying[e]
    BY <1>6
  <2>3. \A id \in AgentId \ {mine} : ~Makes(d, id) /\ ~Makes(d, id)'
    BY <1>7
  <2>4. UNCHANGED <<collected, bills, sweep, clock, restarts>>
    BY <1>4 DEF payments
  <2> QED BY <1>10, <2>1, <2>2, <2>3, <2>4, OthersUntouched
<1>13. ASSUME mine \notin raced PROVE Kept(mine)'
  <2>1. Kept(mine)
    BY <1>1, <1>13
  <2>2. \A e \in Deploying : (Makes(e, mine) => e = d) /\ (Makes(e, mine)' => e = d)
    <3>1. \A e \in Deploying : Makes(e, mine) => e = d
      BY <1>7, <2>1 DEF Kept, OneWriter
    <3>2. \A e \in Deploying : e # d => (Makes(e, mine)' <=> Makes(e, mine))
      BY <1>6 DEF Makes
    <3> QED BY <3>1, <3>2
  <2>3. ~Bills(mine) /\ ~Bills(mine)'
    BY <1>4, <1>7, <2>1 DEF Kept, OneWriter, Bills
  <2>4. records[mine] = stored[mine]
    BY <1>2, <2>1, <2>2 DEF Kept, Shown
  <2>5. stored'[mine] = rec /\ stored'[mine] # Nothing /\ records' = records
    BY <1>1, <1>3, <1>4, RecordsNotNothing DEF AgentTypes
  <2>6. CASE stored[mine] = Nothing
    <3>1. /\ rec.paid = 0 /\ rec.delinquent = Nothing /\ rec.rate = StoragePrice
          /\ rec.through # Nothing /\ rec.through <= clock
      BY <1>8, <1>13, <2>6 DEF Newborn
    <3>2. begun'[mine] = rec.through /\ paidAt'[mine] = rec.through
      BY <1>1, <1>3, <1>4, <2>6 DEF AgentTypes
    <3>3. restarts = 0 => collected[mine] = 0
      BY <2>1, <2>6 DEF Kept, Shown
    <3>4. clock' = clock /\ restarts' = restarts /\ collected' = collected /\ bills' = bills /\ sweep' = sweep
      BY <1>4 DEF payments
    <3>5. collected[mine] \in Nat /\ bills[mine] \in Nat
      BY <1>1 DEF AgentTypes
    <3>6. restarts' = 0 => Fair(mine, rec.through)'
      BY <1>9, <3>2, <3>3, <3>4, <3>5, NoOvercharge DEF Fair
    <3>7. StoragePrice # 0
      BY AgentsAssumption
    <3>8. Sound(mine, rec)'
      BY <3>1, <3>4, <3>5, <3>6, <3>7 DEF Sound
    <3>9. SoundRecords(mine)'
      BY <2>4, <2>5, <2>6, <3>8, RecordsNotNothing DEF SoundRecords
    <3>10. Aged(mine)'
      BY <3>1, <3>2, <3>4 DEF Aged
    <3>11. InTurn(mine)'
      BY <2>1, <2>3, <2>6, <3>4 DEF Kept, InTurn
    <3>12. Shown(mine)'
      BY <1>5, <1>7, <2>5 DEF Shown
    <3>13. OneWriter(mine)' /\ Billed(mine)'
      BY <2>2, <2>3 DEF OneWriter, Billed
    <3>14. Made(mine)'
      BY <1>5, <2>2, <2>5 DEF Made
    <3> QED BY <3>9, <3>10, <3>11, <3>12, <3>13, <3>14 DEF Kept
  <2>7. CASE stored[mine] # Nothing
    <3>1. clock' = clock /\ restarts' = restarts /\ collected' = collected /\ bills' = bills /\ sweep' = sweep
          /\ begun' = begun /\ paidAt' = paidAt
      BY <1>4, <2>7 DEF payments
    <3>2. \A r \in Record : Sound(mine, r) => Sound(mine, r)'
      BY <3>1 DEF Sound, Fair
    <3>3. SoundRecords(mine)'
      BY <1>8, <1>13, <2>1, <2>5, <2>7, <3>2 DEF Kept, SoundRecords
    <3>4. Aged(mine)'
      BY <2>1, <3>1 DEF Kept, Aged
    <3>5. InTurn(mine)'
      BY <2>1, <2>3, <2>5, <3>1 DEF Kept, InTurn
    <3>6. Shown(mine)'
      BY <1>5, <1>7, <2>5 DEF Shown
    <3>7. OneWriter(mine)' /\ Billed(mine)'
      BY <2>2, <2>3 DEF OneWriter, Billed
    <3>8. Made(mine)'
      BY <1>5, <2>2, <2>5 DEF Made
    <3> QED BY <3>3, <3>4, <3>5, <3>6, <3>7, <3>8 DEF Kept
  <2> QED BY <2>6, <2>7
<1>14. \A id \in AgentId \ raced' : Kept(id)'
  BY <1>4, <1>12, <1>13
<1> QED BY <1>10, <1>11, <1>14 DEF AgentInv

LEMMA ShowKeeps ==
  ASSUME AgentInv, NEW d \in Deploying, ShowDeployment(d)
  PROVE  AgentInv'
<1>1. AgentTypes /\ Floats /\ Swept /\ \A id \in AgentId \ raced : Kept(id)
  BY DEF AgentInv
<1>2. deploying[d].at = "written" /\ deploying[d] \in Making
  BY <1>1, Kinds DEF ShowDeployment, Step
<1>3. PICK mine \in AgentId, rec \in Record : mine = deploying[d].id /\ rec = deploying[d].rec
  BY <1>2 DEF Making, Billable
<1>4. /\ records' = [records EXCEPT ![mine] = rec]
      /\ deploying' = [deploying EXCEPT ![d] = Free]
      /\ UNCHANGED <<stored, modules, inbox, agentNonce, sweep, clock, payments, ages, restarts>>
  BY <1>3 DEF ShowDeployment
<1>5. deploying'[d].at = "idle" /\ Free \in Idling
  BY <1>1, <1>4 DEF AgentTypes, Free, Idling
<1>6. \A e \in Deploying : e # d => deploying'[e] = deploying[e]
  BY <1>4
<1>7. Makes(d, mine) /\ \A id \in AgentId : ~Makes(d, id)' /\ (id # mine => ~Makes(d, id))
  BY <1>2, <1>3, <1>5 DEF Makes
<1>8. AgentTypes'
  <2>1. records' \in [AgentId -> Record \cup {Nothing}]
    BY <1>1, <1>3, <1>4 DEF AgentTypes
  <2>2. deploying' \in [Deploying -> Idling \cup Asked \cup Making]
    BY <1>1, <1>4, <1>5 DEF AgentTypes
  <2> QED BY <1>1, <1>4, <2>1, <2>2 DEF AgentTypes, payments, ages
<1>9. Floats' /\ Swept'
  <2>1. Floats'
    BY <1>1, <1>4, <1>5, <1>6 DEF Floats, payments
  <2> QED BY <1>1, <1>4, <2>1 DEF Swept
<1>10. \A id \in AgentId \ raced : id # mine => Kept(id)'
  <2>1. \A id \in AgentId \ {mine} : /\ records'[id] = records[id] /\ stored'[id] = stored[id]
                                    /\ begun'[id] = begun[id] /\ paidAt'[id] = paidAt[id]
    BY <1>1, <1>4 DEF AgentTypes, ages
  <2>2. \A e \in Deploying \ {d} : deploying'[e] = deploying[e]
    BY <1>6
  <2>3. \A id \in AgentId \ {mine} : ~Makes(d, id) /\ ~Makes(d, id)'
    BY <1>7
  <2>4. UNCHANGED <<collected, bills, sweep, clock, restarts>>
    BY <1>4 DEF payments
  <2> QED BY <1>8, <2>1, <2>2, <2>3, <2>4, OthersUntouched
<1>11. ASSUME mine \notin raced PROVE Kept(mine)'
  <2>1. Kept(mine)
    BY <1>1, <1>11
  <2>2. \A e \in Deploying : ~Makes(e, mine)'
    <3>1. \A e \in Deploying : Makes(e, mine) => e = d
      BY <1>7, <2>1 DEF Kept, OneWriter
    <3>2. \A e \in Deploying : e # d => (Makes(e, mine)' <=> Makes(e, mine))
      BY <1>6 DEF Makes
    <3> QED BY <1>7, <3>1, <3>2
  <2>3. ~Bills(mine) /\ ~Bills(mine)'
    BY <1>4, <1>7, <2>1 DEF Kept, OneWriter, Bills
  <2>4. stored[mine] = rec
    BY <1>2, <1>3, <1>7, <2>1 DEF Kept, Made
  <2>5. records'[mine] = rec /\ stored'[mine] = rec /\ rec # Nothing
    BY <1>1, <1>3, <1>4, <2>4, RecordsNotNothing DEF AgentTypes
  <2>6. clock' = clock /\ restarts' = restarts /\ collected' = collected /\ bills' = bills /\ sweep' = sweep
        /\ begun' = begun /\ paidAt' = paidAt
    BY <1>4 DEF payments, ages
  <2>7. \A r \in Record : Sound(mine, r) => Sound(mine, r)'
    BY <2>6 DEF Sound, Fair
  <2>8. SoundRecords(mine)'
    BY <2>1, <2>4, <2>5, <2>7 DEF Kept, SoundRecords
  <2>9. Aged(mine)' /\ InTurn(mine)'
    BY <2>1, <2>3, <2>5, <2>6 DEF Kept, Aged, InTurn
  <2>10. Shown(mine)'
    BY <2>5 DEF Shown
  <2>11. OneWriter(mine)' /\ Billed(mine)' /\ Made(mine)'
    BY <2>2, <2>3 DEF OneWriter, Billed, Made
  <2> QED BY <2>8, <2>9, <2>10, <2>11 DEF Kept
<1>12. \A id \in AgentId \ raced' : Kept(id)'
  BY <1>4, <1>10, <1>11 DEF ages
<1> QED BY <1>8, <1>9, <1>12 DEF AgentInv

\* A step of the sweep, at the agent "mine": others are untouched.
LEMMA OthersUnswept ==
  ASSUME AgentInv, AgentTypes', NEW mine \in AgentId,
         UNCHANGED <<deploying, clock, restarts>>,
         sweep.at # "idle", sweep'.now = sweep.now, sweep'.left \subseteq sweep.left,
         \A id \in AgentId \ {mine} :
           /\ ~Bills(id) /\ ~Bills(id)'
           /\ records'[id] = records[id] /\ stored'[id] = stored[id]
           /\ begun'[id] = begun[id] /\ paidAt'[id] = paidAt[id]
           /\ collected'[id] = collected[id] /\ bills'[id] = bills[id]
  PROVE  \A id \in AgentId \ raced : id # mine => Kept(id)'
<1> SUFFICES ASSUME NEW id \in AgentId \ raced, id # mine PROVE Kept(id)'
  OBVIOUS
<1>1. Kept(id) /\ AgentTypes
  BY DEF AgentInv
<1>2. \A e \in Deploying : Makes(e, id) \/ Makes(e, id)' => deploying'[e] = deploying[e]
  OBVIOUS
<1>3. sweep'.at # "idle" /\ id \in sweep'.left =>
        stored[id] # Nothing /\ records[id] # Nothing /\ paidAt[id] <= sweep'.now
  BY <1>1 DEF Kept, InTurn
<1>4. clock <= clock'
  BY <1>1 DEF AgentTypes
<1> QED BY <1>1, <1>2, <1>3, <1>4, Untouched

\* The sweep between two agents again.
LEMMA Rested ==
  ASSUME AgentTypes, NEW id \in AgentId, sweep.at \in {"next", "wait", "paid", "unpaid"}, sweep' = Rest(id)
  PROVE  /\ sweep' \in Underway /\ sweep'.at = "next" /\ sweep'.now = sweep.now
         /\ sweep'.left = sweep.left \ {id} /\ sweep.now \in Nat
         /\ \A i \in AgentId : ~Bills(i)'
<1>1. sweep.now \in Nat /\ sweep.left \subseteq AgentId
  BY Kinds DEF Underway, Billing
<1>2. sweep' = [at |-> "next", now |-> sweep.now, left |-> sweep.left \ {id}]
  BY DEF Rest
<1> QED BY <1>1, <1>2 DEF Underway, Bills

\* A record is saved under some agent's name.
Saves == \E id \in AgentId, rec \in Record : stored' = [stored EXCEPT ![id] = rec]

LEMMA StartKeeps ==
  ASSUME AgentInv, NEW mine \in AgentId, StartRent(mine)
  PROVE  AgentInv' /\ Saves
<1>1. AgentTypes /\ Floats /\ Swept /\ \A id \in AgentId \ raced : Kept(id)
  BY DEF AgentInv
<1>2. PICK rec \in Record : rec = records[mine]
  BY <1>1 DEF StartRent, AgentTypes
<1> DEFINE started == [rec EXCEPT !.through = sweep.now, !.rate = StoragePrice]
<1>3. /\ sweep.at = "next" /\ mine \in sweep.left
      /\ rec.through = Nothing \/ rec.rate = 0
      /\ records' = [records EXCEPT ![mine] = started] /\ stored' = [stored EXCEPT ![mine] = started]
      /\ begun' = [begun EXCEPT ![mine] = sweep.now] /\ paidAt' = [paidAt EXCEPT ![mine] = sweep.now]
      /\ raced' = (IF Writing(mine) THEN raced \cup {mine} ELSE raced)
      /\ sweep' = Rest(mine)
      /\ UNCHANGED <<agentNonce, deploying, clock, payments, restarts>>
  BY <1>2 DEF StartRent, Sweeps, Save
<1>4. /\ sweep' \in Underway /\ sweep'.at = "next" /\ sweep'.now = sweep.now
      /\ sweep'.left = sweep.left \ {mine} /\ sweep.now \in Nat
      /\ \A i \in AgentId : ~Bills(i) /\ ~Bills(i)'
  BY <1>1, <1>3, Rested DEF Bills
<1>5. PICK new \in Record :
        /\ new = started /\ new.through = sweep.now /\ new.rate = StoragePrice
        /\ new.paid = rec.paid /\ new.delinquent = rec.delinquent
  <2>1. StoragePrice \in Nat
    BY AgentsAssumption
  <2>2. started \in Record /\ started.through = sweep.now /\ started.rate = StoragePrice
        /\ started.paid = rec.paid /\ started.delinquent = rec.delinquent
    BY <1>4, <2>1 DEF Record
  <2> QED BY <2>2
<1> HIDE DEF started
<1>6. sweep.now <= clock
  BY <1>1, <1>3 DEF Swept
<1>7. AgentTypes'
  <2>1. records' \in [AgentId -> Record \cup {Nothing}] /\ stored' \in [AgentId -> Record \cup {Nothing}]
    BY <1>1, <1>3, <1>5 DEF AgentTypes
  <2>2. begun' \in [AgentId -> Nat] /\ paidAt' \in [AgentId -> Nat]
    BY <1>1, <1>3, <1>4 DEF AgentTypes
  <2> QED BY <1>1, <1>3, <1>4, <2>1, <2>2 DEF AgentTypes, payments
<1>8. Floats' /\ Swept'
  <2>1. Floats'
    BY <1>1, <1>3 DEF Floats, payments
  <2> QED BY <1>3, <1>4, <1>6, <2>1 DEF Swept
<1>9. \A id \in AgentId \ raced : id # mine => Kept(id)'
  <2>1. \A id \in AgentId \ {mine} :
          /\ records'[id] = records[id] /\ stored'[id] = stored[id]
          /\ begun'[id] = begun[id] /\ paidAt'[id] = paidAt[id]
          /\ collected'[id] = collected[id] /\ bills'[id] = bills[id]
    BY <1>1, <1>3 DEF AgentTypes, payments
  <2> QED BY <1>3, <1>4, <1>7, <2>1, OthersUnswept
<1>10. ASSUME mine \notin raced' PROVE Kept(mine)'
  <2>1. Kept(mine) /\ ~Writing(mine)
    BY <1>1, <1>3, <1>10
  <2>2. \A e \in Deploying : ~Makes(e, mine) /\ ~Makes(e, mine)'
    BY <1>3, <2>1 DEF Writing, Makes
  <2>3. records'[mine] = new /\ stored'[mine] = new /\ new # Nothing
        /\ begun'[mine] = sweep.now /\ paidAt'[mine] = sweep.now
    BY <1>1, <1>3, <1>5, RecordsNotNothing DEF AgentTypes
  <2>4. Sound(mine, rec)
    BY <1>2, <2>1 DEF Kept, SoundRecords
  <2>5. /\ rec.delinquent = Nothing /\ rec.paid <= collected[mine]
        /\ restarts = 0 => collected[mine] = 0
    BY <1>3, <2>4 DEF Sound
  <2>6. collected' = collected /\ bills' = bills /\ clock' = clock /\ restarts' = restarts
        /\ collected[mine] \in Nat /\ bills[mine] \in Nat
    BY <1>1, <1>3 DEF payments, AgentTypes
  <2>7. restarts' = 0 => Fair(mine, sweep.now)'
    <3>1. PICK n \in Nat : n = sweep.now
      BY <1>4
    <3>2. restarts' = 0 => Fair(mine, n)'
      BY <2>3, <2>5, <2>6, <3>1, NoOvercharge DEF Fair
    <3> QED BY <1>4, <3>1, <3>2
  <2>8. StoragePrice # 0 /\ sweep.now # Nothing
    BY <1>4, AgentsAssumption
  <2>9. Sound(mine, new)'
    <3>1. restarts' = 0 => Fair(mine, new.through)'
      BY <1>4, <1>5, <2>7
    <3> QED BY <1>5, <1>6, <2>5, <2>6, <2>8, <3>1 DEF Sound
  <2>10. SoundRecords(mine)'
    BY <2>3, <2>9 DEF SoundRecords
  <2>11. Shown(mine)' /\ Aged(mine)'
    BY <1>6, <2>3, <2>6 DEF Shown, Aged
  <2>12. InTurn(mine)'
    BY <1>4 DEF InTurn
  <2>13. OneWriter(mine)' /\ Made(mine)' /\ Billed(mine)'
    BY <1>4, <2>2 DEF OneWriter, Made, Billed
  <2> QED BY <2>10, <2>11, <2>12, <2>13 DEF Kept
<1>11. \A id \in AgentId \ raced' : Kept(id)'
  <2> SUFFICES ASSUME NEW id \in AgentId \ raced' PROVE Kept(id)'
    OBVIOUS
  <2>1. id \notin raced
    BY <1>3
  <2> QED BY <1>9, <1>10, <2>1
<1> QED BY <1>3, <1>5, <1>7, <1>8, <1>11 DEF AgentInv, Saves

LEMMA ChargeKeeps ==
  ASSUME AgentInv, NEW mine \in AgentId, ChargeRent(mine)
  PROVE  AgentInv'
<1>1. AgentTypes /\ Floats /\ Swept /\ \A id \in AgentId \ raced : Kept(id)
  BY DEF AgentInv
<1>2. PICK rec \in Record : rec = records[mine]
  BY <1>1 DEF ChargeRent, AgentTypes
<1> DEFINE owed == Accrued(Size[rec.module], rec.rate, sweep.now - rec.through)
           charge == ChargeTx(rec.deployer, owed, mine, "rent")
<1>3. /\ sweep.at = "next" /\ mine \in sweep.left /\ records[mine] # Nothing
      /\ rec.deployer # Nothing /\ rec.through # Nothing /\ owed > 0
      /\ agentNonce' = [agentNonce EXCEPT ![rec.deployer] = @ + 1]
      /\ \/ sweep' = Bill("unpaid", mine, charge) /\ floating' = floating
         \/ sweep' = Bill("wait", mine, charge) /\ floating' = floating \cup {charge}
      /\ raced' = (IF Writing(mine) THEN raced \cup {mine} ELSE raced)
      /\ UNCHANGED <<agentStore, deploying, clock, spent, collected, bills, begun, paidAt, restarts>>
  BY <1>2 DEF ChargeRent, Sweeps, UsesNonce
<1>4. sweep \in Underway /\ sweep.now \in Nat /\ sweep.left \subseteq AgentId /\ sweep.now <= clock
  BY <1>1, <1>3, Kinds DEF Underway, Swept
<1>5. /\ rec.through \in Nat /\ rec.module \in Wasm /\ rec.deployer \in Deployer
      /\ rec.rate \in Nat /\ rec.paid \in Nat
  BY <1>3 DEF Record
<1>6. owed \in Nat
  <2>1. Size[rec.module] \in Nat /\ RentUnit \in Nat \ {0}
    BY <1>5, AgentsAssumption
  <2>2. CASE sweep.now - rec.through > 0
    <3>1. sweep.now - rec.through \in Nat
      BY <1>4, <1>5, <2>2
    <3>2. Size[rec.module] * rec.rate \in Nat
      BY <1>5, <2>1, Product
    <3>3. Size[rec.module] * rec.rate * (sweep.now - rec.through) \in Nat
      BY <3>1, <3>2, Product
    <3> QED BY <2>1, <2>2, <3>3, Quotient DEF Accrued
  <2>3. CASE ~(sweep.now - rec.through > 0)
    BY <2>3 DEF Accrued
  <2> QED BY <2>2, <2>3
<1>7. rec \in Billable
  <2>1. ASSUME rec.rate = 0 PROVE FALSE
    <3>1. Size[rec.module] \in Nat /\ RentUnit \in Nat \ {0}
      BY <1>5, AgentsAssumption
    <3>2. Size[rec.module] * rec.rate = 0
      BY <2>1, <3>1
    <3>3. /\ sweep.now - rec.through \in Nat
          /\ owed = (Size[rec.module] * rec.rate * (sweep.now - rec.through)) \div RentUnit
      BY <1>3, <1>4, <1>5 DEF Accrued
    <3>4. Size[rec.module] * rec.rate * (sweep.now - rec.through) = 0
      BY <3>2, <3>3
    <3>5. owed = 0
      BY <3>1, <3>3, <3>4, Z3
    <3> QED BY <1>3, <3>5
  <2> QED BY <1>5, <2>1 DEF Billable
<1>8. PICK tx \in Charge : tx = charge /\ tx.amount = owed /\ tx.for = mine /\ tx.kind = "rent"
  <2>1. agentNonce[rec.deployer] \in Nat
    BY <1>1, <1>5 DEF AgentTypes
  <2>2. charge \in Charge /\ charge.amount = owed /\ charge.for = mine /\ charge.kind = "rent"
    BY <1>5, <1>6, <2>1 DEF ChargeTx, Charge
  <2> QED BY <2>2
<1> HIDE DEF charge
<1>9. /\ sweep' \in Billing /\ sweep'.at \in {"wait", "unpaid"} /\ sweep'.now = sweep.now
      /\ sweep'.left = sweep.left \ {mine} /\ sweep'.id = mine /\ sweep'.rec = rec /\ sweep'.tx = tx
      /\ floating' = floating \/ (sweep'.at = "wait" /\ floating' = floating \cup {tx})
  <2>1. \A at \in {"wait", "unpaid"} :
          /\ Bill(at, mine, tx) \in Billing /\ Bill(at, mine, tx).at = at
          /\ Bill(at, mine, tx).now = sweep.now /\ Bill(at, mine, tx).left = sweep.left \ {mine}
          /\ Bill(at, mine, tx).id = mine /\ Bill(at, mine, tx).rec = rec /\ Bill(at, mine, tx).tx = tx
    BY <1>2, <1>4, <1>7 DEF Bill, Billing
  <2> QED BY <1>3, <1>8, <2>1
<1>10. AgentTypes'
  <2>1. agentNonce' \in [Deployer -> Nat]
    BY <1>1, <1>3, <1>5 DEF AgentTypes
  <2>2. floating' \subseteq Charge
    BY <1>1, <1>9 DEF AgentTypes
  <2>3. raced' \subseteq AgentId
    BY <1>1, <1>3 DEF AgentTypes
  <2> QED BY <1>1, <1>3, <1>9, <2>1, <2>2, <2>3 DEF AgentTypes, agentStore
<1>11. Floats' /\ Swept'
  <2>1. restarts = 0 => \A t \in floating : t.kind # "rent"
    BY <1>1, <1>3 DEF Floats
  <2>2. Floats'
    BY <1>1, <1>3, <1>9, <2>1 DEF Floats
  <2>3. Swept'
    BY <1>3, <1>4, <1>8, <1>9 DEF Swept
  <2> QED BY <2>2, <2>3
<1>12. \A i \in AgentId : ~Bills(i) /\ (Bills(i)' => i = mine)
  BY <1>3, <1>9 DEF Bills
<1>13. \A id \in AgentId \ raced : id # mine => Kept(id)'
  <2>1. UNCHANGED <<records, stored, begun, paidAt, collected, bills, deploying, clock, restarts>>
    BY <1>3 DEF agentStore
  <2> QED BY <1>3, <1>9, <1>10, <1>12, <2>1, OthersUnswept
<1>14. ASSUME mine \notin raced' PROVE Kept(mine)'
  <2>1. Kept(mine) /\ ~Writing(mine)
    BY <1>1, <1>3, <1>14
  <2>2. \A e \in Deploying : ~Makes(e, mine) /\ ~Makes(e, mine)'
    BY <1>3, <2>1 DEF Writing, Makes
  <2>3. UNCHANGED <<records, stored, begun, paidAt, collected, bills, clock, restarts>>
    BY <1>3 DEF agentStore
  <2>4. records[mine] = stored[mine] /\ records[mine] # Nothing
    BY <1>3, <2>1, <2>2 DEF Kept, Shown
  <2>5. Sound(mine, rec)
    BY <1>2, <2>1 DEF Kept, SoundRecords
  <2>6. rec.rate = StoragePrice
    BY <1>3, <2>5 DEF Sound
  <2>7. \A r \in Record : Sound(mine, r) => Sound(mine, r)'
    BY <1>3, <1>9, <2>3 DEF Sound, Fair
  <2>8. SoundRecords(mine)'
    BY <2>1, <2>3, <2>7 DEF Kept, SoundRecords
  <2>9. Shown(mine)' /\ Aged(mine)'
    BY <2>1, <2>3, <2>4 DEF Kept, Shown, Aged
  <2>10. InTurn(mine)'
    BY <1>3, <1>9, <2>1, <2>3 DEF Kept, InTurn
  <2>11. OneWriter(mine)' /\ Made(mine)'
    BY <2>2 DEF OneWriter, Made
  <2>12. Billed(mine)'
    BY <1>2, <1>3, <1>8, <1>9, <2>3, <2>6 DEF Billed
  <2> QED BY <2>8, <2>9, <2>10, <2>11, <2>12 DEF Kept
<1>15. \A id \in AgentId \ raced' : Kept(id)'
  <2> SUFFICES ASSUME NEW id \in AgentId \ raced' PROVE Kept(id)'
    OBVIOUS
  <2>1. id \notin raced
    BY <1>3
  <2> QED BY <1>13, <1>14, <2>1
<1> QED BY <1>10, <1>11, <1>15 DEF AgentInv

\* What the sweep does with a bill that was decided.
LEMMA PaidKeeps ==
  ASSUME AgentInv, RentPaid
  PROVE  AgentInv' /\ Saves
<1>1. AgentTypes /\ Floats /\ Swept /\ \A id \in AgentId \ raced : Kept(id)
  BY DEF AgentInv
<1>2. sweep.at = "paid" /\ sweep \in Billing
  BY <1>1, Kinds DEF RentPaid
<1>3. PICK mine \in AgentId, rec \in Billable, owed \in Nat :
        mine = sweep.id /\ rec = sweep.rec /\ owed = sweep.tx.amount
  BY <1>2 DEF Billing, Charge
<1> DEFINE cov == Covered(Size[rec.module], rec.rate, owed)
           paid == [rec EXCEPT !.through = @ + cov, !.paid = @ + owed, !.delinquent = Nothing]
<1>4. /\ records' = [records EXCEPT ![mine] = paid] /\ stored' = [stored EXCEPT ![mine] = paid]
      /\ paidAt' = [paidAt EXCEPT ![mine] = sweep.now]
      /\ sweep' = Rest(mine)
      /\ UNCHANGED <<agentNonce, deploying, clock, payments, begun, raced, restarts>>
  BY <1>3 DEF RentPaid, Save, PaidRecord
<1>5. /\ sweep' \in Underway /\ sweep'.at = "next" /\ sweep'.now = sweep.now
      /\ sweep'.left = sweep.left \ {mine} /\ sweep.now \in Nat
      /\ \A i \in AgentId : ~Bills(i)'
  BY <1>1, <1>2, <1>4, Rested
<1>6. sweep.now <= clock /\ mine \notin sweep.left
  BY <1>1, <1>2, <1>3 DEF Swept
<1>7. rec \in Record /\ rec.through \in Nat /\ rec.rate \in Nat \ {0} /\ rec.paid \in Nat /\ rec.module \in Wasm
  BY <1>3 DEF Billable, Record
<1>8. cov \in Nat
  <2>1. Size[rec.module] \in Nat \ {0} /\ RentUnit \in Nat
    BY <1>7, AgentsAssumption
  <2>2. owed * RentUnit \in Nat
    BY <1>3, <2>1, Product
  <2>3. Size[rec.module] * rec.rate \in Nat \ {0}
    BY <1>7, <2>1, Z3
  <2> QED BY <2>2, <2>3, Quotient DEF Covered
<1> HIDE DEF cov
<1>9. PICK new \in Record :
        /\ new = paid /\ new.through = rec.through + cov /\ new.rate = rec.rate
        /\ new.paid = rec.paid + owed /\ new.delinquent = Nothing
  <2>1. rec.through + cov \in Nat /\ rec.paid + owed \in Nat
    BY <1>3, <1>7, <1>8
  <2>2. paid \in Record /\ paid.through = rec.through + cov /\ paid.rate = rec.rate
        /\ paid.paid = rec.paid + owed /\ paid.delinquent = Nothing
    BY <1>7, <2>1 DEF Record
  <2> QED BY <2>2
<1> HIDE DEF paid
<1>10. AgentTypes'
  <2>1. records' \in [AgentId -> Record \cup {Nothing}] /\ stored' \in [AgentId -> Record \cup {Nothing}]
    BY <1>1, <1>4, <1>9 DEF AgentTypes
  <2>2. paidAt' \in [AgentId -> Nat]
    BY <1>1, <1>4, <1>5 DEF AgentTypes
  <2> QED BY <1>1, <1>4, <1>5, <2>1, <2>2 DEF AgentTypes, payments
<1>11. Floats' /\ Swept'
  <2>1. Floats'
    BY <1>1, <1>2, <1>4 DEF Floats, payments
  <2> QED BY <1>4, <1>5, <1>6, <2>1 DEF Swept
<1>12. \A id \in AgentId \ raced : id # mine => Kept(id)'
  <2>1. \A id \in AgentId \ {mine} :
          /\ records'[id] = records[id] /\ stored'[id] = stored[id]
          /\ begun'[id] = begun[id] /\ paidAt'[id] = paidAt[id]
          /\ collected'[id] = collected[id] /\ bills'[id] = bills[id]
    BY <1>1, <1>4 DEF AgentTypes, payments
  <2>2. \A id \in AgentId \ {mine} : ~Bills(id) /\ ~Bills(id)'
    BY <1>3, <1>5 DEF Bills
  <2> QED BY <1>2, <1>4, <1>5, <1>10, <2>1, <2>2, OthersUnswept
<1>13. ASSUME mine \notin raced PROVE Kept(mine)'
  <2>1. Kept(mine) /\ Bills(mine)
    BY <1>1, <1>2, <1>3, <1>13 DEF Bills
  <2>2. \A e \in Deploying : ~Makes(e, mine) /\ ~Makes(e, mine)'
    BY <1>4, <2>1 DEF Kept, OneWriter, Makes
  <2>3. records'[mine] = new /\ stored'[mine] = new /\ new # Nothing /\ paidAt'[mine] = sweep.now
    BY <1>1, <1>4, <1>9, RecordsNotNothing DEF AgentTypes
  <2>4. /\ rec = records[mine] /\ rec.rate = StoragePrice
        /\ owed = Accrued(Size[rec.module], rec.rate, sweep.now - rec.through) /\ owed > 0
        /\ rec.paid + owed <= collected[mine]
        /\ restarts = 0 => Fair(mine, rec.through + cov)
    BY <1>2, <1>3, <2>1 DEF Kept, Billed, cov
  <2>5. Sound(mine, rec)
    BY <1>7, <2>1, <2>4 DEF Kept, SoundRecords
  <2>6. rec.through + cov <= sweep.now
    <3>1. cov = Covered(Size[rec.module], StoragePrice,
                        Accrued(Size[rec.module], StoragePrice, sweep.now - rec.through))
      BY <2>4 DEF cov
    <3>2. cov <= sweep.now - rec.through
      BY <1>5, <1>7, <2>4, <3>1, Rounding
    <3> QED BY <1>5, <1>7, <1>8, <3>2
  <2>7. collected' = collected /\ bills' = bills /\ clock' = clock /\ restarts' = restarts /\ begun' = begun
        /\ clock \in Nat
    BY <1>1, <1>4 DEF payments, AgentTypes
  <2>8. new.through <= clock' /\ new.through # Nothing /\ new.rate # 0 /\ new.rate = StoragePrice
    BY <1>5, <1>6, <1>7, <1>8, <1>9, <2>4, <2>6, <2>7, RecordsNotNothing
  <2>9. restarts' = 0 => Fair(mine, new.through)'
    <3>1. restarts = 0 => Fair(mine, new.through)
      BY <1>9, <2>4
    <3> QED BY <2>7, <3>1 DEF Fair
  <2>10. Sound(mine, new)'
    BY <1>9, <2>4, <2>7, <2>8, <2>9 DEF Sound
  <2>11. SoundRecords(mine)'
    BY <2>3, <2>10 DEF SoundRecords
  <2>12. Shown(mine)' /\ Aged(mine)'
    BY <1>6, <2>1, <2>3, <2>7 DEF Kept, Shown, Aged
  <2>13. InTurn(mine)'
    BY <1>5 DEF InTurn
  <2>14. OneWriter(mine)' /\ Made(mine)' /\ Billed(mine)'
    BY <1>5, <2>2 DEF OneWriter, Made, Billed
  <2> QED BY <2>11, <2>12, <2>13, <2>14 DEF Kept
<1>14. \A id \in AgentId \ raced' : Kept(id)'
  BY <1>4, <1>12, <1>13
<1> QED BY <1>4, <1>9, <1>10, <1>11, <1>14 DEF AgentInv, Saves

LEMMA UnpaidKeeps ==
  ASSUME AgentInv, RentUnpaid
  PROVE  AgentInv' /\ Saves
<1>1. AgentTypes /\ Floats /\ Swept /\ \A id \in AgentId \ raced : Kept(id)
  BY DEF AgentInv
<1>2. sweep.at = "unpaid" /\ sweep \in Billing
  BY <1>1, Kinds DEF RentUnpaid
<1>3. PICK mine \in AgentId, rec \in Billable, since \in Nat \cup {Nothing} :
        mine = sweep.id /\ rec = sweep.rec /\ since = Since(rec)
  <2>1. sweep.id \in AgentId /\ sweep.rec \in Billable /\ sweep.now \in Nat
    BY <1>2 DEF Billing
  <2>2. sweep.rec.delinquent \in Nat \cup {Nothing}
    BY <2>1 DEF Billable, Record
  <2>3. Since(sweep.rec) \in Nat \cup {Nothing}
    BY <2>1, <2>2 DEF Since
  <2> QED BY <2>1, <2>3
<1> DEFINE late == [rec EXCEPT !.delinquent = since]
<1>4. /\ records' = [records EXCEPT ![mine] = late] /\ stored' = [stored EXCEPT ![mine] = late]
      /\ sweep' = Rest(mine)
      /\ UNCHANGED <<agentNonce, deploying, clock, payments, ages, restarts>>
  BY <1>3 DEF RentUnpaid, Save
<1>5. /\ sweep' \in Underway /\ sweep'.at = "next" /\ sweep'.now = sweep.now
      /\ sweep'.left = sweep.left \ {mine} /\ sweep.now \in Nat
      /\ \A i \in AgentId : ~Bills(i)'
  BY <1>1, <1>2, <1>4, Rested
<1>6. sweep.now <= clock /\ mine \notin sweep.left
  BY <1>1, <1>2, <1>3 DEF Swept
<1>7. rec \in Record /\ rec.through \in Nat /\ rec.rate \in Nat \ {0}
  BY <1>3 DEF Billable
<1>8. PICK new \in Record :
        /\ new = late /\ new.through = rec.through /\ new.rate = rec.rate
        /\ new.paid = rec.paid /\ new.delinquent = since
  <2>1. late \in Record /\ late.through = rec.through /\ late.rate = rec.rate
        /\ late.paid = rec.paid /\ late.delinquent = since
    BY <1>3, <1>7 DEF Record
  <2> QED BY <2>1
<1> HIDE DEF late
<1>9. AgentTypes'
  <2>1. records' \in [AgentId -> Record \cup {Nothing}] /\ stored' \in [AgentId -> Record \cup {Nothing}]
    BY <1>1, <1>4, <1>8 DEF AgentTypes
  <2> QED BY <1>1, <1>4, <1>5, <2>1 DEF AgentTypes, payments, ages
<1>10. Floats' /\ Swept'
  <2>1. Floats'
    BY <1>1, <1>2, <1>4 DEF Floats, payments
  <2> QED BY <1>4, <1>5, <1>6, <2>1 DEF Swept
<1>11. \A id \in AgentId \ raced : id # mine => Kept(id)'
  <2>1. \A id \in AgentId \ {mine} :
          /\ records'[id] = records[id] /\ stored'[id] = stored[id]
          /\ begun'[id] = begun[id] /\ paidAt'[id] = paidAt[id]
          /\ collected'[id] = collected[id] /\ bills'[id] = bills[id]
    BY <1>1, <1>4 DEF AgentTypes, payments, ages
  <2>2. \A id \in AgentId \ {mine} : ~Bills(id) /\ ~Bills(id)'
    BY <1>3, <1>5 DEF Bills
  <2> QED BY <1>2, <1>4, <1>5, <1>9, <2>1, <2>2, OthersUnswept
<1>12. ASSUME mine \notin raced PROVE Kept(mine)'
  <2>1. Kept(mine) /\ Bills(mine)
    BY <1>1, <1>2, <1>3, <1>12 DEF Bills
  <2>2. \A e \in Deploying : ~Makes(e, mine) /\ ~Makes(e, mine)'
    BY <1>4, <2>1 DEF Kept, OneWriter, Makes
  <2>3. records'[mine] = new /\ stored'[mine] = new /\ new # Nothing
    BY <1>1, <1>4, <1>8, RecordsNotNothing DEF AgentTypes
  <2>4. rec = records[mine]
    BY <1>2, <1>3, <2>1 DEF Kept, Billed
  <2>5. Sound(mine, rec)
    BY <1>7, <2>1, <2>4 DEF Kept, SoundRecords
  <2>6. UNCHANGED <<collected, bills, clock, restarts, begun, paidAt>>
    BY <1>4 DEF payments, ages
  <2>7. since # Nothing => paidAt[mine] <= since
    <3>1. paidAt[mine] <= sweep.now
      BY <1>2, <2>1 DEF Kept, InTurn
    <3> QED BY <1>3, <2>5, <3>1 DEF Sound, Since
  <2>8. rec.through # Nothing /\ rec.rate # 0
    BY <1>7, RecordsNotNothing
  <2>9. restarts = 0 => Fair(mine, rec.through)
    BY <1>2, <2>5, <2>8 DEF Sound
  <2>10. Sound(mine, new)'
    <3>1. restarts' = 0 => Fair(mine, new.through)'
      BY <1>8, <2>6, <2>9 DEF Fair
    <3>2. rec.paid <= collected[mine] /\ rec.rate \in {0, StoragePrice} /\ rec.through <= clock
      BY <2>5, <2>8 DEF Sound
    <3> QED BY <1>8, <2>6, <2>7, <2>8, <3>1, <3>2 DEF Sound
  <2>11. SoundRecords(mine)'
    BY <2>3, <2>10 DEF SoundRecords
  <2>12. Shown(mine)' /\ Aged(mine)'
    BY <2>1, <2>3, <2>6 DEF Kept, Shown, Aged
  <2>13. InTurn(mine)'
    BY <1>5, <1>6 DEF InTurn
  <2>14. OneWriter(mine)' /\ Made(mine)' /\ Billed(mine)'
    BY <1>5, <2>2 DEF OneWriter, Made, Billed
  <2> QED BY <2>11, <2>12, <2>13, <2>14 DEF Kept
<1>13. \A id \in AgentId \ raced' : Kept(id)'
  BY <1>4, <1>11, <1>12 DEF ages
<1> QED BY <1>4, <1>8, <1>9, <1>10, <1>13 DEF AgentInv, Saves

LEMMA EvictKeeps ==
  ASSUME AgentInv, Evict
  PROVE  AgentInv'
<1>1. AgentTypes /\ Floats /\ Swept /\ \A id \in AgentId \ raced : Kept(id)
  BY DEF AgentInv
<1>2. sweep.at = "unpaid" /\ sweep \in Billing
  BY <1>1, Kinds DEF Evict
<1>3. PICK mine \in AgentId : mine = sweep.id
  BY <1>2 DEF Billing
<1>4. /\ records' = [records EXCEPT ![mine] = Nothing] /\ stored' = [stored EXCEPT ![mine] = Nothing]
      /\ collected' = [collected EXCEPT ![mine] = 0] /\ bills' = [bills EXCEPT ![mine] = 0]
      /\ sweep' = Rest(mine)
      /\ UNCHANGED <<agentNonce, deploying, clock, spent, floating, ages, restarts>>
  BY <1>3 DEF Evict
<1>5. /\ sweep' \in Underway /\ sweep'.at = "next" /\ sweep'.now = sweep.now
      /\ sweep'.left = sweep.left \ {mine} /\ sweep.now \in Nat
      /\ \A i \in AgentId : ~Bills(i)'
  BY <1>1, <1>2, <1>4, Rested
<1>6. sweep.now <= clock /\ mine \notin sweep.left
  BY <1>1, <1>2, <1>3 DEF Swept
<1>7. AgentTypes'
  <2>1. records' \in [AgentId -> Record \cup {Nothing}] /\ stored' \in [AgentId -> Record \cup {Nothing}]
    BY <1>1, <1>4 DEF AgentTypes
  <2>2. collected' \in [AgentId -> Nat] /\ bills' \in [AgentId -> Nat]
    BY <1>1, <1>4 DEF AgentTypes
  <2> QED BY <1>1, <1>4, <1>5, <2>1, <2>2 DEF AgentTypes, ages
<1>8. Floats' /\ Swept'
  <2>1. Floats'
    BY <1>1, <1>2, <1>4 DEF Floats
  <2> QED BY <1>4, <1>5, <1>6, <2>1 DEF Swept
<1>9. \A id \in AgentId \ raced : id # mine => Kept(id)'
  <2>1. \A id \in AgentId \ {mine} :
          /\ records'[id] = records[id] /\ stored'[id] = stored[id]
          /\ begun'[id] = begun[id] /\ paidAt'[id] = paidAt[id]
          /\ collected'[id] = collected[id] /\ bills'[id] = bills[id]
    BY <1>1, <1>4 DEF AgentTypes, ages
  <2>2. \A id \in AgentId \ {mine} : ~Bills(id) /\ ~Bills(id)'
    BY <1>3, <1>5 DEF Bills
  <2> QED BY <1>2, <1>4, <1>5, <1>7, <2>1, <2>2, OthersUnswept
<1>10. ASSUME mine \notin raced PROVE Kept(mine)'
  <2>1. Kept(mine) /\ Bills(mine)
    BY <1>1, <1>2, <1>3, <1>10 DEF Bills
  <2>2. \A e \in Deploying : ~Makes(e, mine) /\ ~Makes(e, mine)'
    BY <1>4, <2>1 DEF Kept, OneWriter, Makes
  <2>3. records'[mine] = Nothing /\ stored'[mine] = Nothing /\ collected'[mine] = 0
    BY <1>1, <1>4 DEF AgentTypes
  <2>4. UNCHANGED <<clock, begun, paidAt>>
    BY <1>4 DEF ages
  <2>5. SoundRecords(mine)' /\ Shown(mine)' /\ Aged(mine)'
    BY <2>1, <2>3, <2>4, RecordsNotNothing DEF Kept, SoundRecords, Shown, Aged
  <2>6. InTurn(mine)'
    BY <1>5, <1>6 DEF InTurn
  <2>7. OneWriter(mine)' /\ Made(mine)' /\ Billed(mine)'
    BY <1>5, <2>2 DEF OneWriter, Made, Billed
  <2> QED BY <2>5, <2>6, <2>7 DEF Kept
<1>11. \A id \in AgentId \ raced' : Kept(id)'
  BY <1>4, <1>9, <1>10 DEF ages
<1> QED BY <1>7, <1>8, <1>11 DEF AgentInv

\* A restart forgets requests and the sweep, and reads the records back.
LEMMA RestartKeepsRent ==
  ASSUME AgentInv, RestartManager
  PROVE  AgentInv'
<1>1. AgentTypes /\ \A id \in AgentId \ raced : Kept(id)
  BY DEF AgentInv
<1>2. /\ restarts' = restarts + 1 /\ records' = stored /\ agentNonce' = [a \in Deployer |-> 0]
      /\ deploying' = [d \in Deploying |-> Free] /\ sweep' = Free /\ Free.at = "idle" /\ Free \in Idling
      /\ UNCHANGED <<stored, clock, payments, ages>>
  BY DEF RestartManager, Free, Idling
<1>3. restarts' \in Nat /\ restarts' # 0
  BY <1>1, <1>2 DEF AgentTypes
<1>4. AgentTypes'
  BY <1>1, <1>2, <1>3 DEF AgentTypes, payments, ages
<1>5. Floats' /\ Swept'
  BY <1>2, <1>3 DEF Floats, Swept
<1>6. ASSUME NEW id \in AgentId \ raced' PROVE Kept(id)'
  <2>1. Kept(id)
    BY <1>1, <1>2, <1>6 DEF ages
  <2>2. (\A d \in Deploying : ~Makes(d, id)') /\ ~Bills(id)'
    BY <1>2 DEF Makes, Bills
  <2>3. \A rec \in Record : Sound(id, rec) => Sound(id, rec)'
    BY <1>2, <1>3 DEF Sound, payments, ages
  <2>4. SoundRecords(id)'
    BY <1>2, <2>1, <2>3 DEF Kept, SoundRecords
  <2>5. Shown(id)' /\ Aged(id)'
    BY <1>2, <1>3, <2>1 DEF Kept, Shown, Aged, payments, ages
  <2>6. OneWriter(id)' /\ Made(id)' /\ Billed(id)' /\ InTurn(id)'
    BY <1>2, <2>2 DEF OneWriter, Made, Billed, InTurn
  <2> QED BY <2>4, <2>5, <2>6 DEF Kept
<1> QED BY <1>4, <1>5, <1>6 DEF AgentInv

LEMMA AgentStep == AgentInv /\ [AgentsNext]_agentVars => AgentInv'
<1> SUFFICES ASSUME AgentInv, [AgentsNext]_agentVars PROVE AgentInv'
  OBVIOUS
<1>1. CASE \E d \in Deploying : Deploys(d)
  <2>1. PICK d \in Deploying : Deploys(d)
    BY <1>1
  <2>2. CASE (\E id \in AgentId, m \in Wasm, a \in Deployer : BeginDeploy(d, id, m, a)) \/ AbandonDeploy(d)
    BY <2>2, DeployKeeps
  <2>3. CASE RunModule(d)
    BY <2>3, RunKeeps
  <2>4. CASE \E id \in AgentId : Deliver(d, id)
    BY <2>4, QuietKeeps
  <2>5. CASE PersistDeployment(d)
    BY <2>5, PersistKeeps
  <2>6. CASE ShowDeployment(d)
    BY <2>6, ShowKeeps
  <2> QED BY <2>1, <2>2, <2>3, <2>4, <2>5, <2>6 DEF Deploys
<1>2. CASE SweepRent
  <2>1. CASE StartSweep \/ EndSweep \/ \E id \in AgentId : SkipAgent(id)
    BY <2>1, QuietKeeps
  <2>2. CASE \E id \in AgentId : StartRent(id)
    BY <2>2, StartKeeps
  <2>3. CASE \E id \in AgentId : ChargeRent(id)
    BY <2>3, ChargeKeeps
  <2>4. CASE RentPaid
    BY <2>4, PaidKeeps
  <2>5. CASE RentUnpaid
    BY <2>5, UnpaidKeeps
  <2>6. CASE Evict
    BY <2>6, EvictKeeps
  <2> QED BY <1>2, <2>1, <2>2, <2>3, <2>4, <2>5, <2>6 DEF SweepRent
<1>3. CASE (\E id \in AgentId : DrainInbox(id)) \/ AgentTick \/ UNCHANGED agentVars
  BY <1>3, QuietKeeps
<1>4. CASE \E t \in floating, paid \in BOOLEAN : SettleCharge(t, paid)
  BY <1>4, SettleKeepsRent
<1>5. CASE RestartManager
  BY <1>5, RestartKeepsRent
<1> QED BY <1>1, <1>2, <1>3, <1>4, <1>5 DEF AgentsNext

\* However sweeps, deployments, payments and restarts follow each other, a record
\* claims no payment the chain did not make, and while the node stays up rent is
\* never more than the bytes accrued, but for the rounding of each charge
\* (internal/agentapi/rent.go).
THEOREM RentIsFair == AgentsSpec => []RentOnce
<1>1. AgentInv => RentOnce
  <2> SUFFICES ASSUME AgentInv, NEW id \in AgentId, records[id] # Nothing, id \notin raced
               PROVE  /\ records[id].paid <= collected[id]
                      /\ restarts = 0 =>
                           collected[id] * RentUnit <= Dearest * (clock - begun[id]) + (Dearest - 1) * bills[id]
    BY DEF RentOnce, Undisturbed
  <2>1. AgentTypes /\ Swept /\ Kept(id)
    BY DEF AgentInv
  <2>2. PICK rec \in Record : rec = records[id]
    BY <2>1 DEF AgentTypes
  <2>3. Sound(id, rec)
    BY <2>1, <2>2 DEF Kept, SoundRecords
  <2>4. /\ clock \in Nat /\ begun[id] \in Nat /\ bills[id] \in Nat /\ collected[id] \in Nat
        /\ begun[id] <= clock
    BY <2>1 DEF AgentTypes, Kept, Aged
  <2>5. ASSUME NEW through \in Nat, Fair(id, through), through <= clock
        PROVE  Fair(id, clock)
    <3>1. Dearest \in Nat /\ RentUnit \in Nat
      <4>1. StoragePrice * MaxModuleBytes \in Nat
        BY AgentsAssumption, Product
      <4> QED BY <4>1, AgentsAssumption DEF Dearest
    <3>2. begun[id] <= through
      BY <2>5 DEF Fair
    <3>3. through - begun[id] \in Nat /\ clock - begun[id] \in Nat /\ through - begun[id] <= clock - begun[id]
      BY <2>4, <2>5, <3>2
    <3>4. /\ Dearest * (through - begun[id]) <= Dearest * (clock - begun[id])
          /\ Dearest * (through - begun[id]) \in Nat /\ Dearest * (clock - begun[id]) \in Nat
      BY <3>1, <3>3, Larger
    <3>5. collected[id] * RentUnit \in Nat /\ (Dearest - 1) * bills[id] \in Int
      BY <2>4, <3>1, Product
    <3>6. collected[id] * RentUnit <= Dearest * (through - begun[id]) + (Dearest - 1) * bills[id]
      BY <2>5 DEF Fair
    <3>7. collected[id] * RentUnit <= Dearest * (clock - begun[id]) + (Dearest - 1) * bills[id]
      BY <3>4, <3>5, <3>6
    <3> QED BY <2>4, <3>7 DEF Fair
  <2>6. restarts = 0 => Fair(id, clock)
    <3> SUFFICES ASSUME restarts = 0 PROVE Fair(id, clock)
      OBVIOUS
    <3>1. CASE rec.through = Nothing
      <4>1. collected[id] = 0
        BY <2>3, <3>1 DEF Sound
      <4> QED BY <2>1, <2>4, <4>1, NothingOwed
    <3>2. CASE rec.through # Nothing /\ ~(sweep.at = "paid" /\ sweep.id = id)
      <4>1. rec.through \in Nat /\ Fair(id, rec.through) /\ rec.through <= clock
        BY <2>3, <3>2 DEF Sound, Record
      <4> QED BY <2>5, <4>1
    <3>3. CASE rec.through # Nothing /\ sweep.at = "paid" /\ sweep.id = id
      <4>1. Bills(id) /\ sweep \in Billing
        BY <2>1, <3>3, Kinds DEF Bills
      <4> DEFINE owed == Accrued(Size[rec.module], StoragePrice, sweep.now - rec.through)
                 cov == Covered(Size[rec.module], StoragePrice, owed)
      <4>2. owed > 0 /\ Fair(id, rec.through + cov)
        BY <2>1, <2>2, <3>3, <4>1 DEF Kept, Billed
      <4>3. rec.through \in Nat /\ rec.module \in Wasm /\ sweep.now \in Nat /\ sweep.now <= clock
        BY <2>1, <3>3, <4>1 DEF Record, Billing, Swept
      <4>4. cov \in Nat /\ cov <= sweep.now - rec.through
        BY <4>2, <4>3, Rounding
      <4> HIDE DEF owed, cov
      <4>5. rec.through + cov \in Nat /\ rec.through + cov <= clock
        BY <2>4, <4>3, <4>4
      <4> QED BY <2>5, <4>2, <4>5
    <3> QED BY <3>1, <3>2, <3>3
  <2>7. rec.paid <= collected[id]
    BY <2>3 DEF Sound
  <2> QED BY <2>2, <2>6, <2>7 DEF Fair
<1> QED BY <1>1, AgentInitially, AgentStep, PTL DEF AgentsSpec

\* An agent is evicted only when its rent was unpaid for the whole grace period
\* since the last payment, whatever happened to it before
\* (internal/agentapi/rent.go).
THEOREM EvictionIsDue == AgentsSpec => EvictedAfterGrace
<1> DEFINE Due == \A id \in AgentId \ raced :
                    stored[id] # Nothing /\ stored'[id] = Nothing => sweep.now - paidAt[id] >= Grace
<1>1. AgentInv /\ AgentInv' /\ [AgentsNext]_agentVars => [Due]_agentVars
  <2> SUFFICES ASSUME AgentInv, AgentInv', AgentsNext, NEW id \in AgentId \ raced,
                      stored[id] # Nothing, stored'[id] = Nothing
               PROVE  sweep.now - paidAt[id] >= Grace
    OBVIOUS
  <2>1. AgentTypes /\ Swept /\ Kept(id)
    BY DEF AgentInv
  <2>2. CASE Evict
    <3>1. sweep.at = "unpaid" /\ sweep \in Billing /\ Overdue /\ stored' = [stored EXCEPT ![sweep.id] = Nothing]
      BY <2>1, <2>2, Kinds DEF Evict
    <3>2. sweep.id = id
      BY <2>1, <3>1 DEF AgentTypes
    <3>3. Bills(id) /\ sweep.now \in Nat /\ sweep.rec \in Record /\ paidAt[id] \in Nat /\ Grace \in Nat
      BY <2>1, <3>1, <3>2, AgentsAssumption DEF Bills, Billing, Billable, AgentTypes
    <3>4. sweep.rec = records[id] /\ paidAt[id] <= sweep.now
      BY <2>1, <3>1, <3>3 DEF Kept, Billed, InTurn
    <3>5. sweep.rec.delinquent \in Nat \cup {Nothing}
      BY <3>3 DEF Record
    <3>6. sweep.rec.delinquent # Nothing => paidAt[id] <= sweep.rec.delinquent
      BY <2>1, <3>3, <3>4 DEF Kept, SoundRecords, Sound
    <3>7. paidAt[id] <= Since(sweep.rec) /\ Since(sweep.rec) \in Nat
      BY <3>3, <3>4, <3>5, <3>6 DEF Since
    <3>8. sweep.now - Since(sweep.rec) >= Grace
      BY <3>1 DEF Overdue
    <3> QED BY <3>3, <3>7, <3>8
  <2>3. CASE ~Evict
    <3>1. ASSUME NEW i \in AgentId, NEW rec \in Record, stored' = [stored EXCEPT ![i] = rec]
          PROVE  FALSE
      BY <2>1, <3>1, RecordsNotNothing DEF AgentTypes
    <3>2. stored' # stored
      OBVIOUS
    <3>3. ASSUME NEW d \in Deploying, Deploys(d) PROVE FALSE
      <4>1. PersistDeployment(d)
        BY <3>2, <3>3 DEF Deploys, BeginDeploy, AbandonDeploy, RunModule, Deliver, ShowDeployment, agentStore
      <4>2. deploying[d] \in Making
        BY <2>1, <4>1, Kinds DEF PersistDeployment, Step
      <4> QED BY <3>1, <4>1, <4>2 DEF PersistDeployment, Making, Billable
    <3>4. CASE SweepRent
      <4>1. (\E i \in AgentId : StartRent(i)) \/ RentPaid \/ RentUnpaid
        BY <2>3, <3>2, <3>4 DEF SweepRent, StartSweep, EndSweep, SkipAgent, ChargeRent, agentStore
      <4> QED BY <3>1, <4>1, StartKeeps, PaidKeeps, UnpaidKeeps DEF Saves
    <3>5. CASE (\E i \in AgentId : DrainInbox(i)) \/ AgentTick \/ RestartManager
               \/ \E t \in floating, paid \in BOOLEAN : SettleCharge(t, paid)
      BY <3>2, <3>5 DEF DrainInbox, AgentTick, RestartManager, SettleCharge, agentStore
    <3> QED BY <3>3, <3>4, <3>5 DEF AgentsNext
  <2> QED BY <2>2, <2>3
<1>2. EvictedAfterGrace <=> [][Due]_agentVars
  BY DEF EvictedAfterGrace
<1> QED BY <1>1, <1>2, AgentInitially, AgentStep, PTL DEF AgentsSpec

-----------------------------------------------------------------------------
(* What the variables of the market may hold. *)

Told(what) == what \in [Provider -> Offer \cup {None}]

JobRecord ==
  [buyer : Buyer \cup RemoteBuyer, provider : Provider, units : Unit, digest : Request \cup {None},
   status : {"pending", "cancelled", "completed", "direct"}]

Served == [at : {"submit", "wait", "finish"}, job : Nat, tx : Transfer \cup {None}]

Sent == known \cup afloat \cup Committed

GossipTypes ==
  /\ announced \subseteq Announcement
  /\ directory \in [Provider -> Entry \cup {None}]
  /\ ordered \subseteq Request

MarketTypes ==
  /\ Told(offer) /\ Told(shelf)
  /\ jobs \in Seq(JobRecord) /\ Len(jobs) <= MaxJobs
  /\ quotes \in Nat /\ now \in Nat /\ crashes \in Nat
  /\ nonces \in [Buyer -> Nat]
  /\ pending \in [1 .. MaxJobs -> Transfer \cup {None}]
  /\ call \in [Caller -> {Idle} \cup Served]
  /\ Sent \subseteq Transfer
  /\ IsFiniteSet(known) /\ IsFiniteSet(afloat) /\ IsFiniteSet(applied) /\ IsFiniteSet(skipped)

\* The provider of a job is registered, in memory and on disk.
Stocked == \A i \in DOMAIN jobs : {offer[jobs[i].provider], shelf[jobs[i].provider]} \subseteq Offer

\* Every request that made a job is known, and made no other.
Listed ==
  /\ OneJobPerRequest
  /\ \A i \in DOMAIN jobs :
       jobs[i].digest # None =>
         /\ jobs[i].buyer = jobs[i].digest.buyer
         /\ <<jobs[i].buyer, jobs[i].digest.nonce, i>> \in requested

\* Transfers and calls are about jobs that exist, and each about its own.
Filed ==
  /\ \A t \in Sent : t.job \in DOMAIN jobs
  /\ \A i \in 1 .. MaxJobs : pending[i] # None => pending[i].job = i /\ i \in DOMAIN jobs
  /\ \A c \in Caller : call[c] # Idle =>
       /\ call[c].job \in DOMAIN jobs /\ jobs[call[c].job].buyer \in Buyer
       /\ call[c].tx # None => call[c].tx.job = call[c].job

\* A completed job was paid for.
PaidFor == \A i \in DOMAIN jobs : jobs[i].status = "completed" => \E t \in applied : t.job = i

Serves(c, i) == call[c] # Idle /\ call[c].job = i

\* While job i is settled in order, it has one transfer, which is under way, or
\* decided and not to be signed again.
Once(i) ==
  /\ \A c, d \in Caller : Serves(c, i) /\ Serves(d, i) => c = d
  /\ \A t, u \in Sent : t.job = i /\ u.job = i => t = u
  /\ \A t \in Sent : t.job = i =>
       \/ pending[i] = t
       \/ /\ pending[i] = None /\ t \in Committed
          /\ Active(i) => \E c \in Caller : Serves(c, i) /\ call[c].at = "finish"
  /\ \A c \in Caller : Serves(c, i) =>
       /\ call[c].at = "submit" => call[c].tx = pending[i]
       /\ call[c].at = "submit" /\ call[c].tx = None => \A t \in Sent : t.job # i
       /\ call[c].at = "wait" => call[c].tx = pending[i]

InOrder(i) == crashes = 0 /\ i \notin overlapped /\ jobs[i].provider \notin disturbed

MarketInv ==
  /\ MarketTypes /\ GossipTypes /\ Stocked /\ Listed /\ Filed /\ PaidFor
  /\ \A i \in DOMAIN jobs : InOrder(i) => Once(i)

-----------------------------------------------------------------------------
(* The invariant of the market. *)

\* A step that leaves the coordinator and its transfers alone, and lets no old job
\* become pending or completed.
Trades ==
  /\ UNCHANGED <<coordinator, known, afloat, applied, skipped, crashes>>
  /\ disturbed \subseteq disturbed'
  /\ DOMAIN jobs \subseteq DOMAIN jobs'
  /\ \A k \in DOMAIN jobs :
       /\ jobs'[k].buyer = jobs[k].buyer /\ jobs'[k].provider = jobs[k].provider
       /\ jobs'[k].status \in {"pending", "completed"} => jobs'[k].status = jobs[k].status
  /\ \A k \in DOMAIN jobs' \ DOMAIN jobs : jobs'[k].status = "pending"

LEMMA TradesKeep ==
  ASSUME MarketInv, Trades, MarketTypes', GossipTypes', Stocked', Listed'
  PROVE  MarketInv'
<1>1. MarketTypes /\ Filed /\ PaidFor
  BY DEF MarketInv
<1>2. UNCHANGED <<nonces, pending, call, overlapped, known, afloat, applied, skipped, crashes>>
  BY DEF Trades, coordinator
<1>3. Sent' = Sent /\ Committed' = Committed
  BY <1>2 DEF Sent, Committed
<1>4. Filed'
  BY <1>1, <1>2, <1>3 DEF Filed, Trades
<1>5. PaidFor'
  <2> SUFFICES ASSUME NEW i \in DOMAIN jobs', jobs'[i].status = "completed"
               PROVE  \E t \in applied' : t.job = i
    BY DEF PaidFor
  <2>1. i \in DOMAIN jobs /\ jobs[i].status = "completed"
    BY DEF Trades
  <2> QED BY <1>1, <1>2, <2>1 DEF PaidFor
<1>6. ASSUME NEW i \in DOMAIN jobs', InOrder(i)' PROVE Once(i)'
  <2>1. CASE i \in DOMAIN jobs
    <3>1. Once(i)
      BY <1>2, <1>6, <2>1 DEF MarketInv, InOrder, Trades
    <3>2. Active(i)' => Active(i)
      BY <2>1 DEF Active, Trades
    <3>3. \A c \in Caller : Serves(c, i)' <=> Serves(c, i)
      BY <1>2 DEF Serves
    <3> QED BY <1>2, <1>3, <3>1, <3>2, <3>3 DEF Once
  <2>2. CASE i \notin DOMAIN jobs
    <3>1. (\A t \in Sent' : t.job # i) /\ \A c \in Caller : ~Serves(c, i)'
      BY <1>1, <1>2, <1>3, <2>2 DEF Filed, Serves
    <3> QED BY <3>1 DEF Once
  <2> QED BY <2>1, <2>2
<1> QED BY <1>4, <1>5, <1>6 DEF MarketInv

LEMMA Least == ASSUME NEW a \in Nat, NEW b \in Nat PROVE Min({a, b}) \in Nat
<1>1. \E x \in {a, b} : \A y \in {a, b} : x <= y
  <2>1. CASE a <= b
    BY <2>1
  <2>2. CASE b <= a
    BY <2>2
  <2> QED BY <2>1, <2>2
<1>2. Min({a, b}) \in {a, b}
  BY <1>1 DEF Min
<1> QED BY <1>2

\* A provider as the actions of the market write it.
LEMMA Offers ==
  ASSUME MarketTypes, NEW p \in Provider
  PROVE  /\ [quote |-> Fresh(1), available |-> Capacity[p], suspended |-> FALSE] \in Offer
         /\ Registered(p) =>
              /\ [offer[p] EXCEPT !.quote = Fresh(@.version + 1)] \in Offer
              /\ [offer[p] EXCEPT !.quote.version = @ + 1, !.quote.observed = now] \in Offer
              /\ [offer[p] EXCEPT !.suspended = ~@] \in Offer
              /\ \A u \in Unit : offer[p].available >= u => Take(offer[p], u) \in Offer
<1>1. quotes \in Nat /\ now \in Nat
  BY DEF MarketTypes
<1>2. \A v \in Nat : Fresh(v) \in Quote
  BY <1>1 DEF Fresh, Quote
<1>3. Capacity[p] \in Nat
  BY MarketAssumption
<1>4. ASSUME Registered(p)
      PROVE  /\ [offer[p] EXCEPT !.quote = Fresh(@.version + 1)] \in Offer
             /\ [offer[p] EXCEPT !.quote.version = @ + 1, !.quote.observed = now] \in Offer
             /\ [offer[p] EXCEPT !.suspended = ~@] \in Offer
             /\ \A u \in Unit : offer[p].available >= u => Take(offer[p], u) \in Offer
  <2>1. offer[p] \in Offer
    BY <1>4 DEF MarketTypes, Told, Registered
  <2>2. PICK o \in Offer : o = offer[p]
    BY <2>1
  <2>3. o.quote \in Quote /\ o.quote.version + 1 \in Nat
    BY DEF Offer, Quote
  <2>4. [o EXCEPT !.quote = Fresh(@.version + 1)] \in Offer
    BY <1>2, <2>3 DEF Offer
  <2>5. [o EXCEPT !.quote.version = @ + 1, !.quote.observed = now] \in Offer
    BY <1>1, <2>3 DEF Offer, Quote
  <2>6. [o EXCEPT !.suspended = ~@] \in Offer
    BY DEF Offer
  <2>7. \A u \in Unit : o.available >= u => Take(o, u) \in Offer
    BY MarketAssumption DEF Take, Offer
  <2> QED BY <2>2, <2>4, <2>5, <2>6, <2>7
<1> QED BY <1>1, <1>2, <1>3, <1>4 DEF Offer

LEMMA Posted ==
  ASSUME MarketTypes, NEW p \in Provider, NEW o \in Offer, Post(p, o)
  PROVE  /\ Told(offer)' /\ Told(shelf)'
         /\ {offer'[p], shelf'[p]} \subseteq Offer
         /\ \A q \in Provider :
              {offer[q], shelf[q]} \subseteq Offer => {offer'[q], shelf'[q]} \subseteq Offer
BY DEF MarketTypes, Told, Post

\* A job that ends, and one that is new.
LEMMA Ends ==
  ASSUME MarketTypes, NEW i \in DOMAIN jobs, NEW status \in {"cancelled", "completed", "direct"},
         End(i, status)
  PROVE  /\ jobs' \in Seq(JobRecord) /\ Len(jobs') <= MaxJobs /\ DOMAIN jobs' = DOMAIN jobs
         /\ \A k \in DOMAIN jobs :
              /\ jobs'[k].buyer = jobs[k].buyer /\ jobs'[k].provider = jobs[k].provider
              /\ jobs'[k].digest = jobs[k].digest /\ jobs'[k].units = jobs[k].units
              /\ jobs'[k].status = IF k = i THEN status ELSE jobs[k].status
<1>1. jobs \in Seq(JobRecord) /\ Len(jobs) <= MaxJobs /\ jobs' = [jobs EXCEPT ![i].status = status]
  BY DEF MarketTypes, End
<1>2. PICK job \in JobRecord : job = jobs[i]
  BY <1>1
<1>3. PICK new \in JobRecord : new = [job EXCEPT !.status = status]
  BY DEF JobRecord
<1>4. /\ new.buyer = job.buyer /\ new.provider = job.provider /\ new.digest = job.digest
      /\ new.units = job.units /\ new.status = status
  BY <1>3 DEF JobRecord
<1>5. jobs' = [jobs EXCEPT ![i] = new]
  BY <1>1, <1>2, <1>3
<1>6. jobs' \in Seq(JobRecord) /\ Len(jobs') = Len(jobs) /\ DOMAIN jobs' = DOMAIN jobs
  BY <1>1, <1>5
<1>7. \A k \in DOMAIN jobs : jobs'[k] = IF k = i THEN new ELSE jobs[k]
  BY <1>1, <1>5
<1> QED BY <1>1, <1>2, <1>4, <1>6, <1>7

LEMMA Appends ==
  ASSUME MarketTypes, Len(jobs) < MaxJobs, NEW b \in Buyer \cup RemoteBuyer, NEW p \in Provider,
         NEW u \in Unit, NEW digest \in Request \cup {None}, jobs' = Append(jobs, Job(b, p, u, digest))
  PROVE  /\ jobs' \in Seq(JobRecord) /\ Len(jobs') <= MaxJobs
         /\ DOMAIN jobs' = DOMAIN jobs \cup {Len(jobs) + 1} /\ Len(jobs) + 1 \notin DOMAIN jobs
         /\ \A k \in DOMAIN jobs : jobs'[k] = jobs[k]
         /\ jobs'[Len(jobs) + 1].digest = digest /\ jobs'[Len(jobs) + 1].status = "pending"
         /\ jobs'[Len(jobs) + 1].provider = p /\ jobs'[Len(jobs) + 1].buyer = b
         /\ jobs'[Len(jobs) + 1].units = u
<1>1. jobs \in Seq(JobRecord) /\ MaxJobs \in Nat
  BY MarketAssumption DEF MarketTypes
<1>2. PICK new \in JobRecord :
        /\ new = Job(b, p, u, digest) /\ new.digest = digest /\ new.status = "pending"
        /\ new.provider = p /\ new.buyer = b /\ new.units = u
  BY DEF Job, JobRecord
<1>3. jobs' = Append(jobs, new)
  BY <1>2
<1>4. jobs' \in Seq(JobRecord) /\ Len(jobs') = Len(jobs) + 1
  BY <1>1, <1>3
<1>5. DOMAIN jobs = 1 .. Len(jobs) /\ DOMAIN jobs' = 1 .. Len(jobs') /\ Len(jobs) \in Nat
  BY <1>1, <1>4
<1>6. \A k \in 1 .. Len(jobs') : jobs'[k] = IF k = Len(jobs) + 1 THEN new ELSE jobs[k]
  BY <1>1, <1>3, <1>4
<1>7. Len(jobs) + 1 \in 1 .. Len(jobs')
  BY <1>4, <1>5
<1> QED BY <1>1, <1>2, <1>4, <1>5, <1>6, <1>7

LEMMA JobTypes ==
  ASSUME MarketTypes, NEW i \in DOMAIN jobs
  PROVE  /\ jobs[i] \in JobRecord /\ jobs[i].provider \in Provider /\ jobs[i].units \in Unit
         /\ i \in 1 .. MaxJobs
<1>1. jobs[i] \in JobRecord /\ i \in 1 .. MaxJobs
  BY MarketAssumption DEF MarketTypes
<1> QED BY <1>1 DEF JobRecord

LEMMA SellingKeeps ==
  ASSUME MarketInv, UNCHANGED gossip, NEW p \in Provider, Selling(p)
  PROVE  MarketInv'
<1>1. MarketTypes /\ GossipTypes /\ Stocked /\ Listed
  BY DEF MarketInv
<1>2. UNCHANGED <<orders, coordinator, chainside, now, crashes>> /\ disturbed \subseteq disturbed'
  BY DEF Selling, RegisterProvider, UpdateProviderQuote, RenewProviderQuote, SetProviderSuspended
<1>3. quotes' \in Nat
  BY <1>1 DEF Selling, RegisterProvider, UpdateProviderQuote, RenewProviderQuote, SetProviderSuspended,
              Stated, MarketTypes
<1>4. \E o \in Offer : Post(p, o)
  <2>1. CASE RegisterProvider(p)
    BY <1>1, <2>1, Offers DEF RegisterProvider
  <2>2. CASE UpdateProviderQuote(p)
    BY <1>1, <2>2, Offers DEF UpdateProviderQuote
  <2>3. CASE RenewProviderQuote(p)
    BY <1>1, <2>3, Offers DEF RenewProviderQuote, DueForRenewal
  <2>4. CASE SetProviderSuspended(p)
    BY <1>1, <2>4, Offers DEF SetProviderSuspended
  <2> QED BY <2>1, <2>2, <2>3, <2>4 DEF Selling
<1>5. Told(offer)' /\ Told(shelf)' /\ Stocked'
  <2>1. \A i \in DOMAIN jobs : jobs[i].provider \in Provider
    BY <1>1, JobTypes
  <2> QED BY <1>1, <1>2, <1>4, <2>1, Posted DEF Stocked, orders
<1>6. MarketTypes'
  BY <1>1, <1>2, <1>3, <1>5 DEF MarketTypes, orders, coordinator, chainside, Sent, Committed
<1>7. GossipTypes' /\ Listed' /\ Trades
  BY <1>1, <1>2 DEF GossipTypes, Listed, OneJobPerRequest, Trades, gossip, orders, chainside
<1> QED BY <1>5, <1>6, <1>7, TradesKeep

\* A new job, of a local buyer or of a request that was not known.
LEMMA ReservingKeeps ==
  ASSUME MarketInv, GossipTypes', Len(jobs) < MaxJobs,
         NEW b \in Buyer \cup RemoteBuyer, NEW p \in Provider, NEW u \in Unit,
         NEW digest \in Request \cup {None}, Sells(p, u), Post(p, Take(offer[p], u)),
         jobs' = Append(jobs, Job(b, p, u, digest)), requested \subseteq requested',
         digest # None =>
           ~KnownRequest(digest) /\ digest.buyer = b /\ <<b, digest.nonce, Len(jobs) + 1>> \in requested',
         UNCHANGED <<quotes, coordinator, chainside, now, crashes, disturbed>>
  PROVE  MarketInv'
<1>1. MarketTypes /\ Stocked /\ Listed
  BY DEF MarketInv
<1>2. Take(offer[p], u) \in Offer
  BY <1>1, Offers DEF Sells
<1>3. /\ Told(offer)' /\ Told(shelf)' /\ {offer'[p], shelf'[p]} \subseteq Offer
      /\ \A q \in Provider :
           {offer[q], shelf[q]} \subseteq Offer => {offer'[q], shelf'[q]} \subseteq Offer
  BY <1>1, <1>2, Posted
<1>4. /\ jobs' \in Seq(JobRecord) /\ Len(jobs') <= MaxJobs
      /\ DOMAIN jobs' = DOMAIN jobs \cup {Len(jobs) + 1}
      /\ \A k \in DOMAIN jobs : jobs'[k] = jobs[k]
      /\ jobs'[Len(jobs) + 1].digest = digest /\ jobs'[Len(jobs) + 1].status = "pending"
      /\ jobs'[Len(jobs) + 1].provider = p /\ jobs'[Len(jobs) + 1].buyer = b
  BY <1>1, Appends
<1>5. MarketTypes'
  BY <1>1, <1>3, <1>4 DEF MarketTypes, coordinator, chainside, Sent, Committed
<1>6. Listed'
  <2>1. \A k \in DOMAIN jobs :
          jobs[k].digest # None /\ digest # None =>
            ~(jobs[k].digest.buyer = digest.buyer /\ jobs[k].digest.nonce = digest.nonce)
    BY <1>1 DEF Listed, KnownRequest
  <2>2. OneJobPerRequest'
    BY <1>1, <1>4, <2>1 DEF Listed, OneJobPerRequest
  <2> QED BY <1>1, <1>4, <2>2 DEF Listed
<1>7. Stocked'
  <2>1. \A i \in DOMAIN jobs : jobs[i].provider \in Provider
    BY <1>1, JobTypes
  <2> QED BY <1>1, <1>3, <1>4, <2>1 DEF Stocked
<1>8. Trades
  BY <1>4 DEF Trades, chainside
<1> QED BY <1>5, <1>6, <1>7, <1>8, TradesKeep

LEMMA BuyingKeeps ==
  ASSUME MarketInv, UNCHANGED gossip, NEW b \in Buyer, NEW p \in Provider, NEW u \in Unit, Buying(b, p, u)
  PROVE  MarketInv'
<1>1. MarketTypes /\ GossipTypes /\ Stocked /\ Listed /\ GossipTypes'
  BY DEF MarketInv, GossipTypes, gossip
<1>2. CASE SubmitJob(b, p, u)
  BY <1>1, <1>2, ReservingKeeps DEF SubmitJob
<1>3. CASE SubmitJobTorn(b, p, u)
  <2>1. Take(offer[p], u) \in Offer
    BY <1>1, <1>3, Offers DEF SubmitJobTorn, Sells
  <2>2. Told(offer)' /\ Told(shelf)'
    BY <1>1, <1>3, <2>1 DEF SubmitJobTorn, MarketTypes, Told
  <2>3. UNCHANGED <<quotes, orders, coordinator, chainside, now, crashes>> /\ disturbed \subseteq disturbed'
    BY <1>3 DEF SubmitJobTorn
  <2>4. MarketTypes'
    BY <1>1, <2>2, <2>3 DEF MarketTypes, orders, coordinator, chainside, Sent, Committed
  <2>5. Listed' /\ Trades
    BY <1>1, <2>3 DEF Listed, OneJobPerRequest, Trades, orders, chainside
  <2>6. Stocked'
    <3>1. offer' = offer /\ \A q \in Provider : shelf[q] \in Offer => shelf'[q] \in Offer
      BY <1>1, <1>3, <2>1 DEF SubmitJobTorn, MarketTypes, Told
    <3>2. \A i \in DOMAIN jobs : jobs[i].provider \in Provider
      BY <1>1, JobTypes
    <3> QED BY <1>1, <2>3, <3>1, <3>2 DEF Stocked, orders
  <2> QED BY <1>1, <2>4, <2>5, <2>6, TradesKeep
<1> QED BY <1>2, <1>3 DEF Buying

LEMMA HandlesKeeps ==
  ASSUME MarketInv, NEW r \in ordered, HandleJobRequest(r)
  PROVE  MarketInv'
<1>1. GossipTypes /\ GossipTypes' /\ ReserveRemoteJob(r)
  BY DEF MarketInv, GossipTypes, HandleJobRequest, gossip
<1>2. r \in Request /\ r # None
  BY <1>1, MarketAssumption DEF GossipTypes
<1>3. r.buyer \in RemoteBuyer /\ r.provider \in Provider /\ r.units \in Unit
  BY <1>2 DEF Request
<1> QED BY <1>1, <1>2, <1>3, ReservingKeeps DEF ReserveRemoteJob

\* The capacity of a job that ends, or that a write failed to end.
LEMMA Releases ==
  ASSUME MarketTypes, Stocked, NEW i \in DOMAIN jobs, NEW status \in {"cancelled", "completed"},
         Release(i, status) \/ ReleaseTorn(i)
  PROVE  /\ Told(offer)' /\ Told(shelf)' /\ Stocked' /\ Active(i) /\ quotes' = quotes /\ requested' = requested
         /\ jobs' \in Seq(JobRecord) /\ Len(jobs') <= MaxJobs /\ DOMAIN jobs' = DOMAIN jobs
         /\ \A k \in DOMAIN jobs :
              /\ jobs'[k].buyer = jobs[k].buyer /\ jobs'[k].provider = jobs[k].provider
              /\ jobs'[k].digest = jobs[k].digest
              /\ k # i => jobs'[k].status = jobs[k].status
         /\ \/ jobs'[i].status = status /\ disturbed' = disturbed
            \/ jobs'[i].status = "pending" /\ disturbed' = disturbed \cup {jobs[i].provider}
<1>1. \A k \in DOMAIN jobs : jobs[k] \in JobRecord
  BY DEF MarketTypes
<1>2. PICK p \in Provider, u \in Unit : p = jobs[i].provider /\ u = jobs[i].units
  BY <1>1 DEF JobRecord
<1>3. Post(p, RestoredBy(i)) /\ Active(i) /\ quotes' = quotes /\ requested' = requested
  BY <1>2 DEF Release, ReleaseTorn, orders
<1>4. RestoredBy(i) \in Offer
  <2>1. PICK o \in Offer : o = offer[p]
    BY <1>2 DEF Stocked
  <2>2. o.available + u \in Nat /\ Capacity[p] \in Nat
    BY MarketAssumption DEF Offer
  <2>3. Min({o.available + u, Capacity[p]}) \in Nat
    BY <2>2, Least
  <2>4. RestoredBy(i) = [o EXCEPT !.available = Min({o.available + u, Capacity[p]})]
    BY <1>2, <2>1 DEF RestoredBy
  <2> QED BY <2>3, <2>4 DEF Offer
<1>5. /\ Told(offer)' /\ Told(shelf)'
      /\ \A q \in Provider :
           {offer[q], shelf[q]} \subseteq Offer => {offer'[q], shelf'[q]} \subseteq Offer
  BY <1>3, <1>4, Posted
<1>6. /\ jobs' \in Seq(JobRecord) /\ Len(jobs') <= MaxJobs /\ DOMAIN jobs' = DOMAIN jobs
      /\ \A k \in DOMAIN jobs :
           /\ jobs'[k].buyer = jobs[k].buyer /\ jobs'[k].provider = jobs[k].provider
           /\ jobs'[k].digest = jobs[k].digest
           /\ k # i => jobs'[k].status = jobs[k].status
      /\ \/ jobs'[i].status = status /\ disturbed' = disturbed
         \/ jobs'[i].status = "pending" /\ disturbed' = disturbed \cup {jobs[i].provider}
  <2>1. CASE Release(i, status)
    BY <2>1, Ends DEF Release
  <2>2. CASE ReleaseTorn(i)
    <3>1. jobs' = jobs /\ disturbed' = disturbed \cup {jobs[i].provider} /\ jobs[i].status = "pending"
      BY <2>2 DEF ReleaseTorn, orders, Active
    <3> QED BY <3>1 DEF MarketTypes
  <2> QED BY <2>1, <2>2
<1>7. Stocked'
  <2>1. \A k \in DOMAIN jobs : jobs[k].provider \in Provider
    BY <1>1 DEF JobRecord
  <2> QED BY <1>5, <1>6, <2>1 DEF Stocked
<1> QED BY <1>3, <1>5, <1>6, <1>7

LEMMA CancelKeeps ==
  ASSUME MarketInv, UNCHANGED gossip, NEW i \in DOMAIN jobs, CancelJob(i) \/ CompleteJobDirectly(i)
  PROVE  MarketInv'
<1>1. MarketTypes /\ GossipTypes /\ Stocked /\ Listed /\ GossipTypes'
  BY DEF MarketInv, GossipTypes, gossip
<1>2. UNCHANGED <<quotes, requested, coordinator, known, afloat, applied, skipped, now, crashes>>
  BY DEF CancelJob, CompleteJobDirectly, Release, ReleaseTorn, books, orders, chainside
<1>3. /\ Told(offer)' /\ Told(shelf)' /\ Stocked'
      /\ jobs' \in Seq(JobRecord) /\ Len(jobs') <= MaxJobs /\ DOMAIN jobs' = DOMAIN jobs
      /\ \A k \in DOMAIN jobs :
           /\ jobs'[k].buyer = jobs[k].buyer /\ jobs'[k].provider = jobs[k].provider
           /\ jobs'[k].digest = jobs[k].digest
           /\ jobs'[k].status \in {"pending", "completed"} => jobs'[k].status = jobs[k].status
      /\ disturbed \subseteq disturbed'
  <2>1. CASE CancelJob(i)
    <3>1. Release(i, "cancelled") \/ ReleaseTorn(i)
      BY <2>1 DEF CancelJob
    <3> QED BY <1>1, <3>1, Releases DEF Active
  <2>2. CASE CompleteJobDirectly(i)
    <3>1. UNCHANGED <<offer, shelf, disturbed>> /\ End(i, "direct")
      BY <2>2 DEF CompleteJobDirectly, books
    <3>2. /\ jobs' \in Seq(JobRecord) /\ Len(jobs') <= MaxJobs /\ DOMAIN jobs' = DOMAIN jobs
          /\ \A k \in DOMAIN jobs :
               /\ jobs'[k].buyer = jobs[k].buyer /\ jobs'[k].provider = jobs[k].provider
               /\ jobs'[k].digest = jobs[k].digest
               /\ jobs'[k].status = IF k = i THEN "direct" ELSE jobs[k].status
      BY <1>1, <3>1, Ends
    <3>3. Told(offer)' /\ Told(shelf)' /\ Stocked'
      BY <1>1, <3>1, <3>2 DEF MarketTypes, Told, Stocked
    <3> QED BY <3>1, <3>2, <3>3
  <2> QED BY <2>1, <2>2
<1>4. MarketTypes'
  BY <1>1, <1>2, <1>3 DEF MarketTypes, coordinator, Sent, Committed
<1>5. Listed' /\ Trades
  BY <1>1, <1>2, <1>3 DEF Listed, OneJobPerRequest, Trades
<1> QED BY <1>1, <1>3, <1>4, <1>5, TradesKeep

\* The clock, and what other nodes hear and order.
LEMMA GossipKeeps ==
  ASSUME MarketInv,
         \/ (MarketTick \/ UNCHANGED marketVars) /\ UNCHANGED gossip
         \/ \E p \in Provider : AnnounceProvider(p)
         \/ \E a \in announced : HandleAnnouncement(a)
         \/ ListRemoteProviders
         \/ \E b \in RemoteBuyer, p \in Provider, u \in Unit, n \in RequestNonce : SubmitRemoteJob(b, p, u, n)
  PROVE  MarketInv'
<1>1. MarketTypes /\ GossipTypes /\ Stocked /\ Listed
  BY DEF MarketInv
<1>2. UNCHANGED <<books, orders, coordinator, chainside, crashes>> /\ now' \in Nat
  <2>1. now \in Nat
    BY <1>1 DEF MarketTypes
  <2>2. CASE MarketTick
    BY <2>1, <2>2 DEF MarketTick
  <2>3. CASE UNCHANGED marketVars
    BY <2>1, <2>3 DEF marketVars
  <2> QED BY <2>2, <2>3 DEF AnnounceProvider, HandleAnnouncement, ListRemoteProviders, SubmitRemoteJob
<1>3. MarketTypes'
  BY <1>1, <1>2 DEF MarketTypes, Told, books, orders, coordinator, chainside, Sent, Committed
<1>4. Stocked' /\ Listed' /\ Trades
  BY <1>1, <1>2 DEF Stocked, Listed, OneJobPerRequest, Trades, books, orders, chainside
<1>5. GossipTypes'
  <2>1. ASSUME NEW p \in Provider, AnnounceProvider(p) PROVE GossipTypes'
    <3>1. PICK o \in Offer : o = offer[p] /\ o.available > 0
      BY <1>1, <2>1 DEF AnnounceProvider, Registered, MarketTypes, Told
    <3>2. [provider |-> p, quote |-> o.quote, available |-> o.available, at |-> now] \in Announcement
      BY <1>1, <3>1 DEF Announcement, Offer, MarketTypes
    <3> QED BY <1>1, <2>1, <3>1, <3>2 DEF AnnounceProvider, GossipTypes
  <2>2. ASSUME NEW a \in announced, HandleAnnouncement(a) PROVE GossipTypes'
    <3>1. a \in Announcement /\ a.provider \in Provider /\ a.quote \in Quote /\ a.available \in Nat \ {0}
      BY <1>1 DEF GossipTypes, Announcement
    <3>2. PICK first \in Nat : directory' = [directory EXCEPT ![a.provider] =
            [quote |-> a.quote, available |-> a.available, received |-> now, first |-> first]]
      <4>1. directory[a.provider] # None => directory[a.provider].first \in Nat
        BY <1>1, <3>1 DEF GossipTypes, Entry
      <4> QED BY <1>1, <2>2, <4>1 DEF HandleAnnouncement, MarketTypes
    <3>3. [quote |-> a.quote, available |-> a.available, received |-> now, first |-> first] \in Entry
      BY <1>1, <3>1 DEF Entry, MarketTypes
    <3> QED BY <1>1, <2>2, <3>2, <3>3 DEF HandleAnnouncement, GossipTypes
  <2>3. CASE ListRemoteProviders
    BY <1>1, <2>3 DEF ListRemoteProviders, GossipTypes
  <2>4. ASSUME NEW b \in RemoteBuyer, NEW p \in Provider, NEW u \in Unit, NEW n \in RequestNonce,
               SubmitRemoteJob(b, p, u, n)
        PROVE  GossipTypes'
    <3>1. directory[p].quote \in Quote
      BY <1>1, <2>4 DEF SubmitRemoteJob, GossipTypes, Entry
    <3>2. [buyer |-> b, provider |-> p, units |-> u, nonce |-> n, quote |-> directory[p].quote] \in Request
      BY <3>1 DEF Request
    <3> QED BY <1>1, <2>4, <3>2 DEF SubmitRemoteJob, GossipTypes
  <2>5. CASE UNCHANGED gossip
    BY <1>1, <2>5 DEF gossip, GossipTypes
  <2> QED BY <2>1, <2>2, <2>3, <2>4, <2>5
<1> QED BY <1>3, <1>4, <1>5, TradesKeep

LEMMA RestartsKeep ==
  ASSUME MarketInv, (RestartMarket /\ UNCHANGED gossip) \/ RestartDirectory
  PROVE  MarketInv'
<1>1. MarketTypes /\ GossipTypes /\ Stocked /\ Listed /\ Filed /\ PaidFor
  BY DEF MarketInv
<1>2. /\ crashes' = crashes + 1 /\ crashes' \in Nat /\ crashes' # 0
      /\ UNCHANGED <<jobs, shelf, quotes, now, afloat, applied, skipped, disturbed>>
  BY <1>1 DEF RestartMarket, RestartDirectory, MarketTypes, books, orders, chainside
<1>3. offer' \in {offer, shelf}
  BY DEF RestartMarket, RestartDirectory, books
<1>4. PaidFor'
  BY <1>1, <1>2 DEF PaidFor
<1>5. \A i \in DOMAIN jobs' : ~InOrder(i)'
  BY <1>2 DEF InOrder
<1>6. CASE RestartMarket /\ UNCHANGED gossip
  <2>1. /\ requested' = RequestsOnDisk /\ nonces' = [b \in Buyer |-> 0]
        /\ pending' = [i \in 1 .. MaxJobs |-> None] /\ call' = [c \in Caller |-> Idle] /\ known' = {}
    BY <1>6 DEF RestartMarket
  <2>2. Sent' \subseteq Sent /\ IsFiniteSet(known')
    BY <1>2, <2>1, FS_EmptySet DEF Sent, Committed
  <2>3. MarketTypes'
    BY <1>1, <1>2, <1>3, <2>1, <2>2 DEF MarketTypes, Told
  <2>4. Filed'
    BY <1>1, <1>2, <2>1, <2>2 DEF Filed
  <2>5. Listed'
    <3>1. OneJobPerRequest'
      BY <1>1, <1>2 DEF Listed, OneJobPerRequest
    <3>2. \A i \in DOMAIN jobs : jobs[i].digest # None =>
            /\ jobs[i].buyer = jobs[i].digest.buyer
            /\ <<jobs[i].buyer, jobs[i].digest.nonce, i>> \in requested'
      BY <1>1, <2>1 DEF Listed, RequestsOnDisk
    <3> QED BY <1>2, <3>1, <3>2 DEF Listed
  <2>6. GossipTypes' /\ Stocked'
    BY <1>1, <1>2, <1>3, <1>6 DEF GossipTypes, gossip, Stocked
  <2> QED BY <1>4, <1>5, <2>3, <2>4, <2>5, <2>6 DEF MarketInv
<1>7. CASE RestartDirectory
  <2>1. /\ UNCHANGED <<requested, nonces, pending, call, known, announced, ordered, offer>>
        /\ directory' = [p \in Provider |-> None]
    BY <1>7 DEF RestartDirectory, books, orders, coordinator, chainside
  <2>2. MarketTypes'
    BY <1>1, <1>2, <2>1 DEF MarketTypes, Told, Sent, Committed
  <2>3. GossipTypes' /\ Stocked' /\ Listed' /\ Filed'
    BY <1>1, <1>2, <2>1 DEF GossipTypes, Stocked, Listed, OneJobPerRequest, Filed, Sent, Committed
  <2> QED BY <1>4, <1>5, <2>2, <2>3 DEF MarketInv
<1> QED BY <1>6, <1>7

LEMMA MarketInitially == ExchangeInit => MarketInv
<1> SUFFICES ASSUME ExchangeInit PROVE MarketInv
  OBVIOUS
<1>1. /\ offer = [p \in Provider |-> None] /\ shelf = offer
      /\ jobs = <<>> /\ quotes = 0 /\ now = 0 /\ crashes = 0
      /\ nonces = [b \in Buyer |-> 0]
      /\ pending = [i \in 1 .. MaxJobs |-> None] /\ call = [c \in Caller |-> Idle]
      /\ known = {} /\ afloat = {} /\ applied = {} /\ skipped = {}
      /\ announced = {} /\ ordered = {} /\ directory = [p \in Provider |-> None]
  BY DEF ExchangeInit, MarketInit
<1>2. jobs \in Seq(JobRecord) /\ Len(jobs) <= MaxJobs /\ DOMAIN jobs = {}
  BY <1>1, MarketAssumption
<1>3. Sent = {} /\ IsFiniteSet({})
  BY <1>1, FS_EmptySet DEF Sent, Committed
<1>4. MarketTypes /\ GossipTypes
  BY <1>1, <1>2, <1>3 DEF MarketTypes, GossipTypes, Told
<1>5. Stocked /\ Listed /\ Filed /\ PaidFor
  BY <1>1, <1>2, <1>3 DEF Stocked, Listed, OneJobPerRequest, Filed, PaidFor
<1> QED BY <1>2, <1>4, <1>5 DEF MarketInv

\* The parts a step of a settlement leaves alone.
LEMMA BooksStay ==
  ASSUME MarketInv, UNCHANGED <<books, orders, now, crashes, gossip>>
  PROVE  /\ GossipTypes' /\ Stocked' /\ Listed'
         /\ Told(offer)' /\ Told(shelf)' /\ jobs' \in Seq(JobRecord) /\ Len(jobs') <= MaxJobs
         /\ quotes' \in Nat /\ now' \in Nat /\ crashes' \in Nat
<1>1. MarketTypes /\ GossipTypes /\ Stocked /\ Listed
  BY DEF MarketInv
<1> QED BY <1>1 DEF MarketTypes, GossipTypes, Stocked, Listed, OneJobPerRequest, Told, books, orders, gossip

\* A block takes a transfer: what was sent stays sent.
LEMMA CommitKeeps ==
  ASSUME MarketInv, UNCHANGED gossip, NEW t \in afloat, CommitTx(t)
  PROVE  MarketInv'
<1>1. MarketTypes /\ Filed /\ PaidFor
  BY DEF MarketInv
<1>2. /\ UNCHANGED <<books, orders, nonces, pending, call, overlapped, now, crashes>>
      /\ afloat' = afloat \ {t} /\ known' = known \ {t}
      /\ \/ applied' = applied \cup {t} /\ skipped' = skipped
         \/ skipped' = skipped \cup {t} /\ applied' = applied
  BY DEF CommitTx, coordinator
<1>3. Sent' = Sent /\ Committed \subseteq Committed' /\ applied \subseteq applied'
  BY <1>2 DEF Sent, Committed
<1>4. IsFiniteSet(known') /\ IsFiniteSet(afloat') /\ IsFiniteSet(applied') /\ IsFiniteSet(skipped')
  <2>1. IsFiniteSet(known) /\ IsFiniteSet(afloat) /\ IsFiniteSet(applied) /\ IsFiniteSet(skipped)
    BY <1>1 DEF MarketTypes
  <2>2. IsFiniteSet(known \ {t}) /\ IsFiniteSet(afloat \ {t})
    BY <2>1, FS_RemoveElement
  <2>3. IsFiniteSet(applied \cup {t}) /\ IsFiniteSet(skipped \cup {t})
    BY <2>1, FS_AddElement
  <2> QED BY <1>2, <2>1, <2>2, <2>3
<1>5. MarketTypes'
  BY <1>1, <1>2, <1>3, <1>4, BooksStay DEF MarketTypes
<1>6. Filed' /\ PaidFor'
  BY <1>1, <1>2, <1>3 DEF Filed, PaidFor, orders
<1>7. ASSUME NEW i \in DOMAIN jobs', InOrder(i)' PROVE Once(i)'
  <2>1. Once(i) /\ jobs' = jobs
    BY <1>2, <1>7 DEF MarketInv, InOrder, books, orders
  <2>2. (Active(i)' <=> Active(i)) /\ \A c \in Caller : Serves(c, i)' <=> Serves(c, i)
    BY <1>2, <2>1 DEF Active, Serves
  <2> QED BY <1>2, <1>3, <2>1, <2>2 DEF Once
<1> QED BY <1>2, <1>5, <1>6, <1>7, BooksStay DEF MarketInv

\* What a call is at.
LEMMA Calls ==
  ASSUME MarketTypes, NEW c \in Caller, call[c] # Idle
  PROVE  call[c] \in Served
BY DEF MarketTypes


LEMMA BeginKeeps ==
  ASSUME MarketInv, UNCHANGED gossip, NEW c \in Caller, NEW i \in DOMAIN jobs, BeginSettle(c, i)
  PROVE  MarketInv'
<1>1. MarketTypes /\ Filed /\ PaidFor
  BY DEF MarketInv
<1>2. PICK tx \in Transfer \cup {None} : tx = pending[i]
  BY <1>1, JobTypes DEF MarketTypes
<1>3. /\ call[c] = Idle /\ Active(i) /\ jobs[i].buyer \in Buyer
      /\ call' = [call EXCEPT ![c] = [at |-> "submit", job |-> i, tx |-> tx]]
      /\ overlapped' = (IF Serving(i) = {} THEN overlapped ELSE overlapped \cup {i})
      /\ UNCHANGED <<books, orders, nonces, pending, known, afloat, applied, skipped, now, crashes>>
  BY <1>2 DEF BeginSettle, chainside
<1>4. PICK new \in Served : new = [at |-> "submit", job |-> i, tx |-> tx] /\ new.at = "submit"
                            /\ new.job = i /\ new.tx = tx /\ new # Idle
  <2>1. i \in Nat
    BY <1>1, JobTypes
  <2>2. [at |-> "submit", job |-> i, tx |-> tx] \in Served
    BY <2>1 DEF Served
  <2>3. [at |-> "submit", job |-> i, tx |-> tx].at # Idle.at
    BY DEF Idle
  <2> QED BY <2>2, <2>3
<1>5. \A d \in Caller : call'[d] = IF d = c THEN new ELSE call[d]
  BY <1>1, <1>3, <1>4 DEF MarketTypes
<1>6. Sent' = Sent /\ Committed' = Committed /\ jobs' = jobs /\ disturbed' = disturbed
  BY <1>3 DEF Sent, Committed, books, orders
<1>7. MarketTypes'
  <2>1. call' \in [Caller -> {Idle} \cup Served]
    BY <1>1, <1>3, <1>4 DEF MarketTypes
  <2> QED BY <1>1, <1>3, <1>6, <2>1, BooksStay DEF MarketTypes
<1>8. Filed' /\ PaidFor'
  <2>1. tx # None => tx.job = i
    BY <1>1, <1>2, JobTypes DEF Filed
  <2>2. PaidFor'
    BY <1>1, <1>3, <1>6 DEF PaidFor
  <2> QED BY <1>1, <1>3, <1>4, <1>5, <1>6, <2>1, <2>2 DEF Filed
<1>9. ASSUME NEW k \in DOMAIN jobs', InOrder(k)' PROVE Once(k)'
  <2>1. Once(k) /\ k \notin overlapped'
    BY <1>3, <1>6, <1>9 DEF MarketInv, InOrder
  <2>2. Active(k)' <=> Active(k)
    BY <1>6 DEF Active
  <2>3. CASE k # i
    <3>1. \A d \in Caller : (Serves(d, k)' <=> Serves(d, k)) /\ (Serves(d, k) => call'[d] = call[d])
      BY <1>3, <1>4, <1>5, <2>3 DEF Serves
    <3> QED BY <1>3, <1>6, <2>1, <2>2, <3>1 DEF Once
  <2>4. CASE k = i
    <3>1. \A d \in Caller : ~Serves(d, i)
      BY <1>3, <2>1, <2>4 DEF Serving, Serves
    <3>2. \A d \in Caller : Serves(d, i)' <=> d = c
      BY <1>4, <1>5, <3>1 DEF Serves
    <3>3. pending[i] = None => \A t \in Sent : t.job # i
      BY <1>1, <1>3, <2>1, <2>4, <3>1, MarketAssumption DEF Once, MarketTypes
    <3> QED BY <1>2, <1>3, <1>4, <1>5, <1>6, <2>1, <2>4, <3>1, <3>2, <3>3 DEF Once
  <2> QED BY <2>3, <2>4
<1> QED BY <1>3, <1>7, <1>8, <1>9, BooksStay DEF MarketInv

\* A step of the call that serves job i: other jobs are as they were.
LEMMA OthersServed ==
  ASSUME MarketInv, NEW c \in Caller, NEW i \in DOMAIN jobs, Serves(c, i),
         NEW new \in {Idle} \cup Served, new # Idle => new.job = i, call' = [call EXCEPT ![c] = new],
         \A k \in DOMAIN jobs : k # i => pending'[k] = pending[k] /\ (Active(k)' => Active(k)),
         \A t \in Sent' : t \in Sent \/ t.job = i, Committed \subseteq Committed'
  PROVE  \A k \in DOMAIN jobs : k # i /\ Once(k) => Once(k)'
<1> SUFFICES ASSUME NEW k \in DOMAIN jobs, k # i, Once(k) PROVE Once(k)'
  OBVIOUS
<1>1. \A d \in Caller : call'[d] = IF d = c THEN new ELSE call[d]
  BY DEF MarketInv, MarketTypes
<1>2. \A d \in Caller : (Serves(d, k)' <=> Serves(d, k)) /\ (Serves(d, k) => call'[d] = call[d])
  BY <1>1 DEF Serves
<1>3. \A t \in Sent' : t.job = k => t \in Sent
  OBVIOUS
<1> QED BY <1>2, <1>3 DEF Once

\* A call that hands in a transfer: the one under way, or the first one.
LEMMA HandsInKeeps ==
  ASSUME MarketInv, UNCHANGED gossip, NEW c \in Caller, NEW i \in DOMAIN jobs, Serves(c, i),
         call[c].at = "submit", jobs[i].buyer \in Buyer, NEW tx \in Transfer, tx.job = i,
         \/ call[c].tx = tx /\ pending' = pending
         \/ call[c].tx = None /\ pending' = [pending EXCEPT ![i] = tx],
         Submits(tx), Waits(c, tx), nonces' \in [Buyer -> Nat],
         UNCHANGED <<books, orders, overlapped, now, crashes>>
  PROVE  MarketInv'
<1>1. MarketTypes /\ Filed /\ PaidFor
  BY DEF MarketInv
<1>2. /\ Sent' = Sent \cup {tx} /\ Committed' = Committed
      /\ applied' = applied /\ skipped' = skipped
      /\ known' \in {known, known \cup {tx}} /\ afloat' \in {afloat, afloat \cup {tx}}
  BY DEF Submits, Sent, Committed
<1>3. jobs' = jobs /\ disturbed' = disturbed
  BY DEF books, orders
<1>4. PICK new \in Served : /\ call' = [call EXCEPT ![c] = new] /\ new # Idle
                            /\ new.at = "wait" /\ new.job = i /\ new.tx = tx
  <2>1. PICK old \in Served : old = call[c] /\ old.job = i
    BY <1>1, Calls DEF Serves
  <2>2. PICK new \in Served : new = [old EXCEPT !.at = "wait", !.tx = tx]
    BY DEF Served
  <2>3. new.at = "wait" /\ new.job = i /\ new.tx = tx
    BY <2>1, <2>2 DEF Served
  <2>4. new # Idle
    BY <2>3 DEF Idle
  <2> QED BY <2>1, <2>2, <2>3, <2>4 DEF Waits
<1>5. \A d \in Caller : call'[d] = IF d = c THEN new ELSE call[d]
  BY <1>1, <1>4 DEF MarketTypes
<1>6. /\ pending' \in [1 .. MaxJobs -> Transfer \cup {None}] /\ i \in 1 .. MaxJobs
      /\ \A k \in 1 .. MaxJobs : k # i => pending'[k] = pending[k]
      /\ call[c].tx = None => pending'[i] = tx
  <2>1. i \in 1 .. MaxJobs /\ pending \in [1 .. MaxJobs -> Transfer \cup {None}] /\ tx # None
    BY <1>1, JobTypes, MarketAssumption DEF MarketTypes
  <2>2. CASE call[c].tx = tx /\ pending' = pending
    BY <2>1, <2>2
  <2>3. CASE call[c].tx = None /\ pending' = [pending EXCEPT ![i] = tx]
    BY <2>1, <2>3
  <2> QED BY <2>2, <2>3
<1>7. MarketTypes'
  <2>1. IsFiniteSet(known') /\ IsFiniteSet(afloat') /\ IsFiniteSet(applied') /\ IsFiniteSet(skipped')
    <3>1. IsFiniteSet(known \cup {tx}) /\ IsFiniteSet(afloat \cup {tx})
      BY <1>1, FS_AddElement DEF MarketTypes
    <3> QED BY <1>1, <1>2, <3>1 DEF MarketTypes
  <2>2. call' \in [Caller -> {Idle} \cup Served]
    BY <1>1, <1>4 DEF MarketTypes
  <2>3. Sent' \subseteq Transfer
    BY <1>1, <1>2 DEF MarketTypes
  <2> QED BY <1>6, <2>1, <2>2, <2>3, BooksStay DEF MarketTypes
<1>8. PaidFor'
  BY <1>1, <1>2, <1>3 DEF PaidFor
<1>9. Filed'
  <2>1. \A t \in Sent' : t.job \in DOMAIN jobs'
    BY <1>1, <1>2, <1>3 DEF Filed
  <2>2. \A k \in 1 .. MaxJobs : pending'[k] # None => pending'[k].job = k /\ k \in DOMAIN jobs'
    BY <1>1, <1>3, <1>6 DEF Filed
  <2>3. \A d \in Caller : call'[d] # Idle =>
          /\ call'[d].job \in DOMAIN jobs' /\ jobs'[call'[d].job].buyer \in Buyer
          /\ call'[d].tx # None => call'[d].tx.job = call'[d].job
    BY <1>1, <1>3, <1>4, <1>5 DEF Filed
  <2> QED BY <2>1, <2>2, <2>3 DEF Filed
<1>10. Once(i) => Once(i)'
  <2> SUFFICES ASSUME Once(i) PROVE Once(i)'
    OBVIOUS
  <2>1. tx # None
    BY MarketAssumption
  <2>2. \A d \in Caller : Serves(d, i)' => d = c
    BY <1>4, <1>5 DEF Once, Serves
  <2>3. pending'[i] = tx
    BY <1>6, <2>1 DEF Once
  <2>4. \A t \in Sent : t.job = i => t = tx
    <3>1. CASE call[c].tx = tx
      BY <2>1, <3>1 DEF Once
    <3>2. CASE call[c].tx = None
      BY <3>2 DEF Once
    <3> QED BY <3>1, <3>2
  <2>5. call'[c].at = "wait" /\ call'[c].tx = tx
    BY <1>4, <1>5
  <2> QED BY <1>2, <2>2, <2>3, <2>4, <2>5 DEF Once
<1>11. ASSUME NEW k \in DOMAIN jobs', InOrder(k)' PROVE Once(k)'
  <2>1. Once(k)
    BY <1>3, <1>11 DEF MarketInv, InOrder
  <2>2. \A j \in DOMAIN jobs : j # i => pending'[j] = pending[j] /\ (Active(j)' => Active(j))
    BY <1>1, <1>3, <1>6, JobTypes DEF Active
  <2>3. k # i => Once(k)'
    BY <1>2, <1>3, <1>4, <2>1, <2>2, OthersServed
  <2> QED BY <1>10, <2>1, <2>3
<1> QED BY <1>7, <1>8, <1>9, <1>11, BooksStay DEF MarketInv

LEMMA SubmitsKeep ==
  ASSUME MarketInv, UNCHANGED gossip, NEW c \in Caller, Resubmit(c) \/ SignTransfer(c)
  PROVE  MarketInv'
<1>1. MarketTypes /\ Filed
  BY DEF MarketInv
<1>2. call[c] # Idle /\ call[c].at = "submit"
  BY DEF Resubmit, SignTransfer, SignsNext
<1>3. PICK i \in DOMAIN jobs : i = call[c].job /\ jobs[i].buyer \in Buyer /\ Serves(c, i)
  BY <1>1, <1>2 DEF Filed, Serves
<1>4. call[c] \in Served
  BY <1>1, <1>2, Calls
<1>5. CASE Resubmit(c)
  <2>1. PICK tx \in Transfer : tx = call[c].tx /\ tx.job = i
    BY <1>1, <1>2, <1>3, <1>4, <1>5 DEF Resubmit, Filed, Served
  <2>2. nonces' \in [Buyer -> Nat]
    BY <1>1, <1>5 DEF Resubmit, MarketTypes
  <2> QED BY <1>2, <1>3, <1>5, <2>1, <2>2, HandsInKeeps DEF Resubmit
<1>6. CASE SignTransfer(c)
  <2>1. NewTx(i) \in Transfer /\ NewTx(i).job = i
    <3>1. jobs[i].units \in Nat /\ nonces[jobs[i].buyer] \in Nat /\ i \in Nat
      <4>1. jobs[i].units \in Unit /\ i \in Nat
        BY <1>1, JobTypes, MarketAssumption
      <4>2. nonces[jobs[i].buyer] \in Nat
        BY <1>1, <1>3 DEF MarketTypes
      <4>3. Unit \subseteq Nat
        BY MarketAssumption
      <4> QED BY <4>1, <4>2, <4>3
    <3>2. Cardinality(known \cup afloat \cup Committed) \in Nat
      <4>1. IsFiniteSet(known \cup afloat) /\ IsFiniteSet(Committed)
        BY <1>1, FS_Union DEF MarketTypes, Committed
      <4>2. IsFiniteSet(known \cup afloat \cup Committed)
        BY <4>1, FS_Union
      <4> QED BY <4>2, FS_CardinalityType
    <3> QED BY <1>3, <3>1, <3>2 DEF NewTx, Transfer
  <2>2. PICK tx \in Transfer : tx = NewTx(i) /\ tx.job = i
    BY <2>1
  <2>3. /\ call[c].tx = None /\ pending' = [pending EXCEPT ![i] = tx] /\ Submits(tx) /\ Waits(c, tx)
        /\ nonces' = [nonces EXCEPT ![jobs[i].buyer] = @ + 1]
        /\ UNCHANGED <<books, orders, overlapped, now, crashes>>
    BY <1>3, <1>6, <2>2 DEF SignTransfer, SignsNext
  <2>4. nonces' \in [Buyer -> Nat]
    BY <1>1, <1>3, <2>3 DEF MarketTypes
  <2> QED BY <1>2, <1>3, <2>2, <2>3, <2>4, HandsInKeeps
<1> QED BY <1>5, <1>6

\* A call that ends without an outcome; its transfer stays under way.
LEMMA GivesUpKeeps ==
  ASSUME MarketInv, UNCHANGED gossip, NEW c \in Caller, NonceRefused(c) \/ SettleTimesOut(c)
  PROVE  MarketInv'
<1>1. MarketTypes /\ Filed /\ PaidFor
  BY DEF MarketInv
<1>2. /\ call[c] # Idle /\ call' = [call EXCEPT ![c] = Idle]
      /\ UNCHANGED <<books, orders, pending, overlapped, chainside, now, crashes>>
  BY DEF NonceRefused, SettleTimesOut, SignsNext, Answers, AfterTimeout
<1>3. PICK i \in DOMAIN jobs : i = call[c].job /\ jobs[i].buyer \in Buyer /\ Serves(c, i)
  BY <1>1, <1>2 DEF Filed, Serves
<1>4. nonces' \in [Buyer -> Nat]
  <2>1. CASE NonceRefused(c)
    <3>1. nonces' = [nonces EXCEPT ![jobs[i].buyer] = @ + 1]
      BY <1>3, <2>1 DEF NonceRefused, SignsNext
    <3> QED BY <1>1, <1>3, <3>1 DEF MarketTypes
  <2>2. CASE SettleTimesOut(c)
    BY <1>1, <2>2 DEF SettleTimesOut, MarketTypes
  <2> QED BY <2>1, <2>2
<1>5. Sent' = Sent /\ Committed' = Committed /\ jobs' = jobs /\ disturbed' = disturbed
  BY <1>2 DEF Sent, Committed, books, orders, chainside
<1>6. \A d \in Caller : call'[d] = IF d = c THEN Idle ELSE call[d]
  BY <1>1, <1>2 DEF MarketTypes
<1>7. MarketTypes'
  <2>1. call' \in [Caller -> {Idle} \cup Served]
    BY <1>1, <1>2 DEF MarketTypes
  <2> QED BY <1>1, <1>2, <1>4, <1>5, <2>1, BooksStay DEF MarketTypes, chainside
<1>8. Filed' /\ PaidFor'
  <2>1. PaidFor'
    BY <1>1, <1>2, <1>5 DEF PaidFor, chainside
  <2> QED BY <1>1, <1>2, <1>5, <1>6, <2>1 DEF Filed
<1>9. ASSUME NEW k \in DOMAIN jobs', InOrder(k)' PROVE Once(k)'
  <2>1. Once(k)
    BY <1>2, <1>5, <1>9 DEF MarketInv, InOrder
  <2>2. \A d \in Caller : Serves(d, k)' => Serves(d, k) /\ call'[d] = call[d]
    BY <1>6 DEF Serves
  <2>3. \A d \in Caller : Serves(d, k) /\ call[d].at = "finish" => Serves(d, k)'
    BY <1>2, <1>6 DEF Serves, NonceRefused, SettleTimesOut, SignsNext
  <2>4. Active(k)' <=> Active(k)
    BY <1>5 DEF Active
  <2> QED BY <1>2, <1>5, <2>1, <2>2, <2>3, <2>4 DEF Once
<1> QED BY <1>2, <1>7, <1>8, <1>9, BooksStay DEF MarketInv

LEMMA DecidedKeeps ==
  ASSUME MarketInv, UNCHANGED gossip, NEW c \in Caller, SettleDecided(c)
  PROVE  MarketInv'
<1>1. MarketTypes /\ Filed /\ PaidFor
  BY DEF MarketInv
<1>2. /\ call[c] # Idle /\ call[c].at = "wait" /\ call[c].tx \in Committed
      /\ call' = [call EXCEPT ![c].at = "finish"]
      /\ UNCHANGED <<books, orders, nonces, overlapped, chainside, now, crashes>>
  BY DEF SettleDecided
<1>3. PICK i \in DOMAIN jobs : i = call[c].job /\ jobs[i].buyer \in Buyer /\ Serves(c, i)
  BY <1>1, <1>2 DEF Filed, Serves
<1>4. pending' = [pending EXCEPT ![i] = None] /\ i \in 1 .. MaxJobs
  BY <1>1, <1>3, JobTypes DEF SettleDecided
<1>5. PICK old \in Served : old = call[c]
  BY <1>1, <1>2, Calls
<1>6. PICK new \in Served : /\ call' = [call EXCEPT ![c] = new] /\ new # Idle
                            /\ new.at = "finish" /\ new.job = i /\ new.tx = call[c].tx
  <2>1. PICK new \in Served : new = [old EXCEPT !.at = "finish"]
    BY DEF Served
  <2>2. new.at = "finish" /\ new.job = old.job /\ new.tx = old.tx
    BY <2>1 DEF Served
  <2>3. new # Idle
    BY <2>2 DEF Idle
  <2> QED BY <1>2, <1>3, <1>5, <2>1, <2>2, <2>3
<1>7. Sent' = Sent /\ Committed' = Committed /\ jobs' = jobs /\ disturbed' = disturbed
  BY <1>2 DEF Sent, Committed, books, orders, chainside
<1>8. \A d \in Caller : call'[d] = IF d = c THEN new ELSE call[d]
  BY <1>1, <1>6 DEF MarketTypes
<1>9. \A k \in 1 .. MaxJobs : pending'[k] = IF k = i THEN None ELSE pending[k]
  BY <1>1, <1>4 DEF MarketTypes
<1>10. MarketTypes'
  <2>1. call' \in [Caller -> {Idle} \cup Served] /\ pending' \in [1 .. MaxJobs -> Transfer \cup {None}]
    BY <1>1, <1>4, <1>6 DEF MarketTypes
  <2> QED BY <1>1, <1>2, <1>7, <2>1, BooksStay DEF MarketTypes, chainside
<1>11. Filed' /\ PaidFor'
  <2>1. PaidFor'
    BY <1>1, <1>2, <1>7 DEF PaidFor, chainside
  <2>2. \A t \in Sent' : t.job \in DOMAIN jobs'
    BY <1>1, <1>7 DEF Filed
  <2>3. \A k \in 1 .. MaxJobs : pending'[k] # None => pending'[k].job = k /\ k \in DOMAIN jobs'
    BY <1>1, <1>7, <1>9 DEF Filed
  <2>4. \A d \in Caller : call'[d] # Idle =>
          /\ call'[d].job \in DOMAIN jobs' /\ jobs'[call'[d].job].buyer \in Buyer
          /\ call'[d].tx # None => call'[d].tx.job = call'[d].job
    <3> SUFFICES ASSUME NEW d \in Caller, call'[d] # Idle
                 PROVE  /\ call'[d].job \in DOMAIN jobs /\ jobs[call'[d].job].buyer \in Buyer
                        /\ call'[d].tx # None => call'[d].tx.job = call'[d].job
      BY <1>7
    <3>1. CASE d = c
      BY <1>1, <1>2, <1>3, <1>6, <1>8, <3>1 DEF Filed
    <3>2. CASE d # c
      BY <1>1, <1>8, <3>2 DEF Filed
    <3> QED BY <3>1, <3>2
  <2> QED BY <2>1, <2>2, <2>3, <2>4 DEF Filed
<1>12. Once(i) => Once(i)'
  <2> SUFFICES ASSUME Once(i) PROVE Once(i)'
    OBVIOUS
  <2>1. call[c].tx = pending[i] /\ pending[i] # None /\ pending[i] \in Committed
    BY <1>1, <1>2, <1>3, MarketAssumption DEF Once, MarketTypes, Sent
  <2>2. \A t \in Sent : t.job = i => t \in Committed
    BY <2>1 DEF Once
  <2>3. \A d \in Caller : Serves(d, i)' <=> d = c
    BY <1>3, <1>6, <1>8 DEF Once, Serves
  <2>4. pending'[i] = None /\ call'[c].at = "finish"
    BY <1>4, <1>6, <1>8, <1>9
  <2> QED BY <1>7, <2>2, <2>3, <2>4 DEF Once
<1>13. ASSUME NEW k \in DOMAIN jobs', InOrder(k)' PROVE Once(k)'
  <2>1. Once(k)
    BY <1>2, <1>7, <1>13 DEF MarketInv, InOrder
  <2>2. \A j \in DOMAIN jobs : j # i => pending'[j] = pending[j] /\ (Active(j)' => Active(j))
    BY <1>1, <1>7, <1>9, JobTypes DEF Active
  <2>3. k # i => Once(k)'
    BY <1>3, <1>6, <1>7, <2>1, <2>2, OthersServed
  <2> QED BY <1>12, <2>1, <2>3
<1> QED BY <1>2, <1>10, <1>11, <1>13, BooksStay DEF MarketInv

LEMMA FinishKeeps ==
  ASSUME MarketInv, UNCHANGED gossip, NEW c \in Caller, FinishSettle(c)
  PROVE  MarketInv'
<1>1. MarketTypes /\ GossipTypes /\ Stocked /\ Listed /\ Filed /\ PaidFor
  BY DEF MarketInv
<1>2. /\ call[c] # Idle /\ call[c].at = "finish" /\ call' = [call EXCEPT ![c] = Idle]
      /\ UNCHANGED <<nonces, pending, overlapped, chainside, now, crashes>>
  BY DEF FinishSettle, Answers
<1>3. PICK i \in DOMAIN jobs : i = call[c].job /\ jobs[i].buyer \in Buyer /\ Serves(c, i)
  BY <1>1, <1>2 DEF Filed, Serves
<1>4. PICK status \in {"completed", "cancelled"} :
        /\ status = "completed" => call[c].tx \in applied
        /\ IF Active(i) THEN Release(i, status) \/ ReleaseTorn(i) ELSE UNCHANGED <<books, orders>>
  BY <1>3 DEF FinishSettle
<1>5. /\ Told(offer)' /\ Told(shelf)' /\ Stocked' /\ quotes' = quotes /\ requested' = requested
      /\ jobs' \in Seq(JobRecord) /\ Len(jobs') <= MaxJobs /\ DOMAIN jobs' = DOMAIN jobs
      /\ \A k \in DOMAIN jobs :
           /\ jobs'[k].buyer = jobs[k].buyer /\ jobs'[k].provider = jobs[k].provider
           /\ jobs'[k].digest = jobs[k].digest
           /\ k # i => jobs'[k].status = jobs[k].status
      /\ disturbed \subseteq disturbed'
      /\ jobs'[i].status \in {jobs[i].status, status}
      /\ jobs[i].provider \notin disturbed' => jobs'[i].status # "pending"
  <2>1. CASE Active(i)
    BY <1>1, <1>4, <2>1, Releases DEF Active
  <2>2. CASE ~Active(i)
    <3>1. UNCHANGED <<offer, shelf, quotes, disturbed, jobs, requested>>
      BY <1>4, <2>2 DEF books, orders
    <3>2. Stocked'
      BY <1>1, <3>1 DEF Stocked
    <3> QED BY <1>1, <2>2, <3>1, <3>2 DEF Active, MarketTypes, Told
  <2> QED BY <2>1, <2>2
<1>6. Sent' = Sent /\ Committed' = Committed /\ applied' = applied
  BY <1>2 DEF Sent, Committed, chainside
<1>7. \A d \in Caller : call'[d] = IF d = c THEN Idle ELSE call[d]
  BY <1>1, <1>2 DEF MarketTypes
<1>8. MarketTypes'
  <2>1. call' \in [Caller -> {Idle} \cup Served]
    BY <1>1, <1>2 DEF MarketTypes
  <2> QED BY <1>1, <1>2, <1>5, <1>6, <2>1 DEF MarketTypes, chainside
<1>9. GossipTypes' /\ Listed' /\ Filed'
  BY <1>1, <1>2, <1>5, <1>6, <1>7 DEF GossipTypes, gossip, Listed, OneJobPerRequest, Filed
<1>10. PaidFor'
  <2> SUFFICES ASSUME NEW k \in DOMAIN jobs, jobs'[k].status = "completed", jobs[k].status # "completed"
               PROVE  \E t \in applied : t.job = k
    BY <1>1, <1>5, <1>6 DEF PaidFor
  <2>1. k = i /\ call[c].tx \in applied
    BY <1>4, <1>5
  <2>2. call[c].tx # None
    BY <1>1, <2>1, MarketAssumption DEF MarketTypes, Sent, Committed
  <2> QED BY <1>1, <1>2, <1>3, <2>1, <2>2 DEF Filed
<1>11. ASSUME NEW k \in DOMAIN jobs', InOrder(k)' PROVE Once(k)'
  <2>1. Once(k)
    BY <1>2, <1>5, <1>11 DEF MarketInv, InOrder
  <2>2. \A j \in DOMAIN jobs : j # i => pending'[j] = pending[j] /\ (Active(j)' => Active(j))
    BY <1>2, <1>5 DEF Active
  <2>3. k # i => Once(k)'
    BY <1>2, <1>3, <1>5, <1>6, <2>1, <2>2, OthersServed
  <2>4. CASE k = i
    <3>1. ~Active(i)'
      BY <1>3, <1>5, <1>11, <2>4 DEF InOrder, Active
    <3>2. \A d \in Caller : ~Serves(d, i)'
      BY <1>3, <1>7, <2>1, <2>4 DEF Once, Serves
    <3> QED BY <1>2, <1>6, <2>1, <2>4, <3>1, <3>2 DEF Once
  <2> QED BY <2>3, <2>4
<1> QED BY <1>5, <1>8, <1>9, <1>10, <1>11 DEF MarketInv

LEMMA MarketStep == MarketInv /\ [ExchangeNext]_exchangeVars => MarketInv'
<1> SUFFICES ASSUME MarketInv, [ExchangeNext]_exchangeVars PROVE MarketInv'
  OBVIOUS
<1>1. CASE MarketNext /\ UNCHANGED gossip
  <2>1. CASE \E p \in Provider : Selling(p)
    BY <1>1, <2>1, SellingKeeps
  <2>2. CASE \E b \in Buyer, p \in Provider, u \in Unit : Buying(b, p, u)
    BY <1>1, <2>2, BuyingKeeps
  <2>3. CASE \E i \in DOMAIN jobs : CancelJob(i) \/ CompleteJobDirectly(i)
    BY <1>1, <2>3, CancelKeeps
  <2>4. CASE \E c \in Caller : Settling(c)
    BY <1>1, <2>4, BeginKeeps, SubmitsKeep, GivesUpKeeps, DecidedKeeps, FinishKeeps DEF Settling
  <2>5. CASE \E t \in afloat : CommitTx(t)
    BY <1>1, <2>5, CommitKeeps
  <2>6. CASE MarketTick
    BY <1>1, <2>6, GossipKeeps
  <2>7. CASE RestartMarket
    BY <1>1, <2>7, RestartsKeep
  <2> QED BY <1>1, <2>1, <2>2, <2>3, <2>4, <2>5, <2>6, <2>7 DEF MarketNext
<1>2. CASE Gossiping
  BY <1>2, GossipKeeps, HandlesKeeps, RestartsKeep DEF Gossiping
<1>3. CASE UNCHANGED exchangeVars
  BY <1>3, GossipKeeps DEF exchangeVars
<1> QED BY <1>1, <1>2, <1>3 DEF ExchangeNext

\* No buyer pays twice for one request: it makes one job, across restarts, and a
\* job whose settlement is in order is charged at most once, whatever times out
\* and is tried again (internal/node/compute_settlement.go).
THEOREM RequestChargedOnce == ExchangeSpec => []ChargedOnce
<1>1. MarketInv => OneJobPerRequest
  BY DEF MarketInv, Listed
<1>2. MarketInv => JobChargedOnce
  <2> SUFFICES ASSUME MarketInv, NEW i \in DOMAIN jobs
               PROVE  /\ InOrder(i) => Charges(i) <= 1
                      /\ jobs[i].status = "completed" => Charges(i) > 0
    BY DEF JobChargedOnce, InOrder
  <2> DEFINE mine == {t \in applied : t.job = i}
  <2>1. IsFiniteSet(mine) /\ Cardinality(mine) \in Nat
    <3>1. IsFiniteSet(applied)
      BY DEF MarketInv, MarketTypes
    <3>2. IsFiniteSet(mine)
      BY <3>1, FS_Subset
    <3> QED BY <3>2, FS_CardinalityType
  <2>2. ASSUME InOrder(i) PROVE Cardinality(mine) <= 1
    <3>1. \A t, u \in mine : t = u
      BY <2>2 DEF MarketInv, Once, Sent, Committed
    <3>2. CASE mine = {}
      BY <3>2, FS_EmptySet
    <3>3. CASE mine # {}
      <4>1. PICK t : t \in mine
        BY <3>3
      <4>2. mine = {t}
        BY <3>1, <4>1
      <4> QED BY <4>2, FS_Singleton
    <3> QED BY <3>2, <3>3
  <2>3. ASSUME jobs[i].status = "completed" PROVE Cardinality(mine) > 0
    <3>1. mine # {}
      BY <2>3 DEF MarketInv, PaidFor
    <3> QED BY <2>1, <3>1, FS_EmptySet
  <2> QED BY <2>2, <2>3 DEF Charges
<1> QED BY <1>1, <1>2, MarketInitially, MarketStep, PTL DEF ExchangeSpec, ChargedOnce

-----------------------------------------------------------------------------
(* The capacity of a provider. *)

\* What is said of a provider is on disk, and what it has left and what its jobs
\* hold make up its capacity, unless it was disturbed.
Accounted(p) ==
  p \notin disturbed =>
    /\ shelf[p] = offer[p]
    /\ Registered(p) => offer[p].available + Held(p) = Capacity[p]

UnitsOfJobs == [i \in DOMAIN jobs |-> jobs[i].units]

LEMMA HeldCounts ==
  ASSUME MarketTypes, NEW p \in Provider
  PROVE  /\ Holding(p) \subseteq DOMAIN jobs /\ Counts(UnitsOfJobs, Holding(p))
         /\ Held(p) = Total(UnitsOfJobs, Holding(p)) /\ Held(p) \in Nat
<1>1. DOMAIN jobs = 1 .. Len(jobs) /\ Len(jobs) \in Nat
  BY DEF MarketTypes
<1>2. IsFiniteSet(DOMAIN jobs)
  BY <1>1, FS_Interval
<1>3. \A i \in DOMAIN jobs : UnitsOfJobs[i] \in Nat
  BY JobTypes, MarketAssumption DEF UnitsOfJobs
<1>4. Holding(p) \subseteq DOMAIN jobs
  BY DEF Holding
<1>5. Counts(UnitsOfJobs, Holding(p))
  BY <1>2, <1>3, <1>4, FS_Subset DEF Counts
<1>6. Held(p) = Total(UnitsOfJobs, Holding(p))
  BY DEF Held, UnitsOfJobs
<1> QED BY <1>4, <1>5, <1>6, TotalType

\* Jobs of p may come to an end, or be new.
SameJobs(p) ==
  /\ Holding(p)' = Holding(p)
  /\ \A i \in Holding(p) : i \in DOMAIN jobs' /\ jobs'[i].units = jobs[i].units

LEMMA HeldStays ==
  ASSUME MarketTypes, NEW p \in Provider, SameJobs(p)
  PROVE  Held(p)' = Held(p)
<1> DEFINE after == [i \in DOMAIN jobs' |-> jobs'[i].units]
<1>1. /\ Holding(p) \subseteq DOMAIN jobs /\ Counts(UnitsOfJobs, Holding(p))
      /\ Held(p) = Total(UnitsOfJobs, Holding(p))
  BY HeldCounts
<1>2. Held(p)' = Total(after, Holding(p)')
  BY DEF Held
<1>3. \A i \in Holding(p) : UnitsOfJobs[i] = after[i]
  BY <1>1 DEF SameJobs, UnitsOfJobs
<1> HIDE DEF after
<1>4. Total(UnitsOfJobs, Holding(p)) = Total(after, Holding(p))
  BY <1>1, <1>3, TotalSame
<1> QED BY <1>1, <1>2, <1>4 DEF SameJobs

LEMMA AccountedStays ==
  ASSUME MarketTypes, NEW p \in Provider, Accounted(p), SameJobs(p), disturbed \subseteq disturbed',
         shelf'[p] = offer'[p], offer[p] = None <=> offer'[p] = None,
         Registered(p) => offer'[p].available = offer[p].available
  PROVE  Accounted(p)'
<1>1. Held(p)' = Held(p)
  BY HeldStays
<1>2. Registered(p)' <=> Registered(p)
  BY DEF Registered
<1> QED BY <1>1, <1>2 DEF Accounted

\* A provider of which nothing is said anew, and whose jobs stay.
LEMMA OthersAccounted ==
  ASSUME MarketTypes, NEW p \in Provider, Accounted(p), SameJobs(p), disturbed \subseteq disturbed',
         offer'[p] = offer[p], shelf'[p] = shelf[p]
  PROVE  Accounted(p)'
<1>1. CASE p \in disturbed
  BY <1>1 DEF Accounted
<1>2. CASE p \notin disturbed
  <2>1. shelf'[p] = offer'[p]
    BY <1>2 DEF Accounted
  <2> QED BY <2>1, AccountedStays
<1> QED BY <1>1, <1>2

LEMMA SellingAccounted ==
  ASSUME MarketTypes, NEW p \in Provider, Selling(p), \A q \in Provider : Accounted(q)
  PROVE  \A q \in Provider : Accounted(q)'
<1>1. UNCHANGED jobs /\ disturbed \subseteq disturbed'
  BY DEF Selling, RegisterProvider, UpdateProviderQuote, RenewProviderQuote, SetProviderSuspended, orders
<1>2. \A q \in Provider : SameJobs(q)
  BY <1>1 DEF SameJobs, Holding
<1>3. PICK o \in Offer : /\ Post(p, o)
                         /\ \/ /\ o.available = Capacity[p]
                               /\ disturbed' = IF Holding(p) = {} THEN disturbed ELSE disturbed \cup {p}
                            \/ Registered(p) /\ o.available = offer[p].available
  <2>1. CASE RegisterProvider(p)
    BY <2>1, Offers DEF RegisterProvider
  <2>2. ASSUME Registered(p)
        PROVE  \E old \in Offer : old = offer[p]
    BY <2>2 DEF MarketTypes, Told, Registered
  <2>3. CASE UpdateProviderQuote(p)
    <3>1. PICK old \in Offer : old = offer[p]
      BY <2>2, <2>3 DEF UpdateProviderQuote
    <3>2. [old EXCEPT !.quote = Fresh(@.version + 1)].available = old.available
      BY DEF Offer
    <3> QED BY <2>3, <3>1, <3>2, Offers DEF UpdateProviderQuote
  <2>4. CASE RenewProviderQuote(p)
    <3>1. PICK old \in Offer : old = offer[p]
      BY <2>2, <2>4 DEF RenewProviderQuote, DueForRenewal
    <3>2. [old EXCEPT !.quote.version = @ + 1, !.quote.observed = now].available = old.available
      BY DEF Offer
    <3> QED BY <2>4, <3>1, <3>2, Offers DEF RenewProviderQuote, DueForRenewal
  <2>5. CASE SetProviderSuspended(p)
    <3>1. PICK old \in Offer : old = offer[p]
      BY <2>2, <2>5 DEF SetProviderSuspended
    <3>2. [old EXCEPT !.suspended = ~@].available = old.available
      BY DEF Offer
    <3> QED BY <2>5, <3>1, <3>2, Offers DEF SetProviderSuspended
  <2> QED BY <2>1, <2>3, <2>4, <2>5 DEF Selling
<1>4. /\ offer'[p] = o /\ shelf'[p] = o /\ o # None
      /\ \A q \in Provider : q # p => offer'[q] = offer[q] /\ shelf'[q] = shelf[q]
  <2>1. o # None
    BY MarketAssumption
  <2> QED BY <1>3, <2>1 DEF Post, MarketTypes, Told
<1>5. ASSUME NEW q \in Provider PROVE Accounted(q)'
  <2>1. CASE q # p
    BY <1>1, <1>2, <1>4, <2>1, OthersAccounted
  <2>2. CASE q = p /\ o.available = Capacity[p] /\ disturbed' = IF Holding(p) = {} THEN disturbed ELSE disturbed \cup {p}
    <3>1. CASE Holding(p) = {}
      <4>1. Held(p)' = 0
        BY <1>2, <3>1, TotalEmpty, HeldStays DEF Held
      <4>2. Capacity[p] \in Nat
        BY MarketAssumption
      <4> QED BY <1>4, <2>2, <4>1, <4>2 DEF Accounted
    <3>2. CASE Holding(p) # {}
      BY <2>2, <3>2 DEF Accounted
    <3> QED BY <3>1, <3>2
  <2>3. CASE q = p /\ Registered(p) /\ o.available = offer[p].available
    BY <1>1, <1>2, <1>4, <2>3, AccountedStays DEF Registered
  <2> QED BY <1>3, <2>1, <2>2, <2>3
<1> QED BY <1>5

LEMMA ReservingAccounted ==
  ASSUME MarketTypes, Len(jobs) < MaxJobs, \A q \in Provider : Accounted(q),
         NEW b \in Buyer \cup RemoteBuyer, NEW p \in Provider, NEW u \in Unit,
         NEW digest \in Request \cup {None}, Sells(p, u), Post(p, Take(offer[p], u)),
         jobs' = Append(jobs, Job(b, p, u, digest)), disturbed' = disturbed
  PROVE  \A q \in Provider : Accounted(q)'
<1> DEFINE n == Len(jobs) + 1
           after == [i \in DOMAIN jobs' |-> jobs'[i].units]
<1>1. /\ DOMAIN jobs' = DOMAIN jobs \cup {n} /\ n \notin DOMAIN jobs
      /\ \A k \in DOMAIN jobs : jobs'[k] = jobs[k]
      /\ jobs'[n].status = "pending" /\ jobs'[n].provider = p /\ jobs'[n].units = u
  BY Appends
<1> HIDE DEF n
<1>2. Holding(p)' = Holding(p) \cup {n} /\ \A q \in Provider : q # p => Holding(q)' = Holding(q)
  BY <1>1 DEF Holding
<1>3. Held(p)' = Held(p) + u
  <2>1. /\ Holding(p) \subseteq DOMAIN jobs /\ Counts(UnitsOfJobs, Holding(p))
        /\ Held(p) = Total(UnitsOfJobs, Holding(p))
    BY HeldCounts
  <2>2. Held(p)' = Total(after, Holding(p)')
    BY DEF Held
  <2>3. (\A i \in Holding(p) : UnitsOfJobs[i] = after[i]) /\ after[n] = u /\ u \in Nat /\ n \notin Holding(p)
    BY <1>1, <2>1, MarketAssumption DEF UnitsOfJobs
  <2> HIDE DEF after
  <2>4. Total(UnitsOfJobs, Holding(p)) = Total(after, Holding(p)) /\ Counts(after, Holding(p))
    BY <2>1, <2>3, TotalSame
  <2>5. Total(after, Holding(p) \cup {n}) = Total(after, Holding(p)) + after[n]
    BY <2>3, <2>4, TotalAdd
  <2> QED BY <1>2, <2>1, <2>2, <2>3, <2>4, <2>5
<1>4. PICK o \in Offer : o = offer[p]
  BY DEF Sells, Registered, MarketTypes, Told
<1>5. PICK new \in Offer : new = Take(offer[p], u) /\ new.available = o.available - u
  <2>1. Take(offer[p], u) \in Offer
    BY <1>4, Offers DEF Sells
  <2>2. Take(o, u).available = o.available - u
    BY DEF Take, Offer
  <2> QED BY <1>4, <2>1, <2>2
<1>6. /\ offer'[p] = new /\ shelf'[p] = new /\ o # None
      /\ \A q \in Provider : q # p => offer'[q] = offer[q] /\ shelf'[q] = shelf[q]
  BY <1>4, <1>5, MarketAssumption DEF Post, MarketTypes, Told
<1>7. ASSUME NEW q \in Provider PROVE Accounted(q)'
  <2>1. CASE q # p
    <3>1. SameJobs(q)
      BY <1>1, <1>2, <2>1, HeldCounts DEF SameJobs
    <3> QED BY <1>6, <2>1, <3>1, OthersAccounted
  <2>2. CASE q = p
    <3>1. p \notin disturbed => o.available + Held(p) = Capacity[p]
      BY <1>4, <1>6 DEF Accounted, Registered
    <3>2. o.available \in Nat /\ Held(p) \in Nat /\ u \in Nat /\ Capacity[p] \in Nat
      BY HeldCounts, MarketAssumption DEF Offer
    <3>3. p \notin disturbed => new.available + Held(p)' = Capacity[p]
      BY <1>3, <1>5, <3>1, <3>2
    <3> QED BY <1>6, <2>2, <3>3 DEF Accounted
  <2> QED BY <2>1, <2>2
<1> QED BY <1>7

LEMMA BuyingAccounted ==
  ASSUME MarketTypes, \A q \in Provider : Accounted(q),
         \/ \E b \in Buyer, p \in Provider, u \in Unit : Buying(b, p, u)
         \/ \E r \in Request : ReserveRemoteJob(r)
  PROVE  \A q \in Provider : Accounted(q)'
<1>1. ASSUME NEW b \in Buyer, NEW p \in Provider, NEW u \in Unit, SubmitJob(b, p, u)
      PROVE  \A q \in Provider : Accounted(q)'
  BY <1>1, ReservingAccounted DEF SubmitJob
<1>2. ASSUME NEW b \in Buyer, NEW p \in Provider, NEW u \in Unit, SubmitJobTorn(b, p, u), NEW q \in Provider
      PROVE  Accounted(q)'
  <2>1. UNCHANGED <<offer, jobs>> /\ disturbed' = disturbed \cup {p} /\ (q # p => shelf'[q] = shelf[q])
    BY <1>2 DEF SubmitJobTorn, orders, MarketTypes, Told
  <2>2. SameJobs(q)
    BY <2>1 DEF SameJobs, Holding
  <2>3. CASE q = p
    BY <2>1, <2>3 DEF Accounted
  <2>4. CASE q # p
    BY <2>1, <2>2, <2>4, OthersAccounted
  <2> QED BY <2>3, <2>4
<1>3. ASSUME NEW r \in Request, ReserveRemoteJob(r)
      PROVE  \A q \in Provider : Accounted(q)'
  <2>1. r.buyer \in RemoteBuyer /\ r.provider \in Provider /\ r.units \in Unit
    BY DEF Request
  <2> QED BY <1>3, <2>1, ReservingAccounted DEF ReserveRemoteJob
<1> QED BY <1>1, <1>2, <1>3 DEF Buying

LEMMA LeastIs == ASSUME NEW a \in Nat, NEW b \in Nat, a <= b PROVE Min({a, b}) = a
<1>1. a \in {a, b} /\ \A y \in {a, b} : a <= y
  OBVIOUS
<1>2. \E x \in {a, b} : \A y \in {a, b} : x <= y
  BY <1>1
<1>3. Min({a, b}) \in {a, b} /\ \A y \in {a, b} : Min({a, b}) <= y
  BY <1>2 DEF Min
<1> QED BY <1>3

\* A job that ends gives back what it held.
LEMMA ReleaseAccounted ==
  ASSUME MarketTypes, Stocked, \A q \in Provider : Accounted(q), NEW i \in DOMAIN jobs,
         NEW status \in {"cancelled", "completed"}, Release(i, status) \/ ReleaseTorn(i)
  PROVE  \A q \in Provider : Accounted(q)'
<1>1. PICK p \in Provider, u \in Unit : p = jobs[i].provider /\ u = jobs[i].units
  BY JobTypes
<1>2. Active(i) /\ Post(p, RestoredBy(i))
  BY <1>1 DEF Release, ReleaseTorn
<1>3. \A q \in Provider : q # p => offer'[q] = offer[q] /\ shelf'[q] = shelf[q]
  BY <1>2 DEF Post, MarketTypes, Told
<1>4. CASE ReleaseTorn(i)
  <2>1. jobs' = jobs /\ disturbed' = disturbed \cup {p}
    BY <1>1, <1>4 DEF ReleaseTorn, orders
  <2>2. \A q \in Provider : SameJobs(q)
    BY <2>1 DEF SameJobs, Holding
  <2>3. Accounted(p)'
    BY <2>1 DEF Accounted
  <2>4. \A q \in Provider : q # p => Accounted(q)'
    BY <1>3, <2>1, <2>2, OthersAccounted
  <2> QED BY <2>3, <2>4
<1>5. CASE Release(i, status)
  <2> DEFINE after == [k \in DOMAIN jobs' |-> jobs'[k].units]
  <2>1. /\ disturbed' = disturbed /\ DOMAIN jobs' = DOMAIN jobs
        /\ \A k \in DOMAIN jobs :
             /\ jobs'[k].provider = jobs[k].provider /\ jobs'[k].units = jobs[k].units
             /\ jobs'[k].status = IF k = i THEN status ELSE jobs[k].status
    BY <1>5, Ends DEF Release
  <2>2. i \in Holding(p) /\ Holding(p)' = Holding(p) \ {i}
        /\ \A q \in Provider : q # p => Holding(q)' = Holding(q)
    BY <1>1, <1>2, <2>1 DEF Holding, Active
  <2>3. Held(p) = Held(p)' + u /\ Held(p)' \in Nat
    <3>1. /\ Holding(p) \subseteq DOMAIN jobs /\ Counts(UnitsOfJobs, Holding(p))
          /\ Held(p) = Total(UnitsOfJobs, Holding(p)) /\ UnitsOfJobs[i] = u
      BY <1>1, HeldCounts DEF UnitsOfJobs
    <3>2. /\ Total(UnitsOfJobs, Holding(p)) = Total(UnitsOfJobs, Holding(p) \ {i}) + UnitsOfJobs[i]
          /\ Counts(UnitsOfJobs, Holding(p) \ {i}) /\ Total(UnitsOfJobs, Holding(p) \ {i}) \in Nat
      BY <2>2, <3>1, TotalRemove
    <3>3. Held(p)' = Total(after, Holding(p)')
      BY DEF Held
    <3>4. \A k \in Holding(p) \ {i} : UnitsOfJobs[k] = after[k]
      BY <2>1, <3>1 DEF UnitsOfJobs
    <3> HIDE DEF after
    <3>5. Total(UnitsOfJobs, Holding(p) \ {i}) = Total(after, Holding(p) \ {i})
      BY <3>2, <3>4, TotalSame
    <3> QED BY <2>2, <3>1, <3>2, <3>3, <3>5
  <2>4. PICK o \in Offer : o = offer[p] /\ o # None
    BY <1>1, MarketAssumption DEF Stocked
  <2>5. o.available \in Nat /\ u \in Nat /\ Capacity[p] \in Nat
    BY MarketAssumption DEF Offer
  <2>6. RestoredBy(i) = [o EXCEPT !.available = Min({o.available + u, Capacity[p]})]
    BY <1>1, <2>4 DEF RestoredBy
  <2>7. RestoredBy(i).available = Min({o.available + u, Capacity[p]})
    BY <2>6 DEF Offer
  <2>8. offer'[p] = RestoredBy(i) /\ shelf'[p] = RestoredBy(i)
    BY <1>2 DEF Post, MarketTypes, Told
  <2>9. p \notin disturbed => RestoredBy(i).available + Held(p)' = Capacity[p]
    <3> SUFFICES ASSUME p \notin disturbed PROVE RestoredBy(i).available + Held(p)' = Capacity[p]
      OBVIOUS
    <3>1. o.available + Held(p) = Capacity[p]
      BY <2>4 DEF Accounted, Registered
    <3>2. o.available + u \in Nat /\ o.available + u <= Capacity[p]
      BY <2>3, <2>5, <3>1
    <3>3. Min({o.available + u, Capacity[p]}) = o.available + u
      BY <2>5, <3>2, LeastIs
    <3> QED BY <2>3, <2>5, <2>7, <3>1, <3>3
  <2>10. Accounted(p)'
    BY <2>1, <2>8, <2>9 DEF Accounted
  <2>11. ASSUME NEW q \in Provider, q # p PROVE Accounted(q)'
    <3>1. SameJobs(q)
      BY <2>1, <2>2, <2>11, HeldCounts DEF SameJobs
    <3> QED BY <1>3, <2>1, <2>11, <3>1, OthersAccounted
  <2> QED BY <2>10, <2>11
<1> QED BY <1>4, <1>5

LEMMA EndingAccounted ==
  ASSUME MarketInv, \A q \in Provider : Accounted(q),
         \/ \E i \in DOMAIN jobs : CancelJob(i) \/ CompleteJobDirectly(i)
         \/ \E c \in Caller : FinishSettle(c)
  PROVE  \A q \in Provider : Accounted(q)'
<1>1. MarketTypes /\ Stocked /\ Filed
  BY DEF MarketInv
<1>2. ASSUME NEW i \in DOMAIN jobs, CancelJob(i) PROVE \A q \in Provider : Accounted(q)'
  <2>1. Release(i, "cancelled") \/ ReleaseTorn(i)
    BY <1>2 DEF CancelJob
  <2> QED BY <1>1, <2>1, ReleaseAccounted
<1>3. ASSUME NEW i \in DOMAIN jobs, CompleteJobDirectly(i), NEW q \in Provider PROVE Accounted(q)'
  <2>1. UNCHANGED <<offer, shelf, disturbed>> /\ End(i, "direct") /\ Active(i)
    BY <1>3 DEF CompleteJobDirectly, books
  <2>2. /\ DOMAIN jobs' = DOMAIN jobs
        /\ \A k \in DOMAIN jobs :
             /\ jobs'[k].provider = jobs[k].provider /\ jobs'[k].units = jobs[k].units
             /\ jobs'[k].status = IF k = i THEN "direct" ELSE jobs[k].status
    BY <1>1, <2>1, Ends
  <2>3. SameJobs(q)
    BY <2>1, <2>2 DEF SameJobs, Holding, Active
  <2> QED BY <1>1, <2>1, <2>3, OthersAccounted
<1>4. ASSUME NEW c \in Caller, FinishSettle(c) PROVE \A q \in Provider : Accounted(q)'
  <2>1. PICK i \in DOMAIN jobs : i = call[c].job
    BY <1>1, <1>4 DEF FinishSettle, Filed
  <2>2. \/ \E status \in {"completed", "cancelled"} : Release(i, status) \/ ReleaseTorn(i)
        \/ UNCHANGED <<books, orders>>
    BY <1>4, <2>1 DEF FinishSettle
  <2>3. CASE UNCHANGED <<books, orders>>
    <3>1. UNCHANGED <<offer, shelf, disturbed, jobs>>
      BY <2>3 DEF books, orders
    <3>2. \A q \in Provider : SameJobs(q)
      BY <3>1 DEF SameJobs, Holding
    <3> QED BY <1>1, <3>1, <3>2, OthersAccounted
  <2> QED BY <1>1, <2>2, <2>3, ReleaseAccounted
<1> QED BY <1>2, <1>3, <1>4

LEMMA AccountedStep ==
  ASSUME MarketInv, [ExchangeNext]_exchangeVars, \A q \in Provider : Accounted(q)
  PROVE  \A q \in Provider : Accounted(q)'
<1>1. MarketTypes /\ GossipTypes
  BY DEF MarketInv
<1>2. ASSUME UNCHANGED <<offer, shelf, disturbed, jobs>> PROVE \A q \in Provider : Accounted(q)'
  <2>1. \A q \in Provider : SameJobs(q)
    BY <1>2 DEF SameJobs, Holding
  <2> QED BY <1>1, <1>2, <2>1, OthersAccounted
<1>3. CASE MarketNext
  <2>1. CASE \E p \in Provider : Selling(p)
    BY <1>1, <2>1, SellingAccounted
  <2>2. CASE \E b \in Buyer, p \in Provider, u \in Unit : Buying(b, p, u)
    BY <1>1, <2>2, BuyingAccounted
  <2>3. CASE \E i \in DOMAIN jobs : CancelJob(i) \/ CompleteJobDirectly(i)
    BY <2>3, EndingAccounted
  <2>4. ASSUME NEW c \in Caller, Settling(c) PROVE \A q \in Provider : Accounted(q)'
    <3>1. CASE FinishSettle(c)
      BY <3>1, EndingAccounted
    <3>2. CASE ~FinishSettle(c)
      <4>1. UNCHANGED <<books, orders>>
        BY <2>4, <3>2 DEF Settling, BeginSettle, Resubmit, SignTransfer, NonceRefused, SettleTimesOut,
                          SettleDecided
      <4> QED BY <1>2, <4>1 DEF books, orders
    <3> QED BY <3>1, <3>2
  <2>5. CASE (\E t \in afloat : CommitTx(t)) \/ MarketTick
    BY <1>2, <2>5 DEF CommitTx, MarketTick, books, orders
  <2>6. CASE RestartMarket
    <3>1. UNCHANGED <<jobs, shelf, disturbed>> /\ offer' = shelf
      BY <2>6 DEF RestartMarket
    <3>2. \A q \in Provider : SameJobs(q)
      BY <3>1 DEF SameJobs, Holding
    <3>3. ASSUME NEW q \in Provider PROVE Accounted(q)'
      <4>1. CASE q \in disturbed
        BY <3>1, <4>1 DEF Accounted
      <4>2. CASE q \notin disturbed
        BY <1>1, <3>1, <3>2, <4>2, OthersAccounted DEF Accounted
      <4> QED BY <4>1, <4>2
    <3> QED BY <3>3
  <2> QED BY <1>3, <2>1, <2>2, <2>3, <2>4, <2>5, <2>6 DEF MarketNext
<1>4. CASE Gossiping
  <2>1. CASE \E r \in ordered : HandleJobRequest(r)
    <3>1. \E r \in Request : ReserveRemoteJob(r)
      BY <1>1, <2>1 DEF HandleJobRequest, GossipTypes
    <3> QED BY <1>1, <3>1, BuyingAccounted
  <2>2. CASE ~\E r \in ordered : HandleJobRequest(r)
    <3>1. UNCHANGED <<books, orders>>
      BY <1>4, <2>2 DEF Gossiping, AnnounceProvider, HandleAnnouncement, ListRemoteProviders,
                        SubmitRemoteJob, RestartDirectory, marketVars
    <3> QED BY <1>2, <3>1 DEF books, orders
  <2> QED BY <2>1, <2>2
<1>5. CASE UNCHANGED exchangeVars
  BY <1>2, <1>5 DEF exchangeVars, marketVars, books, orders
<1> QED BY <1>3, <1>4, <1>5 DEF ExchangeNext

\* Capacity is neither sold twice nor lost: for every capacity, every mix of local
\* and remote orders, releases from every path, and restarts, a provider that was
\* not disturbed has left what its jobs do not hold (internal/market/market.go).
THEOREM CapacityIsAccounted == ExchangeSpec => []CapacityAccounted
<1> DEFINE All == \A q \in Provider : Accounted(q)
<1>1. ExchangeInit => All
  BY DEF ExchangeInit, MarketInit, Accounted, Registered
<1>2. MarketInv /\ All /\ [ExchangeNext]_exchangeVars => All'
  BY AccountedStep
<1>3. All => CapacityAccounted
  BY DEF Accounted, CapacityAccounted
<1> HIDE DEF All
<1> QED BY <1>1, <1>2, <1>3, MarketInitially, MarketStep, PTL DEF ExchangeSpec
=============================================================================
