------------------------------- MODULE Purchase -------------------------------
(***************************************************************************)
(* The buyer's side of a job (internal/cli/inference_escrow.go,            *)
(* inference.go): a run out of a reservation, streamed, billed, checked    *)
(* and settled with the wallet's key, the recovery of a settlement whose   *)
(* stream is gone, and a run whose invoice is signed after the work. The   *)
(* node is the seller's: "honest" or not. It cuts a run whose stream is    *)
(* gone and keeps the bill; module Inference is its side.                  *)
(*                                                                         *)
(* Text is counted; the bound on what it can have cost (MaxUnitsFor) is    *)
(* its length. The wallet, its passphrase and what is printed but for the  *)
(* answer are left out.                                                    *)
(***************************************************************************)
EXTENDS Integers, FiniteSets

CONSTANTS
  Prompt,        \* length of the prompt
  MaxText,       \* bound: length of an answer, and of the model's working
  AskPrice,      \* price per unit of the node, unless it does not say
  Deposits,      \* what it may ask to reserve
  Estimate       \* units it reserves

ASSUME PurchaseAssumption ==
  /\ {Prompt, MaxText, Estimate} \subseteq Nat /\ AskPrice \in Nat \ {0}
  /\ Deposits \subseteq Nat \ {0}

VARIABLES
  honest,        \* the node's bills are of its text
  explicit,      \* --timeout was named
  claimable,     \* the reservation may be claimed
  order,         \* the job at the node
  seat,          \* where the command is
  inContext,     \* its context, once the reservation's deadline is set or not
  heard,         \* what it has: [text, working, bill, price, deposit, whole]
  recoveryAsked, \* whether the node was asked for the settlement after a cut
  signatures,    \* payments the wallet signed, each with what it was checked against
  worked         \* jobs run for the client-signed command

purchaseVars == <<honest, explicit, claimable, order, seat, inContext, heard, recoveryAsked, signatures, worked>>

NoBill == -1
Unmade == [at |-> "none", text |-> 0, working |-> 0, bill |-> NoBill, deposit |-> 0]
Untold == [text |-> 0, working |-> 0, bill |-> NoBill, price |-> 0, deposit |-> 0, whole |-> FALSE]
UnitBound(text, working) == Prompt + text + working

\* signAs: exactly what was asked.
Sign(what, amount) == signatures' = signatures \cup {[what |-> what, amount |-> amount, on |-> heard]}

-----------------------------------------------------------------------------
(* The node. *)

\* A word of the answer, or of its working, which travels on the last frame only.
Produce ==
  /\ order.at = "running"
  /\ \/ order.text < MaxText /\ order' = [order EXCEPT !.text = @ + 1]
     \/ order.working < MaxText /\ order' = [order EXCEPT !.working = @ + 1]
  /\ UNCHANGED <<honest, explicit, claimable, seat, inContext, heard, recoveryAsked, signatures, worked>>

\* The run is over, or its stream is: the bill is made.
Bills ==
  LET most == AskPrice * UnitBound(order.text, order.working)
  IN IF honest THEN {b \in 1 .. most : b <= order.deposit} ELSE 0 .. order.deposit + 1

MakeBill ==
  /\ order.at = "running"
  /\ \E b \in Bills : order' = [order EXCEPT !.at = "billed", !.bill = b]
  /\ UNCHANGED <<honest, explicit, claimable, seat, inContext, heard, recoveryAsked, signatures, worked>>

\* Time passes, and the provider takes what was not settled.
Claim ==
  /\ claimable' = TRUE
  /\ order' = IF claimable /\ order.at \in {"funded", "running", "billed"}
              THEN [order EXCEPT !.at = "claimed"] ELSE order
  /\ UNCHANGED <<honest, explicit, seat, inContext, heard, recoveryAsked, signatures, worked>>

-----------------------------------------------------------------------------
(* runEscrowed. *)

Go(to) == seat' = to
Fails == Go("failed") /\ UNCHANGED <<honest, explicit, claimable, order, inContext, heard, recoveryAsked, signatures, worked>>

\* Reserve, and the arithmetic behind the deposit. From here the deadline is the
\* reservation's, and an interrupt is not heard, unless a timeout was named.
ReserveJob ==
  /\ seat = "start"
  /\ \E deposit \in Deposits, price \in {0, AskPrice} :
       /\ honest => price = AskPrice /\ deposit = Estimate * AskPrice
       /\ order' = [order EXCEPT !.at = "reserved", !.deposit = deposit]
       /\ heard' = [heard EXCEPT !.deposit = deposit, !.price = price]
       /\ Go(IF price # 0 /\ Estimate # 0 /\ deposit # Estimate * price THEN "failed" ELSE "fund")
  /\ UNCHANGED <<honest, explicit, claimable, inContext, recoveryAsked, signatures, worked>>

\* Fund: the node has it before it answers, and the answer may be lost.
Fund ==
  /\ seat = "fund" /\ inContext
  /\ Sign("deposit", heard.deposit)
  /\ order' = [order EXCEPT !.at = "funded"]
  /\ Go("open") \/ Go("failed")
  /\ UNCHANGED <<honest, explicit, claimable, inContext, heard, recoveryAsked, worked>>

\* The context ends: an interrupt or the named timeout, or the deadline.
ContextEnds ==
  /\ inContext /\ seat \in {"start", "fund", "open", "stream"}
  /\ explicit \/ claimable \/ seat = "start"
  /\ inContext' = FALSE
  /\ UNCHANGED <<honest, explicit, claimable, order, seat, heard, recoveryAsked, signatures, worked>>

GivesUp ==
  /\ ~inContext /\ seat \in {"start", "fund"}
  /\ Fails

OpenStream ==
  /\ seat = "open" /\ inContext
  /\ order.at = "funded"
  /\ order' = [order EXCEPT !.at = "running"]
  /\ Go("stream")
  /\ UNCHANGED <<honest, explicit, claimable, inContext, heard, recoveryAsked, signatures, worked>>

HearDelta ==
  /\ seat = "stream" /\ inContext
  /\ heard.text < order.text
  /\ heard' = [heard EXCEPT !.text = @ + 1]
  /\ UNCHANGED <<honest, explicit, claimable, order, seat, inContext, recoveryAsked, signatures, worked>>

\* Fault for the mutation runs: the working on the last frame is not taken.
FrameWithoutWorking == 0

\* The working that the bill is checked against is on the last frame.
FrameWorking == order.working

\* The settlement is on the last frame, after every delta.
LastFrame ==
  /\ seat = "stream" /\ inContext
  /\ order.at = "billed" /\ heard.text = order.text
  /\ heard' = [heard EXCEPT !.working = FrameWorking, !.bill = order.bill, !.whole = TRUE]
  /\ Go("check")
  /\ UNCHANGED <<honest, explicit, claimable, order, inContext, recoveryAsked, signatures, worked>>

\* The stream cannot be opened, breaks, or its context ended: it is recovered.
LoseStream == seat \in {"open", "stream"} /\ Go("recover")
  /\ UNCHANGED <<honest, explicit, claimable, order, inContext, heard, recoveryAsked, signatures, worked>>

\* recoverEscrow, under a context of its own: the node's text only if none was seen.
AskRecovery ==
  /\ seat = "recover"
  /\ recoveryAsked' = TRUE
  /\ \/ /\ order.at = "billed"
        /\ heard' = [heard EXCEPT !.text = IF @ = 0 THEN order.text ELSE @,
                                !.working = FrameWorking, !.bill = order.bill,
                                !.whole = heard.text \in {0, order.text}]
        /\ Go("check")
     \/ UNCHANGED heard /\ Go("failed")
  /\ UNCHANGED <<honest, explicit, claimable, order, inContext, signatures, worked>>

\* checkEscrowBill.
Acceptable ==
  /\ heard.bill > 0 /\ heard.bill <= heard.deposit
  /\ heard.price # 0 => heard.bill <= UnitBound(heard.text, heard.working) * heard.price

CheckBill ==
  /\ seat = "check"
  /\ IF Acceptable THEN Sign("settlement", heard.bill) /\ Go("settle")
     ELSE UNCHANGED signatures /\ Go("refused")
  /\ UNCHANGED <<honest, explicit, claimable, order, inContext, heard, recoveryAsked, worked>>

\* A context of its own again; the answer may be lost. After a claim nothing is left
\* to settle.
Settle ==
  /\ seat = "settle"
  /\ order' = IF order.at = "billed" THEN [order EXCEPT !.at = "settled"] ELSE order
  /\ Go("done") \/ Go("failed")
  /\ UNCHANGED <<honest, explicit, claimable, inContext, heard, recoveryAsked, signatures, worked>>

\* The process is killed.
Kill ==
  /\ seat \notin {"done", "failed", "refused", "killed"}
  /\ Go("killed")
  /\ UNCHANGED <<honest, explicit, claimable, order, inContext, heard, recoveryAsked, signatures, worked>>

\* The recover command, from another process: it shows what is asked, and pays it
\* if told to.
RecoverCommand ==
  /\ seat \in {"failed", "refused", "killed"}
  /\ order.at = "billed"
  /\ Sign("recovered", order.bill)
  /\ order' = [order EXCEPT !.at = "settled"]
  /\ UNCHANGED <<honest, explicit, claimable, seat, inContext, heard, recoveryAsked, worked>>

-----------------------------------------------------------------------------
(* runClientSigned: run, with its progress or without, sign the invoice. *)

\* Only a node too old for the progress stream is asked again without.
FallsBack(code) == code = "unimplemented"

\* The node runs the job and the stream may break after that.
RunWithProgress ==
  /\ seat = "ask"
  /\ \/ Go("plain") /\ FallsBack("unimplemented") /\ UNCHANGED worked
     \/ worked' = worked + 1 /\ Go("invoiced")
     \/ worked' = worked + 1 /\ Go(IF FallsBack("unavailable") THEN "plain" ELSE "failed")
  /\ UNCHANGED <<honest, explicit, claimable, order, inContext, heard, recoveryAsked, signatures>>

RunPlain ==
  /\ seat = "plain"
  /\ worked' = worked + 1
  /\ Go("invoiced") \/ Go("failed")
  /\ UNCHANGED <<honest, explicit, claimable, order, inContext, heard, recoveryAsked, signatures>>

SignInvoice ==
  /\ seat = "invoiced"
  /\ Sign("invoice", 1)
  /\ Go("done") \/ Go("failed")
  /\ UNCHANGED <<honest, explicit, claimable, order, inContext, heard, recoveryAsked, worked>>

-----------------------------------------------------------------------------

PurchaseInit ==
  /\ honest \in BOOLEAN /\ explicit \in BOOLEAN /\ claimable = FALSE
  /\ order = Unmade
  /\ seat \in {"start", "ask", "plain"} /\ inContext = TRUE
  /\ heard = Untold /\ recoveryAsked = FALSE /\ signatures = {} /\ worked = 0

PurchaseNext ==
  \/ Produce \/ MakeBill \/ Claim
  \/ ReserveJob \/ Fund \/ ContextEnds \/ GivesUp
  \/ OpenStream \/ HearDelta \/ LastFrame \/ LoseStream \/ AskRecovery
  \/ CheckBill \/ Settle \/ Kill \/ RecoverCommand
  \/ RunWithProgress \/ RunPlain \/ SignInvoice

PurchaseSpec == PurchaseInit /\ [][PurchaseNext]_purchaseVars

-----------------------------------------------------------------------------
(* Properties. *)

\* Whoever the node is, a settlement that was signed without being shown is within
\* what was reserved, and within what the text that arrived can have cost, if
\* the node named a price.
BillCovered ==
  \A s \in signatures : s.what = "settlement" =>
    /\ s.amount \in 1 .. s.on.deposit
    /\ s.on.price # 0 => s.amount <= AskPrice * UnitBound(order.text, order.working)

\* An honest bill is refused only for text that never arrived: whoever refuses one
\* loses the whole reservation.
HonestBillPaid == honest /\ heard.whole => seat # "refused"

\* Once the reservation is funded, a command ends without having asked for its
\* settlement only if the answer to funding was lost, or it was killed.
CutIsRecovered ==
  seat = "failed" /\ order.at \in {"running", "billed"} =>
    recoveryAsked \/ \E s \in signatures : s.what = "settlement"

\* A command has one job run and at most one deposit, and whatever is signed for its
\* settlement, here or later, is the one bill.
PaysOneBill ==
  /\ worked <= 1
  /\ \A s, t \in signatures :
       /\ s.what = t.what => s = t
       /\ {s.what, t.what} = {"settlement", "recovered"} => s.amount = t.amount

\* What a buyer's own program does with the buyer's key.
BuyerKept == BillCovered /\ HonestBillPaid /\ CutIsRecovered /\ PaysOneBill
=============================================================================
