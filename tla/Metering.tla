------------------------------ MODULE Metering ------------------------------
(***************************************************************************)
(* From a backend to a bill: the vendor's stream of frames or its answer   *)
(* in one piece (internal/inference/openai.go, openai_stream.go), what of  *)
(* it reaches the buyer (stream.go), and the units the buyer is charged    *)
(* (inference.go, service.go, escrow.go). Text is counted in pieces, of a  *)
(* word and two bytes each; a tool call comes as a name and as pieces of   *)
(* its arguments, and carries the index that tells calls apart.            *)
(***************************************************************************)
EXTENDS Integers, FiniteSets, Sums

CONSTANTS
  Index,         \* of the tool calls of an answer
  Pieces,        \* the most pieces of each kind
  Reported,      \* usage totals a vendor may report
  Quoted,        \* units the market job reserved
  UnitPrice,     \* the quote
  PromptWords, PromptBytes, \* of the request: one message, and tools
  Overhead, CeilingFloor,   \* tokensPerMessageOverhead, maxUnitsFloor
  Unknown

ASSUME MeteringAssumption ==
  /\ Index \subseteq Nat /\ IsFiniteSet(Index) /\ Reported \subseteq Nat
  /\ {Pieces, Quoted, UnitPrice, PromptWords, PromptBytes, Overhead, CeilingFloor} \subseteq Nat \ {0}

Unsent == [named |-> FALSE, pieces |-> 0]
Answers == [text : 0 .. Pieces, working : 0 .. 1,
           calls : [Index -> [named : BOOLEAN, pieces : 0 .. 1]], usage : Reported \cup {Unknown}]

VARIABLES
  answer,        \* what the vendor's model produces
  streams,       \* whether the backend can stream
  got,           \* what arrived, as an answer
  ended,         \* "no", "done", "cut": the stream, or the one response
  charge         \* what the buyer is charged, or Unknown

meteringVars == <<answer, streams, got, ended, charge>>

MeteringInit ==
  /\ answer \in Answers
  /\ streams \in BOOLEAN
  /\ got = [text |-> 0, working |-> 0, calls |-> [i \in Index |-> Unsent], usage |-> Unknown]
  /\ ended = "no"
  /\ charge = Unknown

-----------------------------------------------------------------------------
(* The frames of a stream, in any order in which the vendor may send them. *)

Frame == ended = "no" /\ streams /\ UNCHANGED <<answer, streams, ended, charge>>

\* A delta of text is kept, and goes to the buyer as it comes.
TextFrame ==
  /\ Frame /\ got.text < answer.text
  /\ got' = [got EXCEPT !.text = @ + 1]

\* Reasoning, under either of its two names, is kept and not delivered.
WorkingFrame ==
  /\ Frame /\ got.working < answer.working
  /\ got' = [got EXCEPT !.working = @ + 1]

\* toolCallAccumulator.add: the name comes first, the arguments are appended to
\* the call of the same index, whatever is sent in between.
Add(i) ==
  LET c == got.calls[i]
  IN IF ~c.named /\ answer.calls[i].named
     THEN got' = [got EXCEPT !.calls[i].named = TRUE]
     ELSE /\ c.pieces < answer.calls[i].pieces
          /\ got' = [got EXCEPT !.calls[i].pieces = @ + 1]

CallFrame(i) == Frame /\ Add(i)

\* The vendor asked for usage may send it, in a frame without choices.
UsageFrame ==
  /\ Frame /\ answer.usage # Unknown /\ got.usage = Unknown
  /\ got' = [got EXCEPT !.usage = answer.usage]

\* [DONE], or the end of the body: everything was sent. Usage may have been held
\* back by a vendor that ignores the option.
StreamEnds ==
  /\ ended = "no" /\ streams
  /\ got = answer
  /\ ended' = "done"
  /\ UNCHANGED <<answer, streams, got, charge>>

\* A read error, a line too long, or a buyer that hung up.
StreamCut ==
  /\ ended = "no" /\ streams
  /\ ended' = "cut"
  /\ UNCHANGED <<answer, streams, got, charge>>

\* streamBackend with a backend that cannot stream: one response, one chunk.
Infer ==
  /\ ended = "no" /\ ~streams
  /\ got' = answer
  /\ ended' = "done"
  /\ UNCHANGED <<answer, streams, charge>>

-----------------------------------------------------------------------------
(* Units. *)

\* result, fromWireToolCalls: a call without a name is no call.
CallsOf(a) == {i \in Index : a.calls[i].named}

\* UnitsFor: at least one.
UnitsFor(total) == IF total = 0 THEN 1 ELSE total

\* A stream without usage is counted: prompt, text, reasoning and calls.
Derived(a) == PromptWords + a.text + a.working + Cardinality(CallsOf(a))

UnitsOf(a, streaming) ==
  UnitsFor(CASE a.usage # Unknown -> a.usage
             [] a.usage = Unknown /\ streaming -> Derived(a)
             [] OTHER -> 0)

\* maxUnitsFor: what the bytes both sides hold can account for.
Ceiling(a) ==
  LET bytes == PromptBytes + 2 * (a.text + a.working)
                 + Total([i \in CallsOf(a) |-> 1 + a.calls[i].pieces], CallsOf(a))
  IN Max({bytes + 3 * Overhead, CeilingFloor})

\* settleRun, escrowCharge: no more units than were reserved, nor than the bytes
\* account for.
Charged(a, units) == UnitPrice * Min({units, Quoted, Ceiling(a)})

\* Fault for the mutation runs: the usage the vendor sent before the cut is billed.
PartialReported == [got EXCEPT !.working = 0, !.calls = [i \in Index |-> Unsent]]

\* partialResponse: the text that was delivered.
Partial == [got EXCEPT !.working = 0,
                       !.calls = [i \in Index |-> Unsent], !.usage = Unknown]

\* A finished run with neither text nor a call is a failure in a stream, an empty
\* answer otherwise; a cut one is charged when a deposit pays for it and some text
\* was delivered.
BillRun ==
  /\ charge = Unknown
  /\ \/ /\ ended = "done" /\ (streams => got.text > 0 \/ CallsOf(got) # {})
        /\ charge' = Charged(got, UnitsOf(got, streams))
     \/ /\ ended = "cut" /\ got.text > 0
        /\ charge' = Charged(Partial, UnitsOf(Partial, TRUE))
  /\ UNCHANGED <<answer, streams, got, ended>>

MeteringNext ==
  \/ TextFrame
  \/ WorkingFrame
  \/ \E i \in Index : CallFrame(i)
  \/ UsageFrame
  \/ StreamEnds
  \/ StreamCut
  \/ Infer
  \/ BillRun

-----------------------------------------------------------------------------
(* Property. *)

\* A stream cut short never costs the buyer more than the whole answer would,
\* counted the same way, wherever it was cut and whatever usage was sent.
Metered ==
  charge # Unknown /\ ended = "cut" => charge <= Charged(answer, UnitsFor(Derived(answer)))
=============================================================================
