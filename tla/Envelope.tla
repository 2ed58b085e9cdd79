------------------------------ MODULE Envelope ------------------------------
(***************************************************************************)
(* The bytes of a wallet: RLP (internal/rlp), the two forms of a signed    *)
(* transaction (internal/evmtx). The bytes are those of a small alphabet   *)
(* in which every kind of prefix has a place; the state is what was read   *)
(* so far, so that every short string is a state.                          *)
(***************************************************************************)
EXTENDS Signatures, Sequences, SequencesExt

CONSTANTS
  Single,        \* bytes that are their own encoding: 0x80 of them
  ShortMax,      \* 55
  LenBytes,      \* bytes of a long length: 8
  AddressLen,    \* 20
  DynamicType,   \* TxDynamicFee
  MaxFree, MaxRead \* bounds: of any string, of one that starts like a transaction

ASSUME EnvelopeAssumption ==
  /\ {Single, ShortMax, LenBytes, AddressLen, MaxFree, MaxRead} \subseteq Nat \ {0}
  /\ DynamicType \in 0 .. Single - 1

VARIABLE wire      \* the bytes read

StringBase == Single
LongString == StringBase + ShortMax
ListBase == LongString + LenBytes + 1
LongList == ListBase + ShortMax
Byte == 0 .. LongList + LenBytes
Radix == LongList + LenBytes + 1

-----------------------------------------------------------------------------
(* Encoding. *)

Str(b) == [list |-> FALSE, of |-> b]
ListOf(items) == [list |-> TRUE, of |-> items]

\* trimLeadingZeros of uintBytes.
RECURSIVE Digits(_)
Digits(n) == IF n = 0 THEN <<>> ELSE Append(Digits(n \div Radix), n % Radix)

EncodeLength(n, offset) ==
  IF n <= ShortMax THEN <<offset + n>>
  ELSE <<offset + ShortMax + Len(Digits(n))>> \o Digits(n)

EncodeBytes(b) ==
  IF Len(b) = 1 /\ b[1] < StringBase THEN b ELSE EncodeLength(Len(b), StringBase) \o b

EncodeList(encoded) ==
  LET payload == FlattenSeq(encoded) IN EncodeLength(Len(payload), ListBase) \o payload

\* reencodeItem.
RECURSIVE EncodeItem(_)
EncodeItem(item) ==
  IF item.list THEN EncodeList([i \in DOMAIN item.of |-> EncodeItem(item.of[i])])
  ELSE EncodeBytes(item.of)

EncodeUint(n) == EncodeBytes(Digits(n))

-----------------------------------------------------------------------------
(* Decoding: what was read and what is left, or Malformed. *)

Read(item, rest) == [ok |-> TRUE, item |-> item, rest |-> rest]
From(b, i) == SubSeq(b, i, Len(b))

RECURSIVE Number(_)
Number(b) == IF b = <<>> THEN 0 ELSE Radix * Number(Front(b)) + Last(b)

\* Fault for the mutation runs: a length in the long form is taken as it is.
LongPayloadLax(b, n) ==
  IF Len(b) < 1 + n THEN Malformed
  ELSE LET size == Number(SubSeq(b, 2, 1 + n))
       IN IF Len(b) - 1 - n < size THEN Malformed
          ELSE Read(SubSeq(b, 2 + n, 1 + n + size), From(b, 2 + n + size))

\* decodeLongPayload: the shortest length of a payload that needs the long form.
LongPayload(b, n) ==
  IF Len(b) < 1 + n \/ b[2] = 0 THEN Malformed
  ELSE LET size == Number(SubSeq(b, 2, 1 + n))
       IN IF size <= ShortMax \/ Len(b) - 1 - n < size THEN Malformed
          ELSE Read(SubSeq(b, 2 + n, 1 + n + size), From(b, 2 + n + size))

ShortPayload(b, n) ==
  IF Len(b) < 1 + n THEN Malformed ELSE Read(SubSeq(b, 2, 1 + n), From(b, 2 + n))

\* By the kind of the first byte.
Payload(b) ==
  LET p == b[1]
  IN CASE p < StringBase -> Read(<<p>>, Tail(b))
       [] p \in StringBase .. LongString -> ShortPayload(b, p - StringBase)
       [] p \in LongString + 1 .. ListBase - 1 -> LongPayload(b, p - LongString)
       [] p \in ListBase .. LongList -> ShortPayload(b, p - ListBase)
       [] OTHER -> LongPayload(b, p - LongList)

StringItem(p, payload) ==
  IF p = StringBase + 1 => payload.item[1] >= StringBase
  THEN Read(Str(payload.item), payload.rest) ELSE Malformed

ListItem(items, rest) == IF items.ok THEN Read(ListOf(items.item), rest) ELSE Malformed

RECURSIVE DecodeItem(_), DecodeList(_)

\* The item that starts with byte p and has this payload.
ItemOf(p, payload) ==
  CASE ~payload.ok -> Malformed
    [] payload.ok /\ p < ListBase -> StringItem(p, payload)
    [] OTHER -> ListItem(DecodeList(payload.item), payload.rest)

DecodeItem(b) == IF b = <<>> THEN Malformed ELSE ItemOf(b[1], Payload(b))

DecodeList(b) ==
  IF b = <<>> THEN Read(<<>>, <<>>)
  ELSE LET first == DecodeItem(b)
           others == DecodeList(first.rest)
       IN IF first.ok /\ others.ok THEN Read(<<first.item>> \o others.item, <<>>) ELSE Malformed

\* Decode: one item, and nothing after it.
Complete(d) == IF d.ok /\ d.rest = <<>> THEN d ELSE Malformed
Decode(b) == Complete(DecodeItem(b))

\* Uint, Big: a string without a leading zero.
IsUint(item) == ~item.list /\ (item.of # <<>> => item.of[1] # 0)
ToNumber(item) == Number(item.of)

-----------------------------------------------------------------------------
(* Signed transactions. A legacy one is reduced to nonce, recipient and V, a    *)
(* typed one to chain, recipient, access list and parity: the other fields are *)
(* integers and byte strings as these.                                         *)

\* decodeTo: nobody, or an address.
IsTo(item) == ~item.list /\ Len(item.of) \in {0, AddressLen}

LegacyOf(d) ==
  LET f == d.item.of
  IN IF /\ d.ok /\ d.item.list /\ Len(f) = 3
        /\ IsUint(f[1]) /\ IsTo(f[2]) /\ IsUint(f[3])
     THEN [ok |-> TRUE, typed |-> FALSE, nonce |-> ToNumber(f[1]), to |-> f[2].of, v |-> ToNumber(f[3])]
     ELSE Malformed

DynamicFeeOf(d) ==
  LET f == d.item.of
  IN IF /\ d.ok /\ d.item.list /\ Len(f) = 4
        /\ IsUint(f[1]) /\ IsTo(f[2]) /\ f[3].list /\ IsUint(f[4])
     THEN [ok |-> TRUE, typed |-> TRUE, chain |-> ToNumber(f[1]), to |-> f[2].of,
           access |-> f[3], v |-> ToNumber(f[4])]
     ELSE Malformed

DecodeLegacy(b) == LegacyOf(Decode(b))
DecodeDynamicFee(b) == DynamicFeeOf(Decode(b))

\* DecodeRaw up to its own re-encoding.
DecodeRaw(b) ==
  CASE b = <<>> -> Malformed
    [] b # <<>> /\ b[1] = DynamicType -> DecodeDynamicFee(Tail(b))
    [] b # <<>> /\ b[1] < StringBase /\ b[1] # DynamicType -> Malformed
    [] OTHER -> DecodeLegacy(b)

MarshalBinary(tx) ==
  IF tx.typed
  THEN <<DynamicType>> \o EncodeList(<<EncodeUint(tx.chain), EncodeBytes(tx.to),
                                       EncodeItem(tx.access), EncodeUint(tx.v)>>)
  ELSE EncodeList(<<EncodeUint(tx.nonce), EncodeBytes(tx.to), EncodeUint(tx.v)>>)

-----------------------------------------------------------------------------
(* Reading. *)

EnvelopeInit == wire = <<>>

StartsLegacy(b) == b # <<>> /\ b[1] > LongList
StartsTyped(b) == Len(b) > 1 /\ b[1] = DynamicType /\ StartsLegacy(Tail(b))

ReadByte(b) ==
  /\ Len(wire) < CASE StartsTyped(wire) -> MaxRead
                   [] StartsLegacy(wire) -> MaxRead - 1
                   [] OTHER -> MaxFree
  /\ wire' = Append(wire, b)

EnvelopeNext == \E b \in Byte : ReadByte(b)

EnvelopeSpec == EnvelopeInit /\ [][EnvelopeNext]_wire

-----------------------------------------------------------------------------
(* Property. *)

ItemSpelt(d) == d.ok => EncodeItem(d.item) = wire

TransactionSpelt(tx) ==
  tx.ok => /\ MarshalBinary(tx) = wire
           /\ LET id == RecoveryID(tx)
              IN id.ok => SignedV(tx.typed, id.parity, id.chain) = tx.v

\* Bytes that decode are the only ones that decode to what they do, as an item
\* and as a transaction, without the check that encodes it again; any string, as
\* a string or inside a list, is read back; V gives back what it was made of.
OneSpelling ==
  /\ ItemSpelt(Decode(wire))
  /\ \A item \in {Str(wire), ListOf(<<Str(wire)>>), ListOf(<<ListOf(<<>>), Str(wire)>>)} :
       Len(EncodeItem(item)) < Radix => Decode(EncodeItem(item)) = Read(item, <<>>)
  /\ TransactionSpelt(DecodeRaw(wire))

\* An authorization has one identity for the sets that refuse replays and for
\* whoever looks a transaction up by its hash: bytes have one reading, readings
\* one spelling, and the twins of a signature one key.
OneIdentity == OneSpelling /\ (wire = <<>> => OneKeyPerSignature)
=============================================================================
