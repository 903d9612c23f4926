-------------------------------- MODULE Wire -------------------------------
(***************************************************************************)
(* How values are written to and read from bytes: the serialization crate, *)
(* the derive macros, the types of the chain crate and the payloads and    *)
(* headers of the message crate.                                           *)
(*                                                                         *)
(* A layout says what a type's Serializable and Deserializable do; Encode  *)
(* and Read interpret it.  A byte has Byte values instead of 256 and the   *)
(* widths of integers and hashes shrink with it, so that every branch on a *)
(* width, a count or a code is met by small values.                        *)
(***************************************************************************)
EXTENDS Integers, Sequences, SequencesExt

Byte == 16
W16 == 2
W32 == 5
W64 == 6
HashLen == 2
MaxItems == 2          \* bound of read_list_max: 500, 1000, 2000 and 50000 in the code

-----------------------------------------------------------------------------
\* Layouts.
U(w) == [kind |-> "uint", w |-> w]
I(w) == [kind |-> "int", w |-> w]
Hash == [kind |-> "raw", w |-> HashLen]
Flag == [kind |-> "bool"]
Code(codes, w) == [kind |-> "code", codes |-> codes, w |-> w]
CompactInteger == [kind |-> "compact"]
Blob == [kind |-> "blob"]
ListOf(layout) == [kind |-> "list", of |-> layout, bounded |-> FALSE]
ListMax(layout) == [kind |-> "list", of |-> layout, bounded |-> TRUE]
Struct(fields) == [kind |-> "struct", fields |-> fields]
IpAddress == [kind |-> "ip"]
Port == [kind |-> "port"]
NoTransactions == [kind |-> "zero"]
Transaction == [kind |-> "tx"]
VersionLayout == [kind |-> "version"]

-----------------------------------------------------------------------------
\* Writing.
LittleEndian(n, w) == [i \in 1 .. w |-> (n \div Byte ^ (i - 1)) % Byte]

Compact(n) ==
    CASE n < Byte - 3 -> <<n>>
      [] n >= Byte - 3 /\ n < Byte ^ W16 -> <<Byte - 3>> \o LittleEndian(n, W16)
      [] n >= Byte ^ W16 /\ n < Byte ^ W32 -> <<Byte - 2>> \o LittleEndian(n, W32)
      [] OTHER -> <<Byte - 1>> \o LittleEndian(n, W64)

CompactSize(n) ==
    CASE n < Byte - 3 -> 1
      [] n >= Byte - 3 /\ n < Byte ^ W16 -> 1 + W16
      [] n >= Byte ^ W16 /\ n < Byte ^ W32 -> 1 + W32
      [] OTHER -> 1 + W64

OutPoint == Struct(<<Hash, U(W32)>>)
InputLayout == Struct(<<OutPoint, Blob, U(W32)>>)
TransactionOutput == Struct(<<U(W64), Blob>>)
WitnessMarker == 0
WitnessFlag == 1

HasWitness(tx) == \E i \in DOMAIN tx.inputs : tx.inputs[i].witness # <<>>

RawInputs(tx) == [i \in DOMAIN tx.inputs |-> tx.inputs[i].raw]

V0Layout == Struct(<<U(W32), U(W64), I(W64), Struct(<<U(W64), IpAddress, Port>>)>>)
V106Layout == Struct(<<Struct(<<U(W64), IpAddress, Port>>), U(W64), Blob, I(W32)>>)
V70001Layout == Struct(<<Flag>>)
VersionParts == <<V0Layout, V106Layout, V70001Layout>>

RECURSIVE Encode(_, _, _)

\* The fields or elements of a value one after the other.
EncodeAll(layouts, values, flags) ==
    FlattenSeq([i \in DOMAIN values |-> Encode(layouts[i], values[i], flags)])

EncodeList(layout, values, flags) ==
    Compact(Len(values)) \o EncodeAll([i \in DOMAIN values |-> layout], values, flags)

EncodeTransaction(tx, flags) ==
    LET witness == flags /\ HasWitness(tx)
    IN  Encode(I(W32), tx.version, flags)
        \o (IF witness THEN <<WitnessMarker, WitnessFlag>> ELSE <<>>)
        \o EncodeList(InputLayout, RawInputs(tx), flags)
        \o EncodeList(TransactionOutput, tx.outputs, flags)
        \o (IF witness
            THEN FlattenSeq([i \in DOMAIN tx.inputs |->
                                EncodeList(Blob, tx.inputs[i].witness, flags)])
            ELSE <<>>)
        \o Encode(U(W32), tx.lockTime, flags)

\* Serializable::serialize; flags is the stream's SERIALIZE_TRANSACTION_WITNESS.
Encode(layout, value, flags) ==
    CASE layout.kind \in {"uint", "code"} -> LittleEndian(value, layout.w)
      [] layout.kind = "int" -> LittleEndian(value % Byte ^ layout.w, layout.w)
      [] layout.kind = "raw" -> value
      [] layout.kind = "bool" -> <<IF value THEN 1 ELSE 0>>
      [] layout.kind = "compact" -> Compact(value)
      [] layout.kind = "blob" -> Compact(Len(value)) \o value
      [] layout.kind = "list" -> EncodeList(layout.of, value, flags)
      [] layout.kind = "struct" -> EncodeAll(layout.fields, value, flags)
      [] layout.kind = "ip" -> (IF value.v4 THEN <<0, 0, 0>> ELSE <<>>) \o value.octets
      [] layout.kind = "port" -> Reverse(LittleEndian(value, W16))
      [] layout.kind = "zero" -> Compact(0)
      [] layout.kind = "tx" -> EncodeTransaction(value, flags)
      [] layout.kind = "version" -> EncodeAll(VersionParts, value, flags)

RECURSIVE Size(_, _)

Total(sizes) == FoldSeq(LAMBDA size, sum : size + sum, 0, sizes)

\* Serializable::serialized_size: computed for integers, hashes, byte strings,
\* lists and derived structures; the length of the encoding for the rest.
Size(layout, value) ==
    CASE layout.kind \in {"uint", "int", "raw"} -> layout.w
      [] layout.kind = "bool" -> 1
      [] layout.kind = "compact" -> CompactSize(value)
      [] layout.kind = "blob" -> CompactSize(Len(value)) + Len(value)
      [] layout.kind = "list" ->
            CompactSize(Len(value)) + Total([i \in DOMAIN value |-> Size(layout.of, value[i])])
      [] layout.kind = "struct" -> Total([i \in DOMAIN value |-> Size(layout.fields[i], value[i])])
      [] OTHER -> Len(Encode(layout, value, FALSE))

-----------------------------------------------------------------------------
\* Reading.
Got(value, rest) == [ok |-> TRUE, value |-> value, rest |-> rest]
Error(error) == [ok |-> FALSE, error |-> error]

ReadSlice(bytes, w) ==
    IF Len(bytes) < w THEN Error("UnexpectedEnd")
    ELSE Got(SubSeq(bytes, 1, w), SubSeq(bytes, w + 1, Len(bytes)))

Number(digits) ==
    FoldSeq(LAMBDA i, sum : digits[i] * Byte ^ (i - 1) + sum, 0, [i \in DOMAIN digits |-> i])

Signed(n, w) == IF 2 * n >= Byte ^ w THEN n - Byte ^ w ELSE n

\* Goes on with what was read and what is left, if anything was read.
Then(result, Next(_, _)) == IF result.ok THEN Next(result.value, result.rest) ELSE result

Mapped(result, f(_)) == Then(result, LAMBDA value, rest : Got(f(value), rest))

ReadUint(bytes, w) == Mapped(ReadSlice(bytes, w), Number)

\* A value outside of codes is malformed.
ReadCode(bytes, w, codes) ==
    Then(ReadUint(bytes, w),
         LAMBDA n, rest : IF n \in codes THEN Got(n, rest) ELSE Error("MalformedData"))

\* The width of the number after a first byte that is not the number itself.
CompactWidth(first) == CASE first = Byte - 3 -> W16 [] first = Byte - 2 -> W32 [] OTHER -> W64

ReadCompact(bytes) ==
    Then(ReadUint(bytes, 1),
         LAMBDA first, rest : IF first < Byte - 3 THEN Got(first, rest)
                              ELSE ReadUint(rest, CompactWidth(first)))

ReadBlob(bytes) == Then(ReadCompact(bytes), LAMBDA len, rest : ReadSlice(rest, len))

ReadIp(bytes) ==
    Then(ReadSlice(bytes, 3), LAMBDA prefix, after :
        Then(ReadSlice(after, 1), LAMBDA tail, rest :
            Got(IF prefix = <<0, 0, 0>> THEN [v4 |-> TRUE, octets |-> tail]
                ELSE [v4 |-> FALSE, octets |-> prefix \o tail], rest)))

RECURSIVE Read(_, _)
RECURSIVE ReadMany(_, _, _)
RECURSIVE ReadFields(_, _)

\* n values of one layout.
ReadMany(layout, n, bytes) ==
    IF n = 0 THEN Got(<<>>, bytes)
    ELSE Then(Read(layout, bytes), LAMBDA head, rest :
            Mapped(ReadMany(layout, n - 1, rest), LAMBDA values : <<head>> \o values))

\* A structure's fields in order, as the derived Deserializable reads them.
ReadFields(fields, bytes) ==
    IF fields = <<>> THEN Got(<<>>, bytes)
    ELSE Then(Read(Head(fields), bytes), LAMBDA head, rest :
            Mapped(ReadFields(Tail(fields), rest), LAMBDA values : <<head>> \o values))

ReadList(layout, bounded, bytes) ==
    Then(ReadCompact(bytes), LAMBDA len, rest :
        IF bounded /\ len > MaxItems THEN Error("MalformedData") ELSE ReadMany(layout, len, rest))

\* Outputs, witnesses and lock time, after the version, the inputs and, in a
\* transaction with witnesses, the marker and the flag.
ReadBody(version, inputs, witness, bytes) ==
    Then(ReadList(TransactionOutput, FALSE, bytes), LAMBDA outputs, afterOutputs :
        Then(IF witness THEN ReadMany(ListOf(Blob), Len(inputs), afterOutputs)
             ELSE Got([i \in DOMAIN inputs |-> <<>>], afterOutputs), LAMBDA witnesses, afterWitnesses :
            Then(ReadUint(afterWitnesses, W32), LAMBDA lockTime, rest :
                Got([version |-> version,
                     inputs |-> [i \in DOMAIN inputs |-> [raw |-> inputs[i], witness |-> witnesses[i]]],
                     outputs |-> outputs,
                     lockTime |-> lockTime], rest))))

\* No inputs are the marker of a transaction with witnesses: its flag and inputs follow.
ReadInputs(bytes, Flags(_)) ==
    Then(ReadList(InputLayout, FALSE, bytes), LAMBDA inputs, rest :
        IF inputs # <<>> THEN Got([inputs |-> inputs, witness |-> FALSE], rest)
        ELSE Then(ReadUint(rest, 1), LAMBDA flag, marked :
                IF ~Flags(flag) THEN Error("MalformedData")
                ELSE Mapped(ReadList(InputLayout, FALSE, marked),
                            LAMBDA after : [inputs |-> after, witness |-> TRUE])))

\* Mutant: the flag byte is skipped, not checked.
ReadTransactionAnyFlag(bytes) ==
    Then(Read(I(W32), bytes), LAMBDA version, afterVersion :
        Then(ReadInputs(afterVersion, LAMBDA flag : TRUE), LAMBDA read, rest :
            ReadBody(version, read.inputs, read.witness, rest)))

ReadTransaction(bytes) ==
    Then(Read(I(W32), bytes), LAMBDA version, afterVersion :
        Then(ReadInputs(afterVersion, LAMBDA flag : flag = WitnessFlag), LAMBDA read, rest :
            ReadBody(version, read.inputs, read.witness, rest)))

\* How many of its parts a version message of a protocol version has.
PartsOf(protocol) == CASE protocol < 106 -> 1 [] protocol \in 106 .. 70000 -> 2 [] OTHER -> 3

ReadVersion(bytes) ==
    Then(Read(V0Layout, bytes), LAMBDA simple, rest :
        ReadFields(SubSeq(VersionParts, 1, PartsOf(simple[1])), bytes))

\* Deserializable::deserialize.
Read(layout, bytes) ==
    CASE layout.kind = "uint" -> ReadUint(bytes, layout.w)
      [] layout.kind = "int" -> Mapped(ReadUint(bytes, layout.w), LAMBDA n : Signed(n, layout.w))
      [] layout.kind = "raw" -> ReadSlice(bytes, layout.w)
      [] layout.kind = "bool" -> Mapped(ReadCode(bytes, 1, {0, 1}), LAMBDA n : n = 1)
      [] layout.kind = "code" -> ReadCode(bytes, layout.w, layout.codes)
      [] layout.kind = "compact" -> ReadCompact(bytes)
      [] layout.kind = "blob" -> ReadBlob(bytes)
      [] layout.kind = "list" -> ReadList(layout.of, layout.bounded, bytes)
      [] layout.kind = "struct" -> ReadFields(layout.fields, bytes)
      [] layout.kind = "ip" -> ReadIp(bytes)
      [] layout.kind = "port" -> Mapped(ReadSlice(bytes, W16), LAMBDA d : Number(Reverse(d)))
      [] layout.kind = "zero" ->
            Then(ReadCompact(bytes),
                 LAMBDA count, rest : IF count = 0 THEN Got(0, rest) ELSE Error("MalformedData"))
      [] layout.kind = "tx" -> ReadTransaction(bytes)
      [] layout.kind = "version" -> ReadVersion(bytes)

\* deserialize: nothing may be left over.
Deserialize(layout, bytes) ==
    Then(Read(layout, bytes),
         LAMBDA value, rest : IF rest = <<>> THEN Got(value, rest) ELSE Error("UnreadData"))

-----------------------------------------------------------------------------
(* The payloads of the message crate: the layout of every message, the       *)
(* protocol version it exists from, and the frame it is sent in.             *)

NetAddress == Struct(<<U(W64), IpAddress, Port>>)
AddressEntry == Struct(<<U(W32), NetAddress>>)
BlockHeader == Struct(<<U(W32), Hash, Hash, U(W32), U(W32), U(W32)>>)
Block == Struct(<<BlockHeader, ListOf(Transaction)>>)

\* Error, tx, block, filtered block, compact block; the witness bit is Byte.
InventoryCodes == 0 .. 4 \cup {Byte + 1, Byte + 2, Byte + 3}
InventoryVector == Struct(<<Code(InventoryCodes, W32), Hash>>)

\* The codes of 0x01, 0x10.. and 0x40.. keep their gaps.
RejectCodes == {1} \cup {4, 5, 6} \cup {8, 9, 10, 11}
FilterFlags == {0, 1, 2}

ShortTransactionID == [kind |-> "raw", w |-> 1]
PrefilledTransaction == Struct(<<CompactInteger, Transaction>>)
BlockHeaderAndIDs ==
    Struct(<<BlockHeader, U(W64), ListOf(ShortTransactionID), ListOf(PrefilledTransaction)>>)
BlockTransactions == Struct(<<Hash, ListOf(Transaction)>>)
BlockTransactionsRequest == Struct(<<Hash, ListOf(CompactInteger)>>)

GetBlocks == Struct(<<U(W32), ListMax(Hash), Hash>>)
GetHeaders == Struct(<<U(W32), ListMax(Hash), Hash>>)
Headers == ListOf(Struct(<<BlockHeader, NoTransactions>>))
Inv == ListMax(InventoryVector)
GetData == ListMax(InventoryVector)
NotFound == ListMax(InventoryVector)
Ping == Struct(<<U(W64)>>)
Pong == Struct(<<U(W64)>>)
FeeFilter == Struct(<<U(W64)>>)
SendCompact == Struct(<<Flag, U(W64)>>)
FilterLoad == Struct(<<Blob, U(W32), U(W32), Code(FilterFlags, 1)>>)
FilterAdd == Struct(<<Blob>>)
MerkleBlock == Struct(<<BlockHeader, U(W32), ListOf(Hash), Blob>>)
Reject == Struct(<<Blob, Code(RejectCodes, 1), Blob>>)
Tx == Transaction
BlockMessage == Block
GetBlockTxn == BlockTransactionsRequest
BlockTxn == BlockTransactions
CompactBlock == BlockHeaderAndIDs
Nothing == Struct(<<>>)
Verack == Nothing
GetAddr == Nothing
MemPool == Nothing
FilterClear == Nothing
SendHeaders == Nothing

\* Addr by protocol version: with a time for every address from 31402 on.
AddrTimed == 31402
Addr(protocol) == IF protocol < AddrTimed THEN ListMax(NetAddress) ELSE ListMax(AddressEntry)

Commands ==
    {"version", "verack", "addr", "getaddr", "inv", "getdata", "notfound", "getblocks",
     "getheaders", "headers", "block", "tx", "mempool", "reject", "ping", "pong", "filterload",
     "filteradd", "filterclear", "merkleblock", "sendheaders", "feefilter", "sendcmpct",
     "cmpctblock", "getblocktxn", "blocktxn"}

\* Payload::version.
Since(command) ==
    CASE command = "mempool" -> 60002
      [] command \in {"filterload", "filteradd", "filterclear"} -> 70001
      [] command = "sendheaders" -> 70012
      [] command = "feefilter" -> 70013
      [] command \in {"merkleblock", "sendcmpct", "cmpctblock", "getblocktxn", "blocktxn"} -> 70014
      [] OTHER -> 0

LayoutOf(command, protocol) ==
    CASE command = "version" -> VersionLayout
      [] command = "addr" -> Addr(protocol)
      [] command = "verack" -> Verack
      [] command = "getaddr" -> GetAddr
      [] command = "mempool" -> MemPool
      [] command = "filterclear" -> FilterClear
      [] command = "sendheaders" -> SendHeaders
      [] command = "inv" -> Inv
      [] command = "getdata" -> GetData
      [] command = "notfound" -> NotFound
      [] command = "getblocks" -> GetBlocks
      [] command = "getheaders" -> GetHeaders
      [] command = "headers" -> Headers
      [] command = "block" -> BlockMessage
      [] command = "tx" -> Tx
      [] command = "reject" -> Reject
      [] command = "ping" -> Ping
      [] command = "pong" -> Pong
      [] command = "filterload" -> FilterLoad
      [] command = "filteradd" -> FilterAdd
      [] command = "merkleblock" -> MerkleBlock
      [] command = "feefilter" -> FeeFilter
      [] command = "sendcmpct" -> SendCompact
      [] command = "cmpctblock" -> CompactBlock
      [] command = "getblocktxn" -> GetBlockTxn
      [] command = "blocktxn" -> BlockTxn

\* V31402AsV0: an addr written for an old peer leaves out the times.
AsWritten(command, value, protocol) ==
    IF command = "addr" /\ protocol < AddrTimed
    THEN [i \in DOMAIN value |-> value[i][2]]
    ELSE value

\* serialize_payload_with_flags.
SerializePayload(command, value, protocol, flags) ==
    IF Since(command) > protocol THEN Error("InvalidVersion")
    ELSE Got(Encode(LayoutOf(command, protocol), AsWritten(command, value, protocol), flags), <<>>)

\* deserialize_payload.
DeserializePayload(command, bytes, protocol) ==
    IF Since(command) > protocol THEN Error("InvalidVersion")
    ELSE Then(Read(LayoutOf(command, protocol), bytes),
              LAMBDA value, rest : IF rest = <<>> THEN Got(value, rest) ELSE Error("Deserialize"))

-----------------------------------------------------------------------------
\* Frames: magic, command, length and checksum before the payload.
Magic == 7
MessageHeader == Struct(<<U(W32), [kind |-> "raw", w |-> 2], U(W32), Hash>>)
HeaderSize == 2 * W32 + 2 + HashLen

\* Stands for the first bytes of the double SHA-256 of a payload.
Checksum(bytes) ==
    LET sum == FoldSeq(LAMBDA i, s : (i + 1) * bytes[i] + s, 0, [i \in DOMAIN bytes |-> i])
    IN  LittleEndian(sum % Byte ^ HashLen, HashLen)

ForData(command, payload) == <<Magic, command, Len(payload), Checksum(payload)>>

ToRawMessage(command, payload) ==
    Encode(MessageHeader, ForData(command, payload), FALSE) \o payload

\* MessageHeader::deserialize.
ReadHeader(bytes) ==
    IF Len(bytes) # HeaderSize THEN Error("Deserialize")
    ELSE Then(Read(MessageHeader, bytes),
              LAMBDA fields, rest : IF fields[1] = Magic THEN Got(fields, rest) ELSE Error("InvalidMagic"))

\* The p2p crate's read_header, read_payload and checksum test on a stream: the
\* payload of its first message, and what is left of the stream.
ReadFrame(stream) ==
    Then(ReadSlice(stream, HeaderSize), LAMBDA header, body :
        Then(ReadHeader(header), LAMBDA fields, none :
            Then(ReadSlice(body, fields[3]), LAMBDA payload, rest :
                IF Checksum(payload) # fields[4] THEN Error("InvalidChecksum")
                ELSE Got([command |-> fields[2], payload |-> payload], rest))))
=============================================================================
