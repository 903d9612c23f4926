------------------------------ MODULE MCImport -----------------------------
(***************************************************************************)
(* Directories for Import over the tree                                    *)
(*                                                                         *)
(*      g0 - a1 - b2 - c3                                                  *)
(*        \                                                                *)
(*         d1 - e2 - f3 - h4         x3, above e2, is invalid              *)
(*                                                                         *)
(* and, for the empty directory, one probe of the encodings per behaviour. *)
(***************************************************************************)
EXTENDS Import

CONSTANTS g0, a1, b2, c3, d1, e2, f3, x3, h4

VARIABLE probe

MCBlocks == {g0, a1, b2, c3, d1, e2, f3, x3, h4}

MCParent ==
    [n \in MCBlocks |-> CASE n = g0 -> NoHash [] n \in {a1, d1} -> g0 [] n = b2 -> a1 [] n = c3 -> b2
                          [] n = e2 -> d1 [] n \in {f3, x3} -> e2 [] n = h4 -> f3]

MCAncestors[n \in MCBlocks] == IF n = g0 THEN {g0} ELSE {n} \cup MCAncestors[MCParent[n]]

MCHeight[n \in MCBlocks] == IF n = g0 THEN 0 ELSE MCHeight[MCParent[n]] + 1

Legible(entries) == [legible |-> TRUE, entries |-> entries]
Illegible(entries) == [legible |-> FALSE, entries |-> entries]

\* Every order of five blocks, in two files that overlap; the second may be illegible.
Orders == {p \in [1 .. 5 -> {a1, b2, c3, d1, e2}] : ToSet(p) = {a1, b2, c3, d1, e2}}
TwoFiles(p) ==
    {<<Legible(SubSeq(p, 1, 3)), Legible(SubSeq(p, 3, 5))>>,
     <<Legible(SubSeq(p, 1, 3)), Illegible(SubSeq(p, 3, 5))>>}

MCDirectories ==
    UNION {TwoFiles(p) : p \in Orders} \cup
    {<<>>,
     <<Legible(<<a1, b2, c3, d1, e2, f3, h4>>)>>,
     <<Legible(<<a1, d1, e2, f3, b2, h4, c3>>)>>,
     <<Legible(<<a1, x3, e2>>), Legible(<<d1, b2>>)>>,
     <<Legible(<<f3, x3, e2, a1, d1>>)>>,
     <<Legible(<<Zeros, a1, Zeros, b2>>), Legible(<<c3, Zeros>>)>>}

-----------------------------------------------------------------------------
\* Samples of the values of a layout: a plain one, and one for every way to
\* differ from it in one place.
Repeated(v, n) == [i \in 1 .. n |-> v]

PlainInput == [raw |-> <<<<<<1, 2>>, 3>>, <<4>>, 5>>, witness |-> <<>>]
WitnessInput == [raw |-> <<<<<<5, 6>>, 0>>, <<>>, 7>>, witness |-> <<<<>>, <<8>>>>]
PlainTx == [version |-> 1, inputs |-> <<PlainInput>>, outputs |-> <<<<9, <<10>>>>>>, lockTime |-> 0]
TxSamples ==
    {PlainTx,
     [PlainTx EXCEPT !.version = -1],
     [PlainTx EXCEPT !.inputs = <<WitnessInput>>],
     [PlainTx EXCEPT !.inputs = <<PlainInput, WitnessInput>>],
     [PlainTx EXCEPT !.inputs = <<WitnessInput, PlainInput>>, !.outputs = <<>>],
     [PlainTx EXCEPT !.inputs = Repeated(PlainInput, Byte - 3)]}

IpSamples == {[v4 |-> TRUE, octets |-> <<9>>], [v4 |-> FALSE, octets |-> <<1, 0, 0, 2>>]}
PlainIp == [v4 |-> TRUE, octets |-> <<9>>]

PlainVersion(protocol) ==
    SubSeq(<<<<protocol, 1, -2, <<1, PlainIp, 3>>>>, <<<<1, PlainIp, 3>>, 4, <<5>>, 6>>, <<TRUE>>>>,
           1, PartsOf(protocol))

RECURSIVE Plain(_)
Plain(layout) ==
    CASE layout.kind = "uint" -> 2
      [] layout.kind = "int" -> -2
      [] layout.kind = "raw" -> Repeated(3, layout.w)
      [] layout.kind = "bool" -> TRUE
      [] layout.kind = "code" -> 1
      [] layout.kind = "compact" -> 2
      [] layout.kind = "blob" -> <<4>>
      [] layout.kind = "list" -> <<Plain(layout.of)>>
      [] layout.kind = "struct" -> [i \in DOMAIN layout.fields |-> Plain(layout.fields[i])]
      [] layout.kind = "ip" -> PlainIp
      [] layout.kind = "port" -> 3
      [] layout.kind = "zero" -> 0
      [] layout.kind = "tx" -> PlainTx
      [] layout.kind = "version" -> PlainVersion(70014)

RECURSIVE Samples(_)
Samples(layout) ==
    CASE layout.kind = "uint" -> {0, 2, Byte ^ layout.w - 1}
      [] layout.kind = "int" -> {-2, 1, Byte ^ layout.w \div 2 - 1, -(Byte ^ layout.w \div 2)}
      [] layout.kind = "raw" -> {Repeated(3, layout.w)}
      [] layout.kind = "bool" -> BOOLEAN
      [] layout.kind = "code" -> layout.codes
      [] layout.kind = "compact" ->
            {0, Byte - 4, Byte - 3, Byte ^ W16 - 1, Byte ^ W16, Byte ^ W32 - 1, Byte ^ W32}
      [] layout.kind = "blob" -> {<<>>, <<4>>, Repeated(0, Byte - 4), Repeated(15, Byte - 3)}
      [] layout.kind = "list" ->
            {<<>>, Repeated(Plain(layout.of), MaxItems), Repeated(Plain(layout.of), MaxItems + 1)}
            \cup {<<v>> : v \in Samples(layout.of)}
      [] layout.kind = "struct" ->
            {Plain(layout)} \cup
            UNION {{[Plain(layout) EXCEPT ![i] = v] : v \in Samples(layout.fields[i])} :
                      i \in DOMAIN layout.fields}
      [] layout.kind = "ip" -> IpSamples
      [] layout.kind = "port" -> {3, Byte}
      [] layout.kind = "zero" -> {0}
      [] layout.kind = "tx" -> TxSamples
      [] layout.kind = "version" ->
            {PlainVersion(n) : n \in {0, 105, 106, 70000, 70001, 70014}}

\* The protocol versions on both sides of every boundary of the code.
Protocols == {31401, 31402, 60001, 60002, 70000, 70001, 70011, 70012, 70013, 70014}
LastProtocol == 70014

\* A message that is written; an addr always has the times of its entries.
PayloadProbes ==
    UNION {[kind : {"payload"}, command : {c}, protocol : Protocols, flags : BOOLEAN,
            value : {Plain(LayoutOf(c, LastProtocol))}] : c \in Commands}
    \cup
    UNION {[kind : {"payload"}, command : {c}, protocol : {LastProtocol}, flags : BOOLEAN,
            value : Samples(LayoutOf(c, LastProtocol))] : c \in Commands}

\* Two messages one after the other on a connection.
FrameProbes == [kind : {"frames"}, first : {<<>>, <<1>>, Repeated(2, 20)}, second : {<<>>, <<7, 0>>}]

\* Two blocks of a blk file with zeros in between.
BlkProbes ==
    [kind : {"blk"}, gap : {0, 1, 3}, first : [header : {Plain(BlockHeader)}, txs : {<<PlainTx>>}],
     second : [header : Samples(BlockHeader), txs : {<<>>, <<PlainTx, PlainTx>>}]]

NoProbe == [kind |-> "none"]
Probes == PayloadProbes \cup FrameProbes \cup BlkProbes

mcvars == <<vars, probe>>

MCInit == Init /\ probe \in IF directory = <<>> THEN Probes ELSE {NoProbe}

MCNext == Next /\ UNCHANGED probe

MCSpec == MCInit /\ [][MCNext]_mcvars /\ Fairness

-----------------------------------------------------------------------------
\* A probe is looked at once, in its initial state.
Probed(kind) == probe.kind = kind /\ result = "running" /\ crashes = 0

Written(p) == SerializePayload(p.command, p.value, p.protocol, p.flags)
ReadBack(p, bytes) == DeserializePayload(p.command, bytes, p.protocol)

\* A list that read_list_max refuses.
TooLong(p) ==
    \/ p.command \in {"addr", "inv", "getdata", "notfound"} /\ Len(p.value) > MaxItems
    \/ p.command \in {"getblocks", "getheaders"} /\ Len(p.value[2]) > MaxItems

\* Every message is read back as it was written, for each protocol version: without
\* the times of an addr for an old peer, without witnesses unless the stream asks
\* for them, and not at all when it exists only in later versions or has more
\* elements than the receiver takes.
MessagesRoundTrip ==
    Probed("payload") =>
        \A written \in {Written(probe)} :
        \A back \in {ReadBack(probe, IF written.ok THEN written.value ELSE <<>>)} :
            IF Since(probe.command) > probe.protocol
            THEN ~written.ok /\ back = Error("InvalidVersion")
            ELSE IF TooLong(probe) THEN back = Error("MalformedData")
            ELSE /\ back.ok
                 /\ Encode(LayoutOf(probe.command, probe.protocol), back.value, TRUE) = written.value
                 /\ probe.flags =>
                       back.value = AsWritten(probe.command, probe.value, probe.protocol)

\* A payload that was cut off or that has a byte too many is an error, whatever
\* the message: the fields that derive reads consume exactly what was written.
PayloadsAreExact ==
    Probed("payload") /\ ~TooLong(probe) =>
        \A written \in {w \in {Written(probe)} : w.ok} :
        \A n \in 0 .. Len(written.value) + 1 :
            n # Len(written.value) => ~ReadBack(probe, SubSeq(Append(written.value, 0), 1, n)).ok

\* serialized_size, which is computed and not measured, is the length of what
\* serialize writes.
SizesAgree ==
    Probed("payload") /\ probe.protocol = LastProtocol =>
        LET layout == LayoutOf(probe.command, LastProtocol)
        IN  Size(layout, probe.value) = Len(Encode(layout, probe.value, FALSE))

\* A message that differs in one byte is refused or says something else: what is
\* read from it is written as the same bytes, or as fewer when a count was not in
\* its shortest form, and is read from those again; unless a transaction has lost
\* its inputs.  No byte is skipped by the reader.
Changed(bytes, i, byte) == [bytes EXCEPT ![i] = byte]
LosesInputs(command, value) ==
    CASE command = "tx" -> value.inputs = <<>>
      [] command \in {"block", "blocktxn"} ->
            \E i \in DOMAIN value[2] : value[2][i].inputs = <<>>
      [] command = "cmpctblock" -> \E i \in DOMAIN value[4] : value[4][i][2].inputs = <<>>
      [] OTHER -> FALSE
ReadingIsStable ==
    Probed("payload") /\ probe.protocol = LastProtocol /\ probe.flags =>
        \A bytes \in {Written(probe).value} : \A i \in DOMAIN bytes, byte \in {0, 1, Byte - 3} :
        \A changed \in {Changed(bytes, i, byte)} : \A back \in {ReadBack(probe, changed)} :
            back.ok /\ ~LosesInputs(probe.command, back.value) =>
                \A again \in {Encode(LayoutOf(probe.command, LastProtocol), back.value, TRUE)} :
                    /\ ReadBack(probe, again) = back
                    /\ again = changed \/ Len(again) < Len(changed)

\* A message ends where its header says: the next one on the connection is read
\* from its first byte.
FramesSeparate ==
    Probed("frames") =>
        \A first \in {ReadFrame(ToRawMessage(<<1, 2>>, probe.first) \o ToRawMessage(<<3, 4>>, probe.second))} :
            /\ first.ok /\ first.value = [command |-> <<1, 2>>, payload |-> probe.first]
            /\ ReadFrame(first.rest) = Got([command |-> <<3, 4>>, payload |-> probe.second], <<>>)

\* A blk file is read block by block over the zeros between them, and the hashes
\* that are computed while reading are those of from_raw.
InBlk(block) ==
    LET bytes == Encode(Block, <<block.header, block.txs>>, TRUE)
    IN  <<9, 11>> \o LittleEndian(Len(bytes), W32) \o bytes
Indexed(block) ==
    [header |-> [raw |-> block.header, hash |-> BlockHeaderHash(block.header)],
     transactions |-> [i \in DOMAIN block.txs |->
                          [raw |-> block.txs[i], hash |-> TransactionHash(block.txs[i])]]]
BlkBlocksRead ==
    Probed("blk") =>
        \A reads \in {ReadBlkFile(InBlk(probe.first) \o Repeated(0, probe.gap) \o InBlk(probe.second))} :
            /\ \A i \in DOMAIN reads : reads[i].ok
            /\ [i \in DOMAIN reads |-> reads[i].value] = <<Indexed(probe.first), Indexed(probe.second)>>

\* What is written is what is read, for every message, protocol version and blk
\* file: payloads round trip, are exact in length, have the computed size, change
\* when a byte does, and are cut apart where their frames end.
EncodingsAreExact ==
    /\ MessagesRoundTrip /\ PayloadsAreExact /\ SizesAgree
    /\ ReadingIsStable /\ FramesSeparate /\ BlkBlocksRead
=============================================================================
