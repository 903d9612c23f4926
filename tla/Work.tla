-------------------------------- MODULE Work --------------------------------
(* Proof of work: the compact form of a 256 bit target, the target a header  *)
(* must carry, the median of the last timestamps and the subsidy; and        *)
(* version bits, the deployments of soft forks.                              *)
(*                                                                           *)
(* A chain is a sequence of headers [time, bits, ...]; the header of height  *)
(* h is chain[h + 1].  The numbers of the code are scaled: a byte has Byte   *)
(* values instead of 256 and a U256 has Width bytes instead of 32.           *)
EXTENDS Integers, Sequences, FiniteSets

CONSTANTS
    Byte,            \* values of a byte (256)
    Width,           \* bytes of a U256 (32)
    Interval,        \* RETARGETING_INTERVAL (2016)
    Spacing,         \* TARGET_SPACING_SECONDS (600)
    Factor,          \* RETARGETING_FACTOR (4)
    MedianSpan,      \* headers the median time is taken of (11)
    DaaSpan,         \* blocks of the Bitcoin Cash adjustment (144)
    AncientDepth,    \* blocks looked back by REQ-7 (6)
    AncientGap,      \* seconds of REQ-7 (43200)
    TimeWidth,       \* values of a u32 timestamp (2^32)
    Subsidy,         \* reward of the first blocks (50 BTC)
    HalvingInterval  \* blocks between two halvings (210000)

ASSUME WorkAssumption ==
    /\ {Byte, Width, Interval, Spacing, Factor, MedianSpan, DaaSpan, AncientDepth,
        TimeWidth, HalvingInterval} \subseteq Nat \ {0}
    /\ {AncientGap, Subsidy} \subseteq Nat
    /\ Byte % 2 = 0 /\ Width > 3
    /\ AncientDepth + 1 < Interval

Modulus == Byte ^ Width        \* 2^256
Not(x) == Modulus - 1 - x      \* !x
Sign == Byte ^ 3 \div 2        \* 0x00800000

-----------------------------------------------------------------------------
(* The compact form: a size in bytes and a three byte mantissa whose top bit *)
(* is a sign.                                                                *)

Compacts == [size : 0 .. Width + 3, mantissa : 0 .. Byte ^ 3 - 1]

(* to_u256: the value, and whether it is neither negative nor too large. *)
ToU256(c) ==
    LET word == IF c.size <= 3 THEN (c.mantissa % Sign) \div Byte ^ (3 - c.size)
                               ELSE c.mantissa % Sign
        value == IF c.size <= 3 THEN word
                                ELSE (word * Byte ^ (c.size - 3)) % Modulus
        negative == word # 0 /\ c.mantissa >= Sign
        overflow == \/ word # 0 /\ c.size > Width + 2
                    \/ word > Byte - 1 /\ c.size > Width + 1
                    \/ word > Byte ^ 2 - 1 /\ c.size > Width
    IN  [value |-> value, ok |-> ~negative /\ ~overflow]

\* Mutant: the sign bit is not kept clear.
FromU256Signed(v) ==
    LET size == CHOOSE n \in 0 .. Width : v < Byte ^ n /\ (n > 0 => v >= Byte ^ (n - 1))
    IN  [size |-> size,
         mantissa |-> IF size <= 3 THEN v * Byte ^ (3 - size) ELSE v \div Byte ^ (size - 3)]

(* from_u256: the shortest form; a mantissa that would read as negative is   *)
(* moved down by a byte.                                                     *)
FromU256(v) ==
    LET size == CHOOSE n \in 0 .. Width : v < Byte ^ n /\ (n > 0 => v >= Byte ^ (n - 1))
        top == IF size <= 3 THEN v * Byte ^ (3 - size) ELSE v \div Byte ^ (size - 3)
    IN  IF top >= Sign THEN [size |-> size + 1, mantissa |-> top \div Byte]
                       ELSE [size |-> size, mantissa |-> top]

(* U256::from(compact) ignores the verdict. *)
Target(c) == ToU256(c).value

IsValidProofOfWork(maxBits, bits, hash) ==
    /\ ToU256(maxBits).ok
    /\ ToU256(bits).ok
    /\ Target(bits) <= Target(maxBits)
    /\ hash <= Target(bits)

-----------------------------------------------------------------------------
(* Median time. *)

BestNumber(chain) == Len(chain) - 1

(* The entry at position len / 2 of the sorted times of the last MedianSpan  *)
(* headers of the chain; 0 for the empty chain.                              *)
MedianTimestamp(chain) ==
    LET n == Len(chain)
        last == (IF n > MedianSpan THEN n - MedianSpan + 1 ELSE 1) .. n
        half == Cardinality(last) \div 2
        Upto(t) == Cardinality({i \in last : chain[i].time <= t})
        Below(t) == Cardinality({i \in last : chain[i].time < t})
        middle == CHOOSE i \in last : Below(chain[i].time) <= half /\ Upto(chain[i].time) > half
    IN  IF n = 0 THEN 0 ELSE chain[middle].time

-----------------------------------------------------------------------------
(* Required work: chain is what the new header is put on. *)

TargetTimespan == Interval * Spacing
IsRetargetHeight(height) == height % Interval = 0

Clamp(x, low, high) == IF x < low THEN low ELSE IF x > high THEN high ELSE x

RetargetTimespan(retargetTime, lastTime) ==
    Clamp(lastTime - retargetTime, TargetTimespan \div Factor, TargetTimespan * Factor)

(* Every Interval blocks the target follows the time the last ones took. *)
WorkRequiredRetarget(chain, maxBits) ==
    LET parent == chain[Len(chain)]
        first == chain[Len(chain) - Interval + 1]
        scaled == (Target(parent.bits) * RetargetTimespan(first.time, parent.time)) % Modulus
        target == scaled \div TargetTimespan
    IN  IF target > Target(maxBits) THEN maxBits ELSE FromU256(target)

(* On the test network a late block may have the easiest target; the others  *)
(* take the last target that is not such an exception.                       *)
WorkRequiredTestnet(chain, time, maxBits) ==
    LET n == Len(chain)
        back == {i \in 0 .. Interval - 1 : i < n}
        real == {i \in back : chain[n - i].bits # maxBits \/ IsRetargetHeight(n - i - 1)}
    IN  IF time > chain[n].time + 2 * Spacing \/ real = {}
        THEN maxBits
        ELSE chain[n - (CHOOSE i \in real : \A j \in real : i <= j)].bits

-----------------------------------------------------------------------------
(* Bitcoin Cash. *)

(* The middle one, by time, of the header at position n and its two          *)
(* ancestors: three exchanges, that keep the order of equal times in part.   *)
SuitableBlock(chain, n) ==
    LET Later(i, j) == chain[i].time > chain[j].time
        a == IF Later(n - 2, n) THEN <<n, n - 1, n - 2>> ELSE <<n - 2, n - 1, n>>
        b == IF Later(a[1], a[2]) THEN <<a[2], a[1], a[3]>> ELSE a
        c == IF Later(b[2], b[3]) THEN <<b[1], b[3], b[2]>> ELSE b
    IN  c[2]

(* The expected number of hashes behind a target. *)
BlockProof(bits) == Not(Target(bits)) \div (Target(bits) + 1) + 1

(* The work of the headers after `first`, up to `last`.  The loop adds the   *)
(* parent of `last` before it looks for `first`, so with first = last - 1 it *)
(* would run past it; DaaSpan keeps the two apart.                           *)
ComputeWorkBetweenBlocks(chain, first, last) ==
    LET f[i \in first .. last] == IF i = first THEN 0
                                  ELSE (f[i - 1] + BlockProof(chain[i].bits)) % Modulus
    IN  f[last]

(* The release build's subtraction of the two u32 times wraps. *)
ComputeTarget(chain, first, last) ==
    LET work == (ComputeWorkBetweenBlocks(chain, first, last) * Spacing) % Modulus
        span == (chain[last].time - chain[first].time + TimeWidth) % TimeWidth
        actual == Clamp(span, (DaaSpan \div 2) * Spacing, 2 * DaaSpan * Spacing)
        rate == work \div actual
    IN  Not(rate) \div rate

WorkRequiredBitcoinCashAdjusted(p, chain, time) ==
    LET n == Len(chain)
        target == ComputeTarget(chain, SuitableBlock(chain, n - DaaSpan), SuitableBlock(chain, n))
    IN  IF \/ p.network \in {"testnet", "unitest"} /\ time > chain[n].time + 2 * Spacing
           \/ target > p.maxTarget
        THEN FromU256(p.maxTarget) ELSE FromU256(target)

(* REQ-7: a quarter more when the median time moved by AncientGap or more    *)
(* over the last AncientDepth blocks.                                        *)
EmergencyWork(chain, maxBits) ==
    LET n == Len(chain)
        parent == chain[n].bits
        gap == MedianTimestamp(chain) - MedianTimestamp(SubSeq(chain, 1, n - AncientDepth))
        eased == Target(parent) + Target(parent) \div 4
    IN  IF parent = maxBits \/ gap < AncientGap THEN parent
        ELSE FromU256(IF eased > Target(maxBits) THEN Target(maxBits) ELSE eased)

WorkRequiredBitcoinCash(p, chain, time, maxBits) ==
    LET height == Len(chain)
    IN  IF height - 1 >= p.daaHeight THEN WorkRequiredBitcoinCashAdjusted(p, chain, time)
        ELSE IF IsRetargetHeight(height) THEN WorkRequiredRetarget(chain, maxBits)
        ELSE IF p.network = "testnet" THEN WorkRequiredTestnet(chain, time, maxBits)
        ELSE EmergencyWork(chain, maxBits)

(* p.maxTarget is the largest target of the network, a U256. *)
MaxBits(p) == FromU256(p.maxTarget)

WorkRequired(p, chain, time) ==
    LET height == Len(chain)
    IN  IF height = 0 THEN MaxBits(p)
        ELSE IF p.cash /\ height >= p.forkHeight
             THEN WorkRequiredBitcoinCash(p, chain, time, MaxBits(p))
        ELSE IF IsRetargetHeight(height) THEN WorkRequiredRetarget(chain, MaxBits(p))
        ELSE IF p.network = "testnet" THEN WorkRequiredTestnet(chain, time, MaxBits(p))
        ELSE chain[height].bits

BlockReward(height) == Subsidy \div 2 ^ (height \div HalvingInterval)

-----------------------------------------------------------------------------
(* Version bits: the state of a deployment on a chain, computed period by     *)
(* period and cached by the verifier under the deployment's name.             *)
(*                                                                            *)
(* A deployment is [name, start, timeout, activation]; activation is          *)
(* NoActivation or a height.  The cache maps names to an entry: a period's    *)
(* first block and the state computed for it, or NoEntry.  The hash of a      *)
(* block commits to everything below it, so it is the chain up to the block.  *)

NoActivation == -1
NoEntry == [number |-> -1, hash |-> <<>>, state |-> "Defined"]
IsFinal(state) == state \in {"Active", "Failed"}

(* Deployment::matches: the header's version signals the deployment. *)
Matches(d, header) == d.name \in header.version.signals

\* Mutant: periods start a block late.
FirstOfThePeriodShifted(block, window) ==
    IF block < window - 1 THEN 0 ELSE block - (block % window)

FirstOfThePeriod(block, window) ==
    IF block < window - 1 THEN 0 ELSE block - ((block + 1) % window)

CountDeploymentMatches(d, chain, number, window) ==
    Cardinality({i \in 1 .. number + 1 : i > number + 1 - window /\ Matches(d, chain[i])})

(* One step of ThresholdIterator at the block of height `number`. *)
NextThreshold(p, d, chain, number, state) ==
    LET median == MedianTimestamp(SubSeq(chain, 1, number))
    IN  CASE state = "Defined" /\ median >= d.timeout -> "Failed"
          [] state = "Defined" /\ median < d.timeout /\ median >= d.start -> "Started"
          [] state = "Started" /\ median >= d.timeout -> "Failed"
          [] state = "Started" /\ median < d.timeout
               /\ CountDeploymentMatches(d, chain, number, p.window) >= p.threshold -> "LockedIn"
          [] state = "LockedIn" -> "Active"
          [] OTHER -> state

(* ThresholdIterator: the states of the periods from block `from` on, up to   *)
(* the chain's end or a final state.                                          *)
ThresholdIterator(p, d, chain, from, state) ==
    LET count == IF from > BestNumber(chain) THEN 0 ELSE 1 + (BestNumber(chain) - from) \div p.window
        Block(k) == from + (k - 1) * p.window
        f[k \in 0 .. count] == IF k = 0 THEN state
                               ELSE IF IsFinal(f[k - 1]) THEN f[k - 1]
                               ELSE NextThreshold(p, d, chain, Block(k), f[k - 1])
        taken == {k \in 1 .. count : ~IsFinal(f[k - 1])}
    IN  [k \in taken |-> [number |-> Block(k),
                          hash |-> SubSeq(chain, 1, Block(k) + 1),
                          state |-> f[k]]]

(* threshold_state: the state that rules the block to be put on the chain,    *)
(* and the cache after the call.                                              *)
ThresholdState(p, cache, d, chain) ==
    LET number == FirstOfThePeriod(BestNumber(chain), p.window)
        here == SubSeq(chain, 1, number + 1)
        entry == cache[d.name]
        Answer(e) == [state |-> e.state, cache |-> [cache EXCEPT ![d.name] = e]]
        LastOf(items, default) == IF items = <<>> THEN default ELSE items[Len(items)]
    IN  IF d.activation # NoActivation
        THEN [state |-> IF d.activation <= Len(chain) THEN "Active" ELSE "Defined",
              cache |-> cache]
        ELSE IF entry = NoEntry
        THEN Answer(LastOf(ThresholdIterator(p, d, chain, p.window - 1, "Defined"),
                           [number |-> number, hash |-> here, state |-> "Defined"]))
        ELSE IF (entry.number = number /\ entry.hash = here) \/ IsFinal(entry.state)
        THEN [state |-> entry.state, cache |-> cache]
        ELSE Answer(LastOf(ThresholdIterator(p, d, chain, number, entry.state), entry))

(* csv and segwit of BlockDeployments: a deployment the network lacks is      *)
(* never active.                                                              *)
IsActive(p, cache, name, chain) ==
    /\ p.deployments[name].present
    /\ ThresholdState(p, cache, p.deployments[name], chain).state = "Active"

(* The cache after both questions, which is what a verification asks. *)
Asked(p, cache, chain) ==
    LET Ask(c, name) == IF p.deployments[name].present
                        THEN ThresholdState(p, c, p.deployments[name], chain).cache ELSE c
    IN  Ask(Ask(cache, "csv"), "segwit")
=============================================================================
