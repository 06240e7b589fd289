----------------------------- MODULE Collectives -----------------------------
(***************************************************************************)
(* The data exchanges of a gang: psim_shuffle_sync with one and with two   *)
(* operands, psim_zip_sync and psim_unzip_sync, as                         *)
(* TransformStep::transformCallPsimApi replaces them with LLVM vector      *)
(* instructions on a little-endian machine.                                *)
(*                                                                         *)
(* A vector is a sequence of elements, an element a sequence of bytes,     *)
(* least significant first.  Bytes are symbols: the byte an operand had at *)
(* the start, a zero, or the sign of another byte.                         *)
(***************************************************************************)
EXTENDS Integers, Sequences

CONSTANTS
    GangSizes, \* num_lanes
    Widths,    \* bytes of the operand's type
    Types,     \* result types of a shuffle: [width, unsigned]
    Patterns,  \* gang size -> the shuffle patterns to consider, an index
               \* (an int) per lane
    IndexWrap, \* 2^32
    MaxCalls   \* bound on the calls in a row

ASSUME CollectivesAssumption ==
    /\ GangSizes \subseteq Nat \ {0}
    /\ Widths \subseteq Nat \ {0}
    /\ \A t \in Types : t.width \in Nat \ {0} /\ t.unsigned \in BOOLEAN
    /\ IndexWrap \in Nat
    /\ \A n \in GangSizes :
          /\ 2 * n < IndexWrap
          /\ \A p \in Patterns[n] :
                /\ p \in [1..n -> Int]
                \* each is an int
                /\ \A lane \in 1..n : -IndexWrap <= 2 * p[lane] /\ 2 * p[lane] < IndexWrap
    /\ MaxCalls \in Nat

VARIABLES
    numLanes,     \* the gang's size
    value, other, \* the operands of the next call
    calls         \* the calls made so far: [api, a, b, with, ret]

callVars == <<numLanes, value, other, calls>>

-----------------------------------------------------------------------------
(* Vectors *)

Zero == <<"zero">>
Byte(operand, lane, i) == <<operand, lane, i>>
\* What a sign extension fills with: zeroes for a zero, and the same fill
\* again for a fill.
SignOf(byte) == IF Len(byte) = 3 THEN <<"sign", byte>> ELSE byte

Repeat(byte, n) == [i \in 1..n |-> byte]

Operand(name, n, width) ==
    [lane \in 1..n |-> [i \in 1..width |-> Byte(name, lane, i)]]

WidthOf(v) == Len(v[1])

ZeroVector(n, width) == Repeat(Repeat(Zero, width), n)

\* CreateBitCast: the same bytes cut into elements of another width.
BitCast(v, width) ==
    LET w == WidthOf(v)
        byte(j) == v[(j \div w) + 1][(j % w) + 1]
    IN  [e \in 1..((Len(v) * w) \div width) |->
            [i \in 1..width |-> byte((e - 1) * width + i - 1)]]

\* CreateShuffleVector: mask positions count from 0 across both operands.
ShuffleVector(v, w, mask) ==
    [e \in 1..Len(mask) |->
        IF mask[e] < Len(v) THEN v[mask[e] + 1] ELSE w[mask[e] - Len(v) + 1]]

Trunc(v, width) == [e \in 1..Len(v) |-> [i \in 1..width |-> v[e][i]]]
ZExt(v, width) ==
    [e \in 1..Len(v) |->
        [i \in 1..width |-> IF i <= WidthOf(v) THEN v[e][i] ELSE Zero]]
SExt(v, width) ==
    [e \in 1..Len(v) |->
        [i \in 1..width |->
            IF i <= WidthOf(v) THEN v[e][i] ELSE SignOf(v[e][WidthOf(v)])]]

\* What a call that trips an assertion, or builds an invalid instruction,
\* returns.
Abort == << >>

-----------------------------------------------------------------------------
(* Zip and unzip *)

\* a's lanes, factor at a time, in as many copies as fill the register.
ZipSyncPadded(v, width) ==
    LET zipped == BitCast(v, width)
    IN zipped \o ZeroVector(numLanes - Len(zipped), width)
ZipSync(v, width) ==
    LET factor == width \div WidthOf(v)
        zipped == BitCast(v, width)
    IN [i \in 1..(factor * Len(zipped)) |-> zipped[((i - 1) % Len(zipped)) + 1]]

UnzipStartUnscaled(index, n, factor) == index
UnzipStart(index, n, factor) == (index * n) \div factor

UnzipSync(v, width, index) ==
    LET factor == WidthOf(v) \div width
        start == UnzipStart(index, numLanes, factor)
    IN BitCast([e \in 1..(numLanes \div factor) |-> v[start + e]], width)

-----------------------------------------------------------------------------
(* Shuffle *)

\* The lane's index as the 64-bit number its 32-bit shape evaluates to.
ValueAtLane(pattern, lane) == pattern[lane] % IndexWrap

\* vidxs: an index in range is used, for another one element lane of the
\* second operand is.
MaskIndexOfFirst(pattern, lane, operands) ==
    LET index == ValueAtLane(pattern, lane)
    IN IF index < numLanes THEN index ELSE numLanes + lane - 1
MaskIndex(pattern, lane, operands) ==
    LET index == ValueAtLane(pattern, lane)
    IN IF index < numLanes * operands THEN index ELSE numLanes + lane - 1

\* new_indices: the element, then zeroes up to the result's width.
WidenIndexClamped(pattern, lane) ==
    LET index == ValueAtLane(pattern, lane)
    IN IF index >= IndexWrap - 1 THEN 0 ELSE index
WidenIndex(pattern, lane) ==
    LET index == ValueAtLane(pattern, lane)
    IN IF index >= IndexWrap - 1 THEN numLanes ELSE index

WidenMask(pattern, ratio) ==
    [i \in 1..(numLanes * ratio) |->
        IF (i - 1) % ratio = 0 THEN WidenIndex(pattern, ((i - 1) \div ratio) + 1)
        ELSE numLanes]

WidensByShuffle(v, type) ==
    type.unsigned /\ type.width > WidthOf(v) /\ type.width % WidthOf(v) = 0

\* The zero extension that is part of the shuffle.  It reads a and a vector
\* of zeroes only; its masks are as long as the gang, and end with a lane.
Widen(v, pattern, type) ==
    LET ratio == type.width \div WidthOf(v)
        mask == WidenMask(pattern, ratio)
    IN IF numLanes % ratio = 0 /\ \A i \in 1..Len(mask) : mask[i] < 2 * numLanes
       THEN BitCast(ShuffleVector(v, ZeroVector(numLanes, WidthOf(v)), mask),
                    type.width)
       ELSE Abort

Resize(v, type) ==
    IF type.width = WidthOf(v) THEN v
    ELSE IF type.width < WidthOf(v) THEN Trunc(v, type.width)
    ELSE IF type.unsigned THEN ZExt(v, type.width)
    ELSE SExt(v, type.width)

ShuffleSync(v, w, pattern, operands, type) ==
    IF WidensByShuffle(v, type) THEN Widen(v, pattern, type)
    ELSE Resize(ShuffleVector(v, w, [lane \in 1..numLanes |->
                                        MaskIndex(pattern, lane, operands)]),
                type)

-----------------------------------------------------------------------------
(* A gang that calls one after the other, each on the last one's result *)

NoCalls ==
    /\ numLanes \in GangSizes
    /\ \E width \in Widths :
          /\ value = Operand("a", numLanes, width)
          /\ other = Operand("b", numLanes, width)
    /\ calls = << >>

Called(api, with, ret) ==
    /\ calls' = Append(calls, [api |-> api, a |-> value, b |-> other, with |-> with,
                               ret |-> ret])
    /\ IF ret = Abort THEN UNCHANGED <<value, other>>
       ELSE value' = ret /\ other' = Operand("c", numLanes, WidthOf(ret))
    /\ UNCHANGED numLanes

MayCall == Len(calls) < MaxCalls /\ (calls # << >> => calls[Len(calls)].ret # Abort)

\* The assertions on the factor are documented requirements of the caller.
CallZip(width) ==
    /\ MayCall
    /\ width > WidthOf(value)
    /\ width % WidthOf(value) = 0
    /\ numLanes % (width \div WidthOf(value)) = 0
    /\ Called("zip", [width |-> width], ZipSync(value, width))

CallUnzip(width, index) ==
    /\ MayCall
    /\ width < WidthOf(value)
    /\ WidthOf(value) % width = 0
    /\ numLanes % (WidthOf(value) \div width) = 0
    /\ index < WidthOf(value) \div width
    /\ Called("unzip", [width |-> width, index |-> index],
              UnzipSync(value, width, index))

CallShuffle(pattern, type) ==
    /\ MayCall
    /\ Called("shuffle", [pattern |-> pattern, type |-> type],
              ShuffleSync(value, ZeroVector(numLanes, WidthOf(value)), pattern, 1, type))

CallShuffle2(pattern, type) ==
    /\ MayCall
    /\ Called("shuffle2", [pattern |-> pattern, type |-> type],
              ShuffleSync(value, other, pattern, 2, type))

NoMoreCalls == ~MayCall /\ UNCHANGED callVars

Call ==
    \/ \E width \in Widths : CallZip(width)
    \/ \E width \in Widths, index \in 0..3 : CallUnzip(width, index)
    \/ \E p \in Patterns[numLanes], t \in Types : CallShuffle(p, t)
    \/ \E p \in Patterns[numLanes], t \in Types : CallShuffle2(p, t)
    \/ NoMoreCalls

CallsSpec == NoCalls /\ [][Call]_callVars

-----------------------------------------------------------------------------
(* Properties *)

CallsOf(api) == {calls[k] : k \in {j \in 1..Len(calls) : calls[j].api = api}}

\* The index selects a set of lanes, and the pieces of each of their elements
\* go to as many consecutive lanes (src/compiler/README.md:138-140).
Pieces(element, width) == BitCast(<<element>>, width)
FirstOfSet(c) == (c.with.index * numLanes) \div (WidthOf(c.a) \div c.with.width)
UnzipTakesItsSet ==
    \A c \in CallsOf("unzip") :
        LET f == WidthOf(c.a) \div c.with.width
        IN \A j \in 0..((numLanes \div f) - 1) :
              {c.ret[f * j + k] : k \in 1..f} =
                  {Pieces(c.a[FirstOfSet(c) + j + 1], c.with.width)[k] : k \in 1..f}

\* What README.md:140 says of their order: the first of these lanes gets the
\* most significant piece, the last one the least significant.
UnzipMostSignificantFirst ==
    \A c \in CallsOf("unzip") :
        LET f == WidthOf(c.a) \div c.with.width
        IN \A j \in 0..((numLanes \div f) - 1), k \in 1..f :
              c.ret[f * j + k] = Pieces(c.a[FirstOfSet(c) + j + 1], c.with.width)[f + 1 - k]

\* Unzipping what was zipped gives every lane its own value back, whichever
\* copy the index selects (tests/zip_unzip.cpp:42-43,54-59).
UnzipUndoesZip ==
    \A k \in 1..(Len(calls) - 1) :
        /\ calls[k].api = "zip"
        /\ calls[k + 1].api = "unzip"
        /\ calls[k + 1].with.width = WidthOf(calls[k].a)
        => calls[k + 1].ret = calls[k].a

InRange(c, lane, operands) ==
    c.with.pattern[lane] \in 0..(numLanes * operands - 1)

\* The element a lane of a shuffle asks for, in the result's type.
AskedFor(c, lane, operands) ==
    IF InRange(c, lane, operands)
    THEN Resize(<<(c.a \o c.b)[c.with.pattern[lane] + 1]>>, c.with.type)[1]
    ELSE Repeat(Zero, c.with.type.width)

\* A shuffle that compiles gives each lane the value of the lane it names,
\* and zero when there is none (README.md:120-122), whether the result is
\* wider, narrower or built from bytes and zeroes.
OneOperandShuffle ==
    \A c \in CallsOf("shuffle") :
        c.ret # Abort =>
            \A lane \in 1..numLanes : c.ret[lane] = AskedFor(c, lane, 1)

\* A two-operand shuffle reads the concatenation of its operands
\* (README.md:128), for indices in range and results that the shuffle does
\* not widen.
TwoOperandShuffle ==
    \A c \in CallsOf("shuffle2") :
        ~WidensByShuffle(c.a, c.with.type) =>
            \A lane \in 1..numLanes :
                InRange(c, lane, 2) => c.ret[lane] = AskedFor(c, lane, 2)
=============================================================================
