-------------------------------- MODULE Octets --------------------------------
(***************************************************************************)
(* Byte strings, as rovs-openflow reads and writes them: big-endian        *)
(* numbers, slices, padding, and fixed layouts.  A number is an integer of *)
(* magnitude below 2^24, whatever its width; a negative one stands for its *)
(* two's complement (OFPP_CONTROLLER is -3, a mask of ones is -1).         *)
(***************************************************************************)
EXTENDS Integers, SequencesExt, FiniteSetsExt

(* to_be_bytes of a number of n bytes, from_be_bytes.                      *)
BE(v, n) == [i \in 1..n |-> LET k == n - i IN
                IF k > 2 THEN (IF v < 0 THEN 255 ELSE 0) ELSE (v \div 256^k) % 256]

Value(b) ==
    LET n == Len(b)
        at(k) == IF k < n THEN b[n - k] * 256^k ELSE 0
        low == at(0) + at(1) + at(2)
    IN  IF n > 3 /\ b[1] = 255 THEN low - 256^3 ELSE low

Zeros(n) == [i \in 1..n |-> 0]
Pad8(n)   == (-n) % 8               \* bytes to the next multiple of 8
Padded(b) == b \o Zeros(Pad8(Len(b)))

(* data[from..to], data[from..], and the number of n bytes at from.        *)
Slice(data, from, to) == SubSeq(data, from + 1, to)
Rest(data, from)      == SubSeq(data, from + 1, Len(data))
At(data, from, n)     == Value(Slice(data, from, from + n))

(* A set of bit numbers as a number, and back.                             *)
FromBits(S)  == MapThenSumSet(LAMBDA b : 2^b, S)
ToBits(v, n) == {b \in 0..n-1 : (v \div 2^b) % 2 = 1}

(* A layout is a sequence of <<name, width>>, numbers, or <<name, width,   *)
(* "octets">>, byte strings; the name "" stands for padding.               *)
Width(lay)  == FoldLeft(LAMBDA n, f : n + f[2], 0, lay)
Names(lay)  == {lay[i][1] : i \in DOMAIN lay} \ {""}

Pack(lay, r) ==
    FlattenSeq([i \in DOMAIN lay |->
        LET f == lay[i] IN
        IF f[1] = "" THEN Zeros(f[2])
        ELSE IF Len(f) = 3 THEN r[f[1]] ELSE BE(r[f[1]], f[2])])

Unpack(lay, data) ==
    [x \in Names(lay) |->
        LET i == CHOOSE j \in DOMAIN lay : lay[j][1] = x
            o == Width(SubSeq(lay, 1, i - 1))
            b == Slice(data, o, o + lay[i][2])
        IN  IF Len(lay[i]) = 3 THEN b ELSE Value(b)]

(* The maps over a sequence that Rust code writes as for loops.            *)
Each(Op(_), s)   == [i \in DOMAIN s |-> Op(s[i])]
Concat(Op(_), s) == FlattenSeq(Each(Op, s))

(* The items of a byte string: Size(data, o) is the length of the item at  *)
(* offset o, 0 where the loop that reads them stops.  Tails are the items  *)
(* with all that follows: what a decoder that looks for the length by      *)
(* itself is given.                                                        *)
Offsets(data, Size(_, _)) ==
    LET from[o \in 0..Len(data)] ==
            LET n == Size(data, o) IN IF n = 0 THEN <<>> ELSE <<o>> \o from[o + n]
    IN  from[0]
Items(data, Size(_, _)) ==
    Each(LAMBDA o : Slice(data, o, o + Size(data, o)), Offsets(data, Size))
Tails(data, Size(_, _)) == Each(LAMBDA o : Rest(data, o), Offsets(data, Size))

(* What a decoder gives that fails: Err, or the panic of a slice that ends *)
(* before it starts.  A loop of decoders ends with the first failure.      *)
Bad   == [type |-> "Err"]
Panic == [type |-> "panic"]
Failures == {Bad, Panic}
UntilFailure(s) ==
    LET failed == {i \in DOMAIN s : s[i] \in Failures} IN
    IF failed = {} THEN s ELSE <<s[Min(failed)]>>
Failed(s) == s # <<>> /\ s[1] \in Failures
===============================================================================
