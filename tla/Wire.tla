-------------------------------- MODULE Wire --------------------------------
(***************************************************************************)
(* The protobuf wire format as the generated marshallers write and read    *)
(* it: varints of seven bits a byte, fields of a number and a wire type,   *)
(* and the skipping of fields a reader does not know.  Bytes are numbers,  *)
(* offsets count from 0 as in the code.  Every error is the same refusal:  *)
(* callers drop the object whatever the error was.                         *)
(*                                                                         *)
(* WordSize and IntSize are how many values a uint64 (and an int) and an   *)
(* int32 have, 2^64 and 2^32 in the code.                                  *)
(***************************************************************************)
EXTENDS Integers, Sequences

CONSTANTS WordSize, IntSize

ASSUME SizesAssumption ==
    /\ IntSize \in Nat /\ 256 <= IntSize /\ IntSize % 2 = 0
    /\ WordSize \in Nat /\ IntSize < WordSize /\ WordSize % IntSize = 0

Byte == 0..255
Bytes == Seq(Byte)
Int32 == -(IntSize \div 2)..(IntSize \div 2 - 1)

\* A pointer: nil, or what it points to.
Pointer(S) == {s \in Seq(S) : Len(s) <= 1}

NotOk == [ok |-> FALSE]

\* Conversions: uint64(v) of a negative int32 extends its sign; int32(u) and
\* int(u) take the low bits as two's complement.
Word(v) == v % WordSize
Signed(v, size) ==
    LET u == v % size IN IF u < size \div 2 THEN u ELSE u - size

-----------------------------------------------------------------------------
(* Writing.  The code fills its buffer from the end; what it writes, read  *)
(* from the front, is the fields in the order of their numbers.            *)

Len64[x \in Nat] == IF x = 0 THEN 0 ELSE 1 + Len64[x \div 2]

sovGenerated(x) == (Len64[IF x = 0 THEN 1 ELSE x] + 6) \div 7

\* The most bytes a word takes.
Groups == sovGenerated(WordSize - 1)

\* Mutant: the bound of one byte is off by one.
EncodeVarintOffByOne(x) ==
    LET varint[v \in Nat] ==
            IF v <= 128 THEN <<v>> ELSE <<(v % 128) + 128>> \o varint[v \div 128]
    IN varint[x]

encodeVarintGenerated(x) ==
    LET varint[v \in Nat] ==
            IF v < 128 THEN <<v>> ELSE <<(v % 128) + 128>> \o varint[v \div 128]
    IN varint[x]

VarintField(tag, v) == <<tag>> \o encodeVarintGenerated(v)
BytesField(tag, bytes) == <<tag>> \o encodeVarintGenerated(Len(bytes)) \o bytes

\* A repeated field, or an optional one.
Each(Op(_), s) == [k \in DOMAIN s |-> Op(s[k])]
BytesFields(tag, encodings) ==
    LET upTo[k \in Nat] ==
            IF k = 0 THEN <<>> ELSE upTo[k - 1] \o BytesField(tag, encodings[k])
    IN upTo[Len(encodings)]

VarintSize(v) == 1 + sovGenerated(v)
BytesSize(l) == 1 + l + sovGenerated(l)
SizesSum(lengths) ==
    LET upTo[k \in Nat] == IF k = 0 THEN 0 ELSE upTo[k - 1] + BytesSize(lengths[k])
    IN upTo[Len(lengths)]

\* A buffer of the computed size, filled from its end, of which as many bytes
\* as were written are returned from its front.  Writing more than the size
\* runs below index 0.
Panic == <<-1>>
Marshal(size, written) ==
    IF Len(written) > size THEN Panic
    ELSE SubSeq([k \in 1..(size - Len(written)) |-> 0] \o written, 1, Len(written))

-----------------------------------------------------------------------------
(* Reading.                                                                *)

\* A byte of a varint above the ones that follow it.
Above(byte, rest) ==
    IF rest.ok THEN [rest EXCEPT !.val = (128 * @) + (byte % 128)] ELSE NotOk

\* The varint at offset i: refused when it runs past the bytes or past the
\* width of a word.
ReadVarint(d, i) ==
    LET group[left \in Nat] ==
            LET at == i + Groups - left
            IN IF left = 0 \/ at >= Len(d) THEN NotOk
               ELSE IF d[at + 1] < 128 THEN [ok |-> TRUE, val |-> d[at + 1], next |-> at + 1]
               ELSE Above(d[at + 1], group[left - 1])
        word(r) == IF r.ok THEN [r EXCEPT !.val = Word(@)] ELSE NotOk
    IN word(group[Groups])

\* Mutant: a length past the end means what there is.
DelimitedByTheEnd(d, r) ==
    LET length == Signed(r.val, WordSize)
        end == Signed(r.next + length, WordSize)
        postIndex == IF end > Len(d) THEN Len(d) ELSE end
    IN IF ~r.ok THEN NotOk
       ELSE IF length < 0 \/ postIndex < 0 THEN NotOk
       ELSE [ok |-> TRUE, val |-> SubSeq(d, r.next + 1, postIndex),
             from |-> r.next, next |-> postIndex]

\* The bytes after their length, which is the varint r.
Delimited(d, r) ==
    LET length == Signed(r.val, WordSize)
        postIndex == Signed(r.next + length, WordSize)
    IN IF ~r.ok THEN NotOk
       ELSE IF length < 0 \/ postIndex < 0 \/ postIndex > Len(d) THEN NotOk
       ELSE [ok |-> TRUE, val |-> SubSeq(d, r.next + 1, postIndex),
             from |-> r.next, next |-> postIndex]

ReadBytes(d, i) == Delimited(d, ReadVarint(d, i))

TagOf(r) ==
    IF ~r.ok THEN NotOk
    ELSE [ok |-> TRUE, next |-> r.next, wire |-> r.val % 8, num |-> Signed(r.val \div 8, IntSize)]
Tag(d, i) == TagOf(ReadVarint(d, i))

\* The offset after the value of a field that is skipped, -1 when refused.
VarintEnd(v) == IF v.ok THEN v.next ELSE -1
BytesEnd(l) ==
    IF l.ok /\ Signed(l.val, WordSize) >= 0
    THEN Signed(l.next + Signed(l.val, WordSize), WordSize)
    ELSE -1
ValueEnd(d, t) ==
    CASE t.wire = 0 -> VarintEnd(ReadVarint(d, t.next))
      [] t.wire = 1 -> t.next + 8
      [] t.wire = 2 -> BytesEnd(ReadVarint(d, t.next))
      [] t.wire \in {3, 4} -> t.next
      [] t.wire = 5 -> t.next + 4
      [] OTHER -> -1

\* The offset after the field at offset i, groups and all; every tag in a
\* group takes at least one of the bytes left.
skipGenerated(d, i) ==
    LET deeper(t) == CASE t.wire = 3 -> 1 [] t.wire = 4 -> -1 [] OTHER -> 0
        skip[left \in Nat] ==
            LET to(end, deep) ==
                    IF deep < 0 \/ end < 0 THEN -1
                    ELSE IF deep = 0 THEN end
                    ELSE skip[left - 1][<<end, deep>>]
                from(t, depth) ==
                    IF t.ok THEN to(ValueEnd(d, t), depth + deeper(t)) ELSE -1
            IN [s \in Nat \X Nat |->  \* at which offset, how deep in groups
                    IF left = 0 \/ s[1] >= Len(d) THEN -1 ELSE from(Tag(d, s[1]), s[2])]
    IN skip[Len(d)][<<i, 0>>]

\* What a field comes to: a member read, or nothing, and where the next starts.
Member(num, d, v) ==
    IF v.ok THEN [ok |-> TRUE, next |-> v.next,
                  members |-> <<[ok |-> TRUE, num |-> num, d |-> d, v |-> v]>>]
    ELSE NotOk
Skipped(end, post) ==
    IF end < 0 \/ end > post THEN NotOk ELSE [ok |-> TRUE, next |-> end, members |-> <<>>]

\* The members that the function field finds from offset i to post, in the order
\* they come; each takes at least one byte.  The last one is NotOk when the bytes
\* are refused.
MembersBy(field, i, post) ==
    LET from[left \in Nat] ==
            LET on(f) == IF f.ok THEN f.members \o from[left - 1][f.next] ELSE <<NotOk>>
            IN [at \in Nat |-> IF at >= post THEN <<>>
                               ELSE IF left = 0 THEN <<NotOk>>
                               ELSE on(field[at])]
    IN from[post][i]

\* The loop of every Unmarshal: the fields of d whose numbers are in the
\* domain of wires, each with the wire type it must have.
FieldAt(d, wires, i) ==
    LET value(t) == IF wires[t.num] = 0 THEN ReadVarint(d, t.next) ELSE ReadBytes(d, t.next)
        field(t) ==
            IF ~t.ok THEN NotOk
            ELSE IF t.wire = 4 \/ t.num <= 0 THEN NotOk
            ELSE IF t.num \notin DOMAIN wires THEN Skipped(skipGenerated(d, i), Len(d))
            ELSE IF t.wire # wires[t.num] THEN NotOk
            ELSE Member(t.num, d, value(t))
    IN field(Tag(d, i))
Fields(d, wires) == MembersBy([i \in Nat |-> FieldAt(d, wires, i)], 0, Len(d))

\* Every field set on the message in turn; refused once one is.
SetOne(Set(_, _), m, f) == IF m = NotOk \/ ~f.ok THEN NotOk ELSE Set(m, f)
SetAll(Set(_, _), m, fields) ==
    LET after[k \in Nat] == IF k = 0 THEN m ELSE SetOne(Set, after[k - 1], fields[k])
    IN after[Len(fields)]

\* The message with the nested message just read, as a member or an item.
With(m, name, nested) == IF nested = NotOk THEN NotOk ELSE [m EXCEPT ![name] = nested]
WithPointer(m, name, nested) ==
    IF nested = NotOk THEN NotOk ELSE [m EXCEPT ![name] = <<nested>>]
WithItem(m, nested) ==
    IF nested = NotOk THEN NotOk ELSE [m EXCEPT !.Items = Append(@, nested)]
=============================================================================
