--------------------------- MODULE CdrCodecProofs ---------------------------
(***************************************************************************)
(* For every set of messages and of types, nested to any depth: the state  *)
(* of a conversion has its types, and nothing is written or read outside   *)
(* the buffer; and the pass that writes needs exactly the bytes that the   *)
(* pass before it counted.  The arithmetic of one call is in the lemmas,   *)
(* stated for the four widths; the items a member unfolds into are in the  *)
(* others.                                                                 *)
(***************************************************************************)
EXTENDS CdrCodec, SequenceTheorems, TLAPS

\* A sequence made of another one, and one put before another.
LEMMA MapIsSeq ==
  ASSUME NEW S, NEW n \in Nat, NEW g \in [1..n -> S]
  PROVE  g \in Seq(S)
BY SMT

LEMMA JoinIsSeq ==
  ASSUME NEW S, NEW s \in Seq(S), NEW r \in Seq(S)
  PROVE  s \o r \in Seq(S)
BY SMT

LEMMA OneIsSeq ==
  ASSUME NEW S, NEW x \in S
  PROVE  <<x>> \in Seq(S)
BY SMT

LEMMA RestIsSeq ==
  ASSUME NEW S, NEW s \in Seq(S), s # <<>>
  PROVE  Head(s) \in S /\ Tail(s) \in Seq(S)
BY SMT

\* The padding of a call.
LEMMA PaddingIsNat ==
  ASSUME off \in Nat, NEW w \in Widths
  PROVE  Aligned(w) \in Nat /\ Aligned(w) >= off
<1>1. CASE w = 1
  BY <1>1, SMT DEF Aligned, Padding
<1>2. CASE w = 2
  BY <1>2, SMT DEF Aligned, Padding
<1>3. CASE w = 4
  BY <1>3, SMT DEF Aligned, Padding
<1>4. CASE w = 8
  BY <1>4, SMT DEF Aligned, Padding
<1> QED
  BY <1>1, <1>2, <1>3, <1>4 DEF Widths

\* A call on n elements leaves the cursor at a natural number, and within the
\* buffer if it tested it against the end.
LEMMA CursorIsNat ==
  ASSUME off \in Nat, NEW w \in Widths, NEW n \in Nat
  PROVE  Aligned(w) + w * n \in Nat
<1>1. Aligned(w) \in Nat
  BY PaddingIsNat
<1>2. w \in Nat
  BY SMT DEF Widths
<1>3. w * n \in Nat
  BY <1>2, SMT
<1> QED
  BY <1>1, <1>3, SMT

\* The j-th byte of n elements of w bytes lies in one of them.
LEMMA ByteOfElement ==
  ASSUME NEW w \in Widths, NEW n \in Nat, NEW j \in Int, j >= 0, j < w * n
  PROVE  /\ (j \div w) + 1 \in 1..n
         /\ (j % w) + 1 \in 1..w
         /\ w + 1 - ((j % w) + 1) \in 1..w
<1>1. CASE w = 1
  BY <1>1, SMT
<1>2. CASE w = 2
  BY <1>2, SMT
<1>3. CASE w = 4
  BY <1>3, SMT
<1>4. CASE w = 8
  BY <1>4, SMT
<1> QED
  BY <1>1, <1>2, <1>3, <1>4 DEF Widths

LEMMA PlaceInElement ==
  ASSUME NEW order, NEW w \in Widths, NEW k \in 1..w
  PROVE  Place(order, w, k) \in 1..w
BY SMT DEF Place, Widths

\* What is written are bytes.
LEMMA WrittenIsBytes ==
  ASSUME off \in Nat, size \in Nat, buf \in [1..size -> Byte],
         NEW w \in Widths, NEW vals \in Seq(Value(w))
  PROVE  Written(w, vals) \in [1..size -> Byte]
<1> SUFFICES ASSUME NEW i \in 1..size
             PROVE  Written(w, vals)[i] \in Byte
  BY DEF Written
<1> DEFINE j == i - 1 - Aligned(w)
<1>1. j \in Int
  BY PaddingIsNat, SMT
<1>2. Len(vals) \in Nat
  BY SMT
<1>3. CASE j >= 0 /\ j < w * Len(vals)
  <2> DEFINE e == (j \div w) + 1
             b == Place(writer.order, w, (j % w) + 1)
  <2>1. e \in 1..Len(vals) /\ (j % w) + 1 \in 1..w
    BY <1>1, <1>2, <1>3, ByteOfElement
  <2>2. b \in 1..w
    BY <2>1, PlaceInElement
  <2>3. vals[e] \in Value(w)
    BY <2>1, SMT
  <2>4. vals[e][b] \in Byte
    BY <2>2, <2>3 DEF Value
  <2>5. Written(w, vals)[i] = vals[e][b]
    BY <1>3 DEF Written
  <2> QED
    BY <2>4, <2>5
<1>4. CASE ~(j >= 0 /\ j < w * Len(vals))
  BY <1>4 DEF Written
<1> QED
  BY <1>3, <1>4

\* What is read are values of the width that is read.
LEMMA FoundIsValues ==
  ASSUME size \in Nat, buf \in [1..size -> Byte], NEW w \in Nat, NEW n \in Nat
  PROVE  Found(w, n) \in [1..n -> Value(w)]
<1>1. ASSUME NEW i PROVE ByteAt(i) \in Byte
  <2>1. CASE i \in 1..size
    BY <2>1 DEF ByteAt
  <2>2. CASE i \notin 1..size
    <3>1. ByteAt(i) = 0
      BY <2>2 DEF ByteAt
    <3> QED
      BY <3>1, SMT DEF Byte
  <2> QED
    BY <2>1, <2>2
<1> QED
  BY <1>1 DEF Found, Value

LEMMA BswapIsValue ==
  ASSUME NEW w \in Nat, NEW v \in Value(w)
  PROVE  Bswap(v) \in Value(w)
BY SMT DEF Bswap, Value

LEMMA LoadedIsValues ==
  ASSUME size \in Nat, buf \in [1..size -> Byte], NEW w \in Nat, NEW n \in Nat
  PROVE  Loaded(w, n) \in [1..n -> Value(w)]
<1>1. \A i \in 1..n : Found(w, n)[i] \in Value(w)
  BY FoundIsValues
<1>2. \A i \in 1..n : Bswap(Found(w, n)[i]) \in Value(w)
  BY <1>1, BswapIsValue
<1> QED
  BY <1>1, <1>2 DEF Loaded

LEMMA CountIsNat ==
  ASSUME size \in Nat, buf \in [1..size -> Byte]
  PROVE  CountOf(Loaded(4, 1)[1]) \in Nat
<1>1. Loaded(4, 1)[1] \in Value(4)
  BY LoadedIsValues
<1> DEFINE v == Loaded(4, 1)[1]
<1>2. v \in [1..4 -> 0..255]
  BY <1>1 DEF Value, Byte
<1> HIDE DEF v
<1>3. v[3] \in 0..255 /\ v[4] \in 0..255
  BY <1>2
<1>4. 256 * v[3] + v[4] \in Nat
  <2>1. \A a, b \in 0..255 : 256 * a + b \in Nat
    BY SMT
  <2> QED
    BY <1>3, <2>1
<1>5. TooMany \in Nat
  BY SMT DEF TooMany
<1>6. CountOf(v) \in Nat
  BY <1>4, <1>5, Zenon DEF CountOf
<1> QED
  BY <1>6 DEF v

-----------------------------------------------------------------------------
(* The entries of a work list.                                             *)

LEMMA FieldParts ==
  ASSUME NEW f \in Fields
  PROVE  /\ f.type \in Types /\ f.type.kind \in Kinds
         /\ f.elems \in Seq(ElementsOf(f.type.kind))
         /\ Len(f.elems) \in Nat
         /\ DOMAIN f.elems = 1..Len(f.elems)
<1>1. f.type \in Types /\ f.elems \in Seq(ElementsOf(f.type.kind))
  BY CdrAssumption
<1> QED
  BY <1>1, CdrAssumption, SMT

LEMMA PutIsItem ==
  ASSUME NEW w \in Widths, NEW vals \in Seq(Value(w))
  PROVE  Put(w, vals) \in Items
<1>1. Put(w, vals) \in PutItems(w)
  BY DEF Put, PutItems
<1>2. CASE w = 1
  BY <1>1, <1>2 DEF Items
<1>3. CASE w = 2
  BY <1>1, <1>3 DEF Items
<1>4. CASE w = 4
  BY <1>1, <1>4 DEF Items
<1>5. CASE w = 8
  BY <1>1, <1>5 DEF Items
<1> QED
  BY <1>2, <1>3, <1>4, <1>5 DEF Widths

\* One value, in particular a count.
LEMMA PutOneIsItem ==
  ASSUME NEW w \in Widths, NEW v \in Value(w)
  PROVE  Put(w, <<v>>) \in Items
BY OneIsSeq, PutIsItem

LEMMA U32IsValue ==
  ASSUME NEW n \in Nat
  PROVE  U32(n) \in Value(4)
<1>1. (n \div 256) % 256 \in Byte /\ n % 256 \in Byte /\ 0 \in Byte
  BY SMT DEF Byte
<1>2. \A a, b, c, d \in Byte : <<a, b, c, d>> \in [1..4 -> Byte]
  BY SMT
<1> QED
  BY <1>1, <1>2 DEF U32, Value

LEMMA PutCountIsItem ==
  ASSUME NEW n \in Nat
  PROVE  Put(4, <<U32(n)>>) \in Items
BY U32IsValue, PutOneIsItem DEF Widths

LEMMA CountedAreItems ==
  ASSUME NEW f \in Fields, NEW items \in Seq(Items)
  PROVE  Counted(f, items) \in Seq(Items)
<1>1. Put(4, <<U32(Len(f.elems))>>) \in Items
  BY FieldParts, PutCountIsItem
<1>2. <<Put(4, <<U32(Len(f.elems))>>)>> \o items \in Seq(Items)
  BY <1>1, OneIsSeq, JoinIsSeq
<1> QED
  BY <1>2 DEF Counted

LEMMA FieldItemsAreItems ==
  ASSUME NEW fields \in Seq(Fields)
  PROVE  FieldItems(fields) \in Seq(Items)
<1>1. Len(fields) \in Nat /\ DOMAIN fields = 1..Len(fields)
  BY SMT
<1>2. \A i \in 1..Len(fields) : FieldItem(fields[i]) \in Items
  BY <1>1, SMT DEF FieldItem, Items
<1>3. FieldItems(fields) \in [1..Len(fields) -> Items]
  BY <1>1, <1>2 DEF FieldItems
<1> QED
  BY <1>1, <1>3, MapIsSeq

LEMMA MemberItemsAreItems ==
  ASSUME NEW types \in Seq(Types)
  PROVE  MemberItems(types) \in Seq(Items)
<1>1. Len(types) \in Nat /\ DOMAIN types = 1..Len(types)
  BY SMT
<1>2. \A i \in 1..Len(types) : MemberItem(types[i]) \in Items
  BY <1>1, SMT DEF MemberItem, Items
<1>3. MemberItems(types) \in [1..Len(types) -> Items]
  BY <1>1, <1>2 DEF MemberItems
<1> QED
  BY <1>1, <1>3, MapIsSeq

LEMMA SerializedAreItems ==
  ASSUME NEW fields \in Seq(Fields)
  PROVE  Serialized(fields) \in Seq(Items)
<1>1. <<>> \in Seq(Value(4))
  BY SMT
<1>2. Put(4, <<>>) \in Items
  BY <1>1, PutIsItem DEF Widths
<1> QED
  BY <1>2, OneIsSeq, FieldItemsAreItems, JoinIsSeq DEF Serialized

LEMMA PrologueIsItems ==
  ASSUME NEW map
  PROVE  Prologue(map) \in Seq(Items)
<1>1. [k \in 1..8 |-> 1] \in Value(8) /\ <<0>> \in Value(1)
  BY SMT DEF Value, Byte
<1>2. Put(8, <<[k \in 1..8 |-> 1]>>) \in Items /\ Put(1, << <<0>> >>) \in Items
  BY <1>1, PutOneIsItem DEF Widths
<1>3. Put(4, <<U32(1)>>) \in Items /\ Put(4, <<U32(0)>>) \in Items
  BY PutCountIsItem
<1> DEFINE gid == [i \in 1..2 |-> Put(8, <<[k \in 1..8 |-> 1]>>)]
           number == [i \in 1..2 |-> Put(4, <<U32(1)>>)]
           name == <<Put(4, <<U32(1)>>), Put(1, << <<0>> >>)>>
           error == <<Put(4, <<U32(0)>>)>>
<1>4. gid \in Seq(Items) /\ number \in Seq(Items)
  BY <1>2, <1>3, MapIsSeq
<1>5. name \in Seq(Items)
  <2>1. \A a, b \in Items : <<a, b>> \in Seq(Items)
    BY SMT
  <2> QED
    BY <2>1, <1>2, <1>3
<1>6. error \in Seq(Items) /\ <<>> \in Seq(Items)
  BY <1>3, OneIsSeq, SMT
<1> HIDE DEF gid, number, name, error
<1>7. gid \o number \in Seq(Items)
  BY <1>4, JoinIsSeq
<1>8. (gid \o number) \o name \in Seq(Items) /\ (gid \o number) \o error \in Seq(Items)
  BY <1>5, <1>6, <1>7, JoinIsSeq
<1>9. Prologue(map) \in {<<>>, (gid \o number) \o name, (gid \o number) \o error}
  BY DEF Prologue, gid, number, name, error
<1> QED
  BY <1>6, <1>8, <1>9

\* The calls a field unfolds into, kind by kind.
LEMMA WidthValues ==
  /\ Width["boolean"] = 1 /\ Width["string"] = 1
  /\ Width["wchar"] = 2 /\ Width["wstring"] = 2
  /\ \A k \in Kinds \ {"message"} : Width[k] \in Widths
BY DEF Width, Widths, Kinds, Primitives, Texts

LEMMA ValueElements ==
  ASSUME NEW f \in Fields, f.type.kind \in Primitives \cup {"boolean", "wchar"}
  PROVE  f.elems \in Seq(Value(Width[f.type.kind]))
<1>1. f.type.kind # "message" /\ f.type.kind \notin Texts
  BY DEF Primitives, Texts
<1> QED
  BY <1>1, FieldParts DEF ElementsOf

LEMMA BooleanCallsAreItems ==
  ASSUME NEW f \in Fields, f.type.kind = "boolean"
  PROVE  BooleanCalls(f) \in Seq(Items)
<1>1. f.elems \in Seq(Value(1))
  BY ValueElements, WidthValues
<1>2. \A i \in 1..Len(f.elems) : f.elems[i] \in Value(1)
  BY <1>1, SMT
<1>3. \A i \in 1..Len(f.elems) : Put(1, <<f.elems[i]>>) \in Items
  BY <1>2, PutOneIsItem DEF Widths
<1>4. [i \in DOMAIN f.elems |-> Put(1, <<f.elems[i]>>)] \in Seq(Items)
  BY <1>3, FieldParts, MapIsSeq
<1> QED
  BY <1>4, CountedAreItems DEF BooleanCalls

LEMMA PrimitiveCallsAreItems ==
  ASSUME NEW f \in Fields, f.type.kind \in Primitives
  PROVE  PrimitiveCalls(f) \in Seq(Items)
<1> DEFINE w == Width[f.type.kind]
<1>1. w \in Widths
  BY WidthValues DEF Kinds, Primitives
<1>2. f.elems \in Seq(Value(w))
  BY ValueElements
<1>3. Put(w, f.elems) \in Items
  BY <1>1, <1>2, PutIsItem
<1>4. <<Put(w, f.elems)>> \in Seq(Items) /\ <<>> \in Seq(Items)
  BY <1>3, OneIsSeq, SMT
<1> QED
  BY <1>4, CountedAreItems DEF PrimitiveCalls

LEMMA WcharCallsAreItems ==
  ASSUME NEW f \in Fields, f.type.kind = "wchar"
  PROVE  WcharCalls(f) \in Seq(Items)
<1>1. f.elems \in Seq(Value(2))
  BY ValueElements, WidthValues
<1> DEFINE wide(v) == Put(4, << <<0, 0, v[1], v[2]>> >>)
           narrow(v) == Put(2, <<v>>)
           call(v) == IF writer.lang = "c" /\ f.type.shape = "sequence"
                      THEN wide(v) ELSE narrow(v)
<1>2. ASSUME NEW v \in Value(2) PROVE wide(v) \in Items /\ narrow(v) \in Items
  <2>1. v[1] \in Byte /\ v[2] \in Byte /\ 0 \in Byte
    BY SMT DEF Value, Byte
  <2>2. \A a, b, c, d \in Byte : <<a, b, c, d>> \in [1..4 -> Byte]
    BY SMT
  <2>3. <<0, 0, v[1], v[2]>> \in Value(4)
    BY <2>1, <2>2 DEF Value
  <2> QED
    BY <2>3, PutOneIsItem DEF Widths
<1>3. \A i \in 1..Len(f.elems) : f.elems[i] \in Value(2)
  BY <1>1, SMT
<1>4. \A i \in 1..Len(f.elems) : call(f.elems[i]) \in Items
  BY <1>2, <1>3
<1>5. [i \in DOMAIN f.elems |-> call(f.elems[i])] \in Seq(Items)
  BY <1>4, FieldParts, MapIsSeq
<1>6. Counted(f, [i \in DOMAIN f.elems |-> call(f.elems[i])]) \in Seq(Items)
  BY <1>5, CountedAreItems
<1>7. <<>> \in Seq(Items)
  BY SMT
<1> QED
  BY <1>6, <1>7 DEF WcharCalls

\* Every text of a member appears twice in the list of its calls.
LEMMA TextIndex ==
  ASSUME NEW n \in Nat
  PROVE  2 * n \in Nat /\ \A i \in 1..(2 * n) : (i + 1) \div 2 \in 1..n
BY SMT

LEMMA TextElements ==
  ASSUME NEW f \in Fields, f.type.kind \in Texts
  PROVE  \A i \in 1..Len(f.elems) : f.elems[i] \in Seq(Value(Width[f.type.kind]))
<1>1. f.type.kind # "message"
  BY DEF Texts
<1>2. f.elems \in Seq(Seq(Value(Width[f.type.kind])))
  BY <1>1, FieldParts DEF ElementsOf
<1> QED
  BY <1>2, SMT

LEMMA StringCallsAreItems ==
  ASSUME NEW f \in Fields, f.type.kind = "string"
  PROVE  StringCalls(f) \in Seq(Items)
<1>1. \A i \in 1..Len(f.elems) : f.elems[i] \in Seq(Value(1))
  BY TextElements, WidthValues DEF Texts
<1> DEFINE length(s) == Put(4, <<U32(StringSize(s))>>)
           chars(s) == Put(1, s \o << <<0>> >>)
           call(i) == LET s == f.elems[(i + 1) \div 2]
                      IN  IF i % 2 = 1 THEN length(s) ELSE chars(s)
<1>2. ASSUME NEW s \in Seq(Value(1)) PROVE length(s) \in Items /\ chars(s) \in Items
  <2>1. StringSize(s) \in Nat
    BY SMT DEF StringSize
  <2>2. <<0>> \in Value(1)
    BY SMT DEF Value, Byte
  <2>3. s \o << <<0>> >> \in Seq(Value(1))
    BY <2>2, OneIsSeq, JoinIsSeq
  <2> QED
    BY <2>1, <2>3, PutCountIsItem, PutIsItem DEF Widths
<1>3. \A i \in 1..(2 * Len(f.elems)) : call(i) \in Items
  BY <1>1, <1>2, FieldParts, TextIndex
<1>4. [i \in 1..(2 * Len(f.elems)) |-> call(i)] \in Seq(Items)
  BY <1>3, FieldParts, TextIndex, MapIsSeq
<1> QED
  BY <1>4, CountedAreItems DEF StringCalls

LEMMA WstringCallsAreItems ==
  ASSUME NEW f \in Fields, f.type.kind = "wstring"
  PROVE  WstringCalls(f) \in Seq(Items)
<1>1. \A i \in 1..Len(f.elems) : f.elems[i] \in Seq(Value(2))
  BY TextElements, WidthValues DEF Texts
<1> DEFINE call(i) == LET s == f.elems[(i + 1) \div 2]
                      IN  IF i % 2 = 1 THEN Put(4, <<U32(Len(s))>>) ELSE Put(2, s)
<1>2. ASSUME NEW s \in Seq(Value(2))
      PROVE Put(4, <<U32(Len(s))>>) \in Items /\ Put(2, s) \in Items
  <2>1. Len(s) \in Nat
    BY SMT
  <2> QED
    BY <2>1, PutCountIsItem, PutIsItem DEF Widths
<1>3. \A i \in 1..(2 * Len(f.elems)) : call(i) \in Items
  BY <1>1, <1>2, FieldParts, TextIndex
<1>4. [i \in 1..(2 * Len(f.elems)) |-> call(i)] \in Seq(Items)
  BY <1>3, FieldParts, TextIndex, MapIsSeq
<1> QED
  BY <1>4, CountedAreItems DEF WstringCalls

LEMMA StructCallsAreItems ==
  ASSUME NEW f \in Fields, f.type.kind = "message"
  PROVE  StructCalls(f) \in Seq(Items)
<1>1. f.elems \in Seq(Seq(Fields))
  BY FieldParts DEF ElementsOf
<1>2. StructsItem(f.elems) \in Items
  BY <1>1 DEF StructsItem, Items
<1> QED
  BY <1>2, OneIsSeq, CountedAreItems DEF StructCalls

\* The calls that read n elements.
LEMMA LoopIsItems ==
  ASSUME NEW op \in {"get", "length", "copy"}, NEW k \in Kinds \ {"message"}, NEW n \in Nat
  PROVE  Loop(op, k, n) \in Seq(Items)
<1>1. CASE n = 0
  <2>1. <<>> \in Seq(Items)
    BY SMT
  <2> QED
    BY <1>1, <2>1 DEF Loop
<1>2. CASE n # 0
  <2>1. [op |-> op, kind |-> k, n |-> n] \in Items
    BY <1>2 DEF Items
  <2> QED
    BY <1>2, <2>1, OneIsSeq DEF Loop
<1> QED
  BY <1>1, <1>2

LEMMA ElementsAreItems ==
  ASSUME NEW t \in Types, NEW n \in Nat
  PROVE  Elements(t, n) \in Seq(Items)
<1>1. t.kind \in Kinds /\ t.of \in Seq(Types)
  BY CdrAssumption
<1>2. ReadStructs(t.of, n) \in Items
  BY <1>1 DEF ReadStructs, Items
<1>3. CASE t.kind = "message"
  BY <1>2, <1>3, OneIsSeq DEF Elements
<1>4. CASE t.kind # "message"
  <2>1. ReadOp(t) \in {"get", "length", "copy"}
    BY DEF ReadOp
  <2> QED
    BY <1>1, <1>4, <2>1, LoopIsItems DEF Elements
<1> QED
  BY <1>3, <1>4

\* What the entries of a list hold.
LEMMA ItemParts ==
  ASSUME NEW e \in Items
  PROVE  /\ e.op = "field" => e.field \in Fields
         /\ e.op = "structs" => e.elems \in Seq(Seq(Fields))
         /\ e.op = "put" => e.w \in Widths /\ e.vals \in Seq(Value(e.w))
         /\ e.op \in {"member", "count"} => e.type \in Types
         /\ e.op \in {"get", "length", "copy", "text"} => e.kind \in Kinds \ {"message"}
         /\ e.op \in {"copy", "text", "read_structs"} => e.n \in Nat
         /\ e.op \in {"get", "length", "copy"} => e.n \in Nat \ {0}
         /\ e.op = "read_structs" => e.of \in Seq(Types)
BY SMT DEF Items, PutItems, Widths

LEMMA ListParts ==
  ASSUME CdrTypeOK, todo # <<>>
  PROVE  Head(todo) \in Items /\ Tail(todo) \in Seq(Items)
BY RestIsSeq DEF CdrTypeOK

-----------------------------------------------------------------------------
(* The invariant, action by action.                                        *)

IInv == CdrTypeOK /\ InBounds

\* An action of a pass that keeps the buffer keeps the invariant, if the rest of
\* the list, the cursor and the phase are what they should be.
LEMMA PassStep ==
  ASSUME IInv, todo' \in Seq(Items), off' \in Nat, phase' \in Phases,
         phase' \in {"write", "read"} => off' =< size,
         flawed' \in BOOLEAN, UnchangedCall, UNCHANGED <<size, buf>>
  PROVE  IInv'
BY DEF IInv, CdrTypeOK, InBounds, UnchangedCall

LEMMA InitStep == CdrInit => IInv
<1> SUFFICES ASSUME CdrInit PROVE IInv
  OBVIOUS
<1>1. /\ message \in Seq(Fields) /\ todo \in Seq(Items) /\ 0 \in Nat
      /\ buf \in [1..size -> Byte]
  BY SMT DEF CdrInit
<1>2. phase \in Phases /\ mapping \in Mappings
  BY DEF CdrInit, Phases, Mappings
<1> QED
  BY <1>1, <1>2 DEF CdrInit, IInv, CdrTypeOK, InBounds

LEMMA StartStep ==
  ASSUME IInv, NEW m \in Messages, NEW map \in Mappings, Start(m, map)
  PROVE  IInv'
<1>1. m \in Seq(Fields)
  BY CdrAssumption
<1>2. todo' \in Seq(Items)
  BY <1>1, SerializedAreItems DEF Start
<1>3. phase' = "size"
  BY DEF Start
<1> QED
  BY <1>1, <1>2, <1>3 DEF Start, IInv, CdrTypeOK, InBounds, Phases

LEMMA UnfoldStep ==
  ASSUME IInv, Writing, NEW f, NEW calls \in Seq(Items), Unfold(f, calls),
         flawed' \in BOOLEAN
  PROVE  IInv'
<1>1. todo' \in Seq(Items)
  BY ListParts, JoinIsSeq DEF IInv, Writing, Unfold
<1> QED
  BY <1>1, PassStep DEF Unfold, IInv, CdrTypeOK, InBounds

LEMMA FieldIsField ==
  ASSUME IInv, NEW kinds, FieldAt(kinds)
  PROVE  Head(todo).field \in Fields /\ Writing
BY ListParts, ItemParts DEF IInv, FieldAt, Writing

LEMMA SerializeStep ==
  ASSUME IInv, Serialize
  PROVE  IInv'
<1> DEFINE f == Head(todo).field
<1>1. CASE SerializeBoolean
  <2>1. f \in Fields /\ Writing /\ f.type.kind = "boolean"
    BY <1>1, FieldIsField DEF SerializeBoolean, FieldAt
  <2>2. BooleanCalls(f) \in Seq(Items)
    BY <2>1, BooleanCallsAreItems
  <2> QED
    BY <1>1, <2>1, <2>2, UnfoldStep DEF SerializeBoolean, IInv, CdrTypeOK
<1>2. CASE SerializePrimitive
  <2>1. f \in Fields /\ Writing /\ f.type.kind \in Primitives
    BY <1>2, FieldIsField DEF SerializePrimitive, FieldAt
  <2>2. PrimitiveCalls(f) \in Seq(Items)
    BY <2>1, PrimitiveCallsAreItems
  <2> QED
    BY <1>2, <2>1, <2>2, UnfoldStep DEF SerializePrimitive, IInv, CdrTypeOK
<1>3. CASE SerializeWchar
  <2>1. f \in Fields /\ Writing /\ f.type.kind = "wchar"
    BY <1>3, FieldIsField DEF SerializeWchar, FieldAt
  <2>2. WcharCalls(f) \in Seq(Items)
    BY <2>1, WcharCallsAreItems
  <2>3. flawed' \in BOOLEAN
    BY <1>3 DEF SerializeWchar
  <2> QED
    BY <1>3, <2>1, <2>2, <2>3, UnfoldStep DEF SerializeWchar
<1>4. CASE SerializeString
  <2>1. f \in Fields /\ Writing /\ f.type.kind = "string"
    BY <1>4, FieldIsField DEF SerializeString, FieldAt
  <2>2. StringCalls(f) \in Seq(Items)
    BY <2>1, StringCallsAreItems
  <2> QED
    BY <1>4, <2>1, <2>2, UnfoldStep DEF SerializeString, IInv, CdrTypeOK
<1>5. CASE SerializeWstring
  <2>1. f \in Fields /\ Writing /\ f.type.kind = "wstring"
    BY <1>5, FieldIsField DEF SerializeWstring, FieldAt
  <2>2. WstringCalls(f) \in Seq(Items)
    BY <2>1, WstringCallsAreItems
  <2> QED
    BY <1>5, <2>1, <2>2, UnfoldStep DEF SerializeWstring, IInv, CdrTypeOK
<1>6. CASE SerializeStructArr
  <2>1. f \in Fields /\ Writing /\ f.type.kind = "message"
    BY <1>6, FieldIsField DEF SerializeStructArr, FieldAt
  <2>2. StructCalls(f) \in Seq(Items)
    BY <2>1, StructCallsAreItems
  <2> QED
    BY <1>6, <2>1, <2>2, UnfoldStep DEF SerializeStructArr, IInv, CdrTypeOK
<1>7. CASE SerializeStruct
  <2> DEFINE s == Head(todo).elems
  <2>1. s \in Seq(Seq(Fields)) /\ Tail(todo) \in Seq(Items) /\ <<>> \in Seq(Items)
    BY <1>7, ListParts, ItemParts, SMT DEF SerializeStruct, IInv, Writing
  <2>2. CASE s = <<>>
    <3>1. todo' = <<>> \o Tail(todo)
      BY <1>7, <2>2 DEF SerializeStruct
    <3> QED
      BY <1>7, <2>1, <3>1, JoinIsSeq, PassStep
      DEF SerializeStruct, IInv, CdrTypeOK, InBounds
  <2>3. CASE s # <<>>
    <3>1. Head(s) \in Seq(Fields) /\ Tail(s) \in Seq(Seq(Fields))
      BY <2>1, <2>3, RestIsSeq
    <3>2. StructsItem(Tail(s)) \in Items
      BY <3>1 DEF StructsItem, Items
    <3>3. FieldItems(Head(s)) \o <<StructsItem(Tail(s))>> \in Seq(Items)
      BY <3>1, <3>2, FieldItemsAreItems, OneIsSeq, JoinIsSeq
    <3>4. todo' = (FieldItems(Head(s)) \o <<StructsItem(Tail(s))>>) \o Tail(todo)
      BY <1>7, <2>3 DEF SerializeStruct
    <3>5. todo' \in Seq(Items)
      BY <2>1, <3>3, <3>4, JoinIsSeq
    <3> QED
      BY <1>7, <3>5, PassStep DEF SerializeStruct, IInv, CdrTypeOK, InBounds
  <2> QED
    BY <2>2, <2>3
<1>8. CASE PutValues
  <2> DEFINE w == Head(todo).w
             vals == Head(todo).vals
  <2>1. w \in Widths /\ vals \in Seq(Value(w)) /\ Tail(todo) \in Seq(Items)
    BY <1>8, ListParts, ItemParts DEF PutValues, IInv, Writing
  <2>2. Len(vals) \in Nat
    BY <2>1, SMT
  <2> HIDE DEF w, vals
  <2>3. off \in Nat /\ size \in Nat /\ buf \in [1..size -> Byte]
    BY DEF IInv, CdrTypeOK
  <2>4. Advanced(w, Len(vals)) \in Nat
    BY <2>1, <2>2, <2>3, CursorIsNat DEF Advanced
  <2>5. Written(w, vals) \in [1..size -> Byte]
    BY <2>1, <2>3, WrittenIsBytes
  <2>6. CASE /\ phase = "write" => Fits(w, Len(vals))
             /\ buf' = IF phase = "write" THEN Written(w, vals) ELSE buf
             /\ off' = Advanced(w, Len(vals))
             /\ todo' = Tail(todo)
             /\ UNCHANGED phase
    <3>1. buf' \in [1..size -> Byte]
      BY <2>3, <2>5, <2>6
    <3>2. phase = "write" => off' =< size
      BY <2>6 DEF Fits, Advanced
    <3>3. phase \in {"size", "write"} /\ UNCHANGED <<size, flawed>> /\ UnchangedCall
      BY <1>8 DEF PutValues, Writing
    <3> QED
      BY <2>1, <2>4, <2>6, <3>1, <3>2, <3>3
      DEF IInv, CdrTypeOK, InBounds, UnchangedCall
  <2>7. CASE /\ phase = "write" /\ ~Fits(w, Len(vals))
             /\ phase' = "not_written"
             /\ UNCHANGED <<buf, off, todo>>
    BY <1>8, <2>7, PassStep DEF PutValues, IInv, CdrTypeOK, Phases, Ended
  <2> QED
    BY <1>8, <2>6, <2>7 DEF PutValues, w, vals
<1> QED
  BY <1>1, <1>2, <1>3, <1>4, <1>5, <1>6, <1>7, <1>8 DEF Serialize

LEMMA StartWritingStep ==
  ASSUME IInv, NEW fill \in Fill, StartWriting(fill)
  PROVE  IInv'
<1>1. off \in Nat /\ fill \in Byte /\ message \in Seq(Fields)
  BY CdrAssumption DEF IInv, CdrTypeOK
<1>2. buf' \in [1..size' -> Byte] /\ size' \in Nat /\ off' = 0 /\ phase' = "write"
  BY <1>1 DEF StartWriting, Allocated
<1>3. todo' \in Seq(Items)
  BY <1>1, PrologueIsItems, SerializedAreItems, JoinIsSeq DEF StartWriting
<1>4. 0 \in Nat /\ off' =< size'
  BY <1>2, SMT
<1> QED
  BY <1>2, <1>3, <1>4 DEF StartWriting, UnchangedCall, IInv, CdrTypeOK, InBounds, Phases

LEMMA StartReadingStep ==
  ASSUME IInv, NEW p \in Processes, NEW missing \in Missing,
         StartReading(p, missing)
  PROVE  IInv'
<1>1. size \in Nat /\ missing \in Nat /\ message \in Seq(Fields)
      /\ buf \in [1..size -> Byte]
  BY CdrAssumption DEF IInv, CdrTypeOK
<1>2. size' \in Nat /\ size' =< size
  <2>1. size' = IF missing > size THEN 0 ELSE size - missing
    BY DEF StartReading
  <2> QED
    BY <1>1, <2>1, SMT
<1>3. buf' \in [1..size' -> Byte]
  <2>1. buf' = [i \in 1..size' |-> buf[i]]
    BY DEF StartReading
  <2>2. \A i \in 1..size' : i \in 1..size
    BY <1>1, <1>2, SMT
  <2> QED
    BY <1>1, <2>1, <2>2
<1>4. todo' \in Seq(Items)
  <2> DEFINE types == [i \in DOMAIN message |-> message[i].type]
  <2>1. DOMAIN message = 1..Len(message) /\ Len(message) \in Nat
        /\ \A i \in 1..Len(message) : message[i] \in Fields
    BY <1>1, SMT
  <2>2. types \in [1..Len(message) -> Types]
    BY <2>1, FieldParts
  <2>3. types \in Seq(Types)
    BY <2>1, <2>2, MapIsSeq
  <2> QED
    BY <2>3, MemberItemsAreItems DEF StartReading
<1>5. off' = 0 /\ 0 \in Nat /\ phase' \in Phases
  BY SMT DEF StartReading, Phases, Ended
<1>6. off' =< size'
  BY <1>2, <1>5, SMT
<1> QED
  BY <1>1, <1>2, <1>3, <1>4, <1>5, <1>6 DEF StartReading, IInv, CdrTypeOK, InBounds

LEMMA ReturnStep ==
  ASSUME IInv, Return
  PROVE  IInv'
<1>1. /\ message' \in Seq(Fields) /\ todo' \in Seq(Items) /\ 0 \in Nat
      /\ buf' \in [1..size' -> Byte]
  BY SMT DEF Return
<1>2. phase' \in Phases /\ mapping' \in Mappings
  BY DEF Return, Phases, Mappings
<1> QED
  BY <1>1, <1>2 DEF Return, IInv, CdrTypeOK, InBounds

\* A rejected call.
LEMMA RejectStep ==
  ASSUME IInv, NEW ops, NEW w, NEW n, Reject(ops, w, n), UnchangedRead
  PROVE  IInv'
<1>1. phase' = "rejected" /\ phase' \in Phases
  BY DEF Reject, Phases, Ended
<1> QED
  BY <1>1, PassStep
  DEF Reject, UnchangedRead, UnchangedCall, IInv, CdrTypeOK

\* A call that was accepted, and leaves such a list.
LEMMA ReadStep ==
  ASSUME IInv, Reading, NEW w \in Widths, NEW n \in Nat, Fits(w, n),
         off' = Aligned(w) + w * n, todo' \in Seq(Items), flawed' \in BOOLEAN,
         UNCHANGED phase, UnchangedRead
  PROVE  IInv'
<1>1. off' \in Nat
  BY CursorIsNat DEF IInv, CdrTypeOK
<1>2. off' =< size
  BY DEF Fits
<1> QED
  BY <1>1, <1>2, PassStep DEF UnchangedRead, UnchangedCall, IInv, CdrTypeOK

LEMMA DeserializeStep ==
  ASSUME IInv, Deserialize
  PROVE  IInv'
<1> DEFINE e == Head(todo)
<1>1. Reading => e \in Items /\ Tail(todo) \in Seq(Items)
  BY ListParts DEF IInv, Reading
<1>2. size \in Nat /\ buf \in [1..size -> Byte] /\ off \in Nat /\ flawed \in BOOLEAN
  BY DEF IInv, CdrTypeOK
<1>3. 4 \in Widths /\ 1 \in Nat
  BY SMT DEF Widths
<1>4. CASE ReadMember
  <2>1. e.type \in Types /\ Tail(todo) \in Seq(Items)
    BY <1>1, <1>4, ItemParts DEF ReadMember
  <2>2. e.type.size \in Nat /\ CountItem(e.type) \in Items
    BY <2>1, CdrAssumption DEF CountItem, Items
  <2>3. <<CountItem(e.type)>> \in Seq(Items)
        /\ \A n \in Nat : Elements(e.type, n) \in Seq(Items)
    BY <2>1, <2>2, OneIsSeq, ElementsAreItems
  <2>4. todo' \in Seq(Items)
    BY <1>3, <1>4, <2>1, <2>2, <2>3, JoinIsSeq DEF ReadMember
  <2> QED
    BY <1>4, <2>4, PassStep
    DEF ReadMember, UnchangedRead, UnchangedCall, IInv, CdrTypeOK, InBounds
<1>5. CASE ReadCount
  <2> DEFINE n == CountOf(Loaded(4, 1)[1])
  <2>1. n \in Nat
    BY <1>2, CountIsNat
  <2>2. Reading /\ UnchangedRead
    BY <1>5 DEF ReadCount
  <2>3. CASE Reject({"count"}, 4, 1)
    BY <2>2, <2>3, RejectStep
  <2>4. CASE /\ e.op = "count"
             /\ Fits(4, 1)
             /\ todo' = Elements(e.type, n) \o Tail(todo)
             /\ off' = Aligned(4) + 4
             /\ UNCHANGED <<phase, flawed>>
    <3>1. e.type \in Types /\ Tail(todo) \in Seq(Items)
      BY <1>1, <2>2, <2>4, ItemParts
    <3>2. todo' \in Seq(Items)
      BY <2>1, <2>4, <3>1, ElementsAreItems, JoinIsSeq
    <3>3. Aligned(4) \in Nat
      BY <1>2, <1>3, PaddingIsNat
    <3>4. off' = Aligned(4) + 4 * 1
      BY <2>4, <3>3, SMT
    <3> QED
      BY <1>2, <1>3, <2>2, <2>4, <3>2, <3>4, ReadStep
  <2>5. CASE phase' = "escaped" /\ UNCHANGED <<todo, off, flawed>>
    BY <1>2, <2>2, <2>5, PassStep
    DEF Phases, Ended, UnchangedRead, UnchangedCall, IInv, CdrTypeOK
  <2> QED
    BY <1>5, <2>3, <2>4, <2>5 DEF ReadCount
<1>6. CASE GetValue
  <2> DEFINE w == Width[e.kind]
  <2>1. w \in Widths /\ Reading /\ UnchangedRead /\ Tail(todo) \in Seq(Items)
    BY <1>1, <1>6, ItemParts, WidthValues DEF GetValue
  <2>2. CASE Reject({"get"}, w, 1)
    BY <2>1, <2>2, RejectStep
  <2>3. CASE /\ Fits(w, 1)
             /\ off' = Aligned(w) + w
             /\ todo' = Loop("get", e.kind, e.n - 1) \o Tail(todo)
             /\ UNCHANGED <<phase, flawed>>
    <3>1. w * 1 = w
      BY <2>1, SMT DEF Widths
    <3>2. e.n - 1 \in Nat /\ e.kind \in Kinds \ {"message"}
      BY <1>1, <1>6, ItemParts DEF GetValue
    <3>3. todo' \in Seq(Items)
      BY <2>1, <2>3, <3>2, LoopIsItems, JoinIsSeq
    <3> QED
      BY <1>2, <1>3, <2>1, <2>3, <3>1, <3>3, ReadStep
  <2> QED
    BY <1>6, <2>2, <2>3 DEF GetValue
<1>7. CASE CopyArr
  <2> DEFINE w == Width[e.kind]
  <2>1. /\ w \in Widths /\ e.n \in Nat /\ Reading /\ UnchangedRead
        /\ Tail(todo) \in Seq(Items)
    BY <1>1, <1>7, ItemParts, WidthValues DEF CopyArr
  <2>2. CASE Reject({"copy"}, w, e.n)
    BY <2>1, <2>2, RejectStep
  <2>3. CASE /\ Fits(w, e.n)
             /\ off' = Aligned(w) + w * e.n
             /\ todo' = Tail(todo)
             /\ flawed' = (flawed \/ (Swap /\ e.kind = "64"))
             /\ UNCHANGED phase
    BY <2>1, <2>3, ReadStep
  <2> QED
    BY <1>7, <2>2, <2>3 DEF CopyArr
<1>8. CASE ReadLength
  <2> DEFINE n == CountOf(Loaded(4, 1)[1])
  <2>1. e.kind \in Kinds \ {"message"} /\ Reading /\ UnchangedRead
        /\ Tail(todo) \in Seq(Items)
    BY <1>1, <1>8, ItemParts DEF ReadLength
  <2>2. CASE Reject({"length"}, 4, 1)
    BY <2>1, <2>2, RejectStep
  <2>3. CASE /\ Fits(4, 1)
             /\ todo' = <<TextItem(e.kind, n)>> \o Loop("length", e.kind, e.n - 1) \o Tail(todo)
             /\ off' = Aligned(4) + 4
             /\ UNCHANGED <<phase, flawed>>
    <3>1. n \in Nat
      BY <1>2, CountIsNat
    <3>2. TextItem(e.kind, n) \in Items
      BY <2>1, <3>1 DEF TextItem, Items
    <3>3. e.n - 1 \in Nat
      BY <1>1, <1>8, ItemParts DEF ReadLength
    <3>4. <<TextItem(e.kind, n)>> \o Loop("length", e.kind, e.n - 1) \in Seq(Items)
      BY <2>1, <3>2, <3>3, LoopIsItems, OneIsSeq, JoinIsSeq
    <3>5. todo' \in Seq(Items)
      BY <2>1, <2>3, <3>4, JoinIsSeq
    <3>6. Aligned(4) \in Nat
      BY <1>2, <1>3, PaddingIsNat
    <3>7. off' = Aligned(4) + 4 * 1
      BY <2>3, <3>6, SMT
    <3> QED
      BY <1>2, <1>3, <2>1, <2>3, <3>5, <3>7, ReadStep
  <2> QED
    BY <1>8, <2>2, <2>3 DEF ReadLength
<1>9. CASE ReadText
  <2> DEFINE w == Width[e.kind]
  <2>1. /\ w \in Widths /\ e.n \in Nat /\ Reading /\ UnchangedRead
        /\ Tail(todo) \in Seq(Items)
    BY <1>1, <1>9, ItemParts, WidthValues DEF ReadText
  <2>2. CASE Reject({"text"}, w, e.n)
    BY <2>1, <2>2, RejectStep
  <2>3. CASE /\ Fits(w, e.n)
             /\ off' = Aligned(w) + w * e.n
             /\ todo' = Tail(todo)
             /\ UNCHANGED <<phase, flawed>>
    BY <1>2, <2>1, <2>3, ReadStep
  <2>4. CASE phase' = "rejected" /\ UNCHANGED <<off, todo, flawed>>
    BY <2>1, <2>4, PassStep
    DEF Phases, Ended, UnchangedRead, UnchangedCall, IInv, CdrTypeOK
  <2> QED
    BY <1>9, <2>2, <2>3, <2>4 DEF ReadText
<1>10. CASE ReadStruct
  <2>1. /\ e.of \in Seq(Types) /\ e.n \in Nat /\ Tail(todo) \in Seq(Items)
        /\ <<>> \in Seq(Items)
    BY <1>1, <1>10, ItemParts, SMT DEF ReadStruct
  <2>2. CASE e.n = 0
    <3>1. todo' \in Seq(Items)
      BY <1>10, <2>1, <2>2, JoinIsSeq DEF ReadStruct
    <3> QED
      BY <1>10, <3>1, PassStep
      DEF ReadStruct, UnchangedRead, UnchangedCall, IInv, CdrTypeOK, InBounds
  <2>3. CASE e.n # 0
    <3>1. e.n - 1 \in Nat
      BY <2>1, <2>3, SMT
    <3>2. ReadStructs(e.of, e.n - 1) \in Items
      BY <2>1, <3>1 DEF ReadStructs, Items
    <3>3. MemberItems(e.of) \o <<ReadStructs(e.of, e.n - 1)>> \in Seq(Items)
      BY <2>1, <3>2, MemberItemsAreItems, OneIsSeq, JoinIsSeq
    <3>4. todo' = (MemberItems(e.of) \o <<ReadStructs(e.of, e.n - 1)>>) \o Tail(todo)
      BY <1>10, <2>3 DEF ReadStruct
    <3>5. todo' \in Seq(Items)
      BY <2>1, <3>3, <3>4, JoinIsSeq
    <3> QED
      BY <1>10, <3>5, PassStep
      DEF ReadStruct, UnchangedRead, UnchangedCall, IInv, CdrTypeOK, InBounds
  <2> QED
    BY <2>2, <2>3
<1>11. CASE Accept
  BY <1>11, PassStep
  DEF Accept, Phases, Ended, UnchangedRead, UnchangedCall, IInv, CdrTypeOK
<1> QED
  BY <1>4, <1>5, <1>6, <1>7, <1>8, <1>9, <1>10, <1>11 DEF Deserialize

LEMMA NextStep == IInv /\ [CdrNext]_cdrVars => IInv'
<1> SUFFICES ASSUME IInv, [CdrNext]_cdrVars PROVE IInv'
  OBVIOUS
<1>1. CASE \E m \in Messages, map \in Mappings : Start(m, map)
  BY <1>1, StartStep
<1>2. CASE Serialize
  BY <1>2, SerializeStep
<1>3. CASE \E fill \in Fill : StartWriting(fill)
  BY <1>3, StartWritingStep
<1>4. CASE \E p \in Processes, missing \in Missing : StartReading(p, missing)
  BY <1>4, StartReadingStep
<1>5. CASE Deserialize
  BY <1>5, DeserializeStep
<1>6. CASE Return
  BY <1>6, ReturnStep
<1>7. CASE UNCHANGED cdrVars
  BY <1>7 DEF cdrVars, IInv, CdrTypeOK, InBounds
<1> QED
  BY <1>1, <1>2, <1>3, <1>4, <1>5, <1>6, <1>7 DEF CdrNext

\* The serializer, the deserializer and the buffers keep their types, whatever
\* is converted (message_serializer.inl, message_deserializer.inl).
THEOREM CdrTypeCorrect == CdrSpec => []CdrTypeOK
<1>1. CdrInit => IInv
  BY InitStep
<1>2. IInv /\ [CdrNext]_cdrVars => IInv'
  BY NextStep
<1>3. IInv => CdrTypeOK
  BY DEF IInv
<1> QED
  BY <1>1, <1>2, <1>3, PTL DEF CdrSpec

\* No operator of the two buffers writes or reads past the end, for any types,
\* messages, byte orders and missing bytes (cdr_serialization_buffer.inl,
\* cdr_deser_buffer.cpp).
THEOREM StaysInBounds == CdrSpec => []InBounds
<1>1. CdrInit => IInv
  BY InitStep
<1>2. IInv /\ [CdrNext]_cdrVars => IInv'
  BY NextStep
<1>3. IInv => InBounds
  BY DEF IInv
<1> QED
  BY <1>1, <1>2, <1>3, PTL DEF CdrSpec
-----------------------------------------------------------------------------
(* The two passes agree.  A pass of the serializer is determined by where  *)
(* it begins, since the next entry decides what comes next: After is what a*)
(* call leaves, whatever the phase, and a run leads from one cursor and    *)
(* list to another one if every set closed under After that has the first  *)
(* has the second.  The size pass runs to the size, so the write pass does *)
(* too.                                                                    *)

Configs == Nat \X Seq(Items)

AlignedAt(o, w) == o + ((-o) % w)

\* The calls a field unfolds into, for a writer of this language.
WcharCallsIn(lang, f) ==
  IF lang = "c" /\ f.type.shape = "array"
  THEN <<>>
  ELSE Counted(f, [i \in DOMAIN f.elems |->
         IF lang = "c" /\ f.type.shape = "sequence"
         THEN Put(4, << <<0, 0, f.elems[i][1], f.elems[i][2]>> >>)
         ELSE Put(2, <<f.elems[i]>>)])
CallsOf(lang, f) ==
  CASE f.type.kind = "boolean" -> BooleanCalls(f)
    [] f.type.kind \in Primitives -> PrimitiveCalls(f)
    [] f.type.kind = "wchar" -> WcharCallsIn(lang, f)
    [] f.type.kind = "string" -> StringCalls(f)
    [] f.type.kind = "wstring" -> WstringCalls(f)
    [] f.type.kind = "message" -> StructCalls(f)

NextStruct(s) ==
  IF s = <<>> THEN <<>> ELSE FieldItems(Head(s)) \o <<StructsItem(Tail(s))>>

\* Where the cursor and the list are after the head of the list.
CursorAfter(o, e) ==
  IF e.op = "put" THEN AlignedAt(o, e.w) + e.w * Len(e.vals) ELSE o
CallsAfter(lang, e) ==
  IF e.op = "field" THEN CallsOf(lang, e.field)
  ELSE IF e.op = "structs" THEN NextStruct(e.elems) ELSE <<>>
ListAfter(lang, list) ==
  IF Head(list).op = "put" THEN Tail(list)
  ELSE CallsAfter(lang, Head(list)) \o Tail(list)
After(lang, o, list) == <<CursorAfter(o, Head(list)), ListAfter(lang, list)>>

Writable(list) == list # <<>> /\ Head(list).op \in {"field", "structs", "put"}

Closed(lang, C) ==
  \A o \in Nat, list \in Seq(Items) :
    <<o, list>> \in C /\ Writable(list) => After(lang, o, list) \in C
Run(lang, c, d) == \A C \in SUBSET Configs : c \in C /\ Closed(lang, C) => d \in C

\* The padding grows with the cursor, and does not notice 24 bytes more.
LEMMA AlignedGrows ==
  ASSUME NEW o \in Nat, NEW w \in Widths
  PROVE  AlignedAt(o, w) \in Nat /\ AlignedAt(o, w) >= o
<1>1. CASE w = 1
  BY <1>1, SMT DEF AlignedAt
<1>2. CASE w = 2
  BY <1>2, SMT DEF AlignedAt
<1>3. CASE w = 4
  BY <1>3, SMT DEF AlignedAt
<1>4. CASE w = 8
  BY <1>4, SMT DEF AlignedAt
<1> QED
  BY <1>1, <1>2, <1>3, <1>4 DEF Widths

LEMMA AlignedShifts ==
  ASSUME NEW o \in Nat, NEW n \in Nat, n >= o + 24, NEW w \in Widths
  PROVE  AlignedAt(n, w) >= AlignedAt(o, w) + 24
<1>1. CASE w = 1
  BY <1>1, SMT DEF AlignedAt
<1>2. CASE w = 2
  BY <1>2, SMT DEF AlignedAt
<1>3. CASE w = 4
  BY <1>3, SMT DEF AlignedAt
<1>4. CASE w = 8
  BY <1>4, SMT DEF AlignedAt
<1> QED
  BY <1>1, <1>2, <1>3, <1>4 DEF Widths

LEMMA ProductIsNat ==
  ASSUME NEW w \in Widths, NEW n \in Nat
  PROVE  w * n \in Nat
<1>1. w \in Nat
  BY SMT DEF Widths
<1> QED
  BY <1>1, SMT

\* The cursor never moves back, and 24 bytes ahead it stays so.
LEMMA CursorGrows ==
  ASSUME NEW o \in Nat, NEW e \in Items
  PROVE  CursorAfter(o, e) \in Nat /\ CursorAfter(o, e) >= o
<1>1. CASE e.op = "put"
  <2>1. e.w \in Widths /\ e.vals \in Seq(Value(e.w))
    BY <1>1, ItemParts
  <2>2. Len(e.vals) \in Nat
    BY <2>1, SMT
  <2>3. e.w * Len(e.vals) \in Nat
    BY <2>1, <2>2, ProductIsNat
  <2>4. AlignedAt(o, e.w) \in Nat /\ AlignedAt(o, e.w) >= o
    BY <2>1, AlignedGrows
  <2>5. \A a, b \in Nat : a >= o => a + b \in Nat /\ a + b >= o
    BY SMT
  <2> QED
    BY <1>1, <2>3, <2>4, <2>5 DEF CursorAfter
<1>2. CASE e.op # "put"
  <2>1. CursorAfter(o, e) = o
    BY <1>2 DEF CursorAfter
  <2> QED
    BY <2>1, SMT
<1> QED
  BY <1>1, <1>2

LEMMA CursorShifts ==
  ASSUME NEW o \in Nat, NEW n \in Nat, n >= o + 24, NEW e \in Items
  PROVE  CursorAfter(n, e) >= CursorAfter(o, e) + 24
<1>1. CASE e.op = "put"
  <2>1. e.w \in Widths /\ e.vals \in Seq(Value(e.w))
    BY <1>1, ItemParts
  <2>2. Len(e.vals) \in Nat
    BY <2>1, SMT
  <2>3. e.w * Len(e.vals) \in Nat
    BY <2>1, <2>2, ProductIsNat
  <2>4. /\ AlignedAt(o, e.w) \in Nat /\ AlignedAt(n, e.w) \in Nat
        /\ AlignedAt(n, e.w) >= AlignedAt(o, e.w) + 24
    BY <2>1, AlignedGrows, AlignedShifts
  <2>5. \A a, b, c \in Nat : b >= a + 24 => b + c >= a + c + 24
    BY SMT
  <2> QED
    BY <1>1, <2>3, <2>4, <2>5 DEF CursorAfter
<1>2. CASE e.op # "put"
  BY <1>2 DEF CursorAfter
<1> QED
  BY <1>1, <1>2

\* What a field unfolds into is what the serializer of its kind puts there.
LEMMA CallsByKind ==
  ASSUME NEW f \in Fields
  PROVE  /\ f.type.kind = "boolean" => CallsOf(writer.lang, f) = BooleanCalls(f)
         /\ f.type.kind \in Primitives => CallsOf(writer.lang, f) = PrimitiveCalls(f)
         /\ f.type.kind = "wchar" => CallsOf(writer.lang, f) = WcharCalls(f)
         /\ f.type.kind = "string" => CallsOf(writer.lang, f) = StringCalls(f)
         /\ f.type.kind = "wstring" => CallsOf(writer.lang, f) = WstringCalls(f)
         /\ f.type.kind = "message" => CallsOf(writer.lang, f) = StructCalls(f)
<1>1. WcharCalls(f) = WcharCallsIn(writer.lang, f)
  BY DEF WcharCalls, WcharCallsIn
<1>2. /\ "boolean" \notin Primitives /\ "wchar" \notin Primitives
      /\ "string" \notin Primitives /\ "wstring" \notin Primitives
      /\ "message" \notin Primitives
  BY DEF Primitives
<1>3. CASE f.type.kind = "boolean"
  BY <1>2, <1>3 DEF CallsOf
<1>4. CASE f.type.kind \in Primitives
  BY <1>2, <1>4 DEF CallsOf
<1>5. CASE f.type.kind = "wchar"
  BY <1>1, <1>2, <1>5 DEF CallsOf
<1>6. CASE f.type.kind = "string"
  BY <1>2, <1>6 DEF CallsOf
<1>7. CASE f.type.kind = "wstring"
  BY <1>2, <1>7 DEF CallsOf
<1>8. CASE f.type.kind = "message"
  BY <1>2, <1>8 DEF CallsOf
<1> QED
  BY <1>2, <1>3, <1>4, <1>5, <1>6, <1>7, <1>8

LEMMA CallsOfAreItems ==
  ASSUME NEW f \in Fields
  PROVE  CallsOf(writer.lang, f) \in Seq(Items)
<1>1. f.type.kind \in Kinds
  BY FieldParts
<1> QED
  BY <1>1, CallsByKind, BooleanCallsAreItems, PrimitiveCallsAreItems, WcharCallsAreItems,
     StringCallsAreItems, WstringCallsAreItems, StructCallsAreItems DEF Kinds, Texts

LEMMA NextStructIsItems ==
  ASSUME NEW s \in Seq(Seq(Fields))
  PROVE  NextStruct(s) \in Seq(Items)
<1>1. CASE s = <<>>
  <2>1. <<>> \in Seq(Items)
    BY SMT
  <2> QED
    BY <1>1, <2>1 DEF NextStruct
<1>2. CASE s # <<>>
  <2>1. Head(s) \in Seq(Fields) /\ Tail(s) \in Seq(Seq(Fields))
    BY <1>2, RestIsSeq
  <2>2. StructsItem(Tail(s)) \in Items
    BY <2>1 DEF StructsItem, Items
  <2> QED
    BY <1>2, <2>1, <2>2, FieldItemsAreItems, OneIsSeq, JoinIsSeq DEF NextStruct
<1> QED
  BY <1>1, <1>2

LEMMA AfterIsConfig ==
  ASSUME NEW o \in Nat, NEW list \in Seq(Items), Writable(list)
  PROVE  /\ Head(list) \in Items
         /\ CursorAfter(o, Head(list)) \in Nat /\ CursorAfter(o, Head(list)) >= o
         /\ ListAfter(writer.lang, list) \in Seq(Items)
         /\ After(writer.lang, o, list) \in Configs
<1>1. Head(list) \in Items /\ Tail(list) \in Seq(Items)
  BY RestIsSeq DEF Writable
<1>2. CursorAfter(o, Head(list)) \in Nat /\ CursorAfter(o, Head(list)) >= o
  BY <1>1, CursorGrows
<1>3. ListAfter(writer.lang, list) \in Seq(Items)
  <2>1. CASE Head(list).op = "put"
    BY <1>1, <2>1 DEF ListAfter
  <2>2. CASE Head(list).op = "field"
    <3>1. CallsOf(writer.lang, Head(list).field) \in Seq(Items)
      BY <1>1, <2>2, ItemParts, CallsOfAreItems
    <3> QED
      BY <1>1, <2>2, <3>1, JoinIsSeq DEF ListAfter, CallsAfter
  <2>3. CASE Head(list).op = "structs"
    <3>1. NextStruct(Head(list).elems) \in Seq(Items)
      BY <1>1, <2>3, ItemParts, NextStructIsItems
    <3> QED
      BY <1>1, <2>3, <3>1, JoinIsSeq DEF ListAfter, CallsAfter
  <2> QED
    BY <2>1, <2>2, <2>3 DEF Writable
<1> QED
  BY <1>1, <1>2, <1>3 DEF After, Configs

-----------------------------------------------------------------------------
(* Runs.                                                                   *)

LEMMA RunOn ==
  ASSUME NEW lang, NEW c, NEW o \in Nat, NEW list \in Seq(Items),
         Run(lang, c, <<o, list>>), Writable(list)
  PROVE  Run(lang, c, After(lang, o, list))
<1> SUFFICES ASSUME NEW C \in SUBSET Configs, c \in C, Closed(lang, C)
             PROVE  After(lang, o, list) \in C
  BY DEF Run
<1>1. <<o, list>> \in C
  BY DEF Run
<1> QED
  BY <1>1 DEF Closed

\* Only one step leads on, so that a run goes through it.
LEMMA RunFrom ==
  ASSUME NEW lang, NEW o \in Nat, NEW list \in Seq(Items), NEW d,
         Run(lang, <<o, list>>, d), d # <<o, list>>
  PROVE  Run(lang, After(lang, o, list), d)
<1> SUFFICES ASSUME NEW C \in SUBSET Configs, After(lang, o, list) \in C,
                    Closed(lang, C)
             PROVE  d \in C
  BY DEF Run
<1> DEFINE D == C \cup {<<o, list>>}
<1>1. D \in SUBSET Configs
  BY DEF Configs
<1>2. Closed(lang, D)
  <2> SUFFICES ASSUME NEW n \in Nat, NEW l \in Seq(Items), <<n, l>> \in D, Writable(l)
               PROVE  After(lang, n, l) \in D
    BY DEF Closed
  <2>1. CASE <<n, l>> \in C
    BY <2>1 DEF Closed
  <2>2. CASE <<n, l>> = <<o, list>>
    <3>1. n = o /\ l = list
      BY <2>2
    <3> QED
      BY <3>1
  <2> QED
    BY <2>1, <2>2
<1>3. d \in D
  BY <1>1, <1>2 DEF Run
<1> QED
  BY <1>3

\* A run ends no earlier than where it begins, and at once with nothing to do.
LEMMA RunGrows ==
  ASSUME NEW o \in Nat, NEW list \in Seq(Items), NEW n, NEW rest,
         Run(writer.lang, <<o, list>>, <<n, rest>>)
  PROVE  n \in Nat /\ n >= o
<1> DEFINE C == {c \in Configs : c[1] >= o}
<1>1. <<o, list>> \in C
  BY DEF Configs
<1>2. Closed(writer.lang, C)
  <2> SUFFICES ASSUME NEW m \in Nat, NEW l \in Seq(Items), <<m, l>> \in C, Writable(l)
               PROVE  After(writer.lang, m, l) \in C
    BY DEF Closed
  <2>1. m >= o
    OBVIOUS
  <2>2. /\ After(writer.lang, m, l) \in Configs
        /\ CursorAfter(m, Head(l)) \in Nat /\ CursorAfter(m, Head(l)) >= m
    BY AfterIsConfig
  <2>3. After(writer.lang, m, l)[1] = CursorAfter(m, Head(l))
    BY DEF After
  <2>4. \A x \in Nat : x >= m => x >= o
    BY <2>1, SMT
  <2> QED
    BY <2>2, <2>3, <2>4
<1>3. <<n, rest>> \in C
  BY <1>1, <1>2 DEF Run
<1> QED
  BY <1>3 DEF Configs

LEMMA RunEnds ==
  ASSUME NEW lang, NEW o \in Nat, NEW n, NEW rest, Run(lang, <<o, <<>>>>, <<n, rest>>)
  PROVE  n = o
<1> DEFINE C == {<<o, <<>>>>}
<1>1. C \in SUBSET Configs
  <2>1. <<>> \in Seq(Items)
    BY SMT
  <2>2. <<o, <<>>>> \in Configs
    BY <2>1 DEF Configs
  <2> QED
    BY <2>2
<1>2. Closed(lang, C)
  BY DEF Closed, Writable
<1>3. <<n, rest>> \in C
  BY <1>1, <1>2 DEF Run
<1> QED
  BY <1>3

\* An action of the serializer is a step of its run, unless a call does not fit.
LEMMA SerializeIsAfter ==
  ASSUME IInv, Serialize
  PROVE  /\ Writable(todo) /\ phase \in {"size", "write"}
         /\ UnchangedCall /\ UNCHANGED size
         /\ \/ /\ phase' = phase
               /\ <<off', todo'>> = After(writer.lang, off, todo)
            \/ /\ phase = "write" /\ phase' = "not_written"
               /\ ~(CursorAfter(off, Head(todo)) =< size)
<1> DEFINE f == Head(todo).field
<1>0. ASSUME NEW kinds, FieldAt(kinds), Unfold(f, CallsOf(writer.lang, f))
      PROVE  /\ Writable(todo) /\ phase \in {"size", "write"}
             /\ UnchangedCall /\ UNCHANGED size
             /\ phase' = phase
             /\ <<off', todo'>> = After(writer.lang, off, todo)
  <2>1. Writable(todo) /\ phase \in {"size", "write"} /\ Head(todo).op = "field"
    BY <1>0 DEF FieldAt, Writing, Writable
  <2>2. CursorAfter(off, Head(todo)) = off
    BY <2>1 DEF CursorAfter
  <2>3. ListAfter(writer.lang, todo) = CallsOf(writer.lang, f) \o Tail(todo)
    BY <2>1 DEF ListAfter, CallsAfter
  <2>4. todo' = CallsOf(writer.lang, f) \o Tail(todo) /\ off' = off
    BY <1>0 DEF Unfold
  <2> QED
    BY <1>0, <2>1, <2>2, <2>3, <2>4 DEF Unfold, After
<1>1. CASE SerializeBoolean
  <2>1. f \in Fields /\ f.type.kind = "boolean"
    BY <1>1, FieldIsField DEF SerializeBoolean, FieldAt
  <2> QED
    BY <1>0, <1>1, <2>1, CallsByKind DEF SerializeBoolean
<1>2. CASE SerializePrimitive
  <2>1. f \in Fields /\ f.type.kind \in Primitives
    BY <1>2, FieldIsField DEF SerializePrimitive, FieldAt
  <2> QED
    BY <1>0, <1>2, <2>1, CallsByKind DEF SerializePrimitive
<1>3. CASE SerializeWchar
  <2>1. f \in Fields /\ f.type.kind = "wchar"
    BY <1>3, FieldIsField DEF SerializeWchar, FieldAt
  <2> QED
    BY <1>0, <1>3, <2>1, CallsByKind DEF SerializeWchar
<1>4. CASE SerializeString
  <2>1. f \in Fields /\ f.type.kind = "string"
    BY <1>4, FieldIsField DEF SerializeString, FieldAt
  <2> QED
    BY <1>0, <1>4, <2>1, CallsByKind DEF SerializeString
<1>5. CASE SerializeWstring
  <2>1. f \in Fields /\ f.type.kind = "wstring"
    BY <1>5, FieldIsField DEF SerializeWstring, FieldAt
  <2> QED
    BY <1>0, <1>5, <2>1, CallsByKind DEF SerializeWstring
<1>6. CASE SerializeStructArr
  <2>1. f \in Fields /\ f.type.kind = "message"
    BY <1>6, FieldIsField DEF SerializeStructArr, FieldAt
  <2> QED
    BY <1>0, <1>6, <2>1, CallsByKind DEF SerializeStructArr
<1>7. CASE SerializeStruct
  <2>1. Writable(todo) /\ phase \in {"size", "write"} /\ Head(todo).op = "structs"
    BY <1>7 DEF SerializeStruct, Writing, Writable
  <2>2. CursorAfter(off, Head(todo)) = off
    BY <2>1 DEF CursorAfter
  <2>3. ListAfter(writer.lang, todo) = NextStruct(Head(todo).elems) \o Tail(todo)
    BY <2>1 DEF ListAfter, CallsAfter
  <2>4. todo' = NextStruct(Head(todo).elems) \o Tail(todo)
    BY <1>7 DEF SerializeStruct, NextStruct
  <2> QED
    BY <1>7, <2>1, <2>2, <2>3, <2>4 DEF SerializeStruct, After
<1>8. CASE PutValues
  <2> DEFINE w == Head(todo).w
             vals == Head(todo).vals
  <2>1. Writable(todo) /\ phase \in {"size", "write"} /\ Head(todo).op = "put"
    BY <1>8 DEF PutValues, Writing, Writable
  <2>2. CursorAfter(off, Head(todo)) = Aligned(w) + w * Len(vals)
    BY <2>1 DEF CursorAfter, AlignedAt, Aligned, Padding
  <2>3. ListAfter(writer.lang, todo) = Tail(todo)
    BY <2>1 DEF ListAfter
  <2>4. \/ /\ phase' = phase
           /\ off' = Aligned(w) + w * Len(vals)
           /\ todo' = Tail(todo)
        \/ phase = "write" /\ ~Fits(w, Len(vals)) /\ phase' = "not_written"
    BY <1>8 DEF PutValues, Advanced
  <2>5. UnchangedCall /\ UNCHANGED size
    BY <1>8 DEF PutValues
  <2> HIDE DEF w, vals
  <2>6. CASE /\ phase' = phase
             /\ off' = Aligned(w) + w * Len(vals)
             /\ todo' = Tail(todo)
    BY <2>1, <2>2, <2>3, <2>5, <2>6 DEF After
  <2>7. CASE phase = "write" /\ ~Fits(w, Len(vals)) /\ phase' = "not_written"
    BY <2>1, <2>2, <2>5, <2>7 DEF Fits
  <2> QED
    BY <2>4, <2>6, <2>7
<1> QED
  BY <1>1, <1>2, <1>3, <1>4, <1>5, <1>6, <1>7, <1>8 DEF Serialize

LEMMA JoinAt ==
  ASSUME NEW S, NEW s \in Seq(S), NEW r \in Seq(S)
  PROVE  /\ s \o r \in Seq(S) /\ Len(s \o r) = Len(s) + Len(r)
         /\ \A k \in 1..Len(s) : (s \o r)[k] = s[k]
         /\ \A k \in 1..Len(r) : (s \o r)[Len(s) + k] = r[k]
<1>1. s \o r \in Seq(S) /\ Len(s \o r) = Len(s) + Len(r)
  BY SMT
<1>2. \A k \in 1..Len(s) : (s \o r)[k] = s[k]
  BY SMT
<1>3. \A k \in 1..Len(r) : (s \o r)[Len(s) + k] = r[k]
  BY SMT
<1> QED
  BY <1>1, <1>2, <1>3

LEMMA JoinParts ==
  ASSUME NEW S, NEW s \in Seq(S), NEW r \in Seq(S)
  PROVE  /\ Len(s) = 2 /\ Len(r) = 2 =>
              /\ Len(s \o r) = 4
              /\ (s \o r)[1] = s[1] /\ (s \o r)[2] = s[2]
              /\ (s \o r)[3] = r[1] /\ (s \o r)[4] = r[2]
         /\ Len(s) = 4 /\ Len(r) \in {1, 2} =>
              /\ (s \o r)[1] = s[1] /\ (s \o r)[2] = s[2]
              /\ (s \o r)[3] = s[3] /\ (s \o r)[4] = s[4]
              /\ Len(r) = 1 => Len(s \o r) = 5 /\ (s \o r)[5] = r[1]
              /\ Len(r) = 2 => Len(s \o r) = 6 /\ (s \o r)[5] = r[1] /\ (s \o r)[6] = r[2]
<1>0. /\ Len(s \o r) = Len(s) + Len(r)
      /\ \A k \in 1..Len(s) : (s \o r)[k] = s[k]
      /\ \A k \in 1..Len(r) : (s \o r)[Len(s) + k] = r[k]
  BY JoinAt
<1>1. ASSUME Len(s) = 2, Len(r) = 2
      PROVE  /\ Len(s \o r) = 4
             /\ (s \o r)[1] = s[1] /\ (s \o r)[2] = s[2]
             /\ (s \o r)[3] = r[1] /\ (s \o r)[4] = r[2]
  <2>1. Len(s \o r) = 2 + 2
    BY <1>0, <1>1, Zenon
  <2>2. \A k \in 1..2 : (s \o r)[k] = s[k]
    BY <1>0, <1>1, Zenon
  <2>3. \A k \in 1..2 : (s \o r)[2 + k] = r[k]
    BY <1>0, <1>1, Zenon
  <2>4. 1 \in 1..2 /\ 2 \in 1..2 /\ 1 \in 1..2 /\ 2 \in 1..2
    BY SMT
  <2>5. 2 + 1 = 3 /\ 2 + 2 = 4
    BY SMT
  <2> QED
    BY <2>1, <2>2, <2>3, <2>4, <2>5, Zenon
<1>2. ASSUME Len(s) = 4, Len(r) = 1
      PROVE  /\ Len(s \o r) = 5
             /\ (s \o r)[1] = s[1] /\ (s \o r)[2] = s[2]
             /\ (s \o r)[3] = s[3] /\ (s \o r)[4] = s[4]
             /\ (s \o r)[5] = r[1]
  <2>1. Len(s \o r) = 4 + 1
    BY <1>0, <1>2, Zenon
  <2>2. \A k \in 1..4 : (s \o r)[k] = s[k]
    BY <1>0, <1>2, Zenon
  <2>3. \A k \in 1..1 : (s \o r)[4 + k] = r[k]
    BY <1>0, <1>2, Zenon
  <2>4. 1 \in 1..4 /\ 2 \in 1..4 /\ 3 \in 1..4 /\ 4 \in 1..4 /\ 1 \in 1..1
    BY SMT
  <2>5. 4 + 1 = 5
    BY SMT
  <2> QED
    BY <2>1, <2>2, <2>3, <2>4, <2>5, Zenon
<1>3. ASSUME Len(s) = 4, Len(r) = 2
      PROVE  /\ Len(s \o r) = 6
             /\ (s \o r)[1] = s[1] /\ (s \o r)[2] = s[2]
             /\ (s \o r)[3] = s[3] /\ (s \o r)[4] = s[4]
             /\ (s \o r)[5] = r[1] /\ (s \o r)[6] = r[2]
  <2>1. Len(s \o r) = 4 + 2
    BY <1>0, <1>3, Zenon
  <2>2. \A k \in 1..4 : (s \o r)[k] = s[k]
    BY <1>0, <1>3, Zenon
  <2>3. \A k \in 1..2 : (s \o r)[4 + k] = r[k]
    BY <1>0, <1>3, Zenon
  <2>4. 1 \in 1..4 /\ 2 \in 1..4 /\ 3 \in 1..4 /\ 4 \in 1..4 /\ 1 \in 1..2 /\ 2 \in 1..2
    BY SMT
  <2>5. 4 + 1 = 5 /\ 4 + 2 = 6
    BY SMT
  <2> QED
    BY <2>1, <2>2, <2>3, <2>4, <2>5, Zenon
<1>4. ASSUME Len(s) = 4, Len(r) \in {1, 2}
      PROVE  /\ (s \o r)[1] = s[1] /\ (s \o r)[2] = s[2]
             /\ (s \o r)[3] = s[3] /\ (s \o r)[4] = s[4]
  BY <1>2, <1>3, <1>4, Zenon
<1> QED
  BY <1>1, <1>2, <1>3, <1>4, Zenon

\* The header of the basic mapping.
LEMMA PrologueParts ==
  ASSUME NEW map, map # "message"
  PROVE  /\ Prologue(map) \in Seq(Items)
         /\ Len(Prologue(map)) \in {5, 6}
         /\ \A k \in 1..Len(Prologue(map)) :
              /\ Prologue(map)[k].op = "put"
              /\ Len(Prologue(map)[k].vals) = 1
              /\ Prologue(map)[k].w \in Widths
              /\ k \in {1, 2} => Prologue(map)[k].w = 8
              /\ k \in {3, 4} => Prologue(map)[k].w = 4
<1> DEFINE gid == Put(8, <<[k \in 1..8 |-> 1]>>)
           number == Put(4, <<U32(1)>>)
           null == Put(1, << <<0>> >>)
           error == Put(4, <<U32(0)>>)
           gids == [i \in 1..2 |-> gid]
           numbers == [i \in 1..2 |-> number]
           rest == IF map = "basic_request" THEN <<number, null>> ELSE <<error>>
<1>1. ASSUME NEW w, NEW v
      PROVE  Put(w, <<v>>).op = "put" /\ Put(w, <<v>>).w = w /\ Len(Put(w, <<v>>).vals) = 1
  BY DEF Put
<1>2. /\ gid.op = "put" /\ gid.w = 8 /\ Len(gid.vals) = 1
      /\ number.op = "put" /\ number.w = 4 /\ Len(number.vals) = 1
      /\ null.op = "put" /\ null.w = 1 /\ Len(null.vals) = 1
      /\ error.op = "put" /\ error.w = 4 /\ Len(error.vals) = 1
  BY <1>1
<1>3. gid \in Items /\ number \in Items /\ null \in Items /\ error \in Items
  <2>1. [k \in 1..8 |-> 1] \in Value(8) /\ <<0>> \in Value(1)
    BY SMT DEF Value, Byte
  <2>2. gid \in Items /\ null \in Items
    BY <2>1, PutOneIsItem DEF Widths
  <2> QED
    BY <2>2, PutCountIsItem
<1>4. Prologue(map) = (gids \o numbers) \o rest
  BY DEF Prologue
<1> HIDE DEF gid, number, null, error
<1>5. /\ gids \in Seq(Items) /\ Len(gids) = 2 /\ gids[1] = gid /\ gids[2] = gid
      /\ numbers \in Seq(Items) /\ Len(numbers) = 2
      /\ numbers[1] = number /\ numbers[2] = number
  <2>1. gids \in Seq(Items) /\ numbers \in Seq(Items)
    BY <1>3, MapIsSeq
  <2>2. Len(gids) = 2 /\ Len(numbers) = 2
    BY SMT
  <2> QED
    BY <2>1, <2>2, SMT
<1>6. /\ rest \in Seq(Items)
      /\ map = "basic_request" => Len(rest) = 2 /\ rest[1] = number /\ rest[2] = null
      /\ map # "basic_request" => Len(rest) = 1 /\ rest[1] = error
  <2>1. \A a, b \in Items : <<a, b>> \in Seq(Items) /\ <<a>> \in Seq(Items)
    BY SMT
  <2>2. rest \in Seq(Items)
    BY <1>3, <2>1
  <2> QED
    BY <2>2
<1> HIDE DEF gids, numbers, rest
<1>7. /\ gids \o numbers \in Seq(Items) /\ Len(gids \o numbers) = 4
      /\ (gids \o numbers)[1] = gid /\ (gids \o numbers)[2] = gid
      /\ (gids \o numbers)[3] = number /\ (gids \o numbers)[4] = number
  <2>1. gids \o numbers \in Seq(Items)
    BY <1>5, JoinAt
  <2>2. /\ Len(gids \o numbers) = 4
        /\ (gids \o numbers)[1] = gids[1] /\ (gids \o numbers)[2] = gids[2]
        /\ (gids \o numbers)[3] = numbers[1] /\ (gids \o numbers)[4] = numbers[2]
    BY <1>5, JoinParts
  <2> QED
    BY <1>5, <2>1, <2>2, Zenon
<1> DEFINE head == gids \o numbers
<1> HIDE DEF head
<1>8. /\ head \in Seq(Items) /\ Len(head) = 4
      /\ head[1] = gid /\ head[2] = gid /\ head[3] = number /\ head[4] = number
  BY <1>7 DEF head
<1>9. Prologue(map) = head \o rest
  BY <1>4 DEF head
<1>10. /\ Prologue(map) \in Seq(Items)
       /\ Prologue(map)[1] = gid /\ Prologue(map)[2] = gid
       /\ Prologue(map)[3] = number /\ Prologue(map)[4] = number
       /\ \/ Len(Prologue(map)) = 5 /\ Prologue(map)[5] = error
          \/ Len(Prologue(map)) = 6 /\ Prologue(map)[5] = number /\ Prologue(map)[6] = null
  <2>1. Prologue(map) \in Seq(Items)
    BY <1>6, <1>8, <1>9, JoinAt
  <2>2. Len(rest) \in {1, 2}
    BY <1>6
  <2>3. /\ Prologue(map)[1] = head[1] /\ Prologue(map)[2] = head[2]
        /\ Prologue(map)[3] = head[3] /\ Prologue(map)[4] = head[4]
        /\ Len(rest) = 1 => Len(Prologue(map)) = 5 /\ Prologue(map)[5] = rest[1]
        /\ Len(rest) = 2 => /\ Len(Prologue(map)) = 6
                            /\ Prologue(map)[5] = rest[1] /\ Prologue(map)[6] = rest[2]
    BY <1>6, <1>8, <1>9, <2>2, JoinParts
  <2> QED
    BY <1>6, <1>8, <2>1, <2>3, Zenon
<1>12. Len(Prologue(map)) \in {5, 6}
  BY <1>10
<1>11. ASSUME NEW k \in 1..Len(Prologue(map))
       PROVE  \/ k \in {1, 2} /\ Prologue(map)[k] = gid
              \/ k \in {3, 4} /\ Prologue(map)[k] = number
              \/ k \in {5, 6} /\ Prologue(map)[k] \in {number, null, error}
  <2>1. \/ k \in {1, 2, 3, 4, 5}
        \/ k = 6 /\ Len(Prologue(map)) = 6
    <3>0. 1..5 = {1, 2, 3, 4, 5} /\ 1..6 = {1, 2, 3, 4, 5, 6}
      BY SMT
    <3>1. CASE Len(Prologue(map)) = 5
      <4>1. k \in 1..5
        BY <3>1
      <4> QED
        BY <3>0, <4>1
    <3>2. CASE Len(Prologue(map)) = 6
      <4>1. k \in 1..6
        BY <3>2
      <4>2. k \in {1, 2, 3, 4, 5} \/ k = 6
        BY <3>0, <4>1
      <4> QED
        BY <3>2, <4>2
    <3> QED
      BY <1>12, <3>1, <3>2
  <2>2. CASE k \in {1, 2, 3, 4, 5}
    BY <1>10, <2>2
  <2>3. CASE k = 6 /\ Len(Prologue(map)) = 6
    BY <1>10, <2>3
  <2> QED
    BY <2>1, <2>2, <2>3
<1>13. 8 \in Widths /\ 4 \in Widths /\ 1 \in Widths
  BY DEF Widths
<1>14. ASSUME NEW k \in 1..Len(Prologue(map))
       PROVE  /\ Prologue(map)[k].op = "put"
              /\ Len(Prologue(map)[k].vals) = 1
              /\ Prologue(map)[k].w \in Widths
              /\ k \in {1, 2} => Prologue(map)[k].w = 8
              /\ k \in {3, 4} => Prologue(map)[k].w = 4
  <2>1. CASE k \in {1, 2} /\ Prologue(map)[k] = gid
    BY <1>2, <1>13, <2>1
  <2>2. CASE k \in {3, 4} /\ Prologue(map)[k] = number
    BY <1>2, <1>13, <2>2
  <2>3. CASE k \in {5, 6} /\ Prologue(map)[k] \in {number, null, error}
    BY <1>2, <1>13, <2>3
  <2> QED
    BY <1>11, <2>1, <2>2, <2>3
<1> QED
  BY <1>10, <1>12, <1>14

\* The list of the basic mapping, and the least cursor at its k-th entry.
Whole(map, fields) == Prologue(map) \o Serialized(fields)
Passed(k) ==
  IF k = 1 THEN 0 ELSE IF k = 2 THEN 8 ELSE IF k = 3 THEN 16 ELSE IF k = 4 THEN 20 ELSE 24

LEMMA SerializedIsLong ==
  ASSUME NEW fields \in Seq(Fields)
  PROVE  /\ Serialized(fields) \in Seq(Items)
         /\ Len(Serialized(fields)) \in Nat /\ Len(Serialized(fields)) > 0
         /\ Serialized(fields) # <<>>
<1>1. FieldItems(fields) \in Seq(Items) /\ Serialized(fields) \in Seq(Items)
  BY FieldItemsAreItems, SerializedAreItems
<1>2. <<Put(4, <<>>)>> \in Seq(Items)
  <2>1. <<>> \in Seq(Value(4))
    BY SMT
  <2>2. Put(4, <<>>) \in Items
    BY <2>1, PutIsItem DEF Widths
  <2> QED
    BY <2>2, OneIsSeq
<1>3. Len(Serialized(fields)) = Len(FieldItems(fields)) + Len(<<Put(4, <<>>)>>)
  BY <1>1, <1>2, JoinAt DEF Serialized
<1>4. Len(FieldItems(fields)) \in Nat /\ Len(<<Put(4, <<>>)>>) = 1
  BY <1>1, SMT
<1>5. Len(Serialized(fields)) \in Nat /\ Len(Serialized(fields)) > 0
  <2>1. \A a \in Nat : a + 1 \in Nat /\ a + 1 > 0
    BY SMT
  <2> QED
    BY <1>3, <1>4, <2>1
<1>6. Serialized(fields) # <<>>
  <2>1. Len(<<>>) = 0
    BY SMT
  <2>2. Len(Serialized(fields)) # 0
    BY <1>5, SMT
  <2> QED
    BY <2>1, <2>2
<1> QED
  BY <1>1, <1>5, <1>6

\* The cursor passes the least one of the next entry.
LEMMA PrologueCursor ==
  ASSUME NEW map, map # "message", NEW k \in 1..Len(Prologue(map)), NEW o \in Nat,
         o >= Passed(k)
  PROVE  /\ CursorAfter(o, Prologue(map)[k]) >= Passed(k + 1)
         /\ CursorAfter(o, Prologue(map)[k]) \in Nat
<1> DEFINE e == Prologue(map)[k]
<1>1. /\ e.op = "put" /\ Len(e.vals) = 1 /\ e.w \in Widths
      /\ k \in {1, 2} => e.w = 8
      /\ k \in {3, 4} => e.w = 4
  BY PrologueParts
<1>2. k \in {1, 2, 3, 4} \/ k \in {5, 6}
  <2>1. Len(Prologue(map)) \in {5, 6}
    BY PrologueParts
  <2>2. 1..5 = {1, 2, 3, 4, 5} /\ 1..6 = {1, 2, 3, 4, 5, 6}
    BY SMT
  <2>3. k \in 1..5 \/ k \in 1..6
    BY <2>1
  <2> QED
    BY <2>2, <2>3
<1>3. CursorAfter(o, e) = AlignedAt(o, e.w) + e.w * 1
  BY <1>1 DEF CursorAfter
<1> DEFINE w == e.w
           a == AlignedAt(o, w)
<1>4. a \in Nat /\ a >= o /\ w \in Widths
  BY <1>1, AlignedGrows
<1>5. CursorAfter(o, e) = a + w * 1 /\ w \in {1, 2, 4, 8}
  BY <1>3, <1>4 DEF Widths
<1>6. (k \in {1, 2} => w = 8) /\ (k \in {3, 4} => w = 4)
  BY <1>1
<1> HIDE DEF e, w, a
<1>7. CursorAfter(o, e) \in Nat /\ CursorAfter(o, e) >= o + w /\ w \in Nat
  <2>1. w \in Nat /\ w * 1 = w
    BY <1>5, SMT
  <2>2. \A x, y \in Nat : x >= o => x + y \in Nat /\ x + y >= o + y
    BY SMT
  <2> QED
    BY <1>4, <1>5, <2>1, <2>2
<1>8. /\ Passed(1) = 0 /\ Passed(2) = 8 /\ Passed(3) = 16 /\ Passed(4) = 20
      /\ Passed(5) = 24 /\ Passed(6) = 24 /\ Passed(7) = 24
  BY SMT DEF Passed
<1>9. 1 + 1 = 2 /\ 2 + 1 = 3 /\ 3 + 1 = 4 /\ 4 + 1 = 5 /\ 5 + 1 = 6 /\ 6 + 1 = 7
  BY SMT
<1> DEFINE c == CursorAfter(o, e)
<1> HIDE DEF c
<1>10. c \in Nat /\ c >= o + w /\ w \in Nat
  BY <1>7 DEF c
<1> SUFFICES c >= Passed(k + 1)
  BY <1>7 DEF c, e
<1>11. CASE k = 1
  <2>1. o >= 0 /\ w = 8
    BY <1>6, <1>8, <1>11
  <2>2. c >= 8
    BY <1>10, <2>1
  <2>3. Passed(k + 1) = 8
    BY <1>8, <1>9, <1>11, Zenon
  <2> QED
    BY <2>2, <2>3
<1>12. CASE k = 2
  <2>1. o >= 8 /\ w = 8
    BY <1>6, <1>8, <1>12
  <2>2. c >= 16
    BY <1>10, <2>1
  <2>3. Passed(k + 1) = 16
    BY <1>8, <1>9, <1>12, Zenon
  <2> QED
    BY <2>2, <2>3
<1>13. CASE k = 3
  <2>1. o >= 16 /\ w = 4
    BY <1>6, <1>8, <1>13
  <2>2. c >= 20
    BY <1>10, <2>1
  <2>3. Passed(k + 1) = 20
    BY <1>8, <1>9, <1>13, Zenon
  <2> QED
    BY <2>2, <2>3
<1>14. CASE k = 4
  <2>1. o >= 20 /\ w = 4
    BY <1>6, <1>8, <1>14
  <2>2. c >= 24
    BY <1>10, <2>1
  <2>3. Passed(k + 1) = 24
    BY <1>8, <1>9, <1>14, Zenon
  <2> QED
    BY <2>2, <2>3
<1>15. CASE k \in {5, 6}
  <2>1. o >= 24
    BY <1>8, <1>15
  <2>2. c >= 24
    BY <1>10, <2>1
  <2>3. Passed(k + 1) = 24
    BY <1>8, <1>9, <1>15, Zenon
  <2> QED
    BY <2>2, <2>3
<1> QED
  BY <1>2, <1>11, <1>12, <1>13, <1>14, <1>15

LEMMA WholeParts ==
  ASSUME NEW map, map # "message", NEW fields \in Seq(Fields)
  PROVE  LET p == Prologue(map)
             s == Whole(map, fields)
         IN  /\ s \in Seq(Items) /\ Len(p) \in Nat /\ Len(p) >= 5 /\ Len(s) \in Nat
             /\ Len(s) > Len(p)
             /\ \A k \in 1..Len(p) : s[k] = p[k]
             /\ SubSeq(s, 1, Len(s)) = s
             /\ SubSeq(s, Len(p) + 1, Len(s)) = Serialized(fields)
<1> DEFINE p == Prologue(map)
           r == Serialized(fields)
           s == Whole(map, fields)
<1>1. p \in Seq(Items) /\ Len(p) \in Nat /\ Len(p) >= 5
  <2>1. p \in Seq(Items) /\ Len(p) \in {5, 6}
    BY PrologueParts
  <2>2. \A n \in {5, 6} : n \in Nat /\ n >= 5
    BY SMT
  <2> QED
    BY <2>1, <2>2
<1>2. r \in Seq(Items) /\ Len(r) \in Nat /\ Len(r) > 0
  BY SerializedIsLong
<1>3. s = p \o r
  BY DEF Whole
<1> HIDE DEF p, r, s
<1>4. /\ s \in Seq(Items) /\ Len(s) = Len(p) + Len(r)
      /\ \A k \in 1..Len(p) : s[k] = p[k]
      /\ \A k \in 1..Len(r) : s[Len(p) + k] = r[k]
  BY <1>1, <1>2, <1>3, JoinAt
<1>5. Len(s) \in Nat /\ Len(s) > Len(p)
  BY <1>1, <1>2, <1>4
<1>6. SubSeq(s, 1, Len(s)) = s
  BY <1>4, SMT
<1>7. SubSeq(s, Len(p) + 1, Len(s)) = r
  <2> DEFINE t == SubSeq(s, Len(p) + 1, Len(s))
  <2>1. \A i \in (Len(p) + 1)..Len(s) : s[i] \in Items
    BY <1>1, <1>4, <1>5
  <2>2. Len(p) + 1 \in Int /\ Len(s) \in Int /\ Len(p) + 1 =< Len(s)
    BY <1>1, <1>5
  <2>3. /\ t \in Seq(Items)
        /\ Len(t) = Len(s) - (Len(p) + 1) + 1
        /\ \A i \in 1..(Len(s) - (Len(p) + 1) + 1) : t[i] = s[(Len(p) + 1) + i - 1]
    BY <2>1, <2>2, SubSeqProperties
  <2> HIDE DEF t
  <2>4. Len(s) - (Len(p) + 1) + 1 = Len(r)
    BY <1>1, <1>2, <1>4
  <2>5. ASSUME NEW i \in 1..Len(r) PROVE t[i] = r[i]
    <3>1. (Len(p) + 1) + i - 1 = Len(p) + i
      BY <1>1, <1>2
    <3> QED
      BY <1>4, <2>3, <2>4, <3>1
  <2>6. t = r
    BY <1>2, <2>3, <2>4, <2>5, SeqEqual
  <2> QED
    BY <2>6 DEF t
<1> QED
  BY <1>1, <1>4, <1>5, <1>6, <1>7 DEF p, r, s

\* A step within the header, and the last one of it.
LEMMA PrologueNext ==
  ASSUME NEW map, map # "message", NEW fields \in Seq(Fields),
         NEW k \in 1..Len(Prologue(map)), NEW list,
         list = SubSeq(Whole(map, fields), k, Len(Whole(map, fields)))
  PROVE  /\ list # <<>> /\ Head(list) = Prologue(map)[k] /\ Head(list).op = "put"
         /\ Tail(list) = SubSeq(Whole(map, fields), k + 1, Len(Whole(map, fields)))
<1> DEFINE s == Whole(map, fields)
<1>1. /\ s \in Seq(Items) /\ Len(Prologue(map)) \in Nat /\ Len(s) \in Nat
      /\ Len(s) > Len(Prologue(map)) /\ s[k] = Prologue(map)[k]
  BY WholeParts
<1>2. list = SubSeq(s, k, Len(s))
  OBVIOUS
<1> HIDE DEF s
<1>3. k \in 1..Len(s) /\ Len(s) \in k..Len(s)
  BY <1>1
<1>4. Head(list) = s[k] /\ Tail(list) = SubSeq(s, k + 1, Len(s))
  BY <1>1, <1>2, <1>3, HeadTailOfSubSeq
<1>5. list # <<>>
  <2>1. \A i \in k..Len(s) : s[i] \in Items
    BY <1>1, <1>3
  <2>2. k \in Int /\ Len(s) \in Int /\ k =< Len(s)
    BY <1>1, <1>3
  <2>3. Len(list) = Len(s) - k + 1
    BY <1>2, <2>1, <2>2, SubSeqProperties
  <2>4. Len(list) # 0
    BY <2>2, <2>3
  <2>5. Len(<<>>) = 0
    BY SMT
  <2> QED
    BY <2>4, <2>5
<1>6. Head(list).op = "put"
  BY <1>1, <1>4, PrologueParts
<1> QED
  BY <1>1, <1>4, <1>5, <1>6 DEF s

-----------------------------------------------------------------------------
(* The invariant of the two passes.  The size pass is on the run of the    *)
(* message; with the size it counted, so is the write pass, until both     *)
(* end.  In the basic mapping the write pass is in the header, or on the   *)
(* run of the message, but at least 24 bytes ahead of it, which it never   *)
(* makes up for.                                                           *)

ToEnd(o, list) == Run(writer.lang, <<o, list>>, <<size, <<>>>>)

InPrologue ==
  \E k \in 1..Len(Prologue(mapping)) :
    /\ todo = SubSeq(Whole(mapping, message), k, Len(Whole(mapping, message)))
    /\ off >= Passed(k)
Ahead == \E o \in Nat : off >= o + 24 /\ ToEnd(o, todo)

SizeInv == phase = "size" => Run(writer.lang, <<0, Serialized(message)>>, <<off, todo>>)
WriteInv ==
  phase = "write" =>
    /\ ToEnd(0, Serialized(message))
    /\ mapping = "message" => ToEnd(off, todo)
    /\ mapping # "message" => InPrologue \/ Ahead
OtherInv ==
  /\ phase = "idle" => off = 0
  /\ phase = "not_written" => mapping # "message"
PassInv == SizeInv /\ WriteInv /\ OtherInv

LEMMA PassInvInit == CdrInit => PassInv
BY DEF CdrInit, PassInv, SizeInv, WriteInv, OtherInv

LEMMA PassInvStart ==
  ASSUME IInv, PassInv, NEW m \in Messages, NEW map \in Mappings, Start(m, map)
  PROVE  PassInv'
<1>1. /\ phase' = "size" /\ message' = m /\ todo' = Serialized(m) /\ off' = 0
      /\ writer' = writer
  BY DEF Start, PassInv, OtherInv
<1>2. Run(writer.lang, <<0, Serialized(m)>>, <<0, Serialized(m)>>)
  BY DEF Run
<1>3. SizeInv'
  BY <1>1, <1>2 DEF SizeInv
<1> QED
  BY <1>1, <1>3 DEF PassInv, WriteInv, OtherInv

\* The same words before and after a step that keeps the writer and the size.
LEMMA ToEndStays ==
  ASSUME writer' = writer, size' = size, NEW o, NEW list, ToEnd(o, list)
  PROVE  ToEnd(o, list)'
BY DEF ToEnd

LEMMA PassInvSerialize ==
  ASSUME IInv, PassInv, Serialize
  PROVE  PassInv'
<1> DEFINE lang == writer.lang
           head == Head(todo)
<1>1. /\ Writable(todo) /\ phase \in {"size", "write"}
      /\ UnchangedCall /\ UNCHANGED size
      /\ \/ phase' = phase /\ <<off', todo'>> = After(lang, off, todo)
         \/ phase = "write" /\ phase' = "not_written" /\ ~(CursorAfter(off, head) =< size)
  BY SerializeIsAfter
<1>2. /\ off \in Nat /\ todo \in Seq(Items) /\ todo # <<>> /\ size \in Nat
      /\ message \in Seq(Fields)
  BY <1>1 DEF IInv, CdrTypeOK, Writable
<1>3. message' = message /\ mapping' = mapping /\ writer' = writer
  BY <1>1 DEF UnchangedCall
<1>4. CASE phase = "size"
  <2>1. phase' = "size" /\ <<off', todo'>> = After(lang, off, todo)
    BY <1>1, <1>4
  <2>2. Run(lang, <<0, Serialized(message)>>, <<off, todo>>)
    BY <1>4 DEF PassInv, SizeInv
  <2>3. Run(lang, <<0, Serialized(message)>>, <<off', todo'>>)
    BY <1>1, <1>2, <2>1, <2>2, RunOn
  <2>4. SizeInv'
    BY <1>3, <2>3 DEF SizeInv
  <2> QED
    BY <2>1, <2>4 DEF PassInv, WriteInv, OtherInv
<1>5. CASE phase = "write" /\ mapping = "message"
  <2>1. ToEnd(0, Serialized(message)) /\ ToEnd(off, todo)
    BY <1>5 DEF PassInv, WriteInv
  <2>2. <<size, <<>>>> # <<off, todo>>
    BY <1>2
  <2>3. Run(lang, After(lang, off, todo), <<size, <<>>>>)
    BY <1>2, <2>1, <2>2, RunFrom DEF ToEnd
  <2>4. After(lang, off, todo) = <<CursorAfter(off, head), ListAfter(lang, todo)>>
    BY DEF After
  <2>5. size >= CursorAfter(off, head)
    <3>1. CursorAfter(off, head) \in Nat /\ ListAfter(lang, todo) \in Seq(Items)
      BY <1>1, <1>2, AfterIsConfig
    <3> QED
      BY <2>3, <2>4, <3>1, RunGrows
  <2>6. phase' = "write" /\ <<off', todo'>> = After(lang, off, todo)
    <3>1. CursorAfter(off, head) =< size
      BY <2>5
    <3> QED
      BY <1>1, <1>5, <3>1
  <2>7. ToEnd(off, todo)'
    BY <1>1, <1>3, <2>3, <2>6 DEF ToEnd
  <2>8. ToEnd(0, Serialized(message))'
    BY <1>1, <1>3, <2>1 DEF ToEnd
  <2> QED
    BY <1>3, <1>5, <2>6, <2>7, <2>8 DEF PassInv, SizeInv, WriteInv, OtherInv
<1>6. CASE phase = "write" /\ mapping # "message" /\ phase' = "not_written"
  BY <1>3, <1>6 DEF PassInv, SizeInv, WriteInv, OtherInv
<1>7. CASE phase = "write" /\ mapping # "message" /\ phase' # "not_written"
  <2>1. /\ phase' = "write" /\ <<off', todo'>> = After(lang, off, todo)
        /\ off' = CursorAfter(off, head) /\ todo' = ListAfter(lang, todo)
    BY <1>1, <1>7 DEF After
  <2>2. ToEnd(0, Serialized(message)) /\ (InPrologue \/ Ahead)
    BY <1>7 DEF PassInv, WriteInv
  <2>3. ToEnd(0, Serialized(message))'
    BY <1>1, <1>3, <2>2 DEF ToEnd
  <2>4. CASE InPrologue
    <3> DEFINE whole == Whole(mapping, message)
    <3>1. PICK k \in 1..Len(Prologue(mapping)) :
            todo = SubSeq(whole, k, Len(whole)) /\ off >= Passed(k)
      BY <2>4 DEF InPrologue
    <3>2. off' >= Passed(k + 1) /\ todo' = SubSeq(whole, k + 1, Len(whole)) /\ off' \in Nat
      <4>1. /\ todo = SubSeq(Whole(mapping, message), k, Len(Whole(mapping, message)))
            /\ off >= Passed(k) /\ off \in Nat /\ message \in Seq(Fields)
            /\ mapping # "message" /\ k \in 1..Len(Prologue(mapping))
        BY <1>2, <1>7, <3>1
      <4>2. /\ head = Prologue(mapping)[k] /\ head.op = "put"
            /\ Tail(todo) = SubSeq(whole, k + 1, Len(whole))
        BY <4>1, PrologueNext
      <4>3. CursorAfter(off, head) \in Nat /\ CursorAfter(off, head) >= Passed(k + 1)
        BY <4>1, <4>2, PrologueCursor
      <4>4. ListAfter(lang, todo) = Tail(todo)
        BY <4>2 DEF ListAfter
      <4> QED
        BY <2>1, <4>2, <4>3, <4>4
    <3>3. /\ Len(Prologue(mapping)) \in Nat /\ Len(Prologue(mapping)) >= 5
          /\ SubSeq(whole, Len(Prologue(mapping)) + 1, Len(whole)) = Serialized(message)
      BY <1>2, <1>7, WholeParts
    <3>4. CASE k = Len(Prologue(mapping))
      <4>1. Passed(k + 1) = 24
        BY <3>3, <3>4 DEF Passed
      <4>2. off' >= 0 + 24
        BY <3>2, <4>1
      <4>3. ToEnd(0, todo)'
        BY <1>1, <1>3, <2>2, <3>2, <3>3, <3>4 DEF ToEnd
      <4>4. 0 \in Nat
        BY SMT
      <4>5. Ahead'
        BY <4>2, <4>3, <4>4 DEF Ahead
      <4> QED
        BY <1>3, <1>7, <2>1, <2>3, <4>5 DEF PassInv, SizeInv, WriteInv, OtherInv
    <3>5. CASE k # Len(Prologue(mapping))
      <4>1. k + 1 \in 1..Len(Prologue(mapping))
        BY <3>3, <3>5
      <4>2. /\ todo' = SubSeq(Whole(mapping', message'), k + 1, Len(Whole(mapping', message')))
            /\ k + 1 \in 1..Len(Prologue(mapping'))
        BY <1>3, <3>2, <4>1
      <4>3. InPrologue'
        BY <3>2, <4>2 DEF InPrologue
      <4> QED
        BY <1>3, <1>7, <2>1, <2>3, <4>3 DEF PassInv, SizeInv, WriteInv, OtherInv
    <3> QED
      BY <3>4, <3>5
  <2>5. CASE Ahead
    <3>1. PICK o \in Nat : off >= o + 24 /\ ToEnd(o, todo)
      BY <2>5 DEF Ahead
    <3>2. /\ After(lang, o, todo) = <<CursorAfter(o, head), ListAfter(lang, todo)>>
          /\ CursorAfter(o, head) \in Nat /\ head \in Items
      BY <1>1, <1>2, AfterIsConfig DEF After
    <3>3. <<size, <<>>>> # <<o, todo>>
      BY <1>2
    <3>4. Run(lang, <<CursorAfter(o, head), todo'>>, <<size, <<>>>>)
      BY <1>2, <2>1, <3>1, <3>2, <3>3, RunFrom DEF ToEnd
    <3>5. off' >= CursorAfter(o, head) + 24
      BY <1>2, <2>1, <3>1, <3>2, CursorShifts
    <3>6. Run(writer'.lang, <<CursorAfter(o, head), todo'>>, <<size', <<>>>>)
      BY <1>1, <1>3, <3>4
    <3>7. Ahead'
      <4> SUFFICES \E n \in Nat : /\ off' >= n + 24
                                  /\ Run(writer'.lang, <<n, todo'>>, <<size', <<>>>>)
        BY DEF Ahead, ToEnd
      <4> QED
        BY <3>2, <3>5, <3>6
    <3> QED
      BY <1>3, <1>7, <2>1, <2>3, <3>7 DEF PassInv, SizeInv, WriteInv, OtherInv
  <2> QED
    BY <2>2, <2>4, <2>5
<1> QED
  BY <1>1, <1>4, <1>5, <1>6, <1>7

LEMMA PassInvStartWriting ==
  ASSUME IInv, PassInv, NEW fill \in Fill, StartWriting(fill)
  PROVE  PassInv'
<1>1. /\ phase = "size" /\ todo = <<>> /\ phase' = "write" /\ size' = off /\ off' = 0
      /\ todo' = Prologue(mapping) \o Serialized(message)
      /\ message' = message /\ mapping' = mapping /\ writer' = writer
  BY DEF StartWriting, Allocated, UnchangedCall
<1>2. message \in Seq(Fields) /\ Serialized(message) \in Seq(Items)
  BY SerializedAreItems DEF IInv, CdrTypeOK
<1>3. Run(writer.lang, <<0, Serialized(message)>>, <<off, <<>>>>)
  BY <1>1 DEF PassInv, SizeInv
<1>4. ToEnd(0, Serialized(message))'
  BY <1>1, <1>3 DEF ToEnd
<1>5. CASE mapping = "message"
  <2>1. todo' = Serialized(message)
    BY <1>1, <1>2, <1>5, ConcatEmptySeq DEF Prologue
  <2>2. ToEnd(off, todo)'
    BY <1>1, <1>3, <2>1 DEF ToEnd
  <2> QED
    BY <1>1, <1>4, <1>5, <2>2 DEF PassInv, SizeInv, WriteInv, OtherInv
<1>6. CASE mapping # "message"
  <2> DEFINE whole == Whole(mapping, message)
  <2>1. /\ SubSeq(whole, 1, Len(whole)) = whole
        /\ Len(Prologue(mapping)) \in Nat /\ Len(Prologue(mapping)) >= 5
    BY <1>2, <1>6, WholeParts
  <2>2. 1 \in 1..Len(Prologue(mapping)) /\ off' >= Passed(1)
    BY <1>1, <2>1 DEF Passed
  <2>3. todo' = SubSeq(whole, 1, Len(whole))
    BY <1>1, <2>1 DEF Whole
  <2>4. InPrologue'
    <3>1. /\ 1 \in 1..Len(Prologue(mapping')) /\ off' >= Passed(1)
          /\ todo' = SubSeq(Whole(mapping', message'), 1, Len(Whole(mapping', message')))
      BY <1>1, <2>2, <2>3
    <3> QED
      BY <3>1 DEF InPrologue
  <2> QED
    BY <1>1, <1>4, <1>6, <2>4 DEF PassInv, SizeInv, WriteInv, OtherInv
<1> QED
  BY <1>5, <1>6

\* Reading, and the end of a conversion, say nothing of the two passes.
LEMMA DeserializeReads ==
  ASSUME Deserialize
  PROVE  phase' \in {"read", "accepted", "rejected", "escaped"}
BY DEF Deserialize, ReadMember, ReadCount, GetValue, CopyArr, ReadLength, ReadText,
       ReadStruct, Accept, Reading, Reject

LEMMA PassInvStep == IInv /\ PassInv /\ [CdrNext]_cdrVars => PassInv'
<1> SUFFICES ASSUME IInv, PassInv, [CdrNext]_cdrVars PROVE PassInv'
  OBVIOUS
<1>0. ASSUME phase' \in {"read", "accepted", "rejected", "escaped"} PROVE PassInv'
  BY <1>0 DEF PassInv, SizeInv, WriteInv, OtherInv
<1>1. CASE \E m \in Messages, map \in Mappings : Start(m, map)
  BY <1>1, PassInvStart
<1>2. CASE Serialize
  BY <1>2, PassInvSerialize
<1>3. CASE \E fill \in Fill : StartWriting(fill)
  BY <1>3, PassInvStartWriting
<1>4. CASE \E p \in Processes, missing \in Missing : StartReading(p, missing)
  <2>1. phase' \in {"read", "rejected"}
    BY <1>4 DEF StartReading
  <2> QED
    BY <1>0, <2>1
<1>5. CASE Deserialize
  BY <1>0, <1>5, DeserializeReads
<1>6. CASE Return
  BY <1>6 DEF Return, PassInv, SizeInv, WriteInv, OtherInv
<1>7. CASE UNCHANGED cdrVars
  BY <1>7 DEF cdrVars, PassInv, SizeInv, WriteInv, OtherInv, InPrologue, Ahead, ToEnd
<1> QED
  BY <1>1, <1>2, <1>3, <1>4, <1>5, <1>6, <1>7 DEF CdrNext

\* The write pass needs exactly the bytes that the size pass counted, for any
\* message of any type: it throws in the basic mapping only, where it always does,
\* and ends at the last byte (get_serialized_size, serialize of
\* message_serializer.inl, cdr_serialization_buffer.inl).
THEOREM WritePassFits == CdrSpec => []WriteFitsItsSize
<1>1. CdrInit => IInv /\ PassInv
  BY InitStep, PassInvInit
<1>2. IInv /\ PassInv /\ [CdrNext]_cdrVars => (IInv /\ PassInv)'
  BY NextStep, PassInvStep
<1>3. IInv /\ PassInv => WriteFitsItsSize
  <2> SUFFICES ASSUME IInv, PassInv PROVE WriteFitsItsSize
    OBVIOUS
  <2>1. phase = "not_written" => mapping # "message"
    BY DEF PassInv, OtherInv
  <2>2. ASSUME phase = "write", todo = <<>>
        PROVE  mapping = "message" /\ off = size
    <3>1. off \in Nat /\ size \in Nat /\ off =< size /\ message \in Seq(Fields)
      BY <2>2 DEF IInv, CdrTypeOK, InBounds
    <3>2. CASE mapping = "message"
      <4>1. Run(writer.lang, <<off, <<>>>>, <<size, <<>>>>)
        BY <2>2, <3>2 DEF PassInv, WriteInv, ToEnd
      <4>2. size = off
        BY <3>1, <4>1, RunEnds
      <4> QED
        BY <3>2, <4>2
    <3>3. CASE mapping # "message"
      <4>1. InPrologue \/ Ahead
        BY <2>2, <3>3 DEF PassInv, WriteInv
      <4>2. ~InPrologue
        <5> SUFFICES ASSUME InPrologue PROVE FALSE
          OBVIOUS
        <5>1. PICK k \in 1..Len(Prologue(mapping)) :
                /\ todo = SubSeq(Whole(mapping, message), k, Len(Whole(mapping, message)))
                /\ off >= Passed(k)
          BY DEF InPrologue
        <5>2. todo # <<>>
          BY <3>1, <3>3, <5>1, PrologueNext
        <5> QED
          BY <2>2, <5>2
      <4>3. PICK o \in Nat : off >= o + 24 /\ ToEnd(o, todo)
        BY <4>1, <4>2 DEF Ahead
      <4>4. Run(writer.lang, <<o, <<>>>>, <<size, <<>>>>)
        BY <2>2, <4>3 DEF ToEnd
      <4>5. size = o
        BY <4>4, RunEnds
      <4> QED
        BY <3>1, <4>3, <4>5
    <3> QED
      BY <3>2, <3>3
  <2> QED
    BY <2>1, <2>2 DEF WriteFitsItsSize
<1> QED
  BY <1>1, <1>2, <1>3, PTL DEF CdrSpec
=============================================================================
