---------------------------- MODULE CdrReadProofs ----------------------------
(***************************************************************************)
(* For every set of messages and of types, nested to any depth, and for    *)
(* readers of any language and byte order: what is accepted is what was    *)
(* sent, and what arrives whole is accepted, unless a member is written or *)
(* read the wrong way.                                                     *)
(*                                                                         *)
(* The reader follows the writer.  Memory holds the path of the writer:    *)
(* the points it has been at, each with the work list and what it had sent *)
(* there, and behind each point the bytes of its call (Path).  The work    *)
(* list of the reader matches that of the point it is at, entry by entry   *)
(* (Matches).  Neither says how long a list is, so that nothing is shown   *)
(* by induction over one.                                                  *)
(***************************************************************************)
EXTENDS CdrCodecProofs

-----------------------------------------------------------------------------
(* Sequences.                                                              *)

\* One element before a sequence, and what joining does to it.
LEMMA ConsParts ==
  ASSUME NEW S, NEW x \in S, NEW s \in Seq(S)
  PROVE  /\ <<x>> \o s \in Seq(S) /\ <<x>> \o s # <<>>
         /\ Head(<<x>> \o s) = x /\ Tail(<<x>> \o s) = s
BY SMT

LEMMA JoinAssociates ==
  ASSUME NEW S, NEW s \in Seq(S), NEW t \in Seq(S), NEW u \in Seq(S)
  PROVE  (s \o t) \o u = s \o (t \o u)
BY ConcatAssociative, SMT

LEMMA ItemsAssociate ==
  \A u \in Seq(Items), v \in Seq(Items), x \in Seq(Items) : (u \o v) \o x = u \o (v \o x)
BY JoinAssociates

LEMMA ConsJoin ==
  ASSUME NEW S, NEW x \in S, NEW t \in Seq(S), NEW u \in Seq(S)
  PROVE  (<<x>> \o t) \o u = <<x>> \o (t \o u)
<1>1. <<x>> \in Seq(S)
  BY OneIsSeq
<1> QED
  BY <1>1, JoinAssociates

\* The suffixes of a sequence, before another one.
LEMMA SuffixEnds ==
  ASSUME NEW S, NEW s \in Seq(S), NEW r \in Seq(S)
  PROVE  /\ SubSeq(s, Len(s) + 1, Len(s)) \o r = r
         /\ SubSeq(s, 1, Len(s)) \o r = s \o r
<1>1. Len(s) \in Nat
  BY SMT
<1>2. SubSeq(s, Len(s) + 1, Len(s)) = <<>>
  BY <1>1, SubSeqEmpty
<1>3. SubSeq(s, 1, Len(s)) = s
  BY SubSeqFull
<1> QED
  BY <1>2, <1>3, ConcatEmptySeq

LEMMA SuffixStep ==
  ASSUME NEW S, NEW s \in Seq(S), NEW r \in Seq(S), NEW k \in 1..Len(s)
  PROVE  /\ SubSeq(s, k + 1, Len(s)) \o r \in Seq(S)
         /\ SubSeq(s, k, Len(s)) \o r = <<s[k]>> \o (SubSeq(s, k + 1, Len(s)) \o r)
<1> DEFINE t == SubSeq(s, k + 1, Len(s))
<1>1. k \in Nat /\ Len(s) \in Nat /\ Len(s) \in k..Len(s) /\ s[k] \in S
  BY SMT
<1>2. t \in Seq(S)
  <2>1. k + 1 \in Int /\ \A i \in (k + 1)..Len(s) : s[i] \in S
    BY <1>1, SMT
  <2> QED
    BY <1>1, <2>1, SubSeqProperties
<1>3. SubSeq(s, k, Len(s)) = <<s[k]>> \o t
  BY <1>1, SubSeqRecursiveFirst
<1> HIDE DEF t
<1>4. (<<s[k]>> \o t) \o r = <<s[k]>> \o (t \o r)
  BY <1>1, <1>2, ConsJoin
<1> QED
  BY <1>2, <1>3, <1>4, JoinIsSeq DEF t

LEMMA ConsAt ==
  ASSUME NEW S, NEW x \in S, NEW s \in Seq(S)
  PROVE  /\ <<x>> \o s \in Seq(S) /\ Len(<<x>> \o s) = Len(s) + 1
         /\ (<<x>> \o s)[1] = x
         /\ \A i \in 2..(Len(s) + 1) : (<<x>> \o s)[i] = s[i - 1]
BY SMT

LEMMA LenOfMap ==
  ASSUME NEW S, NEW n \in Nat, NEW s \in Seq(S), s \in [1..n -> S]
  PROVE  Len(s) = n
BY SMT

\* A sequence is its head before its tail.
LEMMA ConsOfRest ==
  ASSUME NEW S, NEW s \in Seq(S), s # <<>>
  PROVE  /\ Head(s) \in S /\ Tail(s) \in Seq(S) /\ s = <<Head(s)>> \o Tail(s)
         /\ Len(s) \in Nat \ {0} /\ Len(Tail(s)) = Len(s) - 1 /\ Head(s) = s[1]
         /\ \A i \in 1..Len(Tail(s)) : Tail(s)[i] = s[i + 1]
BY SMT

-----------------------------------------------------------------------------
(* The bytes of a call in memory.                                          *)

\* Memory b has what a call put there at o, up to its first n bytes.
PlaceOf(order, o, w, i, k) == AlignedAt(o, w) + w * (i - 1) + Place(order, w, k)
Holds(order, o, e, b, n) ==
  e.op = "put" =>
    \A i \in 1..Len(e.vals), k \in 1..e.w :
      PlaceOf(order, o, e.w, i, k) =< n => b[PlaceOf(order, o, e.w, i, k)] = e.vals[i][k]

\* The offsets of a byte of the i-th of several values, by width.
LEMMA PlaceInCall ==
  ASSUME NEW w \in Widths, NEW i \in Nat \ {0}, NEW q \in 1..w
  PROVE  /\ w * (i - 1) + q - 1 >= 0
         /\ \A n \in Nat : i =< n => w * (i - 1) + q =< w * n
         /\ (w * (i - 1) + q - 1) \div w = i - 1
         /\ (w * (i - 1) + q - 1) % w = q - 1
<1>1. CASE w = 1
  BY <1>1, SMT
<1>2. CASE w = 2
  BY <1>2, SMT
<1>3. CASE w = 4
  BY <1>3, SMT
<1>4. CASE w = 8
  BY <1>4, SMT
<1> QED
  BY <1>1, <1>2, <1>3, <1>4 DEF Widths

\* The place of a byte is that of another one, and back.
LEMMA PlaceTwice ==
  ASSUME NEW order, NEW w \in Widths, NEW k \in 1..w
  PROVE  /\ Place(order, w, k) \in 1..w
         /\ Place(order, w, Place(order, w, k)) = k
BY SMT DEF Place, Widths

\* In the other byte order a value is where its reverse would be.
LEMMA PlaceReversed ==
  ASSUME NEW a \in Orders, NEW b \in Orders, NEW w \in Widths, NEW k \in 1..w
  PROVE  /\ w + 1 - k \in 1..w
         /\ a = b => Place(a, w, k) = Place(b, w, k)
         /\ a # b => Place(a, w, w + 1 - k) = Place(b, w, k)
<1>1. w + 1 - k \in 1..w /\ w + 1 - (w + 1 - k) = k
  BY SMT DEF Widths
<1> QED
  BY <1>1 DEF Place, Orders

LEMMA ProductOf ==
  ASSUME NEW w \in Widths, NEW i \in Nat \ {0}
  PROVE  w \in Nat /\ w * (i - 1) \in Nat
<1>1. w \in Nat /\ i - 1 \in Nat
  BY SMT DEF Widths
<1> QED
  BY <1>1, ProductIsNat

\* Every byte of a call lies between its aligned beginning and its end.
LEMMA PlaceInBytes ==
  ASSUME NEW order, NEW o \in Nat, NEW w \in Widths, NEW n \in Nat, NEW i \in 1..n,
         NEW k \in 1..w
  PROVE  /\ PlaceOf(order, o, w, i, k) \in Nat
         /\ PlaceOf(order, o, w, i, k) > AlignedAt(o, w)
         /\ PlaceOf(order, o, w, i, k) =< AlignedAt(o, w) + w * n
         /\ AlignedAt(o, w) \in Nat /\ w * n \in Nat
<1> DEFINE q == Place(order, w, k)
           b == w * (i - 1)
           m == w * n
<1>1. q \in 1..w
  BY PlaceTwice
<1>2. i \in Nat \ {0} /\ i =< n
  BY SMT
<1>3. b + q =< m /\ b \in Nat /\ m \in Nat /\ w \in Nat
  BY <1>1, <1>2, PlaceInCall, ProductOf, ProductIsNat
<1>4. AlignedAt(o, w) \in Nat
  BY AlignedGrows
<1>5. q \in Nat /\ q > 0
  BY <1>1, <1>3, SMT
<1>6. PlaceOf(order, o, w, i, k) = AlignedAt(o, w) + b + q
  BY DEF PlaceOf
<1> HIDE DEF q, b, m
<1>7. AlignedAt(o, w) + b + q > AlignedAt(o, w) /\ AlignedAt(o, w) + b + q =< AlignedAt(o, w) + m
  BY <1>3, <1>4, <1>5, SMT
<1>8. AlignedAt(o, w) + b + q \in Nat
  BY <1>3, <1>4, <1>5, SMT
<1> QED
  BY <1>3, <1>4, <1>6, <1>7, <1>8 DEF m

\* What was written is there.
LEMMA WrittenIsThere ==
  ASSUME off \in Nat, size \in Nat, NEW w \in Widths, NEW vals \in Seq(Value(w))
  PROVE  Holds(writer.order, off, Put(w, vals), Written(w, vals), size)
<1> SUFFICES ASSUME NEW i \in 1..Len(vals), NEW k \in 1..w, PlaceOf(writer.order, off, w, i, k) =< size
             PROVE  Written(w, vals)[PlaceOf(writer.order, off, w, i, k)] = vals[i][k]
  BY DEF Holds, Put
<1> DEFINE p == PlaceOf(writer.order, off, w, i, k)
           q == Place(writer.order, w, k)
           b == w * (i - 1)
           a == AlignedAt(off, w)
           j == p - 1 - Aligned(w)
<1>0. Len(vals) \in Nat /\ i \in Nat \ {0} /\ i =< Len(vals)
  BY SMT
<1>1. q \in 1..w /\ Place(writer.order, w, q) = k
  BY PlaceTwice
<1>2. p \in Nat /\ p > a /\ a \in Nat /\ p = a + b + q /\ a = Aligned(w)
  BY <1>0, PlaceInBytes DEF PlaceOf, AlignedAt, Aligned, Padding
<1>3. /\ b + q - 1 >= 0 /\ b + q =< w * Len(vals)
      /\ (b + q - 1) \div w = i - 1 /\ (b + q - 1) % w = q - 1
  BY <1>0, <1>1, PlaceInCall
<1>4. b \in Nat /\ w \in Nat /\ w * Len(vals) \in Nat
  BY <1>0, ProductOf, ProductIsNat
<1>5. q \in Nat
  BY <1>1, <1>4, SMT
<1>6. j = b + q - 1
  <2>1. ASSUME NEW x \in Nat, NEW y \in Nat, NEW z \in Nat
        PROVE  x + y + z - 1 - x = y + z - 1
    BY SMT
  <2>2. a \in Nat /\ b \in Nat /\ q \in Nat /\ p - 1 - Aligned(w) = a + b + q - 1 - a
    BY <1>2, <1>4, <1>5
  <2> HIDE DEF b, q, a, p
  <2> QED
    BY <2>1, <2>2
<1>7. p \in 1..size
  BY <1>2, SMT
<1>8. j >= 0 /\ j < w * Len(vals) /\ (j \div w) + 1 = i /\ (j % w) + 1 = q
  <2> DEFINE m == w * Len(vals)
  <2>1. b + q =< m => b + q - 1 < m
    <3> HIDE DEF b, q, m
    <3> QED
      BY <1>4, <1>5, SMT DEF m
  <2>2. i - 1 + 1 = i /\ q - 1 + 1 = q
    <3> HIDE DEF q
    <3> QED
      BY <1>0, <1>5, SMT
  <2> QED
    BY <1>3, <1>6, <2>1, <2>2
<1>9. Written(w, vals)[p]
        = IF j >= 0 /\ j < w * Len(vals)
          THEN vals[(j \div w) + 1][Place(writer.order, w, (j % w) + 1)] ELSE buf[p]
  BY <1>7 DEF Written
<1> HIDE DEF j, p, q
<1>10. Written(w, vals)[p] = vals[i][Place(writer.order, w, q)]
  BY <1>8, <1>9
<1> QED
  BY <1>1, <1>10 DEF p

\* Writing leaves alone what lies before the cursor.
LEMMA WrittenKeeps ==
  ASSUME off \in Nat, size \in Nat, NEW w \in Widths, NEW vals \in Seq(Value(w)),
         NEW o \in Nat, NEW e \in Items, Holds(writer.order, o, e, buf, size), CursorAfter(o, e) =< off
  PROVE  Holds(writer.order, o, e, Written(w, vals), size)
<1> SUFFICES ASSUME e.op = "put", NEW i \in 1..Len(e.vals), NEW k \in 1..e.w,
                    PlaceOf(writer.order, o, e.w, i, k) =< size
             PROVE  Written(w, vals)[PlaceOf(writer.order, o, e.w, i, k)] = e.vals[i][k]
  BY DEF Holds
<1> DEFINE p == PlaceOf(writer.order, o, e.w, i, k)
<1>1. e.w \in Widths /\ e.vals \in Seq(Value(e.w))
  BY ItemParts
<1>2. Len(e.vals) \in Nat
  BY <1>1, SMT
<1>3. /\ p \in Nat /\ p > AlignedAt(o, e.w) /\ AlignedAt(o, e.w) \in Nat
      /\ p =< AlignedAt(o, e.w) + e.w * Len(e.vals)
  BY <1>1, <1>2, PlaceInBytes
<1>4. p =< off
  <2>1. CursorAfter(o, e) = AlignedAt(o, e.w) + e.w * Len(e.vals)
    BY DEF CursorAfter
  <2>2. CursorAfter(o, e) \in Nat
    BY CursorGrows
  <2> HIDE DEF p
  <2> QED
    BY <1>3, <2>1, <2>2, SMT
<1>5. Aligned(w) \in Nat /\ Aligned(w) >= off
  BY PaddingIsNat
<1>6. p \in 1..size /\ ~(p - 1 - Aligned(w) >= 0)
  <2> HIDE DEF p
  <2> QED
    BY <1>3, <1>4, <1>5, SMT DEF p
<1>7. Written(w, vals)[p] = buf[p]
  BY <1>6 DEF Written
<1> QED
  BY <1>7 DEF Holds

\* What a call put there is what is read with the same width, in any byte order.
LEMMA LoadedIsThere ==
  ASSUME off \in Nat, size \in Nat, writer \in Processes, reader \in Processes,
         NEW w \in Widths, NEW vals \in Seq(Value(w)),
         Holds(writer.order, off, Put(w, vals), buf, size), Fits(w, Len(vals))
  PROVE  Loaded(w, Len(vals)) = vals
<1> DEFINE n == Len(vals)
<1>0. n \in Nat /\ vals \in [1..n -> Value(w)]
  BY SMT
<1>a. writer.order \in Orders /\ reader.order \in Orders
  BY DEF Processes
<1>1. ASSUME NEW i \in 1..n, NEW k \in 1..w
      PROVE  ByteAt(PlaceOf(writer.order, off, w, i, k)) = vals[i][k]
  <2> DEFINE p == PlaceOf(writer.order, off, w, i, k)
  <2>1. /\ p \in Nat /\ p > AlignedAt(off, w) /\ AlignedAt(off, w) \in Nat
        /\ p =< AlignedAt(off, w) + w * n /\ w * n \in Nat
    BY <1>0, PlaceInBytes
  <2>2. AlignedAt(off, w) + w * n =< size
    BY DEF Fits, AlignedAt, Aligned, Padding
  <2>3. p \in 1..size
    <3> DEFINE m == w * n
    <3>1. p =< AlignedAt(off, w) + m /\ AlignedAt(off, w) + m =< size /\ m \in Nat
      BY <2>1, <2>2
    <3> HIDE DEF p, m
    <3> QED
      BY <2>1, <3>1, SMT
  <2>4. buf[p] = vals[i][k]
    <3>1. p =< size
      BY <2>3
    <3> QED
      BY <3>1 DEF Holds, Put
  <2> QED
    BY <2>3, <2>4 DEF ByteAt
<1>2. \A i \in 1..n, k \in 1..w :
        Found(w, n)[i][k] = ByteAt(AlignedAt(off, w) + w * (i - 1) + Place(reader.order, w, k))
  BY DEF Found, AlignedAt, Aligned, Padding
<1>3. w \in Nat
  BY SMT DEF Widths
<1>4. \A i \in 1..n : Found(w, n)[i] = [k \in 1..w |-> Found(w, n)[i][k]]
  BY DEF Found
<1>5. ASSUME NEW i \in 1..n
      PROVE  Loaded(w, n)[i] = vals[i]
  <2>1. vals[i] \in [1..w -> Byte]
    BY <1>0 DEF Value
  <2>2. CASE writer.order = reader.order
    <3>1. \A k \in 1..w : Found(w, n)[i][k] = vals[i][k]
      BY <1>1, <1>2, <2>2 DEF PlaceOf
    <3>2. Found(w, n)[i] = vals[i]
      BY <1>4, <2>1, <3>1
    <3> QED
      BY <2>2, <3>2 DEF Loaded, Swap
  <2>3. CASE writer.order # reader.order
    <3>1. ASSUME NEW k \in 1..w
          PROVE  Found(w, n)[i][w + 1 - k] = vals[i][k] /\ w + 1 - k \in 1..w
      <4>1. /\ w + 1 - k \in 1..w
            /\ Place(reader.order, w, w + 1 - k) = Place(writer.order, w, k)
        BY <1>a, <2>3, PlaceReversed
      <4> QED
        BY <1>1, <1>2, <4>1 DEF PlaceOf
    <3>2. Len(Found(w, n)[i]) = w
      <4>1. Found(w, n)[i] = [k \in 1..w |-> Found(w, n)[i][k]]
        BY <1>4
      <4> QED
        BY <1>3, <4>1, SMT
    <3>3. Bswap(Found(w, n)[i]) = [k \in 1..w |-> Found(w, n)[i][w + 1 - k]]
      BY <3>2 DEF Bswap
    <3>4. Bswap(Found(w, n)[i]) = vals[i]
      BY <2>1, <3>1, <3>3
    <3> QED
      BY <2>3, <3>4 DEF Loaded, Swap
  <2> QED
    BY <2>2, <2>3
<1>6. Loaded(w, n) = [i \in 1..n |-> Loaded(w, n)[i]]
  BY DEF Loaded
<1> QED
  BY <1>0, <1>5, <1>6

-----------------------------------------------------------------------------
(* What the reader reads of what the writer writes.  An entry of its list  *)
(* stands for a segment of the list of the writer, and for the values that *)
(* are read from it.                                                       *)

Data == UNION {ElementsOf(k) : k \in Kinds \ {"message"}}

\* The calls that write values one by one, and texts behind their sizes.
Puts(w, e) == [i \in 1..Len(e) |-> Put(w, <<e[i]>>)]
TextOf(k, x) == IF k = "string" THEN x \o << <<0>> >> ELSE x
TextPuts(k, e) ==
  [i \in 1..(2 * Len(e)) |->
     LET x == TextOf(k, e[(i + 1) \div 2])
     IN  IF i % 2 = 1 THEN Put(4, <<U32(Len(x))>>) ELSE Put(Width[k], x)]

\* The calls of a field behind its count, and what is sent of it.
ItemsOf(f) ==
  LET k == f.type.kind
  IN  IF k = "message" THEN <<StructsItem(f.elems)>>
      ELSE IF k \in Texts THEN TextPuts(k, f.elems)
      ELSE IF ReadOp(f.type) = "copy"
           THEN (IF f.elems = <<>> THEN <<>> ELSE <<Put(Width[k], f.elems)>>)
      ELSE Puts(Width[k], f.elems)
ValuesOf(f) == IF f.type.kind = "message" THEN <<>> ELSE f.elems
SentBy(f) ==
  (IF f.type.shape = "sequence" THEN <<U32(Len(f.elems))>> ELSE <<>>) \o ValuesOf(f)

Truths(k, e) == k = "boolean" => \A i \in 1..Len(e) : e[i] \in {<<0>>, <<1>>}
Short(e) == \A i \in 1..Len(e) : Len(e[i]) + 1 < TooMany

ReadsMember(r, seg, vals) ==
  /\ vals = <<>>
  /\ \E f \in Fields : r = MemberItem(f.type) /\ seg = <<FieldItem(f)>>
ReadsCount(r, seg, vals) ==
  \E f \in Fields :
    /\ f.type.shape = "sequence" /\ r = CountItem(f.type)
    /\ seg = Counted(f, ItemsOf(f)) /\ vals = SentBy(f)
ReadsStructs(r, seg, vals) ==
  /\ vals = <<>>
  /\ \E t \in Types, s \in Seq(Seq(Fields)) :
       /\ \A i \in 1..Len(s) : [j \in DOMAIN s[i] |-> s[i][j].type] = t.of
       /\ r = ReadStructs(t.of, Len(s)) /\ seg = <<StructsItem(s)>>
ReadsValues(r, seg, vals) ==
  \E k \in Kinds \ ({"message"} \cup Texts) :
    /\ vals \in Seq(ElementsOf(k)) /\ vals # <<>>
    /\ \/ /\ r = [op |-> "get", kind |-> k, n |-> Len(vals)]
          /\ Truths(k, vals) /\ seg = Puts(Width[k], vals)
       \/ /\ r = [op |-> "copy", kind |-> k, n |-> Len(vals)] /\ k # "boolean"
          /\ seg = <<Put(Width[k], vals)>>
ReadsTexts(r, seg, vals) ==
  \E k \in Texts :
    /\ vals \in Seq(ElementsOf(k)) /\ vals # <<>>
    /\ \/ /\ r = [op |-> "length", kind |-> k, n |-> Len(vals)]
          /\ Short(vals) /\ seg = TextPuts(k, vals)
       \/ \E x \in ElementsOf(k) :
            /\ vals = <<x>>
            /\ r = TextItem(k, Len(TextOf(k, x)))
            /\ seg = <<Put(Width[k], TextOf(k, x))>>
Reads(r, seg, vals) ==
  \/ ReadsMember(r, seg, vals)
  \/ ReadsCount(r, seg, vals)
  \/ ReadsStructs(r, seg, vals)
  \/ ReadsValues(r, seg, vals)
  \/ ReadsTexts(r, seg, vals)

\* A set of pairs of lists, with the values that are to be read from them, each
\* of which is begun by such an entry, and goes on in the set; at the end of the
\* reader's list only the padding is left.
Roundup == <<Put(4, <<>>)>>
Begun(M, rl, wl, vals) ==
  \/ rl = <<>> /\ wl = Roundup /\ vals = <<>>
  \/ /\ rl # <<>>
     /\ \E seg \in Seq(Items), now \in Seq(Data), rest \in Seq(Items), later \in Seq(Data) :
          /\ Reads(Head(rl), seg, now)
          /\ wl = seg \o rest /\ vals = now \o later
          /\ Head(rl).op # "text" => later = <<>>
          /\ <<Tail(rl), rest, later>> \in M
Follows(M) ==
  \A rl \in Seq(Items), wl \in Seq(Items), vals \in Seq(Data) :
    <<rl, wl, vals>> \in M => Begun(M, rl, wl, vals)
Matches(rl, wl, vals) ==
  /\ rl \in Seq(Items) /\ wl \in Seq(Items) /\ vals \in Seq(Data)
  /\ \E M : Follows(M) /\ <<rl, wl, vals>> \in M

LEMMA RoundupIsItems == Roundup \in Seq(Items)
<1>1. <<>> \in Seq(Value(4))
  BY SMT
<1> QED
  BY <1>1, PutIsItem, OneIsSeq DEF Roundup, Widths

\* What is begun in a set of lists is begun in a larger one.
LEMMA BegunInMore ==
  ASSUME NEW M, NEW N, M \subseteq N, NEW a, NEW b, NEW c, Begun(M, a, b, c)
  PROVE  Begun(N, a, b, c)
BY Zenon DEF Begun

\* At the end only the final padding is left.
LEMMA MatchesEnd == Matches(<<>>, Roundup, <<>>)
<1> DEFINE M == {<< <<>>, Roundup, <<>> >>}
<1>1. <<>> \in Seq(Items) /\ <<>> \in Seq(Data)
  BY EmptySeq
<1>2. Follows(M)
  BY Zenon DEF Follows, Begun
<1> QED
  BY <1>1, <1>2, RoundupIsItems DEF Matches

\* The lists match when their rests do.
LEMMA MatchesMore ==
  ASSUME NEW rl, NEW rest, NEW later, Matches(rl, rest, later),
         NEW r \in Items, NEW seg \in Seq(Items), NEW now \in Seq(Data),
         Reads(r, seg, now), r.op # "text" => later = <<>>
  PROVE  Matches(<<r>> \o rl, seg \o rest, now \o later)
<1> DEFINE new == <<<<r>> \o rl, seg \o rest, now \o later>>
<1>1. /\ rl \in Seq(Items) /\ rest \in Seq(Items) /\ later \in Seq(Data)
      /\ \E M : Follows(M) /\ <<rl, rest, later>> \in M
  BY DEF Matches
<1>2. PICK M : Follows(M) /\ <<rl, rest, later>> \in M
  BY <1>1
<1> DEFINE N == M \cup {new}
<1>3. <<r>> \o rl \in Seq(Items) /\ seg \o rest \in Seq(Items) /\ now \o later \in Seq(Data)
  BY <1>1, OneIsSeq, JoinIsSeq
<1>4. /\ <<r>> \o rl # <<>> /\ Head(<<r>> \o rl) = r /\ Tail(<<r>> \o rl) = rl
  BY <1>1, ConsParts
<1>5. Follows(N)
  <2> SUFFICES ASSUME NEW a \in Seq(Items), NEW b \in Seq(Items), NEW c \in Seq(Data),
                      <<a, b, c>> \in N
               PROVE  Begun(N, a, b, c)
    BY DEF Follows
  <2>1. CASE <<a, b, c>> \in M
    <3>1. Begun(M, a, b, c) /\ M \subseteq N
      BY <1>2, <2>1 DEF Follows
    <3> HIDE DEF N
    <3> QED
      BY <3>1, BegunInMore
  <2>2. CASE <<a, b, c>> = new
    <3>1. a = <<r>> \o rl /\ b = seg \o rest /\ c = now \o later
      BY <2>2
    <3>2. <<Tail(a), rest, later>> \in N
      BY <1>2, <1>4, <3>1
    <3> HIDE DEF N, new
    <3> QED
      BY <1>1, <1>4, <3>1, <3>2 DEF Begun
  <2> QED
    BY <2>1, <2>2
<1>6. new \in N
  OBVIOUS
<1> QED
  BY <1>3, <1>5, <1>6 DEF Matches

Begins(rl, wl, vals) ==
  \E seg \in Seq(Items), now \in Seq(Data), rest \in Seq(Items), later \in Seq(Data) :
    /\ Reads(Head(rl), seg, now)
    /\ wl = seg \o rest /\ vals = now \o later
    /\ Head(rl).op # "text" => later = <<>>
    /\ Matches(Tail(rl), rest, later)

\* Lists that match are at their end, or begin with an entry and match behind it.
LEMMA MatchesParts ==
  ASSUME NEW rl, NEW wl, NEW vals, Matches(rl, wl, vals)
  PROVE  /\ rl \in Seq(Items) /\ wl \in Seq(Items) /\ vals \in Seq(Data)
         /\ rl = <<>> => wl = Roundup /\ vals = <<>>
         /\ rl # <<>> => Begins(rl, wl, vals)
<1>1. /\ rl \in Seq(Items) /\ wl \in Seq(Items) /\ vals \in Seq(Data)
      /\ \E M : Follows(M) /\ <<rl, wl, vals>> \in M
  BY DEF Matches
<1>2. PICK M : Follows(M) /\ <<rl, wl, vals>> \in M
  BY <1>1
<1>3. CASE rl = <<>>
  BY <1>1, <1>2, <1>3 DEF Follows, Begun
<1>4. CASE rl # <<>>
  <2>1. PICK seg \in Seq(Items), now \in Seq(Data), rest \in Seq(Items), later \in Seq(Data) :
          /\ Reads(Head(rl), seg, now)
          /\ wl = seg \o rest /\ vals = now \o later
          /\ Head(rl).op # "text" => later = <<>>
          /\ <<Tail(rl), rest, later>> \in M
    <3>1. Begun(M, rl, wl, vals)
      BY <1>1, <1>2 DEF Follows
    <3> QED
      BY <1>4, <3>1 DEF Begun
  <2>2. Tail(rl) \in Seq(Items)
    BY <1>1, <1>4, RestIsSeq
  <2>3. Matches(Tail(rl), rest, later)
    BY <1>2, <2>1, <2>2 DEF Matches
  <2> QED
    BY <1>1, <1>4, <2>1, <2>3 DEF Begins
<1> QED
  BY <1>3, <1>4

\* Lists whose entries match one by one can be put in front of such lists.
LEMMA MatchesEach ==
  ASSUME NEW rl, NEW wl, Matches(rl, wl, <<>>),
         NEW rs \in Seq(Items), NEW ws \in Seq(Items), Len(rs) = Len(ws),
         \A i \in 1..Len(rs) : Reads(rs[i], <<ws[i]>>, <<>>)
  PROVE  Matches(rs \o rl, ws \o wl, <<>>)
<1> DEFINE n == Len(rs)
           R(k) == SubSeq(rs, k, n) \o rl
           W(k) == SubSeq(ws, k, n) \o wl
<1>1. /\ rl \in Seq(Items) /\ wl \in Seq(Items) /\ <<>> \in Seq(Data)
      /\ \E M : Follows(M) /\ <<rl, wl, <<>>>> \in M
  BY DEF Matches
<1>2. PICK M : Follows(M) /\ <<rl, wl, <<>>>> \in M
  BY <1>1
<1> DEFINE N == M \cup {<<R(k), W(k), <<>>>> : k \in 1..(n + 1)}
<1>3. n \in Nat /\ \A i \in 1..n : rs[i] \in Items /\ ws[i] \in Items
  BY SMT
<1>4. rl \in Seq(Items) /\ wl \in Seq(Items)
  BY <1>1
<1>5. R(n + 1) = rl /\ W(n + 1) = wl /\ R(1) = rs \o rl /\ W(1) = ws \o wl
  <2>1. R(n + 1) = rl /\ R(1) = rs \o rl
    BY <1>4, SuffixEnds
  <2>2. n = Len(ws)
    OBVIOUS
  <2> HIDE DEF n
  <2>3. W(n + 1) = wl /\ W(1) = ws \o wl
    BY <1>4, <2>2, SuffixEnds
  <2> QED
    BY <2>1, <2>3
<1>6. ASSUME NEW k \in 1..n
      PROVE  /\ R(k) = <<rs[k]>> \o R(k + 1) /\ W(k) = <<ws[k]>> \o W(k + 1)
             /\ R(k + 1) \in Seq(Items) /\ W(k + 1) \in Seq(Items)
             /\ k + 1 \in 1..(n + 1)
  <2>1. k \in 1..Len(rs) /\ k \in 1..Len(ws) /\ k + 1 \in 1..(n + 1)
    BY <1>3
  <2>2. R(k) = <<rs[k]>> \o R(k + 1) /\ R(k + 1) \in Seq(Items)
    BY <1>4, <2>1, SuffixStep
  <2>3. n = Len(ws)
    OBVIOUS
  <2> HIDE DEF n
  <2>4. W(k) = <<ws[k]>> \o W(k + 1) /\ W(k + 1) \in Seq(Items)
    BY <1>4, <2>1, <2>3, SuffixStep
  <2> QED
    BY <2>1, <2>2, <2>4
<1>7. Follows(N)
  <2> SUFFICES ASSUME NEW a \in Seq(Items), NEW b \in Seq(Items), NEW c \in Seq(Data),
                      <<a, b, c>> \in N
               PROVE  Begun(N, a, b, c)
    BY DEF Follows
  <2>1. CASE <<a, b, c>> \in M
    <3>1. Begun(M, a, b, c) /\ M \subseteq N
      BY <1>2, <2>1 DEF Follows
    <3> HIDE DEF N
    <3> QED
      BY <3>1, BegunInMore
  <2>2. CASE \E k \in 1..(n + 1) : <<a, b, c>> = <<R(k), W(k), <<>>>>
    <3>1. PICK k \in 1..(n + 1) : <<a, b, c>> = <<R(k), W(k), <<>>>>
      BY <2>2
    <3>2. a = R(k) /\ b = W(k) /\ c = <<>>
      BY <3>1
    <3>3. CASE k = n + 1
      <4>1. <<a, b, c>> \in M
        BY <1>2, <1>5, <3>2, <3>3
      <4> QED
        BY <2>1, <4>1
    <3>4. CASE k # n + 1
      <4>1. k \in 1..n
        BY <1>3, <3>4
      <4>2. /\ a = <<rs[k]>> \o R(k + 1) /\ b = <<ws[k]>> \o W(k + 1)
            /\ R(k + 1) \in Seq(Items) /\ W(k + 1) \in Seq(Items)
            /\ <<R(k + 1), W(k + 1), <<>>>> \in N
        BY <1>6, <3>2, <4>1
      <4>3. rs[k] \in Items /\ <<ws[k]>> \in Seq(Items) /\ Reads(rs[k], <<ws[k]>>, <<>>)
        BY <1>3, <4>1, OneIsSeq
      <4> HIDE DEF N, R, W
      <4>4. a # <<>> /\ Head(a) = rs[k] /\ Tail(a) = R(k + 1)
        BY <4>2, <4>3, ConsParts
      <4>5. c = <<>> \o <<>> /\ <<>> \in Seq(Data)
        BY <1>1, <3>2, ConcatEmptySeq
      <4> QED
        BY <4>2, <4>3, <4>4, <4>5 DEF Begun
    <3> QED
      BY <3>3, <3>4
  <2> QED
    BY <2>1, <2>2
<1>8. 1 \in 1..(n + 1)
  BY <1>3
<1>9. <<rs \o rl, ws \o wl, <<>>>> \in N
  <2>1. <<R(1), W(1), <<>>>> \in N
    BY <1>8
  <2> QED
    BY <1>5, <2>1
<1>10. rs \o rl \in Seq(Items) /\ ws \o wl \in Seq(Items)
  BY <1>1, JoinIsSeq
<1> HIDE DEF N
<1> QED
  BY <1>1, <1>7, <1>9, <1>10 DEF Matches

-----------------------------------------------------------------------------
(* The calls of a field are read by those of its member.                   *)

\* The elements of a kind, and its width.
LEMMA ElementKinds ==
  /\ \A k \in Kinds \ ({"message"} \cup Texts) :
       ElementsOf(k) = Value(Width[k]) /\ Width[k] \in Widths
  /\ \A k \in Texts :
       /\ k \in Kinds \ {"message"}
       /\ ElementsOf(k) = Seq(Value(Width[k])) /\ Width[k] \in Widths
  /\ Width["string"] = 1 /\ Width["wstring"] = 2 /\ Width["32"] = 4
<1>1. \A k \in Texts : k \in Kinds \ {"message"}
  BY DEF Texts, Kinds, Primitives
<1>2. Width["32"] = 4
  BY DEF Width, Kinds, Primitives, Texts
<1> QED
  BY <1>1, <1>2, WidthValues DEF ElementsOf

\* Elements, and counts, are data.
LEMMA ElementsAreData ==
  ASSUME NEW k \in Kinds \ {"message"}
  PROVE  ElementsOf(k) \subseteq Data /\ Seq(ElementsOf(k)) \subseteq Seq(Data)
<1>1. ElementsOf(k) \subseteq Data
  BY DEF Data
<1> QED
  BY <1>1, SeqMonotonic

LEMMA CountIsData ==
  ASSUME NEW n \in Nat
  PROVE  U32(n) \in Data /\ <<U32(n)>> \in Seq(Data)
<1>1. "32" \in Kinds \ ({"message"} \cup Texts)
  BY DEF Kinds, Primitives, Texts
<1>2. U32(n) \in ElementsOf("32")
  BY <1>1, U32IsValue, ElementKinds
<1>3. U32(n) \in Data
  BY <1>1, <1>2, ElementsAreData
<1> QED
  BY <1>3, OneIsSeq

\* A count that is below the bound is read as it was written.
LEMMA CountIsKept ==
  ASSUME NEW n \in Nat, n < TooMany
  PROVE  CountOf(U32(n)) = n
BY SMT DEF CountOf, U32, TooMany

\* The first call of several, and the others.
LEMMA PutsParts ==
  ASSUME NEW w \in Widths, NEW e \in Seq(Value(w))
  PROVE  /\ Puts(w, e) \in Seq(Items)
         /\ e = <<>> => Puts(w, e) = <<>>
         /\ e # <<>> => Puts(w, e) = <<Put(w, <<Head(e)>>)>> \o Puts(w, Tail(e))
<1>1. ASSUME NEW d \in Seq(Value(w))
      PROVE  Puts(w, d) \in Seq(Items) /\ Len(Puts(w, d)) = Len(d)
             /\ \A i \in 1..Len(d) : Puts(w, d)[i] = Put(w, <<d[i]>>)
  <2>1. Len(d) \in Nat /\ \A i \in 1..Len(d) : d[i] \in Value(w)
    BY SMT
  <2>2. \A i \in 1..Len(d) : Put(w, <<d[i]>>) \in Items
    BY <2>1, PutOneIsItem
  <2>3. Puts(w, d) \in [1..Len(d) -> Items]
    BY <2>2 DEF Puts
  <2>4. Puts(w, d) \in Seq(Items)
    BY <2>1, <2>3, MapIsSeq
  <2>5. Len(Puts(w, d)) = Len(d)
    BY <2>1, <2>3, <2>4, SMT
  <2> QED
    BY <2>4, <2>5 DEF Puts
<1>2. ASSUME e = <<>> PROVE Puts(w, e) = <<>>
  <2>1. Len(Puts(w, e)) = 0
    BY <1>1, <1>2, EmptySeq
  <2> QED
    BY <1>1, <2>1, EmptySeq
<1>3. ASSUME e # <<>>
      PROVE  Puts(w, e) = <<Put(w, <<Head(e)>>)>> \o Puts(w, Tail(e))
  <2>1. /\ Head(e) \in Value(w) /\ Head(e) = e[1] /\ Tail(e) \in Seq(Value(w))
        /\ Len(Tail(e)) = Len(e) - 1 /\ Len(e) \in Nat \ {0}
        /\ \A i \in 1..Len(Tail(e)) : Tail(e)[i] = e[i + 1]
    BY <1>3, ConsOfRest
  <2> DEFINE x == Put(w, <<Head(e)>>)
             r == Puts(w, Tail(e))
  <2>2. x \in Items /\ r \in Seq(Items) /\ Len(r) = Len(e) - 1
    BY <1>1, <2>1, PutOneIsItem
  <2>3. \A i \in 1..Len(r) : r[i] = Put(w, <<e[i + 1]>>)
    BY <1>1, <2>1
  <2>4. x = Put(w, <<e[1]>>)
    BY <2>1
  <2>5. \A i \in 1..Len(e) : Puts(w, e)[i] = Put(w, <<e[i]>>)
    BY <1>1
  <2> HIDE DEF x, r
  <2>6. /\ <<x>> \o r \in Seq(Items) /\ Len(<<x>> \o r) = Len(r) + 1
        /\ (<<x>> \o r)[1] = x
        /\ \A i \in 2..(Len(r) + 1) : (<<x>> \o r)[i] = r[i - 1]
    BY <2>2, ConsAt
  <2>7. ASSUME NEW i \in 1..Len(e) PROVE Puts(w, e)[i] = (<<x>> \o r)[i]
    <3>1. CASE i = 1
      BY <2>4, <2>5, <2>6, <3>1
    <3>2. CASE i # 1
      <4>1. i \in 2..(Len(r) + 1) /\ i - 1 \in 1..Len(r) /\ i - 1 + 1 = i
        BY <2>1, <2>2, <3>2
      <4> QED
        BY <2>3, <2>5, <2>6, <4>1
    <3> QED
      BY <3>1, <3>2
  <2>8. Len(Puts(w, e)) = Len(<<x>> \o r)
    BY <1>1, <2>1, <2>2, <2>6
  <2>9. Puts(w, e) = <<x>> \o r
    BY <1>1, <2>6, <2>7, <2>8, SeqEqual
  <2> QED
    BY <2>9 DEF x, r
<1> QED
  BY <1>1, <1>2, <1>3

\* The characters of a text with its null, and the two calls for it.
LEMMA TextParts ==
  ASSUME NEW k \in Texts, NEW x \in ElementsOf(k)
  PROVE  /\ TextOf(k, x) \in Seq(Value(Width[k]))
         /\ k = "string" => Len(TextOf(k, x)) = Len(x) + 1
         /\ k # "string" => Len(TextOf(k, x)) = Len(x)
         /\ Len(x) \in Nat /\ Len(TextOf(k, x)) \in Nat
         /\ Put(4, <<U32(Len(TextOf(k, x)))>>) \in Items
         /\ Put(Width[k], TextOf(k, x)) \in Items
<1>1. x \in Seq(Value(Width[k])) /\ Width[k] \in Widths /\ Len(x) \in Nat
  <2>1. x \in Seq(Value(Width[k])) /\ Width[k] \in Widths
    BY ElementKinds
  <2> QED
    BY <2>1, LenProperties
<1>2. CASE k = "string"
  <2>1. <<0>> \in Value(1) /\ Width[k] = 1
    BY <1>2, ElementKinds, SMT DEF Value, Byte
  <2>2. << <<0>> >> \in Seq(Value(1)) /\ Len(<< <<0>> >>) = 1
    BY <2>1, OneIsSeq
  <2>3. TextOf(k, x) \in Seq(Value(1)) /\ Len(TextOf(k, x)) = Len(x) + 1
    BY <1>1, <1>2, <2>1, <2>2, JoinAt DEF TextOf
  <2>4. Len(TextOf(k, x)) \in Nat
    BY <1>1, <2>3
  <2> QED
    BY <1>1, <1>2, <2>1, <2>3, <2>4, PutIsItem, PutCountIsItem
<1>3. CASE k # "string"
  BY <1>1, <1>3, PutIsItem, PutCountIsItem DEF TextOf
<1> QED
  BY <1>2, <1>3

\* The calls of several texts, and the first two of them.
LEMMA TextPutAt ==
  ASSUME NEW k \in Texts, NEW e \in Seq(ElementsOf(k))
  PROVE  /\ TextPuts(k, e) \in Seq(Items) /\ Len(TextPuts(k, e)) = 2 * Len(e)
         /\ Len(e) \in Nat
         /\ \A i \in 1..(2 * Len(e)) :
              TextPuts(k, e)[i] =
                IF i % 2 = 1 THEN Put(4, <<U32(Len(TextOf(k, e[(i + 1) \div 2])))>>)
                ELSE Put(Width[k], TextOf(k, e[(i + 1) \div 2]))
<1>1. Len(e) \in Nat /\ \A i \in 1..Len(e) : e[i] \in ElementsOf(k)
  BY LenProperties, ElementOfSeq
<1>2. 2 * Len(e) \in Nat /\ \A i \in 1..(2 * Len(e)) : (i + 1) \div 2 \in 1..Len(e)
  BY <1>1, TextIndex
<1> DEFINE n == 2 * Len(e)
           call(i) == IF i % 2 = 1 THEN Put(4, <<U32(Len(TextOf(k, e[(i + 1) \div 2])))>>)
                      ELSE Put(Width[k], TextOf(k, e[(i + 1) \div 2]))
<1>3. ASSUME NEW i \in 1..n PROVE call(i) \in Items
  <2>1. e[(i + 1) \div 2] \in ElementsOf(k)
    BY <1>1, <1>2
  <2> QED
    BY <2>1, TextParts
<1>4. TextPuts(k, e) = [i \in 1..n |-> call(i)]
  BY DEF TextPuts
<1> HIDE DEF call, n
<1>5. TextPuts(k, e) \in [1..n -> Items] /\ n \in Nat
  BY <1>2, <1>3, <1>4 DEF n
<1>6. TextPuts(k, e) \in Seq(Items)
  BY <1>5, MapIsSeq
<1>7. Len(TextPuts(k, e)) = n
  BY <1>5, <1>6, LenOfMap
<1>8. \A i \in 1..n : TextPuts(k, e)[i] = call(i)
  BY <1>4
<1> QED
  BY <1>1, <1>6, <1>7, <1>8 DEF call, n

LEMMA TextPutsParts ==
  ASSUME NEW k \in Texts, NEW e \in Seq(ElementsOf(k)), e # <<>>
  PROVE  LET x == TextOf(k, Head(e))
         IN  /\ TextPuts(k, Tail(e)) \in Seq(Items)
             /\ TextPuts(k, e) = <<Put(4, <<U32(Len(x))>>)>>
                                 \o (<<Put(Width[k], x)>> \o TextPuts(k, Tail(e)))
<1> DEFINE x == TextOf(k, Head(e))
           a == Put(4, <<U32(Len(x))>>)
           b == Put(Width[k], x)
           r == TextPuts(k, Tail(e))
           n == Len(Tail(e))
           s == <<b>> \o r
           t == <<a>> \o s
<1>1. /\ Head(e) \in ElementsOf(k) /\ Head(e) = e[1] /\ Tail(e) \in Seq(ElementsOf(k))
      /\ n = Len(e) - 1 /\ Len(e) \in Nat \ {0}
      /\ \A i \in 1..n : Tail(e)[i] = e[i + 1]
  BY ConsOfRest
<1>2. a \in Items /\ b \in Items
  BY <1>1, TextParts
<1>3. /\ r \in Seq(Items) /\ Len(r) = 2 * n /\ n \in Nat
      /\ \A i \in 1..(2 * n) :
           r[i] = IF i % 2 = 1 THEN Put(4, <<U32(Len(TextOf(k, Tail(e)[(i + 1) \div 2])))>>)
                  ELSE Put(Width[k], TextOf(k, Tail(e)[(i + 1) \div 2]))
  BY <1>1, TextPutAt
<1>4. /\ TextPuts(k, e) \in Seq(Items) /\ Len(TextPuts(k, e)) = 2 * Len(e)
      /\ \A i \in 1..(2 * Len(e)) :
           TextPuts(k, e)[i] =
             IF i % 2 = 1 THEN Put(4, <<U32(Len(TextOf(k, e[(i + 1) \div 2])))>>)
             ELSE Put(Width[k], TextOf(k, e[(i + 1) \div 2]))
  BY TextPutAt
<1>5. x = TextOf(k, e[1]) /\ a = Put(4, <<U32(Len(TextOf(k, e[1])))>>)
      /\ b = Put(Width[k], TextOf(k, e[1]))
  BY <1>1
<1> HIDE DEF x, a, b, r, n
<1>6. /\ s \in Seq(Items) /\ Len(s) = Len(r) + 1 /\ s[1] = b
      /\ \A i \in 2..(Len(r) + 1) : s[i] = r[i - 1]
  BY <1>2, <1>3, ConsAt
<1> HIDE DEF s
<1>7. /\ t \in Seq(Items) /\ Len(t) = Len(s) + 1 /\ t[1] = a
      /\ \A i \in 2..(Len(s) + 1) : t[i] = s[i - 1]
  BY <1>2, <1>6, ConsAt
<1> HIDE DEF t
<1>8. Len(t) = 2 * Len(e) /\ 2 * Len(e) \in Nat
  BY <1>1, <1>3, <1>6, <1>7
<1>9. ASSUME NEW i \in 1..(2 * Len(e)) PROVE TextPuts(k, e)[i] = t[i]
  <2>1. CASE i = 1
    <3>1. i % 2 = 1 /\ (i + 1) \div 2 = 1
      BY <2>1, SMT
    <3> QED
      BY <1>4, <1>5, <1>7, <2>1, <3>1
  <2>2. CASE i = 2
    <3>1. i % 2 # 1 /\ (i + 1) \div 2 = 1
      BY <2>2, SMT
    <3>2. TextPuts(k, e)[i] = b
      BY <1>4, <1>5, <3>1
    <3>3. t[2] = s[1]
      <4>1. 2 \in 2..(Len(s) + 1) /\ 2 - 1 = 1
        BY <1>3, <1>6
      <4> QED
        BY <1>7, <4>1
    <3> QED
      BY <1>6, <2>2, <3>2, <3>3
  <2>3. CASE i # 1 /\ i # 2
    <3> DEFINE j == i - 2
    <3>1. /\ j \in 1..(2 * n) /\ i - 1 \in 2..(Len(r) + 1) /\ i \in 2..(Len(s) + 1)
          /\ i - 1 - 1 = j
      BY <1>1, <1>3, <1>6, <2>3
    <3>2. /\ j % 2 = i % 2 /\ (j + 1) \div 2 + 1 = (i + 1) \div 2
          /\ (j + 1) \div 2 \in 1..n
      BY <1>3, <2>3, <3>1, SMT
    <3>3. t[i] = r[j]
      BY <1>6, <1>7, <3>1
    <3> DEFINE m == (j + 1) \div 2
               m1 == (i + 1) \div 2
    <3>4. Tail(e)[m] = e[m1]
      BY <1>1, <3>2
    <3>5. r[j] = IF j % 2 = 1 THEN Put(4, <<U32(Len(TextOf(k, Tail(e)[m])))>>)
                 ELSE Put(Width[k], TextOf(k, Tail(e)[m]))
      BY <1>3, <3>1
    <3>6. TextPuts(k, e)[i] = IF i % 2 = 1 THEN Put(4, <<U32(Len(TextOf(k, e[m1])))>>)
                              ELSE Put(Width[k], TextOf(k, e[m1]))
      BY <1>4
    <3>7. j % 2 = i % 2
      BY <3>2
    <3> HIDE DEF j, m, m1
    <3> QED
      BY <3>3, <3>4, <3>5, <3>6, <3>7
  <2> QED
    BY <2>1, <2>2, <2>3
<1>10. TextPuts(k, e) = t
  BY <1>4, <1>7, <1>8, <1>9, SeqEqual
<1> QED
  BY <1>3, <1>10 DEF x, a, b, r, s, t

LEMMA TextPutsOfNone ==
  ASSUME NEW k \in Texts
  PROVE  TextPuts(k, <<>>) = <<>>
<1>1. <<>> \in Seq(ElementsOf(k)) /\ Len(<<>>) = 0
  BY EmptySeq
<1>2. TextPuts(k, <<>>) \in Seq(Items) /\ Len(TextPuts(k, <<>>)) = 2 * Len(<<>>)
  BY <1>1, TextPutAt
<1> QED
  BY <1>1, <1>2, EmptySeq

\* What the assumptions say of a field.
LEMMA FieldFits ==
  ASSUME NEW f \in Fields
  PROVE  /\ f.type \in Types /\ f.type.kind \in Kinds /\ f.type.shape \in Shapes
         /\ f.elems \in Seq(ElementsOf(f.type.kind)) /\ Len(f.elems) \in Nat
         /\ f.type.shape = "one" => Len(f.elems) = 1
         /\ f.type.shape = "array" => Len(f.elems) = f.type.size
         /\ f.type.shape = "sequence" => Len(f.elems) < TooMany
         /\ Truths(f.type.kind, f.elems)
         /\ f.type.kind \in Texts => Short(f.elems)
         /\ f.type.kind = "message" =>
              \A i \in 1..Len(f.elems) :
                [j \in DOMAIN f.elems[i] |-> f.elems[i][j].type] = f.type.of
<1>1. f.type \in Types /\ f.elems \in Seq(ElementsOf(f.type.kind))
  BY CdrAssumption
<1>2. f.type.kind \in Kinds /\ f.type.shape \in Shapes
  BY <1>1, CdrAssumption
<1>3. Len(f.elems) \in Nat /\ DOMAIN f.elems = 1..Len(f.elems)
  BY <1>1, LenProperties
<1>4. /\ f.type.shape = "one" => Len(f.elems) = 1
      /\ f.type.shape = "array" => Len(f.elems) = f.type.size
      /\ f.type.shape = "sequence" => Len(f.elems) < TooMany
  BY FieldsFitTypes
<1>5. \A i \in DOMAIN f.elems :
        /\ f.type.kind = "boolean" => f.elems[i] \in {<<0>>, <<1>>}
        /\ f.type.kind \in Texts => Len(f.elems[i]) + 1 < TooMany
        /\ f.type.kind = "message" =>
             [j \in DOMAIN f.elems[i] |-> f.elems[i][j].type] = f.type.of
  BY FieldsFitTypes
<1> QED
  BY <1>1, <1>2, <1>3, <1>4, <1>5 DEF Truths, Short

\* One entry before lists that match, and none.
LEMMA CallMatches ==
  ASSUME NEW rl, NEW wl, Matches(rl, wl, <<>>), NEW r \in Items, NEW seg \in Seq(Items),
         NEW now \in Seq(Data), Reads(r, seg, now)
  PROVE  Matches(<<r>> \o rl, seg \o wl, now)
<1>1. Matches(<<r>> \o rl, seg \o wl, now \o <<>>)
  BY MatchesMore
<1>2. now \o <<>> = now
  BY ConcatEmptySeq
<1> QED
  BY <1>1, <1>2

LEMMA NoneMatches ==
  ASSUME NEW rl, NEW wl, NEW vals, Matches(rl, wl, vals)
  PROVE  Matches(<<>> \o rl, <<>> \o wl, vals)
<1>1. <<>> \o rl = rl /\ <<>> \o wl = wl
  BY ConcatEmptySeq DEF Matches
<1> QED
  BY <1>1

\* So many times operator>> of a value or of a string, and copy_arr.
LEMMA LoopMatches ==
  ASSUME NEW rl, NEW wl, Matches(rl, wl, <<>>), NEW k \in Kinds \ {"message"},
         NEW e \in Seq(ElementsOf(k))
  PROVE  /\ k \notin Texts /\ Truths(k, e) =>
              Matches(Loop("get", k, Len(e)) \o rl, Puts(Width[k], e) \o wl, e)
         /\ k \notin Texts /\ k # "boolean" =>
              Matches(Loop("copy", k, Len(e)) \o rl,
                      (IF e = <<>> THEN <<>> ELSE <<Put(Width[k], e)>>) \o wl, e)
         /\ k \in Texts /\ Short(e) =>
              Matches(Loop("length", k, Len(e)) \o rl, TextPuts(k, e) \o wl, e)
<1>1. e \in Seq(Data) /\ Len(e) \in Nat /\ (e = <<>> <=> Len(e) = 0)
  BY ElementsAreData, EmptySeq, LenProperties
<1>2. k \notin Texts => Width[k] \in Widths /\ e \in Seq(Value(Width[k]))
  BY ElementKinds
<1>3. CASE e = <<>>
  <2>1. \A op : Loop(op, k, Len(e)) = <<>>
    BY <1>1, <1>3 DEF Loop
  <2>2. k \notin Texts => Puts(Width[k], e) = <<>>
    BY <1>2, <1>3, PutsParts
  <2>3. k \in Texts => TextPuts(k, e) = <<>>
    BY <1>3, TextPutsOfNone
  <2>4. Matches(<<>> \o rl, <<>> \o wl, e)
    BY <1>3, NoneMatches
  <2> QED
    BY <1>3, <2>1, <2>2, <2>3, <2>4
<1>4. CASE e # <<>>
  <2> DEFINE r(op) == [op |-> op, kind |-> k, n |-> Len(e)]
  <2>1. ASSUME NEW op \in {"get", "length", "copy"}
        PROVE  r(op) \in Items /\ Loop(op, k, Len(e)) = <<r(op)>>
    BY <1>1, <1>4 DEF Loop, Items
  <2>2. ASSUME k \notin Texts, Truths(k, e)
        PROVE  Matches(Loop("get", k, Len(e)) \o rl, Puts(Width[k], e) \o wl, e)
    <3>1. ReadsValues(r("get"), Puts(Width[k], e), e)
      BY <1>4, <2>2 DEF ReadsValues
    <3>2. Reads(r("get"), Puts(Width[k], e), e)
      BY <3>1 DEF Reads
    <3>3. Puts(Width[k], e) \in Seq(Items)
      BY <1>2, <2>2, PutsParts
    <3>4. r("get") \in Items /\ Loop("get", k, Len(e)) = <<r("get")>>
      BY <2>1
    <3> HIDE DEF r
    <3> QED
      BY <1>1, <3>2, <3>3, <3>4, CallMatches
  <2>3. ASSUME k \notin Texts, k # "boolean"
        PROVE  Matches(Loop("copy", k, Len(e)) \o rl, <<Put(Width[k], e)>> \o wl, e)
    <3>1. ReadsValues(r("copy"), <<Put(Width[k], e)>>, e)
      BY <1>4, <2>3 DEF ReadsValues
    <3>2. Reads(r("copy"), <<Put(Width[k], e)>>, e)
      BY <3>1 DEF Reads
    <3>3. <<Put(Width[k], e)>> \in Seq(Items)
      BY <1>2, <2>3, PutIsItem, OneIsSeq
    <3>4. r("copy") \in Items /\ Loop("copy", k, Len(e)) = <<r("copy")>>
      BY <2>1
    <3> HIDE DEF r
    <3> QED
      BY <1>1, <3>2, <3>3, <3>4, CallMatches
  <2>4. ASSUME k \in Texts, Short(e)
        PROVE  Matches(Loop("length", k, Len(e)) \o rl, TextPuts(k, e) \o wl, e)
    <3>1. ReadsTexts(r("length"), TextPuts(k, e), e)
      BY <1>4, <2>4 DEF ReadsTexts
    <3>2. Reads(r("length"), TextPuts(k, e), e)
      BY <3>1 DEF Reads
    <3>3. TextPuts(k, e) \in Seq(Items)
      BY <2>4, TextPutAt
    <3>4. r("length") \in Items /\ Loop("length", k, Len(e)) = <<r("length")>>
      BY <2>1
    <3> HIDE DEF r
    <3> QED
      BY <1>1, <3>2, <3>3, <3>4, CallMatches
  <2> QED
    BY <1>4, <2>2, <2>3, <2>4
<1> QED
  BY <1>3, <1>4

\* What reads the elements of a field matches what writes them.
LEMMA ElementsMatch ==
  ASSUME NEW f \in Fields, NEW rl, NEW wl, Matches(rl, wl, <<>>)
  PROVE  Matches(Elements(f.type, Len(f.elems)) \o rl, ItemsOf(f) \o wl, ValuesOf(f))
<1> DEFINE k == f.type.kind
           t == f.type
           e == f.elems
<1>1. /\ t \in Types /\ k \in Kinds /\ e \in Seq(ElementsOf(k)) /\ Len(e) \in Nat
      /\ Truths(k, e)
      /\ k \in Texts => Short(e)
      /\ k = "message" => \A i \in 1..Len(e) : [j \in DOMAIN e[i] |-> e[i][j].type] = t.of
  BY FieldFits
<1>2. CASE k = "message"
  <2>1. e \in Seq(Seq(Fields))
    BY <1>1, <1>2 DEF ElementsOf
  <2>2. ReadsStructs(ReadStructs(t.of, Len(e)), <<StructsItem(e)>>, <<>>)
    BY <1>1, <1>2, <2>1 DEF ReadsStructs
  <2>3. Reads(ReadStructs(t.of, Len(e)), <<StructsItem(e)>>, <<>>)
    BY <2>2 DEF Reads
  <2>4. ReadStructs(t.of, Len(e)) \in Items /\ StructsItem(e) \in Items
    <3>1. t.of \in Seq(Types)
      BY <1>1, CdrAssumption
    <3> QED
      BY <1>1, <2>1, <3>1 DEF ReadStructs, StructsItem, Items
  <2>5. <<StructsItem(e)>> \in Seq(Items) /\ <<>> \in Seq(Data)
    BY <2>4, OneIsSeq, EmptySeq
  <2>6. Matches(<<ReadStructs(t.of, Len(e))>> \o rl, <<StructsItem(e)>> \o wl, <<>>)
    BY <2>3, <2>4, <2>5, CallMatches
  <2>7. /\ Elements(t, Len(e)) = <<ReadStructs(t.of, Len(e))>>
        /\ ItemsOf(f) = <<StructsItem(e)>> /\ ValuesOf(f) = <<>>
    BY <1>2 DEF Elements, ItemsOf, ValuesOf
  <2> QED
    BY <2>6, <2>7
<1>3. CASE k # "message"
  <2>0. k \in Kinds \ {"message"} /\ ValuesOf(f) = e /\ Elements(t, Len(e)) = Loop(ReadOp(t), k, Len(e))
    BY <1>1, <1>3 DEF ValuesOf, Elements
  <2>1. /\ k \notin Texts =>
             Matches(Loop("get", k, Len(e)) \o rl, Puts(Width[k], e) \o wl, e)
        /\ k \notin Texts /\ k # "boolean" =>
             Matches(Loop("copy", k, Len(e)) \o rl,
                     (IF e = <<>> THEN <<>> ELSE <<Put(Width[k], e)>>) \o wl, e)
        /\ k \in Texts => Matches(Loop("length", k, Len(e)) \o rl, TextPuts(k, e) \o wl, e)
    BY <1>1, <2>0, LoopMatches
  <2>2. CASE k \in Texts
    <3>1. ReadOp(t) = "length" /\ ItemsOf(f) = TextPuts(k, e)
      BY <1>3, <2>2 DEF ReadOp, ItemsOf
    <3> QED
      BY <2>0, <2>1, <2>2, <3>1
  <2>3. CASE k \notin Texts /\ ReadOp(t) = "copy"
    <3>1. ItemsOf(f) = (IF e = <<>> THEN <<>> ELSE <<Put(Width[k], e)>>) /\ k # "boolean"
      BY <1>3, <2>3 DEF ReadOp, ItemsOf, Primitives
    <3> QED
      BY <2>0, <2>1, <2>3, <3>1
  <2>4. CASE k \notin Texts /\ ReadOp(t) # "copy"
    <3>1. ReadOp(t) = "get" /\ ItemsOf(f) = Puts(Width[k], e)
      BY <1>3, <2>4 DEF ReadOp, ItemsOf
    <3> QED
      BY <2>0, <2>1, <2>4, <3>1
  <2> QED
    BY <2>2, <2>3, <2>4
<1> QED
  BY <1>2, <1>3

\* The members of a message read its fields.
LEMMA MembersMatch ==
  ASSUME NEW rl, NEW wl, Matches(rl, wl, <<>>), NEW fields \in Seq(Fields), NEW types,
         types = [j \in DOMAIN fields |-> fields[j].type]
  PROVE  Matches(MemberItems(types) \o rl, FieldItems(fields) \o wl, <<>>)
<1>1. /\ Len(fields) \in Nat /\ DOMAIN fields = 1..Len(fields)
      /\ \A i \in 1..Len(fields) : fields[i] \in Fields /\ fields[i].type \in Types
  BY LenProperties, ElementOfSeq, CdrAssumption
<1>2. types \in Seq(Types)
  BY <1>1, MapIsSeq
<1>3. DOMAIN types = 1..Len(fields)
  BY <1>1
<1>4. MemberItems(types) \in Seq(Items) /\ FieldItems(fields) \in Seq(Items)
  BY <1>2, MemberItemsAreItems, FieldItemsAreItems
<1>5. /\ MemberItems(types) \in [1..Len(fields) -> Items]
      /\ FieldItems(fields) \in [1..Len(fields) -> Items]
  <2>1. \A s \in Seq(Items) : DOMAIN s = 1..Len(fields) => s \in [1..Len(fields) -> Items]
    BY <1>1, LenProperties
  <2>2. DOMAIN MemberItems(types) = 1..Len(fields) /\ DOMAIN FieldItems(fields) = 1..Len(fields)
    BY <1>1, <1>3 DEF MemberItems, FieldItems
  <2> QED
    BY <1>4, <2>1, <2>2
<1>6. Len(MemberItems(types)) = Len(fields) /\ Len(FieldItems(fields)) = Len(fields)
  BY <1>1, <1>4, <1>5, LenOfMap
<1>7. ASSUME NEW i \in 1..Len(fields)
      PROVE  Reads(MemberItems(types)[i], <<FieldItems(fields)[i]>>, <<>>)
  <2>1. MemberItems(types)[i] = MemberItem(fields[i].type)
    BY <1>1, <1>3 DEF MemberItems
  <2>2. FieldItems(fields)[i] = FieldItem(fields[i])
    BY <1>1 DEF FieldItems
  <2>3. ReadsMember(MemberItem(fields[i].type), <<FieldItem(fields[i])>>, <<>>)
    BY <1>1 DEF ReadsMember
  <2> QED
    BY <2>1, <2>2, <2>3 DEF Reads
<1> QED
  BY <1>4, <1>6, <1>7, MatchesEach

\* A field that is written the way it is read.
Clean(lang, e) ==
  e.op = "field" /\ e.field.type.kind = "wchar" =>
    ~(lang = "c" /\ e.field.type.shape # "one" /\ e.field.elems # <<>>)

\* The calls of a field, and what is sent of it, have their types.
LEMMA ItemsOfAreItems ==
  ASSUME NEW f \in Fields
  PROVE  ItemsOf(f) \in Seq(Items)
<1> DEFINE k == f.type.kind
           e == f.elems
<1>1. k \in Kinds /\ e \in Seq(ElementsOf(k))
  BY FieldFits
<1>2. CASE k = "message"
  <2>1. e \in Seq(Seq(Fields))
    BY <1>1, <1>2 DEF ElementsOf
  <2>2. StructsItem(e) \in Items
    BY <2>1 DEF StructsItem, Items
  <2> QED
    BY <1>2, <2>2, OneIsSeq DEF ItemsOf
<1>3. CASE k # "message" /\ k \in Texts
  BY <1>1, <1>3, TextPutAt DEF ItemsOf
<1>4. CASE k # "message" /\ k \notin Texts
  <2>1. Width[k] \in Widths /\ e \in Seq(Value(Width[k]))
    BY <1>1, <1>4, ElementKinds
  <2>2. Puts(Width[k], e) \in Seq(Items) /\ <<Put(Width[k], e)>> \in Seq(Items)
    BY <2>1, PutsParts, PutIsItem, OneIsSeq
  <2>3. <<>> \in Seq(Items)
    BY EmptySeq
  <2> QED
    BY <1>4, <2>2, <2>3 DEF ItemsOf
<1> QED
  BY <1>2, <1>3, <1>4

LEMMA SentByIsData ==
  ASSUME NEW f \in Fields
  PROVE  ValuesOf(f) \in Seq(Data) /\ SentBy(f) \in Seq(Data)
<1>1. f.type.kind \in Kinds /\ f.elems \in Seq(ElementsOf(f.type.kind)) /\ Len(f.elems) \in Nat
  BY FieldFits
<1>2. <<>> \in Seq(Data)
  BY EmptySeq
<1>3. ValuesOf(f) \in Seq(Data)
  <2>1. CASE f.type.kind = "message"
    BY <1>2, <2>1 DEF ValuesOf
  <2>2. CASE f.type.kind # "message"
    BY <1>1, <2>2, ElementsAreData DEF ValuesOf
  <2> QED
    BY <2>1, <2>2
<1>4. <<U32(Len(f.elems))>> \in Seq(Data)
  BY <1>1, CountIsData
<1> QED
  BY <1>2, <1>3, <1>4, JoinIsSeq DEF SentBy

\* The calls of the serializer for a field without flaw are those above.
LEMMA StringItems ==
  ASSUME NEW f \in Fields, f.type.kind \in Texts
  PROVE  CallsOf(writer.lang, f) = Counted(f, TextPuts(f.type.kind, f.elems))
<1> DEFINE k == f.type.kind
           e == f.elems
           n == 2 * Len(e)
<1>1. e \in Seq(ElementsOf(k)) /\ Len(e) \in Nat
  BY FieldFits
<1>2. \A i \in 1..n : e[(i + 1) \div 2] \in ElementsOf(k)
  <2>1. \A i \in 1..Len(e) : e[i] \in ElementsOf(k)
    BY <1>1, ElementOfSeq
  <2> QED
    BY <1>1, <2>1, TextIndex
<1>3. CASE k = "string"
  <2>1. ASSUME NEW i \in 1..n
        PROVE  /\ Put(4, <<U32(StringSize(e[(i + 1) \div 2]))>>)
                    = Put(4, <<U32(Len(TextOf(k, e[(i + 1) \div 2])))>>)
               /\ Put(1, e[(i + 1) \div 2] \o << <<0>> >>)
                    = Put(Width[k], TextOf(k, e[(i + 1) \div 2]))
    <3> DEFINE s == e[(i + 1) \div 2]
    <3>1. s \in ElementsOf(k)
      BY <1>2
    <3> HIDE DEF s
    <3>2. Len(TextOf(k, s)) = StringSize(s) /\ TextOf(k, s) = s \o << <<0>> >> /\ Width[k] = 1
      BY <1>3, <3>1, TextParts, ElementKinds DEF StringSize, TextOf
    <3>3. /\ Put(4, <<U32(StringSize(s))>>) = Put(4, <<U32(Len(TextOf(k, s)))>>)
          /\ Put(1, s \o << <<0>> >>) = Put(Width[k], TextOf(k, s))
      BY <3>2
    <3> QED
      BY <3>3 DEF s
  <2>2. CallsOf(writer.lang, f) = StringCalls(f)
    BY <1>3, CallsByKind
  <2> QED
    BY <2>1, <2>2 DEF StringCalls, TextPuts
<1>4. CASE k = "wstring"
  <2>1. ASSUME NEW i \in 1..n
        PROVE  /\ Put(4, <<U32(Len(e[(i + 1) \div 2]))>>)
                    = Put(4, <<U32(Len(TextOf(k, e[(i + 1) \div 2])))>>)
               /\ Put(2, e[(i + 1) \div 2]) = Put(Width[k], TextOf(k, e[(i + 1) \div 2]))
    <3>1. TextOf(k, e[(i + 1) \div 2]) = e[(i + 1) \div 2] /\ Width[k] = 2
      BY <1>4, ElementKinds DEF TextOf
    <3> QED
      BY <3>1
  <2>2. CallsOf(writer.lang, f) = WstringCalls(f)
    BY <1>4, CallsByKind
  <2> QED
    BY <2>1, <2>2 DEF WstringCalls, TextPuts
<1> QED
  BY <1>3, <1>4 DEF Texts

LEMMA PutsOfOne ==
  ASSUME NEW w \in Widths, NEW e \in Seq(Value(w)), Len(e) = 1
  PROVE  Puts(w, e) = <<Put(w, e)>>
<1> DEFINE x == Head(e)
           r == Tail(e)
<1>1. e # <<>>
  BY EmptySeq
<1>2. x \in Value(w) /\ r \in Seq(Value(w)) /\ e = <<x>> \o r /\ Len(r) = Len(e) - 1
  BY <1>1, ConsOfRest
<1>3. Puts(w, e) = <<Put(w, <<x>>)>> \o Puts(w, r)
  BY <1>1, PutsParts
<1> HIDE DEF x, r
<1>4. r = <<>>
  <2>1. Len(r) = 0
    BY <1>2
  <2> QED
    BY <1>2, <2>1, EmptySeq
<1>5. Puts(w, r) = <<>>
  BY <1>2, <1>4, PutsParts
<1>6. <<x>> \in Seq(Value(w)) /\ <<Put(w, <<x>>)>> \in Seq(Items)
  BY <1>2, PutOneIsItem, OneIsSeq
<1>7. e = <<x>>
  BY <1>2, <1>4, <1>6, ConcatEmptySeq
<1>8. Puts(w, e) = <<Put(w, <<x>>)>>
  BY <1>3, <1>5, <1>6, ConcatEmptySeq
<1> QED
  BY <1>7, <1>8

\* The calls that a field unfolds into are those that are read, behind its count.
LEMMA FieldCalls ==
  ASSUME NEW f \in Fields, Clean(writer.lang, FieldItem(f))
  PROVE  CallsOf(writer.lang, f) = Counted(f, ItemsOf(f))
<1> DEFINE k == f.type.kind
           e == f.elems
<1>1. /\ k \in Kinds /\ e \in Seq(ElementsOf(k)) /\ Len(e) \in Nat
      /\ f.type.shape \in Shapes /\ (f.type.shape = "one" => Len(e) = 1)
      /\ DOMAIN e = 1..Len(e) /\ (e = <<>> <=> Len(e) = 0)
  BY FieldFits, LenProperties, EmptySeq
<1>2. CASE k = "message"
  <2>1. CallsOf(writer.lang, f) = StructCalls(f)
    BY <1>2, CallsByKind
  <2> QED
    BY <1>2, <2>1 DEF StructCalls, ItemsOf
<1>3. CASE k \in Texts
  <2>1. ItemsOf(f) = TextPuts(k, e)
    BY <1>3 DEF ItemsOf, Texts
  <2> QED
    BY <1>3, <2>1, StringItems
<1>4. CASE k = "boolean"
  <2>1. CallsOf(writer.lang, f) = BooleanCalls(f)
    BY <1>4, CallsByKind
  <2>2. ItemsOf(f) = Puts(1, e)
    BY <1>4, WidthValues DEF ItemsOf, ReadOp, Texts, Primitives
  <2> QED
    BY <1>1, <2>1, <2>2 DEF BooleanCalls, Puts
<1>5. CASE k \in Primitives
  <2>1. CallsOf(writer.lang, f) = PrimitiveCalls(f)
    BY <1>5, CallsByKind
  <2>2. k # "message" /\ k \notin Texts /\ k \in Kinds
    BY <1>5 DEF Primitives, Texts, Kinds
  <2>3. Width[k] \in Widths /\ e \in Seq(Value(Width[k]))
    BY <1>1, <2>2, ElementKinds
  <2>4. CASE f.type.shape # "one"
    <3>1. ReadOp(f.type) = "copy"
      BY <1>5, <2>2, <2>4 DEF ReadOp
    <3> QED
      BY <2>1, <2>2, <3>1 DEF PrimitiveCalls, ItemsOf
  <2>5. CASE f.type.shape = "one"
    <3>1. ItemsOf(f) = Puts(Width[k], e)
      BY <2>2, <2>5 DEF ReadOp, ItemsOf
    <3>2. Len(e) = 1
      BY <1>1, <2>5
    <3>3. e # <<>>
      BY <1>1, <3>2
    <3>4. Puts(Width[k], e) = <<Put(Width[k], e)>>
      BY <2>3, <3>2, PutsOfOne
    <3> QED
      BY <2>1, <3>1, <3>3, <3>4 DEF PrimitiveCalls
  <2> QED
    BY <2>4, <2>5
<1>6. CASE k = "wchar"
  <2>1. CallsOf(writer.lang, f) = WcharCalls(f)
    BY <1>6, CallsByKind
  <2>2. ~WcharFlawed(f)
    BY <1>6 DEF Clean, FieldItem, WcharFlawed
  <2>3. ItemsOf(f) = Puts(2, e)
    BY <1>6, WidthValues DEF ItemsOf, ReadOp, Texts, Primitives
  <2>4. CASE writer.lang # "c" \/ f.type.shape = "one"
    BY <1>1, <2>1, <2>3, <2>4 DEF WcharCalls, Puts
  <2>5. CASE ~(writer.lang # "c" \/ f.type.shape = "one")
    <3>1. Len(e) = 0
      BY <1>1, <2>2, <2>5 DEF WcharFlawed
    <3>2. 1..Len(e) = {}
      BY <3>1
    <3>3. Puts(2, e) = <<>>
      <4>1. e = <<>> /\ 2 \in Widths /\ e \in Seq(Value(2))
        BY <1>1, <3>1, EmptySeq DEF Widths
      <4> QED
        BY <4>1, PutsParts
    <3>4. [i \in DOMAIN e |->
             IF writer.lang = "c" /\ f.type.shape = "sequence"
             THEN Put(4, << <<0, 0, e[i][1], e[i][2]>> >>)
             ELSE Put(2, <<e[i]>>)] = Puts(2, e)
      BY <1>1, <3>2 DEF Puts
    <3> QED
      BY <2>1, <2>3, <2>5, <3>3, <3>4 DEF WcharCalls, Counted
  <2> QED
    BY <2>4, <2>5
<1> QED
  BY <1>1, <1>2, <1>3, <1>4, <1>5, <1>6 DEF Kinds

-----------------------------------------------------------------------------
(* The path of the writer.  Where it has been, with its list and with what *)
(* it had sent, up to where it is: from each such point its next step has  *)
(* led to another one, and what it put there is still in memory.  The      *)
(* reader follows this path.                                               *)

SentAfter(s, e) == IF e.op = "field" THEN s \o SentBy(e.field) ELSE s

\* The step from a point p, l, s that is behind the cursor o.
Stepped(wr, V, p, l, s, o, b, n) ==
  /\ Writable(l)
  /\ Clean(wr.lang, Head(l))
  /\ Holds(wr.order, p, Head(l), b, n)
  /\ CursorAfter(p, Head(l)) =< o
  /\ <<CursorAfter(p, Head(l)), ListAfter(wr.lang, l), SentAfter(s, Head(l))>> \in V
Path(wr, V, o, list, all, b, n) ==
  /\ <<o, list, all>> \in V
  /\ \A p \in Nat, l \in Seq(Items), s \in Seq(Data) :
       <<p, l, s>> \in V =>
         \/ p = o /\ l = list /\ s = all
         \/ Stepped(wr, V, p, l, s, o, b, n)
OnPath(wr, p, l, s, o, list, all, b, n) ==
  /\ p \in Nat /\ l \in Seq(Items) /\ s \in Seq(Data)
  /\ \E V : Path(wr, V, o, list, all, b, n) /\ <<p, l, s>> \in V

\* A path begins where the writer is.
LEMMA PathBegins ==
  ASSUME NEW wr, NEW o \in Nat, NEW list \in Seq(Items), NEW all \in Seq(Data), NEW b, NEW n
  PROVE  OnPath(wr, o, list, all, o, list, all, b, n)
<1> DEFINE V == {<<o, list, all>>}
<1>1. \A p, l, s : <<p, l, s>> \in V => p = o /\ l = list /\ s = all
  OBVIOUS
<1>2. <<o, list, all>> \in V
  OBVIOUS
<1> HIDE DEF V
<1>3. Path(wr, V, o, list, all, b, n)
  BY <1>1, <1>2, Zenon DEF Path
<1> QED
  BY <1>2, <1>3 DEF OnPath

\* A step of the writer makes the path longer, if it keeps what is behind it.
LEMMA PathGrows ==
  ASSUME NEW wr, NEW p, NEW l, NEW s, NEW o \in Nat, NEW list \in Seq(Items),
         NEW all \in Seq(Data), NEW b, NEW c, NEW n,
         OnPath(wr, p, l, s, o, list, all, b, n),
         Writable(list), Clean(wr.lang, Head(list)),
         Holds(wr.order, o, Head(list), c, n),
         \A q \in Nat, e \in Items :
           Holds(wr.order, q, e, b, n) /\ CursorAfter(q, e) =< o => Holds(wr.order, q, e, c, n)
  PROVE  OnPath(wr, p, l, s, CursorAfter(o, Head(list)), ListAfter(wr.lang, list),
                SentAfter(all, Head(list)), c, n)
<1> DEFINE o2 == CursorAfter(o, Head(list))
           list2 == ListAfter(wr.lang, list)
           all2 == SentAfter(all, Head(list))
<1>1. /\ p \in Nat /\ l \in Seq(Items) /\ s \in Seq(Data)
      /\ \E V : Path(wr, V, o, list, all, b, n) /\ <<p, l, s>> \in V
  BY DEF OnPath
<1>2. PICK V : Path(wr, V, o, list, all, b, n) /\ <<p, l, s>> \in V
  BY <1>1
<1> DEFINE W == V \cup {<<o2, list2, all2>>}
<1>3. V \subseteq W /\ <<o2, list2, all2>> \in W
  OBVIOUS
<1>4. Head(list) \in Items /\ o2 \in Nat /\ o2 >= o
  <2>1. Head(list) \in Items
    BY RestIsSeq DEF Writable
  <2> QED
    BY <2>1, CursorGrows
<1>5. ASSUME NEW q \in Nat, NEW k \in Seq(Items), NEW t \in Seq(Data), <<q, k, t>> \in V
      PROVE  Stepped(wr, W, q, k, t, o2, c, n)
  <2>1. CASE q = o /\ k = list /\ t = all
    <3>1. Stepped(wr, W, o, list, all, o2, c, n)
      <4> HIDE DEF W
      <4>1. CursorAfter(o, Head(list)) =< o2
        BY <1>4
      <4> QED
        BY <1>3, <4>1 DEF Stepped
    <3> QED
      BY <2>1, <3>1
  <2>2. CASE Stepped(wr, V, q, k, t, o, b, n)
    <3> DEFINE e == Head(k)
    <3>1. /\ Writable(k) /\ Clean(wr.lang, e) /\ Holds(wr.order, q, e, b, n)
          /\ CursorAfter(q, e) =< o
          /\ <<CursorAfter(q, e), ListAfter(wr.lang, k), SentAfter(t, e)>> \in V
      BY <2>2 DEF Stepped
    <3>2. e \in Items
      BY <3>1, RestIsSeq DEF Writable
    <3>3. CursorAfter(q, e) \in Nat
      BY <3>2, CursorGrows
    <3>4. CursorAfter(q, e) =< o2
      BY <1>4, <3>1, <3>3
    <3>5. Holds(wr.order, q, e, c, n)
      BY <3>1, <3>2
    <3> HIDE DEF W, o2
    <3> QED
      BY <1>3, <3>1, <3>4, <3>5 DEF Stepped
  <2>3. (q = o /\ k = list /\ t = all) \/ Stepped(wr, V, q, k, t, o, b, n)
    BY <1>2, <1>5 DEF Path
  <2> HIDE DEF W, o2
  <2> QED
    BY <2>1, <2>2, <2>3
<1>6. ASSUME NEW q \in Nat, NEW k \in Seq(Items), NEW t \in Seq(Data), <<q, k, t>> \in W
      PROVE  \/ q = o2 /\ k = list2 /\ t = all2
             \/ Stepped(wr, W, q, k, t, o2, c, n)
  <2>1. CASE <<q, k, t>> \in V
    BY <1>5, <2>1
  <2>2. CASE <<q, k, t>> = <<o2, list2, all2>>
    <3>1. q = o2 /\ k = list2 /\ t = all2
      BY <2>2
    <3> QED
      BY <3>1
  <2> QED
    BY <1>6, <2>1, <2>2
<1> HIDE DEF W, o2, list2, all2
<1>7. Path(wr, W, o2, list2, all2, c, n)
  BY <1>3, <1>6 DEF Path
<1>8. OnPath(wr, p, l, s, o2, list2, all2, c, n)
  BY <1>1, <1>2, <1>3, <1>7 DEF OnPath
<1> QED
  BY <1>8 DEF o2, list2, all2

\* What is left of the path when the end of the memory is cut off.
LEMMA PathShrinks ==
  ASSUME NEW wr, NEW p, NEW l, NEW s, NEW o, NEW list, NEW all, NEW b, NEW c,
         NEW n \in Nat, NEW m \in Nat, m =< n, \A i \in 1..m : c[i] = b[i],
         OnPath(wr, p, l, s, o, list, all, b, n)
  PROVE  OnPath(wr, p, l, s, o, list, all, c, m)
<1>1. /\ p \in Nat /\ l \in Seq(Items) /\ s \in Seq(Data)
      /\ \E V : Path(wr, V, o, list, all, b, n) /\ <<p, l, s>> \in V
  BY DEF OnPath
<1>2. PICK V : Path(wr, V, o, list, all, b, n) /\ <<p, l, s>> \in V
  BY <1>1
<1>3. ASSUME NEW q \in Nat, NEW e \in Items, Holds(wr.order, q, e, b, n)
      PROVE  Holds(wr.order, q, e, c, m)
  <2> SUFFICES ASSUME e.op = "put", NEW i \in 1..Len(e.vals), NEW k \in 1..e.w,
                      PlaceOf(wr.order, q, e.w, i, k) =< m
               PROVE  c[PlaceOf(wr.order, q, e.w, i, k)] = e.vals[i][k]
    BY DEF Holds
  <2> DEFINE x == PlaceOf(wr.order, q, e.w, i, k)
  <2>1. e.w \in Widths /\ e.vals \in Seq(Value(e.w))
    BY ItemParts
  <2>2. Len(e.vals) \in Nat
    BY <2>1, LenProperties
  <2>3. x \in Nat /\ x > AlignedAt(q, e.w) /\ AlignedAt(q, e.w) \in Nat
    BY <2>1, <2>2, PlaceInBytes
  <2>4. x =< m
    OBVIOUS
  <2>5. b[x] = e.vals[i][k] \/ ~(x =< n)
    BY <1>3 DEF Holds
  <2> HIDE DEF x
  <2>6. x \in 1..m /\ x =< n
    BY <2>3, <2>4
  <2>7. c[x] = e.vals[i][k]
    BY <2>5, <2>6
  <2> QED
    BY <2>7 DEF x
<1>4. ASSUME NEW q \in Nat, NEW k \in Seq(Items), NEW t \in Seq(Data),
             Stepped(wr, V, q, k, t, o, b, n)
      PROVE  Stepped(wr, V, q, k, t, o, c, m)
  <2>1. Head(k) \in Items
    BY <1>4, RestIsSeq DEF Stepped, Writable
  <2>2. Holds(wr.order, q, Head(k), c, m)
    BY <1>3, <1>4, <2>1 DEF Stepped
  <2> QED
    BY <1>4, <2>2 DEF Stepped
<1>5. Path(wr, V, o, list, all, c, m)
  BY <1>2, <1>4 DEF Path
<1> QED
  BY <1>1, <1>2, <1>5 DEF OnPath

\* A point of the path that is not its end, and where it leads.
LEMMA PathOn ==
  ASSUME NEW p, NEW l, NEW s, NEW o, NEW list, NEW all, NEW b, NEW n,
         OnPath(writer, p, l, s, o, list, all, b, n), l # list
  PROVE  /\ Writable(l) /\ Head(l) \in Items /\ Clean(writer.lang, Head(l))
         /\ Holds(writer.order, p, Head(l), b, n)
         /\ CursorAfter(p, Head(l)) \in Nat /\ CursorAfter(p, Head(l)) =< o
         /\ OnPath(writer, CursorAfter(p, Head(l)), ListAfter(writer.lang, l), SentAfter(s, Head(l)),
                   o, list, all, b, n)
<1>1. /\ p \in Nat /\ l \in Seq(Items) /\ s \in Seq(Data)
      /\ \E V : Path(writer, V, o, list, all, b, n) /\ <<p, l, s>> \in V
  BY DEF OnPath
<1>2. PICK V : Path(writer, V, o, list, all, b, n) /\ <<p, l, s>> \in V
  BY <1>1
<1>3. Stepped(writer, V, p, l, s, o, b, n)
  BY <1>1, <1>2 DEF Path
<1>4. Writable(l) /\ Clean(writer.lang, Head(l)) /\ Holds(writer.order, p, Head(l), b, n)
      /\ CursorAfter(p, Head(l)) =< o
      /\ <<CursorAfter(p, Head(l)), ListAfter(writer.lang, l), SentAfter(s, Head(l))>> \in V
  BY <1>3 DEF Stepped
<1>5. /\ Head(l) \in Items /\ CursorAfter(p, Head(l)) \in Nat
      /\ ListAfter(writer.lang, l) \in Seq(Items)
  BY <1>1, <1>4, AfterIsConfig
<1>6. SentAfter(s, Head(l)) \in Seq(Data)
  <2>1. CASE Head(l).op = "field"
    <3>1. Head(l).field \in Fields
      BY <1>5, <2>1, ItemParts
    <3>2. SentBy(Head(l).field) \in Seq(Data)
      BY <3>1, SentByIsData
    <3> QED
      BY <1>1, <2>1, <3>2, JoinIsSeq DEF SentAfter
  <2>2. CASE Head(l).op # "field"
    BY <1>1, <2>2 DEF SentAfter
  <2> QED
    BY <2>1, <2>2
<1> QED
  BY <1>2, <1>4, <1>5, <1>6 DEF OnPath

-----------------------------------------------------------------------------
(* What the serializer does to the memory and to what it has sent.         *)

\* A member that unfolds is sent; a flaw stays; and what a call writes.
LEMMA UnfoldSends ==
  ASSUME IInv, NEW kinds, FieldAt(kinds), sent \in Seq(Data), NEW calls,
         Unfold(Head(todo).field, calls)
  PROVE  /\ got' = got /\ buf' = buf /\ Head(todo).op = "field"
         /\ phase = "size" => sent' = sent
         /\ phase = "write" => sent' = SentAfter(sent, Head(todo))
<1> DEFINE f == Head(todo).field
           count == IF f.type.shape = "sequence" THEN <<U32(Len(f.elems))>> ELSE <<>>
<1>1. f \in Fields /\ Head(todo).op = "field"
  BY FieldIsField DEF FieldAt
<1>2. Len(f.elems) \in Nat /\ ValuesOf(f) \in Seq(Data)
  BY <1>1, FieldFits, SentByIsData
<1>3. count \in Seq(Data)
  BY <1>2, CountIsData, EmptySeq
<1>4. SentBy(f) = count \o ValuesOf(f)
  BY DEF SentBy
<1>5. got' = got /\ buf' = buf /\ sent' = IF phase = "size" THEN sent
                                         ELSE sent \o count \o ValuesOf(f)
  BY DEF Unfold, ValuesOf
<1> HIDE DEF count, f
<1>6. (sent \o count) \o ValuesOf(f) = sent \o (count \o ValuesOf(f))
  <2> DEFINE v == ValuesOf(f)
  <2>1. v \in Seq(Data)
    BY <1>2
  <2> HIDE DEF v
  <2>2. (sent \o count) \o v = sent \o (count \o v)
    BY <1>3, <2>1, JoinAssociates
  <2> QED
    BY <2>2 DEF v
<1>7. phase = "write" => sent' = sent \o SentBy(f)
  BY <1>4, <1>5, <1>6
<1> QED
  BY <1>1, <1>5, <1>7 DEF SentAfter, f

LEMMA FlawStays ==
  ASSUME IInv, Serialize, ~flawed'
  PROVE  ~flawed
BY DEF Serialize, SerializeBoolean, SerializePrimitive, SerializeWchar, SerializeString,
       SerializeWstring, SerializeStructArr, SerializeStruct, PutValues

LEMMA SentAfterIsData ==
  ASSUME NEW s \in Seq(Data), NEW e \in Items
  PROVE  SentAfter(s, e) \in Seq(Data)
<1>1. CASE e.op = "field"
  <2>1. SentBy(e.field) \in Seq(Data)
    BY <1>1, ItemParts, SentByIsData
  <2> QED
    BY <1>1, <2>1, JoinIsSeq DEF SentAfter
<1>2. CASE e.op # "field"
  BY <1>2 DEF SentAfter
<1> QED
  BY <1>1, <1>2

LEMMA SerializeSends ==
  ASSUME IInv, Serialize, sent \in Seq(Data)
  PROVE  /\ got' = got
         /\ phase = "size" => sent' = sent
         /\ phase = "write" /\ phase' = "write" => sent' = SentAfter(sent, Head(todo))
         /\ ~flawed' => ~flawed /\ Clean(writer.lang, Head(todo))
         /\ phase = "write" /\ phase' = "write" =>
              buf' = IF Head(todo).op = "put"
                     THEN Written(Head(todo).w, Head(todo).vals) ELSE buf
<1> DEFINE f == Head(todo).field
<1>0. ASSUME NEW kinds, FieldAt(kinds), NEW calls, Unfold(f, calls),
             "wchar" \notin kinds, flawed' = flawed
      PROVE  /\ got' = got
             /\ phase = "size" => sent' = sent
             /\ phase = "write" /\ phase' = "write" => sent' = SentAfter(sent, Head(todo))
             /\ ~flawed' => ~flawed /\ Clean(writer.lang, Head(todo))
             /\ phase = "write" /\ phase' = "write" =>
                  buf' = IF Head(todo).op = "put"
                         THEN Written(Head(todo).w, Head(todo).vals) ELSE buf
  <2>1. /\ got' = got /\ buf' = buf /\ Head(todo).op = "field"
        /\ phase = "size" => sent' = sent
        /\ phase = "write" => sent' = SentAfter(sent, Head(todo))
    BY <1>0, UnfoldSends
  <2>2. Clean(writer.lang, Head(todo))
    BY <1>0 DEF Clean, FieldAt
  <2> QED
    BY <1>0, <2>1, <2>2
<1>1. CASE SerializeBoolean
  <2>1. "wchar" \notin {"boolean"}
    OBVIOUS
  <2> QED
    BY <1>0, <1>1, <2>1 DEF SerializeBoolean
<1>2. CASE SerializePrimitive
  <2>1. "wchar" \notin Primitives
    BY DEF Primitives
  <2> QED
    BY <1>0, <1>2, <2>1 DEF SerializePrimitive
<1>3. CASE SerializeWchar
  <2>1. FieldAt({"wchar"}) /\ Unfold(f, WcharCalls(f)) /\ flawed' = (flawed \/ WcharFlawed(f))
    BY <1>3 DEF SerializeWchar
  <2>2. /\ got' = got /\ buf' = buf /\ Head(todo).op = "field"
        /\ phase = "size" => sent' = sent
        /\ phase = "write" => sent' = SentAfter(sent, Head(todo))
    BY <2>1, UnfoldSends
  <2>3. ~flawed' => ~flawed /\ Clean(writer.lang, Head(todo))
    BY <2>1 DEF Clean, WcharFlawed
  <2> QED
    BY <2>2, <2>3
<1>4. CASE SerializeString
  <2>1. "wchar" \notin {"string"}
    OBVIOUS
  <2> QED
    BY <1>0, <1>4, <2>1 DEF SerializeString
<1>5. CASE SerializeWstring
  <2>1. "wchar" \notin {"wstring"}
    OBVIOUS
  <2> QED
    BY <1>0, <1>5, <2>1 DEF SerializeWstring
<1>6. CASE SerializeStructArr
  <2>1. "wchar" \notin {"message"}
    OBVIOUS
  <2> QED
    BY <1>0, <1>6, <2>1 DEF SerializeStructArr
<1>7. CASE SerializeStruct
  BY <1>7 DEF SerializeStruct, SentAfter, Clean
<1>8. CASE PutValues
  <2>1. /\ Head(todo).op = "put" /\ sent' = sent /\ got' = got /\ flawed' = flawed
        /\ phase = "write" /\ phase' = "write" =>
             buf' = Written(Head(todo).w, Head(todo).vals)
    BY <1>8 DEF PutValues
  <2> QED
    BY <2>1 DEF SentAfter, Clean
<1> QED
  BY <1>1, <1>2, <1>3, <1>4, <1>5, <1>6, <1>7, <1>8 DEF Serialize

\* Before the write pass nothing is sent; the write pass is on a path from the
\* beginning of the message, which the memory holds.
SentInv ==
  /\ phase \in {"idle", "size"} => sent = <<>> /\ got = <<>>
  /\ phase = "write" /\ mapping = "message" /\ ~flawed =>
       /\ got = <<>>
       /\ sent \in Seq(Data)
       /\ OnPath(writer, 0, Serialized(message), <<>>, off, todo, sent, buf, size)

\* The steps of the writer.
LEMMA SentInvSerialize ==
  ASSUME IInv, SentInv, Serialize
  PROVE  SentInv'
<1> DEFINE e == Head(todo)
<1>1. /\ Writable(todo) /\ phase \in {"size", "write"}
      /\ UnchangedCall /\ UNCHANGED size
      /\ \/ phase' = phase /\ <<off', todo'>> = After(writer.lang, off, todo)
         \/ phase = "write" /\ phase' = "not_written" /\ ~(CursorAfter(off, e) =< size)
  BY SerializeIsAfter
<1>2. /\ off \in Nat /\ todo \in Seq(Items) /\ todo # <<>> /\ size \in Nat
      /\ buf \in [1..size -> Byte] /\ writer \in Processes
  BY <1>1 DEF IInv, CdrTypeOK, Writable
<1>3. message' = message /\ mapping' = mapping /\ writer' = writer /\ size' = size
  BY <1>1 DEF UnchangedCall
<1>4. CASE phase = "size"
  <2>1. phase' = "size" /\ sent = <<>> /\ got = <<>>
    BY <1>1, <1>4 DEF SentInv
  <2>2. sent \in Seq(Data)
    BY <2>1, EmptySeq
  <2>3. sent' = sent /\ got' = got
    BY <1>4, <2>2, SerializeSends
  <2> QED
    BY <2>1, <2>3 DEF SentInv
<1>5. CASE phase' = "not_written"
  BY <1>5 DEF SentInv
<1>6. CASE phase = "write" /\ phase' = "write" /\ mapping = "message" /\ ~flawed'
  <2>1. ~flawed
    BY <1>6, FlawStays
  <2>2. sent \in Seq(Data)
    BY <1>6, <2>1 DEF SentInv
  <2>3. /\ got' = got /\ sent' = SentAfter(sent, e)
        /\ ~flawed /\ Clean(writer.lang, e)
        /\ buf' = IF e.op = "put" THEN Written(e.w, e.vals) ELSE buf
    BY <1>6, <2>2, SerializeSends
  <2>4. got = <<>> /\ OnPath(writer, 0, Serialized(message), <<>>, off, todo, sent, buf, size)
    BY <1>6, <2>3 DEF SentInv
  <2>5. off' = CursorAfter(off, e) /\ todo' = ListAfter(writer.lang, todo)
    BY <1>1, <1>6 DEF After
  <2>6. e \in Items /\ (e.op = "put" => e.w \in Widths /\ e.vals \in Seq(Value(e.w)))
    <3>1. e \in Items
      BY <1>2, RestIsSeq
    <3> QED
      BY <3>1, ItemParts
  <2>7. Holds(writer.order, off, e, buf', size)
    <3>1. CASE e.op = "put"
      <4>1. Holds(writer.order, off, Put(e.w, e.vals), Written(e.w, e.vals), size)
        BY <1>2, <2>6, <3>1, WrittenIsThere
      <4>2. Put(e.w, e.vals).w = e.w /\ Put(e.w, e.vals).vals = e.vals
            /\ Put(e.w, e.vals).op = "put"
        BY DEF Put
      <4> QED
        BY <2>3, <3>1, <4>1, <4>2 DEF Holds
    <3>2. CASE e.op # "put"
      BY <3>2 DEF Holds
    <3> QED
      BY <3>1, <3>2
  <2>8. \A q \in Nat, i \in Items :
          Holds(writer.order, q, i, buf, size) /\ CursorAfter(q, i) =< off
            => Holds(writer.order, q, i, buf', size)
    <3>1. CASE e.op = "put"
      BY <1>2, <2>3, <2>6, <3>1, WrittenKeeps
    <3>2. CASE e.op # "put"
      BY <2>3, <3>2
    <3> QED
      BY <3>1, <3>2
  <2>9. OnPath(writer, 0, Serialized(message), <<>>, CursorAfter(off, e),
               ListAfter(writer.lang, todo), SentAfter(sent, e), buf', size)
    BY <1>1, <1>2, <2>2, <2>3, <2>4, <2>7, <2>8, PathGrows
  <2>10. sent' \in Seq(Data)
    BY <2>2, <2>3, <2>6, SentAfterIsData
  <2> QED
    BY <1>3, <1>6, <2>3, <2>4, <2>5, <2>9, <2>10 DEF SentInv
<1>7. CASE phase' = "write" /\ (mapping # "message" \/ flawed')
  BY <1>3, <1>7 DEF SentInv
<1> QED
  BY <1>1, <1>3, <1>4, <1>5, <1>6, <1>7

LEMMA SentInvStartWriting ==
  ASSUME IInv, SentInv, NEW fill \in Fill, StartWriting(fill)
  PROVE  SentInv'
<1>1. /\ phase = "size" /\ phase' = "write" /\ off' = 0 /\ size' = off
      /\ todo' = Prologue(mapping) \o Serialized(message)
      /\ message' = message /\ mapping' = mapping /\ writer' = writer
      /\ sent' = sent /\ got' = got
  BY DEF StartWriting, UnchangedCall, Allocated
<1>2. sent = <<>> /\ got = <<>>
  BY <1>1 DEF SentInv
<1>3. message \in Seq(Fields) /\ Serialized(message) \in Seq(Items)
  BY SerializedAreItems DEF IInv, CdrTypeOK
<1>4. <<>> \in Seq(Data) /\ 0 \in Nat
  BY EmptySeq
<1>5. CASE mapping = "message"
  <2>1. todo' = Serialized(message)
    BY <1>1, <1>3, <1>5, ConcatEmptySeq DEF Prologue
  <2>2. OnPath(writer, 0, Serialized(message), <<>>, 0, Serialized(message), <<>>, buf', size')
    BY <1>3, <1>4, PathBegins
  <2> QED
    BY <1>1, <1>2, <1>4, <2>1, <2>2 DEF SentInv
<1>6. CASE mapping # "message"
  BY <1>1, <1>6 DEF SentInv
<1> QED
  BY <1>5, <1>6

-----------------------------------------------------------------------------
(* Reading.  While nothing is flawed, the cursor of the reader is at a     *)
(* point of the path; what the writer had sent there is what the reader    *)
(* has got, and what it is still to get from lists that match.             *)

Behind(wl, vals) ==
  /\ Matches(todo, wl, vals)
  /\ OnPath(writer, off, wl, got \o vals, size + cut, <<>>, sent, buf, size)
ReadInv ==
  phase = "read" /\ ~flawed =>
    /\ sent \in Seq(Data) /\ got \in Seq(Data)
    /\ \E wl, vals : Behind(wl, vals)
EndInv == AcceptedIsSent /\ WholeIsAccepted
CodecInv == SentInv /\ ReadInv /\ EndInv

\* The first bytes of what was written are what the path left there.
LEMMA CodecInvStartReading ==
  ASSUME IInv, CodecInv, WriteFitsItsSize, NEW p \in Processes, NEW missing \in Missing,
         StartReading(p, missing)
  PROVE  CodecInv'
<1>1. /\ phase = "write" /\ todo = <<>> /\ cut' = missing
      /\ phase' = IF missing > size THEN "rejected" ELSE "read"
      /\ size' = IF missing > size THEN 0 ELSE size - missing
      /\ buf' = [i \in 1..size' |-> buf[i]] /\ off' = 0
      /\ todo' = MemberItems([i \in DOMAIN message |-> message[i].type])
      /\ UNCHANGED <<message, mapping, writer, sent, got, flawed>>
  BY DEF StartReading
<1>2. mapping = "message" /\ off = size /\ size \in Nat /\ missing \in Nat /\ message \in Seq(Fields)
  BY <1>1, CdrAssumption DEF WriteFitsItsSize, IInv, CdrTypeOK
<1>3. CASE missing > size
  <2>1. phase' = "rejected" /\ cut' # 0
    BY <1>1, <1>2, <1>3
  <2> QED
    BY <2>1 DEF CodecInv, SentInv, ReadInv, EndInv, AcceptedIsSent, WholeIsAccepted
<1>4. CASE ~(missing > size) /\ flawed
  <2>1. phase' = "read" /\ flawed'
    BY <1>1, <1>4
  <2> QED
    BY <2>1 DEF CodecInv, SentInv, ReadInv, EndInv, AcceptedIsSent, WholeIsAccepted
<1>5. CASE ~(missing > size) /\ ~flawed
  <2>1. /\ phase' = "read" /\ size' = size - missing
        /\ size' \in Nat /\ size' =< size /\ size' + cut' = size
    BY <1>1, <1>2, <1>5
  <2>2. /\ got = <<>> /\ sent \in Seq(Data)
        /\ OnPath(writer, 0, Serialized(message), <<>>, size, <<>>, sent, buf, size)
    BY <1>1, <1>2, <1>5 DEF CodecInv, SentInv
  <2>3. OnPath(writer, 0, Serialized(message), <<>>, size, <<>>, sent, buf', size')
    <3>1. \A i \in 1..size' : buf'[i] = buf[i]
      BY <1>1
    <3> QED
      BY <1>2, <2>1, <2>2, <3>1, PathShrinks
  <2>4. /\ [i \in DOMAIN message |-> message[i].type] \in Seq(Types)
        /\ MemberItems([i \in DOMAIN message |-> message[i].type]) \in Seq(Items)
    <3>1. /\ Len(message) \in Nat /\ DOMAIN message = 1..Len(message)
          /\ \A i \in 1..Len(message) : message[i].type \in Types
      BY <1>2, LenProperties, ElementOfSeq, CdrAssumption
    <3>2. [i \in DOMAIN message |-> message[i].type] \in Seq(Types)
      BY <3>1, MapIsSeq
    <3> QED
      BY <3>2, MemberItemsAreItems
  <2>5. Matches(todo', Serialized(message), <<>>)
    <3> DEFINE types == [i \in DOMAIN message |-> message[i].type]
    <3>1. Matches(MemberItems(types) \o <<>>, FieldItems(message) \o Roundup, <<>>)
      BY <1>2, MatchesEnd, MembersMatch
    <3>2. MemberItems(types) \o <<>> = MemberItems(types)
      BY <2>4, ConcatEmptySeq
    <3>3. FieldItems(message) \o Roundup = Serialized(message)
      BY DEF Serialized, Roundup
    <3> HIDE DEF types
    <3>4. Matches(MemberItems(types), Serialized(message), <<>>)
      BY <3>1, <3>2, <3>3
    <3> QED
      BY <1>1, <3>4 DEF types
  <2>6. <<>> \in Seq(Data) /\ <<>> \o <<>> = <<>>
    BY EmptySeq, ConcatEmptySeq
  <2>7. OnPath(writer', off', Serialized(message), got' \o <<>>, size' + cut', <<>>, sent', buf', size')
    BY <1>1, <2>1, <2>2, <2>3, <2>6
  <2>8. Behind(Serialized(message), <<>>)'
    BY <1>1, <2>5, <2>7 DEF Behind
  <2>9. ReadInv'
    BY <1>1, <2>2, <2>6, <2>8 DEF ReadInv
  <2> QED
    BY <2>1, <2>9 DEF CodecInv, SentInv, EndInv, AcceptedIsSent, WholeIsAccepted
<1> QED
  BY <1>3, <1>4, <1>5

\* The entry that is read, with the segment of the path it stands for.
LEMMA ReadPoint ==
  ASSUME IInv, ReadInv, Reading, ~flawed
  PROVE  /\ sent \in Seq(Data) /\ got \in Seq(Data)
         /\ Head(todo) \in Items /\ Tail(todo) \in Seq(Items)
         /\ \E seg \in Seq(Items), now \in Seq(Data), rest \in Seq(Items),
                 later \in Seq(Data) :
              /\ Reads(Head(todo), seg, now)
              /\ Head(todo).op # "text" => later = <<>>
              /\ Matches(Tail(todo), rest, later)
              /\ OnPath(writer, off, seg \o rest, got \o (now \o later), size + cut, <<>>,
                        sent, buf, size)
<1>1. /\ sent \in Seq(Data) /\ got \in Seq(Data)
      /\ \E wl, vals : Behind(wl, vals)
  BY DEF ReadInv, Reading
<1>2. PICK wl, vals : Behind(wl, vals)
  BY <1>1
<1>3. todo # <<>> /\ Head(todo) \in Items /\ Tail(todo) \in Seq(Items)
  BY ListParts DEF IInv, Reading
<1>4. PICK seg \in Seq(Items), now \in Seq(Data), rest \in Seq(Items),
                 later \in Seq(Data) :
        /\ Reads(Head(todo), seg, now)
        /\ wl = seg \o rest /\ vals = now \o later
        /\ Head(todo).op # "text" => later = <<>>
        /\ Matches(Tail(todo), rest, later)
  <2>1. Matches(todo, wl, vals)
    BY <1>2 DEF Behind
  <2>2. Begins(todo, wl, vals)
    BY <1>3, <2>1, MatchesParts
  <2> QED
    BY <2>2 DEF Begins
<1>5. OnPath(writer, off, seg \o rest, got \o (now \o later), size + cut, <<>>, sent, buf, size)
  BY <1>2, <1>4 DEF Behind
<1> QED
  BY <1>1, <1>3, <1>4, <1>5

\* The entry tells what it reads.
LEMMA ReadsByOp ==
  ASSUME NEW r, NEW seg, NEW now, Reads(r, seg, now)
  PROVE  \/ r.op = "member" /\ ReadsMember(r, seg, now)
         \/ r.op = "count" /\ ReadsCount(r, seg, now)
         \/ r.op = "read_structs" /\ ReadsStructs(r, seg, now)
         \/ r.op \in {"get", "copy"} /\ ReadsValues(r, seg, now)
         \/ r.op \in {"length", "text"} /\ ReadsTexts(r, seg, now)
<1>1. ReadsMember(r, seg, now) => r.op = "member"
  BY DEF ReadsMember, MemberItem
<1>2. ReadsCount(r, seg, now) => r.op = "count"
  BY DEF ReadsCount, CountItem
<1>3. ReadsStructs(r, seg, now) => r.op = "read_structs"
  BY DEF ReadsStructs, ReadStructs
<1>4. ReadsValues(r, seg, now) => r.op \in {"get", "copy"}
  BY DEF ReadsValues
<1>5. ReadsTexts(r, seg, now) => r.op \in {"length", "text"}
  BY DEF ReadsTexts, TextItem
<1> QED
  BY <1>1, <1>2, <1>3, <1>4, <1>5 DEF Reads

\* A call of the path: unless bytes are missing it can be read, and gives what was
\* written.
LEMMA PutIsRead ==
  ASSUME IInv, NEW w \in Widths, NEW vals \in Seq(Value(w)), NEW rest \in Seq(Items), NEW s,
         OnPath(writer, off, <<Put(w, vals)>> \o rest, s, size + cut, <<>>, sent, buf, size)
  PROVE  /\ Fits(w, Len(vals)) => Loaded(w, Len(vals)) = vals
         /\ cut = 0 => Fits(w, Len(vals))
         /\ OnPath(writer, Aligned(w) + w * Len(vals), rest, s, size + cut, <<>>, sent, buf, size)
<1> DEFINE e == Put(w, vals)
           wl == <<e>> \o rest
<1>1. e \in Items /\ e.op = "put" /\ e.w = w /\ e.vals = vals
  BY PutIsItem DEF Put
<1>2. wl \in Seq(Items) /\ wl # <<>> /\ Head(wl) = e /\ Tail(wl) = rest
  BY <1>1, ConsParts
<1> HIDE DEF wl
<1>3. OnPath(writer, off, wl, s, size + cut, <<>>, sent, buf, size)
  BY DEF wl
<1>4. /\ Holds(writer.order, off, e, buf, size)
      /\ CursorAfter(off, e) =< size + cut
      /\ OnPath(writer, CursorAfter(off, e), ListAfter(writer.lang, wl), SentAfter(s, e),
                size + cut, <<>>, sent, buf, size)
  BY <1>2, <1>3, PathOn
<1>5. ListAfter(writer.lang, wl) = rest /\ SentAfter(s, e) = s
  BY <1>1, <1>2 DEF ListAfter, SentAfter
<1>6. CursorAfter(off, e) = Aligned(w) + w * Len(vals)
  BY <1>1 DEF CursorAfter, AlignedAt, Aligned, Padding
<1>7. off \in Nat /\ size \in Nat /\ writer \in Processes /\ reader \in Processes
  BY DEF IInv, CdrTypeOK
<1>8. Fits(w, Len(vals)) => Loaded(w, Len(vals)) = vals
  BY <1>4, <1>7, LoadedIsThere
<1>9. cut = 0 => Fits(w, Len(vals))
  <2>1. cut = 0 => size + cut = size
    BY <1>7
  <2> QED
    BY <1>4, <1>6, <2>1 DEF Fits
<1> QED
  BY <1>4, <1>5, <1>6, <1>8, <1>9

\* The reader goes on, or stops because bytes are missing.
LEMMA ReadGoesOn ==
  ASSUME phase' = "read", UnchangedRead, sent \in Seq(Data), got' \in Seq(Data),
         NEW wl, NEW vals, Matches(todo', wl, vals),
         OnPath(writer, off', wl, got' \o vals, size + cut, <<>>, sent, buf, size)
  PROVE  CodecInv'
<1>1. OnPath(writer', off', wl, got' \o vals, size' + cut', <<>>, sent', buf', size')
  BY DEF UnchangedRead
<1>2. Matches(todo', wl, vals) /\ sent' \in Seq(Data)
  BY DEF UnchangedRead
<1>3. ReadInv'
  BY <1>1, <1>2 DEF ReadInv, Behind
<1> QED
  BY <1>3 DEF CodecInv, SentInv, EndInv, AcceptedIsSent, WholeIsAccepted

LEMMA ReadStops ==
  ASSUME UnchangedRead,
         (phase' = "rejected" /\ (flawed' \/ cut # 0)) \/ phase' = "escaped"
  PROVE  CodecInv'
BY DEF UnchangedRead, CodecInv, SentInv, ReadInv, EndInv, AcceptedIsSent, WholeIsAccepted

\* Nothing is claimed of a flawed conversion.
LEMMA FlawedReads ==
  ASSUME flawed', phase' \in {"read", "accepted", "rejected", "escaped"}
  PROVE  CodecInv'
BY DEF CodecInv, SentInv, ReadInv, EndInv, AcceptedIsSent, WholeIsAccepted

\* What was to be read has been read.
LEMMA GotMoves ==
  ASSUME got \in Seq(Data), NEW a \in Seq(Data), NEW b \in Seq(Data), got' = got \o a
  PROVE  got' \in Seq(Data) /\ got \o (a \o b) = got' \o b
BY JoinAssociates, JoinIsSeq

\* The steps of the reader.
LEMMA ReadMemberKeeps ==
  ASSUME IInv, CodecInv, ReadMember
  PROVE  CodecInv'
<1>1. /\ Reading /\ Head(todo).op = "member" /\ UnchangedRead
      /\ UNCHANGED <<phase, off, got, flawed>> /\ phase' = "read"
  BY DEF ReadMember, Reading
<1>2. CASE flawed
  BY <1>1, <1>2, FlawedReads
<1>3. CASE ~flawed
  <2>1. /\ sent \in Seq(Data) /\ got \in Seq(Data)
        /\ Head(todo) \in Items /\ Tail(todo) \in Seq(Items)
    BY <1>1, <1>3, ReadPoint DEF CodecInv
  <2>2. PICK seg \in Seq(Items), now \in Seq(Data), rest \in Seq(Items), later \in Seq(Data) :
          /\ Reads(Head(todo), seg, now)
          /\ Head(todo).op # "text" => later = <<>>
          /\ Matches(Tail(todo), rest, later)
          /\ OnPath(writer, off, seg \o rest, got \o (now \o later), size + cut, <<>>,
                    sent, buf, size)
    BY <1>1, <1>3, ReadPoint DEF CodecInv
  <2>3. later = <<>> /\ ReadsMember(Head(todo), seg, now)
    BY <1>1, <2>2, ReadsByOp
  <2>4. PICK f \in Fields : Head(todo) = MemberItem(f.type) /\ seg = <<FieldItem(f)>>
    BY <2>3 DEF ReadsMember
  <2> DEFINE t == f.type
             item == FieldItem(f)
             rl == Tail(todo)
  <2>5. now = <<>> /\ got \o (now \o later) = got
    BY <2>1, <2>3, ConcatEmptySeq, EmptySeq DEF ReadsMember
  <2>6. item \in Items /\ item.op = "field" /\ item.field = f
    BY DEF FieldItem, Items
  <2>7. /\ <<item>> \o rest # <<>> /\ Head(<<item>> \o rest) = item
        /\ Tail(<<item>> \o rest) = rest
    BY <2>6, ConsParts
  <2> DEFINE wl == <<item>> \o rest
  <2>8. OnPath(writer, off, wl, got, size + cut, <<>>, sent, buf, size)
    BY <2>2, <2>4, <2>5
  <2>9. wl # <<>> /\ Head(wl) = item /\ Tail(wl) = rest
    BY <2>7
  <2> HIDE DEF wl, item, rl
  <2>10. /\ Clean(writer.lang, item)
         /\ OnPath(writer, CursorAfter(off, item), ListAfter(writer.lang, wl),
                   SentAfter(got, item), size + cut, <<>>, sent, buf, size)
    BY <2>8, <2>9, PathOn
  <2>11. CursorAfter(off, item) = off /\ SentAfter(got, item) = got \o SentBy(f)
    BY <2>6 DEF CursorAfter, SentAfter
  <2>12. ListAfter(writer.lang, wl) = Counted(f, ItemsOf(f)) \o rest
    <3>1. CallsOf(writer.lang, f) = Counted(f, ItemsOf(f))
      BY <2>10, FieldCalls DEF item
    <3> QED
      BY <2>6, <2>9, <3>1 DEF ListAfter, CallsAfter
  <2>13. OnPath(writer, off, Counted(f, ItemsOf(f)) \o rest, got \o SentBy(f), size + cut, <<>>,
                sent, buf, size)
    BY <2>10, <2>11, <2>12
  <2>14. Matches(rl, rest, <<>>)
    BY <2>2, <2>3 DEF rl
  <2>15. Head(todo).type = t
    BY <2>4 DEF MemberItem
  <2>16. Matches(todo', Counted(f, ItemsOf(f)) \o rest, SentBy(f))
    <3>1. CASE t.shape = "sequence"
      <4>1. todo' = <<CountItem(t)>> \o rl
        BY <2>15, <3>1 DEF ReadMember, rl
      <4>2. Reads(CountItem(t), Counted(f, ItemsOf(f)), SentBy(f))
        BY <3>1 DEF Reads, ReadsCount
      <4>3. CountItem(t) \in Items
        BY FieldFits DEF CountItem, Items
      <4>4. Counted(f, ItemsOf(f)) \in Seq(Items) /\ SentBy(f) \in Seq(Data)
        BY ItemsOfAreItems, CountedAreItems, SentByIsData
      <4> HIDE DEF t
      <4> QED
        BY <2>14, <4>1, <4>2, <4>3, <4>4, CallMatches
    <3>2. CASE t.shape # "sequence"
      <4>1. Counted(f, ItemsOf(f)) = ItemsOf(f) /\ SentBy(f) = <<>> \o ValuesOf(f)
        BY <3>2 DEF Counted, SentBy
      <4>2. <<>> \o ValuesOf(f) = ValuesOf(f)
        BY SentByIsData, ConcatEmptySeq
      <4>3. (IF t.shape = "one" THEN 1 ELSE t.size) = Len(f.elems)
        BY <3>2, FieldFits DEF Shapes
      <4>4. todo' = Elements(t, Len(f.elems)) \o rl
        BY <2>15, <3>2, <4>3 DEF ReadMember, rl
      <4>5. Matches(Elements(t, Len(f.elems)) \o rl, ItemsOf(f) \o rest, ValuesOf(f))
        BY <2>14, ElementsMatch
      <4> QED
        BY <4>1, <4>2, <4>4, <4>5
    <3> QED
      BY <3>1, <3>2
  <2> QED
    BY <1>1, <2>1, <2>13, <2>16, ReadGoesOn
<1> QED
  BY <1>2, <1>3

LEMMA ReadCountKeeps ==
  ASSUME IInv, CodecInv, ReadCount
  PROVE  CodecInv'
<1> DEFINE n == CountOf(Loaded(4, 1)[1])
<1>1. /\ Reading /\ Head(todo).op = "count" /\ UnchangedRead /\ flawed' = flawed
      /\ \/ ~Fits(4, 1) /\ phase' = "rejected"
         \/ /\ Fits(4, 1) /\ phase' = "read"
            /\ todo' = Elements(Head(todo).type, n) \o Tail(todo)
            /\ off' = Aligned(4) + 4
            /\ got' = got \o Loaded(4, 1)
         \/ phase' = "escaped"
  BY DEF ReadCount, Reject, Reading
<1>2. CASE flawed \/ phase' = "escaped"
  BY <1>1, <1>2, FlawedReads, ReadStops
<1>3. CASE ~flawed /\ phase' # "escaped"
  <2>1. /\ sent \in Seq(Data) /\ got \in Seq(Data)
        /\ Head(todo) \in Items /\ Tail(todo) \in Seq(Items)
    BY <1>1, <1>3, ReadPoint DEF CodecInv
  <2>2. PICK seg \in Seq(Items), now \in Seq(Data), rest \in Seq(Items), later \in Seq(Data) :
          /\ Reads(Head(todo), seg, now)
          /\ Head(todo).op # "text" => later = <<>>
          /\ Matches(Tail(todo), rest, later)
          /\ OnPath(writer, off, seg \o rest, got \o (now \o later), size + cut, <<>>,
                    sent, buf, size)
    BY <1>1, <1>3, ReadPoint DEF CodecInv
  <2>3. later = <<>> /\ ReadsCount(Head(todo), seg, now)
    BY <1>1, <2>2, ReadsByOp
  <2>4. PICK f \in Fields : /\ f.type.shape = "sequence" /\ Head(todo) = CountItem(f.type)
                            /\ seg = Counted(f, ItemsOf(f)) /\ now = SentBy(f)
    BY <2>3 DEF ReadsCount
  <2> DEFINE m == Len(f.elems)
             v == U32(m)
             more == ItemsOf(f) \o rest
             left == ValuesOf(f)
  <2>5. m \in Nat /\ m < TooMany
    BY <2>4, FieldFits
  <2>6. v \in Value(4) /\ v \in Data /\ CountOf(v) = m
    BY <2>5, U32IsValue, CountIsData, CountIsKept
  <2>7. ItemsOf(f) \in Seq(Items) /\ more \in Seq(Items) /\ left \in Seq(Data)
    BY ItemsOfAreItems, JoinIsSeq, SentByIsData
  <2>8. seg \o rest = <<Put(4, <<v>>)>> \o more
    <3>1. seg = <<Put(4, <<v>>)>> \o ItemsOf(f)
      BY <2>4 DEF Counted
    <3>2. Put(4, <<v>>) \in Items
      BY <2>5, PutCountIsItem
    <3> HIDE DEF v
    <3> QED
      BY <2>7, <3>1, <3>2, ConsJoin
  <2>9. now \o later = <<v>> \o left
    <3>1. now = <<v>> \o left
      BY <2>4 DEF SentBy
    <3> QED
      BY <2>3, <3>1, ConcatEmptySeq
  <2> HIDE DEF v, m, more, left
  <2>10. <<v>> \in Seq(Value(4)) /\ Len(<<v>>) = 1 /\ <<v>> \in Seq(Data) /\ <<v>>[1] = v
    BY <2>6, OneIsSeq
  <2>11. OnPath(writer, off, <<Put(4, <<v>>)>> \o more, got \o (<<v>> \o left), size + cut,
                <<>>, sent, buf, size)
    BY <2>2, <2>8, <2>9
  <2>12. /\ Fits(4, 1) => Loaded(4, 1) = <<v>>
         /\ cut = 0 => Fits(4, 1)
         /\ OnPath(writer, Aligned(4) + 4 * 1, more, got \o (<<v>> \o left), size + cut, <<>>,
                   sent, buf, size)
    <3>1. 4 \in Widths
      BY DEF Widths
    <3> QED
      BY <2>7, <2>10, <2>11, <3>1, PutIsRead
  <2>13. CASE ~Fits(4, 1) /\ phase' = "rejected"
    BY <1>1, <2>12, <2>13, ReadStops
  <2>14. CASE /\ Fits(4, 1) /\ phase' = "read"
              /\ todo' = Elements(Head(todo).type, n) \o Tail(todo)
              /\ off' = Aligned(4) + 4
              /\ got' = got \o Loaded(4, 1)
    <3>1. got' = got \o <<v>> /\ n = m /\ got' \in Seq(Data)
      BY <2>1, <2>6, <2>10, <2>12, <2>14, JoinIsSeq
    <3>2. got \o (<<v>> \o left) = got' \o left
      BY <2>1, <2>7, <2>10, <3>1, GotMoves
    <3>3. off' = Aligned(4) + 4 * 1
      BY <2>14
    <3>4. OnPath(writer, off', more, got' \o left, size + cut, <<>>, sent, buf, size)
      BY <2>12, <3>2, <3>3
    <3>5. Head(todo).type = f.type
      BY <2>4 DEF CountItem
    <3>6. todo' = Elements(f.type, m) \o Tail(todo)
      BY <2>14, <3>1, <3>5
    <3>7. Matches(todo', more, left)
      BY <2>2, <2>3, <3>6, ElementsMatch DEF m, more, left
    <3> QED
      BY <1>1, <2>1, <2>14, <3>1, <3>4, <3>7, ReadGoesOn
  <2> QED
    BY <1>1, <1>3, <2>13, <2>14
<1> QED
  BY <1>2, <1>3

LEMMA GetValueKeeps ==
  ASSUME IInv, CodecInv, GetValue
  PROVE  CodecInv'
<1> DEFINE k == Head(todo).kind
           w == Width[k]
           v == Loaded(w, 1)[1]
           read == IF k = "boolean" /\ v # <<0>> THEN <<1>> ELSE v
<1>1. /\ Reading /\ Head(todo).op = "get" /\ UnchangedRead /\ flawed' = flawed
      /\ \/ ~Fits(w, 1) /\ phase' = "rejected"
         \/ /\ Fits(w, 1) /\ phase' = "read"
            /\ todo' = Loop("get", k, Head(todo).n - 1) \o Tail(todo)
            /\ off' = Aligned(w) + w
            /\ got' = Append(got, read)
  BY DEF GetValue, Reject, Reading
<1> HIDE DEF w, v, read
<1>2. CASE flawed
  BY <1>1, <1>2, FlawedReads
<1>3. CASE ~flawed
  <2>1. /\ sent \in Seq(Data) /\ got \in Seq(Data)
        /\ Head(todo) \in Items /\ Tail(todo) \in Seq(Items)
    BY <1>1, <1>3, ReadPoint DEF CodecInv
  <2>2. PICK seg \in Seq(Items), now \in Seq(Data), rest \in Seq(Items), later \in Seq(Data) :
          /\ Reads(Head(todo), seg, now)
          /\ Head(todo).op # "text" => later = <<>>
          /\ Matches(Tail(todo), rest, later)
          /\ OnPath(writer, off, seg \o rest, got \o (now \o later), size + cut, <<>>,
                    sent, buf, size)
    BY <1>1, <1>3, ReadPoint DEF CodecInv
  <2>3. later = <<>> /\ ReadsValues(Head(todo), seg, now)
    BY <1>1, <2>2, ReadsByOp
  <2>4. /\ k \in Kinds \ ({"message"} \cup Texts) /\ Head(todo).n = Len(now)
        /\ now \in Seq(ElementsOf(k)) /\ now # <<>>
        /\ Truths(k, now) /\ seg = Puts(w, now)
    BY <1>1, <2>3 DEF ReadsValues, w
  <2>5. ElementsOf(k) = Value(w) /\ w \in Widths /\ k \in Kinds \ {"message"} /\ k \notin Texts
    BY <2>4, ElementKinds DEF w
  <2> DEFINE x == Head(now)
             left == Tail(now)
             calls == Puts(w, left)
             more == calls \o rest
  <2>6. /\ x \in Value(w) /\ left \in Seq(Value(w)) /\ now = <<x>> \o left
        /\ Len(left) = Len(now) - 1 /\ x = now[1] /\ Len(now) \in Nat \ {0}
        /\ \A i \in 1..Len(left) : left[i] = now[i + 1]
    BY <2>4, <2>5, ConsOfRest
  <2>7. x \in Data /\ left \in Seq(Data)
    BY <2>5, <2>6, ElementsAreData
  <2>8. /\ calls \in Seq(Items) /\ more \in Seq(Items)
        /\ seg = <<Put(w, <<x>>)>> \o calls
    BY <2>4, <2>5, <2>6, PutsParts, JoinIsSeq
  <2>9. Truths(k, left) /\ (k = "boolean" => x \in {<<0>>, <<1>>})
    BY <2>4, <2>6 DEF Truths
  <2> HIDE DEF x, left, calls
  <2>10. seg \o rest = <<Put(w, <<x>>)>> \o more
    BY <2>5, <2>6, <2>8, PutOneIsItem, ConsJoin
  <2>11. now \o later = <<x>> \o left
    BY <2>3, <2>6, ConcatEmptySeq
  <2> HIDE DEF more
  <2>12. <<x>> \in Seq(Value(w)) /\ Len(<<x>>) = 1 /\ <<x>> \in Seq(Data) /\ <<x>>[1] = x
    BY <2>6, <2>7, OneIsSeq
  <2>13. OnPath(writer, off, <<Put(w, <<x>>)>> \o more, got \o (<<x>> \o left), size + cut,
                <<>>, sent, buf, size)
    BY <2>2, <2>10, <2>11
  <2>14. /\ Fits(w, 1) => Loaded(w, 1) = <<x>>
         /\ cut = 0 => Fits(w, 1)
         /\ OnPath(writer, Aligned(w) + w * 1, more, got \o (<<x>> \o left), size + cut, <<>>,
                   sent, buf, size)
    BY <2>5, <2>8, <2>12, <2>13, PutIsRead
  <2>15. CASE ~Fits(w, 1) /\ phase' = "rejected"
    BY <1>1, <2>14, <2>15, ReadStops
  <2>16. CASE /\ Fits(w, 1) /\ phase' = "read"
              /\ todo' = Loop("get", k, Head(todo).n - 1) \o Tail(todo)
              /\ off' = Aligned(w) + w
              /\ got' = Append(got, read)
    <3>1. v = x
      BY <2>12, <2>14, <2>16 DEF v
    <3>2. read = x
      BY <2>9, <3>1 DEF read
    <3>3. Append(got, x) = got \o <<x>>
      BY <2>1, <2>7, AppendIsConcat
    <3>4. got' = got \o <<x>> /\ got' \in Seq(Data)
      BY <2>1, <2>12, <2>16, <3>2, <3>3, JoinIsSeq
    <3>5. got \o (<<x>> \o left) = got' \o left
      BY <2>1, <2>7, <2>12, <3>4, GotMoves
    <3>6. off' = Aligned(w) + w * 1
      BY <2>5, <2>16 DEF Widths
    <3>7. OnPath(writer, off', more, got' \o left, size + cut, <<>>, sent, buf, size)
      BY <2>14, <3>5, <3>6
    <3>8. todo' = Loop("get", k, Len(left)) \o Tail(todo)
      BY <2>4, <2>6, <2>16
    <3>9. Matches(Tail(todo), rest, <<>>)
      BY <2>2, <2>3
    <3>10. left \in Seq(ElementsOf(k))
      BY <2>5, <2>6
    <3>11. Matches(todo', more, left)
      BY <2>5, <2>9, <3>8, <3>9, <3>10, LoopMatches DEF more, calls, w
    <3> QED
      BY <1>1, <2>1, <2>16, <3>4, <3>7, <3>11, ReadGoesOn
  <2> QED
    BY <1>1, <2>15, <2>16
<1> QED
  BY <1>2, <1>3

LEMMA CopyArrKeeps ==
  ASSUME IInv, CodecInv, CopyArr
  PROVE  CodecInv'
<1> DEFINE k == Head(todo).kind
           w == Width[k]
           n == Head(todo).n
<1>1. /\ Reading /\ Head(todo).op = "copy" /\ UnchangedRead
      /\ \/ ~Fits(w, n) /\ phase' = "rejected" /\ flawed' = flawed
         \/ /\ Fits(w, n) /\ phase' = "read"
            /\ todo' = Tail(todo)
            /\ off' = Aligned(w) + w * n
            /\ got' = got \o LoadedArray(k, n)
            /\ flawed' = (flawed \/ (Swap /\ k = "64"))
  BY DEF CopyArr, Reject, Reading
<1> HIDE DEF w
<1>2. CASE flawed'
  BY <1>1, <1>2, FlawedReads
<1>3. CASE ~flawed'
  <2>0. ~flawed
    BY <1>1, <1>3
  <2>1. /\ sent \in Seq(Data) /\ got \in Seq(Data)
        /\ Head(todo) \in Items /\ Tail(todo) \in Seq(Items)
    BY <1>1, <2>0, ReadPoint DEF CodecInv
  <2>2. PICK seg \in Seq(Items), now \in Seq(Data), rest \in Seq(Items), later \in Seq(Data) :
          /\ Reads(Head(todo), seg, now)
          /\ Head(todo).op # "text" => later = <<>>
          /\ Matches(Tail(todo), rest, later)
          /\ OnPath(writer, off, seg \o rest, got \o (now \o later), size + cut, <<>>,
                    sent, buf, size)
    BY <1>1, <2>0, ReadPoint DEF CodecInv
  <2>3. later = <<>> /\ ReadsValues(Head(todo), seg, now)
    BY <1>1, <2>2, ReadsByOp
  <2>4. /\ k \in Kinds \ ({"message"} \cup Texts) /\ n = Len(now)
        /\ now \in Seq(ElementsOf(k)) /\ seg = <<Put(w, now)>>
    BY <1>1, <2>3 DEF ReadsValues, w
  <2>5. w \in Widths /\ now \in Seq(Value(w)) /\ n \in Nat
    BY <2>4, ElementKinds, LenProperties DEF w
  <2>6. OnPath(writer, off, <<Put(w, now)>> \o rest, got \o (now \o later), size + cut,
                <<>>, sent, buf, size)
    BY <2>2, <2>4
  <2>7. /\ Fits(w, n) => Loaded(w, n) = now
        /\ cut = 0 => Fits(w, n)
        /\ OnPath(writer, Aligned(w) + w * n, rest, got \o (now \o later), size + cut, <<>>,
                   sent, buf, size)
    BY <2>4, <2>5, <2>6, PutIsRead
  <2>8. CASE ~Fits(w, n) /\ phase' = "rejected" /\ flawed' = flawed
    BY <1>1, <2>7, <2>8, ReadStops
  <2>9. CASE /\ Fits(w, n) /\ phase' = "read"
             /\ todo' = Tail(todo)
             /\ off' = Aligned(w) + w * n
             /\ got' = got \o LoadedArray(k, n)
             /\ flawed' = (flawed \/ (Swap /\ k = "64"))
    <3>1. ~(Swap /\ k = "64")
      BY <1>3, <2>9
    <3>2. LoadedArray(k, n) = [i \in 1..n |-> Loaded(w, n)[i]]
      BY <3>1 DEF LoadedArray, w
    <3>3. Loaded(w, n) = [i \in 1..n |-> Loaded(w, n)[i]]
      BY DEF Loaded
    <3>4. got' = got \o now
      BY <2>7, <2>9, <3>2, <3>3
    <3>5. got' \in Seq(Data) /\ got \o (now \o later) = got' \o later
      BY <2>1, <3>4, GotMoves
    <3>6. OnPath(writer, off', rest, got' \o later, size + cut, <<>>, sent, buf, size)
      BY <2>7, <2>9, <3>5
    <3>7. Matches(todo', rest, later)
      BY <2>2, <2>9
    <3> QED
      BY <1>1, <2>1, <2>9, <3>5, <3>6, <3>7, ReadGoesOn
  <2> QED
    BY <1>1, <2>8, <2>9
<1> QED
  BY <1>2, <1>3

LEMMA ReadLengthKeeps ==
  ASSUME IInv, CodecInv, ReadLength
  PROVE  CodecInv'
<1> DEFINE k == Head(todo).kind
           n == CountOf(Loaded(4, 1)[1])
           loop == Loop("length", k, Head(todo).n - 1)
<1>1. /\ Reading /\ Head(todo).op = "length" /\ UnchangedRead
      /\ flawed' = flawed /\ got' = got
      /\ \/ ~Fits(4, 1) /\ phase' = "rejected"
         \/ /\ Fits(4, 1) /\ phase' = "read"
            /\ todo' = <<TextItem(k, n)>> \o loop \o Tail(todo)
            /\ off' = Aligned(4) + 4
  BY DEF ReadLength, Reject, Reading
<1> HIDE DEF n, loop
<1>2. CASE flawed
  BY <1>1, <1>2, FlawedReads
<1>3. CASE ~flawed
  <2>1. /\ sent \in Seq(Data) /\ got \in Seq(Data)
        /\ Head(todo) \in Items /\ Tail(todo) \in Seq(Items)
    BY <1>1, <1>3, ReadPoint DEF CodecInv
  <2>2. PICK seg \in Seq(Items), now \in Seq(Data), rest \in Seq(Items), later \in Seq(Data) :
          /\ Reads(Head(todo), seg, now)
          /\ Head(todo).op # "text" => later = <<>>
          /\ Matches(Tail(todo), rest, later)
          /\ OnPath(writer, off, seg \o rest, got \o (now \o later), size + cut, <<>>,
                    sent, buf, size)
    BY <1>1, <1>3, ReadPoint DEF CodecInv
  <2>3. later = <<>> /\ ReadsTexts(Head(todo), seg, now)
    BY <1>1, <2>2, ReadsByOp
  <2>4. /\ k \in Texts /\ Head(todo).n = Len(now)
        /\ now \in Seq(ElementsOf(k)) /\ now # <<>>
        /\ Short(now) /\ seg = TextPuts(k, now)
    BY <1>1, <2>3 DEF ReadsTexts, TextItem
  <2> DEFINE x == Head(now)
             text == TextOf(k, x)
             m == Len(text)
             left == Tail(now)
             calls == TextPuts(k, left)
             behind == calls \o rest
             more == <<Put(Width[k], text)>> \o behind
             vals == <<x>> \o left
  <2>5. /\ x \in ElementsOf(k) /\ left \in Seq(ElementsOf(k)) /\ now = vals
        /\ Len(left) = Len(now) - 1 /\ x = now[1] /\ Len(now) \in Nat \ {0}
        /\ \A i \in 1..Len(left) : left[i] = now[i + 1]
    BY <2>4, ConsOfRest
  <2>6. x \in Data /\ left \in Seq(Data) /\ <<x>> \in Seq(Data) /\ k \in Kinds \ {"message"}
    BY <2>4, <2>5, ElementsAreData, ElementKinds, OneIsSeq
  <2>7. /\ calls \in Seq(Items)
        /\ seg = <<Put(4, <<U32(m)>>)>> \o (<<Put(Width[k], text)>> \o calls)
    BY <2>4, TextPutsParts
  <2>8. m \in Nat /\ m < TooMany /\ Short(left)
    <3>1. Len(x) + 1 < TooMany /\ Short(left)
      BY <2>4, <2>5 DEF Short
    <3>2. m \in Nat /\ Len(x) \in Nat /\ (m = Len(x) + 1 \/ m = Len(x))
      BY <2>4, <2>5, TextParts
    <3> QED
      BY <3>1, <3>2 DEF TooMany
  <2>9. Put(4, <<U32(m)>>) \in Items /\ Put(Width[k], text) \in Items
    BY <2>4, <2>5, TextParts
  <2>10. U32(m) \in Value(4) /\ CountOf(U32(m)) = m
    BY <2>8, U32IsValue, CountIsKept
  <2> HIDE DEF x, text, m, left, calls, vals
  <2>11. behind \in Seq(Items) /\ more \in Seq(Items)
    BY <2>7, <2>9, JoinIsSeq, OneIsSeq
  <2>12. seg \o rest = <<Put(4, <<U32(m)>>)>> \o more
    <3> DEFINE inner == <<Put(Width[k], text)>> \o calls
               first == Put(4, <<U32(m)>>)
    <3>1. inner \in Seq(Items) /\ first \in Items /\ seg = <<first>> \o inner
      BY <2>7, <2>9, JoinIsSeq, OneIsSeq
    <3>2. inner \o rest = more
      BY <2>7, <2>9, ConsJoin
    <3> HIDE DEF inner, first, more, behind
    <3>3. seg \o rest = <<first>> \o (inner \o rest)
      BY <3>1, ConsJoin
    <3> QED
      BY <3>2, <3>3 DEF first
  <2>13. now \o later = vals /\ vals \in Seq(Data)
    BY <2>3, <2>5, ConcatEmptySeq
  <2> HIDE DEF more, behind
  <2>14. /\ <<U32(m)>> \in Seq(Value(4)) /\ Len(<<U32(m)>>) = 1 /\ <<U32(m)>>[1] = U32(m)
         /\ 4 \in Widths
    BY <2>10, OneIsSeq DEF Widths
  <2>15. OnPath(writer, off, <<Put(4, <<U32(m)>>)>> \o more, got \o vals, size + cut,
                <<>>, sent, buf, size)
    BY <2>2, <2>12, <2>13
  <2>16. /\ Fits(4, 1) => Loaded(4, 1) = <<U32(m)>>
         /\ cut = 0 => Fits(4, 1)
         /\ OnPath(writer, Aligned(4) + 4 * 1, more, got \o vals, size + cut, <<>>,
                   sent, buf, size)
    BY <2>11, <2>14, <2>15, PutIsRead
  <2>17. CASE ~Fits(4, 1) /\ phase' = "rejected"
    BY <1>1, <2>16, <2>17, ReadStops
  <2>18. CASE /\ Fits(4, 1) /\ phase' = "read"
              /\ todo' = <<TextItem(k, n)>> \o loop \o Tail(todo)
              /\ off' = Aligned(4) + 4
    <3>1. n = m
      BY <2>10, <2>14, <2>16, <2>18 DEF n
    <3>2. off' = Aligned(4) + 4 * 1 /\ got' \in Seq(Data)
      BY <1>1, <2>1, <2>18
    <3>3. OnPath(writer, off', more, got' \o vals, size + cut, <<>>, sent, buf, size)
      BY <1>1, <2>16, <3>2
    <3>4. loop = Loop("length", k, Len(left))
      BY <2>4, <2>5 DEF loop
    <3>5. Matches(loop \o Tail(todo), behind, left)
      <4>1. Matches(Tail(todo), rest, <<>>)
        BY <2>2, <2>3
      <4> QED
        BY <2>4, <2>5, <2>6, <2>8, <3>4, <4>1, LoopMatches DEF behind, calls
    <3>6. TextItem(k, m) \in Items /\ TextItem(k, m).op = "text"
      BY <2>6, <2>8 DEF TextItem, Items
    <3>7. Reads(TextItem(k, m), <<Put(Width[k], text)>>, <<x>>)
      <4>1. <<x>> \in Seq(ElementsOf(k)) /\ <<x>> # <<>>
        BY <2>5, OneIsSeq
      <4>2. ReadsTexts(TextItem(k, m), <<Put(Width[k], text)>>, <<x>>)
        BY <2>4, <2>5, <4>1 DEF ReadsTexts, m, text
      <4> QED
        BY <4>2 DEF Reads
    <3>8. Matches(<<TextItem(k, m)>> \o (loop \o Tail(todo)), more, vals)
      <4>1. <<Put(Width[k], text)>> \in Seq(Items)
        BY <2>9, OneIsSeq
      <4> QED
        BY <2>6, <3>5, <3>6, <3>7, <4>1, MatchesMore DEF more, vals
    <3>9. todo' = <<TextItem(k, m)>> \o (loop \o Tail(todo))
      <4> DEFINE first == TextItem(k, m)
      <4>1. loop \in Seq(Items)
        BY <2>5, <2>6, <3>4, LoopIsItems
      <4>2. todo' = (<<first>> \o loop) \o Tail(todo)
        BY <2>18, <3>1
      <4>3. <<first>> \in Seq(Items)
        BY <3>6, OneIsSeq
      <4> HIDE DEF first
      <4>4. (<<first>> \o loop) \o Tail(todo) = <<first>> \o (loop \o Tail(todo))
        BY <2>1, <4>1, <4>3, ItemsAssociate
      <4> QED
        BY <4>2, <4>4 DEF first
    <3>10. Matches(todo', more, vals)
      BY <3>8, <3>9
    <3> QED
      BY <1>1, <2>1, <2>18, <3>2, <3>3, <3>10, ReadGoesOn
  <2> QED
    BY <1>1, <2>17, <2>18
<1> QED
  BY <1>2, <1>3

\* A text that ends with its null.
LEMMA TerminatedParts ==
  ASSUME NEW S, NEW x \in Seq(S), NEW z, <<z>> \in Seq(S)
  PROVE  LET t == x \o <<z>>
         IN  Len(t) > 0 /\ t[Len(t)] = z /\ SubSeq(t, 1, Len(t) - 1) = x
<1> DEFINE t == x \o <<z>>
<1>1. /\ t \in Seq(S) /\ Len(t) = Len(x) + 1 /\ Len(x) \in Nat
      /\ \A i \in 1..Len(x) : t[i] = x[i]
      /\ t[Len(x) + 1] = z
  BY SMT
<1> HIDE DEF t
<1>2. SubSeq(t, 1, Len(t) - 1) = x
  BY <1>1, SMT
<1> QED
  BY <1>1, <1>2 DEF t

LEMMA ReadTextKeeps ==
  ASSUME IInv, CodecInv, ReadText
  PROVE  CodecInv'
<1> DEFINE k == Head(todo).kind
           w == Width[k]
           n == Head(todo).n
           chars == Loaded(w, n)
           value == IF k = "string" /\ n > 0 THEN SubSeq(chars, 1, n - 1) ELSE chars
           unterminated == /\ k = "string" /\ reader.lang = "cxx"
                           /\ n > 0 /\ chars[n] # <<0>>
<1>1. /\ Reading /\ Head(todo).op = "text" /\ UnchangedRead /\ flawed' = flawed
      /\ \/ ~Fits(w, n) /\ phase' = "rejected"
         \/ /\ Fits(w, n) /\ ~unterminated /\ phase' = "read"
            /\ todo' = Tail(todo)
            /\ off' = Aligned(w) + w * n
            /\ got' = Append(got, value)
         \/ Fits(w, n) /\ unterminated /\ phase' = "rejected"
  BY DEF ReadText, Reject, Reading
<1> HIDE DEF w, chars, value, unterminated
<1>2. CASE flawed
  BY <1>1, <1>2, FlawedReads
<1>3. CASE ~flawed
  <2>1. /\ sent \in Seq(Data) /\ got \in Seq(Data)
        /\ Head(todo) \in Items /\ Tail(todo) \in Seq(Items)
    BY <1>1, <1>3, ReadPoint DEF CodecInv
  <2>2. PICK seg \in Seq(Items), now \in Seq(Data), rest \in Seq(Items), later \in Seq(Data) :
          /\ Reads(Head(todo), seg, now)
          /\ Head(todo).op # "text" => later = <<>>
          /\ Matches(Tail(todo), rest, later)
          /\ OnPath(writer, off, seg \o rest, got \o (now \o later), size + cut, <<>>,
                    sent, buf, size)
    BY <1>1, <1>3, ReadPoint DEF CodecInv
  <2>3. ReadsTexts(Head(todo), seg, now)
    BY <1>1, <2>2, ReadsByOp
  <2>4. k \in Texts /\ \E x \in ElementsOf(k) :
          /\ now = <<x>> /\ n = Len(TextOf(k, x)) /\ seg = <<Put(w, TextOf(k, x))>>
    BY <1>1, <2>3 DEF ReadsTexts, TextItem, w
  <2>5. PICK x \in ElementsOf(k) :
          now = <<x>> /\ n = Len(TextOf(k, x)) /\ seg = <<Put(w, TextOf(k, x))>>
    BY <2>4
  <2> DEFINE text == TextOf(k, x)
  <2>6. text \in Seq(Value(w)) /\ w \in Widths /\ x \in Seq(Value(w)) /\ n \in Nat
    BY <2>4, <2>5, TextParts, ElementKinds DEF w
  <2>7. x \in Data /\ <<x>> \in Seq(Data)
    BY <2>4, ElementsAreData, ElementKinds, OneIsSeq
  <2> HIDE DEF text
  <2>8. OnPath(writer, off, <<Put(w, text)>> \o rest, got \o (<<x>> \o later), size + cut,
                <<>>, sent, buf, size)
    BY <2>2, <2>5 DEF text
  <2>9. n = Len(text)
    BY <2>5 DEF text
  <2>10. /\ Fits(w, n) => chars = text
         /\ cut = 0 => Fits(w, n)
         /\ OnPath(writer, Aligned(w) + w * n, rest, got \o (<<x>> \o later), size + cut, <<>>,
                   sent, buf, size)
    BY <2>6, <2>8, <2>9, PutIsRead DEF chars
  <2>11. k = "string" => n > 0 /\ text[n] = <<0>> /\ SubSeq(text, 1, n - 1) = x
    <3> SUFFICES ASSUME k = "string"
                 PROVE  n > 0 /\ text[n] = <<0>> /\ SubSeq(text, 1, n - 1) = x
      OBVIOUS
    <3>1. text = x \o << <<0>> >>
      BY DEF text, TextOf
    <3>2. w = 1 /\ <<0>> \in Value(1)
      BY ElementKinds, SMT DEF w, Value, Byte
    <3>3. x \in Seq(Value(1)) /\ << <<0>> >> \in Seq(Value(1))
      BY <2>6, <3>2, OneIsSeq
    <3> QED
      BY <2>9, <3>1, <3>3, TerminatedParts
  <2>12. Fits(w, n) => ~unterminated /\ value = x
    <3>1. k # "string" => text = x
      BY DEF text, TextOf
    <3> QED
      BY <2>10, <2>11, <3>1 DEF unterminated, value
  <2>13. CASE ~Fits(w, n) /\ phase' = "rejected"
    BY <1>1, <2>10, <2>13, ReadStops
  <2>14. CASE /\ Fits(w, n) /\ ~unterminated /\ phase' = "read"
              /\ todo' = Tail(todo)
              /\ off' = Aligned(w) + w * n
              /\ got' = Append(got, value)
    <3>1. got' = got \o <<x>>
      BY <2>1, <2>7, <2>12, <2>14, AppendIsConcat
    <3>2. got' \in Seq(Data) /\ got \o (<<x>> \o later) = got' \o later
      BY <2>1, <2>7, <3>1, GotMoves
    <3>3. OnPath(writer, off', rest, got' \o later, size + cut, <<>>, sent, buf, size)
      BY <2>10, <2>14, <3>2
    <3>4. Matches(todo', rest, later)
      BY <2>2, <2>14
    <3> QED
      BY <1>1, <2>1, <2>14, <3>2, <3>3, <3>4, ReadGoesOn
  <2> QED
    BY <1>1, <2>12, <2>13, <2>14
<1> QED
  BY <1>2, <1>3

LEMMA ReadStructKeeps ==
  ASSUME IInv, CodecInv, ReadStruct
  PROVE  CodecInv'
<1> DEFINE n == Head(todo).n
           of == Head(todo).of
           rl == Tail(todo)
<1>1. /\ Reading /\ Head(todo).op = "read_structs" /\ UnchangedRead
      /\ off' = off /\ got' = got /\ flawed' = flawed /\ phase' = "read"
      /\ todo' = (IF n = 0 THEN <<>>
                  ELSE MemberItems(of) \o <<ReadStructs(of, n - 1)>>) \o rl
  BY DEF ReadStruct, Reading
<1>2. CASE flawed
  BY <1>1, <1>2, FlawedReads
<1>3. CASE ~flawed
  <2>1. /\ sent \in Seq(Data) /\ got \in Seq(Data)
        /\ Head(todo) \in Items /\ rl \in Seq(Items)
    BY <1>1, <1>3, ReadPoint DEF CodecInv
  <2>2. PICK seg \in Seq(Items), now \in Seq(Data), rest \in Seq(Items), later \in Seq(Data) :
          /\ Reads(Head(todo), seg, now)
          /\ Head(todo).op # "text" => later = <<>>
          /\ Matches(rl, rest, later)
          /\ OnPath(writer, off, seg \o rest, got \o (now \o later), size + cut, <<>>,
                    sent, buf, size)
    BY <1>1, <1>3, ReadPoint DEF CodecInv
  <2>3. later = <<>> /\ ReadsStructs(Head(todo), seg, now)
    BY <1>1, <2>2, ReadsByOp
  <2>4. now = <<>> /\ now \o later = <<>>
    BY <2>3, EmptySeq, ConcatEmptySeq DEF ReadsStructs
  <2>5. PICK type \in Types, msgs \in Seq(Seq(Fields)) :
          /\ \A i \in 1..Len(msgs) : [j \in DOMAIN msgs[i] |-> msgs[i][j].type] = type.of
          /\ Head(todo) = ReadStructs(type.of, Len(msgs)) /\ seg = <<StructsItem(msgs)>>
    BY <2>3 DEF ReadsStructs
  <2>6. of = type.of /\ n = Len(msgs) /\ of \in Seq(Types) /\ n \in Nat
    BY <2>5, CdrAssumption, LenProperties DEF ReadStructs
  <2> DEFINE item == StructsItem(msgs)
             wl == <<item>> \o rest
             next == NextStruct(msgs) \o rest
  <2>7. item \in Items /\ item.op = "structs" /\ item.elems = msgs
    BY DEF StructsItem, Items
  <2>8. wl # <<>> /\ Head(wl) = item /\ Tail(wl) = rest
    BY <2>7, ConsParts
  <2>9. OnPath(writer, off, wl, got \o <<>>, size + cut, <<>>, sent, buf, size)
    BY <2>2, <2>4, <2>5
  <2>10. ListAfter(writer.lang, wl) = next
    BY <2>7, <2>8 DEF ListAfter, CallsAfter
  <2>11. CursorAfter(off, item) = off /\ \A v : SentAfter(v, item) = v
    BY <2>7 DEF CursorAfter, SentAfter
  <2> HIDE DEF wl, item, next
  <2>12. OnPath(writer, CursorAfter(off, item), next, SentAfter(got \o <<>>, item), size + cut,
                <<>>, sent, buf, size)
    BY <2>8, <2>9, <2>10, PathOn
  <2>13. OnPath(writer, off', next, got' \o <<>>, size + cut, <<>>, sent, buf, size)
    BY <1>1, <2>11, <2>12
  <2>14. Matches(rl, rest, <<>>)
    BY <2>2, <2>3
  <2> HIDE DEF n, of, rl
  <2>15. Matches(todo', next, <<>>)
    <3>1. CASE n = 0
      <4>1. msgs = <<>>
        BY <2>6, <3>1, EmptySeq
      <4>2. next = <<>> \o rest /\ todo' = <<>> \o rl
        BY <1>1, <3>1, <4>1 DEF next, NextStruct
      <4> QED
        BY <2>14, <4>2, NoneMatches
    <3>2. CASE n # 0
      <4>1. msgs # <<>>
        BY <2>6, <3>2, EmptySeq
      <4> DEFINE fields == Head(msgs)
                 others == Tail(msgs)
                 r == ReadStructs(of, n - 1)
                 w == StructsItem(others)
      <4>2. /\ fields \in Seq(Fields) /\ others \in Seq(Seq(Fields))
            /\ Len(others) = n - 1 /\ fields = msgs[1] /\ Len(msgs) \in Nat \ {0}
            /\ \A i \in 1..Len(others) : others[i] = msgs[i + 1]
        BY <2>6, <4>1, ConsOfRest
      <4>3. of = [j \in DOMAIN fields |-> fields[j].type]
        <5>1. 1 \in 1..Len(msgs) /\ fields = msgs[1]
          BY <4>2
        <5>2. type.of = [j \in DOMAIN msgs[1] |-> msgs[1][j].type]
          BY <2>5, <5>1
        <5> HIDE DEF fields
        <5> QED
          BY <2>6, <5>1, <5>2
      <4>4. \A i \in 1..Len(others) : [j \in DOMAIN others[i] |-> others[i][j].type] = type.of
        BY <2>5, <4>2
      <4>5. Reads(r, <<w>>, <<>>)
        <5>1. r = ReadStructs(type.of, Len(others))
          BY <2>6, <4>2
        <5>2. ReadsStructs(r, <<w>>, <<>>)
          BY <4>2, <4>4, <5>1 DEF ReadsStructs
        <5> QED
          BY <5>2 DEF Reads
      <4>6. r \in Items /\ w \in Items /\ <<w>> \in Seq(Items) /\ <<r>> \in Seq(Items)
        <5>1. n - 1 \in Nat
          BY <2>6, <3>2
        <5>2. r \in Items /\ w \in Items
          BY <2>6, <4>2, <5>1 DEF ReadStructs, StructsItem, Items
        <5> QED
          BY <5>2, OneIsSeq
      <4>7. FieldItems(fields) \in Seq(Items) /\ MemberItems(of) \in Seq(Items)
        BY <2>6, <4>2, FieldItemsAreItems, MemberItemsAreItems
      <4>8. next = (FieldItems(fields) \o <<w>>) \o rest
        BY <4>1 DEF next, NextStruct
      <4>9. todo' = (MemberItems(of) \o <<r>>) \o rl
        BY <1>1, <3>2
      <4> HIDE DEF r, w, fields, others
      <4>10. Matches(<<r>> \o rl, <<w>> \o rest, <<>>)
        BY <2>14, <4>5, <4>6, EmptySeq, CallMatches
      <4>11. Matches(MemberItems(of) \o (<<r>> \o rl), FieldItems(fields) \o (<<w>> \o rest), <<>>)
        BY <4>2, <4>3, <4>10, MembersMatch
      <4>12. (MemberItems(of) \o <<r>>) \o rl = MemberItems(of) \o (<<r>> \o rl)
        <5>1. /\ MemberItems(of) \in Seq(Items) /\ <<r>> \in Seq(Items) /\ rl \in Seq(Items)
          BY <2>1, <4>6, <4>7
        <5> QED
          BY <5>1, ItemsAssociate
      <4>13. (FieldItems(fields) \o <<w>>) \o rest = FieldItems(fields) \o (<<w>> \o rest)
        BY <4>6, <4>7, JoinAssociates
      <4> QED
        BY <4>8, <4>9, <4>11, <4>12, <4>13
    <3> QED
      BY <3>1, <3>2
  <2> QED
    BY <1>1, <2>1, <2>13, <2>15, ReadGoesOn
<1> QED
  BY <1>2, <1>3

\* The path ends where the list of the writer does.
LEMMA PathEnds ==
  ASSUME NEW wr, NEW p, NEW s, NEW o, NEW all, NEW b, NEW n,
         OnPath(wr, p, <<>>, s, o, <<>>, all, b, n)
  PROVE  s = all
<1>1. /\ p \in Nat /\ <<>> \in Seq(Items) /\ s \in Seq(Data)
      /\ \E V : Path(wr, V, o, <<>>, all, b, n) /\ <<p, <<>>, s>> \in V
  BY DEF OnPath
<1>2. PICK V : Path(wr, V, o, <<>>, all, b, n) /\ <<p, <<>>, s>> \in V
  BY <1>1
<1>3. (p = o /\ s = all) \/ Stepped(wr, V, p, <<>>, s, o, b, n)
  BY <1>1, <1>2 DEF Path
<1>4. ~Stepped(wr, V, p, <<>>, s, o, b, n)
  BY DEF Stepped, Writable
<1> QED
  BY <1>3, <1>4

\* At the end of its list the reader has got everything that the writer has sent.
LEMMA AcceptKeeps ==
  ASSUME IInv, CodecInv, Accept
  PROVE  CodecInv'
<1>1. /\ phase = "read" /\ todo = <<>> /\ phase' = "accepted"
      /\ got' = got /\ sent' = sent /\ flawed' = flawed
  BY DEF Accept, UnchangedRead
<1>2. CASE flawed
  BY <1>1, <1>2, FlawedReads
<1>3. CASE ~flawed
  <2>1. sent \in Seq(Data) /\ got \in Seq(Data) /\ \E wl, vals : Behind(wl, vals)
    BY <1>1, <1>3 DEF CodecInv, ReadInv
  <2>2. PICK wl, vals : Behind(wl, vals)
    BY <2>1
  <2>3. wl = Roundup /\ vals = <<>>
    BY <1>1, <2>2, MatchesParts DEF Behind
  <2>4. got \o vals = got
    BY <2>1, <2>3, ConcatEmptySeq
  <2>5. <<>> \in Seq(Items) /\ <<>> \in Seq(Value(4)) /\ 4 \in Widths
    BY EmptySeq DEF Widths
  <2>6. Roundup = <<Put(4, <<>>)>> \o <<>>
    <3>1. Roundup \o <<>> = Roundup
      BY RoundupIsItems, ConcatEmptySeq
    <3> QED
      BY <3>1 DEF Roundup
  <2>7. OnPath(writer, off, <<Put(4, <<>>)>> \o <<>>, got, size + cut, <<>>, sent, buf, size)
    BY <2>2, <2>3, <2>4, <2>6 DEF Behind
  <2>8. OnPath(writer, Aligned(4) + 4 * Len(<<>>), <<>>, got, size + cut, <<>>, sent, buf, size)
    BY <2>5, <2>7, PutIsRead
  <2>9. got = sent
    BY <2>8, PathEnds
  <2> QED
    BY <1>1, <2>9 DEF CodecInv, SentInv, ReadInv, EndInv, AcceptedIsSent, WholeIsAccepted
<1> QED
  BY <1>2, <1>3

-----------------------------------------------------------------------------
(* The theorems.                                                           *)

\* The invariant holds at first, and every step keeps it.
LEMMA CodecInvInit == CdrInit => CodecInv
BY DEF CdrInit, CodecInv, SentInv, ReadInv, EndInv, AcceptedIsSent, WholeIsAccepted

LEMMA CodecInvStep ==
  IInv /\ WriteFitsItsSize /\ CodecInv /\ [CdrNext]_cdrVars => CodecInv'
<1> SUFFICES ASSUME IInv, WriteFitsItsSize, CodecInv, [CdrNext]_cdrVars
             PROVE  CodecInv'
  OBVIOUS
<1>0. ASSUME SentInv', phase' \in {"idle", "size", "write", "not_written"}
      PROVE  CodecInv'
  BY <1>0 DEF CodecInv, ReadInv, EndInv, AcceptedIsSent, WholeIsAccepted
<1>1. CASE \E m \in Messages, map \in Mappings : Start(m, map)
  <2>1. phase = "idle" /\ phase' = "size" /\ sent' = sent /\ got' = got
    BY <1>1 DEF Start
  <2>2. SentInv'
    BY <2>1 DEF CodecInv, SentInv
  <2> QED
    BY <1>0, <2>1, <2>2
<1>2. CASE Serialize
  <2>1. phase' \in {"size", "write", "not_written"}
    BY <1>2, SerializeIsAfter
  <2>2. SentInv'
    BY <1>2, SentInvSerialize DEF CodecInv
  <2> QED
    BY <1>0, <2>1, <2>2
<1>3. CASE \E fill \in Fill : StartWriting(fill)
  <2>1. phase' = "write" /\ SentInv'
    BY <1>3, SentInvStartWriting DEF CodecInv, StartWriting
  <2> QED
    BY <1>0, <2>1
<1>4. CASE \E p \in Processes, missing \in Missing : StartReading(p, missing)
  BY <1>4, CodecInvStartReading
<1>5. CASE Deserialize
  BY <1>5, ReadMemberKeeps, ReadCountKeeps, GetValueKeeps, CopyArrKeeps, ReadLengthKeeps,
     ReadTextKeeps, ReadStructKeeps, AcceptKeeps DEF Deserialize
<1>6. CASE Return
  <2>1. phase' = "idle" /\ sent' = <<>> /\ got' = <<>>
    BY <1>6 DEF Return
  <2>2. SentInv'
    BY <2>1 DEF SentInv
  <2> QED
    BY <1>0, <2>1, <2>2
<1>7. CASE UNCHANGED cdrVars
  <2>1. SentInv'
    BY <1>7 DEF cdrVars, CodecInv, SentInv
  <2>2. ReadInv' /\ EndInv'
    BY <1>7 DEF cdrVars, CodecInv, ReadInv, Behind, EndInv, AcceptedIsSent, WholeIsAccepted
  <2> QED
    BY <2>1, <2>2 DEF CodecInv
<1> QED
  BY <1>1, <1>2, <1>3, <1>4, <1>5, <1>6, <1>7 DEF CdrNext

LEMMA CodecInvHolds == CdrSpec => []CodecInv
<1>1. CdrInit => IInv /\ CodecInv
  BY InitStep, CodecInvInit
<1>2. IInv /\ WriteFitsItsSize /\ CodecInv /\ [CdrNext]_cdrVars => (IInv /\ CodecInv)'
  BY NextStep, CodecInvStep
<1> QED
  BY <1>1, <1>2, WritePassFits, PTL DEF CdrSpec

\* What a reader of any language and byte order accepts is what was sent, for any
\* message of any type and however many bytes are missing, unless it has a member
\* that is written or read the wrong way (serialize_* of message_serializer.inl,
\* read_* of message_deserializer.inl, operator>> and copy_arr of cdr_deser_buffer).
THEOREM AcceptedWasSent == CdrSpec => []AcceptedIsSent
<1>1. CodecInv => AcceptedIsSent
  BY DEF CodecInv, EndInv
<1> QED
  BY <1>1, CodecInvHolds, PTL

\* With the same exception no reader rejects what arrives whole: every test of the
\* deserializer against the end of the buffer, and that of the null of a string,
\* passes (roundup, operator>> and copy_arr of cdr_deser_buffer).
THEOREM WholeGetsAccepted == CdrSpec => []WholeIsAccepted
<1>1. CodecInv => WholeIsAccepted
  BY DEF CodecInv, EndInv
<1> QED
  BY <1>1, CodecInvHolds, PTL
=============================================================================
