------------------------------ MODULE CdrCodec ------------------------------
(***************************************************************************)
(* The conversion of a ROS message to CDR and back (cdr_buffer, message_   *)
(* serializer, message_deserializer, type_support_common): a first pass    *)
(* that only counts bytes, the allocation of that many, a second pass that *)
(* writes them, and the reading of what arrived, possibly cut short, by a  *)
(* process of any language and byte order.                                 *)
(*                                                                         *)
(* A pass is a work list: its head is a member, which unfolds into the     *)
(* calls the code makes for it, or such a call, which moves the cursor.    *)
(* The 4 bytes of the header are left out of off, size and buf, as they    *)
(* are in offset_, size_ and buf_.  A primitive value is the tuple of its  *)
(* bytes, the most significant one first; an element of a string is the    *)
(* sequence of its characters, one of a nested message its sequence of     *)
(* fields.  Not modelled: a type_id_ that neither side knows, and failing  *)
(* allocations, but for those of a count that was read.                    *)
(***************************************************************************)
EXTENDS Integers, Sequences

CONSTANTS Types,     \* member types: kind, shape, size of an array, inner members
          Fields,    \* a member type with the elements of one value of it
          Messages,  \* the messages that are converted: sequences of fields
          Missing,   \* how many bytes may be cut off at the end
          Fill       \* the bytes that allocated memory may hold

\* ROS_TYPE_*, those of one width and treatment taken together.
Primitives == {"8", "16", "32", "64"}
Texts == {"string", "wstring"}
Kinds == Primitives \cup Texts \cup {"boolean", "wchar", "message"}
Width == [k \in Kinds \ {"message"} |->
            CASE k \in {"boolean", "8", "string"} -> 1
              [] k \in {"wchar", "16", "wstring"} -> 2
              [] k = "32" -> 4
              [] k = "64" -> 8]
Widths == {1, 2, 4, 8}

\* is_array_, array_size_ and is_upper_bound_ of a member: a bounded and an
\* unbounded sequence are treated alike.
Shapes == {"one", "array", "sequence"}

Byte == 0..255
Value(w) == [1..w -> Byte]
ElementsOf(k) ==
  IF k = "message" THEN Seq(Fields)
  ELSE IF k \in Texts THEN Seq(Value(Width[k])) ELSE Value(Width[k])

ASSUME CdrAssumption ==
  /\ \A t \in Types : t.kind \in Kinds /\ t.shape \in Shapes /\ t.size \in Nat
                      /\ t.of \in Seq(Types)
  /\ \A f \in Fields : f.type \in Types /\ f.elems \in Seq(ElementsOf(f.type.kind))
  /\ Messages \subseteq Seq(Fields)
  /\ Missing \subseteq Nat
  /\ Fill \subseteq Byte

Languages == {"c", "cxx"}
Orders == {"big", "little"}       \* CDR_SYSTEM_ENDIAN
Mappings == {"message", "basic_request", "basic_response"}
Processes == [lang : Languages, order : Orders]

VARIABLES
  phase,    \* the pass that is under way, or how the last conversion ended
  message,  \* the message that is converted
  mapping,  \* "message" also stands for the services' enhanced mapping
  writer,   \* the process that writes
  reader,   \* the process that reads
  cut,      \* the bytes that are missing at the end of what it reads
  todo,     \* the members and calls that are left of the pass
  off,      \* offset_
  size,     \* size_
  buf,      \* the memory at buf_; buf[i] is the byte at offset i - 1
  sent,     \* history: the values that were to be written
  got,      \* history: the values that were read
  flawed    \* history: a member was written or read the wrong way (see below)

cdrVars == <<phase, message, mapping, writer, reader, cut, todo, off, size, buf,
             sent, got, flawed>>

Ended == {"not_written", "accepted", "rejected", "escaped"}
Phases == Ended \cup {"idle", "size", "write", "read"}

\* The entries of a work list.
FieldItem(f) == [op |-> "field", field |-> f]
StructsItem(s) == [op |-> "structs", elems |-> s]
Put(w, vals) == [op |-> "put", w |-> w, vals |-> vals]
MemberItem(t) == [op |-> "member", type |-> t]
CountItem(t) == [op |-> "count", type |-> t]
\* n times operator>> of a value or of a string, or copy_arr of n values.
Loop(op, k, n) ==
  IF n = 0 THEN <<>> ELSE <<[op |-> op, kind |-> k, n |-> n]>>
TextItem(k, n) == [op |-> "text", kind |-> k, n |-> n]
ReadStructs(members, n) == [op |-> "read_structs", of |-> members, n |-> n]

FieldItems(fields) == [i \in DOMAIN fields |-> FieldItem(fields[i])]
MemberItems(types) == [i \in DOMAIN types |-> MemberItem(types[i])]

\* The value of an unsigned 32 bit count (below 2^16 here), and back: any other
\* value stands for more than a buffer can hold.
U32(n) == <<0, 0, (n \div 256) % 256, n % 256>>
TooMany == 65536
CountOf(v) == IF v[1] = 0 /\ v[2] = 0 THEN 256 * v[3] + v[4] ELSE TooMany

\* A member has as many elements as its type says, a bool is 0 or 1, and a nested
\* message has the members of its type; counts are below the bound of U32.
ASSUME FieldsFitTypes ==
  \A f \in Fields :
    /\ f.type.shape = "one" => Len(f.elems) = 1
    /\ f.type.shape = "array" => Len(f.elems) = f.type.size
    /\ f.type.shape = "sequence" => Len(f.elems) < TooMany
    /\ \A i \in DOMAIN f.elems :
         LET e == f.elems[i]
         IN  /\ f.type.kind = "boolean" => e \in {<<0>>, <<1>>}
             /\ f.type.kind \in Texts => Len(e) + 1 < TooMany
             /\ f.type.kind = "message" => [j \in DOMAIN e |-> e[j].type] = f.type.of

-----------------------------------------------------------------------------
(* The buffer: roundup, the test against the end, the bytes in memory.     *)

\* roundup(align): -offset_ & (align - 1) bytes of padding.
Padding(w) == (-off) % w
Aligned(w) == off + Padding(w)

\* roundup throws when the padding does not fit, the operators when n elements
\* of w bytes behind it do not; mutant: the padding is not counted.
FitsUnpadded(w, n) == off + w * n =< size
Fits(w, n) == Aligned(w) + w * n =< size

\* Where a process of this order keeps the k-th most significant of w bytes.
Place(order, w, k) == IF order = "big" THEN k ELSE w + 1 - k

Written(w, vals) ==
  [i \in 1..size |->
     LET j == i - 1 - Aligned(w)
     IN  IF j >= 0 /\ j < w * Len(vals)
         THEN vals[(j \div w) + 1][Place(writer.order, w, (j % w) + 1)]
         ELSE buf[i]]

\* A read past the end would find any byte (InBounds: there is none).
ByteAt(i) == IF i \in 1..size THEN buf[i] ELSE 0

\* n values as the reader finds them in memory, before it swaps their bytes.
Found(w, n) ==
  [i \in 1..n |-> [k \in 1..w |->
     ByteAt(Aligned(w) + w * (i - 1) + Place(reader.order, w, k))]]

\* bswap16, bswap32, bswap64; mutant: nothing is swapped.
KeptBytes(v) == v
Bswap(v) == [k \in 1..Len(v) |-> v[Len(v) + 1 - k]]
\* copy_arr(uint64_t *) hands its values to bswap32: the high half is lost.
Bswap32Of64(v) == [k \in 1..8 |-> IF k =< 4 THEN 0 ELSE v[13 - k]]

Swap == writer.order # reader.order     \* buf[1] != CDR_SYSTEM_ENDIAN
Loaded(w, n) ==
  [i \in 1..n |-> IF Swap THEN Bswap(Found(w, n)[i]) ELSE Found(w, n)[i]]
LoadedArray(k, n) ==
  [i \in 1..n |-> IF Swap /\ k = "64" THEN Bswap32Of64(Found(8, n)[i])
                  ELSE Loaded(Width[k], n)[i]]

-----------------------------------------------------------------------------
(* The size pass and the write pass run the same serializer.               *)

Writing == phase \in {"size", "write"} /\ todo # <<>>
UnchangedCall == UNCHANGED <<message, mapping, writer, reader, cut>>

\* serialize(.., roundup_ = true) of the whole message ends with roundup(4).
Serialized(fields) == FieldItems(fields) \o <<Put(4, <<>>)>>

\* get_serialized_size, allocate_message: the size pass begins.
Start(m, map) ==
  /\ phase = "idle"
  /\ phase' = "size"
  /\ message' = m
  /\ mapping' = map
  /\ todo' = Serialized(m)
  /\ UNCHANGED <<writer, reader, cut, off, size, buf, sent, got, flawed>>

\* The head of the list is a field of one of these kinds, f, which unfolds into
\* these calls.
FieldAt(kinds) ==
  /\ Writing
  /\ Head(todo).op = "field"
  /\ Head(todo).field.type.kind \in kinds
Unfold(f, calls) ==
  /\ todo' = calls \o Tail(todo)
  /\ sent' = IF phase = "size" THEN sent
             ELSE sent \o (IF f.type.shape = "sequence"
                           THEN <<U32(Len(f.elems))>> ELSE <<>>)
                       \o (IF f.type.kind = "message" THEN <<>> ELSE f.elems)
  /\ UnchangedCall
  /\ UNCHANGED <<phase, off, size, buf, got>>

\* The number of elements comes first, for a sequence.
Counted(f, items) ==
  IF f.type.shape = "sequence"
  THEN <<Put(4, <<U32(Len(f.elems))>>)>> \o items ELSE items

BooleanCalls(f) ==
  Counted(f, [i \in DOMAIN f.elems |-> Put(1, <<f.elems[i]>>)])
SerializeBoolean ==
  /\ FieldAt({"boolean"})
  /\ Unfold(Head(todo).field, BooleanCalls(Head(todo).field))
  /\ UNCHANGED flawed

\* One copy_arr for all elements, which does nothing if there are none.
PrimitiveCalls(f) ==
  Counted(f, IF f.elems = <<>> THEN <<>>
             ELSE <<Put(Width[f.type.kind], f.elems)>>)
SerializePrimitive ==
  /\ FieldAt(Primitives)
  /\ Unfold(Head(todo).field, PrimitiveCalls(Head(todo).field))
  /\ UNCHANGED flawed

\* In C an array of wchar is not written at all, and the elements of a sequence
\* are written as 32 bits, where the reader expects 16.
WcharFlawed(f) ==
  writer.lang = "c" /\ f.type.shape # "one" /\ f.elems # <<>>
WcharCalls(f) ==
  IF writer.lang = "c" /\ f.type.shape = "array"
  THEN <<>>
  ELSE Counted(f, [i \in DOMAIN f.elems |->
         IF writer.lang = "c" /\ f.type.shape = "sequence"
         THEN Put(4, << <<0, 0, f.elems[i][1], f.elems[i][2]>> >>)
         ELSE Put(2, <<f.elems[i]>>)])
SerializeWchar ==
  /\ FieldAt({"wchar"})
  /\ Unfold(Head(todo).field, WcharCalls(Head(todo).field))
  /\ flawed' = (flawed \/ WcharFlawed(Head(todo).field))

\* A string is written with its size and its terminating null, both counted;
\* mutant: the null is not.
NullNotCounted(s) == Len(s)
StringSize(s) == Len(s) + 1
StringCalls(f) ==
  Counted(f, [i \in 1..(2 * Len(f.elems)) |->
    LET s == f.elems[(i + 1) \div 2]
    IN  IF i % 2 = 1 THEN Put(4, <<U32(StringSize(s))>>)
        ELSE Put(1, s \o << <<0>> >>)])
SerializeString ==
  /\ FieldAt({"string"})
  /\ Unfold(Head(todo).field, StringCalls(Head(todo).field))
  /\ UNCHANGED flawed

WstringCalls(f) ==
  Counted(f, [i \in 1..(2 * Len(f.elems)) |->
    LET s == f.elems[(i + 1) \div 2]
    IN  IF i % 2 = 1 THEN Put(4, <<U32(Len(s))>>) ELSE Put(2, s)])
SerializeWstring ==
  /\ FieldAt({"wstring"})
  /\ Unfold(Head(todo).field, WstringCalls(Head(todo).field))
  /\ UNCHANGED flawed

StructCalls(f) == Counted(f, <<StructsItem(f.elems)>>)
SerializeStructArr ==
  /\ FieldAt({"message"})
  /\ Unfold(Head(todo).field, StructCalls(Head(todo).field))
  /\ UNCHANGED flawed

\* The next element of an array of messages, serialized without a final roundup.
SerializeStruct ==
  /\ Writing
  /\ Head(todo).op = "structs"
  /\ LET s == Head(todo).elems
     IN  todo' = (IF s = <<>> THEN <<>>
                  ELSE FieldItems(Head(s)) \o <<StructsItem(Tail(s))>>) \o Tail(todo)
  /\ UnchangedCall
  /\ UNCHANGED <<phase, off, size, buf, sent, got, flawed>>

\* A call that writes values, or counts their bytes; mutant: the size pass does
\* not count the padding.
CountedUnpadded(w, n) == IF phase = "size" THEN off + w * n ELSE Aligned(w) + w * n
Advanced(w, n) == Aligned(w) + w * n

PutValues ==
  /\ Writing
  /\ Head(todo).op = "put"
  /\ LET w == Head(todo).w
         vals == Head(todo).vals
     IN  \/ /\ phase = "write" => Fits(w, Len(vals))
            /\ buf' = IF phase = "write" THEN Written(w, vals) ELSE buf
            /\ off' = Advanced(w, Len(vals))
            /\ todo' = Tail(todo)
            /\ UNCHANGED phase
         \/ /\ phase = "write" /\ ~Fits(w, Len(vals))
            /\ phase' = "not_written"
            /\ UNCHANGED <<buf, off, todo>>
  /\ UnchangedCall
  /\ UNCHANGED <<size, sent, got, flawed>>

\* The basic mapping of services writes a header before the message, for which
\* allocate_request_basic and allocate_response_basic have made no room: the
\* gid of the client, the halves of the number, and an empty instance name or
\* an error code.
Prologue(map) ==
  IF map = "message" THEN <<>>
  ELSE [i \in 1..2 |-> Put(8, <<[k \in 1..8 |-> 1]>>)]
       \o [i \in 1..2 |-> Put(4, <<U32(1)>>)]
       \o (IF map = "basic_request"
           THEN <<Put(4, <<U32(1)>>), Put(1, << <<0>> >>)>>
           ELSE <<Put(4, <<U32(0)>>)>>)

\* malloc(get_offset() + 4), less the header; mutant: the header is forgotten.
WithoutHeader == off - 4
Allocated == off

StartWriting(fill) ==
  /\ phase = "size"
  /\ todo = <<>>
  /\ phase' = "write"
  /\ size' = Allocated
  /\ buf' = [i \in 1..Allocated |-> fill]
  /\ off' = 0
  /\ todo' = Prologue(mapping) \o Serialized(message)
  /\ UnchangedCall
  /\ UNCHANGED <<sent, got, flawed>>

-----------------------------------------------------------------------------
(* Reading.                                                                *)

Reading == phase = "read" /\ todo # <<>>

\* deserialize_cdr_to_ros on the first bytes of what was written.
StartReading(p, missing) ==
  /\ phase = "write"
  /\ todo = <<>>
  /\ missing =< size + 4
  /\ reader' = p
  /\ cut' = missing
  /\ phase' = IF missing > size THEN "rejected" ELSE "read"
  /\ size' = IF missing > size THEN 0 ELSE size - missing
  /\ buf' = [i \in 1..size' |-> buf[i]]
  /\ off' = 0
  /\ todo' = MemberItems([i \in DOMAIN message |-> message[i].type])
  /\ UNCHANGED <<message, mapping, writer, sent, got, flawed>>

UnchangedRead ==
  UNCHANGED <<message, mapping, writer, reader, cut, size, buf, sent>>

\* What n elements of a member are read with.
ReadOp(t) ==
  IF t.kind \in Texts THEN "length"
  ELSE IF t.kind \in Primitives /\ t.shape # "one" THEN "copy" ELSE "get"
Elements(t, n) ==
  IF t.kind = "message" THEN <<ReadStructs(t.of, n)>> ELSE Loop(ReadOp(t), t.kind, n)

\* read_boolean .. read_struct_arr: a sequence begins with its count.
ReadMember ==
  /\ Reading
  /\ Head(todo).op = "member"
  /\ LET t == Head(todo).type
     IN  todo' = (IF t.shape = "sequence" THEN <<CountItem(t)>>
                  ELSE Elements(t, IF t.shape = "one" THEN 1 ELSE t.size))
                 \o Tail(todo)
  /\ UnchangedRead
  /\ UNCHANGED <<phase, off, got, flawed>>

\* An exception ends the pass.
Reject(ops, w, n) ==
  /\ Head(todo).op \in ops
  /\ ~Fits(w, n)
  /\ phase' = "rejected"
  /\ UNCHANGED <<todo, off, got, flawed>>

\* The read of a count, which is believed: memory for so many elements is taken
\* before one of them is read, and a count that is too large fails at the latest
\* when the bytes have run out.  A vector that cannot have so many throws what the
\* catch of std::runtime_error does not take.
ReadCount ==
  LET n == CountOf(Loaded(4, 1)[1])
  IN  /\ Reading
      /\ \/ Reject({"count"}, 4, 1)
         \/ /\ Head(todo).op = "count"
            /\ Fits(4, 1)
            /\ todo' = Elements(Head(todo).type, n) \o Tail(todo)
            /\ off' = Aligned(4) + 4
            /\ got' = got \o Loaded(4, 1)
            /\ UNCHANGED <<phase, flawed>>
         \/ /\ Head(todo).op = "count"
            /\ Fits(4, 1) /\ reader.lang = "cxx"
            /\ phase' = "escaped"
            /\ UNCHANGED <<todo, off, got, flawed>>
      /\ UnchangedRead

\* operator>> of a primitive value.
GetValue ==
  /\ Reading
  /\ Head(todo).op = "get"
  /\ LET k == Head(todo).kind
         w == Width[k]
         v == Loaded(w, 1)[1]
     IN  \/ Reject({"get"}, w, 1)
         \/ /\ Fits(w, 1)
            /\ got' = Append(got, IF k = "boolean" /\ v # <<0>> THEN <<1>> ELSE v)
            /\ off' = Aligned(w) + w
            /\ todo' = Loop("get", k, Head(todo).n - 1) \o Tail(todo)
            /\ UNCHANGED <<phase, flawed>>
  /\ UnchangedRead

\* copy_arr.
CopyArr ==
  /\ Reading
  /\ Head(todo).op = "copy"
  /\ LET k == Head(todo).kind
         w == Width[k]
         n == Head(todo).n
     IN  \/ Reject({"copy"}, w, n)
         \/ /\ Fits(w, n)
            /\ got' = got \o LoadedArray(k, n)
            /\ off' = Aligned(w) + w * n
            /\ todo' = Tail(todo)
            /\ flawed' = (flawed \/ (Swap /\ k = "64"))
            /\ UNCHANGED phase
  /\ UnchangedRead

\* operator>> of a string: its size, then its characters.
ReadLength ==
  /\ Reading
  /\ Head(todo).op = "length"
  /\ \/ Reject({"length"}, 4, 1)
     \/ /\ Fits(4, 1)
        /\ todo' = <<TextItem(Head(todo).kind, CountOf(Loaded(4, 1)[1]))>>
                   \o Loop("length", Head(todo).kind, Head(todo).n - 1) \o Tail(todo)
        /\ off' = Aligned(4) + 4
        /\ UNCHANGED <<phase, got, flawed>>
  /\ UnchangedRead

\* The last byte of a string must be null, which only C++ checks; the null is
\* not part of the value.  A size of 0 stands for an empty string.
ReadText ==
  /\ Reading
  /\ Head(todo).op = "text"
  /\ LET k == Head(todo).kind
         w == Width[k]
         n == Head(todo).n
         chars == Loaded(w, n)
         unterminated == /\ k = "string" /\ reader.lang = "cxx"
                         /\ n > 0 /\ chars[n] # <<0>>
     IN  \/ Reject({"text"}, w, n)
         \/ /\ Fits(w, n)
            /\ \/ /\ ~unterminated
                  /\ got' = Append(got, IF k = "string" /\ n > 0
                                        THEN SubSeq(chars, 1, n - 1) ELSE chars)
                  /\ off' = Aligned(w) + w * n
                  /\ todo' = Tail(todo)
                  /\ UNCHANGED phase
               \/ /\ unterminated
                  /\ phase' = "rejected"
                  /\ UNCHANGED <<got, off, todo>>
            /\ UNCHANGED flawed
  /\ UnchangedRead

\* The next element of an array of messages.
ReadStruct ==
  /\ Reading
  /\ Head(todo).op = "read_structs"
  /\ LET s == Head(todo)
     IN  todo' = (IF s.n = 0 THEN <<>>
                  ELSE MemberItems(s.of) \o <<ReadStructs(s.of, s.n - 1)>>)
                 \o Tail(todo)
  /\ UnchangedRead
  /\ UNCHANGED <<phase, off, got, flawed>>

Accept ==
  /\ phase = "read"
  /\ todo = <<>>
  /\ phase' = "accepted"
  /\ UnchangedRead
  /\ UNCHANGED <<todo, off, got, flawed>>

\* The conversion is over, and another one may begin.
Return ==
  /\ phase \in Ended
  /\ phase' = "idle"
  /\ message' = <<>>
  /\ mapping' = "message"
  /\ reader' = writer
  /\ cut' = 0
  /\ todo' = <<>>
  /\ off' = 0
  /\ size' = 0
  /\ buf' = <<>>
  /\ sent' = <<>>
  /\ got' = <<>>
  /\ flawed' = FALSE
  /\ UNCHANGED writer

-----------------------------------------------------------------------------
CdrInit ==
  /\ phase = "idle"
  /\ message = <<>>
  /\ mapping = "message"
  /\ writer \in Processes
  /\ reader = writer
  /\ cut = 0
  /\ todo = <<>>
  /\ off = 0
  /\ size = 0
  /\ buf = <<>>
  /\ sent = <<>>
  /\ got = <<>>
  /\ flawed = FALSE

Serialize ==
  \/ SerializeBoolean
  \/ SerializePrimitive
  \/ SerializeWchar
  \/ SerializeString
  \/ SerializeWstring
  \/ SerializeStructArr
  \/ SerializeStruct
  \/ PutValues

Deserialize ==
  \/ ReadMember
  \/ ReadCount
  \/ GetValue
  \/ CopyArr
  \/ ReadLength
  \/ ReadText
  \/ ReadStruct
  \/ Accept

CdrNext ==
  \/ \E m \in Messages, map \in Mappings : Start(m, map)
  \/ Serialize
  \/ \E fill \in Fill : StartWriting(fill)
  \/ \E p \in Processes, missing \in Missing : StartReading(p, missing)
  \/ Deserialize
  \/ Return

CdrSpec == CdrInit /\ [][CdrNext]_cdrVars

-----------------------------------------------------------------------------
PutItems(w) == [op : {"put"}, w : {w}, vals : Seq(Value(w))]
Items ==
  [op : {"field"}, field : Fields]
  \cup [op : {"structs"}, elems : Seq(Seq(Fields))]
  \cup PutItems(1) \cup PutItems(2) \cup PutItems(4) \cup PutItems(8)
  \cup [op : {"member", "count"}, type : Types]
  \cup [op : {"get", "length", "copy"}, kind : Kinds \ {"message"}, n : Nat \ {0}]
  \cup [op : {"text"}, kind : Kinds \ {"message"}, n : Nat]
  \cup [op : {"read_structs"}, of : Seq(Types), n : Nat]

CdrTypeOK ==
  /\ phase \in Phases
  /\ message \in Seq(Fields)
  /\ mapping \in Mappings
  /\ writer \in Processes
  /\ reader \in Processes
  /\ cut \in Nat
  /\ todo \in Seq(Items)
  /\ off \in Nat
  /\ size \in Nat
  /\ buf \in [1..size -> Byte]
  /\ flawed \in BOOLEAN

\* Whatever is written or read lies in the buffer: alignment included, the
\* cursor never passes the end, although each call tests it for itself.
InBounds == phase \in {"write", "read"} => off =< size

\* The write pass needs exactly the bytes the size pass counted, so that it
\* never throws (which serialize_direct would hide from DDS) and leaves no byte
\* unwritten at the end; only the basic mapping of services never fits.
WriteFitsItsSize ==
  /\ phase = "not_written" => mapping # "message"
  /\ phase = "write" /\ todo = <<>> => mapping = "message" /\ off = size

\* What is accepted is what was sent, for readers of any language and byte
\* order, and if bytes are missing; but for the members that are treated
\* wrongly: wchar arrays and sequences written in C, and arrays and sequences of
\* 64 bits whose bytes are swapped.
AcceptedIsSent == phase = "accepted" /\ ~flawed => got = sent

\* With the same exceptions, what arrives whole is accepted.
WholeIsAccepted == phase = "rejected" /\ cut = 0 => flawed
=============================================================================
