---- MODULE MCCdrCodec ----
EXTENDS CdrCodec

T(k, shape, n) == [kind |-> k, shape |-> shape, size |-> n, of |-> <<>>]
F(type, elems) == [type |-> type, elems |-> elems]
V(w) == [i \in 1..w |-> 16 * w + i]

\* Nested messages: a byte and 32 bits, and a string.
Inner == <<F(T("8", "one", 0), <<V(1)>>), F(T("32", "one", 0), <<V(4)>>)>>
InnerText == <<F(T("string", "one", 0), << <<V(1)>> >>)>>
Struct(shape, n, inner) ==
  [kind |-> "message", shape |-> shape, size |-> n,
   of |-> [i \in DOMAIN inner |-> inner[i].type]]

Plain == F(T("8", "one", 0), <<V(1)>>)
MCFields ==
  {Plain,
   F(T("boolean", "sequence", 0), << <<1>>, <<0>> >>),
   F(T("8", "sequence", 0), <<V(1)>>),
   F(T("16", "array", 2), <<V(2), V(2)>>),
   F(T("32", "one", 0), <<V(4)>>),
   F(T("64", "one", 0), <<V(8)>>),
   F(T("64", "sequence", 0), <<>>),
   F(T("64", "array", 1), <<V(8)>>),
   F(T("wchar", "one", 0), <<V(2)>>),
   F(T("wchar", "array", 1), <<V(2)>>),
   F(T("wchar", "sequence", 0), <<V(2)>>),
   F(T("string", "one", 0), << <<>> >>),
   F(T("string", "array", 2), << <<V(1)>>, <<>> >>),
   F(T("wstring", "one", 0), << <<V(2)>> >>),
   F(T("wstring", "sequence", 0), << <<>> >>),
   F(Struct("one", 0, Inner), <<Inner>>),
   F(Struct("sequence", 0, Inner), <<Inner, Inner>>),
   F(Struct("array", 1, InnerText), <<InnerText>>)}
  \cup {Inner[1], Inner[2], InnerText[1]}
MCTypes == {f.type : f \in MCFields}

\* A byte, so that what follows is not aligned, and one or two more members.
MCMessages == {<<f>> : f \in MCFields}
              \cup {<<Plain, f, g>> : f, g \in MCFields}
====
