----------------------- MODULE MCNativeClientProtocol -----------------------
(***************************************************************************)
(* An instance of NativeClientProtocol for TLC: a struct with every kind   *)
(* of field, values to write, and what a page may send, well formed or     *)
(* not.  Also the reference that read() is compared with.                  *)
(***************************************************************************)
EXTENDS NativeClientProtocol

\* Names of fields, as the strings they are.
n == <<14>>
d == <<4>>
b == <<2>>
m == <<13>>
l == <<12>>
s == <<19>>
name == <<14, 1>>
day == <<4, 1>>
unknown == <<21>>

Leaf(kind) == [kind |-> kind]
Function(pairs) == [k \in {p[1] : p \in pairs} |-> (CHOOSE p \in pairs : p[1] = k)[2]]

\* struct Date { 1: required string name, 2: optional i8 day }
\* struct Person { 1: optional i64 n, 2: optional double d, 3: binary b,
\*                 4: map<string, Date> m, 5: list<map<string, bool>> l, 6: set<i16> s }
MCSchema ==
  [Person |-> [kind |-> "struct", order |-> <<n, d, b, m, l, s>>, required |-> {},
               type |-> Function({<<n, "i64">>, <<d, "double">>, <<b, "binary">>,
                                  <<m, "dates">>, <<l, "flags">>, <<s, "numbers">>})],
   Date |-> [kind |-> "struct", order |-> <<name, day>>, required |-> {name},
             type |-> Function({<<name, "string">>, <<day, "i8">>})],
   dates |-> [kind |-> "map", key |-> "string", elem |-> "Date"],
   flags |-> [kind |-> "list", elem |-> "flag"],
   flag |-> [kind |-> "map", key |-> "string", elem |-> "bool"],
   numbers |-> [kind |-> "set", elem |-> "i16"],
   bool |-> Leaf("bool"), i8 |-> Leaf("i8"), i16 |-> Leaf("i16"), i64 |-> Leaf("i64"),
   double |-> Leaf("double"), string |-> Leaf("string"), binary |-> Leaf("binary")]

\* The integer types, scaled down in proportion to MaxPrecise = 16.
MCLimit == [i8 |-> <<-2, 1>>, i16 |-> <<-4, 3>>, i32 |-> <<-8, 7>>]

-----------------------------------------------------------------------------
(* Values to write *)

Date1 == Function({<<name, <<>>>>})
Date2 == Function({<<name, <<1, 2>>>>, <<day, <<-2>>>>})

\* The fields that are not optional, and a Person with more of them.
Plain == Function({<<b, <<>>>>, <<m, <<>>>>, <<l, <<>>>>, <<s, {}>>})
With(f, v) == Extend(Plain, f, v)

SafeObjects ==
  {With(n, <<i>>) : i \in {0, 7, -16, 16, 18, -18}}
    \cup {With(b, x) : x \in {<<255>>, <<1, 128>>, <<0, 255, 7>>, <<9, 8, 7, 6>>}}
    \cup {With(d, <<3>>), With(s, {<<-4>>, <<3>>}),
          With(m, Function({<<<<>>, Date1>>, <<<<1>>, Date2>>})),
          With(l, <<<<>>, Function({<<<<3>>, <<1>>>>, <<<<4>>, <<0>>>>})>>),
          Extend(With(m, Function({<<<<5>>, Date2>>})), l, <<Function({<<<<>>, <<1>>>>})>>)}

\* One more than kMaxPreciseDouble.
ImpreciseObjects == {With(n, <<17>>)}

\* The Persons of a set, and the values that occur in them.
ValuesOf(persons) ==
  LET Parts(f) == {x[f] : x \in {y \in persons : f \in DOMAIN y}}
  IN  [Person |-> persons, Date |-> {Date1, Date2}, dates |-> Parts(m), flags |-> Parts(l),
       flag |-> UNION {Range(x) : x \in Parts(l)}, numbers |-> Parts(s),
       bool |-> {<<0>>, <<1>>}, i8 |-> {<<-2>>}, i16 |-> UNION Parts(s), i64 |-> Parts(n),
       double |-> Parts(d), binary |-> Parts(b),
       string |-> {<<>>, <<1>>, <<3>>, <<4>>, <<5>>, <<1, 2>>}]
SafeValues == ValuesOf(SafeObjects)
ImpreciseValues == ValuesOf(ImpreciseObjects)

-----------------------------------------------------------------------------
(* What the page sends *)

Dict(pairs) == [tag |-> "dictionary", entries |-> Function(pairs)]
Arr(entries) == [tag |-> "array", entries |-> entries]
At(place) == Var("dictionary", <<place>>)
ArrayAt(place) == Var("array", <<place>>)
IntVar(i) == Var("int", <<i>>)
Halves(i) == Var("double", <<i>>)
Str(x) == Var("string", x)
Page(containers) == [heap |-> containers, root |-> At(1)]

\* A Person with one field besides an unknown one and a null one.
One(f, v) == Page(<<Dict({<<f, v>>, <<unknown, IntVar(1)>>, <<d, Null>>})>>)
\* One with a field whose value is the container at place 2.
Deep(f, v, rest) == Page(<<Dict({<<f, v>>, <<unknown, v>>})>> \o rest)

Pages ==
  {One(n, v) : v \in {IntVar(7), Halves(2), Halves(3), Halves(-32), Halves(34), Str(<<1>>), Null}}
    \cup {One(b, v) : v \in {Str(<<>>), Str(<<1>>), Str(<<60, 16>>), Str(<<1, 2, NotBase64, NotBase64>>),
                             IntVar(1)}}
    \cup {One(d, IntVar(2)), One(d, Halves(3)), One(d, Str(<<>>))}
    \cup {Deep(m, At(2), <<Dict({<<<<1>>, At(3)>>, <<<<2>>, At(3)>>}), date>>) :
            date \in {Dict({<<name, Str(<<1>>)>>, <<day, IntVar(1)>>}),
                      Dict({<<name, Str(<<1>>)>>, <<day, IntVar(2)>>}),
                      Dict({<<name, Str(<<1>>)>>, <<day, Null>>}),
                      Dict({<<day, Halves(-4)>>})}}
    \cup {Deep(m, At(2), <<Dict({<<<<1>>, Null>>})>>),
          Deep(m, At(2), <<Dict({<<<<1>>, ArrayAt(3)>>}), Arr(<<>>)>>),
          Deep(m, ArrayAt(2), <<Arr(<<>>)>>)}
    \cup {Deep(l, ArrayAt(2), <<Arr(<<At(3), At(3)>>), Dict({<<<<1>>, Var("bool", <<1>>)>>})>>),
          Deep(l, ArrayAt(2), <<Arr(<<At(3), Null>>), Dict({})>>),
          Deep(l, At(2), <<Dict({})>>)}
    \cup {Deep(s, ArrayAt(2), <<Arr(<<IntVar(3), Halves(6)>>)>>),
          Deep(s, ArrayAt(2), <<Arr(<<IntVar(3), IntVar(4)>>)>>)}
    \cup {[heap |-> <<>>, root |-> Null], [heap |-> <<Arr(<<>>)>>, root |-> ArrayAt(1)]}

-----------------------------------------------------------------------------
(* The meaning of a pp::Var *)

\* The bytes whose bits, six at a time, are the characters of a string.
Bit(chars, i) == (chars[(i \div 6) + 1] \div 2 ^ (5 - (i % 6))) % 2
BytesOf(chars) ==
  [k \in 1 .. (6 * Len(chars)) \div 8 |->
     FoldSeq(LAMBDA bit, sum : sum + bit, 0,
             [j \in 1 .. 8 |-> 2 ^ (8 - j) * Bit(chars, 8 * (k - 1) + j - 1)])]

\* The integers of kind k that a page can name: JavaScript's safe ones.
IntegersOf(k) == IF k = "i64" THEN -MaxPrecise .. MaxPrecise ELSE Limit[k][1] .. Limit[k][2]

\* The number a pp::Var stands for, in halves.
Number(var) == IF var.tag = "int" THEN 2 * var.v[1] ELSE var.v[1]

\* <<x>> if the leaf var means the value x of kind k, <<>> if it means none.
LeafMeaning(k, var) ==
  CASE k \in {"bool", "string"} -> IF var.tag = k THEN <<var.v>> ELSE <<>>
    [] k = "binary" -> IF var.tag = "string" /\ Len(var.v) % 4 # 1 THEN <<BytesOf(var.v)>> ELSE <<>>
    [] k = "double" -> IF var.tag \in {"int", "double"} THEN <<<<Number(var)>>>> ELSE <<>>
    [] OTHER -> IF var.tag \in {"int", "double"} /\ \E i \in IntegersOf(k) : 2 * i = Number(var)
                THEN <<<<CHOOSE i \in IntegersOf(k) : 2 * i = Number(var)>>>> ELSE <<>>

\* <<x>> if var means the value x of type t, <<>> if it means none.
RECURSIVE Meaning(_, _, _)
Meaning(h, t, var) ==
  IF ~IsContainer(t) THEN LeafMeaning(Kind(t), var)
  ELSE IF var.tag # TagOf(t) THEN <<>>
  ELSE LET entries == h[var.v[1]].entries
           schema == Schema[t]
           names == IF schema.kind # "struct" THEN DOMAIN entries
                    ELSE {f \in DOMAIN entries \cap DOMAIN schema.type : entries[f].tag # "null"}
           parts == [f \in names |->
                       Meaning(h, IF schema.kind = "struct" THEN schema.type[f] ELSE schema.elem,
                               entries[f])]
       IN  IF \/ \E f \in names : parts[f] = <<>>
              \/ schema.kind = "struct" /\ ~(schema.required \subseteq names)
           THEN <<>>
           ELSE IF schema.kind = "set" THEN <<{parts[f][1] : f \in names}>>
           ELSE <<[f \in names |-> parts[f][1]]>>

\* base64_decode is specified for strings without padding only.
Unpadded(h) ==
  \A place \in DOMAIN h : LET e == h[place].entries
                          IN  \A k \in DOMAIN e : e[k].tag = "string" => NotBase64 \notin Range(e[k].v)

\* read() computes the meaning of root_var_, whatever order GetKeys chose, and
\* throws exactly if it has none.
ReadMeans ==
  Unpadded(heap) =>
    /\ op = "read" => Meaning(heap, Root, root_var_) = <<result>>
    /\ op = "readThrew" => root_var_ = None \/ Meaning(heap, Root, root_var_) = <<>>
=============================================================================
