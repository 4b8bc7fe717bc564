--------------------- MODULE NativeClientProtocolProofs ---------------------
(* Proofs about NativeClientProtocol, for every schema, every value that is   *)
(* written and every pp::Var that the page sends.                             *)
EXTENDS NativeClientProtocol, FiniteSetTheorems, SequenceTheorems, WellFoundedInduction, TLAPS

-----------------------------------------------------------------------------
(* The inductive invariant *)

IsSeq(s) == s \in Seq(Range(s))

\* A WriterContext, and a ReaderContext whose keys are those of its dictionary.
WriterWell(c) ==
  /\ c = [place |-> c.place, type_ |-> c.type_, field_name_ |-> c.field_name_,
          map_key_ |-> c.map_key_]
  /\ c.place \in DOMAIN heap
ReaderWell(c) ==
  /\ c = [place |-> c.place, type_ |-> c.type_, keys_ |-> c.keys_, index_ |-> c.index_]
  /\ c.place \in DOMAIN heap
  /\ heap[c.place].tag = "dictionary" => c.keys_ \in Seq(DOMAIN heap[c.place].entries)
  /\ c.index_ \in 0 .. Size(c)

\* The items an activation of write() has left are values of the types declared.
WritingWell(f) ==
  /\ f = [type |-> f.type, todo |-> f.todo]
  /\ f.type \in DOMAIN Schema /\ IsContainer(f.type)
  /\ IsSeq(f.todo)
  /\ \A i \in DOMAIN f.todo : /\ f.todo[i].type \in DOMAIN Schema
                              /\ f.todo[i].val \in Values[f.todo[i].type]

\* An activation of read() has the name of the field, or the key, of the value that
\* an inner one is reading.
ReadingWell(f, inner) ==
  /\ f = [type |-> f.type, slot |-> f.slot, left |-> f.left, acc |-> f.acc]
  /\ f.type \in DOMAIN Schema /\ IsContainer(f.type)
  /\ f.left \in Nat
  /\ Kind(f.type) = "struct" /\ f.slot # <<>> => f.slot[1] \in DOMAIN Schema[f.type].type
  /\ Kind(f.type) \in {"struct", "map"} /\ inner => f.slot # <<>>

Heap == WellFormed(heap) /\ (root_var_ # None => Refers(root_var_, heap))
Client == /\ op \in Idle \cup Threw \cup {"writing", "reading"}
          /\ wrote \in Values[Root] \cup {None}
Stacks ==
  /\ IsSeq(writer_stack_) /\ IsSeq(reader_stack_) /\ IsSeq(calls)
  /\ \A i \in DOMAIN writer_stack_ : WriterWell(writer_stack_[i])
  /\ \A i \in DOMAIN reader_stack_ : ReaderWell(reader_stack_[i])
Activations ==
  /\ op \in {"writing", "reading"} <=> calls # <<>>
  /\ op = "writing" => \A i \in DOMAIN calls : WritingWell(calls[i])
  /\ op = "reading" => \A i \in DOMAIN calls : ReadingWell(calls[i], i < Len(calls))

\* InSync with what it needs to be inductive.
InStep == Heap /\ Client /\ Stacks /\ Activations /\ InSync

-----------------------------------------------------------------------------
(* Sequences of whatever they hold *)

LEMMA SeqIntro ==
  ASSUME NEW S, NEW s \in Seq(S)
  PROVE  IsSeq(s)
BY DEF IsSeq, Range

LEMMA SeqFacts ==
  ASSUME NEW s, IsSeq(s)
  PROVE  Len(s) \in Nat /\ DOMAIN s = 1 .. Len(s) /\ (s = <<>> <=> Len(s) = 0)
BY EmptySeq DEF IsSeq

LEMMA SmallSeq ==
  /\ IsSeq(<<>>) /\ Len(<<>>) = 0 /\ DOMAIN <<>> = {}
  /\ \A x : IsSeq(<<x>>) /\ Len(<<x>>) = 1 /\ <<x>>[1] = x /\ <<x>> # <<>>
BY DEF IsSeq, Range

LEMMA AppendSeq ==
  ASSUME NEW s, IsSeq(s), NEW x
  PROVE  /\ IsSeq(Append(s, x)) /\ Len(Append(s, x)) = Len(s) + 1 /\ Append(s, x) # <<>>
         /\ \A i \in 1 .. Len(s) : Append(s, x)[i] = s[i]
         /\ Append(s, x)[Len(s) + 1] = x
<1> DEFINE S == Range(s) \cup {x}
<1>1. s \in Seq(S) /\ x \in S
  BY DEF IsSeq
<1>2. /\ Append(s, x) \in Seq(S) /\ Len(Append(s, x)) = Len(s) + 1 /\ Append(s, x) # <<>>
      /\ \A i \in 1 .. Len(s) : Append(s, x)[i] = s[i]
      /\ Append(s, x)[Len(s) + 1] = x
  BY <1>1, AppendProperties
<1> QED BY <1>2, SeqIntro

LEMMA TailSeq ==
  ASSUME NEW s, IsSeq(s), s # <<>>
  PROVE  /\ IsSeq(Tail(s)) /\ Len(Tail(s)) = Len(s) - 1 /\ Head(s) = s[1] /\ 1 \in DOMAIN s
         /\ \A i \in DOMAIN Tail(s) : i + 1 \in DOMAIN s /\ Tail(s)[i] = s[i + 1]
<1>1. s \in Seq(Range(s)) /\ Len(s) \in Nat /\ DOMAIN s = 1 .. Len(s) /\ Len(s) # 0
  BY SeqFacts DEF IsSeq
<1>2. /\ Tail(s) \in Seq(Range(s)) /\ Len(Tail(s)) = Len(s) - 1 /\ Head(s) = s[1]
      /\ \A i \in 1 .. Len(Tail(s)) : Tail(s)[i] = s[i + 1]
  BY <1>1, HeadTailProperties
<1>3. IsSeq(Tail(s))
  BY <1>2, SeqIntro
<1>4. DOMAIN Tail(s) = 1 .. Len(s) - 1
  BY <1>2, <1>3, SeqFacts
<1> QED BY <1>1, <1>2, <1>3, <1>4

LEMMA FrontSeq ==
  ASSUME NEW s, IsSeq(s), s # <<>>
  PROVE  /\ IsSeq(Front(s)) /\ Len(Front(s)) = Len(s) - 1 /\ DOMAIN Front(s) = 1 .. Len(s) - 1
         /\ \A i \in 1 .. Len(s) - 1 : Front(s)[i] = s[i]
<1>1. s \in Seq(Range(s)) /\ Len(s) \in Nat /\ Len(s) # 0 /\ 1 \in 1 .. Len(s) + 1
      /\ Len(s) - 1 \in 0 .. Len(s)
  BY SeqFacts DEF IsSeq
<1>2. /\ SubSeq(s, 1, Len(s) - 1) \in Seq(Range(s))
      /\ Len(SubSeq(s, 1, Len(s) - 1)) = IF 1 <= Len(s) - 1 THEN (Len(s) - 1) - 1 + 1 ELSE 0
      /\ \A i \in 1 .. (Len(s) - 1) - 1 + 1 : SubSeq(s, 1, Len(s) - 1)[i] = s[1 + i - 1]
  BY <1>1, SubSeqProperties
<1>3. IsSeq(Front(s)) /\ Len(Front(s)) = Len(s) - 1
  <2> DEFINE q == SubSeq(s, 1, Len(s) - 1)
  <2>1. \A n \in Nat \ {0} : (IF 1 <= n - 1 THEN (n - 1) - 1 + 1 ELSE 0) = n - 1
    OBVIOUS
  <2>2. q \in Seq(Range(s)) /\ Len(q) = Len(s) - 1
    BY <1>1, <1>2, <2>1
  <2> HIDE DEF q
  <2>3. IsSeq(q) /\ Len(q) = Len(s) - 1
    BY <2>2, SeqIntro
  <2> QED BY <2>3 DEF q, Front
<1>4. ASSUME NEW i \in 1 .. Len(s) - 1 PROVE Front(s)[i] = s[i]
  <2>1. (Len(s) - 1) - 1 + 1 = Len(s) - 1 /\ 1 + i - 1 = i
    BY <1>1
  <2> QED BY <1>2, <2>1 DEF Front
<1>5. DOMAIN Front(s) = 1 .. Len(s) - 1
  BY <1>3, SeqFacts
<1> QED BY <1>3, <1>4, <1>5

LEMMA TopSeq ==
  ASSUME NEW s, IsSeq(s), s # <<>>, NEW x
  PROVE  /\ Len(s) \in DOMAIN s /\ Top(s) = s[Len(s)]
         /\ IsSeq(WithTop(s, x)) /\ Len(WithTop(s, x)) = Len(s) /\ WithTop(s, x) # <<>>
         /\ DOMAIN WithTop(s, x) = DOMAIN s
         /\ \A i \in DOMAIN s : WithTop(s, x)[i] = IF i = Len(s) THEN x ELSE s[i]
<1> DEFINE S == Range(s) \cup {x}
<1>1. Len(s) \in Nat /\ DOMAIN s = 1 .. Len(s) /\ Len(s) # 0
  BY SeqFacts
<1>2. s \in Seq(S) /\ x \in S /\ Len(s) \in 1 .. Len(s)
  BY <1>1 DEF IsSeq
<1>3. WithTop(s, x) \in Seq(S) /\ Len(WithTop(s, x)) = Len(s)
      /\ \A i \in 1 .. Len(s) : WithTop(s, x)[i] = IF i = Len(s) THEN x ELSE s[i]
  BY <1>2, ExceptSeq DEF WithTop
<1>4. IsSeq(WithTop(s, x)) /\ WithTop(s, x) # <<>> /\ DOMAIN WithTop(s, x) = DOMAIN s
  BY <1>1, <1>3, SeqIntro, SeqFacts
<1>5. Len(s) \in DOMAIN s /\ Top(s) = s[Len(s)]
  BY <1>1 DEF Top
<1> QED BY <1>1, <1>3, <1>4, <1>5

LEMMA FunctionSeq ==
  ASSUME NEW n \in Nat, NEW s, s = [i \in 1 .. n |-> s[i]]
  PROVE  IsSeq(s) /\ Len(s) = n /\ DOMAIN s = 1 .. n
<1>1. s \in [1 .. n -> Range(s)]
  BY DEF Range
<1>2. s \in Seq(Range(s))
  BY <1>1
<1> QED BY <1>1, <1>2 DEF IsSeq

-----------------------------------------------------------------------------
(* What the generated write() has to write *)

\* A nonempty set of naturals has a least element.
LEMMA LeastNumber ==
  ASSUME NEW T \in SUBSET Nat, T # {}
  PROVE  \E x \in T : \A y \in T : x <= y
<1> DEFINE R == OpToRel(<, Nat)
<1>1. PICK x \in T : \A y \in T : <<y, x>> \notin R
  BY NatLessThanWellFounded, WFMin, Zenon
<1>2. ASSUME NEW y \in T PROVE x <= y
  <2>1. y \in Nat /\ x \in Nat
    OBVIOUS
  <2>2. <<y, x>> \in Nat \X Nat /\ <<y, x>>[1] = y /\ <<y, x>>[2] = x
    BY <2>1
  <2>3. ~(y < x)
    BY <1>1, <2>2 DEF OpToRel
  <2> QED BY <2>1, <2>3
<1> QED BY <1>1, <1>2

\* A finite set of indices has a k-th one.
LEMMA KthIndex ==
  ASSUME NEW n \in Nat, NEW D \in SUBSET (1 .. n), NEW k \in 1 .. Cardinality(D)
  PROVE  \E i \in D : Cardinality(D \cap 1 .. i) = k
<1> DEFINE Upto(i) == D \cap 1 .. i
           T == {i \in Nat : Cardinality(Upto(i)) >= k}
<1>0. IsFiniteSet(D) /\ Cardinality(D) \in Nat /\ k \in Nat /\ k > 0 /\ k <= Cardinality(D)
  <2>1. IsFiniteSet(1 .. n)
    BY FS_Interval
  <2>2. IsFiniteSet(D)
    BY <2>1, FS_Subset
  <2>3. Cardinality(D) \in Nat
    BY <2>2, FS_CardinalityType
  <2> QED BY <2>2, <2>3
<1>1. \A i \in Nat : IsFiniteSet(Upto(i)) /\ Cardinality(Upto(i)) \in Nat
  BY <1>0, FS_Subset, FS_CardinalityType
<1>2. n \in T
  <2>1. Upto(n) = D
    OBVIOUS
  <2> QED BY <1>0, <2>1
<1>3. PICK m \in T : \A j \in T : m <= j
  BY <1>2, LeastNumber
<1>4. m # 0
  <2>1. Upto(0) = {}
    OBVIOUS
  <2>2. Cardinality(Upto(0)) = 0
    BY <2>1, FS_EmptySet
  <2> QED BY <2>2
<1>5. m - 1 \in Nat /\ m - 1 \notin T
  BY <1>3, <1>4
<1>6. Cardinality(Upto(m - 1)) < k /\ Cardinality(Upto(m)) >= k
  <2>1. Cardinality(Upto(m - 1)) \in Nat /\ ~(Cardinality(Upto(m - 1)) >= k)
    BY <1>1, <1>5
  <2> QED BY <1>0, <2>1
<1>7. CASE m \in D
  <2>1. Upto(m) = Upto(m - 1) \cup {m} /\ m \notin Upto(m - 1)
    BY <1>5, <1>7
  <2>2. Cardinality(Upto(m)) = Cardinality(Upto(m - 1)) + 1
    BY <1>1, <1>5, <2>1, FS_AddElement
  <2>3. Cardinality(Upto(m - 1)) \in Nat
    BY <1>1, <1>5
  <2>4. Cardinality(Upto(m)) = k
    BY <1>0, <1>6, <2>2, <2>3
  <2> QED BY <1>7, <2>4
<1>8. CASE m \notin D
  <2>1. Upto(m) = Upto(m - 1)
    BY <1>5, <1>8
  <2>2. Cardinality(Upto(m - 1)) \in Nat
    BY <1>1, <1>5
  <2>3. Cardinality(Upto(m)) = Cardinality(Upto(m - 1))
    BY <2>1
  <2> HIDE DEF Upto
  <2> QED BY <1>0, <1>6, <2>2, <2>3
<1> QED BY <1>7, <1>8

LEMMA SetSeq ==
  ASSUME NEW S, IsFiniteSet(S)
  PROVE  /\ Cardinality(S) \in Nat /\ SetToSeq(S) \in [1 .. Cardinality(S) -> S]
         /\ SetToSeq(S) \in Seq(S) /\ Len(SetToSeq(S)) = Cardinality(S)
<1>1. Cardinality(S) \in Nat
  BY FS_CardinalityType
<1>2. PICK f : f \in Bijection(1 .. Cardinality(S), S)
  BY FS_CardinalityType DEF ExistsBijection
<1>3. f \in [1 .. Cardinality(S) -> S] /\ IsInjective(f)
  BY <1>2 DEF Bijection, Injection, IsInjective
<1>4. SetToSeq(S) \in [1 .. Cardinality(S) -> S]
  BY <1>3 DEF SetToSeq
<1> QED BY <1>1, <1>4

\* The items of a value are values of the types that the schema declares, and those
\* of a map come in pairs.
LEMMA ItemsTyped ==
  ASSUME NEW t \in DOMAIN Schema, IsContainer(t), NEW x \in Values[t]
  PROVE  /\ IsSeq(Items(t, x))
         /\ \A i \in DOMAIN Items(t, x) : /\ Items(t, x)[i].type \in DOMAIN Schema
                                          /\ Items(t, x)[i].val \in Values[Items(t, x)[i].type]
         /\ Kind(t) = "map" => Len(Items(t, x)) % 2 = 0
<1> DEFINE s == Schema[t]
           it == Items(t, x)
           Item3(name, type, val) == [name |-> name, type |-> type, val |-> val]
<1>1. CASE s.kind = "struct"
  <2> DEFINE set == {i \in DOMAIN s.order : s.order[i] \in DOMAIN x}
             Field(k) == s.order[CHOOSE i \in set : Cardinality(set \cap 1 .. i) = k]
             card == Cardinality(set)
  <2>1. /\ s.order \in Seq(DOMAIN s.type)
        /\ \A n \in DOMAIN s.type : s.type[n] \in DOMAIN Schema
        /\ \A n \in DOMAIN x \cap DOMAIN s.type : x[n] \in Values[s.type[n]]
    BY <1>1, SchemaAssumption, ValuesAssumption
  <2>2. it = [k \in 1 .. card |-> Item3(Field(k), s.type[Field(k)], x[Field(k)])]
    BY <1>1 DEF Items
  <2>3. Len(s.order) \in Nat /\ set \in SUBSET (1 .. Len(s.order))
    BY <2>1
  <2>4. card \in Nat
    <3>1. IsFiniteSet(1 .. Len(s.order))
      BY <2>3, FS_Interval
    <3>2. IsFiniteSet(set)
      BY <2>3, <3>1, FS_Subset
    <3> QED BY <3>2, FS_CardinalityType
  <2>5. ASSUME NEW k \in 1 .. card
        PROVE  Field(k) \in DOMAIN x /\ Field(k) \in DOMAIN s.type
    <3>1. \E i \in set : Cardinality(set \cap 1 .. i) = k
      BY <2>3, KthIndex
    <3> DEFINE j == CHOOSE i \in set : Cardinality(set \cap 1 .. i) = k
    <3>2. j \in set /\ Field(k) = s.order[j]
      BY <3>1
    <3> HIDE DEF j, Field
    <3>3. j \in DOMAIN s.order /\ s.order[j] \in DOMAIN x
      BY <3>2
    <3> QED BY <2>1, <3>2, <3>3
  <2> HIDE DEF set, Field, card, s, it
  <2>6. it = [k \in 1 .. card |-> it[k]] /\ DOMAIN it = 1 .. card
    BY <2>2
  <2>7. \A k \in 1 .. card : it[k].type = s.type[Field(k)] /\ it[k].val = x[Field(k)]
    BY <2>2
  <2>8. \A k \in DOMAIN it : it[k].type \in DOMAIN Schema /\ it[k].val \in Values[it[k].type]
    BY <2>1, <2>5, <2>6, <2>7
  <2>9. IsSeq(it)
    BY <2>4, <2>6, FunctionSeq
  <2> QED BY <1>1, <2>8, <2>9 DEF Kind, s, it
<1>2. CASE s.kind = "map"
  <2> DEFINE keys == SetToSeq(DOMAIN x)
  <2>1. /\ IsFiniteSet(DOMAIN x) /\ s.key \in DOMAIN Schema /\ s.elem \in DOMAIN Schema
        /\ \A k \in DOMAIN x : k \in Values[s.key] /\ x[k] \in Values[s.elem]
    BY <1>2, SchemaAssumption, ValuesAssumption
  <2>2. it = [i \in 1 .. 2 * Len(keys) |->
                IF i % 2 = 1 THEN Item3(<<>>, s.key, keys[(i + 1) \div 2])
                ELSE Item3(<<>>, s.elem, x[keys[i \div 2]])]
    BY <1>2 DEF Items
  <2>3. Len(keys) \in Nat /\ \A i \in 1 .. Len(keys) : keys[i] \in DOMAIN x
    BY <2>1, SetSeq
  <2> HIDE DEF keys, s, it
  <2>4. 2 * Len(keys) \in Nat /\ (2 * Len(keys)) % 2 = 0
    BY <2>3
  <2>5. it = [i \in 1 .. 2 * Len(keys) |-> it[i]] /\ DOMAIN it = 1 .. 2 * Len(keys)
    BY <2>2
  <2>6. IsSeq(it) /\ Len(it) = 2 * Len(keys)
    BY <2>4, <2>5, FunctionSeq
  <2>7. ASSUME NEW i \in 1 .. 2 * Len(keys)
        PROVE  it[i].type \in DOMAIN Schema /\ it[i].val \in Values[it[i].type]
    <3>1. CASE i % 2 = 1
      <4>1. (i + 1) \div 2 \in 1 .. Len(keys)
        BY <2>3, <3>1
      <4>2. it[i].type = s.key /\ it[i].val = keys[(i + 1) \div 2]
        BY <2>2, <3>1
      <4> QED BY <2>1, <2>3, <4>1, <4>2
    <3>2. CASE i % 2 # 1
      <4>1. i \div 2 \in 1 .. Len(keys)
        BY <2>3, <3>2
      <4>2. it[i].type = s.elem /\ it[i].val = x[keys[i \div 2]]
        BY <2>2, <3>2
      <4> QED BY <2>1, <2>3, <4>1, <4>2
    <3> QED BY <3>1, <3>2
  <2> QED BY <2>4, <2>5, <2>6, <2>7 DEF it
<1>3. CASE s.kind = "list"
  <2>1. s.elem \in DOMAIN Schema /\ x \in Seq(Values[s.elem])
    BY <1>3, SchemaAssumption, ValuesAssumption
  <2>2. it = [i \in DOMAIN x |-> Item3(<<>>, s.elem, x[i])]
    BY <1>3 DEF Items
  <2> HIDE DEF s, it
  <2>3. Len(x) \in Nat /\ DOMAIN x = 1 .. Len(x) /\ \A i \in DOMAIN x : x[i] \in Values[s.elem]
    BY <2>1
  <2>4. it = [i \in 1 .. Len(x) |-> it[i]]
    BY <2>2, <2>3
  <2>5. \A i \in DOMAIN it : it[i].type \in DOMAIN Schema /\ it[i].val \in Values[it[i].type]
    BY <2>1, <2>2, <2>3
  <2>6. IsSeq(it)
    BY <2>3, <2>4, FunctionSeq
  <2> QED BY <1>3, <2>5, <2>6 DEF Kind, s, it
<1>4. CASE s.kind = "set"
  <2> DEFINE elems == SetToSeq(x)
  <2>1. s.elem \in DOMAIN Schema /\ IsFiniteSet(x) /\ x \subseteq Values[s.elem]
    BY <1>4, SchemaAssumption, ValuesAssumption
  <2>2. it = [i \in DOMAIN elems |-> Item3(<<>>, s.elem, elems[i])]
    BY <1>4 DEF Items
  <2>3. elems \in [1 .. Cardinality(x) -> x] /\ Cardinality(x) \in Nat
    BY <2>1, SetSeq
  <2> HIDE DEF s, it, elems
  <2>4. it = [i \in 1 .. Cardinality(x) |-> it[i]]
    BY <2>2, <2>3
  <2>5. \A i \in DOMAIN it : it[i].type \in DOMAIN Schema /\ it[i].val \in Values[it[i].type]
    BY <2>1, <2>2, <2>3
  <2>6. IsSeq(it)
    BY <2>3, <2>4, FunctionSeq
  <2> QED BY <1>4, <2>5, <2>6 DEF Kind, s, it
<1> QED BY <1>1, <1>2, <1>3, <1>4 DEF IsContainer, Kind

-----------------------------------------------------------------------------
(* Writing *)

\* The context c of the heap h is where the activation f of write() expects it.
WriterFits(f, c, h) ==
  /\ c = [place |-> c.place, type_ |-> c.type_, field_name_ |-> c.field_name_,
          map_key_ |-> c.map_key_]
  /\ c.place \in DOMAIN h
  /\ h[c.place].tag = TagOf(f.type)
  /\ IF Kind(f.type) # "map" THEN c.type_ = ContextOf(f.type)
     ELSE c.type_ = IF Len(f.todo) % 2 = 0 THEN "MAP_KEY_CONTEXT" ELSE "MAP_VALUE_CONTEXT"

ContainerWell(d) ==
  /\ d = [tag |-> d.tag, entries |-> d.entries]
  /\ \/ d.tag = "dictionary" /\ IsFiniteSet(DOMAIN d.entries)
     \/ d.tag = "array" /\ IsSeq(d.entries)

\* A context fits its container: lists are walked in arrays, the rest in dictionaries.
Suits(type_, tag) ==
  \/ type_ = "LIST_CONTEXT" /\ tag = "array"
  \/ type_ \in {"DICTIONARY_CONTEXT", "MAP_KEY_CONTEXT", "MAP_VALUE_CONTEXT"} /\ tag = "dictionary"

LEMMA FitsSuits ==
  ASSUME NEW f, NEW c, NEW h, WriterFits(f, c, h), IsContainer(f.type)
  PROVE  Suits(c.type_, h[c.place].tag)
BY DEF WriterFits, IsContainer, TagOf, ContextOf, Suits

\* writeVar adds one pp::Var at most and changes no other.
LEMMA FilledWell ==
  ASSUME NEW d, ContainerWell(d), NEW c, NEW var, Suits(c.type_, d.tag)
  PROVE  /\ ContainerWell(Filled(d, c, var)) /\ Filled(d, c, var).tag = d.tag
         /\ \A k \in DOMAIN Filled(d, c, var).entries :
              \/ Filled(d, c, var).entries[k] = var
              \/ k \in DOMAIN d.entries /\ Filled(d, c, var).entries[k] = d.entries[k]
<1> DEFINE Goal(g) == /\ ContainerWell(g) /\ g.tag = d.tag
                      /\ \A k \in DOMAIN g.entries :
                           \/ g.entries[k] = var
                           \/ k \in DOMAIN d.entries /\ g.entries[k] = d.entries[k]
<1>1. d = [tag |-> d.tag, entries |-> d.entries]
  BY DEF ContainerWell
<1>2. Goal(d)
  OBVIOUS
<1>3. ASSUME NEW key, d.tag = "dictionary" PROVE Goal(Set(d, key, var))
  <2>1. CASE key.tag # "string"
    BY <1>2, <2>1 DEF Set
  <2>2. CASE key.tag = "string"
    <3> DEFINE g == Set(d, key, var)
               e == Extend(d.entries, key.v, var)
    <3>1. g = [d EXCEPT !.entries = e]
      BY <2>2 DEF Set
    <3>2. /\ DOMAIN e = DOMAIN d.entries \cup {key.v}
          /\ \A k \in DOMAIN e : e[k] = IF k = key.v THEN var ELSE d.entries[k]
      BY DEF Extend
    <3> HIDE DEF e, g
    <3>3. g = [tag |-> d.tag, entries |-> e] /\ g.tag = d.tag /\ g.entries = e
      BY <1>1, <3>1
    <3>4. IsFiniteSet(DOMAIN e)
      <4>1. IsFiniteSet(DOMAIN d.entries)
        BY <1>3 DEF ContainerWell
      <4> QED BY <3>2, <4>1, FS_AddElement
    <3>5. ContainerWell(g)
      BY <1>3, <3>3, <3>4 DEF ContainerWell
    <3>6. \A k \in DOMAIN g.entries :
            \/ g.entries[k] = var
            \/ k \in DOMAIN d.entries /\ g.entries[k] = d.entries[k]
      BY <3>2, <3>3
    <3> QED BY <3>3, <3>5, <3>6 DEF g
  <2> QED BY <2>1, <2>2
<1>4. CASE c.type_ = "LIST_CONTEXT"
  <2> DEFINE g == Filled(d, c, var)
             e == Append(d.entries, var)
  <2>1. g = [d EXCEPT !.entries = e]
    BY <1>4 DEF Filled
  <2>2. d.tag = "array" /\ IsSeq(d.entries)
    BY <1>4 DEF Suits, ContainerWell
  <2>3. /\ IsSeq(e) /\ Len(e) = Len(d.entries) + 1 /\ e[Len(d.entries) + 1] = var
        /\ \A i \in 1 .. Len(d.entries) : e[i] = d.entries[i]
    BY <2>2, AppendSeq
  <2>4. Len(d.entries) \in Nat /\ DOMAIN d.entries = 1 .. Len(d.entries)
    BY <2>2, SeqFacts
  <2> HIDE DEF e, g
  <2>5. DOMAIN e = 1 .. Len(d.entries) + 1
    BY <2>3, SeqFacts
  <2>6. g = [tag |-> d.tag, entries |-> e] /\ g.tag = d.tag /\ g.entries = e
    BY <1>1, <2>1
  <2>7. ContainerWell(g)
    BY <2>2, <2>3, <2>6 DEF ContainerWell
  <2>8. \A k \in DOMAIN e : k = Len(d.entries) + 1 \/ k \in 1 .. Len(d.entries)
    BY <2>4, <2>5
  <2>9. \A k \in DOMAIN g.entries :
          \/ g.entries[k] = var
          \/ k \in DOMAIN d.entries /\ g.entries[k] = d.entries[k]
    BY <2>3, <2>4, <2>6, <2>8
  <2> QED BY <2>6, <2>7, <2>9 DEF g
<1>5. CASE c.type_ = "DICTIONARY_CONTEXT"
  <2>1. Filled(d, c, var) = Set(d, Var("string", c.field_name_), var) /\ d.tag = "dictionary"
    BY <1>5 DEF Filled, Suits
  <2> HIDE DEF Goal
  <2>2. Goal(Filled(d, c, var))
    BY <1>3, <2>1
  <2> QED BY <2>2 DEF Goal
<1>6. CASE c.type_ = "MAP_VALUE_CONTEXT"
  <2>1. Filled(d, c, var) = Set(d, c.map_key_, var) /\ d.tag = "dictionary"
    BY <1>6 DEF Filled, Suits
  <2> HIDE DEF Goal
  <2>2. Goal(Filled(d, c, var))
    BY <1>3, <2>1
  <2> QED BY <2>2 DEF Goal
<1>7. CASE c.type_ = "MAP_KEY_CONTEXT"
  <2>1. Filled(d, c, var) = d
    BY <1>7 DEF Filled
  <2> QED BY <1>2, <2>1
<1> QED BY <1>4, <1>5, <1>6, <1>7 DEF Suits

\* The heap stays well formed when a container gets a pp::Var of the new heap, and a
\* new container is put at its end.
LEMMA HeapFilled ==
  ASSUME NEW h, WellFormed(h), NEW c, c.place \in DOMAIN h, NEW var,
         Suits(c.type_, h[c.place].tag),
         NEW g, IsSeq(g), DOMAIN h \subseteq DOMAIN g,
         g[c.place] = Filled(h[c.place], c, var),
         \A i \in DOMAIN h \ {c.place} : g[i] = h[i],
         \A i \in DOMAIN g \ DOMAIN h : \E t : g[i] = NewContainer(t),
         Refers(var, g)
  PROVE  /\ WellFormed(g)
         /\ \A i \in DOMAIN h : g[i].tag = h[i].tag
         /\ \A v : Refers(v, h) => Refers(v, g)
<1>1. \A i \in DOMAIN h : ContainerWell(h[i]) /\ \A k \in DOMAIN h[i].entries : Refers(h[i].entries[k], h)
  BY DEF WellFormed, ContainerWell, IsSeq
<1>2. /\ ContainerWell(g[c.place]) /\ g[c.place].tag = h[c.place].tag
      /\ \A k \in DOMAIN g[c.place].entries :
           \/ g[c.place].entries[k] = var
           \/ /\ k \in DOMAIN h[c.place].entries
              /\ g[c.place].entries[k] = h[c.place].entries[k]
  BY <1>1, FilledWell
<1>3. \A i \in DOMAIN h : g[i].tag = h[i].tag
  BY <1>2
<1>4. \A v : Refers(v, h) => Refers(v, g)
  BY <1>3 DEF Refers
<1>5. ASSUME NEW i \in DOMAIN g
      PROVE  ContainerWell(g[i]) /\ \A k \in DOMAIN g[i].entries : Refers(g[i].entries[k], g)
  <2>1. CASE i = c.place
    BY <1>1, <1>2, <1>4, <2>1
  <2>2. CASE i \in DOMAIN h \ {c.place}
    BY <1>1, <1>4, <2>2
  <2>3. CASE i \notin DOMAIN h
    <3>1. PICK t : g[i] = NewContainer(t)
      BY <2>3
    <3>2. g[i] = [tag |-> TagOf(t), entries |-> <<>>] /\ g[i].tag = TagOf(t) /\ g[i].entries = <<>>
      BY <3>1 DEF NewContainer
    <3>3. TagOf(t) \in {"dictionary", "array"}
      BY DEF TagOf
    <3>4. DOMAIN g[i].entries = {} /\ IsSeq(g[i].entries) /\ IsFiniteSet(DOMAIN g[i].entries)
      BY <3>2, SmallSeq, FS_EmptySet
    <3> QED BY <3>2, <3>3, <3>4 DEF ContainerWell
  <2> QED BY <2>1, <2>2, <2>3
<1>6. WellFormed(g)
  BY <1>5 DEF WellFormed, ContainerWell, IsSeq
<1> QED BY <1>3, <1>4, <1>6

\* What the step that writes an item leaves of the activation and of its context.
LEMMA ItemWritten ==
  ASSUME InStep, MoreToWrite, NEW var
  PROVE  LET ws == WithTop(writer_stack_, NextPhase(ItemContext, var))
             n == Len(calls)
         IN  /\ n \in Nat /\ n > 0 /\ Len(writer_stack_) = n /\ DOMAIN calls = 1 .. n
             /\ IsSeq(ws) /\ Len(ws) = n /\ IsSeq(Rest) /\ Len(Rest) = n
             /\ ItemContext.place \in DOMAIN heap
             /\ Suits(ItemContext.type_, heap[ItemContext.place].tag)
             /\ Item.type \in DOMAIN Schema /\ Item.val \in Values[Item.type]
             /\ \A i \in 1 .. n : WritingWell(Rest[i]) /\ WriterFits(Rest[i], ws[i], heap)
             /\ IsSeq(WithTop(writer_stack_, ItemContext))
             /\ \A i \in 1 .. n : WriterWell(WithTop(writer_stack_, ItemContext)[i])
<1> DEFINE n == Len(calls)
           f == Top(calls)
           c == Top(writer_stack_)
           ic == ItemContext
           nc == NextPhase(ic, var)
           nf == [f EXCEPT !.todo = Tail(@)]
<1>1. /\ IsSeq(calls) /\ calls # <<>> /\ IsSeq(writer_stack_) /\ op = "writing"
      /\ f.todo # <<>>
      /\ \A i \in DOMAIN calls : WritingWell(calls[i])
      /\ \A i \in DOMAIN writer_stack_ : WriterWell(writer_stack_[i])
      /\ Len(writer_stack_) = n
  BY DEF InStep, Stacks, Activations, MoreToWrite, InSync
<1>2. n \in Nat /\ n > 0 /\ DOMAIN calls = 1 .. n /\ DOMAIN writer_stack_ = 1 .. n
      /\ writer_stack_ # <<>> /\ f = calls[n] /\ c = writer_stack_[n]
  BY <1>1, SeqFacts DEF Top
<1>3. \A i \in 1 .. n : WriterFits(calls[i], writer_stack_[i], heap)
  BY <1>1, <1>2 DEF InStep, InSync, WriterFits, WriterWell
<1>4. WritingWell(f) /\ WriterFits(f, c, heap)
  BY <1>1, <1>2, <1>3
<1>5. /\ f = [type |-> f.type, todo |-> f.todo] /\ IsSeq(f.todo) /\ IsContainer(f.type)
      /\ f.type \in DOMAIN Schema
      /\ \A i \in DOMAIN f.todo : /\ f.todo[i].type \in DOMAIN Schema
                                  /\ f.todo[i].val \in Values[f.todo[i].type]
  BY <1>4 DEF WritingWell
<1>6. /\ IsSeq(Tail(f.todo)) /\ Len(Tail(f.todo)) = Len(f.todo) - 1 /\ Item = f.todo[1]
      /\ 1 \in DOMAIN f.todo /\ Len(f.todo) \in Nat /\ Len(f.todo) # 0
      /\ \A i \in DOMAIN Tail(f.todo) : i + 1 \in DOMAIN f.todo /\ Tail(f.todo)[i] = f.todo[i + 1]
  BY <1>1, <1>5, TailSeq, SeqFacts DEF Item
<1>7. Item.type \in DOMAIN Schema /\ Item.val \in Values[Item.type]
  BY <1>5, <1>6
<1>8. /\ c = [place |-> c.place, type_ |-> c.type_, field_name_ |-> c.field_name_,
              map_key_ |-> c.map_key_]
      /\ c.place \in DOMAIN heap
  BY <1>4 DEF WriterFits
<1>9. /\ ic = [place |-> ic.place, type_ |-> ic.type_, field_name_ |-> ic.field_name_,
               map_key_ |-> ic.map_key_]
      /\ ic.place = c.place /\ ic.type_ = c.type_
  <2>1. ic = c \/ \E name : ic = [c EXCEPT !.field_name_ = name]
    BY DEF ItemContext, writeFieldBegin
  <2> HIDE DEF ic, c
  <2> QED BY <1>8, <2>1
<1>10. Suits(ic.type_, heap[ic.place].tag) /\ ic.place \in DOMAIN heap
  <2>1. Suits(c.type_, heap[c.place].tag)
    BY <1>4, <1>5, FitsSuits
  <2> HIDE DEF ic, c
  <2> QED BY <1>8, <1>9, <2>1
<1>11. /\ nf = [type |-> f.type, todo |-> Tail(f.todo)] /\ nf.type = f.type
       /\ nf.todo = Tail(f.todo)
  <2> DEFINE td == Tail(f.todo)
  <2>1. nf = [f EXCEPT !.todo = td]
    OBVIOUS
  <2> HIDE DEF f, td, nf
  <2>2. nf = [type |-> f.type, todo |-> td] /\ nf.type = f.type /\ nf.todo = td
    BY <1>5, <2>1
  <2> QED BY <2>2 DEF td
<1>12. WritingWell(nf)
  <2> HIDE DEF f, nf
  <2> QED BY <1>5, <1>6, <1>11 DEF WritingWell
<1>13. /\ nc = [place |-> nc.place, type_ |-> nc.type_, field_name_ |-> nc.field_name_,
                map_key_ |-> nc.map_key_]
       /\ nc.place = c.place
       /\ nc.type_ = CASE c.type_ = "MAP_KEY_CONTEXT" -> "MAP_VALUE_CONTEXT"
                       [] c.type_ = "MAP_VALUE_CONTEXT" -> "MAP_KEY_CONTEXT"
                       [] OTHER -> c.type_
  <2> HIDE DEF ic, c
  <2> QED BY <1>9 DEF NextPhase
<1>14. WriterFits(nf, nc, heap)
  <2>1. Kind(f.type) # "map" => c.type_ \in {"DICTIONARY_CONTEXT", "LIST_CONTEXT"}
    BY <1>4, <1>5 DEF WriterFits, ContextOf, IsContainer
  <2>2. (Len(f.todo) - 1) % 2 = 0 <=> Len(f.todo) % 2 # 0
    <3>1. \A k \in Nat \ {0} : (k - 1) % 2 = 0 <=> k % 2 # 0
      OBVIOUS
    <3> QED BY <1>6, <3>1
  <2>3. /\ heap[c.place].tag = TagOf(f.type)
        /\ IF Kind(f.type) # "map" THEN c.type_ = ContextOf(f.type)
           ELSE c.type_ = IF Len(f.todo) % 2 = 0 THEN "MAP_KEY_CONTEXT" ELSE "MAP_VALUE_CONTEXT"
    BY <1>4 DEF WriterFits
  <2>4. Len(nf.todo) = Len(f.todo) - 1
    BY <1>6, <1>11
  <2> HIDE DEF f, c, nf, nc
  <2>5. CASE Kind(f.type) # "map"
    BY <1>8, <1>11, <1>13, <2>1, <2>3, <2>5 DEF WriterFits
  <2>6. CASE Kind(f.type) = "map"
    BY <1>8, <1>11, <1>13, <2>2, <2>3, <2>4, <2>6 DEF WriterFits
  <2> QED BY <2>5, <2>6
<1> HIDE DEF nc, nf, f, c, ic, n
<1>15. /\ IsSeq(WithTop(writer_stack_, nc)) /\ Len(WithTop(writer_stack_, nc)) = n
       /\ \A i \in 1 .. n : WithTop(writer_stack_, nc)[i] = IF i = n THEN nc ELSE writer_stack_[i]
  BY <1>1, <1>2, TopSeq
<1>16. /\ IsSeq(WithTop(writer_stack_, ic))
       /\ \A i \in 1 .. n : WithTop(writer_stack_, ic)[i] = IF i = n THEN ic ELSE writer_stack_[i]
  <2>1. IsSeq(writer_stack_) /\ writer_stack_ # <<>>
    BY <1>1, <1>2
  <2>2. /\ IsSeq(WithTop(writer_stack_, ic))
        /\ \A i \in DOMAIN writer_stack_ :
             WithTop(writer_stack_, ic)[i] = IF i = Len(writer_stack_) THEN ic ELSE writer_stack_[i]
    BY <2>1, TopSeq
  <2> QED BY <1>1, <1>2, <2>2
<1>17. /\ Rest = WithTop(calls, nf) /\ IsSeq(Rest) /\ Len(Rest) = n
       /\ \A i \in 1 .. n : Rest[i] = IF i = n THEN nf ELSE calls[i]
  <2>1. Rest = WithTop(calls, nf)
    BY DEF Rest, nf, f
  <2>2. IsSeq(calls) /\ calls # <<>>
    BY <1>1
  <2>3. /\ IsSeq(WithTop(calls, nf)) /\ Len(WithTop(calls, nf)) = Len(calls)
        /\ \A i \in DOMAIN calls : WithTop(calls, nf)[i] = IF i = Len(calls) THEN nf ELSE calls[i]
    BY <2>2, TopSeq
  <2> QED BY <1>2, <2>1, <2>3 DEF n
<1>18. \A i \in 1 .. n : WritingWell(Rest[i]) /\ WriterFits(Rest[i], WithTop(writer_stack_, nc)[i], heap)
  BY <1>1, <1>2, <1>3, <1>12, <1>14, <1>15, <1>17
<1>19. \A i \in 1 .. n : WriterWell(WithTop(writer_stack_, ic)[i])
  <2>1. WriterWell(ic)
    BY <1>9, <1>10 DEF WriterWell
  <2> QED BY <1>1, <1>2, <1>16, <2>1
<1> QED BY <1>1, <1>2, <1>7, <1>10, <1>15, <1>16, <1>17, <1>18, <1>19 DEF nc, ic, n

\* The invariant after a step of write() that goes on.
LEMMA StillWriting ==
  ASSUME WellFormed(heap'), root_var_' # None => Refers(root_var_', heap'),
         op' = "writing", wrote' \in Values[Root] \cup {None}, reader_stack_' = <<>>,
         IsSeq(writer_stack_'), IsSeq(calls'), calls' # <<>>, Len(writer_stack_') = Len(calls'),
         \A i \in 1 .. Len(calls') : /\ WritingWell(calls'[i])
                                     /\ WriterFits(calls'[i], writer_stack_'[i], heap')
  PROVE  InStep'
<1>1. DOMAIN calls' = 1 .. Len(calls') /\ DOMAIN writer_stack_' = 1 .. Len(calls')
  BY SeqFacts
<1>2. Heap'
  BY DEF Heap
<1>3. Client'
  BY DEF Client
<1>4. Stacks'
  <2>1. IsSeq(reader_stack_') /\ DOMAIN reader_stack_' = {}
    BY SmallSeq
  <2>2. \A i \in DOMAIN writer_stack_' : WriterWell(writer_stack_[i])'
    BY <1>1 DEF WriterWell, WriterFits
  <2> QED BY <2>1, <2>2 DEF Stacks
<1>5. Activations'
  BY <1>1 DEF Activations
<1>6. InSync'
  BY <1>1 DEF InSync, WriterFits, Idle
<1> QED BY <1>2, <1>3, <1>4, <1>5, <1>6 DEF InStep

LEMMA WriteLeafStep ==
  ASSUME InStep, WriteLeaf
  PROVE  InStep'
<1> DEFINE var == LeafVar(Item.type, Item.val)
           c == ItemContext
           n == Len(calls)
<1>1. /\ MoreToWrite /\ ~IsContainer(Item.type)
      /\ heap' = [heap EXCEPT ![c.place] = Filled(@, c, var)]
      /\ writer_stack_' = WithTop(writer_stack_, NextPhase(c, var))
      /\ calls' = Rest /\ UNCHANGED <<root_var_, reader_stack_, op, wrote>>
  BY DEF WriteLeaf
<1>2. /\ n \in Nat /\ n > 0 /\ IsSeq(writer_stack_') /\ Len(writer_stack_') = n
      /\ IsSeq(calls') /\ Len(calls') = n /\ c.place \in DOMAIN heap
      /\ Suits(c.type_, heap[c.place].tag) /\ Item.type \in DOMAIN Schema
      /\ \A i \in 1 .. n : WritingWell(calls'[i]) /\ WriterFits(calls'[i], writer_stack_'[i], heap)
  BY <1>1, ItemWritten
<1>3. var.tag \notin {"dictionary", "array"}
  <2>1. Kind(Item.type) \in {"bool", "i8", "i16", "i32", "i64", "double", "string", "binary"}
    BY <1>1, <1>2, SchemaAssumption DEF IsContainer, Kind
  <2> QED BY <2>1 DEF LeafVar, Var
<1>4. WellFormed(heap) /\ (root_var_ # None => Refers(root_var_, heap)) /\ op = "writing"
      /\ reader_stack_ = <<>> /\ wrote \in Values[Root] \cup {None}
  BY <1>1 DEF InStep, Heap, Client, InSync, MoreToWrite
<1> HIDE DEF var, c, n
<1>5. IsSeq(heap') /\ DOMAIN heap' = DOMAIN heap
  <2> DEFINE d == Filled(heap[c.place], c, var)
             S == Range(heap) \cup {d}
  <2>1. heap \in Seq(S) /\ DOMAIN heap = 1 .. Len(heap)
    BY <1>4, SeqFacts DEF WellFormed, IsSeq
  <2>2. heap' = [heap EXCEPT ![c.place] = d]
    BY <1>1
  <2> HIDE DEF d
  <2>3. heap' \in Seq(S)
    BY <1>2, <2>1, <2>2, ExceptSeq
  <2> QED BY <2>2, <2>3, SeqIntro
<1>6. /\ heap'[c.place] = Filled(heap[c.place], c, var)
      /\ \A i \in DOMAIN heap \ {c.place} : heap'[i] = heap[i]
  BY <1>1, <1>2
<1>7. Refers(var, heap')
  BY <1>3 DEF Refers
<1>8. /\ WellFormed(heap') /\ \A i \in DOMAIN heap : heap'[i].tag = heap[i].tag
      /\ \A v : Refers(v, heap) => Refers(v, heap')
  <2> DEFINE g == heap'
  <2>1. /\ IsSeq(g) /\ DOMAIN heap \subseteq DOMAIN g /\ DOMAIN g \subseteq DOMAIN heap
        /\ g[c.place] = Filled(heap[c.place], c, var)
        /\ \A i \in DOMAIN heap \ {c.place} : g[i] = heap[i]
        /\ Refers(var, g)
    BY <1>5, <1>6, <1>7
  <2> HIDE DEF g
  <2>2. /\ WellFormed(g) /\ \A i \in DOMAIN heap : g[i].tag = heap[i].tag
        /\ \A v : Refers(v, heap) => Refers(v, g)
    BY <1>2, <1>4, <2>1, HeapFilled
  <2> QED BY <2>2 DEF g
<1>9. \A i \in 1 .. n : WritingWell(calls'[i]) /\ WriterFits(calls'[i], writer_stack_'[i], heap')
  BY <1>2, <1>5, <1>8 DEF WriterFits
<1>10. calls' # <<>>
  BY <1>2, SeqFacts
<1> QED BY <1>1, <1>2, <1>4, <1>8, <1>9, <1>10, StillWriting

LEMMA WriteBeginStep ==
  ASSUME InStep, WriteBegin
  PROVE  InStep'
<1> DEFINE place == Len(heap) + 1
           t == Item.type
           var == Var(TagOf(t), <<place>>)
           c == ItemContext
           n == Len(calls)
           filled == [heap EXCEPT ![c.place] = Filled(@, c, var)]
           nc == WriterContext(t, place)
           nf == [type |-> t, todo |-> Items(t, Item.val)]
           ws == WithTop(writer_stack_, NextPhase(c, var))
<1>1. /\ MoreToWrite /\ IsContainer(t)
      /\ heap' = Append(filled, NewContainer(t))
      /\ writer_stack_' = Append(ws, nc)
      /\ calls' = Append(Rest, nf) /\ UNCHANGED <<root_var_, reader_stack_, op, wrote>>
  BY DEF WriteBegin
<1>2. /\ n \in Nat /\ n > 0 /\ IsSeq(ws) /\ Len(ws) = n
      /\ IsSeq(Rest) /\ Len(Rest) = n /\ c.place \in DOMAIN heap
      /\ Suits(c.type_, heap[c.place].tag) /\ t \in DOMAIN Schema /\ Item.val \in Values[t]
      /\ \A i \in 1 .. n : WritingWell(Rest[i]) /\ WriterFits(Rest[i], ws[i], heap)
  BY <1>1, ItemWritten
<1>3. WellFormed(heap) /\ (root_var_ # None => Refers(root_var_, heap)) /\ op = "writing"
      /\ reader_stack_ = <<>> /\ wrote \in Values[Root] \cup {None} /\ IsSeq(heap)
  BY <1>1 DEF InStep, Heap, Client, InSync, MoreToWrite, WellFormed, IsSeq
<1>4. Len(heap) \in Nat /\ DOMAIN heap = 1 .. Len(heap)
  BY <1>3, SeqFacts
<1>5. /\ nc = [place |-> place, type_ |-> ContextOf(t), field_name_ |-> <<>>, map_key_ |-> Null]
      /\ nf.type = t /\ nf.todo = Items(t, Item.val)
      /\ NewContainer(t).tag = TagOf(t) /\ var.tag = TagOf(t) /\ var.v[1] = place
  BY DEF WriterContext, NewContainer, Var
<1>6. /\ IsSeq(nf.todo)
      /\ \A i \in DOMAIN nf.todo : /\ nf.todo[i].type \in DOMAIN Schema
                                   /\ nf.todo[i].val \in Values[nf.todo[i].type]
      /\ Kind(t) = "map" => Len(nf.todo) % 2 = 0
  BY <1>1, <1>2, <1>5, ItemsTyped
<1>7. WritingWell(nf)
  BY <1>1, <1>2, <1>6 DEF WritingWell
<1> HIDE DEF filled, nc, nf, ws, var, c, n, t, place
<1>8. IsSeq(filled) /\ Len(filled) = Len(heap) /\ DOMAIN filled = DOMAIN heap
      /\ \A i \in DOMAIN heap : filled[i] = IF i = c.place THEN Filled(heap[c.place], c, var) ELSE heap[i]
  <2> DEFINE d == Filled(heap[c.place], c, var)
             S == Range(heap) \cup {d}
  <2>1. heap \in Seq(S) /\ d \in S
    BY <1>3 DEF IsSeq
  <2>2. filled = [heap EXCEPT ![c.place] = d]
    BY DEF filled
  <2> HIDE DEF d
  <2>3. filled \in Seq(S) /\ Len(filled) = Len(heap)
    BY <1>2, <1>4, <2>1, <2>2, ExceptSeq
  <2>4. \A i \in DOMAIN heap : filled[i] = IF i = c.place THEN d ELSE heap[i]
    BY <2>2
  <2> QED BY <2>2, <2>3, <2>4, SeqIntro DEF d
<1>9. /\ IsSeq(heap') /\ DOMAIN heap' = 1 .. place /\ heap'[place] = NewContainer(t)
      /\ \A i \in DOMAIN heap : heap'[i] = filled[i]
  <2>1. /\ IsSeq(Append(filled, NewContainer(t)))
        /\ Len(Append(filled, NewContainer(t))) = place
        /\ Append(filled, NewContainer(t))[place] = NewContainer(t)
        /\ \A i \in 1 .. Len(filled) : Append(filled, NewContainer(t))[i] = filled[i]
    BY <1>8, AppendSeq DEF place
  <2>2. DOMAIN Append(filled, NewContainer(t)) = 1 .. place
    BY <2>1, SeqFacts
  <2> QED BY <1>1, <1>4, <1>8, <2>1, <2>2
<1>10. /\ DOMAIN heap \subseteq DOMAIN heap' /\ place \in DOMAIN heap'
       /\ \A i \in DOMAIN heap' \ DOMAIN heap : i = place
  BY <1>4, <1>9 DEF place
<1>11. Refers(var, heap')
  <2>1. heap'[place].tag = TagOf(t)
    BY <1>5, <1>9
  <2>2. var.tag = TagOf(t) /\ var.v[1] = place
    BY <1>5
  <2>3. var.v[1] \in DOMAIN heap' /\ heap'[var.v[1]].tag = var.tag
    BY <1>10, <2>1, <2>2, Zenon
  <2> QED BY <2>3 DEF Refers
<1>12. /\ WellFormed(heap') /\ \A i \in DOMAIN heap : heap'[i].tag = heap[i].tag
       /\ \A v : Refers(v, heap) => Refers(v, heap')
  <2> DEFINE g == heap'
  <2>1. /\ IsSeq(g) /\ DOMAIN heap \subseteq DOMAIN g
        /\ g[c.place] = Filled(heap[c.place], c, var)
        /\ \A i \in DOMAIN heap \ {c.place} : g[i] = heap[i]
        /\ \A i \in DOMAIN g \ DOMAIN heap : \E u : g[i] = NewContainer(u)
        /\ Refers(var, g)
    BY <1>2, <1>8, <1>9, <1>10, <1>11
  <2> HIDE DEF g
  <2>2. /\ WellFormed(g) /\ \A i \in DOMAIN heap : g[i].tag = heap[i].tag
        /\ \A v : Refers(v, heap) => Refers(v, g)
    BY <1>2, <1>3, <2>1, HeapFilled
  <2> QED BY <2>2 DEF g
<1>13. WriterFits(nf, nc, heap')
  <2>1. /\ nc = [place |-> nc.place, type_ |-> nc.type_, field_name_ |-> nc.field_name_,
                 map_key_ |-> nc.map_key_]
        /\ nc.place = place /\ nc.type_ = ContextOf(t)
    BY <1>5
  <2>2. Kind(t) = "map" => ContextOf(t) = "MAP_KEY_CONTEXT"
    BY DEF ContextOf
  <2>3. nf.type = t /\ nc.place \in DOMAIN heap'
    BY <1>5, <1>10, <2>1
  <2>4. heap'[place].tag = TagOf(t)
    BY <1>5, <1>9
  <2>5. heap'[nc.place].tag = TagOf(nf.type)
    BY <2>1, <2>3, <2>4, Zenon
  <2>6. IF Kind(nf.type) # "map" THEN nc.type_ = ContextOf(nf.type)
        ELSE nc.type_ = IF Len(nf.todo) % 2 = 0 THEN "MAP_KEY_CONTEXT" ELSE "MAP_VALUE_CONTEXT"
    BY <1>6, <2>1, <2>2, <2>3
  <2> QED BY <2>1, <2>3, <2>5, <2>6 DEF WriterFits
<1>14. /\ IsSeq(writer_stack_') /\ Len(writer_stack_') = n + 1 /\ writer_stack_'[n + 1] = nc
       /\ \A i \in 1 .. n : writer_stack_'[i] = ws[i]
  BY <1>1, <1>2, AppendSeq
<1>15. /\ IsSeq(calls') /\ Len(calls') = n + 1 /\ calls'[n + 1] = nf /\ calls' # <<>>
       /\ \A i \in 1 .. n : calls'[i] = Rest[i]
  BY <1>1, <1>2, AppendSeq
<1>16. ASSUME NEW i \in 1 .. n + 1
       PROVE  WritingWell(calls'[i]) /\ WriterFits(calls'[i], writer_stack_'[i], heap')
  <2>1. CASE i = n + 1
    BY <1>7, <1>13, <1>14, <1>15, <2>1
  <2>2. CASE i \in 1 .. n
    <3>1. WriterFits(Rest[i], ws[i], heap) /\ WritingWell(Rest[i])
      BY <1>2, <2>2
    <3>2. WriterFits(Rest[i], ws[i], heap')
      BY <1>10, <1>12, <3>1 DEF WriterFits
    <3> QED BY <1>14, <1>15, <2>2, <3>1, <3>2
  <2> QED BY <1>2, <2>1, <2>2
<1> QED BY <1>1, <1>3, <1>12, <1>14, <1>15, <1>16, StillWriting

\* The invariant after a step with which an operation ends, or which is none of one.
LEMMA Stopped ==
  ASSUME Heap', op' \in Idle \cup Threw, wrote' \in Values[Root] \cup {None}, calls' = <<>>,
         IsSeq(writer_stack_'), IsSeq(reader_stack_'),
         \A i \in DOMAIN writer_stack_' : WriterWell(writer_stack_[i])',
         \A i \in DOMAIN reader_stack_' : ReaderWell(reader_stack_[i])',
         op' \in Idle => writer_stack_' = <<>> /\ reader_stack_' = <<>>
  PROVE  InStep'
<1>1. op' \notin {"writing", "reading"}
  BY DEF Idle, Threw
<1>2. Client'
  BY DEF Client
<1>3. Stacks'
  BY SmallSeq DEF Stacks
<1>4. Activations'
  BY <1>1 DEF Activations
<1>5. InSync'
  BY <1>1 DEF InSync
<1> QED BY <1>2, <1>3, <1>4, <1>5 DEF InStep

LEMMA WriteThrowsStep ==
  ASSUME InStep, WriteThrows
  PROVE  InStep'
<1>1. /\ MoreToWrite /\ writer_stack_' = WithTop(writer_stack_, ItemContext)
      /\ op' = "writeThrew" /\ calls' = <<>>
      /\ UNCHANGED <<heap, root_var_, reader_stack_, wrote>>
  BY DEF WriteThrows
<1>2. /\ Len(calls) \in Nat /\ Len(calls) > 0 /\ Len(writer_stack_) = Len(calls)
      /\ IsSeq(writer_stack_')
      /\ \A i \in 1 .. Len(calls) : WriterWell(WithTop(writer_stack_, ItemContext)[i])
  BY <1>1, ItemWritten
<1>3. Heap' /\ wrote' \in Values[Root] \cup {None} /\ reader_stack_' = <<>>
  BY <1>1 DEF InStep, Heap, Client, InSync, MoreToWrite
<1>4. DOMAIN writer_stack_' = 1 .. Len(calls)
  <2>1. IsSeq(writer_stack_) /\ writer_stack_ # <<>>
    BY <1>2, SmallSeq DEF InStep, Stacks
  <2>2. DOMAIN WithTop(writer_stack_, ItemContext) = DOMAIN writer_stack_
    BY <2>1, TopSeq
  <2> QED BY <1>1, <1>2, <2>1, <2>2, SeqFacts
<1>5. \A i \in DOMAIN writer_stack_' : WriterWell(writer_stack_[i])'
  BY <1>1, <1>2, <1>4 DEF WriterWell
<1>6. IsSeq(reader_stack_') /\ DOMAIN reader_stack_' = {}
  BY <1>3, SmallSeq
<1>7. op' \in Threw /\ op' \notin Idle
  BY <1>1 DEF Threw, Idle
<1> QED BY <1>1, <1>2, <1>3, <1>5, <1>6, <1>7, Stopped

LEMMA WriteEndStep ==
  ASSUME InStep, WriteEnd
  PROVE  InStep'
<1> DEFINE n == Len(calls)
<1>1. /\ op = "writing" /\ writer_stack_' = Front(writer_stack_) /\ calls' = Front(calls)
      /\ op' = IF n = 1 THEN "wrote" ELSE op
      /\ UNCHANGED <<heap, root_var_, reader_stack_, wrote>>
  BY DEF WriteEnd
<1>2. /\ IsSeq(calls) /\ calls # <<>> /\ IsSeq(writer_stack_) /\ Len(writer_stack_) = n
      /\ \A i \in DOMAIN calls : WritingWell(calls[i])
      /\ \A i \in DOMAIN writer_stack_ : WriterWell(writer_stack_[i])
      /\ reader_stack_ = <<>> /\ Heap /\ wrote \in Values[Root] \cup {None}
  BY <1>1 DEF InStep, Stacks, Activations, InSync, Client
<1>3. /\ n \in Nat /\ n > 0 /\ DOMAIN calls = 1 .. n /\ DOMAIN writer_stack_ = 1 .. n
      /\ writer_stack_ # <<>>
  BY <1>2, SeqFacts
<1>4. \A i \in 1 .. n : WriterFits(calls[i], writer_stack_[i], heap)
  BY <1>1, <1>2, <1>3 DEF InStep, InSync, WriterFits, WriterWell
<1>5. /\ IsSeq(calls') /\ Len(calls') = n - 1
      /\ \A i \in 1 .. n - 1 : calls'[i] = calls[i]
  BY <1>1, <1>2, FrontSeq
<1>6. /\ IsSeq(writer_stack_') /\ Len(writer_stack_') = n - 1
      /\ \A i \in 1 .. n - 1 : writer_stack_'[i] = writer_stack_[i]
  BY <1>1, <1>2, <1>3, FrontSeq
<1>7. Heap' /\ WellFormed(heap') /\ (root_var_' # None => Refers(root_var_', heap'))
  BY <1>1, <1>2 DEF Heap
<1> HIDE DEF n
<1>8. CASE n = 1
  <2>1. calls' = <<>> /\ writer_stack_' = <<>> /\ reader_stack_' = <<>>
    BY <1>1, <1>2, <1>5, <1>6, <1>8, SeqFacts
  <2>2. /\ DOMAIN writer_stack_' = {} /\ DOMAIN reader_stack_' = {}
        /\ IsSeq(writer_stack_') /\ IsSeq(reader_stack_')
    BY <2>1, SmallSeq
  <2>3. op' \in Idle /\ wrote' \in Values[Root] \cup {None}
    BY <1>1, <1>2, <1>8 DEF Idle
  <2> QED BY <1>7, <2>1, <2>2, <2>3, Stopped
<1>9. CASE n # 1
  <2>1. 1 .. n - 1 \subseteq 1 .. n /\ calls' # <<>>
    BY <1>3, <1>5, <1>9, SeqFacts
  <2>2. \A i \in 1 .. n - 1 : /\ WritingWell(calls'[i])
                              /\ WriterFits(calls'[i], writer_stack_'[i], heap')
    BY <1>1, <1>2, <1>3, <1>4, <1>5, <1>6, <2>1
  <2>3. op' = "writing" /\ reader_stack_' = <<>> /\ wrote' \in Values[Root] \cup {None}
    BY <1>1, <1>2, <1>9
  <2> QED BY <1>5, <1>6, <1>7, <2>1, <2>2, <2>3, StillWriting
<1> QED BY <1>8, <1>9

LEMMA WriteStep ==
  ASSUME InStep, NEW obj \in Values[Root], Write(obj)
  PROVE  InStep'
<1> DEFINE nc == WriterContext(Root, 1)
           nf == [type |-> Root, todo |-> Items(Root, obj)]
           d == NewContainer(Root)
<1>1. /\ op \in Idle /\ heap' = <<d>> /\ root_var_' = Var("dictionary", <<1>>)
      /\ writer_stack_' = <<nc>> /\ calls' = <<nf>> /\ op' = "writing" /\ wrote' = obj
      /\ reader_stack_' = reader_stack_
  BY DEF Write
<1>2. reader_stack_' = <<>>
  BY <1>1 DEF InStep, InSync
<1>3. Root \in DOMAIN Schema /\ Kind(Root) = "struct" /\ IsContainer(Root)
  BY SchemaAssumption DEF Kind, IsContainer
<1>4. d = [tag |-> "dictionary", entries |-> <<>>] /\ d.tag = "dictionary" /\ d.entries = <<>>
  BY <1>3 DEF NewContainer, TagOf
<1>5. /\ nc = [place |-> 1, type_ |-> "DICTIONARY_CONTEXT", field_name_ |-> <<>>, map_key_ |-> Null]
      /\ nf.type = Root /\ nf.todo = Items(Root, obj)
  BY <1>3 DEF WriterContext, ContextOf
<1>6. WritingWell(nf)
  BY <1>3, ItemsTyped DEF WritingWell
<1> HIDE DEF nc, nf, d
<1>7. /\ IsSeq(heap') /\ Len(heap') = 1 /\ heap'[1] = d
      /\ IsSeq(calls') /\ Len(calls') = 1 /\ calls'[1] = nf /\ calls' # <<>>
      /\ IsSeq(writer_stack_') /\ Len(writer_stack_') = 1 /\ writer_stack_'[1] = nc
  BY <1>1, SmallSeq
<1>8. DOMAIN heap' = {1}
  <2>1. DOMAIN heap' = 1 .. 1
    BY <1>7, SeqFacts
  <2> QED BY <2>1
<1>9. WellFormed(heap')
  <2>1. IsFiniteSet(DOMAIN d.entries) /\ DOMAIN d.entries = {}
    BY <1>4, SmallSeq, FS_EmptySet
  <2> QED BY <1>4, <1>7, <1>8, <2>1 DEF WellFormed, IsSeq
<1>10. Refers(root_var_', heap')
  BY <1>1, <1>4, <1>7, <1>8 DEF Refers, Var
<1>11. WriterFits(nf, nc, heap')
  <2>1. heap'[nc.place].tag = TagOf(nf.type) /\ nc.place \in DOMAIN heap'
    BY <1>3, <1>4, <1>5, <1>7, <1>8 DEF TagOf
  <2>2. nc.type_ = ContextOf(nf.type) /\ Kind(nf.type) # "map"
    BY <1>3, <1>5 DEF ContextOf
  <2>3. nc = [place |-> nc.place, type_ |-> nc.type_, field_name_ |-> nc.field_name_,
              map_key_ |-> nc.map_key_]
    BY <1>5
  <2> QED BY <2>1, <2>2, <2>3 DEF WriterFits
<1>12. \A i \in 1 .. Len(calls') : WritingWell(calls'[i]) /\ WriterFits(calls'[i], writer_stack_'[i], heap')
  BY <1>6, <1>7, <1>11
<1>13. wrote' \in Values[Root] \cup {None}
  BY <1>1
<1> QED BY <1>1, <1>2, <1>7, <1>9, <1>10, <1>12, <1>13, StillWriting

-----------------------------------------------------------------------------
(* Reading *)

\* The context c is where the activation f of read() expects it.
ReaderFits(f, c, inner) == ReadingWell(f, inner) /\ ReaderWell(c) /\ Agrees(f, c, inner)

\* The invariant, as a step of read() finds it.
LEMMA ReadingNow ==
  ASSUME InStep, op = "reading"
  PROVE  LET n == Len(calls)
         IN  /\ n \in Nat /\ n > 0 /\ DOMAIN calls = 1 .. n /\ IsSeq(calls) /\ calls # <<>>
             /\ IsSeq(reader_stack_) /\ Len(reader_stack_) = n /\ DOMAIN reader_stack_ = 1 .. n
             /\ reader_stack_ # <<>> /\ writer_stack_ = <<>>
             /\ Top(calls) = calls[n] /\ Top(reader_stack_) = reader_stack_[n]
             /\ Heap /\ WellFormed(heap) /\ wrote \in Values[Root] \cup {None}
             /\ \A i \in 1 .. n : ReaderFits(calls[i], reader_stack_[i], i < n)
             /\ ReaderFits(Top(calls), Top(reader_stack_), FALSE)
<1> DEFINE n == Len(calls)
<1>1. /\ IsSeq(calls) /\ calls # <<>> /\ IsSeq(reader_stack_) /\ Len(reader_stack_) = n
      /\ writer_stack_ = <<>> /\ Heap /\ WellFormed(heap) /\ wrote \in Values[Root] \cup {None}
      /\ \A i \in DOMAIN reader_stack_ : ReaderWell(reader_stack_[i])
      /\ \A i \in DOMAIN calls : ReadingWell(calls[i], i < n) /\ Agrees(calls[i], reader_stack_[i], i < n)
  BY DEF InStep, Stacks, Activations, InSync, Client, Heap
<1>2. /\ n \in Nat /\ n > 0 /\ DOMAIN calls = 1 .. n /\ DOMAIN reader_stack_ = 1 .. n
      /\ reader_stack_ # <<>>
  BY <1>1, SeqFacts
<1>3. \A i \in 1 .. n : ReaderFits(calls[i], reader_stack_[i], i < n)
  BY <1>1, <1>2 DEF ReaderFits
<1>4. ReaderFits(calls[n], reader_stack_[n], FALSE)
  <2>1. (n < n) = FALSE /\ n \in 1 .. n
    BY <1>2
  <2>2. ReaderFits(calls[n], reader_stack_[n], n < n)
    BY <1>3, <2>1
  <2> QED BY <2>1, <2>2
<1>5. Top(calls) = calls[n] /\ Top(reader_stack_) = reader_stack_[n]
  BY <1>1 DEF Top
<1> QED BY <1>1, <1>2, <1>3, <1>4, <1>5

\* The invariant after a step of read() that goes on.
LEMMA StillReading ==
  ASSUME Heap, wrote \in Values[Root] \cup {None}, UNCHANGED <<heap, root_var_, wrote>>,
         op' = "reading", writer_stack_' = <<>>,
         IsSeq(reader_stack_'), IsSeq(calls'), calls' # <<>>, Len(reader_stack_') = Len(calls'),
         \A i \in 1 .. Len(calls') : ReaderFits(calls'[i], reader_stack_'[i], i < Len(calls'))
  PROVE  InStep'
<1>1. DOMAIN calls' = 1 .. Len(calls') /\ DOMAIN reader_stack_' = 1 .. Len(calls')
  BY SeqFacts
<1>2. Heap'
  BY DEF Heap
<1>3. Client'
  BY DEF Client
<1>4. Stacks'
  <2>1. IsSeq(writer_stack_') /\ DOMAIN writer_stack_' = {}
    BY SmallSeq
  <2>2. \A i \in DOMAIN reader_stack_' : ReaderWell(reader_stack_[i])'
    BY <1>1 DEF ReaderWell, ReaderFits, Size
  <2> QED BY <2>1, <2>2 DEF Stacks
<1>5. Activations'
  BY <1>1 DEF Activations, ReaderFits
<1>6. InSync'
  BY <1>1 DEF InSync, ReaderFits, Agrees, Size, isAtEnd, Idle
<1> QED BY <1>2, <1>3, <1>4, <1>5, <1>6 DEF InStep

LEMMA TopReplaced ==
  ASSUME InStep, op = "reading", UNCHANGED <<heap, root_var_, writer_stack_, op, wrote>>,
         IsSeq(calls'), Len(calls') = Len(calls),
         IsSeq(reader_stack_'), Len(reader_stack_') = Len(calls),
         \A i \in 1 .. Len(calls) : i < Len(calls) =>
           calls'[i] = calls[i] /\ reader_stack_'[i] = reader_stack_[i],
         ReaderFits(calls'[Len(calls)], reader_stack_'[Len(calls)], FALSE)
  PROVE  InStep'
<1> DEFINE n == Len(calls)
<1>1. /\ n \in Nat /\ n > 0 /\ Heap /\ wrote \in Values[Root] \cup {None} /\ writer_stack_ = <<>>
      /\ \A i \in 1 .. n : ReaderFits(calls[i], reader_stack_[i], i < n)
  BY ReadingNow
<1>2. ASSUME NEW i \in 1 .. n PROVE ReaderFits(calls'[i], reader_stack_'[i], i < n)
  <2>1. CASE i < n
    <3>1. ReaderFits(calls[i], reader_stack_[i], i < n)
      BY <1>1
    <3> QED BY <2>1, <3>1
  <2>2. CASE i = n
    <3>1. (i < n) = FALSE
      BY <1>1, <2>2
    <3> QED BY <2>2, <3>1
  <2> QED BY <1>1, <2>1, <2>2
<1>3. calls' # <<>>
  BY <1>1, SeqFacts
<1> QED BY <1>1, <1>2, <1>3, StillReading

\* A context is within its container.
LEMMA SizeNat ==
  ASSUME WellFormed(heap), NEW c, ReaderWell(c)
  PROVE  Size(c) \in Nat /\ c.index_ \in Nat /\ c.index_ <= Size(c)
<1>1. heap[c.place].tag = "dictionary" \/ IsSeq(heap[c.place].entries)
  BY DEF ReaderWell, WellFormed, IsSeq
<1>2. heap[c.place].tag = "dictionary" => Len(c.keys_) \in Nat
  BY LenProperties DEF ReaderWell
<1>3. Size(c) \in Nat
  BY <1>1, <1>2, SeqFacts DEF Size
<1> QED BY <1>3 DEF ReaderWell

\* What advance does to a context.
LEMMA AdvanceWell ==
  ASSUME WellFormed(heap), NEW c, ReaderWell(c)
  PROVE  /\ ReaderWell(advance(c)) /\ advance(c).place = c.place /\ advance(c).keys_ = c.keys_
         /\ Size(advance(c)) = Size(c)
         /\ ~isAtEnd(c) =>
              /\ advance(c).type_ = CASE c.type_ = "MAP_KEY_CONTEXT" -> "MAP_VALUE_CONTEXT"
                                      [] c.type_ = "MAP_VALUE_CONTEXT" -> "MAP_KEY_CONTEXT"
                                      [] OTHER -> c.type_
              /\ advance(c).index_ = IF c.type_ = "MAP_KEY_CONTEXT" THEN c.index_ ELSE c.index_ + 1
<1>1. Size(c) \in Nat /\ c.index_ \in Nat /\ c.index_ <= Size(c)
  BY SizeNat
<1>2. /\ c = [place |-> c.place, type_ |-> c.type_, keys_ |-> c.keys_, index_ |-> c.index_]
      /\ c.place \in DOMAIN heap
      /\ heap[c.place].tag = "dictionary" => c.keys_ \in Seq(DOMAIN heap[c.place].entries)
  BY DEF ReaderWell
<1>3. CASE isAtEnd(c)
  BY <1>3 DEF advance
<1>4. CASE ~isAtEnd(c)
  <2> DEFINE a == advance(c)
             type == CASE c.type_ = "MAP_KEY_CONTEXT" -> "MAP_VALUE_CONTEXT"
                       [] c.type_ = "MAP_VALUE_CONTEXT" -> "MAP_KEY_CONTEXT"
                       [] OTHER -> c.type_
             index == IF c.type_ = "MAP_KEY_CONTEXT" THEN c.index_ ELSE c.index_ + 1
  <2>1. a = Forward(c)
    BY <1>4 DEF advance
  <2> HIDE DEF a
  <2>2. /\ a = [place |-> c.place, type_ |-> a.type_, keys_ |-> c.keys_, index_ |-> a.index_]
        /\ a.place = c.place /\ a.keys_ = c.keys_ /\ a.type_ = type /\ a.index_ = index
    BY <1>2, <2>1 DEF Forward
  <2>3. Size(a) = Size(c)
    BY <2>2 DEF Size
  <2>4. index \in 0 .. Size(c)
    BY <1>1, <1>4 DEF isAtEnd
  <2>5. a = [place |-> a.place, type_ |-> a.type_, keys_ |-> a.keys_, index_ |-> a.index_]
    BY <2>2
  <2>6. ReaderWell(a)
    BY <1>2, <2>2, <2>3, <2>4, <2>5 DEF ReaderWell
  <2> QED BY <2>2, <2>3, <2>6 DEF a
<1> QED BY <1>3, <1>4

\* The context of an activation suits its container.
LEMMA AgreesSuits ==
  ASSUME NEW f, NEW c, NEW inner, Agrees(f, c, inner), IsContainer(f.type)
  PROVE  Suits(c.type_, heap[c.place].tag)
BY DEF Agrees, IsContainer, TagOf, ContextOf, Suits

\* nextVar is a pp::Var of the container, or one of its keys.
LEMMA NextVarRefers ==
  ASSUME WellFormed(heap), NEW c, ReaderWell(c), ~isAtEnd(c), Suits(c.type_, heap[c.place].tag)
  PROVE  /\ Refers(nextVar(c), heap)
         /\ c.type_ = "MAP_KEY_CONTEXT" => nextVar(c).tag = "string"
<1> DEFINE i == c.index_ + 1
           entries == heap[c.place].entries
<1>1. Size(c) \in Nat /\ c.index_ \in Nat /\ c.index_ < Size(c)
  BY SizeNat DEF isAtEnd
<1>2. c.place \in DOMAIN heap /\ \A k \in DOMAIN entries : Refers(entries[k], heap)
  BY DEF ReaderWell, WellFormed
<1>3. CASE c.type_ = "MAP_KEY_CONTEXT"
  <2>1. nextVar(c).tag = "string"
    BY <1>3 DEF nextVar, Var
  <2> QED BY <2>1 DEF Refers
<1>4. CASE c.type_ = "LIST_CONTEXT"
  <2>1. heap[c.place].tag = "array" /\ IsSeq(entries)
    BY <1>2, <1>4 DEF Suits, WellFormed, IsSeq
  <2>2. Size(c) = Len(entries) /\ DOMAIN entries = 1 .. Len(entries)
    BY <2>1, SeqFacts DEF Size
  <2>3. i \in DOMAIN entries
    BY <1>1, <2>2
  <2>4. nextVar(c) = entries[i]
    BY <1>4 DEF nextVar
  <2> QED BY <1>2, <1>4, <2>3, <2>4
<1>5. CASE c.type_ \in {"DICTIONARY_CONTEXT", "MAP_VALUE_CONTEXT"}
  <2>1. heap[c.place].tag = "dictionary" /\ c.keys_ \in Seq(DOMAIN entries)
    BY <1>5 DEF Suits, ReaderWell
  <2>2. Size(c) = Len(c.keys_)
    BY <2>1 DEF Size
  <2>3. i \in 1 .. Len(c.keys_)
    BY <1>1, <2>2
  <2>4. nextVar(c) = entries[c.keys_[i]]
    BY <1>5 DEF nextVar
  <2> HIDE DEF i, entries
  <2>5. c.keys_[i] \in DOMAIN entries
    BY <2>1, <2>3, ElementOfSeq
  <2> QED BY <1>2, <1>5, <2>4, <2>5
<1> QED BY <1>3, <1>4, <1>5 DEF Suits

\* A container is entered with a context that agrees with its activation.
LEMMA BeginFits ==
  ASSUME WellFormed(heap), NEW t \in DOMAIN Schema, IsContainer(t), NEW var, Refers(var, heap),
         var.tag = TagOf(t), NEW c \in ReaderContexts(t, var)
  PROVE  ReaderFits(Activation(t, Size(c)), c, FALSE)
<1> DEFINE place == var.v[1]
           f == Activation(t, Size(c))
<1>1. place \in DOMAIN heap /\ heap[place].tag = TagOf(t)
  BY DEF Refers, TagOf
<1>2. /\ c = [place |-> place, type_ |-> ContextOf(t), keys_ |-> c.keys_, index_ |-> 0]
      /\ var.tag = "dictionary" => c.keys_ \in SetToSeqs(DOMAIN heap[place].entries)
  BY DEF ReaderContexts
<1>3. c.place = place /\ c.type_ = ContextOf(t) /\ c.index_ = 0
  BY <1>2
<1>4. ASSUME heap[place].tag = "dictionary" PROVE c.keys_ \in Seq(DOMAIN heap[place].entries)
  <2> DEFINE D == DOMAIN heap[place].entries
  <2>1. IsFiniteSet(D)
    BY <1>1, <1>4 DEF WellFormed
  <2>2. c.keys_ \in SetToSeqs(D)
    BY <1>1, <1>2, <1>4
  <2> HIDE DEF D
  <2>3. Cardinality(D) \in Nat
    BY <2>1, FS_CardinalityType
  <2>4. c.keys_ \in [1 .. Cardinality(D) -> D]
    BY <2>2 DEF SetToSeqs
  <2>5. c.keys_ \in Seq(D)
    BY <2>3, <2>4
  <2> QED BY <2>5 DEF D
<1>5. Size(c) \in Nat
  <2>1. heap[place].tag = "dictionary" \/ IsSeq(heap[place].entries)
    BY <1>1 DEF WellFormed, IsSeq
  <2>2. heap[place].tag = "dictionary" => Len(c.keys_) \in Nat
    BY <1>4, LenProperties
  <2> QED BY <1>3, <2>1, <2>2, SeqFacts DEF Size
<1>6. ReaderWell(c)
  BY <1>1, <1>2, <1>3, <1>4, <1>5 DEF ReaderWell
<1>7. /\ f = [type |-> f.type, slot |-> f.slot, left |-> f.left, acc |-> f.acc]
      /\ f.type = t /\ f.slot = <<>> /\ f.left = Size(c)
  BY DEF Activation
<1> HIDE DEF f, place
<1>8. ReadingWell(f, FALSE)
  BY <1>5, <1>7 DEF ReadingWell
<1>9. Kind(t) = "map" => ContextOf(t) = "MAP_KEY_CONTEXT"
  BY DEF ContextOf
<1>10. Agrees(f, c, FALSE)
  <2>1. heap[c.place].tag = TagOf(f.type)
    BY <1>1, <1>3, <1>7
  <2>2. f.left - 0 = Size(c) - c.index_
    BY <1>3, <1>5, <1>7
  <2> QED BY <1>3, <1>7, <1>9, <2>1, <2>2 DEF Agrees
<1> QED BY <1>6, <1>8, <1>10 DEF ReaderFits, f

\* What Store leaves of an activation.
LEMMA StoreWell ==
  ASSUME NEW f, NEW inner, ReadingWell(f, inner), NEW x,
         Kind(f.type) # "struct" => f.left > 0
  PROVE  /\ ReadingWell(Store(f, x), FALSE) /\ Store(f, x).type = f.type
         /\ Store(f, x).slot = CASE Kind(f.type) = "struct" -> <<>>
                                 [] Kind(f.type) = "map" -> IF f.slot = <<>> THEN <<x>> ELSE <<>>
                                 [] OTHER -> f.slot
         /\ Store(f, x).left = IF Kind(f.type) = "struct" \/ (Kind(f.type) = "map" /\ f.slot = <<>>)
                               THEN f.left ELSE f.left - 1
<1> DEFINE g == Store(f, x)
           slot == CASE Kind(f.type) = "struct" -> <<>>
                     [] Kind(f.type) = "map" -> IF f.slot = <<>> THEN <<x>> ELSE <<>>
                     [] OTHER -> f.slot
           left == IF Kind(f.type) = "struct" \/ (Kind(f.type) = "map" /\ f.slot = <<>>)
                   THEN f.left ELSE f.left - 1
<1>1. /\ f = [type |-> f.type, slot |-> f.slot, left |-> f.left, acc |-> f.acc]
      /\ f.type \in DOMAIN Schema /\ IsContainer(f.type) /\ f.left \in Nat
  BY DEF ReadingWell
<1>2. g = [type |-> f.type, slot |-> slot, left |-> left, acc |-> g.acc]
  <2>1. CASE Kind(f.type) = "struct"
    <3> DEFINE acc == Extend(f.acc, f.slot[1], x)
    <3>1. g = [f EXCEPT !.acc = acc, !.slot = <<>>]
      BY <2>1 DEF Store
    <3> HIDE DEF acc, g
    <3> QED BY <1>1, <2>1, <3>1
  <2>2. CASE Kind(f.type) = "map" /\ f.slot = <<>>
    <3>1. g = [f EXCEPT !.slot = <<x>>]
      BY <2>2 DEF Store
    <3> HIDE DEF g
    <3> QED BY <1>1, <2>2, <3>1
  <2>3. CASE Kind(f.type) = "map" /\ f.slot # <<>>
    <3> DEFINE acc == Extend(f.acc, f.slot[1], x)
    <3>1. g = [f EXCEPT !.acc = acc, !.slot = <<>>, !.left = @ - 1]
      BY <2>3 DEF Store
    <3> HIDE DEF acc, g
    <3> QED BY <1>1, <2>3, <3>1
  <2>4. CASE Kind(f.type) = "list"
    <3> DEFINE acc == Append(f.acc, x)
    <3>1. g = [f EXCEPT !.acc = acc, !.left = @ - 1]
      BY <2>4 DEF Store
    <3> HIDE DEF acc, g
    <3> QED BY <1>1, <2>4, <3>1
  <2>5. CASE Kind(f.type) = "set"
    <3> DEFINE acc == f.acc \cup {x}
    <3>1. g = [f EXCEPT !.acc = acc, !.left = @ - 1]
      BY <2>5 DEF Store
    <3> HIDE DEF acc, g
    <3> QED BY <1>1, <2>5, <3>1
  <2> HIDE DEF g
  <2> QED BY <1>1, <2>1, <2>2, <2>3, <2>4, <2>5 DEF IsContainer
<1>3. left \in Nat
  BY <1>1
<1>4. Kind(f.type) = "struct" => slot = <<>>
  OBVIOUS
<1> HIDE DEF g, slot, left
<1>5. g.type = f.type /\ g.slot = slot /\ g.left = left
  BY <1>2
<1>6. ReadingWell(g, FALSE)
  BY <1>1, <1>2, <1>3, <1>4, <1>5 DEF ReadingWell
<1> QED BY <1>5, <1>6 DEF g, slot, left

\* A leaf is read: the activation stores it as its context moves on.
LEMMA LeafFits ==
  ASSUME WellFormed(heap), NEW f, NEW c, ReaderFits(f, c, FALSE), NEW x,
         IF Kind(f.type) = "struct" THEN f.slot # <<>> ELSE f.left > 0, ~isAtEnd(c)
  PROVE  ReaderFits(Store(f, x), advance(c), FALSE)
<1> DEFINE g == Store(f, x)
           a == advance(c)
<1>1. /\ ReadingWell(g, FALSE) /\ g.type = f.type
      /\ g.slot = CASE Kind(f.type) = "struct" -> <<>>
                    [] Kind(f.type) = "map" -> IF f.slot = <<>> THEN <<x>> ELSE <<>>
                    [] OTHER -> f.slot
      /\ g.left = IF Kind(f.type) = "struct" \/ (Kind(f.type) = "map" /\ f.slot = <<>>)
                  THEN f.left ELSE f.left - 1
  BY StoreWell DEF ReaderFits
<1>2. /\ ReaderWell(a) /\ a.place = c.place /\ Size(a) = Size(c)
      /\ a.type_ = CASE c.type_ = "MAP_KEY_CONTEXT" -> "MAP_VALUE_CONTEXT"
                     [] c.type_ = "MAP_VALUE_CONTEXT" -> "MAP_KEY_CONTEXT"
                     [] OTHER -> c.type_
      /\ a.index_ = IF c.type_ = "MAP_KEY_CONTEXT" THEN c.index_ ELSE c.index_ + 1
  BY AdvanceWell DEF ReaderFits
<1>3. /\ f.left \in Nat /\ Size(c) \in Nat /\ c.index_ \in Nat /\ IsContainer(f.type)
      /\ heap[c.place].tag = TagOf(f.type)
      /\ IF Kind(f.type) # "map" THEN c.type_ = ContextOf(f.type)
         ELSE c.type_ = IF f.slot # <<>> THEN "MAP_VALUE_CONTEXT" ELSE "MAP_KEY_CONTEXT"
      /\ Kind(f.type) # "struct" => f.left - 0 = Size(c) - c.index_
  BY SizeNat DEF ReaderFits, ReadingWell, Agrees
<1>4. Kind(f.type) # "map" => c.type_ \in {"DICTIONARY_CONTEXT", "LIST_CONTEXT"}
  BY <1>3 DEF IsContainer, ContextOf
<1>5. <<x>> # <<>>
  BY SmallSeq
<1> HIDE DEF g, a
<1>6. IF Kind(f.type) # "map" THEN a.type_ = ContextOf(f.type)
      ELSE a.type_ = IF g.slot # <<>> THEN "MAP_VALUE_CONTEXT" ELSE "MAP_KEY_CONTEXT"
  BY <1>1, <1>2, <1>3, <1>4, <1>5
<1>7. Kind(f.type) # "struct" => g.left - 0 = Size(a) - a.index_
  <2>1. CASE Kind(f.type) = "map" /\ f.slot = <<>>
    BY <1>1, <1>2, <1>3, <2>1
  <2>2. CASE Kind(f.type) = "map" /\ f.slot # <<>>
    BY <1>1, <1>2, <1>3, <2>2
  <2>3. CASE Kind(f.type) \notin {"map", "struct"}
    BY <1>1, <1>2, <1>3, <1>4, <2>3
  <2> QED BY <2>1, <2>2, <2>3
<1>8. Kind(f.type) = "struct" => g.slot = <<>>
  BY <1>1
<1>9. Agrees(g, a, FALSE)
  BY <1>1, <1>2, <1>3, <1>6, <1>7, <1>8 DEF Agrees
<1> QED BY <1>1, <1>2, <1>9 DEF ReaderFits, g, a

\* A container is entered: the outer context has moved past it.
LEMMA OuterFits ==
  ASSUME WellFormed(heap), NEW f, NEW c, ReaderFits(f, c, FALSE), ~isAtEnd(c),
         Kind(f.type) \in {"struct", "map"} => f.slot # <<>>
  PROVE  ReaderFits(f, advance(c), TRUE)
<1> DEFINE a == advance(c)
<1>1. /\ ReaderWell(a) /\ a.place = c.place /\ Size(a) = Size(c)
      /\ a.type_ = CASE c.type_ = "MAP_KEY_CONTEXT" -> "MAP_VALUE_CONTEXT"
                     [] c.type_ = "MAP_VALUE_CONTEXT" -> "MAP_KEY_CONTEXT"
                     [] OTHER -> c.type_
      /\ a.index_ = IF c.type_ = "MAP_KEY_CONTEXT" THEN c.index_ ELSE c.index_ + 1
  BY AdvanceWell DEF ReaderFits
<1>2. /\ f.left \in Nat /\ Size(c) \in Nat /\ c.index_ \in Nat /\ IsContainer(f.type)
      /\ heap[c.place].tag = TagOf(f.type)
      /\ IF Kind(f.type) # "map" THEN c.type_ = ContextOf(f.type)
         ELSE c.type_ = IF f.slot # <<>> THEN "MAP_VALUE_CONTEXT" ELSE "MAP_KEY_CONTEXT"
      /\ Kind(f.type) # "struct" => f.left - 0 = Size(c) - c.index_
  BY SizeNat DEF ReaderFits, ReadingWell, Agrees
<1>3. Kind(f.type) # "map" => c.type_ \in {"DICTIONARY_CONTEXT", "LIST_CONTEXT"}
  BY <1>2 DEF IsContainer, ContextOf
<1> HIDE DEF a
<1>4. IF Kind(f.type) # "map" THEN a.type_ = ContextOf(f.type) ELSE a.type_ = "MAP_KEY_CONTEXT"
  BY <1>1, <1>2, <1>3
<1>5. Kind(f.type) # "struct" => f.left - 1 = Size(a) - a.index_
  BY <1>1, <1>2, <1>3
<1>6. Agrees(f, a, TRUE)
  BY <1>1, <1>2, <1>4, <1>5 DEF Agrees
<1>7. ReadingWell(f, TRUE)
  BY DEF ReaderFits, ReadingWell
<1> QED BY <1>1, <1>6, <1>7 DEF ReaderFits, a

\* A container has been read: the outer activation stores it.
LEMMA InnerEnds ==
  ASSUME WellFormed(heap), NEW f, NEW c, ReaderFits(f, c, TRUE), NEW x
  PROVE  ReaderFits(Store(f, x), c, FALSE)
<1> DEFINE g == Store(f, x)
<1>1. /\ f.left \in Nat /\ Size(c) \in Nat /\ c.index_ \in Nat /\ c.index_ <= Size(c)
      /\ IsContainer(f.type) /\ ReadingWell(f, TRUE) /\ ReaderWell(c)
      /\ heap[c.place].tag = TagOf(f.type)
      /\ IF Kind(f.type) # "map" THEN c.type_ = ContextOf(f.type) ELSE c.type_ = "MAP_KEY_CONTEXT"
      /\ Kind(f.type) # "struct" => f.left - 1 = Size(c) - c.index_
      /\ Kind(f.type) \in {"struct", "map"} => f.slot # <<>>
  BY SizeNat DEF ReaderFits, ReadingWell, Agrees
<1>2. Kind(f.type) # "struct" => f.left > 0
  BY <1>1
<1>3. /\ ReadingWell(g, FALSE) /\ g.type = f.type
      /\ g.slot = CASE Kind(f.type) = "struct" -> <<>>
                    [] Kind(f.type) = "map" -> IF f.slot = <<>> THEN <<x>> ELSE <<>>
                    [] OTHER -> f.slot
      /\ g.left = IF Kind(f.type) = "struct" \/ (Kind(f.type) = "map" /\ f.slot = <<>>)
                  THEN f.left ELSE f.left - 1
  BY <1>1, <1>2, StoreWell
<1> HIDE DEF g
<1>4. Kind(f.type) \in {"struct", "map"} => g.slot = <<>>
  BY <1>1, <1>3
<1>5. Kind(f.type) # "struct" => g.left - 0 = Size(c) - c.index_
  BY <1>1, <1>3
<1>6. Agrees(g, c, FALSE)
  BY <1>1, <1>3, <1>4, <1>5 DEF Agrees
<1> QED BY <1>1, <1>3, <1>6 DEF ReaderFits, g

\* An exception ends read() and leaves contexts that are well formed.
LEMMA ReadThrew ==
  ASSUME Heap, wrote \in Values[Root] \cup {None}, writer_stack_ = <<>>, ReadThrows,
         UNCHANGED <<heap, root_var_, writer_stack_, wrote>>, IsSeq(reader_stack_'),
         \A i \in DOMAIN reader_stack_' : ReaderWell(reader_stack_'[i])
  PROVE  InStep'
<1>1. op' \in Threw /\ op' \notin Idle /\ calls' = <<>>
  BY DEF ReadThrows, Threw, Idle
<1>2. Heap'
  BY DEF Heap
<1>3. \A i \in DOMAIN reader_stack_' : ReaderWell(reader_stack_[i])'
  BY DEF ReaderWell, Size
<1>4. IsSeq(writer_stack_') /\ DOMAIN writer_stack_' = {}
  BY SmallSeq
<1> QED BY <1>1, <1>2, <1>3, <1>4, Stopped

LEMMA ReadFieldBeginStep ==
  ASSUME InStep, ReadFieldBegin
  PROVE  InStep'
<1> DEFINE n == Len(calls)
           f == Top(calls)
           c == Top(reader_stack_)
           key == c.keys_[c.index_ + 1]
           name == FieldName(key, nextVar(c))
           nf == [f EXCEPT !.slot = <<name>>]
<1>1. /\ op = "reading" /\ Kind(f.type) = "struct" /\ f.slot = <<>> /\ ~isAtEnd(c)
      /\ UNCHANGED <<heap, root_var_, writer_stack_, op, wrote>>
      /\ IF name \in DOMAIN Schema[f.type].type
         THEN calls' = WithTop(calls, nf) /\ reader_stack_' = reader_stack_
         ELSE reader_stack_' = skip(reader_stack_) /\ calls' = calls
  BY DEF ReadFieldBegin, InStruct
<1>2. /\ n \in Nat /\ n > 0 /\ DOMAIN calls = 1 .. n /\ IsSeq(calls) /\ calls # <<>>
      /\ IsSeq(reader_stack_) /\ Len(reader_stack_) = n /\ DOMAIN reader_stack_ = 1 .. n
      /\ reader_stack_ # <<>> /\ f = calls[n] /\ c = reader_stack_[n] /\ WellFormed(heap)
      /\ ReaderFits(f, c, FALSE)
  BY <1>1, ReadingNow
<1>3. /\ f = [type |-> f.type, slot |-> f.slot, left |-> f.left, acc |-> f.acc]
      /\ f.type \in DOMAIN Schema /\ IsContainer(f.type) /\ f.left \in Nat
      /\ ReaderWell(c) /\ heap[c.place].tag = TagOf(f.type) /\ c.type_ = ContextOf(f.type)
  BY <1>1, <1>2 DEF ReaderFits, ReadingWell, Agrees
<1>4. CASE name \in DOMAIN Schema[f.type].type
  <2>1. name # <<>>
    BY <1>1, <1>3, <1>4, SchemaAssumption DEF Kind
  <2>2. name = key
    BY <2>1 DEF FieldName
  <2> HIDE DEF f, c, name, key, nf
  <2>3. /\ nf = [type |-> f.type, slot |-> <<name>>, left |-> f.left, acc |-> f.acc]
        /\ nf.type = f.type /\ nf.slot = <<name>> /\ nf.left = f.left
    BY <1>3 DEF nf
  <2>4. nf.slot[1] = name /\ nf.slot # <<>>
    BY <2>3, SmallSeq
  <2>5. ReadingWell(nf, FALSE)
    BY <1>3, <1>4, <2>3, <2>4 DEF ReadingWell
  <2>6. Agrees(nf, c, FALSE)
    BY <1>1, <1>3, <2>2, <2>3, <2>4 DEF Agrees, key
  <2>7. ReaderFits(nf, c, FALSE)
    BY <1>3, <2>5, <2>6 DEF ReaderFits
  <2>8. /\ IsSeq(WithTop(calls, nf)) /\ Len(WithTop(calls, nf)) = Len(calls)
        /\ \A i \in DOMAIN calls : WithTop(calls, nf)[i] = IF i = Len(calls) THEN nf ELSE calls[i]
    BY <1>2, TopSeq
  <2>9. /\ IsSeq(calls') /\ Len(calls') = n /\ calls'[n] = nf
        /\ \A i \in 1 .. n : i < n => calls'[i] = calls[i]
    BY <1>1, <1>2, <1>4, <2>8
  <2>10. ReaderFits(calls'[n], reader_stack_'[n], FALSE) /\ reader_stack_' = reader_stack_
    BY <1>1, <1>2, <1>4, <2>7, <2>9
  <2> QED BY <1>1, <1>2, <2>9, <2>10, TopReplaced
<1>5. CASE name \notin DOMAIN Schema[f.type].type
  <2> DEFINE a == advance(c)
  <2>1. reader_stack_' = WithTop(reader_stack_, a)
    BY <1>1, <1>2, <1>5 DEF skip
  <2>2. /\ ReaderWell(a) /\ a.place = c.place
        /\ a.type_ = CASE c.type_ = "MAP_KEY_CONTEXT" -> "MAP_VALUE_CONTEXT"
                       [] c.type_ = "MAP_VALUE_CONTEXT" -> "MAP_KEY_CONTEXT"
                       [] OTHER -> c.type_
    BY <1>1, <1>2, <1>3, AdvanceWell
  <2>3. c.type_ = "DICTIONARY_CONTEXT"
    BY <1>1, <1>3 DEF ContextOf
  <2> HIDE DEF a, f, c, name
  <2>4. Agrees(f, a, FALSE)
    BY <1>1, <1>3, <2>2, <2>3 DEF Agrees
  <2>5. ReaderFits(f, a, FALSE)
    BY <1>2, <2>2, <2>4 DEF ReaderFits
  <2>6. /\ IsSeq(WithTop(reader_stack_, a)) /\ Len(WithTop(reader_stack_, a)) = Len(reader_stack_)
        /\ \A i \in DOMAIN reader_stack_ :
             WithTop(reader_stack_, a)[i] = IF i = Len(reader_stack_) THEN a ELSE reader_stack_[i]
    BY <1>2, TopSeq
  <2>7. /\ IsSeq(reader_stack_') /\ Len(reader_stack_') = n /\ reader_stack_'[n] = a
        /\ \A i \in 1 .. n : i < n => reader_stack_'[i] = reader_stack_[i]
    BY <1>2, <2>1, <2>6
  <2>8. ReaderFits(calls'[n], reader_stack_'[n], FALSE) /\ calls' = calls
    BY <1>1, <1>2, <1>5, <2>5, <2>7
  <2> QED BY <1>1, <1>2, <2>7, <2>8, TopReplaced
<1> QED BY <1>4, <1>5

LEMMA ReadValueStep ==
  ASSUME InStep, ReadValue
  PROVE  InStep'
<1> DEFINE n == Len(calls)
           f == Top(calls)
           c == Top(reader_stack_)
           t == Expected(f)
           a == advance(c)
<1>1. /\ op = "reading" /\ IF Kind(f.type) = "struct" THEN f.slot # <<>> ELSE f.left > 0
      /\ UNCHANGED <<heap, root_var_, writer_stack_, wrote>>
  BY DEF ReadValue
<1>2. /\ n \in Nat /\ n > 0 /\ DOMAIN calls = 1 .. n /\ IsSeq(calls) /\ calls # <<>>
      /\ IsSeq(reader_stack_) /\ Len(reader_stack_) = n /\ DOMAIN reader_stack_ = 1 .. n
      /\ reader_stack_ # <<>> /\ f = calls[n] /\ c = reader_stack_[n] /\ WellFormed(heap)
      /\ Heap /\ wrote \in Values[Root] \cup {None} /\ writer_stack_ = <<>>
      /\ ReaderFits(f, c, FALSE)
      /\ \A i \in 1 .. n : ReaderFits(calls[i], reader_stack_[i], i < n)
  BY <1>1, ReadingNow
<1>3. /\ f.type \in DOMAIN Schema /\ IsContainer(f.type) /\ f.left \in Nat /\ ReaderWell(c)
      /\ Agrees(f, c, FALSE)
      /\ Kind(f.type) = "struct" /\ f.slot # <<>> => f.slot[1] \in DOMAIN Schema[f.type].type
  BY <1>2 DEF ReaderFits, ReadingWell
<1>4. ~isAtEnd(c)
  <2>1. CASE Kind(f.type) = "struct"
    BY <1>1, <1>3, <2>1 DEF Agrees
  <2>2. CASE Kind(f.type) # "struct"
    <3>1. f.left - 0 = Size(c) - c.index_ /\ f.left > 0
      BY <1>1, <1>3, <2>2 DEF Agrees
    <3>2. Size(c) \in Nat /\ c.index_ \in Nat
      BY <1>2, <1>3, SizeNat
    <3> HIDE DEF f, c
    <3> QED BY <1>3, <3>1, <3>2 DEF isAtEnd
  <2> QED BY <2>1, <2>2
<1>5. readVar = nextVar(c) /\ AfterReadVar = WithTop(reader_stack_, a)
  BY <1>2 DEF readVar, AfterReadVar
<1>6. t \in DOMAIN Schema
  <2>1. CASE Kind(f.type) = "struct"
    BY <1>1, <1>3, <2>1, SchemaAssumption DEF Expected, Kind
  <2>2. CASE Kind(f.type) = "map"
    BY <1>3, <2>2, SchemaAssumption DEF Expected, Kind
  <2>3. CASE Kind(f.type) \in {"list", "set"}
    BY <1>3, <2>3, SchemaAssumption DEF Expected, Kind
  <2> QED BY <1>3, <2>1, <2>2, <2>3 DEF IsContainer
<1>7. Suits(c.type_, heap[c.place].tag)
  BY <1>3, AgreesSuits
<1>8. Refers(nextVar(c), heap) /\ (c.type_ = "MAP_KEY_CONTEXT" => nextVar(c).tag = "string")
  BY <1>2, <1>3, <1>4, <1>7, NextVarRefers
<1>9. ReaderWell(a)
  BY <1>2, <1>3, AdvanceWell
<1>10. /\ IsSeq(AfterReadVar) /\ Len(AfterReadVar) = n /\ DOMAIN AfterReadVar = 1 .. n
       /\ \A i \in 1 .. n : AfterReadVar[i] = IF i = n THEN a ELSE reader_stack_[i]
  <2> HIDE DEF a
  <2>1. /\ IsSeq(WithTop(reader_stack_, a)) /\ Len(WithTop(reader_stack_, a)) = Len(reader_stack_)
        /\ DOMAIN WithTop(reader_stack_, a) = DOMAIN reader_stack_
        /\ \A i \in DOMAIN reader_stack_ :
             WithTop(reader_stack_, a)[i] = IF i = Len(reader_stack_) THEN a ELSE reader_stack_[i]
    BY <1>2, TopSeq
  <2> QED BY <1>2, <1>5, <2>1
<1>11. ASSUME Readable(t, readVar), IsContainer(t), ReadBegin(t), op' = op
       PROVE  InStep'
  <2>1. PICK k \in ReaderContexts(t, nextVar(c)) :
          /\ reader_stack_' = Append(AfterReadVar, k)
          /\ calls' = Append(calls, Activation(t, Size(k)))
    BY <1>5, <1>11 DEF ReadBegin
  <2>2. nextVar(c).tag = TagOf(t)
    BY <1>5, <1>11 DEF Readable
  <2>3. ReaderFits(Activation(t, Size(k)), k, FALSE)
    BY <1>2, <1>6, <1>8, <1>11, <2>1, <2>2, BeginFits
  <2>4. Kind(f.type) \in {"struct", "map"} => f.slot # <<>>
    <3>1. nextVar(c).tag # "string"
      BY <2>2 DEF TagOf
    <3>2. Kind(f.type) = "map" /\ f.slot = <<>> => c.type_ = "MAP_KEY_CONTEXT"
      BY <1>3 DEF Agrees
    <3> QED BY <1>1, <1>8, <3>1, <3>2
  <2>5. ReaderFits(f, a, TRUE)
    BY <1>2, <1>4, <2>4, OuterFits
  <2> DEFINE nf == Activation(t, Size(k))
  <2> HIDE DEF f, c, a, n, nf
  <2>6. /\ IsSeq(reader_stack_') /\ Len(reader_stack_') = n + 1 /\ reader_stack_'[n + 1] = k
        /\ \A i \in 1 .. n : reader_stack_'[i] = AfterReadVar[i]
    BY <1>10, <2>1, AppendSeq
  <2>7. /\ IsSeq(calls') /\ Len(calls') = n + 1 /\ calls'[n + 1] = nf /\ calls' # <<>>
        /\ \A i \in 1 .. n : calls'[i] = calls[i]
    BY <1>2, <2>1, AppendSeq DEF n, nf
  <2>8. ASSUME NEW i \in 1 .. n + 1
        PROVE  ReaderFits(calls'[i], reader_stack_'[i], i < n + 1)
    <3>1. CASE i = n + 1
      <4>1. (i < n + 1) = FALSE
        BY <1>2, <3>1
      <4> QED BY <2>3, <2>6, <2>7, <3>1, <4>1 DEF nf
    <3>2. CASE i = n
      <4>1. (i < n + 1) = TRUE /\ i \in 1 .. n
        BY <1>2, <3>2
      <4>2. calls'[i] = f /\ reader_stack_'[i] = a
        BY <1>2, <1>10, <2>6, <2>7, <3>2, <4>1
      <4> QED BY <2>5, <4>1, <4>2
    <3>3. CASE i \in 1 .. n /\ i # n
      <4>1. (i < n + 1) = (i < n)
        BY <1>2, <3>3
      <4>2. calls'[i] = calls[i] /\ reader_stack_'[i] = reader_stack_[i]
        BY <1>10, <2>6, <2>7, <3>3
      <4> QED BY <1>2, <3>3, <4>1, <4>2
    <3> QED BY <1>2, <3>1, <3>2, <3>3
  <2>9. op' = "reading" /\ writer_stack_' = <<>>
    BY <1>1, <1>2, <1>11
  <2> QED BY <1>1, <1>2, <2>6, <2>7, <2>8, <2>9, StillReading
<1>12. ASSUME NEW x, calls' = Stored(calls, x), reader_stack_' = AfterReadVar, op' = op
       PROVE  InStep'
  <2> DEFINE nf == Store(f, x)
  <2>1. calls' = WithTop(calls, nf)
    BY <1>2, <1>12 DEF Stored
  <2>2. ReaderFits(nf, a, FALSE)
    BY <1>1, <1>2, <1>4, LeafFits
  <2> HIDE DEF f, c, a, n, nf
  <2>3. /\ IsSeq(WithTop(calls, nf)) /\ Len(WithTop(calls, nf)) = Len(calls)
        /\ \A i \in DOMAIN calls : WithTop(calls, nf)[i] = IF i = Len(calls) THEN nf ELSE calls[i]
    BY <1>2, TopSeq
  <2>4. /\ IsSeq(calls') /\ Len(calls') = n /\ calls'[n] = nf
        /\ \A i \in 1 .. n : i < n => calls'[i] = calls[i]
    BY <1>2, <2>1, <2>3 DEF n
  <2>5. /\ IsSeq(reader_stack_') /\ Len(reader_stack_') = n /\ reader_stack_'[n] = a
        /\ \A i \in 1 .. n : i < n => reader_stack_'[i] = reader_stack_[i]
    BY <1>2, <1>10, <1>12
  <2>6. ReaderFits(calls'[n], reader_stack_'[n], FALSE)
    BY <2>2, <2>4, <2>5
  <2> QED BY <1>1, <1>12, <2>4, <2>5, <2>6, TopReplaced DEF n
<1>13. ASSUME ReadThrows, reader_stack_' = AfterReadVar
       PROVE  InStep'
  <2>1. \A i \in 1 .. n : ReaderWell(reader_stack_[i])
    BY <1>2 DEF ReaderFits
  <2> HIDE DEF a, n
  <2>2. \A i \in DOMAIN reader_stack_' : ReaderWell(reader_stack_'[i])
    BY <1>9, <1>10, <1>13, <2>1
  <2> QED BY <1>1, <1>2, <1>10, <1>13, <2>2, ReadThrew
<1> QED BY <1>11, <1>12, <1>13 DEF ReadValue

LEMMA ReadEndStep ==
  ASSUME InStep, ReadEnd
  PROVE  InStep'
<1> DEFINE n == Len(calls)
           x == Top(calls).acc
           outer == Front(calls)
<1>1. /\ op = "reading" /\ UNCHANGED <<heap, root_var_, writer_stack_, wrote>>
      /\ reader_stack_' = Front(reader_stack_)
      /\ \/ ReadThrows
         \/ /\ calls' = Stored(outer, x)
            /\ op' = IF n = 1 THEN "read" ELSE op
  BY DEF ReadEnd
<1>2. /\ n \in Nat /\ n > 0 /\ IsSeq(calls) /\ calls # <<>>
      /\ IsSeq(reader_stack_) /\ Len(reader_stack_) = n
      /\ reader_stack_ # <<>> /\ WellFormed(heap)
      /\ Heap /\ wrote \in Values[Root] \cup {None} /\ writer_stack_ = <<>>
      /\ \A i \in 1 .. n : ReaderFits(calls[i], reader_stack_[i], i < n)
  BY <1>1, ReadingNow
<1> HIDE DEF x
<1>3. /\ IsSeq(reader_stack_') /\ Len(reader_stack_') = n - 1 /\ DOMAIN reader_stack_' = 1 .. n - 1
      /\ \A i \in 1 .. n - 1 : reader_stack_'[i] = reader_stack_[i]
  BY <1>1, <1>2, FrontSeq
<1>4. /\ IsSeq(outer) /\ Len(outer) = n - 1 /\ DOMAIN outer = 1 .. n - 1
      /\ \A i \in 1 .. n - 1 : outer[i] = calls[i]
  BY <1>2, FrontSeq
<1> HIDE DEF n, outer
<1>5. 1 .. n - 1 \subseteq 1 .. n
  BY <1>2
<1>6. CASE ReadThrows
  <2>1. \A i \in DOMAIN reader_stack_' : ReaderWell(reader_stack_'[i])
    BY <1>2, <1>3, <1>5 DEF ReaderFits
  <2> QED BY <1>1, <1>2, <1>3, <1>6, <2>1, ReadThrew
<1>7. CASE calls' = Stored(outer, x) /\ op' = (IF n = 1 THEN "read" ELSE op) /\ n = 1
  <2>1. outer = <<>> /\ reader_stack_' = <<>>
    BY <1>3, <1>4, <1>7, SeqFacts
  <2>2. calls' = <<>> /\ op' \in Idle
    BY <1>7, <2>1 DEF Stored, Idle
  <2>3. Heap' /\ writer_stack_' = <<>> /\ wrote' \in Values[Root] \cup {None}
    BY <1>1, <1>2 DEF Heap
  <2>4. /\ IsSeq(writer_stack_') /\ DOMAIN writer_stack_' = {}
        /\ IsSeq(reader_stack_') /\ DOMAIN reader_stack_' = {}
    BY <2>1, <2>3, SmallSeq
  <2> QED BY <2>1, <2>2, <2>3, <2>4, Stopped
<1>8. CASE calls' = Stored(outer, x) /\ op' = (IF n = 1 THEN "read" ELSE op) /\ n # 1
  <2> DEFINE m == n - 1
             nf == Store(Top(outer), x)
  <2>1. m \in Nat /\ m > 0 /\ m \in 1 .. n /\ (m < n) = TRUE
    BY <1>2, <1>8
  <2>2. outer # <<>> /\ Top(outer) = calls[m] /\ m \in 1 .. n - 1
    BY <1>4, <2>1, SeqFacts DEF Top
  <2>3. calls' = WithTop(outer, nf)
    BY <1>8, <2>2 DEF Stored
  <2>4. ReaderFits(calls[m], reader_stack_[m], TRUE)
    BY <1>2, <2>1
  <2>5. ReaderFits(nf, reader_stack_[m], FALSE)
    BY <1>2, <2>2, <2>4, InnerEnds
  <2> HIDE DEF nf, m
  <2>6. /\ IsSeq(WithTop(outer, nf)) /\ Len(WithTop(outer, nf)) = Len(outer)
        /\ WithTop(outer, nf) # <<>>
        /\ \A i \in DOMAIN outer : WithTop(outer, nf)[i] = IF i = Len(outer) THEN nf ELSE outer[i]
    BY <1>4, <2>2, TopSeq
  <2>7. /\ IsSeq(calls') /\ Len(calls') = m /\ calls' # <<>>
        /\ \A i \in 1 .. m : calls'[i] = IF i = m THEN nf ELSE calls[i]
    BY <1>4, <2>3, <2>6 DEF m
  <2>8. ASSUME NEW i \in 1 .. m PROVE ReaderFits(calls'[i], reader_stack_'[i], i < m)
    <3>1. reader_stack_'[i] = reader_stack_[i] /\ i \in 1 .. n
      BY <1>3, <1>5 DEF m
    <3>2. CASE i = m
      <4>1. (i < m) = FALSE
        BY <2>1, <3>2
      <4> QED BY <2>5, <2>7, <3>1, <3>2, <4>1
    <3>3. CASE i # m
      <4>1. (i < m) = TRUE /\ (i < n) = TRUE
        BY <1>2, <2>1, <3>3 DEF m
      <4>2. ReaderFits(calls[i], reader_stack_[i], TRUE)
        BY <1>2, <3>1, <4>1
      <4> QED BY <2>7, <3>1, <3>3, <4>1, <4>2
    <3> QED BY <3>2, <3>3
  <2>9. op' = "reading" /\ writer_stack_' = <<>> /\ Len(reader_stack_') = m
    BY <1>1, <1>2, <1>3, <1>8 DEF m
  <2> QED BY <1>1, <1>2, <1>3, <2>7, <2>8, <2>9, StillReading
<1> QED BY <1>1, <1>6, <1>7, <1>8

LEMMA ReadStep ==
  ASSUME InStep, Read
  PROVE  InStep'
<1>1. /\ op \in Idle /\ UNCHANGED <<heap, root_var_, writer_stack_, wrote>>
      /\ \/ /\ root_var_ # None /\ Readable(Root, readVar)
            /\ op' = "reading" /\ ReadBegin(Root)
         \/ ReadThrows /\ reader_stack_' = AfterReadVar
  BY DEF Read
<1>2. /\ reader_stack_ = <<>> /\ writer_stack_ = <<>> /\ calls = <<>> /\ Heap
      /\ WellFormed(heap) /\ wrote \in Values[Root] \cup {None}
      /\ root_var_ # None => Refers(root_var_, heap)
  BY <1>1 DEF InStep, InSync, Activations, Heap, Client, Idle
<1>3. readVar = root_var_ /\ AfterReadVar = <<>>
  BY <1>2 DEF readVar, AfterReadVar
<1>4. CASE ReadThrows /\ reader_stack_' = AfterReadVar
  <2>1. IsSeq(reader_stack_') /\ DOMAIN reader_stack_' = {}
    BY <1>3, <1>4, SmallSeq
  <2> QED BY <1>1, <1>2, <1>4, <2>1, ReadThrew
<1>5. CASE root_var_ # None /\ Readable(Root, readVar) /\ op' = "reading" /\ ReadBegin(Root)
  <2>1. Root \in DOMAIN Schema /\ IsContainer(Root)
    BY SchemaAssumption DEF IsContainer, Kind
  <2>2. PICK c \in ReaderContexts(Root, root_var_) :
          reader_stack_' = Append(<<>>, c) /\ calls' = Append(<<>>, Activation(Root, Size(c)))
    BY <1>2, <1>3, <1>5 DEF ReadBegin
  <2>3. root_var_.tag = TagOf(Root)
    BY <1>3, <1>5, <2>1 DEF Readable
  <2>4. ReaderFits(Activation(Root, Size(c)), c, FALSE)
    BY <1>2, <1>5, <2>1, <2>2, <2>3, BeginFits
  <2> DEFINE nf == Activation(Root, Size(c))
  <2> HIDE DEF nf
  <2>5. /\ IsSeq(reader_stack_') /\ Len(reader_stack_') = 0 + 1 /\ reader_stack_'[0 + 1] = c
        /\ IsSeq(calls') /\ Len(calls') = 0 + 1 /\ calls'[0 + 1] = nf /\ calls' # <<>>
    BY <2>2, SmallSeq, AppendSeq DEF nf
  <2>6. ASSUME NEW i \in 1 .. Len(calls')
        PROVE  ReaderFits(calls'[i], reader_stack_'[i], i < Len(calls'))
    <3>1. i = 1 /\ (i < Len(calls')) = FALSE /\ 0 + 1 = 1
      BY <2>5
    <3> QED BY <2>4, <2>5, <3>1 DEF nf
  <2>7. writer_stack_' = <<>> /\ Len(reader_stack_') = Len(calls')
    BY <1>1, <1>2, <2>5
  <2> QED BY <1>1, <1>2, <1>5, <2>5, <2>6, <2>7, StillReading
<1> QED BY <1>1, <1>4, <1>5

-----------------------------------------------------------------------------
(* The theorems *)

\* The client between operations, with nothing or with what the page sent.
LEMMA Cleared ==
  ASSUME op' = "ready", calls' = <<>>, wrote' = None, ClearStacks, WellFormed(heap'),
         root_var_' # None => Refers(root_var_', heap')
  PROVE  InStep'
<1>1. writer_stack_' = <<>> /\ reader_stack_' = <<>> /\ op' \in Idle
  BY DEF ClearStacks, Idle
<1>2. /\ IsSeq(writer_stack_') /\ DOMAIN writer_stack_' = {}
      /\ IsSeq(reader_stack_') /\ DOMAIN reader_stack_' = {}
  BY <1>1, SmallSeq
<1>3. Heap'
  BY DEF Heap
<1> QED BY <1>1, <1>2, <1>3, Stopped

LEMMA EmptyHeap == WellFormed(<<>>)
BY SmallSeq DEF WellFormed, IsSeq

LEMMA InStepInit ==
  ASSUME Init
  PROVE  InStep
<1>1. /\ writer_stack_ = <<>> /\ reader_stack_ = <<>> /\ calls = <<>> /\ op = "ready"
      /\ wrote = None
  BY DEF Init
<1>2. WellFormed(heap) /\ (root_var_ # None => Refers(root_var_, heap))
  BY EmptyHeap, PageAssumption DEF Init
<1>3. Heap
  BY <1>2 DEF Heap
<1>4. Client
  BY <1>1 DEF Client, Idle
<1>5. Stacks
  BY <1>1, SmallSeq DEF Stacks
<1>6. Activations
  BY <1>1 DEF Activations
<1>7. InSync
  BY <1>1 DEF InSync
<1> QED BY <1>3, <1>4, <1>5, <1>6, <1>7 DEF InStep

LEMMA InStepNext ==
  ASSUME InStep, [Next]_vars
  PROVE  InStep'
<1>1. CASE Step
  BY <1>1, WriteLeafStep, WriteThrowsStep, WriteBeginStep, WriteEndStep,
     ReadFieldBeginStep, ReadValueStep, ReadEndStep DEF Step
<1>2. CASE \E obj \in Values[Root] : Write(obj)
  BY <1>2, WriteStep
<1>3. CASE Read
  BY <1>3, ReadStep
<1>4. CASE reset
  BY <1>4, EmptyHeap, Cleared DEF reset
<1>5. CASE \E page \in PageVars : setVar(page)
  BY <1>5, PageAssumption, Cleared DEF setVar
<1>6. CASE UNCHANGED vars
  <2>1. UNCHANGED <<heap, root_var_, writer_stack_, reader_stack_, op, calls, wrote>>
    BY <1>6 DEF vars
  <2>2. Heap'
    BY <2>1 DEF InStep, Heap
  <2>3. Client'
    BY <2>1 DEF InStep, Client
  <2>4. Stacks'
    BY <2>1 DEF InStep, Stacks, WriterWell, ReaderWell, Size
  <2>5. Activations'
    BY <2>1 DEF InStep, Activations
  <2>6. InSync'
    BY <2>1 DEF InStep, InSync, Agrees, Size, isAtEnd
  <2> QED BY <2>2, <2>3, <2>4, <2>5, <2>6 DEF InStep
<1> QED BY <1>1, <1>2, <1>3, <1>4, <1>5, <1>6 DEF Next

\* The inductive invariant: both stack machines stay in step with the generated code's
\* recursion, on a heap that is well formed.
THEOREM InStepInvariant == Spec => []InStep
<1>1. Init => InStep
  BY InStepInit
<1>2. InStep /\ [Next]_vars => InStep'
  BY InStepNext
<1> QED BY <1>1, <1>2, PTL DEF Spec

\* Whatever the schema, the values and the page: every WriterContext and ReaderContext
\* is one of a container in the heap, and index_ never passes the end of its keys_ or
\* its array.
THEOREM ProtocolTypes == Spec => []TypeOK
<1>1. InStep => TypeOK
  BY DEF InStep, Client, Stacks, Activations, TypeOK, WriterWell, ReaderWell, ReadingWell
<1> QED BY <1>1, InStepInvariant, PTL

\* Between operations no context is left on either stack; during one, each activation
\* of the generated code finds the context of its own container, in the phase it
\* expects and with as many elements left as its loop, so that no assert() of
\* ReaderContext or WriterContext fails, however deep the value nests.
THEOREM StacksMirrorCalls == Spec => []InSync
<1>1. InStep => InSync
  BY DEF InStep
<1> QED BY <1>1, InStepInvariant, PTL
=============================================================================
