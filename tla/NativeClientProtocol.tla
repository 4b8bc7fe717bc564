------------------------ MODULE NativeClientProtocol ------------------------
(***************************************************************************)
(* protocol/TNativeClientProtocol.cpp together with the read() and write() *)
(* that the patched compiler generates for structs: two stack machines     *)
(* over pp::Var values that have to stay in step with the generated code's *)
(* recursion.                                                              *)
(*                                                                         *)
(* A C++ value is a sequence of integers if it is a number, a Boolean or a *)
(* string (a double counts halves); a list is a sequence of values, a set  *)
(* a set, a map a function and a struct a function from the names of the   *)
(* fields that are set.  A pp::Var is [tag, v] with such a sequence v; for *)
(* a dictionary or an array v holds its place in the heap, because the     *)
(* protocol hands a container to its parent before it fills it.            *)
(***************************************************************************)
EXTENDS Integers, Sequences, FiniteSets, SequencesExt, Base64

CONSTANTS
  Schema,      \* Schema[t]: the Thrift type t, [kind |-> ...] with, for a struct,
               \* order, type and required, for a container elem and key
  Root,        \* the struct that is read and written
  Values,      \* Values[t]: the values of type t that are written, within others or,
               \* if t is Root, on their own
  PageVars,    \* what the page may send: records [heap, root]
  Limit,       \* Limit[k]: <<min, max>> of the C++ integer type k
  MaxPrecise,  \* kMaxPreciseDouble
  None         \* no pp::Var, or no value

\* What the Thrift compiler accepts: every type a type refers to exists, and no
\* field has an empty name.
ASSUME SchemaAssumption ==
  /\ Root \in DOMAIN Schema /\ Schema[Root].kind = "struct"
  /\ \A t \in DOMAIN Schema :
       LET s == Schema[t]
       IN  CASE s.kind = "struct" ->
                  /\ s.order \in Seq(DOMAIN s.type)
                  /\ \A n \in DOMAIN s.type : n # <<>> /\ s.type[n] \in DOMAIN Schema
             [] s.kind = "map" -> s.key \in DOMAIN Schema /\ s.elem \in DOMAIN Schema
             [] s.kind \in {"list", "set"} -> s.elem \in DOMAIN Schema
             [] OTHER -> s.kind \in {"bool", "i8", "i16", "i32", "i64", "double", "string", "binary"}

\* What the C++ compiler accepts: the parts of a value have the types declared.
ASSUME ValuesAssumption ==
  \A t \in DOMAIN Schema : \A x \in Values[t] :
    LET s == Schema[t]
    IN  CASE s.kind = "struct" -> \A n \in DOMAIN x \cap DOMAIN s.type : x[n] \in Values[s.type[n]]
          [] s.kind = "map" -> /\ IsFiniteSet(DOMAIN x)
                               /\ \A k \in DOMAIN x : k \in Values[s.key] /\ x[k] \in Values[s.elem]
          [] s.kind = "list" -> x \in Seq(Values[s.elem])
          [] s.kind = "set" -> IsFiniteSet(x) /\ x \subseteq Values[s.elem]
          [] OTHER -> TRUE

\* A pp::Var that is a container is one of the heap h, and of the right kind.
Refers(var, h) ==
  var.tag \in {"dictionary", "array"} => var.v[1] \in DOMAIN h /\ h[var.v[1]].tag = var.tag

\* A heap of dictionaries and arrays that hold pp::Vars.
WellFormed(h) ==
  /\ h \in Seq(Range(h))
  /\ \A place \in DOMAIN h :
       LET e == h[place].entries
       IN  /\ h[place] = [tag |-> h[place].tag, entries |-> e]
           /\ \/ h[place].tag = "dictionary" /\ IsFiniteSet(DOMAIN e)
              \/ h[place].tag = "array" /\ e \in Seq(Range(e))
           /\ \A k \in DOMAIN e : Refers(e[k], h)

\* What the browser delivers.
ASSUME PageAssumption == \A page \in PageVars : WellFormed(page.heap) /\ Refers(page.root, page.heap)

\* 2^53 is a multiple of 4, which the rounding beyond it depends on.
ASSUME PreciseAssumption == MaxPrecise \in Nat /\ MaxPrecise % 4 = 0

VARIABLES
  heap,            \* the dictionaries and arrays
  root_var_,       \* the pp::Var that is read, or being written
  writer_stack_,   \* the WriterContexts, the top one last
  reader_stack_,   \* the ReaderContexts, the top one last
  op,              \* what the client is doing, or how its last operation ended
  calls,           \* the generated code's activation records
  wrote,           \* the value that root_var_ was written from, or None
  result           \* the value the last read() filled in, or None

vars == <<heap, root_var_, writer_stack_, reader_stack_, op, calls, wrote, result>>

Var(tag, v) == [tag |-> tag, v |-> v]
Null == Var("null", <<>>)

Kind(t) == Schema[t].kind
IsContainer(t) == Kind(t) \in {"struct", "map", "list", "set"}

\* The pp::Var type of a container, and the ContextType it is walked in.
TagOf(t) == IF Kind(t) \in {"struct", "map"} THEN "dictionary" ELSE "array"
ContextOf(t) == CASE Kind(t) = "struct" -> "DICTIONARY_CONTEXT"
                  [] Kind(t) = "map" -> "MAP_KEY_CONTEXT"
                  [] OTHER -> "LIST_CONTEXT"

Top(stack) == stack[Len(stack)]
WithTop(stack, x) == [stack EXCEPT ![Len(stack)] = x]

\* The function f with k mapped to v.
Extend(f, k, v) == [x \in DOMAIN f \cup {k} |-> IF x = k THEN v ELSE f[x]]

Idle == {"ready", "wrote", "read"}
Threw == {"writeThrew", "readThrew"}

-----------------------------------------------------------------------------
(* Mutated forms of the definitions below: plausible slips in this code. *)

\* nextArrayValue moves on as well
AdvanceTwice(c) ==
  IF c.type_ = "MAP_KEY_CONTEXT" THEN [c EXCEPT !.type_ = "MAP_VALUE_CONTEXT"]
  ELSE IF c.type_ = "MAP_VALUE_CONTEXT"
  THEN [c EXCEPT !.type_ = "MAP_KEY_CONTEXT", !.index_ = @ + 1]
  ELSE [c EXCEPT !.index_ = @ + 2]

\* reset forgets the readers that an exception left behind
ResetWriterOnly == writer_stack_' = <<>> /\ UNCHANGED reader_stack_

\* an unknown field is not passed over
SkipNothing(stack) == stack

\* a field that the page set to null is taken for its name
NullIsAValue(key, value) == key

-----------------------------------------------------------------------------
(* Writing *)

\* int64_t to double: beyond MaxPrecise only every other integer is a double, and
\* a tie goes to the one with the even mantissa.
ToDouble(i) ==
  LET a == IF i < 0 THEN -i ELSE i
      r == IF a <= MaxPrecise \/ a % 2 = 0 THEN a
           ELSE IF a % 4 = 1 THEN a - 1 ELSE a + 1
  IN  IF i < 0 THEN -r ELSE r

\* writeI64 compares after the conversion.
TooLargeToWrite(t, x) ==
  Kind(t) = "i64" /\ (ToDouble(x[1]) > MaxPrecise \/ ToDouble(x[1]) < -MaxPrecise)

\* The pp::Var that writeBool .. writeBinary make of the value x.
LeafVar(t, x) ==
  CASE Kind(t) = "bool" -> Var("bool", x)
    [] Kind(t) \in {"i8", "i16", "i32"} -> Var("int", x)
    [] Kind(t) = "i64" -> Var("double", <<2 * ToDouble(x[1])>>)
    [] Kind(t) = "double" -> Var("double", x)
    [] Kind(t) = "string" -> Var("string", x)
    [] Kind(t) = "binary" -> Var("string", base64EncodeString(x))

\* VarDictionary::Set, which ignores a key that is not a string.
Set(container, key, var) ==
  IF key.tag = "string" THEN [container EXCEPT !.entries = Extend(@, key.v, var)] ELSE container

\* WriterContext::writeVar, what it does to the container ...
Filled(container, context, var) ==
  CASE context.type_ = "DICTIONARY_CONTEXT" ->
         Set(container, Var("string", context.field_name_), var)
    [] context.type_ = "LIST_CONTEXT" -> [container EXCEPT !.entries = Append(@, var)]
    [] context.type_ = "MAP_KEY_CONTEXT" -> container
    [] context.type_ = "MAP_VALUE_CONTEXT" -> Set(container, context.map_key_, var)

\* ... and to the context.
NextPhase(context, var) ==
  CASE context.type_ = "MAP_KEY_CONTEXT" ->
         [context EXCEPT !.map_key_ = var, !.type_ = "MAP_VALUE_CONTEXT"]
    [] context.type_ = "MAP_VALUE_CONTEXT" -> [context EXCEPT !.type_ = "MAP_KEY_CONTEXT"]
    [] OTHER -> context

NewContainer(t) == [tag |-> TagOf(t), entries |-> <<>>]
WriterContext(t, place) ==
  [place |-> place, type_ |-> ContextOf(t), field_name_ |-> <<>>, map_key_ |-> Null]

\* What the generated write() of a value x of type t has to write, in order: the
\* fields that are set, the keys and values of a map in turn, or the elements.
Items(t, x) ==
  LET Item(name, type, val) == [name |-> name, type |-> type, val |-> val]
      s == Schema[t]
  IN  CASE s.kind = "struct" ->
             LET set == {i \in DOMAIN s.order : s.order[i] \in DOMAIN x}
                 Field(k) == s.order[CHOOSE i \in set : Cardinality(set \cap 1 .. i) = k]
             IN  [k \in 1 .. Cardinality(set) |->
                    Item(Field(k), s.type[Field(k)], x[Field(k)])]
        [] s.kind = "map" ->
             LET keys == SetToSeq(DOMAIN x)
             IN  [i \in 1 .. 2 * Len(keys) |->
                    IF i % 2 = 1 THEN Item(<<>>, s.key, keys[(i + 1) \div 2])
                    ELSE Item(<<>>, s.elem, x[keys[i \div 2]])]
        [] s.kind = "list" -> [i \in DOMAIN x |-> Item(<<>>, s.elem, x[i])]
        [] s.kind = "set" -> LET elems == SetToSeq(x)
                             IN  [i \in DOMAIN elems |-> Item(<<>>, s.elem, elems[i])]

\* writeFieldBegin, which the generated code calls in a struct only.
writeFieldBegin(context, t, name) ==
  IF Kind(t) = "struct" THEN [context EXCEPT !.field_name_ = name] ELSE context

\* write() of a value: writeStructBegin with no context makes its dictionary
\* root_var_.
Write(obj) ==
  /\ op \in Idle
  /\ heap' = <<NewContainer(Root)>>
  /\ root_var_' = Var("dictionary", <<1>>)
  /\ writer_stack_' = <<WriterContext(Root, 1)>>
  /\ calls' = <<[type |-> Root, todo |-> Items(Root, obj)]>>
  /\ op' = "writing" /\ wrote' = obj /\ result' = None
  /\ UNCHANGED reader_stack_

\* The next item of the innermost write(), in its context.
Item == Head(Top(calls).todo)
ItemContext == writeFieldBegin(Top(writer_stack_), Top(calls).type, Item.name)
Rest == WithTop(calls, [Top(calls) EXCEPT !.todo = Tail(@)])
MoreToWrite == op = "writing" /\ Top(calls).todo # <<>>

\* writeBool .. writeBinary.
WriteLeaf ==
  /\ MoreToWrite
  /\ ~IsContainer(Item.type) /\ ~TooLargeToWrite(Item.type, Item.val)
  /\ LET var == LeafVar(Item.type, Item.val)
     IN  /\ heap' = [heap EXCEPT ![ItemContext.place] = Filled(@, ItemContext, var)]
         /\ writer_stack_' = WithTop(writer_stack_, NextPhase(ItemContext, var))
  /\ calls' = Rest
  /\ UNCHANGED <<root_var_, reader_stack_, op, wrote, result>>

\* writeI64 of a value that no double holds: the exception ends write() and leaves
\* the contexts where they are.
WriteThrows ==
  /\ MoreToWrite
  /\ ~IsContainer(Item.type) /\ TooLargeToWrite(Item.type, Item.val)
  /\ writer_stack_' = WithTop(writer_stack_, ItemContext)
  /\ op' = "writeThrew" /\ calls' = <<>>
  /\ UNCHANGED <<heap, root_var_, reader_stack_, wrote, result>>

\* writeStructBegin, writeMapBegin, writeListBegin, writeSetBegin.
WriteBegin ==
  /\ MoreToWrite
  /\ IsContainer(Item.type)
  /\ LET place == Len(heap) + 1
         var == Var(TagOf(Item.type), <<place>>)
     IN  /\ heap' = Append([heap EXCEPT ![ItemContext.place] = Filled(@, ItemContext, var)],
                           NewContainer(Item.type))
         /\ writer_stack_' = Append(WithTop(writer_stack_, NextPhase(ItemContext, var)),
                                    WriterContext(Item.type, place))
         /\ calls' = Append(Rest, [type |-> Item.type, todo |-> Items(Item.type, Item.val)])
  /\ UNCHANGED <<root_var_, reader_stack_, op, wrote, result>>

\* writeStructEnd, writeMapEnd, writeListEnd, writeSetEnd.
WriteEnd ==
  /\ op = "writing" /\ Top(calls).todo = <<>>
  /\ writer_stack_' = Front(writer_stack_)
  /\ calls' = Front(calls)
  /\ op' = IF Len(calls) = 1 THEN "wrote" ELSE op
  /\ UNCHANGED <<heap, root_var_, reader_stack_, wrote, result>>

-----------------------------------------------------------------------------
(* Reading *)

\* ReaderContext::size, isAtEnd and advance.
Size(c) == IF heap[c.place].tag = "dictionary" THEN Len(c.keys_) ELSE Len(heap[c.place].entries)
isAtEnd(c) == c.index_ >= Size(c)
Forward(c) ==
  CASE c.type_ = "MAP_KEY_CONTEXT" -> [c EXCEPT !.type_ = "MAP_VALUE_CONTEXT"]
    [] c.type_ = "MAP_VALUE_CONTEXT" -> [c EXCEPT !.type_ = "MAP_KEY_CONTEXT", !.index_ = @ + 1]
    [] OTHER -> [c EXCEPT !.index_ = @ + 1]
advance(c) == IF isAtEnd(c) THEN c ELSE Forward(c)

\* ReaderContext::nextKey, nextValue, nextArrayValue, as nextVar chooses among them.
nextVar(c) ==
  LET i == c.index_ + 1
      entries == heap[c.place].entries
  IN  CASE c.type_ = "MAP_KEY_CONTEXT" -> Var("string", c.keys_[i])
        [] c.type_ = "LIST_CONTEXT" -> entries[i]
        [] OTHER -> entries[c.keys_[i]]

\* readVar: its result, and the stack it leaves.
readVar == IF reader_stack_ = <<>> THEN root_var_ ELSE nextVar(Top(reader_stack_))
AfterReadVar ==
  IF reader_stack_ = <<>> THEN <<>> ELSE WithTop(reader_stack_, advance(Top(reader_stack_)))

\* The contexts that createDictionaryContext, createMapContext or createListContext
\* can make: GetKeys promises no order.
ReaderContexts(t, var) ==
  LET place == var.v[1]
      Context(keys) == [place |-> place, type_ |-> ContextOf(t), keys_ |-> keys, index_ |-> 0]
  IN  IF var.tag = "dictionary"
      THEN {Context(keys) : keys \in SetToSeqs(DOMAIN heap[place].entries)}
      ELSE {Context(<<>>)}

\* readIntegerValue and READ_INTEGER_VALUE; v of a double counts halves.
IntegerValue(var) == IF var.tag = "int" THEN var.v[1] ELSE var.v[1] \div 2
ReadableInteger(t, var) ==
  /\ \/ var.tag = "int"
     \/ /\ var.tag = "double" /\ var.v[1] % 2 = 0
        /\ IntegerValue(var) \in -MaxPrecise .. MaxPrecise
  /\ Kind(t) # "i64" => IntegerValue(var) \in Limit[Kind(t)][1] .. Limit[Kind(t)][2]

\* The pp::Vars for which readBool .. readBinary throw no exception, and the value
\* they read.
ReadableLeaf(t, var) ==
  CASE Kind(t) = "bool" -> var.tag = "bool"
    [] Kind(t) \in {"i8", "i16", "i32", "i64"} -> ReadableInteger(t, var)
    [] Kind(t) = "double" -> var.tag \in {"int", "double"}
    [] Kind(t) = "string" -> var.tag = "string"
    [] Kind(t) = "binary" -> var.tag = "string" /\ ~Undecodable(var.v)
LeafValue(t, var) ==
  CASE Kind(t) \in {"i8", "i16", "i32", "i64"} -> <<IntegerValue(var)>>
    [] Kind(t) = "double" -> IF var.tag = "int" THEN <<2 * var.v[1]>> ELSE var.v
    [] Kind(t) = "binary" -> base64DecodeString(var.v)
    [] OTHER -> var.v
Readable(t, var) == IF IsContainer(t) THEN var.tag = TagOf(t) ELSE ReadableLeaf(t, var)

\* An activation of read(), or of the loop over a container: what it has read (acc),
\* the field name or the map key it is reading a value for (slot), and how many
\* elements its loop has left.
Activation(t, size) ==
  [type |-> t, slot |-> <<>>, left |-> size, acc |-> IF Kind(t) = "set" THEN {} ELSE <<>>]

\* The type of the value that activation f reads next.
Expected(f) ==
  LET s == Schema[f.type]
  IN  CASE s.kind = "struct" -> s.type[f.slot[1]]
        [] s.kind = "map" /\ f.slot = <<>> -> s.key
        [] OTHER -> s.elem

\* f after it has read x.
Store(f, x) ==
  CASE Kind(f.type) = "struct" -> [f EXCEPT !.acc = Extend(@, f.slot[1], x), !.slot = <<>>]
    [] Kind(f.type) = "map" ->
         IF f.slot = <<>> THEN [f EXCEPT !.slot = <<x>>]
         ELSE [f EXCEPT !.acc = Extend(@, f.slot[1], x), !.slot = <<>>, !.left = @ - 1]
    [] Kind(f.type) = "list" -> [f EXCEPT !.acc = Append(@, x), !.left = @ - 1]
    [] Kind(f.type) = "set" -> [f EXCEPT !.acc = @ \cup {x}, !.left = @ - 1]

Stored(fs, x) == IF fs = <<>> THEN <<>> ELSE WithTop(fs, Store(Top(fs), x))

\* The container of type t that readVar returns is entered.
ReadBegin(t) ==
  \E c \in ReaderContexts(t, readVar) :
    /\ reader_stack_' = Append(AfterReadVar, c)
    /\ calls' = Append(calls, Activation(t, Size(c)))

\* An exception ends read() and leaves the contexts where they are.
ReadThrows == op' = "readThrew" /\ calls' = <<>>

\* read() of a struct: readStructBegin.
Read ==
  /\ op \in Idle
  /\ result' = None
  /\ IF root_var_ # None /\ Readable(Root, readVar)
     THEN op' = "reading" /\ ReadBegin(Root)
     ELSE ReadThrows /\ reader_stack_' = AfterReadVar
  /\ UNCHANGED <<heap, root_var_, writer_stack_, wrote>>

\* The field name that readFieldBegin reports.
FieldName(key, value) == IF value.tag = "null" THEN <<>> ELSE key

\* skip: the value is passed over whatever it is.
skip(stack) == IF stack = <<>> THEN stack ELSE WithTop(stack, advance(Top(stack)))

InStruct == op = "reading" /\ Kind(Top(calls).type) = "struct" /\ Top(calls).slot = <<>>

\* readFieldBegin, get_field_type and the switch of the generated read(): a field the
\* struct does not have, and one that is null, are skipped.
ReadFieldBegin ==
  /\ InStruct /\ ~isAtEnd(Top(reader_stack_))
  /\ LET c == Top(reader_stack_)
         name == FieldName(c.keys_[c.index_ + 1], nextVar(c))
     IN  IF name \in DOMAIN Schema[Top(calls).type].type
         THEN /\ calls' = WithTop(calls, [Top(calls) EXCEPT !.slot = <<name>>])
              /\ UNCHANGED reader_stack_
         ELSE reader_stack_' = skip(reader_stack_) /\ UNCHANGED calls
  /\ UNCHANGED <<heap, root_var_, writer_stack_, op, wrote, result>>

\* readBool .. readBinary, or readStructBegin .. readSetBegin, of the next value.
ReadValue ==
  /\ op = "reading"
  /\ IF Kind(Top(calls).type) = "struct" THEN Top(calls).slot # <<>> ELSE Top(calls).left > 0
  /\ LET t == Expected(Top(calls))
     IN  \/ /\ Readable(t, readVar) /\ IsContainer(t)
            /\ ReadBegin(t) /\ UNCHANGED op
         \/ /\ Readable(t, readVar) /\ ~IsContainer(t)
            /\ calls' = Stored(calls, LeafValue(t, readVar))
            /\ reader_stack_' = AfterReadVar /\ UNCHANGED op
         \/ /\ ~Readable(t, readVar)
            /\ ReadThrows /\ reader_stack_' = AfterReadVar
  /\ UNCHANGED <<heap, root_var_, writer_stack_, wrote, result>>

\* Every required field was read.
Complete(f) == Kind(f.type) = "struct" => Schema[f.type].required \subseteq DOMAIN f.acc

\* readStructEnd .. readSetEnd; a struct misses its required fields only now.
ReadEnd ==
  /\ op = "reading"
  /\ IF Kind(Top(calls).type) = "struct"
     THEN InStruct /\ isAtEnd(Top(reader_stack_)) ELSE Top(calls).left = 0
  /\ reader_stack_' = Front(reader_stack_)
  /\ IF ~Complete(Top(calls)) THEN ReadThrows /\ UNCHANGED result
     ELSE /\ calls' = Stored(Front(calls), Top(calls).acc)
          /\ IF Len(calls) = 1 THEN op' = "read" /\ result' = Top(calls).acc
             ELSE UNCHANGED <<op, result>>
  /\ UNCHANGED <<heap, root_var_, writer_stack_, wrote>>

-----------------------------------------------------------------------------
(* The client *)

ClearStacks == writer_stack_' = <<>> /\ reader_stack_' = <<>>

\* reset, and setVar, which calls it: the only ways on after an exception.
reset ==
  /\ op \in Idle \cup Threw
  /\ ClearStacks
  /\ root_var_' = None /\ heap' = <<>>
  /\ op' = "ready" /\ calls' = <<>> /\ wrote' = None /\ result' = None

setVar(page) ==
  /\ op \in Idle \cup Threw
  /\ ClearStacks
  /\ root_var_' = page.root /\ heap' = page.heap
  /\ op' = "ready" /\ calls' = <<>> /\ wrote' = None /\ result' = None

\* Both constructors.
Init ==
  /\ \/ heap = <<>> /\ root_var_ = None
     \/ \E page \in PageVars : heap = page.heap /\ root_var_ = page.root
  /\ writer_stack_ = <<>> /\ reader_stack_ = <<>>
  /\ op = "ready" /\ calls = <<>> /\ wrote = None /\ result = None

\* The steps of an operation under way.
Step ==
  \/ WriteLeaf \/ WriteThrows \/ WriteBegin \/ WriteEnd
  \/ ReadFieldBegin \/ ReadValue \/ ReadEnd

Next ==
  \/ Step
  \/ \E obj \in Values[Root] : Write(obj)
  \/ Read
  \/ reset
  \/ \E page \in PageVars : setVar(page)

\* An operation, once called, runs to its end.
Spec == Init /\ [][Next]_vars /\ WF_vars(Step)

-----------------------------------------------------------------------------
(* Properties *)

\* The types: every context has a container in the heap and an index within it.
TypeOK ==
  /\ op \in Idle \cup Threw \cup {"writing", "reading"}
  /\ wrote \in Values[Root] \cup {None}
  /\ \A i \in DOMAIN writer_stack_ : writer_stack_[i].place \in DOMAIN heap
  /\ \A i \in DOMAIN reader_stack_ : /\ reader_stack_[i].place \in DOMAIN heap
                                     /\ reader_stack_[i].index_ \in 0 .. Size(reader_stack_[i])
  /\ op = "reading" => \A i \in DOMAIN calls : calls[i].left \in Nat

\* The context c is where the generated activation f expects it: its container and
\* its phase fit f's type, and it has as many elements left as f's loop.  The
\* context of an outer activation has already moved past the container that the
\* inner one is reading.
Agrees(f, c, inner) ==
  /\ heap[c.place].tag = TagOf(f.type)
  /\ IF Kind(f.type) # "map" THEN c.type_ = ContextOf(f.type)
     ELSE c.type_ = IF f.slot # <<>> /\ ~inner THEN "MAP_VALUE_CONTEXT" ELSE "MAP_KEY_CONTEXT"
  /\ Kind(f.type) # "struct" => f.left - (IF inner THEN 1 ELSE 0) = Size(c) - c.index_
  /\ Kind(f.type) = "struct" /\ f.slot # <<>> /\ ~inner => ~isAtEnd(c) /\ f.slot[1] = c.keys_[c.index_ + 1]

\* Between operations both stacks are empty; during one, the stack it uses mirrors
\* the activations of the generated code.  In particular the assertions of
\* ReaderContext and WriterContext (index_ < keys_.GetLength() and the like) hold.
InSync ==
  /\ op \in Idle => writer_stack_ = <<>> /\ reader_stack_ = <<>>
  /\ op = "reading" =>
       /\ Len(reader_stack_) = Len(calls) /\ writer_stack_ = <<>>
       /\ \A i \in DOMAIN calls : Agrees(calls[i], reader_stack_[i], i < Len(calls))
  /\ op = "writing" =>
       /\ Len(writer_stack_) = Len(calls) /\ reader_stack_ = <<>>
       /\ \A i \in DOMAIN calls :
            LET f == calls[i] c == writer_stack_[i]
            IN  /\ heap[c.place].tag = TagOf(f.type)
                /\ IF Kind(f.type) # "map" THEN c.type_ = ContextOf(f.type)
                   ELSE c.type_ = IF Len(f.todo) % 2 = 0 THEN "MAP_KEY_CONTEXT"
                                  ELSE "MAP_VALUE_CONTEXT"

\* What write() has written, read() reads back unchanged, and never refuses.
RoundTrip ==
  wrote # None => /\ op = "read" => result = wrote
                  /\ op # "readThrew"

\* Every operation ends.
OperationsEnd == op \in {"reading", "writing"} ~> op \in Idle \cup Threw
=============================================================================
