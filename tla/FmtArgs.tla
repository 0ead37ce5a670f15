------------------------------- MODULE FmtArgs -------------------------------
(***************************************************************************)
(* fmt: the arguments of a formatting call without their C++ types.        *)
(*                                                                         *)
(* A call with few arguments packs their types in one word, desc_, and has *)
(* an array of values; with many, each value has its type.  In front of    *)
(* the array is a hidden slot that refers to the names, if there are any.  *)
(* dynamic_format_arg_store collects arguments one by one, in the second   *)
(* form.  Both are looked up by index and by name.                         *)
(***************************************************************************)
EXTENDS Integers, Sequences, FiniteSetsExt

CONSTANTS
  CppTypes,         \* types of the arguments, of the domain of Mapped
  ArgNames,         \* names
  MaxArgs,          \* bound: arguments
  MaxClears,        \* bound: calls of clear()
  packed_arg_bits,  \* 4: what the number of a type fits into
  max_packed_args   \* 62 / packed_arg_bits

VARIABLES
  added,       \* the arguments pushed since the last clear(): [cpp, value, name]
  data_,       \* basic_format_arg: [type, value], or the hidden slot
  named_info_, \* [name, id]
  block,       \* the memory of named_info_, which moves as it grows
  capacity,    \* of it
  nodes,       \* dynamic_args_: the copies that are alive
  moved,       \* reserve() has moved named_info_ since the last name was added
  clears

vars == <<added, data_, named_info_, block, capacity, nodes, moved, clears>>

(* enum type, in its order.                                                *)
TypeNames == <<"none", "int", "uint", "long_long", "ulong_long", "int128", "uint128", "bool", "char",
               "float", "double", "long_double", "cstring", "string", "pointer", "custom">>
Code(type) == (CHOOSE i \in DOMAIN TypeNames : TypeNames[i] = type) - 1
TypeOf(code) == TypeNames[code + 1]

(* type_mapper: small integers are promoted, long is the 64-bit type, ...  *)
Mapped ==
  [t \in {"signed char", "short", "int", "unsigned char", "unsigned short", "unsigned", "long", "long long",
          "unsigned long", "unsigned long long", "bool", "char", "float", "double", "long double",
          "char*", "string", "string_view", "void*", "nullptr_t", "class"} |->
     CASE t \in {"signed char", "short", "int"} -> "int"
       [] t \in {"unsigned char", "unsigned short", "unsigned"} -> "uint"
       [] t \in {"long", "long long"} -> "long_long"
       [] t \in {"unsigned long", "unsigned long long"} -> "ulong_long"
       [] t \in {"bool", "char", "float", "double"} -> t
       [] t = "long double" -> "long_double"
       [] t = "char*" -> "cstring"
       [] t \in {"string", "string_view"} -> "string"
       [] t \in {"void*", "nullptr_t"} -> "pointer"
       [] t = "class" -> "custom"]

Unnamed == "unnamed"
Values == 1..MaxArgs  \* the value of an argument: told apart only
Arguments == [cpp : CppTypes, value : Values, name : ArgNames \cup {Unnamed}]

NoArg == [type |-> "none"]
Slot(a) == [type |-> Mapped[a.cpp], value |-> a.value]

-----------------------------------------------------------------------------
(* A call with the arguments as: make_descriptor(), format_arg_store and   *)
(* named_arg_store.  The words of 64 bits have their last two bits for     *)
(* flags, and the types end at least two bits below.                       *)
NamedBit == max_packed_args * packed_arg_bits + 2
PowerOfTwo[n \in 0..NamedBit] == IF n = 0 THEN 1 ELSE 2 * PowerOfTwo[n - 1]
has_named_args_bit == PowerOfTwo[NamedBit]
is_unpacked_bit == 2 * has_named_args_bit
Bit(word, bit) == (word \div bit) % 2 = 1

encode_types(as) ==
  LET from[i \in 1..(Len(as) + 1)] ==
        IF i > Len(as) THEN 0 ELSE Code(Mapped[as[i].cpp]) + from[i + 1] * PowerOfTwo[packed_arg_bits]
  IN  from[1]

(* Mutant: the index is counted up before it is stored.                    *)
NamedArgsCounted(as) ==
  LET infos[i \in 0..Len(as)] ==
        IF i = 0 THEN <<>>
        ELSE IF as[i].name = Unnamed THEN infos[i - 1]
        ELSE Append(infos[i - 1], [name |-> as[i].name, id |-> i])
  IN  infos[Len(as)]

(* init_named_arg() of each; the same name twice is an error.              *)
NamedArgs(as) ==
  LET infos[i \in 0..Len(as)] ==
        IF i = 0 THEN <<>>
        ELSE IF as[i].name = Unnamed THEN infos[i - 1]
        ELSE Append(infos[i - 1], [name |-> as[i].name, id |-> i - 1])
  IN  infos[Len(as)]
Duplicate(as) ==
  \E i, j \in DOMAIN as : i < j /\ as[i].name = as[j].name /\ as[i].name # Unnamed

IsPacked(as) == Len(as) <= max_packed_args

Store(as) ==
  [desc |-> (IF IsPacked(as) THEN encode_types(as) ELSE is_unpacked_bit + Len(as))
            + (IF NamedArgs(as) = <<>> THEN 0 ELSE has_named_args_bit),
   args |-> [i \in DOMAIN as |-> Slot(as[i])],
   named |-> NamedArgs(as)]

(* basic_format_args: an argument by index.                                *)
MaxSize(s) == IF Bit(s.desc, is_unpacked_bit) THEN s.desc % has_named_args_bit ELSE max_packed_args

PackedType(s, id) == TypeOf((s.desc \div PowerOfTwo[id * packed_arg_bits]) % PowerOfTwo[packed_arg_bits])

Get(s, id) ==
  IF Bit(s.desc, is_unpacked_bit)
  THEN IF id < MaxSize(s) THEN s.args[id + 1] ELSE NoArg
  ELSE IF id >= max_packed_args \/ PackedType(s, id) = "none" THEN NoArg
  ELSE [type |-> PackedType(s, id), value |-> s.args[id + 1].value]

(* ... and by name: the first one of that name.                            *)
GetId(s, name) ==
  LET found == {i \in DOMAIN s.named : s.named[i].name = name}
  IN  IF ~Bit(s.desc, has_named_args_bit) \/ found = {} THEN -1 ELSE s.named[Min(found)].id

GetNamed(s, name) == IF GetId(s, name) >= 0 THEN Get(s, GetId(s, name)) ELSE NoArg

-----------------------------------------------------------------------------
(* dynamic_format_arg_store.                                               *)
Init ==
  /\ added = <<>> /\ data_ = <<>> /\ named_info_ = <<>>
  /\ block = 0 /\ capacity = 0 /\ nodes = {} /\ moved = FALSE /\ clears = 0

(* need_copy: strings and classes are copied to a node, views are not.     *)
NeedCopy(cpp) == Mapped[cpp] \in {"cstring", "string", "custom"} /\ cpp # "string_view"

Node == IF nodes = {} THEN 1 ELSE Max(nodes) + 1
Stored(a) == IF NeedCopy(a.cpp) THEN [type |-> Mapped[a.cpp], value |-> a.value, node |-> Node] ELSE Slot(a)
StringOf(a) == IF a.cpp = "char*" THEN [a EXCEPT !.cpp = "string"] ELSE a  \* stored_t

PushBack(a) ==
  /\ a.name = Unnamed /\ Len(added) < MaxArgs
  /\ added' = Append(added, a)
  /\ data_' = Append(data_, Stored(StringOf(a)))
  /\ nodes' = nodes \cup (IF NeedCopy(a.cpp) THEN {Node} ELSE {})
  /\ UNCHANGED <<named_info_, block, capacity, moved, clears>>

Hidden(b, size) == [type |-> "none", block |-> b, size |-> size]

(* named_info_.push_back(): it moves to a larger block if it is full.      *)
Grown == Len(named_info_) = capacity

(* emplace_arg(named_arg): the first one puts the hidden slot in front.    *)
(* The copy of the name is a node that nothing here distinguishes.         *)
EmplaceNamed(a, id, hidden) ==
  LET slots == IF named_info_ = <<>> THEN <<Hidden(0, 0)>> \o data_ ELSE data_
  IN  /\ a.name # Unnamed /\ Len(added) < MaxArgs
      /\ added' = Append(added, a)
      /\ nodes' = nodes \cup (IF NeedCopy(a.cpp) THEN {Node} ELSE {})
      /\ named_info_' = Append(named_info_, [name |-> a.name, id |-> id])
      /\ block' = IF Grown THEN block + 1 ELSE block
      /\ capacity' = IF Grown THEN Max({1, 2 * capacity}) ELSE capacity
      /\ data_' = Append([slots EXCEPT ![1] = Hidden(hidden, Len(named_info_) + 1)], Stored(StringOf(a)))
      /\ moved' = FALSE
      /\ UNCHANGED clears

(* The id does not count the hidden slot.                                  *)
IdOfNext == Len(data_) + (IF named_info_ = <<>> THEN 1 ELSE 0) + 1 - 2

(* Mutant: the hidden slot refers to the block before it grew.             *)
PushBackNamedStale(a) == EmplaceNamed(a, IdOfNext, block)

(* Mutant: the argument itself is not counted yet.                         *)
PushBackNamedShifted(a) == EmplaceNamed(a, IdOfNext - 1, IF Grown THEN block + 1 ELSE block)

PushBackNamed(a) == EmplaceNamed(a, IdOfNext, IF Grown THEN block + 1 ELSE block)

Clear ==
  /\ clears < MaxClears
  /\ added' = <<>> /\ data_' = <<>> /\ named_info_' = <<>> /\ nodes' = {} /\ moved' = FALSE
  /\ clears' = clears + 1
  /\ UNCHANGED <<block, capacity>>

(* reserve(): named_info_ moves to a block of the size asked for if it is  *)
(* smaller, and the hidden slot is left as it is.  That data_ moves makes  *)
(* no difference: nothing refers to its elements between two calls.        *)
Reserve ==
  /\ \E new_cap_named \in 0..MaxArgs : new_cap_named > capacity /\ capacity' = new_cap_named
  /\ block' = block + 1
  /\ moved' = (moved \/ named_info_ # <<>>)
  /\ UNCHANGED <<added, data_, named_info_, nodes, clears>>

NextArguments == {a \in Arguments : a.value = Len(added) + 1}

Next == \/ \E a \in NextArguments : PushBack(a)
        \/ \E a \in NextArguments : PushBackNamed(a)
        \/ Clear
        \/ Reserve

Spec == Init /\ [][Next]_vars

-----------------------------------------------------------------------------
(* The arguments of the dynamic store as a call gets them: the array       *)
(* begins after the hidden slot, the count is data_.size().                *)
Dynamic(names) ==
  [desc |-> is_unpacked_bit + Len(data_) + (IF named_info_ = <<>> THEN 0 ELSE has_named_args_bit),
   args |-> IF named_info_ = <<>> THEN data_ ELSE Tail(data_),
   named |-> names]

(* The names a lookup may see: those the hidden slot refers to, anything   *)
(* if named_info_ has left that memory.                                    *)
NamesSeen ==
  IF named_info_ = <<>> THEN {<<>>}
  ELSE IF data_[1].block = block THEN {SubSeq(named_info_, 1, data_[1].size)}
  ELSE [1..data_[1].size -> [name : ArgNames, id : 0..MaxArgs]]

(* What a lookup is to find.                                               *)
Added(id) == IF id + 1 \in DOMAIN added THEN Slot(added[id + 1]) ELSE NoArg
FirstOf(name) ==
  LET of == {i \in DOMAIN added : added[i].name = name}
  IN  IF of = {} THEN NoArg ELSE Slot(added[Min(of)])
Content(slot) == IF slot.type = "none" THEN NoArg
                 ELSE [type |-> slot.type, value |-> slot.value]

(* A type that is copied as a string is found as one.                      *)
AsString(slot) == IF slot.type = "cstring" THEN [slot EXCEPT !.type = "string"] ELSE slot

TypeOK ==
  /\ added \in Seq(Arguments)
  /\ \A i \in DOMAIN named_info_ : named_info_[i].name \in ArgNames /\ named_info_[i].id \in 0..(Len(added) - 1)
  /\ Len(data_) = Len(added) + (IF named_info_ = <<>> THEN 0 ELSE 1)
  /\ nodes \subseteq 1..MaxArgs /\ moved \in BOOLEAN

(* The hidden slot is there if there are names, and refers to all of them  *)
(* where they are now, not to memory they have left, except between a      *)
(* reserve() that moves them and the next name.                            *)
HiddenSlotIsFresh == named_info_ # <<>> /\ ~moved => data_[1] = Hidden(block, Len(named_info_))

(* A call with the arguments added so far finds each by its index, finds   *)
(* nothing past the last one, packed or not, and finds a name.             *)
CallFindsArguments ==
  Duplicate(added) \/
    LET s == Store(added)
    IN  /\ \A id \in 0..(MaxArgs + 2) : Get(s, id) = Added(id)
        /\ \A n \in ArgNames : GetNamed(s, n) = FirstOf(n)

(* The count includes the hidden slot: the index one past the last is      *)
(* taken for that of an argument, and read past the end of data_.          *)
PastTheEnd(id) == named_info_ # <<>> /\ id = Len(added)

(* The dynamic store gives the same answers, whether names came first,     *)
(* last, between the others or not at all: by index, but for the one past  *)
(* the last if there are names, and by name, unless reserve() has moved    *)
(* the names under the hidden slot.                                        *)
StoreFindsArguments ==
  /\ \A id \in 0..(MaxArgs + 2) : ~PastTheEnd(id) => Content(Get(Dynamic(<<>>), id)) = AsString(Added(id))
  /\ ~moved => \A names \in NamesSeen : \A n \in ArgNames :
                  Content(GetNamed(Dynamic(names), n)) = AsString(FirstOf(n))

(* No slot refers to a copy that has been freed.                           *)
CopiesAreAlive == \A i \in DOMAIN data_ : "node" \in DOMAIN data_[i] => data_[i].node \in nodes

(* What the store refers to is alive and where it was.                     *)
Inv == TypeOK /\ HiddenSlotIsFresh /\ CopiesAreAlive

=============================================================================
