----------------------------- MODULE MCFmtStores -----------------------------
(***************************************************************************)
(* Instances of FmtArgs and FmtBuffer for TLC: what a formatting call      *)
(* reads its arguments from and what it writes to.  The two share nothing, *)
(* and one behaviour exercises one of them.                                *)
(***************************************************************************)
EXTENDS Integers, Sequences

CONSTANTS CppTypes, ArgNames, MaxArgs, MaxClears, packed_arg_bits, max_packed_args,
          Kinds, BufferSize, Limits, MaxChars, MaxAtOnce, NotLimited, AllocMax

VARIABLES part, \* "args" or "buffer"
          added, data_, named_info_, block, nodes, moved, clears,
          kind, limit, data, inplace, dest, count, rest, reserved, next, pc,
          capacity  \* of the names, or of the buffer

argvars == <<added, data_, named_info_, block, nodes, moved, clears>>
bufvars == <<kind, limit, data, inplace, dest, count, rest, reserved, next, pc>>
vars == <<part, argvars, bufvars, capacity>>

Args == INSTANCE FmtArgs
Buffer == INSTANCE FmtBuffer

ASSUME TypesFitTheirBits == /\ packed_arg_bits \in Nat /\ Args!PowerOfTwo[packed_arg_bits] >= 16
                            /\ max_packed_args \in Nat /\ max_packed_args >= 1
ASSUME BufferAssumption == /\ Kinds \subseteq {"memory", "container", "iterator", "limited", "array", "pointer", "counting"}
                           /\ BufferSize \in Nat \ {0} /\ Limits \subseteq Nat /\ AllocMax \in Nat
                           /\ MaxChars \in Nat /\ MaxAtOnce \in Nat
                           /\ NotLimited \in Nat /\ NotLimited > MaxChars + MaxAtOnce
ASSUME ArgsAssumption == /\ CppTypes \subseteq DOMAIN Args!Mapped /\ Args!Unnamed \notin ArgNames /\ MaxArgs \in Nat
                         /\ MaxArgs + 1 < Args!has_named_args_bit

NoArgs == added = <<>> /\ data_ = <<>> /\ named_info_ = <<>> /\ block = 0 /\ nodes = {} /\ clears = 0 /\ moved = FALSE
NoBuffer == /\ kind = "none" /\ limit = 0 /\ data = <<>> /\ inplace = FALSE /\ dest = <<>> /\ count = 0
            /\ rest = <<>> /\ reserved = 0 /\ next = 1 /\ pc = "closed"

Init == \/ part = "args" /\ Args!Init /\ NoBuffer
        \/ part = "buffer" /\ Buffer!Init /\ NoArgs

ArgsStep == part = "args" /\ Args!Next /\ UNCHANGED <<part, bufvars>>
BufferStep == part = "buffer" /\ Buffer!Next /\ UNCHANGED <<part, argvars>>
Next == ArgsStep \/ BufferStep

Spec == Init /\ [][Next]_vars /\ WF_vars(part = "buffer" /\ Buffer!CopySome /\ UNCHANGED <<part, argvars>>)

(* FmtArgs: what the dynamic store refers to is alive and where it was.    *)
StoreIsSound == part = "args" => Args!Inv

(* FmtArgs: each argument is found by its index and its name, in a call    *)
(* with few or many arguments and in the dynamic store.                    *)
CallFindsArguments == part = "args" => Args!CallFindsArguments
StoreFindsArguments == part = "args" => Args!StoreFindsArguments

(* FmtBuffer: nothing is lost, repeated or out of order, and the caller    *)
(* finds all of it.                                                        *)
NothingIsLost == part = "buffer" => Buffer!Inv

(* FmtBuffer: append() comes to an end.                                    *)
AppendEnds == Buffer!AppendEnds
=============================================================================
