--------------------------- MODULE MCCircleBuffer ---------------------------
(***************************************************************************)
(* Instances of CircleBuffer and CircleBufferOps for TLC.  A behaviour     *)
(* exercises a ring in one of two ways: two threads share it, or one       *)
(* thread makes every call of the class.                                   *)
(***************************************************************************)
EXTENDS CircleBuffer

CONSTANTS Sizes, MaxBlock
VARIABLES allocated, m_buffer_size, result

Ops == INSTANCE CircleBufferOps

(* memcmp() subtracts bytes, so they are numbers.                          *)
ASSUME OpsAssumption == /\ Byte \subseteq Nat /\ 0 \in Byte
                        /\ Sizes \subseteq Nat \ {0}
                        /\ MaxBlock \in Nat

allvars == <<vars, allocated, m_buffer_size, result>>

(* The ring is allocated, once, before the threads begin.                  *)
ThreadsInit == Init /\ allocated = TRUE /\ m_buffer_size = BufferSize /\ result = 0
ThreadsNext == Next /\ UNCHANGED <<allocated, m_buffer_size, result>>
TwoThreads == ThreadsInit /\ [][ThreadsNext]_allvars

CallsInit == /\ Ops!Init
             /\ wpc = "idle" /\ wsaw = 0 /\ wsrc = <<>> /\ wtail = 0 /\ wdone = 0
             /\ rpc = "idle" /\ rop = "read" /\ rsaw = 0 /\ rcount = 0
             /\ rhead = 0 /\ rtail = 0 /\ rdest = <<>>
CallsNext == Ops!Next /\ UNCHANGED <<wvars, rvars>>
OneThread == CallsInit /\ [][CallsNext]_allvars

(* CircleBufferOps: whatever was called before, memcmp(), memcpy(),        *)
(* operator[], strstr() and the lengths answer for the contents.           *)
LookupsAreSound == Ops!LookupsAreSound

(* CircleBufferOps: the contents change as those of a queue do.            *)
QueueStep == Ops!QueueStep
=============================================================================
