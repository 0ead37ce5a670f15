------------------------------ MODULE Registry ------------------------------
(***************************************************************************)
(* m_thread_log_buffer: the buffers of the threads by thread id.  Each     *)
(* add() and flush() of a thread searches the map for the thread's buffer  *)
(* without the lock; a thread that finds none inserts one under it.  The   *)
(* background thread walks over the map without the lock too.              *)
(*                                                                         *)
(* A search or a step of the walk during which another thread inserts is a *)
(* data race on the nodes of the tree: it may miss what is there (it is    *)
(* not taken to crash).                                                    *)
(* The operating system may give the id of a thread that ended to another; *)
(* here they are one thread, and so they are to the map.                   *)
(***************************************************************************)
EXTENDS Integers, Sequences, FiniteSets, FiniteSetsExt, Functions

CONSTANTS
  Thread,      \* thread ids, integers
  MaxLines     \* bound: lines of each thread

ASSUME RegistryAssumption ==
  /\ Thread \subseteq Nat \ {0} /\ IsFiniteSet(Thread)
  /\ MaxLines \in [Thread -> Nat]

VARIABLES
  m_thread_log_buffer,  \* from ids to buffers, these being numbers
  m_mutex_buffer,       \* the thread inside the locked part, or 0
  tree,                 \* the map as a thread that inserts found it
  current, ring,        \* of each buffer: m_current_log, and what was flushed
  pc,                   \* "idle", "finding", "missed", "inserting"
  op,                   \* what the search is for: "add" or "flush"
  line,                 \* number of lines the thread began
  overlapped,           \* another thread inserted during the search
  bpc,                  \* background thread: "test", "next", "reading"
  bat,                  \* the id its walk is at, 0 before the first
  boverlapped,          \* a thread inserted during the step of the walk
  saved                 \* lines written to the file, of each thread

mapvars == <<m_thread_log_buffer, m_mutex_buffer, tree>>
bufvars == <<current, ring>>
thrvars == <<pc, op, line, overlapped>>
bgvars == <<bpc, bat, boverlapped, saved>>
vars == <<mapvars, bufvars, thrvars, bgvars>>

Registered == DOMAIN m_thread_log_buffer
Buffers == DOMAIN current

-----------------------------------------------------------------------------
Init ==
  /\ m_thread_log_buffer = <<>> /\ m_mutex_buffer = 0 /\ tree = <<>>
  /\ current = <<>> /\ ring = <<>>
  /\ pc = [t \in Thread |-> "idle"] /\ op = [t \in Thread |-> "flush"]
  /\ line = [t \in Thread |-> 0] /\ overlapped = [t \in Thread |-> FALSE]
  /\ bpc = "test" /\ bat = 0 /\ boverlapped = FALSE
  /\ saved = [t \in Thread |-> <<>>]

(* What add() or flush() does to the buffer b, the search being over.      *)
Operate(t, b, cur, rng) ==
  IF op[t] = "add"
  THEN current' = [cur EXCEPT ![b] = Append(@, <<t, line[t]>>)] /\ ring' = rng
  ELSE /\ current' = [cur EXCEPT ![b] = <<>>]
       /\ ring' = [rng EXCEPT ![b] = @ \o cur[b]]

(* A thread adds the text of its next line, then flushes it: each time it  *)
(* searches, as get_log_buffer_by_id() begins.                             *)
FindBegin(t) ==
  /\ pc[t] = "idle"
  /\ IF op[t] = "add"
     THEN op' = [op EXCEPT ![t] = "flush"] /\ UNCHANGED line
     ELSE /\ line[t] < MaxLines[t]
          /\ op' = [op EXCEPT ![t] = "add"] /\ line' = [line EXCEPT ![t] = @ + 1]
  /\ pc' = [pc EXCEPT ![t] = "finding"]
  /\ overlapped' = [overlapped EXCEPT ![t] = FALSE]
  /\ UNCHANGED <<mapvars, bufvars, bgvars>>

(* Mutant: lower_bound() instead of find().                                *)
FoundLowerBound(t) ==
  /\ pc[t] = "finding"
  /\ {i \in Registered : i >= t} # {}
  /\ Operate(t, m_thread_log_buffer[Min({i \in Registered : i >= t})], current, ring)
  /\ pc' = [pc EXCEPT ![t] = "idle"]
  /\ UNCHANGED <<mapvars, op, line, overlapped, bgvars>>

Found(t) ==
  /\ pc[t] = "finding"
  /\ t \in Registered
  /\ Operate(t, m_thread_log_buffer[t], current, ring)
  /\ pc' = [pc EXCEPT ![t] = "idle"]
  /\ UNCHANGED <<mapvars, op, line, overlapped, bgvars>>

NotFound(t) ==
  /\ pc[t] = "finding"
  /\ t \in Registered => overlapped[t]
  /\ pc' = [pc EXCEPT ![t] = "missed"]
  /\ UNCHANGED <<mapvars, bufvars, op, line, overlapped, bgvars>>

(* Under the lock a new buffer is entered in the map ...                   *)
InsertBegin(t) ==
  /\ pc[t] = "missed"
  /\ m_mutex_buffer = 0
  /\ m_mutex_buffer' = t
  /\ tree' = m_thread_log_buffer
  /\ pc' = [pc EXCEPT ![t] = "inserting"]
  /\ UNCHANGED <<m_thread_log_buffer, bufvars, op, line, overlapped, bgvars>>

NewBuffer == Len(current) + 1

(* Mutant: a buffer that is already there is replaced.                     *)
InsertEndReplacing(t) ==
  /\ pc[t] = "inserting"
  /\ m_thread_log_buffer' = [i \in DOMAIN tree \cup {t} |-> IF i = t THEN NewBuffer ELSE tree[i]]
  /\ overlapped' = [i \in Thread |-> overlapped[i] \/ i # t]
  /\ boverlapped' = TRUE
  /\ Operate(t, NewBuffer, Append(current, <<>>), Append(ring, <<>>))
  /\ m_mutex_buffer' = 0
  /\ pc' = [pc EXCEPT ![t] = "idle"]
  /\ UNCHANGED <<tree, op, line, bpc, bat, saved>>

(* ... unless the map has one for the thread, in which case insert() does  *)
(* not change it; the caller is given the new buffer in both cases.        *)
InsertEnd(t) ==
  /\ pc[t] = "inserting"
  /\ IF t \in DOMAIN tree
     THEN UNCHANGED <<m_thread_log_buffer, overlapped, boverlapped>>
     ELSE /\ m_thread_log_buffer' =
               [i \in DOMAIN tree \cup {t} |-> IF i = t THEN NewBuffer ELSE tree[i]]
          /\ overlapped' = [i \in Thread |-> overlapped[i] \/ i # t]
          /\ boverlapped' = TRUE
  /\ Operate(t, NewBuffer, Append(current, <<>>), Append(ring, <<>>))
  /\ m_mutex_buffer' = 0
  /\ pc' = [pc EXCEPT ![t] = "idle"]
  /\ UNCHANGED <<tree, op, line, bpc, bat, saved>>

-----------------------------------------------------------------------------
(* save_log_file(): the walk begins unless the map is empty ...            *)
WalkBegin ==
  /\ bpc = "test"
  /\ Registered # {}
  /\ bpc' = "next" /\ bat' = 0 /\ boverlapped' = FALSE
  /\ UNCHANGED <<mapvars, bufvars, thrvars, saved>>

After == {i \in Registered : i > bat}

(* ... goes on to the next buffer, ...                                     *)
WalkNext ==
  /\ bpc = "next"
  /\ \E i \in After :
       /\ i = Min(After) \/ boverlapped
       /\ bat' = i
  /\ bpc' = "reading"
  /\ UNCHANGED <<mapvars, bufvars, thrvars, boverlapped, saved>>

(* Mutant: the walk stops at the first buffer.                             *)
WalkEndEarly ==
  /\ bpc = "next"
  /\ bat # 0
  /\ bpc' = "test"
  /\ UNCHANGED <<mapvars, bufvars, thrvars, bat, boverlapped, saved>>

WalkEnd ==
  /\ bpc = "next"
  /\ After = {} \/ boverlapped
  /\ bpc' = "test"
  /\ UNCHANGED <<mapvars, bufvars, thrvars, bat, boverlapped, saved>>

(* Mutant: the newest message is taken.                                    *)
WalkReadNewest ==
  /\ bpc = "reading"
  /\ LET b == m_thread_log_buffer[bat]
         n == Len(ring[b])
     IN  IF n = 0 THEN UNCHANGED <<ring, saved>>
         ELSE /\ ring' = [ring EXCEPT ![b] = SubSeq(@, 1, n - 1)]
              /\ saved' = [saved EXCEPT ![bat] = Append(@, ring[b][n])]
  /\ bpc' = "next" /\ boverlapped' = FALSE
  /\ UNCHANGED <<mapvars, current, thrvars, bat>>

(* ... and takes a message from it, if there is one.                       *)
WalkRead ==
  /\ bpc = "reading"
  /\ LET b == m_thread_log_buffer[bat]
     IN  IF ring[b] = <<>> THEN UNCHANGED <<ring, saved>>
         ELSE /\ ring' = [ring EXCEPT ![b] = Tail(@)]
              /\ saved' = [saved EXCEPT ![bat] = Append(@, Head(ring[b]))]
  /\ bpc' = "next" /\ boverlapped' = FALSE
  /\ UNCHANGED <<mapvars, current, thrvars, bat>>

-----------------------------------------------------------------------------
get_log_buffer_by_id(t) ==
  FindBegin(t) \/ Found(t) \/ NotFound(t) \/ InsertBegin(t) \/ InsertEnd(t)

Walk == WalkBegin \/ WalkNext \/ WalkEnd \/ WalkRead

Next == (\E t \in Thread : get_log_buffer_by_id(t)) \/ Walk

Spec == Init /\ [][Next]_vars

(* The background thread runs, and so does a thread that holds the lock.   *)
FairSpec == Spec /\ WF_vars(Walk) /\ \A t \in Thread : WF_vars(InsertEnd(t))

-----------------------------------------------------------------------------
Line == UNION {{t} \X (1..MaxLines[t]) : t \in Thread}

(* Types; the lock is held by the one thread that inserts, and what it     *)
(* found in the map is still what is there.                                *)
TypeOK ==
  /\ Registered \subseteq Thread
  /\ \A t \in Registered : m_thread_log_buffer[t] \in Buffers
  /\ m_mutex_buffer \in Thread \cup {0}
  /\ \A t \in Thread : pc[t] = "inserting" <=> m_mutex_buffer = t
  /\ m_mutex_buffer # 0 => tree = m_thread_log_buffer
  /\ current \in Seq(Seq(Line)) /\ ring \in Seq(Seq(Line))
  /\ Len(ring) = Len(current)
  /\ pc \in [Thread -> {"idle", "finding", "missed", "inserting"}]
  /\ op \in [Thread -> {"add", "flush"}]
  /\ \A t \in Thread : line[t] \in 0..MaxLines[t]
  /\ overlapped \in [Thread -> BOOLEAN]
  /\ bpc \in {"test", "next", "reading"}
  /\ bat \in Registered \cup {0}
  /\ boverlapped \in BOOLEAN
  /\ saved \in [Thread -> Seq(Line)]

(* Two threads never have one buffer, so that each ring has one writer.    *)
OneWriterPerRing ==
  \A b \in Buffers : \A x, y \in Range(current[b] \o ring[b]) : x[1] = y[1]

(* The lines of a thread are written in order and once, even if one went   *)
(* to a buffer that is not in the map, or the walk missed buffers.         *)
SavedInOrder ==
  \A t \in Thread : \A i, j \in DOMAIN saved[t] : i < j => saved[t][i][2] < saved[t][j][2]

(* The map, the lock and the file fit each other.                          *)
SavedAndLocked == TypeOK /\ SavedInOrder

(* Buffers nobody reads, with the text in them.                            *)
Orphans == Buffers \ {m_thread_log_buffer[t] : t \in Registered}

(* A search that misses a buffer makes the thread insert another, which is *)
(* not entered.  The damage is bounded however long the threads log: an    *)
(* insertion can spoil one search of each thread that is in the map.       *)
OrphansAreFew ==
  LET N == Cardinality(Thread) IN Cardinality(Orphans) <= (N * (N - 1)) \div 2

(* What is flushed to a buffer in the map is written, although walks may   *)
(* miss the buffer while others are inserted.                              *)
Unread(t, l) == t \in Registered /\ l \in Range(ring[m_thread_log_buffer[t]])

EveryBufferIsRead ==
  \A t \in Thread : \A k \in 1..MaxLines[t] :
    Unread(t, <<t, k>>) ~> <<t, k>> \in Range(saved[t])

=============================================================================
