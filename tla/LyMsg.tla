------------------------------- MODULE LyMsg -------------------------------
(***************************************************************************)
(* class LyMsg: messages over a ring of bytes.  write() puts a header (the *)
(* flag and the length), the text and a tail computed from the length into *)
(* the ring, each with a write of its own.  read() looks for a header at   *)
(* the front, checks length and tail, and takes the message; what is not   *)
(* one is given up byte by byte until the next flag.                       *)
(*                                                                         *)
(* Module CircleBuffer shows the ring to be a FIFO of bytes between the    *)
(* two threads.  The type of a message is left out, and an int is one      *)
(* byte, but the flag is FlagLen of them: a flag can begin in one field    *)
(* and end in the next.                                                    *)
(***************************************************************************)
EXTENDS Integers, Sequences, FiniteSets, SequencesExt

CONSTANTS
  Flag,         \* the byte MSG_TAG consists of, 255; bytes are 0..Flag
  FlagLen,      \* sizeof(MSG_TAG)
  Text,         \* the texts that are written, sequences of bytes
  FirstText,    \* those that the first message may have
  RingSize,     \* m_buffer_size of the ring
  MaxExpected,  \* max_expected_len of read()
  AbandonMax,   \* what one abandon_error_data() gives up at most: 1000
  MaxMessages   \* bound: messages written

ASSUME LyMsgAssumption ==
  /\ Flag \in Nat \ {0}
  /\ FlagLen \in Nat \ {0}
  /\ Text \subseteq Seq(0..Flag) /\ FirstText \subseteq Text
  /\ \A data \in Text : Len(data) \in 1..(Flag - 2)
  /\ {RingSize, MaxExpected, AbandonMax, MaxMessages} \subseteq Nat
  /\ MaxExpected > FlagLen

VARIABLES
  ring,     \* the bytes in the ring, each with whether a message starts there
  wpc,      \* write(): "idle", "data", "tail"
  wdata,    \* argument data
  rpc,      \* read(): "idle", "body", or inside abandon_error_data(): "abandon"
  rlen,     \* msg->len
  rerror,   \* error_len
  m_using_tail, m_check_msg_version,
  sent,     \* texts whose first byte is in the ring
  written,  \* number of texts written so far
  got       \* texts that read() returned

wvars == <<wpc, wdata, written>>
rvars == <<rpc, rlen, rerror, m_using_tail, m_check_msg_version>>
vars == <<ring, wvars, rvars, sent, got>>

HeadLen == FlagLen + 1
TailLen == 1

(* The bytes of one CircleBuffer::write(), the first starting a message.   *)
Start(bytes) == [i \in DOMAIN bytes |-> [byte |-> bytes[i], start |-> i = 1]]
Bytes(bytes) == [i \in DOMAIN bytes |-> [byte |-> bytes[i], start |-> FALSE]]

Header(len) == [i \in 1..FlagLen |-> Flag] \o <<len>>

(* msg_len ^ 0xaaaaaaaa: another value for each length, never the flag.    *)
TailValue(len) == Flag - len

(* An int read from the ring: a flag where a length is expected is -1.     *)
IntAt(i) == IF ring[i].byte = Flag THEN -1 ELSE ring[i].byte

(* memcmp(&MSG_TAG, sizeof(int)) on bytes that are there.                  *)
FlagInFront(r) == \A i \in 1..FlagLen : r[i].byte = Flag

-----------------------------------------------------------------------------
Init ==
  /\ ring = <<>>
  /\ wpc = "idle" /\ wdata = <<>> /\ written = 0
  /\ rpc = "idle" /\ rlen = 0 /\ rerror = 0
  /\ m_using_tail = FALSE /\ m_check_msg_version = TRUE
  /\ sent = <<>> /\ got = <<>>

(* write(), when there is room for the whole message; nothing happens      *)
(* otherwise.                                                              *)
WriteHeader(data) ==
  /\ wpc = "idle" /\ written < MaxMessages
  /\ HeadLen + Len(data) + TailLen <= RingSize - Len(ring)
  /\ ring' = ring \o Start(Header(Len(data) + TailLen))
  /\ wpc' = "data" /\ wdata' = data /\ written' = written + 1
  /\ sent' = Append(sent, data)
  /\ UNCHANGED <<rvars, got>>

WriteData ==
  /\ wpc = "data"
  /\ Len(wdata) <= RingSize - Len(ring)
  /\ ring' = ring \o Bytes(wdata)
  /\ wpc' = "tail"
  /\ UNCHANGED <<wdata, written, rvars, sent, got>>

(* Mutant: the length of the text alone makes the tail.                    *)
WriteTailOfText ==
  /\ wpc = "tail"
  /\ ring' = ring \o Bytes(<<TailValue(Len(wdata))>>)
  /\ wpc' = "idle" /\ wdata' = <<>>
  /\ UNCHANGED <<written, rvars, sent, got>>

WriteTail ==
  /\ wpc = "tail"
  /\ Len(ring) < RingSize
  /\ ring' = ring \o Bytes(<<TailValue(Len(wdata) + TailLen)>>)
  /\ wpc' = "idle" /\ wdata' = <<>>
  /\ UNCHANGED <<written, rvars, sent, got>>

-----------------------------------------------------------------------------
(* n bytes leave the ring, and the message that starts with the first.     *)
TakeFront(n) ==
  /\ ring' = SubSeq(ring, n + 1, Len(ring))
  /\ sent' = IF Head(ring).start THEN Tail(sent) ELSE sent

HeaderInFront == rpc = "idle" /\ Len(ring) > HeadLen /\ FlagInFront(ring)

LenAccepted(len) == len > 0 /\ len <= MaxExpected - HeadLen

(* Mutant: the header stays.                                               *)
ReadBadLengthKept ==
  /\ HeaderInFront
  /\ ~LenAccepted(IntAt(HeadLen))
  /\ UNCHANGED vars

(* read() begins: a header with a length that is not one, or too much.     *)
ReadBadLength ==
  /\ HeaderInFront
  /\ ~LenAccepted(IntAt(HeadLen))
  /\ TakeFront(1)
  /\ UNCHANGED <<wvars, rvars, got>>

ReadHeader ==
  /\ HeaderInFront
  /\ LenAccepted(IntAt(HeadLen))
  /\ rlen' = IntAt(HeadLen)
  /\ rpc' = "body"
  /\ UNCHANGED <<ring, wvars, rerror, m_using_tail, m_check_msg_version, sent, got>>

(* ... or something else than a header.                                    *)
ReadNoHeader ==
  /\ rpc = "idle" /\ Len(ring) > HeadLen /\ ~FlagInFront(ring)
  /\ rpc' = "abandon" /\ rerror' = 0
  /\ UNCHANGED <<ring, wvars, rlen, m_using_tail, m_check_msg_version, sent, got>>

(* The rest of the message is not there yet.                               *)
ReadNotYet ==
  /\ rpc = "body"
  /\ Len(ring) < HeadLen + rlen
  /\ rpc' = "idle" /\ rlen' = 0
  /\ UNCHANGED <<ring, wvars, rerror, m_using_tail, m_check_msg_version, sent, got>>

(* is_advanced_msg()                                                       *)
TailMatches == ring[HeadLen + rlen].byte = TailValue(rlen)

(* The first message decides whether messages have tails.                  *)
UsingTail == IF m_check_msg_version THEN TailMatches ELSE m_using_tail

ReadMessage ==
  /\ rpc = "body"
  /\ Len(ring) >= HeadLen + rlen
  /\ ~UsingTail \/ TailMatches
  /\ m_using_tail' = UsingTail /\ m_check_msg_version' = FALSE
  /\ LET len == IF UsingTail THEN rlen - TailLen ELSE rlen
     IN  got' = Append(got, [i \in 1..len |-> ring[HeadLen + i].byte])
  /\ TakeFront(HeadLen + rlen)
  /\ rpc' = "idle" /\ rlen' = 0
  /\ UNCHANGED <<wvars, rerror>>

ReadWrongTail ==
  /\ rpc = "body"
  /\ Len(ring) >= HeadLen + rlen
  /\ UsingTail /\ ~TailMatches
  /\ m_using_tail' = UsingTail /\ m_check_msg_version' = FALSE
  /\ rpc' = "abandon" /\ rlen' = 0 /\ rerror' = 0
  /\ UNCHANGED <<ring, wvars, sent, got>>

(* Mutant: the loop goes on while there is anything.                       *)
AbandonByteToTheEnd ==
  /\ rpc = "abandon" /\ rerror < AbandonMax
  /\ TakeFront(1)
  /\ rerror' = rerror + 1
  /\ rpc' = IF ring' # <<>> THEN "abandon" ELSE "idle"
  /\ UNCHANGED <<wvars, rlen, m_using_tail, m_check_msg_version, got>>

(* abandon_error_data(): a byte is given up, and the next one while there  *)
(* are enough bytes for a flag and they are none ...                       *)
AbandonByte ==
  /\ rpc = "abandon" /\ rerror < AbandonMax
  /\ TakeFront(1)
  /\ rerror' = rerror + 1
  /\ rpc' = IF Len(ring') >= FlagLen /\ ~FlagInFront(ring') THEN "abandon" ELSE "idle"
  /\ UNCHANGED <<wvars, rlen, m_using_tail, m_check_msg_version, got>>

(* ... but no more than a buffer full in one call.                         *)
AbandonEnough ==
  /\ rpc = "abandon" /\ rerror >= AbandonMax
  /\ rpc' = "idle"
  /\ UNCHANGED <<ring, wvars, rlen, rerror, m_using_tail, m_check_msg_version, sent, got>>

-----------------------------------------------------------------------------
Writer == \/ \E data \in (IF written = 0 THEN FirstText ELSE Text) : WriteHeader(data)
          \/ WriteData \/ WriteTail

Reader == \/ ReadBadLength \/ ReadHeader \/ ReadNoHeader
          \/ ReadNotYet \/ ReadMessage \/ ReadWrongTail
          \/ AbandonByte \/ AbandonEnough

Next == Writer \/ Reader

Spec == Init /\ [][Next]_vars

(* The background thread runs, and so does a thread inside write().        *)
FairSpec == Spec /\ WF_vars(Reader) /\ WF_vars(WriteData \/ WriteTail)

-----------------------------------------------------------------------------
(* Types; the ring never holds more than fits, so that none of the three   *)
(* writes of a message is refused once the first is made; and as many      *)
(* messages start in the ring as are in sent.                              *)
TypeOK ==
  /\ ring \in Seq([byte : 0..Flag, start : BOOLEAN])
  /\ Len(ring) <= RingSize
  /\ wpc \in {"idle", "data", "tail"}
  /\ wdata \in Text \cup {<<>>}
  /\ wpc = "data" => Len(ring) + Len(wdata) + TailLen <= RingSize
  /\ wpc = "tail" => Len(ring) + TailLen <= RingSize
  /\ rpc \in {"idle", "body", "abandon"}
  /\ rlen \in 0..(MaxExpected - HeadLen)
  /\ rerror \in 0..AbandonMax
  /\ m_using_tail \in BOOLEAN /\ m_check_msg_version \in BOOLEAN
  /\ written \in 0..MaxMessages
  /\ sent \in Seq(Text)
  /\ Len(sent) = Cardinality({i \in DOMAIN ring : ring[i].start})
  /\ got \in Seq(Seq(0..Flag))

(* The one decision taken for all messages to come is the right one: they  *)
(* have tails.  Otherwise the tail of each is delivered as text.           *)
TailsAreUsed == m_check_msg_version \/ m_using_tail

(* The ring and what both sides believe of it fit each other.              *)
FramesAreSound == TypeOK /\ TailsAreUsed

(* A message leaves the ring half read only when it is too long.           *)
Channel == INSTANCE MessageChannel
             WITH queue <- sent, Longest <- MaxExpected - HeadLen - TailLen

(* read() returns the texts given to write(), whole and in order, and only *)
(* those too long for it are missing - although texts may contain flags    *)
(* or be too long and have to be skipped, possibly while they are still    *)
(* being written.                                                          *)
ChannelSpec == Channel!Spec

(* Whatever has to be skipped, each message is taken or given up.          *)
EveryMessageIsReached ==
  \A k \in 1..MaxMessages : (written >= k) ~> (written - Len(sent) >= k)

=============================================================================
