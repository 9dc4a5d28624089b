--------------------------- MODULE LoRaSplitProofs ---------------------------
(***************************************************************************)
(* The reassembly buffer stays in bounds for every number of senders whose *)
(* frames interleave, every set of packet lengths up to HW_MTU and every   *)
(* pattern of loss.  BufferBounded is not inductive: that the second half  *)
(* is the last one rests on the buffer holding exactly one part while a    *)
(* sequence number is set, which is OnePartWhileOpen.                      *)
(***************************************************************************)
EXTENDS LoRaSplit, SequenceTheorems, TLAPS

OnePartWhileOpen == rx_seq # SEQ_UNSET => Len(buffer) = 1

SplitInv ==
  /\ TypeOK
  /\ Len(buffer) <= 2
  /\ Len(deliv) <= 2
  /\ OnePartWhileOpen

\* A frame never carries more than LORA_MAX_PAYLOAD bytes (send_outgoing:363-401).
LEMMA PartLenBounded ==
  ASSUME NEW p \in Packet, NEW i \in 1..2
  PROVE  PartLen(p, i) \in 0..LORA_MAX_PAYLOAD
<1>1. p.len \in 0..508
  BY SplitAssumption DEF Packet, HW_MTU
<1>2. QED
  BY <1>1 DEF PartLen, Parts, LORA_MAX_PAYLOAD

\* Both framings are sequences of frames, and the masked counter fits its field.
LEMMA FramesTyped ==
  ASSUME NEW p \in Packet, NEW c \in 0..255
  PROVE  /\ Single(p) \in Seq(Frame)
         /\ SplitInTwo(p, c) \in Seq(Frame)
<1>1. c % 8 \in 0..7
  OBVIOUS
<1>2. [split |-> FALSE, seq |-> 0, pkt |-> p, part |-> 1] \in Frame
  BY DEF Frame, HEADER_SEQ_MASK
<1>3. Single(p) \in Seq(Frame)
  BY <1>2 DEF Single
<1>4. \A i \in 1..2 : [split |-> TRUE, seq |-> c % 8, pkt |-> p, part |-> i] \in Frame
  BY <1>1 DEF Frame, HEADER_SEQ_MASK
<1>5. SplitInTwo(p, c) \in [1..2 -> Frame]
  BY <1>4 DEF SplitInTwo, HEADER_SEQ_MASK
<1>6. 2 \in Nat
  OBVIOUS
<1>7. SplitInTwo(p, c) \in Seq(Frame)
  <2>1. [1..2 -> Frame] \in {[1..n -> Frame] : n \in Nat}
    BY <1>6, Zenon
  <2>2. SplitInTwo(p, c) \in UNION {[1..n -> Frame] : n \in Nat}
    BY <1>5, <2>1, Zenon
  <2>3. QED
    BY <2>2, SeqDef, Zenon
<1>8. QED
  BY <1>3, <1>7

\* The states the program starts in are typed and hold no part.
LEMMA SplitInit == Init => SplitInv
<1> SUFFICES ASSUME Init PROVE SplitInv
  OBVIOUS
<1>1. (CHOOSE n \in Lens : TRUE) \in Lens
  BY SplitAssumption
<1>2. \A s \in Senders :
        [src |-> s, id |-> 0, len |-> CHOOSE n \in Lens : TRUE] \in Packet
  BY <1>1, SplitAssumption DEF Packet
<1>3. packet \in [Senders -> Packet]
  BY <1>2 DEF Init
<1>4. TypeOK
  BY <1>3, SplitAssumption DEF Init, TypeOK
<1>5. QED
  BY <1>4 DEF Init, SplitInv, OnePartWhileOpen

\* A packet is given to send_outgoing.
LEMMA SendKeeps ==
  ASSUME SplitInv, NEW s \in Senders, NEW n \in Lens, send_outgoing(s, n)
  PROVE  SplitInv'
<1> DEFINE p == [src |-> s, id |-> packet[s].id + 1, len |-> n]
<1>1. packet[s] \in Packet /\ tx_seq_ctr[s] \in 0..255
  BY DEF SplitInv, TypeOK
<1>2. packet[s].id + 1 \in 0..MaxPackets
  BY <1>1, SplitAssumption DEF send_outgoing, Packet
<1>3. p \in Packet
  BY <1>2 DEF Packet
<1>4. packet' \in [Senders -> Packet]
  BY <1>3 DEF send_outgoing, SplitInv, TypeOK
<1>5. Single(p) \in Seq(Frame) /\ SplitInTwo(p, tx_seq_ctr[s]) \in Seq(Frame)
  BY <1>1, <1>3, FramesTyped
<1>6. /\ out' \in [Senders -> Seq(Frame)]
      /\ tx_seq_ctr' \in [Senders -> 0..255]
  <2>1. CASE /\ out' = [out EXCEPT ![s] = Single(p)]
             /\ UNCHANGED tx_seq_ctr
    BY <1>5, <2>1 DEF SplitInv, TypeOK
  <2>2. CASE /\ out' = [out EXCEPT ![s] = SplitInTwo(p, tx_seq_ctr[s])]
             /\ tx_seq_ctr' = [tx_seq_ctr EXCEPT ![s] = (@ + 1) % 256]
    <3>1. (tx_seq_ctr[s] + 1) % 256 \in 0..255
      BY <1>1
    <3>2. QED
      BY <1>5, <2>2, <3>1 DEF SplitInv, TypeOK
  <2>3. QED
    BY <2>1, <2>2 DEF send_outgoing
<1>7. heard' \in [Senders -> SUBSET (1..2)]
  BY DEF send_outgoing, SplitInv, TypeOK
<1>8. QED
  BY <1>4, <1>6, <1>7
  DEF send_outgoing, rx, SplitInv, TypeOK, OnePartWhileOpen

\* A frame is read by the receiver.
LEMMA ReadKeeps ==
  ASSUME SplitInv, NEW s \in Senders, FrameRead(s)
  PROVE  SplitInv'
<1> DEFINE f == Head(out[s])
<1> DEFINE b == [pkt |-> f.pkt, part |-> f.part]
<1>1. out[s] \in Seq(Frame) /\ out[s] # << >>
  BY DEF SplitInv, TypeOK, FrameRead
<1>2. f \in Frame /\ Tail(out[s]) \in Seq(Frame)
  BY <1>1
<1>3. b \in Part /\ f.part \in 1..2 /\ f.seq \in 0..7
  BY <1>2 DEF Frame, Part, HEADER_SEQ_MASK
<1>4. /\ out' \in [Senders -> Seq(Frame)]
      /\ heard' \in [Senders -> SUBSET (1..2)]
  <2>1. heard[s] \cup {f.part} \in SUBSET (1..2)
    BY <1>3 DEF SplitInv, TypeOK
  <2>2. QED
    BY <1>2, <2>1 DEF SplitInv, TypeOK, FrameRead
<1>5. buffer \in Seq(Part) /\ deliv \in Seq(Part) /\ rx_seq \in (0..7) \cup {255}
  BY DEF SplitInv, TypeOK, HEADER_SEQ_MASK, SEQ_UNSET
<1>6. /\ rx_seq' \in (0..7) \cup {255}
      /\ buffer' \in Seq(Part) /\ Len(buffer') <= 2
      /\ deliv' \in Seq(Part) /\ Len(deliv') <= 2
      /\ rx_seq' # 255 => Len(buffer') = 1
      /\ burst' \in 0..MaxBurst
  <2>1. CASE HeaderOnly(f)
    BY <2>1, <1>5 DEF HeaderOnly, SplitInv, TypeOK, OnePartWhileOpen, SEQ_UNSET
  <2>2. CASE FirstPart(f) /\ burst' = 0
    BY <2>2, <1>3, <1>5, SplitAssumption DEF FirstPart, SplitInv
  <2>3. CASE SecondPart(f) /\ burst' = 0
    <3>1. rx_seq # 255
      BY <2>3, <1>3 DEF SecondPart
    <3>2. Len(buffer) = 1
      BY <3>1 DEF SplitInv, OnePartWhileOpen, SEQ_UNSET
    <3>3. Append(buffer, b) \in Seq(Part) /\ Len(Append(buffer, b)) = 2
      <4>1. b \in Part
        BY <1>3
      <4> HIDE DEF b
      <4>2. /\ Append(buffer, b) \in Seq(Part)
            /\ Len(Append(buffer, b)) = Len(buffer) + 1
        BY <1>5, <4>1, AppendProperties, Zenon
      <4>3. QED
        BY <3>2, <4>2
    <3>4. QED
      BY <2>3, <3>3, SplitAssumption DEF SecondPart, SEQ_UNSET
  <2>4. CASE WholePacket(f) /\ burst' = 0
    BY <2>4, <1>3, SplitAssumption DEF WholePacket, SEQ_UNSET
  <2>5. QED
    BY <2>1, <2>2, <2>3, <2>4 DEF FrameRead
<1>7. UNCHANGED <<tx_seq_ctr, packet, online>>
  BY DEF FrameRead
<1>8. TypeOK'
  BY <1>4, <1>6, <1>7 DEF SplitInv, TypeOK, HEADER_SEQ_MASK, SEQ_UNSET
<1>9. QED
  BY <1>6, <1>8 DEF SplitInv, OnePartWhileOpen, SEQ_UNSET

\* Every step keeps the invariant.
LEMMA SplitStep == SplitInv /\ [Next]_vars => SplitInv'
<1> SUFFICES ASSUME SplitInv, [Next]_vars PROVE SplitInv'
  OBVIOUS
<1>1. ASSUME NEW s \in Senders, NEW n \in Lens, send_outgoing(s, n) PROVE SplitInv'
  BY <1>1, SendKeeps
<1>2. ASSUME NEW s \in Senders, FrameLost(s) PROVE SplitInv'
  <2>1. Tail(out[s]) \in Seq(Frame) /\ burst + 1 \in 0..MaxBurst
    BY <1>2, SplitAssumption DEF FrameLost, SplitInv, TypeOK
  <2>2. QED
    BY <1>2, <2>1 DEF FrameLost, rx, SplitInv, TypeOK, OnePartWhileOpen
<1>3. ASSUME NEW s \in Senders, FrameRead(s) PROVE SplitInv'
  BY <1>3, ReadKeeps
<1>4. ASSUME stop \/ start PROVE SplitInv'
  BY <1>4 DEF stop, start, SplitInv, TypeOK, OnePartWhileOpen
<1>5. CASE UNCHANGED vars
  BY <1>5 DEF vars, SplitInv, TypeOK, OnePartWhileOpen
<1>6. QED
  BY <1>1, <1>2, <1>3, <1>4, <1>5 DEF Next

\* One or two parts are at most HW_MTU bytes.
LEMMA PartsBounded ==
  ASSUME NEW b \in Seq(Part), Len(b) = 1 \/ Len(b) = 2
  PROVE  Bytes(b) <= HW_MTU
<1>1. ASSUME NEW i \in 1..Len(b) PROVE PartLen(b[i].pkt, b[i].part) \in 0..254
  <2>1. b[i] \in Part
    BY ElementOfSeq
  <2>2. b[i].pkt \in Packet /\ b[i].part \in 1..2
    BY <2>1 DEF Part
  <2>3. QED
    BY <2>2, PartLenBounded DEF LORA_MAX_PAYLOAD
<1>2. 1 \in 1..Len(b)
  OBVIOUS
<1>3. PartLen(b[1].pkt, b[1].part) \in 0..254
  BY <1>1, <1>2
<1> DEFINE Small(x) == x \in 0..254
<1>s. \A x, y : Small(x) /\ Small(y) => x <= 508 /\ x + y <= 508
  OBVIOUS
<1>4. CASE Len(b) = 1
  <2>1. Bytes(b) = PartLen(b[1].pkt, b[1].part)
    BY <1>4 DEF Bytes
  <2>2. QED
    BY <1>3, <1>s, <2>1, Zenon DEF HW_MTU
<1>5. CASE Len(b) = 2
  <2>1. 2 \in 1..Len(b)
    BY <1>5
  <2>2. PartLen(b[2].pkt, b[2].part) \in 0..254
    BY <1>1, <2>1
  <2>3. Bytes(b) = PartLen(b[1].pkt, b[1].part) + PartLen(b[2].pkt, b[2].part)
    BY <1>5 DEF Bytes
  <2>4. QED
    BY <1>3, <1>s, <2>2, <2>3, Zenon DEF HW_MTU
<1>6. QED
  BY <1>4, <1>5

\* What is held or handed up is at most two parts, hence at most HW_MTU bytes.
LEMMA InvBounds == SplitInv => BufferBounded
<1> SUFFICES ASSUME SplitInv PROVE BufferBounded
  OBVIOUS
<1>1. ASSUME NEW b \in Seq(Part), Len(b) <= 2, b # << >> PROVE Bytes(b) <= HW_MTU
  <2>1. Len(b) \in Nat /\ Len(b) # 0
    BY <1>1, EmptySeq, LenProperties
  <2>2. Len(b) = 1 \/ Len(b) = 2
    <3>1. \A k \in Nat : k <= 2 /\ k # 0 => k = 1 \/ k = 2
      OBVIOUS
    <3>2. QED
      BY <1>1, <2>1, <3>1, Zenon
  <2>3. QED
    BY <2>2, PartsBounded
<1>2. buffer \in Seq(Part) /\ deliv \in Seq(Part) /\ Len(buffer) <= 2 /\ Len(deliv) <= 2
  BY DEF SplitInv, TypeOK
<1>3. QED
  BY <1>1, <1>2, Zenon DEF BufferBounded

\* Every reachable state is typed: the sequence number a frame carries fits its
\* three bits and the receiver holds SEQ_UNSET or such a number.
THEOREM SplitTypeCorrect == Spec => []TypeOK
<1>1. SplitInv => TypeOK
  BY DEF SplitInv
<1>2. QED
  BY SplitInit, SplitStep, <1>1, PTL DEF Spec

\* However many peers interleave their halves and whichever are lost, stop and
\* start included, LoRaInterface never holds or hands up a third part or more
\* than HW_MTU bytes.
THEOREM ReassemblyBounded == Spec => []BufferBounded
BY SplitInit, SplitStep, InvBounds, PTL DEF Spec

-----------------------------------------------------------------------------
(***************************************************************************)
(* One sender in range.  A half that is held goes stale when its other     *)
(* half is lost, and is then told from a new packet's by the sequence      *)
(* number alone.  The number comes round after eight split packets; that   *)
(* takes both halves of seven of them to be lost in a row, fourteen        *)
(* frames.  LinkInv counts: a held half that is d split packets old has    *)
(* seen two frames lost for each of them, but for those still on the air.  *)
(***************************************************************************)

OneSender == \E s : Senders = {s}
ShortBursts == MaxBurst <= 13

\* The sequence number of the split packet last sent.
Latest == (tx_seq_ctr[Peer] + 7) % 8

\* Frame k of the packet last sent.
FrameOf(k) ==
  [split |-> Parts(packet[Peer]) = 2,
   seq |-> IF Parts(packet[Peer]) = 2 THEN Latest ELSE 0,
   pkt |-> packet[Peer], part |-> k]

\* What is on the air is what is left of the packet last sent.
AirInv ==
  /\ Len(out[Peer]) <= Parts(packet[Peer])
  /\ Len(out[Peer]) > 0 => packet[Peer].id > 0
  /\ \A i \in 1..Len(out[Peer]) :
       out[Peer][i] = FrameOf(i + Parts(packet[Peer]) - Len(out[Peer]))

\* Frames of a split packet still on the air.
Pending == IF Parts(packet[Peer]) = 2 THEN Len(out[Peer]) ELSE 0

\* The first half of the packet last sent is held and the second is on the air.
Current ==
  /\ rx_seq = Latest /\ Pending = 1
  /\ buffer = <<[pkt |-> packet[Peer], part |-> 1]>>

\* A half is held whose other half will not come, d split packets ago.
Stale(d) ==
  /\ Latest = (rx_seq + d) % 8
  /\ burst >= 2 * d - Pending
  /\ Pending > 0 => d >= 1

HoldInv == rx_seq # SEQ_UNSET => Current \/ \E d \in 0..7 : Stale(d)

\* The parts read are not on the air any more, and a first half read is held
\* until the second comes.
HeardInv ==
  /\ Len(out[Peer]) = Parts(packet[Peer]) => heard[Peer] = {}
  /\ Pending = 1 => heard[Peer] \subseteq {1} /\ (1 \in heard[Peer] => Current)

\* What was handed up is a packet that was sent, whole, and a packet is handed
\* up when its last frame is read.
HandedInv ==
  deliv # <<>> => /\ Whole(deliv)
                  /\ deliv[1].pkt.id \in 1..packet[Peer].id
                  /\ Len(out[Peer]) > 0 => deliv[1].pkt.id < packet[Peer].id

LinkInv == SplitInv /\ AirInv /\ HoldInv /\ HeardInv /\ HandedInv /\ CompleteIsDelivered

LEMMA ThePeer == ASSUME OneSender PROVE Peer \in Senders /\ \A s \in Senders : s = Peer
BY DEF OneSender, Peer

\* The counter wraps at 256, a multiple of eight, so the numbers follow each
\* other without a break.
LEMMA NextNumber ==
  ASSUME NEW c \in 0..255
  PROVE  /\ (c + 7) % 8 \in 0..7
         /\ (((c + 1) % 256) + 7) % 8 = c % 8
         /\ \A r, d \in 0..7 : (c + 7) % 8 = (r + d) % 8 => c % 8 = (r + d + 1) % 8
OBVIOUS

LEMMA NotRoundYet == \A r \in 0..7, d \in 1..7 : (r + d) % 8 # r
OBVIOUS

LEMMA AddZero == \A r \in 0..7 : (r + 0) % 8 = r
OBVIOUS

LEMMA PeerTyped ==
  ASSUME OneSender, SplitInv
  PROVE  /\ packet[Peer] \in Packet /\ packet[Peer].id \in Nat /\ packet[Peer].len \in Nat
         /\ Parts(packet[Peer]) \in {1, 2}
         /\ out[Peer] \in Seq(Frame) /\ Len(out[Peer]) \in Nat
         /\ tx_seq_ctr[Peer] \in 0..255 /\ Latest \in 0..7
         /\ burst \in Nat /\ burst <= MaxBurst /\ MaxBurst \in Nat
         /\ rx_seq \in (0..7) \cup {255}
         /\ Pending \in Nat
<1>1. Peer \in Senders
  BY ThePeer
<1>2. packet[Peer] \in Packet /\ out[Peer] \in Seq(Frame) /\ tx_seq_ctr[Peer] \in 0..255
  BY <1>1 DEF SplitInv, TypeOK
<1>3. packet[Peer].id \in Nat /\ packet[Peer].len \in Nat
  <2>1. packet[Peer].id \in 0..MaxPackets /\ packet[Peer].len \in Lens
    BY <1>2 DEF Packet
  <2>2. 0..MaxPackets \subseteq Nat /\ Lens \subseteq Nat
    BY SplitAssumption DEF HW_MTU
  <2> QED BY <2>1, <2>2
<1>4. Parts(packet[Peer]) \in {1, 2}
  BY DEF Parts
<1>5. Len(out[Peer]) \in Nat
  BY <1>2
<1>6. Latest \in 0..7
  BY <1>2, NextNumber DEF Latest
<1>7. /\ burst \in Nat /\ burst <= MaxBurst /\ MaxBurst \in Nat
      /\ rx_seq \in (0..7) \cup {255}
  BY SplitAssumption DEF SplitInv, TypeOK, HEADER_SEQ_MASK, SEQ_UNSET
<1>8. Pending \in Nat
  BY <1>5 DEF Pending
<1> QED
  BY <1>2, <1>3, <1>4, <1>5, <1>6, <1>7, <1>8

LEMMA LinkInit == ASSUME OneSender PROVE Init => LinkInv
<1> SUFFICES ASSUME Init PROVE LinkInv
  OBVIOUS
<1>0. Peer \in Senders
  BY ThePeer
<1>1. SplitInv
  BY SplitInit
<1>2. out[Peer] = <<>> /\ heard[Peer] = {} /\ deliv = <<>> /\ rx_seq = SEQ_UNSET
  BY <1>0 DEF Init
<1>3. Parts(packet[Peer]) \in {1, 2} /\ Len(out[Peer]) = 0 /\ Pending = 0
  BY <1>2 DEF Parts, Pending
<1>4. AirInv
  BY <1>3 DEF AirInv
<1>5. HoldInv /\ HeardInv /\ HandedInv
  BY <1>2, <1>3 DEF HoldInv, HeardInv, HandedInv
<1>6. CompleteIsDelivered
  <2>1. ASSUME NEW s \in Senders
        PROVE  heard[s] = {} /\ 1 \in 1..Parts(packet[s])
    <3>1. heard[s] = {}
      BY DEF Init
    <3>2. Parts(packet[s]) \in {1, 2}
      BY DEF Parts
    <3> QED BY <3>1, <3>2
  <2> QED BY <2>1 DEF CompleteIsDelivered
<1> QED BY <1>1, <1>4, <1>5, <1>6 DEF LinkInv

\* The frame at the head of what is on the air is the next of its packet, and
\* what is left once it is gone is what is left of the packet.
LEMMA NextFrame ==
  ASSUME OneSender, LinkInv, out[Peer] # <<>>,
         out' = [out EXCEPT ![Peer] = Tail(@)], UNCHANGED <<packet, tx_seq_ctr>>
  PROVE  /\ Len(out[Peer]) > 0 /\ Len(out'[Peer]) = Len(out[Peer]) - 1
         /\ Head(out[Peer]) = FrameOf(Parts(packet[Peer]) - Len(out[Peer]) + 1)
         /\ AirInv' /\ Latest' = Latest /\ packet[Peer].id > 0
         /\ Pending' = IF Pending = 0 THEN 0 ELSE Pending - 1
<1> DEFINE O == out[Peer]
           n == Parts(packet[Peer])
<1>1. /\ O \in Seq(Frame) /\ Len(O) \in Nat /\ n \in {1, 2} /\ Peer \in Senders
      /\ AirInv
  BY PeerTyped, ThePeer DEF LinkInv
<1>2. Len(O) > 0
  BY <1>1, EmptySeq
<1>3. out'[Peer] = Tail(O)
  BY <1>1 DEF LinkInv, SplitInv, TypeOK
<1>4. /\ Len(Tail(O)) = Len(O) - 1 /\ Head(O) = O[1]
      /\ \A i \in 1..Len(O) - 1 : Tail(O)[i] = O[i + 1]
  <2>1. ASSUME NEW S, NEW q \in Seq(S), Len(q) > 0
        PROVE  /\ Len(Tail(q)) = Len(q) - 1 /\ Head(q) = q[1]
               /\ \A i \in 1..Len(q) - 1 : Tail(q)[i] = q[i + 1]
    BY <2>1
  <2> QED BY <1>1, <1>2, <2>1
<1>5. Latest' = Latest /\ Parts(packet[Peer])' = n
  BY DEF Latest
<1>6. \A k : FrameOf(k)' = FrameOf(k)
  BY <1>5 DEF FrameOf
<1>7. Head(O) = FrameOf(n - Len(O) + 1)
  <2>1. O[1] = FrameOf(1 + n - Len(O))
    BY <1>1, <1>2 DEF AirInv
  <2>2. 1 + n - Len(O) = n - Len(O) + 1
    BY <1>1
  <2> QED BY <1>4, <2>1, <2>2
<1>8. AirInv'
  <2>1. ASSUME NEW i \in 1..Len(O) - 1
        PROVE  Tail(O)[i] = FrameOf(i + n - (Len(O) - 1))
    <3>1. i + 1 \in 1..Len(O) /\ (i + 1) + n - Len(O) = i + n - (Len(O) - 1)
      BY <1>1
    <3>2. O[i + 1] = FrameOf((i + 1) + n - Len(O))
      BY <1>1, <3>1 DEF AirInv
    <3> QED BY <1>4, <3>1, <3>2
  <2>2. Len(O) - 1 <= n /\ packet'[Peer].id > 0
    BY <1>1, <1>2 DEF AirInv
  <2> HIDE DEF O, n
  <2> QED BY <1>3, <1>4, <1>5, <1>6, <2>1, <2>2 DEF AirInv
<1>9. Pending' = IF Pending = 0 THEN 0 ELSE Pending - 1
  <2>1. Len(out'[Peer]) = Len(O) - 1
    BY <1>3, <1>4
  <2>2. Pending = (IF n = 2 THEN Len(O) ELSE 0)
    BY DEF Pending
  <2>3. Pending' = (IF n = 2 THEN Len(O) - 1 ELSE 0)
    BY <1>5, <2>1 DEF Pending
  <2> HIDE DEF O, n
  <2> QED BY <1>1, <1>2, <2>2, <2>3
<1> QED
  BY <1>1, <1>2, <1>3, <1>4, <1>5, <1>7, <1>8, <1>9 DEF AirInv

-----------------------------------------------------------------------------
\* A new packet: a half that is held is one split packet older, or as old.
LEMMA SendLinks ==
  ASSUME OneSender, ShortBursts, LinkInv, NEW s \in Senders, NEW n \in Lens,
         send_outgoing(s, n)
  PROVE  LinkInv'
<1> DEFINE p == [src |-> Peer, id |-> packet[Peer].id + 1, len |-> n]
           c == tx_seq_ctr[Peer]
<1>1. s = Peer /\ Peer \in Senders /\ n \in Nat
  BY ThePeer, SplitAssumption DEF HW_MTU
<1>2. /\ SplitInv /\ AirInv /\ HoldInv /\ HeardInv /\ HandedInv
      /\ SplitInv'
  BY SendKeeps DEF LinkInv
<1>3. /\ packet[Peer].id \in Nat /\ c \in 0..255 /\ Latest \in 0..7 /\ burst \in Nat
      /\ burst <= 13 /\ rx_seq \in (0..7) \cup {255}
  BY <1>2, PeerTyped DEF ShortBursts
<1>4. /\ out[Peer] = <<>> /\ packet'[Peer] = p /\ heard'[Peer] = {}
      /\ UNCHANGED <<rx_seq, buffer, deliv, burst>>
  BY <1>1, <1>2 DEF send_outgoing, SplitInv, TypeOK, rx
<1>5. /\ p.id = packet[Peer].id + 1 /\ Parts(p) = IF n <= 254 THEN 1 ELSE 2
      /\ Parts(p) \in {1, 2} /\ Parts(packet'[Peer]) = Parts(p)
  BY <1>1, <1>4 DEF Parts, LORA_MAX_PAYLOAD
<1>6. /\ Len(out'[Peer]) = Parts(p)
      /\ \A i \in 1..Parts(p) : out'[Peer][i] = FrameOf(i)'
      /\ Parts(p) = 1 => Latest' = Latest
      /\ Parts(p) = 2 => Latest' = c % 8
  <2>1. CASE n <= 254
    <3>1. out'[Peer] = Single(p) /\ Latest' = Latest /\ Parts(p) = 1
      BY <1>1, <1>2, <1>5, <2>1
      DEF send_outgoing, LORA_MAX_PAYLOAD, SplitInv, TypeOK, Latest
    <3>2. /\ Len(Single(p)) = 1
          /\ Single(p)[1] = [split |-> FALSE, seq |-> 0, pkt |-> p, part |-> 1]
      BY DEF Single
    <3>3. FrameOf(1)' = [split |-> FALSE, seq |-> 0, pkt |-> p, part |-> 1]
      <4>1. FrameOf(1)' = [split |-> Parts(packet'[Peer]) = 2,
                           seq |-> IF Parts(packet'[Peer]) = 2 THEN Latest' ELSE 0,
                           pkt |-> packet'[Peer], part |-> 1]
        BY DEF FrameOf
      <4>2. (Parts(packet'[Peer]) = 2) = FALSE
        BY <1>5, <3>1
      <4> HIDE DEF p
      <4> QED BY <1>4, <4>1, <4>2
    <3>4. \A i \in 1..Parts(p) : i = 1
      BY <3>1
    <3> HIDE DEF p
    <3>5. out'[Peer][1] = FrameOf(1)' /\ Len(out'[Peer]) = Parts(p)
      BY <3>1, <3>2, <3>3
    <3>6. ASSUME NEW i \in 1..Parts(p) PROVE out'[Peer][i] = FrameOf(i)'
      <4>1. i = 1
        BY <3>4
      <4> QED BY <4>1, <3>5
    <3>7. Parts(p) # 2
      BY <3>1
    <3> QED BY <3>1, <3>5, <3>6, <3>7
  <2>2. CASE ~(n <= 254)
    <3>1. out'[Peer] = SplitInTwo(p, c) /\ tx_seq_ctr'[Peer] = (c + 1) % 256 /\ Parts(p) = 2
      BY <1>1, <1>2, <1>5, <2>2 DEF send_outgoing, LORA_MAX_PAYLOAD, SplitInv, TypeOK
    <3>2. Latest' = c % 8
      BY <1>3, <3>1, NextNumber DEF Latest
    <3>3. /\ Len(SplitInTwo(p, c)) = 2
          /\ \A i \in 1..2 : SplitInTwo(p, c)[i]
                = [split |-> TRUE, seq |-> c % 8, pkt |-> p, part |-> i]
      BY DEF SplitInTwo, HEADER_SEQ_MASK
    <3>4. \A i : FrameOf(i)' = [split |-> TRUE, seq |-> c % 8, pkt |-> p, part |-> i]
      BY <1>4, <1>5, <3>1, <3>2 DEF FrameOf
    <3> HIDE DEF p, c
    <3>5. ASSUME NEW i \in 1..2 PROVE out'[Peer][i] = FrameOf(i)'
      BY <3>1, <3>3, <3>4
    <3>6. Len(out'[Peer]) = Parts(p) /\ Parts(p) # 1
      BY <3>1, <3>3
    <3> QED BY <3>1, <3>2, <3>5, <3>6
  <2> QED BY <2>1, <2>2
<1>7. AirInv'
  <2>1. \A i \in 1..Parts(p) : i + Parts(p) - Len(out'[Peer]) = i
    BY <1>5, <1>6
  <2>2. packet'[Peer].id > 0
    BY <1>3, <1>4
  <2> HIDE DEF p
  <2> QED BY <1>5, <1>6, <2>1, <2>2 DEF AirInv
<1>8. Pending = 0 /\ Pending' = IF Parts(p) = 2 THEN 2 ELSE 0
  <2>1. Len(out[Peer]) = 0
    BY <1>4
  <2> HIDE DEF p
  <2> QED BY <1>5, <1>6, <2>1 DEF Pending
<1>9. HoldInv'
  <2> SUFFICES ASSUME rx_seq # SEQ_UNSET PROVE \E d \in 0..7 : Stale(d)'
    BY <1>4 DEF HoldInv
  <2>1. rx_seq \in 0..7
    BY <1>3 DEF SEQ_UNSET
  <2>2. PICK d \in 0..7 : Stale(d)
    BY <1>2, <1>8 DEF HoldInv, Current
  <2>3. Latest = (rx_seq + d) % 8 /\ burst >= 2 * d
    BY <1>3, <1>8, <2>2 DEF Stale
  <2>4. d <= 6
    BY <1>3, <2>3
  <2>5. CASE Parts(p) = 1
    <3>1. Pending' = 0 /\ Latest' = Latest
      BY <1>6, <1>8, <2>5
    <3>2. Stale(d)'
      BY <1>4, <2>3, <3>1, <1>3 DEF Stale
    <3> QED BY <3>2
  <2>6. CASE Parts(p) = 2
    <3>1. Pending' = 2 /\ Latest' = c % 8
      BY <1>6, <1>8, <2>6
    <3>2. c % 8 = (rx_seq + (d + 1)) % 8
      <4>1. c % 8 = (rx_seq + d + 1) % 8
        BY <1>3, <2>1, <2>3, NextNumber DEF Latest
      <4>2. rx_seq + d + 1 = rx_seq + (d + 1)
        BY <2>1
      <4> QED BY <4>1, <4>2
    <3>3. burst >= 2 * (d + 1) - 2 /\ d + 1 \in 0..7 /\ d + 1 >= 1
      BY <1>3, <2>3, <2>4
    <3>4. Stale(d + 1)'
      BY <1>4, <3>1, <3>2, <3>3 DEF Stale
    <3> QED BY <3>3, <3>4
  <2> QED BY <1>5, <2>5, <2>6
<1>10. HeardInv'
  BY <1>4, <1>8 DEF HeardInv
<1>11. HandedInv'
  BY <1>2, <1>3, <1>4 DEF HandedInv
<1>12. CompleteIsDelivered'
  <2>1. 1 \in 1..Parts(packet'[Peer])
    BY <1>5
  <2> QED BY <1>4, <2>1, ThePeer DEF CompleteIsDelivered
<1> QED
  BY <1>2, <1>7, <1>9, <1>10, <1>11, <1>12 DEF LinkInv

\* A frame is lost: one more for the count.
LEMMA LostLinks ==
  ASSUME OneSender, LinkInv, NEW s \in Senders, FrameLost(s)
  PROVE  LinkInv'
<1>1. s = Peer
  BY ThePeer
<1>2. SplitInv /\ AirInv /\ HoldInv /\ HeardInv /\ HandedInv /\ CompleteIsDelivered
  BY DEF LinkInv
<1>3. SplitInv'
  BY <1>2, SplitStep DEF Next
<1>4. /\ out[Peer] # <<>> /\ out' = [out EXCEPT ![Peer] = Tail(@)]
      /\ burst' = burst + 1
      /\ UNCHANGED <<packet, tx_seq_ctr, rx_seq, buffer, deliv, heard>>
  BY <1>1 DEF FrameLost, rx
<1>5. /\ Len(out[Peer]) > 0 /\ Len(out'[Peer]) = Len(out[Peer]) - 1
      /\ AirInv' /\ Latest' = Latest
      /\ Pending' = IF Pending = 0 THEN 0 ELSE Pending - 1
  BY <1>4, NextFrame
<1>6. /\ Latest \in 0..7 /\ burst \in Nat /\ Pending \in Nat /\ rx_seq \in (0..7) \cup {255}
      /\ Parts(packet[Peer]) \in {1, 2} /\ Len(out[Peer]) \in Nat
      /\ Len(out[Peer]) <= Parts(packet[Peer])
  BY <1>2, PeerTyped DEF AirInv
<1>7. HoldInv'
  <2> SUFFICES ASSUME rx_seq # SEQ_UNSET PROVE \E d \in 0..7 : Stale(d)'
    BY <1>4 DEF HoldInv
  <2>1. CASE Current
    <3>1. Pending' = 0 /\ Latest = (rx_seq + 0) % 8
      BY <1>5, <1>6, <2>1, AddZero DEF Current
    <3>2. Stale(0)'
      BY <1>4, <1>5, <1>6, <3>1 DEF Stale
    <3> QED BY <3>2
  <2>2. CASE \E d \in 0..7 : Stale(d)
    <3>1. PICK d \in 0..7 : Stale(d)
      BY <2>2
    <3>2. Stale(d)'
      BY <1>4, <1>5, <1>6, <3>1 DEF Stale
    <3> QED BY <3>2
  <2> QED BY <1>2, <2>1, <2>2 DEF HoldInv
<1>8. HeardInv'
  <2>1. Len(out'[Peer]) # Parts(packet[Peer])
    BY <1>5, <1>6
  <2>2. Pending' = 1 => heard[Peer] = {}
    <3> SUFFICES ASSUME Pending' = 1 PROVE heard[Peer] = {}
      OBVIOUS
    <3>1. Pending = 2
      BY <1>5, <1>6
    <3>2. Parts(packet[Peer]) = 2 /\ Pending = Len(out[Peer])
      <4>1. Parts(packet[Peer]) # 2 => Pending = 0
        BY DEF Pending
      <4>2. Parts(packet[Peer]) = 2 => Pending = Len(out[Peer])
        BY DEF Pending
      <4> QED BY <3>1, <4>1, <4>2
    <3>3. Len(out[Peer]) = Parts(packet[Peer])
      BY <3>1, <3>2
    <3> QED BY <1>2, <3>3 DEF HeardInv
  <2> QED BY <1>4, <2>1, <2>2 DEF HeardInv
<1>9. HandedInv'
  <2>1. Len(out'[Peer]) > 0 => Len(out[Peer]) > 0
    BY <1>5
  <2> QED BY <1>2, <1>4, <2>1 DEF HandedInv
<1>10. CompleteIsDelivered'
  BY <1>2, <1>4 DEF CompleteIsDelivered
<1> QED
  BY <1>3, <1>5, <1>7, <1>8, <1>9, <1>10 DEF LinkInv

\* A frame is read: what every case needs to know of it.
LEMMA ReadFacts ==
  ASSUME OneSender, LinkInv, NEW s \in Senders, FrameRead(s)
  PROVE  /\ s = Peer /\ SplitInv' /\ AirInv' /\ Latest' = Latest
         /\ Len(out[Peer]) \in 1..Parts(packet[Peer])
         /\ Len(out'[Peer]) = Len(out[Peer]) - 1
         /\ Head(out[Peer]) = FrameOf(Parts(packet[Peer]) - Len(out[Peer]) + 1)
         /\ Pending' = IF Pending = 0 THEN 0 ELSE Pending - 1
         /\ heard'[Peer] = heard[Peer] \cup {Head(out[Peer]).part}
         /\ packet[Peer].id > 0
         /\ UNCHANGED <<packet, tx_seq_ctr>>
<1>1. s = Peer /\ Peer \in Senders
  BY ThePeer
<1>2. SplitInv /\ AirInv /\ SplitInv'
  BY ReadKeeps DEF LinkInv
<1>3. /\ out[Peer] # <<>> /\ out' = [out EXCEPT ![Peer] = Tail(@)]
      /\ UNCHANGED <<packet, tx_seq_ctr>>
  BY <1>1 DEF FrameRead
<1>4. heard'[Peer] = heard[Peer] \cup {Head(out[Peer]).part}
  BY <1>1, <1>2 DEF FrameRead, SplitInv, TypeOK
<1>5. /\ Len(out[Peer]) > 0 /\ Len(out'[Peer]) = Len(out[Peer]) - 1
      /\ Head(out[Peer]) = FrameOf(Parts(packet[Peer]) - Len(out[Peer]) + 1)
      /\ AirInv' /\ Latest' = Latest /\ packet[Peer].id > 0
      /\ Pending' = IF Pending = 0 THEN 0 ELSE Pending - 1
  BY <1>3, NextFrame
<1>6. Len(out[Peer]) \in 1..Parts(packet[Peer])
  BY <1>2, <1>5, PeerTyped DEF AirInv
<1> QED
  BY <1>1, <1>2, <1>3, <1>4, <1>5, <1>6

\* The frame of a packet that fits into one.
LEMMA ReadSingle ==
  ASSUME OneSender, LinkInv, NEW s \in Senders, FrameRead(s), Parts(packet[Peer]) = 1
  PROVE  LinkInv'
<1> DEFINE P == packet[Peer]
           f == Head(out[Peer])
           b == [pkt |-> P, part |-> 1]
<1>1. SplitInv /\ AirInv /\ HoldInv /\ HeardInv /\ HandedInv
  BY DEF LinkInv
<1>2. /\ s = Peer /\ SplitInv' /\ AirInv' /\ Latest' = Latest
      /\ Len(out[Peer]) = 1 /\ Len(out'[Peer]) = 0
      /\ f = FrameOf(1) /\ Pending = 0 /\ Pending' = 0
      /\ heard'[Peer] = heard[Peer] \cup {f.part}
      /\ packet' = packet /\ P.id > 0
  <2>1. Len(out[Peer]) = 1 /\ Len(out'[Peer]) = 0
    <3>1. Len(out[Peer]) \in 1..1 /\ Len(out'[Peer]) = Len(out[Peer]) - 1
      BY ReadFacts
    <3> QED BY <3>1
  <2>2. f = FrameOf(1)
    <3>1. f = FrameOf(1 - Len(out[Peer]) + 1)
      BY ReadFacts
    <3>2. 1 - Len(out[Peer]) + 1 = 1
      BY <2>1
    <3> QED BY <3>1, <3>2
  <2>3. Pending = 0 /\ Pending' = 0
    <3>1. Pending = 0
      BY DEF Pending
    <3> QED BY <3>1, ReadFacts
  <2> QED BY <2>1, <2>2, <2>3, ReadFacts
<1>3. ~f.split /\ f.pkt = P /\ f.part = 1
  <2>1. f = [split |-> Parts(P) = 2, seq |-> IF Parts(P) = 2 THEN Latest ELSE 0,
             pkt |-> P, part |-> 1]
    BY <1>2 DEF FrameOf
  <2>2. (Parts(P) = 2) = FALSE
    OBVIOUS
  <2> HIDE DEF P, f
  <2> QED BY <2>1, <2>2
<1>4. /\ P.len \in Nat /\ P.id \in Nat /\ PartLen(P, 1) = P.len /\ rx_seq \in (0..7) \cup {255}
  BY <1>1, PeerTyped DEF PartLen
<1>5. \/ HeaderOnly(f)
      \/ PartLen(P, 1) > 0 /\ WholePacket(f)
  BY <1>2, <1>3 DEF FrameRead, FirstPart, SecondPart
<1>6. Pending' # 1 /\ Len(out'[Peer]) # Parts(packet'[Peer])
  BY <1>2
<1>7. HeardInv'
  BY <1>6 DEF HeardInv
<1>8. CASE HeaderOnly(f)
  <2>1. P.len = 0 /\ UNCHANGED <<rx_seq, buffer, deliv, burst>>
    BY <1>3, <1>4, <1>8 DEF HeaderOnly
  <2>2. HoldInv'
    <3> SUFFICES ASSUME rx_seq # SEQ_UNSET PROVE \E d \in 0..7 : Stale(d)'
      BY <2>1 DEF HoldInv
    <3>1. PICK d \in 0..7 : Stale(d)
      BY <1>1, <1>2 DEF HoldInv, Current
    <3>2. Stale(d)'
      BY <1>2, <2>1, <3>1 DEF Stale
    <3> QED BY <3>2
  <2>3. HandedInv'
    BY <1>1, <1>2, <2>1 DEF HandedInv
  <2>4. CompleteIsDelivered'
    BY <1>2, <2>1, ThePeer DEF CompleteIsDelivered
  <2> QED BY <1>2, <1>7, <2>2, <2>3, <2>4 DEF LinkInv
<1>9. CASE WholePacket(f)
  <2>1. rx_seq' = SEQ_UNSET /\ deliv' = <<b>>
    BY <1>3, <1>9 DEF WholePacket
  <2>2. HoldInv'
    BY <2>1 DEF HoldInv
  <2>3. Whole(deliv') /\ deliv'[1].pkt = P
    BY <2>1 DEF Whole
  <2>4. HandedInv'
    BY <1>2, <1>4, <2>3 DEF HandedInv
  <2>5. CompleteIsDelivered'
    BY <1>2, <2>3, ThePeer DEF CompleteIsDelivered
  <2> QED BY <1>2, <1>7, <2>2, <2>4, <2>5 DEF LinkInv
<1> QED BY <1>5, <1>8, <1>9

\* What a frame of a split packet does to the receiver.
LEMMA SplitRead ==
  ASSUME OneSender, LinkInv, NEW s \in Senders, FrameRead(s), Parts(packet[Peer]) = 2
  PROVE  LET f == Head(out[Peer])
         IN  /\ f.seq = Latest /\ f.pkt = packet[Peer]
             /\ f.part = 3 - Len(out[Peer])
             /\ FirstPart(f) \/ SecondPart(f)
             /\ burst' = 0
<1> DEFINE P == packet[Peer]
           f == Head(out[Peer])
<1>1. SplitInv /\ s = Peer /\ f = FrameOf(2 - Len(out[Peer]) + 1) /\ Len(out[Peer]) \in 1..2
  BY ReadFacts DEF LinkInv
<1>2. f.split /\ f.seq = Latest /\ f.pkt = P /\ f.part = 3 - Len(out[Peer])
  <2>1. 2 - Len(out[Peer]) + 1 = 3 - Len(out[Peer])
    BY <1>1
  <2>2. f = [split |-> Parts(P) = 2, seq |-> IF Parts(P) = 2 THEN Latest ELSE 0,
             pkt |-> P, part |-> 3 - Len(out[Peer])]
    BY <1>1, <2>1 DEF FrameOf
  <2>3. (Parts(P) = 2) = TRUE
    OBVIOUS
  <2> HIDE DEF P, f
  <2> QED BY <2>2, <2>3
<1>3. PartLen(P, f.part) > 0
  <2>1. P.len \in Nat
    BY <1>1, PeerTyped
  <2>2. P.len > 254
    BY <2>1 DEF Parts, LORA_MAX_PAYLOAD
  <2> HIDE DEF P
  <2> QED BY <2>1, <2>2 DEF PartLen, Parts, LORA_MAX_PAYLOAD
<1>4. PartLen(f.pkt, f.part) # 0
  BY <1>2, <1>3
<1> QED BY <1>1, <1>2, <1>4 DEF FrameRead, HeaderOnly, WholePacket

\* The first half: whatever was held is given up for it.
LEMMA ReadFirst ==
  ASSUME OneSender, LinkInv, NEW s \in Senders, FrameRead(s),
         Parts(packet[Peer]) = 2, Len(out[Peer]) = 2
  PROVE  LinkInv'
<1> DEFINE P == packet[Peer]
           f == Head(out[Peer])
<1>1. SplitInv /\ AirInv /\ HoldInv /\ HeardInv /\ HandedInv
  BY DEF LinkInv
<1>2. /\ s = Peer /\ SplitInv' /\ AirInv' /\ Latest' = Latest
      /\ Len(out'[Peer]) = 1 /\ Pending = 2 /\ Pending' = 1
      /\ heard'[Peer] = heard[Peer] \cup {f.part}
      /\ packet' = packet
  BY ReadFacts DEF Pending
<1>3. /\ f.seq = Latest /\ f.pkt = P /\ f.part = 1
      /\ FirstPart(f) \/ SecondPart(f)
  BY SplitRead
<1>4. rx_seq \in (0..7) \cup {255} /\ Latest \in 0..7
  BY <1>1, PeerTyped
<1>5. rx_seq # Latest
  <2> SUFFICES ASSUME rx_seq = Latest PROVE FALSE
    OBVIOUS
  <2>1. rx_seq # SEQ_UNSET
    BY <1>4 DEF SEQ_UNSET
  <2>2. PICK d \in 0..7 : Stale(d)
    BY <1>1, <1>2, <2>1 DEF HoldInv, Current
  <2>3. d \in 1..7 /\ rx_seq = (rx_seq + d) % 8
    BY <1>2, <2>2 DEF Stale
  <2> QED BY <1>4, <2>3, NotRoundYet
<1>6. FirstPart(f)
  BY <1>3, <1>5 DEF SecondPart
<1>7. rx_seq' = Latest /\ buffer' = <<[pkt |-> P, part |-> 1]>> /\ deliv' = deliv
  BY <1>3, <1>6 DEF FirstPart
<1>8. Current'
  BY <1>2, <1>7 DEF Current
<1>9. heard'[Peer] = {1}
  BY <1>1, <1>2, <1>3 DEF HeardInv
<1>10. HoldInv' /\ HeardInv'
  BY <1>2, <1>8, <1>9 DEF HoldInv, HeardInv
<1>11. HandedInv'
  BY <1>1, <1>2, <1>7 DEF HandedInv
<1>12. CompleteIsDelivered'
  <2>1. heard'[Peer] # 1..Parts(packet'[Peer])
    BY <1>2, <1>9
  <2> QED BY <2>1, ThePeer DEF CompleteIsDelivered
<1> QED BY <1>2, <1>10, <1>11, <1>12 DEF LinkInv

\* The second half: it completes the first, or is held in vain.
LEMMA ReadSecond ==
  ASSUME OneSender, LinkInv, NEW s \in Senders, FrameRead(s),
         Parts(packet[Peer]) = 2, Len(out[Peer]) = 1
  PROVE  LinkInv'
<1> DEFINE P == packet[Peer]
           f == Head(out[Peer])
<1>1. SplitInv /\ AirInv /\ HoldInv /\ HeardInv /\ HandedInv
  BY DEF LinkInv
<1>2. /\ s = Peer /\ SplitInv' /\ AirInv' /\ Latest' = Latest
      /\ Len(out'[Peer]) = 0 /\ Pending = 1 /\ Pending' = 0
      /\ heard'[Peer] = heard[Peer] \cup {f.part}
      /\ packet' = packet /\ P.id > 0
  BY ReadFacts DEF Pending
<1>3. /\ f.seq = Latest /\ f.pkt = P /\ f.part = 2
      /\ FirstPart(f) \/ SecondPart(f)
      /\ burst' = 0
  BY SplitRead
<1>4. rx_seq \in (0..7) \cup {255} /\ Latest \in 0..7 /\ P.id \in Nat
  BY <1>1, PeerTyped
<1>5. HeardInv'
  BY <1>2 DEF HeardInv
<1>6. CASE Current
  <2>1. SecondPart(f)
    BY <1>3, <1>4, <1>6 DEF FirstPart, Current, SEQ_UNSET
  <2>2. /\ rx_seq' = SEQ_UNSET /\ buffer = <<[pkt |-> P, part |-> 1]>>
        /\ deliv' = Append(buffer, [pkt |-> P, part |-> 2])
    BY <1>3, <1>6, <2>1 DEF SecondPart, Current
  <2>3. HoldInv'
    BY <2>2 DEF HoldInv
  <2>4. Whole(deliv') /\ deliv'[1].pkt = P
    <3>1. ASSUME NEW x, NEW y
          PROVE  LET q == Append(<<x>>, y) IN Len(q) = 2 /\ q[1] = x /\ q[2] = y /\ q # <<>>
      <4>1. <<x>> \in Seq({x, y}) /\ y \in {x, y} /\ Len(<<x>>) = 1 /\ <<x>>[1] = x
        OBVIOUS
      <4>2. ASSUME NEW S, NEW q \in Seq(S), NEW e \in S, Len(q) = 1
            PROVE  /\ Len(Append(q, e)) = 2 /\ Append(q, e)[1] = q[1]
                   /\ Append(q, e)[2] = e /\ Append(q, e) # <<>>
        <5>1. Len(Append(q, e)) = Len(q) + 1 /\ Append(q, e)[Len(q) + 1] = e
          OBVIOUS
        <5>2. \A i \in 1..Len(q) : Append(q, e)[i] = q[i]
          OBVIOUS
        <5>3. Len(<<>>) = 0
          OBVIOUS
        <5> QED BY <4>2, <5>1, <5>2, <5>3
      <4> QED BY <4>1, <4>2
    <3>2. /\ Len(deliv') = 2 /\ deliv' # <<>>
          /\ deliv'[1] = [pkt |-> P, part |-> 1] /\ deliv'[2] = [pkt |-> P, part |-> 2]
      BY <2>2, <3>1
    <3>3. deliv'[1].pkt = P
      BY <3>2
    <3>4. ASSUME NEW i \in 1..2 PROVE deliv'[i] = [pkt |-> P, part |-> i]
      <4>1. i = 1 \/ i = 2
        OBVIOUS
      <4> QED BY <3>2, <4>1
    <3>5. Parts(P) = 2
      OBVIOUS
    <3> HIDE DEF P
    <3> QED BY <3>2, <3>3, <3>4, <3>5 DEF Whole
  <2>5. HandedInv'
    BY <1>2, <1>4, <2>4 DEF HandedInv
  <2>6. CompleteIsDelivered'
    BY <1>2, <2>4, ThePeer DEF CompleteIsDelivered
  <2> QED BY <1>2, <1>5, <2>3, <2>5, <2>6 DEF LinkInv
<1>7. CASE ~Current
  <2>1. rx_seq # Latest
    <3> SUFFICES ASSUME rx_seq = Latest PROVE FALSE
      OBVIOUS
    <3>1. rx_seq # SEQ_UNSET
      BY <1>4 DEF SEQ_UNSET
    <3>2. PICK d \in 0..7 : Stale(d)
      BY <1>1, <1>7, <3>1 DEF HoldInv
    <3>3. d \in 1..7 /\ rx_seq = (rx_seq + d) % 8
      BY <1>2, <3>2 DEF Stale
    <3> QED BY <1>4, <3>3, NotRoundYet
  <2>2. rx_seq' = Latest /\ deliv' = deliv
    BY <1>3, <2>1 DEF FirstPart, SecondPart
  <2>3. HoldInv'
    <3>1. Latest = (Latest + 0) % 8
      BY <1>4, AddZero
    <3>2. Stale(0)'
      BY <1>2, <1>3, <2>2, <3>1 DEF Stale
    <3> QED BY <3>2 DEF HoldInv
  <2>4. HandedInv'
    BY <1>1, <1>2, <2>2 DEF HandedInv
  <2>5. CompleteIsDelivered'
    <3>1. 1 \notin heard'[Peer]
      BY <1>1, <1>2, <1>3, <1>7 DEF HeardInv
    <3>2. 1 \in 1..Parts(packet'[Peer])
      BY <1>2
    <3> QED BY <3>1, <3>2, ThePeer DEF CompleteIsDelivered
  <2> QED BY <1>2, <1>5, <2>3, <2>4, <2>5 DEF LinkInv
<1> QED BY <1>6, <1>7

LEMMA LinkStep ==
  ASSUME OneSender, ShortBursts PROVE LinkInv /\ [Next]_vars => LinkInv'
<1> SUFFICES ASSUME LinkInv, [Next]_vars PROVE LinkInv'
  OBVIOUS
<1>1. ASSUME NEW s \in Senders, NEW n \in Lens, send_outgoing(s, n) PROVE LinkInv'
  BY <1>1, SendLinks
<1>2. ASSUME NEW s \in Senders, FrameLost(s) PROVE LinkInv'
  BY <1>2, LostLinks
<1>3. ASSUME NEW s \in Senders, FrameRead(s) PROVE LinkInv'
  <2>1. CASE Parts(packet[Peer]) = 1
    BY <1>3, <2>1, ReadSingle
  <2>2. CASE Parts(packet[Peer]) = 2
    <3>1. Len(out[Peer]) \in 1..2
      BY <1>3, <2>2, ReadFacts
    <3>2. Len(out[Peer]) = 1 \/ Len(out[Peer]) = 2
      BY <3>1
    <3> QED BY <1>3, <2>2, <3>2, ReadFirst, ReadSecond
  <2> QED BY <2>1, <2>2 DEF Parts
<1>4. CASE stop \/ start \/ UNCHANGED vars
  <2>1. UNCHANGED <<tx_seq_ctr, packet, out, rx_seq, buffer, deliv, heard, burst>>
    BY <1>4 DEF stop, start, vars
  <2>2. SplitInv'
    BY <1>4, SplitStep DEF LinkInv, Next
  <2>3. Latest' = Latest /\ Pending' = Pending /\ \A k : FrameOf(k)' = FrameOf(k)
    BY <2>1 DEF Latest, Pending, FrameOf
  <2>4. AirInv' /\ HandedInv' /\ CompleteIsDelivered'
    BY <2>1, <2>3 DEF LinkInv, AirInv, HandedInv, CompleteIsDelivered
  <2>5. HoldInv' /\ HeardInv'
    BY <2>1, <2>3 DEF LinkInv, HoldInv, HeardInv, Current, Stale
  <2> QED BY <2>2, <2>4, <2>5 DEF LinkInv
<1> QED BY <1>1, <1>2, <1>3, <1>4 DEF Next

\* With one sender in range and fewer than fourteen frames lost in a row, a
\* packet all of whose frames were read is handed up, whole, however many stale
\* halves were held before it and whatever its number.
THEOREM CompleteHandedUp ==
  ASSUME OneSender, ShortBursts PROVE Spec => []CompleteIsDelivered
<1>1. LinkInv => CompleteIsDelivered
  BY DEF LinkInv
<1> QED BY LinkInit, LinkStep, <1>1, PTL DEF Spec
-----------------------------------------------------------------------------
\* LoRaSplit implements LossyLink for one sender.

\* The number of the packet last handed up, as the refinement mapping has it.
Handed == IF deliv = <<>> THEN 0
          ELSE IF Whole(deliv) THEN deliv[1].pkt.id ELSE MaxPackets + 1

\* What a step changes of the two numbers the abstract link keeps.
LEMMA LinkSimulates ==
  ASSUME OneSender, ShortBursts, LinkInv, [Next]_vars
  PROVE  \/ packet'[Peer].id = packet[Peer].id + 1 /\ Handed' = Handed
         \/ Handed' \in (Handed + 1)..packet[Peer].id /\ packet'[Peer].id = packet[Peer].id
         \/ packet'[Peer].id = packet[Peer].id /\ Handed' = Handed
<1>1. SplitInv /\ HandedInv /\ SplitInv' /\ HandedInv' /\ Peer \in Senders
  BY ThePeer, LinkStep DEF LinkInv
<1>2. packet[Peer].id \in Nat
  BY <1>1, PeerTyped
<1>3. deliv' = deliv => Handed' = Handed
  BY DEF Handed
<1>4. ASSUME NEW s \in Senders, NEW n \in Lens, send_outgoing(s, n)
      PROVE  packet'[Peer].id = packet[Peer].id + 1 /\ deliv' = deliv
  <2>1. s = Peer
    BY ThePeer
  <2>2. packet'[Peer] = [src |-> s, id |-> packet[s].id + 1, len |-> n] /\ deliv' = deliv
    BY <1>1, <1>4, <2>1 DEF send_outgoing, SplitInv, TypeOK, rx
  <2> QED BY <2>1, <2>2
<1>5. ASSUME NEW s \in Senders, FrameRead(s), deliv' # deliv
      PROVE  Handed' \in (Handed + 1)..packet[Peer].id /\ packet' = packet
  <2> DEFINE f == Head(out[Peer])
  <2>1. s = Peer /\ packet' = packet /\ f.pkt = packet[Peer] /\ Len(out[Peer]) > 0
    <3>1. Len(out[Peer]) \in 1..Parts(packet[Peer])
      BY <1>5, ReadFacts
    <3>2. Len(out[Peer]) > 0
      BY <3>1, PeerTyped, <1>1
    <3> QED BY <1>5, <3>2, ReadFacts DEF FrameOf
  <2>2. f.part \in {1, 2} /\ buffer \in Seq(Part) /\ f.pkt \in Packet
    <3>1. ASSUME NEW S, NEW q \in Seq(S), Len(q) > 0 PROVE Head(q) \in S
      BY <3>1
    <3>2. f \in Frame
      BY <1>1, <2>1, <3>1, PeerTyped
    <3> QED BY <1>1, <3>2 DEF SplitInv, TypeOK, Frame
  <2> DEFINE x == [pkt |-> f.pkt, part |-> f.part]
  <2>3. deliv' = <<x>> \/ deliv' = Append(buffer, x)
    BY <1>5, <2>1 DEF FrameRead, HeaderOnly, FirstPart, SecondPart, WholePacket
  <2>4. x \in Part
    BY <2>2 DEF Part
  <2>5. \E i \in 1..Len(deliv') : deliv'[i] = x
    <3>1. ASSUME NEW S, NEW q \in Seq(S), NEW y \in S
          PROVE  \E i \in 1..Len(Append(q, y)) : Append(q, y)[i] = y
      <4>1. Len(q) + 1 \in 1..Len(Append(q, y)) /\ Append(q, y)[Len(q) + 1] = y
        OBVIOUS
      <4> QED BY <4>1
    <3>2. \A y : \E i \in 1..Len(<<y>>) : <<y>>[i] = y
      OBVIOUS
    <3> HIDE DEF x
    <3> QED BY <2>2, <2>3, <2>4, <3>1, <3>2
  <2>6. deliv' # <<>>
    BY <2>5
  <2>7. Whole(deliv')
    BY <1>1, <2>6 DEF HandedInv
  <2>8. deliv'[1].pkt = packet[Peer]
    <3>1. PICK i \in 1..Len(deliv') : deliv'[i] = x
      BY <2>5
    <3>2. deliv'[i] = [pkt |-> deliv'[1].pkt, part |-> i]
      BY <2>7 DEF Whole
    <3>3. deliv'[i].pkt = deliv'[1].pkt
      BY <3>2
    <3>4. deliv'[i].pkt = f.pkt
      BY <3>1
    <3> QED BY <2>1, <3>3, <3>4
  <2>9. Handed' = packet[Peer].id
    BY <2>6, <2>7, <2>8 DEF Handed
  <2>10. deliv # <<>> => Handed = deliv[1].pkt.id /\ Handed \in 1..packet[Peer].id
                         /\ Handed < packet[Peer].id
    BY <1>1, <2>1 DEF HandedInv, Handed
  <2>11. deliv = <<>> => Handed = 0
    BY DEF Handed
  <2>12. packet[Peer].id > 0
    BY <1>5, ReadFacts
  <2> QED BY <1>2, <2>1, <2>9, <2>10, <2>11, <2>12
<1>6. ASSUME NEW s \in Senders, FrameRead(s) PROVE packet' = packet
  BY <1>6 DEF FrameRead
<1>7. ASSUME NEW s \in Senders, FrameLost(s) PROVE packet' = packet /\ deliv' = deliv
  BY <1>7 DEF FrameLost, rx
<1>8. CASE stop \/ start \/ UNCHANGED vars
  BY <1>3, <1>8 DEF stop, start, vars
<1> QED BY <1>3, <1>4, <1>5, <1>6, <1>7, <1>8 DEF Next

\* The whole of LoRaSplit for one sender, with fewer than fourteen frames lost in
\* a row, is a LossyLink: on_incoming is given the packets whole, in the order
\* they were sent, none of them twice.
THEOREM SplitImplementsLink ==
  ASSUME OneSender, ShortBursts PROVE Spec => ImplementsLink
<1>1. Init => LinkInv
  BY LinkInit
<1>2. LinkInv /\ [Next]_vars => LinkInv'
  BY LinkStep
<1>3. Init => Link!Init
  <2>1. Peer \in Senders
    BY ThePeer
  <2> QED BY <2>1 DEF Init, Link!Init
<1>4. LinkInv /\ [Next]_vars => [Link!Next]_(Link!lvars)
  <2> SUFFICES ASSUME LinkInv, [Next]_vars PROVE [Link!Next]_(Link!lvars)
    OBVIOUS
  <2>1. \/ packet'[Peer].id = packet[Peer].id + 1 /\ Handed' = Handed
        \/ Handed' \in (Handed + 1)..packet[Peer].id /\ packet'[Peer].id = packet[Peer].id
        \/ packet'[Peer].id = packet[Peer].id /\ Handed' = Handed
    BY LinkSimulates
  <2> QED BY <2>1 DEF Handed, Link!Next, Link!Send, Link!Deliver, Link!lvars
<1> QED BY <1>1, <1>2, <1>3, <1>4, PTL DEF Spec, ImplementsLink, Link!Spec
=============================================================================
