------------------------------ MODULE LoRaSplit ------------------------------
(***************************************************************************)
(* The framing of LoRaInterface: a packet of up to LORA_MAX_PAYLOAD bytes  *)
(* is one LoRa frame, a longer one is two frames with the same 3-bit       *)
(* sequence number, reassembled by one receiver that keeps a single        *)
(* partial packet whoever sent it.                                         *)
(*                                                                         *)
(* Frames on the air are lost, and frames of different senders interleave; *)
(* a frame that fails to transmit, collides, fails its CRC, or comes while *)
(* the receiver is stopped is lost all the same.  The payload is abstract: *)
(* what is left of it is which packet and which half a byte run is from.   *)
(***************************************************************************)
EXTENDS Integers, Sequences

CONSTANTS
  Senders,     \* the other nodes in range
  Lens,        \* packet lengths in bytes
  MaxPackets,  \* bound: packets each sender sends
  MaxBurst     \* bound: frames lost in a row

LORA_MAX_PAYLOAD == 254
HW_MTU == 508
HEADER_SEQ_MASK == 7
SEQ_UNSET == 255

ASSUME SplitAssumption ==
  /\ Lens \subseteq 0..HW_MTU /\ Lens # {}
  /\ MaxPackets \in Nat
  /\ MaxBurst \in Nat

VARIABLES
  tx_seq_ctr,  \* per sender: _tx_seq_ctr, a uint8_t
  packet,      \* per sender: the packet last given to send_outgoing
  out,         \* per sender: its frames not yet on the air
  online,      \* the receiver: _online
  rx_seq,      \* the receiver: _rx_seq
  buffer,      \* the receiver: buffer, as the parts appended to it
  deliv,       \* the buffer on_incoming was last called with
  \* history
  heard,       \* per sender: which parts of packet[s] the receiver has read
  burst        \* frames lost since the last one that carried a payload

rx == <<online, rx_seq, buffer, deliv>>
vars == <<tx_seq_ctr, packet, out, online, rx_seq, buffer, deliv, heard, burst>>

Packet == [src : Senders, id : 0..MaxPackets, len : Lens]
Parts(p) == IF p.len <= LORA_MAX_PAYLOAD THEN 1 ELSE 2
PartLen(p, i) == IF Parts(p) = 1 THEN p.len
                 ELSE IF i = 1 THEN LORA_MAX_PAYLOAD ELSE p.len - LORA_MAX_PAYLOAD
Frame == [split : BOOLEAN, seq : 0..HEADER_SEQ_MASK, pkt : Packet, part : 1..2]
Part == [pkt : Packet, part : 1..2]

TypeOK ==
  /\ tx_seq_ctr \in [Senders -> 0..255]
  /\ packet \in [Senders -> Packet]
  /\ out \in [Senders -> Seq(Frame)]
  /\ online \in BOOLEAN
  /\ rx_seq \in (0..HEADER_SEQ_MASK) \cup {SEQ_UNSET}
  /\ buffer \in Seq(Part)
  /\ deliv \in Seq(Part)
  /\ heard \in [Senders -> SUBSET (1..2)]
  /\ burst \in 0..MaxBurst

\* Packet 0 stands for "none yet".
Init ==
  /\ tx_seq_ctr = [s \in Senders |-> 0]
  /\ packet = [s \in Senders |-> [src |-> s, id |-> 0, len |-> CHOOSE n \in Lens : TRUE]]
  /\ out = [s \in Senders |-> << >>]
  /\ online = TRUE
  /\ rx_seq = SEQ_UNSET
  /\ buffer = << >>
  /\ deliv = << >>
  /\ heard = [s \in Senders |-> {}]
  /\ burst = 0

-----------------------------------------------------------------------------
\* Sending.

Single(p) == <<[split |-> FALSE, seq |-> 0, pkt |-> p, part |-> 1]>>

\* Mutant: a narrower sequence field.
SplitInTwoNarrow(p, ctr) ==
  [i \in 1..2 |-> [split |-> TRUE, seq |-> ctr % 4, pkt |-> p, part |-> i]]

\* Two frames under one header: (_tx_seq_ctr++) & HEADER_SEQ_MASK.
SplitInTwo(p, ctr) ==
  [i \in 1..2 |-> [split |-> TRUE, seq |-> ctr % (HEADER_SEQ_MASK + 1),
                   pkt |-> p, part |-> i]]

\* send_outgoing blocks until its frames are out, so a sender has one packet
\* under way at a time.
send_outgoing(s, n) ==
  /\ out[s] = << >>
  /\ packet[s].id < MaxPackets
  /\ LET p == [src |-> s, id |-> packet[s].id + 1, len |-> n]
     IN /\ packet' = [packet EXCEPT ![s] = p]
        /\ \/ /\ n <= LORA_MAX_PAYLOAD
              /\ out' = [out EXCEPT ![s] = Single(p)]
              /\ UNCHANGED tx_seq_ctr
           \/ /\ n > LORA_MAX_PAYLOAD
              /\ out' = [out EXCEPT ![s] = SplitInTwo(p, tx_seq_ctr[s])]
              /\ tx_seq_ctr' = [tx_seq_ctr EXCEPT ![s] = (@ + 1) % 256]
  /\ heard' = [heard EXCEPT ![s] = {}]
  /\ UNCHANGED <<rx, burst>>

\* Nobody hears the frame, or the receiver is stopped.
FrameLost(s) ==
  /\ out[s] # << >>
  /\ burst < MaxBurst
  /\ burst' = burst + 1
  /\ out' = [out EXCEPT ![s] = Tail(@)]
  /\ UNCHANGED <<tx_seq_ctr, packet, rx, heard>>

-----------------------------------------------------------------------------
\* Receiving: LoRaInterface::loop with a frame f read.

\* Mutant: no restart, a new first part is dropped while one is held.
FirstPartNoRestart(f) ==
  /\ f.split
  /\ rx_seq = SEQ_UNSET \/ rx_seq # f.seq
  /\ IF rx_seq = SEQ_UNSET
     THEN rx_seq' = f.seq /\ buffer' = <<[pkt |-> f.pkt, part |-> f.part]>>
     ELSE UNCHANGED <<rx_seq, buffer>>
  /\ UNCHANGED deliv

\* Mutant: the buffer is not cleared first.
FirstPartNoClear(f) ==
  /\ f.split
  /\ rx_seq = SEQ_UNSET \/ rx_seq # f.seq
  /\ rx_seq' = f.seq
  /\ buffer' = Append(buffer, [pkt |-> f.pkt, part |-> f.part])
  /\ UNCHANGED deliv

\* First part of a split, or a restart after a lost part.
FirstPart(f) ==
  /\ f.split
  /\ rx_seq = SEQ_UNSET \/ rx_seq # f.seq
  /\ rx_seq' = f.seq
  /\ buffer' = <<[pkt |-> f.pkt, part |-> f.part]>>
  /\ UNCHANGED deliv

\* The sequence matches: assemble and deliver.
SecondPart(f) ==
  /\ f.split
  /\ rx_seq = f.seq
  /\ buffer' = Append(buffer, [pkt |-> f.pkt, part |-> f.part])
  /\ rx_seq' = SEQ_UNSET
  /\ deliv' = buffer'

\* Not split: drop a stale partial packet and deliver.
WholePacket(f) ==
  /\ ~f.split
  /\ rx_seq' = SEQ_UNSET
  /\ buffer' = <<[pkt |-> f.pkt, part |-> f.part]>>
  /\ deliv' = buffer'

\* A frame with nothing behind its header is ignored.
HeaderOnly(f) ==
  /\ PartLen(f.pkt, f.part) = 0
  /\ UNCHANGED <<rx_seq, buffer, deliv, burst>>

FrameRead(s) ==
  /\ out[s] # << >>
  /\ online
  /\ LET f == Head(out[s])
     IN /\ \/ HeaderOnly(f)
           \/ /\ PartLen(f.pkt, f.part) > 0
              /\ FirstPart(f) \/ SecondPart(f) \/ WholePacket(f)
              /\ burst' = 0
        /\ heard' = [heard EXCEPT ![s] = @ \cup {f.part}]
  /\ out' = [out EXCEPT ![s] = Tail(@)]
  /\ UNCHANGED <<tx_seq_ctr, packet, online>>

\* stop() and start() leave _rx_seq and the buffer as they are.
stop == online /\ online' = FALSE
        /\ UNCHANGED <<tx_seq_ctr, packet, out, rx_seq, buffer, deliv, heard, burst>>

start == ~online /\ online' = TRUE
         /\ UNCHANGED <<tx_seq_ctr, packet, out, rx_seq, buffer, deliv, heard, burst>>

Next ==
  \/ \E s \in Senders, n \in Lens : send_outgoing(s, n)
  \/ \E s \in Senders : FrameLost(s) \/ FrameRead(s)
  \/ stop
  \/ start

Spec == Init /\ [][Next]_vars

-----------------------------------------------------------------------------
\* Properties.

\* on_incoming is never handed more than HW_MTU bytes, and never a third frame,
\* however the halves of several senders interleave and whichever are lost.
Bytes(b) == IF Len(b) = 1 THEN PartLen(b[1].pkt, b[1].part)
            ELSE PartLen(b[1].pkt, b[1].part) + PartLen(b[2].pkt, b[2].part)
BufferBounded ==
  \A b \in {buffer, deliv} : Len(b) <= 2 /\ (b # << >> => Bytes(b) <= HW_MTU)

\* The packet b is made of, whole and in order.
Whole(b) ==
  /\ b # << >>
  /\ Len(b) = Parts(b[1].pkt)
  /\ \A i \in 1..Len(b) : b[i] = [pkt |-> b[1].pkt, part |-> i]

\* With one sender in range, a packet all of whose frames are read is handed up:
\* no stale partial packet swallows its first half.
CompleteIsDelivered ==
  \A s \in Senders :
    (heard[s] = 1..Parts(packet[s]) /\ packet[s].len > 0)
      => (Whole(deliv) /\ deliv[1].pkt = packet[s])

\* With one sender the link is a LossyLink: what on_incoming is given is always
\* one packet, whole, and packets come in order and at most once, as long as
\* fewer than 14 frames are lost in a row: after the second half of a packet
\* alone, both halves of seven, the 3-bit sequence number has come round.
Peer == CHOOSE s \in Senders : TRUE
Link == INSTANCE LossyLink
          WITH sent <- packet[Peer].id,
               rcvd <- IF deliv = << >> THEN 0
                       ELSE IF Whole(deliv) THEN deliv[1].pkt.id ELSE MaxPackets + 1
ImplementsLink == Link!Spec
=============================================================================
