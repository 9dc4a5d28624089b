------------------------------- MODULE TwoNode -------------------------------
(***************************************************************************)
(* Scenario two-node: two copies of test_interop/two_node over             *)
(* UDPInterface2.  The receiver, which driver.sh starts first, announces   *)
(* and waits for a packet; the originator learns it from the announce,     *)
(* sends one packet and waits for the proof.                               *)
(***************************************************************************)
EXTENDS Bench

VARIABLES
  receiver,   \* last_announce, payload_seen, payload_ok
  originator  \* peer_known, sent, proof_validated

twoNode == <<receiver, originator>>

TwoNodeInit ==
  /\ receiver = [last_announce |-> Never, payload_seen |-> FALSE, payload_ok |-> FALSE]
  /\ originator = [peer_known |-> FALSE, sent |-> FALSE, proof_validated |-> FALSE]

Packets == {"good", "bad"}

\* Mutant: the break is applied at both ends.
MatchesBroken(packet) == packet = IF broken = "payload" THEN "bad" ELSE "good"

\* on_local_packet compares with the payload as it should be.
Matches(packet) == packet = "good"

\* make_payload(break_payload()) at the originator.
Payload == IF broken = "payload" THEN "bad" ELSE "good"

\* Hearer::received_announce, of the first announce.
Learned(g) == g.peer_known \/ "announce" \in Heard("cpp")

\* The checks at the end.
ReceiverVerdict(r) == Code(r.payload_seen /\ r.payload_ok)
OriginatorVerdict(g) == Code(g.peer_known /\ g.sent /\ g.proof_validated)

AnnounceDue(last) == now - last > Seconds(2)

\* The receiver's loop: PROVE_ALL answers each packet from inside loop().  It
\* stays for six seconds at least, and until the packet comes or its time is up.
Receiver ==
  /\ scenario = "two-node"
  /\ Running("peer")
  /\ LET r == receiver
         packets == Heard("peer") \cap Packets
         seen == r.payload_seen \/ packets # {}
         ok == IF packets = {} THEN r.payload_ok ELSE \A p \in packets : Matches(p)
         due == AnnounceDue(r.last_announce)
         n == [last_announce |-> IF due THEN now ELSE r.last_announce,
               payload_seen |-> seen, payload_ok |-> ok]
         out == (IF packets # {} THEN {"proof"} ELSE {})
                \cup (IF due THEN {"announce"} ELSE {})
     IN  IF Elapsed("peer") >= Timeout
         THEN Leave("peer", ReceiverVerdict(r)) /\ UNCHANGED receiver
         ELSE /\ receiver' = n
              /\ Iterate("peer", out, IF seen /\ Elapsed("peer") > Seconds(6)
                                      THEN ReceiverVerdict(n) ELSE On, TRUE)
  /\ UNCHANGED originator

\* The originator's loop.  Identity::recall gives nothing until the stack has
\* remembered the announce ("stack"); the code then goes round again.
Originator ==
  /\ scenario = "two-node"
  /\ Running("cpp")
  /\ LET g == originator
         known == Learned(g)
         proved == g.sent /\ "proof" \in Heard("cpp")
     IN  IF Elapsed("cpp") >= Timeout
         THEN Leave("cpp", OriginatorVerdict(g)) /\ UNCHANGED originator
         ELSE \E recalled \in BOOLEAN :
                LET send == known /\ ~g.sent /\ recalled
                    n == [peer_known |-> known, sent |-> g.sent \/ send,
                          proof_validated |-> proved]
                IN  /\ originator' = n
                    /\ Iterate("cpp", IF send THEN {Payload} ELSE {},
                               IF proved THEN OriginatorVerdict(n) ELSE On, recalled)
  /\ UNCHANGED receiver

\* What a pass says: our decode of our encode, and the proof of it.
TwoNodeEarned ==
  /\ reached["peer"] \cap Packets = {"good"}
  /\ {"announce", "proof"} \subseteq reached["cpp"]
=============================================================================
