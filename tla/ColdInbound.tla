----------------------------- MODULE ColdInbound -----------------------------
(***************************************************************************)
(* Scenario cold-inbound: test_interop/cold_inbound_receiver announces,    *)
(* and a Python peer that never does sends it one packet.  The receiver    *)
(* proves the packet whatever it holds, and says in its later announces    *)
(* that it could read it ("ack"); the peer wants both.                     *)
(***************************************************************************)
EXTENDS Bench

VARIABLES
  cold,       \* received_ok, received_mismatch, foreign_announces > 0,
              \* received_at, last_announce
  coldSender  \* the peer: sent_at, Never while it has not sent; proven, ack_ok,
              \* last_announce

coldInbound == <<cold, coldSender>>

ColdInit ==
  /\ cold = [ok |-> FALSE, mismatch |-> FALSE, foreign |-> FALSE, at |-> Never,
             last_announce |-> Never]
  /\ coldSender = [sent_at |-> Never, proven |-> FALSE, ack_ok |-> FALSE,
                   last_announce |-> Never]

on_local_packet(c, got) ==
  [c EXCEPT !.ok = @ \/ "good" \in got, !.mismatch = @ \/ "bad" \in got]

\* ColdnessGuard::received_announce.
GuardColdness(c, got) == [c EXCEPT !.foreign = @ \/ "foreign" \in got]

ColdVerdict(c) == Code(c.ok /\ ~c.mismatch /\ ~c.foreign)

\* Mutant: the loop is left as soon as the packet is there.
LingeredNot(at) == at # Never

\* "keep looping after receipt so the proof and the ack announce leave"
Lingered(at) == at # Never /\ now - at >= Seconds(4)

\* The receiver's loop.  The first announce is made before it; the timer is set
\* in either case when it is due, also when there is nothing to announce.
ColdReceiver ==
  /\ scenario = "cold-inbound"
  /\ Running("cpp")
  /\ LET got == Heard("cpp")
         h == on_local_packet(GuardColdness(cold, got), got)
         at == IF cold.at = Never /\ (h.ok \/ h.mismatch) THEN now ELSE cold.at
         first == cold.last_announce = Never
         leaving == Lingered(at) \/ Elapsed("cpp") > Timeout
         due == ~leaving /\ ~first /\ now - cold.last_announce >= 3   \* 1.5 s
         c == [h EXCEPT !.at = at, !.last_announce = IF due \/ first THEN now ELSE @]
     IN  /\ cold' = c
         /\ Iterate("cpp",
                    (IF got \cap {"good", "bad"} # {} THEN {"proof"} ELSE {})
                      \cup (IF first THEN {"announce"} ELSE {})
                      \cup (IF due /\ h.ok THEN {"ack"} ELSE {})
                      \cup (IF due /\ ~h.ok /\ ~h.mismatch THEN {"announce"} ELSE {}),
                    IF leaving THEN ColdVerdict(c) ELSE On, TRUE)
  /\ UNCHANGED coldSender

\* _AnnounceHandler: any announce of the receiver teaches its identity, and one
\* acknowledges if its digest and hop count are the expected ones.  The switch
\* hops expects the hop count of the relayed run.
Taught(got) == got \cap {"announce", "ack"} # {}
Acks(got) == "ack" \in got /\ broken # "hops"

\* on_timeout: receipt.set_timeout(15).
ReceiptTimeout(p, proven) ==
  p.sent_at # Never /\ ~proven /\ now - p.sent_at >= Seconds(15)

\* cold_inbound_sender.py.  --self-test-break payload sends another payload,
\* coldness announces every two seconds.  A proof that waits when the receipt's
\* time is up is taken before it.
ColdSender ==
  /\ scenario = "cold-inbound"
  /\ Running("peer")
  /\ LET p == coldSender
         got == Heard("peer")
         send == p.sent_at = Never /\ Taught(got)
         proven == p.proven \/ "proof" \in got
         ack == p.ack_ok \/ Acks(got)
         warm == broken = "coldness" /\ now - p.last_announce >= Seconds(2)
     IN  IF Elapsed("peer") >= Timeout
         THEN /\ Leave("peer", IF p.sent_at # Never /\ p.proven /\ ~p.ack_ok THEN 1 ELSE 2)
              /\ UNCHANGED coldSender
         ELSE /\ coldSender' = [sent_at |-> IF send THEN now ELSE p.sent_at,
                                proven |-> proven, ack_ok |-> ack,
                                last_announce |-> IF warm THEN now ELSE p.last_announce]
              /\ Iterate("peer",
                         (IF send THEN {IF broken = "payload" THEN "bad" ELSE "good"} ELSE {})
                           \cup (IF warm THEN {"foreign"} ELSE {}),
                         IF proven /\ ack THEN 0
                         ELSE IF ReceiptTimeout(p, proven) THEN 1 ELSE On, TRUE)
  /\ UNCHANGED cold

\* What a pass shows: the packet was read, and by a peer that had heard nothing
\* from its sender, which took the hops it was expected to.
ColdEarned ==
  /\ broken # "hops"
  /\ reached["cpp"] = {"good"}
  /\ {"announce", "proof", "ack"} \subseteq reached["peer"]
=============================================================================
