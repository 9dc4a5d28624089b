---------------------------- MODULE InteropProofs ----------------------------
(***************************************************************************)
(* Proofs about the interoperability bench: a PASS is earned, for every    *)
(* choice of scenarios, limits, switches and number of failures.           *)
(*                                                                         *)
(* The driver looks at two exit codes only.  Each scenario's invariant     *)
(* ties them to what went over the wire: the code to the flags the program *)
(* ends with, a flag to the datagrams the program was handed, and a        *)
(* datagram to what its sender had been handed before.                     *)
(***************************************************************************)
EXTENDS Interop, TLAPS

Statuses == {"off", "up", "exited", "killed"}
Known == {"two-node", "cold-inbound", "link-inbound", "page-fetch"} \cup LxmfScenarios

\* A datagram that was handed to s or waits for it.
Sent(s) == sock[s] \cup reached[s]

\* s has printed SUCCESS.
Done(s) == side[s] = "exited" /\ rc[s] = 0

BenchInv ==
  /\ now \in Nat
  /\ side \in [Sides -> Statuses]
  /\ DOMAIN rc = Sides /\ DOMAIN sock = Sides /\ DOMAIN reached = Sides
  /\ faults \in [BenchFaults -> Nat]
  /\ \A s \in Sides : side[s] = "exited" => scenario \in Known
  /\ verdict = "pass" => \A s \in Sides : Done(s)

\* The packet is the same at every send, so one that matched is one that was right.
TwoNodeInv ==
  /\ DOMAIN receiver = {"last_announce", "payload_seen", "payload_ok"}
  /\ Sent("peer") \cap Packets \subseteq {Payload}
  /\ receiver.payload_seen => reached["peer"] \cap Packets # {}
  /\ receiver.payload_ok => Payload = "good"
  /\ originator.peer_known => "announce" \in reached["cpp"]
  /\ originator.proof_validated => "proof" \in reached["cpp"]
  /\ Done("peer") => receiver.payload_seen /\ receiver.payload_ok
  /\ Done("cpp") => originator.peer_known /\ originator.proof_validated

\* The proof and the ack answer a packet, and that answers an announce.
ColdInv ==
  /\ cold = [ok |-> cold.ok, mismatch |-> cold.mismatch, foreign |-> cold.foreign,
             at |-> cold.at, last_announce |-> cold.last_announce]
  /\ Sent("cpp") \subseteq {"good", "bad", "foreign"}
  /\ Sent("cpp") \cap {"good", "bad"} # {} => "announce" \in reached["peer"]
  /\ Sent("peer") \cap {"proof", "ack"} # {} => reached["cpp"] \cap {"good", "bad"} # {}
  /\ cold.ok => "good" \in reached["cpp"]
  /\ "bad" \in reached["cpp"] => cold.mismatch
  /\ "foreign" \in reached["cpp"] => cold.foreign
  /\ coldSender.proven => "proof" \in reached["peer"]
  /\ coldSender.ack_ok => "ack" \in reached["peer"] /\ broken # "hops"
  /\ Done("cpp") => cold.ok /\ ~cold.mismatch /\ ~cold.foreign
  /\ Done("peer") => coldSender.proven /\ coldSender.ack_ok

Messages == {"good", "bad", "big"}
Answer == IF ExpectReject THEN "refusal" ELSE "proof"

\* The message is the same whenever it is sent, and is answered once it is there.
LxmfInv ==
  /\ Sent("cpp") \cap Messages \subseteq {Message}
  /\ Sent("peer") \cap {"proof", "refusal"} # {} => reached["cpp"] \cap Messages # {}
  /\ lxmf.seen /\ ~lxmf.failed => "good" \in reached["cpp"]
  /\ Done("cpp") => IF ExpectReject THEN ~lxmf.seen ELSE lxmf.seen /\ ~lxmf.failed
  /\ Done("peer") => Answer \in reached["peer"] \/ (ExpectReject /\ lxmfSender.gave_up)

\* The wire is cut once.  An end that closed the link as timed out had been left
\* by the other end, unless the link really was silent; and not both can have been
\* left first.
Hushed == Silent \/ faults["slow"] # 0
TimedOut(s) == IF s = "peer" THEN initiator.closed = "timeout" ELSE responder.closed = "timeout"
Unanswered ==
  /\ \A s \in Sides : TimedOut(s) /\ ~Ended(Other(s)) => Hushed
  /\ (\A s \in Sides : TimedOut(s)) => Hushed

LinkInv ==
  /\ cutAt \in Int
  /\ initiator.phase \in {"announce", "establish", "data", "idle", "cut"}
  /\ responder = [established |-> responder.established, closed |-> responder.closed,
                  ok |-> responder.ok, mismatch |-> responder.mismatch,
                  last_announce |-> responder.last_announce]
  /\ initiator.phase \in {"idle", "cut"} => "echo" \in reached["peer"] \/ initiator.failed
  /\ cutAt # Never => initiator.phase = "cut"
  /\ Sent("cpp") \cap {"good", "bad"} \subseteq {LinkPayload}
  /\ responder.established => "link" \in reached["cpp"]
  /\ responder.ok => "good" \in reached["cpp"]
  /\ Unanswered
  /\ Done("cpp") => responder.established /\ responder.ok /\ TimedOut("cpp")
  /\ Done("peer") => ~initiator.failed /\ initiator.phase = "cut" /\ TimedOut("peer")

\* There is one open request at most, for the page the phase stands at, which has
\* not been answered before; no later page has been asked for.
Rank == [plain |-> 1, gz |-> 2, mid |-> 3, big |-> 4]
AskedInOrder ==
  /\ fetch = [announce_seen |-> fetch.announce_seen, link |-> fetch.link,
              phase |-> fetch.phase, done |-> fetch.done,
              big_deadline |-> fetch.big_deadline, left |-> fetch.left]
  /\ fetch.phase \in Pages /\ fetch.done \in BOOLEAN
  /\ fetch.link \in {"none", "opening", "up", "closed"}
  /\ passed \in [Pages -> BOOLEAN]
  /\ truth \in [Pages -> SUBSET {"response", "failed", "timeout"}]
  /\ \A r \in open : r.page = fetch.phase
  /\ \A r, q \in open : r = q
  /\ open # {} => truth[fetch.phase] = {} /\ ~passed[fetch.phase]
  /\ \A p \in Pages : Rank[p] > Rank[fetch.phase] => truth[p] = {} /\ ~passed[p]
  /\ fetch.link \in {"none", "opening"}
       => open = {} /\ fetch.phase = "plain" /\ truth["plain"] = {} /\ ~passed["plain"]
  /\ fetch.link # "none" => fetch.announce_seen
  /\ fetch.done => fetch.left # Never
  /\ \A p \in Pages \ {"big"} : passed[p] => truth[p] = {"response"}
  /\ passed["big"] => truth["big"] \in {{"failed"}, {"timeout"}}

FetchInv ==
  /\ AskedInOrder
  /\ Done("cpp") => \A p \in Pages : passed[p]

InteropInv ==
  /\ BenchInv
  /\ scenario = "two-node" => TwoNodeInv
  /\ scenario = "cold-inbound" => ColdInv
  /\ scenario \in LxmfScenarios => LxmfInv
  /\ scenario = "link-inbound" => LinkInv
  /\ scenario = "page-fetch" => FetchInv

-----------------------------------------------------------------------------
(* The bench.                                                              *)

\* What one step of s changes: it is handed what waited, sends no more than out,
\* and exits with code if that is one.
Moves(s, out, code) ==
  LET o == Other(s)
  IN  /\ DOMAIN rc' = Sides /\ DOMAIN sock' = Sides /\ DOMAIN reached' = Sides
      /\ side' \in [Sides -> Statuses]
      /\ sock'[s] = {} /\ sock'[o] \subseteq sock[o] \cup out
      /\ reached'[s] = reached[s] \cup Heard(s) /\ reached'[o] = reached[o]
      /\ Heard(s) \subseteq sock[s]
      /\ side'[o] = side[o] /\ rc'[o] = rc[o]
      /\ side[s] = "up"
      /\ code # On => side'[s] = "exited" /\ rc'[s] = code
      /\ code = On => side'[s] = "up"
      /\ faults' \in [BenchFaults -> Nat] /\ (faults["slow"] # 0 => faults'["slow"] # 0)
      /\ UNCHANGED <<scenario, broken, now, t0, verdict>>

\* A failure is added to the ones there were.
LEMMA FailingAdds ==
  ASSUME BenchInv, NEW kinds, Failing(kinds)
  PROVE  faults' \in [BenchFaults -> Nat] /\ (faults["slow"] # 0 => faults'["slow"] # 0)
<1>1. faults \in [BenchFaults -> Nat] /\ "slow" \in BenchFaults
  BY DEF BenchInv, BenchFaults
<1>2. faults' = [f \in BenchFaults |-> IF f \in kinds THEN faults[f] + 1 ELSE faults[f]]
  BY DEF Failing
<1>3. faults' \in [BenchFaults -> Nat]
  BY <1>1, <1>2
<1>4. faults["slow"] \in Nat
        /\ faults'["slow"] = IF "slow" \in kinds THEN faults["slow"] + 1 ELSE faults["slow"]
  BY <1>1, <1>2
<1> QED BY <1>3, <1>4

LEMMA IterateMoves ==
  ASSUME BenchInv, NEW s \in Sides, NEW out, NEW code, NEW well, Iterate(s, out, code, well)
  PROVE  Moves(s, out, code)
<1> DEFINE o == Other(s)
<1>1. o \in Sides /\ o # s
  BY DEF Sides, Other
<1>2. PICK sent, lost : /\ sent \subseteq out
                        /\ sock' = [sock EXCEPT ![s] = {}, ![o] = @ \cup (sent \ lost)]
  <2>1. (IF online[s] /\ online[o] THEN out ELSE {}) \subseteq out
    OBVIOUS
  <2> QED BY <2>1 DEF Iterate
<1>3. /\ DOMAIN sock = Sides /\ DOMAIN reached = Sides /\ DOMAIN rc = Sides
      /\ side \in [Sides -> Statuses]
  BY DEF BenchInv
<1>4. DOMAIN sock' = Sides /\ sock'[s] = {} /\ sock'[o] \subseteq sock[o] \cup out
  BY <1>1, <1>2, <1>3
<1>5. /\ DOMAIN reached' = Sides
      /\ reached'[s] = reached[s] \cup Heard(s) /\ reached'[o] = reached[o]
  BY <1>1, <1>3 DEF Iterate
<1>6. Heard(s) \subseteq sock[s]
  BY DEF Heard
<1>7. Close(s, code) /\ side[s] = "up"
  BY DEF Iterate, Runs, Running
<1>8. /\ side' \in [Sides -> Statuses] /\ side'[o] = side[o]
      /\ side'[s] = IF code = On THEN "up" ELSE "exited"
  BY <1>1, <1>3, <1>7 DEF Close, Statuses
<1>9. DOMAIN rc' = Sides /\ rc'[o] = rc[o] /\ rc'[s] = IF code = On THEN 0 ELSE code
  BY <1>1, <1>3, <1>7 DEF Close
<1>10. UNCHANGED <<scenario, broken, now, t0, verdict>>
  BY <1>7 DEF Close
<1>11. faults' \in [BenchFaults -> Nat] /\ (faults["slow"] # 0 => faults'["slow"] # 0)
  BY FailingAdds DEF Iterate
<1> QED BY <1>4, <1>5, <1>6, <1>7, <1>8, <1>9, <1>10, <1>11 DEF Moves

\* A process that leaves has been handed nothing more.
LEMMA LeaveFacts ==
  ASSUME BenchInv, NEW s \in Sides, NEW code \in Nat, Leave(s, code)
  PROVE  /\ DOMAIN rc' = Sides /\ DOMAIN sock' = Sides /\ reached' = reached
         /\ side' \in [Sides -> Statuses]
         /\ sock'[s] = {} /\ sock'[Other(s)] = sock[Other(s)]
         /\ side'[Other(s)] = side[Other(s)] /\ rc'[Other(s)] = rc[Other(s)]
         /\ side[s] = "up" /\ side'[s] = "exited" /\ rc'[s] = code
         /\ UNCHANGED <<scenario, broken, now, t0, verdict, faults>>
<1>1. Other(s) \in Sides /\ Other(s) # s /\ code # On
  BY DEF Sides, Other, On
<1>2. /\ DOMAIN sock = Sides /\ DOMAIN rc = Sides /\ side \in [Sides -> Statuses]
  BY DEF BenchInv
<1>3. Close(s, code) /\ sock' = [sock EXCEPT ![s] = {}] /\ reached' = reached /\ side[s] = "up"
        /\ faults' = faults
  BY DEF Leave, Runs, Running
<1>4. /\ side' \in [Sides -> Statuses] /\ side'[Other(s)] = side[Other(s)]
      /\ side'[s] = "exited"
  BY <1>1, <1>2, <1>3 DEF Close, Statuses
<1>5. DOMAIN rc' = Sides /\ rc'[Other(s)] = rc[Other(s)] /\ rc'[s] = code
  BY <1>1, <1>2, <1>3 DEF Close
<1>6. UNCHANGED <<scenario, broken, now, t0, verdict>>
  BY <1>3 DEF Close
<1> QED BY <1>1, <1>2, <1>3, <1>4, <1>5, <1>6

LEMMA MovesKeepBench ==
  ASSUME BenchInv, NEW s \in Sides, scenario \in Known, NEW out, NEW code, Moves(s, out, code)
  PROVE  BenchInv'
<1>1. verdict # "pass"
  BY DEF BenchInv, Done, Moves
<1>2. scenario' = scenario /\ verdict' = verdict /\ now' = now
  BY DEF Moves
<1>3. /\ DOMAIN rc' = Sides /\ DOMAIN sock' = Sides /\ DOMAIN reached' = Sides
      /\ side' \in [Sides -> Statuses] /\ faults' \in [BenchFaults -> Nat]
  BY DEF Moves
<1> QED BY <1>1, <1>2, <1>3 DEF BenchInv, Known, LxmfScenarios

LEMMA LeaveKeepsBench ==
  ASSUME BenchInv, NEW s \in Sides, scenario \in Known, NEW code \in Nat, Leave(s, code)
  PROVE  BenchInv'
<1>1. verdict # "pass"
  BY LeaveFacts DEF BenchInv, Done
<1>2. scenario' = scenario /\ verdict' = verdict /\ now' = now
  BY LeaveFacts
<1>3. /\ DOMAIN rc' = Sides /\ DOMAIN sock' = Sides /\ DOMAIN reached' = Sides
      /\ side' \in [Sides -> Statuses] /\ faults' \in [BenchFaults -> Nat]
  BY LeaveFacts DEF BenchInv
<1> QED BY <1>1, <1>2, <1>3 DEF BenchInv, Known, LxmfScenarios

\* The same, with the two sides named.
LEMMA PeerMoves ==
  ASSUME BenchInv, NEW out, NEW code, NEW well, Iterate("peer", out, code, well)
  PROVE  /\ Moves("peer", out, code)
         /\ Sent("peer")' \subseteq Sent("peer") /\ Sent("cpp")' \subseteq Sent("cpp") \cup out
         /\ reached'["peer"] = reached["peer"] \cup Heard("peer")
         /\ reached'["cpp"] = reached["cpp"]
         /\ Heard("peer") \subseteq sock["peer"]
         /\ (Done("cpp")' <=> Done("cpp")) /\ (Done("peer")' => code = 0)
         /\ (Ended("cpp")' <=> Ended("cpp")) /\ ~Ended("peer")
         /\ (faults["slow"] # 0 => faults'["slow"] # 0)
         /\ scenario' = scenario /\ broken' = broken /\ now' = now /\ side["peer"] = "up"
<1>1. Moves("peer", out, code)
  BY IterateMoves DEF Sides
<1>2. Other("peer") = "cpp"
  BY DEF Other
<1>3. code # 0 => ~Done("peer")'
  BY <1>1 DEF Moves, Done, On
<1> QED BY <1>1, <1>2, <1>3 DEF Moves, Sent, Done, Ended

LEMMA CppMoves ==
  ASSUME BenchInv, NEW out, NEW code, NEW well, Iterate("cpp", out, code, well)
  PROVE  /\ Moves("cpp", out, code)
         /\ Sent("cpp")' \subseteq Sent("cpp") /\ Sent("peer")' \subseteq Sent("peer") \cup out
         /\ reached'["cpp"] = reached["cpp"] \cup Heard("cpp")
         /\ reached'["peer"] = reached["peer"]
         /\ Heard("cpp") \subseteq sock["cpp"]
         /\ (Done("peer")' <=> Done("peer")) /\ (Done("cpp")' => code = 0)
         /\ (Ended("peer")' <=> Ended("peer")) /\ ~Ended("cpp")
         /\ (faults["slow"] # 0 => faults'["slow"] # 0)
         /\ scenario' = scenario /\ broken' = broken /\ now' = now /\ side["cpp"] = "up"
<1>1. Moves("cpp", out, code)
  BY IterateMoves DEF Sides
<1>2. Other("cpp") = "peer"
  BY DEF Other
<1>3. code # 0 => ~Done("cpp")'
  BY <1>1 DEF Moves, Done, On
<1> QED BY <1>1, <1>2, <1>3 DEF Moves, Sent, Done, Ended

LEMMA PeerLeaves ==
  ASSUME BenchInv, NEW code \in Nat, Leave("peer", code)
  PROVE  /\ Sent("peer")' \subseteq Sent("peer") /\ Sent("cpp")' = Sent("cpp")
         /\ reached' = reached /\ (Done("cpp")' <=> Done("cpp")) /\ (Done("peer")' => code = 0)
         /\ scenario' = scenario /\ broken' = broken /\ now' = now /\ side["peer"] = "up"
<1>1. "peer" \in Sides /\ Other("peer") = "cpp"
  BY DEF Sides, Other
<1> QED BY <1>1, LeaveFacts DEF Sent, Done

LEMMA CppLeaves ==
  ASSUME BenchInv, NEW code \in Nat, Leave("cpp", code)
  PROVE  /\ Sent("cpp")' \subseteq Sent("cpp") /\ Sent("peer")' = Sent("peer")
         /\ reached' = reached /\ (Done("peer")' <=> Done("peer")) /\ (Done("cpp")' => code = 0)
         /\ scenario' = scenario /\ broken' = broken /\ now' = now /\ side["cpp"] = "up"
<1>1. "cpp" \in Sides /\ Other("cpp") = "peer"
  BY DEF Sides, Other
<1> QED BY <1>1, LeaveFacts DEF Sent, Done

-----------------------------------------------------------------------------
(* Scenario two-node.                                                      *)

LEMMA ReceiverKeeps ==
  ASSUME BenchInv, TwoNodeInv, Receiver
  PROVE  BenchInv' /\ TwoNodeInv'
<1> DEFINE r == receiver
           packets == Heard("peer") \cap Packets
           seen == r.payload_seen \/ packets # {}
           ok == IF packets = {} THEN r.payload_ok ELSE \A p \in packets : Matches(p)
<1>0. scenario \in Known /\ "peer" \in Sides /\ originator' = originator
  BY DEF Receiver, Known, Sides
<1>1. CASE Leave("peer", ReceiverVerdict(r)) /\ UNCHANGED receiver
  <2>1. ReceiverVerdict(r) \in Nat
            /\ (ReceiverVerdict(r) = 0 => r.payload_seen /\ r.payload_ok)
    BY DEF ReceiverVerdict, Code
  <2>2. BenchInv'
    BY <1>0, <1>1, <2>1, LeaveKeepsBench
  <2> HIDE DEF r
  <2>3. TwoNodeInv'
    BY <1>0, <1>1, <2>1, PeerLeaves DEF TwoNodeInv, Payload, r
  <2> QED BY <2>2, <2>3
<1>2. CASE \E out, due : /\ out \subseteq {"proof", "announce"}
                         /\ receiver' = [last_announce |-> due, payload_seen |-> seen,
                                         payload_ok |-> ok]
                         /\ \E code \in {ReceiverVerdict(receiver'), On} :
                              Iterate("peer", out, code, TRUE)
  <2>1. PICK out, due, code :
               /\ out \subseteq {"proof", "announce"}
               /\ receiver' = [last_announce |-> due, payload_seen |-> seen, payload_ok |-> ok]
               /\ code \in {ReceiverVerdict(receiver'), On}
               /\ Iterate("peer", out, code, TRUE)
    BY <1>2
  <2>2. BenchInv'
    BY <1>0, <2>1, PeerMoves, MovesKeepBench
  <2>3. code = 0 => receiver'.payload_seen /\ receiver'.payload_ok
    BY <2>1 DEF ReceiverVerdict, Code, On
  <2>4. packets # {} => reached'["peer"] \cap Packets # {}
    BY <2>1, PeerMoves
  <2>5. ok => Payload = "good"
    <3>1. CASE packets = {}
      BY <3>1 DEF TwoNodeInv
    <3>2. CASE packets # {}
      BY <3>2, <2>1, PeerMoves DEF TwoNodeInv, Matches, Sent
    <3> QED BY <3>1, <3>2
  <2>6. receiver'.payload_seen = seen /\ receiver'.payload_ok = ok
          /\ DOMAIN receiver' = {"last_announce", "payload_seen", "payload_ok"}
    BY <2>1
  <2> HIDE DEF seen, ok, packets
  <2>7. seen => reached'["peer"] \cap Packets # {}
    BY <2>4, <2>1, PeerMoves DEF TwoNodeInv, seen
  <2>8. Payload' = Payload
    BY <2>1, PeerMoves DEF Payload
  <2> QED BY <1>0, <2>1, <2>2, <2>3, <2>5, <2>6, <2>7, <2>8, PeerMoves DEF TwoNodeInv
<1> QED
  <2>1. CASE Elapsed("peer") >= Timeout
    BY <1>1, <2>1 DEF Receiver
  <2>2. CASE ~(Elapsed("peer") >= Timeout)
    BY <1>2, <2>2 DEF Receiver
  <2> QED BY <2>1, <2>2

LEMMA OriginatorKeeps ==
  ASSUME BenchInv, TwoNodeInv, Originator
  PROVE  BenchInv' /\ TwoNodeInv'
<1> DEFINE g == originator
           known == Learned(g)
           proved == g.sent /\ "proof" \in Heard("cpp")
<1>0. scenario \in Known /\ "cpp" \in Sides /\ receiver' = receiver
  BY DEF Originator, Known, Sides
<1>1. CASE Leave("cpp", OriginatorVerdict(g)) /\ UNCHANGED originator
  <2>1. OriginatorVerdict(g) \in Nat
            /\ (OriginatorVerdict(g) = 0 => g.peer_known /\ g.proof_validated)
    BY DEF OriginatorVerdict, Code
  <2>2. BenchInv'
    BY <1>0, <1>1, <2>1, LeaveKeepsBench
  <2> HIDE DEF g
  <2>3. TwoNodeInv'
    BY <1>0, <1>1, <2>1, CppLeaves DEF TwoNodeInv, Payload, g
  <2> QED BY <2>2, <2>3
<1>2. CASE \E sent, out, well :
             /\ out \subseteq {Payload}
             /\ originator' = [peer_known |-> known, sent |-> sent, proof_validated |-> proved]
             /\ \E code \in {OriginatorVerdict(originator'), On} :
                  Iterate("cpp", out, code, well)
  <2>1. PICK sent, out, well, code :
               /\ out \subseteq {Payload}
               /\ originator' = [peer_known |-> known, sent |-> sent, proof_validated |-> proved]
               /\ code \in {OriginatorVerdict(originator'), On}
               /\ Iterate("cpp", out, code, well)
    BY <1>2
  <2>2. BenchInv'
    BY <1>0, <2>1, CppMoves, MovesKeepBench
  <2>3. code = 0 => originator'.peer_known /\ originator'.proof_validated
    BY <2>1 DEF OriginatorVerdict, Code, On
  <2>4. originator'.peer_known = known /\ originator'.proof_validated = proved
    BY <2>1
  <2>5. known => "announce" \in reached'["cpp"]
    BY <2>1, CppMoves DEF TwoNodeInv, Learned
  <2>6. proved => "proof" \in reached'["cpp"]
    BY <2>1, CppMoves
  <2> HIDE DEF known, proved
  <2>7. Payload' = Payload
    BY <2>1, CppMoves DEF Payload
  <2> QED BY <1>0, <2>1, <2>2, <2>3, <2>4, <2>5, <2>6, <2>7, CppMoves DEF TwoNodeInv
<1> QED
  <2>1. CASE Elapsed("cpp") >= Timeout
    BY <1>1, <2>1 DEF Originator
  <2>2. CASE ~(Elapsed("cpp") >= Timeout)
    BY <1>2, <2>2 DEF Originator
  <2> QED BY <2>1, <2>2

-----------------------------------------------------------------------------
(* Scenario cold-inbound.                                                  *)

LEMMA ColdReceiverKeeps ==
  ASSUME BenchInv, ColdInv, ColdReceiver
  PROVE  BenchInv' /\ ColdInv'
<1> DEFINE got == Heard("cpp")
           h == on_local_packet(GuardColdness(cold, got), got)
<1>0. scenario \in Known /\ "cpp" \in Sides /\ coldSender' = coldSender
  BY DEF ColdReceiver, Known, Sides
<1>1. PICK at, last, out, code :
        /\ cold' = [h EXCEPT !.at = at, !.last_announce = last]
        /\ "proof" \in out => got \cap {"good", "bad"} # {}
        /\ "ack" \in out => h.ok
        /\ code \in {ColdVerdict(cold'), On}
        /\ Iterate("cpp", out, code, TRUE)
  <2> DEFINE a == IF cold.at = Never /\ (h.ok \/ h.mismatch) THEN now ELSE cold.at
             first == cold.last_announce = Never
             leaving == Lingered(a) \/ Elapsed("cpp") > Timeout
             due == ~leaving /\ ~first /\ now - cold.last_announce >= 3
             l == IF due \/ first THEN now ELSE h.last_announce
             c == [h EXCEPT !.at = a, !.last_announce = l]
             out == (IF got \cap {"good", "bad"} # {} THEN {"proof"} ELSE {})
                      \cup (IF first THEN {"announce"} ELSE {})
                      \cup (IF due /\ h.ok THEN {"ack"} ELSE {})
                      \cup (IF due /\ ~h.ok /\ ~h.mismatch THEN {"announce"} ELSE {})
             code == IF leaving THEN ColdVerdict(c) ELSE On
  <2>1. cold' = [h EXCEPT !.at = a, !.last_announce = IF due \/ first THEN now ELSE @]
          /\ Iterate("cpp", out, IF leaving THEN ColdVerdict([h EXCEPT !.at = a,
                !.last_announce = IF due \/ first THEN now ELSE @]) ELSE On, TRUE)
    BY DEF ColdReceiver
  <2>2. ("proof" \in out => got \cap {"good", "bad"} # {}) /\ ("ack" \in out => h.ok)
    OBVIOUS
  <2>3. [h EXCEPT !.at = a, !.last_announce = IF due \/ first THEN now ELSE @] = c
    BY DEF on_local_packet, GuardColdness
  <2>4. cold' = c /\ Iterate("cpp", out, code, TRUE)
    BY <2>1, <2>3
  <2>5. code \in {ColdVerdict(cold'), On}
    BY <2>4
  <2> HIDE DEF out, code, a, l, h, got
  <2> QED BY <2>2, <2>4, <2>5
<1>2. BenchInv'
  BY <1>0, <1>1, CppMoves, MovesKeepBench
<1>3. /\ cold' = [ok |-> cold'.ok, mismatch |-> cold'.mismatch, foreign |-> cold'.foreign,
                  at |-> cold'.at, last_announce |-> cold'.last_announce]
      /\ cold'.ok = (cold.ok \/ "good" \in got) /\ h.ok = cold'.ok
      /\ cold'.mismatch = (cold.mismatch \/ "bad" \in got)
      /\ cold'.foreign = (cold.foreign \/ "foreign" \in got)
  BY <1>1 DEF ColdInv, on_local_packet, GuardColdness
<1>4. code = 0 => cold'.ok /\ ~cold'.mismatch /\ ~cold'.foreign
  BY <1>1 DEF ColdVerdict, Code, On
<1> HIDE DEF h
<1>5. reached'["cpp"] = reached["cpp"] \cup got /\ reached'["peer"] = reached["peer"]
  BY <1>1, CppMoves
<1>6. "proof" \in out => reached'["cpp"] \cap {"good", "bad"} # {}
  BY <1>1, <1>5
<1> HIDE DEF got
<1>7. /\ cold'.ok => "good" \in reached'["cpp"]
      /\ "bad" \in reached'["cpp"] => cold'.mismatch
      /\ "foreign" \in reached'["cpp"] => cold'.foreign
  BY <1>3, <1>5 DEF ColdInv
<1>8. Sent("cpp")' \subseteq Sent("cpp") /\ (Done("peer")' <=> Done("peer"))
        /\ (Done("cpp")' => code = 0) /\ Sent("peer")' \subseteq Sent("peer") \cup out
        /\ broken' = broken
  BY <1>1, CppMoves
<1>9. Sent("peer")' \cap {"proof", "ack"} # {} => reached'["cpp"] \cap {"good", "bad"} # {}
  BY <1>1, <1>3, <1>5, <1>6, <1>7, <1>8 DEF ColdInv
<1>10. ColdInv'
  BY <1>0, <1>3, <1>4, <1>5, <1>7, <1>8, <1>9 DEF ColdInv
<1> QED BY <1>2, <1>10

LEMMA ColdSenderKeeps ==
  ASSUME BenchInv, ColdInv, ColdSender
  PROVE  BenchInv' /\ ColdInv'
<1> DEFINE got == Heard("peer")
           p == coldSender
           proven == p.proven \/ "proof" \in got
           ack == p.ack_ok \/ Acks(got)
<1>0. scenario \in Known /\ "peer" \in Sides /\ cold' = cold
  BY DEF ColdSender, Known, Sides
<1>1. CASE (\E code \in {1, 2} : Leave("peer", code)) /\ UNCHANGED coldSender
  <2>1. BenchInv'
    BY <1>0, <1>1, LeaveKeepsBench
  <2>2. ColdInv'
    BY <1>0, <1>1, PeerLeaves DEF ColdInv
  <2> QED BY <2>1, <2>2
<1>2. CASE \E sent, last, out, code :
             /\ coldSender' = [sent_at |-> sent, proven |-> proven, ack_ok |-> ack,
                               last_announce |-> last]
             /\ out \subseteq {"good", "bad", "foreign"}
             /\ out \cap {"good", "bad"} # {} => Taught(got)
             /\ code = 0 => proven /\ ack
             /\ Iterate("peer", out, code, TRUE)
  <2>1. PICK sent, last, out, code :
             /\ coldSender' = [sent_at |-> sent, proven |-> proven, ack_ok |-> ack,
                               last_announce |-> last]
             /\ out \subseteq {"good", "bad", "foreign"}
             /\ out \cap {"good", "bad"} # {} => Taught(got)
             /\ code = 0 => proven /\ ack
             /\ Iterate("peer", out, code, TRUE)
    BY <1>2
  <2>2. BenchInv'
    BY <1>0, <2>1, PeerMoves, MovesKeepBench
  <2>3. reached'["peer"] = reached["peer"] \cup got /\ reached'["cpp"] = reached["cpp"]
          /\ Sent("peer")' \subseteq Sent("peer") /\ Sent("cpp")' \subseteq Sent("cpp") \cup out
          /\ (Done("cpp")' <=> Done("cpp")) /\ (Done("peer")' => proven /\ ack)
          /\ got \subseteq Sent("peer") /\ broken' = broken
    <3> DEFINE well == TRUE
    <3>1. Iterate("peer", out, code, well) /\ (code = 0 => proven /\ ack)
      BY <2>1
    <3> HIDE DEF well, proven, ack
    <3> QED BY <3>1, PeerMoves DEF Sent
  <2>4. coldSender'.proven = proven /\ coldSender'.ack_ok = ack
    BY <2>1
  <2>5. /\ proven => "proof" \in reached'["peer"]
        /\ ack => "ack" \in reached'["peer"] /\ broken' # "hops"
    BY <2>3 DEF ColdInv, Acks
  <2> HIDE DEF proven, ack, got
  <2>6. Sent("cpp")' \cap {"good", "bad"} # {} => "announce" \in reached'["peer"]
    <3>1. CASE out \cap {"good", "bad"} = {}
      BY <2>1, <2>3, <3>1 DEF ColdInv
    <3>2. CASE "announce" \in got
      BY <2>3, <3>2
    <3>3. CASE "ack" \in got
      BY <2>3, <3>3 DEF ColdInv, Sent
    <3> QED BY <2>1, <3>1, <3>2, <3>3 DEF Taught
  <2>7. Sent("cpp")' \subseteq {"good", "bad", "foreign"}
    BY <2>1, <2>3 DEF ColdInv
  <2> QED BY <1>0, <2>2, <2>3, <2>4, <2>5, <2>6, <2>7 DEF ColdInv
<1> QED
  <2>1. CASE Elapsed("peer") >= Timeout
    BY <1>1, <2>1 DEF ColdSender
  <2>2. CASE ~(Elapsed("peer") >= Timeout)
    <3> DEFINE send == p.sent_at = Never /\ Taught(got)
               warm == broken = "coldness" /\ now - p.last_announce >= Seconds(2)
               out == (IF send THEN {IF broken = "payload" THEN "bad" ELSE "good"} ELSE {})
                        \cup (IF warm THEN {"foreign"} ELSE {})
               code == IF proven /\ ack THEN 0
                       ELSE IF ReceiptTimeout(p, proven) THEN 1 ELSE On
    <3>1. /\ coldSender' = [sent_at |-> IF send THEN now ELSE p.sent_at, proven |-> proven,
                            ack_ok |-> ack, last_announce |-> IF warm THEN now ELSE p.last_announce]
          /\ Iterate("peer", out, code, TRUE)
      BY <2>2 DEF ColdSender
    <3>2. out \subseteq {"good", "bad", "foreign"}
            /\ (out \cap {"good", "bad"} # {} => Taught(got))
      OBVIOUS
    <3>3. code = 0 => proven /\ ack
      BY DEF On
    <3> HIDE DEF out, code, send, warm, proven, ack
    <3> QED BY <1>2, <3>1, <3>2, <3>3
  <2> QED BY <2>1, <2>2

-----------------------------------------------------------------------------
(* Scenarios lxmf-inbound and lxmf-oversized-reject.                       *)

LEMMA LxmfReceiverKeeps ==
  ASSUME BenchInv, LxmfInv, LxmfReceiver
  PROVE  BenchInv' /\ LxmfInv'
<1> DEFINE got == Heard("cpp")
           messages == got \cap Messages
           known == lxmf.known \/ "hello" \in got
           Seen(d) == lxmf.seen \/ (messages # {} /\ d)
           Failed(d) == lxmf.failed \/ (messages # {} /\ d /\ Mismatch(messages, known))
<1>0. scenario \in Known /\ "cpp" \in Sides /\ lxmfSender' = lxmfSender
  BY DEF LxmfReceiver, Known, Sides
<1>1. PICK d, out, code, well :
        /\ lxmf'.seen = Seen(d) /\ lxmf'.failed = Failed(d)
        /\ out \cap {"proof", "refusal"} # {} => messages # {}
        /\ code \in {LxmfVerdict(lxmf'), On}
        /\ Iterate("cpp", out, code, well)
  <2>1. PICK d \in BOOLEAN :
          LET seen == Seen(d)
              at == IF seen /\ lxmf.at = Never THEN now ELSE lxmf.at
              first == lxmf.last_announce = Never
              leaving == (at # Never /\ now - at >= Seconds(3)) \/ Elapsed("cpp") > Timeout
              due == ~leaving /\ ~seen /\ ~first /\ now - lxmf.last_announce >= Seconds(2)
              l == [seen |-> seen, failed |-> Failed(d), at |-> at, known |-> known,
                    last_announce |-> IF first \/ due THEN now ELSE lxmf.last_announce]
          IN  /\ messages = {} => d
              /\ lxmf' = l
              /\ Iterate("cpp",
                         (IF first \/ due THEN {"announce"} ELSE {})
                           \cup (IF messages # {} THEN {IF d THEN "proof" ELSE "refusal"}
                                 ELSE {}),
                         IF leaving THEN LxmfVerdict(l) ELSE On, d = ("big" \notin messages))
    BY DEF LxmfReceiver, Messages
  <2> DEFINE at == IF Seen(d) /\ lxmf.at = Never THEN now ELSE lxmf.at
             first == lxmf.last_announce = Never
             leaving == (at # Never /\ now - at >= Seconds(3)) \/ Elapsed("cpp") > Timeout
             due == ~leaving /\ ~Seen(d) /\ ~first /\ now - lxmf.last_announce >= Seconds(2)
             out == (IF first \/ due THEN {"announce"} ELSE {})
                      \cup (IF messages # {} THEN {IF d THEN "proof" ELSE "refusal"} ELSE {})
             code == IF leaving THEN LxmfVerdict(lxmf') ELSE On
  <2>2. lxmf'.seen = Seen(d) /\ lxmf'.failed = Failed(d)
    BY <2>1
  <2>3. Iterate("cpp", out, code, d = ("big" \notin messages))
    BY <2>1
  <2>4. out \cap {"proof", "refusal"} # {} => messages # {}
    OBVIOUS
  <2>5. code \in {LxmfVerdict(lxmf'), On}
    OBVIOUS
  <2> HIDE DEF out, code, Seen, Failed
  <2> QED BY <2>2, <2>3, <2>4, <2>5
<1>2. BenchInv'
  BY <1>0, <1>1, CppMoves, MovesKeepBench
<1>3. Message' = Message /\ Answer' = Answer /\ ExpectReject' = ExpectReject
  BY <1>1, CppMoves DEF Message, Answer, ExpectReject
<1>4. code = 0 => IF ExpectReject' THEN ~lxmf'.seen ELSE lxmf'.seen /\ ~lxmf'.failed
  BY <1>1, <1>3 DEF LxmfVerdict, Code, On
<1>5. reached'["cpp"] = reached["cpp"] \cup got /\ reached'["peer"] = reached["peer"]
        /\ Sent("cpp")' \subseteq Sent("cpp") /\ Sent("peer")' \subseteq Sent("peer") \cup out
        /\ (Done("peer")' <=> Done("peer")) /\ (Done("cpp")' => code = 0)
  BY <1>1, CppMoves
<1>6. Sent("peer")' \cap {"proof", "refusal"} # {} => reached'["cpp"] \cap Messages # {}
  BY <1>1, <1>5 DEF LxmfInv
<1>7. lxmf'.seen /\ ~lxmf'.failed => "good" \in reached'["cpp"]
  BY <1>1, <1>5 DEF LxmfInv, Mismatch
<1> HIDE DEF got
<1>8. LxmfInv'
  BY <1>0, <1>3, <1>4, <1>5, <1>6, <1>7 DEF LxmfInv
<1> QED BY <1>2, <1>8

LEMMA LxmfSenderKeeps ==
  ASSUME BenchInv, LxmfInv, LxmfSender
  PROVE  BenchInv' /\ LxmfInv'
<1> DEFINE got == Heard("peer")
<1>0. scenario \in Known /\ "peer" \in Sides /\ lxmf' = lxmf
  BY DEF LxmfSender, Known, Sides
<1>1. CASE Leave("peer", 2) /\ UNCHANGED lxmfSender
  <2>1. BenchInv'
    BY <1>0, <1>1, LeaveKeepsBench
  <2>2. LxmfInv'
    BY <1>0, <1>1, PeerLeaves DEF LxmfInv, Message, Answer, ExpectReject
  <2> QED BY <2>1, <2>2
<1>2. CASE \E out, code, well :
             /\ out \subseteq {"hello", Message}
             /\ lxmfSender.gave_up => lxmfSender'.gave_up
             /\ code = 0 => Answer \in got \/ (ExpectReject /\ lxmfSender'.gave_up)
             /\ Iterate("peer", out, code, well)
  <2>1. PICK out, code, well :
             /\ out \subseteq {"hello", Message}
             /\ lxmfSender.gave_up => lxmfSender'.gave_up
             /\ code = 0 => Answer \in got \/ (ExpectReject /\ lxmfSender'.gave_up)
             /\ Iterate("peer", out, code, well)
    BY <1>2
  <2>2. BenchInv'
    BY <1>0, <2>1, PeerMoves, MovesKeepBench
  <2>3. reached'["peer"] = reached["peer"] \cup got /\ reached'["cpp"] = reached["cpp"]
          /\ Sent("peer")' \subseteq Sent("peer") /\ Sent("cpp")' \subseteq Sent("cpp") \cup out
          /\ (Done("cpp")' <=> Done("cpp")) /\ (Done("peer")' => code = 0)
    BY <2>1, PeerMoves
  <2>4. Message' = Message /\ Answer' = Answer /\ ExpectReject' = ExpectReject
    BY <2>1, PeerMoves DEF Message, Answer, ExpectReject
  <2>5. Sent("cpp")' \cap Messages \subseteq {Message}
    BY <2>1, <2>3 DEF LxmfInv, Messages
  <2> HIDE DEF got
  <2> QED BY <1>0, <2>1, <2>2, <2>3, <2>4, <2>5 DEF LxmfInv
<1> QED
  <2> DEFINE p == lxmfSender
             found == p.send_after = Never /\ "announce" \in got
             hello == found \/ now - p.last_announce >= 3
             after == IF found THEN now + Seconds(3) ELSE p.send_after
             send == after # Never /\ now >= after /\ ~p.sent
             out == (IF hello THEN {"hello"} ELSE {}) \cup (IF send THEN {Message} ELSE {})
             State(g) == IF g THEN "FAILED" ELSE IF "proof" \in got THEN "DELIVERED"
                         ELSE IF "refusal" \in got THEN "REJECTED" ELSE "OUTBOUND"
  <2>1. PICK gaveUp \in BOOLEAN :
          /\ gaveUp => got \cap {"proof", "refusal"} = {}
          /\ IF Elapsed("peer") >= Timeout
             THEN Leave("peer", 2) /\ UNCHANGED lxmfSender
             ELSE /\ lxmfSender' = [send_after |-> after, sent |-> p.sent \/ send,
                                    last_announce |-> IF hello THEN now ELSE p.last_announce,
                                    gave_up |-> p.gave_up \/ gaveUp]
                  /\ Iterate("peer", out, OnState(State(gaveUp)), ~gaveUp)
    BY DEF LxmfSender
  <2>2. CASE Elapsed("peer") >= Timeout
    BY <1>1, <2>1, <2>2
  <2>3. CASE ~(Elapsed("peer") >= Timeout)
    <3> DEFINE code == OnState(State(gaveUp))
    <3>1. Iterate("peer", out, code, ~gaveUp) /\ lxmfSender'.gave_up = (p.gave_up \/ gaveUp)
      BY <2>1, <2>3
    <3>2. out \subseteq {"hello", Message}
      OBVIOUS
    <3>3. code = 0 => Answer \in got \/ (ExpectReject /\ gaveUp)
      BY DEF OnState, Answer, Code, On
    <3> HIDE DEF out, code
    <3> QED BY <1>2, <3>1, <3>2, <3>3
  <2> QED BY <2>2, <2>3

-----------------------------------------------------------------------------
(* Scenario link-inbound.                                                  *)

\* Both ends keep Unanswered: the end that steps is up, so that the other end, if
\* it has timed out, was not left by it.
LEMMA UnansweredKept ==
  ASSUME Unanswered, NEW s \in Sides, Hushed => Hushed', ~Ended(s),
         TimedOut(Other(s))' => TimedOut(Other(s)),
         Ended(Other(s))' <=> Ended(Other(s)),
         TimedOut(s)' => TimedOut(s) \/ Hushed \/ Ended(Other(s))
  PROVE  Unanswered'
<1>1. Other(s) \in Sides /\ Other(Other(s)) = s /\ Sides = {s, Other(s)}
  BY DEF Sides, Other
<1>2. TimedOut(Other(s))' => Hushed'
  BY <1>1 DEF Unanswered
<1>3. TimedOut(s)' /\ ~Ended(Other(s))' => Hushed'
  BY <1>1 DEF Unanswered
<1>4. TimedOut(Other(s))' /\ ~Ended(s)' => Hushed'
  BY <1>2
<1>5. \A t \in Sides : TimedOut(t)' /\ ~Ended(Other(t))' => Hushed'
  BY <1>1, <1>3, <1>4
<1>6. (\A t \in Sides : TimedOut(t)') => Hushed'
  BY <1>1, <1>2
<1> QED BY <1>5, <1>6 DEF Unanswered

LEMMA LinkResponderKeeps ==
  ASSUME BenchInv, LinkInv, LinkResponder
  PROVE  BenchInv' /\ LinkInv'
<1> DEFINE r == responder
           got == Heard("cpp")
           h == on_link_packet(on_link_established(r, got), got)
           N(reason, last) == [on_link_closed(h, reason) EXCEPT !.last_announce = last]
<1>0. scenario \in Known /\ "cpp" \in Sides /\ initiator' = initiator /\ cutAt' = cutAt
  BY DEF LinkResponder, Known, Sides
<1>1. PICK reason, last, out, code, well :
        /\ reason \in {"no", "timeout", "other"}
        /\ reason = "timeout" => Silent \/ Starved("cpp")
        /\ responder' = N(reason, last)
        /\ code \in {LinkVerdict(responder'), On}
        /\ Iterate("cpp", out, code, well)
        /\ out \cap {"good", "bad"} = {}
  <2> DEFINE first == r.last_announce = Never
             leaving == Elapsed("cpp") > Timeout
             due == ~leaving /\ ~first /\ now - r.last_announce >= Seconds(2) /\ ~h.established
             linked == h.established /\ r.closed = "no"
             Turned(reason) == [on_link_closed(h, reason)
                                  EXCEPT !.last_announce = IF first \/ due THEN now ELSE @]
             Out(reason) == (IF first \/ due THEN {"announce"} ELSE {})
                              \cup (IF "link" \in got THEN {"established"} ELSE {})
                              \cup (IF "good" \in got /\ r.closed = "no" THEN {"echo"} ELSE {})
                              \cup (IF reason = "other" THEN {"close"} ELSE {})
  <2>1. PICK reason \in {"no", "timeout", "other"} :
          /\ reason = "timeout" => Silent \/ Starved("cpp")
          /\ responder' = Turned(reason)
          /\ Iterate("cpp", IF cutAt = Never THEN Out(reason) ELSE {},
                     IF leaving THEN LinkVerdict(Turned(reason)) ELSE On,
                     reason # "other" /\ (linked /\ Silent => reason = "timeout"))
    BY DEF LinkResponder
  <2> DEFINE last == IF first \/ due THEN now ELSE on_link_closed(h, reason).last_announce
             code == IF leaving THEN LinkVerdict(responder') ELSE On
             out == IF cutAt = Never THEN Out(reason) ELSE {}
             well == reason # "other" /\ (linked /\ Silent => reason = "timeout")
  <2>2. Turned(reason) = N(reason, last)
    OBVIOUS
  <2>3. responder' = N(reason, last)
    BY <2>1, <2>2
  <2>4. Iterate("cpp", out, code, well)
    BY <2>1
  <2>5. code \in {LinkVerdict(responder'), On}
    OBVIOUS
  <2>6. out \cap {"good", "bad"} = {}
    OBVIOUS
  <2> HIDE DEF out, code, last, well, N
  <2> QED BY <2>1, <2>3, <2>4, <2>5, <2>6
<1>2. BenchInv'
  BY <1>0, <1>1, CppMoves, MovesKeepBench
<1>3. /\ h = [established |-> h.established, closed |-> r.closed, ok |-> h.ok,
              mismatch |-> h.mismatch, last_announce |-> r.last_announce]
      /\ h.established = (r.established \/ "link" \in got)
      /\ h.ok => r.ok \/ "good" \in got
  <2> DEFINE e == on_link_established(r, got)
  <2>1. r = [established |-> r.established, closed |-> r.closed, ok |-> r.ok,
             mismatch |-> r.mismatch, last_announce |-> r.last_announce]
    BY DEF LinkInv
  <2>2. e = [established |-> r.established \/ "link" \in got, closed |-> r.closed, ok |-> r.ok,
             mismatch |-> r.mismatch, last_announce |-> r.last_announce]
    BY <2>1 DEF on_link_established
  <2>3. h = IF e.closed # "no" THEN e
            ELSE [e EXCEPT !.ok = e.ok \/ "good" \in got, !.mismatch = e.mismatch \/ "bad" \in got]
    BY DEF on_link_packet
  <2> HIDE DEF e, h, got, r
  <2>4. CASE e.closed # "no"
    BY <2>2, <2>3, <2>4
  <2>5. CASE e.closed = "no"
    BY <2>2, <2>3, <2>5
  <2> QED BY <2>4, <2>5
<1> HIDE DEF h
<1>4. /\ responder' = [established |-> responder'.established, closed |-> responder'.closed,
                       ok |-> responder'.ok, mismatch |-> responder'.mismatch,
                       last_announce |-> responder'.last_announce]
      /\ responder'.established = h.established
      /\ responder'.ok = h.ok
      /\ responder'.closed = IF reason = "no" THEN r.closed ELSE reason
  <2> DEFINE c == on_link_closed(h, reason)
  <2>1. c = [established |-> h.established,
             closed |-> IF reason = "no" THEN r.closed ELSE reason, ok |-> h.ok,
             mismatch |-> h.mismatch, last_announce |-> r.last_announce]
    BY <1>3 DEF on_link_closed
  <2>2. responder' = [c EXCEPT !.last_announce = last]
    BY <1>1
  <2> HIDE DEF c
  <2> QED BY <2>1, <2>2
<1>5. /\ reached'["cpp"] = reached["cpp"] \cup got /\ reached'["peer"] = reached["peer"]
      /\ Sent("cpp")' \subseteq Sent("cpp") /\ LinkPayload' = LinkPayload
      /\ (Done("peer")' <=> Done("peer")) /\ (Done("cpp")' => code = 0)
      /\ (Ended("peer")' <=> Ended("peer")) /\ ~Ended("cpp")
      /\ (faults["slow"] # 0 => faults'["slow"] # 0) /\ now' = now
  BY <1>1, CppMoves DEF LinkPayload
<1>6. Unanswered'
  <2>1. Hushed => Hushed'
    BY <1>0, <1>5 DEF Hushed, Silent
  <2>2. Other("cpp") = "peer" /\ (TimedOut("peer")' <=> TimedOut("peer"))
    BY <1>0 DEF Other, TimedOut
  <2>3. TimedOut("cpp")' => TimedOut("cpp") \/ Hushed \/ Ended("peer")
    BY <1>1, <1>4, <2>2 DEF TimedOut, Hushed, Starved
  <2> QED BY <1>0, <1>5, <2>1, <2>2, <2>3, UnansweredKept DEF LinkInv
<1>7. code = 0 => responder'.established /\ responder'.ok /\ TimedOut("cpp")'
  BY <1>1 DEF LinkVerdict, Code, On, TimedOut
<1>8. /\ responder'.established => "link" \in reached'["cpp"]
      /\ responder'.ok => "good" \in reached'["cpp"]
  BY <1>3, <1>4, <1>5 DEF LinkInv
<1>9. TimedOut("peer")' <=> TimedOut("peer")
  BY <1>0 DEF TimedOut
<1> HIDE DEF got
<1>10. LinkInv'
  BY <1>0, <1>4, <1>5, <1>6, <1>7, <1>8, <1>9 DEF LinkInv
<1> QED BY <1>2, <1>10

LEMMA LinkInitiatorKeeps ==
  ASSUME BenchInv, LinkInv, LinkInitiator
  PROVE  BenchInv' /\ LinkInv'
<1> DEFINE p == initiator
           got == Heard("peer")
           linked == p.phase \in {"data", "idle", "cut"} /\ p.closed = "no"
           over == now - p.since >= Window[p.phase]
           Closed(fires) == IF fires THEN "timeout"
                            ELSE IF linked /\ "close" \in got THEN "other" ELSE p.closed
           Met(fires) == IF p.phase \in DOMAIN Waits THEN Waits[p.phase] \in got
                         ELSE Closed(fires) # "no"
           Turns(fires) == \/ p.phase \in DOMAIN Waits /\ Met(fires)
                           \/ p.phase \in {"data", "idle"} /\ over /\ ~Met(fires)
           Failed(fires) == p.failed \/ (p.phase = "data" /\ over /\ ~Met(fires))
<1>0. scenario \in Known /\ "peer" \in Sides /\ responder' = responder
  BY DEF LinkInitiator, Known, Sides
<1>1. PICK fires \in BOOLEAN :
        /\ fires => linked /\ (Silent \/ Starved("peer"))
        /\ initiator' = [phase |-> IF Turns(fires) THEN After[p.phase] ELSE p.phase,
                         since |-> IF Turns(fires) THEN now ELSE p.since,
                         failed |-> Failed(fires), closed |-> Closed(fires)]
        /\ cutAt' = IF Turns(fires) /\ p.phase = "idle" /\ broken # "nocut" THEN now ELSE cutAt
        /\ Iterate("peer", IF Turns(fires) THEN Opens[p.phase] ELSE {},
                   LinkExit(p.phase, Met(fires), over,
                            ~Failed(fires) /\ Closed(fires) = "timeout"),
                   linked /\ Silent => fires)
  BY DEF LinkInitiator
<1> DEFINE met == Met(fires)
           turns == Turns(fires)
           failed == Failed(fires)
           closed == Closed(fires)
           out == IF turns THEN Opens[p.phase] ELSE {}
           code == LinkExit(p.phase, met, over, ~failed /\ closed = "timeout")
           well == linked /\ Silent => fires
<1>2. /\ initiator'.phase = IF turns THEN After[p.phase] ELSE p.phase
      /\ initiator'.failed = failed /\ initiator'.closed = closed
      /\ cutAt' = IF turns /\ p.phase = "idle" /\ broken # "nocut" THEN now ELSE cutAt
      /\ Iterate("peer", out, code, well)
  BY <1>1
<1>3. p.phase \in {"announce", "establish", "data", "idle", "cut"} /\ cutAt \in Int /\ now \in Int
  BY DEF LinkInv, BenchInv
<1>4. turns => p.phase # "cut" /\ After[p.phase] \in {"establish", "data", "idle", "cut"}
                 /\ (After[p.phase] = "cut" <=> p.phase = "idle")
                 /\ (After[p.phase] = "idle" <=> p.phase = "data")
                 /\ Opens[p.phase] \subseteq {"link", LinkPayload}
  BY <1>3 DEF Waits, After, Opens
<1>5. p.phase = "data" /\ turns => "echo" \in got \/ failed
  BY DEF Waits
<1>6. p.failed => failed
  OBVIOUS
<1>7. code = 0 => p.phase = "cut" /\ ~failed /\ closed = "timeout"
  BY <1>3 DEF LinkExit, Code, On
<1>8. closed = "timeout" => p.closed = "timeout" \/ Silent \/ Starved("peer")
  BY <1>1
<1>9. out \subseteq {"link", LinkPayload}
  BY <1>4
<1> HIDE DEF met, turns, failed, closed, out, code, well, over, linked,
             Met, Turns, Failed, Closed
<1>10. BenchInv'
  BY <1>0, <1>2, PeerMoves, MovesKeepBench
<1>11. /\ reached'["peer"] = reached["peer"] \cup got /\ reached'["cpp"] = reached["cpp"]
       /\ Sent("cpp")' \subseteq Sent("cpp") \cup out /\ LinkPayload' = LinkPayload
       /\ (Done("cpp")' <=> Done("cpp")) /\ (Done("peer")' => code = 0)
       /\ (Ended("cpp")' <=> Ended("cpp")) /\ ~Ended("peer")
       /\ (faults["slow"] # 0 => faults'["slow"] # 0) /\ now' = now
  BY <1>2, PeerMoves DEF LinkPayload
<1> HIDE DEF got
<1>12. /\ initiator'.phase \in {"announce", "establish", "data", "idle", "cut"}
       /\ cutAt' \in Int
       /\ cutAt' # Never => initiator'.phase = "cut"
  BY <1>2, <1>3, <1>4 DEF LinkInv
<1>13. initiator'.phase \in {"idle", "cut"} => "echo" \in reached'["peer"] \/ initiator'.failed
  BY <1>2, <1>3, <1>4, <1>5, <1>6, <1>11 DEF LinkInv
<1>14. Sent("cpp")' \cap {"good", "bad"} \subseteq {LinkPayload'}
  BY <1>9, <1>11 DEF LinkInv
<1>15. Unanswered'
  <2>1. Silent => Silent'
    BY <1>2, <1>3, <1>11 DEF LinkInv, Silent
  <2>2. Hushed => Hushed'
    BY <1>11, <2>1 DEF Hushed
  <2>3. Other("peer") = "cpp" /\ (TimedOut("cpp")' <=> TimedOut("cpp"))
    BY <1>0 DEF Other, TimedOut
  <2>4. TimedOut("peer")' => TimedOut("peer") \/ Hushed \/ Ended("cpp")
    BY <1>2, <1>8, <2>3 DEF TimedOut, Hushed, Starved
  <2> QED BY <1>0, <1>11, <2>2, <2>3, <2>4, UnansweredKept DEF LinkInv
<1>16. Done("peer")' => ~initiator'.failed /\ initiator'.phase = "cut" /\ TimedOut("peer")'
  BY <1>2, <1>4, <1>7, <1>11 DEF TimedOut
<1>17. TimedOut("cpp")' <=> TimedOut("cpp")
  BY <1>0 DEF TimedOut
<1>18. LinkInv'
  BY <1>0, <1>11, <1>12, <1>13, <1>14, <1>15, <1>16, <1>17 DEF LinkInv
<1> QED BY <1>10, <1>18

-----------------------------------------------------------------------------
(* Scenario page-fetch.                                                    *)

LEMMA FetchServerKeeps ==
  ASSUME BenchInv, FetchInv, FetchServer
  PROVE  BenchInv' /\ FetchInv'
<1>0. scenario \in Known /\ "peer" \in Sides /\ UNCHANGED <<fetch, open, passed, truth>>
  BY DEF FetchServer, Known, Sides
<1>1. CASE Leave("peer", 2)
  <2>1. BenchInv'
    BY <1>0, <1>1, LeaveKeepsBench
  <2>2. Done("cpp")' <=> Done("cpp")
    BY <1>1, PeerLeaves
  <2> QED BY <1>0, <2>1, <2>2 DEF FetchInv, AskedInOrder
<1>2. CASE \E out, code, well : Iterate("peer", out, code, well)
  <2>1. PICK out, code, well : Iterate("peer", out, code, well)
    BY <1>2
  <2>2. BenchInv'
    BY <1>0, <2>1, PeerMoves, MovesKeepBench
  <2>3. Done("cpp")' <=> Done("cpp")
    BY <2>1, PeerMoves
  <2> QED BY <1>0, <2>2, <2>3 DEF FetchInv, AskedInOrder
<1> QED
  <2>1. CASE Elapsed("peer") >= Timeout /\ server.all = Never
    BY <1>1, <2>1 DEF FetchServer
  <2>2. CASE ~(Elapsed("peer") >= Timeout /\ server.all = Never)
    BY <1>2, <2>2 DEF FetchServer
  <2> QED BY <2>1, <2>2

LEMMA RankOrder ==
  /\ \A p \in Pages \ {"big"} : /\ NextPage[p] \in Pages /\ NextPage[p] # p
                                /\ Rank[NextPage[p]] > Rank[p] /\ Rank["big"] > Rank[p]
  /\ \A p \in Pages : Rank[p] \in Nat
  /\ "big" \in Pages /\ "plain" \in Pages
BY DEF Pages, NextPage, Rank

\* Nothing concluded: no page is passed, and the first may be asked for.
LEMMA NothingConcludes ==
  ASSUME AskedInOrder, now \in Nat, NEW r \in open \cup {[page |-> "none", at |-> Never]},
         NEW closes \in BOOLEAN, FetchTurn(r, "nothing", closes)
  PROVE  AskedInOrder'
<1> DEFINE got == Heard("cpp")
           f == fetch
           new == NewNode(got)
           up == Established(got)
           link == IF closes THEN "closed" ELSE IF up THEN "up"
                   ELSE IF new THEN "opening" ELSE f.link
           ask == f.left = Never /\ up /\ link # "closed"
           hung == f.phase = "big" /\ ~f.done /\ f.big_deadline # Never /\ now > f.big_deadline
<1>1. ~(f.left = Never /\ f.done /\ f.phase # "big")
  BY DEF AskedInOrder
<1>2. PICK deadline, left :
        /\ fetch' = [announce_seen |-> f.announce_seen \/ new, link |-> link, phase |-> f.phase,
                     done |-> f.done \/ hung, big_deadline |-> deadline, left |-> left]
        /\ f.left # Never => left = f.left
        /\ hung /\ f.left = Never => left = now
  BY <1>1 DEF FetchTurn
<1>3. passed' = passed /\ truth' = truth
  BY DEF FetchTurn
<1>4. open' = open \cup (IF ask THEN {[page |-> f.phase, at |-> now]} ELSE {})
  BY <1>1 DEF FetchTurn
<1>5. closes => f.link = "up"
  BY DEF FetchTurn
<1>6. up => f.link = "opening"
  BY DEF Established
<1>7. new => f.link = "none"
  BY DEF NewNode, AskedInOrder
<1>8. new \in BOOLEAN /\ up \in BOOLEAN /\ hung \in BOOLEAN
  BY DEF NewNode, Established
<1>9. ask => open = {} /\ truth[f.phase] = {} /\ ~passed[f.phase]
  BY <1>6 DEF AskedInOrder
<1> HIDE DEF new, up, hung
<1>10. /\ fetch'.phase = f.phase /\ fetch'.done = (f.done \/ hung) /\ fetch'.left = left
       /\ fetch'.link = link /\ fetch'.announce_seen = (f.announce_seen \/ new)
       /\ fetch' = [announce_seen |-> fetch'.announce_seen, link |-> fetch'.link,
              phase |-> fetch'.phase, done |-> fetch'.done,
              big_deadline |-> fetch'.big_deadline, left |-> fetch'.left]
  BY <1>2
<1>11. fetch'.link \in {"none", "opening", "up", "closed"}
  BY <1>10 DEF AskedInOrder
<1>12. fetch'.link \in {"none", "opening"} => f.link \in {"none", "opening"} /\ ~up
  BY <1>5, <1>7, <1>10 DEF AskedInOrder
<1>13. fetch'.link # "none" => fetch'.announce_seen
  BY <1>5, <1>6, <1>8, <1>10 DEF AskedInOrder
<1>14. fetch'.done => fetch'.left # Never
  BY <1>2, <1>8, <1>10 DEF AskedInOrder, Never
<1> HIDE DEF link, ask
<1>15. (\A q \in open' : q.page = fetch'.phase) /\ (\A q, s \in open' : q = s)
         /\ (open' # {} => truth'[fetch'.phase] = {} /\ ~passed'[fetch'.phase])
  BY <1>3, <1>4, <1>9, <1>10 DEF AskedInOrder
<1>16. fetch'.link \in {"none", "opening"} => open' = {}
  BY <1>4, <1>12 DEF AskedInOrder, ask
<1> QED BY <1>3, <1>8, <1>10, <1>11, <1>12, <1>13, <1>14, <1>15, <1>16 DEF AskedInOrder

\* A request concludes: it is the one for the page the phase stands at, so its
\* outcome is counted for the page it was for, and the next asked is a new one.
LEMMA RequestConcludes ==
  ASSUME AskedInOrder, now \in Nat, NEW r \in open \cup {[page |-> "none", at |-> Never]},
         NEW how \in {"response", "failed"}, NEW closes \in BOOLEAN, FetchTurn(r, how, closes)
  PROVE  AskedInOrder'
<1> DEFINE got == Heard("cpp")
           f == fetch
           link == IF closes THEN "closed" ELSE f.link
           on == f.left = Never /\ f.phase # "big"
           phase == IF ~on THEN f.phase ELSE IF link = "closed" THEN "big" ELSE NextPage[f.phase]
           over == ~on \/ link = "closed"
           ask == on /\ link # "closed"
           hung == phase = "big" /\ ~over /\ f.big_deadline # Never /\ now > f.big_deadline
           end == IF how = "failed" /\ r.page \notin got THEN "timeout" ELSE how
<1>1. r \in open /\ how # "nothing"
  BY DEF FetchTurn, Concluding
<1>2. r.page = f.phase /\ open = {r} /\ truth[f.phase] = {} /\ ~passed[f.phase]
        /\ f.link \notin {"none", "opening"} /\ f.announce_seen /\ f.phase \in Pages
  BY <1>1 DEF AskedInOrder
<1>3. ~NewNode(got) /\ ~Established(got)
  BY <1>2 DEF NewNode, Established
<1>4. PICK seen, deadline, left :
        /\ fetch' = [announce_seen |-> seen, link |-> link, phase |-> phase,
                     done |-> over \/ hung, big_deadline |-> deadline, left |-> left]
        /\ seen = f.announce_seen
        /\ f.left # Never => left = f.left
        /\ f.left = Never /\ ((phase = "big" /\ over) \/ hung) => left = now
  <2> DEFINE d == f.done \/ how # "nothing"
             o == f.left = Never /\ d /\ f.phase # "big"
             ph == IF ~o THEN f.phase ELSE IF link = "closed" THEN "big" ELSE NextPage[f.phase]
             ov == d /\ (~o \/ link = "closed")
             as == f.left = Never /\ (FALSE \/ o) /\ link # "closed"
             hu == ph = "big" /\ ~ov /\ f.big_deadline # Never /\ now > f.big_deadline
             deadline == IF as /\ ph = "big" THEN now + BIG_WAIT ELSE f.big_deadline
             left == IF f.left # Never THEN f.left
                     ELSE IF (ph = "big" /\ ov) \/ hu \/ Elapsed("cpp") > Timeout
                     THEN now ELSE Never
  <2>1. d /\ o = on
    BY <1>1
  <2>2. ph = phase /\ ov = over /\ as = ask
    BY <2>1
  <2>3. hu = hung
    BY <2>2
  <2>4. fetch' = [announce_seen |-> f.announce_seen \/ FALSE, link |-> link, phase |-> ph,
                  done |-> ov \/ hu, big_deadline |-> deadline, left |-> left]
    BY <1>3 DEF FetchTurn
  <2>5. (f.announce_seen \/ FALSE) = f.announce_seen
    BY <1>2
  <2> QED BY <2>2, <2>3, <2>4, <2>5
<1>5. passed' = IF how = "response" THEN on_response(f.phase, f.phase) ELSE on_failed(f.phase)
  BY <1>1, <1>2 DEF FetchTurn
<1>6. truth' = [truth EXCEPT ![f.phase] = {end}]
  BY <1>1, <1>2 DEF FetchTurn
<1>7. open' = IF ask THEN {[page |-> phase, at |-> now]} ELSE {}
  BY <1>1, <1>2, <1>3 DEF FetchTurn
<1>8. /\ passed \in [Pages -> BOOLEAN] /\ f.phase \in Pages
      /\ truth \in [Pages -> SUBSET {"response", "failed", "timeout"}]
  BY DEF AskedInOrder
<1>9. passed' = [passed EXCEPT ![f.phase] = (how = "response") <=> (f.phase # "big")]
  BY <1>2, <1>5, <1>8 DEF on_response, on_failed, matches
<1>10. /\ passed' \in [Pages -> BOOLEAN]
       /\ truth' \in [Pages -> SUBSET {"response", "failed", "timeout"}]
  BY <1>6, <1>8, <1>9
<1>11. \A p \in Pages : p # f.phase => passed'[p] = passed[p] /\ truth'[p] = truth[p]
  BY <1>6, <1>8, <1>9
<1>12. /\ \A p \in Pages \ {"big"} : passed'[p] => truth'[p] = {"response"}
       /\ passed'["big"] => truth'["big"] \in {{"failed"}, {"timeout"}}
  <2>1. passed'[f.phase] = ((how = "response") <=> (f.phase # "big")) /\ truth'[f.phase] = {end}
    BY <1>6, <1>8, <1>9
  <2>2. \A p \in Pages \ {"big"} : passed'[p] => truth'[p] = {"response"}
    BY <1>11, <2>1 DEF AskedInOrder
  <2>3. CASE f.phase = "big"
    BY <2>1, <2>2, <2>3
  <2>4. CASE f.phase # "big"
    BY <1>11, <2>2, <2>4, RankOrder DEF AskedInOrder
  <2> QED BY <2>2, <2>3, <2>4
<1>13. phase \in Pages /\ (phase # f.phase => Rank[phase] > Rank[f.phase])
         /\ (ask => phase # f.phase)
  BY <1>8, RankOrder
<1>14. \A p \in Pages : Rank[p] > Rank[phase] => truth'[p] = {} /\ ~passed'[p]
  <2> TAKE p \in Pages
  <2> HAVE Rank[p] > Rank[phase]
  <2>1. Rank[p] > Rank[f.phase]
    BY <1>8, <1>13, RankOrder
  <2>2. p # f.phase
    BY <2>1, <1>8, RankOrder
  <2> QED BY <1>11, <2>1, <2>2 DEF AskedInOrder
<1>15. open' # {} => truth'[phase] = {} /\ ~passed'[phase]
  BY <1>7, <1>11, <1>13 DEF AskedInOrder
<1>16. /\ fetch'.phase = phase /\ fetch'.link = link /\ fetch'.announce_seen
       /\ fetch'.done = (over \/ hung) /\ fetch'.left = left
       /\ fetch' = [announce_seen |-> fetch'.announce_seen, link |-> fetch'.link,
              phase |-> fetch'.phase, done |-> fetch'.done,
              big_deadline |-> fetch'.big_deadline, left |-> fetch'.left]
  BY <1>2, <1>4
<1>17. fetch'.done \in BOOLEAN /\ (fetch'.done => fetch'.left # Never)
  BY <1>4, <1>16 DEF Never
<1>18. fetch'.link \in {"up", "closed"}
  BY <1>2, <1>16 DEF AskedInOrder
<1> HIDE DEF link, on, phase, over, ask, hung, end
<1>19. (\A q \in open' : q.page = phase) /\ (\A q, s \in open' : q = s)
  BY <1>7
<1> QED BY <1>10, <1>12, <1>13, <1>14, <1>15, <1>16, <1>17, <1>18, <1>19 DEF AskedInOrder

LEMMA FetchLoopKeeps ==
  ASSUME BenchInv, FetchInv, FetchLoop
  PROVE  BenchInv' /\ FetchInv'
<1>0. scenario \in Known /\ "cpp" \in Sides /\ now \in Nat /\ AskedInOrder
  BY DEF FetchLoop, Known, Sides, BenchInv, FetchInv
<1>1. PICK r, how, closes, out, code, well :
        /\ r \in open \cup {[page |-> "none", at |-> Never]}
        /\ how \in {"nothing", "response", "failed"} /\ closes \in BOOLEAN
        /\ FetchTurn(r, how, closes)
        /\ code \in {FetchVerdict(fetch, passed'), On}
        /\ Iterate("cpp", out, code, well)
  <2>0. PICK r \in open \cup {[page |-> "none", at |-> Never]},
             how \in {"nothing", "response", "failed"}, closes \in BOOLEAN :
          FetchTurn(r, how, closes)
    BY DEF FetchLoop
  <2>2. PICK out, well :
          Iterate("cpp", out, IF fetch.left # Never /\ now > fetch.left
                              THEN FetchVerdict(fetch, passed') ELSE On, well)
    BY <2>0 DEF FetchTurn
  <2> DEFINE code == IF fetch.left # Never /\ now > fetch.left
                     THEN FetchVerdict(fetch, passed') ELSE On
  <2>3. code \in {FetchVerdict(fetch, passed'), On} /\ Iterate("cpp", out, code, well)
    BY <2>2
  <2> HIDE DEF code
  <2> QED BY <2>0, <2>3
<1>2. BenchInv'
  BY <1>0, <1>1, CppMoves, MovesKeepBench
<1>3. AskedInOrder'
  BY <1>0, <1>1, NothingConcludes, RequestConcludes
<1>4. code = 0 => \A p \in Pages : passed'[p]
  BY <1>1 DEF FetchVerdict, Code, On
<1>5. Done("cpp")' => code = 0
  BY <1>1, CppMoves
<1> QED BY <1>2, <1>3, <1>4, <1>5 DEF FetchInv

-----------------------------------------------------------------------------
(* The driver, and all together.                                           *)

\* The driver starts, stalls and kills processes and lets time pass; none of it
\* makes a process succeed or hands it a datagram.
LEMMA DriverKeepsBench ==
  ASSUME BenchInv, Driver
  PROVE  /\ BenchInv'
         /\ \A s \in Sides : (Done(s)' <=> Done(s)) /\ (Ended(s) => Ended(s)')
         /\ UNCHANGED <<scenario, broken, sock, reached>>
         /\ now' \in Nat /\ now' >= now /\ (faults["slow"] # 0 => faults'["slow"] # 0)
<1>0. /\ now \in Nat /\ side \in [Sides -> Statuses]
      /\ DOMAIN rc = Sides /\ DOMAIN sock = Sides /\ DOMAIN reached = Sides
      /\ \A s \in Sides : side[s] = "exited" => scenario \in Known
      /\ verdict = "pass" => \A s \in Sides : Done(s)
      /\ faults \in [BenchFaults -> Nat]
  BY DEF BenchInv
<1>1. ASSUME UNCHANGED <<scenario, broken, rc, sock, reached>>, now' \in Nat, now' >= now,
             side' \in [Sides -> Statuses],
             \A s \in Sides : /\ side'[s] = "exited" <=> side[s] = "exited"
                              /\ side[s] = "killed" => side'[s] = "killed",
             faults' \in [BenchFaults -> Nat], faults["slow"] # 0 => faults'["slow"] # 0,
             verdict' = "pass" => verdict = "pass" \/ \A s \in Sides : Done(s)
      PROVE  /\ BenchInv'
             /\ \A s \in Sides : (Done(s)' <=> Done(s)) /\ (Ended(s) => Ended(s)')
             /\ UNCHANGED <<scenario, broken, sock, reached>>
             /\ now' \in Nat /\ now' >= now /\ (faults["slow"] # 0 => faults'["slow"] # 0)
  <2>1. \A s \in Sides : (Done(s)' <=> Done(s)) /\ (Ended(s) => Ended(s)')
    BY <1>1 DEF Done, Ended
  <2>2. BenchInv'
    BY <1>0, <1>1, <2>1 DEF BenchInv, Known, LxmfScenarios
  <2> QED BY <1>1, <2>1, <2>2
<1>2. ASSUME NEW s \in Sides, Launch(s)
      PROVE  /\ side' \in [Sides -> Statuses] /\ verdict' = verdict /\ now' = now
             /\ \A q \in Sides : /\ side'[q] = "exited" <=> side[q] = "exited"
                                 /\ side[q] = "killed" => side'[q] = "killed"
             /\ faults' \in [BenchFaults -> Nat] /\ (faults["slow"] # 0 => faults'["slow"] # 0)
             /\ UNCHANGED <<scenario, broken, rc, sock, reached>>
  <2>1. faults' \in [BenchFaults -> Nat] /\ (faults["slow"] # 0 => faults'["slow"] # 0)
    BY <1>2, FailingAdds DEF Launch
  <2> QED BY <1>0, <1>2, <2>1 DEF Launch, LaunchDue, Statuses
<1>3. ASSUME NEW s \in Sides, Stall(s)
      PROVE  /\ UNCHANGED <<scenario, broken, rc, sock, reached, side, verdict, now>>
             /\ faults' \in [BenchFaults -> Nat] /\ (faults["slow"] # 0 => faults'["slow"] # 0)
  BY <1>3, FailingAdds DEF Stall
<1>4. CASE Resume
  BY <1>0, <1>1, <1>4 DEF Resume
<1>5. CASE Judge
  <2>1. side' \in [Sides -> Statuses]
          /\ \A s \in Sides : /\ side'[s] = "exited" <=> side[s] = "exited"
                              /\ side[s] = "killed" => side'[s] = "killed"
    BY <1>0, <1>5 DEF Judge, Running, Statuses
  <2>2. UNCHANGED <<scenario, broken, rc, sock, reached, now, faults>>
    BY <1>5 DEF Judge
  <2>3. verdict' = "pass" => \A s \in Sides : Done(s)
    BY <1>5 DEF Judge, Done
  <2> QED BY <1>0, <1>1, <2>1, <2>2, <2>3
<1>6. CASE Tick
  BY <1>0, <1>1, <1>6 DEF Tick
<1> QED BY <1>0, <1>1, <1>2, <1>3, <1>4, <1>5, <1>6 DEF Driver

LEMMA DriverKeeps ==
  ASSUME InteropInv, Driver
  PROVE  InteropInv'
<1>1. BenchInv
  BY DEF InteropInv
<1>2. /\ BenchInv' /\ UNCHANGED <<scenario, broken, sock, reached>>
      /\ (Done("peer")' <=> Done("peer")) /\ (Done("cpp")' <=> Done("cpp"))
      /\ (Ended("peer") => Ended("peer")') /\ (Ended("cpp") => Ended("cpp")')
      /\ (faults["slow"] # 0 => faults'["slow"] # 0)
      /\ now \in Nat /\ now' \in Nat /\ now' >= now
  BY <1>1, DriverKeepsBench DEF Sides, BenchInv
<1>3. /\ UNCHANGED <<receiver, originator, cold, coldSender, lxmf, lxmfSender>>
      /\ UNCHANGED <<responder, initiator, cutAt, fetch, open, passed, truth, server>>
  BY DEF Driver, twoNode, coldInbound, lxmfInbound, linkInbound, pageFetch
<1>4. Sent("peer")' = Sent("peer") /\ Sent("cpp")' = Sent("cpp")
  BY <1>2 DEF Sent
<1>5. TwoNodeInv => TwoNodeInv'
  BY <1>2, <1>3, <1>4 DEF TwoNodeInv, Payload
<1>6. ColdInv => ColdInv'
  BY <1>2, <1>3, <1>4 DEF ColdInv
<1>7. LxmfInv => LxmfInv'
  BY <1>2, <1>3, <1>4 DEF LxmfInv, Message, Answer, ExpectReject
<1>8. LinkInv => LinkInv'
  <2> HAVE LinkInv
  <2>1. Silent => Silent'
    BY <1>2, <1>3 DEF Silent, stale_time, Grace, Seconds, LinkInv
  <2>2. (TimedOut("peer")' <=> TimedOut("peer")) /\ (TimedOut("cpp")' <=> TimedOut("cpp"))
    BY <1>3 DEF TimedOut
  <2>3. Hushed => Hushed'
    BY <1>2, <2>1 DEF Hushed
  <2>4. Unanswered'
    BY <1>2, <2>2, <2>3 DEF LinkInv, Unanswered, Sides, Other
  <2> QED BY <1>2, <1>3, <1>4, <2>2, <2>4 DEF LinkInv, LinkPayload
<1>9. FetchInv => FetchInv'
  BY <1>2, <1>3 DEF FetchInv, AskedInOrder
<1> QED BY <1>2, <1>5, <1>6, <1>7, <1>8, <1>9 DEF InteropInv

LEMMA StepKeeps ==
  ASSUME InteropInv, [Next]_vars
  PROVE  InteropInv'
<1>0. /\ BenchInv
      /\ scenario = "two-node" => TwoNodeInv
      /\ scenario = "cold-inbound" => ColdInv
      /\ scenario \in LxmfScenarios => LxmfInv
      /\ scenario = "link-inbound" => LinkInv
      /\ scenario = "page-fetch" => FetchInv
  BY DEF InteropInv
<1>1. CASE UNCHANGED vars
  <2>1. /\ UNCHANGED <<scenario, broken, now, side, rc, sock, verdict, reached, faults>>
        /\ UNCHANGED <<receiver, originator, cold, coldSender, lxmf, lxmfSender>>
        /\ UNCHANGED <<responder, initiator, cutAt, fetch, open, passed, truth, server>>
    BY <1>1 DEF vars, bench, twoNode, coldInbound, lxmfInbound, linkInbound, pageFetch
  <2>2. BenchInv'
    BY <1>0, <2>1 DEF BenchInv, Done
  <2>3. /\ Sent("peer")' = Sent("peer") /\ Sent("cpp")' = Sent("cpp")
        /\ (Done("peer")' <=> Done("peer")) /\ (Done("cpp")' <=> Done("cpp"))
    BY <2>1 DEF Sent, Done
  <2>4. TwoNodeInv => TwoNodeInv'
    BY <2>1, <2>3 DEF TwoNodeInv, Payload
  <2>5. ColdInv => ColdInv'
    BY <2>1, <2>3 DEF ColdInv
  <2>6. LxmfInv => LxmfInv'
    BY <2>1, <2>3 DEF LxmfInv, Message, Answer, ExpectReject
  <2>7. LinkInv => LinkInv'
    BY <2>1, <2>3 DEF LinkInv, LinkPayload, Unanswered, Hushed, TimedOut, Silent, Ended
  <2>8. FetchInv => FetchInv'
    BY <2>1, <2>3 DEF FetchInv, AskedInOrder
  <2> QED BY <1>0, <2>1, <2>2, <2>4, <2>5, <2>6, <2>7, <2>8 DEF InteropInv
<1>2. CASE Driver
  BY <1>2, DriverKeeps
<1>3. CASE Receiver \/ Originator
  <2>1. scenario = "two-node" /\ scenario' = scenario /\ BenchInv' /\ TwoNodeInv'
    <3>1. scenario = "two-node" /\ scenario' = scenario
      BY <1>3 DEF Receiver, Originator, Iterate, Leave, Close
    <3> QED BY <1>0, <1>3, <3>1, ReceiverKeeps, OriginatorKeeps
  <2> QED BY <2>1 DEF InteropInv, LxmfScenarios
<1>4. CASE ColdReceiver \/ ColdSender
  <2>1. scenario = "cold-inbound" /\ scenario' = scenario /\ BenchInv' /\ ColdInv'
    <3>1. scenario = "cold-inbound" /\ scenario' = scenario
      BY <1>4 DEF ColdReceiver, ColdSender, Iterate, Leave, Close
    <3> QED BY <1>0, <1>4, <3>1, ColdReceiverKeeps, ColdSenderKeeps
  <2> QED BY <2>1 DEF InteropInv, LxmfScenarios
<1>5. CASE LxmfReceiver \/ LxmfSender
  <2>1. scenario \in LxmfScenarios /\ scenario' = scenario /\ BenchInv' /\ LxmfInv'
    <3>1. scenario \in LxmfScenarios /\ scenario' = scenario
      BY <1>5 DEF LxmfReceiver, LxmfSender, Iterate, Leave, Close
    <3> QED BY <1>0, <1>5, <3>1, LxmfReceiverKeeps, LxmfSenderKeeps
  <2> QED BY <2>1 DEF InteropInv, LxmfScenarios
<1>6. CASE LinkResponder \/ LinkInitiator
  <2>1. scenario = "link-inbound" /\ scenario' = scenario /\ BenchInv' /\ LinkInv'
    <3>1. scenario = "link-inbound" /\ scenario' = scenario
      BY <1>6 DEF LinkResponder, LinkInitiator, Iterate, Leave, Close
    <3> QED BY <1>0, <1>6, <3>1, LinkResponderKeeps, LinkInitiatorKeeps
  <2> QED BY <2>1 DEF InteropInv, LxmfScenarios
<1>7. CASE FetchLoop \/ FetchServer
  <2>1. scenario = "page-fetch" /\ scenario' = scenario /\ BenchInv' /\ FetchInv'
    <3>0. ASSUME NEW r, NEW how, NEW closes, FetchTurn(r, how, closes)
          PROVE  scenario' = scenario
      BY <3>0 DEF FetchTurn, Iterate, Close
    <3>1. scenario = "page-fetch" /\ scenario' = scenario
      BY <1>7, <3>0 DEF FetchLoop, FetchServer, Iterate, Leave, Close
    <3> QED BY <1>0, <1>7, <3>1, FetchLoopKeeps, FetchServerKeeps
  <2> QED BY <2>1 DEF InteropInv, LxmfScenarios
<1> QED BY <1>1, <1>2, <1>3, <1>4, <1>5, <1>6, <1>7 DEF Next, Peer, Cpp

LEMMA InitKeeps ==
  ASSUME Init
  PROVE  InteropInv
<1>1. /\ now = 0 /\ side = [s \in Sides |-> "off"] /\ rc = [s \in Sides |-> 0]
      /\ sock = [s \in Sides |-> {}] /\ reached = [s \in Sides |-> {}] /\ verdict = "none"
      /\ faults = [f \in BenchFaults |-> 0]
  BY DEF Init, BenchInit
<1>2. BenchInv
  BY <1>1 DEF BenchInv, Statuses
<1>3. /\ Sent("peer") = {} /\ Sent("cpp") = {} /\ reached["peer"] = {} /\ reached["cpp"] = {}
      /\ ~Done("peer") /\ ~Done("cpp")
  BY <1>1 DEF Sent, Done, Sides
<1>4. TwoNodeInv
  BY <1>3 DEF Init, TwoNodeInit, TwoNodeInv
<1>5. ColdInv
  BY <1>3 DEF Init, ColdInit, ColdInv
<1>6. LxmfInv
  BY <1>3 DEF Init, LxmfInit, LxmfInv
<1>7. LinkInv
  BY <1>3 DEF Init, LinkInit, LinkInv, Unanswered, TimedOut, Sides, Never
<1>8. FetchInv
  BY <1>3 DEF Init, FetchInit, FetchInv, AskedInOrder, Pages
<1> QED BY <1>2, <1>4, <1>5, <1>6, <1>7, <1>8 DEF InteropInv

\* Both exit codes 0 show what the scenario is for.
LEMMA InvEarns ==
  ASSUME InteropInv
  PROVE  PassIsEarned
<1> SUFFICES ASSUME verdict = "pass"
             PROVE  Earned
  BY DEF PassIsEarned
<1>1. Done("peer") /\ Done("cpp") /\ scenario \in Known
  BY DEF InteropInv, BenchInv, Sides, Done
<1>2. CASE scenario = "two-node"
  <2>1. TwoNodeInv
    BY <1>2 DEF InteropInv
  <2>2. TwoNodeEarned
    BY <1>1, <2>1 DEF TwoNodeInv, TwoNodeEarned, Sent, Packets
  <2> QED BY <1>2, <2>2 DEF Earned, LxmfScenarios
<1>3. CASE scenario = "cold-inbound"
  <2>1. ColdInv
    BY <1>3 DEF InteropInv
  <2>2. reached["cpp"] = {"good"}
    BY <1>1, <2>1 DEF ColdInv, Sent
  <2>3. {"announce", "proof", "ack"} \subseteq reached["peer"]
    BY <1>1, <2>1, <2>2 DEF ColdInv, Sent
  <2>4. broken # "hops"
    BY <1>1, <2>1 DEF ColdInv
  <2> QED BY <1>3, <2>2, <2>3, <2>4 DEF Earned, ColdEarned, LxmfScenarios
<1>4. CASE scenario \in LxmfScenarios
  <2>1. LxmfInv
    BY <1>4 DEF InteropInv
  <2>2. Answer \in reached["peer"] => /\ reached["cpp"] \cap Messages # {}
                                    /\ reached["cpp"] \cap Messages \subseteq {Message}
    BY <2>1 DEF LxmfInv, Sent, Answer
  <2>3. ASSUME ExpectReject PROVE LxmfEarned
    BY <1>1, <2>1, <2>2, <2>3 DEF LxmfInv, LxmfEarned, Refused, Answer, Message, Messages
  <2>4. ASSUME ~ExpectReject PROVE LxmfEarned
    BY <1>1, <2>1, <2>2, <2>4 DEF LxmfInv, LxmfEarned, Answer, Message, Messages
  <2>5. LxmfEarned
    BY <2>3, <2>4
  <2> QED BY <1>4, <2>5 DEF Earned, LxmfScenarios
<1>5. CASE scenario = "link-inbound"
  <2>1. LinkInv
    BY <1>5 DEF InteropInv
  <2>2. Hushed
    BY <1>1, <2>1 DEF LinkInv, Unanswered, Sides
  <2>3. LinkEarned
    BY <1>1, <2>1, <2>2 DEF LinkInv, LinkEarned, LinkPayload, Hushed, Sent
  <2> QED BY <1>5, <2>3 DEF Earned, LxmfScenarios
<1>6. CASE scenario = "page-fetch"
  <2>1. FetchInv
    BY <1>6 DEF InteropInv
  <2>2. FetchEarned
    BY <1>1, <2>1 DEF FetchInv, AskedInOrder, FetchEarned, Pages
  <2> QED BY <1>6, <2>2 DEF Earned, LxmfScenarios
<1> QED BY <1>1, <1>2, <1>3, <1>4, <1>5, <1>6 DEF Known

\* A PASS of driver.sh shows that the right payload and its proof, the cold packet
\* from a peer that had announced nothing, the message, the link's silence, each
\* page for the request that asked for it did happen; of an over-cap message and
\* an over-cap page, that they were refused, or given up by the sender's router
\* and by the request's time limit, which the programs take for a refusal; of a
\* silent link, that the wire was cut or a process held up.  For every set of
\* scenarios, time limits, switches and number of lost datagrams, failed sockets,
\* stalls and faults of the stacks.
THEOREM PassEarned == Spec => []PassIsEarned
<1>1. Init => InteropInv
  BY InitKeeps
<1>2. InteropInv /\ [Next]_vars => InteropInv'
  BY StepKeeps
<1>3. InteropInv => PassIsEarned
  BY InvEarns
<1> QED BY <1>1, <1>2, <1>3, PTL DEF Spec
=============================================================================
