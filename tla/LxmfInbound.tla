----------------------------- MODULE LxmfInbound -----------------------------
(***************************************************************************)
(* Scenarios lxmf-inbound and lxmf-oversized-reject, which run the same    *)
(* source, test_interop/lxmf_inbound_receiver.  A Python peer announces    *)
(* itself, waits, and sends one message: with known fields, or over the    *)
(* size this build accepts, which the stack must refuse.                   *)
(***************************************************************************)
EXTENDS Bench

VARIABLES
  lxmf,       \* message_seen, failures > 0, seen_at, last_announce; and known:
              \* the stack has heard the sender's announce
  lxmfSender  \* the peer: send_after, sent, last_announce; and history: gave_up,
              \* its own router declared the message FAILED, unanswered

lxmfInbound == <<lxmf, lxmfSender>>

LxmfScenarios == {"lxmf-inbound", "lxmf-oversized-reject"}
ExpectReject == scenario = "lxmf-oversized-reject"

LxmfInit ==
  /\ lxmf = [seen |-> FALSE, failed |-> FALSE, at |-> Never, last_announce |-> Never,
             known |-> FALSE]
  /\ lxmfSender = [send_after |-> Never, sent |-> FALSE, last_announce |-> Never,
                    gave_up |-> FALSE]

\* on_delivery: a field differs, or the signature could not be validated because
\* the sender's identity is not known.
Mismatch(messages, known) == "good" \notin messages \/ ~known

LxmfVerdict(l) ==
  Code(IF ExpectReject THEN ~l.seen ELSE l.seen /\ ~l.failed)

\* The receiver's loop.  delivered: the stack hands the message over; it must,
\* unless it is over the cap, and then it must not.
LxmfReceiver ==
  /\ scenario \in LxmfScenarios
  /\ Running("cpp")
  /\ \E delivered \in BOOLEAN :
     LET got == Heard("cpp")
         messages == got \cap {"good", "bad", "big"}
         known == lxmf.known \/ "hello" \in got
         seen == lxmf.seen \/ (messages # {} /\ delivered)
         at == IF seen /\ lxmf.at = Never THEN now ELSE lxmf.at
         first == lxmf.last_announce = Never
         leaving == (at # Never /\ now - at >= Seconds(3)) \/ Elapsed("cpp") > Timeout
         due == ~leaving /\ ~seen /\ ~first /\ now - lxmf.last_announce >= Seconds(2)
         l == [seen |-> seen,
               failed |-> \/ lxmf.failed
                          \/ messages # {} /\ delivered /\ Mismatch(messages, known),
               at |-> at, known |-> known,
               last_announce |-> IF first \/ due THEN now ELSE lxmf.last_announce]
     IN  /\ messages = {} => delivered
         /\ lxmf' = l
         /\ Iterate("cpp",
                    (IF first \/ due THEN {"announce"} ELSE {})
                      \cup (IF messages # {} THEN {IF delivered THEN "proof" ELSE "refusal"}
                            ELSE {}),
                    IF leaving THEN LxmfVerdict(l) ELSE On,
                    delivered = ("big" \notin messages))
  /\ UNCHANGED lxmfSender

\* What the sender sends; the switches content, field and timestamp all give a
\* message that differs from the one expected.
Message == IF ExpectReject THEN "big" ELSE IF broken = "payload" THEN "bad" ELSE "good"

\* What the sender does when the message's state is what it is.  FAILED is as
\* good as REJECTED to --expect-reject; without it REJECTED is not looked at.
OnState(state) ==
  CASE state = "DELIVERED" -> Code(~ExpectReject)
    [] state = "FAILED" -> Code(ExpectReject)
    [] state = "REJECTED" /\ ExpectReject -> 0
    [] OTHER -> On

\* lxmf_inbound_sender.py: announce every 1.5 s and once more when the receiver
\* is heard, send three seconds after that.  The router may give the message up
\* at any time after it was sent, whether or not it went anywhere ("stack").
LxmfSender ==
  /\ scenario \in LxmfScenarios
  /\ Running("peer")
  /\ \E gaveUp \in BOOLEAN :
     LET p == lxmfSender
         got == Heard("peer")
         found == p.send_after = Never /\ "announce" \in got
         hello == found \/ now - p.last_announce >= 3
         after == IF found THEN now + Seconds(3) ELSE p.send_after
         send == after # Never /\ now >= after /\ ~p.sent
         state == IF gaveUp THEN "FAILED" ELSE IF "proof" \in got THEN "DELIVERED"
                  ELSE IF "refusal" \in got THEN "REJECTED" ELSE "OUTBOUND"
     IN  /\ gaveUp => p.sent /\ got \cap {"proof", "refusal"} = {}
         /\ IF Elapsed("peer") >= Timeout
            THEN ~gaveUp /\ Leave("peer", 2) /\ UNCHANGED lxmfSender
            ELSE /\ lxmfSender' = [send_after |-> after, sent |-> p.sent \/ send,
                                   last_announce |-> IF hello THEN now ELSE p.last_announce,
                                   gave_up |-> p.gave_up \/ gaveUp]
                 /\ Iterate("peer",
                            (IF hello THEN {"hello"} ELSE {})
                              \cup (IF send THEN {Message} ELSE {}),
                            OnState(state), ~gaveUp)
  /\ UNCHANGED lxmf

\* "the receiver refused the over-cap resource": it reached the stack, and the
\* sender was told.
Refused == "big" \in reached["cpp"] /\ "refusal" \in reached["peer"]

\* What a pass shows: the message was delivered and all of it was right; or the
\* over-cap one was not delivered, because it was refused or because the sender's
\* own router gave it up.  The second is not what lxmf_inbound_sender.py:244-245
\* prints then, "the receiver refused the over-cap resource": a message that never
\* got there ends in the same state as one that was refused, and passes.
LxmfEarned ==
  IF ExpectReject
  THEN ~lxmf.seen /\ (Refused \/ lxmfSender.gave_up)
  ELSE "good" \in reached["cpp"] /\ "bad" \notin reached["cpp"] /\ "proof" \in reached["peer"]
=============================================================================
