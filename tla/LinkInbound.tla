----------------------------- MODULE LinkInbound -----------------------------
(***************************************************************************)
(* Scenario link-inbound: a Python peer opens a Link to                    *)
(* test_interop/link_inbound_responder, has its data echoed, idles, and    *)
(* then cuts the wire with the relay it controls.  The responder's own     *)
(* watchdog must close the silent link as timed out.                       *)
(*                                                                         *)
(* The watchdogs of both stacks are external: a link on which nothing was  *)
(* heard for stale_time and a grace is closed with reason TIMEOUT, and no  *)
(* other is.  While the wire is whole and both processes run, each hears   *)
(* the other's keepalives.                                                 *)
(***************************************************************************)
EXTENDS Bench

VARIABLES
  responder,  \* link_established, link_closed with its reason, data_ok,
              \* data_mismatch, last_announce
  initiator,  \* the peer: its phase and when it began; failed: failures > 0;
              \* closed with close_reason
  cutAt       \* when the wire was cut; Never while it is whole

linkInbound == <<responder, initiator, cutAt>>

LinkInit ==
  /\ responder = [established |-> FALSE, closed |-> "no", ok |-> FALSE,
                  mismatch |-> FALSE, last_announce |-> Never]
  /\ initiator = [phase |-> "announce", since |-> 0, failed |-> FALSE, closed |-> "no"]
  /\ cutAt = Never

stale_time == Seconds(12)
Grace == Seconds(5)
Silent == cutAt # Never /\ now - cutAt >= stale_time + Grace

\* A process that was held up, or has ended, is not heard either: the link may
\* have been silent for s, for how long depends on the stall.
Starved(s) == faults["slow"] # 0 \/ Ended(Other(s))

on_link_established(r, got) == [r EXCEPT !.established = @ \/ "link" \in got]

\* Data that matches is echoed.  A closed link hands nothing over.
on_link_packet(r, got) ==
  IF r.closed # "no" THEN r
  ELSE [r EXCEPT !.ok = @ \/ "good" \in got, !.mismatch = @ \/ "bad" \in got]

on_link_closed(r, reason) == IF reason = "no" THEN r ELSE [r EXCEPT !.closed = reason]

LinkVerdict(r) == Code(r.established /\ r.ok /\ ~r.mismatch /\ r.closed = "timeout")

\* The responder's loop, which runs for the whole window.  reason: the stack
\* closes the link, as timed out or, which it should not, for another reason; the
\* peer is told of that.  A datagram sent while the wire is cut is not counted as
\* lost: the relay is part of the scenario.
LinkResponder ==
  /\ scenario = "link-inbound"
  /\ Running("cpp")
  /\ \E reason \in {"no", "timeout", "other"} :
     LET r == responder
         got == Heard("cpp")
         h == on_link_packet(on_link_established(r, got), got)
         linked == h.established /\ r.closed = "no"
         first == r.last_announce = Never
         leaving == Elapsed("cpp") > Timeout
         due == ~leaving /\ ~first /\ now - r.last_announce >= Seconds(2) /\ ~h.established
         n == [on_link_closed(h, reason)
                 EXCEPT !.last_announce = IF first \/ due THEN now ELSE @]
         out == (IF first \/ due THEN {"announce"} ELSE {})
                \cup (IF "link" \in got THEN {"established"} ELSE {})
                \cup (IF "good" \in got /\ r.closed = "no" THEN {"echo"} ELSE {})
                \cup (IF reason = "other" THEN {"close"} ELSE {})
     IN  /\ reason # "no" => linked
         /\ reason = "timeout" => Silent \/ Starved("cpp")
         /\ responder' = n
         /\ Iterate("cpp", IF cutAt = Never THEN out ELSE {},
                    IF leaving THEN LinkVerdict(n) ELSE On,
                    reason # "other" /\ (linked /\ Silent => reason = "timeout"))
  /\ UNCHANGED <<initiator, cutAt>>

\* The phases of link_inbound_initiator.py, how long each may last, what it waits
\* for and what is sent when it is left.
Window == [announce |-> Seconds(30), establish |-> Seconds(20), data |-> Seconds(15),
           idle |-> Seconds(15), cut |-> Seconds(45)]
Waits == [announce |-> "announce", establish |-> "established", data |-> "echo"]
After == [announce |-> "establish", establish |-> "data", data |-> "idle", idle |-> "cut"]
LinkPayload == IF broken = "payload" THEN "bad" ELSE "good"
Opens == [announce |-> {"link"}, establish |-> {LinkPayload}, data |-> {}, idle |-> {}]

\* wait_until of a phase that met what it waited for, or is over without.  No
\* announce and no link end the run, and so does a link closed while idle; no echo
\* is a failed check, and the run goes on.
LinkExit(phase, met, over, good) ==
  CASE phase = "announce" /\ over /\ ~met -> 2
    [] phase = "establish" /\ over /\ ~met -> 1
    [] phase = "idle" /\ met -> 1
    [] phase = "cut" /\ (met \/ over) -> Code(met /\ good)
    [] OTHER -> On

\* fires: the peer's watchdog closes the link.  The cut wire is the phase's own
\* doing; the last two phases wait for the link to be closed.
LinkInitiator ==
  /\ scenario = "link-inbound"
  /\ Running("peer")
  /\ \E fires \in BOOLEAN :
     LET p == initiator
         got == Heard("peer")
         linked == p.phase \in {"data", "idle", "cut"} /\ p.closed = "no"
         closed == IF fires THEN "timeout"
                   ELSE IF linked /\ "close" \in got THEN "other" ELSE p.closed
         over == now - p.since >= Window[p.phase]
         met == IF p.phase \in DOMAIN Waits THEN Waits[p.phase] \in got ELSE closed # "no"
         turns == \/ p.phase \in DOMAIN Waits /\ met
                  \/ p.phase \in {"data", "idle"} /\ over /\ ~met
         failed == p.failed \/ (p.phase = "data" /\ over /\ ~met)
     IN  /\ fires => linked /\ (Silent \/ Starved("peer"))
         /\ initiator' = [phase |-> IF turns THEN After[p.phase] ELSE p.phase,
                          since |-> IF turns THEN now ELSE p.since,
                          failed |-> failed, closed |-> closed]
         /\ cutAt' = IF turns /\ p.phase = "idle" /\ broken # "nocut" THEN now ELSE cutAt
         /\ Iterate("peer", IF turns THEN Opens[p.phase] ELSE {},
                    LinkExit(p.phase, met, over, ~failed /\ closed = "timeout"),
                    linked /\ Silent => fires)
  /\ UNCHANGED responder

\* What a pass shows: data went both ways, and the link went silent, for the wire
\* was cut or a process was held up.  The second is not what the switch nocut
\* prints, "the timeout assertion must fail because the link stays up": it does
\* not, if the C++ process does not get to run for stale_time and a grace.
LinkEarned ==
  /\ {"link", "good"} \subseteq reached["cpp"]
  /\ "bad" \notin reached["cpp"]
  /\ "echo" \in reached["peer"]
  /\ Silent \/ faults["slow"] # 0
=============================================================================
