------------------------------- MODULE Tca8418 -------------------------------
(***************************************************************************)
(* The TCA8418 keypad scanner driver and the chip it talks to over I2C.    *)
(* The chip queues events on its own clock, between any two register       *)
(* accesses of begin() and poll(); every access may fail; the processor    *)
(* may restart at any point and leave the chip as it was.                  *)
(*                                                                         *)
(* The chip is external: it is what Tca8418.cpp and its comments use of    *)
(* it.  INT_STAT bits are set by the chip and cleared by writing ones; the *)
(* FIFO shifts on every read of KEY_EVENT_A; with OVR_FLOW_M set a full    *)
(* FIFO drops its oldest event and raises OVR_FLOW_INT.  Whether K_INT can *)
(* be cleared while events are queued depends on the board.                *)
(***************************************************************************)
EXTENDS Integers, Sequences, FiniteSets

CONSTANTS
  Actions,     \* what a finger or a pin can do: matrix and GPI events
  FifoDepth,   \* 10
  Max,         \* room for events in the caller's buffer, poll's max
  Restarts,    \* bound: restarts of the processor
  Boards,      \* which boards there are: see Board
  MaxEvents    \* bound: events of the keypad

TCA_ROWS == 8
TCA_COLS == 10
TCA_GPI_FIRST == 97

KeyEvent == [row : 0..TCA_ROWS - 1, col : 0..TCA_COLS - 1, pressed : BOOLEAN]
\* busFails: register accesses may fail.  kIntHeld: the chip keeps K_INT while
\* its FIFO is not empty, whatever is written to INT_STAT.
Board == [busFails : BOOLEAN, kIntHeld : BOOLEAN]

GpiEvent == [gpi : TCA_GPI_FIRST..114, pressed : BOOLEAN]

ASSUME TcaAssumption ==
  /\ Actions \subseteq KeyEvent \cup GpiEvent
  /\ FifoDepth \in 1..15
  /\ Max \in Nat \ {0}
  /\ Restarts \in Nat
  /\ Boards \subseteq Board /\ Boards # {}
  /\ MaxEvents \in Nat

VARIABLES
  board,       \* the board this is, one of Boards
  \* the chip
  happened,    \* every event since power-on, in order
  fifo,        \* the queued ones: [id |-> position in happened, raw |-> byte]
  int_stat,    \* INT_STAT
  configured,  \* the matrix is scanned
  \* the driver
  pc,          \* where begin() or poll() is
  stat,        \* their local stat
  count,       \* poll's local pending
  out,         \* what poll has put in the caller's buffer: [id, ev]
  overflowed,  \* _overflowed
  \* history
  got,         \* ids handed to the caller
  last,        \* the id last handed to the caller
  dropped,     \* ids the chip dropped
  unread,      \* ids lost to a failed read of the FIFO
  owed,        \* events were dropped and the caller is still to hear of it, see Forgotten
  restarts     \* restarts so far

chip == <<happened, fifo, int_stat, configured>>
driver == <<pc, stat, count, out, overflowed>>
history == <<got, last, dropped, unread, owed, restarts>>
vars == <<board, chip, driver, history>>

Raw(a) == (IF a.pressed THEN 128 ELSE 0)
          + (IF a \in KeyEvent THEN a.row * TCA_COLS + a.col + 1 ELSE a.gpi)

\* Mutant: the key numbers run down the rows first.
decode_by_rows(raw) ==
  LET key == raw % 128
  IN  IF key = 0 \/ key >= TCA_GPI_FIRST \/ key > TCA_ROWS * TCA_COLS
      THEN {}
      ELSE {[row |-> (key - 1) % TCA_ROWS, col |-> (key - 1) \div TCA_ROWS,
             pressed |-> raw >= 128]}

\* decode(): the empty set when it returns false.
decode(raw) ==
  LET key == raw % 128
  IN  IF key = 0 \/ key >= TCA_GPI_FIRST \/ key > TCA_ROWS * TCA_COLS
      THEN {}
      ELSE {[row |-> (key - 1) \div TCA_COLS, col |-> (key - 1) % TCA_COLS,
             pressed |-> raw >= 128]}

Ids == 1..MaxEvents
Bits == {"K", "OVR", "CAD"}
PCs == {"off", "begin", "stat", "idle", "count", "drain", "clear"}

TypeOK ==
  /\ board \in Boards
  /\ happened \in Seq(Actions) /\ Len(happened) <= MaxEvents
  /\ fifo \in Seq([id : Ids, raw : 1..255]) /\ Len(fifo) <= FifoDepth
  /\ int_stat \subseteq Bits
  /\ configured \in BOOLEAN
  /\ pc \in PCs
  /\ stat \subseteq Bits
  /\ count \in 0..FifoDepth
  /\ out \in Seq([id : Ids, ev : KeyEvent]) /\ Len(out) <= Max
  /\ overflowed \in BOOLEAN
  /\ got \subseteq Ids /\ dropped \subseteq Ids /\ unread \subseteq Ids
  /\ last \in Ids \cup {0}
  /\ owed \in BOOLEAN
  /\ restarts \in 0..Restarts

Init ==
  /\ board \in Boards
  /\ happened = <<>>
  /\ fifo = <<>>
  /\ int_stat = {}
  /\ configured = FALSE
  /\ pc = "off"
  /\ stat = {}
  /\ count = 0
  /\ out = <<>>
  /\ overflowed = FALSE
  /\ got = {} /\ dropped = {} /\ unread = {}
  /\ last = 0
  /\ owed = FALSE
  /\ restarts = 0

-----------------------------------------------------------------------------
(* The chip.                                                               *)

\* Two keys of column zero raise CAD_INT without a Ctrl-Alt-Delete.
KeypadEvent(a) ==
  /\ configured
  /\ Len(happened) < MaxEvents
  /\ happened' = Append(happened, a)
  /\ LET e == [id |-> Len(happened'), raw |-> Raw(a)]
         full == Len(fifo) = FifoDepth
     IN  /\ fifo' = Append(IF full THEN Tail(fifo) ELSE fifo, e)
         /\ \E cad \in {{}, {"CAD"}} :
              int_stat' = int_stat \cup {"K"} \cup cad \cup (IF full THEN {"OVR"} ELSE {})
         /\ dropped' = IF full THEN dropped \cup {Head(fifo).id} ELSE dropped
         /\ owed' = (owed \/ full)
  /\ UNCHANGED <<board, configured, driver, got, last, unread, restarts>>

\* INT_STAT written with the bits of s: the bits left.
Cleared(s) == int_stat \ (IF board.kIntHeld /\ fifo # <<>> THEN s \ {"K"} ELSE s)

\* A step after which nobody is to hear of a loss that is not flagged in INT_STAT:
\* the caller has acknowledged it, its memory of it is gone, or begin() has cleared
\* the flag of an overflow from before.
Forgotten == owed' = (owed /\ "OVR" \in int_stat')

-----------------------------------------------------------------------------
(* begin().  The register writes that configure the chip either all get    *)
(* through or stop at the first that fails; the matrix is scanned from the *)
(* first on.                                                               *)

Begin ==
  /\ pc = "off"
  /\ \/ pc' = "begin" /\ configured' = TRUE
     \/ board.busFails /\ configured' \in {configured, TRUE} /\ UNCHANGED pc
  /\ UNCHANGED <<board, happened, fifo, int_stat, stat, count, out, overflowed, history>>

\* A failed read of INT_STAT leaves it alone.
BeginStat ==
  /\ pc = "begin"
  /\ \/ pc' = "stat" /\ stat' = int_stat
     \/ board.busFails /\ pc' = "idle" /\ UNCHANGED stat
  /\ UNCHANGED <<board, chip, count, out, overflowed, history>>

\* "Clear anything latched from before we were configured", an overflow too.
BeginClear ==
  /\ pc = "stat"
  /\ pc' = "idle"
  /\ int_stat' = Cleared(stat) \/ (board.busFails /\ UNCHANGED int_stat)
  /\ Forgotten
  /\ UNCHANGED <<board, happened, fifo, configured, stat, count, out, overflowed,
                 got, last, dropped, unread, restarts>>

-----------------------------------------------------------------------------
(* poll().                                                                 *)

PollStat ==
  /\ pc = "idle"
  /\ stat' = int_stat
  /\ overflowed' = (overflowed \/ "OVR" \in int_stat)
  /\ out' = <<>>
  /\ pc' = IF "K" \in int_stat THEN "count" ELSE IF int_stat # {} THEN "clear" ELSE "idle"
  /\ UNCHANGED <<board, chip, count, history>>

\* Mutant: one event too few.
PollCountLess ==
  /\ pc = "count"
  /\ pc' = "drain" /\ count' = IF fifo = <<>> THEN 0 ELSE Len(fifo) - 1
  /\ UNCHANGED <<board, chip, stat, out, overflowed, history>>

PollCount ==
  /\ pc = "count"
  /\ \/ pc' = "drain" /\ count' = Len(fifo) % 16
     \/ board.busFails /\ pc' = "idle" /\ UNCHANGED count
  /\ UNCHANGED <<board, chip, stat, out, overflowed, history>>

\* Mutant: the room in the buffer is not looked at before the FIFO is read.
PollEventNoRoom ==
  /\ pc = "drain" /\ count > 0
  /\ LET evs == decode(Head(fifo).raw)
     IN  out' = IF evs = {} \/ Len(out) = Max THEN out
                ELSE Append(out, [id |-> Head(fifo).id, ev |-> CHOOSE ev \in evs : TRUE])
  /\ fifo' = Tail(fifo)
  /\ count' = count - 1
  /\ UNCHANGED <<board, happened, int_stat, configured, pc, stat, overflowed, history>>

\* An event that decode() refuses still takes a slot.
PollEvent ==
  /\ pc = "drain" /\ count > 0 /\ Len(out) < Max
  /\ LET evs == decode(Head(fifo).raw)
     IN  out' = IF evs = {} THEN out
                ELSE Append(out, [id |-> Head(fifo).id, ev |-> CHOOSE ev \in evs : TRUE])
  /\ fifo' = Tail(fifo)
  /\ count' = count - 1
  /\ UNCHANGED <<board, happened, int_stat, configured, pc, stat, overflowed, history>>

\* A read that fails on the bus may have shifted the FIFO all the same.
PollEventFails ==
  /\ board.busFails
  /\ pc = "drain" /\ count > 0 /\ Len(out) < Max
  /\ pc' = "clear"
  /\ \/ UNCHANGED <<fifo, unread>>
     \/ fifo' = Tail(fifo) /\ unread' = unread \cup {Head(fifo).id}
  /\ UNCHANGED <<board, happened, int_stat, configured, stat, count, out, overflowed,
                 got, last, dropped, owed, restarts>>

PollDrained ==
  /\ pc = "drain" /\ (count = 0 \/ Len(out) = Max)
  /\ pc' = "clear"
  /\ UNCHANGED <<board, chip, stat, count, out, overflowed, history>>

\* Mutant: every interrupt is cleared, not the ones that were read.
PollClearAll ==
  /\ pc = "clear"
  /\ pc' = "idle"
  /\ int_stat' = Cleared(Bits)
  /\ got' = got \cup {out[i].id : i \in DOMAIN out}
  /\ out' = <<>>
  /\ last' = IF out = <<>> THEN last ELSE out[Len(out)].id
  /\ UNCHANGED <<board, happened, fifo, configured, stat, count, overflowed,
                 dropped, unread, owed, restarts>>

PollClear ==
  /\ pc = "clear"
  /\ pc' = "idle"
  /\ int_stat' = Cleared(stat) \/ (board.busFails /\ UNCHANGED int_stat)
  /\ got' = got \cup {out[i].id : i \in DOMAIN out}
  /\ out' = <<>>
  /\ last' = IF out = <<>> THEN last ELSE out[Len(out)].id
  /\ UNCHANGED <<board, happened, fifo, configured, stat, count, overflowed,
                 dropped, unread, owed, restarts>>

clear_overflow ==
  /\ pc = "idle" /\ overflowed
  /\ overflowed' = FALSE
  /\ UNCHANGED <<board, chip, pc, stat, count, out, got, last, dropped, unread, restarts>>
  /\ Forgotten

\* The processor restarts and the chip does not: what poll was holding is lost.
Restart ==
  /\ restarts < Restarts
  /\ pc # "off"
  /\ restarts' = restarts + 1
  /\ pc' = "off"
  /\ stat' = {} /\ count' = 0 /\ out' = <<>> /\ overflowed' = FALSE
  /\ unread' = unread \cup {out[i].id : i \in DOMAIN out}
  /\ UNCHANGED <<board, chip, got, last, dropped>>
  /\ Forgotten

Next ==
  \/ \E a \in Actions : KeypadEvent(a)
  \/ Begin \/ BeginStat \/ BeginClear
  \/ PollStat \/ PollCount \/ PollEvent \/ PollEventFails \/ PollDrained \/ PollClear
  \/ clear_overflow
  \/ Restart

Spec == Init /\ [][Next]_vars

\* The caller keeps polling, and each call runs to its end.
Driver == Begin \/ BeginStat \/ BeginClear \/ PollStat \/ PollCount \/ PollEvent
          \/ PollEventFails \/ PollDrained \/ PollClear
FairSpec == Spec /\ WF_vars(Driver)

-----------------------------------------------------------------------------
QueuedIds == {fifo[i].id : i \in DOMAIN fifo}
OutIds == {out[i].id : i \in DOMAIN out}

(* Tca8418.h:111: "Overflow is reported, never swallowed": an event the    *)
(* chip drops is reported by overflowed() or still flagged, so that the    *)
(* next poll reports it, whatever access of poll() it falls between and    *)
(* whichever fails.  The exception is begin(): the flag of an overflow     *)
(* from before its reading of INT_STAT, left by a restart of the processor *)
(* or raised while it configures the chip, it clears and tells nobody.  An *)
(* overflow between that reading and the clearing is kept.                 *)
LossReported == owed => overflowed \/ "OVR" \in int_stat

(* No key event goes missing but by a reported overflow, a failed read or  *)
(* a restart: it is with the caller, in its buffer, or queued.             *)
Accounted ==
  \A id \in DOMAIN happened :
    happened[id] \in KeyEvent => id \in got \cup OutIds \cup QueuedIds \cup dropped \cup unread

(* poll hands over the keys that were really pressed and released, at the  *)
(* row and column where it happened, each once and in the order in which   *)
(* they happened, across polls too; GPI events are never among them.       *)
OutputFaithful ==
  /\ \A i \in DOMAIN out : out[i].ev = happened[out[i].id] /\ out[i].id > last
  /\ \A i, j \in DOMAIN out : i < j => out[i].id < out[j].id

(* "Drain the FIFO": what the chip queued is read by this poll or a later  *)
(* one, also when the caller's buffer is too small for it or it arrives in *)
(* the middle of a poll, on a board whose bus works and whose chip keeps   *)
(* K_INT while events are queued.                                          *)
Drains ==
  (~board.busFails /\ board.kIntHeld /\ fifo # <<>>) ~> fifo = <<>>
=============================================================================
