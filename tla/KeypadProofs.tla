---------------------------- MODULE KeypadProofs ----------------------------
(***************************************************************************)
(* Proofs about the two halves of lib/Keypad, the driver of the scanner and *)
(* the input layer that gets its events.                                   *)
(***************************************************************************)
EXTENDS Tca8418, InputLayer, FiniteSetTheorems, TLAPS

(***************************************************************************)
(* The scanner.  For every keypad, every depth of the chip's queue, every  *)
(* size of the caller's buffer and every board, a loss is reported, an     *)
(* event is accounted for, and what poll() hands over is what happened,    *)
(* once and in order.                                                      *)
(***************************************************************************)

\* poll() holds events only while it drains and clears.
EmptyHanded == pc \notin {"drain", "clear"} => out = <<>>

\* The chip overwrites its oldest event when it is full, and so never holds
\* fewer than poll() counted and has still to read.
CountInv == pc = "drain" => count <= Len(fifo)

\* An overflow poll() read, and is about to clear, is in _overflowed.
ReadInv == pc \in {"count", "drain", "clear"} /\ "OVR" \in stat => overflowed

\* The queue holds events that happened, in order.
QueueInv ==
  /\ \A i \in 1..Len(fifo) : /\ fifo[i].id <= Len(happened)
                             /\ fifo[i].raw = Raw(happened[fifo[i].id])
  /\ \A i, j \in 1..Len(fifo) : i < j => fifo[i].id < fifo[j].id

\* What is held and what was handed over is older than what is queued.
AheadInv ==
  /\ last <= Len(happened)
  /\ \A j \in 1..Len(fifo) : last < fifo[j].id
  /\ \A i \in 1..Len(out) : out[i].id <= Len(happened)
  /\ \A i \in 1..Len(out), j \in 1..Len(fifo) : out[i].id < fifo[j].id

ScanInv == /\ TypeOK /\ EmptyHanded /\ CountInv /\ ReadInv /\ QueueInv /\ AheadInv
           /\ LossReported /\ Accounted /\ OutputFaithful

-----------------------------------------------------------------------------
\* decode() undoes the chip's numbering of the keys and refuses the rest.
LEMMA DecodeRaw ==
  ASSUME NEW a \in Actions
  PROVE  /\ Raw(a) \in 1..255
         /\ a \in KeyEvent => decode(Raw(a)) = {a}
         /\ a \notin KeyEvent => decode(Raw(a)) = {}
<1>1. CASE a \in KeyEvent
  <2>1. /\ a.row \in 0..7 /\ a.col \in 0..9 /\ a.pressed \in BOOLEAN
        /\ a = [row |-> a.row, col |-> a.col, pressed |-> a.pressed]
    BY <1>1 DEF KeyEvent, TCA_ROWS, TCA_COLS
  <2> DEFINE key == a.row * 10 + a.col + 1
  <2>2. key \in 1..80 /\ (key - 1) \div 10 = a.row /\ (key - 1) % 10 = a.col
    BY <2>1
  <2>3. Raw(a) = IF a.pressed THEN 128 + key ELSE key
    BY <1>1, <2>1 DEF Raw, TCA_COLS
  <2>4. Raw(a) \in 1..255 /\ Raw(a) % 128 = key /\ (Raw(a) >= 128) = a.pressed
    <3> HIDE DEF key
    <3> QED BY <2>1, <2>2, <2>3
  <2>5. decode(Raw(a)) = {[row |-> a.row, col |-> a.col, pressed |-> a.pressed]}
    <3> HIDE DEF key
    <3> QED BY <2>2, <2>4 DEF decode, TCA_GPI_FIRST, TCA_ROWS, TCA_COLS
  <2> QED BY <1>1, <2>1, <2>4, <2>5
<1>2. CASE a \notin KeyEvent
  <2>1. a \in GpiEvent
    BY <1>2, TcaAssumption
  <2>2. a.gpi \in 97..114 /\ a.pressed \in BOOLEAN
    BY <2>1 DEF GpiEvent, TCA_GPI_FIRST
  <2>3. Raw(a) = IF a.pressed THEN 128 + a.gpi ELSE a.gpi
    BY <1>2, <2>2 DEF Raw
  <2>4. Raw(a) \in 1..255 /\ Raw(a) % 128 >= 97
    BY <2>2, <2>3
  <2> QED BY <1>2, <2>4 DEF decode, TCA_GPI_FIRST
<1> QED BY <1>1, <1>2

LEMMA Bounds ==
  FifoDepth \in 1..15 /\ Max \in Nat \ {0} /\ Restarts \in Nat /\ MaxEvents \in Nat
BY TcaAssumption

\* What is left of a sequence when its head is taken.
LEMMA TailFacts ==
  ASSUME NEW S, NEW s \in Seq(S), Len(s) > 0
  PROVE  /\ Head(s) = s[1] /\ s[1] \in S
         /\ Tail(s) \in Seq(S)
         /\ Len(Tail(s)) = Len(s) - 1
         /\ \A i \in 1..Len(s) - 1 : Tail(s)[i] = s[i + 1]
OBVIOUS

LEMMA AppendFacts ==
  ASSUME NEW S, NEW s \in Seq(S), NEW x \in S
  PROVE  /\ Append(s, x) \in Seq(S)
         /\ Len(Append(s, x)) = Len(s) + 1
         /\ \A i \in 1..Len(s) : Append(s, x)[i] = s[i]
         /\ Append(s, x)[Len(s) + 1] = x
OBVIOUS

LEMMA ElementOf ==
  ASSUME NEW S, NEW s \in Seq(S)
  PROVE  DOMAIN s = 1..Len(s) /\ \A i \in 1..Len(s) : s[i] \in S
OBVIOUS

\* The types of the two sequences, element by element.
LEMMA Elements ==
  ASSUME TypeOK
  PROVE  /\ fifo \in Seq([id : Ids, raw : 1..255]) /\ Len(fifo) \in Nat
         /\ out \in Seq([id : Ids, ev : KeyEvent]) /\ Len(out) \in Nat
         /\ happened \in Seq(Actions) /\ Len(happened) \in Nat
         /\ \A i \in 1..Len(fifo) : fifo[i].id \in Nat \ {0} /\ fifo[i].id \in Ids
         /\ \A i \in 1..Len(out) : out[i].id \in Nat \ {0} /\ out[i].id \in Ids
         /\ last \in Nat /\ count \in Nat
<1>1. /\ fifo \in Seq([id : Ids, raw : 1..255]) /\ Len(fifo) \in Nat
      /\ out \in Seq([id : Ids, ev : KeyEvent]) /\ Len(out) \in Nat
      /\ happened \in Seq(Actions) /\ Len(happened) \in Nat
  BY DEF TypeOK
<1>2. Ids \subseteq Nat \ {0}
  BY Bounds DEF Ids
<1>3. \A i \in 1..Len(fifo) : fifo[i].id \in Ids
  <2>1. \A i \in 1..Len(fifo) : fifo[i] \in [id : Ids, raw : 1..255]
    BY <1>1, ElementOf
  <2> QED BY <2>1
<1>4. \A i \in 1..Len(out) : out[i].id \in Ids
  <2>1. \A i \in 1..Len(out) : out[i] \in [id : Ids, ev : KeyEvent]
    BY <1>1, ElementOf
  <2> QED BY <2>1
<1>5. last \in Nat /\ count \in Nat
  BY <1>2, Bounds DEF TypeOK
<1> QED BY <1>1, <1>2, <1>3, <1>4, <1>5

LEMMA InitScan == Init => ScanInv
<1> SUFFICES ASSUME Init PROVE ScanInv
  OBVIOUS
<1>1. TypeOK
  <2>1. /\ happened \in Seq(Actions) /\ Len(happened) <= MaxEvents
        /\ fifo \in Seq([id : Ids, raw : 1..255]) /\ Len(fifo) <= FifoDepth
        /\ out \in Seq([id : Ids, ev : KeyEvent]) /\ Len(out) <= Max
    <3>1. \A S : <<>> \in Seq(S)
      OBVIOUS
    <3> QED BY <3>1, Bounds DEF Init
  <2>2. count \in 0..FifoDepth /\ restarts \in 0..Restarts
    BY Bounds DEF Init
  <2> QED BY <2>1, <2>2 DEF Init, TypeOK, Bits, PCs
<1> QED
  BY <1>1 DEF Init, ScanInv, EmptyHanded, CountInv, ReadInv, QueueInv, AheadInv,
              LossReported, Accounted, OutputFaithful, OutIds, QueuedIds

-----------------------------------------------------------------------------
\* The chip's step: a new event, and the oldest dropped from a full queue.
LEMMA KeypadStep ==
  ASSUME ScanInv, NEW a \in Actions, KeypadEvent(a)
  PROVE  ScanInv'
<1> DEFINE n == Len(happened)
           e == [id |-> n + 1, raw |-> Raw(a)]
           full == Len(fifo) = FifoDepth
           rest == IF full THEN Tail(fifo) ELSE fifo
<1> USE Bounds
<1>0. /\ TypeOK /\ QueueInv /\ AheadInv /\ Accounted /\ OutputFaithful /\ LossReported
      /\ EmptyHanded /\ CountInv /\ ReadInv
  BY DEF ScanInv
<1>t. /\ \A i \in 1..Len(fifo) : fifo[i].id \in Nat \ {0} /\ fifo[i].id \in Ids
      /\ \A i \in 1..Len(out) : out[i].id \in Nat \ {0} /\ out[i].id \in Ids
      /\ last \in Nat /\ count \in Nat /\ Len(fifo) \in Nat /\ Len(out) \in Nat
  BY <1>0, Elements
<1>1. /\ happened \in Seq(Actions) /\ n \in Nat /\ n < MaxEvents
      /\ happened' = Append(happened, a) /\ Len(happened') = n + 1
      /\ \A i \in 1..n : happened'[i] = happened[i]
      /\ happened'[n + 1] = a
  BY <1>0 DEF TypeOK, KeypadEvent
<1>2. fifo' = Append(rest, e)
  BY <1>1 DEF KeypadEvent
<1>3. /\ fifo \in Seq([id : Ids, raw : 1..255]) /\ Len(fifo) \in Nat
      /\ Len(fifo) <= FifoDepth
      /\ (full => Len(fifo) > 0)
  BY <1>0 DEF TypeOK
<1>4. /\ rest \in Seq([id : Ids, raw : 1..255])
      /\ Len(rest) = IF full THEN Len(fifo) - 1 ELSE Len(fifo)
      /\ \A i \in 1..Len(rest) : rest[i] = fifo[IF full THEN i + 1 ELSE i]
  <2>1. CASE full
    BY <1>3, <2>1, TailFacts
  <2>2. CASE ~full
    BY <1>3, <2>2
  <2> QED BY <2>1, <2>2
<1>5. e \in [id : Ids, raw : 1..255]
  BY <1>1, DecodeRaw DEF Ids
<1>6. /\ fifo' \in Seq([id : Ids, raw : 1..255])
      /\ Len(fifo') = Len(rest) + 1
      /\ \A i \in 1..Len(rest) : fifo'[i] = fifo[IF full THEN i + 1 ELSE i]
      /\ fifo'[Len(rest) + 1] = e
  <2> HIDE DEF e, rest
  <2>1. /\ fifo' \in Seq([id : Ids, raw : 1..255])
        /\ Len(fifo') = Len(rest) + 1
        /\ \A i \in 1..Len(rest) : fifo'[i] = rest[i]
        /\ fifo'[Len(rest) + 1] = e
    BY <1>2, <1>4, <1>5, AppendFacts
  <2> QED BY <1>4, <2>1
<1>7. UNCHANGED <<board, configured, driver, got, last, unread, restarts>>
  BY DEF KeypadEvent
<1>8. TypeOK'
  <2>1. int_stat' \subseteq Bits
    BY <1>0 DEF KeypadEvent, TypeOK, Bits
  <2>2. dropped' \subseteq Ids
    <3>1. dropped \subseteq Ids
      BY <1>0 DEF TypeOK
    <3>2. full => Head(fifo).id \in Ids
      BY <1>3, <1>t, TailFacts
    <3>3. dropped' = IF full THEN dropped \cup {Head(fifo).id} ELSE dropped
      BY DEF KeypadEvent
    <3> QED BY <3>1, <3>2, <3>3
  <2>3. owed' \in BOOLEAN
    BY <1>0 DEF KeypadEvent, TypeOK
  <2>4. Len(fifo') <= FifoDepth
    BY <1>3, <1>4, <1>6
  <2>5. happened' \in Seq(Actions) /\ Len(happened') <= MaxEvents
    BY <1>1
  <2> HIDE DEF e, rest
  <2> QED BY <1>0, <1>6, <1>7, <2>1, <2>2, <2>3, <2>4, <2>5 DEF TypeOK, driver
<1>9. EmptyHanded' /\ CountInv' /\ ReadInv'
  <2>1. Len(fifo') >= Len(fifo)
    BY <1>3, <1>4, <1>6
  <2>2. UNCHANGED <<pc, out, count, stat, overflowed>> /\ Len(fifo') \in Nat
    BY <1>6, <1>7 DEF driver
  <2> HIDE DEF e, rest
  <2> QED BY <1>0, <1>t, <2>1, <2>2 DEF EmptyHanded, CountInv, ReadInv
<1>10. \A i \in 1..Len(fifo') : \/ i = Len(rest) + 1 /\ fifo'[i] = e
                                \/ \E k \in 1..Len(fifo) :
                                     /\ fifo'[i] = fifo[k]
                                     /\ k = IF full THEN i + 1 ELSE i
  <2> HIDE DEF e, rest
  <2> SUFFICES ASSUME NEW i \in 1..Len(fifo'), i # Len(rest) + 1
               PROVE  /\ fifo'[i] = fifo[IF full THEN i + 1 ELSE i]
                      /\ (IF full THEN i + 1 ELSE i) \in 1..Len(fifo)
    BY <1>6
  <2>1. i \in 1..Len(rest)
    BY <1>3, <1>4, <1>6
  <2> QED BY <1>3, <1>4, <1>6, <2>1
<1>11. \A k \in 1..Len(fifo) : fifo[k].id \in 1..n /\ fifo[k].id \in Ids
  BY <1>0, <1>1, <1>t DEF QueueInv
<1>12. QueueInv'
  <2>1. ASSUME NEW i \in 1..Len(fifo')
        PROVE  fifo'[i].id <= Len(happened') /\ fifo'[i].raw = Raw(happened'[fifo'[i].id])
    <3>1. CASE fifo'[i] = e
      BY <1>1, <3>1
    <3>2. CASE \E k \in 1..Len(fifo) : fifo'[i] = fifo[k]
      BY <1>0, <1>1, <1>11, <3>2 DEF QueueInv
    <3> QED BY <1>10, <3>1, <3>2
  <2>2. ASSUME NEW i \in 1..Len(fifo'), NEW j \in 1..Len(fifo'), i < j
        PROVE  fifo'[i].id < fifo'[j].id
    <3>1. i \in 1..Len(rest)
      BY <1>4, <1>3, <1>6, <2>2
    <3>2. PICK k \in 1..Len(fifo) : fifo'[i] = fifo[k] /\ k = IF full THEN i + 1 ELSE i
      BY <1>10, <3>1
    <3>3. CASE fifo'[j] = e
      BY <1>1, <1>11, <3>2, <3>3
    <3>4. CASE \E l \in 1..Len(fifo) : fifo'[j] = fifo[l] /\ l = IF full THEN j + 1 ELSE j
      <4>1. PICK l \in 1..Len(fifo) : fifo'[j] = fifo[l] /\ l = IF full THEN j + 1 ELSE j
        BY <3>4
      <4>2. k < l
        BY <1>3, <1>6, <2>2, <3>2, <4>1
      <4> QED BY <1>0, <3>2, <4>1, <4>2 DEF QueueInv
    <3> QED BY <1>10, <3>3, <3>4
  <2> QED BY <2>1, <2>2 DEF QueueInv
<1>13. AheadInv'
  <2>1. \A j \in 1..Len(fifo') : \/ fifo'[j].id = n + 1
                               \/ \E k \in 1..Len(fifo) : fifo'[j].id = fifo[k].id
    <3> SUFFICES ASSUME NEW j \in 1..Len(fifo'), fifo'[j].id # n + 1
                 PROVE  \E k \in 1..Len(fifo) : fifo'[j].id = fifo[k].id
      OBVIOUS
    <3>1. e.id = n + 1
      OBVIOUS
    <3>2. PICK k \in 1..Len(fifo) : fifo'[j] = fifo[k]
      <4> HIDE DEF e, rest
      <4> QED BY <1>10, <3>1
    <3> QED BY <3>2
  <2>2. UNCHANGED <<last, out>>
    BY <1>7 DEF driver
  <2>3. ASSUME NEW j \in 1..Len(fifo')
        PROVE  last < fifo'[j].id
    <3>1. CASE fifo'[j].id = n + 1
      BY <1>0, <1>1, <1>t, <3>1 DEF AheadInv
    <3>2. CASE \E k \in 1..Len(fifo) : fifo'[j].id = fifo[k].id
      BY <1>0, <3>2 DEF AheadInv
    <3> QED BY <2>1, <3>1, <3>2
  <2>4. ASSUME NEW i \in 1..Len(out), NEW j \in 1..Len(fifo')
        PROVE  out[i].id < fifo'[j].id
    <3>1. CASE fifo'[j].id = n + 1
      BY <1>0, <1>1, <1>t, <3>1 DEF AheadInv
    <3>2. CASE \E k \in 1..Len(fifo) : fifo'[j].id = fifo[k].id
      BY <1>0, <3>2 DEF AheadInv
    <3> QED BY <2>1, <3>1, <3>2
  <2>5. last <= Len(happened') /\ \A i \in 1..Len(out) : out[i].id <= Len(happened')
    BY <1>0, <1>1, <1>t DEF AheadInv
  <2> QED BY <2>2, <2>3, <2>4, <2>5 DEF AheadInv
<1>14. LossReported'
  BY <1>0, <1>7 DEF LossReported, KeypadEvent, driver, TypeOK
<1>15. Accounted'
  <2>1. UNCHANGED <<out, got, unread>> /\ OutIds' = OutIds
    BY <1>7 DEF driver, OutIds
  <2>2. n + 1 \in QueuedIds'
    BY <1>3, <1>4, <1>6 DEF QueuedIds
  <2>3. ASSUME NEW k \in 1..Len(fifo)
        PROVE  fifo[k].id \in QueuedIds' \cup dropped'
    <3>1. CASE full /\ k = 1
      BY <1>3, <3>1 DEF KeypadEvent
    <3>2. CASE ~(full /\ k = 1)
      <4>1. PICK i \in 1..Len(rest) : k = IF full THEN i + 1 ELSE i
        <5>1. (IF full THEN k - 1 ELSE k) \in 1..Len(rest)
          BY <1>3, <1>4, <3>2
        <5>2. k = IF full THEN (IF full THEN k - 1 ELSE k) + 1 ELSE (IF full THEN k - 1 ELSE k)
          BY <1>3
        <5> QED BY <5>1, <5>2
      <4>2. fifo'[i] = fifo[k] /\ i \in 1..Len(fifo')
        BY <1>3, <1>4, <1>6, <4>1
      <4> QED BY <4>2, <1>6 DEF QueuedIds
    <3> QED BY <3>1, <3>2
  <2>4. dropped \subseteq dropped'
    BY DEF KeypadEvent
  <2>5. QueuedIds \subseteq QueuedIds' \cup dropped'
    BY <2>3, <1>3 DEF QueuedIds
  <2>6. ASSUME NEW id \in DOMAIN happened', happened'[id] \in KeyEvent
        PROVE  id \in got \cup OutIds \cup QueuedIds' \cup dropped' \cup unread
    <3>1. CASE id = n + 1
      BY <2>2, <3>1
    <3>2. CASE id \in DOMAIN happened
      <4>1. happened[id] \in KeyEvent
        BY <1>1, <2>6, <3>2
      <4> QED BY <1>0, <2>4, <2>5, <3>2, <4>1 DEF Accounted
    <3> QED BY <1>1, <3>1, <3>2
  <2> QED BY <2>1, <2>6 DEF Accounted
<1>16. OutputFaithful'
  <2>1. UNCHANGED <<last, out>>
    BY <1>7 DEF driver
  <2>2. \A i \in 1..Len(out) : out[i].id \in 1..n
    BY <1>0, <1>1, <1>t DEF AheadInv
  <2> QED BY <1>0, <1>1, <2>1, <2>2 DEF OutputFaithful, TypeOK
<1> QED
  BY <1>8, <1>9, <1>12, <1>13, <1>14, <1>15, <1>16 DEF ScanInv

-----------------------------------------------------------------------------
\* Steps of the driver that touch neither the queue nor an event.
LEMMA QuietStep ==
  ASSUME ScanInv, UNCHANGED <<happened, fifo, out, got, last, dropped, unread>>
  PROVE  QueueInv' /\ AheadInv' /\ Accounted' /\ OutputFaithful'
BY DEF ScanInv, QueueInv, AheadInv, Accounted, OutputFaithful, QueuedIds, OutIds

LEMMA ForgottenFacts ==
  ASSUME Forgotten
  PROVE  owed' \in BOOLEAN /\ (owed' => "OVR" \in int_stat')
BY DEF Forgotten

LEMMA BeginSteps ==
  ASSUME ScanInv, Begin \/ BeginStat \/ BeginClear
  PROVE  ScanInv'
<1>0. TypeOK /\ EmptyHanded /\ CountInv /\ ReadInv /\ LossReported
  BY DEF ScanInv
<1>1. UNCHANGED <<happened, fifo, out, got, last, dropped, unread>>
  BY DEF Begin, BeginStat, BeginClear, history, chip
<1>2. TypeOK'
  <2>1. CASE Begin
    BY <1>0, <2>1 DEF Begin, TypeOK, history, PCs
  <2>2. CASE BeginStat
    BY <1>0, <2>2 DEF BeginStat, TypeOK, history, chip, PCs
  <2>3. CASE BeginClear
    <3>1. owed' \in BOOLEAN
      BY <2>3, ForgottenFacts DEF BeginClear
    <3> QED BY <1>0, <2>3, <3>1 DEF BeginClear, TypeOK, Cleared, PCs
  <2> QED BY <2>1, <2>2, <2>3
<1>3. EmptyHanded' /\ CountInv' /\ ReadInv'
  BY <1>0, <1>1 DEF EmptyHanded, CountInv, ReadInv, Begin, BeginStat, BeginClear
<1>4. LossReported'
  <2>1. CASE BeginClear
    BY <2>1, ForgottenFacts DEF LossReported, BeginClear
  <2>2. CASE Begin \/ BeginStat
    BY <1>0, <2>2 DEF LossReported, Begin, BeginStat, history, chip
  <2> QED BY <2>1, <2>2
<1> QED BY <1>1, <1>2, <1>3, <1>4, QuietStep DEF ScanInv

LEMMA PollSteps ==
  ASSUME ScanInv, PollStat \/ PollCount \/ PollDrained \/ clear_overflow
  PROVE  ScanInv'
<1>0. TypeOK /\ EmptyHanded /\ CountInv /\ ReadInv /\ LossReported
  BY DEF ScanInv
<1>1. UNCHANGED <<happened, fifo, out, got, last, dropped, unread>>
  BY <1>0 DEF PollStat, PollCount, PollDrained, clear_overflow, history, chip, EmptyHanded
<1>m. Len(fifo) % 16 = Len(fifo) /\ Len(fifo) \in 0..FifoDepth
  <2>1. Len(fifo) \in Nat /\ Len(fifo) <= FifoDepth
    BY <1>0, Elements DEF TypeOK
  <2>2. \A k \in 0..15 : k % 16 = k
    OBVIOUS
  <2> QED BY <2>1, <2>2, Bounds
<1>2. TypeOK'
  <2>1. CASE PollStat
    BY <1>0, <1>1, <2>1 DEF PollStat, TypeOK, history, chip, PCs
  <2>2. CASE PollCount
    BY <1>0, <1>m, <2>2 DEF PollCount, TypeOK, history, chip, PCs
  <2>3. CASE PollDrained
    BY <1>0, <2>3 DEF PollDrained, TypeOK, history, chip, PCs
  <2>4. CASE clear_overflow
    <3>1. owed' \in BOOLEAN
      BY <2>4, ForgottenFacts DEF clear_overflow
    <3> QED BY <1>0, <2>4, <3>1 DEF clear_overflow, TypeOK, chip, PCs
  <2> QED BY <2>1, <2>2, <2>3, <2>4
<1>3. EmptyHanded' /\ ReadInv'
  BY <1>0, <1>1 DEF EmptyHanded, ReadInv, PollStat, PollCount, PollDrained, clear_overflow
<1>4. CountInv'
  <2>1. CASE PollCount
    BY <1>0, <1>1, <1>m, <2>1 DEF CountInv, PollCount
  <2>2. CASE PollStat \/ PollDrained \/ clear_overflow
    BY <1>0, <1>1, <2>2 DEF CountInv, PollStat, PollDrained, clear_overflow
  <2> QED BY <2>1, <2>2
<1>5. LossReported'
  <2>1. CASE clear_overflow
    BY <2>1, ForgottenFacts DEF LossReported, clear_overflow
  <2>2. CASE PollStat \/ PollCount \/ PollDrained
    BY <1>0, <2>2 DEF LossReported, PollStat, PollCount, PollDrained, history, chip
  <2> QED BY <2>1, <2>2
<1> QED BY <1>1, <1>2, <1>3, <1>4, <1>5, QuietStep DEF ScanInv

-----------------------------------------------------------------------------
\* The head of the queue is taken: the rest is still ordered and still ahead.
LEMMA TakenHead ==
  ASSUME ScanInv, Len(fifo) > 0, fifo' = Tail(fifo), UNCHANGED <<happened, last>>
  PROVE  /\ fifo' \in Seq([id : Ids, raw : 1..255])
         /\ Len(fifo') = Len(fifo) - 1
         /\ \A i \in 1..Len(fifo') : i + 1 \in 1..Len(fifo) /\ fifo'[i] = fifo[i + 1]
         /\ Head(fifo) = fifo[1] /\ 1 \in 1..Len(fifo)
         /\ QueueInv'
         /\ \A j \in 1..Len(fifo') : last < fifo'[j].id /\ fifo[1].id < fifo'[j].id
         /\ QueuedIds = QueuedIds' \cup {fifo[1].id}
<1>0. TypeOK /\ QueueInv /\ AheadInv
  BY DEF ScanInv
<1>1. /\ fifo \in Seq([id : Ids, raw : 1..255]) /\ Len(fifo) \in Nat
      /\ \A i \in 1..Len(fifo) : fifo[i].id \in Nat \ {0}
      /\ last \in Nat
  BY <1>0, Elements
<1>2. /\ fifo' \in Seq([id : Ids, raw : 1..255])
      /\ Len(fifo') = Len(fifo) - 1
      /\ \A i \in 1..Len(fifo) - 1 : fifo'[i] = fifo[i + 1]
      /\ Head(fifo) = fifo[1]
  BY <1>1, TailFacts
<1>3. \A i \in 1..Len(fifo') : i + 1 \in 1..Len(fifo) /\ fifo'[i] = fifo[i + 1]
  BY <1>1, <1>2
<1>4. 1 \in 1..Len(fifo)
  BY <1>1
<1>5. QueueInv'
  <2>1. \A i \in 1..Len(fifo') : /\ fifo'[i].id <= Len(happened')
                                 /\ fifo'[i].raw = Raw(happened'[fifo'[i].id])
    BY <1>0, <1>3 DEF QueueInv
  <2>2. ASSUME NEW i \in 1..Len(fifo'), NEW j \in 1..Len(fifo'), i < j
        PROVE  fifo'[i].id < fifo'[j].id
    <3>1. i + 1 \in 1..Len(fifo) /\ j + 1 \in 1..Len(fifo) /\ i + 1 < j + 1
      BY <1>3, <2>2, <1>1, <1>2
    <3> QED BY <1>0, <1>3, <3>1 DEF QueueInv
  <2> QED BY <2>1, <2>2 DEF QueueInv
<1>6. ASSUME NEW j \in 1..Len(fifo')
      PROVE  last < fifo'[j].id /\ fifo[1].id < fifo'[j].id
  <2>1. j + 1 \in 1..Len(fifo) /\ 1 < j + 1 /\ fifo'[j] = fifo[j + 1]
    BY <1>1, <1>2, <1>3
  <2> QED BY <1>0, <1>4, <2>1 DEF QueueInv, AheadInv
<1>7. QueuedIds = QueuedIds' \cup {fifo[1].id}
  <2>1. QueuedIds = {fifo[i].id : i \in 1..Len(fifo)}
    BY <1>1, ElementOf DEF QueuedIds
  <2>2. QueuedIds' = {fifo'[i].id : i \in 1..Len(fifo')}
    <3>1. DOMAIN fifo' = 1..Len(fifo')
      BY <1>2, ElementOf
    <3> QED BY <3>1 DEF QueuedIds
  <2>3. \A i \in 1..Len(fifo) : i # 1 => i - 1 \in 1..Len(fifo') /\ fifo'[i - 1] = fifo[i]
    <3> SUFFICES ASSUME NEW i \in 1..Len(fifo), i # 1
                 PROVE  i - 1 \in 1..Len(fifo') /\ fifo'[i - 1] = fifo[i]
      OBVIOUS
    <3>1. i - 1 \in 1..Len(fifo) - 1 /\ (i - 1) + 1 = i
      BY <1>1
    <3> QED BY <1>2, <3>1
  <2>4. QueuedIds \subseteq QueuedIds' \cup {fifo[1].id}
    BY <2>1, <2>2, <2>3
  <2>5. QueuedIds' \cup {fifo[1].id} \subseteq QueuedIds
    BY <1>3, <1>4, <2>1, <2>2
  <2> QED BY <2>4, <2>5
<1> QED BY <1>2, <1>3, <1>4, <1>5, <1>6, <1>7

\* poll() reads one event and hands it over if it is a key's.
LEMMA EventStep ==
  ASSUME ScanInv, PollEvent
  PROVE  ScanInv'
<1> DEFINE h == fifo[1]
           x == [id |-> h.id, ev |-> happened[h.id]]
           isKey == happened[h.id] \in KeyEvent
<1>0. /\ TypeOK /\ EmptyHanded /\ CountInv /\ ReadInv /\ LossReported
      /\ QueueInv /\ AheadInv /\ Accounted /\ OutputFaithful
  BY DEF ScanInv
<1>1. /\ fifo \in Seq([id : Ids, raw : 1..255]) /\ Len(fifo) \in Nat
      /\ out \in Seq([id : Ids, ev : KeyEvent]) /\ Len(out) \in Nat
      /\ happened \in Seq(Actions) /\ Len(happened) \in Nat
      /\ \A i \in 1..Len(fifo) : fifo[i].id \in Nat \ {0} /\ fifo[i].id \in Ids
      /\ \A i \in 1..Len(out) : out[i].id \in Nat \ {0} /\ out[i].id \in Ids
      /\ last \in Nat /\ count \in Nat
  BY <1>0, Elements
<1>2. /\ pc = "drain" /\ count > 0 /\ Len(out) < Max /\ fifo' = Tail(fifo)
      /\ count' = count - 1
      /\ UNCHANGED <<board, happened, int_stat, configured, pc, stat, overflowed,
                     got, last, dropped, unread, owed, restarts>>
  BY DEF PollEvent, history
<1>3. Len(fifo) > 0 /\ count <= Len(fifo)
  BY <1>0, <1>1, <1>2 DEF CountInv
<1>4. /\ fifo' \in Seq([id : Ids, raw : 1..255])
      /\ Len(fifo') = Len(fifo) - 1
      /\ Head(fifo) = h /\ 1 \in 1..Len(fifo)
      /\ QueueInv'
      /\ \A j \in 1..Len(fifo') : last < fifo'[j].id /\ h.id < fifo'[j].id
      /\ QueuedIds = QueuedIds' \cup {h.id}
      /\ \A i \in 1..Len(fifo') : i + 1 \in 1..Len(fifo) /\ fifo'[i] = fifo[i + 1]
  BY <1>2, <1>3, TakenHead
<1>5. h.id \in 1..Len(happened) /\ h.raw = Raw(happened[h.id]) /\ h.id \in Ids /\ last < h.id
  BY <1>0, <1>1, <1>4 DEF QueueInv, AheadInv
<1>6. happened[h.id] \in Actions
  BY <1>1, <1>5, ElementOf
<1>7. out' = IF isKey THEN Append(out, x) ELSE out
  <2>0. out' = IF decode(h.raw) = {} THEN out
               ELSE Append(out, [id |-> h.id, ev |-> CHOOSE ev \in decode(h.raw) : TRUE])
    BY <1>4 DEF PollEvent
  <2>1. CASE isKey
    <3>1. decode(h.raw) = {happened[h.id]}
      BY <1>5, <1>6, <2>1, DecodeRaw
    <3>2. (CHOOSE ev \in decode(h.raw) : TRUE) = happened[h.id] /\ decode(h.raw) # {}
      BY <3>1
    <3>3. out' = Append(out, [id |-> h.id, ev |-> CHOOSE ev \in decode(h.raw) : TRUE])
      BY <2>0, <3>2
    <3>4. [id |-> h.id, ev |-> CHOOSE ev \in decode(h.raw) : TRUE] = x
      BY <3>2
    <3> QED BY <2>1, <3>3, <3>4
  <2>2. CASE ~isKey
    <3>1. decode(h.raw) = {}
      BY <1>5, <1>6, <2>2, DecodeRaw
    <3> QED BY <2>0, <2>2, <3>1
  <2> QED BY <2>1, <2>2
<1>8. isKey => x \in [id : Ids, ev : KeyEvent]
  BY <1>5
<1>9. /\ out' \in Seq([id : Ids, ev : KeyEvent])
      /\ Len(out') = IF isKey THEN Len(out) + 1 ELSE Len(out)
      /\ \A i \in 1..Len(out) : out'[i] = out[i]
      /\ isKey => out'[Len(out) + 1] = x
  <2> HIDE DEF x
  <2>1. CASE isKey
    BY <1>1, <1>7, <1>8, <2>1, AppendFacts
  <2>2. CASE ~isKey
    BY <1>1, <1>7, <2>2
  <2> QED BY <2>1, <2>2
<1>10. \A i \in 1..Len(out') : i \in 1..Len(out) \/ (isKey /\ i = Len(out) + 1)
  BY <1>1, <1>9
<1>11. TypeOK'
  <2>1. Len(fifo') <= FifoDepth /\ Len(out') <= Max /\ count' \in 0..FifoDepth
    BY <1>0, <1>1, <1>2, <1>4, <1>9, Bounds DEF TypeOK
  <2> HIDE DEF x, h
  <2> QED BY <1>0, <1>2, <1>4, <1>9, <2>1 DEF TypeOK
<1>12. EmptyHanded' /\ CountInv' /\ ReadInv' /\ LossReported'
  BY <1>0, <1>1, <1>2, <1>3, <1>4 DEF EmptyHanded, CountInv, ReadInv, LossReported
<1>13. \A i \in 1..Len(out) : out[i].id < h.id /\ out[i].id <= Len(happened)
  BY <1>0, <1>4 DEF AheadInv
<1>14. AheadInv'
  <2>1. \A i \in 1..Len(out') : out'[i].id <= Len(happened)
    BY <1>5, <1>9, <1>10, <1>13
  <2>2. ASSUME NEW i \in 1..Len(out'), NEW j \in 1..Len(fifo')
        PROVE  out'[i].id < fifo'[j].id
    <3>1. CASE i \in 1..Len(out)
      BY <1>0, <1>4, <1>9, <3>1 DEF AheadInv
    <3>2. CASE isKey /\ i = Len(out) + 1
      BY <1>4, <1>9, <3>2
    <3> QED BY <1>10, <3>1, <3>2
  <2> QED BY <1>0, <1>2, <1>4, <2>1, <2>2 DEF AheadInv
<1>15. Accounted'
  <2>1. OutIds \subseteq OutIds'
    BY <1>1, <1>9 DEF OutIds
  <2>2. isKey => h.id \in OutIds'
    BY <1>1, <1>9 DEF OutIds
  <2> QED BY <1>0, <1>2, <1>4, <2>1, <2>2 DEF Accounted
<1>16. OutputFaithful'
  <2>0. DOMAIN out = 1..Len(out) /\ DOMAIN out' = 1..Len(out')
    BY <1>1, <1>9, ElementOf
  <2>1. ASSUME NEW i \in 1..Len(out')
        PROVE  out'[i].ev = happened[out'[i].id] /\ out'[i].id > last
    <3>1. CASE i \in 1..Len(out)
      BY <1>0, <1>9, <2>0, <3>1 DEF OutputFaithful
    <3>2. CASE isKey /\ i = Len(out) + 1
      BY <1>1, <1>5, <1>9, <3>2
    <3> QED BY <1>10, <3>1, <3>2
  <2>2. ASSUME NEW i \in 1..Len(out'), NEW j \in 1..Len(out'), i < j
        PROVE  out'[i].id < out'[j].id
    <3>1. i \in 1..Len(out)
      BY <1>1, <1>9, <2>2
    <3>2. CASE j \in 1..Len(out)
      BY <1>0, <1>9, <2>0, <2>2, <3>1, <3>2 DEF OutputFaithful
    <3>3. CASE isKey /\ j = Len(out) + 1
      BY <1>9, <1>13, <3>1, <3>3
    <3> QED BY <1>10, <3>2, <3>3
  <2> QED BY <1>2, <2>0, <2>1, <2>2 DEF OutputFaithful
<1> QED
  BY <1>4, <1>11, <1>12, <1>14, <1>15, <1>16 DEF ScanInv

\* A read that fails: the event may be gone, and is then among the unread.
LEMMA EventFailsStep ==
  ASSUME ScanInv, PollEventFails
  PROVE  ScanInv'
<1>0. /\ TypeOK /\ EmptyHanded /\ CountInv /\ ReadInv /\ LossReported
      /\ QueueInv /\ AheadInv /\ Accounted /\ OutputFaithful
  BY DEF ScanInv
<1>1. /\ pc = "drain" /\ count > 0 /\ pc' = "clear"
      /\ UNCHANGED <<board, happened, int_stat, configured, stat, count, out, overflowed,
                     got, last, dropped, owed, restarts>>
  BY DEF PollEventFails
<1>2. EmptyHanded' /\ CountInv' /\ ReadInv' /\ LossReported' /\ OutputFaithful'
  BY <1>0, <1>1 DEF EmptyHanded, CountInv, ReadInv, LossReported, OutputFaithful
<1>3. CASE UNCHANGED <<fifo, unread>>
  <2>1. TypeOK'
    BY <1>0, <1>1, <1>3 DEF TypeOK, PCs
  <2> QED BY <1>1, <1>2, <1>3, <2>1, QuietStep DEF ScanInv
<1>4. CASE fifo' = Tail(fifo) /\ unread' = unread \cup {Head(fifo).id}
  <2>1. Len(fifo) > 0 /\ Len(fifo) \in Nat /\ \A i \in 1..Len(fifo) : fifo[i].id \in Ids
    BY <1>0, <1>1, Elements DEF CountInv
  <2>2. /\ fifo' \in Seq([id : Ids, raw : 1..255])
        /\ Len(fifo') = Len(fifo) - 1
        /\ Head(fifo) = fifo[1] /\ 1 \in 1..Len(fifo)
        /\ QueueInv'
        /\ \A j \in 1..Len(fifo') : last < fifo'[j].id
        /\ QueuedIds = QueuedIds' \cup {fifo[1].id}
        /\ \A i \in 1..Len(fifo') : i + 1 \in 1..Len(fifo) /\ fifo'[i] = fifo[i + 1]
    BY <1>1, <1>4, <2>1, TakenHead
  <2>3. TypeOK'
    <3>1. Len(fifo') <= FifoDepth
      BY <1>0, <2>1, <2>2, Bounds DEF TypeOK
    <3>2. unread' \subseteq Ids
      BY <1>0, <1>4, <2>1, <2>2 DEF TypeOK
    <3> QED BY <1>0, <1>1, <2>2, <3>1, <3>2 DEF TypeOK, PCs
  <2>4. AheadInv'
    BY <1>0, <1>1, <2>2 DEF AheadInv
  <2>5. Accounted'
    <3>1. OutIds' = OutIds
      BY <1>1 DEF OutIds
    <3> QED BY <1>0, <1>1, <1>4, <2>2, <3>1 DEF Accounted
  <2> QED BY <1>2, <2>2, <2>3, <2>4, <2>5 DEF ScanInv
<1> QED BY <1>3, <1>4 DEF PollEventFails

-----------------------------------------------------------------------------
\* poll() returns: what it held is the caller's.
LEMMA ClearStep ==
  ASSUME ScanInv, PollClear
  PROVE  ScanInv'
<1>0. /\ TypeOK /\ EmptyHanded /\ CountInv /\ ReadInv /\ LossReported
      /\ QueueInv /\ AheadInv /\ Accounted /\ OutputFaithful
  BY DEF ScanInv
<1>1. /\ pc = "clear" /\ pc' = "idle" /\ out' = <<>>
      /\ got' = got \cup OutIds
      /\ last' = IF out = <<>> THEN last ELSE out[Len(out)].id
      /\ UNCHANGED <<board, happened, fifo, configured, stat, count, overflowed,
                     dropped, unread, owed, restarts>>
  BY DEF PollClear, OutIds
<1>2. /\ out \in Seq([id : Ids, ev : KeyEvent]) /\ Len(out) \in Nat
      /\ \A i \in 1..Len(out) : out[i].id \in Ids
      /\ DOMAIN out = 1..Len(out)
  BY <1>0, Elements, ElementOf
<1>3. out # <<>> => Len(out) \in 1..Len(out)
  <2>1. \A S : \A s \in Seq(S) : s # <<>> => Len(s) \in 1..Len(s)
    OBVIOUS
  <2> QED BY <1>2, <2>1
<1>4. TypeOK'
  <2>1. OutIds \subseteq Ids
    BY <1>2 DEF OutIds
  <2>2. last' \in Ids \cup {0}
    BY <1>0, <1>1, <1>2, <1>3 DEF TypeOK
  <2>3. int_stat' \subseteq Bits
    BY <1>0 DEF PollClear, TypeOK, Cleared
  <2>4. out' \in Seq([id : Ids, ev : KeyEvent]) /\ Len(out') <= Max
    <3>1. \A S : <<>> \in Seq(S)
      OBVIOUS
    <3> QED BY <1>1, <3>1, Bounds
  <2>5. got' \subseteq Ids
    BY <1>0, <1>1, <2>1 DEF TypeOK
  <2> QED BY <1>0, <1>1, <2>2, <2>3, <2>4, <2>5 DEF TypeOK, PCs
<1>5. EmptyHanded' /\ CountInv' /\ ReadInv'
  BY <1>1 DEF EmptyHanded, CountInv, ReadInv
<1>6. LossReported'
  <2>1. "OVR" \in stat => overflowed
    BY <1>0, <1>1 DEF ReadInv
  <2>2. "OVR" \in int_stat /\ "OVR" \notin stat => "OVR" \in int_stat'
    BY DEF PollClear, Cleared
  <2> QED BY <1>0, <1>1, <2>1, <2>2 DEF LossReported
<1>7. QueueInv'
  BY <1>0, <1>1 DEF QueueInv
<1>8. AheadInv'
  <2>1. last' <= Len(happened) /\ \A j \in 1..Len(fifo) : last' < fifo[j].id
    BY <1>0, <1>1, <1>3 DEF AheadInv
  <2> QED BY <1>1, <2>1 DEF AheadInv
<1>9. Accounted'
  <2>1. QueuedIds' = QueuedIds
    BY <1>1 DEF QueuedIds
  <2> QED BY <1>0, <1>1, <2>1 DEF Accounted
<1>10. OutputFaithful'
  BY <1>1 DEF OutputFaithful
<1> QED BY <1>4, <1>5, <1>6, <1>7, <1>8, <1>9, <1>10 DEF ScanInv

\* The processor restarts: what poll() held is lost, and counted so.
LEMMA RestartStep ==
  ASSUME ScanInv, Restart
  PROVE  ScanInv'
<1>0. TypeOK /\ QueueInv /\ AheadInv /\ Accounted
  BY DEF ScanInv
<1>1. /\ pc' = "off" /\ stat' = {} /\ count' = 0 /\ out' = <<>> /\ overflowed' = FALSE
      /\ unread' = unread \cup OutIds /\ owed' \in BOOLEAN
      /\ owed' => "OVR" \in int_stat'
      /\ restarts < Restarts /\ restarts' = restarts + 1
      /\ UNCHANGED <<board, happened, fifo, int_stat, configured, got, last, dropped>>
  BY ForgottenFacts DEF Restart, chip, OutIds
<1>2. TypeOK'
  <2>1. OutIds \subseteq Ids
    <3>1. DOMAIN out = 1..Len(out) /\ \A i \in 1..Len(out) : out[i].id \in Ids
      BY <1>0, Elements, ElementOf
    <3> QED BY <3>1 DEF OutIds
  <2>2. out' \in Seq([id : Ids, ev : KeyEvent]) /\ Len(out') <= Max
    <3>1. \A S : <<>> \in Seq(S)
      OBVIOUS
    <3> QED BY <1>1, <3>1, Bounds
  <2>3. unread' \subseteq Ids
    BY <1>0, <1>1, <2>1 DEF TypeOK
  <2>4. restarts' \in 0..Restarts /\ count' \in 0..FifoDepth
    BY <1>0, <1>1, Bounds DEF TypeOK
  <2> QED BY <1>0, <1>1, <2>2, <2>3, <2>4 DEF TypeOK, PCs
<1>3. EmptyHanded' /\ CountInv' /\ ReadInv' /\ LossReported' /\ OutputFaithful'
  BY <1>1 DEF EmptyHanded, CountInv, ReadInv, LossReported, OutputFaithful
<1>4. QueueInv' /\ AheadInv'
  BY <1>0, <1>1 DEF QueueInv, AheadInv
<1>5. Accounted'
  <2>1. QueuedIds' = QueuedIds
    BY <1>1 DEF QueuedIds
  <2> QED BY <1>0, <1>1, <2>1 DEF Accounted
<1> QED BY <1>2, <1>3, <1>4, <1>5 DEF ScanInv

-----------------------------------------------------------------------------
\* ScanInv holds whatever the chip, the bus, the caller and the power do.
THEOREM ScanInvariant == Spec => []ScanInv
<1>1. ASSUME ScanInv, [Next]_vars
      PROVE  ScanInv'
  <2>1. CASE \E a \in Actions : KeypadEvent(a)
    BY <1>1, <2>1, KeypadStep
  <2>2. CASE Begin \/ BeginStat \/ BeginClear
    BY <1>1, <2>2, BeginSteps
  <2>3. CASE PollStat \/ PollCount \/ PollDrained \/ clear_overflow
    BY <1>1, <2>3, PollSteps
  <2>4. CASE PollEvent
    BY <1>1, <2>4, EventStep
  <2>5. CASE PollEventFails
    BY <1>1, <2>5, EventFailsStep
  <2>6. CASE PollClear
    BY <1>1, <2>6, ClearStep
  <2>7. CASE Restart
    BY <1>1, <2>7, RestartStep
  <2>8. CASE UNCHANGED vars
    <3>1. UNCHANGED <<happened, fifo, out, got, last, dropped, unread>>
      BY <2>8 DEF vars, chip, driver, history
    <3>2. TypeOK' /\ EmptyHanded' /\ CountInv' /\ ReadInv' /\ LossReported'
      BY <1>1, <2>8 DEF vars, chip, driver, history, ScanInv, TypeOK, EmptyHanded,
                        CountInv, ReadInv, LossReported
    <3> QED BY <1>1, <3>1, <3>2, QuietStep DEF ScanInv
  <2> QED BY <1>1, <2>1, <2>2, <2>3, <2>4, <2>5, <2>6, <2>7, <2>8 DEF Next
<1> QED BY InitScan, <1>1, PTL DEF Spec

\* The state of chip and driver has its type.
THEOREM ScannerTypeCorrect == Spec => []TypeOK
<1>1. ScanInv => TypeOK
  BY DEF ScanInv
<1> QED BY ScanInvariant, <1>1, PTL

\* Tca8418.h: "Overflow is reported, never swallowed", wherever in poll() the chip
\* drops an event, and from begin()'s reading of INT_STAT on; what was latched
\* before, begin() clears.
THEOREM LossIsReported == Spec => []LossReported
<1>1. ScanInv => LossReported
  BY DEF ScanInv
<1> QED BY ScanInvariant, <1>1, PTL

\* No key event goes missing but by an overflow, a failed read or a restart.
THEOREM EventsAccounted == Spec => []Accounted
<1>1. ScanInv => Accounted
  BY DEF ScanInv
<1> QED BY ScanInvariant, <1>1, PTL

\* poll() hands over the keys that moved, once each and in order.
THEOREM HandsOverWhatHappened == Spec => []OutputFaithful
<1>1. ScanInv => OutputFaithful
  BY DEF ScanInv
<1> QED BY ScanInvariant, <1>1, PTL

(***************************************************************************)
(* The input layer.  For every keyboard, threshold and list length, the    *)
(* invariant ties the list to the fingers: it never names a key that is    *)
(* up, and, as long as no more keys are held than it has room for, it      *)
(* names every key reported since the last reset.                          *)
(***************************************************************************)

\* The fingers, and the keys the layer tracks and was told of among them.
FingersInv ==
  /\ IsFiniteSet(held)
  /\ Cardinality(held) <= MaxHeld
  /\ down \subseteq held
  /\ reported \subseteq held

\* The list is complete: what the guard counts is what was reported.
ListInv ==
  /\ down = reported
  /\ GuardSinceReset

\* Type correctness of the layer, of the fingers and of the history.
THEOREM LayerTypeCorrect == LayerSpec => []LayerTypeOK
<1>1. LayerInit => LayerTypeOK
  BY DEF LayerInit, LayerTypeOK, Nothing, EventTypes
<1>2. LayerTypeOK /\ [LayerNext]_layerVars => LayerTypeOK'
  <2> SUFFICES ASSUME LayerTypeOK, [LayerNext]_layerVars PROVE LayerTypeOK'
    OBVIOUS
  <2> USE DEF LayerTypeOK, EventTypes
  <2>1. ASSUME NEW code \in Keys, key_down(code)
        PROVE  /\ down' \subseteq Keys
               /\ pending' \subseteq Modifiers
               /\ event' \in [type : EventTypes, code : Keys \cup {"none"}, mods : SUBSET Modifiers]
               /\ reported' \subseteq Keys
               /\ emitted' \in [Keys -> 0..2]
    <3>1. CASE Rebroadcast(code)
      BY <2>1, <3>1 DEF key_down, Rebroadcast, Nothing
    <3>2. CASE Fresh(code) /\ Refuse(code)
      BY <2>1, <3>2 DEF key_down, Fresh, Refuse, track_down
    <3>3. CASE Fresh(code) /\ Arm(code)
      BY <2>1, <3>3 DEF key_down, Fresh, Arm, track_down, Nothing
    <3>4. CASE Fresh(code) /\ Emit(code)
      BY <2>1, <3>4 DEF key_down, Fresh, Emit, track_down
    <3>5. QED
      BY <2>1, <3>1, <3>2, <3>3, <3>4 DEF key_down, Fresh
  <2>2. ASSUME NEW code \in Keys, Press(code) PROVE LayerTypeOK'
    BY <2>1, <2>2 DEF Press
  <2>3. ASSUME NEW code \in Keys, Repeat(code) PROVE LayerTypeOK'
    BY <2>1, <2>3 DEF Repeat
  <2>4. ASSUME NEW code \in Keys, Release(code) PROVE LayerTypeOK'
    BY <2>4 DEF Release, key_up
  <2>5. CASE reset
    BY <2>5 DEF reset
  <2>6. CASE UNCHANGED layerVars
    BY <2>6 DEF layerVars
  <2>7. QED
    BY <2>2, <2>3, <2>4, <2>5, <2>6 DEF LayerNext
<1>3. QED
  BY <1>1, <1>2, PTL DEF LayerSpec

\* What track_down leaves in the list: the old keys, and at most the new one.
LEMMA TrackDownBounds ==
  ASSUME NEW code PROVE /\ down \subseteq track_down(code)
                        /\ track_down(code) \subseteq down \cup {code}
BY DEF track_down

\* Fingers come and go one at a time, and the list follows them.
LEMMA FingersStep == FingersInv /\ LayerTypeOK /\ [LayerNext]_layerVars => FingersInv'
<1> SUFFICES ASSUME FingersInv, LayerTypeOK, [LayerNext]_layerVars PROVE FingersInv'
  OBVIOUS
<1> USE DEF FingersInv
<1>1. ASSUME NEW code \in Keys, key_down(code)
      PROVE  /\ down' \subseteq down \cup {code}
             /\ reported' = reported \cup {code}
  BY <1>1, TrackDownBounds DEF key_down, Rebroadcast, Fresh
<1>2. ASSUME NEW code \in Keys, Press(code) PROVE FingersInv'
  <2>1. /\ IsFiniteSet(held \cup {code})
        /\ Cardinality(held \cup {code}) = Cardinality(held) + 1
    BY <1>2, FS_AddElement DEF Press
  <2>2. Cardinality(held) \in Nat
    BY FS_CardinalityType
  <2>3. Cardinality(held) + 1 <= MaxHeld
    BY <1>2, <2>2, InputAssumption DEF Press
  <2>4. QED
    BY <1>1, <1>2, <2>1, <2>3 DEF Press
<1>3. ASSUME NEW code \in Keys, Repeat(code) PROVE FingersInv'
  BY <1>1, <1>3 DEF Repeat
<1>4. ASSUME NEW code \in Keys, Release(code) PROVE FingersInv'
  <2>1. /\ IsFiniteSet(held \ {code})
        /\ Cardinality(held \ {code}) = Cardinality(held) - 1
    BY <1>4, FS_RemoveElement DEF Release
  <2>2. Cardinality(held) \in Nat
    BY FS_CardinalityType
  <2>3. Cardinality(held) - 1 <= MaxHeld
    BY <2>2, InputAssumption
  <2>4. QED
    BY <1>4, <2>1, <2>3 DEF Release, key_up
<1>5. CASE reset
  BY <1>5 DEF reset
<1>6. CASE UNCHANGED layerVars
  BY <1>6 DEF layerVars
<1>7. QED
  BY <1>2, <1>3, <1>4, <1>5, <1>6 DEF LayerNext

LEMMA FingersInit == LayerInit => FingersInv
BY FS_EmptySet, InputAssumption DEF LayerInit, FingersInv

\* No sequence of presses, repeats, releases and resets leaves a key in the
\* list of InputLayer::track_down that is not down, on any keyboard.
THEOREM NoKeySticks == LayerSpec => []NoStuckKey
<1>1. FingersInv => NoStuckKey
  BY DEF FingersInv, NoStuckKey
<1>2. QED
  BY <1>1, FingersInit, FingersStep, LayerTypeCorrect, PTL DEF LayerSpec

\* With room for every finger, a key that is not in the list is added to it.
LEMMA RoomInList ==
  ASSUME FingersInv, MaxHeld <= MAX_TRACKED, NEW code \in held, code \notin down
  PROVE  Cardinality(down) < MAX_TRACKED
<1>1. /\ Cardinality(down) \in Nat
      /\ Cardinality(held) \in Nat
      /\ Cardinality(down) <= Cardinality(held)
      /\ Cardinality(down) = Cardinality(held) => down = held
  BY FS_Subset, FS_CardinalityType DEF FingersInv
<1>2. Cardinality(down) # Cardinality(held)
  BY <1>1
<1>3. QED
  BY <1>1, <1>2, InputAssumption DEF FingersInv

\* The guard counts every key reported since the last reset.
LEMMA ListStep ==
  ASSUME MaxHeld <= MAX_TRACKED, FingersInv, FingersInv', ListInv, [LayerNext]_layerVars
  PROVE  ListInv'
<1> USE DEF ListInv, GuardSinceReset, Emits
<1>1. ASSUME NEW code \in Keys, key_down(code),
             code \notin down => Cardinality(down) < MAX_TRACKED
      PROVE  ListInv'
  <2>1. CASE Rebroadcast(code)
    BY <1>1, <2>1 DEF key_down, Rebroadcast, Nothing
  <2>2. CASE Fresh(code)
    <3>1. track_down(code) = down \cup {code}
      BY <1>1, <2>2 DEF Fresh, track_down
    <3>2. down' = reported'
      BY <1>1, <2>2, <3>1 DEF key_down, Fresh
    <3>3. CASE Refuse(code)
      BY <3>2, <3>3 DEF Refuse
    <3>4. CASE Cardinality(track_down(code)) < GHOST_THRESHOLD
      BY <2>2, <3>2, <3>4 DEF Fresh
    <3>5. QED
      BY <2>2, <3>3, <3>4 DEF Fresh
  <2>3. QED
    BY <1>1, <2>1, <2>2 DEF key_down
<1>2. ASSUME NEW code \in Keys, Press(code) PROVE ListInv'
  <2>1. /\ Cardinality(down) <= Cardinality(held)
        /\ Cardinality(down) \in Nat
        /\ Cardinality(held) \in Nat
    BY FS_Subset, FS_CardinalityType DEF FingersInv
  <2>2. Cardinality(down) < MAX_TRACKED
    BY <1>2, <2>1, InputAssumption DEF Press
  <2>3. QED
    BY <1>1, <1>2, <2>2 DEF Press
<1>3. ASSUME NEW code \in Keys, Repeat(code) PROVE ListInv'
  BY <1>1, <1>3, RoomInList DEF Repeat
<1>4. ASSUME NEW code \in Keys, Release(code) PROVE ListInv'
  <2>1. down' = reported'
    BY <1>4 DEF Release, key_up
  <2>2. /\ IsFiniteSet(reported)
        /\ Cardinality(reported) \in Nat
    BY FS_Subset, FS_CardinalityType DEF FingersInv
  <2>3. /\ Cardinality(reported \ {code}) <= Cardinality(reported)
        /\ Cardinality(reported \ {code}) \in Nat
    BY <2>2, FS_Subset, FS_CardinalityType
  <2>4. QED
    BY <1>4, <2>1, <2>2, <2>3, InputAssumption DEF Release, key_up
<1>5. CASE reset
  <2>1. Cardinality({}) = 0
    BY FS_EmptySet
  <2>2. Cardinality(reported) \in Nat
    BY FS_Subset, FS_CardinalityType DEF FingersInv
  <2>3. QED
    BY <1>5, <2>1, <2>2, InputAssumption DEF reset
<1>6. CASE UNCHANGED layerVars
  BY <1>6 DEF layerVars
<1>7. QED
  BY <1>2, <1>3, <1>4, <1>5, <1>6 DEF LayerNext

LEMMA ListInit == LayerInit => ListInv
BY DEF LayerInit, ListInv, GuardSinceReset, Emits, Nothing

\* On any keyboard, with any threshold: while no more keys are held than
\* InputLayer tracks, nothing is emitted with a threshold's worth of the keys
\* reported since the last reset() down.
THEOREM GuardCountsReported ==
  ASSUME MaxHeld <= MAX_TRACKED
  PROVE  LayerSpec => []GuardSinceReset
<1>1. FingersInv /\ FingersInv' /\ ListInv /\ [LayerNext]_layerVars => ListInv'
  BY ListStep
<1>2. ListInv => GuardSinceReset
  BY DEF ListInv
<1>3. QED
  BY <1>1, <1>2, FingersInit, FingersStep, ListInit, LayerTypeCorrect, PTL DEF LayerSpec

\* The keys reported are all the keys held, when nothing resets the layer.
ToldInv == reported = held

\* Without reset() the guard counts the fingers: the ghosting condition of
\* InputLayer.h is never emitted through, if no more keys are held than
\* MAX_TRACKED.
THEOREM GuardCountsFingers ==
  ASSUME MaxHeld <= MAX_TRACKED, ~Resets
  PROVE  LayerSpec => []GhostGuard
<1>1. LayerInit => ToldInv
  BY DEF LayerInit, ToldInv
<1>2. ToldInv /\ [LayerNext]_layerVars => ToldInv'
  BY DEF ToldInv, LayerNext, Press, Repeat, Release, reset, key_down, layerVars
<1>3. GuardSinceReset /\ ToldInv => GhostGuard
  BY DEF GuardSinceReset, ToldInv, GhostGuard
<1>4. LayerSpec => []GuardSinceReset
  BY GuardCountsReported
<1>5. QED
  BY <1>1, <1>2, <1>3, <1>4, PTL DEF LayerSpec

\* A key that has emitted since it was pressed is in the list, so its repeats
\* are recognised.
OnceInv == \A code \in Keys : /\ emitted[code] <= 1
                              /\ emitted[code] = 1 => code \in down

LEMMA OnceStep ==
  ASSUME MaxHeld <= MAX_TRACKED, LayerTypeOK, FingersInv, OnceInv, [LayerNext]_layerVars
  PROVE  OnceInv'
<1> USE DEF OnceInv, LayerTypeOK
<1>1. ASSUME NEW code \in Keys, key_down(code),
             code \notin down => Cardinality(down) < MAX_TRACKED
      PROVE  OnceInv'
  <2>1. CASE Rebroadcast(code)
    BY <2>1 DEF Rebroadcast
  <2>2. CASE Fresh(code)
    <3>1. code \notin down /\ down' = down \cup {code}
      BY <1>1, <2>2 DEF Fresh, track_down
    <3>2. CASE UNCHANGED emitted
      BY <3>1, <3>2
    <3>3. CASE Emit(code)
      <4>1. emitted[code] = 0
        BY <3>1
      <4>2. emitted' = [emitted EXCEPT ![code] = 1]
        BY <3>3, <4>1 DEF Emit
      <4>3. QED
        BY <3>1, <4>2
    <3>4. QED
      BY <2>2, <3>2, <3>3 DEF Fresh, Refuse, Arm
  <2>3. QED
    BY <1>1, <2>1, <2>2 DEF key_down
<1>2. ASSUME NEW code \in Keys, Press(code) PROVE OnceInv'
  <2>1. /\ Cardinality(down) <= Cardinality(held)
        /\ Cardinality(down) \in Nat
        /\ Cardinality(held) \in Nat
    BY FS_Subset, FS_CardinalityType DEF FingersInv
  <2>2. Cardinality(down) < MAX_TRACKED
    BY <1>2, <2>1, InputAssumption DEF Press
  <2>3. QED
    BY <1>1, <1>2, <2>2 DEF Press
<1>3. ASSUME NEW code \in Keys, Repeat(code) PROVE OnceInv'
  BY <1>1, <1>3, RoomInList DEF Repeat
<1>4. ASSUME NEW code \in Keys, Release(code) PROVE OnceInv'
  BY <1>4 DEF Release, key_up
<1>5. CASE reset
  BY <1>5 DEF reset
<1>6. CASE UNCHANGED layerVars
  BY <1>6 DEF layerVars
<1>7. QED
  BY <1>2, <1>3, <1>4, <1>5, <1>6 DEF LayerNext

\* With no more keys held than MAX_TRACKED, the scanner can repeat a held key
\* as often as it likes: until a reset() it is one press.
THEOREM OneEventPerPress ==
  ASSUME MaxHeld <= MAX_TRACKED
  PROVE  LayerSpec => []EmitsOncePerPress
<1>1. LayerInit => OnceInv
  BY DEF LayerInit, OnceInv
<1>2. LayerTypeOK /\ FingersInv /\ OnceInv /\ [LayerNext]_layerVars => OnceInv'
  BY OnceStep
<1>3. OnceInv => EmitsOncePerPress
  BY DEF OnceInv, EmitsOncePerPress
<1>4. QED
  BY <1>1, <1>2, <1>3, FingersInit, FingersStep, LayerTypeCorrect, PTL DEF LayerSpec
=============================================================================
