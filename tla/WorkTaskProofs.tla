--------------------------- MODULE WorkTaskProofs ---------------------------
(***************************************************************************)
(* Proofs about the work task: that a frame reaches it, and what it makes  *)
(* of the messages in it.                                                  *)
(***************************************************************************)
EXTENDS BringUp, AutoReply, TLAPS

(***************************************************************************)
(* The way to the task, for both builds and every choice of failures and of *)
(* the bound on exceptions.                                                *)
(*                                                                         *)
(* A frame's way crosses all three actors, so none of the properties is    *)
(* inductive alone.  WakeInv adds what setup() has done by the time the    *)
(* task exists, where the receiver must be listening, and that a frame     *)
(* whose interrupt has run is never behind the back of a task that is      *)
(* already past its reading of the flag.                                   *)
(***************************************************************************)

\* What setup() has done by the step it stands at.
SetupInv ==
  /\ task # "none" <=> setup \in {"assign", "done"}
  /\ g_work_task <=> setup = "done"
  /\ setup \in {"create", "assign", "done"} => g_stack_up
  /\ setup \notin {"storage", "identity", "radio", "failed"} => hook = isr
  /\ setup \notin {"storage", "identity", "radio", "start", "attach", "failed"}
       => attached = isr

\* From the first startReceive() on, only a frame being delivered keeps the
\* receiver off.
ListenInv ==
  (setup \notin {"storage", "identity", "radio", "start", "failed"}
     /\ task \notin {"deliver", "rearm"})
  => listening \/ rxDone \/ unwound

\* A frame that arrives after the flag was read has its notification kept until
\* the task waits.
BehindInv ==
  (isr /\ task \in {"deliver", "rearm", "jobs", "take", "blocked"} /\ rxDone /\ ~dio1)
  => notified \/ missed

WakeInv == TypeOK /\ SetupInv /\ LatchedFrameIsFlagged /\ ListenInv /\ BehindInv

\* Every step keeps the types.
LEMMA TypeStep == TypeOK /\ [Next]_vars => TypeOK'
<1> SUFFICES ASSUME ControlOK, FlagsOK, [Next]_vars PROVE ControlOK' /\ FlagsOK'
  BY DEF TypeOK
<1>0. isr \in BOOLEAN
  BY BringUpAssumption DEF BringUpAssumption, ControlOK
<1>1. CASE FrameArrives
  <2>1. ControlOK'
    BY <1>1 DEF FrameArrives, ControlOK, SetupSteps, TaskSteps
  <2>2. FlagsOK'
    BY <1>1 DEF FrameArrives, FlagsOK
  <2> QED
    BY <2>1, <2>2
<1>2. CASE Isr
  <2>1. ControlOK'
    BY <1>2 DEF Isr, ControlOK, SetupSteps, TaskSteps
  <2>2. FlagsOK'
    BY <1>2 DEF Isr, FlagsOK
  <2> QED
    BY <2>1, <2>2
<1>3. CASE SetupStep
  <2>1. ControlOK'
    BY <1>3 DEF SetupStep, Order, radio, ControlOK, SetupSteps, TaskSteps
  <2>2. FlagsOK'
    BY <1>3 DEF SetupStep, radio, FlagsOK
  <2> QED
    BY <2>1, <2>2
<1>4. CASE RadioHook
  <2>1. ControlOK'
    BY <1>4 DEF RadioHook, ControlOK, SetupSteps, TaskSteps
  <2>2. FlagsOK'
    BY <1>0, <1>4 DEF RadioHook, FlagsOK
  <2> QED
    BY <2>1, <2>2
<1>5. CASE RadioStart
  <2>1. ControlOK'
    BY <1>5 DEF RadioStart, StartReceive, radio, ControlOK, SetupSteps, TaskSteps
  <2>2. FlagsOK'
    BY <1>5 DEF RadioStart, StartReceive, radio, FlagsOK
  <2> QED
    BY <2>1, <2>2
<1>6. CASE RadioAttach
  <2>1. ControlOK'
    BY <1>6 DEF RadioAttach, ControlOK, SetupSteps, TaskSteps
  <2>2. FlagsOK'
    BY <1>0, <1>6 DEF RadioAttach, FlagsOK
  <2> QED
    BY <2>1, <2>2
<1>7. CASE ReticulumStart
  <2>1. ControlOK'
    BY <1>7 DEF ReticulumStart, Transmit, StartReceive, radio, ControlOK, SetupSteps, TaskSteps
  <2>2. FlagsOK'
    BY <1>7 DEF ReticulumStart, Transmit, StartReceive, radio, FlagsOK
  <2> QED
    BY <2>1, <2>2
<1>8. CASE Announce
  <2>1. ControlOK'
    BY <1>8 DEF Announce, Transmit, StartReceive, ControlOK, SetupSteps, TaskSteps
  <2>2. FlagsOK'
    BY <1>8 DEF Announce, Transmit, StartReceive, FlagsOK
  <2> QED
    BY <2>1, <2>2
<1>9. CASE TaskCreate
  <2>1. ControlOK'
    BY <1>9 DEF TaskCreate, radio, ControlOK, SetupSteps, TaskSteps
  <2>2. FlagsOK'
    BY <1>9 DEF TaskCreate, radio, FlagsOK
  <2> QED
    BY <2>1, <2>2
<1>10. CASE TaskAssign
  <2>1. ControlOK'
    BY <1>10 DEF TaskAssign, radio, ControlOK, SetupSteps, TaskSteps
  <2>2. FlagsOK'
    BY <1>10 DEF TaskAssign, radio, FlagsOK
  <2> QED
    BY <2>1, <2>2
<1>11. CASE WorkBegin
  <2>1. ControlOK'
    BY <1>11 DEF WorkBegin, radio, ControlOK, SetupSteps, TaskSteps
  <2>2. FlagsOK'
    BY <1>11 DEF WorkBegin, radio, FlagsOK
  <2> QED
    BY <2>1, <2>2
<1>12. CASE LoopCheck
  <2>1. ControlOK'
    BY <1>12 DEF LoopCheck, ControlOK, SetupSteps, TaskSteps
  <2>2. FlagsOK'
    BY <1>12 DEF LoopCheck, FlagsOK
  <2> QED
    BY <2>1, <2>2
<1>13. CASE LoopDeliver
  <2>1. ControlOK'
    BY <1>13 DEF LoopDeliver, Transmit, StartReceive, radio, ControlOK, SetupSteps, TaskSteps
  <2>2. FlagsOK'
    BY <1>13 DEF LoopDeliver, Transmit, StartReceive, radio, FlagsOK
  <2> QED
    BY <2>1, <2>2
<1>14. CASE LoopRearm
  <2>1. ControlOK'
    BY <1>14 DEF LoopRearm, StartReceive, ControlOK, SetupSteps, TaskSteps
  <2>2. FlagsOK'
    BY <1>14 DEF LoopRearm, StartReceive, FlagsOK
  <2> QED
    BY <2>1, <2>2
<1>15. CASE Jobs
  <2>1. ControlOK'
    BY <1>15 DEF Jobs, Transmit, StartReceive, radio, ControlOK, SetupSteps, TaskSteps
  <2>2. FlagsOK'
    BY <1>15 DEF Jobs, Transmit, StartReceive, radio, FlagsOK
  <2> QED
    BY <2>1, <2>2
<1>16. CASE Throw
  <2>1. ControlOK'
    BY <1>16, BringUpAssumption DEF Throw, BringUpAssumption, ControlOK, SetupSteps, TaskSteps
  <2>2. FlagsOK'
    BY <1>16 DEF Throw, FlagsOK
  <2> QED
    BY <2>1, <2>2
<1>17. CASE Take
  <2>1. ControlOK'
    BY <1>17 DEF Take, radio, ControlOK, SetupSteps, TaskSteps
  <2>2. FlagsOK'
    BY <1>17 DEF Take, radio, FlagsOK
  <2> QED
    BY <2>1, <2>2
<1>18. CASE Woken
  <2>1. ControlOK'
    BY <1>18 DEF Woken, radio, ControlOK, SetupSteps, TaskSteps
  <2>2. FlagsOK'
    BY <1>18 DEF Woken, radio, FlagsOK
  <2> QED
    BY <2>1, <2>2
<1>19. CASE Tick
  <2>1. ControlOK'
    BY <1>19 DEF Tick, radio, ControlOK, SetupSteps, TaskSteps
  <2>2. FlagsOK'
    BY <1>19 DEF Tick, radio, FlagsOK
  <2> QED
    BY <2>1, <2>2
<1>20. CASE UNCHANGED vars
  BY <1>20 DEF vars, ControlOK, FlagsOK
<1> QED
  BY <1>1, <1>2, <1>3, <1>4, <1>5, <1>6, <1>7, <1>8, <1>9, <1>10,
     <1>11, <1>12, <1>13, <1>14, <1>15, <1>16, <1>17, <1>18, <1>19, <1>20
  DEF Next, Setup, Work

\* The three actors' steps preserve WakeInv: first the radio's.
LEMMA RadioStep == WakeInv /\ (FrameArrives \/ Isr) => WakeInv'
<1> SUFFICES ASSUME WakeInv, FrameArrives \/ Isr PROVE WakeInv'
  OBVIOUS
<1>0. isr \in BOOLEAN /\ TypeOK'
  BY TypeStep, BringUpAssumption
     DEF BringUpAssumption, WakeInv, TypeOK, ControlOK, Next
<1> USE DEF WakeInv, TypeOK, ControlOK, FlagsOK, SetupInv, LatchedFrameIsFlagged,
            ListenInv, BehindInv, SetupSteps, TaskSteps
<1>1. CASE FrameArrives
  <2>1. SetupInv'
    BY <1>0, <1>1 DEF FrameArrives
  <2>2. LatchedFrameIsFlagged'
    BY <1>0, <1>1 DEF FrameArrives
  <2>3. ListenInv'
    BY <1>0, <1>1 DEF FrameArrives
  <2>4. BehindInv'
    BY <1>0, <1>1 DEF FrameArrives
  <2> QED
    BY <1>0, <2>1, <2>2, <2>3, <2>4
<1>2. CASE Isr
  <2>1. SetupInv'
    BY <1>0, <1>2 DEF Isr
  <2>2. LatchedFrameIsFlagged'
    BY <1>0, <1>2 DEF Isr
  <2>3. ListenInv'
    BY <1>0, <1>2 DEF Isr
  <2>4. BehindInv'
    BY <1>0, <1>2 DEF Isr
  <2> QED
    BY <1>0, <2>1, <2>2, <2>3, <2>4
<1> QED
  BY <1>1, <1>2

\* setup() preserves WakeInv.
LEMMA SetupStepKeeps == WakeInv /\ Setup => WakeInv'
<1> SUFFICES ASSUME WakeInv, Setup PROVE WakeInv'
  OBVIOUS
<1>0. isr \in BOOLEAN /\ TypeOK'
  BY TypeStep, BringUpAssumption
     DEF BringUpAssumption, WakeInv, TypeOK, ControlOK, Next
<1> USE DEF WakeInv, TypeOK, ControlOK, FlagsOK, SetupInv, LatchedFrameIsFlagged,
            ListenInv, BehindInv, SetupSteps, TaskSteps, radio
<1>1. CASE SetupStep
  <2>1. SetupInv'
    BY <1>0, <1>1 DEF SetupStep, Order
  <2>2. LatchedFrameIsFlagged'
    BY <1>0, <1>1 DEF SetupStep, Order
  <2>3. ListenInv'
    BY <1>0, <1>1 DEF SetupStep, Order
  <2>4. BehindInv'
    BY <1>0, <1>1 DEF SetupStep, Order
  <2> QED
    BY <1>0, <2>1, <2>2, <2>3, <2>4
<1>2. CASE RadioHook
  <2>1. SetupInv'
    BY <1>0, <1>2 DEF RadioHook
  <2>2. LatchedFrameIsFlagged'
    BY <1>0, <1>2 DEF RadioHook
  <2>3. ListenInv'
    BY <1>0, <1>2 DEF RadioHook
  <2>4. BehindInv'
    BY <1>0, <1>2 DEF RadioHook
  <2> QED
    BY <1>0, <2>1, <2>2, <2>3, <2>4
<1>3. CASE RadioStart
  <2>1. SetupInv'
    BY <1>0, <1>3 DEF RadioStart, StartReceive
  <2>2. LatchedFrameIsFlagged'
    BY <1>0, <1>3 DEF RadioStart, StartReceive
  <2>3. ListenInv'
    BY <1>0, <1>3 DEF RadioStart, StartReceive
  <2>4. BehindInv'
    BY <1>0, <1>3 DEF RadioStart, StartReceive
  <2> QED
    BY <1>0, <2>1, <2>2, <2>3, <2>4
<1>4. CASE RadioAttach
  <2>1. SetupInv'
    BY <1>0, <1>4 DEF RadioAttach
  <2>2. LatchedFrameIsFlagged'
    BY <1>0, <1>4 DEF RadioAttach
  <2>3. ListenInv'
    BY <1>0, <1>4 DEF RadioAttach
  <2>4. BehindInv'
    BY <1>0, <1>4 DEF RadioAttach
  <2> QED
    BY <1>0, <2>1, <2>2, <2>3, <2>4
<1>5. CASE ReticulumStart
  <2>1. SetupInv'
    BY <1>0, <1>5 DEF ReticulumStart, Transmit, StartReceive
  <2>2. LatchedFrameIsFlagged'
    <3>1. CASE Transmit
      BY <1>0, <1>5, <3>1 DEF ReticulumStart, Transmit, StartReceive
    <3>2. CASE UNCHANGED radio
      BY <1>0, <1>5, <3>2 DEF ReticulumStart
    <3> QED
      BY <1>5, <3>1, <3>2 DEF ReticulumStart
  <2>3. ListenInv'
    BY <1>0, <1>5 DEF ReticulumStart, Transmit, StartReceive
  <2>4. BehindInv'
    BY <1>0, <1>5 DEF ReticulumStart, Transmit, StartReceive
  <2> QED
    BY <1>0, <2>1, <2>2, <2>3, <2>4
<1>6. CASE Announce
  <2>1. SetupInv'
    BY <1>0, <1>6 DEF Announce, Transmit, StartReceive
  <2>2. LatchedFrameIsFlagged'
    BY <1>0, <1>6 DEF Announce, Transmit, StartReceive
  <2>3. ListenInv'
    BY <1>0, <1>6 DEF Announce, Transmit, StartReceive
  <2>4. BehindInv'
    BY <1>0, <1>6 DEF Announce, Transmit, StartReceive
  <2> QED
    BY <1>0, <2>1, <2>2, <2>3, <2>4
<1>7. CASE TaskCreate
  <2>1. SetupInv'
    BY <1>0, <1>7 DEF TaskCreate
  <2>2. LatchedFrameIsFlagged'
    BY <1>0, <1>7 DEF TaskCreate
  <2>3. ListenInv'
    BY <1>0, <1>7 DEF TaskCreate
  <2>4. BehindInv'
    BY <1>0, <1>7 DEF TaskCreate
  <2> QED
    BY <1>0, <2>1, <2>2, <2>3, <2>4
<1>8. CASE TaskAssign
  <2>1. SetupInv'
    BY <1>0, <1>8 DEF TaskAssign
  <2>2. LatchedFrameIsFlagged'
    BY <1>0, <1>8 DEF TaskAssign
  <2>3. ListenInv'
    BY <1>0, <1>8 DEF TaskAssign
  <2>4. BehindInv'
    BY <1>0, <1>8 DEF TaskAssign
  <2> QED
    BY <1>0, <2>1, <2>2, <2>3, <2>4
<1> QED
  BY <1>1, <1>2, <1>3, <1>4, <1>5, <1>6, <1>7, <1>8 DEF Setup

\* The work task preserves WakeInv.
LEMMA WorkStepKeeps == WakeInv /\ Work => WakeInv'
<1> SUFFICES ASSUME WakeInv, Work PROVE WakeInv'
  OBVIOUS
<1>0. isr \in BOOLEAN /\ TypeOK'
  BY TypeStep, BringUpAssumption
     DEF BringUpAssumption, WakeInv, TypeOK, ControlOK, Next
<1> USE DEF WakeInv, TypeOK, ControlOK, FlagsOK, SetupInv, LatchedFrameIsFlagged,
            ListenInv, BehindInv, SetupSteps, TaskSteps, radio
<1>1. CASE WorkBegin
  <2>1. SetupInv'
    BY <1>0, <1>1 DEF WorkBegin
  <2>2. LatchedFrameIsFlagged'
    BY <1>0, <1>1 DEF WorkBegin
  <2>3. ListenInv'
    BY <1>0, <1>1 DEF WorkBegin
  <2>4. BehindInv'
    BY <1>0, <1>1 DEF WorkBegin
  <2> QED
    BY <1>0, <2>1, <2>2, <2>3, <2>4
<1>2. CASE LoopCheck
  <2>1. SetupInv'
    BY <1>0, <1>2 DEF LoopCheck
  <2>2. LatchedFrameIsFlagged'
    BY <1>0, <1>2 DEF LoopCheck
  <2>3. ListenInv'
    BY <1>0, <1>2 DEF LoopCheck
  <2>4. BehindInv'
    BY <1>0, <1>2 DEF LoopCheck
  <2> QED
    BY <1>0, <2>1, <2>2, <2>3, <2>4
<1>3. CASE LoopDeliver
  <2>1. SetupInv'
    BY <1>0, <1>3 DEF LoopDeliver, Transmit, StartReceive
  <2>2. LatchedFrameIsFlagged'
    BY <1>0, <1>3 DEF LoopDeliver, Transmit, StartReceive
  <2>3. ListenInv'
    BY <1>0, <1>3 DEF LoopDeliver, Transmit, StartReceive
  <2>4. BehindInv'
    BY <1>0, <1>3 DEF LoopDeliver, Transmit, StartReceive
  <2> QED
    BY <1>0, <2>1, <2>2, <2>3, <2>4
<1>4. CASE LoopRearm
  <2>1. SetupInv'
    BY <1>0, <1>4 DEF LoopRearm, StartReceive
  <2>2. LatchedFrameIsFlagged'
    BY <1>0, <1>4 DEF LoopRearm, StartReceive
  <2>3. ListenInv'
    BY <1>0, <1>4 DEF LoopRearm, StartReceive
  <2>4. BehindInv'
    BY <1>0, <1>4 DEF LoopRearm, StartReceive
  <2> QED
    BY <1>0, <2>1, <2>2, <2>3, <2>4
<1>5. CASE Jobs
  <2>1. SetupInv'
    BY <1>0, <1>5 DEF Jobs, Transmit, StartReceive
  <2>2. LatchedFrameIsFlagged'
    BY <1>0, <1>5 DEF Jobs, Transmit, StartReceive
  <2>3. ListenInv'
    BY <1>0, <1>5 DEF Jobs, Transmit, StartReceive
  <2>4. BehindInv'
    BY <1>0, <1>5 DEF Jobs, Transmit, StartReceive
  <2> QED
    BY <1>0, <2>1, <2>2, <2>3, <2>4
<1>6. CASE Throw
  <2>1. SetupInv'
    BY <1>0, <1>6, BringUpAssumption DEF Throw, BringUpAssumption
  <2>2. LatchedFrameIsFlagged'
    BY <1>0, <1>6, BringUpAssumption DEF Throw, BringUpAssumption
  <2>3. ListenInv'
    BY <1>0, <1>6, BringUpAssumption DEF Throw, BringUpAssumption
  <2>4. BehindInv'
    BY <1>0, <1>6, BringUpAssumption DEF Throw, BringUpAssumption
  <2> QED
    BY <1>0, <2>1, <2>2, <2>3, <2>4
<1>7. CASE Take
  <2>1. SetupInv'
    BY <1>0, <1>7 DEF Take
  <2>2. LatchedFrameIsFlagged'
    BY <1>0, <1>7 DEF Take
  <2>3. ListenInv'
    BY <1>0, <1>7 DEF Take
  <2>4. BehindInv'
    BY <1>0, <1>7 DEF Take
  <2> QED
    BY <1>0, <2>1, <2>2, <2>3, <2>4
<1>8. CASE Woken
  <2>1. SetupInv'
    BY <1>0, <1>8 DEF Woken
  <2>2. LatchedFrameIsFlagged'
    BY <1>0, <1>8 DEF Woken
  <2>3. ListenInv'
    BY <1>0, <1>8 DEF Woken
  <2>4. BehindInv'
    BY <1>0, <1>8 DEF Woken
  <2> QED
    BY <1>0, <2>1, <2>2, <2>3, <2>4
<1>9. CASE Tick
  <2>1. SetupInv'
    BY <1>0, <1>9 DEF Tick
  <2>2. LatchedFrameIsFlagged'
    BY <1>0, <1>9 DEF Tick
  <2>3. ListenInv'
    BY <1>0, <1>9 DEF Tick
  <2>4. BehindInv'
    BY <1>0, <1>9 DEF Tick
  <2> QED
    BY <1>0, <2>1, <2>2, <2>3, <2>4
<1> QED
  BY <1>1, <1>2, <1>3, <1>4, <1>5, <1>6, <1>7, <1>8, <1>9 DEF Work

\* WakeInv holds of every behaviour.
THEOREM WakeInvariant == Spec => []WakeInv
<1>1. Init => WakeInv
  <2> SUFFICES ASSUME Init PROVE WakeInv
    OBVIOUS
  <2>1. ControlOK
    BY BringUpAssumption DEF Init, ControlOK, SetupSteps, TaskSteps, BringUpAssumption
  <2>2. FlagsOK
    BY DEF Init, FlagsOK
  <2>3. SetupInv /\ LatchedFrameIsFlagged /\ ListenInv /\ BehindInv
    BY DEF Init, SetupInv, LatchedFrameIsFlagged, ListenInv, BehindInv
  <2> QED
    BY <2>1, <2>2, <2>3 DEF WakeInv, TypeOK
<1>2. WakeInv /\ [Next]_vars => WakeInv'
  <2> SUFFICES ASSUME WakeInv, [Next]_vars PROVE WakeInv'
    OBVIOUS
  <2>1. CASE Setup
    BY <2>1, SetupStepKeeps
  <2>2. CASE Work
    BY <2>2, WorkStepKeeps
  <2>3. CASE FrameArrives \/ Isr
    BY <2>3, RadioStep
  <2>4. CASE UNCHANGED vars
    BY <2>4 DEF vars, WakeInv, TypeOK, ControlOK, FlagsOK, SetupInv,
       LatchedFrameIsFlagged, ListenInv, BehindInv
  <2> QED
    BY <2>1, <2>2, <2>3, <2>4 DEF Next
<1> QED
  BY <1>1, <1>2, PTL DEF Spec

\* setup(), the work task and the radio keep their state well typed,
\* the exceptions of a behaviour within their bound included.
THEOREM BringUpTypeCorrect == Spec => []TypeOK
<1>1. WakeInv => TypeOK
  BY DEF WakeInv
<1> QED
  BY <1>1, WakeInvariant, PTL

\* thicket_radio_wake reads the handle from the interrupt, between any two steps
\* of setup(): it is NULL, or the handle of a task that exists and whose stack
\* is up.
THEOREM HandleIsLive == Spec => [](g_work_task => task # "none" /\ g_stack_up)
<1>1. WakeInv => (g_work_task => task # "none" /\ g_stack_up)
  BY DEF WakeInv, SetupInv
<1> QED
  BY <1>1, WakeInvariant, PTL

\* LoRaInterface::loop's flag: no frame the radio holds is forgotten.
THEOREM FrameFlagged == Spec => []LatchedFrameIsFlagged
<1>1. WakeInv => LatchedFrameIsFlagged
  BY DEF WakeInv
<1> QED
  BY <1>1, WakeInvariant, PTL

\* thicket_work's contract: a waiting device listens, holds a frame, or was cut
\* short by an exception under on_incoming.
THEOREM AlwaysListens == Spec => []WaitingMeansListening
<1>1. WakeInv => WaitingMeansListening
  BY DEF WakeInv, SetupInv, ListenInv, WaitingMeansListening
<1> QED
  BY <1>1, WakeInvariant, PTL

\* thicket_task's wait: a frame whose interrupt has run ends it.
THEOREM FrameWakes == Spec => []FrameEndsWait
<1>1. WakeInv => FrameEndsWait
  BY DEF WakeInv, BehindInv, FrameEndsWait
<1> QED
  BY <1>1, WakeInvariant, PTL

(***************************************************************************)
(* The replies.  The pause before a reply is kept across a wrap of         *)
(* millis(), and no number is skipped: every one below a number on some    *)
(* screen was shown to, or lost for, one of the correspondents.            *)
(***************************************************************************)

-----------------------------------------------------------------------------
(* The clock.  An armed reply is due REPLY_DELAY_MS after it was armed,    *)
(* age ticks ago, modulo the word; the loop looks at it once an iteration, *)
(* so that it is at most an iteration older than the delay when the loop   *)
(* passes it by, and two when the loop comes to it; an exception that ends *)
(* an iteration before that costs one more.                                *)

ReplyType == [armed : BOOLEAN, due_ms : 0..WORD - 1, to : Sources]
Steps == {"outbound", "inbound", "reply", "autosend"}

ClockType ==
  /\ now \in 0..WORD - 1
  /\ pc \in Steps
  /\ lag \in 0..MaxLag
  /\ age \in 0..MaxAge
  /\ skipped \in 0..MaxSkips
  /\ inbound \in Seq(Sources)
  /\ reply \in ReplyType

\* The deadline is age ticks less than the delay ahead of now, on a clock that wraps.
DueInv ==
  \/ reply.due_ms = now + REPLY_DELAY_MS - age
  \/ reply.due_ms = now + REPLY_DELAY_MS - age - WORD
  \/ reply.due_ms = now + REPLY_DELAY_MS - age + WORD

\* How old an armed reply can be, by how long ago the loop looked at it.
Excused == skipped * MaxLag
AgeInv ==
  /\ age < REPLY_DELAY_MS + MaxLag + Excused + lag
  /\ pc = "autosend" => age < REPLY_DELAY_MS + Excused + lag

ClockInv == ClockType /\ (reply.armed => reply.to \in Peers /\ DueInv /\ AgeInv)

\* The constants, as numbers.
LEMMA Numbers ==
  /\ WORD \in Nat /\ WORD > 0 /\ REPLY_DELAY_MS \in Nat /\ REPLY_DELAY_MS > 0
  /\ MaxLag \in Nat /\ MaxLag > 0 /\ CounterWord \in Nat /\ CounterWord > 0
  /\ PoolSize \in Nat /\ PoolSize > 0
  /\ MaxSkips \in Nat /\ MaxSkips * MaxLag \in Nat
  /\ 2 * (REPLY_DELAY_MS + 2 * MaxLag + MaxSkips * MaxLag) < WORD
  /\ MaxAge = REPLY_DELAY_MS + 2 * MaxLag + MaxSkips * MaxLag + 1
  /\ WORD \div 2 \in Nat /\ 2 * (WORD \div 2) = WORD
<1>1. /\ WORD \in Nat /\ WORD > 0 /\ REPLY_DELAY_MS \in Nat /\ REPLY_DELAY_MS > 0
      /\ MaxLag \in Nat /\ MaxLag > 0 /\ CounterWord \in Nat /\ CounterWord > 0
      /\ PoolSize \in Nat /\ PoolSize > 0
  BY ReplyAssumption
<1>2. WORD \div 2 \in Nat /\ 2 * (WORD \div 2) = WORD
  BY <1>1, ReplyAssumption
<1>3. MaxSkips \in Nat /\ 2 * (REPLY_DELAY_MS + (2 + MaxSkips) * MaxLag) < WORD
  BY ReplyAssumption
<1>4. MaxSkips * MaxLag \in Nat /\ (2 + MaxSkips) * MaxLag = 2 * MaxLag + MaxSkips * MaxLag
  BY <1>1, <1>3
<1> QED BY <1>1, <1>2, <1>3, <1>4 DEF MaxAge

\* The ticks that skipped checks excuse: an iteration each.
LEMMA Excuses ==
  ASSUME ClockType
  PROVE  /\ Excused \in 0..MaxSkips * MaxLag
         /\ skipped < MaxSkips => (skipped + 1) * MaxLag = Excused + MaxLag
         /\ (2 + skipped) * MaxLag = 2 * MaxLag + Excused
<1>1. skipped \in Nat /\ skipped <= MaxSkips /\ MaxLag \in Nat /\ MaxSkips \in Nat
  BY Numbers DEF ClockType
<1>2. ASSUME NEW a \in Nat, NEW b \in Nat, NEW c \in Nat, a <= b
      PROVE  a * c \in Nat /\ a * c <= b * c
  <2>1. PICK d \in Nat : b = a + d
    <3>1. b - a \in Nat /\ b = a + (b - a)
      BY <1>2
    <3> QED BY <3>1
  <2>2. b * c = a * c + d * c /\ a * c \in Nat /\ d * c \in Nat
    BY <2>1
  <2> QED BY <2>2
<1>3. Excused \in 0..MaxSkips * MaxLag
  BY <1>1, <1>2, Numbers DEF Excused
<1>4. /\ (skipped + 1) * MaxLag = skipped * MaxLag + MaxLag
      /\ (2 + skipped) * MaxLag = 2 * MaxLag + skipped * MaxLag
  BY <1>1
<1> QED BY <1>3, <1>4 DEF Excused

\* One turn of a word.
LEMMA Turn ==
  ASSUME NEW w \in Nat, w > 0, NEW x \in Int
  PROVE  /\ (0 <= x /\ x < w) => x % w = x
         /\ (w <= x /\ x < 2 * w) => x % w = x - w
         /\ (0 - w <= x /\ x < 0) => x % w = x + w
         /\ x % w \in 0..w - 1
<1>1. ASSUME 0 <= x, x < w PROVE x % w = x
  BY <1>1
<1>2. ASSUME w <= x, x < 2 * w PROVE x % w = x - w
  BY <1>2
<1>3. ASSUME 0 - w <= x, x < 0 PROVE x % w = x + w
  BY <1>3
<1>4. x % w \in 0..w - 1
  OBVIOUS
<1> QED BY <1>1, <1>2, <1>3, <1>4

\* A time later than now by less than a word.
LEMMA Later ==
  ASSUME NEW x \in Int, 0 <= x, x < 2 * WORD
  PROVE  x % WORD \in 0..WORD - 1 /\ (x % WORD = x \/ x % WORD = x - WORD)
<1>1. x % WORD \in 0..WORD - 1
  BY Numbers, Turn
<1>2. x < WORD => x % WORD = x
  BY Numbers, Turn
<1>3. WORD <= x => x % WORD = x - WORD
  BY Numbers, Turn
<1>4. x < WORD \/ WORD <= x
  BY Numbers
<1> QED BY <1>1, <1>2, <1>3, <1>4

\* (int32_t)(millis() - due_ms) >= 0 says that the delay has passed.
LEMMA DueMeansAged ==
  ASSUME ClockType, DueInv, AgeInv
  PROVE  Due <=> age >= REPLY_DELAY_MS
<1> DEFINE d == reply.due_ms
           x == now - d
           h == WORD \div 2
<1>1. now \in 0..WORD - 1 /\ d \in 0..WORD - 1 /\ age \in Nat /\ lag \in 0..MaxLag
  BY Numbers DEF ClockType, ReplyType
<1>2. age < REPLY_DELAY_MS + 2 * MaxLag + MaxSkips * MaxLag
  BY <1>1, Excuses, Numbers DEF AgeInv
<1>3. x \in Int /\ h \in Nat /\ 2 * h = WORD /\ 0 - WORD <= x /\ x < WORD
  BY <1>1, Numbers
<1>4. \/ x = age - REPLY_DELAY_MS \/ x = age - REPLY_DELAY_MS + WORD
      \/ x = age - REPLY_DELAY_MS - WORD
  BY <1>1, Numbers DEF DueInv
<1>5. /\ x >= 0 => x % WORD = x
      /\ x < 0 => x % WORD = x + WORD
  BY <1>3, Numbers, Turn
<1>6. (x % WORD < h) <=> age >= REPLY_DELAY_MS
  <2> HIDE DEF x, h, d
  <2> QED BY <1>1, <1>2, <1>3, <1>4, <1>5, Numbers
<1> QED BY <1>6 DEF Due

LEMMA ClockInit == ReplyInit => ClockInv
<1> SUFFICES ASSUME ReplyInit PROVE ClockInv
  OBVIOUS
<1>1. reply = [armed |-> FALSE, due_ms |-> 0, to |-> Malformed]
  BY DEF ReplyInit
<1>2. reply \in ReplyType /\ ~reply.armed
  BY <1>1, Numbers DEF ReplyType, Sources
<1>3. ClockType
  BY <1>2, Numbers DEF ReplyInit, ClockType, Steps
<1> QED BY <1>2, <1>3 DEF ClockInv

LEMMA MillisKeepsClock == ASSUME ClockInv, MillisTick PROVE ClockInv'
<1>1. /\ lag < MaxLag /\ lag' = lag + 1 /\ now' = (now + 1) % WORD
      /\ age' = IF reply.armed /\ age < MaxAge THEN age + 1 ELSE age
      /\ UNCHANGED <<pc, inbound, reply, skipped>>
  BY DEF MillisTick
<1>2. /\ now \in 0..WORD - 1 /\ lag \in 0..MaxLag /\ age \in 0..MaxAge
      /\ reply \in ReplyType /\ reply.due_ms \in 0..WORD - 1
      /\ Excused \in 0..MaxSkips * MaxLag
  BY Excuses DEF ClockInv, ClockType, ReplyType
<1>3. now' \in 0..WORD - 1 /\ (now' = now + 1 \/ now' = now + 1 - WORD)
  <2>1. now + 1 \in Int /\ 0 <= now + 1 /\ now + 1 < 2 * WORD
    BY <1>2, Numbers
  <2> DEFINE x == now + 1
  <2>2. x \in Int /\ 0 <= x /\ x < 2 * WORD
    BY <2>1
  <2>3. x % WORD \in 0..WORD - 1 /\ (x % WORD = x \/ x % WORD = x - WORD)
    <3> HIDE DEF x
    <3> QED BY <2>2, Later
  <2>4. now' = x % WORD
    BY <1>1
  <2>5. now' \in 0..WORD - 1 /\ (now' = x \/ now' = x - WORD)
    <3> HIDE DEF x
    <3> QED BY <2>3, <2>4
  <2> QED BY <1>2, <2>5, Numbers
<1>4. ClockType'
  BY <1>1, <1>2, <1>3, Numbers DEF ClockInv, ClockType
<1>5. ASSUME reply.armed PROVE DueInv' /\ AgeInv' /\ reply.to \in Peers
  <2>1. DueInv /\ AgeInv /\ reply.to \in Peers
    BY <1>5 DEF ClockInv
  <2>0. Excused' = Excused
    BY <1>1 DEF Excused
  <2>2. age' = age + 1
    BY <1>1, <1>2, <1>5, <2>1, Numbers DEF AgeInv
  <2>3. AgeInv'
    BY <1>1, <1>2, <2>0, <2>1, <2>2, Numbers DEF AgeInv
  <2>4. DueInv'
    BY <1>1, <1>2, <1>3, <2>1, <2>2, Numbers DEF DueInv
  <2> QED BY <2>1, <2>3, <2>4
<1> QED BY <1>1, <1>4, <1>5 DEF ClockInv

LEMMA InboundKeepsClock == ASSUME ClockInv, ProcessInbound PROVE ClockInv'
<1>1. /\ pc = "inbound" /\ pc' = "reply" /\ now' = now /\ lag' = lag /\ ClockType
  BY DEF ProcessInbound, ClockInv
<1>2. CASE UNCHANGED <<reply, age, skipped>> /\ inbound' \in Seq(Sources)
  BY <1>1, <1>2 DEF ClockInv, ClockType, Steps, DueInv, AgeInv, Excused
<1>3. CASE /\ inbound # <<>> /\ inbound' = Tail(inbound)
           /\ Head(inbound) \notin {Malformed, Self}
           /\ reply' = [armed |-> TRUE, due_ms |-> (now + REPLY_DELAY_MS) % WORD,
                        to |-> Head(inbound)]
           /\ age' = 0 /\ skipped' = 0
  <2>1. Head(inbound) \in Sources /\ inbound' \in Seq(Sources)
    BY <1>1, <1>3 DEF ClockType
  <2> DEFINE s == Head(inbound)
             d == (now + REPLY_DELAY_MS) % WORD
  <2>2. reply' = [armed |-> TRUE, due_ms |-> d, to |-> s] /\ age' = 0 /\ skipped' = 0
    BY <1>3
  <2>3. s \in Peers
    BY <1>3, <2>1 DEF Sources
  <2>4. now \in 0..WORD - 1 /\ lag \in 0..MaxLag
    BY <1>1 DEF ClockType
  <2>5. /\ d \in 0..WORD - 1
        /\ d = now + REPLY_DELAY_MS \/ d = now + REPLY_DELAY_MS - WORD
    <3>1. /\ now + REPLY_DELAY_MS \in Int /\ 0 <= now + REPLY_DELAY_MS
          /\ now + REPLY_DELAY_MS < 2 * WORD
      BY <2>4, Numbers
    <3> DEFINE x == now + REPLY_DELAY_MS
    <3>2. x \in Int /\ 0 <= x /\ x < 2 * WORD
      BY <3>1
    <3>3. x % WORD \in 0..WORD - 1 /\ (x % WORD = x \/ x % WORD = x - WORD)
      <4> HIDE DEF x
      <4> QED BY <3>2, Later
    <3>4. d = x % WORD
      OBVIOUS
    <3>5. d \in 0..WORD - 1 /\ (d = x \/ d = x - WORD)
      <4> HIDE DEF x, d
      <4> QED BY <3>3, <3>4
    <3> HIDE DEF d
    <3> QED BY <2>4, <3>5, Numbers
  <2> HIDE DEF s, d
  <2>6. reply' \in ReplyType /\ reply'.to \in Peers /\ reply'.due_ms = d
    BY <2>2, <2>3, <2>5 DEF ReplyType, Sources
  <2>7. ClockType'
    BY <1>1, <2>1, <2>2, <2>6, Numbers DEF ClockType, Steps
  <2>8. DueInv'
    BY <1>1, <2>2, <2>4, <2>5, <2>6, Numbers DEF DueInv
  <2>9. AgeInv'
    BY <1>1, <2>2, <2>4, Numbers DEF AgeInv, Excused
  <2> QED BY <2>6, <2>7, <2>8, <2>9 DEF ClockInv
<1>4. \/ UNCHANGED <<inbound, reply, age, skipped>>
      \/ inbound # <<>> /\ inbound' = Tail(inbound) /\ Delivered(Head(inbound))
  BY DEF ProcessInbound
<1>5. inbound # <<>> => Tail(inbound) \in Seq(Sources)
  BY <1>1 DEF ClockType
<1>6. inbound \in Seq(Sources)
  BY <1>1 DEF ClockType
<1> QED BY <1>2, <1>3, <1>4, <1>5, <1>6 DEF Delivered

LEMMA ReplyKeepsClock == ASSUME ClockInv, Reply PROVE ClockInv'
<1>1. /\ pc = "reply" /\ pc' = "autosend" /\ UNCHANGED <<now, lag, inbound>>
      /\ ClockType /\ reply \in ReplyType
  BY DEF Reply, ClockInv, ClockType
<1>2. CASE reply' = [reply EXCEPT !.armed = FALSE] /\ age' = 0 /\ skipped' = 0
  <2>1. reply' \in ReplyType /\ ~reply'.armed
    BY <1>1, <1>2 DEF ReplyType
  <2>2. 0 \in 0..MaxAge /\ 0 \in 0..MaxSkips
    BY Numbers
  <2>3. ClockType'
    BY <1>1, <1>2, <2>1, <2>2 DEF ClockType, Steps
  <2> QED BY <2>1, <2>3 DEF ClockInv
<1>3. CASE UNCHANGED <<reply, age, skipped>> /\ ~(reply.armed /\ Due)
  <2>1. ClockType'
    BY <1>1, <1>3 DEF ClockType, Steps
  <2>2. ASSUME reply.armed PROVE reply.to \in Peers /\ DueInv' /\ AgeInv'
    <3>1. reply.to \in Peers /\ DueInv /\ AgeInv /\ ~Due
      BY <1>3, <2>2 DEF ClockInv
    <3>2. ~(age >= REPLY_DELAY_MS)
      BY <1>1, <3>1, DueMeansAged
    <3>3. age \in Nat /\ lag \in Nat /\ Excused \in Nat /\ Excused' = Excused
      BY <1>1, <1>3, Excuses, Numbers DEF ClockType, Excused
    <3>4. AgeInv'
      BY <1>1, <1>3, <3>2, <3>3, Numbers DEF AgeInv
    <3> QED BY <1>1, <1>3, <3>1, <3>4 DEF DueInv
  <2> QED BY <1>3, <2>1, <2>2 DEF ClockInv
<1> QED BY <1>2, <1>3 DEF Reply

LEMMA TimedKeepsClock == ASSUME ClockInv, TimedSend PROVE ClockInv'
<1>1. /\ pc = "autosend" /\ pc' = "outbound" /\ lag' = 0
      /\ UNCHANGED <<now, inbound, reply, age, skipped>> /\ ClockType
  BY DEF TimedSend, ClockInv
<1>2. ClockType'
  BY <1>1, Numbers DEF ClockType, Steps
<1>3. ASSUME reply.armed PROVE AgeInv' /\ DueInv' /\ reply.to \in Peers
  <2>1. age \in Nat /\ lag \in 0..MaxLag /\ Excused \in Nat /\ Excused' = Excused
    BY <1>1, Excuses, Numbers DEF ClockType, Excused
  <2>2. AgeInv /\ DueInv /\ reply.to \in Peers
    BY <1>3 DEF ClockInv
  <2>3. AgeInv'
    BY <1>1, <2>1, <2>2, Numbers DEF AgeInv
  <2> QED BY <1>1, <2>2, <2>3 DEF DueInv
<1> QED BY <1>1, <1>2, <1>3 DEF ClockInv

LEMMA CutKeepsClock == ASSUME ClockInv, CutShort PROVE ClockInv'
<1>1. /\ pc' = "outbound" /\ lag' = 0
      /\ UNCHANGED <<now, inbound, reply, age>> /\ ClockType
      /\ \/ /\ reply.armed /\ age >= REPLY_DELAY_MS
            /\ skipped < MaxSkips /\ skipped' = skipped + 1
         \/ ~(reply.armed /\ age >= REPLY_DELAY_MS) /\ skipped' = skipped
  BY DEF CutShort, ClockInv, device
<1>2. ClockType'
  BY <1>1, Numbers DEF ClockType, Steps
<1>3. ASSUME reply.armed PROVE AgeInv' /\ DueInv' /\ reply.to \in Peers
  <2>1. age \in Nat /\ lag \in 0..MaxLag /\ Excused \in Nat
    BY <1>1, Excuses, Numbers DEF ClockType
  <2>2. AgeInv /\ DueInv /\ reply.to \in Peers
    BY <1>3 DEF ClockInv
  <2>3. CASE age >= REPLY_DELAY_MS
    <3>1. Excused' = Excused + MaxLag
      BY <1>1, <1>3, <2>3, Excuses DEF Excused
    <3> QED BY <1>1, <2>1, <2>2, <3>1, Numbers DEF AgeInv, DueInv
  <2>4. CASE ~(age >= REPLY_DELAY_MS)
    <3>1. Excused' = Excused
      BY <1>1, <1>3, <2>4 DEF Excused
    <3> QED BY <1>1, <2>1, <2>2, <2>4, <3>1, Numbers DEF AgeInv, DueInv
  <2> QED BY <2>3, <2>4
<1> QED BY <1>1, <1>2, <1>3 DEF ClockInv

LEMMA ClockStep == ClockInv /\ [ReplyNext]_replyVars => ClockInv'
<1> SUFFICES ASSUME ClockInv, [ReplyNext]_replyVars PROVE ClockInv'
  OBVIOUS
<1>1. ASSUME NEW s \in Sources, Write(s) PROVE ClockInv'
  <2>1. /\ inbound' = Append(inbound, s) /\ UNCHANGED <<now, pc, lag, reply, age, skipped>>
        /\ inbound \in Seq(Sources)
    BY <1>1 DEF Write, device, ClockInv, ClockType
  <2>2. inbound' \in Seq(Sources)
    BY <2>1
  <2> QED BY <2>1, <2>2 DEF ClockInv, ClockType, DueInv, AgeInv, Excused
<1>2. CASE ProcessOutbound
  <2>1. pc' = "inbound" /\ UNCHANGED <<now, lag, inbound, reply, age, skipped>>
    BY <1>2 DEF ProcessOutbound
  <2> QED BY <2>1 DEF ClockInv, ClockType, Steps, DueInv, AgeInv, Excused
<1>3. CASE UNCHANGED replyVars
  BY <1>3 DEF replyVars, ClockInv, ClockType, DueInv, AgeInv, Excused
<1> QED BY <1>1, <1>2, <1>3, MillisKeepsClock, InboundKeepsClock, ReplyKeepsClock,
           TimedKeepsClock, CutKeepsClock DEF ReplyNext

\* An armed reply leaves within the delay and two iterations of the loop, and one
\* more for each iteration that an exception ended before it looked at the reply,
\* wherever on the clock it was armed: while delay and iterations together stay
\* under half the word, the signed difference of two times cannot be misread.
THEOREM ReplyNeverLate == ReplySpec => []NeverLate
<1>1. ClockInv => NeverLate
  <2> SUFFICES ASSUME ClockInv, reply.armed
               PROVE  age < REPLY_DELAY_MS + (2 + skipped) * MaxLag
    BY DEF NeverLate
  <2>1. AgeInv /\ age \in Nat /\ lag \in 0..MaxLag
    BY Numbers DEF ClockInv, ClockType
  <2>2. Excused \in Nat /\ (2 + skipped) * MaxLag = 2 * MaxLag + Excused
    BY Excuses DEF ClockInv
  <2> QED BY <2>1, <2>2, Numbers DEF AgeInv
<1> QED BY <1>1, ClockInit, ClockStep, PTL DEF ReplySpec

\* A reply never leaves before REPLY_DELAY_MS have passed since the newest message it
\* answers, wherever on the clock that came.
THEOREM ReplyNeverEarly == ReplySpec => NeverEarly
<1>1. ASSUME ClockInv, [ReplyNext]_replyVars PROVE reply.armed /\ ~reply'.armed => age >= REPLY_DELAY_MS
  <2> SUFFICES ASSUME reply.armed, ~reply'.armed PROVE age >= REPLY_DELAY_MS
    OBVIOUS
  <2>1. ClockType /\ DueInv /\ AgeInv
    BY <1>1 DEF ClockInv
  <2>2. reply' # reply
    OBVIOUS
  <2>3. ASSUME ProcessInbound PROVE FALSE
    <3>1. PICK s : reply' = [armed |-> TRUE, due_ms |-> (now + REPLY_DELAY_MS) % WORD, to |-> s]
      BY <2>2, <2>3 DEF ProcessInbound, Delivered
    <3> QED BY <3>1
  <2>4. ASSUME NEW s \in Sources, Write(s) PROVE FALSE
    BY <2>2, <2>4 DEF Write, device
  <2>5. CASE Reply
    BY <2>1, <2>2, <2>5, DueMeansAged DEF Reply
  <2> QED BY <1>1, <2>2, <2>3, <2>4, <2>5
         DEF ReplyNext, MillisTick, ProcessOutbound, TimedSend, CutShort, device, replyVars
<1> QED BY <1>1, ClockInit, ClockStep, PTL DEF ReplySpec, NeverEarly

-----------------------------------------------------------------------------
(* The numbers, which all correspondents share.                            *)

Message == [to : Peers, n : 0..CounterWord - 1]

\* The numbers that are neither on a peer's screen nor those of a lost message.
Missing == {n \in 0..CounterWord - 1 : \A p \in Peers : n \notin seen[p] \cup dropped[p]}

CountType ==
  /\ counter \in 0..CounterWord - 1
  /\ pool \in Seq(Message)
  /\ seen \in [Peers -> SUBSET (0..CounterWord - 1)]
  /\ dropped \in [Peers -> SUBSET (0..CounterWord - 1)]

\* A missing number is above all that are shown, is queued before any higher one
\* in the pool, and is in the pool if the counter has passed it.
ShownInv == \A m \in Missing : \A p \in Peers : \A hi \in seen[p] : hi < m
QueueInv == \A i \in 1..Len(pool) : \A m \in Missing :
              m < pool[i].n => \E j \in 1..i - 1 : pool[j].n = m
PassedInv == \A m \in Missing : m < counter => \E j \in 1..Len(pool) : pool[j].n = m

CountInv == ClockInv /\ CountType /\ ShownInv /\ QueueInv /\ PassedInv

\* The next number.
LEMMA NextCount ==
  ASSUME NEW c \in 0..CounterWord - 1
  PROVE  /\ (c + 1) % CounterWord \in 0..CounterWord - 1
         /\ \A m \in Nat : m < (c + 1) % CounterWord => m < c \/ m = c
<1> DEFINE x == c + 1
<1>1. x \in Int /\ 0 <= x /\ x <= CounterWord
  BY Numbers
<1>2. x % CounterWord \in 0..CounterWord - 1
  <2> HIDE DEF x
  <2> QED BY <1>1, Numbers, Turn
<1>3. x % CounterWord = x \/ x % CounterWord = 0
  <2> HIDE DEF x
  <2>1. x < CounterWord => x % CounterWord = x
    BY <1>1, Numbers, Turn
  <2>2. CounterWord <= x => x % CounterWord = x - CounterWord
    BY <1>1, Numbers, Turn
  <2> QED BY <1>1, <2>1, <2>2, Numbers
<1>4. ASSUME NEW m \in Nat, NEW y \in 0..CounterWord - 1, y = c + 1 \/ y = 0, m < y
      PROVE  m < c \/ m = c
  BY <1>4, Numbers
<1> QED BY <1>2, <1>3, <1>4

LEMMA CountInit == ReplyInit => CountInv
<1> SUFFICES ASSUME ReplyInit PROVE CountInv
  OBVIOUS
<1>1. ClockInv
  BY ClockInit
<1>2. pool = <<>> /\ counter = 0 /\ \A p \in Peers : seen[p] = {}
  BY DEF ReplyInit
<1>3. CountType
  BY Numbers DEF ReplyInit, CountType
<1>4. ShownInv /\ QueueInv
  BY <1>2 DEF ShownInv, QueueInv
<1>5. PassedInv
  BY <1>2 DEF PassedInv, Missing
<1> QED BY <1>1, <1>3, <1>4, <1>5 DEF CountInv

\* A message appended to the pool.
LEMMA Appended ==
  ASSUME NEW q \in Seq(Message), NEW m \in Message
  PROVE  /\ Append(q, m) \in Seq(Message) /\ Len(Append(q, m)) = Len(q) + 1 /\ Len(q) \in Nat
         /\ \A i \in 1..Len(q) : Append(q, m)[i] = q[i]
         /\ Append(q, m)[Len(q) + 1] = m
<1>1. ASSUME NEW S, NEW s \in Seq(S), NEW e \in S
      PROVE  /\ Append(s, e) \in Seq(S) /\ Len(Append(s, e)) = Len(s) + 1 /\ Len(s) \in Nat
             /\ \A i \in 1..Len(s) : Append(s, e)[i] = s[i]
             /\ Append(s, e)[Len(s) + 1] = e
  OBVIOUS
<1> QED BY <1>1

\* send_lxmf: the number a message goes out under is the next one missing, or has
\* been out before.
LEMMA SendCounts ==
  ASSUME ClockInv', CountInv, NEW to \in Peers, send_lxmf(to), seen' = seen
  PROVE  CountInv'
<1> DEFINE m == [to |-> to, n |-> counter]
<1>2. CountType /\ ShownInv /\ QueueInv /\ PassedInv
  BY DEF CountInv
<1>3. /\ counter \in 0..CounterWord - 1 /\ pool \in Seq(Message) /\ Len(pool) \in Nat
  BY <1>2 DEF CountType
<1>4. m \in Message /\ m.n = counter
  BY <1>3 DEF Message
<1>5. /\ counter' \in 0..CounterWord - 1
      /\ \A k \in Nat : k < counter' => k < counter \/ k = counter
  <2>1. counter' = counter \/ counter' = (counter + 1) % CounterWord
    BY DEF send_lxmf
  <2>2. CASE counter' = counter
    BY <1>3, <2>2
  <2>3. CASE counter' = (counter + 1) % CounterWord
    BY <1>3, <2>3, NextCount
  <2> QED BY <2>1, <2>2, <2>3
<1>6. Missing \subseteq Nat
  BY Numbers DEF Missing
<1>7. CASE pool' = Append(pool, m) /\ dropped' = dropped
  <2> DEFINE q == pool'
  <2>1. /\ q \in Seq(Message) /\ Len(q) = Len(pool) + 1
        /\ \A i \in 1..Len(pool) : q[i] = pool[i]
        /\ q[Len(pool) + 1] = m
    BY <1>3, <1>4, <1>7, Appended
  <2>2. Missing' = Missing
    BY <1>7 DEF Missing
  <2>3. CountType'
    BY <1>2, <1>5, <1>7, <2>1 DEF CountType
  <2>4. ShownInv'
    BY <1>2, <2>2 DEF ShownInv
  <2>5. QueueInv'
    <3> SUFFICES ASSUME NEW i \in 1..Len(q), NEW k \in Missing, k < q[i].n
                 PROVE  \E j \in 1..i - 1 : q[j].n = k
      BY <2>2 DEF QueueInv
    <3>1. CASE i \in 1..Len(pool)
      <4>1. PICK j \in 1..i - 1 : pool[j].n = k
        BY <1>2, <2>1, <3>1 DEF QueueInv
      <4>2. j \in 1..Len(pool)
        BY <1>3, <3>1
      <4> QED BY <2>1, <4>1, <4>2
    <3>2. CASE i = Len(pool) + 1
      <4>1. k < counter
        BY <1>4, <2>1, <3>2
      <4>2. PICK j \in 1..Len(pool) : pool[j].n = k
        BY <1>2, <4>1 DEF PassedInv
      <4>3. j \in 1..i - 1 /\ q[j] = pool[j]
        BY <1>3, <2>1, <3>2
      <4> QED BY <4>2, <4>3
    <3>3. i \in 1..Len(pool) \/ i = Len(pool) + 1
      BY <1>3, <2>1
    <3> QED BY <3>1, <3>2, <3>3
  <2>6. PassedInv'
    <3> SUFFICES ASSUME NEW k \in Missing, k < counter' PROVE \E j \in 1..Len(q) : q[j].n = k
      BY <2>2 DEF PassedInv
    <3>1. CASE k < counter
      <4>1. PICK j \in 1..Len(pool) : pool[j].n = k
        BY <1>2, <3>1 DEF PassedInv
      <4>2. j \in 1..Len(q) /\ q[j] = pool[j]
        BY <1>3, <2>1
      <4> QED BY <4>1, <4>2
    <3>2. CASE k = counter
      <4>1. Len(pool) + 1 \in 1..Len(q)
        BY <1>3, <2>1
      <4> QED BY <1>4, <2>1, <3>2, <4>1
    <3> QED BY <1>5, <1>6, <3>1, <3>2
  <2> QED BY <2>3, <2>4, <2>5, <2>6 DEF CountInv
<1>8. CASE pool' = pool /\ dropped' = [dropped EXCEPT ![to] = @ \cup {counter}]
  <2>1. /\ dropped'[to] = dropped[to] \cup {counter}
        /\ \A p \in Peers : p # to => dropped'[p] = dropped[p]
    BY <1>2, <1>8 DEF CountType
  <2>2. Missing' = Missing \ {counter}
    BY <2>1 DEF Missing
  <2>3. CountType'
    BY <1>2, <1>3, <1>5, <1>8 DEF CountType
  <2>4. ShownInv' /\ QueueInv'
    BY <1>2, <1>8, <2>2 DEF ShownInv, QueueInv
  <2>5. PassedInv'
    BY <1>2, <1>5, <1>6, <1>8, <2>2 DEF PassedInv
  <2> QED BY <2>3, <2>4, <2>5 DEF CountInv
<1>9. CASE UNCHANGED <<pool, counter, dropped>>
  BY <1>2, <1>9 DEF CountInv, CountType, ShownInv, QueueInv, PassedInv, Missing
<1> QED BY <1>7, <1>8, <1>9 DEF send_lxmf

\* process_outbound: the oldest message is the lowest missing number, or one that
\* has been out before.
LEMMA OutboundCounts ==
  ASSUME ClockInv', CountInv, ProcessOutbound
  PROVE  CountInv'
<1> DEFINE m == Head(pool)
           q == pool'
<1>1. CountType /\ ShownInv /\ QueueInv /\ PassedInv /\ counter' = counter
  BY DEF CountInv, ProcessOutbound
<1>2. CASE UNCHANGED <<pool, seen, dropped>>
  BY <1>1, <1>2 DEF CountInv, CountType, ShownInv, QueueInv, PassedInv, Missing
<1>3. CASE /\ pool # <<>> /\ q = Tail(pool)
           /\ \/ seen' = [seen EXCEPT ![m.to] = @ \cup {m.n}] /\ dropped' = dropped
              \/ dropped' = [dropped EXCEPT ![m.to] = @ \cup {m.n}] /\ seen' = seen
  <2>1. /\ pool \in Seq(Message) /\ Len(pool) \in Nat /\ Len(pool) > 0
        /\ m = pool[1] /\ m \in Message /\ q \in Seq(Message)
        /\ Len(q) = Len(pool) - 1 /\ \A i \in 1..Len(q) : q[i] = pool[i + 1]
    <3>1. ASSUME NEW S, NEW s \in Seq(S), s # <<>>
          PROVE  /\ Len(s) \in Nat /\ Len(s) > 0 /\ Head(s) = s[1] /\ Head(s) \in S
                 /\ Tail(s) \in Seq(S) /\ Len(Tail(s)) = Len(s) - 1
                 /\ \A i \in 1..Len(s) - 1 : Tail(s)[i] = s[i + 1]
      BY <3>1
    <3>2. pool \in Seq(Message)
      BY <1>1 DEF CountType
    <3> QED BY <1>3, <3>1, <3>2
  <2>2. m.to \in Peers /\ m.n \in 0..CounterWord - 1 /\ m.n = pool[1].n
    BY <2>1 DEF Message
  <2>3. /\ seen \in [Peers -> SUBSET (0..CounterWord - 1)]
        /\ dropped \in [Peers -> SUBSET (0..CounterWord - 1)]
    BY <1>1 DEF CountType
  <2>4. /\ \A p \in Peers : p # m.to => seen'[p] = seen[p] /\ dropped'[p] = dropped[p]
        /\ \/ seen'[m.to] = seen[m.to] \cup {m.n} /\ dropped'[m.to] = dropped[m.to]
           \/ seen'[m.to] = seen[m.to] /\ dropped'[m.to] = dropped[m.to] \cup {m.n}
    BY <1>3, <2>2, <2>3
  <2>5. Missing' = Missing \ {m.n}
    BY <2>2, <2>4 DEF Missing
  <2>6. CountType'
    <3>1. counter \in 0..CounterWord - 1
      BY <1>1 DEF CountType
    <3>2. seen' \in [Peers -> SUBSET (0..CounterWord - 1)]
      BY <1>3, <2>2, <2>3
    <3>3. dropped' \in [Peers -> SUBSET (0..CounterWord - 1)]
      BY <1>3, <2>2, <2>3
    <3> QED BY <1>1, <2>1, <3>1, <3>2, <3>3 DEF CountType
  <2>7. ShownInv'
    <3> SUFFICES ASSUME NEW k \in Missing, k # m.n, NEW p \in Peers, NEW hi \in seen'[p]
                 PROVE  hi < k
      BY <2>5 DEF ShownInv
    <3>1. k \in Nat
      BY Numbers DEF Missing
    <3>2. CASE hi \in seen[p]
      BY <1>1, <3>2 DEF ShownInv
    <3>3. CASE hi = m.n
      <4>1. ~(k < pool[1].n)
        <5> SUFFICES ASSUME k < pool[1].n PROVE FALSE
          OBVIOUS
        <5>1. 1 \in 1..Len(pool)
          BY <2>1
        <5>2. \E j \in 1..1 - 1 : pool[j].n = k
          BY <1>1, <5>1 DEF QueueInv
        <5> QED BY <5>2
      <4> QED BY <2>2, <3>1, <3>3, <4>1, Numbers
    <3> QED BY <2>4, <3>2, <3>3
  <2>8. ASSUME NEW i \in Nat, i <= Len(q), NEW k, k # m.n,
               NEW j \in 1..i, pool[j].n = k
        PROVE  \E l \in 1..i - 1 : q[l].n = k
    <3>1. j # 1
      BY <2>2, <2>8
    <3>2. j - 1 \in 1..i - 1 /\ j - 1 \in 1..Len(q) /\ (j - 1) + 1 = j
      BY <2>1, <2>8, <3>1
    <3>3. q[j - 1] = pool[(j - 1) + 1]
      BY <2>1, <3>2
    <3>4. q[j - 1].n = k
      BY <2>8, <3>2, <3>3
    <3> QED BY <3>2, <3>4
  <2>9. QueueInv'
    <3> SUFFICES ASSUME NEW i \in 1..Len(q), NEW k \in Missing, k # m.n, k < q[i].n
                 PROVE  \E j \in 1..i - 1 : q[j].n = k
      BY <2>5 DEF QueueInv
    <3>1. i + 1 \in 1..Len(pool) /\ q[i] = pool[i + 1] /\ i \in Nat /\ i <= Len(q)
          /\ i + 1 - 1 = i
      BY <2>1
    <3>2. PICK j \in 1..i + 1 - 1 : pool[j].n = k
      BY <1>1, <3>1 DEF QueueInv
    <3> QED BY <2>8, <3>1, <3>2
  <2>10. PassedInv'
    <3> SUFFICES ASSUME NEW k \in Missing, k # m.n, k < counter
                 PROVE  \E j \in 1..Len(q) : q[j].n = k
      BY <1>1, <2>5 DEF PassedInv
    <3>1. PICK j \in 1..Len(pool) : pool[j].n = k
      BY <1>1 DEF PassedInv
    <3>2. j # 1
      BY <2>2, <3>1
    <3>3. j - 1 \in 1..Len(q) /\ (j - 1) + 1 = j
      BY <2>1, <3>2
    <3>4. q[j - 1] = pool[(j - 1) + 1]
      BY <2>1, <3>3
    <3> QED BY <3>1, <3>3, <3>4
  <2> QED BY <2>6, <2>7, <2>9, <2>10 DEF CountInv
<1> QED BY <1>2, <1>3 DEF ProcessOutbound

LEMMA CountStep == CountInv /\ [ReplyNext]_replyVars => CountInv'
<1> SUFFICES ASSUME CountInv, [ReplyNext]_replyVars PROVE CountInv'
  OBVIOUS
<1>1. ClockInv /\ ClockInv'
  BY ClockStep DEF CountInv
<1>2. CASE UNCHANGED <<counter, pool, seen, dropped>>
  BY <1>1, <1>2 DEF CountInv, CountType, ShownInv, QueueInv, PassedInv, Missing
<1>3. CASE ProcessOutbound
  BY <1>1, <1>3, OutboundCounts
<1>4. CASE Reply
  <2>1. CASE reply.armed /\ Due
    <3>1. reply.to \in Peers /\ send_lxmf(reply.to) /\ seen' = seen
      BY <1>1, <1>4, <2>1 DEF ClockInv, Reply
    <3> QED BY <1>1, <3>1, SendCounts
  <2> QED BY <1>2, <1>4, <2>1 DEF Reply
<1>5. CASE TimedSend
  <2>1. CASE AutosendDest \in Peers /\ idle_time > Autosend
    <3>1. send_lxmf(AutosendDest) /\ seen' = seen
      BY <1>5, <2>1 DEF TimedSend
    <3> QED BY <1>1, <2>1, <3>1, SendCounts
  <2> QED BY <1>2, <1>5, <2>1 DEF TimedSend
<1>6. ASSUME NEW s \in Sources, Write(s) PROVE UNCHANGED <<counter, pool, seen, dropped>>
  BY <1>6 DEF Write, device
<1>7. ASSUME MillisTick \/ ProcessInbound \/ CutShort \/ UNCHANGED replyVars
      PROVE  UNCHANGED <<counter, pool, seen, dropped>>
  BY <1>7 DEF MillisTick, ProcessInbound, CutShort, device, replyVars
<1> QED BY <1>2, <1>3, <1>4, <1>5, <1>6, <1>7 DEF ReplyNext

\* Whoever the messages went to, every number up to one
\* that some peer shows was shown to a peer or lost on its way to one.  The pool keeps
\* its order, and g_send_counter moves on only once a message has its number, whatever
\* throws and however often the counter wraps.
NumberAccounted ==
  \A p \in Peers : \A hi \in seen[p] : \A n \in 0..hi :
    \E r \in Peers : n \in seen[r] \cup dropped[r]

\* For every set of correspondents, no number is ever skipped by send_lxmf.
THEOREM NoNumberSkipped == ReplySpec => []NumberAccounted
<1>1. CountInv => NumberAccounted
  <2> SUFFICES ASSUME CountInv, NEW p \in Peers, NEW hi \in seen[p], NEW n \in 0..hi,
                      \A r \in Peers : n \notin seen[r] \cup dropped[r]
               PROVE  FALSE
    BY DEF NumberAccounted
  <2>1. CountType /\ ShownInv
    BY DEF CountInv
  <2>2. hi \in 0..CounterWord - 1
    BY <2>1 DEF CountType
  <2>3. n \in 0..CounterWord - 1
    BY <2>2, Numbers
  <2>4. n \in Missing
    BY <2>3 DEF Missing
  <2>5. hi < n
    BY <2>1, <2>4 DEF ShownInv
  <2> QED BY <2>2, <2>3, <2>5, Numbers
<1> QED BY <1>1, CountInit, CountStep, PTL DEF ReplySpec

OnePeer == \E p : Peers = {p}

\* "A missing number on the peer's screen means a dropped packet, unambiguously", for
\* a device with one correspondent: of two, each sees the numbers the other gets as
\* gaps.
THEOREM GapIsADrop == ASSUME OnePeer PROVE ReplySpec => []GapMeansDrop
<1>1. CountInv /\ NumberAccounted => GapMeansDrop
  <2> SUFFICES ASSUME CountInv, NumberAccounted, NEW p \in Peers, NEW lo \in seen[p],
                      NEW hi \in seen[p], NEW n \in lo..hi
               PROVE  n \in seen[p] \cup dropped[p]
    BY DEF GapMeansDrop
  <2>1. lo \in 0..CounterWord - 1 /\ hi \in 0..CounterWord - 1
    BY DEF CountInv, CountType
  <2>2. n \in 0..hi
    BY <2>1, Numbers
  <2>3. PICK r \in Peers : n \in seen[r] \cup dropped[r]
    BY <2>2 DEF NumberAccounted
  <2>4. r = p
    BY DEF OnePeer
  <2> QED BY <2>3, <2>4
<1> QED BY <1>1, NoNumberSkipped, CountInit, CountStep, PTL DEF ReplySpec
=============================================================================
