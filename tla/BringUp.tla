------------------------------- MODULE BringUp -------------------------------
(***************************************************************************)
(* setup(), the work task it starts, and the radio that interrupts both:   *)
(* src/main.cpp with the receive path of LoRaInterface.cpp.                *)
(*                                                                         *)
(* Three actors share the state: the core's loop task, which runs setup(), *)
(* the work task, which runs thicket_work() and then blocks (or, without   *)
(* THICKET_LORA_ISR, yields), and the SX1262 with its DIO1 interrupt.  The *)
(* two tasks have the same priority, so either may be preempted anywhere.  *)
(*                                                                         *)
(* The radio is external: a frame that completes while it listens latches  *)
(* RX_DONE and raises DIO1; startReceive() and transmit() drop what was    *)
(* latched; the receiver listens again only after startReceive(), which    *)
(* LoRaInterface.cpp:345 calls "required after every packet on SX1262".    *)
(***************************************************************************)
EXTENDS Integers

CONSTANTS
  IsrBuilds,  \* which values of THICKET_LORA_ISR the builds have
  Faults,     \* which failures occur, see BringUpFaults
  MaxThrows   \* bound on the exceptions of one behaviour

BringUpFaults == {
  "step",    \* a bring-up step returns false
  "create",  \* xTaskCreate fails
  "throw"    \* an exception escapes the stack into thicket_task
}

ASSUME BringUpAssumption ==
  /\ IsrBuilds \subseteq BOOLEAN /\ IsrBuilds # {}
  /\ Faults \subseteq BringUpFaults
  /\ MaxThrows \in Nat

VARIABLES
  isr,          \* THICKET_LORA_ISR of this build
  setup,        \* where setup() stands
  task,         \* where the work task stands; "none" before xTaskCreate
  g_work_task,  \* the handle thicket_radio_wake reads is set
  g_stack_up,
  led,          \* LED_GREEN
  notified,     \* the work task's notification value is not 0
  irq_pending,  \* LoRaInterface::_irq_pending
  hook,         \* LoRaInterface::_wake_hook is set
  attached,     \* setPacketReceivedAction was called
  listening,    \* the radio is in receive mode
  rxDone,       \* RX_DONE is latched: a frame waits to be read
  dio1,         \* DIO1 was raised and the interrupt has not run yet
  unwound,      \* history: on_incoming threw, and no startReceive() since
  missed,       \* history: the wake-up for the latched frame found no task, or
                \* the iteration it started threw before the frame was read
  throws        \* history: exceptions so far, for the bound

radio == <<hook, attached, listening, rxDone, dio1, unwound, missed>>
vars == <<isr, setup, task, g_work_task, g_stack_up, led, notified, irq_pending,
          hook, attached, listening, rxDone, dio1, unwound, missed, throws>>

SetupSteps == {"storage", "identity", "radio", "start", "attach", "reticulum",
               "lxmf", "announce", "create", "assign"}
TaskSteps == {"work", "check", "deliver", "rearm", "jobs", "take", "blocked"}

ControlOK ==
  /\ isr \in IsrBuilds
  /\ setup \in SetupSteps \cup {"done", "failed"}
  /\ task \in TaskSteps \cup {"none"}
  /\ led \in {"low", "high", "blinking"}
  /\ throws \in 0..MaxThrows

FlagsOK ==
  /\ g_work_task \in BOOLEAN
  /\ g_stack_up \in BOOLEAN
  /\ notified \in BOOLEAN
  /\ irq_pending \in BOOLEAN
  /\ hook \in BOOLEAN
  /\ attached \in BOOLEAN
  /\ listening \in BOOLEAN
  /\ rxDone \in BOOLEAN
  /\ dio1 \in BOOLEAN
  /\ unwound \in BOOLEAN
  /\ missed \in BOOLEAN

TypeOK == ControlOK /\ FlagsOK

Init ==
  /\ isr \in IsrBuilds
  /\ setup = "storage"
  /\ task = "none"
  /\ g_work_task = FALSE
  /\ g_stack_up = FALSE
  /\ led = "low"
  /\ notified = FALSE
  /\ irq_pending = FALSE
  /\ hook = FALSE
  /\ attached = FALSE
  /\ listening = FALSE
  /\ rxDone = FALSE
  /\ dio1 = FALSE
  /\ unwound = FALSE
  /\ missed = FALSE
  /\ throws = 0

-----------------------------------------------------------------------------
\* The radio and its interrupt.

\* startReceive(): the latched frame, if any, is dropped.
StartReceive ==
  listening' = TRUE /\ rxDone' = FALSE /\ unwound' = FALSE /\ missed' = FALSE

\* transmit() and the startReceive() after it; TX_DONE raises DIO1 too.
Transmit == StartReceive /\ dio1' = attached /\ UNCHANGED <<hook, attached>>

FrameArrives ==
  /\ listening
  /\ listening' = FALSE
  /\ rxDone' = TRUE
  /\ dio1' = attached
  /\ UNCHANGED <<throws, isr, setup, task, g_work_task, g_stack_up, led, notified,
                 irq_pending, hook, attached, unwound, missed>>

\* Mutant: the hook is not called.
IsrNoHook ==
  /\ dio1
  /\ dio1' = FALSE
  /\ irq_pending' = TRUE
  /\ UNCHANGED <<throws, isr, setup, task, g_work_task, g_stack_up, led, notified,
                 hook, attached, listening, rxDone, unwound, missed>>

\* LoRaInterface::_isr and its hook, thicket_radio_wake.
Isr ==
  /\ dio1
  /\ dio1' = FALSE
  /\ irq_pending' = TRUE
  /\ notified' = (notified \/ (hook /\ g_work_task))
  /\ missed' = (missed \/ ~g_work_task)
  /\ UNCHANGED <<throws, isr, setup, task, g_work_task, g_stack_up, led, hook, attached,
                 listening, rxDone, unwound>>

-----------------------------------------------------------------------------
\* setup().

\* Steps that leave the modelled state alone; a failed one ends setup().
Order == [storage |-> "identity", identity |-> "radio", lxmf |-> "announce"]

SetupStep ==
  /\ setup \in DOMAIN Order
  /\ \/ setup' = Order[setup]
     \/ "step" \in Faults /\ setup' = "failed"
  /\ UNCHANGED <<throws, isr, task, g_work_task, g_stack_up, led, notified, irq_pending,
                 radio>>

\* bringup_radio: the interface is registered and the hook set, then ...
RadioHook ==
  /\ setup = "radio"
  /\ setup' = "start"
  /\ hook' = isr
  /\ UNCHANGED <<throws, isr, task, g_work_task, g_stack_up, led, notified, irq_pending,
                 attached, listening, rxDone, dio1, unwound, missed>>

\* ... LoRaInterface::start() does begin() and startReceive() ...
RadioStart ==
  /\ setup = "start"
  /\ \/ setup' = "attach" /\ StartReceive /\ UNCHANGED <<hook, attached, dio1>>
     \/ "step" \in Faults /\ setup' = "failed" /\ UNCHANGED radio
  /\ UNCHANGED <<throws, isr, task, g_work_task, g_stack_up, led, notified, irq_pending>>

\* ... and last, the interrupt.
RadioAttach ==
  /\ setup = "attach"
  /\ setup' = "reticulum"
  /\ attached' = isr
  /\ irq_pending' = isr
  /\ UNCHANGED <<throws, isr, task, g_work_task, g_stack_up, led, notified, hook,
                 listening, rxDone, dio1, unwound, missed>>

\* bringup_reticulum: transport off, probes on, start(); the stack may send.
ReticulumStart ==
  /\ setup = "reticulum"
  /\ \/ setup' = "lxmf"
     \/ "step" \in Faults /\ setup' = "failed"
  /\ Transmit \/ UNCHANGED radio
  /\ UNCHANGED <<throws, isr, task, g_work_task, g_stack_up, led, notified, irq_pending>>

Announce ==
  /\ setup = "announce"
  /\ Transmit
  /\ g_stack_up' = TRUE
  /\ led' = "high"
  /\ setup' = "create"
  /\ UNCHANGED <<throws, isr, task, g_work_task, notified, irq_pending>>

TaskCreate ==
  /\ setup = "create"
  /\ \/ task' = "work" /\ setup' = "assign" /\ UNCHANGED g_stack_up
     \/ "create" \in Faults /\ setup' = "failed" /\ g_stack_up' = FALSE /\ UNCHANGED task
  /\ UNCHANGED <<throws, isr, g_work_task, led, notified, irq_pending, radio>>

\* g_work_task = h, after xTaskCreate has made the task ready to run.
TaskAssign ==
  /\ setup = "assign"
  /\ g_work_task' = TRUE
  /\ setup' = "done"
  /\ UNCHANGED <<throws, isr, task, g_stack_up, led, notified, irq_pending, radio>>

-----------------------------------------------------------------------------
\* thicket_task: thicket_work(), then wait.

\* thicket_work(): blink and return while g_stack_up is false; else
\* g_reticulum.loop() and LoRaInterface::loop() up to checkIrq().  The flag is
\* taken before the register is read.
WorkBegin ==
  /\ task = "work"
  /\ led' = IF g_stack_up THEN led ELSE "blinking"
  /\ task' = IF ~g_stack_up THEN "take"
             ELSE IF isr /\ ~irq_pending THEN "jobs" ELSE "check"
  /\ irq_pending' = (irq_pending /\ ~g_stack_up)
  /\ UNCHANGED <<throws, isr, setup, g_work_task, g_stack_up, notified, radio>>

\* checkIrq(RX_DONE), and readData() when a frame is there.
LoopCheck ==
  /\ task = "check"
  /\ task' = IF rxDone THEN "deliver" ELSE "jobs"
  /\ rxDone' = FALSE
  /\ missed' = FALSE
  /\ UNCHANGED <<throws, isr, setup, g_work_task, g_stack_up, led, notified, irq_pending,
                 hook, attached, listening, dio1, unwound>>

\* on_incoming: the stack may answer with a transmission before it returns.
LoopDeliver ==
  /\ task = "deliver"
  /\ task' = "rearm"
  /\ Transmit \/ UNCHANGED radio
  /\ UNCHANGED <<throws, isr, setup, g_work_task, g_stack_up, led, notified, irq_pending>>

\* Mutant: the receiver is left as the packet left it.
LoopNoRearm ==
  /\ task = "rearm"
  /\ task' = "jobs"
  /\ UNCHANGED <<throws, isr, setup, g_work_task, g_stack_up, led, notified, irq_pending,
                 radio>>

LoopRearm ==
  /\ task = "rearm"
  /\ task' = "jobs"
  /\ StartReceive
  /\ UNCHANGED <<throws, isr, setup, g_work_task, g_stack_up, led, notified, irq_pending,
                 hook, attached, dio1>>

\* Mutant: the flag is cleared when the work is done, not before it is begun.
JobsClearFlag ==
  /\ task = "jobs"
  /\ task' = "take"
  /\ Transmit \/ UNCHANGED radio
  /\ irq_pending' = FALSE
  /\ UNCHANGED <<throws, isr, setup, g_work_task, g_stack_up, led, notified>>

\* The rest of thicket_work: outbound queue, announce, reply, timed send.
Jobs ==
  /\ task = "jobs"
  /\ task' = "take"
  /\ Transmit \/ UNCHANGED radio
  /\ UNCHANGED <<throws, isr, setup, g_work_task, g_stack_up, led, notified, irq_pending>>

\* An exception is caught in thicket_task, which goes on to wait.
Throw ==
  /\ "throw" \in Faults
  /\ throws < MaxThrows
  /\ \/ task = "work" /\ g_stack_up
     \/ task \in {"deliver", "jobs"}
  /\ task' = "take"
  /\ unwound' = (unwound \/ task = "deliver")
  /\ missed' = (missed \/ (task = "work" /\ rxDone))
  /\ throws' = throws + 1
  /\ UNCHANGED <<isr, setup, g_work_task, g_stack_up, led, notified, irq_pending,
                 hook, attached, listening, rxDone, dio1>>

\* ulTaskNotifyTake(pdTRUE, tick), or taskYIELD() without the interrupt.
Take ==
  /\ task = "take"
  /\ task' = IF isr /\ ~notified THEN "blocked" ELSE "work"
  /\ notified' = FALSE
  /\ UNCHANGED <<throws, isr, setup, g_work_task, g_stack_up, led, irq_pending, radio>>

Woken ==
  /\ task = "blocked"
  /\ notified
  /\ notified' = FALSE
  /\ task' = "work"
  /\ UNCHANGED <<throws, isr, setup, g_work_task, g_stack_up, led, irq_pending, radio>>

\* Mutant: the wait has no time limit.
TickNever ==
  /\ task = "blocked"
  /\ FALSE
  /\ UNCHANGED vars

\* THICKET_TASK_TICK_MS passed without a notification.
Tick ==
  /\ task = "blocked"
  /\ ~notified
  /\ task' = "work"
  /\ UNCHANGED <<throws, isr, setup, g_work_task, g_stack_up, led, notified, irq_pending,
                 radio>>

Setup == \/ SetupStep \/ RadioHook \/ RadioStart \/ RadioAttach \/ ReticulumStart
         \/ Announce \/ TaskCreate \/ TaskAssign

Work == \/ WorkBegin \/ LoopCheck \/ LoopDeliver \/ LoopRearm \/ Jobs
        \/ Throw \/ Take \/ Woken \/ Tick

Next == Setup \/ Work \/ FrameArrives \/ Isr

Spec == Init /\ [][Next]_vars

\* FreeRTOS runs every ready task (the two have one priority and are time
\* sliced), the tick ends every wait, and a raised interrupt is taken.
FairSpec == Spec /\ WF_vars(Setup) /\ WF_vars(Work) /\ WF_vars(Isr)

-----------------------------------------------------------------------------
\* Properties.

\* LoRaInterface.cpp:284 clears the flag before it reads the register, and
\* start() sets it once for what was latched before the handler: a frame the
\* radio holds is never forgotten.  Either the interrupt is still to run, or
\* the flag is set, or the task is about to read the register.
LatchedFrameIsFlagged ==
  (isr /\ attached /\ rxDone) => (dio1 \/ irq_pending \/ task = "check")

\* The same as a promise: a latched frame is read, or overwritten by a
\* transmission, in either build; it does not stay in the radio.
LatchedFrameIsRead == (rxDone /\ task # "none") ~> ~rxDone

\* The always-listening contract of thicket_work (main.cpp:1781): when the work
\* task waits, the receiver is on or holds a frame.  The one way out is an
\* exception under on_incoming, and only until the next startReceive().
WaitingMeansListening ==
  task \in {"take", "blocked", "work"} => listening \/ rxDone \/ unwound

\* main.cpp:928-931: a packet "delayed by up to a full tick, intermittently" is
\* "precisely the class of bug this feature must not introduce".  The task never
\* sleeps through a frame: if one is latched and its interrupt has run, the
\* notification that ends the wait is there.  The frames that may wait for the
\* tick are those whose interrupt ran before g_work_task was stored, and those
\* whose iteration an exception cut short.
FrameEndsWait ==
  (isr /\ task = "blocked" /\ rxDone /\ ~dio1) => (notified \/ missed)
=============================================================================
