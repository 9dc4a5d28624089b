------------------------------ MODULE AutoReply ------------------------------
(***************************************************************************)
(* The device as a correspondent: the LXMF delivery callback, the latched  *)
(* reply it arms, the numbered messages send_lxmf composes, and the work   *)
(* loop that ties them to millis().  The peers, the router's queues and    *)
(* the radio are external: messages come in when they like, and a message  *)
(* the router holds is shown to its peer, lost on the air, or given up.    *)
(*                                                                         *)
(* millis() is a word that wraps; an iteration of the loop takes up to     *)
(* MaxLag ticks, a transmission that blocks for its airtime included.      *)
(***************************************************************************)
EXTENDS Integers, Sequences

CONSTANTS
  Peers,           \* the addresses that write to the device
  Self,            \* the device's own delivery destination
  Malformed,       \* a source hash that is not 16 bytes
  AutosendDest,    \* THICKET_AUTOSEND_DEST, or Malformed in a stock build
  WORD,            \* 2^32, the values of millis()
  REPLY_DELAY_MS,  \* 1500
  Autosend,        \* THICKET_AUTOSEND_INTERVAL_S in ticks
  MaxLag,          \* bound: ticks in one iteration of the loop
  PoolSize,        \* 16, the router's outbound pool
  MaxMessages,     \* bound: messages the peers send
  CounterWord,     \* 2^32, the values of g_send_counter
  Throws,          \* whether calls throw
  MaxSkips         \* bound: checks of one due reply that exceptions skip

Sources == Peers \cup {Self, Malformed}

ASSUME ReplyAssumption ==
  /\ Self \notin Peers /\ Malformed \notin Peers
  /\ {WORD, REPLY_DELAY_MS, Autosend, MaxLag, PoolSize, CounterWord} \subseteq Nat \ {0}
  /\ WORD % 2 = 0
  /\ 2 * (REPLY_DELAY_MS + (2 + MaxSkips) * MaxLag) < WORD
  /\ MaxMessages \in Nat /\ MaxSkips \in Nat
  /\ AutosendDest \in Peers \cup {Malformed}

VARIABLES
  now,        \* millis()
  pc,         \* where thicket_work is
  lag,        \* ticks since this iteration began
  inbound,    \* the router's inbound queue: sources of messages
  reply,      \* g_reply: armed, due_ms, to
  counter,    \* g_send_counter
  idle_time,  \* OS::time() - g_last_autosend, up to just over the interval
  pool,       \* the router's outbound pool: [to, n]
  \* history
  written,    \* messages the peers have sent, up to MaxMessages
  age,        \* ticks since the reply was armed, while it is
  skipped,    \* iterations an exception ended before they looked at it, once due
  seen,       \* per peer: the numbers on its screen
  dropped     \* per peer: the numbers of messages lost on their way to it

device == <<reply, counter, idle_time, pool>>
replyVars == <<now, pc, lag, inbound, reply, counter, idle_time, pool, written,
               age, skipped, seen, dropped>>

MaxAge == REPLY_DELAY_MS + (2 + MaxSkips) * MaxLag + 1

ReplyInit ==
  /\ now \in 0..WORD - 1
  /\ pc = "outbound"
  /\ lag = 0
  /\ inbound = <<>>
  /\ reply = [armed |-> FALSE, due_ms |-> 0, to |-> Malformed]
  /\ counter = 0
  /\ idle_time = 0
  /\ pool = <<>>
  /\ written = 0
  /\ age = 0
  /\ skipped = 0
  /\ seen = [p \in Peers |-> {}]
  /\ dropped = [p \in Peers |-> {}]

-----------------------------------------------------------------------------
(* The world.                                                              *)

\* A message reaches the device through reticulum.loop().
Write(s) ==
  /\ written < MaxMessages
  /\ inbound = <<>>
  /\ inbound' = Append(inbound, s)
  /\ written' = written + 1
  /\ UNCHANGED <<now, pc, lag, device, age, skipped, seen, dropped>>

MillisTick ==
  /\ lag < MaxLag
  /\ lag' = lag + 1
  /\ now' = (now + 1) % WORD
  /\ age' = IF reply.armed /\ age < MaxAge THEN age + 1 ELSE age
  /\ idle_time' = IF idle_time <= Autosend THEN idle_time + 1 ELSE idle_time
  /\ UNCHANGED <<pc, inbound, reply, counter, pool, written, skipped, seen, dropped>>

-----------------------------------------------------------------------------
(* thicket_work.                                                           *)

\* process_outbound: the oldest message goes out and is shown or lost, or
\* waits for a path, or is given up.
ProcessOutbound ==
  /\ pc = "outbound"
  /\ pc' = "inbound"
  /\ \/ UNCHANGED <<pool, seen, dropped>>
     \/ /\ pool # <<>>
        /\ pool' = Tail(pool)
        /\ LET m == Head(pool)
           IN  \/ seen' = [seen EXCEPT ![m.to] = @ \cup {m.n}] /\ UNCHANGED dropped
               \/ dropped' = [dropped EXCEPT ![m.to] = @ \cup {m.n}] /\ UNCHANGED seen
  /\ UNCHANGED <<now, lag, inbound, reply, counter, idle_time, written, age, skipped>>

\* The delivery callback: malformed sources and the device itself get no reply,
\* nor does a message the store threw at, which process_inbound() catches.
Delivered(s) ==
  \/ (s \in {Malformed, Self} \/ Throws) /\ UNCHANGED <<reply, age, skipped>>
  \/ /\ s \notin {Malformed, Self}
     /\ reply' = [armed |-> TRUE, due_ms |-> (now + REPLY_DELAY_MS) % WORD, to |-> s]
     /\ age' = 0
     /\ skipped' = 0

ProcessInbound ==
  /\ pc = "inbound"
  /\ pc' = "reply"
  /\ IF inbound = <<>>
     THEN UNCHANGED <<inbound, reply, age, skipped>>
     ELSE inbound' = Tail(inbound) /\ Delivered(Head(inbound))
  /\ UNCHANGED <<now, lag, counter, idle_time, pool, written, seen, dropped>>

\* Mutant: the number is taken before anything can fail.
send_lxmf_early(to) ==
  /\ counter' = (counter + 1) % CounterWord
  /\ \/ /\ Len(pool) < PoolSize
        /\ pool' = Append(pool, [to |-> to, n |-> counter])
        /\ UNCHANGED dropped
     \/ /\ Len(pool) = PoolSize
        /\ dropped' = [dropped EXCEPT ![to] = @ \cup {counter}]
        /\ UNCHANGED pool
     \/ Throws /\ UNCHANGED <<pool, dropped>>

\* send_lxmf: the number counts once the message is queued and stored.  The
\* router drops what its pool has no slot for; packing throws before it
\* queues, storing after.
send_lxmf(to) ==
  \/ /\ Len(pool) < PoolSize
     /\ pool' = Append(pool, [to |-> to, n |-> counter])
     /\ counter' = (counter + 1) % CounterWord \/ (Throws /\ UNCHANGED counter)
     /\ UNCHANGED dropped
  \/ /\ Len(pool) = PoolSize
     /\ dropped' = [dropped EXCEPT ![to] = @ \cup {counter}]
     /\ counter' = (counter + 1) % CounterWord
     /\ UNCHANGED pool
  \/ Throws /\ UNCHANGED <<pool, counter, dropped>>

\* Mutant: the two times are compared, not their difference.
DueCompared == now >= reply.due_ms

\* Mutant: off by one at the deadline.
DueAfter == (now - reply.due_ms) % WORD \in 1..(WORD \div 2 - 1)

\* (int32_t)(millis() - due_ms) >= 0
Due == (now - reply.due_ms) % WORD < WORD \div 2

Reply ==
  /\ pc = "reply"
  /\ pc' = "autosend"
  /\ IF reply.armed /\ Due
     THEN /\ reply' = [reply EXCEPT !.armed = FALSE]
          /\ send_lxmf(reply.to)
          /\ age' = 0
          /\ skipped' = 0
     ELSE UNCHANGED <<reply, pool, counter, dropped, age, skipped>>
  /\ UNCHANGED <<now, lag, inbound, idle_time, written, seen>>

\* Only in a build with both flags and a destination that parsed.
TimedSend ==
  /\ pc = "autosend"
  /\ pc' = "outbound"
  /\ lag' = 0
  /\ IF AutosendDest \in Peers /\ idle_time > Autosend
     THEN idle_time' = 0 /\ send_lxmf(AutosendDest)
     ELSE UNCHANGED <<idle_time, pool, counter, dropped>>
  /\ UNCHANGED <<now, inbound, reply, written, age, skipped, seen>>

\* An exception under reticulum.loop(), process_outbound(), process_inbound() or
\* announce() ends the iteration, and thicket_task begins the next.
CutShort ==
  /\ Throws
  /\ pc \in {"outbound", "inbound", "reply"}
  /\ pc' = "outbound"
  /\ lag' = 0
  /\ IF reply.armed /\ age >= REPLY_DELAY_MS
     THEN skipped < MaxSkips /\ skipped' = skipped + 1
     ELSE UNCHANGED skipped
  /\ UNCHANGED <<now, inbound, device, written, age, seen, dropped>>

ReplyNext ==
  \/ \E s \in Sources : Write(s)
  \/ MillisTick
  \/ ProcessOutbound \/ ProcessInbound \/ Reply \/ TimedSend \/ CutShort

ReplySpec == ReplyInit /\ [][ReplyNext]_replyVars

-----------------------------------------------------------------------------
(* The pause "exists because ... the peer that just transmitted needs its  *)
(* own receiver back": a reply never leaves before REPLY_DELAY_MS have     *)
(* passed since the newest message it answers, at a wrap of millis() too.  *)
NeverEarly == [][reply.armed /\ ~reply'.armed => age >= REPLY_DELAY_MS]_replyVars

(* Nor is it forgotten: an armed reply leaves within the delay and the two *)
(* iterations the loop takes to come round to it, at a wrap of millis()    *)
(* too.  An exception that reaches thicket_task puts it off by no more     *)
(* than the iteration it ends (main.cpp:1871-1878 goes on to the next).    *)
NeverLate == reply.armed => age < REPLY_DELAY_MS + (2 + skipped) * MaxLag

(* "A missing number on the peer's screen means a dropped packet,          *)
(* unambiguously": a number skipped between two that are shown belongs to  *)
(* a message that was lost on its way to that peer.  It takes a device     *)
(* with one correspondent: the counter is shared by all of them.           *)
GapMeansDrop ==
  \A p \in Peers : \A lo, hi \in seen[p] : \A n \in lo..hi :
    n \in seen[p] \cup dropped[p]
=============================================================================
