-------------------------------- MODULE Bench --------------------------------
(***************************************************************************)
(* The bench every interoperability scenario runs on: driver.sh starts two *)
(* processes, two seconds apart, waits for both and gives the verdict; the *)
(* processes talk over UDP.  A scenario's module says what one iteration   *)
(* of each process's loop does; here is what all of them share.            *)
(*                                                                         *)
(* Time is in half seconds.  A loop sleeps 10 to 100 ms, so a process that *)
(* is not slow runs at least once in each.  A socket's queue is a set: the *)
(* order of datagrams is not kept, and a second copy of one that waits     *)
(* changes nothing.                                                        *)
(***************************************************************************)
EXTENDS Integers, FiniteSets, Functions

CONSTANTS
  Scenarios,  \* which scenarios of run_all.sh are run
  TIMEOUT_S,  \* scenario -> THICKET_INTEROP_TIMEOUT_S, in seconds
  Breaks,     \* scenario -> the --self-test-break switches tried; "none" is none
  MaxFaults   \* scenario -> how many failures of BenchFaults a run meets at most

BenchFaults == {
  "bind",  \* start() of a node's interface fails: it goes on offline
  "loss",  \* a datagram is lost
  "slow",  \* a process does not get to run, for as long as it pleases
  "stack"  \* the stack under test does not do what the scenario is for, or the
           \* peer's gives up
}

Sides == {"peer", "cpp"}
Other(s) == IF s = "peer" THEN "cpp" ELSE "peer"

ASSUME BenchAssumption ==
  /\ TIMEOUT_S \in [Scenarios -> Nat]
  /\ MaxFaults \in [Scenarios -> Nat]

VARIABLES
  scenario,  \* the scenario that runs
  broken,    \* the --self-test-break it runs with
  now,
  side,      \* side -> "off", "up", "exited" or "killed"
  t0,        \* side -> when it started
  rc,        \* side -> its exit code
  online,    \* side -> _online of its interface
  sock,      \* side -> the datagrams that wait in its socket
  verdict,   \* the driver's: "none" while it waits
  ran,       \* side -> it has run in this half second
  reached,   \* history: side -> the datagrams its stack has been handed
  stuck,     \* the side that does not get to run now, or "none"
  faults     \* history: the failures so far, how many of each

process == <<scenario, broken, t0>>
bench == <<scenario, broken, now, side, t0, rc, online, sock, verdict, ran, reached,
           stuck, faults>>

Seconds(n) == 2 * n
Timeout == Seconds(TIMEOUT_S[scenario])
Elapsed(s) == now - t0[s]
Running(s) == side[s] = "up"
Runs(s) == Running(s) /\ stuck # s
Never == -1000    \* a time long ago, for a timer that has not been set

Calm == broken = "none" /\ \A f \in BenchFaults : faults[f] = 0

\* The kinds of failures that happen in this step.
Failing(kinds) ==
  /\ kinds # {} => SumFunction(faults) + Cardinality(kinds) <= MaxFaults[scenario]
  /\ faults' = [f \in BenchFaults |-> IF f \in kinds THEN faults[f] + 1 ELSE faults[f]]

BenchInit ==
  /\ scenario \in Scenarios
  /\ broken \in Breaks[scenario]
  /\ now = 0
  /\ side = [s \in Sides |-> "off"]
  /\ t0 = [s \in Sides |-> 0]
  /\ rc = [s \in Sides |-> 0]
  /\ online = [s \in Sides |-> FALSE]
  /\ sock = [s \in Sides |-> {}]
  /\ verdict = "none"
  /\ ran = [s \in Sides |-> FALSE]
  /\ reached = [s \in Sides |-> {}]
  /\ stuck = "none"
  /\ faults = [f \in BenchFaults |-> 0]

-----------------------------------------------------------------------------
\* The driver.

\* The C++ side is launched after "sleep 2".
LaunchDue(s) == side[s] = "off" /\ (s = "cpp" => now >= Seconds(2))

\* A process starts, up to the first iteration of its loop.  The result of
\* UDPInterface2::start() is not looked at: a node whose socket could not be
\* opened or bound runs on, offline.
Launch(s) ==
  /\ LaunchDue(s)
  /\ side' = [side EXCEPT ![s] = "up"]
  /\ t0' = [t0 EXCEPT ![s] = now]
  /\ \E up \in BOOLEAN :
       /\ online' = [online EXCEPT ![s] = up]
       /\ Failing(IF up THEN {} ELSE {"bind"})
  /\ UNCHANGED <<scenario, broken, now, rc, sock, verdict, ran, reached, stuck>>

Ended(s) == side[s] \in {"exited", "killed"}

Watchdog == side["cpp"] # "off" /\ Elapsed("cpp") >= Timeout + Seconds(15)

\* "Both sides must exit 0 AND print SUCCESS": each program prints it just when
\* it returns 0.  What still runs at the deadline is killed.
Judge ==
  /\ verdict = "none"
  /\ (\A s \in Sides : Ended(s)) \/ Watchdog
  /\ verdict' = IF \A s \in Sides : side[s] = "exited" /\ rc[s] = 0 THEN "pass" ELSE "fail"
  /\ side' = [s \in Sides |-> IF Running(s) THEN "killed" ELSE side[s]]
  /\ UNCHANGED <<scenario, broken, now, t0, rc, online, sock, ran, reached, stuck,
                 faults>>

Tick ==
  /\ verdict = "none"
  /\ \A s \in Sides : ~LaunchDue(s)
  /\ ~Watchdog
  /\ \A s \in Sides : Running(s) => ran[s] \/ stuck = s
  /\ now' = now + 1
  /\ ran' = [s \in Sides |-> FALSE]
  /\ UNCHANGED <<scenario, broken, side, t0, rc, online, sock, verdict, reached, stuck,
                 faults>>

\* The operating system lets a process wait.
Stall(s) ==
  /\ verdict = "none" /\ stuck = "none" /\ Running(s) /\ ran[s]
  /\ stuck' = s
  /\ Failing({"slow"})
  /\ UNCHANGED <<scenario, broken, now, side, t0, rc, online, sock, verdict, ran, reached>>

Resume ==
  /\ verdict = "none" /\ stuck # "none" /\ ~ran[stuck]
  /\ stuck' = "none"
  /\ UNCHANGED <<scenario, broken, now, side, t0, rc, online, sock, verdict, ran, reached,
                 faults>>

-----------------------------------------------------------------------------
\* One iteration of a process's loop.

\* UDPInterface2::loop() hands every waiting datagram to the stack.
Heard(s) == IF online[s] THEN sock[s] ELSE {}

On == -1   \* "exit code" of an iteration that does not leave the loop

\* The process returns: ~UDPInterface2 closes the socket.
Close(s, code) ==
  /\ side' = [side EXCEPT ![s] = IF code = On THEN "up" ELSE "exited"]
  /\ online' = [online EXCEPT ![s] = @ /\ code = On]
  /\ rc' = [rc EXCEPT ![s] = IF code = On THEN 0 ELSE code]
  /\ ran' = [ran EXCEPT ![s] = TRUE]
  /\ UNCHANGED <<scenario, broken, now, t0, verdict, stuck>>

\* s has been handed Heard(s), sends the datagrams out, and goes on or exits
\* with code.  send_outgoing while offline drops the datagram and says so to
\* nobody; so does a send to a port where nobody listens, which is what happens
\* to everything sent before the other side is up.  well: the stack did in this
\* iteration what it should.  An iteration that finds no datagram and no later
\* time than the one before it does nothing, and is left out.
Iterate(s, out, code, well) ==
  LET o == Other(s)
      sent == IF online[s] /\ online[o] THEN out ELSE {}
  IN  /\ Runs(s)
      /\ ~ran[s] \/ sock[s] # {}
      /\ \E lost \in SUBSET sent :
           /\ sock' = [sock EXCEPT ![s] = {}, ![o] = @ \cup (sent \ lost)]
           /\ Failing((IF lost = {} THEN {} ELSE {"loss"}) \cup
                      (IF well THEN {} ELSE {"stack"}))
      /\ reached' = [reached EXCEPT ![s] = @ \cup Heard(s)]
      /\ Close(s, code)

\* s finds its time up before it reads its socket.
Leave(s, code) ==
  /\ Runs(s)
  /\ sock' = [sock EXCEPT ![s] = {}]
  /\ Close(s, code)
  /\ UNCHANGED <<reached, faults>>

Code(ok) == IF ok THEN 0 ELSE 1
=============================================================================
