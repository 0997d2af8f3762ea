---------------------------- MODULE OpenSchedule ----------------------------
(***************************************************************************)
(* When the clients of minerMaster open their connections: the loop of     *)
(* main, the clock it reads at its end, and wait_open_time, the minute at  *)
(* which a client in CONNECT may go on.  A client opens when the minute    *)
(* read last IS its minute, so a minute that is never read costs an hour.  *)
(*                                                                         *)
(* Time passes anywhere in the loop, until the watchdog resets the master. *)
(* What a client does once its connection is open is MinerMaster's.        *)
(***************************************************************************)
EXTENDS Integers, FiniteSets

CONSTANTS Clients,   \* the numbers of the clients (of 0..SOCKET_MAX - 1)
          Hour,      \* 60: minutes of an hour
          Minute,    \* the ticks of a minute
          Dog        \* WATCHDOG_TIMER_MS, in ticks

\* The code asks for 60 s; the watchdog of the chip counts 8.3 s at most.
ASSUME ScheduleAssumption ==
  /\ Clients \subseteq Nat /\ Clients # {} /\ IsFiniteSet(Clients)
  /\ Hour \in Nat /\ Minute \in Nat /\ Dog \in 1..(Minute - 1)
  /\ Hour > 2 /\ \A c \in Clients : (c \div 2) + 3 < Hour

VARIABLES
  tick,       \* the time of the clock, in ticks of the hour
  dog,        \* ticks since watchdog_update
  g_start_min,
  todo,       \* the clients whose turn in this pass is to come
  wait,       \* ducoClient[c].wait_open_time
  state,      \* "CONNECT", or "away" in any other state
  why, since  \* history: why a client waits, and for how many ticks

scheduleVars == <<tick, dog, g_start_min, todo, wait, state, why, since>>

\* duino_set_start_time, later after a reboot by the watchdog
StartMinutes(late) == [c \in Clients |-> (c \div 2) + late]

\* main: the clock starts at minute 1, second 1.
ScheduleInit ==
  /\ tick = Minute + 1 /\ dog = 0 /\ g_start_min = -1
  /\ todo = Clients
  /\ wait = StartMinutes(0) /\ state = [c \in Clients |-> "CONNECT"]
  /\ why = [c \in Clients |-> "start"] /\ since = [c \in Clients |-> 0]

-----------------------------------------------------------------------------
(* The loop of main *)

\* Mutant of InTime: the watchdog leaves the loop a minute more.
InTimeLater == dog < Dog + Minute
InTime == dog < Dog

Tick ==
  /\ InTime
  /\ tick' = (tick + 1) % (Hour * Minute) /\ dog' = dog + 1
  /\ since' = [c \in Clients |-> IF state[c] = "CONNECT" THEN since[c] + 1 ELSE 0]
  /\ UNCHANGED <<g_start_min, todo, wait, state, why>>

\* The watchdog: main from its beginning, the clock as well.
Reboot == /\ ~InTime
          /\ tick' = Minute + 1 /\ dog' = 0 /\ g_start_min' = -1
          /\ todo' = Clients
          /\ wait' = StartMinutes(3) /\ state' = [c \in Clients |-> "CONNECT"]
          /\ why' = [c \in Clients |-> "reboot"] /\ since' = [c \in Clients |-> 0]

\* rtc_get_datetime, duino_print_rtc_log, watchdog_update
Clock ==
  /\ InTime /\ todo = {}
  /\ g_start_min' = tick \div Minute
  /\ dog' = 0 /\ todo' = Clients
  /\ UNCHANGED <<tick, wait, state, why, since>>

-----------------------------------------------------------------------------
(* duino_master_state_loop: the turn of a client *)

Turn(c) == /\ InTime
           /\ c \in todo /\ \A d \in todo : c <= d
           /\ todo' = todo \ {c}
           /\ UNCHANGED <<tick, dog, g_start_min>>

\* set_client_connect_timeout
OpenMinute(c, add) ==
  LET min == g_start_min + IF add < 0 THEN c ELSE add
  IN  IF min >= Hour THEN min - Hour ELSE min

Waits(c, minute, cause) == /\ wait' = [wait EXCEPT ![c] = minute]
                           /\ state' = [state EXCEPT ![c] = "CONNECT"]
                           /\ why' = [why EXCEPT ![c] = cause]
                           /\ since' = [since EXCEPT ![c] = 0]

\* Mutant of MayOpen: a client without a minute does not open.
MayOpenAtMinute(c) == state[c] = "CONNECT" /\ wait[c] = g_start_min
MayOpen(c) == state[c] = "CONNECT" /\ wait[c] \in {g_start_min, -1}

NotYet(c) == /\ Turn(c) /\ state[c] = "CONNECT" /\ ~MayOpen(c)
             /\ UNCHANGED <<wait, state, why, since>>

\* tcp_connect succeeds: init_client_open_timeout
Opens(c) == /\ Turn(c) /\ MayOpen(c)
            /\ wait' = [wait EXCEPT ![c] = -1] /\ state' = [state EXCEPT ![c] = "away"]
            /\ since' = [since EXCEPT ![c] = 0] /\ UNCHANGED why

\* tcp_connect fails: in two minutes again
ConnectFails(c) == Turn(c) /\ MayOpen(c) /\ Waits(c, OpenMinute(c, 2), "connect failed")

\* tcp_new fails: the minute stays, and may be over at the next turn.
NoPcb(c) == Turn(c) /\ MayOpen(c) /\ Waits(c, wait[c], "no pcb")

\* A client that is not in CONNECT: nothing that matters here; a time-out, a
\* failed tcp_write or a wrong result, in a minute again; a connection that is
\* found closed or was aborted, at once.
GoesOn(c) == Turn(c) /\ state[c] = "away" /\ UNCHANGED <<wait, state, why, since>>
Fails(c)  == Turn(c) /\ state[c] = "away" /\ Waits(c, OpenMinute(c, 1), "failed")
Closed(c) == Turn(c) /\ state[c] = "away" /\ Waits(c, wait[c], "closed")

ClientTurn(c) == \/ NotYet(c) \/ Opens(c) \/ ConnectFails(c) \/ NoPcb(c)
                 \/ GoesOn(c) \/ Fails(c) \/ Closed(c)

ScheduleNext == Tick \/ Reboot \/ Clock \/ \E c \in Clients : ClientTurn(c)
ScheduleSpec == ScheduleInit /\ [][ScheduleNext]_scheduleVars

-----------------------------------------------------------------------------
(* What the schedule promises *)

\* The minutes between the start of a wait and its end, as far as its cause goes:
\* the first clients of all start at minute 0 and the clock at minute 1.
Minutes(c) ==
  CASE why[c] = "start"          -> ((c \div 2) - 1) % Hour
    [] why[c] = "reboot"         -> (c \div 2) + 2
    [] why[c] = "connect failed" -> 2
    [] why[c] = "failed"         -> 1
    [] why[c] = "closed"         -> 0
    [] why[c] = "no pcb"         -> Hour

\* No client waits longer in CONNECT than its cause is worth, but for the pass that
\* reads the minute and the pass that acts on it; only tcp_new's failure can cost
\* an hour (set_client_connect_timeout, duino_set_start_time and the comparison of
\* wait_open_time with g_start_min, under the watchdog's bound on a pass).
TurnComes == \A c \in Clients : state[c] = "CONNECT" => since[c] <= Minutes(c) * Minute + 2 * Dog
=============================================================================
