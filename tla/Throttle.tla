------------------------------ MODULE Throttle ------------------------------
(***************************************************************************)
(* The traffic throttle shared by every connection of a direction:         *)
(* network_throttle of src/p2p/network_throttle-detail.cpp, one instance   *)
(* of which is the global throttle_out and another throttle_in, and the    *)
(* threads that wait for it: connection_basic::sleep_before_packet on the  *)
(* way out (ask until no delay is left, then count the packet) and         *)
(* connection::handle_read on the way in (count the packet, then ask until *)
(* no delay is left).                                                      *)
(*                                                                         *)
(* The clock runs in ticks, Ticks to a slot of the history (a second in    *)
(* the code).  Only what the throttle can tell apart is kept of the times: *)
(* how far the clock is in its slot, how many slots have begun since       *)
(* m_last_sample_time, and the time passed since m_start_time up to the    *)
(* length of the history.  The factors 700 and 1024 by which a packet is   *)
(* multiplied when it is counted are the constants OutFactor and InFactor. *)
(***************************************************************************)
EXTENDS Integers, Sequences, FiniteSets, SequencesExt, FiniteSetsExt

CONSTANTS Senders,     \* connections that write
          Readers,     \* connections that read
          Slots,       \* m_window_size
          Ticks,       \* clock ticks to a slot
          Sizes,       \* packet sizes
          OutFactor,   \* what a byte sent counts for
          InFactor,    \* what a byte received counts for
          AddCost,     \* m_network_add_cost
          MinSegment,  \* m_network_minimal_segment
          MaxSegment,  \* m_network_max_segment
          Limits,      \* rate limits an operator sets
          MaxPackets,  \* bound: packets in a behaviour
          MaxLimits    \* bound: changes of the limit

VARIABLES m_history,         \* traffic of the slots, the current one first
          m_any_packet_yet,
          m_target_speed,    \* per slot
          phase,             \* ticks since the clock's slot began
          lag,               \* slots begun since m_last_sample_time
          sampled,           \* phase at m_last_sample_time
          passed,            \* ticks since m_start_time, at most Slots * Ticks
          thread,            \* thread[c]: what the connection's thread does
          packets, limits,   \* packets begun and limits set so far
          truth              \* traffic of the last Slots slots of the clock

throttle == <<m_history, m_any_packet_yet, sampled, lag, passed>>
vars == <<throttle, m_target_speed, phase, thread, packets, limits, truth>>

Conns == Senders \cup Readers
Lower(a, b) == IF a < b THEN a ELSE b
Higher(a, b) == IF a > b THEN a ELSE b
Total(h) == FoldLeft(LAMBDA a, b: a + b, 0, h)
Empty == [i \in 1..Slots |-> 0]
Rotate(h) == <<0>> \o SubSeq(h, 1, Slots - 1)

(***************************************************************************)
(* tick: the history moves by one for every slot begun since the last      *)
(* sample, and by one on the very first call, when it is all zeroes.       *)
(***************************************************************************)
\* Variant: the history moves by one slot however many have begun.
Moved_once(h, n) ==
  IF n = 0 THEN h ELSE Rotate(h)
\* The history after n turns of tick's loop.
Moved(h, n) ==
  [i \in 1..Slots |-> IF i <= n THEN 0 ELSE h[i - n]]

\* The effect of tick() on what it assigns.
tick ==
  /\ m_any_packet_yet' = TRUE
  /\ sampled' = phase
  /\ lag' = 0
  /\ passed' = IF m_any_packet_yet THEN passed ELSE 0

-----------------------------------------------------------------------------
(***************************************************************************)
(* calculate_times                                                         *)
(***************************************************************************)
\* the_window_size, in slots.
WindowSize(force_window) ==
  Higher(Slots, IF force_window > 0 THEN force_window ELSE Slots)

\* cts.window, in ticks, frac being the part of the sample's slot.
Window(force_window, frac, since) ==
  Higher(Lower((WindowSize(force_window) - 1) * Ticks + frac, since), Ticks)

\* Epast: all the traffic of the history.
Past(h) == Total(h)

\* cts.delay is ((Epast + packet_size/5) - M*window) / M; this is its numerator
\* in fifths of a byte and ticks of a slot.
Excess(past, packet_size, window) ==
  Ticks * (5 * past + packet_size) - 5 * m_target_speed * window

\* delay > 0.  With no traffic in the history nobody waits.  A target of zero
\* divides by zero: some traffic gives an infinite delay, none a NaN, which is
\* not greater than zero.
MustWait(past, packet_size, window) ==
  past > 0 /\ Excess(past, packet_size, window) > 0

\* The ticks that the thread sleeps, rounded down: half of the delay, further
\* divided by ten in handle_read, which takes the seconds for hundreds of
\* milliseconds.  An infinite delay becomes a sleep of no length.
SleepTicks(c, past, packet_size, window) ==
  IF m_target_speed = 0 THEN 0
  ELSE Excess(past, packet_size, window)
         \div (m_target_speed * IF c \in Senders THEN 10 ELSE 100)

\* get_recommended_size_of_planned_transport_window: it does not tick.
Planned(force_window) ==
  IF ~m_any_packet_yet THEN Lower(MinSegment + AddCost, MaxSegment)
  ELSE Lower(Higher((m_target_speed * Window(force_window, sampled, passed)) \div Ticks
                      - Total(m_history) + AddCost, 0), MaxSegment)

\* get_recommended_size_of_planned_transport: the weighted mean of three windows
\* and of the least of them.
get_recommended_size_of_planned_transport ==
  LET R1 == Planned(-1)
      R2 == Planned(Slots \div 2)
      R3 == Planned(5)
  IN (R1 * 20 + R2 * 10 + R3 * 10 + Lower(R1, Lower(R2, R3)) * 10) \div 50

-----------------------------------------------------------------------------
(***************************************************************************)
(* The threads.  "ask" is the loop head, "sleep" a sleep with left ticks   *)
(* to go, "count" the second locked region of sleep_before_packet.         *)
(***************************************************************************)
\* set_rate_up_limit scales by 2.1 and truncates; set_rate_down_limit does not
\* scale.
Target(l) == IF Senders # {} THEN (l * 21) \div 10 ELSE l

Idle == [pc |-> "idle", size |-> 0, left |-> 0]

Init ==
  /\ m_history = Empty /\ m_any_packet_yet = FALSE
  /\ m_target_speed \in {Target(l): l \in Limits}
  /\ phase \in 0..(Ticks - 1)
  /\ lag = 0 /\ sampled = 0 /\ passed = 0
  /\ thread = [c \in Conns |-> Idle]
  /\ packets = 0 /\ limits = 0
  /\ truth = Empty

\* The clock.  Sleeping threads get nearer to their wake-up.
Tick ==
  LET slot == phase = Ticks - 1 IN
  /\ phase' = IF slot THEN 0 ELSE phase + 1
  /\ lag' = IF slot /\ m_any_packet_yet THEN Lower(lag + 1, Slots) ELSE lag
  /\ passed' = IF m_any_packet_yet THEN Lower(passed + 1, Slots * Ticks) ELSE 0
  /\ truth' = IF slot THEN Rotate(truth) ELSE truth
  /\ thread' = [c \in Conns |-> [thread[c] EXCEPT !.left = Higher(@ - 1, 0)]]
  /\ UNCHANGED <<m_history, m_any_packet_yet, sampled, m_target_speed, packets, limits>>

\* handle_trafic_exact: tick, and the current slot takes the packet.
handle_trafic_exact(size) ==
  /\ tick
  /\ m_history' = [Moved(m_history, lag) EXCEPT ![1] = @ + size]
  /\ truth' = [truth EXCEPT ![1] = @ + size]

\* A connection is to send a packet: sleep_before_packet is entered.
Send(c, size) ==
  /\ c \in Senders /\ thread[c].pc = "idle" /\ packets < MaxPackets
  /\ packets' = packets + 1
  /\ thread' = [thread EXCEPT ![c] = [pc |-> "ask", size |-> size, left |-> 0]]
  /\ UNCHANGED <<throttle, m_target_speed, phase, limits, truth>>

\* handle_read is called with a packet: it counts it first.
handle_read(c, size) ==
  /\ c \in Readers /\ thread[c].pc = "idle" /\ packets < MaxPackets
  /\ packets' = packets + 1
  /\ handle_trafic_exact(size * InFactor)
  /\ thread' = [thread EXCEPT ![c] = [pc |-> "ask", size |-> size, left |-> 0]]
  /\ UNCHANGED <<m_target_speed, phase, limits>>

\* One turn of the loop: get_sleep_time_after_tick under the lock, then the
\* sleep, if any, before the next turn.
Ask(c) ==
  LET past == Past(Moved(m_history, lag))
      since == IF m_any_packet_yet THEN passed ELSE 0
      window == Window(Slots, phase, since)
  IN /\ thread[c].pc = "ask" /\ thread[c].left = 0
     /\ tick
     /\ m_history' = Moved(m_history, lag)
     /\ IF MustWait(past, thread[c].size, window)
        THEN thread' = [thread EXCEPT ![c].left =
                          SleepTicks(c, past, thread[c].size, window)]
        ELSE thread' = [thread EXCEPT ![c].pc = IF c \in Senders THEN "count" ELSE "idle"]
     /\ UNCHANGED <<m_target_speed, phase, packets, limits, truth>>

\* The packet is counted, in a locked region of its own, and goes out.
Count(c) ==
  /\ thread[c].pc = "count"
  /\ handle_trafic_exact(thread[c].size * OutFactor)
  /\ thread' = [thread EXCEPT ![c] = Idle]
  /\ UNCHANGED <<m_target_speed, phase, packets, limits>>

\* The sender's connection was shut down: the loop head gives up, nothing counted.
Abort(c) ==
  /\ c \in Senders /\ thread[c].pc = "ask" /\ thread[c].left = 0
  /\ thread' = [thread EXCEPT ![c] = Idle]
  /\ UNCHANGED <<throttle, m_target_speed, phase, packets, limits, truth>>

\* An operator sets another limit while threads wait.
SetRate(l) ==
  /\ limits < MaxLimits /\ limits' = limits + 1
  /\ m_target_speed' = Target(l)
  /\ UNCHANGED <<throttle, phase, thread, packets, truth>>

Step(c) == Ask(c) \/ Count(c)

Next ==
  \/ Tick
  \/ \E c \in Conns, s \in Sizes: Send(c, s) \/ handle_read(c, s)
  \/ \E c \in Conns: Step(c) \/ Abort(c)
  \/ \E l \in Limits: SetRate(l)

\* The clock advances and a runnable thread gets to run.
Spec == Init /\ [][Next]_vars /\ WF_vars(Tick) /\ \A c \in Conns: WF_vars(Step(c))

-----------------------------------------------------------------------------
\* tick keeps the history in step with the clock: whenever it is consulted it
\* holds the traffic of exactly the last Slots slots, also when nobody asked
\* for longer than a slot or than the whole window.
HistoryExact == Moved(m_history, lag) = truth

\* What the limit allows in the time since the start, a slot at least and the
\* whole history at most, with the slack of the part of a slot that the window
\* loses when a new slot begins.
Allowed ==
  (m_target_speed * (Higher(passed, Ticks) + Ticks - 1)) \div Ticks

\* sleep_before_packet asks and counts in two locked regions, so that several
\* senders may pass on the same history; the traffic of the window exceeds what
\* the limit allows by at most one packet of each of them, also in the first
\* seconds, when the window is still short.
OvershootBounded ==
  Total(truth) <= Allowed + Cardinality(Senders) * OutFactor * Max(Sizes)

\* The recommended size of the next transport, computed from a history that
\* get_recommended_size_of_planned_transport does not bring up to date, never
\* exceeds what is left of the limit by more than a slot's worth.
PlannedFits ==
  get_recommended_size_of_planned_transport
    <= Higher(Allowed - Total(truth), 0) + AddCost + MinSegment

=============================================================================
