--------------------------- MODULE StallWatchdog ---------------------------
(***************************************************************************)
(* The write watchdog of a session: Stalled, Start, ArmTimer, OnTimer and  *)
(* the places that move m_lastProgressMs, in class WriteQueue, with a      *)
(* clock.  It has to close a session whose peer no longer reads within the *)
(* configured time, and to leave idle and slow sessions alone.             *)
(*                                                                         *)
(* The capture thread enqueues; the session's strand runs DoWrite, OnWrite *)
(* and OnTimer one at a time; the probe asks Stalled from another thread.  *)
(* Stalled, the refresh of the threshold and ArmTimer read the shared      *)
(* atomics separately, so OnTimer takes two steps.  A handler that is due  *)
(* runs within Latency.  The queue is reduced to its length, the session   *)
(* to its close gate; one tick of the clock stands for any unit of time.   *)
(***************************************************************************)
EXTENDS Integers

CONSTANTS
  Thresholds,    \* values the threshold switch takes; {30000} by default
  GraceCap,      \* the 1000 ms of EffectiveThresholdMs
  Word,          \* 2^64: the times are unsigned, and so are the thresholds
  Latency,       \* how long a due handler may wait for its strand
  MaxPending,    \* bound of the model: queued frames
  MaxTime        \* bound of the model: the clock

ASSUME WatchdogAssumption ==
  /\ Thresholds \subseteq 0..(Word - 1) /\ Thresholds # {}
  /\ GraceCap \in Nat /\ Latency \in Nat
  /\ MaxPending \in Nat /\ MaxTime \in Nat
  /\ Word \in Nat /\ MaxTime < Word

VARIABLES
  now,               \* WqNowMs()
  m_writing, m_pending, m_lastProgressMs, m_thresholdMs, m_timerActive,
  m_getThreshold,    \* the switch stall_threshold_ms
  deadline,          \* expiry of m_timer, or None
  onTimer,           \* is OnTimer between Stalled and ArmTimer?
  kick,              \* the DoWrite a token taker owes: none, due
  inFlight,          \* is an async_write in progress?
  m_closed,
  m_writeStalls,     \* the server's count of verdicts
  probeNow,          \* the clock reading of a FillProbe in progress, or None
  stalled,           \* what the last FillProbe reported
  since              \* history: when the async_write, or the kick, began

vars == <<now, m_writing, m_pending, m_lastProgressMs, m_thresholdMs,
          m_timerActive, m_getThreshold, deadline, onTimer, kick, inFlight,
          m_closed, m_writeStalls, probeNow, stalled, since>>

queue == <<m_writing, m_pending, kick, inFlight, since>>
watch == <<m_lastProgressMs, m_thresholdMs, m_timerActive, deadline, onTimer>>
session == <<m_closed, m_writeStalls>>
probe == <<probeNow, stalled>>

None == -1
Times == 0..MaxTime

\* T - min(GraceCap, T/10), and never 0.
EffectiveThresholdMs(t) ==
  LET g == IF GraceCap < t \div 10 THEN GraceCap ELSE t \div 10
  IN  IF t > g THEN t - g ELSE 1

TEff == EffectiveThresholdMs(m_thresholdMs)

\* (Operators whose names end in _Bad are faulty variants of the operator that
\* follows them, used only to show that a property notices the fault.)

\* Overlooks the frame that is being written.
Busy_Bad == m_pending > 0

\* The two atomics say that there is something to write.
Busy == m_writing \/ m_pending > 0

\* now - lastProgress, as the unsigned subtraction computes it.
Elapsed(t) == (t - m_lastProgressMs) % Word

Stalled(t) == Busy /\ Elapsed(t) >= TEff

\* Start: ArmTimer runs on an idle session.
Init ==
  /\ now = 0
  /\ m_writing = FALSE
  /\ m_pending = 0
  /\ m_lastProgressMs = 0
  /\ m_thresholdMs \in Thresholds
  /\ m_getThreshold = m_thresholdMs
  /\ m_timerActive = TRUE
  /\ deadline = TEff
  /\ onTimer = FALSE
  /\ kick = "none"
  /\ inFlight = FALSE
  /\ m_closed = FALSE
  /\ m_writeStalls = 0
  /\ probeNow = None
  /\ stalled = FALSE
  /\ since = 0

-----------------------------------------------------------------------------
(* The queue.                                                              *)

\* EnqueueLocked by the capture thread; m_lastProgressMs does not move.
Enqueue ==
  /\ ~m_closed
  /\ m_pending < MaxPending
  /\ m_pending' = m_pending + 1
  /\ m_writing' = TRUE
  /\ IF m_writing THEN UNCHANGED <<kick, since>>
                  ELSE kick' = "due" /\ since' = now
  /\ UNCHANGED <<now, inFlight, watch, m_getThreshold, session, probe>>

\* Does not note that the frame was taken.
TakeNext_Bad(progress) ==
  IF m_pending = 0
  THEN /\ m_writing' = FALSE
       /\ inFlight' = FALSE
       /\ m_lastProgressMs' = progress
       /\ UNCHANGED <<m_pending, since>>
  ELSE /\ m_pending' = m_pending - 1
       /\ inFlight' = TRUE
       /\ since' = now
       /\ m_lastProgressMs' = m_lastProgressMs
       /\ UNCHANGED m_writing

\* TakeNextLocked and BeginWrite; "progress" is what m_lastProgressMs holds if
\* there is nothing to take.
TakeNext(progress) ==
  IF m_pending = 0
  THEN /\ m_writing' = FALSE
       /\ inFlight' = FALSE
       /\ m_lastProgressMs' = progress
       /\ UNCHANGED <<m_pending, since>>
  ELSE /\ m_pending' = m_pending - 1
       /\ inFlight' = TRUE
       /\ since' = now
       /\ m_lastProgressMs' = now
       /\ UNCHANGED m_writing

\* The dispatched DoWrite runs on the strand.
DoWrite ==
  /\ kick = "due"
  /\ ~onTimer
  /\ ~m_closed
  /\ kick' = "none"
  /\ TakeNext(m_lastProgressMs)
  /\ UNCHANGED <<now, m_thresholdMs, m_timerActive, deadline, onTimer,
                 m_getThreshold, session, probe>>

\* The write succeeded: OnProgressLocked and TakeNextLocked.
OnWrite ==
  /\ inFlight
  /\ ~onTimer
  /\ ~m_closed
  /\ TakeNext(now)
  /\ UNCHANGED <<now, kick, m_thresholdMs, m_timerActive, deadline, onTimer,
                 m_getThreshold, session, probe>>

\* ForceClose for another reason; m_wq.Stop() cancels the timer.
ForceClose ==
  /\ ~m_closed
  /\ ~onTimer
  /\ m_closed' = TRUE
  /\ m_timerActive' = FALSE
  /\ deadline' = None
  /\ UNCHANGED <<now, queue, m_lastProgressMs, m_thresholdMs, onTimer,
                 m_getThreshold, m_writeStalls, probe>>

-----------------------------------------------------------------------------
(* The watchdog.                                                           *)

\* The timer expired and its handler runs.
Expired == m_timerActive /\ deadline # None /\ deadline <= now /\ ~onTimer

\* OnTimer with the verdict: m_onStall, that is ForceClose(write_stall).
OnTimerStall ==
  /\ Expired
  /\ Stalled(now)
  /\ m_timerActive' = FALSE
  /\ deadline' = None
  /\ m_closed' = TRUE
  /\ m_writeStalls' = m_writeStalls + 1
  /\ UNCHANGED <<now, queue, m_lastProgressMs, m_thresholdMs, onTimer,
                 m_getThreshold, probe>>

\* OnTimer without it, up to ArmTimer.
OnTimerPass ==
  /\ Expired
  /\ ~Stalled(now)
  /\ onTimer' = TRUE
  /\ deadline' = None
  /\ m_thresholdMs' = m_getThreshold
  /\ UNCHANGED <<now, queue, m_lastProgressMs, m_timerActive, m_getThreshold,
                 session, probe>>

\* ArmTimer: an idle session starts a new window; otherwise sleep until the
\* stall would be due, and at least one unit.
ArmTimer ==
  /\ onTimer
  /\ onTimer' = FALSE
  /\ LET last == IF Busy THEN m_lastProgressMs ELSE now
         idle == (now - last) % Word
     IN  /\ m_lastProgressMs' = last
         /\ deadline' = now + (IF idle >= TEff THEN 1 ELSE TEff - idle)
  /\ UNCHANGED <<now, queue, m_thresholdMs, m_timerActive, m_getThreshold,
                 session, probe>>

\* The switch is set; OnTimer will read it.
SetThreshold ==
  /\ m_getThreshold' \in Thresholds \ {m_getThreshold}
  /\ UNCHANGED <<now, queue, watch, session, probe>>

-----------------------------------------------------------------------------
(* FillProbe: the clock is read first, the atomics afterwards.             *)

ProbeClock ==
  /\ probeNow = None
  /\ probeNow' = now
  /\ UNCHANGED <<now, queue, watch, m_getThreshold, session, stalled>>

ProbeStalled ==
  /\ probeNow # None
  /\ stalled' = Stalled(probeNow)
  /\ probeNow' = None
  /\ UNCHANGED <<now, queue, watch, m_getThreshold, session>>

-----------------------------------------------------------------------------
\* Time passes, but not over a handler that is due for longer than Latency.
Tick ==
  /\ now < MaxTime
  /\ ~m_closed
  /\ ~onTimer
  /\ m_timerActive => now < deadline + Latency
  /\ kick = "due" => now < since + Latency
  /\ now' = now + 1
  /\ UNCHANGED <<queue, watch, m_getThreshold, session, probe>>

\* The end of the modelled time, or of the session.
Finished == (now = MaxTime \/ m_closed) /\ UNCHANGED vars

Next ==
  \/ Enqueue \/ DoWrite \/ OnWrite \/ ForceClose
  \/ OnTimerStall \/ OnTimerPass \/ ArmTimer \/ SetThreshold
  \/ ProbeClock \/ ProbeStalled
  \/ Tick \/ Finished

Spec == Init /\ [][Next]_vars

-----------------------------------------------------------------------------
(* Properties.                                                             *)

LargestEffective ==
  CHOOSE e \in {EffectiveThresholdMs(t) : t \in Thresholds} :
    \A t \in Thresholds : EffectiveThresholdMs(t) <= e

\* AC-01: a write that makes no progress closes the session within the
\* largest effective threshold and the delay of the handlers; it is never
\* overlooked because the timer was armed during an idle time, while the
\* queue was busy with other frames, or with another threshold.
DetectedInTime ==
  inFlight /\ ~m_closed => now - since <= LargestEffective + Latency

\* No verdict without a stall.  A session is closed as stalled because one
\* write has hung for the whole effective threshold, or because the token is
\* on its way to the strand and DoWrite has not run yet (then the frame may
\* have waited for no time at all, write_queue.h:331): a slow peer that
\* finishes each write in time is never closed, however long its backlog.
\* The probe errs only when progress falls between its reading of the clock
\* and of m_lastProgressMs (http_server.cpp:563).
NoHastyVerdict ==
  [][/\ OnTimerStall =>
          \/ inFlight /\ now - since >= TEff
          \/ kick = "due"
     /\ ProbeStalled /\ stalled' =>
          \/ Busy /\ now - m_lastProgressMs >= TEff
          \/ m_lastProgressMs > probeNow]_vars
=============================================================================
