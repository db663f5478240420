------------------------- MODULE StallWatchdogProofs -------------------------
(***************************************************************************)
(* Proofs about the write watchdog, for any set of thresholds, any latency *)
(* of the handlers and any length of the queue: a hanging write is found   *)
(* in time, and no session is closed without a stall.                      *)
(***************************************************************************)
EXTENDS StallWatchdog, WellFoundedInduction, TLAPS

\* Types, as far as the arithmetic of the times needs them.
WatchTypes ==
  /\ now \in Times /\ since \in Nat /\ m_lastProgressMs \in Nat
  /\ since <= now /\ m_lastProgressMs <= now
  /\ m_pending \in Nat
  /\ m_thresholdMs \in Thresholds /\ m_getThreshold \in Thresholds
  /\ deadline \in Nat \cup {None}
  /\ probeNow \in Nat \cup {None} /\ probeNow <= now
  /\ kick \in {"none", "due"}

\* Who has the token: nobody, the DoWrite that is due, or the write.
TokenState ==
  /\ m_pending > 0 => m_writing
  /\ m_writing => inFlight \/ kick = "due"
  /\ inFlight => m_writing /\ kick = "none"

\* The clock of a write starts when the write does.
ProgressMark == inFlight => m_lastProgressMs = since

\* While the session is open the timer is armed or being armed, it never
\* sleeps longer than the largest effective threshold, and its handler is not
\* later than Latency.
TimerArmed ==
  ~m_closed =>
    /\ m_timerActive
    /\ ~onTimer =>
         /\ deadline # None
         /\ deadline <= now + LargestEffective
         /\ now <= deadline + Latency

\* The timer wakes up before the stall of the write in progress is due; the
\* one that is being armed has just seen that it is not.
WakesInTime ==
  inFlight /\ ~m_closed =>
    IF onTimer THEN now - since < LargestEffective
               ELSE deadline <= since + LargestEffective

IInv == WatchTypes /\ TokenState /\ ProgressMark /\ TimerArmed /\ WakesInTime

-----------------------------------------------------------------------------
(* Arithmetic.                                                             *)

\* A nonempty bounded set of naturals has a greatest element: the numbers
\* that are missing to the bound have a least one.
LEMMA GreatestElement ==
  ASSUME NEW N \in Nat, NEW S, S \subseteq 0..N, S # {}
  PROVE  \E m \in S : \A k \in S : k <= m
<1> DEFINE T == {N - x : x \in S}
<1>1. T \subseteq Nat /\ T # {}
  <2>1. \A x \in S : N - x \in Nat
    OBVIOUS
  <2> QED BY <2>1
<1> DEFINE R == OpToRel(<, Nat)
<1>2. IsWellFoundedOn(R, Nat)
  BY NatLessThanWellFounded
<1>3. \A x, y \in Nat : x < y => <<x, y>> \in R
  BY DEF OpToRel
<1> HIDE DEF R, T
<1>4. PICK m \in T : \A k \in T : <<k, m>> \notin R
  BY <1>1, <1>2, WFMin
<1>5. PICK x \in S : m = N - x
  BY DEF T
<1>6. ASSUME NEW k \in S PROVE k <= x
  <2> SUFFICES ASSUME k > x PROVE FALSE
    OBVIOUS
  <2>1. N - k \in T
    BY DEF T
  <2>2. N - k < m
    BY <1>5
  <2> QED BY <1>1, <1>3, <1>4, <2>1, <2>2
<1> QED BY <1>6

\* The effective threshold of a threshold is positive and at most Word, since
\* it exceeds the threshold only where that is zero.
LEMMA EffectiveBounds ==
  ASSUME NEW t \in Thresholds
  PROVE  EffectiveThresholdMs(t) \in 1..Word
<1> DEFINE d == t \div 10
<1>1. t \in 0..(Word - 1) /\ GraceCap \in Nat /\ Word \in Nat /\ Word >= 1
  BY WatchdogAssumption
<1>2. d \in Nat
  BY <1>1
<1> HIDE DEF d
<1> DEFINE g == IF GraceCap < d THEN GraceCap ELSE d
<1>3. g \in Nat
  BY <1>1, <1>2
<1>4. EffectiveThresholdMs(t) = IF t > g THEN t - g ELSE 1
  BY DEF EffectiveThresholdMs, d
<1> HIDE DEF g
<1> QED BY <1>1, <1>3, <1>4

\* LargestEffective bounds every effective threshold.
LEMMA LargestBounds ==
  /\ LargestEffective \in Nat
  /\ \A t \in Thresholds : EffectiveThresholdMs(t) \in Nat \ {0}
                            /\ EffectiveThresholdMs(t) <= LargestEffective
<1> DEFINE E == {EffectiveThresholdMs(t) : t \in Thresholds}
<1>1. E \subseteq 0..Word /\ E # {} /\ Word \in Nat
  <2>1. ASSUME NEW t \in Thresholds PROVE EffectiveThresholdMs(t) \in 0..Word
    <3>1. EffectiveThresholdMs(t) \in 1..Word
      BY EffectiveBounds
    <3> QED BY <3>1
  <2> QED BY <2>1, WatchdogAssumption
<1>2. \E e \in E : \A k \in E : k <= e
  BY <1>1, GreatestElement
<1>3. \E e \in E : \A t \in Thresholds : EffectiveThresholdMs(t) <= e
  BY <1>2
<1>4. /\ LargestEffective \in E
      /\ \A t \in Thresholds : EffectiveThresholdMs(t) <= LargestEffective
  BY <1>3 DEF LargestEffective
<1>5. LargestEffective \in 0..Word
  BY <1>1, <1>4
<1> QED BY <1>1, <1>4, <1>5, EffectiveBounds

\* The unsigned subtraction is the plain one as long as it is not negative.
LEMMA ElapsedIsDifference ==
  ASSUME NEW t \in Times, NEW last \in Nat, last <= t
  PROVE  (t - last) % Word = t - last
<1>1. t - last \in 0..(Word - 1) /\ Word \in Nat
  BY WatchdogAssumption DEF Times
<1> QED BY <1>1

-----------------------------------------------------------------------------
(* The invariant.                                                          *)

\* The session starts idle, with the timer armed for one window.
LEMMA InvInit == Init => IInv
<1> SUFFICES ASSUME Init PROVE IInv
  OBVIOUS
<1>1. TEff \in Nat /\ TEff <= LargestEffective /\ LargestEffective \in Nat
  BY LargestBounds DEF Init, TEff
<1>2. WatchTypes
  BY <1>1, WatchdogAssumption DEF Init, WatchTypes, Times, None
<1>3. TokenState /\ ProgressMark /\ WakesInTime
  BY DEF Init, TokenState, ProgressMark, WakesInTime
<1>4. TimerArmed
  BY <1>1, WatchdogAssumption DEF Init, TimerArmed, None
<1> QED BY <1>2, <1>3, <1>4 DEF IInv

\* Every step keeps the invariant.
LEMMA InvNext == IInv /\ [Next]_vars => IInv'
<1> SUFFICES ASSUME IInv, [Next]_vars PROVE IInv'
  OBVIOUS
<1> DEFINE L == LargestEffective
<1>0. TEff \in Nat \ {0} /\ TEff <= L /\ L \in Nat
  BY LargestBounds DEF IInv, WatchTypes, TEff
<1>00. MaxTime \in Nat /\ Latency \in Nat
  BY WatchdogAssumption
<1> USE <1>0, <1>00 DEF IInv, WatchTypes, TokenState, ProgressMark, TimerArmed,
        WakesInTime, Times, None, queue, watch, session, probe
<1> HIDE DEF L
<1>1. CASE Enqueue
  BY <1>1 DEF Enqueue, L
<1>2. ASSUME DoWrite \/ OnWrite PROVE IInv'
  BY <1>2 DEF DoWrite, OnWrite, TakeNext, L
<1>3. CASE ForceClose
  BY <1>3 DEF ForceClose, L
<1>4. CASE OnTimerStall
  BY <1>4 DEF OnTimerStall, L
<1>5. CASE OnTimerPass
  <2>1. Busy => now - m_lastProgressMs < TEff
    BY <1>5, ElapsedIsDifference DEF OnTimerPass, Stalled, Elapsed
  <2> QED BY <1>5, <2>1 DEF OnTimerPass, Busy, L
<1>6. CASE ArmTimer
  BY <1>6, ElapsedIsDifference DEF ArmTimer, Busy, L
<1>7. CASE SetThreshold
  BY <1>7 DEF SetThreshold, L
<1>8. CASE ProbeClock
  BY <1>8 DEF ProbeClock, L
<1>9. CASE ProbeStalled
  BY <1>9 DEF ProbeStalled, L
<1>10. CASE Tick
  BY <1>10 DEF Tick, L
<1>11. CASE UNCHANGED vars
  BY <1>11 DEF vars, L
<1> QED
  BY <1>1, <1>2, <1>3, <1>4, <1>5, <1>6, <1>7, <1>8, <1>9, <1>10, <1>11
  DEF Next, Finished

\* AC-01: a hanging write closes the session within the largest effective
\* threshold and the latency of the handlers.
THEOREM HangsAreDetected == Spec => []DetectedInTime
<1>1. IInv => DetectedInTime
  <2> SUFFICES ASSUME IInv, inFlight, ~m_closed
               PROVE  now - since <= LargestEffective + Latency
    BY DEF DetectedInTime
  <2>1. LargestEffective \in Nat /\ Latency \in Nat
    BY LargestBounds, WatchdogAssumption
  <2> QED BY <2>1 DEF IInv, WatchTypes, TimerArmed, WakesInTime, Times, None
<1> QED BY InvInit, InvNext, <1>1, PTL DEF Spec

\* No session is closed as stalled, nor shown as stalled by the probe, unless
\* something has hung, or in one of the two races that NoHastyVerdict names.
THEOREM VerdictsAreDue == Spec => NoHastyVerdict
<1> DEFINE Due ==
      /\ OnTimerStall =>
           \/ inFlight /\ now - since >= TEff
           \/ kick = "due"
      /\ ProbeStalled /\ stalled' =>
           \/ Busy /\ now - m_lastProgressMs >= TEff
           \/ m_lastProgressMs > probeNow
<1>1. IInv /\ [Next]_vars => [Due]_vars
  <2> SUFFICES ASSUME IInv PROVE Due
    OBVIOUS
  <2> USE DEF IInv, WatchTypes
  <2>1. TEff \in Nat
    BY LargestBounds DEF TEff
  <2>2. ASSUME OnTimerStall
        PROVE  (inFlight /\ now - since >= TEff) \/ kick = "due"
    <3>1. Busy /\ now - m_lastProgressMs >= TEff
      BY <2>2, ElapsedIsDifference DEF OnTimerStall, Stalled, Elapsed
    <3>2. inFlight \/ kick = "due"
      BY <3>1 DEF Busy, TokenState
    <3> QED BY <3>1, <3>2 DEF ProgressMark
  <2>3. ASSUME ProbeStalled, stalled', ~(m_lastProgressMs > probeNow)
        PROVE  Busy /\ now - m_lastProgressMs >= TEff
    <3>1. probeNow \in Times /\ m_lastProgressMs <= probeNow
      <4>1. probeNow \in Nat
        BY <2>3 DEF ProbeStalled, None
      <4> QED BY <2>3, <4>1, WatchdogAssumption DEF Times
    <3>2. Busy /\ Elapsed(probeNow) >= TEff
      BY <2>3 DEF ProbeStalled, Stalled
    <3>3. probeNow - m_lastProgressMs >= TEff
      BY <3>1, <3>2, ElapsedIsDifference DEF Elapsed
    <3> QED BY <2>1, <3>1, <3>2, <3>3 DEF Times
  <2> QED BY <2>2, <2>3
<1> QED BY InvInit, InvNext, <1>1, PTL DEF Spec, NoHastyVerdict
=============================================================================
