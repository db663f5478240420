------------------------- MODULE CaptureThreadProofs -------------------------
(***************************************************************************)
(* Proofs about the capture thread, for any number of recovery attempts,   *)
(* any clock and any number of resets of the statistics window: what the   *)
(* probe shows of the device, the end of the thread, the idle time and the *)
(* distances of arrivals.                                                  *)
(***************************************************************************)
EXTENDS CaptureThread, TLAPS

\* The members of the device are consistent: one event at most, and figures
\* that are those of the client, if there is one.
DeviceTruth(d) ==
  /\ d.eventHandlesCreated = IF d.m_captureEvent THEN 1 ELSE 0
  /\ d.m_captureClient =>
       d.bufferHns = d.m_captureBufferHns /\ d.eventDriven = d.wired

\* The attempts are used up only where the thread ends.
AttemptsLeft ==
  pc \notin {"end", "ended"} => recoveryAttempts <= MAX_RECOVERY_ATTEMPTS

\* The published total is what the closed episodes and the running one make
\* up now, at most.
IdleBooks ==
  /\ idleStartUs <= now
  /\ idleActive => idleStreak > 0
  /\ totalIdleMs <= idleClosedMs + (IF idleActive THEN EpisodeMs ELSE 0)

\* How many more samples of an earlier window the sampling can let in.
Stale(w) == IF w = "before" THEN 1 ELSE 0

\* A wake is taken for as long as its round goes on.
Rounds ==
  /\ InRound => wake # "none"
  /\ main = "initialized" => thread = "none"
  /\ thread = "none" => lastWake = "none" /\ pc = "loop"
  /\ lastArrivalEpoch <= arrivalEpoch /\ epoch <= arrivalEpoch

\* As long as no round has overlapped the last reset, the round that goes on is
\* one of the new window, and a wake of an earlier window has an epoch of that
\* window as soon as the reset has raised the epoch.
Untorn ==
  ~torn =>
    /\ strays = 0
    /\ InRound => wake = "within" /\ resetting # "emptied"
    /\ InRound /\ pc = "add" => epoch = arrivalEpoch
    /\ lastWake = "before" /\ resetting # "emptied" =>
         lastArrivalEpoch < arrivalEpoch

EpochState ==
  /\ Rounds
  /\ Untorn
  /\ strays + Stale(lastWake) + Stale(wake) <= 2

IInv ==
  /\ TypeOK
  /\ DeviceTruth(dev)
  /\ AttemptsLeft
  /\ IdleBooks
  /\ EpochState

-----------------------------------------------------------------------------
(* The device.                                                             *)

\* What the (re)initialisation needs of the members it finds, and keeps; and
\* what it leaves when it fails.
Sound(d) == d \in Devices /\ DeviceTruth(d)
Unusable(d) == Sound(d) /\ d.m_captureClient = FALSE

\* A client is driven by its event, or polled, as the probe says.
Ready(d) == Unusable(d) /\ d.eventDriven = d.wired

\* Releasing the client leaves the rest as it was.
LEMMA ReleaseSound ==
  ASSUME NEW d, Sound(d)
  PROVE  /\ Unusable(ReleaseDeviceResources(d))
         /\ ReleaseDeviceResources(d).wired = FALSE
         /\ ReleaseDeviceResources(d).m_captureBufferHns = d.m_captureBufferHns
BY DEF Sound, Unusable, Devices, DeviceTruth, ReleaseDeviceResources

\* The event is created once.
LEMMA CreateEventSound ==
  ASSUME NEW d, Unusable(d)
  PROVE  Unusable(CreateEvent(d)) /\ CreateEvent(d).wired = d.wired
<1> DEFINE n == IF d.m_captureEvent THEN d.eventHandlesCreated
                                ELSE d.eventHandlesCreated + 1
<1>1. n = 1 /\ n \in Nat
  BY DEF Sound, Unusable, DeviceTruth
<1>2. CreateEvent(d) = [d EXCEPT !.m_captureEvent = TRUE, !.eventHandlesCreated = n]
  BY DEF CreateEvent
<1> HIDE DEF n
<1> DEFINE e == CreateEvent(d)
<1>3. e \in Devices
  BY <1>1, <1>2 DEF Sound, Unusable, Devices
<1>4. /\ e.m_captureEvent = TRUE /\ e.eventHandlesCreated = 1
      /\ e.m_captureClient = d.m_captureClient /\ e.wired = d.wired
  BY <1>1, <1>2 DEF Sound, Unusable, Devices
<1> HIDE DEF e
<1>5. DeviceTruth(e)
  BY <1>4 DEF Unusable, DeviceTruth
<1> QED BY <1>3, <1>4, <1>5 DEF Sound, Unusable, e

\* A client without an event is polled.
LEMMA PollingReady ==
  ASSUME NEW d, Unusable(d), d.wired = FALSE
  PROVE  Ready(Polling(d))
BY DEF Sound, Unusable, Ready, Devices, DeviceTruth, Polling

\* A client that is wired to its event is driven by it.
LEMMA WiredReady ==
  ASSUME NEW d, Unusable(d)
  PROVE  Ready([d EXCEPT !.wired = TRUE, !.eventDriven = TRUE])
BY DEF Sound, Unusable, Ready, Devices, DeviceTruth

\* The figures of a client that is ready are published, and it is handed out.
LEMMA MeasuredSound ==
  ASSUME NEW d, Ready(d)
  PROVE  /\ Unusable([d EXCEPT !.bufferHns = d.m_captureBufferHns])
         /\ Sound([[d EXCEPT !.bufferHns = d.m_captureBufferHns] EXCEPT !.m_captureClient = TRUE])
<1> DEFINE m == [d EXCEPT !.bufferHns = d.m_captureBufferHns]
<1>1. /\ Unusable(m) /\ m.eventDriven = m.wired
      /\ m.bufferHns = m.m_captureBufferHns
  BY DEF Sound, Unusable, Ready, Devices, DeviceTruth
<1> HIDE DEF m
<1>2. Sound([m EXCEPT !.m_captureClient = TRUE])
  BY <1>1 DEF Sound, Unusable, Devices, DeviceTruth
<1> QED BY <1>1, <1>2 DEF m

\* Another size of the buffer changes nothing else.
LEMMA SizedSound ==
  ASSUME NEW d, Unusable(d), NEW hns \in CaptureBuffersHns
  PROVE  /\ Unusable([d EXCEPT !.m_captureBufferHns = hns])
         /\ [d EXCEPT !.m_captureBufferHns = hns].wired = d.wired
BY DEF Sound, Unusable, Devices, DeviceTruth

\* ActivateClientAndInitialize hands out a client only with figures that are
\* true, and leaves none when it fails, whatever step failed.
LEMMA ActivatedSound ==
  ASSUME NEW d, Sound(d), NEW wantEvent \in BOOLEAN
  PROVE  /\ \A x \in Activated(d, wantEvent).ok : Sound(x)
         /\ \A x \in Activated(d, wantEvent).failed : Unusable(x)
<1> DEFINE released == ReleaseDeviceResources(d)
           initialized == {[released EXCEPT !.m_captureBufferHns = hns] :
                             hns \in {d.m_captureBufferHns} \cup LowerBuffersHns}
           eventless == {Polling(x) : x \in initialized}
           unwired == {Polling(CreateEvent(x)) : x \in initialized}
                        \cup {x \in eventless : ~x.m_captureEvent}
           wired == {[CreateEvent(x) EXCEPT !.wired = TRUE, !.eventDriven = TRUE] :
                       x \in initialized}
           ready == IF wantEvent THEN wired ELSE eventless
           measured == {[x EXCEPT !.bufferHns = x.m_captureBufferHns] : x \in ready}
<1>1. /\ Activated(d, wantEvent).ok = {[x EXCEPT !.m_captureClient = TRUE] : x \in measured}
      /\ Activated(d, wantEvent).failed =
           {released} \cup ready \cup measured \cup (IF wantEvent THEN unwired ELSE {})
  BY DEF Activated
<1>2. Unusable(released) /\ released.wired = FALSE
  BY ReleaseSound
<1>3. ASSUME NEW x \in initialized PROVE Unusable(x) /\ x.wired = FALSE
  <2>1. d.m_captureBufferHns \in CaptureBuffersHns
    BY DEF Sound, Devices
  <2>2. {d.m_captureBufferHns} \cup LowerBuffersHns \subseteq CaptureBuffersHns
    BY <2>1 DEF CaptureBuffersHns
  <2> HIDE DEF released
  <2> QED BY <1>2, <2>2, SizedSound
<1> HIDE DEF released, initialized
<1>4. ASSUME NEW x \in eventless PROVE Ready(x)
  BY <1>3, PollingReady
<1>5. ASSUME NEW x \in wired PROVE Ready(x)
  BY <1>3, CreateEventSound, WiredReady
<1>6. ASSUME NEW x \in unwired PROVE Unusable(x)
  <2>1. ASSUME NEW y \in initialized PROVE Ready(Polling(CreateEvent(y)))
    BY <1>3, CreateEventSound, PollingReady
  <2> HIDE DEF eventless
  <2> QED BY <1>4, <2>1 DEF Ready
<1> HIDE DEF eventless, wired, unwired
<1>7. ASSUME NEW x \in ready PROVE Ready(x)
  BY <1>4, <1>5
<1> HIDE DEF ready
<1>8. ASSUME NEW x \in measured
      PROVE  Unusable(x) /\ Sound([x EXCEPT !.m_captureClient = TRUE])
  BY <1>7, MeasuredSound
<1> HIDE DEF measured
<1> QED BY <1>1, <1>2, <1>6, <1>7, <1>8 DEF Ready

\* So does the attempt without the event that follows a failure.
LEMMA EventOrPollingSound ==
  ASSUME NEW d, Sound(d)
  PROVE  /\ \A x \in EventOrPolling(d).ok : Sound(x)
         /\ \A x \in EventOrPolling(d).failed : Unusable(x)
<1> DEFINE event == Activated(d, TRUE)
           polling == {Activated(x, FALSE) : x \in event.failed}
<1>1. /\ EventOrPolling(d).ok = event.ok \cup UNION {q.ok : q \in polling}
      /\ EventOrPolling(d).failed = UNION {q.failed : q \in polling}
  BY DEF EventOrPolling
<1>2. /\ \A x \in event.ok : Sound(x)
      /\ \A x \in event.failed : Unusable(x)
  BY ActivatedSound
<1> HIDE DEF event
<1>3. ASSUME NEW q \in polling
      PROVE  (\A x \in q.ok : Sound(x)) /\ (\A x \in q.failed : Unusable(x))
  <2>1. PICK y \in event.failed : q = Activated(y, FALSE)
    OBVIOUS
  <2>2. Sound(y)
    BY <1>2, <2>1 DEF Unusable
  <2> QED BY <2>1, <2>2, ActivatedSound
<1> HIDE DEF polling
<1> QED BY <1>1, <1>2, <1>3

-----------------------------------------------------------------------------
(* Milliseconds.                                                           *)

\* The idle time that runs only grows with the clock.
LEMMA MillisecondsGrow ==
  ASSUME NEW a \in Nat, NEW b \in Nat, a <= b
  PROVE  a \div UsPerMs \in Nat /\ a \div UsPerMs <= b \div UsPerMs
<1>1. UsPerMs \in Nat \ {0}
  BY CaptureAssumption
<1> QED BY <1>1

-----------------------------------------------------------------------------
(* The invariant.                                                          *)

\* What Initialize leaves.
LEMMA InvInit == Init => IInv
<1> SUFFICES ASSUME Init PROVE IInv
  OBVIOUS
<1>1. Sound(dev)
  <2>1. Sound(NoDevice)
    BY DEF Sound, NoDevice, Devices, DeviceTruth, CaptureBuffersHns
  <2> QED BY <2>1, EventOrPollingSound DEF Init
<1>2. TypeOK
  <2>1. /\ m_capturing \in BOOLEAN /\ eventPathWake \in BOOLEAN
        /\ gotFrames \in BOOLEAN /\ idleActive \in BOOLEAN
        /\ exitedIdle \in BOOLEAN /\ torn \in BOOLEAN
    BY Zenon DEF Init
  <2>2. /\ recoveryAttempts \in 0..(MAX_RECOVERY_ATTEMPTS + 1)
        /\ now \in 0..MaxTime /\ idleStartUs \in 0..MaxTime
        /\ idleStreak \in 0..KIdleConsecutiveNoData
    BY CaptureAssumption DEF Init
  <2> QED BY <1>1, <2>1, <2>2 DEF Init, TypeOK, Sound
<1>3. AttemptsLeft /\ EpochState
  BY CaptureAssumption
  DEF Init, AttemptsLeft, EpochState, Rounds, Untorn, InRound, Stale
<1>4. IdleBooks
  BY DEF Init, IdleBooks
<1> QED BY <1>1, <1>2, <1>3, <1>4 DEF IInv, Sound

\* Only a recovery changes the members of the device.
LEMMA DeviceStep == IInv /\ [Next]_vars => Sound(dev')
<1> SUFFICES ASSUME IInv, [Next]_vars PROVE Sound(dev')
  OBVIOUS
<1>1. Sound(dev)
  BY DEF IInv, TypeOK, Sound
<1>2. CASE Reinitialize
  <2> DEFINE released == ReleaseDeviceResources(dev)
             result == EventOrPolling(released)
  <2>1. dev' \in {released} \cup result.failed \cup result.ok
    BY <1>2 DEF Reinitialize
  <2>2. Sound(released)
    BY <1>1, ReleaseSound DEF Unusable
  <2> HIDE DEF released
  <2>3. (\A x \in result.ok : Sound(x)) /\ (\A x \in result.failed : Sound(x))
    BY <2>2, EventOrPollingSound DEF Unusable
  <2> HIDE DEF result
  <2> QED BY <2>1, <2>2, <2>3
<1>3. CASE ~Reinitialize
  <2>1. dev' = dev
    BY <1>3
    DEF Next, Main, Capture, ResetWindow, Over, Start, StopTest, StopStore,
        StopJoin, Destroy, Loop, Wait, NullCall, GetBuffer, ReleaseBuffer,
        Account, GetNextPacketSize, LoadEpoch, AddUs, TryRecovery, Backoff,
        End, EmptyHistograms, RaiseEpoch, ClearIdle, device, vars
  <2> QED BY <1>1, <2>1
<1> QED BY <1>2, <1>3

\* The milliseconds of an episode are a number.
LEMMA EpisodeIsTime == IInv => EpisodeMs \in Nat
<1> SUFFICES ASSUME IInv PROVE EpisodeMs \in Nat
  OBVIOUS
<1> DEFINE a == now - idleStartUs
<1>1. a \in Nat
  BY CaptureAssumption DEF IInv, TypeOK, IdleBooks
<1>2. EpisodeMs = a \div UsPerMs
  BY DEF EpisodeMs
<1> HIDE DEF a
<1> QED BY <1>1, <1>2, MillisecondsGrow

\* The distance to a later time is longer.
LEMMA DistanceGrows ==
  ASSUME NEW x \in Nat, NEW y \in Nat, NEW z \in Nat, x <= y, y <= z
  PROVE  y - x \in Nat /\ z - x \in Nat /\ y - x <= z - x
OBVIOUS

\* A bound stays a bound when a part of it grows.
LEMMA SumGrows ==
  ASSUME NEW x \in Nat, NEW y \in Nat, NEW z \in Nat, NEW w \in Nat,
         x <= y + z, z <= w
  PROVE  x <= y + w
OBVIOUS

\* Time that passes adds to the episode that runs.
LEMMA TimePasses ==
  IInv /\ now' \in Nat /\ now <= now' /\ UNCHANGED <<idle, currentIdleMs>> => IdleBooks'
<1> SUFFICES ASSUME IInv, now' \in Nat, now <= now', UNCHANGED <<idle, currentIdleMs>>
             PROVE  IdleBooks'
  OBVIOUS
<1> DEFINE a == now - idleStartUs
           b == now' - idleStartUs
<1>1. /\ now \in Nat /\ idleStartUs \in Nat /\ idleStartUs <= now
      /\ totalIdleMs \in Nat /\ idleClosedMs \in Nat
      /\ now' \in Nat /\ now <= now'
  BY CaptureAssumption DEF IInv, TypeOK, IdleBooks
<1>2. /\ idleStartUs' = idleStartUs /\ idleClosedMs' = idleClosedMs
      /\ totalIdleMs' = totalIdleMs /\ idleStreak' = idleStreak
  BY DEF idle
<1>3. idleActive' = idleActive
  BY Zenon DEF idle
<1>4. a \in Nat /\ b \in Nat /\ a <= b
  BY <1>1, DistanceGrows
<1>5. EpisodeMs = a \div UsPerMs /\ EpisodeMs' = b \div UsPerMs
  BY <1>2 DEF EpisodeMs
<1> HIDE DEF a, b
<1>6. EpisodeMs \in Nat /\ EpisodeMs' \in Nat /\ EpisodeMs <= EpisodeMs'
  BY <1>4, <1>5, MillisecondsGrow
<1>7. idleStartUs' <= now'
  BY <1>1, <1>2
<1>8. CASE idleActive
  <2>1. totalIdleMs <= idleClosedMs + EpisodeMs /\ idleStreak > 0
    BY <1>8 DEF IInv, IdleBooks
  <2>2. totalIdleMs' <= idleClosedMs' + EpisodeMs' /\ idleStreak' > 0
    <3>1. totalIdleMs <= idleClosedMs + EpisodeMs'
      BY <1>1, <1>6, <2>1, SumGrows
    <3> QED BY <1>2, <2>1, <3>1
  <2> QED BY <1>3, <1>7, <1>8, <2>2 DEF IdleBooks
<1>9. CASE ~idleActive
  <2>1. totalIdleMs <= idleClosedMs + 0
    BY <1>9 DEF IInv, IdleBooks
  <2>2. totalIdleMs' <= idleClosedMs' + 0
    BY <1>1, <1>2, <2>1
  <2> QED BY <1>3, <1>7, <1>9, <2>2 DEF IdleBooks
<1> QED BY <1>8, <1>9

\* After a wake, an active episode has begun.
LEMMA BookStreak ==
  IInv /\ Account =>
    /\ idleStreak' \in 0..KIdleConsecutiveNoData
    /\ idleActive' => idleStreak' > 0
<1> SUFFICES ASSUME IInv, Account
             PROVE  /\ idleStreak' \in 0..KIdleConsecutiveNoData
                    /\ idleActive' => idleStreak' > 0
  OBVIOUS
<1>0. /\ idleStreak \in 0..KIdleConsecutiveNoData
      /\ KIdleConsecutiveNoData \in Nat \ {0}
      /\ idleActive => idleStreak > 0
  BY CaptureAssumption DEF IInv, TypeOK, IdleBooks
<1>1. CASE gotFrames
  <2>1. idleStreak' = 0 /\ idleActive' = FALSE
    BY <1>1, Zenon DEF Account, BookData
  <2> QED BY <1>0, <2>1
<1>2. CASE ~gotFrames /\ ~eventPathWake
  <2>1. idleStreak' = idleStreak /\ idleActive' = idleActive
    BY <1>2, Zenon DEF Account, idle
  <2> QED BY <1>0, <2>1
<1>3. CASE ~gotFrames /\ eventPathWake
  <2>1. idleStreak' = IF idleStreak < KIdleConsecutiveNoData THEN idleStreak + 1
                                                             ELSE idleStreak
    BY <1>3, Zenon DEF Account, BookNoData
  <2>2. idleStreak' \in 0..KIdleConsecutiveNoData /\ idleStreak' > 0
    BY <1>0, <2>1
  <2> QED BY <2>2
<1> QED BY <1>1, <1>2, <1>3

\* After a wake, the published total is within the episodes there are, and it
\* has not decreased.
LEMMA BookTotal ==
  IInv /\ Account =>
    /\ currentIdleMs' \in Nat /\ totalIdleMs' \in Nat /\ idleClosedMs' \in Nat
    /\ totalIdleMs' <= idleClosedMs' + (IF idleActive' THEN EpisodeMs' ELSE 0)
    /\ totalIdleMs' >= totalIdleMs
<1> SUFFICES ASSUME IInv, Account
             PROVE  /\ currentIdleMs' \in Nat /\ totalIdleMs' \in Nat
                    /\ idleClosedMs' \in Nat
                    /\ totalIdleMs' <= idleClosedMs' + (IF idleActive' THEN EpisodeMs' ELSE 0)
                    /\ totalIdleMs' >= totalIdleMs
  OBVIOUS
<1>0. /\ currentIdleMs \in Nat /\ totalIdleMs \in Nat /\ idleClosedMs \in Nat
      /\ totalIdleMs <= idleClosedMs + (IF idleActive THEN EpisodeMs ELSE 0)
      /\ now \in Nat /\ idleStartUs \in Nat /\ idleStartUs <= now /\ now' = now
      /\ idleStreak \in Nat /\ (idleActive => idleStreak # 0)
  BY CaptureAssumption DEF IInv, TypeOK, IdleBooks, Account
<1>0a. EpisodeMs \in Nat
  BY EpisodeIsTime
<1>1. CASE gotFrames /\ idleActive
  <2>1. /\ idleClosedMs' = idleClosedMs + EpisodeMs /\ currentIdleMs' = 0
        /\ totalIdleMs' = idleClosedMs + EpisodeMs /\ idleActive' = FALSE
    BY <1>1, Zenon DEF Account, BookData, ClosedMs
  <2>2. totalIdleMs <= idleClosedMs + EpisodeMs
    BY <1>0, <1>1
  <2> QED BY <1>0, <1>0a, <2>1, <2>2
<1>2. CASE gotFrames /\ ~idleActive
  <2>1. /\ idleClosedMs' = idleClosedMs /\ currentIdleMs' = currentIdleMs
        /\ totalIdleMs' = totalIdleMs /\ idleActive' = FALSE
    BY <1>2, Zenon DEF Account, BookData
  <2>2. totalIdleMs <= idleClosedMs
    BY <1>0, <1>2
  <2> QED BY <1>0, <2>1, <2>2
<1>3. CASE ~gotFrames /\ ~eventPathWake
  <2>1. /\ idleClosedMs' = idleClosedMs /\ currentIdleMs' = currentIdleMs
        /\ totalIdleMs' = totalIdleMs /\ idleActive' = idleActive
        /\ idleStartUs' = idleStartUs
    BY <1>3, Zenon DEF Account, idle
  <2>2. EpisodeMs' = EpisodeMs
    BY <1>0, <2>1 DEF EpisodeMs
  <2> QED BY <1>0, <1>0a, <2>1, <2>2
<1>4. CASE ~gotFrames /\ eventPathWake
  <2> DEFINE start == IF idleStreak = 0 THEN now ELSE idleStartUs
             a == now - start
             curMs == a \div UsPerMs
             active == idleActive'
  <2>1. /\ idleStartUs' = start /\ idleClosedMs' = idleClosedMs
        /\ currentIdleMs' = IF active THEN curMs ELSE currentIdleMs
        /\ totalIdleMs' = IF active THEN idleClosedMs + curMs ELSE totalIdleMs
    BY <1>4, Zenon DEF Account, BookNoData
  <2>2. a \in Nat
    BY <1>0
  <2>3. EpisodeMs' = curMs
    BY <1>0, <2>1 DEF EpisodeMs
  <2>4. idleActive => active /\ curMs = EpisodeMs
    <3>1. idleActive => active
      BY <1>4, Zenon DEF Account, BookNoData
    <3>2. idleActive => curMs = EpisodeMs
      BY <1>0 DEF EpisodeMs
    <3> QED BY <3>1, <3>2
  <2> HIDE DEF a
  <2>5. curMs \in Nat
    BY <2>2, MillisecondsGrow
  <2> HIDE DEF curMs, start, active
  <2>6. CASE active
    <3>1. /\ currentIdleMs' = curMs /\ totalIdleMs' = idleClosedMs + curMs
      BY <2>1, <2>6
    <3>2. totalIdleMs <= idleClosedMs + curMs
      BY <1>0, <1>0a, <2>4, <2>5
    <3> QED BY <1>0, <2>1, <2>3, <2>5, <2>6, <3>1, <3>2 DEF active
  <2>7. CASE ~active
    <3>1. currentIdleMs' = currentIdleMs /\ totalIdleMs' = totalIdleMs /\ ~idleActive
      BY <2>1, <2>4, <2>7
    <3> QED BY <1>0, <2>1, <2>7, <3>1 DEF active
  <2> QED BY <2>6, <2>7
<1> QED BY <1>1, <1>2, <1>3, <1>4

\* No step of the sampling, and none of a reset, lets in a distance that the
\* state of the wakes does not account for.
LEMMA SamplingStep == IInv /\ [Next]_vars => EpochState'
<1> SUFFICES ASSUME IInv, [Next]_vars PROVE EpochState'
  OBVIOUS
<1> USE DEF IInv, TypeOK, EpochState, Rounds, Untorn, InRound, Stale
<1>1. CASE Start
  BY <1>1 DEF Start, In, window
<1>2. CASE StopJoin
  BY <1>2 DEF StopJoin, In, arrival, window
<1>3. CASE Loop
  BY <1>3 DEF Loop, At, control, arrival, window
<1>4. CASE Wait
  <2>0. /\ pc = "wait" /\ thread = "running" /\ thread' = thread /\ main' = main
        /\ strays' = strays /\ arrivalEpoch' = arrivalEpoch /\ resetting' = resetting
        /\ lastWake' = lastWake /\ lastArrivalEpoch' = lastArrivalEpoch /\ epoch' = epoch
    BY <1>4 DEF Wait, At, control, window
  <2>1. CASE pc' = "end" /\ wake' = wake /\ torn' = torn
    BY <2>0, <2>1
  <2>2. CASE pc' = "next" /\ wake' = "within" /\ torn' = (torn \/ resetting = "emptied")
    <3>1. ~torn' => ~torn /\ resetting # "emptied"
      BY <2>2, Zenon
    <3>2. pc' = "next" /\ wake' = "within"
      BY <2>2
    <3> QED BY <2>0, <3>1, <3>2
  <2> QED BY <1>4, <2>1, <2>2, Zenon DEF Wait
<1>5. CASE Account
  BY <1>5 DEF Account, At, control, window
<1>6. CASE LoadEpoch
  BY <1>6 DEF LoadEpoch, At, control, window
<1>7. CASE AddUs
  BY <1>7 DEF AddUs, At, SameWindow, control
<1>8. CASE TryRecovery
  BY <1>8 DEF TryRecovery, At, EndOfRound, control, window
<1>9. CASE NullCall \/ GetBuffer \/ ReleaseBuffer \/ Backoff \/ Reinitialize \/ End
            \/ \E result \in {"account", "get", "recover"} : GetNextPacketSize(result)
  BY <1>9 DEF NullCall, GetBuffer, ReleaseBuffer, Backoff, Reinitialize, End,
              GetNextPacketSize, At, control, arrival, window
<1>10. CASE EmptyHistograms
  <2>1. ~torn' => ~InRound
    BY <1>10, Zenon DEF EmptyHistograms
  <2> QED BY <1>10, <2>1 DEF EmptyHistograms, Resetting, Before, control
<1>11. CASE RaiseEpoch
  BY <1>11 DEF RaiseEpoch, Resetting, control, arrival
<1>12. CASE ClearIdle
  BY <1>12 DEF ClearIdle, Resetting, control, arrival
<1>13. CASE StopTest \/ StopStore \/ Destroy \/ UNCHANGED vars
  BY <1>13 DEF StopTest, StopStore, Destroy, vars, control, arrival, window
<1> QED
  BY <1>1, <1>2, <1>3, <1>4, <1>5, <1>6, <1>7, <1>8, <1>9, <1>10, <1>11,
     <1>12, <1>13
  DEF Next, Main, Capture, ResetWindow, Over

\* Every step keeps the invariant.
LEMMA InvNext == IInv /\ [Next]_vars => IInv'
<1> SUFFICES ASSUME IInv, [Next]_vars PROVE IInv'
  OBVIOUS
<1>0. dev' \in Devices /\ DeviceTruth(dev') /\ EpochState'
  BY DeviceStep, SamplingStep DEF Sound
<1> USE <1>0, CaptureAssumption
    DEF IInv, TypeOK, AttemptsLeft, IdleBooks, EpisodeMs,
        control, device, round, idle, arrival, window, EndOfRound
<1>1. CASE Start
  <2>1. m_capturing' \in BOOLEAN
    BY <1>1, Zenon DEF Start, In
  <2>2. TypeOK'
    BY <1>1, <2>1 DEF Start, In
  <2>3. AttemptsLeft' /\ IdleBooks'
    BY <1>1 DEF Start, In
  <2> QED BY <2>2, <2>3
<1>2. CASE StopTest
  BY <1>2 DEF StopTest, In
<1>3. CASE StopStore
  <2>1. m_capturing' \in BOOLEAN /\ m_capturing' = FALSE
    BY <1>3, Zenon DEF StopStore, In
  <2>2. TypeOK'
    BY <1>3, <2>1 DEF StopStore, In
  <2>3. AttemptsLeft' /\ IdleBooks'
    BY <1>3 DEF StopStore, In
  <2> QED BY <2>2, <2>3
<1>4. CASE StopJoin
  BY <1>4 DEF StopJoin, In
<1>5. CASE Destroy
  BY <1>5 DEF Destroy, In
<1>6. CASE Loop
  BY <1>6 DEF Loop, At
<1>7. CASE Wait
  <2>1. eventPathWake' \in BOOLEAN /\ gotFrames' \in BOOLEAN
    BY <1>7, Zenon DEF Wait, At, Pass
  <2>2. now' \in 0..MaxTime /\ now <= now'
    BY <1>7 DEF Wait, At, Pass
  <2>3. pc' \in {"end", "next"}
    BY <1>7, Zenon DEF Wait, At, Pass
  <2>4. TypeOK'
    BY <1>7, <2>1, <2>2, <2>3 DEF Wait, At
  <2>5. AttemptsLeft'
    BY <1>7, <2>3 DEF Wait, At
  <2>6. IdleBooks'
    <3>1. UNCHANGED <<idle, currentIdleMs>>
      BY <1>7 DEF Wait
    <3>2. now' \in Nat /\ now <= now'
      BY <2>2
    <3> HIDE DEF IInv, IdleBooks
    <3> QED BY <3>1, <3>2, TimePasses
  <2> QED BY <1>0, <2>4, <2>5, <2>6
<1>8. CASE NullCall
  BY <1>8 DEF NullCall, At
<1>9. CASE GetBuffer
  <2>1. gotFrames' \in BOOLEAN
    BY <1>9, Zenon DEF GetBuffer, At
  <2>2. pc' \in {"recover", "release"}
    BY <1>9, Zenon DEF GetBuffer, At
  <2>3. TypeOK'
    BY <1>9, <2>1, <2>2 DEF GetBuffer, At
  <2>4. AttemptsLeft' /\ IdleBooks'
    BY <1>9 DEF GetBuffer, At
  <2> QED BY <2>3, <2>4
<1>10. CASE ReleaseBuffer
  BY <1>10 DEF ReleaseBuffer, At
<1>11. CASE Account
  <2>1. /\ eventPathWake' \in BOOLEAN /\ gotFrames' \in BOOLEAN
        /\ exitedIdle' \in BOOLEAN /\ idleActive' \in BOOLEAN
    BY <1>11, Zenon DEF Account, At, EndOfRound, BookData, BookNoData, idle
  <2>2. idleStreak' \in 0..KIdleConsecutiveNoData /\ (idleActive' => idleStreak' > 0)
    BY <1>11, BookStreak
  <2>3. idleStartUs' \in 0..MaxTime /\ idleStartUs' <= now'
    BY <1>11 DEF Account, BookData, BookNoData
  <2>4. /\ currentIdleMs' \in Nat /\ totalIdleMs' \in Nat /\ idleClosedMs' \in Nat
        /\ totalIdleMs' <= idleClosedMs' + (IF idleActive' THEN EpisodeMs' ELSE 0)
    BY <1>11, BookTotal
  <2>5. pc' \in {"sample", "loop"}
    BY <1>11, Zenon DEF Account
  <2>6. recoveryAttempts' = recoveryAttempts \/ recoveryAttempts' = 0
    BY <1>11, Zenon DEF Account
  <2>7. TypeOK'
    BY <1>11, <2>1, <2>2, <2>3, <2>4, <2>5, <2>6 DEF Account
  <2>8. AttemptsLeft'
    BY <1>11, <2>5, <2>6 DEF Account, At
  <2>9. IdleBooks'
    BY <2>2, <2>3, <2>4 DEF IdleBooks
  <2> QED BY <1>0, <2>7, <2>8, <2>9
<1>12. ASSUME NEW result \in {"account", "get", "recover"},
            GetNextPacketSize(result)
      PROVE  IInv'
  BY <1>12 DEF GetNextPacketSize, At
<1>13. CASE LoadEpoch
  BY <1>13 DEF LoadEpoch, At
<1>14. CASE AddUs
  <2>1. exitedIdle' \in BOOLEAN
    BY <1>14, Zenon DEF AddUs, At, SameWindow
  <2>2. strays' \in Nat
    <3>1. strays' = strays + 1 \/ strays' = strays
      BY <1>14, Zenon DEF AddUs
    <3> QED BY <3>1
  <2>3. TypeOK'
    BY <1>14, <2>1, <2>2 DEF AddUs, At
  <2>4. AttemptsLeft' /\ IdleBooks'
    BY <1>14 DEF AddUs, At
  <2> QED BY <2>3, <2>4
<1>15. CASE TryRecovery
  <2>1. eventPathWake' \in BOOLEAN /\ gotFrames' \in BOOLEAN
    BY <1>15, Zenon DEF TryRecovery, At
  <2>2. recoveryAttempts' \in 0..(MAX_RECOVERY_ATTEMPTS + 1)
    BY <1>15 DEF TryRecovery, At
  <2>3. TypeOK'
    BY <1>15, <2>1, <2>2 DEF TryRecovery, At
  <2>4. AttemptsLeft' /\ IdleBooks'
    BY <1>15 DEF TryRecovery, At
  <2> QED BY <2>3, <2>4
<1>16. CASE Backoff
  BY <1>16 DEF Backoff, At, Pass
<1>17. CASE Reinitialize
  BY <1>17 DEF Reinitialize, At
<1>18. CASE End
  <2>1. m_capturing' \in BOOLEAN
    BY <1>18, Zenon DEF End, At
  <2>2. TypeOK'
    BY <1>18, <2>1 DEF End, At
  <2>3. AttemptsLeft' /\ IdleBooks'
    BY <1>18 DEF End, At
  <2> QED BY <2>2, <2>3
<1>19. CASE EmptyHistograms
  <2>1. torn' \in BOOLEAN
    BY <1>19, Zenon DEF EmptyHistograms, InRound
  <2> QED BY <1>19, <2>1 DEF EmptyHistograms, Resetting, Before
<1>20. CASE RaiseEpoch
  BY <1>20 DEF RaiseEpoch, Resetting
<1>21. CASE ClearIdle
  BY <1>21 DEF ClearIdle, Resetting
<1>22. CASE UNCHANGED vars
  BY <1>22 DEF vars
<1> QED
  BY <1>1, <1>2, <1>3, <1>4, <1>5, <1>6, <1>7, <1>8, <1>9, <1>10, <1>11,
     <1>12, <1>13, <1>14, <1>15, <1>16, <1>17, <1>18, <1>19, <1>20, <1>21,
     <1>22
  DEF Next, Main, Capture, ResetWindow, Over

\* The invariant holds in every reachable state.
LEMMA Invariant == Spec => []IInv
BY InvInit, InvNext, PTL DEF Spec

-----------------------------------------------------------------------------
(* The theorems.                                                           *)

\* Every variable keeps its kind; in particular the attempts at a recovery
\* never exceed one more than MAX_RECOVERY_ATTEMPTS (wasapi_capture.cpp:695).
THEOREM TypeCorrect == Spec => []TypeOK
<1>1. IInv => TypeOK
  BY DEF IInv
<1> QED BY Invariant, <1>1, PTL

\* The probe tells the truth about the device that is drained, after any
\* ladder of failures and fallbacks, and no second event was ever created
\* (wasapi_capture.cpp:210, capture_stats.h:97).
THEOREM FiguresAreTrue == Spec => []ProbeFigures
<1>1. IInv => ProbeFigures
  BY DEF IInv, DeviceTruth, ProbeFigures
<1> QED BY Invariant, <1>1, PTL

\* The total idle time never decreases (capture_stats.h:106).
THEOREM IdleTimeGrows == Spec => TotalIdleMonotone
<1>1. IInv /\ [Next]_vars => [totalIdleMs' >= totalIdleMs]_vars
  <2> SUFFICES ASSUME IInv, [Next]_vars PROVE totalIdleMs' >= totalIdleMs
    OBVIOUS
  <2>1. totalIdleMs \in Nat
    BY DEF IInv, TypeOK
  <2>2. CASE Account
    BY <2>2, BookTotal
  <2>3. CASE ~Account
    <3>1. totalIdleMs' = totalIdleMs
      BY <2>3
      DEF Next, Main, Capture, ResetWindow, Over, Start, StopTest, StopStore,
          StopJoin, Destroy, Loop, Wait, NullCall, GetBuffer, ReleaseBuffer,
          GetNextPacketSize, LoadEpoch, AddUs, TryRecovery, Backoff,
          Reinitialize, End, EmptyHistograms, RaiseEpoch, ClearIdle, idle, vars
    <3> QED BY <2>1, <3>1
  <2> QED BY <2>2, <2>3
<1> QED BY Invariant, <1>1, PTL DEF Spec, TotalIdleMonotone

\* A reset that no round of the loop overlaps lets no distance across it into
\* the new window, and any other lets in two at most (capture_stats.h:87).
THEOREM StraysAreRaces == Spec => []StraysOnlyInRace
<1>1. IInv => StraysOnlyInRace
  BY DEF IInv, TypeOK, EpochState, Untorn, Stale, StraysOnlyInRace
<1> QED BY Invariant, <1>1, PTL
=============================================================================
