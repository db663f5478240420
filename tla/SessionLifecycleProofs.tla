----------------------- MODULE SessionLifecycleProofs -----------------------
(***************************************************************************)
(* Proofs about the life of a session, for any finite set of sessions and  *)
(* any number of io threads: the two registries, the disconnect semantics  *)
(* and the probe's counters.                                               *)
(***************************************************************************)
EXTENDS SessionLifecycle, FiniteSetTheorems, TLAPS

\* The session objects that exist; m_liveSessions counts them.
Existing == {s \in Sessions : life[s] \in {"alive", "dying"}}
LiveCount == m_liveSessions = Cardinality(Existing)

\* Where ForceClose or the destructor has passed the gate and has not yet
\* run the callback of main().
Closing == {"log", "detach", "erase", "callback"}

\* Where a handler is inside main()'s callback and holds L2.
Inside == {"startFlag", "startGate", "stopFlag", "stopGate", "callbackGate"}

\* A session that has not connected yet: nothing was attached to it.
Fresh(s) == life[s] = "unborn" \/ read[s] = "accept" \/ pc[s] = "connect"

FreshState ==
  \A s \in Sessions : Fresh(s) =>
    /\ ~m_closed[s] /\ ~callbacks[s] /\ ~timerActive[s] /\ ~m_streaming[s]
    /\ ~write[s] /\ ~clearing[s]
    /\ s \notin m_sessions /\ s \notin streamingSessions

\* What is held and run in each phase of the life of an object.
PhaseState ==
  \A s \in Sessions :
    /\ life[s] = "unborn" => read[s] = "none" /\ pc[s] = "idle" /\ ~m_self[s]
    /\ read[s] = "accept" => life[s] = "alive" /\ pc[s] = "idle" /\ ~m_self[s]
    /\ pc[s] = "connect" => life[s] = "alive" /\ read[s] = "none" /\ m_self[s]
    /\ life[s] \in {"dying", "destroyed"} =>
         /\ m_closed[s] /\ ~m_self[s] /\ ~callbacks[s]
         /\ read[s] = "none" /\ ~clearing[s]
    /\ life[s] = "dying" => pc[s] \in {"erase", "callback", "callbackGate"}
    /\ life[s] = "destroyed" => pc[s] = "idle"

\* What the close gate, the registry of the server and the references to an
\* object say of each other.
RegistryState ==
  \A s \in Sessions :
    /\ s \in m_sessions =>
         /\ life[s] = "alive" /\ m_self[s]
         /\ m_closed[s] => pc[s] \in {"log", "detach", "erase"}
    /\ ~m_closed[s] =>
         \/ s \in m_sessions
         \/ /\ ~callbacks[s] /\ ~timerActive[s] /\ ~write[s] /\ ~clearing[s]
            /\ read[s] \in {"none", "accept"} /\ pc[s] \in {"idle", "connect"}
            /\ m_self[s] => pc[s] = "connect"
            /\ s \notin streamingSessions
    /\ clearing[s] => m_closed[s]
    /\ pc[s] \in Closing \cup {"callbackGate", "release"} => m_closed[s]
    /\ pc[s] = "log" => s \in m_sessions
    /\ pc[s] \in {"callback", "callbackGate", "release"} => s \notin m_sessions
    /\ m_closed[s] /\ timerActive[s] => pc[s] \in {"log", "detach"}

\* The same for the registry of main().
StreamingState ==
  \A s \in Sessions :
    /\ s \in streamingSessions /\ s \notin lateStarts => life[s] = "alive" /\ m_self[s]
    /\ pc[s] = "start" /\ m_closed[s] => s \in lateStarts
    /\ pc[s] \in {"callbackGate", "release"} => s \notin streamingSessions

\* L2 is held by one handler at most, and what it has stored so far in the
\* set is what it is about to store in the flag and in the gate.
LockState ==
  \A s \in Sessions :
    /\ pc[s] \in Inside =>
         L2 = "handler" /\ (\A t \in Sessions : pc[t] \in Inside => t = s)
    /\ pc[s] \in {"startFlag", "startGate"} => s \in streamingSessions
    /\ pc[s] \in {"stopFlag", "stopGate"} => s \notin streamingSessions

\* What a thread that walks a registry still has to visit is in it: nobody
\* changes the registry under the lock.
WalkState ==
  /\ L1 = "free" => visiting = {}
  /\ L2 # "capture" => todo = {} /\ cur = {}
  /\ visiting \subseteq m_sessions
  /\ todo \subseteq streamingSessions /\ cur \subseteq streamingSessions

\* The disconnect semantics has run when the gate is shut and nobody is on
\* the way from the gate to the callback.
DisconnectCount ==
  \A s \in Sessions :
    disconnects[s] = IF m_closed[s] /\ pc[s] \notin Closing THEN 1 ELSE 0

Core ==
  /\ FreshState
  /\ PhaseState
  /\ RegistryState
  /\ StreamingState
  /\ LockState
  /\ StreamingBooks
  /\ WalkState
  /\ DisconnectCount

IInv == TypeOK /\ LiveCount /\ Core

-----------------------------------------------------------------------------
(* Every step keeps the parts of the invariant that speak of one session   *)
(* at a time.                                                              *)

\* One step per action; the shutdown of the io_context, which changes all
\* sessions at once, is looked at one session at a time.
LEMMA CoreNext == TypeOK /\ Core /\ [Next]_vars => Core'
<1> SUFFICES ASSUME TypeOK, Core, [Next]_vars PROVE Core'
  OBVIOUS
<1> USE DEF TypeOK, Core, FreshState, PhaseState, RegistryState,
            StreamingState, LockState, StreamingBooks, WalkState,
            DisconnectCount, Fresh, Closing, Inside, object, handlers, registry, probe, capture, counters,
            history
<1>1. ASSUME NEW s \in Sessions, Create(s) PROVE Core'
  BY <1>1 DEF Create, IoRunning
<1>2. ASSUME NEW s \in Sessions, OnSessionConnected(s) PROVE Core'
  BY <1>2 DEF OnSessionConnected, SetPc
<1>3. ASSUME NEW s \in Sessions, CloseLog(s) PROVE Core'
  BY <1>3 DEF CloseLog, SetPc
<1>4. ASSUME NEW s \in Sessions, CloseDetach(s) PROVE Core'
  BY <1>4 DEF CloseDetach, SetPc
<1>5. ASSUME NEW s \in Sessions, DisconnectErase(s) PROVE Core'
  BY <1>5 DEF DisconnectErase, SetPc
<1>6. ASSUME NEW s \in Sessions, DisconnectCallback(s) PROVE Core'
  BY <1>6 DEF DisconnectCallback, SetPc
<1>7. ASSUME NEW s \in Sessions, CloseRelease(s) PROVE Core'
  BY <1>7 DEF CloseRelease, SetPc
<1>8. ASSUME NEW s \in Sessions, Start(s) PROVE Core'
  BY <1>8 DEF Start, SetPc
<1>9. ASSUME NEW s \in Sessions, Stop(s) PROVE Core'
  BY <1>9 DEF Stop, SetPc
<1>10. ASSUME NEW s \in Sessions, Destroy(s) PROVE Core'
  BY <1>10 DEF Destroy, SetPc, Orphaned, Held
<1>11. ASSUME NEW s \in Sessions, OnAcceptError(s) PROVE Core'
  BY <1>11 DEF OnAcceptError, CanRun, IoRunning
<1>12. ASSUME NEW s \in Sessions, OnAccept(s) PROVE Core'
  BY <1>12 DEF OnAccept, CanRun, SetPc, IoRunning
<1>13. ASSUME NEW s \in Sessions, OnReadError(s) PROVE Core'
  BY <1>13 DEF OnReadError, CanRun, PassGate, IoRunning, SetPc,
         IsExceptionReason
<1>14. ASSUME NEW s \in Sessions, OnReadStart(s) PROVE Core'
  BY <1>14 DEF OnReadStart, CanRun, SetPc, IoRunning
<1>15. ASSUME NEW s \in Sessions, OnReadStop(s) PROVE Core'
  BY <1>15 DEF OnReadStop, CanRun, SetPc, IoRunning
<1>16. ASSUME NEW s \in Sessions, ClearCallbacks(s) PROVE Core'
  BY <1>16 DEF ClearCallbacks, CanRun, IoRunning
<1>17. ASSUME NEW s \in Sessions, ReadCompletes(s) PROVE Core'
  BY <1>17 DEF ReadCompletes, Messages
<1>18. ASSUME NEW s \in Sessions, OnWriteDone(s) PROVE Core'
  BY <1>18 DEF OnWriteDone, CanRun, IoRunning
<1>19. ASSUME NEW s \in Sessions, OnWriteError(s) PROVE Core'
  BY <1>19 DEF OnWriteError, CanRun, PassGate, IoRunning, SetPc,
         IsExceptionReason
<1>20. ASSUME NEW s \in Sessions, OnWriteStall(s) PROVE Core'
  BY <1>20 DEF OnWriteStall, CanRun, PassGate, IoRunning, SetPc,
         IsExceptionReason
<1>21. ASSUME NEW s \in Sessions, CaptureTest(s) PROVE Core'
  BY <1>21 DEF CaptureTest
<1>22. ASSUME NEW s \in Sessions, CaptureSend(s) PROVE Core'
  BY <1>22 DEF CaptureSend
<1>23. ASSUME NEW s \in Sessions, FillProbe(s) PROVE Core'
  BY <1>23 DEF FillProbe
<1>24. ASSUME NEW s \in Sessions, CloseOnStop(s) PROVE Core'
  BY <1>24 DEF CloseOnStop, PassGate, Quiet, SetPc, IsExceptionReason,
         Orphaned, Held
<1>25. CASE CaptureBegin
  BY <1>25 DEF CaptureBegin
<1>26. CASE CaptureEnd
  BY <1>26 DEF CaptureEnd
<1>27. CASE ProbeBegin
  BY <1>27 DEF ProbeBegin
<1>28. CASE ProbeUnlock
  BY <1>28 DEF ProbeUnlock
<1>29. CASE ProbeHook
  BY <1>29 DEF ProbeHook
<1>30. CASE Join
  BY <1>30 DEF Join, Quiet, Orphaned, Held
<1>31. CASE StopReturns
  BY <1>31 DEF StopReturns, Quiet, Orphaned, Held
<1>32. CASE Teardown
  <2> DEFINE gone == {s \in Sessions : life[s] = "alive" /\ ~m_self[s] /\ ~callbacks[s]}
  <2>0. ASSUME NEW s \in Sessions
        PROVE  /\ pc[s] = "idle" /\ pc'[s] = "idle"
               /\ read'[s] = "none" /\ ~write'[s] /\ ~clearing'[s]
               /\ life'[s] = IF s \in gone THEN "destroyed" ELSE life[s]
               /\ m_closed'[s] <=> m_closed[s] \/ s \in gone
               /\ disconnects'[s] = IF s \in gone /\ ~m_closed[s]
                                    THEN disconnects[s] + 1 ELSE disconnects[s]
    BY <1>32 DEF Teardown, Quiet
  <2>1. /\ m_self' = m_self /\ callbacks' = callbacks
        /\ timerActive' = timerActive /\ m_streaming' = m_streaming
        /\ m_sessions' = m_sessions /\ streamingSessions' = streamingSessions
        /\ lateStarts' = lateStarts
        /\ hasStreamingClients' = hasStreamingClients
        /\ UNCHANGED <<L1, L2, visiting, todo, cur>>
    BY <1>32 DEF Teardown
  <2>2. ASSUME NEW s \in Sessions
        PROVE  s \in gone <=> life[s] = "alive" /\ ~m_self[s] /\ ~callbacks[s]
    OBVIOUS
  <2> HIDE DEF gone
  <2>3. FreshState'
    BY <2>0, <2>1, <2>2
  <2>4. PhaseState'
    BY <2>0, <2>1, <2>2
  <2>5. RegistryState'
    BY <2>0, <2>1, <2>2
  <2>6. StreamingState'
    BY <2>0, <2>1, <2>2
  <2>7. StreamingBooks' /\ LockState'
    BY <2>0, <2>1, <2>2
  <2>8. WalkState'
    BY <2>1
  <2>9. DisconnectCount'
    BY <2>0, <2>1, <2>2
  <2> QED BY <2>3, <2>4, <2>5, <2>6, <2>7, <2>8, <2>9
<1>33. CASE StopCapture
  BY <1>33 DEF StopCapture
<1>34. CASE StopIo
  BY <1>34 DEF StopIo
<1>35. CASE Ended
  BY <1>35 DEF Ended, vars
<1>36. CASE UNCHANGED vars
  BY <1>36 DEF vars
<1>37. ASSUME NEW s \in Sessions, DisconnectGate(s) PROVE Core'
  BY <1>37 DEF DisconnectGate, EndOfDisconnect, SetPc
<1>38. ASSUME NEW s \in Sessions, StartFlag(s) PROVE Core'
  BY <1>38 DEF StartFlag, SetPc
<1>39. ASSUME NEW s \in Sessions, StartGate(s) PROVE Core'
  BY <1>39 DEF StartGate, SetPc
<1>40. ASSUME NEW s \in Sessions, StopFlag(s) PROVE Core'
  BY <1>40 DEF StopFlag, SetPc
<1>41. ASSUME NEW s \in Sessions, StopGate(s) PROVE Core'
  BY <1>41 DEF StopGate, SetPc
<1> QED
  BY <1>1, <1>2, <1>3, <1>4, <1>5, <1>6, <1>7, <1>8, <1>9, <1>10, <1>11,
     <1>12, <1>13, <1>14, <1>15, <1>16, <1>17, <1>18, <1>19, <1>20, <1>21,
     <1>22, <1>23, <1>24, <1>25, <1>26, <1>27, <1>28, <1>29, <1>30, <1>31,
     <1>32, <1>33, <1>34, <1>35, <1>36, <1>37, <1>38, <1>39, <1>40, <1>41
  DEF Next, Continue, Handle, Capture, Probe, Shutdown

-----------------------------------------------------------------------------
(* The number of session objects.                                          *)

\* Only four operations make or destroy an object, or count one.
LEMMA LifeChanges ==
  [Next]_vars =>
    \/ life' = life /\ m_liveSessions' = m_liveSessions
    \/ \E s \in Sessions : Create(s) \/ DisconnectGate(s) \/ Destroy(s)
    \/ Teardown
BY DEF Next, Continue, Handle, Capture, Probe, Shutdown,
       OnSessionConnected, CloseLog, CloseDetach, DisconnectErase,
       DisconnectCallback, CloseRelease, Start, StartFlag, StartGate, Stop,
       StopFlag, StopGate, OnAcceptError, OnAccept, OnReadError, OnReadStart,
       OnReadStop, ClearCallbacks, ReadCompletes, OnWriteDone,
       OnWriteError, OnWriteStall, CaptureTest, CaptureSend, FillProbe,
       CloseOnStop, CaptureBegin, CaptureEnd, ProbeBegin, ProbeUnlock,
       ProbeHook, Join, StopReturns, StopCapture, StopIo, Ended,
       object, counters, vars

\* m_liveSessions is exact: it follows each object that is made, and each
\* destruction, once.
LEMMA LiveNext == TypeOK /\ LiveCount /\ Core /\ [Next]_vars => LiveCount'
<1> SUFFICES ASSUME TypeOK, LiveCount, Core, [Next]_vars PROVE LiveCount'
  OBVIOUS
<1>1. IsFiniteSet(Existing) /\ m_liveSessions = Cardinality(Existing)
  BY LifecycleAssumption, FS_Subset DEF Existing, LiveCount
<1>2. CASE life' = life /\ m_liveSessions' = m_liveSessions
  BY <1>1, <1>2 DEF LiveCount, Existing
<1>3. ASSUME NEW s \in Existing,
             Existing' = Existing \ {s}, m_liveSessions' = m_liveSessions - 1
      PROVE  LiveCount'
  BY <1>1, <1>3, FS_RemoveElement DEF LiveCount
<1>4. ASSUME Existing' = Existing, m_liveSessions' = m_liveSessions
      PROVE  LiveCount'
  BY <1>1, <1>4 DEF LiveCount
<1>5. ASSUME NEW s \in Sessions, Create(s) PROVE LiveCount'
  <2>1. s \notin Existing /\ Existing' = Existing \cup {s}
    BY <1>5 DEF Create, Existing, TypeOK
  <2>2. m_liveSessions' = m_liveSessions + 1
    BY <1>5 DEF Create
  <2> QED BY <1>1, <2>1, <2>2, FS_AddElement DEF LiveCount
<1>6. ASSUME NEW s \in Sessions, DisconnectGate(s) PROVE LiveCount'
  <2>1. CASE life[s] = "dying"
    <3>1. s \in Existing /\ Existing' = Existing \ {s}
      BY <1>6, <2>1 DEF DisconnectGate, EndOfDisconnect, Existing, TypeOK
    <3>2. m_liveSessions' = m_liveSessions - 1
      BY <1>6, <2>1 DEF DisconnectGate, EndOfDisconnect
    <3> QED BY <3>1, <3>2, <1>3
  <2>2. CASE life[s] # "dying"
    BY <1>6, <2>2, <1>2 DEF DisconnectGate, EndOfDisconnect
  <2> QED BY <2>1, <2>2
<1>7. ASSUME NEW s \in Sessions, Destroy(s) PROVE LiveCount'
  <2>1. CASE m_closed[s]
    <3>1. s \in Existing /\ Existing' = Existing \ {s}
      BY <1>7, <2>1 DEF Destroy, Orphaned, Existing, TypeOK
    <3>2. m_liveSessions' = m_liveSessions - 1
      BY <1>7, <2>1 DEF Destroy
    <3> QED BY <3>1, <3>2, <1>3
  <2>2. CASE ~m_closed[s]
    <3>1. Existing' = Existing
      BY <1>7, <2>2 DEF Destroy, Orphaned, Existing, TypeOK
    <3>2. m_liveSessions' = m_liveSessions
      BY <1>7, <2>2 DEF Destroy
    <3> QED BY <3>1, <3>2, <1>4
  <2> QED BY <2>1, <2>2
<1>8. CASE Teardown
  <2> DEFINE gone == {s \in Sessions : life[s] = "alive" /\ ~m_self[s] /\ ~callbacks[s]}
  <2>1. gone \subseteq Existing /\ Existing' = Existing \ gone
    BY <1>8 DEF Teardown, Existing, TypeOK
  <2>2. m_liveSessions' = m_liveSessions - Cardinality(gone)
    BY <1>8 DEF Teardown
  <2> HIDE DEF gone
  <2>3. /\ IsFiniteSet(gone) /\ Existing \cap gone = gone
        /\ Cardinality(Existing \ gone) = Cardinality(Existing) - Cardinality(Existing \cap gone)
    BY <1>1, <2>1, FS_Subset, FS_Difference
  <2> QED BY <1>1, <2>1, <2>2, <2>3 DEF LiveCount
<1> QED BY <1>2, <1>5, <1>6, <1>7, <1>8, LifeChanges

-----------------------------------------------------------------------------
(* Types.                                                                  *)

\* One step per action again; that m_liveSessions never goes below zero is
\* what LiveCount says.
LEMMA TypeNext ==
  TypeOK /\ m_liveSessions' \in Nat /\ [Next]_vars => TypeOK'
<1> SUFFICES ASSUME TypeOK, m_liveSessions' \in Nat, [Next]_vars PROVE TypeOK'
  OBVIOUS
<1> USE DEF TypeOK, object, handlers, registry, probe, capture, counters,
            history
<1>1. ASSUME NEW s \in Sessions, Create(s) PROVE TypeOK'
  BY <1>1 DEF Create
<1>2. ASSUME NEW s \in Sessions, OnSessionConnected(s) PROVE TypeOK'
  BY <1>2 DEF OnSessionConnected, SetPc
<1>3. ASSUME NEW s \in Sessions, CloseLog(s) PROVE TypeOK'
  BY <1>3 DEF CloseLog, SetPc
<1>4. ASSUME NEW s \in Sessions, CloseDetach(s) PROVE TypeOK'
  BY <1>4 DEF CloseDetach, SetPc
<1>5. ASSUME NEW s \in Sessions, DisconnectErase(s) PROVE TypeOK'
  BY <1>5 DEF DisconnectErase, SetPc
<1>6. ASSUME NEW s \in Sessions, DisconnectCallback(s) PROVE TypeOK'
  BY <1>6 DEF DisconnectCallback, SetPc
<1>7. ASSUME NEW s \in Sessions, CloseRelease(s) PROVE TypeOK'
  BY <1>7 DEF CloseRelease, SetPc
<1>8. ASSUME NEW s \in Sessions, Start(s) PROVE TypeOK'
  BY <1>8 DEF Start, SetPc
<1>9. ASSUME NEW s \in Sessions, Stop(s) PROVE TypeOK'
  BY <1>9 DEF Stop, SetPc
<1>10. ASSUME NEW s \in Sessions, Destroy(s) PROVE TypeOK'
  BY <1>10 DEF Destroy, SetPc
<1>11. ASSUME NEW s \in Sessions, OnAcceptError(s) PROVE TypeOK'
  BY <1>11 DEF OnAcceptError
<1>12. ASSUME NEW s \in Sessions, OnAccept(s) PROVE TypeOK'
  BY <1>12 DEF OnAccept, SetPc
<1>13. ASSUME NEW s \in Sessions, OnReadError(s) PROVE TypeOK'
  BY <1>13 DEF OnReadError, PassGate, SetPc, IsExceptionReason, Reasons
<1>14. ASSUME NEW s \in Sessions, OnReadStart(s) PROVE TypeOK'
  BY <1>14 DEF OnReadStart, SetPc
<1>15. ASSUME NEW s \in Sessions, OnReadStop(s) PROVE TypeOK'
  BY <1>15 DEF OnReadStop, SetPc
<1>16. ASSUME NEW s \in Sessions, ClearCallbacks(s) PROVE TypeOK'
  BY <1>16 DEF ClearCallbacks
<1>17. ASSUME NEW s \in Sessions, ReadCompletes(s) PROVE TypeOK'
  BY <1>17 DEF ReadCompletes, Messages
<1>18. ASSUME NEW s \in Sessions, OnWriteDone(s) PROVE TypeOK'
  BY <1>18 DEF OnWriteDone
<1>19. ASSUME NEW s \in Sessions, OnWriteError(s) PROVE TypeOK'
  BY <1>19 DEF OnWriteError, PassGate, SetPc, IsExceptionReason, Reasons
<1>20. ASSUME NEW s \in Sessions, OnWriteStall(s) PROVE TypeOK'
  BY <1>20 DEF OnWriteStall, PassGate, SetPc, IsExceptionReason, Reasons
<1>21. ASSUME NEW s \in Sessions, CaptureTest(s) PROVE TypeOK'
  BY <1>21 DEF CaptureTest
<1>22. ASSUME NEW s \in Sessions, CaptureSend(s) PROVE TypeOK'
  BY <1>22 DEF CaptureSend
<1>23. ASSUME NEW s \in Sessions, FillProbe(s) PROVE TypeOK'
  BY <1>23 DEF FillProbe
<1>24. ASSUME NEW s \in Sessions, CloseOnStop(s) PROVE TypeOK'
  BY <1>24 DEF CloseOnStop, PassGate, SetPc, IsExceptionReason, Reasons
<1>25. CASE CaptureBegin
  BY <1>25 DEF CaptureBegin
<1>26. CASE CaptureEnd
  BY <1>26 DEF CaptureEnd
<1>27. CASE ProbeBegin
  BY <1>27 DEF ProbeBegin
<1>28. CASE ProbeUnlock
  BY <1>28 DEF ProbeUnlock
<1>29. CASE ProbeHook
  BY <1>29 DEF ProbeHook
<1>30. CASE Join
  BY <1>30 DEF Join
<1>31. CASE StopReturns
  BY <1>31 DEF StopReturns
<1>32. CASE Teardown
  BY <1>32 DEF Teardown
<1>33. CASE StopCapture
  BY <1>33 DEF StopCapture
<1>34. CASE StopIo
  BY <1>34 DEF StopIo
<1>35. CASE Ended
  BY <1>35 DEF Ended, vars
<1>36. CASE UNCHANGED vars
  BY <1>36 DEF vars
<1>37. ASSUME NEW s \in Sessions, DisconnectGate(s) PROVE TypeOK'
  BY <1>37 DEF DisconnectGate, EndOfDisconnect, SetPc
<1>38. ASSUME NEW s \in Sessions, StartFlag(s) PROVE TypeOK'
  BY <1>38 DEF StartFlag, SetPc
<1>39. ASSUME NEW s \in Sessions, StartGate(s) PROVE TypeOK'
  BY <1>39 DEF StartGate, SetPc
<1>40. ASSUME NEW s \in Sessions, StopFlag(s) PROVE TypeOK'
  BY <1>40 DEF StopFlag, SetPc
<1>41. ASSUME NEW s \in Sessions, StopGate(s) PROVE TypeOK'
  BY <1>41 DEF StopGate, SetPc
<1> QED
  BY <1>1, <1>2, <1>3, <1>4, <1>5, <1>6, <1>7, <1>8, <1>9, <1>10, <1>11,
     <1>12, <1>13, <1>14, <1>15, <1>16, <1>17, <1>18, <1>19, <1>20, <1>21,
     <1>22, <1>23, <1>24, <1>25, <1>26, <1>27, <1>28, <1>29, <1>30, <1>31,
     <1>32, <1>33, <1>34, <1>35, <1>36, <1>37, <1>38, <1>39, <1>40, <1>41
  DEF Next, Continue, Handle, Capture, Probe, Shutdown

-----------------------------------------------------------------------------
(* The invariant, and what follows from it.                                *)

\* Nothing exists in the beginning.
LEMMA InvInit == Init => IInv
<1> SUFFICES ASSUME Init PROVE IInv
  OBVIOUS
<1>1. TypeOK
  BY DEF Init, TypeOK, Reasons, Messages
<1>2. LiveCount
  <2>1. Existing = {}
    BY DEF Init, Existing
  <2> QED BY <2>1, FS_EmptySet DEF Init, LiveCount
<1>3. Core
  BY DEF Init, Core, FreshState, PhaseState, RegistryState, StreamingState,
         LockState, StreamingBooks, WalkState, DisconnectCount, Fresh, Closing,
         Inside
<1> QED BY <1>1, <1>2, <1>3 DEF IInv

\* Every step keeps the invariant.
LEMMA InvNext == IInv /\ [Next]_vars => IInv'
<1> SUFFICES ASSUME IInv, [Next]_vars PROVE IInv'
  OBVIOUS
<1>1. LiveCount'
  BY LiveNext DEF IInv
<1>2. m_liveSessions' \in Nat
  <2>1. IsFiniteSet(Existing')
    BY LifecycleAssumption, FS_Subset DEF Existing
  <2> QED BY <1>1, <2>1, FS_CardinalityType DEF LiveCount
<1> QED BY <1>1, <1>2, CoreNext, TypeNext DEF IInv

\* Every variable keeps its kind; in particular the gauge of live sessions
\* never wraps below zero.
THEOREM TypeCorrect == Spec => []TypeOK
<1>1. IInv => TypeOK
  BY DEF IInv
<1> QED BY InvInit, InvNext, <1>1, PTL DEF Spec

\* Under L1, the probe only meets sessions that are not being destroyed, and
\* the log line of a forced close counts a session that is still registered
\* (http_server.cpp:1259).
THEOREM RegisteredAreAlive == Spec => []RegisteredAlive
<1>1. IInv => RegisteredAlive
  BY DEF IInv, Core, RegistryState, WalkState, RegisteredAlive, TypeOK
<1> QED BY InvInit, InvNext, <1>1, PTL DEF Spec

\* The capture thread sends to no destroyed session, but for those whose
\* "start" was handled after they were closed.
THEOREM CaptureIsSafe == Spec => []CaptureSafe
<1>1. IInv => CaptureSafe
  BY DEF IInv, Core, StreamingState, WalkState, CaptureSafe, TypeOK
<1> QED BY InvInit, InvNext, <1>1, PTL DEF Spec

\* The disconnect semantics runs once for each session, by ForceClose or by
\* the destructor and never by both (http_server.cpp:318).
THEOREM DisconnectIsOnce == Spec => []DisconnectedOnce
<1>1. IInv => DisconnectedOnce
  BY DEF IInv, Core, DisconnectCount, PhaseState, DisconnectedOnce, Closing
<1> QED BY InvInit, InvNext, <1>1, PTL DEF Spec

\* The set of main(), the flag the probe shows and the gate of the capture
\* callback are stored one after the other; the first two differ only between
\* two stores of the session's own handler, and the gate is right whenever no
\* handler holds L2, for any number of sessions (main.cpp:438-462).
THEOREM StreamingBooksAgree == Spec => []StreamingBooks
<1>1. IInv => StreamingBooks
  BY DEF IInv, Core
<1> QED BY InvInit, InvNext, <1>1, PTL DEF Spec

\* When nothing is in progress, the probe's two counts differ by the sessions
\* in handshake and the closed ones that still exist, and by nothing else.
THEOREM ZombiesAreCounted == Spec => []ZombieCount
<1>1. IInv => ZombieCount
  <2> SUFFICES ASSUME IInv, Quiet PROVE ZombieCount
    BY DEF ZombieCount
  <2> DEFINE Zombies == {s \in Sessions :
               life[s] = "alive" /\ (read[s] = "accept" \/ m_closed[s])}
  <2>1. ASSUME NEW s \in Sessions, life[s] \in {"alive", "dying"}
        PROVE  /\ life[s] = "alive"
               /\ s \in m_sessions <=> ~(read[s] = "accept" \/ m_closed[s])
    BY <2>1 DEF IInv, Core, RegistryState, PhaseState, FreshState, Fresh,
                Quiet, Orphaned, Held, TypeOK
  <2>2. ASSUME NEW s \in m_sessions PROVE s \in Sessions /\ life[s] = "alive"
    BY DEF IInv, Core, RegistryState, TypeOK
  <2>3. Existing = m_sessions \cup Zombies /\ m_sessions \cap Zombies = {}
    BY <2>1, <2>2 DEF Existing
  <2>4. IsFiniteSet(m_sessions) /\ IsFiniteSet(Zombies)
    BY LifecycleAssumption, FS_Subset DEF IInv, TypeOK
  <2> HIDE DEF Zombies
  <2>5. Cardinality(Existing) = Cardinality(m_sessions) + Cardinality(Zombies)
    <3>1. Cardinality(m_sessions \cap Zombies) = 0
      BY <2>3, FS_EmptySet
    <3>2. Cardinality(m_sessions \cup Zombies) =
            Cardinality(m_sessions) + Cardinality(Zombies)
              - Cardinality(m_sessions \cap Zombies)
      BY <2>4, FS_Union
    <3>3. Cardinality(m_sessions) \in Nat /\ Cardinality(Zombies) \in Nat
      BY <2>4, FS_CardinalityType
    <3>4. Cardinality(Existing) = Cardinality(m_sessions \cup Zombies)
      BY <2>3
    <3> QED BY <3>1, <3>2, <3>3, <3>4
  <2>6. m_liveSessions = Cardinality(Existing)
    BY DEF IInv, LiveCount
  <2>7. m_liveSessions - Cardinality(m_sessions) = Cardinality(Zombies)
    BY <2>4, <2>5, <2>6, FS_CardinalityType
  <2> QED BY <2>7 DEF ZombieCount, Zombies
<1> QED BY InvInit, InvNext, <1>1, PTL DEF Spec
=============================================================================
