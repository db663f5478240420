---------------------------- MODULE ClientProofs ----------------------------
(***************************************************************************)
(* Proofs about the native client: the stall flag, who starts and stops    *)
(* the renderer, and what can make SendText block for ever.                *)
(***************************************************************************)
EXTENDS Client, Integers, TLAPS

\* Types, as far as the order of the posted tasks needs them.
ClientTypes ==
  /\ tasks \in Seq({"start", "stop", "close"})
  /\ rend \in {"none", "running", "dead"}

\* The watchdog is armed by PCM only.
ArmedByPcm == m_armed => heard

-----------------------------------------------------------------------------
(* One connection: "start" is sent once, and audio_config handled once.    *)

\* The task that sends "start" waits for the io thread.
StartQueued == pc = "startWait" /\ tasks = <<"start">> /\ promise = "pending"

NoStart == \A i \in 1..Len(tasks) : tasks[i] # "start"

\* audio_config may still come on this connection.
ConfigAhead ==
  pc \in {"start", "startPost"} \/ StartQueued \/ server = "asked"

StartOnce ==
  /\ StartQueued \/ NoStart
  /\ StartQueued => server = "idle"
  /\ pc \in {"connect", "start", "startPost", "sleep"} =>
       tasks = <<>> /\ server = "idle"
  /\ pc = "startWait" => tasks = <<>> \/ StartQueued
  /\ pc \in {"connect", "sleep"} => io = "none" /\ link = "none"
  /\ Handling => server = "sending"
  /\ pc = "startWait" /\ promise = "failed" => server = "idle"

\* While audio_config is awaited or handled nothing has been heard, and the
\* connection counts as up unless main has hung up.
ConfigState ==
  /\ ConfigAhead \/ Handling => ~heard
  /\ link = "open" \/ Handling => m_connected \/ m_stopRequested
  /\ pc \in {"start", "startPost", "startWait", "reset", "await", "stream",
            "teardown", "stopRender", "stop", "stopPost", "stopWait"} => ~m_stopRequested

-----------------------------------------------------------------------------
(* The io thread and the tasks it is given.                                *)

NoClose == \A i \in 1..Len(tasks) : tasks[i] # "close"

\* A promise that is pending has its task; the io thread closes for main only;
\* and as long as main has not hung up, it stops reading only when it has seen
\* the end of the connection.
TaskState ==
  /\ pc \in {"startWait", "stopWait"} /\ promise = "pending" => tasks # <<>>
  /\ ~NoClose => pc \in {"join", "aborted"}
  /\ io = "closing" => pc = "join"
  /\ pc = "aborted" => io = "aborted"
  /\ io \notin {"none", "created"} /\ ~reading /\ ~m_stopRequested =>
       link # "open" /\ ~m_connected
  /\ Handling \/ io = "marked" => reading
  /\ io = "left" /\ ~m_stopRequested => ~reading
  /\ pc = "join" => m_stopRequested

-----------------------------------------------------------------------------
(* The renderer, as long as main has left none behind.                     *)

\* No render thread, and main knows of none.
Quietened == rend = "none" /\ playbackStarted = FALSE

\* From the end of a stream to the next connection.
Leaving ==
  pc \in {"stop", "stopPost", "stopWait", "disconnect", "join", "sleep"}

\* Before audio_config there is no renderer; after it main goes no further
\* than the stream until it knows of the renderer, unless the program is to
\* end; and it leaves no renderer behind if it is to connect again.
RenderState ==
  /\ pc = "connect" \/ ConfigAhead => Quietened
  /\ pc = "startWait" /\ promise = "failed" => Quietened
  /\ Handling => playbackStarted = FALSE
  /\ io = "config" => rend = "none"
  /\ pc # "ended" /\ (io = "started" \/ playbackStarted) => rend # "none"
  /\ g_running /\ (pc = "stream" \/ (pc = "await" /\ configReceived)) =>
       (Handling \/ playbackStarted) /\ server # "asked"
  /\ g_running /\ pc \in {"teardown", "stopRender"} =>
       playbackStarted /\ server # "asked"
  /\ g_running /\ Leaving => Quietened
  /\ pc = "stopRender" => playbackStarted
  /\ pc # "aborted"

RendererKnown == ~orphan => RenderState

IInv ==
  /\ ClientTypes
  /\ ArmedByPcm
  /\ FreshStallFlag
  /\ StartOnce
  /\ ConfigState
  /\ TaskState
  /\ RendererKnown

-----------------------------------------------------------------------------
(* Every step keeps the invariant.                                         *)

\* No task is left over from anything in the beginning.
LEMMA InvInit == Init => IInv
BY DEF Init, IInv, ClientTypes, ArmedByPcm, FreshStallFlag, StartOnce,
       ConfigState, TaskState, RendererKnown, RenderState, NoStart, NoClose, StartQueued,
       ConfigAhead, Handling, Quietened, Leaving

\* Another task behind those that are posted is no "start" and no "close"
\* unless it is one.
LEMMA NoStartAppend ==
  ASSUME ClientTypes, NoStart, NEW t \in {"stop", "close"},
         tasks' = Append(tasks, t)
  PROVE  NoStart'
BY DEF ClientTypes, NoStart

LEMMA NoCloseAppend ==
  ASSUME ClientTypes, NoClose, NEW t \in {"start", "stop"},
         tasks' = Append(tasks, t)
  PROVE  NoClose'
BY DEF ClientTypes, NoClose

\* Running the first task adds none, and nothing is behind a "start".
LEMMA NoStartTail ==
  ASSUME ClientTypes, StartQueued \/ NoStart, tasks # <<>>,
         tasks' = Tail(tasks)
  PROVE  NoStart'
BY DEF ClientTypes, NoStart, StartQueued

LEMMA NoCloseTail ==
  ASSUME ClientTypes, NoClose, tasks # <<>>, tasks' = Tail(tasks)
  PROVE  NoClose'
BY DEF ClientTypes, NoClose

\* The first task of a queue without "close" is none.
LEMMA HeadIsNoClose ==
  ASSUME ClientTypes, NoClose, tasks # <<>>
  PROVE  Head(tasks) # "close"
BY DEF ClientTypes, NoClose

\* One step per action.
LEMMA InvNext == IInv /\ [Next]_vars => IInv'
<1> SUFFICES ASSUME IInv, [Next]_vars PROVE IInv'
  OBVIOUS
<1> USE DEF IInv, ClientTypes, ArmedByPcm, FreshStallFlag, StartOnce,
            ConfigState, TaskState, RendererKnown, RenderState, StartQueued,
            ConfigAhead, Handling, Quietened, Leaving, NoStart, NoClose,
            run, app, conn, thread, post, net, ExitWith, Fail, Posting, Waiting
<1>1. CASE Connect
  BY <1>1 DEF Connect
<1>2. CASE SendText("start", "disconnect")
  BY <1>2 DEF SendText
<1>3. CASE Post("start")
  BY <1>3, NoCloseAppend DEF Post
<1>4. CASE Sent("start", "reset", "disconnect")
  BY <1>4 DEF Sent
<1>5. CASE SendText("stop", "disconnect")
  BY <1>5 DEF SendText
<1>6. CASE Post("stop")
  BY <1>6, NoStartAppend, NoCloseAppend DEF Post
<1>7. CASE Sent("stop", "disconnect", "disconnect")
  BY <1>7 DEF Sent
<1>8. CASE ResetConfig
  BY <1>8 DEF ResetConfig
<1>9. CASE AwaitConfig
  <2>1. ~orphan' => ~orphan /\ (configReceived \/ rend = "none")
    BY <1>9, Zenon DEF AwaitConfig
  <2> QED BY <1>9, <2>1 DEF AwaitConfig
<1>10. CASE LeaveStream
  BY <1>10 DEF LeaveStream, RenderDied
<1>11. CASE Teardown
  BY <1>11 DEF Teardown
<1>12. CASE StopRender
  BY <1>12 DEF StopRender
<1>13. CASE Disconnect
  BY <1>13, NoStartAppend DEF Disconnect
<1>14. CASE Join
  BY <1>14 DEF Join
<1>15. CASE Sleep
  BY <1>15 DEF Sleep
<1>16. CASE IoThreadMain
  <2>1. ~reading' => m_stopRequested
    BY <1>16, Zenon DEF IoThreadMain
  <2> QED BY <1>16, <2>1 DEF IoThreadMain
<1>17. CASE WriteTask
  BY <1>17, NoStartTail, NoCloseTail DEF WriteTask
<1>18. CASE CloseTask
  BY <1>18, NoStartTail, HeadIsNoClose DEF CloseTask
<1>19. CASE LeaveRun
  BY <1>19 DEF LeaveRun
<1>20. CASE ReadEnds
  BY <1>20 DEF ReadEnds
<1>21. CASE OnConfig
  BY <1>21 DEF OnConfig, Receives
<1>22. CASE StartRender
  <2>1. CASE rend = "none" /\ io' = "started"
    <3>1. ~orphan' => ~orphan /\ Expected
      BY <1>22, <2>1, Zenon DEF StartRender
    <3> QED BY <1>22, <2>1, <3>1 DEF StartRender, Expected
  <2>2. CASE io' = "run"
    <3>1. ~reading' => m_stopRequested
      BY <1>22, <2>2, Zenon DEF StartRender
    <3> QED BY <1>22, <2>2, <3>1 DEF StartRender
  <2>3. CASE ~(rend = "none" /\ io' = "started") /\ io' # "run"
    BY <1>22, <2>3 DEF StartRender
  <2> QED BY <2>1, <2>2, <2>3
<1>23. CASE MarkStarted
  BY <1>23 DEF MarkStarted
<1>24. CASE MarkStreaming
  <2>1. ~reading' => m_stopRequested
    BY <1>24, Zenon DEF MarkStreaming
  <2> QED BY <1>24, <2>1 DEF MarkStreaming
<1>25. CASE OnPcm
  BY <1>25 DEF OnPcm, Receives
<1>26. CASE OnWatchdogTick
  BY <1>26 DEF OnWatchdogTick
<1>27. CASE SignalHandler
  BY <1>27 DEF SignalHandler
<1>28. CASE LinkEnds
  BY <1>28 DEF LinkEnds
<1>29. CASE Silence
  BY <1>29 DEF Silence
<1>30. CASE RenderExits
  BY <1>30 DEF RenderExits
<1>31. CASE UNCHANGED vars
  BY <1>31 DEF vars
<1> QED
  BY <1>1, <1>2, <1>3, <1>4, <1>5, <1>6, <1>7, <1>8, <1>9, <1>10, <1>11,
     <1>12, <1>13, <1>14, <1>15, <1>16, <1>17, <1>18, <1>19, <1>20, <1>21,
     <1>22, <1>23, <1>24, <1>25, <1>26, <1>27, <1>28, <1>29, <1>30, <1>31
  DEF Next, Main, Io, SendStart, SendStop, Stopped

\* The stall flag speaks of this connection only (ws_client.h:78).
THEOREM StallFlagIsFresh == Spec => []FreshStallFlag
<1>1. IInv => FreshStallFlag
  BY DEF IInv
<1> QED BY InvInit, InvNext, <1>1, PTL DEF Spec

\* As long as main has left no renderer behind, the renderer is never started
\* over a thread that was not joined, nor while main stops it (main.cpp:296).
THEOREM RendererIsOwned == Spec => []RendererOwned
<1>1. IInv => RendererOwned
  BY DEF IInv, RendererKnown, RenderState, RendererOwned, Handling
<1> QED BY InvInit, InvNext, <1>1, PTL DEF Spec

\* SendText blocks for ever only if its task was posted after the io thread
\* had seen the end of the connection and left (ws_client.cpp:150).
THEOREM OnlyLossBlocks == Spec => []BlockedByLoss
<1>1. IInv => BlockedByLoss
  BY DEF IInv, ConfigState, TaskState, BlockedByLoss, Stuck
<1> QED BY InvInit, InvNext, <1>1, PTL DEF Spec
=============================================================================
