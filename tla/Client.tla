------------------------------- MODULE Client -------------------------------
(***************************************************************************)
(* The native client: the main loop of main.cpp, the io thread of          *)
(* ws_client.cpp with its queue of posted tasks, its read, its watchdog    *)
(* and the handlers that main() installs, and the life of the render       *)
(* thread (wasapi_render.cpp).  One WsClient, one WasapiRender, one        *)
(* connection after the other, each to a server that may answer, close,    *)
(* break or fall silent at any time.                                       *)
(*                                                                         *)
(* Sample data and the state of the player are left out: RingBuffer and    *)
(* Player.  Time is left out but for what a timeout decides: the wait for  *)
(* audio_config may end at any moment, and so may 15 s pass without PCM.   *)
(***************************************************************************)
EXTENDS Sequences

CONSTANT Configs   \* answers to "start": "supported", "unsupported"
ASSUME ConfigsAssumption == Configs \subseteq {"supported", "unsupported"}

VARIABLES
  g_running, g_exitCode, signalled,             \* signalled: history, Ctrl+C
  pc,                                           \* of the main thread
  configReceived, playbackStarted, streaming,   \* locals of main, shared
  m_connected, m_stopRequested, m_stalled, m_armed,
  m_buffer,     \* "empty", or "partial": bytes of a message that was cut off
  io,           \* the io thread: "none" unless joinable
  reading, watching,   \* async_read, async_wait outstanding
  tasks,        \* posted, not yet run
  promise,      \* of the SendText in progress
  link,         \* "none", "open", "closed" by the server, "broken"
  server,       \* "idle", "asked" for audio_config, "sending" PCM
  silent,       \* the last PCM, or Connect, is m_stallMs ago
  rend,         \* the render thread: "none", "running", "dead" and not joined
  heard,        \* history: PCM has arrived on this connection
  orphan        \* history: main has left a renderer behind without joining it

run == <<g_running, g_exitCode, signalled>>
app == <<configReceived, playbackStarted, streaming>>
conn == <<m_connected, m_stopRequested, m_stalled, m_armed>>
thread == <<io, reading, watching>>
post == <<tasks, promise>>
net == <<link, server, silent, m_buffer, heard>>
vars == <<run, app, conn, thread, post, net, pc, rend, orphan>>

Init ==
  /\ g_running = TRUE /\ g_exitCode = 0 /\ signalled = FALSE
  /\ pc = "connect"
  /\ configReceived = FALSE /\ playbackStarted = FALSE /\ streaming = FALSE
  /\ m_connected = FALSE /\ m_stopRequested = FALSE
  /\ m_stalled = FALSE /\ m_armed = FALSE
  /\ io = "none" /\ reading = FALSE /\ watching = FALSE
  /\ tasks = <<>> /\ promise = "none"
  /\ link = "none" /\ server = "idle" /\ silent = FALSE
  /\ m_buffer = "empty" /\ heard = FALSE
  /\ rend = "none" /\ orphan = FALSE

Alive == pc \notin {"ended", "aborted"}

ExitWith(code) == g_running' = FALSE /\ g_exitCode' = code /\ UNCHANGED signalled

\* Fail, with the error handler of main; no effect once a stop is requested.
Fail ==
  IF m_stopRequested THEN UNCHANGED <<run, m_connected>>
  ELSE ExitWith(2) /\ m_connected' = FALSE

-----------------------------------------------------------------------------
(* The main thread.                                                        *)

\* A failed Connect ends the program: Fail has cleared g_running.
Connect ==
  /\ pc = "connect"
  /\ m_stopRequested' = FALSE
  /\ m_stalled' = FALSE /\ m_armed' = FALSE /\ silent' = FALSE /\ heard' = FALSE
  /\ \/ /\ m_connected' = TRUE
        /\ io' = "created" /\ link' = "open"
        /\ pc' = "start"
        /\ UNCHANGED run
     \/ /\ ExitWith(2)
        /\ pc' = "sleep"
        /\ UNCHANGED <<m_connected, io, link>>
  /\ UNCHANGED <<app, reading, watching, post, server, m_buffer, rend, orphan>>

Posting(text) == IF text = "start" THEN "startPost" ELSE "stopPost"
Waiting(text) == IF text = "start" THEN "startWait" ELSE "stopWait"

\* SendText, up to the test; without a connection it returns false.
SendText(text, failed) ==
  /\ pc = text
  /\ pc' = IF m_connected THEN Posting(text) ELSE failed
  /\ UNCHANGED <<run, app, conn, thread, post, net, rend, orphan>>

Post(text) ==
  /\ pc = Posting(text)
  /\ tasks' = Append(tasks, text) /\ promise' = "pending"
  /\ pc' = Waiting(text)
  /\ UNCHANGED <<run, app, conn, thread, net, rend, orphan>>

\* future.get(), without a limit.
Sent(text, ok, failed) ==
  /\ pc = Waiting(text)
  /\ promise \in {"sent", "failed"}
  /\ promise' = "none"
  /\ pc' = IF promise = "sent" THEN ok ELSE failed
  /\ UNCHANGED <<run, app, conn, thread, tasks, net, rend, orphan>>

SendStart ==
  \/ SendText("start", "disconnect")
  \/ Post("start")
  \/ Sent("start", "reset", "disconnect")

SendStop ==
  \/ SendText("stop", "disconnect")
  \/ Post("stop")
  \/ Sent("stop", "disconnect", "disconnect")

\* An audio_config that is already here is forgotten.
ResetConfig ==
  /\ pc = "reset"
  /\ configReceived' = FALSE
  /\ pc' = "await"
  /\ UNCHANGED <<run, playbackStarted, streaming, conn, thread, post, net, rend, orphan>>

\* audio_config is here, or 10 s have passed, or the user has had enough; a
\* renderer that was started before the reset is then left behind.
AwaitConfig ==
  /\ pc = "await"
  /\ pc' = IF configReceived THEN "stream" ELSE "stop"
  /\ orphan' = (orphan \/ (~configReceived /\ rend # "none"))
  /\ UNCHANGED <<run, app, conn, thread, post, net, rend>>

\* The text handler is between audio_config and the start of playback.
Handling == io \in {"config", "started"}

RenderDied == playbackStarted /\ rend # "running"

\* The loop does not look at the stall flag.
LeaveStream_Bad ==
  /\ pc = "stream"
  /\ ~g_running \/ ~m_connected \/ RenderDied
  /\ streaming' = FALSE
  /\ pc' = "teardown"
  /\ UNCHANGED <<run, configReceived, playbackStarted, conn, thread, post, net, rend, orphan>>

\* The loop does not look at g_running.
LeaveStream_Deaf_Bad ==
  /\ pc = "stream"
  /\ ~m_connected \/ m_stalled \/ RenderDied
  /\ streaming' = FALSE
  /\ pc' = "teardown"
  /\ UNCHANGED <<run, configReceived, playbackStarted, conn, thread, post, net, rend, orphan>>

LeaveStream ==
  /\ pc = "stream"
  /\ ~g_running \/ ~m_connected \/ m_stalled \/ RenderDied
  /\ streaming' = FALSE
  /\ pc' = "teardown"
  /\ UNCHANGED <<run, configReceived, playbackStarted, conn, thread, post, net, rend, orphan>>

Teardown ==
  /\ pc = "teardown"
  /\ pc' = IF playbackStarted THEN "stopRender" ELSE "stop"
  /\ UNCHANGED <<run, app, conn, thread, post, net, rend, orphan>>

\* Leaves a render thread that has ended by itself unjoined.
StopRender_Bad ==
  /\ pc = "stopRender"
  /\ rend' = IF rend = "running" THEN "none" ELSE rend
  /\ playbackStarted' = FALSE
  /\ pc' = "stop"
  /\ orphan' = (orphan /\ Handling)
  /\ UNCHANGED <<run, configReceived, streaming, conn, thread, post, net>>

\* Stop: asks the render thread to end and joins it.
StopRender ==
  /\ pc = "stopRender"
  /\ rend' = "none"
  /\ playbackStarted' = FALSE
  /\ pc' = "stop"
  /\ orphan' = (orphan /\ Handling)
  /\ UNCHANGED <<run, configReceived, streaming, conn, thread, post, net>>

\* RequestStop and Disconnect up to the end of the wait of 2 s, which goes on
\* to the join either way.
Disconnect ==
  /\ pc = "disconnect"
  /\ m_stopRequested' = TRUE /\ m_connected' = FALSE
  /\ tasks' = Append(tasks, "close")
  /\ pc' = "join"
  /\ UNCHANGED <<run, app, m_stalled, m_armed, thread, promise, net, rend, orphan>>

\* Disconnect from the join on.  m_buffer keeps what a cut message has left.
Join ==
  /\ pc = "join" /\ io = "left"
  /\ io' = "none" /\ reading' = FALSE /\ watching' = FALSE
  /\ tasks' = <<>>
  /\ m_stalled' = FALSE /\ m_armed' = FALSE
  /\ link' = "none" /\ server' = "idle"
  /\ m_buffer' \in {m_buffer, "partial"}
  /\ pc' = "sleep"
  /\ UNCHANGED <<run, app, m_connected, m_stopRequested, promise, silent, heard, rend, orphan>>

\* The pause before the next attempt, cut short by g_running; the end of main
\* destroys the renderer, which joins its thread.
Sleep ==
  /\ pc = "sleep"
  /\ IF g_running THEN pc' = "connect" /\ UNCHANGED rend
                  ELSE pc' = "ended" /\ rend' = "none"
  /\ UNCHANGED <<run, app, conn, thread, post, net, orphan>>

Main ==
  \/ Connect
  \/ SendStart
  \/ ResetConfig
  \/ AwaitConfig
  \/ LeaveStream
  \/ Teardown
  \/ StopRender
  \/ SendStop
  \/ Disconnect
  \/ Join
  \/ Sleep

-----------------------------------------------------------------------------
(* The io thread: one handler after the other.                             *)

IoThreadMain ==
  /\ io = "created"
  /\ io' = "run"
  /\ reading' = ~m_stopRequested /\ watching' = TRUE
  /\ UNCHANGED <<run, app, conn, post, net, pc, rend, orphan>>

\* The task of SendText.
WriteTask ==
  /\ io = "run"
  /\ tasks # <<>> /\ Head(tasks) # "close"
  /\ tasks' = Tail(tasks)
  /\ IF link = "open"
     THEN /\ promise' = "sent"
          /\ server' = IF Head(tasks) = "start" THEN "asked" ELSE "idle"
          /\ UNCHANGED <<run, m_connected>>
     ELSE promise' = "failed" /\ Fail /\ UNCHANGED server
  /\ UNCHANGED <<app, m_stopRequested, m_stalled, m_armed, thread, link, silent,
                 m_buffer, heard, pc, rend, orphan>>

\* The task of Disconnect: close() waits for the answer of the server.
CloseTask ==
  /\ io = "run"
  /\ tasks # <<>> /\ Head(tasks) = "close"
  /\ tasks' = Tail(tasks)
  /\ io' = "closing"
  /\ UNCHANGED <<run, app, conn, reading, watching, promise, net, pc, rend, orphan>>

\* close() waits for the answer that an open connection owes it.
Unanswered == io = "closing" /\ link = "open"

\* close() returns: answered, or the connection is gone; m_ioc->stop() ends run().
\* run() also ends when nothing is left to wait for.
LeaveRun ==
  /\ \/ io = "closing"
     \/ io = "run" /\ ~reading /\ ~watching /\ tasks = <<>>
  /\ io' = "left"
  /\ UNCHANGED <<run, app, conn, reading, watching, post, net, pc, rend, orphan>>

\* OnRead with an error, or of anything after a stop was requested: nothing is
\* read any more.  A close by the server is no failure, any other end is.
ReadEnds ==
  /\ io = "run" /\ reading
  /\ link # "open" \/ m_stopRequested
  /\ reading' = FALSE
  /\ IF link = "closed" /\ ~m_stopRequested
     THEN m_connected' = FALSE /\ UNCHANGED run
     ELSE Fail
  /\ UNCHANGED <<app, m_stopRequested, m_stalled, m_armed, io, watching, post, net,
                 pc, rend, orphan>>

\* OnRead of a message: none is handled once a stop is requested.
Receives ==
  /\ io = "run" /\ reading
  /\ link = "open" /\ ~m_stopRequested

\* The text handler gets audio_config.
OnConfig ==
  /\ Receives
  /\ server = "asked"
  /\ server' = "sending"
  /\ \/ /\ "supported" \in Configs
        /\ io' = "config"
        /\ configReceived' = TRUE
        /\ UNCHANGED run
     \/ /\ "unsupported" \in Configs
        /\ ExitWith(3)
        /\ UNCHANGED <<io, configReceived>>
  /\ UNCHANGED <<playbackStarted, streaming, conn, reading, watching, post, link, silent,
                 m_buffer, heard, pc, rend, orphan>>

\* Main is going to join what the text handler starts.
Expected == pc \in {"startWait", "reset", "await", "stream"}

\* Start of the renderer: nothing to do, or a thread, or a failure.  A new
\* thread on top of one that was not joined is std::terminate.  Main does not
\* join a renderer that is started after it has stopped waiting for it.
StartRender ==
  /\ io = "config"
  /\ \/ /\ rend = "running"
        /\ io' = "started"
        /\ UNCHANGED <<run, rend, pc, reading, orphan>>
     \/ /\ rend = "none"
        /\ io' = "started" /\ rend' = "running"
        /\ orphan' = (orphan \/ ~Expected)
        /\ UNCHANGED <<run, pc, reading>>
     \/ /\ rend = "dead"
        /\ io' = "aborted" /\ pc' = "aborted"
        /\ UNCHANGED <<run, rend, reading, orphan>>
     \/ /\ rend # "running"
        /\ ExitWith(3)
        /\ io' = "run" /\ reading' = ~m_stopRequested
        /\ UNCHANGED <<rend, pc, orphan>>
  /\ UNCHANGED <<app, conn, watching, post, net>>

MarkStarted ==
  /\ io = "started"
  /\ playbackStarted' = TRUE
  /\ io' = "marked"
  /\ UNCHANGED <<run, configReceived, streaming, conn, reading, watching, post, net, pc,
                 rend, orphan>>

\* The end of the text handler, and DoRead.
MarkStreaming ==
  /\ io = "marked"
  /\ streaming' = TRUE
  /\ io' = "run" /\ reading' = ~m_stopRequested
  /\ UNCHANGED <<run, configReceived, playbackStarted, conn, watching, post, net, pc,
                 rend, orphan>>

\* Nothing is read after a binary message.
OnPcm_Bad ==
  /\ Receives
  /\ server = "sending"
  /\ \/ UNCHANGED run
     \/ m_buffer = "partial" /\ streaming /\ ExitWith(3)
  /\ silent' = FALSE /\ m_armed' = TRUE /\ heard' = TRUE
  /\ reading' = FALSE
  /\ UNCHANGED <<app, m_connected, m_stopRequested, m_stalled, io, watching, post, link, server,
                 m_buffer, pc, rend, orphan>>

\* A binary message: Push, unless the left-over makes its size odd.
OnPcm ==
  /\ Receives
  /\ server = "sending"
  /\ \/ UNCHANGED run
     \/ m_buffer = "partial" /\ streaming /\ ExitWith(3)
  /\ silent' = FALSE /\ m_armed' = TRUE /\ heard' = TRUE
  /\ UNCHANGED <<app, m_connected, m_stopRequested, m_stalled, thread, post, link, server,
                 m_buffer, pc, rend, orphan>>

\* Judges a connection on which no PCM was ever to arrive.
OnWatchdogTick_Bad ==
  /\ io = "run" /\ watching
  /\ \/ /\ ~m_connected \/ m_stopRequested
        /\ UNCHANGED m_stalled
     \/ /\ m_connected /\ ~m_stopRequested
        /\ silent
        /\ m_stalled' = TRUE
  /\ watching' = FALSE
  /\ UNCHANGED <<run, app, m_connected, m_stopRequested, m_armed, io, reading, post, net,
                 pc, rend, orphan>>

\* The tick that is the last one; the others change nothing.
OnWatchdogTick ==
  /\ io = "run" /\ watching
  /\ \/ /\ ~m_connected \/ m_stopRequested
        /\ UNCHANGED m_stalled
     \/ /\ m_connected /\ ~m_stopRequested
        /\ m_armed /\ silent
        /\ m_stalled' = TRUE
  /\ watching' = FALSE
  /\ UNCHANGED <<run, app, m_connected, m_stopRequested, m_armed, io, reading, post, net,
                 pc, rend, orphan>>

Io ==
  \/ IoThreadMain
  \/ WriteTask
  \/ CloseTask
  \/ LeaveRun
  \/ ReadEnds
  \/ OnConfig
  \/ StartRender
  \/ MarkStarted
  \/ MarkStreaming
  \/ OnPcm
  \/ OnWatchdogTick

-----------------------------------------------------------------------------
(* The rest of the world.                                                  *)

SignalHandler ==
  /\ Alive /\ ~signalled
  /\ signalled' = TRUE /\ g_running' = FALSE
  /\ UNCHANGED <<g_exitCode, app, conn, thread, post, net, pc, rend, orphan>>

LinkEnds ==
  /\ Alive /\ link = "open"
  /\ link' \in {"closed", "broken"}
  /\ UNCHANGED <<run, app, conn, thread, post, server, silent, m_buffer, heard, pc, rend, orphan>>

Silence ==
  /\ Alive /\ m_connected /\ ~silent
  /\ silent' = TRUE
  /\ UNCHANGED <<run, app, conn, thread, post, link, server, m_buffer, heard, pc, rend, orphan>>

\* RecordExit, or a failure of IAudioClient::Start on the render thread.
RenderExits ==
  /\ Alive /\ rend = "running"
  /\ rend' = "dead"
  /\ UNCHANGED <<run, app, conn, thread, post, net, pc, orphan>>

\* main waits for a promise that nobody will keep.
Stuck == pc \in {"startWait", "stopWait"} /\ promise = "pending" /\ io = "left"

\* The process has ended, or stays as it is.
Stopped == (~Alive \/ Stuck) /\ UNCHANGED vars

Next == Main \/ Io \/ SignalHandler \/ LinkEnds \/ Silence \/ RenderExits \/ Stopped

\* The threads run and the ticks come.  Nobody has to answer: not to Connect,
\* not to "start" and not to close(), and nothing need be heard.
Fairness ==
  /\ WF_vars(Main /\ pc # "connect")
  /\ WF_vars(IoThreadMain) /\ WF_vars(WriteTask) /\ WF_vars(CloseTask)
  /\ WF_vars(LeaveRun /\ ~Unanswered)
  /\ WF_vars(ReadEnds /\ link # "open") /\ WF_vars(OnWatchdogTick)
  /\ WF_vars(StartRender) /\ WF_vars(MarkStarted) /\ WF_vars(MarkStreaming)

Spec == Init /\ [][Next]_vars /\ Fairness
-----------------------------------------------------------------------------
(* Properties.                                                             *)

\* The stall flag speaks of this connection: it is up only when PCM has
\* arrived since Connect (ws_client.h:78), so that a reconnected main loop
\* does not leave at once because of an older stall.
FreshStallFlag == m_stalled => heard

\* The renderer is never started over a thread that was not joined
\* (std::terminate), nor by the io thread while main stops it, except when main
\* has left a renderer behind and not joined it since: it gave up waiting for an
\* audio_config that was forgotten (main.cpp:296) or came late (main.cpp:300).
RendererOwned ==
  (pc = "aborted" \/ (io = "config" /\ pc = "stopRender")) => orphan

\* SendText blocks for ever (ws_client.cpp:150) in one case only: the server has
\* ended the connection, the io thread has noticed and left run(), all between
\* the test of m_connected (ws_client.cpp:137) and the post (ws_client.cpp:141).
\* A task that was run, or whose connection is up, always gives its answer.
BlockedByLoss == Stuck => tasks # <<>> /\ ~m_connected /\ link # "open"

\* Ctrl+C ends the client from wherever it is, if whoever it connects to
\* answers the handshake and the close or goes away, unless it crashes or
\* blocks in the case that BlockedByLoss names.
EndsWhenAsked ==
  []<>(pc # "connect") /\ []<>~Unanswered =>
    (signalled ~> (pc \in {"ended", "aborted"} \/ Stuck))

\* FR-08, FR-11: a stall, or the end of the render thread, is followed by a
\* new connection or by the end of the program; it is never overlooked.  The
\* close of the old connection has to be answered, or that connection to end.
Reconnects ==
  []<>~Unanswered =>
    ((m_stalled \/ (playbackStarted /\ rend = "dead"))
       ~> (pc \in {"connect", "ended", "aborted"} \/ Stuck))
=============================================================================
