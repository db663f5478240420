# SoundShareServer: a TLA+ development

SoundShareServer captures what a Windows machine plays (WASAPI loopback),
converts it to PCM packets and streams them over WebSockets to browsers and to
a native client. This directory holds TLA+ modules of the parts whose
correctness depends on the order in which threads, handlers and timers run, the
TLC configurations that check them on small instances, and theorems checked by
TLAPS. Paths below are relative to `src/`; `http_server.cpp`, `write_queue.h`
and the other server files are in `SoundShareServer/`, the client's in
`SoundShareClient/`.

Run from this directory:

    tlc -config MCClient.cfg MCClient                # model checking
    tlapm WriteQueueProofs.tla                       # proofs

## 1. Inventory

### 1.1 Threads, locks, rules

| thread | runs |
|---|---|
| 4 io threads (`HttpServer::Start`) | all handlers of `m_ioc`; the handlers of one connection are serialised by its strand |
| capture thread (`WasapiCapture::CaptureThread`) | the capture callback of `main()`: convert, then `SendBinary` to every streaming session |
| stdin thread (detached) | commands `dump` (the probe, which walks the sessions) and `reset` (the statistics window); the HTTP handlers under `/_debug/` offer the same and the fault switches |
| main thread | start-up, waits, shutdown |
| client io thread / main loop / render thread | WebSocket, reconnect logic, playback |

| lock | guards | nesting |
|---|---|---|
| L1 `HttpServer::m_sessionsMutex` | `m_sessions` (raw pointers) | never together with L2 |
| L2 `streamingMutex` of `main()` | `streamingSessions` (raw pointers) | never together with L1 |
| L3 `WriteQueue::m_mutex` | the deque and its counters, one per session | leaf: nothing is locked under it |

### 1.2 Components

**Write queue** (`write_queue.h`, and `Send` ... `OnWrite` in
`http_server.cpp`). State: the deque, `m_textCount`, `m_binaryCount`,
`m_queuedBytes`, the atomics `m_pending`, `m_writing`, `m_droppedTotal`.
Operations: `EnqueueLocked` (evict by kind, append, take the writing token),
`TakeNextLocked` (pop, or give the token back), `OnWrite` (go on with the next
frame). Correct when: at most one `async_write` per stream (Beast forbids two);
no lost wake-up; the three limits hold; every frame is written, queued or
counted as dropped, in order; audio never evicts control text.

**Write watchdog** (`write_queue.h`: `Stalled`, `Start`, `ArmTimer`, `OnTimer`).
State: `m_lastProgressMs`, `m_thresholdMs`, the timer. Correct when: a session
whose write hangs is closed within the promised time, and idle or slow sessions
are not.

**Drop log** (`TakeDropLogEvent`, `MaybeLogDrop`). State: four atomics. Correct
when: lines are throttled and their figures add up.

**WebSocket sessions** (`PlainWebSocketSession`, `SslWebSocketSession`). The two
classes are the same code, line by line, over a plain and a TLS stream.
State: `m_closed` (the gate of `ForceClose`), `m_self` (the self reference that
keeps the object alive), the callbacks of the queue (which refer to the session
too), `m_streaming`. Operations: `Run`, `OnAccept`, `DoRead`, `OnRead`, the write
path, `OnWriteStall`, `ForceClose`, the destructor. Correct when: one disconnect
per session, whoever closes it; a closed session is destroyed; nobody follows a
pointer to a destroyed one.

**Session registry and shutdown** (`HttpServer`). State: `m_sessions` under L1,
`m_liveSessions`, `m_forceClosed`, `m_writeStalls`. Operations:
`OnSessionConnected`, `OnSessionDisconnected`, `OnSessionMessage`,
`SnapshotSessions`, `Stop`. Correct when: registered sessions are alive, `Stop`
returns.

**Streaming registry** (`main.cpp`). State: `streamingSessions` under L2,
`hasStreamingClients`. Operations: the connect callback (erases), the message
callback (`start` inserts and answers `audio_config`, `stop` erases), the capture
callback (walks and sends). Correct when: the set holds living, open sessions.

**Probe** (`DumpProbeJson`, `FillProbe`, the hook of `main()`). Reads all of the
above from a third thread; holds L1 while it walks, takes L2 afterwards.

**Fault switches** (`diagnostics.cpp`): `stall_threshold_ms` and, in injection
builds, switches that suppress or delay operations.

**WASAPI capture** (`wasapi_capture.cpp`): device, event wait, drain loop, idle
episodes, recovery with retries, `Stop`. **Capture statistics**
(`capture_stats.h`): counters and histograms, reset by the stdin thread while
the capture thread adds. **PCM conversion** (`main.cpp`): downmix, windowed-sinc
resampler, dither.

**HTTP sessions and routing** (`http_server.cpp`): request, response, upgrade.

**Browser page** (`embedded_page.h`). State: the socket, the pending reconnect
timers, `isStreaming`, `wasStreaming`, the watchdog (`pcmArmed`, `stallTimer`,
`lastPcmAt`), the audio context and its nodes, the two buttons. Operations:
`connect` and its handlers, `startAudio` (which awaits up to three times),
`stopAudio`, `checkStall`. Correct when: there is one connection or one pending
attempt; a wanted stream comes back; Stop is final.

**Players**: the worklet of the page and `RenderLoop` of `wasapi_render.cpp`. State:
the level of the buffer, PREFILL / PLAYING / SOFT_UNDERRUN, the envelope.
Correct when: the sound is never cut off, and comes back after an underrun.

**Client ring buffer** (`ring_buffer.h`). State: two positions, one moved by each
thread, except that an overflow and `Clear` move both. Correct when: a FIFO that
drops its oldest samples.

**Native client**: `WsClient` (`ws_client.cpp`: connection, io thread, posted
tasks, a synchronous `SendText`, a watchdog) and the main loop of `main.cpp`, with
handlers that run on the io thread and share flags and the renderer with the
loop. Correct when: it notices a stall, a lost connection and a dead renderer,
reconnects, and ends when asked; the renderer is started and joined in turn.

**Test scripts** (`tests/`): drive a running server.

### 1.3 How they interact

    capture thread --L2--> streamingSessions --> SendBinary --L3--> deque
                                                    | dispatch (strand)
    client --read--> OnRead --> message callback    v
                       (start: Send, L2 insert)  DoWrite -> async_write -> OnWrite -+
                                                    ^                               |
                                                    +-------------------------------+
    watchdog timer (strand) --Stalled--> OnWriteStall --> ForceClose
    read/write error, Stop, destructor ------------------> ForceClose
    ForceClose --> L1 erase --> connect callback --> L2 erase --> drop m_self
    probe --L1--> FillProbe (L3) ... then hook --L2-->

    native client
      main loop --Connect, SendText (posts a task, waits)--> io thread
      io thread --audio_config--> Clear, Start of the renderer; PCM --> Push
      io thread --m_stalled, m_connected, g_running--> main loop (polls)
      main loop --Stop, join--> render thread --Pop--> ring buffer
    page: onclose, stall --> setTimeout(connect) --> onopen --> resume

### 1.4 What is hard

The registries hold raw pointers, so their safety is a matter of order: a
session must leave both sets before its last reference goes. The token
`m_writing` crosses threads: the capture thread sets it, the strand clears it.
The watchdog combines three atomics, a timer and a clock that is read before
them. Shutdown stops the io context with handlers still queued. Completed
operations may already be queued on a strand when the session is closed. On the
client's side the main loop, the io thread and the render thread share flags that
each reads at its own time; a handler of the server's answer starts what the
loop may be stopping; in the page, anything can happen while `startAudio` waits.
All hazards, with their lines and the properties that cover them, are listed in
`PROJECT.json` under `hazards`.

## 2. Modules

| module | models | checked by | proved in |
|---|---|---|---|
| `WriteQueue` | one queue, two threads, the strand's write loop, close | `MCWriteQueue` | `WriteQueueProofs` |
| `SessionLifecycle` | sessions, both registries, capture thread, probe, shutdown | `MCSessionLifecycle` | `SessionLifecycleProofs` |
| `StallWatchdog` | the watchdog of one session, with a clock | `MCStallWatchdog` | `StallWatchdogProofs` |
| `CaptureThread` | the WASAPI capture: device, loop, recovery, stop, statistics window | `MCCaptureThread` | `CaptureThreadProofs` |
| `LossyFifo` | what a session promises to who sends through it | refined by `WriteQueue` | `WriteQueueProofs` |
| `RingBuffer` | the ring buffer of the client, on two threads | `MCRingBuffer` | `RingBufferProofs` |
| `SampleFifo` | what the ring buffer promises | refined by `RingBuffer` | `RingBufferProofs` |
| `Player` | the state machine of both players, over a stream | `MCPlayer` | `PlayerProofs` |
| `Client` | main loop, io thread, renderer of the native client, and its server | `MCClient` | `ClientProofs` |
| `BrowserClient` | the script of the page, its user and its server | `MCBrowserClient` | `BrowserClientProofs` |

The modules cut the same session along its concerns: `SessionLifecycle` reduces
the queue to "a write handler is pending" and the stall verdict to "while
something is to be written, at any moment"; `WriteQueue` and `StallWatchdog` say
what is behind these two. In the same way `Client` reduces the sound to "the
render thread runs, or is dead", which `Player` and `RingBuffer` fill in, and
`BrowserClient` reduces it to "PCM has arrived". Operators whose names end in `_Bad` are faulty
variants used to show that a property notices a fault; no specification uses
them.

### 2.1 WriteQueue

`m_wq` is a record of the members of the class. `EnqueueLocked` is spread over
the steps `Lock`, `RejectOversized`, `EvictOne` (one iteration of an eviction
loop) and `Enqueue` (append, take the token, release L3); `Send` locks for the
strand. What follows the release differs by thread: the capture thread dispatches
`DoWrite` to the strand (`DispatchDoWrite`), the strand, which is already there,
runs it in place (`DoWriteInline`). `DoWrite` and `OnWrite` take the next frame
(`TakeNextLocked`) under L3 and begin an `async_write`, unless the session is
closed. `OnWriteError` is a failed write, which ends in `ForceClose`; `ForceClose`
stands for every other reason to close. The frame number, `wire` and `rejected` are history.

### 2.2 SessionLifecycle

One record of state per session: `life`, the close gate, the two things that
refer to the session (`m_self`, `callbacks`), the pending read and write, and `pc`,
the place in the handler that runs on its strand. `ForceClose` is a sequence of
steps because other threads see it half done: `PassGate` (a helper, part of the
step that calls it) - `CloseLog` - `CloseDetach` (stop the timer, clear the
callbacks unless the reason is a stall, close the socket) - `DisconnectErase`
(L1) - `DisconnectCallback` (L2) - `CloseRelease` (drop `m_self`; for a stall, post
`ClearCallbacks`). An object nobody refers to any more (`Orphaned`) is destroyed
(`Destroy`), which runs the cleanup again through the gate if it was never
closed. The capture thread holds L2 from `CaptureBegin` to `CaptureEnd`, the
probe holds L1 from `ProbeBegin` to `ProbeUnlock`; a handler that needs the
mutex has to wait. What a handler does under L2 is three steps, since the probe
(under L1 only) and the capture thread (before it asks for L2) read what it
writes: `Start`, `StartFlag`, `StartGate` insert into the set, set the session's flag
and set `hasStreamingClients`; `Stop`, `StopFlag`, `StopGate` undo this, and the
disconnect callback is `DisconnectCallback` and `DisconnectGate`. `StopCapture`, `StopIo`, `Join`, `CloseOnStop`, `StopReturns`
and `Teardown` are the end of `main()` and `HttpServer::Stop`. `Teardown` (the
destructor of `HttpServer`, which destroys the handlers left in the io
context) is reached when the detached stdin thread, which keeps a reference to
the server, has ended; otherwise the process exits without running it.

A read that has completed waits in the strand's queue (`read` holds its result)
until `OnRead` runs, and `ForceClose` may run before it: nothing removes a queued
handler, and closing the socket does not change a result that is already there.

### 2.3 StallWatchdog

`now` is `WqNowMs()`; a tick is any unit. The clock cannot pass a due handler by
more than `Latency`. `OnTimer` is two steps, `OnTimerStall` / `OnTimerPass` and
`ArmTimer`, because other threads' stores fall between. `FillProbe` is
`ProbeClock` then `ProbeStalled`. Times are unsigned (`Elapsed` is modulo `Word`).
`SetThreshold` is the switch `stall_threshold_ms`, which `OnTimer` picks up.

### 2.4 CaptureThread

The device is a record of the members an initialisation changes;
`ActivateClientAndInitialize` is the operator `Activated`, which gives what the members
can be after it succeeds and after it fails at any of its calls, and
`EventOrPolling` chains the two attempts that `Initialize` and
`ReinitializeDevice` make. The thread's loop is one action per place where it
can be: `Loop` (the test of `m_capturing`), `Wait`, `GetNextPacketSize`,
`GetBuffer` (with the callback), `ReleaseBuffer`, `Account` (idle time), `LoadEpoch` and
`AddUs` (the sample of the arrival distance), and, after an error, `TryRecovery`, `Backoff`,
`Reinitialize`; `End` is what follows the loop. `main()` starts, stops and destroys the
object; `ResetWindow` runs on a third thread in three steps. Time passes in
waits and pauses only. `wake` stands for `wakeUs`, taken at the end of `Wait` before the
drain (`wasapi_capture.cpp:533`), and `lastWake` for `lastWakeUs`, which `AddUs` sets to it:
each says whether that moment lies before or after the last emptying of the
histograms. `strays` counts the samples of the window that began before it; `torn`
says that the last reset overlapped a round of the loop (533 to 684).

### 2.5 LossyFifo

`LossyFifo` has no mutex, token, tasks or writes: frames are offered, accepted,
discarded (the oldest of its kind, while the frame that is offered, with its own
size and kind, does not fit), refused (audio larger than
the limit) and leave in order. `WriteQueue!ImplementsLossyFifo` maps the deque to
`waiting`, `wire` to `sent`, `droppedTotal` to `lost`.
The frame that a thread holds under L3 is `offered`; every step of the
detailed module is then a step of this one or changes nothing in it.

### 2.6 RingBuffer and SampleFifo

`Push` is `Push` (loads), `DropOldest` (on overflow), one `CopyIn` per sample, and
`Publish`; `Pop` is `Pop`, `LoadWritePos`, one `CopyOut` per sample, and `StoreReadPos`;
`Clear` is two stores. A sample is the number of its writing, so that the contents
tell what was lost, repeated or reordered. The buffer refines `SampleFifo` as long
as no `Pop` overlaps the drop of an overflow or a `Clear`; from such an overlap
to the next undisturbed `Clear` nothing is promised (`sound`). `SampleFifo` may drop
exactly what an arriving packet has too much: the oldest `Len(queue) + arriving -
Limit` samples, so none when there is room. `DropOldest` stores a
position computed from an earlier load, and `StoreReadPos` one computed by the
other thread: after the overlap samples may be skipped or delivered twice.
`OverflowKeepsNewest` says what is left of the promise even then.

### 2.7 Player

Samples and the envelope are counted in blocks. `Process` is one call of
`process()` of the worklet, `Snapshot` and `Render` one turn of `RenderLoop` (between
them packets may arrive). `Prefill`, `Play` and `Fading` are the three branches; both
players use them with other arguments: the worklet takes one block per call and
goes on reading in SOFT_UNDERRUN, the native player takes a quantum of any
size and reads nothing then. The stream is the environment: packets
arrive (`Arrive`) at the pace of playback but for `Jitter`, which may pause (`Pause`),
continue with or without a backlog (`Continue`), or be cleared (`Clear`).

### 2.8 Client

`pc` is the place of the main thread in its loop and in the calls it makes:
`Connect` - `SendStart` - `ResetConfig` - `AwaitConfig` - `LeaveStream` - `Teardown` -
`StopRender` - `SendStop` - `Disconnect` - `Join` - `Sleep`. `SendText` is three steps
(test, post, wait), as the io thread can leave `run()` between any two.
The io thread runs one handler at a time: `WriteTask` and `CloseTask` (posted),
`ReadEnds`, `OnConfig` and `OnPcm` (the read), `OnWatchdogTick`. `OnConfig` goes on with
`StartRender`, `MarkStarted` and `MarkStreaming`, steps of their own since the main thread
reads and changes what they store. A failed `Connect` calls the error
handler, which clears `g_running`: the program ends. `m_buffer` is "partial" when a
message was cut off: it is not cleared on reconnect, its bytes stand
before the first message of the next connection, and a packet of odd size makes
the client exit with code 3 (`OnPcm`). `ReadEnds` is a read that fails, or one that
completes after a stop was requested, which ends the loop too
(`ws_client.cpp:104`). Two ends are absorbing: "aborted" (`std::thread` assigned over
a joinable one) and `Stuck` (the main thread waits for a promise whose task will
not run, as the io thread has left `run()`). Two waits have no limit of the code's own,
since Beast's timeouts apply to asynchronous operations only: the synchronous connect and handshake
of `Connect`, and the synchronous `close()`, which `Unanswered` says is waiting for the
server (`Disconnect` waits two seconds and then joins the thread that is in it). The
synchronous writes of a few bytes of text are taken not to block. `orphan` is history:
main has left a renderer behind that it does not know of, because the
`audio_config` that started it was forgotten or came when nobody waited any more,
and has not joined it since.

### 2.9 BrowserClient

Every handler is an action, as the page has one thread; `startAudio` is `ClickStart`,
then `Resumed`, `ModuleFailed`, `WorkletReady`, `FallbackReady`, `FallbackFails`: the ends of
its awaits. Two calls of it may be waiting at one time (`Calls`), since the
button stays enabled. `CheckStall` is the verdict, by the interval (`Tick`) or when the
page becomes visible. A lost connection is noticed (the socket is "closing" until
its close event) or not (`mute`).

## 3. Runs

| run | expects | question | bounds |
|---|---|---|---|
| `write_queue` | pass | token, wake-ups, counters, limits, and the refinement of `LossyFifo` | 2 audio frames, 4 bytes, 1 text frame, 5 frames offered |
| `session_safety` | pass | registries, single disconnect, counters, against capture, probe and shutdown | 2 sessions, 2 io threads, 2 messages |
| `session_liveness` | pass | closed sessions are destroyed, shutdown ends | 1 session, 1 io thread, 2 messages |
| `session_terminal` | violation | is a destroyed session in neither registry? | as above |
| `stall_watchdog` | pass | hanging writes are found in time, no hasty verdict | thresholds 3 and 10, clock to 20 |
| `capture_thread` | pass | figures, idle time, sampling, an end to `Stop` | 1 retry, 2 idle wakes, clock to 4, 2 resets |
| `capture_retries` | violation | is a failed recovery followed by a retry? | clock to 5, 1 reset |
| `capture_joined` | violation | is the thread joined before the object is destroyed? | clock to 5, 1 reset |
| `ring_buffer` | pass | a FIFO, and what is left of it after a race | 4 slots, packets of 1 and 3, reads of 2 and 5, 8 samples pushed |
| `player` | pass | no hard cut, hysteresis, the native player returns to full sound | start 8, resume 5, fade 3, capacity 11 blocks, quanta 1 to 3, jitter 3, 2 gaps |
| `client` | pass | stall flag, renderer, blocked sends, reconnect, Ctrl+C | none: one connection after another, for ever |
| `browser` | pass | one chain of reconnects, Stop, verdicts, resuming | 2 calls of `startAudio` at one time |

Why the bounds are enough:

- `write_queue`: sizes 1, 3, 5 against a limit of 4 give frames that fit
  together, that force evictions by bytes alone, and that exceed the limit by
  themselves; two audio slots and one text slot make every eviction loop run
  and run twice; five frames fill the queue, evict, and leave frames behind.
  The protocol does not depend on anything deeper than one frame in flight, one
  queued and one being enqueued. The run allows the end of a behaviour
  (`CHECK_DEADLOCK FALSE`): once all frames are offered or the session is closed,
  nothing need happen. All other runs check for deadlock.
- `session_*`: each property concerns one session, or one session and the walk of a
  thread over a set; two sessions put a second one ahead of or behind the first
  in a walk and let two handlers compete for the same io threads. Two messages
  are start and stop in either order, or twice. Liveness needs the smaller
  instance (one session, and one io thread, the hardest case for progress: a
  blocked handler blocks everything).
- `stall_watchdog`: threshold 10 has a grace (`10/10 = 1` below the cap), threshold 3
  has none; the clock runs through two whole windows of the longer one and
  six of the shorter one; the threshold changes in both directions.
- `capture_thread`: one retry is enough to fail, recover and give up, each with the event
  and by polling, with the configured and the degraded buffer; four ticks hold an
  idle episode that begins, grows and ends and the beginning of another; a
  tick is half a millisecond, so that rounding takes part; two resets may both fall into
  one round of the loop, or a torn one may be followed by a clean one. Both figures of
  `StraysOnlyInRace` are attained.
- `ring_buffer`: a packet of three fills an empty buffer of four slots and overflows
  any other; eight samples go twice around it, so that positions wrap in
  every phase; a read of five is larger than anything there is, a read of two
  smaller than a full buffer. The run uses the smallest capacity at which an
  overflow can leave something of what was there.
- `player`: the quanta are shorter than a fade or as long (the native device asks
  for 3 to 20 ms, a fade takes 5), the fade is shorter than the lower watermark
  and that below the start level, the order that `main.cpp:182` and
  `embedded_page.h:105` have (there 60, 80 and 5 ms); a burst fills the
  whole buffer; two gaps are an underrun, its recovery and another one.
  A jitter of three blocks, the largest quantum, lets a player take any sequence of
  quanta for ever while the stream flows at its pace.
- `client`: no counter is bounded. Everything is a flag or the place of a thread,
  and the queue of tasks holds at most one text and the close.
- `browser`: two waiting calls of `startAudio` let one finish before, during or after
  whatever happens to the other. Nothing else is bounded.

### 3.1 Properties

`WriteOwnership` and `BacklogOwned` are the invariants I-W1 and I-W6 of
`write_queue.h`; `FramesCounted`, `BytesCounted` and `FrameLimits` compare three incremental
counters with the deque; `Accounted` is the balance of frames; `ImplementsLossyFifo` is
order and drop policy together (an eviction takes the oldest frame of the offered kind,
and only when the offered frame would not fit); `FramesLeave` is its liveness. `RegisteredAlive` and `CaptureSafe`
are the pointer safety of the two registries, `DisconnectedOnce` the close gate
against the destructor, `ZombieCount` the truth of the zombies that the probe prints, `StreamingBooks` the agreement of the
three places that say who streams (they part only inside a handler that holds L2,
and by that handler's session only), `ClosedIsDestroyed` the absence of reference cycles while the io
threads run, `ShutdownEnds` the absence of deadlock between the join and the two
mutexes. `DetectedInTime` bounds the time to a verdict; `NoHastyVerdict` says when there is
one: a write has hung for the whole threshold, or the first frame after an
idle time is still on its way to the strand; and it says the same of the probe's figure.
`ProbeFigures` is what the probe says of the device after any ladder of
failures, `TotalIdleMonotone` the idle time it shows, `StraysOnlyInRace` how far the
window of the statistics can be trusted (a reset between two wakes lets in nothing of the
window before, as `capture_stats.h:87-90` promises; one that overlaps a round lets in
two distances at most), `StopReturns` the end of the capture.

`ImplementsFifo` and `OverflowKeepsNewest` are the ring buffer. `SilentPrefill` is the absence of
hard cuts: the plain silence of PREFILL is reached only from an envelope
of zero. `NoOscillation` is the hysteresis of the watermarks, counted in what was
played between two underruns. `NativePlaysOn` is the return to full sound, whatever
the quanta and however exactly the stream keeps its pace; `WorkletEscapes` the part of
it that the worklet achieves. `FreshStallFlag` ties the flag to the connection,
`RendererOwned` keeps two threads off one renderer, `BlockedByLoss` names the one way in
which `SendText` never returns, `Reconnects` and `EndsWhenAsked` are what the user sees. `OneChain`, `NoStallStorm`, `StopIsFinal` and `Resumes` are the page's.

The exceptions in these properties are part of what they say. `RendererOwned` excepts a
renderer that main has left behind (`orphan`): it is started by an `audio_config` that is
forgotten (`main.cpp:296`) or that comes when main has given up waiting for it, and
`main.cpp:300` then leaves the loop without the `Stop` that an ordinary end has. The
exception ends when that renderer is joined; a wait that merely ends without a config is none.
`StopIsFinal` excludes a `startAudio` that was waiting when Stop was
clicked: it goes on, and streams. `NoStallStorm` allows one verdict on a new connection
before its first PCM, when the watchdog was still armed by the connection before, and
excludes a second. `Resumes` excludes a connection that died
unnoticed before its first PCM, on which nothing is armed, and says nothing of a
`startAudio` that goes on while the page is connecting, which leaves `isStreaming` without
`wasStreaming`. `SilentPrefill` does not see a `Clear`, which zeroes the envelope in the step in which it
empties the buffer. `EndsWhenAsked` and `Reconnects` except the two absorbing ends of
`Client`; `BlockedByLoss` says what the second takes, and `RendererOwned` the first. They
are about servers that do not leave a handshake or a close unanswered on
a connection that stays up (`[]<>(pc # "connect")`, `[]<>~Unanswered`).

### 3.2 Fairness

`WriteQueue`: a thread that is inside `Send` or `SendBinary` goes on (strong, as it
competes for L3, which is always released); a dispatched handler runs; a handler
that is due on the strand runs although others compete for the strand (strong:
Asio strands are FIFO). A write either completes or fails: this is what the
watchdog enforces, by closing the socket (`StallWatchdog`), so `FramesLeave` says
"or the session closes".

`SessionLifecycle`: due handlers run and go on, a mutex is obtained by whoever waits
(strong, since the walkers take it again and again), the walkers finish
their walks, operations on a closed socket complete. Not assumed: that a write
of an open session ever completes, that a client ever sends or closes, that
anybody shuts the server down.

`CaptureThread`: the capture thread runs (it is a thread of its own), its device runs
empty from time to time (it delivers in real time, and the drain loop is faster;
the loop does not look at `m_capturing` while there are packets), and a stop
that was begun goes on.

`Player`: packets arrive while the stream flows, and the device asks for blocks
(its clock drives both players). A pause may last for ever: the properties assume
`<>[]flowing` where they need it.

`Client`: both threads run what is due, the watchdog ticks, and a read on a lost
connection ends. Not assumed: that the server
answers anything, the handshake and the close included, that PCM comes or stops coming,
that a connection holds or is lost.

`BrowserClient`: timers fire, a socket that is connecting opens or fails, one that is
closing closes, and time passes on a connection that has died. The user, the awaits of
`startAudio` and the server owe nothing; `Resumes` assumes a server that stays up from
some time on.

`RingBuffer` has no liveness property. `StallWatchdog` needs no fairness: time is explicit and its progress is bounded by
invariants.

### 3.3 What the failing runs show

- `session_terminal`: `OnRead` does not look at `m_closed`; a `start` that was read
  before the close and handled after it inserts the session into
  `streamingSessions` after the disconnect callback has erased it. Nothing
  erases it again, so the capture thread will send to a destroyed object.
  `CaptureSafe` therefore makes exactly these sessions (`lateStarts`) an
  exception: the run `session_safety` shows that it is the only way.
- `capture_retries`: `ReinitializeDevice` releases the device before it opens it again. If
  that fails, the client is null and the loop goes round and calls through it. In the model this
  ends the process (`pc = "crashed"`), and the other properties of
  `CaptureThread` are about the behaviours in which it does not happen.
- `capture_joined`: a thread that gave up has cleared `m_capturing`
  (`wasapi_capture.cpp:752`), so that `Stop` returns at 401, before it joins, and destroying the
  object ends in `std::terminate`; the comment at 55 takes the join for granted.

More divergences were met and have no run of their own; the properties named with them
hold because they say so:

- `process()` of the worklet reads in SOFT_UNDERRUN too, a block per call, and
  throws it away (`embedded_page.h:165`, 192). When packets come at exactly the pace of
  playback the level stays where it is, below `resumeSamples`, and the page is silent
  until a burst, a pause of the page or a click helps. `NativePlaysOn` is therefore about
  the native player, and `WorkletEscapes` asks for a backlog.
- A renderer that was started by a forgotten or late `audio_config` (`orphan`,
  `main.cpp:296` and 300) is not stopped. If it plays on, the next
  `Start` returns at once. If its thread has ended by then, the next `Start` assigns over a
  joinable thread and the process ends in `std::terminate`, where `main.cpp:315-317` calls the
  end of the render thread a recoverable error. `RendererOwned` excepts it.
- `SendText` tests `m_connected` (`ws_client.cpp:137`), posts its task (141) and waits for it without a limit
  (150); if the io thread leaves `run()` in between, main hangs and does not see Ctrl+C.
  `BlockedByLoss` shows that nothing else makes it hang.
- `Disconnect` waits two seconds and then joins (`ws_client.cpp:164-176`), however long the
  synchronous `close()` takes: a server that keeps the connection but does not answer holds the
  client for ever. `EndsWhenAsked` and `Reconnects` assume that it does not.
- `ResetWindow` that overlaps a round of the loop lets up to two distances of the old
  window into the new one: `wakeUs` is taken before the drain and the epoch is read after
  it (`wasapi_capture.cpp:533`, 665), and the histograms are emptied before the epoch is raised
  (`capture_stats.h:124`).

- A session closed as stalled just before `HttpServer::Stop` keeps its cycle, since
  the posted `ClearCallbacks` never runs and the session is no longer in the
  registry that `Stop` walks (`http_server.cpp:591`, against the comment at 629).
- While a session is idle only the timer moves `m_lastProgressMs`; a first frame
  enqueued just before the timer fires is judged by an age that is not its own
  (`write_queue.h:331`, against the comment at 195). `FillProbe` reads the clock before
  the progress, and the unsigned difference wraps around (`http_server.cpp:563`).
  `NoHastyVerdict` names both races and excludes any other.
- Two threads in `TakeDropLogEvent` may log an underflowed figure (`write_queue.h:217`).
- Every way in which `Connect` fails goes through `Fail` and its handler, which clears
  `g_running`: the backoff at `main.cpp:271` is never reached, although the comment
  at 259 promises a retry "same behavior as browser client".

## 4. Proofs

Every invariant and action property that a passing run checks is proved by TLAPS,
and both refinements, for every value of the constants that the
named assumptions allow:

| theorem | module | establishes |
|---|---|---|
| `TypeCorrect` | `WriteQueueProofs` | `Spec => []TypeOK` |
| `OwnershipCorrect` | | `Spec => []WriteOwnership` |
| `BacklogCorrect` | | `Spec => []BacklogOwned` |
| `CountsCorrect` | | `Spec => []FramesCounted` |
| `LimitsCorrect` | | `Spec => []FrameLimits` |
| `AccountCorrect` | | `Spec => []Accounted` |
| `BytesCorrect` | | `Spec => []BytesCounted` |
| `Refinement` | | `Spec => ImplementsLossyFifo` |
| `TypeCorrect` | `SessionLifecycleProofs` | `Spec => []TypeOK` |
| `RegisteredAreAlive` | | `Spec => []RegisteredAlive` |
| `CaptureIsSafe` | | `Spec => []CaptureSafe` |
| `DisconnectIsOnce` | | `Spec => []DisconnectedOnce` |
| `StreamingBooksAgree` | | `Spec => []StreamingBooks` |
| `ZombiesAreCounted` | | `Spec => []ZombieCount` |
| `HangsAreDetected` | `StallWatchdogProofs` | `Spec => []DetectedInTime` |
| `VerdictsAreDue` | | `Spec => NoHastyVerdict` |
| `TypeCorrect` | `CaptureThreadProofs` | `Spec => []TypeOK` |
| `FiguresAreTrue` | | `Spec => []ProbeFigures` |
| `IdleTimeGrows` | | `Spec => TotalIdleMonotone` |
| `StraysAreRaces` | | `Spec => []StraysOnlyInRace` |
| `TypeCorrect` | `RingBufferProofs` | `Spec => []TypeOK` |
| `NewestAreKept` | | `Spec => []OverflowKeepsNewest` |
| `Refinement` | | `Spec => ImplementsFifo` |
| `SilenceIsFaded` | `PlayerProofs` | `Spec => []SilentPrefill` |
| `HysteresisHolds` | | `Spec => NoOscillation` |
| `StallFlagIsFresh` | `ClientProofs` | `Spec => []FreshStallFlag` |
| `RendererIsOwned` | | `Spec => []RendererOwned` |
| `OnlyLossBlocks` | | `Spec => []BlockedByLoss` |
| `ChainCorrect` | `BrowserClientProofs` | `Spec => []OneChain` |
| `StopCorrect` | | `Spec => []StopIsFinal` |
| `VerdictsSpaced` | | `Spec => NoStallStorm` |

In each module the property is not inductive by itself; `IInv` is what had to be
added. TLC agreed to each invariant, on the instance of the run, before it was
proved. `InvInit` and `InvNext` are its two obligations, the latter by one step
(or lemma) per action.

### 4.1 The arguments

**`WriteQueue`.** The ownership token is one resource that moves from the thread
that took it to a dispatched task to an in-flight write and back.
`WriteOwnership` is not inductive alone: nothing would keep a second
thread from taking the token while the first is between `Enqueue` and its
dispatch. `IInv` adds `Exclusion` (who is inside the critical section holds L3),
so that the emptiness a writer saw when it gave the token up cannot have changed
before it let go. `CInv` keeps the books of the frames: its lemmas say what removing the
element at a position does to the number of text and of audio frames and to the
balance of offered, written, queued and dropped ones; counting is by the
cardinality of index sets. `SInv` keeps the bytes. It rests on `CInv`, since the
byte limit holds after an append for one of two reasons, that the whole deque leaves
room or that there is no other audio frame, and adds `Checked`: a frame that is
enqueued has passed the test of its size. A sum is a table of partial sums
(`Summed`); that there is one and only one is shown by a least counterexample
(`SumExists`, `SumsAgree`), so that every later fact is the exhibition of a table
(`BytesWithout`, `BytesAppend`). `RInv` says who holds L3 and with which frame;
from it and the counts, each step of the queue is a step of `LossyFifo` or none: an
eviction discards the oldest frame of the kind that is offered, and the counts and the
bytes show that the frame in hand did not fit.

**`SessionLifecycle`.** The pointer properties rest on where a session can be: `FreshState`
(nothing is attached before the connect), `PhaseState` (what each phase of the
object's life may still hold), `RegistryState` and `StreamingState` (what the
gate, the two registries and the references say of each other: a session in
`m_sessions` is alive and holds itself, a closed one is on its way to the erase)
and `WalkState` (what a walker still has to visit is registered, as long as it
holds the mutex). `LockState` says that a handler between two of its steps under L2
(`Inside`) holds L2, and that there is one of them. `CoreNext` keeps these for one session at a time. `LiveCount` ties
`m_liveSessions` to the objects that exist, for any finite set of sessions;
`ZombieCount` follows by counting.

**`StallWatchdog`.** The bound on detection rests on the timer: it sleeps no longer than
the largest effective threshold and is not later than `Latency` (`TimerArmed`), and
it wakes up before the stall of the write in progress is due (`WakesInTime`),
whatever thresholds are set meanwhile.

**`CaptureThread`.** `DeviceTruth` is about the device record and is shown for every
outcome of an initialisation; `IdleBooks` bounds the published total by the closed
episodes and the running one. `EpochState` counts what can still become a stray: the
base in hand and the stored one, if they are of an earlier window, and those that
were counted already are two at most (`Rounds`), and none unless a round overlapped the reset
(`Untorn`).

**`RingBuffer`.** `NewestKept` distinguishes a buffer that has been filled since the last
`Clear` (every position but the next to be written holds one of the newest
samples) from one that has not (no position has passed the write position): in
the first case any read position is harmless, which is why the race on the read position
spoils nothing that stays. Arithmetic modulo the capacity is confined to a few lemmas
(`Wrap`, `NextPosition`, `DistanceAdds`, `Advance`). For the refinement `FInv` adds
that, until a `Pop` is overlapped, a packet being copied has room beside what
may be read and a `Pop` has read the oldest samples there are; the contents are then
`Newest`, and each step is one of `SampleFifo` or none.

**`Player`.** `WatermarkHeld`: what was played and what is left make up the lower
watermark. `SnapshotHolds`: a snapshot never promises more than is there.

**`Client`.** `StartOnce` follows the one "start" of a connection through the queue of
tasks, `ConfigState` the one `audio_config` that may answer it, and `RendererKnown` says what
main knows of the renderer at each of its places, as long as it has left none behind
(`orphan`). `TaskState` says that a promise that is pending has its task in the
queue, that only the join asks for a close, and that the io thread, as long as main has
not hung up, stops reading only when it has seen the end of the connection.

**`BrowserClient`.** `NothingPending` (no `startAudio` waits after an undisturbed Stop) and
`ArmedByPcm` (the watchdog is armed by PCM only) are all that is missing.

### 4.2 The assumptions

`ConfigAssumption`: sizes and capacities of the queue are natural numbers, the frame limits at least
one (with a limit of zero `EnqueueLocked` would append to a full queue).
`LifecycleAssumption`: finitely many sessions, one io thread at least.
`WatchdogAssumption`: thresholds and the clock fit in the word that holds them, as the code's
64-bit milliseconds do for any uptime. `CaptureAssumption`: natural numbers, a positive
number of ticks in a millisecond and of wakes that make an idle episode.
`SizeAssumption`: packets smaller than the buffer (two seconds of sound against
hundredths). `WaterAssumption`: the order of the levels that `main.cpp:182` and
`embedded_page.h:105` establish (a device quantum is no longer than the lower
watermark, that no higher than the start level, that within the buffer).
`ConfigsAssumption`: an `audio_config` is supported or not. `BrowserClient` has none.

### 4.3 Only model-checked

All liveness properties (`FramesLeave`, `ClosedIsDestroyed`, `ShutdownEnds`, `StopReturns`,
`NativePlaysOn`, `WorkletEscapes`, `EndsWhenAsked`, `Reconnects`, `Resumes`): fairness
and ENABLED are out of the prover's reach. `StallWatchdog`, `Player`, `Client` and `BrowserClient` have
no type invariant among their runs' properties; their proofs contain what typing they
need (`WatchTypes`, `PlayerTypes`, `ClientTypes`).

## 5. Not modelled

- `HttpServer::Start`, acceptors, certificate generation, `HttpSession`, routing: I/O
  and formatting without state that the properties depend on. `BroadcastBinary` and
  `BroadcastText` have no caller.
- PCM conversion: floating-point signal processing.
- JSON output of the probe, logs: wording.
- The fault switches of injection builds: off in the default build; the
  suppressed write is the write that never completes, which the models have
  anyway.
- The drop log (`TakeDropLogEvent`, `MaybeLogDrop`): four atomics that decide how often a
  line is logged and which figure it quotes; nothing else reads them.
- Histograms of the capture statistics: planned, below.
- The page's texts, volume and `fallbackBuffer` (an array that is trimmed to two
  seconds); the client's command line, the parsing of `audio_config`, the opening
  of the sound device, the dump file.
- The test scripts: read as documentation.
- Weak memory: all atomics are sequentially consistent in the models.

## 6. Plan

1. Proofs: the safety half of the liveness properties (that the variant by which
   each is argued never grows), for `FramesLeave` and `StopReturns` first.
2. `CaptureStats`: `AddUs` and `QuantileMs` against a reference definition of a
   quantile. `SincResampler`: the integer bookkeeping of its input and positions.
3. `FaultInjection`: the switches of injection builds that suppress or delay a step,
   in `SessionLifecycle`.
