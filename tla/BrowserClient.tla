---------------------------- MODULE BrowserClient ----------------------------
(***************************************************************************)
(* The script of the browser page (embedded_page.h): the WebSocket with    *)
(* its reconnect timer, Start and Stop of the user, the stall watchdog and *)
(* the automatic resume.  Every handler runs to its end, but startAudio    *)
(* waits (await) up to three times, and anything may run in between.       *)
(*                                                                         *)
(* A socket counts as "closing" from the loss of the connection to its     *)
(* close event: send() discards in both states.  Left out: the samples     *)
(* (Player), the text of the page, and the reason why a worklet or an      *)
(* audio context cannot be had (it is not there or fails).                 *)
(***************************************************************************)
EXTENDS Naturals

CONSTANT Calls   \* bound of the model: calls of startAudio at one time

VARIABLES
  sock,           \* ws.readyState: "connecting", "open", "closing", "closed"
  timers,         \* pending setTimeout(connect, 1000)
  isStreaming, wasStreaming,
  pcmArmed, stallTimer,
  stale,          \* lastPcmAt is BROWSER_STALL_MS ago
  audioCtx, workletNode, scriptNode,   \* not null
  startBtn, stopBtn,                   \* enabled
  await,          \* of each call: "none", "resume", "module", "fallback"
  up,             \* the server is there
  mute,           \* the socket is open, but nothing arrives any more
  asked,          \* the server has got "start" on this connection
  heard,          \* history: PCM since the last verdict
  stopped         \* history: the last click was Stop, none of Start was
                  \* still waiting

stream == <<isStreaming, wasStreaming>>
watchdog == <<pcmArmed, stallTimer, stale, heard>>
audio == <<audioCtx, workletNode, scriptNode>>
buttons == <<startBtn, stopBtn>>
net == <<sock, timers, up, mute, asked>>
vars == <<stream, watchdog, audio, buttons, net, await, stopped>>

\* The script ends with connect().
Init ==
  /\ sock = "connecting" /\ timers = 0
  /\ isStreaming = FALSE /\ wasStreaming = FALSE
  /\ pcmArmed = FALSE /\ stallTimer = FALSE /\ stale = TRUE
  /\ audioCtx = FALSE /\ workletNode = FALSE /\ scriptNode = FALSE
  /\ startBtn = FALSE /\ stopBtn = FALSE
  /\ await = [c \in Calls |-> "none"]
  /\ up = TRUE /\ mute = FALSE /\ asked = FALSE
  /\ heard = FALSE /\ stopped = FALSE

-----------------------------------------------------------------------------
(* The connection.                                                         *)

\* connect(), called by the timer.
Connect ==
  /\ timers > 0
  /\ timers' = timers - 1
  /\ sock' = "connecting" /\ mute' = FALSE /\ asked' = FALSE
  /\ UNCHANGED <<stream, watchdog, audio, buttons, up, await, stopped>>

CanResume == wasStreaming /\ audioCtx /\ (workletNode \/ scriptNode)

OnOpen ==
  /\ sock = "connecting" /\ up
  /\ sock' = "open"
  /\ IF CanResume
     THEN /\ isStreaming' = TRUE /\ asked' = TRUE
          /\ startBtn' = FALSE /\ stopBtn' = TRUE
     ELSE startBtn' = TRUE /\ UNCHANGED <<isStreaming, asked, stopBtn>>
  /\ UNCHANGED <<wasStreaming, watchdog, audio, timers, up, mute, await, stopped>>

\* The close event; a failed connection has one too, after onerror.
OnClose ==
  /\ \/ sock = "closing"
     \/ sock = "connecting" /\ ~up
  /\ sock' = "closed" /\ timers' = timers + 1
  /\ wasStreaming' = (wasStreaming \/ isStreaming)
  /\ isStreaming' = FALSE
  /\ startBtn' = FALSE /\ stopBtn' = FALSE
  /\ UNCHANGED <<watchdog, audio, up, mute, asked, await, stopped>>

\* onmessage with PCM.
OnPcm ==
  /\ sock = "open" /\ asked /\ up /\ ~mute
  /\ isStreaming
  /\ stale' = FALSE /\ heard' = TRUE
  /\ pcmArmed' = TRUE
  /\ stallTimer' = (stallTimer \/ ~pcmArmed)
  /\ UNCHANGED <<stream, audio, buttons, net, await, stopped>>

-----------------------------------------------------------------------------
(* The stall watchdog.                                                     *)

\* Clears the interval and stays armed: the next PCM does not start it again.
HandleStall_Bad ==
  /\ isStreaming' = FALSE /\ wasStreaming' = TRUE
  /\ stallTimer' = FALSE
  /\ heard' = FALSE
  /\ sock' = IF sock = "closed" THEN "closed" ELSE "closing"
  /\ UNCHANGED <<pcmArmed, stale, audio, buttons, timers, up, mute, asked, await, stopped>>

\* Schedules the reconnect itself, which onclose does as well.
HandleStall_Fork_Bad ==
  /\ isStreaming' = FALSE /\ wasStreaming' = TRUE
  /\ pcmArmed' = FALSE /\ stallTimer' = FALSE
  /\ heard' = FALSE
  /\ sock' = IF sock = "closed" THEN "closed" ELSE "closing"
  /\ timers' = timers + 1
  /\ UNCHANGED <<stale, audio, buttons, up, mute, asked, await, stopped>>

\* close() of a socket that is closed already has no effect.
HandleStall ==
  /\ isStreaming' = FALSE /\ wasStreaming' = TRUE
  /\ pcmArmed' = FALSE /\ stallTimer' = FALSE
  /\ heard' = FALSE
  /\ sock' = IF sock = "closed" THEN "closed" ELSE "closing"
  /\ UNCHANGED <<stale, audio, buttons, timers, up, mute, asked, await, stopped>>

\* Judges a stream that has not begun.
Stalled_Bad == isStreaming /\ stale

Stalled == isStreaming /\ pcmArmed /\ stale

\* By the interval, or because the page becomes visible again.
CheckStall == Stalled /\ HandleStall
Tick == stallTimer /\ CheckStall

-----------------------------------------------------------------------------
(* Start.                                                                  *)

\* startAudio up to its first await; a worklet that cannot be had leads to
\* the fallback.
ClickStart(c) ==
  /\ startBtn /\ sock = "open" /\ await[c] = "none"
  /\ audioCtx' = TRUE
  /\ \E next \in {"resume", "module", "fallback"} : await' = [await EXCEPT ![c] = next]
  /\ stopped' = FALSE
  /\ UNCHANGED <<stream, watchdog, workletNode, scriptNode, buttons, net>>

\* resume() has come back: on to the module, unless Stop took the context.
Resumed(c) ==
  /\ await[c] = "resume"
  /\ \E next \in {"module", "fallback"} :
       /\ audioCtx \/ next = "fallback"
       /\ await' = [await EXCEPT ![c] = next]
  /\ audioCtx' = TRUE
  /\ UNCHANGED <<stream, watchdog, workletNode, scriptNode, buttons, net, stopped>>

\* addModule has failed, or there is no context any more: the fallback, with
\* a new context if need be.
ModuleFailed(c) ==
  /\ await[c] = "module"
  /\ await' = [await EXCEPT ![c] = "fallback"]
  /\ audioCtx' = TRUE
  /\ UNCHANGED <<stream, watchdog, workletNode, scriptNode, buttons, net, stopped>>

\* The end of startAudio.  While the next connection is being made, send()
\* throws, and the rest is not done; on a closed one it discards.
StartStream ==
  /\ isStreaming' = TRUE
  /\ IF sock = "connecting"
     THEN UNCHANGED <<wasStreaming, stale, asked, buttons>>
     ELSE /\ asked' = (asked \/ sock = "open")
          /\ stale' = FALSE
          /\ wasStreaming' = TRUE
          /\ startBtn' = FALSE /\ stopBtn' = TRUE

\* The module is there, and so is the context.
WorkletReady(c) ==
  /\ await[c] = "module" /\ audioCtx
  /\ await' = [await EXCEPT ![c] = "none"]
  /\ workletNode' = TRUE
  /\ StartStream
  /\ UNCHANGED <<pcmArmed, stallTimer, heard, audioCtx, scriptNode, sock, timers, up,
                 mute, stopped>>

\* The fallback goes on (its own await may not have waited at all).
FallbackReady(c) ==
  /\ await[c] = "fallback" /\ audioCtx
  /\ await' = [await EXCEPT ![c] = "none"]
  /\ scriptNode' = TRUE
  /\ StartStream
  /\ UNCHANGED <<pcmArmed, stallTimer, heard, audioCtx, workletNode, sock, timers, up,
                 mute, stopped>>

\* Stop took the context during the last await: the call ends in a TypeError.
FallbackFails(c) ==
  /\ await[c] = "fallback" /\ ~audioCtx
  /\ await' = [await EXCEPT ![c] = "none"]
  /\ UNCHANGED <<stream, watchdog, audio, buttons, net, stopped>>

-----------------------------------------------------------------------------
(* Stop, and the rest of the world.                                        *)

\* Forgets that a lost connection is to be resumed no more.
ClickStop_Bad ==
  /\ stopBtn
  /\ isStreaming' = FALSE
  /\ pcmArmed' = FALSE /\ stallTimer' = FALSE
  /\ asked' = (asked /\ sock # "open")
  /\ workletNode' = FALSE /\ scriptNode' = FALSE /\ audioCtx' = FALSE
  /\ startBtn' = TRUE /\ stopBtn' = FALSE
  /\ stopped' = \A c \in Calls : await[c] = "none"
  /\ UNCHANGED <<wasStreaming, stale, heard, sock, timers, up, mute, await>>

ClickStop ==
  /\ stopBtn
  /\ isStreaming' = FALSE /\ wasStreaming' = FALSE
  /\ pcmArmed' = FALSE /\ stallTimer' = FALSE
  /\ asked' = (asked /\ sock # "open")
  /\ workletNode' = FALSE /\ scriptNode' = FALSE /\ audioCtx' = FALSE
  /\ startBtn' = TRUE /\ stopBtn' = FALSE
  /\ stopped' = \A c \in Calls : await[c] = "none"
  /\ UNCHANGED <<stale, heard, sock, timers, up, mute, await>>

\* Time passes without PCM.
Silence ==
  /\ ~stale
  /\ stale' = TRUE
  /\ UNCHANGED <<stream, pcmArmed, stallTimer, heard, audio, buttons, net, await, stopped>>

\* The connection is lost, noticed at once or not at all.
LinkFails ==
  /\ sock = "open"
  /\ \/ sock' = "closing" /\ UNCHANGED mute
     \/ ~up /\ mute' = TRUE /\ UNCHANGED sock
  /\ UNCHANGED <<stream, watchdog, audio, buttons, timers, up, asked, await, stopped>>

ServerChanges ==
  /\ up' = ~up
  /\ UNCHANGED <<stream, watchdog, audio, buttons, sock, timers, mute, asked, await, stopped>>

Next ==
  \/ Connect
  \/ OnOpen
  \/ OnClose
  \/ OnPcm
  \/ CheckStall
  \/ \E c \in Calls : \/ ClickStart(c)
                      \/ Resumed(c)
                      \/ ModuleFailed(c)
                      \/ WorkletReady(c)
                      \/ FallbackReady(c)
                      \/ FallbackFails(c)
  \/ ClickStop
  \/ Silence
  \/ LinkFails
  \/ ServerChanges

\* Timers fire, sockets open or close, and time passes on a dead connection.
\* The user and the audio device need do nothing.
Fairness ==
  /\ WF_vars(Connect) /\ WF_vars(OnOpen) /\ WF_vars(OnClose)
  /\ WF_vars(Tick) /\ WF_vars(mute /\ Silence)

Spec == Init /\ [][Next]_vars /\ Fairness
-----------------------------------------------------------------------------
(* Properties.                                                             *)

\* There is one connection, or one pending attempt, and never two: whatever
\* stalls, failures and clicks come together, the chain of onclose and
\* setTimeout (embedded_page.h:293) neither breaks nor forks.
OneChain == timers = (IF sock = "closed" THEN 1 ELSE 0)

\* README.md:16: the page reconnects and resumes.  When the server stays up,
\* a stream that the user wants flows in the end, after any closes, failed
\* attempts and stalls; except on a connection that died unnoticed before its
\* first PCM (the watchdog is armed by PCM only, embedded_page.h:313).
Resumes ==
  <>[]up =>
    (wasStreaming ~> \/ sock = "open" /\ isStreaming /\ asked /\ ~mute
                     \/ ~wasStreaming
                     \/ mute /\ ~pcmArmed)

\* A verdict may be hasty after a reconnect that took as long as a stall
\* (lastPcmAt is not renewed, embedded_page.h:332), but only once: between
\* two verdicts PCM has arrived, so that the page cannot reconnect for ever
\* without giving the stream a chance.
NoStallStorm == [][CheckStall => heard]_vars

\* The user's Stop is final (embedded_page.h:502): nothing but a new click on
\* Start streams again, unless a call of startAudio was still waiting when
\* Stop was clicked; that one goes on and starts the stream.
StopIsFinal == stopped => ~isStreaming /\ ~wasStreaming
=============================================================================
