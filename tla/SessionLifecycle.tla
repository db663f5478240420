-------------------------- MODULE SessionLifecycle --------------------------
(***************************************************************************)
(* The life of a WebSocket session of the sound server, from the upgrade   *)
(* of an HTTP connection to the destruction of the session object, with    *)
(* the two registries that hold raw pointers to it: HttpServer::m_sessions *)
(* (guarded by L1) and main()'s streamingSessions (guarded by L2).         *)
(*                                                                         *)
(* Actors: the io threads, which run the handlers of each session's strand *)
(* one at a time; the WASAPI capture thread, which walks streamingSessions *)
(* holding L2; a thread that dumps the probe, walking m_sessions holding   *)
(* L1; and the main thread, which shuts everything down.                   *)
(*                                                                         *)
(* A session object lives as long as somebody holds a shared_ptr to it:    *)
(* itself (m_self), its write queue's callbacks, or a handler, pending or  *)
(* running.  The registries hold none.                                     *)
(*                                                                         *)
(* Abstractions: the write queue is reduced to "a write handler is         *)
(* pending" (module WriteQueue has the rest) and the stall verdict to      *)
(* "while something is to be written" (StallWatchdog has the clock); L3 is *)
(* a leaf lock held inside single steps here.  The capture callback reads   *)
(* hasStreamingClients when it obtains L2 here, and some time before in     *)
(* the code; this only leaves out walks over an empty set.  Messages other *)
(* than "start" and "stop" change nothing and are left out.  The fault switches are     *)
(* off, as in the default build.                                           *)
(***************************************************************************)
EXTENDS Integers, FiniteSets

CONSTANTS
  Sessions,      \* the WebSocket sessions of one behaviour
  IoThreads,     \* number of threads that run m_ioc (4 in HttpServer::Start)
  MaxMessages    \* bound of the model: messages a client sends

ASSUME LifecycleAssumption ==
  /\ IsFiniteSet(Sessions)
  /\ IoThreads \in Nat \ {0}
  /\ MaxMessages \in Nat

VARIABLES
  life,          \* of each session object
  m_closed,      \* the close gate of each session
  m_self,        \* does the session hold itself?
  callbacks,     \* do m_wq's m_onStall and m_keeper hold the session?
  timerActive,   \* m_wq.m_timerActive
  m_streaming,   \* the flag the probe reports
  read,          \* the pending accept or read, or its result
  write,         \* is a DoWrite task or an async_write pending?
  clearing,      \* is the posted ClearCallbacks pending?
  pc,            \* where the handler running on the strand is
  reason,        \* CloseReason of the ForceClose that runs or ran
  m_sessions,         \* HttpServer's registry
  streamingSessions,  \* main()'s registry
  hasStreamingClients,
  L1, L2,        \* holders of the two mutexes ("free" between single steps)
  visiting,      \* sessions the probe still has to visit, holding L1
  hook,          \* is the probe about to run the hook of main()?
  todo,          \* sessions the capture thread still has to send to
  cur,           \* session it is enqueueing to, at most one
  main,          \* progress of the shutdown
  m_liveSessions, m_forceClosed, m_writeStalls,   \* the probe's counters
  messages,      \* history: messages received from each client
  disconnects,   \* history: OnSessionDisconnected calls for each session
  lateStarts     \* history: sessions whose "start" was handled after they closed

object    == <<life, m_closed, m_self, callbacks, timerActive, m_streaming>>
handlers  == <<read, write, clearing, pc, reason>>
registry  == <<m_sessions, streamingSessions, hasStreamingClients>>
probe     == <<L1, visiting, hook>>
capture   == <<L2, todo, cur>>
counters  == <<m_liveSessions, m_forceClosed, m_writeStalls>>
history   == <<messages, disconnects, lateStarts>>

vars == <<object, handlers, registry, probe, capture, main, counters, history>>

Messages == {"start", "stop"}

\* CloseReason, as far as it matters: a stall, the other exceptions (which
\* are logged), and the silent ones (peer_closed, server_stop).
Reasons == {"write_stall", "exception", "silent"}

IsExceptionReason(r) == r # "silent"

\* Every variable holds a value of its kind.
TypeOK ==
  /\ life \in [Sessions -> {"unborn", "alive", "dying", "destroyed"}]
  /\ m_closed \in [Sessions -> BOOLEAN]
  /\ m_self \in [Sessions -> BOOLEAN]
  /\ callbacks \in [Sessions -> BOOLEAN]
  /\ timerActive \in [Sessions -> BOOLEAN]
  /\ m_streaming \in [Sessions -> BOOLEAN]
  /\ read \in [Sessions ->
                 {"none", "accept", "wait", "eof", "error"} \cup Messages]
  /\ write \in [Sessions -> BOOLEAN]
  /\ clearing \in [Sessions -> BOOLEAN]
  /\ pc \in [Sessions -> {"idle", "connect", "log", "detach", "erase",
                          "callback", "callbackGate", "release",
                          "start", "startFlag", "startGate",
                          "stop", "stopFlag", "stopGate"}]
  /\ reason \in [Sessions -> Reasons]
  /\ m_sessions \subseteq Sessions
  /\ streamingSessions \subseteq Sessions
  /\ hasStreamingClients \in BOOLEAN
  /\ L1 \in {"free", "probe"}
  /\ L2 \in {"free", "capture", "handler"}
  /\ visiting \subseteq Sessions
  /\ hook \in BOOLEAN
  /\ todo \subseteq Sessions
  /\ cur \subseteq Sessions
  /\ main \in {"run", "captureStopped", "joining", "closing", "stopped", "ended"}
  /\ m_liveSessions \in Nat
  /\ m_forceClosed \in Nat
  /\ m_writeStalls \in Nat
  /\ messages \in [Sessions -> Nat]
  /\ disconnects \in [Sessions -> Nat]
  /\ lateStarts \subseteq Sessions

Init ==
  /\ life = [s \in Sessions |-> "unborn"]
  /\ m_closed = [s \in Sessions |-> FALSE]
  /\ m_self = [s \in Sessions |-> FALSE]
  /\ callbacks = [s \in Sessions |-> FALSE]
  /\ timerActive = [s \in Sessions |-> FALSE]
  /\ m_streaming = [s \in Sessions |-> FALSE]
  /\ read = [s \in Sessions |-> "none"]
  /\ write = [s \in Sessions |-> FALSE]
  /\ clearing = [s \in Sessions |-> FALSE]
  /\ pc = [s \in Sessions |-> "idle"]
  /\ reason = [s \in Sessions |-> "silent"]
  /\ m_sessions = {}
  /\ streamingSessions = {}
  /\ hasStreamingClients = FALSE
  /\ L1 = "free"
  /\ L2 = "free"
  /\ visiting = {}
  /\ hook = FALSE
  /\ todo = {}
  /\ cur = {}
  /\ main = "run"
  /\ m_liveSessions = 0
  /\ m_forceClosed = 0
  /\ m_writeStalls = 0
  /\ messages = [s \in Sessions |-> 0]
  /\ disconnects = [s \in Sessions |-> 0]
  /\ lateStarts = {}

-----------------------------------------------------------------------------
(* Threads, strands and references.                                        *)

\* The io threads run handlers until m_ioc.stop().
IoRunning == main \in {"run", "captureStopped"}

\* An io thread is free to begin a handler of s, whose strand runs none.
CanRun(s) ==
  /\ IoRunning
  /\ pc[s] = "idle"
  /\ Cardinality({t \in Sessions : pc[t] # "idle"}) < IoThreads

\* Somebody holds a shared_ptr to s.
Held(s) ==
  \/ m_self[s]
  \/ callbacks[s]
  \/ read[s] # "none"
  \/ write[s]
  \/ clearing[s]
  \/ pc[s] # "idle"

\* The last shared_ptr to s is gone and its destructor is due.
Orphaned(s) == life[s] = "alive" /\ ~Held(s)

\* No handler and no destructor runs.
Quiet == \A s \in Sessions : pc[s] = "idle" /\ ~Orphaned(s)

SetPc(s, l) == pc' = [pc EXCEPT ![s] = l]

-----------------------------------------------------------------------------
(* Connecting: the HTTP session upgrades, OnAccept completes.              *)

\* Does not count the session in m_liveSessions.
Create_Bad(s) ==
  /\ IoRunning
  /\ life[s] = "unborn"
  /\ life' = [life EXCEPT ![s] = "alive"]
  /\ read' = [read EXCEPT ![s] = "accept"]
  /\ UNCHANGED <<m_closed, m_self, callbacks, timerActive, m_streaming,
                 write, clearing, pc, reason, registry, probe, capture, main,
                 counters, history>>

\* The constructor, and Run.
Create(s) ==
  /\ IoRunning
  /\ life[s] = "unborn"
  /\ life' = [life EXCEPT ![s] = "alive"]
  /\ m_liveSessions' = m_liveSessions + 1
  /\ read' = [read EXCEPT ![s] = "accept"]
  /\ UNCHANGED <<m_closed, m_self, callbacks, timerActive, m_streaming,
                 write, clearing, pc, reason, registry, probe, capture, main,
                 m_forceClosed, m_writeStalls, history>>

\* The handshake failed or timed out: OnAccept returns at once.
OnAcceptError(s) ==
  /\ CanRun(s)
  /\ read[s] = "accept"
  /\ read' = [read EXCEPT ![s] = "none"]
  /\ UNCHANGED <<object, write, clearing, pc, reason, registry, probe,
                 capture, main, counters, history>>

\* OnAccept up to the insertion: m_self is set before anything else.
OnAccept(s) ==
  /\ CanRun(s)
  /\ read[s] = "accept"
  /\ read' = [read EXCEPT ![s] = "none"]
  /\ m_self' = [m_self EXCEPT ![s] = TRUE]
  /\ SetPc(s, "connect")
  /\ UNCHANGED <<life, m_closed, callbacks, timerActive, m_streaming, write,
                 clearing, reason, registry, probe, capture, main, counters,
                 history>>

\* The insertion under L1, then the rest of OnAccept: m_wq.Start and the
\* first DoRead.  (main()'s callback does nothing on a connection.)
OnSessionConnected(s) ==
  /\ pc[s] = "connect"
  /\ L1 = "free"
  /\ m_sessions' = m_sessions \cup {s}
  /\ callbacks' = [callbacks EXCEPT ![s] = TRUE]
  /\ timerActive' = [timerActive EXCEPT ![s] = TRUE]
  /\ read' = [read EXCEPT ![s] = "wait"]
  /\ SetPc(s, "idle")
  /\ UNCHANGED <<life, m_closed, m_self, m_streaming, write, clearing, reason,
                 streamingSessions, hasStreamingClients, probe, capture, main,
                 counters, history>>

-----------------------------------------------------------------------------
(* Closing.  ForceClose runs in pieces: the gate, the log line (which       *)
(* takes L1 to count the sessions), the detachment, the two registries, and *)
(* the release of m_self.  Operators whose names end in _Bad are faulty     *)
(* variants of the operator that follows them, used only to show that a     *)
(* property notices the fault.                                              *)

\* The first ForceClose passes the gate; when it is shut nothing happens.
PassGate(s, r) ==
  /\ m_closed' = [m_closed EXCEPT ![s] = TRUE]
  /\ reason' = [reason EXCEPT ![s] = r]
  /\ SetPc(s, IF IsExceptionReason(r) THEN "log" ELSE "detach")

\* The log line prints m_server->SessionCount() - 1.
CloseLog(s) ==
  /\ pc[s] = "log"
  /\ L1 = "free"
  /\ SetPc(s, "detach")
  /\ UNCHANGED <<object, read, write, clearing, reason, registry, probe,
                 capture, main, counters, history>>

\* Keeps the callbacks, and with them the session, alive.
CloseDetach_Bad(s) ==
  /\ pc[s] = "detach"
  /\ timerActive' = [timerActive EXCEPT ![s] = FALSE]
  /\ SetPc(s, "erase")
  /\ UNCHANGED <<life, m_closed, m_self, callbacks, m_streaming, read, write,
                 clearing, reason, registry, probe, capture, main, counters,
                 history>>

\* m_wq.Stop(); ClearCallbacks, unless m_onStall is being executed; and the
\* socket is closed, which completes the pending operations.
CloseDetach(s) ==
  /\ pc[s] = "detach"
  /\ timerActive' = [timerActive EXCEPT ![s] = FALSE]
  /\ callbacks' = IF reason[s] = "write_stall" THEN callbacks
                                               ELSE [callbacks EXCEPT ![s] = FALSE]
  /\ SetPc(s, "erase")
  /\ UNCHANGED <<life, m_closed, m_self, m_streaming, read, write, clearing,
                 reason, registry, probe, capture, main, counters, history>>

\* Leaves m_sessions alone.
DisconnectErase_Bad(s) ==
  /\ pc[s] = "erase"
  /\ L1 = "free"
  /\ SetPc(s, "callback")
  /\ UNCHANGED <<object, read, write, clearing, reason, registry, probe,
                 capture, main, counters, history>>

\* OnSessionDisconnected, called by ForceClose or by the destructor: first
\* m_sessions, under L1 (DisconnectCallback is the second half).
DisconnectErase(s) ==
  /\ pc[s] = "erase"
  /\ L1 = "free"
  /\ m_sessions' = m_sessions \ {s}
  /\ SetPc(s, "callback")
  /\ UNCHANGED <<object, read, write, clearing, reason, streamingSessions,
                 hasStreamingClients, probe, capture, main, counters, history>>

\* What follows the callback: ForceClose goes on, the destructor ends.
EndOfDisconnect(s) ==
  IF life[s] = "dying"
  THEN /\ life' = [life EXCEPT ![s] = "destroyed"]
       /\ m_liveSessions' = m_liveSessions - 1
       /\ SetPc(s, "idle")
  ELSE /\ SetPc(s, "release")
       /\ UNCHANGED <<life, m_liveSessions>>

\* Does not wait for the capture thread to let go of L2.
DisconnectCallback_Bad(s) ==
  /\ pc[s] = "callback"
  /\ streamingSessions' = streamingSessions \ {s}
  /\ hasStreamingClients' = (streamingSessions' # {})
  /\ disconnects' = [disconnects EXCEPT ![s] = @ + 1]
  /\ EndOfDisconnect(s)
  /\ UNCHANGED <<m_closed, m_self, callbacks, timerActive, m_streaming, read,
                 write, clearing, reason, m_sessions, probe, capture, main,
                 m_forceClosed, m_writeStalls, messages, lateStarts>>

\* Then main()'s callback takes L2 and erases the session there (its
\* m_streaming is left as it is: the object is about to die) ...
DisconnectCallback(s) ==
  /\ pc[s] = "callback"
  /\ L2 = "free"
  /\ L2' = "handler"
  /\ streamingSessions' = streamingSessions \ {s}
  /\ disconnects' = [disconnects EXCEPT ![s] = @ + 1]
  /\ SetPc(s, "callbackGate")
  /\ UNCHANGED <<object, read, write, clearing, reason, m_sessions,
                 hasStreamingClients, probe, todo, cur, main, counters,
                 messages, lateStarts>>

\* ... stores the gate of the capture thread, and lets go of L2.
DisconnectGate(s) ==
  /\ pc[s] = "callbackGate"
  /\ hasStreamingClients' = (streamingSessions # {})
  /\ L2' = "free"
  /\ EndOfDisconnect(s)
  /\ UNCHANGED <<m_closed, m_self, callbacks, timerActive, m_streaming, read,
                 write, clearing, reason, m_sessions, streamingSessions, probe,
                 todo, cur, main, m_forceClosed, m_writeStalls, history>>

\* The end of ForceClose, and of OnWriteStall: m_self.reset(), and for a
\* stall the posting of ClearCallbacks.
CloseRelease(s) ==
  /\ pc[s] = "release"
  /\ m_forceClosed' = m_forceClosed + 1
  /\ m_self' = [m_self EXCEPT ![s] = FALSE]
  /\ clearing' = IF reason[s] = "write_stall" THEN [clearing EXCEPT ![s] = TRUE]
                                              ELSE clearing
  /\ SetPc(s, "idle")
  /\ UNCHANGED <<life, m_closed, callbacks, timerActive, m_streaming, read,
                 write, reason, registry, probe, capture, main,
                 m_liveSessions, m_writeStalls, history>>

\* The posted ClearCallbacks of a stalled session runs.
ClearCallbacks(s) ==
  /\ CanRun(s)
  /\ clearing[s]
  /\ clearing' = [clearing EXCEPT ![s] = FALSE]
  /\ callbacks' = [callbacks EXCEPT ![s] = FALSE]
  /\ UNCHANGED <<life, m_closed, m_self, timerActive, m_streaming, read, write,
                 pc, reason, registry, probe, capture, main, counters, history>>

\* Disconnects whether or not ForceClose already did.
Destroy_Bad(s) ==
  /\ Orphaned(s)
  /\ m_closed' = [m_closed EXCEPT ![s] = TRUE]
  /\ life' = [life EXCEPT ![s] = "dying"]
  /\ SetPc(s, "erase")
  /\ UNCHANGED <<m_self, callbacks, timerActive, m_streaming, read, write,
                 clearing, reason, registry, probe, capture, main, counters,
                 history>>

\* Counts only the sessions that nobody closed before.
Destroy_Count_Bad(s) ==
  /\ Orphaned(s)
  /\ main # "ended"
  /\ m_closed' = [m_closed EXCEPT ![s] = TRUE]
  /\ IF m_closed[s]
     THEN /\ life' = [life EXCEPT ![s] = "destroyed"]
          /\ pc' = pc
     ELSE /\ life' = [life EXCEPT ![s] = "dying"]
          /\ SetPc(s, "erase")
  /\ UNCHANGED <<m_self, callbacks, timerActive, m_streaming, read, write,
                 clearing, reason, registry, probe, capture, main,
                 counters, history>>

\* The destructor.  Unless ForceClose ran before, it disconnects the session.
Destroy(s) ==
  /\ Orphaned(s)
  /\ main # "ended"
  /\ m_closed' = [m_closed EXCEPT ![s] = TRUE]
  /\ IF m_closed[s]
     THEN /\ life' = [life EXCEPT ![s] = "destroyed"]
          /\ m_liveSessions' = m_liveSessions - 1
          /\ pc' = pc
     ELSE /\ life' = [life EXCEPT ![s] = "dying"]
          /\ SetPc(s, "erase")
          /\ UNCHANGED m_liveSessions
  /\ UNCHANGED <<m_self, callbacks, timerActive, m_streaming, read, write,
                 clearing, reason, registry, probe, capture, main,
                 m_forceClosed, m_writeStalls, history>>

-----------------------------------------------------------------------------
(* Reading.                                                                *)

\* The pending async_read gets a result; on a closed socket only an error,
\* while a result obtained before stays what it was.
ReadCompletes(s) ==
  /\ read[s] = "wait"
  /\ \/ read' = [read EXCEPT ![s] = "error"] /\ UNCHANGED messages
     \/ /\ ~m_closed[s]
        /\ read' = [read EXCEPT ![s] = "eof"] /\ UNCHANGED messages
     \/ /\ ~m_closed[s]
        /\ messages[s] < MaxMessages
        /\ \E m \in Messages : read' = [read EXCEPT ![s] = m]
        /\ messages' = [messages EXCEPT ![s] = @ + 1]
  /\ main # "ended"
  /\ UNCHANGED <<object, write, clearing, pc, reason, registry, probe, capture,
                 main, counters, disconnects, lateStarts>>

\* OnRead with an error: ForceClose, unless the gate is shut; no DoRead.
OnReadError(s) ==
  /\ CanRun(s)
  /\ read[s] \in {"eof", "error"}
  /\ read' = [read EXCEPT ![s] = "none"]
  /\ IF m_closed[s]
     THEN UNCHANGED <<m_closed, reason, pc>>
     ELSE PassGate(s, IF read[s] = "eof" THEN "silent" ELSE "exception")
  /\ UNCHANGED <<life, m_self, callbacks, timerActive, m_streaming, write,
                 clearing, registry, probe, capture, main, counters, history>>

\* OnRead with "start", up to the lock: Send(config) takes its fast path out
\* if the session is closed; nothing else looks at m_closed.
OnReadStart(s) ==
  /\ CanRun(s)
  /\ read[s] = "start"
  /\ read' = [read EXCEPT ![s] = "none"]
  /\ write' = [write EXCEPT ![s] = @ \/ ~m_closed[s]]
  /\ lateStarts' = IF m_closed[s] THEN lateStarts \cup {s} ELSE lateStarts
  /\ SetPc(s, "start")
  /\ UNCHANGED <<object, clearing, reason, registry, probe, capture, main,
                 counters, messages, disconnects>>

\* OnRead with "stop", up to the lock.
OnReadStop(s) ==
  /\ CanRun(s)
  /\ read[s] = "stop"
  /\ read' = [read EXCEPT ![s] = "none"]
  /\ SetPc(s, "stop")
  /\ UNCHANGED <<object, write, clearing, reason, registry, probe, capture,
                 main, counters, history>>

\* main()'s message callback on "start", under L2: the session joins the set,
\* its flag is raised, and last the gate of the capture thread; then DoRead.
Start(s) ==
  /\ pc[s] = "start"
  /\ L2 = "free"
  /\ L2' = "handler"
  /\ streamingSessions' = streamingSessions \cup {s}
  /\ SetPc(s, "startFlag")
  /\ UNCHANGED <<object, read, write, clearing, reason, m_sessions,
                 hasStreamingClients, probe, todo, cur, main, counters, history>>

StartFlag(s) ==
  /\ pc[s] = "startFlag"
  /\ m_streaming' = [m_streaming EXCEPT ![s] = TRUE]
  /\ SetPc(s, "startGate")
  /\ UNCHANGED <<life, m_closed, m_self, callbacks, timerActive, read, write,
                 clearing, reason, registry, probe, capture, main, counters,
                 history>>

StartGate(s) ==
  /\ pc[s] = "startGate"
  /\ hasStreamingClients' = TRUE
  /\ L2' = "free"
  /\ read' = [read EXCEPT ![s] = "wait"]
  /\ SetPc(s, "idle")
  /\ UNCHANGED <<object, write, clearing, reason, m_sessions,
                 streamingSessions, probe, todo, cur, main, counters, history>>

\* Holds L2 for the erasure only.
Stop_Bad(s) ==
  /\ pc[s] = "stop"
  /\ L2 = "free"
  /\ streamingSessions' = streamingSessions \ {s}
  /\ SetPc(s, "stopFlag")
  /\ UNCHANGED <<object, read, write, clearing, reason, m_sessions,
                 hasStreamingClients, probe, capture, main, counters, history>>

\* The same on "stop".
Stop(s) ==
  /\ pc[s] = "stop"
  /\ L2 = "free"
  /\ L2' = "handler"
  /\ streamingSessions' = streamingSessions \ {s}
  /\ SetPc(s, "stopFlag")
  /\ UNCHANGED <<object, read, write, clearing, reason, m_sessions,
                 hasStreamingClients, probe, todo, cur, main, counters, history>>

StopFlag(s) ==
  /\ pc[s] = "stopFlag"
  /\ m_streaming' = [m_streaming EXCEPT ![s] = FALSE]
  /\ SetPc(s, "stopGate")
  /\ UNCHANGED <<life, m_closed, m_self, callbacks, timerActive, read, write,
                 clearing, reason, registry, probe, capture, main, counters,
                 history>>

StopGate(s) ==
  /\ pc[s] = "stopGate"
  /\ hasStreamingClients' = (streamingSessions # {})
  /\ L2' = "free"
  /\ read' = [read EXCEPT ![s] = "wait"]
  /\ SetPc(s, "idle")
  /\ UNCHANGED <<object, write, clearing, reason, m_sessions,
                 streamingSessions, probe, todo, cur, main, counters, history>>

-----------------------------------------------------------------------------
(* Writing and the watchdog.                                               *)

\* A write handler finds the queue empty and gives the ownership back, or
\* finds the session closed.
OnWriteDone(s) ==
  /\ CanRun(s)
  /\ write[s]
  /\ write' = [write EXCEPT ![s] = FALSE]
  /\ UNCHANGED <<object, read, clearing, pc, reason, registry, probe, capture,
                 main, counters, history>>

\* The write failed.
OnWriteError(s) ==
  /\ CanRun(s)
  /\ write[s]
  /\ ~m_closed[s]
  /\ write' = [write EXCEPT ![s] = FALSE]
  /\ PassGate(s, "exception")
  /\ UNCHANGED <<life, m_self, callbacks, timerActive, m_streaming, read,
                 clearing, registry, probe, capture, main, counters, history>>

\* OnTimer finds the session stalled while something is to be written.
OnWriteStall(s) ==
  /\ CanRun(s)
  /\ callbacks[s] /\ timerActive[s]
  /\ write[s] \/ s \in cur
  /\ m_writeStalls' = m_writeStalls + 1
  /\ timerActive' = [timerActive EXCEPT ![s] = FALSE]
  /\ PassGate(s, "write_stall")
  /\ UNCHANGED <<life, m_self, callbacks, m_streaming, read, write, clearing,
                 registry, probe, capture, main, m_liveSessions, m_forceClosed,
                 history>>

-----------------------------------------------------------------------------
(* The capture thread: the send loop of main()'s capture callback.         *)

CaptureBegin ==
  /\ main = "run"
  /\ hasStreamingClients
  /\ L2 = "free"
  /\ L2' = "capture"
  /\ todo' = streamingSessions
  /\ UNCHANGED <<object, handlers, registry, probe, cur, main, counters, history>>

\* SendBinary up to the fast-path test of m_closed.  (Calling it on a
\* destroyed object is undefined; what it then reads is left as it was.)
CaptureTest(s) ==
  /\ s \in todo
  /\ cur = {}
  /\ todo' = todo \ {s}
  /\ cur' = IF m_closed[s] THEN {} ELSE {s}
  /\ UNCHANGED <<object, handlers, registry, probe, L2, main, counters, history>>

\* The rest of SendBinary: enqueue, and dispatch DoWrite if there is no
\* writer yet; the session may have been closed since the test.
CaptureSend(s) ==
  /\ s \in cur
  /\ cur' = {}
  /\ write' = [write EXCEPT ![s] = TRUE]
  /\ UNCHANGED <<object, read, clearing, pc, reason, registry, probe, L2, todo,
                 main, counters, history>>

CaptureEnd ==
  /\ L2 = "capture"
  /\ todo = {}
  /\ cur = {}
  /\ L2' = "free"
  /\ UNCHANGED <<object, handlers, registry, probe, todo, cur, main, counters,
                 history>>

-----------------------------------------------------------------------------
(* DumpProbeJson, on the thread that reads stdin.                          *)

ProbeBegin ==
  /\ main # "ended"
  /\ L1 = "free"
  /\ ~hook
  /\ L1' = "probe"
  /\ visiting' = m_sessions
  /\ UNCHANGED <<object, handlers, registry, hook, capture, main, counters,
                 history>>

FillProbe(s) ==
  /\ s \in visiting
  /\ visiting' = visiting \ {s}
  /\ UNCHANGED <<object, handlers, registry, L1, hook, capture, main, counters,
                 history>>

ProbeUnlock ==
  /\ L1 = "probe"
  /\ visiting = {}
  /\ L1' = "free"
  /\ hook' = TRUE
  /\ UNCHANGED <<object, handlers, registry, visiting, capture, main, counters,
                 history>>

\* The hook of main() counts the streaming sessions under L2.
ProbeHook ==
  /\ hook
  /\ L2 = "free"
  /\ hook' = FALSE
  /\ UNCHANGED <<object, handlers, registry, L1, visiting, capture, main,
                 counters, history>>

-----------------------------------------------------------------------------
(* The main thread: capture.Stop(), HttpServer::Stop(), destruction.       *)

\* capture.Stop() joins the capture thread, which is between two packets.
StopCapture ==
  /\ main = "run"
  /\ L2 # "capture"
  /\ main' = "captureStopped"
  /\ UNCHANGED <<object, handlers, registry, probe, capture, counters, history>>

\* m_ioc.stop(): no io thread begins another handler.
StopIo ==
  /\ main = "captureStopped"
  /\ main' = "joining"
  /\ UNCHANGED <<object, handlers, registry, probe, capture, counters, history>>

\* Waits until there is nothing left to do instead of until the handlers end.
Join_Bad ==
  /\ main = "joining"
  /\ Quiet
  /\ \A s \in Sessions : read[s] = "none" /\ ~write[s] /\ ~clearing[s]
  /\ main' = "closing"
  /\ UNCHANGED <<object, handlers, registry, probe, capture, counters, history>>

\* The io threads end when the handlers they run have ended.
Join ==
  /\ main = "joining"
  /\ Quiet
  /\ main' = "closing"
  /\ UNCHANGED <<object, handlers, registry, probe, capture, counters, history>>

\* ForceClose(server_stop) for each session of SnapshotSessions().
CloseOnStop(s) ==
  /\ main = "closing"
  /\ Quiet
  /\ L1 = "free"
  /\ s \in m_sessions
  /\ ~m_closed[s]
  /\ PassGate(s, "silent")
  /\ UNCHANGED <<life, m_self, callbacks, timerActive, m_streaming, read, write,
                 clearing, registry, probe, capture, main, counters, history>>

\* HttpServer::Stop() returns.
StopReturns ==
  /\ main = "closing"
  /\ Quiet
  /\ L1 = "free"
  /\ \A s \in m_sessions : m_closed[s]
  /\ main' = "stopped"
  /\ UNCHANGED <<object, handlers, registry, probe, capture, counters, history>>

\* ~HttpServer: the io_context drops the handlers that never ran, and the
\* sessions they alone held die (what their destructors do to the members of
\* HttpServer, some already gone, is left out).
Teardown ==
  /\ main = "stopped"
  /\ Quiet
  /\ L1 = "free" /\ ~hook
  /\ main' = "ended"
  /\ read' = [s \in Sessions |-> "none"]
  /\ write' = [s \in Sessions |-> FALSE]
  /\ clearing' = [s \in Sessions |-> FALSE]
  /\ LET gone == {s \in Sessions : life[s] = "alive" /\ ~m_self[s] /\ ~callbacks[s]}
     IN  /\ life' = [s \in Sessions |->
                       IF s \in gone THEN "destroyed" ELSE life[s]]
         /\ m_closed' = [s \in Sessions |-> m_closed[s] \/ s \in gone]
         /\ disconnects' = [s \in Sessions |->
              IF s \in gone /\ ~m_closed[s] THEN disconnects[s] + 1
                                           ELSE disconnects[s]]
         /\ m_liveSessions' = m_liveSessions - Cardinality(gone)
  /\ UNCHANGED <<m_self, callbacks, timerActive, m_streaming, pc, reason,
                 registry, probe, capture, m_forceClosed, m_writeStalls,
                 messages, lateStarts>>

\* The process is over.
Ended == main = "ended" /\ UNCHANGED vars

-----------------------------------------------------------------------------
\* What an io thread does once it runs a handler of s (or the main thread,
\* during the shutdown).
Continue(s) ==
  \/ OnSessionConnected(s) \/ CloseLog(s) \/ CloseDetach(s)
  \/ DisconnectErase(s) \/ DisconnectCallback(s) \/ DisconnectGate(s)
  \/ CloseRelease(s) \/ Destroy(s)
  \/ Start(s) \/ StartFlag(s) \/ StartGate(s)
  \/ Stop(s) \/ StopFlag(s) \/ StopGate(s)

\* The handlers that can be due on the strand of s.
Handle(s) ==
  \/ OnAcceptError(s) \/ OnAccept(s) \/ OnReadError(s) \/ OnReadStart(s)
  \/ OnReadStop(s) \/ ClearCallbacks(s)

Capture ==
  \/ CaptureBegin \/ CaptureEnd
  \/ \E s \in Sessions : CaptureTest(s) \/ CaptureSend(s)

Probe ==
  \/ ProbeBegin \/ ProbeUnlock \/ ProbeHook
  \/ \E s \in Sessions : FillProbe(s)

Shutdown ==
  \/ Join \/ StopReturns \/ Teardown
  \/ \E s \in Sessions : CloseOnStop(s)

Next ==
  \/ \E s \in Sessions :
       \/ Create(s) \/ Continue(s) \/ Handle(s) \/ ReadCompletes(s)
       \/ OnWriteDone(s) \/ OnWriteError(s) \/ OnWriteStall(s)
  \/ Capture
  \/ Probe
  \/ StopCapture \/ StopIo \/ Shutdown
  \/ Ended

Spec == Init /\ [][Next]_vars

\* Handlers that are due get run, and go on; a mutex is obtained eventually
\* by whoever waits for it; the capture thread and the probe finish what they
\* began; a read or write on a closed socket completes.  A write of an open
\* session may hang for ever, a client may stay silent for ever, and nobody
\* has to shut the server down; once begun, the shutdown goes on.
Fairness ==
  /\ \A s \in Sessions :
       /\ SF_vars(Continue(s))
       /\ SF_vars(Handle(s))
       /\ SF_vars(m_closed[s] /\ OnWriteDone(s))
       /\ WF_vars(m_closed[s] /\ ReadCompletes(s))
       /\ WF_vars(FillProbe(s))
       /\ WF_vars(CaptureTest(s) \/ CaptureSend(s))
  /\ WF_vars(CaptureEnd)
  /\ WF_vars(ProbeUnlock)
  /\ SF_vars(ProbeHook)
  /\ SF_vars(Shutdown)

FairSpec == Spec /\ Fairness

-----------------------------------------------------------------------------
(* Properties.                                                             *)

\* A registered session is not being destroyed (the assumption under which
\* DumpProbeJson dereferences the pointers of m_sessions while it holds L1,
\* http_server.cpp:1259), and a session that logs its forced close is still
\* registered, so that SessionCount() - 1 does not wrap around.
RegisteredAlive ==
  /\ \A s \in m_sessions \cup visiting : life[s] = "alive"
  /\ \A s \in Sessions : pc[s] = "log" => s \in m_sessions

\* The capture thread only sends to sessions whose object exists, however
\* closing and capturing interleave; the sessions whose "start" was handled
\* after they closed are the exception (see StreamingAlive).
CaptureSafe ==
  \A s \in todo \cup cur : life[s] = "alive" \/ s \in lateStarts

\* The disconnect semantics runs once and only once for each session, whoever
\* closes it first: ForceClose or the destructor (http_server.cpp:318).
DisconnectedOnce ==
  \A s \in Sessions :
    /\ disconnects[s] <= 1
    /\ life[s] = "destroyed" => disconnects[s] = 1

\* liveSessions minus sessions, which the probe reports, is the number of
\* sessions in handshake or closed and not yet destroyed, whenever no handler
\* is in the middle of changing one of them.
ZombieCount ==
  Quiet => m_liveSessions - Cardinality(m_sessions) =
             Cardinality({s \in Sessions :
               life[s] = "alive" /\ (read[s] = "accept" \/ m_closed[s])})

\* That a client is listening is written down three times, one after the
\* other: in streamingSessions, in the session's m_streaming, which the probe
\* reads under L1 and never under L2, and in hasStreamingClients, which the
\* capture callback reads before it takes L2.  What the probe shows of an open
\* session is wrong only between two stores of this session's own handler
\* (main.cpp:455-456, 460-461), and the gate of the capture thread is right
\* whenever no handler holds L2, however many handlers and closing sessions
\* were at it: no client stays mute behind a shut gate.
StreamingBooks ==
  /\ \A s \in m_sessions :
       ~m_closed[s] /\ pc[s] \notin {"startFlag", "stopFlag"} =>
         (m_streaming[s] <=> s \in streamingSessions)
  /\ L2 # "handler" => (hasStreamingClients <=> streamingSessions # {})

\* The retirement of a session ends with its destruction: no cycle of
\* references survives a forced close while the io threads run.
ClosedIsDestroyed ==
  \A s \in Sessions :
    m_closed[s] ~> (life[s] = "destroyed" \/ ~IoRunning)

\* HttpServer::Stop returns, whatever the sessions are doing: no handler, no
\* lock and no hanging write blocks the shutdown.
ShutdownEnds == (main = "joining") ~> (main = "ended")

\* A destroyed session is in neither registry (http_server.h:56: ForceClose
\* is the only exit, and takes the session out of both sets).
StreamingAlive ==
  \A s \in Sessions :
    life[s] = "destroyed" => s \notin m_sessions \cup streamingSessions
=============================================================================
