--------------------------- MODULE CaptureThread ---------------------------
(***************************************************************************)
(* The WASAPI loopback capture: class WasapiCapture (wasapi_capture.cpp)   *)
(* with the figures it publishes in g_captureStats (capture_stats.h).      *)
(*                                                                         *)
(* Three actors: main(), which starts the capture, stops it and destroys   *)
(* the object; the capture thread, which waits, drains the device, books   *)
(* idle time and the distance of arrivals, and recovers from device        *)
(* errors; and whoever resets the statistics window (a stdin or an HTTP    *)
(* command), which shares atomics and no lock with it.                     *)
(*                                                                         *)
(* Abstractions: a packet is whether it has frames; a wait ends by the     *)
(* event or by its timeout, which makes no difference to the rest; draining*)
(* takes no time; what a device call returns is any outcome; lastIdleMs and*)
(* the counters that are only counted are left out; one reset of the       *)
(* window runs at a time.  The fault switches are off.                     *)
(***************************************************************************)
EXTENDS Integers

CONSTANTS
  MAX_RECOVERY_ATTEMPTS,   \* of the class
  KIdleConsecutiveNoData,  \* kIdleConsecutiveNoData
  ConfiguredBufferHns,     \* m_captureBufferHns at the beginning
  LowerBuffersHns,         \* kMinCaptureBufferHns and kLegacyCaptureBufferHns
  UsPerMs,                 \* 1000
  Waits,                   \* how long a wait, or a pause before a retry, takes
  MaxTime,                 \* bound of the model: the clock
  MaxResets                \* bound of the model: resets of the window

ASSUME CaptureAssumption ==
  /\ MAX_RECOVERY_ATTEMPTS \in Nat
  /\ KIdleConsecutiveNoData \in Nat \ {0}
  /\ ConfiguredBufferHns \in Nat /\ LowerBuffersHns \subseteq Nat
  /\ UsPerMs \in Nat \ {0}
  /\ Waits \subseteq Nat
  /\ MaxTime \in Nat /\ MaxResets \in Nat

VARIABLES
  main,          \* where main() is
  m_capturing,
  thread,        \* the std::thread object; "running" until it is joined
  pc,            \* where the capture thread is
  dev,           \* the device members and what is published about them
  recoveryAttempts,
  now,           \* QpcNowUs()
  eventPathWake, gotFrames,              \* locals of one round of the loop
  idleStreak, idleActive, idleStartUs, idleClosedMs,   \* its idle locals
  totalIdleMs, currentIdleMs,                          \* published
  wake,          \* wakeUs of this round: taken before the last emptying of
                 \* interArrival, or within the window it opened
  lastWake,      \* lastWakeUs, in the same terms
  lastArrivalEpoch, epoch, exitedIdle,   \* locals of the sampling
  arrivalEpoch,
  strays,        \* samples in interArrival that began in an earlier window
  resetting,     \* progress of ResetWindow
  torn           \* history: did a round of the loop overlap the last reset?

device  == <<dev, recoveryAttempts>>
round   == <<now, eventPathWake, gotFrames>>
idle    == <<idleStreak, idleActive, idleStartUs, idleClosedMs, totalIdleMs>>
arrival == <<wake, lastWake, lastArrivalEpoch, epoch, exitedIdle>>
window  == <<arrivalEpoch, strays, resetting>>
control == <<main, m_capturing, thread>>

vars == <<control, pc, device, round, idle, currentIdleMs, arrival, window, torn>>

CaptureBuffersHns == {ConfiguredBufferHns} \cup LowerBuffersHns

\* The members of WasapiCapture that a (re)initialisation changes.
Devices ==
  [m_captureClient     : BOOLEAN,   \* is it non-null?
   m_captureEvent      : BOOLEAN,
   wired               : BOOLEAN,   \* was SetEventHandle called for the client?
   m_captureBufferHns  : CaptureBuffersHns,
   eventHandlesCreated : Nat,
   eventDriven         : BOOLEAN,
   bufferHns           : CaptureBuffersHns \cup {0}]

\* Every variable holds a value of its kind.
TypeOK ==
  /\ main \in {"initialized", "running", "stopping", "joining", "stopped", "destroyed"}
  /\ m_capturing \in BOOLEAN
  /\ thread \in {"none", "running", "joined"}
  /\ pc \in {"loop", "wait", "next", "get", "release", "account", "sample", "add",
             "recover", "backoff", "reinit", "end", "ended", "crashed"}
  /\ dev \in Devices
  /\ recoveryAttempts \in 0..(MAX_RECOVERY_ATTEMPTS + 1)
  /\ now \in 0..MaxTime
  /\ eventPathWake \in BOOLEAN
  /\ gotFrames \in BOOLEAN
  /\ idleStreak \in 0..KIdleConsecutiveNoData
  /\ idleActive \in BOOLEAN
  /\ idleStartUs \in 0..MaxTime
  /\ idleClosedMs \in Nat
  /\ totalIdleMs \in Nat
  /\ currentIdleMs \in Nat
  /\ wake \in {"none", "before", "within"}
  /\ lastWake \in {"none", "before", "within"}
  /\ lastArrivalEpoch \in Nat
  /\ epoch \in Nat
  /\ exitedIdle \in BOOLEAN
  /\ arrivalEpoch \in Nat
  /\ strays \in Nat
  /\ resetting \in {"idle", "emptied", "raised"}
  /\ torn \in BOOLEAN
-----------------------------------------------------------------------------
(* The device.                                                             *)

\* (Operators whose names end in _Bad are faulty variants of the operator that
\* follows them, used only to show that a property notices the fault.)

ReleaseDeviceResources(d) ==
  [d EXCEPT !.m_captureClient = FALSE, !.wired = FALSE]

\* Creates the event unless the object has it already.
CreateEvent(d) ==
  [d EXCEPT !.m_captureEvent = TRUE,
            !.eventHandlesCreated = IF d.m_captureEvent THEN @ ELSE @ + 1]

\* Forgets that an earlier client was driven by the event.
Polling_Bad(d) == d

\* The client is to be polled.
Polling(d) == [d EXCEPT !.eventDriven = FALSE]

\* ActivateClientAndInitialize on the members d: what it can leave when it
\* succeeds, and when it fails somewhere.
Activated(d, wantEvent) ==
  LET released == ReleaseDeviceResources(d)
      initialized == {[released EXCEPT !.m_captureBufferHns = hns] :
                        hns \in {d.m_captureBufferHns} \cup LowerBuffersHns}
      eventless == {Polling(x) : x \in initialized}
      unwired == {Polling(CreateEvent(x)) : x \in initialized}
                   \cup {x \in eventless : ~x.m_captureEvent}
      wired == {[CreateEvent(x) EXCEPT !.wired = TRUE, !.eventDriven = TRUE] :
                  x \in initialized}
      ready == IF wantEvent THEN wired ELSE eventless
      measured == {[x EXCEPT !.bufferHns = x.m_captureBufferHns] : x \in ready}
  IN  [ok |-> {[x EXCEPT !.m_captureClient = TRUE] : x \in measured},
       failed |-> {released} \cup ready \cup measured
                    \cup (IF wantEvent THEN unwired ELSE {})]

\* With the event; if that fails, without.
EventOrPolling(d) ==
  LET event == Activated(d, TRUE)
      polling == {Activated(x, FALSE) : x \in event.failed}
  IN  [ok |-> event.ok \cup UNION {p.ok : p \in polling},
       failed |-> UNION {p.failed : p \in polling}]

NoDevice ==
  [m_captureClient |-> FALSE, m_captureEvent |-> FALSE, wired |-> FALSE,
   m_captureBufferHns |-> ConfiguredBufferHns, eventHandlesCreated |-> 0,
   eventDriven |-> FALSE, bufferHns |-> 0]

\* Initialize() has succeeded (main() ends when it fails).
Init ==
  /\ main = "initialized"
  /\ m_capturing = FALSE
  /\ thread = "none"
  /\ pc = "loop"
  /\ dev \in EventOrPolling(NoDevice).ok
  /\ recoveryAttempts = 0
  /\ now = 0
  /\ eventPathWake = FALSE /\ gotFrames = FALSE
  /\ idleStreak = 0 /\ idleActive = FALSE
  /\ idleStartUs = 0 /\ idleClosedMs = 0
  /\ totalIdleMs = 0 /\ currentIdleMs = 0
  /\ wake = "none" /\ lastWake = "none" /\ lastArrivalEpoch = 0 /\ epoch = 0
  /\ exitedIdle = FALSE
  /\ arrivalEpoch = 0 /\ strays = 0
  /\ resetting = "idle" /\ torn = FALSE

-----------------------------------------------------------------------------
(* main().                                                                 *)

In(place) == main = place /\ pc # "crashed"

\* WasapiCapture::Start; main() does not look at its result.
Start ==
  /\ In("initialized")
  /\ main' = "running"
  /\ \/ UNCHANGED <<m_capturing, thread, lastArrivalEpoch>>
     \/ /\ m_capturing' = TRUE
        /\ thread' = "running"
        /\ lastArrivalEpoch' = arrivalEpoch
  /\ UNCHANGED <<pc, device, round, idle, currentIdleMs, wake, lastWake, epoch,
                 exitedIdle, window, torn>>

\* WasapiCapture::Stop begins with a test.
StopTest ==
  /\ In("running")
  /\ main' = IF m_capturing THEN "stopping" ELSE "stopped"
  /\ UNCHANGED <<m_capturing, thread, pc, device, round, idle,
                 currentIdleMs, arrival, window, torn>>

\* Only signals the event.
StopStore_Bad ==
  /\ In("stopping")
  /\ main' = "joining"
  /\ UNCHANGED <<m_capturing, thread, pc, device, round, idle,
                 currentIdleMs, arrival, window, torn>>

\* It clears the flag and signals the event.
StopStore ==
  /\ In("stopping")
  /\ main' = "joining"
  /\ m_capturing' = FALSE
  /\ UNCHANGED <<thread, pc, device, round, idle, currentIdleMs,
                 arrival, window, torn>>

StopJoin ==
  /\ In("joining")
  /\ pc = "ended"
  /\ thread' = "joined"
  /\ main' = "stopped"
  /\ UNCHANGED <<m_capturing, pc, device, round, idle, currentIdleMs,
                 arrival, window, torn>>

\* ~WasapiCapture, whose Stop() returns at once, and that of its members: a
\* std::thread that still can be joined terminates the process.
Destroy ==
  /\ In("stopped")
  /\ main' = "destroyed"
  /\ UNCHANGED <<m_capturing, thread, pc, device, round, idle,
                 currentIdleMs, arrival, window, torn>>

-----------------------------------------------------------------------------
(* The capture thread.                                                     *)

At(place) == thread = "running" /\ pc = place /\ main # "destroyed"

\* Some time passes, until the bound is reached.
Pass == \E d \in Waits : now' = IF now + d <= MaxTime THEN now + d ELSE now

\* The locals of the round go out of scope.
EndOfRound == eventPathWake' = FALSE /\ gotFrames' = FALSE /\ wake' = "none"

Loop ==
  /\ At("loop")
  /\ pc' = IF m_capturing THEN "wait" ELSE "end"
  /\ UNCHANGED <<control, device, round, idle, currentIdleMs, arrival, window,
                 torn>>

\* Waits for the event or, polling, sleeps; then wakeUs is taken.
Wait ==
  /\ At("wait")
  /\ Pass
  /\ eventPathWake' = (dev.m_captureEvent /\ dev.eventDriven)
  /\ gotFrames' = FALSE
  /\ \/ /\ eventPathWake' /\ ~m_capturing
        /\ pc' = "end"
        /\ UNCHANGED <<wake, torn>>
     \/ /\ ~(eventPathWake' /\ ~m_capturing)
        /\ pc' = "next"
        /\ wake' = "within"
        /\ torn' = (torn \/ resetting = "emptied")
  /\ UNCHANGED <<control, device, idle, currentIdleMs, lastWake,
                 lastArrivalEpoch, epoch, exitedIdle, window>>

\* GetNextPacketSize: no packet, a packet, or an error.
GetNextPacketSize(result) ==
  /\ At("next")
  /\ dev.m_captureClient
  /\ pc' = result
  /\ UNCHANGED <<control, device, round, idle, currentIdleMs, arrival, window,
                 torn>>

\* GetNextPacketSize through a null pointer.
NullCall ==
  /\ At("next")
  /\ ~dev.m_captureClient
  /\ pc' = "crashed"
  /\ UNCHANGED <<control, device, round, idle, currentIdleMs, arrival, window,
                 torn>>

\* GetBuffer and the callback; the packet may be without frames.
GetBuffer ==
  /\ At("get")
  /\ \/ pc' = "recover" /\ UNCHANGED gotFrames
     \/ pc' = "release" /\ gotFrames' \in {gotFrames, TRUE}
  /\ UNCHANGED <<control, device, now, eventPathWake, idle, currentIdleMs,
                 arrival, window, torn>>

ReleaseBuffer ==
  /\ At("release")
  /\ pc' \in {"next", "recover"}
  /\ UNCHANGED <<control, device, round, idle, currentIdleMs, arrival, window,
                 torn>>

\* Milliseconds of the idle episode that runs.
EpisodeMs == (now - idleStartUs) \div UsPerMs

\* A wake without data, driven by the event.  (The streak is only compared
\* with the threshold and is counted no further.)
BookNoData ==
  LET start == IF idleStreak = 0 THEN now ELSE idleStartUs
      streak == IF idleStreak < KIdleConsecutiveNoData THEN idleStreak + 1
                                                      ELSE idleStreak
      active == idleActive \/ streak >= KIdleConsecutiveNoData
      curMs == (now - start) \div UsPerMs
  IN  /\ idleStartUs' = start
      /\ idleStreak' = streak
      /\ idleActive' = active
      /\ currentIdleMs' = IF active THEN curMs ELSE currentIdleMs
      /\ totalIdleMs' = IF active THEN idleClosedMs + curMs ELSE totalIdleMs
      /\ UNCHANGED idleClosedMs

\* Drops the last episode from the total.
ClosedMs_Bad == idleClosedMs

\* The episodes that have ended, with the one that ends now.
ClosedMs == idleClosedMs + EpisodeMs

\* A wake with data ends the episode.
BookData ==
  /\ IF idleActive
     THEN /\ idleClosedMs' = ClosedMs
          /\ totalIdleMs' = ClosedMs
          /\ currentIdleMs' = 0
     ELSE UNCHANGED <<idleClosedMs, totalIdleMs, currentIdleMs>>
  /\ idleStreak' = 0
  /\ idleActive' = FALSE
  /\ idleStartUs' = 0

\* The device is drained.
Account ==
  /\ At("account")
  /\ exitedIdle' = (idleActive /\ gotFrames)
  /\ IF gotFrames
     THEN /\ BookData
          /\ pc' = "sample"
          /\ UNCHANGED <<recoveryAttempts, wake>>
     ELSE /\ IF eventPathWake THEN BookNoData
                              ELSE UNCHANGED <<idle, currentIdleMs>>
          /\ pc' = "loop"
          /\ recoveryAttempts' = 0
          /\ wake' = "none"
  /\ eventPathWake' = FALSE /\ gotFrames' = FALSE
  /\ UNCHANGED <<control, dev, now, lastWake, lastArrivalEpoch, epoch, window,
                 torn>>

LoadEpoch ==
  /\ At("sample")
  /\ epoch' = arrivalEpoch
  /\ pc' = "add"
  /\ UNCHANGED <<control, device, round, idle, currentIdleMs, wake, lastWake,
                 lastArrivalEpoch, exitedIdle, window, torn>>

\* Takes the distance across a reset.
SameWindow_Bad == lastWake # "none"

SameWindow == lastWake # "none" /\ epoch = lastArrivalEpoch

\* AddUs, unless the distance is that of an idle episode or crosses a reset;
\* the next distance begins at the wakeUs of this round.
AddUs ==
  /\ At("add")
  /\ strays' = IF ~exitedIdle /\ SameWindow /\ lastWake = "before"
               THEN strays + 1 ELSE strays
  /\ lastWake' = wake
  /\ wake' = "none"
  /\ lastArrivalEpoch' = epoch
  /\ epoch' = 0
  /\ exitedIdle' = FALSE
  /\ recoveryAttempts' = 0
  /\ pc' = "loop"
  /\ UNCHANGED <<control, dev, round, idle, currentIdleMs, arrivalEpoch, resetting,
                 torn>>

\* Never gives up.
TryRecovery_Bad ==
  /\ At("recover")
  /\ recoveryAttempts' = recoveryAttempts + 1
  /\ pc' = "backoff"
  /\ EndOfRound
  /\ UNCHANGED <<control, dev, now, idle, currentIdleMs, lastWake,
                 lastArrivalEpoch, epoch, exitedIdle, window, torn>>

TryRecovery ==
  /\ At("recover")
  /\ recoveryAttempts' = recoveryAttempts + 1
  /\ pc' = IF recoveryAttempts' > MAX_RECOVERY_ATTEMPTS THEN "end" ELSE "backoff"
  /\ EndOfRound
  /\ UNCHANGED <<control, dev, now, idle, currentIdleMs, lastWake,
                 lastArrivalEpoch, epoch, exitedIdle, window, torn>>

\* The pause before a retry, which Stop() cuts short.
Backoff ==
  /\ At("backoff")
  /\ Pass
  /\ pc' = IF m_capturing THEN "reinit" ELSE "end"
  /\ UNCHANGED <<control, device, eventPathWake, gotFrames, idle, currentIdleMs,
                 arrival, window, torn>>

\* ReinitializeDevice: no endpoint, no client, a client that does not start,
\* or success.  After a failure the loop simply goes on.
Reinitialize ==
  LET released == ReleaseDeviceResources(dev)
      result == EventOrPolling(released)
  IN  /\ At("reinit")
      /\ \/ /\ dev' \in {released} \cup result.failed \cup result.ok
            /\ UNCHANGED recoveryAttempts
         \/ /\ dev' \in result.ok
            /\ recoveryAttempts' = 0
      /\ pc' = "loop"
      /\ UNCHANGED <<control, round, idle, currentIdleMs, arrival, window, torn>>

\* The thread returns; if nobody has stopped it, it says so itself.
End ==
  /\ At("end")
  /\ m_capturing' = FALSE
  /\ pc' = "ended"
  /\ UNCHANGED <<main, thread, device, round, idle, currentIdleMs, arrival,
                 window, torn>>

-----------------------------------------------------------------------------
(* CaptureStats::ResetWindow, on another thread.                           *)

Resetting(place) ==
  resetting = place /\ main # "destroyed" /\ pc # "crashed"

\* A wake that was taken is one of an earlier window now.
Before(w) == IF w = "within" THEN "before" ELSE w

\* Between taking its wakeUs and booking the arrival.
InRound ==
  thread = "running" /\ pc \in {"next", "get", "release", "account", "sample", "add"}

EmptyHistograms ==
  /\ Resetting("idle")
  /\ arrivalEpoch < MaxResets
  /\ resetting' = "emptied"
  /\ strays' = 0
  /\ wake' = Before(wake) /\ lastWake' = Before(lastWake)
  /\ torn' = InRound
  /\ UNCHANGED <<control, pc, device, round, idle, currentIdleMs,
                 lastArrivalEpoch, epoch, exitedIdle, arrivalEpoch>>

RaiseEpoch ==
  /\ Resetting("emptied")
  /\ resetting' = "raised"
  /\ arrivalEpoch' = arrivalEpoch + 1
  /\ UNCHANGED <<control, pc, device, round, idle, currentIdleMs, arrival, strays,
                 torn>>

ClearIdle ==
  /\ Resetting("raised")
  /\ resetting' = "idle"
  /\ currentIdleMs' = 0
  /\ UNCHANGED <<control, pc, device, round, idle, arrival, arrivalEpoch, strays,
                 torn>>

-----------------------------------------------------------------------------
Main == Start \/ StopTest \/ StopStore \/ StopJoin \/ Destroy

Capture ==
  \/ Loop \/ Wait \/ NullCall \/ GetBuffer \/ ReleaseBuffer \/ Account
  \/ \E result \in {"account", "get", "recover"} : GetNextPacketSize(result)
  \/ LoadEpoch \/ AddUs \/ TryRecovery \/ Backoff \/ Reinitialize \/ End

ResetWindow == EmptyHistograms \/ RaiseEpoch \/ ClearIdle

\* The process is over.
Over == (main = "destroyed" \/ pc = "crashed") /\ UNCHANGED vars

Next == Main \/ Capture \/ ResetWindow \/ Over

Spec == Init /\ [][Next]_vars

\* The capture thread runs, and its device runs empty from time to time; a
\* stop that was begun goes on.  Nobody has to stop the capture.
Fairness ==
  /\ WF_vars(Capture)
  /\ SF_vars(GetNextPacketSize("account"))
  /\ WF_vars(StopStore \/ StopJoin \/ Destroy)

FairSpec == Spec /\ Fairness

-----------------------------------------------------------------------------
(* Properties.                                                             *)

\* While the thread drains a device, the probe tells the truth about it: the
\* size of its buffer, how it is driven, and that no second event was ever
\* created (wasapi_capture.cpp:210, capture_stats.h:97), whatever ladder of
\* failures and fallbacks led to it.
ProbeFigures ==
  /\ At("next") /\ dev.m_captureClient =>
       /\ dev.bufferHns = dev.m_captureBufferHns
       /\ dev.eventDriven = dev.wired
  /\ dev.eventHandlesCreated = IF dev.m_captureEvent THEN 1 ELSE 0

\* "Stop() join 之后": when the object is destroyed and its event closed, no
\* thread is left that was not joined (wasapi_capture.cpp:55).
JoinedBeforeDestroyed == main = "destroyed" => thread # "running"

\* The total idle time never decreases, whatever resets and recoveries fall
\* into an episode (capture_stats.h:106).
TotalIdleMonotone ==
  [][totalIdleMs' >= totalIdleMs]_vars

\* A reset that falls between two wakes lets no distance across it into the new
\* window (capture_stats.h:87).  One that meets a round of the loop, anywhere
\* from its wakeUs to the booking (wasapi_capture.cpp:533-684), or in whose
\* middle a round begins, lets in two at most, however often it is met.
StraysOnlyInRace == strays <= (IF torn THEN 2 ELSE 0)

\* Stop and the destruction end, wherever the thread is: waiting, draining, or
\* pausing before a retry.
StopReturns ==
  (main = "stopping") ~> (main = "destroyed" \/ pc = "crashed")

\* A failed recovery is followed by a retry (wasapi_capture.cpp:744), not by a
\* call through the client that ReinitializeDevice has released.
RecoveryRetries == pc # "crashed"
=============================================================================
