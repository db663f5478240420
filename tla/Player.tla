-------------------------------- MODULE Player --------------------------------
(***************************************************************************)
(* The state machine that both players put between the stream and the     *)
(* loudspeaker: PREFILL (silence until enough has arrived), PLAYING, and   *)
(* SOFT_UNDERRUN (the last sample is held and faded out).  It is written   *)
(* twice: in the worklet of the browser page (embedded_page.h, kind        *)
(* "worklet") and in the render loop of the native client                  *)
(* (wasapi_render.cpp, kind "native").                                     *)
(*                                                                         *)
(* Samples are counted in blocks; the envelope is counted in blocks too:   *)
(* it is Fade when the sound is fully on.  Left out: the samples           *)
(* themselves (RingBuffer), failures of the device (Client), statistics.   *)
(***************************************************************************)
EXTENDS Integers, FiniteSetsExt

CONSTANTS
  Kinds,          \* which of the two players
  StartSamples, ResumeSamples,   \* the two watermarks
  Fade,           \* blocks that a full fade takes
  Quanta,         \* blocks the native device asks for; the worklet: one
  Capacity,       \* of the ring buffer
  Jitter,         \* how far arrival and playback drift apart while flowing
  Burst,          \* backlog that a network may deliver after a gap
  MaxGaps         \* bound of the model: interruptions of either kind

ASSUME WaterAssumption ==
  /\ Kinds \subseteq {"worklet", "native"}
  /\ ResumeSamples \in Nat /\ StartSamples \in Nat /\ Fade \in Nat \ {0}
  /\ IsFiniteSet(Quanta) /\ Quanta \subseteq 1..ResumeSamples
  /\ 1 <= ResumeSamples /\ ResumeSamples <= StartSamples /\ StartSamples <= Capacity
  /\ Capacity \in Nat /\ Jitter \in Nat /\ Burst \in Nat /\ MaxGaps \in Nat

VARIABLES
  kind,
  state,      \* "PREFILL", "PLAYING", "SOFT_UNDERRUN"
  env,        \* 0..Fade
  everStarted,
  count,      \* samples in the ring buffer
  top,        \* native: the snapshot of a quantum in progress, or none (-1)
  flowing,    \* the server captures and the network delivers
  lead,       \* arrivals minus playback since the stream flows: -Jitter..Jitter
  gaps,
  played      \* history: blocks played since PLAYING began

vars == <<kind, state, env, everStarted, count, top, flowing, lead, gaps, played>>
stream == <<flowing, lead, gaps>>

Init ==
  /\ kind \in Kinds
  /\ state = "PREFILL" /\ env = 0 /\ everStarted = FALSE
  /\ count = 0 /\ top = -1
  /\ flowing = TRUE /\ lead = 0 /\ gaps = 0
  /\ played = 0

Least(a, b) == IF a < b THEN a ELSE b
Most(a, b) == IF a > b THEN a ELSE b

-----------------------------------------------------------------------------
(* The stream: packets arrive at the pace of playback, but for Jitter;     *)
(* what is played (or passes in silence) is kept in step by Passes.        *)

Passes(n) ==
  IF flowing THEN lead - n >= -Jitter /\ lead' = lead - n ELSE lead' = lead

\* A packet: Push of the native ring, or the worklet's "audio" message.
Arrive ==
  /\ flowing
  /\ lead < Jitter
  /\ lead' = lead + 1
  /\ count' = Least(count + 1, Capacity)
  /\ UNCHANGED <<kind, state, env, everStarted, top, flowing, gaps, played>>

\* Nothing is captured, or nothing delivered, for a while.
Pause ==
  /\ flowing
  /\ gaps < MaxGaps
  /\ flowing' = FALSE /\ gaps' = gaps + 1
  /\ UNCHANGED <<kind, state, env, everStarted, count, top, lead, played>>

\* After a pause of the capture nothing is left to deliver; after one of the
\* network a backlog arrives at once.
Continue ==
  /\ ~flowing
  /\ flowing' = TRUE /\ lead' = 0
  /\ \E n \in {0, Burst} : count' = Least(count + n, Capacity)
  /\ UNCHANGED <<kind, state, env, everStarted, top, gaps, played>>

\* "clear" to the worklet; Stop, Clear and Start of the native player.
Clear ==
  /\ gaps < MaxGaps
  /\ gaps' = gaps + 1
  /\ state' = "PREFILL" /\ env' = 0
  /\ count' = 0 /\ top' = -1 /\ played' = 0
  /\ UNCHANGED <<kind, everStarted, flowing, lead>>

-----------------------------------------------------------------------------
(* One block of output.                                                    *)

\* Always waits for the full start level.
Water_Bad == 1

Water == IF everStarted THEN ResumeSamples ELSE StartSamples

\* The envelope after n blocks towards full sound or silence.
Ramp(n, normal) == IF normal THEN Least(Fade, env + n) ELSE Most(0, env - n)

Played(n, normal) == IF normal THEN Least(ResumeSamples, played + n) ELSE 0

\* Below the watermark: silence, nothing is read.
Prefill(avail, n) ==
  /\ state = "PREFILL" /\ avail < Water
  /\ env' = 0
  /\ Passes(n)
  /\ UNCHANGED <<kind, state, everStarted, count, flowing, gaps, played>>

\* Whether this block is played from the buffer as far as the state goes.
Playing(avail) ==
  state = "PLAYING" \/ (state = "PREFILL" /\ avail >= Water)

\* A block is complete, or the underrun begins.
Play(complete, read, n) ==
  /\ count' = count - read
  /\ everStarted' = TRUE
  /\ state' = IF complete THEN "PLAYING" ELSE "SOFT_UNDERRUN"
  /\ env' = Ramp(n, complete)
  /\ played' = Played(n, complete)
  /\ Passes(n)
  /\ UNCHANGED <<kind, flowing, gaps>>

\* Returns to PREFILL before the sound has faded out.
Recovered_Bad(avail) == avail >= ResumeSamples

\* The underrun is over when the sound has faded out and enough has arrived.
Recovered(avail) == env = 0 /\ avail >= ResumeSamples

\* SOFT_UNDERRUN: fades; "read" blocks leave the buffer unheard.
Fading(avail, read, n) ==
  /\ state = "SOFT_UNDERRUN"
  /\ state' = IF Recovered(avail) THEN "PREFILL" ELSE state
  /\ count' = count - read
  /\ env' = Ramp(n, FALSE)
  /\ Passes(n)
  /\ UNCHANGED <<kind, everStarted, flowing, gaps, played>>

\* The worklet's underrun can only end in a block that finds nothing to read.
Process_Bad ==
  /\ kind = "worklet"
  /\ \/ Prefill(count, 1)
     \/ Playing(count) /\ Play(count >= 1, Least(count, 1), 1)
     \/ /\ state = "SOFT_UNDERRUN" /\ count >= 1
        /\ count' = count - 1 /\ env' = Ramp(1, FALSE) /\ Passes(1)
        /\ UNCHANGED <<kind, state, everStarted, flowing, gaps, played>>
     \/ count < 1 /\ Fading(count, 0, 1)
  /\ UNCHANGED top

\* process() of the worklet, for one block.  In SOFT_UNDERRUN the normal
\* read goes on and throws away what it reads.
Process ==
  /\ kind = "worklet"
  /\ \/ Prefill(count, 1)
     \/ Playing(count) /\ Play(count >= 1, Least(count, 1), 1)
     \/ Fading(count, Least(count, 1), 1)
  /\ UNCHANGED top

\* The native loop looks at the level first ...
Snapshot ==
  /\ kind = "native" /\ top = -1
  /\ top' = count
  /\ UNCHANGED <<kind, state, env, everStarted, count, flowing, lead, gaps, played>>

\* Reads on in SOFT_UNDERRUN, as the native player used to.
Render_Bad ==
  /\ kind = "native" /\ top # -1
  /\ \E n \in Quanta :
       \/ Prefill(top, n)
       \/ Playing(top) /\ Play(count >= n, Least(count, n), n)
       \/ Fading(top, Least(count, n), n)
  /\ top' = -1

\* ... and then renders; meanwhile more may have arrived, which Pop takes too.
Render ==
  /\ kind = "native" /\ top # -1
  /\ \E n \in Quanta :
       \/ Prefill(top, n)
       \/ Playing(top) /\ Play(count >= n, Least(count, n), n)
       \/ Fading(top, 0, n)
  /\ top' = -1

Next ==
  \/ Arrive
  \/ Pause
  \/ Continue
  \/ Clear
  \/ Process
  \/ Snapshot
  \/ Render

\* Both sides of a flowing stream go on.  The capture may pause for ever.
Fairness == WF_vars(Arrive) /\ WF_vars(Process) /\ WF_vars(Snapshot) /\ WF_vars(Render)

Spec == Init /\ [][Next]_vars /\ Fairness
-----------------------------------------------------------------------------
(* Properties.                                                             *)

\* FR-04/FR-05: the sound is never cut off.  PREFILL is the state that
\* outputs plain silence, and it is entered, through a fade of any number of
\* blocks, only when the envelope has come down to zero.
SilentPrefill == state = "PREFILL" => env = 0

\* The hysteresis of the two watermarks (main.cpp:183): once it plays, the
\* player does not fall back into an underrun before it has played what the
\* lower watermark holds, up to one block, even if nothing more arrives.
NoOscillation ==
  [][state' = "SOFT_UNDERRUN" /\ state # state' =>
       played > ResumeSamples - (IF kind = "native" THEN Max(Quanta) ELSE 1)]_vars

\* From some time on the sound is fully on.
SteadySound == <>[](state = "PLAYING" /\ env = Fade)

\* FR-01/FR-02 (wasapi_render.cpp:441): an underrun of the native player is
\* not for ever: when the stream flows again, however exactly it keeps the
\* pace of playback, the player returns to full sound and stays there.
NativePlaysOn == kind = "native" /\ <>[]flowing => SteadySound

\* What the worklet achieves of that (embedded_page.h:192 promises it too: else
\* "one underrun would silence the player forever"): it reads on in an underrun,
\* so it leaves one only when more than the lower watermark is in its buffer, by
\* as much as it drops while it fades.
WorkletEscapes ==
  kind = "worklet" /\ state = "SOFT_UNDERRUN" /\ count >= ResumeSamples + Fade
    ~> state # "SOFT_UNDERRUN"
=============================================================================
