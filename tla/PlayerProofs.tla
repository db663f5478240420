---------------------------- MODULE PlayerProofs ----------------------------
(***************************************************************************)
(* Proofs about the two players, for any watermarks, any length of the     *)
(* fade and any sizes of a device quantum.                                 *)
(***************************************************************************)
EXTENDS Player, WellFoundedInduction, TLAPS

\* Types, with the bounds that the arithmetic of a block needs.
PlayerTypes ==
  /\ kind \in Kinds
  /\ state \in {"PREFILL", "PLAYING", "SOFT_UNDERRUN"}
  /\ env \in Nat /\ count \in 0..Capacity /\ played \in Nat
  /\ top \in Nat \cup {-1}

\* The snapshot never promises more than is in the buffer: between Snapshot
\* and Render only Pop could take something out, and that is Render's own.
SnapshotHolds ==
  /\ top <= count
  /\ kind = "worklet" => top = -1

\* What was played and what is left make up the lower watermark at least.
WatermarkHeld == state = "PLAYING" => count + played >= ResumeSamples

IInv == PlayerTypes /\ SnapshotHolds /\ SilentPrefill /\ WatermarkHeld

-----------------------------------------------------------------------------
(* The largest quantum.                                                    *)

\* A nonempty bounded set of naturals has a greatest element: the numbers
\* that are missing to the bound have a least one.
LEMMA GreatestElement ==
  ASSUME NEW N \in Nat, NEW S, S \subseteq 0..N, S # {}
  PROVE  \E m \in S : \A k \in S : k <= m
<1> DEFINE T == {N - x : x \in S}
<1>1. T \subseteq Nat /\ T # {}
  <2>1. \A x \in S : N - x \in Nat
    OBVIOUS
  <2> QED BY <2>1
<1> DEFINE R == OpToRel(<, Nat)
<1>2. IsWellFoundedOn(R, Nat)
  BY NatLessThanWellFounded
<1>3. \A x, y \in Nat : x < y => <<x, y>> \in R
  BY DEF OpToRel
<1> HIDE DEF R, T
<1>4. PICK m \in T : \A k \in T : <<k, m>> \notin R
  BY <1>1, <1>2, WFMin
<1>5. PICK x \in S : m = N - x
  BY DEF T
<1>6. ASSUME NEW k \in S PROVE k <= x
  <2> SUFFICES ASSUME k > x PROVE FALSE
    OBVIOUS
  <2>1. N - k \in T
    BY DEF T
  <2>2. N - k < m
    BY <1>5
  <2> QED BY <1>1, <1>3, <1>4, <2>1, <2>2
<1> QED BY <1>6

\* No quantum is larger than Max(Quanta).
LEMMA LargestQuantum ==
  \A n \in Quanta : Max(Quanta) \in Nat /\ n <= Max(Quanta)
<1> SUFFICES ASSUME NEW q \in Quanta
             PROVE  Max(Quanta) \in Nat /\ q <= Max(Quanta)
  OBVIOUS
<1>1. Quanta \subseteq 0..ResumeSamples /\ ResumeSamples \in Nat
  BY WaterAssumption
<1>2. \E m \in Quanta : \A k \in Quanta : m >= k
  <2>1. PICK m \in Quanta : \A k \in Quanta : k <= m
    BY <1>1, GreatestElement
  <2>2. \A k \in Quanta : m >= k
    BY <1>1, <2>1
  <2> QED BY <2>2
<1>3. Max(Quanta) \in Quanta /\ \A k \in Quanta : Max(Quanta) >= k
  BY <1>2 DEF Max
<1>4. Max(Quanta) >= q
  BY <1>3
<1>5. Max(Quanta) \in 0..ResumeSamples /\ q \in 0..ResumeSamples
  BY <1>1, <1>3
<1> HIDE DEF Max
<1> QED BY <1>1, <1>4, <1>5

-----------------------------------------------------------------------------
(* The invariant.                                                          *)

\* A player begins silent and empty.
LEMMA InvInit == Init => IInv
BY WaterAssumption
   DEF Init, IInv, PlayerTypes, SnapshotHolds, SilentPrefill, WatermarkHeld

\* What one block does, to a worklet (avail = count, n = 1) or to a native
\* player (avail = top, n a quantum).
LEMMA BlockKeeps ==
  ASSUME IInv, NEW avail \in Nat, avail <= count,
         NEW n \in 1..ResumeSamples, NEW read, read \in {0, Least(count, n)},
         \/ Prefill(avail, n)
         \/ Playing(avail) /\ Play(count >= n, Least(count, n), n)
         \/ Fading(avail, read, n)
  PROVE  /\ kind' = kind
         /\ state' \in {"PREFILL", "PLAYING", "SOFT_UNDERRUN"}
         /\ env' \in Nat /\ count' \in 0..Capacity /\ played' \in Nat
         /\ SilentPrefill' /\ WatermarkHeld'
<1> USE WaterAssumption DEF IInv, PlayerTypes, SilentPrefill, WatermarkHeld,
        Least, Most
<1>1. CASE Prefill(avail, n)
  BY <1>1 DEF Prefill
<1>2. CASE Playing(avail) /\ Play(count >= n, Least(count, n), n)
  <2>1. Water \in Nat /\ Water >= ResumeSamples
    BY DEF Water
  <2>2. count + played >= ResumeSamples \/ count >= ResumeSamples
    BY <1>2, <2>1 DEF Playing
  <2> QED BY <1>2, <2>2 DEF Play, Ramp, Played
<1>3. CASE Fading(avail, read, n)
  BY <1>3 DEF Fading, Ramp, Recovered
<1> QED BY <1>1, <1>2, <1>3

\* Every step keeps the invariant.
LEMMA InvNext == IInv /\ [Next]_vars => IInv'
<1> SUFFICES ASSUME IInv, [Next]_vars PROVE IInv'
  OBVIOUS
<1> USE WaterAssumption
    DEF IInv, PlayerTypes, SnapshotHolds, SilentPrefill, WatermarkHeld
<1>1. CASE Arrive
  BY <1>1 DEF Arrive, Least
<1>2. CASE Pause
  BY <1>2 DEF Pause
<1>3. CASE Continue
  BY <1>3 DEF Continue, Least
<1>4. CASE Clear
  BY <1>4 DEF Clear
<1>5. CASE Process
  <2>1. \/ Prefill(count, 1)
        \/ Playing(count) /\ Play(count >= 1, Least(count, 1), 1)
        \/ Fading(count, Least(count, 1), 1)
    BY <1>5 DEF Process
  <2>2. count \in Nat /\ 1 \in 1..ResumeSamples /\ count <= count
    OBVIOUS
  <2>3. kind = "worklet" /\ top' = top /\ top = -1
    BY <1>5 DEF Process
  <2> QED BY <2>1, <2>2, <2>3, BlockKeeps
<1>6. CASE Snapshot
  BY <1>6 DEF Snapshot
<1>7. CASE Render
  <2>1. PICK n \in Quanta :
          \/ Prefill(top, n)
          \/ Playing(top) /\ Play(count >= n, Least(count, n), n)
          \/ Fading(top, 0, n)
    BY <1>7 DEF Render
  <2>2. top \in Nat /\ top <= count /\ n \in 1..ResumeSamples
    BY <1>7 DEF Render
  <2> QED BY <1>7, <2>1, <2>2, BlockKeeps DEF Render
<1>8. CASE UNCHANGED vars
  BY <1>8 DEF vars
<1> QED
  BY <1>1, <1>2, <1>3, <1>4, <1>5, <1>6, <1>7, <1>8 DEF Next

\* Plain silence is output only when the sound has faded out (FR-04, FR-05).
THEOREM SilenceIsFaded == Spec => []SilentPrefill
<1>1. IInv => SilentPrefill
  BY DEF IInv
<1> QED BY InvInit, InvNext, <1>1, PTL DEF Spec

-----------------------------------------------------------------------------
(* The hysteresis.                                                         *)

\* A block that begins an underrun found less than it asked for, and what was
\* played before makes up the rest of the lower watermark.
LEMMA UnderrunStep ==
  ASSUME IInv, Next, state' = "SOFT_UNDERRUN", state # state'
  PROVE  played > ResumeSamples - (IF kind = "native" THEN Max(Quanta) ELSE 1)
<1> USE WaterAssumption DEF IInv, PlayerTypes
<1>1. Process \/ Render
  BY DEF Next, Arrive, Pause, Continue, Clear, Snapshot
<1>2. ASSUME NEW avail \in Nat, avail <= count, NEW n \in 1..ResumeSamples,
             Playing(avail), Play(count >= n, Least(count, n), n)
      PROVE  played > ResumeSamples - n
  <2>1. Water \in Nat /\ Water >= ResumeSamples
    BY DEF Water
  <2>2. count < n
    BY <1>2 DEF Play
  <2>3. state = "PLAYING"
    BY <1>2, <2>1, <2>2 DEF Playing
  <2> QED BY <2>2, <2>3 DEF WatermarkHeld
<1>3. CASE Process
  <2>1. kind = "worklet" /\ Playing(count) /\ Play(count >= 1, Least(count, 1), 1)
    BY <1>3 DEF Process, Prefill, Fading
  <2> QED BY <1>2, <2>1
<1>4. CASE Render
  <2>1. PICK n \in Quanta : Playing(top) /\ Play(count >= n, Least(count, n), n)
    BY <1>4 DEF Render, Prefill, Fading
  <2>2. kind = "native" /\ top \in Nat /\ top <= count /\ n \in 1..ResumeSamples
    BY <1>4 DEF Render, SnapshotHolds
  <2>3. played > ResumeSamples - n
    BY <1>2, <2>1, <2>2
  <2>4. n <= Max(Quanta) /\ Max(Quanta) \in Nat
    BY LargestQuantum
  <2> QED BY <2>2, <2>3, <2>4
<1> QED BY <1>1, <1>3, <1>4

\* Once it plays, the player does not fall back into an underrun before it has
\* played the lower watermark, up to one block (main.cpp:183).
THEOREM HysteresisHolds == Spec => NoOscillation
<1>1. IInv /\ [Next]_vars =>
        [state' = "SOFT_UNDERRUN" /\ state # state' =>
           played > ResumeSamples - (IF kind = "native" THEN Max(Quanta) ELSE 1)]_vars
  BY UnderrunStep
<1> QED BY InvInit, InvNext, <1>1, PTL DEF Spec, NoOscillation
=============================================================================
