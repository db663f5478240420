------------------------------ MODULE SampleFifo ------------------------------
(***************************************************************************)
(* What the playback ring buffer promises: a queue of samples that loses   *)
(* its oldest samples, as many as a packet lacks room for, and delivers    *)
(* the others in order, each once.  The promise is suspended (~sound)      *)
(* until the next emptying when a reading overlaps a discarding or an      *)
(* emptying.                                                               *)
(***************************************************************************)
EXTENDS Integers, Sequences

CONSTANTS
  Limit,     \* samples the queue can hold, a natural number
  Packets    \* sizes of the packets that are written, up to Limit

VARIABLES
  queue,      \* the samples, oldest first, numbered in the order of writing
  arriving,   \* samples of the packet that is being written, or 0
  last,       \* number of the newest sample
  taken,      \* what the last reading delivered
  sound       \* no reading has overlapped a discarding or an emptying

vars == <<queue, arriving, last, taken, sound>>

Init ==
  /\ queue = <<>>
  /\ arriving = 0
  /\ last = 0
  /\ taken = <<>>
  /\ sound = TRUE

Arrive ==
  /\ arriving = 0
  /\ arriving' \in Packets
  /\ UNCHANGED <<queue, last, taken, sound>>

\* A packet that does not fit drops the oldest samples, as many as it lacks.
Discard ==
  LET excess == Len(queue) + arriving - Limit IN
    /\ excess > 0
    /\ queue' = SubSeq(queue, excess + 1, Len(queue))
    /\ UNCHANGED <<arriving, last, taken, sound>>

Write ==
  /\ arriving > 0
  /\ Len(queue) + arriving <= Limit
  /\ queue' = queue \o [k \in 1..arriving |-> last + k]
  /\ last' = last + arriving
  /\ arriving' = 0
  /\ UNCHANGED <<taken, sound>>

Read ==
  \E n \in 0..Len(queue) :
    /\ taken' = SubSeq(queue, 1, n)
    /\ queue' = SubSeq(queue, n + 1, Len(queue))
    /\ UNCHANGED <<arriving, last, sound>>

\* Emptying makes the queue sound again, whatever was in it.
Empty ==
  /\ queue' = <<>>
  /\ sound' = TRUE
  /\ UNCHANGED <<arriving, last, taken>>

\* Nothing is promised after a reading overlapped.
Overlap == sound' = FALSE

Next ==
  \/ sound /\ (Arrive \/ Discard \/ Write \/ Read)
  \/ Empty
  \/ Overlap

Spec == Init /\ [][Next]_vars
=============================================================================
