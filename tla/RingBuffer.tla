------------------------------ MODULE RingBuffer ------------------------------
(***************************************************************************)
(* The ring buffer between the client's io thread, which pushes PCM and    *)
(* clears, and its render thread, which pops (ring_buffer.h).  Each load,  *)
(* each store and each copied sample is a step.  A sample is the number    *)
(* of its writing; "last", "taken", "raced" and "torn" are history.        *)
(*                                                                         *)
(* Not allowed for: a packet as large as the buffer (two seconds of sound; *)
(* the server sends hundredths of a second).                               *)
(***************************************************************************)
EXTENDS Integers, Sequences

CONSTANTS
  Capacity,    \* m_capacity
  Packets,     \* sizes of the packets the io thread pushes
  Quanta,      \* numbers of samples the render thread asks for
  MaxSamples   \* bound of the model: samples pushed in one behaviour

ASSUME SizeAssumption ==
  /\ Capacity \in Nat \ {0}
  /\ Packets \subseteq 1..(Capacity - 1)
  /\ Quanta \subseteq Nat
  /\ MaxSamples \in Nat

VARIABLES
  m_buffer, m_writePos, m_readPos,
  io,       \* the call of the io thread: its place and its locals
  render,   \* the call of the render thread
  last,     \* number of the newest published sample
  taken,    \* what the last Pop delivered
  raced,    \* a Pop overlapped the drop of an overflow, or a Clear
  torn      \* a Pop overlapped a Clear

vars == <<m_buffer, m_writePos, m_readPos, io, render, last, taken, raced, torn>>

Positions == 0..(Capacity - 1)
IoIdle == [pc |-> "idle", w |-> 0, r |-> 0, count |-> 0, i |-> 0]
RenderIdle == [pc |-> "idle", r |-> 0, max |-> 0, toRead |-> 0, out |-> <<>>]

TypeOK ==
  /\ m_buffer \in [Positions -> 0..MaxSamples]
  /\ m_writePos \in Positions /\ m_readPos \in Positions
  /\ io.pc \in {"idle", "drop", "copy", "publish", "clear"}
  /\ io.w \in Positions /\ io.r \in Positions /\ io.i \in 0..io.count
  /\ render.pc \in {"idle", "load", "copy"}
  /\ render.r \in Positions /\ Len(render.out) <= render.toRead
  /\ render.toRead \in 0..(Capacity - 1)
  /\ last \in 0..MaxSamples
  /\ raced \in BOOLEAN /\ torn \in BOOLEAN

Init ==
  /\ m_buffer = [p \in Positions |-> 0]
  /\ m_writePos = 0 /\ m_readPos = 0
  /\ io = IoIdle /\ render = RenderIdle
  /\ last = 0 /\ taken = <<>>
  /\ raced = FALSE /\ torn = FALSE

\* Samples between a read and a write position.
Distance(r, w) == IF w >= r THEN w - r ELSE Capacity - r + w

Available == Distance(m_readPos, m_writePos)

\* One sample too many fits: a full buffer looks empty.
Free_Bad(r, w) == Capacity - Distance(r, w)

Free(r, w) == Capacity - Distance(r, w) - 1

-----------------------------------------------------------------------------
(* Push and Clear, on the io thread.                                       *)

Push ==
  /\ io.pc = "idle"
  /\ \E n \in Packets :
       /\ last + n <= MaxSamples
       /\ io' = [pc |-> IF n > Free(m_readPos, m_writePos) THEN "drop" ELSE "copy",
                 w |-> m_writePos, r |-> m_readPos, count |-> n, i |-> 0]
  /\ UNCHANGED <<m_buffer, m_writePos, m_readPos, render, last, taken, raced, torn>>

\* Forgets to wrap around.
DropOldest_Bad ==
  /\ io.pc = "drop"
  /\ m_readPos' = io.r + io.count - Free(io.r, io.w)
  /\ io' = [io EXCEPT !.pc = "copy"]
  /\ raced' = (raced \/ render.pc # "idle" \/ m_readPos # io.r)
  /\ UNCHANGED <<m_buffer, m_writePos, render, last, taken, torn>>

\* On overflow the producer moves the consumer's position, from the value
\* it loaded before; a Pop in between is overrun.
DropOldest ==
  /\ io.pc = "drop"
  /\ m_readPos' = (io.r + io.count - Free(io.r, io.w)) % Capacity
  /\ io' = [io EXCEPT !.pc = "copy"]
  /\ raced' = (raced \/ render.pc # "idle" \/ m_readPos # io.r)
  /\ UNCHANGED <<m_buffer, m_writePos, render, last, taken, torn>>

\* Wraps around one position too early.
CopyIn_Wrap_Bad ==
  /\ io.pc = "copy"
  /\ m_buffer' = [m_buffer EXCEPT ![io.w] = last + io.i + 1]
  /\ io' = [io EXCEPT !.w = (@ + 1) % (Capacity - 1), !.i = @ + 1,
                      !.pc = IF io.i + 1 = io.count THEN "publish" ELSE "copy"]
  /\ UNCHANGED <<m_writePos, m_readPos, render, last, taken, raced, torn>>

CopyIn ==
  /\ io.pc = "copy"
  /\ m_buffer' = [m_buffer EXCEPT ![io.w] = last + io.i + 1]
  /\ io' = [io EXCEPT !.w = (@ + 1) % Capacity, !.i = @ + 1,
                      !.pc = IF io.i + 1 = io.count THEN "publish" ELSE "copy"]
  /\ UNCHANGED <<m_writePos, m_readPos, render, last, taken, raced, torn>>

Publish ==
  /\ io.pc = "publish"
  /\ m_writePos' = io.w
  /\ last' = last + io.count
  /\ io' = IoIdle
  /\ UNCHANGED <<m_buffer, m_readPos, render, taken, raced, torn>>

\* Clear stores two positions, one after the other.
ClearRead ==
  /\ io.pc = "idle"
  /\ m_readPos' = 0
  /\ io' = [io EXCEPT !.pc = "clear"]
  /\ raced' = (render.pc # "idle")
  /\ torn' = (render.pc # "idle")
  /\ UNCHANGED <<m_buffer, m_writePos, render, last, taken>>

ClearWrite ==
  /\ io.pc = "clear"
  /\ m_writePos' = 0
  /\ io' = IoIdle
  /\ LET overlap == render.pc # "idle" \/ m_readPos # 0 IN
       raced' = (raced \/ overlap) /\ torn' = (torn \/ overlap)
  /\ UNCHANGED <<m_buffer, m_readPos, render, last, taken>>

-----------------------------------------------------------------------------
(* Pop, on the render thread.                                              *)

Pop ==
  /\ render.pc = "idle"
  /\ \E n \in Quanta :
       render' = [RenderIdle EXCEPT !.pc = "load", !.r = m_readPos, !.max = n]
  /\ UNCHANGED <<m_buffer, m_writePos, m_readPos, io, last, taken, raced, torn>>

LoadWritePos ==
  /\ render.pc = "load"
  /\ LET avail == Distance(render.r, m_writePos) IN
       render' = [render EXCEPT !.pc = "copy",
                                !.toRead = IF render.max < avail THEN render.max ELSE avail]
  /\ UNCHANGED <<m_buffer, m_writePos, m_readPos, io, last, taken, raced, torn>>

CopyOut ==
  /\ render.pc = "copy"
  /\ Len(render.out) < render.toRead
  /\ render' = [render EXCEPT !.out = Append(@, m_buffer[render.r]),
                              !.r = (@ + 1) % Capacity]
  /\ UNCHANGED <<m_buffer, m_writePos, m_readPos, io, last, taken, raced, torn>>

StoreReadPos ==
  /\ render.pc = "copy"
  /\ Len(render.out) = render.toRead
  /\ m_readPos' = render.r
  /\ taken' = render.out
  /\ render' = RenderIdle
  /\ UNCHANGED <<m_buffer, m_writePos, io, last, raced, torn>>

Next ==
  \/ Push
  \/ DropOldest
  \/ CopyIn
  \/ Publish
  \/ ClearRead
  \/ ClearWrite
  \/ Pop
  \/ LoadWritePos
  \/ CopyOut
  \/ StoreReadPos

Spec == Init /\ [][Next]_vars
-----------------------------------------------------------------------------
(* Properties.                                                             *)

\* What lies between the two positions, oldest first.
Contents == [k \in 1..Available |-> m_buffer[(m_readPos + k - 1) % Capacity]]

Fifo == INSTANCE SampleFifo WITH
          Limit <- Capacity - 1,
          queue <- Contents,
          arriving <- io.count,
          sound <- ~raced /\ io.pc # "clear"

\* "Single-producer single-consumer ring buffer" (ring_buffer.h:8) that
\* "drops oldest data on overflow" (:25): with every load, store and copy of
\* the two threads interleaved it is a FIFO of Capacity - 1 samples that
\* drops exactly what an arriving packet lacks room for (:34), until a
\* Pop overlaps the drop of an overflow or a Clear; the next undisturbed
\* Clear makes it one again.
ImplementsFifo == Fifo!Spec

\* An overflow that overtakes a Pop moves the read position (forward or
\* back), but spoils nothing that stays in the buffer: between two pushes the
\* contents are the newest samples without a gap.  Only a Pop that overlaps a
\* Clear can leave samples from before it.
OverflowKeepsNewest ==
  io.pc = "idle" /\ ~torn =>
    \A k \in 1..Available : Contents[k] = last - Available + k
=============================================================================
