-------------------------- MODULE RingBufferProofs --------------------------
(***************************************************************************)
(* Proofs about the client's ring buffer for every capacity, every set of  *)
(* packet sizes and of quanta, however the two threads interleave.  The    *)
(* positions stay in the buffer and what lies between them is the newest   *)
(* samples: the inductive invariant is IInv, its part NewestKept is the    *)
(* argument.  Until a Pop is overlapped the buffer implements the queue of *)
(* SampleFifo: the invariant FInv adds what the two calls in progress rely *)
(* on, and FifoNext maps each step to one of the queue.                    *)
(***************************************************************************)
EXTENDS RingBuffer, SequenceTheorems, TLAPS

-----------------------------------------------------------------------------
(* Positions.                                                              *)

\* Wrapping around, for as far as the code ever goes.
LEMMA Wrap ==
  /\ \A x \in Int : x % Capacity \in Positions
  /\ \A x \in Positions : x % Capacity = x
  /\ \A x \in Capacity..(2 * Capacity - 1) : x % Capacity = x - Capacity
BY SizeAssumption DEF Positions

\* A distance is one of the numbers of samples that fit.
LEMMA DistanceInRange ==
  ASSUME NEW r \in Positions, NEW w \in Positions
  PROVE  Distance(r, w) \in 0..(Capacity - 1)
BY SizeAssumption DEF Positions, Distance

\* The next position.
LEMMA NextPosition ==
  ASSUME NEW w \in Positions
  PROVE  /\ (w + 1) % Capacity \in Positions
         /\ (w + 1) % Capacity = IF w = Capacity - 1 THEN 0 ELSE w + 1
<1>1. Capacity \in Nat \ {0} /\ w \in Int /\ 0 <= w /\ w <= Capacity - 1
  BY SizeAssumption DEF Positions
<1>2. CASE w = Capacity - 1
  <2>1. w + 1 \in Capacity..(2 * Capacity - 1) /\ w + 1 - Capacity = 0
    BY <1>1, <1>2
  <2> QED BY <1>1, <1>2, <2>1, Wrap
<1>3. CASE w # Capacity - 1
  <2>1. w + 1 \in Positions
    BY <1>1, <1>3 DEF Positions
  <2> QED BY <1>1, <1>3, <2>1, Wrap
<1> QED BY <1>2, <1>3

\* The write position moves away from all others by one.
LEMMA DistanceGrows ==
  ASSUME NEW w \in Positions, NEW p \in Positions
  PROVE  LET v == (w + 1) % Capacity
         IN  /\ p = w /\ p # v => Distance(p, v) = 1
             /\ p # w /\ p # v => Distance(p, v) = Distance(p, w) + 1
<1>1. /\ Capacity \in Nat \ {0} /\ w \in Int /\ 0 <= w /\ w <= Capacity - 1
      /\ p \in Int /\ 0 <= p /\ p <= Capacity - 1
  BY SizeAssumption DEF Positions
<1>2. CASE w = Capacity - 1
  BY <1>1, <1>2, NextPosition DEF Distance
<1>3. CASE w # Capacity - 1
  BY <1>1, <1>3, NextPosition DEF Distance
<1> QED BY <1>2, <1>3

\* The positions that Contents reads: they lie between the read and the
\* write position, each one nearer to the latter.
LEMMA Between ==
  ASSUME NEW r \in Positions, NEW w \in Positions, NEW k \in 1..Distance(r, w)
  PROVE  LET p == (r + k - 1) % Capacity
         IN  /\ p \in Positions /\ p # w
             /\ Distance(p, w) = Distance(r, w) - k + 1
             /\ r <= w => p < w
<1>1. /\ Capacity \in Nat \ {0}
      /\ r \in Int /\ 0 <= r /\ r <= Capacity - 1
      /\ w \in Int /\ 0 <= w /\ w <= Capacity - 1
      /\ k \in Int /\ 1 <= k
  BY SizeAssumption DEF Positions
<1>2. CASE w >= r
  <2>1. Distance(r, w) = w - r
    BY <1>2 DEF Distance
  <2>2. r + k - 1 \in Positions /\ r + k - 1 < w
    BY <1>1, <2>1 DEF Positions
  <2>3. (r + k - 1) % Capacity = r + k - 1
    BY <2>2, Wrap
  <2> QED BY <1>1, <2>1, <2>2, <2>3 DEF Distance
<1>3. CASE ~(w >= r)
  <2>1. Distance(r, w) = Capacity - r + w /\ k <= Capacity - r + w
    BY <1>1, <1>3 DEF Distance
  <2>2. CASE r + k - 1 < Capacity
    <3> DEFINE x == r + k - 1
    <3>1. x \in Positions
      BY <1>1, <2>2 DEF Positions
    <3>2. x % Capacity = x
      <4> HIDE DEF x
      <4> QED BY <3>1, Wrap
    <3> QED BY <1>1, <1>3, <2>1, <3>1, <3>2 DEF Distance
  <2>3. CASE ~(r + k - 1 < Capacity)
    <3> DEFINE x == r + k - 1
    <3>1. x \in Capacity..(2 * Capacity - 1)
      BY <1>1, <2>1, <2>3
    <3>2. x % Capacity = x - Capacity
      <4> HIDE DEF x
      <4> QED BY <3>1, Wrap
    <3>3. x - Capacity \in Positions /\ x - Capacity < w
      BY <1>1, <2>1, <3>1 DEF Positions
    <3> QED BY <1>1, <1>3, <2>1, <3>2, <3>3 DEF Distance
  <2> QED BY <2>2, <2>3
<1> QED BY <1>2, <1>3

-----------------------------------------------------------------------------
(* The invariant.                                                          *)

\* The calls in progress.
CallTypes ==
  /\ io \in [pc : {"idle", "drop", "copy", "publish", "clear"}, w : Positions,
             r : Positions, count : 0..(Capacity - 1), i : 0..(Capacity - 1)]
  /\ render \in [pc : {"idle", "load", "copy"}, r : Positions, max : Nat,
                 toRead : 0..(Capacity - 1), out : Seq(0..MaxSamples)]
  /\ Len(render.out) <= render.toRead
  /\ render.pc = "load" => render.out = <<>>

\* How far a Push is.
PushState ==
  /\ io.pc \in {"idle", "clear"} => io.i = 0 /\ io.count = 0
  /\ io.pc = "drop" => /\ io.i = 0 /\ io.w = m_writePos
                       /\ io.count > Free(io.r, io.w)
  /\ io.pc \in {"drop", "copy"} => io.i < io.count
  /\ io.pc = "publish" => io.i = io.count
  /\ last + io.count <= MaxSamples

\* Where the io thread writes next, and the number of the newest sample that is
\* in the buffer, published or not.
W == IF io.pc \in {"idle", "clear"} THEN m_writePos ELSE io.w
L == last + io.i

\* The buffer has been filled since the last Clear: every position but the one
\* that is written next holds one of the newest samples.
Filled ==
  \A p \in Positions \ {W} : m_buffer[p] = L - Distance(p, W) + 1

\* It has not: the io thread has not wrapped around, and neither thread's
\* position has passed the write position.
Filling ==
  /\ \A p \in Positions : p < W => m_buffer[p] = L - Distance(p, W) + 1
  /\ m_writePos <= W /\ m_readPos <= m_writePos
  /\ io.pc = "drop" => io.r <= io.w
  /\ render.pc # "idle" => render.r <= m_writePos
  /\ render.pc = "copy" =>
       render.r + (render.toRead - Len(render.out)) <= m_writePos

\* Between two Clears without a Pop across them the buffer is one or the other.
NewestKept == ~torn /\ io.pc # "clear" => Filled \/ Filling

Scalars ==
  /\ m_buffer \in [Positions -> 0..MaxSamples]
  /\ m_writePos \in Positions /\ m_readPos \in Positions
  /\ last \in 0..MaxSamples
  /\ raced \in BOOLEAN /\ torn \in BOOLEAN

Types == Scalars /\ CallTypes /\ PushState

IInv == Types /\ NewestKept

-----------------------------------------------------------------------------
(* Types.                                                                  *)

\* The constructor.
LEMMA InvInit == Init => IInv
<1> SUFFICES ASSUME Init PROVE IInv
  OBVIOUS
<1>1. 0 \in Positions /\ 0 \in 0..MaxSamples /\ 0 \in 0..(Capacity - 1)
  BY SizeAssumption DEF Positions
<1>2. m_buffer \in [Positions -> 0..MaxSamples]
  BY <1>1 DEF Init
<1>3. raced \in BOOLEAN /\ torn \in BOOLEAN
  BY Zenon DEF Init
<1>4. <<>> \in Seq(0..MaxSamples) /\ Len(<<>>) = 0
  OBVIOUS
<1>5. CallTypes
  BY <1>1, <1>4 DEF Init, CallTypes, IoIdle, RenderIdle
<1>6. PushState
  BY SizeAssumption DEF Init, PushState, IoIdle
<1>7. Filling
  BY <1>1 DEF Init, Filling, W, IoIdle, RenderIdle, Positions
<1> QED
  BY <1>1, <1>2, <1>3, <1>5, <1>6, <1>7
  DEF Init, IInv, Types, Scalars, NewestKept

\* Every step keeps the kinds.
LEMMA TypesNext == Types /\ [Next]_vars => Types'
<1> SUFFICES ASSUME Types, [Next]_vars PROVE Types'
  OBVIOUS
<1>0. Capacity \in Nat \ {0} /\ MaxSamples \in Nat
  BY SizeAssumption
<1> USE DEF Types
<1>1. CASE Push
  <2>1. PICK n \in Packets :
          /\ last + n <= MaxSamples
          /\ io' = [pc |-> IF n > Free(m_readPos, m_writePos) THEN "drop" ELSE "copy",
                    w |-> m_writePos, r |-> m_readPos, count |-> n, i |-> 0]
    BY <1>1 DEF Push
  <2>2. n \in 1..(Capacity - 1)
    BY SizeAssumption
  <2>3. CallTypes'
    BY <1>0, <1>1, <2>1, <2>2 DEF Push, CallTypes, Scalars
  <2>4. PushState'
    BY <1>0, <1>1, <2>1, <2>2 DEF Push, PushState
  <2>5. Scalars'
    BY <1>1 DEF Push, Scalars
  <2> QED BY <2>3, <2>4, <2>5
<1>2. CASE DropOldest
  <2> DEFINE x == io.r + io.count - Free(io.r, io.w)
  <2>1. x \in Int
    <3>1. io.r \in Positions /\ io.w \in Positions /\ io.count \in 0..(Capacity - 1)
      BY DEF CallTypes
    <3>2. Distance(io.r, io.w) \in 0..(Capacity - 1)
      BY <3>1, DistanceInRange
    <3>3. Free(io.r, io.w) \in Int
      BY <1>0, <3>2 DEF Free
    <3> QED BY <1>0, <3>1, <3>3 DEF Positions
  <2>2. m_readPos' = x % Capacity
    BY <1>2 DEF DropOldest
  <2> HIDE DEF x
  <2>3. m_readPos' \in Positions
    BY <2>1, <2>2, Wrap
  <2>4. raced' \in BOOLEAN /\ torn' \in BOOLEAN
    BY <1>2, Zenon DEF DropOldest, Scalars
  <2>5. Scalars'
    BY <1>2, <2>3, <2>4 DEF DropOldest, Scalars
  <2>6. CallTypes'
    BY <1>2 DEF DropOldest, CallTypes
  <2>7. PushState'
    BY <1>2 DEF DropOldest, CallTypes, PushState
  <2> QED BY <2>5, <2>6, <2>7
<1>3. CASE CopyIn
  <2> DEFINE v == (io.w + 1) % Capacity
             j == io.i + 1
             s == last + io.i + 1
             c == IF j = io.count THEN "publish" ELSE "copy"
  <2>1. v \in Positions
    BY NextPosition DEF CallTypes
  <2>2. /\ io.i \in 0..(Capacity - 1) /\ io.count \in 0..(Capacity - 1)
        /\ io.i < io.count /\ last \in 0..MaxSamples /\ last + io.count <= MaxSamples
    BY <1>3 DEF CopyIn, CallTypes, PushState, Scalars
  <2>3. j \in 0..(Capacity - 1) /\ s \in 0..MaxSamples /\ j <= io.count
    BY <1>0, <2>2
  <2>4. c \in {"publish", "copy"} /\ (c = "publish" => j = io.count)
        /\ (c = "copy" => j # io.count)
    OBVIOUS
  <2>5. /\ io' = [io EXCEPT !.w = v, !.i = j, !.pc = c]
        /\ m_buffer' = [m_buffer EXCEPT ![io.w] = s]
    BY <1>3 DEF CopyIn
  <2> HIDE DEF v, j, s, c
  <2>6. /\ CallTypes'
        /\ io'.pc = c /\ io'.i = j /\ io'.count = io.count
    BY <1>3, <2>1, <2>3, <2>4, <2>5 DEF CopyIn, CallTypes
  <2>7. j # io.count => j < io.count
    BY <2>2, <2>3 DEF j
  <2>8. PushState'
    BY <1>3, <2>2, <2>4, <2>6, <2>7 DEF CopyIn, PushState
  <2>9. Scalars'
    BY <1>3, <2>3, <2>5 DEF CopyIn, Scalars, CallTypes
  <2> QED BY <2>6, <2>8, <2>9
<1>4. CASE Publish
  <2>1. last + io.count \in 0..MaxSamples
    BY <1>0 DEF CallTypes, PushState, Scalars
  <2>2. Scalars'
    BY <1>4, <2>1 DEF Publish, Scalars, CallTypes
  <2>3. CallTypes'
    BY <1>0, <1>4 DEF Publish, CallTypes, IoIdle, Positions
  <2>4. PushState'
    BY <1>0, <1>4, <2>1 DEF Publish, PushState, IoIdle
  <2> QED BY <2>2, <2>3, <2>4
<1>5. CASE ClearRead
  <2>1. raced' \in BOOLEAN /\ torn' \in BOOLEAN
    BY <1>5, Zenon DEF ClearRead
  <2>2. Scalars'
    BY <1>0, <1>5, <2>1 DEF ClearRead, Scalars, Positions
  <2>3. CallTypes'
    BY <1>5 DEF ClearRead, CallTypes
  <2>4. PushState'
    BY <1>5 DEF ClearRead, CallTypes, PushState
  <2> QED BY <2>2, <2>3, <2>4
<1>6. CASE ClearWrite
  <2>1. raced' \in BOOLEAN /\ torn' \in BOOLEAN
    BY <1>6, Zenon DEF ClearWrite, Scalars
  <2>2. Scalars'
    BY <1>0, <1>6, <2>1 DEF ClearWrite, Scalars, Positions
  <2>3. CallTypes'
    BY <1>0, <1>6 DEF ClearWrite, CallTypes, IoIdle, Positions
  <2>4. PushState'
    BY <1>0, <1>6 DEF ClearWrite, PushState, IoIdle, Scalars
  <2> QED BY <2>2, <2>3, <2>4
<1>7. CASE Pop
  <2>1. PICK n \in Quanta :
          render' = [RenderIdle EXCEPT !.pc = "load", !.r = m_readPos, !.max = n]
    BY <1>7 DEF Pop
  <2>2. n \in Nat
    BY SizeAssumption
  <2>3. <<>> \in Seq(0..MaxSamples) /\ Len(<<>>) = 0
    OBVIOUS
  <2>4. CallTypes'
    <3>1. render' = [pc |-> "load", r |-> m_readPos, max |-> n, toRead |-> 0, out |-> <<>>]
      BY <2>1 DEF RenderIdle
    <3>2. m_readPos \in Positions /\ 0 \in 0..(Capacity - 1)
      BY <1>0 DEF Scalars
    <3>3. render' \in [pc : {"idle", "load", "copy"}, r : Positions, max : Nat,
                       toRead : 0..(Capacity - 1), out : Seq(0..MaxSamples)]
      BY <2>2, <2>3, <3>1, <3>2
    <3>4. Len(render'.out) <= render'.toRead /\ render'.out = <<>>
      BY <2>3, <3>1
    <3> QED BY <1>7, <3>3, <3>4 DEF Pop, CallTypes
  <2>5. Scalars' /\ PushState'
    BY <1>7 DEF Pop, Scalars, PushState
  <2> QED BY <2>4, <2>5
<1>8. CASE LoadWritePos
  <2> DEFINE n == IF render.max < Distance(render.r, m_writePos)
                  THEN render.max ELSE Distance(render.r, m_writePos)
  <2>1. n \in 0..(Capacity - 1)
    <3>1. render.r \in Positions /\ m_writePos \in Positions /\ render.max \in Nat
      BY DEF CallTypes, Scalars
    <3>2. Distance(render.r, m_writePos) \in 0..(Capacity - 1)
      BY <3>1, DistanceInRange
    <3> QED BY <1>0, <3>1, <3>2
  <2>2. render' = [render EXCEPT !.pc = "copy", !.toRead = n]
    BY <1>8 DEF LoadWritePos
  <2> HIDE DEF n
  <2>3. render.out = <<>> /\ Len(render.out) = 0
    BY <1>8 DEF LoadWritePos, CallTypes
  <2>4. CallTypes'
    <3>1. render' \in [pc : {"idle", "load", "copy"}, r : Positions, max : Nat,
                       toRead : 0..(Capacity - 1), out : Seq(0..MaxSamples)]
      BY <2>1, <2>2 DEF CallTypes
    <3>2. render'.out = <<>> /\ render'.toRead = n /\ render'.pc = "copy"
      BY <2>2, <2>3 DEF CallTypes
    <3>3. Len(render'.out) <= render'.toRead
      BY <2>1, <2>3, <3>2
    <3> QED BY <1>8, <3>1, <3>2, <3>3 DEF LoadWritePos, CallTypes
  <2>5. Scalars' /\ PushState'
    BY <1>8 DEF LoadWritePos, Scalars, PushState
  <2> QED BY <2>4, <2>5
<1>9. CASE CopyOut
  <2> DEFINE v == (render.r + 1) % Capacity
             o == Append(render.out, m_buffer[render.r])
  <2>1. v \in Positions
    BY NextPosition DEF CallTypes
  <2>2. /\ o \in Seq(0..MaxSamples) /\ Len(o) = Len(render.out) + 1
        /\ Len(o) <= render.toRead
    BY <1>0, <1>9 DEF CopyOut, CallTypes, Scalars
  <2>3. render' = [render EXCEPT !.out = o, !.r = v]
    BY <1>9 DEF CopyOut
  <2> HIDE DEF v, o
  <2>4. CallTypes'
    BY <1>9, <2>1, <2>2, <2>3 DEF CopyOut, CallTypes
  <2>5. Scalars' /\ PushState'
    BY <1>9 DEF CopyOut, Scalars, PushState
  <2> QED BY <2>4, <2>5
<1>10. CASE StoreReadPos
  <2>1. <<>> \in Seq(0..MaxSamples) /\ Len(<<>>) = 0
    OBVIOUS
  <2>2. CallTypes'
    BY <1>0, <1>10, <2>1 DEF StoreReadPos, CallTypes, RenderIdle, Positions
  <2>3. Scalars' /\ PushState'
    BY <1>10 DEF StoreReadPos, Scalars, PushState, CallTypes
  <2> QED BY <2>2, <2>3
<1>11. CASE UNCHANGED vars
  BY <1>11 DEF vars, Scalars, CallTypes, PushState
<1> QED
  BY <1>1, <1>2, <1>3, <1>4, <1>5, <1>6, <1>7, <1>8, <1>9, <1>10, <1>11
  DEF Next

-----------------------------------------------------------------------------
(* What the buffer holds.                                                  *)

\* What the steps of the io thread need of the types.
LEMMA WritePlace ==
  Types => W \in Positions /\ L \in Nat /\ m_writePos \in Positions
<1> SUFFICES ASSUME Types PROVE W \in Positions /\ L \in Nat /\ m_writePos \in Positions
  OBVIOUS
<1>1. /\ io.w \in Positions /\ io.i \in 0..(Capacity - 1)
      /\ m_writePos \in Positions /\ last \in 0..MaxSamples
  BY DEF Types, CallTypes, Scalars
<1>2. Capacity \in Nat \ {0} /\ MaxSamples \in Nat
  BY SizeAssumption
<1> QED BY <1>1, <1>2 DEF W, L

\* The buffer holds what it held, up to where the io thread was.
LEMMA SameBuffer ==
  ASSUME W' = W, L' = L, m_buffer' = m_buffer
  PROVE  /\ Filled => Filled'
         /\ (\A p \in Positions : p < W => m_buffer[p] = L - Distance(p, W) + 1) =>
              (\A p \in Positions : p < W' => m_buffer'[p] = L' - Distance(p, W') + 1)
BY DEF Filled, Distance

\* One more sample is copied in.
LEMMA KeptCopyIn ==
  ASSUME Types, Types', NewestKept, CopyIn
  PROVE  NewestKept'
<1> SUFFICES ASSUME ~torn PROVE Filled' \/ Filling'
  BY DEF CopyIn, NewestKept
<1>1. W \in Positions /\ L \in Nat /\ m_writePos \in Positions
  BY WritePlace
<1>2. /\ W = io.w /\ io'.w = (W + 1) % Capacity /\ io'.pc \in {"copy", "publish"}
      /\ io'.i = io.i + 1 /\ last' = last
      /\ m_buffer' = [m_buffer EXCEPT ![W] = L + 1]
      /\ m_writePos' = m_writePos /\ m_readPos' = m_readPos /\ render' = render
  <2> DEFINE v == (io.w + 1) % Capacity
             j == io.i + 1
             c == IF j = io.count THEN "publish" ELSE "copy"
  <2>1. io' = [io EXCEPT !.w = v, !.i = j, !.pc = c] /\ io.pc = "copy"
    BY DEF CopyIn
  <2>2. c \in {"copy", "publish"}
    OBVIOUS
  <2>3. W = io.w
    BY <2>1 DEF W
  <2>4. io.i \in 0..(Capacity - 1) /\ last \in 0..MaxSamples
    BY DEF Types, CallTypes, Scalars
  <2>5. last + io.i + 1 = L + 1
    BY SizeAssumption, <2>4 DEF L
  <2> HIDE DEF j, c
  <2>6. io'.w = v /\ io'.pc = c /\ io'.i = j
    BY <2>1 DEF Types, CallTypes
  <2> QED BY <2>2, <2>3, <2>5, <2>6 DEF CopyIn, j
<1>3. /\ W' = (W + 1) % Capacity /\ L' = L + 1
      /\ W' \in Positions
  <2>1. io.i \in 0..(Capacity - 1) /\ last \in 0..MaxSamples
    BY DEF Types, CallTypes, Scalars
  <2>2. last + (io.i + 1) = last + io.i + 1
    BY SizeAssumption, <2>1
  <2>3. W' = (W + 1) % Capacity
    BY <1>2 DEF W
  <2> QED BY <1>1, <1>2, <2>2, <2>3, NextPosition DEF L
<1>4. ASSUME NEW p \in Positions, p # W',
             p # W => m_buffer[p] = L - Distance(p, W) + 1
      PROVE  m_buffer'[p] = L' - Distance(p, W') + 1
  <2>1. m_buffer'[p] = IF p = W THEN L + 1 ELSE m_buffer[p]
    BY <1>1, <1>2 DEF Types, Scalars
  <2>2. CASE p = W
    <3>1. Distance(p, W') = 1
      BY <1>1, <1>3, <1>4, <2>2, DistanceGrows
    <3> QED BY <1>1, <1>3, <2>1, <2>2, <3>1
  <2>3. CASE p # W
    <3>1. Distance(p, W') = Distance(p, W) + 1 /\ Distance(p, W) \in 0..(Capacity - 1)
      BY <1>1, <1>3, <1>4, <2>3, DistanceGrows, DistanceInRange
    <3>2. Capacity \in Nat \ {0}
      BY SizeAssumption
    <3> QED BY <1>1, <1>3, <1>4, <2>1, <2>3, <3>1, <3>2
  <2> QED BY <2>2, <2>3
<1>5. CASE Filled
  <2>1. Filled'
    BY <1>4, <1>5 DEF Filled
  <2> QED BY <2>1
<1>6. CASE Filling
  <2>0. Capacity \in Nat \ {0}
    BY SizeAssumption
  <2>1. CASE W = Capacity - 1
    <3>1. Filled
      BY <1>1, <1>6, <2>0, <2>1 DEF Filled, Filling, Positions
    <3>2. Filled'
      BY <1>4, <3>1 DEF Filled
    <3> QED BY <3>2
  <2>2. CASE W # Capacity - 1
    <3>1. W' = W + 1
      BY <1>1, <1>3, <2>2, NextPosition
    <3>2. ASSUME NEW p \in Positions, p < W'
          PROVE  m_buffer'[p] = L' - Distance(p, W') + 1
      <4>1. p # W' /\ (p # W => p < W)
        BY <1>1, <2>0, <3>1, <3>2 DEF Positions
      <4> QED BY <1>4, <1>6, <4>1 DEF Filling
    <3>3. m_writePos' <= W' /\ m_readPos' <= m_writePos'
      BY <1>1, <1>2, <1>6, <2>0, <3>1 DEF Filling, Positions
    <3> QED BY <1>2, <1>6, <3>2, <3>3 DEF Filling
  <2> QED BY <2>1, <2>2
<1> QED BY <1>5, <1>6 DEF NewestKept, CopyIn

\* An overflow moves the read position, in a buffer that has not been filled
\* not past the write position.
LEMMA KeptDropOldest ==
  ASSUME Types, NewestKept, DropOldest
  PROVE  NewestKept'
<1> SUFFICES ASSUME ~torn PROVE Filled' \/ Filling'
  BY DEF DropOldest, NewestKept
<1>1. /\ io.pc = "drop" /\ io'.pc = "copy" /\ io'.w = io.w /\ io'.i = io.i
      /\ io'.count = io.count
      /\ m_buffer' = m_buffer /\ m_writePos' = m_writePos /\ last' = last
      /\ render' = render
      /\ m_readPos' = (io.r + io.count - Free(io.r, io.w)) % Capacity
  BY DEF DropOldest, Types, CallTypes
<1>2. W' = W /\ L' = L
  BY <1>1 DEF W, L
<1>3. CASE Filled
  BY <1>1, <1>2, <1>3, SameBuffer
<1>4. CASE Filling
  <2>1. /\ Capacity \in Nat \ {0}
        /\ io.r \in Int /\ 0 <= io.r /\ io.w \in Int /\ io.w <= Capacity - 1
        /\ io.count \in Int /\ io.count <= Capacity - 1
        /\ io.r <= io.w /\ io.w = m_writePos /\ io.count > Free(io.r, io.w)
    BY <1>1, <1>4, SizeAssumption DEF Filling, Types, CallTypes, PushState, Positions
  <2> DEFINE x == io.r + io.count - Free(io.r, io.w)
  <2>2. Free(io.r, io.w) = Capacity - (io.w - io.r) - 1
    BY <2>1 DEF Free, Distance
  <2>3. x \in Positions /\ x <= io.w
    BY <2>1, <2>2 DEF Positions
  <2>4. m_readPos' = x
    <3>1. m_readPos' = x % Capacity
      BY <1>1
    <3> HIDE DEF x
    <3> QED BY <2>3, <3>1, Wrap
  <2>5. m_readPos' <= m_writePos'
    BY <1>1, <2>1, <2>3, <2>4
  <2>6. \A p \in Positions : p < W' => m_buffer'[p] = L' - Distance(p, W') + 1
    BY <1>1, <1>2, <1>4, SameBuffer DEF Filling
  <2> QED BY <1>1, <1>2, <1>4, <2>5, <2>6 DEF Filling
<1> QED BY <1>1, <1>3, <1>4 DEF NewestKept

\* The other steps of the io thread.
LEMMA KeptIo ==
  ASSUME Types, Types', NewestKept, Push \/ Publish \/ ClearRead \/ ClearWrite
  PROVE  NewestKept'
<1>0. Capacity \in Nat \ {0}
  BY SizeAssumption
<1>1. CASE Push
  <2>1. PICK n \in Packets :
          io' = [pc |-> IF n > Free(m_readPos, m_writePos) THEN "drop" ELSE "copy",
                 w |-> m_writePos, r |-> m_readPos, count |-> n, i |-> 0]
    BY <1>1 DEF Push
  <2>2. /\ io.pc = "idle" /\ io'.pc \in {"drop", "copy"} /\ io'.w = m_writePos
        /\ io'.r = m_readPos /\ io'.i = 0 /\ io.i = 0
        /\ m_buffer' = m_buffer /\ m_writePos' = m_writePos /\ last' = last
        /\ m_readPos' = m_readPos /\ render' = render /\ torn' = torn
    BY <1>1, <2>1 DEF Push, Types, PushState
  <2>3. W' = W /\ L' = L
    BY <2>2 DEF W, L
  <2>4. Filled => Filled'
    BY <2>2, <2>3, SameBuffer
  <2>5. Filling => Filling'
    BY <2>2, <2>3, SameBuffer DEF Filling
  <2>6. torn' = torn /\ io.pc # "clear"
    BY <2>2
  <2> QED BY <2>4, <2>5, <2>6 DEF NewestKept
<1>2. CASE Publish
  <2>1. /\ io.pc = "publish" /\ io'.pc = "idle" /\ io'.i = 0
        /\ m_buffer' = m_buffer /\ m_writePos' = io.w /\ last' = last + io.count
        /\ m_readPos' = m_readPos /\ render' = render /\ torn' = torn
        /\ io.i = io.count
    BY <1>2 DEF Publish, IoIdle, Types, PushState
  <2>2. W' = W /\ L' = L /\ W = io.w
    <3>1. last \in Nat /\ io.count \in Nat
      BY <1>0, SizeAssumption DEF Types, Scalars, CallTypes
    <3>2. (last + io.count) + 0 = last + io.count
      BY <3>1
    <3> QED BY <2>1, <3>2 DEF W, L
  <2>3. Filled => Filled'
    BY <2>1, <2>2, SameBuffer
  <2>4. ASSUME Filling PROVE Filling'
    <3>1. /\ m_writePos <= m_writePos' /\ m_readPos' <= m_writePos
          /\ render'.pc # "idle" => render'.r <= m_writePos
          /\ render'.pc = "copy" =>
               render'.r + (render'.toRead - Len(render'.out)) <= m_writePos
      BY <2>1, <2>2, <2>4 DEF Filling
    <3>2. \A p \in Positions : p < W' => m_buffer'[p] = L' - Distance(p, W') + 1
      BY <2>1, <2>2, <2>4, SameBuffer DEF Filling
    <3>3. /\ m_readPos' \in Int /\ m_writePos \in Int /\ m_writePos' \in Int
          /\ render'.r \in Int /\ render'.toRead \in Int /\ Len(render'.out) \in Int
      BY <1>0 DEF Types, Scalars, CallTypes, Positions
    <3>4. /\ m_readPos' <= m_writePos'
          /\ render'.pc # "idle" => render'.r <= m_writePos'
          /\ render'.pc = "copy" =>
               render'.r + (render'.toRead - Len(render'.out)) <= m_writePos'
      BY <3>1, <3>3
    <3>5. m_writePos' <= W'
      BY <2>1, <2>2, <3>3
    <3> QED BY <2>1, <3>2, <3>4, <3>5 DEF Filling
  <2>5. io.pc # "clear"
    BY <2>1
  <2> QED BY <2>1, <2>3, <2>4, <2>5 DEF NewestKept
<1>3. CASE ClearRead
  <2>1. io'.pc = "clear"
    BY <1>3 DEF ClearRead, Types, CallTypes
  <2> QED BY <2>1 DEF NewestKept
<1>4. CASE ClearWrite
  <2>1. /\ io'.pc = "idle" /\ m_writePos' = 0 /\ render' = render
        /\ m_readPos' = m_readPos
    BY <1>4 DEF ClearWrite, IoIdle
  <2>2. ~torn' => render.pc = "idle" /\ m_readPos = 0
    BY <1>4, Zenon DEF ClearWrite
  <2>3. ~torn' => Filling'
    <3>1. W' = 0
      BY <2>1 DEF W
    <3>2. \A p \in Positions : ~(p < W')
      BY <1>0, <3>1 DEF Positions
    <3> QED BY <2>1, <2>2, <3>1, <3>2 DEF Filling
  <2> QED BY <2>3 DEF NewestKept
<1> QED BY <1>1, <1>2, <1>3, <1>4

\* The render thread keeps behind the write position of a buffer that has not
\* been filled.
LEMMA KeptPop ==
  ASSUME Types, Types', NewestKept, Pop \/ LoadWritePos \/ CopyOut \/ StoreReadPos
  PROVE  NewestKept'
<1>0. Capacity \in Nat \ {0}
  BY SizeAssumption
<1>1. /\ io' = io /\ m_buffer' = m_buffer /\ m_writePos' = m_writePos
      /\ last' = last /\ torn' = torn
  BY DEF Pop, LoadWritePos, CopyOut, StoreReadPos
<1>2. W' = W /\ L' = L
  BY <1>1 DEF W, L
<1>3. Filled => Filled'
  BY <1>1, <1>2, SameBuffer
<1>4. ASSUME Filling PROVE Filling'
  <2>1. \A p \in Positions : p < W' => m_buffer'[p] = L' - Distance(p, W') + 1
    BY <1>1, <1>2, <1>4, SameBuffer DEF Filling
  <2>2. /\ m_writePos \in Int /\ m_readPos \in Int /\ render.r \in Int
        /\ m_writePos <= Capacity - 1 /\ 0 <= render.r
        /\ render.toRead \in Int /\ Len(render.out) \in Int
        /\ m_writePos \in Positions /\ render.r \in Positions
    BY <1>0 DEF Types, Scalars, CallTypes, Positions
  <2>3. CASE Pop
    <3>1. PICK n \in Quanta :
            render' = [pc |-> "load", r |-> m_readPos, max |-> n, toRead |-> 0, out |-> <<>>]
      BY <2>3 DEF Pop, RenderIdle
    <3>2. m_readPos' = m_readPos
      BY <2>3 DEF Pop
    <3> QED BY <1>1, <1>2, <1>4, <2>1, <3>1, <3>2 DEF Filling
  <2>4. CASE LoadWritePos
    <3> DEFINE n == IF render.max < Distance(render.r, m_writePos)
                    THEN render.max ELSE Distance(render.r, m_writePos)
    <3>1. /\ render.r <= m_writePos /\ m_readPos' = m_readPos /\ render.max \in Nat
          /\ render.out = <<>> /\ Len(<<>>) = 0
      BY <1>4, <2>4 DEF LoadWritePos, Filling, Types, CallTypes
    <3>2. Distance(render.r, m_writePos) = m_writePos - render.r
      BY <2>2, <3>1 DEF Distance
    <3>3. n \in Int /\ render.r + (n - 0) <= m_writePos
      BY <2>2, <3>1, <3>2
    <3>4. render' = [render EXCEPT !.pc = "copy", !.toRead = n]
      BY <2>4 DEF LoadWritePos
    <3> HIDE DEF n
    <3>5. /\ render'.r = render.r /\ render'.toRead = n /\ render'.out = <<>>
      BY <3>1, <3>4 DEF Types, CallTypes
    <3>6. render'.r + (render'.toRead - Len(render'.out)) <= m_writePos'
      BY <1>1, <3>1, <3>3, <3>5
    <3> QED BY <1>1, <1>2, <1>4, <2>1, <3>1, <3>5, <3>6 DEF Filling
  <2>5. CASE CopyOut
    <3> DEFINE v == (render.r + 1) % Capacity
               o == Append(render.out, m_buffer[render.r])
    <3>1. /\ render.pc = "copy" /\ Len(render.out) < render.toRead
          /\ m_readPos' = m_readPos
          /\ render.r + (render.toRead - Len(render.out)) <= m_writePos
      BY <1>4, <2>5 DEF CopyOut, Filling
    <3>2. render.r < m_writePos
      BY <2>2, <3>1
    <3>3. v = render.r + 1
      BY <1>0, <2>2, <3>2, NextPosition
    <3>4. render' = [render EXCEPT !.out = o, !.r = v]
      BY <2>5 DEF CopyOut
    <3>5. Len(o) = Len(render.out) + 1
      BY DEF Types, CallTypes
    <3> HIDE DEF v, o
    <3>6. /\ render'.r = v /\ render'.toRead = render.toRead /\ render'.out = o
      BY <3>4 DEF Types, CallTypes
    <3>7. v <= m_writePos /\ v + (render.toRead - Len(o)) <= m_writePos
      BY <2>2, <3>1, <3>2, <3>3, <3>5
    <3> QED BY <1>1, <1>2, <1>4, <2>1, <3>1, <3>6, <3>7 DEF Filling
  <2>6. CASE StoreReadPos
    <3>1. render'.pc = "idle" /\ m_readPos' = render.r /\ render.r <= m_writePos
      BY <1>4, <2>6 DEF StoreReadPos, RenderIdle, Filling
    <3> QED BY <1>1, <1>2, <1>4, <2>1, <3>1 DEF Filling
  <2> QED BY <2>3, <2>4, <2>5, <2>6
<1> QED BY <1>1, <1>3, <1>4, Zenon DEF NewestKept

\* Every step keeps the invariant.
LEMMA InvNext == IInv /\ [Next]_vars => IInv'
<1> SUFFICES ASSUME IInv, [Next]_vars PROVE NewestKept'
  BY TypesNext DEF IInv
<1>1. Types /\ Types' /\ NewestKept
  BY TypesNext DEF IInv
<1>2. CASE UNCHANGED vars
  <2>1. /\ io' = io /\ m_buffer' = m_buffer /\ m_writePos' = m_writePos
        /\ m_readPos' = m_readPos /\ render' = render /\ last' = last /\ torn' = torn
    BY <1>2 DEF vars
  <2>2. W' = W /\ L' = L
    BY <2>1 DEF W, L
  <2>3. (Filled => Filled') /\ (Filling => Filling')
    BY <2>1, <2>2, SameBuffer DEF Filling
  <2> QED BY <1>1, <2>1, <2>3, Zenon DEF NewestKept
<1> QED BY <1>1, <1>2, KeptCopyIn, KeptDropOldest, KeptIo, KeptPop DEF Next

\* The invariant holds in every reachable state.
LEMMA Invariant == Spec => []IInv
BY InvInit, InvNext, PTL DEF Spec

-----------------------------------------------------------------------------
(* The buffer implements SampleFifo.                                       *)

\* Moving the read position over n samples leaves that many fewer.
LEMMA Advance ==
  ASSUME NEW r \in Positions, NEW w \in Positions, NEW n \in 0..Distance(r, w)
  PROVE  LET p == (r + n) % Capacity
         IN  p \in Positions /\ Distance(p, w) = Distance(r, w) - n
<1>1. /\ Capacity \in Nat \ {0}
      /\ r \in Int /\ 0 <= r /\ r <= Capacity - 1
      /\ w \in Int /\ 0 <= w /\ w <= Capacity - 1
      /\ Distance(r, w) \in 0..(Capacity - 1)
  BY SizeAssumption, DistanceInRange DEF Positions
<1>2. n \in Int /\ 0 <= n /\ n <= Distance(r, w)
  BY <1>1
<1> DEFINE x == r + n
<1>3. CASE x < Capacity
  <2>1. x \in Positions
    BY <1>1, <1>2, <1>3 DEF Positions
  <2>2. x % Capacity = x
    <3> HIDE DEF x
    <3> QED BY <2>1, Wrap
  <2> QED BY <1>1, <1>2, <1>3, <2>1, <2>2 DEF Distance
<1>4. CASE ~(x < Capacity)
  <2>1. ~(w >= r) /\ Distance(r, w) = Capacity - r + w
    BY <1>1, <1>2, <1>4 DEF Distance
  <2>2. x \in Capacity..(2 * Capacity - 1)
    BY <1>1, <1>2, <1>4
  <2>3. x % Capacity = x - Capacity
    <3> HIDE DEF x
    <3> QED BY <2>2, Wrap
  <2>4. x - Capacity \in Positions /\ x - Capacity <= w
    BY <1>1, <1>2, <2>1, <2>2 DEF Positions
  <2> QED BY <1>1, <1>2, <2>1, <2>3, <2>4 DEF Distance
<1> QED BY <1>3, <1>4

\* Distances in the same direction add up.
LEMMA DistanceAdds ==
  ASSUME NEW r \in Positions, NEW w \in Positions, NEW v \in Positions,
         Distance(r, w) + Distance(w, v) <= Capacity - 1
  PROVE  Distance(r, v) = Distance(r, w) + Distance(w, v)
<1>1. /\ Capacity \in Nat \ {0}
      /\ r \in Int /\ 0 <= r /\ r <= Capacity - 1
      /\ w \in Int /\ 0 <= w /\ w <= Capacity - 1
      /\ v \in Int /\ 0 <= v /\ v <= Capacity - 1
  BY SizeAssumption DEF Positions
<1> QED BY <1>1 DEF Distance

\* The place behind the one that is n samples ahead.
LEMMA WrapNext ==
  ASSUME NEW r \in Positions, NEW n \in 0..(Capacity - 1)
  PROVE  (((r + n) % Capacity) + 1) % Capacity = (r + (n + 1)) % Capacity
<1> DEFINE x == r + n
           y == r + (n + 1)
<1>1. /\ Capacity \in Nat \ {0} /\ r \in Int /\ 0 <= r /\ r <= Capacity - 1
      /\ n \in Int /\ 0 <= n /\ n <= Capacity - 1 /\ y = x + 1
  BY SizeAssumption DEF Positions
<1>2. CASE x < Capacity
  <2>1. x \in Positions
    BY <1>1, <1>2 DEF Positions
  <2>2. x % Capacity = x
    <3> HIDE DEF x
    <3> QED BY <2>1, Wrap
  <2> QED BY <1>1, <2>2
<1>3. CASE ~(x < Capacity)
  <2>1. x \in Capacity..(2 * Capacity - 1) /\ y \in Capacity..(2 * Capacity - 1)
        /\ x - Capacity \in Positions /\ y - Capacity \in Positions
    BY <1>1, <1>3 DEF Positions
  <2>2. x % Capacity = x - Capacity /\ y % Capacity = y - Capacity
    <3> HIDE DEF x, y
    <3> QED BY <2>1, Wrap
  <2> DEFINE z == x - Capacity + 1
  <2>3. z = y - Capacity
    BY <1>1
  <2>4. z % Capacity = z
    <3> HIDE DEF z, y
    <3> QED BY <2>1, <2>3, Wrap
  <2> QED BY <2>2, <2>3, <2>4
<1> QED BY <1>2, <1>3

\* A Push copies a packet, and is as far from the published position as it has
\* copied samples.
PushPlace ==
  /\ torn => raced
  /\ io.pc \in {"drop", "copy", "publish"} =>
       io.count > 0 /\ Distance(m_writePos, io.w) = io.i

\* No Pop has overlapped the drop of an overflow, or a Clear.
Sound == ~raced /\ io.pc # "clear"

\* Then a packet that is copied has room beside what may still be read, ...
Room == io.pc \in {"copy", "publish"} => Available + io.count <= Capacity - 1

\* ... and a Pop has read the oldest samples there are.
Reading ==
  /\ render.pc = "load" => render.r = m_readPos
  /\ render.pc = "copy" =>
       /\ render.toRead <= Available
       /\ render.r = (m_readPos + Len(render.out)) % Capacity
       /\ \A k \in 1..Len(render.out) : render.out[k] = last - Available + k

FInv == IInv /\ PushPlace /\ (Sound => Room /\ Reading)

\* The numbers in the invariant.
LEMMA Numbers ==
  Types =>
    /\ Capacity \in Nat \ {0} /\ MaxSamples \in Nat
    /\ m_readPos \in Positions /\ m_writePos \in Positions
    /\ io.w \in Positions /\ io.r \in Positions
    /\ io.count \in 0..(Capacity - 1) /\ io.i \in 0..(Capacity - 1)
    /\ io.i <= io.count
    /\ Available \in 0..(Capacity - 1)
    /\ render.r \in Positions /\ render.toRead \in 0..(Capacity - 1)
    /\ render.out \in Seq(0..MaxSamples) /\ Len(render.out) \in 0..render.toRead
    /\ last \in Nat
<1> SUFFICES ASSUME Types
             PROVE  /\ Capacity \in Nat \ {0} /\ MaxSamples \in Nat
                    /\ m_readPos \in Positions /\ m_writePos \in Positions
                    /\ io.w \in Positions /\ io.r \in Positions
                    /\ io.count \in 0..(Capacity - 1) /\ io.i \in 0..(Capacity - 1)
                    /\ io.i <= io.count
                    /\ Available \in 0..(Capacity - 1)
                    /\ render.r \in Positions /\ render.toRead \in 0..(Capacity - 1)
                    /\ render.out \in Seq(0..MaxSamples)
                    /\ Len(render.out) \in 0..render.toRead
                    /\ last \in Nat
  OBVIOUS
<1>1. Capacity \in Nat \ {0} /\ MaxSamples \in Nat
  BY SizeAssumption
<1>2. /\ m_readPos \in Positions /\ m_writePos \in Positions
      /\ io.w \in Positions /\ io.r \in Positions
      /\ io.count \in 0..(Capacity - 1) /\ io.i \in 0..(Capacity - 1)
      /\ render.r \in Positions /\ render.toRead \in 0..(Capacity - 1)
      /\ render.out \in Seq(0..MaxSamples) /\ Len(render.out) <= render.toRead
      /\ last \in 0..MaxSamples
  BY DEF Types, Scalars, CallTypes
<1>3. io.i <= io.count
  BY <1>1, <1>2 DEF Types, CallTypes, PushState
<1>4. Available \in 0..(Capacity - 1)
  BY <1>2, DistanceInRange DEF Available
<1>5. last \in Nat /\ Len(render.out) \in 0..render.toRead
  BY <1>1, <1>2
<1> QED BY <1>1, <1>2, <1>3, <1>4, <1>5

\* The k-th of the samples that may be read.
LEMMA ValueAt ==
  ASSUME FInv, Sound, NEW k \in 1..Available
  PROVE  m_buffer[(m_readPos + k - 1) % Capacity] = last - Available + k
<1> DEFINE p == (m_readPos + k - 1) % Capacity
           a == Available
<1>1. Types /\ NewestKept /\ PushPlace /\ Room
  BY DEF FInv, IInv
<1>2. /\ m_readPos \in Positions /\ m_writePos \in Positions /\ W \in Positions
      /\ Capacity \in Nat \ {0} /\ a \in 0..(Capacity - 1) /\ last \in Nat
      /\ io.i \in 0..(Capacity - 1) /\ io.count \in 0..(Capacity - 1)
      /\ io.i <= io.count
  BY <1>1, Numbers, WritePlace
<1>3. Distance(m_writePos, W) = io.i /\ a + io.i <= Capacity - 1
  <2>1. CASE io.pc = "idle"
    <3>1. io.i = 0 /\ W = m_writePos
      BY <1>1, <2>1 DEF Types, PushState, W
    <3>2. m_writePos \in Int
      BY <1>2 DEF Positions
    <3> QED BY <1>2, <3>1, <3>2 DEF Distance
  <2>2. CASE io.pc = "drop"
    <3>1. io.i = 0 /\ W = io.w /\ Distance(m_writePos, io.w) = io.i
      BY <1>1, <2>2 DEF Types, PushState, PushPlace, W
    <3> QED BY <1>2, <3>1
  <2>3. CASE io.pc \in {"copy", "publish"}
    <3>1. /\ W = io.w /\ Distance(m_writePos, io.w) = io.i
          /\ a + io.count <= Capacity - 1
      BY <1>1, <2>3 DEF PushPlace, Room, W
    <3> QED BY <1>2, <3>1
  <2>4. io.pc \in {"idle", "drop", "copy", "publish"}
    BY <1>1 DEF Types, CallTypes, Sound
  <2> QED BY <2>1, <2>2, <2>3, <2>4
<1>4. /\ p \in Positions /\ Distance(p, m_writePos) = a - k + 1
      /\ m_readPos <= m_writePos => p < m_writePos
  BY <1>2, Between DEF Available
<1> HIDE DEF p, a
<1>5. k \in Int /\ 1 <= k /\ k <= a
  BY <1>2 DEF a
<1>6. Distance(p, W) = a - k + 1 + io.i
  <2>1. Distance(p, m_writePos) + Distance(m_writePos, W) <= Capacity - 1
    BY <1>2, <1>3, <1>4, <1>5
  <2> QED BY <1>2, <1>3, <1>4, <2>1, DistanceAdds
<1>7. p # W
  <2>1. Distance(W, W) = 0
    BY <1>2 DEF Distance, Positions
  <2> QED BY <1>2, <1>5, <1>6, <2>1
<1>8. m_buffer[p] = L - Distance(p, W) + 1
  <2>1. CASE Filled
    BY <1>4, <1>7, <2>1 DEF Filled
  <2>2. CASE Filling
    <3>1. p < W
      BY <1>2, <1>4, <2>2 DEF Filling, Positions
    <3> QED BY <1>4, <2>2, <3>1 DEF Filling
  <2>3. ~torn
    BY <1>1 DEF PushPlace, Sound
  <2> QED BY <1>1, <2>1, <2>2, <2>3 DEF NewestKept, Sound
<1> QED BY <1>2, <1>5, <1>6, <1>8 DEF L, p, a

\* The newest a samples when n is the number of the newest.
Newest(a, n) == [k \in 1..a |-> n - a + k]

\* While the buffer is sound its contents are its newest samples.
LEMMA SoundContents == FInv /\ Sound => Contents = Newest(Available, last)
BY ValueAt DEF Contents, Newest

\* So they are after a step.
LEMMA SoundContentsNext ==
  (FInv /\ Sound => Contents = Newest(Available, last))'
BY SoundContents, PTL

\* What writing, discarding and reading do to them.
LEMMA NewestSteps ==
  ASSUME NEW a \in Nat, NEW n \in Nat
  PROVE  /\ Newest(a, n) \in Seq(Int) /\ Len(Newest(a, n)) = a
         /\ \A m \in Nat :
              Newest(a, n) \o [k \in 1..m |-> n + k] = Newest(a + m, n + m)
         /\ \A m \in 0..a : SubSeq(Newest(a, n), m + 1, a) = Newest(a - m, n)
         /\ \A m \in 0..a : SubSeq(Newest(a, n), 1, m) = [k \in 1..m |-> n - a + k]
<1>1. Newest(a, n) \in Seq(Int) /\ Len(Newest(a, n)) = a
  BY DEF Newest
<1>2. ASSUME NEW m \in Nat
      PROVE  Newest(a, n) \o [k \in 1..m |-> n + k] = Newest(a + m, n + m)
  <2> DEFINE s == Newest(a, n) \o [k \in 1..m |-> n + k]
             t == Newest(a + m, n + m)
             z == [k \in 1..m |-> n + k]
  <2>1. z \in Seq(Int) /\ Len(z) = m
    OBVIOUS
  <2>2. s \in Seq(Int) /\ Len(s) = a + m
    BY <1>1, <2>1
  <2>3. t \in Seq(Int) /\ Len(t) = a + m
    BY DEF Newest
  <2>4. ASSUME NEW k \in 1..(a + m) PROVE s[k] = t[k]
    <3>0. k \in Int /\ (n + m) - (a + m) + k = n - a + k /\ n + (k - a) = n - a + k
      OBVIOUS
    <3>1. t[k] = n - a + k
      BY <3>0 DEF Newest
    <3>2. CASE k <= a
      <4>1. s[k] = Newest(a, n)[k]
        BY <1>1, <2>1, <3>2
      <4>2. Newest(a, n)[k] = n - a + k
        BY <3>2 DEF Newest
      <4> HIDE DEF s, t
      <4> QED BY <3>1, <4>1, <4>2
    <3>3. CASE ~(k <= a)
      <4>1. s[k] = z[k - a]
        BY <1>1, <2>1, <3>3
      <4>2. k - a \in 1..m
        BY <3>3
      <4>3. z[k - a] = n + (k - a)
        BY <4>2
      <4> HIDE DEF s, t, z
      <4> QED BY <3>0, <3>1, <4>1, <4>3
    <3> QED BY <3>2, <3>3
  <2> HIDE DEF s, t
  <2>5. s = t
    BY <2>2, <2>3, <2>4, SeqEqual
  <2> QED BY <2>5 DEF s, t
<1>3. ASSUME NEW m \in 0..a
      PROVE  SubSeq(Newest(a, n), m + 1, a) = Newest(a - m, n)
  <2> DEFINE s == SubSeq(Newest(a, n), m + 1, a)
             t == Newest(a - m, n)
  <2>1. s \in Seq(Int) /\ Len(s) = a - m /\ \A k \in 1..(a - m) : s[k] = Newest(a, n)[m + k]
    BY <1>1, SubSeqProperties
  <2>2. t \in Seq(Int) /\ Len(t) = a - m
    BY DEF Newest
  <2>3. ASSUME NEW k \in 1..(a - m) PROVE s[k] = t[k]
    <3>1. m + k \in 1..a
      OBVIOUS
    <3>2. s[k] = n - a + (m + k)
      BY <2>1, <3>1 DEF Newest
    <3>3. t[k] = n - (a - m) + k
      BY DEF Newest
    <3> QED BY <3>2, <3>3
  <2> HIDE DEF s, t
  <2>4. s = t
    BY <2>1, <2>2, <2>3, SeqEqual
  <2> QED BY <2>4 DEF s, t
<1>4. ASSUME NEW m \in 0..a
      PROVE  SubSeq(Newest(a, n), 1, m) = [k \in 1..m |-> n - a + k]
  <2> DEFINE s == SubSeq(Newest(a, n), 1, m)
             t == [k \in 1..m |-> n - a + k]
  <2>1. s \in Seq(Int) /\ Len(s) = m /\ \A k \in 1..m : s[k] = Newest(a, n)[k]
    BY <1>1, SubSeqProperties
  <2>2. t \in Seq(Int) /\ Len(t) = m
    OBVIOUS
  <2>3. ASSUME NEW k \in 1..m PROVE s[k] = t[k]
    BY <2>1 DEF Newest
  <2> HIDE DEF s, t
  <2>4. s = t
    BY <2>1, <2>2, <2>3, SeqEqual
  <2> QED BY <2>4 DEF s, t
<1> QED BY <1>1, <1>2, <1>3, <1>4

\* A new buffer is sound and empty.
LEMMA FInvInit == Init => FInv
<1> SUFFICES ASSUME Init PROVE FInv
  OBVIOUS
<1>1. io.pc = "idle" /\ render.pc = "idle" /\ torn = FALSE
  BY DEF Init, IoIdle, RenderIdle
<1> QED BY <1>1, InvInit, Zenon DEF FInv, PushPlace, Room, Reading

\* The steps of the io thread.
LEMMA FInvPush == FInv /\ Types' /\ Push => PushPlace' /\ (Sound' => Room' /\ Reading')
<1> SUFFICES ASSUME FInv, Types', Push
             PROVE  PushPlace' /\ (Sound' => Room' /\ Reading')
  OBVIOUS
<1>1. Types /\ PushPlace /\ (Sound => Reading)
  BY DEF FInv, IInv
<1>2. PICK n \in Packets :
        io' = [pc |-> IF n > Free(m_readPos, m_writePos) THEN "drop" ELSE "copy",
               w |-> m_writePos, r |-> m_readPos, count |-> n, i |-> 0]
  BY DEF Push
<1>3. /\ m_writePos' = m_writePos /\ m_readPos' = m_readPos /\ render' = render
      /\ last' = last /\ UNCHANGED <<raced, torn>> /\ io.pc = "idle"
  BY DEF Push
<1>4. /\ io'.w = m_writePos /\ io'.count = n /\ io'.i = 0 /\ io'.pc # "clear"
      /\ io'.pc = "copy" => ~(n > Free(m_readPos, m_writePos))
      /\ io'.pc # "publish"
  BY <1>2
<1>5. n \in Nat /\ n > 0
  BY SizeAssumption
<1>6. Distance(m_writePos, m_writePos) = 0
  BY <1>1, Numbers DEF Distance, Positions
<1>7. Available' = Available
  BY <1>3 DEF Available
<1>8. PushPlace'
  <2>1. torn' => raced'
    BY <1>1, <1>3, Zenon DEF PushPlace
  <2> QED BY <1>3, <1>4, <1>5, <1>6, <2>1 DEF PushPlace
<1>9. Room'
  <2>1. ASSUME ~(n > Free(m_readPos, m_writePos))
        PROVE  Available + n <= Capacity - 1
    <3>1. Free(m_readPos, m_writePos) = Capacity - Available - 1
      BY DEF Free, Available
    <3> QED BY <1>1, <1>5, <2>1, <3>1, Numbers
  <2> QED BY <1>4, <1>7, <2>1 DEF Room
<1>10. Sound' => Reading'
  <2>1. Sound' => Sound
    BY <1>3, Zenon DEF Sound
  <2>2. Reading => Reading'
    BY <1>3, <1>7 DEF Reading
  <2> QED BY <1>1, <2>1, <2>2
<1> QED BY <1>8, <1>9, <1>10

\* An overflow that overlaps no Pop discards as many samples as it must.
LEMMA DropLeaves ==
  ASSUME FInv, DropOldest, Sound'
  PROVE  /\ Sound /\ render.pc = "idle"
         /\ io.count - (Capacity - Available - 1) \in 1..Available
         /\ Available' = Available - (io.count - (Capacity - Available - 1))
<1>1. ~raced' /\ ~raced /\ render.pc = "idle" /\ m_readPos = io.r /\ io.pc = "drop"
  BY Zenon DEF DropOldest, Sound
<1>2. Types /\ io.w = m_writePos /\ io.count > Free(io.r, io.w)
  BY <1>1 DEF FInv, IInv, Types, PushState
<1>3. Free(io.r, io.w) = Capacity - Available - 1
  BY <1>1, <1>2 DEF Free, Available
<1> DEFINE n == io.count - (Capacity - Available - 1)
           x == io.r + io.count - Free(io.r, io.w)
<1>4. /\ Capacity \in Nat \ {0} /\ m_readPos \in Positions /\ m_writePos \in Positions
      /\ io.count \in 0..(Capacity - 1) /\ Available \in 0..(Capacity - 1)
  BY <1>2, Numbers
<1>5. n \in 1..Available
  BY <1>2, <1>3, <1>4
<1>6. x = m_readPos + n
  BY <1>1, <1>3, <1>4 DEF Positions
<1>7. m_readPos' = x % Capacity /\ m_writePos' = m_writePos
  BY DEF DropOldest
<1>8. Available' = Distance((m_readPos + n) % Capacity, m_writePos)
  <2> HIDE DEF n, x
  <2> QED BY <1>6, <1>7 DEF Available
<1>9. Available' = Available - n
  <2>1. n \in 0..Distance(m_readPos, m_writePos)
    BY <1>4, <1>5 DEF Available
  <2> HIDE DEF n
  <2> QED BY <1>4, <1>8, <2>1, Advance DEF Available
<1> QED BY <1>1, <1>5, <1>9 DEF Sound

\* A drop keeps what the refinement needs.
LEMMA FInvDropOldest ==
  FInv /\ DropOldest => PushPlace' /\ (Sound' => Room' /\ Reading')
<1> SUFFICES ASSUME FInv, DropOldest
             PROVE  PushPlace' /\ (Sound' => Room' /\ Reading')
  OBVIOUS
<1>1. Types /\ PushPlace
  BY DEF FInv, IInv
<1>2. /\ io.pc = "drop" /\ io'.pc = "copy" /\ io'.w = io.w /\ io'.count = io.count
      /\ io'.i = io.i /\ m_writePos' = m_writePos /\ render' = render
  BY <1>1 DEF DropOldest, Types, CallTypes
<1>3. PushPlace'
  <2>1. torn' => raced'
    BY <1>1, Zenon DEF DropOldest, PushPlace
  <2> QED BY <1>1, <1>2, <2>1 DEF PushPlace
<1>4. ASSUME Sound' PROVE Room' /\ Reading'
  <2>1. /\ render.pc = "idle"
        /\ Available' = Available - (io.count - (Capacity - Available - 1))
    BY <1>4, DropLeaves
  <2>2. Reading'
    BY <1>2, <2>1 DEF Reading
  <2>3. Available' + io'.count <= Capacity - 1
    BY <1>1, <1>2, <2>1, Numbers
  <2> QED BY <2>2, <2>3 DEF Room
<1> QED BY <1>3, <1>4

\* Samples are copied in beside those that may be read.
LEMMA FInvCopyIn ==
  FInv /\ CopyIn => PushPlace' /\ (Sound' => Room' /\ Reading')
<1> SUFFICES ASSUME FInv, CopyIn
             PROVE  PushPlace' /\ (Sound' => Room' /\ Reading')
  OBVIOUS
<1>1. Types /\ PushPlace /\ (Sound => Room /\ Reading)
  BY DEF FInv, IInv
<1> DEFINE v == (io.w + 1) % Capacity
           j == io.i + 1
           c == IF j = io.count THEN "publish" ELSE "copy"
<1>2. io' = [io EXCEPT !.w = v, !.i = j, !.pc = c] /\ io.pc = "copy"
  BY DEF CopyIn
<1>3. c \in {"publish", "copy"}
  OBVIOUS
<1>4. /\ Capacity \in Nat \ {0} /\ m_writePos \in Positions /\ io.w \in Positions
      /\ io.i \in 0..(Capacity - 1) /\ io.count \in 0..(Capacity - 1)
      /\ io.i < io.count
  BY <1>1, <1>2, Numbers DEF Types, PushState
<1>5. Distance(m_writePos, v) = j
  <2>1. Distance(m_writePos, io.w) = io.i
    BY <1>1, <1>2 DEF PushPlace
  <2>2. v \in Positions /\ v = IF io.w = Capacity - 1 THEN 0 ELSE io.w + 1
    BY <1>4, NextPosition
  <2> HIDE DEF v
  <2> QED BY <1>4, <2>1, <2>2 DEF Distance, Positions
<1> HIDE DEF v, j, c
<1>6. io'.w = v /\ io'.i = j /\ io'.pc = c /\ io'.count = io.count
  BY <1>1, <1>2 DEF Types, CallTypes
<1>7. /\ m_writePos' = m_writePos /\ m_readPos' = m_readPos /\ last' = last
      /\ render' = render /\ UNCHANGED <<raced, torn>>
  BY DEF CopyIn
<1>8. Available' = Available
  BY <1>7 DEF Available
<1>9. PushPlace'
  <2>1. torn' => raced'
    BY <1>1, <1>7, Zenon DEF PushPlace
  <2> QED BY <1>4, <1>5, <1>6, <1>7, <2>1 DEF PushPlace
<1>10. Sound' => Sound
  BY <1>2, <1>7, Zenon DEF Sound
<1>11. Room => Room'
  BY <1>2, <1>6, <1>8 DEF Room
<1>12. Reading => Reading'
  BY <1>7, <1>8 DEF Reading
<1> QED BY <1>1, <1>9, <1>10, <1>11, <1>12

\* What is published may be read.
LEMMA PublishAdds ==
  ASSUME FInv, Publish, Sound
  PROVE  Available' = Available + io.count /\ io.count > 0
         /\ Available + io.count <= Capacity - 1
<1>1. Types /\ PushPlace /\ Room /\ io.pc = "publish"
  BY DEF FInv, IInv, Publish
<1>2. /\ io.i = io.count /\ io.count > 0
      /\ Distance(m_writePos, io.w) = io.i /\ Available + io.count <= Capacity - 1
  BY <1>1 DEF Types, PushState, PushPlace, Room
<1>3. m_writePos' = io.w /\ m_readPos' = m_readPos
  BY DEF Publish
<1>4. m_readPos \in Positions /\ m_writePos \in Positions /\ io.w \in Positions
  BY <1>1, Numbers
<1>5. Distance(m_readPos, io.w) = Available + io.count
  BY <1>2, <1>4, DistanceAdds DEF Available
<1> QED BY <1>2, <1>3, <1>5 DEF Available

\* So does a publication.
LEMMA FInvPublish ==
  FInv /\ Publish => PushPlace' /\ (Sound' => Room' /\ Reading')
<1> SUFFICES ASSUME FInv, Publish
             PROVE  PushPlace' /\ (Sound' => Room' /\ Reading')
  OBVIOUS
<1>1. Types /\ PushPlace /\ (Sound => Reading)
  BY DEF FInv, IInv
<1>2. /\ io.pc = "publish" /\ io'.pc = "idle" /\ m_readPos' = m_readPos
      /\ last' = last + io.count /\ render' = render /\ UNCHANGED <<raced, torn>>
  BY DEF Publish, IoIdle
<1>3. PushPlace'
  <2>1. torn' => raced'
    BY <1>1, <1>2, Zenon DEF PushPlace
  <2> QED BY <1>2, <2>1 DEF PushPlace
<1>4. ASSUME Sound' PROVE Reading'
  <2>1. Sound
    BY <1>2, <1>4, Zenon DEF Sound
  <2>2. Available' = Available + io.count
    BY <2>1, PublishAdds
  <2>3. /\ Available \in Nat /\ last \in Nat /\ io.count \in Nat
        /\ render.toRead \in Nat /\ Len(render.out) \in Nat
    BY <1>1, Numbers
  <2>4. last' - Available' = last - Available
    BY <1>2, <2>2, <2>3
  <2>5. \A k \in 1..Len(render.out) : last' - Available' + k = last - Available + k
    BY <2>4
  <2>6. render.toRead <= Available => render.toRead <= Available'
    BY <2>2, <2>3
  <2> QED BY <1>1, <1>2, <2>1, <2>5, <2>6 DEF Reading
<1>5. Room'
  BY <1>2 DEF Room
<1> QED BY <1>3, <1>4, <1>5

\* A Clear that no Pop overlaps makes the buffer sound.
LEMMA FInvClear ==
  FInv /\ (ClearRead \/ ClearWrite) => PushPlace' /\ (Sound' => Room' /\ Reading')
<1> SUFFICES ASSUME FInv, ClearRead \/ ClearWrite
             PROVE  PushPlace' /\ (Sound' => Room' /\ Reading')
  OBVIOUS
<1>1. Types /\ PushPlace
  BY DEF FInv, IInv
<1>2. CASE ClearRead
  <2>1. io'.pc = "clear"
    BY <1>1, <1>2 DEF ClearRead, Types, CallTypes
  <2>2. torn' => raced'
    BY <1>2, Zenon DEF ClearRead
  <2> QED BY <2>1, <2>2 DEF PushPlace, Sound
<1>3. CASE ClearWrite
  <2>1. io'.pc = "idle" /\ render' = render
    BY <1>3 DEF ClearWrite, IoIdle
  <2>2. (torn' => raced') /\ (~raced' => render.pc = "idle")
    BY <1>1, <1>3, Zenon DEF ClearWrite, PushPlace
  <2> QED BY <2>1, <2>2 DEF PushPlace, Sound, Room, Reading
<1> QED BY <1>2, <1>3

\* A Pop ends: the samples it has read are gone.
LEMMA StoreLeaves ==
  ASSUME FInv, StoreReadPos, Sound
  PROVE  /\ Available' = Available - render.toRead
         /\ render.toRead \in 0..Available
         /\ Len(render.out) = render.toRead
         /\ \A k \in 1..render.toRead : render.out[k] = last - Available + k
<1>1. Types /\ Reading /\ render.pc = "copy"
  BY DEF FInv, IInv, StoreReadPos
<1>2. /\ Len(render.out) = render.toRead /\ render.toRead <= Available
      /\ render.r = (m_readPos + render.toRead) % Capacity
      /\ \A k \in 1..render.toRead : render.out[k] = last - Available + k
  BY <1>1 DEF Reading, StoreReadPos
<1>3. /\ m_readPos \in Positions /\ m_writePos \in Positions
      /\ Available \in Nat /\ render.toRead \in Nat
  BY <1>1, Numbers
<1>4. render.toRead \in 0..Available
  BY <1>2, <1>3
<1>5. m_readPos' = render.r /\ m_writePos' = m_writePos
  BY DEF StoreReadPos
<1>6. Available' = Available - render.toRead
  <2>1. Available' = Distance((m_readPos + render.toRead) % Capacity, m_writePos)
    BY <1>2, <1>5 DEF Available
  <2>2. render.toRead \in 0..Distance(m_readPos, m_writePos)
    BY <1>4 DEF Available
  <2> QED BY <1>3, <2>1, <2>2, Advance DEF Available
<1> QED BY <1>2, <1>4, <1>6

\* The steps of the render thread.
LEMMA FInvPop ==
  FInv /\ (Pop \/ LoadWritePos \/ CopyOut \/ StoreReadPos) =>
    PushPlace' /\ (Sound' => Room' /\ Reading')
<1> SUFFICES ASSUME FInv, Pop \/ LoadWritePos \/ CopyOut \/ StoreReadPos
             PROVE  PushPlace' /\ (Sound' => Room' /\ Reading')
  OBVIOUS
<1>1. Types /\ PushPlace /\ (Sound => Room /\ Reading)
  BY DEF FInv, IInv
<1>2. /\ io' = io /\ m_writePos' = m_writePos /\ last' = last
      /\ UNCHANGED <<raced, torn>>
  BY DEF Pop, LoadWritePos, CopyOut, StoreReadPos
<1>3. PushPlace'
  <2>1. torn' => raced'
    BY <1>1, <1>2, Zenon DEF PushPlace
  <2> QED BY <1>1, <1>2, <2>1 DEF PushPlace
<1>4. Sound' => Sound
  BY <1>2, Zenon DEF Sound
<1>5. /\ Capacity \in Nat \ {0} /\ m_readPos \in Positions /\ m_writePos \in Positions
      /\ Available \in 0..(Capacity - 1) /\ render.toRead \in 0..(Capacity - 1)
      /\ render.r \in Positions /\ io.count \in 0..(Capacity - 1)
      /\ render.out \in Seq(0..MaxSamples) /\ Len(render.out) \in 0..render.toRead
  BY <1>1, Numbers
<1>6. ASSUME Sound, Room, Reading, Pop \/ LoadWritePos \/ CopyOut
      PROVE  Room' /\ Reading'
  <2>1. m_readPos' = m_readPos /\ Available' = Available
    BY <1>2, <1>6 DEF Pop, LoadWritePos, CopyOut, Available
  <2>2. Room'
    BY <1>2, <1>6, <2>1 DEF Room
  <2>3. CASE Pop
    <3>1. render'.pc = "load" /\ render'.r = m_readPos
      BY <2>3 DEF Pop, RenderIdle
    <3> QED BY <2>1, <2>2, <3>1 DEF Reading
  <2>4. CASE LoadWritePos
    <3> DEFINE n == IF render.max < Distance(render.r, m_writePos)
                    THEN render.max ELSE Distance(render.r, m_writePos)
    <3>1. /\ render.r = m_readPos /\ render.out = <<>> /\ render.max \in Nat
      BY <1>1, <1>6, <2>4 DEF LoadWritePos, Reading, Types, CallTypes
    <3>2. n <= Available
      BY <1>5, <3>1 DEF Available
    <3>3. render' = [render EXCEPT !.pc = "copy", !.toRead = n]
      BY <2>4 DEF LoadWritePos
    <3> HIDE DEF n
    <3>4. /\ render'.pc = "copy" /\ render'.toRead = n /\ render'.out = <<>>
          /\ render'.r = m_readPos
      BY <1>1, <3>1, <3>3 DEF Types, CallTypes
    <3>5. Len(render'.out) = 0
      BY <3>4
    <3>6. (m_readPos + 0) % Capacity = m_readPos
      <4>1. m_readPos + 0 = m_readPos
        BY <1>5 DEF Positions
      <4> QED BY <1>5, <4>1, Wrap
    <3>7. \A k \in 1..0 : render'.out[k] = last' - Available' + k
      OBVIOUS
    <3> QED BY <2>1, <2>2, <3>2, <3>4, <3>5, <3>6, <3>7 DEF Reading
  <2>5. CASE CopyOut
    <3> DEFINE m == Len(render.out)
               v == (render.r + 1) % Capacity
               x == m_buffer[render.r]
               o == Append(render.out, x)
    <3>1. /\ render.pc = "copy" /\ m < render.toRead /\ render.toRead <= Available
          /\ render.r = (m_readPos + m) % Capacity
          /\ \A k \in 1..m : render.out[k] = last - Available + k
      BY <1>6, <2>5 DEF CopyOut, Reading
    <3>2. m \in 0..(Capacity - 1) /\ m + 1 \in 1..Available /\ m_readPos + (m + 1) - 1 = m_readPos + m
      BY <1>5, <3>1 DEF Positions
    <3>3. x = last - Available + (m + 1)
      <4> HIDE DEF m
      <4>1. m_buffer[(m_readPos + (m + 1) - 1) % Capacity] = last - Available + (m + 1)
        BY <1>6, <3>2, ValueAt
      <4> QED BY <3>1, <3>2, <4>1
    <3>4. v = (m_readPos + (m + 1)) % Capacity
      <4> HIDE DEF m
      <4> QED BY <1>5, <3>1, <3>2, WrapNext
    <3>5. render' = [render EXCEPT !.out = o, !.r = v]
      BY <2>5 DEF CopyOut
    <3>6. /\ Len(o) = m + 1
          /\ \A k \in 1..m : o[k] = render.out[k]
          /\ o[m + 1] = x
      <4> HIDE DEF x
      <4> QED BY <1>5
    <3> HIDE DEF v, x, o
    <3>7. \A k \in 1..(m + 1) : o[k] = last - Available + k
      <4> SUFFICES ASSUME NEW k \in 1..(m + 1) PROVE o[k] = last - Available + k
        OBVIOUS
      <4>1. CASE k = m + 1
        BY <3>3, <3>6, <4>1
      <4>2. CASE k # m + 1
        <5>1. k \in 1..m
          BY <3>2, <4>2
        <5> QED BY <3>1, <3>6, <5>1
      <4> QED BY <4>1, <4>2
    <3>8. /\ render'.pc = "copy" /\ render'.toRead = render.toRead
          /\ render'.out = o /\ render'.r = v
      BY <1>1, <3>1, <3>5 DEF Types, CallTypes
    <3> HIDE DEF m
    <3> QED BY <1>2, <2>1, <2>2, <3>1, <3>4, <3>6, <3>7, <3>8 DEF Reading
  <2> QED BY <1>6, <2>3, <2>4, <2>5
<1>7. ASSUME Sound, Room, StoreReadPos
      PROVE  Room' /\ Reading'
  <2>1. render'.pc = "idle"
    BY <1>7 DEF StoreReadPos, RenderIdle
  <2>2. Available' = Available - render.toRead
    BY <1>7, StoreLeaves
  <2>3. Available + io.count <= Capacity - 1 => Available' + io.count <= Capacity - 1
    BY <1>5, <2>2
  <2> QED BY <1>2, <1>7, <2>1, <2>3 DEF Room, Reading
<1> QED BY <1>1, <1>3, <1>4, <1>6, <1>7

\* Every step keeps what the refinement needs.
LEMMA FInvNext == FInv /\ [Next]_vars => FInv'
<1> SUFFICES ASSUME FInv, [Next]_vars
             PROVE  PushPlace' /\ (Sound' => Room' /\ Reading')
  BY InvNext DEF FInv
<1>1. Types'
  BY InvNext DEF FInv, IInv
<1>2. CASE UNCHANGED vars
  <2>1. /\ io' = io /\ m_writePos' = m_writePos /\ m_readPos' = m_readPos
        /\ render' = render /\ last' = last /\ UNCHANGED <<raced, torn>>
    BY <1>2 DEF vars
  <2>2. Available' = Available
    BY <2>1 DEF Available
  <2>3. (torn' => raced') /\ (Sound' => Sound)
    BY <2>1, Zenon DEF FInv, PushPlace, Sound
  <2>4. (Room => Room') /\ (Reading => Reading')
    BY <2>1, <2>2 DEF Room, Reading
  <2>5. PushPlace'
    BY <2>1, <2>3 DEF FInv, PushPlace
  <2> QED BY <2>3, <2>4, <2>5 DEF FInv
<1> QED
  BY <1>1, <1>2, FInvPush, FInvDropOldest, FInvCopyIn, FInvPublish, FInvClear,
     FInvPop
  DEF Next

\* A new buffer is an empty queue.
LEMMA FifoInit == Init => Fifo!Init
<1> SUFFICES ASSUME Init PROVE Fifo!Init
  OBVIOUS
<1>1. m_readPos = 0 /\ m_writePos = 0 /\ last = 0 /\ taken = <<>> /\ io.count = 0
  BY DEF Init, IoIdle
<1>2. Available = 0
  BY <1>1 DEF Available, Distance
<1>3. Contents = <<>>
  BY <1>2 DEF Contents
<1>4. (~raced /\ io.pc # "clear") = TRUE
  BY DEF Init, IoIdle
<1> QED BY <1>1, <1>3, <1>4 DEF Fifo!Init

\* The step of a sound buffer is one of the queue.
LEMMA FifoSound ==
  ASSUME FInv, FInv', [Next]_vars, Sound, Sound'
  PROVE  Fifo!Next \/ UNCHANGED Fifo!vars
<1> DEFINE a == Available
<1>1. Types /\ Contents = Newest(Available, last)
  BY SoundContents DEF FInv, IInv
<1>2. Contents' = Newest(Available', last')
  BY SoundContentsNext DEF Newest
<1>3. a \in Nat /\ last \in Nat /\ io.count \in Nat /\ Capacity \in Nat \ {0}
  BY <1>1, Numbers
<1>4. Len(Contents) = a
  BY <1>1, <1>3, NewestSteps
<1>5. /\ \A m \in Nat : Newest(a, last) \o [k \in 1..m |-> last + k] = Newest(a + m, last + m)
      /\ \A m \in 0..a : SubSeq(Newest(a, last), m + 1, a) = Newest(a - m, last)
      /\ \A m \in 0..a : SubSeq(Newest(a, last), 1, m) = [k \in 1..m |-> last - a + k]
  <2> HIDE DEF a
  <2> QED BY <1>3, NewestSteps
<1>6. (~raced /\ io.pc # "clear") = TRUE /\ (~raced /\ io.pc # "clear")' = TRUE
  BY Zenon DEF Sound
<1>7. ASSUME Available' = Available, last' = last, taken' = taken,
             io'.count = io.count
      PROVE  UNCHANGED Fifo!vars
  <2>1. Contents' = Contents
    BY <1>1, <1>2, <1>7
  <2> QED BY <1>6, <1>7, <2>1 DEF Fifo!vars
<1>8. CASE CopyIn \/ Pop \/ LoadWritePos \/ CopyOut \/ UNCHANGED vars
  <2>1. CASE CopyIn
    <3>1. io'.count = io.count
      BY <1>1, <2>1 DEF CopyIn, Types, CallTypes
    <3> QED BY <1>7, <2>1, <3>1 DEF CopyIn, Available
  <2> QED BY <1>7, <1>8, <2>1 DEF Pop, LoadWritePos, CopyOut, vars, Available
<1>9. CASE Push
  <2>1. io.pc = "idle" /\ io.count = 0
    BY <1>1, <1>9 DEF Push, Types, PushState
  <2>2. /\ io'.count \in Packets /\ Available' = Available
        /\ last' = last /\ taken' = taken
    BY <1>9 DEF Push, Available
  <2>3. Contents' = Contents
    BY <1>1, <1>2, <2>2
  <2> QED BY <1>6, <2>1, <2>2, <2>3 DEF Fifo!Arrive, Fifo!Next
<1>10. CASE DropOldest
  <2> DEFINE n == io.count - (Capacity - Available - 1)
  <2>1. n \in 1..a /\ Available' = a - n
    BY <1>10, DropLeaves
  <2>2. last' = last /\ taken' = taken /\ io'.count = io.count
    BY <1>1, <1>10 DEF DropOldest, Types, CallTypes
  <2>3. n = Len(Contents) + io.count - (Capacity - 1)
    BY <1>3, <1>4
  <2> HIDE DEF n
  <2>4. Contents' = SubSeq(Contents, n + 1, Len(Contents))
    <3>1. SubSeq(Newest(a, last), n + 1, a) = Newest(a - n, last)
      BY <1>3, <1>5, <2>1
    <3> QED BY <1>1, <1>2, <1>4, <2>1, <2>2, <3>1
  <2>5. n > 0
    BY <2>1
  <2>6. Fifo!Discard
    BY <1>6, <2>2, <2>3, <2>4, <2>5, Zenon DEF Fifo!Discard
  <2> QED BY <1>6, <2>6 DEF Fifo!Next
<1>11. CASE Publish
  <2> DEFINE n == io.count
  <2>1. /\ Available' = a + n /\ n \in 1..(Capacity - 1) /\ a + n <= Capacity - 1
        /\ last' = last + n /\ taken' = taken /\ io'.count = 0
    BY <1>1, <1>3, <1>11, PublishAdds, Numbers DEF Publish, IoIdle
  <2>4. n > 0 /\ Len(Contents) + n <= Capacity - 1
    <3> HIDE DEF n, a
    <3> QED BY <1>3, <1>4, <2>1
  <2> HIDE DEF n
  <2>2. Contents' = Contents \o [k \in 1..n |-> last + k]
    <3>1. n \in Nat
      BY <1>3, <2>1
    <3>2. Newest(a, last) \o [k \in 1..n |-> last + k] = Newest(a + n, last + n)
      BY <1>5, <3>1
    <3> QED BY <1>1, <1>2, <2>1, <3>2
  <2>3. Fifo!Write
    BY <1>6, <2>1, <2>2, <2>4, Zenon DEF Fifo!Write, n
  <2> QED BY <1>6, <2>3 DEF Fifo!Next
<1>12. CASE StoreReadPos
  <2> DEFINE n == render.toRead
  <2>1. /\ Available' = a - n /\ n \in 0..a /\ Len(render.out) = n
        /\ \A k \in 1..n : render.out[k] = last - a + k
    BY <1>12, StoreLeaves
  <2>2. /\ last' = last /\ taken' = render.out /\ render.out \in Seq(0..MaxSamples)
        /\ io' = io
    BY <1>1, <1>12, Numbers DEF StoreReadPos
  <2> HIDE DEF n
  <2>3. Contents' = SubSeq(Contents, n + 1, Len(Contents))
    <3>1. SubSeq(Newest(a, last), n + 1, a) = Newest(a - n, last)
      BY <1>5, <2>1
    <3> QED BY <1>1, <1>2, <1>4, <2>1, <2>2, <3>1
  <2>4. taken' = SubSeq(Contents, 1, n)
    <3>1. SubSeq(Contents, 1, n) = [k \in 1..n |-> last - a + k]
      BY <1>1, <1>5, <2>1
    <3>2. render.out = [k \in 1..n |-> render.out[k]]
      BY <2>1, <2>2
    <3> QED BY <2>1, <2>2, <3>1, <3>2
  <2>5. Fifo!Read
    BY <1>4, <1>6, <2>1, <2>2, <2>3, <2>4 DEF Fifo!Read
  <2> QED BY <1>6, <2>5 DEF Fifo!Next
<1>13. CASE ClearRead \/ ClearWrite
  <2>1. ~ClearWrite /\ ~ClearRead
    BY <1>1 DEF ClearWrite, ClearRead, Sound, Types, CallTypes
  <2> QED BY <1>13, <2>1
<1> QED BY <1>8, <1>9, <1>10, <1>11, <1>12, <1>13 DEF Next

\* Every step of the buffer is one of the queue, or none.
LEMMA FifoNext == FInv /\ FInv' /\ [Next]_vars => [Fifo!Next]_Fifo!vars
<1> SUFFICES ASSUME FInv, FInv', [Next]_vars
             PROVE  Fifo!Next \/ UNCHANGED Fifo!vars
  OBVIOUS
<1>1. CASE Sound /\ Sound'
  BY <1>1, FifoSound
<1>2. CASE ~Sound'
  <2>1. (~raced /\ io.pc # "clear")' = FALSE
    BY <1>2, Zenon DEF Sound
  <2>2. Fifo!Overlap
    BY <2>1 DEF Fifo!Overlap
  <2> QED BY <2>2 DEF Fifo!Next
<1>3. CASE ~Sound /\ Sound'
  <2>1. ClearWrite
    <3>1. CASE raced
      <4>1. ~raced' /\ raced /\ io'.pc # "clear"
        BY <1>3, <3>1, Zenon DEF Sound
      <4>2. ~ClearRead
        BY <4>1 DEF ClearRead, FInv, IInv, Types, CallTypes
      <4>3. ClearWrite
        BY <4>1, <4>2, Zenon
        DEF Next, Push, DropOldest, CopyIn, Publish, Pop, LoadWritePos, CopyOut,
            StoreReadPos, vars
      <4> QED BY <4>3
    <3>2. CASE io.pc = "clear"
      <4>1. io'.pc # "clear"
        BY <1>3 DEF Sound
      <4> QED
        BY <3>2, <4>1
        DEF Next, Push, DropOldest, CopyIn, Publish, ClearRead, Pop, LoadWritePos,
            CopyOut, StoreReadPos, vars
    <3> QED BY <1>3, <3>1, <3>2 DEF Sound
  <2>2. m_writePos' = 0 /\ m_readPos' = m_readPos /\ last' = last /\ taken' = taken
    BY <2>1 DEF ClearWrite
  <2>3. m_readPos = 0
    BY <1>3, <2>1, Zenon DEF ClearWrite, Sound
  <2>4. Contents' = <<>>
    <3>1. Available' = 0
      BY <2>2, <2>3 DEF Available, Distance
    <3> QED BY <3>1 DEF Contents
  <2>5. (~raced /\ io.pc # "clear")' = TRUE
    BY <1>3, Zenon DEF Sound
  <2>6. io'.count = io.count
    BY <2>1 DEF ClearWrite, IoIdle, FInv, IInv, Types, PushState
  <2> QED BY <2>2, <2>4, <2>5, <2>6 DEF Fifo!Next, Fifo!Empty
<1> QED BY <1>1, <1>2, <1>3

-----------------------------------------------------------------------------
(* The theorems.                                                           *)

\* Every position stays inside the buffer, and no Pop asks for more samples
\* than the buffer can hold, whatever the races (ring_buffer.h:20 and 46).
THEOREM TypeCorrect == Spec => []TypeOK
<1>1. IInv => TypeOK
  <2> SUFFICES ASSUME IInv PROVE TypeOK
    OBVIOUS
  <2>1. io.i \in 0..io.count
    BY SizeAssumption DEF IInv, Types, CallTypes, PushState
  <2> QED BY <2>1 DEF IInv, Types, Scalars, CallTypes, TypeOK
<1> QED BY Invariant, <1>1, PTL

\* An overflow that overtakes a Pop spoils nothing that stays in the buffer:
\* between two pushes the contents are the newest samples without a gap.
THEOREM NewestAreKept == Spec => []OverflowKeepsNewest
<1>1. IInv => OverflowKeepsNewest
  <2> SUFFICES ASSUME IInv, io.pc = "idle", ~torn, NEW k \in 1..Available
               PROVE  Contents[k] = last - Available + k
    BY DEF OverflowKeepsNewest
  <2>1. /\ W = m_writePos /\ m_writePos \in Positions /\ m_readPos \in Positions
        /\ last \in Nat /\ io.i = 0
    BY SizeAssumption DEF IInv, Types, Scalars, PushState, W
  <2>2. L = last
    BY <2>1 DEF L
  <2> DEFINE p == (m_readPos + k - 1) % Capacity
  <2>3. Contents[k] = m_buffer[p]
    BY DEF Contents
  <2>4. /\ p \in Positions /\ p # W
        /\ Distance(p, W) = Available - k + 1
        /\ m_readPos <= W => p < W
    BY <2>1, Between DEF Available
  <2> HIDE DEF p
  <2>5. m_buffer[p] = L - Distance(p, W) + 1
    <3>1. CASE Filled
      BY <2>4, <3>1 DEF Filled
    <3>2. CASE Filling
      BY <2>1, <2>4, <3>2 DEF Filling
    <3> QED BY <3>1, <3>2 DEF IInv, NewestKept
  <2>6. Available \in Nat /\ k \in Nat
    BY <2>1, SizeAssumption, DistanceInRange DEF Available
  <2> QED BY <2>1, <2>2, <2>3, <2>4, <2>5, <2>6
<1> QED BY Invariant, <1>1, PTL

\* With every load, store and copy of the two threads interleaved the buffer
\* is a first-in first-out queue of Capacity - 1 samples that drops the oldest
\* on overflow, as many as the packet lacks room for (ring_buffer.h:8 and 25), until a Pop overlaps the drop of an
\* overflow or a Clear; the next undisturbed Clear makes it one again.
THEOREM Refinement == Spec => ImplementsFifo
BY FInvInit, FInvNext, FifoInit, FifoNext, PTL DEF Spec, ImplementsFifo, Fifo!Spec
=============================================================================
