-------------------------- MODULE WriteQueueProofs --------------------------
(***************************************************************************)
(* Proofs about the write queue for every capacity, every set of frame     *)
(* sizes and every number of frames, in five parts: what the operations of *)
(* class WriteQueue do to its fields; types and the ownership protocol;    *)
(* the bookkeeping of frames, then of bytes; the refinement of LossyFifo.  *)
(*                                                                         *)
(* Four inductive invariants serve them.  IInv is for the ownership: it    *)
(* adds Exclusion, which ties the holder of L3 to the program counters.    *)
(* CInv is for the frames, which need no ownership.  SInv is for the       *)
(* bytes: it rests on CInv, and adds that a frame being enqueued is not    *)
(* oversized.  RInv is for the refinement: who holds L3 is in the critical *)
(* section with a frame of its own kind.                                   *)
(***************************************************************************)
EXTENDS WriteQueue, SequenceTheorems, FiniteSetTheorems, WellFoundedInduction,
        TLAPS

\* A non-empty set of natural numbers has a least element.
LEMMA LeastElement ==
  ASSUME NEW I \in SUBSET Nat, I # {}
  PROVE  \E x \in I : \A y \in I : x <= y
<1> DEFINE R == OpToRel(<, Nat)
<1>1. IsWellFoundedOn(R, Nat)
  BY NatLessThanWellFounded
<1>2. \A x, y \in Nat : y < x => <<y, x>> \in R
  BY DEF OpToRel
<1> HIDE DEF R
<1>3. PICK x \in I : \A y \in I : ~(<<y, x>> \in R)
  BY <1>1, WFMin
<1>4. x \in Nat /\ \A y \in I : y \in Nat
  OBVIOUS
<1>5. \A y \in I : ~(y < x)
  BY <1>2, <1>3, <1>4, Zenon
<1>6. \A y \in I : x <= y
  BY <1>4, <1>5, SMT
<1> QED BY <1>6

\* Min returns an element of a non-empty set of natural numbers.
LEMMA MinInSet ==
  ASSUME NEW I \in SUBSET Nat, I # {}
  PROVE  Min(I) \in I /\ \A y \in I : Min(I) <= y
BY LeastElement DEF Min

\* Removing one position of a sequence of frames leaves a sequence of
\* frames that is one shorter and keeps the others in their order.
LEMMA RemoveAtFrames ==
  ASSUME NEW q \in Seq(Frame), NEW k \in 1..Len(q)
  PROVE  /\ RemoveAt(q, k) \in Seq(Frame)
         /\ Len(RemoveAt(q, k)) = Len(q) - 1
         /\ \A i \in 1..(Len(q) - 1) :
              RemoveAt(q, k)[i] = IF i < k THEN q[i] ELSE q[i + 1]
<1> DEFINE a == SubSeq(q, 1, k - 1)
           b == SubSeq(q, k + 1, Len(q))
<1>1. a \in Seq(Frame) /\ Len(a) = k - 1 /\ \A i \in 1..(k - 1) : a[i] = q[i]
  BY SubSeqProperties
<1>2. /\ b \in Seq(Frame) /\ Len(b) = Len(q) - k
      /\ \A i \in 1..(Len(q) - k) : b[i] = q[k + i]
  BY SubSeqProperties
<1>3. RemoveAt(q, k) = a \o b
  BY DEF RemoveAt
<1> HIDE DEF a, b
<1>4. Len(q) \in Nat /\ k \in Nat /\ 1 <= k /\ k <= Len(q)
  OBVIOUS
<1>5. /\ a \o b \in Seq(Frame)
      /\ Len(a \o b) = Len(a) + Len(b)
      /\ \A i \in 1..(Len(a) + Len(b)) :
           (a \o b)[i] = IF i <= Len(a) THEN a[i] ELSE b[i - Len(a)]
  BY <1>1, <1>2, ConcatProperties
<1>6. ASSUME NEW i \in 1..(Len(q) - 1)
      PROVE  (a \o b)[i] = IF i < k THEN q[i] ELSE q[i + 1]
  <2>1. CASE i < k
    <3>1. i \in 1..(k - 1) /\ i <= Len(a) /\ i \in 1..(Len(a) + Len(b))
      BY <1>1, <1>2, <1>4, <2>1
    <3> QED BY <3>1, <2>1, <1>1, <1>5
  <2>2. CASE ~(i < k)
    <3>1. /\ i - (k - 1) \in 1..(Len(q) - k) /\ ~(i <= Len(a))
          /\ i \in 1..(Len(a) + Len(b)) /\ k + (i - (k - 1)) = i + 1
      BY <1>1, <1>2, <1>4, <2>2
    <3> QED BY <3>1, <2>2, <1>1, <1>2, <1>5
  <2> QED BY <2>1, <2>2
<1> QED BY <1>1, <1>2, <1>3, <1>4, <1>5, <1>6

\* What one eviction changes: one frame of the kind goes, its counters
\* follow, nothing else moves; without a frame of the kind nothing happens.
LEMMA DropBinary ==
  ASSUME NEW w \in QueueFields
  PROVE  \/ /\ \A i \in 1..Len(w.q) : w.q[i].isText
            /\ DropOldestBinaryLocked(w) = w
         \/ \E k \in 1..Len(w.q) :
              /\ ~w.q[k].isText
              /\ \A j \in 1..Len(w.q) : ~w.q[j].isText => k <= j
              /\ DropOldestBinaryLocked(w) =
                   [w EXCEPT !.q = RemoveAt(w.q, k),
                             !.queuedBytes = w.queuedBytes - w.q[k].size,
                             !.binaryCount = w.binaryCount - 1,
                             !.droppedTotal = w.droppedTotal + 1]
<1> DEFINE I == {i \in 1..Len(w.q) : ~w.q[i].isText}
           k == SelectInSeq(w.q, LAMBDA f : ~f.isText)
<1>1. I \in SUBSET Nat /\ w.q \in Seq(Frame) /\ Len(w.q) \in Nat
  BY DEF QueueFields
<1>2. k = IF I # {} THEN Min(I) ELSE 0
  BY DEF SelectInSeq
<1>3. DropOldestBinaryLocked(w) =
        IF k = 0 THEN w
        ELSE [w EXCEPT !.q = RemoveAt(w.q, k),
                       !.queuedBytes = w.queuedBytes - w.q[k].size,
                       !.binaryCount = w.binaryCount - 1,
                       !.droppedTotal = w.droppedTotal + 1]
  BY DEF DropOldestBinaryLocked
<1> HIDE DEF k
<1>4. CASE I = {}
  BY <1>2, <1>3, <1>4
<1>5. CASE I # {}
  <2>1. k \in I /\ \A j \in I : k <= j
    <3> HIDE DEF I
    <3> QED BY <1>1, <1>2, <1>5, MinInSet
  <2>2. /\ k \in 1..Len(w.q) /\ ~w.q[k].isText /\ k # 0
        /\ \A j \in 1..Len(w.q) : ~w.q[j].isText => k <= j
    BY <2>1, <1>1
  <2> QED BY <2>2, <1>3
<1> QED BY <1>4, <1>5

\* The same for DropOldestTextLocked and the text frames.
LEMMA DropText ==
  ASSUME NEW w \in QueueFields
  PROVE  \/ /\ \A i \in 1..Len(w.q) : ~w.q[i].isText
            /\ DropOldestTextLocked(w) = w
         \/ \E k \in 1..Len(w.q) :
              /\ w.q[k].isText
              /\ \A j \in 1..Len(w.q) : w.q[j].isText => k <= j
              /\ DropOldestTextLocked(w) =
                   [w EXCEPT !.q = RemoveAt(w.q, k),
                             !.queuedBytes = w.queuedBytes - w.q[k].size,
                             !.textCount = w.textCount - 1,
                             !.droppedTotal = w.droppedTotal + 1]
<1> DEFINE I == {i \in 1..Len(w.q) : w.q[i].isText}
           k == SelectInSeq(w.q, LAMBDA f : f.isText)
<1>1. I \in SUBSET Nat /\ w.q \in Seq(Frame) /\ Len(w.q) \in Nat
  BY DEF QueueFields
<1>2. k = IF I # {} THEN Min(I) ELSE 0
  BY DEF SelectInSeq
<1>3. DropOldestTextLocked(w) =
        IF k = 0 THEN w
        ELSE [w EXCEPT !.q = RemoveAt(w.q, k),
                       !.queuedBytes = w.queuedBytes - w.q[k].size,
                       !.textCount = w.textCount - 1,
                       !.droppedTotal = w.droppedTotal + 1]
  BY DEF DropOldestTextLocked
<1> HIDE DEF k
<1>4. CASE I = {}
  BY <1>2, <1>3, <1>4
<1>5. CASE I # {}
  <2>1. k \in I /\ \A j \in I : k <= j
    <3> HIDE DEF I
    <3> QED BY <1>1, <1>2, <1>5, MinInSet
  <2>2. /\ k \in 1..Len(w.q) /\ w.q[k].isText /\ k # 0
        /\ \A j \in 1..Len(w.q) : w.q[j].isText => k <= j
    BY <2>1, <1>1
  <2> QED BY <2>2, <1>3
<1> QED BY <1>4, <1>5

\* What EnqueueLocked's last lines do to each field.
LEMMA PushBackFields ==
  ASSUME NEW w \in QueueFields, NEW f \in Payload
  PROVE  LET v == PushBack(w, f)
             new == [id |-> w.enqueued + 1, isText |-> f.isText, size |-> f.size]
         IN  /\ v \in QueueFields
             /\ new \in Frame
             /\ v.q = Append(w.q, new)
             /\ v.writing = TRUE
             /\ v.pending = Len(w.q) + 1
             /\ v.queuedBytes = w.queuedBytes + f.size
             /\ v.enqueued = w.enqueued + 1
             /\ v.dequeued = w.dequeued
             /\ v.droppedTotal = w.droppedTotal
             /\ v.textCount = IF f.isText THEN w.textCount + 1 ELSE w.textCount
             /\ v.binaryCount =
                  IF f.isText THEN w.binaryCount ELSE w.binaryCount + 1
<1> DEFINE new == [id |-> w.enqueued + 1, isText |-> f.isText, size |-> f.size]
           r == Append(w.q, new)
           b == w.queuedBytes + f.size
           t == IF f.isText THEN w.textCount + 1 ELSE w.textCount
           n == IF f.isText THEN w.binaryCount ELSE w.binaryCount + 1
           p == Len(w.q) + 1
           e == w.enqueued + 1
<1>1. /\ w.q \in Seq(Frame) /\ w.textCount \in Int /\ w.binaryCount \in Int
      /\ w.queuedBytes \in Int /\ w.enqueued \in Nat /\ f.size \in Nat
      /\ f.isText \in BOOLEAN
  BY DEF QueueFields, Payload
<1>2. new \in Frame
  BY <1>1 DEF Frame
<1>3. r \in Seq(Frame) /\ b \in Int /\ t \in Int /\ n \in Int /\ p \in Nat /\ e \in Nat
  <2> HIDE DEF new
  <2> QED BY <1>1, <1>2
<1>4. PushBack(w, f) =
        [w EXCEPT !.q = r, !.queuedBytes = b, !.textCount = t,
                  !.binaryCount = n, !.pending = p, !.enqueued = e,
                  !.writing = TRUE]
  BY DEF PushBack
<1> HIDE DEF new, r, b, t, n, p, e
<1>5. LET v == PushBack(w, f)
      IN  /\ v \in QueueFields
          /\ v.q = r /\ v.writing = TRUE /\ v.pending = p
          /\ v.queuedBytes = b
          /\ v.enqueued = e /\ v.dequeued = w.dequeued
          /\ v.droppedTotal = w.droppedTotal
          /\ v.textCount = t /\ v.binaryCount = n
  BY <1>3, <1>4 DEF QueueFields
<1> QED BY <1>2, <1>5 DEF new, r, b, t, n, p, e

\* TakeNextLocked on an empty queue gives the token back and does no more.
LEMMA TakeNextEmpty ==
  ASSUME NEW w \in QueueFields, w.q = <<>>
  PROVE  LET v == TakeNextLocked(w)
         IN  /\ v \in QueueFields
             /\ v.q = <<>> /\ v.writing = FALSE /\ v.pending = 0
             /\ v.queuedBytes = w.queuedBytes
             /\ v.enqueued = w.enqueued /\ v.dequeued = w.dequeued
             /\ v.droppedTotal = w.droppedTotal
             /\ v.textCount = w.textCount /\ v.binaryCount = w.binaryCount
BY DEF TakeNextLocked, QueueFields

\* TakeNextLocked on a non-empty queue pops the front frame.
LEMMA TakeNextFrame ==
  ASSUME NEW w \in QueueFields, w.q # <<>>
  PROVE  LET v == TakeNextLocked(w)
             f == Head(w.q)
         IN  /\ v \in QueueFields
             /\ f \in Frame /\ f = w.q[1]
             /\ Len(w.q) \in Nat \ {0}
             /\ v.q = Tail(w.q)
             /\ v.writing = w.writing
             /\ v.pending = Len(w.q) - 1
             /\ v.queuedBytes = w.queuedBytes - f.size
             /\ v.enqueued = w.enqueued
             /\ v.dequeued = w.dequeued + 1
             /\ v.droppedTotal = w.droppedTotal
             /\ v.textCount = IF f.isText THEN w.textCount - 1 ELSE w.textCount
             /\ v.binaryCount =
                  IF f.isText THEN w.binaryCount ELSE w.binaryCount - 1
<1> DEFINE f == Head(w.q)
           r == Tail(w.q)
           b == w.queuedBytes - f.size
           t == IF f.isText THEN w.textCount - 1 ELSE w.textCount
           n == IF f.isText THEN w.binaryCount ELSE w.binaryCount - 1
           p == Len(w.q) - 1
           d == w.dequeued + 1
<1>1. /\ w.q \in Seq(Frame) /\ Len(w.q) \in Nat \ {0}
      /\ f \in Frame /\ f = w.q[1] /\ r \in Seq(Frame)
  BY DEF QueueFields
<1>2. /\ w.textCount \in Int /\ w.binaryCount \in Int
      /\ w.queuedBytes \in Int /\ w.dequeued \in Nat
  BY DEF QueueFields
<1>3. f.size \in Nat
  <2> HIDE DEF f
  <2> QED BY <1>1 DEF Frame
<1>4. b \in Int /\ t \in Int /\ n \in Int /\ p \in Nat /\ d \in Nat
  <2> HIDE DEF f
  <2> QED BY <1>1, <1>2, <1>3
<1>5. TakeNextLocked(w) =
        [w EXCEPT !.q = r, !.textCount = t, !.binaryCount = n,
                  !.queuedBytes = b, !.pending = p, !.dequeued = d]
  BY DEF TakeNextLocked
<1> HIDE DEF f, r, b, t, n, p, d
<1>6. LET v == TakeNextLocked(w)
      IN  /\ v \in QueueFields
          /\ v.q = r /\ v.writing = w.writing /\ v.pending = p
          /\ v.queuedBytes = b
          /\ v.enqueued = w.enqueued /\ v.dequeued = d
          /\ v.droppedTotal = w.droppedTotal
          /\ v.textCount = t /\ v.binaryCount = n
  BY <1>1, <1>4, <1>5 DEF QueueFields
<1> QED BY <1>1, <1>6 DEF f, r, b, t, n, p, d

\* One turn of the eviction loop: either no frame of the kind was there, or
\* exactly one was removed and accounted for.
LEMMA EvictFields ==
  ASSUME NEW w \in QueueFields, NEW f \in Payload
  PROVE  LET v == Evict(w, f)
         IN  /\ v \in QueueFields
             /\ v.writing = w.writing /\ v.pending = w.pending
             /\ v.enqueued = w.enqueued /\ v.dequeued = w.dequeued
             /\ \/ v = w
                \/ \E k \in 1..Len(w.q) :
                     /\ w.q[k].isText = f.isText
                     /\ \A j \in 1..Len(w.q) : w.q[j].isText = f.isText => k <= j
                     /\ v.q = RemoveAt(w.q, k)
                     /\ v.queuedBytes = w.queuedBytes - w.q[k].size
                     /\ v.droppedTotal = w.droppedTotal + 1
                     /\ v.textCount =
                          IF f.isText THEN w.textCount - 1 ELSE w.textCount
                     /\ v.binaryCount =
                          IF f.isText THEN w.binaryCount ELSE w.binaryCount - 1
<1> DEFINE Result ==
         LET v == Evict(w, f)
         IN  /\ v \in QueueFields
             /\ v.writing = w.writing /\ v.pending = w.pending
             /\ v.enqueued = w.enqueued /\ v.dequeued = w.dequeued
             /\ \/ v = w
                \/ \E k \in 1..Len(w.q) :
                     /\ w.q[k].isText = f.isText
                     /\ \A j \in 1..Len(w.q) : w.q[j].isText = f.isText => k <= j
                     /\ v.q = RemoveAt(w.q, k)
                     /\ v.queuedBytes = w.queuedBytes - w.q[k].size
                     /\ v.droppedTotal = w.droppedTotal + 1
                     /\ v.textCount =
                          IF f.isText THEN w.textCount - 1 ELSE w.textCount
                     /\ v.binaryCount =
                          IF f.isText THEN w.binaryCount ELSE w.binaryCount - 1
<1>1. ASSUME NEW k \in 1..Len(w.q)
      PROVE  /\ RemoveAt(w.q, k) \in Seq(Frame)
             /\ w.q[k].size \in Nat /\ w.q[k].isText \in BOOLEAN
  <2>1. w.q \in Seq(Frame) /\ w.q[k] \in Frame
    BY DEF QueueFields
  <2> QED BY <2>1, RemoveAtFrames DEF Frame
<1>2. CASE f.isText
  <2>1. Evict(w, f) = DropOldestTextLocked(w)
    BY <1>2 DEF Evict
  <2>2. CASE DropOldestTextLocked(w) = w
    BY <2>1, <2>2 DEF QueueFields
  <2>3. ASSUME NEW k \in 1..Len(w.q), w.q[k].isText,
               \A j \in 1..Len(w.q) : w.q[j].isText => k <= j,
               DropOldestTextLocked(w) =
                 [w EXCEPT !.q = RemoveAt(w.q, k),
                           !.queuedBytes = w.queuedBytes - w.q[k].size,
                           !.textCount = w.textCount - 1,
                           !.droppedTotal = w.droppedTotal + 1]
        PROVE  Result
    <3> DEFINE r == RemoveAt(w.q, k)
               b == w.queuedBytes - w.q[k].size
               c == w.textCount - 1
               d == w.droppedTotal + 1
    <3>1. /\ r \in Seq(Frame) /\ w.q[k].isText = f.isText
          /\ \A j \in 1..Len(w.q) : w.q[j].isText = f.isText => k <= j
      BY <1>1, <1>2, <2>3 DEF Payload
    <3>2. b \in Int /\ c \in Int /\ d \in Nat
      BY <1>1 DEF QueueFields
    <3>3. Evict(w, f) = [w EXCEPT !.q = r, !.queuedBytes = b,
                                  !.textCount = c, !.droppedTotal = d]
      BY <2>1, <2>3
    <3> HIDE DEF r, b, c, d
    <3>4. LET v == Evict(w, f)
          IN  /\ v \in QueueFields
              /\ v.writing = w.writing /\ v.pending = w.pending
              /\ v.enqueued = w.enqueued /\ v.dequeued = w.dequeued
              /\ v.q = r /\ v.textCount = c /\ v.droppedTotal = d
              /\ v.queuedBytes = b
              /\ v.binaryCount = w.binaryCount
      BY <3>1, <3>2, <3>3 DEF QueueFields
    <3> QED BY <1>2, <3>1, <3>4 DEF r, b, c, d
  <2> QED BY <2>2, <2>3, DropText
<1>3. CASE ~f.isText
  <2>1. Evict(w, f) = DropOldestBinaryLocked(w)
    BY <1>3 DEF Evict
  <2>2. CASE DropOldestBinaryLocked(w) = w
    BY <2>1, <2>2 DEF QueueFields
  <2>3. ASSUME NEW k \in 1..Len(w.q), ~w.q[k].isText,
               \A j \in 1..Len(w.q) : ~w.q[j].isText => k <= j,
               DropOldestBinaryLocked(w) =
                 [w EXCEPT !.q = RemoveAt(w.q, k),
                           !.queuedBytes = w.queuedBytes - w.q[k].size,
                           !.binaryCount = w.binaryCount - 1,
                           !.droppedTotal = w.droppedTotal + 1]
        PROVE  Result
    <3> DEFINE r == RemoveAt(w.q, k)
               b == w.queuedBytes - w.q[k].size
               c == w.binaryCount - 1
               d == w.droppedTotal + 1
    <3>1. /\ r \in Seq(Frame) /\ w.q[k].isText = f.isText
          /\ \A j \in 1..Len(w.q) : w.q[j].isText = f.isText => k <= j
      BY <1>1, <1>3, <2>3 DEF Payload
    <3>2. b \in Int /\ c \in Int /\ d \in Nat
      BY <1>1 DEF QueueFields
    <3>3. Evict(w, f) = [w EXCEPT !.q = r, !.queuedBytes = b,
                                  !.binaryCount = c, !.droppedTotal = d]
      BY <2>1, <2>3
    <3> HIDE DEF r, b, c, d
    <3>4. LET v == Evict(w, f)
          IN  /\ v \in QueueFields
              /\ v.writing = w.writing /\ v.pending = w.pending
              /\ v.enqueued = w.enqueued /\ v.dequeued = w.dequeued
              /\ v.q = r /\ v.binaryCount = c /\ v.droppedTotal = d
              /\ v.queuedBytes = b
              /\ v.textCount = w.textCount
      BY <3>1, <3>2, <3>3 DEF QueueFields
    <3> QED BY <1>3, <3>1, <3>4 DEF r, b, c, d
  <2> QED BY <2>2, <2>3, DropBinary
<1> QED BY <1>2, <1>3

-----------------------------------------------------------------------------
(* Type correctness.                                                       *)

\* The constructors establish the types.
LEMMA TypeInit == Init => TypeOK
<1> SUFFICES ASSUME Init PROVE TypeOK
  OBVIOUS
<1>1. <<>> \in Seq(Frame) /\ <<>> \in Seq(Nat)
  OBVIOUS
<1>2. m_wq \in QueueFields
  BY <1>1 DEF Init, QueueFields
<1>3. arg \in [Threads -> Payload]
  BY DEF Init, Payload
<1> QED BY <1>1, <1>2, <1>3 DEF Init, TypeOK

\* TakeNextLocked followed by BeginWrite, the body shared by three actions.
LEMMA TypeTakeAndWrite ==
  ASSUME TypeOK, NEW n \in {0, 1}, n <= inFlight, TakeAndWrite(n)
  PROVE  m_wq' \in QueueFields /\ inFlight' \in Nat /\ wire' \in Seq(Nat)
<1>1. m_wq \in QueueFields /\ wire \in Seq(Nat) /\ inFlight \in Nat
  BY DEF TypeOK
<1>2. CASE m_wq.q = <<>>
  <2>1. m_wq' \in QueueFields
    BY <1>1, <1>2, TakeNextEmpty DEF TakeAndWrite
  <2> QED BY <1>1, <1>2, <2>1 DEF TakeAndWrite
<1>3. CASE m_wq.q # <<>>
  <2>1. m_wq' \in QueueFields /\ Head(m_wq.q) \in Frame
    BY <1>1, <1>3, TakeNextFrame DEF TakeAndWrite
  <2>2. Head(m_wq.q).id \in Nat
    BY <2>1 DEF Frame
  <2> QED BY <1>1, <1>3, <2>1, <2>2 DEF TakeAndWrite
<1> QED BY <1>2, <1>3

\* Every action keeps the types, with each counter that only grows in Nat.
LEMMA TypeNext == TypeOK /\ [Next]_vars => TypeOK'
<1> SUFFICES ASSUME TypeOK, [Next]_vars PROVE TypeOK'
  OBVIOUS
<1> USE DEF TypeOK
<1>1. ASSUME NEW t \in Threads, Send(t) PROVE TypeOK'
  <2>1. Offers(t) \subseteq Payload
    BY ConfigAssumption DEF Offers, Payload
  <2> QED BY <1>1, <2>1 DEF Send
<1>2. ASSUME NEW t \in Threads, Lock(t) PROVE TypeOK'
  BY <1>2 DEF Lock
<1>3. ASSUME NEW t \in Threads, RejectOversized(t) PROVE TypeOK'
  <2> DEFINE d == m_wq.droppedTotal + 1
  <2>2. d \in Nat /\ m_wq' = [m_wq EXCEPT !.droppedTotal = d]
    BY <1>3 DEF RejectOversized, QueueFields
  <2>1. m_wq' \in QueueFields
    <3> HIDE DEF d
    <3> QED BY <2>2 DEF QueueFields
  <2> QED BY <1>3, <2>1 DEF RejectOversized
<1>4. ASSUME NEW t \in Threads, EvictOne(t) PROVE TypeOK'
  BY <1>4, EvictFields DEF EvictOne
<1>5. ASSUME NEW t \in Threads, Enqueue(t) PROVE TypeOK'
  BY <1>5, PushBackFields DEF Enqueue
<1>6. CASE DispatchDoWrite
  BY <1>6 DEF DispatchDoWrite, Threads
<1>7. CASE DoWrite
  BY <1>7, TypeTakeAndWrite DEF DoWrite, DoWriteBody
<1>8. CASE DoWriteInline
  BY <1>8, TypeTakeAndWrite DEF DoWriteInline, DoWriteBody, Threads
<1>9. CASE OnWrite
  BY <1>9, TypeTakeAndWrite DEF OnWrite
<1>10. CASE OnWriteError
  BY <1>10 DEF OnWriteError
<1>11. CASE OnWriteClosed
  BY <1>11 DEF OnWriteClosed
<1>12. CASE ForceClose
  BY <1>12 DEF ForceClose
<1>13. CASE UNCHANGED vars
  BY <1>13 DEF vars
<1> QED
  BY <1>1, <1>2, <1>3, <1>4, <1>5, <1>6, <1>7, <1>8, <1>9, <1>10, <1>11,
     <1>12, <1>13 DEF Next, Step

\* Every reachable state of the queue, for all capacities and frame sizes,
\* is well typed; in particular m_pending and the dispatched-task count,
\* which are decremented, stay natural numbers.
THEOREM TypeCorrect == Spec => []TypeOK
BY TypeInit, TypeNext, PTL DEF Spec

-----------------------------------------------------------------------------
(* Write ownership.  WriteOwnership is inductive relative to TypeOK;       *)
(* BacklogOwned also needs that m_pending and the deque can only be seen   *)
(* to differ while a thread is in the eviction loop, that is, holds L3.    *)

Exclusion == \A t \in Threads : pc[t] = "locked" => mutex = t

IInv == TypeOK /\ Exclusion /\ WriteOwnership /\ BacklogOwned

\* The token count is the number of places the token can be.
LEMMA TokensNat == TypeOK => Tokens \in Nat
BY DEF TypeOK, Tokens

\* A new session owns nothing and has no backlog.
LEMMA InvInit == Init => IInv
<1> SUFFICES ASSUME Init PROVE IInv
  OBVIOUS
<1>1. TypeOK
  BY TypeInit
<1>2. Exclusion /\ WriteOwnership /\ BacklogOwned
  BY DEF Init, Exclusion, WriteOwnership, Tokens, BacklogOwned, Threads
<1> QED BY <1>1, <1>2 DEF IInv

\* A handler that holds the token (n of it as an async_write that ends) and
\* takes the next frame passes the token on or gives it back.
LEMMA TakeKeepsBacklogOwned ==
  ASSUME TypeOK, BacklogOwned, m_wq.writing = TRUE,
         NEW n \in {0, 1}, TakeAndWrite(n), mutex' = mutex
  PROVE  /\ BacklogOwned'
         /\ \/ m_wq'.writing = FALSE /\ inFlight' = inFlight - n
            \/ m_wq'.writing = TRUE /\ inFlight' = inFlight - n + 1
<1>1. m_wq \in QueueFields /\ m_wq.writing = TRUE
  BY DEF TypeOK, QueueFields
<1>2. CASE m_wq.q = <<>>
  <2>1. m_wq'.q = <<>> /\ m_wq'.pending = 0 /\ m_wq'.writing = FALSE
    BY <1>1, <1>2, TakeNextEmpty DEF TakeAndWrite
  <2> QED BY <1>2, <2>1 DEF TakeAndWrite, BacklogOwned
<1>3. CASE m_wq.q # <<>>
  <2>1. /\ m_wq'.q = Tail(m_wq.q) /\ m_wq'.pending = Len(m_wq.q) - 1
        /\ m_wq'.writing = TRUE
    BY <1>1, <1>3, TakeNextFrame DEF TakeAndWrite
  <2>2. Len(Tail(m_wq.q)) = Len(m_wq.q) - 1
    BY <1>1, <1>3 DEF QueueFields
  <2> QED BY <1>3, <2>1, <2>2 DEF TakeAndWrite, BacklogOwned
<1> QED BY <1>2, <1>3

\* Every action hands the token on, gives it back, or leaves it alone.
LEMMA InvNext == IInv /\ [Next]_vars => IInv'
<1> SUFFICES ASSUME IInv, [Next]_vars
             PROVE  Exclusion' /\ WriteOwnership' /\ BacklogOwned'
  BY TypeNext DEF IInv
<1>0. TypeOK /\ TypeOK' /\ Exclusion /\ WriteOwnership /\ BacklogOwned
  BY TypeNext DEF IInv
<1> USE DEF Exclusion, Threads
<1>1. ASSUME NEW t \in Threads, Send(t)
      PROVE  Exclusion' /\ WriteOwnership' /\ BacklogOwned'
  BY <1>0, <1>1 DEF Send, TypeOK, WriteOwnership, Tokens, BacklogOwned
<1>2. ASSUME NEW t \in Threads, Lock(t)
      PROVE  Exclusion' /\ WriteOwnership' /\ BacklogOwned'
  BY <1>0, <1>2 DEF Lock, TypeOK, WriteOwnership, Tokens, BacklogOwned
<1>3. ASSUME NEW t \in Threads, RejectOversized(t)
      PROVE  Exclusion' /\ WriteOwnership' /\ BacklogOwned'
  <2>1. /\ m_wq'.q = m_wq.q /\ m_wq'.pending = m_wq.pending
        /\ m_wq'.writing = m_wq.writing
    BY <1>0, <1>3 DEF RejectOversized, TypeOK, QueueFields
  <2> QED BY <1>0, <1>3, <2>1
          DEF RejectOversized, TypeOK, WriteOwnership, Tokens, BacklogOwned
<1>4. ASSUME NEW t \in Threads, EvictOne(t)
      PROVE  Exclusion' /\ WriteOwnership' /\ BacklogOwned'
  <2>1. m_wq \in QueueFields /\ arg[t] \in Payload /\ m_wq' = Evict(m_wq, arg[t])
    BY <1>0, <1>4 DEF EvictOne, TypeOK
  <2>2. m_wq'.pending = m_wq.pending /\ m_wq'.writing = m_wq.writing
    BY <2>1, EvictFields
  <2>3. m_wq'.q # <<>> => m_wq.q # <<>>
    <3>1. CASE m_wq' = m_wq
      BY <3>1
    <3>2. CASE \E k \in 1..Len(m_wq.q) : m_wq'.q = RemoveAt(m_wq.q, k)
      BY <3>2, <2>1 DEF QueueFields
    <3> QED BY <2>1, <3>1, <3>2, EvictFields
  <2>4. mutex = t /\ mutex' = mutex /\ mutex # "free"
    BY <1>0, <1>4 DEF EvictOne
  <2> QED BY <1>0, <1>4, <2>2, <2>3, <2>4
          DEF EvictOne, WriteOwnership, Tokens, BacklogOwned
<1>5. ASSUME NEW t \in Threads, Enqueue(t)
      PROVE  Exclusion' /\ WriteOwnership' /\ BacklogOwned'
  <2>1. m_wq \in QueueFields /\ arg[t] \in Payload /\ m_wq' = PushBack(m_wq, arg[t])
    BY <1>0, <1>5 DEF Enqueue, TypeOK
  <2>2. PICK new \in Frame :
          /\ m_wq'.q = Append(m_wq.q, new)
          /\ m_wq'.writing = TRUE /\ m_wq'.pending = Len(m_wq.q) + 1
    BY <2>1, PushBackFields
  <2>3. Len(m_wq'.q) = Len(m_wq.q) + 1
    BY <2>1, <2>2 DEF QueueFields
  <2>4. BacklogOwned'
    BY <2>2, <2>3 DEF BacklogOwned
  <2>5. Exclusion'
    BY <1>0, <1>5 DEF Enqueue, TypeOK
  <2>6. CASE m_wq.writing
    <3>1. Tokens' = Tokens
      BY <1>0, <1>5, <2>6 DEF Enqueue, TypeOK, Tokens
    <3> QED BY <1>0, <1>5, <2>2, <2>4, <2>5, <2>6, <3>1
            DEF WriteOwnership, Enqueue
  <2>7. CASE ~m_wq.writing
    <3>1. Tokens = 0
      BY <1>0, <2>7, TokensNat DEF WriteOwnership
    <3>2. Tokens' = 1
      BY <1>0, <1>5, <2>7, <3>1 DEF Enqueue, TypeOK, Tokens
    <3> QED BY <2>2, <2>4, <2>5, <3>2 DEF WriteOwnership
  <2> QED BY <2>6, <2>7
<1>6. CASE DispatchDoWrite
  <2>1. Tokens' = Tokens
    BY <1>0, <1>6 DEF DispatchDoWrite, TypeOK, Tokens
  <2> QED BY <1>0, <1>6, <2>1
          DEF DispatchDoWrite, TypeOK, WriteOwnership, BacklogOwned
<1>7. CASE DoWrite
  <2>1. Tokens = 1 /\ m_wq.writing
    BY <1>0, <1>7, TokensNat DEF DoWrite, TypeOK, WriteOwnership, Tokens
  <2>2. CASE m_closed
    <3>1. Tokens' = 0
      BY <1>0, <1>7, <2>1, <2>2 DEF DoWrite, DoWriteBody, TypeOK, Tokens
    <3> QED BY <1>0, <1>7, <2>2, <3>1
            DEF DoWrite, DoWriteBody, WriteOwnership, BacklogOwned
  <2>3. CASE ~m_closed
    <3>1. /\ BacklogOwned'
          /\ \/ m_wq'.writing = FALSE /\ inFlight' = inFlight
             \/ m_wq'.writing = TRUE /\ inFlight' = inFlight + 1
      <4>1. TakeAndWrite(0) /\ mutex' = mutex /\ inFlight \in Nat
        BY <1>0, <1>7, <2>3 DEF DoWrite, DoWriteBody, TypeOK
      <4>2. TypeOK /\ BacklogOwned /\ m_wq.writing = TRUE
        BY <1>0, <2>1 DEF TypeOK, QueueFields
      <4>3. 0 \in {0, 1}
        OBVIOUS
      <4>4. /\ BacklogOwned'
           /\ \/ m_wq'.writing = FALSE /\ inFlight' = inFlight - 0
              \/ m_wq'.writing = TRUE /\ inFlight' = inFlight - 0 + 1
        BY <4>1, <4>2, <4>3, TakeKeepsBacklogOwned, Zenon
      <4> QED BY <4>1, <4>4
    <3>2. Exclusion'
      BY <1>0, <1>7 DEF DoWrite, TypeOK
    <3>3. \/ m_wq'.writing = FALSE /\ Tokens' = 0
          \/ m_wq'.writing = TRUE /\ Tokens' = 1
      <4>1. /\ pc' = pc /\ doWrites' = doWrites - 1
            /\ pc \in [Threads -> {"idle", "lock", "locked", "kick"}]
            /\ doWrites \in Nat /\ inFlight \in Nat /\ inFlight' \in Nat
        BY <1>0, <1>7 DEF DoWrite, TypeOK
      <4>2. Tokens' = Tokens + inFlight' - inFlight - 1
        BY <4>1 DEF Tokens
      <4>3. inFlight' = inFlight => Tokens' = 0
        BY <2>1, <4>1, <4>2
      <4>4. inFlight' = inFlight + 1 => Tokens' = 1
        BY <2>1, <4>1, <4>2
      <4> QED BY <3>1, <4>3, <4>4, Zenon
    <3>4. WriteOwnership'
      BY <3>3 DEF WriteOwnership
    <3> QED BY <3>1, <3>2, <3>4
  <2> QED BY <2>2, <2>3
<1>8. CASE DoWriteInline
  <2>1. Tokens = 1 /\ m_wq.writing
    BY <1>0, <1>8, TokensNat DEF DoWriteInline, TypeOK, WriteOwnership, Tokens
  <2>2. CASE m_closed
    <3>1. Tokens' = 0
      BY <1>0, <1>8, <2>1, <2>2 DEF DoWriteInline, DoWriteBody, TypeOK, Tokens
    <3> QED BY <1>0, <1>8, <2>2, <3>1
            DEF DoWriteInline, DoWriteBody, TypeOK, WriteOwnership, BacklogOwned
  <2>3. CASE ~m_closed
    <3>1. /\ BacklogOwned'
          /\ \/ m_wq'.writing = FALSE /\ inFlight' = inFlight
             \/ m_wq'.writing = TRUE /\ inFlight' = inFlight + 1
      <4>1. TakeAndWrite(0) /\ mutex' = mutex /\ inFlight \in Nat
        BY <1>0, <1>8, <2>3 DEF DoWriteInline, DoWriteBody, TypeOK
      <4>2. TypeOK /\ BacklogOwned /\ m_wq.writing = TRUE
        BY <1>0, <2>1 DEF TypeOK, QueueFields
      <4>3. 0 \in {0, 1}
        OBVIOUS
      <4>4. /\ BacklogOwned'
           /\ \/ m_wq'.writing = FALSE /\ inFlight' = inFlight - 0
              \/ m_wq'.writing = TRUE /\ inFlight' = inFlight - 0 + 1
        BY <4>1, <4>2, <4>3, TakeKeepsBacklogOwned, Zenon
      <4> QED BY <4>1, <4>4
    <3>2. Exclusion'
      BY <1>0, <1>8 DEF DoWriteInline, TypeOK
    <3>3. \/ m_wq'.writing = FALSE /\ Tokens' = 0
          \/ m_wq'.writing = TRUE /\ Tokens' = 1
      <4>1. /\ pc' = [pc EXCEPT !["strand"] = "idle"] /\ pc["strand"] = "kick" /\ doWrites' = doWrites
            /\ pc \in [Threads -> {"idle", "lock", "locked", "kick"}]
            /\ doWrites \in Nat /\ inFlight \in Nat /\ inFlight' \in Nat
        BY <1>0, <1>8 DEF DoWriteInline, TypeOK
      <4>2. Tokens' = Tokens + inFlight' - inFlight - 1
        BY <4>1 DEF Tokens
      <4>3. inFlight' = inFlight => Tokens' = 0
        BY <2>1, <4>1, <4>2
      <4>4. inFlight' = inFlight + 1 => Tokens' = 1
        BY <2>1, <4>1, <4>2
      <4> QED BY <3>1, <4>3, <4>4, Zenon
    <3>4. WriteOwnership'
      BY <3>3 DEF WriteOwnership
    <3> QED BY <3>1, <3>2, <3>4
  <2> QED BY <2>2, <2>3
<1>9. CASE OnWrite
  <2>1. Tokens = 1 /\ m_wq.writing
    BY <1>0, <1>9, TokensNat DEF OnWrite, TypeOK, WriteOwnership, Tokens
  <2>2. /\ BacklogOwned'
        /\ \/ m_wq'.writing = FALSE /\ inFlight' = inFlight - 1
           \/ m_wq'.writing = TRUE /\ inFlight' = inFlight
    <3>1. TakeAndWrite(1) /\ mutex' = mutex /\ inFlight \in Nat
      BY <1>0, <1>9 DEF OnWrite, TypeOK
    <3>2. TypeOK /\ BacklogOwned /\ m_wq.writing = TRUE
      BY <1>0, <2>1 DEF TypeOK, QueueFields
    <3>3. 1 \in {0, 1}
      OBVIOUS
    <3>4. /\ BacklogOwned'
         /\ \/ m_wq'.writing = FALSE /\ inFlight' = inFlight - 1
            \/ m_wq'.writing = TRUE /\ inFlight' = inFlight - 1 + 1
      BY <3>1, <3>2, <3>3, TakeKeepsBacklogOwned, Zenon
    <3> QED BY <3>1, <3>4
  <2>3. Exclusion'
    BY <1>0, <1>9 DEF OnWrite, TypeOK
  <2>4. \/ m_wq'.writing = FALSE /\ Tokens' = 0
        \/ m_wq'.writing = TRUE /\ Tokens' = 1
    <3>1. /\ pc' = pc /\ doWrites' = doWrites
          /\ pc \in [Threads -> {"idle", "lock", "locked", "kick"}]
          /\ doWrites \in Nat /\ inFlight \in Nat /\ inFlight' \in Nat
      BY <1>0, <1>9 DEF OnWrite, TypeOK
    <3>2. Tokens' = Tokens + inFlight' - inFlight
      BY <3>1 DEF Tokens
    <3>3. inFlight' = inFlight - 1 => Tokens' = 0
      BY <2>1, <3>1, <3>2
    <3>4. inFlight' = inFlight => Tokens' = 1
      BY <2>1, <3>1, <3>2
    <3> QED BY <2>2, <3>3, <3>4, Zenon
  <2>5. WriteOwnership'
    BY <2>4 DEF WriteOwnership
  <2> QED BY <2>2, <2>3, <2>5
<1>10. CASE OnWriteError
  BY <1>0, <1>10 DEF OnWriteError, TypeOK, WriteOwnership, Tokens, BacklogOwned
<1>11. CASE OnWriteClosed
  BY <1>0, <1>11 DEF OnWriteClosed, TypeOK, WriteOwnership, Tokens, BacklogOwned
<1>12. CASE ForceClose
  BY <1>0, <1>12 DEF ForceClose, TypeOK, WriteOwnership, Tokens, BacklogOwned
<1>13. CASE UNCHANGED vars
  BY <1>0, <1>13 DEF vars, WriteOwnership, Tokens, BacklogOwned
<1> QED
  BY <1>1, <1>2, <1>3, <1>4, <1>5, <1>6, <1>7, <1>8, <1>9, <1>10, <1>11,
     <1>12, <1>13 DEF Next, Step

\* I-W1: for every capacity and every interleaving of the capture thread
\* with the strand there is at most one owner of the write, hence at most
\* one async_write, and an open session's m_writing tells whether there is.
THEOREM OwnershipCorrect == Spec => []WriteOwnership
<1>1. IInv => WriteOwnership
  BY DEF IInv
<1> QED BY InvInit, InvNext, <1>1, PTL DEF Spec

\* I-W6: a queued frame always has a writer who will come back for it.
THEOREM BacklogCorrect == Spec => []BacklogOwned
<1>1. IInv => BacklogOwned
  BY DEF IInv
<1> QED BY InvInit, InvNext, <1>1, PTL DEF Spec

-----------------------------------------------------------------------------
(* Counting the frames of a kind.                                          *)

\* The positions of a kind in the deque are a finite set, so they are counted.
LEMMA IndicesFinite ==
  ASSUME NEW q \in Seq(Frame), NEW b \in BOOLEAN
  PROVE  /\ IsFiniteSet(Indices(q, b))
         /\ Cardinality(Indices(q, b)) \in Nat
         /\ Indices(q, b) \subseteq 1..Len(q)
<1>1. IsFiniteSet(1..Len(q))
  BY FS_Interval
<1>2. Indices(q, b) \in SUBSET (1..Len(q))
  BY DEF Indices
<1>3. IsFiniteSet(Indices(q, b))
  BY <1>1, <1>2, FS_Subset
<1> QED BY <1>2, <1>3, FS_CardinalityType

\* Appending a frame adds one to the count of its kind and no other.
LEMMA CountAppend ==
  ASSUME NEW q \in Seq(Frame), NEW f \in Frame, NEW b \in BOOLEAN
  PROVE  Cardinality(Indices(Append(q, f), b)) =
           IF f.isText = b THEN Cardinality(Indices(q, b)) + 1
                           ELSE Cardinality(Indices(q, b))
<1>1. /\ Len(q) \in Nat /\ DOMAIN q = 1..Len(q)
      /\ DOMAIN Append(q, f) = 1..(Len(q) + 1)
      /\ \A i \in 1..Len(q) : Append(q, f)[i] = q[i]
      /\ Append(q, f)[Len(q) + 1] = f
  OBVIOUS
<1>2. CASE f.isText = b
  <2>1. Indices(Append(q, f), b) = Indices(q, b) \cup {Len(q) + 1}
    BY <1>1, <1>2 DEF Indices
  <2>2. Len(q) + 1 \notin Indices(q, b)
    BY <1>1 DEF Indices
  <2> QED BY <1>2, <2>1, <2>2, IndicesFinite, FS_AddElement
<1>3. CASE f.isText # b
  <2>1. Indices(Append(q, f), b) = Indices(q, b)
    BY <1>1, <1>3 DEF Indices
  <2> QED BY <1>3, <2>1
<1> QED BY <1>2, <1>3

\* r is q without its position k.
Without(r, q, k) ==
  /\ Len(r) = Len(q) - 1
  /\ \A i \in 1..(Len(q) - 1) : r[i] = IF i < k THEN q[i] ELSE q[i + 1]

\* Removing a frame makes the count of its kind one smaller.  The positions
\* of the kind in r are those of q without k, those behind k moved down.
LEMMA CountWithout ==
  ASSUME NEW q \in Seq(Frame), NEW r \in Seq(Frame), NEW k \in 1..Len(q),
         Without(r, q, k), NEW b \in BOOLEAN
  PROVE  Cardinality(Indices(r, b)) =
           IF q[k].isText = b THEN Cardinality(Indices(q, b)) - 1
                              ELSE Cardinality(Indices(q, b))
<1> DEFINE S == Indices(r, b)
           T == Indices(q, b) \ {k}
           g == [i \in S |-> IF i < k THEN i ELSE i + 1]
<1>1. /\ Len(q) \in Nat /\ k \in Nat /\ 1 <= k /\ k <= Len(q)
      /\ DOMAIN q = 1..Len(q) /\ DOMAIN r = 1..(Len(q) - 1)
  BY DEF Without
<1>2. \A i \in S : i \in 1..(Len(q) - 1) /\ r[i].isText = b
  BY <1>1 DEF Indices
<1>3. \A j \in T : j \in 1..Len(q) /\ j # k /\ q[j].isText = b
  BY <1>1 DEF Indices
<1>4. g \in [S -> T]
  <2>1. ASSUME NEW i \in S PROVE (IF i < k THEN i ELSE i + 1) \in T
    <3>1. i \in 1..(Len(q) - 1) /\ r[i].isText = b
      BY <1>2
    <3>2. CASE i < k
      <4>1. i \in 1..Len(q) /\ r[i] = q[i] /\ i # k
        BY <1>1, <3>1, <3>2 DEF Without
      <4> QED BY <1>1, <3>1, <3>2, <4>1 DEF Indices
    <3>3. CASE ~(i < k)
      <4>1. i + 1 \in 1..Len(q) /\ r[i] = q[i + 1] /\ i + 1 # k
        BY <1>1, <3>1, <3>3 DEF Without
      <4> QED BY <1>1, <3>1, <3>3, <4>1 DEF Indices
    <3> QED BY <3>2, <3>3
  <2> HIDE DEF S, T
  <2> QED BY <2>1
<1>5. \A i, j \in S : g[i] = g[j] => i = j
  <2> SUFFICES ASSUME NEW i \in S, NEW j \in S, g[i] = g[j] PROVE i = j
    OBVIOUS
  <2>1. i \in Nat /\ j \in Nat
    BY <1>1, <1>2
  <2>2. (IF i < k THEN i ELSE i + 1) = (IF j < k THEN j ELSE j + 1)
    OBVIOUS
  <2> QED BY <1>1, <2>1, <2>2
<1>6. \A j \in T : \E i \in S : g[i] = j
  <2> SUFFICES ASSUME NEW j \in T PROVE \E i \in S : g[i] = j
    OBVIOUS
  <2>1. j \in 1..Len(q) /\ j # k /\ q[j].isText = b
    BY <1>3
  <2>2. CASE j < k
    <3>1. j \in 1..(Len(q) - 1) /\ r[j] = q[j]
      BY <1>1, <2>1, <2>2 DEF Without
    <3>2. j \in S
      BY <1>1, <2>1, <3>1 DEF Indices
    <3> QED BY <2>2, <3>2
  <2>3. CASE ~(j < k)
    <3>1. /\ j - 1 \in 1..(Len(q) - 1) /\ ~(j - 1 < k) /\ (j - 1) + 1 = j
      BY <1>1, <2>1, <2>3
    <3>2. r[j - 1] = q[j]
      BY <3>1 DEF Without
    <3>3. j - 1 \in S
      BY <1>1, <2>1, <3>1, <3>2 DEF Indices
    <3> QED BY <3>1, <3>3
  <2> QED BY <2>2, <2>3
<1>7. ExistsBijection(S, T)
  <2> HIDE DEF S, T, g
  <2>1. g \in Bijection(S, T)
    BY <1>4, <1>5, <1>6 DEF Bijection, Injection, Surjection, IsInjective
  <2> QED BY <2>1 DEF ExistsBijection
<1>8. Cardinality(T) = Cardinality(S)
  BY <1>7, IndicesFinite, FS_Bijection
<1>9. Cardinality(T) = IF k \in Indices(q, b) THEN Cardinality(Indices(q, b)) - 1
                                            ELSE Cardinality(Indices(q, b))
  BY IndicesFinite, FS_RemoveElement
<1>10. k \in Indices(q, b) <=> q[k].isText = b
  BY <1>1 DEF Indices
<1> QED BY <1>8, <1>9, <1>10

-----------------------------------------------------------------------------
(* The inductive invariant and its steps.                                  *)

Texts(q) == Cardinality(Indices(q, TRUE))
Audios(q) == Cardinality(Indices(q, FALSE))

\* The two parts of the invariant about the counters, in terms of the counts.
LEMMA CountsForm ==
  /\ FramesCounted <=> /\ m_wq.textCount = Texts(m_wq.q)
                      /\ m_wq.binaryCount = Audios(m_wq.q)
  /\ FrameLimits <=> /\ Texts(m_wq.q) <= MaxTextFrames
                    /\ Audios(m_wq.q) <= MaxBinaryFrames
BY DEF FramesCounted, FrameLimits, Texts, Audios

\* The counts of a kind are natural numbers.
LEMMA CountsNat ==
  ASSUME NEW q \in Seq(Frame)
  PROVE  Texts(q) \in Nat /\ Audios(q) \in Nat
BY IndicesFinite DEF Texts, Audios

CInv == TypeOK /\ FramesCounted /\ FrameLimits /\ Accounted

\* The parts of CInv that speak of the queue and the two histories.
Books == FramesCounted /\ FrameLimits /\ Accounted

\* A step that touches neither the queue nor the histories keeps the books.
LEMMA BooksKept ==
  ASSUME Books, UNCHANGED <<m_wq, wire, rejected>>
  PROVE  Books'
BY DEF Books, FramesCounted, FrameLimits, Accounted

Balanced(e, r, d, l, x) == e + r = d + l + x

\* The four ways in which a step moves one frame across the balance.
LEMMA Balance ==
  ASSUME NEW e \in Nat, NEW r \in Nat, NEW d \in Nat, NEW l \in Nat,
         NEW x \in Nat, Balanced(e, r, d, l, x)
  PROVE  /\ Balanced(e, r + 1, d, l, x + 1)
         /\ Balanced(e + 1, r, d, l + 1, x)
         /\ Balanced(e, r, d, l - 1, x + 1)
         /\ Balanced(e, r, d + 1, l - 1, x)
BY DEF Balanced

\* Refusing an oversized frame counts it twice, once on each side.
LEMMA BooksReject ==
  ASSUME TypeOK, Books, NEW t \in Threads, RejectOversized(t)
  PROVE  Books'
<1> DEFINE d == m_wq.droppedTotal + 1
<1>1. m_wq \in QueueFields /\ rejected \in Nat
  BY DEF TypeOK
<1>2. d \in Nat /\ m_wq.droppedTotal \in Nat /\ m_wq.enqueued \in Nat
      /\ m_wq.dequeued \in Nat /\ Len(m_wq.q) \in Nat
  BY <1>1 DEF QueueFields
<1>3. m_wq' = [m_wq EXCEPT !.droppedTotal = d] /\ rejected' = rejected + 1
      /\ wire' = wire
  BY DEF RejectOversized
<1> HIDE DEF d
<1>4. /\ m_wq'.q = m_wq.q /\ m_wq'.textCount = m_wq.textCount
      /\ m_wq'.binaryCount = m_wq.binaryCount
      /\ m_wq'.enqueued = m_wq.enqueued /\ m_wq'.dequeued = m_wq.dequeued
      /\ m_wq'.droppedTotal = d
  BY <1>1, <1>2, <1>3 DEF QueueFields
<1>5. FramesCounted' /\ FrameLimits'
  BY <1>4 DEF Books, FramesCounted, FrameLimits
<1>6. Accounted'
  <2>1. /\ m_wq.dequeued = Len(wire)
        /\ Balanced(m_wq.enqueued, rejected, m_wq.dequeued,
                    Len(m_wq.q), m_wq.droppedTotal)
    BY DEF Books, Accounted, Balanced
  <2>2. m_wq'.dequeued = Len(wire') /\ rejected' = rejected + 1
    BY <1>3, <1>4, <2>1
  <2>3. Balanced(m_wq.enqueued, rejected + 1, m_wq.dequeued,
                 Len(m_wq.q), m_wq.droppedTotal + 1)
    BY <1>1, <1>2, <2>1, Balance, Zenon
  <2> QED BY <1>4, <2>2, <2>3 DEF Accounted, Balanced, d
<1> QED BY <1>5, <1>6 DEF Books

\* What the removal of one frame of a kind does to all the counts at once.
LEMMA CountsWithout ==
  ASSUME NEW q \in Seq(Frame), NEW r \in Seq(Frame), NEW k \in 1..Len(q),
         Without(r, q, k)
  PROVE  \/ /\ q[k].isText = TRUE
            /\ Texts(r) = Texts(q) - 1 /\ Audios(r) = Audios(q)
         \/ /\ q[k].isText = FALSE
            /\ Texts(r) = Texts(q) /\ Audios(r) = Audios(q) - 1
<1>1. q[k].isText = TRUE \/ q[k].isText = FALSE
  <2>1. q[k] \in Frame
    OBVIOUS
  <2> QED BY <2>1 DEF Frame
<1>2. /\ TRUE \in BOOLEAN /\ FALSE \in BOOLEAN
  OBVIOUS
<1>3. Cardinality(Indices(r, TRUE)) =
        IF q[k].isText = TRUE THEN Cardinality(Indices(q, TRUE)) - 1
                              ELSE Cardinality(Indices(q, TRUE))
  BY <1>2, CountWithout, Zenon
<1>4. Cardinality(Indices(r, FALSE)) =
        IF q[k].isText = FALSE THEN Cardinality(Indices(q, FALSE)) - 1
                               ELSE Cardinality(Indices(q, FALSE))
  BY <1>2, CountWithout, Zenon
<1> QED BY <1>1, <1>3, <1>4, Zenon DEF Texts, Audios

\* The same for a frame that is appended.
LEMMA CountsAppend ==
  ASSUME NEW q \in Seq(Frame), NEW f \in Frame
  PROVE  LET r == Append(q, f)
         IN  \/ /\ f.isText = TRUE
                /\ Texts(r) = Texts(q) + 1 /\ Audios(r) = Audios(q)
             \/ /\ f.isText = FALSE
                /\ Texts(r) = Texts(q) /\ Audios(r) = Audios(q) + 1
<1>1. f.isText = TRUE \/ f.isText = FALSE
  BY DEF Frame
<1>2. TRUE \in BOOLEAN /\ FALSE \in BOOLEAN
  OBVIOUS
<1>3. Cardinality(Indices(Append(q, f), TRUE)) =
        IF f.isText = TRUE THEN Cardinality(Indices(q, TRUE)) + 1
                           ELSE Cardinality(Indices(q, TRUE))
  BY <1>2, CountAppend, Zenon
<1>4. Cardinality(Indices(Append(q, f), FALSE)) =
        IF f.isText = FALSE THEN Cardinality(Indices(q, FALSE)) + 1
                            ELSE Cardinality(Indices(q, FALSE))
  BY <1>2, CountAppend, Zenon
<1> QED BY <1>1, <1>3, <1>4, Zenon DEF Texts, Audios

\* When one frame goes and the counter of its kind follows, the counters stay
\* exact and the limits kept.
LEMMA CountsAfterRemoval ==
  ASSUME FramesCounted, FrameLimits,
         m_wq.q \in Seq(Frame), m_wq'.q \in Seq(Frame),
         NEW k \in 1..Len(m_wq.q), Without(m_wq'.q, m_wq.q, k),
         \/ /\ m_wq.q[k].isText = TRUE
            /\ m_wq'.textCount = m_wq.textCount - 1
            /\ m_wq'.binaryCount = m_wq.binaryCount
         \/ /\ m_wq.q[k].isText = FALSE
            /\ m_wq'.textCount = m_wq.textCount
            /\ m_wq'.binaryCount = m_wq.binaryCount - 1
  PROVE  FramesCounted' /\ FrameLimits'
<1>1. \/ /\ m_wq.q[k].isText = TRUE
         /\ Texts(m_wq'.q) = Texts(m_wq.q) - 1
         /\ Audios(m_wq'.q) = Audios(m_wq.q)
      \/ /\ m_wq.q[k].isText = FALSE
         /\ Texts(m_wq'.q) = Texts(m_wq.q)
         /\ Audios(m_wq'.q) = Audios(m_wq.q) - 1
  BY CountsWithout, Zenon
<1>2. \/ /\ m_wq'.textCount = m_wq.textCount - 1
         /\ m_wq'.binaryCount = m_wq.binaryCount
         /\ Texts(m_wq'.q) = Texts(m_wq.q) - 1
         /\ Audios(m_wq'.q) = Audios(m_wq.q)
      \/ /\ m_wq'.textCount = m_wq.textCount
         /\ m_wq'.binaryCount = m_wq.binaryCount - 1
         /\ Texts(m_wq'.q) = Texts(m_wq.q)
         /\ Audios(m_wq'.q) = Audios(m_wq.q) - 1
  BY <1>1, Zenon
<1>3. /\ m_wq.textCount = Texts(m_wq.q) /\ m_wq.binaryCount = Audios(m_wq.q)
      /\ Texts(m_wq.q) <= MaxTextFrames /\ Audios(m_wq.q) <= MaxBinaryFrames
  BY CountsForm
<1>4. Texts(m_wq.q) \in Nat /\ Audios(m_wq.q) \in Nat
  BY CountsNat
<1>5. MaxTextFrames \in Nat /\ MaxBinaryFrames \in Nat
  BY ConfigAssumption
<1>6. /\ m_wq'.textCount = Texts(m_wq'.q) /\ m_wq'.binaryCount = Audios(m_wq'.q)
      /\ Texts(m_wq'.q) <= MaxTextFrames /\ Audios(m_wq'.q) <= MaxBinaryFrames
  BY <1>2, <1>3, <1>4, <1>5
<1> QED BY <1>6 DEF FramesCounted, FrameLimits, Texts, Audios

\* Evicting one frame keeps the books.
LEMMA BooksEvict ==
  ASSUME TypeOK, Books, NEW t \in Threads, EvictOne(t)
  PROVE  Books'
<1>1. /\ m_wq \in QueueFields /\ arg[t] \in Payload /\ m_wq' = Evict(m_wq, arg[t])
      /\ wire' = wire /\ rejected' = rejected
  BY DEF EvictOne, TypeOK
<1>2. CASE m_wq' = m_wq
  BY <1>1, <1>2, BooksKept
<1>3. ASSUME NEW k \in 1..Len(m_wq.q),
             m_wq.q[k].isText = arg[t].isText,
             m_wq'.q = RemoveAt(m_wq.q, k),
             m_wq'.droppedTotal = m_wq.droppedTotal + 1,
             m_wq'.textCount = IF arg[t].isText THEN m_wq.textCount - 1
                                                ELSE m_wq.textCount,
             m_wq'.binaryCount = IF arg[t].isText THEN m_wq.binaryCount
                                                  ELSE m_wq.binaryCount - 1
      PROVE  Books'
  <2>1. /\ m_wq.q \in Seq(Frame) /\ Len(m_wq.q) \in Nat
        /\ m_wq.droppedTotal \in Nat /\ m_wq.enqueued \in Nat
        /\ m_wq.dequeued \in Nat /\ rejected \in Nat
    BY <1>1 DEF QueueFields, TypeOK
  <2>2. m_wq'.enqueued = m_wq.enqueued /\ m_wq'.dequeued = m_wq.dequeued
    BY <1>1, EvictFields
  <2>3. /\ m_wq'.q \in Seq(Frame) /\ Len(m_wq'.q) = Len(m_wq.q) - 1
        /\ Without(m_wq'.q, m_wq.q, k)
    BY <1>3, <2>1, RemoveAtFrames DEF Without
  <2>4. \/ /\ m_wq.q[k].isText = TRUE
           /\ m_wq'.textCount = m_wq.textCount - 1
           /\ m_wq'.binaryCount = m_wq.binaryCount
        \/ /\ m_wq.q[k].isText = FALSE
           /\ m_wq'.textCount = m_wq.textCount
           /\ m_wq'.binaryCount = m_wq.binaryCount - 1
    <3>1. arg[t].isText = TRUE \/ arg[t].isText = FALSE
      BY <1>1 DEF Payload
    <3> QED BY <1>3, <3>1, Zenon
  <2>5. FramesCounted' /\ FrameLimits'
    BY <2>1, <2>3, <2>4, CountsAfterRemoval DEF Books
  <2>7. Accounted'
    <3>1. /\ m_wq.dequeued = Len(wire)
          /\ Balanced(m_wq.enqueued, rejected, m_wq.dequeued,
                    Len(m_wq.q), m_wq.droppedTotal)
      BY DEF Books, Accounted, Balanced
    <3>2. Balanced(m_wq.enqueued, rejected, m_wq.dequeued,
                   Len(m_wq.q) - 1, m_wq.droppedTotal + 1)
      BY <2>1, <3>1, Balance, Zenon
    <3> QED BY <1>1, <1>3, <2>2, <2>3, <3>1, <3>2 DEF Accounted, Balanced
  <2> QED BY <2>5, <2>7 DEF Books
<1> QED BY <1>1, <1>2, <1>3, EvictFields

\* Appending a frame for which there is room keeps the books.
LEMMA BooksEnqueue ==
  ASSUME TypeOK, Books, NEW t \in Threads, Enqueue(t)
  PROVE  Books'
<1>1. /\ m_wq \in QueueFields /\ arg[t] \in Payload
      /\ m_wq' = PushBack(m_wq, arg[t]) /\ ~NoRoom(m_wq, arg[t])
      /\ wire' = wire /\ rejected' = rejected
  BY DEF Enqueue, TypeOK
<1>2. /\ m_wq.q \in Seq(Frame) /\ Len(m_wq.q) \in Nat
      /\ m_wq.droppedTotal \in Nat /\ m_wq.enqueued \in Nat
      /\ m_wq.dequeued \in Nat /\ rejected \in Nat
      /\ m_wq.textCount \in Int /\ m_wq.binaryCount \in Int
      /\ arg[t].isText \in BOOLEAN
  BY <1>1 DEF QueueFields, TypeOK, Payload
<1>3. PICK new \in Frame :
        /\ new.isText = arg[t].isText
        /\ m_wq'.q = Append(m_wq.q, new)
        /\ m_wq'.enqueued = m_wq.enqueued + 1
        /\ m_wq'.dequeued = m_wq.dequeued
        /\ m_wq'.droppedTotal = m_wq.droppedTotal
        /\ m_wq'.textCount = IF arg[t].isText THEN m_wq.textCount + 1
                                              ELSE m_wq.textCount
        /\ m_wq'.binaryCount = IF arg[t].isText THEN m_wq.binaryCount
                                                ELSE m_wq.binaryCount + 1
  <2> DEFINE n == [id |-> m_wq.enqueued + 1, isText |-> arg[t].isText,
                   size |-> arg[t].size]
  <2>1. n.isText = arg[t].isText
    OBVIOUS
  <2> QED BY <1>1, <2>1, PushBackFields
<1>4. arg[t].isText = TRUE \/ arg[t].isText = FALSE
  BY <1>2
<1>5. \/ /\ arg[t].isText = TRUE
         /\ m_wq'.textCount = m_wq.textCount + 1
         /\ m_wq'.binaryCount = m_wq.binaryCount
         /\ Texts(m_wq'.q) = Texts(m_wq.q) + 1
         /\ Audios(m_wq'.q) = Audios(m_wq.q)
      \/ /\ arg[t].isText = FALSE
         /\ m_wq'.textCount = m_wq.textCount
         /\ m_wq'.binaryCount = m_wq.binaryCount + 1
         /\ Texts(m_wq'.q) = Texts(m_wq.q)
         /\ Audios(m_wq'.q) = Audios(m_wq.q) + 1
  BY <1>2, <1>3, <1>4, CountsAppend, Zenon
<1>6. FramesCounted' /\ FrameLimits'
  <2>1. Texts(m_wq.q) \in Nat /\ Audios(m_wq.q) \in Nat
    BY <1>2, CountsNat
  <2>2. MaxTextFrames \in Nat \ {0} /\ MaxBinaryFrames \in Nat \ {0}
    BY ConfigAssumption
  <2>3. /\ m_wq.textCount = Texts(m_wq.q) /\ m_wq.binaryCount = Audios(m_wq.q)
        /\ Texts(m_wq.q) <= MaxTextFrames /\ Audios(m_wq.q) <= MaxBinaryFrames
    BY CountsForm DEF Books
  <2>4. arg[t].isText = TRUE => ~(m_wq.textCount >= MaxTextFrames)
    BY <1>1 DEF NoRoom, NoRoomForText
  <2>5. arg[t].isText = FALSE => \/ ~(m_wq.binaryCount >= MaxBinaryFrames)
                                 \/ ~(m_wq.binaryCount > 0)
    BY <1>1 DEF NoRoom, NoRoomForBinary
  <2>6. \/ /\ ~(m_wq.textCount >= MaxTextFrames)
           /\ m_wq'.textCount = m_wq.textCount + 1
           /\ m_wq'.binaryCount = m_wq.binaryCount
           /\ Texts(m_wq'.q) = Texts(m_wq.q) + 1
           /\ Audios(m_wq'.q) = Audios(m_wq.q)
        \/ /\ \/ ~(m_wq.binaryCount >= MaxBinaryFrames)
              \/ ~(m_wq.binaryCount > 0)
           /\ m_wq'.textCount = m_wq.textCount
           /\ m_wq'.binaryCount = m_wq.binaryCount + 1
           /\ Texts(m_wq'.q) = Texts(m_wq.q)
           /\ Audios(m_wq'.q) = Audios(m_wq.q) + 1
    BY <1>5, <2>4, <2>5, Zenon
  <2>7. /\ m_wq'.textCount = Texts(m_wq'.q) /\ m_wq'.binaryCount = Audios(m_wq'.q)
        /\ Texts(m_wq'.q) <= MaxTextFrames /\ Audios(m_wq'.q) <= MaxBinaryFrames
    BY <2>1, <2>2, <2>3, <2>6
  <2> QED BY <2>7 DEF FramesCounted, FrameLimits, Texts, Audios
<1>7. Accounted'
  <2>1. Len(m_wq'.q) = Len(m_wq.q) + 1
    BY <1>2, <1>3
  <2>2. /\ m_wq.dequeued = Len(wire)
        /\ Balanced(m_wq.enqueued, rejected, m_wq.dequeued,
                    Len(m_wq.q), m_wq.droppedTotal)
    BY DEF Books, Accounted, Balanced
  <2>3. Balanced(m_wq.enqueued + 1, rejected, m_wq.dequeued,
                 Len(m_wq.q) + 1, m_wq.droppedTotal)
    BY <1>2, <2>2, Balance, Zenon
  <2> QED BY <1>1, <1>3, <2>1, <2>2, <2>3 DEF Accounted, Balanced
<1> QED BY <1>6, <1>7 DEF Books

\* Popping the front frame into async_write keeps the books.
LEMMA BooksTake ==
  ASSUME TypeOK, Books, NEW n \in {0, 1}, TakeAndWrite(n), rejected' = rejected
  PROVE  Books'
<1>1. m_wq \in QueueFields /\ m_wq' = TakeNextLocked(m_wq) /\ wire \in Seq(Nat)
  BY DEF TypeOK, TakeAndWrite
<1>2. CASE m_wq.q = <<>>
  <2>1. /\ m_wq'.q = m_wq.q /\ m_wq'.enqueued = m_wq.enqueued
        /\ m_wq'.dequeued = m_wq.dequeued
        /\ m_wq'.droppedTotal = m_wq.droppedTotal
        /\ m_wq'.textCount = m_wq.textCount
        /\ m_wq'.binaryCount = m_wq.binaryCount /\ wire' = wire
    BY <1>1, <1>2, TakeNextEmpty DEF TakeAndWrite
  <2> QED BY <2>1 DEF Books, FramesCounted, FrameLimits, Accounted
<1>3. CASE m_wq.q # <<>>
  <2> DEFINE f == Head(m_wq.q)
  <2>1. /\ f \in Frame /\ f = m_wq.q[1] /\ Len(m_wq.q) \in Nat \ {0}
        /\ m_wq'.q = Tail(m_wq.q)
        /\ m_wq'.enqueued = m_wq.enqueued
        /\ m_wq'.dequeued = m_wq.dequeued + 1
        /\ m_wq'.droppedTotal = m_wq.droppedTotal
        /\ m_wq'.textCount = IF f.isText THEN m_wq.textCount - 1
                                         ELSE m_wq.textCount
        /\ m_wq'.binaryCount = IF f.isText THEN m_wq.binaryCount
                                           ELSE m_wq.binaryCount - 1
    BY <1>1, <1>3, TakeNextFrame
  <2>2. /\ wire' = Append(wire, f.id) /\ f.id \in Nat
    BY <1>3, <2>1 DEF TakeAndWrite, Frame
  <2>3. /\ m_wq.q \in Seq(Frame) /\ m_wq.droppedTotal \in Nat
        /\ m_wq.enqueued \in Nat /\ m_wq.dequeued \in Nat /\ rejected \in Nat
    BY <1>1 DEF QueueFields, TypeOK
  <2>4. /\ m_wq'.q \in Seq(Frame) /\ Len(m_wq'.q) = Len(m_wq.q) - 1
        /\ Without(m_wq'.q, m_wq.q, 1) /\ 1 \in 1..Len(m_wq.q)
    BY <1>3, <2>1, <2>3 DEF Without
  <2>5. Len(wire') = Len(wire) + 1 /\ Len(wire) \in Nat
    BY <1>1, <2>2
  <2>6. \/ /\ m_wq.q[1].isText = TRUE
           /\ m_wq'.textCount = m_wq.textCount - 1
           /\ m_wq'.binaryCount = m_wq.binaryCount
        \/ /\ m_wq.q[1].isText = FALSE
           /\ m_wq'.textCount = m_wq.textCount
           /\ m_wq'.binaryCount = m_wq.binaryCount - 1
    <3>1. f.isText = TRUE \/ f.isText = FALSE
      BY <2>1 DEF Frame
    <3> QED BY <2>1, <3>1, Zenon
  <2>7. FramesCounted' /\ FrameLimits'
    BY <2>3, <2>4, <2>6, CountsAfterRemoval DEF Books
  <2>9. Accounted'
    <3>1. /\ m_wq.dequeued = Len(wire)
          /\ Balanced(m_wq.enqueued, rejected, m_wq.dequeued,
                    Len(m_wq.q), m_wq.droppedTotal)
      BY DEF Books, Accounted, Balanced
    <3>2. Balanced(m_wq.enqueued, rejected, m_wq.dequeued + 1,
                   Len(m_wq.q) - 1, m_wq.droppedTotal)
      <4>1. Len(m_wq.q) \in Nat
        BY <2>1
      <4> QED BY <2>3, <3>1, <4>1, Balance, Zenon
    <3>3. m_wq.dequeued + 1 = Len(wire')
      BY <2>5, <3>1
    <3> QED BY <2>1, <2>4, <3>2, <3>3 DEF Accounted, Balanced
  <2> QED BY <2>7, <2>9 DEF Books
<1> QED BY <1>2, <1>3

\* The books of a new session are balanced.
LEMMA BooksInit == Init => Books
<1> SUFFICES ASSUME Init PROVE Books
  OBVIOUS
<1>1. /\ m_wq.q = <<>> /\ m_wq.textCount = 0 /\ m_wq.binaryCount = 0
      /\ m_wq.enqueued = 0 /\ m_wq.dequeued = 0 /\ m_wq.droppedTotal = 0
      /\ wire = <<>> /\ rejected = 0
  BY DEF Init
<1>2. Indices(m_wq.q, TRUE) = {} /\ Indices(m_wq.q, FALSE) = {}
  BY <1>1 DEF Indices
<1>3. Texts(m_wq.q) = 0
      /\ Audios(m_wq.q) = 0
  BY <1>2, FS_EmptySet DEF Texts, Audios
<1>4. MaxTextFrames \in Nat /\ MaxBinaryFrames \in Nat
  BY ConfigAssumption
<1>5. FramesCounted /\ FrameLimits
  BY <1>1, <1>3, <1>4, CountsForm
<1>6. Accounted
  BY <1>1 DEF Accounted
<1> QED BY <1>5, <1>6 DEF Books

\* Every action keeps the books.
LEMMA CInvNext == CInv /\ [Next]_vars => CInv'
<1> SUFFICES ASSUME TypeOK, Books, [Next]_vars PROVE Books'
  BY TypeNext DEF CInv, Books
<1>1. ASSUME NEW t \in Threads, Send(t) PROVE Books'
  BY <1>1, BooksKept DEF Send
<1>2. ASSUME NEW t \in Threads, Lock(t) PROVE Books'
  BY <1>2, BooksKept DEF Lock
<1>3. ASSUME NEW t \in Threads, RejectOversized(t) PROVE Books'
  BY <1>3, BooksReject
<1>4. ASSUME NEW t \in Threads, EvictOne(t) PROVE Books'
  BY <1>4, BooksEvict
<1>5. ASSUME NEW t \in Threads, Enqueue(t) PROVE Books'
  BY <1>5, BooksEnqueue
<1>6. CASE DispatchDoWrite
  BY <1>6, BooksKept DEF DispatchDoWrite
<1>7. CASE DoWrite
  <2>1. CASE m_closed
    BY <1>7, <2>1, BooksKept DEF DoWrite, DoWriteBody
  <2>2. CASE ~m_closed
    BY <1>7, <2>2, BooksTake DEF DoWrite, DoWriteBody
  <2> QED BY <2>1, <2>2
<1>8. CASE DoWriteInline
  <2>1. CASE m_closed
    BY <1>8, <2>1, BooksKept DEF DoWriteInline, DoWriteBody
  <2>2. CASE ~m_closed
    BY <1>8, <2>2, BooksTake DEF DoWriteInline, DoWriteBody
  <2> QED BY <2>1, <2>2
<1>9. CASE OnWrite
  BY <1>9, BooksTake DEF OnWrite
<1>10. CASE OnWriteError \/ OnWriteClosed \/ ForceClose \/ UNCHANGED vars
  BY <1>10, BooksKept DEF OnWriteError, OnWriteClosed, ForceClose, vars
<1> QED
  BY <1>1, <1>2, <1>3, <1>4, <1>5, <1>6, <1>7, <1>8, <1>9, <1>10
     DEF Next, Step

\* The books are balanced and typed at the start.
LEMMA CInvInit == Init => CInv
BY TypeInit, BooksInit DEF CInv, Books

\* The increments and decrements of m_textCount and m_binaryCount amount to
\* a scan of the deque, in every reachable state and for every capacity; as
\* a consequence the unsigned counters never pass below zero.
THEOREM CountsCorrect == Spec => []FramesCounted
<1>1. CInv => FramesCounted
  BY DEF CInv
<1> QED BY CInvInit, CInvNext, <1>1, PTL DEF Spec

\* Neither frame limit of QueueConfig is ever exceeded.
THEOREM LimitsCorrect == Spec => []FrameLimits
<1>1. CInv => FrameLimits
  BY DEF CInv
<1> QED BY CInvInit, CInvNext, <1>1, PTL DEF Spec

\* Every frame offered is written, queued or counted as dropped.
THEOREM AccountCorrect == Spec => []Accounted
<1>1. CInv => Accounted
  BY DEF CInv
<1> QED BY CInvInit, CInvNext, <1>1, PTL DEF Spec

-----------------------------------------------------------------------------
(* The bytes in the deque.                                                 *)

\* u[n] is the sum of the first n frames, as far as they are in I.
Summed(u, q, I) ==
  u = [n \in 0..Len(q) |->
         IF n = 0 THEN 0 ELSE u[n - 1] + (IF n \in I THEN q[n].size ELSE 0)]

\* The same, one frame at a time.
LEMMA SummedSteps ==
  ASSUME NEW q \in Seq(Frame), NEW I, NEW u
  PROVE  Summed(u, q, I) <=>
           /\ u = [n \in 0..Len(q) |-> u[n]]
           /\ u[0] = 0
           /\ \A n \in 1..Len(q) :
                u[n] = u[n - 1] + (IF n \in I THEN q[n].size ELSE 0)
<1>1. Len(q) \in Nat
  OBVIOUS
<1>2. ASSUME Summed(u, q, I)
      PROVE  /\ u = [n \in 0..Len(q) |-> u[n]]
             /\ u[0] = 0
             /\ \A n \in 1..Len(q) :
                  u[n] = u[n - 1] + (IF n \in I THEN q[n].size ELSE 0)
  <2>1. \A n \in 0..Len(q) :
          u[n] = IF n = 0 THEN 0 ELSE u[n - 1] + (IF n \in I THEN q[n].size ELSE 0)
    BY <1>2, Zenon DEF Summed
  <2>2. u = [n \in 0..Len(q) |-> u[n]]
    BY <1>2, Zenon DEF Summed
  <2>3. 0 \in 0..Len(q) /\ \A n \in 1..Len(q) : n \in 0..Len(q) /\ n # 0
    BY <1>1
  <2> QED BY <2>1, <2>2, <2>3, Zenon
<1>3. ASSUME u = [n \in 0..Len(q) |-> u[n]],
             u[0] = 0,
             \A n \in 1..Len(q) :
               u[n] = u[n - 1] + (IF n \in I THEN q[n].size ELSE 0)
      PROVE  Summed(u, q, I)
  <2>1. \A n \in 0..Len(q) : n # 0 => n \in 1..Len(q)
    BY <1>1
  <2>2. \A n \in 0..Len(q) :
          u[n] = IF n = 0 THEN 0 ELSE u[n - 1] + (IF n \in I THEN q[n].size ELSE 0)
    BY <1>3, <2>1, Zenon
  <2> QED BY <1>3, <2>2, Zenon DEF Summed
<1> QED BY <1>2, <1>3

\* How to read it.
Adds(u, q, I) ==
  /\ u[0] = 0
  /\ \A n \in 1..Len(q) : u[n] = u[n - 1] + (IF n \in I THEN q[n].size ELSE 0)

\* It follows from the definition.
LEMMA SumStep ==
  ASSUME NEW q \in Seq(Frame), NEW I, NEW u, Summed(u, q, I)
  PROVE  Adds(u, q, I)
<1>1. Summed(u, q, I) <=>
        /\ u = [n \in 0..Len(q) |-> u[n]]
        /\ u[0] = 0
        /\ \A n \in 1..Len(q) :
             u[n] = u[n - 1] + (IF n \in I THEN q[n].size ELSE 0)
  BY SummedSteps
<1> QED BY <1>1, Zenon DEF Adds

\* There is only one.
LEMMA SumsAgree ==
  ASSUME NEW q \in Seq(Frame), NEW I, NEW u, NEW v,
         Summed(u, q, I), Summed(v, q, I)
  PROVE  u[Len(q)] = v[Len(q)]
<1> DEFINE Differ == {n \in 0..Len(q) : u[n] # v[n]}
<1>1. Len(q) \in Nat /\ Differ \in SUBSET Nat
  OBVIOUS
<1>2. /\ u[0] = 0
      /\ \A n \in 1..Len(q) : u[n] = u[n - 1] + (IF n \in I THEN q[n].size ELSE 0)
  BY SumStep DEF Adds
<1>3. /\ v[0] = 0
      /\ \A n \in 1..Len(q) : v[n] = v[n - 1] + (IF n \in I THEN q[n].size ELSE 0)
  BY SumStep DEF Adds
<1>4. ASSUME Differ # {} PROVE FALSE
  <2>1. PICK n \in Differ : \A m \in Differ : n <= m
    <3> HIDE DEF Differ
    <3> QED BY <1>1, <1>4, LeastElement
  <2>2. n \in 0..Len(q) /\ n # 0 /\ u[n] # v[n]
    BY <1>2, <1>3
  <2>3. n \in 1..Len(q) /\ n - 1 \in 0..Len(q) /\ ~(n <= n - 1)
    BY <1>1, <2>2
  <2>4. u[n - 1] = v[n - 1]
    BY <2>1, <2>3
  <2>5. /\ u[n] = u[n - 1] + (IF n \in I THEN q[n].size ELSE 0)
        /\ v[n] = v[n - 1] + (IF n \in I THEN q[n].size ELSE 0)
    BY <1>2, <1>3, <2>3, Zenon
  <2> QED BY <2>2, <2>4, <2>5, Zenon
<1>5. Len(q) \in 0..Len(q)
  BY <1>1
<1> QED BY <1>4, <1>5

\* So it gives the number of bytes.
LEMMA SumIsBytes ==
  ASSUME NEW q \in Seq(Frame), NEW I, NEW u, Summed(u, q, I)
  PROVE  Bytes(q, I) = u[Len(q)]
<1> DEFINE v == CHOOSE w : Summed(w, q, I)
<1>1. Summed(v, q, I)
  OBVIOUS
<1>2. v[Len(q)] = u[Len(q)]
  <2> HIDE DEF v
  <2> QED BY <1>1, SumsAgree
<1>3. Bytes(q, I) = v[Len(q)]
  BY DEF Bytes, Summed
<1> QED BY <1>2, <1>3

\* There is one, and its values are natural numbers: a shortest part of the deque that had
\* none would have one frame more than a part that has one.
LEMMA SumExists ==
  ASSUME NEW q \in Seq(Frame), NEW I
  PROVE  \E u \in [0..Len(q) -> Nat] : Summed(u, q, I)
<1> DEFINE Part(u, n) ==
             /\ u \in [0..n -> Nat] /\ u[0] = 0
             /\ \A i \in 1..n : u[i] = u[i - 1] + (IF i \in I THEN q[i].size ELSE 0)
           None == {n \in 0..Len(q) : ~ \E u : Part(u, n)}
<1>1. Len(q) \in Nat /\ None \in SUBSET Nat
  OBVIOUS
<1>2. ASSUME None # {} PROVE FALSE
  <2>1. PICK n \in None : \A m \in None : n <= m
    <3> HIDE DEF None
    <3> QED BY <1>1, <1>2, LeastElement
  <2>2. n \in 0..Len(q) /\ ~ \E u : Part(u, n)
    OBVIOUS
  <2>3. n # 0
    <3>1. Part([i \in 0..0 |-> 0], 0)
      OBVIOUS
    <3> HIDE DEF Part
    <3> QED BY <2>2, <3>1
  <2>4. n \in 1..Len(q) /\ n - 1 \in 0..Len(q) /\ ~(n <= n - 1)
    BY <1>1, <2>2, <2>3
  <2>5. PICK u : Part(u, n - 1)
    <3>1. n - 1 \notin None
      <4> HIDE DEF None
      <4> QED BY <2>1, <2>4
    <3> HIDE DEF Part
    <3> QED BY <2>4, <3>1
  <2> DEFINE d == IF n \in I THEN q[n].size ELSE 0
             v == [i \in 0..n |-> IF i = n THEN u[n - 1] + d ELSE u[i]]
  <2>6. d \in Nat
    <3>1. q[n] \in Frame
      BY <2>4
    <3> QED BY <3>1 DEF Frame
  <2>7. Part(v, n)
    <3>1. \A i \in 0..(n - 1) : u[i] \in Nat
      BY <2>5
    <3>2. n - 1 \in 0..(n - 1) /\ \A i \in 0..n : i # n => i \in 0..(n - 1)
      BY <2>4
    <3>3. v \in [0..n -> Nat]
      <4> HIDE DEF d
      <4> QED BY <2>6, <3>1, <3>2
    <3>4. v[0] = 0
      BY <2>3, <2>4, <2>5
    <3>5. ASSUME NEW i \in 1..n
          PROVE  v[i] = v[i - 1] + (IF i \in I THEN q[i].size ELSE 0)
      <4>1. i \in 0..n /\ i - 1 \in 0..n /\ i - 1 # n /\ v[i - 1] = u[i - 1]
        BY <2>4
      <4>2. CASE i = n
        BY <4>1, <4>2
      <4>3. CASE i # n
        <5>1. i \in 1..(n - 1)
          BY <2>4, <4>3
        <5> QED BY <2>5, <4>1, <4>3, <5>1
      <4> QED BY <4>2, <4>3
    <3> HIDE DEF v
    <3> QED BY <3>3, <3>4, <3>5
  <2> HIDE DEF Part
  <2> QED BY <2>2, <2>7
<1>3. PICK u : Part(u, Len(q))
  <2>1. Len(q) \in 0..Len(q)
    BY <1>1
  <2> HIDE DEF Part
  <2> QED BY <1>2, <2>1
<1>4. u = [n \in 0..Len(q) |-> u[n]]
  BY <1>3
<1> QED BY <1>3, <1>4, SummedSteps

\* Nothing adds up to nothing, a part to no more than the whole.
LEMMA BytesBounds ==
  ASSUME NEW q \in Seq(Frame), NEW I
  PROVE  /\ Bytes(q, I) \in Nat
         /\ I = {} => Bytes(q, I) = 0
         /\ Bytes(q, I) <= Bytes(q, DOMAIN q)
<1>1. PICK u \in [0..Len(q) -> Nat] : Summed(u, q, I)
  BY SumExists
<1>2. PICK v \in [0..Len(q) -> Nat] : Summed(v, q, DOMAIN q)
  BY SumExists
<1>3. Bytes(q, I) = u[Len(q)] /\ Bytes(q, DOMAIN q) = v[Len(q)]
  BY <1>1, <1>2, SumIsBytes
<1>4. Len(q) \in Nat /\ Len(q) \in 0..Len(q) /\ DOMAIN q = 1..Len(q)
  OBVIOUS
<1>5. /\ u[0] = 0 /\ v[0] = 0
      /\ \A n \in 1..Len(q) : u[n] = u[n - 1] + (IF n \in I THEN q[n].size ELSE 0)
      /\ \A n \in 1..Len(q) : v[n] = v[n - 1] + q[n].size
  <2>1. Adds(u, q, I) /\ Adds(v, q, DOMAIN q)
    BY <1>1, <1>2, SumStep
  <2> QED BY <1>4, <2>1, Zenon DEF Adds
<1>6. \A n \in 1..Len(q) : q[n].size \in Nat
  <2>1. \A n \in 1..Len(q) : q[n] \in Frame
    OBVIOUS
  <2> QED BY <2>1 DEF Frame
<1> DEFINE Above == {n \in 0..Len(q) : ~(u[n] <= v[n])}
           Some == {n \in 0..Len(q) : u[n] # 0}
<1>7. ASSUME Above # {} PROVE FALSE
  <2>1. PICK n \in Above : \A m \in Above : n <= m
    <3>1. Above \in SUBSET Nat
      BY <1>4
    <3> HIDE DEF Above
    <3> QED BY <1>7, <3>1, LeastElement
  <2>2. n \in 0..Len(q) /\ n # 0 /\ ~(u[n] <= v[n])
    BY <1>5
  <2>3. n \in 1..Len(q) /\ n - 1 \in 0..Len(q) /\ ~(n <= n - 1)
    BY <1>4, <2>2
  <2>4. u[n - 1] <= v[n - 1]
    BY <2>1, <2>3
  <2>5. u[n] = u[n - 1] + (IF n \in I THEN q[n].size ELSE 0) /\ v[n] = v[n - 1] + q[n].size
    BY <1>5, <2>3
  <2>6. u[n - 1] \in Nat /\ v[n - 1] \in Nat /\ q[n].size \in Nat
    BY <1>6, <2>3
  <2> QED BY <2>2, <2>4, <2>5, <2>6
<1>8. ASSUME I = {}, Some # {} PROVE FALSE
  <2>1. PICK n \in Some : \A m \in Some : n <= m
    <3>1. Some \in SUBSET Nat
      BY <1>4
    <3> HIDE DEF Some
    <3> QED BY <1>8, <3>1, LeastElement
  <2>2. n \in 0..Len(q) /\ n # 0 /\ u[n] # 0
    BY <1>5
  <2>3. n \in 1..Len(q) /\ n - 1 \in 0..Len(q) /\ ~(n <= n - 1)
    BY <1>4, <2>2
  <2>4. u[n - 1] = 0
    BY <2>1, <2>3
  <2>5. u[n] = u[n - 1] + 0
    BY <1>5, <1>8, <2>3
  <2> QED BY <2>2, <2>4, <2>5
<1>9. u[Len(q)] \in Nat /\ v[Len(q)] \in Nat
  BY <1>4
<1> QED BY <1>3, <1>4, <1>7, <1>8, <1>9

\* Taking a frame out takes its bytes out, from the positions behind it on.
LEMMA BytesWithout ==
  ASSUME NEW q \in Seq(Frame), NEW r \in Seq(Frame), NEW k \in 1..Len(q),
         Without(r, q, k), NEW I, NEW J,
         \A i \in 1..Len(r) : i \in J <=> (IF i < k THEN i ELSE i + 1) \in I
  PROVE  Bytes(r, J) = Bytes(q, I) - (IF k \in I THEN q[k].size ELSE 0)
<1> DEFINE d == IF k \in I THEN q[k].size ELSE 0
<1>1. PICK u \in [0..Len(q) -> Nat] : Summed(u, q, I)
  BY SumExists
<1> DEFINE v == [n \in 0..Len(r) |-> IF n < k THEN u[n] ELSE u[n + 1] - d]
<1>2. /\ u[0] = 0
      /\ \A n \in 1..Len(q) : u[n] = u[n - 1] + (IF n \in I THEN q[n].size ELSE 0)
  <2>1. Adds(u, q, I)
    BY <1>1, SumStep
  <2> QED BY <2>1, Zenon DEF Adds
<1>3. /\ Len(q) \in Nat /\ Len(r) = Len(q) - 1 /\ Len(r) \in Nat
      /\ k \in Nat /\ 1 <= k /\ k <= Len(q)
  BY DEF Without
<1>4. \A n \in 1..Len(q) : q[n].size \in Nat
  <2>1. \A n \in 1..Len(q) : q[n] \in Frame
    OBVIOUS
  <2> QED BY <2>1 DEF Frame
<1>5. d \in Nat /\ u[k] = u[k - 1] + d
  BY <1>2, <1>3, <1>4
<1>6. \A n \in 0..Len(q) : u[n] \in Nat
  OBVIOUS
<1>7. v[0] = 0
  BY <1>2, <1>3
<1>8. ASSUME NEW n \in 1..Len(r)
      PROVE  v[n] = v[n - 1] + (IF n \in J THEN r[n].size ELSE 0)
  <2>1. n \in 0..Len(r) /\ n - 1 \in 0..Len(r) /\ n \in 1..(Len(q) - 1)
    BY <1>3
  <2>2. CASE n < k
    <3>1. r[n] = q[n] /\ (n \in J <=> n \in I) /\ n \in 1..Len(q)
      BY <1>3, <2>1, <2>2 DEF Without
    <3>2. v[n] = u[n] /\ v[n - 1] = u[n - 1]
      BY <2>1, <2>2
    <3> QED BY <1>2, <3>1, <3>2, Zenon
  <2>3. CASE ~(n < k)
    <3>1. r[n] = q[n + 1] /\ (n \in J <=> n + 1 \in I) /\ n + 1 \in 1..Len(q)
      BY <1>3, <2>1, <2>3 DEF Without
    <3>2. v[n] = u[n + 1] - d
      BY <2>1, <2>3
    <3>3. v[n - 1] = u[n] - d
      <4>1. CASE n - 1 < k
        <5>1. n = k
          BY <1>3, <2>1, <2>3, <4>1
        <5>2. v[n - 1] = u[k - 1]
          BY <2>1, <4>1, <5>1
        <5>3. u[k - 1] = u[k] - d
          <6>1. u[k - 1] \in Nat /\ u[k] \in Nat
            BY <1>3, <1>6
          <6> HIDE DEF d
          <6> QED BY <1>5, <6>1
        <5> QED BY <5>1, <5>2, <5>3
      <4>2. CASE ~(n - 1 < k)
        <5>1. v[n - 1] = u[(n - 1) + 1] - d
          BY <2>1, <4>2
        <5>2. (n - 1) + 1 = n
          BY <2>1
        <5> QED BY <5>1, <5>2
      <4> QED BY <4>1, <4>2
    <3>4. u[n + 1] = u[n] + (IF n + 1 \in I THEN q[n + 1].size ELSE 0)
      <4>1. (n + 1) - 1 = n
        BY <2>1
      <4> QED BY <1>2, <3>1, <4>1
    <3>5. u[n] \in Nat /\ q[n + 1].size \in Nat
      BY <1>3, <1>4, <1>6, <2>1, <3>1
    <3> HIDE DEF d, v
    <3> QED BY <1>5, <3>1, <3>2, <3>3, <3>4, <3>5
  <2> QED BY <2>2, <2>3
<1>9. v = [n \in 0..Len(r) |-> v[n]]
  OBVIOUS
<1>10. v[Len(r)] = u[Len(q)] - d
  <2>1. Len(r) \in 0..Len(r) /\ Len(r) + 1 = Len(q)
    BY <1>3
  <2>2. CASE Len(r) < k
    <3>1. k = Len(q) /\ Len(r) = k - 1
      BY <1>3, <2>2
    <3>2. v[Len(r)] = u[k - 1]
      BY <2>1, <2>2, <3>1
    <3>3. u[k - 1] = u[k] - d
      <4>1. u[k - 1] \in Nat /\ u[k] \in Nat
        BY <1>3, <1>6
      <4> HIDE DEF d
      <4> QED BY <1>5, <4>1
    <3> QED BY <3>1, <3>2, <3>3
  <2>3. CASE ~(Len(r) < k)
    BY <2>1, <2>3
  <2> QED BY <2>2, <2>3
<1> HIDE DEF v
<1>11. Summed(v, r, J)
  BY <1>7, <1>8, <1>9, SummedSteps
<1> QED BY <1>1, <1>10, <1>11, SumIsBytes

\* Appending a frame adds its bytes.
LEMMA BytesAppend ==
  ASSUME NEW q \in Seq(Frame), NEW f \in Frame, NEW I, NEW J,
         \A i \in 1..Len(q) : i \in J <=> i \in I
  PROVE  Bytes(Append(q, f), J) =
           Bytes(q, I) + (IF Len(q) + 1 \in J THEN f.size ELSE 0)
<1> DEFINE r == Append(q, f)
           d == IF Len(q) + 1 \in J THEN f.size ELSE 0
<1>1. PICK u \in [0..Len(q) -> Nat] : Summed(u, q, I)
  BY SumExists
<1> DEFINE v == [n \in 0..Len(r) |-> IF n <= Len(q) THEN u[n] ELSE u[Len(q)] + d]
<1>2. /\ u[0] = 0
      /\ \A n \in 1..Len(q) : u[n] = u[n - 1] + (IF n \in I THEN q[n].size ELSE 0)
  <2>1. Adds(u, q, I)
    BY <1>1, SumStep
  <2> QED BY <2>1, Zenon DEF Adds
<1>3. /\ r \in Seq(Frame) /\ Len(q) \in Nat /\ Len(r) = Len(q) + 1
      /\ r[Len(q) + 1] = f /\ \A n \in 1..Len(q) : r[n] = q[n]
  OBVIOUS
<1>4. v[0] = 0
  BY <1>2, <1>3
<1>5. v[Len(r)] = u[Len(q)] + d
  BY <1>3
<1>6. ASSUME NEW n \in 1..Len(r)
      PROVE  v[n] = v[n - 1] + (IF n \in J THEN r[n].size ELSE 0)
  <2>1. n \in 0..Len(r) /\ n - 1 \in 0..Len(r) /\ v[n - 1] = u[n - 1]
    BY <1>3
  <2>2. CASE n <= Len(q)
    <3>1. n \in 1..Len(q) /\ v[n] = u[n]
      BY <1>3, <2>1, <2>2
    <3>2. r[n] = q[n] /\ (n \in J <=> n \in I)
      BY <1>3, <3>1
    <3> HIDE DEF r, v
    <3> QED BY <1>2, <2>1, <3>1, <3>2, Zenon
  <2>3. CASE ~(n <= Len(q))
    <3>1. n = Len(r) /\ n = Len(q) + 1 /\ n - 1 = Len(q) /\ r[n] = f
      BY <1>3, <2>3
    <3> HIDE DEF r, v
    <3> QED BY <1>5, <2>1, <3>1
  <2> QED BY <2>2, <2>3
<1>7. v = [n \in 0..Len(r) |-> v[n]]
  OBVIOUS
<1> HIDE DEF v, d
<1>8. Summed(v, r, J)
  <2> HIDE DEF r
  <2> QED BY <1>3, <1>4, <1>6, <1>7, SummedSteps
<1>9. Bytes(r, J) = v[Len(r)] /\ Bytes(q, I) = u[Len(q)]
  BY <1>1, <1>3, <1>8, SumIsBytes
<1> QED BY <1>5, <1>9 DEF d

\* What the removal of a frame does to both sums.
LEMMA SumsAfterRemoval ==
  ASSUME NEW q \in Seq(Frame), NEW r \in Seq(Frame), NEW k \in 1..Len(q),
         Without(r, q, k)
  PROVE  /\ Bytes(r, DOMAIN r) = Bytes(q, DOMAIN q) - q[k].size
         /\ Bytes(r, Indices(r, FALSE)) <= Bytes(q, Indices(q, FALSE))
<1>1. /\ DOMAIN q = 1..Len(q) /\ DOMAIN r = 1..Len(r) /\ Len(q) \in Nat
      /\ Len(r) = Len(q) - 1 /\ k \in Nat /\ 1 <= k /\ k <= Len(q)
  BY DEF Without
<1>2. q[k].size \in Nat
  <2>1. q[k] \in Frame
    OBVIOUS
  <2> QED BY <2>1 DEF Frame
<1>3. Bytes(r, DOMAIN r) = Bytes(q, DOMAIN q) - q[k].size
  <2>1. \A i \in 1..Len(r) :
          i \in DOMAIN r <=> (IF i < k THEN i ELSE i + 1) \in DOMAIN q
    BY <1>1
  <2>2. Bytes(r, DOMAIN r) =
          Bytes(q, DOMAIN q) - (IF k \in DOMAIN q THEN q[k].size ELSE 0)
    BY <2>1, BytesWithout
  <2> QED BY <1>1, <2>2
<1>4. Bytes(r, Indices(r, FALSE)) <= Bytes(q, Indices(q, FALSE))
  <2>1. ASSUME NEW i \in 1..Len(r)
        PROVE  i \in Indices(r, FALSE) <=>
                 (IF i < k THEN i ELSE i + 1) \in Indices(q, FALSE)
    <3>1. i \in 1..(Len(q) - 1) /\ r[i] = IF i < k THEN q[i] ELSE q[i + 1]
      BY <1>1 DEF Without
    <3>2. i \in DOMAIN r /\ (IF i < k THEN i ELSE i + 1) \in DOMAIN q
      BY <1>1, <3>1
    <3> QED BY <3>1, <3>2 DEF Indices
  <2> DEFINE J == Indices(r, FALSE)
             I == Indices(q, FALSE)
  <2>2. \A i \in 1..Len(r) : i \in J <=> (IF i < k THEN i ELSE i + 1) \in I
    BY <2>1
  <2> HIDE DEF I, J
  <2>3. Bytes(r, J) = Bytes(q, I) - (IF k \in I THEN q[k].size ELSE 0)
    BY <2>2, BytesWithout
  <2>4. Bytes(q, I) \in Nat
    BY BytesBounds
  <2>5. Bytes(r, J) <= Bytes(q, I)
    BY <1>2, <2>3, <2>4
  <2> QED BY <2>5 DEF I, J
<1> QED BY <1>3, <1>4

\* What appending does to them.
LEMMA SumsAfterAppend ==
  ASSUME NEW q \in Seq(Frame), NEW f \in Frame
  PROVE  LET r == Append(q, f)
         IN  /\ Bytes(r, DOMAIN r) = Bytes(q, DOMAIN q) + f.size
             /\ Bytes(r, Indices(r, FALSE)) =
                  Bytes(q, Indices(q, FALSE)) + (IF f.isText = FALSE THEN f.size ELSE 0)
<1> DEFINE r == Append(q, f)
           J == Indices(r, FALSE)
           I == Indices(q, FALSE)
<1>1. /\ DOMAIN q = 1..Len(q) /\ Len(q) \in Nat
      /\ DOMAIN r = 1..(Len(q) + 1) /\ r[Len(q) + 1] = f
      /\ \A i \in 1..Len(q) : r[i] = q[i]
  OBVIOUS
<1>2. Bytes(r, DOMAIN r) = Bytes(q, DOMAIN q) + f.size
  <2>1. /\ \A i \in 1..Len(q) : i \in DOMAIN r <=> i \in DOMAIN q
        /\ Len(q) + 1 \in DOMAIN r
    BY <1>1
  <2> DEFINE D == DOMAIN r
             E == DOMAIN q
  <2> HIDE DEF D, E
  <2>2. \A i \in 1..Len(q) : i \in D <=> i \in E
    BY <2>1 DEF D, E
  <2>3. Bytes(Append(q, f), D) =
          Bytes(q, E) + (IF Len(q) + 1 \in D THEN f.size ELSE 0)
    BY <2>2, BytesAppend
  <2> QED BY <2>1, <2>3 DEF D, E
<1>3. Bytes(r, J) = Bytes(q, I) + (IF f.isText = FALSE THEN f.size ELSE 0)
  <2>1. /\ \A i \in 1..Len(q) : i \in J <=> i \in I
        /\ Len(q) + 1 \in J <=> f.isText = FALSE
    <3>1. /\ Len(q) + 1 \in DOMAIN r
          /\ \A i \in 1..Len(q) : i \in DOMAIN r /\ i \in DOMAIN q
      BY <1>1
    <3> HIDE DEF r
    <3> QED BY <1>1, <3>1 DEF Indices
  <2> HIDE DEF I, J
  <2>2. Bytes(r, J) = Bytes(q, I) + (IF Len(q) + 1 \in J THEN f.size ELSE 0)
    BY <2>1, BytesAppend
  <2> QED BY <2>1, <2>2
<1> QED BY <1>2, <1>3

\* The byte counter follows a frame that leaves the deque.
LEMMA BytesAfterRemoval ==
  ASSUME BytesCounted, m_wq.q \in Seq(Frame), m_wq'.q \in Seq(Frame),
         NEW k \in 1..Len(m_wq.q), Without(m_wq'.q, m_wq.q, k),
         m_wq'.queuedBytes = m_wq.queuedBytes - m_wq.q[k].size
  PROVE  BytesCounted'
<1> DEFINE a == Bytes(m_wq.q, Indices(m_wq.q, FALSE))
           b == Bytes(m_wq'.q, Indices(m_wq'.q, FALSE))
<1>1. /\ Bytes(m_wq'.q, DOMAIN m_wq'.q) = Bytes(m_wq.q, DOMAIN m_wq.q) - m_wq.q[k].size
      /\ b <= a
  BY SumsAfterRemoval
<1>2. a \in Nat /\ b \in Nat
  BY BytesBounds
<1>3. /\ m_wq.queuedBytes = Bytes(m_wq.q, DOMAIN m_wq.q)
      /\ a <= MaxQueuedBytes /\ MaxQueuedBytes \in Nat
  BY ConfigAssumption DEF BytesCounted
<1>4. m_wq'.queuedBytes = Bytes(m_wq'.q, DOMAIN m_wq'.q)
  BY <1>1, <1>3
<1>5. b <= MaxQueuedBytes
  <2> HIDE DEF a, b
  <2> QED BY <1>1, <1>2, <1>3
<1> QED BY <1>4, <1>5 DEF BytesCounted

\* The frame for which there is room does not exceed the byte limit: either
\* the whole deque leaves that room, or there is no other audio frame.
LEMMA BytesAfterAppend ==
  ASSUME m_wq \in QueueFields, FramesCounted, BytesCounted,
         NEW f \in Payload, ~NoRoom(m_wq, f), ~Oversized(f),
         m_wq' = PushBack(m_wq, f)
  PROVE  BytesCounted'
<1> DEFINE q == m_wq.q
           all == Bytes(q, DOMAIN q)
           audio == Bytes(q, Indices(q, FALSE))
<1>1. PICK new \in Frame :
        /\ new.isText = f.isText /\ new.size = f.size
        /\ m_wq'.q = Append(q, new)
        /\ m_wq'.queuedBytes = m_wq.queuedBytes + f.size
  <2> DEFINE n == [id |-> m_wq.enqueued + 1, isText |-> f.isText, size |-> f.size]
  <2>1. n.isText = f.isText /\ n.size = f.size
    OBVIOUS
  <2> QED BY <2>1, PushBackFields
<1>2. /\ q \in Seq(Frame) /\ Len(q) \in Nat /\ DOMAIN q = 1..Len(q)
      /\ f.size \in Nat /\ m_wq.binaryCount \in Int
  BY DEF QueueFields, Payload
<1>3. /\ all \in Nat /\ audio \in Nat /\ audio <= all
      /\ m_wq.queuedBytes = all /\ audio <= MaxQueuedBytes
      /\ MaxQueuedBytes \in Nat
  BY <1>2, BytesBounds, ConfigAssumption DEF BytesCounted
<1> DEFINE r == Append(q, new)
<1>4. /\ Bytes(r, DOMAIN r) = all + f.size
      /\ Bytes(r, Indices(r, FALSE)) = audio + (IF f.isText = FALSE THEN f.size ELSE 0)
  BY <1>1, <1>2, SumsAfterAppend
<1>5. ASSUME f.isText = FALSE PROVE audio + f.size <= MaxQueuedBytes
  <2>1. \/ m_wq.queuedBytes + f.size <= MaxQueuedBytes
        \/ ~(m_wq.binaryCount > 0)
    <3>1. \/ ~(m_wq.queuedBytes + f.size > MaxQueuedBytes)
          \/ ~(m_wq.binaryCount > 0)
      BY <1>5 DEF NoRoom, NoRoomForBinary
    <3> HIDE DEF all, audio
    <3> QED BY <1>2, <1>3, <3>1
  <2>2. CASE m_wq.queuedBytes + f.size <= MaxQueuedBytes
    <3> HIDE DEF all, audio
    <3> QED BY <1>2, <1>3, <2>2
  <2>3. CASE ~(m_wq.binaryCount > 0)
    <3> DEFINE n == Cardinality(Indices(q, FALSE))
    <3>1. /\ IsFiniteSet(Indices(q, FALSE))
          /\ m_wq.binaryCount = n /\ n \in Nat
      BY <1>2, IndicesFinite DEF FramesCounted
    <3>2. n = 0
      <4> HIDE DEF n
      <4> QED BY <2>3, <3>1
    <3>3. Indices(q, FALSE) = {}
      BY <3>1, <3>2, FS_EmptySet
    <3>4. audio = 0
      BY <1>2, <3>3, BytesBounds
    <3>5. ~(f.size > MaxQueuedBytes)
      BY <1>5 DEF Oversized
    <3>6. audio + f.size = f.size /\ f.size <= MaxQueuedBytes
      <4> HIDE DEF audio
      <4> QED BY <1>2, <1>3, <3>4, <3>5
    <3> QED BY <3>6
  <2> QED BY <2>1, <2>2, <2>3
<1>6. m_wq'.queuedBytes = Bytes(r, DOMAIN r)
  BY <1>1, <1>3, <1>4
<1>7. Bytes(r, Indices(r, FALSE)) <= MaxQueuedBytes
  <2> DEFINE x == Bytes(r, Indices(r, FALSE))
  <2>1. x = audio + (IF f.isText = FALSE THEN f.size ELSE 0)
    BY <1>4
  <2> HIDE DEF x, audio
  <2>2. CASE f.isText = FALSE
    BY <1>5, <2>1, <2>2, Zenon DEF x
  <2>3. CASE ~(f.isText = FALSE)
    <3>1. x = audio + 0
      BY <2>1, <2>3, Zenon
    <3>2. x <= MaxQueuedBytes
      BY <1>3, <3>1
    <3> QED BY <3>2 DEF x
  <2> QED BY <2>2, <2>3
<1> QED BY <1>1, <1>6, <1>7 DEF BytesCounted

\* A frame that a thread enqueues under L3 has passed the test of its size.
Checked == \A t \in Threads : pc[t] = "locked" => ~Oversized(arg[t])

SInv == BytesCounted /\ Checked

\* A new queue holds no bytes.
LEMMA SInvInit == Init => SInv
<1> SUFFICES ASSUME Init PROVE SInv
  OBVIOUS
<1>1. /\ m_wq.q = <<>> /\ m_wq.queuedBytes = 0
      /\ \A t \in Threads : pc[t] = "idle"
  BY DEF Init
<1>2. /\ <<>> \in Seq(Frame) /\ DOMAIN <<>> = {}
      /\ Indices(<<>>, FALSE) = {}
  BY DEF Indices
<1>3. Bytes(<<>>, {}) = 0
  BY <1>2, BytesBounds
<1>4. BytesCounted
  <2>1. /\ m_wq.queuedBytes = Bytes(m_wq.q, DOMAIN m_wq.q)
        /\ Bytes(m_wq.q, Indices(m_wq.q, FALSE)) = 0
    BY <1>1, <1>2, <1>3
  <2>2. 0 <= MaxQueuedBytes
    BY ConfigAssumption
  <2> QED BY <2>1, <2>2, Zenon DEF BytesCounted
<1>5. Checked
  BY <1>1 DEF Checked
<1> QED BY <1>4, <1>5 DEF SInv

\* Popping the front frame keeps the sum.
LEMMA BytesTake ==
  ASSUME TypeOK, BytesCounted, NEW n \in {0, 1}, TakeAndWrite(n)
  PROVE  BytesCounted'
<1>1. m_wq \in QueueFields /\ m_wq' = TakeNextLocked(m_wq)
  BY DEF TypeOK, TakeAndWrite
<1>2. CASE m_wq.q = <<>>
  <2>1. m_wq'.q = m_wq.q /\ m_wq'.queuedBytes = m_wq.queuedBytes
    BY <1>1, <1>2, TakeNextEmpty
  <2> QED BY <2>1 DEF BytesCounted
<1>3. CASE m_wq.q # <<>>
  <2>1. /\ Len(m_wq.q) \in Nat \ {0} /\ m_wq'.q = Tail(m_wq.q)
        /\ m_wq'.queuedBytes = m_wq.queuedBytes - m_wq.q[1].size
    BY <1>1, <1>3, TakeNextFrame
  <2>2. m_wq.q \in Seq(Frame)
    BY <1>1 DEF QueueFields
  <2>3. /\ m_wq'.q \in Seq(Frame) /\ 1 \in 1..Len(m_wq.q)
        /\ Without(m_wq'.q, m_wq.q, 1)
    BY <1>3, <2>1, <2>2 DEF Without
  <2> QED BY <2>1, <2>2, <2>3, BytesAfterRemoval
<1> QED BY <1>2, <1>3

\* Every step keeps the sum.
LEMMA SInvNext == CInv /\ SInv /\ [Next]_vars => SInv'
<1> SUFFICES ASSUME CInv, SInv, [Next]_vars PROVE SInv'
  OBVIOUS
<1>0. TypeOK /\ FramesCounted /\ BytesCounted /\ Checked
  BY DEF CInv, SInv
<1>1. ASSUME NEW t \in Threads, Send(t) PROVE SInv'
  <2>1. PICK f \in Offers(t) : arg' = [arg EXCEPT ![t] = f]
    BY <1>1 DEF Send
  <2>2. Checked'
    BY <1>0, <1>1, <2>1 DEF Send, TypeOK, Checked, Oversized
  <2>3. BytesCounted'
    BY <1>0, <1>1 DEF Send, BytesCounted
  <2> QED BY <2>2, <2>3 DEF SInv
<1>2. ASSUME NEW t \in Threads, Lock(t) PROVE SInv'
  <2>1. Checked'
    BY <1>0, <1>2 DEF Lock, TypeOK, Checked, Oversized
  <2>2. BytesCounted'
    BY <1>0, <1>2 DEF Lock, BytesCounted
  <2> QED BY <2>1, <2>2 DEF SInv
<1>3. ASSUME NEW t \in Threads, RejectOversized(t) PROVE SInv'
  <2>1. Checked'
    BY <1>0, <1>3 DEF RejectOversized, TypeOK, Checked, Oversized
  <2>2. m_wq'.q = m_wq.q /\ m_wq'.queuedBytes = m_wq.queuedBytes
    BY <1>0, <1>3 DEF RejectOversized, TypeOK, QueueFields
  <2>3. BytesCounted'
    BY <1>0, <2>2 DEF BytesCounted
  <2> QED BY <2>1, <2>3 DEF SInv
<1>4. ASSUME NEW t \in Threads, EvictOne(t) PROVE SInv'
  <2>1. Checked'
    BY <1>0, <1>4 DEF EvictOne, Checked, Oversized
  <2>2. m_wq \in QueueFields /\ arg[t] \in Payload /\ m_wq' = Evict(m_wq, arg[t])
    BY <1>0, <1>4 DEF EvictOne, TypeOK
  <2>3. m_wq.q \in Seq(Frame)
    BY <2>2 DEF QueueFields
  <2>4. CASE m_wq' = m_wq
    BY <1>0, <2>1, <2>4 DEF BytesCounted, SInv
  <2>5. ASSUME NEW k \in 1..Len(m_wq.q), m_wq'.q = RemoveAt(m_wq.q, k),
               m_wq'.queuedBytes = m_wq.queuedBytes - m_wq.q[k].size
        PROVE  SInv'
    <3>1. m_wq'.q \in Seq(Frame) /\ Without(m_wq'.q, m_wq.q, k)
      BY <2>3, <2>5, RemoveAtFrames DEF Without
    <3> QED BY <1>0, <2>1, <2>3, <2>5, <3>1, BytesAfterRemoval DEF SInv
  <2> QED BY <2>2, <2>4, <2>5, EvictFields
<1>5. ASSUME NEW t \in Threads, Enqueue(t) PROVE SInv'
  <2>1. Checked'
    BY <1>0, <1>5 DEF Enqueue, TypeOK, Checked, Oversized
  <2>2. /\ m_wq \in QueueFields /\ arg[t] \in Payload
        /\ m_wq' = PushBack(m_wq, arg[t]) /\ ~NoRoom(m_wq, arg[t])
        /\ ~Oversized(arg[t])
    BY <1>0, <1>5 DEF Enqueue, TypeOK, Checked
  <2> QED BY <1>0, <2>1, <2>2, BytesAfterAppend DEF SInv
<1>6. ASSUME UNCHANGED <<m_wq, arg>>,
             \A t \in Threads : pc'[t] = "locked" => pc[t] = "locked"
      PROVE  SInv'
  BY <1>0, <1>6 DEF SInv, BytesCounted, Checked, Oversized
<1>7. ASSUME NEW n \in {0, 1}, TakeAndWrite(n), arg' = arg,
             \A t \in Threads : pc'[t] = "locked" => pc[t] = "locked"
      PROVE  SInv'
  <2>1. Checked'
    BY <1>0, <1>7 DEF Checked, Oversized
  <2> QED BY <1>0, <1>7, <2>1, BytesTake DEF SInv
<1>8. CASE DispatchDoWrite
  BY <1>0, <1>6, <1>8 DEF DispatchDoWrite, TypeOK
<1>9. CASE DoWrite
  BY <1>6, <1>7, <1>9 DEF DoWrite, DoWriteBody
<1>10. CASE DoWriteInline
  <2>1. \A t \in Threads : pc'[t] = "locked" => pc[t] = "locked"
    BY <1>0, <1>10 DEF DoWriteInline, TypeOK
  <2> QED BY <1>6, <1>7, <1>10, <2>1 DEF DoWriteInline, DoWriteBody
<1>11. CASE OnWrite
  BY <1>7, <1>11 DEF OnWrite
<1>12. CASE OnWriteError \/ OnWriteClosed \/ ForceClose \/ UNCHANGED vars
  BY <1>6, <1>12 DEF OnWriteError, OnWriteClosed, ForceClose, vars
<1> QED
  BY <1>1, <1>2, <1>3, <1>4, <1>5, <1>8, <1>9, <1>10, <1>11, <1>12
     DEF Next, Step

\* The byte counter is the sum over the deque, for all sizes of frames, and
\* the queued audio stays within the byte limit, also when one frame alone is
\* as large as the limit (write_queue.h:64 and 348).
THEOREM BytesCorrect == Spec => []BytesCounted
<1>1. SInv => BytesCounted
  BY DEF SInv
<1> QED BY CInvInit, CInvNext, SInvInit, SInvNext, <1>1, PTL DEF Spec

-----------------------------------------------------------------------------
(* The queue implements LossyFifo.                                         *)

\* Who holds L3 is in the critical section, with a frame it was given.
Holder ==
  /\ mutex # "free" => pc[mutex] = "locked"
  /\ \A t \in Threads : pc[t] \in {"lock", "locked"} => arg[t] \in Offers(t)

RInv == TypeOK /\ Exclusion /\ Holder

\* Nobody holds L3 at first.
LEMMA RInvInit == Init => RInv
BY InvInit DEF Init, IInv, RInv, Holder

\* Every step keeps who holds L3.
LEMMA RInvNext == RInv /\ IInv /\ [Next]_vars => RInv'
<1> SUFFICES ASSUME RInv, IInv, [Next]_vars PROVE Holder'
  BY InvNext DEF IInv, RInv
<1>0. TypeOK /\ TypeOK' /\ Exclusion /\ Holder
  BY TypeNext DEF RInv
<1> USE DEF Holder, Exclusion
<1>1. ASSUME NEW t \in Threads, Send(t) PROVE Holder'
  <2>1. PICK f \in Offers(t) : arg' = [arg EXCEPT ![t] = f]
    BY <1>1 DEF Send
  <2> QED BY <1>0, <1>1, <2>1 DEF Send, TypeOK
<1>2. ASSUME NEW t \in Threads, Lock(t) PROVE Holder'
  BY <1>0, <1>2 DEF Lock, TypeOK
<1>3. ASSUME NEW t \in Threads, RejectOversized(t) PROVE Holder'
  BY <1>0, <1>3 DEF RejectOversized, TypeOK
<1>4. ASSUME NEW t \in Threads, EvictOne(t) PROVE Holder'
  BY <1>0, <1>4 DEF EvictOne
<1>5. ASSUME NEW t \in Threads, Enqueue(t) PROVE Holder'
  BY <1>0, <1>5 DEF Enqueue, TypeOK
<1>6. CASE DispatchDoWrite
  BY <1>0, <1>6 DEF DispatchDoWrite, TypeOK, Threads
<1>7. CASE DoWriteInline
  BY <1>0, <1>7 DEF DoWriteInline, TypeOK, Threads
<1>8. CASE DoWrite \/ OnWrite \/ OnWriteError \/ OnWriteClosed \/ ForceClose
           \/ UNCHANGED vars
  BY <1>0, <1>8 DEF DoWrite, OnWrite, OnWriteError, OnWriteClosed, ForceClose, vars
<1> QED
  BY <1>1, <1>2, <1>3, <1>4, <1>5, <1>6, <1>7, <1>8 DEF Next, Step

\* The instance's names for what both modules take from the libraries.
LEMMA FifoNames ==
  /\ \A S : Fifo!Cardinality(S) = Cardinality(S)
  /\ \A q, k : Fifo!RemoveAt(q, k) = RemoveAt(q, k)
  /\ \A b : Fifo!OfKind(b) = Indices(m_wq.q, b)
BY DEF Fifo!Cardinality, Cardinality, Fifo!RemoveAt, RemoveAt, Fifo!OfKind, Indices

Offered == IF mutex = "free" THEN {} ELSE {arg[mutex]}

\* A new queue is a new FIFO.
LEMMA FifoInit == Init => Fifo!Init
BY DEF Init, Fifo!Init

\* Nothing of the FIFO moves.
LEMMA FifoStutter ==
  UNCHANGED <<m_wq, wire>> /\ Offered' = Offered => UNCHANGED Fifo!vars
BY DEF Fifo!vars, Offered

\* Popping the front frame into async_write, or finding no frame.
LEMMA FifoTake ==
  ASSUME TypeOK, NEW n, TakeAndWrite(n), mutex' = mutex
  PROVE  Fifo!Leave \/ UNCHANGED Fifo!vars
<1>1. m_wq \in QueueFields /\ m_wq' = TakeNextLocked(m_wq) /\ mutex = "free"
  BY DEF TypeOK, TakeAndWrite
<1>2. Offered = {} /\ Offered' = {}
  BY <1>1 DEF Offered
<1>3. CASE m_wq.q = <<>>
  <2>1. /\ m_wq'.q = m_wq.q /\ m_wq'.enqueued = m_wq.enqueued
        /\ m_wq'.queuedBytes = m_wq.queuedBytes
        /\ m_wq'.droppedTotal = m_wq.droppedTotal /\ wire' = wire
    BY <1>1, <1>3, TakeNextEmpty DEF TakeAndWrite
  <2> QED BY <1>2, <2>1 DEF Fifo!vars, Offered
<1>4. CASE m_wq.q # <<>>
  <2>1. /\ m_wq'.q = Tail(m_wq.q) /\ m_wq'.enqueued = m_wq.enqueued
        /\ m_wq'.queuedBytes = m_wq.queuedBytes - Head(m_wq.q).size
        /\ m_wq'.droppedTotal = m_wq.droppedTotal
    BY <1>1, <1>4, TakeNextFrame
  <2>2. wire' = Append(wire, Head(m_wq.q).id)
    BY <1>4 DEF TakeAndWrite
  <2> QED BY <1>2, <1>4, <2>1, <2>2 DEF Fifo!Leave, Offered
<1> QED BY <1>3, <1>4

\* One turn of the eviction loop discards the oldest frame of the kind, for
\* which there is indeed no room.
LEMMA FifoEvict ==
  ASSUME RInv, FramesCounted, NEW t \in Threads, EvictOne(t)
  PROVE  Fifo!Discard \/ UNCHANGED Fifo!vars
<1> DEFINE f == arg[t]
<1>1. /\ m_wq \in QueueFields /\ m_wq' = Evict(m_wq, f) /\ f \in Payload
      /\ f \in Offers(t) /\ mutex = t /\ pc[t] = "locked"
      /\ NoRoom(m_wq, f) /\ mutex' = mutex /\ arg' = arg /\ wire' = wire
  BY DEF RInv, TypeOK, Exclusion, Holder, EvictOne
<1>2. Offered = {f} /\ Offered' = {f}
  BY <1>1 DEF Offered, Threads
<1>3. f.isText = TRUE \/ f.isText = FALSE
  BY <1>1 DEF Payload
<1>4. Fifo!Full(f)
  <2>1. CASE f.isText = TRUE
    <3>1. m_wq.textCount >= MaxTextFrames
      BY <1>1, <2>1 DEF NoRoom, NoRoomForText
    <3>2. Cardinality(Indices(m_wq.q, TRUE)) >= MaxTextFrames
      BY <3>1 DEF FramesCounted
    <3> QED BY <2>1, <3>2, FifoNames DEF Fifo!Full
  <2>2. CASE f.isText = FALSE
    <3>1. \/ m_wq.binaryCount >= MaxBinaryFrames
          \/ m_wq.queuedBytes + f.size > MaxQueuedBytes
      BY <1>1, <2>2 DEF NoRoom, NoRoomForBinary
    <3>2. \/ Cardinality(Indices(m_wq.q, FALSE)) >= MaxBinaryFrames
          \/ m_wq.queuedBytes + f.size > MaxQueuedBytes
      BY <3>1 DEF FramesCounted
    <3> QED BY <2>2, <3>2, FifoNames DEF Fifo!Full
  <2> QED BY <1>3, <2>1, <2>2
<1>5. CASE m_wq' = m_wq
  BY <1>1, <1>2, <1>5, FifoStutter
<1>6. ASSUME NEW k \in 1..Len(m_wq.q),
             m_wq.q[k].isText = f.isText,
             \A j \in 1..Len(m_wq.q) : m_wq.q[j].isText = f.isText => k <= j,
             m_wq'.q = RemoveAt(m_wq.q, k),
             m_wq'.queuedBytes = m_wq.queuedBytes - m_wq.q[k].size,
             m_wq'.droppedTotal = m_wq.droppedTotal + 1
      PROVE  Fifo!Discard
  <2>1. DOMAIN m_wq.q = 1..Len(m_wq.q)
    BY <1>1 DEF QueueFields
  <2>2. m_wq'.enqueued = m_wq.enqueued
    BY <1>1, EvictFields
  <2>3. k \in Indices(m_wq.q, f.isText)
    BY <1>6, <2>1 DEF Indices
  <2>4. \A j \in Indices(m_wq.q, f.isText) : k <= j
    BY <1>6, <2>1 DEF Indices
  <2> QED BY <1>1, <1>2, <1>4, <1>6, <2>1, <2>2, <2>3, <2>4, FifoNames, Zenon
          DEF Fifo!Discard, Offered
<1> QED BY <1>1, <1>5, <1>6, EvictFields

\* The end of EnqueueLocked accepts the frame.
LEMMA FifoEnqueue ==
  ASSUME RInv, FramesCounted, NEW t \in Threads, Enqueue(t)
  PROVE  Fifo!Accept
<1> DEFINE f == arg[t]
           new == [id |-> m_wq.enqueued + 1, isText |-> f.isText, size |-> f.size]
<1>1. /\ m_wq \in QueueFields /\ m_wq' = PushBack(m_wq, f) /\ f \in Payload
      /\ f \in Offers(t) /\ mutex = t /\ mutex # "free" /\ mutex' = "free"
      /\ ~NoRoom(m_wq, f) /\ wire' = wire
  BY DEF RInv, TypeOK, Exclusion, Holder, Enqueue, Threads
<1>2. Offered = {f} /\ Offered' = {}
  BY <1>1 DEF Offered
<1>3. f.isText = TRUE \/ f.isText = FALSE
  BY <1>1 DEF Payload
<1>4. /\ m_wq.textCount \in Int /\ m_wq.binaryCount \in Int
      /\ m_wq.queuedBytes \in Int /\ f.size \in Nat
      /\ MaxTextFrames \in Nat \ {0} /\ MaxBinaryFrames \in Nat \ {0}
      /\ MaxQueuedBytes \in Nat
  BY <1>1, ConfigAssumption DEF QueueFields, Payload
<1>5. Fifo!Full(f) => Fifo!OfKind(f.isText) = {}
  <2>1. CASE f.isText = TRUE
    <3>1. ~(m_wq.textCount >= MaxTextFrames)
      BY <1>1, <2>1 DEF NoRoom, NoRoomForText
    <3>2. ~(Cardinality(Indices(m_wq.q, TRUE)) >= MaxTextFrames)
      BY <3>1 DEF FramesCounted
    <3> QED BY <2>1, <3>2, FifoNames DEF Fifo!Full
  <2>2. CASE f.isText = FALSE
    <3> DEFINE kept == Cardinality(Indices(m_wq.q, FALSE))
    <3>1. \/ ~(\/ m_wq.binaryCount >= MaxBinaryFrames
             \/ m_wq.queuedBytes + f.size > MaxQueuedBytes)
          \/ ~(m_wq.binaryCount > 0)
      BY <1>1, <2>2 DEF NoRoom, NoRoomForBinary
    <3>2. m_wq.binaryCount = kept
      BY DEF FramesCounted
    <3>3. IsFiniteSet(Indices(m_wq.q, FALSE)) /\ kept \in Nat
      BY <1>1, IndicesFinite, FS_CardinalityType DEF QueueFields
    <3>4. CASE kept = 0
      <4>1. Indices(m_wq.q, FALSE) = {}
        BY <3>3, <3>4, FS_EmptySet
      <4> QED BY <2>2, <4>1, FifoNames
    <3>5. CASE kept # 0
      <4>1. m_wq.binaryCount > 0
        <5> HIDE DEF kept
        <5> QED BY <3>2, <3>3, <3>5
      <4>2. ~(kept >= MaxBinaryFrames) /\ ~(m_wq.queuedBytes + f.size > MaxQueuedBytes)
        BY <3>1, <3>2, <4>1
      <4>3. ~Fifo!Full(f)
        BY <2>2, <4>2, FifoNames DEF Fifo!Full
      <4> QED BY <4>3
    <3> QED BY <3>4, <3>5
  <2> QED BY <1>3, <2>1, <2>2
<1>6. /\ m_wq'.q = Append(m_wq.q, new) /\ m_wq'.enqueued = m_wq.enqueued + 1
      /\ m_wq'.queuedBytes = m_wq.queuedBytes + f.size
      /\ m_wq'.droppedTotal = m_wq.droppedTotal
  BY <1>1, PushBackFields
<1> QED BY <1>1, <1>2, <1>5, <1>6, Zenon DEF Fifo!Accept, Offered

\* Every step of the queue is a step of the FIFO, or no step.
LEMMA FifoNext ==
  RInv /\ FramesCounted /\ [Next]_vars => [Fifo!Next]_Fifo!vars
<1> SUFFICES ASSUME RInv, FramesCounted, [Next]_vars
             PROVE  Fifo!Next \/ UNCHANGED Fifo!vars
  OBVIOUS
<1>0. TypeOK /\ Exclusion /\ Holder
  BY DEF RInv
<1>1. ASSUME NEW t \in Threads, Send(t) PROVE UNCHANGED Fifo!vars
  <2>1. PICK f \in Offers(t) : arg' = [arg EXCEPT ![t] = f]
    BY <1>1 DEF Send
  <2>2. mutex # t /\ mutex' = mutex /\ UNCHANGED <<m_wq, wire>>
    BY <1>0, <1>1 DEF Send, Holder, Threads
  <2>3. mutex # "free" => arg'[mutex] = arg[mutex]
    BY <1>0, <2>1, <2>2 DEF TypeOK
  <2> QED BY <2>2, <2>3, FifoStutter DEF Offered
<1>2. ASSUME NEW t \in Threads, Lock(t) PROVE Fifo!Offer
  <2> DEFINE f == arg[t]
  <2>1. /\ mutex = "free" /\ mutex' = t /\ arg' = arg /\ UNCHANGED <<m_wq, wire>>
        /\ t # "free" /\ f \in Offers(t) /\ f \in Payload /\ ~Oversized(f)
    BY <1>0, <1>2 DEF Lock, Threads, TypeOK, Holder
  <2>2. Offered = {} /\ Offered' = {f}
    BY <2>1 DEF Offered
  <2>3. f \in [isText : {TRUE}, size : TextSizes]
              \cup [isText : {FALSE}, size : BinarySizes]
    BY <2>1 DEF Offers
  <2>4. f.isText \/ f.size <= MaxQueuedBytes
    BY <2>1, ConfigAssumption DEF Oversized, Payload
  <2> QED BY <2>1, <2>2, <2>3, <2>4, Zenon DEF Fifo!Offer, Offered
<1>3. ASSUME NEW t \in Threads, RejectOversized(t) PROVE Fifo!Refuse
  <2> DEFINE d == m_wq.droppedTotal + 1
  <2>1. /\ m_wq \in QueueFields /\ m_wq' = [m_wq EXCEPT !.droppedTotal = d]
        /\ mutex' = mutex /\ wire' = wire /\ mutex = "free"
    BY <1>0, <1>3 DEF RejectOversized, TypeOK
  <2>2. arg[t].size \in BinarySizes /\ arg[t].size > MaxQueuedBytes
    BY <1>0, <1>3 DEF RejectOversized, Oversized, Holder, Offers
  <2> HIDE DEF d
  <2>3. /\ m_wq'.q = m_wq.q /\ m_wq'.queuedBytes = m_wq.queuedBytes
        /\ m_wq'.enqueued = m_wq.enqueued /\ m_wq'.droppedTotal = d
    BY <2>1 DEF QueueFields
  <2>4. Offered = {} /\ Offered' = {}
    BY <2>1 DEF Offered
  <2> QED BY <2>1, <2>2, <2>3, <2>4 DEF Fifo!Refuse, Offered, d
<1>4. ASSUME NEW t \in Threads, EvictOne(t)
      PROVE  Fifo!Discard \/ UNCHANGED Fifo!vars
  BY <1>4, FifoEvict
<1>5. ASSUME NEW t \in Threads, Enqueue(t) PROVE Fifo!Accept
  BY <1>5, FifoEnqueue
<1>6. CASE DispatchDoWrite
  BY <1>6, FifoStutter DEF DispatchDoWrite, Offered
<1>7. CASE DoWriteInline \/ DoWrite
  <2>0. mutex' = mutex /\ arg' = arg /\ DoWriteBody
    BY <1>7 DEF DoWriteInline, DoWrite
  <2>1. CASE m_closed
    BY <2>0, <2>1, FifoStutter DEF DoWriteBody, Offered
  <2>2. CASE ~m_closed
    BY <1>0, <2>0, <2>2, FifoTake DEF DoWriteBody, Fifo!Next
  <2> QED BY <2>1, <2>2
<1>8. CASE OnWrite
  BY <1>0, <1>8, FifoTake DEF OnWrite, Fifo!Next
<1>9. CASE OnWriteError \/ OnWriteClosed \/ ForceClose \/ UNCHANGED vars
  BY <1>9, FifoStutter DEF OnWriteError, OnWriteClosed, ForceClose, vars, Offered
<1> QED
  BY <1>1, <1>2, <1>3, <1>4, <1>5, <1>6, <1>7, <1>8, <1>9
     DEF Next, Step, Fifo!Next

\* The queue, with its eviction loops, its two threads and its token, keeps
\* the promise of LossyFifo: frames reach async_write in the order in which
\* they were accepted, each once, and only the oldest frame of a kind gives
\* way, to a frame of that kind which needs its room (write_queue.h:105 and 117).
THEOREM Refinement == Spec => ImplementsLossyFifo
<1>1. CInv => FramesCounted
  BY DEF CInv
<1> QED
  BY InvInit, InvNext, CInvInit, CInvNext, RInvInit, RInvNext, FifoInit,
     FifoNext, <1>1, PTL DEF Spec, ImplementsLossyFifo, Fifo!Spec
=============================================================================
