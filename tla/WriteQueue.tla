------------------------------ MODULE WriteQueue ------------------------------
(***************************************************************************)
(* The per-session outgoing queue of the sound server and its write-       *)
(* ownership protocol: class WriteQueue (write_queue.h) together with the  *)
(* session operations that drive it (Send, SendBinary, DoWrite,            *)
(* BeginWrite, OnWrite, ForceClose in http_server.cpp).                    *)
(*                                                                         *)
(* Two threads touch one queue.  The WASAPI capture thread calls           *)
(* SendBinary for every captured packet; the session's strand calls Send   *)
(* (the audio_config answer to a "start" message) and runs the handlers    *)
(* DoWrite, OnWrite and ForceClose one at a time.  The queue's fields are  *)
(* changed under the leaf mutex L3; "m_writing" is the ownership token:    *)
(* who turns it on must see to it that DoWrite runs on the strand, and     *)
(* only the call that finds the queue empty turns it off.                  *)
(*                                                                         *)
(* Abstractions: a payload is its size; the loop that evicts old frames is *)
(* one step per evicted frame, taken while L3 is held; an asynchronous     *)
(* write that a fault switch suppresses is a write that never completes.   *)
(* MaybeLogDrop, the last call of Send and SendBinary, reads and writes    *)
(* only the fields that throttle its log line, and is left out.            *)
(***************************************************************************)
EXTENDS Integers, SequencesExt

CONSTANTS
  MaxBinaryFrames,   \* QueueConfig::maxBinaryFrames
  MaxQueuedBytes,    \* QueueConfig::maxQueuedBytes
  MaxTextFrames,     \* QueueConfig::maxTextFrames
  BinarySizes,       \* sizes of the PCM packets the capture thread offers
  TextSizes,         \* sizes of the control messages the strand offers
  MaxFrames          \* bound of the model: frames offered in one behaviour

ASSUME ConfigAssumption ==
  /\ MaxBinaryFrames \in Nat \ {0}
  /\ MaxQueuedBytes \in Nat
  /\ MaxTextFrames \in Nat \ {0}
  /\ BinarySizes \subseteq Nat
  /\ TextSizes \subseteq Nat
  /\ MaxFrames \in Nat

VARIABLES
  m_wq,       \* the fields of the WriteQueue object (without the "m_")
  m_closed,   \* the session's close gate
  mutex,      \* holder of L3, or "free"
  pc,         \* where each thread is inside Send / SendBinary
  arg,        \* the frame each thread is enqueueing
  doWrites,   \* DoWrite tasks dispatched to the strand and not yet run
  inFlight,   \* async_write operations begun whose OnWrite has not yet run
  wire,       \* history: numbers of the frames handed to async_write
  rejected    \* history: frames refused because they exceed MaxQueuedBytes

vars == <<m_wq, m_closed, mutex, pc, arg, doWrites, inFlight, wire, rejected>>

Threads == {"capture", "strand"}

\* What a thread passes to EnqueueLocked.
Payload == [isText : BOOLEAN, size : Nat]

\* A queued frame also carries its enqueue number, which the code does not
\* store: it identifies the frame in the properties.
Frame == [id : Nat, isText : BOOLEAN, size : Nat]

Offers(t) == IF t = "capture" THEN [isText : {FALSE}, size : BinarySizes]
                              ELSE [isText : {TRUE}, size : TextSizes]

\* The fields of class WriteQueue.  The counters that are decremented range
\* over Int here, so that FramesCounted and BytesCounted can say that they
\* never underflow.
QueueFields ==
  [q : Seq(Frame), binaryCount : Int, textCount : Int, queuedBytes : Int,
   writing : BOOLEAN, pending : Nat,
   enqueued : Nat, dequeued : Nat, droppedTotal : Nat]

\* Every variable holds a value of its kind.
TypeOK ==
  /\ m_wq \in QueueFields
  /\ m_closed \in BOOLEAN
  /\ mutex \in Threads \cup {"free"}
  /\ pc \in [Threads -> {"idle", "lock", "locked", "kick"}]
  /\ arg \in [Threads -> Payload]
  /\ doWrites \in Nat
  /\ inFlight \in Nat
  /\ wire \in Seq(Nat)
  /\ rejected \in Nat

Init ==
  /\ m_wq = [q |-> <<>>, binaryCount |-> 0, textCount |-> 0,
             queuedBytes |-> 0, writing |-> FALSE, pending |-> 0,
             enqueued |-> 0, dequeued |-> 0, droppedTotal |-> 0]
  /\ m_closed = FALSE
  /\ mutex = "free"
  /\ pc = [t \in Threads |-> "idle"]
  /\ arg = [t \in Threads |-> [isText |-> FALSE, size |-> 0]]
  /\ doWrites = 0
  /\ inFlight = 0
  /\ wire = <<>>
  /\ rejected = 0

-----------------------------------------------------------------------------
(* The operations of class WriteQueue; the caller holds L3.                *)

(* Operators whose names end in _Bad are faulty variants of the operator    *)
(* that follows them.  The specification does not use them: they stand in   *)
(* for it to show that a property notices the fault.                        *)

\* Forgets to count the eviction.
DropOldestBinaryLocked_Uncounted_Bad(w) ==
  LET k == SelectInSeq(w.q, LAMBDA f : ~f.isText)
  IN  IF k = 0 THEN w
      ELSE [w EXCEPT !.q = RemoveAt(@, k),
                     !.queuedBytes = @ - w.q[k].size,
                     !.binaryCount = @ - 1]

\* The queue w without its oldest frame of a kind, which is counted as
\* dropped; the byte and per-kind counters follow.
DropOldestBinaryLocked(w) ==
  LET k == SelectInSeq(w.q, LAMBDA f : ~f.isText)
  IN  IF k = 0 THEN w
      ELSE [w EXCEPT !.q = RemoveAt(@, k),
                     !.queuedBytes = @ - w.q[k].size,
                     !.binaryCount = @ - 1,
                     !.droppedTotal = @ + 1]

\* Forgets the bytes of the evicted frame.
DropOldestTextLocked_Bad(w) ==
  LET k == SelectInSeq(w.q, LAMBDA f : f.isText)
  IN  IF k = 0 THEN w
      ELSE [w EXCEPT !.q = RemoveAt(@, k),
                     !.textCount = @ - 1,
                     !.droppedTotal = @ + 1]

\* Forgets to count one text frame less.
DropOldestTextLocked_Count_Bad(w) ==
  LET k == SelectInSeq(w.q, LAMBDA f : f.isText)
  IN  IF k = 0 THEN w
      ELSE [w EXCEPT !.q = RemoveAt(@, k),
                     !.queuedBytes = @ - w.q[k].size,
                     !.droppedTotal = @ + 1]

DropOldestTextLocked(w) ==
  LET k == SelectInSeq(w.q, LAMBDA f : f.isText)
  IN  IF k = 0 THEN w
      ELSE [w EXCEPT !.q = RemoveAt(@, k),
                     !.queuedBytes = @ - w.q[k].size,
                     !.textCount = @ - 1,
                     !.droppedTotal = @ + 1]

\* Off by one.
NoRoomForText_Bad(w) == w.textCount > MaxTextFrames

\* The conditions of the two eviction loops of EnqueueLocked, text first.
NoRoomForText(w) == w.textCount >= MaxTextFrames

\* Off by one: a frame that fits exactly pushes an older one out.
NoRoomForBinary_Bad(w, size) ==
  /\ \/ w.binaryCount >= MaxBinaryFrames
     \/ w.queuedBytes + size >= MaxQueuedBytes
  /\ w.binaryCount > 0

NoRoomForBinary(w, size) ==
  /\ \/ w.binaryCount >= MaxBinaryFrames
     \/ w.queuedBytes + size > MaxQueuedBytes
  /\ w.binaryCount > 0

Oversized(f) == ~f.isText /\ f.size > MaxQueuedBytes

NoRoom(w, f) ==
  IF f.isText THEN NoRoomForText(w) ELSE NoRoomForBinary(w, f.size)

Evict(w, f) ==
  IF f.isText THEN DropOldestTextLocked(w) ELSE DropOldestBinaryLocked(w)

\* The tail of EnqueueLocked: append, count, and take the ownership token
\* if nobody has it.
PushBack(w, f) ==
  [w EXCEPT !.q = Append(@, [id |-> w.enqueued + 1,
                             isText |-> f.isText, size |-> f.size]),
            !.queuedBytes = @ + f.size,
            !.textCount = IF f.isText THEN @ + 1 ELSE @,
            !.binaryCount = IF f.isText THEN @ ELSE @ + 1,
            !.pending = Len(w.q) + 1,
            !.enqueued = @ + 1,
            !.writing = TRUE]

\* Gives the token back with the last frame instead of on an empty queue.
TakeNextLocked_Bad(w) ==
  IF w.q = <<>>
  THEN [w EXCEPT !.writing = FALSE, !.pending = 0]
  ELSE LET f == Head(w.q) IN
       [w EXCEPT !.q = Tail(@),
                 !.textCount = IF f.isText THEN @ - 1 ELSE @,
                 !.binaryCount = IF f.isText THEN @ ELSE @ - 1,
                 !.queuedBytes = @ - f.size,
                 !.pending = Len(w.q) - 1,
                 !.writing = Len(w.q) > 1,
                 !.dequeued = @ + 1]

\* Leaves the atomic mirror of the length alone when a frame is popped.
TakeNextLocked_Mirror_Bad(w) ==
  IF w.q = <<>>
  THEN [w EXCEPT !.writing = FALSE, !.pending = 0]
  ELSE LET f == Head(w.q) IN
       [w EXCEPT !.q = Tail(@),
                 !.textCount = IF f.isText THEN @ - 1 ELSE @,
                 !.binaryCount = IF f.isText THEN @ ELSE @ - 1,
                 !.queuedBytes = @ - f.size,
                 !.dequeued = @ + 1]

\* Pop the front frame; on an empty queue give the token back instead.
TakeNextLocked(w) ==
  IF w.q = <<>>
  THEN [w EXCEPT !.writing = FALSE, !.pending = 0]
  ELSE LET f == Head(w.q) IN
       [w EXCEPT !.q = Tail(@),
                 !.textCount = IF f.isText THEN @ - 1 ELSE @,
                 !.binaryCount = IF f.isText THEN @ ELSE @ - 1,
                 !.queuedBytes = @ - f.size,
                 !.pending = Len(w.q) - 1,
                 !.dequeued = @ + 1]

-----------------------------------------------------------------------------
(* Send (strand) and SendBinary (capture thread).                          *)

\* The unlocked fast-path test of m_closed; when it fails nothing happens.
Send(t) ==
  /\ pc[t] = "idle"
  /\ ~m_closed
  /\ m_wq.enqueued + m_wq.droppedTotal < MaxFrames
  /\ \E f \in Offers(t) : arg' = [arg EXCEPT ![t] = f]
  /\ pc' = [pc EXCEPT ![t] = "lock"]
  /\ UNCHANGED <<m_wq, m_closed, mutex, doWrites, inFlight, wire, rejected>>

Lock(t) ==
  /\ pc[t] = "lock"
  /\ mutex = "free"
  /\ ~Oversized(arg[t])
  /\ mutex' = t
  /\ pc' = [pc EXCEPT ![t] = "locked"]
  /\ UNCHANGED <<m_wq, m_closed, arg, doWrites, inFlight, wire, rejected>>

\* A frame that could never fit is counted and refused; nobody is kicked.
RejectOversized(t) ==
  /\ pc[t] = "lock"
  /\ mutex = "free"
  /\ Oversized(arg[t])
  /\ m_wq' = [m_wq EXCEPT !.droppedTotal = @ + 1]
  /\ rejected' = rejected + 1
  /\ pc' = [pc EXCEPT ![t] = "idle"]
  /\ UNCHANGED <<m_closed, mutex, arg, doWrites, inFlight, wire>>

\* One turn of the eviction loop.
EvictOne(t) ==
  /\ pc[t] = "locked"
  /\ NoRoom(m_wq, arg[t])
  /\ m_wq' = Evict(m_wq, arg[t])
  /\ UNCHANGED <<m_closed, mutex, pc, arg, doWrites, inFlight, wire, rejected>>

\* The loop is over: append, release L3, and go on to kick the strand if
\* this call took the token.
Enqueue(t) ==
  /\ pc[t] = "locked"
  /\ ~NoRoom(m_wq, arg[t])
  /\ m_wq' = PushBack(m_wq, arg[t])
  /\ mutex' = "free"
  /\ pc' = [pc EXCEPT ![t] = IF m_wq.writing THEN "idle" ELSE "kick"]
  /\ UNCHANGED <<m_closed, arg, doWrites, inFlight, wire, rejected>>

\* net::dispatch from the capture thread posts DoWrite to the strand.
DispatchDoWrite ==
  /\ pc["capture"] = "kick"
  /\ doWrites' = doWrites + 1
  /\ pc' = [pc EXCEPT !["capture"] = "idle"]
  /\ UNCHANGED <<m_wq, m_closed, mutex, arg, inFlight, wire, rejected>>

-----------------------------------------------------------------------------
(* The handlers of the strand.                                             *)

\* TakeNextLocked in its critical section, then BeginWrite of the frame
\* that was found; "ended" writes have completed in the same handler.
TakeAndWrite(ended) ==
  /\ mutex = "free"
  /\ m_wq' = TakeNextLocked(m_wq)
  /\ IF m_wq.q = <<>>
     THEN inFlight' = inFlight - ended /\ wire' = wire
     ELSE /\ inFlight' = inFlight - ended + 1
          /\ wire' = Append(wire, Head(m_wq.q).id)

\* The body of DoWrite; a closed session keeps the token for good.
DoWriteBody ==
  IF m_closed THEN UNCHANGED <<m_wq, inFlight, wire>> ELSE TakeAndWrite(0)

\* Runs although nobody dispatched it.
DoWrite_Bad ==
  /\ pc["strand"] = "idle"
  /\ doWrites' = doWrites - 1
  /\ DoWriteBody
  /\ UNCHANGED <<m_closed, mutex, pc, arg, rejected>>

\* A dispatched DoWrite task runs.
DoWrite ==
  /\ pc["strand"] = "idle"
  /\ doWrites > 0
  /\ doWrites' = doWrites - 1
  /\ DoWriteBody
  /\ UNCHANGED <<m_closed, mutex, pc, arg, rejected>>

\* Send was called on the strand: net::dispatch runs DoWrite in place.
DoWriteInline ==
  /\ pc["strand"] = "kick"
  /\ pc' = [pc EXCEPT !["strand"] = "idle"]
  /\ DoWriteBody
  /\ UNCHANGED <<m_closed, mutex, arg, doWrites, rejected>>

\* Does not go on with the next frame.
OnWrite_Bad ==
  /\ pc["strand"] = "idle"
  /\ inFlight > 0
  /\ ~m_closed
  /\ inFlight' = inFlight - 1
  /\ UNCHANGED <<m_wq, m_closed, mutex, pc, arg, doWrites, wire, rejected>>

\* The write succeeded: go on with the next frame in the same handler.
OnWrite ==
  /\ pc["strand"] = "idle"
  /\ inFlight > 0
  /\ ~m_closed
  /\ TakeAndWrite(1)
  /\ UNCHANGED <<m_closed, mutex, pc, arg, doWrites, rejected>>

\* The write failed: the session is force-closed.
OnWriteError ==
  /\ pc["strand"] = "idle"
  /\ inFlight > 0
  /\ ~m_closed
  /\ inFlight' = inFlight - 1
  /\ m_closed' = TRUE
  /\ UNCHANGED <<m_wq, mutex, pc, arg, doWrites, wire, rejected>>

\* A completion that arrives after ForceClose does nothing.
OnWriteClosed ==
  /\ pc["strand"] = "idle"
  /\ inFlight > 0
  /\ m_closed
  /\ inFlight' = inFlight - 1
  /\ UNCHANGED <<m_wq, m_closed, mutex, pc, arg, doWrites, wire, rejected>>

\* ForceClose for any other reason (read error, stall, peer, server stop):
\* the queue is left as it is, only the gate closes.
ForceClose ==
  /\ pc["strand"] = "idle"
  /\ ~m_closed
  /\ m_closed' = TRUE
  /\ UNCHANGED <<m_wq, mutex, pc, arg, doWrites, inFlight, wire, rejected>>

-----------------------------------------------------------------------------
Step(t) ==
  \/ Lock(t)
  \/ RejectOversized(t)
  \/ EvictOne(t)
  \/ Enqueue(t)

Next ==
  \/ \E t \in Threads : Send(t) \/ Step(t)
  \/ DispatchDoWrite
  \/ DoWrite
  \/ DoWriteInline
  \/ OnWrite
  \/ OnWriteError
  \/ OnWriteClosed
  \/ ForceClose

Spec == Init /\ [][Next]_vars

\* A thread inside Send or SendBinary goes on (L3 is only ever held for a
\* bounded time, so the mutex is eventually obtained); the io threads run
\* the strand's handlers; a write is completed by the network, one way or
\* the other.  Nothing obliges anybody to call Send or ForceClose.
Fairness ==
  /\ \A t \in Threads : SF_vars(Step(t))
  /\ WF_vars(DispatchDoWrite)
  /\ SF_vars(DoWrite)
  /\ SF_vars(DoWriteInline)
  /\ SF_vars(OnWrite \/ OnWriteError \/ OnWriteClosed)

FairSpec == Spec /\ Fairness
-----------------------------------------------------------------------------
(* Properties.                                                             *)

Indices(q, isText) == {i \in DOMAIN q : q[i].isText = isText}
Ids(q) == {q[i].id : i \in DOMAIN q}

\* The bytes of the frames at the positions in I.
Bytes(q, I) ==
  LET upTo[n \in 0..Len(q)] ==
        IF n = 0 THEN 0 ELSE upTo[n - 1] + (IF n \in I THEN q[n].size ELSE 0)
  IN  upTo[Len(q)]

\* The copies of the write-ownership token: a thread between taking it and
\* dispatching, a dispatched DoWrite, an async_write in progress.
Tokens ==
  (IF pc["capture"] = "kick" THEN 1 ELSE 0)
    + (IF pc["strand"] = "kick" THEN 1 ELSE 0) + doWrites + inFlight

\* I-W1 (write_queue.h:16): while the session is open, m_writing is set
\* exactly when one, and only one, holder of the write ownership exists; at
\* no time are there two, so Beast never sees two concurrent async_writes.
\* (After ForceClose, DoWrite and OnWrite return without giving the token
\* back: m_writing may then stay set with no holder.)
WriteOwnership ==
  /\ Tokens <= 1
  /\ m_wq.writing => m_closed \/ Tokens = 1
  /\ Tokens = 1 => m_wq.writing

\* I-W6 (write_queue.h:28): a backlog always has an owner who will write it,
\* in the atomic mirror m_pending that the watchdog reads without the mutex
\* as well as in the deque; and outside the critical sections the mirror is
\* the true length.
BacklogOwned ==
  /\ m_wq.pending > 0 => m_wq.writing
  /\ m_wq.q # <<>> => m_wq.writing
  /\ mutex = "free" => m_wq.pending = Len(m_wq.q)

\* The per-kind counters that EnqueueLocked, TakeNextLocked and the two Drop
\* functions keep by increments (write_queue.h:348) are what a scan of the
\* deque would count: they decide eviction, and as unsigned integers must
\* never be decremented below zero.
FramesCounted ==
  /\ m_wq.textCount = Cardinality(Indices(m_wq.q, TRUE))
  /\ m_wq.binaryCount = Cardinality(Indices(m_wq.q, FALSE))

\* The byte counter m_queuedBytes is the sum over the deque, and the queued
\* audio stays within the byte limit, also when one frame alone is as large
\* as the limit (text is limited by its number only).
BytesCounted ==
  /\ m_wq.queuedBytes = Bytes(m_wq.q, DOMAIN m_wq.q)
  /\ Bytes(m_wq.q, Indices(m_wq.q, FALSE)) <= MaxQueuedBytes

\* EnqueueLocked keeps the deque within both frame limits of QueueConfig
\* (write_queue.h:64) however slow the peer is.
FrameLimits ==
  /\ Cardinality(Indices(m_wq.q, TRUE)) <= MaxTextFrames
  /\ Cardinality(Indices(m_wq.q, FALSE)) <= MaxBinaryFrames

\* No frame is lost without a trace: every frame offered to EnqueueLocked is
\* written, waiting, or counted in m_droppedTotal, the figure the probe and
\* the E-WS-QUEUE-DROP log line report.
Accounted ==
  /\ m_wq.dequeued = Len(wire)
  /\ m_wq.enqueued + rejected = m_wq.dequeued + Len(m_wq.q) + m_wq.droppedTotal

Fifo == INSTANCE LossyFifo WITH
          TextLimit <- MaxTextFrames,
          AudioLimit <- MaxBinaryFrames,
          ByteLimit <- MaxQueuedBytes,
          AudioSizes <- BinarySizes,
          TextSizes <- TextSizes,
          waiting <- m_wq.q,
          bytes <- m_wq.queuedBytes,
          accepted <- m_wq.enqueued,
          sent <- wire,
          lost <- m_wq.droppedTotal,
          offered <- IF mutex = "free" THEN {} ELSE {arg[mutex]}

\* The queue implements LossyFifo, with its eviction loops, its two threads and
\* its token: frames reach async_write in order and once, and the drop policy
\* (write_queue.h:105 and 117) takes only the oldest of a kind that has no
\* room for the frame offered, and no more of them than that frame needs: audio
\* never pushes out the audio_config text, nor the reverse.
ImplementsLossyFifo == Fifo!Spec

\* No lost wake-up: under Fairness a queued frame is eventually handed to
\* async_write or evicted, unless the session is closed.
FramesLeave ==
  \A n \in 1..MaxFrames : n \in Ids(m_wq.q) ~> (n \notin Ids(m_wq.q) \/ m_closed)
=============================================================================
