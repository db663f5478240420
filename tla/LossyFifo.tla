------------------------------ MODULE LossyFifo ------------------------------
(***************************************************************************)
(* What a session promises to those who send through it: frames leave in   *)
(* the order in which they were accepted, each once; a frame may be lost   *)
(* instead, but only the oldest of its kind, only for a new frame of that  *)
(* kind which, being as large as it is, has no room without the loss, and  *)
(* never unnoticed.  The frame offered is the frame accepted.              *)
(***************************************************************************)
EXTENDS Integers, SequencesExt

CONSTANTS
  TextLimit, AudioLimit,   \* frames of each kind that may wait
  ByteLimit,               \* bytes that may wait before audio gives way
  AudioSizes, TextSizes    \* sizes of the frames of each kind

VARIABLES
  waiting,    \* accepted frames, [id, isText, size], oldest first
  bytes,      \* their bytes
  accepted,   \* number of the newest accepted frame
  sent,       \* numbers of the frames that left, in order
  lost,       \* count of the frames discarded or refused
  offered     \* the frame that is to be accepted, if any: {}, {[isText, size]}

vars == <<waiting, bytes, accepted, sent, lost, offered>>

Init ==
  /\ waiting = <<>>
  /\ bytes = 0
  /\ accepted = 0
  /\ sent = <<>>
  /\ lost = 0
  /\ offered = {}

OfKind(isText) == {i \in DOMAIN waiting : waiting[i].isText = isText}

\* There is no room for the frame f beside those of its kind that wait.
Full(f) ==
  IF f.isText THEN Cardinality(OfKind(TRUE)) >= TextLimit
  ELSE \/ Cardinality(OfKind(FALSE)) >= AudioLimit
       \/ bytes + f.size > ByteLimit

\* Audio larger than the limit is not offered: it is refused.
Offer ==
  /\ offered = {}
  /\ \E f \in [isText : {TRUE}, size : TextSizes]
              \cup [isText : {FALSE}, size : AudioSizes] :
       /\ f.isText \/ f.size <= ByteLimit
       /\ offered' = {f}
  /\ UNCHANGED <<waiting, bytes, accepted, sent, lost>>

\* Waiting text may leave no room for audio: it is accepted all the same,
\* but alone of its kind.
Accept ==
  \E f \in offered :
    /\ Full(f) => OfKind(f.isText) = {}
    /\ waiting' = Append(waiting, [id |-> accepted + 1,
                                  isText |-> f.isText, size |-> f.size])
    /\ bytes' = bytes + f.size
    /\ accepted' = accepted + 1
    /\ offered' = {}
    /\ UNCHANGED <<sent, lost>>

Discard ==
  \E f \in offered, i \in DOMAIN waiting :
    /\ Full(f)
    /\ i \in OfKind(f.isText)
    /\ \A j \in OfKind(f.isText) : i <= j
    /\ waiting' = RemoveAt(waiting, i)
    /\ bytes' = bytes - waiting[i].size
    /\ lost' = lost + 1
    /\ UNCHANGED <<accepted, sent, offered>>

Refuse ==
  /\ \E s \in AudioSizes : s > ByteLimit
  /\ lost' = lost + 1
  /\ UNCHANGED <<waiting, bytes, accepted, sent, offered>>

Leave ==
  /\ waiting # <<>>
  /\ waiting' = Tail(waiting)
  /\ bytes' = bytes - Head(waiting).size
  /\ sent' = Append(sent, Head(waiting).id)
  /\ UNCHANGED <<accepted, lost, offered>>

Next == Offer \/ Accept \/ Discard \/ Refuse \/ Leave

Spec == Init /\ [][Next]_vars
=============================================================================
