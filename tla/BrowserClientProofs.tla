------------------------- MODULE BrowserClientProofs -------------------------
(***************************************************************************)
(* Proofs about the script of the page, for any number of calls of         *)
(* startAudio that wait at the same time: the chain of reconnects, the     *)
(* finality of Stop and the spacing of the verdicts.                       *)
(***************************************************************************)
EXTENDS BrowserClient, TLAPS

\* What the verdicts rest on: the watchdog is armed by PCM only, and whatever
\* takes note of PCM away disarms it.
ArmedByPcm == pcmArmed => heard

\* What Stop rests on: when it was clicked with no call of startAudio
\* waiting, none waits until Start is clicked again.
NothingPending == stopped => \A c \in Calls : await[c] = "none"

IInv == OneChain /\ StopIsFinal /\ NothingPending /\ ArmedByPcm

\* The script begins with one attempt under way and nothing else.
LEMMA InvInit == Init => IInv
BY DEF Init, IInv, OneChain, StopIsFinal, NothingPending, ArmedByPcm

\* Every handler leaves one socket or one pending timer, keeps the watchdog
\* disarmed until PCM arrives, and never streams on its own after Stop.
LEMMA InvNext == IInv /\ [Next]_vars => IInv'
<1> SUFFICES ASSUME IInv, [Next]_vars PROVE IInv'
  OBVIOUS
<1> USE DEF IInv, OneChain, StopIsFinal, NothingPending, ArmedByPcm,
            stream, watchdog, audio, buttons, net
<1>1. CASE Connect
  BY <1>1 DEF Connect
<1>2. CASE OnOpen
  BY <1>2 DEF OnOpen, CanResume
<1>3. CASE OnClose
  <2>1. OneChain'
    <3>1. timers = 0 /\ timers' = timers + 1 /\ sock' = "closed"
      BY <1>3 DEF OnClose
    <3> QED BY <3>1
  <2>2. StopIsFinal' /\ NothingPending' /\ ArmedByPcm'
    BY <1>3, Zenon DEF OnClose
  <2> QED BY <2>1, <2>2
<1>4. CASE OnPcm
  BY <1>4 DEF OnPcm
<1>5. CASE CheckStall
  BY <1>5 DEF CheckStall, Stalled, HandleStall
<1>6. ASSUME NEW c \in Calls, ClickStart(c) PROVE IInv'
  BY <1>6 DEF ClickStart
<1>7. ASSUME NEW c \in Calls, Resumed(c) PROVE IInv'
  BY <1>7 DEF Resumed
<1>8. ASSUME NEW c \in Calls, ModuleFailed(c) PROVE IInv'
  BY <1>8 DEF ModuleFailed
<1>9. ASSUME NEW c \in Calls, WorkletReady(c) PROVE IInv'
  BY <1>9 DEF WorkletReady, StartStream
<1>10. ASSUME NEW c \in Calls, FallbackReady(c) PROVE IInv'
  BY <1>10 DEF FallbackReady, StartStream
<1>11. ASSUME NEW c \in Calls, FallbackFails(c) PROVE IInv'
  BY <1>11 DEF FallbackFails
<1>12. CASE ClickStop
  BY <1>12 DEF ClickStop
<1>13. CASE Silence
  BY <1>13 DEF Silence
<1>14. CASE LinkFails
  BY <1>14 DEF LinkFails
<1>15. CASE ServerChanges
  BY <1>15 DEF ServerChanges
<1>16. CASE UNCHANGED vars
  BY <1>16 DEF vars
<1> QED
  BY <1>1, <1>2, <1>3, <1>4, <1>5, <1>6, <1>7, <1>8, <1>9, <1>10, <1>11,
     <1>12, <1>13, <1>14, <1>15, <1>16 DEF Next

\* There is always one connection or one pending attempt, and never two:
\* onclose, errors, verdicts and clicks neither fork nor break the chain of
\* reconnects (embedded_page.h:293).
THEOREM ChainCorrect == Spec => []OneChain
<1>1. IInv => OneChain
  BY DEF IInv
<1> QED BY InvInit, InvNext, <1>1, PTL DEF Spec

\* After the user's Stop nothing streams or resumes until Start is clicked,
\* unless a call of startAudio was waiting (embedded_page.h:502).
THEOREM StopCorrect == Spec => []StopIsFinal
<1>1. IInv => StopIsFinal
  BY DEF IInv
<1> QED BY InvInit, InvNext, <1>1, PTL DEF Spec

\* Between two verdicts of the stall watchdog PCM has arrived, so that the
\* page never reconnects for ever on an old timestamp (embedded_page.h:332).
THEOREM VerdictsSpaced == Spec => NoStallStorm
<1>1. IInv /\ [Next]_vars => [CheckStall => heard]_vars
  BY DEF IInv, ArmedByPcm, CheckStall, Stalled
<1> QED BY InvInit, InvNext, <1>1, PTL DEF Spec, NoStallStorm
=============================================================================
