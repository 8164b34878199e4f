------------------------------ MODULE Tui_proofs ------------------------------
(***************************************************************************)
(* Theorems about the terminal UI, the pause it shows and the update it    *)
(* installs.  The parts are proved step by step on their own variables     *)
(* first; a step of the UI is a step of each part or leaves it alone.      *)
(***************************************************************************)
EXTENDS Tui, SequenceTheorems, TLAPS

-----------------------------------------------------------------------------
\* Non-empty sequences: what an Append ends with, and what a Tail leaves.

Latest(s) == s[Len(s)]

LEMMA AppendLatest ==
    ASSUME NEW S, NEW s \in Seq(S), NEW e \in S
    PROVE  /\ Append(s, e) \in Seq(S) /\ Append(s, e) # << >>
           /\ Latest(Append(s, e)) = e
  BY DEF Latest

LEMMA TailLatest ==
    ASSUME NEW S, NEW s \in Seq(S), s # << >>
    PROVE  /\ Head(s) \in S /\ Tail(s) \in Seq(S)
           /\ Tail(s) # << >> => Latest(Tail(s)) = Latest(s)
           /\ Tail(s) = << >> => Head(s) = Latest(s)
  <1>1. /\ Head(s) \in S /\ Tail(s) \in Seq(S)
        /\ Len(Tail(s)) = Len(s) - 1
        /\ \A i \in 1..Len(Tail(s)) : Tail(s)[i] = s[i + 1]
    BY HeadTailProperties
  <1>2. Len(s) \in Nat \ {0} /\ Head(s) = s[1]
    BY EmptySeq, LenProperties
  <1>3. ASSUME Tail(s) # << >> PROVE Latest(Tail(s)) = Latest(s)
    <2>1. Len(Tail(s)) \in 1..Len(Tail(s))
      BY <1>1, <1>2, <1>3, EmptySeq, LenProperties
    <2>2. Tail(s)[Len(s) - 1] = s[Len(s)]
      BY <2>1, <1>1, <1>2
    <2>3. QED
      BY <2>2, <1>1 DEF Latest
  <1>4. ASSUME Tail(s) = << >> PROVE Head(s) = Latest(s)
    <2>1. Len(Tail(s)) = 0
      BY <1>4, EmptySeq
    <2>2. Len(s) = 1
      BY <2>1, <1>1, <1>2
    <2>3. QED
      BY <2>2, <1>2 DEF Latest
  <1>5. QED
    BY <1>1, <1>3, <1>4

-----------------------------------------------------------------------------
\* The pause.

PauseTypes ==
    /\ shownPaused \in BOOLEAN /\ paused \in BOOLEAN /\ serverPaused \in BOOLEAN
    /\ connected \in BOOLEAN /\ tripping \in BOOLEAN /\ apart \in BOOLEAN
    /\ toServer \in Seq(BOOLEAN) /\ toClient \in Seq(BOOLEAN)
    /\ toUi \in BOOLEAN \cup {NoMessage}

\* Nothing that the server does not know yet.
Settled == toServer = << >> /\ ~tripping /\ ~apart

\* Once the server knows everything, the last message on its way to the client
\* carries its state, and what is not on its way has arrived.
PauseInv ==
    Settled =>
        IF toClient # << >> THEN Latest(toClient) = serverPaused
        ELSE /\ paused = serverPaused
             /\ IF toUi # NoMessage THEN toUi = serverPaused ELSE shownPaused = serverPaused

\* Every step of the pause, the UI's requests included, keeps both.
PauseAct == PauseStep \/ \E p \in BOOLEAN : SendPause(p)

LEMMA PauseTypesKept ==
    ASSUME PauseTypes, PauseAct
    PROVE  PauseTypes'
  <1>1. ASSUME NEW p \in BOOLEAN, SendPause(p) PROVE PauseTypes'
    BY <1>1, PauseTypes, AppendLatest DEF SendPause, PauseTypes
  <1>2. CASE ServerReceives
    <2>1. Head(toServer) \in BOOLEAN /\ Tail(toServer) \in Seq(BOOLEAN)
      BY <1>2, PauseTypes, TailLatest DEF ServerReceives, PauseTypes
    <2>2. Append(toClient, Head(toServer)) \in Seq(BOOLEAN)
      BY <2>1, PauseTypes, AppendLatest DEF PauseTypes
    <2>3. QED
      BY <1>2, <2>1, <2>2, PauseTypes DEF ServerReceives, PauseTypes
  <1>3. CASE ConfigUpdate
    BY <1>3, PauseTypes, TailLatest DEF ConfigUpdate, PauseTypes
  <1>4. CASE PauseUpdate
    BY <1>4, PauseTypes DEF PauseUpdate, PauseTypes
  <1>5. CASE OnTrip
    BY <1>5, PauseTypes DEF OnTrip, PauseTypes
  <1>6. CASE TripAsks
    <2>1. Append(toServer, TRUE) \in Seq(BOOLEAN)
      BY PauseTypes, AppendLatest DEF PauseTypes
    <2>2. QED
      BY <1>6, <2>1, PauseTypes DEF TripAsks, PauseTypes
  <1>7. CASE Disconnect
    <2>1. apart' \in BOOLEAN /\ << >> \in Seq(BOOLEAN)
      BY <1>7, EmptySeq DEF Disconnect
    <2>2. QED
      BY <1>7, <2>1, PauseTypes DEF Disconnect, PauseTypes
  <1>8. CASE Reconnect
    <2>1. <<serverPaused>> \in Seq(BOOLEAN)
      BY PauseTypes DEF PauseTypes
    <2>2. QED
      BY <1>8, <2>1, PauseTypes DEF Reconnect, PauseTypes
  <1>9. ASSUME NEW p \in BOOLEAN, ServerPauses(p) PROVE PauseTypes'
    BY <1>9, PauseTypes, AppendLatest DEF ServerPauses, PauseTypes
  <1>10. QED
    BY PauseAct, <1>1, <1>2, <1>3, <1>4, <1>5, <1>6, <1>7, <1>8, <1>9 DEF PauseAct, PauseStep

LEMMA PauseInvKept ==
    ASSUME PauseTypes, PauseInv, PauseAct
    PROVE  PauseInv'
  <1> USE PauseAssumption DEF Settled
  <1>1. ASSUME NEW p \in BOOLEAN, SendPause(p) PROVE PauseInv'
    BY <1>1, PauseTypes, PauseInv, AppendLatest DEF SendPause, PauseTypes, PauseInv
  <1>2. CASE ServerReceives
    BY <1>2, PauseTypes, AppendLatest, TailLatest DEF ServerReceives, PauseTypes, PauseInv
  <1>3. CASE ConfigUpdate
    BY <1>3, PauseTypes, PauseInv, TailLatest DEF ConfigUpdate, PauseTypes, PauseInv
  <1>4. CASE PauseUpdate
    BY <1>4, PauseTypes, PauseInv DEF PauseUpdate, PauseTypes, PauseInv
  <1>5. CASE OnTrip
    BY <1>5 DEF OnTrip, PauseInv
  <1>6. CASE TripAsks
    BY <1>6, PauseTypes, AppendLatest DEF TripAsks, PauseTypes, PauseInv
  <1>7. CASE Disconnect
    BY <1>7, PauseTypes, PauseInv DEF Disconnect, PauseTypes, PauseInv
  <1>8. CASE Reconnect
    BY <1>8, PauseTypes, PauseInv DEF Reconnect, PauseTypes, PauseInv, Latest
  <1>9. ASSUME NEW p \in BOOLEAN, ServerPauses(p) PROVE PauseInv'
    BY <1>9, PauseTypes, AppendLatest DEF ServerPauses, PauseTypes, PauseInv
  <1>10. QED
    BY PauseAct, <1>1, <1>2, <1>3, <1>4, <1>5, <1>6, <1>7, <1>8, <1>9 DEF PauseAct, PauseStep

-----------------------------------------------------------------------------
\* The update.

\* What is installed has been verified, and the file is missing only between the
\* two renames, or when the second of them and the rollback failed.
UpdateInv ==
    /\ updating \in {"replacing", "installing"} => download = "release"
    /\ updating \in {"fetching", "downloading", "verifying", "replacing"} => binary # "missing"
    /\ updating = "installing" => windows
    /\ updating = "done" => binary = "release"
    /\ binary = "missing" => windows /\ oldCopy
    /\ binary # "other"

LEMMA UpdateInvKept ==
    ASSUME UpdateInv, performUpdate
    PROVE  UpdateInv'
  <1>1. CASE fetchExpectedHash
    BY <1>1, UpdateInv DEF fetchExpectedHash, Fails, UpdateInv
  <1>2. CASE Download
    BY <1>2, UpdateInv DEF Download, Fails, UpdateInv
  <1>3. CASE Verify
    BY <1>3, UpdateInv DEF Verify, Fails, UpdateInv
  <1>4. CASE Replace
    BY <1>4, UpdateInv DEF Replace, Fails, UpdateInv
  <1>5. CASE MoveAway
    BY <1>5, UpdateInv DEF MoveAway, Fails, UpdateInv
  <1>6. CASE Install
    BY <1>6, UpdateInv DEF Install, Fails, UpdateInv
  <1>7. QED
    BY performUpdate, <1>1, <1>2, <1>3, <1>4, <1>5, <1>6 DEF performUpdate

-----------------------------------------------------------------------------
\* Composition: a step of the program, seen by its parts.

LEMMA PauseOfStep ==
    ASSUME Next
    PROVE  PauseAct \/ UNCHANGED pauseVars
  <1> USE DEF Running, PauseAct
  <1>1. CASE Running(Key)
    <2>1. CASE PauseKey
      <3>1. (~shownPaused) \in BOOLEAN
        OBVIOUS
      <3>2. SendPause(~shownPaused)
        BY <2>1 DEF PauseKey, TogglePause
      <3>3. QED
        BY <3>1, <3>2
    <2>2. CASE ~PauseKey
      BY <1>1, <2>2 DEF Key, ShowSettings, Back, AskUpdate, ConfirmUpdate, AskKill, ConfirmKill,
         AskQuit, OpenEdit, Submit, CloseEdit, Show, otherVars
    <2>3. QED
      BY <2>1, <2>2
  <1>2. CASE Running(Command)
    <2>1. CASE KillSucceeds
      BY <2>1 DEF KillSucceeds
    <2>2. CASE ~KillSucceeds
      BY <1>2, <2>2 DEF Command, RegistrationEnds, EncryptionEnds, DeletionEnds, KillEnds, KillFails,
         UpdateEnds, Result, otherVars
    <2>3. QED
      BY <2>1, <2>2
  <1>3. CASE Running(Pauses)
    BY <1>3 DEF Pauses
  <1>4. CASE Running(Updates)
    BY <1>4 DEF Updates
  <1>5. CASE process = "running" /\ (ToggleTicker \/ Quit)
    BY <1>5 DEF ToggleTicker, Quit
  <1>6. QED
    BY Next, <1>1, <1>2, <1>3, <1>4, <1>5 DEF Next

\* What a restart relies on: after an update elsewhere than on Windows the
\* program is the release.
RestartInv ==
    /\ updateStatus = "restarting" => windows \/ binary = "release"
    /\ process = "restarted" => binary = "release"

BinaryInv == UpdateInv /\ RestartInv

LEMMA BinaryInvKept ==
    ASSUME BinaryInv, Next
    PROVE  BinaryInv'
  <1> USE DEF Running
  <1>1. CASE Running(Updates)
    <2>1. UpdateInv'
      BY <1>1, BinaryInv, UpdateInvKept DEF Updates, BinaryInv
    <2>2. RestartInv'
      BY <1>1, BinaryInv DEF Updates, BinaryInv, UpdateInv, RestartInv, performUpdate,
         fetchExpectedHash, Download, Verify, Replace, MoveAway, Install, Fails
    <2>3. QED
      BY <2>1, <2>2 DEF BinaryInv
  <1>2. CASE Running(ConfirmUpdate)
    BY <1>2, BinaryInv DEF ConfirmUpdate, Begin, BinaryInv, UpdateInv, RestartInv
  <1>3. CASE Running(UpdateEnds)
    BY <1>3, BinaryInv DEF UpdateEnds, BinaryInv, UpdateInv, RestartInv
  <1>4. CASE process = "running" /\ Quit
    BY <1>4, BinaryInv DEF Quit, updateVars, BinaryInv, UpdateInv, RestartInv
  <1>5. ASSUME UNCHANGED <<updateStatus, updateVars>>, process' # "restarted"
        PROVE  BinaryInv'
    BY <1>5, BinaryInv DEF updateVars, BinaryInv, UpdateInv, RestartInv
  <1>6. CASE Running(Key) /\ ~ConfirmUpdate
    <2>1. UNCHANGED <<updateStatus, updateVars>>
      BY <1>6 DEF Key, ShowSettings, Back, AskUpdate, AskKill, ConfirmKill, PauseKey,
         AskQuit, OpenEdit, Submit, CloseEdit, Show, otherVars
    <2>2. QED
      BY <1>5, <1>6, <2>1
  <1>7. CASE Running(Command) /\ ~UpdateEnds
    <2>1. UNCHANGED <<updateStatus, updateVars>>
      BY <1>7 DEF Command, RegistrationEnds, EncryptionEnds, DeletionEnds, KillEnds, KillFails,
         KillSucceeds, Result, otherVars
    <2>2. QED
      BY <1>5, <1>7, <2>1
  <1>8. CASE Running(Pauses)
    BY <1>5, <1>8 DEF Pauses
  <1>9. CASE process = "running" /\ ToggleTicker
    BY <1>5, <1>9 DEF ToggleTicker
  <1>10. QED
    BY Next, <1>1, <1>2, <1>3, <1>4, <1>6, <1>7, <1>8, <1>9 DEF Next, Key, Command

-----------------------------------------------------------------------------
LEMMA PauseInitially ==
    ASSUME Init
    PROVE  PauseTypes /\ PauseInv
  BY Init, EmptySeq DEF Init, PauseInit, PauseTypes, PauseInv, Settled

LEMMA PauseUnchanged ==
    ASSUME PauseTypes, PauseInv, UNCHANGED pauseVars
    PROVE  PauseTypes' /\ PauseInv'
  BY PauseTypes, PauseInv DEF pauseVars, PauseTypes, PauseInv, Settled, Latest

\* What TypeOK says beyond the types of the parts.
ScreenOK ==
    /\ process \in {"running", "ended", "restarted"}
    /\ view \in {"main", "settings", "edit", "killConfirm", "updateConfirm", "updateProgress"}
    /\ step \in Busy \cup Inputs \cup {"none", "ticker", "done"}
    /\ (step # "none") = (view = "edit")
    /\ command = IF step \in Busy THEN step ELSE "none"
    /\ updateStatus \in {"", "downloading", "error", "restarting"}
    /\ updating # "idle" => view = "updateProgress" /\ updateStatus = "downloading"

KillOK ==
    /\ killRuns \in 0..MaxKills
    /\ killStatus \in {"", "running", "done", "error"}
    /\ killStatus = "running" => killRuns > 0

LEMMA ScreenKept ==
    ASSUME ScreenOK, Next
    PROVE  ScreenOK'
  <1> USE DEF Running
  <1>1. CASE Running(ShowSettings)
    BY <1>1, ScreenOK DEF ShowSettings, Show, updateVars, ScreenOK
  <1>2. CASE Running(Back)
    BY <1>2, ScreenOK DEF Back, Show, updateVars, ScreenOK
  <1>3. CASE Running(AskUpdate)
    BY <1>3, ScreenOK DEF AskUpdate, Show, updateVars, ScreenOK
  <1>4. CASE Running(ConfirmUpdate)
    BY <1>4, ScreenOK DEF ConfirmUpdate, ScreenOK
  <1>5. CASE Running(AskKill)
    BY <1>5, ScreenOK DEF AskKill, updateVars, ScreenOK
  <1>6. CASE Running(OpenEdit)
    <2>1. \A s \in {"keyInput", "pass1", "done", "leverage", "ticker", "deleteConfirm"} :
             s \in Inputs \cup {"ticker", "done"} /\ s \notin Busy /\ s # "none"
      BY DEF Inputs, Busy
    <2>2. QED
      BY <1>6, <2>1, ScreenOK DEF OpenEdit, otherVars, updateVars, ScreenOK, Busy
  <1>7. CASE Running(Submit)
    <2>1. \A s \in Inputs : NextStep[s] \in Busy \cup Inputs \cup {"done"} /\ NextStep[s] # "none"
      BY DEF NextStep, Inputs, Busy
    <2>2. /\ step \in Inputs /\ step' = NextStep[step] /\ step # "none" /\ step \notin Busy
          /\ command' = IF step' \in Busy THEN step' ELSE command
          /\ UNCHANGED <<process, view, quitting, updateStatus, updating>>
      BY <1>7 DEF Submit, Inputs, Busy, otherVars, updateVars
    <2>3. QED
      BY <2>1, <2>2, ScreenOK DEF ScreenOK
  <1>8. CASE Running(CloseEdit)
    BY <1>8, ScreenOK DEF CloseEdit, otherVars, updateVars, ScreenOK, Busy
  <1>9. CASE Running(RegistrationEnds)
    BY <1>9, ScreenOK DEF RegistrationEnds, Result, otherVars, updateVars, ScreenOK, Busy, Inputs
  <1>10. CASE Running(EncryptionEnds)
    BY <1>10, ScreenOK DEF EncryptionEnds, Result, otherVars, updateVars, ScreenOK, Busy, Inputs
  <1>11. CASE Running(DeletionEnds)
    BY <1>11, ScreenOK DEF DeletionEnds, Result, otherVars, updateVars, ScreenOK, Busy, Inputs
  <1>12. CASE Running(UpdateEnds)
    <2>1. /\ updating' = "idle" /\ updateStatus' \in {"error", "restarting"}
          /\ UNCHANGED <<process, view, step, command>>
      BY <1>12 DEF UpdateEnds, editVars
    <2>2. QED
      BY <2>1, ScreenOK DEF ScreenOK
  <1>13. CASE Running(Updates)
    <2>1. updating # "idle" /\ UNCHANGED <<process, view, step, command, updateStatus>>
      BY <1>13 DEF Updates, editVars, performUpdate, fetchExpectedHash, Download, Verify,
         Replace, MoveAway, Install
    <2>2. QED
      BY <2>1, ScreenOK DEF ScreenOK
  <1>14. CASE process = "running" /\ (ToggleTicker \/ Quit)
    <2>1. /\ process' \in {"running", "ended", "restarted"}
          /\ UNCHANGED <<view, step, command, updateStatus, updating>>
      BY <1>14 DEF ToggleTicker, Quit, editVars, updateVars
    <2>2. QED
      BY <2>1, ScreenOK DEF ScreenOK
  <1>15. ASSUME UNCHANGED <<process, view, step, command, updateStatus, updating>>
         PROVE  ScreenOK'
    BY <1>15, ScreenOK DEF ScreenOK
  <1>16. CASE Running(AskQuit)
    <2>1. UNCHANGED <<process, view, step, command, updateStatus, updating>>
      BY <1>16 DEF AskQuit, editVars, updateVars
    <2>2. QED
      BY <2>1, <1>15
  <1>17. CASE Running(ConfirmKill) \/ Running(PauseKey) \/ Running(KillEnds) \/ Running(Pauses)
    <2>1. UNCHANGED <<process, view, step, command, updateStatus, updating>>
      BY <1>17 DEF ConfirmKill, PauseKey, KillEnds, KillFails, KillSucceeds, Pauses,
         editVars, updateVars
    <2>2. QED
      BY <2>1, <1>15
  <1>18. QED
    BY Next, <1>1, <1>2, <1>3, <1>4, <1>5, <1>6, <1>7, <1>8, <1>9, <1>10, <1>11, <1>12, <1>13,
       <1>14, <1>16, <1>17 DEF Next, Key, Command

LEMMA QuittingKept ==
    ASSUME quitting \in BOOLEAN, Next
    PROVE  quitting' \in BOOLEAN
  <1> USE DEF Running
  <1>1. CASE Running(Key)
    BY <1>1 DEF Key, ShowSettings, Back, AskUpdate, ConfirmUpdate, AskKill, ConfirmKill, PauseKey,
       AskQuit, OpenEdit, Submit, CloseEdit, Show, otherVars
  <1>2. CASE Running(Command)
    BY <1>2 DEF Command, RegistrationEnds, EncryptionEnds, DeletionEnds, KillEnds, KillFails,
       KillSucceeds, UpdateEnds
  <1>3. CASE Running(Pauses) \/ Running(Updates) \/ (process = "running" /\ (ToggleTicker \/ Quit))
    BY <1>3 DEF Pauses, Updates, ToggleTicker, Quit
  <1>4. QED
    BY Next, <1>1, <1>2, <1>3 DEF Next

LEMMA KillKept ==
    ASSUME KillOK, Next
    PROVE  KillOK'
  <1> USE TuiAssumption DEF Running
  <1>1. CASE Running(AskKill)
    BY <1>1, KillOK DEF AskKill, KillOK
  <1>2. CASE Running(ConfirmKill)
    <2>1. killRuns \in 0..MaxKills /\ killRuns < MaxKills /\ killRuns' = killRuns + 1
      BY <1>2, KillOK DEF ConfirmKill, KillOK
    <2>2. killRuns' \in 0..MaxKills /\ killRuns' > 0
      BY <2>1 DEF TuiAssumption
    <2>3. QED
      BY <1>2, <2>2 DEF ConfirmKill, KillOK
  <1>3. CASE Running(KillEnds)
    <2>1. killRuns \in 0..MaxKills /\ killRuns > 0 /\ killRuns' = killRuns - 1
      BY <1>3, KillOK DEF KillEnds, KillFails, KillSucceeds, KillOK
    <2>2. killRuns' \in 0..MaxKills
      BY <2>1 DEF TuiAssumption
    <2>3. killStatus' \in {"error", "done"}
      BY <1>3 DEF KillEnds, KillFails, KillSucceeds
    <2>4. QED
      BY <2>2, <2>3 DEF KillOK
  <1>4. ASSUME UNCHANGED killVars PROVE KillOK'
    BY <1>4, KillOK DEF killVars, KillOK
  <1>5. CASE Running(Key) /\ ~AskKill /\ ~ConfirmKill
    BY <1>4, <1>5 DEF Key, ShowSettings, Back, AskUpdate, ConfirmUpdate, PauseKey, AskQuit,
       OpenEdit, Submit, CloseEdit, Show, otherVars
  <1>6. CASE Running(Command) /\ ~KillEnds
    BY <1>4, <1>6 DEF Command, RegistrationEnds, EncryptionEnds, DeletionEnds, UpdateEnds,
       Result, otherVars
  <1>7. CASE Running(Pauses) \/ Running(Updates)
    BY <1>4, <1>7 DEF Pauses, Updates
  <1>8. CASE process = "running" /\ (ToggleTicker \/ Quit)
    BY <1>4, <1>8 DEF ToggleTicker, Quit
  <1>9. QED
    BY Next, <1>1, <1>2, <1>3, <1>5, <1>6, <1>7, <1>8 DEF Next, Key, Command

\* The counter of the model's bound on pauses.
LEMMA PausesCounted ==
    ASSUME pauses \in 0..MaxPauses, PauseAct
    PROVE  pauses' \in 0..MaxPauses
  <1>1. pauses' = pauses \/ Ask
    BY PauseAct DEF PauseAct, PauseStep, SendPause, ServerReceives, ConfigUpdate, PauseUpdate,
       OnTrip, TripAsks, Disconnect, Reconnect, ServerPauses
  <1>2. ASSUME Ask PROVE pauses' \in 0..MaxPauses
    BY <1>2, PauseAssumption DEF Ask, PauseAssumption
  <1>3. QED
    BY <1>1, <1>2

LEMMA UpdateTypesKept ==
    ASSUME UpdateTypeOK, UpdateInv, Next
    PROVE  UpdateTypeOK'
  <1> USE DEF Running
  <1>1. CASE Running(Updates)
    <2>1. CASE fetchExpectedHash
      BY <2>1, UpdateTypeOK DEF fetchExpectedHash, Fails, UpdateTypeOK
    <2>2. CASE Download
      BY <2>2, UpdateTypeOK DEF Download, Fails, UpdateTypeOK
    <2>3. CASE Verify
      BY <2>3, UpdateTypeOK DEF Verify, Fails, UpdateTypeOK
    <2>4. CASE Replace
      BY <2>4, UpdateTypeOK, UpdateInv DEF Replace, Fails, UpdateTypeOK, UpdateInv
    <2>5. CASE MoveAway
      BY <2>5, UpdateTypeOK DEF MoveAway, Fails, UpdateTypeOK
    <2>6. CASE Install
      BY <2>6, UpdateTypeOK, UpdateInv DEF Install, Fails, UpdateTypeOK, UpdateInv
    <2>7. QED
      BY <1>1, <2>1, <2>2, <2>3, <2>4, <2>5, <2>6 DEF Updates, performUpdate
  <1>2. CASE Running(ConfirmUpdate)
    BY <1>2, UpdateTypeOK DEF ConfirmUpdate, Begin, UpdateTypeOK
  <1>3. CASE Running(UpdateEnds)
    BY <1>3, UpdateTypeOK DEF UpdateEnds, UpdateTypeOK
  <1>4. ASSUME UNCHANGED updateVars PROVE UpdateTypeOK'
    BY <1>4, UpdateTypeOK DEF updateVars, UpdateTypeOK
  <1>5. CASE Running(Key) /\ ~ConfirmUpdate
    BY <1>4, <1>5 DEF Key, ShowSettings, Back, AskUpdate, AskKill, ConfirmKill, PauseKey,
       AskQuit, OpenEdit, Submit, CloseEdit, Show, otherVars
  <1>6. CASE Running(Command) /\ ~UpdateEnds
    BY <1>4, <1>6 DEF Command, RegistrationEnds, EncryptionEnds, DeletionEnds, KillEnds, KillFails,
       KillSucceeds, Result, otherVars
  <1>7. CASE Running(Pauses)
    BY <1>4, <1>7 DEF Pauses
  <1>8. CASE process = "running" /\ (ToggleTicker \/ Quit)
    BY <1>4, <1>8 DEF ToggleTicker, Quit
  <1>9. QED
    BY Next, <1>1, <1>2, <1>3, <1>5, <1>6, <1>7, <1>8 DEF Next, Key, Command

TypeInv ==
    /\ PauseTypes /\ pauses \in 0..MaxPauses
    /\ UpdateTypeOK /\ BinaryInv   \* what is installed is a download of its kind
    /\ ScreenOK /\ quitting \in BOOLEAN /\ KillOK

\* Screen and commands belong together: a command that keeps the keys always has
\* the screen that waits for it, an update its view, and every edit a step
\* (tuiModel.Update, handleEditKey).
THEOREM TuiTypeCorrect == Spec => []TypeOK
  <1>1. Init => TypeInv
    <2> SUFFICES ASSUME Init PROVE TypeInv
      OBVIOUS
    <2>1. PauseTypes
      BY PauseInitially
    <2>2. pauses \in 0..MaxPauses
      <3>1. 0 \in 0..MaxPauses
        BY PauseAssumption DEF PauseAssumption
      <3>2. QED
        BY <3>1 DEF Init, PauseInit
    <2>3. UpdateTypeOK /\ BinaryInv
      BY DEF Init, UpdateInit, UpdateTypeOK, BinaryInv, UpdateInv, RestartInv
    <2>4. ScreenOK
      BY DEF Init, UpdateInit, ScreenOK, Busy
    <2>5. KillOK /\ quitting \in BOOLEAN
      <3>1. 0 \in 0..MaxKills
        BY TuiAssumption DEF TuiAssumption
      <3>2. QED
        BY <3>1 DEF Init, KillOK
    <2>6. QED
      BY <2>1, <2>2, <2>3, <2>4, <2>5 DEF TypeInv
  <1>2. TypeInv /\ [Next]_vars => TypeInv'
    <2> SUFFICES ASSUME TypeInv, [Next]_vars PROVE TypeInv'
      OBVIOUS
    <2>1. CASE Next
      <3>1. PauseTypes' /\ pauses' \in 0..MaxPauses
        <4>1. CASE PauseAct
          BY <4>1, PauseTypesKept, PausesCounted DEF TypeInv
        <4>2. CASE UNCHANGED pauseVars
          BY <4>2 DEF TypeInv, pauseVars, PauseTypes
        <4>3. QED
          BY <2>1, <4>1, <4>2, PauseOfStep
      <3>2. UpdateTypeOK' /\ BinaryInv' /\ ScreenOK' /\ (quitting \in BOOLEAN)' /\ KillOK'
        BY <2>1, UpdateTypesKept, BinaryInvKept, ScreenKept, QuittingKept, KillKept
           DEF TypeInv, BinaryInv
      <3>3. QED
        BY <3>1, <3>2 DEF TypeInv
    <2>2. CASE UNCHANGED vars
      <3>1. PauseTypes' /\ (pauses \in 0..MaxPauses)'
        BY <2>2 DEF vars, TypeInv, PauseTypes
      <3>2. UpdateTypeOK' /\ (quitting \in BOOLEAN)'
        BY <2>2 DEF vars, TypeInv, UpdateTypeOK
      <3>3. ScreenOK' /\ KillOK'
        BY <2>2 DEF vars, TypeInv, ScreenOK, KillOK
      <3>4. BinaryInv'
        BY <2>2 DEF vars, TypeInv, BinaryInv, UpdateInv, RestartInv
      <3>5. QED
        BY <3>1, <3>2, <3>3, <3>4 DEF TypeInv
    <2>3. QED
      BY <2>1, <2>2
  <1>3. TypeInv => TypeOK
    BY DEF TypeInv, PauseTypes, ScreenOK, KillOK, TypeOK, PauseTypeOK
  <1>4. QED
    BY <1>1, <1>2, <1>3, PTL DEF Spec

\* When nothing is on its way, UI, client and server agree on the pause, however
\* many pauses, trips and sessions cross (the messages client_pause and
\* config_update, client.go:309, 538, tui.go:325).
THEOREM TuiPausesAgree == Spec => []PausesAgree
  <1>1. Init => PauseTypes /\ PauseInv
    BY PauseInitially
  <1>2. PauseTypes /\ PauseInv /\ [Next]_vars => (PauseTypes /\ PauseInv)'
    <2> SUFFICES ASSUME PauseTypes, PauseInv, [Next]_vars PROVE PauseTypes' /\ PauseInv'
      OBVIOUS
    <2>1. PauseAct \/ UNCHANGED pauseVars
      BY PauseOfStep DEF vars, pauseVars
    <2>2. QED
      BY <2>1, PauseTypesKept, PauseInvKept, PauseUnchanged
  <1>3. PauseTypes /\ PauseInv => PausesAgree
    BY DEF PauseTypes, PauseInv, PausesAgree, Settled
  <1>4. QED
    BY <1>1, <1>2, <1>3, PTL DEF Spec

\* Whatever fails during an update and whenever the process ends, the program at
\* its path is the old one or the verified release, or was moved to .old on
\* Windows; a restart starts the release (performUpdate, cmdRun).
THEOREM TuiBinaryKept == Spec => []BinaryKept
  <1>1. Init => BinaryInv
    BY DEF Init, UpdateInit, BinaryInv, UpdateInv, RestartInv
  <1>2. BinaryInv /\ [Next]_vars => BinaryInv'
    <2>1. BinaryInv /\ UNCHANGED vars => BinaryInv'
      BY DEF vars, BinaryInv, UpdateInv, RestartInv
    <2>2. QED
      BY <2>1, BinaryInvKept
  <1>3. BinaryInv => BinaryKept
    BY DEF BinaryInv, UpdateInv, RestartInv, BinaryKept
  <1>4. QED
    BY <1>1, <1>2, <1>3, PTL DEF Spec
=============================================================================
