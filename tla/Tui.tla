--------------------------------- MODULE Tui ---------------------------------
(***************************************************************************)
(* The state machine of the terminal UI (tuiModel.Update in cmd/bot/tui.go *)
(* and the edit steps of view_edit.go): a key or a message is one action,  *)
(* and the commands it starts run in goroutines of their own until the     *)
(* event loop takes their result.  "main" stands for logs, trades and      *)
(* positions, which take the same keys, and "done" for the four last steps *)
(* of an edit.  What an edit writes is in BotConfig, what the kill switch  *)
(* does in KillSwitch, how the loop waits for locks in UiLoop.             *)
(***************************************************************************)
EXTENDS PauseState, SelfUpdate

CONSTANT MaxKills   \* bound of the model: runs of the kill switch at a time

ASSUME TuiAssumption == MaxKills \in Nat

VARIABLES
    process,        \* "running", "ended", or "restarted" as the file at execPath
    view,           \* m.activeView
    step,           \* m.edit.step, "none" outside of the edit view
    command,        \* the command of an edit that runs in a goroutine, or "none"
    killStatus, killRuns,
    updateStatus,
    quitting        \* Quit is on its way to the loop

editVars == <<view, step, command>>
killVars == <<killStatus, killRuns>>
vars == <<process, view, step, command, killStatus, killRuns, updateStatus,
          quitting, shownPaused, paused, serverPaused, connected, toServer, toClient,
          toUi, tripping, apart, pauses, windows, updating, download, binary, oldCopy>>

Busy == {"registering", "encrypting", "deleting"}

Inputs == {"keyInput", "pass1", "pass2", "leverage", "orderSize", "deleteConfirm"}

Init ==
    /\ PauseInit /\ UpdateInit
    /\ process = "running"
    /\ view = "main" /\ step = "none" /\ command = "none"
    /\ killStatus = "" /\ killRuns = 0
    /\ updateStatus = ""
    /\ quitting = FALSE

-----------------------------------------------------------------------------
\* Keys outside of the edit view.

Show(v) ==
    /\ view' = v
    /\ UNCHANGED <<step, command, killVars, updateStatus, quitting, pauseVars, updateVars>>

ShowSettings == view = "main" /\ Show("settings")

Back ==
    /\ \/ view \in {"settings", "updateConfirm", "killConfirm"}
       \/ view = "updateProgress" /\ updateStatus = "error"
    /\ Show("main")

\* Once a version_info has announced an update, which may be at any time.
AskUpdate == view \in {"main", "settings"} /\ Show("updateConfirm")

ConfirmUpdate ==
    /\ view = "updateConfirm"
    /\ view' = "updateProgress" /\ updateStatus' = "downloading"
    /\ Begin
    /\ UNCHANGED <<step, command, killVars, quitting, pauseVars>>

AskKill ==
    /\ view = "main"
    /\ view' = "killConfirm" /\ killStatus' = ""
    /\ UNCHANGED <<step, command, killRuns, updateStatus, quitting, pauseVars, updateVars>>

\* Also while a run is going on.
ConfirmKill ==
    /\ view = "killConfirm"
    /\ killRuns < MaxKills
    /\ killStatus' = "running" /\ killRuns' = killRuns + 1
    /\ UNCHANGED <<editVars, updateStatus, quitting, pauseVars, updateVars>>

PauseKey ==
    /\ view \in {"main", "settings"}
    /\ TogglePause
    /\ UNCHANGED <<editVars, killVars, updateStatus, quitting, updateVars>>

\* By a key, which an edit, the kill switch and a download ignore, or at any time
\* by a signal.
AskQuit ==
    /\ ~quitting
    /\ quitting' = TRUE
    /\ UNCHANGED <<editVars, killVars, updateStatus, pauseVars, updateVars>>

-----------------------------------------------------------------------------
\* Keys of the edit view.

otherVars == <<killVars, updateStatus, pauseVars, updateVars>>

\* Without a private key in .env there is nothing to encrypt.
OpenEdit ==
    /\ view = "settings"
    /\ view' = "edit"
    /\ step' \in {"keyInput", "pass1", "done", "leverage", "ticker", "deleteConfirm"}
    /\ UNCHANGED <<command, quitting, otherVars>>

NextStep ==
    [keyInput |-> "registering", pass1 |-> "pass2", pass2 |-> "encrypting",
     leverage |-> "orderSize", orderSize |-> "done", deleteConfirm |-> "deleting"]

\* Enter on a value that is accepted; any other leaves the step as it is.
Submit ==
    /\ step \in Inputs
    /\ step' = NextStep[step]
    /\ command' = IF step' \in Busy THEN step' ELSE command
    /\ UNCHANGED <<view, quitting, otherVars>>

FaultyCloseEdit ==
    /\ view = "edit"
    /\ view' = "settings" /\ step' = "none"
    /\ UNCHANGED <<command, quitting, otherVars>>

CloseEdit ==
    /\ view = "edit" /\ step \notin Busy
    /\ view' = "settings" /\ step' = "none"
    /\ UNCHANGED <<command, quitting, otherVars>>

-----------------------------------------------------------------------------
\* Results of commands.

\* The result sets the step, whatever the screen shows.
Result(c, steps) ==
    /\ command = c /\ command' = "none"
    /\ step' \in steps
    /\ UNCHANGED <<view, otherVars>>

FaultyRegistrationEnds == Result("registering", {"done", step}) /\ UNCHANGED quitting

RegistrationEnds == Result("registering", {"done", "keyInput"}) /\ UNCHANGED quitting

EncryptionEnds == Result("encrypting", {"done"}) /\ UNCHANGED quitting

\* Deleted, the program ends.
DeletionEnds == Result("deleting", {"done"}) /\ quitting' \in {quitting, TRUE}

KillFails ==
    /\ killRuns > 0
    /\ killRuns' = killRuns - 1 /\ killStatus' = "error"
    /\ UNCHANGED <<editVars, updateStatus, quitting, pauseVars, updateVars>>

KillSucceeds ==
    /\ killRuns > 0
    /\ killRuns' = killRuns - 1 /\ killStatus' = "done"
    /\ SendPause(TRUE)
    /\ UNCHANGED <<editVars, updateStatus, quitting, updateVars>>

KillEnds == KillFails \/ KillSucceeds

UpdateEnds ==
    /\ \/ updating = "failed" /\ updateStatus' = "error" /\ UNCHANGED quitting
       \/ updating = "done" /\ updateStatus' = "restarting" /\ quitting' = TRUE
    /\ updating' = "idle"
    /\ UNCHANGED <<editVars, killVars, pauseVars, windows, download, binary, oldCopy>>

-----------------------------------------------------------------------------
\* The rest of the process.

\* fetchTickerPrices may be reading the map this key writes: the runtime may
\* end the process, and whatever else the race does stays in the ticker line.
ToggleTicker ==
    /\ step = "ticker"
    /\ process' \in {"running", "ended"}
    /\ UNCHANGED <<editVars, killVars, updateStatus, quitting, pauseVars, updateVars>>

\* The loop ends, the client is stopped, and after an update the process becomes
\* the program at execPath, on Windows by hand.  Nothing waits for commands.
Quit ==
    /\ quitting
    /\ process' = IF updateStatus = "restarting" /\ ~windows THEN "restarted" ELSE "ended"
    /\ UNCHANGED <<editVars, killVars, updateStatus, quitting, pauseVars, updateVars>>

Pauses ==
    /\ PauseStep
    /\ UNCHANGED <<editVars, killVars, updateStatus, quitting, updateVars>>

Updates ==
    /\ performUpdate
    /\ UNCHANGED <<editVars, killVars, updateStatus, quitting, pauseVars>>

Command == RegistrationEnds \/ EncryptionEnds \/ DeletionEnds \/ KillEnds \/ UpdateEnds

Key ==
    \/ ShowSettings \/ Back \/ AskUpdate \/ ConfirmUpdate \/ AskKill \/ ConfirmKill
    \/ PauseKey \/ AskQuit \/ OpenEdit \/ Submit \/ CloseEdit

Running(A) == process = "running" /\ A /\ UNCHANGED process

Next ==
    \/ Running(Key) \/ Running(Command) \/ Running(Pauses) \/ Running(Updates)
    \/ process = "running" /\ (ToggleTicker \/ Quit)

\* Every request of a command has a timeout but those of the update.
Fairness ==
    /\ WF_vars(Running(RegistrationEnds)) /\ WF_vars(Running(EncryptionEnds))
    /\ WF_vars(Running(DeletionEnds)) /\ WF_vars(Running(KillEnds))

Spec == Init /\ [][Next]_vars /\ Fairness
-----------------------------------------------------------------------------
\* The screen and what goes on behind it belong together: an edit has a step, a
\* command that keeps the keys is always answered by a view that waits for it,
\* and an update is under way only behind its own view (tui.go:172-290).
TypeOK ==
    /\ PauseTypeOK /\ UpdateTypeOK
    /\ process \in {"running", "ended", "restarted"}
    /\ view \in {"main", "settings", "edit", "killConfirm", "updateConfirm", "updateProgress"}
    /\ step \in Busy \cup Inputs \cup {"none", "ticker", "done"}
    /\ (step # "none") = (view = "edit")
    /\ command = IF step \in Busy THEN step ELSE "none"
    /\ killRuns \in 0..MaxKills
    /\ killStatus \in {"", "running", "done", "error"}
    /\ killStatus = "running" => killRuns > 0
    /\ updateStatus \in {"", "downloading", "error", "restarting"}
    /\ updating # "idle" => view = "updateProgress" /\ updateStatus = "downloading"
    /\ quitting \in BOOLEAN

\* A step of an edit that ignores every key, and a kill switch that is said to
\* run, end at last, in a result or with the process (view_edit.go:199,
\* tui.go:665, 897).  A download is not among them: it has no timeout.
BusyEnds ==
    /\ \A s \in Busy : step = s ~> step # s \/ process # "running"
    /\ killStatus = "running" ~> killStatus # "running" \/ process # "running"

\* Whatever fails or ends the process, what is at execPath is the old program or
\* the release whose checksum was fetched, or it is missing on Windows with the
\* old one beside it; and a restart after an update starts the release
\* (selfupdate.go:102-135, cmd_run.go:348).
BinaryKept ==
    /\ binary = "missing" => windows /\ oldCopy
    /\ binary # "other"
    /\ process = "restarted" => binary = "release"
=============================================================================
