------------------------------ MODULE SelfUpdate ------------------------------
(***************************************************************************)
(* The replacement of the program by its latest release (performUpdate in  *)
(* cmd/bot/selfupdate.go), which runs in a goroutine of its own and can be *)
(* cut off at any step by the end of the process.  Unix renames the new    *)
(* file over the old one; Windows moves the running one to .old first.     *)
(* Contents are told apart by whether they are the release whose checksum  *)
(* was fetched; the temporary file is the goroutine's own.                 *)
(***************************************************************************)
VARIABLES
    windows,    \* runtime.GOOS = "windows"
    updating,   \* the step performUpdate is at; "done", "failed": its result
    download,   \* what the temporary file holds
    binary,     \* what is at execPath: "old", "release", "other", "missing"
    oldCopy     \* the old program is at execPath.old

updateVars == <<windows, updating, download, binary, oldCopy>>

UpdateInit ==
    /\ windows \in BOOLEAN
    /\ updating = "idle"
    /\ download = "nothing"
    /\ binary = "old"
    /\ oldCopy \in {FALSE, windows}     \* from an earlier update

\* A path that does not exist cannot be resolved.
Begin ==
    /\ updating' = IF binary = "missing" THEN "failed" ELSE "fetching"
    /\ UNCHANGED <<windows, download, binary, oldCopy>>

\* The temporary file is removed.
Fails == updating' = "failed" /\ download' = "nothing"

\* The checksums, and the temporary file; neither request has a timeout.
fetchExpectedHash ==
    /\ updating = "fetching"
    /\ \/ updating' = "downloading" /\ UNCHANGED download
       \/ Fails
    /\ UNCHANGED <<windows, binary, oldCopy>>

\* "latest" may have moved on since, and a transfer may be cut short unnoticed.
Download ==
    /\ updating = "downloading"
    /\ \/ updating' = "verifying" /\ download' \in {"release", "other"}
       \/ Fails
    /\ UNCHANGED <<windows, binary, oldCopy>>

FaultyVerify ==
    /\ updating = "verifying"
    /\ \/ updating' = "replacing" /\ UNCHANGED download
       \/ Fails
    /\ UNCHANGED <<windows, binary, oldCopy>>

\* The checksum; and the permissions, which may fail.
Verify ==
    /\ updating = "verifying"
    /\ \/ download = "release" /\ updating' = "replacing" /\ UNCHANGED download
       \/ Fails
    /\ UNCHANGED <<windows, binary, oldCopy>>

Replace ==
    /\ updating = "replacing" /\ ~windows
    /\ \/ updating' = "done" /\ binary' = download /\ download' = "nothing"
       \/ Fails /\ UNCHANGED binary
    /\ UNCHANGED <<windows, oldCopy>>

\* An earlier .old is removed first, if that succeeds.
MoveAway ==
    /\ updating = "replacing" /\ windows
    /\ \/ /\ updating' = "installing" /\ binary' = "missing" /\ oldCopy' = TRUE
          /\ UNCHANGED download
       \/ Fails /\ oldCopy' \in {oldCopy, FALSE} /\ UNCHANGED binary
    /\ UNCHANGED windows

\* The rollback is tried once and its error ignored.
Install ==
    /\ updating = "installing"
    /\ \/ /\ updating' = "done" /\ binary' = download /\ download' = "nothing"
          /\ UNCHANGED oldCopy
       \/ Fails /\ binary' = "old" /\ oldCopy' = FALSE
       \/ Fails /\ UNCHANGED <<binary, oldCopy>>
    /\ UNCHANGED windows

performUpdate ==
    fetchExpectedHash \/ Download \/ Verify \/ Replace \/ MoveAway \/ Install

UpdateTypeOK ==
    /\ windows \in BOOLEAN /\ oldCopy \in BOOLEAN
    /\ updating \in {"idle", "fetching", "downloading", "verifying", "replacing",
                     "installing", "done", "failed"}
    /\ download \in {"nothing", "release", "other"}
    /\ binary \in {"old", "release", "other", "missing"}
=============================================================================
