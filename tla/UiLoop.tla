------------------------------- MODULE UiLoop -------------------------------
(***************************************************************************)
(* The event loop of the terminal UI and the goroutines that send to it    *)
(* (cmd/bot/cmd_run.go, tui.go, loghandler.go) with the locks they share:  *)
(* TUILogHandler.mu, held while a line is sent, and RiskValidator.mu, held *)
(* for reading while an instruction is validated and for writing while the *)
(* limits are replaced, and Client.connMu, held while anything is written  *)
(* to the relay.  Program.Send (bubbletea, external) hands a message to the*)
(* event loop and returns when the loop has taken it, or at once when the  *)
(* program is over; before the loop runs it waits.                         *)
(*                                                                         *)
(* Lines are numbered per goroutine.  The log view's limit of 1000 lines,  *)
(* the other handlers behind MultiHandler and the messages that only change*)
(* what is drawn are left out.                                             *)
(***************************************************************************)
EXTENDS TradeStore, FiniteSets

CONSTANTS
    Session,    \* the goroutine that reads from the relay and validates
    Worker,     \* the goroutine that executes instructions
    Nobody,     \* no goroutine
    MaxLines    \* bound of the model: the lines of each goroutine

\* The others that log or write (pings, oracle refresh, breaker) hold no other
\* lock meanwhile, like the worker.
Loggers == {Session, Worker}

Lines == Loggers \X (Nat \ {0})

ASSUME UiAssumption ==
    /\ Session # Worker
    /\ Nobody \notin Loggers
    /\ MaxLines \in [Loggers -> Nat]
    /\ 1..MaxLines[Worker] \subseteq Record

VARIABLES
    ui,         \* where the main goroutine is
    program,    \* h.program # nil
    holder,     \* who holds h.mu
    pc,         \* where each logging goroutine is
    logged,     \* lines each of them has begun to log
    reading,    \* the session holds v.mu for reading
    buf,        \* h.buf
    flush,      \* the lines FlushCmd took ...
    flushing,   \* ... and whether they are still to be delivered
    shown,      \* history of m.logLines
    unshown,    \* lines sent when the program was over
    quitting,   \* somebody asked the program to quit
    link        \* the session's connection: "open"; "stuck", the server does not
                \* read and the buffers between are full; "broken", lost or closed
                \* and the session has not noticed; "dialing", or waiting to dial
                \* again; "ended", the context is cancelled and the session over

vars == <<ui, program, holder, pc, logged, reading, buf, flush, flushing,
          shown, unshown, quitting, link, records, cursor, count, added>>

textVars == <<buf, flush, flushing, shown, unshown>>

Stopping == ui \in {"stopping", "closing", "stopped", "done"}

\* What the session reads from a connection that is broken counts as read before.
InSession == link \in {"open", "stuck"}

\* Stop cancels the context before it takes connMu.
Cancelled == ui \in {"closing", "stopped", "done"}

\* Who holds connMu is the one that writes.
ConnFree == ui \notin {"asking", "closing"} /\ \A g \in Loggers : pc[g] # "writing"

\* From the start of the relay client, before the program is made.
Init ==
    /\ ui = "setup"
    /\ program = FALSE
    /\ holder = Nobody
    /\ pc = [g \in Loggers |-> "idle"]
    /\ logged = [g \in Loggers |-> 0]
    /\ reading = FALSE
    /\ buf = << >>
    /\ flush = << >>
    /\ flushing = FALSE
    /\ shown = << >>
    /\ unshown = {}
    /\ quitting = FALSE
    /\ link \in {"open", "dialing"}
    /\ StoreInit

Line(g) == <<g, logged[g]>>

-----------------------------------------------------------------------------
\* The main goroutine.

SetProgram ==
    /\ ui = "setup" /\ ui' = "starting"
    /\ holder = Nobody
    /\ program' = TRUE
    /\ UNCHANGED <<holder, pc, logged, reading, textVars, quitting, link, storeVars>>

FaultyFlushCmd ==
    /\ ui = "starting" /\ ui' = "waiting"
    /\ holder = Nobody
    /\ flush' = buf /\ flushing' = (buf # << >>)
    /\ UNCHANGED <<program, holder, pc, logged, reading, buf, shown, unshown,
                   quitting, link, storeVars>>

\* Run calls Init, which calls FlushCmd; the event loop starts after that.
FlushCmd ==
    /\ ui = "starting" /\ ui' = "waiting"
    /\ holder = Nobody
    /\ flush' = buf /\ flushing' = (buf # << >>)
    /\ buf' = << >>
    /\ UNCHANGED <<program, holder, pc, logged, reading, shown, unshown,
                   quitting, link, storeVars>>

\* The loop takes the message of FlushCmd's goroutine.
ReceiveFlush ==
    /\ ui = "waiting"
    /\ flushing /\ flushing' = FALSE
    /\ shown' = shown \o flush
    /\ UNCHANGED <<ui, program, holder, pc, logged, reading, buf, flush,
                   unshown, quitting, link, storeVars>>

MainMoves(from, to) ==
    /\ ui = from /\ ui' \in to
    /\ UNCHANGED <<program, holder, pc, logged, reading, textVars, quitting, storeVars>>

\* The last Enter of an edit of the limits: config.json is written first, and
\* the limits are replaced only if that succeeds.
ConfirmEdit == MainMoves("waiting", {"saving"}) /\ UNCHANGED link

Saved == MainMoves("saving", {"locking", "waiting"}) /\ UNCHANGED link

FaultyUpdateLimits == MainMoves("locking", {"waiting"}) /\ UNCHANGED link

\* From "locking" on, a writer is announced: it waits for the reader inside,
\* and new readers wait for it.
UpdateLimits == ~reading /\ MainMoves("locking", {"waiting"}) /\ UNCHANGED link

\* The pause key, the end of the kill switch, a new API key: all take connMu in
\* Update, the last of them without writing.
AskConn == MainMoves("waiting", {"connecting"}) /\ UNCHANGED link

SendPause ==
    /\ ConnFree
    /\ MainMoves("connecting", {"asking", "waiting"}) /\ UNCHANGED link

PauseSent == link # "stuck" /\ MainMoves("asking", {"waiting"}) /\ UNCHANGED link

\* A key, or a signal, whose goroutine exists once the program is set.
RequestQuit ==
    /\ program /\ ~Stopping
    /\ ~quitting /\ quitting' = TRUE
    /\ UNCHANGED <<ui, program, holder, pc, logged, reading, textVars, link, storeVars>>

\* The loop takes QuitMsg and Run ends the program.
Quit == quitting /\ MainMoves("waiting", {"stopping"}) /\ UNCHANGED link

\* Stop writes a close message and closes the connection, under connMu ...
StopCloses == ConnFree /\ MainMoves("stopping", {"closing"}) /\ UNCHANGED link

StopClosed ==
    /\ link # "stuck"
    /\ MainMoves("closing", {"stopped"})
    /\ link' = IF link = "open" THEN "broken" ELSE link

\* ... and returns when the goroutines of the client have ended.
StopReturns ==
    /\ link = "ended" /\ ~reading /\ \A g \in Loggers : pc[g] = "idle"
    /\ MainMoves("stopped", {"done"}) /\ UNCHANGED link

-----------------------------------------------------------------------------
\* The goroutines that log and write.

Moves(g, from, to) ==
    /\ pc[g] = from
    /\ \E p \in to : pc' = [pc EXCEPT ![g] = p]

Begins(g, p) == ui # "done" /\ Moves(g, "idle", {p})

Logs(g) ==
    /\ Begins(g, "logging")
    /\ logged[g] < MaxLines[g]
    /\ logged' = [logged EXCEPT ![g] = @ + 1]
    /\ UNCHANGED <<ui, program, holder, reading, textVars, quitting, link>>

\* slog.Info and the like in the session; with v.mu held for reading this is
\* the warning about clamped leverage.
SessionLogs == link # "ended" /\ Logs(Session) /\ UNCHANGED storeVars

FaultyRecordStep ==
    /\ Logs(Worker)
    /\ IF logged[Worker] = 0 THEN UNCHANGED storeVars ELSE Add(logged[Worker])

\* A step of an instruction has ended: its trade is recorded, then logged.
RecordStep == Logs(Worker) /\ Add(logged'[Worker])

\* The handler of the relay comes after that of the UI: it writes the line to the
\* server, unless there is no session, or the client is paused.
Relayed == {"idle", "relaying"}

\* Handle before the program is set.
Buffer(g) ==
    /\ ~program /\ holder = Nobody
    /\ Moves(g, "logging", Relayed)
    /\ buf' = Append(buf, Line(g))
    /\ UNCHANGED <<ui, program, holder, logged, reading, flush, flushing,
                   shown, unshown, quitting, link, storeVars>>

\* Handle once it is set takes h.mu and calls Send ...
Send(g) ==
    /\ program /\ holder = Nobody
    /\ Moves(g, "logging", {"sending"})
    /\ holder' = g
    /\ UNCHANGED <<ui, program, logged, reading, textVars, quitting, link, storeVars>>

FaultySent(g) ==
    /\ Moves(g, "sending", Relayed)
    /\ \/ ui = "waiting" /\ shown' = Append(shown, Line(g)) /\ UNCHANGED unshown
       \/ Stopping /\ unshown' = unshown \cup {Line(g)} /\ UNCHANGED shown
    /\ UNCHANGED <<ui, program, holder, logged, reading, buf, flush, flushing,
                   quitting, link, storeVars>>

\* ... which returns when the loop has taken the line, or drops it when the
\* program is over.
Sent(g) ==
    /\ Moves(g, "sending", Relayed)
    /\ \/ ui = "waiting" /\ shown' = Append(shown, Line(g)) /\ UNCHANGED unshown
       \/ Stopping /\ unshown' = unshown \cup {Line(g)} /\ UNCHANGED shown
    /\ holder' = Nobody
    /\ UNCHANGED <<ui, program, logged, reading, buf, flush, flushing,
                   quitting, link, storeVars>>

Others ==
    UNCHANGED <<ui, program, holder, logged, reading, textVars, quitting, storeVars>>

\* A message of the server makes the session send one to the loop, without
\* h.mu; the callbacks that do are set after the program is.
Notify ==
    /\ program /\ InSession /\ ~reading
    /\ Begins(Session, "notifying")
    /\ Others /\ UNCHANGED link

Notified ==
    /\ ui = "waiting" \/ Stopping
    /\ Moves(Session, "notifying", {"idle"})
    /\ Others /\ UNCHANGED link

\* Pongs, pings, refusals, results, the authentication.  The worker takes no new
\* instruction after Stop.
BeginWrite(g) ==
    /\ g = Session => ~reading /\ InSession
    /\ g = Worker => ui # "stopped"
    /\ Begins(g, "relaying")
    /\ Others /\ UNCHANGED link

TakeConn(g) == ConnFree /\ Moves(g, "relaying", {"writing"}) /\ Others /\ UNCHANGED link

\* No write has a deadline; it fails once the connection is closed or broken.
Written(g) == link # "stuck" /\ Moves(g, "writing", {"idle"}) /\ Others /\ UNCHANGED link

-----------------------------------------------------------------------------
\* The connection.

Link(from, to) ==
    /\ link \in from /\ link' = to
    /\ UNCHANGED <<ui, program, holder, pc, logged, reading, textVars, quitting, storeVars>>

ServerStalls == Link({"open"}, "stuck")

ServerReads == Link({"stuck"}, "open")

\* A reset, a timeout of TCP, a server that closes: whoever writes gets an error.
ConnectionBreaks == Link({"open", "stuck"}, "broken")

AfterSession == IF Cancelled THEN "ended" ELSE "dialing"

FaultySessionEnds ==
    /\ ConnFree /\ pc[Session] = "idle" /\ ~reading
    /\ Link({"open", "stuck", "broken"}, AfterSession)

\* The session's next read fails, after sixty seconds without a ping at the latest,
\* or the authentication has failed; the session closes its connection.
SessionEnds ==
    /\ pc[Session] = "idle" /\ ~reading
    /\ Link({"open", "stuck", "broken"}, AfterSession)

\* A dial that succeeds before it is cancelled assigns c.conn under connMu, even
\* when Stop has closed the one before it.
Dialed == pc[Session] = "idle" /\ ConnFree /\ Link({"dialing"}, "open")

\* A dial that fails is repeated, unless it was cancelled.
DialCancelled == Cancelled /\ pc[Session] = "idle" /\ Link({"dialing"}, "ended")

-----------------------------------------------------------------------------
\* Validations by the session.

Reads(b) ==
    /\ reading' = b
    /\ UNCHANGED <<ui, program, holder, pc, logged, textVars, quitting, link, storeVars>>

\* Validate takes v.mu for reading, unless a writer waits for it.
BeginValidate ==
    /\ InSession /\ ui # "locking"
    /\ pc[Session] = "idle" /\ ~reading
    /\ Reads(TRUE)

EndValidate == reading /\ pc[Session] = "idle" /\ Reads(FALSE)

-----------------------------------------------------------------------------
\* What the user starts, and what the program does by itself.
UserStep == ConfirmEdit \/ AskConn \/ RequestQuit

MainStep ==
    SetProgram \/ FlushCmd \/ Saved \/ UpdateLimits \/ SendPause \/ PauseSent
        \/ StopCloses \/ StopClosed \/ StopReturns

HandlerStep(g) ==
    \/ Buffer(g) \/ Send(g) \/ Sent(g) \/ TakeConn(g) \/ Written(g)
    \/ g = Session /\ (Notified \/ EndValidate)

Next ==
    \/ UserStep \/ MainStep \/ Quit \/ ReceiveFlush
    \/ \E g \in Loggers : HandlerStep(g) \/ BeginWrite(g)
    \/ SessionLogs \/ RecordStep \/ Notify \/ BeginValidate
    \/ ServerStalls \/ ServerReads \/ ConnectionBreaks \/ SessionEnds
    \/ Dialed \/ DialCancelled

Spec == Init /\ [][Next]_vars

\* The goroutines run, whoever waits for a mutex gets it, and the loop takes
\* from every sender in turn, Quit included.  Nothing makes a user edit or quit,
\* a goroutine log, the server speak or read, or a connection break.  A session whose
\* server does not read ends by its read deadline, which only pings move, and they are
\* answered; one whose connection is broken reads an error; a dial that is cancelled ends.
Fairness ==
    /\ SF_vars(MainStep) /\ SF_vars(Quit)
    /\ \A g \in Loggers : SF_vars(HandlerStep(g))
    /\ SF_vars(link # "open" /\ SessionEnds)
    /\ WF_vars(DialCancelled)

FairSpec == Spec /\ Fairness

-----------------------------------------------------------------------------
Occurrences(line, s) == Cardinality({i \in DOMAIN s : s[i] = line})

\* Types, those of the ring included.
TypeOK ==
    /\ ui \in {"setup", "starting", "waiting", "saving", "locking", "connecting",
               "asking", "stopping", "closing", "stopped", "done"}
    /\ program \in BOOLEAN
    /\ holder \in Loggers \cup {Nobody}
    /\ pc \in [Loggers -> {"idle", "logging", "sending", "notifying",
                           "relaying", "writing"}]
    /\ logged \in [Loggers -> Nat]
    /\ \A g \in Loggers : logged[g] <= MaxLines[g]
    /\ reading \in BOOLEAN /\ flushing \in BOOLEAN /\ quitting \in BOOLEAN
    /\ buf \in Seq(Lines) /\ flush \in Seq(Lines) /\ shown \in Seq(Lines)
    /\ unshown \subseteq Lines
    /\ \A g \in Loggers : holder = g <=> pc[g] = "sending"
    /\ Cardinality({g \in Loggers : pc[g] = "writing"})
       + (IF ui \in {"asking", "closing"} THEN 1 ELSE 0) <= 1
    /\ link \in {"open", "stuck", "broken", "dialing", "ended"}
    /\ StoreTypeOK

\* The ways to wait in a circle.  A line sent between SetProgram and the
\* event loop holds h.mu until the loop takes it, and the loop starts after
\* Init has had h.mu (loghandler.go:39).  A line logged while an instruction
\* is validated holds v.mu until the loop takes it, or a line before it, and
\* the loop waits for v.mu (tui.go:851, validator.go:98).
StartCircle ==
    ui = "starting" /\ holder # Nobody

EditCircle ==
    /\ ui = "locking"
    /\ reading
    /\ pc[Session] \in {"logging", "sending"}

\* A write that the server does not take holds connMu, and the session, which
\* alone in the program would end the connection, waits for connMu or for a loop
\* that does (client.go:307, 509).
PeerCircle ==
    /\ link = "stuck" /\ ~ConnFree
    /\ \/ pc[Session] \in {"relaying", "writing"}
       \/ pc[Session] \in {"logging", "sending", "notifying"} /\ ui \in {"connecting", "asking"}

Circle == StartCircle \/ EditCircle \/ PeerCircle

\* A dial in flight when Stop closed the connection has opened the next one, which
\* nobody closes: Stop waits for a session that goes on (client.go:151, 225).
Outlived == ui = "stopped" /\ link = "open"

\* Whom a lock, the loop or the server keeps waiting, and who can go on.
MainGoesOn ==
    \/ ui \in {"setup", "starting"} /\ holder = Nobody
    \/ ui = "saving"
    \/ ui = "locking" /\ ~reading
    \/ ui \in {"connecting", "stopping"} /\ ConnFree
    \/ ui \in {"asking", "closing"} /\ link # "stuck"
    \/ ui = "stopped" /\ link = "ended" /\ ~reading /\ \A g \in Loggers : pc[g] = "idle"

GoesOn(g) ==
    \/ pc[g] = "logging" /\ holder = Nobody
    \/ pc[g] \in {"sending", "notifying"} /\ (ui = "waiting" \/ Stopping)
    \/ pc[g] = "relaying" /\ ConnFree
    \/ pc[g] = "writing" /\ link # "stuck"
    \/ /\ g = Session /\ pc[g] = "idle"
       /\ reading \/ link \in {"stuck", "broken"} \/ (link = "dialing" /\ Cancelled)

\* Three goroutines, two mutexes, a read-write lock and a synchronous channel: outside
\* the circles nobody can be waiting for somebody who waits for him, whoever holds what,
\* and Stop waits for an idle client only where a dial has outlived it
\* (loghandler.go:97, validator.go:36 and 98, client.go:151 and 509, cmd_run.go:337).
BlockedOnlyInCircle ==
    \/ Circle \/ Outlived \/ MainGoesOn \/ \E g \in Loggers : GoesOn(g)
    \/ ui \in {"waiting", "done"} /\ \A g \in Loggers : pc[g] = "idle"

\* A freeze is for good where only the waiting could end the wait: no line, no key, no
\* signal, no answer and no loss of the connection opens two of the circles again
\* (validator.go:36, loghandler.go:39).  The third has no timeout of the program's own:
\* only a server that reads or a connection that breaks ends it (client.go:509).
FrozenForGood ==
    [][/\ StartCircle => StartCircle'
       /\ EditCircle => EditCircle'
       /\ PeerCircle => PeerCircle' \/ link' \in {"open", "broken"}]_vars

\* The circles are the only way for the screen to freeze and for a goroutine to be
\* stuck with a line or a message: in every other state the UI gets back to its loop,
\* and whoever waits for it or for a lock goes on.  A quit is without effect in a circle
\* or because a dial has outlived Stop: neither a line on its way to the loop that is
\* gone, nor a server that does not read, nor a connection that breaks or is being
\* dialed keeps Stop waiting (loghandler.go:97, cmd_run.go:337, client.go:151 and 220).
FreezesOnlyInCircle ==
    /\ []<>(ui = "waiting" \/ Stopping \/ Circle)
    /\ \A g \in Loggers : []<>(pc[g] = "idle" \/ Circle)
    /\ []<>(quitting => ui = "done" \/ Circle \/ Outlived)

\* No line that was handed to the handler is lost or shown twice on the way
\* from the buffer to the screen, whenever the program is set; only what comes
\* when the program is over is not shown.  Lines of one goroutine keep
\* their order, except that the buffered ones may come late.
LinesKept ==
    /\ \A g \in Loggers : \A n \in 1..logged[g] :
          n < logged[g] \/ pc[g] \notin {"logging", "sending"} =>
             Occurrences(<<g, n>>, buf) + Occurrences(<<g, n>>, shown)
             + (IF flushing THEN Occurrences(<<g, n>>, flush) ELSE 0)
             + (IF <<g, n>> \in unshown THEN 1 ELSE 0) = 1
    /\ \A i, j \in DOMAIN shown :
          i < j /\ shown[i][1] = shown[j][1] /\ shown[i][2] > shown[j][2] =>
             Occurrences(shown[j], flush) = 1

\* The trades view knows every step the log view shows: its record is among the
\* recent ones, or newer records have pushed it out (executor.go:29 before 58).
TradesCoverLog ==
    \A i \in DOMAIN shown : shown[i][1] = Worker =>
        \/ \E j \in DOMAIN Recent(Cap) : Recent(Cap)[j] = shown[i][2]
        \/ Len(added) >= shown[i][2] + Cap

\* "UpdateLimits hot-swaps the risk limits at runtime (thread-safe)"
\* (validator.go:34): the UI that calls it gets back to its loop.
EditReturns == ui = "locking" ~> ui = "waiting"
=============================================================================
