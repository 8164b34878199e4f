------------------------------ MODULE PauseState ------------------------------
(***************************************************************************)
(* The pause, which exists three times: the UI shows one (m.paused), the   *)
(* relay client obeys one (c.paused) and the server keeps one.  The UI asks*)
(* the server (SendPause), the server answers whoever asks with a          *)
(* config_update, the client obeys that and passes it to the UI; a trip of *)
(* the breaker pauses the client at once and then asks the server.  The    *)
(* server is external: what it does with a client_pause is inferred from   *)
(* the client, which otherwise never pauses.                               *)
(***************************************************************************)
EXTENDS Naturals, Sequences

CONSTANTS
    NoMessage,
    MaxPauses       \* bound of the model: pauses and resumptions asked for

ASSUME PauseAssumption == MaxPauses \in Nat /\ NoMessage \notin BOOLEAN

VARIABLES
    shownPaused,    \* m.paused
    paused,         \* c.paused
    serverPaused,
    connected,      \* c.connected
    toServer,       \* client_pause messages on their way
    toClient,       \* config_update messages on their way
    toUi,           \* what the session is handing to the event loop
    tripping,       \* the breaker's goroutine has paused and not yet asked
    apart,          \* history: a message that would have told was lost or not sent
    pauses

pauseVars == <<shownPaused, paused, serverPaused, connected, toServer, toClient,
               toUi, tripping, apart, pauses>>

\* The client runs before its callbacks are set (cmd_run.go:226, 276): a pause
\* from before that is not shown.
PauseInit ==
    /\ paused \in BOOLEAN /\ serverPaused \in BOOLEAN /\ connected \in BOOLEAN
    /\ shownPaused = FALSE
    /\ apart = (paused \/ serverPaused)
    /\ toServer = << >> /\ toClient = << >> /\ toUi = NoMessage
    /\ tripping = FALSE
    /\ pauses = 0

Ask == pauses < MaxPauses /\ pauses' = pauses + 1

FaultySendPause(p) ==
    /\ shownPaused' = p
    /\ \/ connected /\ Ask /\ toServer' = Append(toServer, p)
       \/ UNCHANGED <<toServer, pauses>>
    /\ UNCHANGED <<paused, serverPaused, connected, toClient, toUi, tripping, apart>>

\* SendPause by the UI, which shows what it has sent, and leaves what it shows
\* without a session or when the write fails.
SendPause(p) ==
    /\ \/ connected /\ Ask /\ toServer' = Append(toServer, p) /\ shownPaused' = p
       \/ UNCHANGED <<toServer, shownPaused, pauses>>
    /\ UNCHANGED <<paused, serverPaused, connected, toClient, toUi, tripping, apart>>

TogglePause == SendPause(~shownPaused)

\* Somebody pauses or resumes on the server.
ServerPauses(p) ==
    /\ Ask
    /\ serverPaused' = p
    /\ toClient' = IF connected THEN Append(toClient, p) ELSE toClient
    /\ apart' = ~connected
    /\ UNCHANGED <<shownPaused, paused, connected, toServer, toUi, tripping>>

ServerReceives ==
    /\ toServer # << >>
    /\ serverPaused' = Head(toServer)
    /\ toServer' = Tail(toServer)
    /\ toClient' = Append(toClient, Head(toServer))
    /\ apart' = FALSE
    /\ UNCHANGED <<shownPaused, paused, connected, toUi, tripping, pauses>>

\* config_update; onConfigUpdate returns when the event loop has the message.
ConfigUpdate ==
    /\ toClient # << >> /\ toUi = NoMessage
    /\ paused' = Head(toClient)
    /\ toClient' = Tail(toClient)
    /\ toUi' = Head(toClient)
    /\ UNCHANGED <<shownPaused, serverPaused, connected, toServer, tripping, apart, pauses>>

PauseUpdate ==
    /\ toUi # NoMessage
    /\ shownPaused' = toUi
    /\ toUi' = NoMessage
    /\ UNCHANGED <<paused, serverPaused, connected, toServer, toClient, tripping, apart, pauses>>

OnTrip ==
    /\ Ask
    /\ ~tripping
    /\ paused' = TRUE
    /\ tripping' = TRUE
    /\ UNCHANGED <<shownPaused, serverPaused, connected, toServer, toClient, toUi, apart>>

TripAsks ==
    /\ tripping
    /\ tripping' = FALSE
    /\ \/ connected /\ toServer' = Append(toServer, TRUE) /\ UNCHANGED apart
       \/ apart' = TRUE /\ UNCHANGED toServer
    /\ UNCHANGED <<shownPaused, paused, serverPaused, connected, toClient, toUi, pauses>>

\* The read loop ends; what is on its way in either direction is lost.
Disconnect ==
    /\ connected /\ toUi = NoMessage
    /\ connected' = FALSE
    /\ toServer' = << >> /\ toClient' = << >>
    /\ apart' = (apart \/ toServer # << >> \/ toClient # << >>)
    /\ UNCHANGED <<shownPaused, paused, serverPaused, toUi, tripping, pauses>>

\* The server may begin the session with its state.
Reconnect ==
    /\ ~connected
    /\ connected' = TRUE
    /\ \/ toClient' = <<serverPaused>> /\ apart' = FALSE
       \/ UNCHANGED <<toClient, apart>>
    /\ UNCHANGED <<shownPaused, paused, serverPaused, toServer, toUi, tripping, pauses>>

PauseStep ==
    \/ ServerReceives \/ ConfigUpdate \/ PauseUpdate \/ OnTrip \/ TripAsks
    \/ Disconnect \/ Reconnect
    \/ \E p \in BOOLEAN : ServerPauses(p)

PauseTypeOK ==
    /\ shownPaused \in BOOLEAN /\ paused \in BOOLEAN /\ serverPaused \in BOOLEAN
    /\ connected \in BOOLEAN /\ tripping \in BOOLEAN /\ apart \in BOOLEAN
    /\ toServer \in Seq(BOOLEAN) /\ toClient \in Seq(BOOLEAN)
    /\ toUi \in BOOLEAN \cup {NoMessage}
    /\ pauses \in 0..MaxPauses

\* When nothing is on its way, the UI shows the pause the client obeys and the
\* server keeps, however toggles, trips, the server's own changes and repeated
\* sessions have crossed (tui.go:229, 325, client.go:87, 314).  Apart they are
\* only after a message was lost with its session or could not be sent.
PausesAgree ==
    toServer = << >> /\ toClient = << >> /\ toUi = NoMessage /\ ~tripping /\ ~apart
        => shownPaused = paused /\ paused = serverPaused
=============================================================================
