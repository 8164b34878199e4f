----------------------------- MODULE KillSwitch -----------------------------
(***************************************************************************)
(* The kill switch (cmd/bot/tui.go, executeKillSwitch) over the exchange   *)
(* client (internal/hyperliquid/client.go): CancelAllOrders, then          *)
(* CloseAllPositions, while the worker goes on placing orders, resting     *)
(* orders fill, the asset cache is refreshed and the user may start the    *)
(* kill switch a second time.  Every signed request takes its nonce from   *)
(* NonceAllocator.                                                         *)
(*                                                                         *)
(* Sizes are numbers of filled orders; a position's side is left out, since*)
(* the closing order is on the opposite side by construction.              *)
(***************************************************************************)
EXTENDS NonceAllocator, FiniteSetsExt

CONSTANTS
    Worker,         \* the worker goroutine
    Kills,          \* runs of the kill switch, one goroutine each
    Orders,         \* the worker's orders
    NoOrder,
    MainMarkets,    \* markets of the exchange's own universe
    BuilderMarkets, \* markets of builder-deployed dexes
    Covered,        \* the markets an account query without a dex answers for
    MarketOf        \* the market of each order

Markets == MainMarkets \cup BuilderMarkets

ASSUME KillAssumption ==
    /\ Callers = {Worker} \cup Kills /\ Worker \notin Kills
    /\ NoOrder \notin Orders /\ IsFiniteSet(Orders)
    /\ Covered \subseteq Markets
    /\ MarketOf \in [Orders -> Markets]

VARIABLES
    known,      \* markets with an asset ID in the cache
    priced,     \* markets with a positive oracle price in the cache
    pending,    \* orders the worker has not placed yet
    posting,    \* the order the worker is signing
    wire,       \* orders on their way to the exchange
    resting,    \* the exchange: open orders
    position,   \* the exchange: the size of each market's position
    killPc,     \* where each run of the kill switch is
    toCheck,    \* the open orders, or the positions, it has still to look up
    batch,      \* the orders it will cancel, or the positions it will close
    sizes,      \* the positions it was told of
    arrived,    \* history: an order reached the exchange since its start
    gaps,       \* history: it skipped an order or a position, or a closing
                \* order did not fill
    killStatus  \* m.killStatus

cacheVars == <<known, priced>>
workerVars == <<pending, posting, wire>>
bookVars == <<resting, position>>
batchVars == <<toCheck, batch, sizes>>
killVars == <<killPc, batchVars, arrived, gaps, killStatus>>
vars == <<nonceVars, cacheVars, workerVars, bookVars, killVars>>

Init ==
    /\ NonceInit
    /\ known \in {Markets, MainMarkets} /\ priced = known
    /\ resting \in SUBSET Orders
    /\ position = [m \in Markets |-> 0]
    /\ pending = Orders \ resting /\ posting = NoOrder /\ wire = {}
    /\ killPc = [k \in Kills |-> "idle"]
    /\ toCheck = [k \in Kills |-> {}]
    /\ batch = [k \in Kills |-> {}]
    /\ sizes = [k \in Kills |-> [m \in Markets |-> 0]]
    /\ arrived = [k \in Kills |-> FALSE]
    /\ gaps = [k \in Kills |-> FALSE]
    /\ killStatus = ""

-----------------------------------------------------------------------------
(* The asset cache and the exchange.                                       *)

\* Keeps the prices of markets it no longer knows.
FaultyRefreshAssets ==
    /\ known' \in {Markets, MainMarkets}
    /\ priced' \in {p \in SUBSET Markets : known' \ p = known' \ priced}
    /\ UNCHANGED <<nonceVars, workerVars, bookVars, killVars>>

\* A failed refresh changes nothing; one whose second part fails (the list of
\* dexes, or one of them) loses their markets, and an asset may come without a
\* usable oracle price.  The cache is replaced under its lock.
RefreshAssets ==
    /\ known' \in {Markets, MainMarkets}
    /\ priced' \in SUBSET known'
    /\ UNCHANGED <<nonceVars, workerVars, bookVars, killVars>>

Fill(o) ==
    /\ o \in resting
    /\ resting' = resting \ {o}
    /\ position' = [position EXCEPT ![MarketOf[o]] = @ + 1]
    /\ UNCHANGED <<nonceVars, cacheVars, workerVars, killVars>>

OrderArrives(o) ==
    /\ o \in wire
    /\ wire' = wire \ {o}
    /\ \/ resting' = resting \cup {o} /\ UNCHANGED position
       \/ position' = [position EXCEPT ![MarketOf[o]] = @ + 1] /\ UNCHANGED resting
    /\ arrived' = [k \in Kills |-> TRUE]
    /\ UNCHANGED <<nonceVars, cacheVars, pending, posting, killPc, batchVars,
                   gaps, killStatus>>

-----------------------------------------------------------------------------
(* The worker (RelayClient models what leads it here).  A request may reach*)
(* the exchange after the worker gave up on its answer.                    *)

WorkerCalls(o) ==
    /\ o \in pending
    /\ Call(Worker)
    /\ pending' = pending \ {o}
    /\ posting' = o
    /\ UNCHANGED <<cacheVars, wire, bookVars, killVars>>

WorkerPosts ==
    /\ posting # NoOrder
    /\ Return(Worker)
    /\ wire' = wire \cup {posting}
    /\ posting' = NoOrder
    /\ UNCHANGED <<cacheVars, pending, bookVars, killVars>>

-----------------------------------------------------------------------------
(* The kill switch.                                                        *)

KillGoto(k, from, to) ==
    /\ killPc[k] = from
    /\ killPc' = [killPc EXCEPT ![k] = to]

\* "y" in the confirmation view, accepted even while a run is under way.
Confirm(k) ==
    /\ KillGoto(k, "idle", "orders")
    /\ killStatus' = "running"
    /\ arrived' = [arrived EXCEPT ![k] = FALSE]
    /\ UNCHANGED <<nonceVars, cacheVars, workerVars, bookVars, batchVars, gaps>>

Listed == {o \in resting : MarketOf[o] \in Covered}

FaultyFetchOrders(k) ==
    /\ KillGoto(k, "orders", IF Listed = {} THEN "ok" ELSE "checkOrders")
    /\ toCheck' = [toCheck EXCEPT ![k] = Listed]
    /\ batch' = [batch EXCEPT ![k] = {}]
    /\ UNCHANGED <<nonceVars, cacheVars, workerVars, bookVars, sizes, arrived,
                   gaps, killStatus>>

\* GetOpenOrders, which names no dex.
FetchOrders(k) ==
    /\ KillGoto(k, "orders", IF Listed = {} THEN "positions" ELSE "checkOrders")
    /\ toCheck' = [toCheck EXCEPT ![k] = Listed]
    /\ batch' = [batch EXCEPT ![k] = {}]
    /\ UNCHANGED <<nonceVars, cacheVars, workerVars, bookVars, sizes, arrived,
                   gaps, killStatus>>

\* One turn of a loop over what was fetched: x is taken into the batch if the
\* cache has what it needs, and skipped otherwise.
CheckOne(k, x, ok) ==
    /\ x \in toCheck[k]
    /\ toCheck' = [toCheck EXCEPT ![k] = @ \ {x}]
    /\ batch' = [batch EXCEPT ![k] = IF ok THEN @ \cup {x} ELSE @]
    /\ gaps' = [gaps EXCEPT ![k] = @ \/ ~ok]
    /\ UNCHANGED <<nonceVars, cacheVars, workerVars, bookVars, killPc, sizes,
                   arrived, killStatus>>

CheckOrder(k, o) ==
    killPc[k] = "checkOrders" /\ CheckOne(k, o, MarketOf[o] \in known)

OrdersChecked(k) ==
    /\ toCheck[k] = {}
    /\ \/ /\ batch[k] = {}
          /\ KillGoto(k, "checkOrders", "positions")
          /\ UNCHANGED nonceVars
       \/ /\ batch[k] # {}
          /\ KillGoto(k, "checkOrders", "cancel")
          /\ Call(k)
    /\ UNCHANGED <<cacheVars, workerVars, bookVars, batchVars, arrived,
                   gaps, killStatus>>

\* CancelOrder: orders that have filled meanwhile are refused one by one, which
\* the client does not look at.
Cancel(k) ==
    /\ KillGoto(k, "cancel", "positions")
    /\ Return(k)
    /\ resting' = resting \ batch[k]
    /\ UNCHANGED <<cacheVars, workerVars, position, batchVars, arrived,
                   gaps, killStatus>>

OpenPositions == {m \in Covered : position[m] # 0}

\* GetClearinghouseState, which names no dex either.
FetchPositions(k) ==
    /\ KillGoto(k, "positions",
                IF OpenPositions = {} THEN "ok" ELSE "checkPositions")
    /\ toCheck' = [toCheck EXCEPT ![k] = OpenPositions]
    /\ batch' = [batch EXCEPT ![k] = {}]
    /\ sizes' = [sizes EXCEPT ![k] = position]
    /\ UNCHANGED <<nonceVars, cacheVars, workerVars, bookVars, arrived, gaps,
                   killStatus>>

\* GetAssetID and GetOraclePrice lock the cache one after the other; with a
\* refresh between them the outcome is that of a look at one of its two states.
CheckPosition(k, m) ==
    killPc[k] = "checkPositions" /\ CheckOne(k, m, m \in priced)

PositionsChecked(k) ==
    /\ toCheck[k] = {}
    /\ \/ /\ batch[k] = {}
          /\ KillGoto(k, "checkPositions", "ok")
          /\ UNCHANGED nonceVars
       \/ /\ batch[k] # {}
          /\ KillGoto(k, "checkPositions", "close")
          /\ Call(k)
    /\ UNCHANGED <<cacheVars, workerVars, bookVars, batchVars, arrived,
                   gaps, killStatus>>

\* The most a reduce-only order of the fetched size can take off a position.
Closable(k, m) == IF m \in batch[k] THEN Min({sizes[k][m], position[m]}) ELSE 0

\* PlaceOrder of immediate-or-cancel orders, whose statuses are ignored.
Close(k) ==
    /\ KillGoto(k, "close", "ok")
    /\ Return(k)
    /\ position' \in [Markets -> 0..Cardinality(Orders)]
    /\ \A m \in Markets :
          position'[m] \in (position[m] - Closable(k, m))..position[m]
    /\ gaps' = [gaps EXCEPT ![k] =
           @ \/ \E m \in Markets : position'[m] # position[m] - Closable(k, m)]
    /\ UNCHANGED <<cacheVars, workerVars, resting, batchVars, arrived,
                   killStatus>>

FaultyWaits(k) ==
    \/ killPc[k] \in {"orders", "positions"}
    \/ killPc[k] = "cancel" /\ callPc[k] = "signed"

\* The run waits for the exchange, under a context of thirty seconds.
Waits(k) ==
    \/ killPc[k] \in {"orders", "positions"}
    \/ killPc[k] \in {"cancel", "close"} /\ callPc[k] = "signed"

\* An error, or no answer in time; the request may or may not have taken effect.
KillFails(k) ==
    /\ Waits(k)
    /\ KillGoto(k, killPc[k], "failed")
    /\ IF callPc[k] = "signed" THEN Return(k) ELSE UNCHANGED nonceVars
    /\ resting' \in {resting, IF killPc[k] = "cancel" THEN resting \ batch[k]
                                                      ELSE resting}
    /\ position' \in {position,
                      IF killPc[k] = "close"
                      THEN [m \in Markets |-> position[m] - Closable(k, m)]
                      ELSE position}
    /\ UNCHANGED <<cacheVars, workerVars, batchVars, arrived, gaps,
                   killStatus>>

\* killResultMsg.  SendPause asks the server to pause the client, which only a
\* config_update does (ConfigUpdate of RelayClient): the worker may go on.
ShowResult(k) ==
    /\ killPc[k] \in {"ok", "failed"}
    /\ KillGoto(k, killPc[k], "over")
    /\ killStatus' = IF killPc[k] = "ok" THEN "done" ELSE "error"
    /\ UNCHANGED <<nonceVars, cacheVars, workerVars, bookVars, batchVars,
                   arrived, gaps>>

-----------------------------------------------------------------------------
Exchange == \E o \in Orders : Fill(o) \/ OrderArrives(o)

WorkerStep == WorkerPosts \/ \E o \in Orders : WorkerCalls(o)

KillStep(k) ==
    \/ FetchOrders(k) \/ OrdersChecked(k) \/ Cancel(k)
    \/ FetchPositions(k) \/ PositionsChecked(k) \/ Close(k)
    \/ KillFails(k) \/ ShowResult(k)
    \/ \E o \in Orders : CheckOrder(k, o)
    \/ \E m \in Markets : CheckPosition(k, m)

AllocatorStep ==
    /\ ClockSet \/ \E c \in Callers : Allocate(c)
    /\ UNCHANGED <<cacheVars, workerVars, bookVars, killVars>>

Next ==
    \/ RefreshAssets
    \/ Exchange
    \/ WorkerStep
    \/ \E k \in Kills : Confirm(k) \/ KillStep(k)
    \/ AllocatorStep

Spec == Init /\ [][Next]_vars

\* What a run of the kill switch does by itself, or when its context expires.
KillTimely(k) ==
    \/ OrdersChecked(k) \/ PositionsChecked(k) \/ KillFails(k) \/ ShowResult(k)
    \/ \E o \in Orders : CheckOrder(k, o)
    \/ \E m \in Markets : CheckPosition(k, m)
    \/ Allocate(k) /\ UNCHANGED <<cacheVars, workerVars, bookVars, killVars>>

FairSpec == Spec /\ \A k \in Kills : WF_vars(KillTimely(k))

-----------------------------------------------------------------------------
TypeOK ==
    /\ NonceTypeOK
    /\ known \subseteq Markets /\ priced \subseteq known
    /\ pending \subseteq Orders /\ wire \subseteq Orders /\ resting \subseteq Orders
    /\ posting \in Orders \cup {NoOrder}
    /\ position \in [Markets -> 0..Cardinality(Orders)]
    /\ killPc \in [Kills -> {"idle", "orders", "checkOrders", "cancel",
                             "positions", "checkPositions", "close", "ok",
                             "failed", "over"}]
    /\ toCheck \in [Kills -> (SUBSET Orders) \cup (SUBSET Markets)]
    /\ batch \in [Kills -> (SUBSET Orders) \cup (SUBSET Markets)]
    /\ sizes \in [Kills -> [Markets -> 0..Cardinality(Orders)]]
    /\ arrived \in [Kills -> BOOLEAN] /\ gaps \in [Kills -> BOOLEAN]
    /\ killStatus \in {"", "running", "done", "error"}

\* A run that ends without an error leaves neither an order nor a position in
\* the markets it was told of, not even of what fills while it runs, unless an
\* order reached the exchange meanwhile, the cache lacked a market, or a closing
\* order did not fill: the cancellations come before the look at the positions.
KillFlattens ==
    \A k \in Kills :
        killPc[k] = "ok" /\ ~arrived[k] /\ ~gaps[k]
            => Listed = {} /\ OpenPositions = {}

\* What the screen says after a run (renderKillSwitch: "All orders cancelled and
\* positions closed."), of everything that was there when it was confirmed.
KillReportTrue ==
    \A k \in Kills :
        killPc[k] = "over" /\ killStatus = "done" /\ ~arrived[k]
            => resting = {} /\ \A m \in Markets : position[m] = 0

\* A kill switch that was confirmed comes to a result on the screen, however
\* the exchange behaves.
KillAnswers == killStatus = "running" ~> killStatus # "running"
=============================================================================
