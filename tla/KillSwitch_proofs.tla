-------------------------- MODULE KillSwitch_proofs --------------------------
(***************************************************************************)
(* First the nonces of NonceAllocator, for any set of callers and any      *)
(* clock; then the worker and the kill switch, which use the exchange      *)
(* client only in the ways NonceAllocator allows; then what the runs of    *)
(* the kill switch leave on the exchange, for any number of them.          *)
(***************************************************************************)
EXTENDS KillSwitch, FiniteSetTheorems, TLAPS

\* The strengthening: lastNonce is the last nonce issued, so that the value a
\* successful compare-and-swap replaces is at least every nonce before it.
NonceInv ==
    /\ NonceTypeOK
    /\ NoncesIncrease
    /\ \A i \in DOMAIN issued : issued[i] <= lastNonce

-----------------------------------------------------------------------------
LEMMA NonceInitInv == NonceInit => NonceInv
  BY NonceAssumption
  DEF NonceInit, NonceInv, NonceTypeOK, NoncesIncrease

\* A successful compare-and-swap: the new nonce is above the one it replaces.
LEMMA SwapKeepsInv ==
  ASSUME NonceInv, NEW c \in Callers, Swap(c)
  PROVE  NonceInv'
<1> DEFINE n == NextNonce(c)
<1>1. /\ lastNonce \in Nat /\ callNow[c] \in Nat /\ issued \in Seq(Nat \ {0})
      /\ callOld[c] = lastNonce
  BY DEF NonceInv, NonceTypeOK, Swap, Untouched
<1>2. n \in Nat \ {0} /\ n > lastNonce
  BY <1>1 DEF NextNonce
<1>3. lastNonce' = n /\ issued' = Append(issued, n)
  BY DEF Swap
<1>4. NonceTypeOK'
  <2>1. issued' \in Seq(Nat \ {0}) /\ lastNonce' \in Nat
    BY <1>1, <1>2, <1>3
  <2> QED
    BY <2>1 DEF Swap, Goto, NonceInv, NonceTypeOK
<1>5. \A i \in DOMAIN issued' : issued'[i] <= lastNonce'
  <2> SUFFICES ASSUME NEW i \in DOMAIN issued'
               PROVE  issued'[i] <= n
    BY <1>3
  <2>1. CASE i = Len(issued) + 1
    BY <2>1, <1>1, <1>2, <1>3
  <2>2. CASE i \in DOMAIN issued
    <3>1. issued'[i] = issued[i] /\ issued[i] <= lastNonce /\ issued[i] \in Nat
      BY <2>2, <1>1, <1>2, <1>3 DEF NonceInv
    <3> QED
      BY <3>1, <1>1, <1>2
  <2> QED
    BY <2>1, <2>2, <1>1, <1>3
<1>6. NoncesIncrease'
  <2> SUFFICES ASSUME NEW i \in DOMAIN issued', NEW j \in DOMAIN issued', i < j
               PROVE  issued'[i] < issued'[j]
    BY DEF NoncesIncrease
  <2>1. i \in DOMAIN issued /\ issued'[i] = issued[i] /\ issued[i] \in Nat
    BY <1>1, <1>2, <1>3
  <2>2. CASE j = Len(issued) + 1
    <3>1. issued[i] <= lastNonce /\ issued'[j] = n
      BY <2>1, <2>2, <1>1, <1>2, <1>3 DEF NonceInv
    <3> QED
      BY <3>1, <2>1, <1>1, <1>2
  <2>3. CASE j \in DOMAIN issued
    <3>1. issued'[j] = issued[j]
      BY <2>3, <1>1, <1>2, <1>3
    <3> QED
      BY <2>1, <2>3, <3>1 DEF NonceInv, NoncesIncrease
  <2> QED
    BY <2>2, <2>3, <1>1, <1>3
<1> QED
  BY <1>4, <1>5, <1>6 DEF NonceInv

\* Every other step leaves the nonces alone.
LEMMA NonceNextInv == NonceInv /\ [NonceNext]_nonceVars => NonceInv'
<1> SUFFICES ASSUME NonceInv, [NonceNext]_nonceVars
             PROVE  NonceInv'
  OBVIOUS
<1>1. ASSUME NonceTypeOK', UNCHANGED <<lastNonce, issued>>
      PROVE  NonceInv'
  BY <1>1 DEF NonceInv, NoncesIncrease
<1>2. CASE ClockSet
  BY <1>1, <1>2 DEF ClockSet, NonceInv, NonceTypeOK
<1>3. ASSUME NEW c \in Callers, Call(c) \/ Return(c)
      PROVE  NonceInv'
  BY <1>1, <1>3 DEF Call, Return, Goto, NonceInv, NonceTypeOK
<1>4. ASSUME NEW c \in Callers, ReadClock(c)
      PROVE  NonceInv'
  BY <1>1, <1>4, NonceAssumption DEF ReadClock, Goto, NonceInv, NonceTypeOK
<1>5. ASSUME NEW c \in Callers, LoadNonce(c)
      PROVE  NonceInv'
  BY <1>1, <1>5 DEF LoadNonce, Goto, NonceInv, NonceTypeOK
<1>6. ASSUME NEW c \in Callers, SwapLost(c)
      PROVE  NonceInv'
  BY <1>1, <1>6 DEF SwapLost, Goto, NonceInv, NonceTypeOK
<1>7. CASE UNCHANGED nonceVars
  BY <1>1, <1>7 DEF nonceVars, NonceInv, NonceTypeOK
<1> QED
  BY <1>2, <1>3, <1>4, <1>5, <1>6, <1>7, SwapKeepsInv DEF NonceNext, Allocate

-----------------------------------------------------------------------------
\* The state of the compare-and-swap loop has its types (postExchange).
THEOREM NonceTypeCorrect == NonceSpec => []NonceTypeOK
<1>1. NonceInv => NonceTypeOK
  BY DEF NonceInv
<1> QED
  BY <1>1, NonceInitInv, NonceNextInv, PTL DEF NonceSpec

\* Nonces never repeat and never decrease, for any number of goroutines and
\* whatever the clock does (postExchange).
THEOREM NoncesAlwaysIncrease == NonceSpec => []NoncesIncrease
<1>1. NonceInv => NoncesIncrease
  BY DEF NonceInv
<1> QED
  BY <1>1, NonceInitInv, NonceNextInv, PTL DEF NonceSpec

-----------------------------------------------------------------------------
LEMMA KillInitNonces == Init => NonceInit
  BY DEF Init

LEMMA KillCallersAreCallers == Worker \in Callers /\ Kills \subseteq Callers
  BY KillAssumption DEF KillAssumption

LEMMA KillStepNonces == [Next]_vars => [NonceNext]_nonceVars
<1> SUFFICES ASSUME [Next]_vars
             PROVE  [NonceNext]_nonceVars
  OBVIOUS
<1> USE KillCallersAreCallers
<1>1. CASE RefreshAssets
  BY <1>1 DEF RefreshAssets
<1>2. CASE Exchange
  BY <1>2 DEF Exchange, Fill, OrderArrives
<1>3. CASE WorkerStep
  BY <1>3 DEF WorkerStep, WorkerPosts, WorkerCalls, NonceNext
<1>4. ASSUME NEW k \in Kills, Confirm(k)
      PROVE  UNCHANGED nonceVars
  BY <1>4 DEF Confirm
<1>5. ASSUME NEW k \in Kills, KillStep(k)
      PROVE  Call(k) \/ Return(k) \/ UNCHANGED nonceVars
  <2>1. CASE FetchOrders(k) \/ FetchPositions(k) \/ ShowResult(k)
    BY <2>1 DEF FetchOrders, FetchPositions, ShowResult
  <2>2. CASE OrdersChecked(k) \/ PositionsChecked(k)
    BY <2>2 DEF OrdersChecked, PositionsChecked
  <2>3. CASE Cancel(k) \/ Close(k)
    BY <2>3 DEF Cancel, Close
  <2>4. CASE KillFails(k)
    BY <2>4 DEF KillFails
  <2>5. CASE \E o \in Orders : CheckOrder(k, o)
    BY <2>5 DEF CheckOrder, CheckOne
  <2>6. CASE \E m \in Markets : CheckPosition(k, m)
    BY <2>6 DEF CheckPosition, CheckOne
  <2> QED
    BY <1>5, <2>1, <2>2, <2>3, <2>4, <2>5, <2>6 DEF KillStep
<1>6. CASE AllocatorStep
  BY <1>6 DEF AllocatorStep, NonceNext
<1>7. CASE UNCHANGED vars
  BY <1>7 DEF vars
<1> QED
  BY <1>1, <1>2, <1>3, <1>4, <1>5, <1>6, <1>7 DEF Next, NonceNext

-----------------------------------------------------------------------------
\* The worker and the kill switch, with the exchange and the asset cache around
\* them, implement the allocator: each of their steps is a step of it or leaves
\* its state alone (the calls of postExchange).
THEOREM KillImplementsNonces == Spec => NonceSpec
  BY KillInitNonces, KillStepNonces, PTL DEF Spec, NonceSpec

\* The requests of the worker and of the kill switch never share a nonce.
THEOREM KillNoncesIncrease == Spec => []NoncesIncrease
  BY KillImplementsNonces, NoncesAlwaysIncrease, PTL

-----------------------------------------------------------------------------
(* The book of the exchange.  An order that was counted in a position is   *)
(* nowhere else any more, so that a position and the orders that can still *)
(* fill are together no more than the orders there are.                    *)

AllOrders == Cardinality(Orders)

\* The orders that may still fill.
Open == pending \cup wire \cup resting \cup ({posting} \ {NoOrder})

OnePlace ==
    /\ pending \cap (wire \cup resting \cup {posting}) = {}
    /\ wire \cap (resting \cup {posting}) = {}
    /\ posting \notin resting

BookTyped ==
    /\ known \subseteq Markets /\ priced \subseteq known
    /\ pending \subseteq Orders /\ wire \subseteq Orders /\ resting \subseteq Orders
    /\ posting \in Orders \cup {NoOrder}
    /\ position \in [Markets -> Nat]

Counted == \A m \in Markets : position[m] + Cardinality(Open) <= AllOrders

BookInv == BookTyped /\ OnePlace /\ Counted

\* What a run looks through is of one kind, orders or positions.
RunTyped ==
    /\ killPc \in [Kills -> {"idle", "orders", "checkOrders", "cancel",
                             "positions", "checkPositions", "close", "ok",
                             "failed", "over"}]
    /\ toCheck \in [Kills -> (SUBSET Orders) \cup (SUBSET Markets)]
    /\ batch \in [Kills -> (SUBSET Orders) \cup (SUBSET Markets)]
    /\ sizes \in [Kills -> [Markets -> 0..AllOrders]]
    /\ arrived \in [Kills -> BOOLEAN] /\ gaps \in [Kills -> BOOLEAN]
    /\ killStatus \in {"", "running", "done", "error"}
    /\ \A k \in Kills :
          /\ killPc[k] = "checkOrders" => batch[k] \subseteq Orders
          /\ killPc[k] = "checkPositions" => batch[k] \subseteq Markets

\* Every open position is in S and no larger than the run was told.
Held(k, S) ==
    OpenPositions \subseteq S /\ \A m \in Covered : position[m] <= sizes[k][m]

\* What a run that met neither an arrival nor a gap has got done.
Flattening(k) ==
    /\ killPc[k] = "checkOrders" => Listed \subseteq toCheck[k] \cup batch[k]
    /\ killPc[k] = "cancel" => Listed \subseteq batch[k]
    /\ killPc[k] \in {"positions", "checkPositions", "close", "ok"} => Listed = {}
    /\ killPc[k] = "checkPositions" => Held(k, toCheck[k] \cup batch[k])
    /\ killPc[k] = "close" => Held(k, batch[k])
    /\ killPc[k] = "ok" => OpenPositions = {}

FlattenInv == \A k \in Kills : ~arrived[k] /\ ~gaps[k] => Flattening(k)

KillInv == BookInv /\ RunTyped /\ FlattenInv

-----------------------------------------------------------------------------
LEMMA OpenFinite ==
  ASSUME BookTyped
  PROVE  /\ AllOrders \in Nat /\ Open \subseteq Orders
         /\ IsFiniteSet(Open) /\ Cardinality(Open) \in Nat
<1>1. IsFiniteSet(Orders) /\ Open \subseteq Orders
  BY KillAssumption DEF KillAssumption, BookTyped, Open
<1>2. IsFiniteSet(Open)
  BY <1>1, FS_Subset
<1> QED
  BY <1>1, <1>2, FS_CardinalityType DEF AllOrders

\* Orders that leave the book without filling, positions that are closed.
LEMMA CountedShrinks ==
  ASSUME BookInv, BookTyped', Open' \subseteq Open,
         \A m \in Markets : position'[m] <= position[m]
  PROVE  Counted'
<1>1. IsFiniteSet(Open) /\ Cardinality(Open) \in Nat /\ AllOrders \in Nat
  BY OpenFinite DEF BookInv
<1>2. Cardinality(Open') <= Cardinality(Open) /\ Cardinality(Open') \in Nat
  BY <1>1, FS_Subset, FS_CardinalityType
<1>3. /\ \A m \in Markets : position[m] + Cardinality(Open) <= AllOrders
      /\ \A m \in Markets : position[m] \in Nat /\ position'[m] \in Nat
  BY DEF BookInv, BookTyped, Counted
<1>4. \A m \in Markets : position'[m] + Cardinality(Open') <= AllOrders
  BY <1>1, <1>2, <1>3
<1> QED
  BY <1>4 DEF Counted, AllOrders, Open

\* An order fills: it leaves the book and adds one to a position.
LEMMA CountedFills ==
  ASSUME BookInv, BookTyped', NEW o \in Open, Open' \subseteq Open \ {o},
         \A m \in Markets : position'[m] <= position[m] + 1
  PROVE  Counted'
<1>1. IsFiniteSet(Open) /\ Cardinality(Open) \in Nat /\ AllOrders \in Nat
  BY OpenFinite DEF BookInv
<1>2. /\ IsFiniteSet(Open \ {o})
      /\ Cardinality(Open \ {o}) = Cardinality(Open) - 1
  BY <1>1, FS_RemoveElement
<1>3. /\ Cardinality(Open') <= Cardinality(Open) - 1
      /\ Cardinality(Open') \in Nat
  BY <1>2, FS_Subset, FS_CardinalityType
<1>4. /\ \A m \in Markets : position[m] + Cardinality(Open) <= AllOrders
      /\ \A m \in Markets : position[m] \in Nat /\ position'[m] \in Nat
  BY DEF BookInv, BookTyped, Counted
<1>5. \A m \in Markets : position'[m] + Cardinality(Open') <= AllOrders
  BY <1>1, <1>3, <1>4
<1> QED
  BY <1>5 DEF Counted, AllOrders, Open

LEMMA MinOfTwo ==
  ASSUME NEW a \in Nat, NEW b \in Nat
  PROVE  Min({a, b}) \in Nat /\ Min({a, b}) <= b /\ (b <= a => Min({a, b}) = b)
<1>1. \E x \in {a, b} : \A y \in {a, b} : x <= y
  OBVIOUS
<1>2. Min({a, b}) \in {a, b} /\ \A y \in {a, b} : Min({a, b}) <= y
  BY <1>1 DEF Min
<1> QED
  BY <1>2

LEMMA ToldSizes ==
  ASSUME BookTyped, RunTyped
  PROVE  \A k \in Kills, m \in Markets : sizes[k][m] \in Nat
<1>1. AllOrders \in Nat
  BY OpenFinite
<1> HIDE DEF AllOrders
<1>2. ASSUME NEW k \in Kills, NEW m \in Markets
      PROVE  sizes[k][m] \in 0..AllOrders
  BY DEF RunTyped
<1> QED
  BY <1>1, <1>2

\* A reduce-only order takes no more than the position, and all of it when the
\* run was told of that much.
LEMMA ClosableBound ==
  ASSUME BookTyped, RunTyped, NEW k \in Kills, NEW m \in Markets
  PROVE  /\ Closable(k, m) \in 0..position[m]
         /\ m \in batch[k] /\ position[m] <= sizes[k][m]
                => Closable(k, m) = position[m]
<1>1. position[m] \in Nat /\ sizes[k][m] \in Nat
  BY ToldSizes DEF BookTyped
<1> QED
  BY <1>1, MinOfTwo DEF Closable

\* Steps that place no order: the book only shrinks.
LEMMA BookShrinks ==
  ASSUME BookInv, known' \subseteq Markets, priced' \subseteq known',
         UNCHANGED workerVars, resting' \subseteq resting,
         position' \in [Markets -> Nat],
         \A m \in Markets : position'[m] <= position[m]
  PROVE  BookInv'
<1>1. BookTyped'
  BY DEF BookInv, BookTyped, workerVars
<1>2. OnePlace'
  BY DEF BookInv, OnePlace, workerVars
<1>3. Open' \subseteq Open
  BY DEF Open, workerVars
<1> QED
  BY <1>1, <1>2, <1>3, CountedShrinks DEF BookInv

LEMMA CoveredMarkets == Covered \subseteq Markets
  BY KillAssumption DEF KillAssumption

\* A run is as far as it was when the book only shrinks and it does nothing.
LEMMA FlatteningStays ==
  ASSUME BookTyped, RunTyped, NEW k \in Kills, ~arrived[k] /\ ~gaps[k] => Flattening(k),
         killPc'[k] = killPc[k], toCheck'[k] = toCheck[k], batch'[k] = batch[k],
         sizes'[k] = sizes[k], ~arrived'[k] => ~arrived[k], ~gaps'[k] => ~gaps[k],
         resting' \subseteq resting, position' \in [Markets -> Nat],
         \A m \in Markets : position'[m] <= position[m]
  PROVE  ~arrived'[k] /\ ~gaps'[k] => Flattening(k)'
<1> SUFFICES ASSUME ~arrived'[k], ~gaps'[k]
             PROVE  Flattening(k)'
  OBVIOUS
<1>1. Flattening(k)
  OBVIOUS
<1>2. \A m \in Markets : position[m] \in Nat /\ position'[m] \in Nat /\ sizes[k][m] \in Nat
  BY ToldSizes DEF BookTyped
<1>3. OpenPositions' \subseteq OpenPositions /\ Listed' \subseteq Listed
  BY <1>2, CoveredMarkets DEF OpenPositions, Listed
<1>4. \A S : Held(k, S) => OpenPositions' \subseteq S
                /\ \A m \in Covered : position'[m] <= sizes'[k][m]
  BY <1>2, <1>3, CoveredMarkets DEF Held
<1> QED
  BY <1>1, <1>3, <1>4 DEF Flattening, Held

-----------------------------------------------------------------------------
(* The steps.  Those that no run takes leave every run as far as it was.   *)

LEMMA KillInitially == Init => KillInv
<1> SUFFICES ASSUME Init
             PROVE  KillInv
  OBVIOUS
<1>1. BookTyped /\ OnePlace
  BY KillAssumption DEF KillAssumption, Init, BookTyped, OnePlace, Markets
<1>2. AllOrders \in Nat /\ Cardinality(Open) <= AllOrders /\ Cardinality(Open) \in Nat
  BY <1>1, OpenFinite, FS_Subset, KillAssumption DEF KillAssumption, AllOrders
<1>3. Counted
  <2>1. \A m \in Markets : position[m] = 0
    BY DEF Init
  <2> QED
    BY <2>1, <1>2 DEF Counted
<1>4. RunTyped
  <2>1. [m \in Markets |-> 0] \in [Markets -> 0..AllOrders]
    BY <1>2
  <2>2. sizes \in [Kills -> [Markets -> 0..AllOrders]]
    BY <2>1 DEF Init
  <2> QED
    BY <2>2 DEF Init, RunTyped
<1>5. FlattenInv
  BY DEF Init, FlattenInv, Flattening
<1> QED
  BY <1>1, <1>3, <1>4, <1>5 DEF KillInv, BookInv

\* The environment's steps, and the worker's.
LEMMA RunsWait ==
  ASSUME KillInv, BookInv', UNCHANGED <<killPc, batchVars, gaps, killStatus>>,
         \/ UNCHANGED arrived /\ resting' \subseteq resting /\ UNCHANGED position
         \/ arrived' = [k \in Kills |-> TRUE]
  PROVE  KillInv'
<1> USE DEF KillInv, BookInv, batchVars
<1>1. RunTyped'
  BY DEF RunTyped
<1>2. FlattenInv'
  <2> SUFFICES ASSUME NEW k \in Kills, ~arrived'[k], ~gaps'[k]
               PROVE  Flattening(k)'
    BY DEF FlattenInv
  <2>1. /\ UNCHANGED arrived /\ resting' \subseteq resting /\ UNCHANGED position
        /\ position' \in [Markets -> Nat]
        /\ \A m \in Markets : position'[m] <= position[m]
    BY DEF BookTyped
  <2> QED
    BY <2>1, FlatteningStays DEF FlattenInv
<1> QED
  BY <1>1, <1>2

LEMMA KillRefresh == KillInv /\ RefreshAssets => KillInv'
<1> SUFFICES ASSUME KillInv, RefreshAssets
             PROVE  KillInv'
  OBVIOUS
<1> USE DEF KillInv, BookInv, RefreshAssets, bookVars, killVars
<1>1. known' \subseteq Markets /\ priced' \subseteq known'
  BY DEF Markets
<1>2. BookInv'
  BY <1>1, BookShrinks DEF BookTyped
<1> QED
  BY <1>2, RunsWait

\* A resting order fills: a run whose cancellations are done has none left.
LEMMA KillFill == ASSUME KillInv, NEW o \in Orders, Fill(o) PROVE KillInv'
<1> USE DEF KillInv, BookInv, Fill, workerVars, cacheVars, killVars, batchVars
<1>1. MarketOf[o] \in Markets
  BY KillAssumption DEF KillAssumption
<1>2. BookTyped' /\ OnePlace'
  BY <1>1 DEF BookTyped, OnePlace
<1>3. o \in Open /\ Open' \subseteq Open \ {o}
  BY KillAssumption DEF KillAssumption, Open, OnePlace, BookTyped
<1>4. \A m \in Markets : position'[m] <= position[m] + 1
  BY <1>1 DEF BookTyped
<1>5. Counted'
  BY <1>2, <1>3, <1>4, CountedFills
<1>6. RunTyped'
  BY DEF RunTyped
<1>7. FlattenInv'
  <2> SUFFICES ASSUME NEW k \in Kills, ~arrived[k], ~gaps[k]
               PROVE  Flattening(k)'
    BY DEF FlattenInv
  <2>1. Flattening(k)
    BY DEF FlattenInv
  <2>2. Listed' = Listed \ {o}
    BY DEF Listed
  <2>3. CASE MarketOf[o] \in Covered
    <3>1. o \in Listed
      BY <2>3 DEF Listed
    <3> QED
      BY <3>1, <2>1, <2>2 DEF Flattening
  <2>4. CASE MarketOf[o] \notin Covered
    <3>1. \A m \in Covered : position'[m] = position[m]
      BY <2>4, CoveredMarkets DEF BookTyped
    <3>2. OpenPositions' = OpenPositions /\ \A S : Held(k, S)' <=> Held(k, S)
      BY <3>1 DEF OpenPositions, Held
    <3> QED
      BY <3>2, <2>1, <2>2 DEF Flattening, Held
  <2> QED
    BY <2>3, <2>4
<1> QED
  BY <1>2, <1>5, <1>6, <1>7

\* An order arrives: every run that is under way notes it.
LEMMA KillArrival == ASSUME KillInv, NEW o \in Orders, OrderArrives(o) PROVE KillInv'
<1> USE DEF KillInv, BookInv, OrderArrives, cacheVars, batchVars
<1>1. MarketOf[o] \in Markets
  BY KillAssumption DEF KillAssumption
<1>2. BookTyped' /\ OnePlace'
  BY <1>1 DEF BookTyped, OnePlace
<1>3. Counted'
  <2>1. CASE UNCHANGED position
    <3>1. Open' \subseteq Open /\ \A m \in Markets : position'[m] <= position[m]
      BY <2>1 DEF Open, BookTyped
    <3> QED
      BY <3>1, <1>2, CountedShrinks
  <2>2. CASE UNCHANGED resting /\ position' = [position EXCEPT ![MarketOf[o]] = @ + 1]
    <3>1. o \in Open /\ Open' \subseteq Open \ {o}
      BY <2>2, KillAssumption DEF KillAssumption, Open, OnePlace, BookTyped
    <3>2. \A m \in Markets : position'[m] <= position[m] + 1
      BY <2>2, <1>1 DEF BookTyped
    <3> QED
      BY <3>1, <3>2, <1>2, CountedFills
  <2> QED
    BY <2>1, <2>2
<1> QED
  BY <1>2, <1>3, RunsWait

LEMMA KillWorker == KillInv /\ WorkerStep => KillInv'
<1> SUFFICES ASSUME KillInv, WorkerStep
             PROVE  KillInv'
  OBVIOUS
<1> USE DEF KillInv, BookInv, cacheVars, bookVars, killVars
<1>1. UNCHANGED <<cacheVars, bookVars, killVars>>
  BY DEF WorkerStep, WorkerCalls, WorkerPosts
<1>2. BookTyped' /\ OnePlace' /\ Open' \subseteq Open
  <2>1. CASE WorkerPosts
    BY <2>1, KillAssumption DEF KillAssumption, WorkerPosts, BookTyped, OnePlace, Open
  <2>2. ASSUME NEW o \in Orders, WorkerCalls(o)
        PROVE  BookTyped' /\ OnePlace' /\ Open' \subseteq Open
    BY <2>2, KillAssumption DEF KillAssumption, WorkerCalls, BookTyped, OnePlace, Open
  <2> QED
    BY <2>1, <2>2 DEF WorkerStep
<1>3. \A m \in Markets : position'[m] <= position[m]
  BY <1>1 DEF BookTyped
<1>4. BookInv'
  BY <1>2, <1>3, CountedShrinks
<1> QED
  BY <1>1, <1>4, RunsWait

-----------------------------------------------------------------------------
(* The steps of a run.                                                     *)

\* The other runs are as far as they were while one moves.
LEMMA OneRunMoves ==
  ASSUME KillInv, BookInv', RunTyped', NEW k \in Kills,
         \A j \in Kills \ {k} :
            /\ killPc'[j] = killPc[j] /\ toCheck'[j] = toCheck[j]
            /\ batch'[j] = batch[j] /\ sizes'[j] = sizes[j]
            /\ (~arrived'[j] => ~arrived[j]) /\ (~gaps'[j] => ~gaps[j]),
         resting' \subseteq resting,
         \A m \in Markets : position'[m] <= position[m],
         ~arrived'[k] /\ ~gaps'[k] => Flattening(k)'
  PROVE  KillInv'
<1>1. position' \in [Markets -> Nat]
  BY DEF BookInv, BookTyped
<1>2. ASSUME NEW j \in Kills
      PROVE  ~arrived'[j] /\ ~gaps'[j] => Flattening(j)'
  <2>1. CASE j = k
    BY <2>1
  <2>2. CASE j # k
    <3>1. ~arrived[j] /\ ~gaps[j] => Flattening(j)
      BY DEF KillInv, FlattenInv
    <3> QED
      BY <2>2, <3>1, <1>1, FlatteningStays DEF KillInv, BookInv
  <2> QED
    BY <2>1, <2>2
<1> QED
  BY <1>2 DEF KillInv, FlattenInv

\* The same when the book stays as it is.
LEMMA OneRunLooks ==
  ASSUME KillInv, UNCHANGED <<cacheVars, workerVars, bookVars>>, RunTyped',
         NEW k \in Kills,
         \A j \in Kills \ {k} :
            /\ killPc'[j] = killPc[j] /\ toCheck'[j] = toCheck[j]
            /\ batch'[j] = batch[j] /\ sizes'[j] = sizes[j]
            /\ (~arrived'[j] => ~arrived[j]) /\ (~gaps'[j] => ~gaps[j]),
         ~arrived'[k] /\ ~gaps'[k] => Flattening(k)'
  PROVE  KillInv'
<1>1. \A m \in Markets : position'[m] <= position[m]
  BY DEF KillInv, BookInv, BookTyped, bookVars
<1>2. BookInv'
  BY <1>1, BookShrinks DEF KillInv, BookInv, BookTyped, cacheVars, bookVars
<1> QED
  BY <1>1, <1>2, OneRunMoves DEF bookVars

LEMMA KillConfirm == ASSUME KillInv, NEW k \in Kills, Confirm(k) PROVE KillInv'
<1> USE DEF KillInv, Confirm, KillGoto, batchVars
<1>1. RunTyped'
  BY DEF RunTyped
<1>2. Flattening(k)'
  BY DEF RunTyped, Flattening
<1> QED
  BY <1>1, <1>2, OneRunLooks DEF RunTyped

LEMMA KillFetchOrders == ASSUME KillInv, NEW k \in Kills, FetchOrders(k) PROVE KillInv'
<1> USE DEF KillInv, FetchOrders, KillGoto
<1>1. Listed' = Listed /\ Listed \subseteq Orders
  BY DEF Listed, bookVars, BookInv, BookTyped
<1>2. RunTyped'
  BY <1>1 DEF RunTyped
<1>3. Flattening(k)'
  BY <1>1 DEF RunTyped, Flattening
<1> QED
  BY <1>2, <1>3, OneRunLooks DEF RunTyped

LEMMA KillCheckOrder ==
  ASSUME KillInv, NEW k \in Kills, NEW o \in Orders, CheckOrder(k, o) PROVE KillInv'
<1> USE DEF KillInv, CheckOrder, CheckOne
<1>1. RunTyped'
  BY DEF RunTyped
<1>2. ~arrived'[k] /\ ~gaps'[k] => Flattening(k)'
  BY DEF RunTyped, FlattenInv, Flattening, Listed, bookVars
<1> QED
  BY <1>1, <1>2, OneRunLooks DEF RunTyped

LEMMA KillOrdersChecked ==
  ASSUME KillInv, NEW k \in Kills, OrdersChecked(k) PROVE KillInv'
<1> USE DEF KillInv, OrdersChecked, KillGoto, batchVars
<1>1. RunTyped'
  BY DEF RunTyped
<1>2. ~arrived'[k] /\ ~gaps'[k] => Flattening(k)'
  BY DEF RunTyped, FlattenInv, Flattening, Listed, bookVars
<1> QED
  BY <1>1, <1>2, OneRunLooks DEF RunTyped

LEMMA KillFetchPositions ==
  ASSUME KillInv, NEW k \in Kills, FetchPositions(k) PROVE KillInv'
<1> USE DEF KillInv, FetchPositions, KillGoto
<1>1. position \in [Markets -> 0..AllOrders]
  <2>1. Cardinality(Open) \in Nat /\ AllOrders \in Nat
    BY OpenFinite DEF BookInv
  <2>2. \A m \in Markets : position[m] \in 0..AllOrders
    BY <2>1 DEF BookInv, BookTyped, Counted
  <2> QED
    BY <2>2 DEF BookInv, BookTyped
<1>2. RunTyped'
  BY <1>1, CoveredMarkets DEF RunTyped, OpenPositions
<1>3. ~arrived'[k] /\ ~gaps'[k] => Flattening(k)'
  <2> SUFFICES ASSUME ~arrived'[k], ~gaps'[k]
               PROVE  Flattening(k)'
    OBVIOUS
  <2>1. Listed' = {} /\ OpenPositions' = OpenPositions /\ UNCHANGED position
    BY DEF FlattenInv, Flattening, OpenPositions, Listed, bookVars
  <2>2. toCheck'[k] = OpenPositions /\ sizes'[k] = position
    BY DEF RunTyped
  <2>3. \A m \in Covered : position'[m] <= sizes'[k][m]
    BY <2>1, <2>2, ToldSizes, CoveredMarkets DEF BookInv, BookTyped
  <2>4. killPc'[k] = IF OpenPositions = {} THEN "ok" ELSE "checkPositions"
    BY DEF RunTyped
  <2> QED
    BY <2>1, <2>2, <2>3, <2>4 DEF Flattening, Held
<1> QED
  BY <1>2, <1>3, OneRunLooks DEF RunTyped

LEMMA KillCheckPosition ==
  ASSUME KillInv, NEW k \in Kills, NEW m \in Markets, CheckPosition(k, m) PROVE KillInv'
<1> USE DEF KillInv, CheckPosition, CheckOne
<1>1. RunTyped'
  BY DEF RunTyped
<1>2. ~arrived'[k] /\ ~gaps'[k] => Flattening(k)'
  BY DEF RunTyped, FlattenInv, Flattening, Held, OpenPositions, Listed, bookVars
<1> QED
  BY <1>1, <1>2, OneRunLooks DEF RunTyped

LEMMA KillPositionsChecked ==
  ASSUME KillInv, NEW k \in Kills, PositionsChecked(k) PROVE KillInv'
<1> USE DEF KillInv, PositionsChecked, KillGoto, batchVars
<1>1. RunTyped'
  BY DEF RunTyped
<1>2. ~arrived'[k] /\ ~gaps'[k] => Flattening(k)'
  BY DEF RunTyped, FlattenInv, Flattening, Held, OpenPositions, Listed, bookVars
<1> QED
  BY <1>1, <1>2, OneRunLooks DEF RunTyped

LEMMA KillShowResult ==
  ASSUME KillInv, NEW k \in Kills, ShowResult(k) PROVE KillInv'
<1> USE DEF KillInv, ShowResult, KillGoto, batchVars
<1>1. RunTyped'
  BY DEF RunTyped
<1>2. Flattening(k)'
  BY DEF RunTyped, Flattening
<1> QED
  BY <1>1, <1>2, OneRunLooks DEF RunTyped

-----------------------------------------------------------------------------
(* The steps of a run that reach the exchange.                             *)

LEMMA KillCancel == ASSUME KillInv, NEW k \in Kills, Cancel(k) PROVE KillInv'
<1> USE DEF KillInv, Cancel, KillGoto, batchVars
<1>1. \A m \in Markets : position'[m] <= position[m]
  BY DEF BookInv, BookTyped
<1>2. BookInv'
  BY <1>1, BookShrinks DEF BookInv, BookTyped, cacheVars
<1>3. RunTyped'
  BY DEF RunTyped
<1>4. ~arrived'[k] /\ ~gaps'[k] => Flattening(k)'
  BY DEF RunTyped, FlattenInv, Flattening, Listed
<1> QED
  BY <1>1, <1>2, <1>3, <1>4, OneRunMoves DEF RunTyped

LEMMA KillClose == ASSUME KillInv, NEW k \in Kills, Close(k) PROVE KillInv'
<1> USE DEF KillInv, Close, KillGoto, batchVars
<1>1. \A m \in Markets : /\ position[m] \in Nat /\ position'[m] \in 0..position[m]
                         /\ Closable(k, m) \in 0..position[m]
  <2>1. \A m \in Markets : position[m] \in Nat /\ Closable(k, m) \in 0..position[m]
    BY ClosableBound DEF BookInv, BookTyped
  <2> QED
    BY <2>1
<1>2. position' \in [Markets -> Nat]
  BY <1>1
<1>3. BookInv'
  BY <1>1, <1>2, BookShrinks DEF BookInv, BookTyped, cacheVars
<1>4. RunTyped'
  BY DEF RunTyped
<1>5. ~arrived'[k] /\ ~gaps'[k] => Flattening(k)'
  <2> SUFFICES ASSUME ~arrived'[k], ~gaps'[k]
               PROVE  Flattening(k)'
    OBVIOUS
  <2>1. /\ ~gaps[k] /\ ~arrived[k]
        /\ \A m \in Markets : position'[m] = position[m] - Closable(k, m)
    BY DEF RunTyped
  <2>2. Listed' = {} /\ Held(k, batch[k])
    BY <2>1 DEF FlattenInv, Flattening, Listed
  <2> USE CoveredMarkets
  <2>3. ASSUME NEW m \in Covered
        PROVE  position'[m] = 0
    <3>1. CASE m \in batch[k]
      <4>1. Closable(k, m) = position[m]
        BY <3>1, <2>2, ClosableBound DEF BookInv, Held
      <4> QED
        BY <4>1, <2>1, <1>1
    <3>2. CASE m \notin batch[k]
      <4>1. position[m] = 0
        BY <3>2, <2>2 DEF Held, OpenPositions
      <4> QED
        BY <4>1, <1>1
    <3> QED
      BY <3>1, <3>2
  <2>4. OpenPositions' = {}
    BY <2>3 DEF OpenPositions
  <2> QED
    BY <2>2, <2>4 DEF Flattening, RunTyped
<1>6. \A m \in Markets : position'[m] <= position[m]
  BY <1>1
<1> QED
  BY <1>3, <1>4, <1>5, <1>6, OneRunMoves DEF RunTyped

LEMMA KillGivesUp == ASSUME KillInv, NEW k \in Kills, KillFails(k) PROVE KillInv'
<1> USE DEF KillInv, KillFails, KillGoto, batchVars
<1>1. \A m \in Markets : /\ position[m] \in Nat
                         /\ Closable(k, m) \in 0..position[m]
  BY ClosableBound DEF BookInv, BookTyped
<1>2. /\ \A m \in Markets : position'[m] \in 0..position[m]
      /\ position' \in [Markets -> Nat]
  <2>1. CASE UNCHANGED position
    BY <2>1, <1>1 DEF BookInv, BookTyped
  <2>2. CASE position' = [m \in Markets |-> position[m] - Closable(k, m)]
    BY <2>2, <1>1
  <2> QED
    BY <2>1, <2>2
<1>3. resting' \subseteq resting /\ \A m \in Markets : position'[m] <= position[m]
  BY <1>1, <1>2
<1>4. BookInv'
  BY <1>2, <1>3, BookShrinks DEF BookInv, BookTyped, cacheVars
<1>5. RunTyped'
  BY DEF RunTyped
<1>6. Flattening(k)'
  BY DEF RunTyped, Flattening
<1> QED
  BY <1>3, <1>4, <1>5, <1>6, OneRunMoves DEF RunTyped

-----------------------------------------------------------------------------
LEMMA KillStepInv == ASSUME KillInv, NEW k \in Kills, KillStep(k) PROVE KillInv'
  BY KillFetchOrders, KillOrdersChecked, KillCancel, KillFetchPositions,
     KillPositionsChecked, KillClose, KillGivesUp, KillShowResult,
     KillCheckOrder, KillCheckPosition DEF KillStep

LEMMA KillNextInv == KillInv /\ [Next]_vars => KillInv'
<1> SUFFICES ASSUME KillInv, [Next]_vars
             PROVE  KillInv'
  OBVIOUS
<1>1. ASSUME UNCHANGED <<cacheVars, workerVars, bookVars, killVars>>
      PROVE  KillInv'
  <2>1. \A m \in Markets : position'[m] <= position[m]
    BY <1>1 DEF KillInv, BookInv, BookTyped, bookVars
  <2>2. BookInv'
    BY <1>1, <2>1, BookShrinks DEF KillInv, BookInv, BookTyped, cacheVars, bookVars
  <2> QED
    BY <1>1, <2>2, RunsWait DEF killVars, bookVars
<1>2. CASE AllocatorStep
  BY <1>1, <1>2 DEF AllocatorStep
<1>3. CASE Exchange
  BY <1>3, KillFill, KillArrival DEF Exchange
<1>4. CASE \E k \in Kills : Confirm(k) \/ KillStep(k)
  BY <1>4, KillConfirm, KillStepInv
<1>5. CASE UNCHANGED vars
  BY <1>1, <1>5 DEF vars
<1> QED
  BY <1>2, <1>3, <1>4, <1>5, KillRefresh, KillWorker DEF Next

LEMMA KillKeepsInv == Spec => []KillInv
  BY KillInitially, KillNextInv, PTL DEF Spec

-----------------------------------------------------------------------------
\* The exchange's book, the runs of the kill switch and the nonces have their
\* types: no position ever exceeds the worker's orders, whatever fills, arrives
\* late or is closed by two runs at once (executeKillSwitch, CloseAllPositions).
THEOREM KillTypeCorrect == Spec => []TypeOK
<1>1. KillInv /\ NonceTypeOK => TypeOK
  <2> SUFFICES ASSUME KillInv, NonceTypeOK
               PROVE  TypeOK
    OBVIOUS
  <2>1. Cardinality(Open) \in Nat /\ AllOrders \in Nat
    BY OpenFinite DEF KillInv, BookInv
  <2>2. \A m \in Markets : position[m] \in 0..AllOrders
    BY <2>1 DEF KillInv, BookInv, BookTyped, Counted
  <2>3. position \in [Markets -> 0..Cardinality(Orders)]
    BY <2>2 DEF KillInv, BookInv, BookTyped, AllOrders
  <2> QED
    BY <2>3 DEF TypeOK, KillInv, BookInv, BookTyped, RunTyped, AllOrders
<1> QED
  BY <1>1, KillKeepsInv, KillImplementsNonces, NonceTypeCorrect, PTL

\* A run of the kill switch that ends without an error, without an arrival since
\* its start, a market missing from the cache or a closing order that did not
\* fill, leaves neither an order nor a position in the markets that account queries
\* cover, however many runs overlap and whatever fills between its steps
\* (CancelAllOrders before CloseAllPositions).
THEOREM KillLeavesFlat == Spec => []KillFlattens
<1>1. KillInv => KillFlattens
  BY DEF KillInv, FlattenInv, Flattening, KillFlattens
<1> QED
  BY <1>1, KillKeepsInv, PTL

=============================================================================
