--------------------------- MODULE NonceAllocator ---------------------------
(***************************************************************************)
(* The nonce of a signed request to the exchange (internal/hyperliquid/    *)
(* client.go, postExchange).  The goroutines that share a client (the      *)
(* worker, the kill switch) choose nonces with a compare-and-swap loop on  *)
(* lastNonce: the wall clock in milliseconds, or the last nonce plus one   *)
(* when the clock is not ahead of it.  The clock may be set back.          *)
(***************************************************************************)
EXTENDS Integers, Sequences

CONSTANTS
    Callers,    \* goroutines that call postExchange
    Times       \* readings of the wall clock

ASSUME NonceAssumption == Times \subseteq Nat \ {0}

VARIABLES
    clock,      \* time.Now().UnixMilli()
    lastNonce,  \* c.lastNonce
    callPc,     \* where each caller is in postExchange
    callNow,    \* its `now`
    callOld,    \* its `old`
    issued      \* history: the nonces in the order of their compare-and-swap

nonceVars == <<clock, lastNonce, callPc, callNow, callOld, issued>>

NonceInit ==
    /\ clock \in Times
    /\ lastNonce = 0
    /\ callPc = [c \in Callers |-> "idle"]
    /\ callNow = [c \in Callers |-> 0]
    /\ callOld = [c \in Callers |-> 0]
    /\ issued = << >>

Goto(c, from, to) ==
    /\ callPc[c] = from
    /\ callPc' = [callPc EXCEPT ![c] = to]

ClockSet ==
    /\ clock' \in Times
    /\ UNCHANGED <<lastNonce, callPc, callNow, callOld, issued>>

Call(c) ==
    /\ Goto(c, "idle", "clock")
    /\ UNCHANGED <<clock, lastNonce, callNow, callOld, issued>>

ReadClock(c) ==
    /\ Goto(c, "clock", "load")
    /\ callNow' = [callNow EXCEPT ![c] = clock]
    /\ UNCHANGED <<clock, lastNonce, callOld, issued>>

LoadNonce(c) ==
    /\ Goto(c, "load", "swap")
    /\ callOld' = [callOld EXCEPT ![c] = lastNonce]
    /\ UNCHANGED <<clock, lastNonce, callNow, issued>>

FaultyNextNonce(c) == IF callNow[c] < callOld[c] THEN callOld[c] + 1 ELSE callNow[c]

NextNonce(c) == IF callNow[c] <= callOld[c] THEN callOld[c] + 1 ELSE callNow[c]

FaultyUntouched(c) == TRUE

Untouched(c) == lastNonce = callOld[c]

Swap(c) ==
    /\ Untouched(c)
    /\ Goto(c, "swap", "signed")
    /\ lastNonce' = NextNonce(c)
    /\ issued' = Append(issued, NextNonce(c))
    /\ UNCHANGED <<clock, callNow, callOld>>

SwapLost(c) ==
    /\ ~Untouched(c)
    /\ Goto(c, "swap", "clock")
    /\ UNCHANGED <<clock, lastNonce, callNow, callOld, issued>>

\* The signed request has been answered or given up.
Return(c) ==
    /\ Goto(c, "signed", "idle")
    /\ UNCHANGED <<clock, lastNonce, callNow, callOld, issued>>

\* The steps of the loop itself, which wait for nothing.
Allocate(c) == ReadClock(c) \/ LoadNonce(c) \/ Swap(c) \/ SwapLost(c)

NonceNext ==
    \/ ClockSet
    \/ \E c \in Callers : Call(c) \/ Allocate(c) \/ Return(c)

NonceSpec == NonceInit /\ [][NonceNext]_nonceVars

-----------------------------------------------------------------------------
NonceTypeOK ==
    /\ clock \in Times
    /\ lastNonce \in Nat
    /\ callPc \in [Callers -> {"idle", "clock", "load", "swap", "signed"}]
    /\ callNow \in [Callers -> Nat]
    /\ callOld \in [Callers -> Nat]
    /\ issued \in Seq(Nat \ {0})

\* No two requests carry the same nonce, and a later one carries a greater,
\* whichever goroutines sign them and however the clock is set: the exchange
\* refuses a nonce it has seen (the compare-and-swap loop in postExchange).
NoncesIncrease ==
    \A i, j \in DOMAIN issued : i < j => issued[i] < issued[j]
=============================================================================
