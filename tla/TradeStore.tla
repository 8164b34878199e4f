----------------------------- MODULE TradeStore -----------------------------
(***************************************************************************)
(* The ring of recent trades behind the trades view (cmd/bot/tradestore.go)*)
(* which the worker fills and the terminal UI reads, each under the lock;  *)
(* UiLoop says when.  The indices 0 .. Cap - 1 are those of the code.      *)
(***************************************************************************)
EXTENDS Integers, Sequences

CONSTANTS
    Record,     \* trade records
    NoRecord,   \* the zero record a new ring is filled with
    Cap         \* its capacity (200)

ASSUME StoreAssumption ==
    /\ NoRecord \notin Record
    /\ Cap \in Nat \ {0}

VARIABLES
    records,    \* s.records
    cursor,     \* s.cursor
    count,      \* s.count
    added       \* history: every record added

storeVars == <<records, cursor, count, added>>

StoreInit ==
    /\ records = [i \in 0..(Cap - 1) |-> NoRecord]
    /\ cursor = 0
    /\ count = 0
    /\ added = << >>

Advance == cursor' = (cursor + 1) % Cap

Counted == IF count < Cap THEN count + 1 ELSE count

Add(r) ==
    /\ records' = [records EXCEPT ![cursor] = r]
    /\ Advance
    /\ count' = Counted
    /\ added' = Append(added, r)

FaultyStart(n) == (cursor + 1 - n + Cap) % Cap

Start(n) == (cursor - n + Cap) % Cap

\* Recent(m): the last m records, or as many as there are, oldest first.
Recent(m) ==
    LET n == IF m > count THEN count ELSE m
    IN  [i \in 1..n |-> records[(Start(n) + i - 1) % Cap]]

-----------------------------------------------------------------------------
\* Types, and the cursor of a ring that is not full yet.
StoreTypeOK ==
    /\ records \in [0..(Cap - 1) -> Record \cup {NoRecord}]
    /\ cursor \in 0..(Cap - 1)
    /\ count \in 0..Cap
    /\ count < Cap => cursor = count
    /\ added \in Seq(Record)

Log == INSTANCE BoundedLog WITH log <- Recent(Cap)

\* The ring is the log of the last Cap records: Add appends to it and drops the
\* oldest record of a full one.
ImplementsLog == Log!LogSpec
=============================================================================
