--------------------------- MODULE InstructionLife ---------------------------
(***************************************************************************)
(* What the relay client promises of an instruction: it is looked at once, *)
(* refused or queued, started when its turn comes, executed alone and with *)
(* no more requests than it has steps, and answered at most once, by the   *)
(* step that ends it.                                                      *)
(***************************************************************************)
EXTENDS Naturals, Sequences

CONSTANTS
    Ids,
    Steps       \* the number of steps of each instruction

VARIABLES
    status,     \* "new", "checking", "refused", "queued", "running" or "done"
    line,       \* the queue, first come first served
    acts,       \* the requests made for each instruction
    told        \* the answers given for each instruction

lifeVars == <<status, line, acts, told>>

LifeInit ==
    /\ status = [id \in Ids |-> "new"]
    /\ line = << >>
    /\ acts = [id \in Ids |-> 0]
    /\ told = [id \in Ids |-> << >>]

Becomes(id, from, to) ==
    /\ status[id] = from
    /\ status' = [status EXCEPT ![id] = to]

\* There is one session and one worker.
Nobody(place) == \A id \in Ids : status[id] # place

\* An answer is lost when there is no connection.
MayTell(id, answer) == told' \in {told, [told EXCEPT ![id] = Append(@, answer)]}

Look(id) ==
    /\ Nobody("checking")
    /\ Becomes(id, "new", "checking")
    /\ UNCHANGED <<line, acts, told>>

Refuse(id) ==
    /\ \E from \in {"new", "checking"} : Becomes(id, from, "refused")
    /\ MayTell(id, "rejected")
    /\ UNCHANGED <<line, acts>>

Queue(id) ==
    /\ Becomes(id, "checking", "queued")
    /\ line' = Append(line, id)
    /\ UNCHANGED <<acts, told>>

Start(id) ==
    /\ Nobody("running")
    /\ line # << >> /\ id = Head(line)
    /\ Becomes(id, "queued", "running")
    /\ line' = Tail(line)
    /\ UNCHANGED <<acts, told>>

Act(id) ==
    /\ status[id] = "running" /\ acts[id] < Steps[id]
    /\ acts' = [acts EXCEPT ![id] = @ + 1]
    /\ UNCHANGED <<status, line, told>>

Finish(id) ==
    /\ Becomes(id, "running", "done")
    /\ MayTell(id, "result")
    /\ UNCHANGED <<line, acts>>

LifeNext ==
    \E id \in Ids :
        Look(id) \/ Refuse(id) \/ Queue(id) \/ Start(id) \/ Act(id) \/ Finish(id)

LifeSpec == LifeInit /\ [][LifeNext]_lifeVars
=============================================================================
