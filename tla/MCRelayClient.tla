---------------------------- MODULE MCRelayClient ----------------------------
(***************************************************************************)
(* Bounded instances of RelayClient.                                       *)
(***************************************************************************)
EXTENDS RelayClient

CONSTANTS i1, i2, i3, none

\* An order, and an entry with its protective order: two failures in a row come
\* from two instructions, with or without a success between them.
MCStepIds == {i1, i2}
MCStepSteps == (i1 :> <<"place_order">>) @@ (i2 :> <<"place_order", "place_order">>)

\* Three modifications, more than the queue and the handler hold: steps that end
\* well without effect.
MCQueueIds == {i1, i2, i3}
MCQueueSteps == [id \in MCQueueIds |-> <<"modify_order">>]
MCQueueSymmetry == Permutations(MCQueueIds)
=============================================================================
