-------------------------------- MODULE Chain --------------------------------
(***************************************************************************)
(* What every CHEN pipeline promises of one run, whatever the hand-off: an *)
(* ordered chain of experts is fixed, each expert of the chain contributes *)
(* exactly once and in order, and the run ends, either done, when all have *)
(* contributed, or raised.                                                 *)
(***************************************************************************)
EXTENDS Naturals, Sequences

CONSTANT Chains    \* the non-empty sequences of experts a run may select

VARIABLES
    chain,        \* the experts to invoke, in order; <<>> while undecided
    contributed,  \* the experts whose results have been used so far
    status        \* "routing", "running", "done" or "raised"

vars == <<chain, contributed, status>>

Init ==
    /\ contributed = <<>>
    /\ \/ status = "routing" /\ chain = <<>>
       \/ status = "running" /\ chain \in Chains

Select ==
    /\ status = "routing"
    /\ status' = "running"
    /\ chain' \in Chains
    /\ UNCHANGED contributed

Contribute ==
    /\ status = "running"
    /\ Len(contributed) < Len(chain)
    /\ contributed' = Append(contributed, chain[Len(contributed) + 1])
    /\ UNCHANGED <<chain, status>>

Return ==
    /\ status = "running"
    /\ contributed = chain
    /\ status' = "done"
    /\ UNCHANGED <<chain, contributed>>

Raise ==
    /\ status = "running"
    /\ status' = "raised"
    /\ UNCHANGED <<chain, contributed>>

Next == Select \/ Contribute \/ Return \/ Raise

Spec == Init /\ [][Next]_vars /\ WF_vars(Next)
=============================================================================
