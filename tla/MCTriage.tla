------------------------------ MODULE MCTriage ------------------------------
EXTENDS Triage, TLC
CONSTANTS u1, u2

MCPulls == {<<1, 1>>, <<1, 2>>, <<2, 1>>}
MCPresets == {"dependencyChain"}
Approved == [open |-> TRUE, draft |-> FALSE, conflicts |-> "no", labels |-> {}, deps |-> {},
             reviews |-> <<[by |-> u1, state |-> "approved"]>>, checks |-> <<"passing">>]
MCOpenings == {Approved}

=============================================================================
