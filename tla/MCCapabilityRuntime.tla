------------------------ MODULE MCCapabilityRuntime -------------------------
(* Small instances of the capability runtime.                              *)
EXTENDS CapabilityRuntime, TLC

CONSTANTS t1, t2, t3, a1, a2, b1, b2, h1, h2, human, agent

MCHuman == [hash |-> h1, subject |-> human, is_ai |-> FALSE, target |-> "service.restart",
            intent |-> TRUE, valid |-> TRUE]
MCAgent == [MCHuman EXCEPT !.subject = agent, !.is_ai = TRUE]
MCRevised == [MCHuman EXCEPT !.hash = h2, !.intent = FALSE]
MCInvalid == [MCHuman EXCEPT !.valid = FALSE]

MCTwoEnvelopes == {MCHuman, MCRevised}
MCThreeEnvelopes == {MCAgent, MCRevised, MCInvalid}
MCFourEnvelopes == {MCHuman, MCAgent, MCRevised, MCInvalid}

MCRecoveryOnly == {"service.restart"}

MCSymmetry == Permutations({t1, t2, t3}) \cup Permutations({b1, b2})
=============================================================================
