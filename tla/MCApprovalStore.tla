--------------------------- MODULE MCApprovalStore ---------------------------
(* Small instances of ApprovalStore: a proposal to write either of two     *)
(* tickets, and one to calibrate; one scope an approval can be used in,    *)
(* and one (a restricted classification) in which it cannot.               *)
EXTENDS ApprovalStore, TLC

TicketS04 == [action |-> "create_maintenance_ticket", target |-> "S04"]
TicketS06 == [action |-> "create_maintenance_ticket", target |-> "S06"]
CalibrateS06 == [action |-> "execute_reference_calibration", target |-> "S06"]

MCProposals == {TicketS04, TicketS06, CalibrateS06}

Troubleshooting == [profile |-> "CONFIDENTIAL_TROUBLESHOOTING", classification |-> CONFIDENTIAL]
RestrictedTroubleshooting ==
    [profile |-> "CONFIDENTIAL_TROUBLESHOOTING", classification |-> RESTRICTED]
Recovery == [profile |-> "CONFIDENTIAL_RECOVERY", classification |-> CONFIDENTIAL]

MCScopes == {Troubleshooting, RestrictedTroubleshooting}

MCSymmetry == Permutations(Calls) \union Permutations(Gens) \union Permutations(Runs)
=============================================================================
