--------------------------- MODULE MCRunLifecycle ---------------------------
(* One run, with the requests that start it and try to resume it.          *)
EXTENDS RunLifecycle

TicketS04 == [action |-> "create_maintenance_ticket", target |-> "S04"]
CalibrateS06 == [action |-> "execute_reference_calibration", target |-> "S06"]

MCProposals == {TicketS04, CalibrateS06}

Troubleshooting == [profile |-> "CONFIDENTIAL_TROUBLESHOOTING", classification |-> CONFIDENTIAL]
RestrictedTroubleshooting ==
    [profile |-> "CONFIDENTIAL_TROUBLESHOOTING", classification |-> RESTRICTED]

MCScopes == {Troubleshooting, RestrictedTroubleshooting}

=============================================================================
