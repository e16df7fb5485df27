------------------------------ MODULE Security ------------------------------
(***************************************************************************)
(* The security vocabulary every other module speaks: the ordered data     *)
(* classifications, the server-owned run profiles with the least           *)
(* classification each one handles, and the two policy predicates that the *)
(* API and the MCP servers share.                                          *)
(*                                                                         *)
(* domain/security.py, application/run_visibility.py,                      *)
(* application/action_approval.py, agent/run_classification_policy.py      *)
(***************************************************************************)
EXTENDS Naturals

PUBLIC       == 0
INTERNAL     == 1
CONFIDENTIAL == 2
RESTRICTED   == 3

Classifications == PUBLIC .. RESTRICTED

ActionNames == {"create_maintenance_ticket", "execute_reference_calibration"}

Profiles ==
    {"PUBLIC_INFORMATION", "INTERNAL_DIAGNOSTIC", "CONFIDENTIAL_TROUBLESHOOTING",
     "CONFIDENTIAL_RECOVERY", "RESTRICTED_INFORMATION", "RESTRICTED_TROUBLESHOOTING"}

(* The least classification a run of the profile is given; also the        *)
(* clearance of the MCP identity that reads data for it.                   *)
ProfileClassification ==
    [p \in Profiles |->
        CASE p = "PUBLIC_INFORMATION" -> PUBLIC
          [] p = "INTERNAL_DIAGNOSTIC" -> INTERNAL
          [] p \in {"CONFIDENTIAL_TROUBLESHOOTING", "CONFIDENTIAL_RECOVERY"} -> CONFIDENTIAL
          [] OTHER -> RESTRICTED]

(* A scope is what the policy resolves once and nothing changes later: the *)
(* profile of a run and the classification of its data.                    *)
Scopes ==
    {s \in [profile : Profiles, classification : Classifications] :
        s.classification >= ProfileClassification[s.profile]}

(* The profiles whose tool set contains the write tool that proposes a.    *)
ProfilesOffering(a) ==
    IF a = "create_maintenance_ticket"
    THEN {"CONFIDENTIAL_TROUBLESHOOTING", "RESTRICTED_TROUBLESHOOTING"}
    ELSE {"CONFIDENTIAL_TROUBLESHOOTING", "CONFIDENTIAL_RECOVERY",
          "RESTRICTED_TROUBLESHOOTING"}

IsRunVisible(classification, clearance) == classification <= clearance

(* Which action may be approved, and executed, in which scope.             *)
IsActionProfileAuthorized(action, scope) ==
    /\ scope.classification = CONFIDENTIAL
    /\ \/ /\ action = "create_maintenance_ticket"
          /\ scope.profile = "CONFIDENTIAL_TROUBLESHOOTING"
       \/ /\ action = "execute_reference_calibration"
          /\ scope.profile \in {"CONFIDENTIAL_TROUBLESHOOTING", "CONFIDENTIAL_RECOVERY"}
=============================================================================
