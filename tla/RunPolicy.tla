------------------------------ MODULE RunPolicy ------------------------------
(***************************************************************************)
(* What the server makes of a request before any model sees it: the        *)
(* profile it runs under, the classification of everything it may contain, *)
(* the data view of its MCP identity and the tools that identity offers.   *)
(* Pure operators over a request and its user, no state.                   *)
(*                                                                         *)
(* A request is what the resolver can tell of a text: the identifiers it   *)
(* names, the form that is left without them, and the words it mentions.   *)
(*                                                                         *)
(* agent/run_classification_policy.py, and its use in                      *)
(* infrastructure/api/app.py                                               *)
(***************************************************************************)
EXTENDS Security

CONSTANT None    \* no context, no user, no policy (the run is denied)

(* The targets of the demo factory with the profile each one calls for.    *)
PublicTargets       == {"P4101", "P4102", "S01", "S05"}
InternalTargets     == {"P4900", "P4901", "S02", "S03"}
RestrictedTargets   == {"P9001", "P9002", "S07", "S08", "PROTO-COMM-07"}
ConfidentialTargets ==
    {"P4711", "P4801", "P4802", "P4805", "P4811", "S04", "S06", "QUALITY-09",
     "POSITION-ENC-02", "a maintenance ticket"}

KnownTargets == PublicTargets \union InternalTargets \union ConfidentialTargets
                    \union RestrictedTargets

ProductTargets ==
    {"P4101", "P4102", "P4900", "P4901", "P4711", "P4801", "P4802", "P4805", "P4811",
     "P9001", "P9002"}

EntityProfile(target) ==
    IF target \in PublicTargets THEN "PUBLIC_INFORMATION"
    ELSE IF target \in InternalTargets THEN "INTERNAL_DIAGNOSTIC"
    ELSE IF target \in ConfidentialTargets THEN "CONFIDENTIAL_TROUBLESHOOTING"
    ELSE "RESTRICTED_TROUBLESHOOTING"

(* What is left of a text once its known identifiers are taken out: one of *)
(* the neutral instructions, a listing of stations or products, a deictic  *)
(* follow-up, or prose the resolver knows nothing of.                      *)
Forms == {"neutral", "discovery", "followUp", "prose"}

(* "deepens": HISTORY, DOCUMENT, UNTERSUCHE...                             *)
Words == {"station", "status", "deepens", "position reference"}

(* A follow-up is matched as a whole: it names no target.                  *)
RequestTexts ==
    {m \in [targets : SUBSET KnownTargets, form : Forms, words : SUBSET Words] :
        m.form = "followUp" => m.targets = {}}

MaxOf(S) == CHOOSE c \in S : \A d \in S : d <= c

(* domain/security.py: effective_data_classification                       *)
EffectiveClassification(S) == MaxOf(S)

IdentifierProfiles(m) == {EntityProfile(t) : t \in m.targets \intersect KnownTargets}
-----------------------------------------------------------------------------
(* Tools by profile.                                                       *)
PublicInformationTools ==
    {"list_stations", "get_station_overview", "list_products", "get_product_overview",
     "get_product_history", "get_maintenance_ticket", "search_documentation"}

InternalDiagnosticTools == PublicInformationTools \union {"get_machine_status"}

ConfidentialRecoveryTools ==
    {"get_position_reference_status", "prepare_reference_calibration",
     "execute_reference_calibration"}

ConfidentialTroubleshootingTools ==
    InternalDiagnosticTools \union ConfidentialRecoveryTools
        \union {"create_maintenance_ticket"}

RestrictedInformationTools == {"list_stations", "get_station_overview", "get_machine_status"}

ProfileTools(p) ==
    CASE p = "PUBLIC_INFORMATION" -> PublicInformationTools
      [] p = "INTERNAL_DIAGNOSTIC" -> InternalDiagnosticTools
      [] p = "CONFIDENTIAL_RECOVERY" -> ConfidentialRecoveryTools
      [] p = "RESTRICTED_INFORMATION" -> RestrictedInformationTools
      [] OTHER -> ConfidentialTroubleshootingTools

(* Profiles that read in the same data view, named as in the source.       *)
ProfileForClassification(c) ==
    CASE c = PUBLIC -> "PUBLIC_INFORMATION"
      [] c = INTERNAL -> "INTERNAL_DIAGNOSTIC"
      [] c = CONFIDENTIAL -> "CONFIDENTIAL_TROUBLESHOOTING"
      [] OTHER -> "RESTRICTED_TROUBLESHOOTING"

McpIdentityFor(c) ==
    CASE c = PUBLIC -> "industrial-agent-public"
      [] c = INTERNAL -> "industrial-agent-internal"
      [] c = CONFIDENTIAL -> "industrial-agent"
      [] OTHER -> "industrial-agent-restricted"
-----------------------------------------------------------------------------
(* Domain behaviour: which profile a request runs under.                   *)

IsPositionReferenceRecovery(m) == "S04" \in m.targets /\ "position reference" \in m.words

IsRestrictedInformation(m, clearance) ==
    /\ clearance = RESTRICTED
    /\ "deepens" \notin m.words
    /\ \/ "station" \in m.words /\ m.targets \intersect ProductTargets = {}
       \/ "status" \in m.words /\ "S07" \in m.targets

(* The most sensitive of the profiles its identifiers call for.            *)
MostSensitive(profiles) ==
    CHOOSE p \in profiles :
        \A q \in profiles : ProfileClassification[q] <= ProfileClassification[p]

ResolveProfile(m, clearance) ==
    IF IsPositionReferenceRecovery(m) THEN "CONFIDENTIAL_RECOVERY"
    ELSE IF IsRestrictedInformation(m, clearance) THEN "RESTRICTED_INFORMATION"
    ELSE IF IdentifierProfiles(m) # {} THEN MostSensitive(IdentifierProfiles(m))
    ELSE IF m.form = "discovery" /\ clearance # None THEN ProfileForClassification(clearance)
    ELSE "RESTRICTED_TROUBLESHOOTING"

(* A follow-up without a target runs where its conversation ran.           *)
ResolveContextualProfile(m, clearance, context) ==
    IF context # None /\ m.form = "followUp"
    THEN ProfileForClassification(context)
    ELSE ResolveProfile(m, clearance)
-----------------------------------------------------------------------------
(* Sensitivity: how the complete text is classified.                       *)
ClassifyContent(m, clearance, context) ==
    IF context # None /\ m.form = "followUp" THEN context
    ELSE IF m.form = "discovery" THEN IF clearance # None THEN clearance ELSE RESTRICTED
    ELSE IF m.targets # {} /\ m.form = "neutral" THEN PUBLIC
    ELSE RESTRICTED

(* AgentRunClassificationPolicy.resolve: a run is denied to a user who may *)
(* not see all of it, and its MCP identity reads no more than its profile  *)
(* needs, however sensitive its text is.                                   *)
Resolve(profile, clearance, classification) ==
    LET minimum == ProfileClassification[profile]
        effective == EffectiveClassification({minimum, classification})
    IN IF clearance # None /\ clearance < effective THEN None
       ELSE [profile |-> profile, classification |-> effective, ceiling |-> minimum,
             tools |-> ProfileTools(profile), identity |-> McpIdentityFor(minimum)]

ResolveRequest(m, clearance, context) ==
    Resolve(ResolveContextualProfile(m, clearance, context), clearance,
            EffectiveClassification(
                {ProfileClassification[p] : p \in IdentifierProfiles(m)}
                  \union {ClassifyContent(m, clearance, context),
                          IF context # None THEN context ELSE PUBLIC}))

(* resolve_persisted: the policy of a run that was created before.         *)
ResolvePersisted(profile, classification) ==
    IF classification < ProfileClassification[profile] THEN None
    ELSE Resolve(profile, None, classification)

(* ResolvedRunPolicy: what its constructor insists on.                     *)
IsResolvedRunPolicy(policy) ==
    /\ policy.profile \in Profiles
    /\ policy.classification \in Classifications
    /\ ProfileClassification[policy.profile] <= policy.ceiling
    /\ policy.ceiling <= policy.classification
    /\ policy.tools # {}
=============================================================================
