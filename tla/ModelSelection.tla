--------------------------- MODULE ModelSelection ---------------------------
(***************************************************************************)
(* Which model a consumer of a classification is given, and what every     *)
(* single call to it is checked for again.  Pure operators over a catalog, *)
(* an environment and an assignment, no state.                             *)
(*                                                                         *)
(* agent/model_selection.py, agent/model_egress.py,                        *)
(* application/model_configuration.py, infrastructure/llm/configuration.py *)
(***************************************************************************)
EXTENDS Security

CONSTANTS Catalog,   \* the configured models: ids to definitions
          None       \* no model, no policy, no assignment

Capabilities == {"TEXT", "TOOL_CALLING", "STRUCTURED_OUTPUT"}
Zones        == {"LOCAL", "PUBLIC_CLOUD"}
Policies     == {"QUALITY_FIRST", "COST_FIRST"}

(* "order" is the place of the id in the order of ids; "needs_key": the    *)
(* model is called with a key from the environment.                        *)
ModelDefinition ==
    [zone         : Zones,
     max          : Classifications,
     capabilities : SUBSET Capabilities,
     incompatible : SUBSET (SUBSET Capabilities),
     quality      : {"STANDARD", "HIGH"},
     cost         : {"LOW", "HIGH"},
     needs_key    : BOOLEAN,
     order        : Nat]

Models == DOMAIN Catalog

ModelAssignment ==
    [mode : {"MANUAL"}, model : Models, policy : {None}]
        \union [mode : {"AUTO"}, model : {None}, policy : Policies]
-----------------------------------------------------------------------------
(* What a call needs of a model, all at once.                              *)

AgentCallRequirements ==
    {{"TEXT", "TOOL_CALLING"}, {"TEXT", "STRUCTURED_OUTPUT"}, {"TEXT"}}

RcaReasoningCallRequirements == {{"TEXT", "STRUCTURED_OUTPUT"}}

(* call_requirement_for_request                                            *)
CallRequirementFor(has_tools, has_format) ==
    {"TEXT"} \union (IF has_tools THEN {"TOOL_CALLING"} ELSE {})
             \union (IF has_format THEN {"STRUCTURED_OUTPUT"} ELSE {})

(* validate_model_capabilities: each call by itself, never their union.    *)
SatisfiesCalls(model, requirements) ==
    \A required \in requirements :
        /\ required \subseteq Catalog[model].capabilities
        /\ \A combination \in Catalog[model].incompatible : ~ combination \subseteq required

(* CapabilityCheckedLLMClient: the last check of a single request.         *)
CapabilityChecked(model, has_tools, has_format) ==
    SatisfiesCalls(model, {CallRequirementFor(has_tools, has_format)})
-----------------------------------------------------------------------------
(* Egress: which data may leave for which zone.                            *)

AllowedCombinations ==
    (Classifications \X {"LOCAL"}) \union ({PUBLIC, INTERNAL, CONFIDENTIAL} \X {"PUBLIC_CLOUD"})

(* ModelEgressPolicy.is_allowed, which the authorizer asks every time.     *)
IsAllowed(classification, zone, max) ==
    /\ <<classification, zone>> \in AllowedCombinations
    /\ classification <= max

IsModelAllowed(classification, model) ==
    IsAllowed(classification, Catalog[model].zone, Catalog[model].max)

(* authorize_request: what a request is authorized for, and the adapter's  *)
(* check of it (require_model_egress_authorization), which asks whether    *)
(* this is the request and the model that were authorized.                 *)
AuthorizeRequest(classification, model) ==
    IF IsModelAllowed(classification, model)
    THEN [model |-> model, zone |-> Catalog[model].zone, max |-> Catalog[model].max,
          classification |-> classification]
    ELSE None

IsAuthorizedFor(authorization, model) ==
    /\ authorization # None
    /\ authorization.model = model
    /\ authorization.zone = Catalog[model].zone
    /\ authorization.max = Catalog[model].max

(* EgressCheckedLLMClient: authorized for what the run has been cleared    *)
(* for so far, and that is never lowered.                                  *)
EgressChecked(cleared, model) ==
    IsAuthorizedFor(AuthorizeRequest(cleared, model), model)

Raised(cleared, observed) == IF observed > cleared THEN observed ELSE cleared
-----------------------------------------------------------------------------
(* Resolution: one model or a refusal, and never a second choice.          *)

(* is_model_available: its key is set, if it needs one.                    *)
IsStaticallyAvailable(model, keys) == Catalog[model].needs_key => model \in keys

(* _selection_sort_key                                                     *)
QualityRank(m) == IF Catalog[m].quality = "HIGH" THEN 0 ELSE 1
CostRank(m)    == IF Catalog[m].cost = "LOW" THEN 0 ELSE 1

SortKey(m, policy) ==
    IF policy = "QUALITY_FIRST" THEN <<QualityRank(m), CostRank(m), Catalog[m].order>>
    ELSE <<CostRank(m), QualityRank(m), Catalog[m].order>>

Precedes(a, b) ==
    \E i \in 1 .. 3 : a[i] < b[i] /\ \A j \in 1 .. i - 1 : a[j] = b[j]

First(models, policy) ==
    CHOOSE m \in models :
        \A n \in models \ {m} : Precedes(SortKey(m, policy), SortKey(n, policy))

Decision(outcome, model) == [outcome |-> outcome, model |-> model]

(* What a candidate of an automatic selection is passed over for, None if  *)
(* it is not.                                                              *)
ExclusionReasons == {"runtime_unavailable", "capability_mismatch", "egress_denied"}

ExclusionReason(m, classification, requirements, keys) ==
    CASE ~ IsStaticallyAvailable(m, keys) -> "runtime_unavailable"
      [] ~ SatisfiesCalls(m, requirements) -> "capability_mismatch"
      [] ~ IsModelAllowed(classification, m) -> "egress_denied"
      [] OTHER -> None

ResolveAuto(assignment, classification, requirements, keys) ==
    LET reason(m) == ExclusionReason(m, classification, requirements, keys)
        authorized == {m \in Models : reason(m) = None}
    IN CASE authorized # {} ->
                Decision("EXECUTION_ALLOWED", First(authorized, assignment.policy))
         [] \A m \in Models : reason(m) = "runtime_unavailable" ->
                Decision("MODEL_NOT_CONFIGURED", None)
         [] \A m \in Models : reason(m) \in {"runtime_unavailable", "capability_mismatch"} ->
                Decision("CAPABILITY_MISMATCH", None)
         [] OTHER -> Decision("EGRESS_DENIED", None)

ResolveManual(assignment, classification, requirements) ==
    IF ~ IsModelAllowed(classification, assignment.model)
    THEN Decision("EGRESS_DENIED", None)
    ELSE IF ~ SatisfiesCalls(assignment.model, requirements)
    THEN Decision("CAPABILITY_MISMATCH", None)
    ELSE Decision("EXECUTION_ALLOWED", assignment.model)

ResolveModel(assignment, classification, requirements, keys) ==
    IF assignment = None THEN Decision("MODEL_NOT_CONFIGURED", None)
    ELSE IF assignment.mode = "AUTO"
    THEN ResolveAuto(assignment, classification, requirements, keys)
    ELSE ResolveManual(assignment, classification, requirements)
-----------------------------------------------------------------------------
(* Configuration: what an operator may assign.  The capabilities and the   *)
(* key are looked at when the model is resolved, not here.                 *)
IsConfigurable(assignment, classification) ==
    assignment.mode = "MANUAL" => IsModelAllowed(classification, assignment.model)

(* ensure_default_assignments: only what nobody chose is filled in, and    *)
(* only with a default every consumer can use.                             *)
WithDefaults(assigned, default) ==
    [c \in Classifications |->
        IF assigned[c] = None THEN [mode |-> "MANUAL", model |-> default, policy |-> None]
        ELSE assigned[c]]
=============================================================================
