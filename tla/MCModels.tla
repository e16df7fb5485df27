------------------------------ MODULE MCModels ------------------------------
(* Two messages of one investigation over a part of the shipped catalog, a *)
(* run of the provider contract matrix over the same models, or a row of   *)
(* the dialog that assigns them.                                           *)
EXTENDS ModelServices

Definition(zone, max, capabilities, quality, cost, needs_key, order) ==
    [zone |-> zone, max |-> max, capabilities |-> capabilities, incompatible |-> {},
     quality |-> quality, cost |-> cost, needs_key |-> needs_key, order |-> order]

AllCapabilities == {"TEXT", "TOOL_CALLING", "STRUCTURED_OUTPUT"}

(* config/model_catalog.toml, without nvidia_quality and local_fast.       *)
MCCatalog ==
    [local_quality |-> Definition("LOCAL", RESTRICTED, AllCapabilities, "HIGH", "LOW", FALSE, 2),
     groq_benchmark |-> [Definition("PUBLIC_CLOUD", CONFIDENTIAL, AllCapabilities,
                                    "HIGH", "LOW", TRUE, 1)
                         EXCEPT !.incompatible = {{"TOOL_CALLING", "STRUCTURED_OUTPUT"}}],
     mistral_fast |-> Definition("PUBLIC_CLOUD", CONFIDENTIAL, {"TEXT", "TOOL_CALLING"},
                                 "STANDARD", "LOW", TRUE, 3)]

Manual(model) == [mode |-> "MANUAL", model |-> model, policy |-> None]
Auto(policy)  == [mode |-> "AUTO", model |-> None, policy |-> policy]

MCReassignments ==
    {<<CONFIDENTIAL, Manual("mistral_fast")>>, <<CONFIDENTIAL, Auto("QUALITY_FIRST")>>,
     <<RESTRICTED, Manual("groq_benchmark")>>}

MCLabels == {CONFIDENTIAL, RESTRICTED, None}

Text(targets, form, words) == [targets |-> targets, form |-> form, words |-> words]

MCTexts ==
    {Text({"S04"}, "neutral", {}),
     Text({"S04", "P9001"}, "neutral", {"position reference"}),
     Text({}, "followUp", {})}

(* The three share no state: each is explored by itself, beside one initial*)
(* state of the others.                                                    *)
matrix == <<contracts, step, answered, aborted>>
settings == <<row, saves, chosen, late, assigned, writer>>

IsUntouched == ~ serving /\ assignments[PUBLIC] = None
IsUntested == \A m \in DOMAIN contracts : contracts[m] = None
IsUnchanged == chosen = 0 /\ assigned.policy = "QUALITY_FIRST" /\ row.shown = assigned

MCInit == Init /\ Contract!ContractInit /\ Settings!InitSettings

MCNext ==
    \/ Next /\ IsUntested /\ IsUnchanged /\ UNCHANGED <<matrix, settings>>
    \/ Contract!ContractNext /\ IsUntouched /\ IsUnchanged /\ UNCHANGED <<vars, settings>>
    \/ Settings!NextSettings /\ IsUntouched /\ IsUntested /\ UNCHANGED <<vars, matrix>>

MCSpec == MCInit /\ [][MCNext]_<<vars, matrix, settings>> /\ Fairness
=============================================================================
