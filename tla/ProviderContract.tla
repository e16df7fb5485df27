-------------------------- MODULE ProviderContract --------------------------
(***************************************************************************)
(* The provider contract matrix: each configured model is asked for text,  *)
(* for a tool call, for structured output, for both one after the other,   *)
(* and is judged by what came back.  A provider may fail any request in    *)
(* any way its SDK can report.                                             *)
(*                                                                         *)
(* infrastructure/llm/provider_contract.py                                 *)
(***************************************************************************)
EXTENDS Naturals

CONSTANTS ContractModels,     \* the models under test
          Catalog, Keys,      \* their definitions, and whose key is set
          None

VARIABLES
    contracts,    \* per model: what has been found out, or None
    step,         \* per model: the call that is next
    answered,     \* per model: the calls it has ever answered as it should
    aborted       \* the runner raised: its results are lost

contractVars == <<contracts, step, answered, aborted>>

Selection == INSTANCE ModelSelection
Errors    == INSTANCE ProviderAdapter WITH ProviderModels <- ContractModels, MaxCalls <- 1

Calls == {"text", "tool_calling", "structured_output", "multi_step", "same_request"}

Verdicts == {"VERIFIED", "UNSUPPORTED", "NOT_VERIFIED"}

LiveStatuses == {"AVAILABLE", "RATE_LIMITED", "UNAVAILABLE", "REQUEST_REJECTED", "NOT_CONFIGURED"}

ProviderContractResult ==
    [verdicts : [Calls -> Verdicts],
     live     : LiveStatuses,
     error    : {"model_not_configured", "model_output_invalid", "QUOTA_EXCEEDED", "RATE_LIMIT",
                 "PROVIDER_UNAVAILABLE", "REQUEST_INVALID", None}]

Steps == {"text", "tool_calling", "structured_output", "tool again", "structured again", "done"}

ContractTypeOK ==
    /\ contracts \in [ContractModels -> ProviderContractResult \union {None}]
    /\ step \in [ContractModels -> Steps]
    /\ answered \in [ContractModels -> SUBSET Calls]
    /\ aborted \in BOOLEAN

ContractInit ==
    /\ contracts = [m \in ContractModels |-> None]
    /\ step = [m \in ContractModels |-> "text"]
    /\ answered = [m \in ContractModels |-> {}]
    /\ aborted = FALSE

(* run: the models are tested one after the other.                         *)
Begin(m) ==
    /\ ~ aborted
    /\ contracts[m] = None
    /\ \A n \in ContractModels : contracts[n] # None => step[n] = "done"
    /\ LET configured == Selection!IsStaticallyAvailable(m, Keys)
       IN /\ contracts' = [contracts EXCEPT ![m] =
                [verdicts |-> [c \in Calls |-> "NOT_VERIFIED"],
                 live |-> IF configured THEN "AVAILABLE" ELSE "NOT_CONFIGURED",
                 error |-> IF configured THEN None ELSE "model_not_configured"]]
          /\ step' = [step EXCEPT ![m] = IF configured THEN "text" ELSE "done"]
    /\ UNCHANGED <<answered, aborted>>

Tests(m) == ~ aborted /\ contracts[m] # None /\ step[m] # "done"

(* What a step asks for, and where its verdict goes.                       *)
Asks(s) == IF s = "tool again" THEN "tool_calling"
           ELSE IF s = "structured again" THEN "structured_output" ELSE s

Judges(s) == IF s \in {"tool again", "structured again"} THEN "multi_step" ELSE s

After(s) ==
    CASE s = "text" -> "tool_calling"
      [] s = "tool_calling" -> "structured_output"
      [] s = "structured_output" -> "tool again"
      [] s = "tool again" -> "structured again"
      [] OTHER -> "done"

(* _same_request_constraint: judged from the catalog, by no request.       *)
SameRequestVerdict(m) ==
    LET both == Selection!CallRequirementFor(TRUE, TRUE)
    IN IF /\ both \subseteq Catalog[m].capabilities
          /\ \E combination \in Catalog[m].incompatible : combination \subseteq both
       THEN "UNSUPPORTED" ELSE "NOT_VERIFIED"

(* The result with the verdict of one call; after the last one the model   *)
(* is done, and the same-request constraint is filled in.                  *)
Judged(m, verdict, live, error, next) ==
    LET known == contracts[m]
        same  == IF next = "done" /\ live \in {"AVAILABLE", "REQUEST_REJECTED"}
                 THEN SameRequestVerdict(m) ELSE known.verdicts["same_request"]
    IN  /\ contracts' = [contracts EXCEPT ![m] =
              [verdicts |-> [known.verdicts EXCEPT ![Judges(step[m])] = verdict,
                                                   !["same_request"] = same],
               live |-> live,
               error |-> IF error = None THEN known.error ELSE error]]
        /\ step' = [step EXCEPT ![m] = next]

(* Structured output is not asked of a model that has none.                *)
ReachesProvider(m) ==
    /\ Tests(m)
    /\ Asks(step[m]) = "structured_output" =>
          "STRUCTURED_OUTPUT" \in Catalog[m].capabilities

(* The answer is what was asked for; of the two calls in sequence the      *)
(* verdict is the second one's.                                            *)
IsAnswered(m) ==
    /\ ReachesProvider(m)
    /\ answered' = [answered EXCEPT ![m] =
          @ \union {Asks(step[m])}
            \union (IF step[m] = "structured again" THEN {"multi_step"} ELSE {})]
    /\ IF step[m] = "tool again"
       THEN step' = [step EXCEPT ![m] = After(step[m])] /\ UNCHANGED contracts
       ELSE Judged(m, "VERIFIED", "AVAILABLE", None, After(step[m]))
    /\ UNCHANGED aborted

(* The answer is something else: the model is available and not verified.  *)
(* A first call that failed is the end of the sequence.                    *)
NextUnverified(s) == IF s = "tool again" THEN "done" ELSE After(s)

IsAnsweredInvalidly(m) ==
    /\ ReachesProvider(m)
    /\ Judged(m, "NOT_VERIFIED", "AVAILABLE", "model_output_invalid", NextUnverified(step[m]))
    /\ UNCHANGED <<answered, aborted>>

(* The adapter raises a ValueError: it rejects the request itself, or the  *)
(* answer has no choice in it or arguments that are no JSON, which the     *)
(* runner takes for the same.                                              *)
IsRejectedLocally(m) ==
    /\ Tests(m)
    /\ Judged(m, "NOT_VERIFIED", "REQUEST_REJECTED", "REQUEST_INVALID", NextUnverified(step[m]))
    /\ UNCHANGED <<answered, aborted>>

(* The answer has content of a type the adapter does not know (TypeError): *)
(* nobody catches that.                                                    *)
IsUnreadable(m) ==
    /\ ReachesProvider(m)
    /\ aborted' = TRUE
    /\ UNCHANGED <<contracts, step, answered>>

LiveStatusForError(error) ==
    CASE error \in {"RATE_LIMIT", "QUOTA_EXCEEDED"} -> "RATE_LIMITED"
      [] error = "PROVIDER_UNAVAILABLE" -> "UNAVAILABLE"
      [] OTHER -> "REQUEST_REJECTED"

(* _stop_after: nothing more is asked of a provider that cannot answer.    *)
StopAfter(live) == live \in {"RATE_LIMITED", "UNAVAILABLE"}

(* A fault: a provider that rejects a request cannot do what it asked.     *)
FailsUnsupported(m, signal, code) ==
    /\ ReachesProvider(m)
    /\ LET error == Errors!ClassifyProviderError(signal, code)
       IN /\ error # "raw"
          /\ Judged(m, IF error = "REQUEST_INVALID" THEN "UNSUPPORTED" ELSE "NOT_VERIFIED",
                    LiveStatusForError(error), error, NextUnverified(step[m]))
    /\ UNCHANGED <<answered, aborted>>

(* The provider fails.  An error nobody classified is raised through the   *)
(* runner.                                                                 *)
Fails(m, signal, code) ==
    /\ ReachesProvider(m)
    /\ LET error == Errors!ClassifyProviderError(signal, code)
           live == LiveStatusForError(error)
       IN IF error = "raw"
          THEN aborted' = TRUE /\ UNCHANGED <<contracts, step>>
          ELSE /\ Judged(m, "NOT_VERIFIED", live, error,
                         IF StopAfter(live) THEN "done" ELSE NextUnverified(step[m]))
               /\ UNCHANGED aborted
    /\ UNCHANGED answered

ContractNext ==
    \E m \in ContractModels :
        \/ Begin(m)
        \/ IsAnswered(m)
        \/ IsAnsweredInvalidly(m)
        \/ IsRejectedLocally(m)
        \/ IsUnreadable(m)
        \/ \E signal \in Errors!Signals, code \in Errors!Codes : Fails(m, signal, code)
-----------------------------------------------------------------------------
(* provider-contract-matrix.md: a rate limit, a timeout, an outage or a    *)
(* rejected request never proves a capability unsupported, and nothing is  *)
(* verified that was not answered: a verdict is what was seen of the       *)
(* model, in whatever order its provider fails and recovers.               *)
VerdictsAreProven ==
    \A m \in ContractModels : contracts[m] # None =>
        \A c \in Calls :
            /\ contracts[m].verdicts[c] = "VERIFIED" => c \in answered[m]
            /\ contracts[m].verdicts[c] = "UNSUPPORTED" =>
                  /\ c = "same_request"
                  /\ \E combination \in Catalog[m].incompatible :
                        combination \subseteq Catalog[m].capabilities
=============================================================================
