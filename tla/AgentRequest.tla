---------------------------- MODULE AgentRequest -----------------------------
(***************************************************************************)
(* A request to the agent: the graph of its run (AgentGraph), the sessions *)
(* it gets its tools from (McpSession), and what is published when it ends *)
(* (FinalAnswer).                                                          *)
(***************************************************************************)
EXTENDS AgentGraph

CONSTANTS
    Servers, Retries,    \* of the sessions
    Names, Toolset, Asked, Reads, Executions, Ids, Width, Heading, Partial,
    MaxIdentifiers, MaxDocuments, MaxAnswer,    \* of what is published
    CallsAnswered        \* the calls of a run whose answer is looked at

VARIABLES
    session, causes, bodies,
    run, executed, messages, pending, stage, output, result

Sessions == INSTANCE McpSession WITH request <- session

Final == INSTANCE FinalAnswer WITH
    Requests <- Asked, Tools <- Toolset, MaxToolCalls <- CallsAnswered

(* How a request is told that its sessions or its graph failed.            *)
ErrorCodes ==
    {"agent_execution_timeout", "model_runtime_unavailable", "model_egress_denied",
     "mcp_service_unavailable", "model_output_invalid", "tool_execution_failed",
     "llm_rate_limit", "llm_provider_unavailable", "internal_error"}

ASSUME CodesAssumption == None \notin ErrorCodes
ASSUME AnswersAssumption == Final!ToolsAreSound
-----------------------------------------------------------------------------
(* A request is told how the one run of its graph ended.                   *)
EndsAreTold == Sessions!EndsAreTold

(* Its answer refers to what the run was asked, called and observed.       *)
ReferencesAreOfTheRun == Final!ReferencesAreOfTheRun

(* What the user named is always among the references.                     *)
RequestedIsNamed == Final!RequestedIsNamed

(* A step of its investigation says what its own call observed, unless a   *)
(* later call has taken its id.                                            *)
FindingsAreOfTheirCalls == Final!FindingsAreOfTheirCalls

(* The same of every step, as the docstring has it: it fails.              *)
StepsTellTheirOwnCall == Final!StepsTellTheirOwnCall

(* The steps and the verdict agree on the recovery.                        *)
RecoveryIsToldAsItEnded == Final!RecoveryIsToldAsItEnded

(* An inventory is complete or says that it is not.                        *)
InventoryIsTold == Final!InventoryIsTold
=============================================================================
