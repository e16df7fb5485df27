----------------------------- MODULE FinalAnswer -----------------------------
(***************************************************************************)
(* What a run publishes: its answer, the steps of its investigation, and   *)
(* the identifiers and documents it refers to.  AgentGraph says which node *)
(* runs when; here a run collects calls and their observations, each under *)
(* the id the model gave the call, and every way it can end makes its      *)
(* result of them.  The model may write anything: an answer in the wrong   *)
(* language, forbidden sections, the steps of another trajectory, an id it *)
(* has used before.                                                        *)
(*                                                                         *)
(* agent/langgraph_troubleshooting_agent.py, agent/agent_run.py            *)
(***************************************************************************)
EXTENDS Naturals, Sequences, FiniteSets, FiniteSetsExt

CONSTANTS
    Names,           \* identifiers of stations, products, tickets and faults
    Tools,           \* names of the tools
    Requests,        \* [names, first, recovery, finalizer]
    Reads,           \* [tool, arguments, observation] a read may be and return
    Executions,      \* observations a calibration may return
    Ids,             \* tool_call_ids the model uses
    Width,           \* the length of the line of a station or product
    Heading, Partial,    \* and of the other two lines of an inventory
    MaxToolCalls,    \* MAX_TOOL_CALLS
    MaxIdentifiers,  \* MAX_IDENTIFIER_REFERENCES
    MaxDocuments,    \* MAX_DOCUMENT_REFERENCES
    MaxAnswer,       \* MAX_FINAL_ANSWER_LENGTH
    None

Ticket == "create_maintenance_ticket"
Calibration == "execute_reference_calibration"
Preparation == "prepare_reference_calibration"
ReferenceStatus == "get_position_reference_status"
Search == "search_documentation"

(* What an observation is from, the station or product it is about, what   *)
(* it says, the identifiers in its fields, and the rows or documents it    *)
(* lists.                                                                  *)
Observations ==
    [from : Tools, about : Names \union {None}, facts : SUBSET STRING,
     names : Seq(Names), rows : Seq(Names),
     documents : Seq([id : STRING, metadata : SUBSET STRING])]

(* Tools return what is theirs, and those of a device tell of the station  *)
(* they were asked about. An answer has room for the two lines of an       *)
(* inventory that lists nothing.                                           *)
ToolsAreSound ==
    /\ MaxIdentifiers \in Nat /\ MaxDocuments \in Nat
    /\ Heading \in Nat /\ Partial \in Nat /\ MaxAnswer \in Nat
    /\ Heading + Partial + 2 <= MaxAnswer
    /\ Width \in [Names -> Nat]
    /\ None \notin Observations /\ None \notin Tools
    /\ {Ticket, Calibration, "list_stations", "list_products"} \subseteq Tools
    /\ \A r \in Requests : r.names \in Seq(Names)
    /\ \A read \in Reads :
          /\ read.tool \in Tools \ {Ticket, Calibration}
          /\ read.arguments \in Seq(Names)
          /\ read.observation \in Observations
          /\ read.observation.from = read.tool
          /\ read.tool \in {ReferenceStatus, Preparation} =>
                 read.arguments = <<read.observation.about>>
    /\ \A o \in Executions : o \in Observations /\ o.from = Calibration

VARIABLES
    run,        \* what was asked, and how the run finishes its answers
    executed,   \* executed_tool_calls
    messages,   \* the tool messages of the conversation
    pending,    \* pending_action
    stage,      \* where the run is
    output,     \* the model's final output so far
    result      \* the AgentRunResult

answerVars == <<run, executed, messages, pending, stage, output, result>>

InitAnswer ==
    /\ run \in Requests
    /\ executed = << >>
    /\ messages = << >>
    /\ pending = None
    /\ stage = "model"
    /\ output = None
    /\ result = None
-----------------------------------------------------------------------------
(* Observations and references.                                            *)

(* The tool message keeps, of the metadata of a document, what the model   *)
(* is shown.                                                               *)
ModelMetadata == {"document_title", "mime_type"}

Projected(document) ==
    [id |-> document.id, metadata |-> document.metadata \intersect ModelMetadata]

Serialized(observation) ==
    [observation EXCEPT !.documents =
        [k \in DOMAIN observation.documents |-> Projected(observation.documents[k])]]

(* A fault: by the name of the tool.                                       *)
ObservationOfTool(call, told) ==
    LET same == {i \in DOMAIN told : told[i].content.from = call.tool}
    IN  IF same = {} THEN None
        ELSE told[CHOOSE i \in same : \A j \in same : j <= i].content

(* By id, and of several messages with one id the last.                    *)
ObservationOf(call, told) ==
    LET same == {i \in DOMAIN told : told[i].id = call.id}
    IN  IF same = {} THEN None
        ELSE told[CHOOSE i \in same : \A j \in same : j <= i].content

(* The places of the first limit distinct entries in a sequence of         *)
(* sequences.                                                              *)
FirstPlaces(entries, limit) ==
    LET places == UNION {{i} \X DOMAIN entries[i] : i \in DOMAIN entries}
        At(p) == entries[p[1]][p[2]]
        Before(p, q) == p[1] < q[1] \/ (p[1] = q[1] /\ p[2] < q[2])
        new == {p \in places : \A q \in places : Before(q, p) => At(q) # At(p)}
    IN  {p \in new : Cardinality({q \in new : Before(q, p)}) < limit}

(* The fields in which the results of these tools have identifiers.        *)
Discovering ==
    {"list_stations", "list_products", "get_station_overview", "get_product_overview",
     "get_machine_status", "get_product_history", "get_maintenance_ticket"}

NamesIn(action, content) ==
    IF action \in Discovering /\ content.from = action THEN content.names ELSE << >>

(* The i-th call and the i-th tool message belong together.                *)
NamesOfCall(i) ==
    executed[i].arguments \o
        (IF i \in DOMAIN messages THEN NamesIn(executed[i].tool, messages[i].content) ELSE << >>)

(* A fault: what the tools returned comes before what was asked.           *)
MentionedLast == [i \in DOMAIN executed |-> NamesOfCall(i)] \o <<run.names>>

Mentioned == <<run.names>> \o [i \in DOMAIN executed |-> NamesOfCall(i)]

Identifiers == {Mentioned[p[1]][p[2]] : p \in FirstPlaces(Mentioned, MaxIdentifiers)}

(* The first of these fields that is there.                                *)
FirstOf(fields, metadata, otherwise) ==
    LET there == {k \in DOMAIN fields : fields[k] \in metadata}
    IN  IF there = {} THEN otherwise ELSE fields[CHOOSE k \in there : \A l \in there : k <= l]

Reference(document) ==
    [id |-> document.id,
     title |-> FirstOf(<<"document_title", "title", "document_name">>, document.metadata, "id"),
     format |-> FirstOf(<<"format", "mime_type">>, document.metadata, "document")]

ReferencesIn(content) == [k \in DOMAIN content.documents |-> Reference(content.documents[k])]

ReferencesOfCall(i) ==
    IF executed[i].tool = Search /\ i \in DOMAIN messages
    THEN ReferencesIn(messages[i].content) ELSE << >>

Documents ==
    LET found == [i \in DOMAIN executed |-> ReferencesOfCall(i)]
        ids   == [i \in DOMAIN found |-> [k \in DOMAIN found[i] |-> found[i][k].id]]
    IN  {found[p[1]][p[2]] : p \in FirstPlaces(ids, MaxDocuments)}
-----------------------------------------------------------------------------
(* Findings, from the facts of an observation.                             *)

Fallback == "completed"

MachineStatusFinding(o) ==
    IF "found" \notin o.facts THEN "not_found" ELSE IF "faulted" \in o.facts THEN "faulted" ELSE "runs"

DocumentationSearchFinding(o) ==
    IF o.documents = << >> THEN "no_matches"
    ELSE IF "document_title" \in o.documents[1].metadata THEN "titled" ELSE Fallback

ProductHistoryFinding(o) ==
    IF "found" \notin o.facts THEN "not_found"
    ELSE IF o.from = "get_product_overview" THEN Fallback
    ELSE IF "failed" \in o.facts THEN "failed" ELSE "counted"

PositionReferenceFinding(o) ==
    IF "valid" \in o.facts THEN "valid" ELSE IF "invalid" \in o.facts THEN "invalid" ELSE Fallback

PreparationFinding(o) ==
    IF "approval" \notin o.facts THEN Fallback ELSE IF "blocked" \in o.facts THEN "blocked" ELSE "prepared"

IsVerified(o) == {"executed", "passed", "succeeded"} \subseteq o.facts

(* A fault: what did not fail has succeeded.                               *)
SucceededUnlessFailed(o) ==
    IF "executed" \notin o.facts THEN "not_executed"
    ELSE IF "failed" \in o.facts THEN "unverified" ELSE "succeeded"

ExecutionFinding(o) ==
    IF IsVerified(o) THEN "succeeded"
    ELSE IF "executed" \notin o.facts THEN "not_executed"
    ELSE IF "failed" \in o.facts THEN "unverified" ELSE Fallback

(* An overview says of a station what its status does, of a product only   *)
(* whether it was found; what other tools return lacks the fields.         *)
HasFields(action, o) ==
    \/ o.from = action
    \/ <<action, o.from>> \in {<<"get_machine_status", "get_station_overview">>,
                              <<"get_product_history", "get_product_overview">>}

Finding(action, o) ==
    IF o = None THEN Fallback
    ELSE IF ~ HasFields(action, o) THEN Fallback
    ELSE CASE action = "get_machine_status"  -> MachineStatusFinding(o)
           [] action = Search                -> DocumentationSearchFinding(o)
           [] action = "get_product_history" -> ProductHistoryFinding(o)
           [] action = ReferenceStatus       -> PositionReferenceFinding(o)
           [] action = Preparation           -> PreparationFinding(o)
           [] action = Calibration           -> ExecutionFinding(o)
           [] OTHER                          -> Fallback

StepOf(call, o) ==
    [action |-> call.tool, finding |-> Finding(call.tool, o),
     about |-> IF Finding(call.tool, o) = Fallback THEN None ELSE o.about]

FindingOf(call, told) == StepOf(call, ObservationOf(call, told))

InvestigationSteps(trail, told) == [i \in DOMAIN trail |-> FindingOf(trail[i], told)]
-----------------------------------------------------------------------------
(* The inventory an explicit request gets instead of the model's answer.   *)

Lists == {"list_stations", "list_products"}

(* A station listed twice is shown once.                                   *)
FirstRows(rows) == {i \in DOMAIN rows : \A j \in DOMAIN rows : j < i => rows[j] # rows[i]}

LengthBefore(rows, i) ==
    Heading + 2 + SumFunction([j \in {k \in FirstRows(rows) : k < i} |-> Width[rows[j]] + 1])

(* A fault: room is kept for the line only.                                *)
FitsAlone(rows, i) == LengthBefore(rows, i) + Width[rows[i]] <= MaxAnswer

(* There is room for the line, and for saying that it was the last.        *)
Fits(rows, i) == LengthBefore(rows, i) + Width[rows[i]] + Partial + 2 <= MaxAnswer

Shown(rows) == {i \in FirstRows(rows) : \A j \in FirstRows(rows) : j <= i => Fits(rows, j)}

Inventory(rows) ==
    LET partial == Shown(rows) # FirstRows(rows)
    IN  [rows |-> {rows[i] : i \in Shown(rows)},
         partial |-> partial,
         length |-> Heading + 1
                    + SumFunction([i \in Shown(rows) |-> Width[rows[i]] + 1])
                    + (IF partial THEN Partial + 1 ELSE 0)]

ListCalls == {i \in DOMAIN executed : executed[i].tool = run.first}

IsInventory == run.first \in Lists /\ ListCalls # {}

(* Found by its id, so that it can be the observation of another call.     *)
ListContent ==
    LET last == CHOOSE i \in ListCalls : \A j \in ListCalls : j <= i
    IN  ObservationOf(executed[last], messages)
-----------------------------------------------------------------------------
(* Ends.                                                                   *)

(* The text is the model's, a safe sentence, an inventory or the system's. *)
Result(verdict, text, final, trail, told) ==
    [verdict |-> verdict, text |-> text, output |-> final,
     inventory |-> IF text = "inventory" THEN Inventory(ListContent.rows) ELSE None,
     steps |-> InvestigationSteps(trail, told),
     identifiers |-> Identifiers, documents |-> Documents]

Ends(how) == stage' = "ended" /\ result' = how /\ output' = None

(* A terminal text of the system's own, with the calls made by now, but    *)
(* with the references of the state before.                                *)
Concludes(verdict) == Ends(Result(verdict, "system", None, executed', messages'))

(* The run raises, or ends at a limit or without its evidence: nothing of  *)
(* its investigation is published. A result that its own contract refuses  *)
(* (AgentRunResult) raises too.                                            *)
PublishesNothing ==
    /\ stage # "ended"
    /\ stage' = "ended" /\ output' = None
    /\ UNCHANGED <<run, executed, messages, pending, result>>

Goes(to) == stage' = to /\ UNCHANGED <<output, result>>

(* A fault: a ticket is recorded, its tool message is not.                *)
RecordsReadsOnly(tool, id, arguments, observation) ==
    /\ executed' = Append(executed, [tool |-> tool, arguments |-> arguments, id |-> id])
    /\ messages' = IF tool = Ticket THEN messages
                   ELSE Append(messages, [id |-> id, content |-> Serialized(observation)])

Records(tool, id, arguments, observation) ==
    /\ executed' = Append(executed, [tool |-> tool, arguments |-> arguments, id |-> id])
    /\ messages' = Append(messages, [id |-> id, content |-> Serialized(observation)])

(* A uuid of the graph's own; no other call has the number.                *)
OwnId == Len(executed) + 1

HasBudget == Len(executed) < MaxToolCalls

(* The tool node; where a recovery is required, the reference decides.     *)
ReadsWith(id, read) ==
    /\ stage = "model" /\ HasBudget
    /\ Records(read.tool, id, read.arguments, read.observation)
    /\ Goes(IF ~ run.recovery \/ read.tool # ReferenceStatus THEN "model"
            ELSE IF "invalid" \in read.observation.facts THEN "prepare_recovery"
            ELSE IF "valid" \in read.observation.facts THEN "not_required"
            ELSE "model")
    /\ UNCHANGED <<run, pending>>

(* A request that names its reading itself has it read first.              *)
GraphReads ==
    /\ run.first # None /\ executed = << >>
    /\ \E read \in Reads : read.tool = run.first /\ ReadsWith(OwnId, read)

ModelReads ==
    /\ run.first = None \/ executed # << >>
    /\ \E id \in Ids, read \in Reads : ReadsWith(id, read)

(* The recovery branch: reserves both calls, prepares, goes to a human.    *)
PreparesRecovery ==
    /\ stage = "prepare_recovery" /\ Len(executed) + 2 <= MaxToolCalls
    /\ \E read \in Reads :
          /\ read.tool = Preparation
          /\ read.arguments = <<messages[Len(messages)].content.about>>
          /\ Records(Preparation, OwnId, read.arguments, read.observation)
          /\ IF {"approval", "matches"} \subseteq read.observation.facts
             THEN IF "blocked" \in read.observation.facts
                  THEN Concludes("RECOVERY_BLOCKED") /\ UNCHANGED pending
                  ELSE /\ Goes("pending")
                       /\ pending' = [tool |-> Calibration, id |-> OwnId + 1,
                                      arguments |-> read.arguments]
             ELSE Concludes("RECOVERY_INCOMPLETE") /\ UNCHANGED pending
    /\ UNCHANGED run

NeedsNoRecovery ==
    /\ stage = "not_required"
    /\ UNCHANGED <<run, executed, messages, pending>>
    /\ Concludes("NOT_REQUIRED")

(* A write the model proposes, under an id of its choice; a calibration of *)
(* what was prepared.                                                      *)
Proposes ==
    /\ stage = "model" /\ HasBudget /\ ~ run.recovery
    /\ run.first = None \/ executed # << >>
    /\ \E id \in Ids, tool \in {Ticket, Calibration}, read \in Reads :
          /\ read.tool = IF tool = Ticket THEN "get_machine_status" ELSE Preparation
          /\ tool = Calibration =>
                 \E i \in DOMAIN messages : /\ messages[i].content.from = Preparation
                                           /\ read.arguments = <<messages[i].content.about>>
          /\ pending' = [tool |-> tool, id |-> id, arguments |-> read.arguments]
    /\ Goes("pending")
    /\ UNCHANGED <<run, executed, messages>>

TicketWritten == [from |-> Ticket, about |-> None, facts |-> {}, names |-> << >>,
                  rows |-> << >>, documents |-> << >>]

ExecutesTicket ==
    /\ stage = "pending" /\ pending.tool = Ticket
    /\ Records(Ticket, pending.id, pending.arguments, TicketWritten)
    /\ Goes("model")
    /\ pending' = None
    /\ UNCHANGED run

ExecutesCalibration ==
    /\ stage = "pending" /\ pending.tool = Calibration
    /\ \E o \in Executions :
          /\ Records(Calibration, pending.id, pending.arguments, o)
          /\ Concludes(IF IsVerified(o) THEN "RECOVERED"
                       ELSE IF "blocked" \in o.facts THEN "RECOVERY_BLOCKED" ELSE "RECOVERY_FAILED")
    /\ pending' = None
    /\ UNCHANGED run

Cancels ==
    /\ stage = "pending"
    /\ pending' = None
    /\ UNCHANGED <<run, executed, messages>>
    /\ Concludes(IF pending.tool = Ticket THEN "CANCELLED" ELSE "RECOVERY_BLOCKED")
-----------------------------------------------------------------------------
(* The answer of the model.                                                *)

(* In the language asked for, without forbidden sections, with no steps,   *)
(* those of the trajectory, or others.                                     *)
Outputs == [fluent : BOOLEAN, clean : BOOLEAN, steps : {"none", "executed", "others"}]

(* A bounded information run takes nothing but the narrative.              *)
Narratives == {o \in Outputs : o.steps = "none"}

Drafts ==
    /\ stage = "model"
    /\ run.first = None \/ executed # << >>
    /\ ~ run.recovery
    /\ output' \in IF run.finalizer = "narrative" THEN Narratives ELSE Outputs
    /\ stage' = IF run.finalizer = "structured" THEN "normalize" ELSE "publish"
    /\ UNCHANGED <<run, executed, messages, pending, result>>

(* A recovery that was not executed has no answer of the model.            *)
AnswersUnrecovered ==
    /\ stage = "model" /\ run.recovery
    /\ UNCHANGED <<run, executed, messages, pending>>
    /\ Concludes("RECOVERY_INCOMPLETE")

(* Asked once to normalize its draft, and once more to correct the         *)
(* language; nothing valid keeps the output as it is.                      *)
Normalizes ==
    /\ stage = "normalize"
    /\ output' \in Outputs
    /\ stage' = IF output'.fluent THEN "publish" ELSE "correct"
    /\ UNCHANGED <<run, executed, messages, pending, result>>

Corrects ==
    /\ stage = "correct"
    /\ output' \in Outputs
    /\ stage' = "publish"
    /\ UNCHANGED <<run, executed, messages, pending, result>>

(* A narrative in a wrong language or with sections is replaced.           *)
Safe(o) == [o EXCEPT !.fluent = TRUE, !.clean = TRUE]

(* Steps of another trajectory and an inventory that is none raise.        *)
Publishes ==
    /\ stage = "publish"
    /\ output.steps # "others"
    /\ IsInventory => ListContent.from = run.first
    /\ LET final == Safe(output)
       IN  Ends(Result("ANSWERED",
                       IF IsInventory THEN "inventory" ELSE IF final = output THEN "model" ELSE "safe",
                       final, executed, messages))
    /\ UNCHANGED <<run, executed, messages, pending>>

NextAnswer ==
    \/ GraphReads
    \/ ModelReads
    \/ PreparesRecovery
    \/ NeedsNoRecovery
    \/ Proposes
    \/ ExecutesTicket
    \/ ExecutesCalibration
    \/ Cancels
    \/ Drafts
    \/ AnswersUnrecovered
    \/ Normalizes
    \/ Corrects
    \/ Publishes
    \/ PublishesNothing

SpecAnswer == InitAnswer /\ [][NextAnswer]_answerVars
-----------------------------------------------------------------------------
Members(s) == {s[i] : i \in DOMAIN s}

InRun(from) == {i \in DOMAIN messages : messages[i].content.from \in from}

NamesOfRun ==
    Members(run.names)
        \union (UNION {Members(executed[i].arguments) : i \in DOMAIN executed})
        \union (UNION {Members(messages[i].content.names) : i \in InRun(Discovering)})

DocumentsOfRun ==
    UNION {Members(ReferencesIn(messages[i].content)) : i \in InRun({Search})}

(* "A reference can only be published when it was present in the submitted *)
(* request, canonical tool arguments, or an observation returned by an     *)
(* already-authorized tool call" (_derive_structured_references), and as   *)
(* long as there is room, all of them are: although calls and observations *)
(* are matched by position, ids are reused, writes come between the reads  *)
(* and a terminal node publishes before its own call is recorded.          *)
ReferencesAreOfTheRun ==
    result # None =>
        /\ result.identifiers \subseteq NamesOfRun
        /\ Cardinality(NamesOfRun) <= MaxIdentifiers => result.identifiers = NamesOfRun
        /\ result.documents \subseteq DocumentsOfRun
        /\ Cardinality({d.id : d \in DocumentsOfRun}) <= MaxDocuments =>
               {d.id : d \in result.documents} = {d.id : d \in DocumentsOfRun}

(* However much the tools returned, the limit on identifiers never drops   *)
(* what the user asked about.                                              *)
RequestedIsNamed ==
    result # None /\ Len(run.names) <= MaxIdentifiers =>
        Members(run.names) \subseteq result.identifiers

(* "Correlate each completed tool observation to its exact invocation"     *)
(* (_tool_observations_by_call_id): each step says of its station or       *)
(* product what the observation of its own call says, however calls and    *)
(* writes follow each other and the run ends, unless a later call has      *)
(* taken its id.                                                           *)
FindingsAreOfTheirCalls ==
    result # None =>
        \A i \in DOMAIN result.steps :
            (\A j \in DOMAIN executed : executed[j].id = executed[i].id => j <= i)
                => result.steps[i] = StepOf(executed[i], messages[i].content)

(* What the docstring says without that exception. It fails: the model may *)
(* use an id again, and the step of the first call is then told what the   *)
(* second one observed.                                                    *)
StepsTellTheirOwnCall ==
    result # None =>
        \A i \in DOMAIN result.steps :
            result.steps[i] = StepOf(executed[i], messages[i].content)

(* The steps of a run tell of a successful calibration just when the run   *)
(* is told to have recovered: its verdict and its finding read the same    *)
(* observation in two places, one directly and one by its id.              *)
RecoveryIsToldAsItEnded ==
    result # None =>
        (result.verdict = "RECOVERED"
            <=> \E i \in DOMAIN result.steps : result.steps[i].finding = "succeeded")

(* Who asks for an inventory gets what the last list of the run returned,  *)
(* within the bound of an answer, and is told that it is partial just when *)
(* it is ("larger inventories are explicitly partial rather than silently  *)
(* represented as complete", _with_product_inventory).                     *)
InventoryIsTold ==
    result # None /\ result.verdict = "ANSWERED" /\ run.first \in Lists =>
        \E i \in InRun({run.first}) :
            /\ \A j \in InRun({run.first}) : j <= i
            /\ result.inventory.rows \subseteq Members(messages[i].content.rows)
            /\ result.inventory.partial <=> result.inventory.rows # Members(messages[i].content.rows)
            /\ result.inventory.length <= MaxAnswer
=============================================================================
