--------------------------- MODULE ModelSettings ----------------------------
(* One row of the model configuration dialog, frontend/js/                 *)
(* model-configuration.js, and the store behind it: an administrator       *)
(* changes the row as fast as she likes, and its changes are saved one     *)
(* after the other.  Nobody else assigns models meanwhile.                 *)
EXTENDS ModelSelection

CONSTANTS
    Keys,                   \* the models whose key is set
    Classification,         \* the row's
    MaxChoices              \* a bound: changes made to the row

VARIABLES
    row,                    \* what it shows, its draft, what it holds as confirmed and has queued
    saves,                  \* its requests, not yet returned
    changes,                \* changeGeneration
    late,                   \* requests it has given up that may still be served
    assigned,               \* the assignment in the store
    writer                  \* who wrote it last: the row, or a request that it had given up

settingsVars == <<row, saves, changes, late, assigned, writer>>

Manual(model) == [mode |-> "MANUAL", model |-> model, policy |-> None]
Auto(policy)  == [mode |-> "AUTO", model |-> None, policy |-> policy]
Choices == {Manual(m) : m \in Models} \union {Auto(p) : p \in Policies}

(* No assignment, or manual mode before a model is selected.               *)
Unselected == Manual(None)

(* isAllowed and runtime_available: what the row may send.                 *)
IsOffered(choice) ==
    choice.mode = "MANUAL" =>
        /\ ~ (Classification = RESTRICTED /\ Catalog[choice.model].zone # "LOCAL")
        /\ Classification <= Catalog[choice.model].max
        /\ IsStaticallyAvailable(choice.model, Keys)

InitSettings ==
    /\ assigned \in {Unselected} \union {c \in Choices : IsConfigurable(c, Classification)}
    /\ row = [shown |-> assigned, draft |-> assigned.model, confirmed |-> assigned,
              queued |-> None, status |-> None]
    /\ saves = {}
    /\ changes = 0
    /\ late = {}
    /\ writer = "row"

Change(choice) == [choice |-> choice, generation |-> changes + 1, answer |-> None]

(* A fault: the row does not wait for its last request.                    *)
SavesAtOnce(under_way) == TRUE

(* saveNext: at most one request of the row is under way.                  *)
MaySave(under_way) == under_way = {}

SaveNext(r, under_way) ==
    IF r.queued # None /\ MaySave(under_way)
    THEN /\ row' = [r EXCEPT !.queued = None, !.status = "Saving"]
         /\ saves' = under_way \union {r.queued}
    ELSE /\ row' = r
         /\ saves' = under_way

Restored(r) == [r EXCEPT !.shown = r.confirmed, !.draft = r.confirmed.model]

(* queueSave: what is not offered is taken back.                           *)
QueueSave(r) ==
    /\ UNCHANGED <<late, assigned, writer>>
    /\ IF ~ IsOffered(r.shown)
       THEN row' = Restored(r) /\ UNCHANGED <<saves, changes>>
       ELSE /\ changes < MaxChoices
            /\ SaveNext([r EXCEPT !.queued = Change(r.shown), !.status = "Saving"], saves)
            /\ changes' = changes + 1

(* The other options are disabled.                                         *)
ChoosesModel(model) ==
    /\ row.shown.mode = "MANUAL" /\ row.shown.model # model
    /\ IsOffered(Manual(model))
    /\ QueueSave([row EXCEPT !.shown = Manual(model), !.draft = model])

ChoosesPolicy(policy) ==
    /\ row.shown.mode = "AUTO" /\ row.shown.policy # policy
    /\ QueueSave([row EXCEPT !.shown = Auto(policy)])

(* To the policy confirmed last, or the first one.                         *)
SwitchesToAutomatic ==
    /\ row.shown.mode = "MANUAL"
    /\ QueueSave([row EXCEPT !.shown = Auto(IF row.confirmed.policy = "COST_FIRST" THEN "COST_FIRST"
                                            ELSE "QUALITY_FIRST")])

(* To the draft; without one the row asks for a model and saves nothing.   *)
SwitchesToManual ==
    /\ row.shown.mode = "AUTO"
    /\ IF row.draft = None
       THEN /\ row' = [row EXCEPT !.shown = Unselected]
            /\ UNCHANGED <<saves, changes, late, assigned, writer>>
       ELSE QueueSave([row EXCEPT !.shown = Manual(row.draft)])

(* PUT /model-assignments, in whatever order requests under way get there. *)
Serves(s) ==
    /\ s \in saves
    /\ s.answer = None
    /\ IF IsConfigurable(s.choice, Classification)
       THEN /\ saves' = (saves \ {s}) \union {[s EXCEPT !.answer = "saved"]}
            /\ assigned' = s.choice /\ writer' = "row"
       ELSE /\ saves' = (saves \ {s}) \union {[s EXCEPT !.answer = "refused"]}
            /\ UNCHANGED <<assigned, writer>>
    /\ UNCHANGED <<row, changes, late>>

(* The request or its answer is lost, or the request is only given up.     *)
Loses(s) ==
    /\ s \in saves
    /\ s.answer \in {None, "saved"}
    /\ saves' = (saves \ {s}) \union {[s EXCEPT !.answer = "lost"]}
    /\ late' = IF s.answer = None THEN late \union {s} ELSE late
    /\ UNCHANGED <<row, changes, assigned, writer>>

(* It reaches the server all the same, perhaps after a later one.          *)
ServesLate(s) ==
    /\ s \in late
    /\ late' = late \ {s}
    /\ IF IsConfigurable(s.choice, Classification)
       THEN assigned' = s.choice /\ writer' = "late"
       ELSE UNCHANGED <<assigned, writer>>
    /\ UNCHANGED <<row, saves, changes>>

(* What was saved is confirmed, and shown unless the row changed meanwhile.*)
Returns(s) ==
    /\ s \in saves
    /\ s.answer # None
    /\ LET isLast == s.generation = changes
           confirmed == [row EXCEPT !.confirmed = IF s.answer = "saved" THEN s.choice ELSE @]
           told == CASE isLast /\ s.answer = "saved" -> [Restored(confirmed) EXCEPT !.status = "Saved"]
                     [] isLast /\ s.answer # "saved" /\ row.queued = None ->
                            [Restored(confirmed) EXCEPT !.status = "NotSaved"]
                     [] OTHER -> confirmed
       IN SaveNext(told, saves \ {s})
    /\ UNCHANGED <<changes, late, assigned, writer>>

NextSettings ==
    \/ \E model \in Models : ChoosesModel(model)
    \/ \E policy \in Policies : ChoosesPolicy(policy)
    \/ SwitchesToAutomatic
    \/ SwitchesToManual
    \/ \E s \in saves : Serves(s) \/ Loses(s) \/ Returns(s)
    \/ \E s \in late : ServesLate(s)
-----------------------------------------------------------------------------
(* While the row says Saved, what it holds as confirmed is in the store,   *)
(* unless a request that it has given up was served after its last one;    *)
(* and it shows that, unless it asks for a model. Whether saves are lost,  *)
(* queued or answered late, no slower save that the row still waits for    *)
(* overwrites a later one. The row sends nothing that the API's own rules  *)
(* refuse: browser and server agree on the policy.                         *)
SavedIsStored ==
    /\ row.status = "Saved" =>
          /\ row.confirmed = assigned \/ writer = "late"
          /\ row.shown \in {row.confirmed, Unselected}
    /\ \A s \in saves : s.answer # "refused"
=============================================================================
