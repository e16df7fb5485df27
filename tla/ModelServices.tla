---------------------------- MODULE ModelServices ----------------------------
(***************************************************************************)
(* The models at work (ModelExecution), the matrix that tests what they    *)
(* can do (ProviderContract), and the dialog that assigns them             *)
(* (ModelSettings): three users of one catalog.                            *)
(***************************************************************************)
EXTENDS ModelExecution

CONSTANTS
    ContractModels,    \* the models under test
    Classification,    \* of a row of the dialog
    MaxChoices         \* a bound: changes made to it

VARIABLES
    contracts, step, answered, aborted,
    row, saves, chosen, late, assigned, writer

Contract == INSTANCE ProviderContract

Settings == INSTANCE ModelSettings WITH changes <- chosen

(* How a request ends, and what the row says of it.                        *)
StatusWords == {"saved", "refused", "lost", "Saved", "Saving", "NotSaved"}

(* What a row may send.                                                    *)
SaveRequests == [choice : Settings!Choices, generation : Nat, answer : {None, "saved", "lost"}]

ASSUME SettingsAssumption ==
    /\ Classification \in Classifications
    /\ None \notin StatusWords /\ None \notin SaveRequests
-----------------------------------------------------------------------------
(* A verdict on a model is what was seen of it.                            *)
VerdictsAreProven == Contract!VerdictsAreProven

(* While a row says Saved its last request is what is stored, unless one   *)
(* given up came after it, and it sends nothing that the API refuses.      *)
SavedIsStored == Settings!SavedIsStored
=============================================================================
