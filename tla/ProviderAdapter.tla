--------------------------- MODULE ProviderAdapter ---------------------------
(***************************************************************************)
(* The client of the model providers: which calls it admits, how a failed  *)
(* one is named, and how it is closed while calls are under way.  An       *)
(* adapter is a record; each operation is an operator on it, whole under   *)
(* the adapter's lock.                                                     *)
(*                                                                         *)
(* infrastructure/llm/openai_compatible.py,                                *)
(* infrastructure/llm/deadline_transport.py                                *)
(***************************************************************************)
EXTENDS Naturals

CONSTANTS ProviderModels,   \* the models an adapter can call
          MaxCalls          \* the most calls under way at once

Adapter == [state   : {"open", "closing", "closed"},
            active  : 0 .. MaxCalls,
            clients : SUBSET ProviderModels]

NewAdapter == [state |-> "open", active |-> 0, clients |-> {}]

(* _client_for_request: an open adapter takes the call, with the client it *)
(* has or a new one.  A client that cannot be made is not kept, nor is its *)
(* HTTP client.                                                            *)
Admits(adapter) == adapter.state = "open"

Admitted(adapter, model) ==
    [adapter EXCEPT !.clients = @ \union {model}, !.active = @ + 1]

(* The call is over, however it went.                                      *)
Finished(adapter) == [adapter EXCEPT !.active = @ - 1]

(* close: no new call is admitted, the calls under way are waited for, and *)
(* then the clients are closed, each once.  Whoever closes it a second     *)
(* time waits for the first.                                               *)
Closing(adapter) == IF adapter.state = "open" THEN [adapter EXCEPT !.state = "closing"]
                    ELSE adapter

IsDrained(adapter) == adapter.active = 0

Closed(adapter) == [adapter EXCEPT !.state = "closed", !.clients = {}]
-----------------------------------------------------------------------------
(* What the SDK raises, as the classification tells errors apart: the HTTP *)
(* status or the failure of the connection, and the code of its body.      *)
Signals == {"429", "400", "401", "500", "502", "503", "504", "connection", "timeout"}
Codes   == {"none", "quota", "rate", "other"}

(* _classify_provider_error: "raw" is an error that is raised as it came.  *)
ProviderErrors ==
    {"QUOTA_EXCEEDED", "RATE_LIMIT", "PROVIDER_UNAVAILABLE", "REQUEST_INVALID", "raw"}

ClassifyProviderError(signal, code) ==
    CASE code = "quota" -> "QUOTA_EXCEEDED"
      [] signal = "429" \/ code = "rate" -> "RATE_LIMIT"
      [] signal \in {"connection", "timeout", "502", "503", "504"} -> "PROVIDER_UNAVAILABLE"
      [] signal = "400" -> "REQUEST_INVALID"
      [] OTHER -> "raw"
=============================================================================
