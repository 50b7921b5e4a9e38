------------------------------ MODULE Identifiers ------------------------------
(***************************************************************************)
(* Every random identifier of the program is fresh (secrets.token_hex,     *)
(* secrets.token_urlsafe, the provider's document id), so the record, the  *)
(* access token and the provider document made by one POST call are all    *)
(* named after that call: `requests[c]` is the record POST call c          *)
(* inserted, and its provider_request_id is document c.                    *)
(***************************************************************************)
CONSTANTS
  Calls,   \* the POST /v1/signature-requests calls that may be made
  NoCall   \* Python's None where an id may be missing

ASSUME IdAssumption == NoCall \notin Calls

================================================================================
