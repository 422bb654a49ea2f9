---------------------------- MODULE ImageFetch -----------------------------
(***************************************************************************)
(* What fetching the OneCrypto image promises: one step that either hands  *)
(* over the whole resident image with its format, or reports an error and  *)
(* hands over nothing.                                                     *)
(***************************************************************************)
CONSTANTS Errors    \* the error statuses a fetch may report

VARIABLES
  resident,   \* the image in the MM firmware volumes: a set of at most one
  outcome,    \* "pending", "SUCCESS" or an error
  delivered   \* what the caller holds: {} or a set with one image

fetchVars == <<resident, outcome, delivered>>

Init ==
  /\ outcome = "pending"
  /\ delivered = {}

Deliver ==
  /\ outcome = "pending"
  /\ resident # {}
  /\ outcome' = "SUCCESS"
  /\ delivered' = resident
  /\ UNCHANGED resident

Refuse ==
  /\ outcome = "pending"
  /\ outcome' \in Errors
  /\ UNCHANGED <<resident, delivered>>

Next == Deliver \/ Refuse

Spec == Init /\ [][Next]_fetchVars
=============================================================================
