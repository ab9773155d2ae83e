------------------------------ MODULE Remediation ------------------------------
(***************************************************************************)
(* From a diagnosis to the actions a human is asked to approve: the        *)
(* catalog, the brief's choice between it and notify-only, and which       *)
(* surface is given which action (sentinel/actions/catalog.py, brief.py,   *)
(* run.py). An action is its kind and its target; its parameters, its      *)
(* preview and its citations follow from them.                             *)
(***************************************************************************)
EXTENDS Sequences, SequencesExt

MutateKinds == {"restart", "scale", "remove_impairment", "revert_change"}
NotifyKinds == {"open_ticket", "page_oncall"}
NoAction    == [kind |-> "none", target |-> 0]

Table == [cpu           |-> <<"restart", "scale">>,
          mem           |-> <<"restart", "scale">>,
          memory        |-> <<"restart", "scale">>,
          disk          |-> <<"restart", "page_oncall">>,
          delay         |-> <<"remove_impairment", "restart">>,
          loss          |-> <<"remove_impairment", "restart">>,
          socket        |-> <<"restart", "remove_impairment">>,
          error         |-> <<"revert_change", "restart">>,
          flag_injected |-> <<"remove_impairment", "restart">>]

SignatureFallback == [resource |-> "cpu", latency |-> "delay", error |-> "error"]

NotifyOnly == <<"open_ticket", "page_oncall">>

Effect(kind) == IF kind \in MutateKinds THEN "mutate" ELSE "notify"

(* The rows for a diagnosis: of the fault's name or of its first word when   *)
(* the table has them (typeKey), else of the signature.                      *)
_key(typeKey, signature) ==
  CASE typeKey \in DOMAIN Table -> Table[typeKey]
    [] typeKey \notin DOMAIN Table /\ signature \in DOMAIN SignatureFallback ->
         Table[SignatureFallback[signature]]
    [] OTHER -> <<>>

(* Slip for suggest_actions: what the brief is unsure of is acted on. *)
suggest_regardless(target, typeKey, signature, confident) ==
  LET rows == _key(typeKey, signature)
  IN  [i \in DOMAIN rows |-> [kind |-> rows[i], target |-> target]]

(* Every row of the table is marked reversible, so that putting the          *)
(* reversible ones first leaves the order as it is.                          *)
suggest_actions(target, typeKey, signature, confident) ==
  LET found == IF confident THEN _key(typeKey, signature) ELSE <<>>
      rows  == IF found = <<>> THEN NotifyOnly ELSE found
  IN  [i \in DOMAIN rows |-> [kind |-> rows[i], target |-> target]]

(* The first that changes something. *)
elect_primary(actions) ==
  LET mutating == {i \in DOMAIN actions : Effect(actions[i].kind) = "mutate"}
  IN  IF mutating = {} THEN NoAction ELSE actions[Min(mutating)]

(* The actions journaled as proposed: the primary one and its alternatives. *)
Proposed(primary, actions) ==
  ({primary} \ {NoAction}) \cup (ToSet(actions) \ {primary})

(* The actions somebody may decide on, by surface. *)
PostedTo(surface, primary, actions) ==
  IF surface = "slack" THEN {primary} \ {NoAction} ELSE Proposed(primary, actions)
=============================================================================
