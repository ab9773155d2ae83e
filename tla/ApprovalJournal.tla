--------------------------- MODULE ApprovalJournal ---------------------------
(***************************************************************************)
(* The append-only record of one remediation: the event kinds a journal    *)
(* accepts and the fold which turns its lines into the status of an        *)
(* action (sentinel/actions/journal.py, sentinel/actions/models.py).       *)
(* The fold is given as the effect of one line on one status, so that a    *)
(* module which appends a line can carry the folded status along with it.  *)
(***************************************************************************)

(* EVENTS of journal.py: every other kind raises ValueError. *)
EventKinds == {"proposed", "posted", "approved", "denied", "expired",
               "execute_started", "execute_result", "near_miss"}

(* Status of models.py, plus "absent" for an id the fold has no entry for. *)
Statuses == {"absent", "proposed", "posted", "approved", "denied", "expired",
             "executing", "done", "failed"}

(* A decision is taken on an action that is Open and is still missing.     *)
Open     == {"proposed", "posted"}
Consumed == {"executing", "done", "failed"}
Terminal == {"denied", "expired", "done", "failed"}

(* The statuses from which a line of this kind has an effect. *)
From(kind) ==
  CASE kind = "proposed"        -> Statuses
    [] kind = "posted"          -> {"proposed"}
    [] kind = "approved"        -> Open
    [] kind = "denied"          -> Open
    [] kind = "expired"         -> Open \cup {"approved"}
    [] kind = "execute_started" -> {"approved"}
    [] kind = "execute_result"  -> {"executing"}
    [] kind = "near_miss"       -> {}

(* The status such a line leads to; ok is the field of execute_result. *)
To(kind, ok) ==
  CASE kind = "execute_started" -> "executing"
    [] kind = "execute_result"  -> IF ok THEN "done" ELSE "failed"
    [] OTHER                    -> kind

(* Slips for FoldStep: a denial that overrides an approval, and a late      *)
(* `posted` that reopens the action.                                        *)
FoldDenyAlways(status, kind, ok) ==
  IF status \in From(kind) \/ (kind = "denied" /\ status = "approved")
    THEN To(kind, ok) ELSE status
FoldPostedAlways(status, kind, ok) ==
  IF status \in From(kind) \/ kind = "posted" THEN To(kind, ok) ELSE status

(* One line folded into one status: out-of-order lines are ignored. *)
FoldStep(status, kind, ok) ==
  IF status \in From(kind) THEN To(kind, ok) ELSE status
=============================================================================
