------------------------------- MODULE Mirror ------------------------------
(***************************************************************************)
(* What the UI promises about the fields it copies from the cells and the  *)
(* widgets: a pass brings every visible field exactly up to date, leaves   *)
(* the hidden ones alone, and nothing else touches what is shown.  No      *)
(* field is left stale by a change that fell into a time it was hidden;    *)
(* home.rs:101, diffing "keeps them fresh on tab switch".  View            *)
(* implements this.                                                        *)
(***************************************************************************)
VARIABLES source,     \* for each field, what it should say
          shown,      \* what it says
          visible,    \* the fields the next pass brings up to date
          due         \* input was handled, the pass is still to come

vars == <<source, shown, visible, due>>

Init == DOMAIN shown = DOMAIN source

Refresh ==
  /\ due /\ due' = FALSE
  /\ shown' = [f \in DOMAIN source |-> IF f \in visible THEN source[f] ELSE shown[f]]
  /\ UNCHANGED <<source, visible>>

Elsewhere ==
  /\ due => due'
  /\ DOMAIN source' = DOMAIN source
  /\ UNCHANGED shown

Spec == Init /\ [][Refresh \/ Elsewhere]_vars
===========================================================================
