---------------------------- MODULE SavedSettings ----------------------------
(***************************************************************************)
(* What `--persist` promises, without files and lines: the settings of the *)
(* next start are a record, and an edit that is saved replaces the record, *)
(* in one step, by that edit of a record the saver has read.  Nothing of   *)
(* an edit that is given up is seen.  Edits are not isolated: what another *)
(* saver stored since the read is lost.  A power loss falls back to a      *)
(* record that was saved before.                                           *)
(***************************************************************************)
EXTENDS Naturals

CONSTANTS Names, Paths, Colors, Runners, Edits,
          Unset, Blank, AutoColor, Fits, Top, DefaultColor

VARIABLES
  saved,   \* the settings a start would find
  kept,    \* those it would find after a power loss
  base     \* what each saver at work has read, and how it means to change it

vars == <<saved, kept, base>>

Images == Paths \cup {Blank, Unset}

Settings ==
  [image : Images, fit : Fits \cup {Unset}, color : Colors, auto : BOOLEAN,
   over : [Names -> [image : Images, fit : Fits \cup {Unset}]]]

\* Setting a key of all outputs leaves those of single outputs alone;
\* removing it removes theirs too.
EditedTop(s, key, value) ==
  IF key = "color"
  THEN [s EXCEPT !.auto = (value = AutoColor),
                 !.color = IF value = AutoColor THEN DefaultColor ELSE value]
  ELSE IF value # Unset THEN [s EXCEPT ![key] = value]
  ELSE [s EXCEPT ![key] = Unset, !.over = [n \in Names |-> [@[n] EXCEPT ![key] = Unset]]]

Edited(s, e) ==
  IF e.part = Top THEN EditedTop(s, e.key, e.value)
                  ELSE [s EXCEPT !.over[e.part][e.key] = e.value]

Init ==
  /\ saved \in Settings
  /\ kept = saved
  /\ base = {}

Begin ==
  /\ UNCHANGED <<saved, kept>>
  /\ \E b \in base' \ base :
       /\ b.who \in Runners \ {c.who : c \in base}
       /\ b.from = saved /\ b.edit \in Edits
       /\ base' = base \cup {b}

Save(b) ==
  /\ saved' = Edited(b.from, b.edit)
  /\ base' = base \ {b}
  /\ UNCHANGED kept

GiveUp(b) ==
  /\ base' = base \ {b}
  /\ UNCHANGED <<saved, kept>>

Keep ==
  /\ kept' = saved
  /\ UNCHANGED <<saved, base>>

Lose ==
  /\ saved' = kept
  /\ base' = {}
  /\ UNCHANGED kept

Next ==
  \/ Keep
  \/ Begin
  \/ \E b \in base : Save(b) \/ GiveUp(b)
  \/ Lose

Spec == Init /\ [][Next]_vars
=============================================================================
