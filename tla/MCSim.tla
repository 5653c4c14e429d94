------------------------------- MODULE MCSim -------------------------------
(* The scripts under sim/ in the groups that meet, over small pictures: one  *)
(* inside both limits, one outside in each.                                  *)
EXTENDS Sim

MCScreens == {[bg |-> 1, st |-> 1], [bg |-> 3, st |-> 1], [bg |-> 1, st |-> 3]}

MCBenches == {{"desk", "up"}, {"up", "log", "watch"}, {"watch", "shot"}, {"up", "send"}}

DeskBench == {{"desk", "up"}}

\* Claim (snapshot.py:10: the base is read-only, one returns to the same state
\* again and again): a restore that nothing disturbs is over the base its
\* overlay was created on.
RestoredCurrent == "snap" \in calm /\ snap.end = "restored" => overlay.of = base

\* Claim (the message of `create`): a snapshot that is reported is there.
SavedIsThere == snap.end = "saved" => overlay.there /\ overlay.tag = "drawn"
=============================================================================
