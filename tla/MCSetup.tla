------------------------------ MODULE MCSetup ------------------------------
(* Instances of Setup: a series of one patch that may grow to two, and back. *)
EXTENDS Setup

MCPatches == {"p1", "p2"}

MCLists == {<<"p1">>, <<"p1", "p2">>}

\* The series file may also be emptied or be gone.
MCAllLists == MCLists \cup {<<>>, NoSeries}

\* The second text of p2 applies nowhere.
MCBad == {"v1", "v2", "tip"} \X {"p2"} \X {2}

\* The series fits v1 and does not fit v2.
MCBadOnV2 == {"v2"} \X MCPatches \X (1..2)
=============================================================================
