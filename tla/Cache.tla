------------------------------- MODULE Cache -------------------------------
(***************************************************************************)
(* What a stamped product promises: the stamp of a cached file stands over *)
(* a whole copy of it.  Whoever rewrites the copy takes the stamp away     *)
(* first and puts one back last, when the copy is whole again.  Only the   *)
(* removal of both may be cut and leave a stamp whose copy is lost; such a *)
(* stamp vouches for nothing until the next one is earned.                 *)
(***************************************************************************)
CONSTANTS Stamps, NoStamp

VARIABLES copy, stamp, lost

cacheVars == <<copy, stamp, lost>>

Copies == {"none", "part", "whole"}

Trusted == stamp # NoStamp /\ ~lost => copy = "whole"

Init ==
  /\ copy \in Copies
  /\ stamp \in Stamps \cup {NoStamp}
  /\ lost = FALSE
  /\ Trusted

Revoke == stamp' = NoStamp /\ lost' = FALSE /\ UNCHANGED copy

Rewrite ==
  /\ stamp = NoStamp \/ lost
  /\ copy' \in Copies
  /\ UNCHANGED <<stamp, lost>>

Vouch ==
  /\ copy = "whole"
  /\ stamp' \in Stamps
  /\ lost' \in {lost, FALSE}

\* A lost stamp is renewed by who takes it at its word.
Renew ==
  /\ lost
  /\ stamp' \in Stamps
  /\ UNCHANGED <<copy, lost>>

\* Both go, or either.
Discard ==
  /\ stamp' \in {stamp, NoStamp}
  /\ copy' \in {copy, "none"}
  /\ lost' = (stamp' # NoStamp /\ (lost \/ copy' = "none"))

Next == Revoke \/ Rewrite \/ Vouch \/ Renew \/ Discard

Spec == Init /\ [][Next]_cacheVars
=============================================================================
