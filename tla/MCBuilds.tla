----------------------------- MODULE MCBuilds -----------------------------
(***************************************************************************)
(* Instances of Builds: the two boards that build a root filesystem in the  *)
(* shared buildroot tree.                                                   *)
(***************************************************************************)
EXTENDS Builds

MCArch == [aes |-> "arm", atk |-> "arm64"]
=============================================================================
