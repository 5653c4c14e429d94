----------------------------- MODULE MCTarball -----------------------------
(* Instances of Tarball: two package lists and two accounts, the rk3588 board
   and another, and what the builder's comments claim beyond what it does. *)
EXTENDS Tarball, TLC

\* Package lists are only compared with one another, and so are accounts.
Symmetry == Permutations(PkgLists) \cup Permutations(Accounts)

\* "Content digest of everything that determines the cached rootfs tar"
\* (ubuntu_rootfs.py:57), and user/account.yaml takes a full rebuild
\* (user/README.md:14): a run that ends well over a tar of one undisturbed
\* build leaves one with today's account.
AccountCurrent ==
  phase = "idle" /\ outcome = "done" /\ calm /\ traced /\ ~orphan => tar.accounts = {account}

\* "Already built" (ubuntu_rootfs.py:90): whenever a run ends well, there is a
\* whole tar.
DoneIsWhole == phase = "idle" /\ outcome = "done" /\ calm => tar # NoTar /\ tar.copy = "whole"
=============================================================================
