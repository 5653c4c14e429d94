------------------------------ MODULE MCMedia ------------------------------
(***************************************************************************)
(* Instances of Media.  A cell stands for the gap between two raw blobs, so *)
(* that a blob of two cells runs into its neighbour and boot.img into the   *)
(* root filesystem.                                                         *)
(***************************************************************************)
EXTENDS Media

MCAt == [idblock |-> 1, uboot |-> 2, boot |-> 3, rootfs |-> 4]
MCCapacity == [sys |-> 9, card |-> 6]
=============================================================================
