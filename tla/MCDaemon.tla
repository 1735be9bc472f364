------------------------------ MODULE MCDaemon ------------------------------
(***************************************************************************)
(* Instances of Daemon for TLC: a few process ids, and inodes enough for   *)
(* every file, temporary file and write under way.                         *)
(***************************************************************************)
EXTENDS Daemon, Naturals, TLC

CONSTANTS p1, p2

TwoPids == {p1, p2}
Inodes == 1 .. 12
=============================================================================
