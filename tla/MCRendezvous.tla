---------------------------- MODULE MCRendezvous ----------------------------
(***************************************************************************)
(* The instances of Rendezvous for TLC: b has been up for long on a public *)
(* host, a starts where another program has its port, behind a NAT or on a *)
(* public host.                                                            *)
(***************************************************************************)
EXTENDS Rendezvous, TLC

CONSTANTS a, b, home, cloud

Homes == a :> home @@ b :> cloud
Others == home :> {Preferred} @@ cloud :> {}
=============================================================================
