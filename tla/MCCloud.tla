------------------------------ MODULE MCCloud ------------------------------
(***************************************************************************)
(* A small instance of Cloud, and with it of SshTunnel, for TLC.           *)
(***************************************************************************)
EXTENDS Cloud

CONSTANTS d1, d2, h1, h2

AddressOf == [d \in Droplets |-> IF d = d1 THEN h1 ELSE h2]
TwoForTheFirst == [h \in Hosts |-> IF h = h1 THEN {1, 2} ELSE {1}]
=============================================================================
