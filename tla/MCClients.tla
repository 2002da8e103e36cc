----------------------------- MODULE MCClients -----------------------------
(***************************************************************************)
(* TLC instances of Clients: the requests of a node and a device.          *)
(***************************************************************************)
EXTENDS Clients

CONSTANTS node, device
=============================================================================
