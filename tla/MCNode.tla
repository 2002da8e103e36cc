------------------------------ MODULE MCNode ------------------------------
(***************************************************************************)
(* TLC instances of Node: one client and a node with a device, where the   *)
(* order of the births and of the resolutions matters; two clients and a   *)
(* node without devices, where the active client changes.                  *)
(***************************************************************************)
EXTENDS Node

CONSTANTS c1, c2, node, device

MCOneClient == <<c1>>
MCTwoClients == <<c1, c2>>
MCNodeOnly == <<node>>
MCNodeAndDevice == <<node, device>>
MCPrimaryHost == {"PRIMARY_HOST"}
MCBothModes == {"SINGLE", "PRIMARY_HOST"}
=============================================================================
