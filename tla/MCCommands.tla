----------------------------- MODULE MCCommands -----------------------------
(***************************************************************************)
(* The TLC instance of Commands: a node and two devices, the first with a  *)
(* property and a nested property. Either the items are of any class, or   *)
(* they are Boolean and the devices have any names.                        *)
(***************************************************************************)
EXTENDS Commands, TLC

CONSTANTS node, d1, d2, c1, c2, none, rebirth, m1, m2, p1, n1, unknown

MCOwner == (rebirth :> node) @@ (m1 :> d1) @@ (m2 :> d2)
MCMetricOf == (p1 :> m1) @@ (n1 :> m1)
MCAdded == (rebirth :> 0) @@ (m1 :> 1) @@ (m2 :> 2)
MCMetricName == (rebirth :> "rebirth") @@ (m1 :> "m") @@ (m2 :> "m")
MCClients == <<c1>>
MCCommandMessages == {<<[name |-> "rebirth", value |-> 1]>>,
                <<[name |-> "m", value |-> 1], [name |-> "rebirth", value |-> 0]>>}

OfClasses == ~nodeNcmd /\ name = (d1 :> "a") @@ (d2 :> "NCMD")

OfNames == name = (d1 :> "a") @@ (d2 :> "a")

MCInit == Init /\ (OfClasses \/ (OfNames /\ class[m1] = BooleanMetric))

MCSpec == MCInit /\ [][Next]_vars
=============================================================================
