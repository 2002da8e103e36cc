--------------------------- MODULE ActiveClient ---------------------------
(***************************************************************************)
(* What a Node promises of its active client: it chooses only a client     *)
(* that offered itself, has one at a time, drops it when it hears that its *)
(* connection is gone, and hands publish requests to no other. In which    *)
(* mode, for which events and in which calls of execute() it does so is    *)
(* left to Node, as is what happens inside a client.                       *)
(***************************************************************************)
EXTENDS Integers

CONSTANTS Clients, NoClient

VARIABLES active,   \* the active client, or NoClient
          linked,   \* the clients with a connection, lost or not, that is not
                    \* yet reported lost
          offered,  \* those with an offer to be active that is not yet heard
          lost,     \* those with a lost connection that is not yet heard of
          load,     \* client -> how many requests it has
          stopped   \* has the node been stopped?

acVars == <<active, linked, offered, lost, load, stopped>>

ACInit ==
    /\ active = NoClient
    /\ linked = {} /\ offered = {} /\ lost = {}
    /\ load = [c \in Clients |-> 0]
    /\ stopped = FALSE

\* The clients: connections come and go, and a client offers itself on one.
Link(c) ==
    /\ c \notin linked /\ linked' = linked \cup {c}
    /\ UNCHANGED <<active, offered, lost, load, stopped>>

Unlink(c) ==
    /\ c \in linked /\ linked' = linked \ {c}
    /\ lost' = lost \cup {c}
    /\ load' = [load EXCEPT ![c] = 0]
    /\ UNCHANGED <<active, offered, stopped>>

Offer(c) ==
    /\ c \in linked /\ offered' = offered \cup {c}
    /\ UNCHANGED <<active, linked, lost, load, stopped>>

Report(c) ==
    /\ load[c] > 0 /\ load' = [load EXCEPT ![c] = @ - 1]
    /\ UNCHANGED <<active, linked, offered, lost, stopped>>

\* More requests for c.
Serve(c) == load'[c] > load[c] /\ load' = [load EXCEPT ![c] = load'[c]]

\* The node hears an offer, perhaps not the last one of c: it makes c its
\* active client, whatever it was, and hands it the births.
Choose(c) ==
    /\ ~stopped /\ c \in offered /\ offered' \in {offered, offered \ {c}}
    /\ active' = c /\ Serve(c)
    /\ UNCHANGED <<linked, lost, stopped>>

\* It hears that c has lost its connection. If that was the last it has to
\* hear of it, no older offer of c is left, unless c has a connection again.
Drop(c) ==
    /\ ~stopped /\ c \in lost /\ lost' \in {lost, lost \ {c}}
    /\ c \in offered => c \in linked \cup lost'
    /\ active' = IF active = c THEN NoClient ELSE active
    /\ UNCHANGED <<linked, offered, load, stopped>>

\* It has other reasons to do without an active client.
LetGo ==
    /\ ~stopped /\ active # NoClient /\ active' = NoClient
    /\ UNCHANGED <<linked, offered, lost, load, stopped>>

\* It publishes.
Publish ==
    /\ ~stopped /\ active # NoClient /\ Serve(active)
    /\ UNCHANGED <<active, linked, offered, lost, stopped>>

\* It disconnects its clients.
Stop ==
    /\ ~stopped /\ stopped' = TRUE
    /\ linked' \subseteq linked
    /\ UNCHANGED <<active, offered, lost, load>>

ACNext ==
    \/ \E c \in Clients : Link(c) \/ Unlink(c) \/ Offer(c) \/ Report(c)
    \/ \E c \in Clients : Choose(c) \/ Drop(c)
    \/ LetGo \/ Publish \/ Stop

ACSpec == ACInit /\ [][ACNext]_acVars

\* What this gives: until it is stopped, the node has no active client that is
\* gone, but for a loss that it has still to hear of.
NoneIsGone ==
    ~stopped => \A c \in Clients :
        active = c \/ c \in offered => c \in linked \cup lost

=============================================================================
