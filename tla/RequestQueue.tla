--------------------------- MODULE RequestQueue ---------------------------
(***************************************************************************)
(* What a client promises about the PublishRequests it is handed: each is  *)
(* reported at most once, delivered or not, and in the order they were     *)
(* handed over. That each is reported in the end is no part of it. How a   *)
(* client gets a message through, and what else goes on meanwhile, is left *)
(* to PublishQueue and the modules of the MQTT libraries.                  *)
(***************************************************************************)
EXTENDS Integers, Sequences

VARIABLES waiting,   \* the requests not reported yet, by number
          reported   \* those reported to the node

rqVars == <<waiting, reported>>

RQTypeOK == waiting \in Seq(Nat) /\ reported \in Seq(Nat)

RQInit == waiting = <<>> /\ reported = <<>>

\* Requests are numbered as they come.
Take ==
    /\ waiting' = Append(waiting, Len(reported) + Len(waiting) + 1)
    /\ UNCHANGED reported

ReportFront ==
    /\ waiting # <<>>
    /\ waiting' = Tail(waiting)
    /\ reported' = Append(reported, Head(waiting))

RQSpec == RQInit /\ [][Take \/ ReportFront]_rqVars

\* Those reported are the first that were handed over, each once and in turn;
\* the others still wait, and none has left the queue without a report.
InOrder ==
    /\ \A i \in 1..Len(reported) : reported[i] = i
    /\ \A i \in 1..Len(waiting) : waiting[i] = Len(reported) + i

=============================================================================
