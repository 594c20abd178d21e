------------------------------ MODULE MCHubGC ------------------------------
(* The TLC instance of Hub in which GC deletes a room and a later call     *)
(* creates it again, with messages before and after.                       *)
EXTENDS MCHub

\* Clients that have called: what /connect, /poll or /events left of a call.
Callers == {c \in Clients : pc[c] # "idle" \/ op[c] # "join" \/ lastSeq[c] # 0}

Created == {o \in RoomObjs : owner[o] # NoRoom}

\* Bound: one client calls and two messages are sent; or two clients call, and
\* either the room is created twice or one message is sent.
FewCalls ==
  \/ Cardinality(Callers) <= 1
  \/ sends = 0
  \/ sends = 1 /\ Cardinality(Created) <= 1
=============================================================================
