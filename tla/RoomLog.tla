------------------------------ MODULE RoomLog ------------------------------
(***************************************************************************)
(* What a chat room promises its clients, with no hub behind it: messages  *)
(* are posted to rooms under sequence numbers, and since its last /connect *)
(* each client has seen a strictly ascending selection of the numbers      *)
(* posted to the one room its token names.  A client may miss messages     *)
(* (delivery is best-effort); it never sees one twice, one out of order,   *)
(* or one of another room.                                                 *)
(***************************************************************************)
EXTENDS Integers, Sequences

CONSTANTS Rooms, Clients, RoomOf

VARIABLES
  posted,  \* the seqs ever posted to each room
  view     \* what each client saw since its last /connect, in order

Ascending(s) == \A i, j \in DOMAIN s : i < j => s[i] < s[j]

Init ==
  /\ posted = [rm \in Rooms |-> {}]
  /\ view = [c \in Clients |-> <<>>]

Post(rm) ==
  /\ \E s \in posted'[rm] : posted' = [posted EXCEPT ![rm] = @ \cup {s}]
  /\ UNCHANGED view

\* More of the room is shown to c: one event, or a whole backlog at once.
Show(c) ==
  /\ \A i \in DOMAIN view[c] : i \in DOMAIN view'[c] /\ view'[c][i] = view[c][i]
  /\ Ascending(view'[c])
  /\ \A i \in DOMAIN view'[c] : view'[c][i] \in posted[RoomOf[c]]
  /\ \A d \in Clients \ {c} : view'[d] = view[d]
  /\ UNCHANGED posted

Reconnect(c) ==
  /\ view' = [view EXCEPT ![c] = <<>>]
  /\ UNCHANGED posted

Next ==
  \/ \E rm \in Rooms : Post(rm)
  \/ \E c \in Clients : Show(c) \/ Reconnect(c)

Spec == Init /\ [][Next]_<<posted, view>>
=============================================================================
