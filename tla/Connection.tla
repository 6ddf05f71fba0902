------------------------------ MODULE Connection ------------------------------
(***************************************************************************)
(* What the peer of one connection may rely on, whatever the loop does for *)
(* the other connections and in whatever order: the abstract specification *)
(* that run_server and its handlers implement (LoopConnection maps one     *)
(* connection of EventLoop to it).                                         *)
(*                                                                         *)
(* A connection is open while the server listens to it, ending while it    *)
(* only has an error or a 408 left to send, and absent otherwise.          *)
(***************************************************************************)
EXTENDS Integers

CONSTANT Sizes  \* the lengths a reply can have, in parts: at least one

VARIABLES
  phase,   \* "absent", "open" or "ending"
  reply,   \* what is being sent: "none", "answer", "error" or "408"
  left,    \* parts of it the server has not written yet
  room,    \* parts the socket takes without waiting
  gone,    \* the peer has half-closed or reset the connection
  slow,    \* a request of the peer leads to a script that is out of time
  cuts,    \* a request of the peer is answered over a reply under way
  up       \* the server runs

vars == <<phase, reply, left, room, gone, slow, cuts, up>>

Init == phase = "absent" /\ up = TRUE

Accept ==
  /\ phase = "absent" /\ up'
  /\ phase' = "open" /\ reply' = "none" /\ ~gone'

(* The peer sends, reads or leaves; a peer that has left does not return.  *)
Peer ==
  /\ up' /\ (gone => gone')
  /\ UNCHANGED <<phase, left, reply>>

(* The server listens, or it did when it gave the connection up as idle: a *)
(* request that arrives just then opens it again.                          *)
Heard == phase = "open" \/ reply = "408"

(* A request is answered and as much is written as the socket takes.  The  *)
(* reply under way stays, and the request goes without its own, unless     *)
(* there is none or the request is one that cuts it.                       *)
Answer ==
  /\ Heard /\ up' /\ phase' = "open"
  /\ \/ /\ left = 0 \/ cuts
        /\ \E n \in Sizes : left' \in 0 .. n
        /\ reply' = IF left' = 0 THEN "none" ELSE "answer"
     \/ /\ left' <= left
        /\ reply' = IF left' = 0 THEN "none" ELSE reply
  /\ UNCHANGED gone

Send ==
  /\ phase # "absent" /\ up'
  /\ left' < left
  /\ phase = "ending" => left' > 0
  /\ reply' = IF left' = 0 THEN "none" ELSE reply
  /\ UNCHANGED <<phase, gone>>

(* A request fails, or the connection has been silent for too long: the    *)
(* error replaces what is left, and the server listens no more.            *)
Refuse ==
  /\ phase # "absent" /\ up'
  /\ phase' = "ending" /\ left' \in Sizes
  /\ reply' = "408" \/ (reply' = "error" /\ Heard)
  /\ UNCHANGED gone

(* The server closes when the reply under way has been written whole, or   *)
(* the one that has just cut it; when the peer has left; when a script is  *)
(* out of time; when it ends itself.                                       *)
Close ==
  /\ phase # "absent" /\ phase' = "absent"
  /\ \/ 0 < left /\ left <= room
     \/ 0 < left /\ cuts /\ Heard /\ \E n \in Sizes : n <= room
     \/ gone
     \/ Heard /\ slow
     \/ ~up'

Absent == phase = "absent" /\ phase' = "absent"

Next == Accept \/ Peer \/ Answer \/ Send \/ Refuse \/ Close \/ Absent

Spec == Init /\ [][Next]_vars

(* A connection that got an error is closed in the end.                    *)
RefusedCloses == phase = "ending" /\ reply = "error" ~> phase = "absent"
=============================================================================
