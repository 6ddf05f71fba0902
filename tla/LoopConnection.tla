---------------------------- MODULE LoopConnection ----------------------------
(***************************************************************************)
(* EventLoop implements Connection: the state of one connection, any one,  *)
(* mapped to what its peer may see of it.                                  *)
(***************************************************************************)
EXTENDS EventLoop

CONSTANT Watched  \* the descriptor whose connection is looked at

ASSUME WatchedAssumption == Watched \in Fds

Owner(fd) == CHOOSE s \in Servers : HasClient(s, fd)

BuffOf(fd) ==
  IF kern[fd].open THEN clients[Owner(fd)][fd].write_buff ELSE EmptyBuff

(* The server listens as long as it asks for EPOLLIN.                      *)
PhaseOf(fd) ==
  IF ~kern[fd].open THEN "absent"
  ELSE IF "IN" \in kern[fd].interest THEN "open" ELSE "ending"

(* What a write_buff holds: the sweep's 408 comes before the other errors, *)
(* since a request can still take its place.                               *)
ReplyIn(buff) ==
  IF buff.left = 0 THEN "none"
  ELSE IF buff.status = "408" THEN "408"
  ELSE IF buff.status \in {"200", "302"} THEN "answer" ELSE "error"

ReplyOf(fd) == ReplyIn(BuffOf(fd))

LeadsToSlowScript(fd) ==
  \E s \in Servers :
    /\ HasClient(s, fd)
    /\ \E i \in DOMAIN Unanswered(s, fd) :
         Unanswered(s, fd)[i].req.outcome = "504"

SendsCuttingRequest(fd) ==
  \E s \in Servers :
    /\ HasClient(s, fd)
    /\ \E i \in DOMAIN Unanswered(s, fd) : Replaces(Unanswered(s, fd)[i].req)

Conn == INSTANCE Connection WITH
  Sizes <- {1, BodyLen},
  phase <- PhaseOf(Watched),
  reply <- ReplyOf(Watched),
  left  <- BuffOf(Watched).left,
  room  <- SndMax - kern[Watched].snd,
  gone  <- kern[Watched].fin \/ kern[Watched].rst,
  slow  <- LeadsToSlowScript(Watched),
  cuts  <- SendsCuttingRequest(Watched),
  up    <- Running

(* A connection keeps what Connection promises its peer: it is answered    *)
(* until it is refused and never after, an error is the last thing it is   *)
(* sent, a reply under way gives way to an error and to the requests that  *)
(* cut it only, and it is closed with parts of a reply unwritten only if   *)
(* such a request has just been answered whole, the peer has left, a       *)
(* script was out of time or the process ends.                             *)
ConnectionKept == Conn!Spec

(* A refused connection is closed in the end, however often the sweep      *)
(* replaces what is left of its error.                                     *)
RefusedConnectionCloses == Conn!RefusedCloses
=============================================================================
