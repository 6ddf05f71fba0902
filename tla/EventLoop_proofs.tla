--------------------------- MODULE EventLoop_proofs ---------------------------
(***************************************************************************)
(* Proofs about EventLoop: type correctness and the safety invariants of   *)
(* a connection, for every number of servers, descriptors, buffer sizes    *)
(* and every set of requests and error pages.                              *)
(***************************************************************************)
EXTENDS EventLoop, SequenceTheorems, TLAPS

-----------------------------------------------------------------------------
(* The inductive invariant.                                                *)

(* What is true of one connection between two handlers: c its ClientData,  *)
(* k its socket, l its history bit, evs its events left in the batch.      *)
Resting(c, k, l, evs) ==
  /\ k.open
  /\ k.interest # {}
  /\ "OUT" \in k.interest <=> c.write_buff.left > 0
  /\ "IN" \notin k.interest => ~c.keep_alive
  /\ c.write_buff.left > 0 /\ c.write_buff.status \in Errors \ {"408"}
       => /\ k.interest = {"OUT"}
          /\ "IN" \notin evs
          /\ c.write_buff.close
          /\ ~c.keep_alive
  /\ c.write_buff.left > 0 /\ (k.snd < SndMax \/ k.rst)
       => k.armed \/ "OUT" \in evs
  /\ k.rst => k.armed \/ "HUP" \in evs
  /\ "IN" \in k.interest /\ k.rcv # <<>>
       => k.armed \/ "IN" \in evs \/ Len(c.read_buff) >= ReadMax
  /\ c.write_buff.left > 0 /\ ~l => (c.write_buff.close <=> ~c.keep_alive)
  /\ ~Complete(c.read_buff)

ConnectionsRest ==
  \A s \in Servers, fd \in Fds :
    HasClient(s, fd) => Resting(clients[s][fd], kern[fd], lost[fd], events[fd])

(* A descriptor without a client is closed and has no event.               *)
UnownedAreClosed ==
  \A fd \in Fds :
    (\A s \in Servers : ~HasClient(s, fd)) => kern[fd] = ClosedSocket /\ events[fd] = {}

SingleOwner ==
  \A fd \in Fds : \A s, t \in Servers : HasClient(s, fd) /\ HasClient(t, fd) => s = t

BatchOnlyInLoop ==
  pc \notin {"sweep", "handle"} => \A fd \in Fds : events[fd] = {}

(* accept() is called where a connection waits: only it shortens a queue.  *)
AcceptFindsWaiting == \A s \in accepting : backlog[s] > 0

IInv ==
  /\ TypeOK
  /\ ConnectionsRest
  /\ UnownedAreClosed
  /\ SingleOwner
  /\ BatchOnlyInLoop
  /\ AcceptFindsWaiting

-----------------------------------------------------------------------------
(* The stages.                                                             *)

(* A view of an open connection.                                           *)
LiveView ==
  [c : ClientData, k : Socket, lost : BOOLEAN, go : {"go", "return"} \cup Exits]

(* epoll_ctl sets the mask and queues the socket if the mask is satisfied. *)
LEMMA EpollCtlSetsMask ==
  ASSUME NEW k \in Socket, NEW mask \in SUBSET {"IN", "OUT"}
  PROVE  LET m == epoll_ctl(k, mask)
         IN  /\ m \in Socket
             /\ m.open = k.open /\ m.snd = k.snd /\ m.rst = k.rst /\ m.rcv = k.rcv
             /\ m.interest = mask
             /\ k.armed => m.armed
             /\ "OUT" \in mask /\ (k.snd < SndMax \/ k.rst) => m.armed
             /\ "IN" \in mask /\ k.rcv # <<>> => m.armed
             /\ k.rst => m.armed
<1> DEFINE m == [k EXCEPT !.interest = mask]
<1>1. m \in Socket /\ m.interest = mask /\ m.snd = k.snd /\ m.rst = k.rst
        /\ m.rcv = k.rcv /\ m.open = k.open /\ m.armed = k.armed
  BY DEF Socket
<1>2. epoll_ctl(k, mask) = [m EXCEPT !.armed = k.armed \/ Ready(m) # {}]
  BY DEF epoll_ctl
<1>3. "OUT" \in mask /\ (k.snd < SndMax \/ k.rst) => Ready(m) # {}
  BY <1>1 DEF Ready, Flags
<1>4. "IN" \in mask /\ k.rcv # <<>> => Ready(m) # {}
  BY <1>1 DEF Ready, Flags
<1>5. k.rst => Ready(m) # {}
  BY <1>1 DEF Ready, Flags
<1>6. (k.armed \/ Ready(m) # {}) \in BOOLEAN
  BY DEF Socket
<1> HIDE DEF m
<1>7. QED  BY <1>1, <1>2, <1>3, <1>4, <1>5, <1>6 DEF Socket

(* handle_read only moves data: what is left behind in the kernel is       *)
(* behind a full buffer.                                                   *)
LEMMA HandleReadMovesData ==
  ASSUME NEW v \in LiveView
  PROVE  LET g == handle_read(v)
         IN  /\ g \in LiveView
             /\ g.go = v.go /\ g.lost = v.lost
             /\ g.c.write_buff = v.c.write_buff /\ g.c.keep_alive = v.c.keep_alive
             /\ g.k.open = v.k.open /\ g.k.snd = v.k.snd /\ g.k.rst = v.k.rst
             /\ g.k.interest = v.k.interest /\ g.k.armed = v.k.armed
             /\ g.k.rcv # <<>> => Len(g.c.read_buff) >= ReadMax
<1> DEFINE n == Min2(Len(v.k.rcv), ReadMax)
           taken == SubSeq(v.k.rcv, 1, n)
           rest == SubSeq(v.k.rcv, n + 1, Len(v.k.rcv))
<1> USE BoundsAssumption
<1>1. v.c.read_buff \in Seq(Segment) /\ v.k.rcv \in Seq(Segment)
  BY DEF LiveView, ClientData, Socket
<1>2. n \in Nat /\ n <= Len(v.k.rcv) /\ (n = Len(v.k.rcv) \/ n = ReadMax)
  BY <1>1, LenProperties DEF Min2
<1> HIDE DEF n
<1>3. taken \in Seq(Segment) /\ Len(taken) = n
  <2>1. \A i \in 1 .. n : v.k.rcv[i] \in Segment
    BY <1>1, <1>2, ElementOfSeq
  <2>2. QED  BY <1>2, <2>1, SubSeqProperties
<1>4. rest \in Seq(Segment) /\ Len(rest) = Len(v.k.rcv) - n
  <2>1. \A i \in (n + 1) .. Len(v.k.rcv) : v.k.rcv[i] \in Segment
    BY <1>1, <1>2, ElementOfSeq
  <2>2. Len(v.k.rcv) \in Nat
    BY <1>1, LenProperties
  <2>3. QED  BY <1>2, <2>1, <2>2, SubSeqProperties
<1>5. v.c.read_buff \o taken \in Seq(Segment)
        /\ Len(v.c.read_buff \o taken) = Len(v.c.read_buff) + n
        /\ Len(v.c.read_buff) \in Nat
  BY <1>1, <1>3, ConcatProperties, LenProperties
<1>6. rest # <<>> => n = ReadMax
  BY <1>1, <1>2, <1>4, EmptySeq, LenProperties
<1>7. CASE v.k.rcv = <<>>
  <2> DEFINE k == [v.k EXCEPT !.err = "none"]
  <2>1. handle_read(v) = [v EXCEPT !.k = k]
    BY <1>7 DEF handle_read, LiveView
  <2>2. /\ k \in Socket
        /\ k.open = v.k.open /\ k.snd = v.k.snd /\ k.rst = v.k.rst
        /\ k.interest = v.k.interest /\ k.armed = v.k.armed /\ k.rcv = <<>>
    BY <1>7 DEF LiveView, Socket
  <2> HIDE DEF k
  <2>3. QED  BY <2>1, <2>2 DEF LiveView
<1>8. CASE v.k.rcv # <<>>
  <2> DEFINE c == [v.c EXCEPT !.read_buff = v.c.read_buff \o taken]
             k == [v.k EXCEPT !.rcv = rest]
  <2>1. handle_read(v) = [v EXCEPT !.c = c, !.k = k]
    BY <1>8 DEF handle_read, n, LiveView
  <2>2. /\ c \in ClientData
        /\ c.write_buff = v.c.write_buff /\ c.keep_alive = v.c.keep_alive
        /\ c.read_buff = v.c.read_buff \o taken
    BY <1>5 DEF LiveView, ClientData
  <2>3. /\ k \in Socket
        /\ k.open = v.k.open /\ k.snd = v.k.snd /\ k.rst = v.k.rst
        /\ k.interest = v.k.interest /\ k.armed = v.k.armed /\ k.rcv = rest
    BY <1>4 DEF LiveView, Socket
  <2>4. rest # <<>> => Len(c.read_buff) >= ReadMax
    BY <1>5, <1>6, <2>2, SMTT(30)
  <2> HIDE DEF c, k, taken, rest
  <2>5. QED  BY <2>1, <2>2, <2>3, <2>4 DEF LiveView
<1>9. QED  BY <1>7, <1>8

(* handle_write takes the reply as far as the socket does: what is left    *)
(* keeps its header and waits for a full send buffer or a reset.           *)
LEMMA HandleWriteTakesWhatFits ==
  ASSUME NEW v \in LiveView
  PROVE  LET w == handle_write(v)
         IN  /\ w \in LiveView
             /\ w.go \in {v.go, "killed"} /\ w.lost = v.lost
             /\ w.c.read_buff = v.c.read_buff /\ w.c.keep_alive = v.c.keep_alive
             /\ w.k.open = v.k.open /\ w.k.rst = v.k.rst /\ w.k.rcv = v.k.rcv
             /\ w.k.interest = v.k.interest /\ w.k.armed = v.k.armed
             /\ w.c.write_buff.left > 0 =>
                  /\ v.c.write_buff.left > 0
                  /\ w.c.write_buff.status = v.c.write_buff.status
                  /\ w.c.write_buff.close = v.c.write_buff.close
                  /\ w.k.rst \/ w.k.snd = SndMax
<1> DEFINE n == Min2(v.c.write_buff.left, SndMax - v.k.snd)
           b == v.c.write_buff
           rest == IF b.left = n THEN EmptyBuff ELSE [b EXCEPT !.left = b.left - n]
<1> USE BoundsAssumption
<1>1. b \in Reply /\ v.k.snd \in 0 .. SndMax
  BY DEF LiveView, ClientData, Socket
<1>2. n \in Nat /\ n <= b.left /\ v.k.snd + n \in 0 .. SndMax
        /\ (n = b.left \/ v.k.snd + n = SndMax)
  BY <1>1 DEF Min2, Reply
<1>3. rest \in Reply /\ (rest.left > 0 => /\ b.left > 0
                                          /\ rest.status = b.status
                                          /\ rest.close = b.close
                                          /\ v.k.snd + n = SndMax)
  BY <1>1, <1>2 DEF Reply, EmptyBuff
<1>4. CASE v.c.write_buff.left = 0
  BY <1>4 DEF handle_write, LiveView
<1>5. CASE v.c.write_buff.left # 0 /\ v.k.rst
  <2> DEFINE k == [v.k EXCEPT !.err = "none"]
  <2>1. handle_write(v) = [v EXCEPT !.k = k] \/ handle_write(v) = [v EXCEPT !.go = "killed"]
    BY <1>5 DEF handle_write, LiveView
  <2>2. /\ k \in Socket
        /\ k.open = v.k.open /\ k.rst = v.k.rst /\ k.rcv = v.k.rcv
        /\ k.interest = v.k.interest /\ k.armed = v.k.armed
    BY DEF LiveView, Socket
  <2> HIDE DEF k
  <2>3. QED  BY <1>5, <2>1, <2>2 DEF LiveView, Exits
<1>6. CASE v.c.write_buff.left # 0 /\ ~v.k.rst
  <2> DEFINE c == [v.c EXCEPT !.write_buff = rest]
             k == [v.k EXCEPT !.snd = v.k.snd + n]
  <2>1. handle_write(v) = [v EXCEPT !.c = c, !.k = k]
    BY <1>6 DEF handle_write, LiveView
  <2> HIDE DEF rest, n
  <2>2. /\ c \in ClientData
        /\ c.read_buff = v.c.read_buff /\ c.keep_alive = v.c.keep_alive
        /\ c.write_buff = rest
    BY <1>3 DEF LiveView, ClientData
  <2>3. /\ k \in Socket
        /\ k.open = v.k.open /\ k.rst = v.k.rst /\ k.rcv = v.k.rcv
        /\ k.interest = v.k.interest /\ k.armed = v.k.armed /\ k.snd = v.k.snd + n
    BY <1>2 DEF LiveView, Socket
  <2> HIDE DEF c, k
  <2>4. QED  BY <1>3, <2>1, <2>2, <2>3 DEF LiveView
<1>7. QED  BY <1>4, <1>5, <1>6

(* A view whose connection is closed.                                      *)
GoneView ==
  [c : {NoClient}, k : {ClosedSocket}, lost : {FALSE}, go : {"go", "return"}]

(* How a stage leaves the view: the process ends, the handler returns from *)
(* a connection at rest, or it goes on to the flags in rest.               *)
Outcome(v, rest) ==
  \/ v.go \in Exits
  \/ v.go = "return" /\ v \in GoneView
  \/ v.go = "return" /\ v \in LiveView /\ Resting(v.c, v.k, v.lost, {})
  \/ v.go = "go" /\ v \in LiveView /\ Resting(v.c, v.k, v.lost, rest)

(* close_client leaves no client and a closed descriptor.                   *)
LEMMA CloseClientGone ==
  ASSUME NEW v \in LiveView \cup GoneView, v.go \in {"go", "return"}
  PROVE  /\ close_client(v) \in GoneView /\ close_client(v).go = v.go
         /\ \A w : w = [close_client(v) EXCEPT !.go = "return"]
              => w \in GoneView /\ w.go = "return"
BY DEF close_client, GoneView, LiveView

(* An empty buffer holds no header.                                        *)
LEMMA EmptyIncomplete == ~Complete(<<>>)
BY DEF Complete

(* The error reply is typed, pending and announces the close.              *)
LEMMA ErrorReplyTyped ==
  ASSUME NEW s \in Servers, NEW c \in ClientData, NEW code \in Errors
  PROVE  LET e == sendErrorResponse(s, c, code)
         IN  /\ e \in ClientData
             /\ e.read_buff = <<>>
             /\ e.keep_alive = FALSE
             /\ e.write_buff.left > 0
             /\ e.write_buff.close = TRUE
<1> DEFINE paged == PageOf(s, code) = "readable"
           reply == [status |-> code, close |-> TRUE, page |-> paged,
                     left |-> IF paged THEN BodyLen ELSE 1]
<1>1. reply \in Reply /\ reply.left > 0 /\ reply.close = TRUE
  BY BoundsAssumption DEF Reply
<1>2. sendErrorResponse(s, c, code)
        = [c EXCEPT !.read_buff = <<>>, !.keep_alive = FALSE, !.write_buff = reply]
  BY DEF sendErrorResponse
<1>3. <<>> \in Seq(Segment)
  BY EmptySeq
<1> HIDE DEF reply
<1>4. QED  BY <1>1, <1>2, <1>3 DEF ClientData

(* The catch block ends the process, closes, or leaves a connection that   *)
(* waits to write its error and does not listen.                           *)
LEMMA FailRests ==
  ASSUME NEW s \in Servers, NEW v \in LiveView, v.k.open, v.go = "go",
         NEW code \in Errors, NEW rest
  PROVE  Outcome(Fail(s, v, code), rest)
<1> DEFINE e == sendErrorResponse(s, v.c, code)
           failed == [v EXCEPT !.c = e]
           k == epoll_ctl(v.k, {"OUT"})
           queued == [failed EXCEPT !.k = k, !.go = "return"]
<1>1. /\ e \in ClientData /\ e.read_buff = <<>> /\ e.keep_alive = FALSE
      /\ e.write_buff.left > 0 /\ e.write_buff.close = TRUE
  BY ErrorReplyTyped DEF LiveView
<1>2. /\ k \in Socket /\ k.open = v.k.open /\ k.interest = {"OUT"}
      /\ k.snd = v.k.snd /\ k.rst = v.k.rst
      /\ k.snd < SndMax \/ k.rst => k.armed
  BY EpollCtlSetsMask DEF LiveView
<1> HIDE DEF e, k
<1>3. failed \in LiveView /\ failed.go = "go" /\ failed.k = v.k /\ failed.c = e
  BY <1>1 DEF LiveView
<1>4. CASE PageOf(s, code) = "unreadable"
  BY <1>4 DEF Fail, Outcome, Exits, LiveView
<1>5. CASE PageOf(s, code) # "unreadable" /\ code = "504"
  <2> DEFINE last == handle_write(failed)
  <2>1. last \in LiveView /\ last.go \in {"go", "killed"}
    BY <1>3, HandleWriteTakesWhatFits
  <2>2. CASE last.go = "killed"
    BY <1>5, <2>2 DEF Fail, Outcome, Exits, e
  <2>3. CASE last.go # "killed"
    <3>1. Fail(s, v, code) = [close_client(last) EXCEPT !.go = "return"]
      BY <1>5, <2>3 DEF Fail, e
    <3> HIDE DEF last
    <3>2. Fail(s, v, code) \in GoneView /\ Fail(s, v, code).go = "return"
      BY <2>1, <2>3, <3>1, CloseClientGone
    <3>3. QED  BY <3>2 DEF Outcome
  <2>4. QED  BY <2>2, <2>3
<1>6. CASE PageOf(s, code) # "unreadable" /\ code # "504"
  <2>1. Fail(s, v, code) = queued
    BY <1>3, <1>6 DEF Fail, e, k
  <2>2. queued \in LiveView /\ queued.go = "return" /\ queued.c = e /\ queued.k = k
    BY <1>1, <1>2, <1>3 DEF LiveView
  <2>3. Resting(e, k, queued.lost, {})
    BY <1>1, <1>2, EmptyIncomplete DEF Resting
  <2>4. QED  BY <2>1, <2>2, <2>3 DEF Outcome
<1>7. QED  BY <1>4, <1>5, <1>6

(* What parsing and the method throw is an error status.                   *)
LEMMA ThrownAreErrors ==
  ASSUME NEW c, NEW r, NEW buf
  PROVE  /\ parsing_response(buf) \in Errors \cup {"none"}
         /\ Thrown(c, r) \in Errors \cup {"none"}
<1>1. parsing_response(buf) \in Errors \cup {"none"}
  BY DEF parsing_response, Errors, PageCodes
<1>2. Thrown(c, r) \in Errors \cup {"none"}
  BY DEF Thrown, Errors, PageCodes
<1>3. QED  BY <1>1, <1>2

(* After prepare_response something is pending: the new reply, announcing  *)
(* what keep_alive says, or the one that was in the way.                   *)
LEMMA PreparedReplyTyped ==
  ASSUME NEW c \in ClientData, NEW r, NEW buf
  PROVE  LET p == prepare_response(c, r, buf)
         IN  /\ p \in ClientData
             /\ p.read_buff = <<>>
             /\ p.write_buff.left > 0
             /\ ~Stores(c, r) => p.write_buff = c.write_buff
             /\ Stores(c, r) => /\ p.write_buff.close <=> ~p.keep_alive
                                /\ p.write_buff.status \in {"200", "302"}
<1> DEFINE keep == IF r.method = "GET" THEN WantsKeepAlive(buf) ELSE c.keep_alive
           reply == [status |-> IF Redirects(r) THEN "302" ELSE "200",
                     close  |-> ~keep,
                     page   |-> FALSE,
                     left   |-> IF Redirects(r) THEN 1 ELSE BodyLen]
           stored == IF Stores(c, r) THEN reply ELSE c.write_buff
<1>1. WantsKeepAlive(buf) \in BOOLEAN
  BY DEF WantsKeepAlive
<1>2. keep \in BOOLEAN
  BY <1>1 DEF ClientData
<1>3. reply \in Reply /\ reply.left > 0 /\ reply.close = ~keep
        /\ reply.status \in {"200", "302"}
  BY <1>2, BoundsAssumption DEF Reply
<1>4. stored \in Reply /\ stored.left > 0
  BY <1>3 DEF Stores, ClientData, Reply
<1>5. prepare_response(c, r, buf)
        = [c EXCEPT !.read_buff = <<>>, !.keep_alive = keep, !.write_buff = stored]
  BY DEF prepare_response
<1>6. <<>> \in Seq(Segment)
  BY EmptySeq
<1>7. (Stores(c, r) => stored = reply) /\ (~Stores(c, r) => stored = c.write_buff)
  OBVIOUS
<1> HIDE DEF keep, reply, stored
<1>8. QED  BY <1>2, <1>3, <1>4, <1>5, <1>6, <1>7 DEF ClientData

(* A complete request is answered or fails.  The loop was listening, so no *)
(* error reply was pending.                                                *)
LEMMA AnswerRests ==
  ASSUME NEW s \in Servers, NEW v \in LiveView, v.k.open, v.go = "go",
         NEW rest \in SUBSET Flags,
         v.c.write_buff.left > 0 => v.c.write_buff.status \notin Errors \ {"408"}
  PROVE  Outcome(Answer(s, v), rest)
<1> DEFINE buf == v.c.read_buff
           r == FirstRequest(buf)
           code == IF parsing_response(buf) # "none" THEN parsing_response(buf)
                                                     ELSE Thrown(v.c, r)
           p == prepare_response(v.c, r, buf)
           k == epoll_ctl(v.k, {"IN", "OUT"})
           l == v.lost \/ ~Stores(v.c, r)
<1> HIDE DEF r
<1>1. code \in Errors \cup {"none"}
  BY ThrownAreErrors
<1>2. CASE code # "none"
  <2>1. Answer(s, v) = Fail(s, v, code)
    BY <1>2 DEF Answer, r
  <2> HIDE DEF code
  <2>2. QED  BY <1>1, <1>2, <2>1, FailRests
<1>3. CASE code = "none" /\ PostsToScript(r) /\ r.outcome = "sigpipe" /\ BodySize(buf) > 0
  <2>1. Answer(s, v) = [v EXCEPT !.go = "killed"]
    BY <1>3 DEF Answer, r
  <2>2. QED  BY <2>1 DEF Outcome, Exits, LiveView
<1>4. CASE code = "none" /\ ~(PostsToScript(r) /\ r.outcome = "sigpipe" /\ BodySize(buf) > 0)
  <2>1. Answer(s, v) = [v EXCEPT !.c = p, !.k = k, !.lost = l]
    BY <1>4 DEF Answer, r
  <2>2. /\ p \in ClientData /\ p.read_buff = <<>> /\ p.write_buff.left > 0
        /\ ~Stores(v.c, r) => p.write_buff = v.c.write_buff
        /\ Stores(v.c, r) => /\ p.write_buff.close <=> ~p.keep_alive
                             /\ p.write_buff.status \in {"200", "302"}
    BY PreparedReplyTyped DEF LiveView
  <2>3. /\ k \in Socket /\ k.open /\ k.interest = {"IN", "OUT"}
        /\ k.snd < SndMax \/ k.rst => k.armed
        /\ k.rst => k.armed
        /\ k.rcv # <<>> => k.armed
    BY EpollCtlSetsMask DEF LiveView
  <2>4. l \in BOOLEAN /\ (~l => Stores(v.c, r))
    BY DEF LiveView
  <2> HIDE DEF p, k, l
  <2>5. ~Stores(v.c, r) => v.c.write_buff.left > 0
    BY <2>2
  <2>6. p.write_buff.status \notin Errors \ {"408"}
    BY <2>2, <2>5 DEF Errors, PageCodes
  <2>7. Resting(p, k, l, rest)
    BY <2>2, <2>3, <2>4, <2>6, EmptyIncomplete DEF Resting
  <2>8. QED  BY <2>1, <2>2, <2>3, <2>4, <2>7 DEF Outcome, LiveView
<1>5. QED  BY <1>2, <1>3, <1>4

(* EPOLLIN.                                                                *)
LEMMA OnReadableRests ==
  ASSUME NEW s \in Servers, NEW v \in LiveView, v.go = "go",
         NEW flags \in SUBSET Flags, "IN" \in flags,
         Resting(v.c, v.k, v.lost, flags)
  PROVE  Outcome(OnReadable(s, v, handle_read(v)), flags \ {"IN"})
<1> DEFINE g == handle_read(v)
<1>1. /\ g \in LiveView
      /\ g.go = v.go /\ g.lost = v.lost
      /\ g.c.write_buff = v.c.write_buff /\ g.c.keep_alive = v.c.keep_alive
      /\ g.k.open = v.k.open /\ g.k.snd = v.k.snd /\ g.k.rst = v.k.rst
      /\ g.k.interest = v.k.interest /\ g.k.armed = v.k.armed
      /\ g.k.rcv # <<>> => Len(g.c.read_buff) >= ReadMax
  BY HandleReadMovesData
<1> HIDE DEF g
<1>2. v.c.write_buff.left > 0 => v.c.write_buff.status \notin Errors \ {"408"}
  BY DEF Resting
<1>3. CASE AtEOF(v.k)
  <2>1. OnReadable(s, v, g) = [close_client(v) EXCEPT !.go = "return"]
    BY <1>3 DEF OnReadable
  <2>2. OnReadable(s, v, g) \in GoneView /\ OnReadable(s, v, g).go = "return"
    BY <2>1, CloseClientGone
  <2>3. QED  BY <2>2 DEF Outcome, g
<1>4. CASE ~AtEOF(v.k) /\ Complete(g.c.read_buff)
  <2>1. OnReadable(s, v, g) = Answer(s, g)
    BY <1>4 DEF OnReadable
  <2>2. g.k.open
    BY <1>1 DEF Resting
  <2>3. QED  BY <1>1, <1>2, <2>1, <2>2, AnswerRests DEF g
<1>5. CASE ~AtEOF(v.k) /\ ~Complete(g.c.read_buff)
  <2>1. OnReadable(s, v, g) = g
    BY <1>5 DEF OnReadable
  <2>2. Resting(g.c, g.k, g.lost, flags \ {"IN"})
    BY <1>1, <1>5 DEF Resting
  <2>3. QED  BY <1>1, <2>1, <2>2 DEF Outcome, g
<1>6. QED  BY <1>3, <1>4, <1>5 DEF g

(* EPOLLOUT on a connection whose reset, if any, is still to be reported.  *)
LEMMA OnWritableRests ==
  ASSUME NEW v \in LiveView, v.go = "go", NEW flags \in SUBSET Flags,
         "HUP" \notin flags, Resting(v.c, v.k, v.lost, flags)
  PROVE  LET o == OnWritable(handle_write(v))
         IN  \/ o.go \in Exits
             \/ /\ o.go = "go"
                /\ \/ o \in GoneView
                   \/ o \in LiveView /\ Resting(o.c, o.k, o.lost, flags \ {"OUT"})
<1> DEFINE w == handle_write(v)
           k == epoll_ctl(w.k, {"IN"})
<1>1. /\ w \in LiveView
      /\ w.go \in {v.go, "killed"} /\ w.lost = v.lost
      /\ w.c.read_buff = v.c.read_buff /\ w.c.keep_alive = v.c.keep_alive
      /\ w.k.open = v.k.open /\ w.k.rst = v.k.rst /\ w.k.rcv = v.k.rcv
      /\ w.k.interest = v.k.interest /\ w.k.armed = v.k.armed
      /\ w.c.write_buff.left > 0 =>
           /\ v.c.write_buff.left > 0
           /\ w.c.write_buff.status = v.c.write_buff.status
           /\ w.c.write_buff.close = v.c.write_buff.close
           /\ w.k.rst \/ w.k.snd = SndMax
  BY HandleWriteTakesWhatFits
<1>2. w.c \in ClientData /\ w.k \in Socket /\ w.c.write_buff.left \in Nat
        /\ w.k.snd \in 0 .. SndMax
  BY <1>1 DEF LiveView, ClientData, Reply, Socket
<1> HIDE DEF w
<1>3. CASE w.go = "killed"
  BY <1>3 DEF OnWritable, Exits, w
<1>4. CASE w.go # "killed" /\ w.c.write_buff.left > 0
  <2>1. Resting(w.c, w.k, w.lost, flags \ {"OUT"})
    BY <1>1, <1>2, <1>4, BoundsAssumption DEF Resting
  <2>2. OnWritable(w) = w
    BY <1>4 DEF OnWritable
  <2>3. QED  BY <1>1, <1>4, <2>1, <2>2 DEF w
<1>5. CASE w.go # "killed" /\ ~(w.c.write_buff.left > 0) /\ w.c.keep_alive
  <2>1. OnWritable(w) = [w EXCEPT !.k = k]
    BY <1>5 DEF OnWritable
  <2>2. /\ k \in Socket /\ k.open /\ k.interest = {"IN"}
        /\ k.rst => k.armed
        /\ k.rcv # <<>> => k.armed
    <3>1. w.k.open
      BY <1>1 DEF Resting
    <3>2. {"IN"} \in SUBSET {"IN", "OUT"}
      OBVIOUS
    <3>3. QED  BY <1>2, <3>1, <3>2, EpollCtlSetsMask
  <2>3. ~Complete(w.c.read_buff)
    BY <1>1 DEF Resting
  <2> HIDE DEF k
  <2>4. Resting(w.c, k, w.lost, flags \ {"OUT"})
    BY <1>5, <2>2, <2>3 DEF Resting
  <2>5. QED  BY <1>1, <1>5, <2>1, <2>2, <2>4 DEF LiveView, w
<1>6. CASE w.go # "killed" /\ ~(w.c.write_buff.left > 0) /\ ~w.c.keep_alive
  <2>1. close_client(w) \in GoneView /\ close_client(w).go = "go"
    BY <1>1, <1>6, CloseClientGone
  <2>2. QED  BY <1>6, <2>1 DEF OnWritable, w
<1>7. QED  BY <1>3, <1>4, <1>5, <1>6 DEF w

(* EPOLLOUT in general: it goes on, unless SIGPIPE ends the process.       *)
LEMMA OnWritableGoesOn ==
  ASSUME NEW v \in LiveView, v.go = "go"
  PROVE  LET o == OnWritable(handle_write(v))
         IN  o.go \in Exits \/ (o.go = "go" /\ o \in LiveView \cup GoneView)
<1> DEFINE w == handle_write(v)
           k == epoll_ctl(w.k, {"IN"})
<1>1. w \in LiveView /\ w.go \in {"go", "killed"}
  BY HandleWriteTakesWhatFits
<1> HIDE DEF w
<1>2. CASE OnWritable(w) = w
  BY <1>1, <1>2 DEF Exits, w
<1>3. CASE w.go # "killed" /\ OnWritable(w) = [w EXCEPT !.k = k]
  <2>1. k \in Socket
    <3>1. w.k \in Socket /\ {"IN"} \in SUBSET {"IN", "OUT"}
      BY <1>1 DEF LiveView
    <3>2. QED  BY <3>1, EpollCtlSetsMask
  <2> HIDE DEF k
  <2>2. QED  BY <1>1, <1>3, <2>1 DEF LiveView, w
<1>4. CASE w.go # "killed" /\ OnWritable(w) = close_client(w)
  <2>1. close_client(w) \in GoneView /\ close_client(w).go = "go"
    BY <1>1, <1>4, CloseClientGone
  <2>2. QED  BY <1>4, <2>1 DEF w
<1>5. QED  BY <1>2, <1>3, <1>4 DEF OnWritable

(* A handled event leaves its connection at rest, closed, or the process   *)
(* ended.                                                                  *)
LEMMA EventRests ==
  ASSUME NEW s \in Servers, NEW v \in LiveView, v.go = "go",
         NEW flags \in SUBSET Flags, Resting(v.c, v.k, v.lost, flags),
         NEW r, r = IF "IN" \in flags THEN OnReadable(s, v, handle_read(v)) ELSE v,
         NEW w, w = IF r.go = "go" /\ "OUT" \in flags
                    THEN OnWritable(handle_write(r)) ELSE r,
         NEW h, h = IF w.go = "go" /\ flags \cap {"ERR", "HUP"} # {}
                    THEN close_client(w) ELSE w
  PROVE  \/ h.go \in Exits
         \/ h \in GoneView
         \/ h \in LiveView /\ Resting(h.c, h.k, h.lost, {})
<1>1. Outcome(r, flags \ {"IN"})
  <2>1. CASE "IN" \in flags
    BY <2>1, OnReadableRests
  <2>2. CASE "IN" \notin flags
    <3>1. flags \ {"IN"} = flags
      BY <2>2
    <3>2. QED  BY <2>2, <3>1 DEF Outcome
  <2>3. QED  BY <2>1, <2>2
<1>2. CASE r.go # "go"
  BY <1>1, <1>2 DEF Outcome
<1>3. ASSUME r.go = "go"
      PROVE  r \in LiveView /\ Resting(r.c, r.k, r.lost, flags \ {"IN"})
  BY <1>1, <1>3 DEF Outcome, Exits
<1>4. CASE r.go = "go" /\ flags \cap {"ERR", "HUP"} # {}
  <2>1. w.go \in Exits \/ (w.go = "go" /\ w \in LiveView \cup GoneView)
    BY <1>3, <1>4, OnWritableGoesOn
  <2>2. CASE w.go \in Exits
    BY <2>2 DEF Exits
  <2>3. CASE w.go = "go" /\ w \in LiveView \cup GoneView
    BY <1>4, <2>3, CloseClientGone
  <2>4. QED  BY <2>1, <2>2, <2>3
<1>5. CASE r.go = "go" /\ flags \cap {"ERR", "HUP"} = {}
  <2>1. h = w
    BY <1>5
  <2>2. CASE "OUT" \in flags
    <3>1. "HUP" \notin flags \ {"IN"} /\ (flags \ {"IN"}) \in SUBSET Flags
      BY <1>5
    <3>2. (flags \ {"IN"}) \ {"OUT"} = {}
      BY <1>5 DEF Flags
    <3>3. w = OnWritable(handle_write(r))
      BY <1>5, <2>2
    <3>4. QED  BY <1>3, <1>5, <2>1, <3>1, <3>2, <3>3, OnWritableRests
  <2>3. CASE "OUT" \notin flags
    <3>1. flags \ {"IN"} = {}
      BY <1>5, <2>3 DEF Flags
    <3>2. QED  BY <1>3, <1>5, <2>1, <2>3, <3>1
  <2>4. QED  BY <2>2, <2>3
<1>6. QED  BY <1>2, <1>4, <1>5

-----------------------------------------------------------------------------
(* The actions.                                                            *)

(* A closed descriptor and an empty write_buff are of their types.          *)
LEMMA ClosedSocketTyped == ClosedSocket \in Socket /\ EmptyBuff \in Reply
<1>1. <<>> \in Seq(Segment)
  BY EmptySeq
<1>2. QED  BY <1>1, BoundsAssumption DEF ClosedSocket, Socket, EmptyBuff, Reply

(* The end of the process closes everything.                               *)
LEMMA ExitPreserves ==
  ASSUME IInv, NEW how \in Exits, Exit(how)
  PROVE  IInv'
<1>1. TypeOK'
  BY ClosedSocketTyped DEF IInv, TypeOK, Exit
<1>2. \A s \in Servers, fd \in Fds : ~HasClient(s, fd)'
  BY DEF Exit, HasClient
<1>3. QED  BY <1>1, <1>2 DEF IInv, Exit, ConnectionsRest, UnownedAreClosed,
                             SingleOwner, BatchOnlyInLoop,
                             AcceptFindsWaiting

(* A step of the environment on an open socket keeps the invariant if it   *)
(* keeps its connection at rest.                                           *)
LEMMA PeerStepPreserves ==
  ASSUME IInv, NEW fd \in Fds, NEW k \in Socket, kern[fd].open, PeerStep(fd, k),
         \A s \in Servers : HasClient(s, fd) =>
           Resting(clients[s][fd], k, lost[fd], events[fd])
  PROVE  IInv'
<1>1. TypeOK'
  BY DEF IInv, TypeOK, PeerStep
<1>2. \A s \in Servers, f \in Fds : HasClient(s, f)' <=> HasClient(s, f)
  BY DEF PeerStep, HasClient
<1>3. ConnectionsRest'
  BY <1>2 DEF IInv, TypeOK, ConnectionsRest, PeerStep
<1>4. kern[fd] # ClosedSocket
  BY DEF ClosedSocket
<1>5. UnownedAreClosed'
  BY <1>2, <1>4 DEF IInv, TypeOK, UnownedAreClosed, PeerStep
<1>6. SingleOwner' /\ BatchOnlyInLoop' /\ AcceptFindsWaiting'
  BY <1>2 DEF IInv, TypeOK, SingleOwner, BatchOnlyInLoop, AcceptFindsWaiting, PeerStep
<1>7. QED  BY <1>1, <1>3, <1>5, <1>6 DEF IInv

(* Segments that arrive queue the socket if the loop listens to it.         *)
LEMMA PeerSendPreserves ==
  ASSUME IInv, NEW fd \in Fds, NEW r \in Requests, NEW n \in 1 .. RcvMax,
         PeerSend(fd, r, n)
  PROVE  IInv'
<1> DEFINE k == kern[fd]
           out == IF k.peer = <<>> THEN Segments(r) ELSE k.peer
           arrived == SubSeq(out, 1, n)
           later == SubSeq(out, n + 1, Len(out))
           sent == [k EXCEPT !.rcv = k.rcv \o arrived, !.peer = later]
           woken == [sent EXCEPT !.armed = k.armed \/ "IN" \in k.interest]
<1>1. k \in Socket /\ k.open /\ n \in 1 .. Len(out)
  BY DEF IInv, TypeOK, PeerSend
<1>2. k.peer \in Seq(Segment) /\ k.rcv \in Seq(Segment)
  BY <1>1 DEF Socket
<1>3. Segments(r) \in Seq(Segment)
  <2>1. r.hlen \in Nat /\ r.blen \in Nat
    BY RequestsAssumption DEF RequestType
  <2>2. \A i \in 1 .. (r.hlen + r.blen) : [req |-> r, idx |-> i] \in Segment
    BY <2>1 DEF Segment
  <2>3. QED  BY <2>1, <2>2, IsASeq DEF Segments
<1>4. out \in Seq(Segment) /\ Len(out) \in Nat
  BY <1>2, <1>3, LenProperties
<1> HIDE DEF out
<1>5. \A i \in 1 .. Len(out) : out[i] \in Segment
  BY <1>4, ElementOfSeq
<1>6. arrived \in Seq(Segment) /\ later \in Seq(Segment)
  <2>1. n \in Nat /\ n >= 1 /\ n <= Len(out)
    BY <1>1, <1>4
  <2>2. arrived \in Seq(Segment)
    <3>1. \A i \in 1 .. n : out[i] \in Segment
      BY <1>4, <1>5, <2>1
    <3>2. QED  BY <2>1, <3>1, SubSeqProperties
  <2>3. later \in Seq(Segment)
    <3>1. \A i \in (n + 1) .. Len(out) : out[i] \in Segment
      BY <1>4, <1>5, <2>1
    <3>2. QED  BY <1>4, <2>1, <3>1, SubSeqProperties
  <2>4. QED  BY <2>2, <2>3
<1>7. k.rcv \o arrived \in Seq(Segment)
  BY <1>2, <1>6, ConcatProperties
<1> HIDE DEF arrived, later
<1>8. sent \in Socket /\ sent.armed = k.armed /\ sent.interest = k.interest
        /\ sent.open = k.open /\ sent.snd = k.snd /\ sent.rst = k.rst
  BY <1>1, <1>6, <1>7 DEF Socket
<1>9. PeerStep(fd, woken)
  BY <1>1, <1>8 DEF PeerSend, Wake, out, arrived, later
<1> HIDE DEF sent
<1>10. /\ woken \in Socket /\ woken.interest = k.interest /\ woken.open = k.open
       /\ woken.snd = k.snd /\ woken.rst = k.rst
       /\ k.armed => woken.armed
       /\ "IN" \in k.interest => woken.armed
  BY <1>1, <1>8 DEF Socket
<1> HIDE DEF woken
<1>11. \A s \in Servers : HasClient(s, fd) =>
         Resting(clients[s][fd], woken, lost[fd], events[fd])
  BY <1>10 DEF IInv, ConnectionsRest, Resting
<1>12. QED  BY <1>1, <1>9, <1>10, <1>11, PeerStepPreserves

(* A peer that reads makes a full send buffer writable again, and that      *)
(* queues the socket if something is to be written.                        *)
LEMMA PeerDrainPreserves ==
  ASSUME IInv, NEW fd \in Fds, PeerDrain(fd)
  PROVE  IInv'
<1> DEFINE k == kern[fd]
           d == [k EXCEPT !.snd = k.snd - 1]
           woken == [d EXCEPT !.armed = k.armed \/ "OUT" \in k.interest]
<1>1. k \in Socket /\ k.open /\ k.snd > 0
  BY DEF IInv, TypeOK, PeerDrain
<1>2. d \in Socket /\ d.armed = k.armed /\ d.interest = k.interest /\ d.rcv = k.rcv
        /\ d.open = k.open /\ d.snd = k.snd - 1 /\ d.rst = k.rst
  <2>1. k.snd - 1 \in 0 .. SndMax
    BY <1>1, BoundsAssumption DEF Socket
  <2>2. QED  BY <1>1, <2>1 DEF Socket
<1>3. \/ k.snd = SndMax /\ PeerStep(fd, woken)
      \/ k.snd < SndMax /\ PeerStep(fd, d)
  BY <1>1, <1>2, BoundsAssumption, SMTT(30) DEF PeerDrain, Wake, Socket
<1> HIDE DEF d
<1>4. /\ woken \in Socket /\ woken.interest = k.interest /\ woken.open = k.open
      /\ woken.rcv = k.rcv /\ woken.rst = k.rst
      /\ k.armed => woken.armed
      /\ "OUT" \in k.interest => woken.armed
  BY <1>1, <1>2 DEF Socket
<1> HIDE DEF woken
<1>5. \A s \in Servers : HasClient(s, fd) =>
        Resting(clients[s][fd], woken, lost[fd], events[fd])
  BY <1>4 DEF IInv, ConnectionsRest, Resting
<1>6. k.snd < SndMax => \A s \in Servers : HasClient(s, fd) =>
        Resting(clients[s][fd], d, lost[fd], events[fd])
  BY <1>2 DEF IInv, ConnectionsRest, Resting
<1>7. QED  BY <1>1, <1>2, <1>3, <1>4, <1>5, <1>6, PeerStepPreserves

(* A half-close changes nothing the loop waits to write.                    *)
LEMMA PeerFinPreserves ==
  ASSUME IInv, NEW fd \in Fds, PeerFin(fd)
  PROVE  IInv'
<1> DEFINE k == kern[fd]
           woken == [k EXCEPT !.fin = TRUE, !.armed = k.armed \/ "IN" \in k.interest]
<1>1. k \in Socket /\ k.open
  BY DEF IInv, TypeOK, PeerFin
<1>2. PeerStep(fd, woken)
  BY <1>1 DEF PeerFin, Wake, Socket
<1>3. /\ woken \in Socket /\ woken.interest = k.interest /\ woken.open = k.open
      /\ woken.rcv = k.rcv /\ woken.rst = k.rst /\ woken.snd = k.snd
      /\ k.armed => woken.armed
  BY <1>1 DEF Socket
<1> HIDE DEF woken
<1>4. \A s \in Servers : HasClient(s, fd) =>
        Resting(clients[s][fd], woken, lost[fd], events[fd])
  BY <1>3 DEF IInv, ConnectionsRest, Resting
<1>5. QED  BY <1>1, <1>2, <1>3, <1>4, PeerStepPreserves

(* A reset queues the socket whatever its mask.                             *)
LEMMA PeerResetPreserves ==
  ASSUME IInv, NEW fd \in Fds, PeerReset(fd)
  PROVE  IInv'
<1> DEFINE k == kern[fd]
           err == IF k.fin THEN "EPIPE" ELSE "ECONNRESET"
           reset == [k EXCEPT !.rst = TRUE, !.snd = 0, !.peer = <<>>, !.err = err,
                              !.armed = TRUE]
<1>1. k \in Socket /\ k.open
  BY DEF IInv, TypeOK, PeerReset
<1>2. PeerStep(fd, reset)
  BY <1>1 DEF PeerReset
<1>3. <<>> \in Seq(Segment)
  BY EmptySeq
<1>4. /\ reset \in Socket /\ reset.interest = k.interest /\ reset.open = k.open
      /\ reset.rcv = k.rcv /\ reset.armed
  <2>1. err \in {"none", "ECONNRESET", "EPIPE"} /\ 0 \in 0 .. SndMax
    BY BoundsAssumption
  <2> HIDE DEF err
  <2>2. QED  BY <1>1, <1>3, <2>1 DEF Socket
<1> HIDE DEF reset
<1>5. \A s \in Servers : HasClient(s, fd) =>
        Resting(clients[s][fd], reset, lost[fd], events[fd])
  BY <1>4 DEF IInv, ConnectionsRest, Resting
<1>6. QED  BY <1>1, <1>2, <1>4, <1>5, PeerStepPreserves

(* Reporting the ready events moves them from the ready list to the batch. *)
LEMMA EpollWaitPreserves ==
  ASSUME IInv, EpollWait
  PROVE  IInv'
<1> DEFINE ready == {fd \in Fds : kern[fd].armed /\ Ready(kern[fd]) # {}}
<1>1. PICK C \in SUBSET ready, L \in SUBSET {s \in Servers : backlog[s] > 0} :
        /\ accepting' = L
        /\ events' = [fd \in Fds |-> IF fd \in C THEN Ready(kern[fd]) ELSE {}]
        /\ kern' = [fd \in Fds |-> IF fd \in C
                                   THEN [kern[fd] EXCEPT !.armed = FALSE]
                                   ELSE kern[fd]]
  BY DEF EpollWait
<1>2. /\ pc = "wait" /\ pc' = "sweep"
      /\ UNCHANGED <<clients, backlog, stop, lost>>
  BY DEF EpollWait
<1>3. \A fd \in Fds : kern[fd] \in Socket /\ Ready(kern[fd]) \in SUBSET Flags
  BY DEF IInv, TypeOK, Ready
<1>4. TypeOK'
  <2>1. ASSUME NEW fd \in Fds
        PROVE  [kern[fd] EXCEPT !.armed = FALSE] \in Socket
    BY <1>3, ZenonT(30) DEF Socket
  <2>2. QED  BY <1>1, <1>2, <1>3, <2>1 DEF IInv, TypeOK
<1>5. \A s \in Servers, fd \in Fds : HasClient(s, fd)' <=> HasClient(s, fd)
  BY <1>2 DEF HasClient
<1>6. \A fd \in Fds : events[fd] = {}
  BY <1>2 DEF IInv, BatchOnlyInLoop
<1>7. ConnectionsRest'
  <2> SUFFICES ASSUME NEW s \in Servers, NEW fd \in Fds, HasClient(s, fd)
               PROVE  Resting(clients[s][fd], kern'[fd], lost[fd], events'[fd])
    BY <1>2, <1>5 DEF ConnectionsRest
  <2>1. Resting(clients[s][fd], kern[fd], lost[fd], {})
    BY <1>6 DEF IInv, ConnectionsRest
  <2>2. CASE fd \notin C
    BY <1>1, <2>1, <2>2
  <2>3. CASE fd \in C
    <3> DEFINE k == [kern[fd] EXCEPT !.armed = FALSE]
    <3>1. /\ k.open = kern[fd].open /\ k.interest = kern[fd].interest
          /\ k.snd = kern[fd].snd /\ k.rst = kern[fd].rst /\ k.rcv = kern[fd].rcv
      BY <1>3 DEF Socket
    <3>2. kern'[fd] = k /\ events'[fd] = Ready(kern[fd])
      BY <1>1, <2>3
    <3> HIDE DEF k
    <3>3. /\ "IN" \in kern[fd].interest /\ kern[fd].rcv # <<>> => "IN" \in Ready(kern[fd])
          /\ "IN" \in Ready(kern[fd]) => "IN" \in kern[fd].interest
          /\ "OUT" \in kern[fd].interest /\ (kern[fd].snd < SndMax \/ kern[fd].rst)
               => "OUT" \in Ready(kern[fd])
          /\ kern[fd].rst => "HUP" \in Ready(kern[fd])
      BY DEF Ready, Flags
    <3>4. Resting(clients[s][fd], k, lost[fd], Ready(kern[fd]))
      BY <2>1, <3>1, <3>3 DEF Resting
    <3>5. QED  BY <3>2, <3>4
  <2>4. QED  BY <2>2, <2>3
<1>8. UnownedAreClosed'
  <2>1. \A fd \in C : kern[fd] # ClosedSocket
    BY DEF ClosedSocket
  <2>2. QED  BY <1>1, <1>5, <2>1 DEF IInv, UnownedAreClosed
<1>9. SingleOwner' /\ BatchOnlyInLoop' /\ AcceptFindsWaiting'
  BY <1>1, <1>2, <1>5 DEF IInv, TypeOK, SingleOwner, BatchOnlyInLoop, AcceptFindsWaiting
<1>10. QED  BY <1>4, <1>7, <1>8, <1>9 DEF IInv

(* The sweep answers 408 for the idle and closes nobody.                   *)
LEMMA SweepPreserves ==
  ASSUME IInv, check_clients_timeout
  PROVE  IInv'
<1> DEFINE late == [status |-> "408", close |-> TRUE, page |-> FALSE, left |-> 1]
           swept(s, fd) == [clients[s][fd] EXCEPT !.keep_alive = FALSE,
                                                  !.write_buff = late]
           k(fd) == epoll_ctl(kern[fd], {"OUT"})
<1>1. /\ clients' = [s \in Servers |-> [fd \in Fds |->
                       IF Expired(s, fd) THEN swept(s, fd) ELSE clients[s][fd]]]
      /\ kern' = [fd \in Fds |-> IF \E s \in Servers : Expired(s, fd)
                                 THEN k(fd) ELSE kern[fd]]
      /\ pc' = "handle"
      /\ UNCHANGED <<backlog, accepting, events, stop, lost>>
  BY DEF check_clients_timeout
<1>2. \A s \in Servers, fd \in Fds : Expired(s, fd) =>
        /\ swept(s, fd) \in ClientData
        /\ swept(s, fd).read_buff = clients[s][fd].read_buff
        /\ swept(s, fd).keep_alive = FALSE
        /\ swept(s, fd).write_buff = late
  <2>1. late \in Reply
    BY DEF Reply, Errors, PageCodes
  <2>2. \A s \in Servers, fd \in Fds : Expired(s, fd) => clients[s][fd] \in ClientData
    BY DEF Expired, HasClient, IInv, TypeOK
  <2> HIDE DEF late
  <2>3. QED  BY <2>1, <2>2 DEF ClientData
<1>3. \A fd \in Fds :
        /\ k(fd) \in Socket /\ k(fd).open = kern[fd].open
        /\ k(fd).interest = {"OUT"}
        /\ k(fd).snd < SndMax \/ k(fd).rst => k(fd).armed
        /\ k(fd).rst => k(fd).armed
  <2> TAKE fd \in Fds
  <2>1. kern[fd] \in Socket /\ {"OUT"} \in SUBSET {"IN", "OUT"}
    BY DEF IInv, TypeOK
  <2>2. QED  BY <2>1, EpollCtlSetsMask
<1>4. late.left > 0 /\ late.status = "408" /\ late.close = TRUE
  OBVIOUS
<1> HIDE DEF late, swept, k
<1>5. TypeOK'
  BY <1>1, <1>2, <1>3 DEF IInv, TypeOK
<1>6. \A s \in Servers, fd \in Fds : HasClient(s, fd)' <=> HasClient(s, fd)
  BY <1>1, <1>2, NoClientAssumption DEF HasClient, Expired
<1>7. ConnectionsRest'
  <2> SUFFICES ASSUME NEW s \in Servers, NEW fd \in Fds, HasClient(s, fd)
               PROVE  Resting(clients'[s][fd], kern'[fd], lost[fd], events[fd])
    BY <1>1, <1>6 DEF ConnectionsRest
  <2>1. Resting(clients[s][fd], kern[fd], lost[fd], events[fd])
    BY DEF IInv, ConnectionsRest
  <2>2. CASE Expired(s, fd)
    <3>1. clients'[s][fd] = swept(s, fd) /\ kern'[fd] = k(fd)
      BY <1>1, <2>2
    <3>2. Resting(swept(s, fd), k(fd), lost[fd], events[fd])
      BY <1>2, <1>3, <1>4, <2>1, <2>2 DEF Resting
    <3>3. QED  BY <3>1, <3>2
  <2>3. CASE ~Expired(s, fd)
    <3>1. \A t \in Servers : ~Expired(t, fd)
      BY <2>3 DEF IInv, SingleOwner, Expired
    <3>2. clients'[s][fd] = clients[s][fd] /\ kern'[fd] = kern[fd]
      BY <1>1, <2>3, <3>1
    <3>3. QED  BY <2>1, <3>2
  <2>4. QED  BY <2>2, <2>3
<1>8. UnownedAreClosed'
  BY <1>1, <1>6 DEF IInv, UnownedAreClosed, Expired
<1>9. SingleOwner' /\ BatchOnlyInLoop' /\ AcceptFindsWaiting'
  BY <1>1, <1>6 DEF IInv, TypeOK, SingleOwner, BatchOnlyInLoop, AcceptFindsWaiting
<1>10. QED  BY <1>5, <1>7, <1>8, <1>9 DEF IInv

(* A new connection starts at rest on a descriptor nobody owned.           *)
LEMMA NewConnectionPreserves ==
  ASSUME IInv, NEW s \in Servers, handle_new_connection(s)
  PROVE  IInv'
<1> DEFINE fresh == [read_buff |-> <<>>, write_buff |-> EmptyBuff,
                     keep_alive |-> FALSE, idle |-> 0]
           opened == [ClosedSocket EXCEPT !.open = TRUE]
           k == epoll_ctl(opened, {"IN"})
<1>1. pc = "handle" /\ accepting' = accepting \ {s} /\ UNCHANGED <<events, pc, stop>>
  BY DEF handle_new_connection
<1>2. CASE /\ UNCHANGED <<clients, kern, lost>>
           /\ backlog' \in [Servers -> 0 .. MaxBacklog]
           /\ AcceptFindsWaiting'
  BY <1>1, <1>2 DEF IInv, TypeOK, ConnectionsRest, UnownedAreClosed, SingleOwner,
                    BatchOnlyInLoop, HasClient, AcceptFindsWaiting
<1>3. ASSUME NEW fd \in Fds, ~kern[fd].open,
             backlog' \in [Servers -> 0 .. MaxBacklog], AcceptFindsWaiting',
             kern' = [kern EXCEPT ![fd] = k],
             clients' = [clients EXCEPT ![s][fd] = fresh],
             lost' = [lost EXCEPT ![fd] = FALSE]
      PROVE  IInv'
  <2>1. fresh \in ClientData
    <3>1. <<>> \in Seq(Segment)
      BY EmptySeq
    <3>2. 0 \in 0 .. (timeout_seconds + 1)
      BY BoundsAssumption
    <3>3. QED  BY <3>1, <3>2, ClosedSocketTyped DEF ClientData
  <2>2. opened \in Socket /\ opened.open = TRUE /\ opened.rcv = <<>>
          /\ opened.rst = FALSE
    BY ClosedSocketTyped DEF Socket, ClosedSocket
  <2>3. /\ k \in Socket /\ k.open = TRUE /\ k.interest = {"IN"}
        /\ k.rcv = <<>> /\ k.rst = FALSE
    <3>1. {"IN"} \in SUBSET {"IN", "OUT"}
      OBVIOUS
    <3> HIDE DEF opened
    <3>2. QED  BY <2>2, <3>1, EpollCtlSetsMask
  <2>4. fresh.read_buff = <<>> /\ fresh.write_buff.left = 0 /\ fresh.keep_alive = FALSE
    BY DEF EmptyBuff
  <2> HIDE DEF fresh, k
  <2>5. fresh # NoClient
    BY <2>1, NoClientAssumption
  <2>6. \A t \in Servers : ~HasClient(t, fd)
    BY <1>3 DEF IInv, ConnectionsRest, Resting
  <2>7. events[fd] = {}
    BY <2>6 DEF IInv, UnownedAreClosed
  <2>8. \A t \in Servers, f \in Fds :
          HasClient(t, f)' <=> HasClient(t, f) \/ (t = s /\ f = fd)
    BY <1>3, <2>5 DEF IInv, TypeOK, HasClient
  <2>9. TypeOK'
    BY <1>1, <1>3, <2>1, <2>3 DEF IInv, TypeOK
  <2>10. Resting(fresh, k, FALSE, {})
    BY <2>3, <2>4, EmptyIncomplete DEF Resting
  <2>11. ConnectionsRest'
    <3> SUFFICES ASSUME NEW t \in Servers, NEW f \in Fds, HasClient(t, f)'
                 PROVE  Resting(clients'[t][f], kern'[f], lost'[f], events[f])
      BY <1>1 DEF ConnectionsRest
    <3>1. CASE f = fd
      <4>1. t = s
        BY <2>6, <2>8, <3>1
      <4>2. QED  BY <1>3, <2>7, <2>10, <3>1, <4>1 DEF IInv, TypeOK
    <3>2. CASE f # fd
      <4>1. HasClient(t, f)
        BY <2>8, <3>2
      <4>2. clients'[t][f] = clients[t][f] /\ kern'[f] = kern[f] /\ lost'[f] = lost[f]
        BY <1>3, <3>2 DEF IInv, TypeOK
      <4>3. QED  BY <4>1, <4>2 DEF IInv, ConnectionsRest
    <3>3. QED  BY <3>1, <3>2
  <2>12. UnownedAreClosed'
    BY <1>1, <1>3, <2>8 DEF IInv, TypeOK, UnownedAreClosed
  <2>13. SingleOwner' /\ BatchOnlyInLoop'
    BY <1>1, <2>6, <2>8 DEF IInv, SingleOwner, BatchOnlyInLoop
  <2>14. QED  BY <1>3, <2>9, <2>11, <2>12, <2>13 DEF IInv
<1>4. QED
  <2> DEFINE shorter == [backlog EXCEPT ![s] = backlog[s] - 1]
  <2>1. shorter \in [Servers -> 0 .. MaxBacklog]
    <3>1. s \in accepting
      BY DEF handle_new_connection
    <3>2. backlog[s] - 1 \in 0 .. MaxBacklog
      BY <3>1, BoundsAssumption DEF IInv, TypeOK, AcceptFindsWaiting
    <3>3. QED  BY <3>2 DEF IInv, TypeOK
  <2>2. backlog' \in {backlog, shorter}
    BY DEF handle_new_connection
  <2>3. backlog' \in [Servers -> 0 .. MaxBacklog]
    BY <2>1, <2>2 DEF IInv, TypeOK
  <2>4. AcceptFindsWaiting'
    BY <1>1, <2>2 DEF IInv, TypeOK, AcceptFindsWaiting
  <2> HIDE DEF fresh, k, shorter
  <2>5. CASE UNCHANGED <<clients, kern, lost>>
    BY <1>2, <2>3, <2>4, <2>5
  <2>6. CASE \E fd \in Fds :
               /\ ~kern[fd].open
               /\ kern' = [kern EXCEPT ![fd] = k]
               /\ clients' = [clients EXCEPT ![s][fd] = fresh]
               /\ lost' = [lost EXCEPT ![fd] = FALSE]
    BY <1>3, <2>3, <2>4, <2>6
  <2>7. QED  BY <2>5, <2>6 DEF handle_new_connection, fresh, k

(* An event changes the connection of its owner and no other, or is         *)
(* dropped when nobody owns its descriptor.                                *)
LEMMA ClientEventPreserves ==
  ASSUME IInv, NEW fd \in Fds, handle_client_event(fd)
  PROVE  IInv'
<1> DEFINE flags == events[fd]
           owners == {s \in Servers : HasClient(s, fd)}
<1>1. CASE owners = {}
  BY <1>1 DEF handle_client_event, IInv, UnownedAreClosed
<1>2. ASSUME owners # {}
      PROVE  IInv'
  <2>0. PICK s \in owners : \E r, w, h :
          /\ r = IF "IN" \in flags THEN OnReadable(s, View(s, fd), handle_read(View(s, fd)))
                                   ELSE View(s, fd)
          /\ w = IF r.go = "go" /\ "OUT" \in flags THEN OnWritable(handle_write(r)) ELSE r
          /\ h = IF w.go = "go" /\ flags \cap {"ERR", "HUP"} # {} THEN close_client(w) ELSE w
          /\ IF h.go \in Exits THEN Exit(h.go)
             ELSE /\ clients' = [clients EXCEPT ![s][fd] = h.c]
                  /\ kern' = [kern EXCEPT ![fd] = h.k]
                  /\ lost' = [lost EXCEPT ![fd] = h.lost]
                  /\ events' = [events EXCEPT ![fd] = {}]
                  /\ UNCHANGED <<backlog, accepting, pc, stop>>
    BY <1>2 DEF handle_client_event
  <2>1. PICK r, w, h :
          /\ r = IF "IN" \in flags THEN OnReadable(s, View(s, fd), handle_read(View(s, fd)))
                                   ELSE View(s, fd)
          /\ w = IF r.go = "go" /\ "OUT" \in flags THEN OnWritable(handle_write(r)) ELSE r
          /\ h = IF w.go = "go" /\ flags \cap {"ERR", "HUP"} # {} THEN close_client(w) ELSE w
          /\ IF h.go \in Exits THEN Exit(h.go)
             ELSE /\ clients' = [clients EXCEPT ![s][fd] = h.c]
                  /\ kern' = [kern EXCEPT ![fd] = h.k]
                  /\ lost' = [lost EXCEPT ![fd] = h.lost]
                  /\ events' = [events EXCEPT ![fd] = {}]
                  /\ UNCHANGED <<backlog, accepting, pc, stop>>
    BY <2>0
  <2>2. s \in Servers /\ HasClient(s, fd) /\ pc = "handle"
    BY DEF handle_client_event
  <2> DEFINE v == View(s, fd)
             c == [clients[s][fd] EXCEPT !.idle = 0]
  <2>3. /\ c \in ClientData
        /\ c.read_buff = clients[s][fd].read_buff
        /\ c.write_buff = clients[s][fd].write_buff
        /\ c.keep_alive = clients[s][fd].keep_alive
    <3>1. clients[s][fd] \in ClientData /\ 0 \in 0 .. (timeout_seconds + 1)
      BY <2>2, BoundsAssumption DEF IInv, TypeOK, HasClient
    <3>2. QED  BY <3>1 DEF ClientData
  <2>4. v \in LiveView /\ v.go = "go" /\ v.c = c /\ v.k = kern[fd] /\ v.lost = lost[fd]
    <3> HIDE DEF c
    <3>1. v = [c |-> c, k |-> kern[fd], lost |-> lost[fd], go |-> "go"]
      BY DEF View, c
    <3>2. kern[fd] \in Socket /\ lost[fd] \in BOOLEAN
      BY DEF IInv, TypeOK
    <3>3. QED  BY <2>3, <3>1, <3>2 DEF LiveView
  <2> HIDE DEF c, v
  <2>5. Resting(v.c, v.k, v.lost, flags) /\ flags \in SUBSET Flags
    <3>1. Resting(clients[s][fd], kern[fd], lost[fd], flags) /\ flags \in SUBSET Flags
      BY <2>2 DEF IInv, TypeOK, ConnectionsRest
    <3>2. QED  BY <2>3, <2>4, <3>1 DEF Resting
  <2>6. \/ h.go \in Exits
        \/ h \in GoneView
        \/ h \in LiveView /\ Resting(h.c, h.k, h.lost, {})
    <3> HIDE DEF flags
    <3>1. r = IF "IN" \in flags THEN OnReadable(s, v, handle_read(v)) ELSE v
      BY <2>1 DEF v
    <3>2. w = IF r.go = "go" /\ "OUT" \in flags THEN OnWritable(handle_write(r)) ELSE r
      BY <2>1
    <3>3. h = IF w.go = "go" /\ flags \cap {"ERR", "HUP"} # {} THEN close_client(w) ELSE w
      BY <2>1
    <3>4. QED  BY <2>2, <2>4, <2>5, <3>1, <3>2, <3>3, EventRests
  <2>7. CASE h.go \in Exits
    <3>1. Exit(h.go)
      BY <2>1, <2>7
    <3>2. QED  BY <2>7, <3>1, ExitPreserves
  <2>8. CASE h.go \notin Exits
    <3>1. /\ clients' = [clients EXCEPT ![s][fd] = h.c]
          /\ kern' = [kern EXCEPT ![fd] = h.k]
          /\ lost' = [lost EXCEPT ![fd] = h.lost]
          /\ events' = [events EXCEPT ![fd] = {}]
          /\ UNCHANGED <<backlog, accepting, pc, stop>>
      BY <2>1, <2>8
    <3>2. /\ h.c \in ClientData \cup {NoClient} /\ h.k \in Socket /\ h.lost \in BOOLEAN
          /\ h.c # NoClient => Resting(h.c, h.k, h.lost, {})
          /\ h.c = NoClient => h.k = ClosedSocket
      BY <2>6, <2>8, ClosedSocketTyped, NoClientAssumption DEF GoneView, LiveView
    <3>3. \A t \in Servers, f \in Fds :
            HasClient(t, f)' <=> IF t = s /\ f = fd THEN h.c # NoClient ELSE HasClient(t, f)
      BY <2>2, <3>1 DEF IInv, TypeOK, HasClient
    <3>4. \A t \in Servers : HasClient(t, fd) => t = s
      BY <2>2 DEF IInv, SingleOwner
    <3>5. TypeOK'
      BY <2>2, <3>1, <3>2 DEF IInv, TypeOK
    <3>6. ConnectionsRest'
      <4> SUFFICES ASSUME NEW t \in Servers, NEW f \in Fds, HasClient(t, f)'
                   PROVE  Resting(clients'[t][f], kern'[f], lost'[f], events'[f])
        BY DEF ConnectionsRest
      <4>1. CASE f = fd
        <5>1. t = s /\ h.c # NoClient
          BY <3>3, <3>4, <4>1
        <5>2. clients'[t][f] = h.c /\ kern'[f] = h.k /\ lost'[f] = h.lost /\ events'[f] = {}
          BY <3>1, <4>1, <5>1 DEF IInv, TypeOK
        <5>3. QED  BY <3>2, <5>1, <5>2
      <4>2. CASE f # fd
        <5>1. HasClient(t, f)
          BY <3>3, <4>2
        <5>2. /\ clients'[t][f] = clients[t][f] /\ kern'[f] = kern[f]
              /\ lost'[f] = lost[f] /\ events'[f] = events[f]
          BY <3>1, <4>2 DEF IInv, TypeOK
        <5>3. QED  BY <5>1, <5>2 DEF IInv, ConnectionsRest
      <4>3. QED  BY <4>1, <4>2
    <3>7. UnownedAreClosed'
      <4> SUFFICES ASSUME NEW f \in Fds, \A t \in Servers : ~HasClient(t, f)'
                   PROVE  kern'[f] = ClosedSocket /\ events'[f] = {}
        BY DEF UnownedAreClosed
      <4>1. CASE f = fd
        BY <2>2, <3>1, <3>2, <3>3, <4>1 DEF IInv, TypeOK
      <4>2. CASE f # fd
        <5>1. \A t \in Servers : ~HasClient(t, f)
          BY <3>3, <4>2
        <5>2. QED  BY <3>1, <4>2, <5>1 DEF IInv, TypeOK, UnownedAreClosed
      <4>3. QED  BY <4>1, <4>2
    <3>8. SingleOwner'
      BY <3>3 DEF IInv, SingleOwner
    <3>9. BatchOnlyInLoop' /\ AcceptFindsWaiting'
      BY <2>2, <3>1 DEF IInv, BatchOnlyInLoop, AcceptFindsWaiting
    <3>10. QED  BY <3>5, <3>6, <3>7, <3>8, <3>9 DEF IInv
  <2>9. QED  BY <2>7, <2>8
<1>3. QED  BY <1>1, <1>2

(* A second changes nothing but the idle times.                            *)
LEMMA TickPreserves ==
  ASSUME IInv, Tick
  PROVE  IInv'
<1> DEFINE aged(s, fd) ==
             [clients[s][fd] EXCEPT !.idle =
                Min2(clients[s][fd].idle + 1, timeout_seconds + 1)]
<1>1. /\ clients' = [s \in Servers |-> [fd \in Fds |->
                       IF HasClient(s, fd) THEN aged(s, fd) ELSE NoClient]]
      /\ UNCHANGED <<kern, backlog, accepting, events, pc, stop, lost>>
  BY DEF Tick
<1>2. \A s \in Servers, fd \in Fds : HasClient(s, fd) =>
        /\ aged(s, fd) \in ClientData
        /\ aged(s, fd).read_buff = clients[s][fd].read_buff
        /\ aged(s, fd).keep_alive = clients[s][fd].keep_alive
        /\ aged(s, fd).write_buff = clients[s][fd].write_buff
  <2> SUFFICES ASSUME NEW s \in Servers, NEW fd \in Fds, HasClient(s, fd)
               PROVE  /\ aged(s, fd) \in ClientData
                      /\ aged(s, fd).read_buff = clients[s][fd].read_buff
                      /\ aged(s, fd).keep_alive = clients[s][fd].keep_alive
                      /\ aged(s, fd).write_buff = clients[s][fd].write_buff
    OBVIOUS
  <2>1. clients[s][fd] \in ClientData
    BY DEF IInv, TypeOK, HasClient
  <2>2. Min2(clients[s][fd].idle + 1, timeout_seconds + 1) \in 0 .. (timeout_seconds + 1)
    BY <2>1, BoundsAssumption DEF ClientData, Min2
  <2>3. QED  BY <2>1, <2>2 DEF ClientData
<1> HIDE DEF aged
<1>3. \A s \in Servers, fd \in Fds : HasClient(s, fd)' <=> HasClient(s, fd)
  BY <1>1, <1>2, NoClientAssumption DEF HasClient
<1>4. TypeOK'
  BY <1>1, <1>2 DEF IInv, TypeOK
<1>5. ConnectionsRest'
  <2> SUFFICES ASSUME NEW s \in Servers, NEW fd \in Fds, HasClient(s, fd)
               PROVE  Resting(clients'[s][fd], kern[fd], lost[fd], events[fd])
    BY <1>1, <1>3 DEF ConnectionsRest
  <2>1. clients'[s][fd] = aged(s, fd)
    BY <1>1
  <2>2. QED  BY <1>2, <2>1 DEF IInv, ConnectionsRest, Resting
<1>6. UnownedAreClosed' /\ SingleOwner' /\ BatchOnlyInLoop' /\ AcceptFindsWaiting'
  BY <1>1, <1>3 DEF IInv, UnownedAreClosed, SingleOwner, BatchOnlyInLoop, AcceptFindsWaiting
<1>7. QED  BY <1>4, <1>5, <1>6 DEF IInv

(* The signal, a new connection in the queue and the end of a batch touch   *)
(* no connection, but for ending the process.                              *)
LEMMA OthersPreserve ==
  ASSUME IInv,
         \/ EndBatch \/ signal_handler \/ UNCHANGED vars
         \/ \E s \in Servers : PeerConnect(s)
  PROVE  IInv'
<1> USE DEF IInv, TypeOK, ConnectionsRest, UnownedAreClosed, SingleOwner,
            BatchOnlyInLoop, AcceptFindsWaiting, HasClient
<1>1. CASE EndBatch
  <2>1. CASE stop
    <3>1. Exit("stopped") /\ "stopped" \in Exits
      BY <1>1, <2>1 DEF EndBatch, Exits
    <3>2. QED  BY <3>1, ExitPreserves
  <2>2. CASE ~stop
    BY <1>1, <2>2 DEF EndBatch
  <2>3. QED  BY <2>1, <2>2
<1>2. CASE signal_handler
  BY <1>2 DEF signal_handler
<1>3. CASE UNCHANGED vars
  BY <1>3 DEF vars
<1>4. ASSUME NEW s \in Servers, PeerConnect(s)
      PROVE  IInv'
  <2>1. backlog' \in [Servers -> 0 .. MaxBacklog]
          /\ \A t \in accepting : backlog'[t] > 0
    BY <1>4, BoundsAssumption DEF PeerConnect
  <2>2. QED  BY <1>4, <2>1 DEF PeerConnect
<1>5. QED  BY <1>1, <1>2, <1>3, <1>4

(* IInv is an invariant of the specification.                              *)
THEOREM Invariance == Spec => []IInv
<1>1. Init => IInv
  <2> SUFFICES ASSUME Init PROVE IInv
    OBVIOUS
  <2>1. TypeOK
    <3>1. clients \in [Servers -> [Fds -> ClientData \cup {NoClient}]]
      BY DEF Init
    <3>2. kern \in [Fds -> Socket]
      BY ClosedSocketTyped DEF Init
    <3>3. backlog \in [Servers -> 0 .. MaxBacklog]
      BY BoundsAssumption DEF Init
    <3>4. events \in [Fds -> SUBSET Flags] /\ lost \in [Fds -> BOOLEAN]
      BY DEF Init
    <3>5. QED  BY <3>1, <3>2, <3>3, <3>4 DEF Init, TypeOK
  <2>2. QED  BY <2>1 DEF Init, IInv, ConnectionsRest, UnownedAreClosed, SingleOwner,
                        BatchOnlyInLoop, AcceptFindsWaiting, HasClient
<1>2. IInv /\ [Next]_vars => IInv'
  <2> SUFFICES ASSUME IInv, [Next]_vars PROVE IInv'
    OBVIOUS
  <2>1. CASE EpollWait
    BY <2>1, EpollWaitPreserves
  <2>2. CASE Interrupted
    <3>1. Exit("stopped") /\ "stopped" \in Exits
      BY <2>2 DEF Interrupted, Exits
    <3>2. QED  BY <3>1, ExitPreserves
  <2>3. CASE check_clients_timeout
    BY <2>3, SweepPreserves
  <2>4. CASE \E s \in Servers : handle_new_connection(s)
    BY <2>4, NewConnectionPreserves
  <2>5. CASE \E fd \in Fds : handle_client_event(fd)
    BY <2>5, ClientEventPreserves
  <2>6. CASE Tick
    BY <2>6, TickPreserves
  <2>7. CASE \E fd \in Fds, r \in Requests, n \in 1 .. RcvMax : PeerSend(fd, r, n)
    BY <2>7, PeerSendPreserves
  <2>8. CASE \E fd \in Fds : PeerDrain(fd) \/ PeerFin(fd) \/ PeerReset(fd)
    BY <2>8, PeerDrainPreserves, PeerFinPreserves, PeerResetPreserves
  <2>9. CASE \/ EndBatch \/ signal_handler \/ UNCHANGED vars
             \/ \E s \in Servers : PeerConnect(s)
    BY <2>9, OthersPreserve
  <2>10. QED
    BY <2>1, <2>2, <2>3, <2>4, <2>5, <2>6, <2>7, <2>8, <2>9
       DEF Next, LoopStep, Environment
<1>3. QED  BY <1>1, <1>2, PTL DEF Spec

-----------------------------------------------------------------------------
(* What follows.                                                           *)

(* Type correctness: write_buff never loses more than it holds.            *)
THEOREM TypeCorrect == Spec => []TypeOK
BY Invariance, PTL DEF IInv

(* No descriptor leaks, is used after close or has two owners.             *)
THEOREM DescriptorsOwned == Spec => []OneOwner
<1>1. IInv => OneOwner
  BY DEF IInv, OneOwner, SingleOwner, UnownedAreClosed, ConnectionsRest, Resting,
         ClosedSocket
<1>2. QED  BY <1>1, Invariance, PTL

(* No event of a batch outlives its connection.                            *)
THEOREM BatchNeverStale == Spec => []PendingEventsHaveClients
<1>1. IInv => PendingEventsHaveClients
  BY DEF IInv, PendingEventsHaveClients, UnownedAreClosed, ConnectionsRest, Resting
<1>2. QED  BY <1>1, Invariance, PTL

(* The mask asks for EPOLLOUT exactly while something is to be written.    *)
THEOREM InterestFollowsBuffer == Spec => []WriteInterestIffPending
<1>1. IInv => WriteInterestIffPending
  BY DEF IInv, WriteInterestIffPending, Pending, ConnectionsRest, Resting
<1>2. QED  BY <1>1, Invariance, PTL

(* The mask drops EPOLLIN only on the way to a close.                      *)
THEOREM DeafOnlyToClose == Spec => []ReadStopsOnlyToClose
<1>1. IInv => ReadStopsOnlyToClose
  <2> SUFFICES ASSUME IInv, NEW s \in Servers, NEW fd \in Fds, HasClient(s, fd),
                      "IN" \notin kern[fd].interest
               PROVE  ~clients[s][fd].keep_alive /\ Pending(s, fd)
    BY DEF ReadStopsOnlyToClose
  <2>1. Resting(clients[s][fd], kern[fd], lost[fd], events[fd])
    BY DEF IInv, ConnectionsRest
  <2>2. kern[fd].interest \in SUBSET {"IN", "OUT"}
    BY DEF IInv, TypeOK, Socket
  <2>3. "OUT" \in kern[fd].interest
    BY <2>1, <2>2 DEF Resting
  <2>4. QED  BY <2>1, <2>3 DEF Resting, Pending
<1>2. QED  BY <1>1, Invariance, PTL

(* Edge triggering loses no writable edge, ...                             *)
THEOREM WriteEdgesKept == Spec => []NoLostWriteWakeup
<1>1. IInv => NoLostWriteWakeup
  BY DEF IInv, NoLostWriteWakeup, Pending, ConnectionsRest, Resting
<1>2. QED  BY <1>1, Invariance, PTL

(* ... and a readable one only behind a full buffer.                       *)
THEOREM ReadEdgesKept == Spec => []ReadEdgeLostOnlyByFullBuffer
<1>1. IInv => ReadEdgeLostOnlyByFullBuffer
  BY DEF IInv, ReadEdgeLostOnlyByFullBuffer, ConnectionsRest, Resting
<1>2. QED  BY <1>1, Invariance, PTL

(* No parsed request is left in read_buff.                                 *)
THEOREM RequestsParsed == Spec => []NoUnparsedRequest
<1>1. IInv => NoUnparsedRequest
  BY DEF IInv, NoUnparsedRequest, ConnectionsRest, Resting
<1>2. QED  BY <1>1, Invariance, PTL

(* A pending reply announces what the loop will do with the connection.    *)
THEOREM RepliesTellTheTruth == Spec => []HeaderMatchesFate
<1>1. IInv => HeaderMatchesFate
  BY DEF IInv, HeaderMatchesFate, Pending, ConnectionsRest, Resting
<1>2. QED  BY <1>1, Invariance, PTL

(* A pending error is the last reply of its connection.                    *)
THEOREM ErrorsAreFinal == Spec => []ErrorIsFinal
<1>1. IInv => ErrorIsFinal
  BY DEF IInv, ErrorIsFinal, Pending, ConnectionsRest, Resting
<1>2. QED  BY <1>1, Invariance, PTL
=============================================================================
