---------------------------- MODULE Handlers_proofs ----------------------------
(***************************************************************************)
(* Proofs about what one step of EventLoop may do to a connection: what    *)
(* ends the process, and which replies replace which.  The lemmas say of   *)
(* each stage of handle_client_event what it does to its connection.       *)
(***************************************************************************)
EXTENDS EventLoop_proofs, WellFoundedInduction

-----------------------------------------------------------------------------
(* The request a handler answers is one the connection holds.              *)

(* Some member of a non-empty set of naturals is the least.                *)
LEMMA LeastElement ==
  ASSUME NEW T \in SUBSET Nat, T # {}
  PROVE  \E x \in T : \A y \in T : x <= y
<1> DEFINE R == {ss \in Nat \X Nat : ss[1] < ss[2]}
<1>1. IsWellFoundedOn(R, Nat)
  BY NatLessThanWellFounded DEF OpToRel
<1>2. \A x, y \in Nat : <<y, x>> \in R <=> y < x
  OBVIOUS
<1> HIDE DEF R
<1>3. PICK x \in T : \A y \in T : ~ (<<y, x>> \in R)
  BY <1>1, WFMin
<1>4. \A y \in T : x <= y
  <2> TAKE y \in T
  <2>1. x \in Nat /\ y \in Nat
    OBVIOUS
  <2>2. ~ (y < x)
    BY <1>2, <1>3, <2>1
  <2>3. QED  BY <2>1, <2>2
<1>5. QED  BY <1>4

(* The first complete header of a buffer ends at one of its segments.      *)
LEMMA HeaderEndsInBuffer ==
  ASSUME NEW buf \in Seq(Segment), Complete(buf)
  PROVE  HeaderEnd(buf) \in DOMAIN buf
<1> DEFINE T == {i \in DOMAIN buf : buf[i].idx = buf[i].req.hlen}
<1>1. DOMAIN buf = 1 .. Len(buf) /\ Len(buf) \in Nat
  BY LenProperties
<1>2. T \in SUBSET Nat /\ T # {}
  BY <1>1 DEF Complete
<1>3. PICK x \in T : \A y \in T : x <= y
  <2> HIDE DEF T
  <2>1. QED  BY <1>2, LeastElement
<1>4. \E i \in DOMAIN buf :
        /\ buf[i].idx = buf[i].req.hlen
        /\ \A j \in DOMAIN buf : buf[j].idx = buf[j].req.hlen => i <= j
  BY <1>3
<1>5. QED  BY <1>4 DEF HeaderEnd

(* What the handler of a view may find to answer.                          *)
Waiting(v) == v.c.read_buff \o v.k.rcv

(* handle_read gives the handler nothing but what was waiting, in order.   *)
LEMMA ReadTakesWhatWaits ==
  ASSUME NEW v \in LiveView
  PROVE  LET g == handle_read(v)
         IN  \A i \in DOMAIN g.c.read_buff :
               i \in DOMAIN Waiting(v) /\ Waiting(v)[i] = g.c.read_buff[i]
<1> DEFINE n == Min2(Len(v.k.rcv), ReadMax)
           taken == SubSeq(v.k.rcv, 1, n)
           b == v.c.read_buff
           q == v.k.rcv
<1> USE BoundsAssumption
<1>1. b \in Seq(Segment) /\ q \in Seq(Segment) /\ Len(b) \in Nat /\ Len(q) \in Nat
  BY LenProperties DEF LiveView, ClientData, Socket
<1>2. n \in Nat /\ n <= Len(q)
  BY <1>1 DEF Min2
<1> HIDE DEF n
<1>3. taken \in Seq(Segment) /\ Len(taken) = n /\ \A i \in 1 .. n : taken[i] = q[i]
  <2>1. \A i \in 1 .. n : q[i] \in Segment
    BY <1>1, <1>2, ElementOfSeq
  <2>2. QED  BY <1>2, <2>1, SubSeqProperties
<1>4. /\ Len(b \o taken) = Len(b) + n /\ b \o taken \in Seq(Segment)
      /\ \A i \in 1 .. Len(b) + n : (b \o taken)[i] = IF i <= Len(b) THEN b[i] ELSE q[i - Len(b)]
  <2>1. /\ Len(b \o taken) = Len(b) + n /\ b \o taken \in Seq(Segment)
        /\ \A i \in 1 .. Len(b) + n :
             (b \o taken)[i] = IF i <= Len(b) THEN b[i] ELSE taken[i - Len(b)]
    BY <1>1, <1>3, ConcatProperties, SMTT(30)
  <2>2. \A i \in 1 .. Len(b) + n : i > Len(b) => i - Len(b) \in 1 .. n
    BY <1>1, <1>2
  <2> HIDE DEF taken, b, q
  <2>3. QED  BY <1>1, <1>3, <2>1, <2>2
<1>5. /\ Len(b \o q) = Len(b) + Len(q) /\ b \o q \in Seq(Segment)
      /\ \A i \in 1 .. Len(b) + Len(q) :
           (b \o q)[i] = IF i <= Len(b) THEN b[i] ELSE q[i - Len(b)]
  BY <1>1, ConcatProperties, ZenonT(30)
<1>6. handle_read(v).c.read_buff \in {b, b \o taken}
  BY DEF handle_read, LiveView, ClientData, n
<1>7. DOMAIN b = 1 .. Len(b) /\ DOMAIN (b \o taken) = 1 .. (Len(b) + n)
        /\ DOMAIN (b \o q) = 1 .. (Len(b) + Len(q))
  BY <1>1, <1>4, <1>5, LenProperties
<1> HIDE DEF b, q, taken
<1>8. \A i \in DOMAIN b : i \in DOMAIN (b \o q) /\ (b \o q)[i] = b[i]
  BY <1>1, <1>5, <1>7
<1>9. \A i \in DOMAIN (b \o taken) : i \in DOMAIN (b \o q) /\ (b \o q)[i] = (b \o taken)[i]
  BY <1>1, <1>2, <1>4, <1>5, <1>7
<1>10. QED  BY <1>6, <1>8, <1>9 DEF Waiting, b, q

(* The request parsing_response finds after a read was waiting.            *)
LEMMA FirstRequestWaits ==
  ASSUME NEW v \in LiveView, Complete(handle_read(v).c.read_buff)
  PROVE  \E i \in DOMAIN Waiting(v) :
           Waiting(v)[i].req = FirstRequest(handle_read(v).c.read_buff)
<1> DEFINE buf == handle_read(v).c.read_buff
<1>1. buf \in Seq(Segment)
  BY HandleReadMovesData DEF LiveView, ClientData
<1>2. HeaderEnd(buf) \in DOMAIN buf
  <2> HIDE DEF buf
  <2>1. Complete(buf)
    BY DEF buf
  <2>2. QED  BY <1>1, <2>1, HeaderEndsInBuffer
<1>3. HeaderEnd(buf) \in DOMAIN Waiting(v) /\ Waiting(v)[HeaderEnd(buf)] = buf[HeaderEnd(buf)]
  BY <1>2, ReadTakesWhatWaits
<1>4. QED  BY <1>3 DEF FirstRequest
-----------------------------------------------------------------------------
(* What each stage does to the connection.                                 *)

(* The peer's side of a connection, which no handler changes; a handler    *)
(* only takes the pending error.                                           *)
SamePeer(v, w) ==
  /\ w.k.fin = v.k.fin /\ w.k.rst = v.k.rst
  /\ w.k.err \in {v.k.err, "none"}

(* A reply of some length waits to be written, with this status.           *)
Holds(v, codes) ==
  /\ v.c.write_buff.status \in codes
  /\ v.c.write_buff.left \in {1, BodyLen}

(* The error is all that is left to do.                                    *)
Refused(v, w) ==
  /\ w \in LiveView /\ SamePeer(v, w)
  /\ w.k.interest = {"OUT"} /\ Holds(w, Errors)

(* A reply was put in write_buff, or the one in the way stays.             *)
Answered(v, w) ==
  /\ w \in LiveView /\ SamePeer(v, w)
  /\ w.k.interest = {"IN", "OUT"} /\ w.k.snd = v.k.snd
  /\ \/ Holds(w, {"200", "302"})
     \/ w.c.write_buff = v.c.write_buff /\ v.c.write_buff.left > 0

(* A reading of the socket leaves the peer's side as it is.                *)
LEMMA HandleReadKeepsPeer ==
  ASSUME NEW v \in LiveView
  PROVE  SamePeer(v, handle_read(v))
BY DEF handle_read, LiveView, Socket, SamePeer

(* handle_write shortens the reply or leaves it, and SIGPIPE comes of a    *)
(* connection the peer has reset.                                          *)
LEMMA HandleWriteShortens ==
  ASSUME NEW v \in LiveView
  PROVE  LET w == handle_write(v)
         IN  /\ SamePeer(v, w)
             /\ w.go # v.go => w.go = "killed" /\ v.k.rst
             /\ w.c.write_buff.left <= v.c.write_buff.left
             /\ w.c.write_buff.left > 0 =>
                  w.c.write_buff.status = v.c.write_buff.status
             /\ w.c.write_buff.left = 0 => v.c.write_buff.left <= SndMax - v.k.snd
<1> DEFINE b == v.c.write_buff
           n == Min2(b.left, SndMax - v.k.snd)
           rest == IF b.left = n THEN EmptyBuff ELSE [b EXCEPT !.left = b.left - n]
<1> USE BoundsAssumption
<1>1. b \in Reply /\ v.k.snd \in 0 .. SndMax /\ b.left \in Nat
  BY DEF LiveView, ClientData, Socket, Reply
<1>2. n \in Nat /\ n <= b.left /\ n <= SndMax - v.k.snd
  BY <1>1 DEF Min2
<1>3. /\ rest.left <= b.left
      /\ rest.left > 0 => rest.status = b.status
      /\ rest.left = 0 => b.left <= SndMax - v.k.snd
  BY <1>1, <1>2 DEF Reply, EmptyBuff
<1>4. CASE b.left = 0
  BY <1>1, <1>4 DEF handle_write, SamePeer, LiveView
<1>5. CASE b.left # 0 /\ v.k.rst
  <2> DEFINE k == [v.k EXCEPT !.err = "none"]
  <2>1. handle_write(v) = [v EXCEPT !.k = k] \/ handle_write(v) = [v EXCEPT !.go = "killed"]
    BY <1>5 DEF handle_write, LiveView
  <2>2. k.fin = v.k.fin /\ k.rst = v.k.rst /\ k.err = "none"
    BY DEF LiveView, Socket
  <2> HIDE DEF k
  <2> DEFINE w == handle_write(v)
  <2>3. /\ w.c = v.c
        /\ \/ w.k = k /\ w.go = v.go
           \/ w.k = v.k /\ w.go = "killed"
    BY <2>1 DEF LiveView
  <2> HIDE DEF w
  <2>4. SamePeer(v, w)
    BY <2>2, <2>3 DEF SamePeer
  <2>5. QED  BY <1>1, <1>5, <2>3, <2>4 DEF w
<1>6. CASE b.left # 0 /\ ~v.k.rst
  <2> DEFINE c == [v.c EXCEPT !.write_buff = rest]
             k == [v.k EXCEPT !.snd = v.k.snd + n]
  <2>1. handle_write(v) = [v EXCEPT !.c = c, !.k = k]
    BY <1>6 DEF handle_write, LiveView
  <2> HIDE DEF rest, n, b
  <2>2. c.write_buff = rest
    BY DEF LiveView, ClientData
  <2>3. k.fin = v.k.fin /\ k.rst = v.k.rst /\ k.err = v.k.err
    BY DEF LiveView, Socket
  <2> HIDE DEF c, k
  <2>4. QED  BY <1>3, <2>1, <2>2, <2>3 DEF LiveView, SamePeer, b
<1>7. QED  BY <1>4, <1>5, <1>6

(* epoll_ctl touches neither the peer's side nor the send buffer.          *)
LEMMA EpollCtlKeepsPeer ==
  ASSUME NEW k \in Socket, NEW mask
  PROVE  LET m == epoll_ctl(k, mask)
         IN  m.fin = k.fin /\ m.rst = k.rst /\ m.err = k.err /\ m.snd = k.snd
BY DEF epoll_ctl, Socket

(* The reply of an error has its status and a length replies have.         *)
LEMMA ErrorReplyHolds ==
  ASSUME NEW s \in Servers, NEW c \in ClientData, NEW code
  PROVE  LET b == sendErrorResponse(s, c, code).write_buff
         IN  b.status = code /\ b.left \in {1, BodyLen}
BY DEF sendErrorResponse, ClientData

(* The catch block ends the process for want of a page, closes after a     *)
(* 504, or refuses the connection.                                         *)
LEMMA FailEffect ==
  ASSUME NEW s \in Servers, NEW v \in LiveView, v.go = "go", NEW code \in Errors
  PROVE  LET a == Fail(s, v, code)
         IN  \/ a.go = "crashed" /\ PageOf(s, code) = "unreadable"
             \/ a.go = "killed" /\ v.k.rst
             \/ a.go = "return" /\ a \in GoneView /\ code = "504"
             \/ a.go = "return" /\ Refused(v, a) /\ a.c.write_buff.status = code
<1> DEFINE e == sendErrorResponse(s, v.c, code)
           failed == [v EXCEPT !.c = e]
           k == epoll_ctl(v.k, {"OUT"})
<1>1. e \in ClientData /\ e.write_buff.status = code /\ e.write_buff.left \in {1, BodyLen}
  BY ErrorReplyTyped, ErrorReplyHolds, ZenonT(30) DEF LiveView
<1>2. /\ k \in Socket /\ k.interest = {"OUT"}
      /\ k.fin = v.k.fin /\ k.rst = v.k.rst /\ k.err = v.k.err
  BY EpollCtlSetsMask, EpollCtlKeepsPeer DEF LiveView
<1> HIDE DEF e, k
<1>3. failed \in LiveView /\ failed.go = "go" /\ failed.k = v.k /\ failed.c = e
  BY <1>1 DEF LiveView
<1>4. CASE PageOf(s, code) = "unreadable"
  BY <1>4 DEF Fail, LiveView
<1>5. CASE PageOf(s, code) # "unreadable" /\ code = "504"
  <2> DEFINE last == handle_write(failed)
  <2>1. last \in LiveView /\ last.go \in {"go", "killed"} /\ (last.go = "killed" => v.k.rst)
    BY <1>3, HandleWriteTakesWhatFits, HandleWriteShortens
  <2>2. CASE last.go = "killed"
    BY <1>5, <2>1, <2>2 DEF Fail, e
  <2>3. CASE last.go # "killed"
    <3>1. Fail(s, v, code) = [close_client(last) EXCEPT !.go = "return"]
      BY <1>5, <2>3 DEF Fail, e
    <3> HIDE DEF last
    <3>2. QED  BY <1>5, <2>1, <2>3, <3>1, CloseClientGone
  <2>4. QED  BY <2>2, <2>3
<1>6. CASE PageOf(s, code) # "unreadable" /\ code # "504"
  <2> DEFINE queued == [failed EXCEPT !.k = k, !.go = "return"]
  <2>1. Fail(s, v, code) = queued
    BY <1>3, <1>6 DEF Fail, e, k
  <2>2. queued \in LiveView /\ queued.go = "return" /\ queued.c = e /\ queued.k = k
    BY <1>1, <1>2, <1>3 DEF LiveView
  <2> HIDE DEF queued
  <2>3. QED  BY <1>1, <1>2, <2>1, <2>2 DEF Refused, SamePeer, Holds
<1>7. QED  BY <1>4, <1>5, <1>6

(* What the catch block is given: parsing_response throws no error a       *)
(* request's outcome stands for, a method its outcome or 405.              *)
LEMMA ThrownHaveCause ==
  ASSUME NEW c, NEW r, NEW buf, NEW code \in Errors,
         code = parsing_response(buf) \/ code = Thrown(c, r)
  PROVE  code \in {"400", "405", "413"} \/ r.outcome = code
<1>1. parsing_response(buf) \in {"none", "400", "405", "413"}
  BY DEF parsing_response
<1>2. Thrown(c, r) \in {"none", "405", r.outcome}
  BY DEF Thrown
<1>3. QED  BY <1>1, <1>2 DEF Errors, PageCodes

(* A reply of prepare_response: a stored one has a length replies have,    *)
(* and only some requests have theirs stored over an older one.            *)
LEMMA PreparedReplyHolds ==
  ASSUME NEW c \in ClientData, NEW r, NEW buf
  PROVE  LET b == prepare_response(c, r, buf).write_buff
         IN  /\ \/ b.status \in {"200", "302"} /\ b.left \in {1, BodyLen}
                \/ b = c.write_buff /\ c.write_buff.left > 0
             /\ c.write_buff.left > 0 /\ b # c.write_buff => Replaces(r)
<1> DEFINE keep == IF r.method = "GET" THEN WantsKeepAlive(buf) ELSE c.keep_alive
           reply == [status |-> IF Redirects(r) THEN "302" ELSE "200",
                     close  |-> ~keep,
                     page   |-> FALSE,
                     left   |-> IF Redirects(r) THEN 1 ELSE BodyLen]
<1>1. prepare_response(c, r, buf).write_buff = IF Stores(c, r) THEN reply ELSE c.write_buff
  BY DEF prepare_response, ClientData
<1>2. reply.status \in {"200", "302"} /\ reply.left \in {1, BodyLen}
  OBVIOUS
<1> HIDE DEF reply
<1>3. c.write_buff.left \in Nat
  BY DEF ClientData, Reply
<1>4. QED  BY <1>1, <1>2, <1>3 DEF Stores

(* How a complete request ends for its connection.                         *)
LEMMA AnswerEffect ==
  ASSUME NEW s \in Servers, NEW v \in LiveView, v.go = "go"
  PROVE  LET a == Answer(s, v)
             r == FirstRequest(v.c.read_buff)
         IN  \/ /\ a.go = "crashed"
                /\ \E code \in PageCodes : /\ PageOf(s, code) = "unreadable"
                                           /\ code = "405" \/ r.outcome = code
             \/ a.go = "killed" /\ (v.k.rst \/ PostsToScript(r))
             \/ a.go = "return" /\ a \in GoneView /\ r.outcome = "504"
             \/ a.go = "return" /\ Refused(v, a)
             \/ /\ a.go = "go" /\ Answered(v, a)
                /\ \/ a.c.write_buff = v.c.write_buff
                   \/ v.c.write_buff.left = 0
                   \/ Replaces(r)
<1> DEFINE buf == v.c.read_buff
           r == FirstRequest(buf)
           code == IF parsing_response(buf) # "none" THEN parsing_response(buf)
                                                     ELSE Thrown(v.c, r)
           p == prepare_response(v.c, r, buf)
           k == epoll_ctl(v.k, {"IN", "OUT"})
           l == v.lost \/ ~Stores(v.c, r)
<1> HIDE DEF r
<1>1. code \in Errors \cup {"none"}
  BY ThrownAreErrors
<1>2. CASE code # "none"
  <2>1. Answer(s, v) = Fail(s, v, code)
    BY <1>2 DEF Answer, r
  <2>2. code \in {"400", "405", "413"} \/ r.outcome = code
    <3>1. code = parsing_response(buf) \/ code = Thrown(v.c, r)
      OBVIOUS
    <3> HIDE DEF code
    <3>2. QED  BY <1>1, <1>2, <3>1, ThrownHaveCause
  <2> HIDE DEF code
  <2>3. PageOf(s, code) = "unreadable" => code \in PageCodes
    BY DEF PageOf
  <2>4. "400" \notin PageCodes /\ "413" \notin PageCodes
    BY DEF PageCodes
  <2>5. \/ Fail(s, v, code).go = "crashed" /\ PageOf(s, code) = "unreadable"
        \/ Fail(s, v, code).go = "killed" /\ v.k.rst
        \/ Fail(s, v, code).go = "return" /\ Fail(s, v, code) \in GoneView /\ code = "504"
        \/ Fail(s, v, code).go = "return" /\ Refused(v, Fail(s, v, code))
    BY <1>1, <1>2, FailEffect
  <2>6. QED  BY <2>1, <2>2, <2>3, <2>4, <2>5 DEF r
<1>3. CASE code = "none" /\ PostsToScript(r) /\ r.outcome = "sigpipe" /\ BodySize(buf) > 0
  <2>1. Answer(s, v) = [v EXCEPT !.go = "killed"]
    BY <1>3 DEF Answer, r
  <2>2. QED  BY <1>3, <2>1 DEF LiveView, r
<1>4. CASE code = "none" /\ ~(PostsToScript(r) /\ r.outcome = "sigpipe" /\ BodySize(buf) > 0)
  <2>1. Answer(s, v) = [v EXCEPT !.c = p, !.k = k, !.lost = l]
    BY <1>4 DEF Answer, r
  <2>2. /\ p \in ClientData
        /\ \/ p.write_buff.status \in {"200", "302"} /\ p.write_buff.left \in {1, BodyLen}
           \/ p.write_buff = v.c.write_buff /\ v.c.write_buff.left > 0
        /\ v.c.write_buff.left > 0 /\ p.write_buff # v.c.write_buff => Replaces(r)
    BY PreparedReplyTyped, PreparedReplyHolds DEF LiveView
  <2>3. /\ k \in Socket /\ k.interest = {"IN", "OUT"} /\ k.snd = v.k.snd
        /\ k.fin = v.k.fin /\ k.rst = v.k.rst /\ k.err = v.k.err
    BY EpollCtlSetsMask, EpollCtlKeepsPeer DEF LiveView
  <2>4. l \in BOOLEAN
    BY DEF LiveView
  <2>5. v.c.write_buff.left \in Nat
    BY DEF LiveView, ClientData, Reply
  <2> HIDE DEF p, k, l
  <2> DEFINE a == [v EXCEPT !.c = p, !.k = k, !.lost = l]
  <2>6. a \in LiveView /\ a.c = p /\ a.k = k /\ a.go = "go"
    BY <2>2, <2>3, <2>4 DEF LiveView
  <2> HIDE DEF a
  <2>7. Answered(v, a)
    BY <2>2, <2>3, <2>6 DEF Answered, SamePeer, Holds
  <2>8. Answer(s, v) = a
    BY <2>1 DEF a
  <2>9. QED  BY <2>2, <2>5, <2>6, <2>7, <2>8 DEF r
<1>5. QED  BY <1>2, <1>3, <1>4

-----------------------------------------------------------------------------
(* What an event does to its connection.                                   *)

(* What the batch and the mask tell of the connection: EPOLLOUT is about a *)
(* pending reply, EPOLLERR and EPOLLHUP are about a reset, and the loop    *)
(* stops listening for an error only.                                      *)
Told(c, k, evs) ==
  /\ "OUT" \in evs => c.write_buff.left > 0
  /\ evs \cap {"ERR", "HUP"} # {} => k.rst
  /\ k.err # "none" => k.rst
  /\ "IN" \notin k.interest => c.write_buff.status \in Errors
  /\ c.write_buff.left > 0 => c.write_buff.status # "none"

(* A request on this connection may still be answered: the loop listens,   *)
(* or it had been listening when the sweep put its 408 there.              *)
Heard(v) ==
  \/ "IN" \in v.k.interest
  \/ v.c.write_buff.left > 0 /\ v.c.write_buff.status = "408"

AsksScript(v) == \E i \in DOMAIN Waiting(v) : PostsToScript(Waiting(v)[i].req)

AsksOver(v) == \E i \in DOMAIN Waiting(v) : Replaces(Waiting(v)[i].req)

(* What ends the process in a handler.                                     *)
EndHasCause(s, v, h) ==
  \/ h.go = "killed" /\ (v.k.rst \/ AsksScript(v))
  \/ /\ h.go = "crashed"
     /\ \E code \in PageCodes :
          /\ PageOf(s, code) = "unreadable"
          /\ code = "405" \/ \E i \in DOMAIN Waiting(v) : Waiting(v)[i].req.outcome = code

(* What closes a connection in a handler.                                  *)
CloseHasCause(v) ==
  \/ v.c.write_buff.left > 0 /\ v.c.write_buff.left <= SndMax - v.k.snd
  \/ /\ v.c.write_buff.left > 0 /\ AsksOver(v) /\ Heard(v)
     /\ \E n \in {1, BodyLen} : n <= SndMax - v.k.snd
  \/ v.k.fin \/ v.k.rst
  \/ Heard(v) /\ \E i \in DOMAIN Waiting(v) : Waiting(v)[i].req.outcome = "504"

(* How a connection goes on: nothing to see, a part of its reply sent, a   *)
(* request answered or refused.                                            *)
Unmoved(v, h) == h.c.write_buff = v.c.write_buff /\ h.k.interest = v.k.interest

Sent(v, h) ==
  /\ h.c.write_buff.left <= v.c.write_buff.left
  /\ \/ /\ h.c.write_buff.left > 0
        /\ h.c.write_buff.status = v.c.write_buff.status
        /\ h.k.interest = v.k.interest
     \/ /\ h.c.write_buff.left = 0 /\ v.c.write_buff.left > 0
        /\ "IN" \in v.k.interest /\ h.k.interest = {"IN"}

Replied(v, h) ==
  /\ Heard(v) /\ "IN" \in h.k.interest
  /\ \/ /\ v.c.write_buff.left = 0 \/ AsksOver(v)
        /\ h.c.write_buff.left = 0 \/ h.c.write_buff.status \in {"200", "302"}
        /\ \E n \in {1, BodyLen} : h.c.write_buff.left <= n
     \/ /\ h.c.write_buff.left <= v.c.write_buff.left
        /\ h.c.write_buff.left > 0 => h.c.write_buff.status = v.c.write_buff.status

(* Another reply, no error, stands where the one under way stood.          *)
Overwritten(v, h) ==
  /\ v.c.write_buff.left > 0
  /\ h.c.write_buff.status \notin Errors
  /\ \/ h.c.write_buff.left > v.c.write_buff.left
     \/ h.c.write_buff.left > 0 /\ h.c.write_buff.status # v.c.write_buff.status

GoesOn(v, h) ==
  /\ h \in LiveView /\ SamePeer(v, h) /\ h.go \in {"go", "return"}
  /\ Unmoved(v, h) \/ Sent(v, h) \/ Replied(v, h) \/ (Heard(v) /\ Refused(v, h))
  /\ Overwritten(v, h) => AsksOver(v)

(* EPOLLOUT writes what fits; an empty buffer closes the connection or     *)
(* leaves it listening.                                                    *)
LEMMA OnWritableEffect ==
  ASSUME NEW v \in LiveView, v.go = "go", v.c.write_buff.left > 0
  PROVE  LET o == OnWritable(handle_write(v))
         IN  \/ o.go = "killed" /\ v.k.rst
             \/ o.go = "go" /\ o \in GoneView /\ v.c.write_buff.left <= SndMax - v.k.snd
             \/ /\ o.go = "go" /\ o \in LiveView /\ SamePeer(v, o)
                /\ o.c.write_buff.left <= v.c.write_buff.left
                /\ \/ /\ o.c.write_buff.left > 0
                      /\ o.c.write_buff.status = v.c.write_buff.status
                      /\ o.k.interest = v.k.interest
                   \/ o.c.write_buff.left = 0 /\ v.c.keep_alive /\ o.k.interest = {"IN"}
<1> DEFINE w == handle_write(v)
           k == epoll_ctl(w.k, {"IN"})
<1>1. /\ w \in LiveView /\ w.go \in {"go", "killed"} /\ SamePeer(v, w)
      /\ w.go = "killed" => v.k.rst
      /\ w.k.interest = v.k.interest /\ w.c.keep_alive = v.c.keep_alive
      /\ w.c.write_buff.left <= v.c.write_buff.left
      /\ w.c.write_buff.left > 0 => w.c.write_buff.status = v.c.write_buff.status
      /\ w.c.write_buff.left = 0 => v.c.write_buff.left <= SndMax - v.k.snd
  BY HandleWriteTakesWhatFits, HandleWriteShortens
<1> HIDE DEF w
<1>2. w.c.write_buff.left \in Nat
  BY <1>1 DEF LiveView, ClientData, Reply
<1>3. CASE w.go = "killed"
  BY <1>1, <1>3 DEF OnWritable, w
<1>4. CASE w.go # "killed" /\ w.c.write_buff.left > 0
  BY <1>1, <1>4 DEF OnWritable, w
<1>5. CASE w.go # "killed" /\ w.c.write_buff.left = 0 /\ w.c.keep_alive
  <2>1. /\ k \in Socket /\ k.interest = {"IN"}
        /\ k.fin = w.k.fin /\ k.rst = w.k.rst /\ k.err = w.k.err
    <3>1. w.k \in Socket /\ {"IN"} \in SUBSET {"IN", "OUT"}
      BY <1>1 DEF LiveView
    <3>2. QED  BY <3>1, EpollCtlSetsMask, EpollCtlKeepsPeer
  <2> HIDE DEF k
  <2> DEFINE o == [w EXCEPT !.k = k]
  <2>2. OnWritable(w) = o
    BY <1>5 DEF OnWritable, k
  <2>3. o \in LiveView /\ o.c = w.c /\ o.k = k /\ o.go = w.go
    BY <1>1, <2>1 DEF LiveView
  <2> HIDE DEF o
  <2>4. SamePeer(v, o)
    BY <1>1, <2>1, <2>3 DEF SamePeer
  <2>5. QED  BY <1>1, <1>5, <2>1, <2>2, <2>3, <2>4 DEF w
<1>6. CASE w.go # "killed" /\ w.c.write_buff.left = 0 /\ ~w.c.keep_alive
  <2>1. close_client(w) \in GoneView /\ close_client(w).go = "go"
    BY <1>1, <1>6, CloseClientGone
  <2>2. QED  BY <1>1, <1>6, <2>1 DEF OnWritable, w
<1>7. QED  BY <1>1, <1>2, <1>3, <1>4, <1>5, <1>6

(* Nothing but data moved.                                                 *)
OnlyRead(v, w) ==
  /\ w \in LiveView /\ SamePeer(v, w) /\ Unmoved(v, w)
  /\ w.k.snd = v.k.snd /\ w.c.keep_alive = v.c.keep_alive

(* A reply over an older one is to a request that was waiting.             *)
NotCut(v, w) ==
  \/ w.c.write_buff = v.c.write_buff
  \/ v.c.write_buff.left = 0
  \/ AsksOver(v)

(* EPOLLIN: end of file closes, a complete header is answered or refused.  *)
LEMMA OnReadableEffect ==
  ASSUME NEW s \in Servers, NEW v \in LiveView, v.go = "go", Heard(v)
  PROVE  LET r == OnReadable(s, v, handle_read(v))
         IN  \/ r.go \in Exits /\ EndHasCause(s, v, r)
             \/ r.go = "return" /\ r \in GoneView /\ CloseHasCause(v)
             \/ r.go = "return" /\ Refused(v, r)
             \/ r.go = "go" /\ Answered(v, r) /\ NotCut(v, r)
             \/ r.go = "go" /\ OnlyRead(v, r)
<1> DEFINE g == handle_read(v)
           r == OnReadable(s, v, g)
<1>1. /\ g \in LiveView /\ g.go = "go" /\ SamePeer(v, g)
      /\ g.c.write_buff = v.c.write_buff /\ g.c.keep_alive = v.c.keep_alive
      /\ g.k.snd = v.k.snd /\ g.k.interest = v.k.interest
  BY HandleReadMovesData, HandleReadKeepsPeer
<1>2. Complete(g.c.read_buff) =>
        \E i \in DOMAIN Waiting(v) : Waiting(v)[i].req = FirstRequest(g.c.read_buff)
  BY FirstRequestWaits
<1> HIDE DEF g
<1>3. CASE AtEOF(v.k)
  <2>1. r = [close_client(v) EXCEPT !.go = "return"]
    BY <1>3 DEF OnReadable
  <2>2. r \in GoneView /\ r.go = "return"
    <3> HIDE DEF r
    <3>1. QED  BY <2>1, CloseClientGone
  <2>3. CloseHasCause(v)
    BY <1>3 DEF AtEOF, CloseHasCause
  <2>4. QED  BY <2>2, <2>3 DEF g
<1>4. CASE ~AtEOF(v.k) /\ Complete(g.c.read_buff)
  <2> DEFINE q == FirstRequest(g.c.read_buff)
  <2>1. r = Answer(s, g)
    BY <1>4 DEF OnReadable
  <2> HIDE DEF r
  <2>2. PICK i \in DOMAIN Waiting(v) : Waiting(v)[i].req = q
    BY <1>2, <1>4
  <2>3. \/ /\ r.go = "crashed"
           /\ \E code \in PageCodes : /\ PageOf(s, code) = "unreadable"
                                      /\ code = "405" \/ q.outcome = code
        \/ r.go = "killed" /\ (g.k.rst \/ PostsToScript(q))
        \/ r.go = "return" /\ r \in GoneView /\ q.outcome = "504"
        \/ r.go = "return" /\ Refused(g, r)
        \/ /\ r.go = "go" /\ Answered(g, r)
           /\ \/ r.c.write_buff = g.c.write_buff
              \/ g.c.write_buff.left = 0
              \/ Replaces(q)
    BY <1>1, <2>1, AnswerEffect
  <2> HIDE DEF q
  <2>4. SamePeer(g, r) => SamePeer(v, r)
    BY <1>1 DEF SamePeer
  <2>5. CASE r.go = "crashed"
    BY <2>2, <2>3, <2>5 DEF EndHasCause, Exits, r, g
  <2>6. CASE r.go = "killed"
    <3>1. v.k.rst \/ AsksScript(v)
      BY <1>1, <2>2, <2>3, <2>6 DEF SamePeer, AsksScript
    <3>2. QED  BY <2>6, <3>1 DEF EndHasCause, Exits, r, g
  <2>7. CASE r.go = "return" /\ r \in GoneView /\ q.outcome = "504"
    BY <2>2, <2>7 DEF CloseHasCause, r, g
  <2>8. CASE r.go = "return" /\ Refused(g, r)
    BY <2>4, <2>8 DEF Refused, r, g
  <2>9. CASE r.go = "go"
    <3>1. Answered(v, r)
      BY <1>1, <2>3, <2>4, <2>9 DEF Answered
    <3>2. NotCut(v, r)
      BY <1>1, <2>2, <2>3, <2>9 DEF NotCut, AsksOver
    <3>3. QED  BY <2>9, <3>1, <3>2 DEF r, g
  <2>10. QED  BY <2>3, <2>5, <2>6, <2>7, <2>8, <2>9
<1>5. CASE ~AtEOF(v.k) /\ ~Complete(g.c.read_buff)
  <2>1. r = g
    BY <1>5 DEF OnReadable
  <2>2. OnlyRead(v, g)
    BY <1>1 DEF OnlyRead, Unmoved
  <2>3. QED  BY <1>1, <2>1, <2>2 DEF g
<1>6. QED  BY <1>3, <1>4, <1>5

(* A handled event ends the process, closes the connection or lets it go   *)
(* on, each for its cause.                                                 *)
LEMMA EventEffect ==
  ASSUME NEW s \in Servers, NEW v \in LiveView, v.go = "go",
         NEW flags \in SUBSET Flags,
         Resting(v.c, v.k, v.lost, flags), Told(v.c, v.k, flags),
         NEW r, r = IF "IN" \in flags THEN OnReadable(s, v, handle_read(v)) ELSE v,
         NEW w, w = IF r.go = "go" /\ "OUT" \in flags
                    THEN OnWritable(handle_write(r)) ELSE r,
         NEW h, h = IF w.go = "go" /\ flags \cap {"ERR", "HUP"} # {}
                    THEN close_client(w) ELSE w
  PROVE  \/ h.go \in Exits /\ EndHasCause(s, v, h)
         \/ h \in GoneView /\ CloseHasCause(v)
         \/ GoesOn(v, h)
<1>1. /\ v.c.write_buff.left \in Nat /\ v.k.interest \in SUBSET {"IN", "OUT"}
      /\ v.k.snd \in 0 .. SndMax
  BY DEF LiveView, ClientData, Reply, Socket
<1>2. "IN" \in flags => Heard(v)
  BY <1>1 DEF Resting, Told, Heard
<1>3. \/ r.go \in Exits /\ EndHasCause(s, v, r)
      \/ r.go = "return" /\ r \in GoneView /\ CloseHasCause(v)
      \/ r.go = "return" /\ Heard(v) /\ Refused(v, r)
      \/ r.go = "go" /\ Heard(v) /\ Answered(v, r) /\ NotCut(v, r)
      \/ r.go = "go" /\ OnlyRead(v, r)
  <2>1. CASE "IN" \in flags
    BY <1>2, <2>1, OnReadableEffect
  <2>2. CASE "IN" \notin flags
    BY <2>2 DEF OnlyRead, SamePeer, Unmoved
  <2>3. QED  BY <2>1, <2>2
<1>4. \/ w.go \in Exits /\ EndHasCause(s, v, w)
      \/ w.go \in {"go", "return"} /\ w \in GoneView /\ CloseHasCause(v)
      \/ w.go \in {"go", "return"} /\ GoesOn(v, w)
  <2>1. CASE r.go # "go"
    <3>1. w = r /\ "go" \notin Exits
      BY <2>1 DEF Exits
    <3>2. r.go = "return" /\ Heard(v) /\ Refused(v, r) => GoesOn(v, r)
      BY DEF Refused, GoesOn, Holds, Overwritten
    <3>3. QED  BY <1>3, <2>1, <3>1, <3>2
  <2>2. CASE r.go = "go" /\ "OUT" \notin flags
    <3>1. w = r /\ r.go \notin Exits
      BY <2>2 DEF Exits
    <3>2. Heard(v) /\ Answered(v, r) /\ NotCut(v, r) => GoesOn(v, r)
      <4> SUFFICES ASSUME Heard(v), Answered(v, r), NotCut(v, r)
                   PROVE  GoesOn(v, r)
        OBVIOUS
      <4>1. Replied(v, r) /\ (Overwritten(v, r) => AsksOver(v))
        BY <1>1, BoundsAssumption DEF Answered, Holds, Replied, NotCut, Overwritten
      <4>2. QED  BY <2>2, <4>1 DEF Answered, GoesOn
    <3>3. OnlyRead(v, r) => GoesOn(v, r)
      BY <1>1, <2>2 DEF OnlyRead, GoesOn, Unmoved, Overwritten
    <3>4. QED  BY <1>3, <2>2, <3>1, <3>2, <3>3
  <2>3. CASE r.go = "go" /\ "OUT" \in flags
    <3>1. w = OnWritable(handle_write(r)) /\ r.go \notin Exits
      BY <2>3 DEF Exits
    <3>2. r \in LiveView /\ SamePeer(v, r) /\ r.k.snd = v.k.snd
      BY <1>3, <2>3, <3>1 DEF Answered, OnlyRead
    <3>3. r.c.write_buff.left \in Nat
      BY <3>2 DEF LiveView, ClientData, Reply
    <3>4. r.c.write_buff.left > 0
      BY <1>1, <1>3, <2>3, <3>1, BoundsAssumption
         DEF Answered, OnlyRead, Unmoved, Holds, Told
    <3>5. \/ w.go = "killed" /\ r.k.rst
          \/ w.go = "go" /\ w \in GoneView /\ r.c.write_buff.left <= SndMax - r.k.snd
          \/ /\ w.go = "go" /\ w \in LiveView /\ SamePeer(r, w)
             /\ w.c.write_buff.left <= r.c.write_buff.left
             /\ \/ /\ w.c.write_buff.left > 0
                   /\ w.c.write_buff.status = r.c.write_buff.status
                   /\ w.k.interest = r.k.interest
                \/ w.c.write_buff.left = 0 /\ r.c.keep_alive /\ w.k.interest = {"IN"}
      BY <2>3, <3>1, <3>2, <3>4, OnWritableEffect
    <3>6. CASE w.go = "killed"
      BY <3>2, <3>5, <3>6 DEF EndHasCause, SamePeer, Exits
    <3>7. CASE w.go = "go" /\ w \in GoneView /\ r.c.write_buff.left <= SndMax - r.k.snd
      <4>1. CloseHasCause(v)
        BY <1>3, <2>3, <3>1, <3>2, <3>4, <3>7
           DEF CloseHasCause, Answered, OnlyRead, Unmoved, Holds, NotCut, Told
      <4>2. QED  BY <3>7, <4>1
    <3>8. CASE /\ w.go = "go" /\ w \in LiveView /\ SamePeer(r, w)
               /\ w.c.write_buff.left <= r.c.write_buff.left
               /\ \/ /\ w.c.write_buff.left > 0
                     /\ w.c.write_buff.status = r.c.write_buff.status
                     /\ w.k.interest = r.k.interest
                  \/ w.c.write_buff.left = 0 /\ r.c.keep_alive /\ w.k.interest = {"IN"}
      <4>1. SamePeer(v, w)
        BY <3>2, <3>8 DEF SamePeer
      <4>2. w.c.write_buff.left \in Nat
        BY <3>8 DEF LiveView, ClientData, Reply
      <4>3. CASE OnlyRead(v, r)
        <5>1. "IN" \notin v.k.interest => ~r.c.keep_alive
          BY <4>3 DEF OnlyRead, Resting
        <5>2. r.c.write_buff = v.c.write_buff /\ r.k.interest = v.k.interest
          BY <4>3 DEF OnlyRead, Unmoved
        <5>3. w.c.write_buff.left <= v.c.write_buff.left /\ v.c.write_buff.left > 0
          BY <3>4, <3>8, <5>2
        <5>4. ~(w.c.write_buff.left > v.c.write_buff.left)
          BY <1>1, <4>2, <5>3
        <5>5. Sent(v, w)
          BY <3>8, <5>1, <5>2, <5>3, Zenon DEF Sent
        <5>6. ~Overwritten(v, w)
          BY <3>8, <5>2, <5>4 DEF Overwritten
        <5>7. QED  BY <3>8, <4>1, <5>5, <5>6 DEF GoesOn
      <4>4. CASE Heard(v) /\ Answered(v, r) /\ NotCut(v, r)
        <5>1. Replied(v, w)
          <6>1. Heard(v) /\ "IN" \in w.k.interest
            BY <3>8, <4>4 DEF Answered
          <6>2. w.c.write_buff.left > 0 => w.c.write_buff.status = r.c.write_buff.status
            BY <3>8
          <6>3. CASE r.c.write_buff = v.c.write_buff
            BY <3>8, <6>1, <6>2, <6>3 DEF Replied
          <6>4. CASE Holds(r, {"200", "302"}) /\ (v.c.write_buff.left = 0 \/ AsksOver(v))
            <7>1. w.c.write_buff.left = 0 \/ w.c.write_buff.status \in {"200", "302"}
              BY <4>2, <6>2, <6>4 DEF Holds
            <7>2. \E n \in {1, BodyLen} : w.c.write_buff.left <= n
              BY <3>8, <6>4 DEF Holds
            <7>3. QED  BY <6>1, <6>4, <7>1, <7>2 DEF Replied
          <6>5. QED  BY <4>4, <6>3, <6>4 DEF Answered, NotCut
        <5>2. Overwritten(v, w) => AsksOver(v)
          BY <1>1, <3>3, <3>8, <4>2, <4>4 DEF NotCut, Overwritten
        <5>3. QED  BY <3>8, <4>1, <5>1, <5>2 DEF GoesOn
      <4>5. QED  BY <1>3, <2>3, <3>1, <4>3, <4>4
    <3>9. QED  BY <3>5, <3>6, <3>7, <3>8
  <2>4. QED  BY <2>1, <2>2, <2>3
<1>5. CASE h = w
  BY <1>4, <1>5
<1>6. CASE w.go = "go" /\ flags \cap {"ERR", "HUP"} # {}
  <2>1. CloseHasCause(v)
    BY <1>6 DEF Told, CloseHasCause
  <2>2. w \in LiveView \cup GoneView
    BY <1>4, <1>6 DEF GoesOn, Exits
  <2>3. QED  BY <1>6, <2>1, <2>2, CloseClientGone
<1>7. QED  BY <1>5, <1>6

-----------------------------------------------------------------------------
(* The invariant the effects rest on, beside IInv.                         *)

ConnectionsTold ==
  \A s \in Servers, fd \in Fds :
    HasClient(s, fd) => Told(clients[s][fd], kern[fd], events[fd])

StoppedWasAsked == pc = "stopped" => stop

(* A handler's view of a connection: all of it but the idle time.          *)
LEMMA ViewIsLive ==
  ASSUME IInv, NEW s \in Servers, NEW fd \in Fds, HasClient(s, fd)
  PROVE  LET v == View(s, fd)
         IN  /\ v \in LiveView /\ v.go = "go"
             /\ v.k = kern[fd] /\ v.lost = lost[fd]
             /\ v.c.read_buff = clients[s][fd].read_buff
             /\ v.c.write_buff = clients[s][fd].write_buff
             /\ v.c.keep_alive = clients[s][fd].keep_alive
<1> DEFINE c == [clients[s][fd] EXCEPT !.idle = 0]
<1>1. /\ c \in ClientData
      /\ c.read_buff = clients[s][fd].read_buff
      /\ c.write_buff = clients[s][fd].write_buff
      /\ c.keep_alive = clients[s][fd].keep_alive
  <2>1. clients[s][fd] \in ClientData /\ 0 \in 0 .. (timeout_seconds + 1)
    BY BoundsAssumption DEF IInv, TypeOK, HasClient
  <2>2. QED  BY <2>1 DEF ClientData
<1> HIDE DEF c
<1>2. View(s, fd) = [c |-> c, k |-> kern[fd], lost |-> lost[fd], go |-> "go"]
  BY DEF View, c
<1>3. kern[fd] \in Socket /\ lost[fd] \in BOOLEAN
  BY DEF IInv, TypeOK
<1>4. QED  BY <1>1, <1>2, <1>3 DEF LiveView

(* What handle_client_event does to the one connection it is about.        *)
Handled(s, fd, h) ==
  /\ clients' = [clients EXCEPT ![s][fd] = h.c]
  /\ kern' = [kern EXCEPT ![fd] = h.k]
  /\ events' = [events EXCEPT ![fd] = {}]
  /\ UNCHANGED <<pc, stop>>

LEMMA ClientEventEffect ==
  ASSUME IInv, ConnectionsTold, NEW fd \in Fds, handle_client_event(fd)
  PROVE  \/ /\ \A s \in Servers : ~HasClient(s, fd)
            /\ events' = [events EXCEPT ![fd] = {}]
            /\ UNCHANGED <<clients, kern, pc, stop>>
         \/ \E s \in Servers : \E h :
              /\ HasClient(s, fd)
              /\ \/ h.go \in Exits /\ Exit(h.go) /\ EndHasCause(s, View(s, fd), h)
                 \/ /\ h \in GoneView /\ CloseHasCause(View(s, fd))
                    /\ Handled(s, fd, h)
                 \/ GoesOn(View(s, fd), h) /\ Handled(s, fd, h)
<1> DEFINE flags == events[fd]
           owners == {s \in Servers : HasClient(s, fd)}
<1>1. CASE owners = {}
  BY <1>1 DEF handle_client_event
<1>2. CASE owners # {}
  <2>1. PICK s \in owners : \E r, w, h :
          /\ r = IF "IN" \in flags THEN OnReadable(s, View(s, fd), handle_read(View(s, fd)))
                                   ELSE View(s, fd)
          /\ w = IF r.go = "go" /\ "OUT" \in flags THEN OnWritable(handle_write(r)) ELSE r
          /\ h = IF w.go = "go" /\ flags \cap {"ERR", "HUP"} # {} THEN close_client(w) ELSE w
          /\ IF h.go \in Exits THEN Exit(h.go) ELSE Handled(s, fd, h)
    BY <1>2 DEF handle_client_event, Handled
  <2>2. PICK r, w, h :
          /\ r = IF "IN" \in flags THEN OnReadable(s, View(s, fd), handle_read(View(s, fd)))
                                   ELSE View(s, fd)
          /\ w = IF r.go = "go" /\ "OUT" \in flags THEN OnWritable(handle_write(r)) ELSE r
          /\ h = IF w.go = "go" /\ flags \cap {"ERR", "HUP"} # {} THEN close_client(w) ELSE w
          /\ IF h.go \in Exits THEN Exit(h.go) ELSE Handled(s, fd, h)
    BY <2>1
  <2> DEFINE v == View(s, fd)
  <2>3. /\ v \in LiveView /\ v.go = "go"
        /\ v.k = kern[fd] /\ v.lost = lost[fd]
        /\ v.c.read_buff = clients[s][fd].read_buff
        /\ v.c.write_buff = clients[s][fd].write_buff
        /\ v.c.keep_alive = clients[s][fd].keep_alive
    BY ViewIsLive
  <2>4. Resting(v.c, v.k, v.lost, flags) /\ Told(v.c, v.k, flags) /\ flags \in SUBSET Flags
    <3>1. /\ Resting(clients[s][fd], kern[fd], lost[fd], flags)
          /\ Told(clients[s][fd], kern[fd], flags)
          /\ flags \in SUBSET Flags
      BY DEF IInv, TypeOK, ConnectionsRest, ConnectionsTold
    <3> HIDE DEF v, flags
    <3>2. QED  BY <2>3, <3>1 DEF Resting, Told
  <2> HIDE DEF v, flags
  <2>5. \/ h.go \in Exits /\ EndHasCause(s, v, h)
        \/ h \in GoneView /\ CloseHasCause(v)
        \/ GoesOn(v, h)
    <3>1. r = IF "IN" \in flags THEN OnReadable(s, v, handle_read(v)) ELSE v
      BY <2>2 DEF v
    <3>2. w = IF r.go = "go" /\ "OUT" \in flags THEN OnWritable(handle_write(r)) ELSE r
      BY <2>2
    <3>3. h = IF w.go = "go" /\ flags \cap {"ERR", "HUP"} # {} THEN close_client(w) ELSE w
      BY <2>2
    <3>4. QED  BY <2>3, <2>4, <3>1, <3>2, <3>3, EventEffect
  <2>6. (h \in GoneView \/ GoesOn(v, h)) => h.go \notin Exits
    BY DEF GoneView, GoesOn, Exits
  <2>7. \/ h.go \in Exits /\ Exit(h.go) /\ EndHasCause(s, v, h)
        \/ h \in GoneView /\ CloseHasCause(v) /\ Handled(s, fd, h)
        \/ GoesOn(v, h) /\ Handled(s, fd, h)
    BY <2>2, <2>5, <2>6
  <2>8. QED  BY <2>7 DEF v
<1>3. QED  BY <1>1, <1>2

(* After the process ends nothing is left to tell about.                   *)
LEMMA ExitClosesAll ==
  ASSUME NEW how, Exit(how)
  PROVE  \A fd \in Fds : kern'[fd] = ClosedSocket
                         /\ \A s \in Servers : ~HasClient(s, fd)'
BY DEF Exit, HasClient

(* A step of a peer changes no mask and takes back neither a half-close    *)
(* nor a reset, and only a reset leaves an error.                          *)
LEMMA PeerStepEffect ==
  ASSUME IInv, NEW fd \in Fds,
         \/ \E r \in Requests, n \in 1 .. RcvMax : PeerSend(fd, r, n)
         \/ PeerDrain(fd) \/ PeerFin(fd) \/ PeerReset(fd)
  PROVE  /\ UNCHANGED <<clients, events, pc, stop>>
         /\ \A f \in Fds \ {fd} : kern'[f] = kern[f]
         /\ kern'[fd].open = kern[fd].open /\ kern'[fd].interest = kern[fd].interest
         /\ kern[fd].fin => kern'[fd].fin
         /\ kern[fd].rst => kern'[fd].rst
         /\ kern'[fd].err # "none" => kern'[fd].rst \/ kern'[fd].err = kern[fd].err
<1> DEFINE k == kern[fd]
           Keeps(m) == /\ m.open = k.open /\ m.interest = k.interest
                       /\ k.fin => m.fin
                       /\ k.rst => m.rst
                       /\ m.err # "none" => m.rst \/ m.err = k.err
<1>1. k \in Socket /\ kern \in [Fds -> Socket]
  BY DEF IInv, TypeOK
<1>2. ASSUME NEW m, PeerStep(fd, m), Keeps(m)
      PROVE  /\ UNCHANGED <<clients, events, pc, stop>>
             /\ \A f \in Fds \ {fd} : kern'[f] = kern[f]
             /\ Keeps(kern'[fd])
  <2>1. kern'[fd] = m /\ \A f \in Fds \ {fd} : kern'[f] = kern[f]
    BY <1>1, <1>2 DEF PeerStep
  <2> HIDE DEF Keeps
  <2>2. QED  BY <1>2, <2>1 DEF PeerStep
<1>3. ASSUME NEW x, NEW e, Keeps(x), DOMAIN x = DOMAIN k
      PROVE  Keeps([x EXCEPT !.armed = e])
  <2>1. {"open", "interest", "fin", "rst", "err"} \subseteq DOMAIN x
    BY <1>1, <1>3 DEF Socket
  <2>2. QED  BY <1>3, <2>1
<1>4. CASE \E r \in Requests, n \in 1 .. RcvMax : PeerSend(fd, r, n)
  <2>1. PICK A, B : PeerStep(fd, Wake([k EXCEPT !.rcv = A, !.peer = B], "IN"))
    BY <1>1, <1>4 DEF PeerSend, Socket
  <2> DEFINE x == [k EXCEPT !.rcv = A, !.peer = B]
  <2>2. Keeps(x) /\ DOMAIN x = DOMAIN k
    BY <1>1 DEF Socket
  <2> HIDE DEF x, Keeps
  <2>3. Keeps(Wake(x, "IN"))
    BY <1>3, <2>2 DEF Wake
  <2>4. QED  BY <1>2, <2>1, <2>3 DEF x, Keeps
<1>5. CASE PeerDrain(fd)
  <2> DEFINE x == [k EXCEPT !.snd = k.snd - 1]
  <2>1. PeerStep(fd, x) \/ PeerStep(fd, Wake(x, "OUT"))
    BY <1>1, <1>5 DEF PeerDrain, Socket
  <2>2. Keeps(x) /\ DOMAIN x = DOMAIN k
    BY <1>1 DEF Socket
  <2> HIDE DEF x, Keeps
  <2>3. Keeps(Wake(x, "OUT"))
    BY <1>3, <2>2 DEF Wake
  <2>4. QED  BY <1>2, <2>1, <2>2, <2>3 DEF Keeps
<1>6. CASE PeerFin(fd)
  <2> DEFINE x == [k EXCEPT !.fin = TRUE]
  <2>1. PeerStep(fd, Wake(x, "IN"))
    BY <1>6 DEF PeerFin
  <2>2. Keeps(x) /\ DOMAIN x = DOMAIN k
    BY <1>1 DEF Socket
  <2> HIDE DEF x, Keeps
  <2>3. Keeps(Wake(x, "IN"))
    BY <1>3, <2>2 DEF Wake
  <2>4. QED  BY <1>2, <2>1, <2>3 DEF Keeps
<1>7. CASE PeerReset(fd)
  <2>1. PICK e, a : PeerStep(fd, [k EXCEPT !.rst = TRUE, !.snd = 0, !.peer = <<>>,
                                           !.err = e, !.armed = a])
    BY <1>7 DEF PeerReset
  <2>2. Keeps([k EXCEPT !.rst = TRUE, !.snd = 0, !.peer = <<>>, !.err = e, !.armed = a])
    BY <1>1 DEF Socket
  <2> HIDE DEF Keeps
  <2>3. QED  BY <1>2, <2>1, <2>2 DEF Keeps
<1>8. QED  BY <1>4, <1>5, <1>6, <1>7

-----------------------------------------------------------------------------
(* What a step does to one connection.                                     *)

ExitedAreClosed == pc \in Exits => \A fd \in Fds : ~kern[fd].open

(* Its peer may have moved; what the server wants of it is the same.       *)
Undisturbed(fd) ==
  /\ pc' \in Exits => pc \in Exits
  /\ \A s \in Servers : HasClient(s, fd)' <=> HasClient(s, fd)
  /\ \A s \in Servers : HasClient(s, fd) =>
       clients'[s][fd].write_buff = clients[s][fd].write_buff
  /\ kern'[fd].open = kern[fd].open /\ kern'[fd].interest = kern[fd].interest
  /\ kern[fd].fin => kern'[fd].fin
  /\ kern[fd].rst => kern'[fd].rst
  /\ kern'[fd].err # "none" => kern'[fd].rst \/ kern'[fd].err = kern[fd].err
  /\ events'[fd] \subseteq events[fd] \/ events'[fd] = Ready(kern[fd])

EndedWith(fd) ==
  /\ pc' \in Exits /\ kern'[fd] = ClosedSocket
  /\ \A s \in Servers : ~HasClient(s, fd)'

Swept(fd) ==
  /\ pc' \notin Exits
  /\ \E s \in Servers : HasClient(s, fd)
  /\ \A s \in Servers :
       /\ HasClient(s, fd)' <=> HasClient(s, fd)
       /\ HasClient(s, fd) => /\ clients'[s][fd].write_buff.status = "408"
                              /\ clients'[s][fd].write_buff.left = 1
  /\ kern'[fd].open = kern[fd].open /\ kern'[fd].interest = {"OUT"}
  /\ kern'[fd].fin = kern[fd].fin /\ kern'[fd].rst = kern[fd].rst
  /\ kern'[fd].err = kern[fd].err
  /\ events'[fd] = events[fd]

Accepted(fd) ==
  /\ pc' \notin Exits
  /\ ~kern[fd].open /\ kern'[fd].open /\ kern'[fd].interest = {"IN"}
  /\ ~kern'[fd].fin /\ ~kern'[fd].rst /\ kern'[fd].err = "none"
  /\ events'[fd] = {}
  /\ \A s \in Servers : /\ ~HasClient(s, fd)
                        /\ HasClient(s, fd)' => clients'[s][fd].write_buff = EmptyBuff

Served(fd) ==
  \E s \in Servers : \E h :
    /\ HasClient(s, fd) /\ pc' \notin Exits /\ Handled(s, fd, h)
    /\ \/ h \in GoneView /\ CloseHasCause(View(s, fd))
       \/ GoesOn(View(s, fd), h)

(* The loop's own steps and the clock leave connections undisturbed.       *)
LEMMA QuietEffect ==
  ASSUME IInv, NEW fd \in Fds,
         \/ EpollWait \/ Tick \/ signal_handler \/ UNCHANGED vars
         \/ \E s \in Servers : PeerConnect(s)
  PROVE  Undisturbed(fd)
<1>1. kern[fd] \in Socket
  BY DEF IInv, TypeOK
<1>2. CASE EpollWait
  <2>1. PICK C \in SUBSET Fds :
          /\ events' = [f \in Fds |-> IF f \in C THEN Ready(kern[f]) ELSE {}]
          /\ kern' = [f \in Fds |-> IF f \in C
                                    THEN [kern[f] EXCEPT !.armed = FALSE]
                                    ELSE kern[f]]
    BY <1>2 DEF EpollWait
  <2>2. kern'[fd] \in {kern[fd], [kern[fd] EXCEPT !.armed = FALSE]}
          /\ events'[fd] \in {{}, Ready(kern[fd])}
    BY <2>1
  <2>3. pc' = "sweep" /\ UNCHANGED clients
    BY <1>2 DEF EpollWait
  <2>4. QED  BY <1>1, <2>2, <2>3 DEF Undisturbed, HasClient, Socket, Exits
<1>3. CASE Tick
  <2>1. /\ UNCHANGED <<kern, events, pc>>
        /\ \A s \in Servers :
             clients'[s][fd] = IF HasClient(s, fd)
                               THEN [clients[s][fd] EXCEPT !.idle =
                                       Min2(clients[s][fd].idle + 1, timeout_seconds + 1)]
                               ELSE NoClient
    BY <1>3 DEF Tick
  <2>2. \A s \in Servers : HasClient(s, fd) => clients[s][fd] \in ClientData
    BY DEF IInv, TypeOK, HasClient
  <2>3. \A s \in Servers : HasClient(s, fd) =>
          clients'[s][fd].write_buff = clients[s][fd].write_buff
    BY <2>1, <2>2 DEF ClientData
  <2>4. \A s \in Servers : HasClient(s, fd) => clients'[s][fd] \in ClientData
    <3> TAKE s \in Servers
    <3> HAVE HasClient(s, fd)
    <3>1. clients[s][fd] \in ClientData
      BY <2>2
    <3>2. Min2(clients[s][fd].idle + 1, timeout_seconds + 1) \in 0 .. (timeout_seconds + 1)
      BY <3>1, BoundsAssumption DEF ClientData, Min2
    <3>3. QED  BY <2>1, <3>1, <3>2 DEF ClientData
  <2>5. \A s \in Servers : HasClient(s, fd)' <=> HasClient(s, fd)
    BY <2>1, <2>4, NoClientAssumption DEF HasClient
  <2>6. QED  BY <2>1, <2>3, <2>5 DEF Undisturbed
<1>4. CASE signal_handler
  BY <1>4 DEF signal_handler, Undisturbed, HasClient
<1>5. CASE UNCHANGED vars
  BY <1>5 DEF vars, Undisturbed, HasClient
<1>6. CASE \E s \in Servers : PeerConnect(s)
  BY <1>6 DEF PeerConnect, Undisturbed, HasClient
<1>7. QED  BY <1>2, <1>3, <1>4, <1>5, <1>6

(* The sweep times a connection out or leaves it alone.                    *)
LEMMA SweepEffect ==
  ASSUME IInv, NEW fd \in Fds, check_clients_timeout
  PROVE  Swept(fd) \/ Undisturbed(fd)
<1> DEFINE late == [status |-> "408", close |-> TRUE, page |-> FALSE, left |-> 1]
           k == epoll_ctl(kern[fd], {"OUT"})
<1>1. /\ \A s \in Servers :
           clients'[s][fd] = IF Expired(s, fd)
                             THEN [clients[s][fd] EXCEPT !.keep_alive = FALSE,
                                                         !.write_buff = late]
                             ELSE clients[s][fd]
      /\ kern'[fd] = IF \E s \in Servers : Expired(s, fd) THEN k ELSE kern[fd]
      /\ pc' = "handle" /\ UNCHANGED events
  BY DEF check_clients_timeout
<1>2. \A s \in Servers : HasClient(s, fd) => clients[s][fd] \in ClientData
  BY DEF IInv, TypeOK, HasClient
<1>3. kern[fd] \in Socket
  BY DEF IInv, TypeOK
<1>4. CASE \E s \in Servers : Expired(s, fd)
  <2>1. \A s \in Servers : HasClient(s, fd) <=> Expired(s, fd)
    BY <1>4 DEF IInv, SingleOwner, Expired
  <2>2. /\ k.open = kern[fd].open /\ k.interest = {"OUT"}
        /\ k.fin = kern[fd].fin /\ k.rst = kern[fd].rst /\ k.err = kern[fd].err
    BY <1>3, EpollCtlSetsMask, EpollCtlKeepsPeer
  <2>3. late \in Reply /\ late.status = "408" /\ late.left = 1
    BY DEF Reply, Errors, PageCodes
  <2> HIDE DEF k, late
  <2>4. \A s \in Servers : HasClient(s, fd) =>
          clients'[s][fd].write_buff = late /\ clients'[s][fd] \in ClientData
    BY <1>1, <1>2, <2>1, <2>3, ZenonT(30) DEF ClientData
  <2>5. \A s \in Servers : HasClient(s, fd)' <=> HasClient(s, fd)
    BY <1>1, <2>1, <2>4, NoClientAssumption DEF HasClient
  <2>6. kern'[fd] = k
    BY <1>1, <1>4
  <2>7. QED  BY <1>1, <1>4, <2>1, <2>2, <2>3, <2>4, <2>5, <2>6 DEF Swept, Exits
<1>5. CASE ~ \E s \in Servers : Expired(s, fd)
  BY <1>1, <1>5 DEF Undisturbed, HasClient, Exits
<1>6. QED  BY <1>4, <1>5

(* accept() gives a connection to a descriptor nobody owned, and listens.  *)
LEMMA AcceptEffect ==
  ASSUME IInv, NEW fd \in Fds, NEW s \in Servers, handle_new_connection(s)
  PROVE  Accepted(fd) \/ Undisturbed(fd)
<1> DEFINE fresh == [read_buff |-> <<>>, write_buff |-> EmptyBuff,
                     keep_alive |-> FALSE, idle |-> 0]
           opened == [ClosedSocket EXCEPT !.open = TRUE]
           k == epoll_ctl(opened, {"IN"})
<1>1. pc' = "handle" /\ UNCHANGED events
  BY DEF handle_new_connection
<1>2. CASE UNCHANGED <<clients, kern>>
  BY <1>1, <1>2 DEF Undisturbed, HasClient, Exits
<1>3. ASSUME NEW f \in Fds, ~kern[f].open, kern' = [kern EXCEPT ![f] = k],
             clients' = [clients EXCEPT ![s][f] = fresh]
      PROVE  Accepted(fd) \/ Undisturbed(fd)
  <2>1. CASE f = fd
    <3>1. opened \in Socket /\ opened.open = TRUE /\ opened.fin = FALSE
            /\ opened.rst = FALSE /\ opened.err = "none"
      BY ClosedSocketTyped DEF Socket, ClosedSocket
    <3>2. k.open = TRUE /\ k.interest = {"IN"} /\ k.fin = FALSE /\ k.rst = FALSE
            /\ k.err = "none"
      <4>1. {"IN"} \in SUBSET {"IN", "OUT"}
        OBVIOUS
      <4> HIDE DEF opened
      <4>2. QED  BY <3>1, <4>1, EpollCtlSetsMask, EpollCtlKeepsPeer
    <3>3. \A t \in Servers : ~HasClient(t, fd)
      BY <1>3, <2>1 DEF IInv, ConnectionsRest, Resting
    <3>4. events[fd] = {}
      BY <3>3 DEF IInv, UnownedAreClosed
    <3>5. \A t \in Servers : HasClient(t, fd)' => clients'[t][fd].write_buff = EmptyBuff
      <4> TAKE t \in Servers
      <4>1. CASE t = s
        BY <1>3, <2>1, <4>1 DEF IInv, TypeOK
      <4>2. CASE t # s
        BY <1>3, <2>1, <3>3, <4>2 DEF IInv, TypeOK, HasClient
      <4>3. QED  BY <4>1, <4>2
    <3> HIDE DEF k
    <3>6. kern'[fd] = k
      BY <1>3, <2>1 DEF IInv, TypeOK
    <3>7. QED  BY <1>1, <1>3, <2>1, <3>2, <3>3, <3>4, <3>5, <3>6 DEF Accepted, Exits
  <2>2. CASE f # fd
    <3>1. kern'[fd] = kern[fd] /\ \A t \in Servers : clients'[t][fd] = clients[t][fd]
      BY <1>3, <2>2 DEF IInv, TypeOK
    <3>2. QED  BY <1>1, <3>1 DEF Undisturbed, HasClient, Exits
  <2>3. QED  BY <2>1, <2>2
<1>4. QED  BY <1>2, <1>3 DEF handle_new_connection

(* An event disturbs its own connection only.                              *)
LEMMA ServeEffect ==
  ASSUME IInv, ConnectionsTold, NEW fd \in Fds, NEW f \in Fds, handle_client_event(f)
  PROVE  \/ \E s \in Servers : \E h :
              HasClient(s, f) /\ h.go \in Exits /\ Exit(h.go) /\ EndHasCause(s, View(s, f), h)
         \/ Undisturbed(fd) /\ UNCHANGED <<pc, stop>>
         \/ f = fd /\ Served(fd) /\ UNCHANGED <<pc, stop>>
<1>0. pc \notin Exits
  BY DEF handle_client_event, Exits
<1>1. CASE /\ events' = [events EXCEPT ![f] = {}]
           /\ UNCHANGED <<clients, kern, pc, stop>>
  <2>1. events'[fd] \subseteq events[fd]
    BY <1>1 DEF IInv, TypeOK
  <2>2. QED  BY <1>1, <2>1 DEF Undisturbed, HasClient
<1>2. ASSUME NEW s \in Servers, NEW h, HasClient(s, f), Handled(s, f, h),
             \/ h \in GoneView /\ CloseHasCause(View(s, f))
             \/ GoesOn(View(s, f), h)
      PROVE  \/ Undisturbed(fd) /\ UNCHANGED <<pc, stop>>
             \/ f = fd /\ Served(fd) /\ UNCHANGED <<pc, stop>>
  <2>1. UNCHANGED <<pc, stop>>
    BY <1>2 DEF Handled
  <2>2. CASE f = fd
    BY <1>0, <1>2, <2>1, <2>2 DEF Served
  <2>3. CASE f # fd
    <3>1. kern'[fd] = kern[fd] /\ events'[fd] = events[fd]
            /\ \A t \in Servers : clients'[t][fd] = clients[t][fd]
      BY <1>2, <2>3 DEF Handled, IInv, TypeOK
    <3>2. QED  BY <2>1, <3>1 DEF Undisturbed, HasClient
  <2>4. QED  BY <2>2, <2>3
<1>3. QED  BY <1>1, <1>2, ClientEventEffect

(* Every step does one of these five things to a connection.               *)
LEMMA StepEffect ==
  ASSUME IInv, ConnectionsTold, NEW fd \in Fds, [Next]_vars
  PROVE  EndedWith(fd) \/ Undisturbed(fd) \/ Swept(fd) \/ Accepted(fd) \/ Served(fd)
<1>1. ASSUME NEW how \in Exits, Exit(how)
      PROVE  EndedWith(fd)
  <2>1. pc' = how
    BY <1>1 DEF Exit
  <2>2. QED  BY <1>1, <2>1, ExitClosesAll DEF EndedWith
<1>2. CASE \/ EpollWait \/ Tick \/ signal_handler \/ UNCHANGED vars
           \/ \E s \in Servers : PeerConnect(s)
  BY <1>2, QuietEffect
<1>3. CASE Interrupted
  <2>1. Exit("stopped") /\ "stopped" \in Exits
    BY <1>3 DEF Interrupted, Exits
  <2>2. QED  BY <1>1, <2>1
<1>4. CASE check_clients_timeout
  BY <1>4, SweepEffect
<1>5. CASE \E s \in Servers : handle_new_connection(s)
  BY <1>5, AcceptEffect
<1>6. CASE \E f \in Fds : handle_client_event(f)
  BY <1>1, <1>6, ServeEffect
<1>7. CASE EndBatch
  <2>1. CASE stop
    <3>1. Exit("stopped") /\ "stopped" \in Exits
      BY <1>7, <2>1 DEF EndBatch, Exits
    <3>2. QED  BY <1>1, <3>1
  <2>2. CASE ~stop
    BY <1>7, <2>2 DEF EndBatch, Undisturbed, HasClient, Exits
  <2>3. QED  BY <2>1, <2>2
<1>8. CASE \E f \in Fds : \/ \E r \in Requests, n \in 1 .. RcvMax : PeerSend(f, r, n)
                          \/ PeerDrain(f) \/ PeerFin(f) \/ PeerReset(f)
  <2>1. PICK f \in Fds : \/ \E r \in Requests, n \in 1 .. RcvMax : PeerSend(f, r, n)
                         \/ PeerDrain(f) \/ PeerFin(f) \/ PeerReset(f)
    BY <1>8
  <2>2. /\ UNCHANGED <<clients, events, pc, stop>>
        /\ \A g \in Fds \ {f} : kern'[g] = kern[g]
        /\ kern'[f].open = kern[f].open /\ kern'[f].interest = kern[f].interest
        /\ kern[f].fin => kern'[f].fin
        /\ kern[f].rst => kern'[f].rst
        /\ kern'[f].err # "none" => kern'[f].rst \/ kern'[f].err = kern[f].err
    BY <2>1, PeerStepEffect
  <2>3. CASE f = fd
    BY <2>2, <2>3 DEF Undisturbed, HasClient
  <2>4. CASE f # fd
    BY <2>2, <2>4 DEF Undisturbed, HasClient
  <2>5. QED  BY <2>3, <2>4
<1>9. QED
  BY <1>2, <1>3, <1>4, <1>5, <1>6, <1>7, <1>8 DEF Next, LoopStep, Environment

-----------------------------------------------------------------------------
(* The invariant, and what follows of every step.                          *)

JInv == ConnectionsTold /\ StoppedWasAsked /\ ExitedAreClosed

(* A connection that is served keeps what is told of it.                   *)
LEMMA ServedTells ==
  ASSUME IInv, ConnectionsTold, NEW fd \in Fds, Served(fd),
         NEW t \in Servers, HasClient(t, fd)'
  PROVE  Told(clients'[t][fd], kern'[fd], events'[fd])
<1>1. PICK s \in Servers : \E h :
        /\ HasClient(s, fd) /\ Handled(s, fd, h)
        /\ h \in GoneView \/ GoesOn(View(s, fd), h)
  BY DEF Served
<1>2. PICK h : /\ HasClient(s, fd) /\ Handled(s, fd, h)
               /\ h \in GoneView \/ GoesOn(View(s, fd), h)
  BY <1>1
<1> DEFINE v == View(s, fd)
<1>3. t = s
  <2>1. CASE t # s
    <3>1. clients'[t][fd] = clients[t][fd]
      BY <1>2, <2>1 DEF Handled, IInv, TypeOK
    <3>2. QED  BY <1>2, <3>1 DEF HasClient, IInv, SingleOwner
  <2>2. QED  BY <2>1
<1>4. clients'[t][fd] = h.c /\ kern'[fd] = h.k /\ events'[fd] = {}
  BY <1>2, <1>3 DEF Handled, IInv, TypeOK
<1>5. GoesOn(v, h)
  BY <1>2, <1>4 DEF GoneView, HasClient
<1>6. /\ v.k = kern[fd] /\ v.c.write_buff = clients[s][fd].write_buff
      /\ v \in LiveView
  BY <1>2, ViewIsLive
<1>7. Told(clients[s][fd], kern[fd], events[fd])
  BY <1>2 DEF ConnectionsTold
<1>8. /\ v.k.err # "none" => v.k.rst
      /\ "IN" \notin v.k.interest => v.c.write_buff.status \in Errors
      /\ v.c.write_buff.left > 0 => v.c.write_buff.status # "none"
      /\ v.c.write_buff.left \in Nat
  BY <1>6, <1>7 DEF Told, LiveView, ClientData, Reply
<1>9. kern[fd].interest # {} /\ kern[fd].interest \subseteq {"IN", "OUT"}
        /\ ("OUT" \in kern[fd].interest => clients[s][fd].write_buff.left > 0)
  BY <1>2 DEF IInv, TypeOK, Socket, ConnectionsRest, Resting
<1> HIDE DEF v
<1>10. (h.k.err # "none" => h.k.rst) /\ h.c.write_buff.left \in Nat
  BY <1>5, <1>8 DEF GoesOn, SamePeer, LiveView, ClientData, Reply
<1>11. /\ "IN" \notin h.k.interest => h.c.write_buff.status \in Errors
       /\ h.c.write_buff.left > 0 => h.c.write_buff.status # "none"
  <2>1. CASE Unmoved(v, h)
    BY <1>8, <2>1 DEF Unmoved
  <2>2. CASE Sent(v, h)
    BY <1>6, <1>8, <1>9, <1>10, <2>2 DEF Sent
  <2>3. CASE Replied(v, h)
    BY <1>8, <1>10, <2>3 DEF Replied
  <2>4. CASE Refused(v, h)
    BY <2>4 DEF Refused, Holds, Errors, PageCodes
  <2>5. QED  BY <1>5, <2>1, <2>2, <2>3, <2>4 DEF GoesOn
<1>12. QED  BY <1>4, <1>10, <1>11 DEF Told

(* Every step keeps what is told of every connection.                      *)
LEMMA StepTells ==
  ASSUME IInv, ConnectionsTold, [Next]_vars
  PROVE  ConnectionsTold'
<1> SUFFICES ASSUME NEW s \in Servers, NEW fd \in Fds, HasClient(s, fd)'
             PROVE  Told(clients'[s][fd], kern'[fd], events'[fd])
  BY DEF ConnectionsTold
<1>1. CASE EndedWith(fd)
  BY <1>1 DEF EndedWith
<1>2. CASE Undisturbed(fd)
  <2>1. HasClient(s, fd) /\ clients'[s][fd].write_buff = clients[s][fd].write_buff
    BY <1>2 DEF Undisturbed
  <2>2. Told(clients[s][fd], kern[fd], events[fd])
    BY <2>1 DEF ConnectionsTold
  <2>3. "OUT" \in kern[fd].interest => clients[s][fd].write_buff.left > 0
    BY <2>1 DEF IInv, ConnectionsRest, Resting
  <2>4. /\ "OUT" \in Ready(kern[fd]) => "OUT" \in kern[fd].interest
        /\ "HUP" \in Ready(kern[fd]) => kern[fd].rst
        /\ "ERR" \in Ready(kern[fd]) => kern[fd].err # "none"
    BY DEF Ready, Flags
  <2>5. /\ "OUT" \in events'[fd] => clients'[s][fd].write_buff.left > 0
        /\ events'[fd] \cap {"ERR", "HUP"} # {} => kern'[fd].rst
    <3>1. CASE events'[fd] \subseteq events[fd]
      BY <1>2, <2>1, <2>2, <3>1 DEF Undisturbed, Told
    <3>2. CASE events'[fd] = Ready(kern[fd])
      BY <1>2, <2>1, <2>2, <2>3, <2>4, <3>2 DEF Undisturbed, Told
    <3>3. QED  BY <1>2, <3>1, <3>2 DEF Undisturbed
  <2>6. QED  BY <1>2, <2>1, <2>2, <2>5 DEF Undisturbed, Told
<1>3. CASE Swept(fd)
  <2>1. HasClient(s, fd) /\ clients'[s][fd].write_buff.status = "408"
          /\ clients'[s][fd].write_buff.left = 1
    BY <1>3 DEF Swept
  <2>2. Told(clients[s][fd], kern[fd], events[fd])
    BY <2>1 DEF ConnectionsTold
  <2>3. QED  BY <1>3, <2>1, <2>2 DEF Swept, Told, Errors, PageCodes
<1>4. CASE Accepted(fd)
  <2>1. clients'[s][fd].write_buff = EmptyBuff
    BY <1>4 DEF Accepted
  <2>2. QED  BY <1>4, <2>1 DEF Accepted, Told, EmptyBuff
<1>5. CASE Served(fd)
  BY <1>5, ServedTells
<1>6. QED  BY <1>1, <1>2, <1>3, <1>4, <1>5, StepEffect

(* How the process may end: asked for by a signal, or in a handler.        *)
LEMMA ExitEffect ==
  ASSUME IInv, ConnectionsTold, [Next]_vars, pc' \in Exits, pc' # pc
  PROVE  \/ pc' = "stopped" /\ stop /\ stop'
         \/ \E s \in Servers, fd \in Fds : \E h :
              HasClient(s, fd) /\ h.go = pc' /\ EndHasCause(s, View(s, fd), h)
<1>1. CASE \/ EpollWait \/ check_clients_timeout \/ Tick \/ signal_handler \/ UNCHANGED vars
           \/ (EndBatch /\ ~stop)
           \/ \E s \in Servers : PeerConnect(s) \/ handle_new_connection(s)
  BY <1>1 DEF EpollWait, check_clients_timeout, Tick, signal_handler, vars, EndBatch,
              PeerConnect, handle_new_connection, Exits
<1>2. CASE Interrupted \/ (EndBatch /\ stop)
  BY <1>2 DEF Interrupted, EndBatch, Exit
<1>3. CASE \E fd \in Fds : handle_client_event(fd)
  <2>1. PICK fd \in Fds : handle_client_event(fd)
    BY <1>3
  <2>2. \E s \in Servers : \E h :
          HasClient(s, fd) /\ Exit(h.go) /\ EndHasCause(s, View(s, fd), h)
    BY <2>1, ServeEffect
  <2>3. \A how : Exit(how) => pc' = how
    BY DEF Exit
  <2>4. QED  BY <2>2, <2>3
<1>4. CASE \E fd \in Fds : \/ \E r \in Requests, n \in 1 .. RcvMax : PeerSend(fd, r, n)
                           \/ PeerDrain(fd) \/ PeerFin(fd) \/ PeerReset(fd)
  BY <1>4, PeerStepEffect
<1>5. QED  BY <1>1, <1>2, <1>3, <1>4 DEF Next, LoopStep, Environment

(* A request to stop is never taken back.                                  *)
LEMMA StopStays ==
  ASSUME IInv, ConnectionsTold, [Next]_vars
  PROVE  stop => stop'
<1>1. ASSUME NEW how, Exit(how)
      PROVE  stop' = stop
  BY <1>1 DEF Exit
<1>2. CASE \/ EpollWait \/ check_clients_timeout \/ Tick \/ signal_handler \/ UNCHANGED vars
           \/ Interrupted \/ EndBatch
           \/ \E s \in Servers : PeerConnect(s) \/ handle_new_connection(s)
  BY <1>1, <1>2 DEF EpollWait, check_clients_timeout, Tick, signal_handler, vars,
              Interrupted, EndBatch, PeerConnect, handle_new_connection
<1>3. CASE \E fd \in Fds : handle_client_event(fd)
  BY <1>1, <1>3, ServeEffect
<1>4. CASE \E fd \in Fds : \/ \E r \in Requests, n \in 1 .. RcvMax : PeerSend(fd, r, n)
                           \/ PeerDrain(fd) \/ PeerFin(fd) \/ PeerReset(fd)
  BY <1>4, PeerStepEffect
<1>5. QED  BY <1>2, <1>3, <1>4 DEF Next, LoopStep, Environment

(* JInv is an invariant of the specification.                              *)
THEOREM SecondInvariance == Spec => []JInv
<1>1. Init => JInv
  BY DEF Init, JInv, ConnectionsTold, StoppedWasAsked, ExitedAreClosed, HasClient,
         Exits, ClosedSocket
<1>2. IInv /\ JInv /\ [Next]_vars => JInv'
  <2> SUFFICES ASSUME IInv, JInv, [Next]_vars PROVE JInv'
    OBVIOUS
  <2>1. ConnectionsTold'
    BY StepTells DEF JInv
  <2>2. ExitedAreClosed'
    <3> SUFFICES ASSUME NEW fd \in Fds, pc' \in Exits PROVE ~kern'[fd].open
      BY DEF ExitedAreClosed
    <3>1. EndedWith(fd) \/ Undisturbed(fd)
      BY StepEffect DEF JInv, Swept, Accepted, Served
    <3>2. QED  BY <3>1 DEF EndedWith, Undisturbed, ClosedSocket, JInv, ExitedAreClosed
  <2>3. StoppedWasAsked'
    <3>1. stop => stop'
      BY StopStays DEF JInv
    <3>2. pc' = "stopped" /\ pc # "stopped" => stop'
      BY ExitEffect DEF JInv, EndHasCause, Exits
    <3>3. QED  BY <3>1, <3>2 DEF JInv, StoppedWasAsked
  <2>4. QED  BY <2>1, <2>2, <2>3 DEF JInv
<1>3. QED  BY <1>1, <1>2, Invariance, PTL DEF Spec

-----------------------------------------------------------------------------
(* What follows.                                                           *)

(* What a view finds waiting is what its connection holds.                 *)
LEMMA WaitingIsUnanswered ==
  ASSUME IInv, NEW s \in Servers, NEW fd \in Fds, HasClient(s, fd)
  PROVE  Waiting(View(s, fd)) = Unanswered(s, fd)
BY ViewIsLive DEF Waiting, Unanswered

(* Only a signal, a pipe or connection without a reader, or an error page  *)
(* that cannot be opened ends the process.                                 *)
THEOREM OnlyThreeExits == Spec => ExitsHaveCause
<1> DEFINE A == /\ pc' = "stopped" => stop
                /\ Running /\ pc' = "killed" =>
                     \E fd \in Fds :
                       \/ kern[fd].rst
                       \/ \E s \in Servers : HasClient(s, fd) /\
                            \E i \in DOMAIN Unanswered(s, fd) :
                              PostsToScript(Unanswered(s, fd)[i].req)
                /\ Running /\ pc' = "crashed" =>
                     \E s \in Servers, fd \in Fds, code \in PageCodes :
                       /\ HasClient(s, fd) /\ PageOf(s, code) = "unreadable"
                       /\ \/ code = "405"
                          \/ \E i \in DOMAIN Unanswered(s, fd) :
                               Unanswered(s, fd)[i].req.outcome = code
<1>1. IInv /\ JInv /\ [Next]_vars => A
  <2> SUFFICES ASSUME IInv, JInv, [Next]_vars PROVE A
    OBVIOUS
  <2>1. ASSUME pc' = "stopped"
        PROVE  stop
    <3>1. CASE pc = "stopped"
      BY <3>1 DEF JInv, StoppedWasAsked
    <3>2. CASE pc # "stopped"
      BY <2>1, <3>2, ExitEffect DEF JInv, EndHasCause, Exits
    <3>3. QED  BY <3>1, <3>2
  <2>2. ASSUME Running, pc' \in {"killed", "crashed"}
        PROVE  \E s \in Servers, fd \in Fds : \E h :
                 HasClient(s, fd) /\ h.go = pc' /\ EndHasCause(s, View(s, fd), h)
    BY <2>2, ExitEffect DEF JInv, Running, Exits
  <2>3. ASSUME Running, pc' = "killed"
        PROVE  \E fd \in Fds :
                 \/ kern[fd].rst
                 \/ \E s \in Servers : HasClient(s, fd) /\
                      \E i \in DOMAIN Unanswered(s, fd) :
                        PostsToScript(Unanswered(s, fd)[i].req)
    <3>1. PICK s \in Servers, fd \in Fds : \E h :
            HasClient(s, fd) /\ h.go = pc' /\ EndHasCause(s, View(s, fd), h)
      BY <2>2, <2>3
    <3>2. View(s, fd).k.rst \/ AsksScript(View(s, fd))
      BY <2>3, <3>1 DEF EndHasCause
    <3>3. View(s, fd).k = kern[fd] /\ Waiting(View(s, fd)) = Unanswered(s, fd)
      BY <3>1, ViewIsLive, WaitingIsUnanswered
    <3>4. QED  BY <3>1, <3>2, <3>3 DEF AsksScript
  <2>4. ASSUME Running, pc' = "crashed"
        PROVE  \E s \in Servers, fd \in Fds, code \in PageCodes :
                 /\ HasClient(s, fd) /\ PageOf(s, code) = "unreadable"
                 /\ \/ code = "405"
                    \/ \E i \in DOMAIN Unanswered(s, fd) :
                         Unanswered(s, fd)[i].req.outcome = code
    <3>1. PICK s \in Servers, fd \in Fds : \E h :
            HasClient(s, fd) /\ h.go = pc' /\ EndHasCause(s, View(s, fd), h)
      BY <2>2, <2>4
    <3>2. Waiting(View(s, fd)) = Unanswered(s, fd)
      BY <3>1, WaitingIsUnanswered
    <3>3. QED  BY <2>4, <3>1, <3>2 DEF EndHasCause
  <2>5. QED  BY <2>1, <2>3, <2>4
<1>2. QED  BY <1>1, Invariance, SecondInvariance, PTL DEF Spec, ExitsHaveCause

(* A reply under way is cut only by an error, a return directive or a      *)
(* script's output, whatever is sent behind what.                          *)
THEOREM RepliesNotCut == Spec => ReplyNotCut
<1> DEFINE B(s, fd) ==
             LET old == clients[s][fd].write_buff
                 new == clients'[s][fd].write_buff
             IN  /\ Pending(s, fd)
                 /\ HasClient(s, fd)'
                 /\ new.status \notin Errors
                 /\ new.left > old.left \/ (new.left > 0 /\ new.status # old.status)
                 => \E i \in DOMAIN Unanswered(s, fd) :
                      Replaces(Unanswered(s, fd)[i].req)
<1>1. IInv /\ JInv /\ [Next]_vars => \A s \in Servers, fd \in Fds : B(s, fd)
  <2> DEFINE old(s, fd) == clients[s][fd].write_buff
             new(s, fd) == clients'[s][fd].write_buff
  <2> SUFFICES ASSUME IInv, JInv, [Next]_vars, NEW s \in Servers, NEW fd \in Fds,
                      Pending(s, fd), HasClient(s, fd)',
                      new(s, fd).status \notin Errors,
                      \/ new(s, fd).left > old(s, fd).left
                      \/ new(s, fd).left > 0 /\ new(s, fd).status # old(s, fd).status
               PROVE  \E i \in DOMAIN Unanswered(s, fd) :
                        Replaces(Unanswered(s, fd)[i].req)
    OBVIOUS
  <2>1. HasClient(s, fd) /\ old(s, fd).left > 0 /\ old(s, fd).left \in Nat
    BY DEF Pending, HasClient, IInv, TypeOK, ClientData, Reply
  <2>2. Served(fd)
    <3>1. ~Undisturbed(fd)
      BY <2>1 DEF Undisturbed
    <3>2. ~EndedWith(fd) /\ ~Swept(fd) /\ ~Accepted(fd)
      BY <2>1 DEF EndedWith, Swept, Accepted, Errors, PageCodes
    <3>3. QED  BY <3>1, <3>2, StepEffect DEF JInv
  <2>3. PICK t \in Servers : \E h :
          /\ HasClient(t, fd) /\ Handled(t, fd, h)
          /\ h \in GoneView \/ GoesOn(View(t, fd), h)
    BY <2>2 DEF Served
  <2>4. PICK h : /\ Handled(t, fd, h)
                 /\ h \in GoneView \/ GoesOn(View(t, fd), h)
    BY <2>3
  <2>5. t = s
    BY <2>1, <2>3 DEF IInv, SingleOwner
  <2>6. clients'[s][fd] = h.c
    BY <2>4, <2>5 DEF Handled, IInv, TypeOK
  <2>7. GoesOn(View(s, fd), h)
    BY <2>4, <2>5, <2>6 DEF GoneView, HasClient
  <2>8. View(s, fd).c.write_buff = old(s, fd)
    BY <2>1, ViewIsLive
  <2>9. AsksOver(View(s, fd))
    BY <2>1, <2>6, <2>7, <2>8 DEF GoesOn, Overwritten
  <2>10. QED  BY <2>1, <2>9, WaitingIsUnanswered DEF AsksOver
<1>2. QED  BY <1>1, Invariance, SecondInvariance, PTL DEF Spec, ReplyNotCut
=============================================================================
