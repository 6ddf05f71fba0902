------------------------- MODULE LoopConnection_proofs -------------------------
(***************************************************************************)
(* EventLoop implements Connection: every step of the loop or of a peer is *)
(* a step, or a stutter, of the connection on any one descriptor.          *)
(***************************************************************************)
EXTENDS LoopConnection, Handlers_proofs

-----------------------------------------------------------------------------
(* The mapping.                                                            *)

(* A descriptor's phase, buffer and reply are those of its owner's client. *)
LEMMA MapsOwner ==
  ASSUME IInv, NEW s \in Servers, NEW fd \in Fds, HasClient(s, fd)
  PROVE  /\ kern[fd].open
         /\ PhaseOf(fd) = IF "IN" \in kern[fd].interest THEN "open" ELSE "ending"
         /\ BuffOf(fd) = clients[s][fd].write_buff
         /\ ReplyOf(fd) = ReplyIn(clients[s][fd].write_buff)
<1>1. kern[fd].open
  BY DEF IInv, ConnectionsRest, Resting
<1>2. Owner(fd) = s
  BY DEF Owner, IInv, SingleOwner
<1>3. BuffOf(fd) = clients[s][fd].write_buff
  BY <1>1, <1>2 DEF BuffOf
<1>4. PhaseOf(fd) = IF "IN" \in kern[fd].interest THEN "open" ELSE "ending"
  BY <1>1 DEF PhaseOf
<1>5. ReplyOf(fd) = ReplyIn(BuffOf(fd))
  BY DEF ReplyOf
<1>6. QED  BY <1>1, <1>3, <1>4, <1>5

(* The same in the state a step leads to.                                  *)
LEMMA MapsOwnerNext ==
  ASSUME IInv', NEW s \in Servers, NEW fd \in Fds, HasClient(s, fd)'
  PROVE  /\ kern'[fd].open
         /\ PhaseOf(fd)' = IF "IN" \in kern'[fd].interest THEN "open" ELSE "ending"
         /\ BuffOf(fd)' = clients'[s][fd].write_buff
         /\ ReplyOf(fd)' = ReplyIn(clients'[s][fd].write_buff)
<1>1. kern'[fd].open
  BY DEF IInv, ConnectionsRest, Resting
<1>2. Owner(fd)' = s
  BY DEF Owner, IInv, SingleOwner
<1>3. BuffOf(fd)' = clients'[s][fd].write_buff
  BY <1>1, <1>2 DEF BuffOf
<1>4. PhaseOf(fd)' = IF "IN" \in kern'[fd].interest THEN "open" ELSE "ending"
  BY <1>1 DEF PhaseOf
<1>5. ReplyOf(fd)' = ReplyIn(BuffOf(fd)')
  BY DEF ReplyOf, ReplyIn
<1>6. QED  BY <1>1, <1>3, <1>4, <1>5

(* A closed descriptor has no connection, an open one has an owner.        *)
LEMMA MapsAbsent ==
  ASSUME NEW fd \in Fds
  PROVE  /\ PhaseOf(fd) = "absent" <=> ~kern[fd].open
         /\ PhaseOf(fd)' = "absent" <=> ~kern'[fd].open
         /\ IInv /\ kern[fd].open => \E s \in Servers : HasClient(s, fd)
         /\ IInv' /\ kern'[fd].open => \E s \in Servers : HasClient(s, fd)'
BY DEF PhaseOf, IInv, UnownedAreClosed, ClosedSocket

-----------------------------------------------------------------------------
(* The steps.                                                              *)

(* A step that leaves the connection undisturbed is one of its peer.       *)
LEMMA UndisturbedMaps ==
  ASSUME IInv, IInv', JInv, Undisturbed(Watched)
  PROVE  Conn!Next
<1> USE WatchedAssumption
<1>1. CASE ~kern[Watched].open
  <2>1. ~kern'[Watched].open
    BY <1>1 DEF Undisturbed
  <2>2. QED  BY <1>1, <2>1, MapsAbsent DEF Conn!Next, Conn!Absent
<1>2. CASE kern[Watched].open
  <2>1. PICK s \in Servers : HasClient(s, Watched)
    BY <1>2, MapsAbsent
  <2>2. HasClient(s, Watched)' /\ clients'[s][Watched].write_buff = clients[s][Watched].write_buff
    BY <2>1 DEF Undisturbed
  <2>3. /\ PhaseOf(Watched)' = PhaseOf(Watched)
        /\ BuffOf(Watched)' = BuffOf(Watched)
        /\ ReplyOf(Watched)' = ReplyOf(Watched)
    BY <2>1, <2>2, MapsOwner, MapsOwnerNext DEF Undisturbed
  <2>4. Running'
    BY <1>2 DEF Undisturbed, Running, JInv, ExitedAreClosed
  <2>5. (kern[Watched].fin \/ kern[Watched].rst) => (kern[Watched].fin \/ kern[Watched].rst)'
    BY DEF Undisturbed
  <2>6. Conn!Peer
    BY <2>3, <2>4, <2>5 DEF Conn!Peer
  <2>7. QED  BY <2>6 DEF Conn!Next
<1>3. QED  BY <1>1, <1>2

(* The process ends: no connection is left.                                *)
LEMMA EndedWithMaps ==
  ASSUME EndedWith(Watched)
  PROVE  Conn!Next
<1> USE WatchedAssumption
<1>1. PhaseOf(Watched)' = "absent" /\ ~Running'
  BY DEF EndedWith, PhaseOf, ClosedSocket, Running
<1>2. QED  BY <1>1 DEF Conn!Next, Conn!Absent, Conn!Close

(* The sweep refuses the connection with its 408.                          *)
LEMMA SweptMaps ==
  ASSUME IInv, IInv', Swept(Watched)
  PROVE  Conn!Next
<1> USE WatchedAssumption
<1>1. PICK s \in Servers : HasClient(s, Watched)
  BY DEF Swept
<1>2. /\ HasClient(s, Watched)'
      /\ clients'[s][Watched].write_buff.status = "408"
      /\ clients'[s][Watched].write_buff.left = 1
  BY <1>1 DEF Swept
<1>3. PhaseOf(Watched) # "absent"
  BY <1>1, MapsOwner
<1>4. /\ PhaseOf(Watched)' = "ending"
      /\ BuffOf(Watched)'.left = 1
      /\ ReplyOf(Watched)' = "408"
  BY <1>2, MapsOwnerNext DEF Swept, ReplyIn
<1>5. /\ UNCHANGED (kern[Watched].fin \/ kern[Watched].rst)
      /\ Running'
  BY DEF Swept, Running
<1>6. Conn!Refuse
  BY <1>3, <1>4, <1>5 DEF Conn!Refuse, Conn!Heard
<1>7. QED  BY <1>6 DEF Conn!Next

(* accept() opens the connection.                                          *)
LEMMA AcceptedMaps ==
  ASSUME IInv, IInv', Accepted(Watched)
  PROVE  Conn!Next
<1> USE WatchedAssumption
<1>1. PICK s \in Servers : HasClient(s, Watched)'
  BY MapsAbsent DEF Accepted
<1>2. clients'[s][Watched].write_buff.left = 0
  BY <1>1 DEF Accepted, EmptyBuff
<1>3. PhaseOf(Watched) = "absent" /\ PhaseOf(Watched)' = "open"
  BY <1>1, MapsOwnerNext DEF Accepted, PhaseOf
<1>4. ReplyOf(Watched)' = "none"
  BY <1>1, <1>2, MapsOwnerNext DEF ReplyIn
<1>5. ~(kern[Watched].fin \/ kern[Watched].rst)' /\ Running'
  BY DEF Accepted, Running
<1>6. Conn!Accept
  BY <1>3, <1>4, <1>5 DEF Conn!Accept
<1>7. QED  BY <1>6 DEF Conn!Next

(* A handler closes for a cause the peer can see.                          *)
LEMMA ClosedMaps ==
  ASSUME IInv, IInv', JInv, NEW s \in Servers, HasClient(s, Watched),
         CloseHasCause(View(s, Watched)), ~kern'[Watched].open
  PROVE  Conn!Next
<1> USE WatchedAssumption
<1> DEFINE v == View(s, Watched)
<1>1. /\ PhaseOf(Watched) = IF "IN" \in kern[Watched].interest THEN "open" ELSE "ending"
      /\ BuffOf(Watched) = clients[s][Watched].write_buff
      /\ ReplyOf(Watched) = ReplyIn(clients[s][Watched].write_buff)
  BY MapsOwner
<1>2. /\ v.k = kern[Watched] /\ v.c.write_buff = clients[s][Watched].write_buff
      /\ Waiting(v) = Unanswered(s, Watched)
  BY ViewIsLive, WaitingIsUnanswered
<1> HIDE DEF v
<1>3. CloseHasCause(v)
  BY DEF v
<1>4. Heard(v) => PhaseOf(Watched) = "open" \/ ReplyOf(Watched) = "408"
  BY <1>1, <1>2 DEF Heard, ReplyIn
<1>5. (\E i \in DOMAIN Waiting(v) : Waiting(v)[i].req.outcome = "504")
        => LeadsToSlowScript(Watched)
  BY <1>2 DEF LeadsToSlowScript
<1>6. AsksOver(v) => SendsCuttingRequest(Watched)
  BY <1>2 DEF AsksOver, SendsCuttingRequest
<1>7. PhaseOf(Watched) # "absent" /\ PhaseOf(Watched)' = "absent"
  BY <1>1, MapsAbsent
<1>8. \/ 0 < BuffOf(Watched).left /\ BuffOf(Watched).left <= SndMax - kern[Watched].snd
      \/ /\ 0 < BuffOf(Watched).left /\ SendsCuttingRequest(Watched)
         /\ PhaseOf(Watched) = "open" \/ ReplyOf(Watched) = "408"
         /\ \E n \in {1, BodyLen} : n <= SndMax - kern[Watched].snd
      \/ kern[Watched].fin \/ kern[Watched].rst
      \/ /\ PhaseOf(Watched) = "open" \/ ReplyOf(Watched) = "408"
         /\ LeadsToSlowScript(Watched)
  <2>1. BuffOf(Watched).left \in Nat
    BY <1>1 DEF IInv, TypeOK, HasClient, ClientData, Reply
  <2>2. QED  BY <1>1, <1>2, <1>3, <1>4, <1>5, <1>6, <2>1 DEF CloseHasCause
<1>9. Conn!Close
  BY <1>7, <1>8 DEF Conn!Close, Conn!Heard
<1>10. QED  BY <1>9 DEF Conn!Next

(* A handler lets the connection go on: it sends, answers or refuses.      *)
LEMMA GoesOnMaps ==
  ASSUME IInv, IInv', JInv, NEW s \in Servers, HasClient(s, Watched),
         NEW h, GoesOn(View(s, Watched), h), HasClient(s, Watched)',
         clients'[s][Watched] = h.c, kern'[Watched] = h.k, Running'
  PROVE  Conn!Next
<1> USE WatchedAssumption
<1> DEFINE v == View(s, Watched)
           b == clients[s][Watched].write_buff
           k == kern[Watched]
<1>1. /\ PhaseOf(Watched) = IF "IN" \in k.interest THEN "open" ELSE "ending"
      /\ BuffOf(Watched) = b
      /\ ReplyOf(Watched) = ReplyIn(b)
  BY MapsOwner
<1>2. /\ PhaseOf(Watched)' = IF "IN" \in h.k.interest THEN "open" ELSE "ending"
      /\ BuffOf(Watched)' = h.c.write_buff
      /\ ReplyOf(Watched)' = ReplyIn(h.c.write_buff)
  BY MapsOwnerNext
<1>3. v.k = k /\ v.c.write_buff = b
  BY ViewIsLive
<1>4. /\ b.left \in Nat
      /\ b.left > 0 => b.status # "none"
      /\ b.left > 0 /\ b.status \in Errors \ {"408"} => k.interest = {"OUT"}
      /\ b.status \in {"none", "200", "302"} \cup Errors
  BY SMTT(30) DEF IInv, TypeOK, HasClient, ClientData, Reply, ConnectionsRest, Resting,
         JInv, ConnectionsTold, Told
<1> HIDE DEF v, b, k
<1>5. GoesOn(v, h)
  BY DEF v
<1>6. h.c.write_buff.left \in Nat
  BY <1>5 DEF GoesOn, LiveView, ClientData, Reply
<1>7. UNCHANGED (kern[Watched].fin \/ kern[Watched].rst)
  BY <1>3, <1>5 DEF GoesOn, SamePeer, k
<1>8. Heard(v) => PhaseOf(Watched) = "open" \/ ReplyOf(Watched) = "408"
  BY <1>1, <1>3 DEF Heard, ReplyIn
<1>9. AsksOver(v) => SendsCuttingRequest(Watched)
  <2>1. Waiting(v) = Unanswered(s, Watched)
    BY ViewIsLive, WaitingIsUnanswered DEF v
  <2>2. QED  BY <2>1 DEF AsksOver, SendsCuttingRequest
<1>10. CASE Unmoved(v, h)
  <2>1. Conn!Peer
    BY <1>1, <1>2, <1>3, <1>7, <1>10 DEF Unmoved, Conn!Peer
  <2>2. QED  BY <2>1 DEF Conn!Next
<1>11. CASE Sent(v, h) /\ ~Unmoved(v, h)
  <2>1. CASE h.c.write_buff.left = b.left
    <3>1. /\ PhaseOf(Watched)' = PhaseOf(Watched)
          /\ BuffOf(Watched)'.left = BuffOf(Watched).left
          /\ ReplyOf(Watched)' = ReplyOf(Watched)
      BY <1>1, <1>2, <1>3, <1>11, <2>1 DEF Sent, ReplyIn
    <3>2. Conn!Peer
      BY <1>7, <3>1 DEF Conn!Peer
    <3>3. QED  BY <3>2 DEF Conn!Next
  <2>2. CASE h.c.write_buff.left # b.left
    <3>1. /\ PhaseOf(Watched) # "absent"
          /\ PhaseOf(Watched)' = PhaseOf(Watched)
          /\ BuffOf(Watched)'.left < BuffOf(Watched).left
          /\ PhaseOf(Watched) = "ending" => BuffOf(Watched)'.left > 0
          /\ ReplyOf(Watched)' = IF BuffOf(Watched)'.left = 0 THEN "none"
                                                            ELSE ReplyOf(Watched)
      BY <1>1, <1>2, <1>3, <1>4, <1>6, <1>11, <2>2 DEF Sent, ReplyIn
    <3>2. Conn!Send
      BY <1>7, <3>1 DEF Conn!Send
    <3>3. QED  BY <3>2 DEF Conn!Next
  <2>3. QED  BY <2>1, <2>2
<1>12. CASE Replied(v, h)
  <2>1. PhaseOf(Watched)' = "open"
    BY <1>2, <1>12 DEF Replied
  <2>2. \/ /\ BuffOf(Watched).left = 0 \/ SendsCuttingRequest(Watched)
           /\ \E n \in {1, BodyLen} : BuffOf(Watched)'.left \in 0 .. n
           /\ ReplyOf(Watched)' = IF BuffOf(Watched)'.left = 0 THEN "none" ELSE "answer"
        \/ /\ BuffOf(Watched)'.left <= BuffOf(Watched).left
           /\ ReplyOf(Watched)' = IF BuffOf(Watched)'.left = 0 THEN "none"
                                                              ELSE ReplyOf(Watched)
    <3>1. CASE /\ v.c.write_buff.left = 0 \/ AsksOver(v)
               /\ h.c.write_buff.left = 0 \/ h.c.write_buff.status \in {"200", "302"}
               /\ \E n \in {1, BodyLen} : h.c.write_buff.left <= n
      <4>1. BuffOf(Watched).left = 0 \/ SendsCuttingRequest(Watched)
        BY <1>1, <1>3, <1>9, <3>1
      <4>2. \E n \in {1, BodyLen} : BuffOf(Watched)'.left \in 0 .. n
        BY <1>2, <1>6, <3>1, BoundsAssumption
      <4>3. ReplyOf(Watched)' = IF BuffOf(Watched)'.left = 0 THEN "none" ELSE "answer"
        BY <1>2, <3>1 DEF ReplyIn
      <4>4. QED  BY <4>1, <4>2, <4>3
    <3>2. CASE /\ h.c.write_buff.left <= v.c.write_buff.left
               /\ h.c.write_buff.left > 0 => h.c.write_buff.status = v.c.write_buff.status
      BY <1>1, <1>2, <1>3, <1>4, <1>6, <3>2 DEF ReplyIn
    <3>3. QED  BY <1>12, <3>1, <3>2 DEF Replied
  <2>3. PhaseOf(Watched) = "open" \/ ReplyOf(Watched) = "408"
    BY <1>8, <1>12 DEF Replied
  <2>4. Conn!Answer
    BY <1>7, <2>1, <2>2, <2>3 DEF Conn!Answer, Conn!Heard
  <2>5. QED  BY <2>4 DEF Conn!Next
<1>13. CASE Heard(v) /\ Refused(v, h)
  <2>1. PhaseOf(Watched)' = "ending" /\ PhaseOf(Watched) # "absent"
    BY <1>1, <1>2, <1>13 DEF Refused
  <2>2. BuffOf(Watched)'.left \in {1, BodyLen} /\ ReplyOf(Watched)' \in {"408", "error"}
    BY <1>2, <1>13, BoundsAssumption
       DEF Refused, Holds, ReplyIn, Errors, PageCodes
  <2>3. Conn!Refuse
    BY <1>7, <1>8, <1>13, <2>1, <2>2 DEF Conn!Refuse, Conn!Heard
  <2>4. QED  BY <2>3 DEF Conn!Next
<1>14. QED  BY <1>5, <1>10, <1>11, <1>12, <1>13 DEF GoesOn

(* A handled event is one step of the connection.                          *)
LEMMA ServedMaps ==
  ASSUME IInv, IInv', JInv, Served(Watched)
  PROVE  Conn!Next
<1> USE WatchedAssumption
<1>1. PICK s \in Servers : \E h :
        /\ HasClient(s, Watched) /\ pc' \notin Exits /\ Handled(s, Watched, h)
        /\ \/ h \in GoneView /\ CloseHasCause(View(s, Watched))
           \/ GoesOn(View(s, Watched), h)
  BY DEF Served
<1>2. PICK h :
        /\ HasClient(s, Watched) /\ pc' \notin Exits /\ Handled(s, Watched, h)
        /\ \/ h \in GoneView /\ CloseHasCause(View(s, Watched))
           \/ GoesOn(View(s, Watched), h)
  BY <1>1
<1>3. clients'[s][Watched] = h.c /\ kern'[Watched] = h.k /\ Running'
  BY <1>2 DEF Handled, IInv, TypeOK, Running
<1>4. CASE h \in GoneView /\ CloseHasCause(View(s, Watched))
  <2>1. ~kern'[Watched].open
    BY <1>3, <1>4 DEF GoneView, ClosedSocket
  <2>2. QED  BY <1>2, <1>4, <2>1, ClosedMaps
<1>5. CASE GoesOn(View(s, Watched), h)
  <2>1. HasClient(s, Watched)'
    BY <1>3, <1>5, NoClientAssumption DEF GoesOn, LiveView, HasClient
  <2>2. QED  BY <1>2, <1>3, <1>5, <2>1, GoesOnMaps
<1>6. QED  BY <1>2, <1>4, <1>5

-----------------------------------------------------------------------------
(* The connection on any descriptor keeps what Connection promises, for    *)
(* any servers, requests and bounds: EventLoop implements Connection.      *)
THEOREM LoopImplementsConnection == Spec => ConnectionKept
<1> USE WatchedAssumption
<1>1. Init => Conn!Init
  BY DEF Init, Conn!Init, PhaseOf, ClosedSocket, Running, Exits
<1>2. IInv /\ IInv' /\ JInv /\ [Next]_vars => Conn!Next
  BY StepEffect, EndedWithMaps, UndisturbedMaps, SweptMaps, AcceptedMaps, ServedMaps
     DEF JInv
<1>3. IInv /\ IInv' /\ JInv /\ [Next]_vars => [Conn!Next]_(Conn!vars)
  BY <1>2
<1>4. QED  BY <1>1, <1>3, Invariance, SecondInvariance, PTL
              DEF Spec, ConnectionKept, Conn!Spec
=============================================================================
