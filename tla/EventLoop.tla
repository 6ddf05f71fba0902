------------------------------ MODULE EventLoop ------------------------------
(***************************************************************************)
(* The core of webserve: the single-threaded loop of run_server            *)
(* (srcs/server/init.cpp) and the connection handlers it calls, against    *)
(* the kernel objects they use: listening sockets, connected sockets and   *)
(* an edge-triggered epoll instance.                                       *)
(*                                                                         *)
(* One call of a handler is one action.  Between two actions the           *)
(* environment moves: peers connect, send, read, half-close or reset,      *)
(* seconds pass, a signal arrives.  A handler is built from stages (read,  *)
(* parse, answer, write, hang up), operators on a view of one connection   *)
(* that follow the code's order and its early returns.                     *)
(*                                                                         *)
(* Bytes are abstracted to segments (of a request) and parts (of a         *)
(* reply): a request is a sequence of segments of which the hlen-th ends   *)
(* the header, a reply is a number of parts still to be written.           *)
(***************************************************************************)
EXTENDS Integers, Sequences, FiniteSets

CONSTANTS
  Servers,          \* the entries of serverMap, one listening socket each
  Fds,              \* descriptor numbers accept() may return
  Requests,         \* the requests peers send (see RequestType)
  ErrorPages,       \* [Servers -> [PageCodes -> PageStates]]
  NoClient,         \* getClient() = NULL
  MaxBody,          \* getClientMaxBodySize(), in segments
  ReadMax,          \* BUFFER_SIZE, in segments
  RcvMax,           \* capacity of a socket's receive buffer, in segments
  SndMax,           \* capacity of a socket's send buffer, in parts
  BodyLen,          \* parts of a reply that carries a body
  timeout_seconds,  \* idle seconds after which check_clients_timeout acts
  MaxBacklog,       \* bound: connections waiting in one listen queue
  MAX_EVENTS        \* events one epoll_wait returns at most

PageCodes  == {"403", "404", "405", "408"}
PageStates == {"none", "readable", "unreadable"}
Errors     == PageCodes \cup {"400", "413", "500", "504"}

(* What the handlers' branches depend on in one request.  toks: the header *)
(* words create_body and parsing_response look for; cl: the declared       *)
(* Content-Length, negative when absent; short: the request line lacks a   *)
(* path or a version; allowed: the method is allowed where the path leads; *)
(* cgi: the path leads to a CGI script; outcome: what executing the method *)
(* comes to there ("redirect" and "text": the location's return directive, *)
(* a Location or a text of its own; "sigpipe": the script has exited       *)
(* without reading its standard input when the server writes it the body). *)
RequestType ==
  [method  : {"GET", "POST", "DELETE", "other"},
   toks    : SUBSET {"HTTP/1.1", "keep-alive", "close", ".png"},
   hlen    : Nat \ {0},
   blen    : Nat,
   cl      : Int,
   short   : BOOLEAN,
   allowed : BOOLEAN,
   cgi     : BOOLEAN,
   outcome : {"body", "redirect", "text", "sigpipe"} \cup Errors]

ASSUME RequestsAssumption == Requests \subseteq RequestType
ASSUME PagesAssumption == ErrorPages \in [Servers -> [PageCodes -> PageStates]]
ASSUME BoundsAssumption ==
  /\ MaxBody \in Int
  /\ ReadMax \in Nat \ {0}
  /\ RcvMax \in Nat \ {0}
  /\ SndMax \in Nat \ {0}
  /\ BodyLen \in Nat \ {0}
  /\ timeout_seconds \in Nat
  /\ MaxBacklog \in Nat
  /\ MAX_EVENTS \in Nat \ {0}

Segment == [req : Requests, idx : Nat \ {0}]

Segments(r) == [i \in 1 .. (r.hlen + r.blen) |-> [req |-> r, idx |-> i]]

(* write_buff: the parts left of the reply in it; left = 0 when it is      *)
(* empty.  close: the reply announces "Connection: close".  page: it       *)
(* carries a configured error page.                                        *)
Reply ==
  [status : {"none", "200", "302"} \cup Errors,
   close  : BOOLEAN,
   page   : BOOLEAN,
   left   : Nat]

EmptyBuff == [status |-> "none", close |-> FALSE, page |-> FALSE, left |-> 0]

(* ClientData.  idle is time(NULL) - last_activity, counted no further     *)
(* than the first value that exceeds timeout_seconds.                      *)
ClientData ==
  [read_buff  : Seq(Segment),
   write_buff : Reply,
   keep_alive : BOOLEAN,
   idle       : 0 .. (timeout_seconds + 1)]

ASSUME NoClientAssumption == NoClient \notin ClientData

(* A descriptor as the kernel sees it.  peer: segments the peer still has  *)
(* to send of its current request; rcv: received and not read; snd: parts  *)
(* written and not yet taken by the peer; fin, rst: the peer has           *)
(* half-closed, has reset; err: the pending socket error; interest: the    *)
(* epoll mask; armed: the descriptor is on epoll's ready list.             *)
Socket ==
  [open     : BOOLEAN,
   peer     : Seq(Segment),
   rcv      : Seq(Segment),
   snd      : 0 .. SndMax,
   fin      : BOOLEAN,
   rst      : BOOLEAN,
   err      : {"none", "ECONNRESET", "EPIPE"},
   interest : SUBSET {"IN", "OUT"},
   armed    : BOOLEAN]

ClosedSocket ==
  [open |-> FALSE, peer |-> <<>>, rcv |-> <<>>, snd |-> 0, fin |-> FALSE,
   rst |-> FALSE, err |-> "none", interest |-> {}, armed |-> FALSE]

Flags == {"IN", "OUT", "ERR", "HUP"}
Exits == {"stopped", "crashed", "killed"}

VARIABLES
  clients,    \* [Servers -> [Fds -> ClientData or NoClient]]: the _clients maps
  kern,       \* [Fds -> Socket]
  backlog,    \* [Servers -> 0 .. MaxBacklog]: connections not yet accepted
  accepting,  \* listening sockets whose event the current batch still holds
  events,     \* [Fds -> SUBSET Flags]: client events the batch still holds
  pc,         \* where run_server stands, or how the process ended
  stop,       \* g_stop_server
  lost        \* history: a request of this connection was parsed and
              \* consumed, and no reply of its own was put in write_buff

vars == <<clients, kern, backlog, accepting, events, pc, stop, lost>>

HasClient(s, fd) == clients[s][fd] # NoClient

-----------------------------------------------------------------------------
(* The kernel's side: poll masks, epoll_ctl, read() and write().           *)

Min2(a, b) == IF a <= b THEN a ELSE b

(* The poll mask of a socket, restricted to what its epoll entry reports.  *)
Ready(k) ==
  {f \in Flags :
     \/ f = "IN"  /\ "IN" \in k.interest  /\ (k.rcv # <<>> \/ k.fin \/ k.rst)
     \/ f = "OUT" /\ "OUT" \in k.interest /\ (k.snd < SndMax \/ k.rst)
     \/ f = "HUP" /\ k.rst
     \/ f = "ERR" /\ k.err # "none"}

(* Takes EPOLL_CTL_MOD to change the mask only. *)
Bug_epoll_ctl_no_repoll(k, mask) == [k EXCEPT !.interest = mask]

(* EPOLL_CTL_ADD and EPOLL_CTL_MOD set the mask and poll the socket again: *)
(* with EPOLLET this is what re-arms an edge that was already consumed.    *)
epoll_ctl(k, mask) ==
  LET m == [k EXCEPT !.interest = mask]
  IN  [m EXCEPT !.armed = k.armed \/ Ready(m) # {}]

(* A state change of the socket queues it if its mask asks for the event.  *)
Wake(k, f) == [k EXCEPT !.armed = @ \/ f \in k.interest]

(* read() returns 0: nothing is queued and the peer has closed.            *)
AtEOF(k) == k.rcv = <<>> /\ (k.fin \/ (k.rst /\ k.err = "none"))

-----------------------------------------------------------------------------
(* Stages.  A view is one connection as its handler sees it: v.c the       *)
(* ClientData, v.k the socket, v.lost the history bit, and v.go how the    *)
(* handler goes on: "go", "return", or the way the process ends.           *)

Bug_close_client_leaks(v) == [v EXCEPT !.c = NoClient]

close_client(v) ==
  [v EXCEPT !.c = NoClient, !.k = ClosedSocket, !.lost = FALSE]

(* handle_read takes one buffer: it never loops, although the entry is     *)
(* edge-triggered.  An error other than end of file leaves all as it is.   *)
handle_read(v) ==
  LET n == Min2(Len(v.k.rcv), ReadMax)
  IN  IF v.k.rcv # <<>>
      THEN [v EXCEPT !.c.read_buff = @ \o SubSeq(v.k.rcv, 1, n),
                     !.k.rcv = SubSeq(@, n + 1, Len(@))]
      ELSE [v EXCEPT !.k.err = "none"]

(* Erases one more than the socket took. *)
Bug_handle_write_erases_more(v) ==
  LET n == Min2(v.c.write_buff.left, SndMax - v.k.snd)
  IN  IF v.c.write_buff.left = 0 THEN v
      ELSE [v EXCEPT !.c.write_buff.left = @ - n - 1, !.k.snd = @ + n]

(* write() takes what fits.  On a socket the peer has reset it fails with  *)
(* the pending ECONNRESET, and otherwise raises SIGPIPE, whose default     *)
(* action ends the process: main installs no handler for it.               *)
handle_write(v) ==
  LET b == v.c.write_buff
      n == Min2(b.left, SndMax - v.k.snd)
      rest == IF b.left = n THEN EmptyBuff ELSE [b EXCEPT !.left = b.left - n]
  IN  IF b.left = 0 THEN v
      ELSE IF ~v.k.rst
      THEN [v EXCEPT !.c.write_buff = rest, !.k.snd = @ + n]
      ELSE IF v.k.err = "ECONNRESET" THEN [v EXCEPT !.k.err = "none"]
      ELSE [v EXCEPT !.go = "killed"]

-----------------------------------------------------------------------------
(* Parsing: parsing_response on the bytes of read_buff.                    *)

Complete(buf) == \E i \in DOMAIN buf : buf[i].idx = buf[i].req.hlen

(* The first "\r\n\r\n" in the buffer, and the request whose header it     *)
(* ends.                                                                   *)
HeaderEnd(buf) ==
  CHOOSE i \in DOMAIN buf :
    /\ buf[i].idx = buf[i].req.hlen
    /\ \A j \in DOMAIN buf : buf[j].idx = buf[j].req.hlen => i <= j

FirstRequest(buf) == buf[HeaderEnd(buf)].req

(* Everything after the first header counts as that request's body.        *)
BodySize(buf) == Len(buf) - HeaderEnd(buf)

Tokens(buf) ==
  UNION {buf[i].req.toks : i \in {j \in DOMAIN buf : buf[j].idx = 1}}

(* The status parsing_response throws, or "none".  A buffer that does not  *)
(* begin with the request's first segment begins with leftover body bytes, *)
(* which are no supported method.                                          *)
parsing_response(buf) ==
  LET r    == FirstRequest(buf)
      size == BodySize(buf)
  IN  IF r.cl >= 0 /\ size # r.cl THEN "413"
      ELSE IF /\ (IF r.cl >= 0 THEN r.cl ELSE size) > MaxBody
              /\ ".png" \notin Tokens(buf)
      THEN "413"
      ELSE IF r.method = "other" \/ buf[1] # [req |-> r, idx |-> 1]
      THEN "405"
      ELSE IF r.short THEN "400" ELSE "none"

-----------------------------------------------------------------------------
(* Answering: prepare_response and the three methods.                      *)

(* create_body derives keep_alive from the whole read buffer.              *)
WantsKeepAlive(buf) ==
  \/ "HTTP/1.1" \in Tokens(buf) /\ "close" \notin Tokens(buf)
  \/ "HTTP/1.1" \notin Tokens(buf) /\ "keep-alive" \in Tokens(buf)

PostsToScript(r) == r.method = "POST" /\ r.cgi

(* The location has a return directive: create_body writes the reply       *)
(* itself, with the text of a "return 200", without a body otherwise.      *)
Returns(r) == r.method = "GET" /\ r.outcome \in {"redirect", "text"} /\ ~r.cgi

Redirects(r) == Returns(r) /\ r.outcome = "redirect"

(* The requests whose reply goes into write_buff whatever it holds.        *)
Replaces(r) == Returns(r) \/ PostsToScript(r)

(* The status the method throws, or "none".  check_location_methode comes  *)
(* first; GET and CGI scripts run whatever write_buff holds, an upload or  *)
(* a deletion only when it is empty.                                       *)
Thrown(c, r) ==
  IF ~r.allowed THEN "405"
  ELSE IF /\ r.outcome \in Errors
          /\ r.method = "GET" \/ PostsToScript(r) \/ c.write_buff.left = 0
  THEN r.outcome
  ELSE "none"

Bug_Stores_always(c, r) == TRUE

(* Whether the reply goes into write_buff: what a return directive says    *)
(* and the output of a POST script always do, others into an empty one.    *)
Stores(c, r) == c.write_buff.left = 0 \/ Replaces(r)

(* Leaves the answered request in read_buff. *)
Bug_prepare_response_keeps(c, r, buf) ==
  LET keep == IF r.method = "GET" THEN WantsKeepAlive(buf) ELSE c.keep_alive
  IN  [c EXCEPT !.keep_alive = keep,
                !.write_buff = [status |-> "200", close |-> ~keep,
                                page |-> FALSE, left |-> BodyLen]]

(* prepare_response when nothing is thrown.  Only GET, through             *)
(* create_body, sets keep_alive: POST and DELETE announce the value the    *)
(* previous request left.                                                  *)
prepare_response(c, r, buf) ==
  LET keep == IF r.method = "GET" THEN WantsKeepAlive(buf) ELSE c.keep_alive
      reply == [status |-> IF Redirects(r) THEN "302" ELSE "200",
                close  |-> ~keep,
                page   |-> FALSE,
                left   |-> IF Redirects(r) THEN 1 ELSE BodyLen]
  IN  [c EXCEPT !.read_buff = <<>>,
                !.keep_alive = keep,
                !.write_buff = IF Stores(c, r) THEN reply ELSE @]

-----------------------------------------------------------------------------
(* Failing: the catch block of handle_client_event.                        *)

PageOf(s, code) ==
  IF code \in PageCodes THEN ErrorPages[s][code] ELSE "none"

(* Serves the page and forgets the connection is to close. *)
Bug_sendErrorResponse_keeps(s, c, code) ==
  LET paged == PageOf(s, code) = "readable"
  IN  [c EXCEPT !.read_buff = <<>>,
                !.keep_alive = IF paged THEN @ ELSE FALSE,
                !.write_buff = [status |-> code, close |-> TRUE, page |-> paged,
                                left |-> IF paged THEN BodyLen ELSE 1]]

(* The client after sendErrorResponse, or after the bare reply when there  *)
(* is no page to serve.                                                    *)
sendErrorResponse(s, c, code) ==
  LET paged == PageOf(s, code) = "readable"
  IN  [c EXCEPT !.read_buff = <<>>,
                !.keep_alive = FALSE,
                !.write_buff = [status |-> code, close |-> TRUE, page |-> paged,
                                left |-> IF paged THEN BodyLen ELSE 1]]

(* Forgets to ask for EPOLLOUT after an error. *)
Bug_Fail_keeps_mask(s, v, code) ==
  [v EXCEPT !.c = sendErrorResponse(s, v.c, code), !.go = "return"]

(* Reads the page without errorPageExists. *)
Bug_Fail_reads_missing(s, v, code) ==
  IF PageOf(s, code) # "readable"
  THEN [v EXCEPT !.go = "crashed"]
  ELSE [v EXCEPT !.c = sendErrorResponse(s, @, code),
                 !.k = epoll_ctl(@, {"OUT"}), !.go = "return"]

(* An error page that exists and cannot be opened makes                    *)
(* read_file_or_directory throw out of the catch block, to main.  After a  *)
(* 504 one write is tried and the connection closed whatever is left.      *)
Fail(s, v, code) ==
  LET failed == [v EXCEPT !.c = sendErrorResponse(s, v.c, code)]
      last   == handle_write(failed)
  IN  IF PageOf(s, code) = "unreadable"
      THEN [v EXCEPT !.go = "crashed"]
      ELSE IF code = "504"
      THEN IF last.go = "killed" THEN last
           ELSE [close_client(last) EXCEPT !.go = "return"]
      ELSE [failed EXCEPT !.k = epoll_ctl(@, {"OUT"}), !.go = "return"]

-----------------------------------------------------------------------------
(* handle_client_event: the three branches on the event's flags.           *)

(* A complete header is in read_buff: parse, then answer or fail.          *)
Answer(s, v) ==
  LET buf  == v.c.read_buff
      r    == FirstRequest(buf)
      code == IF parsing_response(buf) # "none" THEN parsing_response(buf)
                                                ELSE Thrown(v.c, r)
  IN  IF code # "none" THEN Fail(s, v, code)
      ELSE IF PostsToScript(r) /\ r.outcome = "sigpipe" /\ BodySize(buf) > 0
      THEN [v EXCEPT !.go = "killed"]
      ELSE [v EXCEPT !.c = prepare_response(@, r, buf),
                     !.k = epoll_ctl(@, {"IN", "OUT"}),
                     !.lost = @ \/ ~Stores(v.c, r)]

(* EPOLLIN: got is v after handle_read. *)
OnReadable(s, v, got) ==
  IF AtEOF(v.k) THEN [close_client(v) EXCEPT !.go = "return"]
  ELSE IF Complete(got.c.read_buff) THEN Answer(s, got)
  ELSE got

(* Keeps EPOLLOUT when the reply is flushed. *)
Bug_OnWritable_keeps_mask(w) ==
  IF w.go = "killed" \/ w.c.write_buff.left > 0 THEN w
  ELSE IF w.c.keep_alive THEN w ELSE close_client(w)

(* Closes without waiting for the buffer to empty. *)
Bug_OnWritable_closes_early(w) ==
  IF w.go = "killed" THEN w
  ELSE IF ~w.c.keep_alive THEN close_client(w)
  ELSE IF w.c.write_buff.left > 0 THEN w ELSE [w EXCEPT !.k = epoll_ctl(@, {"IN"})]

(* EPOLLOUT: w is the view after handle_write. *)
OnWritable(w) ==
  IF w.go = "killed" \/ w.c.write_buff.left > 0 THEN w
  ELSE IF w.c.keep_alive THEN [w EXCEPT !.k = epoll_ctl(@, {"IN"})]
  ELSE close_client(w)

-----------------------------------------------------------------------------
(* The process ends: closeAllClients or the kernel closes every            *)
(* descriptor.                                                             *)
Exit(how) ==
  /\ pc' = how
  /\ clients' = [s \in Servers |-> [fd \in Fds |-> NoClient]]
  /\ kern' = [fd \in Fds |-> ClosedSocket]
  /\ lost' = [fd \in Fds |-> FALSE]
  /\ events' = [fd \in Fds |-> {}]
  /\ accepting' = {}
  /\ UNCHANGED <<backlog, stop>>

Init ==
  /\ clients = [s \in Servers |-> [fd \in Fds |-> NoClient]]
  /\ kern = [fd \in Fds |-> ClosedSocket]
  /\ backlog = [s \in Servers |-> 0]
  /\ accepting = {}
  /\ events = [fd \in Fds |-> {}]
  /\ pc = "wait"
  /\ stop = FALSE
  /\ lost = [fd \in Fds |-> FALSE]

(* epoll_wait returns some of the ready descriptors, MAX_EVENTS at most;   *)
(* none when its one-second timeout runs out.  Listening sockets are       *)
(* level-triggered; a client leaves the ready list when it is reported.    *)
EpollWait ==
  LET ready     == {fd \in Fds : kern[fd].armed /\ Ready(kern[fd]) # {}}
      listening == {s \in Servers : backlog[s] > 0}
  IN  /\ pc = "wait"
      /\ \E C \in SUBSET ready, L \in SUBSET listening :
           /\ Cardinality(C) + Cardinality(L)
                = Min2(MAX_EVENTS, Cardinality(ready) + Cardinality(listening))
           /\ accepting' = L
           /\ events' = [fd \in Fds |-> IF fd \in C THEN Ready(kern[fd]) ELSE {}]
           /\ kern' = [fd \in Fds |-> IF fd \in C
                                      THEN [kern[fd] EXCEPT !.armed = FALSE]
                                      ELSE kern[fd]]
      /\ pc' = "sweep"
      /\ UNCHANGED <<clients, backlog, stop, lost>>

(* A signal interrupts epoll_wait (EINTR) and the loop test ends the loop. *)
Interrupted == pc = "wait" /\ stop /\ Exit("stopped")

Expired(s, fd) == HasClient(s, fd) /\ clients[s][fd].idle > timeout_seconds

(* Closes the idle client under the events of the batch. *)
Bug_Sweep_closes ==
  /\ pc = "sweep"
  /\ clients' = [s \in Servers |-> [fd \in Fds |->
                   IF Expired(s, fd) THEN NoClient ELSE clients[s][fd]]]
  /\ kern' = [fd \in Fds |-> IF \E s \in Servers : Expired(s, fd)
                             THEN ClosedSocket ELSE kern[fd]]
  /\ pc' = "handle"
  /\ UNCHANGED <<backlog, accepting, events, stop, lost>>

(* Answers 408 and leaves keep_alive as the last request set it. *)
Bug_Sweep_keeps_alive ==
  /\ pc = "sweep"
  /\ clients' = [s \in Servers |-> [fd \in Fds |->
                   IF Expired(s, fd)
                   THEN [clients[s][fd] EXCEPT
                           !.write_buff = [status |-> "408", close |-> TRUE,
                                           page |-> FALSE, left |-> 1]]
                   ELSE clients[s][fd]]]
  /\ kern' = [fd \in Fds |-> IF \E s \in Servers : Expired(s, fd)
                             THEN epoll_ctl(kern[fd], {"OUT"}) ELSE kern[fd]]
  /\ pc' = "handle"
  /\ UNCHANGED <<backlog, accepting, events, stop, lost>>

(* check_clients_timeout, for every server, before the batch is handled.   *)
(* It neither closes nor looks at what write_buff holds.                   *)
check_clients_timeout ==
  /\ pc = "sweep"
  /\ clients' = [s \in Servers |-> [fd \in Fds |->
                   IF Expired(s, fd)
                   THEN [clients[s][fd] EXCEPT
                           !.keep_alive = FALSE,
                           !.write_buff = [status |-> "408", close |-> TRUE,
                                           page |-> FALSE, left |-> 1]]
                   ELSE clients[s][fd]]]
  /\ kern' = [fd \in Fds |-> IF \E s \in Servers : Expired(s, fd)
                             THEN epoll_ctl(kern[fd], {"OUT"}) ELSE kern[fd]]
  /\ pc' = "handle"
  /\ UNCHANGED <<backlog, accepting, events, stop, lost>>

(* accept() fails when no descriptor is free, and the listening socket     *)
(* stays ready; epoll_ctl may refuse the new descriptor, which is closed.  *)
handle_new_connection(s) ==
  LET free == {fd \in Fds : ~kern[fd].open}
  IN  /\ pc = "handle" /\ s \in accepting
      /\ accepting' = accepting \ {s}
      /\ \/ /\ free = {}
            /\ UNCHANGED <<clients, kern, backlog, lost>>
         \/ /\ free # {}
            /\ backlog' = [backlog EXCEPT ![s] = @ - 1]
            /\ UNCHANGED <<clients, kern, lost>>
         \/ \E fd \in free :
              /\ backlog' = [backlog EXCEPT ![s] = @ - 1]
              /\ kern' = [kern EXCEPT ![fd] =
                            epoll_ctl([ClosedSocket EXCEPT !.open = TRUE], {"IN"})]
              /\ clients' = [clients EXCEPT ![s][fd] =
                               [read_buff |-> <<>>, write_buff |-> EmptyBuff,
                                keep_alive |-> FALSE, idle |-> 0]]
              /\ lost' = [lost EXCEPT ![fd] = FALSE]
      /\ UNCHANGED <<events, pc, stop>>

View(s, fd) ==
  [c |-> [clients[s][fd] EXCEPT !.idle = 0], k |-> kern[fd], lost |-> lost[fd],
   go |-> "go"]

(* An event is given to the server that owns its descriptor; one without   *)
(* an owner is dropped.  The branches follow each other, and \E x \in {e}  *)
(* names the view between two of them.  EPOLLERR or EPOLLHUP closes again  *)
(* what EPOLLOUT has closed: removeClient then finds nothing.              *)
handle_client_event(fd) ==
  LET flags  == events[fd]
      owners == {s \in Servers : HasClient(s, fd)}
  IN  /\ pc = "handle" /\ flags # {}
      /\ IF owners = {}
         THEN /\ events' = [events EXCEPT ![fd] = {}]
              /\ UNCHANGED <<clients, kern, backlog, accepting, pc, stop, lost>>
         ELSE \E s \in owners : \E v \in {View(s, fd)} :
              \E got \in {handle_read(v)} :
              \E r \in {IF "IN" \in flags THEN OnReadable(s, v, got) ELSE v} :
              \E w \in {IF r.go = "go" /\ "OUT" \in flags
                       THEN OnWritable(handle_write(r)) ELSE r} :
              \E h \in {IF w.go = "go" /\ flags \cap {"ERR", "HUP"} # {}
                       THEN close_client(w) ELSE w} :
                IF h.go \in Exits THEN Exit(h.go)
                ELSE /\ clients' = [clients EXCEPT ![s][fd] = h.c]
                     /\ kern' = [kern EXCEPT ![fd] = h.k]
                     /\ lost' = [lost EXCEPT ![fd] = h.lost]
                     /\ events' = [events EXCEPT ![fd] = {}]
                     /\ UNCHANGED <<backlog, accepting, pc, stop>>

(* Loops without looking at g_stop_server. *)
Bug_EndBatch_ignores_stop ==
  /\ pc = "handle" /\ accepting = {} /\ \A fd \in Fds : events[fd] = {}
  /\ pc' = "wait"
  /\ UNCHANGED <<clients, kern, backlog, accepting, events, stop, lost>>

(* The batch is done: the loop tests g_stop_server.                        *)
EndBatch ==
  /\ pc = "handle" /\ accepting = {} /\ \A fd \in Fds : events[fd] = {}
  /\ IF stop THEN Exit("stopped")
     ELSE /\ pc' = "wait"
          /\ UNCHANGED <<clients, kern, backlog, accepting, events, stop, lost>>

LoopStep ==
  \/ EpollWait
  \/ Interrupted
  \/ check_clients_timeout
  \/ \E s \in Servers : handle_new_connection(s)
  \/ \E fd \in Fds : handle_client_event(fd)
  \/ EndBatch

-----------------------------------------------------------------------------
(* The environment.                                                        *)

Running == pc \notin Exits

signal_handler ==
  /\ Running /\ ~stop
  /\ stop' = TRUE
  /\ UNCHANGED <<clients, kern, backlog, accepting, events, pc, lost>>

(* A second passes.                                                        *)
Tick ==
  /\ Running
  /\ clients' = [s \in Servers |-> [fd \in Fds |->
                   IF HasClient(s, fd)
                   THEN [clients[s][fd] EXCEPT
                           !.idle = Min2(@ + 1, timeout_seconds + 1)]
                   ELSE NoClient]]
  /\ UNCHANGED <<kern, backlog, accepting, events, pc, stop, lost>>

PeerConnect(s) ==
  /\ Running /\ backlog[s] < MaxBacklog
  /\ backlog' = [backlog EXCEPT ![s] = @ + 1]
  /\ UNCHANGED <<clients, kern, accepting, events, pc, stop, lost>>

(* One socket changes; the handlers' state does not.                       *)
PeerStep(fd, k) ==
  /\ kern' = [kern EXCEPT ![fd] = k]
  /\ UNCHANGED <<clients, backlog, accepting, events, pc, stop, lost>>

(* n more segments arrive, of the request under way or of a new one.       *)
PeerSend(fd, r, n) ==
  LET k   == kern[fd]
      out == IF k.peer = <<>> THEN Segments(r) ELSE k.peer
  IN  /\ k.open /\ ~k.fin /\ ~k.rst
      /\ n \in 1 .. Len(out) /\ Len(k.rcv) + n <= RcvMax
      /\ PeerStep(fd, Wake([k EXCEPT !.rcv = @ \o SubSeq(out, 1, n),
                                     !.peer = SubSeq(out, n + 1, Len(out))], "IN"))

(* The peer takes a part; a full send buffer becomes writable again.       *)
PeerDrain(fd) ==
  LET k == kern[fd]
      d == [k EXCEPT !.snd = @ - 1]
  IN  /\ k.open /\ k.snd > 0
      /\ PeerStep(fd, IF k.snd = SndMax THEN Wake(d, "OUT") ELSE d)

(* The peer half-closes.                                                   *)
PeerFin(fd) ==
  LET k == kern[fd]
  IN  /\ k.open /\ ~k.fin /\ ~k.rst /\ k.peer = <<>>
      /\ PeerStep(fd, Wake([k EXCEPT !.fin = TRUE], "IN"))

(* The peer resets the connection.  EPOLLERR and EPOLLHUP are always       *)
(* reported.                                                               *)
PeerReset(fd) ==
  LET k == kern[fd]
  IN  /\ k.open /\ ~k.rst
      /\ PeerStep(fd, [k EXCEPT !.rst = TRUE, !.snd = 0, !.peer = <<>>,
                                !.err = IF k.fin THEN "EPIPE" ELSE "ECONNRESET",
                                !.armed = TRUE])

Environment ==
  \/ signal_handler
  \/ Tick
  \/ \E s \in Servers : PeerConnect(s)
  \/ \E fd \in Fds, r \in Requests, n \in 1 .. RcvMax : PeerSend(fd, r, n)
  \/ \E fd \in Fds : PeerDrain(fd) \/ PeerFin(fd) \/ PeerReset(fd)

Next == LoopStep \/ Environment

(* The loop never stops by itself, time passes, and peers take what they   *)
(* are sent.  Nothing is assumed of what they send or when they close.     *)
Fairness ==
  /\ WF_vars(LoopStep)
  /\ WF_vars(Tick)
  /\ \A fd \in Fds : WF_vars(PeerDrain(fd))

Spec == Init /\ [][Next]_vars
FairSpec == Spec /\ Fairness

-----------------------------------------------------------------------------
(* Properties.                                                             *)

Pending(s, fd) == HasClient(s, fd) /\ clients[s][fd].write_buff.left > 0

(* Every variable stays in its type; in particular write_buff.erase never  *)
(* takes more than the buffer holds.                                       *)
TypeOK ==
  /\ clients \in [Servers -> [Fds -> ClientData \cup {NoClient}]]
  /\ kern \in [Fds -> Socket]
  /\ backlog \in [Servers -> 0 .. MaxBacklog]
  /\ accepting \subseteq Servers
  /\ events \in [Fds -> SUBSET Flags]
  /\ pc \in {"wait", "sweep", "handle"} \cup Exits
  /\ stop \in BOOLEAN
  /\ lost \in [Fds -> BOOLEAN]

(* A descriptor is open exactly as long as one server, and one only, has a *)
(* client for it: no descriptor leaks, none is used after close(), and the *)
(* search of run_server for an event's owner finds the right one.          *)
OneOwner ==
  \A fd \in Fds :
    /\ kern[fd].open <=> \E s \in Servers : HasClient(s, fd)
    /\ \A s, t \in Servers : HasClient(s, fd) /\ HasClient(t, fd) => s = t

(* An event still waiting in the batch belongs to a connection that is     *)
(* still open: neither the sweep nor the handling of an earlier event can  *)
(* close, or replace, what a later event of the batch is about.            *)
PendingEventsHaveClients ==
  \A fd \in Fds : events[fd] # {} => kern[fd].open

(* EPOLLOUT is asked for exactly while write_buff holds something.         *)
WriteInterestIffPending ==
  \A s \in Servers, fd \in Fds :
    HasClient(s, fd) => ("OUT" \in kern[fd].interest <=> Pending(s, fd))

(* When the loop stops listening to a connection it is to close it: a      *)
(* connection without EPOLLIN is never one that is kept alive.             *)
ReadStopsOnlyToClose ==
  \A s \in Servers, fd \in Fds :
    HasClient(s, fd) /\ "IN" \notin kern[fd].interest
      => ~clients[s][fd].keep_alive /\ Pending(s, fd)

(* The write side survives edge triggering: while a reply is pending and   *)
(* the socket takes data, an event for it is queued or in the batch.       *)
NoLostWriteWakeup ==
  \A s \in Servers, fd \in Fds :
    Pending(s, fd) /\ (kern[fd].snd < SndMax \/ kern[fd].rst)
      => kern[fd].armed \/ "OUT" \in events[fd]

(* The read side survives edge triggering but for one case: received data  *)
(* waits in the kernel with no event to come only behind a read that       *)
(* filled its buffer, since handle_read reads one buffer per edge and      *)
(* nothing re-arms the edge before the header is complete.                 *)
ReadEdgeLostOnlyByFullBuffer ==
  \A s \in Servers, fd \in Fds :
    HasClient(s, fd) /\ "IN" \in kern[fd].interest /\ kern[fd].rcv # <<>>
      => \/ kern[fd].armed
         \/ "IN" \in events[fd]
         \/ Len(clients[s][fd].read_buff) >= ReadMax

(* Between two handlers read_buff never holds a complete header: every     *)
(* request that could be parsed has been, and none is answered twice.      *)
NoUnparsedRequest ==
  \A s \in Servers, fd \in Fds :
    HasClient(s, fd) => ~Complete(clients[s][fd].read_buff)

(* What the pending reply announced is what the loop will do once it is    *)
(* written, unless a request of the connection went without its reply.     *)
HeaderMatchesFate ==
  \A s \in Servers, fd \in Fds :
    Pending(s, fd) /\ ~lost[fd]
      => (clients[s][fd].write_buff.close <=> ~clients[s][fd].keep_alive)

(* An error ends the connection: while the reply of an error is pending    *)
(* the loop does not listen, so no later request can be answered behind    *)
(* it, it announces the close, and keep_alive makes the loop close.        *)
ErrorIsFinal ==
  \A s \in Servers, fd \in Fds :
    Pending(s, fd) /\ clients[s][fd].write_buff.status \in Errors \ {"408"}
      => /\ kern[fd].interest = {"OUT"}
         /\ clients[s][fd].write_buff.close
         /\ ~clients[s][fd].keep_alive

(* What a handler may find to answer.                                      *)
Unanswered(s, fd) == clients[s][fd].read_buff \o kern[fd].rcv

(* The process ends for three causes only: a signal asked for it; it wrote *)
(* to a pipe or connection nobody reads any more; a request failed, and    *)
(* the page for that error exists and cannot be opened.  Nothing else a    *)
(* peer sends stops the server.                                            *)
ExitsHaveCause ==
  [][/\ pc' = "stopped" => stop
     /\ Running /\ pc' = "killed" =>
          \E fd \in Fds :
            \/ kern[fd].rst
            \/ \E s \in Servers : HasClient(s, fd) /\
                 \E i \in DOMAIN Unanswered(s, fd) :
                   PostsToScript(Unanswered(s, fd)[i].req)
     /\ Running /\ pc' = "crashed" =>
          \E s \in Servers, fd \in Fds, code \in PageCodes :
            /\ HasClient(s, fd) /\ PageOf(s, code) = "unreadable"
            /\ \/ code = "405"
               \/ \E i \in DOMAIN Unanswered(s, fd) :
                    Unanswered(s, fd)[i].req.outcome = code]_vars

(* A reply under way is cut by an error, by what a return directive says   *)
(* and by the output of a POST script: the reply of a page, a listing, an  *)
(* upload or a deletion never takes the place of what is left of the one   *)
(* in front of it.                                                         *)
ReplyNotCut ==
  [][\A s \in Servers, fd \in Fds :
       LET old == clients[s][fd].write_buff
           new == clients'[s][fd].write_buff
       IN  /\ Pending(s, fd)
           /\ HasClient(s, fd)'
           /\ new.status \notin Errors
           /\ new.left > old.left \/ (new.left > 0 /\ new.status # old.status)
           => \E i \in DOMAIN Unanswered(s, fd) :
                Replaces(Unanswered(s, fd)[i].req)]_vars

(* Claims of the documentation that the code does not keep.                *)

(* Every request that is parsed has a reply prepared for it                *)
(* (handle_connection.cpp:40, "si in alors on parse et prepare une         *)
(* responce"): none is consumed while an older reply blocks write_buff.    *)
RequestGetsReply == \A fd \in Fds : ~lost[fd]

(* 413 is for bodies above the configured limit (README.md,                *)
(* "client_body_buffer_size : Taille maximale du corps de la requete       *)
(* client"): a connection that gets it was sent, or announced, such a body.*)
OnlyOversized413 ==
  [][\A s \in Servers, fd \in Fds :
       /\ HasClient(s, fd) /\ HasClient(s, fd)'
       /\ clients[s][fd].write_buff.status # "413"
       /\ clients'[s][fd].write_buff.status = "413"
       => LET seen == clients[s][fd].read_buff \o kern[fd].rcv \o kern[fd].peer
          IN  \E i \in DOMAIN seen :
                seen[i].req.blen > MaxBody \/ seen[i].req.cl > MaxBody]_vars

(* A script may run for cgi_timeout seconds (README.md, "cgi_timeout :     *)
(* Temps maximum d'execution pour un script CGI"; conf/exemple.conf sets   *)
(* 5): the reply it leads to, untouched in write_buff, is not replaced by  *)
(* 408.  last_activity is read before the script runs, so the seconds it   *)
(* took are among those that pass before the next sweep.  Judged where     *)
(* every request is for a script.                                          *)
ScriptReplySurvivesSweep ==
  [][\A s \in Servers, fd \in Fds :
       /\ HasClient(s, fd) /\ HasClient(s, fd)'
       /\ clients[s][fd].write_buff.status = "200"
       /\ clients[s][fd].write_buff.left = BodyLen
       => clients'[s][fd].write_buff.status # "408"]_vars

(* Once a signal has asked for it, the process ends.                       *)
StopIsHonoured == stop ~> pc \in Exits

(* A connection on which the peer sends nothing any more is closed in the  *)
(* end, whatever state the last request left it in.                        *)
IdleConnectionCloses ==
  \A fd \in Fds :
    \/ []<>(~kern[fd].open)
    \/ []<><<\E r \in Requests, n \in 1 .. RcvMax : PeerSend(fd, r, n)>>_vars
=============================================================================
