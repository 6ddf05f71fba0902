---------------------------- MODULE MCEventLoop ----------------------------
(***************************************************************************)
(* Small instances of EventLoop for TLC.                                   *)
(***************************************************************************)
EXTENDS LoopConnection, TLC

Get(keep) ==
  [method |-> "GET", toks |-> {"HTTP/1.1", keep}, hlen |-> 1, blen |-> 0,
   cl |-> -1, short |-> FALSE, allowed |-> TRUE, cgi |-> FALSE,
   outcome |-> "body"]

Form   == [Get("keep-alive") EXCEPT !.method = "POST", !.blen = 1, !.cl = 1]
Script == [Get("keep-alive") EXCEPT !.method = "POST", !.cgi = TRUE]

(* A page and the text of a "return 200" on a connection to keep, a        *)
(* redirection on one to close, a method the location refuses, for which   *)
(* there is an error page, a forbidden page whose error page cannot be     *)
(* opened, a script that is killed, and one that does not read the input   *)
(* it is sent.  POST answers with the keep_alive it finds.                 *)
MCRequests ==
  {Get("keep-alive"),
   [Get("keep-alive") EXCEPT !.outcome = "text"],
   [Get("close") EXCEPT !.outcome = "redirect"],
   [Get("keep-alive") EXCEPT !.outcome = "403"],
   [Get("keep-alive") EXCEPT !.allowed = FALSE],
   [Script EXCEPT !.outcome = "504"],
   [Script EXCEPT !.outcome = "sigpipe", !.blen = 1]}

(* A request in two segments, so that it can arrive in pieces, for a page  *)
(* and for one that is missing and has an error page.                      *)
MCSplit == {[Get("keep-alive") EXCEPT !.hlen = 2, !.outcome = o] : o \in {"body", "404"}}

MCClosing == {Get("close")}
MCForm == {Form}
MCScript == {Script}

MCPages ==
  [s \in Servers |->
     [c \in PageCodes |-> CASE c \in {"404", "405", "408"} -> "readable"
                            [] c = "403" -> "unreadable"
                            [] OTHER -> "none"]]

MCSymmetry == Permutations(Fds) \cup Permutations(Servers)

(* loop_two: no signal, and one queue at a time holds a connection.        *)
Quiet ==
  /\ ~stop
  /\ \A s, t \in Servers : backlog[s] > 0 /\ backlog[t] > 0 => s = t
=============================================================================
