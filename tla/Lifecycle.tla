------------------------------ MODULE Lifecycle ------------------------------
(***************************************************************************)
(* main (srcs/main.cpp) from the configuration file to the exit: the       *)
(* parser of Config fills serverMap, a listening socket is created for     *)
(* each server, setup_epoll watches them, run_server serves until a signal *)
(* or an exception, and both ways out close what is open.                  *)
(*                                                                         *)
(* The kernel's side is the table of open descriptors, of which a new one  *)
(* always gets the lowest free number.                                     *)
(***************************************************************************)
EXTENDS Config

CONSTANTS
  Inherited,  \* descriptors that are open when the process starts
  LastFd      \* bound: the highest descriptor number

ASSUME DescriptorsAssumption == LastFd \in Nat /\ Inherited \subseteq 0 .. LastFd

Descriptors == 0 .. LastFd
Uses        == {"free", "inherited", "listening", "epoll", "client"}
As(use)     == [use |-> use, port |-> 0]
At(port)    == [use |-> "listening", port |-> port]

VARIABLES
  step,        \* where main is
  files,       \* what each descriptor is open for
  _server_fd,  \* getFd() of the servers, 0 until setFd
  todo,        \* servers the loop over create_server_socket has to visit
  epoll_fd,    \* main's epoll_fd, -1 until setup_epoll returns
  watched,     \* descriptors in the epoll instance
  code,        \* how the process ended
  stop         \* g_stop_server

main_vars == <<step, files, _server_fd, todo, epoll_fd, watched, code, stop>>
all_vars == <<vars, main_vars>>

Free == {d \in Descriptors : files[d].use = "free"}
Lowest == CHOOSE d \in Free : \A e \in Free : d <= e
Clients == {d \in Descriptors : files[d].use = "client"}

MainInit ==
  /\ Init
  /\ step = "parsing"
  /\ files = [d \in Descriptors |-> As(IF d \in Inherited THEN "inherited" ELSE "free")]
  /\ _server_fd = <<>> /\ todo = {}
  /\ epoll_fd = -1 /\ watched = {}
  /\ code = "none" /\ stop = FALSE

-----------------------------------------------------------------------------
(* Closes what the numbers say, set or not. *)
Bug_CleanUp_unset == {epoll_fd} \cup {_server_fd[id] : id \in DOMAIN _server_fd}

(* What the two ends of main close, the normal one and the catch block.    *)
CleanUp ==
  (IF epoll_fd # -1 THEN {epoll_fd} ELSE {}) \cup
    {_server_fd[id] : id \in {i \in DOMAIN _server_fd : _server_fd[i] > 0}}

(* The clients are closed by closeAllClients at the end of run_server, or, *)
(* when an exception leaves it, by the destructor of its copy of the map.  *)
Exit(c) ==
  /\ step' = "exited" /\ code' = c
  /\ files' = [d \in Descriptors |->
                 IF d \in CleanUp \cup Clients THEN As("free") ELSE files[d]]
  /\ watched' = {}
  /\ UNCHANGED <<vars, _server_fd, todo, epoll_fd, stop>>

(* count_nginx_servers has returned; an empty map ends main.               *)
Parsed ==
  /\ step = "parsing" /\ outcome # "reading"
  /\ IF DOMAIN serverMap = {} THEN Exit("1")
     ELSE /\ step' = "sockets"
          /\ todo' = DOMAIN serverMap
          /\ _server_fd' = [id \in DOMAIN serverMap |-> 0]
          /\ UNCHANGED <<vars, files, epoll_fd, watched, code, stop>>

(* The port can be bound: no socket of this process listens on it.  That   *)
(* another process does is one of the failures of create_server_socket.    *)
Bindable(port) == \A d \in Descriptors : files[d] # At(port)

(* Sets the descriptor of the first server every time. *)
Bug_create_server_socket_first(id) ==
  /\ step = "sockets" /\ id \in todo /\ \A i \in todo : id <= i
  /\ \/ /\ Free # {} /\ Bindable(serverMap[id].port)
        /\ files' = [files EXCEPT ![Lowest] = At(serverMap[id].port)]
        /\ _server_fd' = [_server_fd EXCEPT ![1] = Lowest]
        /\ todo' = todo \ {id}
        /\ step' = IF todo = {id} THEN "epoll" ELSE "sockets"
        /\ UNCHANGED <<vars, epoll_fd, watched, code, stop>>
     \/ Exit("1")

(* One round of main's loop: socket, setsockopt, bind, listen, setFd.  A   *)
(* failure closes the new socket, if there is one, and throws to main.     *)
create_server_socket(id) ==
  /\ step = "sockets" /\ id \in todo /\ \A i \in todo : id <= i
  /\ \/ /\ Free # {} /\ Bindable(serverMap[id].port)
        /\ files' = [files EXCEPT ![Lowest] = At(serverMap[id].port)]
        /\ _server_fd' = [_server_fd EXCEPT ![id] = Lowest]
        /\ todo' = todo \ {id}
        /\ step' = IF todo = {id} THEN "epoll" ELSE "sockets"
        /\ UNCHANGED <<vars, epoll_fd, watched, code, stop>>
     \/ Exit("1")

(* epoll_create1 and an EPOLL_CTL_ADD for each server, on a copy of the    *)
(* map.  On failure the instance is closed again before main learns its    *)
(* number.                                                                 *)
setup_epoll ==
  /\ step = "epoll"
  /\ \/ /\ Free # {}
        /\ files' = [files EXCEPT ![Lowest] = As("epoll")]
        /\ epoll_fd' = Lowest
        /\ watched' = {_server_fd[id] : id \in DOMAIN _server_fd}
        /\ step' = "running"
        /\ UNCHANGED <<vars, _server_fd, todo, code, stop>>
     \/ Exit("1")

(* While the loop runs, clients come and go (EventLoop).                   *)
Accept ==
  /\ step = "running" /\ Free # {}
  /\ files' = [files EXCEPT ![Lowest] = As("client")]
  /\ UNCHANGED <<vars, step, _server_fd, todo, epoll_fd, watched, code, stop>>

CloseClient ==
  /\ step = "running"
  /\ \E d \in Clients : files' = [files EXCEPT ![d] = As("free")]
  /\ UNCHANGED <<vars, step, _server_fd, todo, epoll_fd, watched, code, stop>>

(* run_server returns when its loop test finds g_stop_server set, which    *)
(* may be before the first epoll_wait, ...                                 *)
ServeReturns == step = "running" /\ stop /\ Exit("0")

(* ... or throws.                                                          *)
ServeThrows == step = "running" /\ Exit("1")

(* SIGPIPE ends the process; the kernel closes everything.                 *)
Killed ==
  /\ step = "running"
  /\ step' = "exited" /\ code' = "killed"
  /\ files' = [d \in Descriptors |-> As("free")] /\ watched' = {}
  /\ UNCHANGED <<vars, _server_fd, todo, epoll_fd, stop>>

(* One that arrives while the file is read is seen no earlier than one     *)
(* that arrives right after.                                               *)
signal_handler ==
  /\ step \in {"sockets", "epoll", "running"} /\ ~stop
  /\ stop' = TRUE
  /\ UNCHANGED <<vars, step, files, _server_fd, todo, epoll_fd, watched, code>>

MainNext ==
  \/ step = "parsing" /\ Next /\ UNCHANGED main_vars
  \/ Parsed
  \/ \E id \in todo : create_server_socket(id)
  \/ setup_epoll
  \/ ServeReturns
  \/ ServeThrows
  \/ Accept
  \/ CloseClient
  \/ Killed
  \/ signal_handler

MainSpec == MainInit /\ [][MainNext]_all_vars

-----------------------------------------------------------------------------
(* Properties.                                                             *)

MainTypeOK ==
  /\ TypeOK
  /\ step \in {"parsing", "sockets", "epoll", "running", "exited"}
  /\ files \in [Descriptors -> [use : Uses, port : Ports \cup {0}]]
  /\ todo \subseteq DOMAIN _server_fd
  /\ \A id \in DOMAIN _server_fd : _server_fd[id] \in Descriptors
  /\ epoll_fd \in Descriptors \cup {-1}
  /\ watched \subseteq Descriptors
  /\ code \in {"none", "0", "1", "killed"}
  /\ stop \in BOOLEAN

(* When the loop runs, every server of an accepted file has a descriptor   *)
(* of its own that listens on its own port, and epoll watches these        *)
(* descriptors and no other: none is taken for a client's.                 *)
EveryServerListens ==
  step = "running" =>
    /\ outcome = "accepted"
    /\ DOMAIN _server_fd = 1 .. server_count
    /\ \A id \in DOMAIN _server_fd :
         files[_server_fd[id]] = At(serverMap[id].port)
    /\ watched = {d \in Descriptors : files[d].use = "listening"}

(* At every moment what main would close, should the next call fail, is    *)
(* what it has opened, each descriptor once and none of another's; only a  *)
(* listening socket that got number 0 would be passed over.                *)
CleanUpIsExact ==
  step # "exited" =>
    CleanUp \ {0} = {d \in Descriptors : files[d].use \in {"listening", "epoll"}} \ {0}
=============================================================================
