--------------------------- MODULE Lifecycle_proofs ---------------------------
(***************************************************************************)
(* main, for any file, any ports and any number of descriptors: it does    *)
(* with the parser's state only what the parser does, every server of an   *)
(* accepted file listens when the loop starts, and whatever fails main     *)
(* closes what it has opened.                                              *)
(***************************************************************************)
EXTENDS Lifecycle, Config_proofs, WellFoundedInduction

(* A rejected file leaves no servers.                                      *)
RejectedEmpty == outcome = "rejected" => DOMAIN serverMap = {}

(* Until the file is read nothing is open that main has to close.          *)
NothingYet ==
  step = "parsing" =>
    /\ _server_fd = <<>> /\ todo = {} /\ epoll_fd = -1
    /\ \A d \in Descriptors : files[d].use \in {"free", "inherited"}

(* From then on the servers visited, and no others, have a descriptor.     *)
SocketsOwned ==
  step \in {"sockets", "epoll", "running"} =>
    /\ outcome = "accepted" /\ DOMAIN _server_fd = DOMAIN serverMap
    /\ \A id \in todo : _server_fd[id] = 0
    /\ \A id \in DOMAIN _server_fd \ todo :
         files[_server_fd[id]] = At(serverMap[id].port)
    /\ \A d \in Descriptors : files[d].use = "listening" =>
         \E id \in DOMAIN _server_fd \ todo : _server_fd[id] = d
    /\ step # "sockets" => todo = {}

(* main knows the epoll instance as long as it is open.                    *)
EpollOwned ==
  /\ step \in {"sockets", "epoll"} =>
       epoll_fd = -1 /\ \A d \in Descriptors : files[d].use # "epoll"
  /\ step = "running" =>
       /\ epoll_fd \in Descriptors
       /\ \A d \in Descriptors : files[d].use = "epoll" <=> d = epoll_fd
       /\ watched = {_server_fd[id] : id \in DOMAIN _server_fd}

LInv == RejectedEmpty /\ MainTypeOK /\ NothingYet /\ SocketsOwned /\ EpollOwned

-----------------------------------------------------------------------------

(* The kernel has a lowest free descriptor whenever one is free.           *)
LEMMA LowestIsFree ==
  ASSUME Free # {}
  PROVE  Lowest \in Free /\ Lowest \in Descriptors /\ files[Lowest].use = "free"
<1>1. Free \subseteq Descriptors /\ Descriptors \subseteq Nat
  BY DescriptorsAssumption DEF Free, Descriptors
<1>2. PICK m \in Free : \A k \in Free : <<k, m>> \notin OpToRel(<, Nat)
  BY <1>1, WFMin, NatLessThanWellFounded, Zenon
<1>3. \A k \in Free : ~(k < m)
  BY <1>1, <1>2, Zenon DEF OpToRel
<1>4. \A k \in Free : m <= k
  BY <1>1, <1>3
<1>5. Lowest \in Free
  BY <1>4, Zenon DEF Lowest
<1>6. QED  BY <1>1, <1>5 DEF Free

(* The uses of a descriptor are told apart.                                *)
LEMMA UsesDiffer ==
  /\ \A use : As(use).use = use
  /\ \A port : At(port).use = "listening" /\ At(port).port = port
BY DEF As, At

(* What a step of the parser may do to the outcome.                        *)
LEMMA OutcomeSteps ==
  ASSUME Next
  PROVE  /\ outcome = "reading"
         /\ \/ outcome' = outcome \/ outcome' = "accepted"
            \/ outcome' = "rejected" /\ serverMap' = <<>>
<1>1. CASE \E between \in {"", "word"}, oneline \in BOOLEAN :
             handleServerBlockStart(between, oneline)
  BY <1>1 DEF handleServerBlockStart, Throw
<1>2. CASE \E path \in Paths \cup {""}, oneline \in BOOLEAN :
             handleLocationBlock(path, oneline)
  BY <1>2 DEF handleLocationBlock, Throw
<1>6. CASE \E block \in Paths \cup {"server"} : BraceOnNextLine(block)
  BY <1>6 DEF BraceOnNextLine, Throw
<1>3. CASE \E n \in 0 .. 2 : handleClosingBrace(n)
  BY <1>3 DEF handleClosingBrace, Throw
<1>4. CASE \E name \in Names, value \in Values, port \in Ports \cup {0, Wraps}, ok \in BOOLEAN :
             processServerBlockContent(name, value, port, ok)
  BY <1>4 DEF processServerBlockContent, handleLocationDirective,
              handleListenDirective, ServerDirective, Throw, vars
<1>5. CASE EndOfFile
  BY <1>5 DEF EndOfFile, Throw
<1>7. QED  BY <1>1, <1>2, <1>3, <1>4, <1>5, <1>6 DEF Next

(* What the parser did not throw away when it ends is there to listen.     *)
LEMMA MapTyped ==
  ASSUME IInv
  PROVE  \A id \in DOMAIN serverMap : serverMap[id].port \in Ports
BY DEF IInv, PortsUnique

-----------------------------------------------------------------------------

(* A step of main that leaves the parser alone.                            *)
LEMMA ParserAlone ==
  ASSUME LInv, UNCHANGED vars
  PROVE  RejectedEmpty'
BY DEF LInv, RejectedEmpty, vars

(* Both ends of main.                                                      *)
LEMMA ExitPreserves ==
  ASSUME LInv, IInv', NEW c \in {"0", "1"}, Exit(c)
  PROVE  LInv'
<1>1. /\ step' = "exited" /\ code' = c /\ watched' = {}
      /\ UNCHANGED <<vars, _server_fd, todo, epoll_fd, stop>>
      /\ files' = [d \in Descriptors |->
                     IF d \in CleanUp \cup Clients THEN As("free") ELSE files[d]]
  BY DEF Exit
<1>2. files' \in [Descriptors -> [use : Uses, port : Ports \cup {0}]]
  <2>1. As("free") \in [use : Uses, port : Ports \cup {0}]
    BY DEF As, Uses
  <2>2. QED  BY <1>1, <2>1 DEF LInv, MainTypeOK
<1>3. MainTypeOK'
  BY <1>1, <1>2 DEF LInv, MainTypeOK, IInv
<1>4. QED  BY <1>1, <1>3, ParserAlone DEF LInv, NothingYet, SocketsOwned, EpollOwned

(* The descriptor table with one new entry.                                *)
LEMMA TableTyped ==
  ASSUME LInv, NEW d \in Descriptors, NEW e \in [use : Uses, port : Ports \cup {0}]
  PROVE  /\ [files EXCEPT ![d] = e] \in [Descriptors -> [use : Uses, port : Ports \cup {0}]]
         /\ [files EXCEPT ![d] = e][d] = e
         /\ \A f \in Descriptors \ {d} : [files EXCEPT ![d] = e][f] = files[f]
BY DEF LInv, MainTypeOK

(* The file has been read.                                                 *)
LEMMA ParsedPreserves ==
  ASSUME IInv, LInv, IInv', Parsed
  PROVE  LInv'
<1>1. CASE DOMAIN serverMap = {}
  BY <1>1, ExitPreserves DEF Parsed
<1>2. CASE DOMAIN serverMap # {}
  <2>1. /\ step = "parsing" /\ outcome # "reading" /\ step' = "sockets"
        /\ todo' = DOMAIN serverMap
        /\ _server_fd' = [id \in DOMAIN serverMap |-> 0]
        /\ UNCHANGED <<vars, files, epoll_fd, watched, code, stop>>
    BY <1>2 DEF Parsed
  <2>2. serverMap' = serverMap /\ outcome' = outcome
    BY <2>1 DEF vars
  <2>3. outcome = "accepted"
    BY <1>2, <2>1 DEF LInv, RejectedEmpty, IInv, TypeOK
  <2>4. MainTypeOK'
    <3>1. 0 \in Descriptors
      BY DescriptorsAssumption DEF Descriptors
    <3>2. QED  BY <2>1, <3>1 DEF LInv, MainTypeOK, IInv
  <2>5. SocketsOwned'
    BY <2>1, <2>2, <2>3 DEF LInv, NothingYet, SocketsOwned
  <2>6. EpollOwned' /\ NothingYet'
    BY <2>1 DEF LInv, NothingYet, EpollOwned
  <2>7. QED  BY <2>1, <2>4, <2>5, <2>6, ParserAlone DEF LInv
<1>3. QED  BY <1>1, <1>2

(* A new socket is none of those already open.                             *)
LEMMA SocketPreserves ==
  ASSUME IInv, LInv, IInv', NEW id \in todo, create_server_socket(id)
  PROVE  LInv'
<1>1. CASE Exit("1")
  BY <1>1, ExitPreserves
<1>2. CASE /\ Free # {} /\ Bindable(serverMap[id].port)
           /\ files' = [files EXCEPT ![Lowest] = At(serverMap[id].port)]
           /\ _server_fd' = [_server_fd EXCEPT ![id] = Lowest]
           /\ todo' = todo \ {id}
           /\ step' = IF todo = {id} THEN "epoll" ELSE "sockets"
           /\ UNCHANGED <<vars, epoll_fd, watched, code, stop>>
  <2>1. step = "sockets" /\ step' \in {"sockets", "epoll"}
    BY <1>2 DEF create_server_socket
  <2>2. /\ Lowest \in Descriptors /\ files[Lowest].use = "free"
        /\ serverMap' = serverMap /\ outcome' = outcome
    BY <1>2, LowestIsFree DEF vars
  <2>3. /\ id \in DOMAIN _server_fd /\ DOMAIN _server_fd = DOMAIN serverMap
        /\ outcome = "accepted" /\ DOMAIN _server_fd' = DOMAIN _server_fd
        /\ _server_fd'[id] = Lowest
        /\ \A i \in DOMAIN _server_fd \ {id} : _server_fd'[i] = _server_fd[i]
    BY <1>2, <2>1 DEF LInv, MainTypeOK, SocketsOwned
  <2>4. At(serverMap[id].port) \in [use : Uses, port : Ports \cup {0}]
    BY <2>3, MapTyped DEF At, Uses
  <2>5. /\ files' \in [Descriptors -> [use : Uses, port : Ports \cup {0}]]
        /\ files'[Lowest] = At(serverMap[id].port)
        /\ \A f \in Descriptors \ {Lowest} : files'[f] = files[f]
    BY <1>2, <2>2, <2>4, TableTyped
  <2>6. \A i \in DOMAIN _server_fd : _server_fd[i] \in Descriptors
    BY DEF LInv, MainTypeOK
  <2>7. MainTypeOK'
    <3>1. todo' \subseteq DOMAIN _server_fd'
      BY <1>2, <2>3 DEF LInv, MainTypeOK
    <3>2. \A i \in DOMAIN _server_fd' : _server_fd'[i] \in Descriptors
      BY <2>2, <2>3, <2>6
    <3>3. QED  BY <1>2, <2>1, <2>5, <3>1, <3>2 DEF LInv, MainTypeOK, IInv
  <2>8. SocketsOwned'
    <3>1. \A i \in todo' : _server_fd'[i] = 0
      BY <1>2, <2>1, <2>3 DEF LInv, SocketsOwned, MainTypeOK
    <3>2. \A i \in DOMAIN _server_fd' \ todo' :
            files'[_server_fd'[i]] = At(serverMap'[i].port)
      <4> SUFFICES ASSUME NEW i \in DOMAIN _server_fd' \ todo'
                   PROVE  files'[_server_fd'[i]] = At(serverMap'[i].port)
        OBVIOUS
      <4>1. CASE i = id
        BY <2>2, <2>3, <2>5, <4>1
      <4>2. CASE i # id
        <5>1. i \in DOMAIN _server_fd \ todo /\ _server_fd'[i] = _server_fd[i]
          BY <1>2, <2>3, <4>2
        <5>2. files[_server_fd[i]] = At(serverMap[i].port)
          BY <2>1, <5>1 DEF LInv, SocketsOwned
        <5>3. _server_fd[i] # Lowest
          BY <2>2, <5>2, UsesDiffer
        <5>4. QED  BY <2>2, <2>5, <2>6, <5>1, <5>2, <5>3
      <4>3. QED  BY <4>1, <4>2
    <3>3. \A d \in Descriptors : files'[d].use = "listening" =>
            \E i \in DOMAIN _server_fd' \ todo' : _server_fd'[i] = d
      <4> SUFFICES ASSUME NEW d \in Descriptors, files'[d].use = "listening"
                   PROVE  \E i \in DOMAIN _server_fd' \ todo' : _server_fd'[i] = d
        OBVIOUS
      <4>1. CASE d = Lowest
        BY <1>2, <2>3, <4>1
      <4>2. CASE d # Lowest
        <5>1. PICK i \in DOMAIN _server_fd \ todo : _server_fd[i] = d
          BY <2>1, <2>5, <4>2 DEF LInv, SocketsOwned
        <5>2. i # id /\ i \in DOMAIN _server_fd' \ todo'
          BY <1>2, <2>3, <5>1
        <5>3. QED  BY <2>3, <5>1, <5>2
      <4>3. QED  BY <4>1, <4>2
    <3>4. step' # "sockets" => todo' = {}
      BY <1>2
    <3>5. QED  BY <2>2, <2>3, <3>1, <3>2, <3>3, <3>4 DEF SocketsOwned
  <2>9. EpollOwned' /\ NothingYet'
    BY <1>2, <2>1, <2>2, <2>5, UsesDiffer DEF LInv, NothingYet, EpollOwned
  <2>10. QED  BY <1>2, <2>7, <2>8, <2>9, ParserAlone DEF LInv
<1>3. QED  BY <1>1, <1>2 DEF create_server_socket

-----------------------------------------------------------------------------

(* Changing a descriptor that is not a listening one, to one that is not,  *)
(* keeps the sockets owned.                                                *)
LEMMA OtherDescriptor ==
  ASSUME LInv, step \in {"epoll", "running"}, step' \in {"epoll", "running"},
         UNCHANGED <<vars, _server_fd, todo>>,
         NEW d \in Descriptors, files[d].use # "listening",
         files'[d].use # "listening",
         \A f \in Descriptors \ {d} : files'[f] = files[f]
  PROVE  SocketsOwned'
<1>1. /\ serverMap' = serverMap /\ outcome' = outcome
      /\ _server_fd' = _server_fd /\ todo' = todo
  BY DEF vars
<1>2. /\ outcome = "accepted" /\ DOMAIN _server_fd = DOMAIN serverMap
      /\ todo = {}
      /\ \A id \in DOMAIN _server_fd \ todo :
           files[_server_fd[id]] = At(serverMap[id].port)
      /\ \A f \in Descriptors : files[f].use = "listening" =>
           \E id \in DOMAIN _server_fd \ todo : _server_fd[id] = f
  BY DEF LInv, SocketsOwned
<1>3. \A id \in DOMAIN _server_fd : _server_fd[id] \in Descriptors
  BY DEF LInv, MainTypeOK
<1>4. \A id \in DOMAIN _server_fd \ todo :
        files'[_server_fd[id]] = At(serverMap[id].port)
  <2> SUFFICES ASSUME NEW id \in DOMAIN _server_fd \ todo
               PROVE  files'[_server_fd[id]] = At(serverMap[id].port)
    OBVIOUS
  <2>1. files[_server_fd[id]] = At(serverMap[id].port)
    BY <1>2
  <2>2. _server_fd[id] # d
    BY <2>1, UsesDiffer
  <2>3. QED  BY <1>3, <2>1, <2>2
<1>5. \A f \in Descriptors : files'[f].use = "listening" =>
        \E id \in DOMAIN _server_fd \ todo : _server_fd[id] = f
  BY <1>2
<1>6. QED  BY <1>1, <1>2, <1>4, <1>5 DEF SocketsOwned

(* The epoll instance is none of the sockets.                              *)
LEMMA EpollPreserves ==
  ASSUME IInv, LInv, IInv', setup_epoll
  PROVE  LInv'
<1>1. CASE Exit("1")
  BY <1>1, ExitPreserves
<1>2. CASE /\ Free # {}
           /\ files' = [files EXCEPT ![Lowest] = As("epoll")]
           /\ epoll_fd' = Lowest
           /\ watched' = {_server_fd[id] : id \in DOMAIN _server_fd}
           /\ step' = "running"
           /\ UNCHANGED <<vars, _server_fd, todo, code, stop>>
  <2>1. step = "epoll"
    BY DEF setup_epoll
  <2>2. Lowest \in Descriptors /\ files[Lowest].use = "free"
    BY <1>2, LowestIsFree
  <2>3. As("epoll") \in [use : Uses, port : Ports \cup {0}]
    BY DEF As, Uses
  <2>4. /\ files' \in [Descriptors -> [use : Uses, port : Ports \cup {0}]]
        /\ files'[Lowest] = As("epoll")
        /\ \A f \in Descriptors \ {Lowest} : files'[f] = files[f]
    BY <1>2, <2>2, <2>3, TableTyped
  <2>5. MainTypeOK'
    <3>1. watched' \subseteq Descriptors
      BY <1>2 DEF LInv, MainTypeOK
    <3>2. QED  BY <1>2, <2>2, <2>4, <3>1 DEF LInv, MainTypeOK, IInv
  <2>6. SocketsOwned'
    BY <1>2, <2>1, <2>2, <2>4, OtherDescriptor, UsesDiffer
  <2>7. EpollOwned' /\ NothingYet'
    BY <1>2, <2>1, <2>2, <2>4, UsesDiffer DEF LInv, EpollOwned, NothingYet
  <2>8. QED  BY <1>2, <2>5, <2>6, <2>7, ParserAlone DEF LInv
<1>3. QED  BY <1>1, <1>2 DEF setup_epoll

(* A client comes or goes.                                                 *)
LEMMA ClientPreserves ==
  ASSUME IInv, LInv, IInv', step = "running",
         UNCHANGED <<vars, step, _server_fd, todo, epoll_fd, watched, code, stop>>,
         NEW d \in Descriptors, NEW use \in {"free", "client"},
         files[d].use \in {"free", "client"},
         files' = [files EXCEPT ![d] = As(use)]
  PROVE  LInv'
<1>1. As(use) \in [use : Uses, port : Ports \cup {0}]
  BY DEF As, Uses
<1>2. /\ files' \in [Descriptors -> [use : Uses, port : Ports \cup {0}]]
      /\ files'[d] = As(use)
      /\ \A f \in Descriptors \ {d} : files'[f] = files[f]
  BY <1>1, TableTyped
<1>3. files'[d].use = use
  BY <1>2, UsesDiffer
<1>4. MainTypeOK'
  BY <1>2 DEF LInv, MainTypeOK, IInv
<1>5. SocketsOwned'
  BY <1>2, <1>3, OtherDescriptor
<1>6. EpollOwned' /\ NothingYet'
  BY <1>2, <1>3 DEF LInv, EpollOwned, NothingYet
<1>7. QED  BY <1>4, <1>5, <1>6, ParserAlone DEF LInv

-----------------------------------------------------------------------------

(* main's specification implements the parser's.                           *)
THEOREM MainParses == MainSpec => Spec
<1>1. MainInit => Init
  BY DEF MainInit
<1>2. [MainNext]_all_vars => [Next]_vars
  BY DEF MainNext, all_vars, main_vars, Parsed, Exit, create_server_socket,
         setup_epoll, Accept, CloseClient, ServeReturns, ServeThrows, Killed,
         signal_handler
<1>3. QED  BY <1>1, <1>2, PTL DEF MainSpec, Spec

(* What main needs to know at each of its steps.                           *)
THEOREM MainInvariance == MainSpec => [](IInv /\ LInv)
<1>1. MainInit => LInv
  <2> SUFFICES ASSUME MainInit PROVE LInv
    OBVIOUS
  <2>1. IInv
    BY InitIInv DEF MainInit
  <2>2. \A d \in Descriptors : files[d].use \in {"free", "inherited"}
    BY UsesDiffer DEF MainInit
  <2>3. files \in [Descriptors -> [use : Uses, port : Ports \cup {0}]]
    BY DEF MainInit, As, Uses
  <2>4. DOMAIN _server_fd = {}
    BY DEF MainInit
  <2>5. MainTypeOK
    BY <2>1, <2>3, <2>4 DEF MainInit, MainTypeOK, IInv
  <2>6. RejectedEmpty /\ NothingYet /\ SocketsOwned /\ EpollOwned
    BY <2>2 DEF MainInit, Init, RejectedEmpty, NothingYet, SocketsOwned, EpollOwned
  <2>7. QED  BY <2>5, <2>6 DEF LInv
<1>2. IInv /\ LInv /\ IInv' /\ [MainNext]_all_vars => LInv'
  <2> SUFFICES ASSUME IInv, LInv, IInv', [MainNext]_all_vars
               PROVE  LInv'
    OBVIOUS
  <2>1. CASE step = "parsing" /\ Next /\ UNCHANGED main_vars
    <3>1. RejectedEmpty'
      BY <2>1, OutcomeSteps DEF RejectedEmpty
    <3>2. MainTypeOK'
      BY <2>1 DEF LInv, MainTypeOK, main_vars, IInv
    <3>3. NothingYet' /\ SocketsOwned' /\ EpollOwned'
      BY <2>1 DEF LInv, NothingYet, SocketsOwned, EpollOwned, main_vars
    <3>4. QED  BY <3>1, <3>2, <3>3 DEF LInv
  <2>2. CASE Parsed
    BY <2>2, ParsedPreserves
  <2>3. CASE \E id \in todo : create_server_socket(id)
    BY <2>3, SocketPreserves
  <2>4. CASE setup_epoll
    BY <2>4, EpollPreserves
  <2>5. CASE ServeReturns \/ ServeThrows
    BY <2>5, ExitPreserves DEF ServeReturns, ServeThrows
  <2>6. CASE Accept
    BY <2>6, LowestIsFree, ClientPreserves DEF Accept
  <2>7. CASE CloseClient
    BY <2>7, ClientPreserves DEF CloseClient, Clients
  <2>8. CASE Killed
    <3>1. As("free") \in [use : Uses, port : Ports \cup {0}]
      BY DEF As, Uses
    <3>2. MainTypeOK'
      BY <2>8, <3>1 DEF Killed, LInv, MainTypeOK, IInv
    <3>3. NothingYet' /\ SocketsOwned' /\ EpollOwned'
      BY <2>8 DEF Killed, NothingYet, SocketsOwned, EpollOwned
    <3>4. QED  BY <2>8, <3>2, <3>3, ParserAlone DEF Killed, LInv
  <2>9. CASE signal_handler \/ UNCHANGED all_vars
    <3>1. UNCHANGED <<vars, step, files, _server_fd, todo, epoll_fd, watched, code>>
            /\ stop' \in BOOLEAN
      BY <2>9 DEF signal_handler, all_vars, main_vars, LInv, MainTypeOK
    <3>2. MainTypeOK'
      BY <3>1 DEF LInv, MainTypeOK, IInv
    <3>3. NothingYet' /\ SocketsOwned' /\ EpollOwned'
      BY <3>1 DEF LInv, NothingYet, SocketsOwned, EpollOwned, vars
    <3>4. QED  BY <3>1, <3>2, <3>3, ParserAlone DEF LInv
  <2>10. QED  BY <2>1, <2>2, <2>3, <2>4, <2>5, <2>6, <2>7, <2>8, <2>9 DEF MainNext
<1>3. QED  BY <1>1, <1>2, MainParses, Invariance, PTL DEF MainSpec

(* Every variable of main stays in its type.                               *)
THEOREM MainTypeCorrect == MainSpec => []MainTypeOK
BY MainInvariance, PTL DEF LInv

(* When the loop runs, every server of the file listens on its port and is *)
(* watched, and nothing else is.                                           *)
THEOREM ServersListen == MainSpec => []EveryServerListens
<1>1. IInv /\ LInv => EveryServerListens
  <2> SUFFICES ASSUME IInv, LInv, step = "running"
               PROVE  EveryServerListens
    BY DEF EveryServerListens
  <2>1. /\ outcome = "accepted" /\ DOMAIN _server_fd = DOMAIN serverMap
        /\ todo = {}
        /\ \A id \in DOMAIN _server_fd :
             files[_server_fd[id]] = At(serverMap[id].port)
        /\ \A d \in Descriptors : files[d].use = "listening" =>
             \E id \in DOMAIN _server_fd : _server_fd[id] = d
    BY DEF LInv, SocketsOwned
  <2>2. DOMAIN _server_fd = 1 .. server_count
    BY <2>1 DEF IInv, AcceptedFilesBalance
  <2>3. watched = {d \in Descriptors : files[d].use = "listening"}
    <3>1. watched = {_server_fd[id] : id \in DOMAIN _server_fd}
      BY DEF LInv, EpollOwned
    <3>2. \A id \in DOMAIN _server_fd :
            _server_fd[id] \in Descriptors /\ files[_server_fd[id]].use = "listening"
      BY <2>1, UsesDiffer DEF LInv, MainTypeOK
    <3>3. QED  BY <2>1, <3>1, <3>2
  <2>4. QED  BY <2>1, <2>2, <2>3 DEF EveryServerListens
<1>2. QED  BY <1>1, MainInvariance, PTL

(* Whatever fails, main closes exactly what it has opened.                 *)
THEOREM CleansUp == MainSpec => []CleanUpIsExact
<1>1. IInv /\ LInv => CleanUpIsExact
  <2> SUFFICES ASSUME IInv, LInv, step # "exited"
               PROVE  CleanUp \ {0} = {d \in Descriptors :
                                         files[d].use \in {"listening", "epoll"}} \ {0}
    BY DEF CleanUpIsExact
  <2> DEFINE Set == {i \in DOMAIN _server_fd : _server_fd[i] > 0}
  <2>1. CASE step = "parsing"
    <3>1. DOMAIN _server_fd = {} /\ epoll_fd = -1
      BY <2>1 DEF LInv, NothingYet
    <3>2. CleanUp = {}
      BY <3>1 DEF CleanUp
    <3>3. QED  BY <2>1, <3>2 DEF LInv, NothingYet
  <2>2. CASE step \in {"sockets", "epoll", "running"}
    <3>1. /\ \A id \in todo : _server_fd[id] = 0
          /\ \A id \in DOMAIN _server_fd \ todo :
               files[_server_fd[id]].use = "listening"
          /\ \A d \in Descriptors : files[d].use = "listening" =>
               \E id \in DOMAIN _server_fd \ todo : _server_fd[id] = d
      BY <2>2, UsesDiffer DEF LInv, SocketsOwned
    <3>2. /\ \A id \in DOMAIN _server_fd : _server_fd[id] \in Descriptors
          /\ \A d \in Descriptors : d \in Nat
      BY DescriptorsAssumption DEF LInv, MainTypeOK, Descriptors
    <3>3. {_server_fd[id] : id \in Set} \ {0}
            = {d \in Descriptors : files[d].use = "listening"} \ {0}
      <4>1. \A id \in Set : _server_fd[id] \in Descriptors
                              /\ files[_server_fd[id]].use = "listening"
        <5> SUFFICES ASSUME NEW id \in Set
                     PROVE  id \in DOMAIN _server_fd \ todo
          BY <3>1, <3>2
        <5>1. _server_fd[id] # 0
          BY <3>2
        <5>2. QED  BY <3>1, <5>1
      <4>2. \A d \in Descriptors \ {0} : files[d].use = "listening" =>
              \E id \in Set : _server_fd[id] = d
        BY <3>1, <3>2
      <4>3. QED  BY <4>1, <4>2
    <3>4. (IF epoll_fd # -1 THEN {epoll_fd} ELSE {})
            = {d \in Descriptors : files[d].use = "epoll"}
      <4>1. CASE step \in {"sockets", "epoll"}
        BY <4>1 DEF LInv, EpollOwned
      <4>2. CASE step = "running"
        <5>1. /\ epoll_fd \in Descriptors /\ epoll_fd # -1
              /\ \A d \in Descriptors : files[d].use = "epoll" <=> d = epoll_fd
          BY <3>2, <4>2 DEF LInv, EpollOwned
        <5>2. QED  BY <5>1
      <4>3. QED  BY <2>2, <4>1, <4>2
    <3>5. QED  BY <3>3, <3>4 DEF CleanUp
  <2>3. QED  BY <2>1, <2>2 DEF LInv, MainTypeOK
<1>2. QED  BY <1>1, MainInvariance, PTL
=============================================================================
