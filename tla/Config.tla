------------------------------- MODULE Config -------------------------------
(***************************************************************************)
(* The configuration parser (srcs/parsing): count_nginx_servers reads the  *)
(* file line by line, keeps flags instead of a stack of open blocks, and   *)
(* fills one Parsing_class after another into serverMap.                   *)
(*                                                                         *)
(* A line is one action, guarded by what kind of line it is; its text is   *)
(* abstracted to the words the parser branches on and to the blocks that   *)
(* its braces open and close for a reader of the file, which is not always *)
(* what the parser counts: it sees one brace of a line, a brace in a       *)
(* comment, and no brace that opens a block on a line of its own.  The     *)
(* history variables follow the text; against them the flags are judged.   *)
(***************************************************************************)
EXTENDS Integers, Sequences, FiniteSets

CONSTANTS
  Ports,      \* what isValidPort accepts
  Paths,      \* location paths
  Names,      \* directive names that occur in files
  Values,     \* values of directives
  NULL,       \* no location
  MaxServers, \* bound: server blocks in a file
  MaxDepth,   \* bound: blocks open at once
  MaxMisread  \* bound: lines with a brace that is counted wrongly

ServerNames   == {"server_name", "index", "root", "error_page",
                  "client_body_buffer_size"}
LocationNames == {"root", "index", "autoindex", "return", "allowed_methods",
                  "try_files", "fastcgi_pass", "cgi_extension", "cgi_timeout",
                  "expires", "add_header"}
Wraps == -1  \* a number beyond int that is a valid port once it has wrapped
RejectedOutside == {"listen", "server_name", "root", "error_page"}
Collecting == {"error_page", "allowed_methods", "try_files", "cgi_extension",
               "add_header"}

ASSUME PortsAssumption   == \A p \in Ports : p \in Nat /\ 0 < p /\ p <= 65535
ASSUME BoundsAssumption  == {MaxServers, MaxDepth, MaxMisread} \subseteq Nat
ASSUME PathsAssumption   == "server" \notin Paths

(* LocationData and Parsing_class: what each directive has set, {} for the *)
(* default.  NULL is what getLocation returns for a path without location. *)
LocationData  == [Names \cap LocationNames -> SUBSET Values]
Parsing_class ==
  [port : Ports \cup {0},
   set  : [Names \cap ServerNames -> SUBSET Values],
   _LocationMap : [Paths -> LocationData \cup {NULL}]]

ASSUME NULLAssumption == NULL \notin LocationData

NewLocation == [n \in Names \cap LocationNames |-> {}]

(* Parsing_class::clear, which is also what the constructor sets.          *)
cleared ==
  [port |-> 0,
   set  |-> [n \in Names \cap ServerNames |-> {}],
   _LocationMap |-> [p \in Paths |-> NULL]]

VARIABLES
  in_server_block, in_location_block, brace_level, server_count,
  current_location_path, current_server, used_ports,
  serverMap,  \* [1 .. n -> Parsing_class]
  outcome,    \* "reading", "accepted" or "rejected"
  open,       \* history: the blocks open in the text, "server" or a path
  closed,     \* history: a location has been closed in this server block
  misread,    \* history: lines whose braces the parser counts wrongly
  unmatched   \* history: the text has closed a block that was not open

flags == <<in_server_block, in_location_block, brace_level, server_count,
           current_location_path>>
text == <<open, closed, misread, unmatched>>
vars == <<flags, current_server, used_ports, serverMap, outcome, text>>

Init ==
  /\ in_server_block = FALSE /\ in_location_block = FALSE
  /\ brace_level = 0 /\ server_count = 0
  /\ current_location_path = ""
  /\ current_server = cleared
  /\ used_ports = {}
  /\ serverMap = <<>>
  /\ outcome = "reading"
  /\ open = <<>> /\ closed = FALSE /\ misread = 0 /\ unmatched = FALSE

-----------------------------------------------------------------------------
(* The exception: count_nginx_servers catches it and returns an empty map. *)
Throw ==
  /\ outcome' = "rejected"
  /\ serverMap' = <<>>
  /\ UNCHANGED <<flags, current_server, used_ports, text>>

(* The parser counts the braces of the line as the text has them, or not.  *)
Counts(rightly) ==
  /\ rightly \/ misread < MaxMisread
  /\ misread' = IF rightly THEN misread ELSE misread + 1

(* "server {" opens a block; a second one inside it, or a word before the  *)
(* brace, is an error.  A brace that closes it on its line is not seen.    *)
handleServerBlockStart(between, oneline) ==
  /\ outcome = "reading"
  /\ IF in_server_block \/ between # "" THEN Throw
     ELSE /\ server_count < MaxServers /\ Len(open) < MaxDepth
          /\ in_server_block' = TRUE
          /\ brace_level' = 1
          /\ server_count' = server_count + 1
          /\ current_server' = cleared
          /\ open' = IF oneline THEN open ELSE Append(open, "server")
          /\ closed' = oneline
          /\ Counts(~oneline)
          /\ UNCHANGED <<in_location_block, current_location_path, used_ports,
                         serverMap, outcome, unmatched>>

(* Does not count its brace. *)
Bug_handleLocationBlock_no_count(path, oneline) ==
  /\ outcome = "reading"
  /\ IF ~in_server_block \/ path = "" THEN Throw
     ELSE /\ Len(open) < MaxDepth
          /\ current_location_path' = path
          /\ current_server' =
               [current_server EXCEPT !._LocationMap[path] = NewLocation]
          /\ in_location_block' = TRUE
          /\ open' = IF oneline THEN open ELSE Append(open, path)
          /\ closed' = (closed \/ oneline)
          /\ Counts(~oneline)
          /\ UNCHANGED <<in_server_block, brace_level, server_count, used_ports,
                         serverMap, outcome, unmatched>>

(* Enters the location without keeping its path. *)
Bug_handleLocationBlock_keeps_path(path, oneline) ==
  /\ outcome = "reading"
  /\ IF ~in_server_block \/ path = "" THEN Throw
     ELSE /\ Len(open) < MaxDepth
          /\ current_location_path' =
               IF in_location_block THEN current_location_path ELSE path
          /\ current_server' =
               [current_server EXCEPT !._LocationMap[path] = NewLocation]
          /\ in_location_block' = TRUE
          /\ brace_level' = brace_level + 1
          /\ open' = IF oneline THEN open ELSE Append(open, path)
          /\ closed' = (closed \/ oneline)
          /\ Counts(~oneline)
          /\ UNCHANGED <<in_server_block, server_count, used_ports, serverMap,
                         outcome, unmatched>>

(* "location <path> {": it replaces a location of the same path and may    *)
(* stand inside another one.  A brace that closes it on its line is not    *)
(* seen.                                                                   *)
handleLocationBlock(path, oneline) ==
  /\ outcome = "reading"
  /\ IF ~in_server_block \/ path = "" THEN Throw
     ELSE /\ Len(open) < MaxDepth
          /\ current_location_path' = path
          /\ current_server' =
               [current_server EXCEPT !._LocationMap[path] = NewLocation]
          /\ in_location_block' = TRUE
          /\ brace_level' = brace_level + 1
          /\ open' = IF oneline THEN open ELSE Append(open, path)
          /\ closed' = (closed \/ oneline)
          /\ Counts(~oneline)
          /\ UNCHANGED <<in_server_block, server_count, used_ports, serverMap,
                         outcome, unmatched>>

(* "server" or "location <path>" and a "{" on the next line: inside a      *)
(* location both lines are directives it does not know; elsewhere neither  *)
(* opens a block.                                                          *)
BraceOnNextLine(block) ==
  /\ outcome = "reading"
  /\ IF in_location_block \/ (~in_server_block /\ block # "server") THEN Throw
     ELSE /\ Len(open) < MaxDepth
          /\ open' = Append(open, block)
          /\ Counts(FALSE)
          /\ UNCHANGED <<flags, current_server, used_ports, serverMap, outcome,
                         closed, unmatched>>

(* The text closes n blocks. *)
Popped(blocks, n) == SubSeq(blocks, 1, Len(blocks) - n)

(* Keeps in_location_block at the end of the server. *)
Bug_handleClosingBrace_keeps_location(n) ==
  /\ outcome = "reading"
  /\ IF ~in_server_block \/ (brace_level = 1 /\ current_server.port = 0)
     THEN Throw
     ELSE /\ brace_level' = brace_level - 1
          /\ IF brace_level = 1
             THEN /\ serverMap' =
                       [id \in DOMAIN serverMap \cup {server_count} |->
                          IF id = server_count THEN current_server
                                               ELSE serverMap[id]]
                  /\ in_server_block' = FALSE /\ UNCHANGED in_location_block
             ELSE UNCHANGED <<serverMap, in_server_block, in_location_block>>
          /\ open' = Popped(open, n) /\ closed' = TRUE
          /\ unmatched' = (unmatched \/ n > Len(open))
          /\ Counts(n = 1)
          /\ UNCHANGED <<server_count, current_location_path, current_server,
                         used_ports, outcome>>

(* A line with "}": the end of n blocks, where none is a directive with a  *)
(* brace in the comment behind it.  It counts as one, and a directive on   *)
(* the line is passed over.  The end of a location changes brace_level and *)
(* nothing else.                                                           *)
handleClosingBrace(n) ==
  /\ outcome = "reading"
  /\ IF ~in_server_block \/ (brace_level = 1 /\ current_server.port = 0)
     THEN Throw
     ELSE /\ brace_level' = brace_level - 1
          /\ IF brace_level = 1
             THEN /\ serverMap' =
                       [id \in DOMAIN serverMap \cup {server_count} |->
                          IF id = server_count THEN current_server
                                               ELSE serverMap[id]]
                  /\ in_server_block' = FALSE /\ in_location_block' = FALSE
             ELSE UNCHANGED <<serverMap, in_server_block, in_location_block>>
          /\ open' = Popped(open, n) /\ closed' = TRUE
          /\ unmatched' = (unmatched \/ n > Len(open))
          /\ Counts(n = 1)
          /\ UNCHANGED <<server_count, current_location_path, current_server,
                         used_ports, outcome>>

(* A directive replaces what an earlier one of its name has set, or adds:   *)
(* to a list, or to a map whose keys are part of the value.                *)
Kept(old, name, value) == IF name \in Collecting THEN old \cup {value} ELSE {value}

(* Inside a location every directive is the location's; "listen" and the   *)
(* other names it does not know are errors.                                *)
handleLocationDirective(name, value) ==
  IF name \notin LocationNames THEN Throw
  ELSE /\ current_server' =
            [current_server EXCEPT !._LocationMap[current_location_path][name] =
                                     Kept(@, name, value)]
       /\ UNCHANGED <<flags, used_ports, serverMap, outcome, text>>

(* Does not ask isValidPort. *)
Bug_handleListenDirective_unchecked(port) ==
  IF port \in used_ports THEN Throw
  ELSE /\ used_ports' = used_ports \cup {port}
       /\ current_server' = [current_server EXCEPT !.port = port]
       /\ UNCHANGED <<flags, serverMap, outcome, text>>

(* Does not note the port as used. *)
Bug_handleListenDirective_forgets(port) ==
  IF port = Wraps THEN UNCHANGED vars
  ELSE IF port \notin Ports THEN Throw
  ELSE /\ current_server' = [current_server EXCEPT !.port = port]
       /\ UNCHANGED <<flags, used_ports, serverMap, outcome, text>>

(* A later listen of the same block replaces the port; flag_listen, meant  *)
(* to prevent it, is never set.  isValidPort looks at atoi, whose result   *)
(* wraps; the stream that then reads the number does not, and sets nothing.*)
handleListenDirective(port) ==
  IF port = Wraps THEN UNCHANGED vars
  ELSE IF port \notin Ports \/ port \in used_ports THEN Throw
  ELSE /\ used_ports' = used_ports \cup {port}
       /\ current_server' = [current_server EXCEPT !.port = port]
       /\ UNCHANGED <<flags, serverMap, outcome, text>>

(* A directive of the server block: one without ";", or with a value its   *)
(* handler refuses, is an error; an unknown one is passed over.            *)
ServerDirective(name, value, ok) ==
  IF name \notin ServerNames THEN UNCHANGED vars
  ELSE IF ~ok THEN Throw
  ELSE /\ current_server' = [current_server EXCEPT !.set[name] = Kept(@, name, value)]
       /\ UNCHANGED <<flags, used_ports, serverMap, outcome, text>>

(* A directive line, by processServerBlockContent and, before it,          *)
(* validateDirectivesOutsideServerBlock.                                   *)
processServerBlockContent(name, value, port, ok) ==
  /\ outcome = "reading"
  /\ IF ~in_server_block
     THEN name \in RejectedOutside /\ Throw
     ELSE IF in_location_block THEN handleLocationDirective(name, value)
     ELSE IF name = "listen" /\ ok THEN handleListenDirective(port)
     ELSE IF name = "listen" THEN Throw
     ELSE ServerDirective(name, value, ok)

(* The end of the file inside a block is an error.                         *)
EndOfFile ==
  /\ outcome = "reading"
  /\ IF in_server_block \/ brace_level # 0 THEN Throw
     ELSE /\ outcome' = "accepted"
          /\ UNCHANGED <<flags, current_server, used_ports, serverMap, text>>

Next ==
  \/ \E between \in {"", "word"}, oneline \in BOOLEAN :
       handleServerBlockStart(between, oneline)
  \/ \E path \in Paths \cup {""}, oneline \in BOOLEAN :
       handleLocationBlock(path, oneline)
  \/ \E block \in Paths \cup {"server"} : BraceOnNextLine(block)
  \/ \E n \in 0 .. 2 : handleClosingBrace(n)
  \/ \E name \in Names, value \in Values, port \in Ports \cup {0, Wraps}, ok \in BOOLEAN :
       processServerBlockContent(name, value, port, ok)
  \/ EndOfFile

Spec == Init /\ [][Next]_vars

-----------------------------------------------------------------------------
(* Properties.                                                             *)

TypeOK ==
  /\ in_server_block \in BOOLEAN /\ in_location_block \in BOOLEAN
  /\ brace_level \in Nat /\ server_count \in Nat
  /\ current_location_path \in Paths \cup {""}
  /\ current_server \in Parsing_class
  /\ used_ports \subseteq Ports
  /\ DOMAIN serverMap \subseteq 1 .. server_count
  /\ \A id \in DOMAIN serverMap : serverMap[id] \in Parsing_class
  /\ outcome \in {"reading", "accepted", "rejected"}
  /\ open \in Seq(Paths \cup {"server"})
  /\ closed \in BOOLEAN /\ unmatched \in BOOLEAN
  /\ misread \in Nat

(* Every server of the map listens, and no two on the same port: no        *)
(* sequence of lines makes a later block inherit or repeat a port.         *)
PortsUnique ==
  \A i \in DOMAIN serverMap :
    /\ serverMap[i].port \in Ports
    /\ \A j \in DOMAIN serverMap : serverMap[i].port = serverMap[j].port => i = j

(* The location a directive line is applied to exists: getLocation never   *)
(* returns NULL to handleLocationDirective, which dereferences it.         *)
LocationExists ==
  outcome = "reading" /\ in_location_block =>
    /\ in_server_block
    /\ current_location_path \in Paths
    /\ current_server._LocationMap[current_location_path] # NULL

(* The blocks of the text, as far as it has been read, balance. *)
Balanced == open = <<>> /\ ~unmatched

(* A file is accepted with all its servers in the map.  If the parser      *)
(* counts all its braces rightly, its blocks balance; and one line whose   *)
(* braces it misreads (a block on one line, a brace in a comment, two that *)
(* close, one that opens on a line of its own), in a file whose blocks do  *)
(* balance, never passes: it is an error there or at the latest at the end *)
(* of the file.  Two such lines may make up for each other.                *)
AcceptedFilesBalance ==
  outcome = "accepted" =>
    /\ DOMAIN serverMap = 1 .. server_count
    /\ misread = 0 => Balanced
    /\ misread = 1 => ~Balanced

Target == IF in_location_block THEN current_location_path ELSE "server"

(* Until the first location of a server block is closed, or a line's       *)
(* braces are misread, a directive goes to the block it stands in.         *)
DirectiveInItsBlockUntilClose ==
  outcome = "reading" /\ in_server_block /\ ~closed /\ misread = 0 =>
    Target = open[Len(open)]

(* Claims of the documentation that the code does not keep.                *)

(* A directive goes to the block it stands in (README.md, "La syntaxe est  *)
(* inspiree de Nginx" and "location : Definit des regles pour des URI      *)
(* specifiques").                                                          *)
DirectiveInItsBlock ==
  outcome = "reading" /\ in_server_block /\ misread = 0 =>
    Target = open[Len(open)]
=============================================================================
