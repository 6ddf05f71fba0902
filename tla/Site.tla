--------------------------------- MODULE Site ---------------------------------
(***************************************************************************)
(* prepare_response (srcs/response/response.cpp) and what it calls, one    *)
(* request after another, against the file system.  Every stat, open,      *)
(* opendir, mkdir, write and remove is a step: between two of them another *)
(* process may create, replace or remove a file.                           *)
(*                                                                         *)
(* A reply stands for what tells it from others ("redirect" for whatever a *)
(* return directive says); its way to the client is EventLoop's, a script's*)
(* output Cgi's.                                                           *)
(***************************************************************************)
EXTENDS Routing, Forms

CONSTANTS
  Servers,     \* configurations of a server
  Requests,    \* requests: [methode, path, kind, headers, declared, body, fields]
  Nodes,       \* places in the file system, as sequences of names
  Start,       \* the file system at the start
  Denied,      \* nodes the process may not open, list, create or remove
  Contents,    \* what other processes write into files
  MaxRequests, \* bound: requests of a behaviour
  MaxChanges   \* bound: changes by other processes

Absent  == [type |-> "absent", data |-> <<>>]
Dir     == [type |-> "dir", data |-> <<>>]
File(d) == [type |-> "file", data |-> d]
NoNode  == <<>>

(* Names are texts without a slash; what is not at the top of the tree     *)
(* stands in a directory.                                                  *)
ASSUME NodesAssumption == Nodes \subseteq Seq(Text) /\ NoNode \notin Nodes
ASSUME StartAssumption ==
  /\ DOMAIN Start = Nodes
  /\ \A n \in Nodes :
       /\ Start[n] \in {Absent, Dir} \/ Start[n].type = "file"
       /\ Start[n].type # "absent" /\ Len(n) > 1
            => Front(n) \in Nodes /\ Start[Front(n)].type = "dir"
ASSUME ServersAssumption ==
  \A s \in Servers :
    /\ s.root \in Text /\ s.index \in Seq(Text)
    /\ IsFiniteSet(DOMAIN s.locations)
    /\ DOMAIN s.locations \subseteq Text \ {<<>>}
    /\ s.limit.number \in Int /\ s.limit.unit \in Units
(* No string is longer than a long can say.  declared is what Content-     *)
(* Length says; below zero stands for none.                                *)
ASSUME RequestsAssumption ==
  /\ Requests # {}
  /\ \A r \in Requests :
       /\ r.path \in Text /\ r.headers \in Text /\ r.declared \in Int
       /\ r.body \in Text /\ Len(r.body) <= LongMax
(* The fields a body says it was written from are what a form or an upload *)
(* can hold.                                                               *)
ASSUME FieldsAssumption ==
  \A r \in Requests :
    /\ r.fields \in Seq(Field)
    /\ r.body = MultipartBody(r.fields) => r.fields \in Seq(Part)
ASSUME LimitsAssumption == MaxRequests \in Nat /\ MaxChanges \in Nat

VARIABLES
  server,   \* the configuration
  disk,     \* the file system
  pc,       \* the next system call, "idle" between two requests
  request,  \* client.methode, client.path, client.client_body
  path,     \* full_path, directory_path or file_path
  todo,     \* candidates findFirstIndexFile has not tried
  rows,     \* entries of a listing: "read" from the directory, "dirs" and
            \* "files" sorted out, and those "shown"
  output,   \* where output_file is found, NoNode when it is nowhere
  reply,    \* [status, data, fields]
  before,   \* history: disk when the request arrived
  touched,  \* history: nodes another process has changed since
  full,     \* history: the disk was full when the upload was written
  received, \* requests so far
  changes   \* changes by other processes so far

work == <<path, todo, rows, output>>
history == <<before, touched, received>>
vars == <<server, disk, pc, request, work, reply, history, full, changes>>

NoRows == [read |-> {}, dirs |-> {}, files |-> {}, shown |-> {}]
Replied(status) == [status |-> status, data |-> <<>>, fields |-> <<>>]
Errors == {"400", "403", "404", "405", "413", "500", "exception"}

Init ==
  /\ server \in Servers
  /\ disk = Start /\ before = Start
  /\ pc = "idle"
  /\ request = CHOOSE r \in Requests : TRUE
  /\ path = <<>> /\ todo = <<>> /\ rows = NoRows /\ output = NoNode
  /\ reply = Replied("none")
  /\ touched = {} /\ full = FALSE /\ received = 0 /\ changes = 0

-----------------------------------------------------------------------------
(* The file system.                                                        *)

(* What stat() says: a trailing slash asks for a directory.                *)
Stat(text) ==
  IF text = <<>> \/ NodeOf(text) \notin Nodes THEN Absent
  ELSE IF EndsWith(text, "/") /\ disk[NodeOf(text)].type = "file" THEN Absent
  ELSE disk[NodeOf(text)]

Exists(text)   == Stat(text).type # "absent"
IsDir(text)    == Stat(text).type = "dir"
Entries(node)  == {n \in Nodes : Len(n) = Len(node) + 1 /\ Front(n) = node}
Present(node)  == {n \in Entries(node) : disk[n].type # "absent"}
HasRoom(node)  == Front(node) \in Nodes /\ disk[Front(node)].type = "dir"

(* Another process makes node what it likes, as far as the tree allows.    *)
OthersChange(node) ==
  /\ pc # "idle" /\ changes < MaxChanges
  /\ Present(node) = {} /\ HasRoom(node)
  /\ \E new \in {Absent, Dir} \cup {File(d) : d \in Contents} :
       new # disk[node] /\ disk' = [disk EXCEPT ![node] = new]
  /\ output' = IF output = node THEN NoNode ELSE output
  /\ touched' = touched \cup {node}
  /\ changes' = changes + 1
  /\ UNCHANGED <<server, pc, request, path, todo, rows, reply, before, full, received>>

-----------------------------------------------------------------------------
(* How a step ends: with a reply, or with the next system call.            *)

Answer(r) ==
  /\ pc' = "idle" /\ reply' = r
  /\ UNCHANGED <<server, request, history, changes>>

Fails(status) == Answer(Replied(status)) /\ UNCHANGED <<disk, work, full>>

Goes(step) == pc' = step /\ UNCHANGED <<server, request, reply, history, full, changes>>

(* The handler of r starts with the system call step.                      *)
Starts(r, step, text, candidates) ==
  /\ request' = r /\ received' = received + 1
  /\ before' = disk /\ touched' = {} /\ full' = FALSE
  /\ pc' = step /\ path' = text /\ todo' = candidates
  /\ rows' = NoRows /\ output' = NoNode
  /\ reply' = Replied("none")
  /\ UNCHANGED <<server, disk, changes>>

(* The handler of r needs none.                                            *)
AnswersAtOnce(r, answer) ==
  /\ request' = r /\ received' = received + 1
  /\ before' = disk /\ touched' = {} /\ full' = FALSE
  /\ pc' = "idle" /\ reply' = answer
  /\ UNCHANGED <<server, disk, work, changes>>

-----------------------------------------------------------------------------
(* A request arrives: the size check of parsing_response, then             *)
(* check_location_methode and what each method does before a system call.  *)

Location(r) == getLocation(DOMAIN server.locations, r.path)
Governed(r) == Location(r) # <<>>
Rules(r)    == server.locations[Location(r)]
ToScript(r) == Governed(r) /\ isCGIRequest(r.path, Rules(r))

(* A body that is not as long as Content-Length says is too large, and so  *)
(* is one over the limit, unless ".png" is anywhere in the request.        *)
MisDeclared(r) == r.declared >= 0 /\ Len(r.body) # r.declared
SizeToCheck(r) == IF r.declared >= 0 THEN r.declared ELSE Len(r.body)
Mentions(text) == \E i \in 1 .. Len(text) - 1 : text[i] = "." /\ text[i + 1] = "png"
MentionsPng(r) == Mentions(r.path) \/ Mentions(r.headers) \/ Mentions(r.body)
TooLarge(r) ==
  \/ MisDeclared(r)
  \/ SizeToCheck(r) > client_max_body_size(server.limit) /\ ~MentionsPng(r)
Refused(r) == TooLarge(r) \/ ~Allowed(server, r.path, r.methode)

Refuse(r) ==
  /\ Refused(r)
  /\ AnswersAtOnce(r, Replied(IF TooLarge(r) THEN "413" ELSE "405"))

(* create_body up to its first stat().                                     *)
methode_get(r) ==
  /\ ~Refused(r) /\ r.methode = "GET"
  /\ IF server.root = <<"default">> THEN AnswersAtOnce(r, Replied("500"))
     ELSE IF ToScript(r) THEN AnswersAtOnce(r, Replied("script"))
     ELSE IF ~Governed(r)
     THEN Starts(r, "stat", IF r.path = <<"/">> THEN FirstIndex(server)
                                                ELSE server.root \o r.path, <<>>)
     ELSE IF Rules(r).redirect THEN AnswersAtOnce(r, Replied("redirect"))
     ELSE Starts(r, "index", <<>>,
                 IndexPaths(Rules(r).index, combinePaths(Rules(r).root, Location(r))))

(* The fields are put into a script's alert('...') as they are.  One that   *)
(* does not stand for itself there may make another script of it: of such  *)
(* a page, "garbled", nothing is said.                                     *)
Popup(data) ==
  IF \A key \in DOMAIN data : Quotable(key) /\ Quotable(data[key])
  THEN [Replied("form") EXCEPT !.fields = data] ELSE Replied("garbled")

UploadDir == server.root \o <<"/", "upload", "/">>

methode_post(r) ==
  /\ ~Refused(r) /\ r.methode = "POST"
  /\ IF ToScript(r) THEN AnswersAtOnce(r, Replied("script"))
     ELSE IF r.kind = "form"
     THEN AnswersAtOnce(r, Popup(parseFormData(r.body)))
     ELSE LET part == FirstPart(r.body) IN
          IF part.status = "400" THEN AnswersAtOnce(r, Replied("400"))
          ELSE Starts(r, "upload", Append(UploadDir, part.name), <<>>)

methode_delete(r) ==
  /\ ~Refused(r) /\ r.methode = "DELETE"
  /\ IF ~IsPrefix(<<"/", "delete", "/">>, r.path) THEN AnswersAtOnce(r, Replied("403"))
     ELSE Starts(r, "delete", server.root \o r.path, <<>>)

-----------------------------------------------------------------------------
(* create_body.                                                            *)

(* Looks for the index next to the directory, its name a prefix. *)
Bug_StatPath_no_slash ==
  /\ pc = "stat"
  /\ IF IsDir(path)
     THEN Goes("index") /\ todo' = IndexPaths(server.index, path)
     ELSE Goes("check") /\ UNCHANGED todo
  /\ UNCHANGED <<disk, path, rows, output>>

(* Without a location: a directory is answered with its index.             *)
StatPath ==
  /\ pc = "stat"
  /\ IF IsDir(path)
     THEN Goes("index") /\ todo' = IndexPaths(server.index, Append(path, "/"))
     ELSE Goes("check") /\ UNCHANGED todo
  /\ UNCHANGED <<disk, path, rows, output>>

(* findFirstIndexFile: the next candidate.                                 *)
TryIndex ==
  /\ pc = "index"
  /\ \/ /\ todo # <<>> /\ Exists(Head(todo))
        /\ path' = Head(todo)
        /\ Goes("check") /\ UNCHANGED <<disk, todo, rows, output>>
     \/ /\ todo # <<>> /\ ~Exists(Head(todo))
        /\ todo' = Tail(todo)
        /\ Goes("index") /\ UNCHANGED <<disk, path, rows, output>>
     \/ /\ todo = <<>> /\ Governed(request)
        /\ path' = combinePaths(Rules(request).root, request.path)
        /\ Goes("fallback") /\ UNCHANGED <<disk, todo, rows, output>>
     \/ todo = <<>> /\ ~Governed(request) /\ Fails("403")

(* In a location without index: what the path names, if autoindex is on.   *)
Fallback ==
  /\ pc = "fallback"
  /\ IF ~Exists(path) THEN Fails("404")
     ELSE IF ~Rules(request).autoindex THEN Fails("403")
     ELSE Goes("list") /\ UNCHANGED <<disk, work>>

(* The last stat() of create_body, and the first of read_file_or_directory.*)
Check ==
  /\ pc \in {"check", "read"}
  /\ IF ~Exists(path) THEN Fails("404")
     ELSE IF pc = "check" THEN Goes("read") /\ UNCHANGED <<disk, work>>
     ELSE IF IsDir(path) THEN Fails("403")
     ELSE Goes("open") /\ UNCHANGED <<disk, work>>

(* The file is opened and read.  A directory that has taken its place can  *)
(* be opened but not read: an exception without a status.                  *)
Open ==
  /\ pc = "open"
  /\ IF ~Exists(path) \/ NodeOf(path) \in Denied THEN Fails("404")
     ELSE IF IsDir(path) THEN Fails("exception")
     ELSE /\ Answer([Replied("page") EXCEPT !.data = BodySent(Stat(path).data)])
          /\ UNCHANGED <<disk, work, full>>

-----------------------------------------------------------------------------
(* generateDirectoryListing.                                               *)

ListStat ==
  /\ pc = "list"
  /\ Goes(IF Stat(path).type = "file" THEN "open" ELSE "opendir")
  /\ UNCHANGED <<disk, work>>

(* opendir() and readdir(), of one buffer.                                 *)
OpenDir ==
  /\ pc = "opendir"
  /\ IF ~IsDir(path) \/ NodeOf(path) \in Denied THEN Fails("403")
     ELSE /\ rows' = [NoRows EXCEPT !.read = Present(NodeOf(path))]
          /\ Goes("sort") /\ UNCHANGED <<disk, path, todo, output>>

(* Stops at the first entry that is gone. *)
Bug_SortEntry_stops(n) ==
  /\ pc = "sort" /\ n \in rows.read
  /\ rows' = CASE disk[n].type = "dir"    -> [rows EXCEPT !.read = @ \ {n}, !.dirs = @ \cup {n}]
               [] disk[n].type = "file"   -> [rows EXCEPT !.read = @ \ {n}, !.files = @ \cup {n}]
               [] disk[n].type = "absent" -> [rows EXCEPT !.read = {}]
  /\ Goes(IF rows'.read = {} THEN "rows" ELSE "sort")
  /\ UNCHANGED <<disk, path, todo, output>>

(* The stat() of an entry in the order of readdir: it is sorted out, or    *)
(* gone.                                                                   *)
SortEntry(n) ==
  /\ pc = "sort" /\ n \in rows.read
  /\ rows' = CASE disk[n].type = "dir"    -> [rows EXCEPT !.read = @ \ {n}, !.dirs = @ \cup {n}]
               [] disk[n].type = "file"   -> [rows EXCEPT !.read = @ \ {n}, !.files = @ \cup {n}]
               [] disk[n].type = "absent" -> [rows EXCEPT !.read = @ \ {n}]
  /\ Goes(IF rows.read = {n} THEN "rows" ELSE "sort")
  /\ UNCHANGED <<disk, path, todo, output>>

(* The stat() of a row, the directories before the files: it is shown, or  *)
(* gone.                                                                   *)
ShowEntry(n) ==
  /\ pc = "rows"
  /\ n \in rows.dirs \/ (n \in rows.files /\ rows.dirs = {})
  /\ rows' = [rows EXCEPT !.dirs = @ \ {n}, !.files = @ \ {n},
                          !.shown = IF disk[n].type = "absent" THEN @ ELSE @ \cup {n}]
  /\ Goes("rows")
  /\ UNCHANGED <<disk, path, todo, output>>

Listed ==
  /\ \/ pc = "sort" /\ rows.read = {}
     \/ pc = "rows" /\ rows.dirs \cup rows.files = {}
  /\ Answer(Replied("listing"))
  /\ UNCHANGED <<disk, work, full>>

-----------------------------------------------------------------------------
(* handleFileUpload.                                                       *)

UploadStat ==
  /\ pc = "upload"
  /\ Goes(IF Exists(UploadDir) THEN "create" ELSE "mkdir")
  /\ UNCHANGED <<disk, work>>

(* Whatever has come to be there in the meantime makes mkdir() fail.       *)
UploadMkdir ==
  /\ pc = "mkdir"
  /\ LET node == NodeOf(UploadDir) IN
     IF node \in Nodes \ Denied /\ HasRoom(node) /\ disk[node] = Absent
     THEN /\ disk' = [disk EXCEPT ![node] = Dir]
          /\ Goes("create") /\ UNCHANGED work
     ELSE Fails("500")

(* Returns false when the file cannot be created: methode_post replies     *)
(* nothing then.                                                           *)
Bug_UploadOpen_false ==
  /\ pc = "create"
  /\ LET node == NodeOf(path) IN
     IF node \in Nodes \ Denied /\ HasRoom(node) /\ disk[node].type # "dir"
     THEN /\ disk' = [disk EXCEPT ![node] = File(<<>>)]
          /\ output' = node
          /\ Goes("write") /\ UNCHANGED <<path, todo, rows>>
     ELSE Answer(reply) /\ UNCHANGED <<disk, work, full>>

(* The file is created, or what it held is gone.                           *)
UploadOpen ==
  /\ pc = "create"
  /\ LET node == NodeOf(path) IN
     IF node \in Nodes \ Denied /\ HasRoom(node) /\ disk[node].type # "dir"
     THEN /\ disk' = [disk EXCEPT ![node] = File(<<>>)]
          /\ output' = node
          /\ Goes("write") /\ UNCHANGED <<path, todo, rows>>
     ELSE Fails("500")

(* Reports the full disk, when the file it replaces is already gone. *)
Bug_UploadWrite_reports ==
  /\ pc = "write"
  /\ LET content == FirstPart(request.body).content IN
     \E stored \in {content, SubSeq(content, 1, Len(content) \div 2)} :
       /\ disk' = IF output = NoNode THEN disk
                  ELSE [disk EXCEPT ![output] = File(stored)]
       /\ full' = (stored # content)
       /\ Answer(Replied(IF stored = content THEN "uploaded" ELSE "500"))
  /\ UNCHANGED work

(* Nobody looks at what write() and close() say: on a full disk a part of  *)
(* the content is stored, or nothing, and the reply is the same.           *)
UploadWrite ==
  /\ pc = "write"
  /\ LET content == FirstPart(request.body).content IN
     \E stored \in {content, SubSeq(content, 1, Len(content) \div 2)} :
       /\ disk' = IF output = NoNode THEN disk
                  ELSE [disk EXCEPT ![output] = File(stored)]
       /\ full' = (stored # content)
  /\ Answer(Replied("uploaded"))
  /\ UNCHANGED work

-----------------------------------------------------------------------------
(* methode_delete.                                                         *)

(* Leaves it to remove() to find out what the path names. *)
Bug_DeleteStat_any ==
  /\ pc = "delete"
  /\ IF ~Exists(path) THEN Fails("404")
     ELSE Goes("remove") /\ UNCHANGED <<disk, work>>

DeleteStat ==
  /\ pc = "delete"
  /\ IF ~Exists(path) THEN Fails("404")
     ELSE IF IsDir(path) THEN Fails("403")
     ELSE Goes("remove") /\ UNCHANGED <<disk, work>>

(* remove() takes a file or an empty directory.                            *)
DeleteRemove ==
  /\ pc = "remove"
  /\ LET node == NodeOf(path) IN
     IF Exists(path) /\ node \notin Denied /\ (IsDir(path) => Present(node) = {})
     THEN /\ disk' = [disk EXCEPT ![node] = Absent]
          /\ Answer(Replied("deleted")) /\ UNCHANGED <<work, full>>
     ELSE Fails("500")

-----------------------------------------------------------------------------
Next ==
  \/ /\ pc = "idle" /\ received < MaxRequests
     /\ \E r \in Requests :
          Refuse(r) \/ methode_get(r) \/ methode_post(r) \/ methode_delete(r)
  \/ StatPath \/ TryIndex \/ Fallback \/ Check \/ Open
  \/ ListStat \/ OpenDir \/ Listed
  \/ \E n \in Nodes : SortEntry(n) \/ ShowEntry(n)
  \/ UploadStat \/ UploadMkdir \/ UploadOpen \/ UploadWrite
  \/ DeleteStat \/ DeleteRemove
  \/ \E n \in Nodes : OthersChange(n)

Spec == Init /\ [][Next]_vars

-----------------------------------------------------------------------------
(* Properties.  They are about the last reply, before the next request.    *)

Replying(status) == pc = "idle" /\ received > 0 /\ reply.status = status
Untouched == Nodes \ touched

(* The types, and that no request ends without a reply.                    *)
SiteTypeOK ==
  /\ server \in Servers /\ request \in Requests
  /\ \A n \in Nodes : disk[n].type \in {"absent", "dir", "file"}
  /\ \A n \in Nodes : disk[n].type # "absent" /\ Len(n) > 1 => HasRoom(n)
  /\ pc \in {"idle", "stat", "index", "fallback", "check", "read", "open", "list",
             "opendir", "sort", "rows", "upload", "mkdir", "create", "write",
             "delete", "remove"}
  /\ rows.read \cup rows.dirs \cup rows.files \cup rows.shown \subseteq Nodes
  /\ output \in Nodes \cup {NoNode}
  /\ pc = "idle" /\ received > 0 =>
       reply.status \in Errors \cup {"page", "listing", "script", "redirect", "form",
                                    "garbled", "uploaded", "deleted"}

(* The location whose rules a request is answered by is the longest one    *)
(* that is its path or lies above it, and there is one if any does.        *)
LongestLocation ==
  LET l == Location(request) IN
  /\ l # <<>> => Governs(l, request.path)
  /\ \A m \in DOMAIN server.locations :
       Governs(m, request.path) => l # <<>> /\ Len(m) <= Len(l)

(* A GET outside the locations of a server with a root is answered, while  *)
(* nobody else touches the site, with what stands where it asks: the file, *)
(* the first index that exists of a directory, or why there is none.  It   *)
(* asks for its path under the root, "/" for the first word of index,      *)
(* which findFirstIndexFile() of the server takes unseen: if nothing has   *)
(* that name "/" is not found, whatever other indexes exist.               *)
Standing(text) ==
  IF ~Exists(text) \/ (NodeOf(text) \in Denied /\ ~IsDir(text)) THEN Replied("404")
  ELSE IF IsDir(text) THEN Replied("403")
  ELSE [Replied("page") EXCEPT !.data = Stat(text).data]

StableSiteAnswer ==
  LET asked == IF request.path = <<"/">> THEN FirstIndex(server)
               ELSE server.root \o request.path
      found == {i \in DOMAIN server.index : Exists(asked \o <<"/">> \o server.index[i])}
      first == CHOOSE i \in found : \A j \in found : i <= j
      file  == IF IsDir(asked) /\ found # {}
               THEN asked \o <<"/">> \o server.index[first] ELSE asked
  IN  /\ pc = "idle" /\ received > 0 /\ request.methode = "GET"
      /\ ~Refused(request) /\ ~Governed(request) /\ touched = {}
      /\ server.root # <<"default">>
      /\ ~LooksLikeScript(Stat(file).data)
      => reply = Standing(file)

(* A listing shows every entry that stood in the directory all the while,  *)
(* and none that never did, whatever is created and removed between the    *)
(* reads of the directory and the two stats of each entry.                 *)
ListingComplete ==
  Replying("listing") =>
    \A n \in Entries(NodeOf(path)) \ touched :
      NodeOf(path) \notin touched => (n \in rows.shown <=> before[n].type # "absent")

(* After "Upload Done!" the file is what the client sent, to the last      *)
(* line end, unless the disk was full or another process has changed it,   *)
(* and nothing else is different but that its directory exists.            *)
UploadStored ==
  Replying("uploaded") /\ request.body = MultipartBody(request.fields) =>
    LET node == NodeOf(Append(UploadDir, Filename[request.fields[1].key[1]])) IN
    /\ node \in Untouched /\ ~full => disk[node] = File(request.fields[1].value)
    /\ \A n \in Untouched \ {node} :
         disk[n] # before[n] => n = NodeOf(UploadDir) /\ before[n] = Absent

(* An error means that the server has changed no file: at most the upload  *)
(* directory is new.                                                       *)
FailureChangesNothing ==
  pc = "idle" /\ received > 0 /\ reply.status \in Errors =>
    \A n \in Untouched :
      disk[n] # before[n] => n = NodeOf(UploadDir) /\ disk[n] = Dir

(* "File Deleted Successfully" means the file the path names is gone, and  *)
(* no other; it was a file unless another process has put something else   *)
(* in its place after it was looked at.                                    *)
DeleteIsExact ==
  Replying("deleted") =>
    LET node == NodeOf(server.root \o request.path) IN
    /\ disk[node] = Absent
    /\ node \in Untouched => before[node].type = "file"
    /\ \A n \in Untouched \ {node} : disk[n] = before[n]

(* A form comes back as it was filled in, "%", "&", "+", "=" and spaces    *)
(* included, and of a name that occurs twice the last value counts; but    *)
(* for a field with a quote, a backslash, a line end or a tag, which the   *)
(* page does not quote.                                                    *)
FormShown ==
  LET fields == request.fields
      keys   == {fields[i].key : i \in DOMAIN fields}
  IN  (Replying("form") \/ Replying("garbled")) /\ request.body = FormBody(fields) =>
        /\ (\A i \in DOMAIN fields : Quotable(fields[i].key) /\ Quotable(fields[i].value))
             => reply.status = "form"
        /\ reply.status = "form" =>
             /\ DOMAIN reply.fields = keys
             /\ \A i \in DOMAIN fields :
                  \/ reply.fields[fields[i].key] = fields[i].value
                  \/ \E j \in DOMAIN fields : j > i /\ fields[j].key = fields[i].key

(* A body is refused for its size if it is longer than the file says, or   *)
(* not as long as its own header does, and for nothing else, as long as    *)
(* the product of the file fits a long and no ".png" is mentioned.  (With  *)
(* a Content-Length what has come is compared with it, so that a body      *)
(* within the limit that is still on its way is refused: split_body.)      *)
LimitAsWritten ==
  pc = "idle" /\ received > 0 /\ ~MentionsPng(request)
    /\ (FitsLong(Written(server.limit)) \/ server.limit.number > LongMax)
    => (reply.status = "413" <=> MisDeclared(request)
                                   \/ Len(request.body) > Written(server.limit))

(* Claims of the documentation that the code does not keep.                *)

(* A file that stands in a location is served (README.md, "Service de      *)
(* fichiers statiques" and "index : Fichier a servir par defaut").         *)
NamedFileServed ==
  LET file == combinePaths(Rules(request).root, request.path) IN
  pc = "idle" /\ received > 0 /\ request.methode = "GET" /\ ~Refused(request)
    /\ Governed(request) /\ ~ToScript(request) /\ ~Rules(request).redirect
    /\ touched = {} /\ NodeOf(file) \notin Denied
    /\ Stat(file).type = "file" /\ ~LooksLikeScript(Stat(file).data)
    => reply = [Replied("page") EXCEPT !.data = Stat(file).data]
=============================================================================
