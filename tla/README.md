# Verification of webserve

TLA+ models of webserve, the HTTP/1.1 server in C++98 of this repository
(`srcs/`, `include/`), with TLC configurations that model-check them on small
instances and TLAPS proofs of their invariants for every size. All line numbers
below are the repository's.

## 1. The system

One process, one thread. `main` parses the configuration file into `serverMap`
(one `Parsing_class` per `server` block), opens one listening socket per server,
and runs `run_server`: `epoll_wait` with a one-second timeout, an idle sweep over
all servers, then one handler call per event of the batch. Connections are
edge-triggered, listening sockets level-triggered. CGI scripts are forked and
waited for *inside* a handler, so a script stops the whole loop while it runs.

| Component | State it keeps | Operations | Makes it correct | Module |
|---|---|---|---|---|
| Event loop (`server/init.cpp:77`, `handle_connection.cpp`, `handle_inout.cpp`, `timeout.cpp`, `utils.cpp:16`) | `_clients` of every server (`read_buff`, `write_buff`, `keep_alive`, `last_activity`), epoll masks, the batch, `g_stop_server` | `epoll_wait`, sweep, accept, read, parse and answer, fail, write, close, stop | descriptors and clients agree; no edge is lost; a connection is answered until it is refused and closed only for a reason; silent connections close | `EventLoop`, implementing `Connection` |
| Request parser (`parsing_response.cpp:19`) | `methode`, `path`, `client_body` | `parsing_response`, keep-alive rule of `create_body` | a request is complete when parsed; limits apply to what they name | operators of `EventLoop`, limits in `Site` |
| Responses (`response.cpp`, `create_body`) | `write_buff`, the file system | `methode_get/post/delete`, `check_location_methode` | a reply tells what was done to the site, whatever other processes do meanwhile | `Site`; what is stored or thrown in `EventLoop` |
| CGI calls (`cgi.cpp:130`) | two pipes, a child, a clock | `executeCGI` | a call ends, leaves nothing behind, body and output arrive whole | `Cgi` |
| Configuration parser (`parsing_server.cpp`, `handle_file.cpp`, `handle_directive.cpp`) | flags, a brace counter, `current_server`, `used_ports`, `serverMap` | one handler per kind of line | ports are unique, blocks are told apart or the file is refused, no missing location is dereferenced | `Config` |
| Routing (`parsing_class.cpp:92`, `combinePaths`, `findFirstIndexFile`, `isCGIRequest`) | none | longest prefix, choice of a file or script | the longest location wins, at a segment | `Routing` |
| Uploads (`upload.cpp`) | files | `handleFileUpload` | the part is stored byte for byte, or nothing is changed | `Forms`, `Site` |
| Lifecycle (`main.cpp`, `init.cpp:20-75`) | listening sockets, epoll descriptor, copies of `serverMap` | setup, shutdown, a failure of each call | every server listens; all is closed on every way out, once | `Lifecycle` |
| Rendering, decoding (`utils.cpp:23-253`, `cgi.cpp:276-336`) | none | `urlDecode`, `parseFormData`, listings, `buildHTTPResponse` | a form is shown as filled in where the page can quote it; a listing is complete | `Forms`, `Site`; HTML not modelled |
| Site and scripts (`www/`, `conf/`) | | | data, not program | not modelled |

How they interact: the loop calls the parser, the methods and `executeCGI`
synchronously and shares `ClientData` with them; errors travel as exceptions
whose text begins with the status and are caught in `handle_client_event`
(an exception thrown from inside that `catch` reaches `main` and ends the
server). The loop meets the outside through the kernel: peers connect, send,
read, half-close and reset between any two handlers, scripts run beside the
server, signals arrive anywhere.

What is hard to test is listed, each at its line, under `hazards` in
`PROJECT.json`: edges that are never delivered again, a reply that overtakes
another, the sweep racing a late request, descriptors reused within a batch,
pipes that block both sides, flags that outlive their block, files that change
between the `stat` that judged them and the call that uses them.

## 2. The modules

### EventLoop, MCEventLoop, EventLoop_proofs, Handlers_proofs

One handler call is one action: `EpollWait`, `Interrupted`,
`check_clients_timeout`, `handle_new_connection`, `handle_client_event`,
`EndBatch`. Peers, time and signals (`Environment`) act between them, which is
exactly where they can: the process has one thread, and what arrives *during* a
handler is seen by the next system call of a later one, except that a `read()`
could see bytes that came after `epoll_wait`: the environment may act between
`EpollWait` and the handler, so the model has that too. `pc` is the position in
`run_server`, `events` and `accepting` are what the batch still holds.

`handle_client_event` is composed of stages on a *view* of one connection
(`v.c` the `ClientData`, `v.k` the kernel's socket, `v.go` how to go on), in the
code's order with its early returns: `OnReadable` (read, and `Answer` when a
header is complete), `OnWritable`, then the close on `EPOLLERR`/`EPOLLHUP`.
`Answer` is `parsing_response` and `prepare_response`, `Fail` the catch block.

A request is a record of what the handlers branch on; its bytes are segments, of
which the `hlen`-th ends the header. A reply is a number of parts still to be
written and the facts that matter: status, whether it announces `close`, whether
it carries an error page. What a method finds on disk, what a location's `return`
says ("redirect" for 3xx, "text" for a 200 with a body) and what a script prints
is the request's `outcome`. Two kinds of request put their reply into `write_buff`
whatever is in it (`Replaces`): those of a location with a `return`
(`parsing_response.cpp:248-298`) and those that post to a script
(`response.cpp:62-74`). `idle` is the age of `last_activity`.

The kernel is external and modelled from its documented behaviour: `Ready` (the
poll mask), `epoll_ctl` (polls the descriptor again, which re-arms an edge),
`Wake`, `AtEOF`, a reset that leaves one pending error, `SIGPIPE` on a write
without a reader. `epoll_wait` may leave ready descriptors for later when there
are more than `MAX_EVENTS`, in any order. `lost` is the one history variable.

### Connection, LoopConnection, LoopConnection_proofs

`Connection` is the abstract specification: what the peer of *one* connection may
rely on. It is absent, open or ending; a reply of some length may be under way;
it is closed only when its reply has been written whole, when a request that cuts that
reply (`cuts`) has been answered whole, when the peer has left, when a script is out of
time, or when the server ends. After an error (`phase = "ending"`) nothing else is
answered.
`LoopConnection` extends `EventLoop` with the refinement mapping: an open
descriptor that epoll watches for `EPOLLIN` is "open", one it watches only for
`EPOLLOUT` is "ending", `reply` and `left` come from `write_buff`, in which the
sweep's 408 is told from the other errors; `cuts` and `slow` say what is among the
requests the peer has sent and the server has not yet taken. The properties
`ConnectionKept` (`Conn!Spec`) and `RefusedConnectionCloses` (`Conn!RefusedCloses`)
are the abstract specification's. One freedom in it is the code's own and worth
knowing: a request that is in the batch when the sweep puts a 408 into
`write_buff` is still executed, its reply is dropped because `write_buff` is not
empty, and the handler then asks for `EPOLLIN` again, so the connection goes from
"ending" back to "open".

### Cgi, MCCgi, Cgi_proofs

`executeCGI` as the sequence of its system calls, call after call, against a
script that may do anything with its standard input and output: read, close,
write, fork a process that keeps the ends, exit or be killed, at any time. `srv`,
`child`, `orphan` are the sets of pipe ends each process holds, so that end of
file, `SIGPIPE` and leaks follow from the sets. A unit is what one more `write()`
takes, a chunk what one `read()` returns; a chunk of kind `nul` holds a NUL byte,
after which `output += buffer` stops. `client_body` is what one `read()` of
`BUFFER_SIZE` bytes (`handle_inout.cpp:46`) has left behind the end of a header, so a
fresh pipe always holds it (`BodiesAssumption`): its `write` neither waits, nor
writes a part, nor can a signal cut it. What a call can wait for without end is the
read loop alone. Left out: the branch for `write` returning -1 (`EPIPE` kills
first), and the closing of descriptors 3 to 9 in the child.

### Config, MCConfig, Config_proofs

A line of the file is an action guarded by its kind, in the order in which
`count_nginx_servers` tries them. The flags are the code's. The history variables
follow the text: `open` is the stack of blocks it really has open, `closed` says
whether a location of this server has been closed, `unmatched` whether it closes a
block that is not open. The parser does not see braces but lines: `server` and
`location` open a block, any other line with a `}` closes one. So the lines include
those it counts wrongly, and `misread` counts these: a block on one line (`oneline`), a
`}` in the comment behind a directive or two on one line (`handleClosingBrace(n)` with `n`
0 or 2), a `{` on the line after its keyword (`BraceOnNextLine`).
`AcceptedFilesBalance` relates the two sides: a file that is accepted with no line
misread balances, and one that balances is never accepted with exactly one line
misread, since the counter is then off by one at the end of the file. Two misread
lines that make up for each other (`location /a { }` followed by `autoindex on; # }`)
are accepted, and their directives go astray; the property does not exclude it.
A directive's value is a member of a small set; a field is the set of values it has
received, replaced or added to. Lines that no handler looks at, such as an unknown
word outside a block, change nothing and are no actions.

### Lifecycle, MCLifecycle, Lifecycle_proofs

`main` around `Config`, which it extends: `MainNext` runs the parser's `Next`
until the file has ended, then `create_server_socket` for each server of the map,
`setup_epoll`, and the loop (reduced here to clients that come and go), with a
failure possible at each call and a signal at any moment after the parser. The
kernel's side is the table of open descriptors; a new one gets the lowest free
number, which is what makes "is this number mine to close" a question at all.
`CleanUp` is what the two ends of `main` close according to the numbers they
remember (`epoll_fd != -1`, `getFd() > 0`); `CleanUpIsExact` compares it with what
is open. A listening socket with number 0 (possible only when the process starts
with standard input closed) is never closed by `main`; the property says so.

### Routing, Forms, Texts_proofs

Pure operators, on sequences of tokens instead of characters. `Routing` has
`getLocation`, the 405 rule, `combinePaths`, the index candidates, `isCGIRequest`,
and how the file system reads a path (`NodeOf`). A name may be several tokens, so
that a location can end in the middle of a name (`/d` and `/dx`). `Forms` has
what the server reads: `urlDecode` with the hexadecimal reading of the stream (one
digit is enough, a `+` is a sign); `parseFormData`, whose `getline` calls become
the places where a pair begins, and whose map keeps the last value of a key; the
first part of a multipart body; `parseCGIResponse` and `buildHTTPResponse` as far
as the body that is sent; and the size of `client_body_buffer_size`, of either
sign, with `long` arithmetic; and `Quotable`, which texts stand for themselves between
the quotes of a script. Its last section has what clients send: `FormBody`
and `MultipartBody` write a body from fields the way a browser does. They are
external, and the reference the readers are compared with; `Part` says which files
such a body can hold (no boundary inside, no blank line among the header fields).

### Site, MCSite, Site_proofs

`prepare_response` and everything below it, one request after another, against a
file system. Each `stat`, `open`, `opendir` with `readdir`, `mkdir`, `write` and
`remove` is a step, and between any two of them `OthersChange` may create, replace
or remove a node: another process, or a script that was left running. A request has a
path, the rest of its header as far as it can mention `.png`, a body, and the length
it declares (below zero for none), which need not be the body's. `pc` names
the next system call; a handler that needs none is one step. `before` (the file
system when the request arrived) and `touched` (what others changed since) let
the properties say who did what. A full disk is a choice of `UploadWrite`.
A directory that takes the place of a file between `stat` and `open` gives the
exception without a status that `content.reserve(file.tellg())` throws.
The page that shows a form puts the fields into `alert('...')` unescaped
(`response.cpp:112-119`): with fields that are all `Quotable` it shows them ("form"), with
any other it may be another script, and its reply is "garbled", of which nothing is
said. A root ends with a slash as `handleRootDirective` makes it (`"default"` aside).
`/` asks for the first word of `index` (`parsing_class.cpp:141`), whether it exists or
not.
`fields` of a request is no input of the server: it is what the client wrote the
body from, for the properties to compare with.

## 3. The runs

Every invariant and property of a run has a mutant: an operator `Bug_...` that
changes one mapped definition the way a slip in that code would, and with which
TLC finds the property violated.

| Run | Shows | States |
|---|---|---|
| `loop_one` | `TypeOK`, `WriteInterestIffPending`, `NoLostWriteWakeup`, `NoUnparsedRequest`, `HeaderMatchesFate`, `ReadStopsOnlyToClose`, `ErrorIsFinal`, `ReplyNotCut`, `ExitsHaveCause`; refinement `ConnectionKept` | 1,413,802 |
| `loop_two` | `OneOwner`, `PendingEventsHaveClients` | 375,452 |
| `loop_live` | `ReadEdgeLostOnlyByFullBuffer`; `StopIsHonoured`, `IdleConnectionCloses`, `RefusedConnectionCloses` under fairness | 82,300 |
| `cgi_calls` | `TypeOK`, `CallLeavesNothing`, `StdinEnds`, `BodyArrivesWhole`, `OutputComplete`, `OutputBoundedByPipe`; `CallEndsUnlessPipeBlocks` under fairness | 31,296 |
| `config_lines` | `MainTypeOK`, `PortsUnique`, `LocationExists`, `AcceptedFilesBalance`, `DirectiveInItsBlockUntilClose`, `EveryServerListens`, `CleanUpIsExact` | 1,442,128 |
| `site` | `SiteTypeOK`, `LongestLocation`, `StableSiteAnswer`, `ListingComplete`, `UploadStored`, `FailureChangesNothing`, `DeleteIsExact`, `FormShown`, `LimitAsWritten` | 579,265 |
| `lost_reply`, `split_body`, `slow_script`, `cgi_blocked`, `config_blocks`, `index_shadows` | one claim of the documentation each, which the code does not keep | counterexamples |

Bounds, and why they are enough. `loop_one` has one server and one descriptor:
the properties of a connection mention no other, and connections share nothing
but the batch and the sweep, which `loop_two` exercises with two servers, two
descriptors, and batches of up to three events. `ReadMax = RcvMax = 2` segments
let a request be split, and two requests be pipelined into one buffer;
`SndMax = 1 < BodyLen = 2` makes every reply need a second write, so that a full
send buffer, a pending reply under a second request and the re-armed edge all
happen. The requests are every way an answer can go: a page, a
redirection, a `return` with a text, errors with a page, with an unreadable page and with none, a script
out of time and one that ends the server. `timeout_seconds` 0 or 1 instead of 3 only shortens the waiting: the code
compares with `>` and nothing else. `loop_live` has `ReadMax = 1` so that the
lost read edge occurs. `MaxBacklog = 1` bounds the listen queue.
`loop_two` uses symmetry (safety only) and the constraint `Quiet` (no signal,
one queue at a time non-empty); both are covered by the other runs.
`cgi_calls` has pipes of two units and bodies of zero to two, read in one piece or in
several, the largest filling the pipe; two chunks of output fill the other pipe, a
third waits. `config_lines` has two servers, three open blocks, two ports and
two paths: a block can follow a block, a location nest in another, a path repeat,
a port repeat and clash; `MaxMisread = 1` lets any one line be one whose braces are
counted wrongly. Its four descriptors hold two listening sockets, the
epoll instance and one client, so that "no descriptor free" happens at every call.
`site` has two requests (what one leaves behind meets the next) and two changes by
others (an entry can disappear and come back, or a file turn into a directory);
its tree of thirteen nodes has a directory without index, one with an index, a
node whose name continues another's, an unreadable file, a file that looks like a
script's output, and a missing upload directory; its five servers have every kind
of location, none at all, no root, and limits in each unit, one of them negative; one
server's first index word is the name of something, the others' is not. Its requests
include a body that is not as long as declared, one without a declared length, a `.png`
in a header field and a form with a quote. `Kilo = 2` for 1024 and
`LongMax = 24` keep the arithmetic's cases (below, at and above the limit, and a
product that wraps) within small numbers.

`CHECK_DEADLOCK FALSE` everywhere: the process ends (signal, `SIGPIPE`, an
exception in `main`), a CGI call may block for ever, a file ends.

Fairness. `WF(LoopStep)`: the loop is one thread whose `epoll_wait` returns
within a second and whose handlers do not block (a blocking script is the subject
of `Cgi`). `WF(Tick)`: time passes. `WF(PeerDrain)`: a peer takes what it is
sent, needed because the loop waits for a full send buffer; nothing is
assumed of what peers send, when they close, or that they close. In `Cgi`,
`WF(Server)` and `WF(Tick)`; scripts owe nothing.

### What the counterexamples say

* `lost_reply`: a request that arrives while a reply is pending is executed and
  cleared, its reply dropped (`response.cpp:41,76,141`).
* `split_body`: a body that arrives after its header is answered 413
  (`parsing_response.cpp:58`), whatever the limit.
* `slow_script`: a script longer than three seconds loses its reply to a 408.
* `cgi_blocked`: a process that a script leaves behind, and that holds the output
  pipe, blocks the server in the read loop (`cgi.cpp:260`): the timeout applies only
  while the script itself runs.
* `config_blocks`: a directive after a closed location goes to that location
  (`handle_file.cpp:110`: only the end of the server resets the flag).
* `index_shadows`: in a location whose index exists, every path below it is
  answered with the index (`parsing_response.cpp:299`), so that a file that stands
  there is not served.

Also seen while modelling, without a run of its own: the 408 of the sweep never
uses `error_page`, although `sendErrorResponse` has a case for it (`timeout.cpp:10`).

## 4. The proofs

Every safety property a run checks is also a theorem: proved by TLAPS for every
number of servers, descriptors, requests, nodes and locations, every buffer size
and every length of behaviour. Each `*_proofs` module proves an inductive
invariant of its specification, with a lemma per action or group of actions, and
derives the properties by `PTL`.

| Module | Proves | Inductive invariant |
|---|---|---|
| `EventLoop_proofs` | `TypeOK`, `OneOwner`, `PendingEventsHaveClients`, `WriteInterestIffPending`, `ReadStopsOnlyToClose`, `NoLostWriteWakeup`, `ReadEdgeLostOnlyByFullBuffer`, `NoUnparsedRequest`, `HeaderMatchesFate`, `ErrorIsFinal` | `IInv` |
| `Handlers_proofs` | `ExitsHaveCause`, `ReplyNotCut` | `JInv`, on `IInv` |
| `LoopConnection_proofs` | `ConnectionKept` (`Spec => Conn!Spec`) | `IInv /\ JInv` |
| `Cgi_proofs` | `TypeOK`, `CallLeavesNothing`, `StdinEnds`, `BodyArrivesWhole`, `OutputComplete`, `OutputBoundedByPipe` | `IInv` |
| `Config_proofs` | `TypeOK`, `PortsUnique`, `LocationExists`, `AcceptedFilesBalance`, `DirectiveInItsBlockUntilClose` | `IInv` |
| `Lifecycle_proofs` | `MainParses` (`MainSpec => Spec`), `MainTypeOK`, `EveryServerListens`, `CleanUpIsExact` | `LInv` |
| `Texts_proofs` | `FirstFileIsRead`, `EncodedIsRead`, `FormIsRead`, about `Forms` and `Routing` | none: operators |
| `Site_proofs` | `SiteTypeOK`, `LongestLocation`, `StableSiteAnswer`, `ListingComplete`, `UploadStored`, `FailureChangesNothing`, `DeleteIsExact`, `FormShown`, `LimitAsWritten` | `Typed` and one per property |

### The loop

The properties of `EventLoop_proofs` are inductive only together: that a reply
keeps its edge needs the mask to follow `write_buff`, which needs the sweep and
the catch block to leave the mask they do, which needs the event's owner to be
unique. The proof follows the stages: a lemma says what each stage gives for a view
that satisfies the per-connection invariant, the action composes them, and a
frame lemma carries the other connections.

`Handlers_proofs` asks what one step may do to a connection, so it needs more of
the states it starts from. `JInv` adds three things: `ConnectionsTold` (an
`EPOLLOUT` in the batch is about a reply that is still pending, an `EPOLLERR` or
`EPOLLHUP` about a peer that has reset, and a connection the loop does not listen
to holds an error), `StoppedWasAsked`, and `ExitedAreClosed`. Without the first,
a handler could write an empty buffer or close for a hang-up that is not there.
The lemmas then say of each stage what it does to its connection (`FailEffect`,
`AnswerEffect`, `OnReadableEffect`, `OnWritableEffect`, `EventEffect`), and
`StepEffect` sums up any step for any descriptor: it is undisturbed, swept,
accepted, served, or the process ends. `OnlyThreeExits`, `RepliesNotCut` and the
refinement are read off these cases.

`LoopImplementsConnection` maps every one of them to a step of `Connection` or a
stutter. The attempt found a fault of the model: the mapping of `reply` was a `CASE`
whose arms overlapped on an error with status 408, which TLC resolved by order
and the prover rightly did not; `ReplyIn` now says which comes first.

### Calls, the file and main

* `Cgi_proofs`: `IInv` adds where each end is at each `pc`, that the units of
  the body are conserved (`left + queued + got`), and that what was written is
  what was received followed by what is queued.
* `Config_proofs`: `IInv` adds that every port of the map is in `used_ports` and that
  the map holds the servers `1 .. server_count` whose blocks have ended; and, for
  `AcceptedFilesBalance`, how far the counter is from the depth of the text while at
  most one line has been misread.
* `Lifecycle_proofs`: `MainParses` shows that a step of `main` is a step of the parser
  or leaves its variables alone, so the parser's invariant holds of `main`. On top of
  it `LInv` says of every number `main` remembers that it is an open descriptor of
  that kind, and of every open descriptor of that kind that `main` remembers it.
  That two servers never share a descriptor rests on `PortsUnique`.

### The texts

`Texts_proofs` is about operators alone. The server's readers are compared with
what a client writes: `FirstFileIsRead` (`FirstPart` of a `MultipartBody` is the first
file's name and content), `EncodedIsRead` (`urlDecode(urlEncode(str)) = str` for
every text), `FormIsRead` (`parseFormData` of a `FormBody` gives every key with the
value of its last field).

These operators are recursive functions and folds, and a theorem that takes a
predicate (the library's induction) cannot be used with the provers at hand. Two
lemmas about sets of numbers do instead: `LeastNumber`, every non-empty set of
naturals has a least member, and `Descent`. The set of cases in which the claim
fails, if it is not empty, has a least one; the case before it holds, and one step
of the recursion carries it over. The same argument shows that a recursive
definition *has* a value (`SearchExists`, `DecodedExists`, `FlattenSteps`: the prover
knows a `CHOOSE` and must be shown a function that satisfies its equation) and what it
is (`LongestIsFound` for the fold of `getLocation` over a finite set of locations).
For this `parseFormData` states the loop by the places where a pair begins, and
the characters' codes are operators over small sets.

### The site

`Typed` is the base: everything stands in a directory (`IsTree`), and what an upload
is written to is a file if it is anywhere, which `OthersChange` could only disturb by
taking the node away, and then `output` says so. `LookingEffect`, `UploadEffect`,
`OthersEffect` and `ArrivalEffect` say once what each group of calls changes; every
invariant on top uses these and not the actions:

* `DiskKept`: until something is created or removed the disk is, on the nodes nobody
  else touched, as it was; after a failed upload only its directory is new.
* `DeleteKept`: `path` is still what the request named, and `before` was a file there.
* `ListingKept`: from `readdir` to the last row an untouched entry is at hand (in
  `read`, `dirs`, `files` or `shown`) exactly if it exists.
* `UploadKept`: the output is where the first part's name says or gone, and the other
  nodes are as they were. With `FirstFileIsRead` it gives `UploadStored`.
* `StableKept`: where a `GET` has come on a site nobody touches, and that the candidates
  that are still to be tried are the rest of the index, the earlier ones missing.
* `LimitKept` and `FormKept`: a reply is 413 only for `TooLarge`, and a form's is the
  `Popup` of what was parsed. With `StoredLimit` and `FormIsRead` they give the properties.

### Assumptions

The named assumptions of the constants, which TLC evaluates on every run:
sizes are natural numbers, buffers and pipes hold at least one unit, `NoClient` and
`NULL` are no records, ports are between 1 and 65535, a body of one read fits a pipe. For `Site`: nodes are sequences of
names and the initial tree hangs together; roots, indexes, locations and bodies are
texts and the map of locations is finite (`std::map`), no location is empty
(`handle_file.cpp:90` refuses one); no body is longer than a `long` can say
(`parsing_response.cpp:62` casts its size to one); and `fields`, from which
a body says it was written, are what a form or an upload can hold (`FieldsAssumption`),
which constrains no body the server may receive: the properties that use `fields` speak
of bodies that were written from them, and requests with any other body are
among the requests of the other theorems.

The proofs are about the code and not about the shape of the model: with any one
mutant of the run `site`, of `ReplyNotCut`, `ExitsHaveCause` or `ConnectionKept` in
place of the definition it changes, a proof of that property or of a lemma it rests
on fails.

### Only model-checked

The liveness properties `StopIsHonoured`, `IdleConnectionCloses`,
`RefusedConnectionCloses` and `CallEndsUnlessPipeBlocks`: fairness and `ENABLED` are out
of the prover's reach. The six claims that the code does not keep are refuted by
TLC's counterexamples.

## 5. Not modelled

* The environment of a script (`buildCGIEnvironment`), and descriptors above 9 that
  it inherits; `write` returning -1 in `executeCGI`.
* The HTML around listings and replies, dates and sizes, the wording of errors.
* Paths with `.` or `..` components, links and files that are neither regular nor
  directories; other processes create, replace and remove, they do not write into
  a file the server is reading. `readdir` is one read of the whole directory.
* The header a multipart request announces its boundary in: a body's kind and its
  boundary are given. A size without any number in the configuration.
* Lines of the configuration that close and open blocks at once (`} location /b {`),
  open several, or close more than two.
* `display`, and constructs that are commented out.
* `epoll_wait` and `epoll_ctl` fail only as stated above; memory does not run out.

## 6. Plan

Done: every component of the table in section 1 that is program is modelled, its
properties are checked, and the safety properties are proved. What is left:

1. Further theorems about the operators: `combinePaths`, `isCGIRequest`,
   and what `BodySent` does to a script's output, which the runs use but no property
   states on its own.
2. `Cgi` as the detail behind `EventLoop`'s outcomes of a script (a body, 504,
   500, the end by `SIGPIPE`): an abstract call that both refer to.
3. A script's environment, if a property of it turns up that a test would miss.
