--------------------------------- MODULE Cgi ---------------------------------
(***************************************************************************)
(* executeCGI (srcs/response/cgi.cpp): one call after another of the       *)
(* server's thread, the script it forks, a process the script may leave    *)
(* behind, and the two pipes between them.                                 *)
(*                                                                         *)
(* The server's steps are its system calls, in the order of the code; the  *)
(* script's are what any program may do with its standard input and        *)
(* output.  A unit of the body is what one read() of the script returns, a *)
(* chunk of the output what one read() of the server does.                 *)
(***************************************************************************)
EXTENDS Integers, Sequences

CONSTANTS
  Bodies,     \* lengths of client_body a call may have to write
  Timeouts,   \* values of timeout_seconds
  PipeCap,    \* capacity of a pipe, in units or chunks
  MaxOutput,  \* bound: chunks a script and its descendant write in all
  MayFork,    \* whether scripts leave a process behind
  Chunks      \* kinds of chunk scripts write

(* client_body is what one read() of BUFFER_SIZE bytes has left behind the *)
(* end of a header: a new pipe takes it at once.                           *)
ASSUME BodiesAssumption   == Bodies \subseteq 0 .. PipeCap
ASSUME TimeoutsAssumption == Timeouts \subseteq Nat \ {0}
ASSUME CapacityAssumption == PipeCap \in Nat \ {0} /\ MaxOutput \in Nat
ASSUME ForkAssumption     == MayFork \in BOOLEAN
ASSUME ChunksAssumption   == Chunks \subseteq {"text", "nul"}

(* pipe_in[0], pipe_in[1], pipe_out[0], pipe_out[1]                        *)
Ends    == {"in_r", "in_w", "out_r", "out_w"}
Errors  == {"404", "500", "504"}
Statuses == {"exit0", "exit1", "signal"}

VARIABLES
  pc,        \* the server: "idle" between two calls, "killed" by SIGPIPE
  call,      \* the call's [body, timeout]
  result,    \* what the last call returned or threw
  srv,       \* ends the server holds; after a call, those it never closes
  child,     \* ends the script holds
  orphan,    \* ends the process left behind holds
  script,    \* the forked process: "none" before fork and once reaped
  stdin,     \* [queued, got, eof]: units in the pipe, read by the script;
             \* whether it has seen the end
  stdout,    \* [queued, wrote, output]: chunks in the pipe, written so
             \* far, appended to output
  status,    \* what waitpid has stored
  elapsed    \* difftime(time(NULL), start_time)

vars == <<pc, call, result, srv, child, orphan, script, stdin, stdout,
          status, elapsed>>

Alive == script \in {"forked", "running"}
Held(end) == end \in srv \cup child \cup orphan

(* output += buffer: the buffer is a C string.                             *)
AppendCString(output, chunk) ==
  Append(output, IF chunk = "nul" THEN "cut" ELSE "text")

(* stdout after a read() of the server. *)
Received(out) ==
  [queued |-> Tail(out.queued),
   wrote  |-> out.wrote,
   output |-> AppendCString(out.output, Head(out.queued))]

EmptyIn == [queued |-> 0, got |-> 0, eof |-> FALSE]
EmptyOut == [queued |-> <<>>, wrote |-> <<>>, output |-> <<>>]

Init ==
  /\ pc = "idle"
  /\ call = [body |-> 0, timeout |-> 1]
  /\ result = "none"
  /\ srv = {} /\ child = {} /\ orphan = {}
  /\ script = "none"
  /\ stdin = EmptyIn /\ stdout = EmptyOut
  /\ status = "exit0"
  /\ elapsed = 0

-----------------------------------------------------------------------------
(* The server.                                                             *)

(* The call ends with r and leaves the ends in open behind.                *)
Return(r, open) ==
  /\ pc' = "idle" /\ result' = r /\ srv' = open

(* stat, the extension, the interpreter, pipe() and fork(), none of which  *)
(* another process observes.  When the second pipe() fails the first pipe  *)
(* stays open; when fork() fails all four ends are closed.                 *)
Begin(body, timeout) ==
  /\ pc = "idle"
  /\ call' = [body |-> body, timeout |-> timeout]
  /\ stdin' = EmptyIn
  /\ stdout' = EmptyOut
  /\ orphan' = {}
  /\ elapsed' = 0
  /\ \/ Return("404", {}) /\ UNCHANGED <<child, script>>
     \/ Return("500", {}) /\ UNCHANGED <<child, script>>
     \/ Return("500", {"in_r", "in_w"}) /\ UNCHANGED <<child, script>>
     \/ /\ pc' = "parent" /\ result' = "none"
        /\ srv' = Ends /\ child' = Ends
        /\ script' = "forked"
  /\ UNCHANGED status

(* Keeps pipe_out[1] open. *)
Bug_ParentCloses_keeps_writer ==
  /\ pc = "parent"
  /\ srv' = srv \ {"in_r"}
  /\ pc' = IF call.body > 0 THEN "send" ELSE "close"
  /\ UNCHANGED <<call, result, child, orphan, script, stdin, stdout, status, elapsed>>

(* The parent's side of the fork: close(pipe_in[0]), close(pipe_out[1]).   *)
ParentCloses ==
  /\ pc = "parent"
  /\ srv' = srv \ {"in_r", "out_w"}
  /\ pc' = IF call.body > 0 THEN "send" ELSE "close"
  /\ UNCHANGED <<call, result, child, orphan, script, stdin, stdout, status, elapsed>>

(* The body arrives in the pipe; with no reader left write() raises        *)
(* SIGPIPE, for which the server has no handler.                           *)
Written(units) ==
  /\ pc = "send"
  /\ \/ /\ Held("in_r")
        /\ stdin' = [stdin EXCEPT !.queued = units]
        /\ pc' = "close"
     \/ ~Held("in_r") /\ pc' = "killed" /\ UNCHANGED stdin
  /\ UNCHANGED <<call, result, srv, child, orphan, script, stdout, status,
                 elapsed>>

(* Writes the terminating NUL as well: length() + 1. *)
Bug_Send_terminator == Written(call.body + 1)

(* Takes the body for a C string: strlen(client_body.c_str()). *)
Bug_Send_to_first_NUL == \E n \in 0 .. call.body : Written(n)

(* write(pipe_in[1], client_body), of the whole body.                      *)
Send == Written(call.body)

(* close(pipe_in[1]); only now start_time is read.                         *)
CloseStdin ==
  /\ pc = "close"
  /\ srv' = srv \ {"in_w"}
  /\ elapsed' = 0
  /\ pc' = "poll"
  /\ UNCHANGED <<call, result, child, orphan, script, stdin, stdout, status>>

(* Reads what there is while it waits. *)
Bug_Poll_reads ==
  /\ pc = "poll"
  /\ IF Alive
     THEN pc' = "clock" /\ UNCHANGED <<script, status>>
     ELSE pc' = "read" /\ script' = "none" /\ status' = script
  /\ stdout' = IF stdout.queued # <<>> THEN Received(stdout) ELSE stdout
  /\ UNCHANGED <<call, result, srv, child, orphan, stdin, elapsed>>

(* waitpid(WNOHANG): a script that has ended is reaped and the loop left.  *)
Poll ==
  /\ pc = "poll"
  /\ IF Alive
     THEN pc' = "clock" /\ UNCHANGED <<script, status>>
     ELSE pc' = "read" /\ script' = "none" /\ status' = script
  /\ UNCHANGED <<call, result, srv, child, orphan, stdin, stdout, elapsed>>

(* Throws without closing pipe_out[0]. *)
Bug_CheckClock_leaks ==
  /\ pc = "clock"
  /\ IF elapsed > call.timeout
     THEN /\ script' = "none" /\ child' = {}
          /\ status' = IF Alive THEN "signal" ELSE script
          /\ Return("504", srv)
     ELSE pc' = "poll" /\ UNCHANGED <<script, child, status, result, srv>>
  /\ UNCHANGED <<call, orphan, stdin, stdout, elapsed>>

(* The time is up: kill(SIGKILL), waitpid, close(pipe_out[0]), throw; or   *)
(* the loop goes round.  The script may have ended since the last Poll.    *)
CheckClock ==
  /\ pc = "clock"
  /\ IF elapsed > call.timeout
     THEN /\ script' = "none" /\ child' = {}
          /\ status' = IF Alive THEN "signal" ELSE script
          /\ Return("504", srv \ {"out_r"})
     ELSE pc' = "poll" /\ UNCHANGED <<script, child, status, result, srv>>
  /\ UNCHANGED <<call, orphan, stdin, stdout, elapsed>>

(* Reads one buffer. *)
Bug_ReadOutput_once ==
  /\ pc = "read"
  /\ \/ /\ stdout.queued # <<>>
        /\ stdout' = Received(stdout)
     \/ stdout.queued = <<>> /\ ~Held("out_w") /\ UNCHANGED stdout
  /\ Return(IF status = "exit1" THEN "500" ELSE "output", srv \ {"out_r"})
  /\ UNCHANGED <<call, child, orphan, script, stdin, status, elapsed>>

(* The read loop: it waits for every writer of the pipe, not only for the  *)
(* script, and a script ended by a signal has not "exited with error".     *)
ReadOutput ==
  /\ pc = "read"
  /\ \/ /\ stdout.queued # <<>>
        /\ stdout' = Received(stdout)
        /\ UNCHANGED <<pc, result, srv>>
     \/ /\ stdout.queued = <<>> /\ ~Held("out_w")
        /\ Return(IF status = "exit1" THEN "500" ELSE "output", srv \ {"out_r"})
        /\ UNCHANGED stdout
  /\ UNCHANGED <<call, child, orphan, script, stdin, status, elapsed>>

Server ==
  \/ \E body \in Bodies, timeout \in Timeouts : Begin(body, timeout)
  \/ ParentCloses
  \/ Send
  \/ CloseStdin
  \/ Poll
  \/ CheckClock
  \/ ReadOutput

-----------------------------------------------------------------------------
(* The script.                                                             *)

(* The process ends and its ends are closed.                               *)
ScriptEnds(st) == script' = st /\ child' = {}

(* Keeps pipe_in[1] open in the child. *)
Bug_ChildExec_keeps_writer ==
  /\ script = "forked"
  /\ \/ script' = "running" /\ child' = child \ {"out_r"} /\ UNCHANGED stdout
     \/ ScriptEnds("exit1") /\ UNCHANGED stdout
  /\ UNCHANGED <<pc, call, result, srv, orphan, stdin, status, elapsed>>

(* The child closes the ends of the parent, makes the others its standard  *)
(* input and output and calls execve.  When execve fails it says so on its *)
(* standard output, the pipe, and exits with 1.                            *)
ChildExec ==
  /\ script = "forked"
  /\ \/ /\ script' = "running"
        /\ child' = child \ {"in_w", "out_r"}
        /\ UNCHANGED stdout
     \/ /\ ScriptEnds("exit1")
        /\ stdout' = [stdout EXCEPT !.queued = Append(@, "text"),
                                    !.wrote  = Append(@, "text")]
  /\ UNCHANGED <<pc, call, result, srv, orphan, stdin, status, elapsed>>

(* A read of standard input: a unit, or its end.                           *)
ScriptReads ==
  /\ script = "running" /\ "in_r" \in child
  /\ \/ /\ stdin.queued > 0
        /\ stdin' = [stdin EXCEPT !.queued = @ - 1, !.got = @ + 1]
     \/ /\ stdin.queued = 0 /\ ~Held("in_w") /\ ~stdin.eof
        /\ stdin' = [stdin EXCEPT !.eof = TRUE]
  /\ UNCHANGED <<pc, call, result, srv, child, orphan, script, stdout, status, elapsed>>

(* The script closes its standard input unread.                            *)
ScriptClosesInput ==
  /\ script = "running" /\ "in_r" \in child
  /\ child' = child \ {"in_r"}
  /\ UNCHANGED <<pc, call, result, srv, orphan, script, stdin, stdout, status, elapsed>>

(* The script, or the process it left behind, writes a chunk; without a    *)
(* reader the process left behind is killed by SIGPIPE.                    *)
ScriptWrites(chunk) ==
  /\ script = "running" \/ orphan # {}
  /\ Held("out_r")
  /\ Len(stdout.queued) < PipeCap /\ Len(stdout.wrote) < MaxOutput
  /\ stdout' = [stdout EXCEPT !.queued = Append(@, chunk),
                              !.wrote  = Append(@, chunk)]
  /\ UNCHANGED <<pc, call, result, srv, child, orphan, script, stdin, status, elapsed>>

(* The script leaves a process behind that shares its input and output.    *)
ScriptForks ==
  /\ MayFork /\ script = "running" /\ orphan = {}
  /\ orphan' = child
  /\ UNCHANGED <<pc, call, result, srv, child, script, stdin, stdout, status, elapsed>>

OrphanExits ==
  /\ orphan # {}
  /\ orphan' = {}
  /\ UNCHANGED <<pc, call, result, srv, child, script, stdin, stdout, status, elapsed>>

ScriptExits(st) ==
  /\ script = "running"
  /\ ScriptEnds(st)
  /\ UNCHANGED <<pc, call, result, srv, orphan, stdin, stdout, status, elapsed>>

Script ==
  \/ ChildExec
  \/ ScriptReads
  \/ ScriptClosesInput
  \/ \E chunk \in Chunks : ScriptWrites(chunk)
  \/ ScriptForks
  \/ OrphanExits
  \/ \E st \in Statuses : ScriptExits(st)

-----------------------------------------------------------------------------
(* A second passes; after timeout + 1 the exact count does not matter.     *)
Tick ==
  /\ pc \in {"poll", "clock"} /\ elapsed <= call.timeout
  /\ elapsed' = elapsed + 1
  /\ UNCHANGED <<pc, call, result, srv, child, orphan, script, stdin, stdout,
                 status>>

Next == Server \/ Script \/ Tick

(* The server's thread runs whenever a system call lets it, and time       *)
(* passes.  Scripts owe nothing.                                           *)
Spec == Init /\ [][Next]_vars
FairSpec == Spec /\ WF_vars(Server) /\ WF_vars(Tick)

-----------------------------------------------------------------------------
(* Properties.                                                             *)

InCall == pc \notin {"idle", "killed"}

TypeOK ==
  /\ pc \in {"idle", "parent", "send", "close", "poll", "clock", "read",
             "killed"}
  /\ call \in [body : 0 .. PipeCap, timeout : Nat]
  /\ result \in {"none", "output"} \cup Errors
  /\ srv \subseteq Ends /\ child \subseteq Ends /\ orphan \subseteq Ends
  /\ script \in {"none", "forked", "running"} \cup Statuses
  /\ stdin \in [queued : 0 .. PipeCap, got : 0 .. PipeCap, eof : BOOLEAN]
  /\ stdout \in [queued : Seq({"text", "nul"}), wrote : Seq({"text", "nul"}),
                 output : Seq({"text", "cut"})]
  /\ status \in Statuses
  /\ elapsed \in Nat

(* Whatever way a call ends, no process of it is left to be waited for,    *)
(* and no end is left open but the two of the first pipe when the second   *)
(* could not be created.                                                   *)
CallLeavesNothing ==
  pc = "idle" =>
    /\ script = "none"
    /\ srv # {} => /\ srv = {"in_r", "in_w"}
                    /\ result = "500" /\ stdout = EmptyOut

(* Once the server has closed its end nobody keeps the script's standard   *)
(* input open for writing: a script that reads to the end finds it.        *)
StdinEnds ==
  pc \in {"poll", "clock", "read"} /\ script # "forked" => ~Held("in_w")

(* A script that has read to the end has the whole body.                   *)
BodyArrivesWhole == stdin.eof => stdin.got = call.body

(* A call that returns, returns everything written to the pipe in order,   *)
(* by the script or by what it left behind, each chunk up to its first NUL,*)
(* and only of a script that did not exit with an error.                   *)
OutputComplete ==
  pc = "idle" /\ result = "output" =>
    /\ Len(stdout.output) = Len(stdout.wrote)
    /\ \A i \in DOMAIN stdout.wrote :
         stdout.output[i] = "cut" <=> stdout.wrote[i] = "nul"
    /\ status # "exit1"

(* While the script runs, no more gets out than a pipe holds: one that has *)
(* more to say waits until the time is up, and a longer output comes from  *)
(* a process that has outlived it.                                         *)
OutputBoundedByPipe == Alive => Len(stdout.wrote) <= PipeCap

(* A call that never ends stays for ever in the read loop, behind a        *)
(* process that has outlived the script and keeps the pipe open: nothing   *)
(* else blocks it.                                                         *)
CallEndsUnlessPipeBlocks ==
  InCall ~> ~InCall \/ [](pc = "read" /\ "out_w" \in orphan)

(* Claims of the documentation that the code does not keep.                *)

(* Every call ends (README.md, "Gestion du timeout pour les scripts CGI    *)
(* afin d'eviter les processus bloquants"): the timeout is looked at while *)
(* the script runs, not in the read loop behind it.                        *)
EveryCallEnds == InCall ~> ~InCall
=============================================================================
