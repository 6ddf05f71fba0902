------------------------------ MODULE Cgi_proofs ------------------------------
(***************************************************************************)
(* executeCGI, for bodies, timeouts and pipes of every size: whichever way *)
(* a call ends it has reaped its script and closed its pipes, the body     *)
(* arrives whole and the output is returned whole.                         *)
(***************************************************************************)
EXTENDS Cgi, TLAPS

ChildEnds == {"in_r", "out_w"}

(* Who holds which end follows from where the two processes are.           *)
EndsHeld ==
  /\ pc = "parent" => srv = Ends
  /\ pc \in {"send", "close", "killed"} => srv = {"in_w", "out_r"}
  /\ pc \in {"poll", "clock", "read"} => srv = {"out_r"}
  /\ script = "running" => child \subseteq ChildEnds
  /\ script \notin {"forked", "running"} => child = {}
  /\ orphan \subseteq ChildEnds
  /\ pc = "read" => script = "none"
  /\ pc \in {"parent", "send", "close", "poll", "clock"} => script # "none"

(* A unit of a body that has been written is in the pipe or read, and the  *)
(* script sees the end only after the server has closed its side.          *)
BodyConserved ==
  /\ pc \in {"parent", "send", "killed"} => stdin.queued = 0 /\ stdin.got = 0
  /\ pc \in {"close", "poll", "clock", "read"} => stdin.queued + stdin.got = call.body
  /\ stdin.eof => /\ pc \in {"poll", "clock", "read", "idle"}
                  /\ stdin.queued = 0 /\ stdin.got = call.body

(* What was written is what the server has read, then what is queued.      *)
OutputConserved ==
  /\ Len(stdout.wrote) = Len(stdout.output) + Len(stdout.queued)
  /\ \A i \in 1 .. Len(stdout.output) :
       stdout.output[i] = "cut" <=> stdout.wrote[i] = "nul"
  /\ \A i \in 1 .. Len(stdout.queued) :
       stdout.wrote[Len(stdout.output) + i] = stdout.queued[i]
  /\ pc = "idle" /\ result = "output" => stdout.queued = <<>> /\ status # "exit1"

IInv == TypeOK /\ CallLeavesNothing /\ EndsHeld /\ BodyConserved /\ OutputConserved

-----------------------------------------------------------------------------

(* Appending to a sequence and to a suffix of it keeps the one a suffix.   *)
LEMMA AppendKeepsSuffix ==
  ASSUME NEW S, NEW w \in Seq(S), NEW q \in Seq(S), NEW n \in Nat, NEW c \in S,
         Len(w) = n + Len(q),
         \A i \in 1 .. Len(q) : w[n + i] = q[i]
  PROVE  /\ Len(Append(w, c)) = n + Len(Append(q, c))
         /\ \A i \in 1 .. n : Append(w, c)[i] = w[i]
         /\ \A i \in 1 .. Len(Append(q, c)) : Append(w, c)[n + i] = Append(q, c)[i]
<1>1. Len(w) \in Nat /\ Len(q) \in Nat
  OBVIOUS
<1>2. Len(Append(w, c)) = Len(w) + 1 /\ Len(Append(q, c)) = Len(q) + 1
  OBVIOUS
<1>3. \A i \in 1 .. Len(w) : Append(w, c)[i] = w[i]
  OBVIOUS
<1>4. \A i \in 1 .. Len(q) : Append(q, c)[i] = q[i]
  OBVIOUS
<1>5. Append(w, c)[Len(w) + 1] = c /\ Append(q, c)[Len(q) + 1] = c
  OBVIOUS
<1>6. ASSUME NEW i \in 1 .. Len(Append(q, c))
      PROVE  Append(w, c)[n + i] = Append(q, c)[i]
  <2>1. CASE i \in 1 .. Len(q)
    <3>1. n + i \in 1 .. Len(w)
      BY <1>1, <2>1
    <3>2. QED  BY <1>3, <1>4, <2>1, <3>1
  <2>2. CASE i = Len(q) + 1
    <3>1. n + i = Len(w) + 1
      BY <1>1, <2>2
    <3>2. QED  BY <1>5, <2>2, <3>1
  <2>3. QED  BY <1>1, <1>2, <2>1, <2>2
<1>7. QED  BY <1>1, <1>2, <1>3, <1>6

(* A chunk that is written goes to the end of both sequences.              *)
LEMMA WriteConserves ==
  ASSUME IInv, NEW chunk \in {"text", "nul"},
         stdout' = [stdout EXCEPT !.queued = Append(stdout.queued, chunk),
                                  !.wrote  = Append(stdout.wrote, chunk)],
         pc' = pc, pc # "idle"
  PROVE  OutputConserved' /\ stdout' \in [queued : Seq({"text", "nul"}),
                                          wrote  : Seq({"text", "nul"}),
                                          output : Seq({"text", "cut"})]
<1> DEFINE q == stdout.queued
           w == stdout.wrote
           o == stdout.output
<1>1. q \in Seq({"text", "nul"}) /\ w \in Seq({"text", "nul"})
        /\ o \in Seq({"text", "cut"})
  BY DEF IInv, TypeOK
<1>2. /\ stdout'.queued = Append(q, chunk)
      /\ stdout'.wrote = Append(w, chunk)
      /\ stdout'.output = o
  BY DEF IInv, TypeOK
<1>3. /\ Len(w) = Len(o) + Len(q)
      /\ \A i \in 1 .. Len(o) : o[i] = "cut" <=> w[i] = "nul"
      /\ \A i \in 1 .. Len(q) : w[Len(o) + i] = q[i]
  BY DEF IInv, OutputConserved
<1> HIDE DEF q, w, o
<1>4. /\ Len(Append(w, chunk)) = Len(o) + Len(Append(q, chunk))
      /\ \A i \in 1 .. Len(o) : Append(w, chunk)[i] = w[i]
      /\ \A i \in 1 .. Len(Append(q, chunk)) :
           Append(w, chunk)[Len(o) + i] = Append(q, chunk)[i]
  <2> DEFINE K == {"text", "nul"}
             n == Len(o)
  <2>1. n \in Nat /\ chunk \in K /\ q \in Seq(K) /\ w \in Seq(K)
    BY <1>1
  <2>2. Len(w) = n + Len(q) /\ \A i \in 1 .. Len(q) : w[n + i] = q[i]
    BY <1>3
  <2> HIDE DEF K, n
  <2>3. /\ Len(Append(w, chunk)) = n + Len(Append(q, chunk))
        /\ \A i \in 1 .. n : Append(w, chunk)[i] = w[i]
        /\ \A i \in 1 .. Len(Append(q, chunk)) :
             Append(w, chunk)[n + i] = Append(q, chunk)[i]
    BY <2>1, <2>2, AppendKeepsSuffix, SMTT(30)
  <2>4. QED  BY <2>3 DEF n
<1>5. \A i \in 1 .. Len(o) : o[i] = "cut" <=> Append(w, chunk)[i] = "nul"
  BY <1>3, <1>4
<1>6. Append(q, chunk) \in Seq({"text", "nul"})
        /\ Append(w, chunk) \in Seq({"text", "nul"})
  BY <1>1
<1>7. OutputConserved'
  <2>1. Len(stdout'.wrote) = Len(stdout'.output) + Len(stdout'.queued)
    BY <1>2, <1>4
  <2>2. \A i \in 1 .. Len(stdout'.output) :
          stdout'.output[i] = "cut" <=> stdout'.wrote[i] = "nul"
    BY <1>2, <1>5, ZenonT(30)
  <2>3. \A i \in 1 .. Len(stdout'.queued) :
          stdout'.wrote[Len(stdout'.output) + i] = stdout'.queued[i]
    BY <1>2, <1>4
  <2>4. QED  BY <2>1, <2>2, <2>3 DEF OutputConserved
<1>8. stdout' = [queued |-> Append(q, chunk), wrote |-> Append(w, chunk),
                 output |-> o]
  BY DEF IInv, TypeOK, q, w, o
<1>9. stdout' \in [queued : Seq({"text", "nul"}), wrote : Seq({"text", "nul"}),
                  output : Seq({"text", "cut"})]
  <2>1. [queued |-> Append(q, chunk), wrote |-> Append(w, chunk), output |-> o]
          \in [queued : Seq({"text", "nul"}), wrote : Seq({"text", "nul"}),
              output : Seq({"text", "cut"})]
    BY <1>1, <1>6, Zenon
  <2>2. QED  BY <1>8, <2>1, Zenon
<1>10. QED  BY <1>7, <1>9

(* A chunk that is read moves from the pipe to output.                     *)
LEMMA ReadConserves ==
  ASSUME IInv, stdout.queued # <<>>, stdout' = Received(stdout),
         pc = "read", pc' = "read"
  PROVE  OutputConserved' /\ stdout' \in [queued : Seq({"text", "nul"}),
                                          wrote  : Seq({"text", "nul"}),
                                          output : Seq({"text", "cut"})]
<1> DEFINE q == stdout.queued
           w == stdout.wrote
           o == stdout.output
           piece == IF Head(q) = "nul" THEN "cut" ELSE "text"
<1>1. q \in Seq({"text", "nul"}) /\ w \in Seq({"text", "nul"})
        /\ o \in Seq({"text", "cut"}) /\ q # <<>>
  BY DEF IInv, TypeOK
<1>2. /\ stdout'.queued = Tail(q)
      /\ stdout'.wrote = w
      /\ stdout'.output = Append(o, piece)
  BY DEF Received, AppendCString
<1>3. /\ Len(w) = Len(o) + Len(q)
      /\ \A i \in 1 .. Len(o) : o[i] = "cut" <=> w[i] = "nul"
      /\ \A i \in 1 .. Len(q) : w[Len(o) + i] = q[i]
  BY DEF IInv, OutputConserved
<1>4. piece \in {"text", "cut"} /\ (piece = "cut" <=> q[1] = "nul")
  BY <1>1
<1> HIDE DEF q, w, o, piece
<1>5. Len(w) = Len(Append(o, piece)) + Len(Tail(q))
  BY <1>1, <1>3
<1>6. \A i \in 1 .. Len(Append(o, piece)) :
        Append(o, piece)[i] = "cut" <=> w[i] = "nul"
  <2>1. w[Len(o) + 1] = q[1]
    BY <1>1, <1>3
  <2>2. QED  BY <1>1, <1>3, <1>4, <2>1
<1>7. \A i \in 1 .. Len(Tail(q)) : w[Len(Append(o, piece)) + i] = Tail(q)[i]
  <2> SUFFICES ASSUME NEW i \in 1 .. Len(Tail(q))
               PROVE  w[Len(Append(o, piece)) + i] = Tail(q)[i]
    OBVIOUS
  <2>1. i + 1 \in 1 .. Len(q) /\ Tail(q)[i] = q[i + 1]
    BY <1>1
  <2>2. w[Len(o) + (i + 1)] = q[i + 1]
    BY <1>3, <2>1
  <2>3. Len(Append(o, piece)) + i = Len(o) + (i + 1)
    BY <1>1
  <2>4. QED  BY <2>1, <2>2, <2>3
<1>8. OutputConserved'
  BY <1>2, <1>5, <1>6, <1>7 DEF OutputConserved
<1>9. Tail(q) \in Seq({"text", "nul"}) /\ Append(o, piece) \in Seq({"text", "cut"})
  BY <1>1, <1>4
<1>10. stdout' = [queued |-> Tail(q), wrote |-> w, output |-> Append(o, piece)]
  BY DEF Received, AppendCString, q, w, o, piece
<1>11. QED  BY <1>1, <1>8, <1>9, <1>10

-----------------------------------------------------------------------------
(* The server's steps.                                                     *)

(* A call begins with nothing left of the one before.                      *)
LEMMA BeginPreserves ==
  ASSUME IInv, NEW body \in Bodies, NEW timeout \in Timeouts,
         Begin(body, timeout)
  PROVE  IInv'
<1>1. body \in 0 .. PipeCap /\ timeout \in Nat /\ PipeCap \in Nat
  BY BodiesAssumption, TimeoutsAssumption, CapacityAssumption
<1>2. /\ stdout' = EmptyOut
      /\ stdin' = [queued |-> 0, got |-> 0, eof |-> FALSE]
      /\ call' = [body |-> body, timeout |-> timeout]
      /\ pc = "idle"
  BY DEF Begin, EmptyIn
<1>3. OutputConserved'
  BY <1>2 DEF Begin, IInv, OutputConserved, EmptyOut, Return
<1>7. TypeOK'
  <2>1. stdout' \in [queued : Seq({"text", "nul"}), wrote : Seq({"text", "nul"}),
                     output : Seq({"text", "cut"})]
    BY <1>2 DEF EmptyOut
  <2>2. stdin' \in [queued : 0 .. PipeCap, got : 0 .. PipeCap, eof : BOOLEAN]
          /\ call' \in [body : 0 .. PipeCap, timeout : Nat]
    BY <1>1, <1>2
  <2>3. QED  BY <2>1, <2>2 DEF Begin, IInv, TypeOK, Return, Errors, Ends
<1>4. BodyConserved'
  BY <1>1, <1>2 DEF Begin, BodyConserved, Return
<1>5. CallLeavesNothing' /\ EndsHeld'
  BY <1>2 DEF Begin, IInv, CallLeavesNothing, EndsHeld, Return, Ends, ChildEnds
<1>6. QED  BY <1>3, <1>4, <1>5, <1>7 DEF IInv

(* The parent keeps the two ends it uses.                                  *)
LEMMA ParentClosesPreserves ==
  ASSUME IInv, ParentCloses
  PROVE  IInv'
<1>1. TypeOK' /\ CallLeavesNothing' /\ OutputConserved'
  BY DEF ParentCloses, IInv, TypeOK, CallLeavesNothing, OutputConserved
<1>2. EndsHeld'
  BY DEF ParentCloses, IInv, EndsHeld, Ends
<1>3. BodyConserved'
  BY DEF ParentCloses, IInv, TypeOK, BodyConserved
<1>4. QED  BY <1>1, <1>2, <1>3 DEF IInv

(* The body is put into the pipe, or the process is killed.                *)
LEMMA SendPreserves ==
  ASSUME IInv, Send
  PROVE  IInv'
<1>1. pc = "send" /\ pc' \in {"close", "killed"}
  BY DEF Send, Written
<1>2. OutputConserved' /\ EndsHeld' /\ CallLeavesNothing'
  BY <1>1 DEF Send, Written, IInv, OutputConserved, EndsHeld, CallLeavesNothing
<1>3. /\ stdin \in [queued : 0 .. PipeCap, got : 0 .. PipeCap, eof : BOOLEAN]
      /\ call.body \in 0 .. PipeCap /\ PipeCap \in Nat
      /\ stdin.got = 0 /\ ~stdin.eof
  BY <1>1, CapacityAssumption DEF IInv, TypeOK, BodyConserved
<1>4. \/ stdin' = [stdin EXCEPT !.queued = call.body] /\ pc' = "close"
      \/ stdin' = stdin /\ pc' = "killed"
  BY DEF Send, Written
<1>5. TypeOK'
  <2>1. stdin' \in [queued : 0 .. PipeCap, got : 0 .. PipeCap, eof : BOOLEAN]
    BY <1>3, <1>4
  <2>2. QED  BY <1>1, <2>1 DEF Send, Written, IInv, TypeOK
<1>6. BodyConserved'
  <2>1. call' = call
    BY DEF Send, Written
  <2>2. QED  BY <1>1, <1>3, <1>4, <2>1 DEF IInv, BodyConserved
<1>7. QED  BY <1>2, <1>5, <1>6 DEF IInv

(* The server closes the script's input.                                   *)
LEMMA CloseStdinPreserves ==
  ASSUME IInv, CloseStdin
  PROVE  IInv'
<1>1. script # "none"
  BY DEF IInv, EndsHeld, CloseStdin
<1>2. QED  BY <1>1 DEF CloseStdin, IInv, TypeOK, CallLeavesNothing, EndsHeld,
                       BodyConserved, OutputConserved, Ends

(* Polling reaps a script that has ended.                                  *)
LEMMA PollPreserves ==
  ASSUME IInv, Poll
  PROVE  IInv'
<1>1. pc = "poll" /\ pc' \in {"clock", "read"}
  BY DEF Poll
<1>2. TypeOK' /\ CallLeavesNothing' /\ BodyConserved' /\ OutputConserved'
  BY <1>1 DEF Poll, IInv, TypeOK, EndsHeld, CallLeavesNothing, BodyConserved,
              OutputConserved, Alive, Statuses
<1>3. EndsHeld'
  BY <1>1 DEF Poll, IInv, EndsHeld, Alive
<1>4. QED  BY <1>2, <1>3 DEF IInv

(* The timeout kills and reaps the script and closes the last end.         *)
LEMMA CheckClockPreserves ==
  ASSUME IInv, CheckClock
  PROVE  IInv'
<1>1. pc = "clock" /\ srv = {"out_r"}
  BY DEF CheckClock, IInv, EndsHeld
<1>2. CASE elapsed > call.timeout
  <2>1. /\ pc' = "idle" /\ result' = "504" /\ srv' = {}
        /\ script' = "none" /\ child' = {}
        /\ status' = IF Alive THEN "signal" ELSE script
        /\ UNCHANGED <<call, orphan, stdin, stdout, elapsed>>
    BY <1>1, <1>2 DEF CheckClock, Return
  <2>2. status' \in Statuses
    BY <1>1, <2>1 DEF IInv, TypeOK, EndsHeld, Alive, Statuses
  <2>3. TypeOK'
    BY <2>1, <2>2 DEF IInv, TypeOK, Errors
  <2>4. CallLeavesNothing'
    BY <2>1 DEF CallLeavesNothing
  <2>5. EndsHeld'
    BY <1>1, <2>1 DEF IInv, EndsHeld, ChildEnds
  <2>6. BodyConserved'
    BY <1>1, <2>1 DEF IInv, BodyConserved
  <2>7. OutputConserved'
    BY <2>1 DEF IInv, OutputConserved
  <2>8. QED  BY <2>3, <2>4, <2>5, <2>6, <2>7 DEF IInv
<1>3. CASE ~(elapsed > call.timeout)
  BY <1>1, <1>3 DEF CheckClock, IInv, TypeOK, EndsHeld, CallLeavesNothing,
                    BodyConserved, OutputConserved
<1>4. QED  BY <1>2, <1>3

(* The read loop moves chunks, and returns when there are none to come.    *)
LEMMA ReadOutputPreserves ==
  ASSUME IInv, ReadOutput
  PROVE  IInv'
<1>1. pc = "read" /\ srv = {"out_r"} /\ script = "none"
  BY DEF ReadOutput, IInv, EndsHeld
<1>2. CASE stdout.queued # <<>>
  <2>1. /\ stdout' = Received(stdout) /\ pc' = "read"
        /\ UNCHANGED <<pc, result, srv, call, child, orphan, script, stdin,
                       status, elapsed>>
    BY <1>1, <1>2 DEF ReadOutput
  <2>2. OutputConserved' /\ stdout' \in [queued : Seq({"text", "nul"}),
                                         wrote  : Seq({"text", "nul"}),
                                         output : Seq({"text", "cut"})]
    BY <1>1, <1>2, <2>1, ReadConserves
  <2>3. TypeOK'
    BY <2>1, <2>2 DEF IInv, TypeOK
  <2>4. QED  BY <1>1, <2>1, <2>2, <2>3 DEF IInv, CallLeavesNothing, EndsHeld,
                                           BodyConserved
<1>3. CASE stdout.queued = <<>>
  BY <1>1, <1>3 DEF ReadOutput, IInv, TypeOK, EndsHeld, CallLeavesNothing,
                    BodyConserved, OutputConserved, Return, Errors, Ends
<1>4. QED  BY <1>2, <1>3

-----------------------------------------------------------------------------
(* The script's steps and the environment's.                               *)

(* A failing execve writes its message as any script writes.               *)
LEMMA ChildExecPreserves ==
  ASSUME IInv, ChildExec
  PROVE  IInv'
<1>1. script = "forked" /\ pc # "idle"
  BY DEF ChildExec, IInv, CallLeavesNothing
<1>2. CallLeavesNothing' /\ BodyConserved'
  BY <1>1 DEF ChildExec, IInv, CallLeavesNothing, BodyConserved
<1>3. EndsHeld' /\ child' \subseteq Ends
  BY <1>1 DEF ChildExec, IInv, TypeOK, EndsHeld, ScriptEnds, ChildEnds, Ends
<1>4. OutputConserved' /\ stdout' \in [queued : Seq({"text", "nul"}),
                                       wrote  : Seq({"text", "nul"}),
                                       output : Seq({"text", "cut"})]
  <2>1. CASE stdout' = stdout
    BY <1>1, <2>1 DEF ChildExec, IInv, TypeOK, OutputConserved
  <2>2. CASE stdout' # stdout
    <3>1. stdout' = [stdout EXCEPT !.queued = Append(stdout.queued, "text"),
                                   !.wrote  = Append(stdout.wrote, "text")]
      BY <2>2 DEF ChildExec
    <3>2. pc' = pc
      BY DEF ChildExec
    <3>3. QED  BY <1>1, <3>1, <3>2, WriteConserves
  <2>3. QED  BY <2>1, <2>2
<1>5. TypeOK'
  BY <1>3, <1>4 DEF ChildExec, IInv, TypeOK, ScriptEnds, Statuses
<1>6. QED  BY <1>2, <1>3, <1>4, <1>5 DEF IInv

(* The script reads a unit, or the end the server has made.                *)
LEMMA ScriptReadsPreserves ==
  ASSUME IInv, ScriptReads
  PROVE  IInv'
<1>1. /\ stdin \in [queued : 0 .. PipeCap, got : 0 .. PipeCap, eof : BOOLEAN]
      /\ call.body \in 0 .. PipeCap /\ PipeCap \in Nat
      /\ UNCHANGED <<pc, call, result, srv, child, orphan, script, stdout,
                     status, elapsed>>
      /\ script = "running"
  BY CapacityAssumption DEF IInv, TypeOK, ScriptReads
<1>2. CallLeavesNothing' /\ EndsHeld' /\ OutputConserved'
  BY <1>1 DEF IInv, CallLeavesNothing, EndsHeld, OutputConserved
<1>3. CASE stdin.queued > 0
  <2>1. stdin' = [stdin EXCEPT !.queued = stdin.queued - 1, !.got = stdin.got + 1]
    BY <1>3 DEF ScriptReads
  <2>2. /\ stdin'.queued = stdin.queued - 1
        /\ stdin'.got = stdin.got + 1 /\ stdin'.eof = stdin.eof
    BY <1>1, <2>1
  <2>3. /\ pc \in {"close", "poll", "clock"} /\ ~stdin.eof
        /\ stdin.queued + stdin.got = call.body
    BY <1>1, <1>3 DEF IInv, TypeOK, BodyConserved, CallLeavesNothing, EndsHeld
  <2>4. BodyConserved'
    BY <1>1, <2>2, <2>3 DEF BodyConserved
  <2>5. stdin' \in [queued : 0 .. PipeCap, got : 0 .. PipeCap, eof : BOOLEAN]
    <3>1. stdin' = [queued |-> stdin.queued - 1, got |-> stdin.got + 1, eof |-> stdin.eof]
      BY <1>1, <2>1
    <3>2. stdin.queued - 1 \in 0 .. PipeCap /\ stdin.got + 1 \in 0 .. PipeCap
      BY <1>1, <1>3, <2>3
    <3>3. QED  BY <1>1, <3>1, <3>2
  <2>6. TypeOK'
    BY <1>1, <2>5 DEF IInv, TypeOK
  <2>7. QED  BY <1>2, <2>4, <2>6 DEF IInv
<1>4. CASE ~(stdin.queued > 0)
  <2>1. stdin' = [stdin EXCEPT !.eof = TRUE] /\ stdin.queued = 0 /\ ~Held("in_w")
    BY <1>4 DEF ScriptReads
  <2>2. pc \in {"poll", "clock"}
    BY <1>1, <2>1 DEF IInv, TypeOK, EndsHeld, CallLeavesNothing, Held, Ends
  <2>3. BodyConserved'
    BY <1>1, <2>1, <2>2 DEF IInv, BodyConserved
  <2>4. TypeOK'
    BY <1>1, <2>1 DEF IInv, TypeOK
  <2>5. QED  BY <1>2, <2>3, <2>4 DEF IInv
<1>5. QED  BY <1>3, <1>4

(* A chunk can only be written during a call: nobody holds the reading end *)
(* after it.                                                               *)
LEMMA ScriptWritesPreserves ==
  ASSUME IInv, NEW chunk \in Chunks, ScriptWrites(chunk)
  PROVE  IInv'
<1>1. pc # "idle"
  BY DEF ScriptWrites, IInv, CallLeavesNothing, EndsHeld, Held, ChildEnds
<1>2. stdout' = [stdout EXCEPT !.queued = Append(stdout.queued, chunk),
                               !.wrote  = Append(stdout.wrote, chunk)]
        /\ UNCHANGED <<pc, call, result, srv, child, orphan, script, stdin,
                       status, elapsed>>
  BY DEF ScriptWrites
<1>3. OutputConserved' /\ stdout' \in [queued : Seq({"text", "nul"}),
                                       wrote  : Seq({"text", "nul"}),
                                       output : Seq({"text", "cut"})]
  BY <1>1, <1>2, WriteConserves, ChunksAssumption
<1>4. TypeOK' /\ CallLeavesNothing' /\ EndsHeld' /\ BodyConserved'
  BY <1>1, <1>2, <1>3 DEF IInv, TypeOK, CallLeavesNothing, EndsHeld, BodyConserved
<1>5. QED  BY <1>3, <1>4 DEF IInv

(* The other steps touch the ends of the script and of what it leaves, or  *)
(* the clock.                                                              *)
LEMMA OthersPreserve ==
  ASSUME IInv,
         \/ ScriptClosesInput \/ ScriptForks \/ OrphanExits \/ Tick
         \/ \E st \in Statuses : ScriptExits(st)
         \/ UNCHANGED vars
  PROVE  IInv'
<1>1. CASE ScriptClosesInput
  BY <1>1 DEF ScriptClosesInput, IInv, TypeOK, CallLeavesNothing, EndsHeld,
              BodyConserved, OutputConserved
<1>2. CASE ScriptForks \/ OrphanExits
  <2>1. TypeOK' /\ EndsHeld'
    BY <1>2, ZenonT(30) DEF ScriptForks, OrphanExits, IInv, TypeOK, EndsHeld, Ends, ChildEnds
  <2>2. CallLeavesNothing' /\ BodyConserved' /\ OutputConserved'
    BY <1>2 DEF ScriptForks, OrphanExits, IInv, CallLeavesNothing, BodyConserved,
                OutputConserved
  <2>3. QED  BY <2>1, <2>2 DEF IInv
<1>3. CASE Tick
  <2>1. elapsed' \in Nat
    BY <1>3 DEF Tick, IInv, TypeOK
  <2>2. TypeOK' /\ EndsHeld'
    BY <1>3, <2>1 DEF Tick, IInv, TypeOK, EndsHeld
  <2>3. CallLeavesNothing' /\ BodyConserved' /\ OutputConserved'
    BY <1>3 DEF Tick, IInv, CallLeavesNothing, BodyConserved, OutputConserved
  <2>4. QED  BY <2>2, <2>3 DEF IInv
<1>4. CASE \E st \in Statuses : ScriptExits(st)
  BY <1>4, SMTT(30) DEF ScriptExits, ScriptEnds, IInv, TypeOK, CallLeavesNothing,
              EndsHeld, BodyConserved, OutputConserved, Statuses
<1>5. CASE UNCHANGED vars
  BY <1>5 DEF vars, IInv, TypeOK, CallLeavesNothing, EndsHeld, BodyConserved,
              OutputConserved
<1>6. QED  BY <1>1, <1>2, <1>3, <1>4, <1>5

-----------------------------------------------------------------------------

(* IInv is an invariant of the specification.                              *)
THEOREM Invariance == Spec => []IInv
<1>1. Init => IInv
  <2> SUFFICES ASSUME Init PROVE IInv
    OBVIOUS
  <2>1. TypeOK
    <3>1. stdout \in [queued : Seq({"text", "nul"}), wrote : Seq({"text", "nul"}),
                      output : Seq({"text", "cut"})]
      BY DEF Init, EmptyOut
    <3>2. stdin \in [queued : 0 .. PipeCap, got : 0 .. PipeCap, eof : BOOLEAN]
            /\ call \in [body : 0 .. PipeCap, timeout : Nat]
      BY CapacityAssumption DEF Init, EmptyIn
    <3>3. QED  BY <3>1, <3>2 DEF Init, TypeOK, Ends, Statuses
  <2>2. CallLeavesNothing /\ EndsHeld
    BY DEF Init, CallLeavesNothing, EndsHeld
  <2>3. BodyConserved
    BY DEF Init, BodyConserved, EmptyIn
  <2>4. OutputConserved
    BY DEF Init, OutputConserved, EmptyOut
  <2>5. QED  BY <2>1, <2>2, <2>3, <2>4 DEF IInv
<1>2. IInv /\ [Next]_vars => IInv'
  <2> SUFFICES ASSUME IInv, [Next]_vars PROVE IInv'
    OBVIOUS
  <2>1. CASE \E body \in Bodies, timeout \in Timeouts : Begin(body, timeout)
    BY <2>1, BeginPreserves
  <2>2. CASE ParentCloses
    BY <2>2, ParentClosesPreserves
  <2>3. CASE Send
    BY <2>3, SendPreserves
  <2>4. CASE CloseStdin
    BY <2>4, CloseStdinPreserves
  <2>5. CASE Poll
    BY <2>5, PollPreserves
  <2>6. CASE CheckClock
    BY <2>6, CheckClockPreserves
  <2>7. CASE ReadOutput
    BY <2>7, ReadOutputPreserves
  <2>8. CASE ChildExec
    BY <2>8, ChildExecPreserves
  <2>9. CASE ScriptReads
    BY <2>9, ScriptReadsPreserves
  <2>10. CASE \E chunk \in Chunks : ScriptWrites(chunk)
    BY <2>10, ScriptWritesPreserves
  <2>11. QED
    BY <2>1, <2>2, <2>3, <2>4, <2>5, <2>6, <2>7, <2>8, <2>9, <2>10,
       OthersPreserve DEF Next, Server, Script
<1>3. QED  BY <1>1, <1>2, PTL DEF Spec

(* The variables stay in their types.                                      *)
THEOREM TypeCorrect == Spec => []TypeOK
BY Invariance, PTL DEF IInv

(* Returned, thrown or timed out, a call has reaped its script and closed  *)
(* its pipes, but for a first pipe whose second could not be created.      *)
THEOREM CallsLeaveNothing == Spec => []CallLeavesNothing
BY Invariance, PTL DEF IInv

(* Nobody but the server can keep the script's input open.                 *)
THEOREM InputEnds == Spec => []StdinEnds
<1>1. IInv => StdinEnds
  BY DEF IInv, StdinEnds, EndsHeld, Held, ChildEnds
<1>2. QED  BY <1>1, Invariance, PTL

(* A script that has read its input to the end has the whole body.         *)
THEOREM BodyReachesScript == Spec => []BodyArrivesWhole
<1>1. IInv => BodyArrivesWhole
  BY DEF IInv, TypeOK, BodyConserved, BodyArrivesWhole
<1>2. QED  BY <1>1, Invariance, PTL

(* The output of a call is everything the script and what it left behind   *)
(* wrote.                                                                  *)
THEOREM OutputIsWhole == Spec => []OutputComplete
<1>1. IInv => OutputComplete
  BY DEF IInv, TypeOK, OutputConserved, OutputComplete
<1>2. QED  BY <1>1, Invariance, PTL

-----------------------------------------------------------------------------
(* A pipe holds no more than its capacity, and nothing has been taken out  *)
(* of it before the read loop.  The message of a failing execve finds it   *)
(* empty.                                                                  *)
Unread ==
  /\ Len(stdout.queued) <= PipeCap
  /\ pc \notin {"idle", "read"} => stdout.output = <<>>
  /\ script = "forked" => stdout.queued = <<>> /\ orphan = {}

LEMMA WriteKeepsUnread ==
  ASSUME IInv, Unread, NEW chunk \in {"text", "nul"},
         Len(stdout.queued) < PipeCap,
         stdout' = [stdout EXCEPT !.queued = Append(stdout.queued, chunk),
                                  !.wrote  = Append(stdout.wrote, chunk)],
         pc' = pc, script' # "forked"
  PROVE  Unread'
<1>1. /\ stdout \in [queued : Seq({"text", "nul"}), wrote : Seq({"text", "nul"}),
                      output : Seq({"text", "cut"})]
      /\ PipeCap \in Nat
  BY CapacityAssumption DEF IInv, TypeOK
<1>2. stdout'.queued = Append(stdout.queued, chunk) /\ stdout'.output = stdout.output
  BY <1>1
<1>3. Len(Append(stdout.queued, chunk)) = Len(stdout.queued) + 1
        /\ Len(stdout.queued) \in Nat
  BY <1>1
<1>4. Len(stdout'.queued) <= PipeCap
  BY <1>1, <1>2, <1>3
<1>5. QED  BY <1>2, <1>4 DEF Unread

(* While the script runs, everything it has written is in the pipe.        *)
THEOREM PipeBoundsOutput == Spec => []OutputBoundedByPipe
<1>1. Init => Unread
  BY CapacityAssumption DEF Init, Unread, EmptyOut
<1>2. IInv /\ Unread /\ [Next]_vars => Unread'
  <2> SUFFICES ASSUME IInv, Unread, [Next]_vars PROVE Unread'
    OBVIOUS
  <2>1. CASE \E body \in Bodies, timeout \in Timeouts : Begin(body, timeout)
    BY <2>1, CapacityAssumption DEF Begin, Unread, EmptyOut
  <2>2. CASE ParentCloses
    BY <2>2 DEF ParentCloses, Unread
  <2>3. CASE Send
    BY <2>3 DEF Send, Written, Unread
  <2>4. CASE CloseStdin
    BY <2>4 DEF CloseStdin, Unread
  <2>5. CASE Poll
    BY <2>5 DEF Poll, Unread
  <2>6. CASE CheckClock
    BY <2>6 DEF CheckClock, Unread, Return
  <2>7. CASE ReadOutput
    <3>1. pc = "read" /\ script = "none" /\ script' = "none" /\ pc' \in {"read", "idle"}
      BY <2>7 DEF ReadOutput, Return, IInv, EndsHeld
    <3>2. Len(stdout'.queued) <= PipeCap
      <4>1. stdout.queued \in Seq({"text", "nul"}) /\ PipeCap \in Nat
        BY CapacityAssumption DEF IInv, TypeOK
      <4>2. CASE UNCHANGED stdout
        BY <4>2 DEF Unread
      <4>3. CASE stdout.queued # <<>> /\ stdout' = Received(stdout)
        <5>1. stdout'.queued = Tail(stdout.queued)
          BY <4>3 DEF Received
        <5>2. Len(Tail(stdout.queued)) = Len(stdout.queued) - 1
                /\ Len(stdout.queued) \in Nat
          BY <4>1, <4>3
        <5>3. QED  BY <4>1, <5>1, <5>2 DEF Unread
      <4>4. QED  BY <2>7, <4>2, <4>3 DEF ReadOutput
    <3>3. QED  BY <3>1, <3>2 DEF Unread
  <2>8. CASE ChildExec
    <3>1. CASE UNCHANGED stdout
      BY <2>8, <3>1 DEF ChildExec, ScriptEnds, Unread
    <3>2. CASE ~UNCHANGED stdout
      <4>1. /\ stdout' = [stdout EXCEPT !.queued = Append(stdout.queued, "text"),
                                        !.wrote  = Append(stdout.wrote, "text")]
            /\ pc' = pc /\ script' = "exit1" /\ script = "forked"
        BY <2>8, <3>2 DEF ChildExec, ScriptEnds
      <4>2. stdout.queued = <<>> /\ Len(stdout.queued) < PipeCap
        BY <4>1, CapacityAssumption DEF Unread
      <4>3. QED  BY <4>1, <4>2, WriteKeepsUnread
    <3>3. QED  BY <3>1, <3>2
  <2>9. CASE \E chunk \in Chunks : ScriptWrites(chunk)
    <3>1. PICK chunk \in Chunks : ScriptWrites(chunk)
      BY <2>9
    <3>2. chunk \in {"text", "nul"}
      BY ChunksAssumption
    <3>3. script # "forked"
      BY <3>1 DEF ScriptWrites, Unread
    <3>4. QED  BY <3>1, <3>2, <3>3, WriteKeepsUnread DEF ScriptWrites
  <2>10. CASE \/ ScriptReads \/ ScriptClosesInput \/ ScriptForks \/ OrphanExits
              \/ Tick \/ \E st \in Statuses : ScriptExits(st)
              \/ UNCHANGED vars
    BY <2>10 DEF ScriptReads, ScriptClosesInput, ScriptForks, OrphanExits, Tick,
                 ScriptExits, ScriptEnds, Statuses, Unread, vars
  <2>11. QED
    BY <2>1, <2>2, <2>3, <2>4, <2>5, <2>6, <2>7, <2>8, <2>9, <2>10
    DEF Next, Server, Script
<1>3. IInv /\ Unread => OutputBoundedByPipe
  <2> SUFFICES ASSUME IInv, Unread, Alive PROVE Len(stdout.wrote) <= PipeCap
    BY DEF OutputBoundedByPipe
  <2>1. stdout.output = <<>>
    BY DEF Unread, Alive, IInv, CallLeavesNothing, EndsHeld
  <2>2. Len(stdout.wrote) = Len(stdout.queued)
    <3>1. Len(stdout.wrote) = Len(stdout.output) + Len(stdout.queued)
            /\ stdout.queued \in Seq({"text", "nul"})
      BY DEF IInv, OutputConserved, TypeOK
    <3>2. Len(stdout.output) = 0
      BY <2>1
    <3>3. QED  BY <3>1, <3>2
  <2>3. QED  BY <2>2 DEF Unread
<1>4. QED  BY <1>1, <1>2, <1>3, Invariance, PTL DEF Spec
=============================================================================
