------------------------------ MODULE Site_proofs ------------------------------
(***************************************************************************)
(* Proofs about Site, for any site, servers and requests, however many     *)
(* changes other processes make between any two system calls.              *)
(***************************************************************************)
EXTENDS Site, Texts_proofs

-----------------------------------------------------------------------------
(* The inductive invariant of the types.                                   *)

Steps ==
  {"idle", "stat", "index", "fallback", "check", "read", "open", "list", "opendir",
   "sort", "rows", "upload", "mkdir", "create", "write", "delete", "remove"}

Statuses ==
  Errors \cup {"page", "listing", "script", "redirect", "form", "garbled", "uploaded", "deleted"}

RowsType == [read : SUBSET Nodes, dirs : SUBSET Nodes, files : SUBSET Nodes, shown : SUBSET Nodes]

(* A state of the file system in which everything has its directory.       *)
IsTree(d) ==
  /\ DOMAIN d = Nodes
  /\ \A n \in Nodes : d[n] \in {Absent, Dir} \/ d[n].type = "file"
  /\ \A n \in Nodes : d[n].type # "absent" /\ Len(n) > 1
                        => Front(n) \in Nodes /\ d[Front(n)].type = "dir"

(* What the upload is written to is a file, if it is anywhere.             *)
Typed ==
  /\ server \in Servers /\ request \in Requests
  /\ IsTree(disk)
  /\ pc \in Steps
  /\ rows \in RowsType
  /\ output \in Nodes \cup {NoNode}
  /\ pc = "write" /\ output # NoNode => disk[output].type = "file"
  /\ pc = "idle" /\ received > 0 => reply.status \in Statuses

-----------------------------------------------------------------------------
(* The file system.                                                        *)

(* A node is not what it stands in.                                        *)
LEMMA FrontIsShorter ==
  ASSUME NEW n \in Nodes
  PROVE  /\ Len(n) \in Nat /\ Len(n) >= 1
         /\ Len(n) > 1 => Len(Front(n)) = Len(n) - 1
         /\ Front(n) \in Nodes => Len(n) > 1 /\ Front(n) # n
<1>1. n \in Seq(Text) /\ n # <<>> /\ NoNode = <<>>
  BY NodesAssumption DEF NoNode
<1>2. Len(n) \in Nat /\ Len(n) >= 1
  BY <1>1, EmptySeq, LenProperties
<1>3. Front(n) = SubSeq(n, 1, Len(n) - 1)
  BY DEF Front
<1>4. Len(Front(n)) = Len(n) - 1
  <2>1. \A i \in 1 .. Len(n) - 1 : n[i] \in Text
    BY <1>1, <1>2, ElementOfSeq
  <2>2. Len(SubSeq(n, 1, Len(n) - 1)) = IF 1 <= Len(n) - 1 THEN Len(n) - 1 ELSE 0
    BY <1>2, <2>1, SubSeqProperties
  <2>3. Len(SubSeq(n, 1, Len(n) - 1)) = Len(n) - 1
    BY <1>2, <2>2
  <2>4. QED  BY <1>3, <2>3
<1>5. Len(n) = 1 => Front(n) = <<>>
  BY <1>2, <1>3, SubSeqEmpty
<1>6. QED  BY <1>1, <1>2, <1>4, <1>5, NodesAssumption

(* A text names at most one node, as it says it is.                        *)
LEMMA StatOfText ==
  ASSUME NEW text
  PROVE  /\ Exists(text) => /\ NodeOf(text) \in Nodes
                            /\ disk[NodeOf(text)].type # "absent"
                            /\ Stat(text) = disk[NodeOf(text)]
         /\ IsDir(text) => NodeOf(text) \in Nodes /\ disk[NodeOf(text)].type = "dir"
BY DEF Exists, IsDir, Stat, Absent

(* What one call may do to the tree: take the place of what has nothing in *)
(* it, make a directory where nothing was, or write a file.                *)
Fits(d, n, x) ==
  /\ n \in Nodes
  /\ x \in {Absent, Dir} \/ x.type = "file"
  /\ \/ x.type = d[n].type
     \/ x = Absent /\ {m \in Entries(n) : d[m].type # "absent"} = {}
     \/ /\ Front(n) \in Nodes /\ d[Front(n)].type = "dir"
        /\ x = Dir \/ {m \in Entries(n) : d[m].type # "absent"} = {}

LEMMA TreeKept ==
  ASSUME NEW d, IsTree(d), NEW n, NEW x, Fits(d, n, x)
  PROVE  IsTree([d EXCEPT ![n] = x])
<1> DEFINE e == [d EXCEPT ![n] = x]
<1>1. /\ DOMAIN e = Nodes /\ n \in Nodes /\ e[n] = x
      /\ \A m \in Nodes : m # n => e[m] = d[m]
  BY DEF IsTree, Fits
<1>2. \A m \in Nodes : e[m] \in {Absent, Dir} \/ e[m].type = "file"
  BY <1>1 DEF IsTree, Fits
<1> HIDE DEF e
<1>3. ASSUME NEW m \in Nodes, e[m].type # "absent", Len(m) > 1
      PROVE  Front(m) \in Nodes /\ e[Front(m)].type = "dir"
  <2>1. CASE m = n
    <3>1. Front(m) \in Nodes /\ d[Front(m)].type = "dir"
      BY <1>1, <1>3, <2>1 DEF IsTree, Fits, Absent
    <3>2. Front(m) # n
      BY <2>1, <3>1, FrontIsShorter
    <3>3. QED  BY <1>1, <3>1, <3>2
  <2>2. CASE m # n
    <3>1. d[m].type # "absent" /\ Front(m) \in Nodes /\ d[Front(m)].type = "dir"
      BY <1>1, <1>3, <2>2 DEF IsTree
    <3>2. CASE Front(m) # n
      BY <1>1, <3>1, <3>2
    <3>3. CASE Front(m) = n
      <4>1. m \in Entries(n)
        <5>1. Len(m) = Len(n) + 1
          BY <3>3, <1>3, FrontIsShorter
        <5>2. QED  BY <3>3, <5>1 DEF Entries
      <4>2. x.type = d[n].type \/ x = Dir
        BY <3>1, <4>1 DEF Fits
      <4>3. QED  BY <1>1, <3>1, <3>3, <4>2 DEF Dir
    <3>4. QED  BY <3>2, <3>3
  <2>3. QED  BY <2>1, <2>2
<1>4. QED  BY <1>1, <1>2, <1>3 DEF IsTree, e

(* Nothing stands in what is no directory.                                 *)
LEMMA NothingInFiles ==
  ASSUME NEW d, IsTree(d), NEW n \in Nodes, d[n].type # "dir"
  PROVE  {m \in Entries(n) : d[m].type # "absent"} = {}
<1> SUFFICES ASSUME NEW m \in Entries(n), d[m].type # "absent" PROVE FALSE
  OBVIOUS
<1>1. m \in Nodes /\ Front(m) = n /\ Len(m) > 1
  BY FrontIsShorter DEF Entries
<1>2. QED  BY <1>1 DEF IsTree

(* What the page of a form is.                                             *)
LEMMA PopupIs ==
  ASSUME NEW data
  PROVE  /\ Popup(data).status \in {"form", "garbled"}
         /\ Popup(data).status = "form" => Popup(data).fields = data
         /\ Popup(data).status = "garbled" =>
              \E key \in DOMAIN data : ~(Quotable(key) /\ Quotable(data[key]))
<1> DEFINE form == [Replied("form") EXCEPT !.fields = data]
<1>1. /\ form.status = "form" /\ form.fields = data
      /\ Replied("garbled").status = "garbled"
  BY DEF Replied
<1>2. \/ Popup(data) = form
      \/ /\ Popup(data) = Replied("garbled")
         /\ \E key \in DOMAIN data : ~(Quotable(key) /\ Quotable(data[key]))
  BY DEF Popup
<1> HIDE DEF form
<1>3. QED  BY <1>1, <1>2

(* A new request finds the disk as it is.                                  *)
LEMMA ArrivalEffect ==
  ASSUME NEW r \in Requests,
         Refuse(r) \/ methode_get(r) \/ methode_post(r) \/ methode_delete(r)
  PROVE  /\ UNCHANGED <<server, disk, changes>>
         /\ request' = r /\ before' = disk /\ touched' = {} /\ full' = FALSE
         /\ \/ /\ pc' = "idle" /\ UNCHANGED work
               /\ reply'.status \in {"413", "405", "500", "script", "redirect", "form",
                                     "garbled", "400", "403"}
            \/ /\ pc' \in {"stat", "index", "upload", "delete"}
               /\ rows' = NoRows /\ output' = NoNode
<1> DEFINE Done == /\ pc' = "idle" /\ UNCHANGED work
                   /\ reply'.status \in {"413", "405", "500", "script", "redirect", "form",
                                         "garbled", "400", "403"}
           Begun == /\ pc' \in {"stat", "index", "upload", "delete"}
                    /\ rows' = NoRows /\ output' = NoNode
           Kept == /\ UNCHANGED <<server, disk, changes>>
                   /\ request' = r /\ before' = disk /\ touched' = {} /\ full' = FALSE
<1>1. ASSUME NEW a, AnswersAtOnce(r, a),
             a.status \in {"413", "405", "500", "script", "redirect", "form", "garbled",
                           "400", "403"}
      PROVE  Kept /\ Done
  BY <1>1 DEF AnswersAtOnce
<1>2. ASSUME NEW step \in {"stat", "index", "upload", "delete"}, NEW text, NEW candidates,
             Starts(r, step, text, candidates)
      PROVE  Kept /\ Begun
  BY <1>2 DEF Starts
<1>3. \A status : Replied(status).status = status
  BY DEF Replied
<1> HIDE DEF Done, Begun, Kept
<1>4. Refuse(r) => Kept /\ (Done \/ Begun)
  BY <1>1, <1>3 DEF Refuse
<1>5. methode_get(r) => Kept /\ (Done \/ Begun)
  BY <1>1, <1>2, <1>3 DEF methode_get
<1>6. methode_post(r) => Kept /\ (Done \/ Begun)
  <2> DEFINE name == FirstPart(r.body).name
             page == Popup(parseFormData(r.body))
  <2>1. page.status \in {"form", "garbled"}
    BY PopupIs
  <2>2. methode_post(r) =>
          \/ AnswersAtOnce(r, Replied("script")) \/ AnswersAtOnce(r, page)
          \/ AnswersAtOnce(r, Replied("400"))
          \/ Starts(r, "upload", Append(UploadDir, name), <<>>)
    BY DEF methode_post
  <2> HIDE DEF page, name
  <2>3. QED  BY <1>1, <1>2, <1>3, <2>1, <2>2
<1>7. methode_delete(r) => Kept /\ (Done \/ Begun)
  BY <1>1, <1>2, <1>3 DEF methode_delete
<1>8. QED  BY <1>4, <1>5, <1>6, <1>7 DEF Done, Begun, Kept

-----------------------------------------------------------------------------
(* Types.                                                                  *)

(* Sorting and showing an entry, field by field.                           *)
LEMMA RowsChange ==
  ASSUME Typed, NEW n \in Nodes
  PROVE  LET sortedDir  == [rows EXCEPT !.read = @ \ {n}, !.dirs = @ \cup {n}]
             sortedFile == [rows EXCEPT !.read = @ \ {n}, !.files = @ \cup {n}]
             gone       == [rows EXCEPT !.read = @ \ {n}]
             shows      == [rows EXCEPT !.dirs = @ \ {n}, !.files = @ \ {n},
                                        !.shown = @ \cup {n}]
             hides      == [rows EXCEPT !.dirs = @ \ {n}, !.files = @ \ {n}, !.shown = @]
         IN  {sortedDir, sortedFile, gone, shows, hides} \subseteq RowsType
<1>1. rows \in RowsType
  BY DEF Typed
<1>2. /\ rows.read \ {n} \in SUBSET Nodes /\ rows.dirs \cup {n} \in SUBSET Nodes
      /\ rows.dirs \ {n} \in SUBSET Nodes /\ rows.files \cup {n} \in SUBSET Nodes
      /\ rows.files \ {n} \in SUBSET Nodes /\ rows.shown \cup {n} \in SUBSET Nodes
  BY <1>1 DEF RowsType
<1>3. QED  BY <1>1, <1>2 DEF RowsType

(* A call that only looks leaves all but its own place as it is.           *)
Looked ==
  /\ UNCHANGED <<server, disk, request, before, touched, received, changes, full>>
  /\ \/ pc' \in Steps \ {"idle", "write"} /\ UNCHANGED reply
     \/ pc' = "idle" /\ reply'.status \in {"403", "404", "500", "exception", "page", "listing"}

LEMMA LookingEffect ==
  ASSUME Typed,
         \/ StatPath \/ TryIndex \/ Fallback \/ Check \/ Open \/ ListStat \/ OpenDir \/ Listed
         \/ (\E n \in Nodes : SortEntry(n) \/ ShowEntry(n))
         \/ UploadStat \/ DeleteStat
  PROVE  /\ Looked /\ UNCHANGED output
         /\ rows' \in RowsType
<1>1. \A step : Goes(step) => /\ pc' = step
                              /\ UNCHANGED <<server, request, reply, before, touched,
                                             received, full, changes>>
  BY DEF Goes, history
<1>2. \A status : Fails(status) => /\ pc' = "idle" /\ reply'.status = status
                                   /\ UNCHANGED <<server, request, before, touched, received,
                                                  full, changes, disk, path, todo, rows, output>>
  BY DEF Fails, Answer, Replied, history, work
<1>3. \A r : Answer(r) => /\ pc' = "idle" /\ reply' = r
                          /\ UNCHANGED <<server, request, before, touched, received, changes>>
  BY DEF Answer, history
<1>4. rows \in RowsType /\ NoRows \in RowsType
  BY DEF Typed, RowsType, NoRows
<1>5. CASE StatPath
  BY <1>1, <1>4, <1>5 DEF StatPath, Looked, Steps
<1>6. CASE TryIndex
  BY <1>1, <1>2, <1>4, <1>6 DEF TryIndex, Looked, Steps
<1>7. CASE Fallback
  BY <1>1, <1>2, <1>4, <1>7 DEF Fallback, Looked, Steps, work
<1>8. CASE Check
  BY <1>1, <1>2, <1>4, <1>8 DEF Check, Looked, Steps, work
<1>9. CASE Open
  <2> DEFINE page == [Replied("page") EXCEPT !.data = BodySent(Stat(path).data)]
  <2>1. page.status = "page"
    BY DEF Replied
  <2>2. \/ Fails("404") \/ Fails("exception")
        \/ Answer(page) /\ UNCHANGED <<disk, work, full>>
    BY <1>9 DEF Open
  <2> HIDE DEF page
  <2>3. QED  BY <1>2, <1>3, <1>4, <2>1, <2>2 DEF Looked, work
<1>10. CASE ListStat
  BY <1>1, <1>4, <1>10 DEF ListStat, Looked, Steps, work
<1>11. CASE OpenDir
  <2>1. [NoRows EXCEPT !.read = Present(NodeOf(path))] \in RowsType
    BY <1>4 DEF RowsType, Present, Entries
  <2>2. QED  BY <1>1, <1>2, <1>4, <1>11, <2>1 DEF OpenDir, Looked, Steps, work
<1>12. CASE Listed
  <2>1. Replied("listing").status = "listing"
    BY DEF Replied
  <2>2. QED  BY <1>3, <1>4, <1>12, <2>1 DEF Listed, Looked, work
<1>13. ASSUME NEW n \in Nodes, SortEntry(n)
       PROVE  Looked /\ UNCHANGED output /\ rows' \in RowsType
  <2>1. disk[n].type \in {"dir", "file", "absent"}
    BY DEF Typed, IsTree, Absent, Dir
  <2>2. rows' \in { [rows EXCEPT !.read = @ \ {n}, !.dirs = @ \cup {n}],
                    [rows EXCEPT !.read = @ \ {n}, !.files = @ \cup {n}],
                    [rows EXCEPT !.read = @ \ {n}] }
    BY <1>13, <2>1 DEF SortEntry
  <2>3. rows' \in RowsType
    BY <2>2, RowsChange
  <2>4. /\ Goes("rows") \/ Goes("sort")
        /\ UNCHANGED <<disk, output>>
    BY <1>13 DEF SortEntry
  <2>5. QED  BY <1>1, <2>3, <2>4 DEF Looked, Steps
<1>14. ASSUME NEW n \in Nodes, ShowEntry(n)
       PROVE  Looked /\ UNCHANGED output /\ rows' \in RowsType
  <2>1. rows' \in { [rows EXCEPT !.dirs = @ \ {n}, !.files = @ \ {n},
                                 !.shown = @ \cup {n}],
                    [rows EXCEPT !.dirs = @ \ {n}, !.files = @ \ {n},
                                 !.shown = @] }
    BY <1>14 DEF ShowEntry
  <2>2. rows' \in RowsType
    BY <2>1, RowsChange
  <2>3. Goes("rows") /\ UNCHANGED <<disk, output>>
    BY <1>14 DEF ShowEntry
  <2>4. QED  BY <1>1, <2>2, <2>3 DEF Looked, Steps
<1>15. CASE UploadStat
  BY <1>1, <1>4, <1>15 DEF UploadStat, Looked, Steps, work
<1>16. CASE DeleteStat
  BY <1>1, <1>2, <1>4, <1>16 DEF DeleteStat, Looked, Steps, work
<1>17. QED
  BY <1>5, <1>6, <1>7, <1>8, <1>9, <1>10, <1>11, <1>12, <1>13, <1>14, <1>15, <1>16

LEMMA LookingPlaces ==
  ASSUME \/ StatPath \/ TryIndex \/ Fallback \/ Check \/ Open \/ ListStat \/ OpenDir \/ Listed
         \/ (\E n \in Nodes : SortEntry(n) \/ ShowEntry(n))
         \/ UploadStat \/ DeleteStat
  PROVE  pc \in Steps \ {"idle", "create", "write"}
BY DEF StatPath, TryIndex, Fallback, Check, Open, ListStat, OpenDir, Listed,
       SortEntry, ShowEntry, UploadStat, DeleteStat, Steps

(* What the calls that change the disk do to it.                           *)
LEMMA UploadEffect ==
  ASSUME Typed
  PROVE  /\ UploadMkdir =>
              \/ Looked /\ UNCHANGED work /\ pc = "mkdir" /\ pc' = "idle" /\ reply'.status = "500"
              \/ /\ Fits(disk, NodeOf(UploadDir), Dir) /\ disk[NodeOf(UploadDir)] = Absent
                 /\ disk' = [disk EXCEPT ![NodeOf(UploadDir)] = Dir]
                 /\ pc = "mkdir" /\ pc' = "create"
                 /\ UNCHANGED <<server, request, reply, before, touched, full, work>>
         /\ UploadOpen =>
              \/ Looked /\ UNCHANGED work /\ pc = "create" /\ pc' = "idle" /\ reply'.status = "500"
              \/ /\ Fits(disk, NodeOf(path), File(<<>>)) /\ disk[NodeOf(path)].type # "dir"
                 /\ disk' = [disk EXCEPT ![NodeOf(path)] = File(<<>>)]
                 /\ output' = NodeOf(path) /\ pc = "create" /\ pc' = "write"
                 /\ UNCHANGED <<server, request, reply, before, touched, full, path, todo, rows>>
         /\ UploadWrite =>
              /\ \E stored :
                   /\ full' = (stored # FirstPart(request.body).content)
                   /\ \/ output = NoNode /\ UNCHANGED disk
                      \/ /\ output # NoNode /\ Fits(disk, output, File(stored))
                         /\ disk' = [disk EXCEPT ![output] = File(stored)]
              /\ pc = "write" /\ pc' = "idle" /\ reply'.status = "uploaded"
              /\ UNCHANGED <<server, request, before, touched, received, changes, work>>
         /\ DeleteRemove =>
              \/ Looked /\ UNCHANGED work /\ pc = "remove" /\ pc' = "idle" /\ reply'.status = "500"
              \/ /\ Fits(disk, NodeOf(path), Absent)
                 /\ disk' = [disk EXCEPT ![NodeOf(path)] = Absent]
                 /\ pc = "remove" /\ pc' = "idle" /\ reply'.status = "deleted"
                 /\ UNCHANGED <<server, request, before, touched, full, work>>
<1>1. \A step : Goes(step) => /\ pc' = step
                              /\ UNCHANGED <<server, request, reply, before, touched,
                                             received, full, changes>>
  BY DEF Goes, history
<1>2. Fails("500") => Looked /\ UNCHANGED work /\ pc' = "idle" /\ reply'.status = "500"
  BY DEF Fails, Answer, Replied, history, work, Looked
<1>3. \A status : Answer(Replied(status)) =>
        /\ pc' = "idle" /\ reply'.status = status
        /\ UNCHANGED <<server, request, before, touched, received, changes>>
  BY DEF Answer, Replied, history
<1>4. Dir.type = "dir" /\ Absent.type = "absent" /\ \A d : File(d).type = "file"
  BY DEF Dir, Absent, File
<1>5. ASSUME UploadMkdir
      PROVE  \/ Looked /\ UNCHANGED work /\ pc = "mkdir" /\ pc' = "idle" /\ reply'.status = "500"
             \/ /\ Fits(disk, NodeOf(UploadDir), Dir) /\ disk[NodeOf(UploadDir)] = Absent
                /\ disk' = [disk EXCEPT ![NodeOf(UploadDir)] = Dir]
                /\ pc = "mkdir" /\ pc' = "create"
                /\ UNCHANGED <<server, request, reply, before, touched, full, work>>
  BY <1>1, <1>2, <1>5 DEF UploadMkdir, Fits, HasRoom
<1>6. ASSUME UploadOpen
      PROVE  \/ Looked /\ UNCHANGED work /\ pc = "create" /\ pc' = "idle" /\ reply'.status = "500"
             \/ /\ Fits(disk, NodeOf(path), File(<<>>)) /\ disk[NodeOf(path)].type # "dir"
                /\ disk' = [disk EXCEPT ![NodeOf(path)] = File(<<>>)]
                /\ output' = NodeOf(path) /\ pc = "create" /\ pc' = "write"
                /\ UNCHANGED <<server, request, reply, before, touched, full, path, todo, rows>>
  <2> DEFINE node == NodeOf(path)
  <2>1. \/ Fails("500") /\ pc = "create"
        \/ /\ node \in Nodes /\ HasRoom(node) /\ disk[node].type # "dir"
           /\ disk' = [disk EXCEPT ![node] = File(<<>>)] /\ output' = node
           /\ Goes("write") /\ UNCHANGED <<path, todo, rows>> /\ pc = "create"
    BY <1>6 DEF UploadOpen
  <2>2. node \in Nodes /\ disk[node].type # "dir" =>
          {m \in Entries(node) : disk[m].type # "absent"} = {}
    BY NothingInFiles DEF Typed
  <2>3. QED  BY <1>1, <1>2, <1>4, <2>1, <2>2 DEF Fits, HasRoom
<1>7. ASSUME UploadWrite
      PROVE  /\ \E stored :
                  /\ full' = (stored # FirstPart(request.body).content)
                  /\ \/ output = NoNode /\ UNCHANGED disk
                     \/ /\ output # NoNode /\ Fits(disk, output, File(stored))
                        /\ disk' = [disk EXCEPT ![output] = File(stored)]
             /\ pc = "write" /\ pc' = "idle" /\ reply'.status = "uploaded"
             /\ UNCHANGED <<server, request, before, touched, received, changes, work>>
  <2>1. \E stored :
          /\ full' = (stored # FirstPart(request.body).content)
          /\ disk' = IF output = NoNode THEN disk ELSE [disk EXCEPT ![output] = File(stored)]
    BY <1>7 DEF UploadWrite
  <2>2. pc = "write" /\ Answer(Replied("uploaded")) /\ UNCHANGED work
    BY <1>7 DEF UploadWrite
  <2>3. output # NoNode => output \in Nodes /\ disk[output].type = "file"
    BY <2>2 DEF Typed
  <2>4. QED  BY <1>3, <1>4, <2>1, <2>2, <2>3 DEF Fits
<1>8. ASSUME DeleteRemove
      PROVE  \/ Looked /\ UNCHANGED work /\ pc = "remove" /\ pc' = "idle" /\ reply'.status = "500"
             \/ /\ Fits(disk, NodeOf(path), Absent)
                /\ disk' = [disk EXCEPT ![NodeOf(path)] = Absent]
                /\ pc = "remove" /\ pc' = "idle" /\ reply'.status = "deleted"
                /\ UNCHANGED <<server, request, before, touched, full, work>>
  <2> DEFINE node == NodeOf(path)
  <2>1. \/ Fails("500") /\ pc = "remove"
        \/ /\ Exists(path) /\ (IsDir(path) => Present(node) = {})
           /\ disk' = [disk EXCEPT ![node] = Absent]
           /\ Answer(Replied("deleted")) /\ UNCHANGED <<work, full>> /\ pc = "remove"
    BY <1>8 DEF DeleteRemove
  <2>2. ASSUME Exists(path), IsDir(path) => Present(node) = {}
        PROVE  node \in Nodes /\ {m \in Entries(node) : disk[m].type # "absent"} = {}
    <3>1. node \in Nodes /\ Stat(path) = disk[node]
      BY <2>2, StatOfText
    <3>2. CASE IsDir(path)
      BY <2>2, <3>1, <3>2 DEF Present
    <3>3. CASE ~IsDir(path)
      BY <3>1, <3>3, NothingInFiles DEF Typed, IsDir
    <3>4. QED  BY <3>1, <3>2, <3>3
  <2>3. QED  BY <1>2, <1>3, <2>1, <2>2 DEF Fits
<1>9. QED  BY <1>5, <1>6, <1>7, <1>8

(* Another process puts something else in a node, and leaves the request   *)
(* as it is.                                                               *)
LEMMA OthersEffect ==
  ASSUME NEW n \in Nodes, OthersChange(n)
  PROVE  /\ \E x : Fits(disk, n, x) /\ disk' = [disk EXCEPT ![n] = x]
         /\ touched' = touched \cup {n} /\ pc # "idle"
         /\ output' = IF output = n THEN NoNode ELSE output
         /\ UNCHANGED <<server, pc, request, path, todo, rows, reply, before, full>>
<1>1. PICK x \in {Absent, Dir} \cup {File(d) : d \in Contents} :
        disk' = [disk EXCEPT ![n] = x]
  BY DEF OthersChange
<1>2. x \in {Absent, Dir} \/ x.type = "file"
  BY DEF File
<1>3. {m \in Entries(n) : disk[m].type # "absent"} = {} /\ HasRoom(n)
  BY DEF OthersChange, Present
<1>4. Fits(disk, n, x)
  BY <1>2, <1>3 DEF Fits, HasRoom
<1>5. QED  BY <1>1, <1>4 DEF OthersChange

(* Typed is an invariant, and with it what a run checks of the types.      *)
LEMMA TypedInit == Init => Typed
<1> SUFFICES ASSUME Init PROVE Typed
  OBVIOUS
<1>1. request \in Requests
  BY RequestsAssumption DEF Init
<1>2. IsTree(disk)
  BY StartAssumption DEF Init, IsTree
<1>3. NoRows \in RowsType
  BY DEF NoRows, RowsType
<1>4. QED  BY <1>1, <1>2, <1>3 DEF Init, Typed, Steps, Statuses, Replied

LEMMA TypedStep == Typed /\ [Next]_vars => Typed'
<1> SUFFICES ASSUME Typed, [Next]_vars PROVE Typed'
  OBVIOUS
<1>1. CASE \E r \in Requests :
             Refuse(r) \/ methode_get(r) \/ methode_post(r) \/ methode_delete(r)
  <2>1. PICK r \in Requests :
          Refuse(r) \/ methode_get(r) \/ methode_post(r) \/ methode_delete(r)
    BY <1>1
  <2>2. NoRows \in RowsType
    BY DEF NoRows, RowsType
  <2>3. {"413", "405", "500", "script", "redirect", "form", "garbled", "400", "403"}
          \subseteq Statuses
    BY DEF Statuses, Errors
  <2>4. IsTree(disk)' /\ server' \in Servers /\ request' \in Requests
    BY <2>1, ArrivalEffect DEF Typed, IsTree
  <2>5. \/ pc' = "idle" /\ UNCHANGED <<rows, output>> /\ reply'.status \in Statuses
        \/ /\ pc' \in {"stat", "index", "upload", "delete"}
           /\ rows' = NoRows /\ output' = NoNode
    BY <2>1, <2>3, ArrivalEffect DEF work
  <2>6. QED  BY <2>2, <2>4, <2>5 DEF Typed, Steps
<1>2. CASE \/ StatPath \/ TryIndex \/ Fallback \/ Check \/ Open \/ ListStat \/ OpenDir \/ Listed
           \/ (\E n \in Nodes : SortEntry(n) \/ ShowEntry(n))
           \/ UploadStat \/ DeleteStat
  <2>1. Looked /\ UNCHANGED output /\ rows' \in RowsType
    BY <1>2, LookingEffect
  <2>2. QED  BY <2>1 DEF Typed, Looked, Steps, Statuses, Errors, IsTree
<1>3. ASSUME NEW n, NEW x, Fits(disk, n, x), disk' = [disk EXCEPT ![n] = x]
      PROVE  IsTree(disk)' /\ disk'[n] = x /\ \A m \in Nodes : m # n => disk'[m] = disk[m]
  <2>1. IsTree(disk')
    BY <1>3, TreeKept DEF Typed
  <2>2. QED  BY <1>3, <2>1 DEF Typed, IsTree, Fits
<1>4. ASSUME Looked, UNCHANGED work
      PROVE  Typed'
  BY <1>4 DEF Typed, Looked, Steps, Statuses, Errors, IsTree, work
<1>5. CASE UploadMkdir
  BY <1>3, <1>4, <1>5, UploadEffect DEF Typed, Steps, work
<1>6. CASE UploadOpen
  <2>1. File(<<>>).type = "file"
    BY DEF File
  <2>2. CASE Looked /\ UNCHANGED work
    BY <1>4, <2>2
  <2>3. CASE ~(Looked /\ UNCHANGED work)
    <3> DEFINE node == NodeOf(path)
    <3>1. /\ Fits(disk, node, File(<<>>))
          /\ disk' = [disk EXCEPT ![node] = File(<<>>)]
          /\ output' = node /\ pc' = "write"
          /\ UNCHANGED <<server, request, rows>>
      BY <1>6, <2>3, UploadEffect
    <3>2. IsTree(disk)' /\ disk'[node] = File(<<>>) /\ node \in Nodes
      BY <1>3, <3>1 DEF Fits
    <3>3. QED  BY <2>1, <3>1, <3>2 DEF Typed, Steps
  <2>4. QED  BY <2>2, <2>3
<1>7. CASE UploadWrite
  <2>1. IsTree(disk)'
    BY <1>3, <1>7, UploadEffect DEF Typed, IsTree
  <2>2. QED  BY <1>7, <2>1, UploadEffect DEF Typed, Steps, Statuses, work
<1>8. CASE DeleteRemove
  BY <1>3, <1>4, <1>8, UploadEffect DEF Typed, Steps, Statuses, work
<1>9. CASE \E n \in Nodes : OthersChange(n)
  BY <1>3, <1>9, OthersEffect DEF Typed
<1>10. CASE UNCHANGED vars
  BY <1>10 DEF vars, work, history, Typed, IsTree
<1>11. QED  BY <1>1, <1>2, <1>5, <1>6, <1>7, <1>8, <1>9, <1>10 DEF Next

THEOREM SiteTypesHold == Spec => []SiteTypeOK
<1>1. Typed => SiteTypeOK
  <2> SUFFICES ASSUME Typed PROVE SiteTypeOK
    OBVIOUS
  <2>1. \A n \in Nodes : disk[n].type \in {"absent", "dir", "file"}
    BY DEF Typed, IsTree, Absent, Dir
  <2>2. \A n \in Nodes : disk[n].type # "absent" /\ Len(n) > 1 => HasRoom(n)
    BY DEF Typed, IsTree, HasRoom
  <2>3. rows.read \cup rows.dirs \cup rows.files \cup rows.shown \subseteq Nodes
    BY DEF Typed, RowsType
  <2>4. QED  BY <2>1, <2>2, <2>3 DEF Typed, SiteTypeOK, Steps, Statuses
<1>2. QED  BY <1>1, TypedInit, TypedStep, PTL DEF Spec

-----------------------------------------------------------------------------
(* What the server has done to the disk since the request arrived.         *)

SiteUnchanged == \A n \in Untouched : disk[n] = before[n]

NewDirOnly ==
  \A n \in Untouched :
    disk[n] # before[n] => n = NodeOf(UploadDir) /\ disk[n] = Dir /\ before[n] = Absent

(* Before a file is created or removed, at most the upload directory is    *)
(* new; while a request only looks, nothing is.                            *)
DiskKept ==
  /\ pc \in Steps \ {"idle", "create", "write"} => SiteUnchanged
  /\ pc # "write" /\ ~(pc = "idle" /\ reply.status \in {"uploaded", "deleted"}) => NewDirOnly

LEMMA DiskKeptStep ==
  ASSUME Typed, DiskKept, [Next]_vars
  PROVE  DiskKept'
<1>0. ASSUME disk' = before', server' = server
      PROVE  SiteUnchanged' /\ NewDirOnly'
  BY <1>0 DEF SiteUnchanged, NewDirOnly
<1>1. CASE \E r \in Requests :
             Refuse(r) \/ methode_get(r) \/ methode_post(r) \/ methode_delete(r)
  BY <1>0, <1>1, ArrivalEffect DEF DiskKept
<1>2. CASE \/ StatPath \/ TryIndex \/ Fallback \/ Check \/ Open \/ ListStat \/ OpenDir \/ Listed
           \/ (\E n \in Nodes : SortEntry(n) \/ ShowEntry(n))
           \/ UploadStat \/ DeleteStat
  <2>1. Looked /\ pc \in Steps \ {"idle", "create", "write"}
    BY <1>2, LookingEffect, LookingPlaces
  <2>2. SiteUnchanged' /\ NewDirOnly'
    BY <2>1 DEF DiskKept, SiteUnchanged, NewDirOnly, Looked, Untouched
  <2>3. QED  BY <2>2 DEF DiskKept
<1>3. ASSUME Looked, pc \in {"mkdir", "create", "remove"}, pc' = "idle"
      PROVE  DiskKept'
  <2>1. NewDirOnly
    BY <1>3 DEF DiskKept
  <2>2. NewDirOnly'
    BY <1>3, <2>1 DEF Looked, NewDirOnly, Untouched, UploadDir
  <2>3. QED  BY <1>3, <2>2 DEF DiskKept
<1>4. CASE UploadMkdir
  <2>1. CASE Looked /\ pc = "mkdir" /\ pc' = "idle"
    BY <1>3, <2>1
  <2>2. CASE ~(Looked /\ pc = "mkdir" /\ pc' = "idle")
    <3> DEFINE node == NodeOf(UploadDir)
    <3>1. /\ node \in Nodes /\ disk[node] = Absent
          /\ disk' = [disk EXCEPT ![node] = Dir]
          /\ pc = "mkdir" /\ pc' = "create"
          /\ UNCHANGED <<server, before, touched>>
      BY <1>4, <2>2, UploadEffect DEF Fits
    <3>2. node' = node
      BY <3>1 DEF UploadDir
    <3>3. SiteUnchanged
      BY <3>1 DEF DiskKept, Steps
    <3>4. \A n \in Nodes : disk'[n] = IF n = node THEN Dir ELSE disk[n]
      BY <3>1 DEF Typed, IsTree
    <3>5. NewDirOnly'
      BY <3>1, <3>2, <3>3, <3>4 DEF NewDirOnly, SiteUnchanged, Untouched
    <3>6. QED  BY <3>1, <3>5 DEF DiskKept
  <2>3. QED  BY <2>1, <2>2
<1>5. CASE UploadOpen
  <2>1. (Looked /\ pc = "create" /\ pc' = "idle") \/ pc' = "write"
    BY <1>5, UploadEffect
  <2>2. QED  BY <1>3, <2>1 DEF DiskKept
<1>6. CASE UploadWrite
  BY <1>6, UploadEffect DEF DiskKept
<1>7. CASE DeleteRemove
  <2>1. \/ Looked /\ pc = "remove" /\ pc' = "idle"
        \/ pc' = "idle" /\ reply'.status = "deleted"
    BY <1>7, UploadEffect
  <2>2. QED  BY <1>3, <2>1 DEF DiskKept
<1>8. CASE \E n \in Nodes : OthersChange(n)
  <2>1. PICK n \in Nodes : OthersChange(n)
    BY <1>8
  <2>2. /\ \E x : disk' = [disk EXCEPT ![n] = x]
        /\ touched' = touched \cup {n} /\ UNCHANGED <<server, pc, reply, before>>
    BY <2>1, OthersEffect
  <2>3. \A m \in Untouched' : m \in Untouched /\ disk'[m] = disk[m]
    BY <2>2 DEF Typed, IsTree, Untouched
  <2>4. (SiteUnchanged => SiteUnchanged') /\ (NewDirOnly => NewDirOnly')
    BY <2>2, <2>3 DEF SiteUnchanged, NewDirOnly, UploadDir
  <2>5. QED  BY <2>2, <2>4 DEF DiskKept
<1>9. CASE UNCHANGED vars
  BY <1>9 DEF vars, work, history, DiskKept, SiteUnchanged, NewDirOnly, Untouched, UploadDir
<1>10. QED  BY <1>1, <1>2, <1>4, <1>5, <1>6, <1>7, <1>8, <1>9 DEF Next

(* An error means that the server has changed no file.                     *)
THEOREM FailuresChangeNothing == Spec => []FailureChangesNothing
<1>1. Init => DiskKept
  BY DEF Init, DiskKept, SiteUnchanged, NewDirOnly
<1>2. DiskKept => FailureChangesNothing
  BY DEF DiskKept, NewDirOnly, FailureChangesNothing, Errors
<1>3. QED  BY <1>1, <1>2, TypedInit, TypedStep, DiskKeptStep, PTL DEF Spec

-----------------------------------------------------------------------------
(* Where a request leads.                                                  *)

UploadPath == Append(UploadDir, FirstPart(request.body).name)
DeletePath == server.root \o request.path

LEMMA ArrivalPaths ==
  ASSUME NEW r \in Requests,
         Refuse(r) \/ methode_get(r) \/ methode_post(r) \/ methode_delete(r)
  PROVE  /\ pc' = "upload" => path' = UploadPath'
         /\ pc' = "delete" => path' = DeletePath'
<1> USE DEF UploadPath, DeletePath
<1>1. ASSUME NEW a, AnswersAtOnce(r, a)
      PROVE  pc' = "idle"
  BY <1>1 DEF AnswersAtOnce
<1>2. ASSUME NEW step, NEW text, NEW candidates, Starts(r, step, text, candidates)
      PROVE  pc' = step /\ path' = text /\ server' = server /\ request' = r
  BY <1>2 DEF Starts
<1>3. Refuse(r) => pc' = "idle"
  BY <1>1 DEF Refuse
<1>4. methode_get(r) => pc' \in {"idle", "stat", "index"}
  BY <1>1, <1>2 DEF methode_get
<1>5. methode_post(r) => \/ pc' = "idle"
                         \/ /\ pc' = "upload" /\ path' = Append(UploadDir, FirstPart(r.body).name)
                            /\ server' = server /\ request' = r
  BY <1>1, <1>2 DEF methode_post
<1>6. methode_delete(r) => \/ pc' = "idle"
                           \/ /\ pc' = "delete" /\ path' = server.root \o r.path
                              /\ server' = server /\ request' = r
  BY <1>1, <1>2 DEF methode_delete
<1>7. server' = server => UploadDir' = UploadDir
  BY DEF UploadDir
<1>8. QED  BY <1>3, <1>4, <1>5, <1>6, <1>7

(* Which places the calls that only look lead to, and from where.          *)
LEMMA LookingMoves ==
  ASSUME \/ StatPath \/ TryIndex \/ Fallback \/ Check \/ Open \/ ListStat \/ OpenDir \/ Listed
         \/ (\E n \in Nodes : SortEntry(n) \/ ShowEntry(n))
         \/ UploadStat \/ DeleteStat
  PROVE  /\ pc' \in {"upload", "mkdir", "create", "delete", "remove"} => UNCHANGED path
         /\ pc' \in {"mkdir", "create"} => UploadStat
         /\ pc' = "remove" => DeleteStat
         /\ pc' \notin {"upload", "delete"}
<1>1. \A step : Goes(step) => pc' = step
  BY DEF Goes
<1>2. \A status : Fails(status) => pc' = "idle"
  BY DEF Fails, Answer
<1>3. \A r : Answer(r) => pc' = "idle"
  BY DEF Answer
<1>4. \/ StatPath \/ TryIndex \/ Fallback \/ Check \/ Open \/ ListStat \/ OpenDir \/ Listed
         => pc' \in {"idle", "index", "check", "fallback", "list", "read", "open", "opendir",
                     "sort"}
  BY <1>1, <1>2, <1>3 DEF StatPath, TryIndex, Fallback, Check, Open, ListStat, OpenDir, Listed
<1>5. \A n \in Nodes : SortEntry(n) \/ ShowEntry(n) => pc' \in {"rows", "sort"}
  BY <1>1 DEF SortEntry, ShowEntry
<1>6. UploadStat => pc' \in {"create", "mkdir"} /\ UNCHANGED path
  BY <1>1 DEF UploadStat, work
<1>7. DeleteStat => pc' \in {"idle", "remove"} /\ UNCHANGED path
  BY <1>1, <1>2 DEF DeleteStat, Fails, work
<1>8. QED  BY <1>4, <1>5, <1>6, <1>7

-----------------------------------------------------------------------------
(* Deleting.                                                               *)

DeleteKept ==
  /\ pc \in {"delete", "remove"} => path = DeletePath
  /\ pc = "remove" /\ NodeOf(path) \in Untouched => before[NodeOf(path)].type = "file"
  /\ pc = "idle" /\ reply.status = "deleted" =>
       LET node == NodeOf(DeletePath) IN
       /\ disk[node] = Absent
       /\ node \in Untouched => before[node].type = "file"
       /\ \A n \in Untouched \ {node} : disk[n] = before[n]

LEMMA DeleteKeptStep ==
  ASSUME Typed, DiskKept, DeleteKept, [Next]_vars
  PROVE  DeleteKept'
<1>1. CASE \E r \in Requests :
             Refuse(r) \/ methode_get(r) \/ methode_post(r) \/ methode_delete(r)
  BY <1>1, ArrivalEffect, ArrivalPaths DEF DeleteKept
<1>2. CASE \/ StatPath \/ TryIndex \/ Fallback \/ Check \/ Open \/ ListStat \/ OpenDir \/ Listed
           \/ (\E n \in Nodes : SortEntry(n) \/ ShowEntry(n))
           \/ UploadStat \/ DeleteStat
  <2>1. Looked /\ pc \in Steps \ {"idle", "create", "write"}
    BY <1>2, LookingEffect, LookingPlaces
  <2>2. CASE pc' # "remove"
    BY <1>2, <2>1, <2>2, LookingMoves DEF Looked, DeleteKept
  <2>3. CASE pc' = "remove"
    <3>1. DeleteStat /\ UNCHANGED <<path, server, request, disk, before, touched>>
      BY <1>2, <2>1, <2>3, LookingMoves DEF Looked
    <3>2. pc = "delete" /\ Exists(path) /\ ~IsDir(path)
      BY <2>3, <3>1 DEF DeleteStat, Fails, Answer
    <3>3. disk[NodeOf(path)].type = "file"
      BY <3>2, StatOfText DEF IsDir, Typed, IsTree, Absent, Dir
    <3>4. SiteUnchanged
      BY <2>1 DEF DiskKept
    <3>5. QED
      BY <2>3, <3>1, <3>2, <3>3, <3>4 DEF DeleteKept, SiteUnchanged, Untouched, DeletePath
  <2>4. QED  BY <2>2, <2>3
<1>3. CASE UploadMkdir \/ UploadOpen \/ UploadWrite
  BY <1>3, UploadEffect DEF Looked, DeleteKept
<1>4. CASE DeleteRemove
  <2>1. CASE pc' = "idle" /\ reply'.status = "500"
    BY <2>1 DEF DeleteKept
  <2>2. CASE ~(pc' = "idle" /\ reply'.status = "500")
    <3> DEFINE node == NodeOf(path)
    <3>1. /\ node \in Nodes /\ disk' = [disk EXCEPT ![node] = Absent]
          /\ pc = "remove" /\ pc' = "idle"
          /\ UNCHANGED <<server, request, before, touched, path>>
      BY <1>4, <2>2, UploadEffect DEF Fits, work
    <3>2. path = DeletePath /\ DeletePath' = DeletePath
      BY <3>1 DEF DeleteKept, DeletePath
    <3>3. SiteUnchanged
      BY <3>1 DEF DiskKept, Steps
    <3>4. \A n \in Nodes : disk'[n] = IF n = node THEN Absent ELSE disk[n]
      BY <3>1 DEF Typed, IsTree
    <3>5. node \in Untouched => before[node].type = "file"
      BY <3>1 DEF DeleteKept
    <3>6. QED
      BY <3>1, <3>2, <3>3, <3>4, <3>5 DEF DeleteKept, SiteUnchanged, Untouched
  <2>3. QED  BY <2>1, <2>2
<1>5. CASE \E n \in Nodes : OthersChange(n)
  BY <1>5, OthersEffect DEF DeleteKept, Untouched, DeletePath
<1>6. CASE UNCHANGED vars
  BY <1>6 DEF vars, work, history, DeleteKept, Untouched, DeletePath
<1>7. QED  BY <1>1, <1>2, <1>3, <1>4, <1>5, <1>6 DEF Next

(* A deletion removes the file the path names, and no other.               *)
THEOREM DeletionsAreExact == Spec => []DeleteIsExact
<1>1. Init => DiskKept /\ DeleteKept
  BY DEF Init, DiskKept, SiteUnchanged, NewDirOnly, DeleteKept, Replied
<1>2. DeleteKept => DeleteIsExact
  BY DEF DeleteKept, DeleteIsExact, Replying, DeletePath
<1>3. QED
  BY <1>1, <1>2, TypedInit, TypedStep, DiskKeptStep, DeleteKeptStep, PTL DEF Spec

-----------------------------------------------------------------------------
(* Listing a directory.                                                    *)

Seen == rows.read \cup rows.dirs \cup rows.files \cup rows.shown

(* The entries nobody has touched.                                         *)
Still == Entries(NodeOf(path)) \cap Untouched

(* What stood in the directory is among the entries at hand from readdir   *)
(* to the last row, and nothing else nobody has touched is.                *)
ListingKept ==
  /\ pc \in {"sort", "rows"} =>
       \A n \in Still : n \in Seen <=> before[n].type # "absent"
  /\ pc = "sort" /\ rows.read = {} => rows.dirs \cup rows.files = {}
  /\ pc = "rows" => rows.read = {}
  /\ pc = "idle" /\ reply.status = "listing" =>
       \A n \in Still : n \in rows.shown <=> before[n].type # "absent"

(* The steps that end in a listing, and the others.                        *)
LEMMA ListingMoves ==
  ASSUME Typed,
         \/ StatPath \/ TryIndex \/ Fallback \/ Check \/ Open \/ ListStat \/ OpenDir \/ Listed
         \/ (\E n \in Nodes : SortEntry(n) \/ ShowEntry(n))
         \/ UploadStat \/ DeleteStat
  PROVE  \/ pc' \notin {"idle", "sort", "rows"}
         \/ pc' = "idle" /\ reply'.status # "listing"
         \/ Listed /\ UNCHANGED <<path, rows>>
         \/ /\ OpenDir /\ pc' = "sort" /\ UNCHANGED path
            /\ rows' = [NoRows EXCEPT !.read = Present(NodeOf(path))]
         \/ \E n \in Nodes : SortEntry(n) \/ ShowEntry(n)
<1>1. \A step : Goes(step) => pc' = step
  BY DEF Goes
<1>2. \A status : Fails(status) => pc' = "idle" /\ reply'.status = status
  BY DEF Fails, Answer, Replied
<1>3. CASE StatPath \/ TryIndex \/ Fallback \/ Check \/ ListStat \/ UploadStat \/ DeleteStat
  BY <1>1, <1>2, <1>3 DEF StatPath, TryIndex, Fallback, Check, ListStat, UploadStat, DeleteStat
<1>4. CASE Open
  <2> DEFINE page == [Replied("page") EXCEPT !.data = BodySent(Stat(path).data)]
  <2>1. page.status = "page"
    BY DEF Replied
  <2>2. Fails("404") \/ Fails("exception") \/ Answer(page)
    BY <1>4 DEF Open
  <2> HIDE DEF page
  <2>3. QED  BY <1>2, <2>1, <2>2 DEF Answer
<1>5. CASE OpenDir
  BY <1>1, <1>2, <1>5 DEF OpenDir
<1>6. CASE Listed
  BY <1>6 DEF Listed, work
<1>7. QED  BY <1>3, <1>4, <1>5, <1>6

LEMMA ListingKeptStep ==
  ASSUME Typed, DiskKept, ListingKept, [Next]_vars
  PROVE  ListingKept'
<1>1. CASE \E r \in Requests :
             Refuse(r) \/ methode_get(r) \/ methode_post(r) \/ methode_delete(r)
  BY <1>1, ArrivalEffect DEF ListingKept
<1>2. CASE \/ StatPath \/ TryIndex \/ Fallback \/ Check \/ Open \/ ListStat \/ OpenDir \/ Listed
           \/ (\E n \in Nodes : SortEntry(n) \/ ShowEntry(n))
           \/ UploadStat \/ DeleteStat
  <2>1. /\ Looked /\ pc \in Steps \ {"idle", "create", "write"}
        /\ UNCHANGED <<disk, before, touched>>
    BY <1>2, LookingEffect, LookingPlaces DEF Looked
  <2>2. SiteUnchanged /\ UNCHANGED Untouched
    BY <2>1 DEF DiskKept, Untouched
  <2>3. rows \in RowsType
    BY DEF Typed
  <2>4. CASE pc' \notin {"idle", "sort", "rows"} \/ (pc' = "idle" /\ reply'.status # "listing")
    BY <2>4 DEF ListingKept
  <2>5. CASE Listed /\ UNCHANGED <<path, rows>>
    <3>1. pc' = "idle" /\ pc \in {"sort", "rows"}
      BY <2>5 DEF Listed, Answer
    <3>2. rows.read = {} /\ rows.dirs \cup rows.files = {}
      BY <2>5 DEF Listed, ListingKept
    <3>3. UNCHANGED Still /\ Seen = rows.shown
      BY <2>2, <2>5, <3>2 DEF Still, Entries, Seen
    <3>4. QED  BY <2>1, <2>5, <3>1, <3>3 DEF ListingKept
  <2>6. CASE /\ OpenDir /\ pc' = "sort" /\ UNCHANGED path
             /\ rows' = [NoRows EXCEPT !.read = Present(NodeOf(path))]
    <3>1. /\ rows'.read = Present(NodeOf(path))
          /\ rows'.dirs = {} /\ rows'.files = {} /\ rows'.shown = {}
      BY <2>6 DEF NoRows
    <3>2. Seen' = Present(NodeOf(path)) /\ Still' = Still
      BY <2>2, <2>6, <3>1 DEF Seen, Still, Entries
    <3>3. \A n \in Still : n \in Present(NodeOf(path)) <=> before[n].type # "absent"
      BY <2>2 DEF SiteUnchanged, Still, Present
    <3>4. QED  BY <2>1, <2>6, <3>1, <3>2, <3>3 DEF ListingKept
  <2>7. ASSUME NEW n \in Nodes, SortEntry(n)
        PROVE  ListingKept'
    <3>1. /\ pc = "sort" /\ n \in rows.read /\ UNCHANGED path
          /\ pc' = IF rows.read = {n} THEN "rows" ELSE "sort"
      BY <2>7 DEF SortEntry, Goes
    <3>2. disk[n].type \in {"dir", "file", "absent"}
      BY DEF Typed, IsTree, Absent, Dir
    <3>3. \/ /\ disk[n].type # "absent"
             /\ rows' \in { [rows EXCEPT !.read = @ \ {n}, !.dirs = @ \cup {n}],
                            [rows EXCEPT !.read = @ \ {n}, !.files = @ \cup {n}] }
          \/ disk[n].type = "absent" /\ rows' = [rows EXCEPT !.read = @ \ {n}]
      BY <2>7, <3>2 DEF SortEntry
    <3>4. /\ rows'.read = rows.read \ {n}
          /\ disk[n].type # "absent" => Seen' = Seen
          /\ disk[n].type = "absent" => \A m \in Nodes : m # n => (m \in Seen' <=> m \in Seen)
      BY <2>3, <3>1, <3>3 DEF Seen, RowsType
    <3>5. UNCHANGED Still
      BY <2>2, <3>1 DEF Still, Entries
    <3>6. \A m \in Still : m \in Seen' <=> m \in Seen
      <4>1. ASSUME n \in Still
            PROVE  disk[n].type # "absent"
        BY <2>2, <3>1, <4>1 DEF ListingKept, SiteUnchanged, Still, Seen
      <4>2. QED  BY <3>4, <4>1 DEF Still, Untouched
    <3>7. \A m \in Still : m \in Seen' <=> before[m].type # "absent"
      BY <3>1, <3>6 DEF ListingKept
    <3>8. QED  BY <2>1, <3>1, <3>4, <3>5, <3>7 DEF ListingKept
  <2>8. ASSUME NEW n \in Nodes, ShowEntry(n)
        PROVE  ListingKept'
    <3>1. /\ pc = "rows" /\ pc' = "rows" /\ UNCHANGED path
          /\ n \in rows.dirs \cup rows.files
      BY <2>8 DEF ShowEntry, Goes
    <3>2. rows' = [rows EXCEPT !.dirs = @ \ {n}, !.files = @ \ {n},
                               !.shown = IF disk[n].type = "absent" THEN @ ELSE @ \cup {n}]
      BY <2>8 DEF ShowEntry
    <3>3. /\ rows'.read = rows.read
          /\ rows'.dirs = rows.dirs \ {n} /\ rows'.files = rows.files \ {n}
          /\ rows'.shown = IF disk[n].type = "absent" THEN rows.shown
                                                     ELSE rows.shown \cup {n}
      BY <2>3, <3>2 DEF RowsType
    <3>4. /\ disk[n].type # "absent" => Seen' = Seen
          /\ \A m \in Nodes : m # n => (m \in Seen' <=> m \in Seen)
      BY <3>1, <3>3 DEF Seen
    <3>5. UNCHANGED Still
      BY <2>2, <3>1 DEF Still, Entries
    <3>6. \A m \in Still : m \in Seen' <=> m \in Seen
      <4>1. ASSUME n \in Still
            PROVE  disk[n].type # "absent"
        BY <2>2, <3>1, <4>1 DEF ListingKept, SiteUnchanged, Still, Seen
      <4>2. QED  BY <3>4, <4>1 DEF Still, Untouched
    <3>7. \A m \in Still : m \in Seen' <=> before[m].type # "absent"
      BY <3>1, <3>6 DEF ListingKept
    <3>8. QED  BY <2>1, <3>1, <3>3, <3>5, <3>7 DEF ListingKept
  <2>9. QED  BY <1>2, <2>4, <2>5, <2>6, <2>7, <2>8, ListingMoves
<1>3. CASE UploadMkdir \/ UploadOpen \/ UploadWrite \/ DeleteRemove
  BY <1>3, UploadEffect DEF Looked, ListingKept
<1>4. CASE \E n \in Nodes : OthersChange(n)
  <2>1. Still' \subseteq Still /\ Seen' = Seen /\ UNCHANGED <<pc, reply, rows, before>>
    BY <1>4, OthersEffect DEF Still, Seen, Entries, Untouched
  <2>2. QED  BY <2>1 DEF ListingKept
<1>5. CASE UNCHANGED vars
  BY <1>5 DEF vars, work, history, ListingKept, Still, Seen, Entries, Untouched
<1>6. QED  BY <1>1, <1>2, <1>3, <1>4, <1>5 DEF Next

(* A listing shows what stood in the directory all the while, and nothing  *)
(* that never did.                                                         *)
THEOREM ListingsAreComplete == Spec => []ListingComplete
<1>1. Init => DiskKept /\ ListingKept
  BY DEF Init, DiskKept, SiteUnchanged, NewDirOnly, ListingKept, Replied
<1>2. ListingKept => ListingComplete
  BY DEF ListingKept, ListingComplete, Replying, Still, Untouched, Entries
<1>3. QED
  BY <1>1, <1>2, TypedInit, TypedStep, DiskKeptStep, ListingKeptStep, PTL DEF Spec

-----------------------------------------------------------------------------
(* The limit of a body.                                                    *)

(* Only a request that is too large is answered with 413.                  *)
LimitKept ==
  /\ pc = "idle" /\ received > 0 => (reply.status = "413" <=> TooLarge(request))
  /\ pc # "idle" => ~TooLarge(request)

LEMMA ArrivalRefused ==
  ASSUME NEW r \in Requests,
         Refuse(r) \/ methode_get(r) \/ methode_post(r) \/ methode_delete(r)
  PROVE  \/ pc' = "idle" /\ (reply'.status = "413" <=> TooLarge(r))
         \/ pc' # "idle" /\ ~TooLarge(r)
<1> DEFINE Said == pc' = "idle" /\ (reply'.status = "413" <=> TooLarge(r))
           Begun == pc' # "idle" /\ ~TooLarge(r)
<1>1. ASSUME NEW a, AnswersAtOnce(r, a)
      PROVE  pc' = "idle" /\ reply' = a
  BY <1>1 DEF AnswersAtOnce
<1>2. ASSUME NEW step, NEW text, NEW candidates, Starts(r, step, text, candidates)
      PROVE  pc' = step
  BY <1>2 DEF Starts
<1>3. \A status : Replied(status).status = status
  BY DEF Replied
<1>4. CASE Refuse(r)
  BY <1>1, <1>3, <1>4 DEF Refuse
<1>5. CASE methode_get(r)
  BY <1>1, <1>2, <1>3, <1>5 DEF methode_get, Refused
<1>6. CASE methode_post(r)
  <2> DEFINE form == Popup(parseFormData(r.body))
             name == FirstPart(r.body).name
  <2>1. form.status \in {"form", "garbled"}
    BY PopupIs
  <2>2. \/ AnswersAtOnce(r, Replied("script")) \/ AnswersAtOnce(r, form)
        \/ AnswersAtOnce(r, Replied("400"))
        \/ Starts(r, "upload", Append(UploadDir, name), <<>>)
    BY <1>6 DEF methode_post
  <2>3. ~TooLarge(r)
    BY <1>6 DEF methode_post, Refused
  <2> HIDE DEF form, name
  <2>4. QED  BY <1>1, <1>2, <1>3, <2>1, <2>2, <2>3
<1>7. CASE methode_delete(r)
  BY <1>1, <1>2, <1>3, <1>7 DEF methode_delete, Refused
<1>8. QED  BY <1>4, <1>5, <1>6, <1>7

LEMMA LimitKeptStep ==
  ASSUME Typed, LimitKept, [Next]_vars
  PROVE  LimitKept'
<1>1. CASE \E r \in Requests :
             Refuse(r) \/ methode_get(r) \/ methode_post(r) \/ methode_delete(r)
  <2>1. PICK r \in Requests :
          Refuse(r) \/ methode_get(r) \/ methode_post(r) \/ methode_delete(r)
    BY <1>1
  <2>2. request' = r /\ server' = server
    BY <2>1, ArrivalEffect
  <2>3. TooLarge(request)' <=> TooLarge(r)
    BY <2>2 DEF TooLarge, MisDeclared, SizeToCheck, MentionsPng
  <2>4. QED  BY <2>1, <2>3, ArrivalRefused DEF LimitKept
<1>2. ASSUME UNCHANGED <<server, request>>, pc # "idle",
             pc' = "idle" => reply'.status # "413"
      PROVE  LimitKept'
  <2>1. TooLarge(request)' <=> TooLarge(request)
    BY <1>2 DEF TooLarge, MisDeclared, SizeToCheck, MentionsPng
  <2>2. QED  BY <1>2, <2>1 DEF LimitKept
<1>3. CASE \/ StatPath \/ TryIndex \/ Fallback \/ Check \/ Open \/ ListStat \/ OpenDir \/ Listed
           \/ (\E n \in Nodes : SortEntry(n) \/ ShowEntry(n))
           \/ UploadStat \/ DeleteStat
  BY <1>2, <1>3, LookingEffect, LookingPlaces DEF Looked
<1>4. CASE UploadMkdir \/ UploadOpen \/ UploadWrite \/ DeleteRemove
  BY <1>2, <1>4, UploadEffect DEF Looked
<1>5. CASE \E n \in Nodes : OthersChange(n)
  BY <1>2, <1>5, OthersEffect
<1>6. CASE UNCHANGED vars
  BY <1>6 DEF vars, work, history, LimitKept, TooLarge, MisDeclared, SizeToCheck, MentionsPng
<1>7. QED  BY <1>1, <1>3, <1>4, <1>5, <1>6 DEF Next

(* A body is refused for its size if it is longer than the file says or    *)
(* not as long as its header does, and for nothing else, as long as the    *)
(* product fits a long and no ".png" is mentioned.                         *)
THEOREM LimitsAreAsWritten == Spec => []LimitAsWritten
<1>1. Init => LimitKept
  BY DEF Init, LimitKept
<1>2. Typed /\ LimitKept => LimitAsWritten
  <2> SUFFICES ASSUME Typed, LimitKept, pc = "idle", received > 0, ~MentionsPng(request),
                      FitsLong(Written(server.limit)) \/ server.limit.number > LongMax
               PROVE  reply.status = "413" <=> MisDeclared(request)
                                                 \/ Len(request.body) > Written(server.limit)
    BY DEF LimitAsWritten
  <2>1. server.limit.number \in Int /\ server.limit.unit \in Units
    BY ServersAssumption DEF Typed
  <2>2. Len(request.body) \in Nat /\ Len(request.body) <= LongMax
    BY RequestsAssumption, LenProperties DEF Typed
  <2>3. Len(request.body) > client_max_body_size(server.limit)
          <=> Len(request.body) > Written(server.limit)
    BY <2>1, <2>2, StoredLimit
  <2>4. ~MisDeclared(request) => SizeToCheck(request) = Len(request.body)
    BY DEF MisDeclared, SizeToCheck
  <2>5. QED  BY <2>3, <2>4 DEF LimitKept, TooLarge
<1>3. QED  BY <1>1, <1>2, TypedInit, TypedStep, LimitKeptStep, PTL DEF Spec
-----------------------------------------------------------------------------
(* The location of a path.                                                 *)

(* The code's comparison means that the location is the path, or that the  *)
(* path goes on below it.                                                  *)
LEMMA MatchesWhatItGoverns ==
  ASSUME NEW l \in Text, l # <<>>, NEW p \in Text
  PROVE  Matches(l, p) <=> Governs(l, p)
<1> DEFINE n == Len(l)
           m == Append(l, "/")
           S == STRING \cup {"/"}
<1>0. l \in Seq(S) /\ p \in Seq(S) /\ "/" \in S
  BY SeqMonotonic DEF Text
<1>1. n \in Nat /\ n >= 1 /\ Len(p) \in Nat
  BY LenProperties, EmptySeq DEF Text
<1>2. m \in Seq(S) /\ Len(m) = n + 1 /\ m[n + 1] = "/" /\ \A i \in 1 .. n : m[i] = l[i]
  BY <1>0, AppendProperties
<1>3. Last(l) = l[n]
  BY DEF Last
<1>4. IsPrefix(l, p) <=> n <= Len(p) /\ \A i \in 1 .. n : l[i] = p[i]
  BY <1>0, PrefixTokens
<1>5. IsPrefix(m, p) <=> n + 1 <= Len(p) /\ \A i \in 1 .. n + 1 : m[i] = p[i]
  <2> HIDE DEF m, n, S
  <2>1. QED  BY <1>0, <1>2, PrefixTokens
<1>6. p = l <=> Len(p) = n /\ \A i \in 1 .. n : l[i] = p[i]
  BY SeqEqual DEF Text
<1>7. IsPrefix(m, p) <=> /\ n + 1 <= Len(p) /\ p[n + 1] = "/"
                         /\ \A i \in 1 .. n : l[i] = p[i]
  <2> HIDE DEF m, n
  <2>1. \A i \in 1 .. n : i \in 1 .. n + 1
    BY <1>1
  <2>2. \A i \in 1 .. n + 1 : i \in 1 .. n \/ i = n + 1
    BY <1>1
  <2>3. n + 1 \in 1 .. n + 1
    BY <1>1
  <2>4. QED  BY <1>2, <1>5, <2>1, <2>2, <2>3
<1>8. EndsWith(l, "/") <=> l[n] = "/"
  BY <1>3 DEF EndsWith
<1>9. Matches(l, p) <=> /\ IsPrefix(l, p)
                        /\ Len(p) = n \/ p[n + 1] = "/" \/ l[n] = "/"
  BY <1>3 DEF Matches, AtBoundary
<1>10. Governs(l, p) <=> \/ p = l
                         \/ EndsWith(l, "/") /\ IsPrefix(l, p)
                         \/ ~EndsWith(l, "/") /\ IsPrefix(m, p)
  BY DEF Governs
<1> HIDE DEF n, m
<1>11. QED  BY <1>1, <1>4, <1>6, <1>7, <1>8, <1>9, <1>10

(* A request is answered by the rules of the longest location that is its  *)
(* path or lies above it.                                                  *)
THEOREM LocationsAreLongest == Spec => []LongestLocation
<1>1. Typed => LongestLocation
  <2> SUFFICES ASSUME Typed PROVE LongestLocation
    OBVIOUS
  <2> DEFINE S == DOMAIN server.locations
             p == request.path
             l == Location(request)
  <2>1. IsFiniteSet(S) /\ S \in SUBSET Text /\ <<>> \notin S /\ p \in Text
    BY ServersAssumption, RequestsAssumption DEF Typed
  <2>2. l = getLocation(S, p)
    BY DEF Location
  <2> HIDE DEF S, p, l
  <2>3. Found(l, S, p)
    BY <2>1, <2>2, LongestIsFound
  <2>4. \A m \in S : Matches(m, p) <=> Governs(m, p)
    BY <2>1, MatchesWhatItGoverns
  <2>5. \A m \in S : Len(m) \in Nat /\ Len(m) # 0
    BY <2>1, LenProperties, EmptySeq DEF Text
  <2>6. Len(<<>>) = 0
    OBVIOUS
  <2>7. l # <<>> => Governs(l, p)
    BY <2>3, <2>4 DEF Found
  <2>8. \A m \in S : Governs(m, p) => l # <<>> /\ Len(m) <= Len(l)
    BY <2>3, <2>4, <2>5, <2>6 DEF Found
  <2>9. QED  BY <2>7, <2>8 DEF LongestLocation, S, p, l
<1>2. QED  BY <1>1, TypedInit, TypedStep, PTL DEF Spec

-----------------------------------------------------------------------------
(* What a GET outside the locations is answered with.                      *)

Asking ==
  /\ request.methode = "GET" /\ ~Refused(request) /\ ~Governed(request) /\ touched = {}
  /\ server.root # <<"default">>

Asked ==
  IF request.path = <<"/">> THEN FirstIndex(server) ELSE server.root \o request.path
Candidate(i) == Asked \o <<"/">> \o server.index[i]
Candidates == {Candidate(i) : i \in DOMAIN server.index}
FirstIs(i) ==
  /\ i \in DOMAIN server.index /\ Exists(Candidate(i))
  /\ \A j \in DOMAIN server.index : j < i => ~Exists(Candidate(j))
Missing == \A i \in DOMAIN server.index : ~Exists(Candidate(i))

(* The file that stands where the request leads: the first index of a      *)
(* directory that has one.                                                 *)
FileAsked(file) ==
  \/ file = Asked /\ (IsDir(Asked) => Missing)
  \/ IsDir(Asked) /\ \E i : FirstIs(i) /\ file = Candidate(i)

(* The first k candidates have been tried.                                 *)
Left(k) ==
  /\ k \in Nat /\ todo \in Seq(Candidates) /\ Len(todo) + k = Len(server.index)
  /\ \A i \in 1 .. Len(todo) : todo[i] = Candidate(i + k)
  /\ \A i \in 1 .. k : ~Exists(Candidate(i))

(* Where a GET has come, step by step, while nobody touches the site.      *)
StableKept ==
  Asking =>
    /\ pc \in {"idle", "stat", "index", "check", "read", "open"}
    /\ pc = "stat" => path = Asked
    /\ pc = "index" => IsDir(Asked) /\ \E k : Left(k)
    /\ pc \in {"check", "read", "open"} => FileAsked(path)
    /\ pc \in {"read", "open"} => Exists(path)
    /\ pc = "open" => ~IsDir(path)
    /\ pc = "idle" /\ received > 0 =>
         \E file : FileAsked(file)
                   /\ (~LooksLikeScript(Stat(file).data) => reply = Standing(file))

(* There is one such file, and it is the one the property names.           *)
LEMMA OneFileAsked ==
  ASSUME Typed, NEW file, FileAsked(file)
  PROVE  LET found == {i \in DOMAIN server.index : Exists(Asked \o <<"/">> \o server.index[i])}
             first == CHOOSE i \in found : \A j \in found : i <= j
         IN  file = IF IsDir(Asked) /\ found # {}
                    THEN Asked \o <<"/">> \o server.index[first] ELSE Asked
<1> DEFINE found == {i \in DOMAIN server.index : Exists(Asked \o <<"/">> \o server.index[i])}
           first == CHOOSE i \in found : \A j \in found : i <= j
<1>1. \A i : i \in found <=> i \in DOMAIN server.index /\ Exists(Candidate(i))
  BY DEF Candidate
<1>2. DOMAIN server.index = 1 .. Len(server.index) /\ Len(server.index) \in Nat
  BY ServersAssumption, LenProperties DEF Typed
<1> HIDE DEF found
<1>3. CASE file = Asked /\ (IsDir(Asked) => Missing)
  <2>1. ~(IsDir(Asked) /\ found # {})
    BY <1>1, <1>3 DEF Missing
  <2>2. QED  BY <1>3, <2>1 DEF found
<1>4. CASE IsDir(Asked) /\ \E i : FirstIs(i) /\ file = Candidate(i)
  <2>1. PICK i : FirstIs(i) /\ file = Candidate(i)
    BY <1>4
  <2>2. i \in found /\ \A j \in found : j \in Nat /\ i \in Nat /\ i <= j
    BY <1>1, <1>2, <2>1 DEF FirstIs
  <2>3. \A m \in found : (\A j \in found : m <= j) => m = i
    BY <2>2
  <2>4. first = i
    BY <2>2, <2>3
  <2> HIDE DEF first
  <2>5. file = IF IsDir(Asked) /\ found # {}
               THEN Asked \o <<"/">> \o server.index[first] ELSE Asked
    BY <1>4, <2>1, <2>2, <2>4 DEF Candidate
  <2>6. QED  BY <2>5 DEF found, first
<1>5. QED  BY <1>3, <1>4 DEF FileAsked

LEMMA StableIsAnswered ==
  ASSUME Typed, StableKept
  PROVE  StableSiteAnswer
<1> DEFINE found == {i \in DOMAIN server.index : Exists(Asked \o <<"/">> \o server.index[i])}
           first == CHOOSE i \in found : \A j \in found : i <= j
           file  == IF IsDir(Asked) /\ found # {}
                    THEN Asked \o <<"/">> \o server.index[first] ELSE Asked
<1>1. ASSUME Asking, pc = "idle", received > 0, ~LooksLikeScript(Stat(file).data)
      PROVE  reply = Standing(file)
  <2>1. PICK f : FileAsked(f) /\ (~LooksLikeScript(Stat(f).data) => reply = Standing(f))
    BY <1>1 DEF StableKept
  <2>2. f = file
    BY <2>1, OneFileAsked
  <2> HIDE DEF file
  <2>3. QED  BY <1>1, <2>1, <2>2
<1>2. QED  BY <1>1 DEF StableSiteAnswer, Asking, Asked

LEMMA StableSight ==
  ASSUME UNCHANGED <<server, request, disk>>
  PROVE  /\ Asked' = Asked /\ Candidates' = Candidates
         /\ \A i : Candidate(i)' = Candidate(i)
         /\ \A t : /\ Exists(t)' <=> Exists(t)
                   /\ IsDir(t)' <=> IsDir(t)
                   /\ Stat(t)' = Stat(t)
                   /\ Standing(t)' = Standing(t)
         /\ \A f : FileAsked(f)' <=> FileAsked(f)
         /\ touched' = touched => (Asking' <=> Asking)
<1>1. Asked' = Asked
  BY DEF Asked, FirstIndex
<1>2. \A i : Candidate(i)' = Candidate(i)
  BY <1>1 DEF Candidate
<1>3. Candidates' = Candidates
  BY <1>2 DEF Candidates
<1>4. \A t : Stat(t)' = Stat(t)
  BY DEF Stat
<1>5. \A t : (Exists(t)' <=> Exists(t)) /\ (IsDir(t)' <=> IsDir(t))
  BY <1>4 DEF Exists, IsDir
<1>6. \A t : Standing(t)' = Standing(t)
  BY <1>4, <1>5 DEF Standing
<1>7. \A i : FirstIs(i)' <=> FirstIs(i)
  BY <1>2, <1>5 DEF FirstIs
<1>8. Missing' <=> Missing
  BY <1>2, <1>5 DEF Missing
<1>9. \A f : FileAsked(f)' <=> FileAsked(f)
  BY <1>1, <1>2, <1>5, <1>7, <1>8 DEF FileAsked
<1>10. touched' = touched => (Asking' <=> Asking)
  BY DEF Asking, Refused, TooLarge, MisDeclared, SizeToCheck, MentionsPng, Governed, Location
<1>11. QED  BY <1>1, <1>2, <1>3, <1>4, <1>5, <1>6, <1>9, <1>10

(* The candidates in front of a directory's index, and one less.           *)
LEMMA AllCandidatesLeft ==
  ASSUME Typed, UNCHANGED <<server, request, disk>>,
         todo' = IndexPaths(server.index, Append(Asked, "/"))
  PROVE  Left(0)'
<1> DEFINE S == STRING \cup {"/"}
           n == Len(server.index)
           t == [i \in 1 .. n |-> Candidate(i)]
<1>1. server.index \in Seq(Text) /\ server.root \in Text /\ request.path \in Text
  BY ServersAssumption, RequestsAssumption DEF Typed
<1>2. DOMAIN server.index = 1 .. n /\ n \in Nat
  BY <1>1, LenProperties
<1>3. server.root \in Seq(S) /\ request.path \in Seq(S) /\ "/" \in S
  BY <1>1, SeqMonotonic DEF Text
<1>4. Append(Asked, "/") = Asked \o <<"/">>
  <2> HIDE DEF S
  <2>1. FirstIndex(server) \in Seq(S)
    <3>1. CASE server.index = <<>>
      BY <3>1, EmptySeq DEF FirstIndex
    <3>2. CASE server.index # <<>>
      <4>1. Head(server.index) \in Text
        BY <1>1, <3>2, HeadTailProperties
      <4>2. Head(server.index) \in Seq(S)
        BY <4>1, SeqMonotonic DEF Text, S
      <4>3. QED  BY <1>3, <3>2, <4>2, ConcatProperties DEF FirstIndex
    <3>3. QED  BY <3>1, <3>2
  <2>2. Asked \in Seq(S)
    BY <1>3, <2>1, ConcatProperties DEF Asked
  <2>3. QED  BY <1>3, <2>2, AppendIsConcat
<1>5. todo' = t
  BY <1>2, <1>4 DEF IndexPaths, Candidate
<1>6. t \in Seq(Candidates) /\ Len(t) = n /\ \A i \in 1 .. n : t[i] = Candidate(i)
  <2> HIDE DEF n
  <2>1. \A i \in 1 .. n : Candidate(i) \in Candidates
    BY <1>2 DEF Candidates
  <2>2. QED  BY <1>2, <2>1
<1> HIDE DEF t, n, S
<1>7. Candidates' = Candidates /\ \A i : Candidate(i)' = Candidate(i)
  BY StableSight
<1>8. todo' \in Seq(Candidates') /\ Len(todo') + 0 = Len(server.index')
  BY <1>2, <1>5, <1>6, <1>7 DEF n
<1>9. \A i \in 1 .. Len(todo') : todo'[i] = Candidate(i + 0)'
  BY <1>2, <1>5, <1>6, <1>7
<1>10. QED  BY <1>8, <1>9 DEF Left

LEMMA OneCandidateLess ==
  ASSUME Typed, UNCHANGED <<server, request, disk>>, NEW k, Left(k), todo # <<>>
  PROVE  /\ k + 1 \in DOMAIN server.index /\ Head(todo) = Candidate(k + 1)
         /\ todo' = Tail(todo) /\ ~Exists(Head(todo)) => Left(k + 1)'
<1>1. k \in Nat /\ Len(todo) \in Nat /\ Len(todo) >= 1 /\ Len(todo) + k = Len(server.index)
  BY LenProperties, EmptySeq DEF Left
<1>2. DOMAIN server.index = 1 .. Len(server.index)
  BY ServersAssumption, LenProperties DEF Typed
<1>3. k + 1 \in DOMAIN server.index
  BY <1>1, <1>2
<1>4. Head(todo) = todo[1] /\ todo[1] = Candidate(1 + k) /\ 1 + k = k + 1
  BY <1>1 DEF Left
<1>5. ASSUME todo' = Tail(todo), ~Exists(Head(todo))
      PROVE  Left(k + 1)'
  <2>1. /\ Tail(todo) \in Seq(Candidates) /\ Len(Tail(todo)) = Len(todo) - 1
        /\ \A i \in 1 .. Len(Tail(todo)) : Tail(todo)[i] = todo[i + 1]
    BY HeadTailProperties DEF Left
  <2>2. /\ Candidates' = Candidates /\ \A i : Candidate(i)' = Candidate(i)
        /\ \A t : Exists(t)' <=> Exists(t)
    BY StableSight
  <2>3. k + 1 \in Nat /\ Len(todo') + (k + 1) = Len(server.index')
    BY <1>1, <1>5, <2>1
  <2>4. \A i \in 1 .. Len(todo') : todo'[i] = Candidate(i + (k + 1))'
    <3> TAKE i \in 1 .. Len(todo')
    <3>1. i + 1 \in 1 .. Len(todo) /\ (i + 1) + k = i + (k + 1)
      BY <1>1, <1>5, <2>1
    <3>2. QED  BY <1>5, <2>1, <2>2, <3>1 DEF Left
  <2>5. \A i \in 1 .. k + 1 : (~Exists(Candidate(i)))'
    <3> TAKE i \in 1 .. k + 1
    <3>1. i \in 1 .. k \/ i = k + 1
      BY <1>1
    <3>2. QED  BY <1>4, <1>5, <2>2, <3>1 DEF Left
  <2>6. QED  BY <1>5, <2>1, <2>2, <2>3, <2>4, <2>5 DEF Left
<1>6. QED  BY <1>3, <1>4, <1>5

(* A GET outside the locations begins with what it asks for.               *)
LEMMA StableArrival ==
  ASSUME NEW r \in Requests,
         Refuse(r) \/ methode_get(r) \/ methode_post(r) \/ methode_delete(r)
  PROVE  StableKept'
<1>1. request' = r /\ server' = server
  BY ArrivalEffect
<1>2. /\ Refused(request)' <=> Refused(r)
      /\ Governed(request)' <=> Governed(r)
  BY <1>1 DEF Refused, TooLarge, MisDeclared, SizeToCheck, MentionsPng, Governed, Location
<1> SUFFICES ASSUME Asking' PROVE pc' = "stat" /\ path' = Asked'
  BY DEF StableKept
<1>3. r.methode = "GET" /\ ~Refused(r) /\ ~Governed(r)
      /\ server.root # <<"default">>
  BY <1>1, <1>2 DEF Asking
<1>4. methode_get(r)
  BY <1>3 DEF Refuse, methode_post, methode_delete
<1>5. Starts(r, "stat", IF r.path = <<"/">> THEN FirstIndex(server)
                                            ELSE server.root \o r.path, <<>>)
  BY <1>3, <1>4 DEF methode_get, ToScript
<1>6. QED  BY <1>1, <1>5 DEF Starts, Asked, FirstIndex

(* A step from one system call to the next, or to the answer.              *)
LEMMA StableStep ==
  ASSUME Typed, StableKept, Asking, UNCHANGED <<server, request, disk, touched, received>>,
         \/ StatPath \/ TryIndex \/ Check \/ Open
  PROVE  StableKept'
<1>1. /\ Asked' = Asked
      /\ \A t : (Exists(t)' <=> Exists(t)) /\ (IsDir(t)' <=> IsDir(t))
                /\ Stat(t)' = Stat(t) /\ Standing(t)' = Standing(t)
      /\ \A f : FileAsked(f)' <=> FileAsked(f)
  BY StableSight
<1>2. \A step : Goes(step) => pc' = step
  BY DEF Goes
<1>3. \A status : Fails(status) => /\ pc' = "idle" /\ reply' = Replied(status)
                                   /\ UNCHANGED path
  BY DEF Fails, Answer, work
<1>4. ASSUME NEW file, FileAsked(file), pc' = "idle",
             ~LooksLikeScript(Stat(file).data) => reply' = Standing(file)
      PROVE  StableKept'
  BY <1>1, <1>4 DEF StableKept
<1>5. CASE StatPath
  <2>1. pc = "stat" /\ path = Asked /\ UNCHANGED path
    BY <1>5 DEF StatPath, StableKept
  <2>2. CASE IsDir(Asked)
    <3>1. pc' = "index" /\ todo' = IndexPaths(server.index, Append(Asked, "/"))
      BY <1>2, <1>5, <2>1, <2>2 DEF StatPath
    <3>2. Left(0)'
      BY <3>1, AllCandidatesLeft
    <3>3. IsDir(Asked)' /\ \E k : Left(k)'
      BY <1>1, <2>2, <3>2
    <3>4. QED  BY <3>1, <3>3 DEF StableKept
  <2>3. CASE ~IsDir(Asked)
    <3>1. pc' = "check" /\ path' = Asked
      BY <1>2, <1>5, <2>1, <2>3 DEF StatPath
    <3>2. FileAsked(Asked)
      BY <2>3 DEF FileAsked
    <3>3. FileAsked(path)'
      BY <1>1, <3>1, <3>2 DEF FileAsked
    <3>4. QED  BY <3>1, <3>3 DEF StableKept
  <2>4. QED  BY <2>2, <2>3
<1>6. CASE TryIndex
  <2>1. pc = "index" /\ IsDir(Asked) /\ ~Governed(request)
    BY <1>6 DEF TryIndex, StableKept, Asking
  <2>2. PICK k : Left(k)
    BY <2>1 DEF StableKept
  <2>3. k \in Nat /\ Len(todo) \in Nat /\ Len(todo) + k = Len(server.index)
        /\ \A i \in 1 .. k : ~Exists(Candidate(i))
    BY LenProperties, <2>2 DEF Left
  <2>4. DOMAIN server.index = 1 .. Len(server.index)
    BY ServersAssumption, LenProperties DEF Typed
  <2>5. CASE /\ todo # <<>> /\ Exists(Head(todo))
             /\ path' = Head(todo) /\ Goes("check")
    <3>1. k + 1 \in DOMAIN server.index /\ Head(todo) = Candidate(k + 1)
      BY <2>2, <2>5, OneCandidateLess
    <3>2. \A j \in DOMAIN server.index : j < k + 1 => j \in 1 .. k
      BY <2>3, <2>4
    <3>3. FirstIs(k + 1)
      BY <2>3, <2>5, <3>1, <3>2 DEF FirstIs
    <3>4. FileAsked(path')
      BY <2>1, <2>5, <3>1, <3>3 DEF FileAsked
    <3>5. FileAsked(path)'
      BY <1>1, <3>4
    <3>6. QED  BY <1>2, <2>5, <3>5 DEF StableKept
  <2>6. CASE /\ todo # <<>> /\ ~Exists(Head(todo))
             /\ todo' = Tail(todo) /\ Goes("index")
    <3>1. Left(k + 1)'
      BY <2>2, <2>6, OneCandidateLess
    <3>2. IsDir(Asked)' /\ \E l : Left(l)'
      BY <1>1, <2>1, <3>1
    <3>3. QED  BY <1>2, <2>6, <3>2 DEF StableKept
  <2>7. CASE todo = <<>> /\ Fails("403")
    <3>1. k = Len(server.index)
      BY <2>3, <2>7
    <3>2. FileAsked(Asked)
      BY <2>3, <2>4, <3>1 DEF FileAsked, Missing
    <3>3. Exists(Asked)
      BY <2>1 DEF IsDir, Exists
    <3>4. Standing(Asked) = Replied("403")
      BY <2>1, <3>3 DEF Standing
    <3>5. QED  BY <1>3, <1>4, <2>7, <3>2, <3>4
  <2>8. QED  BY <1>6, <2>1, <2>5, <2>6, <2>7 DEF TryIndex
<1>7. CASE Check
  <2>1. pc \in {"check", "read"} /\ FileAsked(path)
    BY <1>7 DEF Check, StableKept
  <2>2. CASE Fails("404") /\ ~Exists(path)
    BY <1>3, <1>4, <2>1, <2>2 DEF Standing
  <2>3. CASE Fails("403") /\ Exists(path) /\ IsDir(path)
    BY <1>3, <1>4, <2>1, <2>3 DEF Standing
  <2>4. CASE (Goes("read") \/ (Goes("open") /\ ~IsDir(path))) /\ Exists(path) /\ UNCHANGED path
    <3>1. FileAsked(path)' /\ Exists(path)' /\ (IsDir(path)' <=> IsDir(path))
      BY <1>1, <2>1, <2>4 DEF FileAsked, Exists, IsDir, Stat
    <3>2. QED  BY <1>2, <2>4, <3>1 DEF StableKept
  <2>5. CASE ~Exists(path)
    BY <1>7, <2>2, <2>5 DEF Check
  <2>6. CASE Exists(path) /\ pc = "check"
    <3>1. Goes("read") /\ UNCHANGED path
      BY <1>7, <2>6 DEF Check, work
    <3>2. QED  BY <2>4, <2>6, <3>1
  <2>7. CASE Exists(path) /\ pc = "read"
    <3>1. \/ IsDir(path) /\ Fails("403")
          \/ ~IsDir(path) /\ Goes("open") /\ UNCHANGED path
      BY <1>7, <2>7 DEF Check, work
    <3>2. QED  BY <2>3, <2>4, <2>7, <3>1
  <2>8. QED  BY <2>1, <2>5, <2>6, <2>7
<1>8. CASE Open
  <2>1. FileAsked(path) /\ Exists(path) /\ ~IsDir(path)
    BY <1>8 DEF Open, StableKept
  <2>2. CASE NodeOf(path) \in Denied
    <3>1. Fails("404") /\ Standing(path) = Replied("404")
      BY <1>8, <2>1, <2>2 DEF Open, Standing
    <3>2. QED  BY <1>3, <1>4, <2>1, <3>1
  <2>3. CASE NodeOf(path) \notin Denied
    <3>1. Answer([Replied("page") EXCEPT !.data = BodySent(Stat(path).data)])
      BY <1>8, <2>1, <2>3 DEF Open
    <3>2. ~LooksLikeScript(Stat(path).data) => BodySent(Stat(path).data) = Stat(path).data
      BY DEF BodySent
    <3>3. Standing(path) = [Replied("page") EXCEPT !.data = Stat(path).data]
      BY <2>1, <2>3 DEF Standing
    <3>4. pc' = "idle" /\ reply' = [Replied("page") EXCEPT !.data = BodySent(Stat(path).data)]
      BY <3>1 DEF Answer
    <3>5. ~LooksLikeScript(Stat(path).data) => reply' = Standing(path)
      BY <3>2, <3>3, <3>4
    <3>6. QED  BY <1>4, <2>1, <3>4, <3>5
  <2>4. QED  BY <2>2, <2>3
<1>9. QED  BY <1>5, <1>6, <1>7, <1>8

LEMMA StableKeptStep ==
  ASSUME Typed, StableKept, [Next]_vars
  PROVE  StableKept'
<1>1. CASE \E r \in Requests :
             Refuse(r) \/ methode_get(r) \/ methode_post(r) \/ methode_delete(r)
  BY <1>1, StableArrival
<1>2. ASSUME UNCHANGED <<server, request, touched>>, ~Asking
      PROVE  StableKept'
  <2>1. ~Asking'
    BY <1>2 DEF Asking, Refused, TooLarge, MisDeclared, SizeToCheck, MentionsPng, Governed, Location
  <2>2. QED  BY <2>1 DEF StableKept
<1>3. CASE \/ StatPath \/ TryIndex \/ Fallback \/ Check \/ Open \/ ListStat \/ OpenDir \/ Listed
           \/ (\E n \in Nodes : SortEntry(n) \/ ShowEntry(n))
           \/ UploadStat \/ DeleteStat
  <2>1. UNCHANGED <<server, request, disk, touched, received>>
    BY <1>3, LookingEffect DEF Looked
  <2>2. CASE ~Asking
    BY <1>2, <2>1, <2>2
  <2>3. CASE Asking
    <3>1. pc \in {"idle", "stat", "index", "check", "read", "open"}
      BY <2>3 DEF StableKept
    <3>2. StatPath \/ TryIndex \/ Check \/ Open
      BY <1>3, <3>1 DEF Fallback, ListStat, OpenDir, Listed, SortEntry, ShowEntry,
                        UploadStat, DeleteStat
    <3>3. QED  BY <2>1, <2>3, <3>2, StableStep
  <2>4. QED  BY <2>2, <2>3
<1>4. CASE UploadMkdir \/ UploadOpen \/ UploadWrite \/ DeleteRemove
  <2>1. /\ pc \in {"mkdir", "create", "write", "remove"}
        /\ UNCHANGED <<server, request, touched>>
    BY <1>4, UploadEffect DEF Looked
  <2>2. QED  BY <1>2, <2>1 DEF StableKept
<1>5. CASE \E n \in Nodes : OthersChange(n)
  <2>1. touched' # {}
    BY <1>5, OthersEffect
  <2>2. QED  BY <2>1 DEF StableKept, Asking
<1>6. CASE UNCHANGED vars
  <2>1. UNCHANGED <<server, request, disk, touched, received, pc, path, todo, reply>>
    BY <1>6 DEF vars, work, history
  <2>2. /\ Asked' = Asked /\ Candidates' = Candidates
        /\ \A i : Candidate(i)' = Candidate(i)
        /\ \A t : (Exists(t)' <=> Exists(t)) /\ (IsDir(t)' <=> IsDir(t))
                  /\ Stat(t)' = Stat(t) /\ Standing(t)' = Standing(t)
        /\ \A f : FileAsked(f)' <=> FileAsked(f)
        /\ Asking' <=> Asking
    BY <2>1, StableSight
  <2>3. \A k : Left(k)' <=> Left(k)
    BY <2>1, <2>2 DEF Left
  <2>4. QED  BY <2>1, <2>2, <2>3 DEF StableKept
<1>7. QED  BY <1>1, <1>3, <1>4, <1>5, <1>6 DEF Next

(* A GET outside the locations, while nobody touches the site, is answered *)
(* with what stands where it asks, "/" asking for the first index.         *)
THEOREM StableSitesAnswer == Spec => []StableSiteAnswer
<1>1. Init => StableKept
  BY DEF Init, StableKept
<1>2. QED
  BY <1>1, TypedInit, TypedStep, StableKeptStep, StableIsAnswered, PTL DEF Spec

-----------------------------------------------------------------------------
(* Uploading.                                                              *)

UploadNode == NodeOf(UploadPath)

OthersAsBefore ==
  \A n \in Untouched \ {UploadNode} :
    disk[n] # before[n] => n = NodeOf(UploadDir) /\ before[n] = Absent

(* The file is where output says, until another process takes it away; it  *)
(* holds the content unless the disk was full.                             *)
UploadKept ==
  /\ pc \in {"upload", "mkdir", "create", "write"} =>
       path = UploadPath /\ FirstPart(request.body).status # "400"
  /\ pc = "write" =>
       /\ output \in {UploadNode, NoNode}
       /\ UploadNode \in Untouched => output = UploadNode
       /\ OthersAsBefore
  /\ pc = "idle" /\ reply.status = "uploaded" =>
       /\ FirstPart(request.body).status # "400"
       /\ UploadNode \in Untouched /\ ~full =>
            disk[UploadNode] = File(FirstPart(request.body).content)
       /\ OthersAsBefore

LEMMA UploadArrival ==
  ASSUME NEW r \in Requests,
         Refuse(r) \/ methode_get(r) \/ methode_post(r) \/ methode_delete(r)
  PROVE  pc' = "upload" => FirstPart(r.body).status # "400"
<1>1. ASSUME NEW a, AnswersAtOnce(r, a)
      PROVE  pc' = "idle"
  BY <1>1 DEF AnswersAtOnce
<1>2. ASSUME NEW step, NEW text, NEW candidates, Starts(r, step, text, candidates)
      PROVE  pc' = step
  BY <1>2 DEF Starts
<1>3. Refuse(r) => pc' = "idle"
  BY <1>1 DEF Refuse
<1>4. methode_get(r) => pc' \in {"idle", "stat", "index"}
  BY <1>1, <1>2 DEF methode_get
<1>5. methode_post(r) => pc' = "idle" \/ FirstPart(r.body).status # "400"
  BY <1>1, <1>2 DEF methode_post
<1>6. methode_delete(r) => pc' \in {"idle", "delete"}
  BY <1>1, <1>2 DEF methode_delete
<1>7. QED  BY <1>3, <1>4, <1>5, <1>6

LEMMA UploadKeptStep ==
  ASSUME Typed, DiskKept, UploadKept, [Next]_vars
  PROVE  UploadKept'
<1>0. UNCHANGED <<server, request>> => UploadPath' = UploadPath /\ UploadNode' = UploadNode
                                       /\ UploadDir' = UploadDir
  BY DEF UploadPath, UploadDir, UploadNode
<1>1. CASE \E r \in Requests :
             Refuse(r) \/ methode_get(r) \/ methode_post(r) \/ methode_delete(r)
  <2>1. PICK r \in Requests :
          Refuse(r) \/ methode_get(r) \/ methode_post(r) \/ methode_delete(r)
    BY <1>1
  <2>2. request' = r /\ (pc' = "upload" => path' = UploadPath')
    BY <2>1, ArrivalEffect, ArrivalPaths
  <2>3. \/ pc' = "idle" /\ reply'.status # "uploaded"
        \/ pc' \in {"stat", "index", "upload", "delete"}
    BY <2>1, ArrivalEffect
  <2>4. pc' = "upload" => FirstPart(r.body).status # "400"
    BY <2>1, UploadArrival
  <2>5. QED  BY <2>2, <2>3, <2>4 DEF UploadKept
<1>2. CASE \/ StatPath \/ TryIndex \/ Fallback \/ Check \/ Open \/ ListStat \/ OpenDir \/ Listed
           \/ (\E n \in Nodes : SortEntry(n) \/ ShowEntry(n))
           \/ UploadStat \/ DeleteStat
  <2>1. Looked
    BY <1>2, LookingEffect
  <2>2. UNCHANGED <<server, request>> /\ pc' # "write"
        /\ ~(pc' = "idle" /\ reply'.status = "uploaded")
    BY <2>1 DEF Looked
  <2>3. pc' \in {"upload", "mkdir", "create"} => pc = "upload" /\ UNCHANGED path
    BY <1>2, LookingMoves DEF UploadStat
  <2>4. QED  BY <1>0, <2>2, <2>3 DEF UploadKept
<1>3. CASE UploadMkdir
  BY <1>0, <1>3, UploadEffect DEF UploadKept, work, Looked
<1>4. CASE UploadOpen
  <2>1. CASE pc' = "idle" /\ reply'.status = "500"
    BY <2>1 DEF UploadKept
  <2>2. CASE ~(pc' = "idle" /\ reply'.status = "500")
    <3>1. /\ pc = "create" /\ pc' = "write" /\ NodeOf(path) \in Nodes
          /\ disk' = [disk EXCEPT ![NodeOf(path)] = File(<<>>)]
          /\ output' = NodeOf(path)
          /\ UNCHANGED <<server, request, before, touched, path>>
      BY <1>4, <2>2, UploadEffect DEF Fits
    <3>2. path = UploadPath /\ FirstPart(request.body).status # "400" /\ NewDirOnly
      BY <3>1 DEF UploadKept, DiskKept
    <3>3. \A n \in Nodes \ {UploadNode} : disk'[n] = disk[n]
      BY <3>1, <3>2 DEF Typed, IsTree, UploadNode
    <3>4. OthersAsBefore'
      BY <1>0, <3>1, <3>2, <3>3 DEF OthersAsBefore, NewDirOnly, Untouched
    <3>5. output' = UploadNode' /\ path' = UploadPath'
      BY <1>0, <3>1, <3>2 DEF UploadNode
    <3>6. QED  BY <3>1, <3>2, <3>4, <3>5 DEF UploadKept
  <2>3. QED  BY <2>1, <2>2
<1>5. CASE UploadWrite
  <2> DEFINE content == FirstPart(request.body).content
  <2>1. PICK stored :
          /\ full' = (stored # content)
          /\ \/ output = NoNode /\ UNCHANGED disk
             \/ output # NoNode /\ output \in Nodes /\ disk' = [disk EXCEPT ![output] = File(stored)]
    BY <1>5, UploadEffect DEF Fits
  <2>2. /\ pc = "write" /\ pc' = "idle" /\ reply'.status = "uploaded"
        /\ UNCHANGED <<server, request, before, touched>>
    BY <1>5, UploadEffect
  <2>3. /\ output \in {UploadNode, NoNode} /\ OthersAsBefore
        /\ UploadNode \in Untouched => output = UploadNode
        /\ FirstPart(request.body).status # "400"
    BY <2>2 DEF UploadKept
  <2>4. \A n \in Nodes : disk'[n] = IF output # NoNode /\ n = output THEN File(stored) ELSE disk[n]
    BY <2>1 DEF Typed, IsTree
  <2>5. OthersAsBefore'
    BY <1>0, <2>2, <2>3, <2>4 DEF OthersAsBefore, Untouched
  <2>6. ASSUME UploadNode \in Untouched, ~full'
        PROVE  disk'[UploadNode] = File(content)
    <3>1. output = UploadNode /\ UploadNode \in Nodes /\ UploadNode # NoNode
      BY <2>3, <2>6, NodesAssumption DEF Untouched
    <3>2. stored = content
      BY <2>1, <2>6
    <3>3. QED  BY <2>4, <3>1, <3>2
  <2>7. UploadNode' = UploadNode /\ Untouched' = Untouched /\ request' = request
    BY <1>0, <2>2 DEF Untouched
  <2>8. QED  BY <2>2, <2>3, <2>5, <2>6, <2>7 DEF UploadKept
<1>6. CASE DeleteRemove
  BY <1>6, UploadEffect DEF UploadKept
<1>7. CASE \E n \in Nodes : OthersChange(n)
  <2>1. PICK n \in Nodes : OthersChange(n)
    BY <1>7
  <2>2. /\ \E x : disk' = [disk EXCEPT ![n] = x]
        /\ touched' = touched \cup {n} /\ pc # "idle"
        /\ output' = IF output = n THEN NoNode ELSE output
        /\ UNCHANGED <<server, request, pc, path, reply, before, full>>
    BY <2>1, OthersEffect
  <2>3. \A m \in Untouched' : m \in Untouched /\ m # n /\ disk'[m] = disk[m]
    BY <2>2 DEF Typed, IsTree, Untouched
  <2>4. OthersAsBefore => OthersAsBefore'
    BY <1>0, <2>2, <2>3 DEF OthersAsBefore
  <2>5. QED  BY <1>0, <2>2, <2>3, <2>4 DEF UploadKept
<1>8. CASE UNCHANGED vars
  BY <1>0, <1>8 DEF vars, work, history, UploadKept, OthersAsBefore, Untouched
<1>9. QED  BY <1>1, <1>2, <1>3, <1>4, <1>5, <1>6, <1>7, <1>8 DEF Next

(* After "Upload Done!" the file is what the client sent.                  *)
THEOREM UploadsAreStored == Spec => []UploadStored
<1>1. Init => DiskKept /\ UploadKept
  BY DEF Init, DiskKept, SiteUnchanged, NewDirOnly, UploadKept, Replied
<1>2. Typed /\ UploadKept => UploadStored
  <2> SUFFICES ASSUME Typed, UploadKept, Replying("uploaded"),
                      request.body = MultipartBody(request.fields)
               PROVE  LET node == NodeOf(Append(UploadDir, Filename[request.fields[1].key[1]])) IN
                      /\ node \in Untouched /\ ~full =>
                           disk[node] = File(request.fields[1].value)
                      /\ \A n \in Untouched \ {node} :
                           disk[n] # before[n] => n = NodeOf(UploadDir) /\ before[n] = Absent
    BY DEF UploadStored
  <2>1. FirstPart(request.body).status # "400"
    BY DEF UploadKept, Replying
  <2>2. request.fields \in Seq(Part)
    BY FieldsAssumption DEF Typed
  <2>3. /\ FirstPart(request.body).name = Filename[request.fields[1].key[1]]
        /\ FirstPart(request.body).content = request.fields[1].value
    BY <2>1, <2>2, FirstFileIsRead
  <2>4. UploadNode = NodeOf(Append(UploadDir, Filename[request.fields[1].key[1]]))
    BY <2>3 DEF UploadNode, UploadPath
  <2>5. QED  BY <2>3, <2>4 DEF UploadKept, Replying, OthersAsBefore
<1>3. QED
  BY <1>1, <1>2, TypedInit, TypedStep, DiskKeptStep, UploadKeptStep, PTL DEF Spec

-----------------------------------------------------------------------------
(* The fields of a form.                                                   *)

IsPopup(status) == status \in {"form", "garbled"}
FormKept ==
  pc = "idle" /\ IsPopup(reply.status) => reply = Popup(parseFormData(request.body))

LEMMA FormArrival ==
  ASSUME NEW r \in Requests,
         Refuse(r) \/ methode_get(r) \/ methode_post(r) \/ methode_delete(r)
  PROVE  pc' = "idle" /\ IsPopup(reply'.status) => reply' = Popup(parseFormData(r.body))
<1> DEFINE page == Popup(parseFormData(r.body))
           Said == pc' = "idle" /\ IsPopup(reply'.status) => reply' = page
<1> HIDE DEF page
<1>1. ASSUME NEW a, AnswersAtOnce(r, a), ~IsPopup(a.status) \/ a = page
      PROVE  Said
  BY <1>1 DEF AnswersAtOnce
<1>2. ASSUME NEW step \in {"stat", "index", "upload", "delete"}, NEW text, NEW candidates,
             Starts(r, step, text, candidates)
      PROVE  Said
  BY <1>2 DEF Starts
<1>3. \A status : Replied(status).status = status
  BY DEF Replied
<1>4. \A status \in {"413", "405", "500", "script", "redirect", "400", "403"} :
        ~IsPopup(Replied(status).status)
  BY <1>3 DEF IsPopup
<1> HIDE DEF Said
<1>5. Refuse(r) => Said
  BY <1>1, <1>4 DEF Refuse
<1>6. methode_get(r) => Said
  BY <1>1, <1>2, <1>4 DEF methode_get
<1>7. ASSUME methode_post(r) PROVE Said
  <2> DEFINE name == FirstPart(r.body).name
  <2>1. \/ AnswersAtOnce(r, Replied("script")) \/ AnswersAtOnce(r, page)
        \/ AnswersAtOnce(r, Replied("400"))
        \/ Starts(r, "upload", Append(UploadDir, name), <<>>)
    BY <1>7 DEF methode_post, page
  <2> HIDE DEF name
  <2>2. QED  BY <1>1, <1>2, <1>4, <2>1
<1>8. methode_delete(r) => Said
  BY <1>1, <1>2, <1>4 DEF methode_delete
<1>9. QED  BY <1>5, <1>6, <1>7, <1>8 DEF Said, page

LEMMA FormKeptStep ==
  ASSUME Typed, FormKept, [Next]_vars
  PROVE  FormKept'
<1>1. CASE \E r \in Requests :
             Refuse(r) \/ methode_get(r) \/ methode_post(r) \/ methode_delete(r)
  <2>1. PICK r \in Requests :
          Refuse(r) \/ methode_get(r) \/ methode_post(r) \/ methode_delete(r)
    BY <1>1
  <2>2. request' = r
    BY <2>1, ArrivalEffect
  <2>3. QED  BY <2>1, <2>2, FormArrival DEF FormKept
<1>2. CASE \/ StatPath \/ TryIndex \/ Fallback \/ Check \/ Open \/ ListStat \/ OpenDir \/ Listed
           \/ (\E n \in Nodes : SortEntry(n) \/ ShowEntry(n))
           \/ UploadStat \/ DeleteStat
  BY <1>2, LookingEffect DEF Looked, FormKept, IsPopup
<1>3. CASE UploadMkdir \/ UploadOpen \/ UploadWrite \/ DeleteRemove
  BY <1>3, UploadEffect DEF Looked, FormKept, IsPopup
<1>4. CASE \E n \in Nodes : OthersChange(n)
  BY <1>4, OthersEffect DEF FormKept
<1>5. CASE UNCHANGED vars
  BY <1>5 DEF vars, FormKept
<1>6. QED  BY <1>1, <1>2, <1>3, <1>4, <1>5 DEF Next

(* If all that was filled in can be quoted, so can what is made of it.     *)
LEMMA FormsStayQuotable ==
  ASSUME NEW fields \in Seq(Field), NEW data, ReadAs(data, fields, Len(fields)),
         \A i \in DOMAIN fields : Quotable(fields[i].key) /\ Quotable(fields[i].value),
         NEW key \in DOMAIN data
  PROVE  Quotable(key) /\ Quotable(data[key])
<1> DEFINE n == Len(fields)
           places == {i \in 1 .. n : fields[i].key = key}
<1>1. n \in Nat /\ DOMAIN fields = 1 .. n
  BY LenProperties
<1>2. places # {} /\ places \subseteq 1 .. n
  BY <1>1 DEF ReadAs
<1>3. PICK i \in places : \A j \in places : j <= i
  BY <1>1, <1>2, GreatestNumber
<1>4. i \in 1 .. n /\ fields[i].key = key
  OBVIOUS
<1>5. ~\E j \in 1 .. n : j > i /\ fields[j].key = fields[i].key
  BY <1>1, <1>3
<1>6. data[key] = fields[i].value
  BY <1>4, <1>5 DEF ReadAs
<1>7. QED  BY <1>1, <1>4, <1>6

(* A form is shown with the fields the client filled in, if they can be    *)
(* quoted.                                                                 *)
THEOREM FormsAreShown == Spec => []FormShown
<1>1. Init => FormKept
  BY DEF Init, FormKept, IsPopup, Replied
<1>2. Typed /\ FormKept => FormShown
  <2> DEFINE fields == request.fields
             data == parseFormData(request.body)
  <2> SUFFICES ASSUME Typed, FormKept, Replying("form") \/ Replying("garbled"),
                      request.body = FormBody(fields)
               PROVE  /\ (\A i \in DOMAIN fields :
                              Quotable(fields[i].key) /\ Quotable(fields[i].value))
                           => reply.status = "form"
                      /\ reply.status = "form" =>
                           /\ DOMAIN reply.fields = {fields[i].key : i \in DOMAIN fields}
                           /\ \A i \in DOMAIN fields :
                                \/ reply.fields[fields[i].key] = fields[i].value
                                \/ \E j \in DOMAIN fields :
                                     j > i /\ fields[j].key = fields[i].key
    BY DEF FormShown
  <2>1. fields \in Seq(Field)
    BY FieldsAssumption DEF Typed
  <2>2. reply = Popup(data)
    BY DEF FormKept, IsPopup, Replying
  <2>3. DOMAIN fields = 1 .. Len(fields)
    BY <2>1, LenProperties
  <2>4. ReadAs(data, fields, Len(fields))
    BY <2>1, FormIsRead
  <2> HIDE DEF fields, data
  <2>5. /\ reply.status \in {"form", "garbled"}
        /\ reply.status = "form" => reply.fields = data
        /\ reply.status = "garbled" =>
             \E key \in DOMAIN data : ~(Quotable(key) /\ Quotable(data[key]))
    BY <2>2, PopupIs
  <2>6. (\A i \in DOMAIN fields : Quotable(fields[i].key) /\ Quotable(fields[i].value))
          => reply.status = "form"
    BY <2>1, <2>4, <2>5, FormsStayQuotable, Zenon
  <2>7. QED  BY <2>3, <2>4, <2>5, <2>6 DEF ReadAs
<1>3. QED  BY <1>1, <1>2, TypedInit, TypedStep, FormKeptStep, PTL DEF Spec

=============================================================================
