----------------------------- MODULE Config_proofs -----------------------------
(***************************************************************************)
(* The configuration parser, for files of every length: the map it returns *)
(* has one port per server, no directive is applied to a location that is  *)
(* not there, and no single line whose braces are misread passes in a file *)
(* whose blocks balance.                                                   *)
(***************************************************************************)
EXTENDS Config, TLAPS

(* Every port in the map is in used_ports, the current server's too, and   *)
(* while its block is open no server of the map has it.                    *)
PortsAreUsed ==
  /\ \A id \in DOMAIN serverMap : serverMap[id].port \in used_ports
  /\ current_server.port \in used_ports \cup {0}
  /\ outcome = "reading" /\ in_server_block =>
       \A id \in DOMAIN serverMap : serverMap[id].port # current_server.port

(* The map holds the servers whose blocks have ended.                      *)
MapFilled ==
  outcome = "reading" =>
    /\ in_server_block => server_count >= 1
    /\ DOMAIN serverMap =
         1 .. (IF in_server_block THEN server_count - 1 ELSE server_count)

(* A server is read exactly while the counter is not back at 0.  The        *)
(* counter is the number of the text's open blocks until a line is         *)
(* misread; from then on it is one too high or one too low.                *)
Counting ==
  outcome = "reading" =>
    /\ in_server_block <=> brace_level >= 1
    /\ misread = 0 => ~unmatched /\ brace_level = Len(open)
    /\ misread = 1 /\ ~unmatched =>
         brace_level = Len(open) + 1 \/ brace_level + 1 = Len(open)

IInv ==
  /\ TypeOK
  /\ PortsUnique
  /\ LocationExists
  /\ Counting
  /\ AcceptedFilesBalance
  /\ DirectiveInItsBlockUntilClose
  /\ PortsAreUsed
  /\ MapFilled

-----------------------------------------------------------------------------

(* What clear() and a location's start set is typed, and a location is not *)
(* NULL.                                                                   *)
LEMMA FreshTyped ==
  /\ NewLocation \in LocationData /\ NewLocation # NULL
  /\ cleared \in Parsing_class /\ cleared.port = 0
<1>1. NewLocation \in LocationData /\ NewLocation # NULL
  BY NULLAssumption DEF NewLocation, LocationData
<1>2. [n \in Names \cap ServerNames |-> {}]
        \in [Names \cap ServerNames -> SUBSET Values]
  OBVIOUS
<1>3. [p \in Paths |-> NULL] \in [Paths -> LocationData \cup {NULL}]
  OBVIOUS
<1>4. QED  BY <1>1, <1>2, <1>3 DEF cleared, Parsing_class

(* A counter of braces stays one.                                          *)
LEMMA NextNat ==
  \A n \in Nat : /\ n + 1 \in Nat /\ n + 1 # 0 /\ n + 1 >= 1
                 /\ n + 1 = 1 => n = 0
OBVIOUS

(* Appending to a sequence puts the element at its end.                    *)
LEMMA AppendGrows ==
  ASSUME NEW S, NEW q \in Seq(S), NEW e \in S
  PROVE  /\ Append(q, e) \in Seq(S)
         /\ Len(Append(q, e)) = Len(q) + 1
         /\ Append(q, e)[Len(q) + 1] = e
         /\ Append(q, e) # <<>>
OBVIOUS

(* So does cutting some elements off, down to none.                        *)
LEMMA PoppedShrinks ==
  ASSUME NEW S, NEW q \in Seq(S), NEW n \in 0 .. 2
  PROVE  /\ Popped(q, n) \in Seq(S)
         /\ n <= Len(q) => Len(Popped(q, n)) = Len(q) - n
<1>1. CASE n <= Len(q)
  <2>1. Len(q) - n \in Nat /\ Len(q) - n <= Len(q) /\ Len(q) \in Nat
    BY <1>1
  <2>2. Popped(q, n) = [i \in 1 .. (Len(q) - n) |-> q[i]]
    BY <2>1 DEF Popped
  <2>3. \A i \in 1 .. (Len(q) - n) : q[i] \in S
    BY <2>1
  <2>4. QED  BY <2>1, <2>2, <2>3
<1>2. CASE ~(n <= Len(q))
  <2>1. 1 .. (Len(q) - n) = {}
    BY <1>2
  <2>2. Popped(q, n) = [i \in 1 .. (Len(q) - n) |-> q[i]]
    BY DEF Popped
  <2>3. Popped(q, n) = <<>>
    <3>1. Popped(q, n) = [i \in {} |-> q[i]]
      BY <2>1, <2>2, Zenon
    <3>2. QED  BY <3>1
  <2>4. QED  BY <1>2, <2>3
<1>3. QED  BY <1>1, <1>2

(* What the invariant says of the braces while lines are read.             *)
LEMMA CountedSoFar ==
  ASSUME IInv, outcome = "reading"
  PROVE  /\ brace_level \in Nat /\ misread \in Nat /\ Len(open) \in Nat
         /\ open \in Seq(Paths \cup {"server"})
         /\ in_server_block <=> brace_level >= 1
         /\ misread = 0 => ~unmatched /\ brace_level = Len(open)
         /\ misread = 1 /\ ~unmatched =>
              brace_level = Len(open) + 1 \/ brace_level + 1 = Len(open)
<1>1. /\ brace_level \in Nat /\ misread \in Nat
      /\ open \in Seq(Paths \cup {"server"})
  BY DEF IInv, TypeOK
<1>2. Len(open) \in Nat
  <2> DEFINE K == Paths \cup {"server"}
  <2>1. open \in Seq(K)
    BY <1>1
  <2> HIDE DEF K
  <2>2. QED  BY <2>1
<1>3. Counting
  BY DEF IInv
<1>4. QED  BY <1>1, <1>2, <1>3, Zenon DEF Counting

(* A line adds at most one to the lines misread.                           *)
LEMMA CountsCounts ==
  ASSUME misread \in Nat, NEW rightly, Counts(rightly)
  PROVE  /\ misread' \in Nat
         /\ rightly => misread' = misread
         /\ ~rightly => misread' = misread + 1
<1>1. misread + 1 \in Nat
  OBVIOUS
<1>2. QED  BY <1>1 DEF Counts

(* An exception leaves an empty map and ends the reading.                  *)
LEMMA ThrowPreserves ==
  ASSUME IInv, Throw
  PROVE  IInv'
<1>1. serverMap' = <<>> /\ DOMAIN serverMap' = {} /\ outcome' = "rejected"
  BY DEF Throw
<1>2. TypeOK'
  BY <1>1 DEF Throw, flags, text, IInv, TypeOK
<1>3. /\ PortsUnique' /\ LocationExists' /\ Counting' /\ AcceptedFilesBalance'
      /\ DirectiveInItsBlockUntilClose'
  BY <1>1 DEF PortsUnique, LocationExists, Counting, AcceptedFilesBalance,
              DirectiveInItsBlockUntilClose
<1>4. PortsAreUsed' /\ MapFilled'
  BY <1>1 DEF Throw, IInv, PortsAreUsed, MapFilled
<1>5. QED  BY <1>2, <1>3, <1>4 DEF IInv

(* A step that leaves all as it is.                                        *)
LEMMA StutterPreserves ==
  ASSUME IInv, UNCHANGED vars
  PROVE  IInv'
<1>1. TypeOK' /\ PortsUnique' /\ LocationExists'
  BY DEF vars, flags, text, IInv, TypeOK, PortsUnique, LocationExists
<1>2. Counting' /\ AcceptedFilesBalance' /\ DirectiveInItsBlockUntilClose'
  BY DEF vars, flags, text, IInv, Counting, AcceptedFilesBalance, Balanced,
         DirectiveInItsBlockUntilClose, Target
<1>3. PortsAreUsed' /\ MapFilled'
  BY DEF vars, flags, IInv, PortsAreUsed, MapFilled
<1>4. QED  BY <1>1, <1>2, <1>3 DEF IInv

(* A block starts with port 0, which no server of the map has.             *)
LEMMA ServerBlockPreserves ==
  ASSUME IInv, NEW between, NEW oneline \in BOOLEAN,
         handleServerBlockStart(between, oneline)
  PROVE  IInv'
<1>1. CASE in_server_block \/ between # ""
  BY <1>1, ThrowPreserves DEF handleServerBlockStart
<1>2. CASE ~(in_server_block \/ between # "")
  <2>1. /\ outcome = "reading" /\ ~in_server_block /\ in_server_block' = TRUE
        /\ brace_level' = 1 /\ server_count' = server_count + 1
        /\ current_server' = cleared /\ closed' = oneline
        /\ open' = IF oneline THEN open ELSE Append(open, "server")
        /\ Counts(~oneline)
        /\ UNCHANGED <<in_location_block, current_location_path, used_ports,
                       serverMap, outcome, unmatched>>
    BY <1>2 DEF handleServerBlockStart
  <2>2. server_count \in Nat /\ DOMAIN serverMap = 1 .. server_count
    BY <2>1 DEF IInv, TypeOK, MapFilled
  <2>3. ~in_location_block
    BY <2>1 DEF IInv, LocationExists
  <2>10. /\ misread \in Nat /\ misread' \in Nat
         /\ ~oneline => misread' = misread
         /\ oneline => misread' = misread + 1
    <3>1. misread \in Nat
      BY DEF IInv, TypeOK
    <3>2. QED  BY <2>1, <3>1, CountsCounts
  <2>11. /\ open \in Seq(Paths \cup {"server"}) /\ brace_level = 0
         /\ misread = 0 => ~unmatched /\ Len(open) = 0
         /\ misread = 1 /\ ~unmatched => Len(open) = 1
         /\ Len(open) \in Nat
    <3>1. outcome = "reading" /\ ~in_server_block
      BY <2>1
    <3>2. /\ brace_level \in Nat /\ Len(open) \in Nat
          /\ ~(brace_level >= 1)
          /\ misread = 0 => ~unmatched /\ brace_level = Len(open)
          /\ misread = 1 /\ ~unmatched =>
               brace_level = Len(open) + 1 \/ brace_level + 1 = Len(open)
      BY <3>1, CountedSoFar, Zenon
    <3>3. open \in Seq(Paths \cup {"server"})
      BY <3>1, CountedSoFar, Zenon
    <3>4. brace_level = 0
      BY <3>2
    <3>5. Len(open) \in Nat
      BY <3>2, Zenon
    <3>6. misread = 0 => ~unmatched /\ Len(open) = 0
      BY <3>2, <3>4, Zenon
    <3>7. brace_level = Len(open) + 1 \/ brace_level + 1 = Len(open) => Len(open) = 1
      BY <3>4, <3>5
    <3>8. misread = 1 /\ ~unmatched => Len(open) = 1
      BY <3>2, <3>7, Zenon
    <3>9. QED  BY <3>3, <3>4, <3>5, <3>6, <3>8, Zenon
  <2>12. /\ Append(open, "server") \in Seq(Paths \cup {"server"})
         /\ Len(Append(open, "server")) = Len(open) + 1
         /\ Append(open, "server")[Len(open) + 1] = "server"
    <3> DEFINE K == Paths \cup {"server"}
    <3>1. open \in Seq(K) /\ "server" \in K
      BY <2>11
    <3> HIDE DEF K
    <3>2. /\ Append(open, "server") \in Seq(K)
          /\ Len(Append(open, "server")) = Len(open) + 1
          /\ Append(open, "server")[Len(open) + 1] = "server"
      BY <3>1, AppendGrows
    <3>3. QED  BY <3>2 DEF K
  <2>4. TypeOK'
    <3>1. /\ open' \in Seq(Paths \cup {"server"})
          /\ current_server' \in Parsing_class
      BY <2>1, <2>11, <2>12, FreshTyped
    <3>2. /\ server_count' \in Nat /\ brace_level' \in Nat
          /\ DOMAIN serverMap' \subseteq 1 .. server_count'
      BY <2>1, <2>2
    <3>3. \A id \in DOMAIN serverMap' : serverMap'[id] \in Parsing_class
      BY <2>1 DEF IInv, TypeOK
    <3>4. /\ in_server_block' \in BOOLEAN /\ closed' \in BOOLEAN
          /\ unmatched' \in BOOLEAN /\ misread' \in Nat
          /\ in_location_block' \in BOOLEAN
          /\ current_location_path' \in Paths \cup {""}
          /\ used_ports' \subseteq Ports
          /\ outcome' \in {"reading", "accepted", "rejected"}
      BY <2>1, <2>10 DEF IInv, TypeOK
    <3>5. QED  BY <3>1, <3>2, <3>3, <3>4 DEF TypeOK
  <2>5. PortsUnique'
    BY <2>1 DEF IInv, PortsUnique
  <2>6. LocationExists' /\ AcceptedFilesBalance'
    BY <2>1, <2>3 DEF LocationExists, AcceptedFilesBalance
  <2>13. DirectiveInItsBlockUntilClose'
    BY <2>1, <2>3, <2>10, <2>12 DEF DirectiveInItsBlockUntilClose, Target
  <2>14. Counting'
    BY <2>1, <2>10, <2>11, <2>12 DEF Counting
  <2>7. PortsAreUsed'
    <3>1. \A id \in DOMAIN serverMap : serverMap[id].port # 0
      <4>1. \A id \in DOMAIN serverMap : serverMap[id].port \in Ports
        BY DEF IInv, PortsUnique
      <4>2. \A p \in Ports : p # 0
        BY PortsAssumption
      <4>3. QED  BY <4>1, <4>2
    <3>2. QED  BY <2>1, <3>1, FreshTyped DEF IInv, PortsAreUsed
  <2>8. MapFilled'
    BY <2>1, <2>2 DEF MapFilled
  <2>9. QED  BY <2>4, <2>5, <2>6, <2>7, <2>8, <2>13, <2>14 DEF IInv
<1>3. QED  BY <1>1, <1>2

(* A location's start puts the location there its directives will change.  *)
LEMMA LocationBlockPreserves ==
  ASSUME IInv, NEW path, path \in Paths \cup {""},
         NEW oneline \in BOOLEAN, handleLocationBlock(path, oneline)
  PROVE  IInv'
<1>1. CASE ~in_server_block \/ path = ""
  BY <1>1, ThrowPreserves DEF handleLocationBlock
<1>2. CASE ~(~in_server_block \/ path = "")
  <2> DEFINE added == [current_server EXCEPT !._LocationMap[path] = NewLocation]
  <2>1. /\ path \in Paths /\ in_server_block /\ outcome = "reading"
        /\ current_location_path' = path /\ current_server' = added
        /\ in_location_block' = TRUE /\ brace_level' = brace_level + 1
        /\ open' = IF oneline THEN open ELSE Append(open, path)
        /\ closed' = (closed \/ oneline) /\ Counts(~oneline)
        /\ UNCHANGED <<in_server_block, server_count, used_ports, serverMap,
                       outcome, unmatched>>
    BY <1>2 DEF handleLocationBlock
  <2>2. /\ added \in Parsing_class
        /\ added.port = current_server.port
        /\ added._LocationMap[path] = NewLocation
    BY <2>1, FreshTyped DEF IInv, TypeOK, Parsing_class
  <2> HIDE DEF added
  <2>3. open \in Seq(Paths \cup {"server"}) /\ brace_level \in Nat
    BY <2>1 DEF IInv, TypeOK
  <2>11. /\ misread \in Nat /\ misread' \in Nat
         /\ ~oneline => misread' = misread
         /\ oneline => misread' = misread + 1
    <3>1. misread \in Nat
      BY DEF IInv, TypeOK
    <3>2. QED  BY <2>1, <3>1, CountsCounts
  <2>4. /\ Append(open, path) \in Seq(Paths \cup {"server"})
        /\ Len(Append(open, path)) = Len(open) + 1
        /\ Append(open, path)[Len(open) + 1] = path
        /\ Append(open, path) # <<>>
    <3> DEFINE K == Paths \cup {"server"}
    <3>1. open \in Seq(K) /\ path \in K
      BY <2>1, <2>3
    <3> HIDE DEF K
    <3>2. /\ Append(open, path) \in Seq(K)
          /\ Len(Append(open, path)) = Len(open) + 1
          /\ Append(open, path)[Len(open) + 1] = path
          /\ Append(open, path) # <<>>
      BY <3>1, AppendGrows
    <3>3. QED  BY <3>2 DEF K
  <2>5. TypeOK'
    <3>1. brace_level' \in Nat
      <4>1. brace_level \in Nat /\ brace_level' = brace_level + 1
        BY <2>1 DEF IInv, TypeOK
      <4>2. QED  BY <4>1, NextNat, Zenon
    <3>2. /\ open' \in Seq(Paths \cup {"server"})
          /\ current_server' \in Parsing_class
      BY <2>1, <2>2, <2>3, <2>4
    <3>3. /\ server_count' \in Nat
          /\ DOMAIN serverMap' \subseteq 1 .. server_count'
          /\ \A id \in DOMAIN serverMap' : serverMap'[id] \in Parsing_class
      BY <2>1 DEF IInv, TypeOK
    <3>4. /\ in_server_block' \in BOOLEAN /\ closed' \in BOOLEAN
          /\ unmatched' \in BOOLEAN /\ misread' \in Nat
          /\ in_location_block' \in BOOLEAN
          /\ current_location_path' \in Paths \cup {""}
          /\ used_ports' \subseteq Ports
          /\ outcome' \in {"reading", "accepted", "rejected"}
      BY <2>1, <2>11 DEF IInv, TypeOK
    <3>5. QED  BY <3>1, <3>2, <3>3, <3>4 DEF TypeOK
  <2>6. PortsUnique' /\ PortsAreUsed' /\ MapFilled'
    BY <2>1, <2>2 DEF IInv, PortsUnique, PortsAreUsed, MapFilled
  <2>7. LocationExists'
    BY <2>1, <2>2, FreshTyped DEF LocationExists
  <2>8. Counting' /\ AcceptedFilesBalance'
    <3>1. /\ brace_level >= 1 /\ Len(open) \in Nat
          /\ misread = 0 => ~unmatched /\ brace_level = Len(open)
          /\ misread = 1 /\ ~unmatched =>
               brace_level = Len(open) + 1 \/ brace_level + 1 = Len(open)
      BY <2>1, CountedSoFar
    <3>2. AcceptedFilesBalance'
      BY <2>1 DEF AcceptedFilesBalance
    <3>3. Len(open') = IF oneline THEN Len(open) ELSE Len(open) + 1
      BY <2>1, <2>4
    <3>4. /\ misread' = 0 => ~oneline /\ misread = 0
          /\ misread' = 1 => misread = IF oneline THEN 0 ELSE 1
          /\ brace_level' = brace_level + 1 /\ unmatched' = unmatched
      <4>1. brace_level' = brace_level + 1 /\ unmatched' = unmatched
        BY <2>1, Zenon
      <4>2. /\ misread' = 0 => ~oneline /\ misread = 0
            /\ misread' = 1 => misread = IF oneline THEN 0 ELSE 1
        <5>1. CASE oneline
          <6>1. misread \in Nat /\ misread' = misread + 1
            BY <2>11, <5>1, Zenon
          <6>2. misread' # 0 /\ (misread' = 1 => misread = 0)
            BY <6>1, NextNat, Zenon
          <6>3. QED  BY <5>1, <6>2, Zenon
        <5>2. CASE ~oneline
          BY <2>11, <5>2, Zenon
        <5>3. QED  BY <5>1, <5>2, Zenon
      <4>3. QED  BY <4>1, <4>2, Zenon
    <3>5. /\ misread' = 0 => ~unmatched' /\ brace_level' = Len(open')
          /\ misread' = 1 /\ ~unmatched' =>
               brace_level' = Len(open') + 1 \/ brace_level' + 1 = Len(open')
      BY <2>3, <3>1, <3>3, <3>4
    <3>6. brace_level' >= 1 /\ in_server_block'
      <4>1. brace_level' = brace_level + 1 /\ in_server_block'
        BY <2>1, Zenon
      <4>2. brace_level' >= 1
        BY <2>3, <4>1, NextNat, Zenon
      <4>3. QED  BY <4>1, <4>2, Zenon
    <3>7. QED  BY <3>2, <3>5, <3>6 DEF Counting
  <2>9. DirectiveInItsBlockUntilClose'
    BY <2>1, <2>4, <2>11 DEF DirectiveInItsBlockUntilClose, Target
  <2>10. QED  BY <2>5, <2>6, <2>7, <2>8, <2>9 DEF IInv
<1>3. QED  BY <1>1, <1>2

(* A block the parser does not see is one more in the text only.           *)
LEMMA NextLinePreserves ==
  ASSUME IInv, NEW block \in Paths \cup {"server"}, BraceOnNextLine(block)
  PROVE  IInv'
<1>1. CASE Throw
  BY <1>1, ThrowPreserves
<1>2. CASE ~Throw
  <2>1. /\ outcome = "reading" /\ open' = Append(open, block) /\ Counts(FALSE)
        /\ UNCHANGED <<flags, current_server, used_ports, serverMap, outcome,
                       closed, unmatched>>
    BY <1>2 DEF BraceOnNextLine
  <2>2. /\ misread \in Nat /\ misread' \in Nat /\ misread' = misread + 1
    <3>1. misread \in Nat
      BY DEF IInv, TypeOK
    <3>2. QED  BY <2>1, <3>1, CountsCounts
  <2>3. open \in Seq(Paths \cup {"server"}) /\ brace_level \in Nat
    BY DEF IInv, TypeOK
  <2>4. /\ Append(open, block) \in Seq(Paths \cup {"server"})
        /\ Len(Append(open, block)) = Len(open) + 1
    <3> DEFINE K == Paths \cup {"server"}
    <3>1. open \in Seq(K) /\ block \in K
      BY <2>3
    <3> HIDE DEF K
    <3>2. /\ Append(open, block) \in Seq(K)
          /\ Len(Append(open, block)) = Len(open) + 1
      BY <3>1, AppendGrows
    <3>3. QED  BY <3>2 DEF K
  <2>5. TypeOK'
    BY <2>1, <2>2, <2>4 DEF flags, IInv, TypeOK
  <2>6. PortsUnique' /\ LocationExists' /\ PortsAreUsed' /\ MapFilled'
    BY <2>1 DEF flags, IInv, PortsUnique, LocationExists, PortsAreUsed, MapFilled
  <2>7. AcceptedFilesBalance' /\ DirectiveInItsBlockUntilClose'
    BY <2>1, <2>2 DEF AcceptedFilesBalance, DirectiveInItsBlockUntilClose
  <2>8. Counting'
    <3>1. misread = 0 => ~unmatched /\ brace_level = Len(open)
      BY <2>1 DEF IInv, Counting
    <3>2. in_server_block <=> brace_level >= 1
      BY <2>1 DEF IInv, Counting
    <3>3. brace_level' = brace_level /\ in_server_block' = in_server_block
      BY <2>1 DEF flags
    <3>4. QED  BY <2>1, <2>2, <2>3, <2>4, <3>1, <3>2, <3>3 DEF Counting
  <2>9. QED  BY <2>5, <2>6, <2>7, <2>8 DEF IInv
<1>3. QED  BY <1>1, <1>2

(* The brace that ends a server puts it into the map with its port; any    *)
(* other only counts down.                                                 *)
LEMMA ClosingBracePreserves ==
  ASSUME IInv, NEW n \in 0 .. 2, handleClosingBrace(n)
  PROVE  IInv'
<1>1. CASE ~in_server_block \/ (brace_level = 1 /\ current_server.port = 0)
  BY <1>1, ThrowPreserves DEF handleClosingBrace
<1>2. CASE ~(~in_server_block \/ (brace_level = 1 /\ current_server.port = 0))
  <2>1. /\ outcome = "reading" /\ in_server_block
        /\ brace_level' = brace_level - 1
        /\ open' = Popped(open, n) /\ closed' = TRUE
        /\ unmatched' = (unmatched \/ n > Len(open)) /\ Counts(n = 1)
        /\ UNCHANGED <<server_count, current_location_path, current_server,
                       used_ports, outcome>>
    BY <1>2 DEF handleClosingBrace
  <2>2. /\ open \in Seq(Paths \cup {"server"}) /\ Len(open) \in Nat
        /\ brace_level \in Nat /\ brace_level >= 1
        /\ misread = 0 => ~unmatched /\ brace_level = Len(open)
        /\ misread = 1 /\ ~unmatched =>
             brace_level = Len(open) + 1 \/ brace_level + 1 = Len(open)
    BY <2>1, CountedSoFar
  <2>3. /\ Popped(open, n) \in Seq(Paths \cup {"server"})
        /\ n <= Len(open) => Len(Popped(open, n)) = Len(open) - n
    <3> DEFINE K == Paths \cup {"server"}
    <3>1. open \in Seq(K)
      BY <2>2
    <3> HIDE DEF K
    <3>2. /\ Popped(open, n) \in Seq(K)
          /\ n <= Len(open) => Len(Popped(open, n)) = Len(open) - n
      BY <3>1, PoppedShrinks
    <3>3. QED  BY <3>2 DEF K
  <2>8. /\ misread \in Nat /\ misread' \in Nat
        /\ n = 1 => misread' = misread
        /\ n # 1 => misread' = misread + 1
    <3>1. misread \in Nat
      BY DEF IInv, TypeOK
    <3>2. QED  BY <2>1, <3>1, CountsCounts
  <2>9. /\ misread' = 0 => ~unmatched' /\ brace_level' = Len(open')
        /\ misread' = 1 /\ ~unmatched' =>
             brace_level' = Len(open') + 1 \/ brace_level' + 1 = Len(open')
    <3> DEFINE cut == Len(Popped(open, n))
    <3>1. /\ Len(open') = cut /\ brace_level' = brace_level - 1
          /\ ~unmatched' => ~unmatched /\ n <= Len(open)
          /\ ~unmatched /\ n <= Len(open) => ~unmatched'
          /\ n <= Len(open) => cut = Len(open) - n
      <4>1. Len(open') = cut /\ brace_level' = brace_level - 1
        BY <2>1
      <4>2. unmatched' = (unmatched \/ n > Len(open))
        BY <2>1, Zenon
      <4>3. n > Len(open) <=> ~(n <= Len(open))
        BY <2>2
      <4>4. n <= Len(open) => cut = Len(open) - n
        BY <2>3, Zenon
      <4>5. QED  BY <4>1, <4>2, <4>3, <4>4, Zenon
    <3> HIDE DEF cut
    <3>2. CASE n = 1
      BY <2>2, <2>8, <3>1, <3>2
    <3>3. CASE n # 1
      <4>1. n = 0 \/ n = 2
        BY <3>3
      <4>2. misread' # 0 /\ (misread' = 1 => misread = 0)
        BY <2>8, <3>3
      <4>3. QED  BY <2>2, <3>1, <4>1, <4>2
    <3>4. QED  BY <3>2, <3>3
  <2>10. AcceptedFilesBalance'
    BY <2>1 DEF AcceptedFilesBalance
  <2>4. DirectiveInItsBlockUntilClose'
    BY <2>1 DEF DirectiveInItsBlockUntilClose
  <2>5. CASE brace_level = 1
    <3>1. /\ serverMap' = [id \in DOMAIN serverMap \cup {server_count} |->
                             IF id = server_count THEN current_server
                                                  ELSE serverMap[id]]
          /\ in_server_block' = FALSE /\ in_location_block' = FALSE
      BY <1>2, <2>5 DEF handleClosingBrace
    <3>2. /\ server_count \in Nat /\ server_count >= 1
          /\ DOMAIN serverMap = 1 .. (server_count - 1)
      BY <2>1 DEF IInv, TypeOK, MapFilled
    <3>3. /\ DOMAIN serverMap' = 1 .. server_count
          /\ serverMap'[server_count] = current_server
          /\ \A id \in 1 .. (server_count - 1) : serverMap'[id] = serverMap[id]
      BY <3>1, <3>2
    <3>4. current_server \in Parsing_class /\ current_server.port \in used_ports
            /\ current_server.port \in Ports
      BY <1>2, <2>5 DEF IInv, TypeOK, PortsAreUsed
    <3>5. TypeOK'
      <4>1. \A id \in 1 .. (server_count - 1) : serverMap[id] \in Parsing_class
        BY <3>2 DEF IInv, TypeOK
      <4>2. \A id \in 1 .. server_count :
              id = server_count \/ id \in 1 .. (server_count - 1)
        BY <3>2
      <4>3. \A id \in DOMAIN serverMap' : serverMap'[id] \in Parsing_class
        BY <3>3, <3>4, <4>1, <4>2
      <4>4. /\ server_count' \in Nat /\ brace_level' \in Nat
            /\ DOMAIN serverMap' \subseteq 1 .. server_count'
        BY <2>1, <2>2, <2>5, <3>2, <3>3
      <4>5. /\ open' \in Seq(Paths \cup {"server"})
            /\ current_server' \in Parsing_class
        BY <2>1, <2>3, <3>4
      <4>6. /\ in_server_block' \in BOOLEAN /\ closed' \in BOOLEAN
            /\ unmatched' \in BOOLEAN /\ misread' \in Nat
            /\ in_location_block' \in BOOLEAN
            /\ current_location_path' \in Paths \cup {""}
            /\ used_ports' \subseteq Ports
            /\ outcome' \in {"reading", "accepted", "rejected"}
        BY <2>1, <2>8, <3>1 DEF IInv, TypeOK
      <4>7. QED  BY <4>3, <4>4, <4>5, <4>6 DEF TypeOK
    <3>6. PortsUnique'
      <4> SUFFICES ASSUME NEW i \in DOMAIN serverMap'
                   PROVE  /\ serverMap'[i].port \in Ports
                          /\ \A j \in DOMAIN serverMap' :
                               serverMap'[i].port = serverMap'[j].port => i = j
        BY DEF PortsUnique
      <4>1. \A id \in 1 .. (server_count - 1) :
              serverMap[id].port \in Ports
                /\ serverMap[id].port # current_server.port
        BY <2>1, <3>2 DEF IInv, PortsUnique, PortsAreUsed
      <4>2. \A id, jd \in 1 .. (server_count - 1) :
              serverMap[id].port = serverMap[jd].port => id = jd
        BY <3>2 DEF IInv, PortsUnique
      <4>3. \A id \in 1 .. server_count :
              id = server_count \/ id \in 1 .. (server_count - 1)
        BY <3>2
      <4>4. QED  BY <3>3, <3>4, <4>1, <4>2, <4>3
    <3>7. PortsAreUsed'
      BY <2>1, <3>1, <3>2, <3>3, <3>4 DEF IInv, PortsAreUsed
    <3>8. LocationExists' /\ MapFilled'
      BY <2>1, <3>1, <3>3 DEF LocationExists, MapFilled
    <3>9. Counting'
      <4>1. ~(brace_level' >= 1) /\ ~in_server_block'
        BY <2>1, <2>5, <3>1
      <4>2. QED  BY <2>9, <4>1 DEF Counting
    <3>10. QED  BY <2>4, <2>10, <3>5, <3>6, <3>7, <3>8, <3>9 DEF IInv
  <2>6. CASE brace_level # 1
    <3>1. UNCHANGED <<serverMap, in_server_block, in_location_block>>
      BY <1>2, <2>6 DEF handleClosingBrace
    <3>2. brace_level' \in Nat
      BY <2>1, <2>2
    <3>3. TypeOK'
      BY <2>1, <2>3, <2>8, <3>1, <3>2 DEF IInv, TypeOK
    <3>4. PortsUnique' /\ PortsAreUsed' /\ LocationExists' /\ MapFilled'
      BY <2>1, <3>1 DEF IInv, PortsUnique, PortsAreUsed, LocationExists, MapFilled
    <3>5. Counting'
      <4>1. brace_level' >= 1 /\ in_server_block'
        BY <2>1, <2>2, <2>6, <3>1
      <4>2. QED  BY <2>9, <4>1 DEF Counting
    <3>6. QED  BY <2>4, <2>10, <3>3, <3>4, <3>5 DEF IInv
  <2>7. QED  BY <2>5, <2>6
<1>3. QED  BY <1>1, <1>2

(* A change of the current server that keeps its port and its locations    *)
(* keeps the rest of the invariant.                                        *)
LEMMA SettingPreserves ==
  ASSUME IInv, current_server' \in Parsing_class,
         current_server'.port = current_server.port,
         \A p \in Paths : current_server._LocationMap[p] # NULL
                            => current_server'._LocationMap[p] # NULL,
         UNCHANGED <<flags, used_ports, serverMap, outcome, text>>
  PROVE  IInv'
<1>1. TypeOK' /\ PortsUnique' /\ LocationExists'
  BY DEF flags, text, IInv, TypeOK, PortsUnique, LocationExists
<1>2. Counting' /\ AcceptedFilesBalance' /\ DirectiveInItsBlockUntilClose'
  BY DEF flags, text, IInv, Counting, AcceptedFilesBalance, Balanced,
         DirectiveInItsBlockUntilClose, Target
<1>3. PortsAreUsed' /\ MapFilled'
  BY DEF flags, IInv, PortsAreUsed, MapFilled
<1>4. QED  BY <1>1, <1>2, <1>3 DEF IInv

(* A directive changes a location that is there, a setting, or the port to *)
(* one that no server has used.                                            *)
LEMMA DirectivePreserves ==
  ASSUME IInv, NEW name \in Names, NEW value \in Values, NEW port, NEW ok,
         processServerBlockContent(name, value, port, ok)
  PROVE  IInv'
<1>1. CASE Throw
  BY <1>1, ThrowPreserves
<1>2. CASE UNCHANGED vars
  BY <1>2, StutterPreserves
<1>3. CASE in_location_block /\ handleLocationDirective(name, value) /\ ~Throw
  <2>1. outcome = "reading" /\ name \in Names \cap LocationNames
    BY <1>3 DEF processServerBlockContent, handleLocationDirective
  <2> DEFINE path == current_location_path
             old == current_server._LocationMap[path]
             new == [old EXCEPT ![name] = Kept(@, name, value)]
  <2>2. path \in Paths /\ old \in LocationData
    BY <1>3, <2>1 DEF IInv, TypeOK, LocationExists, Parsing_class
  <2>3. new \in LocationData /\ new # NULL
    BY <2>1, <2>2, NULLAssumption DEF LocationData, Kept
  <2>4. current_server' =
          [current_server EXCEPT !._LocationMap =
             [current_server._LocationMap EXCEPT ![path] = new]]
        /\ UNCHANGED <<flags, used_ports, serverMap, outcome, text>>
    BY <1>3, <2>1, <2>2 DEF handleLocationDirective
  <2> HIDE DEF new, old, path
  <2>5. /\ current_server' \in Parsing_class
        /\ current_server'.port = current_server.port
        /\ \A p \in Paths : current_server'._LocationMap[p] =
                              IF p = path THEN new
                              ELSE current_server._LocationMap[p]
    BY <2>2, <2>3, <2>4 DEF IInv, TypeOK, Parsing_class
  <2>6. QED  BY <2>3, <2>4, <2>5, SettingPreserves
<1>4. CASE /\ ServerDirective(name, value, ok) /\ ~Throw /\ ~UNCHANGED vars
           /\ outcome = "reading"
  <2>1. /\ name \in Names \cap ServerNames
        /\ current_server' = [current_server EXCEPT !.set[name] = Kept(@, name, value)]
        /\ UNCHANGED <<flags, used_ports, serverMap, outcome, text>>
    BY <1>4 DEF ServerDirective
  <2>2. /\ current_server' \in Parsing_class
        /\ current_server'.port = current_server.port
        /\ current_server'._LocationMap = current_server._LocationMap
    BY <2>1 DEF IInv, TypeOK, Parsing_class, Kept
  <2>3. QED  BY <2>1, <2>2, SettingPreserves
<1>5. CASE /\ handleListenDirective(port) /\ ~Throw /\ ~UNCHANGED vars
           /\ outcome = "reading" /\ in_server_block
  <2>1. /\ port \in Ports /\ port \notin used_ports
        /\ used_ports' = used_ports \cup {port}
        /\ current_server' = [current_server EXCEPT !.port = port]
        /\ UNCHANGED <<flags, serverMap, outcome, text>>
    BY <1>5 DEF handleListenDirective
  <2>2. /\ current_server' \in Parsing_class
        /\ current_server'.port = port
        /\ current_server'._LocationMap = current_server._LocationMap
    BY <2>1 DEF IInv, TypeOK, Parsing_class
  <2>3. TypeOK' /\ PortsUnique' /\ LocationExists' /\ MapFilled'
    BY <2>1, <2>2 DEF flags, text, IInv, TypeOK, PortsUnique, LocationExists,
                      MapFilled
  <2>4. Counting' /\ AcceptedFilesBalance' /\ DirectiveInItsBlockUntilClose'
    BY <2>1 DEF flags, text, IInv, Counting, AcceptedFilesBalance, Balanced,
                DirectiveInItsBlockUntilClose, Target
  <2>5. PortsAreUsed'
    BY <2>1, <2>2 DEF flags, IInv, PortsAreUsed
  <2>6. QED  BY <2>3, <2>4, <2>5 DEF IInv
<1>6. QED  BY <1>1, <1>2, <1>3, <1>4, <1>5 DEF processServerBlockContent

(* The end of the file accepts what is closed.                             *)
LEMMA EndOfFilePreserves ==
  ASSUME IInv, EndOfFile
  PROVE  IInv'
<1>1. CASE in_server_block \/ brace_level # 0
  BY <1>1, ThrowPreserves DEF EndOfFile
<1>2. CASE ~(in_server_block \/ brace_level # 0)
  <2>1. /\ outcome = "reading" /\ outcome' = "accepted"
        /\ UNCHANGED <<flags, current_server, used_ports, serverMap, text>>
    BY <1>2 DEF EndOfFile
  <2>2. DOMAIN serverMap = 1 .. server_count
    BY <1>2, <2>1 DEF IInv, MapFilled
  <2>3. TypeOK' /\ PortsUnique' /\ PortsAreUsed'
    BY <2>1 DEF flags, text, IInv, TypeOK, PortsUnique, PortsAreUsed
  <2>4. /\ LocationExists' /\ Counting' /\ DirectiveInItsBlockUntilClose'
        /\ MapFilled'
    BY <2>1 DEF LocationExists, Counting, DirectiveInItsBlockUntilClose, MapFilled
  <2>5. /\ misread = 0 => Balanced
        /\ misread = 1 => ~Balanced
    <3>1. brace_level = 0 /\ open \in Seq(Paths \cup {"server"})
      BY <1>2 DEF IInv, TypeOK
    <3>2. /\ misread = 0 => ~unmatched /\ brace_level = Len(open)
          /\ misread = 1 /\ ~unmatched =>
               brace_level = Len(open) + 1 \/ brace_level + 1 = Len(open)
      BY <2>1 DEF IInv, Counting
    <3>3. QED  BY <3>1, <3>2 DEF Balanced
  <2>6. AcceptedFilesBalance'
    BY <2>1, <2>2, <2>5 DEF flags, text, AcceptedFilesBalance, Balanced
  <2>7. QED  BY <2>3, <2>4, <2>6 DEF IInv
<1>3. QED  BY <1>1, <1>2

-----------------------------------------------------------------------------

(* Before the first line nothing is open and nothing is in the map.        *)
LEMMA InitIInv ==
  ASSUME Init
  PROVE  IInv
<1>1. DOMAIN serverMap = {}
  <2>1. serverMap = <<>>
    BY DEF Init
  <2>2. QED  BY <2>1
<1>2. 1 .. server_count = {}
  <2>1. server_count = 0
    BY DEF Init
  <2>2. QED  BY <2>1
<1>3. TypeOK
  <2>1. open \in Seq(Paths \cup {"server"})
    <3>1. open = <<>>
      BY DEF Init
    <3>2. QED  BY <3>1
  <2>2. /\ server_count \in Nat /\ brace_level \in Nat
        /\ current_location_path \in Paths \cup {""}
        /\ used_ports \subseteq Ports
    BY DEF Init
  <2>3. QED  BY <1>1, <2>1, <2>2, FreshTyped DEF Init, TypeOK
<1>4. /\ PortsUnique /\ LocationExists /\ AcceptedFilesBalance
      /\ DirectiveInItsBlockUntilClose
  BY <1>1 DEF Init, PortsUnique, LocationExists, AcceptedFilesBalance,
              DirectiveInItsBlockUntilClose
<1>7. Counting
  <2>1. Len(open) = 0 /\ brace_level = 0 /\ misread = 0
          /\ ~unmatched /\ ~in_server_block
    BY DEF Init
  <2>2. QED  BY <2>1 DEF Counting
<1>5. PortsAreUsed /\ MapFilled
  BY <1>1, <1>2, FreshTyped DEF Init, PortsAreUsed, MapFilled
<1>6. QED  BY <1>3, <1>4, <1>5, <1>7 DEF IInv

(* IInv is an invariant of the specification.                              *)
THEOREM Invariance == Spec => []IInv
<1>1. Init => IInv
  BY InitIInv
<1>2. IInv /\ [Next]_vars => IInv'
  <2> SUFFICES ASSUME IInv, [Next]_vars
               PROVE  IInv'
    OBVIOUS
  <2>1. CASE \E between \in {"", "word"}, oneline \in BOOLEAN :
               handleServerBlockStart(between, oneline)
    BY <2>1, ServerBlockPreserves, Zenon
  <2>2. CASE \E path \in Paths \cup {""}, oneline \in BOOLEAN :
               handleLocationBlock(path, oneline)
    BY <2>2, LocationBlockPreserves, Zenon
  <2>3. CASE \E block \in Paths \cup {"server"} : BraceOnNextLine(block)
    BY <2>3, NextLinePreserves, Zenon
  <2>4. CASE \E n \in 0 .. 2 : handleClosingBrace(n)
    BY <2>4, ClosingBracePreserves, Zenon
  <2>5. CASE \E name \in Names, value \in Values, port \in Ports \cup {0, Wraps},
                ok \in BOOLEAN : processServerBlockContent(name, value, port, ok)
    BY <2>5, DirectivePreserves, Zenon
  <2>6. CASE EndOfFile
    BY <2>6, EndOfFilePreserves
  <2>7. CASE UNCHANGED vars
    BY <2>7, StutterPreserves
  <2>8. QED  BY <2>1, <2>2, <2>3, <2>4, <2>5, <2>6, <2>7, Zenon DEF Next
<1>3. QED  BY <1>1, <1>2, PTL DEF Spec

(* The parser's variables and every server it fills stay in their types.   *)
THEOREM TypeCorrect == Spec => []TypeOK
BY Invariance, PTL DEF IInv

(* No two servers of the map listen on the same port.                      *)
THEOREM OnePortPerServer == Spec => []PortsUnique
BY Invariance, PTL DEF IInv

(* handleLocationDirective never dereferences NULL.                        *)
THEOREM LocationIsThere == Spec => []LocationExists
BY Invariance, PTL DEF IInv

(* An accepted file has all its servers in the map; its blocks balance if  *)
(* no line is misread, and do not if one is.                               *)
THEOREM OneMisreadIsRefused == Spec => []AcceptedFilesBalance
BY Invariance, PTL DEF IInv

(* Until a location of a server is closed directives go where they stand.  *)
THEOREM DirectivesStay == Spec => []DirectiveInItsBlockUntilClose
BY Invariance, PTL DEF IInv
=============================================================================
