-------------------------------- MODULE Forms --------------------------------
(***************************************************************************)
(* What the server reads out of a body and of a configured size:           *)
(* urlDecode and parseFormData (server/utils.cpp), the first part of a     *)
(* multipart body (upload.cpp) and client_body_buffer_size                 *)
(* (handle_directive.cpp).                                                 *)
(***************************************************************************)
EXTENDS Integers, Sequences, SequencesExt, FiniteSetsExt

CONSTANTS
  Filename, \* the file a header field names, for those that name one
  Kilo,     \* 1024
  LongMax   \* the largest long

ASSUME SizesAssumption == Kilo \in Nat \ {0} /\ LongMax \in Nat \ {0}

Text == Seq(STRING)

FirstPlace(seq, e) == SelectInSeq(seq, LAMBDA x : x = e)
After(seq, i) == SubSeq(seq, i + 1, Len(seq))

-----------------------------------------------------------------------------
(* Form data: sequences of characters, of which the special ones have a    *)
(* code here and can be written as an escape.                              *)

Special == {"%", "&", "+", "="}
Code(c) == CASE c = "%" -> 37 [] c = "&" -> 38 [] c = "+" -> 43 [] c = "=" -> 61
Char(value) ==
  IF \E c \in Special : Code(c) = value
  THEN CHOOSE c \in Special : Code(c) = value ELSE "other"

Digits == {"2", "3", "5", "6", "b", "d"}
Hex(d) == CASE d = "2" -> 2 [] d = "3" -> 3 [] d = "5" -> 5
            [] d = "6" -> 6 [] d = "b" -> 11 [] d = "d" -> 13

(* is >> std::hex >> value on two characters: as many digits as there are, *)
(* after a sign; -1 when there is none.                                    *)
ReadHex(a, b) ==
  IF a \in Digits
  THEN IF b \in Digits THEN 16 * Hex(a) + Hex(b) ELSE Hex(a)
  ELSE IF a = "+" /\ b \in Digits THEN Hex(b) ELSE -1

IsEscape(str, i) ==
  /\ str[i] = "%" /\ i + 2 <= Len(str)
  /\ ReadHex(str[i + 1], str[i + 2]) # -1

(* Goes on after the escape's first digit. *)
Bug_urlDecode_short(str) ==
  LET decoded[i \in 1 .. Len(str) + 3] ==
        IF i > Len(str) THEN <<>>
        ELSE IF IsEscape(str, i)
             THEN <<Char(ReadHex(str[i + 1], str[i + 2]))>> \o decoded[i + 2]
             ELSE <<IF str[i] = "+" THEN " " ELSE str[i]>> \o decoded[i + 1]
  IN  decoded[1]

(* An escape takes three characters, whether it has two digits or one.     *)
urlDecode(str) ==
  LET decoded[i \in 1 .. Len(str) + 3] ==
        IF i > Len(str) THEN <<>>
        ELSE IF IsEscape(str, i)
             THEN <<Char(ReadHex(str[i + 1], str[i + 2]))>> \o decoded[i + 3]
             ELSE <<IF str[i] = "+" THEN " " ELSE str[i]>> \o decoded[i + 1]
  IN  decoded[1]

(* std::getline: a pair begins where the body does and after each "&".     *)
PairPlaces(body) == {i \in 1 .. Len(body) + 1 : i = 1 \/ body[i - 1] = "&"}
PairAt(body, i) ==
  LET ends == {j \in i .. Len(body) + 1 : j = Len(body) + 1 \/ body[j] = "&"}
  IN  SubSeq(body, i, Min(ends) - 1)

Key(pair)   == urlDecode(SubSeq(pair, 1, FirstPlace(pair, "=") - 1))
Value(pair) == urlDecode(After(pair, FirstPlace(pair, "=")))

(* A pair without "=" is passed over; of two with one key the last counts. *)
parseFormData(body) ==
  LET places == {i \in PairPlaces(body) : FirstPlace(PairAt(body, i), "=") > 0}
      PlacesOf(key) == {i \in places : Key(PairAt(body, i)) = key}
  IN  [key \in {Key(PairAt(body, i)) : i \in places} |->
         Value(PairAt(body, Max(PlacesOf(key))))]

(* What does not stand for itself between the quotes of a script ("other"  *)
(* may be any character that came as an escape).                           *)
EndsLiteral == {"'", "\\", "newline", "</script>", "<!--", "other"}
Quotable(text) == \A i \in DOMAIN text : text[i] \notin EndsLiteral

-----------------------------------------------------------------------------
(* Multipart bodies: sequences of "boundary", "crlf", header fields and    *)
(* pieces of content.                                                      *)

Bad == [status |-> "400", name |-> "", content |-> <<>>]

(* The place of the first blank line, 0 if there is none.                  *)
BlankLine(seq) ==
  SelectInSeq([i \in 1 .. Len(seq) - 1 |-> <<seq[i], seq[i + 1]>>],
              LAMBDA pair : pair = <<"crlf", "crlf">>)

(* extractFileName: the first field that names a file.                     *)
extractFileName(headers) ==
  LET i == SelectInSeq(headers, LAMBDA h : h \in DOMAIN Filename)
  IN  IF i = 0 THEN "" ELSE Filename[headers[i]]

(* Takes every line end off the end of the content. *)
Bug_FileContent(text) ==
  SubSeq(text, 1, SelectLastInSeq(text, LAMBDA t : t # "crlf"))

(* The line end in front of the next boundary is not the file's.           *)
FileContent(text) ==
  IF text # <<>> /\ Last(text) = "crlf" THEN Front(text) ELSE text

(* handleFileUpload up to the first system call: of all parts, the first.  *)
FirstPart(body) ==
  LET rest == After(body, FirstPlace(body, "boundary"))
      text == IF rest # <<>> /\ Head(rest) = "crlf" THEN Tail(rest) ELSE rest
      part == SubSeq(text, 1, FirstPlace(text, "boundary") - 1)
      name == extractFileName(SubSeq(part, 1, BlankLine(part) - 1))
  IN  IF \/ FirstPlace(body, "boundary") = 0 \/ FirstPlace(text, "boundary") = 0
         \/ BlankLine(part) = 0 \/ name = ""
      THEN Bad
      ELSE [status |-> "200", name |-> name,
            content |-> FileContent(After(part, BlankLine(part) + 1))]

-----------------------------------------------------------------------------
(* parseCGIResponse and buildHTTPResponse: the body that is sent.  It is   *)
(* what follows the first blank line, also of a file that only mentions a  *)
(* header (methode_get).                                                   *)

LooksLikeScript(text) ==
  \E i \in DOMAIN text : text[i] \in {"Content-Type:", "Status:"}

BodySent(text) ==
  IF LooksLikeScript(text) /\ BlankLine(text) > 0
  THEN After(text, BlankLine(text) + 1) ELSE text

-----------------------------------------------------------------------------
(* client_body_buffer_size: a number, of either sign, and a unit.  (A text *)
(* without a number stores 0, an empty one whatever size held: neither is  *)
(* an input here.)                                                         *)

Units == {"", "k", "m", "g"}
Factor(unit) ==
  CASE unit = ""  -> 1
    [] unit = "k" -> Kilo
    [] unit = "m" -> Kilo * Kilo
    [] unit = "g" -> Kilo * Kilo * Kilo
Written(size) == size.number * Factor(size.unit)
LongMin == -LongMax - 1
FitsLong(n) == LongMin <= n /\ n <= LongMax
Wrapped(n) == ((n + LongMax + 1) % (2 * (LongMax + 1))) - (LongMax + 1)

(* A unit too small. *)
Bug_client_max_body_size(size) ==
  IF size.number > LongMax THEN LongMax
  ELSE Wrapped(size.number * (IF size.unit = "" THEN 1 ELSE Kilo))

(* A number beyond long stores the long next to it, and the stream that   *)
(* failed on it shows no unit.  The product is not checked.                *)
client_max_body_size(size) ==
  IF size.number > LongMax THEN LongMax
  ELSE IF size.number < LongMin THEN LongMin
  ELSE Wrapped(Written(size))

-----------------------------------------------------------------------------
(* What clients send: the body of a form with these fields, or of an       *)
(* upload with these files, as a browser writes them.                      *)

Field == [key : Text, value : Text]

Encoding(c) ==
  CASE c = "%" -> <<"%", "2", "5">>
    [] c = "&" -> <<"%", "2", "6">>
    [] c = "+" -> <<"%", "2", "b">>
    [] c = "=" -> <<"%", "3", "d">>
    [] c = " " -> <<"+">>
    [] OTHER   -> <<c>>
urlEncode(str) == FlattenSeq([i \in DOMAIN str |-> Encoding(str[i])])

Pair(field) == urlEncode(field.key) \o <<"=">> \o urlEncode(field.value)
FormBody(fields) ==
  FlattenSeq([i \in DOMAIN fields |->
                IF i = 1 THEN Pair(fields[i]) ELSE <<"&">> \o Pair(fields[i])])

MultipartBody(fields) ==
  FlattenSeq([i \in DOMAIN fields |->
                <<"boundary", "crlf">> \o fields[i].key \o <<"crlf", "crlf">>
                  \o fields[i].value \o <<"crlf">>]) \o <<"boundary", "--">>

(* A file has header fields, without a blank line, of which the first names*)
(* it if any does; the boundary is chosen so that nothing looks like it.   *)
Part ==
  {f \in Field :
     /\ f.key # <<>>
     /\ \A i \in DOMAIN f.key :
          f.key[i] = "crlf" => i < Len(f.key) /\ f.key[i + 1] # "crlf"
     /\ (\E i \in DOMAIN f.key : f.key[i] \in DOMAIN Filename)
          => f.key[1] \in DOMAIN Filename
     /\ \A i \in DOMAIN f.key : f.key[i] # "boundary"
     /\ \A i \in DOMAIN f.value : f.value[i] # "boundary"}
=============================================================================
