------------------------------- MODULE Routing -------------------------------
(***************************************************************************)
(* Which location, file or script a path leads to: the string operations   *)
(* of Parsing_class, parsing_response.cpp and cgi.cpp.                     *)
(*                                                                         *)
(* A text is a sequence of tokens: "/", ".", "?" and pieces of names that  *)
(* no comparison cuts.  Two pieces next to each other are one name, so     *)
(* that a location may end in the middle of a name of the path.            *)
(***************************************************************************)
EXTENDS Naturals, Sequences, SequencesExt, FiniteSetsExt

EndsWith(text, token) == text # <<>> /\ Last(text) = token
From(text, i) == SubSeq(text, i, Len(text))
LastPlace(text, token) == SelectLastInSeq(text, LAMBDA t : t = token)

-----------------------------------------------------------------------------
(* Takes a prefix for a location whatever follows it. *)
Bug_AtBoundary(location, path) == TRUE

AtBoundary(location, path) ==
  \/ Len(path) = Len(location)
  \/ path[Len(location) + 1] = "/"
  \/ Last(location) = "/"

(* Parsing_class::getLocation.  The loop keeps the longest match so far; of*)
(* two locations that match one is longer, so the order of the map does not*)
(* matter.  <<>> stands for NULL: no location has an empty path.           *)
getLocation(locations, path) ==
  FoldSet(LAMBDA l, best :
            IF IsPrefix(l, path) /\ Len(l) > Len(best) /\ AtBoundary(l, path)
            THEN l ELSE best,
          <<>>, locations)

(* check_location_methode: a location without allowed_methods allows none. *)
Allowed(server, path, methode) ==
  LET l == getLocation(DOMAIN server.locations, path)
  IN  l # <<>> => methode \in server.locations[l].allowed_methods

-----------------------------------------------------------------------------
(* combinePaths: one slash less at the end of root, one more in front of   *)
(* path, and the last directory of root is not repeated.                   *)
combinePaths(root, path) ==
  LET clean   == IF EndsWith(root, "/") THEN Front(root) ELSE root
      rooted  == IF Head(path) = "/" THEN path ELSE <<"/">> \o path
      segment == From(clean, LastPlace(clean, "/"))
      repeats == /\ LastPlace(clean, "/") > 0
                 /\ Len(rooted) > Len(segment) /\ IsPrefix(segment, rooted)
  IN  IF root = <<>> THEN path
      ELSE IF path = <<>> THEN root
      ELSE clean \o (IF repeats THEN From(rooted, Len(segment) + 1) ELSE rooted)

(* The candidates findFirstIndexFile tries: the words of index after root. *)
IndexPaths(index, root) == [i \in DOMAIN index |-> root \o index[i]]

(* Parsing_class::findFirstIndexFile takes the first word unseen.          *)
FirstIndex(server) ==
  IF server.index = <<>> THEN <<>> ELSE server.root \o Head(server.index)

(* isCGIRequest and getCGIInterpreter: the extension runs from the last    *)
(* dot to the end of the path, the query string included.                  *)
Extension(path) == From(path, LastPlace(path, "."))
isCGIRequest(path, location) ==
  LastPlace(path, ".") > 0 /\ Extension(path) \in location.cgi_extensions

-----------------------------------------------------------------------------
(* The file system's reading of a text: the names between its slashes.     *)
Components(text) ==
  SelectSeq(FoldLeft(LAMBDA names, t :
                       IF t = "/" THEN Append(names, <<>>)
                       ELSE [names EXCEPT ![Len(names)] = Append(@, t)],
                     <<(<<>>)>>, text),
            LAMBDA name : name # <<>>)

(* A text that starts with a slash is read from the top, not from the      *)
(* directory the server runs in.                                           *)
NodeOf(text) ==
  IF text # <<>> /\ Head(text) = "/" THEN <<(<<"/">>)>> \o Components(text)
                                     ELSE Components(text)

(* What a reader of the configuration expects of a location: it is the     *)
(* path, or the path goes on below it.                                     *)
Governs(location, path) ==
  \/ path = location
  \/ IsPrefix(IF EndsWith(location, "/") THEN location ELSE Append(location, "/"), path)
=============================================================================
