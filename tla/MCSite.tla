-------------------------------- MODULE MCSite --------------------------------
(***************************************************************************)
(* Small instances of Site for TLC: a server with nested and overlapping   *)
(* locations, some without any, and requests that meet each of them.       *)
(***************************************************************************)
EXTENDS Site

Www == <<(<<"www">>)>>
At1(a)    == Append(Www, <<a>>)
At2(a, b) == Append(At1(a), <<b>>)
NextToD   == Append(Www, <<"d", "x">>)
Mail      == <<"Status:", "crlf", "crlf", "x">>
MCStart ==
  (Www :> Dir) @@ (NextToD :> File(<<"a">>)) @@
  (At1("d") :> Dir) @@ (At2("d", "i") :> Absent) @@ (At2("d", "x") :> File(Mail)) @@
  (At2("d", "s") :> Dir) @@
  (At1("e") :> Dir) @@ (At2("e", "i") :> File(<<"i">>)) @@ (At2("e", "x") :> File(<<"b">>)) @@
  (At1("upload") :> Absent) @@ (At2("upload", "x") :> Absent) @@
  (At1("delete") :> Dir) @@ (At2("delete", "x") :> File(<<"b">>))
MCNodes == DOMAIN MCStart
MCDenied == {NextToD}
MCContents == {<<"b">>}
MCFilename == "fx" :> "x"

Plain == [root |-> <<"www", "/">>, index |-> <<>>, autoindex |-> FALSE, redirect |-> FALSE,
          allowed_methods |-> {"GET", "POST"}, cgi_extensions |-> {}]
MCLocations ==
  (<<"/", "d">> :> [Plain EXCEPT !.autoindex = TRUE]) @@
  (<<"/", "d", "/", "n">> :> [Plain EXCEPT !.allowed_methods = {}]) @@
  (<<"/", "d", "/", "s">> :> Plain) @@
  (<<"/", "e", "/">> :> [Plain EXCEPT !.index = <<(<<"j">>), (<<"i">>)>>]) @@
  (<<"/", "r">> :> [Plain EXCEPT !.redirect = TRUE]) @@
  (<<"/", "c", "/">> :> [Plain EXCEPT !.cgi_extensions = {<<".", "py">>}]) @@
  (<<"/", "delete">> :> [Plain EXCEPT !.allowed_methods = {"DELETE"}])
Size(n, u) == [number |-> n, unit |-> u]
Server(locations, limit) ==
  [root |-> <<"www", "/">>, index |-> <<(<<"j">>), (<<"i">>)>>, locations |-> locations, limit |-> limit]
MCServers ==
  {Server(MCLocations, Size(3, "g")), Server(<<>>, Size(17, "k")),
   [Server(<<>>, Size(1, "m")) EXCEPT !.index = <<(<<"e">>), (<<"i">>)>>],
   Server(<<>>, Size(-1, "k")), [Server(<<>>, Size(2, "g")) EXCEPT !.root = <<"default">>]}

Get(p)    == [methode |-> "GET", path |-> p, kind |-> "none", headers |-> <<>>,
              declared |-> -1, body |-> <<>>, fields |-> <<>>]
Delete(p) == [Get(p) EXCEPT !.methode = "DELETE"]
Sent(p, kind, body, f) ==
  [Get(p) EXCEPT !.methode = "POST", !.kind = kind, !.declared = Len(body), !.body = body,
                 !.fields = f]
Post(p, f)   == Sent(p, "form", FormBody(f), f)
Upload(p, f) == Sent(p, "multipart", MultipartBody(f), f)
Named(k, v) == [key |-> k, value |-> v]
MCRequests ==
  {Get(p) : p \in {<<"/">>, <<"/", "d">>, <<"/", "d", "/", "x">>, <<"/", "d", "x">>,
                   <<"/", "d", "/", "n">>, <<"/", "d", "/", "s">>, <<"/", "e">>,
                   <<"/", "e", "/">>, <<"/", "e", "/", "x">>, <<"/", "r">>,
                   <<"/", "c", "/", "s", ".", "py">>}}
  \cup {Delete(<<"/", "delete", "/", "x">>), Delete(<<"/", "delete", "/">>),
        Delete(<<"/", "d", "x">>)}
  \cup {Post(<<"/">>, <<Named(<<"a">>, <<"&", "%">>), Named(<<"a">>, <<" ">>)>>),
        Post(<<"/">>, <<Named(<<"a">>, <<"'">>)>>),
        [Post(<<"/">>, <<Named(<<"a">>, <<"b">>)>>) EXCEPT !.declared = 4],
        Post(<<"/", "c", "/", "s", ".", "py">>, <<Named(<<"a", "=">>, <<"+", "%", "2">>)>>)}
  \cup {Upload(<<"/">>, <<Named(<<"fx", "crlf", "h">>, <<"a", "crlf">>), Named(<<"h">>, <<"b">>)>>),
        [Upload(<<"/">>, <<Named(<<"fx">>, <<"a", "a", "a">>)>>)
           EXCEPT !.headers = <<"p", ".", "png">>],
        [Upload(<<"/">>, <<Named(<<"h">>, <<"a">>)>>) EXCEPT !.declared = -1],
        Sent(<<"/">>, "multipart", <<>>, <<>>)}
=============================================================================
