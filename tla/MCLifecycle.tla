----------------------------- MODULE MCLifecycle -----------------------------
(***************************************************************************)
(* A small instance of Lifecycle, and of Config in it, for TLC: listen,    *)
(* which only servers have, a directive only locations have and one both   *)
(* have.  The first listening socket gets descriptor 0.                    *)
(***************************************************************************)
EXTENDS Lifecycle

MCPaths == {"/a", "/b"}
MCNames == {"listen", "root", "autoindex", "unknown"}
=============================================================================
