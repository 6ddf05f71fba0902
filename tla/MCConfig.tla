------------------------------ MODULE MCConfig ------------------------------
(***************************************************************************)
(* A small instance of Config for TLC: a directive only servers have, one  *)
(* only locations have, one both have, and listen.                         *)
(***************************************************************************)
EXTENDS Config

MCPaths == {"/a", "/b"}
MCNames == {"listen", "error_page", "root", "autoindex", "unknown"}
=============================================================================
