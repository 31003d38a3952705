---------------------------- MODULE MCServerConn ----------------------------
(***************************************************************************)
(* Small instances of ServerConn.                                          *)
(***************************************************************************)
EXTENDS ServerConn

NoKinds == {}
Headers == {"headers"}
Scripthash == {"scripthash"}
NoUsers == {}
OneUser == {"sync"}
=============================================================================
