-------------------------- MODULE MCProxyConnection --------------------------
(* A small instance of ProxyConnection for TLC. *)
EXTENDS ProxyConnection
=============================================================================
