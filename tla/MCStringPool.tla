---------------------------- MODULE MCStringPool ----------------------------
(***************************************************************************)
(* Two threads, one string in the locked pool and two others; the id map   *)
(* has room for one entry before it must grow.                             *)
(***************************************************************************)
EXTENDS SynchronizedStringPool, TLC

CONSTANTS t1, t2, u, v, w

MCThread == {t1, t2}
MCString == {u, v, w}
MCConst == <<u>>
=============================================================================
