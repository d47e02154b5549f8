----------------------------- MODULE MCDbSessions -----------------------------
(* A small instance of DbSessions, with every handler.                         *)
EXTENDS DbSessions

AllKinds == Kind
===============================================================================
