----------------------------- MODULE MCProcess ------------------------------
(* Two sessions, which the portal and a caller poll, for TLC.              *)
EXTENDS Process

MCPollers == Callers \cup {"portal"}
=============================================================================
