-------------------------- MODULE MCSessionRenewal --------------------------
(* A small instance of SessionRenewal for TLC.                             *)
EXTENDS SessionRenewal, TLC

CONSTANTS a, b, c, p, q

\* Two threads in one process, one in another.
ThreadsAndProcess == a :> p @@ b :> p @@ c :> q
=============================================================================
