------------------------- MODULE MCRequestTransport -------------------------
(* Small instances of RequestTransport for TLC.                            *)
EXTENDS RequestTransport, TLC

CONSTANTS a, b, p, q

\* A client that writes, and one that reads.
WriterAndReader == a :> {"create", "submit", "start"} @@ b :> {"list", "status", "tryout"}
=============================================================================
