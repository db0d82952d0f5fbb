----------------------------- MODULE MCMfaLogin -----------------------------
(* A small instance of MfaLogin for TLC.                                   *)
EXTENDS MfaLogin, TLC

CONSTANTS p, q

\* One process is the person's, in the other the client signs in by itself.
PersonAndClient == p :> {"login", "defer", "app", "verify"} @@ q :> {"stored", "auto", "refresh"}

\* Pages of one feature each, an expired password's, which has what looks like a code
\* field, and an assertion on a page that has an expired password's marks.
Pages == {{}, {"saml", "change"}, {"kmsi"}, {"reload"}, {"change", "mfa"}}
=============================================================================
