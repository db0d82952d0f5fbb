----------------------------- MODULE SignInGate -----------------------------
(***************************************************************************)
(* What unattended sign-in promises, without files, codes or cookies:      *)
(* one caller at a time holds the gate; an automatic caller may try only   *)
(* while the gate is open and leaves it shut unless its attempt is known   *)
(* to have been no refusal; only a person opens a gate that is shut.       *)
(* SessionRenewal implements it.                                           *)
(***************************************************************************)
CONSTANTS Threads, NoThread

VARIABLES
    holder,   \* the caller in the sign-in section, or NoThread
    role,     \* "auto" or "person" for a holder, "none" without one
    gate      \* "open", "trying" (an automatic attempt is out) or "shut"

gateVars == <<holder, role, gate>>

GateTypeOK ==
    /\ holder \in Threads \union {NoThread}
    /\ role \in {"none", "auto", "person"}
    /\ gate \in {"open", "trying", "shut"}

GateInit == holder = NoThread /\ role = "none" /\ gate = "open"

Enter(t) ==
    /\ holder = NoThread
    /\ holder' = t
    /\ role' \in {"auto", "person"}
    /\ UNCHANGED gate

Try ==
    /\ role = "auto" /\ gate = "open"
    /\ gate' = "trying"
    /\ UNCHANGED <<holder, role>>

Resolve ==
    /\ role = "auto" /\ gate = "trying"
    /\ gate' \in {"open", "shut"}
    /\ UNCHANGED <<holder, role>>

PersonSigns ==
    /\ role = "person"
    /\ gate' \in {"open", "shut"}
    /\ UNCHANGED <<holder, role>>

\* The caller leaves or its process dies; an attempt still out shuts the gate.
Exit ==
    /\ holder # NoThread
    /\ holder' = NoThread
    /\ role' = "none"
    /\ gate' = IF gate = "trying" THEN "shut" ELSE gate

GateNext == (\E t \in Threads : Enter(t)) \/ Try \/ Resolve \/ PersonSigns \/ Exit

GateSpec == GateInit /\ [][GateNext]_gateVars
=============================================================================
