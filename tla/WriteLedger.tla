----------------------------- MODULE WriteLedger -----------------------------
(***************************************************************************)
(* What the checkpoint of a quiz attempt promises, without pages, answers, *)
(* locks or processes: a write is intended in the file before it is sent;  *)
(* while its outcome is in doubt the entry stays pending and nothing more  *)
(* is written; and the entry of one thing becomes clear only when that     *)
(* outcome is read back, or nothing was sent.  LearnerAttempt and          *)
(* PreviewWorkflow implement it.                                           *)
(***************************************************************************)
CONSTANTS Things,  \* what is written to: the attempts
          None     \* a write that creates a thing has none to name yet

VARIABLES
    entry,   \* the file: "blank", "clear", or "pending" while a write may be out
    about,   \* the thing it is about
    ready,   \* a command is about to send
    doubt    \* writes whose outcome is unknown, by the thing they are about

ledgerVars == <<entry, about, ready, doubt>>

LedgerTypeOK ==
    /\ entry \in {"blank", "clear", "pending"}
    /\ about \in Things \union {None}
    /\ ready \in BOOLEAN
    /\ doubt \subseteq Things \union {None}

\* The file of an earlier version may hide a start in doubt.
LedgerInit == entry = "blank" /\ about = None /\ ~ready /\ doubt \subseteq {None}

\* The intent comes first; a pending entry can only be intended again as it is.
Intend ==
    /\ entry' = "pending"
    /\ about' \in {about, None}
    /\ entry = "pending" => about' = about /\ ready' = FALSE
    /\ ready' \in {FALSE, about' \notin doubt}
    /\ UNCHANGED doubt

\* An entry that cannot be read is replaced by the intent of a start: what it said
\* is lost, the doubt stays.
Overwrite ==
    /\ entry' = "pending" /\ about' = None /\ ready' = FALSE
    /\ UNCHANGED doubt

\* A start's reply names what it created, or what it goes on with.
Name(x) ==
    /\ entry = "pending" /\ about = None
    /\ about' = x
    /\ ready' = FALSE
    /\ doubt' = doubt \ {None}
    /\ UNCHANGED entry

Send ==
    /\ ready /\ entry = "pending"
    /\ ready' = FALSE
    /\ doubt' = doubt \union {about}
    /\ UNCHANGED <<entry, about>>

\* The outcome is read back, and the command may go on to its next write.
Learn ==
    /\ entry = "pending"
    /\ ready' \in BOOLEAN
    /\ doubt' = doubt \ {about}
    /\ UNCHANGED <<entry, about>>

\* The command fails or is killed: the file stays.
Leave == ready' = FALSE /\ UNCHANGED <<entry, about, doubt>>

\* The outcome is read back and the file says so.
Settle ==
    /\ entry # "blank"
    /\ about # None
    /\ \/ entry' = "clear" /\ about' = about
       \/ entry' = "blank" /\ about' = None
    /\ ready' = FALSE
    /\ doubt' = doubt \ {about}

\* Nothing was sent: the entry of before is written back.
Withdraw(x) ==
    /\ entry = "pending" /\ about \notin doubt /\ x \notin doubt
    /\ about \in {x, None}
    /\ entry' = "clear" /\ about' = x
    /\ ready' = FALSE
    /\ UNCHANGED doubt

\* A person forgets the entry, never the doubt.
Forget ==
    /\ entry' = "blank" /\ about' = None /\ ready' = FALSE
    /\ UNCHANGED doubt

\* A person accounts for a start in doubt, with what it created or without.
Reconcile ==
    /\ entry = "blank" \/ (entry = "pending" /\ about = None)
    /\ \/ entry' = "clear" /\ about' \in Things \ doubt
       \/ entry' = "blank" /\ about' = None
    /\ ready' = FALSE
    /\ doubt' = doubt \ {None}

LedgerNext ==
    \/ Intend \/ Overwrite \/ Send \/ Learn \/ Leave \/ Settle \/ Forget \/ Reconcile
    \/ \E x \in Things : Name(x) \/ Withdraw(x)

LedgerSpec == LedgerInit /\ [][LedgerNext]_ledgerVars

\* Whoever is about to send has said so in the file and knows what became of the last
\* write, and a clear entry names a thing that nothing is in doubt of.
LedgerInv ==
    /\ ready => entry = "pending" /\ about \notin doubt
    /\ entry = "clear" => about \in Things \ doubt
    /\ entry = "blank" => about = None
==============================================================================
