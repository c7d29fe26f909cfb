----------------------------- MODULE AlertLedger ------------------------------
(***************************************************************************)
(* What the alert subsystem promises about one alert <<deadline, key>>:    *)
(* it is written to the ledger (deadline_alert) only after its recipient   *)
(* was notified; from then on nobody is notified of it again; the entry    *)
(* lives exactly as long as its deadline; and a removed deadline never     *)
(* gets an entry.  Nothing is promised about how often the recipient is    *)
(* notified before the entry is written.                                   *)
(***************************************************************************)
CONSTANTS Deadlines, AlertKeys

VARIABLES notified, ledger, removed

lvars == <<notified, ledger, removed>>

LedgerInit ==
    /\ notified = {}
    /\ ledger = {}
    /\ removed = {}

NotifyOf(d, k) ==
    /\ <<d, k>> \notin ledger
    /\ notified' = notified \cup {<<d, k>>}
    /\ UNCHANGED <<ledger, removed>>

Enter(d, k) ==
    /\ <<d, k>> \in notified \ ledger
    /\ d \notin removed
    /\ ledger' = ledger \cup {<<d, k>>}
    /\ UNCHANGED <<notified, removed>>

Remove(d) ==
    /\ d \notin removed
    /\ removed' = removed \cup {d}
    /\ ledger' = {a \in ledger : a[1] # d}
    /\ UNCHANGED notified

LedgerNext ==
    \E d \in Deadlines :
        \/ Remove(d)
        \/ \E k \in AlertKeys : NotifyOf(d, k) \/ Enter(d, k)

LedgerSpec == LedgerInit /\ [][LedgerNext]_lvars

===============================================================================
