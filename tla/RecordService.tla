---------------------------- MODULE RecordService ----------------------------
(***************************************************************************)
(* What the business layer may rely on when it records an event on chain    *)
(* through EOSUtils: a call that returns a transaction id has been recorded, *)
(* a call is recorded at most once, and a call that returns null may have    *)
(* been recorded, may be recorded later, or never.                          *)
(***************************************************************************)
CONSTANT Calls

VARIABLES outcome,   \* outcome[c]: idle, pending, ok (an id) or unknown (null)
          recorded   \* the calls whose row is in a table of the chain
svars == <<outcome, recorded>>

SInit == outcome = [c \in Calls |-> "idle"] /\ recorded = {}

Call(c) ==
    /\ outcome[c] = "idle"
    /\ outcome' = [outcome EXCEPT ![c] = "pending"]
    /\ UNCHANGED recorded

\* The row may also arrive after the caller has been told null.
Record(c) ==
    /\ outcome[c] \in {"pending", "unknown"}
    /\ c \notin recorded
    /\ recorded' = recorded \cup {c}
    /\ UNCHANGED outcome

ReturnId(c) ==
    /\ outcome[c] = "pending" /\ c \in recorded
    /\ outcome' = [outcome EXCEPT ![c] = "ok"]
    /\ UNCHANGED recorded

ReturnNull(c) ==
    /\ outcome[c] = "pending"
    /\ outcome' = [outcome EXCEPT ![c] = "unknown"]
    /\ UNCHANGED recorded

SNext == \E c \in Calls : Call(c) \/ Record(c) \/ ReturnId(c) \/ ReturnNull(c)

SSpec == SInit /\ [][SNext]_svars
=============================================================================
