------------------------------- MODULE Ledger -------------------------------
(***************************************************************************)
(* The three contracts of the chain (fbstransfer, redenvelope, egggame).    *)
(* Every action of a contract emplaces one row, keyed by                    *)
(* available_primary_key, in one table; no action reads, changes or erases  *)
(* a row.  The memo parameter is accepted and not stored; the only free text *)
(* stored is the category of a game and the name in a bet or a settlement.  *)
(***************************************************************************)
EXTENDS Integers, FiniteSets, FiniteSetsExt

\* The contract actions, and the table each one writes.
Actions == {"transfer", "send", "recv", "create", "bet", "settlement"}
TableOf ==
    [transfer |-> "datatable", send |-> "datasend", recv |-> "datarecv",
     create |-> "game", bet |-> "betinfo", settlement |-> "settledata"]
Tables == {TableOf[a] : a \in Actions}

EmptyTables == [t \in Tables |-> {}]

\* Mutant: the key of the last row instead of the one after it.
AvailablePrimaryKeyLast(rows) ==
    IF rows = {} THEN 0 ELSE Max({r.id : r \in rows})

\* Mutant: the key before the last row.
AvailablePrimaryKeyBefore(rows) ==
    IF rows = {} THEN 0 ELSE Max({r.id : r \in rows}) - 1

\* available_primary_key: one past the largest key, 0 in an empty table.
AvailablePrimaryKey(rows) ==
    IF rows = {} THEN 0 ELSE Max({r.id : r \in rows}) + 1

\* The actions whose row keeps a text argument besides the memo.
StoresText(a) == a \in {"create", "bet", "settlement"}

\* The row a transaction stores: the arguments of its action but the memo.  The
\* row also names the transaction and the call it stems from, which the chain
\* keeps in its action history and not in the table.
Row(rows, tx, c) ==
    [id |-> AvailablePrimaryKey(rows), data |-> tx.data,
     text |-> IF StoresText(tx.kind) THEN tx.text ELSE "none", tx |-> tx, call |-> c]

\* The tables after the action of a transaction has run.
Emplace(tables, tx, c) ==
    [tables EXCEPT ![TableOf[tx.kind]] = @ \cup {Row(@, tx, c)}]
=============================================================================
