----------------------------- MODULE PostgreSQL -----------------------------
(***************************************************************************)
(* Class Database of lib/postgresql.cc, as onewire_handler and             *)
(* ownet_handler use it.  openDB says that it succeeded whether it did or  *)
(* not, and queryInsert that it did not: neither result tells anything,    *)
(* and nothing ever connects again.                                        *)
(*                                                                         *)
(* What the server makes of a row is its own matter: the table weather of  *)
(* powerguru.sql has seven columns and a unique time stamp, formatQuery    *)
(* gives six values, and a refusal is a result like any other to           *)
(* queryInsert, which only knows the one that is not there.                *)
(***************************************************************************)
EXTENDS Sequences

VARIABLES
    connection,  \* _connection: "none" | "ok" | "bad"
    table        \* the rows the server has stored, in order

\* PQconnectdb, whose outcome is only logged.
OpenDB == connection = "none" /\ connection' \in {"ok", "bad"} /\ UNCHANGED table

\* PQexec: the row is stored; or it is lost, refused on a connection that works
\* or never sent on one that does not. The caller cannot tell.
QueryInsert(row) ==
    /\ \/ connection = "ok" /\ table' = Append(table, row)
       \/ UNCHANGED table
    /\ UNCHANGED connection

\* The server goes away; PQreset is never called.
LoseConnection == connection = "ok" /\ connection' = "bad" /\ UNCHANGED table

DatabaseInit == connection = "none" /\ table = <<>>
=============================================================================
