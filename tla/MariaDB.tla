------------------------------ MODULE MariaDB ------------------------------
(***************************************************************************)
(* Database in lib/mariadb.cc, as a caller of queryInsert sees it: a row   *)
(* is handed over, the query is tried twice at most, and the caller waits. *)
(* The MySQL server and its client library are external.  Which number     *)
(* mysql_real_query returns for an error decides what queryInsert does, so *)
(* the codes the library may return are a constant.                        *)
(***************************************************************************)
EXTENDS Integers, Sequences

CONSTANTS
    ErrorCodes,   \* what mysql_real_query may return for an error
    QueryTries,   \* `retries' of queryInsert (2)
    MaxBreaks     \* bound on the times the connection breaks or a query fails

\* CR_SERVER_LOST, CR_COMMANDS_OUT_OF_SYNC and CR_SERVER_GONE_ERROR; -1 and
\* CR_UNKNOWN_ERROR; any other number that is not zero.
AllErrorCodes == {"lost", "unknown", "other"}

ASSUME DatabaseAssumption ==
    /\ ErrorCodes \subseteq AllErrorCodes
    /\ ErrorCodes # {}
    /\ QueryTries \in Nat \ {0}
    /\ MaxBreaks \in Nat

VARIABLES
    query,      \* the row queryInsert is running for, <<>> or <<row>>
    retries,    \* its tries left
    connected,  \* mysql_real_connect succeeded, and nothing broke since
    table,      \* the rows the server has stored
    breaks      \* failures so far, for the bound

database == <<query, retries, connected, table, breaks>>

\* queryInsert(row) is called: the caller waits until query is empty again.
QueryInsert(row) ==
    /\ query = <<>>
    /\ query' = <<row>>
    /\ retries' = QueryTries

\* closeDB and openDB: a new connection is made, or cannot be made.
Reconnect == connected' \in BOOLEAN

\* Mutant: queryInsert does not return.
ExecuteAgain ==
    /\ query # <<>>
    /\ connected
    /\ table' = Append(table, Head(query))
    /\ UNCHANGED <<query, retries, connected, breaks>>

\* mysql_real_query returns 0, and queryInsert true.
Execute ==
    /\ query # <<>>
    /\ connected
    /\ table' = Append(table, Head(query))
    /\ query' = <<>>
    /\ UNCHANGED <<retries, connected, breaks>>

\* Mutant: a new connection gets new tries.
AfterErrorAnew(code) ==
    IF code = "lost"
    THEN /\ Reconnect
         /\ retries' = IF retries = 1 THEN QueryTries ELSE retries - 1
         /\ query' = query
    ELSE UNCHANGED <<retries, connected>> /\ query' = <<>>

\* Mutant: one try too many.
AfterErrorOneMore(code) ==
    IF code = "lost"
    THEN /\ Reconnect
         /\ retries' = retries - 1
         /\ query' = IF retries = 0 THEN <<>> ELSE query
    ELSE UNCHANGED <<retries, connected>> /\ query' = <<>>

\* What queryInsert does with an error: reconnect and try again, as long as
\* there are tries left; or give up, returning false or (for a number it has
\* no case for) true.
AfterError(code) ==
    IF code = "lost"
    THEN /\ Reconnect
         /\ retries' = retries - 1
         /\ query' = IF retries = 1 THEN <<>> ELSE query
    ELSE /\ UNCHANGED <<retries, connected>>
         /\ query' = <<>>

\* mysql_real_query fails.  The server may have stored the row before the
\* connection broke, and the client cannot tell.
Fail ==
    /\ query # <<>>
    /\ breaks < MaxBreaks
    /\ breaks' = breaks + 1
    /\ \/ table' = table
       \/ connected /\ table' = Append(table, Head(query))
    /\ \E code \in ErrorCodes : AfterError(code)

\* The server ends an idle connection, or goes down.
Break ==
    /\ connected
    /\ breaks < MaxBreaks
    /\ breaks' = breaks + 1
    /\ connected' = FALSE
    /\ UNCHANGED <<query, retries, table>>

\* On a connection that is not there a query can only fail; the count of
\* failures does not bound that.
FailUnconnected ==
    /\ query # <<>>
    /\ ~connected
    /\ \E code \in ErrorCodes : AfterError(code)
    /\ UNCHANGED <<table, breaks>>

DatabaseInit ==
    /\ query = <<>>
    /\ retries = 0
    /\ connected \in BOOLEAN
    /\ table = <<>>
    /\ breaks = 0

DatabaseStep == Execute \/ Fail \/ FailUnconnected
=============================================================================
