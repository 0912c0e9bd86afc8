------------------------------ MODULE Queries ------------------------------
(***************************************************************************)
(* What the pages of the panel use of react-query: a query as the last     *)
(* data, whether the last fetch failed, and the fetch under way.  A fetch  *)
(* that starts before any data clears the error; one over old data keeps   *)
(* it until it has answered.  Invalidating a query that is being fetched   *)
(* cancels that fetch and asks again, so what the server had answered to   *)
(* it is thrown away; only a first fetch is joined instead, and what it    *)
(* brings may be older than the request that joined it.  The pages have    *)
(* such an older first fetch land when the server has answered it, sooner  *)
(* than the panel hears of it, and the request that joined it has nothing  *)
(* read again (Reread).  What a page claims of a list that catches up      *)
(* leaves out the lists that missed a write so.                            *)
(***************************************************************************)
CONSTANT None            \* no value: `null` and `undefined`

Query(Data) == [data : Data \cup {None}, error : BOOLEAN, ask : {"idle", "asked"}]
Unasked == [data |-> None, error |-> FALSE, ask |-> "idle"]
Asked(query) == [query EXCEPT !.ask = "asked", !.error = @ /\ query.data # None]
Landed(answer) == [data |-> answer, error |-> FALSE, ask |-> "idle"]
Failed(query) == [query EXCEPT !.error = TRUE, !.ask = "idle"]
Pending(query) == query.data = None /\ ~query.error
Usable(query) == query.data # None /\ ~query.error

\* What an answer makes of a query it has read again.  Data that are a first's and data
\* that are not are not told apart: any query that is idle may miss the answer.
Reread(query) == {Asked(query)} \cup {q \in {query} : q.ask = "idle"}
=============================================================================
