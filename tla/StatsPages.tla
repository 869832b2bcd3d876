----------------------------- MODULE StatsPages -----------------------------
(***************************************************************************)
(* A client that reads the lists of statistics page by page, beside the    *)
(* indexer.                                                                *)
(*                                                                         *)
(* Each page is a request of its own and one statement, which reads what   *)
(* is committed when it runs.  Ranges may be committed between two pages:  *)
(* the rows are counted from the newest, so that all of them move on.      *)
(*                                                                         *)
(* The client is not part of the repository.  It asks for the rows after   *)
(* those it has, until a page is not full, and for the list of APYs when   *)
(* it has that of TVLs.                                                    *)
(***************************************************************************)
EXTENDS Stats

CONSTANT Limit      \* how many rows a page has

ASSUME PagesAssumption == Limit \in Nat \ {0}

List == {"tvl", "tvc", "apy"}

VARIABLE client     \* the rows it has of each list, the lists it is through with, and
                    \* for history what was in each one when it began

pagesVars == <<vars, client>>

\* What it has when it begins.
Fresh == [rows |-> [l \in List |-> <<>>], finished |-> {}, since |-> [l \in List |-> {}]]

PagesInit == Init /\ client = Fresh

\* The rows by their blocks; stats_external_coverage has those of stats_tvc.
Table(list) ==
    CASE list = "tvl" -> Blocks(tvlRows)
      [] list = "tvc" -> tvcRows
      [] list = "apy" -> Blocks(apyRows)

\* GET /stats_tvl, /stats_tvc, /stats_external_coverage and /stats/apy.  While a
\* range is open it is the rows committed before that are read: the same as if
\* the page had been asked for before the range was taken.
AskPage(list) ==
    LET got == client.rows[list]
        page == FindAll(Table(list), Len(got), Limit)
    IN  /\ rangeEnd = 0
        /\ list \notin client.finished
        /\ list = "apy" => "tvl" \in client.finished
        /\ client' = [client EXCEPT
               !.rows = [@ EXCEPT ![list] = got \o page],
               !.since = IF got = <<>> THEN [@ EXCEPT ![list] = Range(Table(list))] ELSE @,
               !.finished = IF Len(page) < Limit THEN @ \cup {list} ELSE @]
        /\ UNCHANGED vars

AskAgain == client.finished = List /\ client' = Fresh /\ UNCHANGED vars

PagesNext ==
    \/ \E list \in List : AskPage(list)
    \/ AskAgain
    \/ Next /\ UNCHANGED client

PagesSpec == PagesInit /\ [][PagesNext]_pagesVars

-----------------------------------------------------------------------------
Received(list) == Range(client.rows[list])

\* Whatever is committed between two pages, a client that has come to the end of a
\* list misses no row that was there when it began.  Rows may be served twice, but
\* only as many as came in meanwhile (views/stats.py:15, models/stats_tvl.py:37).
PagesMissNothing ==
    \A list \in List :
        /\ list \in client.finished => client.since[list] \subseteq Received(list)
        /\ Received(list) \subseteq Range(Table(list))
        /\ Len(client.rows[list]) <= Len(Table(list))

\* A client that reads the TVLs and then the APYs has an APY for each period it has
\* a TVL of, whatever is committed and whatever fails in between: calc_tvl and
\* index_apy run in one transaction, and neither leaves a period out, not even
\* when no APY could be computed (views/stats.py:69-72, indexer.py:91-104, 163-181).
TvlRowsHaveApy ==
    "apy" \in client.finished => Received("tvl") \subseteq Received("apy")
=============================================================================
