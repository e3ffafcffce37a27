------------------------------- MODULE Listing -------------------------------
(***************************************************************************)
(* The answers that come in pages or are cut (handleSearch, handleList,    *)
(* handleDeadCode in internal/server/server.go, neighborhood.go), and the  *)
(* pages of /v1/projects and /v1/sessions.  The rows come from the         *)
(* database in a fixed order; the caller asks for the next page as long as *)
(* an answer says that there is one, with its other arguments as they      *)
(* were.  The index is not changed meanwhile.                              *)
(*                                                                         *)
(* A row is [id, good]: good says whether the filters that run in Go keep  *)
(* it, the confidence floor or the paths of fixtures.  A neighbor is       *)
(* [id, cost], its part of the response.                                   *)
(***************************************************************************)
EXTENDS Integers, SequencesExt

CONSTANTS
    DefaultLimit, LimitCap, OffsetCap,  \* of search: 20, 500 and 5000
    Budget                              \* of neighborhood: 18 KB

Least(a, b) == IF a < b THEN a ELSE b

Take(rowsOf, n) == SubSeq(rowsOf, 1, Least(n, Len(rowsOf)))
Good(rowsOf) == SelectSeq(rowsOf, LAMBDA r : r.good)

\* rows[from:to], and from where the next page starts, -1 when it is the last.
Page(rowsOf, from, to, next) ==
    [rows |-> SubSeq(rowsOf, from + 1, Least(to, Len(rowsOf))), next |-> next]

-----------------------------------------------------------------------------
(* search.  q is [hits, corpus, retry, floor, limit]: hits[f][c] are the   *)
(* hits of the query in the form f ("all" its words, "any" of them, or     *)
(* "prefix") in the corpus c, in their order; retry is the form to try     *)
(* when no corpus has a hit, "all" when there is none.                     *)

\* The places to look, in order: "" is code, then config and docs.
Tries(q) ==
    LET corpora == IF q.corpus = "" THEN <<"code", "config", "docs">> ELSE <<q.corpus>>
        of(form) == [i \in DOMAIN corpora |-> q.hits[form][corpora[i]]]
    IN  of("all") \o of(q.retry)

\* The hits of the first place that has some.
HitsOf(q) ==
    LET found == SelectSeq(Tries(q), LAMBDA hs : hs # <<>>)
    IN  IF found = <<>> THEN <<>> ELSE Head(found)

Limit(q) == IF q.limit <= 0 THEN DefaultLimit ELSE Least(q.limit, LimitCap)

\* Mutant: the rows of the pages before are not fetched again.
FetchOnePage(q, offset) == IF q.floor THEN 4 * Limit(q) ELSE Limit(q)

FetchLimit(q, offset) ==
    IF q.floor THEN 4 * (Limit(q) + offset) ELSE Limit(q) + offset

HandleSearch(q, offset) ==
    LET fetched == Take(HitsOf(q), FetchLimit(q, offset))
        kept == IF q.floor THEN Good(fetched) ELSE fetched
        end == offset + Limit(q)
        more == /\ offset < Len(kept)
                /\ end < Len(kept) \/ Len(kept) >= FetchLimit(q, offset)
    IN  Page(kept, offset, end, IF more THEN end ELSE -1)

-----------------------------------------------------------------------------
(* list, and neighborhood.                                                 *)

\* handleList after its filters; a limit of 0 or less is none.
HandleList(q, offset) ==
    LET kept == Good(q.rows)
        end == IF q.limit <= 0 THEN Len(kept) ELSE offset + q.limit
    IN  Page(kept, offset, end, IF end < Len(kept) THEN end ELSE -1)

\* The page ends before the row that would exceed the budget, but has a row.
HandleNeighborhood(q, offset) ==
    LET end == Least(offset + Least(IF q.limit <= 0 THEN DefaultLimit ELSE q.limit,
                                    LimitCap),
                     Len(q.rows))
        cost(i) == FoldLeft(LAMBDA sum, r : sum + r.cost, 0,
                            SubSeq(q.rows, offset + 1, i))
        over == {i \in offset + 2 .. end : cost(i) > Budget}
        stop == IF over = {} THEN end
                ELSE CHOOSE i \in offset .. end :
                        i + 1 \in over /\ \A j \in over : i < j
    IN  Page(q.rows, offset, stop, IF stop < Len(q.rows) THEN stop ELSE -1)

-----------------------------------------------------------------------------
(* dead_code, which has no pages: twice the limit is read from the         *)
(* database before fixtures and the like are left out.                     *)

HandleDeadCode(q) == Take(Good(Take(q.rows, 2 * q.limit)), q.limit)

-----------------------------------------------------------------------------
PageOf(q, offset) ==
    CASE q.tool = "search" -> HandleSearch(q, offset)
      [] q.tool = "list" -> HandleList(q, offset)
      [] q.tool = "neighborhood" -> HandleNeighborhood(q, offset)

\* All the pages that a caller gets who follows them; search cuts the offset.
Followed(q) ==
    LET last == IF q.tool = "search" THEN OffsetCap ELSE Len(q.rows)
        from[offset \in 0 .. last] ==
            LET p == PageOf(q, offset) IN
            p.rows \o (IF p.next \in offset + 1 .. last THEN from[p.next] ELSE <<>>)
    IN  from[0]
=============================================================================
