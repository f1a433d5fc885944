------------------------- MODULE RoutingPagination -------------------------
(***************************************************************************)
(* The built-in offset pagination of RoutingNode.makeRoutingRequest and   *)
(* the maxResults trim of RoutingNode.runNode                             *)
(* (packages/workflow/src/RoutingNode.ts), for one input item.            *)
(*                                                                         *)
(* One iteration of the do ... while loop is one step: the maxResults     *)
(* check, the limit parameter, the request (an await, answered by the     *)
(* API), the offset advance and the loop test.  Items are counted, not   *)
(* named: the properties are about how many pages are asked for and how   *)
(* many items come back.  The API holds Total items and answers a page at *)
(* an offset with at most the number asked for; an API that ignores the   *)
(* limit parameter answers with up to pageSize items.                     *)
(***************************************************************************)
EXTENDS Naturals

CONSTANTS
    PageSize,     \* properties.pageSize
    MaxTotal,     \* bound: most items the API may hold
    MaxResultsSet \* values of requestData.maxResults; 0 is "not set"

ASSUME PageSize \in Nat \ {0} /\ MaxResultsSet \subseteq Nat

MinOf(a, b) == IF a < b THEN a ELSE b

VARIABLES
    total,        \* items the API holds for this query
    honorsLimit,  \* whether the API applies the limit parameter
    maxResults,   \* requestData.maxResults after mergeOptions
    offset,       \* qs[offsetParameter]
    limit,        \* qs[limitParameter]
    responseData, \* items accumulated so far
    pages,        \* requests issued
    output,       \* items runNode pushes into returnData
    pc            \* "loop", "trim" (makeRoutingRequest returned), "done"

vars == <<total, honorsLimit, maxResults, offset, limit, responseData, pages,
          output, pc>>

TypeOK ==
    /\ total \in 0..MaxTotal
    /\ honorsLimit \in BOOLEAN
    /\ maxResults \in MaxResultsSet
    /\ offset \in Nat /\ limit \in Nat /\ responseData \in Nat
    /\ pages \in Nat /\ output \in Nat
    /\ pc \in {"loop", "trim", "done"}

\* The limit and offset parameters start at pageSize and 0.
Init ==
    /\ total \in 0..MaxTotal
    /\ honorsLimit \in BOOLEAN
    /\ maxResults \in MaxResultsSet
    /\ offset = 0
    /\ limit = PageSize
    /\ responseData = 0
    /\ pages = 0
    /\ output = 0
    /\ pc = "loop"

\* The page rawRoutingRequest returns for the current parameters.
PageLen(lim) ==
    LET asked == IF honorsLimit THEN lim ELSE PageSize
        left == IF total > offset THEN total - offset ELSE 0
    IN  MinOf(asked, left)

\* Fault variant: "continue" instead of "break"; the do ... while test
\* sees the previous full page again and the loop spins.
PaginateDone_continue ==
    /\ pc = "loop"
    /\ maxResults > 0
    /\ maxResults - responseData < 1
    /\ UNCHANGED vars

\* "Only request as many results as needed": break once nothing is
\* missing, otherwise lower the limit to what is missing.
PaginateDone ==
    /\ pc = "loop"
    /\ maxResults > 0
    /\ maxResults - responseData < 1
    /\ pc' = "trim"
    /\ UNCHANGED <<total, honorsLimit, maxResults, offset, limit,
                   responseData, pages, output>>

\* Fault variant: the "resultsMissing < 1" break is not checked first.
PaginateRequest_noBreakCheck ==
    LET lim == IF maxResults > 0
               THEN MinOf(PageSize, maxResults - responseData) ELSE limit
        got == PageLen(lim)
    IN  /\ pc = "loop"
        /\ limit' = lim
        /\ offset' = offset + PageSize
        /\ responseData' = responseData + got
        /\ pages' = pages + 1
        /\ pc' = IF got > 0 /\ got = PageSize THEN "loop" ELSE "trim"
        /\ UNCHANGED <<total, honorsLimit, maxResults, output>>

\* Fault variant: the loop test only asks for a non-empty page, so a short
\* last page is followed by another request.
PaginateRequest_shortPageContinues ==
    LET lim == IF maxResults > 0
               THEN MinOf(PageSize, maxResults - responseData) ELSE limit
        got == PageLen(lim)
    IN  /\ pc = "loop"
        /\ maxResults > 0 => maxResults - responseData >= 1
        /\ limit' = lim
        /\ offset' = offset + PageSize
        /\ responseData' = responseData + got
        /\ pages' = pages + 1
        /\ pc' = IF got > 0 THEN "loop" ELSE "trim"
        /\ UNCHANGED <<total, honorsLimit, maxResults, output>>

PaginateRequest ==
    LET lim == IF maxResults > 0
               THEN MinOf(PageSize, maxResults - responseData) ELSE limit
        got == PageLen(lim)
    IN  /\ pc = "loop"
        /\ maxResults > 0 => maxResults - responseData >= 1
        /\ limit' = lim
        /\ offset' = offset + PageSize
        /\ responseData' = responseData + got
        /\ pages' = pages + 1
        /\ pc' = IF got > 0 /\ got = PageSize THEN "loop" ELSE "trim"
        /\ UNCHANGED <<total, honorsLimit, maxResults, output>>

\* Fault variant: runNode pushes the pages without the splice.
TrimToMaxResults_noSplice ==
    /\ pc = "trim"
    /\ output' = responseData
    /\ pc' = "done"
    /\ UNCHANGED <<total, honorsLimit, maxResults, offset, limit,
                   responseData, pages>>

\* runNode: responseData.splice(maxResults) when maxResults is set.
TrimToMaxResults ==
    /\ pc = "trim"
    /\ output' = IF maxResults > 0 THEN MinOf(responseData, maxResults)
                 ELSE responseData
    /\ pc' = "done"
    /\ UNCHANGED <<total, honorsLimit, maxResults, offset, limit,
                   responseData, pages>>

Next == PaginateDone \/ PaginateRequest \/ TrimToMaxResults

\* Each page request is awaited by the node and answered; nothing else of
\* this item runs meanwhile.  The computation ends at "done".
Spec == Init /\ [][Next]_vars /\ WF_vars(Next)

-----------------------------------------------------------------------------
(* Properties *)

\* No iteration accumulates past what the API holds plus one page; this
\* bounds the state space of a loop that would not end.
StateBound == responseData <= MaxTotal + PageSize

\* Spec 8: the items the node returns number min(N, maxResults) when
\* maxResults is set and N otherwise, whether or not the API applies the
\* lowered limit on the last page.
ItemCountIsCapped ==
    pc = "done" =>
        output = IF maxResults > 0 THEN MinOf(total, maxResults) ELSE total

\* The pages the loop asks for.  Spec 8 says ceil(N/P) when maxResults is
\* unset; the loop stops only on a page shorter than pageSize, so it asks
\* for N div P + 1 pages, one more (empty) page when P divides N, one for
\* N = 0.  When maxResults = M is set and N >= M, the resultsMissing break
\* saves that page: ceil(M/P) pages, whether or not the API applies the
\* lowered limit of the last page.
CeilDiv(a, b) == (a + b - 1) \div b

PageCount ==
    pc = "done" =>
        pages = IF maxResults > 0 /\ total >= maxResults
                THEN CeilDiv(maxResults, PageSize)
                ELSE total \div PageSize + 1

\* The loop ends: every item's pagination reaches the trim and returns.
PaginationTerminates == <>(pc = "done")

=============================================================================
