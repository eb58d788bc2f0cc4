--------------------------- MODULE RequestListing ---------------------------
(***************************************************************************)
(* Readers of ListRequests: a client of                                    *)
(* GET /api/endpoints/{token}/requests that follows next_before_id from    *)
(* page to page, and the viewer, which shows one page (GET /{token}, and   *)
(* requests.fragment for its search box), while captures go on.            *)
(***************************************************************************)
EXTENDS RequestTable

CONSTANT Limits     \* values of the limit parameter; the viewer's is 50

ASSUME LimitAssumption == Limits \subseteq Int

VARIABLES
    walk,       \* "new", "walking", "done" or "error"; "viewed" for one page
    limit,
    before_id,  \* the cursor the client sends next
    listed,     \* the items of all pages so far
    at_start    \* the rows that were there when the reader began

listingVars == <<walk, limit, before_id, listed, at_start>>

ListingTypeOK ==
    /\ walk \in {"new", "walking", "done", "error", "viewed"}
    /\ limit \in Limits \cup {0}
    /\ before_id \in RowIds \cup {None}
    /\ listed \in Seq(RowIds)
    /\ at_start \subseteq RowIds

ListingInit ==
    /\ walk = "new"
    /\ limit = 0
    /\ before_id = None
    /\ listed = << >>
    /\ at_start = {}

\* list_by_endpoint: the rows after the cursor, newest first, at most limit.  A
\* before_id that names no row is ignored.
Page(n) == FirstOf(NewestFirst({r \in Found : before_id \notin rows \/ Older(r, before_id)}), n)

StartWalk(n) ==
    /\ walk = "new"
    /\ walk' = "walking"
    /\ limit' = n
    /\ at_start' = Found
    /\ UNCHANGED <<before_id, listed>>

\* A mutant: the cursor is a time and not an id.
NextBefore_Stamp(items) == received_at[items[Len(items)]]

NextBefore(items) == items[Len(items)]

\* One request of the client.  A full page carries a cursor.
FetchPage ==
    /\ walk = "walking"
    /\ limit > 0
    /\ listed' = listed \o Page(limit)
    /\ IF Len(Page(limit)) = limit
       THEN before_id' = NextBefore(Page(limit)) /\ UNCHANGED walk
       ELSE before_id' = None /\ walk' = "done"
    /\ UNCHANGED <<limit, at_start>>

\* A mutant: an empty page that passes for a full one sends the client's cursor back.
FetchFails_SameCursor ==
    /\ walk = "walking"
    /\ limit <= 0
    /\ UNCHANGED listingVars

\* limit=0 passes for a full page and items[-1] raises IndexError; a negative
\* LIMIT is an error of the statement.  Both are a 500.
FetchFails ==
    /\ walk = "walking"
    /\ limit <= 0
    /\ walk' = "error"
    /\ UNCHANGED <<limit, before_id, listed, at_start>>

\* The viewer renders one page and has no link to the next.
View(n) ==
    /\ walk = "new"
    /\ n > 0
    /\ walk' = "viewed"
    /\ limit' = n
    /\ listed' = Page(n)
    /\ at_start' = Found
    /\ UNCHANGED before_id

ListingStep ==
    \/ \E n \in Limits : StartWalk(n) \/ View(n)
    \/ FetchPage
    \/ FetchFails

-----------------------------------------------------------------------------
\* The pages of a walk are one strictly descending list: no row comes twice,
\* whichever rows are committed between two pages.
WalkDescends ==
    \A i, j \in 1..Len(listed) :
        i < j => Younger(listed[i], listed[j])

\* A finished walk has every row that was there when it began, also when many
\* rows share a received_at; what a single page leaves out is older than all of it.
WalkComplete ==
    \A r \in at_start \ Items(listed) :
        /\ walk # "done"
        /\ walk = "viewed" => /\ Len(listed) = limit
                              /\ \A i \in 1..limit : Younger(listed[i], r)

\* A walk comes to an end, whatever its limit and although rows keep coming: no
\* page sends the client round again (an empty page that counts as full would).
WalkEnds == (walk = "walking") ~> (walk \in {"done", "error"})
=============================================================================
