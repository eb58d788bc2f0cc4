---------------------------- MODULE RequestExport ----------------------------
(***************************************************************************)
(* GET /api/endpoints/{token}/export.json: count, header, then the rows of *)
(* a server-side cursor with their bodies.  Count and cursor are two       *)
(* statements of a READ COMMITTED transaction, so each sees the rows       *)
(* committed when it starts; bodies are fetched from the blob store one by *)
(* one while the response is being sent (what they are is left out: a body *)
(* is body_preview, or the object, or null when neither is there).         *)
(***************************************************************************)
EXTENDS RequestTable

CONSTANT ExportMax      \* settings.export_max_requests

ASSUME ExportAssumption == ExportMax \in Nat

VARIABLES
    export,     \* "new", "counted", "streaming", "sent", "toolarge" or "broken"
    total,      \* exported_request_count in the header
    counted,    \* the rows count_by_endpoint has counted
    cursor,     \* rows the server-side cursor has yet to yield
    array       \* elements of the requests array sent so far

exportVars == <<export, total, counted, cursor, array>>

ExportTypeOK ==
    /\ export \in {"new", "counted", "streaming", "sent", "toolarge", "broken"}
    /\ total \in Nat
    /\ counted \subseteq RowIds
    /\ cursor \in Seq(RowIds)
    /\ array \in Seq(RowIds)

ExportInit ==
    /\ export = "new"
    /\ total = 0
    /\ counted = {}
    /\ cursor = << >>
    /\ array = << >>

Exported == Items(array)

\* count_by_endpoint; beyond the cap ExportTooLargeError becomes 413.
CountRows ==
    /\ export = "new"
    /\ counted' = Found
    /\ total' = Cardinality(Found)
    /\ export' = IF Cardinality(Found) > ExportMax THEN "toolarge" ELSE "counted"
    /\ UNCHANGED <<cursor, array>>

\* A mutant: the cursor stops one row short of the cap.
CursorRows_OffByOne == FirstOf(NewestFirst(Found), IF ExportMax = 0 THEN 0 ELSE ExportMax - 1)

\* A mutant: the cursor has no LIMIT.
CursorRows_Unlimited == NewestFirst(Found)

\* A mutant: the cursor takes the oldest rows.
CursorRows_OldestFirst ==
    LET newest == NewestFirst(Found)
    IN  FirstOf([i \in 1..Len(newest) |-> newest[Len(newest) + 1 - i]], ExportMax)

\* stream_for_export's statement.
CursorRows == FirstOf(NewestFirst(Found), ExportMax)

\* The header is out, the iteration of the rows begins.
OpenCursor ==
    /\ export = "counted"
    /\ cursor' = CursorRows
    /\ export' = "streaming"
    /\ UNCHANGED <<total, counted, array>>

\* One element of the array.
SendRow ==
    /\ export = "streaming"
    /\ cursor # << >>
    /\ array' = Append(array, Head(cursor))
    /\ cursor' = Tail(cursor)
    /\ UNCHANGED <<export, total, counted>>

CloseArray ==
    /\ export = "streaming"
    /\ cursor = << >>
    /\ export' = "sent"
    /\ UNCHANGED <<total, counted, cursor, array>>

\* The blob store's get or the database raises: 200 is out, the response breaks off.
BreakOff ==
    /\ export \in {"counted", "streaming"}
    /\ export' = "broken"
    /\ UNCHANGED <<total, counted, cursor, array>>

ExportStep ==
    \/ CountRows
    \/ OpenCursor
    \/ SendRow
    \/ CloseArray
    \/ BreakOff

-----------------------------------------------------------------------------
\* A complete export has at least as many rows as its header announces, although
\* captures go on between the count and the cursor and the cursor is capped.
ExportNotShort == export = "sent" => Cardinality(Exported) >= total

\* The cap holds for the array too, not only for the count.
ExportWithinCap == Len(array) <= ExportMax

\* A row that was counted and is not in the array is older than all that is, also
\* when the response breaks off half way; a complete export leaves such a row out
\* only when the cap is reached.
ExportMissesOldestOnly ==
    \A r \in counted \ Exported :
        /\ \A i \in 1..Len(array) : Younger(array[i], r)
        /\ export = "sent" => Len(array) = ExportMax

\* "`exported_request_count` is the count of rows in the array".
ExportCountExact == export = "sent" => Len(array) = total
=============================================================================
