--------------------------- MODULE RequestReaders ---------------------------
(***************************************************************************)
(* One reader of an endpoint's requests, a listing or an export, while     *)
(* captures commit.                                                        *)
(***************************************************************************)
EXTENDS RequestListing, RequestExport

vars == <<tableVars, listingVars, exportVars>>

TypeOK == TableTypeOK /\ ListingTypeOK /\ ExportTypeOK

Init == TableInit /\ ListingInit /\ ExportInit

Listing == ListingStep /\ export = "new" /\ UNCHANGED <<tableVars, exportVars>>

Exporting == ExportStep /\ walk = "new" /\ UNCHANGED <<tableVars, listingVars>>

Next ==
    \/ \E r \in RowIds : CommitRow(r) /\ UNCHANGED <<listingVars, exportVars>>
    \/ Listing
    \/ Exporting

Spec == Init /\ [][Next]_vars

\* The client of a walk asks for its next page.
FairSpec == Spec /\ WF_vars(Listing /\ walk = "walking")
-----------------------------------------------------------------------------
(* An inductive invariant: what the pages so far, and the open cursor, are *)

\* The cursor of a walk is the last row listed, and what the walk has still to list of
\* the rows it began with is older than that row.
WalkInv ==
    /\ walk = "new" => listed = << >> /\ before_id = None
    /\ at_start \cup Items(listed) \subseteq Found
    /\ walk = "walking" /\ listed = << >> => before_id = None
    /\ walk = "walking" /\ listed # << >> =>
          /\ before_id = listed[Len(listed)]
          /\ \A r \in at_start \ Items(listed) : Older(r, before_id)
    /\ WalkDescends
    /\ WalkComplete

\* The rows an export sends in all, if it does not break off.
Sending == array \o cursor

\* The cursor was opened on the newest rows, at most ExportMax of them, and a counted
\* row is not among them only when the cap is reached.
ExportInv ==
    /\ export \in {"new", "counted", "toolarge"} => Sending = << >>
    /\ export = "sent" => cursor = << >>
    /\ counted \subseteq Found
    /\ total = Cardinality(counted)
    /\ export # "toolarge" => total <= ExportMax
    /\ Len(Sending) <= ExportMax
    /\ \A i, j \in 1..Len(Sending) : i < j => Younger(Sending[i], Sending[j])
    /\ \A r \in counted \ Items(Sending) :
          /\ \A i \in 1..Len(Sending) : Younger(Sending[i], r)
          /\ export \in {"streaming", "sent"} => Len(Sending) = ExportMax

\* While captures commit between any two statements of either reader: the pages are one
\* descending list whose cursor is its end, the export is a prefix of its cursor's rows.
ReadersInv == TypeOK /\ WalkInv /\ ExportInv
=============================================================================
