------------------------ MODULE RequestReadersProofs ------------------------
(***************************************************************************)
(* Theorems about RequestReaders, for any set of rows of which finitely    *)
(* many are committed at a time, any stamps, limits and cap.               *)
(***************************************************************************)
EXTENDS RequestReaders, RankLemmas

-----------------------------------------------------------------------------
(* The order of the statements *)

ByAge(S) == {p \in S \X S : Younger(p[1], p[2])}

\* Stamp and id together order rows totally, also when stamps are equal.
LEMMA AgeIsOrder ==
    ASSUME TableTypeOK, NEW S \in SUBSET RowIds
    PROVE  StrictTotalOrder(S, ByAge(S))
<1>1. \A r \in RowIds : r \in Int /\ received_at[r] \in Int
  BY RowAssumption DEF TableTypeOK
<1>2. \A r, s \in S : <<r, s>> \in ByAge(S) <=> Younger(r, s)
  BY DEF ByAge
<1> QED
  BY <1>1, <1>2 DEF StrictTotalOrder, Younger

\* What the cursor's comparison selects is what comes later in ORDER BY.
LEMMA OlderIsLater ==
    ASSUME TableTypeOK, NEW r \in RowIds, NEW s \in RowIds
    PROVE  /\ Older(r, s) <=> Younger(s, r)
           /\ Younger(s, r) => ~ Younger(r, s) /\ r # s
           /\ r # s => Younger(s, r) \/ Younger(r, s)
           /\ \A u \in RowIds : Younger(u, s) /\ Younger(s, r) => Younger(u, r)
<1>1. \A u \in RowIds : u \in Int /\ received_at[u] \in Int
  BY RowAssumption DEF TableTypeOK
<1> QED
  BY <1>1 DEF Older, Younger

\* ORDER BY lists each row once, in strictly descending order.
LEMMA NewestFirstSorts ==
    ASSUME TableTypeOK, NEW S \in SUBSET RowIds, IsFiniteSet(S)
    PROVE  /\ NewestFirst(S) \in Seq(S)
           /\ \A i, j \in 1..Len(NewestFirst(S)) :
                 i < j => Younger(NewestFirst(S)[i], NewestFirst(S)[j])
           /\ Items(NewestFirst(S)) = S
<1> DEFINE list == NewestFirst(S)
           n == Cardinality(S)
<1>1. n \in Nat
  BY FS_CardinalityType
<1>2. StrictTotalOrder(S, ByAge(S))
  BY AgeIsOrder
<1>3. \A r \in S : {s \in S : Younger(s, r)} = Before(S, ByAge(S), r)
  BY DEF Before, ByAge
<1>4. ASSUME NEW i \in 1..n
      PROVE  list[i] \in S /\ Rank(S, ByAge(S), list[i]) = i - 1
  <2>1. \E r \in S : Rank(S, ByAge(S), r) = i - 1
    BY <1>1, <1>2, RankExists
  <2>2. \E r \in S : Cardinality({s \in S : Younger(s, r)}) = i - 1
    BY <1>3, <2>1 DEF Rank
  <2>3. list[i] = CHOOSE r \in S : Cardinality({s \in S : Younger(s, r)}) = i - 1
    BY DEF NewestFirst
  <2>4. list[i] \in S /\ Cardinality({s \in S : Younger(s, list[i])}) = i - 1
    BY <2>2, <2>3
  <2> QED
    BY <1>3, <2>4 DEF Rank
<1>5. list \in [1..n -> S]
  BY <1>4 DEF NewestFirst
<1>6. list \in Seq(S) /\ Len(list) = n
  BY <1>1, <1>5
<1>7. ASSUME NEW i \in 1..n, NEW j \in 1..n, i < j
      PROVE  Younger(list[i], list[j])
  <2>1. <<list[i], list[j]>> \in ByAge(S)
    BY <1>1, <1>2, <1>4, <1>7, RankOrders
  <2> QED
    BY <2>1 DEF ByAge
<1>8. ASSUME NEW r \in S
      PROVE  \E i \in 1..n : list[i] = r
  <2>1. Rank(S, ByAge(S), r) \in 0..(n - 1)
    BY <1>2, RankType
  <2>2. Rank(S, ByAge(S), r) + 1 \in 1..n
    BY <1>1, <2>1
  <2>3. Rank(S, ByAge(S), list[Rank(S, ByAge(S), r) + 1]) = Rank(S, ByAge(S), r)
    BY <1>1, <1>4, <2>1, <2>2
  <2>4. list[Rank(S, ByAge(S), r) + 1] = r
    BY <1>2, <1>4, <2>2, <2>3, RankOrders
  <2> QED
    BY <2>2, <2>4
<1> HIDE DEF list
<1>9. Items(list) = S
  BY <1>4, <1>6, <1>8 DEF Items
<1> QED
  BY <1>6, <1>7, <1>9 DEF list

\* ORDER BY with LIMIT n: what it leaves out is older than all it returns, and then
\* it returns n rows.
LEMMA NewestPage ==
    ASSUME TableTypeOK, NEW S \in SUBSET RowIds, IsFiniteSet(S), NEW n \in Nat,
           NEW page, page = FirstOf(NewestFirst(S), n)
    PROVE  /\ page \in Seq(S)
           /\ Len(page) <= n
           /\ \A i, j \in 1..Len(page) : i < j => Younger(page[i], page[j])
           /\ \A r \in S \ Items(page) :
                 /\ Len(page) = n
                 /\ \A i \in 1..Len(page) : Younger(page[i], r)
<1> DEFINE list == NewestFirst(S)
<1>1. /\ list \in Seq(S)
      /\ \A i, j \in 1..Len(list) : i < j => Younger(list[i], list[j])
      /\ Items(list) = S
  BY NewestFirstSorts
<1>2. page = FirstOf(list, n)
  OBVIOUS
<1> HIDE DEF list
<1>3. /\ page \in Seq(S)
      /\ Len(page) = IF n < Len(list) THEN n ELSE Len(list)
      /\ \A i \in 1..Len(page) : page[i] = list[i]
  BY <1>1, <1>2 DEF FirstOf
<1>4. \A i, j \in 1..Len(page) : i < j => Younger(page[i], page[j])
  BY <1>1, <1>3
<1>5. ASSUME NEW r \in S \ Items(page)
      PROVE  Len(page) = n /\ \A i \in 1..Len(page) : Younger(page[i], r)
  <2>1. PICK k \in 1..Len(list) : list[k] = r
    BY <1>1 DEF Items
  <2>2. k \notin 1..Len(page)
    BY <1>3, <2>1 DEF Items
  <2> QED
    BY <1>1, <1>3, <2>1, <2>2
<1> QED
  BY <1>1, <1>3, <1>4, <1>5

\* Of a table there are only finitely many rows.
LEMMA FoundFinite ==
    ASSUME TableTypeOK
    PROVE  Found \in SUBSET RowIds /\ IsFiniteSet(Found)
BY FS_Subset DEF TableTypeOK, Found

-----------------------------------------------------------------------------
(* Pages *)

\* One page, from the top or from a cursor that names a committed row: what it
\* leaves out comes after it, and it stays below the cursor.
LEMMA PageIsNext ==
    ASSUME TableTypeOK, NEW n \in Nat, before_id \in RowIds \cup {None}
    PROVE  /\ Page(n) \in Seq(Found)
           /\ Len(Page(n)) <= n
           /\ \A i, j \in 1..Len(Page(n)) : i < j => Younger(Page(n)[i], Page(n)[j])
           /\ before_id \in rows => \A i \in 1..Len(Page(n)) : Older(Page(n)[i], before_id)
           /\ \A r \in Found \ Items(Page(n)) :
                 before_id \notin rows \/ Older(r, before_id) =>
                    /\ Len(Page(n)) = n
                    /\ \A i \in 1..Len(Page(n)) : Younger(Page(n)[i], r)
<1> DEFINE S == {r \in Found : before_id \notin rows \/ Older(r, before_id)}
           page == Page(n)
<1>1. S \in SUBSET RowIds /\ IsFiniteSet(S) /\ S \subseteq Found
  BY FoundFinite, FS_Subset
<1>2. page = FirstOf(NewestFirst(S), n)
  BY DEF Page
<1> HIDE DEF page
<1>3. /\ page \in Seq(S)
      /\ Len(page) <= n
      /\ \A i, j \in 1..Len(page) : i < j => Younger(page[i], page[j])
      /\ \A r \in S \ Items(page) :
            /\ Len(page) = n
            /\ \A i \in 1..Len(page) : Younger(page[i], r)
  <2> HIDE DEF S
  <2> QED
    BY <1>1, <1>2, NewestPage
<1>4. page \in Seq(Found) /\ \A i \in 1..Len(page) : page[i] \in S
  BY <1>1, <1>3
<1> QED
  BY <1>3, <1>4 DEF page

\* A page is one more stretch of the descending list.
LEMMA PageExtends ==
    ASSUME TypeOK, WalkInv, walk = "walking", NEW n \in Nat,
           NEW page, page = Page(n), NEW all, all = listed \o page
    PROVE  /\ all \in Seq(RowIds)
           /\ Items(all) = Items(listed) \cup Items(page)
           /\ Items(all) \subseteq Found
           /\ \A i, j \in 1..Len(all) : i < j => Younger(all[i], all[j])
           /\ \A r \in at_start \ Items(all) :
                 /\ Len(page) = n
                 /\ \A i \in 1..Len(page) : Younger(page[i], r)
<1> USE DEF TypeOK, ListingTypeOK
<1>1. /\ page \in Seq(Found)
      /\ \A i, j \in 1..Len(page) : i < j => Younger(page[i], page[j])
      /\ before_id \in rows => \A i \in 1..Len(page) : Older(page[i], before_id)
      /\ \A r \in Found \ Items(page) :
            before_id \notin rows \/ Older(r, before_id) =>
               /\ Len(page) = n
               /\ \A i \in 1..Len(page) : Younger(page[i], r)
  BY PageIsNext
<1>2. Found \subseteq RowIds /\ Found \subseteq rows /\ None \notin rows
  BY RowAssumption DEF TableTypeOK, Found
<1>3. page \in Seq(RowIds) /\ listed \in Seq(RowIds) /\ all \in Seq(RowIds)
  BY <1>1, <1>2
<1>4. /\ Len(all) = Len(listed) + Len(page)
      /\ \A i \in 1..Len(listed) : all[i] = listed[i]
      /\ \A i \in 1..Len(page) : all[Len(listed) + i] = page[i]
  BY <1>3
<1>5. Items(all) = Items(listed) \cup Items(page)
  <2>1. \A i \in 1..Len(all) : i \in 1..Len(listed) \/ i - Len(listed) \in 1..Len(page)
    BY <1>3, <1>4
  <2>2. \A i \in 1..Len(page) : Len(listed) + i \in 1..Len(all)
    BY <1>3, <1>4
  <2>3. \A i \in 1..Len(listed) : i \in 1..Len(all)
    BY <1>3, <1>4
  <2>4. \A i \in 1..Len(all) : all[i] \in Items(listed) \cup Items(page)
    <3> TAKE i \in 1..Len(all)
    <3>1. CASE i \in 1..Len(listed)
      BY <1>4, <3>1 DEF Items
    <3>2. CASE i - Len(listed) \in 1..Len(page)
      <4>1. i = Len(listed) + (i - Len(listed))
        BY <1>3
      <4> QED
        BY <1>4, <3>2, <4>1 DEF Items
    <3> QED
      BY <2>1, <3>1, <3>2
  <2> QED
    BY <1>4, <2>2, <2>3, <2>4 DEF Items
<1>6. Items(all) \subseteq Found /\ at_start \subseteq Found
  BY <1>1, <1>5 DEF WalkInv, Items
<1>7. listed = << >> => before_id \notin rows
  BY <1>2 DEF WalkInv
<1>8. listed # << >> => /\ Len(listed) \in 1..Len(listed)
                        /\ before_id = listed[Len(listed)]
                        /\ before_id \in rows
  <2> SUFFICES ASSUME listed # << >>
               PROVE  /\ Len(listed) \in 1..Len(listed)
                      /\ before_id = listed[Len(listed)]
                      /\ before_id \in rows
    OBVIOUS
  <2>1. Len(listed) \in 1..Len(listed) /\ before_id = listed[Len(listed)]
    BY <1>3 DEF WalkInv
  <2> QED
    BY <1>2, <2>1 DEF WalkInv, Items
<1>9. ASSUME NEW i \in 1..Len(listed), NEW r \in RowIds,
             before_id \in rows => Older(r, before_id)
      PROVE  Younger(listed[i], r)
  <2>1. /\ listed # << >> /\ Len(listed) \in 1..Len(listed)
        /\ before_id = listed[Len(listed)] /\ before_id \in RowIds
        /\ Older(r, before_id)
    BY <1>2, <1>3, <1>8, <1>9 DEF TableTypeOK
  <2>2. Younger(before_id, r)
    BY <2>1, OlderIsLater
  <2>3. CASE i = Len(listed)
    BY <2>1, <2>2, <2>3
  <2>4. CASE i < Len(listed)
    <3>1. Younger(listed[i], before_id)
      BY <2>1, <2>4 DEF WalkInv, WalkDescends
    <3> QED
      BY <1>3, <2>1, <2>2, <3>1, OlderIsLater
  <2> QED
    BY <1>3, <2>3, <2>4
<1>10. ASSUME NEW i \in 1..Len(all), NEW j \in 1..Len(all), i < j
       PROVE  Younger(all[i], all[j])
  <2>1. CASE j \in 1..Len(listed)
    BY <1>3, <1>4, <1>10, <2>1 DEF WalkInv, WalkDescends
  <2>2. CASE i \notin 1..Len(listed)
    <3>1. /\ i - Len(listed) \in 1..Len(page) /\ j - Len(listed) \in 1..Len(page)
          /\ i - Len(listed) < j - Len(listed)
          /\ i = Len(listed) + (i - Len(listed)) /\ j = Len(listed) + (j - Len(listed))
      BY <1>3, <1>4, <1>10, <2>2
    <3>2. all[i] = page[i - Len(listed)] /\ all[j] = page[j - Len(listed)]
      BY <1>4, <3>1
    <3> QED
      BY <1>1, <3>1, <3>2
  <2>3. CASE i \in 1..Len(listed) /\ j \notin 1..Len(listed)
    <3>1. j - Len(listed) \in 1..Len(page) /\ j = Len(listed) + (j - Len(listed))
      BY <1>3, <1>4, <2>3
    <3>2. all[i] = listed[i] /\ all[j] = page[j - Len(listed)]
      BY <1>4, <2>3, <3>1
    <3>3. all[j] \in RowIds
      BY <1>3
    <3> QED
      BY <1>1, <1>9, <2>3, <3>1, <3>2, <3>3
  <2> QED
    BY <2>1, <2>2, <2>3, <1>3, <1>4, <1>10
<1>11. ASSUME NEW r \in at_start \ Items(all)
       PROVE  Len(page) = n /\ \A i \in 1..Len(page) : Younger(page[i], r)
  <2>1. before_id \notin rows \/ Older(r, before_id)
    BY <1>5, <1>7 DEF WalkInv
  <2> QED
    BY <1>1, <1>5, <1>6, <2>1
<1> QED
  BY <1>3, <1>5, <1>6, <1>10, <1>11

\* The client begins a walk, and the viewer shows its page.
LEMMA StartInv ==
    ASSUME TypeOK, WalkInv, UNCHANGED tableVars,
           NEW n \in Limits, StartWalk(n) \/ View(n)
    PROVE  ListingTypeOK' /\ WalkInv'
<1> USE LimitAssumption DEF TypeOK, ListingTypeOK, tableVars
<1>1. Found \in SUBSET RowIds /\ None \notin rows /\ UNCHANGED Found
  BY FoundFinite, RowAssumption DEF TableTypeOK, Found
<1>2. listed = << >> /\ before_id = None /\ Items(listed) = {}
  BY DEF StartWalk, View, WalkInv, Items
<1>3. CASE StartWalk(n)
  <2>1. ListingTypeOK'
    BY <1>1, <1>3 DEF StartWalk
  <2> QED
    BY <1>1, <1>2, <1>3, <2>1 DEF StartWalk, WalkInv, WalkDescends, WalkComplete, Items
<1>4. CASE View(n)
  <2> DEFINE page == Page(n)
  <2>0. n \in Nat
    BY <1>4 DEF View
  <2>1. /\ page \in Seq(Found)
        /\ \A i, j \in 1..Len(page) : i < j => Younger(page[i], page[j])
        /\ \A r \in Found \ Items(page) :
              /\ Len(page) = n
              /\ \A i \in 1..Len(page) : Younger(page[i], r)
    BY <1>1, <1>2, <2>0, PageIsNext
  <2>2. /\ walk' = "viewed" /\ limit' = n /\ listed' = page /\ at_start' = Found
        /\ before_id' = None
    BY <1>2, <1>4 DEF View
  <2> HIDE DEF page
  <2>3. Items(page) \subseteq Found /\ page \in Seq(RowIds)
    BY <1>1, <2>1 DEF Items
  <2>4. ListingTypeOK'
    BY <1>1, <2>2, <2>3
  <2>5. WalkDescends'
    BY <2>1, <2>2 DEF WalkDescends, Younger
  <2>6. WalkComplete'
    BY <2>1, <2>2 DEF WalkComplete, Younger, Items
  <2> QED
    BY <1>1, <2>2, <2>3, <2>4, <2>5, <2>6 DEF WalkInv, Items
<1> QED
  BY <1>3, <1>4

\* The client fetches the next page of its walk.
LEMMA FetchInv ==
    ASSUME TypeOK, WalkInv, UNCHANGED tableVars, FetchPage
    PROVE  ListingTypeOK' /\ WalkInv'
<1> USE DEF TypeOK, ListingTypeOK, tableVars
<1> DEFINE page == Page(limit)
           all == listed \o page
<1>1. walk = "walking" /\ limit \in Nat /\ limit > 0 /\ UNCHANGED Found
  BY LimitAssumption DEF FetchPage, Found
<1>2. /\ all \in Seq(RowIds)
      /\ Items(all) = Items(listed) \cup Items(page)
      /\ Items(all) \subseteq Found
      /\ \A i, j \in 1..Len(all) : i < j => Younger(all[i], all[j])
      /\ \A r \in at_start \ Items(all) :
            /\ Len(page) = limit
            /\ \A i \in 1..Len(page) : Younger(page[i], r)
  BY <1>1, PageExtends
<1>3. page \in Seq(Found) /\ page \in Seq(RowIds)
  <2>1. page \in Seq(Found)
    BY <1>1, PageIsNext
  <2>2. Found \subseteq RowIds
    BY FoundFinite
  <2> QED
    BY <2>1, <2>2
<1>4. listed' = all /\ UNCHANGED <<limit, at_start, received_at>>
  BY DEF FetchPage
<1>5. \/ Len(page) = limit /\ before_id' = page[Len(page)] /\ walk' = "walking"
      \/ Len(page) # limit /\ before_id' = None /\ walk' = "done"
  BY <1>1 DEF FetchPage, NextBefore
<1> HIDE DEF page
<1>6. \/ Len(page) \in 1..Len(page) /\ all # << >> /\ all[Len(all)] = page[Len(page)]
      \/ Len(page) # limit
  BY <1>1, <1>3
<1> HIDE DEF all
<1>7. ListingTypeOK'
  BY <1>2, <1>3, <1>4, <1>5, <1>6
<1>8. WalkDescends'
  BY <1>2, <1>4 DEF WalkDescends, Younger
<1>9. WalkComplete'
  BY <1>2, <1>4, <1>5 DEF WalkComplete, Items
<1>10. (at_start \cup Items(listed) \subseteq Found)'
  BY <1>1, <1>2, <1>4 DEF WalkInv, Items
<1>11. ASSUME walk' = "walking"
       PROVE  /\ listed' # << >> /\ before_id' = listed'[Len(listed')]
              /\ \A r \in at_start \ Items(all) : Older(r, page[Len(page)])
  <2>1. listed' # << >> /\ before_id' = listed'[Len(listed')] /\ Len(page) \in 1..Len(page)
    BY <1>4, <1>5, <1>6, <1>11
  <2>2. at_start \subseteq RowIds /\ page[Len(page)] \in RowIds
    BY <1>3, <2>1
  <2>3. \A r \in at_start \ Items(all) : Older(r, page[Len(page)])
    BY <1>2, <2>1, <2>2, OlderIsLater
  <2> QED
    BY <2>1, <2>3
<1>12. ASSUME walk' = "walking"
       PROVE  \A r \in (at_start \ Items(listed))' : Older(r, before_id)'
  BY <1>4, <1>5, <1>11, <1>12 DEF Older, Items
<1> QED
  BY <1>5, <1>7, <1>8, <1>9, <1>10, <1>11, <1>12 DEF WalkInv

\* A row that is committed now is in none of the lists.
LEMMA CommitKeepsWalk ==
    ASSUME TypeOK, WalkInv, NEW r \in RowIds, CommitRow(r), UNCHANGED listingVars
    PROVE  ListingTypeOK' /\ WalkInv'
<1> USE DEF CommitRow, listingVars
<1>1. Found \subseteq Found'
  BY DEF Found
<1>2. ListingTypeOK'
  BY DEF TypeOK, ListingTypeOK
<1>3. WalkDescends' /\ WalkComplete'
  BY DEF WalkInv, WalkDescends, WalkComplete, Younger, Items
<1> QED
  BY <1>1, <1>2, <1>3 DEF WalkInv, Items, Older

\* Nothing of a listing or its table changes, or the walk fails.
LEMMA RestKeepsWalk ==
    ASSUME TypeOK, WalkInv, UNCHANGED tableVars, FetchFails \/ UNCHANGED listingVars
    PROVE  ListingTypeOK' /\ WalkInv'
<1>1. /\ UNCHANGED <<received_at, selected, rows, limit, before_id, listed, at_start>>
      /\ walk' = walk \/ walk' = "error"
  BY DEF tableVars, listingVars, FetchFails
<1>2. ListingTypeOK'
  BY <1>1 DEF TypeOK, ListingTypeOK
<1>3. WalkDescends' /\ WalkComplete'
  BY <1>1 DEF WalkInv, WalkDescends, WalkComplete, Younger, Items
<1> QED
  BY <1>1, <1>2, <1>3 DEF WalkInv, Items, Older, Found

-----------------------------------------------------------------------------
(* The export *)

\* The count: it is of the rows that are committed now.
LEMMA CountInv ==
    ASSUME TypeOK, ExportInv, UNCHANGED tableVars, CountRows
    PROVE  ExportTypeOK' /\ ExportInv'
<1> USE ExportAssumption DEF TypeOK, ExportTypeOK, CountRows, tableVars
<1>1. Found \in SUBSET RowIds /\ Cardinality(Found) \in Nat /\ UNCHANGED Found
  BY FoundFinite, FS_CardinalityType DEF Found
<1>2. Sending = << >> /\ UNCHANGED <<Sending, received_at>>
  BY DEF ExportInv, Sending
<1>3. ExportTypeOK'
  BY <1>1
<1>4. export' \in {"counted", "toolarge"} /\ (export' = "counted" => total' <= ExportMax)
  BY <1>1
<1> QED
  BY <1>1, <1>2, <1>3, <1>4 DEF ExportInv

\* The cursor: what was counted is still there, and younger rows may be as well.
LEMMA OpenInv ==
    ASSUME TypeOK, ExportInv, UNCHANGED tableVars, OpenCursor
    PROVE  ExportTypeOK' /\ ExportInv'
<1> USE ExportAssumption DEF TypeOK, ExportTypeOK, OpenCursor, tableVars
<1>1. Found \in SUBSET RowIds /\ IsFiniteSet(Found) /\ UNCHANGED <<Found, received_at>>
  BY FoundFinite DEF Found
<1>2. /\ cursor' \in Seq(Found)
      /\ Len(cursor') <= ExportMax
      /\ \A i, j \in 1..Len(cursor') : i < j => Younger(cursor'[i], cursor'[j])
      /\ \A r \in Found \ Items(cursor') :
            /\ Len(cursor') = ExportMax
            /\ \A i \in 1..Len(cursor') : Younger(cursor'[i], r)
  BY <1>1, NewestPage DEF CursorRows
<1>3. array = << >>
  <2>1. Len(array) + Len(cursor) = Len(Sending) /\ Len(array) \in Nat /\ Len(cursor) \in Nat
    BY DEF Sending
  <2>2. Len(Sending) = 0
    BY DEF ExportInv
  <2> QED
    BY <2>1, <2>2
<1>4. Sending' = cursor' /\ cursor' \in Seq(RowIds)
  BY <1>1, <1>2, <1>3 DEF Sending
<1>5. ExportTypeOK'
  BY <1>4
<1> HIDE DEF OpenCursor
<1>6. /\ export' = "streaming" /\ export = "counted"
      /\ UNCHANGED <<total, counted>>
  BY DEF OpenCursor
<1> QED
  BY <1>1, <1>2, <1>4, <1>5, <1>6 DEF ExportInv, Younger, Items

\* The rows still to come move into the array one by one.
LEMMA SendInv ==
    ASSUME TypeOK, ExportInv, UNCHANGED tableVars, SendRow
    PROVE  ExportTypeOK' /\ ExportInv'
<1> USE DEF TypeOK, ExportTypeOK, SendRow, tableVars
<1>1. Head(cursor) \in RowIds /\ Tail(cursor) \in Seq(RowIds)
  OBVIOUS
<1>2. UNCHANGED Sending
  <2>1. cursor = <<Head(cursor)>> \o Tail(cursor)
    OBVIOUS
  <2>2. Append(array, Head(cursor)) = array \o <<Head(cursor)>>
    BY <1>1
  <2>3. (array \o <<Head(cursor)>>) \o Tail(cursor) = array \o (<<Head(cursor)>> \o Tail(cursor))
    BY <1>1
  <2> QED
    BY <2>1, <2>2, <2>3 DEF Sending
<1>3. ExportTypeOK'
  BY <1>1
<1> QED
  BY <1>2, <1>3 DEF ExportInv, Found, Younger

\* The response ends or breaks off, a row is committed, or nothing happens.
LEMMA RestKeepsExport ==
    ASSUME TypeOK, ExportInv,
           \/ UNCHANGED tableVars /\ (CloseArray \/ BreakOff \/ UNCHANGED exportVars)
           \/ \E r \in RowIds : CommitRow(r) /\ UNCHANGED exportVars
    PROVE  ExportTypeOK' /\ ExportInv'
<1>1. /\ UNCHANGED <<received_at, total, counted, cursor, array>>
      /\ Found \subseteq Found'
  BY DEF tableVars, exportVars, CommitRow, CloseArray, BreakOff, Found
<1>2. \/ UNCHANGED export
      \/ export = "streaming" /\ cursor = << >> /\ export' = "sent"
      \/ export' = "broken" /\ export # "toolarge"
  BY DEF exportVars, CloseArray, BreakOff
<1>3. ExportTypeOK'
  BY <1>1, <1>2 DEF TypeOK, ExportTypeOK
<1> QED
  BY <1>1, <1>2, <1>3 DEF ExportInv, Sending, Younger

-----------------------------------------------------------------------------
(* The theorems *)

\* No reader has begun.
LEMMA ReadersInitInv == Init => ReadersInv
<1> SUFFICES ASSUME Init PROVE ReadersInv
  OBVIOUS
<1> USE DEF Init, TableInit, ListingInit, ExportInit
<1>1. TypeOK
  BY DEF TypeOK, TableTypeOK, ListingTypeOK, ExportTypeOK
<1>2. Items(listed) = {} /\ Items(Sending) = {} /\ Sending = << >> /\ Len(Sending) = 0
  BY DEF Items, Sending
<1>3. WalkInv
  BY <1>2 DEF WalkInv, WalkDescends, WalkComplete
<1>4. ExportInv
  BY <1>2, FS_EmptySet, ExportAssumption DEF ExportInv
<1> QED
  BY <1>1, <1>3, <1>4 DEF ReadersInv

\* Every step of a reader, and every commit, keeps the invariant.
LEMMA ReadersStepInv == ReadersInv /\ [Next]_vars => ReadersInv'
<1> SUFFICES ASSUME ReadersInv, [Next]_vars PROVE ReadersInv'
  OBVIOUS
<1> USE DEF ReadersInv
<1>1. CASE \E r \in RowIds : CommitRow(r) /\ UNCHANGED <<listingVars, exportVars>>
  <2>1. ListingTypeOK' /\ WalkInv'
    BY <1>1, CommitKeepsWalk
  <2>2. ExportTypeOK' /\ ExportInv'
    BY <1>1, RestKeepsExport
  <2>3. TableTypeOK'
    BY <1>1, FS_AddElement DEF CommitRow, TypeOK, TableTypeOK
  <2> QED
    BY <2>1, <2>2, <2>3 DEF TypeOK
<1>2. CASE Listing \/ Exporting \/ UNCHANGED vars
  <2>1. UNCHANGED tableVars
    BY <1>2 DEF Listing, Exporting, vars
  <2>2. TableTypeOK'
    BY <2>1 DEF TypeOK, TableTypeOK, tableVars
  <2>3. ListingTypeOK' /\ WalkInv'
    BY <1>2, <2>1, StartInv, FetchInv, RestKeepsWalk
    DEF Listing, Exporting, vars, ListingStep
  <2>4. ExportTypeOK' /\ ExportInv'
    BY <1>2, <2>1, CountInv, OpenInv, SendInv, RestKeepsExport
    DEF Listing, Exporting, vars, ExportStep
  <2> QED
    BY <2>2, <2>3, <2>4 DEF TypeOK
<1> QED
  BY <1>1, <1>2 DEF Next

\* ReadersInv holds in every state, whichever rows are committed in between.
THEOREM ReadersInvariance == Spec => []ReadersInv
BY ReadersInitInv, ReadersStepInv, PTL DEF Spec

\* Every variable keeps to its type, and the table stays finite.
THEOREM ReadersTypeCorrect == Spec => []TypeOK
<1>1. ReadersInv => TypeOK
  BY DEF ReadersInv
<1> QED
  BY <1>1, ReadersInvariance, PTL

\* The pages of a walk are one strictly descending list, so no row is listed twice,
\* however many rows share a stamp and whenever others are committed.
THEOREM PagesDescend == Spec => []WalkDescends
<1>1. ReadersInv => WalkDescends
  BY DEF ReadersInv, WalkInv
<1> QED
  BY <1>1, ReadersInvariance, PTL

\* A finished walk has every row that was there when it began.
THEOREM PagesComplete == Spec => []WalkComplete
<1>1. ReadersInv => WalkComplete
  BY DEF ReadersInv, WalkInv
<1> QED
  BY <1>1, ReadersInvariance, PTL

\* What has been sent is the beginning of what is to be sent.
LEMMA SentIsPrefix ==
    ASSUME ReadersInv
    PROVE  /\ Len(array) \in Nat /\ Len(array) <= Len(Sending)
           /\ \A i \in 1..Len(array) : i \in 1..Len(Sending) /\ Sending[i] = array[i]
           /\ export = "sent" => Sending = array
<1>1. array \in Seq(RowIds) /\ cursor \in Seq(RowIds)
  BY DEF ReadersInv, TypeOK, ExportTypeOK
<1>2. export = "sent" => cursor = << >>
  BY DEF ReadersInv, ExportInv
<1> QED
  BY <1>1, <1>2 DEF Sending

\* A counted row that is not in the array is older than all that is, and a complete
\* export leaves one out only at the cap.
THEOREM ExportKeepsNewest == Spec => []ExportMissesOldestOnly
<1>1. ASSUME ReadersInv, NEW r \in counted \ Exported
      PROVE  /\ \A i \in 1..Len(array) : Younger(array[i], r)
             /\ export = "sent" => Len(array) = ExportMax
  <2> USE <1>1
  <2>1. r \notin Items(array)
    BY DEF Exported
  <2>2. CASE r \notin Items(Sending)
    BY <2>2, SentIsPrefix DEF ReadersInv, ExportInv
  <2>3. CASE r \in Items(Sending)
    <3>1. PICK k \in 1..Len(Sending) : Sending[k] = r
      BY <2>3 DEF Items
    <3>2. k \notin 1..Len(array)
      BY <2>1, <3>1, SentIsPrefix DEF Items
    <3>3. Len(Sending) \in Nat
      BY DEF ReadersInv, TypeOK, ExportTypeOK, Sending
    <3>4. \A i \in 1..Len(array) : i < k
      BY <3>2, <3>3, SentIsPrefix
    <3> QED
      BY <2>1, <2>3, <3>1, <3>4, SentIsPrefix DEF ReadersInv, ExportInv
  <2> QED
    BY <2>2, <2>3
<1>2. ReadersInv => ExportMissesOldestOnly
  BY <1>1 DEF ExportMissesOldestOnly
<1> QED
  BY <1>2, ReadersInvariance, PTL

\* The cap holds for the rows sent.
THEOREM ExportCapped == Spec => []ExportWithinCap
<1>1. ReadersInv => ExportWithinCap
  <2> SUFFICES ASSUME ReadersInv PROVE ExportWithinCap
    OBVIOUS
  <2>1. Len(Sending) \in Nat /\ Len(Sending) <= ExportMax
    BY DEF ReadersInv, TypeOK, ExportTypeOK, ExportInv, Sending
  <2> QED
    BY <2>1, SentIsPrefix, ExportAssumption DEF ExportWithinCap
<1> QED
  BY <1>1, ReadersInvariance, PTL

\* A complete export has at least the announced number of different rows, whatever is
\* committed between the count and the cursor.
THEOREM ExportComplete == Spec => []ExportNotShort
<1>1. ASSUME ReadersInv, export = "sent"
      PROVE  Cardinality(Exported) >= total
  <2> USE <1>1
  <2>1. /\ array \in Seq(RowIds) /\ Sending = array
        /\ \A i, j \in 1..Len(array) : i < j => Younger(array[i], array[j])
        /\ total = Cardinality(counted) /\ total <= ExportMax /\ total \in Nat
        /\ \A r \in counted \ Exported : Len(array) = ExportMax
    BY SentIsPrefix DEF ReadersInv, TypeOK, ExportTypeOK, ExportInv, Exported
  <2>2. array \in Surjection(1..Len(array), Exported)
    <3>1. array \in [1..Len(array) -> Exported]
      BY <2>1 DEF Exported, Items
    <3>2. \A r \in Exported : \E i \in 1..Len(array) : array[i] = r
      BY DEF Exported, Items
    <3> QED
      BY <3>1, <3>2 DEF Surjection
  <2>3. array \in Injection(1..Len(array), Exported)
    <3>1. \A i, j \in 1..Len(array) : array[i] = array[j] => i = j
      <4> SUFFICES ASSUME NEW i \in 1..Len(array), NEW j \in 1..Len(array), i # j
                   PROVE  array[i] # array[j]
        OBVIOUS
      <4>1. Younger(array[i], array[j]) \/ Younger(array[j], array[i])
        BY <2>1
      <4>2. array[i] \in RowIds /\ array[j] \in RowIds
        BY <2>1
      <4> QED
        BY <4>1, <4>2, OlderIsLater DEF ReadersInv, TypeOK
    <3>2. array \in [1..Len(array) -> Exported]
      BY <2>1 DEF Exported, Items
    <3> QED
      BY <3>1, <3>2 DEF Injection, IsInjective
  <2>4. IsFiniteSet(Exported) /\ Cardinality(Exported) = Len(array)
    <3>1. /\ IsFiniteSet(1..Len(array)) /\ Cardinality(1..Len(array)) = Len(array)
      <4>1. Len(array) \in Nat
        BY <2>1
      <4>2. /\ IsFiniteSet(1..Len(array))
            /\ Cardinality(1..Len(array)) = IF 1 > Len(array) THEN 0 ELSE Len(array) - 1 + 1
        BY <4>1, FS_Interval, 1 \in Int, Len(array) \in Int
      <4> QED
        BY <4>1, <4>2
    <3> QED
      BY <2>2, <2>3, <3>1, FS_Surjection
  <2>5. CASE counted \subseteq Exported
    <3>1. Cardinality(counted) <= Cardinality(Exported)
      BY <2>4, <2>5, FS_Subset
    <3> QED
      BY <2>1, <2>4, <3>1
  <2>6. CASE ~ (counted \subseteq Exported)
    BY <2>1, <2>4, <2>6, ExportAssumption
  <2> QED
    BY <2>5, <2>6
<1>2. ReadersInv => ExportNotShort
  BY <1>1 DEF ExportNotShort
<1> QED
  BY <1>2, ReadersInvariance, PTL
=============================================================================
