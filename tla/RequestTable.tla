---------------------------- MODULE RequestTable ----------------------------
(***************************************************************************)
(* What readers of table requests see of it: rows are committed one by one *)
(* and never change or vanish (the cleaner deletes only endpoints without  *)
(* rows).  received_at is taken before COMMIT, so a row may appear after   *)
(* rows that are younger than it.                                          *)
(***************************************************************************)
EXTENDS Integers, Sequences, FiniteSets

CONSTANTS RowIds,       \* request ids, in the order of their uuids
          MaxStamp,     \* bound: received_at is in 0..MaxStamp
          None

ASSUME RowAssumption == RowIds \subseteq Nat /\ MaxStamp \in Nat /\ None \notin RowIds

VARIABLES
    received_at,    \* the column received_at of every row that may be committed
    selected,       \* the rows that satisfy the statement's WHERE: those of the
                    \*   endpoint, and with q those whose search_vector matches
    rows            \* the rows committed so far

tableVars == <<received_at, selected, rows>>

TableTypeOK ==
    /\ received_at \in [RowIds -> 0..MaxStamp]
    /\ selected \subseteq RowIds
    /\ rows \subseteq RowIds
    /\ IsFiniteSet(rows)

TableInit ==
    /\ received_at \in [RowIds -> 0..MaxStamp]
    /\ selected \in SUBSET RowIds
    /\ rows \in {R \in SUBSET RowIds : IsFiniteSet(R)}

CommitRow(r) ==
    /\ r \notin rows
    /\ rows' = rows \cup {r}
    /\ UNCHANGED <<received_at, selected>>

Found == rows \cap selected

\* A mutant: the cursor compares received_at only.
Older_TimeOnly(r, s) == received_at[r] < received_at[s]

\* A mutant: the cursor's own row satisfies the comparison.
Older_OrSame(r, s) ==
    received_at[r] < received_at[s] \/ (received_at[r] = received_at[s] /\ r <= s)

\* The row comparison of the keyset cursor.
Older(r, s) ==
    received_at[r] < received_at[s] \/ (received_at[r] = received_at[s] /\ r < s)

\* ORDER BY received_at DESC, id DESC.
Younger(r, s) ==
    received_at[r] > received_at[s] \/ (received_at[r] = received_at[s] /\ r > s)

NewestFirst(S) ==
    [i \in 1..Cardinality(S) |->
        CHOOSE r \in S : Cardinality({s \in S : Younger(s, r)}) = i - 1]

\* LIMIT n.
FirstOf(seq, n) == SubSeq(seq, 1, IF n < Len(seq) THEN n ELSE Len(seq))

Items(seq) == {seq[i] : i \in 1..Len(seq)}
=============================================================================
