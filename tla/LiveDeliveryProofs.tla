------------------------- MODULE LiveDeliveryProofs -------------------------
(***************************************************************************)
(* What streams show, proved for any sets of endpoints, requests, streams  *)
(* and connections and any number of failures: DeliveryInv is invariant,   *)
(* and with it StreamMatchesFeed and PageMissesOnlyGap.                    *)
(***************************************************************************)
EXTENDS LiveViewProofs, RankLemmas, SequenceTheorems

-----------------------------------------------------------------------------
(* The elements of a set of positions in order *)

Smaller(S) == {p \in S \X S : p[1] < p[2]}

\* Nth enumerates a finite set of positions: each element once, in order.
LEMMA NthEnumerates ==
    ASSUME NEW S \in SUBSET Nat, IsFiniteSet(S)
    PROVE  /\ Cardinality(S) \in Nat
           /\ \A k \in 1..Cardinality(S) :
                 /\ Nth(S, k) \in S
                 /\ Cardinality({j \in S : j < Nth(S, k)}) = k - 1
           /\ \A i, j \in S : Cardinality({l \in S : l < i}) = Cardinality({l \in S : l < j})
                                 => i = j
           /\ \A i \in S : \E k \in 1..Cardinality(S) : Nth(S, k) = i
<1>1. Cardinality(S) \in Nat
  BY FS_CardinalityType
<1>2. StrictTotalOrder(S, Smaller(S))
  <2>1. \A i, j \in S : <<i, j>> \in Smaller(S) <=> i < j
    BY DEF Smaller
  <2> QED
    BY <2>1 DEF StrictTotalOrder
<1>3. \A i \in S : Rank(S, Smaller(S), i) = Cardinality({j \in S : j < i})
  <2>1. \A i \in S : Before(S, Smaller(S), i) = {j \in S : j < i}
    BY DEF Before, Smaller
  <2> QED
    BY <2>1 DEF Rank
<1>4. ASSUME NEW k \in 1..Cardinality(S)
      PROVE  Nth(S, k) \in S /\ Cardinality({j \in S : j < Nth(S, k)}) = k - 1
  <2>0. k - 1 \in 0..(Cardinality(S) - 1)
    BY <1>1
  <2>1. \E i \in S : Rank(S, Smaller(S), i) = k - 1
    BY <1>2, <2>0, RankExists
  <2>2. \E i \in S : Cardinality({j \in S : j < i}) = k - 1
    BY <1>3, <2>1
  <2> QED
    BY <2>2 DEF Nth
<1>5. ASSUME NEW i \in S, NEW j \in S,
             Cardinality({l \in S : l < i}) = Cardinality({l \in S : l < j})
      PROVE  i = j
  <2>1. Rank(S, Smaller(S), i) = Rank(S, Smaller(S), j)
    BY <1>3, <1>5
  <2> QED
    BY <1>2, <2>1, RankOrders
<1>6. ASSUME NEW i \in S
      PROVE  \E k \in 1..Cardinality(S) : Nth(S, k) = i
  <2> DEFINE k == Rank(S, Smaller(S), i) + 1
  <2>1. Rank(S, Smaller(S), i) \in 0..(Cardinality(S) - 1)
    BY <1>2, RankType
  <2>2. k \in 1..Cardinality(S) /\ k - 1 = Cardinality({j \in S : j < i})
    BY <1>1, <1>3, <2>1
  <2>3. Nth(S, k) = i
    BY <1>4, <1>5, <2>2
  <2> QED
    BY <2>2, <2>3
<1> QED
  BY <1>1, <1>4, <1>5, <1>6

\* A position behind all others leaves their order.
LEMMA NthStays ==
    ASSUME NEW S \in SUBSET Nat, IsFiniteSet(S), NEW n \in Nat, \A i \in S : i < n,
           NEW T, T = S \cup {n}, NEW k \in 1..Cardinality(S)
    PROVE  Nth(T, k) = Nth(S, k)
<1>1. n \notin S /\ T \in SUBSET Nat
  OBVIOUS
<1>2. IsFiniteSet(T) /\ Cardinality(T) = Cardinality(S) + 1 /\ Cardinality(S) \in Nat
  BY <1>1, FS_AddElement, FS_CardinalityType
<1>3. \A i \in S : {j \in T : j < i} = {j \in S : j < i}
  OBVIOUS
<1>4. Nth(S, k) \in S /\ Cardinality({j \in S : j < Nth(S, k)}) = k - 1
  BY NthEnumerates
<1>5. Nth(T, k) \in T /\ Cardinality({j \in T : j < Nth(T, k)}) = k - 1
  <2>1. k \in 1..Cardinality(T)
    BY <1>2
  <2> QED
    BY <1>1, <1>2, <2>1, NthEnumerates
<1>6. Nth(S, k) \in T /\ Cardinality({j \in T : j < Nth(S, k)}) = k - 1
  BY <1>3, <1>4
<1>7. \A i, j \in T : Cardinality({l \in T : l < i}) = Cardinality({l \in T : l < j})
                          => i = j
  BY <1>1, <1>2, NthEnumerates
<1>8. Cardinality({j \in T : j < Nth(T, k)}) = Cardinality({j \in T : j < Nth(S, k)})
  BY <1>5, <1>6
<1> QED
  BY <1>5, <1>6, <1>7, <1>8

\* It comes last.
LEMMA NthLast ==
    ASSUME NEW S \in SUBSET Nat, IsFiniteSet(S), NEW n \in Nat, \A i \in S : i < n,
           NEW T, T = S \cup {n}
    PROVE  /\ Cardinality(S) \in Nat
           /\ Cardinality(T) = Cardinality(S) + 1
           /\ Nth(T, Cardinality(S) + 1) = n
<1>1. n \notin S /\ T \in SUBSET Nat
  OBVIOUS
<1>2. IsFiniteSet(T) /\ Cardinality(T) = Cardinality(S) + 1 /\ Cardinality(S) \in Nat
  BY <1>1, FS_AddElement, FS_CardinalityType
<1>3. Cardinality({j \in T : j < n}) = Cardinality(S)
  <2>1. ~ (n < n)
    OBVIOUS
  <2>2. {j \in T : j < n} = S
    BY <2>1
  <2> QED
    BY <2>2
<1>4. PICK k \in 1..Cardinality(T) : Nth(T, k) = n
  BY <1>1, <1>2, NthEnumerates
<1>5. Cardinality({j \in T : j < Nth(T, k)}) = k - 1
  BY <1>1, <1>2, NthEnumerates
<1>6. k = Cardinality(S) + 1
  <2>1. {j \in T : j < Nth(T, k)} = {j \in T : j < n}
    BY <1>4
  <2>2. k - 1 = Cardinality(S)
    BY <1>3, <1>5, <2>1
  <2> QED
    BY <1>2, <2>2
<1> QED
  BY <1>2, <1>4, <1>6

-----------------------------------------------------------------------------
(* Sequences *)

\* What is appended to the second of two sequences is appended to both.
LEMMA AppendOfConcat ==
    ASSUME NEW T, NEW a \in Seq(T), NEW b \in Seq(T), NEW x \in T
    PROVE  a \o Append(b, x) = Append(a \o b, x)
OBVIOUS

LEMMA PrefixOfAppend ==
    ASSUME NEW T, NEW a \in Seq(T), NEW b \in Seq(T), NEW x \in T, IsPrefix(a, b)
    PROVE  IsPrefix(a, Append(b, x))
<1>1. Len(a) <= Len(b) /\ SubSeq(a, 1, Len(a)) = SubSeq(b, 1, Len(a))
  BY DEF IsPrefix
<1>2. SubSeq(Append(b, x), 1, Len(a)) = SubSeq(b, 1, Len(a))
  BY <1>1
<1>3. Len(a) <= Len(Append(b, x))
  BY <1>1
<1> QED
  BY <1>1, <1>2, <1>3 DEF IsPrefix

\* A stream shows the first of what it has pending.
LEMMA AppendThenConcat ==
    ASSUME NEW T, NEW a \in Seq(T), NEW b \in Seq(T), NEW x \in T
    PROVE  Append(a, x) \o (<< >> \o b) = a \o (<<x>> \o b)
<1>1. << >> \o b = b /\ <<x>> \in Seq(T) /\ Append(a, x) = a \o <<x>>
  OBVIOUS
<1>2. (a \o <<x>>) \o b = a \o (<<x>> \o b)
  BY <1>1, ConcatAssociative
<1> QED
  BY <1>1, <1>2

LEMMA FirstOfSecond ==
    ASSUME NEW T, NEW a \in Seq(T), NEW b \in Seq(T), NEW x \in T
    PROVE  /\ Len(a) + 1 \in 1..Len(a \o (<<x>> \o b))
           /\ (a \o (<<x>> \o b))[Len(a) + 1] = x
<1> DEFINE c == <<x>> \o b
<1>1. <<x>> \in Seq(T) /\ Len(<<x>>) = 1 /\ <<x>>[1] = x
  OBVIOUS
<1>2. c \in Seq(T) /\ Len(c) = 1 + Len(b) /\ c[1] = x
  BY <1>1, ConcatProperties
<1> HIDE DEF c
<1>3. /\ Len(a \o c) = Len(a) + Len(c)
      /\ \A i \in 1..Len(c) : (a \o c)[Len(a) + i] = c[i]
  BY <1>2
<1> QED
  BY <1>2, <1>3 DEF c

-----------------------------------------------------------------------------
(* What a stream hears *)

\* The requests at a set of positions of the feed.
Told(log, S) == [k \in 1..Cardinality(S) |-> log[Nth(S, k)][2]]

LEMMA HeardIsTold ==
    \A s : Heard(s) = Told(feed, HeardAt(s)) /\ Heard(s)' = Told(feed', HeardAt(s)')
BY DEF Heard, Told

\* Positions in a feed are finitely many, and what they tell are requests.
LEMMA ToldType ==
    ASSUME NEW log \in Seq(EndpointIds \X RequestIds), NEW S \in SUBSET (1..Len(log))
    PROVE  /\ S \in SUBSET Nat /\ IsFiniteSet(S)
           /\ Told(log, S) \in Seq(RequestIds)
           /\ Len(Told(log, S)) = Cardinality(S)
           /\ \A k \in 1..Cardinality(S) :
                 Nth(S, k) \in S /\ Told(log, S)[k] = log[Nth(S, k)][2]
           /\ \A i \in S : \E k \in 1..Cardinality(S) : Told(log, S)[k] = log[i][2]
<1>1. S \in SUBSET Nat /\ IsFiniteSet(S)
  <2>1. Len(log) \in Nat /\ S \in SUBSET Nat /\ \A i \in S : i <= Len(log)
    OBVIOUS
  <2>2. IsFiniteSet(1..Len(log))
    BY <2>1, FS_Interval, 1 \in Int, Len(log) \in Int
  <2> QED
    BY <2>1, <2>2, FS_Subset
<1>2. /\ Cardinality(S) \in Nat
      /\ \A k \in 1..Cardinality(S) : Nth(S, k) \in S
      /\ \A i \in S : \E k \in 1..Cardinality(S) : Nth(S, k) = i
  BY <1>1, NthEnumerates
<1>3. \A i \in S : log[i][2] \in RequestIds
  OBVIOUS
<1>4. Told(log, S) \in [1..Cardinality(S) -> RequestIds]
  BY <1>2, <1>3 DEF Told
<1>5. Told(log, S) \in Seq(RequestIds) /\ Len(Told(log, S)) = Cardinality(S)
  BY <1>2, <1>4
<1> QED
  BY <1>1, <1>2, <1>5 DEF Told

\* The same positions tell the same in a feed that agrees on them.
LEMMA ToldStays ==
    ASSUME NEW log \in Seq(EndpointIds \X RequestIds), NEW S \in SUBSET (1..Len(log)),
           NEW longer, \A i \in S : longer[i] = log[i]
    PROVE  Told(longer, S) = Told(log, S)
BY ToldType DEF Told

\* One position more, behind the others, tells one request more.
LEMMA ToldExtends ==
    ASSUME NEW log \in Seq(EndpointIds \X RequestIds), NEW S \in SUBSET (1..Len(log)),
           NEW n \in 1..Len(log), \A i \in S : i < n, NEW T, T = S \cup {n}
    PROVE  Told(log, T) = Append(Told(log, S), log[n][2])
<1> DEFINE c == Cardinality(S)
           old == Told(log, S)
           new == Told(log, T)
<1>1. S \in SUBSET Nat /\ IsFiniteSet(S) /\ n \in Nat /\ c \in Nat
  BY ToldType, FS_CardinalityType
<1>2. Cardinality(T) = c + 1 /\ Nth(T, c + 1) = n
  BY <1>1, NthLast
<1>3. T \in SUBSET (1..Len(log))
  OBVIOUS
<1>4. old \in Seq(RequestIds) /\ Len(old) = c /\ \A k \in 1..c : old[k] = log[Nth(S, k)][2]
  BY ToldType
<1>5. /\ new \in Seq(RequestIds) /\ Len(new) = Cardinality(T)
      /\ \A k \in 1..Cardinality(T) : new[k] = log[Nth(T, k)][2]
  BY <1>3, ToldType
<1>6. log[n][2] \in RequestIds
  OBVIOUS
<1> HIDE DEF old, new, c
<1>7. ASSUME NEW k \in 1..c
      PROVE  new[k] = old[k]
  <2>1. Nth(T, k) = Nth(S, k)
    BY <1>1, NthStays DEF c
  <2>2. k \in 1..Cardinality(T)
    BY <1>1, <1>2
  <2> QED
    BY <1>4, <1>5, <2>1, <2>2
<1>8. new[c + 1] = log[n][2]
  <2>1. c + 1 \in 1..Cardinality(T)
    BY <1>1, <1>2
  <2> QED
    BY <1>2, <1>5, <2>1
<1>9. new = Append(old, log[n][2])
  <2>1. /\ Append(old, log[n][2]) \in Seq(RequestIds)
        /\ Len(Append(old, log[n][2])) = c + 1
        /\ \A k \in 1..c : Append(old, log[n][2])[k] = old[k]
        /\ Append(old, log[n][2])[c + 1] = log[n][2]
    BY <1>4, <1>6, AppendProperties
  <2>2. \A k \in 1..(c + 1) : k \in 1..c \/ k = c + 1
    BY <1>1
  <2>3. Len(new) = c + 1
    BY <1>2, <1>5
  <2> QED
    BY <1>5, <1>7, <1>8, <2>1, <2>2, <2>3, SeqEqual
<1> QED
  BY <1>9 DEF old, new

-----------------------------------------------------------------------------
(* Readers in turn: one lemma for each operation of the notifier *)

\* Whoever registers does so level with the reader there is, which is ahead of all others.
LEMMA RegisterTurn ==
    ASSUME LiveInv, ReadersInTurn, NEW t \in Tasks, NEW c \in Conns, c = reader_task,
           Register(t, position[c]),
           UNCHANGED <<feed, since, position, session, listen_conn, reader_task>>,
           \A u \in Tasks : starting'[u] = "listen" => starting[u] = "listen"
    PROVE  ReadersInTurn'
<1> USE NotifierAssumption DEF LiveInv, TypeOK, NotifierTypeOK
<1>1. \A s \in Streams : joined'[s] \in {joined[s], position[c]}
  <2>1. CASE t \in Streams
    BY <2>1 DEF Register
  <2>2. CASE t \notin Streams
    BY <2>2 DEF Register
  <2> QED
    BY <2>1, <2>2
<1>2. position[c] <= Len(feed) /\ Len(feed) \in Nat /\ position[c] \in Nat
  BY DEF ReadersInTurn, BoxTypeOK
<1>3. \A s \in Streams : joined'[s] <= Len(feed) /\ joined'[s] <= position[c]
  <2>1. \A s \in Streams : joined[s] <= Len(feed) /\ joined[s] <= position[c]
    BY DEF ReadersInTurn
  <2> HIDE DEF LiveInv, TypeOK, NotifierTypeOK
  <2> QED
    BY <1>1, <1>2, <2>1
<1>4. \A u \in Tasks : starting'[u] = "listen" => session[listen_conn] = "open"
  BY DEF ReadersInTurn
<1> QED
  BY <1>3, <1>4 DEF ReadersInTurn

\* start() moves on to a connection that has handed over nothing yet, and the reader it
\* creates begins behind everything that was handed over before.
LEMMA StartTurn ==
    ASSUME LiveInv, ReadersInTurn, NEW t \in Tasks, StartStep(t)
    PROVE  ReadersInTurn'
<1> USE NotifierAssumption DEF LiveInv, TypeOK, NotifierTypeOK
<1>1. CASE AlreadyStarted(t)
  <2>1. reader_task \in Conns
    BY <1>1 DEF AlreadyStarted, RunningUnderLock, Running
  <2> QED
    BY <1>1, <2>1, RegisterTurn DEF AlreadyStarted
<1>2. CASE BeginStart(t)
  <2> USE <1>2 DEF BeginStart
  <2>1. \A u \in Tasks : starting[u] # "listen" /\ starting'[u] # "listen"
    BY DEF LockHeld, Opening, Tasks
  <2>2. \A c \in Conns : session'[c] \in {session[c], "closed"}
    BY DEF ClosedConn
  <2> QED
    BY <2>1, <2>2 DEF ReadersInTurn
<1>3. ASSUME NEW c \in Conns, Connect(t, c)
      PROVE  ReadersInTurn'
  <2> USE <1>3 DEF Connect
  <2>1. /\ session'[c] = "open" /\ listen_conn' = c /\ position[c] = since[c]
        /\ \A d \in Conns \ {c} : session'[d] = session[d]
    BY DEF ReadersInTurn
  <2> QED
    BY <2>1 DEF ReadersInTurn
<1>4. CASE Listen(t)
  <2> USE <1>4 DEF Listen
  <2>1. listen_conn \in Conns /\ lock = t /\ \A u \in Tasks : starting'[u] # "listen"
    BY DEF HolderIsAlone, LockHeld, Opening, Tasks
  <2>2. Len(feed) \in Nat /\ \A c \in Conns : position[c] <= Len(feed)
    BY DEF BoxTypeOK, ReadersInTurn
  <2>3. \A s \in Streams : joined'[s] \in {joined[s], Len(feed)} /\ joined[s] <= Len(feed)
    BY DEF Register, ReadersInTurn
  <2>4. \A c \in Conns :
           /\ since'[c] = IF c = listen_conn THEN Len(feed) ELSE since[c]
           /\ position'[c] = IF c = listen_conn THEN Len(feed) ELSE position[c]
           /\ session'[c] = IF c = listen_conn THEN "listening" ELSE session[c]
    OBVIOUS
  <2>5. reader_task' = listen_conn /\ UNCHANGED feed
    OBVIOUS
  <2> HIDE DEF Listen
  <2> HIDE DEF LiveInv, TypeOK, NotifierTypeOK
  <2>6. \A c \in Conns :
           /\ since'[c] <= position'[c] /\ position'[c] <= Len(feed)
           /\ session'[c] \in {"unused", "open"} => position'[c] = since'[c]
    BY <2>2, <2>4 DEF ReadersInTurn
  <2>7. \A c \in Conns : position'[c] <= since'[listen_conn]
    BY <2>1, <2>2, <2>4
  <2>8. \A s \in Streams : joined'[s] <= Len(feed) /\ joined'[s] <= position'[listen_conn]
    BY <2>1, <2>2, <2>3, <2>4
  <2> QED
    BY <2>1, <2>5, <2>6, <2>7, <2>8 DEF ReadersInTurn
<1> QED
  BY <1>1, <1>2, <1>3, <1>4 DEF StartStep

\* The reader, its crash and its handler, stop(), and a task that leaves start().
LEMMA ReaderTurn ==
    ASSUME LiveInv, ReadersInTurn,
           \/ \E c \in Conns : ReaderStep(c) \/ ReaderCrash(c)
           \/ Stop
           \/ \E t \in Tasks : LeaveStart(t)
    PROVE  ReadersInTurn'
<1> USE NotifierAssumption DEF LiveInv, TypeOK, NotifierTypeOK
<1>1. ASSUME NEW c \in Conns, Dispatch(c)
      PROVE  ReadersInTurn'
  <2> USE <1>1 DEF Dispatch
  <2>1. c = reader_task
    BY DEF NoConnectionLeak
  <2>2. /\ \A d \in Conns : position'[d] = IF d = c THEN position[c] + 1 ELSE position[d]
        /\ position[c] + 1 <= Len(feed) /\ Len(feed) \in Nat
    BY DEF BoxTypeOK
  <2>3. session[c] = "listening"
    OBVIOUS
  <2>4. UNCHANGED <<feed, since, session, listen_conn, reader_task, starting, joined>>
    OBVIOUS
  <2> HIDE DEF Dispatch
  <2> QED
    BY <2>1, <2>2, <2>3, <2>4 DEF ReadersInTurn
<1>2. ASSUME NEW c \in Conns, ReaderCrash(c)
      PROVE  ReadersInTurn'
  <2>1. \A t \in Tasks : starting[t] # "listen"
    BY <1>2 DEF ReaderCrash, HolderIsAlone, Opening
  <2>2. \A d \in Conns : session'[d] \in {session[d], "broken"}
    BY <1>2 DEF ReaderCrash
  <2> QED
    BY <1>2, <2>1, <2>2 DEF ReaderCrash, ReadersInTurn
<1>3. ASSUME NEW c \in Conns, BeginReset(c)
      PROVE  ReadersInTurn'
  <2>1. \A t \in Tasks : starting[t] # "listen"
    BY <1>3 DEF BeginReset, LockHeld, Opening, Tasks
  <2>2. \A d \in Conns : session'[d] \in {session[d], "closed"}
    BY <1>3 DEF BeginReset, ClosedConn
  <2> QED
    BY <1>3, <2>1, <2>2 DEF BeginReset, ReadersInTurn
<1>4. ASSUME NEW c \in Conns, EndReset(c)
      PROVE  ReadersInTurn'
  <2>1. \A t \in Tasks : starting[t] # "listen"
    BY <1>4 DEF EndReset, LockHeld, Opening, Resetting, Tasks
  <2> QED
    BY <1>4, <2>1 DEF EndReset, ReadersInTurn
<1>5. CASE Stop
  <2>1. \A t \in Tasks : starting[t] # "listen"
    BY <1>5 DEF Stop, LockHeld, Opening, Tasks
  <2>2. \A d \in Conns : session'[d] \in {session[d], "closed"}
    BY <1>5 DEF Stop, ClosedConn
  <2> QED
    BY <1>5, <2>1, <2>2 DEF Stop, ReadersInTurn
<1>6. ASSUME NEW t \in Tasks, LeaveStart(t)
      PROVE  ReadersInTurn'
  <2>1. \A u \in Tasks : starting'[u] = "listen" => starting[u] = "listen"
    BY <1>6 DEF LeaveStart
  <2> QED
    BY <1>6, <2>1 DEF LeaveStart, ReadersInTurn
<1> QED
  BY <1>1, <1>2, <1>3, <1>4, <1>5, <1>6 DEF ReaderStep

\* The rest of the process, and the feed as it grows.
LEMMA FrameTurn ==
    ASSUME LiveInv, ReadersInTurn,
           UNCHANGED <<since, position, session, listen_conn, reader_task, starting, joined>>,
           Len(feed') \in Nat, Len(feed) <= Len(feed')
    PROVE  ReadersInTurn'
<1>1. Len(feed) \in Nat
  BY DEF LiveInv, BoxTypeOK
<1>2. /\ position \in [Conns -> Nat]
      /\ joined \in [Streams -> Nat]
  BY DEF LiveInv, TypeOK, NotifierTypeOK
<1> QED
  BY <1>1, <1>2 DEF ReadersInTurn

-----------------------------------------------------------------------------
(* What a stream shows against what was handed over *)

Matches(s) ==
    IF stream[s] \in Serving
    THEN shown[s] \o Pending(s) = Heard(s)
    ELSE IsPrefix(shown[s], Heard(s))

LEMMA HeardType ==
    ASSUME LiveInv, StagesFit, NEW s \in Streams
    PROVE  /\ feed \in Seq(EndpointIds \X RequestIds)
           /\ HeardAt(s) \in SUBSET (1..Len(feed))
           /\ Heard(s) \in Seq(RequestIds)
           /\ shown[s] \in Seq(RequestIds)
           /\ queue[s] \in Seq(RequestIds)
           /\ Pending(s) \in Seq(RequestIds)
<1>1. feed \in Seq(EndpointIds \X RequestIds) /\ HeardAt(s) \in SUBSET (1..Len(feed))
  BY DEF LiveInv, BoxTypeOK, HeardAt
<1>2. Heard(s) \in Seq(RequestIds)
  BY <1>1, HeardIsTold, ToldType
<1>3. shown[s] \in Seq(RequestIds) /\ queue[s] \in Seq(RequestIds)
  BY DEF LiveInv, TypeOK, NotifierTypeOK
<1>4. stream[s] = "lookup" => current[s] \in RequestIds
  BY DEF LiveInv, TypeOK, StagesFit
<1>5. CASE stream[s] = "lookup"
  <2>1. Pending(s) = <<current[s]>> \o queue[s]
    BY <1>5 DEF Pending
  <2> QED
    BY <1>1, <1>2, <1>3, <1>4, <1>5, <2>1
<1>6. CASE stream[s] # "lookup"
  <2>1. Pending(s) = << >> \o queue[s]
    BY <1>6 DEF Pending
  <2> QED
    BY <1>1, <1>2, <1>3, <2>1
<1> QED
  BY <1>5, <1>6

\* A stream hears the same when nothing is handed over to it, although the feed may grow.
LEMMA HeardStays ==
    ASSUME LiveInv, StagesFit, NEW s \in Streams, HeardAt(s)' = HeardAt(s),
           \A i \in 1..Len(feed) : feed'[i] = feed[i]
    PROVE  Heard(s)' = Heard(s)
<1>1. Told(feed', HeardAt(s)) = Told(feed, HeardAt(s))
  <2>1. feed \in Seq(EndpointIds \X RequestIds) /\ HeardAt(s) \in SUBSET (1..Len(feed))
    BY HeardType
  <2>2. \A i \in HeardAt(s) : feed'[i] = feed[i]
    BY <2>1
  <2> QED
    BY <2>1, <2>2, ToldStays
<1> QED
  BY <1>1, HeardIsTold

\* A stream that moves on without showing or losing anything.
LEMMA MatchesStays ==
    ASSUME NEW s \in Streams, Matches(s), Heard(s)' = Heard(s),
           shown'[s] = shown[s], Pending(s)' = Pending(s),
           stream'[s] \in Serving <=> stream[s] \in Serving
    PROVE  Matches(s)'
BY DEF Matches

\* A stream that has shown nothing and has heard nothing, or has not registered.
LEMMA MatchesFresh ==
    ASSUME LiveInv', StagesFit', NEW s \in Streams, shown'[s] = << >>,
           stream'[s] \in Serving => Pending(s)' = << >> /\ HeardAt(s)' = {}
    PROVE  Matches(s)'
<1>1. Heard(s)' \in Seq(RequestIds)
  <2>1. feed' \in Seq(EndpointIds \X RequestIds) /\ HeardAt(s)' \in SUBSET (1..Len(feed'))
    BY DEF LiveInv, BoxTypeOK, HeardAt
  <2>2. Told(feed', HeardAt(s)') \in Seq(RequestIds)
    BY <2>1, ToldType
  <2> QED
    BY <2>2, HeardIsTold
<1>2. CASE stream'[s] \in Serving
  <2>1. shown'[s] \o Pending(s)' = << >>
    BY <1>2
  <2>2. Told(feed', {}) = << >>
    BY FS_EmptySet DEF Told
  <2>3. Heard(s)' = << >>
    BY <1>2, <2>2, HeardIsTold
  <2> QED
    BY <1>2, <2>1, <2>3 DEF Matches
<1>3. CASE stream'[s] \notin Serving
  BY <1>1, <1>3 DEF Matches, IsPrefix
<1> QED
  BY <1>2, <1>3

\* A stream that ends or is left has shown the first of what it heard, and one that has
\* been left stays there.
LEMMA MatchesEnds ==
    ASSUME LiveInv, StagesFit, NEW s \in Streams, Matches(s), Heard(s)' = Heard(s),
           stream'[s] \notin Serving, shown'[s] = shown[s]
    PROVE  Matches(s)'
<1> DEFINE told == shown[s]
           rest == Pending(s)
<1>1. told \in Seq(RequestIds) /\ rest \in Seq(RequestIds)
  BY HeardType
<1>2. told \o rest = Heard(s) \/ IsPrefix(told, Heard(s))
  BY DEF Matches
<1>3. IsPrefix(told, told \o rest)
  <2> HIDE DEF told, rest
  <2> QED
    BY <1>1 DEF IsPrefix
<1> QED
  BY <1>2, <1>3 DEF Matches

\* A step that touches neither inboxes nor pages, and hands over nothing.
LEMMA SteadyDelivery ==
    ASSUME LiveInv, DeliveryInv, UNCHANGED <<open, inbox, feed, listed, topic>>,
           \A i \in 1..Len(feed) : Listened(i)' <=> Listened(i),
           ReadersInTurn', StagesFit',
           \A s \in Streams :
              \/ Matches(s)'
              \/ /\ joined'[s] = joined[s]
                 /\ shown'[s] = shown[s]
                 /\ Pending(s)' = Pending(s)
                 /\ stream'[s] \in Serving <=> stream[s] \in Serving
    PROVE  DeliveryInv'
<1>1. FeedIsReadable' /\ PageFitsTopic'
  BY DEF DeliveryInv, FeedIsReadable, PageFitsTopic
<1>2. ASSUME NEW s \in Streams
      PROVE  Matches(s)'
  <2>1. CASE Matches(s)'
    BY <2>1
  <2>2. CASE /\ joined'[s] = joined[s]
             /\ shown'[s] = shown[s]
             /\ Pending(s)' = Pending(s)
             /\ stream'[s] \in Serving <=> stream[s] \in Serving
    <3>1. HeardAt(s)' = HeardAt(s)
      BY <2>2 DEF HeardAt
    <3>2. Heard(s)' = Heard(s)
      BY <3>1, HeardStays DEF DeliveryInv
    <3> QED
      BY <2>2, <3>2, MatchesStays DEF DeliveryInv, StreamMatchesFeed, Matches
  <2> QED
    BY <2>1, <2>2
<1>3. StreamMatchesFeed'
  BY <1>2 DEF StreamMatchesFeed, Matches
<1> QED
  BY <1>1, <1>3 DEF DeliveryInv

-----------------------------------------------------------------------------
(* Steps that hand nothing over *)

\* Streams that have not registered yet.
Early == {"new", "loaded", "connected", "starting"}

\* A stream that goes on or ends without touching its queue or its page.
QuietMove(s) ==
    \/ stream'[s] = stream[s]
    \/ stream[s] \in Early /\ stream'[s] \in {"starting"} \cup Ended
    \/ stream[s] = "sending" /\ stream'[s] = "waiting"

\* What readers and streams do between two announcements.
LEMMA QuietDelivery ==
    ASSUME LiveInv, DeliveryInv, ReadersInTurn',
           UNCHANGED <<open, inbox, feed, joined, queue, topic, listed, current, shown>>,
           \A i \in 1..Len(feed) : Listened(i)' <=> Listened(i),
           \A s \in Streams : QuietMove(s)
    PROVE  DeliveryInv'
<1> USE DEF QuietMove, Early, Subscribed, Serving, Ended
<1>1. StagesFit'
  BY DEF DeliveryInv, StagesFit
<1>2. ASSUME NEW s \in Streams
      PROVE  /\ Pending(s)' = Pending(s)
             /\ stream'[s] \in Serving <=> stream[s] \in Serving
  <2>1. stream'[s] = "lookup" <=> stream[s] = "lookup"
    OBVIOUS
  <2> QED
    BY <2>1 DEF Pending
<1> QED
  BY <1>1, <1>2, SteadyDelivery

\* Streams go on or end while the notifier and the inboxes rest.
LEMMA RestDelivery ==
    ASSUME LiveInv, DeliveryInv,
           UNCHANGED <<boxVars, notifierVars, topic, listed, current, shown>>,
           \A s \in Streams : QuietMove(s)
    PROVE  DeliveryInv'
<1>1. /\ UNCHANGED <<open, inbox, feed, joined, queue, topic, listed, current, shown>>
      /\ UNCHANGED <<since, position, session, listen_conn, reader_task, starting>>
  BY DEF boxVars, notifierVars
<1>2. ReadersInTurn'
  BY <1>1 DEF DeliveryInv, ReadersInTurn
<1>3. \A i \in 1..Len(feed) : Listened(i)' <=> Listened(i)
  BY <1>1 DEF Listened
<1> QED
  BY <1>1, <1>2, <1>3, QuietDelivery

\* A stream registers behind all that readers have handed over: it has heard nothing.
LEMMA RegisterDelivery ==
    ASSUME LiveInv, LiveInv', DeliveryInv, ReadersInTurn',
           NEW t \in Tasks, NEW n \in Nat, Register(t, n),
           \A c \in Conns : position'[c] <= n,
           UNCHANGED <<open, inbox, feed, queue, topic, listed, current, shown>>,
           \A i \in 1..Len(feed) : Listened(i)' <=> Listened(i),
           \A s \in Streams : stream'[s] = IF s = t THEN "waiting" ELSE stream[s],
           t \in Streams => stream[t] \in Early
    PROVE  DeliveryInv'
<1> USE DEF Early, Subscribed, Serving
<1>1. joined \in [Streams -> Nat] /\ position' \in [Conns -> Nat]
  BY DEF LiveInv, TypeOK, NotifierTypeOK
<1>2. StagesFit'
  BY DEF DeliveryInv, StagesFit
<1>3. ASSUME NEW s \in Streams, s # t
      PROVE  /\ joined'[s] = joined[s]
             /\ shown'[s] = shown[s]
             /\ Pending(s)' = Pending(s)
             /\ stream'[s] \in Serving <=> stream[s] \in Serving
  BY <1>1, <1>3 DEF Pending, Register
<1>4. ASSUME NEW s \in Streams, s = t
      PROVE  Matches(s)'
  <2>1. shown'[s] = << >> /\ queue'[s] = << >>
    BY <1>4 DEF DeliveryInv, StagesFit
  <2>2. Pending(s)' = << >>
    BY <1>4, <2>1 DEF Pending
  <2>3. joined'[s] = n
    BY <1>1, <1>4 DEF Register
  <2>4. HeardAt(s)' = {}
    BY <1>1, <2>3 DEF HeardAt, Listened
  <2> QED
    BY <1>2, <2>1, <2>2, <2>4, MatchesFresh
<1> QED
  BY <1>2, <1>3, <1>4, SteadyDelivery

\* A step of start(): the first three hand nothing over, and LISTEN begins behind the feed.
LEMMA StartingDelivery ==
    ASSUME LiveInv, LiveInv', DeliveryInv, NEW t \in Tasks, Starting(t)
    PROVE  DeliveryInv'
<1> USE NotifierAssumption
<1>1. StartStep(t) /\ ReadersInTurn'
  BY StartTurn DEF Starting, DeliveryInv
<1>2. UNCHANGED <<open, inbox, feed, queue, topic, listed, current, shown>>
  BY <1>1 DEF Starting, StartStep, AlreadyStarted, BeginStart, Connect, Listen
<1>3. TypeOK /\ NotifierTypeOK /\ Len(feed) \in Nat
  BY DEF LiveInv, TypeOK, BoxTypeOK
<1>4. t \in Streams => stream[t] = "starting"
  BY <1>1 DEF LiveInv, StartersAreStreams, StartStep, AlreadyStarted, BeginStart, Connect,
              Listen
<1>5. CASE AlreadyStarted(t)
  <2>1. reader_task \in Conns /\ Register(t, position[reader_task])
    BY <1>3, <1>5 DEF NotifierTypeOK, AlreadyStarted, RunningUnderLock, Running
  <2>2. UNCHANGED <<since, position>> /\ starting'[t] = "no"
    BY <1>3, <1>5 DEF NotifierTypeOK, AlreadyStarted
  <2>3. position[reader_task] \in Nat /\ \A c \in Conns : position'[c] <= position[reader_task]
    <3>1. position \in [Conns -> Nat] /\ since \in [Conns -> Nat]
      BY <1>3 DEF NotifierTypeOK
    <3>2. \A c \in Conns : /\ c # reader_task => position[c] <= since[reader_task]
                           /\ since[c] <= position[c]
      BY <2>1 DEF DeliveryInv, ReadersInTurn
    <3> QED
      BY <2>1, <2>2, <3>1, <3>2
  <2>4. \A s \in Streams : stream'[s] = IF s = t THEN "waiting" ELSE stream[s]
    BY <2>2 DEF Starting
  <2>5. \A i \in 1..Len(feed) : Listened(i)' <=> Listened(i)
    BY <2>2 DEF Listened
  <2> QED
    BY <1>1, <1>2, <1>4, <2>1, <2>3, <2>4, <2>5, RegisterDelivery DEF Early
<1>6. CASE BeginStart(t) \/ \E c \in Conns : Connect(t, c)
  <2>1. UNCHANGED <<since, position, joined>> /\ starting'[t] # "no"
    BY <1>3, <1>6 DEF NotifierTypeOK, BeginStart, Connect
  <2>2. \A s \in Streams : QuietMove(s)
    BY <2>1 DEF Starting, QuietMove
  <2>3. \A i \in 1..Len(feed) : Listened(i)' <=> Listened(i)
    BY <2>1 DEF Listened
  <2> QED
    BY <1>1, <1>2, <2>1, <2>2, <2>3, QuietDelivery
<1>7. CASE Listen(t)
  <2>1. listen_conn \in Conns /\ Register(t, Len(feed)) /\ starting'[t] = "no"
    BY <1>3, <1>7 DEF LiveInv, HolderIsAlone, Opening, NotifierTypeOK, Listen
  <2>2. \A c \in Conns :
           /\ since'[c] = IF c = listen_conn THEN Len(feed) ELSE since[c]
           /\ position'[c] = IF c = listen_conn THEN Len(feed) ELSE position[c]
    BY <1>3, <1>7 DEF NotifierTypeOK, Listen
  <2>3. position[listen_conn] = since[listen_conn]
    BY <1>7, <2>1 DEF DeliveryInv, ReadersInTurn, Listen
  <2>4. position \in [Conns -> Nat] /\ since \in [Conns -> Nat]
    BY <1>3 DEF NotifierTypeOK
  <2>5. \A i \in 1..Len(feed) : Listened(i)' <=> Listened(i)
    <3>1. ASSUME NEW i \in 1..Len(feed), NEW c \in Conns
          PROVE  since'[c] < i /\ i <= position'[c] <=> since[c] < i /\ i <= position[c]
      <4>1. CASE c = listen_conn
        BY <1>3, <2>2, <2>3, <2>4, <4>1
      <4>2. CASE c # listen_conn
        BY <2>2, <4>2
      <4> QED
        BY <4>1, <4>2
    <3> QED
      BY <3>1 DEF Listened
  <2>6. \A c \in Conns : position'[c] <= Len(feed)
    BY <1>3, <2>2 DEF DeliveryInv, ReadersInTurn
  <2>7. \A s \in Streams : stream'[s] = IF s = t THEN "waiting" ELSE stream[s]
    BY <2>1 DEF Starting
  <2> QED
    BY <1>1, <1>2, <1>3, <1>4, <2>1, <2>5, <2>6, <2>7, RegisterDelivery DEF Early
<1> QED
  BY <1>1, <1>5, <1>6, <1>7 DEF StartStep

\* A stream registers with the running reader, or goes into start().
LEMMA SubscribesDelivery ==
    ASSUME LiveInv, LiveInv', DeliveryInv, NEW s \in Streams, StreamSubscribes(s)
    PROVE  DeliveryInv'
<1> USE NotifierAssumption
<1>1. TypeOK /\ NotifierTypeOK /\ s \in Tasks
  BY DEF LiveInv, TypeOK, Tasks
<1>2. UNCHANGED <<open, inbox, feed, since, position, queue, topic, listed, current, shown>>
  BY DEF StreamSubscribes, Subscribe
<1>3. \A i \in 1..Len(feed) : Listened(i)' <=> Listened(i)
  BY <1>2 DEF Listened
<1>4. CASE Running
  <2>1. /\ reader_task \in Conns /\ Register(s, position[reader_task])
        /\ UNCHANGED <<session, listen_conn, reader_task, starting>>
    BY <1>1, <1>4 DEF NotifierTypeOK, Running, StreamSubscribes, Subscribe
  <2>2. position[reader_task] \in Nat /\ \A c \in Conns : position'[c] <= position[reader_task]
    <3>1. position \in [Conns -> Nat] /\ since \in [Conns -> Nat]
      BY <1>1 DEF NotifierTypeOK
    <3>2. \A c \in Conns : /\ c # reader_task => position[c] <= since[reader_task]
                           /\ since[c] <= position[c]
      BY <2>1 DEF DeliveryInv, ReadersInTurn
    <3> QED
      BY <1>2, <2>1, <3>1, <3>2
  <2>3. \A u \in Streams : stream'[u] = IF u = s THEN "waiting" ELSE stream[u]
    BY <1>1, <1>4 DEF StreamSubscribes, Become, TypeOK
  <2>4. stream[s] \in Early
    BY DEF StreamSubscribes, Early
  <2>5. ReadersInTurn'
    BY <1>1, <1>2, <2>1, RegisterTurn DEF DeliveryInv
  <2> QED
    BY <1>1, <1>2, <1>3, <2>1, <2>2, <2>3, <2>4, <2>5, RegisterDelivery
<1>5. CASE ~ Running
  <2>1. /\ starting' = [starting EXCEPT ![s] = "lock"] /\ UNCHANGED joined
        /\ UNCHANGED <<session, listen_conn, reader_task>>
    BY <1>5 DEF StreamSubscribes, Subscribe
  <2>2. \A u \in Tasks : starting'[u] = "listen" => starting[u] = "listen"
    BY <1>1, <2>1 DEF NotifierTypeOK
  <2>3. ReadersInTurn'
    BY <1>2, <2>1, <2>2 DEF DeliveryInv, ReadersInTurn
  <2>4. \A u \in Streams : QuietMove(u)
    BY <1>1, <1>5 DEF StreamSubscribes, Become, TypeOK, QuietMove, Early
  <2> QED
    BY <1>2, <1>3, <2>1, <2>3, <2>4, QuietDelivery
<1> QED
  BY <1>4, <1>5

\* A task leaves start() with an exception, and its stream ends.
LEMMA LeaveDelivery ==
    ASSUME LiveInv, DeliveryInv, NEW t \in Tasks, LeaveStart(t), NEW label \in Ended,
           UNCHANGED <<open, inbox, listed, current, shown>>,
           \A s \in Streams : stream'[s] = IF s = t THEN label ELSE stream[s]
    PROVE  DeliveryInv'
<1>1. UNCHANGED <<feed, since, position, joined, queue, topic>> /\ ReadersInTurn'
  BY ReaderTurn DEF LeaveStart, DeliveryInv
<1>2. \A i \in 1..Len(feed) : Listened(i)' <=> Listened(i)
  BY <1>1 DEF Listened
<1>3. t \in Streams => stream[t] = "starting"
  BY DEF LiveInv, StartersAreStreams, LeaveStart
<1>4. \A s \in Streams : QuietMove(s)
  BY <1>3 DEF QuietMove, Early
<1> QED
  BY <1>1, <1>2, <1>4, QuietDelivery

\* The crash of a reader, its handler and stop() hand nothing over.
LEMMA ResetDelivery ==
    ASSUME LiveInv, DeliveryInv,
           UNCHANGED <<open, inbox, stream, listed, current, shown>>,
           Stop \/ \E c \in Conns : ReaderCrash(c) \/ BeginReset(c) \/ EndReset(c)
    PROVE  DeliveryInv'
<1>1. UNCHANGED <<feed, since, position, joined, queue, topic>>
  BY DEF Stop, ReaderCrash, BeginReset, EndReset
<1>2. ReadersInTurn'
  BY ReaderTurn DEF ReaderStep, DeliveryInv
<1>3. \A i \in 1..Len(feed) : Listened(i)' <=> Listened(i)
  BY <1>1 DEF Listened
<1>4. \A s \in Streams : QuietMove(s)
  BY DEF QuietMove
<1> QED
  BY <1>1, <1>2, <1>3, <1>4, QuietDelivery

\* A subscription runs its finally block and drops what it has waiting.
LEMMA EndsDelivery ==
    ASSUME LiveInv, DeliveryInv, NEW s \in Streams, Unsubscribe(s),
           NEW label \in Ended, Become(s, label),
           UNCHANGED <<open, inbox, feed, topic, listed, current, shown>>
    PROVE  DeliveryInv'
<1>1. TypeOK /\ NotifierTypeOK
  BY DEF LiveInv, TypeOK
<1>2. UNCHANGED <<since, position, session, listen_conn, reader_task, starting, joined>>
  BY DEF Unsubscribe
<1>3. ReadersInTurn'
  BY <1>2 DEF DeliveryInv, ReadersInTurn
<1>4. \A i \in 1..Len(feed) : Listened(i)' <=> Listened(i)
  BY <1>2 DEF Listened
<1>5. \A u \in Streams : /\ stream'[u] = IF u = s THEN label ELSE stream[u]
                         /\ queue'[u] = IF u = s THEN << >> ELSE queue[u]
  BY <1>1 DEF TypeOK, NotifierTypeOK, Become, Unsubscribe
<1>6. StagesFit'
  BY <1>5 DEF DeliveryInv, StagesFit, Subscribed, Serving, Ended
<1>7. ASSUME NEW u \in Streams, u # s
      PROVE  /\ joined'[u] = joined[u]
             /\ shown'[u] = shown[u]
             /\ Pending(u)' = Pending(u)
             /\ stream'[u] \in Serving <=> stream[u] \in Serving
  BY <1>2, <1>5, <1>7 DEF Pending
<1>8. Matches(s)'
  <2>1. HeardAt(s)' = HeardAt(s)
    BY <1>2, <1>4 DEF HeardAt
  <2>2. Heard(s)' = Heard(s)
    BY <2>1, HeardStays DEF DeliveryInv
  <2>3. stream'[s] \notin Serving
    BY <1>5 DEF Serving, Ended
  <2> QED
    BY <2>2, <2>3, MatchesEnds DEF DeliveryInv, StreamMatchesFeed, Matches
<1> QED
  BY <1>3, <1>4, <1>6, <1>7, <1>8, SteadyDelivery

\* A stream is left at a yield of its subscription: the queue stays, nobody takes from it.
LEMMA LeftDelivery ==
    ASSUME LiveInv, DeliveryInv, NEW s \in Streams, Become(s, "abandoned"),
           stream[s] \in {"lookup", "sending"},
           UNCHANGED <<open, inbox, feed, topic, listed, current, shown, queue>>,
           UNCHANGED <<since, position, session, listen_conn, reader_task, starting, joined>>
    PROVE  DeliveryInv'
<1>1. ReadersInTurn'
  BY DEF DeliveryInv, ReadersInTurn
<1>2. \A i \in 1..Len(feed) : Listened(i)' <=> Listened(i)
  BY DEF Listened
<1>3. \A u \in Streams : stream'[u] = IF u = s THEN "abandoned" ELSE stream[u]
  BY DEF LiveInv, TypeOK, Become
<1>4. StagesFit'
  BY <1>3 DEF DeliveryInv, StagesFit, Subscribed, Serving
<1>5. ASSUME NEW u \in Streams, u # s
      PROVE  /\ joined'[u] = joined[u]
             /\ shown'[u] = shown[u]
             /\ Pending(u)' = Pending(u)
             /\ stream'[u] \in Serving <=> stream[u] \in Serving
  BY <1>3, <1>5 DEF Pending
<1>6. Matches(s)'
  <2>1. HeardAt(s)' = HeardAt(s)
    BY <1>2 DEF HeardAt
  <2>2. Heard(s)' = Heard(s)
    BY <2>1, HeardStays DEF DeliveryInv
  <2>3. stream'[s] \notin Serving
    BY <1>3 DEF Serving
  <2> QED
    BY <2>2, <2>3, MatchesEnds DEF DeliveryInv, StreamMatchesFeed, Matches
<1> QED
  BY <1>1, <1>2, <1>4, <1>5, <1>6, SteadyDelivery

\* What a stream takes from its queue stays pending.
LEMMA TakeDelivery ==
    ASSUME LiveInv, DeliveryInv, NEW s \in Streams, Take(s)
    PROVE  DeliveryInv'
<1> USE NotifierAssumption
<1>1. TypeOK /\ NotifierTypeOK
  BY DEF LiveInv, TypeOK
<1>2. /\ UNCHANGED <<open, inbox, feed, topic, listed, shown>>
      /\ UNCHANGED <<since, position, session, listen_conn, reader_task, starting, joined>>
  BY DEF Take, boxVars
<1>3. ReadersInTurn'
  BY <1>2 DEF DeliveryInv, ReadersInTurn
<1>4. \A i \in 1..Len(feed) : Listened(i)' <=> Listened(i)
  BY <1>2 DEF Listened
<1>5. \A u \in Streams : /\ stream'[u] = IF u = s THEN "lookup" ELSE stream[u]
                         /\ queue'[u] = IF u = s THEN Tail(queue[s]) ELSE queue[u]
                         /\ current'[u] = IF u = s THEN Head(queue[s]) ELSE current[u]
  BY <1>1 DEF TypeOK, NotifierTypeOK, Take, Become
<1>6. queue[s] \in Seq(RequestIds) /\ queue[s] # << >> /\ stream[s] = "waiting"
  BY <1>1 DEF NotifierTypeOK, Take
<1>7. Head(queue[s]) \in RequestIds /\ queue[s] = <<Head(queue[s])>> \o Tail(queue[s])
  BY <1>6
<1>8. StagesFit'
  BY <1>2, <1>5, <1>6, <1>7 DEF DeliveryInv, StagesFit, Subscribed, Serving
<1>9. ASSUME NEW u \in Streams
      PROVE  Pending(u)' = Pending(u) /\ (stream'[u] \in Serving <=> stream[u] \in Serving)
  <2>1. CASE u = s
    <3>1. Pending(u) = << >> \o queue[s]
      BY <1>6, <2>1 DEF Pending
    <3>2. Pending(u)' = <<Head(queue[s])>> \o Tail(queue[s])
      BY <1>5, <2>1 DEF Pending
    <3>3. << >> \o queue[s] = queue[s]
      BY <1>6
    <3> QED
      BY <1>5, <1>6, <1>7, <2>1, <3>1, <3>2, <3>3 DEF Serving
  <2>2. CASE u # s
    BY <1>5, <2>2 DEF Pending
  <2> QED
    BY <2>1, <2>2
<1> QED
  BY <1>2, <1>3, <1>4, <1>8, <1>9, SteadyDelivery

-----------------------------------------------------------------------------
(* Steps that show, hand over, list or announce *)

\* What a registered stream shows or has waiting was announced, and is in an inbox.
LEMMA HeardIsStored ==
    ASSUME LiveInv, DeliveryInv, NEW s \in Streams, NEW k \in 1..Len(Heard(s))
    PROVE  /\ topic[s] \in EndpointIds
           /\ Heard(s)[k] \in inbox[topic[s]]
<1>1. /\ feed \in Seq(EndpointIds \X RequestIds)
      /\ HeardAt(s) \in SUBSET (1..Len(feed))
  BY HeardType DEF DeliveryInv
<1>2. Heard(s) = Told(feed, HeardAt(s))
  BY HeardIsTold
<1>3. PICK i \in HeardAt(s) : Heard(s)[k] = feed[i][2]
  <2>1. /\ k \in 1..Cardinality(HeardAt(s))
        /\ Nth(HeardAt(s), k) \in HeardAt(s)
        /\ Heard(s)[k] = feed[Nth(HeardAt(s), k)][2]
    BY <1>1, <1>2, ToldType
  <2> QED
    BY <2>1
<1>4. i \in 1..Len(feed) /\ feed[i][1] = topic[s]
  BY <1>3 DEF HeardAt, EndpointOf
<1>5. feed[i] \in EndpointIds \X RequestIds
  BY <1>1, <1>4
<1>6. feed[i][2] \in inbox[feed[i][1]]
  BY <1>4 DEF DeliveryInv, FeedIsReadable
<1> QED
  BY <1>3, <1>4, <1>5, <1>6

\* find_by_id finds what was announced, and the stream shows it.
LEMMA RenderDelivery ==
    ASSUME LiveInv, DeliveryInv, NEW s \in Streams, Render(s)
    PROVE  DeliveryInv'
<1> USE NotifierAssumption
<1>1. TypeOK /\ NotifierTypeOK /\ stream[s] = "lookup"
  BY DEF LiveInv, TypeOK, Render
<1>2. /\ UNCHANGED <<open, inbox, feed, topic, listed, queue, current>>
      /\ UNCHANGED <<since, position, session, listen_conn, reader_task, starting, joined>>
  BY DEF Render, boxVars, notifierVars
<1>3. ReadersInTurn'
  BY <1>2 DEF DeliveryInv, ReadersInTurn
<1>4. \A i \in 1..Len(feed) : Listened(i)' <=> Listened(i)
  BY <1>2 DEF Listened
<1>5. /\ shown[s] \in Seq(RequestIds) /\ queue[s] \in Seq(RequestIds)
      /\ current[s] \in RequestIds
  BY <1>1 DEF TypeOK, NotifierTypeOK, DeliveryInv, StagesFit
<1>6. shown[s] \o (<<current[s]>> \o queue[s]) = Heard(s)
  BY <1>1 DEF DeliveryInv, StreamMatchesFeed, Subscribed, Serving, Pending
<1> DEFINE told == shown[s]
           rest == queue[s]
           this == current[s]
<1>7. /\ told \in Seq(RequestIds) /\ rest \in Seq(RequestIds) /\ this \in RequestIds
      /\ told \o (<<this>> \o rest) = Heard(s)
  BY <1>5, <1>6
<1>8. /\ Len(told) + 1 \in 1..Len(told \o (<<this>> \o rest))
      /\ (told \o (<<this>> \o rest))[Len(told) + 1] = this
      /\ Append(told, this) \o (<< >> \o rest) = told \o (<<this>> \o rest)
  <2> HIDE DEF told, rest, this
  <2> QED
    BY <1>7, FirstOfSecond, AppendThenConcat
<1>9. \E e \in EndpointIds : current[s] \in inbox[e]
  <2> DEFINE k == Len(told) + 1
  <2>1. k \in 1..Len(Heard(s)) /\ Heard(s)[k] = current[s]
    BY <1>7, <1>8
  <2> QED
    BY <2>1, HeardIsStored
<1>10. \A u \in Streams :
         /\ stream'[u] = IF u = s THEN "sending" ELSE stream[u]
         /\ shown'[u] = IF u = s THEN Append(shown[s], current[s]) ELSE shown[u]
  BY <1>1, <1>9 DEF Render, Become, TypeOK
<1>11. StagesFit'
  BY <1>1, <1>2, <1>10 DEF DeliveryInv, StagesFit, Subscribed, Serving
<1>12. ASSUME NEW u \in Streams, u # s
       PROVE  /\ shown'[u] = shown[u]
              /\ Pending(u)' = Pending(u)
              /\ stream'[u] \in Serving <=> stream[u] \in Serving
  BY <1>2, <1>10, <1>12 DEF Pending
<1>13. Matches(s)'
  <2>1. Heard(s)' = Heard(s)
    <3>1. HeardAt(s)' = HeardAt(s)
      BY <1>2, <1>4 DEF HeardAt
    <3> QED
      BY <1>2, <3>1, HeardStays DEF DeliveryInv
  <2>2. shown'[s] = Append(shown[s], current[s]) /\ Pending(s)' = << >> \o queue[s]
    BY <1>2, <1>10 DEF Pending
  <2>3. stream'[s] \in Serving
    BY <1>10 DEF Serving
  <2>4. shown'[s] \o Pending(s)' = Heard(s)'
    BY <1>7, <1>8, <2>1, <2>2
  <2> QED
    BY <2>3, <2>4 DEF Matches
<1> QED
  BY <1>2, <1>3, <1>4, <1>11, <1>12, <1>13, SteadyDelivery

\* The reader hands over announcement n, after all others.
LEMMA DispatchHears ==
    ASSUME LiveInv, ReadersInTurn, NEW c \in Conns, Dispatch(c),
           NEW n, n = position[c] + 1, NEW s \in Streams
    PROVE  /\ n \in 1..Len(feed)
           /\ \A i \in HeardAt(s) : i < n
           /\ HeardAt(s)' = IF EndpointOf(feed[n]) = topic[s] /\ n > joined[s]
                            THEN HeardAt(s) \cup {n} ELSE HeardAt(s)
<1>1. /\ position \in [Conns -> Nat] /\ since \in [Conns -> Nat]
      /\ Len(feed) \in Nat
  BY DEF LiveInv, TypeOK, NotifierTypeOK, BoxTypeOK
<1>2. c = reader_task
  BY DEF LiveInv, NoConnectionLeak, Dispatch
<1>3. n \in 1..Len(feed)
  BY <1>1 DEF Dispatch
<1>4. UNCHANGED <<feed, topic, joined, since>>
  BY DEF Dispatch
<1>5. \A d \in Conns : position'[d] = IF d = c THEN n ELSE position[d]
  BY <1>1 DEF Dispatch
<1>6. \A d \in Conns : /\ since[d] <= position[d]
                       /\ d # c => position[d] <= since[c]
  BY <1>2, NotifierAssumption DEF ReadersInTurn
<1>7. \A d \in Conns : position[d] < n
  BY <1>1, <1>6
<1>8. ASSUME NEW i \in 1..Len(feed)
      PROVE  Listened(i)' <=> Listened(i) \/ i = n
  <2>1. since'[c] < i /\ i <= position'[c] <=> (since[c] < i /\ i <= position[c]) \/ i = n
    BY <1>1, <1>4, <1>5, <1>6
  <2>2. \A d \in Conns : d # c => (since'[d] < i /\ i <= position'[d]
                                      <=> since[d] < i /\ i <= position[d])
    BY <1>4, <1>5
  <2> QED
    BY <2>1, <2>2 DEF Listened
<1>9. \A i \in HeardAt(s) : i < n
  BY <1>1, <1>3, <1>7 DEF HeardAt, Listened
<1>10. \A i : i \in HeardAt(s)' <=> \/ i \in HeardAt(s)
                                    \/ i = n /\ EndpointOf(feed[n]) = topic[s] /\ n > joined[s]
  BY <1>3, <1>4, <1>8 DEF HeardAt
<1> QED
  BY <1>3, <1>9, <1>10

\* The reader hands an announcement to the queues of its endpoint, and to no other.
LEMMA DispatchDelivery ==
    ASSUME LiveInv, DeliveryInv, NEW c \in Conns, Dispatch(c),
           UNCHANGED <<open, inbox, stream, listed, current, shown>>
    PROVE  DeliveryInv'
<1> USE NotifierAssumption
<1> DEFINE n == position[c] + 1
           e == feed[n][1]
           r == feed[n][2]
<1>1. TypeOK /\ NotifierTypeOK /\ feed \in Seq(EndpointIds \X RequestIds)
  BY DEF LiveInv, TypeOK, BoxTypeOK
<1>2. UNCHANGED <<feed, topic, joined, queues>>
  BY DEF Dispatch
<1>3. ReadersInTurn'
  BY ReaderTurn DEF DeliveryInv, ReaderStep
<1>4. FeedIsReadable' /\ PageFitsTopic'
  BY <1>2 DEF DeliveryInv, FeedIsReadable, PageFitsTopic
<1>5. n \in 1..Len(feed) /\ e \in EndpointIds /\ r \in RequestIds
  BY <1>1 DEF Dispatch, NotifierTypeOK
<1>6. \A s \in Streams :
         queue'[s] = IF s \in queues[e] THEN Append(queue[s], r) ELSE queue[s]
  BY DEF Dispatch, Receivers, EndpointOf, RequestOf
<1>7. \A s \in Streams : s \in queues[e] <=> stream[s] \in Subscribed /\ topic[s] = e
  BY <1>5 DEF LiveInv, QueuesMatchStreams
<1>8. StagesFit'
  BY <1>6, <1>7 DEF DeliveryInv, StagesFit
<1>9. ASSUME NEW s \in Streams
      PROVE  Matches(s)'
  <2>1. /\ Heard(s) \in Seq(RequestIds) /\ shown[s] \in Seq(RequestIds)
        /\ queue[s] \in Seq(RequestIds) /\ Pending(s) \in Seq(RequestIds)
        /\ HeardAt(s) \in SUBSET (1..Len(feed))
    BY HeardType DEF DeliveryInv
  <2>2. /\ \A i \in HeardAt(s) : i < n
        /\ HeardAt(s)' = IF e = topic[s] /\ n > joined[s]
                         THEN HeardAt(s) \cup {n} ELSE HeardAt(s)
    BY DispatchHears DEF DeliveryInv, EndpointOf
  <2>3. HeardAt(s)' = HeardAt(s) => Heard(s)' = Heard(s)
    BY <1>2, HeardIsTold
  <2>4. HeardAt(s)' = HeardAt(s) \cup {n} => Heard(s)' = Append(Heard(s), r)
    BY <1>1, <1>2, <1>5, <2>1, <2>2, HeardIsTold, ToldExtends
  <2>5. CASE stream[s] \in Serving /\ s \in queues[e]
    <3>1. n > joined[s]
      <4>1. reader_task = c
        BY DEF LiveInv, NoConnectionLeak, Dispatch
      <4>2. joined[s] <= position[c] /\ joined[s] \in Nat /\ position[c] \in Nat
        BY <1>1, <4>1 DEF DeliveryInv, ReadersInTurn, NotifierTypeOK
      <4> QED
        BY <4>2
    <3>2. Heard(s)' = Append(Heard(s), r)
      BY <1>7, <2>2, <2>4, <2>5, <3>1
    <3>3. Pending(s)' = Append(Pending(s), r)
      <4>1. queue'[s] = Append(queue[s], r)
        BY <1>6, <2>5
      <4>2. CASE stream[s] = "lookup"
        <5>1. <<current[s]>> \in Seq(RequestIds)
          BY <1>1, <4>2 DEF TypeOK, DeliveryInv, StagesFit
        <5>2. /\ Pending(s) = <<current[s]>> \o queue[s]
              /\ Pending(s)' = <<current[s]>> \o Append(queue[s], r)
          BY <4>1, <4>2 DEF Pending
        <5> QED
          BY <1>5, <2>1, <5>1, <5>2, AppendOfConcat
      <4>3. CASE stream[s] # "lookup"
        <5>1. << >> \in Seq(RequestIds)
          OBVIOUS
        <5>2. Pending(s) = << >> \o queue[s] /\ Pending(s)' = << >> \o Append(queue[s], r)
          BY <4>1, <4>3 DEF Pending
        <5> QED
          BY <1>5, <2>1, <5>1, <5>2, AppendOfConcat
      <4> QED
        BY <4>2, <4>3
    <3>4. shown[s] \o Pending(s) = Heard(s)
      BY <2>5 DEF DeliveryInv, StreamMatchesFeed
    <3>5. shown[s] \o Append(Pending(s), r) = Append(shown[s] \o Pending(s), r)
      <4> DEFINE told == shown[s]
                 rest == Pending(s)
      <4>1. told \in Seq(RequestIds) /\ rest \in Seq(RequestIds) /\ r \in RequestIds
        BY <1>5, <2>1
      <4> HIDE DEF told, rest, r
      <4>2. told \o Append(rest, r) = Append(told \o rest, r)
        BY <4>1, AppendOfConcat
      <4> QED
        BY <4>2 DEF told, rest
    <3> QED
      BY <2>5, <3>2, <3>3, <3>4, <3>5 DEF Matches
  <2>6. CASE stream[s] \in Serving /\ s \notin queues[e]
    <3>1. Heard(s)' = Heard(s) /\ Pending(s)' = Pending(s)
      BY <1>6, <1>7, <2>2, <2>3, <2>6 DEF Pending, Serving, Subscribed
    <3> QED
      BY <2>6, <3>1 DEF DeliveryInv, StreamMatchesFeed, Matches
  <2>7. CASE stream[s] \notin Serving
    <3>1. Heard(s)' = Heard(s) \/ Heard(s)' = Append(Heard(s), r)
      BY <2>2, <2>3, <2>4
    <3>2. IsPrefix(shown[s], Heard(s))
      BY <2>7 DEF DeliveryInv, StreamMatchesFeed
    <3>3. IsPrefix(shown[s], Append(Heard(s), r))
      BY <1>5, <2>1, <3>2, PrefixOfAppend
    <3> QED
      BY <2>7, <3>1, <3>2, <3>3 DEF Matches
  <2> QED
    BY <2>5, <2>6, <2>7
<1>10. StreamMatchesFeed'
  BY <1>9 DEF StreamMatchesFeed, Matches
<1> QED
  BY <1>3, <1>4, <1>8, <1>10 DEF DeliveryInv

\* A page lists what is there when it is loaded, of the endpoint that its stream will
\* follow: also of the one that has claimed the slug by the time the stream opens.
LEMMA PageDelivery ==
    ASSUME LiveInv, LiveInv', DeliveryInv, NEW s \in Streams, NEW e \in EndpointIds,
           LoadPage(s, e) \/ OpenStream(s, e)
    PROVE  DeliveryInv'
<1> USE NotifierAssumption
<1>1. TypeOK /\ stream[s] \in {"new", "loaded"} /\ shown[s] = << >> /\ queue[s] = << >>
  BY DEF LiveInv, LoadPage, OpenStream, DeliveryInv, StagesFit, Subscribed, Serving
<1>2. /\ UNCHANGED <<open, inbox, feed, shown, queue, current>>
      /\ UNCHANGED <<since, position, session, listen_conn, reader_task, starting, joined>>
  BY DEF LoadPage, OpenStream, boxVars, notifierVars
<1>3. ReadersInTurn' /\ FeedIsReadable'
  BY <1>2 DEF DeliveryInv, ReadersInTurn, FeedIsReadable
<1>4. \E label \in {"loaded", "connected"} :
         \A u \in Streams : stream'[u] = IF u = s THEN label ELSE stream[u]
  BY <1>1 DEF LoadPage, OpenStream, Become, TypeOK
<1>5. \A u \in Streams : topic'[u] = IF u = s THEN e ELSE topic[u]
  BY <1>1 DEF LoadPage, OpenStream, TypeOK
<1>6. PageFitsTopic'
  <2>1. \A u \in Streams : u # s => listed'[u] = listed[u]
    BY <1>1 DEF LoadPage, OpenStream, TypeOK
  <2>2. listed'[s] # {} => listed'[s] \subseteq inbox[e]
    <3>1. CASE LoadPage(s, e)
      BY <1>1, <3>1 DEF LoadPage, TypeOK
    <3>2. CASE OpenStream(s, e)
      <4>1. listed'[s] = listed[s]
        BY <3>2 DEF OpenStream
      <4>2. listed[s] # {} => topic[s] = e /\ listed[s] \subseteq inbox[topic[s]]
        <5>1. ASSUME listed[s] # {}
              PROVE  topic[s] \in open /\ listed[s] \subseteq inbox[topic[s]]
          BY <5>1 DEF DeliveryInv, PageFitsTopic, FeedIsReadable
        <5> QED
          BY <3>2, <5>1 DEF OpenStream, Named
      <4> QED
        BY <4>1, <4>2
    <3> QED
      BY <3>1, <3>2
  <2> QED
    BY <1>2, <1>5, <2>1, <2>2 DEF DeliveryInv, PageFitsTopic
<1>7. StagesFit'
  BY <1>1, <1>2, <1>4 DEF DeliveryInv, StagesFit, Subscribed, Serving
<1>8. ASSUME NEW u \in Streams
      PROVE  Matches(u)'
  <2>1. CASE u = s
    BY <1>1, <1>2, <1>4, <1>7, <2>1, MatchesFresh DEF Serving
  <2>2. CASE u # s
    <3>1. HeardAt(u)' = HeardAt(u)
      BY <1>2, <1>5, <2>2 DEF HeardAt, Listened
    <3>2. Heard(u)' = Heard(u)
      BY <1>2, <3>1, HeardStays DEF DeliveryInv
    <3>3. stream'[u] = stream[u] /\ Pending(u)' = Pending(u) /\ shown'[u] = shown[u]
      BY <1>2, <1>4, <2>2 DEF Pending
    <3> QED
      BY <3>2, <3>3, MatchesStays DEF DeliveryInv, StreamMatchesFeed, Matches
  <2> QED
    BY <2>1, <2>2
<1>9. StreamMatchesFeed'
  BY <1>8 DEF StreamMatchesFeed, Matches
<1> QED
  BY <1>3, <1>6, <1>7, <1>9 DEF DeliveryInv

\* Captures are announced behind what readers have handed over, and only empty inboxes
\* are purged.
LEMMA OutsideDelivery ==
    ASSUME LiveInv, LiveInv', DeliveryInv, Outside
    PROVE  DeliveryInv'
<1>1. UNCHANGED <<notifierVars, streamVars>> /\ Box!Next
  BY DEF Outside
<1>2. /\ inbox \in [EndpointIds -> SUBSET RequestIds] /\ open \subseteq EndpointIds
      /\ feed \in Seq(EndpointIds \X RequestIds)
  BY DEF LiveInv, BoxTypeOK
<1>3. /\ feed' \in Seq(EndpointIds \X RequestIds)
      /\ Len(feed) <= Len(feed')
      /\ \A i \in 1..Len(feed) : feed'[i] = feed[i]
      /\ \A e \in EndpointIds : inbox[e] \subseteq inbox'[e]
      /\ FeedIsReadable'
  <2>1. CASE \E e \in EndpointIds : Box!Open(e)
    BY <1>2, <2>1 DEF Box!Open, DeliveryInv, FeedIsReadable
  <2>2. CASE \E S \in SUBSET EndpointIds : Box!Purge(S)
    BY <1>2, <2>2 DEF Box!Purge, DeliveryInv, FeedIsReadable
  <2>3. ASSUME NEW e \in EndpointIds, NEW r \in RequestIds, Box!Deliver(e, r)
        PROVE  /\ feed' \in Seq(EndpointIds \X RequestIds)
               /\ Len(feed) <= Len(feed')
               /\ \A i \in 1..Len(feed) : feed'[i] = feed[i]
               /\ \A f \in EndpointIds : inbox[f] \subseteq inbox'[f]
               /\ FeedIsReadable'
    <3>1. /\ feed' = Append(feed, <<e, r>>) /\ <<e, r>> \in EndpointIds \X RequestIds
          /\ inbox' = [inbox EXCEPT ![e] = @ \cup {r}] /\ e \in open /\ open' = open
      BY <2>3 DEF Box!Deliver
    <3>2. /\ feed' \in Seq(EndpointIds \X RequestIds)
          /\ Len(feed') = Len(feed) + 1 /\ Len(feed) \in Nat
          /\ \A i \in 1..Len(feed) : feed'[i] = feed[i]
          /\ feed'[Len(feed) + 1] = <<e, r>>
      BY <1>2, <3>1, AppendProperties
    <3>3. \A f \in EndpointIds : inbox'[f] = IF f = e THEN inbox[e] \cup {r} ELSE inbox[f]
      BY <1>2, <3>1
    <3>4. \A i \in 1..Len(feed') : feed'[i][2] \in inbox'[feed'[i][1]]
      <4>1. ASSUME NEW i \in 1..Len(feed)
            PROVE  feed'[i][2] \in inbox'[feed'[i][1]]
        <5>1. feed[i][1] \in EndpointIds /\ feed[i][2] \in inbox[feed[i][1]]
          BY <1>2 DEF DeliveryInv, FeedIsReadable
        <5> QED
          BY <3>2, <3>3, <5>1
      <4>2. \A i \in 1..Len(feed') : i \in 1..Len(feed) \/ i = Len(feed) + 1
        BY <3>2
      <4>3. feed'[Len(feed) + 1][2] \in inbox'[feed'[Len(feed) + 1][1]]
        BY <3>2, <3>3
      <4> QED
        BY <4>1, <4>2, <4>3
    <3>5. \A f \in EndpointIds : inbox'[f] # {} => f \in open'
      BY <3>1, <3>3 DEF DeliveryInv, FeedIsReadable
    <3>6. FeedIsReadable'
      BY <3>4, <3>5 DEF FeedIsReadable
    <3> QED
      BY <3>2, <3>3, <3>6
  <2> QED
    BY <1>1, <2>1, <2>2, <2>3 DEF Box!Next
<1>4. UNCHANGED <<since, position, session, listen_conn, reader_task, starting, joined, queue>>
  BY <1>1 DEF notifierVars
<1>5. UNCHANGED <<stream, topic, listed, current, shown>>
  BY <1>1 DEF streamVars
<1>6. ReadersInTurn'
  BY <1>3, <1>4, FrameTurn DEF DeliveryInv
<1>7. StagesFit' /\ PageFitsTopic'
  BY <1>3, <1>4, <1>5 DEF DeliveryInv, StagesFit, PageFitsTopic
<1>8. ASSUME NEW s \in Streams
      PROVE  Matches(s)'
  <2>1. \A i \in 1..Len(feed') : Listened(i) => i \in 1..Len(feed)
    <3>1. position \in [Conns -> Nat] /\ \A c \in Conns : position[c] <= Len(feed)
      BY DEF DeliveryInv, ReadersInTurn, LiveInv, TypeOK, NotifierTypeOK
    <3>2. Len(feed) \in Nat /\ Len(feed') \in Nat
      BY <1>2, <1>3
    <3> QED
      BY <3>1, <3>2 DEF Listened
  <2>2. \A i \in 1..Len(feed) : i \in 1..Len(feed')
    BY <1>2, <1>3
  <2>3. \A i : Listened(i)' <=> Listened(i)
    BY <1>4 DEF Listened
  <2>4. HeardAt(s)' = HeardAt(s)
    BY <1>3, <1>4, <1>5, <2>1, <2>2, <2>3 DEF HeardAt, EndpointOf
  <2>5. Heard(s)' = Heard(s)
    BY <1>3, <2>4, HeardStays DEF DeliveryInv
  <2>6. Pending(s)' = Pending(s)
    BY <1>4, <1>5 DEF Pending
  <2> QED
    BY <1>5, <2>5, <2>6, MatchesStays DEF DeliveryInv, StreamMatchesFeed, Matches
<1>9. StreamMatchesFeed'
  BY <1>8 DEF StreamMatchesFeed, Matches
<1> QED
  BY <1>3, <1>6, <1>7, <1>9 DEF DeliveryInv

-----------------------------------------------------------------------------
(* The invariant, and what it implies *)

\* At boot nothing is announced, listed or shown.
LEMMA DeliveryInitInv == Init => DeliveryInv
<1> SUFFICES ASSUME Init PROVE DeliveryInv
  OBVIOUS
<1> USE NotifierAssumption DEF Init, Box!Init, NotifierInit
<1>1. ReadersInTurn /\ FeedIsReadable /\ PageFitsTopic
  BY DEF ReadersInTurn, FeedIsReadable, PageFitsTopic, Tasks
<1>2. StagesFit
  BY DEF StagesFit
<1>3. ASSUME NEW s \in Streams
      PROVE  stream[s] \notin Serving /\ IsPrefix(shown[s], Heard(s))
  <2>1. LiveInv
    BY LiveInitInv
  <2>2. Heard(s) \in Seq(RequestIds)
    BY <1>2, <2>1, HeardType
  <2>3. shown[s] = << >>
    OBVIOUS
  <2> QED
    BY <2>2, <2>3 DEF IsPrefix, Subscribed, Serving
<1> QED
  BY <1>1, <1>2, <1>3 DEF DeliveryInv, StreamMatchesFeed

\* The ways in which a stream ends or is left.
LEMMA EndDelivery ==
    ASSUME LiveInv, DeliveryInv, NEW s \in Streams, RenderFails(s) \/ Disconnect(s) \/ Collect(s)
    PROVE  DeliveryInv'
<1>1. TypeOK /\ s \in Tasks
  BY DEF LiveInv, Tasks
<1>2. CASE Collect(s) \/ (Disconnect(s) /\ stream[s] = "waiting")
  BY <1>2, EndsDelivery DEF Collect, Disconnect, Ended, boxVars
<1>3. CASE Disconnect(s) /\ stream[s] = "starting"
  <2>1. /\ LeaveStart(s) /\ UNCHANGED <<open, inbox, listed, current, shown>>
        /\ \A u \in Streams : stream'[u] = IF u = s THEN "closed" ELSE stream[u]
    BY <1>1, <1>3 DEF Disconnect, Become, boxVars, TypeOK
  <2> QED
    BY <1>1, <2>1, LeaveDelivery DEF Ended
<1>4. CASE Disconnect(s) /\ stream[s] = "connected"
  <2>1. /\ UNCHANGED <<boxVars, notifierVars, topic, listed, current, shown>>
        /\ \A u \in Streams : QuietMove(u)
    BY <1>1, <1>4 DEF Disconnect, Become, TypeOK, QuietMove, Early, Ended
  <2> QED
    BY <2>1, RestDelivery
<1>5. CASE RenderFails(s) \/ (Disconnect(s) /\ stream[s] \in {"lookup", "sending"})
  BY <1>5, LeftDelivery DEF RenderFails, Disconnect, boxVars, notifierVars
<1> QED
  BY <1>2, <1>3, <1>4, <1>5 DEF Disconnect

\* Every step keeps the invariant.
LEMMA DeliveryStepInv == LiveInv /\ DeliveryInv /\ [Next]_vars => DeliveryInv'
<1> SUFFICES ASSUME LiveInv, DeliveryInv, [Next]_vars PROVE DeliveryInv'
  OBVIOUS
<1>1. LiveInv' /\ TypeOK
  BY LiveStepInv DEF LiveInv
<1>2. CASE Outside
  BY <1>1, <1>2, OutsideDelivery
<1>3. CASE Shutdown
  BY <1>3, ResetDelivery DEF Shutdown
<1>4. ASSUME NEW t \in Tasks, Starting(t) \/ StartingFails(t)
      PROVE  DeliveryInv'
  <2>1. CASE Starting(t)
    BY <1>1, <2>1, StartingDelivery
  <2>2. CASE StartingFails(t)
    <3>1. /\ LeaveStart(t) /\ UNCHANGED <<open, inbox, listed, current, shown>>
          /\ \A u \in Streams : stream'[u] = IF u = t THEN "broken" ELSE stream[u]
      BY <2>2 DEF StartingFails, StartFails
    <3> QED
      BY <3>1, LeaveDelivery DEF Ended
  <2> QED
    BY <1>4, <2>1, <2>2
<1>5. ASSUME NEW c \in Conns, Reading(c) \/ Crashing(c)
      PROVE  DeliveryInv'
  BY <1>5, DispatchDelivery, ResetDelivery DEF Reading, Crashing, ReaderStep
<1>6. CASE Booted \/ UNCHANGED vars \/ \E s \in Streams : OpenMissing(s) \/ Sent(s)
  <2>1. UNCHANGED <<boxVars, notifierVars, topic, listed, current, shown>>
    BY <1>6 DEF Booted, OpenMissing, Sent, vars, streamVars
  <2>2. \A u \in Streams : QuietMove(u)
    BY <1>1, <1>6
    DEF Booted, OpenMissing, Sent, vars, streamVars, Become, TypeOK, QuietMove, Early, Ended
  <2> QED
    BY <2>1, <2>2, RestDelivery
<1>7. ASSUME NEW s \in Streams, StreamStep(s)
      PROVE  DeliveryInv'
  BY <1>1, <1>6, <1>7, PageDelivery, SubscribesDelivery, TakeDelivery, RenderDelivery,
     EndDelivery DEF StreamStep
<1> QED
  BY <1>2, <1>3, <1>4, <1>5, <1>6, <1>7 DEF Next

\* Readers hand over in turn, pages fit their streams, and streams show and have waiting
\* what was handed over, in every state.
THEOREM DeliveryInvariance == Spec => []DeliveryInv
<1>1. Init => LiveInv /\ DeliveryInv
  BY LiveInitInv, DeliveryInitInv
<1>2. (LiveInv /\ DeliveryInv) /\ [Next]_vars => (LiveInv /\ DeliveryInv)'
  BY LiveStepInv, DeliveryStepInv
<1> QED
  BY <1>1, <1>2, PTL DEF Spec

\* Through every crash and restart of readers, streams show each capture handed over to
\* them once, in the order of the commits.
THEOREM StreamsMatchFeed == Spec => []StreamMatchesFeed
<1>1. DeliveryInv => StreamMatchesFeed
  BY DEF DeliveryInv
<1> QED
  BY <1>1, DeliveryInvariance, PTL

\* What a stream has shown is the first part of what it heard.
LEMMA ShownIsHeard ==
    ASSUME LiveInv, DeliveryInv, NEW s \in Streams, NEW k \in 1..Len(shown[s])
    PROVE  k \in 1..Len(Heard(s)) /\ shown[s][k] = Heard(s)[k]
<1> DEFINE told == shown[s]
           rest == Pending(s)
           heard == Heard(s)
<1>1. told \in Seq(RequestIds) /\ rest \in Seq(RequestIds) /\ heard \in Seq(RequestIds)
  BY HeardType DEF DeliveryInv
<1>2. told \o rest = heard \/ IsPrefix(told, heard)
  BY DEF DeliveryInv, StreamMatchesFeed
<1>3. k \in 1..Len(told)
  OBVIOUS
<1> HIDE DEF told, rest, heard
<1>4. k \in 1..Len(heard) /\ told[k] = heard[k]
  <2>1. CASE told \o rest = heard
    BY <1>1, <1>3, <2>1, ConcatProperties
  <2>2. CASE IsPrefix(told, heard)
    <3>1. Len(told) <= Len(heard) /\ SubSeq(told, 1, Len(told)) = SubSeq(heard, 1, Len(told))
      BY <2>2 DEF IsPrefix
    <3>2. /\ SubSeq(told, 1, Len(told))[k] = told[k]
          /\ SubSeq(heard, 1, Len(told))[k] = heard[k]
      BY <1>1, <1>3, <3>1
    <3> QED
      BY <1>1, <1>3, <3>1, <3>2
  <2> QED
    BY <1>2, <2>1, <2>2
<1> QED
  BY <1>4 DEF told, heard

\* What was handed over to a registered stream it has shown or has waiting.
LEMMA HeardIsKept ==
    ASSUME LiveInv, DeliveryInv, NEW s \in Streams, stream[s] \in Serving,
           NEW i \in HeardAt(s)
    PROVE  feed[i][2] \in ToSet(shown[s] \o Pending(s))
<1>1. shown[s] \o Pending(s) = Heard(s)
  BY DEF DeliveryInv, StreamMatchesFeed
<1>2. feed \in Seq(EndpointIds \X RequestIds) /\ HeardAt(s) \in SUBSET (1..Len(feed))
  BY HeardType DEF DeliveryInv
<1>3. Heard(s) = Told(feed, HeardAt(s)) /\ Heard(s) \in Seq(RequestIds)
  BY <1>2, HeardIsTold, ToldType
<1>4. PICK k \in 1..Len(Heard(s)) : Heard(s)[k] = feed[i][2]
  <2> DEFINE S == HeardAt(s)
  <2>1. /\ Len(Told(feed, S)) = Cardinality(S)
        /\ \A j \in S : \E k \in 1..Cardinality(S) : Told(feed, S)[k] = feed[j][2]
    <3> HIDE DEF S
    <3> QED
      BY <1>2, ToldType DEF S
  <2> QED
    BY <1>3, <2>1
<1>5. k \in DOMAIN Heard(s)
  BY <1>3
<1> QED
  BY <1>1, <1>4, <1>5 DEF ToSet

\* Page and stream miss no capture but those handed over between the two, or never; and
\* every row they show is of one endpoint.
THEOREM PagesMissOnlyGap == Spec => []PageMissesOnlyGap
<1>1. LiveInv /\ DeliveryInv => PageMissesOnlyGap
  <2> SUFFICES ASSUME LiveInv, DeliveryInv, NEW s \in Streams
               PROVE  /\ topic[s] # None =>
                            listed[s] \cup ToSet(shown[s]) \subseteq inbox[topic[s]]
                      /\ stream[s] \in Serving =>
                            \A i \in 1..Len(feed) :
                               /\ EndpointOf(feed[i]) = topic[s]
                               /\ feed[i][2] \notin listed[s] \cup ToSet(shown[s] \o Pending(s))
                               => i <= joined[s] \/ ~ Listened(i)
    BY DEF PageMissesOnlyGap
  <2>1. listed[s] \subseteq inbox[topic[s]]
    BY DEF DeliveryInv, PageFitsTopic
  <2>2. ToSet(shown[s]) \subseteq inbox[topic[s]]
    <3>1. DOMAIN shown[s] = 1..Len(shown[s])
      BY DEF LiveInv, TypeOK
    <3>2. \A k \in 1..Len(shown[s]) : shown[s][k] \in inbox[topic[s]]
      BY ShownIsHeard, HeardIsStored
    <3> QED
      BY <3>1, <3>2 DEF ToSet
  <2>3. ASSUME stream[s] \in Serving, NEW i \in 1..Len(feed),
               EndpointOf(feed[i]) = topic[s],
               feed[i][2] \notin ToSet(shown[s] \o Pending(s)),
               Listened(i)
        PROVE  i <= joined[s]
    <3>1. i \notin HeardAt(s)
      BY <2>3, HeardIsKept
    <3>2. joined[s] \in Nat
      BY DEF LiveInv, TypeOK, NotifierTypeOK
    <3> QED
      BY <2>3, <3>1, <3>2 DEF HeardAt
  <2> QED
    BY <2>1, <2>2, <2>3
<1> QED
  BY <1>1, LiveInvariance, DeliveryInvariance, PTL
=============================================================================
