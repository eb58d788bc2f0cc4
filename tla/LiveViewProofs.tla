--------------------------- MODULE LiveViewProofs ---------------------------
(***************************************************************************)
(* Theorems about LiveView, for any sets of endpoints, requests, streams   *)
(* and connections and any number of failures.                             *)
(***************************************************************************)
EXTENDS LiveViewInvariant, TLAPS

\* What the conjuncts about connections depend on.
connVars == <<lock, listen_conn, session, reader_task, reader, starting>>

ConnInv == NotifierTypeOK /\ LockHeld /\ HolderIsAlone /\ NoConnectionLeak

StreamInv == StartersAreStreams /\ QueuesMatchStreams

\* At boot only the lifespan is inside start(), and nothing is open.
LEMMA LiveInitInv == Init => LiveInv
<1> SUFFICES ASSUME Init PROVE LiveInv
  OBVIOUS
<1> USE NotifierAssumption DEF Init, Box!Init, NotifierInit
<1>1. TypeOK /\ BoxTypeOK
  BY DEF TypeOK, NotifierTypeOK, BoxTypeOK, Tasks
<1>2. LockHeld /\ HolderIsAlone
  BY DEF LockHeld, HolderIsAlone, Opening, Resetting, Tasks
<1>3. NoConnectionLeak
  BY DEF NoConnectionLeak
<1>4. StartersAreStreams /\ QueuesMatchStreams
  BY DEF StartersAreStreams, QueuesMatchStreams, Subscribed, Serving, Tasks
<1> QED
  BY <1>1, <1>2, <1>3, <1>4 DEF LiveInv

-----------------------------------------------------------------------------
(* Connections: one lemma for each operation of the notifier *)

\* A reader that is read or has crashed and is not reset counts as running.
LEMMA NotRunning ==
    ASSUME NotifierTypeOK, NoConnectionLeak, ~ Running
    PROVE  \A c \in Conns : reader[c] \notin {"running", "crashed"}
BY NotifierAssumption DEF NotifierTypeOK, NoConnectionLeak, Running

\* Taking the lock, connecting and listening keep the one connection.
LEMMA StartConnInv ==
    ASSUME ConnInv, NEW t \in Tasks, StartStep(t), NotifierTypeOK'
    PROVE  ConnInv'
<1> USE NotifierAssumption DEF ConnInv, NotifierTypeOK, Tasks
<1>1. CASE AlreadyStarted(t)
  BY <1>1 DEF AlreadyStarted, LockHeld, HolderIsAlone, NoConnectionLeak, Opening,
              Resetting
<1>2. CASE BeginStart(t)
  <2> USE <1>2 DEF BeginStart
  <2>1. \A c \in Conns : reader[c] \notin {"running", "crashed"}
    BY NotRunning DEF RunningUnderLock
  <2>2. \A u \in Tasks : ~ Opening(u)
    BY DEF LockHeld
  <2>3. \A c \in Conns : ~ Resetting(c)
    BY DEF LockHeld
  <2>4. \A c \in Conns : session'[c] \notin {"open", "listening"}
    BY DEF NoConnectionLeak, ClosedConn
  <2>5. \A u \in Tasks : Opening(u)' => u = t
    BY <2>2 DEF Opening
  <2> QED
    BY <2>1, <2>3, <2>4, <2>5
    DEF LockHeld, HolderIsAlone, NoConnectionLeak, Opening, Resetting
<1>3. ASSUME NEW c \in Conns, Connect(t, c)
      PROVE  ConnInv'
  <2> USE <1>3 DEF Connect
  <2>1. lock = t /\ \A u \in Tasks : Opening(u) => u = t
    BY DEF LockHeld, Opening
  <2>2. \A d \in Conns : /\ reader[d] \notin {"running", "crashed"}
                         /\ session[d] \notin {"open", "listening"}
    BY DEF HolderIsAlone, Opening
  <2>3. \A d \in Conns : ~ Resetting(d)
    BY <2>1 DEF LockHeld
  <2>4. \A u \in Tasks : starting'[u] = "connect" => FALSE
    BY <2>1 DEF Opening
  <2>5. LockHeld'
    BY <2>1, <2>3 DEF LockHeld, Opening, Resetting
  <2>6. HolderIsAlone'
    BY <2>2, <2>3, <2>4 DEF HolderIsAlone, Opening, Resetting
  <2>7. NoConnectionLeak'
    BY <2>2 DEF NoConnectionLeak
  <2> QED
    BY <2>5, <2>6, <2>7
<1>4. CASE Listen(t)
  <2> USE <1>4 DEF Listen
  <2>1. lock = t /\ \A u \in Tasks : Opening(u) => u = t
    BY DEF LockHeld, Opening
  <2>2. listen_conn \in Conns /\ \A d \in Conns : reader[d] \notin {"running", "crashed"}
    BY DEF HolderIsAlone, Opening
  <2>3. \A d \in Conns : ~ Resetting(d)
    BY <2>1 DEF LockHeld
  <2>4. \A u \in Tasks : ~ Opening(u)'
    BY <2>1 DEF Opening
  <2>5. \A d \in Conns : ~ Resetting(d)'
    BY <2>2, <2>3 DEF Resetting
  <2>6. NoConnectionLeak'
    BY <2>2 DEF NoConnectionLeak
  <2> QED
    BY <2>4, <2>5, <2>6 DEF LockHeld, HolderIsAlone, Opening
<1> QED
  BY <1>1, <1>2, <1>3, <1>4 DEF StartStep

\* A task that fails or is cancelled inside start() leaves the lock and, at worst, a
\* connection that listen_conn still names.
LEMMA LeaveConnInv ==
    ASSUME ConnInv, NEW t \in Tasks, LeaveStart(t), NotifierTypeOK'
    PROVE  ConnInv'
<1> USE NotifierAssumption DEF ConnInv, NotifierTypeOK, Tasks, LeaveStart
<1>1. \A u \in Tasks : starting'[u] = IF u = t THEN "failed" ELSE starting[u]
  OBVIOUS
<1>2. LockHeld'
  BY <1>1 DEF LockHeld, Opening, Resetting
<1>3. HolderIsAlone'
  BY <1>1 DEF HolderIsAlone, Opening, Resetting
<1>4. NoConnectionLeak'
  BY DEF NoConnectionLeak
<1> QED
  BY <1>2, <1>3, <1>4

\* The crash of a reader and its handler.
LEMMA CrashConnInv ==
    ASSUME ConnInv, NEW c \in Conns, ReaderCrash(c) \/ BeginReset(c) \/ EndReset(c),
           NotifierTypeOK'
    PROVE  ConnInv'
<1> USE NotifierAssumption DEF ConnInv, NotifierTypeOK, Tasks
<1>1. CASE ReaderCrash(c)
  <2> USE <1>1 DEF ReaderCrash
  <2>1. LockHeld'
    BY DEF LockHeld, Opening, Resetting
  <2>2. HolderIsAlone'
    BY DEF HolderIsAlone, Opening, Resetting
  <2>3. NoConnectionLeak'
    BY DEF NoConnectionLeak
  <2> QED
    BY <2>1, <2>2, <2>3
<1>2. CASE BeginReset(c)
  <2> USE <1>2 DEF BeginReset
  <2>1. c = listen_conn /\ \A d \in Conns : reader[d] \in {"running", "crashed"} => d = c
    BY DEF NoConnectionLeak
  <2>2. \A d \in Conns : session'[d] \notin {"open", "listening"}
    BY <2>1 DEF NoConnectionLeak, ClosedConn
  <2>3. \A d \in Conns : reader'[d] \notin {"running", "crashed"}
    BY <2>1
  <2>4. (\A u \in Tasks : ~ Opening(u)) /\ \A d \in Conns : ~ Resetting(d)
    BY DEF LockHeld
  <2>5. LockHeld'
    BY <2>4 DEF LockHeld, Opening, Resetting
  <2> QED
    BY <2>2, <2>3, <2>4, <2>5 DEF HolderIsAlone, NoConnectionLeak, Opening
<1>3. CASE EndReset(c)
  <2> USE <1>3 DEF EndReset, LockAfterReset
  <2>1. lock = c /\ \A d \in Conns : /\ reader[d] \notin {"running", "crashed"}
                                     /\ session[d] \notin {"open", "listening"}
    BY DEF LockHeld, HolderIsAlone, Resetting
  <2>2. \A u \in Tasks : ~ Opening(u)
    BY <2>1 DEF LockHeld
  <2>3. \A d \in Conns : Resetting(d) => d = c
    BY <2>1 DEF LockHeld
  <2>4. \A d \in Conns : ~ Resetting(d)'
    BY <2>3 DEF Resetting
  <2> QED
    BY <2>1, <2>2, <2>4 DEF LockHeld, HolderIsAlone, NoConnectionLeak, Opening
<1> QED
  BY <1>1, <1>2, <1>3

\* stop() leaves nothing open and nothing that reads.
LEMMA StopConnInv ==
    ASSUME ConnInv, Stop, NotifierTypeOK'
    PROVE  ConnInv'
<1> USE NotifierAssumption DEF ConnInv, NotifierTypeOK, Tasks, Stop
<1>1. (\A u \in Tasks : ~ Opening(u)) /\ \A d \in Conns : ~ Resetting(d)
  BY DEF LockHeld
<1>2. \A d \in Conns : session'[d] \notin {"open", "listening"}
  BY DEF NoConnectionLeak, ClosedConn
<1>3. \A d \in Conns : reader'[d] \notin {"running", "crashed", "resetting"}
  BY <1>1 DEF NoConnectionLeak, Resetting
<1> QED
  BY <1>1, <1>2, <1>3 DEF LockHeld, HolderIsAlone, NoConnectionLeak, Opening, Resetting

\* subscribe enters start() without the lock.
LEMMA SubscribeConnInv ==
    ASSUME ConnInv, NEW s \in Streams, Subscribe(s), NotifierTypeOK'
    PROVE  ConnInv'
<1> USE NotifierAssumption DEF ConnInv, NotifierTypeOK, Tasks, Subscribe
<1>1. \A u \in Tasks : starting'[u] \in {starting[u], "lock"}
  OBVIOUS
<1>2. LockHeld'
  BY <1>1 DEF LockHeld, Opening, Resetting
<1>3. HolderIsAlone'
  BY <1>1 DEF HolderIsAlone, Opening, Resetting
<1>4. NoConnectionLeak'
  BY DEF NoConnectionLeak
<1> QED
  BY <1>2, <1>3, <1>4

\* The rest of the process does not touch connections.
LEMMA FrameConnInv ==
    ASSUME ConnInv, UNCHANGED connVars, NotifierTypeOK'
    PROVE  ConnInv'
<1>1. LockHeld'
  BY DEF ConnInv, connVars, LockHeld, Opening, Resetting
<1>2. HolderIsAlone'
  BY DEF ConnInv, connVars, HolderIsAlone, Opening, Resetting
<1>3. NoConnectionLeak'
  BY DEF ConnInv, connVars, NoConnectionLeak
<1> QED
  BY <1>1, <1>2, <1>3 DEF ConnInv

-----------------------------------------------------------------------------
(* Types *)

\* Creators, captures and cleaners keep the inboxes typed.
LEMMA OutsideTyped ==
    ASSUME BoxTypeOK, Box!Next
    PROVE  BoxTypeOK'
<1> USE DEF BoxTypeOK
<1>1. CASE \E e \in EndpointIds : Box!Open(e)
  BY <1>1 DEF Box!Open
<1>2. ASSUME NEW e \in EndpointIds, NEW r \in RequestIds, Box!Deliver(e, r)
      PROVE  BoxTypeOK'
  <2>1. inbox' \in [EndpointIds -> SUBSET RequestIds]
    BY <1>2 DEF Box!Deliver
  <2>2. feed' \in Seq(EndpointIds \X RequestIds)
    <3>1. <<e, r>> \in EndpointIds \X RequestIds
      OBVIOUS
    <3> QED
      BY <1>2, <3>1 DEF Box!Deliver
  <2> QED
    BY <1>2, <2>1, <2>2 DEF Box!Deliver
<1>3. CASE \E S \in SUBSET EndpointIds : Box!Purge(S)
  BY <1>3 DEF Box!Purge
<1> QED
  BY <1>1, <1>2, <1>3 DEF Box!Next

\* Registration keeps the registry typed.
LEMMA RegisterTyped ==
    ASSUME TypeOK, NEW t, NEW n \in Nat, Register(t, n)
    PROVE  queues' \in [EndpointIds -> SUBSET Streams] /\ joined' \in [Streams -> Nat]
<1> USE DEF TypeOK, NotifierTypeOK
<1>1. CASE t \in Streams
  <2>1. /\ queues' = [queues EXCEPT ![topic[t]] = @ \cup {t}]
        /\ joined' = [joined EXCEPT ![t] = n]
    BY <1>1 DEF Register
  <2>2. queues' \in [EndpointIds -> SUBSET Streams]
    <3>1. CASE topic[t] \in EndpointIds
      <4>1. queues[topic[t]] \cup {t} \in SUBSET Streams
        BY <1>1, <3>1
      <4> QED
        BY <2>1, <4>1
    <3>2. CASE topic[t] \notin EndpointIds
      BY <2>1, <3>2
    <3> QED
      BY <3>1, <3>2
  <2> QED
    BY <2>1, <2>2
<1>2. CASE t \notin Streams
  BY <1>2 DEF Register
<1> QED
  BY <1>1, <1>2

\* The operations of the notifier keep its variables typed.
LEMMA StartTyped ==
    ASSUME TypeOK, BoxTypeOK, HolderIsAlone, NEW t \in Tasks,
           StartStep(t) \/ StartFails(t)
    PROVE  NotifierTypeOK'
<1> USE NotifierAssumption DEF TypeOK, NotifierTypeOK, Tasks
<1>1. ASSUME NEW n \in Nat, Register(t, n)
      PROVE  queues' \in [EndpointIds -> SUBSET Streams] /\ joined' \in [Streams -> Nat]
  BY <1>1, RegisterTyped
<1>2. CASE AlreadyStarted(t)
  <2>1. position[reader_task] \in Nat
    BY <1>2 DEF AlreadyStarted, RunningUnderLock, Running
  <2> QED
    BY <1>1, <1>2, <2>1 DEF AlreadyStarted
<1>3. CASE BeginStart(t)
  <2>1. session' \in [Conns -> {"unused", "open", "listening", "broken", "closed"}]
    BY <1>3 DEF BeginStart, ClosedConn
  <2> QED
    BY <1>3, <2>1 DEF BeginStart
<1>4. ASSUME NEW c \in Conns, Connect(t, c) PROVE NotifierTypeOK'
  BY <1>4 DEF Connect
<1>5. CASE Listen(t)
  <2>1. listen_conn \in Conns /\ Len(feed) \in Nat
    BY <1>5 DEF Listen, HolderIsAlone, BoxTypeOK
  <2> QED
    BY <1>1, <1>5, <2>1 DEF Listen
<1>6. CASE StartFails(t)
  BY <1>6 DEF StartFails, LeaveStart, Fault
<1> QED
  BY <1>2, <1>3, <1>4, <1>5, <1>6 DEF StartStep

\* A task that is cancelled inside start().
LEMMA LeaveTyped ==
    ASSUME TypeOK, NEW t \in Tasks, LeaveStart(t), UNCHANGED faults
    PROVE  NotifierTypeOK'
BY DEF TypeOK, NotifierTypeOK, Tasks, LeaveStart

\* What a reader does with a connection and with the queues.
LEMMA ReaderTyped ==
    ASSUME TypeOK, BoxTypeOK, NEW c \in Conns, ReaderStep(c) \/ ReaderCrash(c)
    PROVE  NotifierTypeOK'
<1> USE NotifierAssumption DEF TypeOK, NotifierTypeOK, Tasks
<1>1. CASE Dispatch(c)
  <2> DEFINE notif == feed[position[c] + 1]
  <2>1. notif \in EndpointIds \X RequestIds
    BY <1>1 DEF Dispatch, BoxTypeOK
  <2>2. RequestOf(notif) \in RequestIds
    BY <2>1 DEF RequestOf
  <2>3. \A s \in Streams : Append(queue[s], RequestOf(notif)) \in Seq(RequestIds)
    BY <2>2
  <2>4. queue' \in [Streams -> Seq(RequestIds)]
    BY <1>1, <2>3 DEF Dispatch
  <2> QED
    BY <1>1, <2>4 DEF Dispatch
<1>2. CASE BeginReset(c)
  <2>1. session' \in [Conns -> {"unused", "open", "listening", "broken", "closed"}]
    BY <1>2 DEF BeginReset, ClosedConn
  <2> QED
    BY <1>2, <2>1 DEF BeginReset
<1>3. CASE EndReset(c)
  BY <1>3 DEF EndReset, LockAfterReset
<1>4. CASE ReaderCrash(c)
  BY <1>4 DEF ReaderCrash, Fault
<1> QED
  BY <1>1, <1>2, <1>3, <1>4 DEF ReaderStep

\* stop(), subscribe and the clean-up of a subscriber.
LEMMA StopTyped ==
    ASSUME TypeOK, Stop
    PROVE  NotifierTypeOK'
<1> USE NotifierAssumption DEF TypeOK, NotifierTypeOK, Stop
<1>1. session' \in [Conns -> {"unused", "open", "listening", "broken", "closed"}]
  BY DEF ClosedConn
<1>2. reader' \in [Conns -> {"none", "running", "crashed", "resetting", "done"}]
  OBVIOUS
<1> QED
  BY <1>1, <1>2

LEMMA SubscribeTyped ==
    ASSUME TypeOK, NEW s \in Streams, Subscribe(s)
    PROVE  NotifierTypeOK'
<1> USE NotifierAssumption DEF TypeOK, NotifierTypeOK, Tasks
<1>0. starting' \in [Tasks -> {"no", "lock", "connect", "listen", "failed"}]
  BY DEF Subscribe
<1>1. CASE Running /\ Register(s, position[reader_task])
  <2>1. position[reader_task] \in Nat
    BY <1>1 DEF Running
  <2>2. queues' \in [EndpointIds -> SUBSET Streams] /\ joined' \in [Streams -> Nat]
    BY <1>1, <2>1, RegisterTyped
  <2> QED
    BY <1>0, <2>2 DEF Subscribe
<1>2. CASE UNCHANGED <<queues, joined>>
  BY <1>0, <1>2 DEF Subscribe
<1> QED
  BY <1>1, <1>2 DEF Subscribe

LEMMA UnsubscribeTyped ==
    ASSUME TypeOK, NEW s \in Streams, Unsubscribe(s), Fault \/ UNCHANGED faults
    PROVE  NotifierTypeOK'
<1> USE DEF TypeOK, NotifierTypeOK, Unsubscribe
<1>1. queues' \in [EndpointIds -> SUBSET Streams]
  BY DEF QueuesWithout
<1>2. << >> \in Seq(RequestIds)
  OBVIOUS
<1>3. queue' \in [Streams -> Seq(RequestIds)]
  BY <1>2
<1>4. faults' \in 0..MaxFaults
  BY NotifierAssumption DEF Fault
<1> QED
  BY <1>1, <1>3, <1>4

-----------------------------------------------------------------------------
(* Streams *)

\* A step that registers nobody and starts nobody, and that moves streams only among
\* the stages with a queue or among those without.
LEMMA FrameStreamInv ==
    ASSUME StreamInv, UNCHANGED <<queues, starting>>,
           \A s \in Streams :
              /\ stream'[s] \in Subscribed <=> stream[s] \in Subscribed
              /\ stream[s] \in Subscribed => topic'[s] = topic[s]
              /\ stream[s] = "starting" => stream'[s] = "starting"
    PROVE  StreamInv'
BY DEF StreamInv, StartersAreStreams, QueuesMatchStreams

\* A stream registers under its endpoint when start() or subscribe lets it.
LEMMA RegisterStreamInv ==
    ASSUME TypeOK, StreamInv, NEW s \in Streams, NEW n, Register(s, n),
           stream[s] \notin Subscribed, UNCHANGED topic,
           stream' = [stream EXCEPT ![s] = "waiting"],
           starting'[s] \notin {"lock", "connect", "listen"},
           \A t \in Streams \ {s} : starting'[t] = starting[t]
    PROVE  StreamInv'
<1>1. StartersAreStreams'
  BY DEF StreamInv, StartersAreStreams, TypeOK, Tasks
<1>2. QueuesMatchStreams'
  <2>1. queues' = [queues EXCEPT ![topic[s]] = @ \cup {s}]
    BY DEF Register
  <2>2. ASSUME NEW u \in Streams, NEW e \in EndpointIds
        PROVE  (u \in queues[e])' <=> stream'[u] \in Subscribed /\ topic'[u] = e
    <3>1. queues'[e] = IF e = topic[s] THEN queues[e] \cup {s} ELSE queues[e]
      BY <2>1 DEF TypeOK, NotifierTypeOK
    <3>2. stream'[u] = IF u = s THEN "waiting" ELSE stream[u]
      BY DEF TypeOK
    <3> QED
      BY <3>1, <3>2 DEF StreamInv, QueuesMatchStreams, Subscribed, Serving
  <2> QED
    BY <2>2 DEF QueuesMatchStreams
<1> QED
  BY <1>1, <1>2 DEF StreamInv

\* A stream that ends takes its queue out of the registry.
LEMMA UnsubscribeStreamInv ==
    ASSUME TypeOK, StreamInv, NEW s \in Streams, Unsubscribe(s),
           stream[s] \in Subscribed, UNCHANGED topic,
           NEW label \in Ended, Become(s, label)
    PROVE  StreamInv'
<1> USE DEF Unsubscribe, QueuesWithout, Become
<1>1. \A u \in Streams : stream'[u] = IF u = s THEN label ELSE stream[u]
  BY DEF TypeOK
<1>2. StartersAreStreams'
  BY <1>1 DEF StreamInv, StartersAreStreams, Subscribed, Serving
<1>3. QueuesMatchStreams'
  <2>1. ASSUME NEW u \in Streams, NEW e \in EndpointIds
        PROVE  (u \in queues[e])' <=> stream'[u] \in Subscribed /\ topic'[u] = e
    <3>1. queues'[e] = IF e = topic[s] THEN queues[e] \ {s} ELSE queues[e]
      BY DEF TypeOK, NotifierTypeOK
    <3> QED
      BY <1>1, <3>1 DEF StreamInv, QueuesMatchStreams, Subscribed, Serving, Ended
  <2> QED
    BY <2>1 DEF QueuesMatchStreams
<1> QED
  BY <1>2, <1>3 DEF StreamInv

-----------------------------------------------------------------------------
(* Every step *)

\* A step of one stream that leaves the notifier's variables alone.
LEMMA QuietStepInv ==
    ASSUME LiveInv, UNCHANGED <<connVars, queues>>, TypeOK', BoxTypeOK',
           \A s \in Streams :
              /\ stream'[s] \in Subscribed <=> stream[s] \in Subscribed
              /\ stream[s] \in Subscribed => topic'[s] = topic[s]
              /\ stream[s] = "starting" => stream'[s] = "starting"
    PROVE  LiveInv'
<1>1. ConnInv'
  BY FrameConnInv DEF LiveInv, ConnInv, TypeOK
<1>2. StreamInv'
  BY FrameStreamInv DEF LiveInv, StreamInv, connVars
<1> QED
  BY <1>1, <1>2 DEF LiveInv, ConnInv, StreamInv

\* Services outside the process, boot, and the steps of a stream without a queue.
LEMMA IdleStepInv ==
    ASSUME LiveInv,
           \/ Outside \/ Booted
           \/ \E s \in Streams :
                 \/ \E e \in EndpointIds : LoadPage(s, e) \/ OpenStream(s, e)
                 \/ OpenMissing(s)
    PROVE  LiveInv'
<1> USE DEF LiveInv, TypeOK
<1>1. CASE Outside
  <2>1. BoxTypeOK'
    BY <1>1, OutsideTyped DEF Outside
  <2>2. UNCHANGED <<notifierVars, streamVars>>
    BY <1>1 DEF Outside
  <2>3. TypeOK'
    BY <2>2 DEF notifierVars, streamVars, NotifierTypeOK
  <2> QED
    BY <2>1, <2>2, <2>3, QuietStepInv DEF notifierVars, streamVars, connVars
<1>2. CASE Booted
  <2>1. TypeOK' /\ BoxTypeOK'
    BY <1>2 DEF Booted, boxVars, notifierVars, NotifierTypeOK, BoxTypeOK
  <2> QED
    BY <1>2, <2>1, QuietStepInv DEF Booted, notifierVars, connVars
<1>3. ASSUME NEW s \in Streams, NEW e \in EndpointIds, LoadPage(s, e)
      PROVE  LiveInv'
  <2> USE <1>3 DEF LoadPage, Become, boxVars, notifierVars
  <2>1. TypeOK' /\ BoxTypeOK'
    BY DEF NotifierTypeOK, BoxTypeOK
  <2> QED
    BY <2>1, QuietStepInv DEF connVars, Subscribed, Serving
<1>4. ASSUME NEW s \in Streams, NEW e \in EndpointIds, OpenStream(s, e)
      PROVE  LiveInv'
  <2> USE <1>4 DEF OpenStream, Become, boxVars, notifierVars
  <2>1. TypeOK' /\ BoxTypeOK'
    BY DEF NotifierTypeOK, BoxTypeOK
  <2> QED
    BY <2>1, QuietStepInv DEF connVars, Subscribed, Serving
<1>5. ASSUME NEW s \in Streams, OpenMissing(s)
      PROVE  LiveInv'
  <2> USE <1>5 DEF OpenMissing, Become, boxVars, notifierVars
  <2>1. TypeOK' /\ BoxTypeOK'
    BY DEF NotifierTypeOK, BoxTypeOK, Ended
  <2> QED
    BY <2>1, QuietStepInv DEF connVars, Subscribed, Serving
<1> QED
  BY <1>1, <1>2, <1>3, <1>4, <1>5

\* A registered stream takes from its queue, looks up, renders and sends.
LEMMA PushStepInv ==
    ASSUME LiveInv, NEW s \in Streams, Take(s) \/ Render(s) \/ Sent(s)
    PROVE  LiveInv'
<1> USE DEF LiveInv, TypeOK
<1>1. CASE Take(s)
  <2> USE <1>1 DEF Take, Become, boxVars
  <2>1. Head(queue[s]) \in RequestIds /\ Tail(queue[s]) \in Seq(RequestIds)
    BY DEF NotifierTypeOK
  <2>2. /\ queue' \in [Streams -> Seq(RequestIds)]
        /\ current' \in [Streams -> RequestIds \cup {None}]
    BY <2>1 DEF NotifierTypeOK
  <2>3. \E label \in Subscribed : stream' = [stream EXCEPT ![s] = label]
    BY DEF Subscribed, Serving
  <2>4. TypeOK' /\ BoxTypeOK'
    BY <2>2, <2>3 DEF NotifierTypeOK, BoxTypeOK
  <2> QED
    BY <2>4, QuietStepInv DEF connVars, Subscribed, Serving
<1>2. CASE Render(s)
  <2> USE <1>2 DEF Render, Become, boxVars, notifierVars
  <2>1. shown' \in [Streams -> Seq(RequestIds)]
    <3>1. CASE \E e \in EndpointIds : current[s] \in inbox[e]
      <4>1. current[s] \in RequestIds
        BY <3>1 DEF BoxTypeOK
      <4>2. Append(shown[s], current[s]) \in Seq(RequestIds)
        BY <4>1
      <4> QED
        BY <3>1, <4>2
    <3>2. CASE ~ \E e \in EndpointIds : current[s] \in inbox[e]
      BY <3>2
    <3> QED
      BY <3>1, <3>2
  <2>2. \E label \in {"sending", "waiting"} : stream' = [stream EXCEPT ![s] = label]
    OBVIOUS
  <2>3. TypeOK' /\ BoxTypeOK'
    BY <2>1, <2>2 DEF NotifierTypeOK, BoxTypeOK, Subscribed, Serving
  <2> QED
    BY <2>2, <2>3, QuietStepInv DEF connVars, Subscribed, Serving
<1>3. CASE Sent(s)
  <2> USE <1>3 DEF Sent, Become, boxVars, notifierVars
  <2>1. TypeOK' /\ BoxTypeOK'
    BY DEF NotifierTypeOK, BoxTypeOK, Subscribed, Serving
  <2> QED
    BY <2>1, QuietStepInv DEF connVars, Subscribed, Serving
<1> QED
  BY <1>1, <1>2, <1>3

\* A stream subscribes, or a task gets ahead in start(): with a reader running, the
\* stream's queue is registered in the same step.
LEMMA SubscribeStepInv ==
    ASSUME LiveInv, NEW s \in Streams, StreamSubscribes(s)
    PROVE  LiveInv'
<1> USE DEF StreamSubscribes, Become
<1>1. Subscribe(s) /\ TypeOK /\ ConnInv /\ StreamInv
  BY DEF LiveInv, ConnInv, StreamInv, TypeOK
<1>2. NotifierTypeOK'
  BY <1>1, SubscribeTyped
<1>3. TypeOK' /\ BoxTypeOK'
  BY <1>1, <1>2 DEF LiveInv, TypeOK, BoxTypeOK, Subscribe, Subscribed, Serving
<1>4. ConnInv'
  BY <1>1, <1>2, SubscribeConnInv
<1>5. stream[s] = "connected" /\ starting[s] \notin {"lock", "connect", "listen"}
  BY DEF LiveInv, StartersAreStreams
<1>6. StreamInv'
  <2>1. CASE Running
    <3>1. Register(s, position[reader_task]) /\ UNCHANGED <<starting, topic>>
      BY <1>1, <2>1 DEF Subscribe
    <3> QED
      BY <1>1, <1>5, <2>1, <3>1, RegisterStreamInv DEF Subscribed, Serving
  <2>2. CASE ~ Running
    BY <1>1, <2>2
    DEF Subscribe, StreamInv, StartersAreStreams, QueuesMatchStreams, TypeOK,
        NotifierTypeOK, Tasks, Subscribed, Serving
  <2> QED
    BY <2>1, <2>2
<1> QED
  BY <1>3, <1>4, <1>6 DEF LiveInv, ConnInv, StreamInv

\* A step of start().
LEMMA StartingStepInv ==
    ASSUME LiveInv, NEW t \in Tasks, Starting(t)
    PROVE  LiveInv'
<1> USE DEF Starting
<1>1. StartStep(t) /\ TypeOK /\ BoxTypeOK /\ ConnInv /\ StreamInv
  BY DEF LiveInv, ConnInv, StreamInv, TypeOK
<1>2. NotifierTypeOK'
  BY <1>1, StartTyped DEF ConnInv
<1>3. UNCHANGED <<topic, feed>>
  BY DEF StartStep, AlreadyStarted, BeginStart, Connect, Listen
<1>4. TypeOK' /\ BoxTypeOK'
  BY <1>1, <1>2, <1>3 DEF TypeOK, BoxTypeOK, Subscribed, Serving
<1>5. ConnInv'
  BY <1>1, <1>2, StartConnInv
<1>6. starting[t] \in {"lock", "connect", "listen"}
  BY DEF StartStep, AlreadyStarted, BeginStart, Connect, Listen
<1>7. StreamInv'
  <2>1. CASE AlreadyStarted(t) \/ Listen(t)
    <3>1. /\ \E n : Register(t, n)
          /\ starting' = [starting EXCEPT ![t] = "no"]
      BY <2>1 DEF AlreadyStarted, Listen
    <3>2. CASE t \in Streams
      <4>1. stream[t] = "starting"
        BY <1>1, <1>6, <3>2 DEF StreamInv, StartersAreStreams
      <4>2. stream' = [stream EXCEPT ![t] = "waiting"]
        <5>1. starting'[t] = "no" /\ stream = [s \in Streams |-> stream[s]]
          BY <1>1, <3>1 DEF TypeOK, NotifierTypeOK
        <5> QED
          BY <3>2, <5>1
      <4> QED
        BY <1>1, <1>3, <3>1, <3>2, <4>1, <4>2, RegisterStreamInv
        DEF Subscribed, Serving, TypeOK, NotifierTypeOK, Tasks
    <3>3. CASE t \notin Streams
      <4>1. UNCHANGED <<stream, queues>>
        BY <1>1, <3>1, <3>3 DEF TypeOK, Register
      <4>2. \A s \in Streams : starting'[s] = starting[s]
        BY <1>1, <3>1, <3>3 DEF TypeOK, NotifierTypeOK
      <4> QED
        BY <1>1, <1>3, <4>1, <4>2 DEF StreamInv, StartersAreStreams, QueuesMatchStreams
    <3> QED
      BY <3>2, <3>3
  <2>2. CASE BeginStart(t) \/ \E c \in Conns : Connect(t, c)
    <3>1. /\ UNCHANGED queues
          /\ \E label \in {"connect", "listen"} : starting' = [starting EXCEPT ![t] = label]
      BY <2>2 DEF BeginStart, Connect
    <3>2. UNCHANGED stream
      BY <1>1, <3>1 DEF TypeOK, NotifierTypeOK
    <3>3. \A s \in Streams : starting'[s] \in {"lock", "connect", "listen"}
                                => starting[s] \in {"lock", "connect", "listen"}
      BY <1>1, <1>6, <3>1 DEF TypeOK, NotifierTypeOK, Tasks
    <3> QED
      BY <1>1, <1>3, <3>1, <3>2, <3>3 DEF StreamInv, StartersAreStreams, QueuesMatchStreams
  <2> QED
    BY <1>1, <2>1, <2>2 DEF StartStep
<1> QED
  BY <1>4, <1>5, <1>7 DEF LiveInv, ConnInv, StreamInv

\* A task leaves start() with an exception; its stream ends, with no queue to remove.
LEMMA LeaveStepInv ==
    ASSUME LiveInv, NEW t \in Tasks, LeaveStart(t), NotifierTypeOK',
           UNCHANGED <<open, inbox, app, listed, current, shown>>,
           NEW label \in Ended,
           \A s \in Streams : stream'[s] = IF s = t THEN label ELSE stream[s],
           stream' = [s \in Streams |-> stream'[s]]
    PROVE  LiveInv'
<1>1. TypeOK /\ ConnInv /\ StreamInv
  BY DEF LiveInv, ConnInv, StreamInv, TypeOK
<1>2. TypeOK' /\ BoxTypeOK'
  BY DEF LiveInv, TypeOK, BoxTypeOK, LeaveStart
<1>3. ConnInv'
  BY <1>1, LeaveConnInv
<1>4. \A s \in Streams : starting'[s] = IF s = t THEN "failed" ELSE starting[s]
  BY <1>1 DEF TypeOK, NotifierTypeOK, LeaveStart, Tasks
<1>5. t \in Streams => stream[t] = "starting"
  BY <1>1 DEF LeaveStart, StreamInv, StartersAreStreams
<1>6. StreamInv'
  <2>1. UNCHANGED <<queues, topic>>
    BY DEF LeaveStart
  <2>2. \A s \in Streams : stream'[s] \in Subscribed <=> stream[s] \in Subscribed
    BY <1>5 DEF Subscribed, Serving, Ended
  <2> QED
    BY <1>1, <1>4, <2>1, <2>2 DEF StreamInv, StartersAreStreams, QueuesMatchStreams
<1> QED
  BY <1>2, <1>3, <1>6 DEF LiveInv, ConnInv, StreamInv

\* The reader dispatches, crashes or resets the connection.
LEMMA ReaderStepInv ==
    ASSUME LiveInv, NEW c \in Conns, Reading(c) \/ Crashing(c)
    PROVE  LiveInv'
<1>1. TypeOK /\ BoxTypeOK /\ ConnInv /\ StreamInv
  BY DEF LiveInv, ConnInv, StreamInv, TypeOK
<1>2. NotifierTypeOK'
  BY <1>1, ReaderTyped DEF Reading, Crashing
<1>3. UNCHANGED <<topic, feed, queues, starting, stream>>
  BY DEF Reading, Crashing, ReaderStep, Dispatch, BeginReset, EndReset, ReaderCrash
<1>4. TypeOK' /\ BoxTypeOK'
  BY <1>1, <1>2, <1>3 DEF TypeOK, BoxTypeOK, Reading, Crashing
<1>5. ConnInv'
  <2>1. CASE Dispatch(c)
    BY <1>1, <1>2, <2>1, FrameConnInv DEF Dispatch, connVars
  <2>2. CASE ~ Dispatch(c)
    BY <1>1, <1>2, <2>2, CrashConnInv DEF Reading, Crashing, ReaderStep
  <2> QED
    BY <2>1, <2>2
<1>6. StreamInv'
  BY <1>1, <1>3, FrameStreamInv
<1> QED
  BY <1>4, <1>5, <1>6 DEF LiveInv, ConnInv, StreamInv

\* The process shuts down when no stream is left.
LEMMA ShutdownInv ==
    ASSUME LiveInv, Shutdown
    PROVE  LiveInv'
<1>1. TypeOK /\ ConnInv /\ StreamInv
  BY DEF LiveInv, ConnInv, StreamInv, TypeOK
<1>2. NotifierTypeOK'
  BY <1>1, StopTyped DEF Shutdown
<1>3. TypeOK' /\ BoxTypeOK'
  BY <1>2 DEF LiveInv, TypeOK, BoxTypeOK, Shutdown, Stop
<1>4. ConnInv'
  BY <1>1, <1>2, StopConnInv DEF Shutdown
<1>5. StreamInv'
  BY <1>1, FrameStreamInv DEF Shutdown, Stop
<1> QED
  BY <1>3, <1>4, <1>5 DEF LiveInv, ConnInv, StreamInv

\* A subscription runs its finally block: cancelled at its queue, or collected.
LEMMA UnsubscribeStepInv ==
    ASSUME LiveInv, NEW s \in Streams, Unsubscribe(s), Fault \/ UNCHANGED faults,
           stream[s] \in Subscribed, NEW label \in Ended, Become(s, label),
           UNCHANGED <<boxVars, app, topic, listed, current, shown>>
    PROVE  LiveInv'
<1>1. TypeOK /\ ConnInv /\ StreamInv
  BY DEF LiveInv, ConnInv, StreamInv, TypeOK
<1>2. NotifierTypeOK'
  BY <1>1, UnsubscribeTyped
<1>3. TypeOK' /\ BoxTypeOK'
  BY <1>2 DEF LiveInv, TypeOK, BoxTypeOK, boxVars, Become
<1>4. ConnInv'
  BY <1>1, <1>2, FrameConnInv DEF Unsubscribe, connVars
<1>5. StreamInv'
  BY <1>1, UnsubscribeStreamInv
<1> QED
  BY <1>3, <1>4, <1>5 DEF LiveInv, ConnInv, StreamInv

\* The ways in which a stream ends or is left.
LEMMA EndStepInv ==
    ASSUME LiveInv, NEW s \in Streams, RenderFails(s) \/ Disconnect(s) \/ Collect(s)
    PROVE  LiveInv'
<1>1. CASE RenderFails(s)
  <2>1. /\ faults' \in 0..MaxFaults
        /\ UNCHANGED <<boxVars, connVars, position, since, queues, queue, joined>>
        /\ UNCHANGED <<app, topic, listed, current, shown>>
        /\ stream[s] = "lookup" /\ Become(s, "abandoned")
    BY <1>1, NotifierAssumption
    DEF RenderFails, Fault, connVars, LiveInv, TypeOK, NotifierTypeOK
  <2>2. TypeOK' /\ BoxTypeOK'
    BY <2>1 DEF LiveInv, TypeOK, NotifierTypeOK, BoxTypeOK, boxVars, connVars, Become,
                Subscribed, Serving
  <2> QED
    BY <2>1, <2>2, QuietStepInv DEF LiveInv, TypeOK, connVars, Become, Subscribed, Serving
<1>2. CASE Collect(s)
  BY <1>2, UnsubscribeStepInv DEF Collect, Subscribed, Serving, Ended
<1>3. CASE Disconnect(s)
  <2>1. CASE stream[s] \in {"connected", "lookup", "sending"}
    <3>1. /\ UNCHANGED <<boxVars, notifierVars, app, topic, listed, current, shown>>
          /\ \/ stream[s] = "connected" /\ Become(s, "closed")
             \/ stream[s] \in {"lookup", "sending"} /\ Become(s, "abandoned")
      BY <1>3, <2>1 DEF Disconnect
    <3>2. TypeOK' /\ BoxTypeOK'
      BY <3>1 DEF LiveInv, TypeOK, NotifierTypeOK, BoxTypeOK, boxVars, notifierVars,
                  Become, Subscribed, Serving, Ended
    <3> QED
      BY <3>1, <3>2, QuietStepInv
      DEF LiveInv, TypeOK, notifierVars, connVars, Become, Subscribed, Serving
  <2>2. CASE stream[s] = "starting"
    <3>1. /\ LeaveStart(s) /\ Become(s, "closed")
          /\ UNCHANGED <<boxVars, faults, app, listed, current, shown>>
      BY <1>3, <2>2 DEF Disconnect
    <3>2. NotifierTypeOK'
      BY <3>1, LeaveTyped DEF LiveInv, Tasks
    <3>3. \A u \in Streams : stream'[u] = IF u = s THEN "closed" ELSE stream[u]
      BY <3>1 DEF LiveInv, TypeOK, Become
    <3>4. stream' = [u \in Streams |-> stream'[u]]
      BY <3>1 DEF LiveInv, TypeOK, Become
    <3> QED
      BY <3>1, <3>2, <3>3, <3>4, LeaveStepInv DEF Tasks, Ended, boxVars
  <2>3. CASE stream[s] = "waiting"
    BY <1>3, <2>3, UnsubscribeStepInv DEF Disconnect, Subscribed, Serving, Ended
  <2> QED
    BY <1>3, <2>1, <2>2, <2>3 DEF Disconnect
<1> QED
  BY <1>1, <1>2, <1>3

\* start() raises in a stream or in the lifespan.
LEMMA StartingFailsInv ==
    ASSUME LiveInv, NEW t \in Tasks, StartingFails(t)
    PROVE  LiveInv'
<1>1. NotifierTypeOK'
  BY StartTyped DEF LiveInv, StartingFails
<1>2. \A s \in Streams : stream'[s] = IF s = t THEN "broken" ELSE stream[s]
  BY DEF StartingFails
<1>3. stream' = [s \in Streams |-> stream'[s]]
  BY DEF StartingFails
<1> QED
  BY <1>1, <1>2, <1>3, LeaveStepInv DEF StartingFails, StartFails, Ended

\* Every step keeps the invariant.
LEMMA LiveStepInv == LiveInv /\ [Next]_vars => LiveInv'
<1> SUFFICES ASSUME LiveInv, [Next]_vars PROVE LiveInv'
  OBVIOUS
<1>1. CASE Next
  BY <1>1, IdleStepInv, PushStepInv, SubscribeStepInv, StartingStepInv, StartingFailsInv,
     ReaderStepInv, ShutdownInv, EndStepInv DEF Next, StreamStep
<1>2. CASE UNCHANGED vars
  <2>1. TypeOK' /\ BoxTypeOK'
    BY <1>2 DEF LiveInv, TypeOK, NotifierTypeOK, BoxTypeOK, vars, boxVars, notifierVars,
                streamVars
  <2> QED
    BY <1>2, <2>1, QuietStepInv DEF vars, notifierVars, streamVars, connVars
<1> QED
  BY <1>1, <1>2

\* LiveInv holds in every state, whatever clients, services and failures do.
THEOREM LiveInvariance == Spec => []LiveInv
BY LiveInitInv, LiveStepInv, PTL DEF Spec

\* Every variable keeps to its type.
THEOREM LiveTypeCorrect == Spec => []TypeOK
<1>1. LiveInv => TypeOK
  BY DEF LiveInv
<1> QED
  BY <1>1, LiveInvariance, PTL

\* No interleaving of starts, crashes, cancellations and the shutdown leaks a
\* connection or leaves one that nobody reads open.
THEOREM ConnectionsNeverLeak == Spec => []NoConnectionLeak
<1>1. LiveInv => NoConnectionLeak
  BY DEF LiveInv
<1> QED
  BY <1>1, LiveInvariance, PTL

\* The registry holds the queues of the streams that are served and of those that were
\* left in a look-up or at a yield and are not collected yet, and no other.
THEOREM RegistryFitsStreams == Spec => []QueuesMatchStreams
<1>1. LiveInv => QueuesMatchStreams
  BY DEF LiveInv
<1> QED
  BY <1>1, LiveInvariance, PTL
=============================================================================
