------------------------------ MODULE Notifier ------------------------------
(***************************************************************************)
(* PostgresNotifier: one LISTEN connection per app process, one reader     *)
(* task that copies notifications into the queues of the subscribers, and  *)
(* the asyncio.Lock that start(), stop() and the reader's crash handler    *)
(* share.  Tasks interleave at their awaits only.  A reader task is named  *)
(* by the connection it reads; `feed' is the log of delivered NOTIFYs.     *)
(***************************************************************************)
EXTENDS Integers, Sequences, FiniteSets

CONSTANTS
    EndpointIds, RequestIds,
    Streams,        \* tasks that run an SSE stream, each a subscriber
    Lifespan,       \* the task that runs the FastAPI lifespan
    Conns,          \* psycopg connections that may ever be opened (a bound)
    None,           \* Python None
    MaxFaults       \* bound: failures of connections and statements

ASSUME NotifierAssumption ==
    /\ Lifespan \notin Streams
    /\ None \notin Streams \cup {Lifespan} \cup Conns \cup EndpointIds \cup RequestIds
    /\ (Streams \cup {Lifespan}) \cap Conns = {}
    /\ MaxFaults \in Nat

VARIABLES
    feed,           \* notifications committed so far
    lock,           \* the task that holds _lock
    listen_conn,    \* _listen_conn
    session,        \* the state of each connection
    reader_task,    \* _reader_task
    reader,         \* the state of each reader task
    position,       \* how much of the feed each connection has handed over
    starting,       \* where each task is in start()
    topic,          \* the endpoint a stream subscribes to
    queues,         \* _queues: the registered subscribers of each endpoint
    queue,          \* the content of each subscriber's asyncio.Queue
    since,          \* length of the feed when each connection began to listen
    joined,         \* what the reader had handed over when the subscriber registered
    faults

notifierVars == <<lock, listen_conn, session, reader_task, reader, position, since,
                  starting, queues, queue, joined, faults>>

Tasks == Streams \cup {Lifespan}

NotifierTypeOK ==
    /\ lock \in Tasks \cup Conns \cup {None}
    /\ listen_conn \in Conns \cup {None}
    /\ session \in [Conns -> {"unused", "open", "listening", "broken", "closed"}]
    /\ reader_task \in Conns \cup {None}
    /\ reader \in [Conns -> {"none", "running", "crashed", "resetting", "done"}]
    /\ position \in [Conns -> Nat]
    /\ since \in [Conns -> Nat]
    /\ starting \in [Tasks -> {"no", "lock", "connect", "listen", "failed"}]
    /\ queues \in [EndpointIds -> SUBSET Streams]
    /\ queue \in [Streams -> Seq(RequestIds)]
    /\ joined \in [Streams -> Nat]
    /\ faults \in 0..MaxFaults

\* lifespan calls start() before the app serves anything.
NotifierInit ==
    /\ lock = None
    /\ listen_conn = None
    /\ session = [c \in Conns |-> "unused"]
    /\ reader_task = None
    /\ reader = [c \in Conns |-> "none"]
    /\ position = [c \in Conns |-> 0]
    /\ since = [c \in Conns |-> 0]
    /\ starting = [t \in Tasks |-> IF t = Lifespan THEN "lock" ELSE "no"]
    /\ queues = [e \in EndpointIds |-> {}]
    /\ queue = [s \in Streams |-> << >>]
    /\ joined = [s \in Streams |-> 0]
    /\ faults = 0

Fault == faults < MaxFaults /\ faults' = faults + 1

\* The check that subscribe makes without the lock and start() repeats with it.
Running == /\ listen_conn # None
           /\ reader_task # None
           /\ reader[reader_task] # "done"

\* A mutant: start() does not look again once it has the lock.
RunningUnderLock_Unchecked(t) == FALSE

RunningUnderLock(t) == Running

ClosedConn(c) == IF c = None THEN session ELSE [session EXCEPT ![c] = "closed"]

\* After start() a subscriber creates its queue and registers it, without an await;
\* the reader has handed over the first n notifications by then.
Register(t, n) ==
    IF t \in Streams
    THEN /\ queues' = [queues EXCEPT ![topic[t]] = @ \cup {t}]
         /\ joined' = [joined EXCEPT ![t] = n]
    ELSE UNCHANGED <<queues, joined>>

\* _subscribe_gen: register at once when the reader runs, else enter start().
Subscribe(s) ==
    /\ \/ /\ Running
          /\ Register(s, position[reader_task])
          /\ UNCHANGED starting
       \/ /\ ~ Running
          /\ starting' = [starting EXCEPT ![s] = "lock"]
          /\ UNCHANGED <<queues, joined>>
    /\ UNCHANGED <<feed, topic, lock, listen_conn, session, reader_task, reader,
                   position, since, queue, faults>>

\* start() gets the lock and finds the reader running: nothing to do.
AlreadyStarted(t) ==
    /\ starting[t] = "lock"
    /\ lock = None
    /\ RunningUnderLock(t)
    /\ starting' = [starting EXCEPT ![t] = "no"]
    /\ Register(t, position[reader_task])
    /\ UNCHANGED <<feed, topic, lock, listen_conn, session, reader_task, reader,
                   position, since, queue, faults>>

\* start() gets the lock and closes what a crash has left.
BeginStart(t) ==
    /\ starting[t] = "lock"
    /\ lock = None
    /\ ~ RunningUnderLock(t)
    /\ lock' = t
    /\ session' = ClosedConn(listen_conn)
    /\ starting' = [starting EXCEPT ![t] = "connect"]
    /\ UNCHANGED <<feed, topic, listen_conn, reader_task, reader, position, since, queues,
                   queue, joined, faults>>

Connect(t, c) ==
    /\ starting[t] = "connect"
    /\ session[c] = "unused"
    /\ session' = [session EXCEPT ![c] = "open"]
    /\ listen_conn' = c
    /\ starting' = [starting EXCEPT ![t] = "listen"]
    /\ UNCHANGED <<feed, topic, lock, reader_task, reader, position, since, queues, queue,
                   joined, faults>>

\* LISTEN, create_task and the release of the lock.
Listen(t) ==
    /\ starting[t] = "listen"
    /\ session' = [session EXCEPT ![listen_conn] = "listening"]
    /\ position' = [position EXCEPT ![listen_conn] = Len(feed)]
    /\ since' = [since EXCEPT ![listen_conn] = Len(feed)]
    /\ reader_task' = listen_conn
    /\ reader' = [reader EXCEPT ![listen_conn] = "running"]
    /\ lock' = None
    /\ starting' = [starting EXCEPT ![t] = "no"]
    /\ Register(t, Len(feed))
    /\ UNCHANGED <<feed, topic, listen_conn, queue, faults>>

\* start() ends with an exception (connect or LISTEN failed, or the task that
\* called it was cancelled) and leaves the lock.
LeaveStart(t) ==
    /\ starting[t] \in {"lock", "connect", "listen"}
    /\ starting' = [starting EXCEPT ![t] = "failed"]
    /\ lock' = IF lock = t THEN None ELSE lock
    /\ UNCHANGED <<feed, topic, listen_conn, session, reader_task, reader, position, since,
                   queues, queue, joined>>

StartFails(t) ==
    /\ starting[t] \in {"connect", "listen"}
    /\ LeaveStart(t)
    /\ Fault

\* A mutant: a notification goes to one subscriber of its endpoint only.
Receivers_Any(e) == IF queues[e] = {} THEN {} ELSE {CHOOSE s \in queues[e] : TRUE}

\* A mutant: a notification goes to the subscribers of every endpoint.
Receivers_Everyone(e) == UNION {queues[f] : f \in EndpointIds}

Receivers(e) == queues[e]

\* A mutant: the two parts of the payload are swapped.
RequestOf_Swapped(notif) == notif[1]

\* payload.split(":", 1)
EndpointOf(notif) == notif[1]
RequestOf(notif) == notif[2]

\* The reader copies the next notification to the queues of its endpoint.
Dispatch(c) ==
    /\ reader[c] = "running"
    /\ session[c] = "listening"
    /\ position[c] < Len(feed)
    /\ LET notif == feed[position[c] + 1]
       IN  queue' = [s \in Streams |-> IF s \in Receivers(EndpointOf(notif))
                                       THEN Append(queue[s], RequestOf(notif))
                                       ELSE queue[s]]
    /\ position' = [position EXCEPT ![c] = @ + 1]
    /\ UNCHANGED <<feed, topic, lock, listen_conn, session, reader_task, reader,
                   since, starting, queues, joined, faults>>

\* The server or the network ends the connection: notifies() raises.
ReaderCrash(c) ==
    /\ reader[c] = "running"
    /\ Fault
    /\ session' = [session EXCEPT ![c] = "broken"]
    /\ reader' = [reader EXCEPT ![c] = "crashed"]
    /\ UNCHANGED <<feed, topic, lock, listen_conn, reader_task, position, since, starting,
                   queues, queue, joined>>

\* The crash handler gets the lock and closes the connection; while it awaits
\* that, its task is not done and subscribers take the reader to be running.
BeginReset(c) ==
    /\ reader[c] = "crashed"
    /\ lock = None
    /\ lock' = c
    /\ session' = ClosedConn(listen_conn)
    /\ reader' = [reader EXCEPT ![c] = "resetting"]
    /\ UNCHANGED <<feed, topic, listen_conn, reader_task, position, since, starting, queues,
                   queue, joined, faults>>

\* A mutant: the handler keeps the lock.
LockAfterReset_Kept(c) == c

LockAfterReset(c) == None

EndReset(c) ==
    /\ reader[c] = "resetting"
    /\ listen_conn' = None
    /\ reader_task' = None
    /\ reader' = [reader EXCEPT ![c] = "done"]
    /\ lock' = LockAfterReset(c)
    /\ UNCHANGED <<feed, topic, session, position, since, starting, queues, queue, joined, faults>>

\* stop(): cancel the reader, also while it waits for the lock, and close.
Stop ==
    /\ lock = None
    /\ reader' = IF reader_task = None THEN reader
                 ELSE [reader EXCEPT ![reader_task] = "done"]
    /\ reader_task' = None
    /\ session' = ClosedConn(listen_conn)
    /\ listen_conn' = None
    /\ UNCHANGED <<feed, topic, lock, position, since, starting, queues, queue, joined, faults>>

\* A mutant: a closed stream leaves its queue registered.
QueuesWithout_Kept(s) == queues

\* A mutant: the endpoint's entry is deleted although other queues are in it.
QueuesWithout_None(s) == [queues EXCEPT ![topic[s]] = {}]

QueuesWithout(s) == [queues EXCEPT ![topic[s]] = @ \ {s}]

\* The finally block of _subscribe_gen.
Unsubscribe(s) ==
    /\ queues' = QueuesWithout(s)
    /\ queue' = [queue EXCEPT ![s] = << >>]
    /\ UNCHANGED <<lock, listen_conn, session, reader_task, reader, position, since,
                   starting, joined>>

StartStep(t) ==
    \/ AlreadyStarted(t)
    \/ BeginStart(t)
    \/ \E c \in Conns : Connect(t, c)
    \/ Listen(t)

ReaderStep(c) ==
    \/ Dispatch(c)
    \/ BeginReset(c)
    \/ EndReset(c)
=============================================================================
