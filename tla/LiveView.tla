------------------------------ MODULE LiveView ------------------------------
(***************************************************************************)
(* The viewer page, GET /{token}, and the SSE stream it opens next,        *)
(* GET /stream/{token}, in one app process on top of its Notifier.  The    *)
(* other services are seen through the committed state only, so the        *)
(* environment is the abstract Inbox that they implement.                  *)
(***************************************************************************)
EXTENDS Notifier, SequencesExt

VARIABLES
    open, closed, inbox, count,     \* the inboxes (with `feed')
    app,            \* the life of the app process
    stream,         \* where each SSE stream is
    listed,         \* the requests on the page before its stream pushes any
    current,        \* the request id a stream has taken from its queue
    shown           \* the requests whose fragment a stream has sent, in order

Box == INSTANCE Inbox

boxVars    == <<open, closed, inbox, count, feed>>
streamVars == <<app, stream, topic, listed, current, shown>>
vars       == <<boxVars, notifierVars, streamVars>>

\* Streams whose response is iterated, and all those with a queue in the notifier.
Serving == {"waiting", "lookup", "sending"}
Subscribed == Serving \cup {"abandoned"}
Ended == {"notfound", "closed", "broken"}

TypeOK ==
    /\ NotifierTypeOK
    /\ app \in {"booting", "up", "down"}
    /\ stream \in [Streams -> {"new", "loaded", "connected", "starting"} \cup Subscribed \cup Ended]
    /\ topic \in [Streams -> EndpointIds \cup {None}]
    /\ listed \in [Streams -> SUBSET RequestIds]
    /\ current \in [Streams -> RequestIds \cup {None}]
    /\ shown \in [Streams -> Seq(RequestIds)]

Init ==
    /\ Box!Init
    /\ NotifierInit
    /\ app = "booting"
    /\ stream = [s \in Streams |-> "new"]
    /\ topic = [s \in Streams |-> None]
    /\ listed = [s \in Streams |-> {}]
    /\ current = [s \in Streams |-> None]
    /\ shown = [s \in Streams |-> << >>]

Become(s, label) == stream' = [stream EXCEPT ![s] = label]

\* Creators, captures and cleaners go on around the app.
Outside == Box!Next /\ UNCHANGED <<notifierVars, streamVars>>

\* lifespan: start() has returned, or has failed and the process exits.
Booted ==
    /\ app = "booting"
    /\ starting[Lifespan] \in {"no", "failed"}
    /\ app' = IF starting[Lifespan] = "no" THEN "up" ELSE "down"
    /\ UNCHANGED <<boxVars, notifierVars, stream, topic, listed, current, shown>>

\* Shutdown: the server lets the open streams end first, then lifespan stops; the
\* generators they leave behind may be collected later.
Shutdown ==
    /\ app = "up"
    /\ \A s \in Streams : stream[s] \in Ended \cup {"new", "loaded", "abandoned"}
    /\ Stop
    /\ app' = "down"
    /\ UNCHANGED <<open, closed, inbox, count, stream, listed, current, shown>>

\* GET /{token}: the page lists the rows committed by now (50 at most, a bound the
\* instances do not reach).
LoadPage(s, e) ==
    /\ app = "up"
    /\ stream[s] = "new"
    /\ e \in open
    /\ Become(s, "loaded")
    /\ topic' = [topic EXCEPT ![s] = e]
    /\ listed' = [listed EXCEPT ![s] = inbox[e]]
    /\ UNCHANGED <<boxVars, notifierVars, app, current, shown>>

\* The endpoint that a page's token names: a slug may have been claimed anew.
Named(s) == IF topic[s] \in open THEN {topic[s]} ELSE open

\* sse_stream probes the generator: find_by_token, then ": connected" is yielded.
OpenStream(s, e) ==
    /\ app = "up"
    /\ stream[s] = "loaded"
    /\ e \in Named(s)
    /\ Become(s, "connected")
    /\ topic' = [topic EXCEPT ![s] = e]
    /\ UNCHANGED <<boxVars, notifierVars, app, listed, current, shown>>

\* The token names no endpoint: 404 for the page or for its stream.
OpenMissing(s) ==
    /\ app = "up"
    /\ \/ stream[s] = "new"
       \/ stream[s] = "loaded" /\ topic[s] \notin open
    /\ Become(s, "notfound")
    /\ UNCHANGED <<boxVars, notifierVars, app, topic, listed, current, shown>>

\* The response iterates on: notifier.subscribe.
StreamSubscribes(s) ==
    /\ stream[s] = "connected"
    /\ Subscribe(s)
    /\ Become(s, IF Running THEN "waiting" ELSE "starting")
    /\ UNCHANGED <<open, closed, inbox, count, app, listed, current, shown>>

\* A step of start() in some task; when it returns, a stream is registered.
Starting(t) ==
    /\ StartStep(t)
    /\ stream' = [s \in Streams |-> IF s = t /\ starting'[s] = "no"
                                    THEN "waiting" ELSE stream[s]]
    /\ UNCHANGED <<open, closed, inbox, count, app, listed, current, shown>>

\* start() raises: the stream breaks off (or the process does not come up).
StartingFails(t) ==
    /\ StartFails(t)
    /\ stream' = [s \in Streams |-> IF s = t THEN "broken" ELSE stream[s]]
    /\ UNCHANGED <<open, closed, inbox, count, app, listed, current, shown>>

Reading(c) ==
    /\ ReaderStep(c)
    /\ UNCHANGED <<open, closed, inbox, count, app, stream, listed, current, shown>>

Crashing(c) ==
    /\ ReaderCrash(c)
    /\ UNCHANGED <<open, closed, inbox, count, app, stream, listed, current, shown>>

\* queue.get() returns.
Take(s) ==
    /\ stream[s] = "waiting"
    /\ queue[s] # << >>
    /\ current' = [current EXCEPT ![s] = Head(queue[s])]
    /\ queue' = [queue EXCEPT ![s] = Tail(@)]
    /\ Become(s, "lookup")
    /\ UNCHANGED <<boxVars, lock, listen_conn, session, reader_task, reader, position, since,
                   starting, queues, joined, faults, app, topic, listed, shown>>

\* find_by_id, then the fragment is yielded, or skipped when the row is not there.
Render(s) ==
    /\ stream[s] = "lookup"
    /\ IF \E e \in EndpointIds : current[s] \in inbox[e]
       THEN /\ shown' = [shown EXCEPT ![s] = Append(@, current[s])]
            /\ Become(s, "sending")
       ELSE Become(s, "waiting") /\ UNCHANGED shown
    /\ UNCHANGED <<boxVars, notifierVars, app, topic, listed, current>>

\* The fragment is on the wire and the response asks for the next one.
Sent(s) ==
    /\ stream[s] = "sending"
    /\ Become(s, "waiting")
    /\ UNCHANGED <<boxVars, notifierVars, app, topic, listed, current, shown>>

\* The session of find_by_id fails: stream_for_token ends, but its `async for' does
\* not close the subscription, which is suspended at its yield.
RenderFails(s) ==
    /\ stream[s] = "lookup"
    /\ Fault
    /\ Become(s, "abandoned")
    /\ UNCHANGED <<boxVars, lock, listen_conn, session, reader_task, reader, position, since,
                   starting, queues, queue, joined, app, topic, listed, current, shown>>

\* The client goes away and the task is cancelled.  A subscription that awaits its
\* queue ends at once through its finally block; one that is suspended at its yield,
\* while stream_for_token looks up or sends, stays registered until it is collected.
Disconnect(s) ==
    \/ /\ stream[s] = "connected"
       /\ Become(s, "closed")
       /\ UNCHANGED <<boxVars, notifierVars, app, topic, listed, current, shown>>
    \/ /\ stream[s] = "starting"
       /\ LeaveStart(s)
       /\ Become(s, "closed")
       /\ UNCHANGED <<boxVars, faults, app, listed, current, shown>>
    \/ /\ stream[s] = "waiting"
       /\ Unsubscribe(s)
       /\ Become(s, "closed")
       /\ UNCHANGED <<boxVars, faults, app, topic, listed, current, shown>>
    \/ /\ stream[s] \in {"lookup", "sending"}
       /\ Become(s, "abandoned")
       /\ UNCHANGED <<boxVars, notifierVars, app, topic, listed, current, shown>>

\* The event loop's asyncgen hook closes the abandoned subscription in a task of its
\* own; the reader may have filled its queue until then.
Collect(s) ==
    /\ stream[s] = "abandoned"
    /\ Unsubscribe(s)
    /\ Become(s, "closed")
    /\ UNCHANGED <<boxVars, faults, app, topic, listed, current, shown>>

StreamStep(s) ==
    \/ \E e \in EndpointIds : LoadPage(s, e) \/ OpenStream(s, e)
    \/ OpenMissing(s)
    \/ StreamSubscribes(s)
    \/ Take(s)
    \/ Render(s)
    \/ Sent(s)
    \/ RenderFails(s)
    \/ Disconnect(s)
    \/ Collect(s)

Next ==
    \/ Outside
    \/ Booted
    \/ Shutdown
    \/ \E t \in Tasks : Starting(t) \/ StartingFails(t)
    \/ \E c \in Conns : Reading(c) \/ Crashing(c)
    \/ \E s \in Streams : StreamStep(s)

Spec == Init /\ [][Next]_vars

\* A task that can go on goes on; a task that waits for the asyncio.Lock gets it
\* in turn (its waiters are a queue).  Nothing makes clients or faults act.
Fairness ==
    /\ WF_vars(Booted)
    /\ \A t \in Tasks : SF_vars(Starting(t))
    /\ \A c \in Conns : SF_vars(Reading(c))
    /\ \A s \in Streams :
          WF_vars(StreamSubscribes(s) \/ Take(s) \/ Render(s) \/ Sent(s) \/ Collect(s))

FairSpec == Spec /\ Fairness

-----------------------------------------------------------------------------
(* Safety *)

\* Some reader has handed over the i-th announcement.
Listened(i) == \E c \in Conns : since[c] < i /\ i <= position[c]

\* The announcements for a stream's endpoint that a reader has handed over since the
\* stream registered.
HeardAt(s) == {i \in 1..Len(feed) : /\ EndpointOf(feed[i]) = topic[s]
                                    /\ i > joined[s]
                                    /\ Listened(i)}

\* The k-th smallest element.
Nth(S, k) == CHOOSE i \in S : Cardinality({j \in S : j < i}) = k - 1

\* Their requests, in the order of the feed.
Heard(s) == [k \in 1..Cardinality(HeardAt(s)) |-> feed[Nth(HeardAt(s), k)][2]]

\* What a stream has yet to show.
Pending(s) == (IF stream[s] = "lookup" THEN <<current[s]>> ELSE << >>) \o queue[s]

\* Through every crash and restart of the reader, an open stream shows, in the
\* order of the commits and each once, exactly the captures of its endpoint that
\* were committed while a reader listened; a stream that was left, and may still have
\* a queue, shows the first of them.
StreamMatchesFeed ==
    \A s \in Streams :
        IF stream[s] \in Serving
        THEN shown[s] \o Pending(s) = Heard(s)
        ELSE IsPrefix(shown[s], Heard(s))

\* Page and stream together miss only what was handed over between the page's query
\* and the stream's registration, or committed while no reader listened; and no page
\* mixes two endpoints, also when its slug was claimed anew before the stream opened.
PageMissesOnlyGap ==
    \A s \in Streams :
        /\ topic[s] # None => listed[s] \cup ToSet(shown[s]) \subseteq inbox[topic[s]]
        /\ stream[s] \in Serving =>
              \A i \in 1..Len(feed) :
                  /\ EndpointOf(feed[i]) = topic[s]
                  /\ feed[i][2] \notin listed[s] \cup ToSet(shown[s] \o Pending(s))
                  => i <= joined[s] \/ ~ Listened(i)

\* However starts, crashes, cancellations and the shutdown interleave, every
\* connection but the current one is closed, and only the current one is read.
NoConnectionLeak ==
    \A c \in Conns :
        /\ session[c] \in {"open", "listening"} => c = listen_conn
        /\ reader[c] \in {"running", "crashed"} => c = listen_conn /\ c = reader_task

\* The registry holds exactly the queues of the streams that are iterated and of those
\* left behind at a yield or in a look-up and not collected yet: no stream that is iterated loses its
\* queue when another of its endpoint ends, and once a subscription has run its finally
\* block nothing is put into its queue any more.
QueuesMatchStreams ==
    \A s \in Streams, e \in EndpointIds :
        s \in queues[e] <=> stream[s] \in Subscribed /\ topic[s] = e

-----------------------------------------------------------------------------
(* Liveness *)

Pushed(s, r) == \E i \in 1..Len(shown[s]) : shown[s][i] = r

\* The capture of r for the stream's endpoint is the i-th announcement.
Announces(i, s, r) == i <= Len(feed) /\ feed[i] = <<topic[s], r>>

\* What a running reader has yet to hand over reaches every open stream that is
\* registered by then, unless that reader stops first: also after a restart, and
\* whichever other streams come and go.
RunningReaderDelivers ==
    \A s \in Streams, r \in RequestIds, c \in Conns :
        (/\ stream[s] \in Serving
         /\ reader[c] = "running"
         /\ \E i \in 1..Cardinality(RequestIds) : i > position[c] /\ Announces(i, s, r))
            ~> (Pushed(s, r) \/ stream[s] \in Ended \/ reader[c] # "running")

\* Nobody waits for the lock for ever, whatever fails meanwhile.
StartEnds ==
    \A t \in Tasks : (starting[t] = "lock") ~> (starting[t] \in {"no", "failed"})

-----------------------------------------------------------------------------
(* What the README says, and the code does not do *)

\* "Each open /stream/{token} connection that matches receives an HTML fragment":
\* every capture of which no reader had told before the stream registered is shown,
\* also when the connection of the reader breaks meanwhile.
RegisteredSeesAll ==
    \A s \in Streams, r \in RequestIds :
        (/\ stream[s] \in Serving
         /\ \E i \in 1..Cardinality(RequestIds) : i > joined[s] /\ Announces(i, s, r))
            ~> (Pushed(s, r) \/ stream[s] \in Ended)
=============================================================================
