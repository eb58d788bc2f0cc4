-------------------------- MODULE LiveViewInvariant --------------------------
(***************************************************************************)
(* An inductive invariant of LiveView: what the holder of the notifier's   *)
(* lock may rely on, and which streams are inside start().  TLC checks it, *)
(* LiveViewProofs proves it and derives NoConnectionLeak and               *)
(* QueuesMatchStreams from it.                                             *)
(***************************************************************************)
EXTENDS LiveView

BoxTypeOK ==
    /\ open \subseteq EndpointIds
    /\ inbox \in [EndpointIds -> SUBSET RequestIds]
    /\ feed \in Seq(EndpointIds \X RequestIds)

\* A task between connect and create_task, and a crash handler that closes.
Opening(t) == starting[t] \in {"connect", "listen"}
Resetting(c) == reader[c] = "resetting"

LockHeld ==
    /\ \A t \in Tasks : Opening(t) => lock = t
    /\ \A c \in Conns : Resetting(c) => lock = c

\* The holder of the lock has made sure that nobody reads a connection, and, once it
\* has closed what was there, that none is open.
HolderIsAlone ==
    /\ \A t \in Tasks :
          /\ Opening(t) => \A c \in Conns : reader[c] \notin {"running", "crashed"}
          /\ starting[t] = "connect" =>
                \A c \in Conns : session[c] \notin {"open", "listening"}
          /\ starting[t] = "listen" => listen_conn \in Conns
    /\ \A d \in Conns : Resetting(d) =>
          \A c \in Conns : /\ reader[c] \notin {"running", "crashed"}
                           /\ session[c] \notin {"open", "listening"}

\* Only a stream that awaits start() is inside it.
StartersAreStreams ==
    \A s \in Streams : starting[s] \in {"lock", "connect", "listen"} => stream[s] = "starting"

\* Through every interleaving of starts, crashes, cancellations, shutdown and clients:
\* who holds the lock is alone with the connections, and the registry fits the streams.
LiveInv ==
    /\ TypeOK
    /\ BoxTypeOK
    /\ LockHeld
    /\ HolderIsAlone
    /\ StartersAreStreams
    /\ NoConnectionLeak
    /\ QueuesMatchStreams

-----------------------------------------------------------------------------
(* What readers hand over, and what streams and pages have of it *)

\* What readers have handed over of the feed: each connection a stretch, the one that is
\* read now behind all others, and no stream registered ahead of it.
ReadersInTurn ==
    /\ \A c \in Conns :
          /\ since[c] <= position[c] /\ position[c] <= Len(feed)
          /\ session[c] \in {"unused", "open"} => position[c] = since[c]
    /\ \A t \in Tasks : starting[t] = "listen" => session[listen_conn] = "open"
    /\ \A c \in Conns \ {reader_task} : reader_task # None => position[c] <= since[reader_task]
    /\ \A s \in Streams :
          /\ joined[s] <= Len(feed)
          /\ reader_task # None => joined[s] <= position[reader_task]

\* A capture that is announced is in its inbox, and an inbox with captures stays open.
FeedIsReadable ==
    /\ \A i \in 1..Len(feed) : feed[i][2] \in inbox[feed[i][1]]
    /\ \A e \in EndpointIds : inbox[e] # {} => e \in open

\* A stream without a queue has nothing waiting, one that has not registered yet has
\* shown nothing, and one that looks up has taken something.
StagesFit ==
    \A s \in Streams :
        /\ stream[s] \notin Subscribed => queue[s] = << >>
        /\ stream[s] \in {"new", "loaded", "connected", "starting"} => shown[s] = << >>
        /\ stream[s] = "lookup" => current[s] # None

\* What a page lists is of the endpoint that its stream follows.
PageFitsTopic ==
    \A s \in Streams : listed[s] # {} => /\ topic[s] \in EndpointIds
                                         /\ listed[s] \subseteq inbox[topic[s]]

\* Through every change of reader, what streams show and have waiting is what readers
\* have handed over since.
DeliveryInv ==
    /\ ReadersInTurn
    /\ FeedIsReadable
    /\ StagesFit
    /\ PageFitsTopic
    /\ StreamMatchesFeed
=============================================================================
