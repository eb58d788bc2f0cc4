-------------------------------- MODULE Inbox --------------------------------
(***************************************************************************)
(* What webhook-inspector promises, without transactions, locks or jobs:   *)
(* an inbox is opened once, every capture enters one open inbox exactly    *)
(* once together with its count and its announcement on the feed, and only *)
(* empty inboxes are purged, for good.                                     *)
(***************************************************************************)
EXTENDS Integers, Sequences

CONSTANTS EndpointIds, RequestIds

VARIABLES open,     \* inboxes a client can read and send to
          closed,   \* inboxes that were purged
          inbox,    \* the captures of each inbox
          count,    \* the number the viewer shows for each inbox
          feed      \* announcements, oldest first

inboxVars == <<open, closed, inbox, count, feed>>

Init ==
    /\ open = {}
    /\ closed = {}
    /\ inbox = [e \in EndpointIds |-> {}]
    /\ count = [e \in EndpointIds |-> 0]
    /\ feed = << >>

Open(e) ==
    /\ e \notin open \cup closed
    /\ open' = open \cup {e}
    /\ UNCHANGED <<closed, inbox, count, feed>>

Deliver(e, r) ==
    /\ e \in open
    /\ \A f \in EndpointIds : r \notin inbox[f]
    /\ inbox' = [inbox EXCEPT ![e] = @ \cup {r}]
    /\ count' = [count EXCEPT ![e] = @ + 1]
    /\ feed' = Append(feed, <<e, r>>)
    /\ UNCHANGED <<open, closed>>

Purge(S) ==
    /\ S \subseteq open
    /\ \A e \in S : inbox[e] = {}
    /\ open' = open \ S
    /\ closed' = closed \cup S
    /\ UNCHANGED <<inbox, count, feed>>

Next ==
    \/ \E e \in EndpointIds : Open(e)
    \/ \E e \in EndpointIds, r \in RequestIds : Deliver(e, r)
    \/ \E S \in SUBSET EndpointIds : Purge(S)

Spec == Init /\ [][Next]_inboxVars
=============================================================================
