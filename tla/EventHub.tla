------------------------------ MODULE EventHub ------------------------------
(***************************************************************************)
(* sse/mod.rs and sse/stream.rs: the hub every part of the server sends    *)
(* its events to, and the streams of the clients.  A stream counts against *)
(* the limit of its address while its guard lives; it reads a broadcast    *)
(* channel that keeps the newest Ring events, so a slow client lags.       *)
(***************************************************************************)
EXTENDS Naturals, Sequences, FiniteSets

CONSTANTS
    Clients,        \* the connections ever made
    Addresses,      \* the IP addresses they come from
    MaxPerAddress,  \* MAX_SSE_PER_IP
    Ring,           \* BROADCAST_CAPACITY
    EventTypes,
    HubEventBound   \* bound: events sent

ASSUME HubAssumption ==
    /\ IsFiniteSet(Clients)
    /\ MaxPerAddress \in Nat \ {0} /\ Ring \in Nat \ {0} /\ HubEventBound \in Nat

VARIABLES
    hubEvents,      \* the types of the events sent, in order
    connections,    \* connections: streams counted by address
    client,         \* "new", "counted", "streaming", "refused" or "closed"
    address,        \* where each client comes from
    wanted,         \* its type_filter
    from,           \* ghost: events sent before it subscribed
    next,           \* the receiver's position
    delivered,      \* ghost: positions of the events it was given, in order
    laggedCount     \* lagged_count

hubVars == <<hubEvents, connections, client, address, wanted, from, next, delivered, laggedCount>>

HubTypeOK ==
    /\ hubEvents \in Seq(EventTypes)
    /\ connections \in [Addresses -> 0 .. MaxPerAddress]
    /\ client \in [Clients -> {"new", "counted", "streaming", "refused", "closed"}]
    /\ address \in [Clients -> Addresses]
    /\ wanted \in [Clients -> SUBSET EventTypes]
    /\ from \in [Clients -> Nat] /\ next \in [Clients -> Nat]
    /\ delivered \in [Clients -> Seq(Nat)]
    /\ laggedCount \in 0 .. Cardinality(Clients)

HubInit ==
    /\ hubEvents = <<>> /\ connections = [a \in Addresses |-> 0]
    /\ client = [c \in Clients |-> "new"]
    /\ address \in [Clients -> Addresses]
    /\ wanted \in [Clients -> (SUBSET EventTypes) \ {{}}]
    /\ from = [c \in Clients |-> 0] /\ next = [c \in Clients |-> 0]
    /\ delivered = [c \in Clients |-> <<>>] /\ laggedCount = 0

-----------------------------------------------------------------------------
\* Senders never wait: an event pushes the oldest one out of the ring.
SendHubEvent ==
    /\ Len(hubEvents) < HubEventBound
    /\ \E e \in EventTypes : hubEvents' = Append(hubEvents, e)
    /\ UNCHANGED <<connections, client, address, wanted, from, next, delivered, laggedCount>>

\* register_connection.
Register(c) ==
    /\ client[c] = "new" /\ connections[address[c]] < MaxPerAddress
    /\ connections' = [connections EXCEPT ![address[c]] = @ + 1]
    /\ client' = [client EXCEPT ![c] = "counted"]
    /\ UNCHANGED <<hubEvents, address, wanted, from, next, delivered, laggedCount>>

RefuseClient(c) ==
    /\ client[c] = "new" /\ connections[address[c]] >= MaxPerAddress
    /\ client' = [client EXCEPT ![c] = "refused"]
    /\ UNCHANGED <<hubEvents, connections, address, wanted, from, next, delivered, laggedCount>>

\* subscribe: the receiver sees what is sent from now on.
Subscribe(c) ==
    /\ client[c] = "counted" /\ client' = [client EXCEPT ![c] = "streaming"]
    /\ from' = [from EXCEPT ![c] = Len(hubEvents)]
    /\ next' = [next EXCEPT ![c] = Len(hubEvents)]
    /\ UNCHANGED <<hubEvents, connections, address, wanted, delivered, laggedCount>>

Behind(c) == Len(hubEvents) - next[c]

\* Mutant: a client that lags goes on with the oldest event the ring still has.
ReceiveSkipping(c) ==
    /\ client[c] = "streaming" /\ Behind(c) > 0
    /\ LET n == IF Behind(c) > Ring THEN Len(hubEvents) - Ring + 1 ELSE next[c] + 1
       IN  /\ next' = [next EXCEPT ![c] = n]
           /\ delivered' = IF hubEvents[n] \in wanted[c]
                           THEN [delivered EXCEPT ![c] = Append(@, n)] ELSE delivered
    /\ UNCHANGED <<hubEvents, connections, client, address, wanted, from, laggedCount>>

\* recv gives the next event; the filter may drop it.
ReceiveEvent(c) ==
    /\ client[c] = "streaming" /\ Behind(c) \in 1 .. Ring
    /\ next' = [next EXCEPT ![c] = @ + 1]
    /\ delivered' = IF hubEvents[next[c] + 1] \in wanted[c]
                    THEN [delivered EXCEPT ![c] = Append(@, next[c] + 1)] ELSE delivered
    /\ UNCHANGED <<hubEvents, connections, client, address, wanted, from, laggedCount>>

\* The stream ends and drops its guard: unregister_connection.
Close(c) ==
    /\ client[c] = "streaming" /\ client' = [client EXCEPT ![c] = "closed"]
    /\ connections' = [connections EXCEPT ![address[c]] = IF @ > 0 THEN @ - 1 ELSE 0]
    /\ UNCHANGED <<hubEvents, address, wanted, from, next, delivered>>

\* Mutant: the lagging client's guard is not dropped.
LagKeepingCount(c) ==
    /\ Behind(c) > Ring /\ client[c] = "streaming"
    /\ client' = [client EXCEPT ![c] = "closed"] /\ laggedCount' = laggedCount + 1
    /\ UNCHANGED <<hubEvents, connections, address, wanted, from, next, delivered>>

\* recv says Lagged: the client is disconnected.
Lag(c) == Behind(c) > Ring /\ Close(c) /\ laggedCount' = laggedCount + 1

\* MAX_STREAM_AGE_SECS has passed, or the client went away.
Disconnect(c) == Close(c) /\ UNCHANGED laggedCount

HubNext ==
    \/ SendHubEvent
    \/ \E c \in Clients :
          \/ Register(c) \/ RefuseClient(c) \/ Subscribe(c)
          \/ ReceiveEvent(c) \/ Lag(c) \/ Disconnect(c)

HubSpec == HubInit /\ [][HubNext]_hubVars

-----------------------------------------------------------------------------
\* Properties.

\* An address is charged for its open streams and no others, however they ended
\* (ConnectionGuard covers the normal end and the abrupt one).
ConnectionsAreExact ==
    \A a \in Addresses :
        connections[a] = Cardinality({c \in Clients : address[c] = a /\ client[c] \in {"counted", "streaming"}})

\* A client is given every event of its types since it subscribed, in order and
\* without a gap: one that falls behind the ring is disconnected, never resumed
\* past what it missed.
NoSilentGap ==
    \A c \in Clients :
        LET seen == {n \in from[c] + 1 .. next[c] : hubEvents[n] \in wanted[c]}
        IN  /\ {delivered[c][i] : i \in DOMAIN delivered[c]} = seen
            /\ \A i, k \in DOMAIN delivered[c] : i < k => delivered[c][i] < delivered[c][k]
=============================================================================
