----------------------------- MODULE McpSessions -----------------------------
(***************************************************************************)
(* The sessions of the MCP server (mcp/session.rs, routes/mcp_native.rs):  *)
(* a table under one mutex with a count per address, a bounded queue and   *)
(* an event stream per session, and the message handlers that look a       *)
(* session up, dispatch, and send to what is there by then.  A session     *)
(* leaves the table when the guard inside its stream is dropped.           *)
(* Authentication, the requests themselves and the keepalives are left     *)
(* out.                                                                    *)
(***************************************************************************)
EXTENDS Naturals, Sequences, FiniteSets

CONSTANTS
    McpIds,         \* session ids, each drawn once
    McpIps,         \* addresses
    McpPosts,       \* messages posted
    NoIp,
    CloseMark,          \* the closing mark, None in the code
    MaxMcpSessions, MaxPerIp, QueueDepth

ASSUME McpAssumption ==
    /\ NoIp \notin McpIps /\ CloseMark \notin McpPosts
    /\ IsFiniteSet(McpIds) /\ McpIds # {}
    /\ MaxMcpSessions \in Nat /\ MaxPerIp \in Nat /\ QueueDepth \in Nat \ {0}

VARIABLES
    owner,          \* the session's owner_ip, while it is in the table
    perIp,          \* the count per address; absent is zero
    mailbox,        \* its queue: messages and the closing mark
    sse,            \* where its event stream is
    receiving,      \* its receiver exists
    bound,          \* sessions that have declared a scope identity
    post, target,   \* where each message is, and for which session
    reply           \* what it was answered

mcpVars == <<owner, perIp, mailbox, sse, receiving, bound, post, target, reply>>

Listed == {s \in McpIds : owner[s] # NoIp}
OpenOf(ip) == {s \in McpIds : owner[s] = ip}

McpTypeOK ==
    /\ owner \in [McpIds -> McpIps \cup {NoIp}]
    /\ perIp \in [McpIps -> Nat]
    /\ \A s \in McpIds :
          /\ mailbox[s] \in Seq(McpPosts \cup {CloseMark})
          /\ Len(mailbox[s]) <= QueueDepth
    /\ sse \in [McpIds -> {"new", "first", "open", "leaving", "refused"}]
    /\ receiving \in [McpIds -> BOOLEAN]
    /\ bound \subseteq McpIds
    /\ post \in [McpPosts -> {"idle", "dispatch", "send", "full", "done", "dropped"}]
    /\ target \in [McpPosts -> McpIds]
    /\ reply \in [McpPosts -> {"none", "ok", "accepted", "missing", "forbidden", "malformed",
                               "disconnected", "unavailable"}]

McpInit ==
    /\ owner = [s \in McpIds |-> NoIp] /\ perIp = [ip \in McpIps |-> 0]
    /\ mailbox = [s \in McpIds |-> <<>>] /\ sse = [s \in McpIds |-> "new"]
    /\ receiving = [s \in McpIds |-> FALSE] /\ bound = {}
    /\ post = [m \in McpPosts |-> "idle"]
    /\ target = [m \in McpPosts |-> CHOOSE s \in McpIds : TRUE]
    /\ reply = [m \in McpPosts |-> "none"]

session == <<owner, perIp, receiving, bound>>
messages == <<post, target, reply>>

----------------------------------------------------------------------------
\* GET /mcp: try_register, and the guard, without an await between them.
Admits(ip) == Cardinality(Listed) < MaxMcpSessions /\ perIp[ip] < MaxPerIp

Register(s, ip) ==
    /\ sse[s] = "new" /\ Admits(ip)
    /\ owner' = [owner EXCEPT ![s] = ip]
    /\ perIp' = [perIp EXCEPT ![ip] = @ + 1]
    /\ receiving' = [receiving EXCEPT ![s] = TRUE]
    /\ sse' = [sse EXCEPT ![s] = "first"]
    /\ UNCHANGED <<mailbox, bound, messages>>

RefuseSession(s, ip) ==
    /\ sse[s] = "new" /\ ~Admits(ip)
    /\ sse' = [sse EXCEPT ![s] = "refused"]
    /\ UNCHANGED <<session, mailbox, messages>>

\* The stream: the endpoint event, then the queue, up to the closing mark.
FirstEvent(s) ==
    /\ sse[s] = "first" /\ sse' = [sse EXCEPT ![s] = "open"]
    /\ UNCHANGED <<session, mailbox, messages>>

Receive(s) ==
    /\ sse[s] = "open" /\ mailbox[s] # <<>>
    /\ sse' = [sse EXCEPT ![s] = IF Head(mailbox[s]) = CloseMark THEN "leaving" ELSE "open"]
    /\ mailbox' = [mailbox EXCEPT ![s] = Tail(@)]
    /\ UNCHANGED <<session, messages>>

\* The client goes away: the body is dropped with the response.
Disconnect(s) ==
    /\ sse[s] \in {"first", "open"} /\ sse' = [sse EXCEPT ![s] = "leaving"]
    /\ UNCHANGED <<session, mailbox, messages>>

\* The two things a stream holds go one after the other: the guard first out of a
\* poll, the receiver first between two polls.
DropReceiver(s) ==
    /\ sse[s] = "leaving" /\ receiving[s]
    /\ receiving' = [receiving EXCEPT ![s] = FALSE]
    /\ mailbox' = [mailbox EXCEPT ![s] = <<>>]
    /\ UNCHANGED <<owner, perIp, sse, bound, messages>>

DropGuard(s) ==
    /\ sse[s] = "leaving" /\ owner[s] # NoIp
    /\ owner' = [owner EXCEPT ![s] = NoIp]
    /\ perIp' = [perIp EXCEPT ![owner[s]] = IF @ <= 1 THEN 0 ELSE @ - 1]
    /\ bound' = bound \ {s}
    /\ UNCHANGED <<mailbox, sse, receiving, messages>>

----------------------------------------------------------------------------
\* POST /mcp/message, up to dispatch.
AnswerPost(m, what) ==
    post' = [post EXCEPT ![m] = "done"] /\ reply' = [reply EXCEPT ![m] = what]

Post(m, s, ip) ==
    /\ post[m] = "idle" /\ target' = [target EXCEPT ![m] = s]
    /\ \/ owner[s] = NoIp /\ AnswerPost(m, "missing")
       \/ owner[s] \notin {NoIp, ip} /\ AnswerPost(m, "forbidden")
       \/ owner[s] = ip /\ AnswerPost(m, "malformed")
       \/ owner[s] = ip /\ post' = [post EXCEPT ![m] = "dispatch"] /\ UNCHANGED reply
    /\ UNCHANGED <<session, mailbox, sse>>

\* The awaits of the request: it may be dropped there with its connection, and it may
\* bind the session to a scope identity, if there still is a session.
Bind(m) ==
    /\ post[m] = "dispatch" /\ target[m] \in Listed
    /\ bound' = bound \cup {target[m]}
    /\ UNCHANGED <<owner, perIp, receiving, mailbox, sse, messages>>

Dispatched(m) ==
    /\ post[m] = "dispatch"
    /\ \/ post' = [post EXCEPT ![m] = "send"] /\ UNCHANGED reply
       \/ AnswerPost(m, "accepted")
    /\ UNCHANGED <<target, session, mailbox, sse>>

DropPost(m) ==
    /\ post[m] = "dispatch" /\ post' = [post EXCEPT ![m] = "dropped"]
    /\ UNCHANGED <<target, reply, session, mailbox, sse>>

\* send_to.
Reachable(s) == s \in Listed /\ receiving[s]
HasRoom(s) == Len(mailbox[s]) < QueueDepth

SendTo(m) ==
    LET s == target[m]
    IN  /\ post[m] = "send"
        /\ \/ ~Reachable(s) /\ AnswerPost(m, "disconnected") /\ UNCHANGED mailbox
           \/ /\ Reachable(s) /\ HasRoom(s) /\ AnswerPost(m, "ok")
              /\ mailbox' = [mailbox EXCEPT ![s] = Append(@, m)]
           \/ /\ Reachable(s) /\ ~HasRoom(s) /\ post' = [post EXCEPT ![m] = "full"]
              /\ UNCHANGED <<mailbox, reply>>
        /\ UNCHANGED <<target, session, sse>>

\* close_session, under a lock of its own: the mark goes the way of the message, and
\* finds the queue full unless the client has read meanwhile.
CloseSession(m) ==
    LET s == target[m]
    IN  /\ post[m] = "full" /\ AnswerPost(m, "unavailable")
        /\ mailbox' = IF Reachable(s) /\ HasRoom(s)
                      THEN [mailbox EXCEPT ![s] = Append(@, CloseMark)] ELSE mailbox
        /\ UNCHANGED <<target, session, sse>>

\* What the runtime does without anybody's leave; a client that reads.
SessionStep(s) == FirstEvent(s) \/ Receive(s) \/ DropReceiver(s) \/ DropGuard(s)
PostStep(m) == Dispatched(m) \/ SendTo(m) \/ CloseSession(m)

McpNext ==
    \/ \E s \in McpIds :
          \/ SessionStep(s) \/ Disconnect(s)
          \/ \E ip \in McpIps : Register(s, ip) \/ RefuseSession(s, ip)
    \/ \E m \in McpPosts :
          \/ PostStep(m) \/ Bind(m) \/ DropPost(m)
          \/ \E s \in McpIds, ip \in McpIps : Post(m, s, ip)

----------------------------------------------------------------------------
\* An address is charged for the sessions in the table and no others, within both
\* limits; a session is in the table while its stream is open; and a scope identity
\* outlives no session.
SessionsAreCharged ==
    /\ \A ip \in McpIps : perIp[ip] = Cardinality(OpenOf(ip)) /\ perIp[ip] <= MaxPerIp
    /\ Cardinality(Listed) <= MaxMcpSessions
    /\ \A s \in McpIds : sse[s] \in {"first", "open"} => Reachable(s)
    /\ bound \subseteq Listed
=============================================================================
