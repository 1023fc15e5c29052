----------------------------- MODULE HttpServer -----------------------------
(***************************************************************************)
(* The HTTP server: requests, the stream of events, and the activity log   *)
(* it shows (http/server.py, http/avr_control.py; proxy/core.py:           *)
(* record_command and the callbacks of start()).                           *)
(*                                                                         *)
(* A request is answered and its connection closed in one step; GET        *)
(* /events makes the transport a subscriber instead.  Whoever changes what *)
(* the status shows calls notify_state_changed, which creates a push task; *)
(* the task reads the status when it runs.  The status itself is reduced   *)
(* to whether a subscriber was sent it since it last changed (fresh).      *)
(* Telnet clients and the AVR appear as those who change the status.       *)
(***************************************************************************)
EXTENDS Naturals, Sequences

CONSTANTS
  Conns,       \* HTTP connections, reused when nothing refers to them
  WebUI,       \* the log's name for POST /api/command
  Peers,       \* addresses of clients, HTTP and telnet
  Commands,    \* commands that are sent
  Queries,     \* those of them that end in "?"
  Joined,      \* the log's entry for a telnet client that connects
  Left,        \* and for one that disconnects
  MaxEntries,  \* config client_activity_log_max_entries
  MaxPushes,   \* bound on the push tasks that wait
  MaxRecords   \* bound on what is recorded

ASSUME QueriesAssumption == Queries \subseteq Commands
ASSUME EntriesAssumption == Joined \notin Commands /\ Left \notin Commands
ASSUME BoundsAssumption == MaxEntries \in Nat \ {0} /\ MaxPushes \in Nat /\ MaxRecords \in Nat

Sources == {WebUI} \cup Peers
Entries == Commands \cup {Joined, Left}

VARIABLES
  config,      \* client_activity_log ("log"), client_activity_log_hide_queries ("hide")
  conn,        \* each connection
  sse,         \* handlers in _sse_mode
  answered,    \* handlers that have sent a response
  subscribers, \* sse_subscribers
  fresh,       \* connections that were sent the status as it is now
  pushes,      \* push tasks
  log,         \* _client_activity_log
  recorded,    \* all that was to be recorded, in order (for the properties)
  up,          \* whether the AVR connection is usable
  asked,       \* request_state() after a reconnection waits for its first answer
  delays,      \* optimistic changes that are not yet broadcast
  telnet       \* addresses of connected telnet clients

httpVars == <<conn, sse, answered, subscribers>>
logVars  == <<log, recorded>>
avrVars  == <<up, asked, delays, telnet>>
vars     == <<config, httpVars, fresh, pushes, logVars, avrVars>>

\* A connection: not in use; open; lost by the peer or by an error, closed by
\* the handler (which forgets the transport), both until connection_lost().
ConnStates == {"free", "open", "dropped", "closed"}

Init ==
  /\ config \in [log : BOOLEAN, hide : BOOLEAN]
  /\ conn = [c \in Conns |-> "free"]
  /\ sse = {} /\ answered = {} /\ subscribers = {} /\ fresh = {}
  /\ pushes = 0
  /\ log = [s \in Sources |-> <<>>] /\ recorded = <<>>
  /\ up \in BOOLEAN
  /\ asked = FALSE
  /\ delays = 0
  /\ telnet = {}

-----------------------------------------------------------------------------
\* notify_state_changed, n times: a push task each.
Notify(n) == /\ pushes + n <= MaxPushes
             /\ pushes' = pushes + n

\* The status changes, so that nobody has been sent it, and n push tasks will
\* tell.
Change(n) == fresh' = {} /\ Notify(n)

\* A query, when hide_queries is on, is not stored.
Hidden(entry) == config.hide /\ entry \in Queries

\* A plausible slip: hidden entries are left out of what is shown, not of what is stored.
StoreAll(source, entry) ==
  [log EXCEPT ![source] = LET all == Append(@, entry)
                          IN  IF Len(all) > MaxEntries THEN Tail(all) ELSE all]

\* A deque with maxlen drops its oldest entry.
Store(source, entry) ==
  IF ~config.log \/ Hidden(entry) THEN log
  ELSE [log EXCEPT ![source] = LET all == Append(@, entry)
                               IN  IF Len(all) > MaxEntries THEN Tail(all) ELSE all]

\* Whether record_command stores the entry and so notifies.
Stores(entry) == config.log /\ ~Hidden(entry)

\* record_command.
Record(source, entry) ==
  /\ Len(recorded) < MaxRecords
  /\ recorded' = Append(recorded, <<source, entry>>)
  /\ log' = Store(source, entry)

-----------------------------------------------------------------------------
\* connection_made.
Connect(c) ==
  /\ conn[c] = "free" /\ c \notin subscribers
  /\ conn' = [conn EXCEPT ![c] = "open"]
  /\ sse' = sse \ {c} /\ answered' = answered \ {c}
  /\ UNCHANGED <<config, subscribers, fresh, pushes, logVars, avrVars>>

\* A plausible slip: a new subscriber is sent nothing until something changes.
SubscribeSilently(c) ==
  /\ conn[c] = "open"
  /\ sse' = sse \cup {c} /\ subscribers' = subscribers \cup {c}
  /\ UNCHANGED <<config, conn, answered, fresh, pushes, logVars, avrVars>>

\* GET /events: the transport subscribes, and all subscribers are sent the
\* status.
GetEvents(c) ==
  /\ conn[c] = "open"
  /\ sse' = sse \cup {c} /\ subscribers' = subscribers \cup {c}
  /\ Notify(1)
  /\ UNCHANGED <<config, conn, answered, fresh, logVars, avrVars>>

\* _send_body: the response is written and the connection closed.
Answer(c) ==
  /\ conn[c] = "open"
  /\ conn' = [conn EXCEPT ![c] = "closed"]
  /\ answered' = answered \cup {c}
  /\ UNCHANGED <<config, sse, subscribers>>

\* Requests that only read (the page, the status, capabilities), refresh, and
\* those refused: no such path, a body without a command, an action, a level
\* or a source the control routes do not know.
AnswerOnly(c) ==
  /\ Answer(c)
  /\ UNCHANGED <<fresh, pushes, logVars, avrVars>>

\* POST /api/command, or a control route that yields a command: it is
\* recorded, a task is created that sends it (ProxyCore), and the request is
\* answered.
Command(c, source, cmd) ==
  /\ Answer(c)
  /\ Record(source, cmd)
  /\ IF Stores(cmd) THEN Change(1) ELSE UNCHANGED <<fresh, pushes>>
  /\ UNCHANGED <<up, asked, delays, telnet>>

\* The peer or the network ends the connection.
PeerDrops(c) ==
  /\ conn[c] = "open"
  /\ conn' = [conn EXCEPT ![c] = "dropped"]
  /\ UNCHANGED <<config, sse, answered, subscribers, fresh, pushes, logVars, avrVars>>

\* A plausible slip: the transport stays subscribed.
ForgetNothing(c) ==
  /\ conn[c] \in {"dropped", "closed"}
  /\ conn' = [conn EXCEPT ![c] = "free"]
  /\ UNCHANGED <<config, sse, answered, subscribers, fresh, pushes, logVars, avrVars>>

\* connection_lost: the transport of a stream is discarded, unless the handler
\* has closed it and no longer knows it.
ConnectionLost(c) ==
  /\ conn[c] \in {"dropped", "closed"}
  /\ conn' = [conn EXCEPT ![c] = "free"]
  /\ subscribers' = IF c \in sse /\ conn[c] = "dropped" THEN subscribers \ {c} ELSE subscribers
  /\ UNCHANGED <<config, sse, answered, fresh, pushes, logVars, avrVars>>

\* A plausible slip: a failing write ends the loop over the subscribers.
PushToOne ==
  /\ pushes > 0 /\ pushes' = pushes - 1
  /\ \E c \in subscribers : fresh' = fresh \cup {c}
  /\ UNCHANGED <<config, httpVars, logVars, avrVars>>

\* _push: the status as it is now is written to every subscriber; a transport
\* that is no longer open ignores it.
Push ==
  /\ pushes > 0 /\ pushes' = pushes - 1
  /\ fresh' = fresh \cup {c \in subscribers : conn[c] = "open"}
  /\ UNCHANGED <<config, httpVars, logVars, avrVars>>

-----------------------------------------------------------------------------
\* A telnet client connects: record_command and _notify_web.
TelnetJoin(p) ==
  /\ p \notin telnet
  /\ telnet' = telnet \cup {p}
  /\ Record(p, Joined)
  /\ Change(IF Stores(Joined) THEN 2 ELSE 1)
  /\ UNCHANGED <<config, httpVars, up, asked, delays>>

\* connection_lost of a telnet client.
TelnetLeave(p) ==
  /\ p \in telnet
  /\ telnet' = telnet \ {p}
  /\ Record(p, Left)
  /\ Change(IF Stores(Left) THEN 2 ELSE 1)
  /\ UNCHANGED <<config, httpVars, up, asked, delays>>

\* A command of a telnet client is recorded; its task applies it to the state,
\* if it changes any, and broadcasts only after a delay.
TelnetCommand(p, cmd) ==
  /\ p \in telnet
  /\ Record(p, cmd)
  /\ \/ /\ cmd \notin Queries
        /\ fresh' = {} /\ delays' = delays + 1
     \/ /\ delays' = delays
        /\ fresh' = IF Stores(cmd) THEN {} ELSE fresh
  /\ Notify(IF Stores(cmd) THEN 1 ELSE 0)
  /\ UNCHANGED <<config, httpVars, up, asked, telnet>>

\* The end of the delay: the state is kept or reverted, broadcast, and the web
\* is notified.
BroadcastState ==
  /\ delays > 0 /\ delays' = delays - 1
  /\ Change(1)
  /\ UNCHANGED <<config, httpVars, logVars, up, asked, telnet>>

\* A task that sends a command without a connection asks for a reconnection,
\* which notifies.
SendFails ==
  /\ ~up
  /\ Notify(1)
  /\ UNCHANGED <<config, httpVars, fresh, logVars, avrVars>>

\* A line of the AVR: the state is updated and the web is notified.
AvrLine ==
  /\ up
  /\ asked' = FALSE
  /\ Change(1)
  /\ UNCHANGED <<config, httpVars, logVars, up, delays, telnet>>

\* The AVR connection is lost, which is shown.
AvrLost ==
  /\ up
  /\ up' = FALSE /\ asked' = FALSE
  /\ Change(1)
  /\ UNCHANGED <<config, httpVars, logVars, delays, telnet>>

\* It is opened again, which nobody notifies; the state is requested.
Reconnect ==
  /\ ~up
  /\ up' = TRUE /\ asked' = TRUE
  /\ fresh' = {}
  /\ UNCHANGED <<config, httpVars, pushes, logVars, delays, telnet>>

Next ==
  \/ \E c \in Conns :
       \/ Connect(c) \/ GetEvents(c) \/ AnswerOnly(c) \/ PeerDrops(c) \/ ConnectionLost(c)
       \/ \E source \in Sources, cmd \in Commands : Command(c, source, cmd)
  \/ Push
  \/ \E p \in Peers : TelnetJoin(p) \/ TelnetLeave(p) \/ \E cmd \in Commands : TelnetCommand(p, cmd)
  \/ BroadcastState
  \/ SendFails
  \/ AvrLine \/ AvrLost \/ Reconnect

Spec == Init /\ [][Next]_vars

\* The event loop runs push tasks and ends delays; the AVR answers what
\* request_state() asks.
FairSpec == /\ Spec
            /\ WF_vars(Push)
            /\ WF_vars(BroadcastState)
            /\ WF_vars(asked /\ AvrLine)

-----------------------------------------------------------------------------
(***************************************************************************)
(* Properties                                                              *)
(***************************************************************************)

\* The type invariant.
TypeOK ==
  /\ config \in [log : BOOLEAN, hide : BOOLEAN]
  /\ conn \in [Conns -> ConnStates]
  /\ sse \subseteq Conns /\ answered \subseteq Conns
  /\ subscribers \subseteq Conns /\ fresh \subseteq Conns
  /\ pushes \in 0..MaxPushes
  /\ log \in [Sources -> Seq(Entries)]
  /\ recorded \in Seq(Sources \X Entries)
  /\ up \in BOOLEAN /\ asked \in BOOLEAN
  /\ delays \in Nat
  /\ telnet \subseteq Peers

\* "pushes the same JSON payload as /api/status whenever state changes"
\* (docs/API.md): once all push tasks have run, every subscriber that is
\* still connected was last sent the status as it is, however subscriptions,
\* clients, lines and losses interleaved with the pushes.  Only an optimistic
\* change waits for the end of its delay, and a reconnection for the first
\* answer of the AVR.
SubscribersUpToDate ==
  pushes = 0 /\ delays = 0 /\ ~asked
    => \A c \in subscribers : conn[c] = "open" => c \in fresh

\* A transport that is lost is not written to for ever: it leaves the
\* subscribers with its connection, unless a further request on the stream
\* was answered, which closes it.
LostIsForgotten == \A c \in subscribers : conn[c] = "free" => c \in answered

\* What of a source is stored.
Kept(source) == {<<source, entry>> : entry \in {e \in Entries : Stores(e)}}

\* The entries of those of the records that are kept, in order.
EntriesIn(records, kept) ==
  LET upTo[n \in 0..Len(records)] ==
        IF n = 0 THEN <<>>
        ELSE IF records[n] \in kept THEN Append(upTo[n - 1], records[n][2])
        ELSE upTo[n - 1]
  IN  upTo[Len(records)]

\* The last n of a sequence.
Newest(seq, n) == SubSeq(seq, IF Len(seq) > n THEN Len(seq) - n + 1 ELSE 1, Len(seq))

\* The log of a source is the newest of its entries, in order, and queries
\* that are hidden do not evict any ("so they cannot evict visible entries",
\* proxy/core.py).
LogKeepsNewest ==
  \A source \in Sources : log[source] = Newest(EntriesIn(recorded, Kept(source)), MaxEntries)

\* Every subscriber is eventually sent the status, or gone.
EventuallyTold == \A c \in Conns : c \in subscribers ~> (c \in fresh \/ conn[c] # "open")
=============================================================================
