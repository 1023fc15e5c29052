----------------------------- MODULE ProxyCore -----------------------------
(***************************************************************************)
(* The state the proxy keeps of the AVR and shows its clients              *)
(* (proxy/core.py: ClientHandler, DenonProxyServer; avr/state.py).         *)
(*                                                                         *)
(* A command of a telnet client runs in a task of its own: it is applied   *)
(* to the state at once, sent by another task, and only after a delay is   *)
(* the state reverted if the send failed, and broadcast.  Lines of the     *)
(* AVR, other commands, clients that come and go and the loss of the       *)
(* connection fall in between.  Tasks that are ready run first come first  *)
(* served, and so do timers of the same delay.                             *)
(*                                                                         *)
(* The state is a value, or None, per field; a command sets a field to a   *)
(* value ("set"), moves it by a step ("step": MVUP, MVDOWN) or queries it  *)
(* ("ask").  The AVR is modelled from how the code uses it: it obeys,      *)
(* answers queries, and reports a change of a field unless a step made it. *)
(* The connection is the one of AVRConnection, reduced to whether it is up *)
(* and to the reconnect task.                                              *)
(***************************************************************************)
EXTENDS Naturals, Sequences, FiniteSets

CONSTANTS
  Clients,      \* telnet clients
  Fields,       \* fields of AVRState
  Values,       \* their values
  None,         \* a field AVRState knows nothing of (smart_select at first)
  Stepped,      \* fields with step commands (volume)
  Untold,       \* fields that a dump leaves out (volume_max)
  Defaults,     \* the fields of a new AVRState
  Input,        \* commands telnet clients send
  HttpInput,    \* commands the HTTP API sends
  AvrAtStart,   \* states the AVR may be in at first
  MaxCommands,  \* bound on the commands received
  MaxTurns,     \* bound on changes made at the AVR itself
  MaxLosses     \* bound on losses of the connection

ASSUME NoneAssumption == None \notin Values
ASSUME FieldsAssumption == /\ IsFiniteSet(Fields) /\ Stepped \subseteq Fields
                           /\ Defaults \in [Fields -> Values \cup {None}]
ASSUME AvrAssumption == AvrAtStart \subseteq [Fields -> Values]
ASSUME BoundsAssumption == MaxCommands \in Nat /\ MaxTurns \in Nat /\ MaxLosses \in Nat

VARIABLES
  optimistic,   \* config optimistic_state
  state,        \* AVRState
  clients,      \* connected telnet clients
  view,         \* what each client has last been told of each field
  job,          \* the commands received, in order: their tasks
  ready,        \* tasks the event loop will run next
  delayed,      \* tasks waiting for optimistic_broadcast_delay
  up,           \* whether the AVR connection is usable
  task,         \* _reconnect_task: "none", "sleeping" or "asking"
  asking,       \* fields its request_state() has still to query
  toAvr,        \* commands on their way to the AVR
  fromAvr,      \* lines on their way from the AVR
  avr,          \* external: the state of the AVR itself
  turns,        \* changes made at the AVR so far
  losses        \* losses of the connection so far

proxyVars == <<optimistic, state, clients, view, job, ready, delayed>>
linkVars  == <<up, task, asking, toAvr, fromAvr>>
envVars   == <<avr, turns, losses>>
vars      == <<proxyVars, linkVars, envVars>>

Jobs == 1..MaxCommands

States == [Fields -> Values \cup {None}]

Commands == [kind : {"set"}, field : Fields, value : Values]
            \cup [kind : {"step"}, field : Stepped, value : {None}]
            \cup [kind : {"ask"}, field : Fields, value : {None}]

\* Stages of a task: _handle_command_async not started yet, its send_task not
\* run yet, delay not over yet, waiting for volume_query_delay, finished.
Stages == {"new", "sending", "sent", "followup", "done"}

ASSUME InputAssumption == Input \cup HttpInput \subseteq Commands

\* No command that is applied to the state is about a field dumps leave out.
ASSUME UntoldAssumption ==
  /\ Untold \subseteq Fields
  /\ \A cmd \in Input \cup HttpInput : cmd.field \in Untold => cmd.kind = "ask"

NoSnapshot == [f \in {} |-> None]

\* An order in which request_state() queries the fields.
AskAll == CHOOSE s \in [1..Cardinality(Fields) -> Fields] : {s[i] : i \in DOMAIN s} = Fields

Ask(f) == [kind |-> "ask", field |-> f, value |-> None]

\* get_status_dump tells a client every field the state knows, but for those
\* that it leaves out.
Told(v, s) == [f \in Fields |-> IF s[f] # None /\ f \notin Untold THEN s[f] ELSE v[f]]

\* A dump reaches every connected client.
BroadcastState(s) == view' = [c \in Clients |-> IF c \in clients THEN Told(view[c], s) ELSE view[c]]

\* The proxy starts to listen when start() has requested the state over the
\* connection, or has failed to connect (and nobody tries again), or has lost
\* it, with the state it began with or the one the AVR's HTTP interface gave.
Init ==
  /\ optimistic \in BOOLEAN
  /\ avr \in AvrAtStart
  /\ state \in {Defaults, avr}
  /\ clients = {}
  /\ view = [c \in Clients |-> [f \in Fields |-> None]]
  /\ job = <<>>
  /\ ready = <<>> /\ delayed = <<>>
  /\ asking = <<>> /\ fromAvr = <<>>
  /\ \/ up = TRUE /\ task = "none" /\ toAvr = [i \in DOMAIN AskAll |-> Ask(AskAll[i])]
     \/ up = FALSE /\ task \in {"none", "sleeping"} /\ toAvr = <<>>
  /\ turns = 0 /\ losses = 0

-----------------------------------------------------------------------------
\* connection_made: the client is registered and sent the status dump.
Join(c) ==
  /\ c \notin clients
  /\ clients' = clients \cup {c}
  /\ view' = [view EXCEPT ![c] = Told([f \in Fields |-> None], state)]
  /\ UNCHANGED <<optimistic, state, job, ready, delayed, linkVars, envVars>>

\* connection_lost.  Its tasks go on.
Leave(c) ==
  /\ c \in clients
  /\ clients' = clients \ {c}
  /\ view' = [view EXCEPT ![c] = [f \in Fields |-> None]]
  /\ UNCHANGED <<optimistic, state, job, ready, delayed, linkVars, envVars>>

\* A task is created, in its first stage.
NewJob(cmd, stage, http) ==
  /\ Len(job) < MaxCommands
  /\ job' = Append(job, [cmd |-> cmd, stage |-> stage, http |-> http, snapshot |-> NoSnapshot,
                         had |-> FALSE, success |-> FALSE])
  /\ ready' = Append(ready, Len(job'))
  /\ UNCHANGED <<optimistic, state, clients, view, delayed, linkVars, envVars>>

\* data_received: a complete line becomes a task.
Receive(cmd) == clients # {} /\ NewJob(cmd, "new", FALSE)

\* A command of the HTTP API goes straight to a task that sends it.
ReceiveHttp(cmd) == NewJob(cmd, "sending", TRUE)

\* apply_command: what a command makes of the state; a step is computed from
\* the state's value and may differ from what the AVR makes of it.
Applied(cmd) == {[state EXCEPT ![cmd.field] = v] :
                   v \in IF cmd.kind = "step" THEN Values ELSE {cmd.value}}

\* _handle_command_async up to its sleep: snapshot, optimistic change, task
\* for the send.
Begin(j) ==
  /\ ready # <<>> /\ Head(ready) = j /\ job[j].stage = "new"
  /\ ready' = Append(Tail(ready), j)
  /\ delayed' = Append(delayed, j)
  /\ \/ /\ optimistic /\ job[j].cmd.kind # "ask"
        /\ state' \in Applied(job[j].cmd)
        /\ job' = [job EXCEPT ![j].stage = "sending", ![j].had = up, ![j].snapshot = state]
     \/ /\ ~optimistic \/ job[j].cmd.kind = "ask"
        /\ job' = [job EXCEPT ![j].stage = "sending", ![j].had = up]
        /\ UNCHANGED state
  /\ UNCHANGED <<optimistic, clients, view, linkVars, envVars>>

\* The stage of a command whose send has returned: the HTTP API waits for
\* nothing more, a client's command for its delay.
AfterSend(j) == IF job[j].http THEN "done" ELSE "sent"

\* A plausible slip: sends that need not wait for each other.
SendInAnyOrder(j) ==
  /\ j \in DOMAIN job /\ job[j].stage = "sending" /\ up
  /\ ready' = SelectSeq(ready, LAMBDA k : k # j)
  /\ toAvr' = Append(toAvr, job[j].cmd)
  /\ job' = [job EXCEPT ![j].stage = AfterSend(j), ![j].success = TRUE]
  /\ UNCHANGED <<optimistic, state, clients, view, delayed, up, task, asking, fromAvr, envVars>>

\* send_command with a usable connection.
SendSucceeds(j) ==
  /\ ready # <<>> /\ Head(ready) = j /\ job[j].stage = "sending" /\ up
  /\ ready' = Tail(ready)
  /\ toAvr' = Append(toAvr, job[j].cmd)
  /\ job' = [job EXCEPT ![j].stage = AfterSend(j), ![j].success = TRUE]
  /\ UNCHANGED <<optimistic, state, clients, view, delayed, up, task, asking, fromAvr, envVars>>

\* _on_avr_disconnect: a reconnect task is created unless there is one.
ScheduleReconnect == task' = IF task = "none" THEN "sleeping" ELSE task

\* The connection is lost with all that is under way on it.  A task that is
\* still in request_state() goes on, but its queries fail.
LoseConnection ==
  /\ up /\ losses < MaxLosses
  /\ losses' = losses + 1
  /\ up' = FALSE /\ ScheduleReconnect
  /\ asking' = <<>> /\ toAvr' = <<>> /\ fromAvr' = <<>>

\* send_command without a connection, or with one that the write breaks.
SendFails(j) ==
  /\ ready # <<>> /\ Head(ready) = j /\ job[j].stage = "sending"
  /\ ready' = Tail(ready)
  /\ job' = [job EXCEPT ![j].stage = AfterSend(j)]
  /\ \/ ~up /\ ScheduleReconnect /\ UNCHANGED <<up, asking, toAvr, fromAvr, losses>>
     \/ LoseConnection
  /\ UNCHANGED <<optimistic, state, clients, view, delayed, avr, turns>>

\* The command has changed the state: its snapshot is kept for a revert.
Tried(j) == job[j].snapshot # NoSnapshot

\* A plausible slip: reverting without looking whether there is a snapshot.
RevertedBlindly(j) ==
  IF ~job[j].success /\ job[j].had THEN job[j].snapshot ELSE state

\* The whole snapshot is restored if the send has failed although there was
\* a connection when the command began.
Reverted(j) ==
  IF Tried(j) /\ ~job[j].success /\ job[j].had THEN job[j].snapshot ELSE state

\* A plausible slip: the state is broadcast as it was before the revert.
AnnounceFirst(j) == IF Tried(j) THEN BroadcastState(state) ELSE UNCHANGED view

\* Everybody is told the state, reverted or not.
Announce(j) == IF Tried(j) THEN BroadcastState(state') ELSE UNCHANGED view

\* A plausible slip: nobody asks the AVR what a step has made of the volume.
NeverAsked(j) == "done"

\* MVUP and MVDOWN are followed by a query, if they have been sent.
AfterDelay(j) == IF job[j].success /\ job[j].cmd.kind = "step" THEN "followup" ELSE "done"

\* _handle_command_async after its sleep: revert, broadcast, and arrange for
\* the query that follows a step.
Conclude(j) ==
  /\ delayed # <<>> /\ Head(delayed) = j /\ job[j].stage = "sent"
  /\ delayed' = Tail(delayed)
  /\ state' = Reverted(j)
  /\ Announce(j)
  /\ job' = [job EXCEPT ![j].stage = AfterDelay(j), ![j].snapshot = NoSnapshot]
  /\ UNCHANGED <<optimistic, clients, ready, linkVars, envVars>>

\* volume_query_delay is over: send_command of a query.
FollowUp(j) ==
  /\ j \in DOMAIN job /\ job[j].stage = "followup"
  /\ job' = [job EXCEPT ![j].stage = "done"]
  /\ \/ up /\ toAvr' = Append(toAvr, Ask(job[j].cmd.field)) /\ UNCHANGED task
     \/ ~up /\ ScheduleReconnect /\ UNCHANGED toAvr
  /\ UNCHANGED <<optimistic, state, clients, view, ready, delayed, up, asking, fromAvr, envVars>>

-----------------------------------------------------------------------------
\* A line of the AVR: the state is updated, the line is relayed to all.
OnAvrResponse ==
  /\ up /\ fromAvr # <<>>
  /\ fromAvr' = Tail(fromAvr)
  /\ LET line == Head(fromAvr)
     IN  /\ state' = [state EXCEPT ![line.field] = line.value]
         /\ view' = [c \in Clients |-> IF c \in clients
                                       THEN [view[c] EXCEPT ![line.field] = line.value]
                                       ELSE view[c]]
  /\ UNCHANGED <<optimistic, clients, job, ready, delayed, up, task, asking, toAvr, envVars>>

\* request_state sends its next query.
RequestState ==
  /\ up /\ asking # <<>>
  /\ asking' = Tail(asking)
  /\ toAvr' = Append(toAvr, Ask(Head(asking)))
  /\ UNCHANGED <<proxyVars, up, task, fromAvr, envVars>>

\* The reconnect task is over, whatever has become of the connection.
Reconnected ==
  /\ task = "asking" /\ asking = <<>>
  /\ task' = "none"
  /\ UNCHANGED <<proxyVars, up, asking, toAvr, fromAvr, envVars>>

Lose == LoseConnection /\ UNCHANGED <<proxyVars, avr, turns>>

\* A plausible slip: the new connection is taken for the continuation of the old.
ReconnectWithoutAsking ==
  /\ task = "sleeping" /\ ~up
  /\ \A j \in DOMAIN job : job[j].had => job[j].stage \in {"followup", "done"}
  /\ up' = TRUE
  /\ task' = "none" /\ UNCHANGED asking
  /\ UNCHANGED <<proxyVars, toAvr, fromAvr, envVars>>

\* A reconnect task opens the connection and requests the state.  That takes
\* longer (RECONNECT_DELAY, 2 s) than what commands begun on the old one
\* still have to wait (optimistic_broadcast_delay, 0.1 s by default).
Reconnect ==
  /\ task = "sleeping" /\ ~up
  /\ \A j \in DOMAIN job : job[j].had => job[j].stage \in {"followup", "done"}
  /\ up' = TRUE
  /\ task' = "asking" /\ asking' = AskAll
  /\ UNCHANGED <<proxyVars, toAvr, fromAvr, envVars>>

\* It cannot, and is over: the next one is up to whoever sends.
DialFails ==
  /\ task = "sleeping"
  /\ task' = "none"
  /\ UNCHANGED <<proxyVars, up, asking, toAvr, fromAvr, envVars>>

-----------------------------------------------------------------------------
\* External: the AVR executes the next command.  A change by a "set" is
\* reported, one by a "step" may be; a query is answered.
AvrExecutes ==
  /\ toAvr # <<>>
  /\ toAvr' = Tail(toAvr)
  /\ LET cmd == Head(toAvr)
         report == [field |-> cmd.field, value |-> avr'[cmd.field]]
     IN  /\ avr' \in CASE cmd.kind = "set"  -> {[avr EXCEPT ![cmd.field] = cmd.value]}
                       [] cmd.kind = "step" -> {[avr EXCEPT ![cmd.field] = v] : v \in Values}
                       [] cmd.kind = "ask"  -> {avr}
         /\ \/ fromAvr' = Append(fromAvr, report)
            \/ /\ cmd.kind = "step" \/ (cmd.kind = "set" /\ avr' = avr)
               /\ UNCHANGED fromAvr
  /\ UNCHANGED <<proxyVars, up, task, asking, turns, losses>>

\* External: the AVR is changed by other means and reports it, if it can.
AvrIsTurned ==
  /\ turns < MaxTurns
  /\ turns' = turns + 1
  /\ \E f \in Fields, v \in Values :
       /\ avr[f] # v
       /\ avr' = [avr EXCEPT ![f] = v]
       /\ fromAvr' = IF up THEN Append(fromAvr, [field |-> f, value |-> v]) ELSE fromAvr
  /\ UNCHANGED <<proxyVars, up, task, asking, toAvr, losses>>

Next ==
  \/ \E c \in Clients : Join(c) \/ Leave(c)
  \/ \E cmd \in Input : Receive(cmd)
  \/ \E cmd \in HttpInput : ReceiveHttp(cmd)
  \/ \E j \in Jobs : Begin(j) \/ SendSucceeds(j) \/ SendFails(j) \/ Conclude(j) \/ FollowUp(j)
  \/ OnAvrResponse
  \/ RequestState
  \/ Reconnected
  \/ Lose
  \/ Reconnect
  \/ DialFails
  \/ AvrExecutes
  \/ AvrIsTurned

Spec == Init /\ [][Next]_vars

\* The event loop runs ready tasks and timers, and a dial ends, in one way or
\* the other.  The AVR executes what it is sent.
Fairness ==
  /\ \A j \in Jobs : /\ WF_vars(Begin(j))
                     /\ WF_vars(SendSucceeds(j) \/ SendFails(j))
                     /\ WF_vars(Conclude(j))
                     /\ WF_vars(FollowUp(j))
  /\ WF_vars(OnAvrResponse)
  /\ WF_vars(RequestState)
  /\ WF_vars(Reconnected)
  /\ WF_vars(Reconnect \/ DialFails)
  /\ WF_vars(AvrExecutes)

FairSpec == Spec /\ Fairness

-----------------------------------------------------------------------------
(***************************************************************************)
(* Properties                                                              *)
(***************************************************************************)
JobRecords == [cmd : Commands, stage : Stages, http : BOOLEAN,
               snapshot : States \cup {NoSnapshot}, had : BOOLEAN, success : BOOLEAN]

\* The type invariant.
TypeOK ==
  /\ optimistic \in BOOLEAN /\ up \in BOOLEAN
  /\ state \in States
  /\ clients \subseteq Clients
  /\ view \in [Clients -> States]
  /\ job \in Seq(JobRecords) /\ Len(job) <= MaxCommands
  /\ ready \in Seq(Jobs) /\ delayed \in Seq(Jobs)
  /\ task \in {"none", "sleeping", "asking"}
  /\ asking \in Seq(Fields) /\ toAvr \in Seq(Commands)
  /\ fromAvr \in Seq([field : Fields, value : Values])
  /\ avr \in [Fields -> Values]
  /\ turns \in 0..MaxTurns /\ losses \in 0..MaxLosses

\* What the AVR will say of a field is on its way, or the question is.
Awaited(f) == \/ f \in {asking[i] : i \in DOMAIN asking}
              \/ Ask(f) \in {toAvr[i] : i \in DOMAIN toAvr}
              \/ f \in {fromAvr[i].field : i \in DOMAIN fromAvr}

\* A client knows what the proxy knows, except of a field that a command has
\* changed and whose delay is not over: whatever is reverted, reported by the
\* AVR or changed by others in between, everybody is told of it.  (A field
\* that was reverted to None cannot be told of: a dump leaves it out.)
\* A field that no dump tells is known to those who were there when the AVR
\* told it.  A revert may make the proxy forget what it told them, but only
\* until the AVR of the next connection has answered.
ViewsAgree ==
  \A c \in clients :
    /\ \A f \in Fields \ Untold :
         state[f] \in {None, view[c][f]} \/
           \E j \in DOMAIN job : job[j].snapshot # NoSnapshot /\ job[j].cmd.field = f
    /\ \A f \in Untold : view[c][f] \in {None, state[f]} \/ ~up \/ Awaited(f)

\* Nothing is under way.
Quiet == /\ up /\ asking = <<>> /\ toAvr = <<>> /\ fromAvr = <<>>
         /\ \A j \in DOMAIN job : job[j].stage = "done"

\* A step of the HTTP API, which no query follows.
SteppedOverHttp(f) ==
  \E j \in DOMAIN job : job[j].http /\ job[j].cmd.kind = "step" /\ job[j].cmd.field = f

\* When nothing is under way, what the proxy knows of the AVR is what the AVR
\* is: optimistic values, guesses of a volume step, reverts to stale
\* snapshots and lines lost with a connection have all been corrected.
\* (An AVR that does not report steps is not asked about one of the HTTP API.)
Converges ==
  Quiet => \A f \in Fields : state[f] \in {None, avr[f]} \/ SteppedOverHttp(f)

\* The commands of telnet clients are sent in the order they were received,
\* although each runs in two tasks of its own.
SentInOrder ==
  \A i, j \in DOMAIN job :
    i < j /\ ~job[i].http /\ ~job[j].http /\ job[j].stage \notin {"new", "sending"}
      => job[i].stage \notin {"new", "sending"}

\* No connection, and no attempt to open one before somebody sends
\* (RecoversUnderDemand of AVRConnection).
Abandoned == ~up /\ task = "none"

\* In the end the proxy and all its clients know the AVR as it is, if it is
\* left alone for long enough, unless the connection is given up: a dial has
\* failed, or the loss came during request_state(), and nobody sends.  (Of a
\* field that no dump tells a client may know nothing.)
EventuallyConsistent ==
  <>[](\/ Abandoned
       \/ /\ \A f \in Fields : state[f] = avr[f] \/ SteppedOverHttp(f)
          /\ \A c \in clients, f \in Fields :
               view[c][f] = state[f] \/ (f \in Untold /\ view[c][f] = None))

=============================================================================
