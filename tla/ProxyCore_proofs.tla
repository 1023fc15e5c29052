-------------------------- MODULE ProxyCore_proofs --------------------------
(***************************************************************************)
(* Proofs about ProxyCore, for any sets of clients, fields and commands    *)
(* and any bounds: type correctness, that the commands of telnet clients   *)
(* are sent in the order they came, that the proxy comes to know the AVR   *)
(* as it is, and that the clients know what the proxy knows.  The second   *)
(* follows from the order of the event loop's queue, in which each command *)
(* waits twice; the third from what is under way between proxy and AVR.    *)
(* The last comes in two parts: of what dumps tell, every change of the    *)
(* state is followed by a broadcast, or by a line to all; what they do not *)
(* tell only a revert could change, and there is none before the next      *)
(* connection has asked for everything.                                    *)
(***************************************************************************)
EXTENDS ProxyCore, FiniteSetTheorems, SequenceTheorems, TLAPS

-----------------------------------------------------------------------------
(***************************************************************************)
(* Sequences.                                                              *)
(***************************************************************************)

\* A sequence is a function on 1..n, and conversely.
LEMMA SeqIsFunction ==
  ASSUME NEW S, NEW s \in Seq(S)
  PROVE  Len(s) \in Nat /\ DOMAIN s = 1..Len(s) /\ s \in [1..Len(s) -> S]
  OBVIOUS

LEMMA FunctionIsSeq ==
  ASSUME NEW S, NEW n \in Nat, NEW s \in [1..n -> S]
  PROVE  s \in Seq(S) /\ Len(s) = n
  <1>1. s \in Seq(S)
    BY SeqDef
  <1> QED
    BY <1>1, SeqIsFunction

\* The queue after its first element has been taken.
LEMMA TailElements ==
  ASSUME NEW S, NEW s \in Seq(S), s # <<>>
  PROVE  /\ Head(s) = s[1] /\ 1 \in DOMAIN s
         /\ Tail(s) \in Seq(S)
         /\ Len(s) \in Nat /\ Len(s) >= 1
         /\ Len(Tail(s)) = Len(s) - 1
         /\ \A p \in 1..Len(s) - 1 : Tail(s)[p] = s[p + 1]
  OBVIOUS

\* The queue after an element has been added.
LEMMA AppendElements ==
  ASSUME NEW S, NEW s \in Seq(S), NEW x \in S
  PROVE  /\ Append(s, x) \in Seq(S)
         /\ Len(s) \in Nat
         /\ Len(Append(s, x)) = Len(s) + 1
         /\ \A p \in 1..Len(s) : Append(s, x)[p] = s[p]
         /\ Append(s, x)[Len(s) + 1] = x
  OBVIOUS

\* The queue after its first element has been replaced by one at its end.
LEMMA PassBackElements ==
  ASSUME NEW S, NEW s \in Seq(S), s # <<>>, NEW x \in S
  PROVE  /\ Append(Tail(s), x) \in Seq(S)
         /\ Len(s) \in Nat /\ Len(s) >= 1
         /\ Len(Append(Tail(s), x)) = Len(s)
         /\ \A p \in 1..Len(s) - 1 : Append(Tail(s), x)[p] = s[p + 1]
         /\ Append(Tail(s), x)[Len(s)] = x
  <1>1. Tail(s) \in Seq(S) /\ Len(s) \in Nat /\ Len(s) >= 1 /\ Len(Tail(s)) = Len(s) - 1
    BY TailElements
  <1>2. /\ Append(Tail(s), x) \in Seq(S)
        /\ Len(Append(Tail(s), x)) = Len(s) - 1 + 1
        /\ \A p \in 1..Len(s) - 1 : Append(Tail(s), x)[p] = Tail(s)[p]
        /\ Append(Tail(s), x)[Len(s) - 1 + 1] = x
    BY <1>1, AppendElements
  <1>3. Len(s) - 1 + 1 = Len(s)
    BY <1>1
  <1> QED
    BY <1>1, <1>2, <1>3, TailElements

\* Nothing is in a queue but what was there or has been added.
LEMMA QueueMembers ==
  ASSUME NEW S, NEW s \in Seq(S), NEW K, NEW x \in K, x \in S,
         \A p \in DOMAIN s : s[p] \in K
  PROVE  /\ \A p \in DOMAIN Append(s, x) : Append(s, x)[p] \in K
         /\ s # <<>> => \A p \in DOMAIN Tail(s) : Tail(s)[p] \in K
         /\ s # <<>> => \A p \in DOMAIN Append(Tail(s), x) : Append(Tail(s), x)[p] \in K
  <1>1. Len(s) \in Nat /\ DOMAIN s = 1..Len(s)
    BY SeqIsFunction
  <1>2. ASSUME NEW p \in DOMAIN Append(s, x) PROVE Append(s, x)[p] \in K
    <2>1. DOMAIN Append(s, x) = 1..Len(s) + 1
      BY AppendElements
    <2>2. CASE p = Len(s) + 1
      BY <2>2, AppendElements
    <2>3. CASE p \in 1..Len(s)
      BY <1>1, <2>3, AppendElements
    <2> QED
      BY <1>1, <1>2, <2>1, <2>2, <2>3
  <1>3. ASSUME s # <<>>, NEW p \in DOMAIN Tail(s) PROVE Tail(s)[p] \in K
    <2>1. Len(s) >= 1 /\ Tail(s) \in Seq(S) /\ Len(Tail(s)) = Len(s) - 1
      BY <1>3, TailElements
    <2>2. p \in 1..Len(s) - 1 /\ p + 1 \in 1..Len(s)
      BY <1>1, <1>3, <2>1
    <2>3. Tail(s)[p] = s[p + 1]
      BY <1>3, <2>2, TailElements
    <2> QED
      BY <1>1, <2>2, <2>3
  <1>4. ASSUME s # <<>>, NEW p \in DOMAIN Append(Tail(s), x) PROVE Append(Tail(s), x)[p] \in K
    <2>1. /\ Len(s) >= 1 /\ Append(Tail(s), x) \in Seq(S)
          /\ Len(Append(Tail(s), x)) = Len(s) /\ Append(Tail(s), x)[Len(s)] = x
      BY <1>4, PassBackElements
    <2>2. p = Len(s) \/ (p \in 1..Len(s) - 1 /\ p + 1 \in 1..Len(s))
      BY <1>1, <1>4, <2>1
    <2>3. p \in 1..Len(s) - 1 => Append(Tail(s), x)[p] = s[p + 1]
      BY <1>4, PassBackElements
    <2> QED
      BY <1>1, <2>1, <2>2, <2>3
  <1> QED
    BY <1>2, <1>3, <1>4

-----------------------------------------------------------------------------
(***************************************************************************)
(* Type correctness.                                                       *)
(***************************************************************************)

\* The queues of the event loop hold tasks that exist.
QueuesKnown ==
  /\ \A p \in DOMAIN ready : ready[p] \in DOMAIN job
  /\ \A p \in DOMAIN delayed : delayed[p] \in DOMAIN job

TypeInv == TypeOK /\ QueuesKnown

\* request_state() can query the fields in some order.
LEMMA AskAllTyped == AskAll \in Seq(Fields)
  <1>1. Cardinality(Fields) \in Nat /\ ExistsBijection(1..Cardinality(Fields), Fields)
    BY FieldsAssumption, FS_CardinalityType
  <1>2. PICK s \in [1..Cardinality(Fields) -> Fields] : s \in Bijection(1..Cardinality(Fields), Fields)
    BY <1>1 DEF ExistsBijection, Bijection, Injection
  <1>3. {s[i] : i \in DOMAIN s} = Fields
    BY <1>2 DEF Bijection, Surjection
  <1>4. AskAll \in [1..Cardinality(Fields) -> Fields]
    BY <1>3 DEF AskAll
  <1> QED
    BY <1>1, <1>4, FunctionIsSeq

\* A task keeps its type, and its command, in every stage.
LEMMA StageTyped ==
  ASSUME NEW r \in JobRecords, NEW st \in Stages, NEW ok \in BOOLEAN
  PROVE  /\ [r EXCEPT !.stage = st] \in JobRecords
         /\ [[r EXCEPT !.stage = st] EXCEPT !.success = ok] \in JobRecords
         /\ [[r EXCEPT !.stage = st] EXCEPT !.had = ok] \in JobRecords
         /\ [[r EXCEPT !.stage = st] EXCEPT !.snapshot = NoSnapshot] \in JobRecords
         /\ \A s \in States :
              [[[r EXCEPT !.stage = st] EXCEPT !.had = ok] EXCEPT !.snapshot = s] \in JobRecords
  BY DEF JobRecords

\* One task moves on, the others stay as they are.
LEMMA TaskMoves ==
  ASSUME job \in Seq(JobRecords), NEW j \in DOMAIN job, NEW r \in JobRecords,
         job' = [job EXCEPT ![j] = r]
  PROVE  /\ job' \in Seq(JobRecords) /\ Len(job') = Len(job)
         /\ DOMAIN job' = DOMAIN job /\ job'[j] = r
         /\ \A k \in DOMAIN job : k # j => job'[k] = job[k]
  <1>1. Len(job) \in Nat /\ DOMAIN job = 1..Len(job) /\ job \in [1..Len(job) -> JobRecords]
    BY SeqIsFunction
  <1>2. job' \in [1..Len(job) -> JobRecords]
    BY <1>1
  <1> QED
    BY <1>1, <1>2, FunctionIsSeq

\* What Begin makes of its task.
LEMMA BeginTask ==
  ASSUME TypeInv, NEW j \in Jobs, Begin(j)
  PROVE  /\ j \in DOMAIN job /\ DOMAIN job' = DOMAIN job
         /\ job' \in Seq(JobRecords) /\ Len(job') = Len(job)
         /\ \A k \in DOMAIN job : k # j => job'[k] = job[k]
         /\ job'[j].stage = "sending" /\ job'[j].cmd = job[j].cmd /\ job'[j].http = job[j].http
         /\ \/ state' = state /\ job'[j].snapshot = job[j].snapshot
            \/ state' \in Applied(job[j].cmd) /\ job'[j].snapshot = state
  <1>1. ready # <<>> /\ j = Head(ready) /\ ready \in Seq(Jobs) /\ job \in Seq(JobRecords)
    BY DEF Begin, TypeInv, TypeOK
  <1>2. j \in DOMAIN job
    BY <1>1, TailElements DEF TypeInv, QueuesKnown
  <1>3. job[j] \in JobRecords
    BY <1>1, <1>2
  <1>4. up \in BOOLEAN /\ state \in States /\ "sending" \in Stages
    BY DEF TypeInv, TypeOK, Stages
  <1>5. CASE /\ optimistic /\ job[j].cmd.kind # "ask"
             /\ state' \in Applied(job[j].cmd)
             /\ job' = [job EXCEPT ![j].stage = "sending", ![j].had = up, ![j].snapshot = state]
    <2> DEFINE r == [[[job[j] EXCEPT !.stage = "sending"] EXCEPT !.had = up] EXCEPT !.snapshot = state]
    <2>1. r \in JobRecords
      BY <1>3, <1>4, StageTyped
    <2>2. /\ r.stage = "sending" /\ r.cmd = job[j].cmd /\ r.http = job[j].http
          /\ r.snapshot = state
      BY <1>3 DEF JobRecords
    <2>3. job' = [job EXCEPT ![j] = r]
      BY <1>2, <1>5
    <2> HIDE DEF r
    <2> QED
      BY <1>1, <1>2, <1>5, <2>1, <2>2, <2>3, TaskMoves
  <1>6. CASE /\ ~optimistic \/ job[j].cmd.kind = "ask"
             /\ job' = [job EXCEPT ![j].stage = "sending", ![j].had = up]
             /\ UNCHANGED state
    <2> DEFINE r == [[job[j] EXCEPT !.stage = "sending"] EXCEPT !.had = up]
    <2>1. r \in JobRecords
      BY <1>3, <1>4, StageTyped
    <2>2. /\ r.stage = "sending" /\ r.cmd = job[j].cmd /\ r.http = job[j].http
          /\ r.snapshot = job[j].snapshot
      BY <1>3 DEF JobRecords
    <2>3. job' = [job EXCEPT ![j] = r]
      BY <1>2, <1>6
    <2> HIDE DEF r
    <2> QED
      BY <1>1, <1>2, <1>6, <2>1, <2>2, <2>3, TaskMoves
  <1> QED
    BY <1>5, <1>6 DEF Begin

\* What the send makes of its task.
LEMMA SendTask ==
  ASSUME TypeInv, NEW j \in Jobs, SendSucceeds(j) \/ SendFails(j)
  PROVE  /\ j \in DOMAIN job /\ DOMAIN job' = DOMAIN job
         /\ job' \in Seq(JobRecords) /\ Len(job') = Len(job)
         /\ \A k \in DOMAIN job : k # j => job'[k] = job[k]
         /\ job'[j].stage \in {"sent", "done"} /\ job'[j].cmd = job[j].cmd
         /\ job'[j].http = job[j].http /\ job'[j].snapshot = job[j].snapshot
         /\ job[j].stage = "sending" /\ (~job[j].http => job'[j].stage = "sent")
         /\ SendSucceeds(j) => job'[j].success = TRUE
  <1>1. ready # <<>> /\ j = Head(ready) /\ ready \in Seq(Jobs) /\ job \in Seq(JobRecords)
        /\ job[j].stage = "sending"
    BY DEF SendSucceeds, SendFails, TypeInv, TypeOK
  <1>2. j \in DOMAIN job
    BY <1>1, TailElements DEF TypeInv, QueuesKnown
  <1>3. job[j] \in JobRecords
    BY <1>1, <1>2
  <1>4. AfterSend(j) \in {"sent", "done"} /\ AfterSend(j) \in Stages
        /\ (~job[j].http => AfterSend(j) = "sent")
    BY DEF AfterSend, Stages
  <1>5. CASE SendSucceeds(j)
    <2> DEFINE r == [[job[j] EXCEPT !.stage = AfterSend(j)] EXCEPT !.success = TRUE]
    <2>1. r \in JobRecords
      BY <1>3, <1>4, StageTyped
    <2>2. /\ r.stage = AfterSend(j) /\ r.cmd = job[j].cmd /\ r.http = job[j].http
          /\ r.snapshot = job[j].snapshot /\ r.success = TRUE
      BY <1>3 DEF JobRecords
    <2>3. job' = [job EXCEPT ![j] = r]
      BY <1>2, <1>5 DEF SendSucceeds
    <2> HIDE DEF r
    <2> QED
      BY <1>1, <1>2, <1>4, <2>1, <2>2, <2>3, TaskMoves
  <1>6. CASE SendFails(j)
    <2> DEFINE r == [job[j] EXCEPT !.stage = AfterSend(j)]
    <2>1. r \in JobRecords
      BY <1>3, <1>4, StageTyped
    <2>2. /\ r.stage = AfterSend(j) /\ r.cmd = job[j].cmd /\ r.http = job[j].http
          /\ r.snapshot = job[j].snapshot
      BY <1>3 DEF JobRecords
    <2>3. job' = [job EXCEPT ![j] = r]
      BY <1>2, <1>6 DEF SendFails
    <2>4. ~SendSucceeds(j)
      <3>1. Len(toAvr) \in Nat => Len(Append(toAvr, job[j].cmd)) = Len(toAvr) + 1
        OBVIOUS
      <3> QED
        BY <1>6 DEF SendSucceeds, SendFails, LoseConnection
    <2> HIDE DEF r
    <2> QED
      BY <1>1, <1>2, <1>4, <2>1, <2>2, <2>3, <2>4, TaskMoves
  <1> QED
    BY <1>5, <1>6

\* What the end of the delay, and the query after it, make of their task.
LEMMA LateTask ==
  ASSUME TypeInv, NEW j \in Jobs, Conclude(j) \/ FollowUp(j)
  PROVE  /\ j \in DOMAIN job /\ DOMAIN job' = DOMAIN job
         /\ job' \in Seq(JobRecords) /\ Len(job') = Len(job)
         /\ \A k \in DOMAIN job : k # j => job'[k] = job[k]
         /\ job[j].stage \in {"sent", "followup"} /\ job'[j].stage \in {"followup", "done"}
         /\ job'[j].cmd = job[j].cmd /\ job'[j].http = job[j].http
         /\ FollowUp(j) => job'[j].snapshot = job[j].snapshot
         /\ Conclude(j) => job'[j].snapshot = NoSnapshot
         /\ Conclude(j) /\ job[j].success /\ job[j].cmd.kind = "step" => job'[j].stage = "followup"
  <1>1. delayed \in Seq(Jobs) /\ job \in Seq(JobRecords)
    BY DEF TypeInv, TypeOK
  <1>2. j \in DOMAIN job
    <2>1. CASE Conclude(j)
      BY <1>1, <2>1, TailElements DEF Conclude, TypeInv, QueuesKnown
    <2>2. CASE FollowUp(j)
      BY <2>2 DEF FollowUp
    <2> QED
      BY <2>1, <2>2
  <1>3. job[j] \in JobRecords
    BY <1>1, <1>2
  <1>4. AfterDelay(j) \in {"followup", "done"} /\ AfterDelay(j) \in Stages /\ "done" \in Stages
        /\ (job[j].success /\ job[j].cmd.kind = "step" => AfterDelay(j) = "followup")
    BY DEF AfterDelay, Stages
  <1>5. CASE Conclude(j)
    <2> DEFINE r == [[job[j] EXCEPT !.stage = AfterDelay(j)] EXCEPT !.snapshot = NoSnapshot]
    <2>1. r \in JobRecords
      BY <1>3, <1>4, StageTyped
    <2>2. /\ r.stage = AfterDelay(j) /\ r.cmd = job[j].cmd /\ r.http = job[j].http
          /\ r.snapshot = NoSnapshot
      BY <1>3 DEF JobRecords
    <2>3. job' = [job EXCEPT ![j] = r]
      BY <1>2, <1>5 DEF Conclude
    <2>4. job[j].stage = "sent" /\ ~FollowUp(j)
      BY <1>5 DEF Conclude, FollowUp
    <2> HIDE DEF r
    <2> QED
      BY <1>1, <1>2, <1>4, <2>1, <2>2, <2>3, <2>4, TaskMoves
  <1>6. CASE FollowUp(j)
    <2> DEFINE r == [job[j] EXCEPT !.stage = "done"]
    <2>1. r \in JobRecords
      BY <1>3, <1>4, StageTyped
    <2>2. /\ r.stage = "done" /\ r.cmd = job[j].cmd /\ r.http = job[j].http
          /\ r.snapshot = job[j].snapshot
      BY <1>3 DEF JobRecords
    <2>3. job' = [job EXCEPT ![j] = r]
      BY <1>2, <1>6 DEF FollowUp
    <2>4. job[j].stage = "followup" /\ ~Conclude(j)
      BY <1>6 DEF Conclude, FollowUp
    <2> HIDE DEF r
    <2> QED
      BY <1>1, <1>2, <2>1, <2>2, <2>3, <2>4, TaskMoves
  <1> QED
    BY <1>5, <1>6

\* A new task is the last one, and the last in the queue.
LEMMA NewTask ==
  ASSUME TypeInv, NEW cmd \in Commands, NEW stage \in Stages, NEW http \in BOOLEAN,
         NewJob(cmd, stage, http)
  PROVE  /\ job' \in Seq(JobRecords) /\ Len(job') = Len(job) + 1 /\ Len(job') <= MaxCommands
         /\ DOMAIN job' = DOMAIN job \cup {Len(job')} /\ Len(job') \notin DOMAIN job
         /\ Len(job') \in Jobs
         /\ \A k \in DOMAIN job : job'[k] = job[k] /\ k < Len(job')
         /\ job'[Len(job')].stage = stage /\ job'[Len(job')].http = http
         /\ job'[Len(job')].snapshot = NoSnapshot /\ job'[Len(job')].had = FALSE
         /\ job'[Len(job')].cmd = cmd
         /\ ready' = Append(ready, Len(job'))
  <1> DEFINE r == [cmd |-> cmd, stage |-> stage, http |-> http, snapshot |-> NoSnapshot,
                   had |-> FALSE, success |-> FALSE]
  <1>1. /\ r \in JobRecords
        /\ r.stage = stage /\ r.http = http /\ r.snapshot = NoSnapshot
        /\ r.had = FALSE /\ r.cmd = cmd
    BY DEF JobRecords
  <1>2. /\ job \in Seq(JobRecords) /\ Len(job) \in Nat /\ DOMAIN job = 1..Len(job)
        /\ Len(job) < MaxCommands /\ job' = Append(job, r) /\ ready' = Append(ready, Len(job'))
    BY DEF TypeInv, TypeOK, NewJob
  <1> HIDE DEF r
  <1>3. /\ job' \in Seq(JobRecords) /\ Len(job') = Len(job) + 1
        /\ \A k \in 1..Len(job) : job'[k] = job[k]
        /\ job'[Len(job) + 1] = r
    BY <1>1, <1>2, AppendElements
  <1>4. DOMAIN job' = 1..Len(job) + 1
    BY <1>3
  <1> QED
    BY <1>1, <1>2, <1>3, <1>4, BoundsAssumption DEF Jobs

Lines == [field : Fields, value : Values]

\* What clients are told of a state is a state.
LEMMA ToldTyped ==
  ASSUME NEW w \in States, NEW s \in States
  PROVE  Told(w, s) \in States
  BY DEF Told, States

LEMMA BroadcastTyped ==
  ASSUME view \in [Clients -> States], NEW s \in States, BroadcastState(s)
  PROVE  view' \in [Clients -> States]
  <1>1. \A c \in Clients : Told(view[c], s) \in States
    BY ToldTyped
  <1> QED
    BY <1>1 DEF BroadcastState

\* A query is a command, and a command concerns a field.
LEMMA CommandTyped ==
  /\ \A h \in Fields : Ask(h) \in Commands
  /\ \A cmd \in Commands : /\ cmd.field \in Fields /\ cmd.kind \in {"set", "step", "ask"}
                           /\ cmd.kind = "set" => cmd.value \in Values
                           /\ cmd.value \in Values \cup {None}
  BY FieldsAssumption DEF Commands, Ask

\* What a command makes of the state is a state, in which no other field has
\* changed.
LEMMA AppliedTyped ==
  ASSUME state \in States, NEW cmd \in Commands, NEW s \in Applied(cmd)
  PROVE  s \in States /\ \A h \in Fields : h # cmd.field => s[h] = state[h]
  <1>1. PICK w \in Values \cup {None} : s = [state EXCEPT ![cmd.field] = w]
    BY CommandTyped DEF Applied
  <1> QED
    BY <1>1 DEF States

\* A revert leaves a state.
LEMMA RevertedTyped ==
  ASSUME TypeInv, NEW j \in DOMAIN job
  PROVE  Reverted(j) \in States
  <1>1. job[j] \in JobRecords
    BY DEF TypeInv, TypeOK
  <1>2. job[j].snapshot \in States \cup {NoSnapshot}
    BY <1>1 DEF JobRecords
  <1> QED
    BY <1>2 DEF Reverted, Tried, TypeInv, TypeOK

\* The parts of the type invariant, as the actions need them.
LinkTyped == /\ up \in BOOLEAN /\ task \in {"none", "sleeping", "asking"}
             /\ asking \in Seq(Fields) /\ toAvr \in Seq(Commands)
             /\ fromAvr \in Seq(Lines)
EnvTyped == /\ avr \in [Fields -> Values]
            /\ turns \in 0..MaxTurns /\ losses \in 0..MaxLosses
TasksTyped == /\ job \in Seq(JobRecords) /\ Len(job) <= MaxCommands
              /\ ready \in Seq(Jobs) /\ delayed \in Seq(Jobs)
              /\ QueuesKnown
ViewsTyped == /\ optimistic \in BOOLEAN
              /\ state \in States /\ clients \subseteq Clients /\ view \in [Clients -> States]

LEMMA TypeParts == TypeInv <=> LinkTyped /\ EnvTyped /\ TasksTyped /\ ViewsTyped
  BY DEF TypeInv, TypeOK, LinkTyped, EnvTyped, TasksTyped, ViewsTyped, Lines

LEMMA TypePartsNext == LinkTyped' /\ EnvTyped' /\ TasksTyped' /\ ViewsTyped' => TypeInv'
  BY DEF TypeInv, TypeOK, LinkTyped, EnvTyped, TasksTyped, ViewsTyped, Lines

\* There is a reconnect task, or there was one.
LEMMA ScheduleTyped ==
  ASSUME LinkTyped, ScheduleReconnect
  PROVE  task' \in {"none", "sleeping", "asking"}
  BY DEF LinkTyped, ScheduleReconnect

\* A connection that is lost leaves nothing under way.
LEMMA LostTyped ==
  ASSUME LinkTyped, EnvTyped, LoseConnection, UNCHANGED <<avr, turns>>
  PROVE  LinkTyped' /\ EnvTyped'
  <1>1. up' \in BOOLEAN /\ task' \in {"none", "sleeping", "asking"}
    BY ScheduleTyped DEF LoseConnection
  <1>2. asking' \in Seq(Fields) /\ toAvr' \in Seq(Commands) /\ fromAvr' \in Seq(Lines)
    BY EmptySeq DEF LoseConnection
  <1>3. EnvTyped'
    BY BoundsAssumption DEF EnvTyped, LoseConnection
  <1> QED
    BY <1>1, <1>2, <1>3 DEF LinkTyped, Lines

\* A part that is not changed stays typed.
LEMMA UnchangedTyped ==
  ASSUME TypeInv
  PROVE  /\ UNCHANGED linkVars => LinkTyped'
         /\ UNCHANGED envVars => EnvTyped'
         /\ UNCHANGED <<job, ready, delayed>> => TasksTyped'
         /\ UNCHANGED <<optimistic, state, clients, view>> => ViewsTyped'
  <1>1. LinkTyped /\ EnvTyped /\ TasksTyped /\ ViewsTyped
    BY TypeParts
  <1>2. UNCHANGED linkVars => LinkTyped'
    BY <1>1 DEF LinkTyped, linkVars
  <1>3. UNCHANGED envVars => EnvTyped'
    BY <1>1 DEF EnvTyped, envVars
  <1>4. UNCHANGED <<job, ready, delayed>> => TasksTyped'
    BY <1>1 DEF TasksTyped, QueuesKnown
  <1>5. UNCHANGED <<optimistic, state, clients, view>> => ViewsTyped'
    BY <1>1 DEF ViewsTyped
  <1> QED
    BY <1>2, <1>3, <1>4, <1>5

LEMMA InitTyped == Init => TypeInv
  <1> SUFFICES ASSUME Init PROVE TypeInv
    OBVIOUS
  <1>1. LinkTyped
    <2> DEFINE queries == [i \in DOMAIN AskAll |-> Ask(AskAll[i])]
    <2>1. queries \in Seq(Commands)
      <3>1. Len(AskAll) \in Nat /\ DOMAIN AskAll = 1..Len(AskAll) /\ AskAll \in [1..Len(AskAll) -> Fields]
        BY AskAllTyped, SeqIsFunction
      <3>2. queries \in [1..Len(AskAll) -> Commands]
        BY <3>1, CommandTyped
      <3> QED
        BY <3>1, <3>2, FunctionIsSeq
    <2>2. /\ up \in BOOLEAN /\ task \in {"none", "sleeping", "asking"}
          /\ asking = <<>> /\ fromAvr = <<>>
          /\ toAvr = queries \/ toAvr = <<>>
      BY DEF Init
    <2> HIDE DEF queries
    <2>3. toAvr \in Seq(Commands)
      BY <2>1, <2>2, EmptySeq, Zenon
    <2> QED
      BY <2>2, <2>3 DEF LinkTyped
  <1>2. EnvTyped
    BY AvrAssumption, BoundsAssumption DEF Init, EnvTyped
  <1>3. TasksTyped
    BY BoundsAssumption DEF Init, TasksTyped, QueuesKnown
  <1>4. ViewsTyped
    BY FieldsAssumption, AvrAssumption DEF Init, ViewsTyped, States
  <1> QED
    BY <1>1, <1>2, <1>3, <1>4, TypeParts

\* The tasks and the queue of ready ones.
LEMMA TasksStayTyped ==
  ASSUME TypeInv, NEW j \in Jobs, Begin(j) \/ SendSucceeds(j) \/ SendFails(j)
  PROVE  TasksTyped'
  <1>1. /\ j \in DOMAIN job /\ DOMAIN job' = DOMAIN job
        /\ job' \in Seq(JobRecords) /\ Len(job') = Len(job)
    BY BeginTask, SendTask
  <1>2. /\ ready \in Seq(Jobs) /\ delayed \in Seq(Jobs) /\ Len(job) <= MaxCommands
        /\ \A p \in DOMAIN ready : ready[p] \in DOMAIN job
        /\ \A p \in DOMAIN delayed : delayed[p] \in DOMAIN job
    BY DEF TypeInv, TypeOK, QueuesKnown
  <1>3. ready # <<>>
    BY DEF Begin, SendSucceeds, SendFails
  <1>4. CASE Begin(j)
    <2>1. ready' = Append(Tail(ready), j) /\ delayed' = Append(delayed, j)
      BY <1>4 DEF Begin
    <2>2. ready' \in Seq(Jobs) /\ \A p \in DOMAIN ready' : ready'[p] \in DOMAIN job
      BY <1>1, <1>2, <1>3, <2>1, PassBackElements, QueueMembers
    <2>3. delayed' \in Seq(Jobs) /\ \A p \in DOMAIN delayed' : delayed'[p] \in DOMAIN job
      BY <1>1, <1>2, <2>1, AppendElements, QueueMembers
    <2> QED
      BY <1>1, <1>2, <2>2, <2>3 DEF TasksTyped, QueuesKnown
  <1>5. CASE SendSucceeds(j) \/ SendFails(j)
    <2>1. ready' = Tail(ready) /\ delayed' = delayed
      BY <1>5 DEF SendSucceeds, SendFails
    <2>2. ready' \in Seq(Jobs) /\ \A p \in DOMAIN ready' : ready'[p] \in DOMAIN job
      BY <1>1, <1>2, <1>3, <2>1, TailElements, QueueMembers
    <2> QED
      BY <1>1, <1>2, <2>1, <2>2 DEF TasksTyped, QueuesKnown
  <1> QED
    BY <1>4, <1>5

LEMMA LateTasksStayTyped ==
  ASSUME TypeInv, NEW j \in Jobs, Conclude(j) \/ FollowUp(j)
  PROVE  TasksTyped'
  <1>1. DOMAIN job' = DOMAIN job /\ job' \in Seq(JobRecords) /\ Len(job') = Len(job)
    BY LateTask
  <1>2. /\ ready \in Seq(Jobs) /\ delayed \in Seq(Jobs) /\ Len(job) <= MaxCommands
        /\ \A p \in DOMAIN ready : ready[p] \in DOMAIN job
        /\ \A p \in DOMAIN delayed : delayed[p] \in DOMAIN job
    BY DEF TypeInv, TypeOK, QueuesKnown
  <1>3. ready' = ready
    BY DEF Conclude, FollowUp
  <1>4. delayed' \in Seq(Jobs) /\ \A p \in DOMAIN delayed' : delayed'[p] \in DOMAIN job
    <2>1. CASE Conclude(j)
      <3>1. delayed # <<>> /\ delayed' = Tail(delayed)
        BY <2>1 DEF Conclude
      <3>2. j \in Jobs /\ j \in DOMAIN job
        BY LateTask
      <3> QED
        BY <1>2, <3>1, <3>2, TailElements, QueueMembers
    <2>2. CASE FollowUp(j)
      BY <1>2, <2>2 DEF FollowUp
    <2> QED
      BY <2>1, <2>2
  <1> QED
    BY <1>1, <1>2, <1>3, <1>4 DEF TasksTyped, QueuesKnown

LEMMA NewJobTyped ==
  ASSUME TypeInv, NEW cmd \in Commands, NEW stage \in Stages, NEW http \in BOOLEAN,
         NewJob(cmd, stage, http)
  PROVE  TypeInv'
  <1>1. /\ job' \in Seq(JobRecords) /\ Len(job') <= MaxCommands
        /\ DOMAIN job' = DOMAIN job \cup {Len(job')} /\ Len(job') \in Jobs
        /\ ready' = Append(ready, Len(job'))
    BY NewTask
  <1>2. /\ ready \in Seq(Jobs) /\ delayed \in Seq(Jobs)
        /\ \A p \in DOMAIN ready : ready[p] \in DOMAIN job
        /\ \A p \in DOMAIN delayed : delayed[p] \in DOMAIN job
        /\ delayed' = delayed
    BY DEF TypeInv, TypeOK, QueuesKnown, NewJob
  <1>3. \A p \in DOMAIN ready : ready[p] \in DOMAIN job'
    BY <1>1, <1>2
  <1>4. Len(job') \in DOMAIN job'
    BY <1>1
  <1>5. ready' \in Seq(Jobs) /\ \A p \in DOMAIN ready' : ready'[p] \in DOMAIN job'
    <2> DEFINE new == Len(job')
               known == DOMAIN job'
    <2>1. new \in Jobs /\ new \in known /\ ready' = Append(ready, new)
      BY <1>1, <1>4
    <2>2. ready \in Seq(Jobs) /\ \A p \in DOMAIN ready : ready[p] \in known
      BY <1>2, <1>3
    <2> HIDE DEF new, known
    <2>3. ready' \in Seq(Jobs) /\ \A p \in DOMAIN ready' : ready'[p] \in known
      BY <2>1, <2>2, AppendElements, QueueMembers
    <2> QED
      BY <2>3 DEF known
  <1>6. TasksTyped'
    BY <1>1, <1>2, <1>5 DEF TasksTyped, QueuesKnown
  <1>7. UNCHANGED linkVars /\ UNCHANGED envVars /\ UNCHANGED <<optimistic, state, clients, view>>
    BY DEF NewJob
  <1> QED
    BY <1>6, <1>7, UnchangedTyped, TypePartsNext

\* A line of the AVR, or a dump, reaches clients as something typed.
LEMMA ConcludeTyped ==
  ASSUME TypeInv, NEW j \in Jobs, Conclude(j)
  PROVE  TypeInv'
  <1>1. TasksTyped' /\ j \in DOMAIN job
    BY LateTasksStayTyped, LateTask
  <1>2. state' = Reverted(j) /\ state' \in States
    BY <1>1, RevertedTyped DEF Conclude
  <1>3. view \in [Clients -> States] /\ optimistic \in BOOLEAN /\ clients \subseteq Clients
    BY DEF TypeInv, TypeOK
  <1>4. view' \in [Clients -> States]
    <2>1. CASE BroadcastState(state')
      BY <1>2, <1>3, <2>1, BroadcastTyped
    <2>2. CASE UNCHANGED view
      BY <1>3, <2>2
    <2> QED
      BY <2>1, <2>2 DEF Conclude, Announce
  <1>5. ViewsTyped'
    BY <1>2, <1>3, <1>4 DEF ViewsTyped, Conclude
  <1>6. UNCHANGED linkVars /\ UNCHANGED envVars
    BY DEF Conclude
  <1> QED
    BY <1>1, <1>5, <1>6, UnchangedTyped, TypePartsNext

LEMMA BeginTyped ==
  ASSUME TypeInv, NEW j \in Jobs, Begin(j)
  PROVE  TypeInv'
  <1>1. TasksTyped' /\ j \in DOMAIN job
    BY TasksStayTyped, BeginTask
  <1>2. job[j].cmd \in Commands
    <2>1. job[j] \in JobRecords
      BY <1>1 DEF TypeInv, TypeOK
    <2> QED
      BY <2>1 DEF JobRecords
  <1>3. state \in States
    BY DEF TypeInv, TypeOK
  <1>4. state' \in States
    BY <1>2, <1>3, AppliedTyped, BeginTask
  <1>5. ViewsTyped'
    BY <1>4 DEF ViewsTyped, Begin, TypeInv, TypeOK
  <1>6. UNCHANGED linkVars /\ UNCHANGED envVars
    BY DEF Begin
  <1> QED
    BY <1>1, <1>5, <1>6, UnchangedTyped, TypePartsNext

LEMMA SendTyped ==
  ASSUME TypeInv, NEW j \in Jobs, SendSucceeds(j) \/ SendFails(j)
  PROVE  TypeInv'
  <1>1. TasksTyped' /\ j \in DOMAIN job
    BY TasksStayTyped, SendTask
  <1>2. job[j].cmd \in Commands
    <2>1. job[j] \in JobRecords
      BY <1>1 DEF TypeInv, TypeOK
    <2> QED
      BY <2>1 DEF JobRecords
  <1>3. LinkTyped
    BY TypeParts
  <1>4. CASE SendSucceeds(j)
    <2>1. LinkTyped'
      <3>1. toAvr' \in Seq(Commands)
        BY <1>2, <1>3, <1>4, AppendElements DEF LinkTyped, SendSucceeds
      <3> QED
        BY <1>3, <1>4, <3>1 DEF LinkTyped, SendSucceeds
    <2>2. UNCHANGED envVars /\ UNCHANGED <<optimistic, state, clients, view>>
      BY <1>4 DEF SendSucceeds
    <2> QED
      BY <1>1, <2>1, <2>2, UnchangedTyped, TypePartsNext
  <1>5. CASE SendFails(j)
    <2>1. UNCHANGED <<optimistic, state, clients, view>>
      BY <1>5 DEF SendFails
    <2>2. LinkTyped' /\ EnvTyped'
      <3>1. CASE ScheduleReconnect /\ UNCHANGED <<up, asking, toAvr, fromAvr, losses>>
        <4>1. UNCHANGED envVars
          BY <1>5, <3>1 DEF SendFails, envVars
        <4>2. LinkTyped'
          BY <1>3, <3>1, ScheduleTyped DEF LinkTyped
        <4> QED
          BY <4>1, <4>2, UnchangedTyped
      <3>2. CASE LoseConnection
        <4>1. UNCHANGED <<avr, turns>>
          BY <1>5 DEF SendFails
        <4> QED
          BY <1>3, <3>2, <4>1, LostTyped, TypeParts
      <3> QED
        BY <1>5, <3>1, <3>2 DEF SendFails
    <2> QED
      BY <1>1, <2>1, <2>2, UnchangedTyped, TypePartsNext
  <1> QED
    BY <1>4, <1>5

LEMMA FollowUpTyped ==
  ASSUME TypeInv, NEW j \in Jobs, FollowUp(j)
  PROVE  TypeInv'
  <1>1. TasksTyped' /\ j \in DOMAIN job
    BY LateTasksStayTyped, LateTask
  <1>2. Ask(job[j].cmd.field) \in Commands
    <2>1. job[j] \in JobRecords
      BY <1>1 DEF TypeInv, TypeOK
    <2>2. job[j].cmd \in Commands
      BY <2>1 DEF JobRecords
    <2> QED
      BY <2>2, CommandTyped
  <1>3. LinkTyped
    BY TypeParts
  <1>4. toAvr' \in Seq(Commands)
    <2>1. toAvr \in Seq(Commands)
      BY <1>3 DEF LinkTyped
    <2>2. toAvr' = Append(toAvr, Ask(job[j].cmd.field)) \/ toAvr' = toAvr
      BY DEF FollowUp
    <2> QED
      BY <1>2, <2>1, <2>2, AppendElements
  <1>5. LinkTyped'
    <2>1. task' \in {"none", "sleeping", "asking"}
      BY <1>3, ScheduleTyped DEF LinkTyped, FollowUp
    <2> QED
      BY <1>3, <1>4, <2>1 DEF LinkTyped, FollowUp
  <1>6. UNCHANGED envVars /\ UNCHANGED <<optimistic, state, clients, view>>
    BY DEF FollowUp
  <1> QED
    BY <1>1, <1>5, <1>6, UnchangedTyped, TypePartsNext

LEMMA OnAvrResponseTyped ==
  ASSUME TypeInv, OnAvrResponse
  PROVE  TypeInv'
  <1>1. LinkTyped /\ ViewsTyped
    BY TypeParts
  <1>2. Head(fromAvr) \in Lines /\ fromAvr' \in Seq(Lines)
    BY <1>1 DEF LinkTyped, OnAvrResponse
  <1> DEFINE line == Head(fromAvr)
  <1>3. line.field \in Fields /\ line.value \in Values \cup {None}
    BY <1>2 DEF Lines
  <1>4. \A s \in States : [s EXCEPT ![line.field] = line.value] \in States
    BY <1>3 DEF States
  <1>5. /\ state' = [state EXCEPT ![line.field] = line.value]
        /\ view' = [c \in Clients |-> IF c \in clients
                                      THEN [view[c] EXCEPT ![line.field] = line.value]
                                      ELSE view[c]]
    BY DEF OnAvrResponse
  <1> HIDE DEF line
  <1>6. ViewsTyped'
    <2>1. state' \in States /\ view' \in [Clients -> States]
      BY <1>1, <1>4, <1>5 DEF ViewsTyped
    <2> QED
      BY <1>1, <2>1 DEF ViewsTyped, OnAvrResponse
  <1>7. LinkTyped'
    BY <1>1, <1>2 DEF LinkTyped, OnAvrResponse
  <1>8. UNCHANGED envVars /\ UNCHANGED <<job, ready, delayed>>
    BY DEF OnAvrResponse
  <1> QED
    BY <1>6, <1>7, <1>8, UnchangedTyped, TypePartsNext

LEMMA ClientsTyped ==
  ASSUME TypeInv, NEW c \in Clients, Join(c) \/ Leave(c)
  PROVE  TypeInv'
  <1>1. ViewsTyped
    BY TypeParts
  <1>2. [f \in Fields |-> None] \in States
    BY DEF States
  <1>3. Told([f \in Fields |-> None], state) \in States
    BY <1>1, <1>2, ToldTyped DEF ViewsTyped
  <1>4. CASE Join(c)
    BY <1>1, <1>3, <1>4, UnchangedTyped, TypePartsNext DEF ViewsTyped, Join
  <1>5. CASE Leave(c)
    BY <1>1, <1>2, <1>5, UnchangedTyped, TypePartsNext DEF ViewsTyped, Leave
  <1> QED
    BY <1>4, <1>5

LEMMA LinkActionsTyped ==
  ASSUME TypeInv, RequestState \/ Reconnected \/ Lose \/ Reconnect \/ DialFails
  PROVE  TypeInv'
  <1>1. LinkTyped /\ EnvTyped
    BY TypeParts
  <1>2. /\ UNCHANGED <<job, ready, delayed>>
        /\ UNCHANGED <<optimistic, state, clients, view>>
    BY DEF RequestState, Reconnected, Lose, Reconnect, DialFails, proxyVars
  <1>3. CASE RequestState
    <2>1. Ask(Head(asking)) \in Commands /\ asking' \in Seq(Fields)
      BY <1>1, <1>3, CommandTyped DEF LinkTyped, RequestState
    <2>2. toAvr' \in Seq(Commands)
      BY <1>1, <1>3, <2>1, AppendElements DEF LinkTyped, RequestState
    <2>3. LinkTyped'
      BY <1>1, <1>3, <2>1, <2>2 DEF LinkTyped, RequestState
    <2>4. UNCHANGED envVars
      BY <1>3 DEF RequestState
    <2> QED
      BY <1>2, <2>3, <2>4, UnchangedTyped, TypePartsNext
  <1>4. CASE Lose
    <2>1. LinkTyped' /\ EnvTyped'
      BY <1>1, <1>4, LostTyped DEF Lose
    <2> QED
      BY <1>2, <2>1, UnchangedTyped, TypePartsNext
  <1>5. CASE Reconnect
    <2>1. LinkTyped'
      BY <1>1, <1>5, AskAllTyped DEF LinkTyped, Reconnect
    <2>2. UNCHANGED envVars
      BY <1>5 DEF Reconnect
    <2> QED
      BY <1>2, <2>1, <2>2, UnchangedTyped, TypePartsNext
  <1>6. CASE Reconnected \/ DialFails
    <2>1. LinkTyped'
      BY <1>1, <1>6 DEF LinkTyped, Reconnected, DialFails
    <2>2. UNCHANGED envVars
      BY <1>6 DEF Reconnected, DialFails
    <2> QED
      BY <1>2, <2>1, <2>2, UnchangedTyped, TypePartsNext
  <1> QED
    BY <1>3, <1>4, <1>5, <1>6

\* The AVR reports what it is.
LEMMA AvrTyped ==
  ASSUME TypeInv, AvrExecutes \/ AvrIsTurned
  PROVE  TypeInv'
  <1>1. LinkTyped /\ EnvTyped
    BY TypeParts
  <1>2. UNCHANGED <<job, ready, delayed>> /\ UNCHANGED <<optimistic, state, clients, view>>
    BY DEF AvrExecutes, AvrIsTurned, proxyVars
  <1>3. CASE AvrExecutes
    <2> DEFINE cmd == Head(toAvr)
               report == [field |-> cmd.field, value |-> avr'[cmd.field]]
    <2>1. cmd \in Commands /\ toAvr' \in Seq(Commands)
      BY <1>1, <1>3 DEF LinkTyped, AvrExecutes
    <2>2. avr' \in [Fields -> Values]
      <3>1. cmd.kind \in {"set", "step", "ask"} /\ (cmd.kind = "set" => cmd.value \in Values)
        BY <2>1, CommandTyped
      <3>2. avr' \in CASE cmd.kind = "set"  -> {[avr EXCEPT ![cmd.field] = cmd.value]}
                       [] cmd.kind = "step" -> {[avr EXCEPT ![cmd.field] = w] : w \in Values}
                       [] cmd.kind = "ask"  -> {avr}
        BY <1>3 DEF AvrExecutes
      <3> HIDE DEF cmd
      <3>3. \E w \in Values : avr' = [avr EXCEPT ![cmd.field] = w] \/ avr' = avr
        <4>1. CASE cmd.kind = "set"
          BY <3>1, <3>2, <4>1
        <4>2. CASE cmd.kind = "step"
          BY <3>2, <4>2
        <4>3. CASE cmd.kind = "ask"
          <5>1. avr' = avr
            BY <3>2, <4>3
          <5>2. cmd.field \in Fields
            BY <2>1, CommandTyped
          <5> QED
            BY <1>1, <5>1, <5>2 DEF EnvTyped
        <4> QED
          BY <3>1, <4>1, <4>2, <4>3
      <3> QED
        BY <1>1, <3>3 DEF EnvTyped
    <2>3. report \in Lines
      BY <2>1, <2>2, CommandTyped DEF Lines
    <2>4. fromAvr' \in Seq(Lines)
      <3>1. fromAvr' = Append(fromAvr, report) \/ fromAvr' = fromAvr
        BY <1>3 DEF AvrExecutes
      <3> HIDE DEF report
      <3> QED
        BY <1>1, <2>3, <3>1, AppendElements DEF LinkTyped
    <2> HIDE DEF cmd, report
    <2>5. LinkTyped' /\ EnvTyped'
      BY <1>1, <1>3, <2>1, <2>2, <2>4 DEF LinkTyped, EnvTyped, AvrExecutes
    <2> QED
      BY <1>2, <2>5, UnchangedTyped, TypePartsNext
  <1>4. CASE AvrIsTurned
    <2>1. PICK h \in Fields, w \in Values :
            /\ avr' = [avr EXCEPT ![h] = w]
            /\ fromAvr' = IF up THEN Append(fromAvr, [field |-> h, value |-> w]) ELSE fromAvr
      BY <1>4 DEF AvrIsTurned
    <2>2. [field |-> h, value |-> w] \in Lines
      BY DEF Lines
    <2>3. fromAvr' \in Seq(Lines)
      BY <1>1, <2>1, <2>2, AppendElements DEF LinkTyped
    <2>4. LinkTyped'
      BY <1>1, <1>4, <2>3 DEF LinkTyped, AvrIsTurned
    <2>5. EnvTyped'
      BY <1>1, <1>4, <2>1, BoundsAssumption DEF EnvTyped, AvrIsTurned
    <2> QED
      BY <1>2, <2>4, <2>5, UnchangedTyped, TypePartsNext
  <1> QED
    BY <1>3, <1>4

LEMMA StepTyped == TypeInv /\ [Next]_vars => TypeInv'
  <1> SUFFICES ASSUME TypeInv, [Next]_vars PROVE TypeInv'
    OBVIOUS
  <1>1. ASSUME NEW c \in Clients, Join(c) \/ Leave(c) PROVE TypeInv'
    BY <1>1, ClientsTyped
  <1>2. ASSUME NEW cmd \in Input, Receive(cmd) PROVE TypeInv'
    BY <1>2, NewJobTyped, InputAssumption DEF Receive, Stages
  <1>3. ASSUME NEW cmd \in HttpInput, ReceiveHttp(cmd) PROVE TypeInv'
    BY <1>3, NewJobTyped, InputAssumption DEF ReceiveHttp, Stages
  <1>4. ASSUME NEW j \in Jobs, Begin(j) PROVE TypeInv'
    BY <1>4, BeginTyped
  <1>5. ASSUME NEW j \in Jobs, SendSucceeds(j) \/ SendFails(j) PROVE TypeInv'
    BY <1>5, SendTyped
  <1>6. ASSUME NEW j \in Jobs, Conclude(j) PROVE TypeInv'
    BY <1>6, ConcludeTyped
  <1>7. ASSUME NEW j \in Jobs, FollowUp(j) PROVE TypeInv'
    BY <1>7, FollowUpTyped
  <1>8. CASE OnAvrResponse
    BY <1>8, OnAvrResponseTyped
  <1>9. CASE RequestState \/ Reconnected \/ Lose \/ Reconnect \/ DialFails
    BY <1>9, LinkActionsTyped
  <1>10. CASE AvrExecutes \/ AvrIsTurned
    BY <1>10, AvrTyped
  <1>11. CASE UNCHANGED vars
    <2>1. /\ UNCHANGED linkVars /\ UNCHANGED envVars /\ UNCHANGED <<job, ready, delayed>>
          /\ UNCHANGED <<optimistic, state, clients, view>>
      BY <1>11 DEF vars, proxyVars
    <2> QED
      BY <2>1, UnchangedTyped, TypePartsNext
  <1> QED
    BY <1>1, <1>2, <1>3, <1>4, <1>5, <1>6, <1>7, <1>8, <1>9, <1>10, <1>11 DEF Next

\* Whatever happens, every variable keeps its type: no step of the machine
\* looks for a task that does not exist, or reverts to something that is not
\* a state.
THEOREM TypeCorrect == Spec => []TypeOK
  <1>1. TypeInv => TypeOK
    BY DEF TypeInv
  <1> QED
    BY <1>1, InitTyped, StepTyped, PTL DEF Spec

-----------------------------------------------------------------------------
(***************************************************************************)
(* The clients know what dumps tell of what the proxy knows.               *)
(***************************************************************************)

\* A command whose delay is not over has changed f.
Trying(f) == \E j \in DOMAIN job : job[j].snapshot # NoSnapshot /\ job[j].cmd.field = f

\* ViewsAgree, of the fields that dumps tell.
DumpsAgree ==
  \A c \in clients, h \in Fields \ Untold : state[h] \in {None, view[c][h]} \/ Trying(h)

\* Whoever is told a state knows it, but for what dumps leave out.
LEMMA ToldKnows ==
  ASSUME NEW w, NEW s, NEW h \in Fields \ Untold
  PROVE  s[h] \in {None, Told(w, s)[h]}
  BY DEF Told

\* As long as the state, the clients and what they know stay as they are, and
\* no command ends its delay, nothing is missed.
LEMMA NothingMissed ==
  ASSUME DumpsAgree, UNCHANGED <<state, clients, view>>,
         \A k \in DOMAIN job : /\ k \in DOMAIN job'
                               /\ job'[k].snapshot = job[k].snapshot
                               /\ job'[k].cmd = job[k].cmd
  PROVE  DumpsAgree'
  BY DEF DumpsAgree, Trying

LEMMA BeginAgrees ==
  ASSUME TypeInv, DumpsAgree, NEW j \in Jobs, Begin(j)
  PROVE  DumpsAgree'
  <1>1. /\ j \in DOMAIN job /\ DOMAIN job' = DOMAIN job
        /\ \A k \in DOMAIN job : k # j => job'[k] = job[k]
        /\ job'[j].cmd = job[j].cmd
    BY BeginTask
  <1>2. clients' = clients /\ view' = view
    BY DEF Begin
  <1>3. CASE state' = state /\ job'[j].snapshot = job[j].snapshot
    BY <1>1, <1>2, <1>3, NothingMissed
  <1>4. CASE state' \in Applied(job[j].cmd) /\ job'[j].snapshot = state
    <2>1. job[j].cmd \in Commands /\ state \in States
      <3>1. job[j] \in JobRecords /\ state \in States
        BY <1>1 DEF TypeInv, TypeOK
      <3> QED
        BY <3>1 DEF JobRecords
    <2>2. job[j].cmd.field \in Fields /\ \A h \in Fields : h # job[j].cmd.field => state'[h] = state[h]
      BY <1>4, <2>1, AppliedTyped, CommandTyped
    <2>3. job'[j].snapshot # NoSnapshot
      <3>1. DOMAIN state = Fields /\ DOMAIN NoSnapshot = {}
        BY <2>1 DEF States, NoSnapshot
      <3> QED
        BY <1>4, <2>2, <3>1
    <2>4. ASSUME NEW c \in clients', NEW h \in Fields \ Untold
          PROVE  \/ state'[h] \in {None, view'[c][h]}
                 \/ \E k \in DOMAIN job' : job'[k].snapshot # NoSnapshot /\ job'[k].cmd.field = h
      <3>1. CASE h = job[j].cmd.field
        BY <1>1, <2>3, <3>1
      <3>2. CASE h # job[j].cmd.field /\ state[h] \in {None, view[c][h]}
        BY <1>2, <2>2, <3>2
      <3>3. ASSUME h # job[j].cmd.field,
                   NEW k \in DOMAIN job, job[k].snapshot # NoSnapshot, job[k].cmd.field = h
            PROVE  job'[k].snapshot # NoSnapshot /\ job'[k].cmd.field = h
        BY <1>1, <3>3
      <3> QED
        BY <1>1, <1>2, <3>1, <3>2, <3>3 DEF DumpsAgree, Trying
    <2> QED
      BY <2>4 DEF DumpsAgree, Trying
  <1> QED
    BY <1>3, <1>4, BeginTask

\* The end of the delay tells everybody everything, what was reverted too.
LEMMA ConcludeAgrees ==
  ASSUME TypeInv, DumpsAgree, NEW j \in Jobs, Conclude(j)
  PROVE  DumpsAgree'
  <1>1. /\ clients' = clients /\ clients \subseteq Clients
        /\ state' = Reverted(j)
    BY DEF Conclude, TypeInv, TypeOK
  <1>2. CASE Tried(j)
    <2>1. BroadcastState(state')
      BY <1>2 DEF Conclude, Announce
    <2>2. \A c \in clients : view'[c] = Told(view[c], state')
      BY <1>1, <2>1 DEF BroadcastState
    <2>3. ASSUME NEW c \in clients', NEW h \in Fields \ Untold
          PROVE  state'[h] \in {None, view'[c][h]}
      BY <1>1, <2>2, ToldKnows
    <2> QED
      BY <2>3 DEF DumpsAgree, Trying
  <1>3. CASE ~Tried(j)
    <2>1. state' = state /\ view' = view
      BY <1>1, <1>3 DEF Reverted, Conclude, Announce
    <2>2. /\ DOMAIN job' = DOMAIN job /\ \A k \in DOMAIN job : k # j => job'[k] = job[k]
          /\ job'[j].cmd = job[j].cmd /\ job'[j].snapshot = NoSnapshot
      BY LateTask
    <2>3. job[j].snapshot = NoSnapshot
      BY <1>3 DEF Tried
    <2> QED
      BY <1>1, <2>1, <2>2, <2>3, NothingMissed
  <1> QED
    BY <1>2, <1>3

\* A line changes the same field for the proxy and for every client.
LEMMA OnAvrResponseAgrees ==
  ASSUME TypeInv, DumpsAgree, OnAvrResponse
  PROVE  DumpsAgree'
  <1> DEFINE line == Head(fromAvr)
  <1>1. /\ state \in States /\ view \in [Clients -> States] /\ clients \subseteq Clients
        /\ fromAvr \in Seq(Lines) /\ fromAvr # <<>>
    BY DEF TypeInv, TypeOK, OnAvrResponse, Lines
  <1>2. /\ state' = [state EXCEPT ![line.field] = line.value]
        /\ view' = [c \in Clients |-> IF c \in clients
                                      THEN [view[c] EXCEPT ![line.field] = line.value]
                                      ELSE view[c]]
        /\ clients' = clients /\ job' = job
    BY DEF OnAvrResponse
  <1> HIDE DEF line
  <1>3. ASSUME NEW c \in clients, NEW h \in Fields
        PROVE  \/ state'[h] = view'[c][h]
               \/ state'[h] = state[h] /\ view'[c][h] = view[c][h]
    <2>1. view'[c] = [view[c] EXCEPT ![line.field] = line.value]
      BY <1>1, <1>2
    <2>2. DOMAIN view[c] = Fields /\ DOMAIN state = Fields
      BY <1>1 DEF States
    <2>3. CASE h = line.field
      BY <1>2, <2>1, <2>2, <2>3
    <2>4. CASE h # line.field
      BY <1>2, <2>1, <2>2, <2>4
    <2> QED
      BY <2>3, <2>4
  <1> SUFFICES ASSUME NEW c \in clients, NEW h \in Fields \ Untold
               PROVE  \/ state'[h] \in {None, view'[c][h]}
                      \/ \E j \in DOMAIN job : job[j].snapshot # NoSnapshot /\ job[j].cmd.field = h
    BY <1>2 DEF DumpsAgree, Trying
  <1> QED
    BY <1>3 DEF DumpsAgree, Trying

\* A client that joins is told the state.
LEMMA ClientsAgree ==
  ASSUME TypeInv, DumpsAgree, NEW c \in Clients, Join(c) \/ Leave(c)
  PROVE  DumpsAgree'
  <1>1. view \in [Clients -> States] /\ state' = state /\ job' = job /\ clients \subseteq Clients
    BY DEF TypeInv, TypeOK, Join, Leave
  <1>2. \A d \in Clients : d # c => view'[d] = view[d]
    BY <1>1 DEF Join, Leave
  <1>3. CASE Join(c)
    <2>1. view'[c] = Told([f \in Fields |-> None], state) /\ clients' = clients \cup {c}
      BY <1>1, <1>3 DEF Join
    <2>2. ASSUME NEW h \in Fields \ Untold PROVE state'[h] \in {None, view'[c][h]}
      BY <1>1, <2>1, ToldKnows
    <2>3. ASSUME NEW d \in clients, d # c, NEW h \in Fields \ Untold
          PROVE  state'[h] \in {None, view'[d][h]} \/ Trying(h)'
      BY <1>1, <1>2, <2>3 DEF DumpsAgree, Trying
    <2> QED
      BY <2>1, <2>2, <2>3 DEF DumpsAgree, Trying
  <1>4. CASE Leave(c)
    <2>1. clients' = clients \ {c}
      BY <1>4 DEF Leave
    <2> QED
      BY <1>1, <1>2, <2>1 DEF DumpsAgree, Trying
  <1> QED
    BY <1>3, <1>4

LEMMA StepAgrees == TypeInv /\ DumpsAgree /\ [Next]_vars => DumpsAgree'
  <1> SUFFICES ASSUME TypeInv, DumpsAgree, [Next]_vars PROVE DumpsAgree'
    OBVIOUS
  <1>1. ASSUME NEW c \in Clients, Join(c) \/ Leave(c) PROVE DumpsAgree'
    BY <1>1, ClientsAgree
  <1>2. ASSUME NEW cmd \in Commands, NEW stage \in Stages, NEW http \in BOOLEAN,
               NewJob(cmd, stage, http)
        PROVE  DumpsAgree'
    <2>1. UNCHANGED <<state, clients, view>>
      BY <1>2 DEF NewJob
    <2> QED
      BY <1>2, <2>1, NewTask, NothingMissed
  <1>3. ASSUME NEW cmd \in Input, Receive(cmd) PROVE DumpsAgree'
    BY <1>2, <1>3, InputAssumption DEF Receive, Stages
  <1>4. ASSUME NEW cmd \in HttpInput, ReceiveHttp(cmd) PROVE DumpsAgree'
    BY <1>2, <1>4, InputAssumption DEF ReceiveHttp, Stages
  <1>5. ASSUME NEW j \in Jobs, Begin(j) PROVE DumpsAgree'
    BY <1>5, BeginAgrees
  <1>6. ASSUME NEW j \in Jobs, SendSucceeds(j) \/ SendFails(j) PROVE DumpsAgree'
    <2>1. UNCHANGED <<state, clients, view>>
      BY <1>6 DEF SendSucceeds, SendFails
    <2> QED
      BY <1>6, <2>1, SendTask, NothingMissed
  <1>7. ASSUME NEW j \in Jobs, Conclude(j) PROVE DumpsAgree'
    BY <1>7, ConcludeAgrees
  <1>8. ASSUME NEW j \in Jobs, FollowUp(j) PROVE DumpsAgree'
    <2>1. UNCHANGED <<state, clients, view>>
      BY <1>8 DEF FollowUp
    <2> QED
      BY <1>8, <2>1, LateTask, NothingMissed
  <1>9. CASE OnAvrResponse
    BY <1>9, OnAvrResponseAgrees
  <1>10. CASE \/ RequestState \/ Reconnected \/ Lose \/ Reconnect \/ DialFails
               \/ AvrExecutes \/ AvrIsTurned \/ UNCHANGED vars
    <2>1. UNCHANGED <<state, clients, view, job>>
      BY <1>10 DEF RequestState, Reconnected, Lose, Reconnect, DialFails, AvrExecutes, AvrIsTurned, vars, proxyVars
    <2> QED
      BY <2>1, NothingMissed
  <1> QED
    BY <1>1, <1>3, <1>4, <1>5, <1>6, <1>7, <1>8, <1>9, <1>10 DEF Next

-----------------------------------------------------------------------------
(***************************************************************************)
(* The commands of telnet clients are sent in the order they came.         *)
(***************************************************************************)

\* A command of a telnet client, and one that has not been sent, nor failed.
Client(j) == ~job[j].http
Unsent(j) == job[j].stage \in {"new", "sending"}

\* The handlers have begun in order.
BegunInOrder ==
  \A i, k \in DOMAIN job :
    i < k /\ Client(i) /\ Client(k) /\ job[k].stage # "new" => job[i].stage # "new"

\* The queue holds the tasks of the clients' commands that are not sent yet.
UnsentAreReady ==
  \A i \in DOMAIN job : Client(i) /\ Unsent(i) => \E p \in DOMAIN ready : ready[p] = i

ReadyAreUnsent ==
  \A p \in DOMAIN ready : Client(ready[p]) => Unsent(ready[p])

\* In the queue those that have not begun are in order, and so are those that
\* only have to be sent; between the two there is no order.
QueueInTurn ==
  \A p, q \in DOMAIN ready :
    /\ p < q
    /\ Client(ready[p]) /\ Client(ready[q])
    /\ job[ready[p]].stage = job[ready[q]].stage
    => ready[p] < ready[q]

OrderInv == /\ BegunInOrder /\ SentInOrder
            /\ UnsentAreReady /\ ReadyAreUnsent /\ QueueInTurn

\* The queue as a function, and its domain.
LEMMA QueueShape ==
  ASSUME TypeInv
  PROVE  /\ ready \in Seq(Jobs) /\ Len(ready) \in Nat /\ DOMAIN ready = 1..Len(ready)
         /\ \A p \in DOMAIN ready : ready[p] \in DOMAIN job
         /\ DOMAIN job = 1..Len(job) /\ Len(job) \in Nat
  <1>1. ready \in Seq(Jobs) /\ job \in Seq(JobRecords) /\ \A p \in DOMAIN ready : ready[p] \in DOMAIN job
    BY DEF TypeInv, TypeOK, QueuesKnown
  <1> QED
    BY <1>1, SeqIsFunction

\* Nobody is ahead of the first in the queue: every other unsent command of a
\* client in the same stage came later.
LEMMA FirstCameFirst ==
  ASSUME TypeInv, OrderInv, ready # <<>>,
         NEW i \in DOMAIN job, i # ready[1], Client(i), Client(ready[1]), Unsent(i),
         job[i].stage = job[ready[1]].stage
  PROVE  ready[1] < i
  <1>1. PICK p \in DOMAIN ready : ready[p] = i
    BY DEF OrderInv, UnsentAreReady
  <1>2. 1 \in DOMAIN ready /\ 1 < p
    BY <1>1, QueueShape, TailElements
  <1> QED
    BY <1>1, <1>2 DEF OrderInv, QueueInTurn

\* No client's command waits twice at a time.
LEMMA WaitsOnce ==
  ASSUME TypeInv, OrderInv, NEW p \in DOMAIN ready, NEW q \in DOMAIN ready,
         ready[p] = ready[q], Client(ready[p])
  PROVE  p = q
  <1>1. p \in Nat /\ q \in Nat /\ ready[p] \in Nat
    BY QueueShape
  <1>2. ~(p < q) /\ ~(q < p)
    BY <1>1 DEF OrderInv, QueueInTurn
  <1> QED
    BY <1>1, <1>2

LEMMA BeginInOrder ==
  ASSUME TypeInv, OrderInv, NEW j \in Jobs, Begin(j)
  PROVE  OrderInv'
  <1>1. /\ j \in DOMAIN job /\ DOMAIN job' = DOMAIN job
        /\ \A k \in DOMAIN job : k # j => job'[k] = job[k]
        /\ job'[j].stage = "sending" /\ job'[j].http = job[j].http
    BY BeginTask
  <1>2. /\ ready # <<>> /\ j = ready[1] /\ job[j].stage = "new"
        /\ ready' = Append(Tail(ready), j)
    BY QueueShape, TailElements DEF Begin
  <1>3. /\ DOMAIN ready = 1..Len(ready) /\ DOMAIN ready' = 1..Len(ready)
        /\ Len(ready) \in Nat /\ Len(ready) >= 1
        /\ \A p \in 1..Len(ready) - 1 : ready'[p] = ready[p + 1]
        /\ ready'[Len(ready)] = j
    <2>1. /\ ready' \in Seq(Jobs) /\ Len(ready') = Len(ready) /\ Len(ready) >= 1
          /\ \A p \in 1..Len(ready) - 1 : ready'[p] = ready[p + 1]
          /\ ready'[Len(ready)] = j
      BY <1>2, QueueShape, PassBackElements
    <2> QED
      BY <2>1, QueueShape, SeqIsFunction
  <1>4. \A k \in DOMAIN job : job'[k].http = job[k].http /\ k \in Nat
    BY <1>1, QueueShape
  <1>5. BegunInOrder'
    <2> SUFFICES ASSUME NEW i \in DOMAIN job, NEW k \in DOMAIN job, i < k, Client(i), Client(k),
                        job'[k].stage # "new", job'[i].stage = "new"
                 PROVE  FALSE
      BY <1>1, <1>4 DEF BegunInOrder, Client
    <2>1. i # j /\ job[i].stage = "new"
      BY <1>1
    <2>2. CASE k = j
      BY <1>2, <1>4, <2>1, <2>2, FirstCameFirst DEF Unsent
    <2>3. CASE k # j
      BY <1>1, <2>1, <2>3 DEF OrderInv, BegunInOrder
    <2> QED
      BY <2>2, <2>3
  <1>6. SentInOrder'
    BY <1>1, <1>2, <1>4 DEF OrderInv, SentInOrder
  <1>7. UnsentAreReady'
    <2> SUFFICES ASSUME NEW i \in DOMAIN job, Client(i), Unsent(i)'
                 PROVE  \E p \in DOMAIN ready' : ready'[p] = i
      BY <1>1, <1>4 DEF UnsentAreReady, Client
    <2>1. CASE i = j
      BY <1>3, <2>1
    <2>2. CASE i # j
      <3>1. Unsent(i)
        BY <1>1, <2>2 DEF Unsent
      <3>2. PICK p \in DOMAIN ready : ready[p] = i
        BY <3>1 DEF OrderInv, UnsentAreReady
      <3>3. p - 1 \in 1..Len(ready) - 1 /\ (p - 1) + 1 = p
        BY <1>2, <1>3, <2>2, <3>2
      <3>4. p - 1 \in DOMAIN ready' /\ ready'[p - 1] = i
        BY <1>3, <3>2, <3>3
      <3> QED
        BY <3>4
    <2> QED
      BY <2>1, <2>2
  <1>8. \A p \in 1..Len(ready) - 1 : /\ p + 1 \in DOMAIN ready
                                     /\ ready'[p] \in DOMAIN job
                                     /\ Client(ready'[p]) => ready'[p] # j
    <2> SUFFICES ASSUME NEW p \in 1..Len(ready) - 1
                 PROVE  /\ p + 1 \in DOMAIN ready /\ ready'[p] \in DOMAIN job
                        /\ Client(ready'[p]) => ready'[p] # j
      OBVIOUS
    <2>1. p + 1 \in DOMAIN ready /\ p + 1 # 1 /\ 1 \in DOMAIN ready
      BY <1>3
    <2> QED
      BY <1>2, <1>3, <2>1, QueueShape, WaitsOnce
  <1>9. ReadyAreUnsent'
    <2> SUFFICES ASSUME NEW p \in DOMAIN ready', Client(ready'[p])
                 PROVE  job'[ready'[p]].stage \in {"new", "sending"}
      BY <1>1, <1>3, <1>4, <1>8 DEF ReadyAreUnsent, Client, Unsent
    <2>1. CASE p = Len(ready)
      BY <1>1, <1>3, <2>1 DEF Unsent
    <2>2. CASE p \in 1..Len(ready) - 1
      BY <1>1, <1>3, <1>8, <2>2 DEF Unsent, OrderInv, ReadyAreUnsent
    <2> QED
      BY <1>3, <2>1, <2>2
  <1>10. QueueInTurn'
    <2> SUFFICES ASSUME NEW p \in DOMAIN ready', NEW q \in DOMAIN ready', p < q,
                        ~job'[ready'[p]].http, ~job'[ready'[q]].http,
                        job'[ready'[p]].stage = job'[ready'[q]].stage
                 PROVE  ready'[p] < ready'[q]
      BY DEF QueueInTurn, Client
    <2>1. p \in 1..Len(ready) - 1
      BY <1>3
    <2>2. Client(ready'[p]) /\ ready'[p] # j /\ job'[ready'[p]] = job[ready'[p]]
      BY <1>1, <1>4, <1>8, <2>1 DEF Client
    <2>3. CASE q = Len(ready)
      <3>1. ready'[q] = j /\ Client(j) /\ job[ready'[p]].stage = "sending"
        BY <1>1, <1>3, <2>2, <2>3 DEF Client
      <3>2. ~(j < ready'[p])
        BY <1>1, <1>2, <1>8, <2>1, <2>2, <3>1 DEF OrderInv, BegunInOrder
      <3> QED
        BY <1>1, <1>4, <1>8, <2>1, <2>2, <3>1, <3>2
    <2>4. CASE q \in 1..Len(ready) - 1
      <3>1. Client(ready'[q]) /\ ready'[q] # j /\ job'[ready'[q]] = job[ready'[q]]
        BY <1>1, <1>4, <1>8, <2>4 DEF Client
      <3>2. /\ p + 1 \in DOMAIN ready /\ q + 1 \in DOMAIN ready /\ p + 1 < q + 1
            /\ ready'[p] = ready[p + 1] /\ ready'[q] = ready[q + 1]
        BY <1>3, <1>8, <2>1, <2>4
      <3> QED
        BY <2>2, <3>1, <3>2 DEF OrderInv, QueueInTurn
    <2> QED
      BY <1>3, <2>3, <2>4
  <1> QED
    BY <1>5, <1>6, <1>7, <1>9, <1>10 DEF OrderInv

LEMMA SendInOrder ==
  ASSUME TypeInv, OrderInv, NEW j \in Jobs, SendSucceeds(j) \/ SendFails(j)
  PROVE  OrderInv'
  <1>1. /\ j \in DOMAIN job /\ DOMAIN job' = DOMAIN job
        /\ \A k \in DOMAIN job : k # j => job'[k] = job[k]
        /\ job'[j].stage \in {"sent", "done"} /\ job'[j].http = job[j].http
    BY SendTask
  <1>2. ready # <<>> /\ j = ready[1] /\ job[j].stage = "sending" /\ ready' = Tail(ready)
    BY QueueShape, TailElements DEF SendSucceeds, SendFails
  <1>3. /\ DOMAIN ready = 1..Len(ready) /\ DOMAIN ready' = 1..Len(ready) - 1
        /\ Len(ready) \in Nat /\ Len(ready) >= 1
        /\ \A p \in 1..Len(ready) - 1 : ready'[p] = ready[p + 1]
    <2>1. /\ ready' \in Seq(Jobs) /\ Len(ready') = Len(ready) - 1 /\ Len(ready) >= 1
          /\ \A p \in 1..Len(ready) - 1 : ready'[p] = ready[p + 1]
      BY <1>2, QueueShape, TailElements
    <2> QED
      BY <2>1, QueueShape, SeqIsFunction
  <1>4. \A k \in DOMAIN job : job'[k].http = job[k].http /\ k \in Nat
    BY <1>1, QueueShape
  <1>5. BegunInOrder'
    <2> SUFFICES ASSUME NEW i \in DOMAIN job, NEW k \in DOMAIN job, i < k, Client(i), Client(k),
                        job'[k].stage # "new", job'[i].stage = "new"
                 PROVE  FALSE
      BY <1>1, <1>4 DEF BegunInOrder, Client
    <2>1. job[i].stage = "new" /\ job[k].stage # "new"
      BY <1>1, <1>2
    <2> QED
      BY <2>1 DEF OrderInv, BegunInOrder
  <1>6. SentInOrder'
    <2> SUFFICES ASSUME NEW i \in DOMAIN job, NEW k \in DOMAIN job, i < k, Client(i), Client(k),
                        job'[k].stage \notin {"new", "sending"}, Unsent(i)'
                 PROVE  FALSE
      BY <1>1, <1>4 DEF SentInOrder, Client, Unsent
    <2>1. i # j /\ Unsent(i)
      BY <1>1 DEF Unsent
    <2>2. CASE k # j
      BY <1>1, <2>1, <2>2 DEF OrderInv, SentInOrder, Client, Unsent
    <2>3. CASE k = j
      <3>1. job[i].stage = "sending"
        BY <1>1, <1>2, <2>1, <2>3 DEF OrderInv, BegunInOrder, Unsent
      <3> QED
        BY <1>2, <1>4, <2>1, <2>3, <3>1, FirstCameFirst
    <2> QED
      BY <2>2, <2>3
  <1>7. UnsentAreReady'
    <2> SUFFICES ASSUME NEW i \in DOMAIN job, Client(i), Unsent(i)'
                 PROVE  \E p \in DOMAIN ready' : ready'[p] = i
      BY <1>1, <1>4 DEF UnsentAreReady, Client
    <2>1. i # j /\ Unsent(i)
      BY <1>1 DEF Unsent
    <2>2. PICK p \in DOMAIN ready : ready[p] = i
      BY <2>1 DEF OrderInv, UnsentAreReady
    <2>3. p - 1 \in 1..Len(ready) - 1 /\ (p - 1) + 1 = p
      BY <1>2, <1>3, <2>1, <2>2
    <2>4. p - 1 \in DOMAIN ready' /\ ready'[p - 1] = i
      BY <1>3, <2>2, <2>3
    <2> QED
      BY <2>4
  <1>8. \A p \in DOMAIN ready' : /\ p + 1 \in DOMAIN ready
                                 /\ ready'[p] \in DOMAIN job
                                 /\ Client(ready'[p]) => ready'[p] # j
    <2> SUFFICES ASSUME NEW p \in DOMAIN ready'
                 PROVE  /\ p + 1 \in DOMAIN ready /\ ready'[p] \in DOMAIN job
                        /\ Client(ready'[p]) => ready'[p] # j
      OBVIOUS
    <2>1. p + 1 \in DOMAIN ready /\ p + 1 # 1 /\ 1 \in DOMAIN ready
      BY <1>3
    <2> QED
      BY <1>2, <1>3, <2>1, QueueShape, WaitsOnce
  <1>9. ReadyAreUnsent'
    <2> SUFFICES ASSUME NEW p \in DOMAIN ready', Client(ready'[p])
                 PROVE  job'[ready'[p]].stage \in {"new", "sending"}
      BY <1>1, <1>4, <1>8 DEF ReadyAreUnsent, Client, Unsent
    <2> QED
      BY <1>1, <1>3, <1>8 DEF Unsent, OrderInv, ReadyAreUnsent
  <1>10. QueueInTurn'
    <2> SUFFICES ASSUME NEW p \in DOMAIN ready', NEW q \in DOMAIN ready', p < q,
                        ~job'[ready'[p]].http, ~job'[ready'[q]].http,
                        job'[ready'[p]].stage = job'[ready'[q]].stage
                 PROVE  ready'[p] < ready'[q]
      BY DEF QueueInTurn, Client
    <2>1. Client(ready'[p]) /\ job'[ready'[p]] = job[ready'[p]]
      BY <1>1, <1>4, <1>8 DEF Client
    <2>2. Client(ready'[q]) /\ job'[ready'[q]] = job[ready'[q]]
      BY <1>1, <1>4, <1>8 DEF Client
    <2>3. /\ p + 1 \in DOMAIN ready /\ q + 1 \in DOMAIN ready /\ p + 1 < q + 1
          /\ ready'[p] = ready[p + 1] /\ ready'[q] = ready[q + 1]
      BY <1>3, <1>8
    <2> QED
      BY <2>1, <2>2, <2>3 DEF OrderInv, QueueInTurn
  <1> QED
    BY <1>5, <1>6, <1>7, <1>9, <1>10 DEF OrderInv

\* A task that has been sent moves on without touching the queue.
LEMMA LateInOrder ==
  ASSUME TypeInv, OrderInv, NEW j \in Jobs, Conclude(j) \/ FollowUp(j)
  PROVE  OrderInv'
  <1>1. /\ j \in DOMAIN job /\ DOMAIN job' = DOMAIN job
        /\ \A k \in DOMAIN job : k # j => job'[k] = job[k]
        /\ job[j].stage \in {"sent", "followup"} /\ job'[j].stage \in {"followup", "done"}
        /\ job'[j].http = job[j].http
    BY LateTask
  <1>2. ready' = ready
    BY DEF Conclude, FollowUp
  <1>3. \A k \in DOMAIN job : job'[k].http = job[k].http
    BY <1>1
  <1>4. \A k \in DOMAIN job : /\ job'[k].stage = "new" <=> job[k].stage = "new"
                              /\ job'[k].stage = "sending" <=> job[k].stage = "sending"
    BY <1>1
  <1>5. \A p \in DOMAIN ready : ready[p] \in DOMAIN job
    BY QueueShape
  <1>6. BegunInOrder' /\ SentInOrder'
    BY <1>1, <1>3, <1>4 DEF OrderInv, BegunInOrder, SentInOrder, Client
  <1>7. UnsentAreReady' /\ ReadyAreUnsent'
    BY <1>1, <1>2, <1>3, <1>4, <1>5 DEF OrderInv, UnsentAreReady, ReadyAreUnsent, Client, Unsent
  <1>8. QueueInTurn'
    BY <1>1, <1>2, <1>3, <1>4, <1>5 DEF OrderInv, QueueInTurn, ReadyAreUnsent, Client, Unsent
  <1> QED
    BY <1>6, <1>7, <1>8 DEF OrderInv

\* A new command comes after all others, in the queue as well.
LEMMA NewJobInOrder ==
  ASSUME TypeInv, OrderInv, NEW cmd \in Commands, NEW stage \in Stages, NEW http \in BOOLEAN,
         NewJob(cmd, stage, http), stage = IF http THEN "sending" ELSE "new"
  PROVE  OrderInv'
  <1> DEFINE new == Len(job')
  <1>1. /\ DOMAIN job' = DOMAIN job \cup {new} /\ new \notin DOMAIN job /\ new \in Jobs
        /\ \A k \in DOMAIN job : job'[k] = job[k] /\ k < new
        /\ job'[new].stage = stage /\ job'[new].http = http
        /\ ready' = Append(ready, new)
    BY NewTask
  <1> HIDE DEF new
  <1>2. /\ DOMAIN ready' = 1..Len(ready) + 1
        /\ \A p \in 1..Len(ready) : ready'[p] = ready[p]
        /\ ready'[Len(ready) + 1] = new
    <2>1. /\ ready' \in Seq(Jobs) /\ Len(ready') = Len(ready) + 1
          /\ \A p \in 1..Len(ready) : ready'[p] = ready[p]
          /\ ready'[Len(ready) + 1] = new
      BY <1>1, QueueShape, AppendElements
    <2> QED
      BY <2>1, SeqIsFunction
  <1>3. /\ DOMAIN ready = 1..Len(ready) /\ Len(ready) \in Nat
        /\ \A p \in DOMAIN ready : ready[p] \in DOMAIN job
        /\ \A k \in DOMAIN job' : k \in Nat
    BY <1>1, QueueShape DEF Jobs
  <1>4. ~http => job'[new].stage = "new"
    BY <1>1
  <1>5. BegunInOrder' /\ SentInOrder'
    <2>1. \A i, k \in DOMAIN job' : i < k => i \in DOMAIN job
      BY <1>1, <1>3
    <2> QED
      BY <1>1, <1>4, <2>1 DEF OrderInv, BegunInOrder, SentInOrder, Client
  <1>6. UnsentAreReady'
    <2> SUFFICES ASSUME NEW i \in DOMAIN job', Client(i)', Unsent(i)'
                 PROVE  \E p \in DOMAIN ready' : ready'[p] = i
      BY DEF UnsentAreReady, Client, Unsent
    <2>1. CASE i = new
      <3>1. Len(ready) + 1 \in DOMAIN ready'
        BY <1>2, <1>3
      <3> QED
        BY <1>2, <2>1, <3>1
    <2>2. CASE i \in DOMAIN job
      <3>1. Client(i) /\ Unsent(i)
        BY <1>1, <2>2 DEF Client, Unsent
      <3>2. PICK p \in DOMAIN ready : ready[p] = i
        BY <2>2, <3>1 DEF OrderInv, UnsentAreReady
      <3> QED
        BY <1>2, <1>3, <3>2
    <2> QED
      BY <1>1, <2>1, <2>2
  <1>7. ReadyAreUnsent'
    <2> SUFFICES ASSUME NEW p \in DOMAIN ready', ~job'[ready'[p]].http
                 PROVE  job'[ready'[p]].stage \in {"new", "sending"}
      BY DEF ReadyAreUnsent, Client, Unsent
    <2>1. CASE p = Len(ready) + 1
      BY <1>1, <1>2, <1>4, <2>1 DEF Unsent, Client
    <2>2. CASE p \in DOMAIN ready
      BY <1>1, <1>2, <1>3, <2>2 DEF OrderInv, ReadyAreUnsent, Unsent, Client
    <2> QED
      BY <1>2, <1>3, <2>1, <2>2
  <1>8. QueueInTurn'
    <2> SUFFICES ASSUME NEW p \in DOMAIN ready', NEW q \in DOMAIN ready', p < q,
                        ~job'[ready'[p]].http, ~job'[ready'[q]].http,
                        job'[ready'[p]].stage = job'[ready'[q]].stage
                 PROVE  ready'[p] < ready'[q]
      BY DEF QueueInTurn, Client
    <2>1. p \in DOMAIN ready /\ ready'[p] = ready[p]
      BY <1>2, <1>3
    <2>2. CASE q = Len(ready) + 1
      BY <1>1, <1>2, <1>3, <2>1, <2>2
    <2>3. CASE q \in DOMAIN ready
      BY <1>1, <1>2, <1>3, <2>1, <2>3 DEF OrderInv, QueueInTurn, Client
    <2> QED
      BY <1>2, <1>3, <2>2, <2>3
  <1> QED
    BY <1>5, <1>6, <1>7, <1>8 DEF OrderInv

LEMMA StepInOrder == TypeInv /\ OrderInv /\ [Next]_vars => OrderInv'
  <1> SUFFICES ASSUME TypeInv, OrderInv, [Next]_vars PROVE OrderInv'
    OBVIOUS
  <1>1. ASSUME UNCHANGED <<job, ready>> PROVE OrderInv'
    BY <1>1 DEF OrderInv, BegunInOrder, SentInOrder, UnsentAreReady, ReadyAreUnsent, QueueInTurn,
                Client, Unsent
  <1>2. ASSUME NEW c \in Clients, Join(c) \/ Leave(c) PROVE OrderInv'
    BY <1>1, <1>2 DEF Join, Leave
  <1>3. ASSUME NEW cmd \in Input, Receive(cmd) PROVE OrderInv'
    BY <1>3, NewJobInOrder, InputAssumption DEF Receive, Stages
  <1>4. ASSUME NEW cmd \in HttpInput, ReceiveHttp(cmd) PROVE OrderInv'
    BY <1>4, NewJobInOrder, InputAssumption DEF ReceiveHttp, Stages
  <1>5. ASSUME NEW j \in Jobs, Begin(j) PROVE OrderInv'
    BY <1>5, BeginInOrder
  <1>6. ASSUME NEW j \in Jobs, SendSucceeds(j) \/ SendFails(j) PROVE OrderInv'
    BY <1>6, SendInOrder
  <1>7. ASSUME NEW j \in Jobs, Conclude(j) \/ FollowUp(j) PROVE OrderInv'
    BY <1>7, LateInOrder
  <1>8. CASE OnAvrResponse
    BY <1>1, <1>8 DEF OnAvrResponse
  <1>9. CASE \/ RequestState \/ Reconnected \/ Lose \/ Reconnect \/ DialFails
             \/ AvrExecutes \/ AvrIsTurned \/ UNCHANGED vars
    BY <1>1, <1>9 DEF RequestState, Reconnected, Lose, Reconnect, DialFails, AvrExecutes,
                      AvrIsTurned, vars, proxyVars
  <1> QED
    BY <1>2, <1>3, <1>4, <1>5, <1>6, <1>7, <1>8, <1>9 DEF Next

\* The commands of telnet clients are sent in the order they came, for any
\* number of them, although each runs in two tasks and the commands of the
\* HTTP API take their turns in between.
THEOREM CommandsInOrder == Spec => []SentInOrder
  <1>1. Init => OrderInv
    BY DEF Init, OrderInv, BegunInOrder, SentInOrder, UnsentAreReady, ReadyAreUnsent, QueueInTurn
  <1>2. OrderInv => SentInOrder
    BY DEF OrderInv
  <1> QED
    BY <1>1, <1>2, InitTyped, StepTyped, StepInOrder, PTL DEF Spec

-----------------------------------------------------------------------------
(***************************************************************************)
(* The proxy comes to know the AVR as it is.                               *)
(***************************************************************************)

\* A command that is on its way to the AVR, or will be.
Coming(c) == \/ \E i \in DOMAIN toAvr : toAvr[i] = c
             \/ \E j \in DOMAIN job : job[j].stage = "sending" /\ job[j].cmd = c

\* A step of a client has been sent, the query that follows it has not.
ToAsk(h) ==
  \E j \in DOMAIN job : /\ job[j].cmd.kind = "step" /\ job[j].cmd.field = h
                        /\ job[j].stage = "followup" \/ (job[j].stage = "sent" /\ job[j].success)

\* After the command the proxy knows h, if it believes it to be w by then: a
\* change is reported, a query is answered, a step is followed by a query.
Settles(c, h, w) == c.field = h /\ (c.kind = "set" => c.value = w)

\* If w is not the value of h at the AVR, that will come out.
Corrected(h, w) ==
  \/ \E i \in DOMAIN asking : asking[i] = h
  \/ \E c \in Commands : Coming(c) /\ Settles(c, h, w)
  \/ ToAsk(h)
  \/ SteppedOverHttp(h)

\* The proxy believes h to be w when it has read all that is under way.
LastHeard(h, w) ==
  \/ \E i \in DOMAIN fromAvr : /\ fromAvr[i].field = h /\ fromAvr[i].value = w
                               /\ \A k \in DOMAIN fromAvr : k > i => fromAvr[k].field # h
  \/ (\A i \in DOMAIN fromAvr : fromAvr[i].field # h) /\ state[h] = w

\* What is inductive.  As long as the connection is up, no belief is wrong
\* and left to be so.
HeardOrCorrected ==
  up => \A h \in Fields, w \in Values : LastHeard(h, w) => w = avr[h] \/ Corrected(h, w)

\* A step is on its way ahead of the query that follows it.
StepsAreAsked ==
  \A i \in DOMAIN toAvr, h \in Fields :
    toAvr[i].kind = "step" /\ toAvr[i].field = h =>
      \/ \E k \in DOMAIN toAvr : k > i /\ toAvr[k].kind = "ask" /\ toAvr[k].field = h
      \/ ToAsk(h)
      \/ SteppedOverHttp(h)

\* Nothing survives a connection but the failure of what was sent on it: so
\* there is no revert once the next one is up.
DownIsEmpty == ~up => asking = <<>> /\ toAvr = <<>> /\ fromAvr = <<>>
RevertsAreDown == \A j \in DOMAIN job : job[j].had /\ job[j].stage = "sent" /\ ~job[j].success => ~up

SyncInv == HeardOrCorrected /\ StepsAreAsked /\ DownIsEmpty /\ RevertsAreDown

\* Without a connection there is nothing to show.
LEMMA DownInSync ==
  ASSUME up' = FALSE, asking' = <<>>, toAvr' = <<>>, fromAvr' = <<>>
  PROVE  SyncInv'
  <1>1. DOMAIN toAvr' = {}
    OBVIOUS
  <1>2. StepsAreAsked'
    BY <1>1 DEF StepsAreAsked
  <1> QED
    BY <1>2 DEF SyncInv, HeardOrCorrected, DownIsEmpty, RevertsAreDown

\* A step that takes nothing from what is under way, and turns no value.
LEMMA MoreIsComing ==
  ASSUME SyncInv, up, UNCHANGED avr,
         \A h \in Fields, w \in Values : LastHeard(h, w)' => LastHeard(h, w) \/ Corrected(h, w)',
         \A h \in Fields : (\E i \in DOMAIN asking : asking[i] = h)
                             => (\E i \in DOMAIN asking' : asking'[i] = h) \/ Coming(Ask(h))',
         \A c \in Commands : Coming(c) => Coming(c)',
         \A h \in Fields : ToAsk(h) => ToAsk(h)' \/ Coming(Ask(h))',
         \A h \in Fields : SteppedOverHttp(h) => SteppedOverHttp(h)'
  PROVE  HeardOrCorrected'
  <1> SUFFICES ASSUME NEW h \in Fields, NEW w \in Values, LastHeard(h, w)', w # avr[h]
               PROVE  Corrected(h, w)'
    BY DEF HeardOrCorrected
  <1>1. Ask(h) \in Commands /\ Settles(Ask(h), h, w)
    BY CommandTyped DEF Ask, Settles
  <1>2. Corrected(h, w) \/ Corrected(h, w)'
    BY DEF SyncInv, HeardOrCorrected
  <1>3. ASSUME NEW c \in Commands, Coming(c), Settles(c, h, w)
        PROVE  \E d \in Commands : Coming(d)' /\ Settles(d, h, w)
    BY <1>3
  <1>4. Coming(Ask(h))' => Corrected(h, w)'
    BY <1>1 DEF Corrected
  <1>5. ASSUME Corrected(h, w) PROVE Corrected(h, w)'
    <2>1. CASE \E i \in DOMAIN asking : asking[i] = h
      BY <1>4, <2>1 DEF Corrected
    <2>2. CASE \E c \in Commands : Coming(c) /\ Settles(c, h, w)
      BY <2>2, <1>3 DEF Corrected
    <2>3. CASE ToAsk(h)
      BY <1>4, <2>3 DEF Corrected
    <2>4. CASE SteppedOverHttp(h)
      BY <2>4 DEF Corrected
    <2> QED
      BY <1>5, <2>1, <2>2, <2>3, <2>4 DEF Corrected
  <1> QED
    BY <1>2, <1>5

\* Each command that is sent after a step is after it.
LEMMA StepsStayAsked ==
  ASSUME SyncInv,
         \A i \in DOMAIN toAvr : i \in DOMAIN toAvr' /\ toAvr'[i] = toAvr[i],
         \A i \in DOMAIN toAvr, k \in DOMAIN toAvr' : k \notin DOMAIN toAvr => k > i,
         \A h \in Fields : ToAsk(h) => \/ ToAsk(h)'
                                       \/ \E k \in DOMAIN toAvr' : /\ k \notin DOMAIN toAvr
                                                                   /\ toAvr'[k] = Ask(h),
         \A h \in Fields : SteppedOverHttp(h) => SteppedOverHttp(h)',
         \A h \in Fields, k \in DOMAIN toAvr' :
           k \notin DOMAIN toAvr /\ toAvr'[k].kind = "step" /\ toAvr'[k].field = h
             => ToAsk(h)' \/ SteppedOverHttp(h)'
  PROVE  StepsAreAsked'
  <1> SUFFICES ASSUME NEW i \in DOMAIN toAvr', NEW h \in Fields,
                      toAvr'[i].kind = "step", toAvr'[i].field = h
               PROVE  \/ \E k \in DOMAIN toAvr' : k > i /\ toAvr'[k].kind = "ask" /\ toAvr'[k].field = h
                      \/ ToAsk(h)'
                      \/ SteppedOverHttp(h)'
    BY DEF StepsAreAsked
  <1>1. CASE i \notin DOMAIN toAvr
    BY <1>1
  <1>2. CASE i \in DOMAIN toAvr
    <2>1. \/ \E k \in DOMAIN toAvr : k > i /\ toAvr[k].kind = "ask" /\ toAvr[k].field = h
          \/ ToAsk(h)
          \/ SteppedOverHttp(h)
      BY <1>2 DEF SyncInv, StepsAreAsked
    <2>2. CASE \E k \in DOMAIN toAvr : k > i /\ toAvr[k].kind = "ask" /\ toAvr[k].field = h
      BY <2>2
    <2>3. CASE ToAsk(h)
      <3>1. Ask(h).kind = "ask" /\ Ask(h).field = h
        BY DEF Ask
      <3> QED
        BY <1>2, <2>3, <3>1
    <2> QED
      BY <2>1, <2>2, <2>3
  <1> QED
    BY <1>1, <1>2

\* How tasks move on, as far as commands and queries to come are concerned.
LEMMA TaskSettles ==
  ASSUME TypeInv, NEW j \in Jobs,
         Begin(j) \/ SendSucceeds(j) \/ Conclude(j) \/ FollowUp(j)
  PROVE  /\ \A h \in Fields : SteppedOverHttp(h) => SteppedOverHttp(h)'
         /\ j \in DOMAIN job /\ job[j].cmd \in Commands
         /\ \A h \in Fields : ToAsk(h) => ToAsk(h)' \/ (FollowUp(j) /\ job[j].cmd.field = h)
         /\ \A k \in DOMAIN job : job[k].stage = "sending" /\ ~SendSucceeds(j)
                                    => job'[k].stage = "sending" /\ job'[k].cmd = job[k].cmd
         /\ \A k \in DOMAIN job : job[k].stage = "sending" /\ SendSucceeds(j) /\ k # j
                                    => job'[k].stage = "sending" /\ job'[k].cmd = job[k].cmd
         /\ DOMAIN job' = DOMAIN job
  <1>1. /\ j \in DOMAIN job /\ DOMAIN job' = DOMAIN job
        /\ \A k \in DOMAIN job : k # j => job'[k] = job[k]
        /\ job'[j].cmd = job[j].cmd /\ job'[j].http = job[j].http
    BY BeginTask, SendTask, LateTask
  <1>2. job[j].cmd \in Commands
    <2>1. job[j] \in JobRecords
      BY <1>1 DEF TypeInv, TypeOK
    <2> QED
      BY <2>1 DEF JobRecords
  <1>3. \A h \in Fields : SteppedOverHttp(h) => SteppedOverHttp(h)'
    BY <1>1 DEF SteppedOverHttp
  <1>4. Begin(j) => job[j].stage = "new" /\ job'[j].stage = "sending"
    BY BeginTask DEF Begin
  <1>5. SendSucceeds(j) => job[j].stage = "sending"
    BY SendTask
  <1>6. Conclude(j) \/ FollowUp(j) => job[j].stage \in {"sent", "followup"}
    BY LateTask
  <1>7. Conclude(j) => job[j].stage = "sent"
    BY DEF Conclude
  <1>8. ASSUME NEW h \in Fields, ToAsk(h), ~(FollowUp(j) /\ job[j].cmd.field = h)
        PROVE  ToAsk(h)'
    <2>1. PICK k \in DOMAIN job :
            /\ job[k].cmd.kind = "step" /\ job[k].cmd.field = h
            /\ job[k].stage = "followup" \/ (job[k].stage = "sent" /\ job[k].success)
      BY <1>8 DEF ToAsk
    <2>2. CASE k # j
      BY <1>1, <2>1, <2>2 DEF ToAsk
    <2>3. CASE k = j
      <3>1. Conclude(j)
        BY <1>4, <1>5, <1>8, <2>1, <2>3
      <3>2. job'[j].stage = "followup"
        BY <1>7, <2>1, <2>3, <3>1, LateTask
      <3> QED
        BY <1>1, <2>1, <2>3, <3>2 DEF ToAsk
    <2> QED
      BY <2>2, <2>3
  <1> QED
    BY <1>1, <1>2, <1>3, <1>4, <1>5, <1>6, <1>8

\* Neither a task nor a client changes what is under way from the AVR.
LEMMA NothingHeard ==
  ASSUME UNCHANGED <<state, fromAvr>>
  PROVE  \A h, w : LastHeard(h, w)' => LastHeard(h, w)
  BY DEF LastHeard

\* An optimistic change is a belief that its command settles.
LEMMA BeginInSync ==
  ASSUME TypeInv, SyncInv, up, NEW j \in Jobs, Begin(j)
  PROVE  SyncInv'
  <1>1. UNCHANGED <<up, asking, toAvr, fromAvr, avr>>
    BY DEF Begin, linkVars, envVars
  <1>2. /\ j \in DOMAIN job /\ DOMAIN job' = DOMAIN job
        /\ \A k \in DOMAIN job : k # j => job'[k] = job[k]
        /\ job'[j].stage = "sending" /\ job'[j].cmd = job[j].cmd
        /\ state' = state \/ state' \in Applied(job[j].cmd)
    BY BeginTask
  <1>3. /\ \A h \in Fields : SteppedOverHttp(h) => SteppedOverHttp(h)'
        /\ job[j].cmd \in Commands
        /\ \A h \in Fields : ToAsk(h) => ToAsk(h)' \/ (FollowUp(j) /\ job[j].cmd.field = h)
        /\ \A k \in DOMAIN job : job[k].stage = "sending" /\ ~SendSucceeds(j)
                                   => job'[k].stage = "sending" /\ job'[k].cmd = job[k].cmd
    BY TaskSettles
  <1>4. ~FollowUp(j) /\ ~SendSucceeds(j)
    BY DEF Begin, FollowUp, SendSucceeds
  <1>5. \A c \in Commands : Coming(c) => Coming(c)'
    BY <1>1, <1>2, <1>3, <1>4 DEF Coming
  <1>6. PICK cmd \in Commands : cmd = job[j].cmd
    BY <1>3
  <1>7. Coming(cmd)'
    BY <1>2, <1>6 DEF Coming
  <1>8. ASSUME NEW h \in Fields, NEW w \in Values, LastHeard(h, w)'
        PROVE  LastHeard(h, w) \/ Corrected(h, w)'
    <2>1. CASE state'[h] = state[h]
      BY <1>1, <1>8, <2>1 DEF LastHeard
    <2>2. CASE state'[h] # state[h] /\ state' \in Applied(job[j].cmd)
      <3>1. state \in States
        BY DEF TypeInv, TypeOK
      <3>2. PICK x \in IF cmd.kind = "step" THEN Values ELSE {cmd.value} :
              state' = [state EXCEPT ![cmd.field] = x]
        BY <1>6, <2>2 DEF Applied
      <3>3. cmd.field = h /\ state'[h] = x
        BY <2>2, <3>1, <3>2 DEF States
      <3>4. CASE \A i \in DOMAIN fromAvr : fromAvr[i].field # h
        <4>1. x = w
          BY <1>1, <1>8, <3>3, <3>4 DEF LastHeard
        <4>2. cmd.kind = "set" => cmd.value = w
          BY <3>2, <4>1
        <4>3. Settles(cmd, h, w)
          BY <3>3, <4>2 DEF Settles
        <4> QED
          BY <1>7, <4>3 DEF Corrected
      <3>5. CASE ~\A i \in DOMAIN fromAvr : fromAvr[i].field # h
        BY <1>1, <1>8, <3>5 DEF LastHeard
      <3> QED
        BY <3>4, <3>5
    <2> QED
      BY <1>2, <2>1, <2>2
  <1>9. HeardOrCorrected'
    BY <1>1, <1>3, <1>4, <1>5, <1>8, MoreIsComing
  <1>10. StepsAreAsked'
    BY <1>1, <1>3, <1>4, StepsStayAsked
  <1>11. RevertsAreDown'
    BY <1>1, <1>2 DEF SyncInv, RevertsAreDown
  <1> QED
    BY <1>1, <1>9, <1>10, <1>11 DEF SyncInv, DownIsEmpty

\* A command that is sent is on its way, and a step of a client asked about.
LEMMA SendInSync ==
  ASSUME TypeInv, SyncInv, up, NEW j \in Jobs, SendSucceeds(j)
  PROVE  SyncInv'
  <1>1. UNCHANGED <<up, asking, fromAvr, avr, state>> /\ toAvr' = Append(toAvr, job[j].cmd)
    BY DEF SendSucceeds, envVars
  <1>2. /\ j \in DOMAIN job /\ DOMAIN job' = DOMAIN job
        /\ \A k \in DOMAIN job : k # j => job'[k] = job[k]
        /\ job'[j].cmd = job[j].cmd /\ job'[j].http = job[j].http
        /\ (~job[j].http => job'[j].stage = "sent")
        /\ job'[j].success = TRUE
    BY SendTask
  <1>3. /\ \A h \in Fields : SteppedOverHttp(h) => SteppedOverHttp(h)'
        /\ job[j].cmd \in Commands
        /\ \A h \in Fields : ToAsk(h) => ToAsk(h)' \/ (FollowUp(j) /\ job[j].cmd.field = h)
    BY TaskSettles
  <1>4. ~FollowUp(j)
    BY SendTask DEF FollowUp
  <1>5. /\ Len(toAvr) \in Nat /\ DOMAIN toAvr = 1..Len(toAvr)
        /\ DOMAIN toAvr' = 1..Len(toAvr) + 1
        /\ \A p \in 1..Len(toAvr) : toAvr'[p] = toAvr[p]
        /\ toAvr'[Len(toAvr) + 1] = job[j].cmd
    <2>1. toAvr \in Seq(Commands)
      BY DEF TypeInv, TypeOK
    <2>2. toAvr' \in Seq(Commands) /\ Len(toAvr') = Len(toAvr) + 1
      BY <1>1, <1>3, <2>1, AppendElements
    <2> QED
      BY <1>1, <1>3, <2>1, <2>2, AppendElements, SeqIsFunction
  <1>6. \A c \in Commands : Coming(c) => Coming(c)'
    <2> SUFFICES ASSUME NEW c \in Commands, Coming(c) PROVE Coming(c)'
      OBVIOUS
    <2>1. CASE \E i \in DOMAIN toAvr : toAvr[i] = c
      BY <1>5, <2>1 DEF Coming
    <2>2. ASSUME NEW k \in DOMAIN job, job[k].stage = "sending", job[k].cmd = c PROVE Coming(c)'
      <3>1. CASE k = j
        BY <1>5, <2>2, <3>1 DEF Coming
      <3>2. CASE k # j
        BY <1>2, <2>2, <3>2 DEF Coming
      <3> QED
        BY <3>1, <3>2
    <2> QED
      BY <2>1, <2>2 DEF Coming
  <1>7. \A h \in Fields, w \in Values : LastHeard(h, w)' => LastHeard(h, w)
    BY <1>1, NothingHeard
  <1>8. HeardOrCorrected'
    BY <1>1, <1>3, <1>4, <1>6, <1>7, MoreIsComing
  <1>9. ASSUME NEW h \in Fields, NEW k \in DOMAIN toAvr', k \notin DOMAIN toAvr,
               toAvr'[k].kind = "step", toAvr'[k].field = h
        PROVE  ToAsk(h)' \/ SteppedOverHttp(h)'
    <2>1. toAvr'[k] = job[j].cmd
      BY <1>5, <1>9
    <2>2. job'[j].cmd.kind = "step" /\ job'[j].cmd.field = h
      BY <1>2, <1>9, <2>1
    <2>3. CASE job[j].http
      BY <1>2, <2>2, <2>3 DEF SteppedOverHttp
    <2>4. CASE ~job[j].http
      BY <1>2, <2>2, <2>4 DEF ToAsk
    <2> QED
      BY <2>3, <2>4
  <1>10. StepsAreAsked'
    <2>1. \A i \in DOMAIN toAvr : i \in DOMAIN toAvr' /\ toAvr'[i] = toAvr[i]
      BY <1>5
    <2>2. \A i \in DOMAIN toAvr, k \in DOMAIN toAvr' : k \notin DOMAIN toAvr => k > i
      BY <1>5
    <2> QED
      BY <1>3, <1>4, <1>9, <2>1, <2>2, StepsStayAsked
  <1>11. RevertsAreDown'
    BY <1>1, <1>2 DEF SyncInv, RevertsAreDown
  <1> QED
    BY <1>1, <1>8, <1>10, <1>11 DEF SyncInv, DownIsEmpty

\* With the connection up there is nothing to revert; the query after a step
\* is on its way behind it.
LEMMA LateInSync ==
  ASSUME TypeInv, SyncInv, up, NEW j \in Jobs, Conclude(j) \/ FollowUp(j)
  PROVE  SyncInv'
  <1>1. /\ j \in DOMAIN job /\ DOMAIN job' = DOMAIN job
        /\ \A k \in DOMAIN job : k # j => job'[k] = job[k]
        /\ job'[j].stage \in {"followup", "done"}
    BY LateTask
  <1>2. UNCHANGED <<up, asking, fromAvr, avr>>
    BY DEF Conclude, FollowUp, linkVars, envVars
  <1>3. state' = state
    <2>1. CASE FollowUp(j)
      BY <2>1 DEF FollowUp
    <2>2. CASE Conclude(j)
      <3>1. ~(job[j].had /\ ~job[j].success)
        BY <1>1, <2>2 DEF Conclude, SyncInv, RevertsAreDown
      <3> QED
        BY <2>2, <3>1 DEF Conclude, Reverted
    <2> QED
      BY <2>1, <2>2
  <1>4. /\ \A h \in Fields : SteppedOverHttp(h) => SteppedOverHttp(h)'
        /\ job[j].cmd \in Commands
        /\ \A h \in Fields : ToAsk(h) => ToAsk(h)' \/ (FollowUp(j) /\ job[j].cmd.field = h)
        /\ \A k \in DOMAIN job : job[k].stage = "sending" /\ ~SendSucceeds(j)
                                   => job'[k].stage = "sending" /\ job'[k].cmd = job[k].cmd
    BY TaskSettles
  <1>5. ~SendSucceeds(j)
    BY SendTask, LateTask
  <1>6. \A h \in Fields, w \in Values : LastHeard(h, w)' => LastHeard(h, w)
    BY <1>2, <1>3, NothingHeard
  <1>7. RevertsAreDown'
    BY <1>1, <1>2 DEF SyncInv, RevertsAreDown
  <1>8. CASE toAvr' = toAvr /\ ~FollowUp(j)
    <2>1. \A c \in Commands : Coming(c) => Coming(c)'
      BY <1>1, <1>4, <1>5, <1>8 DEF Coming
    <2>2. HeardOrCorrected'
      BY <1>2, <1>4, <1>6, <1>8, <2>1, MoreIsComing
    <2>3. StepsAreAsked'
      BY <1>4, <1>8, StepsStayAsked
    <2> QED
      BY <1>2, <1>7, <2>2, <2>3 DEF SyncInv, DownIsEmpty
  <1>9. CASE FollowUp(j)
    <2>1. PICK h \in Fields : h = job[j].cmd.field
      BY <1>4, CommandTyped
    <2>2. toAvr' = Append(toAvr, Ask(h)) /\ Ask(h) \in Commands
      BY <1>9, <2>1, CommandTyped DEF FollowUp
    <2>3. /\ Len(toAvr) \in Nat /\ DOMAIN toAvr = 1..Len(toAvr)
          /\ DOMAIN toAvr' = 1..Len(toAvr) + 1
          /\ \A p \in 1..Len(toAvr) : toAvr'[p] = toAvr[p]
          /\ toAvr'[Len(toAvr) + 1] = Ask(h)
      <3>1. toAvr \in Seq(Commands)
        BY DEF TypeInv, TypeOK
      <3>2. toAvr' \in Seq(Commands) /\ Len(toAvr') = Len(toAvr) + 1
        BY <2>2, <3>1, AppendElements
      <3> QED
        BY <2>2, <3>1, <3>2, AppendElements, SeqIsFunction
    <2>4. \A c \in Commands : Coming(c) => Coming(c)'
      BY <1>1, <1>4, <1>5, <2>3 DEF Coming
    <2>5. Coming(Ask(h))'
      BY <2>3 DEF Coming
    <2>6. \A g \in Fields : ToAsk(g) => ToAsk(g)' \/ Coming(Ask(g))'
      BY <1>4, <2>1, <2>5
    <2>7. HeardOrCorrected'
      BY <1>2, <1>4, <1>6, <2>4, <2>6, MoreIsComing
    <2>8. StepsAreAsked'
      <3>1. \A i \in DOMAIN toAvr : i \in DOMAIN toAvr' /\ toAvr'[i] = toAvr[i]
        BY <2>3
      <3>2. \A i \in DOMAIN toAvr, k \in DOMAIN toAvr' : k \notin DOMAIN toAvr => k > i
        BY <2>3
      <3>3. \A k \in DOMAIN toAvr' : k \notin DOMAIN toAvr => toAvr'[k] = Ask(h)
        BY <2>3
      <3>4. \A g \in Fields : ToAsk(g) => \/ ToAsk(g)'
                                          \/ \E k \in DOMAIN toAvr' : k \notin DOMAIN toAvr
                                                                      /\ toAvr'[k] = Ask(g)
        <4>1. Len(toAvr) + 1 \in DOMAIN toAvr' /\ Len(toAvr) + 1 \notin DOMAIN toAvr
          BY <2>3
        <4> QED
          BY <1>4, <2>1, <2>3, <4>1
      <3>5. Ask(h).kind # "step"
        BY DEF Ask
      <3> QED
        BY <1>4, <3>1, <3>2, <3>3, <3>4, <3>5, StepsStayAsked
    <2> QED
      BY <1>2, <1>7, <2>7, <2>8 DEF SyncInv, DownIsEmpty
  <1>10. Conclude(j) => toAvr' = toAvr /\ ~FollowUp(j)
    BY DEF Conclude, FollowUp, linkVars
  <1> QED
    BY <1>8, <1>9, <1>10

\* request_state moves a query from what it has still to ask to what it asks.
LEMMA RequestInSync ==
  ASSUME TypeInv, SyncInv, RequestState
  PROVE  SyncInv'
  <1>1. /\ up /\ asking # <<>> /\ asking' = Tail(asking)
        /\ UNCHANGED <<up, fromAvr, avr, state, job>>
    BY DEF RequestState, proxyVars, envVars
  <1>2. asking \in Seq(Fields) /\ toAvr \in Seq(Commands)
    BY DEF TypeInv, TypeOK
  <1>3. /\ Head(asking) = asking[1] /\ 1 \in DOMAIN asking /\ Tail(asking) \in Seq(Fields)
        /\ Len(asking) \in Nat /\ Len(asking) >= 1 /\ Len(Tail(asking)) = Len(asking) - 1
        /\ \A p \in 1..Len(asking) - 1 : Tail(asking)[p] = asking[p + 1]
    BY <1>1, <1>2, TailElements
  <1>4. PICK h \in Fields : h = Head(asking)
    BY <1>2, <1>3
  <1>5. toAvr' = Append(toAvr, Ask(h)) /\ Ask(h) \in Commands
    BY <1>4, CommandTyped DEF RequestState
  <1>6. /\ Len(toAvr) \in Nat /\ DOMAIN toAvr = 1..Len(toAvr)
        /\ DOMAIN toAvr' = 1..Len(toAvr) + 1
        /\ \A p \in 1..Len(toAvr) : toAvr'[p] = toAvr[p]
        /\ toAvr'[Len(toAvr) + 1] = Ask(h)
    <2>1. toAvr' \in Seq(Commands) /\ Len(toAvr') = Len(toAvr) + 1
      BY <1>2, <1>5, AppendElements
    <2> QED
      BY <1>2, <1>5, <2>1, AppendElements, SeqIsFunction
  <1>7. \A c \in Commands : Coming(c) => Coming(c)'
    BY <1>1, <1>6 DEF Coming
  <1>8. Coming(Ask(h))'
    BY <1>6 DEF Coming
  <1>9. \A g \in Fields : (\E i \in DOMAIN asking : asking[i] = g)
                            => (\E i \in DOMAIN asking' : asking'[i] = g) \/ Coming(Ask(g))'
    <2> SUFFICES ASSUME NEW g \in Fields, NEW i \in DOMAIN asking, asking[i] = g
                 PROVE  (\E k \in DOMAIN asking' : asking'[k] = g) \/ Coming(Ask(g))'
      OBVIOUS
    <2>1. CASE i = 1
      BY <1>3, <1>4, <1>8, <2>1
    <2>2. CASE i # 1
      <3>1. DOMAIN asking = 1..Len(asking) /\ DOMAIN asking' = 1..Len(asking) - 1
        BY <1>1, <1>2, <1>3
      <3>2. i - 1 \in 1..Len(asking) - 1 /\ asking'[i - 1] = asking[i - 1 + 1] /\ i - 1 + 1 = i
        BY <1>1, <1>3, <2>2, <3>1
      <3> QED
        BY <3>1, <3>2
    <2> QED
      BY <2>1, <2>2
  <1>10. \A g \in Fields : /\ ToAsk(g) => ToAsk(g)'
                           /\ SteppedOverHttp(g) => SteppedOverHttp(g)'
    BY <1>1 DEF ToAsk, SteppedOverHttp
  <1>11. \A g \in Fields, w \in Values : LastHeard(g, w)' => LastHeard(g, w)
    BY <1>1, NothingHeard
  <1>12. HeardOrCorrected'
    BY <1>1, <1>7, <1>9, <1>10, <1>11, MoreIsComing
  <1>13. StepsAreAsked'
    <2>1. \A i \in DOMAIN toAvr : i \in DOMAIN toAvr' /\ toAvr'[i] = toAvr[i]
      BY <1>6
    <2>2. \A i \in DOMAIN toAvr, k \in DOMAIN toAvr' : k \notin DOMAIN toAvr => k > i
      BY <1>6
    <2>3. \A k \in DOMAIN toAvr' : k \notin DOMAIN toAvr => toAvr'[k] = Ask(h)
      BY <1>6
    <2>4. Ask(h).kind # "step"
      BY DEF Ask
    <2> QED
      BY <1>10, <2>1, <2>2, <2>3, <2>4, StepsStayAsked
  <1>14. RevertsAreDown'
    BY <1>1 DEF SyncInv, RevertsAreDown
  <1> QED
    BY <1>1, <1>12, <1>13, <1>14 DEF SyncInv, DownIsEmpty

\* A line that is read is what was last heard, or is followed by what is.
LEMMA ResponseInSync ==
  ASSUME TypeInv, SyncInv, OnAvrResponse
  PROVE  SyncInv'
  <1> DEFINE line == Head(fromAvr)
  <1>1. /\ up /\ fromAvr # <<>> /\ fromAvr' = Tail(fromAvr)
        /\ UNCHANGED <<up, asking, toAvr, avr, job>>
        /\ state' = [state EXCEPT ![line.field] = line.value]
    BY DEF OnAvrResponse, envVars
  <1>2. fromAvr \in Seq(Lines) /\ state \in States
    BY DEF TypeInv, TypeOK, Lines
  <1>3. /\ line = fromAvr[1] /\ 1 \in DOMAIN fromAvr /\ Tail(fromAvr) \in Seq(Lines)
        /\ Len(fromAvr) \in Nat /\ Len(fromAvr) >= 1 /\ Len(Tail(fromAvr)) = Len(fromAvr) - 1
        /\ \A p \in 1..Len(fromAvr) - 1 : Tail(fromAvr)[p] = fromAvr[p + 1]
    BY <1>1, <1>2, TailElements
  <1> HIDE DEF line
  <1>4. DOMAIN fromAvr = 1..Len(fromAvr) /\ DOMAIN fromAvr' = 1..Len(fromAvr) - 1
        /\ \A p \in 1..Len(fromAvr) - 1 : fromAvr'[p] = fromAvr[p + 1]
    BY <1>1, <1>2, <1>3
  <1>5. ASSUME NEW i \in DOMAIN fromAvr, i # 1
        PROVE  i - 1 \in DOMAIN fromAvr' /\ fromAvr'[i - 1] = fromAvr[i]
    <2>1. i - 1 \in 1..Len(fromAvr) - 1 /\ i - 1 + 1 = i
      BY <1>3, <1>4, <1>5
    <2> QED
      BY <1>4, <2>1
  <1>6. ASSUME NEW i \in DOMAIN fromAvr'
        PROVE  i + 1 \in DOMAIN fromAvr /\ i + 1 # 1 /\ fromAvr[i + 1] = fromAvr'[i]
    BY <1>3, <1>4
  <1>7. ASSUME NEW h \in Fields, NEW w \in Values, LastHeard(h, w)'
        PROVE  LastHeard(h, w)
    <2>1. ASSUME NEW i \in DOMAIN fromAvr', fromAvr'[i].field = h, fromAvr'[i].value = w,
                 \A k \in DOMAIN fromAvr' : k > i => fromAvr'[k].field # h
          PROVE  LastHeard(h, w)
      <3>1. ASSUME NEW k \in DOMAIN fromAvr, k > i + 1 PROVE fromAvr[k].field # h
        <4>1. k # 1 /\ k - 1 > i
          BY <1>3, <1>4, <2>1, <3>1
        <4> QED
          BY <1>5, <2>1, <4>1
      <3> QED
        BY <1>6, <2>1, <3>1 DEF LastHeard
    <2>2. CASE (\A i \in DOMAIN fromAvr' : fromAvr'[i].field # h) /\ state'[h] = w
      <3>1. \A k \in DOMAIN fromAvr : k > 1 => fromAvr[k].field # h
        BY <1>4, <1>5, <2>2
      <3>2. CASE line.field = h
        <4>1. state'[h] = line.value
          BY <1>1, <1>2, <3>2 DEF States
        <4> QED
          BY <1>3, <2>2, <3>1, <3>2, <4>1 DEF LastHeard
      <3>3. CASE line.field # h
        <4>1. state'[h] = state[h]
          BY <1>1, <1>2, <3>3 DEF States
        <4>2. \A k \in DOMAIN fromAvr : fromAvr[k].field # h
          BY <1>3, <1>4, <3>1, <3>3
        <4> QED
          BY <2>2, <4>1, <4>2 DEF LastHeard
      <3> QED
        BY <3>2, <3>3
    <2> QED
      BY <1>7, <2>1, <2>2 DEF LastHeard
  <1>8. \A c \in Commands : Coming(c) => Coming(c)'
    BY <1>1 DEF Coming
  <1>9. \A g \in Fields : /\ ToAsk(g) => ToAsk(g)'
                          /\ SteppedOverHttp(g) => SteppedOverHttp(g)'
    BY <1>1 DEF ToAsk, SteppedOverHttp
  <1>10. HeardOrCorrected'
    BY <1>1, <1>7, <1>8, <1>9, MoreIsComing
  <1>11. StepsAreAsked'
    BY <1>1, <1>9, StepsStayAsked
  <1>12. RevertsAreDown'
    BY <1>1 DEF SyncInv, RevertsAreDown
  <1> QED
    BY <1>1, <1>10, <1>11, <1>12 DEF SyncInv, DownIsEmpty

\* A new connection asks for every field.
LEMMA AskAllAsks == \A h \in Fields : \E i \in DOMAIN AskAll : AskAll[i] = h
  <1>1. Cardinality(Fields) \in Nat /\ ExistsBijection(1..Cardinality(Fields), Fields)
    BY FieldsAssumption, FS_CardinalityType
  <1>2. PICK s \in [1..Cardinality(Fields) -> Fields] : s \in Bijection(1..Cardinality(Fields), Fields)
    BY <1>1 DEF ExistsBijection, Bijection, Injection
  <1>3. {s[i] : i \in DOMAIN s} = Fields
    BY <1>2 DEF Bijection, Surjection
  <1>4. {AskAll[i] : i \in DOMAIN AskAll} = Fields
    BY <1>3 DEF AskAll
  <1> QED
    BY <1>4

LEMMA ReconnectInSync ==
  ASSUME SyncInv, Reconnect
  PROVE  SyncInv'
  <1>1. /\ ~up /\ up' = TRUE /\ asking' = AskAll /\ UNCHANGED <<toAvr, fromAvr, job>>
        /\ \A j \in DOMAIN job : job[j].had => job[j].stage \in {"followup", "done"}
    BY DEF Reconnect, proxyVars
  <1>2. HeardOrCorrected'
    <2>1. \A h \in Fields, w \in Values : Corrected(h, w)'
      BY <1>1, AskAllAsks DEF Corrected
    <2> QED
      BY <2>1 DEF HeardOrCorrected
  <1>3. StepsAreAsked'
    <2>1. DOMAIN toAvr' = {}
      BY <1>1 DEF SyncInv, DownIsEmpty
    <2> QED
      BY <2>1 DEF StepsAreAsked
  <1>4. RevertsAreDown'
    BY <1>1 DEF RevertsAreDown
  <1> QED
    BY <1>1, <1>2, <1>3, <1>4 DEF SyncInv, DownIsEmpty

\* What the AVR reports is heard in the end.
LEMMA ReportHeard ==
  ASSUME fromAvr \in Seq(Lines), NEW r \in Lines, fromAvr' = Append(fromAvr, r),
         UNCHANGED state, NEW h \in Fields, NEW w \in Values, LastHeard(h, w)'
  PROVE  /\ r.field = h => w = r.value
         /\ r.field # h => LastHeard(h, w)
  <1>1. /\ Len(fromAvr) \in Nat /\ DOMAIN fromAvr = 1..Len(fromAvr)
        /\ DOMAIN fromAvr' = 1..Len(fromAvr) + 1
        /\ \A p \in 1..Len(fromAvr) : fromAvr'[p] = fromAvr[p]
        /\ fromAvr'[Len(fromAvr) + 1] = r
    <2>1. fromAvr' \in Seq(Lines) /\ Len(fromAvr') = Len(fromAvr) + 1
      BY AppendElements
    <2> QED
      BY <2>1, AppendElements, SeqIsFunction
  <1>2. CASE r.field = h
    <2>1. PICK i \in DOMAIN fromAvr' : /\ fromAvr'[i].value = w
                                       /\ \A k \in DOMAIN fromAvr' : k > i => fromAvr'[k].field # h
      BY <1>1, <1>2 DEF LastHeard
    <2>2. i = Len(fromAvr) + 1
      BY <1>1, <1>2, <2>1
    <2> QED
      BY <1>1, <1>2, <2>1, <2>2
  <1>3. CASE r.field # h
    <2>1. ASSUME NEW i \in DOMAIN fromAvr', fromAvr'[i].field = h, fromAvr'[i].value = w,
                 \A k \in DOMAIN fromAvr' : k > i => fromAvr'[k].field # h
          PROVE  LastHeard(h, w)
      BY <1>1, <1>3, <2>1 DEF LastHeard
    <2>2. CASE (\A i \in DOMAIN fromAvr' : fromAvr'[i].field # h) /\ state'[h] = w
      BY <1>1, <2>2 DEF LastHeard
    <2> QED
      BY <1>3, <2>1, <2>2 DEF LastHeard
  <1> QED
    BY <1>2, <1>3

LEMMA TurnedInSync ==
  ASSUME TypeInv, SyncInv, AvrIsTurned
  PROVE  SyncInv'
  <1>1. PICK f \in Fields, v \in Values :
          /\ avr' = [avr EXCEPT ![f] = v]
          /\ fromAvr' = IF up THEN Append(fromAvr, [field |-> f, value |-> v]) ELSE fromAvr
    BY DEF AvrIsTurned
  <1>2. UNCHANGED <<up, asking, toAvr, state, job>>
    BY DEF AvrIsTurned, proxyVars
  <1>3. CASE ~up
    BY <1>1, <1>2, <1>3, DownInSync DEF SyncInv, DownIsEmpty, TypeInv, TypeOK
  <1>4. CASE up
    <2> DEFINE r == [field |-> f, value |-> v]
    <2>1. r \in Lines /\ r.field = f /\ r.value = v
      BY DEF Lines
    <2>2. fromAvr \in Seq(Lines) /\ fromAvr' = Append(fromAvr, r) /\ avr \in [Fields -> Values]
      BY <1>1, <1>4 DEF TypeInv, TypeOK, Lines
    <2> HIDE DEF r
    <2>3. ASSUME NEW h \in Fields, NEW w \in Values, LastHeard(h, w)'
          PROVE  w = avr'[h] \/ Corrected(h, w)'
      <3>1. /\ r.field = h => w = r.value
            /\ r.field # h => LastHeard(h, w)
        BY <1>2, <2>1, <2>2, <2>3, ReportHeard
      <3>2. CASE h = f
        BY <1>1, <2>1, <2>2, <3>1, <3>2
      <3>3. CASE h # f
        <4>1. LastHeard(h, w) /\ avr'[h] = avr[h]
          BY <1>1, <2>1, <2>2, <3>1, <3>3
        <4>2. Corrected(h, w) => Corrected(h, w)'
          BY <1>2 DEF Corrected, Coming, ToAsk, SteppedOverHttp
        <4> QED
          BY <1>4, <4>1, <4>2 DEF SyncInv, HeardOrCorrected
      <3> QED
        BY <3>2, <3>3
    <2>4. HeardOrCorrected'
      BY <2>3 DEF HeardOrCorrected
    <2>5. StepsAreAsked' /\ RevertsAreDown'
      BY <1>2 DEF SyncInv, StepsAreAsked, RevertsAreDown, ToAsk, SteppedOverHttp
    <2> QED
      BY <1>2, <1>4, <2>4, <2>5 DEF SyncInv, DownIsEmpty
  <1> QED
    BY <1>3, <1>4

\* A command the AVR executes is reported, changes nothing, or is a step that
\* it will still be asked about.
LEMMA ExecutesInSync ==
  ASSUME TypeInv, SyncInv, AvrExecutes
  PROVE  SyncInv'
  <1>1. /\ toAvr # <<>> /\ toAvr' = Tail(toAvr) /\ UNCHANGED <<up, asking, state, job>>
        /\ toAvr \in Seq(Commands) /\ fromAvr \in Seq(Lines) /\ avr \in [Fields -> Values]
    BY DEF AvrExecutes, proxyVars, TypeInv, TypeOK, Lines
  <1>2. up
    BY <1>1 DEF SyncInv, DownIsEmpty
  <1>3. /\ Head(toAvr) = toAvr[1] /\ 1 \in DOMAIN toAvr /\ Tail(toAvr) \in Seq(Commands)
        /\ Len(toAvr) \in Nat /\ Len(toAvr) >= 1 /\ Len(Tail(toAvr)) = Len(toAvr) - 1
        /\ \A p \in 1..Len(toAvr) - 1 : Tail(toAvr)[p] = toAvr[p + 1]
    BY <1>1, TailElements
  <1>4. DOMAIN toAvr = 1..Len(toAvr) /\ DOMAIN toAvr' = 1..Len(toAvr) - 1
        /\ \A p \in 1..Len(toAvr) - 1 : toAvr'[p] = toAvr[p + 1]
    BY <1>1, <1>3
  <1>5. ASSUME NEW i \in DOMAIN toAvr, i # 1
        PROVE  i - 1 \in DOMAIN toAvr' /\ toAvr'[i - 1] = toAvr[i]
    <2>1. i - 1 \in 1..Len(toAvr) - 1 /\ i - 1 + 1 = i
      BY <1>3, <1>4, <1>5
    <2> QED
      BY <1>4, <2>1
  <1>6. PICK cmd \in Commands : cmd = toAvr[1]
    BY <1>1, <1>3
  <1>7. cmd.field \in Fields /\ cmd.kind \in {"set", "step", "ask"}
        /\ (cmd.kind = "set" => cmd.value \in Values)
    BY CommandTyped
  <1>8. /\ cmd.kind = "set" => avr' = [avr EXCEPT ![cmd.field] = cmd.value]
        /\ cmd.kind = "step" => \E v \in Values : avr' = [avr EXCEPT ![cmd.field] = v]
        /\ cmd.kind = "ask" => avr' = avr
    <2>1. Head(toAvr) = cmd
      BY <1>3, <1>6
    <2>2. CASE cmd.kind = "set"
      BY <2>1, <2>2 DEF AvrExecutes
    <2>3. CASE cmd.kind = "step"
      BY <2>1, <2>3 DEF AvrExecutes
    <2>4. CASE cmd.kind = "ask"
      BY <2>1, <2>4 DEF AvrExecutes
    <2> QED
      BY <1>7, <2>2, <2>3, <2>4
  <1>9. /\ avr' \in [Fields -> Values]
        /\ \A h \in Fields : h # cmd.field => avr'[h] = avr[h]
        /\ cmd.kind = "set" => avr'[cmd.field] = cmd.value
    <2>1. CASE cmd.kind = "set"
      BY <1>1, <1>7, <1>8, <2>1
    <2>2. CASE cmd.kind = "step"
      BY <1>1, <1>7, <1>8, <2>2
    <2>3. CASE cmd.kind = "ask"
      BY <1>1, <1>7, <1>8, <2>3
    <2> QED
      BY <1>7, <2>1, <2>2, <2>3
  <1> DEFINE r == [field |-> cmd.field, value |-> avr'[cmd.field]]
  <1>10. r \in Lines /\ r.field = cmd.field /\ r.value = avr'[cmd.field]
    BY <1>7, <1>9 DEF Lines
  <1>11. \/ fromAvr' = Append(fromAvr, r)
         \/ /\ cmd.kind = "step" \/ (cmd.kind = "set" /\ avr' = avr)
            /\ fromAvr' = fromAvr
    BY <1>3, <1>6 DEF AvrExecutes
  <1> HIDE DEF r
  <1>12. StepsAreAsked'
    <2> SUFFICES ASSUME NEW i \in DOMAIN toAvr', NEW h \in Fields,
                        toAvr'[i].kind = "step", toAvr'[i].field = h
                 PROVE  \/ \E k \in DOMAIN toAvr' : k > i /\ toAvr'[k].kind = "ask" /\ toAvr'[k].field = h
                        \/ ToAsk(h)'
                        \/ SteppedOverHttp(h)'
      BY DEF StepsAreAsked
    <2>1. i + 1 \in DOMAIN toAvr /\ toAvr[i + 1] = toAvr'[i] /\ i \in Nat /\ i >= 1
      BY <1>3, <1>4
    <2>2. \/ \E k \in DOMAIN toAvr : k > i + 1 /\ toAvr[k].kind = "ask" /\ toAvr[k].field = h
          \/ ToAsk(h)
          \/ SteppedOverHttp(h)
      BY <2>1 DEF SyncInv, StepsAreAsked
    <2>3. ASSUME NEW k \in DOMAIN toAvr, k > i + 1, toAvr[k].kind = "ask", toAvr[k].field = h
          PROVE  k - 1 \in DOMAIN toAvr' /\ k - 1 > i /\ toAvr'[k - 1] = toAvr[k]
      <3>1. k # 1 /\ k - 1 > i
        BY <1>4, <2>1, <2>3
      <3> QED
        BY <1>5, <3>1
    <2>4. (ToAsk(h) => ToAsk(h)') /\ (SteppedOverHttp(h) => SteppedOverHttp(h)')
      BY <1>1 DEF ToAsk, SteppedOverHttp
    <2> QED
      BY <2>2, <2>3, <2>4
  <1>13. ASSUME NEW h \in Fields, NEW w \in Values, LastHeard(h, w)', w # avr'[h]
         PROVE  Corrected(h, w)'
    <2>1. fromAvr' = Append(fromAvr, r) => r.field # h
      <3> SUFFICES ASSUME fromAvr' = Append(fromAvr, r), r.field = h PROVE FALSE
        OBVIOUS
      <3>1. w = r.value
        BY <1>1, <1>10, <1>13, ReportHeard
      <3> QED
        BY <1>10, <1>13, <3>1
    <2>2. LastHeard(h, w)
      <3>1. CASE fromAvr' = Append(fromAvr, r)
        BY <1>1, <1>10, <1>13, <2>1, <3>1, ReportHeard
      <3>2. CASE fromAvr' = fromAvr
        BY <1>1, <1>13, <3>2, NothingHeard
      <3> QED
        BY <1>11, <3>1, <3>2
    <2>3. CASE cmd.kind = "step" /\ cmd.field = h
      \* The step is followed by a query.
      <3>1. \/ \E k \in DOMAIN toAvr : k > 1 /\ toAvr[k].kind = "ask" /\ toAvr[k].field = h
            \/ ToAsk(h)
            \/ SteppedOverHttp(h)
        BY <1>3, <1>6, <2>3 DEF SyncInv, StepsAreAsked
      <3>2. ASSUME NEW k \in DOMAIN toAvr, k > 1, toAvr[k].kind = "ask", toAvr[k].field = h
            PROVE  Corrected(h, w)'
        <4>1. PICK c \in Commands : c = toAvr[k]
          BY <1>1
        <4>2. k - 1 \in DOMAIN toAvr' /\ toAvr'[k - 1] = c
          BY <1>4, <1>5, <3>2, <4>1
        <4>3. Coming(c)' /\ Settles(c, h, w)
          BY <3>2, <4>1, <4>2 DEF Coming, Settles
        <4> QED
          BY <4>3 DEF Corrected
      <3>3. (ToAsk(h) => ToAsk(h)') /\ (SteppedOverHttp(h) => SteppedOverHttp(h)')
        BY <1>1 DEF ToAsk, SteppedOverHttp
      <3> QED
        BY <3>1, <3>2, <3>3 DEF Corrected
    <2>4. CASE ~(cmd.kind = "step" /\ cmd.field = h)
      <3>1. avr'[h] = avr[h] /\ ~Settles(cmd, h, w)
        <4>1. CASE h # cmd.field
          BY <1>9, <4>1 DEF Settles
        <4>2. CASE h = cmd.field
          <5>1. fromAvr' # Append(fromAvr, r)
            BY <1>10, <2>1, <4>2
          <5>2. cmd.kind = "set" /\ avr' = avr
            BY <1>11, <2>4, <4>2, <5>1
          <5> QED
            BY <1>9, <1>13, <4>2, <5>2 DEF Settles
        <4> QED
          BY <4>1, <4>2
      <3>2. Corrected(h, w)
        BY <1>2, <1>13, <2>2, <3>1 DEF SyncInv, HeardOrCorrected
      <3>3. ASSUME NEW c \in Commands, Coming(c), Settles(c, h, w) PROVE Coming(c)'
        <4>1. c # cmd
          BY <3>1, <3>3
        <4>2. \A i \in DOMAIN toAvr : toAvr[i] = c => i # 1
          BY <1>6, <4>1
        <4> QED
          BY <1>1, <1>5, <3>3, <4>2 DEF Coming
      <3>4. (ToAsk(h) => ToAsk(h)') /\ (SteppedOverHttp(h) => SteppedOverHttp(h)')
        BY <1>1 DEF ToAsk, SteppedOverHttp
      <3> QED
        BY <1>1, <3>2, <3>3, <3>4 DEF Corrected
    <2> QED
      BY <2>3, <2>4
  <1>14. HeardOrCorrected'
    BY <1>13 DEF HeardOrCorrected
  <1>15. RevertsAreDown'
    BY <1>1 DEF SyncInv, RevertsAreDown
  <1> QED
    BY <1>1, <1>2, <1>12, <1>14, <1>15 DEF SyncInv, DownIsEmpty

\* A new task has changed nothing yet.
LEMMA NewTaskInSync ==
  ASSUME TypeInv, SyncInv, up, NEW cmd \in Commands, NEW stage \in {"new", "sending"},
         NEW http \in BOOLEAN, NewJob(cmd, stage, http)
  PROVE  SyncInv'
  <1>1. UNCHANGED <<state, up, asking, toAvr, fromAvr, avr>>
    BY DEF NewJob, linkVars, envVars
  <1>2. stage \in Stages /\ stage # "sent"
    BY DEF Stages
  <1>3. /\ DOMAIN job' = DOMAIN job \cup {Len(job')}
        /\ \A k \in DOMAIN job : job'[k] = job[k]
        /\ job'[Len(job')].stage = stage /\ job'[Len(job')].had = FALSE
    BY <1>2, NewTask
  <1>4. \A c \in Commands : Coming(c) => Coming(c)'
    BY <1>1, <1>3 DEF Coming
  <1>5. \A g \in Fields : /\ ToAsk(g) => ToAsk(g)'
                          /\ SteppedOverHttp(g) => SteppedOverHttp(g)'
    BY <1>3 DEF ToAsk, SteppedOverHttp
  <1>6. \A g \in Fields, w \in Values : LastHeard(g, w)' => LastHeard(g, w)
    BY <1>1, NothingHeard
  <1>7. HeardOrCorrected'
    BY <1>1, <1>4, <1>5, <1>6, MoreIsComing
  <1>8. StepsAreAsked'
    BY <1>1, <1>5, StepsStayAsked
  <1>9. RevertsAreDown'
    BY <1>1, <1>2, <1>3 DEF SyncInv, RevertsAreDown
  <1> QED
    BY <1>1, <1>7, <1>8, <1>9 DEF SyncInv, DownIsEmpty

LEMMA StepInSync == TypeInv /\ SyncInv /\ [Next]_vars => SyncInv'
  <1> SUFFICES ASSUME TypeInv, SyncInv, [Next]_vars PROVE SyncInv'
    OBVIOUS
  <1>0. up \in BOOLEAN
    BY DEF TypeInv, TypeOK
  <1>a. ASSUME ~up, UNCHANGED <<up, asking, toAvr, fromAvr>> PROVE SyncInv'
    <2>1. up' = FALSE /\ asking' = <<>> /\ toAvr' = <<>> /\ fromAvr' = <<>>
      BY <1>0, <1>a DEF SyncInv, DownIsEmpty
    <2> QED
      BY <2>1, DownInSync
  <1>b. ASSUME UNCHANGED <<state, job, up, asking, toAvr, fromAvr, avr>> PROVE SyncInv'
    BY <1>b DEF SyncInv, HeardOrCorrected, StepsAreAsked, DownIsEmpty, RevertsAreDown,
                Corrected, LastHeard, Coming, ToAsk, SteppedOverHttp
  <1>1. ASSUME NEW c \in Clients, Join(c) \/ Leave(c) PROVE SyncInv'
    BY <1>1, <1>b DEF Join, Leave, linkVars, envVars
  <1>2. ASSUME NEW cmd \in Commands, NEW stage \in {"new", "sending"}, NEW http \in BOOLEAN,
               NewJob(cmd, stage, http)
        PROVE  SyncInv'
    <2>1. UNCHANGED <<up, asking, toAvr, fromAvr>>
      BY <1>2 DEF NewJob, linkVars
    <2> QED
      BY <1>2, <1>a, <2>1, NewTaskInSync
  <1>3. ASSUME NEW cmd \in Input, Receive(cmd) PROVE SyncInv'
    BY <1>2, <1>3, InputAssumption DEF Receive
  <1>4. ASSUME NEW cmd \in HttpInput, ReceiveHttp(cmd) PROVE SyncInv'
    BY <1>2, <1>4, InputAssumption DEF ReceiveHttp
  <1>5. ASSUME NEW j \in Jobs, Begin(j) PROVE SyncInv'
    <2>1. UNCHANGED <<up, asking, toAvr, fromAvr>>
      BY <1>5 DEF Begin, linkVars
    <2> QED
      BY <1>5, <1>a, <2>1, BeginInSync
  <1>6. ASSUME NEW j \in Jobs, SendSucceeds(j) PROVE SyncInv'
    BY <1>6, SendInSync DEF SendSucceeds
  <1>7. ASSUME NEW j \in Jobs, SendFails(j) PROVE SyncInv'
    <2>1. CASE ~up /\ UNCHANGED <<up, asking, toAvr, fromAvr>>
      BY <1>a, <2>1
    <2>2. CASE LoseConnection
      BY <2>2, DownInSync DEF LoseConnection
    <2> QED
      BY <1>7, <2>1, <2>2, Zenon DEF SendFails
  <1>8. ASSUME NEW j \in Jobs, Conclude(j) \/ FollowUp(j) PROVE SyncInv'
    <2>1. ~up => UNCHANGED <<up, asking, toAvr, fromAvr>>
      BY <1>8 DEF Conclude, FollowUp, linkVars
    <2> QED
      BY <1>8, <1>a, <2>1, LateInSync
  <1>9. CASE OnAvrResponse
    BY <1>9, ResponseInSync
  <1>10. CASE RequestState
    BY <1>10, RequestInSync
  <1>11. CASE Lose
    BY <1>11, DownInSync DEF Lose, LoseConnection
  <1>12. CASE Reconnect
    BY <1>12, ReconnectInSync
  <1>13. CASE AvrExecutes
    BY <1>13, ExecutesInSync
  <1>14. CASE AvrIsTurned
    BY <1>14, TurnedInSync
  <1>15. CASE Reconnected \/ DialFails \/ UNCHANGED vars
    BY <1>15, <1>b DEF Reconnected, DialFails, vars, proxyVars, linkVars, envVars
  <1> QED
    BY <1>1, <1>3, <1>4, <1>5, <1>6, <1>7, <1>8, <1>9, <1>10, <1>11, <1>12, <1>13, <1>14, <1>15
       DEF Next

LEMMA InitInSync == Init => SyncInv
  <1> SUFFICES ASSUME Init PROVE SyncInv
    OBVIOUS
  <1>1. /\ job = <<>> /\ asking = <<>> /\ fromAvr = <<>>
        /\ \/ up = TRUE /\ toAvr = [i \in DOMAIN AskAll |-> Ask(AskAll[i])]
           \/ up = FALSE /\ toAvr = <<>>
    BY DEF Init
  <1>2. DOMAIN job = {}
    BY <1>1
  <1>3. RevertsAreDown
    BY <1>2 DEF RevertsAreDown
  <1>4. CASE up = FALSE /\ toAvr = <<>>
    <2>1. DOMAIN toAvr = {}
      BY <1>4
    <2> QED
      BY <1>1, <1>3, <1>4, <2>1 DEF SyncInv, HeardOrCorrected, StepsAreAsked, DownIsEmpty
  <1>5. CASE up = TRUE /\ toAvr = [i \in DOMAIN AskAll |-> Ask(AskAll[i])]
    <2>1. ASSUME NEW h \in Fields, NEW w \in Values PROVE Corrected(h, w)
      <3>1. PICK i \in DOMAIN AskAll : AskAll[i] = h
        BY AskAllAsks
      <3>2. i \in DOMAIN toAvr /\ toAvr[i] = Ask(h)
        BY <1>5, <3>1
      <3>3. Ask(h) \in Commands /\ Settles(Ask(h), h, w)
        BY CommandTyped DEF Ask, Settles
      <3> QED
        BY <3>2, <3>3 DEF Corrected, Coming
    <2>2. HeardOrCorrected
      BY <2>1 DEF HeardOrCorrected
    <2>3. \A i \in DOMAIN toAvr : toAvr[i].kind = "ask"
      BY <1>5 DEF Ask
    <2>4. StepsAreAsked
      BY <2>3 DEF StepsAreAsked
    <2> QED
      BY <1>3, <1>5, <2>2, <2>4 DEF SyncInv, DownIsEmpty
  <1> QED
    BY <1>1, <1>4, <1>5

\* When nothing is under way, what the proxy knows of the AVR is what the AVR
\* is: for any fields, commands, turns and losses, every optimistic value,
\* guess of a step, revert to a stale snapshot and lost line is corrected.
THEOREM ProxyConverges == Spec => []Converges
  <1>1. TypeInv /\ SyncInv => Converges
    <2> SUFFICES ASSUME TypeInv, SyncInv, Quiet, NEW h \in Fields,
                        state[h] # None, ~SteppedOverHttp(h)
                 PROVE  state[h] = avr[h]
      BY DEF Converges
    <2>1. /\ up /\ DOMAIN asking = {} /\ DOMAIN toAvr = {} /\ DOMAIN fromAvr = {}
          /\ \A j \in DOMAIN job : job[j].stage = "done"
      BY DEF Quiet
    <2>2. PICK w \in Values : w = state[h]
      BY DEF TypeInv, TypeOK, States
    <2>3. LastHeard(h, w)
      BY <2>1, <2>2 DEF LastHeard
    <2>4. ~Corrected(h, w)
      BY <2>1 DEF Corrected, Coming, ToAsk
    <2> QED
      BY <2>1, <2>2, <2>3, <2>4 DEF SyncInv, HeardOrCorrected
  <1> QED
    BY <1>1, InitTyped, StepTyped, InitInSync, StepInSync, PTL DEF Spec

-----------------------------------------------------------------------------
(***************************************************************************)
(* The clients know what the proxy knows.                                  *)
(***************************************************************************)

\* ViewsAgree, of the fields that no dump tells.
UntoldAgree ==
  \A c \in clients, h \in Untold : view[c][h] \in {None, state[h]} \/ ~up \/ Awaited(h)

\* Such fields are not changed by commands.
OnlyAsked == \A j \in DOMAIN job : job[j].cmd.field \in Untold => job[j].cmd.kind = "ask"

\* What is added to a queue is in it, with what was there.
LEMMA AppendKeeps ==
  ASSUME NEW S, NEW s \in Seq(S), NEW x \in S, NEW t, t = Append(s, x)
  PROVE  /\ \A i \in DOMAIN s : \E k \in DOMAIN t : t[k] = s[i]
         /\ \E k \in DOMAIN t : t[k] = x
  <1>1. Len(s) \in Nat /\ DOMAIN s = 1..Len(s)
    BY SeqIsFunction
  <1>2. /\ DOMAIN t = 1..Len(s) + 1
        /\ \A p \in 1..Len(s) : t[p] = s[p]
        /\ t[Len(s) + 1] = x
    BY AppendElements
  <1>3. Len(s) + 1 \in 1..Len(s) + 1 /\ \A p \in 1..Len(s) : p \in 1..Len(s) + 1
    BY <1>1
  <1> QED
    BY <1>1, <1>2, <1>3

\* Nothing but its head is taken from a queue.
LEMMA TailKeeps ==
  ASSUME NEW S, NEW s \in Seq(S), s # <<>>, NEW t, t = Tail(s)
  PROVE  \A i \in DOMAIN s : s[i] = Head(s) \/ \E k \in DOMAIN t : t[k] = s[i]
  <1> SUFFICES ASSUME NEW i \in DOMAIN s
               PROVE  s[i] = Head(s) \/ \E k \in DOMAIN t : t[k] = s[i]
    OBVIOUS
  <1>1. Len(s) \in Nat /\ DOMAIN s = 1..Len(s)
    BY SeqIsFunction
  <1>2. /\ Head(s) = s[1] /\ t \in Seq(S) /\ Len(t) = Len(s) - 1
        /\ \A p \in 1..Len(s) - 1 : t[p] = s[p + 1]
    BY TailElements
  <1>3. DOMAIN t = 1..Len(s) - 1
    BY <1>2
  <1>4. i = 1 \/ (i - 1 \in 1..Len(s) - 1 /\ i - 1 + 1 = i)
    BY <1>1
  <1> QED
    BY <1>2, <1>3, <1>4

\* As long as no answer that is awaited gets lost, what neither the client nor
\* the proxy learns anew stays known.
LEMMA StaysKnown ==
  ASSUME UntoldAgree, up,
         \A c \in clients' : c \in clients \/ \A h \in Untold : view'[c][h] = None,
         \A c \in clients, h \in Untold : \/ view'[c][h] \in {None, state'[h]}
                                         \/ (view'[c][h] = view[c][h] /\ state'[h] = state[h]),
         \A c \in clients, h \in Untold : Awaited(h) => Awaited(h)' \/ view'[c][h] = state'[h]
  PROVE  UntoldAgree'
  BY DEF UntoldAgree

\* A step that touches neither the state nor the clients.
LEMMA StillKnown ==
  ASSUME UntoldAgree, up, UNCHANGED <<state, clients, view>>,
         \A h \in Untold : Awaited(h) => Awaited(h)'
  PROVE  UntoldAgree'
  BY DEF UntoldAgree

\* A query more is on its way.
LEMMA SentIsAwaited ==
  ASSUME TypeInv, NEW cmd \in Commands, toAvr' = Append(toAvr, cmd), UNCHANGED fromAvr,
         \A h \in Untold : h \in {asking[i] : i \in DOMAIN asking} =>
           h \in {asking'[i] : i \in DOMAIN asking'} \/ cmd = Ask(h)
  PROVE  \A h \in Untold : Awaited(h) => Awaited(h)'
  <1>1. toAvr \in Seq(Commands)
    BY DEF TypeInv, TypeOK
  <1>2. /\ \A i \in DOMAIN toAvr : \E k \in DOMAIN toAvr' : toAvr'[k] = toAvr[i]
        /\ \E k \in DOMAIN toAvr' : toAvr'[k] = cmd
    BY <1>1, AppendKeeps
  <1> SUFFICES ASSUME NEW h \in Untold, Awaited(h) PROVE Awaited(h)'
    OBVIOUS
  <1>3. CASE h \in {asking[i] : i \in DOMAIN asking}
    BY <1>2, <1>3 DEF Awaited
  <1>4. CASE Ask(h) \in {toAvr[i] : i \in DOMAIN toAvr}
    <2>1. PICK i \in DOMAIN toAvr : toAvr[i] = Ask(h)
      BY <1>4
    <2>2. PICK k \in DOMAIN toAvr' : toAvr'[k] = Ask(h)
      BY <1>2, <2>1
    <2> QED
      BY <2>2 DEF Awaited
  <1>5. CASE h \in {fromAvr[i].field : i \in DOMAIN fromAvr}
    BY <1>5 DEF Awaited
  <1> QED
    BY <1>3, <1>4, <1>5 DEF Awaited

\* A command is applied to another field.
LEMMA BeginKeepsUntold ==
  ASSUME TypeInv, OnlyAsked, UntoldAgree, up, NEW j \in Jobs, Begin(j)
  PROVE  UntoldAgree'
  <1>1. j \in DOMAIN job /\ job[j].cmd \in Commands /\ state \in States
    <2>1. j \in DOMAIN job
      BY BeginTask
    <2>2. job[j] \in JobRecords /\ state \in States
      BY <2>1 DEF TypeInv, TypeOK
    <2> QED
      BY <2>1, <2>2 DEF JobRecords
  <1>2. UNCHANGED <<clients, view, asking, toAvr, fromAvr>>
    BY DEF Begin, linkVars
  <1>3. \A h \in Untold : state'[h] = state[h]
    <2>1. CASE job[j].cmd.kind # "ask" /\ state' \in Applied(job[j].cmd)
      <3>1. job[j].cmd.field \notin Untold
        BY <1>1, <2>1 DEF OnlyAsked
      <3> QED
        BY <1>1, <2>1, <3>1, AppliedTyped, UntoldAssumption
    <2>2. CASE state' = state
      BY <2>2
    <2> QED
      BY <2>1, <2>2 DEF Begin
  <1> QED
    BY <1>2, <1>3 DEF UntoldAgree, Awaited

\* With the connection up there is no revert, and the dump tells nothing of
\* these fields.
LEMMA ConcludeKeepsUntold ==
  ASSUME TypeInv, SyncInv, UntoldAgree, up, NEW j \in Jobs, Conclude(j)
  PROVE  UntoldAgree'
  <1>1. UNCHANGED <<clients, asking, toAvr, fromAvr>> /\ clients \subseteq Clients
    BY DEF Conclude, linkVars, TypeInv, TypeOK
  <1>2. state' = state
    <2>1. j \in DOMAIN job
      BY LateTask
    <2>2. ~(job[j].had /\ ~job[j].success)
      BY <2>1 DEF Conclude, SyncInv, RevertsAreDown
    <2> QED
      BY <2>2 DEF Conclude, Reverted
  <1>3. ASSUME NEW c \in clients, NEW h \in Untold PROVE view'[c][h] = view[c][h]
    <2>1. CASE view' = view
      BY <2>1
    <2>2. CASE BroadcastState(state')
      <3>1. view'[c] = Told(view[c], state')
        BY <1>1, <2>2 DEF BroadcastState
      <3> QED
        BY <3>1, UntoldAssumption DEF Told
    <2> QED
      BY <2>1, <2>2 DEF Conclude, Announce
  <1> QED
    BY <1>1, <1>2, <1>3 DEF UntoldAgree, Awaited

\* The line that is read tells both the proxy and its clients.
LEMMA ResponseKeepsUntold ==
  ASSUME TypeInv, UntoldAgree, OnAvrResponse
  PROVE  UntoldAgree'
  <1> DEFINE line == Head(fromAvr)
  <1>1. /\ state \in States /\ view \in [Clients -> States] /\ clients \subseteq Clients
        /\ fromAvr \in Seq(Lines) /\ fromAvr # <<>>
    BY DEF TypeInv, TypeOK, OnAvrResponse, Lines
  <1>2. /\ up /\ fromAvr' = Tail(fromAvr) /\ UNCHANGED <<clients, asking, toAvr>>
        /\ state' = [state EXCEPT ![line.field] = line.value]
        /\ \A c \in clients : view'[c] = [view[c] EXCEPT ![line.field] = line.value]
    BY <1>1 DEF OnAvrResponse
  <1>3. line \in Lines
    BY <1>1
  <1>4. \A i \in DOMAIN fromAvr :
          fromAvr[i] = line \/ \E k \in DOMAIN fromAvr' : fromAvr'[k] = fromAvr[i]
    <2>1. fromAvr \in Seq(Lines) /\ fromAvr # <<>> /\ fromAvr' = Tail(fromAvr)
      BY <1>1, <1>2
    <2> HIDE DEF line
    <2>2. \A i \in DOMAIN fromAvr : fromAvr[i] = Head(fromAvr)
                                     \/ \E k \in DOMAIN fromAvr' : fromAvr'[k] = fromAvr[i]
      BY <2>1, TailKeeps
    <2> QED
      BY <2>2 DEF line
  <1> HIDE DEF line
  <1>5. ASSUME NEW c \in clients, NEW h \in Untold
        PROVE  /\ h = line.field => view'[c][h] = state'[h]
               /\ h # line.field => view'[c][h] = view[c][h] /\ state'[h] = state[h]
    <2>1. DOMAIN view[c] = Fields /\ DOMAIN state = Fields /\ h \in Fields
      BY <1>1, UntoldAssumption DEF States
    <2> QED
      BY <1>2, <2>1
  <1>6. ASSUME NEW h \in Untold, Awaited(h), h # line.field PROVE Awaited(h)'
    <2>1. CASE h \in {fromAvr[i].field : i \in DOMAIN fromAvr}
      <3>1. PICK i \in DOMAIN fromAvr : fromAvr[i].field = h
        BY <2>1
      <3>2. PICK k \in DOMAIN fromAvr' : fromAvr'[k].field = h
        BY <1>4, <1>6, <3>1
      <3> QED
        BY <3>2 DEF Awaited
    <2>2. CASE h \notin {fromAvr[i].field : i \in DOMAIN fromAvr}
      BY <1>2, <1>6, <2>2 DEF Awaited
    <2> QED
      BY <2>1, <2>2
  <1>7. /\ \A c \in clients' : c \in clients
        /\ \A c \in clients, h \in Untold : \/ view'[c][h] \in {None, state'[h]}
                                            \/ (view'[c][h] = view[c][h] /\ state'[h] = state[h])
        /\ \A c \in clients, h \in Untold : Awaited(h) => Awaited(h)' \/ view'[c][h] = state'[h]
    BY <1>2, <1>5, <1>6
  <1> QED
    BY <1>2, <1>7, StaysKnown

\* What the AVR reports is on its way, with what was.
LEMMA ReportKept ==
  ASSUME fromAvr \in Seq(Lines), NEW r \in Lines, fromAvr' = Append(fromAvr, r)
  PROVE  /\ \A k \in DOMAIN fromAvr : \E l \in DOMAIN fromAvr' : fromAvr'[l] = fromAvr[k]
         /\ \E l \in DOMAIN fromAvr' : fromAvr'[l] = r
  BY AppendKeeps

\* A query is answered.
LEMMA AvrKeepsUntold ==
  ASSUME TypeInv, UntoldAgree, up, AvrExecutes \/ AvrIsTurned
  PROVE  UntoldAgree'
  <1>1. UNCHANGED <<state, clients, view, asking>>
    BY DEF AvrExecutes, AvrIsTurned, proxyVars
  <1>2. toAvr \in Seq(Commands) /\ fromAvr \in Seq(Lines) /\ avr' \in [Fields -> Values]
    <2>1. TypeInv'
      BY AvrTyped
    <2> QED
      BY <2>1 DEF TypeInv, TypeOK, Lines
  <1>3. ASSUME AvrExecutes
        PROVE  /\ Head(toAvr) \in Commands
               /\ \A k \in DOMAIN toAvr : \/ toAvr[k] = Head(toAvr)
                                          \/ \E l \in DOMAIN toAvr' : toAvr'[l] = toAvr[k]
    <2>1. toAvr # <<>> /\ toAvr' = Tail(toAvr)
      BY <1>3 DEF AvrExecutes
    <2>2. Head(toAvr) \in Commands
      BY <1>2, <2>1
    <2>3. toAvr \in Seq(Commands)
      BY <1>2
    <2>4. \A k \in DOMAIN toAvr : \/ toAvr[k] = Head(toAvr)
                                 \/ \E l \in DOMAIN toAvr' : toAvr'[l] = toAvr[k]
      BY <2>1, <2>3, TailKeeps
    <2> QED
      BY <2>2, <2>4
  <1>4. ASSUME NEW r \in Lines, fromAvr' = Append(fromAvr, r)
        PROVE  /\ \A k \in DOMAIN fromAvr : \E l \in DOMAIN fromAvr' : fromAvr'[l] = fromAvr[k]
               /\ \E l \in DOMAIN fromAvr' : fromAvr'[l] = r
    BY <1>2, <1>4, ReportKept
  <1>5. fromAvr' = fromAvr \/ \E r \in Lines : fromAvr' = Append(fromAvr, r)
    <2>1. CASE AvrExecutes
      <3> DEFINE r == [field |-> Head(toAvr).field, value |-> avr'[Head(toAvr).field]]
      <3>1. r \in Lines
        BY <1>2, <1>3, <2>1, CommandTyped DEF Lines
      <3>2. fromAvr' = fromAvr \/ fromAvr' = Append(fromAvr, r)
        BY <2>1 DEF AvrExecutes
      <3> QED
        BY <3>1, <3>2
    <2>2. CASE AvrIsTurned
      BY <2>2 DEF AvrIsTurned, Lines
    <2> QED
      BY <2>1, <2>2
  <1>6. ASSUME NEW h \in Untold, Awaited(h) PROVE Awaited(h)'
    <2>1. CASE h \in {asking[k] : k \in DOMAIN asking}
      BY <1>1, <2>1 DEF Awaited
    <2>2. CASE h \in {fromAvr[k].field : k \in DOMAIN fromAvr}
      <3>1. PICK k \in DOMAIN fromAvr : fromAvr[k].field = h
        BY <2>2
      <3>2. \E l \in DOMAIN fromAvr' : fromAvr'[l].field = h
        BY <1>4, <1>5, <3>1
      <3> QED
        BY <3>2 DEF Awaited
    <2>3. CASE Ask(h) \in {toAvr[k] : k \in DOMAIN toAvr} /\ AvrIsTurned
      <3>1. toAvr' = toAvr
        BY <2>3 DEF AvrIsTurned
      <3> QED
        BY <2>3, <3>1 DEF Awaited
    <2>4. CASE Ask(h) \in {toAvr[k] : k \in DOMAIN toAvr} /\ AvrExecutes
      <3>1. CASE Head(toAvr) = Ask(h)
        <4> DEFINE r == [field |-> h, value |-> avr'[h]]
        <4>1. Head(toAvr).field = h /\ Head(toAvr).kind = "ask"
          BY <3>1 DEF Ask
        <4>2. fromAvr' = Append(fromAvr, r) /\ r \in Lines /\ r.field = h
          <5>1. r \in Lines /\ r.field = h
            BY <1>2, UntoldAssumption DEF Lines
          <5>2. fromAvr' = Append(fromAvr, r)
            BY <2>4, <4>1 DEF AvrExecutes
          <5> QED
            BY <5>1, <5>2
        <4> HIDE DEF r
        <4>3. \E l \in DOMAIN fromAvr' : fromAvr'[l].field = h
          BY <1>4, <4>2
        <4> QED
          BY <4>3 DEF Awaited
      <3>2. CASE Head(toAvr) # Ask(h)
        <4>1. PICK k \in DOMAIN toAvr : toAvr[k] = Ask(h)
          BY <2>4
        <4>2. PICK l \in DOMAIN toAvr' : toAvr'[l] = Ask(h)
          BY <1>3, <2>4, <3>2, <4>1
        <4> QED
          BY <4>2 DEF Awaited
      <3> QED
        BY <3>1, <3>2
    <2> QED
      BY <1>6, <2>1, <2>2, <2>3, <2>4 DEF Awaited
  <1> QED
    BY <1>1, <1>6, StillKnown

\* request_state moves a query from what it has still to ask to what it asks.
LEMMA RequestKeepsUntold ==
  ASSUME TypeInv, UntoldAgree, RequestState
  PROVE  UntoldAgree'
  <1>1. /\ up /\ asking # <<>> /\ asking' = Tail(asking) /\ fromAvr' = fromAvr
        /\ toAvr' = Append(toAvr, Ask(Head(asking))) /\ asking \in Seq(Fields)
        /\ UNCHANGED <<state, clients, view>>
    BY DEF RequestState, proxyVars, TypeInv, TypeOK
  <1>2. /\ Head(asking) \in Fields
        /\ \A i \in DOMAIN asking : \/ asking[i] = Head(asking)
                                    \/ \E k \in DOMAIN asking' : asking'[k] = asking[i]
    <2>1. Head(asking) \in Fields
      BY <1>1
    <2>2. asking \in Seq(Fields) /\ asking # <<>> /\ asking' = Tail(asking)
      BY <1>1
    <2>3. \A i \in DOMAIN asking : \/ asking[i] = Head(asking)
                                  \/ \E k \in DOMAIN asking' : asking'[k] = asking[i]
      BY <2>2, TailKeeps
    <2> QED
      BY <2>1, <2>3
  <1>3. ASSUME NEW h \in Untold, h \in {asking[i] : i \in DOMAIN asking}
        PROVE  h \in {asking'[i] : i \in DOMAIN asking'} \/ Ask(Head(asking)) = Ask(h)
    BY <1>2, <1>3
  <1>4. \A h \in Untold : Awaited(h) => Awaited(h)'
    BY <1>1, <1>2, <1>3, CommandTyped, SentIsAwaited
  <1> QED
    BY <1>1, <1>4, StillKnown

\* A command, or the query that follows a step, is sent.
LEMMA SendKeepsUntold ==
  ASSUME TypeInv, UntoldAgree, up, NEW j \in Jobs, SendSucceeds(j) \/ FollowUp(j)
  PROVE  UntoldAgree'
  <1>1. UNCHANGED <<state, clients, view, asking, fromAvr>>
    BY DEF SendSucceeds, FollowUp
  <1>2. job[j].cmd \in Commands
    <2>1. j \in DOMAIN job
      BY SendTask, LateTask
    <2>2. job[j] \in JobRecords
      BY <2>1 DEF TypeInv, TypeOK
    <2> QED
      BY <2>2 DEF JobRecords
  <1>3. PICK cmd \in Commands : toAvr' = Append(toAvr, cmd)
    BY <1>2, CommandTyped DEF SendSucceeds, FollowUp
  <1>4. \A h \in Untold : Awaited(h) => Awaited(h)'
    BY <1>1, <1>3, SentIsAwaited
  <1> QED
    BY <1>1, <1>4, StillKnown

\* A client that joins has been told nothing of these fields.
LEMMA ClientsKeepUntold ==
  ASSUME TypeInv, UntoldAgree, up, NEW c \in Clients, Join(c) \/ Leave(c)
  PROVE  UntoldAgree'
  <1>1. /\ view \in [Clients -> States] /\ clients \subseteq Clients
        /\ UNCHANGED <<state, asking, toAvr, fromAvr>>
    BY DEF TypeInv, TypeOK, Join, Leave, linkVars
  <1>2. \A d \in Clients : d # c => view'[d] = view[d]
    BY <1>1 DEF Join, Leave
  <1>3. \A h \in Untold : view'[c][h] = None
    <2>1. CASE Join(c)
      <3>1. view'[c] = Told([f \in Fields |-> None], state)
        BY <1>1, <2>1 DEF Join
      <3> QED
        BY <3>1, UntoldAssumption DEF Told
    <2>2. CASE Leave(c)
      <3>1. view'[c] = [f \in Fields |-> None]
        BY <1>1, <2>2 DEF Leave
      <3> QED
        BY <3>1, UntoldAssumption
    <2> QED
      BY <2>1, <2>2
  <1>4. clients' \subseteq clients \cup {c}
    BY DEF Join, Leave
  <1> QED
    BY <1>1, <1>2, <1>3, <1>4 DEF UntoldAgree, Awaited

LEMMA StepKeepsUntold ==
  TypeInv /\ SyncInv /\ OnlyAsked /\ UntoldAgree /\ [Next]_vars => UntoldAgree'
  <1> SUFFICES ASSUME TypeInv, SyncInv, OnlyAsked, UntoldAgree, [Next]_vars PROVE UntoldAgree'
    OBVIOUS
  <1>1. CASE ~up'
    BY <1>1 DEF UntoldAgree
  <1>2. CASE Reconnect
    <2>1. asking' = AskAll
      BY <1>2 DEF Reconnect
    <2>2. \A h \in Untold : Awaited(h)'
      BY <2>1, AskAllAsks, UntoldAssumption DEF Awaited
    <2> QED
      BY <2>2 DEF UntoldAgree
  <1>3. CASE up' /\ ~Reconnect
    <2>a. CASE UNCHANGED <<state, clients, view, up, asking, toAvr, fromAvr>>
      BY <2>a DEF UntoldAgree, Awaited
    <2>1. CASE ~up
      <3>1. ASSUME NEW c \in Clients, Join(c) \/ Leave(c) PROVE up' = up
        BY <3>1 DEF Join, Leave, linkVars
      <3>2. ASSUME NEW cmd \in Input \cup HttpInput, Receive(cmd) \/ ReceiveHttp(cmd) PROVE up' = up
        BY <3>2 DEF Receive, ReceiveHttp, NewJob, linkVars
      <3>3. ASSUME NEW j \in Jobs,
                   Begin(j) \/ SendSucceeds(j) \/ SendFails(j) \/ Conclude(j) \/ FollowUp(j)
            PROVE  up' = up
        BY <2>1, <3>3 DEF Begin, SendSucceeds, SendFails, LoseConnection, Conclude, FollowUp, linkVars
      <3>4. CASE \/ OnAvrResponse \/ RequestState \/ Reconnected \/ Lose \/ DialFails
                 \/ AvrExecutes \/ AvrIsTurned \/ UNCHANGED vars
        BY <1>3, <2>1, <3>4 DEF OnAvrResponse, RequestState, Reconnected, Lose, LoseConnection,
                                DialFails, AvrExecutes, AvrIsTurned, vars, linkVars
      <3> QED
        BY <1>3, <2>1, <3>1, <3>2, <3>3, <3>4 DEF Next
    <2>2. CASE up
      <3>1. ASSUME NEW c \in Clients, Join(c) \/ Leave(c) PROVE UntoldAgree'
        BY <2>2, <3>1, ClientsKeepUntold
      <3>2. ASSUME NEW cmd \in Input \cup HttpInput, Receive(cmd) \/ ReceiveHttp(cmd)
            PROVE  UntoldAgree'
        BY <2>a, <3>2 DEF Receive, ReceiveHttp, NewJob, linkVars
      <3>3. ASSUME NEW j \in Jobs, Begin(j) PROVE UntoldAgree'
        BY <2>2, <3>3, BeginKeepsUntold
      <3>4. ASSUME NEW j \in Jobs, SendSucceeds(j) \/ FollowUp(j) PROVE UntoldAgree'
        BY <2>2, <3>4, SendKeepsUntold
      <3>5. ASSUME NEW j \in Jobs, SendFails(j) PROVE UntoldAgree'
        BY <1>3, <2>2, <3>5 DEF SendFails, LoseConnection
      <3>6. ASSUME NEW j \in Jobs, Conclude(j) PROVE UntoldAgree'
        BY <2>2, <3>6, ConcludeKeepsUntold
      <3>7. CASE OnAvrResponse
        BY <3>7, ResponseKeepsUntold
      <3>8. CASE RequestState
        BY <3>8, RequestKeepsUntold
      <3>9. CASE AvrExecutes \/ AvrIsTurned
        BY <2>2, <3>9, AvrKeepsUntold
      <3>10. CASE Lose
        BY <1>3, <3>10 DEF Lose, LoseConnection
      <3>11. CASE Reconnected \/ DialFails \/ UNCHANGED vars
        BY <2>a, <3>11 DEF Reconnected, DialFails, vars, proxyVars, linkVars
      <3> QED
        BY <1>3, <3>1, <3>2, <3>3, <3>4, <3>5, <3>6, <3>7, <3>8, <3>9, <3>10, <3>11 DEF Next
    <2>3. up \in BOOLEAN
      BY DEF TypeInv, TypeOK
    <2> QED
      BY <2>1, <2>2, <2>3
  <1> QED
    BY <1>1, <1>2, <1>3

\* A task keeps its command.
LEMMA StepOnlyAsked == TypeInv /\ OnlyAsked /\ [Next]_vars => OnlyAsked'
  <1> SUFFICES ASSUME TypeInv, OnlyAsked, [Next]_vars PROVE OnlyAsked'
    OBVIOUS
  <1>1. ASSUME NEW cmd \in Input \cup HttpInput, NEW stage \in Stages, NEW http \in BOOLEAN,
               NewJob(cmd, stage, http)
        PROVE  OnlyAsked'
    <2>1. /\ DOMAIN job' = DOMAIN job \cup {Len(job')}
          /\ \A k \in DOMAIN job : job'[k] = job[k]
          /\ job'[Len(job')].cmd = cmd
      BY <1>1, NewTask, InputAssumption
    <2> QED
      BY <2>1, UntoldAssumption DEF OnlyAsked
  <1>2. ASSUME NEW cmd \in Input, Receive(cmd) PROVE OnlyAsked'
    BY <1>1, <1>2 DEF Receive, Stages
  <1>3. ASSUME NEW cmd \in HttpInput, ReceiveHttp(cmd) PROVE OnlyAsked'
    BY <1>1, <1>3 DEF ReceiveHttp, Stages
  <1>4. ASSUME NEW j \in Jobs,
               Begin(j) \/ SendSucceeds(j) \/ SendFails(j) \/ Conclude(j) \/ FollowUp(j)
        PROVE  OnlyAsked'
    <2>1. /\ DOMAIN job' = DOMAIN job /\ j \in DOMAIN job
          /\ \A k \in DOMAIN job : k # j => job'[k] = job[k]
          /\ job'[j].cmd = job[j].cmd
      BY <1>4, BeginTask, SendTask, LateTask
    <2> QED
      BY <2>1 DEF OnlyAsked
  <1>5. ASSUME UNCHANGED job PROVE OnlyAsked'
    BY <1>5 DEF OnlyAsked
  <1>6. ASSUME NEW c \in Clients, Join(c) \/ Leave(c) PROVE OnlyAsked'
    BY <1>5, <1>6 DEF Join, Leave
  <1>7. CASE \/ OnAvrResponse \/ RequestState \/ Reconnected \/ Lose \/ Reconnect \/ DialFails
             \/ AvrExecutes \/ AvrIsTurned \/ UNCHANGED vars
    BY <1>5, <1>7 DEF OnAvrResponse, RequestState, Reconnected, Lose, Reconnect, DialFails,
                      AvrExecutes, AvrIsTurned, vars, proxyVars
  <1> QED
    BY <1>2, <1>3, <1>4, <1>6, <1>7 DEF Next

\* A client knows what the proxy knows, except of a field a command has
\* changed whose delay is not over: whatever is reverted, reported or changed
\* by others in between, for any number of clients and commands.  What no dump
\* tells it knows from the AVR's lines: no revert makes the proxy forget that,
\* except while the connection is lost or its AVR is being asked.
THEOREM ClientsAreTold == Spec => []ViewsAgree
  <1>1. Init => DumpsAgree /\ UntoldAgree /\ OnlyAsked
    BY DEF Init, DumpsAgree, UntoldAgree, OnlyAsked
  <1>2. DumpsAgree /\ UntoldAgree => ViewsAgree
    BY DEF DumpsAgree, UntoldAgree, ViewsAgree, Trying
  <1> QED
    BY <1>1, <1>2, InitTyped, StepTyped, InitInSync, StepInSync, StepAgrees, StepOnlyAsked,
       StepKeepsUntold, PTL DEF Spec
=============================================================================
