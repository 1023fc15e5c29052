-------------------------- MODULE HttpServer_proofs --------------------------
(***************************************************************************)
(* Proofs about the HTTP server, for any number of connections and clients *)
(* and any bounds.                                                         *)
(*                                                                         *)
(* SubscribersUpToDate is inductive: whoever makes the status stale leaves *)
(* a push task, a delay or a question to the AVR behind, and the push that *)
(* runs last tells everyone.  LostIsForgotten needs that only streams are  *)
(* subscribers and that a handler closes only what it has answered.        *)
(* LogKeepsNewest is inductive as well: what it says of one more record is *)
(* NewestOfOneMore, and that EntriesIn, a recursive function, adds one     *)
(* entry at a time is EntriesOfOneMore.                                    *)
(***************************************************************************)
EXTENDS HttpServer, SequenceTheorems, WellFoundedInduction, TLAPS

\* What holds of 0, and of n + 1 whenever of n, holds of all numbers.
LEMMA Induction ==
  ASSUME NEW T, T \subseteq Nat, 0 \in T, \A n \in T : n + 1 \in T
  PROVE  T = Nat
  <1> SUFFICES ASSUME Nat \ T # {} PROVE FALSE
    OBVIOUS
  <1>1. PICK m \in Nat \ T : \A n \in Nat \ T : <<n, m>> \notin OpToRel(<, Nat)
    <2> DEFINE S == Nat \ T
    <2>1. S \subseteq Nat
      OBVIOUS
    <2> HIDE DEF S
    <2> QED
      BY <2>1, NatLessThanWellFounded, WFMin, Zenon DEF S
  <1>2. \A n \in Nat \ T : ~(n < m)
    BY <1>1, Zenon DEF OpToRel
  <1> QED
    BY <1>2

\* Only streams subscribe.
SubscribersAreStreams == subscribers \subseteq sse

\* Only a response closes a connection from this side.
ClosedAreAnswered == \A c \in Conns : conn[c] = "closed" => c \in answered

Inv ==
  /\ TypeOK
  /\ SubscribersAreStreams
  /\ ClosedAreAnswered
  /\ LostIsForgotten
  /\ SubscribersUpToDate
  /\ LogKeepsNewest

\* Push tasks are counted by numbers.
LEMMA NotifyCounts ==
  ASSUME TypeOK, NEW n \in {0, 1, 2}, Notify(n)
  PROVE  pushes' \in 0..MaxPushes /\ (n > 0 => pushes' > 0)
  BY BoundsAssumption DEF TypeOK, Notify

\* What is recorded keeps the types of the log.
LEMMA RecordTypes ==
  ASSUME TypeOK, NEW source \in Sources, NEW entry \in Entries, Record(source, entry)
  PROVE  log' \in [Sources -> Seq(Entries)] /\ recorded' \in Seq(Sources \X Entries)
  <1>1. recorded' \in Seq(Sources \X Entries)
    BY DEF TypeOK, Record
  <1>2. CASE log' = log
    BY <1>1, <1>2 DEF TypeOK
  <1>3. CASE log' # log
    <2> DEFINE all == Append(log[source], entry)
               kept == IF Len(all) > MaxEntries THEN Tail(all) ELSE all
    <2>0. log[source] \in Seq(Entries)
      BY DEF TypeOK
    <2>1. all \in Seq(Entries) /\ all # <<>>
      BY <2>0
    <2>2. kept \in Seq(Entries)
      <3> HIDE DEF all
      <3> QED
        BY <2>1
    <2>3. log' = [log EXCEPT ![source] = kept]
      BY <1>3 DEF Record, Store
    <2> HIDE DEF kept
    <2> QED
      BY <1>1, <2>2, <2>3 DEF TypeOK
  <1> QED
    BY <1>2, <1>3

\* Every step keeps the types.
LEMMA TypeStep ==
  ASSUME TypeOK, [Next]_vars
  PROVE  TypeOK'
  <1> USE DEF httpVars, logVars, avrVars
  <1>1. ASSUME NEW c \in Conns, Connect(c) PROVE TypeOK'
    BY <1>1 DEF TypeOK, Connect, ConnStates
  <1>2. ASSUME NEW c \in Conns, GetEvents(c) PROVE TypeOK'
    BY <1>2, NotifyCounts DEF TypeOK, GetEvents
  <1>3. ASSUME NEW c \in Conns, AnswerOnly(c) PROVE TypeOK'
    BY <1>3 DEF TypeOK, AnswerOnly, Answer, ConnStates
  <1>4. ASSUME NEW c \in Conns, NEW source \in Sources, NEW cmd \in Commands, Command(c, source, cmd)
        PROVE  TypeOK'
    <2>1. pushes' \in 0..MaxPushes /\ fresh' \subseteq Conns
      BY <1>4, NotifyCounts DEF Command, Change, TypeOK
    <2>2. log' \in [Sources -> Seq(Entries)] /\ recorded' \in Seq(Sources \X Entries)
      BY <1>4, RecordTypes DEF Command, Entries
    <2> QED
      BY <1>4, <2>1, <2>2 DEF TypeOK, Command, Answer, ConnStates
  <1>5. ASSUME NEW c \in Conns, PeerDrops(c) PROVE TypeOK'
    BY <1>5 DEF TypeOK, PeerDrops, ConnStates
  <1>6. ASSUME NEW c \in Conns, ConnectionLost(c) PROVE TypeOK'
    BY <1>6 DEF TypeOK, ConnectionLost, ConnStates
  <1>7. CASE Push
    BY <1>7, BoundsAssumption DEF TypeOK, Push
  <1>8. ASSUME NEW p \in Peers, TelnetJoin(p) PROVE TypeOK'
    <2>1. pushes' \in 0..MaxPushes
      BY <1>8, NotifyCounts DEF TelnetJoin, Change
    <2>2. log' \in [Sources -> Seq(Entries)] /\ recorded' \in Seq(Sources \X Entries)
      BY <1>8, RecordTypes DEF TelnetJoin, Entries, Sources
    <2> QED
      BY <1>8, <2>1, <2>2 DEF TypeOK, TelnetJoin, Change
  <1>9. ASSUME NEW p \in Peers, TelnetLeave(p) PROVE TypeOK'
    <2>1. pushes' \in 0..MaxPushes
      BY <1>9, NotifyCounts DEF TelnetLeave, Change
    <2>2. log' \in [Sources -> Seq(Entries)] /\ recorded' \in Seq(Sources \X Entries)
      BY <1>9, RecordTypes DEF TelnetLeave, Entries, Sources
    <2> QED
      BY <1>9, <2>1, <2>2 DEF TypeOK, TelnetLeave, Change
  <1>10. ASSUME NEW p \in Peers, NEW cmd \in Commands, TelnetCommand(p, cmd) PROVE TypeOK'
    <2>1. pushes' \in 0..MaxPushes
      BY <1>10, NotifyCounts DEF TelnetCommand
    <2>2. log' \in [Sources -> Seq(Entries)] /\ recorded' \in Seq(Sources \X Entries)
      BY <1>10, RecordTypes DEF TelnetCommand, Entries, Sources
    <2>3. delays' \in Nat /\ fresh' \subseteq Conns
      BY <1>10 DEF TypeOK, TelnetCommand
    <2> QED
      BY <1>10, <2>1, <2>2, <2>3 DEF TypeOK, TelnetCommand
  <1>11. CASE BroadcastState
    BY <1>11, NotifyCounts DEF TypeOK, BroadcastState, Change
  <1>12. CASE SendFails
    BY <1>12, NotifyCounts DEF TypeOK, SendFails
  <1>13. CASE AvrLine
    BY <1>13, NotifyCounts DEF TypeOK, AvrLine, Change
  <1>14. CASE AvrLost
    BY <1>14, NotifyCounts DEF TypeOK, AvrLost, Change
  <1>15. CASE Reconnect
    BY <1>15 DEF TypeOK, Reconnect
  <1>16. CASE UNCHANGED vars
    BY <1>16 DEF TypeOK, vars
  <1> QED
    BY <1>1, <1>2, <1>3, <1>4, <1>5, <1>6, <1>7, <1>8, <1>9, <1>10, <1>11, <1>12, <1>13, <1>14,
       <1>15, <1>16 DEF Next

\* Steps that are not about HTTP connections.
LEMMA OthersKeepConnections ==
  ASSUME [Next]_vars, ~\E c \in Conns :
           \/ Connect(c) \/ GetEvents(c) \/ AnswerOnly(c) \/ PeerDrops(c) \/ ConnectionLost(c)
           \/ \E source \in Sources, cmd \in Commands : Command(c, source, cmd)
  PROVE  UNCHANGED httpVars
  BY DEF Next, vars, httpVars, Push, TelnetJoin, TelnetLeave, TelnetCommand, BroadcastState,
         SendFails, AvrLine, AvrLost, Reconnect

\* The connections: who subscribes is a stream, who is closed was answered,
\* and who is lost is forgotten.
Forgets == SubscribersAreStreams /\ ClosedAreAnswered /\ LostIsForgotten

LEMMA ForgetsStep ==
  ASSUME TypeOK, Forgets, [Next]_vars
  PROVE  Forgets'
  <1> USE DEF TypeOK, Forgets, SubscribersAreStreams, ClosedAreAnswered, LostIsForgotten
  <1>1. ASSUME NEW c \in Conns, Connect(c) PROVE Forgets'
    BY <1>1 DEF Connect
  <1>2. ASSUME NEW c \in Conns, GetEvents(c) PROVE Forgets'
    BY <1>2 DEF GetEvents
  <1>3. ASSUME NEW c \in Conns, Answer(c) PROVE Forgets'
    BY <1>3 DEF Answer
  <1>4. ASSUME NEW c \in Conns, PeerDrops(c) PROVE Forgets'
    BY <1>4 DEF PeerDrops
  <1>5. ASSUME NEW c \in Conns, ConnectionLost(c) PROVE Forgets'
    BY <1>5 DEF ConnectionLost
  <1>6. CASE UNCHANGED httpVars
    BY <1>6 DEF httpVars
  <1> QED
    BY <1>1, <1>2, <1>3, <1>4, <1>5, <1>6, OthersKeepConnections DEF AnswerOnly, Command

\* Whatever makes the status stale leaves something behind that will tell.
LEMMA UpToDateStep ==
  ASSUME TypeOK, SubscribersUpToDate, [Next]_vars
  PROVE  SubscribersUpToDate'
  <1> USE DEF SubscribersUpToDate, httpVars, logVars, avrVars
  <1>0. ASSUME NEW n \in {1, 2}, Notify(n) PROVE SubscribersUpToDate'
    BY <1>0, NotifyCounts
  <1>1. ASSUME NEW c \in Conns, Connect(c) PROVE SubscribersUpToDate'
    BY <1>1 DEF Connect, TypeOK
  <1>2. ASSUME NEW c \in Conns, GetEvents(c) PROVE SubscribersUpToDate'
    BY <1>0, <1>2 DEF GetEvents
  <1>3. ASSUME NEW c \in Conns, AnswerOnly(c) PROVE SubscribersUpToDate'
    BY <1>3 DEF AnswerOnly, Answer, TypeOK
  <1>4. ASSUME NEW c \in Conns, NEW source \in Sources, NEW cmd \in Commands, Command(c, source, cmd)
        PROVE  SubscribersUpToDate'
    <2>1. CASE Stores(cmd)
      BY <1>0, <1>4, <2>1 DEF Command, Change
    <2>2. CASE ~Stores(cmd)
      BY <1>4, <2>2 DEF Command, Answer, TypeOK
    <2> QED
      BY <2>1, <2>2
  <1>5. ASSUME NEW c \in Conns, PeerDrops(c) PROVE SubscribersUpToDate'
    BY <1>5 DEF PeerDrops, TypeOK
  <1>6. ASSUME NEW c \in Conns, ConnectionLost(c) PROVE SubscribersUpToDate'
    BY <1>6 DEF ConnectionLost, TypeOK
  <1>7. CASE Push
    BY <1>7 DEF Push
  <1>8. ASSUME NEW p \in Peers, TelnetJoin(p) \/ TelnetLeave(p) PROVE SubscribersUpToDate'
    BY <1>0, <1>8 DEF TelnetJoin, TelnetLeave, Change
  <1>9. ASSUME NEW p \in Peers, NEW cmd \in Commands, TelnetCommand(p, cmd)
        PROVE  SubscribersUpToDate'
    <2>1. CASE Stores(cmd)
      BY <1>0, <1>9, <2>1 DEF TelnetCommand
    <2>2. CASE ~Stores(cmd) /\ delays' = delays + 1
      BY <2>2 DEF TypeOK
    <2>3. CASE ~Stores(cmd) /\ delays' = delays
      <3>1. fresh' = fresh /\ pushes' = pushes
        BY <1>9, <2>3 DEF TelnetCommand, Notify, TypeOK
      <3> QED
        BY <1>9, <2>3, <3>1 DEF TelnetCommand
    <2> QED
      BY <1>9, <2>1, <2>2, <2>3 DEF TelnetCommand
  <1>10. CASE BroadcastState \/ SendFails \/ AvrLine \/ AvrLost
    BY <1>0, <1>10 DEF BroadcastState, SendFails, AvrLine, AvrLost, Change
  <1>11. CASE Reconnect
    BY <1>11 DEF Reconnect
  <1>12. CASE UNCHANGED vars
    BY <1>12 DEF vars
  <1> QED
    BY <1>1, <1>2, <1>3, <1>4, <1>5, <1>6, <1>7, <1>8, <1>9, <1>10, <1>11, <1>12 DEF Next

-----------------------------------------------------------------------------
(***************************************************************************)
(* The log.                                                                *)
(***************************************************************************)

\* EntriesIn goes through the records one by one.
LEMMA EntriesStepwise ==
  ASSUME NEW records, Len(records) \in Nat, NEW kept
  PROVE  \E upTo : /\ upTo[0] = <<>>
                   /\ \A i \in 1..Len(records) :
                        upTo[i] = IF records[i] \in kept THEN Append(upTo[i - 1], records[i][2])
                                  ELSE upTo[i - 1]
                   /\ EntriesIn(records, kept) = upTo[Len(records)]
  <1> DEFINE empty == <<>>
             Next1(f, i) == IF i = 0 THEN empty
                            ELSE IF records[i] \in kept THEN Append(f[i - 1], records[i][2])
                            ELSE f[i - 1]
             T == {n \in Nat : \E f : f = [i \in 0..n |-> Next1(f, i)]}
  <1>0. empty = <<>>
    OBVIOUS
  <1> HIDE DEF empty
  <1>1. 0 \in T
    <2> DEFINE f == [i \in 0..0 |-> empty]
    <2>1. f = [i \in 0..0 |-> Next1(f, i)]
      OBVIOUS
    <2> QED
      BY <2>1
  <1>2. ASSUME NEW n \in T PROVE n + 1 \in T
    <2>0. n \in Nat
      OBVIOUS
    <2>1. PICK f : f = [i \in 0..n |-> Next1(f, i)]
      OBVIOUS
    <2> DEFINE g == [i \in 0..n + 1 |-> Next1(f, i)]
    <2>2. \A i \in 0..n : g[i] = f[i]
      <3> HIDE DEF Next1
      <3>1. \A i \in 0..n : f[i] = Next1(f, i)
        BY <2>1
      <3>2. \A i \in 0..n : g[i] = Next1(f, i)
        BY <2>0
      <3> QED
        BY <3>1, <3>2
    <2>3. \A i \in 0..n + 1 : Next1(f, i) = Next1(g, i)
      <3> TAKE i \in 0..n + 1
      <3>1. CASE i = 0
        BY <3>1
      <3>2. CASE i # 0
        <4> HIDE DEF g, T
        <4>1. i - 1 \in 0..n
          BY <2>0, <3>2
        <4> QED
          BY <2>2, <3>2, <4>1
      <3> QED
        BY <3>1, <3>2
    <2>4. g = [i \in 0..n + 1 |-> Next1(g, i)]
      <3> HIDE DEF Next1
      <3> QED
        BY <2>3
    <2> HIDE DEF g
    <2> QED
      BY <2>4
  <1>3. Len(records) \in T
    <2>1. T \subseteq Nat
      OBVIOUS
    <2> HIDE DEF T
    <2> QED
      BY <1>1, <1>2, <2>1, Induction
  <1>4. PICK f : f = [i \in 0..Len(records) |-> Next1(f, i)]
    BY <1>3
  <1> DEFINE upTo == CHOOSE g : g = [i \in 0..Len(records) |-> Next1(g, i)]
  <1>5. upTo = [i \in 0..Len(records) |-> Next1(upTo, i)]
    BY <1>4
  <1>6. EntriesIn(records, kept) = upTo[Len(records)]
    BY DEF EntriesIn, empty
  <1> HIDE DEF upTo
  <1>7. \A i \in 0..Len(records) : upTo[i] = Next1(upTo, i)
    <2> HIDE DEF Next1
    <2> QED
      BY <1>5
  <1>8. upTo[0] = <<>>
    BY <1>0, <1>7
  <1>9. \A i \in 1..Len(records) :
          upTo[i] = IF records[i] \in kept THEN Append(upTo[i - 1], records[i][2])
                    ELSE upTo[i - 1]
    BY <1>7
  <1> QED
    BY <1>6, <1>8, <1>9

\* Records have the form of the model.
Records == Seq(Sources \X Entries)

\* The entries are those of the records, and of one more record.
LEMMA EntriesOfOneMore ==
  ASSUME NEW records \in Records, NEW r \in Sources \X Entries, NEW kept
  PROVE  /\ EntriesIn(records, kept) \in Seq(Entries)
         /\ EntriesIn(Append(records, r), kept)
              = IF r \in kept THEN Append(EntriesIn(records, kept), r[2])
                ELSE EntriesIn(records, kept)
  <1> DEFINE n == Len(records)
             more == Append(records, r)
  <1>1. n \in Nat /\ more \in Records /\ Len(more) = n + 1 /\ more[n + 1] = r
        /\ \A i \in 1..n : more[i] = records[i] /\ records[i] \in Sources \X Entries
    BY DEF Records
  <1>2. PICK f : /\ f[0] = <<>>
                 /\ \A i \in 1..n : f[i] = IF records[i] \in kept
                                           THEN Append(f[i - 1], records[i][2]) ELSE f[i - 1]
                 /\ EntriesIn(records, kept) = f[n]
    BY <1>1, EntriesStepwise
  <1>3. PICK g : /\ g[0] = <<>>
                 /\ \A i \in 1..n + 1 : g[i] = IF more[i] \in kept
                                               THEN Append(g[i - 1], more[i][2]) ELSE g[i - 1]
                 /\ EntriesIn(more, kept) = g[n + 1]
    <2> HIDE DEF more
    <2>1. PICK g : /\ g[0] = <<>>
                   /\ \A i \in 1..Len(more) : g[i] = IF more[i] \in kept
                                                    THEN Append(g[i - 1], more[i][2]) ELSE g[i - 1]
                   /\ EntriesIn(more, kept) = g[Len(more)]
      <3>1. Len(more) \in Nat
        BY <1>1
      <3> QED
        BY <3>1, EntriesStepwise
    <2>2. Len(more) = n + 1
      BY <1>1
    <2> HIDE DEF n
    <2> QED
      BY <2>1, <2>2, Zenon
  <1> HIDE DEF n, more
  <1> DEFINE T == {k \in Nat : k <= n => f[k] \in Seq(Entries) /\ g[k] = f[k]}
  <1>4. 0 \in T
    <2>1. <<>> \in Seq(Entries)
      OBVIOUS
    <2>2. f[0] \in Seq(Entries) /\ g[0] = f[0]
      BY <1>2, <1>3, <2>1
    <2> QED
      BY <2>2
  <1>5. ASSUME NEW k \in T PROVE k + 1 \in T
    <2> SUFFICES ASSUME k + 1 <= n
                 PROVE  f[k + 1] \in Seq(Entries) /\ g[k + 1] = f[k + 1]
      OBVIOUS
    <2>1. k \in Nat /\ k + 1 \in 1..n /\ k + 1 \in 1..n + 1 /\ (k + 1) - 1 = k
      BY <1>1
    <2>2. f[k] \in Seq(Entries) /\ g[k] = f[k]
      BY <1>1, <2>1
    <2>3. more[k + 1] = records[k + 1] /\ records[k + 1][2] \in Entries
      BY <1>1, <2>1
    <2>4. /\ f[k + 1] = IF records[k + 1] \in kept THEN Append(f[k], records[k + 1][2]) ELSE f[k]
          /\ g[k + 1] = IF more[k + 1] \in kept THEN Append(g[k], more[k + 1][2]) ELSE g[k]
      <3> HIDE DEF T
      <3> QED
        BY <1>2, <1>3, <2>1
    <2> HIDE DEF T
    <2> QED
      BY <2>2, <2>3, <2>4
  <1>6. T \subseteq Nat
    OBVIOUS
  <1>7. f[n] \in Seq(Entries) /\ g[n] = f[n]
    <2>1. T = Nat
      <3> HIDE DEF T
      <3> QED
        BY <1>4, <1>5, <1>6, Induction
    <2> QED
      BY <1>1, <2>1
  <1>8. g[n + 1] = IF r \in kept THEN Append(g[n], r[2]) ELSE g[n]
    BY <1>1, <1>3
  <1> QED
    BY <1>2, <1>3, <1>7, <1>8 DEF more

\* The newest of a sequence that grows: what a deque with a maximal length does.
LEMMA NewestOfOneMore ==
  ASSUME NEW all \in Seq(Entries), NEW x \in Entries
  PROVE  LET more == Append(Newest(all, MaxEntries), x)
         IN  Newest(Append(all, x), MaxEntries)
               = IF Len(more) > MaxEntries THEN Tail(more) ELSE more
  <1> DEFINE k == Len(all)
             N == MaxEntries
             from == IF k > N THEN k - N + 1 ELSE 1
             kept == Newest(all, N)
             more == Append(kept, x)
             grown == Append(all, x)
  <1>1. k \in Nat /\ N \in Nat \ {0}
    BY BoundsAssumption
  <1>2. grown \in Seq(Entries) /\ Len(grown) = k + 1 /\ grown[k + 1] = x
        /\ \A i \in 1..k : grown[i] = all[i] /\ all[i] \in Entries
    OBVIOUS
  <1>3. /\ kept \in Seq(Entries)
        /\ Len(kept) = k - from + 1
        /\ \A i \in 1..k - from + 1 : kept[i] = all[from + i - 1]
    <2>1. from \in Int /\ from >= 1 /\ from <= k + 1 /\ k \in Int
      BY <1>1
    <2>2. kept = SubSeq(all, from, k)
      BY DEF Newest
    <2> HIDE DEF from, k, kept
    <2>3. \A i \in from..k : all[i] \in Entries
      BY <1>2, <2>1
    <2>4. /\ SubSeq(all, from, k) \in Seq(Entries)
          /\ Len(SubSeq(all, from, k)) = IF from <= k THEN k - from + 1 ELSE 0
          /\ \A i \in 1..k - from + 1 : SubSeq(all, from, k)[i] = all[from + i - 1]
      BY <2>1, <2>3, SubSeqProperties
    <2> QED
      BY <2>1, <2>2, <2>4
  <1> HIDE DEF kept
  <1>4. more \in Seq(Entries) /\ Len(more) = k - from + 2 /\ more[k - from + 2] = x
        /\ \A i \in 1..k - from + 1 : more[i] = all[from + i - 1]
    <2>1. more \in Seq(Entries) /\ Len(more) = Len(kept) + 1 /\ more[Len(kept) + 1] = x
          /\ \A i \in 1..Len(kept) : more[i] = kept[i]
      BY <1>3
    <2>2. from \in Int /\ k \in Nat
      BY <1>1
    <2>3. Len(kept) \in Nat /\ Len(kept) = k - from + 1
      BY <1>3
    <2> HIDE DEF more, from, k
    <2>4. Len(kept) + 1 = k - from + 2
      BY <2>2, <2>3
    <2> QED
      BY <1>3, <2>1, <2>3, <2>4
  <1> DEFINE start == IF k + 1 > N THEN (k + 1) - N + 1 ELSE 1
             new == Newest(grown, N)
  <1>5. /\ new \in Seq(Entries)
        /\ Len(new) = (k + 1) - start + 1
        /\ \A i \in 1..(k + 1) - start + 1 : new[i] = grown[start + i - 1]
    <2>1. start \in Int /\ start >= 1 /\ start <= k + 1 /\ k + 1 \in Int
      BY <1>1
    <2>2. new = SubSeq(grown, start, k + 1)
      BY <1>2 DEF Newest
    <2> HIDE DEF start, k, new, grown
    <2>3. \A i \in start..k + 1 : grown[i] \in Entries
      BY <1>1, <1>2, <2>1
    <2>4. /\ SubSeq(grown, start, k + 1) \in Seq(Entries)
          /\ Len(SubSeq(grown, start, k + 1)) = IF start <= k + 1 THEN (k + 1) - start + 1 ELSE 0
          /\ \A i \in 1..(k + 1) - start + 1 : SubSeq(grown, start, k + 1)[i] = grown[start + i - 1]
      BY <2>1, <2>3, SubSeqProperties
    <2> QED
      BY <2>1, <2>2, <2>4
  <1> HIDE DEF more, new, grown
  <1>6. CASE k + 1 <= N
    <2>1. from = 1 /\ start = 1
      BY <1>1, <1>6
    <2>2. Len(more) = k + 1 /\ Len(new) = k + 1
      <3> HIDE DEF from, start, k
      <3> QED
        BY <1>1, <1>4, <1>5, <2>1
    <2>3. \A i \in 1..k + 1 : new[i] = more[i]
      <3> HIDE DEF from, start, k
      <3> TAKE i \in 1..k + 1
      <3>1. new[i] = grown[i]
        BY <1>1, <1>5, <2>1
      <3>2. CASE i = k + 1
        BY <1>1, <1>2, <1>4, <2>1, <3>1, <3>2
      <3>3. CASE i # k + 1
        BY <1>1, <1>2, <1>4, <2>1, <3>1, <3>3
      <3> QED
        BY <3>2, <3>3
    <2>4. new = more
      BY <1>4, <1>5, <2>2, <2>3, SeqEqual
    <2>5. ~(Len(more) > N)
      BY <1>1, <1>6, <2>2
    <2> QED
      BY <2>4, <2>5 DEF new, more, kept, grown
  <1>7. CASE k + 1 > N
    <2>1. from = k - N + 1 /\ start = k - N + 2
      BY <1>1, <1>7
    <2>2. Len(more) = N + 1 /\ Len(new) = N
      <3> HIDE DEF from, start, k, N
      <3> QED
        BY <1>1, <1>4, <1>5, <2>1
    <2>3. more # <<>> /\ Len(more) > N
      BY <1>1, <2>2
    <2>4. Tail(more) \in Seq(Entries) /\ Len(Tail(more)) = N
          /\ \A i \in 1..N : Tail(more)[i] = more[i + 1]
      BY <1>1, <1>4, <2>2, <2>3, HeadTailProperties
    <2>5. \A i \in 1..N : new[i] = more[i + 1]
      <3> HIDE DEF from, start, k, N
      <3> TAKE i \in 1..N
      <3>1. new[i] = grown[k - N + 1 + i]
        <4>1. i \in 1..(k + 1) - start + 1 /\ start + i - 1 = k - N + 1 + i
          BY <1>1, <2>1
        <4> QED
          BY <1>5, <4>1
      <3>2. CASE i = N
        BY <1>1, <1>2, <1>4, <2>1, <3>1, <3>2
      <3>3. CASE i # N
        <4>1. more[i + 1] = all[k - N + 1 + i]
          BY <1>1, <1>4, <2>1, <3>3
        <4>2. k - N + 1 + i \in 1..k
          BY <1>1, <1>7, <3>3
        <4>3. grown[k - N + 1 + i] = all[k - N + 1 + i]
          BY <1>2, <4>2
        <4> QED
          BY <3>1, <4>1, <4>3
      <3> QED
        BY <3>2, <3>3
    <2>6. new = Tail(more)
      BY <1>5, <2>2, <2>4, <2>5, SeqEqual
    <2> QED
      BY <2>3, <2>6 DEF new, more, kept, grown
  <1> QED
    BY <1>1, <1>6, <1>7

LEMMA RecordKeepsNewest ==
  ASSUME TypeOK, LogKeepsNewest, config' = config,
         NEW from \in Sources, NEW entry \in Entries, Record(from, entry)
  PROVE  LogKeepsNewest'
  <1> SUFFICES ASSUME NEW source \in Sources
               PROVE  log'[source] = Newest(EntriesIn(recorded', Kept(source)), MaxEntries)
    BY DEF LogKeepsNewest, Kept, Stores, Hidden
  <1> DEFINE r == <<from, entry>>
             all == EntriesIn(recorded, Kept(source))
  <1>1. recorded \in Records /\ r \in Sources \X Entries
    BY DEF TypeOK, Records
  <1>2. all \in Seq(Entries) /\ EntriesIn(recorded', Kept(source))
              = IF r \in Kept(source) THEN Append(all, entry) ELSE all
    BY <1>1, EntriesOfOneMore DEF Record
  <1>3. log[source] = Newest(all, MaxEntries)
    BY DEF LogKeepsNewest
  <1>4. r \in Kept(source) <=> from = source /\ Stores(entry)
    BY DEF Kept
  <1> HIDE DEF all
  <1>5. CASE r \in Kept(source)
    <2>1. log'[source] = LET more == Append(log[source], entry)
                         IN  IF Len(more) > MaxEntries THEN Tail(more) ELSE more
      BY <1>4, <1>5 DEF Record, Store, Stores, TypeOK
    <2> QED
      BY <1>2, <1>3, <1>5, <2>1, NewestOfOneMore
  <1>6. CASE r \notin Kept(source)
    <2>1. log'[source] = log[source]
      BY <1>4, <1>6 DEF Record, Store, Stores, TypeOK
    <2> QED
      BY <1>2, <1>3, <1>6, <2>1
  <1> QED
    BY <1>5, <1>6

LEMMA LogStep ==
  ASSUME TypeOK, LogKeepsNewest, [Next]_vars
  PROVE  LogKeepsNewest'
  <1>1. CASE UNCHANGED <<config, logVars>>
    BY <1>1 DEF LogKeepsNewest, Kept, Stores, Hidden, logVars
  <1>2. CASE config' = config /\ \E source \in Sources, entry \in Entries : Record(source, entry)
    BY <1>2, RecordKeepsNewest
  <1>3. ASSUME NEW c \in Conns, NEW source \in Sources, NEW cmd \in Commands, Command(c, source, cmd)
        PROVE  LogKeepsNewest'
    BY <1>2, <1>3 DEF Command, Answer, Entries
  <1>4. ASSUME NEW p \in Peers, TelnetJoin(p) \/ TelnetLeave(p) PROVE LogKeepsNewest'
    BY <1>2, <1>4 DEF TelnetJoin, TelnetLeave, Entries, Sources
  <1>5. ASSUME NEW p \in Peers, NEW cmd \in Commands, TelnetCommand(p, cmd) PROVE LogKeepsNewest'
    BY <1>2, <1>5 DEF TelnetCommand, Entries, Sources
  <1>6. ASSUME NEW c \in Conns, Connect(c) \/ GetEvents(c) \/ AnswerOnly(c) \/ PeerDrops(c)
                                \/ ConnectionLost(c)
        PROVE  LogKeepsNewest'
    BY <1>1, <1>6 DEF Connect, GetEvents, AnswerOnly, Answer, PeerDrops, ConnectionLost
  <1>7. CASE Push \/ BroadcastState \/ SendFails \/ AvrLine \/ AvrLost \/ Reconnect
    BY <1>1, <1>7 DEF Push, BroadcastState, SendFails, AvrLine, AvrLost, Reconnect
  <1>8. CASE UNCHANGED vars
    BY <1>1, <1>8 DEF vars
  <1> QED
    BY <1>3, <1>4, <1>5, <1>6, <1>7, <1>8 DEF Next

-----------------------------------------------------------------------------
LEMMA InitInv == Init => Inv
  <1> SUFFICES ASSUME Init PROVE Inv
    OBVIOUS
  <1>1. log \in [Sources -> Seq(Entries)] /\ recorded \in Seq(Sources \X Entries)
    <2>1. <<>> \in Seq(Entries) /\ <<>> \in Seq(Sources \X Entries)
      OBVIOUS
    <2> QED
      BY <2>1 DEF Init
  <1>2. conn \in [Conns -> ConnStates] /\ pushes \in 0..MaxPushes /\ delays \in Nat
    BY BoundsAssumption DEF Init, ConnStates
  <1>3. TypeOK
    BY <1>1, <1>2 DEF Init, TypeOK
  <1>4. LogKeepsNewest
    <2> SUFFICES ASSUME NEW source \in Sources
                 PROVE  log[source] = Newest(EntriesIn(recorded, Kept(source)), MaxEntries)
      BY DEF LogKeepsNewest
    <2>1. log[source] = <<>> /\ recorded = <<>>
      BY DEF Init
    <2>2. EntriesIn(recorded, Kept(source)) = <<>>
      <3>1. Len(recorded) = 0 /\ Len(recorded) \in Nat
        BY <2>1
      <3> QED
        BY <3>1, EntriesStepwise
    <2>3. Newest(<<>>, MaxEntries) = <<>>
      BY BoundsAssumption, EmptySeq, SubSeqEmpty DEF Newest
    <2> QED
      BY <2>1, <2>2, <2>3
  <1> QED
    BY <1>3, <1>4 DEF Init, Inv, SubscribersAreStreams, ClosedAreAnswered, LostIsForgotten,
                      SubscribersUpToDate

LEMMA Invariance == Spec => []Inv
  <1>1. Inv /\ [Next]_vars => Inv'
    BY TypeStep, ForgetsStep, UpToDateStep, LogStep DEF Inv, Forgets
  <1> QED
    BY <1>1, InitInv, PTL DEF Spec

\* The variables of the server and of the log keep their types.
THEOREM TypeCorrect == Spec => []TypeOK
  <1>1. Inv => TypeOK
    BY DEF Inv
  <1> QED
    BY <1>1, Invariance, PTL

\* Once all push tasks have run, subscribers know the status.
THEOREM PushesSuffice == Spec => []SubscribersUpToDate
  <1>1. Inv => SubscribersUpToDate
    BY DEF Inv
  <1> QED
    BY <1>1, Invariance, PTL

\* A stream that is lost is no subscriber any more.
THEOREM StreamsForgotten == Spec => []LostIsForgotten
  <1>1. Inv => LostIsForgotten
    BY DEF Inv
  <1> QED
    BY <1>1, Invariance, PTL

\* The log of a source is the newest of what it sent and what was not to be
\* hidden, in order.
THEOREM LogIsNewest == Spec => []LogKeepsNewest
  <1>1. Inv => LogKeepsNewest
    BY DEF Inv
  <1> QED
    BY <1>1, Invariance, PTL
=============================================================================
