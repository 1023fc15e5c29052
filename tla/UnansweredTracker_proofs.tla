---------------------- MODULE UnansweredTracker_proofs ----------------------
(***************************************************************************)
(* For every set of queries, threshold and bound: the counts and the set   *)
(* of suppressed queries agree; whoever waits has a waiter; and no query   *)
(* that is answered in time is counted.  The last follows from the order   *)
(* of queries, answers and those that wait.                                *)
(***************************************************************************)
EXTENDS UnansweredTracker, SequenceTheorems, FiniteSetTheorems, TLAPS

\* What is inductive: SuppressedIffCounted needs the counts to be numbers
\* and nothing of the waiters.
CountInv == /\ unanswered \in [Stems -> Nat]
            /\ SuppressedIffCounted

\* Starting a count anew takes a query out of the set.
LEMMA ClearKeepsAgreement ==
  ASSUME CountInv, NEW k, Clear(k)
  PROVE  CountInv'
  <1>1. unanswered' \in [Stems -> Nat]
    BY DEF CountInv, Clear
  <1>2. ASSUME NEW s \in Stems
        PROVE  s \in suppressed' <=> unanswered'[s] >= SuppressAfter
    <2>1. CASE s = k
      BY <2>1, SuppressAfterAssumption DEF CountInv, Clear
    <2>2. CASE s # k
      BY <2>2 DEF CountInv, Clear, SuppressedIffCounted
    <2> QED
      BY <2>1, <2>2
  <1> QED
    BY <1>1, <1>2 DEF CountInv, SuppressedIffCounted

\* A timeout that reaches the threshold puts a query into it.
LEMMA BumpKeepsAgreement ==
  ASSUME CountInv, NEW k, Bump(k)
  PROVE  CountInv'
  <1>1. unanswered' \in [Stems -> Nat]
    <2>1. unanswered' = [unanswered EXCEPT ![k] = unanswered[k] + 1]
      BY DEF Bump
    <2>2. ASSUME NEW n \in Nat PROVE n + 1 \in Nat
      OBVIOUS
    <2>3. k \in Stems => unanswered[k] + 1 \in Nat
      BY <2>2 DEF CountInv
    <2> QED
      BY <2>1, <2>3 DEF CountInv
  <1>2. ASSUME NEW s \in Stems
        PROVE  s \in suppressed' <=> unanswered'[s] >= SuppressAfter
    <2>1. CASE s = k
      <3>1. unanswered'[s] = unanswered[s] + 1 /\ unanswered[s] \in Nat
        BY <2>1 DEF CountInv, Bump
      <3>2. s \in suppressed => unanswered'[s] >= SuppressAfter
        BY <3>1, SuppressAfterAssumption DEF CountInv, SuppressedIffCounted
      <3> QED
        BY <2>1, <3>2 DEF Bump
    <2>2. CASE s # k
      <3>1. unanswered'[s] = unanswered[s]
        BY <2>2 DEF CountInv, Bump
      <3>2. s \in suppressed' <=> s \in suppressed
        BY <2>2 DEF Bump
      <3> QED
        BY <3>1, <3>2 DEF CountInv, SuppressedIffCounted
    <2> QED
      BY <2>1, <2>2
  <1> QED
    BY <1>1, <1>2 DEF CountInv, SuppressedIffCounted

\* A step that touches neither keeps their agreement.
LEMMA UnchangedKeepsAgreement ==
  ASSUME CountInv, UNCHANGED <<unanswered, suppressed>>
  PROVE  CountInv'
  BY DEF CountInv, SuppressedIffCounted

LEMMA CountInit == Init => CountInv
  BY SuppressAfterAssumption DEF Init, CountInv, SuppressedIffCounted

LEMMA CountStep == CountInv /\ [Next]_vars => CountInv'
  <1> SUFFICES ASSUME CountInv, [Next]_vars PROVE CountInv'
    OBVIOUS
  <1>1. ASSUME NEW k \in Stems, NoteSent(k) PROVE CountInv'
    BY <1>1, UnchangedKeepsAgreement DEF NoteSent
  <1>2. CASE OnResponse
    <2>1. ASSUME NEW line, NEW i, Answer(line, i) PROVE CountInv'
      BY <2>1, ClearKeepsAgreement DEF Answer
    <2>2. ASSUME NEW line, Unsuppress(line) PROVE CountInv'
      <3>1. (\E k \in suppressed : Clear(k)) \/ UNCHANGED <<unanswered, suppressed>>
        BY <2>2, Zenon DEF Unsuppress
      <3> QED
        BY <3>1, ClearKeepsAgreement, UnchangedKeepsAgreement
    <2> QED
      BY <1>2, <2>1, <2>2, Zenon DEF OnResponse
  <1>3. ASSUME NEW u \in Uids, TimerExpires(u) PROVE CountInv'
    BY <1>3, UnchangedKeepsAgreement DEF TimerExpires
  <1>4. ASSUME NEW u \in Uids, CompleteTimeout(u) PROVE CountInv'
    <2>1. (\E k : Bump(k)) \/ UNCHANGED <<unanswered, suppressed>>
      BY <1>4, Zenon DEF CompleteTimeout
    <2> QED
      BY <2>1, BumpKeepsAgreement, UnchangedKeepsAgreement
  <1>5. CASE Lose
    BY <1>5, UnchangedKeepsAgreement DEF Lose
  <1>6. CASE Reconnect
    BY <1>6, UnchangedKeepsAgreement DEF Reconnect, trackerVars
  <1>7. CASE AvrExecutes
    BY <1>7, UnchangedKeepsAgreement DEF AvrExecutes, trackerVars
  <1>8. CASE AvrReports
    BY <1>8, UnchangedKeepsAgreement DEF AvrReports, trackerVars
  <1>9. CASE UNCHANGED vars
    BY <1>9, UnchangedKeepsAgreement DEF vars, trackerVars
  <1> QED
    BY <1>1, <1>2, <1>3, <1>4, <1>5, <1>6, <1>7, <1>8, <1>9 DEF Next

\* A query is suppressed exactly while it has timed out suppress_after times
\* since it was last cleared by an answer or by an unsolicited line.
THEOREM SuppressionMatchesCount == Spec => []SuppressedIffCounted
  <1>1. CountInv => SuppressedIffCounted
    BY DEF CountInv
  <1> QED
    BY <1>1, CountInit, CountStep, PTL DEF Spec

-----------------------------------------------------------------------------
(***************************************************************************)
(* Queries and their waiters.                                              *)
(***************************************************************************)

\* What is inductive: no query waits twice, so that its one waiter can end
\* with it.
WaitInv ==
  /\ pending \in Seq(Queries)
  /\ timer \in [Uids -> Timers]
  /\ \A i, j \in DOMAIN pending : pending[i].uid = pending[j].uid => i = j
  /\ PendingHasWaiter

\* RemoveAt closes the gap it makes.
LEMMA RemoveAtElements ==
  ASSUME NEW S, NEW s \in Seq(S), NEW i \in 1..Len(s)
  PROVE  /\ RemoveAt(s, i) \in Seq(S)
         /\ Len(RemoveAt(s, i)) = Len(s) - 1
         /\ \A j \in 1..Len(s) - 1 : RemoveAt(s, i)[j] = IF j < i THEN s[j] ELSE s[j + 1]
  <1> DEFINE front == SubSeq(s, 1, i - 1)
             back == SubSeq(s, i + 1, Len(s))
  <1>0. Len(s) \in Nat /\ i \in Nat
    OBVIOUS
  <1>1. front \in Seq(S) /\ Len(front) = i - 1 /\ \A j \in 1..i - 1 : front[j] = s[j]
    OBVIOUS
  <1>2. back \in Seq(S) /\ Len(back) = Len(s) - i /\ \A j \in 1..Len(s) - i : back[j] = s[i + j]
    OBVIOUS
  <1>3. RemoveAt(s, i) = front \o back
    BY DEF RemoveAt
  <1> HIDE DEF front, back
  <1>4. front \o back \in Seq(S) /\ Len(front \o back) = Len(s) - 1
    BY <1>1, <1>2
  <1>5. ASSUME NEW j \in 1..Len(s) - 1
        PROVE  (front \o back)[j] = IF j < i THEN s[j] ELSE s[j + 1]
    <2>1. CASE j < i
      BY <1>1, <1>2, <2>1
    <2>2. CASE j >= i
      <3>1. (front \o back)[j] = back[j - (i - 1)]
        BY <1>1, <1>2, <2>2
      <3>2. j - (i - 1) \in 1..Len(s) - i /\ i + (j - (i - 1)) = j + 1
        BY <2>2
      <3> QED
        BY <1>2, <2>2, <3>1, <3>2
    <2>3. j < i \/ j >= i
      BY <1>0
    <2> QED
      BY <2>1, <2>2, <2>3
  <1> QED
    BY <1>3, <1>4, <1>5

\* A query that waits no longer takes its waiter with it.
LEMMA RemoveKeepsWaiters ==
  ASSUME WaitInv, NEW i \in DOMAIN pending,
         pending' = RemoveAt(pending, i),
         timer' = [timer EXCEPT ![pending[i].uid] = "over"]
  PROVE  WaitInv'
  <1>0. i \in 1..Len(pending) /\ Len(pending) \in Nat /\ DOMAIN pending = 1..Len(pending)
    BY DEF WaitInv
  <1>1. /\ pending' \in Seq(Queries)
        /\ Len(pending') = Len(pending) - 1
        /\ \A j \in 1..Len(pending) - 1 :
             pending'[j] = IF j < i THEN pending[j] ELSE pending[j + 1]
    BY <1>0, RemoveAtElements DEF WaitInv
  <1>2. DOMAIN pending' = 1..Len(pending) - 1
    BY <1>1
  <1>3. ASSUME NEW j \in DOMAIN pending'
        PROVE  \E k \in DOMAIN pending : k # i /\ pending'[j] = pending[k] /\ k = IF j < i THEN j ELSE j + 1
    BY <1>0, <1>1, <1>2
  <1>4. ASSUME NEW k \in DOMAIN pending, k # i
        PROVE  \E j \in DOMAIN pending' : pending'[j] = pending[k]
    <2>1. CASE k < i
      BY <1>0, <1>1, <1>2, <2>1
    <2>2. CASE k > i
      <3>1. k - 1 \in DOMAIN pending' /\ pending'[k - 1] = pending[k]
        BY <1>0, <1>1, <1>2, <2>2
      <3> QED
        BY <3>1
    <2> QED
      BY <1>0, <1>4, <2>1, <2>2
  <1>5. \A j, l \in DOMAIN pending' : pending'[j].uid = pending'[l].uid => j = l
    <2> SUFFICES ASSUME NEW j \in DOMAIN pending', NEW l \in DOMAIN pending',
                        pending'[j].uid = pending'[l].uid
                 PROVE  j = l
      OBVIOUS
    <2>1. PICK k \in DOMAIN pending : pending'[j] = pending[k] /\ k = IF j < i THEN j ELSE j + 1
      BY <1>3
    <2>2. PICK m \in DOMAIN pending : pending'[l] = pending[m] /\ m = IF l < i THEN l ELSE l + 1
      BY <1>3
    <2>3. k = m
      BY <2>1, <2>2 DEF WaitInv
    <2> QED
      BY <1>0, <1>2, <2>1, <2>2, <2>3
  <1>6. timer' \in [Uids -> Timers]
    BY DEF WaitInv, Timers
  <1>7. pending[i].uid \in Uids
    <2>1. pending[i] \in Queries
      BY <1>0 DEF WaitInv
    <2> QED
      BY <2>1 DEF Queries
  <1>8. {pending'[j].uid : j \in DOMAIN pending'} = {pending[j].uid : j \in DOMAIN pending} \ {pending[i].uid}
    <2>1. ASSUME NEW u \in {pending'[j].uid : j \in DOMAIN pending'}
          PROVE  u \in {pending[j].uid : j \in DOMAIN pending} \ {pending[i].uid}
      <3>1. PICK k \in DOMAIN pending : k # i /\ u = pending[k].uid
        BY <1>3
      <3> QED
        BY <3>1 DEF WaitInv
    <2>2. ASSUME NEW u \in {pending[j].uid : j \in DOMAIN pending} \ {pending[i].uid}
          PROVE  u \in {pending'[j].uid : j \in DOMAIN pending'}
      <3>1. PICK k \in DOMAIN pending : u = pending[k].uid /\ k # i
        OBVIOUS
      <3> QED
        BY <1>4, <3>1
    <2> QED
      BY <2>1, <2>2
  <1>9. {u \in Uids : timer'[u] \in {"sleeping", "due"}}
          = {u \in Uids : timer[u] \in {"sleeping", "due"}} \ {pending[i].uid}
    BY <1>7 DEF WaitInv
  <1>10. PendingHasWaiter'
    BY <1>8, <1>9 DEF WaitInv, PendingHasWaiter
  <1> QED
    BY <1>1, <1>5, <1>6, <1>10 DEF WaitInv

\* A query that is sent gets a waiter that no other query has.
LEMMA NoteSentKeepsWaiters ==
  ASSUME WaitInv, NEW k \in Stems, NoteSent(k)
  PROVE  WaitInv'
  <1>1. PICK u \in Uids : /\ timer[u] = "unused"
                          /\ timer' = [timer EXCEPT ![u] = "sleeping"]
                          /\ pending' = Append(pending, [uid |-> u, key |-> k])
    BY DEF NoteSent
  <1> DEFINE q == [uid |-> u, key |-> k]
  <1>2. q \in Queries /\ q.uid = u
    BY DEF Queries
  <1> HIDE DEF q
  <1>3. /\ pending' \in Seq(Queries)
        /\ Len(pending) \in Nat
        /\ DOMAIN pending = 1..Len(pending)
        /\ DOMAIN pending' = 1..Len(pending) + 1
        /\ \A j \in 1..Len(pending) : pending'[j] = pending[j]
        /\ pending'[Len(pending) + 1] = q
    BY <1>1, <1>2 DEF WaitInv, q
  <1>4. u \notin {pending[j].uid : j \in DOMAIN pending}
    BY <1>1 DEF WaitInv, PendingHasWaiter
  <1>5. \A i, j \in DOMAIN pending' : pending'[i].uid = pending'[j].uid => i = j
    BY <1>2, <1>3, <1>4 DEF WaitInv
  <1>6. {pending'[j].uid : j \in DOMAIN pending'} = {pending[j].uid : j \in DOMAIN pending} \cup {u}
    BY <1>2, <1>3
  <1>7. {w \in Uids : timer'[w] \in {"sleeping", "due"}}
          = {w \in Uids : timer[w] \in {"sleeping", "due"}} \cup {u}
    BY <1>1 DEF WaitInv
  <1>8. timer' \in [Uids -> Timers]
    BY <1>1 DEF WaitInv, Timers
  <1> QED
    BY <1>3, <1>5, <1>6, <1>7, <1>8 DEF WaitInv, PendingHasWaiter

LEMMA WaitInit == Init => WaitInv
  BY DEF Init, WaitInv, Timers, PendingHasWaiter

LEMMA WaitStep == WaitInv /\ [Next]_vars => WaitInv'
  <1> SUFFICES ASSUME WaitInv, [Next]_vars PROVE WaitInv'
    OBVIOUS
  <1>0. ASSUME UNCHANGED <<pending, timer>> PROVE WaitInv'
    BY <1>0 DEF WaitInv, PendingHasWaiter
  <1>1. ASSUME NEW k \in Stems, NoteSent(k) PROVE WaitInv'
    BY <1>1, NoteSentKeepsWaiters
  <1>2. CASE OnResponse
    <2>1. ASSUME NEW line, NEW i \in DOMAIN pending, Answer(line, i) PROVE WaitInv'
      BY <2>1, RemoveKeepsWaiters DEF Answer
    <2>2. ASSUME NEW line, Unsuppress(line) PROVE WaitInv'
      BY <1>0, <2>2 DEF Unsuppress
    <2> QED
      BY <1>2, <2>1, <2>2 DEF OnResponse
  <1>3. ASSUME NEW u \in Uids, TimerExpires(u) PROVE WaitInv'
    BY <1>3 DEF TimerExpires, WaitInv, PendingHasWaiter, Timers
  <1>4. ASSUME NEW u \in Uids, CompleteTimeout(u) PROVE WaitInv'
    <2>1. ASSUME NEW i \in DOMAIN pending, pending[i].uid = u, pending' = RemoveAt(pending, i)
          PROVE  WaitInv'
      BY <1>4, <2>1, RemoveKeepsWaiters DEF CompleteTimeout
    <2>2. CASE (\A i \in DOMAIN pending : pending[i].uid # u) /\ pending' = pending
      <3>1. timer[u] \notin {"sleeping", "due"}
        BY <2>2 DEF WaitInv, PendingHasWaiter
      <3> QED
        BY <1>4, <3>1 DEF CompleteTimeout
    <2> QED
      BY <1>4, <2>1, <2>2 DEF CompleteTimeout
  <1>5. CASE Lose
    <2>1. pending' = <<>> /\ timer' = [u \in Uids |-> IF \E i \in DOMAIN pending : pending[i].uid = u
                                                      THEN "over" ELSE timer[u]]
      BY <1>5 DEF Lose, CancelAllPending
    <2>2. \A u \in Uids : timer'[u] \in Timers /\ timer'[u] \notin {"sleeping", "due"}
      BY <2>1 DEF WaitInv, PendingHasWaiter, Timers
    <2>3. timer' \in [Uids -> Timers]
      BY <2>1, <2>2
    <2> QED
      BY <2>1, <2>2, <2>3 DEF WaitInv, PendingHasWaiter
  <1>6. CASE Reconnect \/ AvrExecutes \/ AvrReports \/ UNCHANGED vars
    BY <1>0, <1>6 DEF Reconnect, AvrExecutes, AvrReports, vars, trackerVars
  <1> QED
    BY <1>1, <1>2, <1>3, <1>4, <1>5, <1>6 DEF Next

\* Every query that is waited for has a waiter of its own, and no waiter is
\* left that could count a query that is not waited for.
THEOREM EveryPendingHasWaiter == Spec => []PendingHasWaiter
  <1>1. WaitInv => PendingHasWaiter
    BY DEF WaitInv
  <1> QED
    BY <1>1, WaitInit, WaitStep, PTL DEF Spec

-----------------------------------------------------------------------------
(***************************************************************************)
(* Answers come in order.                                                  *)
(***************************************************************************)

\* What is under way from the AVR.
Lines == [uid : Uids \cup {Unasked}, line : {LineOf(k) : k \in Stems}]

\* Queries and their answers are under way in the order of the queries, which
\* are numbered one after the other.
WayInv ==
  /\ toAvr \in Seq(Queries) /\ fromAvr \in Seq(Lines)
  /\ timer \in [Uids -> Timers]
  /\ \A u, w \in Uids : w < u /\ timer[u] # "unused" => timer[w] # "unused"
  /\ \A i \in DOMAIN toAvr : timer[toAvr[i].uid] # "unused"
  /\ \A i \in DOMAIN fromAvr : fromAvr[i].uid # Unasked => timer[fromAvr[i].uid] # "unused"
  /\ \A i, j \in DOMAIN toAvr : i < j => toAvr[i].uid < toAvr[j].uid
  /\ \A i, j \in DOMAIN fromAvr :
       i < j /\ fromAvr[i].uid # Unasked /\ fromAvr[j].uid # Unasked
         => fromAvr[i].uid < fromAvr[j].uid
  /\ \A i \in DOMAIN fromAvr, j \in DOMAIN toAvr : fromAvr[i].uid < toAvr[j].uid

\* They wait in this order, too, and what is under way is what was asked.
PendingInv ==
  /\ pending \in Seq(Queries)
  /\ \A i, j \in DOMAIN pending : i < j => pending[i].uid < pending[j].uid
  /\ \A i \in DOMAIN pending : timer[pending[i].uid] # "unused"
  /\ \A i \in DOMAIN pending, j \in DOMAIN toAvr :
       toAvr[j].uid = pending[i].uid => toAvr[j].key = pending[i].key
  /\ \A i \in DOMAIN pending, j \in DOMAIN fromAvr :
       fromAvr[j].uid = pending[i].uid => fromAvr[j].line = LineOf(pending[i].key)

\* What waits for an answer that will come is under way.
AnswerComes ==
  \A i \in DOMAIN pending :
    pending[i].key \in answers => \/ \E j \in DOMAIN toAvr : toAvr[j].uid = pending[i].uid
                                  \/ \E j \in DOMAIN fromAvr : fromAvr[j].uid = pending[i].uid

OrderInv == WayInv /\ PendingInv

\* The rest of a sequence.
LEMMA TailElements ==
  ASSUME NEW S, NEW s \in Seq(S), s # <<>>
  PROVE  /\ Head(s) = s[1] /\ Head(s) \in S /\ 1 \in DOMAIN s
         /\ Tail(s) \in Seq(S)
         /\ \A i \in DOMAIN Tail(s) : i + 1 \in DOMAIN s /\ i \in Nat /\ i >= 1 /\ Tail(s)[i] = s[i + 1]
         /\ \A i \in DOMAIN s : i # 1 => i - 1 \in DOMAIN Tail(s) /\ Tail(s)[i - 1] = s[i]
  <1>1. Len(s) \in Nat /\ Len(s) >= 1 /\ DOMAIN s = 1..Len(s)
    BY EmptySeq
  <1>2. Tail(s) \in Seq(S) /\ Len(Tail(s)) = Len(s) - 1 /\ Head(s) \in S
        /\ \A i \in 1..Len(Tail(s)) : Tail(s)[i] = s[i + 1]
    BY HeadTailProperties
  <1>3. DOMAIN Tail(s) = 1..Len(s) - 1
    BY <1>1, <1>2
  <1>4. Head(s) = s[1]
    BY <1>1
  <1> QED
    BY <1>1, <1>2, <1>3, <1>4

\* One more element.
LEMMA AppendElements ==
  ASSUME NEW S, NEW s \in Seq(S), NEW x \in S
  PROVE  /\ Append(s, x) \in Seq(S)
         /\ \A i \in DOMAIN s : i \in DOMAIN Append(s, x) /\ Append(s, x)[i] = s[i]
         /\ \A i, j \in DOMAIN Append(s, x) :
              /\ \/ i \in DOMAIN s /\ Append(s, x)[i] = s[i]
                 \/ Append(s, x)[i] = x /\ i = Len(s) + 1
              /\ i < j => i \in DOMAIN s
              /\ i \in Nat
         /\ Len(s) + 1 \in DOMAIN Append(s, x) /\ Append(s, x)[Len(s) + 1] = x
  OBVIOUS

\* What the elements are numbers of.
LEMMA NumbersTyped ==
  ASSUME OrderInv
  PROVE  /\ \A i \in DOMAIN toAvr : toAvr[i].uid \in Uids /\ toAvr[i].key \in Stems
         /\ \A i \in DOMAIN fromAvr : fromAvr[i].uid \in Uids \cup {Unasked}
         /\ \A i \in DOMAIN pending : pending[i].uid \in Uids /\ pending[i].key \in Stems
         /\ Uids \subseteq Nat /\ Unasked \notin Uids /\ Unasked = 0
  <1>1. \A i \in DOMAIN toAvr : toAvr[i] \in Queries
    BY DEF OrderInv, WayInv
  <1>2. \A i \in DOMAIN pending : pending[i] \in Queries
    BY DEF OrderInv, PendingInv
  <1>3. \A i \in DOMAIN fromAvr : fromAvr[i] \in Lines
    BY DEF OrderInv, WayInv
  <1> QED
    BY <1>1, <1>2, <1>3, CountsAssumption DEF Queries, Lines, Uids, Unasked

\* A step that begins to use no query and leaves what is under way.
LEMMA WayUnchanged ==
  ASSUME OrderInv, timer' \in [Uids -> Timers], UNCHANGED <<toAvr, fromAvr>>,
         \A u \in Uids : timer'[u] = "unused" <=> timer[u] = "unused"
  PROVE  WayInv'
  BY NumbersTyped DEF OrderInv, WayInv

\* A query that is sent is the last of all.
LEMMA NoteSentKeepsOrder ==
  ASSUME OrderInv, NEW k \in Stems, NoteSent(k)
  PROVE  OrderInv' /\ (AnswerComes => AnswerComes')
  <1>1. PICK u \in Uids : /\ timer[u] = "unused" /\ \A w \in Uids : w < u => timer[w] # "unused"
                          /\ timer' = [timer EXCEPT ![u] = "sleeping"]
                          /\ pending' = Append(pending, [uid |-> u, key |-> k])
                          /\ toAvr' = Append(toAvr, [uid |-> u, key |-> k])
    BY DEF NoteSent
  <1> DEFINE q == [uid |-> u, key |-> k]
  <1>2. q \in Queries /\ q.uid = u /\ q.key = k
    BY DEF Queries
  <1>3. fromAvr' = fromAvr /\ answers' = answers /\ pending' = Append(pending, q)
        /\ toAvr' = Append(toAvr, q)
    BY <1>1 DEF NoteSent
  <1> HIDE DEF q
  <1>4. \A w \in Uids : timer[w] # "unused" => w < u
    BY <1>1, NumbersTyped DEF OrderInv, WayInv
  <1>5. timer' \in [Uids -> Timers]
        /\ \A w \in Uids : timer'[w] # "unused" <=> timer[w] # "unused" \/ w = u
    BY <1>1 DEF OrderInv, WayInv, Timers
  <1>6. \A i \in DOMAIN toAvr : toAvr[i].uid \in Uids /\ toAvr[i].uid < u
    BY <1>4, NumbersTyped DEF OrderInv, WayInv
  <1>7. \A i \in DOMAIN pending : pending[i].uid \in Uids /\ pending[i].uid < u
    BY <1>4, NumbersTyped DEF OrderInv, PendingInv
  <1>9. u \in Nat /\ Uids \subseteq Nat /\ u # Unasked /\ u > 0
    BY NumbersTyped
  <1>8. \A i \in DOMAIN fromAvr : fromAvr[i].uid \in Uids \cup {Unasked} /\ fromAvr[i].uid < u
    BY <1>4, <1>9, NumbersTyped DEF OrderInv, WayInv
  <1>10. /\ toAvr' \in Seq(Queries)
         /\ \A i \in DOMAIN toAvr : i \in DOMAIN toAvr' /\ toAvr'[i] = toAvr[i]
         /\ \A i, j \in DOMAIN toAvr' :
              /\ \/ i \in DOMAIN toAvr /\ toAvr'[i] = toAvr[i]
                 \/ toAvr'[i] = q /\ i = Len(toAvr) + 1
              /\ i < j => i \in DOMAIN toAvr
         /\ Len(toAvr) + 1 \in DOMAIN toAvr' /\ toAvr'[Len(toAvr) + 1] = q
    BY <1>2, <1>3, AppendElements DEF OrderInv, WayInv
  <1>11. /\ pending' \in Seq(Queries)
         /\ \A i, j \in DOMAIN pending' :
              /\ \/ i \in DOMAIN pending /\ pending'[i] = pending[i]
                 \/ pending'[i] = q /\ i = Len(pending) + 1
              /\ i < j => i \in DOMAIN pending
    BY <1>2, <1>3, AppendElements DEF OrderInv, PendingInv
  <1>12. WayInv'
    <2>1. \A i, j \in DOMAIN toAvr' : i < j => toAvr'[i].uid < toAvr'[j].uid
      BY <1>2, <1>6, <1>10 DEF OrderInv, WayInv
    <2>2. \A v, w \in Uids : w < v /\ timer'[v] # "unused" => timer'[w] # "unused"
      BY <1>1, <1>5 DEF OrderInv, WayInv
    <2>3. \A i \in DOMAIN toAvr' : timer'[toAvr'[i].uid] # "unused"
      BY <1>2, <1>5, <1>6, <1>10 DEF OrderInv, WayInv
    <2>4. \A i \in DOMAIN fromAvr : fromAvr[i].uid # Unasked => timer'[fromAvr[i].uid] # "unused"
      BY <1>5, <1>8 DEF OrderInv, WayInv
    <2>5. \A i \in DOMAIN fromAvr, j \in DOMAIN toAvr' : fromAvr[i].uid < toAvr'[j].uid
      BY <1>2, <1>8, <1>10 DEF OrderInv, WayInv
    <2> QED
      BY <1>3, <1>5, <1>10, <2>1, <2>2, <2>3, <2>4, <2>5 DEF OrderInv, WayInv
  <1>13. PendingInv'
    <2>1. \A i, j \in DOMAIN pending' : i < j => pending'[i].uid < pending'[j].uid
      BY <1>2, <1>7, <1>11 DEF OrderInv, PendingInv
    <2>2. \A i \in DOMAIN pending' : timer'[pending'[i].uid] # "unused"
      BY <1>2, <1>5, <1>7, <1>11 DEF OrderInv, PendingInv
    <2>3. \A i \in DOMAIN pending', j \in DOMAIN toAvr' :
            toAvr'[j].uid = pending'[i].uid => toAvr'[j].key = pending'[i].key
      <3> SUFFICES ASSUME NEW i \in DOMAIN pending', NEW j \in DOMAIN toAvr',
                          toAvr'[j].uid = pending'[i].uid
                   PROVE  toAvr'[j].key = pending'[i].key
        OBVIOUS
      <3>1. (i \in DOMAIN pending /\ pending'[i] = pending[i]) \/ pending'[i] = q
        BY <1>11
      <3>2. (j \in DOMAIN toAvr /\ toAvr'[j] = toAvr[j]) \/ toAvr'[j] = q
        BY <1>10
      <3> QED
        BY <1>2, <1>6, <1>7, <1>9, <3>1, <3>2 DEF OrderInv, PendingInv
    <2>4. \A i \in DOMAIN pending', j \in DOMAIN fromAvr :
            fromAvr[j].uid = pending'[i].uid => fromAvr[j].line = LineOf(pending'[i].key)
      <3> SUFFICES ASSUME NEW i \in DOMAIN pending', NEW j \in DOMAIN fromAvr,
                          fromAvr[j].uid = pending'[i].uid
                   PROVE  fromAvr[j].line = LineOf(pending'[i].key)
        OBVIOUS
      <3>1. (i \in DOMAIN pending /\ pending'[i] = pending[i]) \/ pending'[i] = q
        BY <1>11
      <3> QED
        BY <1>2, <1>8, <1>9, <3>1 DEF OrderInv, PendingInv, Unasked
    <2> QED
      BY <1>3, <1>11, <2>1, <2>2, <2>3, <2>4 DEF PendingInv
  <1>14. ASSUME AnswerComes PROVE AnswerComes'
    <2> SUFFICES ASSUME NEW i \in DOMAIN pending', pending'[i].key \in answers
                 PROVE  \/ \E j \in DOMAIN toAvr' : toAvr'[j].uid = pending'[i].uid
                        \/ \E j \in DOMAIN fromAvr' : fromAvr'[j].uid = pending'[i].uid
      BY <1>3 DEF AnswerComes
    <2>1. CASE pending'[i] = q
      BY <1>10, <2>1
    <2>2. CASE i \in DOMAIN pending /\ pending'[i] = pending[i]
      <3>1. \/ \E j \in DOMAIN toAvr : toAvr[j].uid = pending'[i].uid
            \/ \E j \in DOMAIN fromAvr : fromAvr[j].uid = pending'[i].uid
        BY <1>14, <2>2 DEF AnswerComes
      <3> QED
        BY <1>3, <1>10, <3>1
    <2> QED
      BY <1>11, <2>1, <2>2
  <1> QED
    BY <1>12, <1>13, <1>14 DEF OrderInv

\* A step after which some of the queries wait no longer, or all wait on.
Fewer == \A j, l \in DOMAIN pending' : \E i, m \in DOMAIN pending :
           pending'[j] = pending[i] /\ pending'[l] = pending[m] /\ (j < l => i < m)

LEMMA FewerPending ==
  ASSUME OrderInv, pending' \in Seq(Queries), Fewer, UNCHANGED <<toAvr, fromAvr, answers>>,
         timer' \in [Uids -> Timers], \A u \in Uids : timer'[u] = "unused" <=> timer[u] = "unused"
  PROVE  OrderInv' /\ (AnswerComes => AnswerComes')
  <1>1. WayInv'
    BY WayUnchanged
  <1>2. \A j \in DOMAIN pending' : \E i \in DOMAIN pending : pending'[j] = pending[i]
    BY DEF Fewer
  <1>4. \A j, l \in DOMAIN pending' : j < l => pending'[j].uid < pending'[l].uid
    BY DEF OrderInv, PendingInv, Fewer
  <1>5. \A j \in DOMAIN pending' : timer'[pending'[j].uid] # "unused"
    BY <1>2, NumbersTyped DEF OrderInv, PendingInv
  <1>6. PendingInv'
    <2>1. \A i \in DOMAIN pending', j \in DOMAIN toAvr :
            toAvr[j].uid = pending'[i].uid => toAvr[j].key = pending'[i].key
      BY <1>2 DEF OrderInv, PendingInv
    <2>2. \A i \in DOMAIN pending', j \in DOMAIN fromAvr :
            fromAvr[j].uid = pending'[i].uid => fromAvr[j].line = LineOf(pending'[i].key)
      BY <1>2 DEF OrderInv, PendingInv
    <2> QED
      BY <1>4, <1>5, <2>1, <2>2 DEF PendingInv
  <1>7. AnswerComes => AnswerComes'
    BY <1>2 DEF AnswerComes
  <1> QED
    BY <1>1, <1>6, <1>7 DEF OrderInv

\* Removing a query keeps the order of the others.
LEMMA RemovalLeavesFewer ==
  ASSUME NEW i \in DOMAIN pending, pending \in Seq(Queries), pending' = RemoveAt(pending, i)
  PROVE  /\ pending' \in Seq(Queries) /\ Fewer
         /\ \A j \in DOMAIN pending' : \E m \in DOMAIN pending : m # i /\ pending'[j] = pending[m]
  <1>1. i \in 1..Len(pending) /\ Len(pending) \in Nat /\ DOMAIN pending = 1..Len(pending)
    OBVIOUS
  <1>2. /\ pending' \in Seq(Queries)
        /\ Len(pending') = Len(pending) - 1
        /\ \A j \in 1..Len(pending) - 1 :
             pending'[j] = IF j < i THEN pending[j] ELSE pending[j + 1]
    BY <1>1, RemoveAtElements
  <1>3. DOMAIN pending' = 1..Len(pending) - 1
    BY <1>2
  <1> DEFINE from(j) == IF j < i THEN j ELSE j + 1
  <1>4. \A j \in DOMAIN pending' :
          from(j) \in DOMAIN pending /\ from(j) # i /\ pending'[j] = pending[from(j)]
    BY <1>1, <1>2, <1>3
  <1>5. \A j, l \in DOMAIN pending' : j < l => from(j) < from(l)
    BY <1>1, <1>3
  <1> HIDE DEF from
  <1> QED
    BY <1>2, <1>4, <1>5 DEF Fewer

\* What the AVR sends next answers a query older than every other on its way.
LEMMA HeadIsFirst ==
  ASSUME OrderInv, fromAvr # <<>>, fromAvr' = Tail(fromAvr), toAvr' = toAvr,
         timer' \in [Uids -> Timers], \A u \in Uids : timer'[u] = "unused" <=> timer[u] = "unused"
  PROVE  /\ WayInv'
         /\ \A j \in DOMAIN fromAvr' : \E n \in DOMAIN fromAvr : fromAvr'[j] = fromAvr[n]
         /\ \A n \in DOMAIN fromAvr :
              fromAvr[n] = Head(fromAvr) \/ \E j \in DOMAIN fromAvr' : fromAvr'[j] = fromAvr[n]
         /\ Head(fromAvr) \in Lines
         /\ \A n \in DOMAIN fromAvr : Head(fromAvr).uid # Unasked /\ fromAvr[n].uid # Unasked
                                        => Head(fromAvr).uid <= fromAvr[n].uid
         /\ \A n \in DOMAIN toAvr : Head(fromAvr).uid < toAvr[n].uid
         /\ 1 \in DOMAIN fromAvr /\ Head(fromAvr) = fromAvr[1]
  <1>1. /\ Head(fromAvr) = fromAvr[1] /\ Head(fromAvr) \in Lines /\ 1 \in DOMAIN fromAvr
        /\ fromAvr' \in Seq(Lines)
        /\ \A i \in DOMAIN fromAvr' : i + 1 \in DOMAIN fromAvr /\ i \in Nat /\ i >= 1
                                      /\ fromAvr'[i] = fromAvr[i + 1]
        /\ \A i \in DOMAIN fromAvr : i # 1 => i - 1 \in DOMAIN fromAvr' /\ fromAvr'[i - 1] = fromAvr[i]
    BY TailElements DEF OrderInv, WayInv
  <1>2. \A j \in DOMAIN fromAvr' : \E n \in DOMAIN fromAvr : fromAvr'[j] = fromAvr[n]
    BY <1>1
  <1>3. \A n \in DOMAIN fromAvr :
          fromAvr[n] = Head(fromAvr) \/ \E j \in DOMAIN fromAvr' : fromAvr'[j] = fromAvr[n]
    BY <1>1
  <1>4. \A i, j \in DOMAIN fromAvr' :
          i < j /\ fromAvr'[i].uid # Unasked /\ fromAvr'[j].uid # Unasked
            => fromAvr'[i].uid < fromAvr'[j].uid
    <2> SUFFICES ASSUME NEW i \in DOMAIN fromAvr', NEW j \in DOMAIN fromAvr', i < j,
                        fromAvr'[i].uid # Unasked, fromAvr'[j].uid # Unasked
                 PROVE  fromAvr'[i].uid < fromAvr'[j].uid
      OBVIOUS
    <2>1. /\ i + 1 \in DOMAIN fromAvr /\ j + 1 \in DOMAIN fromAvr /\ i + 1 < j + 1
          /\ fromAvr'[i] = fromAvr[i + 1] /\ fromAvr'[j] = fromAvr[j + 1]
      BY <1>1
    <2> QED
      BY <2>1 DEF OrderInv, WayInv
  <1>5. WayInv'
    <2>1. \A i \in DOMAIN fromAvr' : fromAvr'[i].uid # Unasked => timer'[fromAvr'[i].uid] # "unused"
      BY <1>2, NumbersTyped DEF OrderInv, WayInv
    <2>2. \A i \in DOMAIN fromAvr', j \in DOMAIN toAvr : fromAvr'[i].uid < toAvr[j].uid
      BY <1>2 DEF OrderInv, WayInv
    <2>3. \A i \in DOMAIN toAvr : timer'[toAvr[i].uid] # "unused"
      BY NumbersTyped DEF OrderInv, WayInv
    <2>4. \A u, w \in Uids : w < u /\ timer'[u] # "unused" => timer'[w] # "unused"
      BY DEF OrderInv, WayInv
    <2> QED
      BY <1>1, <1>4, <2>1, <2>2, <2>3, <2>4 DEF OrderInv, WayInv
  <1>6. \A n \in DOMAIN fromAvr : Head(fromAvr).uid # Unasked /\ fromAvr[n].uid # Unasked
                                    => Head(fromAvr).uid <= fromAvr[n].uid
    <2> SUFFICES ASSUME NEW n \in DOMAIN fromAvr, Head(fromAvr).uid # Unasked,
                        fromAvr[n].uid # Unasked
                 PROVE  Head(fromAvr).uid <= fromAvr[n].uid
      OBVIOUS
    <2>1. n = 1 \/ 1 < n
      BY DEF OrderInv, WayInv
    <2>2. fromAvr[n].uid \in Nat
      BY NumbersTyped
    <2>3. 1 < n => fromAvr[1].uid < fromAvr[n].uid
      BY <1>1 DEF OrderInv, WayInv
    <2> QED
      BY <1>1, <2>1, <2>2, <2>3, NumbersTyped
  <1>7. \A n \in DOMAIN toAvr : Head(fromAvr).uid < toAvr[n].uid
    BY <1>1 DEF OrderInv, WayInv
  <1> QED
    BY <1>1, <1>2, <1>3, <1>5, <1>6, <1>7

\* A line keeps the order; the query it answers is the one it was sent for,
\* or one that the AVR does not answer.
LEMMA OnResponseKeepsOrder ==
  ASSUME OrderInv, OnResponse
  PROVE  OrderInv' /\ (Unambiguous /\ AnswerComes => AnswerComes')
  <1> DEFINE line == Head(fromAvr).line
             matching == {i \in DOMAIN pending : Matches(pending[i].key, line)}
  <1>1. fromAvr # <<>> /\ fromAvr' = Tail(fromAvr) /\ toAvr' = toAvr /\ answers' = answers
    BY DEF OnResponse
  <1>2. \/ \E i \in matching : (\A n \in matching : i <= n) /\ Answer(line, i)
        \/ matching = {} /\ Unsuppress(line)
    BY DEF OnResponse
  <1> HIDE DEF line, matching
  <1>3. /\ pending' \in Seq(Queries) /\ timer' \in [Uids -> Timers]
        /\ \A u \in Uids : timer'[u] = "unused" <=> timer[u] = "unused"
        /\ Fewer
    <2>1. CASE Unsuppress(line)
      <3>1. UNCHANGED <<pending, timer>>
        BY <2>1 DEF Unsuppress
      <3>2. Fewer
        BY <3>1 DEF Fewer
      <3> QED
        BY <3>1, <3>2 DEF OrderInv, WayInv, PendingInv
    <2>2. ASSUME NEW i \in matching, Answer(line, i) PROVE <1>3
      <3>1. i \in DOMAIN pending
        BY DEF matching
      <3>2. pending' = RemoveAt(pending, i) /\ timer' = [timer EXCEPT ![pending[i].uid] = "over"]
        BY <2>2 DEF Answer
      <3>3. timer[pending[i].uid] # "unused" /\ pending[i].uid \in Uids
        BY <3>1, NumbersTyped DEF OrderInv, PendingInv
      <3>4. timer' \in [Uids -> Timers] /\ \A u \in Uids : timer'[u] = "unused" <=> timer[u] = "unused"
        BY <3>2, <3>3 DEF OrderInv, WayInv, Timers
      <3> QED
        BY <3>1, <3>2, <3>4, RemovalLeavesFewer DEF OrderInv, PendingInv
    <2> QED
      BY <1>2, <2>1, <2>2
  <1>4. /\ WayInv'
        /\ \A j \in DOMAIN fromAvr' : \E n \in DOMAIN fromAvr : fromAvr'[j] = fromAvr[n]
        /\ \A n \in DOMAIN fromAvr :
             fromAvr[n] = Head(fromAvr) \/ \E j \in DOMAIN fromAvr' : fromAvr'[j] = fromAvr[n]
        /\ Head(fromAvr) \in Lines
        /\ \A n \in DOMAIN fromAvr : Head(fromAvr).uid # Unasked /\ fromAvr[n].uid # Unasked
                                       => Head(fromAvr).uid <= fromAvr[n].uid
        /\ \A n \in DOMAIN toAvr : Head(fromAvr).uid < toAvr[n].uid
        /\ 1 \in DOMAIN fromAvr /\ Head(fromAvr) = fromAvr[1]
    BY <1>1, <1>3, HeadIsFirst
  <1>5. \A j \in DOMAIN pending' : \E i \in DOMAIN pending : pending'[j] = pending[i]
    BY <1>3 DEF Fewer
  <1>6. PendingInv'
    <2>1. \A j, l \in DOMAIN pending' : j < l => pending'[j].uid < pending'[l].uid
      BY <1>3 DEF OrderInv, PendingInv, Fewer
    <2>2. \A j \in DOMAIN pending' : timer'[pending'[j].uid] # "unused"
      BY <1>3, <1>5, NumbersTyped DEF OrderInv, PendingInv
    <2>3. \A i \in DOMAIN pending', j \in DOMAIN toAvr :
            toAvr[j].uid = pending'[i].uid => toAvr[j].key = pending'[i].key
      BY <1>5 DEF OrderInv, PendingInv
    <2>4. \A i \in DOMAIN pending', j \in DOMAIN fromAvr' :
            fromAvr'[j].uid = pending'[i].uid => fromAvr'[j].line = LineOf(pending'[i].key)
      BY <1>4, <1>5 DEF OrderInv, PendingInv
    <2> QED
      BY <1>1, <1>3, <2>1, <2>2, <2>3, <2>4 DEF PendingInv
  <1>7. ASSUME Unambiguous, AnswerComes PROVE AnswerComes'
    \* A query that the line was sent for no longer waits.
    <2>1. ASSUME NEW m \in DOMAIN pending, pending[m].key \in answers,
                 pending[m].uid = Head(fromAvr).uid
          PROVE  \A j \in DOMAIN pending' : pending'[j] # pending[m]
      <3>1. pending[m].uid \in Uids /\ pending[m].key \in Stems /\ Uids \subseteq Nat
            /\ Unasked \notin Uids
        BY NumbersTyped
      <3>2. line = LineOf(pending[m].key)
        BY <1>4, <2>1 DEF OrderInv, PendingInv, line
      <3>3. m \in matching
        BY <1>7, <3>1, <3>2 DEF matching, Unambiguous
      <3>4. PICK i \in matching : (\A n \in matching : i <= n) /\ Answer(line, i)
        BY <1>2, <3>3
      <3>5. i \in DOMAIN pending /\ Matches(pending[i].key, line)
        BY DEF matching
      <3>6. pending[i].key = pending[m].key /\ pending[i].uid \in Uids
        BY <1>7, <3>1, <3>2, <3>5, NumbersTyped DEF Unambiguous
      <3>7. ~(pending[i].uid < pending[m].uid)
        <4> SUFFICES ASSUME pending[i].uid < pending[m].uid PROVE FALSE
          OBVIOUS
        <4>1. \/ \E j \in DOMAIN toAvr : toAvr[j].uid = pending[i].uid
              \/ \E j \in DOMAIN fromAvr : fromAvr[j].uid = pending[i].uid
          BY <1>7, <2>1, <3>5, <3>6 DEF AnswerComes
        <4>2. pending[i].uid \in Nat /\ pending[m].uid \in Nat
          BY <3>1, <3>6
        <4>3. ASSUME NEW j \in DOMAIN toAvr, toAvr[j].uid = pending[i].uid PROVE FALSE
          BY <1>4, <2>1, <4>2, <4>3
        <4>4. ASSUME NEW j \in DOMAIN fromAvr, fromAvr[j].uid = pending[i].uid PROVE FALSE
          BY <1>4, <2>1, <3>1, <3>6, <4>2, <4>4
        <4> QED
          BY <4>1, <4>3, <4>4
      <3>8. ~(i < m)
        BY <3>5, <3>7 DEF OrderInv, PendingInv
      <3>9. i = m
        BY <3>3, <3>4, <3>5, <3>8 DEF OrderInv, PendingInv
      <3>10. \A j \in DOMAIN pending' : \E n \in DOMAIN pending : n # m /\ pending'[j] = pending[n]
        BY <3>4, <3>5, <3>9, RemovalLeavesFewer DEF Answer, OrderInv, PendingInv
      <3>11. \A n \in DOMAIN pending : n # m => pending[n].uid # pending[m].uid
        <4> SUFFICES ASSUME NEW n \in DOMAIN pending, n # m PROVE pending[n].uid # pending[m].uid
          OBVIOUS
        <4>1. n < m \/ m < n
          BY DEF OrderInv, PendingInv
        <4>2. pending[n].uid < pending[m].uid \/ pending[m].uid < pending[n].uid
          BY <4>1 DEF OrderInv, PendingInv
        <4> QED
          BY <4>2, NumbersTyped
      <3> QED
        BY <3>10, <3>11
    <2> SUFFICES ASSUME NEW j \in DOMAIN pending', pending'[j].key \in answers
                 PROVE  \/ \E n \in DOMAIN toAvr' : toAvr'[n].uid = pending'[j].uid
                        \/ \E n \in DOMAIN fromAvr' : fromAvr'[n].uid = pending'[j].uid
      BY <1>1 DEF AnswerComes
    <2>2. PICK m \in DOMAIN pending : pending'[j] = pending[m]
      BY <1>5
    <2>3. pending[m].uid # Head(fromAvr).uid
      BY <2>1, <2>2
    <2>4. \/ \E n \in DOMAIN toAvr : toAvr[n].uid = pending[m].uid
          \/ \E n \in DOMAIN fromAvr : fromAvr[n].uid = pending[m].uid
      BY <1>7, <2>2 DEF AnswerComes
    <2> QED
      BY <1>1, <1>4, <2>2, <2>3, <2>4
  <1> QED
    BY <1>4, <1>6, <1>7 DEF OrderInv

\* The AVR takes a query: its answer follows those of the queries before it.
LEMMA AvrExecutesKeepsOrder ==
  ASSUME OrderInv, AvrExecutes
  PROVE  OrderInv' /\ (AnswerComes => AnswerComes')
  <1> DEFINE q == Head(toAvr)
             answer == [uid |-> q.uid, line |-> LineOf(q.key)]
  <1>1. /\ toAvr # <<>> /\ toAvr' = Tail(toAvr)
        /\ fromAvr' = IF q.key \in answers THEN Append(fromAvr, answer) ELSE fromAvr
        /\ UNCHANGED <<pending, timer, answers>>
    BY DEF AvrExecutes, trackerVars
  <1>2. q = toAvr[1] /\ 1 \in DOMAIN toAvr /\ q.uid \in Uids /\ q.key \in Stems
    BY <1>1, TailElements, NumbersTyped DEF OrderInv, WayInv
  <1>3. answer \in Lines /\ answer.uid = q.uid /\ answer.line = LineOf(q.key)
    BY <1>2 DEF Lines
  <1> HIDE DEF q, answer
  <1>4. /\ toAvr' \in Seq(Queries)
        /\ \A i \in DOMAIN toAvr' : i + 1 \in DOMAIN toAvr /\ i \in Nat /\ i >= 1
                                    /\ toAvr'[i] = toAvr[i + 1]
        /\ \A i \in DOMAIN toAvr : i # 1 => i - 1 \in DOMAIN toAvr' /\ toAvr'[i - 1] = toAvr[i]
    BY <1>1, TailElements DEF OrderInv, WayInv
  <1>5. /\ fromAvr' \in Seq(Lines)
        /\ \A i \in DOMAIN fromAvr : i \in DOMAIN fromAvr' /\ fromAvr'[i] = fromAvr[i]
        /\ \A i, j \in DOMAIN fromAvr' :
             /\ \/ i \in DOMAIN fromAvr /\ fromAvr'[i] = fromAvr[i]
                \/ fromAvr'[i] = answer
             /\ i < j => i \in DOMAIN fromAvr
        /\ q.key \in answers => \E i \in DOMAIN fromAvr' : fromAvr'[i] = answer
    <2>1. CASE q.key \in answers
      <3>1. fromAvr' = Append(fromAvr, answer) /\ fromAvr \in Seq(Lines)
        BY <1>1, <2>1 DEF OrderInv, WayInv
      <3> QED
        BY <1>3, <3>1, AppendElements
    <2>2. CASE q.key \notin answers
      <3>1. fromAvr' = fromAvr /\ fromAvr \in Seq(Lines)
        BY <1>1, <2>2 DEF OrderInv, WayInv
      <3> QED
        BY <2>2, <3>1
    <2> QED
      BY <2>1, <2>2
  <1>6. \A j \in DOMAIN toAvr' : \E i \in DOMAIN toAvr : i > 1 /\ toAvr'[j] = toAvr[i]
    BY <1>4
  <1>7. \A i \in DOMAIN toAvr : i > 1 => q.uid < toAvr[i].uid
    BY <1>2 DEF OrderInv, WayInv
  <1>8. \A i, j \in DOMAIN toAvr' : i < j => toAvr'[i].uid < toAvr'[j].uid
    <2> SUFFICES ASSUME NEW i \in DOMAIN toAvr', NEW j \in DOMAIN toAvr', i < j
                 PROVE  toAvr'[i].uid < toAvr'[j].uid
      OBVIOUS
    <2>1. /\ i + 1 \in DOMAIN toAvr /\ j + 1 \in DOMAIN toAvr /\ i + 1 < j + 1
          /\ toAvr'[i] = toAvr[i + 1] /\ toAvr'[j] = toAvr[j + 1]
      BY <1>4
    <2> QED
      BY <2>1 DEF OrderInv, WayInv
  <1>9. \A i, j \in DOMAIN fromAvr' :
          i < j /\ fromAvr'[i].uid # Unasked /\ fromAvr'[j].uid # Unasked
            => fromAvr'[i].uid < fromAvr'[j].uid
    <2>1. \A i \in DOMAIN fromAvr : fromAvr[i].uid < q.uid
      BY <1>2 DEF OrderInv, WayInv
    <2> QED
      BY <1>3, <1>5, <2>1 DEF OrderInv, WayInv
  <1>10. \A i \in DOMAIN fromAvr', j \in DOMAIN toAvr' : fromAvr'[i].uid < toAvr'[j].uid
    BY <1>3, <1>5, <1>6, <1>7 DEF OrderInv, WayInv
  <1>11. \A i \in DOMAIN fromAvr' : fromAvr'[i].uid # Unasked => timer[fromAvr'[i].uid] # "unused"
    BY <1>2, <1>3, <1>5 DEF OrderInv, WayInv
  <1>12. \A i \in DOMAIN toAvr' : timer[toAvr'[i].uid] # "unused"
    BY <1>6 DEF OrderInv, WayInv
  <1>13. WayInv'
    BY <1>1, <1>4, <1>5, <1>8, <1>9, <1>10, <1>11, <1>12 DEF OrderInv, WayInv
  <1>14. PendingInv'
    <2>1. \A i \in DOMAIN pending, j \in DOMAIN toAvr' :
            toAvr'[j].uid = pending[i].uid => toAvr'[j].key = pending[i].key
      BY <1>6 DEF OrderInv, PendingInv
    <2>2. \A i \in DOMAIN pending, j \in DOMAIN fromAvr' :
            fromAvr'[j].uid = pending[i].uid => fromAvr'[j].line = LineOf(pending[i].key)
      BY <1>2, <1>3, <1>5 DEF OrderInv, PendingInv
    <2> QED
      BY <1>1, <2>1, <2>2 DEF OrderInv, PendingInv
  <1>15. ASSUME AnswerComes PROVE AnswerComes'
    <2> SUFFICES ASSUME NEW i \in DOMAIN pending, pending[i].key \in answers
                 PROVE  \/ \E j \in DOMAIN toAvr' : toAvr'[j].uid = pending[i].uid
                        \/ \E j \in DOMAIN fromAvr' : fromAvr'[j].uid = pending[i].uid
      BY <1>1 DEF AnswerComes
    <2>1. CASE \E j \in DOMAIN fromAvr : fromAvr[j].uid = pending[i].uid
      BY <1>5, <2>1
    <2>2. ASSUME NEW j \in DOMAIN toAvr, toAvr[j].uid = pending[i].uid, j # 1
          PROVE  \E n \in DOMAIN toAvr' : toAvr'[n].uid = pending[i].uid
      BY <1>4, <2>2
    <2>3. CASE toAvr[1].uid = pending[i].uid
      <3>1. q.key = pending[i].key
        BY <1>2, <2>3 DEF OrderInv, PendingInv
      <3> QED
        BY <1>2, <1>3, <1>5, <2>3, <3>1
    <2> QED
      BY <1>15, <2>1, <2>2, <2>3 DEF AnswerComes
  <1> QED
    BY <1>13, <1>14, <1>15 DEF OrderInv

\* A line nobody asked for answers no query.
LEMMA AvrReportsKeepsOrder ==
  ASSUME OrderInv, AvrReports
  PROVE  OrderInv' /\ (AnswerComes => AnswerComes')
  <1>1. PICK k \in Stems : fromAvr' = Append(fromAvr, [uid |-> Unasked, line |-> LineOf(k)])
    BY DEF AvrReports
  <1>2. UNCHANGED <<pending, timer, answers, toAvr>>
    BY DEF AvrReports, trackerVars
  <1> DEFINE line == [uid |-> Unasked, line |-> LineOf(k)]
  <1>3. line \in Lines /\ line.uid = Unasked
    BY DEF Lines
  <1>4. fromAvr' = Append(fromAvr, line) /\ fromAvr \in Seq(Lines)
    BY <1>1 DEF OrderInv, WayInv
  <1> HIDE DEF line
  <1>5. /\ fromAvr' \in Seq(Lines)
        /\ \A i \in DOMAIN fromAvr : i \in DOMAIN fromAvr' /\ fromAvr'[i] = fromAvr[i]
        /\ \A i \in DOMAIN fromAvr' : \/ i \in DOMAIN fromAvr /\ fromAvr'[i] = fromAvr[i]
                                      \/ fromAvr'[i] = line
    BY <1>3, <1>4, AppendElements
  <1>6. WayInv'
    <2>1. \A i, j \in DOMAIN fromAvr' :
            i < j /\ fromAvr'[i].uid # Unasked /\ fromAvr'[j].uid # Unasked
              => fromAvr'[i].uid < fromAvr'[j].uid
      BY <1>3, <1>5 DEF OrderInv, WayInv
    <2>2. \A i \in DOMAIN fromAvr', j \in DOMAIN toAvr : fromAvr'[i].uid < toAvr[j].uid
      BY <1>3, <1>5, NumbersTyped DEF OrderInv, WayInv
    <2>3. \A i \in DOMAIN fromAvr' : fromAvr'[i].uid # Unasked => timer[fromAvr'[i].uid] # "unused"
      BY <1>3, <1>5 DEF OrderInv, WayInv
    <2> QED
      BY <1>2, <1>5, <2>1, <2>2, <2>3 DEF OrderInv, WayInv
  <1>7. PendingInv'
    <2>1. \A i \in DOMAIN pending, j \in DOMAIN fromAvr' :
            fromAvr'[j].uid = pending[i].uid => fromAvr'[j].line = LineOf(pending[i].key)
      BY <1>3, <1>5, NumbersTyped DEF OrderInv, PendingInv
    <2> QED
      BY <1>2, <2>1 DEF OrderInv, PendingInv
  <1>8. AnswerComes => AnswerComes'
    BY <1>2, <1>5 DEF AnswerComes
  <1> QED
    BY <1>6, <1>7, <1>8 DEF OrderInv

LEMMA OrderInit == Init => OrderInv /\ AnswerComes
  <1> SUFFICES ASSUME Init PROVE OrderInv /\ AnswerComes
    OBVIOUS
  <1>1. /\ pending = <<>> /\ toAvr = <<>> /\ fromAvr = <<>>
        /\ timer \in [Uids -> Timers] /\ \A u \in Uids : timer[u] = "unused"
    BY DEF Init, Timers
  <1>2. DOMAIN pending = {} /\ DOMAIN toAvr = {} /\ DOMAIN fromAvr = {}
    BY <1>1
  <1>3. pending \in Seq(Queries) /\ toAvr \in Seq(Queries) /\ fromAvr \in Seq(Lines)
    BY <1>1
  <1> QED
    BY <1>1, <1>2, <1>3 DEF OrderInv, WayInv, PendingInv, AnswerComes

LEMMA OrderStep ==
  OrderInv /\ [Next]_vars => OrderInv' /\ (Unambiguous /\ AnswerComes => AnswerComes')
  <1> SUFFICES ASSUME OrderInv, [Next]_vars
               PROVE  OrderInv' /\ (Unambiguous /\ AnswerComes => AnswerComes')
    OBVIOUS
  <1> DEFINE Goal == OrderInv' /\ (Unambiguous /\ AnswerComes => AnswerComes')
  <1>0. ASSUME UNCHANGED <<pending, toAvr, fromAvr, answers>>, timer' \in [Uids -> Timers],
               \A u \in Uids : timer'[u] = "unused" <=> timer[u] = "unused"
        PROVE  Goal
    <2>1. Fewer /\ pending' \in Seq(Queries)
      BY <1>0 DEF Fewer, OrderInv, PendingInv
    <2> QED
      BY <1>0, <2>1, FewerPending
  <1>1. ASSUME NEW k \in Stems, NoteSent(k) PROVE Goal
    BY <1>1, NoteSentKeepsOrder
  <1>2. CASE OnResponse
    BY <1>2, OnResponseKeepsOrder
  <1>3. ASSUME NEW u \in Uids, TimerExpires(u) PROVE Goal
    <2>1. timer' \in [Uids -> Timers] /\ \A w \in Uids : timer'[w] = "unused" <=> timer[w] = "unused"
      BY <1>3 DEF TimerExpires, OrderInv, WayInv, Timers
    <2> QED
      BY <1>0, <1>3, <2>1 DEF TimerExpires, avrVars
  <1>4. ASSUME NEW u \in Uids, CompleteTimeout(u) PROVE Goal
    <2>1. timer' \in [Uids -> Timers] /\ \A w \in Uids : timer'[w] = "unused" <=> timer[w] = "unused"
      BY <1>4 DEF CompleteTimeout, OrderInv, WayInv, Timers
    <2>2. UNCHANGED <<toAvr, fromAvr, answers>>
      BY <1>4 DEF CompleteTimeout, avrVars
    <2>3. ASSUME NEW i \in DOMAIN pending, pending' = RemoveAt(pending, i) PROVE Goal
      <3>1. pending' \in Seq(Queries) /\ Fewer
        BY <2>3, RemovalLeavesFewer DEF OrderInv, PendingInv
      <3> QED
        BY <2>1, <2>2, <3>1, FewerPending
    <2>4. CASE pending' = pending
      BY <1>0, <2>1, <2>2, <2>4
    <2> QED
      BY <1>4, <2>3, <2>4, Zenon DEF CompleteTimeout
  <1>5. CASE Lose
    <2>1. /\ pending' = <<>> /\ toAvr' = <<>> /\ fromAvr' = <<>>
          /\ timer' = [u \in Uids |-> IF \E i \in DOMAIN pending : pending[i].uid = u
                                      THEN "over" ELSE timer[u]]
      BY <1>5 DEF Lose, CancelAllPending
    <2>2. DOMAIN pending' = {} /\ DOMAIN toAvr' = {} /\ DOMAIN fromAvr' = {}
      BY <2>1
    <2>3. pending' \in Seq(Queries) /\ toAvr' \in Seq(Queries) /\ fromAvr' \in Seq(Lines)
      BY <2>1
    <2>4. timer' \in [Uids -> Timers] /\ \A u \in Uids : timer'[u] = "unused" <=> timer[u] = "unused"
      BY <2>1 DEF OrderInv, WayInv, PendingInv, Timers
    <2> QED
      BY <2>2, <2>3, <2>4 DEF OrderInv, WayInv, PendingInv, AnswerComes
  <1>6. CASE Reconnect \/ UNCHANGED vars
    <2>1. UNCHANGED <<pending, toAvr, fromAvr, answers, timer>>
      BY <1>6 DEF Reconnect, vars, trackerVars, avrVars
    <2> QED
      BY <1>0, <2>1 DEF OrderInv, WayInv
  <1>7. CASE AvrExecutes
    BY <1>7, AvrExecutesKeepsOrder
  <1>8. CASE AvrReports
    BY <1>8, AvrReportsKeepsOrder
  <1> QED
    BY <1>1, <1>2, <1>3, <1>4, <1>5, <1>6, <1>7, <1>8 DEF Next

-----------------------------------------------------------------------------
(***************************************************************************)
(* Types.                                                                  *)
(***************************************************************************)

\* Each query is counted once at most, and so many can still be.
Live == {u \in Uids : timer[u] # "over"}
Counted ==
  /\ timer \in [Uids -> Timers]
  /\ unanswered \in [Stems -> Nat]
  /\ \A k \in Stems : unanswered[k] + Cardinality(Live) <= MaxQueries

LEMMA UidsFinite == IsFiniteSet(Uids) /\ Cardinality(Uids) = MaxQueries
  <1>1. IsFiniteSet(1..MaxQueries)
        /\ Cardinality(1..MaxQueries) = IF 1 > MaxQueries THEN 0 ELSE MaxQueries - 1 + 1
    BY FS_Interval, CountsAssumption
  <1>2. MaxQueries \in Nat
    BY CountsAssumption
  <1> QED
    BY <1>1, <1>2 DEF Uids

\* A step that ends no wait more than it counts.
LEMMA CountedKept ==
  ASSUME Counted, timer' \in [Uids -> Timers], unanswered' \in [Stems -> Nat],
         Live' \subseteq Live,
         \A k \in Stems : unanswered'[k] = 0 \/ unanswered'[k] <= unanswered[k]
  PROVE  Counted'
  <1>1. Live \subseteq Uids
    BY DEF Live
  <1>2. /\ Cardinality(Live) \in Nat /\ Cardinality(Live') \in Nat
        /\ Cardinality(Live') <= Cardinality(Live) /\ Cardinality(Live) <= MaxQueries
    <2>1. IsFiniteSet(Live) /\ Cardinality(Live) <= Cardinality(Uids)
      BY <1>1, UidsFinite, FS_Subset
    <2>2. IsFiniteSet(Live') /\ Cardinality(Live') <= Cardinality(Live)
      BY <2>1, FS_Subset
    <2> QED
      BY <2>1, <2>2, UidsFinite, FS_CardinalityType
  <1> QED
    BY <1>2, CountsAssumption DEF Counted

\* A timeout counts one query and ends one wait.
LEMMA TimeoutCounted ==
  ASSUME Counted, NEW u \in Uids, timer[u] = "due", timer' = [timer EXCEPT ![u] = "over"],
         NEW k \in Stems, Bump(k)
  PROVE  Counted'
  <1>1. timer' \in [Uids -> Timers] /\ Live' = Live \ {u} /\ u \in Live
    BY DEF Counted, Timers, Live
  <1>2. Cardinality(Live') = Cardinality(Live) - 1 /\ Cardinality(Live) \in Nat
    <2>1. IsFiniteSet(Live)
      BY UidsFinite, FS_Subset DEF Live
    <2> QED
      BY <1>1, <2>1, FS_RemoveElement, FS_CardinalityType
  <1>3. unanswered' = [unanswered EXCEPT ![k] = unanswered[k] + 1] /\ unanswered[k] \in Nat
    BY DEF Bump, Counted
  <1>4. unanswered[k] + 1 \in Nat
    BY <1>3
  <1>5. unanswered' \in [Stems -> Nat]
    BY <1>3, <1>4 DEF Counted
  <1>6. \A l \in Stems : unanswered'[l] = unanswered[l] \/ unanswered'[l] = unanswered[l] + 1
    BY <1>3 DEF Counted
  <1>7. \A l \in Stems : unanswered[l] \in Nat /\ unanswered'[l] \in Nat
    BY <1>5 DEF Counted
  <1> QED
    BY <1>1, <1>2, <1>5, <1>6, <1>7, CountsAssumption DEF Counted

\* What is inductive of the types.
TypeInv ==
  /\ Counted
  /\ suppressed \subseteq Stems
  /\ answers \subseteq Stems
  /\ connected \in BOOLEAN
  /\ late \subseteq answers
  /\ turns \in 0..MaxTurns /\ losses \in 0..MaxLosses

LEMMA TypeStep == OrderInv /\ TypeInv /\ [Next]_vars => TypeInv'
  <1> SUFFICES ASSUME OrderInv, TypeInv, [Next]_vars PROVE TypeInv'
    OBVIOUS
  <1> DEFINE Rest == answers' = answers /\ late' \subseteq answers /\ connected' \in BOOLEAN
                     /\ turns' \in 0..MaxTurns /\ losses' \in 0..MaxLosses
  <1>a. ASSUME UNCHANGED unanswered, suppressed' \subseteq Stems, timer' \in [Uids -> Timers],
               \A u \in Uids : timer[u] = "over" => timer'[u] = "over", Rest
        PROVE  TypeInv'
    <2>1. Live' \subseteq Live
      BY <1>a DEF Live
    <2>2. Counted'
      BY <1>a, <2>1, CountedKept DEF TypeInv, Counted
    <2> QED
      BY <1>a, <2>2 DEF TypeInv
  <1>1. ASSUME NEW k \in Stems, NoteSent(k) PROVE TypeInv'
    <2>1. timer' \in [Uids -> Timers] /\ \A u \in Uids : timer[u] = "over" => timer'[u] = "over"
      BY <1>1 DEF NoteSent, TypeInv, Counted, Timers
    <2>2. Rest /\ UNCHANGED <<unanswered, suppressed>>
      BY <1>1 DEF NoteSent, TypeInv
    <2> QED
      BY <1>a, <2>1, <2>2 DEF TypeInv
  <1>2. CASE OnResponse
    <2>1. Rest
      BY <1>2 DEF OnResponse, TypeInv
    <2>2. ASSUME timer' \in [Uids -> Timers],
                 \A u \in Uids : timer[u] = "over" => timer'[u] = "over", NEW k, Clear(k)
          PROVE  TypeInv'
      <3>1. unanswered' \in [Stems -> Nat] /\ suppressed' \subseteq Stems
            /\ \A l \in Stems : unanswered'[l] = 0 \/ unanswered'[l] = unanswered[l]
        BY <2>2 DEF Clear, TypeInv, Counted
      <3>2. \A l \in Stems : unanswered'[l] = 0 \/ unanswered'[l] <= unanswered[l]
        BY <3>1 DEF TypeInv, Counted
      <3>3. Live' \subseteq Live
        BY <2>2 DEF Live
      <3>4. Counted'
        BY <2>2, <3>1, <3>2, <3>3, CountedKept DEF TypeInv
      <3> QED
        BY <2>1, <3>1, <3>4 DEF TypeInv
    <2>3. ASSUME NEW line, NEW i \in DOMAIN pending, Answer(line, i) PROVE TypeInv'
      <3>1. timer' \in [Uids -> Timers] /\ \A u \in Uids : timer[u] = "over" => timer'[u] = "over"
        BY <2>3 DEF Answer, TypeInv, Counted, Timers
      <3> QED
        BY <2>2, <2>3, <3>1 DEF Answer
    <2>4. ASSUME NEW line, Unsuppress(line) PROVE TypeInv'
      <3>1. timer' = timer /\ ((\E k \in suppressed : Clear(k)) \/ UNCHANGED <<unanswered, suppressed>>)
        BY <2>4, Zenon DEF Unsuppress
      <3>2. timer' \in [Uids -> Timers] /\ \A u \in Uids : timer[u] = "over" => timer'[u] = "over"
        BY <3>1 DEF TypeInv, Counted
      <3>3. CASE \E k \in suppressed : Clear(k)
        BY <2>2, <3>2, <3>3
      <3>4. CASE UNCHANGED <<unanswered, suppressed>>
        BY <1>a, <2>1, <3>2, <3>4 DEF TypeInv
      <3> QED
        BY <3>1, <3>3, <3>4
    <2> QED
      BY <1>2, <2>3, <2>4, Zenon DEF OnResponse
  <1>3. ASSUME NEW u \in Uids, TimerExpires(u) PROVE TypeInv'
    <2>1. timer' \in [Uids -> Timers] /\ \A w \in Uids : timer[w] = "over" => timer'[w] = "over"
      BY <1>3 DEF TimerExpires, TypeInv, Counted, Timers
    <2>2. Rest /\ UNCHANGED <<unanswered, suppressed>>
      BY <1>3 DEF TimerExpires, avrVars, TypeInv
    <2> QED
      BY <1>a, <2>1, <2>2 DEF TypeInv
  <1>4. ASSUME NEW u \in Uids, CompleteTimeout(u) PROVE TypeInv'
    <2>0. /\ timer[u] = "due" /\ timer' = [timer EXCEPT ![u] = "over"]
          /\ UNCHANGED <<answers, connected, turns, losses>>
      BY <1>4 DEF CompleteTimeout, avrVars
    <2>1. ASSUME NEW i \in DOMAIN pending, Bump(pending[i].key),
                 late' = IF UnderWay(u) /\ pending[i].key \in answers
                         THEN late \cup {pending[i].key} ELSE late
          PROVE  TypeInv'
      <3>1. pending[i].key \in Stems
        BY NumbersTyped
      <3>2. Counted'
        BY <2>0, <2>1, <3>1, TimeoutCounted DEF TypeInv
      <3>3. suppressed' \subseteq Stems
        BY <2>1, <3>1 DEF Bump, TypeInv
      <3>4. late' \subseteq answers
        BY <2>1 DEF TypeInv
      <3> QED
        BY <2>0, <3>2, <3>3, <3>4 DEF TypeInv
    <2>2. CASE UNCHANGED <<unanswered, suppressed, late>>
      <3>1. timer' \in [Uids -> Timers] /\ \A w \in Uids : timer[w] = "over" => timer'[w] = "over"
        BY <2>0 DEF TypeInv, Counted, Timers
      <3>2. Rest
        BY <2>0, <2>2 DEF TypeInv
      <3> QED
        BY <1>a, <2>2, <3>1, <3>2 DEF TypeInv
    <2> QED
      BY <1>4, <2>1, <2>2, Zenon DEF CompleteTimeout
  <1>5. CASE Lose
    <2>1. timer' = [u \in Uids |-> IF \E i \in DOMAIN pending : pending[i].uid = u
                                   THEN "over" ELSE timer[u]]
      BY <1>5 DEF Lose, CancelAllPending
    <2>2. timer' \in [Uids -> Timers] /\ \A u \in Uids : timer[u] = "over" => timer'[u] = "over"
      BY <2>1 DEF TypeInv, Counted, Timers
    <2>3. Rest
      <3>1. losses' \in 0..MaxLosses
        <4>1. losses < MaxLosses /\ losses' = losses + 1
          BY <1>5 DEF Lose
        <4> QED
          BY <4>1, CountsAssumption DEF TypeInv
      <3>2. connected' \in BOOLEAN /\ UNCHANGED <<answers, late, turns>>
        BY <1>5, Zenon DEF Lose
      <3> QED
        BY <3>1, <3>2 DEF TypeInv
    <2>4. UNCHANGED <<unanswered, suppressed>>
      BY <1>5 DEF Lose
    <2> QED
      BY <1>a, <2>2, <2>3, <2>4 DEF TypeInv
  <1>6. CASE Reconnect \/ AvrExecutes \/ AvrReports \/ UNCHANGED vars
    <2>1. UNCHANGED <<timer, unanswered, suppressed>>
      BY <1>6 DEF Reconnect, AvrExecutes, AvrReports, vars, trackerVars
    <2>2. timer' \in [Uids -> Timers] /\ \A u \in Uids : timer[u] = "over" => timer'[u] = "over"
      BY <2>1 DEF TypeInv, Counted
    <2>3. Rest
      <3>1. CASE Reconnect \/ AvrExecutes \/ UNCHANGED vars
        BY <1>6, <3>1 DEF Reconnect, AvrExecutes, vars, avrVars, TypeInv
      <3>2. CASE AvrReports
        <4>1. turns < MaxTurns /\ turns' = turns + 1
          BY <3>2 DEF AvrReports
        <4>2. turns' \in 0..MaxTurns
          BY <4>1, CountsAssumption DEF TypeInv
        <4>3. UNCHANGED <<answers, connected, late, losses>>
          BY <3>2 DEF AvrReports
        <4> QED
          BY <4>2, <4>3 DEF TypeInv
      <3> QED
        BY <1>6, <3>1, <3>2
    <2> QED
      BY <1>a, <2>1, <2>2, <2>3 DEF TypeInv
  <1> QED
    BY <1>1, <1>2, <1>3, <1>4, <1>5, <1>6 DEF Next

LEMMA TypeInit == Init => TypeInv
  <1> SUFFICES ASSUME Init PROVE TypeInv
    OBVIOUS
  <1>1. timer = [u \in Uids |-> "unused"] /\ Live = Uids
    BY DEF Init, Live
  <1>2. Counted
    BY <1>1, UidsFinite, CountsAssumption DEF Init, Counted, Timers
  <1> QED
    BY <1>2, CountsAssumption DEF Init, TypeInv

\* Whatever is sent, answered, timed out and lost, each variable of the
\* tracker keeps its type; no count passes the number of queries sent.
THEOREM TrackerTypeCorrect == Spec => []TypeOK
  <1> DEFINE Inv == OrderInv /\ TypeInv
  <1>1. Init => Inv
    BY OrderInit, TypeInit
  <1>2. Inv /\ [Next]_vars => Inv'
    BY OrderStep, TypeStep
  <1>3. Inv => TypeOK
    <2> SUFFICES ASSUME Inv PROVE TypeOK
      OBVIOUS
    <2>1. unanswered \in [Stems -> 0..MaxQueries]
      <3>1. Cardinality(Live) \in Nat
        BY UidsFinite, FS_Subset, FS_CardinalityType DEF Live
      <3>2. \A k \in Stems : unanswered[k] \in 0..MaxQueries
        BY <3>1, CountsAssumption DEF TypeInv, Counted
      <3> QED
        BY <3>2 DEF TypeInv, Counted
    <2> QED
      BY <2>1, NumbersTyped DEF TypeOK, TypeInv, OrderInv, WayInv, PendingInv
  <1> HIDE DEF Inv
  <1> QED
    BY <1>1, <1>2, <1>3, PTL DEF Spec

-----------------------------------------------------------------------------
(***************************************************************************)
(* Queries that are answered.                                              *)
(***************************************************************************)

\* The count of a query the AVR answers rises only when its answer is late.
LEMMA AnsweredStep ==
  ASSUME OrderInv, AnswerComes, CountInv, TypeInv, AnsweredIsNotCounted, [Next]_vars
  PROVE  AnsweredIsNotCounted'
  <1>0. ASSUME UNCHANGED <<unanswered, answers, late>> PROVE AnsweredIsNotCounted'
    BY <1>0 DEF AnsweredIsNotCounted, TypeInv
  <1>1. ASSUME NEW k \in Stems, NoteSent(k) PROVE AnsweredIsNotCounted'
    BY <1>0, <1>1 DEF NoteSent
  <1>2. CASE OnResponse
    <2>0. UNCHANGED <<answers, late>>
      BY <1>2 DEF OnResponse
    <2>1. ASSUME NEW k, Clear(k) PROVE AnsweredIsNotCounted'
      <3>1. \A l \in Stems : unanswered'[l] = 0 \/ unanswered'[l] = unanswered[l]
        BY <2>1 DEF Clear, CountInv
      <3> QED
        BY <2>0, <3>1 DEF AnsweredIsNotCounted, TypeInv
    <2>2. (\E k : Clear(k)) \/ unanswered' = unanswered
      BY <1>2, Zenon DEF OnResponse, Answer, Unsuppress
    <2> QED
      BY <1>0, <2>0, <2>1, <2>2
  <1>3. ASSUME NEW u \in Uids, TimerExpires(u) PROVE AnsweredIsNotCounted'
    BY <1>0, <1>3 DEF TimerExpires, avrVars
  <1>4. ASSUME NEW u \in Uids, CompleteTimeout(u) PROVE AnsweredIsNotCounted'
    <2>0. answers' = answers
      BY <1>4 DEF CompleteTimeout, avrVars
    <2>1. ASSUME NEW i \in DOMAIN pending, pending[i].uid = u, Bump(pending[i].key),
                 late' = IF UnderWay(u) /\ pending[i].key \in answers
                         THEN late \cup {pending[i].key} ELSE late
          PROVE  AnsweredIsNotCounted'
      <3> DEFINE k == pending[i].key
      <3>1. unanswered' = [unanswered EXCEPT ![k] = unanswered[k] + 1]
        BY <2>1 DEF Bump
      <3>2. k \in answers => UnderWay(u)
        BY <2>1 DEF AnswerComes, UnderWay
      <3>3. k \in answers => k \in late'
        BY <2>1, <3>2
      <3>4. late \subseteq late'
        BY <2>1
      <3> HIDE DEF k
      <3>5. \A l \in Stems : l # k => unanswered'[l] = unanswered[l]
        BY <3>1 DEF CountInv
      <3> QED
        BY <2>0, <3>3, <3>4, <3>5 DEF AnsweredIsNotCounted, TypeInv
    <2>2. CASE UNCHANGED <<unanswered, late>>
      BY <1>0, <2>0, <2>2
    <2> QED
      BY <1>4, <2>1, <2>2, Zenon DEF CompleteTimeout
  <1>5. CASE Lose
    BY <1>0, <1>5 DEF Lose
  <1>6. CASE Reconnect \/ AvrExecutes \/ AvrReports \/ UNCHANGED vars
    BY <1>0, <1>6 DEF Reconnect, AvrExecutes, AvrReports, vars, trackerVars, avrVars
  <1> QED
    BY <1>1, <1>2, <1>3, <1>4, <1>5, <1>6 DEF Next

\* Unless a line stands for two queries, no query that the AVR answers in time
\* is ever counted, however many queries it ignores and however often the
\* connection is lost.
THEOREM AnsweredNotCounted == Unambiguous => (Spec => []AnsweredIsNotCounted)
  <1> SUFFICES ASSUME Unambiguous PROVE Spec => []AnsweredIsNotCounted
    OBVIOUS
  <1> DEFINE Inv == OrderInv /\ AnswerComes /\ CountInv /\ TypeInv /\ AnsweredIsNotCounted
  <1>1. Init => Inv
    BY OrderInit, CountInit, TypeInit DEF Init, TypeInv, AnsweredIsNotCounted
  <1>2. Inv /\ [Next]_vars => Inv'
    BY OrderStep, CountStep, TypeStep, AnsweredStep
  <1>3. Inv => AnsweredIsNotCounted
    OBVIOUS
  <1> HIDE DEF Inv
  <1> QED
    BY <1>1, <1>2, <1>3, PTL DEF Spec
=============================================================================
