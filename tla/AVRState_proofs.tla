-------------------------- MODULE AVRState_proofs --------------------------
(***************************************************************************)
(* What telnet lines and commands make of the state, for every set of      *)
(* sources, modes, slots, texts and levels, and for lines of any number:   *)
(* the mirror of a client agrees with the state, the virtual AVR is on or  *)
(* in standby, and the volume is that of Volume, whose own theorems about  *)
(* steps and levels come first.                                            *)
(*                                                                         *)
(* A dump has five to seven lines, and who reads it goes through them one  *)
(* by one; UpdatedByStepwise, which is an induction over their number, is  *)
(* what makes DumpIsTold a matter of seven assignments.                    *)
(***************************************************************************)
EXTENDS AVRState, WellFoundedInduction, TLAPS

\* What holds of 0, and of n + 1 whenever of n, holds of all numbers.
LEMMA Induction ==
  ASSUME NEW T, T \subseteq Nat, 0 \in T, \A n \in T : n + 1 \in T
  PROVE  T = Nat
  <1> SUFFICES ASSUME Nat \ T # {} PROVE FALSE
    OBVIOUS
  <1>1. PICK m \in Nat \ T : \A n \in Nat \ T : <<n, m>> \notin OpToRel(<, Nat)
    <2> DEFINE S == Nat \ T
    <2>1. S \subseteq Nat
      OBVIOUS
    <2> HIDE DEF S
    <2> QED
      BY <2>1, NatLessThanWellFounded, WFMin, Zenon DEF S
  <1>2. \A n \in Nat \ T : ~(n < m)
    BY <1>1, Zenon DEF OpToRel
  <1> QED
    BY <1>2

-----------------------------------------------------------------------------
(***************************************************************************)
(* Volume steps, for every volume_step, every text and every limit.        *)
(***************************************************************************)

LEMMA NumbersAre == \A n : n \in Numbers <=> n \in Int /\ 0 <= n /\ n <= 999
  BY SMTT(30) DEF Numbers

\* A text, by its length.
LEMMA TextsAre ==
  ASSUME NEW t
  PROVE  t \in Texts <=> /\ t \in [digits : {1, 2, 3}, num : Int]
                         /\ 0 <= t.num
                         /\ t.digits = 1 => t.num <= 9
                         /\ t.digits = 2 => t.num <= 99
                         /\ t.digits = 3 => t.num <= 999
  BY NumbersAre DEF Texts

\* A level between the limits, as FormatVolume clamps it.
Clamp(tenths, max) == Greatest(0, Least(max, tenths))

LEMMA ClampInRange ==
  ASSUME NEW x \in Int, NEW max \in Numbers
  PROVE  Clamp(x, max) \in 0..max
  BY NumbersAre DEF Clamp, Greatest, Least

\* A number of up to three digits is written as a text that is its own.
LEMMA StrIsText ==
  ASSUME NEW n \in Numbers
  PROVE  /\ Str(n) \in Texts
         /\ Str(n).num = n
         /\ Str(n).digits = 3 <=> n >= 100
  <1>1. CASE n < 10
    BY <1>1, NumbersAre, TextsAre DEF Str
  <1>2. CASE n >= 10 /\ n < 100
    BY <1>2, NumbersAre, TextsAre DEF Str
  <1>3. CASE n >= 100
    BY <1>3, NumbersAre, TextsAre DEF Str
  <1> QED
    BY <1>1, <1>2, <1>3, NumbersAre

LEMMA FormatIsText ==
  ASSUME NEW x \in Int, NEW max \in Numbers
  PROVE  FormatVolume(x, max) \in Texts
  <1> DEFINE level == Clamp(x, max)
  <1>1. level \in 0..max
    BY ClampInRange
  <1>2. FormatVolume(x, max) = IF level % 10 = 0 THEN Str(level \div 10) ELSE Str(level)
    BY DEF FormatVolume, Clamp
  <1> HIDE DEF level
  <1>3. level \in Numbers /\ level \div 10 \in Numbers
    BY <1>1, NumbersAre
  <1>4. Str(level) \in Texts
    BY <1>3, StrIsText
  <1>5. Str(level \div 10) \in Texts
    BY <1>3, StrIsText
  <1> QED
    BY <1>2, <1>4, <1>5

\* What FormatVolume writes, VolumeToLevel reads back: from ten upwards, and
\* whole steps below ten.
LEMMA RoundTrip ==
  ASSUME NEW x \in Int, NEW max \in Numbers, Clear(Clamp(x, max))
  PROVE  VolumeToLevel(FormatVolume(x, max), max) = Clamp(x, max)
  <1> DEFINE level == Clamp(x, max)
  <1>1. level \in 0..max
    BY ClampInRange
  <1>2. FormatVolume(x, max) = IF level % 10 = 0 THEN Str(level \div 10) ELSE Str(level)
    BY DEF FormatVolume, Clamp
  <1>3. level >= 100 \/ level % 10 = 0
    BY DEF Clear
  <1> HIDE DEF level
  <1>4. DigitsToLevel(FormatVolume(x, max)) = level
    <2>1. CASE level % 10 = 0
      <3>1. level \div 10 \in 0..99 /\ 10 * (level \div 10) = level
        BY <1>1, <2>1, NumbersAre
      <3>2. Str(level \div 10).num = level \div 10 /\ Str(level \div 10).digits # 3
        <4> DEFINE n == level \div 10
        <4>1. n \in Numbers /\ ~(n >= 100)
          BY <3>1, NumbersAre
        <4> HIDE DEF n
        <4>2. Str(n).num = n /\ Str(n).digits # 3
          BY <4>1, StrIsText
        <4> QED
          BY <4>2 DEF n
      <3> QED
        BY <1>2, <2>1, <3>1, <3>2 DEF DigitsToLevel
    <2>2. CASE level % 10 # 0
      <3>1. Str(level).num = level /\ Str(level).digits = 3
        <4>1. level \in Numbers /\ level >= 100
          BY <1>1, <1>3, <2>2, NumbersAre
        <4> QED
          BY <4>1, StrIsText
      <3> QED
        BY <1>2, <2>2, <3>1 DEF DigitsToLevel
    <2> QED
      BY <2>1, <2>2
  <1>5. VolumeToLevel(FormatVolume(x, max), max) = Greatest(0, Least(max, level))
    BY <1>4, FormatIsText DEF VolumeToLevel
  <1>6. Greatest(0, Least(max, level)) = level
    BY <1>1, NumbersAre DEF Greatest, Least
  <1> QED
    BY <1>5, <1>6 DEF level

LEMMA TextLevel ==
  ASSUME NEW text \in Texts
  PROVE  DigitsToLevel(text) \in Numbers
  BY TextsAre, NumbersAre DEF DigitsToLevel

LEMMA LevelInInt ==
  ASSUME TypeOK
  PROVE  Level \in Nat
  <1>1. CASE volume \in Texts
    <2>1. DigitsToLevel(volume) \in Numbers
      BY <1>1, TextLevel
    <2> QED
      BY <1>1, <2>1, NumbersAre DEF TypeOK, Level, VolumeToLevel, Greatest, Least
  <1>2. CASE volume \notin Texts
    BY <1>2 DEF Level, VolumeToLevel, DefaultLevel
  <1> QED
    BY <1>1, <1>2

-----------------------------------------------------------------------------
LEMMA InitTyped == Init => TypeOK
  <1> SUFFICES ASSUME Init PROVE TypeOK
    OBVIOUS
  <1>1. Str(DefaultLevel \div 10) \in Texts
    <2>1. DefaultLevel \div 10 = 50
      BY DEF DefaultLevel
    <2> QED
      BY <2>1, StrIsText, NumbersAre
  <1> QED
    BY <1>1, TextsAssumption, NumbersAre DEF Init, TypeOK, DefaultLimit

LEMMA StepTyped == TypeOK /\ [Next]_vars => TypeOK'
  <1> SUFFICES ASSUME TypeOK, [Next]_vars PROVE TypeOK'
    OBVIOUS
  <1>1. Level \in Nat /\ Step \in Nat /\ limit \in Numbers
    BY LevelInInt, StepAssumption DEF TypeOK
  <1>2. CASE Up
    <2>1. Least(limit, Level + Step) \in Int
      BY <1>1, NumbersAre DEF Least
    <2> QED
      BY <1>1, <1>2, <2>1, FormatIsText DEF Up, TypeOK
  <1>3. CASE Down
    <2>1. Greatest(0, Level - Step) \in Int
      BY <1>1 DEF Greatest
    <2> QED
      BY <1>1, <1>3, <2>1, FormatIsText DEF Down, TypeOK
  <1>4. ASSUME NEW text \in Reported, Set(text) PROVE TypeOK'
    BY <1>4, TextsAssumption DEF Set, TypeOK
  <1>5. ASSUME NEW text \in Limits, SetLimit(text) PROVE TypeOK'
    BY <1>5, TextsAssumption, TextLevel DEF SetLimit, TypeOK
  <1>6. ASSUME NEW h \in Asked, SetByHttp(h) PROVE TypeOK'
    <2>1. RoundToHalfStep(h) \in Int
      BY AskedAssumption DEF RoundToHalfStep
    <2> QED
      BY <1>1, <1>6, <2>1, FormatIsText DEF SetByHttp, TypeOK
  <1>7. CASE UNCHANGED vars
    BY <1>7 DEF vars, TypeOK
  <1> QED
    BY <1>2, <1>3, <1>4, <1>5, <1>6, <1>7 DEF Next

\* The volume is always a text of at most three digits, or no number at all,
\* and the limit a level such a text can name.
THEOREM TypeCorrect == Spec => []TypeOK
  BY InitTyped, StepTyped, PTL DEF Spec

-----------------------------------------------------------------------------
LEMMA StepIsExact ==
  ASSUME TypeOK, [Next]_vars
  PROVE  /\ Up /\ Clear(Higher) => Level' = Higher
         /\ Down /\ Clear(Lower) => Level' = Lower
  <1>1. Level \in Nat /\ Step \in Nat /\ limit \in Numbers
    BY LevelInInt, StepAssumption DEF TypeOK
  <1>2. ASSUME Up, Clear(Higher) PROVE Level' = Higher
    <2> DEFINE x == Least(limit, Level + Step)
    <2>1. x \in Int /\ Clamp(x, limit) = Higher
      BY <1>1, NumbersAre DEF Clamp, Higher, Least, Greatest
    <2>2. VolumeToLevel(FormatVolume(x, limit), limit) = Clamp(x, limit)
      <3> HIDE DEF x
      <3> QED BY <1>1, <1>2, <2>1, RoundTrip
    <2> QED
      BY <1>2, <2>1, <2>2 DEF Up, Level
  <1>3. ASSUME Down, Clear(Lower) PROVE Level' = Lower
    <2> DEFINE x == Greatest(0, Level - Step)
    <2>1. x \in Int /\ Clamp(x, limit) = Lower
      BY <1>1, NumbersAre DEF Clamp, Lower, Least, Greatest
    <2>2. VolumeToLevel(FormatVolume(x, limit), limit) = Clamp(x, limit)
      <3> HIDE DEF x
      <3> QED BY <1>1, <1>3, <2>1, RoundTrip
    <2> QED
      BY <1>3, <2>1, <2>2 DEF Down, Level
  <1> QED
    BY <1>2, <1>3

\* MVUP and MVDOWN move the level by exactly volume_step, up to the limits,
\* whatever texts of the AVR or of clients came before, except onto half
\* steps below ten.
THEOREM StepsExact == Spec => StepsWhereClear
  <1>1. TypeOK /\ [Next]_vars
          => [/\ Up /\ Clear(Higher) => Level' = Higher
              /\ Down /\ Clear(Lower) => Level' = Lower]_vars
    BY StepIsExact
  <1> QED
    BY <1>1, TypeCorrect, PTL DEF Spec, StepsWhereClear

-----------------------------------------------------------------------------
\* Rounding moves a level by at most a quarter.
LEMMA RoundingIsNear ==
  ASSUME NEW h \in Nat
  PROVE  /\ RoundToHalfStep(h) \in Nat
         /\ 10 * RoundToHalfStep(h) - h <= 25
         /\ h - 10 * RoundToHalfStep(h) <= 25
  <1> DEFINE n == h \div 50
             r == h % 50
  <1>1. n \in Nat /\ r \in 0..49 /\ h = 50 * n + r
    OBVIOUS
  <1>2. RoundToHalfStep(h) = 5 * (IF r < 25 \/ (r = 25 /\ n % 2 = 0) THEN n ELSE n + 1)
    BY DEF RoundToHalfStep
  <1> HIDE DEF n, r
  <1>3. CASE r < 25 \/ (r = 25 /\ n % 2 = 0)
    BY <1>1, <1>2, <1>3
  <1>4. CASE ~(r < 25 \/ (r = 25 /\ n % 2 = 0))
    <2>1. RoundToHalfStep(h) = 5 * (n + 1)
      BY <1>2, <1>4
    <2>2. r >= 25
      BY <1>1, <1>4
    <2> QED
      BY <1>1, <2>1, <2>2
  <1> QED
    BY <1>3, <1>4

LEMMA HttpIsNear ==
  ASSUME TypeOK, NEW h \in Asked, SetByHttp(h), h >= 1000 \/ h % 100 = 0
  PROVE  10 * Level' - h <= 25 /\ h - 10 * Level' <= 25
  <1> DEFINE x == RoundToHalfStep(h)
             level == Clamp(x, limit)
  <1>1. h \in Nat /\ limit \in Numbers /\ h <= 10 * limit
    BY AskedAssumption DEF TypeOK, SetByHttp
  <1>2. x \in Nat /\ 10 * x - h <= 25 /\ h - 10 * x <= 25
    BY <1>1, RoundingIsNear
  <1>3. level \in 0..limit /\ (level = x \/ (level = limit /\ limit <= x))
    <2> HIDE DEF x
    <2> QED BY <1>1, <1>2, NumbersAre DEF Clamp, Greatest, Least
  <1>4. Clear(level)
    <2>1. CASE h >= 1000
      <3>1. x >= 100
        <4>1. 10 * x >= 975
          BY <1>1, <1>2, <2>1
        <4>2. x % 5 = 0
          BY <1>1 DEF RoundToHalfStep
        <4> HIDE DEF x
        <4> QED BY <1>2, <4>1, <4>2
      <3>2. limit >= 100
        BY <1>1, <2>1, NumbersAre
      <3> HIDE DEF level, x
      <3> QED
        BY <1>1, <1>2, <1>3, <3>1, <3>2 DEF Clear
    <2>2. CASE h % 100 = 0
      <3>1. h % 50 = 0 /\ 5 * (h \div 50) = 10 * (h \div 100) /\ h = 100 * (h \div 100)
        BY <1>1, <2>2
      <3>2. x = 10 * (h \div 100)
        BY <3>1 DEF RoundToHalfStep
      <3>3. x <= limit /\ x % 10 = 0
        <4> HIDE DEF x
        <4> QED BY <1>1, <3>1, <3>2, NumbersAre
      <3>4. level = x
        <4> HIDE DEF x, level
        <4> QED BY <1>1, <1>2, <1>3, <3>3
      <3> HIDE DEF level, x
      <3> QED
        BY <3>3, <3>4 DEF Clear
    <2> QED
      BY <2>1, <2>2
  <1>5. Level' = level
    <2>1. Level' = VolumeToLevel(FormatVolume(x, limit), limit)
      BY DEF SetByHttp, Level
    <2>2. VolumeToLevel(FormatVolume(x, limit), limit) = level
      <3> HIDE DEF x
      <3>1. x \in Int /\ Clear(Clamp(x, limit))
        BY <1>2, <1>4
      <3> QED BY <1>1, <3>1, RoundTrip
    <2> QED
      BY <2>1, <2>2
  <1> HIDE DEF level, x
  <1> QED
    BY <1>1, <1>2, <1>3, <1>5

\* volume/set of the HTTP API sets the level it is asked for, to within a
\* quarter, from ten upwards and for whole levels below.
THEOREM HttpExact == Spec => HttpSetsLevel
  <1>1. TypeOK /\ [Next]_vars
          => [\A h \in Asked : SetByHttp(h) /\ (h >= 1000 \/ h % 100 = 0)
                => /\ 10 * Level' - h <= 25
                   /\ h - 10 * Level' <= 25]_vars
    BY HttpIsNear
  <1> QED
    BY <1>1, TypeCorrect, PTL DEF Spec, HttpSetsLevel

-----------------------------------------------------------------------------
\* UpdatedBy goes through the lines one by one.
LEMMA UpdatedByStepwise ==
  ASSUME NEW s, NEW lines, Len(lines) \in Nat, NEW prefixes
  PROVE  \E upTo : /\ upTo[0] = s
                   /\ \A i \in 1..Len(lines) :
                        upTo[i] = IF Prefix(lines[i]) \in prefixes
                                  THEN Updated(upTo[i - 1], lines[i]) ELSE upTo[i - 1]
                   /\ UpdatedBy(s, lines, prefixes) = upTo[Len(lines)]
  <1> DEFINE Next1(f, i) == IF i = 0 THEN s
                            ELSE IF Prefix(lines[i]) \in prefixes
                                 THEN Updated(f[i - 1], lines[i]) ELSE f[i - 1]
             T == {n \in Nat : \E f : f = [i \in 0..n |-> Next1(f, i)]}
  <1>1. 0 \in T
    <2> DEFINE f == [i \in 0..0 |-> s]
    <2>1. f = [i \in 0..0 |-> Next1(f, i)]
      OBVIOUS
    <2> QED
      BY <2>1
  <1>2. ASSUME NEW n \in T PROVE n + 1 \in T
    <2>0. n \in Nat
      OBVIOUS
    <2>1. PICK f : f = [i \in 0..n |-> Next1(f, i)]
      OBVIOUS
    <2> DEFINE g == [i \in 0..n + 1 |-> Next1(f, i)]
    <2>2. \A i \in 0..n : g[i] = f[i]
      BY <2>1
    <2>3. \A i \in 0..n + 1 : Next1(f, i) = Next1(g, i)
      <3> TAKE i \in 0..n + 1
      <3>1. CASE i = 0
        BY <3>1
      <3>2. CASE i # 0
        <4> HIDE DEF g, T
        <4>1. g[i - 1] = f[i - 1]
          <5>1. i - 1 \in 0..n
            BY <2>0, <3>2
          <5> QED
            BY <2>2, <5>1
        <4> QED
          BY <3>2, <4>1
      <3> QED
        BY <3>1, <3>2
    <2>4. g = [i \in 0..n + 1 |-> Next1(g, i)]
      <3> HIDE DEF Next1
      <3> QED BY <2>3
    <2> HIDE DEF g
    <2> QED
      BY <2>4
  <1>3. Len(lines) \in T
    <2>1. T \subseteq Nat
      OBVIOUS
    <2> HIDE DEF T
    <2> QED
      BY <1>1, <1>2, <2>1, Induction
  <1>4. PICK f : f = [i \in 0..Len(lines) |-> Next1(f, i)]
    BY <1>3
  <1> DEFINE upTo == CHOOSE g : g = [i \in 0..Len(lines) |-> Next1(g, i)]
  <1>5. upTo = [i \in 0..Len(lines) |-> Next1(upTo, i)]
    BY <1>4
  <1>6. UpdatedBy(s, lines, prefixes) = upTo[Len(lines)]
    BY DEF UpdatedBy
  <1> HIDE DEF upTo
  <1> QED
    BY <1>5, <1>6

-----------------------------------------------------------------------------
(***************************************************************************)
(* What a dump tells.                                                      *)
(***************************************************************************)

\* A state as one record, whatever is known of it.
Known == [power : Powers \cup {None}, volume : Texts \cup {NoNumber, None},
          volume_max : Int \cup {None}, input_source : Inputs \cup {None},
          mute : BOOLEAN \cup {None}, sound_mode : Modes \cup {None},
          smart_select : Slots \cup {None}]

\* The state of the proxy: only the sound mode may be unknown.
Full == [power : Powers, volume : Texts \cup {NoNumber}, volume_max : Numbers,
         input_source : Inputs, mute : BOOLEAN, sound_mode : Modes \cup {None},
         smart_select : Slots \cup {None}]

\* A state m after the lines of the dump of s that are about prefixes.
Told(m, s, prefixes) ==
  [power |-> IF "ZM" \in prefixes THEN IF s.power = "ON" THEN "ON" ELSE "STANDBY"
             ELSE IF "PW" \in prefixes THEN s.power ELSE m.power,
   volume |-> IF "MV" \in prefixes THEN s.volume ELSE m.volume,
   volume_max |-> m.volume_max,
   input_source |-> IF "SI" \in prefixes THEN s.input_source ELSE m.input_source,
   mute |-> IF "MU" \in prefixes THEN s.mute ELSE m.mute,
   sound_mode |-> IF "MS" \in prefixes /\ s.sound_mode # None THEN s.sound_mode ELSE m.sound_mode,
   smart_select |-> IF "MS" \in prefixes /\ s.smart_select # None THEN s.smart_select
                    ELSE m.smart_select]

LEMMA FullIsKnown == Full \subseteq Known
  BY NumbersAre DEF Full, Known

\* A sequence with nothing and with one more.
LEMMA OneMore ==
  ASSUME NEW S, NEW t \in Seq(S), NEW x \in S
  PROVE  t \o <<>> = t /\ t \o <<x>> = Append(t, x)
  OBVIOUS

\* The first lines of a dump are always there, in this order.
LEMMA DumpBegins ==
  ASSUME NEW s \in Full
  PROVE  /\ 5 <= Len(Dump(s)) /\ Len(Dump(s)) <= 7
         /\ Dump(s)[1] = Line("PW", s.power)
         /\ Dump(s)[2] = Line("ZM", IF s.power = "ON" THEN "ON" ELSE "OFF")
         /\ Dump(s)[3] = Line("MV", s.volume)
         /\ Dump(s)[4] = Line("SI", s.input_source)
         /\ Dump(s)[5] = Line("MU", IF s.mute THEN "ON" ELSE "OFF")
         /\ s.sound_mode # None => Dump(s)[6] = Line("MS", s.sound_mode)
         /\ s.smart_select # None => Dump(s)[Len(Dump(s))] = Line("MSSMART", s.smart_select)
         /\ Len(Dump(s)) <= 5 <=> s.sound_mode = None /\ s.smart_select = None
         /\ Len(Dump(s)) >= 7 <=> s.sound_mode # None /\ s.smart_select # None
  <1> DEFINE a == Line("PW", s.power)
             b == Line("ZM", IF s.power = "ON" THEN "ON" ELSE "OFF")
             c == Line("MV", s.volume)
             d == Line("SI", s.input_source)
             e == Line("MU", IF s.mute THEN "ON" ELSE "OFF")
             f == Line("MS", s.sound_mode)
             g == Line("MSSMART", s.smart_select)
             S == {a, b, c, d, e, f, g}
             five == <<a, b, c, d, e>>
  <1>1. Dump(s) = five \o (IF s.sound_mode = None THEN <<>> ELSE <<f>>)
                       \o (IF s.smart_select = None THEN <<>> ELSE <<g>>)
    BY DEF Dump
  <1>2. f \in S /\ g \in S
    OBVIOUS
  <1>3. five \in Seq(S) /\ Len(five) <= 5 /\ Len(five) >= 5
    <2> HIDE DEF a, b, c, d, e, f, g
    <2> QED
      OBVIOUS
  <1>4. five[1] = a /\ five[2] = b /\ five[3] = c /\ five[4] = d /\ five[5] = e
    OBVIOUS
  <1> DEFINE mode == s.sound_mode # None
             slot == s.smart_select # None
             dump == Dump(s)
  <1> HIDE DEF a, b, c, d, e, f, g, S, five
  <1> SUFFICES /\ 5 <= Len(dump) /\ Len(dump) <= 7
               /\ dump[1] = a /\ dump[2] = b /\ dump[3] = c /\ dump[4] = d /\ dump[5] = e
               /\ mode => dump[6] = f
               /\ slot => dump[Len(dump)] = g
               /\ Len(dump) <= 5 <=> ~mode /\ ~slot
               /\ Len(dump) >= 7 <=> mode /\ slot
    BY DEF a, b, c, d, e, f, g
  <1>5. five \o <<>> = five /\ five \o <<f>> = Append(five, f) /\ five \o <<g>> = Append(five, g)
    BY <1>2, <1>3, OneMore
  <1>6. Append(five, f) \in Seq(S)
    BY <1>2, <1>3
  <1>7. Append(five, f) \o <<>> = Append(five, f)
        /\ Append(five, f) \o <<g>> = Append(Append(five, f), g)
    BY <1>2, <1>6, OneMore
  <1>8. CASE ~mode /\ ~slot
    <2>1. dump = five
      BY <1>1, <1>5, <1>8
    <2> HIDE DEF mode, slot, dump
    <2> QED
      BY <1>3, <1>4, <1>8, <2>1
  <1>9. CASE mode /\ ~slot
    <2>1. dump = Append(five, f)
      BY <1>1, <1>5, <1>7, <1>9
    <2> HIDE DEF mode, slot, dump
    <2>2. /\ Len(dump) <= 6 /\ Len(dump) >= 6
          /\ \A i \in 1..5 : dump[i] = five[i]
          /\ dump[6] = f
      BY <1>2, <1>3, <2>1
    <2> QED
      BY <1>4, <1>9, <2>2
  <1>10. CASE ~mode /\ slot
    <2>1. dump = Append(five, g)
      BY <1>1, <1>5, <1>10
    <2> HIDE DEF mode, slot, dump
    <2>2. /\ Len(dump) <= 6 /\ Len(dump) >= 6
          /\ \A i \in 1..5 : dump[i] = five[i]
          /\ dump[6] = g
      BY <1>2, <1>3, <2>1
    <2> QED
      BY <1>4, <1>10, <2>2
  <1>11. CASE mode /\ slot
    <2>1. dump = Append(Append(five, f), g)
      BY <1>1, <1>5, <1>7, <1>11
    <2> HIDE DEF mode, slot, dump
    <2> QED
      BY <1>2, <1>3, <1>4, <1>11, <2>1
  <1> QED
    BY <1>8, <1>9, <1>10, <1>11

\* A state by its fields.
AsRecord(power, volume_, max, input, mute, mode, slot) ==
  [power |-> power, volume |-> volume_, volume_max |-> max, input_source |-> input,
   mute |-> mute, sound_mode |-> mode, smart_select |-> slot]

\* What each line changes.
LEMMA UpdatedField ==
  ASSUME NEW p, NEW v, NEW l, NEW i, NEW u, NEW m, NEW s, NEW x
  PROVE  LET state == AsRecord(p, v, l, i, u, m, s)
         IN  /\ Updated(state, Line("PW", x)) = AsRecord(x, v, l, i, u, m, s)
             /\ Updated(state, Line("ZM", x))
                  = AsRecord(IF x = "ON" THEN "ON" ELSE "STANDBY", v, l, i, u, m, s)
             /\ Updated(state, Line("MV", x)) = AsRecord(p, x, l, i, u, m, s)
             /\ Updated(state, Line("SI", x)) = AsRecord(p, v, l, x, u, m, s)
             /\ Updated(state, Line("MU", x)) = AsRecord(p, v, l, i, x = "ON", m, s)
             /\ Updated(state, Line("MS", x)) = AsRecord(p, v, l, i, u, x, s)
             /\ Updated(state, Line("MSSMART", x))
                  = AsRecord(p, v, l, i, u, m, NormalizeSmartSelect(x))
             /\ Updated(state, Line("MVMAX", x)) = AsRecord(p, v, DigitsToLevel(x), i, u, m, s)
  BY DEF Updated, Assigned, Line, AsRecord

LEMMA PrefixOfLine ==
  ASSUME NEW x
  PROVE  /\ \A key \in Prefixes : Prefix(Line(key, x)) = key
         /\ Prefix(Line("MSSMART", x)) = "MS"
         /\ Prefix(Line("?", x)) = x
         /\ \A key \in {"MVUP", "MVDOWN", "MVMAX"} : Prefix(Line(key, x)) = "MV"
  BY DEF Prefix, Line, Prefixes

\* Whoever reads the lines of a dump that are about prefixes knows of these
\* what it tells, and of everything else what he knew.
LEMMA DumpIsTold ==
  ASSUME NEW m \in Known, NEW s \in Full, NEW prefixes
  PROVE  UpdatedBy(m, Dump(s), prefixes) = Told(m, s, prefixes)
  <1> DEFINE P(key) == key \in prefixes
             dump == Dump(s)
             n == Len(dump)
             on == IF s.power = "ON" THEN "ON" ELSE "OFF"
             mu == IF s.mute THEN "ON" ELSE "OFF"
             power1 == IF P("PW") THEN s.power ELSE m.power
             power == IF P("ZM") THEN IF on = "ON" THEN "ON" ELSE "STANDBY" ELSE power1
             volume_ == IF P("MV") THEN s.volume ELSE m.volume
             input == IF P("SI") THEN s.input_source ELSE m.input_source
             mute == IF P("MU") THEN mu = "ON" ELSE m.mute
             mode == IF P("MS") /\ s.sound_mode # None THEN s.sound_mode ELSE m.sound_mode
             slot == IF P("MS") /\ s.smart_select # None THEN NormalizeSmartSelect(s.smart_select)
                     ELSE m.smart_select
             result == AsRecord(power, volume_, m.volume_max, input, mute, mode, slot)
  <1>1. n \in Nat /\ 5 <= n /\ n <= 7
    BY DumpBegins
  <1>2. /\ dump[1] = Line("PW", s.power) /\ dump[2] = Line("ZM", on)
        /\ dump[3] = Line("MV", s.volume) /\ dump[4] = Line("SI", s.input_source)
        /\ dump[5] = Line("MU", mu)
    BY DumpBegins
  <1>3. /\ s.sound_mode # None => dump[6] = Line("MS", s.sound_mode)
        /\ s.smart_select # None => dump[n] = Line("MSSMART", s.smart_select)
        /\ n <= 5 <=> s.sound_mode = None /\ s.smart_select = None
        /\ n >= 7 <=> s.sound_mode # None /\ s.smart_select # None
    BY DumpBegins
  <1>4. result = Told(m, s, prefixes)
    <2>1. (mu = "ON") = s.mute
      BY DEF Full
    <2>2. (on = "ON") <=> (s.power = "ON")
      OBVIOUS
    <2>3. s.smart_select # None => NormalizeSmartSelect(s.smart_select) = s.smart_select
      BY SlotsAssumption DEF Full, NormalizeSmartSelect
    <2> QED
      BY <2>1, <2>2, <2>3 DEF Told, AsRecord
  <1>5. PICK upTo : /\ upTo[0] = m
                    /\ \A i \in 1..n : upTo[i] = IF Prefix(dump[i]) \in prefixes
                                                 THEN Updated(upTo[i - 1], dump[i])
                                                 ELSE upTo[i - 1]
                    /\ UpdatedBy(m, dump, prefixes) = upTo[n]
    BY <1>1, UpdatedByStepwise, SMTT(30)
  <1>6. m = AsRecord(m.power, m.volume, m.volume_max, m.input_source, m.mute, m.sound_mode,
                    m.smart_select)
    BY DEF Known, AsRecord
  <1> HIDE DEF dump, n, on, mu
  <1>7. upTo[1] = AsRecord(power1, m.volume, m.volume_max, m.input_source, m.mute,
                          m.sound_mode, m.smart_select)
    <2>1. upTo[1] = IF P("PW") THEN Updated(m, Line("PW", s.power)) ELSE m
      BY <1>1, <1>2, <1>5, PrefixOfLine DEF Prefixes
    <2> QED
      BY <1>6, <2>1, UpdatedField
  <1>8. upTo[2] = AsRecord(power, m.volume, m.volume_max, m.input_source, m.mute,
                          m.sound_mode, m.smart_select)
    <2>1. upTo[2] = IF P("ZM") THEN Updated(upTo[1], Line("ZM", on)) ELSE upTo[1]
      BY <1>1, <1>2, <1>5, PrefixOfLine DEF Prefixes
    <2> QED
      BY <1>7, <2>1, UpdatedField
  <1>9. upTo[3] = AsRecord(power, volume_, m.volume_max, m.input_source, m.mute,
                          m.sound_mode, m.smart_select)
    <2>1. upTo[3] = IF P("MV") THEN Updated(upTo[2], Line("MV", s.volume)) ELSE upTo[2]
      BY <1>1, <1>2, <1>5, PrefixOfLine DEF Prefixes
    <2> QED
      BY <1>8, <2>1, UpdatedField
  <1>10. upTo[4] = AsRecord(power, volume_, m.volume_max, input, m.mute,
                           m.sound_mode, m.smart_select)
    <2>1. upTo[4] = IF P("SI") THEN Updated(upTo[3], Line("SI", s.input_source)) ELSE upTo[3]
      BY <1>1, <1>2, <1>5, PrefixOfLine DEF Prefixes
    <2> QED
      BY <1>9, <2>1, UpdatedField
  <1>11. upTo[5] = AsRecord(power, volume_, m.volume_max, input, mute,
                           m.sound_mode, m.smart_select)
    <2>1. upTo[5] = IF P("MU") THEN Updated(upTo[4], Line("MU", mu)) ELSE upTo[4]
      BY <1>1, <1>2, <1>5, PrefixOfLine DEF Prefixes
    <2> QED
      BY <1>10, <2>1, UpdatedField
  <1> HIDE DEF power, volume_, input, mute
  <1>12. ASSUME s.sound_mode # None
         PROVE  n >= 6 /\ upTo[6] = AsRecord(power, volume_, m.volume_max, input, mute, mode,
                                            m.smart_select)
    <2>1. n >= 6
      BY <1>1, <1>3, <1>12
    <2>2. upTo[6] = IF P("MS") THEN Updated(upTo[5], Line("MS", s.sound_mode)) ELSE upTo[5]
      BY <1>1, <1>3, <1>5, <1>12, <2>1, PrefixOfLine DEF Prefixes
    <2> QED
      BY <1>11, <1>12, <2>1, <2>2, UpdatedField
  <1>13. CASE s.smart_select = None
    <2>1. CASE s.sound_mode = None
      <3>1. n = 5
        BY <1>1, <1>3, <1>13, <2>1
      <3> QED
        BY <1>4, <1>5, <1>11, <1>13, <2>1, <3>1 DEF dump
    <2>2. CASE s.sound_mode # None
      <3>1. n = 6
        BY <1>1, <1>3, <1>12, <1>13, <2>2
      <3> QED
        BY <1>4, <1>5, <1>12, <1>13, <2>2, <3>1 DEF dump
    <2> QED
      BY <2>1, <2>2
  <1>14. CASE s.smart_select # None
    <2>1. n >= 6
      BY <1>1, <1>3, <1>14
    <2>2. upTo[n - 1] = AsRecord(power, volume_, m.volume_max, input, mute, mode, m.smart_select)
      <3>1. CASE s.sound_mode = None
        <4>1. n - 1 = 5
          BY <1>1, <1>3, <2>1, <3>1
        <4> QED
          BY <1>11, <3>1, <4>1
      <3>2. CASE s.sound_mode # None
        <4>1. n - 1 = 6
          BY <1>1, <1>3, <1>14, <3>2
        <4> QED
          BY <1>12, <3>2, <4>1
      <3> QED
        BY <3>1, <3>2
    <2>3. upTo[n] = IF P("MS") THEN Updated(upTo[n - 1], Line("MSSMART", s.smart_select))
                    ELSE upTo[n - 1]
      BY <1>1, <1>3, <1>5, <1>14, PrefixOfLine
    <2>4. upTo[n] = result
      BY <1>14, <2>2, <2>3, UpdatedField
    <2> QED
      BY <1>4, <1>5, <2>4 DEF dump
  <1> QED
    BY <1>13, <1>14

-----------------------------------------------------------------------------
(***************************************************************************)
(* What commands do.                                                       *)
(***************************************************************************)

\* All commands there are, those that the HTTP API makes of levels included.
Commands == Queries \cup Stepping \cup Setting \cup {Line("MV", text) : text \in Texts}

\* s and done differ at most in what prefixes are about.
SameBut(s, done, prefixes) ==
  /\ done.volume_max = s.volume_max
  /\ "PW" \notin prefixes => done.power = s.power
  /\ "MV" \notin prefixes => done.volume = s.volume
  /\ "SI" \notin prefixes => done.input_source = s.input_source
  /\ "MU" \notin prefixes => done.mute = s.mute
  /\ "MS" \notin prefixes => done.sound_mode = s.sound_mode /\ done.smart_select = s.smart_select

LEMMA FullFields ==
  ASSUME NEW s \in Full
  PROVE  s = AsRecord(s.power, s.volume, s.volume_max, s.input_source, s.mute, s.sound_mode,
                     s.smart_select)
  BY DEF Full, AsRecord

\* What each command sets.
LEMMA AppliedField ==
  ASSUME NEW p, NEW v, NEW l, NEW i, NEW u, NEW m, NEW s, NEW x
  PROVE  LET state == AsRecord(p, v, l, i, u, m, s)
             level == VolumeToLevel(v, l)
         IN  /\ Applied(state, Line("PW", x)) = AsRecord(x, v, l, i, u, m, s)
             /\ Applied(state, Line("ZM", x))
                  = AsRecord(IF x = "ON" THEN "ON" ELSE "STANDBY", v, l, i, u, m, s)
             /\ Applied(state, Line("MV", x)) = AsRecord(p, x, l, i, u, m, s)
             /\ Applied(state, Line("MVUP", x))
                  = AsRecord(p, FormatVolume(Least(l, level + Step), l), l, i, u, m, s)
             /\ Applied(state, Line("MVDOWN", x))
                  = AsRecord(p, FormatVolume(Greatest(0, level - Step), l), l, i, u, m, s)
             /\ Applied(state, Line("SI", x)) = AsRecord(p, v, l, x, u, m, s)
             /\ Applied(state, Line("MU", x)) = AsRecord(p, v, l, i, x = "ON", m, s)
             /\ Applied(state, Line("MS", x)) = AsRecord(p, v, l, i, u, x, s)
             /\ Applied(state, Line("MSSMART", x))
                  = AsRecord(p, v, l, i, u, m, NormalizeSmartSelect(x))
             /\ Applied(state, Line("?", x)) = state
  <1> DEFINE state == AsRecord(p, v, l, i, u, m, s)
  <1>1. state.volume = v /\ state.volume_max = l
    BY DEF AsRecord
  <1>2. /\ Applied(state, Line("MVUP", x))
             = [state EXCEPT !.volume = FormatVolume(Least(l, VolumeToLevel(v, l) + Step), l)]
        /\ Applied(state, Line("MVDOWN", x))
             = [state EXCEPT !.volume = FormatVolume(Greatest(0, VolumeToLevel(v, l) - Step), l)]
    BY <1>1 DEF Applied, Line
  <1>3. \A key \in {"PW", "ZM", "MV", "SI", "MU", "MS", "MSSMART"} :
           Applied(state, Line(key, x)) = Assigned(state, Line(key, x))
    BY DEF Applied, Line
  <1>4. Applied(state, Line("?", x)) = state
    BY DEF Applied, Assigned, Line
  <1> QED
    BY <1>2, <1>3, <1>4 DEF Assigned, Line, AsRecord

LEMMA SteppedIsText ==
  ASSUME NEW v \in Texts \cup {NoNumber}, NEW l \in Numbers
  PROVE  /\ FormatVolume(Least(l, VolumeToLevel(v, l) + Step), l) \in Texts
         /\ FormatVolume(Greatest(0, VolumeToLevel(v, l) - Step), l) \in Texts
  <1>1. VolumeToLevel(v, l) \in Int
    <2>1. CASE v \in Texts
      BY <2>1, TextLevel, NumbersAre DEF VolumeToLevel, Greatest, Least
    <2>2. CASE v \notin Texts
      BY <2>2 DEF VolumeToLevel, DefaultLevel
    <2> QED
      BY <2>1, <2>2
  <1> DEFINE up == Least(l, VolumeToLevel(v, l) + Step)
             down == Greatest(0, VolumeToLevel(v, l) - Step)
  <1>2. up \in Int /\ down \in Int
    BY <1>1, StepAssumption, NumbersAre DEF Least, Greatest
  <1> HIDE DEF up, down
  <1>3. FormatVolume(up, l) \in Texts
    BY <1>2, FormatIsText
  <1>4. FormatVolume(down, l) \in Texts
    BY <1>2, FormatIsText
  <1> QED
    BY <1>3, <1>4 DEF up, down

\* What an answer is about.
LEMMA RelatedToLine ==
  ASSUME NEW x
  PROVE  /\ Related(Line("PW", x)) = {"PW", "ZM"} /\ Related(Line("ZM", x)) = {"PW", "ZM"}
         /\ \A key \in {"MV", "MVUP", "MVDOWN"} : Related(Line(key, x)) = {"MV"}
         /\ Related(Line("SI", x)) = {"SI"} /\ Related(Line("MU", x)) = {"MU"}
         /\ Related(Line("MS", x)) = {"MS"} /\ Related(Line("MSSMART", x)) = {"MS"}
  BY PrefixOfLine DEF Related, Prefixes

\* A command leaves a state of the proxy, in which at most what the answer is
\* about differs.
LEMMA AppliedIsFull ==
  ASSUME NEW s \in Full, NEW line \in Commands
  PROVE  Applied(s, line) \in Full /\ SameBut(s, Applied(s, line), Related(line))
  <1> DEFINE p == s.power  v == s.volume  l == s.volume_max  i == s.input_source
             u == s.mute   m == s.sound_mode  ss == s.smart_select
  <1>1. s = AsRecord(p, v, l, i, u, m, ss)
    BY FullFields
  <1>2. /\ p \in Powers /\ v \in Texts \cup {NoNumber} /\ l \in Numbers /\ i \in Inputs
        /\ u \in BOOLEAN /\ m \in Modes \cup {None} /\ ss \in Slots \cup {None}
    BY DEF Full
  <1> HIDE DEF p, v, l, i, u, m, ss
  <1>3. ASSUME NEW x \in Powers, line = Line("PW", x)
        PROVE  Applied(s, line) \in Full /\ SameBut(s, Applied(s, line), Related(line))
    <2>1. Applied(s, line) = AsRecord(x, v, l, i, u, m, ss)
      BY <1>1, <1>3, AppliedField
    <2>2. x \in Powers
      OBVIOUS
    <2>3. Applied(s, line) \in Full
      BY <1>2, <2>1, <2>2 DEF Full, AsRecord
    <2>4. Related(line) = {"PW", "ZM"}
      BY <1>3, RelatedToLine
    <2> QED
      BY <1>1, <2>1, <2>3, <2>4 DEF SameBut, AsRecord
  <1>4. ASSUME NEW x \in {"ON", "OFF"}, line = Line("ZM", x)
        PROVE  Applied(s, line) \in Full /\ SameBut(s, Applied(s, line), Related(line))
    <2>0. Applied(AsRecord(p, v, l, i, u, m, ss), Line("ZM", x))
            = AsRecord(IF x = "ON" THEN "ON" ELSE "STANDBY", v, l, i, u, m, ss)
      BY AppliedField, SMTT(30)
    <2>1. Applied(s, line) = AsRecord(IF x = "ON" THEN "ON" ELSE "STANDBY", v, l, i, u, m, ss)
      BY <1>1, <1>4, <2>0
    <2>2. (IF x = "ON" THEN "ON" ELSE "STANDBY") \in Powers
      BY PowersAssumption
    <2>3. Applied(s, line) \in Full
      BY <1>2, <2>1, <2>2 DEF Full, AsRecord
    <2>4. Related(line) = {"PW", "ZM"}
      BY <1>4, RelatedToLine
    <2> QED
      BY <1>1, <2>1, <2>3, <2>4 DEF SameBut, AsRecord
  <1>5. ASSUME NEW x \in Texts \cup {NoNumber}, line = Line("MV", x)
        PROVE  Applied(s, line) \in Full /\ SameBut(s, Applied(s, line), Related(line))
    <2>1. Applied(s, line) = AsRecord(p, x, l, i, u, m, ss)
      BY <1>1, <1>5, AppliedField
    <2>2. x \in Texts \cup {NoNumber}
      OBVIOUS
    <2>3. Applied(s, line) \in Full
      BY <1>2, <2>1, <2>2 DEF Full, AsRecord
    <2>4. Related(line) = {"MV"}
      BY <1>5, RelatedToLine
    <2> QED
      BY <1>1, <2>1, <2>3, <2>4 DEF SameBut, AsRecord
  <1>6. ASSUME NEW x, line = Line("MVUP", x)
        PROVE  Applied(s, line) \in Full /\ SameBut(s, Applied(s, line), Related(line))
    <2> DEFINE y == FormatVolume(Least(l, VolumeToLevel(v, l) + Step), l)
    <2>1. Applied(s, line) = AsRecord(p, y, l, i, u, m, ss)
      BY <1>1, <1>6, AppliedField
    <2>2. y \in Texts
      BY <1>2, SteppedIsText
    <2> HIDE DEF y
    <2>3. Applied(s, line) \in Full
      BY <1>2, <2>1, <2>2 DEF Full, AsRecord
    <2>4. Related(line) = {"MV"}
      BY <1>6, RelatedToLine
    <2> QED
      BY <1>1, <2>1, <2>3, <2>4 DEF SameBut, AsRecord
  <1>7. ASSUME NEW x, line = Line("MVDOWN", x)
        PROVE  Applied(s, line) \in Full /\ SameBut(s, Applied(s, line), Related(line))
    <2> DEFINE y == FormatVolume(Greatest(0, VolumeToLevel(v, l) - Step), l)
    <2>1. Applied(s, line) = AsRecord(p, y, l, i, u, m, ss)
      BY <1>1, <1>7, AppliedField
    <2>2. y \in Texts
      BY <1>2, SteppedIsText
    <2> HIDE DEF y
    <2>3. Applied(s, line) \in Full
      BY <1>2, <2>1, <2>2 DEF Full, AsRecord
    <2>4. Related(line) = {"MV"}
      BY <1>7, RelatedToLine
    <2> QED
      BY <1>1, <2>1, <2>3, <2>4 DEF SameBut, AsRecord
  <1>8. ASSUME NEW x \in Inputs, line = Line("SI", x)
        PROVE  Applied(s, line) \in Full /\ SameBut(s, Applied(s, line), Related(line))
    <2>1. Applied(s, line) = AsRecord(p, v, l, x, u, m, ss)
      BY <1>1, <1>8, AppliedField
    <2>2. x \in Inputs
      OBVIOUS
    <2>3. Applied(s, line) \in Full
      BY <1>2, <2>1, <2>2 DEF Full, AsRecord
    <2>4. Related(line) = {"SI"}
      BY <1>8, RelatedToLine
    <2> QED
      BY <1>1, <2>1, <2>3, <2>4 DEF SameBut, AsRecord
  <1>9. ASSUME NEW x \in {"ON", "OFF"}, line = Line("MU", x)
        PROVE  Applied(s, line) \in Full /\ SameBut(s, Applied(s, line), Related(line))
    <2>0. Applied(AsRecord(p, v, l, i, u, m, ss), Line("MU", x))
            = AsRecord(p, v, l, i, x = "ON", m, ss)
      BY AppliedField, SMTT(30)
    <2>1. Applied(s, line) = AsRecord(p, v, l, i, x = "ON", m, ss)
      BY <1>1, <1>9, <2>0
    <2>2. (x = "ON") \in BOOLEAN
      OBVIOUS
    <2>3. Applied(s, line) \in Full
      BY <1>2, <2>1, <2>2 DEF Full, AsRecord
    <2>4. Related(line) = {"MU"}
      BY <1>9, RelatedToLine
    <2> QED
      BY <1>1, <2>1, <2>3, <2>4 DEF SameBut, AsRecord
  <1>10. ASSUME NEW x \in Modes, line = Line("MS", x)
        PROVE  Applied(s, line) \in Full /\ SameBut(s, Applied(s, line), Related(line))
    <2>1. Applied(s, line) = AsRecord(p, v, l, i, u, x, ss)
      BY <1>1, <1>10, AppliedField
    <2>2. x \in Modes
      OBVIOUS
    <2>3. Applied(s, line) \in Full
      BY <1>2, <2>1, <2>2 DEF Full, AsRecord
    <2>4. Related(line) = {"MS"}
      BY <1>10, RelatedToLine
    <2> QED
      BY <1>1, <2>1, <2>3, <2>4 DEF SameBut, AsRecord
  <1>11. ASSUME NEW x \in Slots \cup {Bad}, line = Line("MSSMART", x)
        PROVE  Applied(s, line) \in Full /\ SameBut(s, Applied(s, line), Related(line))
    <2>1. Applied(s, line) = AsRecord(p, v, l, i, u, m, NormalizeSmartSelect(x))
      BY <1>1, <1>11, AppliedField
    <2>2. NormalizeSmartSelect(x) \in Slots \cup {None}
      BY DEF NormalizeSmartSelect
    <2>3. Applied(s, line) \in Full
      BY <1>2, <2>1, <2>2 DEF Full, AsRecord
    <2>4. Related(line) = {"MS"}
      BY <1>11, RelatedToLine
    <2> QED
      BY <1>1, <2>1, <2>3, <2>4 DEF SameBut, AsRecord
  <1>12. ASSUME NEW x, line = Line("?", x)
         PROVE  Applied(s, line) \in Full /\ SameBut(s, Applied(s, line), Related(line))
    BY <1>1, <1>12, AppliedField DEF SameBut
  <1> QED
    BY <1>3, <1>4, <1>5, <1>6, <1>7, <1>8, <1>9, <1>10, <1>11, <1>12, TextsAssumption
       DEF Commands, Queries, Stepping, Setting

-----------------------------------------------------------------------------
(***************************************************************************)
(* The mirror agrees with the state.                                       *)
(***************************************************************************)

\* What MirrorAgrees says of the mirror m of a state s.
Agrees(m, s) ==
  /\ m.volume = s.volume
  /\ (m.power = "ON") <=> (s.power = "ON")
  /\ s.input_source # None => m.input_source = s.input_source
  /\ s.mute # None => m.mute = s.mute
  /\ s.sound_mode # None => m.sound_mode = s.sound_mode
  /\ s.smart_select # None => m.smart_select = s.smart_select

\* The answers are about power and main zone, or about neither.
LEMMA RelatedIsPaired ==
  ASSUME NEW line
  PROVE  "PW" \in Related(line) <=> "ZM" \in Related(line)
  BY DEF Related

\* What a state is told to be is a state again.
LEMMA ToldIsKnown ==
  ASSUME NEW m \in Known, NEW s \in Full, NEW prefixes
  PROVE  /\ Told(m, s, prefixes) \in Known
         /\ Told(s, s, prefixes) \in Full
  BY PowersAssumption DEF Told, Known, Full

\* The dump of a state tells it all.
LEMMA WholeDumpAgrees ==
  ASSUME NEW m \in Known, NEW s \in Full
  PROVE  Agrees(Told(m, s, Prefixes), s)
  BY DEF Told, Agrees, Prefixes, Known, Full

\* After a command the client is told of what it was about, and agrees.
LEMMA AnswerAgrees ==
  ASSUME NEW m \in Known, NEW s \in Full, NEW done \in Full, NEW prefixes,
         "PW" \in prefixes <=> "ZM" \in prefixes,
         SameBut(s, done, prefixes), Agrees(m, s)
  PROVE  Agrees(Told(m, done, prefixes), Told(done, done, prefixes))
  BY DEF Told, Agrees, SameBut, Known, Full

\* One line, read or not.
LEMMA OneLine ==
  ASSUME NEW m, NEW line, Prefix(line) \in Prefixes
  PROVE  UpdatedBy(m, <<line>>, Prefixes) = Updated(m, line)
  <1> DEFINE lines == <<line>>
  <1>1. Len(lines) \in Nat /\ 1 <= Len(lines) /\ Len(lines) <= 1 /\ lines[1] = line
    OBVIOUS
  <1> HIDE DEF lines
  <1>2. PICK upTo : /\ upTo[0] = m
                    /\ \A i \in 1..Len(lines) :
                         upTo[i] = IF Prefix(lines[i]) \in Prefixes
                                   THEN Updated(upTo[i - 1], lines[i]) ELSE upTo[i - 1]
                    /\ UpdatedBy(m, lines, Prefixes) = upTo[Len(lines)]
    BY <1>1, UpdatedByStepwise, SMTT(30)
  <1>3. Len(lines) = 1
    BY <1>1
  <1>4. upTo[1] = Updated(upTo[0], line)
    BY <1>1, <1>2
  <1>5. UpdatedBy(m, lines, Prefixes) = Updated(m, line)
    BY <1>2, <1>3, <1>4
  <1> QED
    BY <1>5 DEF lines

\* A line of the AVR leaves a state of the proxy, and a client that agreed
\* agrees when it has read it.
LEMMA LineAgrees ==
  ASSUME NEW m \in Known, NEW s \in Full, NEW line \in Limiting \cup Setting
  PROVE  /\ Prefix(line) \in Prefixes
         /\ Updated(s, line) \in Full
         /\ Updated(m, line) \in Known
         /\ Agrees(m, s) => Agrees(Updated(m, line), Updated(s, line))
  <1> DEFINE p == s.power   v == s.volume   l == s.volume_max   i == s.input_source
             u == s.mute    d == s.sound_mode    t == s.smart_select
             mp == m.power  mv == m.volume  ml == m.volume_max  mi == m.input_source
             mu == m.mute   md == m.sound_mode   mt == m.smart_select
             Holds == /\ Prefix(line) \in Prefixes
                      /\ Updated(s, line) \in Full
                      /\ Updated(m, line) \in Known
                      /\ Agrees(m, s) => Agrees(Updated(m, line), Updated(s, line))
  <1>1. s = AsRecord(p, v, l, i, u, d, t) /\ m = AsRecord(mp, mv, ml, mi, mu, md, mt)
    BY DEF Full, Known, AsRecord
  <1>2. /\ p \in Powers /\ v \in Texts \cup {NoNumber} /\ l \in Numbers /\ i \in Inputs
        /\ u \in BOOLEAN /\ d \in Modes \cup {None} /\ t \in Slots \cup {None}
        /\ mp \in Powers \cup {None} /\ mv \in Texts \cup {NoNumber, None} /\ ml \in Int \cup {None}
        /\ mi \in Inputs \cup {None} /\ mu \in BOOLEAN \cup {None}
        /\ md \in Modes \cup {None} /\ mt \in Slots \cup {None}
    BY DEF Full, Known
  <1> HIDE DEF p, v, l, i, u, d, t, mp, mv, ml, mi, mu, md, mt
  <1>3. ASSUME NEW x \in Powers, line = Line("PW", x) PROVE Holds
    <2>1. /\ Updated(s, line) = AsRecord(x, v, l, i, u, d, t)
          /\ Updated(m, line) = AsRecord(x, mv, ml, mi, mu, md, mt)
          /\ Prefix(line) \in Prefixes
      BY <1>1, <1>3, UpdatedField, PrefixOfLine DEF Prefixes
    <2>2. Updated(s, line) \in Full /\ Updated(m, line) \in Known
      BY <1>2, <1>3, <2>1 DEF Full, Known, AsRecord
    <2> QED
      BY <1>1, <2>1, <2>2 DEF Agrees, AsRecord
  <1>4. ASSUME NEW x \in {"ON", "OFF"}, line = Line("ZM", x) PROVE Holds
    <2> DEFINE on == IF x = "ON" THEN "ON" ELSE "STANDBY"
    <2>1. /\ Updated(s, line) = AsRecord(on, v, l, i, u, d, t)
          /\ Updated(m, line) = AsRecord(on, mv, ml, mi, mu, md, mt)
          /\ Prefix(line) \in Prefixes
      BY <1>1, <1>4, UpdatedField, PrefixOfLine DEF Prefixes
    <2>2. on \in Powers
      BY PowersAssumption
    <2> HIDE DEF on
    <2>3. Updated(s, line) \in Full /\ Updated(m, line) \in Known
      BY <1>2, <2>1, <2>2 DEF Full, Known, AsRecord
    <2> QED
      BY <1>1, <2>1, <2>3 DEF Agrees, AsRecord
  <1>5. ASSUME NEW x \in Reported, line = Line("MV", x) PROVE Holds
    <2>1. /\ Updated(s, line) = AsRecord(p, x, l, i, u, d, t)
          /\ Updated(m, line) = AsRecord(mp, x, ml, mi, mu, md, mt)
          /\ Prefix(line) \in Prefixes
      BY <1>1, <1>5, UpdatedField, PrefixOfLine DEF Prefixes
    <2>2. x \in Texts \cup {NoNumber}
      BY TextsAssumption
    <2>3. Updated(s, line) \in Full /\ Updated(m, line) \in Known
      BY <1>2, <2>1, <2>2 DEF Full, Known, AsRecord
    <2> QED
      BY <1>1, <2>1, <2>3 DEF Agrees, AsRecord
  <1>6. ASSUME NEW x \in {"ON", "OFF"}, line = Line("MU", x) PROVE Holds
    <2>1. /\ Updated(s, line) = AsRecord(p, v, l, i, x = "ON", d, t)
          /\ Updated(m, line) = AsRecord(mp, mv, ml, mi, x = "ON", md, mt)
          /\ Prefix(line) \in Prefixes
      BY <1>1, <1>6, UpdatedField, PrefixOfLine DEF Prefixes
    <2>2. Updated(s, line) \in Full /\ Updated(m, line) \in Known
      BY <1>2, <2>1 DEF Full, Known, AsRecord
    <2> QED
      BY <1>1, <2>1, <2>2 DEF Agrees, AsRecord
  <1>7. ASSUME NEW x \in Inputs, line = Line("SI", x) PROVE Holds
    <2>1. /\ Updated(s, line) = AsRecord(p, v, l, x, u, d, t)
          /\ Updated(m, line) = AsRecord(mp, mv, ml, x, mu, md, mt)
          /\ Prefix(line) \in Prefixes
      BY <1>1, <1>7, UpdatedField, PrefixOfLine DEF Prefixes
    <2>2. Updated(s, line) \in Full /\ Updated(m, line) \in Known
      BY <1>2, <1>7, <2>1 DEF Full, Known, AsRecord
    <2> QED
      BY <1>1, <2>1, <2>2 DEF Agrees, AsRecord
  <1>8. ASSUME NEW x \in Slots \cup {Bad}, line = Line("MSSMART", x) PROVE Holds
    <2> DEFINE slot == NormalizeSmartSelect(x)
    <2>1. /\ Updated(s, line) = AsRecord(p, v, l, i, u, d, slot)
          /\ Updated(m, line) = AsRecord(mp, mv, ml, mi, mu, md, slot)
          /\ Prefix(line) \in Prefixes
      BY <1>1, <1>8, UpdatedField, PrefixOfLine DEF Prefixes
    <2>2. slot \in Slots \cup {None}
      BY DEF NormalizeSmartSelect
    <2> HIDE DEF slot
    <2>3. Updated(s, line) \in Full /\ Updated(m, line) \in Known
      BY <1>2, <2>1, <2>2 DEF Full, Known, AsRecord
    <2> QED
      BY <1>1, <2>1, <2>3 DEF Agrees, AsRecord
  <1>9. ASSUME NEW x \in Modes, line = Line("MS", x) PROVE Holds
    <2>1. /\ Updated(s, line) = AsRecord(p, v, l, i, u, x, t)
          /\ Updated(m, line) = AsRecord(mp, mv, ml, mi, mu, x, mt)
          /\ Prefix(line) \in Prefixes
      BY <1>1, <1>9, UpdatedField, PrefixOfLine DEF Prefixes
    <2>2. Updated(s, line) \in Full /\ Updated(m, line) \in Known
      BY <1>2, <1>9, <2>1 DEF Full, Known, AsRecord
    <2> QED
      BY <1>1, <2>1, <2>2 DEF Agrees, AsRecord
  <1>10. ASSUME NEW x \in Limits, line = Line("MVMAX", x) PROVE Holds
    <2> DEFINE max == DigitsToLevel(x)
    <2>1. /\ Updated(s, line) = AsRecord(p, v, max, i, u, d, t)
          /\ Updated(m, line) = AsRecord(mp, mv, max, mi, mu, md, mt)
          /\ Prefix(line) \in Prefixes
      BY <1>1, <1>10, UpdatedField, PrefixOfLine DEF Prefixes
    <2>2. max \in Numbers
      BY TextsAssumption, TextLevel
    <2> HIDE DEF max
    <2>3. Updated(s, line) \in Full /\ Updated(m, line) \in Known
      BY <1>2, <2>1, <2>2, NumbersAre DEF Full, Known, AsRecord
    <2> QED
      BY <1>1, <2>1, <2>3 DEF Agrees, AsRecord
  <1> HIDE DEF Holds
  <1>11. Holds
    BY <1>3, <1>4, <1>5, <1>6, <1>7, <1>8, <1>9, <1>10 DEF Limiting, Setting
  <1> QED
    BY <1>11 DEF Holds

-----------------------------------------------------------------------------
(***************************************************************************)
(* The inductive invariant.                                                *)
(***************************************************************************)

\* Optimistic state is off without an AVR: a command of a client would be
\* applied twice.
Configs == {c \in [avr_host : BOOLEAN, optimistic_state : BOOLEAN] :
              c.avr_host \/ ~c.optimistic_state}

\* What is in others: a state but for the volume.
Others == [power : Powers, volume : {None}, volume_max : {None}, input_source : Inputs,
           mute : BOOLEAN, sound_mode : Modes \cup {None}, smart_select : Slots \cup {None}]

StateInv ==
  /\ TypeOK /\ others \in Others /\ config \in Configs /\ client \in BOOLEAN
  /\ mirror \in Known
  /\ MirrorAgrees
  /\ VirtualPowerIsKnown

LEMMA StateFields ==
  ASSUME others \in Others
  PROVE  State = AsRecord(others.power, volume, limit, others.input_source, others.mute,
                         others.sound_mode, others.smart_select)
  <1> DEFINE p == others.power       i == others.input_source   u == others.mute
             d == others.sound_mode  t == others.smart_select
  <1>1. others = AsRecord(p, None, None, i, u, d, t)
    BY DEF Others, AsRecord
  <1> HIDE DEF p, i, u, d, t
  <1>2. [others EXCEPT !.volume = volume] = AsRecord(p, volume, None, i, u, d, t)
    BY <1>1 DEF AsRecord
  <1>3. [AsRecord(p, volume, None, i, u, d, t) EXCEPT !.volume_max = limit]
          = AsRecord(p, volume, limit, i, u, d, t)
    BY DEF AsRecord
  <1>4. State = AsRecord(p, volume, limit, i, u, d, t)
    BY <1>2, <1>3 DEF State
  <1> QED
    BY <1>4 DEF p, i, u, d, t

LEMMA StateIsFull ==
  ASSUME TypeOK, others \in Others
  PROVE  /\ State \in Full
         /\ State.volume = volume /\ State.volume_max = limit /\ State.power = others.power
         /\ State.input_source = others.input_source /\ State.mute = others.mute
         /\ State.sound_mode = others.sound_mode /\ State.smart_select = others.smart_select
  <1> DEFINE p == others.power       i == others.input_source   u == others.mute
             d == others.sound_mode  t == others.smart_select
  <1>1. /\ p \in Powers /\ i \in Inputs /\ u \in BOOLEAN
        /\ d \in Modes \cup {None} /\ t \in Slots \cup {None}
    BY DEF Others
  <1>2. State = AsRecord(p, volume, limit, i, u, d, t)
    BY StateFields
  <1> HIDE DEF p, i, u, d, t
  <1>3. State \in Full
    BY <1>1, <1>2 DEF TypeOK, Full, AsRecord
  <1>4. /\ State.volume = volume /\ State.volume_max = limit /\ State.power = p
        /\ State.input_source = i /\ State.mute = u /\ State.sound_mode = d
        /\ State.smart_select = t
    BY <1>2 DEF AsRecord
  <1> QED
    BY <1>3, <1>4 DEF p, i, u, d, t

\* MirrorAgrees is about the State.
LEMMA AgreesWithState ==
  ASSUME TypeOK, others \in Others, mirror \in Known
  PROVE  MirrorAgrees <=> (client => Agrees(mirror, State))
  <1>1. Fields \ {"power"} = {"input_source", "mute", "sound_mode", "smart_select"}
    BY DEF Fields
  <1>2. /\ State.input_source = others.input_source /\ State.mute = others.mute
        /\ State.sound_mode = others.sound_mode /\ State.smart_select = others.smart_select
        /\ State.volume = volume /\ State.power = others.power
    BY StateIsFull
  <1> QED
    BY <1>1, <1>2 DEF MirrorAgrees, Agrees

\* A handler that becomes s and has the client agree with it keeps the
\* invariant.
LEMMA BecomeKeeps ==
  ASSUME NEW s \in Full, Become(s), mirror' \in Known, client' \in BOOLEAN,
         config' \in Configs,
         client' => Agrees(mirror', s),
         ~config'.avr_host => s.power \in {"ON", "STANDBY"}
  PROVE  StateInv'
  <1>1. volume' = s.volume /\ limit' = s.volume_max
        /\ others' = [s EXCEPT !.volume = None, !.volume_max = None]
    BY DEF Become
  <1>2. TypeOK'
    BY <1>1 DEF TypeOK, Full
  <1>3. others' \in Others
    BY <1>1 DEF Full, Others
  <1>4. State' = s
    BY <1>1 DEF State, Full
  <1>6. MirrorAgrees'
    <2>1. /\ others'.power = s.power /\ others'.input_source = s.input_source
          /\ others'.mute = s.mute /\ others'.sound_mode = s.sound_mode
          /\ others'.smart_select = s.smart_select
      BY <1>1 DEF Full
    <2>2. Fields \ {"power"} = {"input_source", "mute", "sound_mode", "smart_select"}
      BY DEF Fields
    <2> QED
      BY <1>1, <2>1, <2>2 DEF MirrorAgrees, Agrees
  <1>7. VirtualPowerIsKnown'
    BY <1>1 DEF VirtualPowerIsKnown, Full
  <1> QED
    BY <1>2, <1>3, <1>6, <1>7 DEF StateInv

\* What a fetch makes of a state.
LEMMA SyncedFields ==
  ASSUME NEW p, NEW v, NEW l, NEW i, NEW u, NEW m, NEW s,
         NEW db, NEW power, NEW input, NEW muted, NEW sound
  PROVE  Synced(AsRecord(p, v, l, i, u, m, s), db, power, input, muted, sound)
           = AsRecord(power, Str(LevelOfDb(db)), l, input, muted,
                     IF sound \in Slots THEN None ELSE sound, IF sound \in Slots THEN sound ELSE s)
  <1> DEFINE mode == IF sound \in Slots THEN None ELSE sound
             slot == IF sound \in Slots THEN sound ELSE s
             text == Str(LevelOfDb(db))
  <1>0. Synced(AsRecord(p, v, l, i, u, m, s), db, power, input, muted, sound)
          = [AsRecord(p, v, l, i, u, m, s) EXCEPT !.power = power, !.volume = text,
               !.input_source = input, !.mute = muted, !.sound_mode = mode, !.smart_select = slot]
    <2>1. AsRecord(p, v, l, i, u, m, s).smart_select = s
      BY DEF AsRecord
    <2> QED
      BY <2>1 DEF Synced
  <1> HIDE DEF mode, slot, text
  <1>1. [AsRecord(p, v, l, i, u, m, s) EXCEPT !.power = power, !.volume = text]
          = AsRecord(power, text, l, i, u, m, s)
    <2>1. [AsRecord(p, v, l, i, u, m, s) EXCEPT !.power = power] = AsRecord(power, v, l, i, u, m, s)
      BY DEF AsRecord
    <2>2. [AsRecord(power, v, l, i, u, m, s) EXCEPT !.volume = text]
            = AsRecord(power, text, l, i, u, m, s)
      BY DEF AsRecord
    <2> QED
      BY <2>1, <2>2
  <1>2. [AsRecord(p, v, l, i, u, m, s) EXCEPT !.power = power, !.volume = text,
           !.input_source = input]
          = AsRecord(power, text, l, input, u, m, s)
    <2>1. [AsRecord(power, text, l, i, u, m, s) EXCEPT !.input_source = input]
            = AsRecord(power, text, l, input, u, m, s)
      BY DEF AsRecord
    <2> QED
      BY <1>1, <2>1
  <1>3. [AsRecord(p, v, l, i, u, m, s) EXCEPT !.power = power, !.volume = text,
           !.input_source = input, !.mute = muted]
          = AsRecord(power, text, l, input, muted, m, s)
    <2>1. [AsRecord(power, text, l, input, u, m, s) EXCEPT !.mute = muted]
            = AsRecord(power, text, l, input, muted, m, s)
      BY DEF AsRecord
    <2> QED
      BY <1>2, <2>1
  <1>4. [AsRecord(p, v, l, i, u, m, s) EXCEPT !.power = power, !.volume = text,
           !.input_source = input, !.mute = muted, !.sound_mode = mode]
          = AsRecord(power, text, l, input, muted, mode, s)
    <2>1. [AsRecord(power, text, l, input, muted, m, s) EXCEPT !.sound_mode = mode]
            = AsRecord(power, text, l, input, muted, mode, s)
      BY DEF AsRecord
    <2> QED
      BY <1>3, <2>1
  <1>5. Synced(AsRecord(p, v, l, i, u, m, s), db, power, input, muted, sound)
          = AsRecord(power, text, l, input, muted, mode, slot)
    <2>1. [AsRecord(power, text, l, input, muted, mode, s) EXCEPT !.smart_select = slot]
            = AsRecord(power, text, l, input, muted, mode, slot)
      BY DEF AsRecord
    <2> QED
      BY <1>0, <1>4, <2>1
  <1> QED
    BY <1>5 DEF mode, slot, text

\* The defaults, and what denonavr reports in their place.
LEMMA StartIsFull ==
  /\ Default \in Full /\ Default.power = "ON"
  /\ \A db \in Levels, power \in {"ON", "OFF"}, input \in Inputs, muted \in BOOLEAN,
       sound \in Modes \cup Slots : Synced(Default, db, power, input, muted, sound) \in Full
  <1>1. Str(DefaultLevel \div 10) \in Texts
    <2>1. DefaultLevel \div 10 = 50
      BY DEF DefaultLevel
    <2> QED
      BY <2>1, StrIsText, NumbersAre
  <1>2. Default \in Full
    BY <1>1, PowersAssumption, SourcesAssumption, NumbersAre DEF Default, Full, DefaultLimit
  <1>4. Default = AsRecord("ON", Str(DefaultLevel \div 10), DefaultLimit,
                          CHOOSE input \in Inputs : TRUE, FALSE, CHOOSE mode \in Modes : TRUE, None)
    BY DEF Default, AsRecord
  <1>3. ASSUME NEW db \in Levels, NEW power \in {"ON", "OFF"}, NEW input \in Inputs,
               NEW muted \in BOOLEAN, NEW sound \in Modes \cup Slots
        PROVE  Synced(Default, db, power, input, muted, sound) \in Full
    <2>1. LevelOfDb(db) \in 0..98
      BY LevelsAssumption DEF LevelOfDb, Greatest, Least
    <2>2. Str(LevelOfDb(db)) \in Texts
      <3> DEFINE n == LevelOfDb(db)
      <3>1. n \in Numbers
        BY <2>1, NumbersAre
      <3> HIDE DEF n
      <3>2. Str(n) \in Texts
        BY <3>1, StrIsText
      <3> QED
        BY <3>2 DEF n
    <2> DEFINE text == Str(LevelOfDb(db))
               mode == IF sound \in Slots THEN None ELSE sound
               slot == IF sound \in Slots THEN sound ELSE None
    <2>3. mode \in Modes \cup {None} /\ slot \in Slots \cup {None}
          /\ text \in Texts /\ power \in Powers
      BY <2>2, PowersAssumption
    <2>4. Synced(Default, db, power, input, muted, sound)
            = AsRecord(power, text, DefaultLimit, input, muted, mode, slot)
      <3> DEFINE v == Str(DefaultLevel \div 10)
                 i == CHOOSE x \in Inputs : TRUE
                 d == CHOOSE x \in Modes : TRUE
                 u == FALSE
      <3>1. Default = AsRecord("ON", v, DefaultLimit, i, u, d, None)
        BY <1>4
      <3> HIDE DEF v, i, d, u, mode, slot, text
      <3> QED
        BY <3>1, SyncedFields DEF mode, slot, text
    <2> HIDE DEF mode, slot, text
    <2> QED
      BY <2>3, <2>4, NumbersAre DEF Full, AsRecord, DefaultLimit
  <1> QED
    BY <1>2, <1>3 DEF Default

LEMMA UnknownIsKnown == Unknown \in Known
  BY DEF Unknown, Known, DefaultLimit

LEMMA StateInvInit == StateInit => StateInv
  <1> SUFFICES ASSUME StateInit PROVE StateInv
    OBVIOUS
  <1>1. config \in Configs
    <2>1. PICK c \in [avr_host : BOOLEAN, optimistic_state : BOOLEAN] : config = Validated(c)
      BY DEF StateInit
    <2> QED
      BY <2>1 DEF Validated, Configs
  <1>2. PICK s \in Full : /\ volume = s.volume /\ limit = s.volume_max
                          /\ others = [s EXCEPT !.volume = None, !.volume_max = None]
                          /\ ~config.avr_host => s.power = "ON"
    <2>1. Fetched \subseteq Full
      BY StartIsFull DEF Fetched
    <2>2. PICK s \in {Default} \cup (IF config.avr_host THEN Fetched ELSE {}) :
            /\ volume = s.volume /\ limit = s.volume_max
            /\ others = [s EXCEPT !.volume = None, !.volume_max = None]
      BY DEF StateInit
    <2>3. s \in Full /\ (~config.avr_host => s = Default)
      BY <2>1, <2>2, StartIsFull
    <2> QED
      BY <2>2, <2>3, StartIsFull
  <1>3. TypeOK
    BY <1>2 DEF TypeOK, Full
  <1>4. others \in Others /\ others.power = s.power
    BY <1>2 DEF Others, Full
  <1>5. client = FALSE /\ mirror \in Known
    BY UnknownIsKnown DEF StateInit
  <1>6. MirrorAgrees /\ VirtualPowerIsKnown
    BY <1>2, <1>4, <1>5 DEF MirrorAgrees, VirtualPowerIsKnown
  <1> QED
    BY <1>1, <1>3, <1>4, <1>5, <1>6 DEF StateInv

-----------------------------------------------------------------------------
(***************************************************************************)
(* Every step keeps the invariant.                                         *)
(***************************************************************************)

\* The commands of a route are commands.
LEMMA RoutesAreCommands ==
  ASSUME NEW s \in Full
  PROVE  RouteToCommand(s) \subseteq Stepping \cup Setting
  <1>1. \A action \in {"on", "off", "toggle"} :
          PowerCommand(s, action) \in Setting /\ MuteCommand(s, action) \in Setting
    BY PowersAssumption DEF PowerCommand, MuteCommand, Setting
  <1>2. \A code \in Inputs : Line("SI", code) \in Setting
    BY DEF Setting
  <1> QED
    BY <1>1, <1>2 DEF RouteToCommand

\* What the client is sent.
LEMMA SentToClient ==
  ASSUME NEW s \in Full, mirror \in Known, NEW prefixes, Send(Dump(s), prefixes)
  PROVE  /\ mirror' \in Known
         /\ client => mirror' = Told(mirror, s, prefixes)
         /\ ~client => mirror' = mirror
  BY DumpIsTold, ToldIsKnown DEF Send

\* The virtual AVR answers a command.
LEMMA AnswerKeeps ==
  ASSUME StateInv, NEW line \in Commands, ~config.avr_host,
         Answer(State, line), UNCHANGED <<config, client>>
  PROVE  StateInv' /\ volume' = Applied(State, line).volume /\ limit' = limit
  <1> DEFINE s == State
             done == Applied(s, line)
             about == Related(line)
             now == Told(done, done, about)
  <1>1. s \in Full /\ s.volume_max = limit /\ s.power = others.power
    BY StateIsFull DEF StateInv
  <1>2. done \in Full /\ SameBut(s, done, about)
    BY <1>1, AppliedIsFull
  <1>3. UpdatedBy(done, Dump(done), about) = now
    BY <1>2, DumpIsTold, FullIsKnown
  <1>4. Become(now) /\ Send(Dump(done), about)
    BY <1>3 DEF Answer
  <1>5. client => Agrees(mirror, s)
    BY AgreesWithState DEF StateInv
  <1>6. "PW" \in about <=> "ZM" \in about
    BY RelatedIsPaired
  <1>7. s.power \in {"ON", "STANDBY"}
    BY <1>1 DEF StateInv, VirtualPowerIsKnown
  <1>8. mirror \in Known
    BY DEF StateInv
  <1> HIDE DEF s, done, about, now
  <1>9. now \in Full
    BY <1>2, FullIsKnown, ToldIsKnown DEF now
  <1>10. mirror' \in Known /\ (client => Agrees(mirror', now))
    BY <1>1, <1>2, <1>4, <1>5, <1>6, <1>8, SentToClient, AnswerAgrees DEF now
  <1>11. now.power \in {"ON", "STANDBY"} /\ now.volume = done.volume /\ now.volume_max = limit
    BY <1>1, <1>2, <1>6, <1>7 DEF now, Told, SameBut
  <1>12. StateInv'
    BY <1>4, <1>9, <1>10, <1>11, BecomeKeeps DEF StateInv
  <1>13. volume' = done.volume /\ limit' = limit
    BY <1>4, <1>11 DEF Become
  <1> QED
    BY <1>12, <1>13 DEF done, s

\* A client that is sent the whole dump.
LEMMA DumpKeeps ==
  ASSUME StateInv, NEW s \in Full, Become(s), Send(Dump(s), Prefixes),
         ~config.avr_host => s.power \in {"ON", "STANDBY"},
         UNCHANGED <<config, client>>
  PROVE  StateInv'
  <1>1. mirror \in Known /\ config \in Configs /\ client \in BOOLEAN
    BY DEF StateInv
  <1>2. mirror' \in Known /\ (client => Agrees(mirror', s))
    BY <1>1, SentToClient, WholeDumpAgrees
  <1> QED
    BY <1>1, <1>2, BecomeKeeps

\* Nothing but the client's knowledge changes.
LEMMA BecomesItself ==
  ASSUME others \in Others, UNCHANGED <<volume, limit, others>>
  PROVE  Become(State)
  <1> DEFINE p == others.power       i == others.input_source   u == others.mute
             d == others.sound_mode  t == others.smart_select
  <1>1. others = AsRecord(p, None, None, i, u, d, t)
    BY DEF Others, AsRecord
  <1>2. State = AsRecord(p, volume, limit, i, u, d, t)
    BY StateFields
  <1> HIDE DEF p, i, u, d, t
  <1>3. [State EXCEPT !.volume = None, !.volume_max = None] = others
    <2>1. [State EXCEPT !.volume = None] = AsRecord(p, None, limit, i, u, d, t)
      BY <1>2 DEF AsRecord
    <2>2. [AsRecord(p, None, limit, i, u, d, t) EXCEPT !.volume_max = None] = others
      BY <1>1 DEF AsRecord
    <2> QED
      BY <2>1, <2>2
  <1>4. State.volume = volume /\ State.volume_max = limit
    BY <1>2 DEF AsRecord
  <1> QED
    BY <1>3, <1>4 DEF Become

\* The level the HTTP API sets is written as a text.
LEMMA LevelIsText ==
  ASSUME NEW h \in Asked, TypeOK
  PROVE  FormatVolume(RoundToHalfStep(h), limit) \in Texts
  <1> DEFINE x == RoundToHalfStep(h)
  <1>1. x \in Int /\ limit \in Numbers
    BY AskedAssumption, RoundingIsNear DEF TypeOK
  <1> HIDE DEF x
  <1>2. FormatVolume(x, limit) \in Texts
    BY <1>1, FormatIsText
  <1> QED
    BY <1>2 DEF x

LEMMA StateInvStep == StateInv /\ [StateNext]_stateVars => StateInv'
  <1> SUFFICES ASSUME StateInv, [StateNext]_stateVars PROVE StateInv'
    OBVIOUS
  <1>1. State \in Full /\ State.power = others.power /\ State.volume_max = limit
    BY StateIsFull DEF StateInv
  <1>2. mirror \in Known /\ config \in Configs /\ client \in BOOLEAN
    BY DEF StateInv
  <1>3. ~config.avr_host => State.power \in {"ON", "STANDBY"}
    BY <1>1 DEF StateInv, VirtualPowerIsKnown
  <1>4. CASE Join
    <2>1. Become(State) /\ config' = config /\ client' \in BOOLEAN
      BY <1>4, BecomesItself DEF Join, StateInv
    <2>2. mirror' = Told(Unknown, State, Prefixes)
      BY <1>1, <1>4, DumpIsTold, UnknownIsKnown DEF Join
    <2>3. mirror' \in Known /\ Agrees(mirror', State)
      BY <1>1, <2>2, WholeDumpAgrees, ToldIsKnown, UnknownIsKnown
    <2> QED
      BY <1>1, <1>2, <1>3, <2>1, <2>3, BecomeKeeps
  <1>5. CASE RequestState
    <2>1. Become(State)
      BY <1>5, BecomesItself DEF RequestState, StateInv
    <2> QED
      BY <1>1, <1>3, <1>5, <2>1, DumpKeeps DEF RequestState
  <1>6. ASSUME NEW line \in Queries \cup Stepping \cup Setting, NEW telnet \in BOOLEAN,
               CommandVirtual(line, telnet)
        PROVE  StateInv'
    <2>1. ~config.avr_host /\ Answer(State, line)
      BY <1>2, <1>6 DEF CommandVirtual, Configs
    <2> QED
      BY <1>6, <2>1, AnswerKeeps DEF CommandVirtual, Commands
  <1>7. ASSUME NEW line \in Queries \cup Stepping \cup Setting, NEW sent \in BOOLEAN,
               CommandPhysical(line, sent)
        PROVE  StateInv'
    <2> DEFINE s == IF sent THEN Applied(State, line) ELSE State
    <2>1. line \in Commands
      BY DEF Commands
    <2>2. s \in Full
      BY <1>1, <2>1, AppliedIsFull
    <2>3. Become(s) /\ Send(Dump(s), Prefixes) /\ config.avr_host /\ UNCHANGED <<config, client>>
      BY <1>7 DEF CommandPhysical
    <2> HIDE DEF s
    <2> QED
      BY <2>2, <2>3, DumpKeeps
  <1>8. CASE HttpControl
    <2>1. PICK line \in RouteToCommand(State) : Answer(State, line)
      BY <1>8 DEF HttpControl
    <2>2. line \in Commands
      BY <1>1, <2>1, RoutesAreCommands DEF Commands
    <2> QED
      BY <1>8, <2>1, <2>2, AnswerKeeps DEF HttpControl
  <1>9. ASSUME NEW h \in Asked, HttpVolume(h) PROVE StateInv'
    <2> DEFINE text == FormatVolume(RoundToHalfStep(h), limit)
    <2>1. text \in Texts
      BY LevelIsText DEF StateInv
    <2>2. Line("MV", text) \in Commands
      BY <2>1 DEF Commands
    <2> QED
      BY <1>9, <2>2, AnswerKeeps DEF HttpVolume
  <1>10. ASSUME NEW line \in Limiting \cup Setting, AvrLine(line) PROVE StateInv'
    <2> DEFINE s == Updated(State, line)
    <2>1. /\ Prefix(line) \in Prefixes
          /\ s \in Full
          /\ Updated(mirror, line) \in Known
          /\ Agrees(mirror, State) => Agrees(Updated(mirror, line), s)
      BY <1>1, <1>2, LineAgrees
    <2>2. client => Agrees(mirror, State)
      BY AgreesWithState DEF StateInv
    <2>3. Become(s) /\ Send(<<line>>, Prefixes) /\ config.avr_host /\ UNCHANGED <<config, client>>
      BY <1>10 DEF AvrLine
    <2> HIDE DEF s
    <2>4. mirror' = IF client THEN Updated(mirror, line) ELSE mirror
      BY <2>1, <2>3, OneLine DEF Send
    <2>5. mirror' \in Known /\ (client' => Agrees(mirror', s))
      BY <1>2, <2>1, <2>2, <2>3, <2>4
    <2> QED
      BY <1>2, <2>1, <2>3, <2>5, BecomeKeeps
  <1>11. CASE UNCHANGED stateVars
    BY <1>11 DEF stateVars, StateInv, TypeOK, MirrorAgrees, VirtualPowerIsKnown
  <1> QED
    BY <1>4, <1>5, <1>6, <1>7, <1>8, <1>9, <1>10, <1>11 DEF StateNext

LEMMA AlwaysStateInv == StateSpec => []StateInv
  BY StateInvInit, StateInvStep, PTL DEF StateSpec

\* The fields of the state have values that are theirs, or are not known.
THEOREM StateTypeCorrect == StateSpec => []StateTypeOK
  <1>1. StateInv => StateTypeOK
    <2> SUFFICES ASSUME StateInv PROVE StateTypeOK
      OBVIOUS
    <2>1. others \in Others /\ mirror \in Known /\ config \in Configs
      BY DEF StateInv
    <2> QED
      BY <2>1 DEF StateInv, StateTypeOK, Others, Known, Configs
  <1> QED
    BY <1>1, AlwaysStateInv, PTL

\* A telnet client that reads its lines as the proxy reads those of the AVR
\* knows of every field that the proxy knows what the proxy knows: dumps,
\* relayed lines, echoes of the virtual AVR and broadcasts of optimistic state
\* all tell it what it must be told.
THEOREM MirrorIsRight == StateSpec => []MirrorAgrees
  BY AlwaysStateInv, PTL DEF StateInv

\* The virtual AVR is on or in standby.
THEOREM VirtualPower == StateSpec => []VirtualPowerIsKnown
  BY AlwaysStateInv, PTL DEF StateInv

-----------------------------------------------------------------------------
(***************************************************************************)
(* The volume.                                                             *)
(***************************************************************************)

\* What a command makes of the volume.
LEMMA VolumeOfCommand ==
  ASSUME NEW s \in Full, NEW line \in Commands
  PROVE  LET w == Applied(s, line).volume
             level == VolumeToLevel(s.volume, s.volume_max)
         IN  \/ w = s.volume
             \/ line = Line("MVUP", None)
                /\ w = FormatVolume(Least(s.volume_max, level + Step), s.volume_max)
             \/ line = Line("MVDOWN", None)
                /\ w = FormatVolume(Greatest(0, level - Step), s.volume_max)
             \/ line = Line("MV", w)
  <1> DEFINE p == s.power  v == s.volume  l == s.volume_max  i == s.input_source
             u == s.mute   m == s.sound_mode  t == s.smart_select
             up == FormatVolume(Least(l, VolumeToLevel(v, l) + Step), l)
             down == FormatVolume(Greatest(0, VolumeToLevel(v, l) - Step), l)
  <1>1. s = AsRecord(p, v, l, i, u, m, t)
    BY FullFields
  <1> HIDE DEF p, v, l, i, u, m, t
  <1>2. ASSUME line = Line("MVUP", None) PROVE Applied(s, line).volume = up
    <2>1. Applied(s, line) = AsRecord(p, up, l, i, u, m, t)
      BY <1>1, <1>2, AppliedField
    <2> QED
      BY <2>1 DEF AsRecord
  <1>3. ASSUME line = Line("MVDOWN", None) PROVE Applied(s, line).volume = down
    <2>1. Applied(s, line) = AsRecord(p, down, l, i, u, m, t)
      BY <1>1, <1>3, AppliedField
    <2> QED
      BY <2>1 DEF AsRecord
  <1>4. ASSUME NEW x, line = Line("MV", x) PROVE Applied(s, line).volume = x
    <2>1. Applied(s, line) = AsRecord(p, x, l, i, u, m, t)
      BY <1>1, <1>4, AppliedField
    <2> QED
      BY <2>1 DEF AsRecord
  <1>5. ASSUME NEW x, NEW key \in {"?", "PW", "ZM", "MU", "SI", "MSSMART", "MS"},
               line = Line(key, x)
        PROVE  Applied(s, line).volume = s.volume
    <2>1. ~(Related(line) = {"MV"}) \/ key = "?"
      BY <1>5, RelatedToLine
    <2>2. Applied(s, line) = s \/ "MV" \notin Related(line)
      <3>1. CASE key = "?"
        BY <1>1, <1>5, <3>1, AppliedField
      <3>2. CASE key # "?"
        BY <1>5, <3>2, RelatedToLine
      <3> QED
        BY <3>1, <3>2
    <2> QED
      BY <2>2, AppliedIsFull DEF SameBut
  <1>6. line \in Stepping \/ (\E x : line = Line("MV", x))
        \/ \E key \in {"?", "PW", "ZM", "MU", "SI", "MSSMART", "MS"} : \E x : line = Line(key, x)
    BY DEF Commands, Queries, Setting
  <1> QED
    BY <1>2, <1>3, <1>4, <1>5, <1>6 DEF Stepping, v, l

\* A command that is not one of the HTTP API's levels is a step of Volume.
LEMMA CommandIsVolumeStep ==
  ASSUME StateInv, NEW line \in Queries \cup Stepping \cup Setting,
         volume' = Applied(State, line).volume, limit' = limit
  PROVE  Next \/ UNCHANGED vars
  <1>1. State \in Full /\ State.volume = volume /\ State.volume_max = limit
    BY StateIsFull DEF StateInv
  <1>2. line \in Commands
    BY DEF Commands
  <1>3. CASE volume' = volume
    BY <1>3 DEF vars
  <1>4. CASE volume' = FormatVolume(Least(limit, Level + Step), limit)
    BY <1>4 DEF Next, Up
  <1>5. CASE volume' = FormatVolume(Greatest(0, Level - Step), limit)
    BY <1>5 DEF Next, Down
  <1>6. CASE line = Line("MV", volume')
    <2>1. volume' \in Reported
      <3>1. line.key = "MV" /\ line.arg = volume'
        BY <1>6 DEF Line
      <3>2. PICK text \in Reported : line = Line("MV", text)
        BY <3>1 DEF Queries, Stepping, Setting, Line
      <3> QED
        BY <3>1, <3>2 DEF Line
    <2> QED
      BY <2>1 DEF Next, Set
  <1> QED
    BY <1>1, <1>2, <1>3, <1>4, <1>5, <1>6, VolumeOfCommand DEF Level

LEMMA VolumeStep == StateInv /\ [StateNext]_stateVars => Next \/ UNCHANGED vars
  <1> SUFFICES ASSUME StateInv, [StateNext]_stateVars PROVE Next \/ UNCHANGED vars
    OBVIOUS
  <1>1. State \in Full /\ State.volume = volume /\ State.volume_max = limit
    BY StateIsFull DEF StateInv
  <1>2. config \in Configs
    BY DEF StateInv
  <1>3. CASE Join \/ RequestState \/ UNCHANGED stateVars
    BY <1>3 DEF Join, RequestState, stateVars, vars
  <1>4. ASSUME NEW line \in Queries \cup Stepping \cup Setting, NEW telnet \in BOOLEAN,
               CommandVirtual(line, telnet)
        PROVE  Next \/ UNCHANGED vars
    <2>1. ~config.avr_host /\ Answer(State, line) /\ UNCHANGED <<config, client>>
      BY <1>2, <1>4 DEF CommandVirtual, Configs
    <2>2. line \in Commands
      BY DEF Commands
    <2> QED
      BY <2>1, <2>2, AnswerKeeps, CommandIsVolumeStep
  <1>5. ASSUME NEW line \in Queries \cup Stepping \cup Setting, NEW sent \in BOOLEAN,
               CommandPhysical(line, sent)
        PROVE  Next \/ UNCHANGED vars
    <2>1. CASE sent
      <3>1. volume' = Applied(State, line).volume /\ limit' = Applied(State, line).volume_max
        BY <1>5, <2>1 DEF CommandPhysical, Become
      <3>2. Applied(State, line).volume_max = limit
        BY <1>1, AppliedIsFull DEF SameBut, Commands
      <3> QED
        BY <3>1, <3>2, CommandIsVolumeStep
    <2>2. CASE ~sent
      BY <1>1, <1>5, <2>2 DEF CommandPhysical, Become, vars
    <2> QED
      BY <2>1, <2>2
  <1>6. CASE HttpControl
    <2>1. PICK line \in RouteToCommand(State) : Answer(State, line)
      BY <1>6 DEF HttpControl
    <2>2. line \in Commands /\ line \in Stepping \cup Setting
      BY <1>1, <2>1, RoutesAreCommands DEF Commands
    <2>3. volume' = Applied(State, line).volume /\ limit' = limit
      BY <1>6, <2>1, <2>2, AnswerKeeps DEF HttpControl
    <2> QED
      BY <2>2, <2>3, CommandIsVolumeStep
  <1>7. ASSUME NEW h \in Asked, HttpVolume(h) PROVE Next \/ UNCHANGED vars
    <2> DEFINE text == FormatVolume(RoundToHalfStep(h), limit)
    <2>1. text \in Texts
      BY LevelIsText DEF StateInv
    <2>2. Line("MV", text) \in Commands
      BY <2>1 DEF Commands
    <2>3. volume' = Applied(State, Line("MV", text)).volume /\ limit' = limit
      BY <1>7, <2>2, AnswerKeeps DEF HttpVolume
    <2> HIDE DEF text
    <2>4. Applied(State, Line("MV", text)).volume = text
      <3> DEFINE s == State
      <3>1. s = AsRecord(s.power, s.volume, s.volume_max, s.input_source, s.mute, s.sound_mode,
                        s.smart_select)
        BY <1>1, FullFields
      <3> DEFINE p == s.power       l == s.volume_max  v == s.volume
                 i == s.input_source  u == s.mute  m == s.sound_mode  t == s.smart_select
      <3> HIDE DEF s, p, v, l, i, u, m, t
      <3>2. Applied(s, Line("MV", text)) = AsRecord(p, text, l, i, u, m, t)
        BY <3>1, AppliedField DEF p, v, l, i, u, m, t
      <3> QED
        BY <3>2 DEF s, AsRecord
    <2>5. h <= 10 * limit
      BY <1>7 DEF HttpVolume
    <2>6. SetByHttp(h)
      BY <2>3, <2>4, <2>5 DEF SetByHttp, text
    <2> QED
      BY <2>6 DEF Next
  <1>8. ASSUME NEW line \in Limiting \cup Setting, AvrLine(line) PROVE Next \/ UNCHANGED vars
    <2>1. volume' = Updated(State, line).volume /\ limit' = Updated(State, line).volume_max
      BY <1>8 DEF AvrLine, Become
    <2>2. CASE line \in Limiting
      <3>1. PICK text \in Limits : line = Line("MVMAX", text)
        BY <2>2 DEF Limiting
      <3>2. Updated(State, line) = [State EXCEPT !.volume_max = DigitsToLevel(text)]
        BY <3>1 DEF Updated, Line
      <3>3. SetLimit(text)
        BY <1>1, <2>1, <3>2 DEF SetLimit, Full
      <3> QED
        BY <3>3 DEF Next
    <2>3. CASE line \in Setting
      <3>1. line \in Commands /\ Updated(State, line) = Applied(State, line)
        BY <2>3 DEF Commands, Setting, Line, Updated, Applied
      <3>2. Updated(State, line).volume_max = limit
        BY <1>1, <3>1, AppliedIsFull DEF SameBut
      <3> QED
        BY <2>1, <2>3, <3>1, <3>2, CommandIsVolumeStep
    <2> QED
      BY <2>2, <2>3
  <1> QED
    BY <1>3, <1>4, <1>5, <1>6, <1>7, <1>8, RoutesAreCommands DEF StateNext

\* Every step of the proxy, seen by its volume, is one step of Volume: a
\* command of a telnet client steps it once, although it may be applied in two
\* places, and the echo of the virtual AVR leaves it.
THEOREM VolumeIsImplemented == StateSpec => ImplementsVolume
  <1>1. StateInv /\ [StateNext]_stateVars => [Next \/ UNCHANGED vars]_vars
    BY VolumeStep
  <1> QED
    BY <1>1, AlwaysStateInv, PTL DEF StateSpec, ImplementsVolume

\* So the volume of the proxy is stepped exactly, as that of Volume.
THEOREM StateStepsExact == StateSpec => StepsWhereClear
  <1>1. TypeOK /\ [Next]_vars
          => [/\ Up /\ Clear(Higher) => Level' = Higher
              /\ Down /\ Clear(Lower) => Level' = Lower]_vars
    BY StepIsExact
  <1>2. StateInv => TypeOK
    BY DEF StateInv
  <1>3. StateInv /\ [StateNext]_stateVars => [Next]_vars
    BY VolumeStep
  <1> QED
    BY <1>1, <1>2, <1>3, AlwaysStateInv, PTL DEF StateSpec, StepsWhereClear

\* And set by the HTTP API to what it is asked for.
THEOREM StateHttpExact == StateSpec => HttpSetsLevel
  <1>1. TypeOK /\ [Next]_vars
          => [\A h \in Asked : SetByHttp(h) /\ (h >= 1000 \/ h % 100 = 0)
                => /\ 10 * Level' - h <= 25
                   /\ h - 10 * Level' <= 25]_vars
    BY HttpIsNear
  <1>2. StateInv => TypeOK
    BY DEF StateInv
  <1>3. StateInv /\ [StateNext]_stateVars => [Next]_vars
    BY VolumeStep
  <1> QED
    BY <1>1, <1>2, <1>3, AlwaysStateInv, PTL DEF StateSpec, HttpSetsLevel

-----------------------------------------------------------------------------
\* The decibels are those of a level with an even number of tenths, at most a
\* tenth away, so that only nine tenths come near the next whole step.
LEMMA DbOfLevel ==
  ASSUME NEW text \in Texts \cup {NoNumber}
  PROVE  LET level == VolumeToLevel(text, 980)
             lost == level - 10 * LevelOfDb(VolumeToDb(text))
         IN  lost = level % 10 \/ (lost = -1 /\ level % 10 = 9)
  <1> DEFINE level == VolumeToLevel(text, 980)
  <1>1. level \in 0..980
    <2>1. CASE text \in Texts
      BY <2>1, TextLevel, NumbersAre DEF VolumeToLevel, Greatest, Least
    <2>2. CASE text \notin Texts
      BY <2>2 DEF VolumeToLevel, DefaultLevel
    <2> QED
      BY <2>1, <2>2
  <1> DEFINE db == VolumeToDb(text)
             shown == 800 + 2 * db
  <1>2. shown \in Int /\ shown % 2 = 0 /\ shown \in {level - 1, level, level + 1}
    BY <1>1, SMTT(30) DEF VolumeToDb
  <1>3. LevelOfDb(db) = Greatest(0, Least(98, shown \div 10))
    BY DEF LevelOfDb
  <1> HIDE DEF level, shown, db
  <1>4. LevelOfDb(db) = IF shown >= 980 THEN 98 ELSE IF shown >= 0 THEN shown \div 10 ELSE 0
    BY <1>1, <1>2, <1>3 DEF Greatest, Least
  <1>5. LET lost == level - 10 * LevelOfDb(db)
        IN  lost = level % 10 \/ (lost = -1 /\ level % 10 = 9)
    <2>1. CASE shown >= 980
      BY <1>1, <1>2, <1>4, <2>1
    <2>2. CASE shown < 0
      BY <1>1, <1>2, <1>4, <2>2
    <2>3. CASE shown >= 0 /\ shown < 980
      <3>1. LevelOfDb(db) = shown \div 10
        BY <1>2, <1>4, <2>3
      <3> QED
        BY <1>1, <1>2, <2>3, <3>1
    <2> QED
      BY <1>1, <1>2, <2>1, <2>2, <2>3
  <1> QED
    BY <1>5 DEF level, db

\* The decibels that the status shows are read back as the whole step of the
\* level without its tenths, or with nine tenths as the next, of whatever text.
THEOREM DbIsKept == StateSpec => []DbKeepsLevel
  <1>1. StateInv => DbKeepsLevel
    BY DbOfLevel DEF StateInv, TypeOK, DbKeepsLevel
  <1> QED
    BY <1>1, AlwaysStateInv, PTL
=============================================================================
