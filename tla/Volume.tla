------------------------------- MODULE Volume -------------------------------
(***************************************************************************)
(* The volume the proxy keeps as the text of a telnet parameter and counts *)
(* with as a level (avr/state.py: AVRState.volume, volume_max,             *)
(* apply_command, _format_volume, volume_to_level; http/avr_control.py:    *)
(* volume/set).                                                            *)
(*                                                                         *)
(* Levels are in tenths: 535 is 53.5.  A text of digits is its length and  *)
(* its number: "535" and "95" are [digits |-> 3, num |-> 535] and          *)
(* [digits |-> 2, num |-> 95].  An AVR writes whole steps in two digits    *)
(* and half steps in three.                                                *)
(***************************************************************************)
EXTENDS Integers

CONSTANTS
  Step,      \* config volume_step
  Reported,  \* texts the AVR reports, or a client sends, as MV<text>
  Limits,    \* texts the AVR reports as MVMAX <text>
  Asked,     \* levels, in hundredths, the HTTP API is asked to set
  NoNumber   \* any text that is not digits, and None

\* What three digits can name: the numbers of texts, and the limits.
Numbers == 0..999

Texts == [digits : {1}, num : 0..9] \cup [digits : {2}, num : 0..99]
         \cup [digits : {3}, num : Numbers]

ASSUME StepAssumption == Step \in Nat /\ Step % 5 = 0
ASSUME TextsAssumption == Reported \subseteq Texts \cup {NoNumber} /\ Limits \subseteq Texts
ASSUME NoNumberAssumption == NoNumber \notin Texts
ASSUME AskedAssumption == Asked \subseteq Nat

VARIABLES volume,   \* AVRState.volume
          limit     \* AVRState.volume_max

vars == <<volume, limit>>

Least(a, b) == IF a <= b THEN a ELSE b
Greatest(a, b) == IF a >= b THEN a ELSE b

\* _digits_to_level.
DigitsToLevel(text) == IF text.digits = 3 THEN text.num ELSE 10 * text.num

\* VOLUME_DEFAULT_LEVEL, DEFAULT_MAX_VOLUME.
DefaultLevel == 500
DefaultLimit == 980

\* volume_to_level; what is no number counts as the default, unclamped.
VolumeToLevel(text, max) ==
  IF text \in Texts THEN Greatest(0, Least(max, DigitsToLevel(text))) ELSE DefaultLevel

\* A number as Python writes it.
Str(n) == [digits |-> IF n < 10 THEN 1 ELSE IF n < 100 THEN 2 ELSE 3, num |-> n]

\* A plausible slip: half steps are cut off.
FormatWhole(tenths, max) == Str(Greatest(0, Least(max, tenths)) \div 10)

\* _format_volume.
FormatVolume(tenths, max) ==
  LET level == Greatest(0, Least(max, tenths))
  IN  IF level % 10 = 0 THEN Str(level \div 10) ELSE Str(level)

Level == VolumeToLevel(volume, limit)

Init == /\ volume \in {Str(DefaultLevel \div 10)} \cup Reported
        /\ limit = DefaultLimit

\* MVUP.
Up == /\ volume' = FormatVolume(Least(limit, Level + Step), limit)
      /\ UNCHANGED limit

\* MVDOWN.
Down == /\ volume' = FormatVolume(Greatest(0, Level - Step), limit)
        /\ UNCHANGED limit

\* MV<text> of a client or of the AVR.
Set(text) == /\ volume' = text
             /\ UNCHANGED limit

\* MVMAX <text> of the AVR.
SetLimit(text) == /\ limit' = DigitsToLevel(text)
                  /\ UNCHANGED volume

\* A plausible slip: rounding down.
RoundDown(hundredths) == 5 * (hundredths \div 50)

\* To the nearest half step; Python rounds a tie to the even one.
RoundToHalfStep(hundredths) ==
  LET n == hundredths \div 50
      r == hundredths % 50
  IN  5 * (IF r < 25 \/ (r = 25 /\ n % 2 = 0) THEN n ELSE n + 1)

\* volume/set?level=: the command it makes, once it has been carried out.
SetByHttp(hundredths) ==
  /\ hundredths <= 10 * limit
  /\ volume' = FormatVolume(RoundToHalfStep(hundredths), limit)
  /\ UNCHANGED limit

Next == \/ Up \/ Down
        \/ \E text \in Reported : Set(text)
        \/ \E text \in Limits : SetLimit(text)
        \/ \E h \in Asked : SetByHttp(h)

Spec == Init /\ [][Next]_vars
-----------------------------------------------------------------------------
(***************************************************************************)
(* Properties                                                              *)
(***************************************************************************)

\* The type invariant.
TypeOK == /\ volume \in Texts \cup {NoNumber}
          /\ limit \in Numbers

\* The level one step up and one step down.
Higher == Least(limit, Level + Step)
Lower == Least(limit, Greatest(0, Level - Step))

\* A level whose text cannot be taken for another: below ten, half steps have
\* two digits.
Clear(level) == level >= 100 \/ level % 10 = 0

\* A step changes the level that is read back from the text by exactly
\* volume_step, and stops at zero and at the limit the AVR has last
\* reported; texts of whole and half steps, of the proxy and of the AVR, can
\* be mixed.  Only for half steps below ten this is not so.
StepsWhereClear ==
  [][/\ Up /\ Clear(Higher) => Level' = Higher
     /\ Down /\ Clear(Lower) => Level' = Lower]_vars

\* The HTTP API sets the level it is asked for to within a quarter, again but
\* for half steps below ten.
HttpSetsLevel ==
  [][\A h \in Asked : SetByHttp(h) /\ (h >= 1000 \/ h % 100 = 0)
       => /\ 10 * Level' - h <= 25
          /\ h - 10 * Level' <= 25]_vars

=============================================================================
