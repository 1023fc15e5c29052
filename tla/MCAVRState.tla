----------------------------- MODULE MCAVRState -----------------------------
(***************************************************************************)
(* AVRState with half steps from 0 to the limit: texts of the AVR on both  *)
(* sides of ten and of the limits, with nine tenths that are kept and that *)
(* are not, levels for the HTTP API on half steps, beside them and on      *)
(* ties, and decibels that are whole, half and neither.                    *)
(***************************************************************************)
EXTENDS AVRState

Text(d, n) == [digits |-> d, num |-> n]

MCReported == {Text(2, 9), Text(3, 95), Text(3, 99), Text(3, 539), NoNumber}
MCLimits == {Text(2, 98), Text(3, 105)}
MCAsked == {900, 1025, 1026, 1075, 9800}
MCLevels == {-900, -800, -365, -1, 0, 180}
=============================================================================
