------------------------ MODULE MCUnansweredTracker ------------------------
(***************************************************************************)
(* UnansweredTracker with queries whose names are prefixes of each other.  *)
(***************************************************************************)
EXTENDS UnansweredTracker

MCStems == {<<"MS">>, <<"MS", "SMART">>, <<"MV">>, <<"MV", "MAX">>}
MCTwoStems == {<<"MS">>, <<"MS", "SMART">>}

\* What the theorem about answered queries asks of them.
ASSUME QueriesUnambiguous == Unambiguous
=============================================================================
