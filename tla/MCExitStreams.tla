--------------------------- MODULE MCExitStreams ---------------------------
(* ExitStreams on small instances for TLC. *)
EXTENDS ExitStreams

CONSTANTS i1, i2

\* Two clients one after the other that use the same stream id.
MCSameId == {<<1, i1>>, <<2, i1>>}

\* Two streams of one client, and one of the next client with a used id.
MCThree == {<<1, i1>>, <<1, i2>>, <<2, i1>>}

\* The second stream of the first client, and none.
MCSecond == {<<1, i2>>}
MCNobody == {}
=============================================================================
