---------------------------- MODULE MCAudioPath ----------------------------
(* Small instances of AudioPath: two backends in two lists, one of which   *)
(* has a backend twice, and rule sets that map something, map nothing, or  *)
(* make the mapping panic.                                                 *)
EXTENDS AudioPath

CONSTANTS pd, sc, plain, mute, poison
BothBackends == <<pd, sc, pd>>
TwoLists == {BothBackends, <<sc>>}
AllRules == {plain, mute, poison}
MuteRules == {mute}
PoisonRules == {poison}
=============================================================================
