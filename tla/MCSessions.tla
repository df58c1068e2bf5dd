----------------------------- MODULE MCSessions -----------------------------
(* Two sessions, one of which has the name the other takes when purged again;  *)
(* one of them goes on past midnight.                                          *)
EXTENDS Sessions, TLC

CONSTANTS p1, p2

Commands == Permutations(Procs)
TwoSessions == {<<1>>, <<1, 2>>}
BothOnTheFirstDay == {<<1, <<1>>>>, <<1, <<1, 2>>>>, <<2, <<1>>>>}
=============================================================================
