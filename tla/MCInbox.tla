------------------------------ MODULE MCInbox ------------------------------
(* Instances of Inbox: two requests, one of them also as the end of a line. *)
EXTENDS Inbox

CONSTANTS a, b

Says(kind, asks) == [kind |-> kind, asks |-> asks]
MixedPieces == {Says("line", a), Says("blank", NoRequest), Says("start", a),
                Says("huge", NoRequest), Says("rest", b)}
=============================================================================
