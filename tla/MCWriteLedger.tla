--------------------------- MODULE MCWriteLedger ---------------------------
(* Two commits of the items 1 and 10 of one each, a message, which is never *)
(* found, and a tool call, which has no Find at all (wire.Writer.Find is    *)
(* nil).                                                                    *)
EXTENDS WriteLedger

MCWrites == {"commit1", "commit10", "message", "tool"}
MCMarked == {"commit1", "commit10"}
MCBlind == {"message"}
MCPartOf == {<<"commit1", "commit10">>}
=============================================================================
