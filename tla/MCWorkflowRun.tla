--------------------------- MODULE MCWorkflowRun ---------------------------
(***************************************************************************)
(* Seven workflow files:                                                   *)
(*   items:  an each of two items (work, then a write), then a step;       *)
(*   rounds: a loop of two rounds (work, then a write), then a write with  *)
(*           "when" and else;                                              *)
(*   sides:  a branch of two lists that one is enough for, with an else on *)
(*           the branch step, then a step;                                 *)
(*   inner:  an each of two items with a loop whose step has on_error      *)
(*           "stop";                                                       *)
(*   spin:   a loop of two rounds with "until" and a timeout;              *)
(*   pair:   an each of two items, of which one's worker may panic;        *)
(*   nest:   an each of two items, each with an each of one item with a    *)
(*           write: both writes share a ledger entry.                      *)
(***************************************************************************)
EXTENDS WorkflowRun, TLC

Items == <<"items">>
Rnds == <<"rounds">>
Sides == <<"sides">>
Inner == <<"inner">>
Nest == <<"nest">>
Spin == <<"spin">>
Pair == <<"pair">>

AllBody ==
    Items :> <<"each", "sum">>
    @@ [l \in {Items \o <<"each", i>> : i \in {"a", "b"}} |-> <<"work", "write">>]
    @@ Rnds :> <<"loop", "post">> @@ Rnds \o <<"post", "else">> :> <<"note">>
    @@ [l \in {Rnds \o <<"loop", i>> : i \in {"1", "2"}} |-> <<"work", "write">>]
    @@ Sides :> <<"branch">> @@ Sides \o <<"branch", "x">> :> <<"left">>
    @@ Sides \o <<"branch", "y">> :> <<"right">> @@ Sides \o <<"branch", "else">> :> <<"rescue">>
    @@ Inner :> <<"each">>
    @@ [l \in {Inner \o <<"each", i>> : i \in {"a", "b"}} |-> <<"loop">>]
    @@ [l \in {Inner \o <<"each", i, "loop", "1">> : i \in {"a", "b"}} |-> <<"stop">>]
    @@ Spin :> <<"loop">> @@ [l \in {Spin \o <<"loop", i>> : i \in {"1", "2"}} |-> <<"turn">>]
    @@ Pair :> <<"each">> @@ [l \in {Pair \o <<"each", i>> : i \in {"a", "b"}} |-> <<"turn">>]
    @@ Nest :> <<"each">>
    @@ [l \in {Nest \o <<"each", i>> : i \in {"a", "b"}} |-> <<"deep">>]
    @@ [l \in {Nest \o <<"each", i, "deep", "1">> : i \in {"a", "b"}} |-> <<"write">>]

\* A configuration gives Lists; the other constants follow.
FilesOf(tops) == {l \in DOMAIN AllBody : SubSeq(l, 1, 1) \in tops}
MostLists == FilesOf({Items, Rnds, Sides, Pair, Inner})
SmallLists == FilesOf({Sides, Inner, Spin})
LoopLists == FilesOf({Rnds})
NestLists == FilesOf({Nest})

MCTops == {l \in Lists : Len(l) = 1}
MCBody == [l \in Lists |-> AllBody[l]]
MCSteps == UNION {{Append(l, MCBody[l][i]) : i \in DOMAIN MCBody[l]} : l \in Lists}

MCKind == [s \in MCSteps |->
    CASE Last(s) \in {"each", "deep"} -> "each"
      [] Last(s) \in {"write", "post"} -> "write"
      [] Last(s) \in {"loop", "branch"} -> Last(s)
      [] OTHER -> "work"]
MCParts == [s \in MCSteps |->
    CASE Last(s) = "each" -> <<"a", "b">>
      [] Last(s) = "branch" -> <<"x", "y">>
      [] s \in {Rnds \o <<"loop">>, Spin \o <<"loop">>} -> <<"1", "2">>
      [] Last(s) = "deep" \/ (Last(s) = "loop" /\ Head(s) = "inner") -> <<"1">>
      [] OTHER -> <<>>]
MCGuarded == {Rnds \o <<"post">>}
MCUntil == {Rnds \o <<"loop">>, Spin \o <<"loop">>}
MCStop == {s \in MCSteps : Last(s) = "stop"}
MCJoinAny == {Sides \o <<"branch">>}
MCTimed == {Sides \o <<"branch">>, Rnds \o <<"loop">>, Items \o <<"each">>, Spin \o <<"loop">>}
MCFragile == {Pair \o <<"each", "a">>, Rnds \o <<"loop", "1">>, Rnds \o <<"post", "else">>, Sides \o <<"branch", "x">>}
NoneFragile == {}
MCAnon == {s \in MCSteps : Last(s) = "work"}
=============================================================================
