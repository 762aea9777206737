--------------------------- MODULE MCArgumentWalk ---------------------------
(***************************************************************************)
(* Small instances of ArgumentWalk: a screen with the amount of a token,   *)
(* its issuer and its instrument in the outermost record, and a holding    *)
(* whose amount and issuer are one record deeper.                          *)
(***************************************************************************)
EXTENDS ArgumentWalk

\* "wide" fits alone and leaves no room for another label.
MCWidth == [l \in Labels |-> IF l = "wide" THEN 6 ELSE 1]
MCSegments == [l \in Labels |-> <<l>>]

Field(path, mandatory, format) == [path |-> path, mandatory |-> mandatory, format |-> format]
MCFields ==
  [AMOUNT |-> Field(<<"a">>, TRUE, "token"),
   INSTRUMENT |-> Field(<<"t">>, TRUE, "plain"),
   ADMIN |-> Field(<<"wide">>, TRUE, "plain"),
   ASSET |-> Field(<<"t", "a">>, FALSE, "plain")]
MCFieldOrder == <<"AMOUNT", "INSTRUMENT", "ADMIN", "ASSET">>
MCKnownTokens == {<<"x", "y">>}

MCHoldingPaths == [owner |-> <<"a">>, amount |-> <<"t", "a">>, admin |-> <<"t", "t">>]

Value(t, v) == [type |-> t, value |-> v]
MCLeaves == {Value("party", "x"), Value("text", "y"), Value("party", "empty")}
PartyLeaves == {Value("party", "x")}
TypedLeaves == {Value("numeric", "x"), Value("text", "x"), Value("text", "y"), Value("timestamp", "x")}
=============================================================================
