----------------------------- MODULE MCTestFilter -----------------------------
(* A small suite for checking TestFilter.  The name ab contains a, e has     *)
(* nothing in it, f has parentheses and a plus sign, and s is a/e, so that   *)
(* it is cut in two.                                                         *)
EXTENDS TestFilter

MCNames == {"a", "ab", "e", "f", "s"}
MCTexts == {"a", "ab", "e", "f"}
MCParts == [n \in MCNames |-> IF n = "s" THEN <<"a", "e">> ELSE <<n>>]
MCContaining == [a |-> {"a", "ab", "s"}, ab |-> {"ab"}, e |-> MCNames, f |-> {"f"}]
MCBlank == {"e"}
MCWithParens == {"f"}
MCWithOthers == {"f"}
MCTests == {<<"a">>, <<"ab">>, <<"e">>, <<"a", "e">>, <<"a", "s">>, <<"a", "s", "a">>,
            <<"ab", "f">>}

\* -run a/a, -run ^ab$; -skip a/f, -skip ^a$/s/a
MCRunPatterns == {<<{"a", "ab", "s"}, {"a", "ab", "s"}>>, <<{"ab"}>>}
MCSkipPatterns == {<<{"a", "ab", "s"}, {"f"}>>, <<{"a"}, {"s"}, {"a", "ab", "s"}>>}
===============================================================================
