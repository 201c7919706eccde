---------------------------- MODULE MCHttpServer ----------------------------
EXTENDS HttpServer

m == <<"/", "m">>
m2 == <<"/", "m", "2">>
MCOther == <<"/", "n">>

const_Symmetry == Permutations(Users)

MCBuffers == 1 .. 6
MCRoot == <<"/", "w">>
MCDirs == {<<"/">>, m, m \o <<"/", "a">>, m2, MCOther, MCRoot, m \o <<"/", ".h">>}
MCFiles == {m \o <<"/", "a", "/", "f">>, m \o <<"/", ".h", "/", "f">>, m2 \o <<"/", "g">>, MCOther \o <<"/", "h">>}
MCWords == STRING
MCPlayed == MCFiles \ {m \o <<"/", ".h", "/", "f">>}
MCShareMaps == {<<m, MCOther>>, <<>>}
MCHidden == {".h"}
MCCurrent == <<"/", ".current">>
MCRequests == {
  [kind |-> "list", share |-> 1, path |-> <<"/", "/", "a", "/">>],
  [kind |-> "page", share |-> 1, path |-> <<"/", "x">>],
  [kind |-> "page", share |-> 1, path |-> <<"/", "a", "/", "f">>],
  [kind |-> "list", share |-> 1, path |-> MCCurrent],
  [kind |-> "current page", share |-> 0, path |-> MCCurrent],
  [kind |-> "current list", share |-> 0, path |-> <<>>],
  [kind |-> "load", share |-> 1, path |-> <<"/", "a", "/", "f">>],
  [kind |-> "load", share |-> 1, path |-> <<"/">>],
  [kind |-> "static", share |-> 0, path |-> <<"/">>]}

\* names of shares
MCKeys == {<<>>, <<"m">>, <<"m", "u">>, <<"share", "1">>, <<"share", "2">>, <<"share", "3">>}
MCConfigs ==
  [1 .. 3 -> [key : MCKeys, readable : {TRUE}]]
    \cup [1 .. 2 -> [key : {<<>>, <<"share", "1">>, <<"a", "/">>, <<"x", "current">>}, readable : BOOLEAN]]
MCRelPaths == {<<>>, <<"/", "a">>}
MCSingleChars == {"a", "x"}

\* texts
MCLists ==
  UNION {[1 .. n -> [key : {<<>>, <<"k">>}, val : {<<"v">>}, sep : Separators, delim : {"|", ":"}]
                      \cup [key : {<<"k">>}, val : {<<"v", ":", "v">>, <<"v", "|">>},
                            sep : {","}, delim : {"|", ":"}]] : n \in 0 .. 2}
MCUrlTails == UNION {[1 .. n -> {"/", "a"}] : n \in 0 .. 4}
MCSizes ==
  0 .. 200 \cup UNION {k - 2 .. k + 2 :
                      k \in {2 ^ 9, 2 ^ 10, 2 ^ 12, 2 ^ 13, 2 ^ 15, 2 ^ 18, 2 ^ 19}}

=============================================================================
