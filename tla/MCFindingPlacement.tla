------------------------ MODULE MCFindingPlacement ------------------------
(* FindingPlacement on short sections: every line and quotes of one and two   *)
(* lines for the path of the file, and one finding for every other path.     *)
EXTENDS FindingPlacement

SomeTexts == {"a", "b", ""}
SomeCodes == {<<>>, <<"a">>, <<"a", "b">>, <<"", "a">>}
SomeFile  == <<"src", "main">>

OtherFiles == {<<"main">>, <<"app", "src", "main">>}
OtherPaths == OtherFiles \cup {<<"x", "main">>, <<"x", "src", "main">>, <<"", "src", "main">>, <<"none">>}

SomeFindings ==
    [start : 1..4, code : SomeCodes, path : {SomeFile}, others : {{}}]
    \cup [start : {1}, code : {<<"a">>}, path : {<<"">>}, others : {{}}]
    \cup [start : {0}, code : {<<"a">>}, path : {SomeFile}, others : {{}}]
    \cup [start : {1}, code : {<<"a">>}, path : OtherPaths, others : {OtherFiles}]
============================================================================
