----------------------------- MODULE MCWorkbook -----------------------------
(* Two profiles: A needs a name; P needs a name and recognises "0" as the  *)
(* assessment, which on A is an ordinary extra column.                     *)
EXTENDS Workbook

MCCell == {"", "name", "moodle password", "0", "long"}
MCNormalizeLabel ==
    [c \in MCCell |-> CASE c = "moodle password" -> <<"moodle", "password">>
                        [] c = "" -> <<>>
                        [] OTHER -> <<c>>]
MCSheetName == {"A", "P", "x"}
MCProfileForSheet == [s \in MCSheetName |-> IF s = "x" THEN "none" ELSE s]
MCSheetLists == {<<"A", "P">>, <<"P", "A">>, <<"A", "x", "P">>,
                 <<"A", "P", "A">>, <<"P">>, <<>>, <<"A", "P", "x", "x">>}
MCFieldForHeader ==
    [p \in {"A", "P"} |->
        IF p = "A" THEN [w \in {<<"name">>} |-> "full_name"]
        ELSE [w \in {<<"name">>, <<"0">>} |->
                IF w = <<"0">> THEN "assessment" ELSE "full_name"]]
MCRequiredFields ==
    [p \in {"A", "P"} |-> IF p = "A" THEN {"full_name"}
                          ELSE {"full_name", "assessment"}]
=============================================================================
