---------------------------- MODULE MCV1Snapshot ----------------------------
(***************************************************************************)
(* V1Snapshot for TLC: two systems, three profiles in two cities, and the  *)
(* ways in which V1's rows can be awkward.                                 *)
(***************************************************************************)
EXTENDS V1Snapshot

MCText == {<<>>, <<"-">>, <<"C1">>, <<"c1">>, <<"c2">>, <<"dept">>, <<"dept", "1">>,
           <<"Dept", "1">>, <<"dept", "2">>, <<"dept", "samara">>, <<"lead">>,
           <<"clerk">>, <<"moscow">>, <<"samara">>, <<"crm">>, <<"bpm">>, <<"sales">>}

MCNormal == [t \in MCText |-> CASE t = <<"-">> -> <<>>
                                [] t = <<"C1">> -> <<"c1">>
                                [] t = <<"Dept", "1">> -> <<"dept", "1">>
                                [] OTHER -> t]

MCKnownAliases == [t \in MCText |-> IF t = <<"lead">> THEN {<<"clerk">>} ELSE {}]

MCNumberOf == [t \in MCText |-> CASE t \in {<<"dept", "1">>, <<"Dept", "1">>} -> 1
                                  [] t = <<"dept", "2">> -> 2
                                  [] OTHER -> NoNumber]

Sound ==
    [hash |-> TRUE,
     systems |-> {[id |-> 1, code |-> <<"c1">>, name |-> <<"crm">>],
                  [id |-> 2, code |-> <<>>, name |-> <<"bpm">>]},
     aliases |-> {[system |-> 1, text |-> <<"sales">>, class |-> "AMBIGUOUS"],
                  [system |-> 1, text |-> <<"sales">>, class |-> "SAFE"],
                  [system |-> 2, text |-> <<"sales">>, class |-> "UNSAFE"]},
     departmentAliases |->
        {[rank |-> 1, name |-> <<"dept", "2">>, text |-> <<"sales">>, class |-> "SAFE"],
         [rank |-> 2, name |-> <<"dept", "1">>, text |-> <<"-">>, class |-> "SAFE"]},
     profiles |-> {[id |-> 1, code |-> <<"c1">>, name |-> <<"lead">>],
                   [id |-> 2, code |-> <<"c2">>, name |-> <<"clerk">>],
                   [id |-> 3, code |-> <<>>, name |-> <<"clerk">>]},
     segments |-> {[rank |-> 1, profile |-> 1, city |-> <<>>],
                   [rank |-> 2, profile |-> 1, city |-> <<"moscow">>],
                   [rank |-> 3, profile |-> 1, city |-> <<"samara">>],
                   [rank |-> 4, profile |-> 2, city |-> <<"samara">>]},
     departments |->
        {[rank |-> 1, profile |-> 1, name |-> <<"dept", "1">>, code |-> <<"c1">>],
         [rank |-> 2, profile |-> 2, name |-> <<"Dept", "1">>, code |-> <<"c1">>],
         [rank |-> 3, profile |-> 2, name |-> <<"dept", "2">>, code |-> <<>>],
         [rank |-> 4, profile |-> 3, name |-> <<"dept", "2">>, code |-> <<>>]},
     positions |->
        {[rank |-> 1, profile |-> 1, name |-> <<"lead">>, code |-> <<"c1">>],
         [rank |-> 2, profile |-> 2, name |-> <<"clerk">>, code |-> <<>>],
         [rank |-> 3, profile |-> 3, name |-> <<"clerk">>, code |-> <<>>]},
     accesses |-> {[profile |-> 1, system |-> 1, col |-> 1, level |-> 1],
                   [profile |-> 1, system |-> 1, col |-> 1, level |-> 2],
                   [profile |-> 1, system |-> 2, col |-> 1, level |-> 1],
                   [profile |-> 2, system |-> 1, col |-> 2, level |-> 1]}]

MCContent ==
    {Sound,
     \* no digest of the file
     [Sound EXCEPT !.hash = FALSE],
     \* two systems with one id, two profiles with one id
     [Sound EXCEPT !.systems = @ \cup {[id |-> 3, code |-> <<"C1">>, name |-> <<"bpm">>]}],
     [Sound EXCEPT !.profiles = @ \cup {[id |-> 4, code |-> <<"c2">>, name |-> <<"lead">>]}],
     \* a system without a name, an entitlement without a system
     [Sound EXCEPT !.systems = {[id |-> 1, code |-> <<"c1">>, name |-> <<"crm">>],
                                [id |-> 2, code |-> <<"c2">>, name |-> <<>>]}],
     [Sound EXCEPT !.systems = {[id |-> 1, code |-> <<"c1">>, name |-> <<"crm">>]}],
     \* two profiles for one department and position
     [Sound EXCEPT !.segments = {}],
     \* codes that are only a dash: departments and positions fall together
     [Sound EXCEPT !.departments = {[d EXCEPT !.code = <<"-">>] : d \in @},
                   !.positions = {[q EXCEPT !.code = <<"-">>] : q \in @}],
     \* codes that differ only in case
     [Sound EXCEPT !.departments =
        {[d EXCEPT !.code = IF d.rank = 2 THEN <<"C1">> ELSE <<"c1">>] : d \in @}],
     \* one department says where it is, the other is there: one id for both
     [Sound EXCEPT !.departments =
        {IF d.rank \in {3, 4}
         THEN [d EXCEPT !.name = IF d.rank = 3 THEN <<"dept">> ELSE <<"dept", "samara">>]
         ELSE d : d \in @}],
     \* a code that is another row's name
     [Sound EXCEPT !.departments =
        {[d EXCEPT !.code = IF d.rank = 2 THEN <<"dept", "2">> ELSE @] : d \in @},
                   !.positions =
        {[q EXCEPT !.code = IF q.rank = 1 THEN <<"clerk">> ELSE @] : q \in @}]}

MCQuery ==
    [number : {NoNumber},
     resembles : {{<<"lead">>, <<"clerk">>}, {<<"sales">>, <<"clerk">>}, MCText},
     city : {<<>>, <<"moscow">>, <<"samara">>}]
    \cup [number : {1, 2}, resembles : {{}}, city : {<<>>, <<"samara">>}]

\* V1 stands still and is not looked at while the dialogue goes on.
MCView == IF stage = "published" THEN <<view, bundle, walk>> ELSE vars
=============================================================================
