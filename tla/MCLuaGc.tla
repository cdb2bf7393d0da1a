------------------------------ MODULE MCLuaGc -------------------------------
(***************************************************************************)
(* Small pools of objects for the collector, one per interplay: tables     *)
(* only; closures and upvalues of two slots; a coroutine, whose upvalues   *)
(* outlive it; userdata with finalizers and weak tables; strings, alone    *)
(* and in a weak table.                                                    *)
(***************************************************************************)
EXTENDS LuaGc, TLC

Names == <<"s1", "s2", "s3">>
Pool(kinds) == ("main" :> "thread") @@ ("G" :> "table") @@ [o \in {Names[i] : i \in DOMAIN kinds} |->
                   kinds[CHOOSE i \in DOMAIN kinds : Names[i] = o]]
Scenario(kinds, weak, slots) ==
    [kind |-> Pool(kinds), slots |-> slots, mode |-> [o \in DOMAIN Pool(kinds) |-> IF o = "s1" THEN weak ELSE ""]]
MCScenarios ==
    {Scenario(<<"table", "table">>, "", 1), Scenario(<<"closure", "upval">>, "", 2),
     Scenario(<<"thread", "closure", "upval">>, "", 1), Scenario(<<"udata", "udata">>, "", 1),
     Scenario(<<"string", "string", "string">>, "", 1), Scenario(<<"table", "string">>, "kv", 1),
     Scenario(<<"table", "udata">>, "k", 1), Scenario(<<"table", "udata">>, "v", 1)}

FairSpec == Init /\ [][Next]_vars /\ FairStep
=============================================================================
