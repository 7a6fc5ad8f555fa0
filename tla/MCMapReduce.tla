---------------------------- MODULE MCMapReduce ----------------------------
EXTENDS MapReduce

MCItem == {"x", "y", "z"}

(* x emits one key twice, y shares a key with x, z has a key of its own.   *)
MCMap(x) ==
  CASE x = "x" -> <<<<"a", 1>>, <<"b", 2>>, <<"a", 1>>>>
    [] x = "y" -> <<<<"b", 1>>>>
    [] x = "z" -> <<<<"c", 2>>>>

MCInputs == {<<>>, <<"z">>, <<"x", "y", "z">>}

(* Every reducer emits the same key "a" beside its own.                    *)
MCReduce(k, vs) == <<<<"a", Len(vs)>>, <<k, vs[1]>>>>
=============================================================================
