----------------------------- MODULE MCActivity -----------------------------
(* Activity on a small instance: the buckets of a window watcher and of an afk
   watcher, and a peer that has recorded one event of its own and one of ours. *)
EXTENDS Activity, TLC

Ev(s, e, d) == [s |-> s, e |-> e, d |-> d]
WithId(id, v) == [s |-> v.s, e |-> v.e, d |-> v.d, id |-> id]

MCBucket == {"window", "afk"}
MCDatum == {"x", "y", "afk", "not-afk"}
MCBeat == [b \in MCBucket |-> IF b = "afk" THEN {} ELSE {Ev(0, 0, "x"), Ev(1, 1, "x")}]
MCBatch == [b \in MCBucket |->
    IF b = "afk" THEN {<<Ev(1, 3, "not-afk"), Ev(3, 4, "afk")>>,
                       <<Ev(4, 4, "afk"), Ev(5, 6, "not-afk")>>,
                       <<Ev(0, 2, "not-afk"), Ev(3, 5, "not-afk")>>}
    ELSE {<<Ev(0, 4, "x")>>, <<Ev(3, 4, "y"), Ev(0, 1, "y")>>, <<Ev(4, 6, "x"), Ev(2, 3, "y")>>}]
MCForeign == {Row("window", Ev(0, 1, "x")), Row("window", Ev(6, 7, "y"))}
MCUpload == {[bucket |-> "afk", events |-> <<WithId(None, Ev(5, 6, "not-afk")),
                                             WithId(1, Ev(1, 3, "not-afk"))>>]}
MCRules == <<[path |-> <<"w", "a">>, matches |-> {"x", "y"}],
             [path |-> <<"w">>, matches |-> {"x"}],
             [path |-> <<"w", "b">>, matches |-> {"y"}]>>
=============================================================================
