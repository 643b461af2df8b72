--------------------------- MODULE MCBrokerTopics ---------------------------
(* Two clients with users of their own and one share name, filters and     *)
(* topics that meet at "a" and "b", rules that split them, and response    *)
(* topics that no other rule allows.                                       *)
EXTENDS BrokerTopics

MCFilters == {<<"a">>, <<"a", "+">>, <<"a", "#">>, <<"#">>, Invalid}
MCNoLocal == {<<"c1", <<"#">>>>, <<"c2", <<"a", "+">>>>}
MCTopics == {<<"a">>, <<"a", "b">>, <<"c", "b">>, <<"$s", "b">>}
MCSystem == {"$s"}
MCResponseTopics == <<<<"r1">>, <<"r2">>>>

MCAccounts ==
    [u1 |-> [method |-> "sha256", salt |-> "salt", digest |-> <<"salt", "secret">>],
     u2 |-> [method |-> "anonymous", salt |-> "", digest |-> ""]]
MCGroups == <<[name |-> "@any", members |-> {}], [name |-> "@g", members |-> {"u1"}]>>
MCCredentials ==
    [c \in Clients |-> IF c = "c1"
        THEN [kind |-> "password", name |-> "u1", password |-> "secret"]
        ELSE [kind |-> "nothing"]]

Nobody == [sub |-> {}, pub |-> {}]
All == [sub |-> {"@any"}, pub |-> {"@any"}]
Entry(topic, allow, deny) == [topic |-> topic, allow |-> allow, deny |-> deny]
MCEntries ==
    <<Entry(<<"+", "b">>, All, Nobody),
      Entry(<<"a">>, All, Nobody),
      Entry(<<"$s", "#">>, All, Nobody),
      Entry(<<"a", "#">>, Nobody, [sub |-> {"u2"}, pub |-> {}]),
      Entry(<<"c", "b">>, Nobody, [sub |-> {}, pub |-> {"@g"}])>>
=============================================================================
