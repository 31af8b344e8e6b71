------------------------------ MODULE MCRobot ------------------------------
(* Robot under a few configurations, for TLC. *)
EXTENDS Robot

MCPublic == {"gh_news"}
MCGroupChat == {"g1", "g2"}

\* ann and tuling ask different workers; so would the groups g1 and g2.
MCHash == [k \in {"ann", "bob", "NULL", "tuling", "g1", "g2", "gh_news"} |->
              IF k \in {"ann", "g1", "NULL"} THEN 0 ELSE 1]

\* SetLimit's arguments are scene.traffic.
MCConfigInterval == {0, 2, 20000}
MCConfigLimit == {-1, 2, 3, 9}

In(group, who, kind, says) ==
    [chat |-> group, by |-> who, source |-> "long", kind |-> kind, says |-> says]
Friend(who, kind, says) ==
    [chat |-> who, by |-> who, source |-> "short", kind |-> kind, says |-> says]

Config(group, private, mode, push) ==
    [groupOpen |-> group, privateOpen |-> private, chatMode |-> mode, push |-> push]

\* Limits below one, the default, one more and above the maximum; every call
\* opens a window under 0, and 20000 is cut to the maximum.
Limited ==
    [config |-> Config(TRUE, TRUE, 1, FALSE),
     traffic |-> {<<0, 9>>, <<2, -1>>, <<2, 2>>, <<2, 3>>, <<20000, 2>>, <<20000, 9>>},
     incoming |-> {In("g1", "ann", "media", "plain")},
     most |-> 7, ahead |-> 1, early |-> FALSE, clock |-> TRUE]

\* Everybody asks in groups and in private.
Asked ==
    [config |-> Config(TRUE, TRUE, 1, FALSE), traffic |-> {<<0, 2>>, <<20000, 2>>},
     incoming |-> {In("g1", "ann", "text", "plain"), In("g2", "ann", "text", "plain"),
                   Friend("tuling", "text", "plain")},
     most |-> 4, ahead |-> 4, early |-> FALSE, clock |-> FALSE]

\* All kinds of messages, with the push.
Kinds(config) ==
    [config |-> config, traffic |-> {<<0, 2>>},
     incoming |-> {In("g1", "ann", "image", "plain"), In("g1", "bob", "text", "@me"),
                   In("g1", "bob", "text", "@all"), In("g1", "bob", "text", "long"),
                   In("gh_news", "gh_news", "image", "plain"),
                   Friend("tuling", "other", "transfer"), Friend("tuling", "card", "plain"),
                   Friend("g2", "text", "plain"), Friend("tuling", "friendAck", "plain"),
                   Friend("tuling", "share", "transfer"), In("g1", "bob", "sysMsg", "joined")},
     most |-> 3, ahead |-> 3, early |-> TRUE, clock |-> FALSE]

MCScenes == {Limited, Asked, Kinds(Config(TRUE, TRUE, 0, TRUE)),
             Kinds(Config(TRUE, FALSE, 1, FALSE)), Kinds(Config(FALSE, TRUE, 1, TRUE))}
=============================================================================
