---------------------------- MODULE MCHttpServer ----------------------------
(* HttpServer with two clients, two descriptors and one group, for TLC. *)
EXTENDS HttpServer, TLC

CONSTANTS c1, c2, g1

Json(fields) == [json |-> TRUE, has |-> fields]
NotJson == [json |-> FALSE, has |-> <<>>]
Card(content) == [to |-> "room", sessionType |-> "group", msgType |-> "card",
                  msgContent |-> content]
Ask(url, body, pieces, extra) ==
    [url |-> url, body |-> body, pieces |-> pieces, extra |-> extra]

\* An answer to a request that comes in two pieces, the members of a group,
\* a handler without an answer and an url without a handler.
SendCard == Ask("/msg/sendMsg", Json(Card("contact")), 2, 0)
Members == Ask("/group/memberlist", Json([wxGroupId |-> g1]), 1, 0)
MembersAndMore == [Members EXCEPT !.extra = 1]
Silent == Ask("/msg/sendMsg", Json(Card("room")), 1, 0)
Icon == Ask("/favicon.ico", NotJson, 1, 0)

MCRequest == {SendCard, Members, MembersAndMore, Silent, Icon}

\* Two clients ask for members; a handler without an answer runs beside an url
\* without a handler; a request in two pieces comes alone, and one for members
\* with a stray piece behind it.
MCAsking == {(c1 :> Members) @@ (c2 :> Members),
             (c1 :> Silent) @@ (c2 :> Icon),
             c1 :> SendCard,
             c1 :> MembersAndMore}
=============================================================================
