----------------------------- MODULE MCBridge -----------------------------
(* Bridge in small scenes, for TLC. *)
EXTENDS Bridge

CONSTANTS me1, me2
MCAccount == {me1, me2}
MCSymmetry == Permutations(MCAccount)

\* A friend, a friend with a long wxid, a group of two and a group of one.
MCFriend == {"tuling", "long", "g2", "g1"}
MCGroup == {"g2", "g1"}
MCGroupOf == "g2" :> <<"p1", "p2">> @@ "g1" :> <<"p3">>
MCShortened == "long" :> "lon" @@ "sixty" :> "six" @@ "endless" :> "end"

\* What the user types fits, fits the text of a message, or nothing.
MCTyped == {"text", "sixty", "endless"}
MCLengthOf == "sixty" :> 60 @@ "endless" :> 5000

MCContact == {"tuling", "g2"}
MCWorker == {1, 2}
MCWorkerOf == "tuling" :> 1 @@ "g2" :> 2
MCUrl == {"a/x", "b/x", "a/y"}
MCFile == {"x", "y"}
MCFileOf == "a/x" :> "x" @@ "b/x" :> "x" @@ "a/y" :> "y"

\* A command of each kind; the answer to a friend may have a type nobody knows.
MCApiCommand ==
    {<<"SendTextMessage", "g1", "hello">>, <<"SendTextMessage", "g1", "@p3 hello">>,
     <<"SendFileMessage", "tuling", "x">>, <<"SendImageMessage", "tuling", "x">>,
     <<"?", "tuling", "">>,
     <<"SendXmlCard", "tuling", "bob", "Bob">>, <<"DeleteUser", "tuling">>,
     <<"AddWxUser", "bob", "">>, <<"AddGroupMember", "g1", "bob">>,
     <<"DelRoomMember", "g2", "p1">>, <<"SetRoomName", "g1", "name">>,
     <<"ShowChatRoomUser", "g1">>, <<"ShowChatRoomMember", "g1", "p3">>,
     <<"SendTextMessage", "g1", "endless">>, <<"SendTextMessage", "sixty", "hello">>,
     <<"SendFileMessage", "tuling", "endless">>, <<"AddWxUser", "bob", "sixty">>}

Nothing == [k \in {"starts", "exits", "logouts", "codes", "lists", "menu", "dialogs",
                   "buttons", "api", "files", "ticks", "messages"} |-> 0]

Up(list, may) == [up |-> TRUE, rows |-> list, budget |-> may @@ Nothing]
Down(may) == [up |-> FALSE, rows |-> <<>>, budget |-> may @@ Nothing]

MCScenes ==
    { \* the robot starts twice, WeChat comes and goes, the code is asked for
      Down("starts" :> 2 @@ "exits" :> 2 @@ "logouts" :> 1 @@ "codes" :> 2 @@ "lists" :> 1),
      \* friends are listed, rows deleted, the robot and WeChat restart
      Up(<<>>, "starts" :> 1 @@ "exits" :> 1 @@ "lists" :> 3 @@ "menu" :> 1),
      \* the menus of the friend list
      Up(<<"tuling", "g2", "long">>, "menu" :> 2 @@ "lists" :> 1),
      \* member lists: of two groups one after the other, and, with a command
      \* from elsewhere, of one of two or of one twice
      Up(<<"g2", "g1">>, "dialogs" :> 2 @@ "menu" :> 1),
      Up(<<"g2", "g1">>, "dialogs" :> 1 @@ "menu" :> 1 @@ "api" :> 1),
      Up(<<"g2">>, "dialogs" :> 2 @@ "menu" :> 1 @@ "api" :> 1),
      \* the functions page and everything else that commands
      Up(<<"tuling">>, "buttons" :> 2 @@ "api" :> 1 @@ "exits" :> 1),
      \* files
      Up(<<>>, "files" :> 3),
      \* pictures
      Up(<<>>, "messages" :> 4 @@ "ticks" :> 2) }
=============================================================================
