---------------------------- MODULE HelperCalls ----------------------------
(***************************************************************************)
(* What the helper's functions have WeChat do: ChatRoomOperate.cpp, the    *)
(* sending half of FriendList.cpp, and Function.cpp.  Each fills buffers   *)
(* with its arguments and calls into WeChat at a fixed offset; here each   *)
(* is the change it makes to wx, what WeChat then holds:                   *)
(*   chats    [to, kind, what, at] of the messages sent                    *)
(*   gone     friends deleted, and groups left                             *)
(*   asked    [who, words] of the friend requests                          *)
(*   members  the members of each group, in WeChat's order                 *)
(*   named    [room, text] of the groups renamed                           *)
(*   posted   [room, text] of the announcements                            *)
(*   pages    the pages opened in WeChat's browser                         *)
(*   txt      who is in the file of the friend list                        *)
(*   autoChat the helper's g_AutoChat                                      *)
(* The calls are external: a group or member WeChat does not know is left  *)
(* alone.                                                                  *)
(***************************************************************************)
EXTENDS Commands, SequencesExt

NewWeChat(members) ==
    [chats |-> {}, gone |-> {}, asked |-> {}, members |-> members, named |-> {},
     posted |-> {}, pages |-> {}, txt |-> {}, autoChat |-> FALSE]

Sent(wx, to, kind, what, at) ==
    [wx EXCEPT !.chats = @ \cup {[to |-> to, kind |-> kind, what |-> what, at |-> at]}]

Room(wx, room, list) ==
    IF room \in DOMAIN wx.members THEN [wx EXCEPT !.members[room] = list] ELSE wx

SendTextMessage(wx, wxid, msg) == Sent(wx, wxid, "text", <<msg>>, {})
SendFileMessage(wx, wxid, path) == Sent(wx, wxid, "file", <<path>>, {})

\* Five bytes of WeChat are patched around the call, in the one thread that
\* calls, and put back.
SendImageMessage(wx, wxid, path) == Sent(wx, wxid, "image", <<path>>, {})

\* swprintf_s of the card's xml, with the wxid as alias too.
SendXmlCard(wx, RecverWxid, SendWxid, NickName) ==
    Sent(wx, RecverWxid, "card", <<SendWxid, NickName, SendWxid>>, {})

\* The text goes out as "@nickname content".
SendRoomAtMsg(wx, chatroomid, memberwxid, membernickname, content) ==
    Sent(wx, chatroomid, "text", <<membernickname, content>>, {memberwxid})

DeleteUser(wx, wxid) == [wx EXCEPT !.gone = @ \cup {wxid}]
AddWxUser(wx, wxid, msg) ==
    [wx EXCEPT !.asked = @ \cup {[who |-> wxid, words |-> msg]}]
OpenUrl(wx, url) == [wx EXCEPT !.pages = @ \cup {url}]

\* trunc: the file holds the list as it is now.
SaveToTxtFie(wx, list) == [wx EXCEPT !.txt = list]

SetWxRoomAnnouncement(wx, chatroomwxid, text) ==
    [wx EXCEPT !.posted = @ \cup {[room |-> chatroomwxid, text |-> text]}]
SetRoomName(wx, roomwxid, name) ==
    [wx EXCEPT !.named = @ \cup {[room |-> roomwxid, text |-> name]}]
QuitChatRoom(wx, chatroomwxid) == [wx EXCEPT !.gone = @ \cup {chatroomwxid}]

AddGroupMember(wx, chatroomwxid, wxid) ==
    IF chatroomwxid \notin DOMAIN wx.members THEN wx
    ELSE LET list == wx.members[chatroomwxid]
         IN  Room(wx, chatroomwxid,
                  IF \E i \in DOMAIN list : list[i] = wxid THEN list
                  ELSE Append(list, wxid))

DelRoomMember(wx, roomid, memberwxid) ==
    IF roomid \notin DOMAIN wx.members THEN wx
    ELSE Room(wx, roomid, RemoveFirst(wx.members[roomid], memberwxid))

\* A command carried out; those that only answer the robot leave WeChat alone.
Do(wx, cmd, list) ==
    CASE cmd[1] = "SendTextMessage" -> SendTextMessage(wx, cmd[2], cmd[3])
      [] cmd[1] = "SendFileMessage" -> SendFileMessage(wx, cmd[2], cmd[3])
      [] cmd[1] = "SendImageMessage" -> SendImageMessage(wx, cmd[2], cmd[3])
      [] cmd[1] = "SendXmlCard" -> SendXmlCard(wx, cmd[2], cmd[3], cmd[4])
      [] cmd[1] = "SendRoomAtMsg" ->
            SendRoomAtMsg(wx, cmd[2], cmd[3], cmd[4], cmd[5])
      [] cmd[1] = "DeleteUser" -> DeleteUser(wx, cmd[2])
      [] cmd[1] = "AddWxUser" -> AddWxUser(wx, cmd[2], cmd[3])
      [] cmd[1] = "OpenUrl" -> OpenUrl(wx, cmd[2])
      [] cmd[1] = "SaveToTxtFie" -> SaveToTxtFie(wx, list)
      [] cmd[1] = "SetWxRoomAnnouncement" ->
            SetWxRoomAnnouncement(wx, cmd[2], cmd[3])
      [] cmd[1] = "SetRoomName" -> SetRoomName(wx, cmd[2], cmd[3])
      [] cmd[1] = "QuitChatRoom" -> QuitChatRoom(wx, cmd[2])
      [] cmd[1] = "AddGroupMember" -> AddGroupMember(wx, cmd[2], cmd[3])
      [] cmd[1] = "DelRoomMember" -> DelRoomMember(wx, cmd[2], cmd[3])
      [] cmd[1] = "AutoChat" -> [wx EXCEPT !.autoChat = cmd[2]]
      [] OTHER -> wx
=============================================================================
