------------------------------ MODULE Commands ------------------------------
(***************************************************************************)
(* The commands the robot has WeChat carry out: what CMsgManager and the   *)
(* dialogs put into a WM_COPYDATA message, and what the helper's WndProc   *)
(* reads out of it.  A command is a tuple, the helper's function and its   *)
(* arguments; a frame is the code with the values at their offsets.  Both  *)
(* sides lay frames out by hand, with structures of their own and fields   *)
(* of fixed lengths.                                                       *)
(***************************************************************************)
EXTENDS Naturals, Sequences, FiniteSets, TLC

CONSTANTS Junk,     \* what a wide string in memory nobody has set may hold
          AtText,   \* an answer with the nickname in front: "@nickname answer"
          LengthOf, \* the characters of the long texts; others fit everywhere
          Group     \* the friends whose wxid says chatroom

\* message.h, the same in both programs.
Code == {"WM_Login", "WM_ShowQrPicture", "WM_Logout", "WM_GetFriendList",
         "WM_ShowChatRecord", "WM_SendTextMessage", "WM_SendFileMessage",
         "WM_GetInformation", "WM_SendImageMessage", "WM_SetRoomAnnouncement",
         "WM_DeleteUser", "WM_QuitChatRoom", "WM_AddGroupMember",
         "WM_SendXmlCard", "WM_ShowChatRoomMembers", "WM_ShowChatRoomMembersDone",
         "WM_DecryptDatabase", "WM_AddUser", "WM_SetRoomName", "WM_AutoChat",
         "WM_CancleAutoChat", "WM_AlreadyLogin", "WM_SendAtMsg",
         "WM_DelRoomMember", "WM_OpenUrl", "WM_SaveFriendList",
         "WM_ShowChatRoomMember", "WM_GetChatRoomMembers"}

\* wcscpy_s with the length of the source as the size of the destination: a
\* text too long for its field runs on into what follows.  Who reads the field
\* gets more than the text, or its beginning.
Fits(text, size) == text \in DOMAIN LengthOf => LengthOf[text] < size
Field(text, size) == IF Fits(text, size) THEN text ELSE Junk

MAX_MSG_LEN == 4000
MAX_PATH == 260

\* The layouts: nothing, one string, one of 40 and a text behind it, and
\* strings of 50.  A text may follow the three strings of SendAtMsg.
Bare(code) == [code |-> code, at |-> <<>>, rest |-> Junk]
One(code, a) == [code |-> code, at |-> [o \in {0} |-> a], rest |-> Junk]
Forty(code, a, text) ==
    [code |-> code, rest |-> Junk,
     at |-> [o \in {0, 40} |-> IF o = 0 THEN Field(a, 40) ELSE text]]
Fifty(code, a, b) ==
    [code |-> code, rest |-> Junk,
     at |-> [o \in {0, 50} |-> Field(IF o = 0 THEN a ELSE b, 50)]]
Fifties(code, a, b, c) ==
    [code |-> code, rest |-> Junk,
     at |-> [o \in {0, 50, 100} |->
                 Field(CASE o = 0 -> a [] o = 50 -> b [] o = 100 -> c, 50)]]
AtFrame(code, a, b, c, text) ==
    [code |-> code, rest |-> "",
     at |-> [o \in {0, 50, 100, 150} |->
                 CASE o = 0 -> Field(a, 50) [] o = 50 -> Field(b, 50)
                   [] o = 100 -> Field(c, 50) [] o = 150 -> Field(text, 100)]]

\* A frame with a text that ran out of its field; urls[50] of COpenUrl is on
\* the stack, and all of it is sent.
Spills(f) == \E o \in DOMAIN f.at : f.at[o] = Junk
Overruns(f) == Spills(f) \/ (f.code = "WM_OpenUrl" /\ ~Fits(f.at[0], 50))

\* The wide string at an offset of a frame.
Read(f, offset) == IF offset \in DOMAIN f.at THEN f.at[offset] ELSE f.rest
-----------------------------------------------------------------------------
(* CMsgManager: the frames a command may go out as.                        *)

\* GetFileAttributes finds no file by a longer name.
Found(path) == Fits(path, MAX_PATH)

\* SendMsg: with a type it does not know, dwData is never set.  The frame is as
\* long as the text needs.
SendMsg(cmd) ==
    LET f == Forty("", cmd[2], cmd[3])
    IN  CASE cmd[1] = "SendTextMessage" -> {[f EXCEPT !.code = "WM_SendTextMessage"]}
          [] cmd[1] = "SendFileMessage" ->
                IF Found(cmd[3]) THEN {[f EXCEPT !.code = "WM_SendFileMessage"]} ELSE {}
          [] cmd[1] = "SendImageMessage" ->
                IF Found(cmd[3]) THEN {[f EXCEPT !.code = "WM_SendImageMessage"]} ELSE {}
          [] cmd[1] = "SetWxRoomAnnouncement" ->
                {[f EXCEPT !.code = "WM_SetRoomAnnouncement"]}
          [] OTHER -> {[f EXCEPT !.code = c] : c \in Code}

\* SendAtMsg: since the frame for WM_SendAtMsg was given up, plain text.
SendAtMsg(cmd) == {Forty("WM_SendTextMessage", cmd[2], cmd[3])}

SendCard(cmd) == {Fifties("WM_SendXmlCard", cmd[2], cmd[3], cmd[4])}

\* SendFriendDelMsg, SendFriendAddMsg: without a word to the new friend.
SendFriendDelMsg(cmd) == {One("WM_DeleteUser", cmd[2])}
SendFriendAddMsg(cmd) == {Fifty("WM_AddUser", cmd[2], cmd[3])}

\* The two swapped members of SendGroupMemberOperMsg.
SwappedMemberOper(cmd) ==
    {Fifty(IF cmd[1] = "AddGroupMember" THEN "WM_AddGroupMember"
           ELSE "WM_DelRoomMember", cmd[3], cmd[2])}

SendGroupMemberOperMsg(cmd) ==
    {Fifty(IF cmd[1] = "AddGroupMember" THEN "WM_AddGroupMember"
           ELSE "WM_DelRoomMember", cmd[2], cmd[3])}

\* SendFixGroupNameMsg: the layout of a name under the code of an announcement.
SendFixGroupNameMsg(cmd) == {Fifty("WM_SetRoomAnnouncement", cmd[2], cmd[3])}

SendGetGroupMemberListMsg(cmd) == {One("WM_GetChatRoomMembers", cmd[2])}
GetPrivateInfo(cmd) == {Bare("WM_GetInformation")}

\* CNickNameTaskMgr::_GetGroupMemberInfo.
GetGroupMemberInfo(cmd) == {Fifty("WM_ShowChatRoomMember", cmd[2], cmd[3])}

\* What the HTTP handlers, the tasks and the message handlers call.
Api(cmd) ==
    CASE cmd[1] \in {"SendTextMessage", "SendFileMessage", "SendImageMessage", "?"}
            -> IF cmd[3] = AtText THEN SendAtMsg(cmd) ELSE SendMsg(cmd)
      [] cmd[1] = "SendXmlCard" -> SendCard(cmd)
      [] cmd[1] = "DeleteUser" -> SendFriendDelMsg(cmd)
      [] cmd[1] = "AddWxUser" -> SendFriendAddMsg(cmd)
      [] cmd[1] \in {"AddGroupMember", "DelRoomMember"} -> SendGroupMemberOperMsg(cmd)
      [] cmd[1] = "SetRoomName" -> SendFixGroupNameMsg(cmd)
      [] cmd[1] = "ShowChatRoomUser" -> SendGetGroupMemberListMsg(cmd)
      [] cmd[1] = "ShowChatRoomMember" -> GetGroupMemberInfo(cmd)
      [] cmd[1] = "GetInformation" -> GetPrivateInfo(cmd)
-----------------------------------------------------------------------------
(* The dialogs: one frame each.                                            *)

Message(cmd) ==        \* CSendMsg, CSendRoomMsg
    Forty(CASE cmd[1] = "SendTextMessage" -> "WM_SendTextMessage"
            [] cmd[1] = "SendFileMessage" -> "WM_SendFileMessage"
            [] cmd[1] = "SendImageMessage" -> "WM_SendImageMessage", cmd[2],
          Field(cmd[3], IF cmd[2] \in Group THEN MAX_PATH ELSE MAX_MSG_LEN))
Announcement(cmd) == Forty("WM_SetRoomAnnouncement", cmd[2], Field(cmd[3], MAX_PATH))
AddUser(cmd) == Fifty("WM_AddUser", cmd[2], cmd[3])
RoomName(cmd) == Fifty("WM_SetRoomName", cmd[2], cmd[3])
RoomMember(cmd) == Fifty("WM_AddGroupMember", cmd[2], cmd[3])
DelMember(cmd) == Fifty("WM_DelRoomMember", cmd[2], cmd[3])
RoomAt(cmd) == AtFrame("WM_SendAtMsg", cmd[2], cmd[3], cmd[4], cmd[5])
XmlCard(cmd) == Fifties("WM_SendXmlCard", cmd[2], cmd[3], cmd[4])
OpenPage(cmd) == One("WM_OpenUrl", cmd[2])
OfFriend(cmd) == One(IF cmd[1] = "DeleteUser" THEN "WM_DeleteUser"
                     ELSE "WM_QuitChatRoom", cmd[2])
Members(cmd) == One("WM_ShowChatRoomMembers", cmd[2])
AutoChat(cmd) == Bare(IF cmd[2] THEN "WM_AutoChat" ELSE "WM_CancleAutoChat")
NoArguments(cmd) ==    \* CInformation, CMain
    Bare(CASE cmd[1] = "GetInformation" -> "WM_GetInformation"
           [] cmd[1] = "LogoutWeChat" -> "WM_Logout"
           [] cmd[1] = "SaveToTxtFie" -> "WM_SaveFriendList")

Dialog(cmd) ==
    CASE cmd[1] \in {"SendTextMessage", "SendFileMessage", "SendImageMessage"}
            -> Message(cmd)
      [] cmd[1] = "SetWxRoomAnnouncement" -> Announcement(cmd)
      [] cmd[1] = "AddWxUser" -> AddUser(cmd)
      [] cmd[1] = "SetRoomName" -> RoomName(cmd)
      [] cmd[1] = "AddGroupMember" -> RoomMember(cmd)
      [] cmd[1] = "DelRoomMember" -> DelMember(cmd)
      [] cmd[1] = "SendRoomAtMsg" -> RoomAt(cmd)
      [] cmd[1] = "SendXmlCard" -> XmlCard(cmd)
      [] cmd[1] = "OpenUrl" -> OpenPage(cmd)
      [] cmd[1] \in {"DeleteUser", "QuitChatRoom"} -> OfFriend(cmd)
      [] cmd[1] = "ShowChatRoomUser" -> Members(cmd)
      [] cmd[1] = "AutoChat" -> AutoChat(cmd)
      [] OTHER -> NoArguments(cmd)
-----------------------------------------------------------------------------
(* WndProc: what the helper does with a frame, as the command it carries   *)
(* out; <<"nothing">> for the codes it has no case for.                    *)

\* The cases up to WM_AddGroupMember ...
FirstCases(f) ==
    LET to == Read(f, 0)
        text == Read(f, 40)
    IN  CASE f.code = "WM_ShowQrPicture" -> <<"ShowQrPicture">>
          [] f.code = "WM_Logout" -> <<"LogoutWeChat">>
          [] f.code = "WM_SendTextMessage" -> <<"SendTextMessage", to, text>>
          [] f.code = "WM_SendFileMessage" -> <<"SendFileMessage", to, text>>
          [] f.code = "WM_GetInformation" -> <<"GetInformation">>
          [] f.code = "WM_SendImageMessage" -> <<"SendImageMessage", to, text>>
          [] f.code = "WM_SetRoomAnnouncement" -> <<"SetWxRoomAnnouncement", to, text>>
          [] f.code = "WM_DeleteUser" -> <<"DeleteUser", to>>
          [] f.code = "WM_QuitChatRoom" -> <<"QuitChatRoom", to>>
          [] f.code = "WM_AddGroupMember" -> <<"AddGroupMember", to, Read(f, 50)>>
          [] OTHER -> <<"nothing">>

\* ... and those after it.
LastCases(f) ==
    LET one == Read(f, 0)
        two == Read(f, 50)
    IN  CASE f.code = "WM_SendXmlCard" -> <<"SendXmlCard", one, two, Read(f, 100)>>
          [] f.code = "WM_ShowChatRoomMember" -> <<"ShowChatRoomMember", one, two>>
          [] f.code \in {"WM_ShowChatRoomMembers", "WM_GetChatRoomMembers"} ->
                <<"ShowChatRoomUser", one>>
          [] f.code = "WM_AddUser" -> <<"AddWxUser", one, two>>
          [] f.code = "WM_SetRoomName" -> <<"SetRoomName", one, two>>
          [] f.code = "WM_AutoChat" -> <<"AutoChat", TRUE>>
          [] f.code = "WM_CancleAutoChat" -> <<"AutoChat", FALSE>>
          [] f.code = "WM_SendAtMsg" ->
                <<"SendRoomAtMsg", one, two, Read(f, 100), Read(f, 150)>>
          [] f.code = "WM_DelRoomMember" -> <<"DelRoomMember", one, two>>
          [] f.code = "WM_OpenUrl" -> <<"OpenUrl", one>>
          [] f.code = "WM_SaveFriendList" -> <<"SaveToTxtFie">>
          [] OTHER -> <<"nothing">>

WndProc(f) == IF FirstCases(f) # <<"nothing">> THEN FirstCases(f) ELSE LastCases(f)
=============================================================================
