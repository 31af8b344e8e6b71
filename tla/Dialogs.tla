------------------------------ MODULE Dialogs ------------------------------
(***************************************************************************)
(* Who gives WeChat commands, and how they are carried out.  The user does *)
(* from the menus of the friend list (CFriendList.cpp), the member list    *)
(* (CChatRoomMember.cpp) and the functions page (CFunctions.cpp), with the *)
(* UI thread; HTTP handlers and workers do with threads of their own       *)
(* ("api").  A command is a SendMessage to the helper's window: its thread *)
(* waits until WndProc is through.                                         *)
(*                                                                         *)
(* SendMessage also takes in what others send meanwhile.  So the robot's   *)
(* lists grow while a command is under way, and a helper that lists the    *)
(* members of a group, one SendMessage each, serves the next command in    *)
(* between; that one comes to its end first.                               *)
(*                                                                         *)
(* The questions the menus ask (MB_YESNO) make no difference: MessageBoxA  *)
(* returns IDYES or IDNO, and both are taken for yes.                      *)
(***************************************************************************)
EXTENDS FriendList, HelperCalls

CONSTANTS GroupOf,  \* the members of each group, in WeChat's order
          Other,    \* whom the user adds, or whose card the user sends
          Typed,    \* what the user types
          Account,  \* who may log in
          NoRoom

\* WeChat has nobody twice in a group.
ASSUME GroupAssumption ==
    /\ NoRoom \notin Group
    /\ DOMAIN GroupOf = Group
    /\ \A g \in Group : /\ GroupOf[g] \in Seq(ToSet(GroupOf[g]))
                      /\ IsInjective(GroupOf[g])

\* What is left of a text of more than 20 characters has 20.
ASSUME LengthAssumption ==
    /\ \A text \in DOMAIN LengthOf : LengthOf[text] \in Nat
    /\ \A text \in DOMAIN LengthOf : LengthOf[text] > 20 => text \in DOMAIN Shortened
    /\ \A text \in DOMAIN Shortened : Fits(Shortened[text], 21)

VARIABLES
    calls,      \* of each caller: [ask, frame, why, listing], or NoCall
    listings,   \* helper: [room, rest, by] of each ShowChatRoomUser under way
    wx,         \* what the commands have made of WeChat
    wanted,     \* history: wx, had each been carried out as asked
    excuses,    \* history: why wx may not be what was wanted
    room,       \* of the ChatRoomMember dialog that is open, or NoRoom
    mRows, mIndex,             \* its rows; the static dwIndex
    memberwxid, nSelected,     \* the member and the row clicked last
    marked, mClicked,          \* the row marked; the clicked one, or 0
    listed, mixed, shifted,    \* history: see RowsAreMembers
    misled,
    bAutoChat,
    spilt,       \* robot: a text ran out of its field, over other memory
    account,    \* who is logged in to WeChat
    me          \* robot: tPrivateInfo, NoText before bGetInfoOK

dialogVars == <<calls, listings, wx, wanted, excuses, room, mRows, mIndex,
                memberwxid, nSelected, marked, mClicked, listed, mixed, shifted,
                misled, bAutoChat, spilt, account, me>>
weChatVars == <<wx, wanted, excuses>>
memberVars == <<room, mRows, mIndex, memberwxid, nSelected, marked, mClicked,
                listed, mixed, shifted, misled>>

Caller == {"ui", "api"}
NoCall == <<>>

DialogTypeOK ==
    /\ DOMAIN calls = Caller /\ room \in {NoRoom} \cup Group
    /\ mIndex \in Nat /\ nSelected \in Nat
    /\ marked \in 0 .. Len(mRows) /\ mClicked \in 0 .. Len(mRows)
    /\ {mixed, shifted, misled, bAutoChat, spilt} \subseteq BOOLEAN
    /\ excuses \subseteq {"stale", "cut", "long", "type", "rename", "gone"}
    /\ account \in Account /\ me \in Account \cup {NoText}

\* me aside, which a robot at work has already.  nSelected starts as the first
\* row, though nobody has clicked it.
DialogState ==
    /\ calls = [c \in Caller |-> NoCall] /\ listings = <<>>
    /\ wx = NewWeChat(GroupOf) /\ wanted = NewWeChat(GroupOf) /\ excuses = {}
    /\ room = NoRoom /\ mRows = <<>> /\ mIndex = 0 /\ memberwxid = NoText
    /\ nSelected = 1 /\ marked = 0 /\ mClicked = 0
    /\ listed = <<>> /\ mixed = FALSE /\ shifted = FALSE /\ misled = FALSE
    /\ bAutoChat = FALSE /\ spilt = FALSE
    /\ account \in Account

\* The robot ends, and its threads and dialogs with it.
RobotForgets ==
    /\ calls' = [c \in Caller |-> NoCall] /\ listings' = <<>>
    /\ room' = NoRoom /\ mRows' = <<>> /\ mIndex' = 0 /\ memberwxid' = NoText
    /\ nSelected' = 1 /\ marked' = 0 /\ mClicked' = 0
    /\ listed' = <<>> /\ mixed' = FALSE /\ shifted' = FALSE /\ misled' = FALSE
    /\ bAutoChat' = FALSE /\ spilt' = FALSE /\ me' = NoText
    /\ UNCHANGED account
DialogsGone == RobotForgets /\ UNCHANGED weChatVars

\* A robot whose memory has been written over may end at any time.
Burst == spilt /\ RobotForgets /\ excuses' = excuses \cup {"long"} /\ UNCHANGED <<wx, wanted>>

\* SendMessage fails as soon as the helper's window is gone.
HelperGone ==
    /\ listings' = <<>>
    /\ wx' = [wx EXCEPT !.autoChat = FALSE] /\ wanted' = [wanted EXCEPT !.autoChat = FALSE]
    /\ UNCHANGED <<calls, excuses, memberVars, bAutoChat, spilt, account, me>>
-----------------------------------------------------------------------------
(* Commands on their way.                                                  *)

Idling(c) == calls[c] = NoCall

\* SendMessage to the helper's window.  why tells what may be wrong with it.
Send(c, ask, frame, why) ==
    /\ calls' = [calls EXCEPT ![c] =
           [ask |-> ask, frame |-> frame, listing |-> FALSE,
            why |-> why \cup (IF Spills(frame) THEN {"long"} ELSE {})]]
    /\ spilt' = (spilt \/ Overruns(frame))

\* An HTTP handler, a task or a message handler; without a window the call
\* is given up.
ApiCall(cmd) ==
    /\ Idling("api")
    /\ \E frame \in Api(cmd) :
          Send("api", cmd, frame, {w \in {"type", "rename"} :
              \/ w = "type" /\ cmd[1] = "?"
              \/ w = "rename" /\ cmd[1] = "SetRoomName"})
    /\ UNCHANGED <<listings, weChatVars, memberVars, bAutoChat, account, me, friendVars>>

\* The buttons of the functions page, and the menus of the main window.
Button(cmd) ==
    /\ Idling("ui") /\ room = NoRoom
    /\ Send("ui", cmd, Dialog(cmd), {})
    /\ UNCHANGED <<listings, weChatVars, memberVars, bAutoChat, account, me, friendVars>>

\* OnBnClickedAutoChat, once the friend TuLing has been listed.
AutoChatButton(tuLing) ==
    /\ Idling("ui") /\ room = NoRoom /\ tuLing \in mapFriendList
    /\ Send("ui", <<"AutoChat", ~bAutoChat>>, Dialog(<<"AutoChat", ~bAutoChat>>), {})
    /\ bAutoChat' = ~bAutoChat
    /\ UNCHANGED <<listings, weChatVars, memberVars, account, me, friendVars>>

\* The two menus, of a friend and of a group, for a given wxid.
FriendMenu == {"SendTextMessage", "SendFileMessage", "SendImageMessage",
               "SendXmlCard", "DeleteUser"}
GroupMenu == {"SendTextMessage", "SetWxRoomAnnouncement", "AddGroupMember",
              "SetRoomName", "QuitChatRoom"}
MenuOf(id) == IF id \in Group THEN GroupMenu ELSE FriendMenu

Command(kind, id, text) ==
    CASE kind \in {"DeleteUser", "QuitChatRoom"} -> <<kind, id>>
      [] kind = "SendXmlCard" -> <<kind, id, Other, text>>
      [] kind = "AddGroupMember" -> <<kind, id, Other>>
      [] OTHER -> <<kind, id, text>>

\* Why a menu may not be about the row that is marked.
Doubt(fresh, id) ==
    (IF fresh THEN {} ELSE {"stale"}) \cup (IF id = Cut(id) THEN {} ELSE {"cut"})

\* The user means the marked row; the menu, and the dialog it opens, work on
\* wxid.  The list takes no clicks while a dialog is open.
MenuCommand(kind, text) ==
    /\ Idling("ui") /\ room = NoRoom /\ selected # 0 /\ kind \in MenuOf(wxid)
    /\ ~(kind = "DeleteUser" /\ wxid = "filehelper")
    /\ kind \in {"SendFileMessage", "SendImageMessage"} => Found(text)
    /\ LET row == rows[selected]
       IN  Send("ui", Command(kind, row, text), Dialog(Command(kind, wxid, text)),
                Doubt(clicked = selected, row))
    /\ UNCHANGED <<listings, weChatVars, memberVars, bAutoChat, account, me, friendVars>>
-----------------------------------------------------------------------------
(* The member list.                                                        *)

\* OnShowChatRoomMember, OnInitDialog: the dialog is there, with its title,
\* before it asks for the members.  dwIndex is as the last one left it.
OpenMembers ==
    /\ Idling("ui") /\ room = NoRoom /\ selected # 0 /\ wxid \in Group
    /\ room' = wxid /\ mRows' = <<>> /\ marked' = 0 /\ mClicked' = 0
    /\ mixed' = shifted /\ misled' = FALSE /\ listed' = <<>>
    /\ LET cmd == <<"ShowChatRoomUser", wxid>> IN Send("ui", cmd, Dialog(cmd), {})
    /\ UNCHANGED <<listings, weChatVars, mIndex, memberwxid, nSelected, shifted,
                   bAutoChat, account, me, friendVars>>

CloseMembers ==
    /\ Idling("ui") /\ room # NoRoom
    /\ room' = NoRoom /\ mRows' = <<>> /\ marked' = 0 /\ mClicked' = 0
    /\ UNCHANGED <<calls, listings, weChatVars, mIndex, memberwxid, nSelected, listed,
                   mixed, shifted, misled, bAutoChat, spilt, account, me, friendVars>>

\* CChatRoomMember::OnCopyData with a member, own when its dialog asked: rows
\* at or below the index move down, and the marks with them, not nSelected.
ShowMember(who, own) ==
    IF room = NoRoom THEN UNCHANGED memberVars
    ELSE LET Down(r) == IF r > mIndex THEN r + 1 ELSE r
         IN  /\ mRows' = Inserted(mRows, mIndex, who) /\ mIndex' = mIndex + 1
             /\ marked' = Down(marked) /\ mClicked' = Down(mClicked)
             /\ mixed' = (mixed \/ ~own) /\ shifted' = (shifted \/ ~own)
             /\ UNCHANGED <<room, memberwxid, nSelected, listed, misled>>

\* ... and with WM_ShowChatRoomMembersDone, which may forget the index.
DoneWithoutReset(own) ==
    IF room = NoRoom THEN UNCHANGED memberVars
    ELSE /\ shifted' = FALSE /\ mixed' = (mixed \/ ~own)
         /\ UNCHANGED <<room, mRows, mIndex, memberwxid, nSelected, marked, mClicked,
                        listed, misled>>

MembersDone(own) ==
    IF room = NoRoom THEN UNCHANGED memberVars
    ELSE /\ mIndex' = 0 /\ shifted' = FALSE /\ mixed' = (mixed \/ ~own)
         /\ UNCHANGED <<room, mRows, memberwxid, nSelected, marked, mClicked, listed,
                        misled>>

\* OnClickList1 and OnRclickList1.
ClickMember(row) ==
    /\ Idling("ui") /\ row \in 1 .. Len(mRows)
    /\ memberwxid' = Cut(mRows[row]) /\ nSelected' = row
    /\ marked' = row /\ mClicked' = row
    /\ UNCHANGED <<calls, listings, weChatVars, room, mRows, mIndex, listed, mixed,
                   shifted, misled, bAutoChat, spilt, account, me, friendVars>>

RclickMember(row) ==
    /\ Idling("ui") /\ row \in 1 .. Len(mRows)
    /\ marked' = row
    /\ UNCHANGED <<calls, listings, weChatVars, room, mRows, mIndex, memberwxid,
                   nSelected, mClicked, listed, mixed, shifted, misled, bAutoChat,
                   spilt, account, me, friendVars>>

\* OnDelRoomMember, OnSendChatRoomAt.
MemberCommand(kind, text) ==
    /\ Idling("ui") /\ room # NoRoom /\ marked # 0
    /\ LET Cmd(id) == IF kind = "DelRoomMember" THEN <<kind, room, id>>
                      ELSE <<kind, room, id, id, text>>
           doubt == Doubt(mClicked = marked, mRows[marked])
       IN  /\ Send("ui", Cmd(mRows[marked]), Dialog(Cmd(memberwxid)), doubt)
           /\ misled' = (misled \/ (kind = "DelRoomMember" /\ doubt # {}))
    /\ UNCHANGED <<listings, weChatVars, room, mRows, mIndex, memberwxid, nSelected,
                   marked, mClicked, listed, mixed, shifted, bAutoChat, account, me,
                   friendVars>>

\* DeleteItem(nSelected), whatever row that is by now; left is who should be.
DeleteMember(left) ==
    LET Up(r) == IF r = nSelected THEN 0 ELSE IF r > nSelected THEN r - 1 ELSE r
    IN  /\ IF nSelected \in 1 .. Len(mRows)
           THEN /\ mRows' = RemoveAt(mRows, nSelected)
                /\ marked' = Up(marked) /\ mClicked' = Up(mClicked)
           ELSE UNCHANGED <<mRows, marked, mClicked>>
        /\ listed' = left
        /\ UNCHANGED <<room, mIndex, memberwxid, nSelected, mixed, shifted, misled>>
-----------------------------------------------------------------------------
(* The helper's window.                                                    *)

\* What the caller does when its SendMessage has returned: the menus delete
\* a row, however the command has ended.
Return(c) ==
    LET code == calls[c].frame.code
    IN  /\ calls' = [calls EXCEPT ![c] = NoCall]
        /\ IF c = "ui" /\ code \in {"WM_DeleteUser", "WM_QuitChatRoom"}
           THEN /\ DeleteRow
                /\ UNCHANGED <<helperFriendVars, told, mapFriendList, dwIndex, wxid>>
           ELSE UNCHANGED friendVars

\* bGetInfoOK the wrong way round.
KeepWhenKnown(answer) == me' = IF me # NoText THEN answer ELSE me

\* CInformation and CMain keep the first answer to GetInformation.
KeepTheFirst(answer) == me' = IF me = NoText THEN answer ELSE me

\* CRoomAnnouncement gives wcscpy_s the size of its fields: the robot ends
\* before it sends.
Unsent(c) ==
    /\ c = "ui" /\ calls[c].frame.code = "WM_SetRoomAnnouncement"
    /\ "long" \in calls[c].why

\* WndProc has the frame; did is the command it reads.
Serve(c, main) ==
    /\ ~Idling(c) /\ ~calls[c].listing /\ ~Unsent(c)
    /\ LET did == WndProc(calls[c].frame)
       IN  /\ wx' = Do(wx, did, userInfoList)
           /\ wanted' = Do(wanted, calls[c].ask, userInfoList)
           /\ excuses' = excuses \cup calls[c].why
           /\ IF did[1] = "GetInformation" /\ main THEN KeepTheFirst(account)
              ELSE UNCHANGED me
           /\ IF did[1] = "ShowChatRoomUser"
              THEN /\ listings' = Append(listings,
                         [room |-> did[2], by |-> c,
                          rest |-> IF did[2] \in Group THEN wx.members[did[2]] ELSE <<>>])
                   /\ calls' = [calls EXCEPT ![c].listing = TRUE]
                   /\ listed' = IF c = "ui" THEN wx.members[room] ELSE listed
                   /\ UNCHANGED <<room, mRows, mIndex, memberwxid, nSelected, marked,
                                  mClicked, mixed, shifted, misled, friendVars>>
              ELSE /\ Return(c) /\ UNCHANGED listings
                   /\ CASE did[1] = "ShowChatRoomMember" -> ShowMember(did[3], FALSE)
                        [] c = "ui" /\ did[1] = "DelRoomMember" ->
                              DeleteMember(RemoveFirst(listed, did[3]))
                        [] OTHER -> UNCHANGED memberVars
    /\ UNCHANGED <<bAutoChat, spilt, account>>

\* Own: the listing an open dialog has asked for.
Own(l) == l.by = "ui"

\* GetUserInfoByWxid, for the next member of the listing called last.
ListMember ==
    /\ listings # <<>> /\ Last(listings).rest # <<>>
    /\ LET l == Last(listings)
       IN  /\ ShowMember(Head(l.rest), Own(l))
           /\ listings' = Front(listings) \o <<[l EXCEPT !.rest = Tail(l.rest)]>>
    /\ UNCHANGED <<calls, weChatVars, bAutoChat, spilt, account, me, friendVars>>

\* The end of ShowChatRoomUser.
ListingDone ==
    /\ listings # <<>> /\ Last(listings).rest = <<>>
    /\ MembersDone(Own(Last(listings)))
    /\ Return(Last(listings).by)
    /\ listings' = Front(listings)
    /\ UNCHANGED <<weChatVars, bAutoChat, spilt, account, me>>

\* WeChat has closed under a call: SendMessage returns 0, and nobody looks.
Abandoned(c) ==
    /\ ~Idling(c) /\ ~Unsent(c)
    /\ Return(c)
    /\ wanted' = Do(wanted, calls[c].ask, userInfoList)
    /\ excuses' = excuses \cup {"gone"} \cup calls[c].why
    /\ IF c = "ui" /\ calls[c].frame.code = "WM_DelRoomMember" THEN DeleteMember(listed)
       ELSE UNCHANGED memberVars
    /\ UNCHANGED <<listings, wx, bAutoChat, spilt, account, me>>
-----------------------------------------------------------------------------
\* WeChat is as the commands, each carried out as it was asked for, would
\* have left it: whatever two programs with structures of their own make of a
\* frame, the right function gets the right arguments.  There are six
\* excuses: a menu used on a row that was not the one clicked last, a wxid
\* cut to 20 characters, a text longer than its field, an answer of a type
\* SendMsg does not know, a group renamed through HTTP, a WeChat that closed.
CommandDone == excuses = {} => wx = wanted

\* The dialog shows the members of its group, each once and in order, when
\* its listing is done, and then those WeChat was not told to delete, however
\* many dialogs there have been before.  Not so when members of another
\* listing or a single look-up were posted to it, or to the dialog before it
\* after its last Done; when a member was deleted in a row that was not the
\* one clicked last, or with a wxid cut to 20 characters; or when WeChat has
\* closed.
RowsAreMembers ==
    room # NoRoom /\ Idling("ui") /\ ~mixed /\ ~misled /\ "gone" \notin excuses =>
        mRows = listed
=============================================================================
