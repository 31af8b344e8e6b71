------------------------------- MODULE Bridge -------------------------------
(***************************************************************************)
(* The robot and WeChat together: Startup says which windows there are;    *)
(* the friend list, the dialogs and commands, the downloads and the        *)
(* pictures work only while theirs are, and what each program remembers    *)
(* ends with it.                                                           *)
(*                                                                         *)
(* A behaviour plays in one of the Scenes: the state it starts in and how  *)
(* often each thing may still happen.                                      *)
(***************************************************************************)
EXTENDS Startup, Dialogs, Downloads, PictureQueue

CONSTANTS Scenes,     \* [up, rows, budget]: is the robot at work, with which rows
          ApiCommand, \* what handlers and workers command
          TuLing      \* the friend who answers when the robot chats by itself

\* A robot at work has a row for each friend.
ASSUME SceneAssumption ==
    \A s \in Scenes : s.rows \in Seq(Friend) /\ IsInjective(s.rows)

\* Each command has the arguments its function takes; an answer with a nickname in
\* front is a text, or of a type nobody knows.
ASSUME CommandAssumption ==
    \A cmd \in ApiCommand :
        \/ /\ cmd[1] \in {"SendTextMessage", "?"}
           /\ Len(cmd) = 3 /\ cmd = <<cmd[1], cmd[2], cmd[3]>>
        \/ /\ cmd[1] \in {"SendFileMessage", "SendImageMessage"}
           /\ Len(cmd) = 3 /\ cmd = <<cmd[1], cmd[2], cmd[3]>> /\ cmd[3] # AtText
        \/ /\ cmd[1] \in {"AddWxUser", "AddGroupMember", "DelRoomMember", "SetRoomName",
                         "ShowChatRoomMember"}
           /\ Len(cmd) = 3 /\ cmd = <<cmd[1], cmd[2], cmd[3]>>
        \/ /\ cmd[1] \in {"DeleteUser", "ShowChatRoomUser"}
           /\ Len(cmd) = 2 /\ cmd = <<cmd[1], cmd[2]>>
        \/ /\ cmd[1] = "SendXmlCard"
           /\ Len(cmd) = 4 /\ cmd = <<cmd[1], cmd[2], cmd[3], cmd[4]>>
        \/ cmd = <<"GetInformation">>

VARIABLES
    budget,   \* bound: how often each of its fields may still happen
    late,     \* history: the main window opened before the helper's
    relogged  \* history: somebody logged in while the main window was open

bridgeVars == <<budget, late, relogged, startupVars, friendVars, dialogVars,
                downloadVars, vars>>
records == <<late, relogged>>

Spend(k) == budget[k] > 0 /\ budget' = [budget EXCEPT ![k] = @ - 1]

\* A robot that has come all the way: logged in, told of the friends in rows,
\* and of the account.
AtWork(list) ==
    /\ wechat = "loggedIn" /\ version = TRUE /\ helper = "window" /\ watcher = "calling"
    /\ robot = "main" /\ own = FALSE /\ qr = Unhooked /\ starts = 1 /\ alone = {}
    /\ userInfoList = ToSet(list) /\ resending = {} /\ sending = {}
    /\ lost = {} /\ mapFriendList = ToSet(list) /\ told = ToSet(list) \X {1}
    /\ rows = list /\ dwIndex = Len(list)
    /\ selected = 0 /\ wxid = NoText /\ clicked = 0 /\ deleted = {}
    /\ DialogState /\ me = account

BridgeInit ==
    /\ \E s \in Scenes :
          /\ budget = s.budget
          /\ IF s.up THEN AtWork(s.rows)
             ELSE StartupInit /\ FriendInit /\ DialogState /\ me = NoText
    /\ DownloadInit /\ Init
    /\ late = FALSE /\ relogged = FALSE
-----------------------------------------------------------------------------
(* Coming up, and going.                                                   *)

Still == UNCHANGED <<friendVars, dialogVars, downloadVars, vars, records>>

RobotEnds ==
    /\ FriendsForgotten /\ UNCHANGED <<helperFriendVars, told>>
    /\ DialogsGone /\ WorkersGone

\* The robot's part of a step that may end the robot.
RobotSide ==
    IF robot # "off" /\ robot' = "off" THEN RobotEnds
    ELSE UNCHANGED <<friendVars, dialogVars, downloadVars>>

ComingUp ==
    /\ \/ OpenWeChat \/ AlreadyInjected \/ LoadHelper \/ LoadFails \/ InjectFails
       \/ OpenLogin \/ InitWindow \/ SetHooks \/ RegisterWindow
       \/ ShowPicture \/ SaveImg
    /\ RobotSide
    /\ UNCHANGED <<budget, vars, records>>

Starting ==
    \/ Spend("starts") /\ StartRobot /\ Still
    \/ Spend("exits") /\ ReopenWeChat /\ Still
    \/ Spend("logouts") /\ LogoutWeChat /\ Still
    \/ Spend("codes") /\ ShowQrPicture /\ RobotSide /\ UNCHANGED <<vars, records>>

\* The main window opens and asks who is logged in, if there is somebody to ask.
Welcome ==
    /\ CheckIsLogin
    /\ IF robot' = robot THEN UNCHANGED <<calls, spilt, records>>
       ELSE /\ late' = ~HelperWindow /\ relogged' = FALSE
            /\ LET cmd == <<"GetInformation">>
               IN  IF HelperWindow
                   THEN \E frame \in Api(cmd) : Send("ui", cmd, frame, {})
                   ELSE UNCHANGED <<calls, spilt>>
    /\ UNCHANGED <<budget, friendVars, listings, weChatVars, memberVars, bAutoChat,
                   account, me, downloadVars, vars>>

LoginOf(a) ==
    /\ Login
    /\ account' = a /\ relogged' = (relogged \/ MainWindow)
    /\ UNCHANGED <<budget, late, friendVars, calls, listings, weChatVars, memberVars,
                   bAutoChat, spilt, me, downloadVars, vars>>

\* WeChat ends, and with it the helper's memory.
WeChatCloses ==
    \/ /\ Spend("exits") /\ ExitWeChat
       /\ ListForgotten /\ UNCHANGED robotFriendVars
       /\ HelperGone /\ PicturesForgotten
       /\ UNCHANGED <<downloadVars, records>>
    \/ /\ CloseLogin /\ UNCHANGED <<budget, records>>
       /\ FriendsForgotten /\ DialogsGone /\ WorkersGone
       /\ IF own THEN ListForgotten /\ PicturesForgotten
          ELSE UNCHANGED <<helperFriendVars, told, vars>>

\* The UI thread closes its window, or uses a window it has not found.
MainCloses ==
    /\ CloseMain /\ Idling("ui") /\ room = NoRoom
    /\ \/ UNCHANGED budget
       \/ ~HelperWindow /\ Spend("menu")
    /\ RobotEnds /\ UNCHANGED <<vars, records>>

\* Any program that writes over its memory may end.
RobotBursts ==
    /\ robot # "off" /\ RobotDies /\ Burst
    /\ FriendsForgotten /\ WorkersGone
    /\ UNCHANGED <<budget, helperFriendVars, told, vars, records>>
-----------------------------------------------------------------------------
(* At work.                                                                *)

NotStarting == UNCHANGED <<startupVars, records>>
OnlyDialogs == NotStarting /\ UNCHANGED <<downloadVars, vars>>
OnlyFriends == OnlyDialogs /\ UNCHANGED dialogVars

FriendsListed ==
    /\ FriendHook /\ wechat = "loggedIn"
    /\ \/ Spend("lists") /\ \E f \in Friend : ListFriend(f, MainWindow, starts)
       \/ UNCHANGED budget /\ \E f \in Friend :
             \/ ReSendUser(f, MainWindow, starts)
             \/ \E k \in 1 .. starts : SendFriend(f, k, MainWindow, starts)
    /\ OnlyFriends

\* A click matters as long as a menu may follow.
Clicks ==
    /\ MainWindow /\ Idling("ui") /\ budget["menu"] + budget["dialogs"] > 0
    /\ \/ /\ room = NoRoom
          /\ \E r \in DOMAIN rows : ClickFriend(r) \/ RclickFriend(r)
          /\ OnlyFriends
       \/ /\ \E r \in DOMAIN mRows : ClickMember(r) \/ RclickMember(r)
          /\ OnlyDialogs
    /\ UNCHANGED budget

Buttons(text) == {<<"GetInformation">>, <<"LogoutWeChat">>, <<"SaveToTxtFie">>,
            <<"AddWxUser", Other, text>>, <<"OpenUrl", text>>}

UserCommands ==
    /\ MainWindow /\ HelperWindow
    /\ \/ Spend("buttons") /\ \E text \in Typed : \E cmd \in Buttons(text) : Button(cmd)
       \/ Spend("buttons") /\ AutoChatButton(TuLing)
       \/ Spend("menu") /\ \E text \in Typed :
             \/ \E kind \in FriendMenu \cup GroupMenu : MenuCommand(kind, text)
             \/ \E kind \in {"DelRoomMember", "SendRoomAtMsg"} : MemberCommand(kind, text)
       \/ Spend("dialogs") /\ OpenMembers
       \/ UNCHANGED budget /\ CloseMembers
    /\ OnlyDialogs

ApiCommands ==
    /\ robot # "off" /\ HelperWindow
    /\ Spend("api") /\ \E cmd \in ApiCommand : ApiCall(cmd)
    /\ OnlyDialogs

\* Two commands change who shows which window.
Served ==
    /\ HelperWindow
    /\ \E c \in Caller :
          /\ Serve(c, MainWindow)
          /\ LET did == WndProc(calls[c].frame)
             IN  CASE did[1] = "LogoutWeChat" /\ wechat = "loggedIn" -> LogoutWeChat
                   [] did[1] = "ShowQrPicture" ->
                         /\ HookQrCode
                         /\ UNCHANGED <<wechat, version, helper, watcher, robot, own,
                                        starts, alone>>
                   [] OTHER -> UNCHANGED startupVars
    /\ UNCHANGED <<budget, records, downloadVars, vars>>

Returning ==
    /\ \/ ListMember \/ ListingDone
       \/ ~HelperWindow /\ \E c \in Caller : Abandoned(c)
    /\ OnlyDialogs /\ UNCHANGED budget

Downloading ==
    /\ robot # "off"
    /\ \/ Spend("files") /\ \E c \in Contact, u \in Url : SendFileMsg(c, u)
       \/ /\ UNCHANGED budget
          /\ \E w \in Worker :
                \/ CheckFile(w) \/ NoAnswer(w) \/ OpenFile(w) \/ Downloaded(w)
                \/ BreaksOff(w) \/ SendFile(w, HelperWindow)
    /\ NotStarting /\ UNCHANGED <<friendVars, dialogVars, vars>>

\* The hooks run in WeChat; what they note goes to the robot's main window.
Pictures ==
    /\ \/ Spend("ticks") /\ Tick
       \/ /\ FriendHook
          /\ \/ Spend("messages") /\ wechat = "loggedIn" /\ SendWxMessage
             \/ /\ UNCHANGED budget
                /\ \/ SavePicture
                   \/ \E m \in 1 .. MaxMessages : SaveAnother(m)
                   \/ TooSmall \/ WriteImage \/ WriteFails \/ EraseEntry
                   \/ NotSent /\ (saving.id \in DOMAIN g_pic_map => ~MainWindow)
                   \/ SendPicMsg /\ MainWindow
    /\ NotStarting /\ UNCHANGED <<friendVars, dialogVars, downloadVars>>
-----------------------------------------------------------------------------
BridgeNext ==
    \/ ComingUp \/ Starting \/ Welcome \/ WeChatCloses \/ MainCloses \/ RobotBursts
    \/ \E a \in Account : LoginOf(a)
    \/ FriendsListed \/ Clicks \/ UserCommands \/ ApiCommands \/ Served \/ Returning
    \/ Downloading \/ Pictures

BridgeSpec == BridgeInit /\ [][BridgeNext]_bridgeVars

BridgeTypeOK ==
    /\ StartupTypeOK /\ FriendTypeOK /\ DialogTypeOK /\ DownloadTypeOK
    /\ {late, relogged} \subseteq BOOLEAN
-----------------------------------------------------------------------------
\* Nobody WeChat lists is told twice, or lost while the robot runs, through
\* restarts of the robot.
FriendsKept == NoFriendLost(MainWindow, starts)

\* A robot at work knows the account that is logged in: unless its window
\* opened before the helper's (it never asks again), WeChat closed under the
\* question, or somebody has logged in since (it never listens again).
KnowsItself ==
    MainWindow /\ Idling("ui") =>
        \/ me = account
        \/ relogged
        \/ me = NoText /\ (late \/ "gone" \in excuses)
=============================================================================
