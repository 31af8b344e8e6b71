----------------------------- MODULE FriendList -----------------------------
(***************************************************************************)
(* The friend list, from WeChat's own list to the rows the user clicks:    *)
(* the hook of the helper's FriendList.cpp, CMain::OnCopyData, and the     *)
(* list control of CFriendList.cpp.  Whoever WeChat lists is told to the   *)
(* robot once; while the robot's main window is not there, each friend     *)
(* waits in a thread of its own.  The window found (FindWindow) may be     *)
(* closed before it is sent to (SendMessage), and nobody looks whether the *)
(* message has arrived.                                                    *)
(*                                                                         *)
(* A row without text is NoText: SetItemText beyond the last row does      *)
(* nothing, and dwIndex is not counted down when a row is deleted.         *)
(***************************************************************************)
EXTENDS Naturals, Sequences, FiniteSets, SequencesExt

CONSTANTS Friend,    \* contacts and groups, by wxid
          Shortened, \* what is left of a wxid of more than 20 characters
          NoText     \* what a row shows, and wxid holds, when nothing is set

\* No text is not a text of more than 20 characters.
ASSUME ShortenedAssumption == NoText \notin DOMAIN Shortened

VARIABLES
    userInfoList,  \* helper: who has been listed, of this life of WeChat
    resending,     \* helper: the threads of ReSendUser that look for a window
    sending,       \* helper: <<f, k>>, the window of start k found for f
    mapFriendList, \* robot: who is known
    rows,          \* robot: the wxid each row shows
    dwIndex,       \* robot: where the next row goes
    selected,      \* robot: the marked row, 0 for none
    wxid,          \* robot: the global the menus work on
    clicked,       \* history: the row that wxid was taken from, 0 when gone
    told,          \* history: <<f, k>> when the robot's k-th start was told of f
    lost,          \* history: <<f, k>> when its window was closed before the message
    deleted        \* history: whose row has been deleted since the robot started

friendVars == <<userInfoList, resending, sending, mapFriendList, rows, dwIndex,
                selected, wxid, clicked, told, lost, deleted>>
helperFriendVars == <<userInfoList, resending, sending, lost>>
robotFriendVars == <<mapFriendList, rows, dwIndex, selected, wxid, clicked, deleted>>

\* memcpy of 40 bytes.
Cut(id) == IF id \in DOMAIN Shortened THEN Shortened[id] ELSE id

FriendTypeOK ==
    /\ userInfoList \subseteq Friend /\ resending \subseteq userInfoList
    /\ mapFriendList \subseteq Friend
    /\ rows \in Seq(Friend \cup {NoText})
    /\ dwIndex \in Nat /\ selected \in 0 .. Len(rows) /\ clicked \in 0 .. Len(rows)
    /\ wxid \in {Cut(id) : id \in Friend \cup {NoText}}
    /\ sending \cup told \cup lost \subseteq userInfoList \X Nat
    /\ deleted \subseteq Friend \cup {NoText}

FriendInit ==
    /\ userInfoList = {} /\ resending = {} /\ sending = {} /\ told = {} /\ lost = {}
    /\ mapFriendList = {} /\ rows = <<>> /\ dwIndex = 0
    /\ selected = 0 /\ wxid = NoText /\ clicked = 0 /\ deleted = {}

\* The robot's half ends with the robot, the helper's with WeChat.
FriendsForgotten ==
    /\ mapFriendList' = {} /\ rows' = <<>> /\ dwIndex' = 0
    /\ selected' = 0 /\ wxid' = NoText /\ clicked' = 0 /\ deleted' = {}
ListForgotten ==
    userInfoList' = {} /\ resending' = {} /\ sending' = {} /\ told' = {} /\ lost' = {}
-----------------------------------------------------------------------------
\* OnShowfriendlist: InsertItem puts an index beyond the end at the end, and
\* the text then goes to a row that is not there.
Inserted(list, index, text) ==
    IF index <= Len(list) THEN InsertAt(list, index + 1, text)
    ELSE Append(list, NoText)

\* CMain::OnCopyData, WM_GetFriendList.
TellRobot(f, n) ==
    /\ mapFriendList' = mapFriendList \cup {f}
    /\ rows' = Inserted(rows, dwIndex, f) /\ dwIndex' = dwIndex + 1
    /\ told' = told \cup {<<f, n>>}
    /\ UNCHANGED <<selected, wxid, clicked, deleted>>

\* The list without the thread: a friend is told now or never.
ListOnce(f, main, n) ==
    /\ f \notin userInfoList
    /\ userInfoList' = userInfoList \cup {f}
    /\ sending' = IF main THEN sending \cup {<<f, n>>} ELSE sending
    /\ UNCHANGED <<resending, lost, robotFriendVars, told>>

\* GetUserListInfo and SendUserListInfo: WeChat lists f, and a window is found
\* or a thread started to find one.
ListFriend(f, main, n) ==
    /\ f \notin userInfoList
    /\ userInfoList' = userInfoList \cup {f}
    /\ IF main THEN sending' = sending \cup {<<f, n>>} /\ UNCHANGED resending
       ELSE resending' = resending \cup {f} /\ UNCHANGED sending
    /\ UNCHANGED <<lost, robotFriendVars, told>>

\* ReSendUser spins until there is a main window.
ReSendUser(f, main, n) ==
    /\ f \in resending /\ main
    /\ resending' = resending \ {f} /\ sending' = sending \cup {<<f, n>>}
    /\ UNCHANGED <<userInfoList, lost, robotFriendVars, told>>

\* SendMessage to the window of start k, the last thing either of them does.
SendFriend(f, k, main, n) ==
    /\ <<f, k>> \in sending
    /\ sending' = sending \ {<<f, k>>}
    /\ IF main /\ k = n THEN TellRobot(f, n) /\ UNCHANGED lost
       ELSE lost' = lost \cup {<<f, k>>} /\ UNCHANGED <<robotFriendVars, told>>
    /\ UNCHANGED <<userInfoList, resending>>
-----------------------------------------------------------------------------
\* OnClickFriendlist: a left click marks the row and takes its wxid.
ClickFriend(row) ==
    /\ row \in 1 .. Len(rows)
    /\ selected' = row /\ wxid' = Cut(rows[row]) /\ clicked' = row
    /\ UNCHANGED <<helperFriendVars, told, mapFriendList, rows, dwIndex, deleted>>

\* OnRclickFriendlist: a right click marks the row and opens the menu for
\* whatever wxid holds.
RclickFriend(row) ==
    /\ row \in 1 .. Len(rows)
    /\ selected' = row
    /\ UNCHANGED <<helperFriendVars, told, mapFriendList, rows, dwIndex, wxid,
                   clicked, deleted>>

\* The rows without the marked one; nothing is marked then.
DeleteRow ==
    IF selected = 0 THEN UNCHANGED <<rows, selected, clicked, deleted>>
    ELSE /\ rows' = RemoveAt(rows, selected)
         /\ deleted' = deleted \cup {rows[selected]}
         /\ clicked' = IF clicked = selected THEN 0
                       ELSE IF clicked > selected THEN clicked - 1 ELSE clicked
         /\ selected' = 0

RowOf(f) == {r \in 1 .. Len(rows) : rows[r] = f}
-----------------------------------------------------------------------------
\* Each friend WeChat has listed is on one way to the robot, and on no other:
\* waits in a thread for a window, is being sent to the window of one start,
\* has been told to one start, or is lost with one, its window closed under
\* the message.  Nobody is lost with a robot that still runs; and that robot
\* knows a friend it has been told of and shows it in one row, unless rows
\* have been deleted.
NoFriendLost(main, n) ==
    /\ sending \cap told = {} /\ sending \cap lost = {} /\ told \cap lost = {}
    /\ \A f \in userInfoList :
          LET To(pairs) == {k \in 1 .. n : <<f, k>> \in pairs}
          IN  /\ Cardinality(To(sending \cup told \cup lost))
                     = (IF f \in resending THEN 0 ELSE 1)
              /\ main => n \notin To(lost)
              /\ n \in To(told) /\ main =>
                  /\ f \in mapFriendList
                  /\ Cardinality(RowOf(f)) = 1 \/ deleted # {}
=============================================================================
