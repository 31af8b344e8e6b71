----------------------------- MODULE ChatRecord -----------------------------
(***************************************************************************)
(* What the helper makes of a message that WeChat receives: SendWxMessage  *)
(* of ChatRecord.cpp, with what CAutoFunction.cpp has WeChat do about it,  *)
(* and which of them CMain::OnCopyData lets through.                       *)
(*                                                                         *)
(* A message has a kind, the chat it is in, a sender, a source and what it *)
(* says.  WeChat gives a short source for a message of a friend (and for   *)
(* one's own), a long one in a group, and may give none.                   *)
(***************************************************************************)
EXTENDS Naturals, Sequences, FiniteSets

CONSTANTS Public,   \* the chats with "gh" in their ids
          GroupChat \* the chats with "chatroom" in their ids

\* WxCommandType, as far as the code tells them apart; "other" stands for
\* those of GetMsgTypeStr that set is_other and for the unknown ones.
Kind == {"text", "image", "media", "share", "emotion", "card", "friendAck",
         "sysMsg", "recall", "other"}
Says == {"@all", "@me", "plain", "long", "joined", "transfer"}

\* The message a robot gets.
FromGroup(m) == m.source # "short"
Sender(m) == IF FromGroup(m) THEN m.by ELSE "NULL"
InGroup(m) == FromGroup(m) \/ m.chat \in GroupChat

\* Whose question it would be.
Asker(m) == IF InGroup(m) THEN Sender(m) ELSE m.chat

\* What goes into content: the text, or a notice in its place.
Content(m) ==
    IF m.chat \in Public \/ m.kind \in {"other", "card", "friendAck"}
       \/ (m.kind = "sysMsg" /\ m.says # "joined")
       \/ m.says = "long"
    THEN "notice" ELSE m.says

\* The hook waits for the picture of an image message.
Waits(m) == m.kind = "image" /\ m.chat \notin Public

\* A transfer comes as "share", for which is_other is not set: it is not
\* collected.
AutoCllectMoney(m) == m.kind = "other" /\ m.says = "transfer"
AutoAddCardUser(m) == m.kind = "card"
AutoAgreeUserRequest(m) == m.kind = "friendAck"

\* What WeChat is made to do about the message.
Automatic(m) ==
    {a \in {"collect", "addUser", "agree"} :
        /\ m.chat \notin Public
        /\ a = "collect" => AutoCllectMoney(m)
        /\ a = "addUser" => AutoAddCardUser(m)
        /\ a = "agree" => AutoAgreeUserRequest(m)}

\* CMain::OnCopyData, WM_ShowChatRecord.
LetThrough(m) == m.kind \in {"text", "image", "media", "share"}
=============================================================================
