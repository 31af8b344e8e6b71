---------------------------- MODULE HttpHandlers ----------------------------
(***************************************************************************)
(* What the handlers of HttpConn.cpp do with a request, seen from the      *)
(* connection: they answer it at once, leave it to the task that waits for *)
(* the members of a group, or return without a word.  A body is a record:  *)
(* json tells whether it parses, has maps the fields that are there to a   *)
(* class of values.  The commands to WeChat and the wording of the answers *)
(* are left out.                                                           *)
(***************************************************************************)
Outcome == {"reply", "members", "silent", "unknown"}

Lacks(body, fields) == ~body.json \/ ~(fields \subseteq DOMAIN body.has)

\* Handlers with a reply on each of their paths, by the part of the API.
FriendUrl == {"/friend/getFriendList", "/friend/add", "/friend/delete"}
GroupUrl == {"/group/changeName", "/group/getChatroomList"}
MemberUrl == {"/group/addMember", "/group/delMember"}
PushUrl == {"/msg/registerPushCb"}

\* onFriendGetAccountInfo and onFriendFreshQrCode have an empty body.
EmptyUrl == {"/user/baseInfo", "/user/loginInfo"}

\* onGroupMemberList: once the group is known the answer is at hand.
MemberList(body, status) ==
    IF Lacks(body, {"wxGroupId"}) \/ status[body.has["wxGroupId"]]
    THEN "reply" ELSE "members"

\* onSendMsg: the checks in their order, then the kinds of message.  A card
\* is sent and answered only with the id and the nickname of a contact.
SendMsg(body) ==
    IF \/ Lacks(body, {"to", "sessionType", "msgType", "msgContent"})
       \/ body.has["to"] = "empty"
       \/ body.has["sessionType"] \notin {"single", "group"}
       \/ body.has["sessionType"] = "group" /\ body.has["to"] # "room"
       \/ body.has["msgType"] # "card"
       \/ body.has["msgContent"] = "contact"
    THEN "reply" ELSE "silent"

\* _HandleRequest with the handleMap that init_http_conn has filled.
HandleRequest(url, body, status) ==
    CASE url \in FriendUrl \cup GroupUrl \cup MemberUrl \cup PushUrl -> "reply"
      [] url \in EmptyUrl -> "silent"
      [] url = "/group/memberlist" -> MemberList(body, status)
      [] url = "/msg/sendMsg" -> SendMsg(body)
      [] OTHER -> "unknown"
=============================================================================
