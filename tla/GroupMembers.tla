---------------------------- MODULE GroupMembers ----------------------------
(***************************************************************************)
(* Requests for the members of a group: CGroupTaskMgr of GroupTask.cpp,    *)
(* the two branches of CMain::OnCopyData that end a walk over a group, and *)
(* ShowChatRoomUser of the helper.  The walk runs synchronously inside the *)
(* SendMessage of its caller, and reports its end only while the member    *)
(* dialog is open.                                                         *)
(***************************************************************************)
EXTENDS Naturals, Sequences

CONSTANTS Group, NoGroup

VARIABLES
    pending,    \* m_mapGroupTask: the tasks that wait, by group
    status,     \* mapGroupMemberStatus
    queue,      \* tasks of m_groupQueueService
    dialogOpen, \* the helper finds the window ChatRoomMember
    uiGroup     \* the group ActivateTask has walked and not yet erased

groupVars == <<pending, status, queue, dialogOpen, uiGroup>>

GroupInit ==
    /\ pending = [g \in Group |-> <<>>]
    /\ status = [g \in Group |-> FALSE]
    /\ queue = <<>>
    /\ dialogOpen = FALSE
    /\ uiGroup = NoGroup

\* CGroupTaskMgr::AddTask.
AddGroupTask(g, task) ==
    /\ pending' = [pending EXCEPT ![g] = Append(@, task)]
    /\ UNCHANGED <<status, queue, dialogOpen, uiGroup>>

\* WM_ShowChatRoomMembersDone: the group is known from now on, and
\* ActivateTask hands its tasks to the queue thread, if there are any.
MembersDone(g) ==
    /\ uiGroup = NoGroup
    /\ status' = [status EXCEPT ![g] = TRUE]
    /\ queue' = queue \o pending[g]
    /\ uiGroup' = IF pending[g] = <<>> THEN NoGroup ELSE g
    /\ UNCHANGED <<pending, dialogOpen>>

\* The entry stays after its tasks have been handed on.
EraseNothing ==
    /\ uiGroup # NoGroup
    /\ uiGroup' = NoGroup
    /\ UNCHANGED <<pending, status, queue, dialogOpen>>

\* The end of ActivateTask: the group's entry goes, whatever it holds by now.
EraseGroup ==
    /\ uiGroup # NoGroup
    /\ pending' = [pending EXCEPT ![uiGroup] = <<>>]
    /\ uiGroup' = NoGroup
    /\ UNCHANGED <<status, queue, dialogOpen>>

\* The user opens or closes the member dialog.
ToggleDialog ==
    /\ dialogOpen' = ~dialogOpen
    /\ UNCHANGED <<pending, status, queue, uiGroup>>
=============================================================================
