---------------------------- MODULE PictureQueue ----------------------------
(***************************************************************************)
(* How the helper joins pictures to the messages that announce them:       *)
(* SendWxMessage of ChatRecord.cpp and FnSaveImagesCore of CSaveImage.cpp. *)
(* Both are hooks that WeChat's threads run into, without a lock.  A       *)
(* picture carries no message id: the helper notes the second in which an  *)
(* image message came, gives the oldest noted second to the next picture   *)
(* WeChat saves, and looks the message up by that second.                  *)
(*                                                                         *)
(* Taken from how the code uses WeChat: pictures are saved in the order of *)
(* their messages, each once; a second picture of a message (a thumbnail)  *)
(* may be saved later.                                                     *)
(***************************************************************************)
EXTENDS Naturals, Sequences, FiniteSets

CONSTANTS MaxMessages, \* bound: image messages that come
          MaxTime,     \* bound: seconds that pass
          MaxExtra,    \* bound: second pictures that are saved
          NoSave       \* no save is under way

ASSUME PictureAssumption ==
    /\ MaxMessages \in Nat /\ MaxTime \in Nat /\ MaxExtra \in Nat
    /\ NoSave \notin [id : Nat, pic : Nat, step : {"popped", "written", "sent"}]

VARIABLES
    now,        \* time()
    arrived,    \* history: the second of each image message, in order
    g_pic_list,
    g_pic_map,  \* the message noted for a second
    unsaved,    \* messages whose picture WeChat has yet to save, in order
    saving,     \* [id, pic, step] of the save under way, or NoSave
    file,       \* whose picture the file named after a second holds, 0 for
                \* a file that does not hold all of a picture
    failed,     \* history: the seconds with a picture that was not written
    sent,       \* history: [msg, id] handed to the robot with that file
    excused,    \* history: messages with a reason not to reach the robot
    extra       \* history: second pictures saved while ids were waiting

vars == <<now, arrived, g_pic_list, g_pic_map, unsaved, saving, file, failed,
          sent, excused, extra>>

Second == 0 .. MaxTime
Empty == [t \in {} |-> 0]

Init ==
    /\ now = 0 /\ arrived = <<>>
    /\ g_pic_list = <<>> /\ g_pic_map = Empty
    /\ unsaved = <<>> /\ saving = NoSave
    /\ file = Empty /\ failed = {}
    /\ sent = {} /\ excused = {} /\ extra = 0

\* The lists are WeChat's memory, and end with it.
PicturesForgotten ==
    /\ arrived' = <<>> /\ g_pic_list' = <<>> /\ g_pic_map' = Empty
    /\ unsaved' = <<>> /\ saving' = NoSave /\ file' = Empty /\ failed' = {}
    /\ sent' = {} /\ excused' = {} /\ extra' = 0
    /\ UNCHANGED now

Put(map, t, m) == [u \in DOMAIN map \cup {t} |-> IF u = t THEN m ELSE map[u]]
Erase(map, t) == [u \in DOMAIN map \ {t} |-> map[u]]

Tick ==
    /\ now < MaxTime
    /\ now' = now + 1
    /\ UNCHANGED <<arrived, g_pic_list, g_pic_map, unsaved, saving, file,
                   failed, sent, excused, extra>>

\* SendWxMessage, the case kCommandTypeImage: insert leaves an entry for the
\* same second alone.  Every other message goes to the robot at once.
SendWxMessage ==
    /\ Len(arrived) < MaxMessages
    /\ LET m == Len(arrived) + 1
       IN  /\ arrived' = Append(arrived, now)
           /\ g_pic_list' = Append(g_pic_list, now)
           /\ g_pic_map' = IF now \in DOMAIN g_pic_map THEN g_pic_map
                           ELSE Put(g_pic_map, now, m)
           /\ unsaved' = Append(unsaved, m)
    /\ UNCHANGED <<now, saving, file, failed, sent, excused, extra>>

\* The head of FnSaveImagesCore for a picture of message m.
PopFront(m) ==
    IF g_pic_list = <<>>
    THEN UNCHANGED <<g_pic_list, saving>>
    ELSE /\ g_pic_list' = Tail(g_pic_list)
         /\ saving' = [id |-> Head(g_pic_list), pic |-> m, step |-> "popped"]

\* WeChat saves the picture of the oldest message ...
SavePicture ==
    /\ saving = NoSave /\ unsaved # <<>>
    /\ PopFront(Head(unsaved))
    /\ unsaved' = Tail(unsaved)
    /\ UNCHANGED <<now, arrived, g_pic_map, file, failed, sent, excused,
                   extra>>

\* ... or another picture of a message whose first is saved.
SaveAnother(m) ==
    /\ saving = NoSave /\ m + Len(unsaved) <= Len(arrived)
    /\ extra < MaxExtra
    /\ PopFront(m)
    /\ extra' = IF g_pic_list = <<>> THEN extra ELSE extra + 1
    /\ UNCHANGED <<now, arrived, g_pic_map, unsaved, file, failed, sent,
                   excused>>

\* The messages that came in second t: one entry stands for all of them.
At(t) == {m \in 1 .. Len(arrived) : arrived[m] = t}

\* The size is looked at before the id is taken.
KeepTheId ==
    /\ saving # NoSave /\ saving.step = "popped"
    /\ saving' = NoSave
    /\ g_pic_list' = <<saving.id>> \o g_pic_list
    /\ excused' = excused \cup At(saving.id)
    /\ UNCHANGED <<now, arrived, g_pic_map, unsaved, file, failed, sent,
                   extra>>

\* Less than 1 KB: the id is gone, its entry stays.
TooSmall ==
    /\ saving # NoSave /\ saving.step = "popped"
    /\ saving' = NoSave
    /\ excused' = excused \cup At(saving.id)
    /\ UNCHANGED <<now, arrived, g_pic_list, g_pic_map, unsaved, file, failed,
                   sent, extra>>

\* CreateFileWithCurrentTime: CREATE_ALWAYS, one name for each second (and
\* each of the two extensions, which are not told apart here).
WriteImage ==
    /\ saving # NoSave /\ saving.step = "popped"
    /\ file' = Put(file, saving.id, saving.pic)
    /\ saving' = [saving EXCEPT !.step = "written"]
    /\ UNCHANGED <<now, arrived, g_pic_list, g_pic_map, unsaved, failed, sent,
                   excused, extra>>

\* The file cannot be created (INVALID_HANDLE_VALUE is not NULL) and what is
\* there stays, or cannot be written and holds less; the path is returned all
\* the same.
WriteFails ==
    /\ saving # NoSave /\ saving.step = "popped"
    /\ file' \in {file, Put(file, saving.id, 0)}
    /\ failed' = failed \cup {saving.id}
    /\ saving' = [saving EXCEPT !.step = "written"]
    /\ UNCHANGED <<now, arrived, g_pic_list, g_pic_map, unsaved, sent,
                   excused, extra>>

\* SendPicMsg: without an entry nothing is sent, without the robot's window
\* the entry stays ...
NotSent ==
    /\ saving # NoSave /\ saving.step = "written"
    /\ IF saving.id \in DOMAIN g_pic_map
       THEN excused' = excused \cup At(saving.id)
       ELSE UNCHANGED excused
    /\ saving' = NoSave
    /\ UNCHANGED <<now, arrived, g_pic_list, g_pic_map, unsaved, file, failed,
                   sent, extra>>

\* ... and otherwise the robot has the message before the entry is erased.
SendPicMsg ==
    /\ saving # NoSave /\ saving.step = "written"
    /\ saving.id \in DOMAIN g_pic_map
    /\ sent' = sent \cup {[msg |-> g_pic_map[saving.id], id |-> saving.id]}
    /\ saving' = [saving EXCEPT !.step = "sent"]
    /\ UNCHANGED <<now, arrived, g_pic_list, g_pic_map, unsaved, file, failed,
                   excused, extra>>

\* g_pic_map.clear() in place of erase.
EraseAll ==
    /\ saving # NoSave /\ saving.step = "sent"
    /\ g_pic_map' = Empty
    /\ saving' = NoSave
    /\ UNCHANGED <<now, arrived, g_pic_list, unsaved, file, failed, sent,
                   excused, extra>>

\* g_pic_map.erase(pic_id), whatever has come since the message was sent.
EraseEntry ==
    /\ saving # NoSave /\ saving.step = "sent"
    /\ g_pic_map' = Erase(g_pic_map, saving.id)
    /\ saving' = NoSave
    /\ UNCHANGED <<now, arrived, g_pic_list, unsaved, file, failed, sent,
                   excused, extra>>

Next ==
    \/ Tick \/ SendWxMessage \/ SavePicture
    \/ \E m \in 1 .. MaxMessages : SaveAnother(m)
    \/ TooSmall \/ WriteImage \/ WriteFails \/ NotSent \/ SendPicMsg \/ EraseEntry

Spec == Init /\ [][Next]_vars
-----------------------------------------------------------------------------
\* As long as no second picture is saved while ids are waiting, the file a
\* message is sent with holds a picture that was announced in the same second:
\* pictures too small, a robot that is away, files that could not be written
\* and lost entries never shift the queue against the pictures.  It holds no
\* whole picture only where a picture of that second was not written.
Holds(t) == t \in DOMAIN file /\ file[t] # 0
PictureOfTheSecond ==
    extra = 0 =>
        \A s \in sent : IF Holds(s.id) THEN arrived[file[s.id]] = arrived[s.msg]
                       ELSE s.id \in failed

\* Under the same condition an image message whose picture has been dealt
\* with has reached the robot, unless the picture of its second was too small
\* or came while the robot was away, or another message came in that second.
LostForAReason ==
    extra = 0 /\ saving = NoSave =>
        \A m \in 1 .. Len(arrived) - Len(unsaved) :
            \/ m \in excused
            \/ Cardinality(At(arrived[m])) > 1
            \/ \E s \in sent : s.msg = m
=============================================================================
