----------------------------- MODULE Bridge_proofs -----------------------------
(***************************************************************************)
(* Proofs about the pictures, alone and with the rest, and about the robot *)
(* and WeChat together: the login, the files that are sent, the friend     *)
(* list, the commands, the account, the member list and the types, for any *)
(* scenes, friends, groups, accounts, workers and bounds.  An end of       *)
(* WeChat, which forgets the pictures, is a step of theirs here, as it is  *)
(* in Bridge.                                                              *)
(*                                                                         *)
(* Each part has an invariant over its own variables; a step of another    *)
(* part leaves those alone.  Commands are the exception: they reach into   *)
(* the friend list and the account, and their proof reads every frame that *)
(* can be sent back through WndProc (the lemmas on frames).                *)
(***************************************************************************)
EXTENDS Bridge, FiniteSetTheorems, SequenceTheorems, TLAPS

(* The pictures. *)

Step == Next \/ PicturesForgotten

Saving == [id : Nat, pic : Nat, step : {"popped", "written", "sent"}]

PictureTypeOK ==
    /\ now \in Nat /\ extra \in Nat
    /\ arrived \in Seq(Nat) /\ g_pic_list \in Seq(Nat) /\ unsaved \in Seq(Nat)
    /\ g_pic_map = [t \in DOMAIN g_pic_map |-> g_pic_map[t]]
    /\ file = [t \in DOMAIN file |-> file[t]]
    /\ saving = NoSave \/ saving \in Saving
    /\ sent \subseteq [msg : Nat, id : Nat]

\* An entry of the map, and what has been sent, is a message of its second; what
\* has been sent has a whole picture in its file, or one that could not be written.
MapInv ==
    \A t \in DOMAIN g_pic_map :
        g_pic_map[t] \in DOMAIN arrived /\ arrived[g_pic_map[t]] = t
SentInv ==
    \A s \in sent :
        /\ s.msg \in DOMAIN arrived /\ arrived[s.msg] = s.id
        /\ extra = 0 => Holds(s.id) \/ s.id \in failed

\* The pictures to come are those of the last messages.
UnsavedInv ==
    /\ Len(unsaved) <= Len(arrived)
    /\ \A i \in DOMAIN unsaved : unsaved[i] = Len(arrived) - Len(unsaved) + i

\* As long as no second picture has taken an id, the ids that wait are the
\* seconds of those messages, and the picture in hand has its own.
QueueInv ==
    extra = 0 =>
        /\ Len(g_pic_list) = Len(unsaved)
        /\ \A i \in DOMAIN unsaved : g_pic_list[i] = arrived[unsaved[i]]
FileInv ==
    extra = 0 => \A t \in DOMAIN file :
        file[t] # 0 => file[t] \in DOMAIN arrived /\ arrived[file[t]] = t
SaveInv ==
    saving # NoSave =>
        /\ extra = 0 => /\ saving.pic \in DOMAIN arrived
                        /\ arrived[saving.pic] = saving.id
        /\ saving.step # "popped" /\ extra = 0 => Holds(saving.id) \/ saving.id \in failed

PictureInv ==
    /\ PictureTypeOK /\ MapInv /\ SentInv /\ UnsavedInv /\ QueueInv /\ FileInv
    /\ SaveInv
-----------------------------------------------------------------------------
LEMMA PictureInit == Init => PictureInv
  BY DEF Init, Empty, PictureInv, PictureTypeOK, MapInv, SentInv, UnsavedInv, QueueInv,
         FileInv, SaveInv

\* A new message: the seconds of those before it stay what they are.
LEMMA AppendKeeps ==
    ASSUME NEW s \in Seq(Nat), NEW x \in Nat
    PROVE  /\ Append(s, x) \in Seq(Nat)
           /\ Len(Append(s, x)) = Len(s) + 1
           /\ DOMAIN s = 1 .. Len(s) /\ Len(s) \in Nat
           /\ DOMAIN Append(s, x) = 1 .. Len(s) + 1
           /\ \A i \in DOMAIN s : Append(s, x)[i] = s[i]
           /\ Append(s, x)[Len(s) + 1] = x
  OBVIOUS

LEMMA TailShifts ==
    ASSUME NEW s \in Seq(Nat), s # <<>>
    PROVE  /\ Tail(s) \in Seq(Nat) /\ Head(s) \in Nat
           /\ Len(Tail(s)) = Len(s) - 1
           /\ DOMAIN s = 1 .. Len(s) /\ Len(s) \in Nat \ {0}
           /\ DOMAIN Tail(s) = 1 .. Len(s) - 1
           /\ \A i \in DOMAIN Tail(s) : Tail(s)[i] = s[i + 1]
           /\ Head(s) = s[1]
  OBVIOUS

LEMMA PictureMessage == PictureInv /\ SendWxMessage => PictureInv'
<1> SUFFICES ASSUME PictureInv, SendWxMessage PROVE PictureInv'
  OBVIOUS
<1> USE DEF PictureInv
<1> DEFINE m == Len(arrived) + 1
<1>1. /\ arrived' \in Seq(Nat) /\ Len(arrived') = m
      /\ DOMAIN arrived = 1 .. Len(arrived) /\ DOMAIN arrived' = 1 .. m
      /\ \A i \in DOMAIN arrived : i \in DOMAIN arrived' /\ arrived'[i] = arrived[i]
      /\ arrived'[m] = now /\ m \in Nat /\ Len(arrived) \in Nat
  BY AppendKeeps, SMTT(30) DEF SendWxMessage, PictureTypeOK
<1>2. /\ unsaved' \in Seq(Nat) /\ Len(unsaved') = Len(unsaved) + 1
      /\ DOMAIN unsaved = 1 .. Len(unsaved) /\ Len(unsaved) \in Nat
      /\ DOMAIN unsaved' = 1 .. Len(unsaved) + 1
      /\ \A i \in DOMAIN unsaved : unsaved'[i] = unsaved[i]
      /\ unsaved'[Len(unsaved) + 1] = m
  BY <1>1, AppendKeeps DEF SendWxMessage, PictureTypeOK
<1>3. /\ g_pic_list' \in Seq(Nat) /\ Len(g_pic_list') = Len(g_pic_list) + 1
      /\ DOMAIN g_pic_list = 1 .. Len(g_pic_list) /\ Len(g_pic_list) \in Nat
      /\ \A i \in DOMAIN g_pic_list : g_pic_list'[i] = g_pic_list[i]
      /\ g_pic_list'[Len(g_pic_list) + 1] = now
  BY AppendKeeps DEF SendWxMessage, PictureTypeOK
<1> HIDE DEF m
<1>4. MapInv'
  <2>1. CASE now \in DOMAIN g_pic_map
    BY <1>1, <2>1 DEF MapInv, SendWxMessage
  <2>2. CASE now \notin DOMAIN g_pic_map
    <3>1. g_pic_map' = Put(g_pic_map, now, m)
      BY <2>2 DEF SendWxMessage, m
    <3>2. /\ DOMAIN g_pic_map' = DOMAIN g_pic_map \cup {now}
          /\ g_pic_map'[now] = m
          /\ \A t \in DOMAIN g_pic_map : g_pic_map'[t] = g_pic_map[t]
      BY <2>2, <3>1 DEF Put
    <3>3. m \in DOMAIN arrived'
      BY <1>1 DEF m
    <3>4. ASSUME NEW t \in DOMAIN g_pic_map'
          PROVE  g_pic_map'[t] \in DOMAIN arrived' /\ arrived'[g_pic_map'[t]] = t
      <4>1. CASE t = now
        BY <1>1, <3>2, <3>3, <4>1
      <4>2. CASE t # now
        <5>1. t \in DOMAIN g_pic_map /\ g_pic_map'[t] = g_pic_map[t]
          BY <3>2, <4>2
        <5>2. g_pic_map[t] \in DOMAIN arrived /\ arrived[g_pic_map[t]] = t
          BY <5>1 DEF MapInv
        <5> QED
          BY <1>1, <5>1, <5>2
      <4> QED
        BY <4>1, <4>2
    <3> QED
      BY <3>4 DEF MapInv
  <2> QED
    BY <2>1, <2>2
<1>5. PictureTypeOK'
  <2>1. g_pic_map' = [t \in DOMAIN g_pic_map' |-> g_pic_map'[t]]
    BY DEF Put, SendWxMessage, PictureTypeOK
  <2> QED
    BY <1>1, <1>2, <1>3, <2>1 DEF SendWxMessage, PictureTypeOK
<1>6. SentInv'
  BY <1>1 DEF SentInv, Holds, SendWxMessage
<1>7. UnsavedInv'
  <2>1. Len(unsaved') <= Len(arrived')
    BY <1>1, <1>2 DEF UnsavedInv, m
  <2>2. ASSUME NEW i \in DOMAIN unsaved'
        PROVE  unsaved'[i] = Len(arrived') - Len(unsaved') + i
    <3>1. CASE i = Len(unsaved) + 1
      BY <1>1, <1>2, <3>1 DEF m
    <3>2. CASE i # Len(unsaved) + 1
      <4>1. i \in DOMAIN unsaved /\ i \in Nat
        BY <1>2, <3>2
      <4>2. unsaved[i] = Len(arrived) - Len(unsaved) + i
        BY <4>1 DEF UnsavedInv
      <4> QED
        BY <1>1, <1>2, <4>1, <4>2 DEF m
    <3> QED
      BY <3>1, <3>2
  <2> QED
    BY <2>1, <2>2 DEF UnsavedInv
<1>8. QueueInv'
  <2>0. SUFFICES ASSUME extra = 0
                 PROVE  /\ Len(g_pic_list') = Len(unsaved')
                        /\ \A i \in DOMAIN unsaved' :
                               g_pic_list'[i] = arrived'[unsaved'[i]]
    BY DEF QueueInv, SendWxMessage
  <2>1. Len(g_pic_list) = Len(unsaved)
    BY <2>0 DEF QueueInv
  <2>2. ASSUME NEW i \in DOMAIN unsaved PROVE g_pic_list'[i] = arrived'[unsaved'[i]]
    <3>1. unsaved[i] \in DOMAIN arrived
      BY <1>1, <1>2 DEF UnsavedInv
    <3>2. g_pic_list[i] = arrived[unsaved[i]] /\ i \in DOMAIN g_pic_list
      BY <1>2, <1>3, <2>0, <2>1 DEF QueueInv
    <3> QED
      BY <1>1, <1>2, <1>3, <3>1, <3>2
  <2>3. g_pic_list'[Len(unsaved) + 1] = arrived'[unsaved'[Len(unsaved) + 1]]
    BY <1>1, <1>2, <1>3, <2>1
  <2>4. ASSUME NEW i \in DOMAIN unsaved'
        PROVE  i \in DOMAIN unsaved \/ i = Len(unsaved) + 1
    BY <1>2
  <2> QED
    BY <1>2, <1>3, <2>1, <2>2, <2>3, <2>4
<1>9. FileInv' /\ SaveInv'
  BY <1>1 DEF FileInv, SaveInv, Holds, SendWxMessage
<1> QED
  BY <1>4, <1>5, <1>6, <1>7, <1>8, <1>9

\* A picture of its own, and then another.
LEMMA PictureSaved == PictureInv /\ SavePicture => PictureInv'
<1> SUFFICES ASSUME PictureInv, SavePicture PROVE PictureInv'
  OBVIOUS
<1> USE DEF PictureInv
<1>1. /\ unsaved' \in Seq(Nat) /\ Len(unsaved') = Len(unsaved) - 1
      /\ DOMAIN unsaved = 1 .. Len(unsaved) /\ Len(unsaved) \in Nat \ {0}
      /\ DOMAIN unsaved' = 1 .. Len(unsaved) - 1 /\ Head(unsaved) \in Nat
      /\ \A i \in DOMAIN unsaved' : unsaved'[i] = unsaved[i + 1]
      /\ Head(unsaved) = unsaved[1]
  BY TailShifts DEF SavePicture, PictureTypeOK
<1>2. Len(arrived) \in Nat /\ DOMAIN arrived = 1 .. Len(arrived)
  BY DEF PictureTypeOK
<1>3. UNCHANGED <<now, arrived, g_pic_map, file, failed, sent, extra>> /\ saving = NoSave
  BY DEF SavePicture
<1>4. MapInv' /\ SentInv' /\ FileInv'
  BY <1>3 DEF MapInv, SentInv, FileInv, Holds
<1>5. UnsavedInv'
  <2>1. Len(unsaved') <= Len(arrived')
    BY <1>1, <1>2, <1>3 DEF UnsavedInv
  <2>2. ASSUME NEW i \in DOMAIN unsaved'
        PROVE  unsaved'[i] = Len(arrived') - Len(unsaved') + i
    <3>1. i \in Nat /\ i + 1 \in DOMAIN unsaved /\ unsaved'[i] = unsaved[i + 1]
      BY <1>1, SMTT(30)
    <3>2. unsaved[i + 1] = Len(arrived) - Len(unsaved) + (i + 1)
      BY <3>1 DEF UnsavedInv
    <3>3. Len(arrived') = Len(arrived)
      BY <1>3
    <3> QED
      BY <1>1, <1>2, <3>1, <3>2, <3>3
  <2> QED
    BY <2>1, <2>2 DEF UnsavedInv
<1>6. \A i \in DOMAIN unsaved : unsaved[i] \in DOMAIN arrived
  BY <1>1, <1>2 DEF UnsavedInv
<1>7. CASE g_pic_list = <<>>
  <2>1. extra # 0
    BY <1>1, <1>7 DEF QueueInv
  <2>2. UNCHANGED <<g_pic_list, saving>>
    BY <1>7 DEF SavePicture, PopFront
  <2>3. QueueInv' /\ SaveInv'
    BY <1>3, <2>1, <2>2 DEF QueueInv, SaveInv
  <2>4. PictureTypeOK'
    BY <1>1, <1>3, <2>2 DEF PictureTypeOK
  <2> QED
    BY <1>4, <1>5, <2>3, <2>4
<1>8. CASE g_pic_list # <<>>
  <2>1. /\ g_pic_list' \in Seq(Nat) /\ Len(g_pic_list') = Len(g_pic_list) - 1
        /\ Head(g_pic_list) \in Nat /\ Head(g_pic_list) = g_pic_list[1]
        /\ DOMAIN g_pic_list' = 1 .. Len(g_pic_list) - 1
        /\ Len(g_pic_list) \in Nat
        /\ \A i \in DOMAIN g_pic_list' : g_pic_list'[i] = g_pic_list[i + 1]
    <3>1. g_pic_list' = Tail(g_pic_list)
      BY <1>8 DEF SavePicture, PopFront
    <3>2. g_pic_list \in Seq(Nat)
      BY DEF PictureTypeOK
    <3> QED
      BY <1>8, <3>1, <3>2, TailShifts
  <2>2. saving' = [id |-> Head(g_pic_list), pic |-> Head(unsaved), step |-> "popped"]
    BY <1>8 DEF SavePicture, PopFront
  <2>3. QueueInv'
    <3>0. SUFFICES ASSUME extra = 0
                   PROVE  /\ Len(g_pic_list') = Len(unsaved')
                          /\ \A i \in DOMAIN unsaved' :
                                 g_pic_list'[i] = arrived'[unsaved'[i]]
      BY <1>3 DEF QueueInv
    <3>1. Len(g_pic_list) = Len(unsaved)
      BY <3>0 DEF QueueInv
    <3>2. ASSUME NEW i \in DOMAIN unsaved'
          PROVE  g_pic_list'[i] = arrived'[unsaved'[i]]
      <4>1. i + 1 \in DOMAIN unsaved /\ i \in DOMAIN g_pic_list'
        <5>1. /\ DOMAIN unsaved' = 1 .. Len(unsaved) - 1 /\ DOMAIN unsaved = 1 .. Len(unsaved)
              /\ Len(unsaved) \in Nat
          BY <1>1
        <5>2. DOMAIN g_pic_list' = 1 .. Len(unsaved) - 1
          BY <2>1, <3>1
        <5> QED
          BY <5>1, <5>2
      <4>2. g_pic_list[i + 1] = arrived[unsaved[i + 1]]
        BY <3>0, <4>1 DEF QueueInv
      <4> QED
        BY <1>1, <1>3, <2>1, <4>1, <4>2
    <3> QED
      BY <1>1, <2>1, <3>1, <3>2
  <2>4. SaveInv'
    <3>1. extra = 0 => Head(g_pic_list) = arrived[Head(unsaved)]
      <4>1. 1 \in DOMAIN unsaved
        BY <1>1
      <4> QED
        BY <1>1, <2>1, <4>1 DEF QueueInv
    <3>2. Head(unsaved) \in DOMAIN arrived
      BY <1>1, <1>6
    <3>3. /\ saving'.id = Head(g_pic_list) /\ saving'.pic = Head(unsaved)
          /\ saving'.step = "popped"
      BY <2>2
    <3> QED
      BY <1>3, <3>1, <3>2, <3>3 DEF SaveInv
  <2>5. saving' \in Saving
    BY <1>1, <2>1, <2>2 DEF Saving
  <2>6. PictureTypeOK'
    BY <1>1, <1>3, <2>1, <2>5 DEF PictureTypeOK
  <2> QED
    BY <1>4, <1>5, <2>3, <2>4, <2>6
<1> QED
  BY <1>7, <1>8

LEMMA PictureAgain ==
    ASSUME PictureInv, NEW m \in Nat, SaveAnother(m) PROVE PictureInv'
<1> USE DEF PictureInv
<1>1. UNCHANGED <<now, arrived, g_pic_map, unsaved, file, failed, sent>> /\ saving = NoSave
  BY DEF SaveAnother
<1>2. MapInv' /\ UnsavedInv'
  BY <1>1 DEF MapInv, UnsavedInv
<1>3. CASE g_pic_list = <<>>
  <2>1. UNCHANGED <<g_pic_list, saving, extra>>
    BY <1>3 DEF SaveAnother, PopFront
  <2> QED
    BY <1>1, <1>2, <2>1 DEF PictureTypeOK, SentInv, Holds, QueueInv, FileInv, SaveInv
<1>4. CASE g_pic_list # <<>>
  <2>1. g_pic_list' \in Seq(Nat) /\ Head(g_pic_list) \in Nat
    BY <1>4, TailShifts DEF PictureTypeOK, SaveAnother, PopFront
  <2>2. extra' \in Nat /\ extra' # 0
    BY <1>4 DEF SaveAnother, PictureTypeOK
  <2>3. saving' = [id |-> Head(g_pic_list), pic |-> m, step |-> "popped"]
    BY <1>4 DEF SaveAnother, PopFront
  <2>4. saving' \in Saving /\ saving'.step = "popped"
    BY <2>1, <2>3 DEF Saving
  <2>5. SentInv' /\ QueueInv' /\ FileInv' /\ SaveInv'
    BY <1>1, <2>2, <2>4 DEF SentInv, QueueInv, FileInv, SaveInv
  <2>6. PictureTypeOK'
    BY <1>1, <2>1, <2>2, <2>4 DEF PictureTypeOK
  <2> QED
    BY <1>2, <2>5, <2>6
<1> QED
  BY <1>3, <1>4

\* The file is written under the picture's second, or is not.
LEMMA PictureWritten == PictureInv /\ WriteImage => PictureInv'
<1> SUFFICES ASSUME PictureInv, WriteImage PROVE PictureInv'
  OBVIOUS
<1> USE DEF PictureInv, PictureTypeOK, WriteImage
<1>1. saving \in Saving /\ saving' = [saving EXCEPT !.step = "written"]
  OBVIOUS
<1>2. /\ saving' \in Saving /\ saving'.id = saving.id /\ saving'.pic = saving.pic
      /\ saving'.step = "written"
  BY <1>1 DEF Saving
<1>3. /\ DOMAIN file' = DOMAIN file \cup {saving.id}
      /\ file' = [t \in DOMAIN file' |-> file'[t]]
      /\ file'[saving.id] = saving.pic
      /\ \A t \in DOMAIN file : t # saving.id => file'[t] = file[t]
  BY DEF Put
<1>4. extra = 0 => saving.pic # 0
  BY DEF SaveInv
<1>5. extra = 0 => Holds(saving.id)' /\ \A t : Holds(t) => Holds(t)'
  BY <1>3, <1>4 DEF Holds
<1>6. MapInv' /\ SentInv' /\ UnsavedInv' /\ QueueInv'
  BY <1>5 DEF MapInv, SentInv, UnsavedInv, QueueInv
<1>7. FileInv'
  BY <1>3 DEF FileInv, SaveInv
<1>8. SaveInv'
  BY <1>2, <1>5 DEF SaveInv
<1> QED
  BY <1>2, <1>3, <1>6, <1>7, <1>8

LEMMA PictureNotWritten == PictureInv /\ WriteFails => PictureInv'
<1> SUFFICES ASSUME PictureInv, WriteFails PROVE PictureInv'
  OBVIOUS
<1> USE DEF PictureInv, PictureTypeOK, WriteFails
<1>1. saving \in Saving /\ saving' = [saving EXCEPT !.step = "written"]
  OBVIOUS
<1>2. /\ saving' \in Saving /\ saving'.id = saving.id /\ saving'.pic = saving.pic
      /\ saving'.step = "written"
  BY <1>1 DEF Saving
<1>3. /\ file' = [t \in DOMAIN file' |-> file'[t]]
      /\ \A t \in DOMAIN file' : file'[t] # 0 => t \in DOMAIN file /\ file'[t] = file[t]
      /\ \A t \in DOMAIN file : t # saving.id => t \in DOMAIN file' /\ file'[t] = file[t]
  BY DEF Put
<1>4. saving.id \in failed' /\ failed \subseteq failed'
  OBVIOUS
<1>5. \A t : Holds(t) => Holds(t)' \/ t \in failed'
  BY <1>3, <1>4 DEF Holds
<1>6. MapInv' /\ SentInv' /\ UnsavedInv' /\ QueueInv'
  BY <1>4, <1>5 DEF MapInv, SentInv, UnsavedInv, QueueInv
<1>7. FileInv'
  BY <1>3 DEF FileInv
<1>8. SaveInv'
  BY <1>2, <1>4 DEF SaveInv
<1> QED
  BY <1>2, <1>3, <1>6, <1>7, <1>8

LEMMA PictureSent == PictureInv /\ SendPicMsg => PictureInv'
<1> SUFFICES ASSUME PictureInv, SendPicMsg PROVE PictureInv'
  OBVIOUS
<1> USE DEF PictureInv, PictureTypeOK, SendPicMsg
<1>1. saving \in Saving /\ saving' = [saving EXCEPT !.step = "sent"]
  OBVIOUS
<1>2. /\ saving' \in Saving /\ saving'.id = saving.id /\ saving'.pic = saving.pic
      /\ saving'.step = "sent" /\ saving.id \in Nat
  BY <1>1 DEF Saving
<1>3. g_pic_map[saving.id] \in Nat
  BY DEF MapInv
<1>4. SentInv'
  BY <1>2 DEF SentInv, Holds, SaveInv, MapInv
<1>5. SaveInv'
  BY <1>2 DEF SaveInv, Holds
<1> QED
  BY <1>2, <1>3, <1>4, <1>5, SMTT(30) DEF MapInv, UnsavedInv, QueueInv, FileInv

LEMMA PictureStep == PictureInv /\ [Step]_vars => PictureInv'
<1> SUFFICES ASSUME PictureInv, [Step]_vars PROVE PictureInv'
  OBVIOUS
<1> USE DEF PictureInv
<1>1. CASE UNCHANGED vars
  BY <1>1 DEF vars, PictureTypeOK, MapInv, SentInv, Holds, UnsavedInv, QueueInv, FileInv,
              SaveInv
<1>2. CASE Tick
  BY <1>2 DEF Tick, PictureTypeOK, MapInv, SentInv, Holds, UnsavedInv, QueueInv, FileInv,
              SaveInv
<1>3. CASE TooSmall \/ NotSent
  BY <1>3, ZenonT(40) DEF TooSmall, NotSent, PictureTypeOK, MapInv, SentInv, Holds,
              UnsavedInv, QueueInv, FileInv, SaveInv
<1>4. CASE EraseEntry
  BY <1>4 DEF EraseEntry, Erase, PictureTypeOK, MapInv, SentInv, Holds, UnsavedInv,
              QueueInv, FileInv, SaveInv
<1>5. CASE PicturesForgotten
  BY <1>5 DEF PicturesForgotten, Empty, PictureTypeOK, MapInv, SentInv, UnsavedInv,
              QueueInv, FileInv, SaveInv
<1>6. ASSUME NEW m \in 1 .. MaxMessages, SaveAnother(m) PROVE PictureInv'
  BY <1>6, PictureAssumption, PictureAgain
<1> QED
  BY <1>1, <1>2, <1>3, <1>4, <1>5, <1>6, PictureMessage, PictureSaved, PictureWritten,
     PictureNotWritten, PictureSent DEF Step, Next

LEMMA PicturesMatch == PictureInv => PictureOfTheSecond
  BY DEF PictureInv, PictureOfTheSecond, FileInv, SentInv, Holds

\* While no second picture takes an id that waits, whatever is too small, cannot
\* be written, finds no window or has lost its entry, a message is sent with the
\* name of a file that holds a picture of its own second, or that no picture of
\* that second could be written to (CSaveImage.cpp:90, 162-178, ChatRecord.cpp:293).
THEOREM PictureAndMessage == Spec => []PictureOfTheSecond
<1>1. PictureInv /\ [Next]_vars => PictureInv'
  BY PictureStep DEF Step
<1> QED
  BY PictureInit, <1>1, PicturesMatch, PTL DEF Spec
-----------------------------------------------------------------------------
(* The login. *)

\* Whoever waits for a login without a reason to wait in vain has a helper that
\* will look, or a thread that looks.
WaitInv ==
    robot \in {"injected", "login"} /\ alone = {} =>
        helper = "loaded" \/ watcher = "looking"

Startups ==
    \/ StartRobot \/ OpenWeChat \/ AlreadyInjected \/ LoadHelper \/ LoadFails \/ InjectFails
    \/ OpenLogin \/ InitWindow \/ SetHooks \/ RegisterWindow \/ CheckIsLogin
    \/ CloseLogin \/ RobotDies \/ ShowQrPicture \/ ShowPicture \/ SaveImg
    \/ Login \/ LogoutWeChat \/ ReopenWeChat \/ ExitWeChat
    \/ HookQrCode /\ UNCHANGED <<wechat, version, helper, watcher, robot, own, starts,
                                 alone>>
-----------------------------------------------------------------------------
\* What the composition does to who shows which window is a step of the
\* programs' start-up, or nothing.
LEMMA StartupsOfBridge == BridgeNext => Startups \/ UNCHANGED startupVars
<1> SUFFICES ASSUME BridgeNext PROVE Startups \/ UNCHANGED startupVars
  OBVIOUS
<1>1. CASE ComingUp
  BY <1>1 DEF ComingUp, Startups
<1>2. CASE Starting
  BY <1>2 DEF Starting, Startups
<1>3. CASE Welcome
  BY <1>3 DEF Welcome, Startups
<1>4. CASE WeChatCloses
  BY <1>4 DEF WeChatCloses, Startups
<1>5. CASE MainCloses \/ RobotBursts
  BY <1>5 DEF MainCloses, RobotBursts, CloseMain, Startups
<1>6. CASE \E a \in Account : LoginOf(a)
  BY <1>6 DEF LoginOf, Startups
<1>7. CASE FriendsListed \/ Clicks \/ UserCommands \/ ApiCommands \/ Returning
  BY <1>7 DEF FriendsListed, Clicks, UserCommands, ApiCommands, Returning, OnlyFriends,
              OnlyDialogs, NotStarting
<1>8. CASE Served
  <2>1. PICK c \in Caller :
            LET did == WndProc(calls[c].frame)
            IN  CASE did[1] = "LogoutWeChat" /\ wechat = "loggedIn" -> LogoutWeChat
                  [] did[1] = "ShowQrPicture" ->
                        /\ HookQrCode
                        /\ UNCHANGED <<wechat, version, helper, watcher, robot, own,
                                       starts, alone>>
                  [] OTHER -> UNCHANGED startupVars
    BY <1>8 DEF Served
  <2> DEFINE did == WndProc(calls[c].frame)
  <2> HIDE DEF did
  <2> QED
    BY <2>1 DEF Startups, did
<1>9. CASE Downloading \/ Pictures
  BY <1>9 DEF Downloading, Pictures, NotStarting
<1> QED
  BY <1>1, <1>2, <1>3, <1>4, <1>5, <1>6, <1>7, <1>8, <1>9 DEF BridgeNext

LEMMA WaitInit == BridgeInit => WaitInv
  BY DEF BridgeInit, AtWork, StartupInit, WaitInv

LEMMA WaitStep == WaitInv /\ (Startups \/ UNCHANGED startupVars) => WaitInv'
<1> SUFFICES ASSUME WaitInv, Startups \/ UNCHANGED startupVars PROVE WaitInv'
  OBVIOUS
<1> USE DEF WaitInv
<1>1. CASE UNCHANGED startupVars
  BY <1>1 DEF startupVars
<1>2. CASE StartRobot \/ OpenWeChat \/ AlreadyInjected \/ LoadHelper \/ LoadFails \/ InjectFails
  BY <1>2 DEF StartRobot, OpenWeChat, AlreadyInjected, LoadHelper, LoadFails, InjectFails
<1>3. CASE OpenLogin \/ SetHooks \/ RegisterWindow \/ RobotDies
  BY <1>3 DEF OpenLogin, SetHooks, RegisterWindow, RobotDies
<1>4. CASE InitWindow
  BY <1>4 DEF InitWindow
<1>5. CASE CheckIsLogin
  BY <1>5 DEF CheckIsLogin, LoginWindow
<1>6. CASE CloseLogin \/ ExitWeChat
  BY <1>6 DEF CloseLogin, ExitWeChat, WeChatGone
<1>7. CASE ShowQrPicture \/ ShowPicture \/ SaveImg
  BY <1>7 DEF ShowQrPicture, ShowPicture, SaveImg
<1>8. CASE Login \/ LogoutWeChat \/ ReopenWeChat
  BY <1>8 DEF Login, LogoutWeChat, ReopenWeChat
<1>9. CASE HookQrCode /\ UNCHANGED <<wechat, version, helper, watcher, robot, own,
                                     starts, alone>>
  BY <1>9
<1> QED
  BY <1>1, <1>2, <1>3, <1>4, <1>5, <1>6, <1>7, <1>8, <1>9 DEF Startups

LEMMA WaitGivesReason == WaitInv => StuckForAReason
  BY DEF WaitInv, StuckForAReason, Stuck

\* Whatever else the two programs do, and however often each starts and ends, a
\* robot waits for a login that has taken place only for one of the five reasons
\* (InitWeChat.cpp, CheckIsLogin; CInjectTools.cpp, InjectDll; WndMsgLoop.cpp,
\* InitWindow).
THEOREM ReasonToBeStuck == BridgeSpec => []StuckForAReason
<1>1. WaitInv /\ [BridgeNext]_bridgeVars => WaitInv'
  <2>1. CASE BridgeNext
    BY <2>1, StartupsOfBridge, WaitStep
  <2>2. CASE UNCHANGED bridgeVars
    BY <2>2, WaitStep DEF bridgeVars
  <2> QED
    BY <2>1, <2>2
<1> QED
  BY WaitInit, <1>1, WaitGivesReason, PTL DEF BridgeSpec
-----------------------------------------------------------------------------
\* What the composition does to the pictures is what PictureQueue does, or an
\* end of WeChat, or nothing.
LEMMA PicturesOfBridge == BridgeNext => [Step]_vars
<1> SUFFICES ASSUME BridgeNext PROVE Step \/ UNCHANGED vars
  OBVIOUS
<1>1. CASE ComingUp \/ Starting \/ Welcome \/ MainCloses \/ RobotBursts
  BY <1>1 DEF ComingUp, Starting, Still, Welcome, MainCloses, RobotBursts
<1>2. CASE WeChatCloses
  BY <1>2 DEF WeChatCloses, Step
<1>3. CASE \E a \in Account : LoginOf(a)
  BY <1>3 DEF LoginOf
<1>4. CASE FriendsListed \/ Clicks \/ UserCommands \/ ApiCommands \/ Returning
  BY <1>4 DEF FriendsListed, Clicks, UserCommands, ApiCommands, Returning, OnlyFriends,
              OnlyDialogs
<1>5. CASE Served \/ Downloading
  BY <1>5 DEF Served, Downloading
<1>6. CASE Pictures
  BY <1>6 DEF Pictures, Step, Next
<1> QED
  BY <1>1, <1>2, <1>3, <1>4, <1>5, <1>6 DEF BridgeNext

\* The pairing holds in the two programs together, WeChat's ends included.
THEOREM PictureAndMessageOfBridge == BridgeSpec => []PictureOfTheSecond
<1>1. BridgeInit => PictureInv
  BY PictureInit DEF BridgeInit
<1>2. PictureInv /\ [BridgeNext]_bridgeVars => PictureInv'
  <2>1. CASE BridgeNext
    BY <2>1, PicturesOfBridge, PictureStep
  <2>2. CASE UNCHANGED bridgeVars
    <3>1. UNCHANGED vars
      BY <2>2 DEF bridgeVars
    <3> QED
      BY <3>1, PictureStep
  <2> QED
    BY <2>1, <2>2
<1> QED
  BY <1>1, <1>2, PicturesMatch, PTL DEF BridgeSpec
-----------------------------------------------------------------------------
(* A message whose picture has come is lost for a reason. *)

\* The only message of its second; the message whose picture is being saved and
\* has not been sent.
Alone(m) == \A k \in DOMAIN arrived : arrived[k] = arrived[m] => k = m
InHand(m) == saving # NoSave /\ saving.pic = m /\ saving.step # "sent"

\* The picture in hand is not one of those to come.
HandInv == saving # NoSave => saving.pic + Len(unsaved) <= Len(arrived)

\* A message alone in its second has an entry until its picture is sent, and when
\* its picture is not to come and not in hand it has been sent or is excused.
EntryInv ==
    extra = 0 => \A m \in DOMAIN arrived :
        Alone(m) /\ (m + Len(unsaved) > Len(arrived) \/ InHand(m))
            => arrived[m] \in DOMAIN g_pic_map
LossInv ==
    extra = 0 => \A m \in DOMAIN arrived :
        m + Len(unsaved) <= Len(arrived) =>
            m \in excused \/ ~Alone(m) \/ (\E s \in sent : s.msg = m) \/ InHand(m)

ReasonInv == HandInv /\ EntryInv /\ LossInv

LEMMA TwoAreMany ==
    ASSUME NEW S, IsFiniteSet(S), NEW a \in S, NEW b \in S, a # b
    PROVE  Cardinality(S) > 1
<1>1. IsFiniteSet({a}) /\ Cardinality({a}) = 1
  BY FS_Singleton
<1>2. Cardinality({a} \cup {b}) = 2
  BY <1>1, FS_AddElement
<1>3. Cardinality({a} \cup {b}) <= Cardinality(S)
  BY FS_Subset
<1>4. Cardinality(S) \in Nat
  BY FS_CardinalityType
<1> QED
  BY <1>2, <1>3, <1>4

LEMMA PictureLengths ==
    PictureInv => /\ Len(arrived) \in Nat /\ DOMAIN arrived = 1 .. Len(arrived)
                  /\ Len(unsaved) \in Nat /\ Len(unsaved) <= Len(arrived)
  BY DEF PictureInv, PictureTypeOK, UnsavedInv

LEMMA ReasonInit == Init => ReasonInv
  BY DEF Init, ReasonInv, HandInv, EntryInv, LossInv

LEMMA ReasonMessage ==
    ASSUME PictureInv, ReasonInv, SendWxMessage PROVE ReasonInv'
<1> DEFINE n == Len(arrived)
           u == Len(unsaved)
<1>1. n \in Nat /\ u \in Nat /\ u <= n /\ DOMAIN arrived = 1 .. n /\ now \in Nat
  BY PictureLengths DEF PictureInv, PictureTypeOK
<1>2. /\ Len(arrived') = n + 1 /\ DOMAIN arrived' = 1 .. n + 1
      /\ \A m \in 1 .. n : arrived'[m] = arrived[m]
      /\ arrived'[n + 1] = now
      /\ Len(unsaved') = u + 1
  BY AppendKeeps, <1>1 DEF SendWxMessage, PictureInv, PictureTypeOK
<1>3. DOMAIN g_pic_map \cup {now} \subseteq DOMAIN g_pic_map'
  BY DEF SendWxMessage, Put
<1>4. UNCHANGED <<saving, sent, excused, extra>>
  BY DEF SendWxMessage
<1> HIDE DEF n, u
<1>5. \A m : InHand(m)' <=> InHand(m)
  BY <1>4 DEF InHand
<1>6. \A m \in 1 .. n : Alone(m)' => Alone(m)
  <2>1. \A k \in 1 .. n : k \in 1 .. n + 1
    BY <1>1
  <2> QED
    BY <1>1, <1>2, <2>1 DEF Alone
<1>7. \A m \in 1 .. n + 1 : m \in 1 .. n \/ m = n + 1
  BY <1>1
<1>8. HandInv'
  <2> SUFFICES ASSUME saving # NoSave PROVE saving.pic + (u + 1) <= n + 1
    BY <1>2, <1>4 DEF HandInv
  <2>1. saving.pic \in Nat
    BY DEF PictureInv, PictureTypeOK, Saving
  <2>2. saving.pic + u <= n
    BY DEF ReasonInv, HandInv, n, u
  <2> QED
    BY <1>1, <2>1, <2>2
<1>9. EntryInv'
  <2> SUFFICES ASSUME extra = 0, NEW m \in 1 .. n + 1, Alone(m)',
                      m + (u + 1) > n + 1 \/ InHand(m)
               PROVE  arrived'[m] \in DOMAIN g_pic_map'
    BY <1>2, <1>4, <1>5 DEF EntryInv
  <2>1. CASE m = n + 1
    BY <1>2, <1>3, <2>1
  <2>2. CASE m \in 1 .. n
    <3>1. m + u > n \/ InHand(m)
      BY <1>1, <2>2
    <3>2. arrived[m] \in DOMAIN g_pic_map
      BY <1>1, <1>6, <2>2, <3>1 DEF ReasonInv, EntryInv, n, u
    <3> QED
      BY <1>2, <1>3, <2>2, <3>2
  <2> QED
    BY <1>7, <2>1, <2>2
<1>10. LossInv'
  <2> SUFFICES ASSUME extra = 0, NEW m \in 1 .. n + 1, m + (u + 1) <= n + 1
               PROVE  m \in excused \/ ~Alone(m)' \/ (\E s \in sent : s.msg = m) \/ InHand(m)
    BY <1>2, <1>4, <1>5 DEF LossInv
  <2>1. m \in 1 .. n /\ m + u <= n
    BY <1>1
  <2> QED
    BY <1>1, <1>6, <2>1 DEF ReasonInv, LossInv, n, u
<1> QED
  BY <1>8, <1>9, <1>10 DEF ReasonInv

LEMMA ReasonSaved ==
    ASSUME PictureInv, ReasonInv, SavePicture PROVE ReasonInv'
<1> DEFINE n == Len(arrived)
           u == Len(unsaved)
<1>1. n \in Nat /\ u \in Nat /\ u <= n /\ DOMAIN arrived = 1 .. n
  BY PictureLengths
<1>2. /\ Len(unsaved') = u - 1 /\ u # 0
      /\ Head(unsaved) = n - u + 1 /\ Head(unsaved) \in Nat
  <2>1. unsaved \in Seq(Nat) /\ unsaved # <<>> /\ unsaved' = Tail(unsaved)
    BY DEF SavePicture, PictureInv, PictureTypeOK
  <2>2. /\ Len(Tail(unsaved)) = u - 1 /\ u \in Nat \ {0} /\ Head(unsaved) = unsaved[1]
        /\ DOMAIN unsaved = 1 .. u
    BY <2>1, TailShifts
  <2>3. unsaved[1] = n - u + 1
    BY <2>2 DEF PictureInv, UnsavedInv
  <2> QED
    BY <1>1, <2>1, <2>2, <2>3
<1>3. saving = NoSave /\ UNCHANGED <<arrived, g_pic_map, sent, excused, extra>>
  BY DEF SavePicture
<1> HIDE DEF n, u
<1>4. Len(arrived') = n /\ DOMAIN arrived' = 1 .. n /\ \A m : Alone(m)' <=> Alone(m)
  BY <1>1, <1>3 DEF Alone, n
<1>5. CASE g_pic_list = <<>>
  <2>1. extra # 0
    BY <1>2, <1>5 DEF PictureInv, QueueInv, u
  <2>2. saving' = NoSave
    BY <1>3, <1>5 DEF SavePicture, PopFront
  <2> QED
    BY <1>3, <2>1, <2>2 DEF ReasonInv, HandInv, EntryInv, LossInv
<1>6. CASE g_pic_list # <<>>
  <2>1. saving' = [id |-> Head(g_pic_list), pic |-> Head(unsaved), step |-> "popped"]
    BY <1>6 DEF SavePicture, PopFront
  <2>2. Head(g_pic_list) \in Nat
    BY <1>6, TailShifts DEF PictureInv, PictureTypeOK
  <2>3. saving' # NoSave /\ saving'.pic = n - u + 1 /\ saving'.step = "popped"
    BY <1>2, <2>1, <2>2, PictureAssumption
  <2>4. \A m : InHand(m)' <=> m = n - u + 1
    BY <2>3 DEF InHand
  <2>5. \A m : ~InHand(m)
    BY <1>3 DEF InHand
  <2>6. HandInv'
    BY <1>1, <1>2, <1>4, <2>3 DEF HandInv
  <2>7. EntryInv'
    <3> SUFFICES ASSUME extra = 0, NEW m \in 1 .. n, Alone(m),
                        m + (u - 1) > n \/ m = n - u + 1
                 PROVE  arrived[m] \in DOMAIN g_pic_map
      BY <1>2, <1>3, <1>4, <2>4 DEF EntryInv
    <3>1. m + u > n
      BY <1>1
    <3> QED
      BY <1>1, <3>1 DEF ReasonInv, EntryInv, n, u
  <2>8. LossInv'
    <3> SUFFICES ASSUME extra = 0, NEW m \in 1 .. n, m + (u - 1) <= n
                 PROVE  \/ m \in excused \/ ~Alone(m) \/ (\E s \in sent : s.msg = m)
                        \/ m = n - u + 1
      BY <1>2, <1>3, <1>4, <2>4 DEF LossInv
    <3>1. m + u <= n \/ m = n - u + 1
      BY <1>1
    <3> QED
      BY <1>1, <2>5, <3>1 DEF ReasonInv, LossInv, n, u
  <2> QED
    BY <2>6, <2>7, <2>8 DEF ReasonInv
<1> QED
  BY <1>5, <1>6

LEMMA ReasonAgain ==
    ASSUME PictureInv, ReasonInv, NEW k \in Nat, SaveAnother(k) PROVE ReasonInv'
<1>1. UNCHANGED <<arrived, g_pic_map, unsaved, sent, excused>> /\ saving = NoSave
      /\ k + Len(unsaved) <= Len(arrived)
  BY DEF SaveAnother
<1>2. CASE g_pic_list = <<>>
  <2>1. UNCHANGED <<extra, saving>>
    BY <1>2 DEF SaveAnother, PopFront
  <2> QED
    BY <1>1, <2>1 DEF ReasonInv, HandInv, EntryInv, LossInv, Alone, InHand
<1>3. CASE g_pic_list # <<>>
  <2>1. extra' # 0 /\ saving'.pic = k
    BY <1>3 DEF SaveAnother, PopFront, PictureInv, PictureTypeOK
  <2> QED
    BY <1>1, <2>1 DEF ReasonInv, HandInv, EntryInv, LossInv
<1> QED
  BY <1>2, <1>3

\* The steps of the save under way.
LEMMA ReasonSaving ==
    ASSUME PictureInv, ReasonInv,
           TooSmall \/ WriteImage \/ WriteFails \/ NotSent \/ SendPicMsg \/ EraseEntry
    PROVE  ReasonInv'
<1> DEFINE p == saving.pic
           n == Len(arrived)
           u == Len(unsaved)
<1>1. /\ n \in Nat /\ u \in Nat /\ u <= n /\ DOMAIN arrived = 1 .. n
      /\ saving # NoSave /\ saving \in Saving
      /\ UNCHANGED <<arrived, unsaved, extra>>
  BY PictureLengths DEF TooSmall, WriteImage, WriteFails, NotSent, SendPicMsg, EraseEntry,
                        PictureInv, PictureTypeOK
<1>2. p \in Nat /\ p + u <= n
  BY <1>1 DEF Saving, ReasonInv, HandInv
<1>3. \A m : Alone(m)' <=> Alone(m)
  BY <1>1 DEF Alone
<1>4. ASSUME extra = 0
      PROVE  /\ p \in 1 .. n /\ arrived[p] = saving.id /\ p \in At(saving.id)
             /\ \A m \in 1 .. n : Alone(m) /\ arrived[m] = saving.id => m = p
             /\ InHand(p) /\ Alone(p) => saving.id \in DOMAIN g_pic_map
             /\ \A m \in 1 .. n : m + u > n /\ Alone(m) => arrived[m] \in DOMAIN g_pic_map
             /\ \A m \in 1 .. n : m + u <= n /\ Alone(m) /\ m \notin excused
                    => (\E s \in sent : s.msg = m) \/ InHand(m)
  <2>1. p \in 1 .. n /\ arrived[p] = saving.id
    BY <1>1, <1>4 DEF PictureInv, SaveInv
  <2> QED
    BY <1>1, <1>4, <2>1 DEF At, Alone, ReasonInv, EntryInv, LossInv
<1>5. CASE WriteImage \/ WriteFails
  <2>1. saving' = [saving EXCEPT !.step = "written"] /\ saving.step = "popped"
        /\ UNCHANGED <<g_pic_map, sent, excused>>
    BY <1>5 DEF WriteImage, WriteFails
  <2>2. saving'.pic = saving.pic /\ saving'.step = "written"
    BY <1>1, <2>1 DEF Saving
  <2>3. saving' # NoSave
    BY <1>1, <2>1, PictureAssumption DEF Saving
  <2>4. \A m : InHand(m)' <=> InHand(m)
    BY <1>1, <2>1, <2>2, <2>3 DEF InHand
  <2> QED
    BY <1>1, <1>3, <2>1, <2>2, <2>4 DEF ReasonInv, HandInv, EntryInv, LossInv
<1> HIDE DEF p, n, u
<1>6. \A m : InHand(m) => m = p
  BY DEF InHand, p
<1>7. ASSUME \A m : ~InHand(m)', UNCHANGED g_pic_map PROVE EntryInv'
  BY <1>1, <1>3, <1>7 DEF ReasonInv, EntryInv
<1>8. ASSUME \A m : ~InHand(m)', excused \subseteq excused', sent \subseteq sent',
             extra = 0 /\ InHand(p) /\ Alone(p) => p \in excused' \/ \E s \in sent' : s.msg = p
      PROVE  LossInv'
  <2> SUFFICES ASSUME extra = 0, NEW m \in 1 .. n, m + u <= n, Alone(m), m \notin excused'
               PROVE  \E s \in sent' : s.msg = m
    BY <1>1, <1>3 DEF LossInv, n, u
  <2> QED
    BY <1>4, <1>6, <1>8
<1>9. CASE TooSmall \/ NotSent
  <2>1. saving' = NoSave /\ UNCHANGED <<g_pic_map, sent>> /\ excused \subseteq excused'
    BY <1>9 DEF TooSmall, NotSent
  <2>2. \A m : ~InHand(m)'
    BY <2>1 DEF InHand
  <2>3. extra = 0 /\ InHand(p) /\ Alone(p) => p \in excused'
    BY <1>4, <1>9 DEF TooSmall, NotSent
  <2>4. HandInv'
    BY <2>1 DEF HandInv
  <2> QED
    BY <1>7, <1>8, <2>1, <2>2, <2>3, <2>4 DEF ReasonInv
<1>10. CASE SendPicMsg
  <2>1. /\ saving' = [saving EXCEPT !.step = "sent"] /\ saving.id \in DOMAIN g_pic_map
        /\ sent' = sent \cup {[msg |-> g_pic_map[saving.id], id |-> saving.id]}
        /\ UNCHANGED <<g_pic_map, excused>>
    BY <1>10 DEF SendPicMsg
  <2>2. saving'.step = "sent" /\ saving'.pic = p
    BY <1>1, <2>1 DEF Saving, p
  <2>3. \A m : ~InHand(m)'
    BY <2>2 DEF InHand
  <2>4. HandInv'
    BY <1>1, <1>2, <2>2 DEF HandInv, n, u
  <2>5. extra = 0 /\ Alone(p) => \E s \in sent' : s.msg = p
    <3>0. [msg |-> g_pic_map[saving.id], id |-> saving.id] \in sent'
      BY <2>1
    <3> SUFFICES ASSUME extra = 0, Alone(p) PROVE g_pic_map[saving.id] = p
      BY <3>0
    <3>1. g_pic_map[saving.id] \in DOMAIN arrived
          /\ arrived[g_pic_map[saving.id]] = saving.id
      BY <2>1 DEF PictureInv, MapInv
    <3>2. arrived[p] = saving.id
      BY <1>4
    <3> QED
      BY <3>1, <3>2 DEF Alone
  <2> QED
    BY <1>7, <1>8, <2>1, <2>3, <2>4, <2>5 DEF ReasonInv
<1>11. CASE EraseEntry
  <2>1. /\ saving' = NoSave /\ saving.step = "sent" /\ UNCHANGED <<sent, excused>>
        /\ DOMAIN g_pic_map' = DOMAIN g_pic_map \ {saving.id}
    BY <1>11 DEF EraseEntry, Erase
  <2>2. (\A m : ~InHand(m)') /\ ~InHand(p)
    BY <2>1 DEF InHand
  <2>3. HandInv'
    BY <2>1 DEF HandInv
  <2>4. EntryInv'
    <3> SUFFICES ASSUME extra = 0, NEW m \in 1 .. n, Alone(m), m + u > n
                 PROVE  arrived[m] \in DOMAIN g_pic_map \ {saving.id}
      BY <1>1, <1>3, <2>1, <2>2 DEF EntryInv, n, u
    <3>1. m # p
      BY <1>1, <1>2
    <3> QED
      BY <1>4, <3>1
  <2> QED
    BY <1>8, <2>1, <2>2, <2>3, <2>4 DEF ReasonInv
<1> QED
  BY <1>5, <1>9, <1>10, <1>11

LEMMA ReasonStep == PictureInv /\ ReasonInv /\ [Step]_vars => ReasonInv'
<1> SUFFICES ASSUME PictureInv, ReasonInv, [Step]_vars PROVE ReasonInv'
  OBVIOUS
<1>1. CASE UNCHANGED vars
  BY <1>1 DEF vars, ReasonInv, HandInv, EntryInv, LossInv, Alone, InHand
<1>2. CASE Tick
  BY <1>2 DEF Tick, ReasonInv, HandInv, EntryInv, LossInv, Alone, InHand
<1>3. CASE PicturesForgotten
  BY <1>3 DEF PicturesForgotten, ReasonInv, HandInv, EntryInv, LossInv
<1>4. ASSUME NEW k \in 1 .. MaxMessages, SaveAnother(k) PROVE ReasonInv'
  BY <1>4, ReasonAgain, PictureAssumption
<1> QED
  BY <1>1, <1>2, <1>3, <1>4, ReasonMessage, ReasonSaved, ReasonSaving DEF Step, Next

LEMMA ReasonFollows == PictureInv /\ ReasonInv => LostForAReason
<1> SUFFICES ASSUME PictureInv, ReasonInv, extra = 0, saving = NoSave,
                    NEW m \in 1 .. Len(arrived) - Len(unsaved),
                    m \notin excused, ~\E s \in sent : s.msg = m
             PROVE  Cardinality(At(arrived[m])) > 1
  BY DEF LostForAReason
<1>1. m \in DOMAIN arrived /\ m + Len(unsaved) <= Len(arrived)
      /\ DOMAIN arrived = 1 .. Len(arrived) /\ Len(arrived) \in Nat
  BY PictureLengths
<1>2. ~Alone(m)
  BY <1>1 DEF ReasonInv, LossInv, InHand
<1>3. PICK k \in DOMAIN arrived : arrived[k] = arrived[m] /\ k # m
  BY <1>2 DEF Alone
<1>4. k \in At(arrived[m]) /\ m \in At(arrived[m])
  BY <1>1, <1>3 DEF At
<1>5. IsFiniteSet(At(arrived[m]))
  <2>1. IsFiniteSet(1 .. Len(arrived))
    BY <1>1, FS_Interval
  <2>2. At(arrived[m]) \subseteq 1 .. Len(arrived)
    BY DEF At
  <2> QED
    BY <2>1, <2>2, FS_Subset
<1> QED
  BY <1>3, <1>4, <1>5, TwoAreMany

\* In the two programs together, too, an image message that never reaches the
\* robot was too small, came while nobody was there, or shared its second
\* (CSaveImage.cpp, FnSaveImagesCore).
THEOREM LostPictures == BridgeSpec => []LostForAReason
<1>1. BridgeInit => PictureInv /\ ReasonInv
  BY PictureInit, ReasonInit DEF BridgeInit
<1>2. PictureInv /\ ReasonInv /\ [BridgeNext]_bridgeVars => PictureInv' /\ ReasonInv'
  <2>1. CASE BridgeNext
    BY <2>1, PicturesOfBridge, PictureStep, ReasonStep
  <2>2. CASE UNCHANGED bridgeVars
    <3>1. UNCHANGED vars
      BY <2>2 DEF bridgeVars
    <3> QED
      BY <3>1, PictureStep, ReasonStep
  <2> QED
    BY <2>1, <2>2
<1> QED
  BY <1>1, <1>2, ReasonFollows, PTL DEF BridgeSpec
-----------------------------------------------------------------------------
(* A message carries the whole file of its own URL. *)

Works == [task : Task, cut : BOOLEAN, step : {"asking", "writing", "ready"}]
DownTypes ==
    /\ tasks \in [Worker -> Seq(Task)]
    /\ work \in [Worker -> Works \cup {Idle}]
    /\ asked \subseteq Task /\ IsFiniteSet(asked)
    /\ \A f \in DOMAIN disk : disk[f] \in Contents

\* A worker has tasks of its own contacts only.
TaskInv ==
    \A w \in Worker :
        /\ \A i \in 1 .. Len(tasks[w]) :
               tasks[w][i] \in asked /\ WorkerOf[tasks[w][i].to] = w
        /\ work[w] # Idle => work[w].task \in asked /\ WorkerOf[work[w].task.to] = w

\* A file name without an excuse: one URL, one worker, no download broken off.
NameOf(t) == FileOf[t.url]
Plain(f) ==
    /\ f \notin torn
    /\ \A s, t \in asked : NameOf(s) = f /\ NameOf(t) = f =>
           s.url = t.url /\ WorkerOf[s.to] = WorkerOf[t.to]
Writes(w, f) == Doing(w, "writing") /\ Name(w) = f

\* The file of such a name is whole or being written, and its writer alone with it.
Sound(f) ==
    /\ \A t \in asked : NameOf(t) = f => disk[f].of = {t.url}
    /\ disk[f].whole \/ \E w \in Worker : Writes(w, f)
    /\ \A w \in Worker : Writes(w, f) => ~work[w].cut
DiskInv ==
    /\ \A f \in DOMAIN disk : \E t \in asked : NameOf(t) = f
    /\ \A w \in Worker :
           /\ Doing(w, "writing") \/ Doing(w, "ready") => Name(w) \in DOMAIN disk
           /\ Doing(w, "asking") => ~work[w].cut
    /\ \A f \in DOMAIN disk : Plain(f) => Sound(f)
HandedInv ==
    \A h \in handed :
        /\ \E t \in asked : t.url = h.url
        /\ Plain(FileOf[h.url]) => h.of = {h.url} /\ h.whole

DownInv == DownTypes /\ TaskInv /\ DiskInv /\ HandedInv

Downloads ==
    \/ \E c \in Contact, u \in Url : SendFileMsg(c, u)
    \/ \E w \in Worker :
           \/ CheckFile(w) \/ NoAnswer(w) \/ OpenFile(w) \/ Downloaded(w)
           \/ BreaksOff(w) \/ SendFile(w, HelperWindow)
    \/ WorkersGone

LEMMA DownloadsOfBridge == BridgeNext => Downloads \/ UNCHANGED downloadVars
<1> SUFFICES ASSUME BridgeNext PROVE Downloads \/ UNCHANGED downloadVars
  OBVIOUS
<1>1. CASE ComingUp
  BY <1>1 DEF ComingUp, RobotSide, RobotEnds, Downloads
<1>2. CASE Starting
  BY <1>2 DEF Starting, Still, RobotSide, RobotEnds, Downloads
<1>3. CASE Welcome
  BY <1>3 DEF Welcome
<1>4. CASE WeChatCloses
  BY <1>4 DEF WeChatCloses, Downloads
<1>5. CASE MainCloses \/ RobotBursts
  BY <1>5 DEF MainCloses, RobotBursts, RobotEnds, Downloads
<1>6. CASE \E a \in Account : LoginOf(a)
  BY <1>6 DEF LoginOf
<1>7. CASE FriendsListed \/ Clicks \/ UserCommands \/ ApiCommands \/ Returning
  BY <1>7 DEF FriendsListed, Clicks, UserCommands, ApiCommands, Returning, OnlyFriends,
              OnlyDialogs
<1>8. CASE Served
  BY <1>8 DEF Served
<1>9. CASE Downloading
  BY <1>9 DEF Downloading, Downloads
<1>10. CASE Pictures
  BY <1>10 DEF Pictures
<1> QED
  BY <1>1, <1>2, <1>3, <1>4, <1>5, <1>6, <1>7, <1>8, <1>9, <1>10 DEF BridgeNext

LEMMA DownInit == DownloadInit => DownInv
<1> SUFFICES ASSUME DownloadInit PROVE DownInv
  OBVIOUS
<1>1. /\ tasks = [w \in Worker |-> <<>>] /\ work = [w \in Worker |-> Idle]
      /\ DOMAIN disk = {} /\ handed = {} /\ asked = {}
  BY DEF DownloadInit
<1>2. DownTypes
  BY <1>1, EmptySeq, FS_EmptySet DEF DownTypes
<1> QED
  BY <1>1, <1>2 DEF DownInv, TaskInv, DiskInv, HandedInv, Doing

\* What is asked for is never less, and a torn file never mended.
LEMMA PlainShrinks ==
    ASSUME asked \subseteq asked', torn \subseteq torn', NEW f, Plain(f)' PROVE Plain(f)
  BY DEF Plain

\* Of a name without an excuse only one worker has tasks.
LEMMA OneWorker ==
    ASSUME DownInv, NEW w \in Worker, NEW v \in Worker, work[w] # Idle, work[v] # Idle,
           Name(v) = Name(w), Plain(Name(w))
    PROVE  v = w
  BY DEF DownInv, TaskInv, Plain, Name, NameOf

LEMMA DownAsked ==
    ASSUME DownInv, NEW c \in Contact, NEW u \in Url, SendFileMsg(c, u) PROVE DownInv'
<1> DEFINE t == [to |-> c, url |-> u]
           w == WorkerOf[c]
           s == tasks[w]
<1>1. /\ tasks' = [tasks EXCEPT ![w] = Append(s, t)]
      /\ asked' = asked \cup {t}
      /\ UNCHANGED <<work, disk, handed, torn>>
  BY DEF SendFileMsg
<1>2. t \in Task /\ t.to = c /\ w \in Worker
  BY DownloadAssumption DEF Task
<1>3. s \in Seq(Task)
  BY <1>2 DEF DownInv, DownTypes
<1>4. /\ Append(s, t) \in Seq(Task) /\ Len(Append(s, t)) = Len(s) + 1 /\ Len(s) \in Nat
      /\ \A i \in 1 .. Len(s) : Append(s, t)[i] = s[i]
      /\ Append(s, t)[Len(s) + 1] = t
  BY <1>2, <1>3
<1>5. DownTypes'
  <2>1. IsFiniteSet(asked')
    BY <1>1, FS_AddElement DEF DownInv, DownTypes
  <2>2. tasks' \in [Worker -> Seq(Task)]
    BY <1>1, <1>4 DEF DownInv, DownTypes
  <2> QED
    BY <1>1, <1>2, <2>1, <2>2 DEF DownInv, DownTypes
<1>6. /\ tasks'[w] = Append(s, t)
      /\ \A v \in Worker : v # w => tasks'[v] = tasks[v]
  BY <1>1, <1>2 DEF DownInv, DownTypes
<1>w. w = WorkerOf[c] /\ s = tasks[w]
  OBVIOUS
<1> HIDE DEF t, w, s
<1>7. TaskInv'
  <2> SUFFICES ASSUME NEW v \in Worker
               PROVE  /\ \A i \in 1 .. Len(tasks'[v]) :
                             tasks'[v][i] \in asked' /\ WorkerOf[tasks'[v][i].to] = v
                      /\ work[v] # Idle => work[v].task \in asked' /\ WorkerOf[work[v].task.to] = v
    BY <1>1 DEF TaskInv
  <2>1. work[v] # Idle => work[v].task \in asked' /\ WorkerOf[work[v].task.to] = v
    BY <1>1 DEF DownInv, TaskInv
  <2>2. CASE v = w
    <3> SUFFICES ASSUME NEW i \in 1 .. Len(s) + 1
                 PROVE  Append(s, t)[i] \in asked' /\ WorkerOf[Append(s, t)[i].to] = v
      BY <1>4, <1>6, <2>1, <2>2
    <3>1. i \in 1 .. Len(s) \/ i = Len(s) + 1
      BY <1>4
    <3> QED
      BY <1>1, <1>2, <1>4, <1>w, <2>2, <3>1 DEF DownInv, TaskInv
  <2>3. CASE v # w
    BY <1>1, <1>6, <2>1, <2>3 DEF DownInv, TaskInv
  <2> QED
    BY <2>2, <2>3
<1>8. \A f : Plain(f)' => Plain(f)
  BY <1>1, PlainShrinks
<1>9. DiskInv'
  <2>1. ASSUME NEW f \in DOMAIN disk, Plain(f)' PROVE Sound(f)'
    <3>1. PICK r \in asked : NameOf(r) = f
      BY DEF DownInv, DiskInv
    <3>2. Sound(f)
      BY <1>8, <2>1 DEF DownInv, DiskInv
    <3>3. \A q \in asked' : NameOf(q) = f => disk[f].of = {q.url}
      BY <1>1, <2>1, <3>1, <3>2 DEF Sound, Plain
    <3> QED
      BY <1>1, <3>2, <3>3 DEF Sound, Writes, Doing, Name
  <2>2. /\ \A f \in DOMAIN disk : \E q \in asked' : NameOf(q) = f
        /\ \A v \in Worker :
               /\ Doing(v, "writing") \/ Doing(v, "ready") => Name(v) \in DOMAIN disk
               /\ Doing(v, "asking") => ~work[v].cut
    BY <1>1 DEF DownInv, DiskInv
  <2> QED
    BY <1>1, <2>1, <2>2 DEF DiskInv, Doing, Name
<1>10. HandedInv'
  BY <1>1, <1>8 DEF DownInv, HandedInv
<1> QED
  BY <1>5, <1>7, <1>9, <1>10 DEF DownInv

LEMMA DownChecked ==
    ASSUME DownInv, NEW w \in Worker, CheckFile(w) PROVE DownInv'
<1> DEFINE s == tasks[w]
           t == Head(s)
           step == IF FileOf[t.url] \in DOMAIN disk THEN "ready" ELSE "asking"
           job == [task |-> t, cut |-> FALSE, step |-> step]
<1>1. /\ work[w] = Idle /\ s # <<>>
      /\ work' = [work EXCEPT ![w] = job]
      /\ tasks' = [tasks EXCEPT ![w] = Tail(s)]
      /\ UNCHANGED <<disk, handed, asked, torn>>
  BY DEF CheckFile
<1>2. s \in Seq(Task)
  BY DEF DownInv, DownTypes
<1>3. /\ t = s[1] /\ t \in Task /\ Tail(s) \in Seq(Task) /\ Len(s) \in Nat \ {0}
      /\ Len(Tail(s)) = Len(s) - 1 /\ \A i \in 1 .. Len(Tail(s)) : Tail(s)[i] = s[i + 1]
  BY <1>1, <1>2
<1>4. t \in asked /\ WorkerOf[t.to] = w
  <2>1. 1 \in 1 .. Len(s)
    BY <1>3
  <2> QED
    BY <1>3, <2>1 DEF DownInv, TaskInv
<1>5. job \in Works /\ job # Idle
  <2>1. job \in Works
    BY <1>3 DEF Works
  <2> QED
    BY <2>1, DownloadAssumption DEF Works, Task
<1>6. /\ work'[w] = job /\ tasks'[w] = Tail(s)
      /\ \A v \in Worker : v # w => work'[v] = work[v] /\ tasks'[v] = tasks[v]
  BY <1>1 DEF DownInv, DownTypes
<1>7. DownTypes'
  BY <1>1, <1>3, <1>5 DEF DownInv, DownTypes
<1>8. /\ job.task = t /\ ~job.cut /\ job.step # "writing"
      /\ job.step = "ready" => FileOf[t.url] \in DOMAIN disk
  OBVIOUS
<1>s. s = tasks[w]
  OBVIOUS
<1> HIDE DEF s, t, step, job
<1>9. TaskInv'
  <2> SUFFICES ASSUME NEW v \in Worker
               PROVE  /\ \A i \in 1 .. Len(tasks'[v]) :
                             tasks'[v][i] \in asked /\ WorkerOf[tasks'[v][i].to] = v
                      /\ work'[v] # Idle => work'[v].task \in asked /\ WorkerOf[work'[v].task.to] = v
    BY <1>1, ZenonT(40) DEF TaskInv
  <2>1. CASE v = w
    <3>1. ASSUME NEW i \in 1 .. Len(Tail(s))
          PROVE  Tail(s)[i] \in asked /\ WorkerOf[Tail(s)[i].to] = w
      <4>1. i + 1 \in 1 .. Len(s)
        BY <1>3
      <4> QED
        BY <1>3, <1>s, <4>1 DEF DownInv, TaskInv
    <3> DEFINE r == Tail(s)
    <3>2. /\ tasks'[v] = r /\ work'[v] = job
          /\ \A i \in 1 .. Len(r) : r[i] \in asked /\ WorkerOf[r[i].to] = w
      BY <1>6, <2>1, <3>1
    <3> HIDE DEF r
    <3> QED
      BY <1>4, <1>8, <2>1, <3>2
  <2>2. CASE v # w
    BY <1>6, <2>2 DEF DownInv, TaskInv
  <2> QED
    BY <2>1, <2>2
<1>10. \A v \in Worker : v # w =>
           /\ \A x : Doing(v, x)' <=> Doing(v, x)
           /\ Name(v)' = Name(v) /\ work'[v] = work[v]
  BY <1>6 DEF Doing, Name
<1>11. /\ ~Doing(w, "writing")' /\ (\A x : ~Doing(w, x)) /\ ~work'[w].cut
       /\ Doing(w, "ready")' => Name(w)' \in DOMAIN disk
  BY <1>1, <1>6, <1>8 DEF Doing, Name
<1>12. \A v \in Worker : \A f : /\ Writes(v, f)' <=> Writes(v, f)
                                /\ Writes(v, f) => work'[v].cut = work[v].cut
  BY <1>10, <1>11 DEF Writes
<1>13. \A f : (Plain(f)' <=> Plain(f)) /\ (Sound(f)' <=> Sound(f))
  BY <1>1, <1>12 DEF Plain, Sound
<1>14. DiskInv'
  BY <1>1, <1>10, <1>11, <1>13 DEF DownInv, DiskInv
<1>15. HandedInv'
  BY <1>1, <1>13 DEF DownInv, HandedInv
<1> QED
  BY <1>7, <1>9, <1>14, <1>15 DEF DownInv

\* A worker that goes on to another step, or drops its task.
LEMMA WorkerGoesOn ==
    ASSUME DownInv, NEW w \in Worker, work[w] # Idle, NEW step \in {"writing", "ready"},
           Go(w, step) \/ Drop(w), UNCHANGED <<tasks, asked>>
    PROVE  /\ work' \in [Worker -> Works \cup {Idle}] /\ TaskInv'
           /\ \A v \in Worker : v # w =>
                  /\ \A x : Doing(v, x)' <=> Doing(v, x)
                  /\ Name(v)' = Name(v) /\ work'[v] = work[v]
           /\ Go(w, step) =>
                  /\ \A x : Doing(w, x)' <=> x = step
                  /\ Name(w)' = Name(w) /\ work'[w].cut = work[w].cut
           /\ Drop(w) => \A x : ~Doing(w, x)'
<1>1. work \in [Worker -> Works \cup {Idle}] /\ work[w] \in Works
  BY DEF DownInv, DownTypes
<1>2. /\ [work[w] EXCEPT !.step = step] \in Works
      /\ [work[w] EXCEPT !.step = step].step = step
      /\ [work[w] EXCEPT !.step = step].task = work[w].task
      /\ [work[w] EXCEPT !.step = step].cut = work[w].cut
  BY <1>1 DEF Works
<1>3. Go(w, step) => work' = [work EXCEPT ![w] = [work[w] EXCEPT !.step = step]]
  BY DEF Go
<1>4. \A e \in Works : e # Idle
  BY DownloadAssumption DEF Works, Task
<1>5. work' \in [Worker -> Works \cup {Idle}]
  BY <1>1, <1>2, <1>3 DEF Drop
<1>6. \A v \in Worker : v # w => work'[v] = work[v]
  BY <1>1, <1>3 DEF Drop
<1>7. Drop(w) => work'[w] = Idle
  BY <1>1 DEF Drop
<1>8. Go(w, step) => /\ work'[w] # Idle /\ work'[w].step = step
                     /\ work'[w].task = work[w].task /\ work'[w].cut = work[w].cut
  BY <1>1, <1>2, <1>3, <1>4
<1>9. TaskInv'
  <2>1. \A v \in Worker :
            work'[v] # Idle => work'[v].task \in asked /\ WorkerOf[work'[v].task.to] = v
    BY <1>6, <1>7, <1>8 DEF DownInv, TaskInv
  <2> QED
    BY <2>1 DEF DownInv, TaskInv
<1> QED
  BY <1>5, <1>6, <1>7, <1>8, <1>9 DEF Doing, Name

LEMMA DownAnswered ==
    ASSUME DownInv, NEW w \in Worker, NoAnswer(w) \/ BreaksOff(w) \/ SendFile(w, HelperWindow)
    PROVE  DownInv'
<1>1. /\ work[w] # Idle /\ Drop(w) /\ UNCHANGED <<tasks, disk, asked>>
      /\ torn \subseteq torn'
  BY DEF NoAnswer, BreaksOff, SendFile, Doing
<1>2. /\ work' \in [Worker -> Works \cup {Idle}] /\ TaskInv'
      /\ \A v \in Worker : v # w =>
             /\ \A x : Doing(v, x)' <=> Doing(v, x)
             /\ Name(v)' = Name(v) /\ work'[v] = work[v]
      /\ \A x : ~Doing(w, x)'
  BY <1>1, WorkerGoesOn
<1>3. DownTypes'
  BY <1>1, <1>2 DEF DownInv, DownTypes
<1>4. \A f : Plain(f)' => Plain(f)
  BY <1>1, PlainShrinks
<1>5. \A f : Plain(f)' => ~Writes(w, f)
  BY DEF NoAnswer, BreaksOff, SendFile, Plain, Writes, Doing
<1>6. DiskInv'
  <2>1. ASSUME NEW f \in DOMAIN disk, Plain(f)' PROVE Sound(f)'
    <3>1. Sound(f) /\ ~Writes(w, f)
      BY <1>4, <1>5, <2>1 DEF DownInv, DiskInv
    <3>2. \A v \in Worker : /\ Writes(v, f)' <=> Writes(v, f)
                            /\ Writes(v, f)' => work'[v].cut = work[v].cut
      BY <1>2, <3>1 DEF Writes
    <3> QED
      BY <1>1, <3>1, <3>2 DEF Sound
  <2> QED
    BY <1>1, <1>2, <2>1 DEF DownInv, DiskInv
<1>7. HandedInv'
  <2>1. CASE NoAnswer(w) \/ BreaksOff(w)
    BY <1>1, <1>4, <2>1 DEF NoAnswer, BreaksOff, DownInv, HandedInv
  <2>2. CASE SendFile(w, HelperWindow)
    <3> DEFINE u == work[w].task.url
               h == [url |-> u, to |-> work[w].task.to, of |-> disk[Name(w)].of,
                     whole |-> disk[Name(w)].whole]
    <3>1. handed' \subseteq handed \cup {h} /\ Doing(w, "ready")
      BY <2>2 DEF SendFile
    <3>2. work[w].task \in asked /\ Name(w) = FileOf[u] /\ Name(w) \in DOMAIN disk
      BY <1>1, <3>1 DEF DownInv, TaskInv, DiskInv, Name
    <3>3. ASSUME Plain(Name(w)) PROVE disk[Name(w)].of = {u} /\ disk[Name(w)].whole
      <4>1. Sound(Name(w))
        BY <3>2, <3>3 DEF DownInv, DiskInv
      <4>2. disk[Name(w)].of = {u}
        BY <3>2, <4>1 DEF Sound, NameOf
      <4>3. ASSUME NEW v \in Worker, Writes(v, Name(w)) PROVE FALSE
        <5>1. v = w
          BY <1>1, <3>3, <4>3, OneWorker DEF Writes, Doing
        <5> QED
          BY <3>1, <4>3, <5>1 DEF Writes, Doing
      <4> QED
        BY <4>1, <4>2, <4>3 DEF Sound
    <3>4. /\ \E t \in asked : t.url = h.url
          /\ Plain(FileOf[h.url]) => h.of = {h.url} /\ h.whole
      BY <3>2, <3>3
    <3> HIDE DEF h
    <3> QED
      BY <1>1, <1>4, <3>1, <3>4 DEF DownInv, HandedInv
  <2> QED
    BY <2>1, <2>2
<1> QED
  BY <1>2, <1>3, <1>6, <1>7 DEF DownInv

LEMMA DownFinished ==
    ASSUME DownInv, NEW w \in Worker, Downloaded(w) PROVE DownInv'
<1> DEFINE n == Name(w)
<1>1. /\ work[w] # Idle /\ Go(w, "ready") /\ Doing(w, "writing")
      /\ disk' = [disk EXCEPT ![n].whole = @ \/ ~work[w].cut]
      /\ UNCHANGED <<tasks, handed, asked, torn>>
  BY DEF Downloaded, Doing
<1>2. /\ work' \in [Worker -> Works \cup {Idle}] /\ TaskInv'
      /\ \A v \in Worker : v # w =>
             /\ \A x : Doing(v, x)' <=> Doing(v, x)
             /\ Name(v)' = Name(v) /\ work'[v] = work[v]
      /\ \A x : Doing(w, x)' <=> x = "ready"
      /\ Name(w)' = n /\ work'[w].cut = work[w].cut
  BY <1>1, WorkerGoesOn
<1>3. n \in DOMAIN disk /\ disk[n] \in Contents /\ work[w].cut \in BOOLEAN
  BY <1>1 DEF DownInv, DownTypes, DiskInv, Works
<1>n. Name(w) = n
  OBVIOUS
<1> HIDE DEF n
<1>4. /\ DOMAIN disk' = DOMAIN disk
      /\ \A f \in DOMAIN disk : f # n => disk'[f] = disk[f]
      /\ disk'[n] = [disk[n] EXCEPT !.whole = @ \/ ~work[w].cut]
  BY <1>1, <1>3
<1>5. /\ disk'[n] \in Contents /\ disk'[n].of = disk[n].of
      /\ disk'[n].whole = (disk[n].whole \/ ~work[w].cut)
  BY <1>3, <1>4 DEF Contents
<1>6. DownTypes'
  <2>1. \A f \in DOMAIN disk' : disk'[f] \in Contents
    BY <1>4, <1>5 DEF DownInv, DownTypes
  <2> QED
    BY <1>1, <1>2, <2>1 DEF DownInv, DownTypes
<1>7. \A f : Plain(f)' <=> Plain(f)
  BY <1>1 DEF Plain
<1>8. ASSUME NEW f \in DOMAIN disk, Plain(f) PROVE Sound(f)'
  <2>1. Sound(f)
    BY <1>8 DEF DownInv, DiskInv
  <2>2. CASE f = n
    <3>1. ~work[w].cut
      BY <1>1, <1>n, <2>1, <2>2 DEF Sound, Writes
    <3>2. \A v \in Worker : ~Writes(v, f)'
      <4>1. ASSUME NEW v \in Worker, v # w, Writes(v, f) PROVE FALSE
        BY <1>1, <1>8, <1>n, <2>2, <4>1, OneWorker DEF Writes, Doing
      <4> QED
        BY <1>2, <4>1 DEF Writes
    <3>3. disk'[f].whole /\ \A t \in asked : NameOf(t) = f => disk'[f].of = {t.url}
      BY <1>5, <2>1, <2>2, <3>1 DEF Sound
    <3> QED
      BY <1>1, <3>2, <3>3 DEF Sound
  <2>3. CASE f # n
    <3>1. \A v \in Worker : /\ Writes(v, f)' <=> Writes(v, f)
                            /\ Writes(v, f)' => work'[v].cut = work[v].cut
      BY <1>2, <1>n, <2>3 DEF Writes
    <3> QED
      BY <1>1, <1>4, <2>1, <2>3, <3>1 DEF Sound
  <2> QED
    BY <2>2, <2>3
<1>9. DiskInv'
  <2>1. \A v \in Worker :
            /\ Doing(v, "writing")' \/ Doing(v, "ready")' => Name(v)' \in DOMAIN disk
            /\ Doing(v, "asking")' => ~work'[v].cut
    BY <1>2, <1>3 DEF DownInv, DiskInv
  <2> QED
    BY <1>1, <1>4, <1>7, <1>8, <2>1 DEF DownInv, DiskInv
<1>10. HandedInv'
  BY <1>1, <1>7 DEF DownInv, HandedInv
<1> QED
  BY <1>2, <1>6, <1>9, <1>10 DEF DownInv

LEMMA DownOpened ==
    ASSUME DownInv, NEW w \in Worker, OpenFile(w) PROVE DownInv'
<1> DEFINE n == Name(w)
           of == {work[w].task.url} \cup {work[v].task.url : v \in Others(w)}
<1>1. /\ Doing(w, "asking") /\ work[w] # Idle
      /\ disk' = [f \in DOMAIN disk \cup {n} |->
                     IF f = n THEN [of |-> of, whole |-> FALSE] ELSE disk[f]]
      /\ work' = [v \in Worker |->
                     IF v = w THEN [work[v] EXCEPT !.step = "writing"]
                     ELSE IF v \in Others(w) THEN [work[v] EXCEPT !.cut = TRUE]
                     ELSE work[v]]
      /\ UNCHANGED <<tasks, handed, asked, torn>>
  BY DEF OpenFile, Doing
<1>2. /\ work \in [Worker -> Works \cup {Idle}] /\ work[w] \in Works
      /\ \A v \in Others(w) : v \in Worker /\ v # w /\ work[v] \in Works /\ Writes(v, n)
  BY <1>1 DEF DownInv, DownTypes, Others, Writes, Doing
<1>3. \A e \in Works : e # Idle
  BY DownloadAssumption DEF Works, Task
<1>4. /\ work'[w] \in Works /\ work'[w].step = "writing"
      /\ work'[w].task = work[w].task /\ work'[w].cut = work[w].cut
  BY <1>1, <1>2 DEF Works
<1>5. \A v \in Others(w) : /\ work'[v] \in Works /\ work'[v].step = work[v].step
                           /\ work'[v].task = work[v].task
  <2> SUFFICES ASSUME NEW v \in Others(w)
               PROVE  /\ work'[v] \in Works /\ work'[v].step = work[v].step
                      /\ work'[v].task = work[v].task
    OBVIOUS
  <2>1. work'[v] = [work[v] EXCEPT !.cut = TRUE] /\ work[v] \in Works
    BY <1>1, <1>2
  <2> QED
    BY <2>1 DEF Works
<1>6. \A v \in Worker : v # w /\ v \notin Others(w) => work'[v] = work[v]
  BY <1>1
<1>7. \A v \in Worker : v # w =>
          /\ \A x : Doing(v, x)' <=> Doing(v, x)
          /\ work[v] # Idle => Name(v)' = Name(v) /\ work'[v].task = work[v].task
          /\ work[v] = Idle => work'[v] = Idle
  BY <1>2, <1>3, <1>5, <1>6 DEF Doing, Name
<1>8. /\ \A x : Doing(w, x)' <=> x = "writing"
      /\ Name(w)' = n /\ work'[w] # Idle
  BY <1>3, <1>4 DEF Doing, Name
<1>n. n = Name(w)
  OBVIOUS
<1>9. ASSUME Plain(n) PROVE Others(w) = {} /\ of = {work[w].task.url}
  <2>1. ASSUME NEW v \in Others(w) PROVE FALSE
    BY <1>1, <1>2, <1>9, OneWorker DEF Writes, Doing
  <2> QED
    BY <2>1
<1>10. of \in SUBSET Url
  BY <1>2 DEF Works, Task
<1> HIDE DEF n, of
<1>11. TaskInv'
  <2>1. \A v \in Worker :
            work'[v] # Idle => work'[v].task \in asked /\ WorkerOf[work'[v].task.to] = v
    BY <1>1, <1>4, <1>7 DEF DownInv, TaskInv
  <2> QED
    BY <1>1, <2>1 DEF DownInv, TaskInv
<1>12. DownTypes'
  <2>1. \A v \in Worker : work'[v] \in Works \cup {Idle}
    BY <1>2, <1>4, <1>5, <1>6
  <2>2. work' \in [Worker -> Works \cup {Idle}]
    BY <1>1, <2>1
  <2>3. \A f \in DOMAIN disk' : disk'[f] \in Contents
    BY <1>1, <1>10 DEF DownInv, DownTypes, Contents
  <2> QED
    BY <1>1, <2>2, <2>3 DEF DownInv, DownTypes
<1>13. \A f : Plain(f)' <=> Plain(f)
  BY <1>1 DEF Plain
<1>14. DOMAIN disk' = DOMAIN disk \cup {n}
  BY <1>1
<1>15. ASSUME NEW f \in DOMAIN disk', Plain(f) PROVE Sound(f)'
  <2>1. CASE f = n
    <3>1. disk'[f].of = {work[w].task.url}
      BY <1>1, <1>9, <1>15, <2>1
    <3>2. \A t \in asked : NameOf(t) = f => t.url = work[w].task.url
      BY <1>1, <1>15, <1>n, <2>1 DEF DownInv, TaskInv, Plain, Name, NameOf
    <3>3. Writes(w, f)' /\ ~work'[w].cut
      BY <1>1, <1>4, <1>8, <2>1 DEF Writes, DownInv, DiskInv
    <3>4. \A v \in Worker : Writes(v, f)' => v = w
      <4>1. ASSUME NEW v \in Worker, v # w, Writes(v, f)' PROVE FALSE
        <5>1. Writes(v, f)
          BY <1>7, <4>1 DEF Writes, Doing
        <5>2. v \in Others(w)
          BY <1>n, <2>1, <4>1, <5>1 DEF Others, Writes
        <5> QED
          BY <1>9, <1>15, <2>1, <5>2
      <4> QED
        BY <4>1
    <3> QED
      BY <1>1, <3>1, <3>2, <3>3, <3>4 DEF Sound
  <2>2. CASE f # n
    <3>1. f \in DOMAIN disk /\ disk'[f] = disk[f] /\ Sound(f)
      BY <1>1, <1>14, <1>15, <2>2 DEF DownInv, DiskInv
    <3>2. \A v \in Worker : /\ Writes(v, f)' <=> Writes(v, f)
                            /\ Writes(v, f) => work'[v].cut = work[v].cut
      <4>1. ~Writes(w, f) /\ ~Writes(w, f)'
        BY <1>8, <1>n, <2>2 DEF Writes
      <4>2. ASSUME NEW v \in Worker, v # w
            PROVE  /\ Writes(v, f)' <=> Writes(v, f)
                   /\ Writes(v, f) => work'[v].cut = work[v].cut
        <5>1. Writes(v, f)' <=> Writes(v, f)
          BY <1>7, <4>2 DEF Writes, Doing
        <5>2. Writes(v, f) => v \notin Others(w)
          BY <1>2, <2>2 DEF Writes
        <5> QED
          BY <1>6, <4>2, <5>1, <5>2
      <4> QED
        BY <4>1, <4>2
    <3> QED
      BY <1>1, <3>1, <3>2 DEF Sound
  <2> QED
    BY <2>1, <2>2
<1>16. DiskInv'
  <2>1. \A f \in DOMAIN disk' : \E t \in asked : NameOf(t) = f
    <3>1. work[w].task \in asked /\ NameOf(work[w].task) = n
      BY <1>1, <1>n DEF DownInv, TaskInv, NameOf, Name
    <3> QED
      BY <1>14, <3>1 DEF DownInv, DiskInv
  <2>2. ASSUME NEW v \in Worker
        PROVE  /\ Doing(v, "writing")' \/ Doing(v, "ready")' => Name(v)' \in DOMAIN disk'
               /\ Doing(v, "asking")' => ~work'[v].cut
    <3>1. CASE v = w
      BY <1>8, <1>14, <3>1
    <3>2. CASE v # w
      <4>1. Doing(v, "writing")' \/ Doing(v, "ready")' => Name(v)' \in DOMAIN disk'
        BY <1>7, <1>14, <3>2 DEF DownInv, DiskInv, Doing
      <4>2. Doing(v, "asking")' => v \notin Others(w) /\ Doing(v, "asking")
        BY <1>7, <3>2 DEF Others, Doing
      <4> QED
        BY <1>6, <3>2, <4>1, <4>2 DEF DownInv, DiskInv
    <3> QED
      BY <3>1, <3>2
  <2> QED
    BY <1>1, <1>13, <1>15, <2>1, <2>2 DEF DiskInv
<1>17. HandedInv'
  BY <1>1, <1>13 DEF DownInv, HandedInv
<1> QED
  BY <1>11, <1>12, <1>16, <1>17 DEF DownInv

LEMMA DownGone ==
    ASSUME DownInv, WorkersGone PROVE DownInv'
<1>1. /\ tasks' = [w \in Worker |-> <<>>] /\ work' = [w \in Worker |-> Idle]
      /\ torn' = torn \cup {Name(w) : w \in {v \in Worker : Doing(v, "writing")}}
      /\ UNCHANGED <<disk, handed, asked>>
  BY DEF WorkersGone
<1>2. \A w \in Worker : \A x : ~Doing(w, x)'
  BY <1>1 DEF Doing
<1>3. \A f : Plain(f)' => Plain(f) /\ \A w \in Worker : ~Writes(w, f)
  BY <1>1 DEF Plain, Writes
<1>4. DownTypes'
  BY <1>1, EmptySeq DEF DownInv, DownTypes
<1>5. TaskInv'
  BY <1>1 DEF TaskInv
<1>6. ASSUME NEW f \in DOMAIN disk, Plain(f)' PROVE Sound(f)'
  <2>1. Sound(f) /\ \A w \in Worker : ~Writes(w, f)
    BY <1>3, <1>6 DEF DownInv, DiskInv
  <2>2. \A w \in Worker : ~Writes(w, f)'
    BY <1>2 DEF Writes
  <2> QED
    BY <1>1, <2>1, <2>2 DEF Sound
<1>7. DiskInv'
  BY <1>1, <1>2, <1>6 DEF DownInv, DiskInv
<1>8. HandedInv'
  BY <1>1, <1>3 DEF DownInv, HandedInv
<1> QED
  BY <1>4, <1>5, <1>7, <1>8 DEF DownInv

LEMMA DownStep == DownInv /\ (Downloads \/ UNCHANGED downloadVars) => DownInv'
<1> SUFFICES ASSUME DownInv, Downloads \/ UNCHANGED downloadVars PROVE DownInv'
  OBVIOUS
<1>1. CASE UNCHANGED downloadVars
  <2>1. UNCHANGED <<tasks, work, disk, handed, asked, torn>>
    BY <1>1 DEF downloadVars
  <2> QED
    BY <2>1 DEF DownInv, DownTypes, TaskInv, DiskInv, HandedInv, Sound, Plain, Writes,
                Doing, Name
<1>2. CASE Downloads
  BY <1>2, DownAsked, DownChecked, DownAnswered, DownOpened, DownFinished, DownGone
     DEF Downloads
<1> QED
  BY <1>1, <1>2

LEMMA DownFollows == DownInv => OwnWholeFile
<1> SUFFICES ASSUME DownInv, NEW h \in handed
             PROVE  LET same == {t \in asked : FileOf[t.url] = FileOf[h.url]}
                    IN  \/ h.of = {h.url} /\ h.whole
                        \/ FileOf[h.url] \in torn
                        \/ Cardinality({t.url : t \in same}) > 1
                        \/ Cardinality({WorkerOf[t.to] : t \in same}) > 1
  BY DEF OwnWholeFile
<1> DEFINE same == {t \in asked : FileOf[t.url] = FileOf[h.url]}
           urls == {t.url : t \in same}
           workers == {WorkerOf[t.to] : t \in same}
<1>1. IsFiniteSet(urls) /\ IsFiniteSet(workers)
  <2>1. IsFiniteSet(same)
    BY FS_Subset DEF DownInv, DownTypes
  <2>2. [t \in same |-> t.url] \in Surjection(same, urls)
        /\ [t \in same |-> WorkerOf[t.to]] \in Surjection(same, workers)
    BY DEF Surjection
  <2> HIDE DEF same, urls, workers
  <2> QED
    BY <2>1, <2>2, FS_Surjection
<1>2. CASE Plain(FileOf[h.url])
  BY <1>2 DEF DownInv, HandedInv
<1>3. CASE ~Plain(FileOf[h.url]) /\ FileOf[h.url] \notin torn
  <2>1. PICK s \in same, t \in same : s.url # t.url \/ WorkerOf[s.to] # WorkerOf[t.to]
    BY <1>3 DEF Plain, NameOf
  <2>2. CASE s.url # t.url
    BY <1>1, <2>2, TwoAreMany
  <2>3. CASE WorkerOf[s.to] # WorkerOf[t.to]
    BY <1>1, <2>3, TwoAreMany
  <2> QED
    BY <2>1, <2>2, <2>3
<1> QED
  BY <1>2, <1>3

\* However many workers, contacts and URLs there are, and however often the robot
\* ends in between: a message carries the whole file of its own URL unless two
\* URLs or two workers shared its name, or a download of it broke off
\* (HttpClient.cpp, DownloadByteFile).
THEOREM OwnFiles == BridgeSpec => []OwnWholeFile
<1>1. BridgeInit => DownInv
  BY DownInit DEF BridgeInit
<1>2. DownInv /\ [BridgeNext]_bridgeVars => DownInv'
  <2>1. CASE BridgeNext
    BY <2>1, DownloadsOfBridge, DownStep
  <2>2. CASE UNCHANGED bridgeVars
    <3>1. UNCHANGED downloadVars
      BY <2>2 DEF bridgeVars
    <3> QED
      BY <3>1, DownStep
  <2> QED
    BY <2>1, <2>2
<1> QED
  BY <1>1, <1>2, DownFollows, PTL DEF BridgeSpec
-----------------------------------------------------------------------------
(* No friend is lost between the two programs. *)

\* A friend that has been listed waits in a thread, or a window of one start of the
\* robot has been found for it: it is on the way there, told, or lost with it.
PassedOn == sending \cup told \cup lost
Apart == sending \cap told = {} /\ sending \cap lost = {} /\ told \cap lost = {}
ToldInv ==
    /\ starts \in Nat /\ (robot # "off" => starts # 0)
    /\ resending \subseteq userInfoList
    /\ PassedOn \subseteq userInfoList \X (1 .. starts)
    /\ Apart
    /\ \A f \in resending : \A k \in 1 .. starts : <<f, k>> \notin PassedOn
    /\ \A f \in userInfoList \ resending : \E k \in 1 .. starts :
           \A j \in 1 .. starts : <<f, j>> \in PassedOn <=> j = k

\* A robot without a main window knows nobody, and nobody has found it; with one
\* nobody has been lost.
KnowsNobody ==
    rows = <<>> /\ dwIndex = 0 /\ mapFriendList = {} /\ selected = 0 /\ deleted = {}
IsRow(f) == \E r \in 1 .. Len(rows) : rows[r] = f
NobodyInv ==
    /\ ~MainWindow => KnowsNobody
    /\ robot \notin {"off", "main"} => \A f \in userInfoList : <<f, starts>> \notin PassedOn
    /\ MainWindow => \A f \in userInfoList : <<f, starts>> \notin lost

\* As long as no row is deleted the rows are those the robot has been told of; once
\* WeChat is gone the helper no longer knows of them.
RowsInv ==
    /\ MainWindow => \A f \in userInfoList : <<f, starts>> \in told =>
           f \in mapFriendList /\ (deleted = {} => IsRow(f))
    /\ deleted = {} =>
           /\ rows \in Seq(Friend) /\ dwIndex = Len(rows)
           /\ \A r, q \in 1 .. Len(rows) : rows[r] = rows[q] => r = q
           /\ MainWindow /\ helper # "none" =>
                  \A r \in 1 .. Len(rows) : <<rows[r], starts>> \in told

FriendInv == ToldInv /\ NobodyInv /\ RowsInv

LEMMA FriendsInit == BridgeInit => FriendInv
<1> SUFFICES ASSUME BridgeInit PROVE FriendInv
  OBVIOUS
<1>1. PICK s \in Scenes : IF s.up THEN AtWork(s.rows) ELSE StartupInit /\ FriendInit
  BY DEF BridgeInit
<1>2. CASE s.up
  <2> DEFINE list == s.rows
  <2>1. /\ robot = "main" /\ starts = 1 /\ userInfoList = ToSet(list) /\ resending = {}
        /\ mapFriendList = ToSet(list) /\ told = ToSet(list) \X {1} /\ rows = list
        /\ dwIndex = Len(list) /\ sending = {} /\ lost = {}
    BY <1>1, <1>2 DEF AtWork
  <2>2. /\ list \in Seq(Friend) /\ Len(list) \in Nat /\ DOMAIN list = 1 .. Len(list)
        /\ \A r, q \in 1 .. Len(list) : list[r] = list[q] => r = q
    BY SceneAssumption DEF IsInjective
  <2> HIDE DEF list
  <2>3. ToldInv
    BY <2>1 DEF ToldInv, PassedOn, Apart
  <2>4. NobodyInv
    BY <2>1 DEF NobodyInv, MainWindow
  <2>5. \A f \in ToSet(list) : IsRow(f)
    BY <2>1, <2>2 DEF ToSet, IsRow
  <2>6. \A r \in 1 .. Len(list) : list[r] \in ToSet(list)
    BY <2>2 DEF ToSet
  <2>7. RowsInv
    BY <2>1, <2>2, <2>5, <2>6 DEF RowsInv
  <2> QED
    BY <2>3, <2>4, <2>7 DEF FriendInv
<1>3. CASE ~s.up
  <2>1. /\ robot = "off" /\ starts = 0 /\ userInfoList = {} /\ resending = {} /\ told = {}
        /\ sending = {} /\ lost = {} /\ KnowsNobody
    BY <1>1, <1>3 DEF StartupInit, FriendInit, KnowsNobody
  <2>2. rows \in Seq(Friend) /\ Len(rows) = 0
    BY <2>1, EmptySeq DEF KnowsNobody
  <2> QED
    BY <2>1, <2>2 DEF FriendInv, ToldInv, PassedOn, Apart, NobodyInv, RowsInv, KnowsNobody,
                      MainWindow
<1> QED
  BY <1>2, <1>3

LEMMA InsertedAtEnd ==
    ASSUME NEW S, NEW s \in Seq(S), NEW x \in S
    PROVE  Inserted(s, Len(s), x) = Append(s, x)
<1>1. Len(s) \in Nat
  BY LenProperties
<1>2. SubSeq(s, 1, (Len(s) + 1) - 1) = s
  BY <1>1
<1>3. SubSeq(s, Len(s) + 1, Len(s)) = <<>>
  BY <1>1
<1>4. Append(s, x) = s \o <<x>> /\ s \o <<x>> \in Seq(S)
  BY AppendIsConcat, AppendProperties
<1>5. (s \o <<x>>) \o <<>> = s \o <<x>>
  BY <1>4, ConcatEmptySeq
<1>6. Inserted(s, Len(s), x)
          = SubSeq(s, 1, (Len(s) + 1) - 1) \o <<x>> \o SubSeq(s, Len(s) + 1, Len(s))
  BY <1>1 DEF Inserted, InsertAt
<1> QED
  BY <1>2, <1>3, <1>4, <1>5, <1>6

\* A window is found for a friend who has not been sent to any start.
LEMMA FriendFound ==
    ASSUME FriendInv, NEW f \in Friend, MainWindow,
           UNCHANGED <<starts, robot, helper, robotFriendVars, told, lost>>,
           sending' = sending \cup {<<f, starts>>},
           userInfoList' = userInfoList \cup {f}, resending' = resending \ {f},
           f \in userInfoList => f \in resending
    PROVE  FriendInv'
<1>1. /\ starts \in Nat /\ starts # 0 /\ starts \in 1 .. starts /\ MainWindow'
      /\ robot = "main" /\ UNCHANGED <<mapFriendList, rows, dwIndex, selected, deleted>>
  BY DEF FriendInv, ToldInv, MainWindow, robotFriendVars
<1>2. PassedOn' = PassedOn \cup {<<f, starts>>}
  BY DEF PassedOn
<1>3. \A k : <<f, k>> \notin PassedOn
  BY DEF FriendInv, ToldInv
<1>4. ToldInv'
  <2>1. PassedOn' \subseteq userInfoList' \X (1 .. starts)
    BY <1>1, <1>2 DEF FriendInv, ToldInv
  <2>2. resending' \subseteq userInfoList'
    BY DEF FriendInv, ToldInv
  <2>3. \A g \in resending' : \A k \in 1 .. starts : <<g, k>> \notin PassedOn'
    BY <1>2 DEF FriendInv, ToldInv
  <2>4. ASSUME NEW g \in userInfoList' \ resending'
        PROVE  \E k \in 1 .. starts : \A j \in 1 .. starts : <<g, j>> \in PassedOn' <=> j = k
    <3>1. CASE g = f
      BY <1>1, <1>2, <1>3, <3>1
    <3>2. CASE g # f
      BY <1>2, <3>2 DEF FriendInv, ToldInv
    <3> QED
      BY <3>1, <3>2
  <2>5. starts' = starts
    OBVIOUS
  <2>6. \A g \in userInfoList' \ resending' : \E k \in 1 .. starts' :
            \A j \in 1 .. starts' : <<g, j>> \in PassedOn' <=> j = k
    BY <2>4, <2>5
  <2>7. Apart'
    BY <1>3 DEF FriendInv, ToldInv, Apart, PassedOn
  <2> QED
    BY <1>1, <2>1, <2>2, <2>3, <2>5, <2>6, <2>7 DEF ToldInv
<1>5. NobodyInv'
  BY <1>1, <1>3 DEF FriendInv, NobodyInv, PassedOn
<1>6. RowsInv'
  <2>1. \A g \in userInfoList' : <<g, starts>> \in told => g \in userInfoList
    BY DEF FriendInv, ToldInv, PassedOn
  <2> QED
    BY <1>1, <2>1 DEF FriendInv, RowsInv, IsRow, MainWindow
<1> QED
  BY <1>4, <1>5, <1>6 DEF FriendInv

\* What is sent to a window arrives or is lost: nothing else changes hands.
LEMMA SentStays ==
    ASSUME ToldInv, NEW f, NEW k, <<f, k>> \in sending,
           sending' = sending \ {<<f, k>>},
           \/ told' = told \cup {<<f, k>>} /\ UNCHANGED lost
           \/ lost' = lost \cup {<<f, k>>} /\ UNCHANGED told,
           UNCHANGED <<starts, robot, userInfoList, resending>>
    PROVE  ToldInv' /\ PassedOn' = PassedOn
<1>1. PassedOn' = PassedOn
  BY DEF PassedOn
<1>2. Apart'
  BY DEF ToldInv, Apart
<1> QED
  BY <1>1, <1>2 DEF ToldInv

\* The robot is told of a friend, by the window that is there.
LEMMA FriendTold ==
    ASSUME FriendInv, NEW f \in Friend, MainWindow, FriendHook, TellRobot(f, starts),
           <<f, starts>> \in sending, sending' = sending \ {<<f, starts>>},
           UNCHANGED <<starts, robot, helper, userInfoList, resending, lost>>
    PROVE  FriendInv'
<1>1. /\ starts \in Nat /\ starts # 0 /\ starts \in 1 .. starts
      /\ MainWindow' /\ helper # "none" /\ robot = "main"
  BY DEF FriendInv, ToldInv, MainWindow, FriendHook
<1>2. /\ mapFriendList' = mapFriendList \cup {f} /\ rows' = Inserted(rows, dwIndex, f)
      /\ dwIndex' = dwIndex + 1 /\ told' = told \cup {<<f, starts>>}
      /\ UNCHANGED <<selected, deleted>>
  BY DEF TellRobot
<1>3. <<f, starts>> \notin told
  BY DEF FriendInv, ToldInv, Apart
<1>4. ToldInv'
  BY <1>2, SentStays DEF FriendInv
<1>5. NobodyInv'
  BY <1>1 DEF FriendInv, NobodyInv
<1>6. CASE deleted = {}
  <2>1. /\ rows \in Seq(Friend) /\ dwIndex = Len(rows) /\ Len(rows) \in Nat
        /\ \A r, q \in 1 .. Len(rows) : rows[r] = rows[q] => r = q
        /\ \A r \in 1 .. Len(rows) : <<rows[r], starts>> \in told
    BY <1>1, <1>6, LenProperties DEF FriendInv, RowsInv
  <2>2. rows' = Append(rows, f)
    BY <1>2, <2>1, InsertedAtEnd
  <2>3. /\ rows' \in Seq(Friend) /\ Len(rows') = Len(rows) + 1
        /\ \A r \in 1 .. Len(rows) : rows'[r] = rows[r]
        /\ rows'[Len(rows) + 1] = f
    BY <2>1, <2>2
  <2>4. /\ \A r \in 1 .. Len(rows) + 1 : r \in 1 .. Len(rows) \/ r = Len(rows) + 1
        /\ \A r \in 1 .. Len(rows) : r \in 1 .. Len(rows) + 1
        /\ Len(rows) + 1 \in 1 .. Len(rows) + 1
    BY <2>1
  <2>5. \A r \in 1 .. Len(rows) : rows[r] # f
    BY <1>3, <2>1
  <2>6. ASSUME NEW r \in 1 .. Len(rows) + 1, NEW q \in 1 .. Len(rows) + 1,
               rows'[r] = rows'[q]
        PROVE  r = q
    BY <2>1, <2>3, <2>4, <2>5, <2>6
  <2>7. \A r \in 1 .. Len(rows) + 1 : <<rows'[r], starts>> \in told'
    BY <1>2, <2>1, <2>3, <2>4
  <2>8. IsRow(f)' /\ \A g : IsRow(g) => IsRow(g)'
    BY <2>3, <2>4 DEF IsRow
  <2>9. \A g \in userInfoList' : <<g, starts>> \in told' =>
            g \in mapFriendList' /\ IsRow(g)'
    BY <1>1, <1>2, <1>6, <2>8 DEF FriendInv, RowsInv
  <2> QED
    BY <1>1, <1>2, <1>4, <1>5, <2>1, <2>3, <2>6, <2>7, <2>9 DEF FriendInv, RowsInv
<1>7. CASE deleted # {}
  <2>1. \A g \in userInfoList' : <<g, starts>> \in told' => g \in mapFriendList'
    BY <1>1, <1>2 DEF FriendInv, RowsInv
  <2> QED
    BY <1>1, <1>2, <1>4, <1>5, <1>7, <2>1 DEF FriendInv, RowsInv
<1> QED
  BY <1>6, <1>7

\* The message goes to a window that has been closed, if of an earlier start.
LEMMA FriendLost ==
    ASSUME FriendInv, NEW f, NEW k, <<f, k>> \in sending, ~(MainWindow /\ k = starts),
           sending' = sending \ {<<f, k>>}, lost' = lost \cup {<<f, k>>},
           UNCHANGED <<starts, robot, helper, robotFriendVars, told, userInfoList, resending>>
    PROVE  FriendInv'
<1>1. UNCHANGED <<mapFriendList, rows, dwIndex, selected, deleted>>
  BY DEF robotFriendVars
<1>2. ToldInv' /\ PassedOn' = PassedOn
  BY SentStays DEF FriendInv
<1>3. NobodyInv'
  <2>1. MainWindow => \A g : <<g, starts>> # <<f, k>>
    OBVIOUS
  <2> QED
    BY <1>1, <1>2, <2>1 DEF FriendInv, NobodyInv, KnowsNobody, MainWindow
<1>4. RowsInv'
  BY <1>1 DEF FriendInv, RowsInv, IsRow, MainWindow
<1> QED
  BY <1>2, <1>3, <1>4 DEF FriendInv

\* A friend is listed and waits, because there is no window.
LEMMA FriendWaits ==
    ASSUME FriendInv, NEW f \in Friend, f \notin userInfoList, ~MainWindow,
           UNCHANGED <<starts, robot, helper, robotFriendVars, sending, told, lost>>,
           userInfoList' = userInfoList \cup {f}, resending' = resending \cup {f}
    PROVE  FriendInv'
<1>1. UNCHANGED <<mapFriendList, rows, dwIndex, selected, deleted>>
  BY DEF robotFriendVars
<1>2. UNCHANGED PassedOn /\ \A k : <<f, k>> \notin PassedOn
  BY DEF FriendInv, ToldInv, PassedOn
<1>3. ToldInv'
  <2>1. PassedOn \subseteq userInfoList' \X (1 .. starts)
    BY DEF FriendInv, ToldInv
  <2>2. userInfoList' \ resending' = userInfoList \ resending
    BY DEF FriendInv, ToldInv
  <2>3. ASSUME NEW g \in userInfoList' \ resending'
        PROVE  \E k \in 1 .. starts' : \A j \in 1 .. starts' : <<g, j>> \in PassedOn' <=> j = k
    <3>1. PICK k \in 1 .. starts : \A j \in 1 .. starts : <<g, j>> \in PassedOn <=> j = k
      BY <2>2, <2>3 DEF FriendInv, ToldInv
    <3> QED
      BY <1>2, <3>1
  <2>4. \A g \in resending' : \A k \in 1 .. starts' : <<g, k>> \notin PassedOn'
    BY <1>2 DEF FriendInv, ToldInv
  <2> QED
    BY <1>2, <2>1, <2>3, <2>4 DEF FriendInv, ToldInv, Apart
<1>4. NobodyInv'
  BY <1>1, <1>2 DEF FriendInv, NobodyInv, KnowsNobody, MainWindow
<1>5. RowsInv'
  BY <1>1 DEF FriendInv, RowsInv, MainWindow
<1> QED
  BY <1>3, <1>4, <1>5 DEF FriendInv

\* The robot goes on, comes to its main window, or stays as it is; the helper is not
\* loaded under a main window.
Goes ==
    /\ UNCHANGED starts
    /\ robot' = robot \/ (robot \notin {"off", "main"} /\ robot' # "off")
    /\ helper' # "none" /\ MainWindow' => helper # "none"

LEMMA FriendGoes == FriendInv /\ Goes /\ UNCHANGED friendVars => FriendInv'
<1> SUFFICES ASSUME FriendInv, Goes, UNCHANGED friendVars PROVE FriendInv'
  OBVIOUS
<1>1. UNCHANGED <<userInfoList, resending, mapFriendList, rows, dwIndex, selected, told,
                  deleted, starts, sending, lost, PassedOn>>
  BY DEF friendVars, Goes, PassedOn
<1>2. ToldInv'
  BY <1>1 DEF FriendInv, ToldInv, Apart, Goes
<1>3. NobodyInv'
  <2>1. \A f \in userInfoList : <<f, starts>> \notin PassedOn => <<f, starts>> \notin lost
    BY DEF PassedOn
  <2> QED
    BY <1>1, <2>1 DEF FriendInv, NobodyInv, KnowsNobody, MainWindow, Goes
<1>4. RowsInv'
  <2>1. CASE robot' = robot
    BY <1>1, <2>1 DEF FriendInv, RowsInv, IsRow, MainWindow, Goes
  <2>2. CASE robot \notin {"off", "main"}
    <3>1. rows = <<>> /\ Len(rows) = 0 /\ rows \in Seq(Friend) /\ dwIndex = 0
          /\ \A f \in userInfoList : <<f, starts>> \notin told
      BY <2>2, EmptySeq DEF FriendInv, NobodyInv, KnowsNobody, MainWindow, PassedOn
    <3> QED
      BY <1>1, <3>1 DEF RowsInv
  <2> QED
    BY <2>1, <2>2 DEF Goes
<1> QED
  BY <1>2, <1>3, <1>4 DEF FriendInv

LEMMA FriendEnds ==
    ASSUME FriendInv, robot' = "off", UNCHANGED starts, FriendsForgotten,
           UNCHANGED <<helperFriendVars, told>> \/ ListForgotten
    PROVE  FriendInv'
<1>1. KnowsNobody' /\ rows' = <<>> /\ Len(rows') = 0 /\ rows' \in Seq(Friend)
      /\ dwIndex' = 0 /\ robot' # "main"
  BY EmptySeq DEF FriendsForgotten, KnowsNobody
<1>2. ToldInv'
  BY DEF FriendInv, ToldInv, PassedOn, Apart, helperFriendVars, ListForgotten
<1> QED
  BY <1>1, <1>2 DEF FriendInv, NobodyInv, RowsInv, MainWindow

LEMMA FriendStarts ==
    ASSUME FriendInv, StartRobot, UNCHANGED friendVars PROVE FriendInv'
<1>1. /\ robot = "off" /\ robot' = "injecting" /\ starts' = starts + 1 /\ starts \in Nat
      /\ UNCHANGED <<userInfoList, resending, mapFriendList, rows, dwIndex, selected, told,
                     deleted, sending, lost, PassedOn>>
  BY DEF FriendInv, ToldInv, StartRobot, friendVars, PassedOn
<1>2. \A k \in 1 .. starts + 1 : k \in 1 .. starts \/ k = starts + 1
  BY <1>1
<1>3. \A k \in 1 .. starts : k \in 1 .. starts + 1 /\ k # starts + 1
  BY <1>1
<1>4. \A f : <<f, starts + 1>> \notin PassedOn
  BY <1>1 DEF FriendInv, ToldInv
<1>5. ToldInv'
  <2>1. PassedOn \subseteq userInfoList \X (1 .. starts + 1)
    BY <1>3 DEF FriendInv, ToldInv
  <2>2. \A f \in resending : \A k \in 1 .. starts + 1 : <<f, k>> \notin PassedOn
    BY <1>2, <1>4 DEF FriendInv, ToldInv
  <2>3. ASSUME NEW f \in userInfoList \ resending
        PROVE  \E k \in 1 .. starts + 1 : \A j \in 1 .. starts + 1 :
                   <<f, j>> \in PassedOn <=> j = k
    <3>1. PICK k \in 1 .. starts : \A j \in 1 .. starts : <<f, j>> \in PassedOn <=> j = k
      BY DEF FriendInv, ToldInv
    <3> QED
      BY <1>2, <1>3, <1>4, <3>1
  <2>4. \A f \in userInfoList' \ resending' : \E k \in 1 .. starts' :
            \A j \in 1 .. starts' : <<f, j>> \in PassedOn' <=> j = k
    BY <1>1, <2>3
  <2>5. starts' \in Nat /\ starts' # 0
    BY <1>1
  <2>6. resending' \subseteq userInfoList'
    BY <1>1 DEF FriendInv, ToldInv
  <2>7. Apart'
    BY <1>1 DEF FriendInv, ToldInv, Apart
  <2> QED
    BY <1>1, <2>1, <2>2, <2>4, <2>5, <2>6, <2>7 DEF ToldInv
<1>6. NobodyInv'
  BY <1>1, <1>4 DEF FriendInv, NobodyInv, KnowsNobody, MainWindow
<1>7. RowsInv'
  BY <1>1 DEF FriendInv, RowsInv, MainWindow
<1> QED
  BY <1>5, <1>6, <1>7 DEF FriendInv

LEMMA FriendWeChatEnds ==
    ASSUME FriendInv, ListForgotten, UNCHANGED <<starts, robot, robotFriendVars>>,
           helper' = "none"
    PROVE  FriendInv'
<1>1. /\ userInfoList' = {} /\ resending' = {} /\ told' = {} /\ sending' = {} /\ lost' = {}
      /\ UNCHANGED <<mapFriendList, rows, dwIndex, selected, deleted>>
  BY DEF ListForgotten, robotFriendVars
<1>2. ToldInv'
  BY <1>1 DEF FriendInv, ToldInv, PassedOn, Apart
<1>3. NobodyInv'
  BY <1>1 DEF FriendInv, NobodyInv, KnowsNobody, MainWindow
<1>4. RowsInv'
  BY <1>1 DEF FriendInv, RowsInv, MainWindow
<1> QED
  BY <1>2, <1>3, <1>4 DEF FriendInv

\* A click, or the end of a command that deletes the marked row.
LEMMA FriendMarks ==
    ASSUME FriendInv, UNCHANGED <<starts, robot, helper, helperFriendVars, told,
                                  mapFriendList, dwIndex>>,
           DeleteRow \/ (MainWindow /\ UNCHANGED <<rows, deleted>>)
    PROVE  FriendInv'
<1>1. ToldInv' /\ UNCHANGED PassedOn
  BY DEF FriendInv, ToldInv, PassedOn, Apart, helperFriendVars
<1>2. CASE UNCHANGED <<rows, deleted>> /\ (MainWindow \/ selected' = selected)
  BY <1>1, <1>2 DEF FriendInv, NobodyInv, KnowsNobody, RowsInv, IsRow, MainWindow,
                    helperFriendVars
<1>3. CASE selected # 0 /\ DeleteRow
  <2>1. deleted' # {}
    BY <1>3 DEF DeleteRow
  <2>2. MainWindow
    BY <1>3 DEF FriendInv, NobodyInv, KnowsNobody
  <2> QED
    BY <1>1, <2>1, <2>2 DEF FriendInv, NobodyInv, RowsInv, MainWindow, helperFriendVars
<1> QED
  BY <1>2, <1>3 DEF DeleteRow

LEMMA FriendsComeUp == FriendInv /\ ComingUp => FriendInv'
<1> SUFFICES ASSUME FriendInv, ComingUp PROVE FriendInv'
  OBVIOUS
<1>1. \/ OpenWeChat \/ AlreadyInjected \/ LoadHelper \/ LoadFails \/ InjectFails
      \/ OpenLogin \/ InitWindow \/ SetHooks \/ RegisterWindow \/ ShowPicture \/ SaveImg
  BY DEF ComingUp
<1>2. \/ Goes
      \/ robot # "off" /\ robot' = "off" /\ UNCHANGED starts
  <2>1. CASE OpenWeChat \/ AlreadyInjected \/ LoadHelper \/ LoadFails
    BY <2>1 DEF OpenWeChat, AlreadyInjected, LoadHelper, LoadFails, Goes, MainWindow
  <2>2. CASE InjectFails \/ OpenLogin \/ InitWindow
    BY <2>2 DEF InjectFails, OpenLogin, InitWindow, Goes, MainWindow
  <2>3. CASE SetHooks \/ RegisterWindow \/ ShowPicture \/ SaveImg
    BY <2>3 DEF SetHooks, RegisterWindow, ShowPicture, SaveImg, Goes, MainWindow
  <2> QED
    BY <1>1, <2>1, <2>2, <2>3
<1>3. CASE robot # "off" /\ robot' = "off" /\ UNCHANGED starts
  <2>1. FriendsForgotten /\ UNCHANGED <<helperFriendVars, told>>
    BY <1>3 DEF ComingUp, RobotSide, RobotEnds
  <2> QED
    BY <1>3, <2>1, FriendEnds
<1>4. CASE Goes /\ ~(robot # "off" /\ robot' = "off")
  <2>1. UNCHANGED friendVars
    BY <1>4 DEF ComingUp, RobotSide
  <2> QED
    BY <1>4, <2>1, FriendGoes
<1> QED
  BY <1>2, <1>3, <1>4 DEF Goes

LEMMA FriendsStarting == FriendInv /\ Starting => FriendInv'
<1> SUFFICES ASSUME FriendInv, Starting PROVE FriendInv'
  OBVIOUS
<1>1. CASE StartRobot /\ Still
  <2>1. UNCHANGED friendVars
    BY <1>1 DEF Still
  <2> QED
    BY <1>1, <2>1, FriendStarts
<1>2. CASE (ReopenWeChat \/ LogoutWeChat) /\ Still
  <2>1. UNCHANGED friendVars
    BY <1>2 DEF Still
  <2>2. Goes
    BY <1>2 DEF ReopenWeChat, LogoutWeChat, Goes, MainWindow
  <2> QED
    BY <2>1, <2>2, FriendGoes
<1>3. CASE ShowQrPicture /\ RobotSide
  <2>1. CASE robot' = "off"
    <3>1. FriendsForgotten /\ UNCHANGED <<helperFriendVars, told, starts>>
      BY <1>3, <2>1 DEF ShowQrPicture, RobotSide, RobotEnds
    <3> QED
      BY <2>1, <3>1, FriendEnds
  <2>2. CASE robot' # "off"
    <3>1. UNCHANGED friendVars
      BY <1>3, <2>2 DEF RobotSide
    <3>2. Goes
      BY <1>3, <2>2 DEF ShowQrPicture, Goes, MainWindow
    <3> QED
      BY <3>1, <3>2, FriendGoes
  <2> QED
    BY <2>1, <2>2
<1> QED
  BY <1>1, <1>2, <1>3 DEF Starting

LEMMA FriendsWelcome == FriendInv /\ Welcome => FriendInv'
<1> SUFFICES ASSUME FriendInv, Welcome PROVE FriendInv'
  OBVIOUS
<1>1. UNCHANGED friendVars
  BY DEF Welcome
<1>2. CheckIsLogin
  BY DEF Welcome
<1>3. CASE robot' = robot
  <2>1. Goes
    BY <1>2, <1>3 DEF CheckIsLogin, Goes, MainWindow
  <2> QED
    BY <1>1, <2>1, FriendGoes
<1>4. CASE robot' # robot
  <2>1. Goes
    BY <1>2, <1>4 DEF CheckIsLogin, LoginWindow, Goes, MainWindow
  <2> QED
    BY <1>1, <2>1, FriendGoes
<1> QED
  BY <1>3, <1>4

LEMMA FriendsClose == FriendInv /\ (WeChatCloses \/ MainCloses \/ RobotBursts) => FriendInv'
<1> SUFFICES ASSUME FriendInv, WeChatCloses \/ MainCloses \/ RobotBursts PROVE FriendInv'
  OBVIOUS
<1>1. CASE ExitWeChat /\ ListForgotten /\ UNCHANGED robotFriendVars
  <2>1. UNCHANGED <<starts, robot>> /\ helper' = "none"
    BY <1>1 DEF ExitWeChat, WeChatGone
  <2> QED
    BY <1>1, <2>1, FriendWeChatEnds
<1>2. CASE /\ CloseLogin \/ CloseMain \/ RobotDies
           /\ FriendsForgotten
           /\ UNCHANGED <<helperFriendVars, told>> \/ ListForgotten
  <2>1. robot' = "off" /\ UNCHANGED starts
    BY <1>2 DEF CloseLogin, CloseMain, RobotDies
  <2> QED
    BY <1>2, <2>1, FriendEnds
<1> QED
  BY <1>1, <1>2 DEF WeChatCloses, MainCloses, RobotBursts, RobotEnds

LEMMA FriendsAreListed == FriendInv /\ FriendsListed => FriendInv'
<1> SUFFICES ASSUME FriendInv, FriendsListed PROVE FriendInv'
  OBVIOUS
<1>1. FriendHook /\ UNCHANGED <<starts, robot, helper>>
  BY DEF FriendsListed, OnlyFriends, OnlyDialogs, NotStarting, startupVars
<1>2. ASSUME NEW f \in Friend, ListFriend(f, MainWindow, starts) PROVE FriendInv'
  <2>1. /\ f \notin userInfoList /\ userInfoList' = userInfoList \cup {f}
        /\ UNCHANGED <<lost, robotFriendVars, told>>
    BY <1>2 DEF ListFriend
  <2>2. CASE MainWindow
    <3>1. sending' = sending \cup {<<f, starts>>} /\ UNCHANGED resending
      BY <1>2, <2>2 DEF ListFriend
    <3>2. resending' = resending \ {f}
      BY <2>1, <3>1 DEF FriendInv, ToldInv
    <3> QED
      BY <1>1, <2>1, <2>2, <3>1, <3>2, FriendFound
  <2>3. CASE ~MainWindow
    <3>1. resending' = resending \cup {f} /\ UNCHANGED sending
      BY <1>2, <2>3 DEF ListFriend
    <3> QED
      BY <1>1, <2>1, <2>3, <3>1, FriendWaits
  <2> QED
    BY <2>2, <2>3
<1>3. ASSUME NEW f \in Friend, ReSendUser(f, MainWindow, starts) PROVE FriendInv'
  <2>1. /\ f \in resending /\ MainWindow /\ resending' = resending \ {f}
        /\ sending' = sending \cup {<<f, starts>>}
        /\ UNCHANGED <<userInfoList, lost, robotFriendVars, told>>
    BY <1>3 DEF ReSendUser
  <2>2. userInfoList' = userInfoList \cup {f}
    BY <2>1 DEF FriendInv, ToldInv
  <2> QED
    BY <1>1, <2>1, <2>2, FriendFound
<1>4. ASSUME NEW f \in Friend, NEW k \in 1 .. starts, SendFriend(f, k, MainWindow, starts)
      PROVE  FriendInv'
  <2>1. /\ <<f, k>> \in sending /\ sending' = sending \ {<<f, k>>}
        /\ UNCHANGED <<userInfoList, resending>>
    BY <1>4 DEF SendFriend
  <2>2. CASE MainWindow /\ k = starts
    <3>1. TellRobot(f, starts) /\ UNCHANGED lost
      BY <1>4, <2>2 DEF SendFriend
    <3> QED
      BY <1>1, <2>1, <2>2, <3>1, FriendTold
  <2>3. CASE ~(MainWindow /\ k = starts)
    <3>1. lost' = lost \cup {<<f, k>>} /\ UNCHANGED <<robotFriendVars, told>>
      BY <1>4, <2>3 DEF SendFriend
    <3> QED
      BY <1>1, <2>1, <2>3, <3>1, FriendLost
  <2> QED
    BY <2>2, <2>3
<1> QED
  BY <1>2, <1>3, <1>4 DEF FriendsListed

\* The end of a call deletes a row or leaves the list alone.
LEMMA ReturnMarks ==
    ASSUME NEW c, Return(c)
    PROVE  \/ UNCHANGED friendVars
           \/ DeleteRow /\ UNCHANGED <<helperFriendVars, told, mapFriendList, dwIndex, wxid>>
  BY DEF Return

\* What the user, the callers and the helper's window do to the friend list.
Marks ==
    /\ UNCHANGED <<starts, robot, helper>>
    /\ \/ UNCHANGED friendVars
       \/ /\ UNCHANGED <<helperFriendVars, told, mapFriendList, dwIndex>>
          /\ DeleteRow \/ (MainWindow /\ UNCHANGED <<rows, deleted>>)

LEMMA ClicksMark == Clicks => Marks
<1> SUFFICES ASSUME Clicks PROVE Marks
  OBVIOUS
<1>1. UNCHANGED startupVars /\ MainWindow
  BY DEF Clicks, OnlyFriends, OnlyDialogs, NotStarting
<1>2. UNCHANGED <<starts, robot, helper>>
  BY <1>1 DEF startupVars
<1>3. CASE \E r \in DOMAIN rows : ClickFriend(r) \/ RclickFriend(r)
  BY <1>1, <1>2, <1>3 DEF ClickFriend, RclickFriend, Marks
<1>4. CASE \E r \in DOMAIN mRows : ClickMember(r) \/ RclickMember(r)
  BY <1>2, <1>4 DEF ClickMember, RclickMember, Marks
<1> QED
  BY <1>3, <1>4 DEF Clicks

LEMMA CommandsMark == UserCommands \/ ApiCommands => Marks
<1> SUFFICES ASSUME UserCommands \/ ApiCommands PROVE Marks
  OBVIOUS
<1>1. UNCHANGED <<starts, robot, helper>>
  BY DEF UserCommands, ApiCommands, OnlyDialogs, NotStarting, startupVars
<1>2. UNCHANGED friendVars
  BY DEF UserCommands, ApiCommands, Button, AutoChatButton, MenuCommand, MemberCommand,
         OpenMembers, CloseMembers, ApiCall
<1> QED
  BY <1>1, <1>2 DEF Marks

LEMMA ServedMarks == Served => Marks
<1> SUFFICES ASSUME Served PROVE Marks
  OBVIOUS
<1>1. PICK c \in Caller :
          /\ Serve(c, MainWindow)
          /\ LET did == WndProc(calls[c].frame)
             IN  CASE did[1] = "LogoutWeChat" /\ wechat = "loggedIn" -> LogoutWeChat
                   [] did[1] = "ShowQrPicture" ->
                         /\ HookQrCode
                         /\ UNCHANGED <<wechat, version, helper, watcher, robot, own,
                                        starts, alone>>
                   [] OTHER -> UNCHANGED startupVars
  BY DEF Served
<1>2. UNCHANGED <<starts, robot, helper>>
  BY <1>1 DEF LogoutWeChat, startupVars
<1>3. Return(c) \/ UNCHANGED friendVars
  BY <1>1 DEF Serve
<1> QED
  BY <1>2, <1>3, ReturnMarks DEF Marks

LEMMA ReturningMarks == Returning => Marks
<1> SUFFICES ASSUME Returning PROVE Marks
  OBVIOUS
<1>1. UNCHANGED <<starts, robot, helper>>
  BY DEF Returning, OnlyDialogs, NotStarting, startupVars
<1>2. UNCHANGED friendVars \/ \E c : Return(c)
  BY DEF Returning, ListMember, ListingDone, Abandoned
<1> QED
  BY <1>1, <1>2, ReturnMarks DEF Marks

LEMMA FriendsMarked == FriendInv /\ Marks => FriendInv'
<1> SUFFICES ASSUME FriendInv, Marks PROVE FriendInv'
  OBVIOUS
<1>1. CASE UNCHANGED friendVars
  BY <1>1, FriendGoes DEF Marks, Goes
<1>2. CASE ~UNCHANGED friendVars
  BY <1>2, FriendMarks DEF Marks
<1> QED
  BY <1>1, <1>2

LEMMA FriendStep == FriendInv /\ [BridgeNext]_bridgeVars => FriendInv'
<1> SUFFICES ASSUME FriendInv, [BridgeNext]_bridgeVars PROVE FriendInv'
  OBVIOUS
<1>1. CASE ComingUp \/ Starting \/ Welcome \/ WeChatCloses \/ MainCloses \/ RobotBursts
           \/ FriendsListed
  BY <1>1, FriendsComeUp, FriendsStarting, FriendsWelcome, FriendsClose, FriendsAreListed
<1>2. CASE \E a \in Account : LoginOf(a)
  <2>1. UNCHANGED friendVars /\ Goes
    BY <1>2 DEF LoginOf, Login, Goes, MainWindow
  <2> QED
    BY <2>1, FriendGoes
<1>3. CASE Clicks \/ UserCommands \/ ApiCommands \/ Served \/ Returning
  BY <1>3, ClicksMark, CommandsMark, ServedMarks, ReturningMarks, FriendsMarked
<1>4. CASE Downloading \/ Pictures \/ UNCHANGED bridgeVars
  <2>1. UNCHANGED <<startupVars, friendVars>>
    BY <1>4 DEF Downloading, Pictures, NotStarting, bridgeVars
  <2>2. UNCHANGED friendVars /\ Goes
    BY <2>1 DEF startupVars, Goes, MainWindow
  <2> QED
    BY <2>2, FriendGoes
<1> QED
  BY <1>1, <1>2, <1>3, <1>4 DEF BridgeNext

LEMMA FriendFollows == FriendInv => FriendsKept
<1> SUFFICES ASSUME FriendInv PROVE FriendsKept
  OBVIOUS
<1>1. /\ sending \cap told = {} /\ sending \cap lost = {} /\ told \cap lost = {}
      /\ starts \in Nat
  BY DEF FriendInv, ToldInv, Apart
<1>2. ASSUME NEW f \in userInfoList
      PROVE  Cardinality({k \in 1 .. starts : <<f, k>> \in PassedOn})
                 = (IF f \in resending THEN 0 ELSE 1)
  <2> DEFINE found == {k \in 1 .. starts : <<f, k>> \in PassedOn}
  <2>1. CASE f \in resending
    <3>1. found = {}
      BY <2>1 DEF FriendInv, ToldInv
    <3> QED
      BY <2>1, <3>1, FS_EmptySet
  <2>2. CASE f \notin resending
    <3>1. PICK k \in 1 .. starts : \A j \in 1 .. starts : <<f, j>> \in PassedOn <=> j = k
      BY <1>2, <2>2 DEF FriendInv, ToldInv
    <3>2. found = {k}
      BY <3>1
    <3> QED
      BY <2>2, <3>2, FS_Singleton
  <2> QED
    BY <2>1, <2>2
<1>3. ASSUME NEW f \in userInfoList, MainWindow
      PROVE  starts \notin {k \in 1 .. starts : <<f, k>> \in lost}
  BY <1>3 DEF FriendInv, NobodyInv
<1>4. ASSUME NEW f \in userInfoList, starts \in {k \in 1 .. starts : <<f, k>> \in told},
             MainWindow
      PROVE  f \in mapFriendList /\ (Cardinality(RowOf(f)) = 1 \/ deleted # {})
  <2>1. f \in mapFriendList /\ (deleted = {} => IsRow(f))
    BY <1>4 DEF FriendInv, RowsInv
  <2>2. CASE deleted = {}
    <3>1. PICK r \in 1 .. Len(rows) : rows[r] = f
      BY <2>1, <2>2 DEF IsRow
    <3>2. RowOf(f) = {r}
      BY <2>2, <3>1 DEF RowOf, FriendInv, RowsInv
    <3> QED
      BY <2>1, <3>2, FS_Singleton
  <2> QED
    BY <2>1, <2>2
<1> QED
  BY <1>1, <1>2, <1>3, <1>4 DEF FriendsKept, NoFriendLost, PassedOn

\* However often the robot, WeChat and the helper start, end, log in and out, a friend
\* WeChat has listed waits in a thread of the helper, or the window of one start of the
\* robot has been found for it: the message is on the way there, has arrived, or was lost
\* because that window closed first, never while it is there.  And a robot at work knows
\* whom it has been told of and shows each in one row until rows are deleted.
THEOREM FriendsNeverLost == BridgeSpec => []FriendsKept
<1>1. BridgeInit => FriendInv
  BY FriendsInit, ZenonT(40)
<1> QED
  BY <1>1, FriendStep, FriendFollows, PTL DEF BridgeSpec
-----------------------------------------------------------------------------
(* What the robot writes into a frame, the helper reads out of it. *)

\* What WndProc makes of a frame, by its code: the cases up to WM_AddGroupMember ...
LEMMA FirstCommands ==
    ASSUME NEW f
    PROVE  /\ f.code = "WM_Logout" => WndProc(f) = <<"LogoutWeChat">>
           /\ f.code = "WM_SendTextMessage" =>
               WndProc(f) = <<"SendTextMessage", Read(f, 0), Read(f, 40)>>
           /\ f.code = "WM_SendFileMessage" =>
               WndProc(f) = <<"SendFileMessage", Read(f, 0), Read(f, 40)>>
           /\ f.code = "WM_GetInformation" => WndProc(f) = <<"GetInformation">>
           /\ f.code = "WM_SendImageMessage" =>
               WndProc(f) = <<"SendImageMessage", Read(f, 0), Read(f, 40)>>
           /\ f.code = "WM_SetRoomAnnouncement" =>
               WndProc(f) = <<"SetWxRoomAnnouncement", Read(f, 0), Read(f, 40)>>
           /\ f.code = "WM_DeleteUser" => WndProc(f) = <<"DeleteUser", Read(f, 0)>>
           /\ f.code = "WM_QuitChatRoom" =>
               WndProc(f) = <<"QuitChatRoom", Read(f, 0)>>
           /\ f.code = "WM_AddGroupMember" =>
               WndProc(f) = <<"AddGroupMember", Read(f, 0), Read(f, 50)>>
  BY ZenonT(40) DEF WndProc, FirstCases

\* ... those of two and more words after it ...
LEMMA LaterCommands ==
    ASSUME NEW f
    PROVE  /\ f.code = "WM_SendXmlCard" =>
               WndProc(f) = <<"SendXmlCard", Read(f, 0), Read(f, 50), Read(f, 100)>>
           /\ f.code = "WM_ShowChatRoomMember" =>
               WndProc(f) = <<"ShowChatRoomMember", Read(f, 0), Read(f, 50)>>
           /\ f.code = "WM_AddUser" =>
               WndProc(f) = <<"AddWxUser", Read(f, 0), Read(f, 50)>>
           /\ f.code = "WM_SetRoomName" =>
               WndProc(f) = <<"SetRoomName", Read(f, 0), Read(f, 50)>>
           /\ f.code = "WM_SendAtMsg" =>
               WndProc(f) = <<"SendRoomAtMsg", Read(f, 0), Read(f, 50), Read(f, 100),
                              Read(f, 150)>>
           /\ f.code = "WM_DelRoomMember" =>
               WndProc(f) = <<"DelRoomMember", Read(f, 0), Read(f, 50)>>
<1>1. f.code \in {"WM_SendXmlCard", "WM_ShowChatRoomMember", "WM_AddUser", "WM_SetRoomName",
                  "WM_SendAtMsg", "WM_DelRoomMember"}
          => WndProc(f) = LastCases(f)
  BY DEF WndProc, FirstCases
<1> QED
  BY <1>1 DEF LastCases

\* ... and those of one word or none.
LEMMA LastCommands ==
    ASSUME NEW f
    PROVE  /\ f.code = "WM_ShowChatRoomMembers" =>
               WndProc(f) = <<"ShowChatRoomUser", Read(f, 0)>>
           /\ f.code = "WM_GetChatRoomMembers" =>
               WndProc(f) = <<"ShowChatRoomUser", Read(f, 0)>>
           /\ f.code = "WM_AutoChat" => WndProc(f) = <<"AutoChat", TRUE>>
           /\ f.code = "WM_CancleAutoChat" => WndProc(f) = <<"AutoChat", FALSE>>
           /\ f.code = "WM_OpenUrl" => WndProc(f) = <<"OpenUrl", Read(f, 0)>>
           /\ f.code = "WM_SaveFriendList" => WndProc(f) = <<"SaveToTxtFie">>
<1>1. f.code \in {"WM_ShowChatRoomMembers", "WM_GetChatRoomMembers", "WM_AutoChat",
                  "WM_CancleAutoChat", "WM_OpenUrl", "WM_SaveFriendList"}
          => WndProc(f) = LastCases(f)
  BY DEF WndProc, FirstCases
<1> QED
  BY <1>1 DEF LastCases

\* What the helper reads at the offsets the robot has written to, if nothing has run
\* out of its field.
LEMMA InOne ==
    ASSUME NEW code, NEW a
    PROVE  One(code, a).code = code /\ Read(One(code, a), 0) = a
  BY DEF One, Read
LEMMA InForty ==
    ASSUME NEW code, NEW a, NEW b, NEW f, f = Forty(code, a, b)
    PROVE  /\ f.code = code
           /\ ~Spills(f) => Read(f, 0) = a /\ Read(f, 40) = b /\ b # Junk
<1>1. /\ f.code = code
      /\ f.at = [o \in {0, 40} |-> IF o = 0 THEN Field(a, 40) ELSE b]
  BY DEF Forty
<1>2. f.at[0] = Field(a, 40) /\ f.at[40] = b /\ DOMAIN f.at = {0, 40}
  BY <1>1
<1>3. Field(a, 40) \in {a, Junk}
  BY DEF Field
<1> QED
  BY <1>1, <1>2, <1>3 DEF Read, Spills
LEMMA InFifty ==
    ASSUME NEW code, NEW a, NEW b, NEW f, f = Fifty(code, a, b)
    PROVE  /\ f.code = code
           /\ ~Spills(f) => Read(f, 0) = a /\ Read(f, 50) = b
<1>1. /\ f.code = code
      /\ f.at = [o \in {0, 50} |-> Field(IF o = 0 THEN a ELSE b, 50)]
  BY DEF Fifty
<1>2. f.at[0] = Field(a, 50) /\ f.at[50] = Field(b, 50) /\ DOMAIN f.at = {0, 50}
  BY <1>1
<1>3. Field(a, 50) \in {a, Junk} /\ Field(b, 50) \in {b, Junk}
  BY DEF Field
<1> QED
  BY <1>1, <1>2, <1>3 DEF Read, Spills
LEMMA InFifties ==
    ASSUME NEW code, NEW a, NEW b, NEW c, NEW f, f = Fifties(code, a, b, c)
    PROVE  /\ f.code = code
           /\ ~Spills(f) => Read(f, 0) = a /\ Read(f, 50) = b /\ Read(f, 100) = c
<1>1. /\ f.code = code
      /\ f.at = [o \in {0, 50, 100} |->
                     Field(CASE o = 0 -> a [] o = 50 -> b [] o = 100 -> c, 50)]
  BY DEF Fifties
<1>2. /\ f.at[0] = Field(a, 50) /\ f.at[50] = Field(b, 50) /\ f.at[100] = Field(c, 50)
      /\ DOMAIN f.at = {0, 50, 100}
  BY <1>1
<1>3. /\ Field(a, 50) \in {a, Junk} /\ Field(b, 50) \in {b, Junk}
      /\ Field(c, 50) \in {c, Junk}
  BY DEF Field
<1> QED
  BY <1>1, <1>2, <1>3 DEF Read, Spills
LEMMA InAtFrame ==
    ASSUME NEW code, NEW a, NEW b, NEW c, NEW d, NEW f, f = AtFrame(code, a, b, c, d)
    PROVE  /\ f.code = code
           /\ ~Spills(f) => /\ Read(f, 0) = a /\ Read(f, 50) = b
                            /\ Read(f, 100) = c /\ Read(f, 150) = d
<1>1. /\ f.code = code
      /\ f.at = [o \in {0, 50, 100, 150} |->
                     CASE o = 0 -> Field(a, 50) [] o = 50 -> Field(b, 50)
                       [] o = 100 -> Field(c, 50) [] o = 150 -> Field(d, 100)]
  BY DEF AtFrame
<1>2. /\ f.at[0] = Field(a, 50) /\ f.at[50] = Field(b, 50)
      /\ f.at[100] = Field(c, 50) /\ f.at[150] = Field(d, 100)
      /\ DOMAIN f.at = {0, 50, 100, 150}
  BY <1>1
<1>3. /\ Field(a, 50) \in {a, Junk} /\ Field(b, 50) \in {b, Junk}
      /\ Field(c, 50) \in {c, Junk} /\ Field(d, 100) \in {d, Junk}
  BY DEF Field
<1>4. \A o \in {0, 50, 100, 150} : Read(f, o) = f.at[o]
  BY <1>2 DEF Read
<1> QED
  BY <1>1, <1>2, <1>3, <1>4 DEF Spills

\* The commands the dialogs give, by their shapes.
Texts == {"SendTextMessage", "SendFileMessage", "SendImageMessage", "SetWxRoomAnnouncement"}
Pairs == {"AddWxUser", "SetRoomName", "AddGroupMember", "DelRoomMember"}
Singles == {"DeleteUser", "QuitChatRoom", "OpenUrl", "ShowChatRoomUser"}
Plains == {"GetInformation", "LogoutWeChat", "SaveToTxtFie"}

\* The helper carries out what a dialog has asked for.
LEMMA DialogTexts ==
    ASSUME NEW kind \in Texts, NEW a, NEW b, ~Spills(Dialog(<<kind, a, b>>))
    PROVE  WndProc(Dialog(<<kind, a, b>>)) = <<kind, a, b>>
<1> DEFINE f == Dialog(<<kind, a, b>>)
<1>1. PICK size \in {MAX_PATH, MAX_MSG_LEN} :
        \/ kind = "SendTextMessage" /\ f = Forty("WM_SendTextMessage", a, Field(b, size))
        \/ kind = "SendFileMessage" /\ f = Forty("WM_SendFileMessage", a, Field(b, size))
        \/ kind = "SendImageMessage" /\ f = Forty("WM_SendImageMessage", a, Field(b, size))
        \/ /\ kind = "SetWxRoomAnnouncement"
           /\ f = Forty("WM_SetRoomAnnouncement", a, Field(b, size))
  <2>1. CASE kind = "SetWxRoomAnnouncement"
    BY <2>1 DEF Dialog, Announcement
  <2>2. CASE kind # "SetWxRoomAnnouncement"
    <3> DEFINE size == IF a \in Group THEN MAX_PATH ELSE MAX_MSG_LEN
    <3>1. size \in {MAX_PATH, MAX_MSG_LEN}
      OBVIOUS
    <3>2. f = Message(<<kind, a, b>>)
      BY <2>2 DEF Texts, Dialog
    <3>3. \/ kind = "SendTextMessage" /\ f = Forty("WM_SendTextMessage", a, Field(b, size))
          \/ kind = "SendFileMessage" /\ f = Forty("WM_SendFileMessage", a, Field(b, size))
          \/ kind = "SendImageMessage" /\ f = Forty("WM_SendImageMessage", a, Field(b, size))
      BY <2>2, <3>2 DEF Texts, Message
    <3> HIDE DEF size, f
    <3> QED
      BY <3>1, <3>3
  <2> QED
    BY <2>1, <2>2
<1> HIDE DEF f
<1>2. ~Spills(f)
  BY DEF f
<1>3. Read(f, 0) = a /\ Read(f, 40) = Field(b, size) /\ Field(b, size) # Junk
  BY <1>1, <1>2, InForty
<1>4. Read(f, 40) = b
  BY <1>3 DEF Field
<1>5. \/ kind = "SendTextMessage" /\ f.code = "WM_SendTextMessage"
      \/ kind = "SendFileMessage" /\ f.code = "WM_SendFileMessage"
      \/ kind = "SendImageMessage" /\ f.code = "WM_SendImageMessage"
      \/ kind = "SetWxRoomAnnouncement" /\ f.code = "WM_SetRoomAnnouncement"
  BY <1>1, InForty
<1>6. WndProc(f) = <<kind, a, b>>
  BY <1>3, <1>4, <1>5, FirstCommands
<1> QED
  BY <1>6 DEF f

LEMMA DialogPairs ==
    ASSUME NEW kind \in Pairs, NEW a, NEW b, ~Spills(Dialog(<<kind, a, b>>))
    PROVE  WndProc(Dialog(<<kind, a, b>>)) = <<kind, a, b>>
<1>1. \/ /\ kind = "AddWxUser"
         /\ Dialog(<<kind, a, b>>) = Fifty("WM_AddUser", a, b)
      \/ /\ kind = "SetRoomName"
         /\ Dialog(<<kind, a, b>>) = Fifty("WM_SetRoomName", a, b)
      \/ /\ kind = "AddGroupMember"
         /\ Dialog(<<kind, a, b>>) = Fifty("WM_AddGroupMember", a, b)
      \/ /\ kind = "DelRoomMember"
         /\ Dialog(<<kind, a, b>>) = Fifty("WM_DelRoomMember", a, b)
  BY DEF Pairs, Dialog, AddUser, RoomName, RoomMember, DelMember
<1> QED
  BY <1>1, InFifty, FirstCommands, LaterCommands

LEMMA DialogSingles ==
    ASSUME NEW kind \in Singles, NEW a
    PROVE  WndProc(Dialog(<<kind, a>>)) = <<kind, a>>
<1>1. \/ kind = "DeleteUser" /\ Dialog(<<kind, a>>) = One("WM_DeleteUser", a)
      \/ kind = "QuitChatRoom" /\ Dialog(<<kind, a>>) = One("WM_QuitChatRoom", a)
      \/ kind = "OpenUrl" /\ Dialog(<<kind, a>>) = One("WM_OpenUrl", a)
      \/ /\ kind = "ShowChatRoomUser"
         /\ Dialog(<<kind, a>>) = One("WM_ShowChatRoomMembers", a)
  BY DEF Singles, Dialog, OfFriend, OpenPage, Members
<1>2. CASE kind \in {"DeleteUser", "QuitChatRoom"}
  BY <1>1, <1>2, InOne, FirstCommands
<1>3. CASE kind \in {"OpenUrl", "ShowChatRoomUser"}
  <2> DEFINE f == Dialog(<<kind, a>>)
  <2>1. /\ Read(f, 0) = a
        /\ \/ kind = "OpenUrl" /\ f.code = "WM_OpenUrl"
           \/ kind = "ShowChatRoomUser" /\ f.code = "WM_ShowChatRoomMembers"
    BY <1>1, <1>3, InOne
  <2> HIDE DEF f
  <2>2. WndProc(f) = <<kind, a>>
    BY <2>1, LastCommands
  <2> QED
    BY <2>2 DEF f
<1> QED
  BY <1>2, <1>3 DEF Singles

LEMMA DialogPlains ==
    ASSUME NEW kind \in Plains
    PROVE  WndProc(Dialog(<<kind>>)) = <<kind>>
<1>1. \/ kind = "GetInformation" /\ Dialog(<<kind>>).code = "WM_GetInformation"
      \/ kind = "LogoutWeChat" /\ Dialog(<<kind>>).code = "WM_Logout"
      \/ kind = "SaveToTxtFie" /\ Dialog(<<kind>>).code = "WM_SaveFriendList"
  BY DEF Plains, Dialog, NoArguments, Bare
<1> QED
  BY <1>1, FirstCommands, LastCommands, ZenonT(40)

LEMMA DialogOthers ==
    ASSUME NEW a, NEW b, NEW c, NEW d, NEW on \in BOOLEAN
    PROVE  /\ WndProc(Dialog(<<"AutoChat", on>>)) = <<"AutoChat", on>>
           /\ ~Spills(Dialog(<<"SendXmlCard", a, b, c>>)) =>
                WndProc(Dialog(<<"SendXmlCard", a, b, c>>)) = <<"SendXmlCard", a, b, c>>
           /\ ~Spills(Dialog(<<"SendRoomAtMsg", a, b, c, d>>)) =>
                WndProc(Dialog(<<"SendRoomAtMsg", a, b, c, d>>))
                    = <<"SendRoomAtMsg", a, b, c, d>>
<1>1. Dialog(<<"AutoChat", on>>).code = IF on THEN "WM_AutoChat" ELSE "WM_CancleAutoChat"
  BY DEF Dialog, AutoChat, Bare
<1>2. Dialog(<<"SendXmlCard", a, b, c>>) = Fifties("WM_SendXmlCard", a, b, c)
  BY DEF Dialog, XmlCard
<1>3. Dialog(<<"SendRoomAtMsg", a, b, c, d>>) = AtFrame("WM_SendAtMsg", a, b, c, d)
  BY DEF Dialog, RoomAt
<1>4. WndProc(Dialog(<<"AutoChat", on>>)) = <<"AutoChat", on>>
  BY <1>1, LastCommands
<1>5. ~Spills(Dialog(<<"SendXmlCard", a, b, c>>)) =>
         WndProc(Dialog(<<"SendXmlCard", a, b, c>>)) = <<"SendXmlCard", a, b, c>>
  BY <1>2, InFifties, LaterCommands
<1>6. ~Spills(Dialog(<<"SendRoomAtMsg", a, b, c, d>>)) =>
         WndProc(Dialog(<<"SendRoomAtMsg", a, b, c, d>>)) = <<"SendRoomAtMsg", a, b, c, d>>
  BY <1>3, InAtFrame, LaterCommands
<1> QED
  BY <1>4, <1>5, <1>6

\* What a dialog sends is no question for a list, nor, but for one, a deletion.
LEMMA CodeReads ==
    ASSUME NEW f
    PROVE  /\ f.code \notin {"WM_ShowChatRoomMembers", "WM_GetChatRoomMembers"} =>
                WndProc(f)[1] # "ShowChatRoomUser"
           /\ f.code # "WM_DelRoomMember" => WndProc(f)[1] # "DelRoomMember"
<1>1. FirstCases(f)[1] \notin {"ShowChatRoomUser", "DelRoomMember"}
  BY ZenonT(40) DEF FirstCases
<1>2. /\ f.code \notin {"WM_ShowChatRoomMembers", "WM_GetChatRoomMembers"} =>
           LastCases(f)[1] # "ShowChatRoomUser"
      /\ f.code # "WM_DelRoomMember" => LastCases(f)[1] # "DelRoomMember"
  BY ZenonT(40) DEF LastCases
<1> QED
  BY <1>1, <1>2 DEF WndProc

LEMMA DialogCode ==
    ASSUME NEW cmd, NEW kind, kind = cmd[1],
           kind \in Texts \cup Pairs \cup Plains
              \cup {"DeleteUser", "QuitChatRoom", "OpenUrl", "AutoChat", "SendXmlCard",
                    "SendRoomAtMsg"}
    PROVE  /\ WndProc(Dialog(cmd))[1] # "ShowChatRoomUser"
           /\ kind # "DelRoomMember" => WndProc(Dialog(cmd))[1] # "DelRoomMember"
<1> DEFINE f == Dialog(cmd)
<1>1. CASE kind \in Texts
  <2>1. \E code, a, b : /\ f = Forty(code, a, b)
                        /\ code \in {"WM_SendTextMessage", "WM_SendFileMessage",
                                     "WM_SendImageMessage", "WM_SetRoomAnnouncement"}
    BY <1>1, ZenonT(40) DEF Texts, Dialog, Message, Announcement
  <2>2. f.code \in {"WM_SendTextMessage", "WM_SendFileMessage",
                    "WM_SendImageMessage", "WM_SetRoomAnnouncement"}
    BY <2>1 DEF Forty
  <2> QED
    BY <2>2, CodeReads
<1>2. CASE kind \in Pairs
  <2>1. /\ f.code \in {"WM_AddUser", "WM_SetRoomName", "WM_AddGroupMember",
                       "WM_DelRoomMember"}
        /\ kind # "DelRoomMember" => f.code # "WM_DelRoomMember"
    BY <1>2 DEF Pairs, Dialog, AddUser, RoomName, RoomMember, DelMember, Fifty
  <2> QED
    BY <2>1, CodeReads
<1>3. CASE kind \in Plains
  <2>1. f.code \in {"WM_GetInformation", "WM_Logout", "WM_SaveFriendList"}
    BY <1>3 DEF Plains, Dialog, NoArguments, Bare
  <2> QED
    BY <2>1, CodeReads
<1>4. CASE kind \in {"DeleteUser", "QuitChatRoom", "OpenUrl"}
  <2>1. f.code \in {"WM_DeleteUser", "WM_QuitChatRoom", "WM_OpenUrl"}
    BY <1>4 DEF Dialog, OfFriend, OpenPage, One
  <2> QED
    BY <2>1, CodeReads
<1>5. CASE kind \in {"AutoChat", "SendXmlCard", "SendRoomAtMsg"}
  <2>1. f.code \in {"WM_AutoChat", "WM_CancleAutoChat", "WM_SendXmlCard", "WM_SendAtMsg"}
    BY <1>5 DEF Dialog, AutoChat, XmlCard, RoomAt, Bare, Fifties, AtFrame
  <2> QED
    BY <2>1, CodeReads
<1> QED
  BY <1>1, <1>2, <1>3, <1>4, <1>5

\* A wxid fits, at least what the robot has of it.
LEMMA CutFits == ASSUME NEW id PROVE Fits(Cut(id), 50)
<1>1. CASE id \in DOMAIN Shortened
  <2>1. Fits(Shortened[id], 21)
    BY <1>1, LengthAssumption
  <2> QED
    BY <1>1, <2>1, LengthAssumption DEF Fits, Cut
<1>2. CASE id \notin DOMAIN Shortened
  BY <1>2, LengthAssumption DEF Fits, Cut
<1> QED
  BY <1>1, <1>2

\* The helper reads whom the robot has named, whatever else has run out of its field.
LEMMA WhoIsDeleted ==
    ASSUME NEW cmd, cmd[1] = "DelRoomMember", Fits(cmd[3], 50)
    PROVE  WndProc(Dialog(cmd))[1] = "DelRoomMember" /\ WndProc(Dialog(cmd))[3] = cmd[3]
<1> DEFINE f == Dialog(cmd)
<1>1. f = Fifty("WM_DelRoomMember", cmd[2], cmd[3])
  BY DEF Dialog, DelMember
<1>2. /\ f.code = "WM_DelRoomMember"
      /\ f.at = [o \in {0, 50} |-> Field(IF o = 0 THEN cmd[2] ELSE cmd[3], 50)]
  BY <1>1 DEF Fifty
<1>3. Read(f, 50) = cmd[3]
  BY <1>2 DEF Read, Field
<1>4. WndProc(f) = <<"DelRoomMember", Read(f, 0), Read(f, 50)>>
  BY <1>2, LaterCommands
<1> QED
  BY <1>3, <1>4

\* A frame of one layout under another code.
LEMMA FortyCode ==
    ASSUME NEW code, NEW to, NEW text
    PROVE  [Forty("", to, text) EXCEPT !.code = code] = Forty(code, to, text)
<1>1. \A at, rest, none : [[code |-> none, rest |-> rest, at |-> at] EXCEPT !.code = code]
                               = [code |-> code, rest |-> rest, at |-> at]
  OBVIOUS
<1>2. /\ Forty("", to, text)
             = [code |-> "", rest |-> Junk,
                at |-> [o \in {0, 40} |-> IF o = 0 THEN Field(to, 40) ELSE text]]
      /\ Forty(code, to, text)
             = [code |-> code, rest |-> Junk,
                at |-> [o \in {0, 40} |-> IF o = 0 THEN Field(to, 40) ELSE text]]
  BY Zenon DEF Forty
<1>3. [[code |-> "", rest |-> Junk,
        at |-> [o \in {0, 40} |-> IF o = 0 THEN Field(to, 40) ELSE text]] EXCEPT !.code = code]
          = [code |-> code, rest |-> Junk,
             at |-> [o \in {0, 40} |-> IF o = 0 THEN Field(to, 40) ELSE text]]
  BY <1>1, Zenon
<1> QED
  BY <1>2, <1>3, Zenon

\* The same for a command through CMsgManager, of the types it knows, but for the name
\* of a group.
LEMMA ApiReaches ==
    ASSUME NEW cmd \in ApiCommand, cmd[1] \notin {"?", "SetRoomName"},
           NEW frame \in Api(cmd), ~Spills(frame)
    PROVE  WndProc(frame) = cmd
<1>1. CASE /\ cmd[1] \in {"SendTextMessage", "SendFileMessage", "SendImageMessage"}
           /\ cmd = <<cmd[1], cmd[2], cmd[3]>>
           /\ cmd[3] = AtText => cmd[1] = "SendTextMessage"
  <2>1. CASE cmd[3] = AtText
    <3>1. cmd = <<"SendTextMessage", cmd[2], cmd[3]>>
      BY <1>1, <2>1
    <3>2. frame = Forty("WM_SendTextMessage", cmd[2], cmd[3])
      BY <1>1, <2>1 DEF Api, SendAtMsg
    <3> QED
      BY <3>1, <3>2, InForty, FirstCommands
  <2>2. CASE cmd[3] # AtText
    <3>1. frame \in SendMsg(cmd)
      BY <1>1, <2>2 DEF Api
    <3>2. \/ cmd[1] = "SendTextMessage" /\ frame = Forty("WM_SendTextMessage", cmd[2], cmd[3])
          \/ cmd[1] = "SendFileMessage" /\ frame = Forty("WM_SendFileMessage", cmd[2], cmd[3])
          \/ cmd[1] = "SendImageMessage" /\ frame = Forty("WM_SendImageMessage", cmd[2], cmd[3])
      <4> DEFINE to == cmd[2]
                 text == cmd[3]
      <4>1. /\ [Forty("", to, text) EXCEPT !.code = "WM_SendTextMessage"]
                  = Forty("WM_SendTextMessage", to, text)
            /\ [Forty("", to, text) EXCEPT !.code = "WM_SendFileMessage"]
                  = Forty("WM_SendFileMessage", to, text)
            /\ [Forty("", to, text) EXCEPT !.code = "WM_SendImageMessage"]
                  = Forty("WM_SendImageMessage", to, text)
        BY FortyCode
      <4> QED
        BY <1>1, <3>1, <4>1, ZenonT(40) DEF SendMsg
    <3> QED
      BY <1>1, <3>2, InForty, FirstCommands
  <2> QED
    BY <2>1, <2>2
<1>2. CASE /\ cmd[1] \in {"AddWxUser", "AddGroupMember", "DelRoomMember", "ShowChatRoomMember"}
           /\ cmd = <<cmd[1], cmd[2], cmd[3]>>
  <2>1. \/ cmd[1] = "AddWxUser" /\ frame = Fifty("WM_AddUser", cmd[2], cmd[3])
        \/ cmd[1] = "AddGroupMember" /\ frame = Fifty("WM_AddGroupMember", cmd[2], cmd[3])
        \/ cmd[1] = "DelRoomMember" /\ frame = Fifty("WM_DelRoomMember", cmd[2], cmd[3])
        \/ cmd[1] = "ShowChatRoomMember"
           /\ frame = Fifty("WM_ShowChatRoomMember", cmd[2], cmd[3])
    BY <1>2 DEF Api, SendFriendAddMsg, SendGroupMemberOperMsg, GetGroupMemberInfo
  <2> QED
    BY <1>2, <2>1, InFifty, FirstCommands, LaterCommands
<1>3. CASE cmd[1] \in {"DeleteUser", "ShowChatRoomUser"} /\ cmd = <<cmd[1], cmd[2]>>
  <2>1. \/ cmd[1] = "DeleteUser" /\ frame = One("WM_DeleteUser", cmd[2])
        \/ cmd[1] = "ShowChatRoomUser" /\ frame = One("WM_GetChatRoomMembers", cmd[2])
    BY <1>3 DEF Api, SendFriendDelMsg, SendGetGroupMemberListMsg
  <2>2. CASE cmd[1] = "DeleteUser"
    BY <1>3, <2>1, <2>2, InOne, FirstCommands
  <2>3. CASE cmd[1] = "ShowChatRoomUser"
    <3>1. Read(frame, 0) = cmd[2] /\ frame.code = "WM_GetChatRoomMembers"
      BY <2>1, <2>3, InOne
    <3>2. WndProc(frame) = <<"ShowChatRoomUser", cmd[2]>>
      BY <3>1, LastCommands
    <3> QED
      BY <1>3, <2>3, <3>2
  <2> QED
    BY <1>3, <2>2, <2>3
<1>4. CASE cmd[1] = "SendXmlCard" /\ cmd = <<cmd[1], cmd[2], cmd[3], cmd[4]>>
  <2>1. frame = Fifties("WM_SendXmlCard", cmd[2], cmd[3], cmd[4])
    BY <1>4 DEF Api, SendCard
  <2> QED
    BY <1>4, <2>1, InFifties, LaterCommands
<1>5. CASE cmd = <<"GetInformation">>
  <2>1. frame.code = "WM_GetInformation"
    BY <1>5 DEF Api, GetPrivateInfo, Bare
  <2> QED
    BY <1>5, <2>1, FirstCommands
<1> QED
  BY <1>1, <1>2, <1>3, <1>4, <1>5, CommandAssumption
-----------------------------------------------------------------------------
(* The rows of the two lists, and the marks on them. *)

\* A value that is a sequence, of whatever it may be.
IsSequence(s) == \E S : s \in Seq(S)

LEMMA Sequences ==
    ASSUME NEW s, IsSequence(s)
    PROVE  /\ Len(s) \in Nat /\ DOMAIN s = 1 .. Len(s)
           /\ \A x : /\ IsSequence(Append(s, x)) /\ Len(Append(s, x)) = Len(s) + 1
                     /\ \A i \in 1 .. Len(s) : Append(s, x)[i] = s[i]
                     /\ Append(s, x)[Len(s) + 1] = x
<1>1. PICK S : s \in Seq(S)
  BY DEF IsSequence
<1>2. Len(s) \in Nat /\ DOMAIN s = 1 .. Len(s)
  BY <1>1
<1>3. ASSUME NEW x
      PROVE  /\ IsSequence(Append(s, x)) /\ Len(Append(s, x)) = Len(s) + 1
             /\ \A i \in 1 .. Len(s) : Append(s, x)[i] = s[i]
             /\ Append(s, x)[Len(s) + 1] = x
  <2>1. s \in Seq(S \cup {x})
    BY <1>1
  <2>2. Append(s, x) \in Seq(S \cup {x})
    BY <2>1
  <2> QED
    BY <2>1, <2>2 DEF IsSequence
<1> QED
  BY <1>2, <1>3

\* A row inserted is at the index or, without text, at the end.
LEMMA Insertion ==
    ASSUME NEW s, IsSequence(s), NEW n \in Nat, NEW x
    PROVE  /\ IsSequence(Inserted(s, n, x)) /\ Len(Inserted(s, n, x)) = Len(s) + 1
           /\ \A i \in 1 .. Len(s) :
                  Inserted(s, n, x)[IF i > n THEN i + 1 ELSE i] = s[i]
<1>1. PICK S : s \in Seq(S)
  BY DEF IsSequence
<1>2. Len(s) \in Nat
  BY <1>1
<1>3. CASE n <= Len(s)
  <2> DEFINE T == S \cup {x}
             a == SubSeq(s, 1, n)
             b == SubSeq(s, n + 1, Len(s))
  <2>1. s \in Seq(T)
    BY <1>1
  <2>2. /\ a \in Seq(T) /\ Len(a) = n /\ \A i \in 1 .. n : a[i] = s[i]
    BY <1>2, <1>3, <2>1
  <2>3. /\ b \in Seq(T) /\ Len(b) = Len(s) - n
        /\ \A i \in 1 .. Len(s) - n : b[i] = s[n + i]
    BY <1>2, <1>3, <2>1
  <2>4. Inserted(s, n, x) = a \o <<x>> \o b
    <3>1. (n + 1) - 1 = n
      OBVIOUS
    <3> QED
      BY <1>3, <3>1 DEF Inserted, InsertAt
  <2> HIDE DEF a, b
  <2>5. <<x>> \in Seq(T) /\ Len(<<x>>) = 1 /\ <<x>>[1] = x
    OBVIOUS
  <2> DEFINE c == a \o <<x>>
  <2>6. /\ c \in Seq(T) /\ Len(c) = n + 1 /\ \A i \in 1 .. n : c[i] = s[i]
    BY <2>2, <2>5
  <2> HIDE DEF c
  <2>7. /\ c \o b \in Seq(T) /\ Len(c \o b) = Len(s) + 1
        /\ \A i \in 1 .. n + 1 : (c \o b)[i] = c[i]
        /\ \A i \in 1 .. Len(s) - n : (c \o b)[n + 1 + i] = b[i]
    BY <1>2, <1>3, <2>3, <2>6
  <2>8. Inserted(s, n, x) = c \o b
    BY <2>4 DEF c
  <2>9. ASSUME NEW i \in 1 .. Len(s)
        PROVE  (c \o b)[IF i > n THEN i + 1 ELSE i] = s[i]
    <3>1. CASE i > n
      <4>1. i - n \in 1 .. Len(s) - n /\ n + 1 + (i - n) = i + 1 /\ n + (i - n) = i
        BY <1>2, <3>1
      <4> QED
        BY <2>3, <2>7, <3>1, <4>1, ZenonT(40)
    <3>2. CASE ~(i > n)
      BY <2>6, <2>7, <3>2
    <3> QED
      BY <3>1, <3>2
  <2> QED
    BY <2>7, <2>8, <2>9 DEF IsSequence
<1>4. CASE ~(n <= Len(s))
  BY <1>2, <1>4, Sequences DEF Inserted
<1> QED
  BY <1>3, <1>4

LEMMA Removal ==
    ASSUME NEW s, IsSequence(s), NEW n \in 1 .. Len(s)
    PROVE  /\ IsSequence(RemoveAt(s, n)) /\ Len(RemoveAt(s, n)) = Len(s) - 1
           /\ \A i \in 1 .. Len(s) : i # n =>
                  RemoveAt(s, n)[IF i > n THEN i - 1 ELSE i] = s[i]
<1>1. PICK S : s \in Seq(S)
  BY DEF IsSequence
<1>2. Len(s) \in Nat
  BY <1>1
<1> DEFINE a == SubSeq(s, 1, n - 1)
           b == SubSeq(s, n + 1, Len(s))
<1>3. a \in Seq(S) /\ Len(a) = n - 1 /\ \A i \in 1 .. n - 1 : a[i] = s[i]
  BY <1>1, <1>2
<1>4. /\ b \in Seq(S) /\ Len(b) = Len(s) - n
      /\ \A i \in 1 .. Len(s) - n : b[i] = s[n + i]
  BY <1>1, <1>2
<1>5. RemoveAt(s, n) = a \o b
  BY DEF RemoveAt
<1> HIDE DEF a, b
<1>6. /\ a \o b \in Seq(S) /\ Len(a \o b) = Len(s) - 1
      /\ \A i \in 1 .. n - 1 : (a \o b)[i] = a[i]
      /\ \A i \in 1 .. Len(s) - n : (a \o b)[n - 1 + i] = b[i]
  BY <1>2, <1>3, <1>4
<1>7. ASSUME NEW i \in 1 .. Len(s), i # n
      PROVE  (a \o b)[IF i > n THEN i - 1 ELSE i] = s[i]
  <2>1. CASE i > n
    <3>1. i - n \in 1 .. Len(s) - n /\ n - 1 + (i - n) = i - 1 /\ n + (i - n) = i
      BY <1>2, <2>1
    <3> QED
      BY <1>4, <1>6, <2>1, <3>1
  <2>2. CASE ~(i > n)
    BY <1>3, <1>6, <1>7, <2>2
  <2> QED
    BY <2>1, <2>2
<1> QED
  BY <1>5, <1>6, <1>7 DEF IsSequence

\* The rows marked and clicked are rows, and what the menus work on has been taken from
\* the row clicked last.
RowMarks ==
    /\ IsSequence(rows) /\ dwIndex \in Nat /\ Len(rows) <= dwIndex
    /\ selected \in 0 .. Len(rows) /\ clicked \in 0 .. Len(rows)
    /\ clicked # 0 => wxid = Cut(rows[clicked])
MemberMarks ==
    /\ IsSequence(mRows) /\ mIndex \in Nat
    /\ marked \in 0 .. Len(mRows) /\ mClicked \in 0 .. Len(mRows)
    /\ mClicked # 0 => memberwxid = Cut(mRows[mClicked])

\* What a step does to the rows of the two lists.
RowSteps ==
    \/ FriendsForgotten \/ UNCHANGED robotFriendVars
    \/ \E f \in Friend : TellRobot(f, starts)
    \/ \E r \in DOMAIN rows : ClickFriend(r) \/ RclickFriend(r)
    \/ DeleteRow /\ UNCHANGED <<dwIndex, wxid>>
MemberSteps ==
    \/ UNCHANGED <<mRows, mIndex, memberwxid, marked, mClicked>>
    \/ RobotForgets \/ OpenMembers \/ CloseMembers
    \/ \E who, mine : ShowMember(who, mine)
    \/ \E mine : MembersDone(mine)
    \/ \E r \in DOMAIN mRows : ClickMember(r) \/ RclickMember(r)
    \/ \E left : DeleteMember(left)

LEMMA RowStep == RowMarks /\ RowSteps => RowMarks'
<1> SUFFICES ASSUME RowMarks, RowSteps PROVE RowMarks'
  OBVIOUS
<1>1. /\ IsSequence(rows) /\ Len(rows) \in Nat /\ DOMAIN rows = 1 .. Len(rows)
      /\ dwIndex \in Nat /\ Len(rows) <= dwIndex
      /\ selected \in 0 .. Len(rows) /\ clicked \in 0 .. Len(rows)
      /\ clicked # 0 => wxid = Cut(rows[clicked])
  BY Sequences DEF RowMarks
<1>2. CASE FriendsForgotten
  <2>1. IsSequence(<<>>)
    BY EmptySeq DEF IsSequence
  <2> QED
    BY <1>2, <2>1 DEF FriendsForgotten, RowMarks
<1>3. CASE UNCHANGED robotFriendVars
  BY <1>1, <1>3 DEF robotFriendVars, RowMarks
<1>4. ASSUME NEW f \in Friend, TellRobot(f, starts) PROVE RowMarks'
  <2> DEFINE s == Inserted(rows, dwIndex, f)
  <2>1. /\ rows' = s /\ dwIndex' = dwIndex + 1
        /\ UNCHANGED <<selected, wxid, clicked>>
    BY <1>4 DEF TellRobot
  <2>2. /\ IsSequence(s) /\ Len(s) = Len(rows) + 1
        /\ \A i \in 1 .. Len(rows) : s[IF i > dwIndex THEN i + 1 ELSE i] = rows[i]
    BY <1>1, Insertion
  <2> HIDE DEF s
  <2>3. \A i \in 1 .. Len(rows) : s[i] = rows[i]
    BY <1>1, <2>2
  <2> QED
    BY <1>1, <2>1, <2>2, <2>3 DEF RowMarks
<1>5. CASE \E r \in DOMAIN rows : ClickFriend(r) \/ RclickFriend(r)
  BY <1>1, <1>5 DEF ClickFriend, RclickFriend, RowMarks
<1>6. CASE DeleteRow /\ UNCHANGED <<dwIndex, wxid>>
  <2>1. CASE selected = 0
    BY <1>1, <1>6, <2>1 DEF DeleteRow, RowMarks
  <2>2. CASE selected # 0
    <3> DEFINE s == RemoveAt(rows, selected)
    <3>1. /\ rows' = s /\ selected' = 0
          /\ clicked' = IF clicked = selected THEN 0
                        ELSE IF clicked > selected THEN clicked - 1 ELSE clicked
      BY <1>6, <2>2, ZenonT(40) DEF DeleteRow
    <3>2. /\ IsSequence(s) /\ Len(s) = Len(rows) - 1
          /\ \A i \in 1 .. Len(rows) : i # selected =>
                 s[IF i > selected THEN i - 1 ELSE i] = rows[i]
      <4>1. selected \in 1 .. Len(rows)
        BY <1>1, <2>2
      <4> QED
        BY <1>1, <4>1, Removal, ZenonT(40)
    <3> HIDE DEF s
    <3>3. clicked' \in 0 .. Len(s)
      BY <1>1, <2>2, <3>1, <3>2
    <3>4. clicked' # 0 => clicked \in 1 .. Len(rows) /\ s[clicked'] = rows[clicked]
      BY <1>1, <2>2, <3>1, <3>2
    <3> QED
      BY <1>1, <1>6, <3>1, <3>2, <3>3, <3>4 DEF RowMarks
  <2> QED
    BY <2>1, <2>2
<1> QED
  BY <1>2, <1>3, <1>4, <1>5, <1>6 DEF RowSteps

LEMMA MemberStep == MemberMarks /\ MemberSteps => MemberMarks'
<1> SUFFICES ASSUME MemberMarks, MemberSteps PROVE MemberMarks'
  OBVIOUS
<1>1. /\ IsSequence(mRows) /\ Len(mRows) \in Nat /\ DOMAIN mRows = 1 .. Len(mRows)
      /\ mIndex \in Nat
      /\ marked \in 0 .. Len(mRows) /\ mClicked \in 0 .. Len(mRows)
      /\ mClicked # 0 => memberwxid = Cut(mRows[mClicked])
  BY Sequences DEF MemberMarks
<1>2. CASE RobotForgets \/ OpenMembers \/ CloseMembers
  <2>1. IsSequence(<<>>) /\ Len(<<>>) = 0
    BY EmptySeq DEF IsSequence
  <2>2. mRows' = <<>> /\ marked' = 0 /\ mClicked' = 0 /\ mIndex' \in Nat
    BY <1>1, <1>2 DEF RobotForgets, OpenMembers, CloseMembers
  <2> QED
    BY <2>1, <2>2 DEF MemberMarks
<1>3. CASE \/ UNCHANGED <<mRows, mIndex, memberwxid, marked, mClicked>>
           \/ \E mine : MembersDone(mine)
  <2>1. mIndex' \in Nat /\ UNCHANGED <<mRows, memberwxid, marked, mClicked>>
    BY <1>1, <1>3 DEF MembersDone, memberVars
  <2> QED
    BY <1>1, <2>1 DEF MemberMarks
<1>4. ASSUME NEW who, NEW mine, ShowMember(who, mine), room # NoRoom PROVE MemberMarks'
  <2> DEFINE s == Inserted(mRows, mIndex, who)
  <2>1. /\ mRows' = s /\ mIndex' = mIndex + 1 /\ UNCHANGED memberwxid
        /\ marked' = (IF marked > mIndex THEN marked + 1 ELSE marked)
        /\ mClicked' = (IF mClicked > mIndex THEN mClicked + 1 ELSE mClicked)
    BY <1>4 DEF ShowMember
  <2>2. /\ IsSequence(s) /\ Len(s) = Len(mRows) + 1
        /\ \A i \in 1 .. Len(mRows) : s[IF i > mIndex THEN i + 1 ELSE i] = mRows[i]
    BY <1>1, Insertion
  <2> HIDE DEF s
  <2>3. mIndex' \in Nat /\ marked' \in 0 .. Len(s) /\ mClicked' \in 0 .. Len(s)
    BY <1>1, <2>1, <2>2
  <2>4. mClicked' # 0 => mClicked \in 1 .. Len(mRows) /\ s[mClicked'] = mRows[mClicked]
    BY <1>1, <2>1, <2>2
  <2> QED
    BY <1>1, <2>1, <2>2, <2>3, <2>4 DEF MemberMarks
<1>5. CASE \E r \in DOMAIN mRows : ClickMember(r) \/ RclickMember(r)
  BY <1>1, <1>5 DEF ClickMember, RclickMember, MemberMarks
<1>6. ASSUME NEW left, DeleteMember(left), nSelected \in 1 .. Len(mRows) PROVE MemberMarks'
  <2> DEFINE s == RemoveAt(mRows, nSelected)
             Up(r) == IF r = nSelected THEN 0 ELSE IF r > nSelected THEN r - 1 ELSE r
  <2>1. /\ mRows' = s /\ UNCHANGED <<mIndex, memberwxid>>
        /\ marked' = Up(marked) /\ mClicked' = Up(mClicked)
    BY <1>6, ZenonT(40) DEF DeleteMember
  <2>2. /\ IsSequence(s) /\ Len(s) = Len(mRows) - 1
        /\ \A i \in 1 .. Len(mRows) : i # nSelected =>
               s[IF i > nSelected THEN i - 1 ELSE i] = mRows[i]
    BY <1>1, <1>6, Removal, ZenonT(40)
  <2> HIDE DEF s
  <2>3. marked' \in 0 .. Len(s) /\ mClicked' \in 0 .. Len(s)
    BY <1>1, <1>6, <2>1, <2>2
  <2>4. mClicked' # 0 => mClicked \in 1 .. Len(mRows) /\ s[mClicked'] = mRows[mClicked]
    BY <1>1, <1>6, <2>1, <2>2
  <2> QED
    BY <1>1, <2>1, <2>2, <2>3, <2>4 DEF MemberMarks
<1>7. ASSUME NEW who, NEW mine, ShowMember(who, mine), room = NoRoom PROVE MemberMarks'
  BY <1>3, <1>7 DEF ShowMember, memberVars
<1>8. ASSUME NEW left, DeleteMember(left), nSelected \notin 1 .. Len(mRows)
      PROVE  MemberMarks'
  BY <1>3, <1>8 DEF DeleteMember, memberVars
<1> QED
  BY <1>2, <1>3, <1>4, <1>5, <1>6, <1>7, <1>8 DEF MemberSteps
-----------------------------------------------------------------------------
(* What a caller sends is what was asked for. *)

\* Without a doubt the menu works on the row that is marked.
LEMMA NoDoubt ==
    ASSUME NEW fresh \in BOOLEAN, NEW id, Doubt(fresh, id) = {} PROVE fresh /\ id = Cut(id)
  BY DEF Doubt

LEMMA MenuReaches ==
    ASSUME NEW kind \in FriendMenu \cup GroupMenu, NEW id, NEW text,
           ~Spills(Dialog(Command(kind, id, text)))
    PROVE  WndProc(Dialog(Command(kind, id, text))) = Command(kind, id, text)
<1>1. CASE kind \in {"DeleteUser", "QuitChatRoom"}
  <2>1. Command(kind, id, text) = <<kind, id>> /\ kind \in Singles
    BY <1>1 DEF Command, Singles
  <2> QED
    BY <2>1, DialogSingles
<1>2. CASE kind = "SendXmlCard"
  <2>1. Command(kind, id, text) = <<"SendXmlCard", id, Other, text>>
    BY <1>2 DEF Command
  <2> QED
    BY <2>1, DialogOthers
<1>3. CASE kind \in {"AddGroupMember", "SetRoomName"}
  <2>1. kind \in Pairs /\ \E b : Command(kind, id, text) = <<kind, id, b>>
    BY <1>3 DEF Command, Pairs
  <2> QED
    BY <2>1, DialogPairs
<1>4. CASE kind \in Texts
  <2>1. Command(kind, id, text) = <<kind, id, text>>
    BY <1>4 DEF Command, Texts
  <2> QED
    BY <1>4, <2>1, DialogTexts
<1> QED
  BY <1>1, <1>2, <1>3, <1>4 DEF FriendMenu, GroupMenu, Texts

\* A call sent by c, for which the helper reads what was asked for unless there is a
\* reason why not.
Sends(c) ==
    /\ Idling(c) /\ UNCHANGED listings
    /\ \E ask, frame, why :
          Send(c, ask, frame, why) /\ (why = {} /\ ~Spills(frame) => WndProc(frame) = ask)

LEMMA ButtonSends ==
    ASSUME NEW text, NEW cmd \in Buttons(text), Button(cmd) PROVE Sends("ui")
<1>1. ~Spills(Dialog(cmd)) => WndProc(Dialog(cmd)) = cmd
  <2>1. CASE cmd \in {<<"GetInformation">>, <<"LogoutWeChat">>, <<"SaveToTxtFie">>}
    BY <2>1, DialogPlains DEF Plains
  <2>2. CASE cmd = <<"AddWxUser", Other, text>>
    BY <2>2, DialogPairs DEF Pairs
  <2>3. CASE cmd = <<"OpenUrl", text>>
    BY <2>3, DialogSingles DEF Singles
  <2> QED
    BY <2>1, <2>2, <2>3 DEF Buttons
<1> QED
  BY <1>1 DEF Button, Sends

LEMMA AutoChatSends ==
    ASSUME AutoChatButton(TuLing) PROVE Sends("ui")
<1>1. (~bAutoChat) \in BOOLEAN
  OBVIOUS
<1>2. WndProc(Dialog(<<"AutoChat", ~bAutoChat>>)) = <<"AutoChat", ~bAutoChat>>
  BY <1>1, DialogOthers
<1> QED
  BY <1>2 DEF AutoChatButton, Sends

LEMMA MenuSends ==
    ASSUME RowMarks, NEW kind \in FriendMenu \cup GroupMenu, NEW text,
           MenuCommand(kind, text)
    PROVE  Sends("ui")
<1> DEFINE row == rows[selected]
           why == Doubt(clicked = selected, row)
<1>1. /\ Idling("ui") /\ UNCHANGED listings /\ selected # 0
      /\ Send("ui", Command(kind, row, text), Dialog(Command(kind, wxid, text)), why)
  BY DEF MenuCommand
<1>2. ASSUME why = {}, ~Spills(Dialog(Command(kind, wxid, text)))
      PROVE  WndProc(Dialog(Command(kind, wxid, text))) = Command(kind, row, text)
  <2>1. clicked = selected /\ row = Cut(row)
    BY <1>2, NoDoubt
  <2>2. wxid = row
    BY <1>1, <2>1 DEF RowMarks
  <2> QED
    BY <1>2, <2>2, MenuReaches
<1> HIDE DEF why
<1> QED
  BY <1>1, <1>2 DEF Sends

LEMMA MembersSend == ASSUME OpenMembers PROVE Sends("ui")
<1>1. WndProc(Dialog(<<"ShowChatRoomUser", wxid>>)) = <<"ShowChatRoomUser", wxid>>
  BY DialogSingles DEF Singles
<1> QED
  BY <1>1 DEF OpenMembers, Sends

LEMMA MemberSends ==
    ASSUME MemberMarks, NEW kind \in {"DelRoomMember", "SendRoomAtMsg"}, NEW text,
           MemberCommand(kind, text)
    PROVE  Sends("ui")
<1> DEFINE Cmd(id) == IF kind = "DelRoomMember" THEN <<kind, room, id>>
                      ELSE <<kind, room, id, id, text>>
           row == mRows[marked]
           why == Doubt(mClicked = marked, row)
<1>1. /\ Idling("ui") /\ UNCHANGED listings /\ marked # 0
      /\ Send("ui", Cmd(row), Dialog(Cmd(memberwxid)), why)
  BY DEF MemberCommand
<1>2. ASSUME NEW id, ~Spills(Dialog(Cmd(id))) PROVE WndProc(Dialog(Cmd(id))) = Cmd(id)
  <2>1. CASE kind = "DelRoomMember"
    BY <1>2, <2>1, DialogPairs DEF Pairs
  <2>2. CASE kind = "SendRoomAtMsg"
    BY <1>2, <2>2, DialogOthers
  <2> QED
    BY <2>1, <2>2
<1>3. ASSUME why = {}, ~Spills(Dialog(Cmd(memberwxid)))
      PROVE  WndProc(Dialog(Cmd(memberwxid))) = Cmd(row)
  <2>1. mClicked = marked /\ row = Cut(row)
    BY <1>3, NoDoubt
  <2>2. memberwxid = row
    BY <1>1, <2>1 DEF MemberMarks
  <2> QED
    BY <1>2, <1>3, <2>2
<1> HIDE DEF why, Cmd
<1> QED
  BY <1>1, <1>3 DEF Sends

LEMMA ApiSends == ASSUME NEW cmd \in ApiCommand, ApiCall(cmd) PROVE Sends("api")
<1> DEFINE why == {w \in {"type", "rename"} : \/ w = "type" /\ cmd[1] = "?"
                                              \/ w = "rename" /\ cmd[1] = "SetRoomName"}
<1>1. PICK frame \in Api(cmd) : Send("api", cmd, frame, why)
  BY DEF ApiCall
<1>2. why = {} /\ ~Spills(frame) => WndProc(frame) = cmd
  BY ApiReaches
<1>3. Idling("api") /\ UNCHANGED listings
  BY DEF ApiCall
<1> HIDE DEF why
<1> QED
  BY <1>1, <1>2, <1>3 DEF Sends
-----------------------------------------------------------------------------
(* The calls under way, and the lists of members they make. *)

\* A call under way is a record, and the helper reads in its frame what was asked for
\* unless there is a reason why not.
Whole(call) ==
    /\ DOMAIN call = {"ask", "frame", "why", "listing"}
    /\ call.listing \in BOOLEAN
Faithful(call) == call.why = {} => WndProc(call.frame) = call.ask
CallInv ==
    /\ calls = [c \in Caller |-> calls[c]]
    /\ \A c \in Caller : ~Idling(c) => Whole(calls[c]) /\ Faithful(calls[c])

\* Each list of members that is made is that of one call, as long as there is a window.
Listing(c) == ~Idling(c) /\ calls[c].listing
Makes(i) == listings[i].by \in Caller /\ Listing(listings[i].by)
ListingInv ==
    /\ IsSequence(listings)
    /\ \A i \in 1 .. Len(listings) : Makes(i)
    /\ \A i, j \in 1 .. Len(listings) : listings[i].by = listings[j].by => i = j
    /\ Len(listings) # 0 => HelperWindow
TalkInv == CallInv /\ ListingInv

Ends(c) == ~Idling(c) /\ calls' = [calls EXCEPT ![c] = NoCall]
Lists(c) ==
    /\ ~Idling(c) /\ ~calls[c].listing /\ HelperWindow
    /\ calls' = [calls EXCEPT ![c].listing = TRUE]
    /\ \E room0, rest : listings' =
           Append(listings, [room |-> room0, by |-> c, rest |-> rest])
\* What a step does to the calls.
CallSteps ==
    \/ UNCHANGED calls /\ (UNCHANGED listings \/ listings' = <<>>)
    \/ RobotForgets
    \/ \E c \in Caller : Sends(c) \/ Lists(c)
    \/ \E c \in Caller : Ends(c) /\ ~calls[c].listing /\ UNCHANGED listings
    \/ \E c \in Caller : Ends(c) /\ ~HelperWindow /\ UNCHANGED listings
    \/ ListMember
    \/ /\ Len(listings) # 0 /\ listings' = Front(listings)
       /\ Ends(listings[Len(listings)].by)

\* A step that takes the helper's window away takes the lists with it.
WindowStays == HelperWindow => HelperWindow' \/ listings' = <<>>

LEMMA NoListing == \A s : s = <<>> => IsSequence(s) /\ Len(s) = 0
  BY EmptySeq DEF IsSequence

LEMMA ACallIsNoTuple == \A call : Whole(call) => call # NoCall
<1>1. DOMAIN NoCall = 1 .. 0
  BY DEF NoCall
<1> QED
  BY <1>1 DEF Whole

LEMMA CallSends ==
    ASSUME TalkInv, NEW c \in Caller, Sends(c), WindowStays PROVE TalkInv'
<1>1. PICK ask, frame, why :
          Send(c, ask, frame, why) /\ (why = {} /\ ~Spills(frame) => WndProc(frame) = ask)
  BY DEF Sends
<1> DEFINE why0 == why \cup (IF Spills(frame) THEN {"long"} ELSE {})
           call == [ask |-> ask, frame |-> frame, listing |-> FALSE, why |-> why0]
<1>2. calls' = [calls EXCEPT ![c] = call] /\ calls[c] = NoCall /\ UNCHANGED listings
  BY <1>1 DEF Send, Sends, Idling
<1>3. call # NoCall /\ Whole(call) /\ Faithful(call)
  <2>1. why0 = {} => why = {} /\ ~Spills(frame)
    OBVIOUS
  <2>2. Whole(call)
    BY DEF Whole
  <2>3. call.why = why0 /\ call.frame = frame /\ call.ask = ask
    OBVIOUS
  <2> HIDE DEF call, why0
  <2> QED
    BY <1>1, <2>1, <2>2, <2>3, ACallIsNoTuple DEF Faithful
<1> HIDE DEF call
<1>4. CallInv'
  BY <1>2, <1>3 DEF TalkInv, CallInv, Idling
<1>5. \A d \in Caller : Listing(d) => Listing(d)'
  BY <1>2 DEF Listing, Idling, TalkInv, CallInv
<1>6. ListingInv'
  <2>1. \A i \in 1 .. Len(listings) : Makes(i)'
    BY <1>2, <1>5 DEF TalkInv, ListingInv, Makes, Listing, Idling
  <2> QED
    BY <1>2, <2>1, NoListing DEF TalkInv, ListingInv, WindowStays
<1> QED
  BY <1>4, <1>6 DEF TalkInv

LEMMA CallLists ==
    ASSUME TalkInv, NEW c \in Caller, Lists(c), WindowStays PROVE TalkInv'
<1>1. PICK room0, rest : listings' =
          Append(listings, [room |-> room0, by |-> c, rest |-> rest])
  BY DEF Lists
<1> DEFINE l == [room |-> room0, by |-> c, rest |-> rest]
           call == [calls[c] EXCEPT !.listing = TRUE]
<1>2. calls' = [calls EXCEPT ![c] = call]
  BY DEF Lists
<1>3. ~Idling(c) /\ Whole(calls[c]) /\ Faithful(calls[c]) /\ ~calls[c].listing /\ HelperWindow
  BY DEF Lists, TalkInv, CallInv
<1>4. /\ DOMAIN call = DOMAIN calls[c] /\ call.listing = TRUE
      /\ call.ask = calls[c].ask /\ call.frame = calls[c].frame /\ call.why = calls[c].why
  BY <1>3 DEF Whole
<1> HIDE DEF call
<1>5. Whole(call) /\ call # NoCall
  BY <1>3, <1>4, ACallIsNoTuple DEF Whole
<1>6. Faithful(call)
  BY <1>3, <1>4 DEF Faithful
<1>7. CallInv'
  BY <1>2, <1>5, <1>6 DEF TalkInv, CallInv, Idling
<1>8. \A d \in Caller : Listing(d) => Listing(d)'
  BY <1>2, <1>4, <1>5 DEF Listing, Idling, TalkInv, CallInv
<1>9. Listing(c)'
  BY <1>2, <1>4, <1>5 DEF Listing, Idling, TalkInv, CallInv
<1>10. ListingInv'
  <2>1. /\ IsSequence(listings') /\ Len(listings') = Len(listings) + 1 /\ Len(listings) \in Nat
        /\ \A i \in 1 .. Len(listings) : listings'[i] = listings[i]
        /\ listings'[Len(listings) + 1] = l /\ l.by = c
    BY <1>1, Sequences DEF TalkInv, ListingInv
  <2> HIDE DEF l
  <2>2. \A i \in 1 .. Len(listings) + 1 : i \in 1 .. Len(listings) \/ i = Len(listings) + 1
    BY <2>1
  <2>3. \A i \in 1 .. Len(listings) : listings[i].by # c
    BY <1>3 DEF TalkInv, ListingInv, Makes, Listing
  <2>4. \A i \in 1 .. Len(listings) + 1 : Makes(i)'
    <3>1. ASSUME NEW i \in 1 .. Len(listings) PROVE Makes(i)'
      <4>1. PICK d \in Caller : d = listings[i].by /\ Listing(d)
        BY DEF TalkInv, ListingInv, Makes
      <4>2. Listing(d)' /\ listings'[i].by = d
        BY <1>8, <2>1, <4>1
      <4> QED
        BY <4>2 DEF Makes, Listing, Idling
    <3>2. ASSUME NEW i \in 1 .. Len(listings) + 1, i = Len(listings) + 1 PROVE Makes(i)'
      BY <1>9, <2>1, <3>2 DEF Makes, Listing, Idling
    <3> QED
      BY <2>2, <3>1, <3>2
  <2>5. \A i, j \in 1 .. Len(listings) + 1 : listings'[i].by = listings'[j].by => i = j
    BY <2>1, <2>2, <2>3 DEF TalkInv, ListingInv
  <2>6. HelperWindow'
    <3>1. listings' # <<>>
      BY <2>1, NoListing
    <3> QED
      BY <1>3, <3>1 DEF WindowStays
  <2> QED
    BY <2>1, <2>4, <2>5, <2>6 DEF ListingInv
<1> QED
  BY <1>7, <1>10 DEF TalkInv

\* A call ends that makes no list, or there is no window and so no list.
LEMMA CallEnds ==
    ASSUME TalkInv, NEW c \in Caller, Ends(c), ~Listing(c) \/ ~HelperWindow,
           UNCHANGED listings, WindowStays
    PROVE  TalkInv'
<1>1. calls' = [calls EXCEPT ![c] = NoCall]
  BY DEF Ends
<1>2. CallInv'
  BY <1>1 DEF TalkInv, CallInv, Idling
<1>3. \A d \in Caller : d # c /\ Listing(d) => Listing(d)'
  BY <1>1 DEF Listing, Idling, TalkInv, CallInv
<1>4. ASSUME NEW i \in 1 .. Len(listings) PROVE Makes(i)'
  <2>1. PICK d \in Caller : d = listings[i].by /\ Listing(d)
    BY DEF TalkInv, ListingInv, Makes
  <2>2. HelperWindow
    BY Sequences DEF TalkInv, ListingInv
  <2>3. Listing(d)' /\ listings'[i].by = d
    BY <1>3, <2>1, <2>2
  <2> QED
    BY <2>3 DEF Makes, Listing, Idling
<1>5. Len(listings) # 0 => HelperWindow'
  BY NoListing DEF TalkInv, ListingInv, WindowStays
<1> QED
  BY <1>2, <1>4, <1>5 DEF TalkInv, ListingInv

LEMMA CallsStay ==
    ASSUME TalkInv, UNCHANGED calls, UNCHANGED listings \/ listings' = <<>>, WindowStays
    PROVE  TalkInv'
<1>1. CallInv'
  BY DEF TalkInv, CallInv, Idling
<1>2. CASE listings' = <<>>
  BY <1>1, <1>2, NoListing DEF TalkInv, ListingInv
<1>3. CASE UNCHANGED listings
  BY <1>1, <1>3, NoListing DEF TalkInv, ListingInv, Makes, Listing, Idling, WindowStays
<1> QED
  BY <1>2, <1>3

LEMMA CallsGone == ASSUME RobotForgets PROVE TalkInv'
<1>1. calls' = [c \in Caller |-> NoCall] /\ listings' = <<>>
  BY DEF RobotForgets
<1> QED
  BY <1>1, NoListing DEF TalkInv, CallInv, ListingInv, Idling

LEMMA FrontOf ==
    ASSUME NEW s, IsSequence(s), Len(s) # 0
    PROVE  /\ IsSequence(Front(s)) /\ Len(Front(s)) = Len(s) - 1
           /\ \A i \in 1 .. Len(s) - 1 : Front(s)[i] = s[i]
<1>1. PICK S : s \in Seq(S)
  BY DEF IsSequence
<1>2. Len(s) \in Nat /\ Len(s) - 1 \in 0 .. Len(s)
  BY <1>1
<1>3. Front(s) \in Seq(S) /\ Len(Front(s)) = Len(s) - 1
      /\ \A i \in 1 .. Len(s) - 1 : Front(s)[i] = s[i]
  <2>1. Front(s) = SubSeq(s, 1, Len(s) - 1)
    BY DEF Front
  <2> QED
    <3> DEFINE m == Len(s) - 1
    <3>1. m \in Int /\ 1 \in Int /\ \A i \in 1 .. m : s[i] \in S
      BY <1>1, <1>2
    <3>2. /\ SubSeq(s, 1, m) \in Seq(S)
          /\ Len(SubSeq(s, 1, m)) = IF 1 <= m THEN m - 1 + 1 ELSE 0
          /\ \A i \in 1 .. m - 1 + 1 : SubSeq(s, 1, m)[i] = s[1 + i - 1]
      BY <3>1, SubSeqProperties
    <3>3. m - 1 + 1 = m /\ m >= 0 /\ \A i \in 1 .. m : 1 + i - 1 = i
      BY <1>2
    <3>4. Len(SubSeq(s, 1, m)) = m
      BY <3>2, <3>3
    <3>5. \A i \in 1 .. m : SubSeq(s, 1, m)[i] = s[i]
      BY <3>2, <3>3
    <3> QED
      BY <2>1, <3>2, <3>4, <3>5
<1> QED
  BY <1>3 DEF IsSequence

\* The list made last goes on.
LEMMA CallListsOn == ASSUME TalkInv, ListMember, WindowStays PROVE TalkInv'
<1> DEFINE n == Len(listings)
           l == [listings[n] EXCEPT !.rest = Tail(listings[n].rest)]
<1>1. /\ UNCHANGED calls /\ listings # <<>>
      /\ listings' = Append(Front(listings), l)
  <2>1. listings' = Front(listings) \o <<l>>
    BY DEF ListMember, Last
  <2>2. Front(listings) \o <<l>> = Append(Front(listings), l)
    <3>1. IsSequence(listings) /\ Len(listings) # 0
      BY DEF ListMember, TalkInv, ListingInv, IsSequence
    <3>2. PICK S : Front(listings) \in Seq(S)
      BY <3>1, FrontOf DEF IsSequence
    <3>3. Front(listings) \in Seq(S \cup {l})
      BY <3>2
    <3> HIDE DEF l
    <3> QED
      BY <3>3, AppendIsConcat
  <2> QED
    BY <2>1, <2>2 DEF ListMember
<1>2. IsSequence(listings) /\ n \in Nat /\ n # 0
  BY <1>1, Sequences DEF TalkInv, ListingInv, IsSequence
<1>3. listings[n].by \in Caller /\ l.by = listings[n].by
  BY <1>2 DEF TalkInv, ListingInv, Makes
<1> HIDE DEF l
<1>4. /\ IsSequence(listings') /\ Len(listings') = n
      /\ \A i \in 1 .. n - 1 : listings'[i] = listings[i]
      /\ listings'[n] = l
  <2> DEFINE s == Front(listings)
  <2>1. IsSequence(s) /\ Len(s) = n - 1 /\ \A i \in 1 .. n - 1 : s[i] = listings[i]
    BY <1>2, FrontOf
  <2> HIDE DEF s
  <2>2. /\ IsSequence(Append(s, l)) /\ Len(Append(s, l)) = (n - 1) + 1
        /\ \A i \in 1 .. n - 1 : Append(s, l)[i] = s[i]
        /\ Append(s, l)[(n - 1) + 1] = l
    BY <2>1, Sequences
  <2>3. (n - 1) + 1 = n
    BY <1>2
  <2> QED
    BY <1>1, <2>1, <2>2, <2>3 DEF s
<1>5. \A i \in 1 .. n : listings'[i].by = listings[i].by
  BY <1>2, <1>3, <1>4
<1>6. CallInv'
  BY <1>1 DEF TalkInv, CallInv, Idling
<1>7. HelperWindow'
  <2>1. listings' # <<>>
    BY <1>2, <1>4, NoListing
  <2> QED
    BY <1>2, <2>1 DEF TalkInv, ListingInv, WindowStays
<1>8. \A i \in 1 .. n : Makes(i)'
  BY <1>1, <1>5 DEF TalkInv, ListingInv, Makes, Listing, Idling
<1> QED
  BY <1>4, <1>5, <1>6, <1>7, <1>8 DEF TalkInv, ListingInv

\* The list made last is done, and its call ends.
LEMMA CallListed ==
    ASSUME TalkInv, Len(listings) # 0, listings' = Front(listings),
           Ends(listings[Len(listings)].by), WindowStays
    PROVE  TalkInv'
<1> DEFINE n == Len(listings)
<1>1. IsSequence(listings) /\ n \in Nat /\ n # 0
  BY Sequences DEF TalkInv, ListingInv
<1>2. PICK c \in Caller : c = listings[n].by
  BY <1>1 DEF TalkInv, ListingInv, Makes
<1>3. calls' = [calls EXCEPT ![c] = NoCall]
  BY <1>2 DEF Ends
<1>4. CallInv'
  BY <1>3 DEF TalkInv, CallInv, Idling
<1>5. /\ IsSequence(listings') /\ Len(listings') = n - 1
      /\ \A i \in 1 .. n - 1 : listings'[i] = listings[i]
  BY <1>1, FrontOf
<1>6. \A d \in Caller : d # c /\ Listing(d) => Listing(d)'
  BY <1>3 DEF Listing, Idling, TalkInv, CallInv
<1>7. ASSUME NEW i \in 1 .. n - 1 PROVE Makes(i)'
  <2>1. i \in 1 .. n /\ n \in 1 .. n /\ i # n
    BY <1>1
  <2>2. PICK d \in Caller : d = listings[i].by /\ Listing(d) /\ d # c
    BY <1>2, <2>1 DEF TalkInv, ListingInv, Makes
  <2>3. Listing(d)' /\ listings'[i].by = d
    BY <1>5, <1>6, <2>2
  <2> QED
    BY <2>3 DEF Makes, Listing, Idling
<1>8. n - 1 # 0 => HelperWindow'
  BY <1>1, <1>5, NoListing DEF TalkInv, ListingInv, WindowStays
<1>9. \A i, j \in 1 .. n - 1 : listings'[i].by = listings'[j].by => i = j
  BY <1>1, <1>5 DEF TalkInv, ListingInv
<1> QED
  BY <1>4, <1>5, <1>7, <1>8, <1>9 DEF TalkInv, ListingInv

LEMMA CallStep == TalkInv /\ CallSteps /\ WindowStays => TalkInv'
  BY CallsStay, CallsGone, CallSends, CallLists, CallEnds, CallListsOn, CallListed
     DEF CallSteps, Listing

TalkMarks == RowMarks /\ MemberMarks

LEMMA WindowsStay == BridgeNext => WindowStays
<1> SUFFICES ASSUME BridgeNext PROVE WindowStays
  OBVIOUS
<1>1. CASE ComingUp
  <2>1. CASE OpenWeChat \/ AlreadyInjected \/ LoadHelper \/ LoadFails \/ InjectFails
             \/ OpenLogin
    BY <2>1 DEF OpenWeChat, AlreadyInjected, LoadHelper, LoadFails, InjectFails, OpenLogin,
                WindowStays, HelperWindow
  <2>2. CASE InitWindow \/ SetHooks \/ RegisterWindow \/ ShowPicture \/ SaveImg
    BY <2>2 DEF InitWindow, SetHooks, RegisterWindow, ShowPicture, SaveImg, WindowStays,
                HelperWindow
  <2> QED
    BY <1>1, <2>1, <2>2 DEF ComingUp
<1>2. CASE Starting
  BY <1>2 DEF Starting, StartRobot, ReopenWeChat, LogoutWeChat, ShowQrPicture, WindowStays,
              HelperWindow
<1>3. CASE Welcome \/ MainCloses \/ RobotBursts \/ \E a \in Account : LoginOf(a)
  BY <1>3 DEF Welcome, CheckIsLogin, MainCloses, CloseMain, RobotBursts, RobotDies, LoginOf,
              Login, WindowStays, HelperWindow
<1>4. CASE WeChatCloses
  BY <1>4 DEF WeChatCloses, HelperGone, CloseLogin, DialogsGone, RobotForgets,
                       WindowStays
<1>5. CASE Served
  <2>1. UNCHANGED helper
    BY <1>5 DEF Served, LogoutWeChat, startupVars
  <2> QED
    BY <2>1 DEF WindowStays, HelperWindow
<1>6. CASE FriendsListed \/ Clicks \/ UserCommands \/ ApiCommands \/ Returning
           \/ Downloading \/ Pictures
  <2>1. UNCHANGED helper
    BY <1>6 DEF FriendsListed, Clicks, UserCommands, ApiCommands, Returning, Downloading,
                Pictures, OnlyFriends, OnlyDialogs, NotStarting, startupVars
  <2> QED
    BY <2>1 DEF WindowStays, HelperWindow
<1> QED
  BY <1>1, <1>2, <1>3, <1>4, <1>5, <1>6 DEF BridgeNext

LEMMA RowsOfBridge == BridgeNext => RowSteps
<1> SUFFICES ASSUME BridgeNext PROVE RowSteps
  OBVIOUS
<1>1. UNCHANGED friendVars => UNCHANGED robotFriendVars
  BY DEF friendVars, robotFriendVars
<1>2. CASE ComingUp \/ Starting \/ Welcome \/ WeChatCloses \/ MainCloses \/ RobotBursts
           \/ \E a \in Account : LoginOf(a)
  BY <1>1, <1>2 DEF ComingUp, Starting, Welcome, WeChatCloses, MainCloses, RobotBursts,
                    LoginOf, Still, RobotSide, RobotEnds, RowSteps
<1>3. CASE FriendsListed
  BY <1>3 DEF FriendsListed, ListFriend, ReSendUser, SendFriend, RowSteps
<1>4. CASE Clicks
  BY <1>1, <1>4 DEF Clicks, ClickMember, RclickMember, RowSteps
<1>5. CASE UserCommands \/ ApiCommands
  BY <1>1, <1>5 DEF UserCommands, ApiCommands, Button, AutoChatButton, MenuCommand,
         MemberCommand, OpenMembers, CloseMembers, ApiCall, RowSteps
<1>6. CASE Served \/ Returning
  <2>1. UNCHANGED friendVars \/ \E c : Return(c)
    BY <1>6 DEF Served, Serve, Returning, ListMember, ListingDone, Abandoned
  <2> QED
    BY <1>1, <2>1, ReturnMarks, SMTT(30) DEF RowSteps
<1>7. CASE Downloading \/ Pictures
  BY <1>1, <1>7 DEF Downloading, Pictures, RowSteps
<1> QED
  BY <1>2, <1>3, <1>4, <1>5, <1>6, <1>7 DEF BridgeNext

LEMMA MembersOfBridge == BridgeNext => MemberSteps
<1> SUFFICES ASSUME BridgeNext PROVE MemberSteps
  OBVIOUS
<1>1. /\ UNCHANGED dialogVars => UNCHANGED memberVars
      /\ UNCHANGED memberVars => UNCHANGED <<mRows, mIndex, memberwxid, marked, mClicked>>
  BY DEF dialogVars, memberVars
<1>2. CASE ComingUp \/ Starting \/ Welcome \/ WeChatCloses \/ MainCloses \/ RobotBursts
           \/ \E a \in Account : LoginOf(a)
  BY <1>1, <1>2 DEF ComingUp, Starting, Welcome, WeChatCloses, MainCloses, RobotBursts, Burst,
                    LoginOf, Still, RobotSide, RobotEnds, DialogsGone, HelperGone, MemberSteps
<1>3. CASE FriendsListed \/ Downloading \/ Pictures
  BY <1>1, <1>3 DEF FriendsListed, Downloading, Pictures, OnlyFriends, MemberSteps
<1>4. CASE Clicks
  BY <1>1, <1>4 DEF Clicks, OnlyFriends, MemberSteps
<1>5. CASE UserCommands \/ ApiCommands
  BY <1>1, <1>5 DEF UserCommands, ApiCommands, Button, AutoChatButton, MenuCommand,
         MemberCommand, ApiCall, MemberSteps
<1>6. ASSUME NEW c, Serve(c, MainWindow) PROVE MemberSteps
  <2>1. CASE WndProc(calls[c].frame)[1] = "ShowChatRoomUser"
    <3>1. UNCHANGED <<mRows, mIndex, memberwxid, marked, mClicked>>
      BY <1>6, <2>1 DEF Serve
    <3> QED
      BY <3>1 DEF MemberSteps
  <2>2. CASE WndProc(calls[c].frame)[1] # "ShowChatRoomUser"
    <3>1. \/ UNCHANGED memberVars
          \/ ShowMember(WndProc(calls[c].frame)[3], FALSE)
          \/ DeleteMember(RemoveFirst(listed, WndProc(calls[c].frame)[3]))
      BY <1>6, <2>2 DEF Serve
    <3> QED
      BY <1>1, <3>1 DEF MemberSteps
  <2> QED
    BY <2>1, <2>2
<1>7. CASE Returning
  BY <1>1, <1>7 DEF Returning, ListMember, ListingDone, Abandoned, MemberSteps
<1> QED
  BY <1>2, <1>3, <1>4, <1>5, <1>6, <1>7 DEF BridgeNext, Served

LEMMA ReturnEnds == ASSUME NEW c, ~Idling(c), Return(c) PROVE Ends(c)
  BY DEF Return, Ends

\* The UI thread waits for the answer to GetInformation.
Asking ==
    /\ ~Idling("ui") /\ ~calls["ui"].listing
    /\ WndProc(calls["ui"].frame)[1] = "GetInformation"

\* The question of a main window that opens.
LEMMA WelcomeSends ==
    ASSUME TalkInv, Welcome, calls["ui"] = NoCall, robot' # robot, HelperWindow
    PROVE  Sends("ui") /\ Asking'
<1> DEFINE cmd == <<"GetInformation">>
<1>1. UNCHANGED listings /\ \E frame \in Api(cmd) : Send("ui", cmd, frame, {})
  BY DEF Welcome
<1>2. PICK frame \in Api(cmd) : Send("ui", cmd, frame, {})
  BY <1>1
<1>3. frame.code = "WM_GetInformation"
  BY DEF Api, GetPrivateInfo, Bare
<1>4. WndProc(frame) = cmd
  BY <1>3, FirstCommands
<1>5. Sends("ui")
  BY <1>1, <1>2, <1>4 DEF Sends, Idling
<1>6. /\ calls'["ui"].frame = frame /\ calls'["ui"].listing = FALSE
      /\ calls'["ui"] # NoCall
  <2> DEFINE call == [ask |-> cmd, frame |-> frame, listing |-> FALSE,
                      why |-> {} \cup (IF Spills(frame) THEN {"long"} ELSE {})]
  <2>1. calls'["ui"] = call
    BY <1>2 DEF Send, TalkInv, CallInv, Caller
  <2>2. Whole(call) /\ call.frame = frame /\ call.listing = FALSE
    BY DEF Whole
  <2> HIDE DEF call
  <2>3. call # NoCall
    BY <2>2, ACallIsNoTuple
  <2> QED
    BY <2>1, <2>2, <2>3
<1> QED
  BY <1>2, <1>4, <1>5, <1>6 DEF cmd, Asking, Idling

LEMMA ServesCall ==
    ASSUME TalkInv, HelperWindow, NEW c \in Caller, Serve(c, MainWindow) PROVE CallSteps
<1>1. CASE WndProc(calls[c].frame)[1] = "ShowChatRoomUser"
  <2>1. Lists(c)
    BY <1>1 DEF Serve, Lists
  <2> QED
    BY <2>1 DEF CallSteps
<1>2. CASE WndProc(calls[c].frame)[1] # "ShowChatRoomUser"
  <2>1. Return(c) /\ UNCHANGED listings /\ ~Idling(c) /\ ~calls[c].listing
    BY <1>2 DEF Serve
  <2> QED
    BY <2>1, ReturnEnds DEF CallSteps
<1> QED
  BY <1>1, <1>2

LEMMA ReturnsCall == ASSUME TalkInv, Returning PROVE CallSteps
<1>1. CASE ListMember
  BY <1>1 DEF CallSteps
<1>2. CASE ListingDone
  <2> DEFINE n == Len(listings)
             c == listings[n].by
  <2>1. Return(c) /\ listings' = Front(listings) /\ listings # <<>>
    BY <1>2 DEF ListingDone, Last
  <2>2. n \in Nat /\ n # 0
    BY <2>1, Sequences DEF TalkInv, ListingInv, IsSequence
  <2>3. ~Idling(c)
    BY <2>2 DEF TalkInv, ListingInv, Makes, Listing
  <2> QED
    BY <2>1, <2>2, <2>3, ReturnEnds DEF CallSteps
<1>3. ASSUME NEW c \in Caller, ~HelperWindow, Abandoned(c) PROVE CallSteps
  BY <1>3, ReturnEnds DEF Abandoned, CallSteps
<1> QED
  BY <1>1, <1>2, <1>3 DEF Returning

LEMMA CallsOfBridge ==
    ASSUME BridgeNext, TalkMarks, TalkInv, ~MainWindow => calls["ui"] = NoCall
    PROVE  CallSteps
<1>1. UNCHANGED dialogVars => UNCHANGED calls /\ UNCHANGED listings
  BY DEF dialogVars
<1>2. "ui" \in Caller /\ "api" \in Caller
  BY DEF Caller
<1>3. CASE ComingUp \/ Starting \/ WeChatCloses \/ MainCloses \/ RobotBursts
           \/ \E a \in Account : LoginOf(a)
  BY <1>1, <1>3 DEF ComingUp, Starting, WeChatCloses, MainCloses, RobotBursts, Burst, LoginOf,
                    Still, RobotSide, RobotEnds, DialogsGone, HelperGone, CallSteps
<1>4. CASE Welcome
  <2>1. CASE robot' # robot /\ HelperWindow
    <3>1. ~MainWindow
      BY <1>4, <2>1 DEF Welcome, CheckIsLogin, MainWindow
    <3> QED
      BY <1>2, <1>4, <2>1, <3>1, WelcomeSends DEF CallSteps
  <2>2. CASE ~(robot' # robot /\ HelperWindow)
    <3>1. UNCHANGED <<calls, listings>>
      BY <1>4, <2>2 DEF Welcome
    <3> QED
      BY <3>1 DEF CallSteps
  <2> QED
    BY <2>1, <2>2
<1>5. CASE FriendsListed \/ Clicks \/ Downloading \/ Pictures
  BY <1>1, <1>5 DEF FriendsListed, Clicks, Downloading, Pictures, OnlyFriends, ClickMember,
                    RclickMember, CallSteps
<1>6. CASE UserCommands
  <2>1. CASE CloseMembers
    BY <2>1 DEF CloseMembers, CallSteps
  <2>2. Sends("ui") \/ CloseMembers
    BY <1>6, ButtonSends, AutoChatSends, MenuSends, MembersSend, MemberSends
       DEF UserCommands, TalkMarks
  <2> QED
    BY <1>2, <2>1, <2>2 DEF CallSteps
<1>7. CASE ApiCommands
  BY <1>2, <1>7, ApiSends DEF ApiCommands, CallSteps
<1>8. CASE Served \/ Returning
  BY <1>8, ServesCall, ReturnsCall DEF Served
<1> QED
  BY <1>3, <1>4, <1>5, <1>6, <1>7, <1>8 DEF BridgeNext
-----------------------------------------------------------------------------
(* Who is logged in, and what has been done. *)

\* A robot without a main window knows nobody and has nobody ask; one with a main window
\* knows who is logged in, or will, unless there is a reason why not.
Knows ==
    \/ me = account \/ relogged
    \/ me = NoText /\ (late \/ "gone" \in excuses \/ Asking)
KnowInv ==
    /\ ~MainWindow => me = NoText /\ Idling("ui")
    /\ MainWindow => Knows

\* Nothing happens to what the robot knows or asks.
KnowStays ==
    UNCHANGED <<me, account, relogged, late, excuses>> /\ calls'["ui"] = calls["ui"]
Opens == robot' = "main" /\ robot # "main"

LEMMA KnowingStays ==
    ASSUME KnowInv, KnowStays, MainWindow' <=> MainWindow PROVE KnowInv'
  BY DEF KnowInv, KnowStays, Knows, Asking, Idling

LEMMA KnowingEnds == ASSUME RobotForgets, robot' = "off" PROVE KnowInv'
<1>1. me' = NoText /\ calls'["ui"] = NoCall /\ ~MainWindow'
  BY DEF RobotForgets, Caller, MainWindow
<1> QED
  BY <1>1 DEF KnowInv, Idling

\* A step of the UI thread that does not answer a question.
LEMMA KnowingGoesOn ==
    ASSUME KnowInv, MainWindow, MainWindow', ~Asking,
           UNCHANGED <<me, account, relogged, late>>, excuses \subseteq excuses'
    PROVE  KnowInv'
  BY DEF KnowInv, Knows

LEMMA KnowingWelcomes == ASSUME KnowInv, TalkInv, Welcome PROVE KnowInv'
<1>1. UNCHANGED <<me, account, excuses>> /\ CheckIsLogin
  BY DEF Welcome, weChatVars
<1>2. CASE robot' = robot
  <2>1. KnowStays /\ (MainWindow' <=> MainWindow)
    BY <1>1, <1>2 DEF Welcome, KnowStays, records, MainWindow
  <2> QED
    BY <2>1, KnowingStays
<1>3. CASE robot' # robot
  <2>1. ~MainWindow /\ MainWindow' /\ late' = ~HelperWindow
    BY <1>1, <1>3 DEF Welcome, CheckIsLogin, MainWindow
  <2>2. me' = NoText /\ calls["ui"] = NoCall
    BY <1>1, <2>1 DEF KnowInv, Idling
  <2>3. HelperWindow => Asking'
    BY <1>3, <2>2, WelcomeSends
  <2> QED
    BY <2>1, <2>2, <2>3 DEF KnowInv, Knows
<1> QED
  BY <1>2, <1>3

LEMMA KnowingServed ==
    ASSUME KnowInv, TalkInv, NEW c \in Caller, Serve(c, MainWindow),
           UNCHANGED <<relogged, late, robot>>
    PROVE  KnowInv'
<1>1. UNCHANGED account /\ excuses \subseteq excuses' /\ (MainWindow' <=> MainWindow)
  BY DEF Serve, MainWindow
<1>2. CASE c = "ui"
  <2>1. MainWindow
    BY <1>2 DEF Serve, KnowInv
  <2>2. CASE Asking
    <3>1. me' = IF me = NoText THEN account ELSE me
      BY <1>2, <2>1, <2>2 DEF Serve, KeepTheFirst, Asking
    <3> QED
      BY <1>1, <2>1, <3>1 DEF KnowInv, Knows
  <2>3. CASE ~Asking
    <3>1. UNCHANGED me
      BY <1>2, <2>3 DEF Serve, Asking
    <3> QED
      BY <1>1, <2>1, <2>3, <3>1, KnowingGoesOn
  <2> QED
    BY <2>2, <2>3
<1>3. CASE c = "api"
  <2>1. calls'["ui"] = calls["ui"]
    BY <1>3 DEF Serve, Return, TalkInv, CallInv, Caller
  <2>2. me' = me \/ (MainWindow /\ me' = IF me = NoText THEN account ELSE me)
    BY DEF Serve, KeepTheFirst
  <2> QED
    BY <1>1, <2>1, <2>2 DEF KnowInv, Knows, Asking, Idling
<1> QED
  BY <1>2, <1>3 DEF Caller

LEMMA KnowingReturns ==
    ASSUME KnowInv, TalkInv, Returning, UNCHANGED <<relogged, late, robot>> PROVE KnowInv'
<1>1. MainWindow' <=> MainWindow
  BY DEF MainWindow
<1>2. CASE ListMember
  <2>1. KnowStays
    BY <1>2 DEF ListMember, KnowStays, weChatVars
  <2> QED
    BY <1>1, <2>1, KnowingStays
<1>3. CASE ListingDone
  <2> DEFINE n == Len(listings)
  <2>1. /\ listings # <<>> /\ calls' = [calls EXCEPT ![listings[n].by] = NoCall]
        /\ UNCHANGED <<me, account, excuses>>
    BY <1>3 DEF ListingDone, Last, Return, weChatVars
  <2>2. n \in Nat /\ n # 0
    BY <2>1, Sequences DEF TalkInv, ListingInv, IsSequence
  <2>3. PICK c \in Caller : c = listings[n].by /\ Listing(c)
    BY <2>2 DEF TalkInv, ListingInv, Makes
  <2>4. CASE c = "ui"
    <3>1. MainWindow /\ ~Asking
      BY <2>3, <2>4 DEF KnowInv, Listing, Asking
    <3> QED
      BY <1>1, <2>1, <3>1, KnowingGoesOn
  <2>5. CASE c # "ui"
    <3>1. KnowStays
      BY <2>1, <2>3, <2>5 DEF KnowStays, TalkInv, CallInv, Caller
    <3> QED
      BY <1>1, <3>1, KnowingStays
  <2> QED
    BY <2>4, <2>5
<1>4. ASSUME NEW c \in Caller, Abandoned(c) PROVE KnowInv'
  <2>1. /\ "gone" \in excuses' /\ excuses \subseteq excuses' /\ UNCHANGED <<me, account>>
        /\ calls' = [calls EXCEPT ![c] = NoCall]
    BY <1>4 DEF Abandoned, Return
  <2>2. Idling("ui") => Idling("ui")'
    BY <2>1 DEF Idling, TalkInv, CallInv, Caller
  <2> QED
    BY <1>1, <2>1, <2>2 DEF KnowInv, Knows
<1> QED
  BY <1>2, <1>3, <1>4 DEF Returning

LEMMA KnowStep == KnowInv /\ TalkInv /\ [BridgeNext]_bridgeVars => KnowInv'
<1> SUFFICES ASSUME KnowInv, TalkInv, [BridgeNext]_bridgeVars PROVE KnowInv'
  OBVIOUS
<1>1. UNCHANGED <<dialogVars, records>> => KnowStays
  BY DEF dialogVars, records, KnowStays
<1>2. CASE ComingUp
  <2>1. MainWindow' => MainWindow
    BY <1>2 DEF ComingUp, OpenWeChat, AlreadyInjected, LoadHelper, LoadFails, InjectFails,
                OpenLogin, InitWindow, SetHooks, RegisterWindow, ShowPicture, SaveImg, MainWindow
  <2>2. robot' = "off" \/ (MainWindow => MainWindow')
    BY <1>2 DEF ComingUp, OpenWeChat, AlreadyInjected, LoadHelper, LoadFails, InjectFails,
                OpenLogin, InitWindow, SetHooks, RegisterWindow, ShowPicture, SaveImg, MainWindow
  <2>3. CASE robot # "off" /\ robot' = "off"
    <3>1. RobotForgets
      BY <1>2, <2>3 DEF ComingUp, RobotSide, RobotEnds, DialogsGone
    <3> QED
      BY <2>3, <3>1, KnowingEnds
  <2>4. CASE ~(robot # "off" /\ robot' = "off")
    <3>1. KnowStays
      BY <1>1, <1>2, <2>4 DEF ComingUp, RobotSide
    <3>2. MainWindow' <=> MainWindow
      BY <2>1, <2>2, <2>4 DEF MainWindow
    <3> QED
      BY <3>1, <3>2, KnowingStays
  <2> QED
    BY <2>3, <2>4
<1>3. CASE Starting
  <2>1. CASE robot # "off" /\ robot' = "off"
    <3>1. RobotForgets
      BY <1>3, <2>1 DEF Starting, StartRobot, ReopenWeChat, LogoutWeChat, RobotSide, RobotEnds,
                        DialogsGone
    <3> QED
      BY <2>1, <3>1, KnowingEnds
  <2>2. CASE ~(robot # "off" /\ robot' = "off")
    <3>1. KnowStays
      BY <1>1, <1>3, <2>2 DEF Starting, Still, RobotSide
    <3>2. MainWindow' <=> MainWindow
      BY <1>3, <2>2 DEF Starting, StartRobot, ReopenWeChat, LogoutWeChat, ShowQrPicture,
                        MainWindow
    <3> QED
      BY <3>1, <3>2, KnowingStays
  <2> QED
    BY <2>1, <2>2
<1>4. CASE Welcome
  BY <1>4, KnowingWelcomes
<1>5. CASE WeChatCloses
  <2>1. CASE ExitWeChat /\ HelperGone /\ UNCHANGED records
    <3>1. KnowStays /\ UNCHANGED robot
      BY <2>1 DEF ExitWeChat, HelperGone, KnowStays, records
    <3> QED
      BY <3>1, KnowingStays DEF MainWindow
  <2>2. CASE CloseLogin /\ DialogsGone
    BY <2>2, KnowingEnds DEF CloseLogin, DialogsGone
  <2> QED
    BY <1>5, <2>1, <2>2 DEF WeChatCloses
<1>6. CASE MainCloses \/ RobotBursts
  BY <1>6, KnowingEnds DEF MainCloses, CloseMain, RobotBursts, RobotDies, RobotEnds,
                           DialogsGone, Burst
<1>7. CASE \E a \in Account : LoginOf(a)
  <2>1. /\ UNCHANGED <<me, calls, robot, late, excuses>>
        /\ relogged' = (relogged \/ MainWindow)
    BY <1>7 DEF LoginOf, Login, weChatVars
  <2> QED
    BY <2>1 DEF KnowInv, Knows, MainWindow, Idling
<1>8. CASE FriendsListed \/ Clicks \/ UserCommands \/ ApiCommands \/ Served \/ Returning
           \/ Downloading \/ Pictures \/ UNCHANGED bridgeVars
  <2>1. UNCHANGED <<relogged, late, robot>>
    BY <1>8 DEF FriendsListed, Clicks, UserCommands, ApiCommands, Served, Returning,
                Downloading, Pictures, OnlyFriends, OnlyDialogs, NotStarting, startupVars,
                records, LogoutWeChat, bridgeVars
  <2>2. MainWindow' <=> MainWindow
    BY <2>1 DEF MainWindow
  <2>3. CASE FriendsListed \/ Clicks \/ Downloading \/ Pictures \/ UNCHANGED bridgeVars
    <3>1. UNCHANGED <<me, account, calls, excuses>>
      BY <2>3 DEF FriendsListed, Clicks, Downloading, Pictures, OnlyFriends, ClickMember,
                  RclickMember, dialogVars, weChatVars, bridgeVars
    <3> QED
      BY <2>1, <2>2, <3>1, KnowingStays DEF KnowStays
  <2>4. CASE UserCommands
    <3>1. UNCHANGED <<me, account, excuses>> /\ Idling("ui") /\ MainWindow
      BY <2>4 DEF UserCommands, Button, AutoChatButton, MenuCommand, MemberCommand,
                  OpenMembers, CloseMembers, weChatVars
    <3> QED
      BY <2>1, <2>2, <3>1, KnowingGoesOn DEF Asking
  <2>5. CASE ApiCommands
    <3>1. UNCHANGED <<me, account, excuses>> /\ calls'["ui"] = calls["ui"]
      BY <2>5 DEF ApiCommands, ApiCall, Send, weChatVars, TalkInv, CallInv, Caller
    <3> QED
      BY <2>1, <2>2, <3>1, KnowingStays DEF KnowStays
  <2> QED
    BY <1>8, <2>1, <2>3, <2>4, <2>5, KnowingServed, KnowingReturns DEF Served
<1> QED
  BY <1>2, <1>3, <1>4, <1>5, <1>6, <1>7, <1>8 DEF BridgeNext

\* WeChat is as wanted: a call is carried out as asked, or there is a reason why not.
LEMMA WantedIsDone == CommandDone /\ TalkInv /\ [BridgeNext]_bridgeVars => CommandDone'
<1> SUFFICES ASSUME CommandDone, TalkInv, [BridgeNext]_bridgeVars PROVE CommandDone'
  OBVIOUS
<1>1. UNCHANGED weChatVars => CommandDone'
  BY DEF weChatVars, CommandDone
<1>2. UNCHANGED dialogVars => UNCHANGED weChatVars
  BY DEF dialogVars, weChatVars
<1>3. CASE RobotBursts
  BY <1>3 DEF RobotBursts, Burst, CommandDone
<1>9. CASE ComingUp \/ Starting \/ Welcome \/ MainCloses \/ \E a \in Account : LoginOf(a)
  BY <1>1, <1>2, <1>9 DEF ComingUp, Starting, Welcome, MainCloses, LoginOf, Still, RobotSide,
                          RobotEnds, DialogsGone
<1>4. CASE WeChatCloses
  <2>1. CASE HelperGone
    BY <2>1 DEF HelperGone, CommandDone
  <2>2. CASE DialogsGone
    BY <1>1, <2>2 DEF DialogsGone
  <2> QED
    BY <1>4, <2>1, <2>2 DEF WeChatCloses
<1>5. CASE FriendsListed \/ Clicks \/ Downloading \/ Pictures \/ UNCHANGED bridgeVars
  BY <1>1, <1>2, <1>5 DEF FriendsListed, Clicks, Downloading, Pictures, OnlyFriends,
                          ClickMember, RclickMember, bridgeVars
<1>6. CASE UserCommands \/ ApiCommands
  BY <1>1, <1>6 DEF UserCommands, ApiCommands, Button, AutoChatButton, MenuCommand,
                    MemberCommand, OpenMembers, CloseMembers, ApiCall
<1>7. ASSUME NEW c \in Caller, Serve(c, MainWindow) PROVE CommandDone'
  <2>1. /\ ~Idling(c)
        /\ wx' = Do(wx, WndProc(calls[c].frame), userInfoList)
        /\ wanted' = Do(wanted, calls[c].ask, userInfoList)
        /\ excuses' = excuses \cup calls[c].why
    BY <1>7 DEF Serve
  <2>2. excuses' = {} => wx = wanted /\ WndProc(calls[c].frame) = calls[c].ask
    <3>1. excuses' = {} => excuses = {} /\ calls[c].why = {}
      BY <2>1
    <3> QED
      BY <2>1, <3>1 DEF CommandDone, TalkInv, CallInv, Faithful
  <2> QED
    BY <2>1, <2>2 DEF CommandDone
<1>8. CASE Returning
  <2>1. CASE ListMember \/ ListingDone
    BY <1>1, <2>1 DEF ListMember, ListingDone
  <2>2. ASSUME NEW c, Abandoned(c) PROVE CommandDone'
    BY <2>2 DEF Abandoned, CommandDone
  <2> QED
    BY <1>8, <2>1, <2>2 DEF Returning
<1> QED
  BY <1>3, <1>4, <1>5, <1>6, <1>7, <1>8, <1>9 DEF BridgeNext, Served

DialogInv == TalkMarks /\ TalkInv /\ KnowInv /\ CommandDone

LEMMA DialogInit == BridgeInit => DialogInv
<1> SUFFICES ASSUME BridgeInit PROVE DialogInv
  OBVIOUS
<1>1. PICK s \in Scenes :
          IF s.up THEN AtWork(s.rows)
          ELSE StartupInit /\ FriendInit /\ DialogState /\ me = NoText
  BY DEF BridgeInit
<1>2. DialogState
  BY <1>1 DEF AtWork
<1>3. TalkInv /\ MemberMarks /\ CommandDone
  BY <1>2, NoListing
     DEF DialogState, TalkInv, CallInv, ListingInv, MemberMarks, CommandDone, Idling
<1>4. Idling("ui")
  BY <1>2 DEF DialogState, Idling, Caller
<1>5. CASE s.up
  <2>1. /\ rows = s.rows /\ dwIndex = Len(s.rows) /\ selected = 0 /\ clicked = 0
        /\ me = account /\ MainWindow
    BY <1>1, <1>5 DEF AtWork, MainWindow
  <2>2. IsSequence(s.rows) /\ Len(s.rows) \in Nat
    BY SceneAssumption DEF IsSequence
  <2>3. RowMarks
    BY <2>1, <2>2 DEF RowMarks
  <2> QED
    BY <1>3, <2>1, <2>3 DEF DialogInv, TalkMarks, KnowInv, Knows
<1>6. CASE ~s.up
  <2>1. /\ rows = <<>> /\ dwIndex = 0 /\ selected = 0 /\ clicked = 0
        /\ me = NoText /\ ~MainWindow
    BY <1>1, <1>6 DEF StartupInit, FriendInit, MainWindow
  <2>2. RowMarks
    BY <2>1, NoListing DEF RowMarks
  <2> QED
    BY <1>3, <1>4, <2>1, <2>2 DEF DialogInv, TalkMarks, KnowInv
<1> QED
  BY <1>5, <1>6

LEMMA DialogStep == DialogInv /\ [BridgeNext]_bridgeVars => DialogInv'
<1> SUFFICES ASSUME DialogInv, [BridgeNext]_bridgeVars PROVE DialogInv'
  OBVIOUS
<1>1. KnowInv' /\ CommandDone'
  BY KnowStep, WantedIsDone DEF DialogInv
<1>2. CASE BridgeNext
  <2>1. RowMarks' /\ MemberMarks'
    BY <1>2, RowsOfBridge, MembersOfBridge, RowStep, MemberStep DEF DialogInv, TalkMarks
  <2>2. CallSteps
    BY <1>2, CallsOfBridge DEF DialogInv, KnowInv, Idling
  <2>3. TalkInv'
    BY <1>2, <2>2, WindowsStay, CallStep DEF DialogInv
  <2> QED
    BY <1>1, <2>1, <2>3 DEF DialogInv, TalkMarks
<1>3. CASE UNCHANGED bridgeVars
  <2>1. UNCHANGED <<dialogVars, friendVars, startupVars>>
    BY <1>3 DEF bridgeVars
  <2>2. RowSteps /\ MemberSteps /\ CallSteps /\ WindowStays
    BY <2>1 DEF dialogVars, friendVars, robotFriendVars, startupVars, RowSteps, MemberSteps,
                CallSteps, WindowStays, HelperWindow
  <2> QED
    BY <1>1, <2>2, RowStep, MemberStep, CallStep DEF DialogInv, TalkMarks
<1> QED
  BY <1>2, <1>3

\* Whatever the user, the handlers and the workers command, and in whatever order the two
\* programs serve one another's messages, WeChat is as the commands, each carried out as
\* it was asked for, would have left it, unless one of the six excuses has been met.
THEOREM CommandsAreDone == BridgeSpec => []CommandDone
<1>1. DialogInv => CommandDone
  BY DEF DialogInv
<1> QED
  BY <1>1, DialogInit, DialogStep, PTL DEF BridgeSpec

\* A robot at work whose UI thread waits for nothing knows who is logged in, unless its
\* window opened before the helper's, WeChat closed under its question, or somebody has
\* logged in since.
THEOREM RobotKnowsItself == BridgeSpec => []KnowsItself
<1>1. DialogInv => KnowsItself
  BY DEF DialogInv, KnowInv, Knows, KnowsItself, Asking
<1> QED
  BY <1>1, DialogInit, DialogStep, PTL DEF BridgeSpec
-----------------------------------------------------------------------------
(* The members of the groups. *)

\* A list with nobody in it twice.
Distinct(s) ==
    /\ IsSequence(s)
    /\ \A i, j \in 1 .. Len(s) : s[i] = s[j] => i = j

\* In what WeChat holds, a group lists nobody twice.
GroupsIn(w) ==
    /\ "members" \in DOMAIN w /\ DOMAIN w.members = Group
    /\ \A g \in Group : Distinct(w.members[g])

LEMMA DistinctAppend ==
    ASSUME NEW s, Distinct(s), NEW x, \A i \in 1 .. Len(s) : s[i] # x
    PROVE  Distinct(Append(s, x))
<1>1. /\ Len(s) \in Nat
      /\ IsSequence(Append(s, x)) /\ Len(Append(s, x)) = Len(s) + 1
      /\ \A i \in 1 .. Len(s) : Append(s, x)[i] = s[i]
      /\ Append(s, x)[Len(s) + 1] = x
  BY Sequences DEF Distinct
<1> DEFINE t == Append(s, x)
<1> HIDE DEF t
<1>2. ASSUME NEW i \in 1 .. Len(s) + 1, NEW j \in 1 .. Len(s) + 1, t[i] = t[j]
      PROVE  i = j
  <2>1. \A k \in 1 .. Len(s) + 1 : k \in 1 .. Len(s) \/ k = Len(s) + 1
    BY <1>1
  <2> QED
    BY <1>1, <1>2, <2>1 DEF t, Distinct
<1> QED
  BY <1>1, <1>2 DEF t, Distinct

LEMMA DistinctRemoved ==
    ASSUME NEW s, Distinct(s), NEW n \in 1 .. Len(s) PROVE Distinct(RemoveAt(s, n))
<1> DEFINE t == RemoveAt(s, n)
<1>1. /\ IsSequence(t) /\ Len(t) = Len(s) - 1
      /\ \A i \in 1 .. Len(s) : i # n => t[IF i > n THEN i - 1 ELSE i] = s[i]
  BY Removal DEF Distinct
<1>2. Len(s) \in Nat
  BY Sequences DEF Distinct
<1> HIDE DEF t
<1> DEFINE From(i) == IF i < n THEN i ELSE i + 1
<1>3. \A i \in 1 .. Len(s) - 1 : From(i) \in 1 .. Len(s) /\ t[i] = s[From(i)]
  <2> SUFFICES ASSUME NEW i \in 1 .. Len(s) - 1
               PROVE  From(i) \in 1 .. Len(s) /\ t[i] = s[From(i)]
    OBVIOUS
  <2>1. From(i) \in 1 .. Len(s) /\ From(i) # n
    BY <1>2
  <2>2. (IF From(i) > n THEN From(i) - 1 ELSE From(i)) = i
    BY <1>2
  <2> HIDE DEF From
  <2>3. t[IF From(i) > n THEN From(i) - 1 ELSE From(i)] = s[From(i)]
    BY <1>1, <2>1
  <2> QED
    BY <2>1, <2>2, <2>3
<1>4. ASSUME NEW i \in 1 .. Len(s) - 1, NEW j \in 1 .. Len(s) - 1, t[i] = t[j]
      PROVE  i = j
  <2>1. From(i) = From(j)
    <3> HIDE DEF From
    <3> QED
      BY <1>3, <1>4 DEF Distinct
  <2> QED
    BY <1>2, <2>1
<1> QED
  BY <1>1, <1>4 DEF t, Distinct

\* RemoveFirst takes away the one place where somebody is listed.
LEMMA RemovedOnce ==
    ASSUME NEW s, Distinct(s), NEW x
    PROVE  /\ \A n \in 1 .. Len(s) : s[n] = x => RemoveFirst(s, x) = RemoveAt(s, n)
           /\ Distinct(RemoveFirst(s, x))
<1>1. ASSUME NEW n \in 1 .. Len(s), s[n] = x PROVE RemoveFirst(s, x) = RemoveAt(s, n)
  <2> DEFINE I == {i \in 1 .. Len(s) : s[i] = x}
  <2>1. I = {n}
    BY <1>1 DEF Distinct
  <2>2. n \in Nat
    BY Sequences DEF Distinct
  <2>3. Min(I) = n
    BY <2>1, <2>2 DEF Min
  <2>4. RemoveFirst(s, x) = RemoveAt(s, Min(I))
    BY <1>1, <2>1 DEF RemoveFirst, SelectInSeq
  <2> QED
    BY <2>3, <2>4
<1>2. CASE \E n \in 1 .. Len(s) : s[n] = x
  BY <1>1, <1>2, DistinctRemoved
<1>3. CASE ~\E n \in 1 .. Len(s) : s[n] = x
  BY <1>3 DEF RemoveFirst
<1> QED
  BY <1>1, <1>2, <1>3

LEMMA GroupsChange ==
    ASSUME NEW w, GroupsIn(w), NEW g \in Group, NEW s, Distinct(s)
    PROVE  GroupsIn(Room(w, g, s))
<1>1. Room(w, g, s) = [w EXCEPT !.members = [w.members EXCEPT ![g] = s]]
  BY DEF Room, GroupsIn
<1>2. /\ DOMAIN Room(w, g, s) = DOMAIN w
      /\ Room(w, g, s).members = [w.members EXCEPT ![g] = s]
  BY <1>1 DEF GroupsIn
<1> QED
  BY <1>2 DEF GroupsIn

\* Every other field may change.
LEMMA GroupsStay ==
    ASSUME NEW w, GroupsIn(w), NEW k, k # "members", NEW v
    PROVE  GroupsIn([w EXCEPT ![k] = v])
<1> DEFINE u == [w EXCEPT ![k] = v]
<1>1. DOMAIN u = DOMAIN w /\ u.members = w.members
  BY DEF GroupsIn
<1> HIDE DEF u
<1> QED
  BY <1>1 DEF u, GroupsIn

LEMMA GroupsAfter ==
    ASSUME NEW w, GroupsIn(w), NEW cmd, NEW list PROVE GroupsIn(Do(w, cmd, list))
<1>1. CASE cmd[1] = "AddGroupMember"
  <2>1. Do(w, cmd, list) = AddGroupMember(w, cmd[2], cmd[3])
    BY <1>1 DEF Do
  <2>2. CASE cmd[2] \in Group
    <3> DEFINE s == w.members[cmd[2]]
    <3>1. Distinct(s) /\ DOMAIN s = 1 .. Len(s)
      BY <2>2, Sequences DEF GroupsIn, Distinct
    <3>2. AddGroupMember(w, cmd[2], cmd[3]) =
              Room(w, cmd[2], IF \E i \in DOMAIN s : s[i] = cmd[3] THEN s
                              ELSE Append(s, cmd[3]))
      BY <2>2 DEF AddGroupMember, GroupsIn
    <3>3. Distinct(IF \E i \in DOMAIN s : s[i] = cmd[3] THEN s ELSE Append(s, cmd[3]))
      BY <3>1, DistinctAppend
    <3> QED
      BY <2>1, <2>2, <3>2, <3>3, GroupsChange
  <2>3. CASE cmd[2] \notin Group
    BY <2>1, <2>3 DEF AddGroupMember, GroupsIn
  <2> QED
    BY <2>2, <2>3
<1>2. CASE cmd[1] = "DelRoomMember"
  <2>1. Do(w, cmd, list) = DelRoomMember(w, cmd[2], cmd[3])
    BY <1>2 DEF Do
  <2>2. CASE cmd[2] \in Group
    <3>1. Distinct(RemoveFirst(w.members[cmd[2]], cmd[3]))
      BY <2>2, RemovedOnce DEF GroupsIn
    <3>2. DelRoomMember(w, cmd[2], cmd[3]) =
              Room(w, cmd[2], RemoveFirst(w.members[cmd[2]], cmd[3]))
      BY <2>2 DEF DelRoomMember, GroupsIn
    <3> QED
      BY <2>1, <2>2, <3>1, <3>2, GroupsChange
  <2>3. CASE cmd[2] \notin Group
    BY <2>1, <2>3 DEF DelRoomMember, GroupsIn
  <2> QED
    BY <2>2, <2>3
<1>3. CASE cmd[1] \in {"SendTextMessage", "SendFileMessage", "SendImageMessage",
                       "SendXmlCard", "SendRoomAtMsg"}
  <2>1. \E v : Do(w, cmd, list) = [w EXCEPT !.chats = v]
    BY <1>3 DEF Do, SendTextMessage, SendFileMessage, SendImageMessage, SendXmlCard,
                SendRoomAtMsg, Sent
  <2> QED
    BY <2>1, GroupsStay, SMTT(30)
<1>4. CASE cmd[1] \in {"DeleteUser", "QuitChatRoom"}
  <2>1. \E v : Do(w, cmd, list) = [w EXCEPT !.gone = v]
    BY <1>4 DEF Do, DeleteUser, QuitChatRoom
  <2> QED
    BY <2>1, GroupsStay
<1>5. CASE cmd[1] \in {"AddWxUser", "OpenUrl", "SaveToTxtFie", "AutoChat"}
  <2>1. \E v : \/ Do(w, cmd, list) = [w EXCEPT !.asked = v]
               \/ Do(w, cmd, list) = [w EXCEPT !.pages = v]
               \/ Do(w, cmd, list) = [w EXCEPT !.txt = v]
               \/ Do(w, cmd, list) = [w EXCEPT !.autoChat = v]
    BY <1>5 DEF Do, AddWxUser, OpenUrl, SaveToTxtFie
  <2> QED
    BY <2>1, GroupsStay
<1>6. CASE cmd[1] \in {"SetWxRoomAnnouncement", "SetRoomName"}
  <2>1. \E v : \/ Do(w, cmd, list) = [w EXCEPT !.posted = v]
               \/ Do(w, cmd, list) = [w EXCEPT !.named = v]
    BY <1>6 DEF Do, SetWxRoomAnnouncement, SetRoomName
  <2> QED
    BY <2>1, GroupsStay
<1>7. CASE cmd[1] \notin {"SendTextMessage", "SendFileMessage", "SendImageMessage",
                          "SendXmlCard", "SendRoomAtMsg", "DeleteUser", "QuitChatRoom",
                          "AddWxUser", "OpenUrl", "SaveToTxtFie", "AutoChat",
                          "SetWxRoomAnnouncement", "SetRoomName", "AddGroupMember",
                          "DelRoomMember"}
  <2>1. Do(w, cmd, list) = w
    BY <1>7 DEF Do
  <2> QED
    BY <2>1
<1> QED
  BY <1>1, <1>2, <1>3, <1>4, <1>5, <1>6, <1>7
-----------------------------------------------------------------------------
(* The member list. *)

\* A listing under way: the rows shown are the first of all members, the next one
\* goes behind them, and the rest is yet to come.
Continues(n, shown, all, rest) ==
    /\ IsSequence(rest) /\ n = Len(shown)
    /\ Len(all) = Len(shown) + Len(rest)
    /\ \A i \in 1 .. Len(shown) : shown[i] = all[i]
    /\ \A i \in 1 .. Len(rest) : rest[i] = all[Len(shown) + i]

LEMMA SameSequence ==
    ASSUME NEW s, IsSequence(s), NEW t, IsSequence(t), Len(s) = Len(t),
           \A i \in 1 .. Len(s) : s[i] = t[i]
    PROVE  s = t
<1>1. PICK S, T : s \in Seq(S) /\ t \in Seq(T)
  BY DEF IsSequence
<1>2. s \in Seq(S \cup T) /\ t \in Seq(S \cup T)
  BY <1>1
<1> QED
  BY <1>2, SeqEqual

LEMMA ListingBegins ==
    ASSUME NEW all, IsSequence(all), NEW shown, shown = <<>>
    PROVE  Continues(0, shown, all, all)
<1>1. Len(shown) = 0 /\ Len(all) \in Nat
  BY NoListing, Sequences
<1> QED
  BY <1>1 DEF Continues

LEMMA ListingGoesOn ==
    ASSUME NEW n, NEW shown, IsSequence(shown), NEW all, NEW rest, rest # <<>>,
           Continues(n, shown, all, rest)
    PROVE  Continues(n + 1, Inserted(shown, n, Head(rest)), all, Tail(rest))
<1> DEFINE x == Head(rest)
           u == Tail(rest)
           t == Append(shown, x)
<1>1. PICK S : rest \in Seq(S)
  BY DEF Continues, IsSequence
<1>2. /\ u \in Seq(S) /\ Len(u) = Len(rest) - 1 /\ \A i \in 1 .. Len(u) : u[i] = rest[i + 1]
  BY <1>1, HeadTailProperties
<1>3. Len(rest) \in Nat /\ Len(rest) # 0 /\ x = rest[1]
  BY <1>1
<1>4. /\ Len(shown) \in Nat /\ IsSequence(t) /\ Len(t) = Len(shown) + 1
      /\ \A i \in 1 .. Len(shown) : t[i] = shown[i]
      /\ t[Len(shown) + 1] = x
  BY Sequences
<1>5. Inserted(shown, n, x) = t
  <2>1. PICK T : shown \in Seq(T)
    BY DEF IsSequence
  <2>2. shown \in Seq(T \cup {x}) /\ x \in T \cup {x}
    BY <2>1
  <2> HIDE DEF x
  <2> QED
    BY <2>2, InsertedAtEnd DEF Continues
<1> HIDE DEF x, u, t
<1>6. /\ Len(all) = Len(t) + Len(u) /\ n + 1 = Len(t)
  BY <1>2, <1>3, <1>4 DEF Continues
<1>7. \A i \in 1 .. Len(t) : t[i] = all[i]
  <2>1. \A i \in 1 .. Len(t) : i \in 1 .. Len(shown) \/ i = Len(shown) + 1
    BY <1>4
  <2>2. x = all[Len(shown) + 1]
    BY <1>3 DEF Continues
  <2> QED
    BY <1>4, <2>1, <2>2 DEF Continues
<1>8. \A i \in 1 .. Len(u) : u[i] = all[Len(t) + i]
  <2> SUFFICES ASSUME NEW i \in 1 .. Len(u) PROVE u[i] = all[Len(t) + i]
    OBVIOUS
  <2>1. i + 1 \in 1 .. Len(rest) /\ Len(shown) + (i + 1) = Len(t) + i
    BY <1>2, <1>3, <1>4
  <2> QED
    BY <1>2, <2>1 DEF Continues
<1>9. IsSequence(u)
  BY <1>2 DEF IsSequence
<1> QED
  BY <1>5, <1>6, <1>7, <1>8, <1>9 DEF x, u, Continues

LEMMA ListingEnds ==
    ASSUME NEW n, NEW shown, IsSequence(shown), NEW all, IsSequence(all),
           Continues(n, shown, all, <<>>)
    PROVE  shown = all
<1>1. Len(shown) \in Nat /\ Len(<<>>) = 0
  BY NoListing, Sequences
<1> QED
  BY <1>1, SameSequence DEF Continues

\* The dialog has asked for its members, and the helper has not begun.
Awaits ==
    /\ ~Idling("ui") /\ ~calls["ui"].listing
    /\ WndProc(calls["ui"].frame)[1] = "ShowChatRoomUser"

\* What is listed comes from WeChat, and what is yet to come is kept.
RestInv == \A i \in 1 .. Len(listings) : "rest" \in DOMAIN listings[i]
ListedInv == GroupsIn(wx) /\ Distinct(listed) /\ RestInv

\* Only a dialog asks for a list in the UI thread, and is there until it has it; rows
\* posted to the dialog before it have not been forgotten.
RoomInv ==
    /\ Awaits => /\ room \in Group
                 /\ WndProc(calls["ui"].frame) = <<"ShowChatRoomUser", room>>
    /\ Listing("ui") => room \in Group
    /\ room # NoRoom /\ shifted => mixed

\* The dialog shows nothing, what has been listed, or a first part of it while the
\* rest is yet to come; between two listings of its own the index is 0.
ShownInv ==
    "gone" \notin excuses =>
        /\ ~Listing("ui") /\ ~shifted => mIndex = 0
        /\ room # NoRoom /\ ~mixed /\ ~Listing("ui") /\ (Awaits \/ ~misled) =>
               mRows = IF Awaits THEN <<>> ELSE listed
        /\ ~mixed => \A j \in 1 .. Len(listings) : listings[j].by = "ui" =>
               Continues(mIndex, mRows, listed, listings[j].rest)
MemberInv == RoomInv /\ ShownInv

\* The UI thread waits for a member to be deleted.
Deleting ==
    /\ ~Idling("ui") /\ ~calls["ui"].listing
    /\ WndProc(calls["ui"].frame)[1] = "DelRoomMember"

\* The row clicked last is nSelected, unless rows have come between; none is clicked
\* before the members are listed; and whom the helper is told to delete stands there.
MarkInv ==
    /\ Awaits \/ Listing("ui") => mClicked = 0
    /\ mClicked # 0 /\ ~mixed => nSelected = mClicked
    /\ Deleting /\ ~mixed /\ ~misled =>
           /\ nSelected \in 1 .. Len(mRows)
           /\ mRows[nSelected] = WndProc(calls["ui"].frame)[3]

\* Nothing happens to the call of the UI thread; the listing of its dialog goes on as
\* it was, or is gone.
SameCall == calls'["ui"] = calls["ui"] /\ excuses \subseteq excuses'
SameRest ==
    \A j \in 1 .. Len(listings') : listings'[j].by = "ui" =>
        \E k \in 1 .. Len(listings) :
            listings[k].by = "ui" /\ listings[k].rest = listings'[j].rest
SameRows ==
    UNCHANGED <<room, mRows, mIndex, listed, mixed, shifted>> /\ (misled => misled')

LEMMA CallSame ==
    ASSUME SameCall
    PROVE  /\ Awaits' <=> Awaits
           /\ Listing("ui")' <=> Listing("ui")
           /\ Deleting' <=> Deleting
           /\ WndProc(calls["ui"].frame)' = WndProc(calls["ui"].frame)
  BY DEF SameCall, Awaits, Listing, Deleting, Idling

LEMMA RestSame ==
    ASSUME UNCHANGED listings \/ listings' = <<>> PROVE SameRest
  BY NoListing DEF SameRest

LEMMA RowsStay ==
    ASSUME MemberInv, SameCall, SameRest, SameRows PROVE MemberInv'
<1>1. RoomInv'
  BY CallSame DEF MemberInv, RoomInv, SameRows
<1>2. ShownInv'
  BY CallSame DEF MemberInv, ShownInv, SameRows, SameRest, SameCall
<1> QED
  BY <1>1, <1>2 DEF MemberInv

\* Somebody else's member, or Done, comes to the dialog.
LEMMA RowsMixed ==
    ASSUME MemberInv, SameCall, UNCHANGED room, mixed' = TRUE, shifted' = TRUE \/ mIndex' = 0
    PROVE  MemberInv'
<1>1. RoomInv'
  BY CallSame DEF MemberInv, RoomInv
<1>2. ShownInv'
  BY CallSame DEF MemberInv, ShownInv
<1> QED
  BY <1>1, <1>2 DEF MemberInv

LEMMA RowsGone ==
    ASSUME RobotForgets, wx' = wx, ListedInv PROVE MemberInv' /\ ListedInv'
<1>1. /\ calls'["ui"] = NoCall /\ listings' = <<>> /\ room' = NoRoom /\ mIndex' = 0
      /\ listed' = <<>> /\ mixed' = FALSE /\ shifted' = FALSE /\ wx' = wx
  BY DEF RobotForgets, Caller
<1>2. ~Awaits' /\ ~Listing("ui")' /\ Len(listings') = 0
  BY <1>1, NoListing DEF Awaits, Listing, Idling
<1>3. Distinct(listed')
  BY <1>1, NoListing DEF Distinct
<1>4. RoomInv'
  BY <1>1, <1>2 DEF RoomInv
<1>5. ShownInv'
  BY <1>1, <1>2 DEF ShownInv
<1>6. GroupsIn(wx')
  BY <1>1 DEF ListedInv
<1>7. RestInv'
  BY <1>2 DEF RestInv
<1> QED
  BY <1>1, <1>3, <1>4, <1>5, <1>6, <1>7 DEF MemberInv, ListedInv

LEMMA RowsBegin == ASSUME DialogState PROVE MemberInv /\ ListedInv
<1>1. /\ calls["ui"] = NoCall /\ listings = <<>> /\ room = NoRoom /\ mIndex = 0
      /\ listed = <<>> /\ mixed = FALSE /\ shifted = FALSE /\ wx = NewWeChat(GroupOf)
  BY DEF DialogState, Caller
<1>2. ~Awaits /\ ~Listing("ui") /\ Len(listings) = 0
  BY <1>1, NoListing DEF Awaits, Listing, Idling
<1>3. Distinct(listed)
  BY <1>1, NoListing DEF Distinct
<1>4. "members" \in DOMAIN wx /\ wx.members = GroupOf
  BY <1>1 DEF NewWeChat
<1>5. ASSUME NEW g \in Group PROVE Distinct(GroupOf[g])
  <2>1. GroupOf[g] \in Seq(ToSet(GroupOf[g])) /\ IsInjective(GroupOf[g])
    BY GroupAssumption
  <2>2. DOMAIN GroupOf[g] = 1 .. Len(GroupOf[g])
    BY <2>1
  <2> QED
    BY <2>1, <2>2 DEF Distinct, IsSequence, IsInjective
<1>6. GroupsIn(wx)
  BY <1>4, <1>5, GroupAssumption DEF GroupsIn
<1>7. RoomInv
  BY <1>1, <1>2 DEF RoomInv
<1>8. ShownInv
  BY <1>1, <1>2 DEF ShownInv
<1> QED
  BY <1>1, <1>2, <1>3, <1>6, <1>7, <1>8 DEF MemberInv, ListedInv, RestInv

\* The UI thread sends something that is no list, or has nothing more to wait for.
LEMMA RowsSent ==
    ASSUME MemberInv, SameRows, UNCHANGED <<listings, excuses>>, ~Awaits, ~Awaits',
           Listing("ui")' <=> Listing("ui")
    PROVE  MemberInv'
<1>1. RoomInv'
  BY DEF MemberInv, RoomInv, SameRows
<1>2. ShownInv'
  BY DEF MemberInv, ShownInv, SameRows
<1> QED
  BY <1>1, <1>2 DEF MemberInv

\* What is sent makes no list yet.
LEMMA SentAwaits ==
    ASSUME TalkInv, NEW ask, NEW frame, NEW why, Send("ui", ask, frame, why)
    PROVE  /\ ~Listing("ui")' /\ calls'["ui"].frame = frame
           /\ Awaits' <=> WndProc(frame)[1] = "ShowChatRoomUser"
<1> DEFINE long == why \cup (IF Spills(frame) THEN {"long"} ELSE {})
           call == [ask |-> ask, frame |-> frame, listing |-> FALSE, why |-> long]
<1>1. calls'["ui"] = call
  BY DEF Send, TalkInv, CallInv, Caller
<1> HIDE DEF long
<1>2. call # NoCall /\ call.frame = frame /\ ~call.listing
  BY ACallIsNoTuple DEF Whole
<1> HIDE DEF call
<1>3. calls'["ui"].frame = frame /\ calls'["ui"] # NoCall /\ ~calls'["ui"].listing
  BY <1>1, <1>2
<1> QED
  BY <1>3 DEF Listing, Awaits, Idling

LEMMA RowsOther ==
    ASSUME TalkInv, MemberInv, Idling("ui"), SameRows, UNCHANGED <<listings, excuses>>,
           NEW ask, NEW frame, NEW why, Send("ui", ask, frame, why),
           WndProc(frame)[1] # "ShowChatRoomUser"
    PROVE  MemberInv'
<1>1. ~Awaits' /\ ~Listing("ui")' /\ ~Awaits /\ ~Listing("ui")
  BY SentAwaits DEF Awaits, Listing
<1> QED
  BY <1>1, RowsSent

\* Nothing the dialog has asked for is being listed while the UI thread is idle.
LEMMA NoneOfItsOwn ==
    ASSUME TalkInv, ~Listing("ui")
    PROVE  \A j \in 1 .. Len(listings) : listings[j].by # "ui"
  BY DEF TalkInv, ListingInv, Makes

LEMMA RowsOpen == ASSUME TalkInv, ListedInv, MemberInv, OpenMembers PROVE MemberInv'
<1> DEFINE frame == Dialog(<<"ShowChatRoomUser", wxid>>)
<1>1. WndProc(frame) = <<"ShowChatRoomUser", wxid>>
  BY DialogSingles DEF Singles
<1>2. /\ Send("ui", <<"ShowChatRoomUser", wxid>>, frame, {}) /\ Idling("ui")
      /\ room = NoRoom /\ room' = wxid /\ wxid \in Group /\ mRows' = <<>>
      /\ mixed' = shifted /\ UNCHANGED <<listings, excuses, shifted, mIndex>>
  BY DEF OpenMembers, weChatVars
<1> HIDE DEF frame
<1>3. ~Listing("ui")' /\ Awaits' /\ calls'["ui"].frame = frame
  BY <1>1, <1>2, SentAwaits
<1>4. ~Listing("ui")
  BY <1>2 DEF Listing
<1>5. RoomInv'
  BY <1>1, <1>2, <1>3 DEF RoomInv
<1>6. ShownInv'
  <2>1. \A j \in 1 .. Len(listings') : listings'[j].by # "ui"
    BY <1>2, <1>4, NoneOfItsOwn
  <2> QED
    BY <1>2, <1>3, <1>4, <2>1 DEF MemberInv, ShownInv
<1> QED
  BY <1>5, <1>6 DEF MemberInv

LEMMA RowsClose == ASSUME TalkInv, MemberInv, CloseMembers PROVE MemberInv'
<1>1. /\ Idling("ui") /\ room' = NoRoom
      /\ UNCHANGED <<calls, listings, excuses, mIndex, shifted, mixed>>
  BY DEF CloseMembers, weChatVars
<1>2. ~Listing("ui") /\ ~Awaits /\ ~Listing("ui")' /\ ~Awaits'
  BY <1>1 DEF Listing, Awaits, Idling
<1>3. \A j \in 1 .. Len(listings') : listings'[j].by # "ui"
  BY <1>1, <1>2, NoneOfItsOwn
<1>4. RoomInv'
  BY <1>1, <1>2 DEF RoomInv
<1>5. ShownInv'
  BY <1>1, <1>2, <1>3 DEF MemberInv, ShownInv
<1> QED
  BY <1>4, <1>5 DEF MemberInv

\* The other commands of the user, and the question of a main window that opens.
LEMMA MenuCommandKind ==
    ASSUME NEW kind \in FriendMenu \cup GroupMenu, NEW id, NEW text
    PROVE  /\ WndProc(Dialog(Command(kind, id, text)))[1] # "ShowChatRoomUser"
           /\ WndProc(Dialog(Command(kind, id, text)))[1] # "DelRoomMember"
<1>1. Command(kind, id, text)[1] = kind
  BY DEF Command
<1>2. /\ kind # "DelRoomMember"
      /\ kind \in Texts \cup Pairs \cup {"DeleteUser", "QuitChatRoom", "SendXmlCard"}
  BY DEF FriendMenu, GroupMenu, Texts, Pairs
<1> QED
  BY <1>1, <1>2, DialogCode

LEMMA ButtonKind ==
    ASSUME NEW text, NEW cmd \in Buttons(text)
    PROVE  /\ WndProc(Dialog(cmd))[1] # "ShowChatRoomUser"
           /\ WndProc(Dialog(cmd))[1] # "DelRoomMember"
<1>1. /\ cmd[1] # "DelRoomMember"
      /\ cmd[1] \in Pairs \cup Plains \cup {"OpenUrl"}
  BY DEF Buttons, Pairs, Plains
<1> QED
  BY <1>1, DialogCode

LEMMA AutoChatKind ==
    ASSUME NEW on
    PROVE  /\ WndProc(Dialog(<<"AutoChat", on>>))[1] # "ShowChatRoomUser"
           /\ WndProc(Dialog(<<"AutoChat", on>>))[1] # "DelRoomMember"
<1>1. <<"AutoChat", on>>[1] = "AutoChat"
  OBVIOUS
<1> QED
  BY <1>1, DialogCode

LEMMA MemberKind ==
    ASSUME NEW kind \in {"DelRoomMember", "SendRoomAtMsg"}, NEW id, NEW text, NEW cmd,
           cmd = IF kind = "DelRoomMember" THEN <<kind, room, id>>
                 ELSE <<kind, room, id, id, text>>
    PROVE  /\ WndProc(Dialog(cmd))[1] # "ShowChatRoomUser"
           /\ kind = "SendRoomAtMsg" => WndProc(Dialog(cmd))[1] # "DelRoomMember"
<1>1. cmd[1] = kind
  OBVIOUS
<1> QED
  BY <1>1, DialogCode DEF Pairs

LEMMA RowsAsked ==
    ASSUME TalkInv, MemberInv, NEW text,
           \/ \E cmd \in Buttons(text) : Button(cmd)
           \/ AutoChatButton(TuLing)
           \/ \E kind \in FriendMenu \cup GroupMenu : MenuCommand(kind, text)
           \/ \E kind \in {"DelRoomMember", "SendRoomAtMsg"} : MemberCommand(kind, text)
    PROVE  MemberInv'
<1>1. ASSUME NEW cmd \in Buttons(text), Button(cmd) PROVE MemberInv'
  BY <1>1, ButtonKind, RowsOther DEF Button, SameRows, memberVars, weChatVars
<1>2. CASE AutoChatButton(TuLing)
  BY <1>2, AutoChatKind, RowsOther DEF AutoChatButton, SameRows, memberVars, weChatVars
<1>3. ASSUME NEW kind \in FriendMenu \cup GroupMenu, MenuCommand(kind, text)
      PROVE  MemberInv'
  <2>1. WndProc(Dialog(Command(kind, wxid, text)))[1] # "ShowChatRoomUser"
    BY MenuCommandKind
  <2>2. SameRows /\ UNCHANGED <<listings, excuses>> /\ Idling("ui")
    BY <1>3 DEF MenuCommand, SameRows, memberVars, weChatVars
  <2>3. \E ask, why : Send("ui", ask, Dialog(Command(kind, wxid, text)), why)
    BY <1>3 DEF MenuCommand
  <2> QED
    BY <2>1, <2>2, <2>3, RowsOther
<1>4. ASSUME NEW kind \in {"DelRoomMember", "SendRoomAtMsg"}, MemberCommand(kind, text)
      PROVE  MemberInv'
  <2> DEFINE cmd == IF kind = "DelRoomMember" THEN <<kind, room, memberwxid>>
                    ELSE <<kind, room, memberwxid, memberwxid, text>>
  <2>1. WndProc(Dialog(cmd))[1] # "ShowChatRoomUser"
    BY MemberKind
  <2>2. SameRows /\ UNCHANGED <<listings, excuses>> /\ Idling("ui")
    BY <1>4 DEF MemberCommand, SameRows, weChatVars
  <2>3. \E ask, why : Send("ui", ask, Dialog(cmd), why)
    BY <1>4 DEF MemberCommand
  <2> HIDE DEF cmd
  <2> QED
    BY <2>1, <2>2, <2>3, RowsOther
<1> QED
  BY <1>1, <1>2, <1>3, <1>4

LEMMA RowsWelcome ==
    ASSUME TalkInv, MemberInv, Welcome, ~MainWindow => calls["ui"] = NoCall
    PROVE  MemberInv'
<1>1. SameRows /\ UNCHANGED <<listings, excuses>>
  BY DEF Welcome, SameRows, memberVars, weChatVars
<1>2. CASE robot' # robot /\ HelperWindow
  <2>1. Idling("ui")
    BY <1>2 DEF Welcome, CheckIsLogin, MainWindow, Idling
  <2>2. Asking'
    BY <1>2, <2>1, WelcomeSends DEF Idling
  <2>3. ~Awaits' /\ ~Listing("ui")' /\ ~Awaits /\ ~Listing("ui")
    BY <2>1, <2>2 DEF Asking, Awaits, Listing
  <2> QED
    BY <1>1, <2>3, RowsSent
<1>3. CASE ~(robot' # robot /\ HelperWindow)
  <2>1. UNCHANGED calls
    BY <1>3 DEF Welcome
  <2> QED
    BY <1>1, <2>1, RowsStay, RestSame DEF SameCall
<1> QED
  BY <1>2, <1>3

-----------------------------------------------------------------------------
(* The helper lists the members, and answers. *)

\* A call of the UI thread ends, and the row of whoever was deleted goes.
LEMMA RowsDeleted ==
    ASSUME TalkInv, ListedInv, MemberInv, UNCHANGED listings, excuses \subseteq excuses',
           ~Awaits, ~Listing("ui"), ~Awaits', ~Listing("ui")', NEW who,
           DeleteMember(RemoveFirst(listed, who)),
           ~mixed /\ ~misled => nSelected \in 1 .. Len(mRows) /\ mRows[nSelected] = who
    PROVE  MemberInv'
<1>1. UNCHANGED <<room, mIndex, mixed, shifted, misled>>
  BY DEF DeleteMember
<1>2. RoomInv'
  BY <1>1 DEF MemberInv, RoomInv
<1>3. ASSUME ~mixed, ~misled, mRows = listed PROVE mRows' = listed'
  <2>1. nSelected \in 1 .. Len(mRows) /\ mRows[nSelected] = who
    BY <1>3
  <2>2. mRows' = RemoveAt(mRows, nSelected) /\ listed' = RemoveFirst(listed, who)
    BY <2>1 DEF DeleteMember
  <2> QED
    BY <1>3, <2>1, <2>2, RemovedOnce DEF ListedInv
<1>4. \A j \in 1 .. Len(listings') : listings'[j].by # "ui"
  BY NoneOfItsOwn
<1> QED
  BY <1>1, <1>2, <1>3, <1>4 DEF MemberInv, ShownInv

LEMMA RowsAppear ==
    ASSUME MemberInv, SameCall, SameRest, NEW who, ShowMember(who, FALSE) PROVE MemberInv'
<1>1. CASE room = NoRoom
  <2>1. SameRows
    BY <1>1 DEF ShowMember, SameRows, memberVars
  <2> QED
    BY <2>1, RowsStay
<1>2. CASE room # NoRoom
  <2>1. UNCHANGED room /\ mixed' = TRUE /\ shifted' = TRUE
    BY <1>2 DEF ShowMember
  <2> QED
    BY <2>1, RowsMixed
<1> QED
  BY <1>1, <1>2

LEMMA ReturnOf ==
    ASSUME TalkInv, NEW c \in Caller, Return(c)
    PROVE  /\ c = "ui" => ~Awaits' /\ ~Listing("ui")'
           /\ c # "ui" => calls'["ui"] = calls["ui"]
<1>1. calls' = [calls EXCEPT ![c] = NoCall]
  BY DEF Return
<1>2. c = "ui" => calls'["ui"] = NoCall
  BY <1>1 DEF TalkInv, CallInv, Caller
<1> QED
  BY <1>1, <1>2 DEF Awaits, Listing, Idling, TalkInv, CallInv, Caller

LEMMA RowsAreAsked ==
    ASSUME TalkInv, TalkInv', ListedInv, MemberInv, Serve("ui", MainWindow),
           WndProc(calls["ui"].frame)[1] = "ShowChatRoomUser"
    PROVE  MemberInv' /\ Distinct(listed')
<1>1. Awaits
  BY DEF Serve, Awaits
<1>2. room \in Group /\ WndProc(calls["ui"].frame) = <<"ShowChatRoomUser", room>>
  BY <1>1 DEF MemberInv, RoomInv
<1> DEFINE all == wx.members[room]
           l == [room |-> room, by |-> "ui", rest |-> all]
<1>3. /\ listings' = Append(listings, l) /\ calls' = [calls EXCEPT !["ui"].listing = TRUE]
      /\ listed' = all /\ excuses \subseteq excuses'
      /\ UNCHANGED <<room, mRows, mIndex, mixed, shifted>>
  BY <1>2 DEF Serve
<1>4. Distinct(all) /\ IsSequence(all)
  BY <1>2 DEF ListedInv, GroupsIn, Distinct
<1>5. ~Listing("ui") /\ room # NoRoom
  BY <1>1, <1>2, GroupAssumption DEF Awaits, Listing
<1>6. calls'["ui"].listing /\ ~Awaits'
  <2>1. "ui" \in DOMAIN calls /\ "listing" \in DOMAIN calls["ui"]
    BY <1>1 DEF Awaits, TalkInv, CallInv, Caller, Whole
  <2>2. calls'["ui"].listing = TRUE
    BY <1>3, <2>1
  <2> QED
    BY <2>2 DEF Awaits
<1>7. RoomInv'
  BY <1>2, <1>3, <1>6 DEF MemberInv, RoomInv
<1>8. /\ Len(listings) \in Nat /\ Len(listings') = Len(listings) + 1
      /\ \A i \in 1 .. Len(listings) : listings'[i] = listings[i]
      /\ listings'[Len(listings) + 1] = l
  BY <1>3, Sequences DEF TalkInv, ListingInv
<1>9. ASSUME "gone" \notin excuses', ~mixed, NEW j \in 1 .. Len(listings'),
             listings'[j].by = "ui"
      PROVE  Continues(mIndex, mRows, all, listings'[j].rest)
  <2>1. j = Len(listings) + 1
    BY <1>5, <1>8, <1>9, NoneOfItsOwn
  <2>2. listings'[j].rest = all
    BY <1>8, <2>1
  <2>3. mIndex = 0 /\ mRows = <<>>
    BY <1>1, <1>3, <1>5, <1>9 DEF MemberInv, RoomInv, ShownInv
  <2> HIDE DEF all
  <2> QED
    BY <1>4, <2>2, <2>3, ListingBegins
<1>10. Listing("ui")'
  <2>1. calls'["ui"] # NoCall
    <3>1. Whole(calls["ui"]) /\ "ui" \in DOMAIN calls
      BY <1>1 DEF Awaits, TalkInv, CallInv, Caller
    <3>2. calls'["ui"] = [calls["ui"] EXCEPT !.listing = TRUE]
      BY <1>3, <3>1
    <3>3. Whole(calls'["ui"])
      BY <3>1, <3>2 DEF Whole
    <3> QED
      BY <3>3, ACallIsNoTuple
  <2> QED
    BY <1>6, <2>1 DEF Listing, Idling
<1> HIDE DEF all, l
<1>11. ShownInv'
  BY <1>3, <1>9, <1>10 DEF ShownInv
<1> QED
  BY <1>3, <1>4, <1>7, <1>11 DEF MemberInv

LEMMA RowsServed ==
    ASSUME TalkInv, TalkInv', ListedInv, MarkInv, MemberInv, NEW c \in Caller,
           Serve(c, MainWindow)
    PROVE  MemberInv'
<1>1. excuses \subseteq excuses' /\ ~calls[c].listing
  BY DEF Serve
<1>2. CASE WndProc(calls[c].frame)[1] = "ShowChatRoomUser"
  <2>1. CASE c = "ui"
    BY <1>2, <2>1, RowsAreAsked
  <2>2. CASE c # "ui"
    <3>1. /\ calls' = [calls EXCEPT ![c].listing = TRUE]
          /\ UNCHANGED <<room, mRows, mIndex, mixed, shifted, misled, listed>>
      BY <1>2, <2>2 DEF Serve
    <3>2. \E l : l.by = c /\ listings' = Append(listings, l)
      BY <1>2 DEF Serve
    <3>3. SameCall /\ SameRows
      BY <1>1, <2>2, <3>1 DEF SameCall, SameRows, TalkInv, CallInv, Caller
    <3>4. SameRest
      <4>1. PICK l : l.by = c /\ listings' = Append(listings, l)
        BY <3>2
      <4>2. /\ Len(listings) \in Nat /\ Len(listings') = Len(listings) + 1
            /\ \A i \in 1 .. Len(listings) : listings'[i] = listings[i]
            /\ listings'[Len(listings) + 1] = l
        BY <4>1, Sequences DEF TalkInv, ListingInv
      <4>3. \A j \in 1 .. Len(listings') : j \in 1 .. Len(listings) \/ j = Len(listings) + 1
        BY <4>2
      <4> QED
        BY <2>2, <4>1, <4>2, <4>3 DEF SameRest
    <3> QED
      BY <3>3, <3>4, RowsStay
  <2> QED
    BY <2>1, <2>2
<1>3. CASE WndProc(calls[c].frame)[1] # "ShowChatRoomUser"
  <2>1. /\ Return(c) /\ UNCHANGED listings
        /\ \/ \E who : ShowMember(who, FALSE)
           \/ /\ c = "ui" /\ WndProc(calls[c].frame)[1] = "DelRoomMember"
              /\ DeleteMember(RemoveFirst(listed, WndProc(calls[c].frame)[3]))
           \/ UNCHANGED memberVars
    BY <1>3 DEF Serve
  <2>2. SameRest
    BY <2>1, RestSame
  <2>3. CASE c = "ui"
    <3>1. ~Awaits /\ ~Listing("ui") /\ ~Awaits' /\ ~Listing("ui")'
      BY <1>1, <1>3, <2>1, <2>3, ReturnOf DEF Awaits, Listing
    <3>2. CASE /\ WndProc(calls[c].frame)[1] = "DelRoomMember"
               /\ DeleteMember(RemoveFirst(listed, WndProc(calls[c].frame)[3]))
      <4>1. Deleting
        BY <1>1, <2>3, <3>2 DEF Serve, Deleting
      <4>2. ~mixed /\ ~misled => /\ nSelected \in 1 .. Len(mRows)
                                /\ mRows[nSelected] = WndProc(calls[c].frame)[3]
        BY <2>3, <4>1 DEF MarkInv
      <4> QED
        BY <1>1, <2>1, <3>1, <3>2, <4>2, RowsDeleted
    <3>3. CASE UNCHANGED memberVars
      <4>1. SameRows
        BY <3>3 DEF SameRows, memberVars
      <4>2. RoomInv'
        BY <3>1, <4>1 DEF MemberInv, RoomInv, SameRows
      <4>3. ShownInv'
        BY <1>1, <2>1, <3>1, <4>1 DEF MemberInv, ShownInv, SameRows
      <4> QED
        BY <4>2, <4>3 DEF MemberInv
    <3>4. ASSUME NEW who, ShowMember(who, FALSE), room # NoRoom PROVE MemberInv'
      <4>1. UNCHANGED room /\ mixed' = TRUE /\ shifted' = TRUE
        BY <3>4 DEF ShowMember
      <4>2. RoomInv'
        BY <3>1, <4>1 DEF RoomInv
      <4>3. ShownInv'
        BY <4>1 DEF ShownInv
      <4> QED
        BY <4>2, <4>3 DEF MemberInv
    <3> QED
      BY <2>1, <3>2, <3>3, <3>4 DEF ShowMember
  <2>4. CASE c # "ui"
    <3>1. SameCall
      BY <1>1, <2>1, <2>4, ReturnOf DEF SameCall
    <3>2. UNCHANGED memberVars => SameRows
      BY DEF memberVars, SameRows
    <3> QED
      BY <2>1, <2>2, <2>4, <3>1, <3>2, RowsStay, RowsAppear
  <2> QED
    BY <2>3, <2>4
<1> QED
  BY <1>2, <1>3

\* The next member of the listing called last is shown.
LEMMA NextOfListing ==
    ASSUME TalkInv, RestInv, ListMember, NEW n, n = Len(listings)
    PROVE  /\ n \in Nat /\ n # 0 /\ listings[n].rest # <<>>
           /\ Len(listings') = n /\ RestInv'
           /\ \A i \in 1 .. n : listings'[i].by = listings[i].by
           /\ \A i \in 1 .. n - 1 : listings'[i] = listings[i]
           /\ listings'[n].rest = Tail(listings[n].rest)
           /\ ShowMember(Head(listings[n].rest), Own(listings[n]))
<1> DEFINE l == [listings[n] EXCEPT !.rest = Tail(listings[n].rest)]
           s == Front(listings)
<1>1. IsSequence(listings) /\ n \in Nat /\ n # 0
  BY Sequences DEF ListMember, TalkInv, ListingInv, IsSequence
<1>2. /\ listings' = s \o <<l>> /\ listings[n].rest # <<>>
      /\ ShowMember(Head(listings[n].rest), Own(listings[n]))
  BY DEF ListMember, Last
<1>3. l.rest = Tail(listings[n].rest) /\ l.by = listings[n].by /\ "rest" \in DOMAIN l
  BY <1>1 DEF RestInv
<1>4. IsSequence(s) /\ Len(s) = n - 1 /\ \A i \in 1 .. n - 1 : s[i] = listings[i]
  BY <1>1, FrontOf
<1> HIDE DEF l, s
<1>5. s \o <<l>> = Append(s, l)
  <2>1. PICK S : s \in Seq(S)
    BY <1>4 DEF IsSequence
  <2>2. s \in Seq(S \cup {l})
    BY <2>1
  <2> QED
    BY <2>2, AppendIsConcat
<1>6. /\ Len(listings') = n /\ listings'[n] = l
      /\ \A i \in 1 .. n - 1 : listings'[i] = listings[i]
  <2>1. /\ Len(Append(s, l)) = (n - 1) + 1 /\ Append(s, l)[(n - 1) + 1] = l
        /\ \A i \in 1 .. n - 1 : Append(s, l)[i] = s[i]
    BY <1>4, Sequences
  <2>2. (n - 1) + 1 = n
    BY <1>1
  <2> QED
    BY <1>2, <1>4, <1>5, <2>1, <2>2
<1>7. \A i \in 1 .. n : i \in 1 .. n - 1 \/ i = n
  BY <1>1
<1>8. RestInv'
  BY <1>3, <1>6, <1>7 DEF RestInv
<1> QED
  BY <1>1, <1>2, <1>3, <1>6, <1>7, <1>8

LEMMA RowsListed ==
    ASSUME TalkInv, ListedInv, MemberMarks, MemberInv, ListMember PROVE MemberInv'
<1> DEFINE n == Len(listings)
           l == listings[n]
<1>1. /\ n \in Nat /\ n # 0 /\ l.rest # <<>> /\ Len(listings') = n
      /\ \A i \in 1 .. n : listings'[i].by = listings[i].by
      /\ \A i \in 1 .. n - 1 : listings'[i] = listings[i]
      /\ listings'[n].rest = Tail(l.rest)
      /\ ShowMember(Head(l.rest), Own(l))
  BY NextOfListing DEF ListedInv
<1>2. UNCHANGED <<calls, excuses>> /\ SameCall
  BY DEF ListMember, weChatVars, SameCall
<1>3. \A i \in 1 .. n : i \in 1 .. n - 1 \/ i = n
  BY <1>1
<1>4. CASE l.by = "ui"
  <2>1. Listing("ui")
    BY <1>1, <1>4 DEF TalkInv, ListingInv, Makes
  <2>2. room # NoRoom /\ ~Awaits /\ ~Awaits' /\ Listing("ui")'
    BY <1>2, <2>1, CallSame, GroupAssumption DEF MemberInv, RoomInv, Awaits, Listing
  <2>3. /\ mRows' = Inserted(mRows, mIndex, Head(l.rest)) /\ mIndex' = mIndex + 1
        /\ mixed' <=> mixed
        /\ shifted' <=> shifted
        /\ UNCHANGED <<room, listed>>
    BY <1>1, <1>4, <2>2 DEF ShowMember, Own
  <2>4. RoomInv'
    BY <2>1, <2>2, <2>3 DEF MemberInv, RoomInv
  <2>5. ASSUME "gone" \notin excuses, ~mixed, NEW j \in 1 .. n, listings'[j].by = "ui"
        PROVE  Continues(mIndex', mRows', listed, listings'[j].rest)
    <3>1. j = n
      BY <1>1, <1>4, <2>5 DEF TalkInv, ListingInv
    <3>2. Continues(mIndex, mRows, listed, l.rest)
      BY <1>1, <1>4, <2>5 DEF MemberInv, ShownInv
    <3>3. IsSequence(mRows)
      BY DEF MemberMarks
    <3> HIDE DEF l
    <3> QED
      BY <1>1, <2>3, <3>1, <3>2, <3>3, ListingGoesOn
  <2>6. ShownInv'
    BY <1>1, <1>2, <2>2, <2>3, <2>5 DEF ShownInv
  <2> QED
    BY <2>4, <2>6 DEF MemberInv
<1>5. CASE l.by # "ui"
  <2>1. SameRest
    BY <1>1, <1>3, <1>5 DEF SameRest
  <2>2. Own(l) = FALSE
    BY <1>5 DEF Own
  <2> QED
    BY <1>1, <1>2, <2>1, <2>2, RowsAppear
<1> QED
  BY <1>4, <1>5

LEMMA RowsDone ==
    ASSUME TalkInv, TalkInv', ListedInv, MemberMarks, MemberInv, ListingDone PROVE MemberInv'
<1> DEFINE n == Len(listings)
           c == listings[n].by
<1>1. /\ Return(c) /\ listings' = Front(listings) /\ listings # <<>>
      /\ listings[n].rest = <<>> /\ MembersDone(Own(listings[n])) /\ UNCHANGED excuses
  BY DEF ListingDone, Last, weChatVars
<1>2. IsSequence(listings) /\ n \in Nat /\ n # 0
  BY <1>1, Sequences DEF TalkInv, ListingInv, IsSequence
<1>3. c \in Caller /\ Listing(c)
  BY <1>2 DEF TalkInv, ListingInv, Makes
<1>4. CASE c = "ui"
  <2>1. room # NoRoom
    BY <1>3, <1>4, GroupAssumption DEF MemberInv, RoomInv
  <2>2. ~Awaits' /\ ~Listing("ui")' /\ ~Awaits
    BY <1>1, <1>3, <1>4, ReturnOf DEF Awaits, Listing
  <2>3. /\ mIndex' = 0 /\ shifted' = FALSE /\ UNCHANGED <<room, mRows, listed>>
        /\ mixed' <=> mixed
    BY <1>1, <1>4, <2>1 DEF MembersDone, Own
  <2>4. RoomInv'
    BY <2>2, <2>3 DEF RoomInv
  <2>5. ASSUME "gone" \notin excuses, ~mixed PROVE mRows = listed
    <3>1. Continues(mIndex, mRows, listed, <<>>)
      BY <1>1, <1>2, <1>4, <2>5 DEF MemberInv, ShownInv
    <3>2. IsSequence(mRows) /\ IsSequence(listed)
      BY DEF MemberMarks, ListedInv, Distinct
    <3> QED
      BY <3>1, <3>2, ListingEnds
  <2>6. \A j \in 1 .. Len(listings') : listings'[j].by # "ui"
    BY <2>2 DEF TalkInv, ListingInv, Makes
  <2>7. ShownInv'
    BY <1>1, <2>2, <2>3, <2>5, <2>6 DEF ShownInv
  <2> QED
    BY <2>4, <2>7 DEF MemberInv
<1>5. CASE c # "ui"
  <2>1. SameCall
    BY <1>1, <1>3, <1>5, ReturnOf DEF SameCall
  <2>2. SameRest
    <3>1. Len(listings') = n - 1 /\ \A i \in 1 .. n - 1 : listings'[i] = listings[i]
      BY <1>1, <1>2, FrontOf
    <3>2. \A i \in 1 .. n - 1 : i \in 1 .. n
      BY <1>2
    <3> QED
      BY <3>1, <3>2 DEF SameRest
  <2>3. CASE room = NoRoom
    <3>1. SameRows
      BY <1>1, <2>3 DEF MembersDone, SameRows, memberVars
    <3> QED
      BY <2>1, <2>2, <3>1, RowsStay
  <2>4. CASE room # NoRoom
    <3>1. mIndex' = 0 /\ mixed' = TRUE /\ UNCHANGED room
      BY <1>1, <1>5, <2>4 DEF MembersDone, Own
    <3> QED
      BY <2>1, <3>1, RowsMixed
  <2> QED
    BY <2>3, <2>4
<1> QED
  BY <1>4, <1>5

LEMMA RowsAbandoned ==
    ASSUME TalkInv, MemberInv, NEW c \in Caller, Abandoned(c) PROVE MemberInv'
<1>1. Return(c) /\ excuses' = excuses \cup {"gone"} \cup calls[c].why
  BY DEF Abandoned
<1>2. ShownInv'
  BY <1>1 DEF ShownInv
<1>3. UNCHANGED <<room, mixed, shifted>>
  BY DEF Abandoned, DeleteMember, memberVars
<1>4. RoomInv'
  <2>1. CASE c = "ui"
    BY <1>1, <1>3, <2>1, ReturnOf DEF MemberInv, RoomInv
  <2>2. CASE c # "ui"
    <3>1. SameCall
      BY <1>1, <2>2, ReturnOf DEF SameCall
    <3> QED
      BY <1>3, <3>1, CallSame DEF MemberInv, RoomInv
  <2> QED
    BY <2>1, <2>2
<1> QED
  BY <1>2, <1>4 DEF MemberInv

LEMMA RestStep == TalkInv /\ RestInv /\ CallSteps => RestInv'
<1> SUFFICES ASSUME TalkInv, RestInv, CallSteps PROVE RestInv'
  OBVIOUS
<1>1. CASE UNCHANGED listings \/ listings' = <<>>
  BY <1>1, NoListing DEF RestInv
<1>2. ASSUME NEW c \in Caller, Lists(c) PROVE RestInv'
  <2>1. PICK l : "rest" \in DOMAIN l /\ listings' = Append(listings, l)
    BY <1>2 DEF Lists
  <2>2. /\ Len(listings) \in Nat /\ Len(listings') = Len(listings) + 1
        /\ \A i \in 1 .. Len(listings) : listings'[i] = listings[i]
        /\ listings'[Len(listings) + 1] = l
    BY <2>1, Sequences DEF TalkInv, ListingInv
  <2>3. \A j \in 1 .. Len(listings') : j \in 1 .. Len(listings) \/ j = Len(listings) + 1
    BY <2>2
  <2> QED
    BY <2>1, <2>2, <2>3 DEF RestInv
<1>3. CASE ListMember
  BY <1>3, NextOfListing
<1>4. CASE Len(listings) # 0 /\ listings' = Front(listings)
  <2>1. /\ Len(listings') = Len(listings) - 1 /\ Len(listings) \in Nat
        /\ \A i \in 1 .. Len(listings) - 1 : listings'[i] = listings[i]
    BY <1>4, FrontOf, Sequences DEF TalkInv, ListingInv
  <2> QED
    BY <2>1 DEF RestInv
<1> QED
  BY <1>1, <1>2, <1>3, <1>4 DEF CallSteps, RobotForgets, Sends

LEMMA ListedServed ==
    ASSUME TalkInv, TalkInv', ListedInv, MemberInv, NEW c \in Caller, Serve(c, MainWindow)
    PROVE  GroupsIn(wx') /\ Distinct(listed')
<1>1. GroupsIn(wx')
  BY GroupsAfter DEF Serve, ListedInv
<1>2. CASE WndProc(calls[c].frame)[1] = "ShowChatRoomUser" /\ c = "ui"
  BY <1>1, <1>2, RowsAreAsked
<1>3. CASE WndProc(calls[c].frame)[1] = "ShowChatRoomUser" /\ c # "ui"
  BY <1>1, <1>3 DEF Serve, ListedInv
<1>4. CASE WndProc(calls[c].frame)[1] # "ShowChatRoomUser"
  <2>1. (\E who : listed' = RemoveFirst(listed, who)) \/ UNCHANGED listed
    BY <1>4 DEF Serve, ShowMember, DeleteMember, memberVars
  <2> QED
    BY <1>1, <2>1, RemovedOnce DEF ListedInv
<1> QED
  BY <1>1, <1>2, <1>3, <1>4

LEMMA ListedReturns == ASSUME ListedInv, Returning PROVE GroupsIn(wx') /\ Distinct(listed')
<1>1. UNCHANGED wx /\ UNCHANGED listed
  BY DEF Returning, ListMember, ListingDone, Abandoned, ShowMember, MembersDone, DeleteMember,
         memberVars, weChatVars
<1> QED
  BY <1>1 DEF ListedInv

\* What happens to the marks: nothing that the call of the UI thread does not know ...
LEMMA MarkStays ==
    ASSUME MarkInv, SameCall, UNCHANGED <<mRows, nSelected, mClicked, mixed>>,
           misled => misled'
    PROVE  MarkInv'
  BY CallSame DEF MarkInv

\* ... rows come between ...
LEMMA MarkMixed ==
    ASSUME MarkInv, SameCall, mixed' = TRUE, mClicked = 0 => mClicked' = 0 PROVE MarkInv'
  BY CallSame DEF MarkInv

\* ... or the UI thread waits for nothing any more.
LEMMA MarkIdle ==
    ASSUME Idling("ui")', mClicked' # 0 /\ ~mixed' => nSelected' = mClicked' PROVE MarkInv'
  BY DEF MarkInv, Awaits, Listing, Deleting, Idling

LEMMA MarkSent ==
    ASSUME TalkInv, MarkInv, UNCHANGED <<nSelected, mClicked, mixed>>,
           NEW ask, NEW frame, NEW why, Send("ui", ask, frame, why),
           WndProc(frame)[1] # "ShowChatRoomUser", WndProc(frame)[1] # "DelRoomMember"
    PROVE  MarkInv'
<1>1. ~Awaits' /\ ~Listing("ui")' /\ calls'["ui"].frame = frame
  BY SentAwaits
<1>2. ~Deleting'
  BY <1>1 DEF Deleting
<1> QED
  BY <1>1, <1>2 DEF MarkInv

\* A row is deleted in the order the code has it, not before the wxid is in the frame.
LEMMA MarkMember ==
    ASSUME TalkInv, MarkInv, MemberMarks, NEW text,
           NEW kind \in {"DelRoomMember", "SendRoomAtMsg"}, MemberCommand(kind, text)
    PROVE  MarkInv'
<1> DEFINE cmd == IF kind = "DelRoomMember" THEN <<kind, room, memberwxid>>
                  ELSE <<kind, room, memberwxid, memberwxid, text>>
           doubt == Doubt(mClicked = marked, mRows[marked])
<1>1. /\ \E ask : Send("ui", ask, Dialog(cmd), doubt)
      /\ UNCHANGED <<mRows, nSelected, mClicked, mixed>>
      /\ kind = "DelRoomMember" /\ ~misled' => doubt = {}
      /\ marked # 0
  BY DEF MemberCommand
<1>2. ~Awaits' /\ ~Listing("ui")' /\ calls'["ui"].frame = Dialog(cmd)
  BY <1>1, MemberKind, SentAwaits
<1>3. CASE kind = "SendRoomAtMsg"
  BY <1>1, <1>3, MemberKind, MarkSent
<1>4. CASE kind = "DelRoomMember"
  <2>1. ASSUME ~mixed, ~misled'
        PROVE  nSelected \in 1 .. Len(mRows) /\ mRows[nSelected] = WndProc(Dialog(cmd))[3]
    <3>1. doubt = {}
      BY <1>1, <1>4, <2>1
    <3>2. mClicked = marked /\ mRows[marked] = Cut(mRows[marked])
      BY <3>1, NoDoubt
    <3>3. memberwxid = mRows[mClicked] /\ mClicked = nSelected /\ Len(mRows) \in Nat
      BY <1>1, <2>1, <3>2, Sequences DEF MemberMarks, MarkInv
    <3>4. nSelected \in 1 .. Len(mRows)
      BY <1>1, <3>2, <3>3 DEF MemberMarks
    <3>5. Fits(memberwxid, 50)
      BY <3>2, <3>3, CutFits
    <3>6. cmd[1] = "DelRoomMember" /\ cmd[3] = memberwxid
      BY <1>4
    <3> HIDE DEF cmd
    <3>7. WndProc(Dialog(cmd))[3] = memberwxid
      BY <3>5, <3>6, WhoIsDeleted
    <3> QED
      BY <3>3, <3>4, <3>7
  <2> HIDE DEF cmd, doubt
  <2> QED
    BY <1>1, <1>2, <2>1 DEF MarkInv
<1> QED
  BY <1>3, <1>4

LEMMA MarkAppears ==
    ASSUME MarkInv, MemberMarks, SameCall, NEW who, ShowMember(who, FALSE) PROVE MarkInv'
<1>1. CASE room = NoRoom
  BY <1>1, MarkStays DEF ShowMember, memberVars
<1>2. CASE room # NoRoom
  <2>1. mixed'
    BY <1>2, Zenon DEF ShowMember
  <2>2. mClicked' = IF mClicked > mIndex THEN mClicked + 1 ELSE mClicked
    BY <1>2, Zenon DEF ShowMember
  <2>3. mClicked = 0 => mClicked' = 0
    BY <2>2 DEF MemberMarks
  <2> QED
    BY <2>1, <2>3, MarkMixed
<1> QED
  BY <1>1, <1>2

LEMMA MarkDeleted ==
    ASSUME MarkInv, MemberMarks, Idling("ui")', NEW left, DeleteMember(left) PROVE MarkInv'
<1>1. UNCHANGED <<mixed, nSelected>>
  BY DEF DeleteMember
<1>2. CASE nSelected \notin 1 .. Len(mRows)
  BY <1>1, <1>2, MarkIdle DEF DeleteMember, MarkInv
<1>3. CASE nSelected \in 1 .. Len(mRows)
  <2>1. mClicked' = IF mClicked = nSelected THEN 0
                    ELSE IF mClicked > nSelected THEN mClicked - 1 ELSE mClicked
    BY <1>3 DEF DeleteMember
  <2>2. mClicked = 0 => mClicked' = 0
    BY <1>3, <2>1
  <2> QED
    BY <1>1, <2>1, <2>2, MarkIdle DEF MarkInv
<1> QED
  BY <1>2, <1>3

LEMMA MarkServed ==
    ASSUME TalkInv, MarkInv, MemberMarks, NEW c \in Caller, Serve(c, MainWindow)
    PROVE  MarkInv'
<1>1. excuses \subseteq excuses' /\ ~calls[c].listing /\ ~Idling(c)
  BY DEF Serve
<1>2. CASE WndProc(calls[c].frame)[1] = "ShowChatRoomUser"
  <2>1. /\ calls' = [calls EXCEPT ![c].listing = TRUE]
        /\ UNCHANGED <<mRows, nSelected, mClicked, mixed, misled>>
    BY <1>2 DEF Serve
  <2>2. CASE c = "ui"
    <3>1. mClicked = 0
      BY <1>1, <1>2, <2>2 DEF MarkInv, Awaits
    <3>2. calls'["ui"].listing = TRUE
      BY <1>1, <2>1, <2>2 DEF TalkInv, CallInv, Whole, Caller
    <3> QED
      BY <2>1, <3>1, <3>2 DEF MarkInv, Deleting
  <2>3. CASE c # "ui"
    <3>1. SameCall
      BY <1>1, <2>1, <2>3 DEF SameCall, TalkInv, CallInv, Caller
    <3> QED
      BY <2>1, <3>1, MarkStays
  <2> QED
    BY <2>2, <2>3
<1>3. CASE WndProc(calls[c].frame)[1] # "ShowChatRoomUser"
  <2>1. /\ Return(c)
        /\ \/ \E who : ShowMember(who, FALSE)
           \/ c = "ui" /\ \E left : DeleteMember(left)
           \/ UNCHANGED memberVars
    BY <1>3 DEF Serve
  <2>2. CASE c = "ui"
    <3>1. Idling("ui")'
      BY <2>1, <2>2 DEF Return, Idling, TalkInv, CallInv, Caller
    <3>2. CASE UNCHANGED memberVars
      BY <3>1, <3>2, MarkIdle DEF memberVars, MarkInv
    <3>3. ASSUME NEW who, ShowMember(who, FALSE), room # NoRoom PROVE MarkInv'
      BY <3>1, <3>3, MarkIdle DEF ShowMember
    <3> QED
      BY <2>1, <3>1, <3>2, <3>3, MarkDeleted DEF ShowMember
  <2>3. CASE c # "ui"
    <3>1. SameCall
      BY <1>1, <2>1, <2>3, ReturnOf DEF SameCall
    <3>2. CASE UNCHANGED memberVars
      BY <3>1, <3>2, MarkStays DEF memberVars
    <3> QED
      BY <2>1, <2>3, <3>1, <3>2, MarkAppears
  <2> QED
    BY <2>2, <2>3
<1> QED
  BY <1>2, <1>3

LEMMA MarkReturns ==
    ASSUME TalkInv, ListedInv, MarkInv, MemberMarks, Returning PROVE MarkInv'
<1> DEFINE n == Len(listings)
           l == listings[n]
<1>1. CASE ListMember
  <2>1. n \in Nat /\ n # 0 /\ ShowMember(Head(l.rest), Own(l)) /\ SameCall
    BY <1>1, NextOfListing DEF ListedInv, ListMember, weChatVars, SameCall
  <2>2. CASE l.by = "ui"
    <3>1. Listing("ui")
      BY <2>1, <2>2 DEF TalkInv, ListingInv, Makes
    <3>2. mClicked = 0 /\ ~Deleting
      BY <3>1 DEF MarkInv, Listing, Deleting
    <3>3. mClicked' = 0
      BY <2>1, <3>2 DEF ShowMember, MemberMarks, memberVars
    <3> QED
      BY <2>1, <3>2, <3>3, CallSame DEF MarkInv
  <2>3. CASE l.by # "ui"
    <3>1. Own(l) = FALSE
      BY <2>3 DEF Own
    <3> QED
      BY <2>1, <3>1, MarkAppears
  <2> QED
    BY <2>2, <2>3
<1>2. CASE ListingDone
  <2>1. /\ Return(l.by) /\ MembersDone(Own(l)) /\ UNCHANGED excuses /\ listings # <<>>
    BY <1>2 DEF ListingDone, Last, weChatVars
  <2>2. n \in Nat /\ n # 0
    BY <2>1, Sequences DEF TalkInv, ListingInv, IsSequence
  <2>3. l.by \in Caller
    BY <2>2 DEF TalkInv, ListingInv, Makes
  <2>4. UNCHANGED <<mRows, nSelected, mClicked, misled>>
    BY <2>1 DEF MembersDone, memberVars
  <2>5. CASE l.by = "ui"
    <3>1. Idling("ui")'
      BY <2>1, <2>5 DEF Return, Idling, TalkInv, CallInv, Caller
    <3>2. ~mixed' => ~mixed
      BY <2>1 DEF MembersDone, memberVars
    <3> QED
      BY <2>4, <3>1, <3>2, MarkIdle DEF MarkInv
  <2>6. CASE l.by # "ui"
    <3>1. SameCall
      BY <2>1, <2>3, <2>6, ReturnOf DEF SameCall
    <3>2. mixed' = TRUE \/ UNCHANGED mixed
      BY <2>1, <2>6 DEF MembersDone, memberVars, Own
    <3> QED
      BY <2>4, <3>1, <3>2, MarkStays, MarkMixed
  <2> QED
    BY <2>5, <2>6
<1>3. ASSUME NEW c \in Caller, Abandoned(c) PROVE MarkInv'
  <2>1. /\ Return(c) /\ excuses \subseteq excuses'
        /\ UNCHANGED memberVars \/ (c = "ui" /\ DeleteMember(listed))
    BY <1>3 DEF Abandoned
  <2>2. CASE c = "ui"
    <3>1. Idling("ui")'
      BY <2>1, <2>2 DEF Return, Idling, TalkInv, CallInv, Caller
    <3>2. CASE UNCHANGED memberVars
      BY <3>1, <3>2, MarkIdle DEF memberVars, MarkInv
    <3> QED
      BY <2>1, <3>1, <3>2, MarkDeleted
  <2>3. CASE c # "ui"
    <3>1. SameCall
      BY <2>1, <2>3, ReturnOf DEF SameCall
    <3> QED
      BY <2>1, <2>3, <3>1, MarkStays DEF memberVars
  <2> QED
    BY <2>2, <2>3
<1> QED
  BY <1>1, <1>2, <1>3 DEF Returning

LEMMA MarkOfUser ==
    ASSUME TalkInv, MarkInv, MemberMarks, UserCommands PROVE MarkInv'
<1>1. ASSUME NEW text, NEW cmd \in Buttons(text), Button(cmd) PROVE MarkInv'
  BY <1>1, ButtonKind, MarkSent DEF Button, memberVars
<1>2. CASE AutoChatButton(TuLing)
  BY <1>2, AutoChatKind, MarkSent DEF AutoChatButton, memberVars
<1>3. ASSUME NEW text, NEW kind \in FriendMenu \cup GroupMenu, MenuCommand(kind, text)
      PROVE  MarkInv'
  <2>1. /\ UNCHANGED <<nSelected, mClicked, mixed>>
        /\ \E ask, why : Send("ui", ask, Dialog(Command(kind, wxid, text)), why)
    BY <1>3 DEF MenuCommand, memberVars
  <2> QED
    BY <2>1, MenuCommandKind, MarkSent
<1>4. CASE OpenMembers
  <2>1. WndProc(Dialog(<<"ShowChatRoomUser", wxid>>)) = <<"ShowChatRoomUser", wxid>>
    BY DialogSingles DEF Singles
  <2>2. /\ mClicked' = 0
        /\ Send("ui", <<"ShowChatRoomUser", wxid>>, Dialog(<<"ShowChatRoomUser", wxid>>), {})
    BY <1>4 DEF OpenMembers
  <2>3. calls'["ui"].frame = Dialog(<<"ShowChatRoomUser", wxid>>)
    BY <2>2, SentAwaits
  <2>4. ~Deleting'
    BY <2>1, <2>3 DEF Deleting
  <2> QED
    BY <2>2, <2>4 DEF MarkInv
<1>5. CASE CloseMembers
  BY <1>5, MarkIdle DEF CloseMembers, Idling
<1> QED
  BY <1>1, <1>2, <1>3, <1>4, <1>5, MarkMember DEF UserCommands

\* A step after which the rows are as they have been.
KeepsRows == SameCall /\ SameRest /\ SameRows /\ wx' = wx /\ listed' = listed

LEMMA RowsKept ==
    ASSUME TalkInv, ListedInv, MemberInv, CallSteps, KeepsRows PROVE MemberInv' /\ ListedInv'
<1>1. GroupsIn(wx') /\ Distinct(listed')
  BY DEF ListedInv, KeepsRows
<1> QED
  BY <1>1, RowsStay, RestStep DEF KeepsRows, ListedInv

\* The user clicks and commands.
LEMMA RowsOfUser ==
    ASSUME TalkInv, ListedInv, MemberInv, UserCommands, CallSteps
    PROVE  MemberInv' /\ ListedInv'
<1>1. wx' = wx
  BY DEF UserCommands, Button, AutoChatButton, MenuCommand, MemberCommand, OpenMembers,
         CloseMembers, weChatVars
<1>2. listed' = listed \/ listed' = <<>>
  BY DEF UserCommands, Button, AutoChatButton, MenuCommand, MemberCommand, OpenMembers,
         CloseMembers, memberVars
<1>3. Distinct(listed')
  BY <1>2, NoListing DEF Distinct, ListedInv
<1>4. MemberInv'
  BY RowsAsked, RowsOpen, RowsClose DEF UserCommands
<1> QED
  BY <1>1, <1>3, <1>4, RestStep DEF ListedInv

LEMMA RowsInvStep ==
    DialogInv /\ ListedInv /\ MarkInv /\ MemberInv /\ [BridgeNext]_bridgeVars
        => ListedInv' /\ MemberInv'
<1> SUFFICES ASSUME DialogInv, ListedInv, MarkInv, MemberInv, [BridgeNext]_bridgeVars
             PROVE  ListedInv' /\ MemberInv'
  OBVIOUS
<1>1. /\ TalkInv /\ MemberMarks /\ TalkInv'
      /\ ~MainWindow => calls["ui"] = NoCall
  BY DialogStep DEF DialogInv, TalkMarks, KnowInv, Idling
<1>2. BridgeNext => CallSteps
  BY <1>1, CallsOfBridge DEF DialogInv
<1>3. UNCHANGED dialogVars => CallSteps /\ KeepsRows
  BY RestSame DEF dialogVars, CallSteps, KeepsRows, SameCall, SameRows
<1>4. CASE ComingUp \/ Starting
  <2>1. (RobotForgets /\ wx' = wx) \/ UNCHANGED dialogVars
    BY <1>4 DEF ComingUp, Starting, RobotSide, RobotEnds, Still, DialogsGone, weChatVars
  <2> QED
    BY <1>1, <1>3, <2>1, RowsGone, RowsKept
<1>5. CASE MainCloses \/ RobotBursts
  BY <1>5, RowsGone DEF MainCloses, RobotEnds, DialogsGone, RobotBursts, Burst, weChatVars
<1>6. CASE Welcome
  <2>1. wx' = wx /\ listed' = listed
    BY <1>6 DEF Welcome, weChatVars, memberVars
  <2>2. GroupsIn(wx') /\ Distinct(listed')
    BY <2>1 DEF ListedInv
  <2> QED
    BY <1>1, <1>2, <1>6, <2>2, RowsWelcome, RestStep DEF BridgeNext, ListedInv
<1>7. CASE \E a \in Account : LoginOf(a)
  <2>1. UNCHANGED <<calls, listings, weChatVars, memberVars>>
    BY <1>7 DEF LoginOf
  <2>2. KeepsRows
    BY <2>1, RestSame DEF KeepsRows, SameCall, SameRows, memberVars, weChatVars
  <2> QED
    BY <1>1, <1>2, <1>7, <2>2, RowsKept DEF BridgeNext
<1>8. CASE WeChatCloses
  <2>1. CASE HelperGone
    <3>1. /\ UNCHANGED <<calls, excuses, memberVars>> /\ listings' = <<>>
          /\ wx' = [wx EXCEPT !.autoChat = FALSE]
      BY <2>1 DEF HelperGone
    <3>2. GroupsIn(wx')
      BY <3>1, GroupsStay DEF ListedInv
    <3>3. SameCall /\ SameRest /\ SameRows /\ listed' = listed
      BY <3>1, RestSame DEF SameCall, SameRows, memberVars
    <3>4. MemberInv' /\ Distinct(listed')
      BY <3>3, RowsStay DEF ListedInv
    <3>5. RestInv'
      BY <3>1, NoListing DEF RestInv
    <3> QED
      BY <3>2, <3>4, <3>5 DEF ListedInv
  <2> QED
    BY <1>8, <2>1, RowsGone DEF WeChatCloses, DialogsGone, weChatVars
<1>9. CASE FriendsListed \/ Clicks \/ Downloading \/ Pictures \/ UNCHANGED bridgeVars
  <2>1. CASE UNCHANGED dialogVars
    BY <1>1, <1>3, <2>1, RowsKept
  <2>2. ASSUME NEW r, ClickMember(r) \/ RclickMember(r) PROVE ListedInv' /\ MemberInv'
    <3>1. UNCHANGED <<calls, listings, weChatVars, room, mRows, mIndex, listed, mixed, shifted,
                      misled>>
      BY <2>2 DEF ClickMember, RclickMember
    <3>2. KeepsRows /\ CallSteps
      BY <3>1, RestSame DEF KeepsRows, SameCall, SameRows, weChatVars, CallSteps
    <3> QED
      BY <1>1, <3>2, RowsKept
  <2> QED
    BY <1>9, <2>1, <2>2 DEF FriendsListed, Clicks, Downloading, Pictures, OnlyFriends,
                            bridgeVars
<1>10. CASE UserCommands
  BY <1>1, <1>2, <1>10, RowsOfUser DEF BridgeNext
<1>11. CASE ApiCommands
  <2>1. /\ calls'["ui"] = calls["ui"] /\ UNCHANGED <<listings, weChatVars, memberVars>>
    BY <1>1, <1>11 DEF ApiCommands, ApiCall, Send, TalkInv, CallInv, Caller
  <2>2. KeepsRows
    BY <2>1, RestSame DEF KeepsRows, SameCall, SameRows, memberVars, weChatVars
  <2> QED
    BY <1>1, <1>2, <1>11, <2>2, RowsKept DEF BridgeNext
<1>12. CASE Served
  <2>1. PICK c \in Caller : Serve(c, MainWindow)
    BY <1>12 DEF Served
  <2>2. MemberInv' /\ GroupsIn(wx') /\ Distinct(listed')
    BY <1>1, <2>1, RowsServed, ListedServed DEF DialogInv
  <2> QED
    BY <1>1, <1>2, <1>12, <2>2, RestStep DEF BridgeNext, ListedInv
<1>13. CASE Returning
  <2>1. MemberInv'
    BY <1>1, <1>13, RowsListed, RowsDone, RowsAbandoned DEF Returning
  <2> QED
    BY <1>1, <1>2, <1>13, <2>1, ListedReturns, RestStep DEF BridgeNext, ListedInv
<1> QED
  BY <1>4, <1>5, <1>6, <1>7, <1>8, <1>9, <1>10, <1>11, <1>12, <1>13 DEF BridgeNext

LEMMA MarkInvStep ==
    DialogInv /\ ListedInv /\ MarkInv /\ [BridgeNext]_bridgeVars => MarkInv'
<1> SUFFICES ASSUME DialogInv, ListedInv, MarkInv, [BridgeNext]_bridgeVars PROVE MarkInv'
  OBVIOUS
<1>1. TalkInv /\ MemberMarks
  BY DEF DialogInv, TalkMarks
<1>2. ASSUME UNCHANGED <<calls, excuses, memberVars>> PROVE MarkInv'
  BY <1>2, MarkStays DEF SameCall, memberVars
<1>3. ASSUME RobotForgets PROVE MarkInv'
  BY <1>3, MarkIdle DEF RobotForgets, Idling, Caller
<1>4. UNCHANGED dialogVars => UNCHANGED <<calls, excuses, memberVars>>
  BY DEF dialogVars, weChatVars, memberVars
<1>5. CASE ComingUp \/ Starting
  <2>1. RobotForgets \/ UNCHANGED dialogVars
    BY <1>5 DEF ComingUp, Starting, RobotSide, RobotEnds, Still, DialogsGone
  <2> QED
    BY <1>2, <1>3, <1>4, <2>1
<1>6. CASE MainCloses \/ RobotBursts
  BY <1>3, <1>6 DEF MainCloses, RobotEnds, DialogsGone, RobotBursts, Burst
<1>7. CASE Welcome
  <2>1. UNCHANGED <<nSelected, mClicked, mRows, mixed, misled, excuses>>
    BY <1>7 DEF Welcome, memberVars, weChatVars
  <2>2. CASE UNCHANGED calls
    BY <1>2, <1>7, <2>2 DEF Welcome, weChatVars
  <2>3. ASSUME NEW frame, frame.code = "WM_GetInformation",
               Send("ui", <<"GetInformation">>, frame, {})
        PROVE  MarkInv'
    <3>1. WndProc(frame) = <<"GetInformation">>
      BY <2>3, FirstCommands
    <3> QED
      BY <1>1, <2>1, <2>3, <3>1, MarkSent
  <2>4. \A frame \in Api(<<"GetInformation">>) : frame.code = "WM_GetInformation"
    BY DEF Api, GetPrivateInfo, Bare
  <2> QED
    BY <1>7, <2>2, <2>3, <2>4 DEF Welcome
<1>8. CASE WeChatCloses \/ \E a \in Account : LoginOf(a)
  <2>1. RobotForgets \/ UNCHANGED <<calls, excuses, memberVars>>
    BY <1>8 DEF WeChatCloses, HelperGone, DialogsGone, LoginOf, weChatVars
  <2> QED
    BY <1>2, <1>3, <2>1
<1>9. CASE FriendsListed \/ Clicks \/ Downloading \/ Pictures \/ UNCHANGED bridgeVars
  <2>1. CASE UNCHANGED dialogVars
    BY <1>2, <1>4, <2>1
  <2>2. ASSUME NEW r, ClickMember(r) PROVE MarkInv'
    <3>1. Idling("ui")' /\ nSelected' = r /\ mClicked' = r
      BY <2>2 DEF ClickMember, Idling
    <3> QED
      BY <3>1, MarkIdle
  <2>3. ASSUME NEW r, RclickMember(r) PROVE MarkInv'
    BY <2>3, MarkStays DEF RclickMember, SameCall, weChatVars
  <2> QED
    BY <1>9, <2>1, <2>2, <2>3 DEF FriendsListed, Clicks, Downloading, Pictures, OnlyFriends,
                                  bridgeVars
<1>10. CASE UserCommands
  BY <1>1, <1>10, MarkOfUser
<1>11. CASE ApiCommands
  <2>1. /\ calls'["ui"] = calls["ui"] /\ UNCHANGED <<weChatVars, memberVars>>
    BY <1>1, <1>11 DEF ApiCommands, ApiCall, Send, TalkInv, CallInv, Caller
  <2> QED
    BY <2>1, MarkStays DEF SameCall, memberVars, weChatVars
<1>12. CASE Served
  BY <1>1, <1>12, MarkServed DEF Served
<1>13. CASE Returning
  BY <1>1, <1>13, MarkReturns
<1> QED
  BY <1>5, <1>6, <1>7, <1>8, <1>9, <1>10, <1>11, <1>12, <1>13 DEF BridgeNext

LEMMA RowsInvInit == BridgeInit => ListedInv /\ MarkInv /\ MemberInv
<1> SUFFICES ASSUME BridgeInit PROVE ListedInv /\ MarkInv /\ MemberInv
  OBVIOUS
<1>1. DialogState
  BY DEF BridgeInit, AtWork
<1>2. MarkInv
  BY <1>1 DEF DialogState, MarkInv, Awaits, Listing, Deleting, Idling, Caller
<1> QED
  BY <1>1, <1>2, RowsBegin

\* However many lists of members have been asked for, by the dialog, the handlers and
\* the workers, broken off or served in between: a dialog that waits for nothing shows
\* the members of its group, each once and in WeChat's order, less those WeChat was told
\* to delete, unless rows of another list or a look-up have been posted to it, a member
\* was deleted by a row not clicked last or by a wxid cut to 20 characters, or WeChat
\* closed.
THEOREM RowsAreTheMembers == BridgeSpec => []RowsAreMembers
<1>1. MemberInv => RowsAreMembers
  BY DEF MemberInv, ShownInv, RowsAreMembers, Awaits, Listing
<1> QED
  BY <1>1, DialogInit, DialogStep, RowsInvInit, RowsInvStep, MarkInvStep, PTL DEF BridgeSpec
-----------------------------------------------------------------------------
(* Types. *)

\* Code that has been hooked has been saved: SaveImg has something to put back.
CodeTypes ==
    /\ qr \in [code : {"call", "jump"}, back : {"zero", "call", "jump"}, file : BOOLEAN]
    /\ qr.code = "jump" => qr.back # "zero"
WindowTypes ==
    /\ wechat \in {"closed", "loggedOut", "loggedIn"}
    /\ version \in BOOLEAN /\ own \in BOOLEAN
    /\ helper \in {"none", "loaded", "hooking", "hooked", "window", "refused"}
    /\ watcher \in {"none", "looking", "calling", "ended"}
    /\ robot \in {"off", "injecting", "injected", "login", "main"}
    /\ starts \in Nat /\ alone \subseteq {"repeat", "notLoaded", "early", "version", "closed"}

LEMMA StartupTypesBegin == BridgeInit => CodeTypes /\ WindowTypes
<1> SUFFICES ASSUME BridgeInit PROVE CodeTypes /\ WindowTypes
  OBVIOUS
<1>1. qr = Unhooked => CodeTypes
  BY DEF Unhooked, CodeTypes
<1>2. ASSUME NEW s \in Scenes, AtWork(s.rows) PROVE CodeTypes /\ WindowTypes
  <2>1. /\ wechat = "loggedIn" /\ version = TRUE /\ helper = "window" /\ watcher = "calling"
        /\ robot = "main" /\ own = FALSE /\ qr = Unhooked /\ starts = 1 /\ alone = {}
    BY <1>2 DEF AtWork
  <2> QED
    BY <1>1, <2>1 DEF WindowTypes
<1>3. CASE StartupInit
  BY <1>1, <1>3 DEF StartupInit, WindowTypes
<1> QED
  BY <1>2, <1>3 DEF BridgeInit

LEMMA CodeTypesStep == CodeTypes /\ (Startups \/ UNCHANGED startupVars) => CodeTypes'
<1> SUFFICES ASSUME CodeTypes, Startups \/ UNCHANGED startupVars PROVE CodeTypes'
  OBVIOUS
<1>1. CASE UNCHANGED qr
  BY <1>1 DEF CodeTypes
<1>2. CASE WeChatGone
  BY <1>2 DEF WeChatGone, Unhooked, CodeTypes
<1>3. CASE HookQrCode
  BY <1>3 DEF HookQrCode, CodeTypes
<1>4. CASE ShowPicture \/ SaveImg
  BY <1>4 DEF ShowPicture, SaveImg, CodeTypes
<1>5. UNCHANGED qr \/ WeChatGone \/ HookQrCode \/ ShowPicture \/ SaveImg
  BY DEF Startups, startupVars, StartRobot, OpenWeChat, AlreadyInjected, LoadHelper,
         LoadFails, InjectFails, OpenLogin, InitWindow, SetHooks, RegisterWindow,
         CheckIsLogin, CloseLogin, CloseMain, RobotDies, ShowQrPicture, Login,
         LogoutWeChat, ReopenWeChat, ExitWeChat
<1> QED
  BY <1>1, <1>2, <1>3, <1>4, <1>5

LEMMA WindowTypesStep == WindowTypes /\ (Startups \/ UNCHANGED startupVars) => WindowTypes'
<1> SUFFICES ASSUME WindowTypes, Startups \/ UNCHANGED startupVars PROVE WindowTypes'
  OBVIOUS
<1> USE DEF WindowTypes
<1>1. CASE UNCHANGED startupVars
  BY <1>1 DEF startupVars
<1>2. CASE StartRobot
  <2>1. starts' \in Nat
    BY <1>2 DEF StartRobot
  <2>2. own' \in BOOLEAN
    BY <1>2, Zenon DEF StartRobot
  <2> QED
    BY <1>2, <2>1, <2>2 DEF StartRobot
<1>3. CASE OpenWeChat \/ AlreadyInjected \/ LoadHelper \/ LoadFails \/ InjectFails
  BY <1>3 DEF OpenWeChat, AlreadyInjected, LoadHelper, LoadFails, InjectFails
<1>4. CASE OpenLogin \/ SetHooks \/ RegisterWindow
  BY <1>4 DEF OpenLogin, SetHooks, RegisterWindow
<1>5. CASE RobotDies
  BY <1>5 DEF RobotDies
<1>6. CASE InitWindow
  BY <1>6 DEF InitWindow
<1>7. CASE CheckIsLogin
  BY <1>7 DEF CheckIsLogin
<1>8. CASE CloseLogin \/ ExitWeChat
  BY <1>8 DEF CloseLogin, ExitWeChat, WeChatGone
<1>9. CASE ShowQrPicture \/ ShowPicture \/ SaveImg
  BY <1>9 DEF ShowQrPicture, ShowPicture, SaveImg
<1>10. CASE Login \/ LogoutWeChat \/ ReopenWeChat
  BY <1>10 DEF Login, LogoutWeChat, ReopenWeChat
<1>11. CASE HookQrCode /\ UNCHANGED <<wechat, version, helper, watcher, robot, own,
                                      starts, alone>>
  BY <1>11
<1> QED
  BY <1>1, <1>2, <1>3, <1>4, <1>5, <1>6, <1>7, <1>8, <1>9, <1>10, <1>11 DEF Startups,
     CloseMain

\* What WeChat has listed, the robot knows and its rows show are friends.
FriendSets ==
    /\ userInfoList \subseteq Friend /\ mapFriendList \subseteq Friend
    /\ rows \in Seq(Friend \cup {NoText}) /\ deleted \subseteq Friend \cup {NoText}
    /\ wxid \in {Cut(id) : id \in Friend \cup {NoText}}

LEMMA ListsGrowByFriends ==
    BridgeNext => /\ userInfoList' \subseteq userInfoList \cup Friend
                  /\ mapFriendList' \subseteq mapFriendList \cup Friend
<1> SUFFICES ASSUME BridgeNext
             PROVE  /\ userInfoList' \subseteq userInfoList \cup Friend
                    /\ mapFriendList' \subseteq mapFriendList \cup Friend
  OBVIOUS
<1>1. /\ UNCHANGED friendVars => UNCHANGED <<userInfoList, mapFriendList>>
      /\ UNCHANGED robotFriendVars => UNCHANGED mapFriendList
      /\ UNCHANGED helperFriendVars => UNCHANGED userInfoList
  BY DEF friendVars, robotFriendVars, helperFriendVars
<1>2. CASE ComingUp \/ Starting \/ Welcome \/ WeChatCloses \/ MainCloses \/ RobotBursts
           \/ \E a \in Account : LoginOf(a)
  BY <1>1, <1>2 DEF ComingUp, Starting, Welcome, WeChatCloses, MainCloses, RobotBursts,
                    LoginOf, Still, RobotSide, RobotEnds, FriendsForgotten, ListForgotten
<1>3. CASE FriendsListed
  <2>1. ASSUME NEW f \in Friend, ListFriend(f, MainWindow, starts)
               \/ ReSendUser(f, MainWindow, starts)
               \/ \E k \in 1 .. starts : SendFriend(f, k, MainWindow, starts)
        PROVE  /\ userInfoList' \subseteq userInfoList \cup Friend
               /\ mapFriendList' \subseteq mapFriendList \cup Friend
    <3>1. userInfoList' \subseteq userInfoList \cup Friend
      BY <2>1 DEF ListFriend, ReSendUser, SendFriend
    <3>2. \/ UNCHANGED robotFriendVars
          \/ mapFriendList' = mapFriendList \cup {f}
      BY <2>1 DEF ListFriend, ReSendUser, SendFriend, TellRobot
    <3> QED
      BY <1>1, <3>1, <3>2
  <2> QED
    BY <1>3, <2>1 DEF FriendsListed
<1>4. CASE Clicks \/ UserCommands \/ ApiCommands \/ Served \/ Returning
  BY <1>1, <1>4, ClicksMark, CommandsMark, ServedMarks, ReturningMarks DEF Marks
<1>5. CASE Downloading \/ Pictures
  BY <1>1, <1>5 DEF Downloading, Pictures
<1> QED
  BY <1>2, <1>3, <1>4, <1>5 DEF BridgeNext

LEMMA InsertedAmong ==
    ASSUME NEW S, NEW s \in Seq(S), NEW n \in Nat, NEW x \in S, NoText \in S
    PROVE  Inserted(s, n, x) \in Seq(S)
<1>1. Len(s) \in Nat
  BY LenProperties
<1>2. CASE n <= Len(s)
  <2> DEFINE a == SubSeq(s, 1, (n + 1) - 1)
             b == SubSeq(s, n + 1, Len(s))
  <2>1. a \in Seq(S) /\ b \in Seq(S) /\ <<x>> \in Seq(S)
    BY <1>1, <1>2
  <2>2. Inserted(s, n, x) = a \o <<x>> \o b
    BY <1>2 DEF Inserted, InsertAt
  <2> HIDE DEF a, b
  <2> QED
    BY <2>1, <2>2
<1>3. CASE ~(n <= Len(s))
  BY <1>3 DEF Inserted
<1> QED
  BY <1>2, <1>3

LEMMA FriendSetsBegin == BridgeInit => FriendSets
<1> SUFFICES ASSUME BridgeInit PROVE FriendSets
  OBVIOUS
<1>1. PICK s \in Scenes : IF s.up THEN AtWork(s.rows) ELSE StartupInit /\ FriendInit
  BY DEF BridgeInit
<1>2. NoText = Cut(NoText)
  BY ShortenedAssumption DEF Cut
<1>3. CASE s.up
  <2>1. /\ userInfoList = ToSet(s.rows) /\ mapFriendList = ToSet(s.rows) /\ rows = s.rows
        /\ wxid = NoText /\ deleted = {}
    BY <1>1, <1>3 DEF AtWork
  <2>2. s.rows \in Seq(Friend)
    BY SceneAssumption
  <2>3. ToSet(s.rows) \subseteq Friend /\ s.rows \in Seq(Friend \cup {NoText})
    BY <2>2 DEF ToSet
  <2> QED
    BY <1>2, <2>1, <2>3 DEF FriendSets
<1>4. CASE ~s.up
  BY <1>1, <1>2, <1>4, EmptySeq DEF FriendInit, FriendSets
<1> QED
  BY <1>3, <1>4

LEMMA FriendSetsStep ==
    ASSUME FriendSets, RowMarks, BridgeNext PROVE FriendSets'
<1> DEFINE Texts0 == Friend \cup {NoText}
<1>1. /\ userInfoList' \subseteq Friend /\ mapFriendList' \subseteq Friend
  BY ListsGrowByFriends DEF FriendSets
<1>2. /\ rows \in Seq(Texts0) /\ Len(rows) \in Nat /\ DOMAIN rows = 1 .. Len(rows)
      /\ deleted \subseteq Texts0
      /\ \A r \in 1 .. Len(rows) : rows[r] \in Texts0
      /\ wxid \in {Cut(id) : id \in Texts0}
      /\ dwIndex \in Nat /\ selected \in 0 .. Len(rows)
  BY DEF FriendSets, RowMarks
<1> SUFFICES /\ rows' \in Seq(Texts0) /\ deleted' \subseteq Texts0
             /\ wxid' \in {Cut(id) : id \in Texts0}
  BY <1>1 DEF FriendSets
<1> HIDE DEF Texts0
<1>3. NoText = Cut(NoText) /\ NoText \in Texts0 /\ Friend \subseteq Texts0
  BY ShortenedAssumption DEF Cut, Texts0
<1>4. CASE FriendsForgotten
  BY <1>3, <1>4, EmptySeq DEF FriendsForgotten
<1>5. CASE UNCHANGED robotFriendVars
  BY <1>2, <1>5 DEF robotFriendVars
<1>6. ASSUME NEW f \in Friend, TellRobot(f, starts)
      PROVE  /\ rows' \in Seq(Texts0) /\ deleted' \subseteq Texts0
             /\ wxid' \in {Cut(id) : id \in Texts0}
  <2>1. Inserted(rows, dwIndex, f) \in Seq(Texts0)
    BY <1>2, <1>3, InsertedAmong
  <2> QED
    BY <1>2, <1>6, <2>1 DEF TellRobot
<1>7. CASE \E r \in DOMAIN rows : ClickFriend(r) \/ RclickFriend(r)
  BY <1>2, <1>7 DEF ClickFriend, RclickFriend
<1>8. CASE DeleteRow /\ UNCHANGED <<dwIndex, wxid>>
  <2>1. CASE selected = 0
    BY <1>2, <1>8, <2>1 DEF DeleteRow
  <2>2. CASE selected # 0
    <3>1. /\ rows' = RemoveAt(rows, selected) /\ deleted' = deleted \cup {rows[selected]}
      BY <1>8, <2>2, ZenonT(40) DEF DeleteRow
    <3>2. SubSeq(rows, 1, selected - 1) \in Seq(Texts0)
          /\ SubSeq(rows, selected + 1, Len(rows)) \in Seq(Texts0)
      BY <1>2, <2>2
    <3>3. RemoveAt(rows, selected) \in Seq(Texts0)
      BY <3>2 DEF RemoveAt
    <3>4. rows[selected] \in Texts0
      BY <1>2, <2>2
    <3> QED
      BY <1>2, <1>8, <3>1, <3>3, <3>4
  <2> QED
    BY <2>1, <2>2
<1> QED
  BY <1>4, <1>5, <1>6, <1>7, <1>8, RowsOfBridge DEF RowSteps

\* A call that waits has none but the six reasons to go wrong.
Reasons == {"stale", "cut", "long", "type", "rename", "gone"}
WhyInv == \A c \in Caller : ~Idling(c) => calls[c].why \subseteq Reasons

WhySteps ==
    \/ UNCHANGED calls \/ RobotForgets
    \/ \E c : calls' = [calls EXCEPT ![c] = NoCall]
    \/ \E c : ~Idling(c) /\ calls' = [calls EXCEPT ![c].listing = TRUE]
    \/ \E c, ask, frame, why : why \subseteq Reasons /\ Send(c, ask, frame, why)

LEMMA WhyStep == ASSUME WhyInv, CallInv, WhySteps PROVE WhyInv'
<1> USE DEF WhyInv
<1>1. calls = [c \in Caller |-> calls[c]] /\ \A c \in Caller : ~Idling(c) => Whole(calls[c])
  BY DEF CallInv
<1>2. CASE UNCHANGED calls
  BY <1>2 DEF Idling
<1>3. CASE RobotForgets
  BY <1>3 DEF RobotForgets, Idling
<1>4. ASSUME NEW c, calls' = [calls EXCEPT ![c] = NoCall] PROVE WhyInv'
  BY <1>1, <1>4 DEF Idling
<1>5. ASSUME NEW c, ~Idling(c), calls' = [calls EXCEPT ![c].listing = TRUE] PROVE WhyInv'
  <2>1. ASSUME NEW d \in Caller, ~Idling(d)' PROVE calls'[d].why \subseteq Reasons
    <3>1. CASE d # c
      BY <1>1, <1>5, <2>1, <3>1 DEF Idling
    <3>2. CASE d = c
      <4>1. calls'[d] = [calls[d] EXCEPT !.listing = TRUE] /\ Whole(calls[d])
        BY <1>1, <1>5, <3>2
      <4>2. calls'[d].why = calls[d].why
        BY <4>1 DEF Whole
      <4> QED
        BY <1>5, <3>2, <4>2
    <3> QED
      BY <3>1, <3>2
  <2> QED
    BY <2>1
<1>6. ASSUME NEW c, NEW ask, NEW frame, NEW why, why \subseteq Reasons,
             Send(c, ask, frame, why)
      PROVE  WhyInv'
  <2> DEFINE long == why \cup (IF Spills(frame) THEN {"long"} ELSE {})
             call == [ask |-> ask, frame |-> frame, listing |-> FALSE, why |-> long]
  <2>1. long \subseteq Reasons /\ call.why = long
    BY <1>6 DEF Reasons
  <2>2. calls' = [calls EXCEPT ![c] = call]
    BY <1>6 DEF Send
  <2> HIDE DEF long, call
  <2>3. ASSUME NEW d \in Caller, ~Idling(d)' PROVE calls'[d].why \subseteq Reasons
    <3>1. CASE d = c
      BY <1>1, <2>1, <2>2, <3>1
    <3>2. CASE d # c
      BY <1>1, <2>2, <2>3, <3>2 DEF Idling
    <3> QED
      BY <3>1, <3>2
  <2> QED
    BY <2>3
<1> QED
  BY <1>2, <1>3, <1>4, <1>5, <1>6 DEF WhySteps

LEMMA WhysOfBridge == ASSUME BridgeNext, TalkInv PROVE WhySteps
<1>1. UNCHANGED dialogVars => UNCHANGED calls
  BY DEF dialogVars
<1>2. CASE ComingUp \/ Starting \/ WeChatCloses \/ MainCloses \/ RobotBursts
           \/ \E a \in Account : LoginOf(a)
  BY <1>1, <1>2 DEF ComingUp, Starting, WeChatCloses, MainCloses, RobotBursts, LoginOf,
                    Still, RobotSide, RobotEnds, DialogsGone, Burst, HelperGone, WhySteps
<1>3. CASE Welcome
  <2>1. UNCHANGED calls \/ \E cmd, frame : Send("ui", cmd, frame, {})
    BY <1>3 DEF Welcome
  <2> QED
    BY <2>1 DEF WhySteps
<1>4. CASE FriendsListed \/ Clicks \/ Downloading \/ Pictures
  BY <1>1, <1>4 DEF FriendsListed, Clicks, Downloading, Pictures, OnlyFriends, ClickMember,
                    RclickMember, WhySteps
<1>5. CASE UserCommands
  <2>1. \A fresh, id : Doubt(fresh, id) \subseteq Reasons
    BY DEF Doubt, Reasons
  <2>2. CASE \/ \E text \in Typed : \E cmd \in Buttons(text) : Button(cmd)
             \/ AutoChatButton(TuLing) \/ OpenMembers \/ CloseMembers
    BY <2>2 DEF Button, AutoChatButton, OpenMembers, CloseMembers, WhySteps
  <2>3. ASSUME NEW kind, NEW text, MenuCommand(kind, text) \/ MemberCommand(kind, text)
        PROVE  WhySteps
    BY <2>1, <2>3 DEF MenuCommand, MemberCommand, WhySteps
  <2> QED
    BY <1>5, <2>2, <2>3 DEF UserCommands
<1>6. CASE ApiCommands
  <2>1. PICK cmd \in ApiCommand : ApiCall(cmd)
    BY <1>6 DEF ApiCommands
  <2> DEFINE why == {w \in {"type", "rename"} : \/ w = "type" /\ cmd[1] = "?"
                                                \/ w = "rename" /\ cmd[1] = "SetRoomName"}
  <2>2. PICK frame : Send("api", cmd, frame, why)
    BY <2>1 DEF ApiCall
  <2>3. why \subseteq Reasons
    BY DEF Reasons
  <2> HIDE DEF why
  <2> QED
    BY <2>2, <2>3 DEF WhySteps
<1>7. ASSUME HelperWindow, NEW c \in Caller, Serve(c, MainWindow) PROVE WhySteps
  <2>1. CASE WndProc(calls[c].frame)[1] = "ShowChatRoomUser"
    BY <1>7, <2>1 DEF Serve, WhySteps
  <2>2. CASE WndProc(calls[c].frame)[1] # "ShowChatRoomUser"
    <3>1. Return(c)
      BY <1>7, <2>2 DEF Serve
    <3> QED
      BY <3>1 DEF Return, WhySteps
  <2> QED
    BY <2>1, <2>2
<1>8. CASE Returning
  <2>1. CASE ListMember
    BY <2>1 DEF ListMember, WhySteps
  <2>2. CASE ListingDone \/ \E c \in Caller : Abandoned(c)
    <3>1. \E c : calls' = [calls EXCEPT ![c] = NoCall]
      BY <2>2 DEF ListingDone, Abandoned, Return
    <3> QED
      BY <3>1 DEF WhySteps
  <2> QED
    BY <1>8, <2>1, <2>2 DEF Returning
<1> QED
  BY <1>2, <1>3, <1>4, <1>5, <1>6, <1>7, <1>8 DEF BridgeNext, Served

\* The member dialog, and who is logged in.
PageTypes ==
    /\ room \in {NoRoom} \cup Group /\ nSelected \in Nat
    /\ mixed \in BOOLEAN /\ shifted \in BOOLEAN /\ misled \in BOOLEAN
PersonTypes ==
    /\ account \in Account /\ me \in Account \cup {NoText} /\ bAutoChat \in BOOLEAN
    /\ spilt \in BOOLEAN
    /\ late \in BOOLEAN /\ relogged \in BOOLEAN

LEMMA DialogTypesBegin ==
    BridgeInit => WhyInv /\ excuses = {} /\ PageTypes /\ PersonTypes
<1> SUFFICES ASSUME BridgeInit PROVE WhyInv /\ excuses = {} /\ PageTypes /\ PersonTypes
  OBVIOUS
<1>1. DialogState /\ (me = account \/ me = NoText) /\ late = FALSE /\ relogged = FALSE
  BY DEF BridgeInit, AtWork
<1>2. WhyInv /\ excuses = {}
  BY <1>1 DEF DialogState, WhyInv, Idling
<1>3. PageTypes
  BY <1>1 DEF DialogState, PageTypes
<1>4. PersonTypes
  BY <1>1 DEF DialogState, PersonTypes
<1> QED
  BY <1>2, <1>3, <1>4

LEMMA ExcusesOfBridge ==
    ASSUME BridgeNext, WhyInv, excuses \subseteq Reasons PROVE excuses' \subseteq Reasons
<1>1. /\ UNCHANGED dialogVars => UNCHANGED excuses
      /\ UNCHANGED weChatVars => UNCHANGED excuses
  BY DEF dialogVars, weChatVars
<1>2. CASE ComingUp \/ Starting \/ Welcome \/ WeChatCloses \/ MainCloses
           \/ \E a \in Account : LoginOf(a)
  BY <1>1, <1>2 DEF ComingUp, Starting, Welcome, WeChatCloses, MainCloses, LoginOf, Still,
                    RobotSide, RobotEnds, HelperGone, DialogsGone
<1>3. CASE RobotBursts
  BY <1>3 DEF RobotBursts, Burst, Reasons
<1>4. CASE FriendsListed \/ Clicks \/ Downloading \/ Pictures
  BY <1>1, <1>4 DEF FriendsListed, Clicks, Downloading, Pictures, OnlyFriends, ClickMember,
                    RclickMember
<1>5. CASE UserCommands \/ ApiCommands
  BY <1>1, <1>5 DEF UserCommands, ApiCommands, Button, AutoChatButton, MenuCommand,
         MemberCommand, OpenMembers, CloseMembers, ApiCall
<1>6. ASSUME NEW c \in Caller, Serve(c, MainWindow) \/ Abandoned(c)
      PROVE  excuses' \subseteq Reasons
  <2>1. excuses' \subseteq excuses \cup {"gone"} \cup calls[c].why /\ ~Idling(c)
    BY <1>6 DEF Serve, Abandoned
  <2> QED
    BY <2>1 DEF WhyInv, Reasons
<1>7. CASE Returning
  BY <1>1, <1>6, <1>7 DEF Returning, ListMember, ListingDone
<1> QED
  BY <1>2, <1>3, <1>4, <1>5, <1>6, <1>7 DEF BridgeNext, Served

LEMMA PageTypesStep == ASSUME BridgeNext, PageTypes, MemberMarks PROVE PageTypes'
<1>1. /\ UNCHANGED dialogVars => UNCHANGED <<room, nSelected, mixed, shifted, misled>>
      /\ UNCHANGED memberVars => UNCHANGED <<room, nSelected, mixed, shifted, misled>>
      /\ UNCHANGED <<room, nSelected, mixed, shifted, misled>> => PageTypes'
  BY DEF dialogVars, memberVars, PageTypes
<1>2. ASSUME RobotForgets PROVE PageTypes'
  BY <1>2 DEF RobotForgets, PageTypes
<1>3. CASE ComingUp \/ Starting \/ Welcome \/ WeChatCloses \/ MainCloses \/ RobotBursts
           \/ \E a \in Account : LoginOf(a)
  BY <1>1, <1>2, <1>3 DEF ComingUp, Starting, Welcome, WeChatCloses, MainCloses, RobotBursts,
                          LoginOf, Still, RobotSide, RobotEnds, DialogsGone, Burst, HelperGone
<1>4. CASE FriendsListed \/ Downloading \/ Pictures
  BY <1>1, <1>4 DEF FriendsListed, Downloading, Pictures, OnlyFriends
<1>5. CASE Clicks
  <2>1. ASSUME NEW r \in DOMAIN mRows, ClickMember(r) \/ RclickMember(r) PROVE PageTypes'
    <3>1. r \in Nat
      BY Sequences DEF MemberMarks
    <3> QED
      BY <2>1, <3>1 DEF ClickMember, RclickMember, PageTypes
  <2> QED
    BY <1>1, <1>5, <2>1 DEF Clicks, OnlyFriends
<1>6. CASE UserCommands \/ ApiCommands
  <2>1. CASE OpenMembers \/ CloseMembers
    BY <2>1 DEF OpenMembers, CloseMembers, PageTypes
  <2>2. ASSUME NEW kind, NEW text, MemberCommand(kind, text) PROVE PageTypes'
    <3>1. UNCHANGED <<room, nSelected, mixed, shifted>>
      BY <2>2 DEF MemberCommand
    <3>2. misled' \in BOOLEAN
      BY <2>2 DEF MemberCommand, PageTypes
    <3> QED
      BY <3>1, <3>2 DEF PageTypes
  <2>3. ASSUME NEW kind, NEW text, MenuCommand(kind, text) PROVE PageTypes'
    BY <1>1, <2>3 DEF MenuCommand
  <2>4. ASSUME NEW cmd, Button(cmd) \/ ApiCall(cmd) PROVE PageTypes'
    BY <1>1, <2>4 DEF Button, ApiCall
  <2>5. CASE AutoChatButton(TuLing)
    BY <1>1, <2>5 DEF AutoChatButton
  <2> QED
    BY <1>6, <2>1, <2>2, <2>3, <2>4, <2>5 DEF UserCommands, ApiCommands
<1>7. ASSUME NEW who, NEW mine \in BOOLEAN, ShowMember(who, mine) PROVE PageTypes'
  BY <1>1, <1>7 DEF ShowMember, PageTypes
<1>8. ASSUME NEW mine \in BOOLEAN, MembersDone(mine) PROVE PageTypes'
  BY <1>1, <1>8 DEF MembersDone, PageTypes
<1>9. ASSUME NEW left, DeleteMember(left) PROVE PageTypes'
  BY <1>1, <1>9 DEF DeleteMember
<1>10. ASSUME NEW c \in Caller, Serve(c, MainWindow) PROVE PageTypes'
  <2>1. CASE WndProc(calls[c].frame)[1] = "ShowChatRoomUser"
    <3>1. UNCHANGED <<room, mRows, mIndex, memberwxid, nSelected, marked, mClicked, mixed,
                      shifted, misled>>
      BY <1>10, <2>1 DEF Serve
    <3> QED
      BY <1>1, <3>1
  <2>2. CASE WndProc(calls[c].frame)[1] # "ShowChatRoomUser"
    <3>1. \/ UNCHANGED memberVars \/ \E left : DeleteMember(left)
          \/ \E who : ShowMember(who, FALSE)
      BY <1>10, <2>2 DEF Serve
    <3> QED
      BY <1>1, <1>7, <1>9, <3>1
  <2> QED
    BY <2>1, <2>2
<1>11. CASE Returning
  <2>1. \A l : Own(l) \in BOOLEAN
    BY DEF Own
  <2>2. CASE ListMember
    BY <1>7, <2>1, <2>2 DEF ListMember
  <2>3. CASE ListingDone
    BY <1>8, <2>1, <2>3 DEF ListingDone
  <2>4. ASSUME NEW c, Abandoned(c) PROVE PageTypes'
    BY <1>1, <1>9, <2>4 DEF Abandoned
  <2> QED
    BY <1>11, <2>2, <2>3, <2>4 DEF Returning
<1> QED
  BY <1>3, <1>4, <1>5, <1>6, <1>10, <1>11 DEF BridgeNext, Served

LEMMA PersonTypesStep == ASSUME BridgeNext, PersonTypes PROVE PersonTypes'
<1>1. /\ UNCHANGED dialogVars => UNCHANGED <<account, me, bAutoChat, spilt>>
      /\ UNCHANGED records => UNCHANGED <<late, relogged>>
      /\ UNCHANGED <<account, me, bAutoChat, spilt, late, relogged>> => PersonTypes'
  BY DEF dialogVars, records, PersonTypes
<1>2. ASSUME RobotForgets, UNCHANGED <<late, relogged>> PROVE PersonTypes'
  BY <1>2 DEF RobotForgets, PersonTypes
<1>3. CASE ComingUp \/ Starting \/ WeChatCloses \/ MainCloses \/ RobotBursts
  BY <1>1, <1>2, <1>3 DEF ComingUp, Starting, WeChatCloses, MainCloses, RobotBursts, Still,
                          RobotSide, RobotEnds, DialogsGone, Burst, HelperGone
<1>4. ASSUME NEW c, NEW ask, NEW frame, NEW why, Send(c, ask, frame, why)
      PROVE  spilt' \in BOOLEAN
  BY <1>4 DEF Send, Overruns, PersonTypes
<1>5. CASE Welcome
  <2>1. late' \in BOOLEAN /\ relogged' \in BOOLEAN
    BY <1>1, <1>5 DEF Welcome, PersonTypes
  <2>2. spilt' = spilt \/ \E cmd, frame : Send("ui", cmd, frame, {})
    BY <1>5 DEF Welcome
  <2>3. UNCHANGED <<account, me, bAutoChat>>
    BY <1>5 DEF Welcome
  <2> QED
    BY <1>4, <2>1, <2>2, <2>3 DEF PersonTypes
<1>6. ASSUME NEW a \in Account, LoginOf(a) PROVE PersonTypes'
  BY <1>6 DEF LoginOf, PersonTypes
<1>7. CASE FriendsListed \/ Downloading \/ Pictures
  BY <1>1, <1>7 DEF FriendsListed, Downloading, Pictures, OnlyFriends, OnlyDialogs,
                    NotStarting
<1>8. CASE Clicks
  BY <1>1, <1>8 DEF Clicks, OnlyFriends, OnlyDialogs, NotStarting, ClickMember,
                    RclickMember
<1>9. CASE UserCommands \/ ApiCommands
  <2>1. UNCHANGED <<late, relogged>>
    BY <1>1, <1>9 DEF UserCommands, ApiCommands, OnlyDialogs, NotStarting
  <2>2. UNCHANGED <<account, me>> /\ bAutoChat' \in {bAutoChat, ~bAutoChat}
    BY <1>9 DEF UserCommands, ApiCommands, Button, AutoChatButton, MenuCommand,
                MemberCommand, OpenMembers, CloseMembers, ApiCall
  <2>3. spilt' = spilt \/ \E c, ask, frame, why : Send(c, ask, frame, why)
    BY <1>9 DEF UserCommands, ApiCommands, Button, AutoChatButton, MenuCommand,
                MemberCommand, OpenMembers, CloseMembers, ApiCall
  <2> QED
    BY <1>4, <2>1, <2>2, <2>3 DEF PersonTypes
<1>10. CASE Served
  <2>1. UNCHANGED <<late, relogged, bAutoChat, spilt, account>> /\ me' \in {me, account}
    BY <1>1, <1>10 DEF Served, Serve, KeepTheFirst
  <2> QED
    BY <2>1 DEF PersonTypes
<1>11. CASE Returning
  BY <1>1, <1>11 DEF Returning, ListMember, ListingDone, Abandoned, OnlyDialogs, NotStarting
<1> QED
  BY <1>3, <1>5, <1>6, <1>7, <1>8, <1>9, <1>10, <1>11 DEF BridgeNext

\* All of the types, with the invariants they follow from.
TypeInv ==
    /\ CodeTypes /\ WindowTypes /\ FriendInv /\ FriendSets /\ DialogInv /\ WhyInv
    /\ excuses \subseteq Reasons /\ PageTypes /\ PersonTypes /\ DownInv

LEMMA TypesBegin == BridgeInit => TypeInv
<1> SUFFICES ASSUME BridgeInit PROVE TypeInv
  OBVIOUS
<1>1. DownInv
  BY DownInit DEF BridgeInit
<1> QED
  BY <1>1, StartupTypesBegin, FriendsInit, FriendSetsBegin, DialogInit, DialogTypesBegin
     DEF TypeInv

LEMMA TypesStep == TypeInv /\ [BridgeNext]_bridgeVars => TypeInv'
<1> SUFFICES ASSUME TypeInv, [BridgeNext]_bridgeVars PROVE TypeInv'
  OBVIOUS
<1>1. FriendInv' /\ DialogInv'
  BY FriendStep, DialogStep DEF TypeInv
<1>2. CASE BridgeNext
  <2>1. CodeTypes' /\ WindowTypes'
    BY <1>2, StartupsOfBridge, CodeTypesStep, WindowTypesStep DEF TypeInv
  <2>2. FriendSets'
    BY <1>2, FriendSetsStep DEF TypeInv, DialogInv, TalkMarks
  <2>3. WhyInv' /\ (excuses \subseteq Reasons)'
    BY <1>2, WhysOfBridge, WhyStep, ExcusesOfBridge DEF TypeInv, DialogInv, TalkInv
  <2>4. PageTypes' /\ PersonTypes'
    BY <1>2, PageTypesStep, PersonTypesStep DEF TypeInv, DialogInv, TalkMarks
  <2>5. DownInv'
    BY <1>2, DownloadsOfBridge, DownStep DEF TypeInv
  <2> QED
    BY <1>1, <2>1, <2>2, <2>3, <2>4, <2>5 DEF TypeInv
<1>3. CASE UNCHANGED bridgeVars
  <2>1. UNCHANGED <<startupVars, friendVars, dialogVars, downloadVars, late, relogged>>
    BY <1>3 DEF bridgeVars
  <2>2. CodeTypes' /\ WindowTypes' /\ DownInv'
    BY <2>1, CodeTypesStep, WindowTypesStep, DownStep DEF TypeInv
  <2>3. FriendSets'
    BY <2>1 DEF friendVars, FriendSets, TypeInv
  <2>4. WhyInv' /\ (excuses \subseteq Reasons)' /\ PageTypes' /\ PersonTypes'
    BY <2>1 DEF dialogVars, WhyInv, Idling, PageTypes, PersonTypes, TypeInv
  <2> QED
    BY <1>1, <2>2, <2>3, <2>4 DEF TypeInv
<1> QED
  BY <1>2, <1>3

LEMMA TypesFollow == TypeInv => BridgeTypeOK
<1> SUFFICES ASSUME TypeInv PROVE BridgeTypeOK
  OBVIOUS
<1>1. StartupTypeOK
  BY DEF TypeInv, CodeTypes, WindowTypes, StartupTypeOK
<1>2. FriendTypeOK
  <2>1. sending \cup told \cup lost \subseteq userInfoList \X Nat
    BY DEF TypeInv, FriendInv, ToldInv, PassedOn
  <2>2. resending \subseteq userInfoList
    BY DEF TypeInv, FriendInv, ToldInv
  <2> QED
    BY <2>1, <2>2 DEF TypeInv, FriendSets, DialogInv, TalkMarks, RowMarks, FriendTypeOK
<1>3. DialogTypeOK
  <2>1. DOMAIN calls = Caller
    BY DEF TypeInv, DialogInv, TalkInv, CallInv
  <2>2. mIndex \in Nat /\ marked \in 0 .. Len(mRows) /\ mClicked \in 0 .. Len(mRows)
    BY DEF TypeInv, DialogInv, TalkMarks, MemberMarks
  <2> QED
    BY <2>1, <2>2 DEF TypeInv, PageTypes, PersonTypes, Reasons, DialogTypeOK
<1>4. DownloadTypeOK
  <2>1. \A w \in Worker : work[w] # Idle => work[w] \in Works
    BY DEF TypeInv, DownInv, DownTypes
  <2>2. DOMAIN disk \subseteq File
    BY DownloadAssumption DEF TypeInv, DownInv, DownTypes, DiskInv, NameOf, Task
  <2> QED
    BY <2>1, <2>2 DEF TypeInv, DownInv, DownTypes, Works, DownloadTypeOK
<1>5. {late, relogged} \subseteq BOOLEAN
  BY DEF TypeInv, PersonTypes
<1> QED
  BY <1>1, <1>2, <1>3, <1>4, <1>5 DEF BridgeTypeOK

\* Whatever both programs, the user and the callers do: each window is in one of the
\* states the code knows, lists hold friends, marks are on rows that are there, a dialog
\* is of a group, an account is known or not, and files are named by the URLs asked for.
THEOREM BridgeTypes == BridgeSpec => []BridgeTypeOK
  BY TypesBegin, TypesStep, TypesFollow, PTL DEF BridgeSpec
=============================================================================
