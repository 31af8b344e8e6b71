----------------------------- MODULE Downloads -----------------------------
(***************************************************************************)
(* Files and pictures that are sent by their URL: _onSendFileMsg of        *)
(* HttpConn.cpp and the answers of MsgHelper.cpp, DownloadImageFromUrl and *)
(* DownloadFileFromUrl of MsgManager.cpp, DownloadByteFile of              *)
(* HttpClient.cpp.  The task manager gives each contact to one of its      *)
(* workers; the workers share the directory.                               *)
(*                                                                         *)
(* A file is named by what follows the last slash of its URL and never     *)
(* downloaded when there is one of that name.  of is whose contents it     *)
(* holds, whole tells that all of them are there.                          *)
(***************************************************************************)
EXTENDS Naturals, Sequences, FiniteSets

CONSTANTS Worker,        \* the two workers of CTaskMgr
          Contact,       \* who files are sent to
          WorkerOf,      \* the worker of a contact
          Url, File,     \* URLs, and the names they end in
          FileOf,
          Idle           \* a worker without a task

ASSUME DownloadAssumption ==
    /\ \A c \in Contact : WorkerOf[c] \in Worker
    /\ \A u \in Url : FileOf[u] \in File
    /\ Idle \notin [task : [to : Contact, url : Url], cut : BOOLEAN,
                   step : {"asking", "writing", "ready"}]

VARIABLES
    tasks,  \* the queue of each worker, of [to, url]
    work,   \* each worker's task, its step, and was its file cut meanwhile?
    disk,   \* [of, whole] of the files that are there
    handed, \* history: [url, to, of, whole] given to the helper
    asked,  \* history: the tasks there have been
    torn    \* history: files a download of which has failed half-way

downloadVars == <<tasks, work, disk, handed, asked, torn>>

Task == [to : Contact, url : Url]
Contents == [of : SUBSET Url, whole : BOOLEAN]

DownloadInit ==
    /\ tasks = [w \in Worker |-> <<>>]
    /\ work = [w \in Worker |-> Idle]
    /\ disk = [f \in {} |-> Idle]
    /\ handed = {} /\ asked = {} /\ torn = {}

Doing(w, step) == work[w] # Idle /\ work[w].step = step
Name(w) == FileOf[work[w].task.url]
Go(w, step) == work' = [work EXCEPT ![w].step = step]
Drop(w) == work' = [work EXCEPT ![w] = Idle]

\* Who else writes the same file.
Others(w) == {v \in Worker \ {w} : Doing(v, "writing") /\ Name(v) = Name(w)}
-----------------------------------------------------------------------------
\* onSendMsg and the question handler's callback: a task for the contact's worker.
SendFileMsg(c, u) ==
    /\ tasks' = [tasks EXCEPT ![WorkerOf[c]] = Append(@, [to |-> c, url |-> u])]
    /\ asked' = asked \cup {[to |-> c, url |-> u]}
    /\ UNCHANGED <<work, disk, handed, torn>>

\* PathUtil::exist: a file of that name will do.
CheckFile(w) ==
    /\ work[w] = Idle /\ tasks[w] # <<>>
    /\ LET t == Head(tasks[w])
       IN  work' = [work EXCEPT ![w] =
               [task |-> t, cut |-> FALSE,
                step |-> IF FileOf[t.url] \in DOMAIN disk THEN "ready" ELSE "asking"]]
    /\ tasks' = [tasks EXCEPT ![w] = Tail(@)]
    /\ UNCHANGED <<disk, handed, asked, torn>>

\* Nothing came: no file, an empty path, and no message.
NoAnswer(w) ==
    /\ Doing(w, "asking")
    /\ Drop(w)
    /\ UNCHANGED <<tasks, disk, handed, asked, torn>>

\* The path is at hand before the download ends.
OpenReady(w) ==
    /\ Doing(w, "asking")
    /\ disk' = [f \in DOMAIN disk \cup {Name(w)} |->
                   IF f = Name(w) THEN [of |-> {work[w].task.url}, whole |-> FALSE]
                   ELSE disk[f]]
    /\ Go(w, "ready")
    /\ UNCHANGED <<tasks, handed, asked, torn>>

\* my_fwrite with the first bytes: fopen(.., "wb") cuts what is there, for
\* others that are writing it too.
OpenFile(w) ==
    /\ Doing(w, "asking")
    /\ LET of == {work[w].task.url} \cup {work[v].task.url : v \in Others(w)}
           now == [of |-> of, whole |-> FALSE]
       IN  disk' = [f \in DOMAIN disk \cup {Name(w)} |->
                       IF f = Name(w) THEN now ELSE disk[f]]
    /\ work' = [v \in Worker |->
                   IF v = w THEN [work[v] EXCEPT !.step = "writing"]
                   ELSE IF v \in Others(w) THEN [work[v] EXCEPT !.cut = TRUE]
                   ELSE work[v]]
    /\ UNCHANGED <<tasks, handed, asked, torn>>

\* curl_easy_perform ends well: all bytes since the last cut are this
\* worker's, unless somebody else cut the file.
Downloaded(w) ==
    /\ Doing(w, "writing")
    /\ disk' = [disk EXCEPT ![Name(w)].whole = @ \/ ~work[w].cut]
    /\ Go(w, "ready")
    /\ UNCHANGED <<tasks, handed, asked, torn>>

\* It fails half-way: no message, but the file stays.
BreaksOff(w) ==
    /\ Doing(w, "writing")
    /\ Drop(w)
    /\ torn' = torn \cup {Name(w)}
    /\ UNCHANGED <<tasks, disk, handed, asked>>

\* SendMsg with the path: the file is there, so it goes to the helper when
\* there is a window.
SendFile(w, window) ==
    /\ Doing(w, "ready")
    /\ Drop(w)
    /\ handed' = IF window
                 THEN handed \cup {[url |-> work[w].task.url, to |-> work[w].task.to,
                                    of |-> disk[Name(w)].of,
                                    whole |-> disk[Name(w)].whole]}
                 ELSE handed
    /\ UNCHANGED <<tasks, disk, asked, torn>>

\* The robot ends: what its workers were writing stays as it is.
WorkersGone ==
    /\ tasks' = [w \in Worker |-> <<>>] /\ work' = [w \in Worker |-> Idle]
    /\ torn' = torn \cup {Name(w) : w \in {v \in Worker : Doing(v, "writing")}}
    /\ UNCHANGED <<disk, handed, asked>>
-----------------------------------------------------------------------------
DownloadTypeOK ==
    /\ tasks \in [Worker -> Seq(Task)]
    /\ \A w \in Worker : work[w] # Idle =>
          work[w] \in [task : Task, cut : BOOLEAN, step : {"asking", "writing", "ready"}]
    /\ DOMAIN disk \subseteq File
    /\ \A f \in DOMAIN disk : disk[f] \in Contents

\* A message carries the whole file of its own URL, unless another URL that
\* ends in the same name was asked for, a download of that name broke off, or
\* two workers had the name to deal with.
OwnWholeFile ==
    \A h \in handed :
        LET same == {t \in asked : FileOf[t.url] = FileOf[h.url]}
        IN  \/ h.of = {h.url} /\ h.whole
            \/ FileOf[h.url] \in torn
            \/ Cardinality({t.url : t \in same}) > 1
            \/ Cardinality({WorkerOf[t.to] : t \in same}) > 1
=============================================================================
