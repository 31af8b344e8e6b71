# WeChatRobot: a verification project

WeChatRobot is a Windows chat robot in two processes. The *helper*, a DLL
injected into WeChat, hooks its message functions and calls into its memory.
The *robot*, an MFC program, receives every message from the helper through
`WM_COPYDATA`, runs it through its handlers (answer a question, forward news,
push to a URL) and sends the replies back through the helper.

This directory holds TLA+ models of the robot's and the helper's own logic, the runs of TLC that
check them, and proofs checked by TLAPS. Paths below are relative to the root
of the sources; `Robot/` abbreviates `src/WeChatRobot/WeChatRobot/` and
`Helper/` abbreviates `src/WeChatHelper/WeChatHelper/`.

## 1. The system

### Threads and how they meet

| Thread | Started by | Touches |
|---|---|---|
| UI thread | `CWeChatRobotApp::InitInstance` (`Robot/Main.cpp`) | receives `WM_COPYDATA` in `CMain::OnCopyData`; pushes messages; writes the friend list and the nickname map; activates tasks |
| consumer of `CMsgReceive` | a static initialiser | pops messages, calls every handler in turn |
| 2 workers of `CTaskMgr` | `CTaskMgr` constructor | answer questions (`COnlineCatTask`), run the callback, may block in `SendMessage` |
| workers of `CMsgAutoForward` | `StartAutoForward` | send one forwarded message, sleep 2 s |
| workers of `MsgPush` | `StartMsgPush` | POST a message to a URL |
| `m_NotifyQueueService` | `CNickNameTaskMgr` | sends answers that had waited for a nickname |
| `m_groupQueueService` | `CGroupTaskMgr` | answers HTTP requests that waited for a member list |
| HTTP event loop | `HttpServer::Start` | connections, and every request handler |
| helper's window thread | `Helper/WndMsgLoop.cpp` | commands of the robot, calls into WeChat |
| helper's login watch | `InitWindow` (`Helper/WndMsgLoop.cpp`) | waits for the login, then for the whole life of the main window |
| helper's `ReSendUser` threads | `Helper/FriendList.cpp:272` | one for each friend listed while there is no main window |
| WeChat's own threads | – | run into the helper's hooks: messages, pictures, friends, QR code |

The helper answers a command by another `WM_COPYDATA`, *while the robot's
`SendMessage` for the command is still waiting*. So a worker that asks for a
nickname is blocked until the UI thread has handled the reply: a coupling of
three threads that no type shows, and on which the safety of `NickNameTask`
rests.

### Components

Each component's entry in `PROJECT.json` says how much of it is modelled.

| Component | State | Operations | Correct when |
|---|---|---|---|
| **Receive centre** `CMsgReceive` (`Robot/api/MsgReceive.cpp`) | handlers, queue, mutex, condition variable | `Register`, `OnHandleMsg`, consumer loop | FIFO; each handler once for each message; with that message; no message stranded |
| **Traffic control** `CMsgTrafficControl` (`Robot/pangmao/MsgTrafficControl.cpp`) | limit, interval, counter, window start, tip flag | `SetLimit`, `Grant` | bounded answers in a window and in any span; one tip a window; never locks out |
| **Thread pool** `CThreadPool`, `CQueueService`, `common_thread` (`Robot/base/thread_pool.cpp`, `common_thread.hpp`) | per worker: run flag, exec function, task list, thread | `init`, `start`, `addTask`, `stop`, worker loop | tasks run in order, once; `stop` is a barrier and returns; a start is not lost |
| **Forwarding** `CMsgAutoForward` (`Robot/pangmao/MsgAutoForward.cpp`) | lists of groups, last send time, task id, pool | `StartAutoForward`, `onReceiveMsg`, `onBoradcastAsync`, workers | interval between news; send rate; every target once |
| **Question handler** `CMsgHelper` (`Robot/pangmao/MsgHelper.cpp`) | robot id, group list | handler of private and group chats, answer callback | one answer a question, to the person who asked |
| **Task manager** `CTaskMgr` (`Robot/base/task_mgr.cpp`) | a pool of two, selected by hash of the sender | `AddTask` | a sender's questions stay in order |
| **Nicknames** `CNickNameTaskMgr` (`Robot/pangmao/NickNameTask.cpp`) | answers waiting for each user, notify queue | `addTask`, `ActivateTask` | no waiting answer lost, doubled or left without name |
| **Online answers** `COnlineCatTask` (`Robot/pangmao/COnlineCat.cpp`) | the task | `execute` | always ends in an answer text |
| **UI thread** `CMain` (`Robot/CMain.cpp`) | friend list, group members, own account | `OnCopyData`, menus | what the helper reports is kept; knows the account that is logged in |
| **Group members** `CGroupTaskMgr` (`Robot/pangmao/GroupTask.cpp`) | HTTP requests waiting for a member list | add, activate (walk, then erase) | each task run once |
| **HTTP server** (`Robot/api/http/*`, `Robot/base/netlib.cpp`, `EventDispatch.cpp`, `BaseSocket.cpp`) | connections, map of sockets, select sets, loop flags | accept, read, write, close, start, stop | replies reach who asked; no socket is forgotten; no client hangs; stop ends the loop |
| **HTTP parser** (`Robot/common/http_parser.cpp`, `HttpParserWrapper.cpp`) | state, length, url, body | `http_parser_execute` after every read | a request is complete at its last byte and never before |
| **Push** `MsgPush` (`Robot/api/http/MsgPush.cpp`) | URL, pool, task id | handler, task | each message pushed once |
| **Sending** `CMsgManager` (`Robot/api/MsgManager.cpp`) | none | a frame for each command | the helper does what was asked |
| **Downloads** (`CMsgManager::Download*`, `Robot/common/HttpClient.cpp`) | files by name | check, download, send | a whole file, and the one that was asked for |
| **Pictures, records** (`Helper/CSaveImage.cpp`, `Helper/ChatRecord.cpp`, `CAutoFunction.cpp`) | queue and map of seconds, files | message hook, picture hook | each message to the robot once, each picture with its message |
| **Rooms, friends** (`Helper/ChatRoomOperate.cpp`, `Helper/FriendList.cpp`, `Function.cpp`) | list of those listed, threads that wait | list friends and members, and all that is done to them | nobody lost, nobody twice; the right function with the right arguments |
| **Window loop, hooks, injection** (`Helper/WndMsgLoop.cpp`, `InitWeChat.cpp`, `Login.cpp`, `Robot/CInjectTools.cpp`) | hooks set, window, login watch | inject, check the version, hook, dispatch | a robot learns of the login |
| **Dialogs** (`Robot/CFriendList.cpp`, `CChatRoomMember.cpp`, `CFunctions.cpp`, ...) | rows, selected row, wxid, index of the next row | clicks, menus, buttons | a command is about the row it was given for; the member list is the group's |
| **Configuration** `CSysConfig` | values of the INI file | read | pure I/O |
| **Network library** (`src/Network/`) | a trial TCP server | echo | `InitInstance` starts it at this commit |

At this commit `InitInstance` starts the trial TCP server and returns
(`Robot/Main.cpp:147-151`), which makes the rest of the function, the
configuration, the handlers and the dialog, unreachable. The models take the
rest of `InitInstance` as it is written below that return: it is what the
program is when the experiment is removed, and the only thing that gives the
other components a caller.

### What is hard

Threads started before their object is complete; condition variables waited on without a
predicate or notified without their mutex; a reference used after its element is popped;
two-step operations under two acquisitions of a lock; calls across processes that block a
worker; a wall clock that can be set back; a limit shared by handlers; two programs that
find each other by the titles of windows, come and go by themselves, and lay out the same
bytes by hand; `SendMessage` that takes in other messages while it waits; descriptors
closed twice and handed out again; globals that outlive their dialog. `PROJECT.json` lists
each as a *hazard* at its line with the property that covers it, or says why none does.

## 2. Modules

| Module | Models | Instantiated by |
|---|---|---|
| `MsgChannel` | what a handler may expect of the receive centre (abstract) | refined by `MsgReceive` |
| `MsgReceive` | the receive centre, every access to mutex, queue and condition variable a step | – |
| `MsgReceive_proofs` | proofs about it | – |
| `TrafficControl` | the traffic limit and the wall clock | extended by `AutoForward` and `Robot` |
| `TrafficControl_proofs` | proofs about it | – |
| `TaskPool` | what the thread pool promises (abstract) | refined by `ThreadPool`, used by `AutoForward`, `NickName`, `Robot` |
| `ThreadPool` | the pool with its startup, timeouts and stop | `MCThreadPool` |
| `ThreadPool_proofs` | proofs about it | – |
| `AutoForward` | news forwarding over limit and pool | `MCAutoForward` |
| `AutoForward_proofs` | proofs about it, with those of `TrafficControl` | – |
| `NickName` | question, answer, nickname, reply: workers, UI thread and queue thread over the pool | `MCNickName` |
| `NickName_proofs` | proofs about it | – |
| `ChatRecord` | what the helper's message hook makes of a message | extended by `Robot` |
| `Robot` | a message from WeChat to its answer: hooks, receive centre, handlers, limit, two pools | `MCRobot` |
| `Robot_proofs` | the composition keeps what its parts promise; each message once, answers in order | – |
| `SocketLoop` | the socket layer: descriptors, map of sockets, select sets | extended by `HttpServer` |
| `GroupMembers` | requests that wait for a member list | extended by `HttpServer` |
| `HttpHandlers` | what each URL's handler does with its connection | extended by `HttpServer` |
| `HttpServer` | the server: loop, connections, queue thread, UI thread, start and stop | `MCHttpServer` |
| `HttpParser` | the parser on every prefix of a request | `MCHttpParser` |
| `HttpRequest` | what a well-formed request is, of any length | `MCHttpParser`, `HttpServer_proofs` |
| `HttpServer_proofs` | proofs about the server and its parser | – |
| `PictureQueue` | pictures joined to messages by the second | extended by `Bridge` |
| `Startup` | injection, the helper's start, login, QR code | extended by `Bridge` |
| `FriendList` | the friend list from WeChat to the rows | extended by `Dialogs` |
| `Commands` | the frame of every command, and what `WndProc` reads out of it | extended by `HelperCalls` |
| `HelperCalls` | what each function of the helper changes in WeChat | extended by `Dialogs` |
| `Dialogs` | who commands, how commands are served, the member list | extended by `Bridge` |
| `Downloads` | files sent by their URL | extended by `Bridge` |
| `Bridge` | both programs together | `MCBridge` |
| `Bridge_proofs` | proofs about the pictures alone, and about both programs: pictures, login, files, friends, commands, account, member list, types | – |

The composition is by refinement: `ThreadPool` is proved to implement
`TaskPool`, and the modules that use the pool are built from `TaskPool`'s
actions, so their states are not multiplied by the pool's startup (`PoolsOfRobot`
proves that `Robot` uses its two pools as `TaskPool` allows). `AutoForward`
takes `TrafficControl` whole, with its variables, because the forwarder's notice
and the question handler spend one quota. `Robot` takes the receive centre as
`MsgChannel` (an `INSTANCE`), the limit whole, and each of the two pools as an
instance of `TaskPool`; `HttpServer` and `Bridge` are conjunctions of the actions
of the modules they extend, one for each part a step touches.

Every model names definitions as the code does (`msgs_`, `m_runFlag`,
`g_count_`, `task_id_`, `ActivateTask`). History variables, which the code does
not have, are marked `history:` where they are declared. An operator that no
behaviour uses, placed just before the one it resembles (`PushFront` before
`OnHandleMsg`), is a *mutant*: the same operation with a plausible bug in it.
Putting it in place of the other makes the property named in `PROJECT.json`
fail, which shows that the property depends on that code.

### MsgReceive

* `Register`, `OpenDialog`: `InitInstance` registers handlers, then opens the
  dialog, whose window makes `OnCopyData` possible.
* `OnHandleMsg`, `UnlockPush`, `NotifyAll`: `OnHandleMsg` step by step.
* `Lock`, `Wait`, `SpuriousWakeup`, `Reacquire`, `UnlockAwake`: the outer loop
  with `cv_.wait(lk)`, which has no predicate.
* `TryLock`, `Drained`, `PopFront`, `CallHandler`, `EndRound`: the inner loop.
  `msg` is what the reference reads *now*: `OnHandleMsg` may overwrite it
  (`Overwritten`) while the consumer is between `PopFront` and `EndRound`. That
  is how the undefined behaviour of a reference to a popped deque element is
  modelled; the outcomes that are not values (a freed block) are left out.

### TrafficControl

`Grant` is the disjunction of its three outcomes: `OpenWindow`, `GrantInWindow`, `Refuse`.
`Tick` and `SetClockBack` are the clock. `SetLimit` takes its arguments from the
configuration and cuts them at the two maxima, from above only, as the code does; zero and
negative values stay. The start time must exceed the longest interval plus the set-back,
since `g_last_limit_time_` starts at the epoch.

### ThreadPool

The owner (`Construct`, `SetExec`, `Start`, `NotifyStart`, `CallStop`, `Stop`,
`NotifyStop`, `Join`) walks the workers; a worker's thread (`SeeFlag`,
`SeeNoFlag`, `Sleep`, `SpuriousWakeup`, `Timeout`, `WhileRun`, `NoExec`, `Swap`,
`BeginTask`, `EndTask`, `Drained`) exists from `Construct` on, before its flag is
initialised, so `Construct` leaves the flag TRUE or FALSE. The wait's
look-then-sleep is two steps because the writer of the flag does not take the
mutex. Refinement mapping: `todo` is `temp_task_list[w] \o _task_list[w]`,
`ended` the workers whose thread has returned.

### AutoForward

`StartAutoForward` registers before it looks at the lists and creates the pool.
`Broadcast`/`RefuseNews` are the handler for a text or picture; `AddTask` one
iteration of the loop that adds tasks, between which workers run; `Send`, `Wake`,
`Die` a worker. Two clocks: the news interval is measured on the wall clock,
the workers' sleep on the steady one.

### NickName

`Ask` is the end of `HandleGroupChatMsg`. A worker goes through `Respond`, then
one of `SendPlain`, `SendAtMsg`, `LookUpInVain`; after the last come `AddTask`
and a wait ended by `NotFound` or by the UI thread. The UI thread takes
`GetFriendList`, `ShowChatRoomMembers`, `ActivateWithoutName`, `ActivateTask`
and, step by step, its loop (`QueueNext`, `EndLoop`, `Clear`). The queue thread
looks at its list, sleeps a second at most, pops and executes. Its thread is born
before `main`, with the static manager, while its object is being made: `SetExec`,
`Start` are the constructors, `BeginRun` the end of the thread's first wait (at any
time, since that lasts five seconds at most), after which it goes on only with the flag
and `m_exec`; `m_runFlag` starts as anything. What
`ShowChatRoomMembers` reports may be for any group since the helper leaves the
group's id unset (`Helper/ChatRoomOperate.cpp:421`).

### ChatRecord and Robot

`SendWxMessage` is the message hook: what WeChat is made to do about a message
by itself (`Automatic`), what goes into it (`FromGroup`, `Sender`, `Content`), and
whether it waits for a picture (`Waits`) or is sent to the main window at once.
`FnSaveImagesCore` sends an image message later, or drops it with a picture that is
too small; which message that is, is the subject of `PictureQueue`. `OnCopyData`
filters (`LetThrough`) and gives the rest to the receive centre. On its consumer
thread, `HandleChatMsg` and `onReceiveMsg` are the two handlers; the first calls
`Grant` for groups and private chats (`Limit`). `Execute` and `SendAnswer` are a
worker of `CTaskMgr`, selected by the hash of `Key`; `onExecutePushTask` and
`Posted` one of the push. What the callback does about nicknames is in
`NickName`, about files in `Downloads`.

A `scene` fixes the configuration, the messages that may come and the bounds.
Only `Grant` reads the clock, so time passes only while no message is on its way:
any other moment gives `Grant` the same values.

### SocketLoop, GroupMembers, HttpHandlers, HttpServer

A descriptor is a number the system hands out again after `close`; the map of
sockets, the select sets and every `CHttpConn` know a socket by it alone.
`StaleWatch` is the write watch that `RemoveEvent` leaves behind
(`SOCKET_CLOSE` is `0x1 | 0x8`): select fails until the number is open again.
`SetExec` and `StartLoop` are the server's constructor, `Start` its `Start()`. The
loop's thread is there before them and comes to `LoopWhile` when its five seconds are
over, whatever the flag; without flag or `m_exec` it ends. The queue's thread is shown
as it is when the first task comes, started or ended.
The loop goes through `LoopWhile`, `Select`, `Accept`, `ReadClosed`,
`ReadNothing`, `OnRead`, `OnWrite`; a reply is `SendReply`, `CloseWritten`,
`CloseReplied`, on the loop's thread or on the queue's (`RunGroupTask`), since
`SendJson` closes after its `Send` has closed. `HandleRequest` gives each URL and
body one of four outcomes: a reply, no word, wait for the members, unknown URL.
`UiWalkDone` and `UiErase` are the two steps of `ActivateTask`, between which
the loop may add a task. `CHttpConn::OnTimer` has no action: `_CheckTimer` walks
a list that nothing fills.

### HttpParser

`Execute` is `http_parser_execute` for one lexeme, state by state. The
connection parses all it has from the start after every read, so what counts is
the state after each prefix. Long words the code recognises letter by letter (a
method, a header's name) are one lexeme; digits, line ends, slashes and all of a
body that could be taken for one of these are bytes. `content_length` has `Width`
bits and wraps as the 64 bits of the code do. The counter `nread`, which limits the
size of the headers, is left out, and with it the `assert` on it.

`HttpRequest` translates no code: it is the grammar that the theorem about
well-formed requests needs, written down by the places at which the parts of a request
begin (a layout), so that it needs no recursion. It has leading and trailing line ends,
`CR LF` or `LF` after each line, lines that continue the one before, and both framings,
with parameters and trailers. It leaves out what a client need not send and the parser
treats specially: CONNECT and Upgrade, absolute URLs, HTTP 0.9, versions of more than one
digit, empty header values, repeated lengths, spaces after a length. `MCHttpParser` computes
a layout for each of its requests that has a version and a path, and TLC checks that
it is one (`RegularIsWellFormed`): the grammar includes what the runs send.

### PictureQueue

`SendWxMessage` notes the second of an image message in a queue and, unless one of
the same second is there, the message in a map; `SavePicture` gives the oldest
second to the next picture; `TooSmall`, `WriteImage`, `WriteFails`, `NotSent`,
`SendPicMsg` and `EraseEntry` are the rest of `FnSaveImagesCore`. `CreateFile` fails
with `INVALID_HANDLE_VALUE`, which the code does not ask for, and `WriteFile` with a
line in the log: after either, `WriteFails`, the path of what is there (nothing, an
older picture, a part of this one) is sent. A second picture of one message
(`SaveAnother`) takes a second that is another's.

### Startup, FriendList, Commands, HelperCalls, Dialogs, Downloads, Bridge

The two programs. `Startup`: `OpenWeChat`, `AlreadyInjected`, `LoadHelper`, `LoadFails`,
`InjectFails` are `InjectDll`, the fourth with a `LoadLibraryA` that finds no helper,
which nobody notices; `InitWindow`, `SetHooks`, `RegisterWindow` the helper's start;
`CheckIsLogin` the thread that waits for the login and whose `SendMessage` lasts as long
as the main window; `HookQrCode`, `SaveImg`, `ShowPicture` the QR code. `FriendList`:
`ListFriend`, `ReSendUser` in the helper, which find a window or wait for one,
`SendFriend`, which sends to the window found if it is still there, `TellRobot` and the
rows in the robot, with `SetItemText` beyond the last row and a `dwIndex` that is never
counted down.

`Commands` has one operator for each place that fills a frame, in `CMsgManager` and
in the dialogs, and `WndProc` with all its cases, offsets included: a string at
an offset nobody has set is `Junk`. Fields have their lengths (`Field`): `wcscpy_s` is given
the length of its source as the size of its destination, so that a longer text runs out of
its field and the field reads as `Junk`. A robot whose memory has been written over
(`Overruns`) may end at any time from then on (`RobotBursts`), and it ends before it
sends an announcement that is too long (`Unsent`). `HelperCalls` says what each function does to
`wx`, what WeChat holds; the calls into WeChat are external. In `Dialogs` a command
is under way from `Send` to `Return`: `Serve` is `WndProc`, which may begin a listing
(`ListMember`, `ListingDone`). `SendMessage` takes in other messages while it waits,
so listings nest, and rows come while a command is under way. `wanted` is what WeChat
would hold had every command been carried out as its giver meant it: a menu is meant
for the marked row. The row `DelRoomMember` deletes is `nSelected`, the first until a
row is clicked; `listed` is what the dialog should show, and follows the member that
WeChat was told to delete.

`Downloads`: a worker goes through `CheckFile`, `OpenFile`, `Downloaded` or
`BreaksOff`, `SendFile`; two workers may write one file. `Bridge` gives each of them
the windows of `Startup` and ends what ends with a program: the robot's lists, dialogs
and workers with the robot, the helper's memory with WeChat.

## 3. Runs

All runs take less than four minutes on two workers. `CHECK_DEADLOCK FALSE`
everywhere: each part is quiet when nothing comes, the pool when it is stopped,
the parser when a client has sent its request, and the clock at its bound.

| Run | Shows | Bounds, and why they are enough |
|---|---|---|
| `msg_receive` | every handler once a round, no stale message, a heard notification empties the queue, implements `MsgChannel` | 2 handlers, 2 kinds of message, 3 messages: the third arrives while one is handled and another is queued or stranded |
| `lost_wakeup` (violation) | a message may never be handled | 1 handler, 2 messages |
| `overwritten_message` (violation) | a handler may see a later message | 2 messages |
| `robot` | the quota of a window, one tip, the bound on any span, no unjustified refusal; every message to every handler and push task once, and only images late; a person's questions answered in order | five scenes. Limit: intervals 0, 2, over the maximum with limits -1, 2, 3, 9, 7 calls over several windows, clock back by 2 s. Questions: 4 of one person in two groups and of another in private. Kinds: 3 of 11 messages of every kind, push on and off, before the window and after (2.1 M states) |
| `thread_pool` | order, barrier, causes of a thread's end, start seen, tasks run, stop returns, implements `TaskPool` | 2 workers, 3 tasks, two of them for one worker: a list of two is swapped while the third is added |
| `forward` | interval of news, send rate, null pool, each target once | 2 workers, up to 3 targets, 2 news; intervals 2 and 0; both lists empty in turn |
| `nickname` | answers neither lost nor doubled, named before they are sent, in order, no writer during the walk, delivery, and a queue thread that ends only unstarted | 2 workers, 2 users, 3 questions: two of one user, so that a vector of two is walked; every start of the queue thread (0.2 M states) |
| `friend_name_lost` (violation) | a friend may stay without a name | one friend |
| `http` | the loop replies to who asked, no socket forgotten, a task run once, no client left hanging but for named reasons, a loop thread that does not end while the server serves, `Stop` returns | every start of the two threads; 2 clients, 2 descriptors (so that one is handed out again), a full select set, 1 group; two member requests together, a handler without an answer beside an unknown URL, a request in two pieces, one with a stray piece behind it (0.5 M states) |
| `handle_reuse` (violation) | the queue thread may send to, or close, another client | as `http` |
| `bridge` | why a robot can wait in vain for the login; friends kept; commands done as meant; member list of its group; the robot knows its account; whole files of their own; pictures with messages of their second | nine scenes, each with a budget of events: two starts of robot and WeChat; friends over restarts; menus over three rows, one with a long wxid; two member lists, and one or two with a command from elsewhere; all buttons and 17 calls of the API; 3 files of 3 URLs, two ending alike; 4 pictures in 3 seconds. What is typed has 4, 60 or 5000 characters: it fits, is longer than the fields of 40 and 50, or than any (1.7 M states). The two accounts are symmetric; no temporal property is checked |
| `parser` | a request is complete at its last byte and never before, with its URL and body | 1500 requests: versions, line ends, framings by length and by chunks, bodies that look like line ends or chunks, and malformed ones, each cut after every byte; `Width` is 8, so that a length can wrap |

Bounds in the modules: `MaxMsgs` (MsgReceive), `MaxTime`, `MaxCalls`,
`MaxSetBack` (TrafficControl), `MaxNews`, `MaxTasks` (AutoForward), `most`,
`ahead`, `early`, `clock` of a scene (Robot), `FdSetSize` and the pieces of a
request (HttpServer), `Width` (HttpParser), `MaxMessages`, `MaxTime`, `MaxExtra`
(PictureQueue), `budget` (Bridge); the tasks of
ThreadPool and the questions of NickName are each added once. Each bounds a
number that the environment chooses, but for `FdSetSize` and `Width`, which are
limits of the code made small.

Type invariants are not among the runs' properties. Those of `MsgReceive`,
`TrafficControl`, `ThreadPool`, `AutoForward`, `NickName`, `HttpServer`, `HttpParser` and
`Bridge` are proved for every value of the constants (section 5).

### The properties that carry the weight

* `ChannelSpec`: for all its mutex, condition variable and `try_lock`, the
  receive centre takes one message at a time, in order, and gives each to every
  handler. It says nothing of when, nor of what the reference shows:
  those are the two findings.
* `NoStaleMessage` bounds the second finding: a handler may see a *later*
  message, never an earlier one.
* `NotifiedWaiterDrains` bounds the first: a stranded message is handled with
  the next notification that is heard.
* `SlidingBound`: the comment in `Grant` admits that a fixed window lets more
  than a quota through around its edge. It is less than two quotas.
* `RefusalsJustified`: refused messages go on being counted, yet no refusal
  happens without a whole quota granted in the last interval.
* `EndsForAReason`: a worker may be dead before its first task, but only when
  its flag was set in raw memory or `start` took more than five seconds.
* `StopIsABarrier`, `StopReturns`: with tasks still being added, `stop` returns
  and nothing is left half done.
* `NotAddedWhileWalked`: `ActivateTask` walks a vector without the lock; it
  works because the hash sends a user's tasks to one worker and that
  worker is blocked in `SendMessage`. The mutants `AskInTurn` (tasks spread
  over the workers) and `AddTaskAndPost` (request posted) break it.
* `NamedIsSent`: `addTask` notifies under another mutex than the waiter's, so
  the notification can be lost; the one-second timeout is what delivers the
  answer. The mutant without a timeout breaks it. A thread that ended before its start
  delivers nothing; the property's first part (`EndedUnstarted`) says that this is the only
  way it ends, and the mutant `EndAtTimeout` breaks that.
* `EveryMessageOnce`: between the hook, a map that keeps image messages for another
  hook, a filter, a queue, two handlers and a pool, no message is left out or comes
  twice, and only images change places. It holds before the window is there, too.
* `AnswersInOrder`: one person's questions, in whatever groups, are answered in
  order since the hash of the *person* selects the worker; with the chat as key, as a
  reader of `AddTask`'s name might expect, they are not.
* `LoopRepliesToOwner` and `NoOrphanSocket`: the loop is safe though descriptors are
  reused; `OwnSocketOnly`, the same for the queue thread, is finding 4.
* `NoClientHangs`: it names what a client may wait for in vain: a handler without
  an answer, a member list, a socket the full select set does not watch, a select
  that fails, a loop thread that has ended, which one that was started does not while the server
  serves (its first part, `LoopOutlivesServer`).
* `DeliversRequest`: the parser is run again from the start after every read, so an
  early end is an answer to half a request.
* `CommandDone`: thirty places lay out frames by hand and one function reads them. The
  exceptions it names are what the code does wrong: a menu works on the row clicked last,
  not on the marked one (`Robot/CFriendList.cpp:189`), a wxid is cut to 20 characters, a
  text runs out of its field (`Robot/api/MsgManager.cpp:198`), an answer of unknown type
  goes out with an unset code, and a group renamed through HTTP gets an announcement
  (`Robot/api/MsgManager.cpp:280`).
* `RowsAreMembers`, `FriendsKept`: lists that are filled by one `SendMessage` for each
  row while commands, other listings and restarts come in between. The rows are compared
  with the members WeChat was told to delete, not with the rows deleted. A friend is on
  one way to the robot or lost with a window that closed; never with a robot that runs.
* `PictureOfTheSecond`: a picture is joined to a message by counting. A file that could not
  be written leaves one message with a wrong file and shifts nobody else's.
* `StuckForAReason`, `KnowsItself`, `OwnWholeFile`, `LostForAReason`: each says that
  something goes right except for a short list of causes; the causes are the
  result, and no other was found.

### Fairness

| Spec | Assumed | Justification |
|---|---|---|
| `MsgReceive!FairSpec` | weak fairness of each thread; strong for the steps that take `mutex_` | the OS schedules both threads; handlers return (they only add tasks or send); a thread that keeps asking for a mutex that is released again and again gets it. Arrival of messages is not assumed |
| `ThreadPool!FairSpec` | weak for the owner and each worker; strong for `Timeout` | tasks return; `wait_for` computes its deadline once, so spurious wake-ups do not postpone it. No task and no stop is assumed |
| `NickName!FairSpec` | weak for the constructors, `Respond`, the callback, the end of a request, the UI thread's loop and the queue thread | the constructors end; workers and UI thread run; `SendMessage` returns, with the helper's reply or without; the wait of the queue thread ends after a second. Questions and friend list are not assumed to come |
| `HttpServer!Spec` | weak fairness of the loop, of the queue thread, of the UI thread's walk and erase, of the constructor, and of start and stop once begun | threads go on with what they have begun; select returns within its timeout. Clients, the user and the moment the window is closed are free |

`TrafficControl`, `AutoForward`, `Robot`, `PictureQueue`, `HttpParser` and `Bridge`
are checked for safety only.

## 4. Findings

1. **A message can be stranded** (`lost_wakeup`; `Robot/api/MsgReceive.cpp:46`).
   `cv_.wait(lk)` has no predicate. A push that comes when the consumer has seen
   an empty queue and is not yet waiting notifies nobody, and its message waits
   for the next one.
2. **A handler can be given another message** (`overwritten_message`;
   `Robot/api/MsgReceive.cpp:57`). `const Message& msg = msgs_.front()` is used
   after `pop_front()`, without the lock.
3. **A friend can stay without a name** (`friend_name_lost`;
   `Robot/CMain.cpp:195`). The look-up by `operator[]` inserts an empty entry
   for a sender who is not in the list yet, and `insert` then leaves it.
4. **A reply can reach another client** (`handle_reuse`;
   `Robot/api/http/HttpConn.cpp:315`). `SendJson` closes a connection that its `Send`
   has already closed. On the queue thread the loop may accept another client in
   between, under the same descriptor, although a comment (`HttpConn.cpp:41`) says
   that the connection's own handles rule this out.

What else was met while modelling, without a text of the repository that says
otherwise, so that it is in the models and not among the findings:

* *Limit*: private chats spend the quota of the groups (`MsgHelper.cpp:238`; the
  comment at 232 says it is off for them), and group messages that are no texts spend
  it without an answer (`MsgHelper.cpp:137`).
* *Messages*: transfers come as share links, for which `is_other` is not set, and are
  not collected (`Helper/ChatRecord.cpp:153`); any id with "gh" in it is taken for a
  public account (244); an empty source counts as a group (230). A second picture of one message
  shifts the queue (`src/TODO.md:26` knows of it), and without a window a picture's
  entry stays in the map (`Helper/CSaveImage.cpp:202`).
* *Commands*: `SendAtAllMsg` and unknown answer types leave `dwData` unset
  (`Robot/api/MsgManager.cpp:94`); "at all" over HTTP answers success and sends nothing
  (`HttpConn.cpp:838`, 857); `MessageBoxA(MB_YESNO)` is always true
  (`Robot/CFriendList.cpp:295`); `g_AutoChat` is set and never read. A text longer than its
  field runs on into other memory in `CMsgManager` and in nine dialogs
  (`Robot/api/MsgManager.cpp:198`); `CRoomAnnouncement` ends the robot instead.
* *Pictures*: a file that cannot be created counts as created (`Helper/CSaveImage.cpp:164`).
* *Friends*: the window that `FindWindow` returned may be closed before `SendMessage`
  (`Helper/FriendList.cpp:268`, 279); nobody looks at the result, and the friend stays
  among those already listed, so that the next robot is not told either.
* *Lists*: rows posted after Done go to the top of the member list and move the rows
  away from `nSelected`, which `DelRoomMember` deletes; before the first click that is the first
  row, and no member is named to WeChat (`Robot/CChatRoomMember.cpp:22`).
* *Start*: a module list that cannot be read counts as injected (`CInjectTools.cpp:262`),
  and so does a helper that `LoadLibraryA` did not find (234); pressing for the QR code
  twice saves the hook's own jump as the code to restore (`Helper/Login.cpp:42`).
* *HTTP*: `FD_SET` on a full set is silent (`EventDispatch.cpp:242`); pipelined requests
  join their URLs, a POST with an Upgrade header loses its body, a `Content-Length`
  that wraps is not always seen (`http_parser.cpp:1480`); two handlers never answer
  (`HttpConn.cpp:389`); a member request added between walk and erase is lost.

## 5. Proofs

TLAPS proves the following for all values of the constants that satisfy the named
assumptions of the modules: any sets of messages, handlers and tasks, any number of
workers, any configured limits, and any bounds. The assumptions say no more than what the
code gives: numbers are numbers and placeholders (`NoTask`, `NoSave`, `Idle`, ...)
nobody's value; a configured limit is an integer (`ConfigAssumption`); the hash is defined
for every id (`HashAssumption`), a URL has a file name and a contact a worker
(`DownloadAssumption`); a request has at least one piece, and a group in its body is one
of the groups (`HttpAssumption`); what a client sends is a sequence of lexemes, and
`content_length` has room for a digit (`ParserAssumption`); a command has the arguments
its function takes, and only a text is sent with a nickname in front
(`CommandAssumption`); a robot at work has one row for each friend (`SceneAssumption` of
`Bridge`), and no text is not a text of more than 20 characters (`ShortenedAssumption`);
lengths are numbers, and what is left of a text of more than 20 characters has 20
(`LengthAssumption`). One is about WeChat: it has nobody twice in a group
(`GroupAssumption`). TLC evaluates each of them on the instances it checks.

**`MsgReceive_proofs`.** `TypeCorrect`, `Fifo` (QueueIsSuffix), `ExactlyOnce`
(EveryHandlerEveryRound), `NeverStale` (NoStaleMessage), `Implements`
(ChannelSpec). The inductive invariant adds to those properties: who holds the
mutex where (`LockDiscipline`), how the counter of rounds relates to the log and
to the place of the consumer (`RoundBounds`), that nothing is received before
the dialog opens (`StartupFirst`: this is what makes the set of handlers fixed
when the first message is popped), and that the reference shows something at
least as late as its round (`ReferenceNotStale`). `QueueIsSuffix` rests on
two lemmas about suffixes of sequences.

**`TrafficControl_proofs`.** `TrafficTypeCorrect`, `QuotaKept` (WindowQuota),
`OneTip` (OneTipPerWindow). `QuotaInv` ties `used` to `g_count_` (the counter
runs ahead once calls are refused) and the last verdict to both, and says that
the first call of all finds the window of the epoch over, which needs
`StartAssumption`. `TipInv` says what the flag `g_can_i_need_reply_` means:
whether a tip stands in the log since the last opening. `SpansAreBounded`
(SlidingBound) and `RefusalsAreJustified` (RefusalsJustified) count. Every call belongs
to the window of the last opening before it, and a window has granted a quota at most
(`WindowsInv`); openings are an interval apart while the clock is not set back
(`ClockInv`), so a span of an interval meets two windows at most, and of the later one
or the earlier one not the whole. A refusal comes when its window has granted
everything (`RefusedInv`), within the interval.

**`ThreadPool_proofs`.** `TypeCorrect`, `TasksInOrder` (PoolOrder), `StopWaits`
(StopIsABarrier), `ThreadsEndForAReason` (EndsForAReason), `Implements`
(PoolSpec). `OwnerInv` says what the owner's position implies for the workers
(which exist, which have `m_exec`, whose flag may be set), `DrainInv` that a
local list is only non-empty while it is being run, `FlagInv` where a thread can
be whose flag was never seen set. The refinement step maps `BeginTask`,
`EndTask`, `AddTask` and the ends of a thread to the actions of `TaskPool` and
every other step to a stutter; it needs `PoolOrder`'s lemmas on concatenation.

**`AutoForward_proofs`.** `LimitImplemented` says that the forwarder and the
question handler are, for the limit, just two callers: every step maps to a step
of `TrafficControl` or leaves its variables alone. With it the limit's theorems
hold of both together (`SharedQuota`: WindowQuota). `ForwardTypeCorrect`,
`PoolExists` (NullPoolNeverUsed), `NewsApart` (NewsSpacing) and `RateKept`
(SendRate) have an inductive invariant in four parts: the bounds leave room for
the loop (`LoopInv`); what `StartAutoForward` leaves behind (`StartInv`: a
registered handler with non-empty lists has a pool); until it is set back the
wall clock runs with the steady one and `last_send_time_` is the time of the last
news (`ClocksInv`); tasks are with the worker their id selects and a free worker
has slept after all it sent (`SleepInv`, `SentInv`). The rate then follows by an
injection from the tasks sent within two seconds into the workers.
`TargetsServedOnce` (EveryTargetOnce) needs the loop's rest to be the last part of the
list of targets (`SuffixInv`) and every task to be in one place: a worker's list, its
hand, or sent (`TaskInv`).

**`NickName_proofs`.** `TypeCorrect`, `NothingNameless` (NeverNameless) and
`WalkUndisturbed` (NotAddedWhileWalked). The last has no lock to rest on:
a user's questions are with one worker (`Affinity`), a worker is in one callback
at a time (`InHand`), and the worker whose user `ActivateTask` serves waits in
`SendMessage` (`Served`). A second worker that adds to the same vector would have
to be the first. `InPlaceOnce` (InOnePlace) counts: an answer is with its worker, in a
vector, handed to the queue, on the queue thread or sent, and the five counts add up to
one (`OnceInv`), since each step takes from one place what it adds to the next.
`SentAsAsked` (WaitedInOrder) looks at six places in the order in which an answer goes
through them: of two answers to one user, the one that was asked first is further on
(`OrderInv`). `StartedGoesOn` (EndedUnstarted): from `start` on the flag is set and
`m_exec` is there, and nobody resets either (`FlagInv`).

**`Robot_proofs`.** The composition, for any configurations, messages and hash.
`TrafficOfRobot`: every step of the robot is a step of `TrafficControl` or leaves its
variables alone, so that `QuotaOfRobot` (WindowQuota) and `OneTipOfRobot`
(OneTipPerWindow) follow from the theorems about the limit. `ChannelOfRobot`: the same
for the receive centre, `RobotSpec => Channel!Spec`; with `Implements` of
`MsgReceive_proofs` this is what justifies the abstract channel in its place. The
invariant `RobotInv` only keeps the scene in `Scenes` and messages numbered; the
assumption `SceneAssumption` puts the configured limits into the sets the limit is
proved for, and `CallerAssumption` names its two callers. `SpansOfRobot` and
`RefusalsOfRobot` are the limit's other theorems, and `PoolsOfRobot` says of the two
pools what `ChannelOfRobot` says of the channel.

`MessagesOnce` (EveryMessageOnce) goes from the hook to the push: a message waits for its
picture, is lost, or is received, once (`MailInv`, `ReceivedOnce`); the push tasks are the
messages handled, in order, and the one in hand once `StartMsgPush`'s handler is through
(`PushInv`); a task is in one place of the pool, or pushed (`PoolInv`). `AnswersOfOnePerson`
(AnswersInOrder) is about the other pool. A question granted is in one place, no more
(`ApartInv`) and no less (`ThereInv`), with the worker of its asker (`BelongInv`); so what the
same person asked before is answered already, in that worker's hand, or before it in
its list (`OrderInv`).

**`HttpServer_proofs`.** `HttpTypeCorrect` (HttpTypeOK): a thread that answers has a
connection, and a walk a group (`JobInv`). `SocketsHaveOwners` (NoOrphanSocket) has
`SocketInv`: the map has exactly the open descriptors, and leads to the connection whose
descriptor it is; a close by either thread takes both away together, which is why a
second close of a number that has been handed out again takes away another client's
(finding 4) and yet leaves no orphan. `LoopAnswersOwner` (LoopRepliesToOwner): the loop answers on
the socket it has just read from, and accepts nobody until it is through.
`TasksRunOnce` (TaskRunOnce): tasks that wait are all different, and only those of the
group being walked can be queued as well (`TasksDiffer`). `LoopServesOn`
(LoopOutlivesServer): the flag is set from the end of the constructor until `stop`
(`FlagInv`), and only a thread that finds it unset ends.

The same module has the parser, with one invariant (`ParserInv`). Its first half is about
whatever comes, malformed or not: the fields keep their ranges, and the `assert`s of
`http_parser_execute` hold (`AssertionsHold`). They are not inductive: that a chunk's data is
never read with the unknown length needs that the length has not been that value since
the chunk's size began (`SizeKnown`), because a digit that would make it so is an
error. The second half (`Reads`) is about well-formed requests: after each lexeme the parser
is at a place of the layout, with the flags, the length and the part of the body that
the layout gives for this place. A place is on the request line (`OnRequestLine`), on
line k of the headers or the trailers (`InBlock`), in a body of known length
(`InIdentity`), in chunk c (`InChunks`), or behind the end (`Done`). One lemma for each
part of a line or a chunk says that a lexeme leads to the next place of it or of the next
line or chunk; so the induction is the one over the steps of the parser, and needs none
over the data. `DeliversWellFormed` (DeliversRequest) follows: before its end no request is
complete, and from there on it is, with its URL and its body. The proof found no step
of the parser that departs from the grammar.

**`Bridge_proofs`.** `PictureAndMessage` (PictureOfTheSecond) of the pictures alone, and
`PictureAndMessageOfBridge` of both programs: each step of `Bridge` is a step of
`PictureQueue`, an end of WeChat that empties its memory, or leaves its variables alone.
`PictureInv` says that the pictures to come are those of the last messages (`UnsavedInv`),
that the waiting seconds are theirs as long as no second picture has taken one
(`QueueInv`), and that the map, the files and the save under way keep to the seconds of
their messages, where no write has failed; the property itself says nothing of the queue
and is not inductive. `LostPictures` (LostForAReason) adds that a message alone in its
second has an entry until its picture is sent (`ReasonInv`).

`ReasonToBeStuck` (StuckForAReason) needs `WaitInv`: between the end of the injection and the
main window, a robot without one of the five reasons (`notLoaded` is that of a helper
`LoadLibraryA` did not find) has a helper that will look for a login, or a thread
that looks. `OwnFiles` (OwnWholeFile): a name that one URL and one worker have, and whose
downloads have not broken off, belongs to a file that is whole or being written by that
worker (`DownInv`). `FriendsNeverLost` (FriendsKept): a friend who is listed waits in a
thread or was passed on to exactly one start of the robot, being sent, told or lost
(`ToldInv`), and that robot has kept what it was told (`RowsInv`); nobody is lost with a
robot whose window is there, and one that never had a window was passed nothing
(`NobodyInv`). It does not say that nobody is lost, which is not so (section 4).

`CommandsAreDone` (CommandDone) reads every frame that a menu, a button or a function of
`CMsgManager` lays out back through `WndProc`: one lemma for each place, offsets included.
The invariant is then that every frame under way is read as it was meant unless there is a
reason (`CallInv`), and six reasons are all there are: a frame in which a text ran out of
its field is noted as such when it is sent; `ListingInv` adds that each listing belongs to
one call. `RobotKnowsItself` (KnowsItself) has `KnowInv`: who is logged in is known, being
asked, or not known for a reason.

`RowsAreTheMembers` (RowsAreMembers) looks inside a listing, where the property says nothing:
the rows shown are the first of the members listed, `dwIndex` is their number, and what
is left of the listing is the rest (`Continues` in `ShownInv`); when nothing is left, the
rows are the members. It needs to know where the listing goes: only a dialog asks for one with
the UI thread, and it stays open until it has it (`RoomInv`); between two of its own, `dwIndex`
is 0 unless rows from elsewhere came after the last Done, which the next dialog
inherits (`shifted`, and then `mixed`). Deleting a row takes the member that WeChat is told to
delete when the row was the one clicked last and its wxid was not cut (`MarkInv`; else
`misled`), and the same member from both lists because WeChat lists nobody twice
(`GroupsIn`), through every command.

`BridgeTypes` (BridgeTypeOK) puts these invariants together (`TypeInv`) with what the types
alone lack. They are not inductive: `SaveImg` puts back what `HookQrCode` has saved, and that
it is code, its own jump or not, and never the zeros `backCode` starts with, takes
`CodeTypes` (hooked code has been saved); the reasons a call may go wrong for are noted when
it is sent and counted when it is served (`WhyInv`).

**Only model-checked.** All liveness (`NotifiedWaiterDrains`, `StartIsSeen`,
`TaskIsRun`, `StopReturns`, `NamedIsSent`, `NoClientHangs`): the prover does not reason
about fairness. `DeliversRequest` of the requests that the grammar leaves out, and of
malformed ones: that these are never complete would need a grammar of everything that is
not a request. TLC has both kinds.

## 6. What is not modelled, and why

* *Assembly of the hooks, and calls into WeChat*: memory of another program. The models
  take what the code assumes of it: a send is sent, a list is listed in order.
* *Memory written over*: what a text that runs out of its field does to the robot beyond
  that field is one outcome, an end at any later time. WeChat's own ids and names, which
  the helper copies into fields of its own, are taken to fit. The creation of threads, windows
  and memory is taken to succeed, and the two extensions of picture files for one.
* *The first use of `CGroupTaskMgr`*: `getInstance` takes no lock
  (`Robot/pangmao/GroupTask.cpp:36`), and two threads may make a manager each. The models
  have one from the start.
* *HTTP clients*: the POST of the push and the request to the answering service are one
  step that ends, well or not. Reading the configuration file likewise.
* *Timers of connections*: `_CheckTimer` walks `m_timer_list`, which nothing fills; the
  tree in which `CHttpConn` registers is never walked. What comes after 1 KB closes the
  connection (`HttpConn.cpp:222`); the requests of the models are shorter.
* *Responses in the parser, `http_parser_parse_url`*: the server uses neither.
* *The record list, clipboard, picture decryption, layout*: they change nothing that
  another part reads.
* *Network library*: a trial server that shares nothing with the rest.
* *Data races on library containers*: `mapFriendList`, `mapGroupMemberInfo` and
  the maps of `CGroupTaskMgr` are read and written by several threads without a
  lock, and the hooks' globals by WeChat's threads. The outcomes of a rehash under a
  reader are not values, so the models take each access as atomic. Registering a handler
  while messages come would be another; every registration precedes the first message.
* *Destruction of tasks through a base without virtual destructor*
  (`Robot/base/common_thread.hpp:108`): no state of a model depends on it.
* *The year 2038*: the difference cut to `int` in `MsgAutoForward.cpp:143` is the
  identity for the clocks modelled.

## 7. Plan

Done: every component of section 1 but the network library has its model, each model
is checked, and the core of the robot has proofs.

Every safety invariant of the passing runs is proved for all values of the constants
(section 5), `DeliversRequest` of the well-formed requests; so are the type invariants.

Next:

* a grammar of the requests `DeliversWellFormed` leaves out: absolute URLs, CONNECT and
  Upgrade, version 0.9;
* the network library, should anything come to use it.
