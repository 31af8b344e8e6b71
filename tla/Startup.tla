------------------------------ MODULE Startup ------------------------------
(***************************************************************************)
(* How the robot gets into WeChat and learns of the login: InjectDll of    *)
(* CInjectTools.cpp with its callers in Main.cpp, the helper's start-up    *)
(* (dllmain.cpp, InitWindow of WndMsgLoop.cpp, InitWeChat.cpp), the login  *)
(* dialog (WeChatRobotDlg.cpp) and the hook that saves the QR code         *)
(* (Login.cpp).                                                            *)
(*                                                                         *)
(* Three programs run side by side: the robot, WeChat, and the helper that *)
(* lives and dies with WeChat.  They find each other by the titles of      *)
(* their windows: "Login" and the main window are the robot's,             *)
(* "WeChatHelper" is the helper's.  The robot is built as the project file *)
(* says, without DEBUG.                                                    *)
(***************************************************************************)
EXTENDS Naturals

VARIABLES
    wechat,   \* "closed", "loggedOut" or "loggedIn"
    version,  \* is it the WeChat the offsets were made for?
    helper,   \* how far InitWindow has come
    watcher,  \* the thread CheckIsLogin
    robot,    \* the window the robot shows
    own,      \* wxPid is the WeChat this robot has opened
    qr,       \* [code, back, file]: the hooked code, backCode, qrcode.png
    starts,   \* bound: starts of the robot
    alone     \* history: why nobody tells the login dialog of the login

startupVars == <<wechat, version, helper, watcher, robot, own, qr, starts, alone>>

StartupTypeOK ==
    /\ wechat \in {"closed", "loggedOut", "loggedIn"}
    /\ version \in BOOLEAN
    /\ helper \in {"none", "loaded", "hooking", "hooked", "window", "refused"}
    /\ watcher \in {"none", "looking", "calling", "ended"}
    /\ robot \in {"off", "injecting", "injected", "login", "main"}
    /\ own \in BOOLEAN
    /\ qr \in [code : {"call", "jump"}, back : {"zero", "call", "jump"},
               file : BOOLEAN]
    /\ starts \in Nat
    /\ alone \subseteq {"repeat", "notLoaded", "early", "version", "closed"}

Unhooked == [code |-> "call", back |-> "zero", file |-> FALSE]

StartupInit ==
    /\ wechat \in {"closed", "loggedOut", "loggedIn"} /\ version \in BOOLEAN
    /\ helper = "none" /\ watcher = "none"
    /\ robot = "off" /\ own = FALSE
    /\ qr = Unhooked /\ starts = 0 /\ alone = {}

LoginWindow == robot \in {"login", "main"}  \* hidden, but there, behind the main one
MainWindow == robot = "main"
HelperWindow == helper = "window"
FriendHook == helper \in {"hooked", "window"}
-----------------------------------------------------------------------------
\* InitInstance comes to Inject; the mutex admits one robot.
StartRobot ==
    /\ robot = "off"
    /\ robot' = "injecting" /\ own' = FALSE /\ starts' = starts + 1
    /\ alone' = {}
    /\ UNCHANGED <<wechat, version, helper, watcher, qr>>

\* No process of that name: WeChat is looked up in the registry and started,
\* and InjectDll goes on when its login window is there.
OpenWeChat ==
    /\ robot = "injecting" /\ wechat = "closed"
    /\ wechat' = "loggedOut" /\ own' = TRUE
    /\ UNCHANGED <<version, helper, watcher, robot, qr, starts, alone>>

\* CheckIsInject: the module is there, or the modules cannot be listed,
\* which it reports alike.
AlreadyInjected ==
    /\ robot = "injecting" /\ wechat # "closed"
    /\ robot' = "injected" /\ alone' = alone \cup {"repeat"}
    /\ UNCHANGED <<wechat, version, helper, watcher, own, qr, starts>>

\* LoadLibraryA on a thread in WeChat; nobody waits for it.
LoadHelper ==
    /\ robot = "injecting" /\ wechat # "closed" /\ helper = "none"
    /\ helper' = "loaded" /\ robot' = "injected"
    /\ UNCHANGED <<wechat, version, watcher, own, qr, starts, alone>>

\* LoadLibraryA finds no helper in the directory the robot was started from:
\* nobody looks at what it returned.
LoadFails ==
    /\ robot = "injecting" /\ wechat # "closed" /\ helper = "none"
    /\ robot' = "injected" /\ alone' = alone \cup {"notLoaded"}
    /\ UNCHANGED <<wechat, version, helper, watcher, own, qr, starts>>

\* A step of the injection fails: ExitProcess.
InjectFails ==
    /\ robot = "injecting" /\ wechat # "closed" /\ helper = "none"
    /\ robot' = "off"
    /\ UNCHANGED <<wechat, version, helper, watcher, own, qr, starts, alone>>

OpenLogin ==
    /\ robot = "injected"
    /\ robot' = "login"
    /\ UNCHANGED <<wechat, version, helper, watcher, own, qr, starts, alone>>
-----------------------------------------------------------------------------
\* InitWindow, before the hooks: the version, then the login.
InitWindow ==
    /\ helper = "loaded"
    /\ \/ /\ ~version
          /\ helper' = "refused" /\ alone' = alone \cup {"version"}
          /\ UNCHANGED <<watcher, robot>>
       \/ /\ version /\ wechat = "loggedOut"
          /\ helper' = "hooking" /\ watcher' = "looking"
          /\ UNCHANGED <<robot, alone>>
       \/ /\ version /\ wechat = "loggedIn" /\ LoginWindow
          /\ helper' = "refused" /\ robot' = "off"  \* WM_AlreadyLogin
          /\ UNCHANGED <<watcher, alone>>
       \/ /\ version /\ wechat = "loggedIn" /\ ~LoginWindow
          /\ helper' = "refused" /\ alone' = alone \cup {"early"}
          /\ UNCHANGED <<watcher, robot>>
    /\ UNCHANGED <<wechat, version, own, qr, starts>>

\* The five hooks, in the order of the code; the window comes last.
SetHooks ==
    /\ helper = "hooking"
    /\ helper' = "hooked"
    /\ UNCHANGED <<wechat, version, watcher, robot, own, qr, starts, alone>>

RegisterWindow ==
    /\ helper = "hooked"
    /\ helper' = "window"
    /\ UNCHANGED <<wechat, version, watcher, robot, own, qr, starts, alone>>

\* CheckIsLogin looks once, whoever is there.
CheckOnce ==
    /\ watcher = "looking"
    /\ watcher' = IF wechat = "loggedIn" /\ LoginWindow THEN "calling" ELSE "ended"
    /\ robot' = IF wechat = "loggedIn" /\ LoginWindow THEN "main" ELSE robot
    /\ UNCHANGED <<wechat, version, helper, own, qr, starts, alone>>

\* CheckIsLogin: WM_Login is answered by the whole life of the main window,
\* and without a dialog the thread ends for good.
CheckIsLogin ==
    /\ watcher = "looking" /\ wechat = "loggedIn"
    /\ IF LoginWindow
       THEN watcher' = "calling" /\ robot' = "main" /\ UNCHANGED alone
       ELSE watcher' = "ended" /\ alone' = alone \cup {"early"} /\ UNCHANGED robot
    /\ UNCHANGED <<wechat, version, helper, own, qr, starts>>
-----------------------------------------------------------------------------
\* SC_CLOSE of the login dialog: TerminateProcess, for a WeChat of its own.
WeChatGone ==
    /\ wechat' = "closed" /\ helper' = "none" /\ watcher' = "none"
    /\ qr' = [Unhooked EXCEPT !.file = qr.file]

CloseLogin ==
    /\ robot = "login"
    /\ robot' = "off"
    /\ IF own THEN WeChatGone ELSE UNCHANGED <<wechat, helper, watcher, qr>>
    /\ UNCHANGED <<version, own, starts, alone>>

\* The robot ends, whichever window it shows; SendMessage to it returns.
RobotDies ==
    /\ robot' = "off"
    /\ watcher' = IF watcher = "calling" THEN "ended" ELSE watcher
    /\ UNCHANGED <<wechat, version, helper, own, qr, starts, alone>>

\* The main window closes, and with it the dialog it was opened from.
CloseMain == robot = "main" /\ RobotDies

\* HookQrCode saves the five bytes that are there, its own jump included.
HookQrCode == qr' = [qr EXCEPT !.back = qr.code, !.code = "jump"]

\* OnBnClickedShowQrpic uses the window it has found without a look at it.
ShowQrPicture ==
    /\ robot = "login"
    /\ IF HelperWindow THEN HookQrCode /\ UNCHANGED robot
       ELSE robot' = "off" /\ UNCHANGED qr
    /\ UNCHANGED <<wechat, version, helper, watcher, own, starts, alone>>

\* ShowPicture, 200 ms later, whatever the file is by then.
ShowPicture ==
    /\ robot = "login" /\ qr.file
    /\ qr' = [qr EXCEPT !.file = FALSE]
    /\ UNCHANGED <<wechat, version, helper, watcher, robot, own, starts, alone>>

\* WeChat comes to the hooked code: SaveImg, then UnHookQrCode.
SaveImg ==
    /\ qr.code = "jump" /\ wechat = "loggedOut"
    /\ qr' = [qr EXCEPT !.file = TRUE, !.code = qr.back]
    /\ UNCHANGED <<wechat, version, helper, watcher, robot, own, starts, alone>>
-----------------------------------------------------------------------------
\* What WeChat and its user do.
Login ==
    /\ wechat = "loggedOut"
    /\ wechat' = "loggedIn"
    /\ UNCHANGED <<version, helper, watcher, robot, own, qr, starts, alone>>

LogoutWeChat ==
    /\ wechat = "loggedIn"
    /\ wechat' = "loggedOut"
    /\ UNCHANGED <<version, helper, watcher, robot, own, qr, starts, alone>>

ReopenWeChat ==
    /\ wechat = "closed" /\ robot # "injecting"
    /\ wechat' = "loggedOut"
    /\ UNCHANGED <<version, helper, watcher, robot, own, qr, starts, alone>>

ExitWeChat ==
    /\ wechat # "closed" /\ WeChatGone
    /\ alone' = alone \cup {"closed"}
    /\ UNCHANGED <<version, robot, own, starts>>
-----------------------------------------------------------------------------
\* A login dialog nobody will tell that WeChat is logged in.
Stuck ==
    /\ robot = "login" /\ wechat = "loggedIn"
    /\ helper # "loaded" /\ watcher # "looking"

\* A robot that waits in its login dialog for a login that has taken place,
\* with no thread left to tell it, has one of five reasons: the helper was
\* there before it (or could not be looked for), or was not loaded, the login
\* was seen before the dialog was there, WeChat has the wrong version, or was
\* closed since.
StuckForAReason == Stuck => alone # {}
=============================================================================
