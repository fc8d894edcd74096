------------------------------ MODULE DemoWindow ------------------------------
(***************************************************************************)
(* The UI thread of the demo (src/sdkdemo): WinMain's two GetMessage loops *)
(* and MainWnd's message handling, PreTranslateMessage, WndProc, OnMessage *)
(* and OnDefaultAction, which runs JoinRoom (join, publish, subscribe on   *)
(* the UI thread) the first time and a modal "OK!" box after that.         *)
(*                                                                         *)
(* The user's input reaches the thread's queue as window messages: WM_CHAR *)
(* for Return, Tab and Escape, WM_COMMAND for the Connect button, WM_CLOSE *)
(* and WM_PAINT (the renderer's InvalidateRect).  A handler runs to its    *)
(* end before the loop takes the next message, except in MessageBoxA,      *)
(* whose modal loop leaves the owner window disabled until the box is      *)
(* dismissed.  What JoinRoom does to the session is MediaSession's; what   *)
(* paint and the renderers do is VideoCapture's.  ui_ never becomes        *)
(* LIST_PEERS: SwitchToPeerList is never called; callback_ stays NULL, as  *)
(* RegisterObserver is never called.                                       *)
(***************************************************************************)
EXTENDS Naturals, Sequences

CONSTANTS
    Inputs,     \* the input the user may give: a subset of Msgs
    MaxInputs   \* bound on the number of inputs

Msgs == {"return", "tab", "escape", "button", "close", "paint"}

ASSUME Inputs \subseteq Msgs /\ MaxInputs \in Nat

VARIABLES
    ui,         \* MainWnd::ui_: "connect" (CONNECT_TO_SERVER) or "streaming"
    wnd,        \* MainWnd::wnd_: "live", or "null" once OnDestroyed ran
    destroyed,  \* MainWnd::destroyed_
    mediaCtrl,  \* MainWnd::media_ctrl_: "null" or "live"
    joins,      \* JoinRoom calls so far
    exitFlag,   \* MainWnd::exit_
    msgQueue,   \* the UI thread's queue of window messages
    quit,       \* PostQuitMessage was called: GetMessage returns 0 once the queue is empty
    modal,      \* OnDefaultAction's MessageBoxA is open
    inputs,     \* inputs given so far
    mainPc      \* WinMain: "loop1", "loop2", "returned", or "crashed"

winVars == <<ui, wnd, destroyed, mediaCtrl, joins, exitFlag, msgQueue, quit,
             modal, inputs, mainPc>>

(* MainWnd::MainWnd and MainWnd::Create, which WinMain calls first: the    *)
(* window exists, SwitchToConnectUI shows the connect controls;            *)
(* auto_connect_ is false, so no BM_CLICK is posted.                       *)
WindowInit ==
    /\ ui = "connect"
    /\ wnd = "live"
    /\ destroyed = FALSE
    /\ mediaCtrl = "null"
    /\ joins = 0
    /\ exitFlag = FALSE
    /\ msgQueue = << >>
    /\ quit = FALSE
    /\ modal = FALSE
    /\ inputs = 0
    /\ mainPc = "loop1"

Looping == mainPc \in {"loop1", "loop2"}

(* The user acts on the window: the message is queued for the UI thread.   *)
(* While the modal box is open the owner is disabled and takes no input.   *)
UserInput(m) ==
    /\ Looping /\ wnd = "live" /\ ~modal
    /\ inputs < MaxInputs
    /\ msgQueue' = Append(msgQueue, m)
    /\ inputs' = inputs + 1
    /\ UNCHANGED <<ui, wnd, destroyed, mediaCtrl, joins, exitFlag, quit, modal, mainPc>>

JoinRoom ==
    /\ mediaCtrl' = "live"
    /\ joins' = joins + 1
    /\ ui' = "streaming"

(* MainWnd::OnDefaultAction: JoinRoom in the connect UI, else the modal    *)
(* MessageBoxA.                                                            *)
OnDefaultAction ==
    \/ ui = "connect" /\ JoinRoom /\ UNCHANGED modal
    \/ ui # "connect" /\ modal' = TRUE /\ UNCHANGED <<ui, mediaCtrl, joins>>

(* Mutant: OnDestroyed run at the end of every outermost message.        *)
WndProcTailAlways(d) ==
    /\ quit' = TRUE
    /\ wnd' = "null"
    /\ destroyed' = FALSE

WndProcTail(d) ==
    IF d THEN /\ quit' = TRUE
              /\ wnd' = "null"
              /\ destroyed' = FALSE
         ELSE UNCHANGED <<quit, wnd, destroyed>>

(* WM_CLOSE: callback_ is NULL; MainWnd::Destroy runs DestroyWindow, whose *)
(* WM_DESTROY and WM_NCDESTROY are sent to WndProc nested in WM_CLOSE      *)
(* (WM_NCDESTROY sets destroyed_) and take the window's queued messages    *)
(* with it; then media_ctrl_->leave(), which dereferences NULL when no     *)
(* JoinRoom made a media control, and media_ctrl_.reset().  OnMessage then *)
(* sets exit_, and WndProc's tail runs OnDestroyed.                        *)
CloseWindow ==
    /\ msgQueue' = << >>
    /\ \/ /\ mediaCtrl = "null"
          /\ mainPc' = "crashed"
          /\ UNCHANGED <<wnd, destroyed, mediaCtrl, exitFlag, quit>>
       \/ /\ mediaCtrl = "live"
          /\ mediaCtrl' = "null"
          /\ exitFlag' = TRUE
          /\ WndProcTail(TRUE)
          /\ UNCHANGED mainPc

(* MainWnd::OnMessage for a message WndProc dispatches, then the end of   *)
(* WndProc: OnDefaultAction for the button's BN_CLICKED, CloseWindow for   *)
(* WM_CLOSE; OnPaint (VideoCapture's) and the WM_CHAR of Escape leave this *)
(* state alone.                                                            *)
OnMessage(m) ==
    \/ /\ m \in {"escape", "paint"}
       /\ WndProcTail(destroyed)
       /\ UNCHANGED <<ui, mediaCtrl, joins, exitFlag, modal, mainPc>>
    \/ /\ m = "button"
       /\ OnDefaultAction
       /\ WndProcTail(destroyed)
       /\ UNCHANGED <<exitFlag, mainPc>>
    \/ /\ m = "close"
       /\ CloseWindow
       /\ UNCHANGED <<ui, joins, modal>>

(* One turn of a GetMessage loop on a queued message; the second loop      *)
(* tests !Is_Close() before each GetMessage.  MainWnd::PreTranslateMessage *)
(* consumes Return, running OnDefaultAction outside any WndProc, and Tab   *)
(* (HandleTabbing moves the focus); Escape finds callback_ NULL and, like  *)
(* every other message, is dispatched to WndProc.                          *)
LoopStep ==
    /\ Looping /\ ~modal
    /\ mainPc = "loop2" => ~exitFlag
    /\ msgQueue # << >>
    /\ LET m == Head(msgQueue) IN
       \/ /\ m = "return"
          /\ msgQueue' = Tail(msgQueue)
          /\ OnDefaultAction
          /\ UNCHANGED <<wnd, destroyed, exitFlag, quit, mainPc>>
       \/ /\ m = "tab"
          /\ msgQueue' = Tail(msgQueue)
          /\ UNCHANGED <<ui, wnd, destroyed, mediaCtrl, joins, exitFlag, quit, modal, mainPc>>
       \/ /\ m \notin {"return", "tab"}
          /\ m # "close" => msgQueue' = Tail(msgQueue)
          /\ OnMessage(m)
    /\ UNCHANGED inputs

(* The user dismisses the "OK!" box; OnDefaultAction returns.              *)
ModalDismiss ==
    /\ modal
    /\ modal' = FALSE
    /\ UNCHANGED <<ui, wnd, destroyed, mediaCtrl, joins, exitFlag, msgQueue,
                   quit, inputs, mainPc>>

(* GetMessage returns 0 for WM_QUIT once no posted message is left: the    *)
(* first loop ends and the second one starts; the second ends WinMain.     *)
LoopQuit ==
    /\ Looping /\ ~modal
    /\ mainPc = "loop2" => ~exitFlag
    /\ msgQueue = << >> /\ quit
    /\ quit' = FALSE
    /\ mainPc' = IF mainPc = "loop1" THEN "loop2" ELSE "returned"
    /\ UNCHANGED <<ui, wnd, destroyed, mediaCtrl, joins, exitFlag, msgQueue,
                   modal, inputs>>

(* The second loop's !wnd->Is_Close() is false: CleanupSSL, return 0.      *)
Loop2Closed ==
    /\ mainPc = "loop2" /\ exitFlag
    /\ mainPc' = "returned"
    /\ UNCHANGED <<ui, wnd, destroyed, mediaCtrl, joins, exitFlag, msgQueue,
                   quit, modal, inputs>>

(* The steps of the UI thread itself, as opposed to the user's.           *)
WindowThread == LoopStep \/ LoopQuit \/ Loop2Closed

WindowNext ==
    \/ \E m \in Inputs : UserInput(m)
    \/ WindowThread \/ ModalDismiss

(* The UI thread has stopped: WinMain returned or crashed, or GetMessage   *)
(* waits for input that no longer comes: the user gives no more, or the   *)
(* window is gone.                                                         *)
WindowStopped ==
    \/ mainPc \in {"returned", "crashed"}
    \/ /\ Looping /\ ~modal /\ msgQueue = << >> /\ ~quit
       /\ (inputs = MaxInputs \/ wnd = "null")
       /\ (mainPc = "loop2" => ~exitFlag)

====
