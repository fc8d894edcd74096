----------------------------- MODULE VideoCapture -----------------------------
(***************************************************************************)
(* DestopCapture of src/mssdk/peerconnection/video_capture.cpp, the video  *)
(* source PeerConnectionClient::CreateVideoTrack builds for every publish  *)
(* (CustomCaptureTrackSource::create(NULL, 1280, 720, 30, 0)): the         *)
(* constructor and Init, the capture thread WindowCaptureProgress with     *)
(* UpdateImage and DeliverImage, and the destructor's Deinit and Stop.     *)
(* DeliverImage runs lazyscale::scale (FrameScale) on the object Init      *)
(* allocated, so the scratch buffers live from frame to frame.             *)
(*                                                                         *)
(* Every frame DeliverImage hands to OnFrame reaches, through the track's  *)
(* broadcaster, the local VideoRenderer of the demo window (src/sdkdemo/   *)
(* main_wnd.cc), which converts it into its own image_ on the capture      *)
(* thread while the UI thread paints image_ into the window.               *)
(*                                                                         *)
(* The GDI calls are abstracted to what they decide: the size of the       *)
(* window (the environment may resize it at any time) and the picture     *)
(* GetDIBits writes into image_data_.  The 50 ms sleep, OnFrame and the    *)
(* video adapter do not change this state.                                 *)
(***************************************************************************)
EXTENDS FrameScale

CONSTANTS WindowSizes,  \* the <<width, height>> the window may have
          TargetSize    \* the <<width, height>> of buffer_ (1280 x 720)

VARIABLES capObj,     \* the DestopCapture object: "none", "alive", "gone"
          scaleObj,   \* the lazyscale object scale_ points to: "none", "live", "freed"
          scalePtr,   \* scale_ # NULL
          scaler,     \* the scratch-buffer fields of that lazyscale object
          capThread,  \* cap_thread_ # nullptr
          bRunning,   \* bRunning_
          tpc,        \* where the capture thread is
          dpc,        \* where the destructor is
          window,     \* the window's current size
          image,      \* image_data_size_, image_width_, image_height_, image_data_
          overrun,    \* some write went past the buffer it writes
          frameBuf,   \* the picture in buffer_, the I420 frame DeliverImage sends
          rendObj,    \* the demo's local VideoRenderer: "none", "live", "gone"
          rendLock,   \* who holds its buffer_lock_: "free", "capture", "ui"
          rendBmi,    \* its bmi_ header: biWidth, biHeight, biSizeImage
          rimg,       \* its image_: [size, data]
          uiPc,       \* the UI thread in OnPaint: "idle" or "draw" (lock held)
          shown       \* what the last StretchDIBits of OnPaint read from image_

renderVars == <<rendObj, rendLock, rendBmi, rimg, uiPc, shown>>

capVars == <<capObj, scaleObj, scalePtr, scaler, capThread, bRunning, tpc, dpc,
             window, image, overrun, frameBuf, renderVars>>

\* image_ of a renderer: null, or the array SetSize allocated and has not
\* written yet (shaped as the pictures of FrameScale, to compare with them).
NoData == [fmt |-> "null", w |-> 0, h |-> 0, pic |-> "none"]
Fresh  == [fmt |-> "uninit", w |-> 0, h |-> 0, pic |-> "none"]

\* The capture thread inside broadcaster_.OnFrame, delivering to the renderer.
InBroadcast == {"rlock", "rsize", "rwrite"}

\* No renderer yet.
RenderInit ==
    /\ rendObj = "none" /\ rendLock = "free" /\ uiPc = "idle"
    /\ rendBmi = [biWidth |-> 0, biHeight |-> 0, biSizeImage |-> 0]
    /\ rimg = [size |-> 0, data |-> NoData]
    /\ shown = [data |-> NoData, over |-> FALSE]

\* The lazyscale constructor (lbscale.h 68-76): no scratch buffer yet.
NewScaler == [i420Len |-> 0, i420Cap |-> 0, scaleLen |-> 0, scaleCap |-> 0]

NoImage == [size |-> 0, w |-> 0, h |-> 0, data |-> Garbage]

CaptureInit ==
    /\ capObj = "none"
    /\ scaleObj = "none" /\ scalePtr = FALSE /\ scaler = NewScaler /\ capThread = FALSE
    /\ bRunning \in BOOLEAN      \* bRunning_ is never initialised
    /\ tpc = "none" /\ dpc = "idle"
    /\ window \in WindowSizes
    /\ image = NoImage
    /\ overrun = FALSE
    /\ frameBuf = Garbage
    /\ RenderInit

\* The constructor and Init (lines 175-218): image fields zeroed, buffer_
\* created at the target size (I420Buffer::Create leaves it uninitialised)
\* and a fresh lazyscale allocated.
DestopInit ==
    /\ scaleObj' = "live" /\ scalePtr' = TRUE /\ scaler' = NewScaler
    /\ image' = NoImage
    /\ frameBuf' = Garbage

\* Start (lines 583-591): a capture thread, unless one is already there.
StartThread ==
    /\ ~capThread
    /\ capThread' = TRUE /\ tpc' = "begin"

\* CustomCaptureTrackSource::create (lines 618-641): construct, then Start.
Create ==
    /\ capObj = "none"
    /\ capObj' = "alive"
    /\ DestopInit
    /\ StartThread
    /\ UNCHANGED <<bRunning, dpc, window, overrun, renderVars>>

\* The first statement of the thread (lines 263-269): bRunning_ = true.
ThreadBegin ==
    /\ tpc = "begin"
    /\ bRunning' = TRUE /\ tpc' = "check"
    /\ UNCHANGED <<capObj, scaleObj, scalePtr, scaler, capThread, dpc, window, image, overrun,
                   frameBuf, renderVars>>

\* while (bRunning_) (lines 271-277).
ThreadCheck ==
    /\ tpc = "check"
    /\ tpc' = IF bRunning THEN "update" ELSE "exited"
    /\ UNCHANGED <<capObj, scaleObj, scalePtr, scaler, capThread, bRunning, dpc, window, image, overrun,
                   frameBuf, renderVars>>

\* InitBitMapInfo (lines 599-616) for UpdateImage's call (top2bottom):
\* a top-down header whose biSizeImage counts 4 bytes a pixel, whatever
\* bit count the display reports.
InitBitMapInfo(width, height) ==
    [biWidth |-> width, biHeight |-> -height, biSizeImage |-> width * height * 4]

\* UpdateImage (lines 279-399) on image and the window size: nothing for an
\* empty window; a new image_data_ with the window's size fields when the
\* byte size width * height * 4 differs from image_data_size_; then
\* GetDIBits writes the window's BGRA picture into image_data_.  The
\* result also tells whether that write went past image_data_size_.
UpdateImage(img, win) ==
    LET bmi   == InitBitMapInfo(win[1], win[2])
        bytes == bmi.biSizeImage
        fresh == IF bytes # img.size /\ bmi.biWidth # 0 /\ bmi.biHeight # 0
                 THEN [size |-> bytes, w |-> win[1], h |-> win[2], data |-> Garbage]
                 ELSE img
    IN  IF Empty(win[1], win[2]) THEN [img |-> img, over |-> FALSE]
        ELSE [img  |-> [fresh EXCEPT !.data = [fmt |-> "BGRA", w |-> win[1], h |-> win[2], pic |-> "P"]],
              over |-> bytes > fresh.size]

Update ==
    /\ tpc = "update"
    /\ LET u == UpdateImage(image, window)
       IN  image' = u.img /\ overrun' = (overrun \/ u.over)
    /\ tpc' = "deliver"
    /\ UNCHANGED <<capObj, scaleObj, scalePtr, scaler, capThread, bRunning, dpc, window,
                   frameBuf, renderVars>>

\* DeliverImage (lines 401-408): if (scale_) reads the pointer.
DeliverCheck ==
    /\ tpc = "deliver"
    /\ tpc' = IF scalePtr THEN "scale" ELSE "frame"
    /\ UNCHANGED <<capObj, scaleObj, scalePtr, scaler, capThread, bRunning, dpc, window, image, overrun,
                   frameBuf, renderVars>>

\* DeliverImage (lines 409-415): scale_->scale(image_data_, BGRA,
\* image_width_, image_height_, buffer_, w * h * 3 / 2, I420, w, h).
DeliverScale ==
    /\ tpc = "scale"
    /\ LET st == scaler @@
                 [bufs |-> ("src" :> image.data) @@ ("dst" :> frameBuf)
                           @@ ("i420" :> Garbage) @@ ("scale" :> Garbage),
                  len |-> I420Size(TargetSize[1], TargetSize[2]), ret |-> -1, overflow |-> FALSE]
           r  == Scale(st, "BGRA", image.w, image.h, "I420", TargetSize[1], TargetSize[2])
       IN  /\ scaler' = [f \in DOMAIN NewScaler |-> r[f]]
           /\ overrun' = (overrun \/ r.overflow)
           /\ frameBuf' = r.bufs["dst"]
    /\ tpc' = "frame"
    /\ UNCHANGED <<capObj, scaleObj, scalePtr, capThread, bRunning, dpc, window, image,
                   renderVars>>

\* The window is resized by its user.
Resize ==
    /\ capObj = "alive"
    /\ window' \in WindowSizes \ {window}
    /\ UNCHANGED <<capObj, scaleObj, scalePtr, scaler, capThread, bRunning, tpc, dpc, image, overrun,
                   frameBuf, renderVars>>

\* ~DestopCapture calls Deinit (lines 188-190, 220-222): bRunning_ = false.
DeinitBegin ==
    /\ capObj = "alive" /\ dpc = "idle"
    /\ rendObj # "live"         \* the renderer's rendered_track_ keeps the source
    /\ bRunning' = FALSE /\ dpc' = "join"
    /\ UNCHANGED <<capObj, scaleObj, scalePtr, scaler, capThread, tpc, window, image, overrun,
                   frameBuf, renderVars>>

\* Mutant: Stop returns without waiting for the thread.
StopNoWait ==
    /\ dpc = "join" /\ capThread
    /\ capThread' = FALSE /\ dpc' = "free"
    /\ UNCHANGED <<capObj, scaleObj, scalePtr, scaler, bRunning, tpc, window, image, overrun,
                   frameBuf, renderVars>>

\* Stop (lines 593-597): cap_thread_->join() returns once the thread has
\* left its loop; then cap_thread_.reset().
StopJoin ==
    /\ dpc = "join" /\ capThread
    /\ tpc = "exited"
    /\ capThread' = FALSE /\ dpc' = "free"
    /\ UNCHANGED <<capObj, scaleObj, scalePtr, scaler, bRunning, tpc, window, image, overrun,
                   frameBuf, renderVars>>

\* The rest of Deinit (lines 225-229): delete scale_, scale_ = NULL.
DeinitFree ==
    /\ dpc = "free"
    /\ scaleObj' = "freed" /\ scalePtr' = FALSE /\ capObj' = "gone" /\ dpc' = "done"
    /\ UNCHANGED <<scaler, capThread, bRunning, tpc, window, image, overrun,
                   frameBuf, renderVars>>

(***************************************************************************)
(* The frame path into the demo's local renderer.                         *)
(***************************************************************************)

\* DestopCapture::OnFrame (video_capture.cpp 232-262), called by
\* DeliverImage with a frame over buffer_ itself: the video adapter may drop
\* the frame; otherwise broadcaster_.OnFrame hands it, holding the
\* broadcaster's lock, to each registered sink, here the local renderer.
CaptureOnFrame ==
    /\ tpc = "frame"
    /\ \E adapted \in BOOLEAN :
          tpc' = IF adapted /\ rendObj = "live" THEN "rlock" ELSE "check"
    /\ UNCHANGED <<capObj, scaleObj, scalePtr, scaler, capThread, bRunning, dpc, window,
                   image, overrun, frameBuf, renderVars>>

\* Mutant: OnFrame goes on without taking buffer_lock_.
RendererLockNone ==
    /\ tpc = "rlock"
    /\ tpc' = "rsize"
    /\ UNCHANGED <<rendLock>>

\* VideoRenderer::OnFrame (main_wnd.cc 773-797) on the capture thread:
\* AutoLock takes buffer_lock_ (ToI420 of an I420 buffer is the buffer
\* itself and the rotation is 0).
RendererLock ==
    /\ tpc = "rlock" /\ rendLock = "free"
    /\ rendLock' = "capture" /\ tpc' = "rsize"

RendererOnFrame ==
    /\ RendererLock
    /\ UNCHANGED <<capObj, scaleObj, scalePtr, scaler, capThread, bRunning, dpc, window,
                   image, overrun, frameBuf, rendObj, rendBmi, rimg, uiPc, shown>>

\* SetSize (main_wnd.cc 759-771) for a w x h frame, under the recursive
\* buffer_lock_: it keeps bmi_ and image_ only when w and h equal biWidth and
\* biHeight, but biHeight holds -height, so for any frame it rewrites the
\* header and replaces image_ by a new, uninitialised array of w * h * 4.
SetSize(b, img, w, h) ==
    IF w = b.biWidth /\ h = b.biHeight THEN [bmi |-> b, img |-> img]
    ELSE [bmi |-> [biWidth |-> w, biHeight |-> -h, biSizeImage |-> w * h * 4],
          img |-> [size |-> w * h * 4, data |-> Fresh]]

RendererSetSize ==
    /\ tpc = "rsize"
    /\ LET r == SetSize(rendBmi, rimg, TargetSize[1], TargetSize[2])
       IN  rendBmi' = r.bmi /\ rimg' = r.img
    /\ tpc' = "rwrite"
    /\ UNCHANGED <<capObj, scaleObj, scalePtr, scaler, capThread, bRunning, dpc, window,
                   image, overrun, frameBuf, rendObj, rendLock, uiPc, shown>>

\* I420ToARGB from buffer_ into image_ (b,g,r,a in memory) with the stride
\* biWidth * 4, then the lock is released; InvalidateRect only asks for a
\* paint, which OnPaint below may do at any time.
RendererWrite ==
    /\ tpc = "rwrite"
    /\ rimg' = [rimg EXCEPT !.data = Convert(frameBuf, "I420", TargetSize[1], TargetSize[2],
                                              "BGRA", TargetSize[1], TargetSize[2])]
    /\ overrun' = (overrun \/ TargetSize[1] * TargetSize[2] * 4 > rimg.size)
    /\ rendLock' = "free"
    /\ tpc' = "check"
    /\ UNCHANGED <<capObj, scaleObj, scalePtr, scaler, capThread, bRunning, dpc, window,
                   image, frameBuf, rendObj, rendBmi, uiPc, shown>>

\* The VideoRenderer constructor (main_wnd.cc 732-751) at AddRender's
\* 1 x 1: a top-down header of 32 bits a pixel; image_ stays null.
NewRendererBmi == [biWidth |-> 1, biHeight |-> -1, biSizeImage |-> 1 * 1 * (32 \div 8)]

\* MainWnd::AddRender (main_wnd.cc 309-326) for the local track, which the
\* UI thread runs once enable_video created it: a new renderer that
\* registers itself as a sink of the track (BaseCapture::AddOrUpdateSink,
\* video_capture.cpp 23-28).  One window, one renderer: the full-list and
\* same-track returns never apply.
AddRender ==
    /\ capObj = "alive" /\ dpc = "idle" /\ rendObj = "none"
    /\ rendObj' = "live"
    /\ rendBmi' = NewRendererBmi
    /\ rimg' = [size |-> 0, data |-> NoData]
    /\ UNCHANGED <<capObj, scaleObj, scalePtr, scaler, capThread, bRunning, tpc, dpc, window,
                   image, overrun, frameBuf, rendLock, uiPc, shown>>

\* OnPaint (main_wnd.cc 447) in the streaming UI, for the renderer:
\* Lock, on the UI thread.
PaintLock ==
    /\ rendObj = "live" /\ uiPc = "idle" /\ rendLock = "free"
    /\ rendLock' = "ui" /\ uiPc' = "draw"
    /\ UNCHANGED <<capObj, scaleObj, scalePtr, scaler, capThread, bRunning, tpc, dpc, window,
                   image, overrun, frameBuf, rendObj, rendBmi, rimg, shown>>

\* StretchDIBits of image() as |biWidth| x |biHeight| pixels of 4 bytes
\* (a null image_ draws nothing), then Unlock.
PaintDraw ==
    /\ uiPc = "draw"
    /\ shown' = IF rimg.data = NoData THEN shown
                 ELSE [data |-> rimg.data,
                       over |-> (IF rendBmi.biWidth < 0 THEN -rendBmi.biWidth ELSE rendBmi.biWidth)
                                * (IF rendBmi.biHeight < 0 THEN -rendBmi.biHeight ELSE rendBmi.biHeight)
                                * 4 > rimg.size]
    /\ rendLock' = "free" /\ uiPc' = "idle"
    /\ UNCHANGED <<capObj, scaleObj, scalePtr, scaler, capThread, bRunning, tpc, dpc, window,
                   image, overrun, frameBuf, rendObj, rendBmi, rimg>>

\* Mutant: the renderer is deleted while the capture thread is inside it.
RendererDestroyNoWait ==
    /\ rendObj = "live" /\ uiPc = "idle"
    /\ rendObj' = "gone"

\* MainWnd::Destroy (main_wnd.cc 174-183): render_list_.clear() deletes the
\* renderer, whose destructor (main_wnd.cc 753-756) calls RemoveSink
\* (video_capture.cpp 29-34); the broadcaster's RemoveSink takes the lock
\* its OnFrame holds, so it returns once the capture thread left the sink.
RendererDestroy ==
    /\ rendObj = "live" /\ uiPc = "idle"
    /\ tpc \notin InBroadcast
    /\ rendObj' = "gone"

RendererRemove ==
    /\ RendererDestroy
    /\ UNCHANGED <<capObj, scaleObj, scalePtr, scaler, capThread, bRunning, tpc, dpc, window,
                   image, overrun, frameBuf, rendLock, rendBmi, rimg, uiPc, shown>>

CaptureNext ==
    \/ Create \/ ThreadBegin \/ ThreadCheck \/ Update \/ DeliverCheck
    \/ DeliverScale \/ Resize \/ DeinitBegin \/ StopJoin \/ DeinitFree
    \/ CaptureOnFrame \/ RendererOnFrame \/ RendererSetSize \/ RendererWrite
    \/ AddRender \/ PaintLock \/ PaintDraw \/ RendererRemove

=============================================================================
