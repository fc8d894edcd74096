------------------------------ MODULE FrameScale -----------------------------
(***************************************************************************)
(* lazyscale of src/mssdk/lazyutil/lbscale.h: scale, toi420, fromi420 and  *)
(* scalei420, the pixel-format pipeline DestopCapture runs on every        *)
(* captured window image (video_capture.cpp 408-412, 555-558), with the    *)
(* two scratch buffers the object keeps from one frame to the next.       *)
(*                                                                         *)
(* Data abstraction.  A buffer holds Garbage or a picture [fmt, w, h, pic]:*)
(* fmt is the byte order in memory, named as the comments of toi420 name  *)
(* each FOURCC ("B G R A" for FOURCC_BGRA), and pic is "P" for the         *)
(* captured picture or "Wrong" once a libyuv routine read it in another    *)
(* byte order or as another format.  The libyuv routines are described by *)
(* the memory order they read or write.  Sizes are counted as the code     *)
(* counts them (w * h * 3 / 2 bytes for I420).                             *)
(***************************************************************************)
EXTENDS Integers, TLC

CONSTANT Garbage

\* The memory order each FOURCC stands for, from the comments of toi420.
MemOrder == ("I420" :> "I420") @@ ("YV12" :> "YV12") @@ ("NV12" :> "NV12")
            @@ ("NV21" :> "NV21") @@ ("YUY2" :> "YUY2") @@ ("ARGB" :> "ARGB")
            @@ ("BGRA" :> "BGRA") @@ ("BGR3" :> "BGR") @@ ("RGB3" :> "RGB")
            @@ ("RGBA" :> "RGBA") @@ ("ABGR" :> "ABGR")

FourCCs == DOMAIN MemOrder

\* The memory order the routine toi420 calls for a FOURCC reads (lines
\* 209-318): YV12 and I420 are plain copies; ARGBToI420 reads b,g,r,a for
\* both ARGB and BGRA, RGB24ToI420 b,g,r, RAWToI420 r,g,b, ABGRToI420
\* r,g,b,a and RGBAToI420 a,b,g,r.
ToI420Reads == ("I420" :> "I420") @@ ("YV12" :> "YV12") @@ ("NV12" :> "NV12")
               @@ ("NV21" :> "NV21") @@ ("YUY2" :> "YUY2") @@ ("ARGB" :> "BGRA")
               @@ ("BGRA" :> "BGRA") @@ ("BGR3" :> "BGR") @@ ("RGB3" :> "RGB")
               @@ ("RGBA" :> "RGBA") @@ ("ABGR" :> "ABGR")

\* What toi420 returns: the memcpy cases set 1 (I420) or nothing (YV12,
\* which keeps -1); a libyuv routine returns 0.
ToI420Ret(f) == CASE f = "I420" -> 1 [] f = "YV12" -> -1 [] OTHER -> 0

\* The memory order fromi420 writes for a FOURCC (lines 334-430):
\* I420ToBGRA writes a,r,g,b for ARGB, I420ToARGB b,g,r,a for BGRA,
\* I420ToABGR r,g,b,a for RGBA; ABGR has no case.
FromI420Writes == ("YV12" :> "YV12") @@ ("NV21" :> "NV21") @@ ("NV12" :> "NV12")
                  @@ ("YUY2" :> "YUY2") @@ ("ARGB" :> "ARGB") @@ ("BGRA" :> "BGRA")
                  @@ ("BGR3" :> "BGR") @@ ("RGB3" :> "RGB") @@ ("RGBA" :> "RGBA")

I420Size(w, h) == (w * h * 3) \div 2

\* The bytes an I420 write at w x h reaches: libyuv writes (h + 1) / 2
\* chroma rows of (w + 1) / 2 bytes with the stride w / 2 the code passes,
\* the V plane starting at w * h * 5 / 4.  It equals I420Size for even w, h.
I420Extent(w, h) ==
    (w * h * 5) \div 4 + (w \div 2) * ((h + 1) \div 2 - 1) + (w + 1) \div 2

\* A routine that reads buffer content c as memory order `order` at w x h
\* and writes memory order `out` at ow x oh.
Convert(c, order, w, h, out, ow, oh) ==
    [fmt |-> out, w |-> ow, h |-> oh,
     pic |-> IF c # Garbage /\ c.fmt = order /\ c.w = w /\ c.h = h /\ c.pic = "P"
             THEN "P" ELSE "Wrong"]

(***************************************************************************)
(* The state of one scale call: the buffers (src = psrc, dst = pdst, i420  *)
(* = _i420_data, scale = _scale_data), the allocated and recorded sizes of *)
(* the scratch buffers, which the object keeps between calls, the return   *)
(* value, and overflow, set when a routine writes more bytes than the      *)
(* buffer it writes has.                                                   *)
(***************************************************************************)
Write(s, buf, content, size) ==
    LET cap == CASE buf = "i420" -> s.i420Cap [] buf = "scale" -> s.scaleCap
                 [] buf = "dst" -> s.len [] OTHER -> size
    IN  [s EXCEPT !.bufs[buf] = content, !.overflow = @ \/ size > cap]

\* A libyuv conversion refuses an empty picture: it writes nothing and
\* returns -1 when the width or the height is 0.
Empty(w, h) == w = 0 \/ h = 0

\* toi420 (lines 200-326): the conversion into pdst; an unknown FOURCC
\* writes nothing and returns -1.  Its assert on len always holds, as scale
\* passes exactly srcw * srch * 3 / 2.
ToI420(s, from, srcf, w, h, to) ==
    IF srcf \notin DOMAIN ToI420Reads \/ (srcf \notin {"I420", "YV12"} /\ Empty(w, h))
    THEN [s EXCEPT !.ret = -1]
    ELSE [Write(s, to, Convert(s.bufs[from], ToI420Reads[srcf], w, h, "I420", w, h),
                IF srcf = "YV12" THEN I420Size(w, h) ELSE I420Extent(w, h))
          EXCEPT !.ret = ToI420Ret(srcf)]

\* The bytes a picture of FOURCC f takes at w x h, as the asserts of
\* fromi420 and the memcpy of scale count them.
PicSize(f, w, h) ==
    CASE f \in {"I420", "YV12"}         -> I420Size(w, h)
      [] f \in {"NV12", "NV21", "YUY2"} -> w * h * 2
      [] f \in {"BGR3", "RGB3"}         -> w * h * 3
      [] OTHER                          -> w * h * 4

\* fromi420 (lines 328-437) for the FOURCCs scale reaches it with (never
\* I420, which scale does not convert back): YV12 copies the planes and
\* returns 1, the others call libyuv, ABGR is unknown and returns -1.
FromI420(s, from, w, h, dstf) ==
    IF dstf \notin DOMAIN FromI420Writes \/ (dstf # "YV12" /\ Empty(w, h))
    THEN [s EXCEPT !.ret = -1]
    ELSE [Write(s, "dst", Convert(s.bufs[from], "I420", w, h, FromI420Writes[dstf], w, h),
                PicSize(dstf, w, h))
          EXCEPT !.ret = IF dstf = "YV12" THEN 1 ELSE 0]

\* scalei420 (lines 439-449): I420Scale, which reads the buffer as I420.
ScaleI420(s, from, srcw, srch, to, dstw, dsth) ==
    IF Empty(srcw, srch) \/ Empty(dstw, dsth) THEN [s EXCEPT !.ret = -1]
    ELSE [Write(s, to, Convert(s.bufs[from], "I420", srcw, srch, "I420", dstw, dsth),
                I420Extent(dstw, dsth))
          EXCEPT !.ret = 0]

\* Mutant: the buffer is allocated once, when it is still NULL.
ReserveWhenNull(s, buf, need) ==
    IF buf = "i420"
    THEN [s EXCEPT !.i420Cap = IF s.i420Cap = 0 THEN need ELSE @, !.i420Len = need]
    ELSE [s EXCEPT !.scaleCap = IF s.scaleCap = 0 THEN need ELSE @, !.scaleLen = need]

\* The scratch buffer `buf` made ready for `need` bytes (lines 117-125 for
\* _i420_data, 160-170 for _scale_data): reallocated when the recorded size
\* is smaller, and the recorded size set to need in every case.
Reserve(s, buf, need) ==
    IF buf = "i420"
    THEN [s EXCEPT !.i420Cap = IF s.i420Len < need THEN need ELSE @, !.i420Len = need]
    ELSE [s EXCEPT !.scaleCap = IF s.scaleLen < need THEN need ELSE @, !.scaleLen = need]

\* Mutant: toi420 always writes into _i420_data.
ToI420TargetScratch(srcw, srch, dstf, dstw, dsth) == "i420"

\* Where toi420 writes (lines 112-126): straight into pdst when the result
\* is already the requested I420 picture, else into _i420_data.
ToI420Target(srcw, srch, dstf, dstw, dsth) ==
    IF srcw = dstw /\ srch = dsth /\ dstf = "I420" THEN "dst" ELSE "i420"

\* The second half of scale (lines 152-196): I420Scale from buffer `from`
\* into pdst (I420 result) or _scale_data when the size changes, returning
\* its error, then fromi420 into pdst unless the result is I420.
ScaleTail(s, from, srcw, srch, dstf, dstw, dsth) ==
    LET resize == srcw # dstw \/ srch # dsth
        into   == IF dstf = "I420" THEN "dst" ELSE "scale"
        s1     == IF ~resize THEN s
                  ELSE ScaleI420(IF into = "scale" THEN Reserve(s, "scale", I420Size(dstw, dsth)) ELSE s,
                                 from, srcw, srch, into, dstw, dsth)
        from1  == IF resize THEN into ELSE from
    IN  IF resize /\ s1.ret < 0 THEN s1
        ELSE IF dstf # "I420" THEN FromI420(s1, from1, dstw, dsth, dstf) ELSE s1

RGBAFamily == {"BGRA", "ARGB", "RGBA", "ABGR"}

\* lazyscale::scale (lines 94-198) on the state s of the object and its
\* buffers: a zero destination size means the source size; two different
\* FOURCCs go through I420 (toi420 unless the source is I420); the same
\* 32-bit FOURCC is copied or ARGBScale'd; any other same FOURCC falls
\* through to the I420 scaling and fromi420.
Scale(s, srcf, srcw, srch, dstf, dstw0, dsth0) ==
    LET dstw == IF dstw0 = 0 \/ dsth0 = 0 THEN srcw ELSE dstw0
        dsth == IF dstw0 = 0 \/ dsth0 = 0 THEN srch ELSE dsth0
        src  == s.bufs["src"]
    IN  IF srcf # dstf /\ srcf # "I420"
        THEN LET to == ToI420Target(srcw, srch, dstf, dstw, dsth)
                 s1 == ToI420(IF to = "i420" THEN Reserve(s, "i420", I420Size(srcw, srch)) ELSE s,
                              "src", srcf, srcw, srch, to)
             IN  IF s1.ret < 0 THEN s1 ELSE ScaleTail(s1, to, srcw, srch, dstf, dstw, dsth)
        ELSE IF srcf = dstf /\ srcf \in RGBAFamily
        THEN [Write(s, "dst", Convert(src, MemOrder[srcf], srcw, srch, MemOrder[srcf], dstw, dsth),
                    PicSize(srcf, dstw, dsth))
              EXCEPT !.ret = 0]
        ELSE ScaleTail(s, "src", srcw, srch, dstf, dstw, dsth)

=============================================================================
