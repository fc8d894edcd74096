----------------------------- MODULE MC_SdpUtil -----------------------------
(***************************************************************************)
(* Bounded check of the parser.cpp helpers.  Each initial state is one     *)
(* helper and its input, e.g. a section of at most MaxLines a=ssrc lines   *)
(* over the SSRCs MC_Ids, with no group, one FID or one SIM group, which   *)
(* getRtpEncodings reads and addLegacySimulcast rewrites for every         *)
(* numStreams of MC_NumStreams; the properties compare the helpers'        *)
(* results with what spec.md (4.1, 8) says of them.                        *)
(***************************************************************************)
EXTENDS SdpUtil, SdpParse, SdpLists, VideoCapture, DemoWindow, SequencesExt

VARIABLES helper, section, doc, offer, answer, text, frames, listIn

helperVars == <<helper, section, doc, offer, answer, text, frames, listIn>>

vars == <<helperVars, capVars, winVars>>

MaxLines == 4
MC_Width == 3
\* 7 + 2 wraps modulo 2^3; 4 and 1 give disjoint runs of 3
MC_Ids == {1, 4, 7}
MC_NumStreams == 1 .. 3

ValueOf(a) == CASE a = "cname" -> <<"c1">>
                [] a = "msid"  -> <<"stream1", "track1">>
                [] OTHER       -> <<>>

Lines == {[id |-> i, attribute |-> a, value |-> ValueOf(a)] :
              i \in MC_Ids, a \in {"cname", "msid", NoAttr}}

Groups == {<<>>} \cup
          {<<[semantics |-> sem, ssrcs |-> pair]>> :
              sem \in {"FID", "SIM"},
              pair \in {p \in MC_Ids \X MC_Ids : p[1] # p[2]}}

Sections == [ssrcs : BoundedSeq(Lines, MaxLines), ssrcGroups : Groups]

(***************************************************************************)
(* The vocabulary of texts: the numerals and floats the fmtp values and    *)
(* rtpmap encodings use, the std::map order of the parameter keys, and the *)
(* lower-case form of the MIME types the SFU sends.                        *)
(***************************************************************************)
MC_Numeral == ("0" :> 0) @@ ("1" :> 1) @@ ("2" :> 2) @@ ("10" :> 10) @@ ("96" :> 96)
              @@ ("111" :> 111)
MC_Decimal == {"0.5"}
MC_KeyRank == ("apt" :> 1) @@ ("minptime" :> 2) @@ ("packetization-mode" :> 3)
              @@ ("profile-id" :> 4) @@ ("profile-level-id" :> 5)
              @@ ("sprop-stereo" :> 6) @@ ("stereo" :> 7) @@ ("useinbandfec" :> 8)
MC_Lowercase == ("audio/opus" :> "audio/opus") @@ ("audio/OPUS" :> "audio/opus")
                @@ ("video/VP8" :> "video/vp8")

KV(k, v) == [key |-> k, eq |-> TRUE, val |-> v]

(***************************************************************************)
(* Media sections as libwebrtc writes them in an offer, and two that it    *)
(* does not (an rtcp-fb wildcard, a non-numeric profile-id).               *)
(***************************************************************************)
Rtp(pt, codec, rate, enc) == [payload |-> pt, codec |-> codec, rate |-> rate, encoding |-> enc]
Fb(pt, type, sub) == [payload |-> pt, type |-> type, subtype |-> sub]
Ext(uri, id) == [uri |-> uri, value |-> id]
MSection(type, rtp, fmtp, fb, ext) ==
    [type |-> type, rtp |-> rtp, fmtp |-> fmtp, rtcpFb |-> fb, ext |-> ext]

AudioOpus == MSection("audio", <<Rtp(111, "opus", 48000, "2"), Rtp(0, "PCMU", 8000, Null)>>,
                 <<[payload |-> 111, config |-> <<KV("minptime", "10"), Blank, KV("useinbandfec", "1")>>]>>,
                 <<Fb("111", "transport-cc", Null)>>, <<Ext("audio-level", 1)>>)
AudioPcmu == MSection("audio", <<Rtp(0, "PCMU", 8000, "1")>>, <<>>, <<>>, <<Ext("mid", 4)>>)
VideoVp8  == MSection("video", <<Rtp(96, "VP8", 90000, Null), Rtp(97, "rtx", 90000, Null)>>,
                 <<[payload |-> 97, config |-> <<KV("apt", "96")>>]>>,
                 <<Fb("96", "nack", Null), Fb("96", "nack", "pli"), Fb("97", "ccm", "fir")>>,
                 <<Ext("toffset", 2), Ext("abs-send-time", 3)>>)
VideoVp9  == MSection("video", <<Rtp(98, "VP9", 90000, Null)>>,
                 <<[payload |-> 98, config |-> <<KV("profile-id", "0")>>],
                   [payload |-> 98, config |-> <<KV("profile-id", "2")>>]>>,
                 <<Fb("98", "goog-remb", Null)>>, <<>>)
VideoH264 == MSection("video", <<Rtp(100, "H264", 90000, Null)>>,
                 <<[payload |-> 100, config |-> <<KV("profile-level-id", "42e01f"),
                                                  KV("packetization-mode", "1")>>]>>,
                 <<>>, <<>>)
Data      == MSection("application", <<>>, <<>>, <<>>, <<>>)
Wildcard  == MSection("video", <<Rtp(96, "VP8", 90000, Null)>>, <<>>,
                 <<Fb("*", "nack", Null)>>, <<>>)
BadProfile == MSection("video", <<Rtp(98, "VP9", 90000, Null)>>,
                 <<[payload |-> 98, config |-> <<KV("profile-id", "x")>>]>>, <<>>, <<>>)

Docs == [media : BoundedSeq({AudioOpus, AudioPcmu, VideoVp8, VideoVp9, VideoH264, Data,
                             Wildcard, BadProfile}, 3)]

(***************************************************************************)
(* applyCodecParameters inputs: the consumer's codecs as the SFU sends     *)
(* them and an answer section whose opus fmtp config has up to two pieces. *)
(***************************************************************************)
Pieces == {Blank, Bad} \cup
          {[key |-> k, eq |-> e, val |-> IF e THEN v ELSE ""] :
              k \in {"minptime", "stereo", "useinbandfec"}, e \in BOOLEAN,
              v \in {"", "1", "0.5", "x"}}
SpropStereo == {EmptyObject} \cup {"sprop-stereo" :> v : v \in {JBool(TRUE), JBool(FALSE), JInt(1)}}
OfferCodecs == {[mimeType |-> mt, payloadType |-> 111, parameters |-> ps] :
                    mt \in DOMAIN MC_Lowercase, ps \in SpropStereo}
Offers == [codecs : BoundedSeq(OfferCodecs, 1)]
Answers == [rtp : {<<>>, <<[payload |-> 111]>>},
            fmtp : {<<>>} \cup {<<[payload |-> pt, config |-> c]>> :
                                   pt \in {0, 111}, c \in BoundedSeq(Pieces, 2)}]

(***************************************************************************)
(* parse inputs: a grammar with the rule shapes of spec 3 (a rule that    *)
(* writes its name, a named object, the cursor object itself, and push    *)
(* rules, one of them a catch-all that every a= content matches after     *)
(* more specific rules), and SDP texts of at most MaxText lines over the   *)
(* contents below, an invalid line and a line type with no rules.        *)
(***************************************************************************)
MaxText == 3

Rule(name, push, names, types, reg) ==
    [name |-> name, push |-> push, names |-> names, types |-> types, reg |-> reg]

AContents == {"rtpmap:96 VP8/10", "mid:0", "mid:", "ssrc:1 cname:x", "ssrc:1 cname",
              "rtcp:1", "foo"}

\* a regex matching the contents of the table, and no other content of AContents
OnA(table) == [c \in AContents |-> IF c \in DOMAIN table THEN table[c] ELSE NoMatch]

MC_Grammar ==
    ("v" :> <<Rule("version", "", <<>>, <<"d">>, ("0" :> <<"0">>))>>)
 @@ ("s" :> <<Rule("name", "", <<>>, <<"s">>, [c \in {"-", ""} |-> <<c>>])>>)
 @@ ("c" :> <<Rule("connection", "", <<"version", "ip">>, <<"d", "s">>,
                  ("IN IP1 x" :> <<"1", "x">>))>>)
 @@ ("m" :> <<Rule("", "", <<"type", "port", "protocol", "payloads">>, <<"s", "d", "s", "s">>,
                  ("audio 1 RTP 111" :> <<"audio", "1", "RTP", "111">>)
                  @@ ("video 1 RTP 96" :> <<"video", "1", "RTP", "96">>))>>)
 @@ ("a" :> <<Rule("", "rtp", <<"payload", "codec", "rate">>, <<"d", "s", "d">>,
                  OnA("rtpmap:96 VP8/10" :> <<"96", "VP8", "10">>)),
              Rule("mid", "", <<>>, <<"s">>, OnA(("mid:0" :> <<"0">>) @@ ("mid:" :> <<"">>))),
              Rule("", "ssrcs", <<"id", "attribute", "value">>, <<"d", "s", "s">>,
                  OnA(("ssrc:1 cname:x" :> <<"1", "cname", "x">>)
                      @@ ("ssrc:1 cname" :> <<"1", "cname", "">>))),
              Rule("rtcp", "", <<"port">>, <<"d">>, OnA("rtcp:1" :> <<"1">>)),
              Rule("", "invalid", <<"value">>, <<"s">>, [c \in AContents |-> <<c>>])>>)

SdpLines == {Invalid, [type |-> "z", content |-> "x"]} \cup
            UNION {{[type |-> t, content |-> c] : c \in DOMAIN MC_Grammar[t][1].reg} :
                   t \in DOMAIN MC_Grammar}

(***************************************************************************)
(* The calls of lazyscale::scale: the FOURCCs a capture source delivers   *)
(* (BGRA from the GDI capture, the YUV layouts and RGB24 of cameras) and  *)
(* the ones an encoder takes, even and odd source sizes (a window of any  *)
(* size), and destination sizes 0 x 0 (keep the source size), the same or *)
(* a larger one.  len is the                                               *)
(* size of the destination picture, as DestopCapture passes it.  A run of  *)
(* MaxFrames calls on one lazyscale object reuses its scratch buffers.    *)
(***************************************************************************)
MaxFrames == 2
MC_SrcFourCCs == {"BGRA", "I420", "NV12", "YV12", "RGB3"}
MC_DstFourCCs == {"I420", "NV12", "BGRA", "YV12"}
Calls == [srcf : MC_SrcFourCCs, src : {<<2, 2>>, <<4, 2>>, <<3, 3>>},
          dstf : MC_DstFourCCs, dst : {<<0, 0>>, <<2, 2>>, <<4, 4>>}]

\* The destination size scale settles on (lines 100-104).
DstDim(c) == IF c.dst[1] = 0 \/ c.dst[2] = 0 THEN c.src ELSE c.dst

\* The state of call c on an object whose scratch buffers are obj.
CallState(obj, c) ==
    obj @@
    [bufs |-> ("src" :> [fmt |-> MemOrder[c.srcf], w |-> c.src[1], h |-> c.src[2], pic |-> "P"])
              @@ ("dst" :> Garbage) @@ ("i420" :> Garbage) @@ ("scale" :> Garbage),
     len |-> PicSize(c.dstf, DstDim(c)[1], DstDim(c)[2]), ret |-> -1, overflow |-> FALSE]

\* The states after each call of the sequence, one object throughout.
Results(cs) ==
    FoldLeft(LAMBDA acc, c :
                LET obj == IF acc = <<>> THEN NewScaler
                           ELSE [f \in DOMAIN NewScaler |-> Last(acc)[f]]
                IN  Append(acc, Scale(CallState(obj, c), c.srcf, c.src[1], c.src[2],
                                      c.dstf, c.dst[1], c.dst[2])),
             <<>>, cs)

(***************************************************************************)
(* The capture: a target of 2 x 2 for 1280 x 720, and windows that are     *)
(* empty, the target's size, larger, and of the same byte size in two     *)
(* shapes.                                                                 *)
(***************************************************************************)
MC_TargetSize == <<2, 2>>
\* every kind of input, four of them: a join, two later default actions and a close
MC_Inputs == Msgs
MC_MaxInputs == 4
MC_WindowSizes == {<<0, 0>>, <<2, 2>>, <<4, 2>>, <<2, 4>>}

(***************************************************************************)
(* Inputs of the list parsers.  Payload texts are every text of at most   *)
(* four characters over a digit pair, a letter and the space: leading,    *)
(* doubled and trailing spaces and tokens with trailing junk all occur.   *)
(* Simulcast and imageattr inputs are lists as an SDP writer would give   *)
(* them, written to text by the reference writers below.                  *)
(***************************************************************************)
MaxPayloadText == 4
PayloadTexts == BoundedSeq({"1", "2", "a", " "}, MaxPayloadText)

\* scids of one and two characters, paused or not; one or two formats per
\* stream, at most two streams
ScidTexts == {<<"1">>, <<"1", "2">>}
StreamLists == BoundedSeq(BoundedSeq([scid : ScidTexts, paused : BOOLEAN], 2) \ {<<>>}, 2)

\* imageattr objects with keys x < y and values an integer or a word,
\* at most two of them, or the single item "*"
AttrPair(k) == [k : {k}, v : {"1", "a"}]
AttrObjects == {<<p>> : p \in AttrPair("x") \cup AttrPair("y")}
               \cup {<<p, q>> : p \in AttrPair("x"), q \in AttrPair("y")}
AttrLists == [star : {FALSE}, items : BoundedSeq(AttrObjects, 2)]
             \cup {[star |-> TRUE, items |-> <<>>]}

Init ==
    /\ helper \in {"section", "extractRtpCapabilities",
                   "applyCodecParameters", "parse", "scale", "capture", "window",
                   "payloads", "simulcast", "imageattr"}
    /\ WindowInit
    /\ IF helper = "capture" THEN CaptureInit
       ELSE /\ capObj = "none" /\ scaleObj = "none" /\ scalePtr = FALSE
            /\ scaler = NewScaler /\ capThread = FALSE /\ bRunning = FALSE
            /\ tpc = "none" /\ dpc = "idle" /\ window = <<0, 0>>
            /\ image = NoImage /\ overrun = FALSE
            /\ frameBuf = Garbage /\ RenderInit
    /\ doc \in IF helper = "extractRtpCapabilities" THEN Docs ELSE {[media |-> <<>>]}
    /\ offer \in IF helper = "applyCodecParameters" THEN Offers ELSE {[codecs |-> <<>>]}
    /\ answer \in IF helper = "applyCodecParameters" THEN Answers ELSE {[rtp |-> <<>>, fmtp |-> <<>>]}
    /\ text \in IF helper = "parse" THEN BoundedSeq(SdpLines, MaxText) ELSE {<<>>}
    /\ listIn \in CASE helper = "payloads"  -> PayloadTexts
                   [] helper = "simulcast" -> StreamLists
                   [] helper = "imageattr" -> AttrLists
                   [] OTHER                -> {<<>>}
    /\ frames \in IF helper = "scale" THEN BoundedSeq(Calls, MaxFrames) \ {<<>>} ELSE {<<>>}
    /\ section \in IF helper = "section"
                   THEN Sections ELSE {[ssrcs |-> <<>>, ssrcGroups |-> <<>>]}

(***************************************************************************)
(* A helper call is evaluated once and the state does not change; the     *)
(* capture object goes through its life, which ends when the destructor   *)
(* has freed it and the thread has left its loop; the demo's UI thread     *)
(* takes the user's input until WinMain returns or the input runs out.     *)
(***************************************************************************)
Next ==
    \/ helper \notin {"capture", "window"} /\ UNCHANGED vars
    \/ helper = "capture" /\ CaptureNext /\ UNCHANGED <<helperVars, winVars>>
    \/ helper = "capture" /\ capObj = "gone" /\ tpc = "exited" /\ UNCHANGED vars
    \/ helper = "window" /\ WindowNext /\ UNCHANGED <<helperVars, capVars>>
    \/ helper = "window" /\ WindowStopped /\ UNCHANGED vars

(***************************************************************************)
(* Fairness: the demo's UI thread is the only thread of WinMain and takes  *)
(* a queued message, or WM_QUIT once the queue is empty, whenever it can;  *)
(* the user, who queues input and dismisses the box, is never forced to.   *)
(* The helpers and the capture object need no fairness: their properties  *)
(* are invariants.                                                         *)
(***************************************************************************)
Spec == Init /\ [][Next]_vars
        /\ WF_vars(helper = "window" /\ WindowThread /\ UNCHANGED <<helperVars, capVars>>)

(***************************************************************************)
(* The SSRCs of the simulcast streams the spec asks for: n consecutive     *)
(* consecutive (uint32_t) SSRCs from the primary, and as many consecutive  *)
(* RTX SSRCs from the primary's RTX when it has one.                       *)
(***************************************************************************)
Primary == CHOOSE s \in SsrcIds(section) :
               s \notin {g.ssrcs[2] : g \in GroupsOf(section, "FID")}
RtxOfPrimary == {g.ssrcs[2] : g \in {h \in GroupsOf(section, "FID") : h.ssrcs[1] = Primary}}
Prims(n) == [i \in 1 .. n |-> (Primary + i - 1) % SsrcMod]
Rtxs(n) == IF RtxOfPrimary = {} THEN <<>>
           ELSE [i \in 1 .. n |->
                     ((CHOOSE r \in RtxOfPrimary : TRUE) + i - 1) % SsrcMod]

\* a single-stream section with msid and cname whose synthesized SSRCs
\* do not collide with the synthesized RTX SSRCs
SimulcastApplies(n) ==
    /\ n > 1
    /\ SingleStream(section)
    /\ HasAttr(section, "msid") /\ HasAttr(section, "cname")
    /\ ToSet(Prims(n)) \cap ToSet(Rtxs(n)) = {}

Out(n) == AddLegacySimulcast(section, n)

(***************************************************************************)
(* SSRC pairing (spec 4.1 and 8): for a section whose a=ssrc lines are     *)
(* grouped per SSRC and whose FID groups pair distinct SSRCs,              *)
(* getRtpEncodings returns each non-RTX SSRC exactly once, an FID primary  *)
(* carries its RTX SSRC, no RTX SSRC is a standalone encoding, and a       *)
(* section with no a=ssrc line throws.  Breaks if the dedup (list.unique), *)
(* the RTX removal or the ssrc-to-rtx map of parser.cpp 790-853 is wrong.  *)
(***************************************************************************)
SsrcPairing ==
    helper = "section" =>
    LET e   == GetRtpEncodings(section)
        rtx == {g.ssrcs[2] : g \in GroupsOf(section, "FID")}
    IN  /\ section.ssrcs = <<>> => e = Throw
        /\ section.ssrcs # <<>> /\ Grouped(section) /\ FidsWellFormed(section) =>
              /\ Len(e) = Cardinality(SsrcIds(section) \ rtx)
              /\ {e[k].ssrc : k \in DOMAIN e} = SsrcIds(section) \ rtx
              /\ \A k \in DOMAIN e :
                    e[k].rtx = IF \E g \in GroupsOf(section, "FID") : g.ssrcs[1] = e[k].ssrc
                               THEN (CHOOSE g \in GroupsOf(section, "FID") :
                                         g.ssrcs[1] = e[k].ssrc).ssrcs[2]
                               ELSE NoSsrc

(***************************************************************************)
(* Legacy simulcast synthesis (spec 4.1 and 8): addLegacySimulcast leaves  *)
(* the section alone for numStreams <= 1 and throws when the msid or the   *)
(* cname line is missing; otherwise the section ends up with exactly one   *)
(* SIM group listing the consecutive primaries, one FID group per primary  *)
(* and its RTX, and exactly one cname and one msid line per SSRC carrying  *)
(* the original cname and msid.  Breaks on an off-by-one in the SSRC loop, *)
(* a lost FID group or a wrong line of parser.cpp 597-763.                 *)
(***************************************************************************)
LegacySimulcastSynthesis ==
    helper = "section" =>
    \A n \in MC_NumStreams :
    LET out == Out(n) IN
    /\ n <= 1 => out = section
    /\ n > 1 /\ ~(HasAttr(section, "msid") /\ HasAttr(section, "cname"))
          => out = Throw
    /\ SimulcastApplies(n) =>
          /\ out # Throw
          /\ GroupsOf(out, "SIM") = {[semantics |-> "SIM", ssrcs |-> Prims(n)]}
          /\ GroupsOf(out, "FID") =
                {[semantics |-> "FID", ssrcs |-> <<Prims(n)[i], Rtxs(n)[i]>>] : i \in DOMAIN Rtxs(n)}
          /\ Len(out.ssrcGroups) = 1 + Len(Rtxs(n))
          /\ SsrcIds(out) = ToSet(Prims(n)) \cup ToSet(Rtxs(n))
          /\ \A s \in SsrcIds(out), a \in {"cname", "msid"} :
                LET at == {i \in DOMAIN out.ssrcs :
                              out.ssrcs[i].id = s /\ out.ssrcs[i].attribute = a}
                IN  /\ Cardinality(at) = 1
                    /\ \A i \in at : out.ssrcs[i].value = AttrValue(section, a)
          /\ Len(out.ssrcs) = 2 * Cardinality(SsrcIds(out))

(***************************************************************************)
(* The VP9 SVC path of send (media_control.cpp 301-328) reads the          *)
(* rewritten section back: getRtpEncodings must give one encoding per      *)
(* synthesized stream, in order, each paired with its synthesized RTX, and *)
(* getCname the original cname.  This holds only if addLegacySimulcast     *)
(* writes each SSRC's lines together and the cname line first.             *)
(***************************************************************************)
SimulcastEncodings ==
    helper = "section" =>
    \A n \in MC_NumStreams :
    SimulcastApplies(n) =>
    /\ GetRtpEncodings(Out(n)) =
          [i \in 1 .. n |->
              [ssrc |-> Prims(n)[i], rtx |-> IF Rtxs(n) = <<>> THEN NoSsrc ELSE Rtxs(n)[i]]]
    /\ GetCname(Out(n)) = AttrValue(section, "cname")

(***************************************************************************)
(* The sections extractRtpCapabilities should read: the first audio and   *)
(* the first video section, in document order.                             *)
(***************************************************************************)
FirstOf(kind) == SelectInSeq(doc.media, LAMBDA m : m.type = kind)
TakenSeq == SelectSeq(<<FirstOf("audio"), FirstOf("video")>>, LAMBDA i : i # 0)
Taken == ToSet(TakenSeq)
Pts(i) == {doc.media[i].rtp[j].payload : j \in DOMAIN doc.media[i].rtp}

\* what libwebrtc writes: numeric rtcp-fb payloads and profile-id values
WellTyped(i) ==
    /\ \A j \in DOMAIN doc.media[i].rtcpFb : doc.media[i].rtcpFb[j].payload \in DOMAIN Numeral
    /\ \A f \in ToSet(doc.media[i].fmtp) : \A pc \in ToSet(f.config) :
          pc \notin {Blank, Bad} /\ pc.key = "profile-id" => pc.val \in DOMAIN Numeral

\* the parameters of the last a=fmtp line of section i for payload pt
FmtpParams(i, pt) ==
    LET at == SelectLastInSeq(doc.media[i].fmtp, LAMBDA f : f.payload = pt)
    IN  IF at = 0 THEN EmptyObject
        ELSE ProfileIdToInt(ParseParams(doc.media[i].fmtp[at].config))

(***************************************************************************)
(* Capabilities (spec 4.1, 8 "Dedup invariant"): when the payload types of *)
(* the first audio and first video sections are distinct, the result has   *)
(* exactly one codec per payload type of those two sections, in payload    *)
(* order, each with its kind, MIME type, clock rate and channels, the      *)
(* parameters of its last a=fmtp line and its a=rtcp-fb lines in order;    *)
(* later sections of the same kind contribute nothing, and the header      *)
(* extensions are those of the two sections in document order.             *)
(***************************************************************************)
CapabilitiesFromFirstSections ==
    helper = "extractRtpCapabilities"
    /\ (\A a, b \in Taken : a # b => Pts(a) \cap Pts(b) = {})
    /\ (\A a \in Taken : WellTyped(a))
    =>
    \A caps \in {ExtractRtpCapabilities(doc)} :
    caps # Throw /\
    \A cs   \in {caps.codecs} :
        /\ {cs[k].preferredPayloadType : k \in DOMAIN cs} = UNION {Pts(i) : i \in Taken}
        /\ \A k \in DOMAIN cs, l \in DOMAIN cs :
              k < l => cs[k].preferredPayloadType < cs[l].preferredPayloadType
        /\ \A k \in DOMAIN cs :
           \A pt \in {cs[k].preferredPayloadType} :
           \A at \in {CHOOSE a \in Taken : pt \in Pts(a)} :
           \A m  \in {doc.media[at]} :
           \A r  \in {m.rtp[SelectLastInSeq(m.rtp, LAMBDA x : x.payload = pt)]} :
                  /\ cs[k].kind = m.type
                  /\ cs[k].mimeType = <<m.type, r.codec>>
                  /\ cs[k].clockRate = r.rate
                  /\ cs[k].channels = IF m.type = "video" THEN Null
                                      ELSE IF r.encoding = Null THEN 1
                                      ELSE Numeral[r.encoding]
                  /\ cs[k].parameters = FmtpParams(at, pt)
                  /\ cs[k].rtcpFeedback =
                        LET fbs == SelectSeq(m.rtcpFb, LAMBDA f : Numeral[f.payload] = pt)
                        IN  [n \in DOMAIN fbs |-> [type |-> fbs[n].type, parameter |-> fbs[n].subtype]]
        /\ caps.headerExtensions =
              FlattenSeq([t \in DOMAIN TakenSeq |->
                  LET m == doc.media[TakenSeq[t]]
                  IN  [n \in DOMAIN m.ext |->
                          [kind |-> m.type, uri |-> m.ext[n].uri, preferredId |-> m.ext[n].value]]])

\* every fmtp piece is "key=value" with a value, as libwebrtc writes them
Valued(ans) ==
    \A f \in ToSet(ans.fmtp) : \A pc \in ToSet(f.config) :
        pc \notin {Blank, Bad} => pc.eq /\ pc.val # ""

IsOpusAt(c, ans) ==
    /\ Lowercase[c.mimeType] = "audio/opus"
    /\ \E j \in DOMAIN ans.rtp : ans.rtp[j].payload = c.payloadType

ConfigOf(ans, pt) ==
    LET at == SelectInSeq(ans.fmtp, LAMBDA f : f.payload = pt)
    IN  IF at = 0 THEN <<>> ELSE ans.fmtp[at].config

(***************************************************************************)
(* Codec parameters (spec 4.1): after applyCodecParameters, the answer's   *)
(* a=fmtp config of every opus codec (any case) with an rtpmap in the      *)
(* answer, re-read by parseParams, keeps every parameter it had and adds   *)
(* nothing but "stereo", which is 1/0 when the offer's sprop-stereo is a   *)
(* boolean and otherwise keeps its old value; the rtp lines and the fmtp   *)
(* lines of other payloads are untouched.  Breaks if the merge, the write  *)
(* back (applyCodecParameters 910-927) or the parser disagree.             *)
(***************************************************************************)
CodecParametersMerged ==
    helper = "applyCodecParameters" /\ Valued(answer) =>
    LET out == ApplyCodecParameters(offer, answer)
    IN  /\ out.rtp = answer.rtp
        /\ \A f \in ToSet(answer.fmtp) :
              (\A c \in ToSet(offer.codecs) : ~(IsOpusAt(c, answer) /\ c.payloadType = f.payload))
              => f \in ToSet(out.fmtp)
        /\ \A c \in ToSet(offer.codecs) : IsOpusAt(c, answer) =>
              LET before == ParseParams(ConfigOf(answer, c.payloadType))
                  after  == ParseParams(ConfigOf(out, c.payloadType))
                  sprop  == IF "sprop-stereo" \in DOMAIN c.parameters
                            THEN c.parameters["sprop-stereo"] ELSE Null
              IN  /\ SelectInSeq(out.fmtp, LAMBDA f : f.payload = c.payloadType) # 0
                  /\ DOMAIN after \subseteq DOMAIN before \cup {"stereo"}
                  /\ \A key \in DOMAIN before \ {"stereo"} :
                        key \in DOMAIN after /\ after[key] = before[key]
                  /\ sprop = JBool(TRUE)  => after["stereo"] = JInt(1)
                  /\ sprop = JBool(FALSE) => after["stereo"] = JInt(0)
                  /\ sprop \notin {JBool(TRUE), JBool(FALSE)} /\ "stereo" \in DOMAIN before
                        => after["stereo"] = before["stereo"]


(***************************************************************************)
(* References for parse, written from the contract of spec 4.1: the rule  *)
(* a line is given to (the first, in table order, whose pattern matches),  *)
(* the segments of the text (the lines before the first m= line, then     *)
(* each m= line with the lines up to the next one), and a segment applied  *)
(* to a fixed object.                                                      *)
(***************************************************************************)
Applies(l) == l # Invalid /\ l.type \in DOMAIN MC_Grammar
              /\ \E i \in DOMAIN MC_Grammar[l.type] : MC_Grammar[l.type][i].reg[l.content] # NoMatch

RuleOf(l) ==
    LET rs == MC_Grammar[l.type]
        i  == CHOOSE i \in DOMAIN rs : rs[i].reg[l.content] # NoMatch
                                       /\ \A j \in 1 .. i - 1 : rs[j].reg[l.content] = NoMatch
    IN  rs[i]

MPos == SelectSeq([i \in DOMAIN text |-> i], LAMBDA i : text[i] # Invalid /\ text[i].type = "m")

Segment(k) ==
    LET first == IF k = 0 THEN 1 ELSE MPos[k]
        last  == IF k = Len(MPos) THEN Len(text) ELSE MPos[k + 1] - 1
    IN  SubSeq(text, first, last)

ApplySegment(o, seg) ==
    FoldLeft(LAMBDA acc, l : IF Applies(l) THEN ParseReg(RuleOf(l), acc, l.content) ELSE acc,
             o, seg)

SegmentObject(k) == IF k = 0 THEN ApplySegment(EmptyObject, Segment(0))
                    ELSE ApplySegment(NewMedia, Segment(k))

ParsedObject(k) == LET d == Parse(text)
                   IN  IF k = 0 THEN Restrict(d, DOMAIN d \ {"media"}) ELSE d["media"].arr[k].obj

(***************************************************************************)
(* Cursor routing (spec 4.1): parse yields one media object per m= line,  *)
(* in order, and every other line lands in the session object before the  *)
(* first m= line and in the latest media object after it, as if each      *)
(* segment were parsed on its own.  Breaks if the cursor is not moved to  *)
(* the new section (parse 60-71) or the media objects alias.              *)
(***************************************************************************)
CursorRouting ==
    helper = "parse" =>
    /\ Len(Parse(text)["media"].arr) = Len(MPos)
    /\ \A k \in 0 .. Len(MPos) : ParsedObject(k) = SegmentObject(k)

\* The object a push rule appends for the captures, written from the rule
\* schema: each non-empty capture under its name, coerced to its type.
RefElement(r, caps) ==
    LET idx == {j \in 1 .. Len(r.names) : j <= Len(caps) /\ caps[j] # ""}
    IN  [key \in {r.names[j] : j \in idx} |->
            LET j == CHOOSE j \in idx : r.names[j] = key IN ToType(caps[j], r.types[j])]

(***************************************************************************)
(* Push rules (spec 3 and 4.1): in every object of the tree, the array of *)
(* a push rule holds one element per line of its segment given to that    *)
(* rule, in line order, each carrying exactly the non-empty captures,     *)
(* typed; with no such line the key is absent.  Breaks if the array is    *)
(* recreated on a later line (parseReg 216-219) or an empty capture is    *)
(* written (attachProperties 260).                                        *)
(***************************************************************************)
PushedElements ==
    helper = "parse" =>
    \A k \in 0 .. Len(MPos), t \in DOMAIN MC_Grammar :
       \A r \in ToSet(MC_Grammar[t]) : r.push # "" =>
          LET hits == SelectSeq(Segment(k), LAMBDA l : Applies(l) /\ RuleOf(l) = r)
              o    == ParsedObject(k)
          IN  IF hits = <<>>
              THEN r.push \in DOMAIN o => o[r.push].arr = <<>>
              ELSE /\ r.push \in DOMAIN o
                   /\ o[r.push].arr = [i \in DOMAIN hits |-> JObj(RefElement(r, r.reg[hits[i].content]))]

JsonType(v) == CHOOSE f \in DOMAIN v : TRUE
Declared(ty) == CASE ty = "s" -> "str" [] ty \in {"d", "u"} -> "int" [] ty = "f" -> "float"

(***************************************************************************)
(* Field types (spec 4.1): every field a rule that is not a push rule     *)
(* wrote, on the cursor object or inside its named object, has the JSON   *)
(* type the rule declares for it.  Breaks if a capture is coerced with    *)
(* the type of another capture (attachProperties 262).                    *)
(***************************************************************************)
FieldTypes ==
    helper = "parse" =>
    \A k \in 0 .. Len(MPos), t \in DOMAIN MC_Grammar :
       \A r \in ToSet(MC_Grammar[t]) : r.push = "" =>
          LET o == ParsedObject(k)
          IN  \A i \in DOMAIN r.types :
                 LET key == IF r.names = <<>> THEN r.name ELSE r.names[i]
                     at  == IF NeedsBlank(r)
                            THEN IF r.name \in DOMAIN o THEN o[r.name].obj ELSE EmptyObject
                            ELSE o
                 IN  key \in DOMAIN at => JsonType(at[key]) = Declared(r.types[i])

(***************************************************************************)
(* Frame delivered: a scale call that converts between two FOURCCs, or    *)
(* copies or resizes a 32-bit one, and returns success has left in pdst   *)
(* the captured picture, in the destination's byte order and size; the    *)
(* BGRA to I420 call of DestopCapture always succeeds.  Breaks if toi420   *)
(* writes into the scratch buffer when nothing follows to move the result *)
(* into pdst (lines 112-126).                                             *)
(***************************************************************************)
FrameDelivered ==
    helper = "scale" =>
    \A i \in DOMAIN frames :
       LET c == frames[i]
           r == Results(frames)[i]
       IN  /\ c.srcf = "BGRA" /\ c.dstf = "I420" => r.ret >= 0
           /\ r.ret >= 0 /\ (c.srcf # c.dstf \/ c.srcf \in RGBAFamily) =>
                 r.bufs["dst"] = [fmt |-> MemOrder[c.dstf], w |-> DstDim(c)[1],
                                  h |-> DstDim(c)[2], pic |-> "P"]

(***************************************************************************)
(* Scratch covers its recorded size: after every call of a sequence on    *)
(* one lazyscale object, _i420_data and _scale_data are at least as large *)
(* as the sizes _i420_data_len and _scale_data_len record for them, which *)
(* the next call compares its need against; scale sets the recorded size  *)
(* to the current need even when it keeps a larger buffer, so a frame     *)
(* smaller than an earlier one and then a larger one must still           *)
(* reallocate (lines 117-125, 160-170).                                   *)
(***************************************************************************)
ScratchCoversRecordedSize ==
    helper = "scale" =>
    \A i \in DOMAIN frames :
       \A r \in {Results(frames)[i]} : r.i420Cap >= r.i420Len /\ r.scaleCap >= r.scaleLen

(***************************************************************************)
(* Scale on a live object: whenever the capture thread calls               *)
(* scale_->scale, the lazyscale object is still allocated, although the    *)
(* destructor deletes it from another thread; Deinit waits in Stop for the *)
(* thread to leave its loop before the delete (video_capture.cpp 220-229). *)
(***************************************************************************)
ScaleOnLiveObject ==
    helper = "capture" => (tpc = "scale" => scaleObj = "live")

(***************************************************************************)
(* Paint shows a converted frame: whatever the capture thread is doing,    *)
(* the bytes OnPaint hands to StretchDIBits lie inside the renderer's      *)
(* image_ and are never the uninitialised array SetSize has just           *)
(* allocated: VideoRenderer::OnFrame holds buffer_lock_ from SetSize to    *)
(* the end of I420ToARGB, and OnPaint from reading bmi_ to the end of      *)
(* StretchDIBits (main_wnd.cc 759-797, 437-443).                           *)
(***************************************************************************)
PaintShowsConvertedFrame ==
    helper = "capture" => shown.data # Fresh /\ ~shown.over

(***************************************************************************)
(* Renderer alive in OnFrame: the capture thread is inside                 *)
(* VideoRenderer::OnFrame only while the renderer exists, although         *)
(* MainWnd::Destroy deletes it from the UI thread at any time; the         *)
(* broadcaster's RemoveSink in its destructor waits for the OnFrame that   *)
(* holds the sink.                                                         *)
(***************************************************************************)
RendererAliveInOnFrame ==
    helper = "capture" => (tpc \in InBroadcast => rendObj = "live")


SecondLoopNeverRuns ==
    helper = "window" => (mainPc = "loop2" => exitFlag)

JoinWith(parts, sep) ==
    IF parts = <<>> THEN <<>>
    ELSE FoldLeft(LAMBDA acc, p : acc \o <<sep>> \o p, Head(parts), Tail(parts))

Fields(t) ==
    LET cuts == <<0>> \o SetToSortSeq({i \in DOMAIN t : t[i] = " "}, <) \o <<Len(t) + 1>>
        all  == [i \in 1 .. Len(cuts) - 1 |-> SubSeq(t, cuts[i] + 1, cuts[i + 1] - 1)]
    IN  IF Last(all) = <<>> THEN Front(all) ELSE all

DecimalValue(f) ==
    FoldFunctionOnSet(+, 0, [i \in DOMAIN f |-> DigitValue(f[i]) * 10 ^ (Len(f) - i)], DOMAIN f)

(***************************************************************************)
(* parsePayloads (spec 4.1) reads one payload type per space-separated    *)
(* field and never skips one silently: it throws exactly when a field is  *)
(* empty (a leading or doubled space) or does not start with a digit, and *)
(* otherwise returns one value per field, the field's number when it is a *)
(* numeral.  A trailing space is accepted, and a field with junk after    *)
(* its digits ("1a") is read as its digits: stoi, not the spec's "fails  *)
(* on any non-integer token".  Breaks if a refused token were skipped or  *)
(* getline's empty tokens were dropped.                                   *)
(***************************************************************************)
PayloadsParsed ==
    helper = "payloads" =>
    LET r  == ParsePayloads(listIn)
        fs == Fields(listIn)
    IN  /\ r.ok <=> \A i \in DOMAIN fs : fs[i] # <<>> /\ fs[i][1] \in Digits
        /\ r.ok => /\ Len(r.val) = Len(fs)
                   /\ \A i \in DOMAIN fs :
                         ToSet(fs[i]) \subseteq Digits => r.val[i] = DecimalValue(fs[i])

\* a=simulcast stream lists as text: formats joined by ',', a paused one
\* prefixed by '~', streams joined by ';'.
FormatText(f) == IF f.paused THEN <<"~">> \o f.scid ELSE f.scid
WriteStreamList(l) ==
    JoinWith([i \in DOMAIN l |-> JoinWith([j \in DOMAIN l[i] |-> FormatText(l[i][j])], ",")], ";")

(***************************************************************************)
(* parseSimulcastStreamList reads back every written stream list: the     *)
(* same streams in order, each with its formats in order, the scid without *)
(* the '~' and paused exactly for the formats written with it.  Breaks if *)
(* the '~' were kept in the scid, or the splitting lost or merged a       *)
(* stream or a format.                                                    *)
(***************************************************************************)
StreamListRoundTrip ==
    helper = "simulcast" =>
    ParseSimulcastStreamList(WriteStreamList(listIn))
        = [i \in DOMAIN listIn |->
              [j \in DOMAIN listIn[i] |->
                  [scid |-> Str(listIn[i][j].scid), paused |-> listIn[i][j].paused]]]

\* a=imageattr sets as text: "[k=v,...]" items joined by ' ', or "*".
ItemText(o) == <<"[">> \o JoinWith([i \in DOMAIN o |-> <<o[i].k, "=", o[i].v>>], ",") \o <<"]">>
WriteImageAttrs(l) ==
    IF l.star THEN <<"*">> ELSE JoinWith([i \in DOMAIN l.items |-> ItemText(l.items[i])], " ")

\* the JSON value spec 4.1's type inference gives a value text
AttrJson(v) == IF v = "1" THEN JInt(1) ELSE JStr(v)

(***************************************************************************)
(* parseImageAttributes reads back every written imageattr set: "*" as    *)
(* the string "*", otherwise one object per item, in order, holding each  *)
(* key with its value typed as an integer or a string.  The shortest item *)
(* "[x=1]" has exactly the five characters the length test lets through.  *)
(* Breaks if that test were off by one, or the brackets or the ','        *)
(* splitting went wrong.                                                  *)
(***************************************************************************)
ImageAttrRoundTrip ==
    helper = "imageattr" =>
    ParseImageAttributes(WriteImageAttrs(listIn))
        = IF listIn.star THEN JStr("*")
          ELSE [i \in DOMAIN listIn.items |->
                   LET o == ToSet(listIn.items[i]) IN
                   [k \in {p.k : p \in o} |-> AttrJson((CHOOSE p \in o : p.k = k).v)]]

=============================================================================
