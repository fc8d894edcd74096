------------------------------- MODULE SdpUtil -------------------------------
(***************************************************************************)
(* The capability-extractor helpers of src/mssdk/json/parser.cpp, as pure  *)
(* operators over a parsed SDP document.                                   *)
(*                                                                         *)
(* Data abstraction.  A JSON string that the code splits on ' ' is the     *)
(* sequence of its tokens (so "" is <<>>); a media section is a record     *)
(* whose "ssrcs" is the sequence of a=ssrc lines [id, attribute, value]    *)
(* and whose "ssrcGroups" is the sequence of a=ssrc-group lines            *)
(* [semantics, ssrcs], the group's ssrc list already split.  A missing     *)
(* "ssrcs"/"ssrcGroups" key and an empty array behave alike in every       *)
(* helper, so both are <<>>.  An ssrc line without a string attribute has  *)
(* attribute NoAttr.  SSRCs are unsigned integers of Width bits (32 in the *)
(* code) and their arithmetic is modulo 2^Width.  An exception raised with *)
(* LAZY_THROW_EXCEPTION is the value Throw.                                *)
(***************************************************************************)
EXTENDS SdpParams, FiniteSets

CONSTANTS Width,   \* bit width of an SSRC (uint32_t)
          NoAttr,  \* an ssrc line whose "attribute" is missing
          NoSsrc,  \* an encoding without an "rtx" member
          Null,    \* a JSON null
          Throw,   \* the result of a call that throws
          Lowercase \* [MIME type text -> the text after std::transform(::tolower)]

SsrcMod == 2 ^ Width

(***************************************************************************)
(* getRtpEncodings (parser.cpp 790-853).                                   *)
(***************************************************************************)
\* std::list::unique: drops an element equal to the one before it.
RECURSIVE UniqueAdjacent(_)
UniqueAdjacent(s) ==
    IF Len(s) <= 1 THEN s
    ELSE IF s[1] = s[2] THEN UniqueAdjacent(Tail(s))
    ELSE <<s[1]>> \o UniqueAdjacent(Tail(s))

\* The FID groups, in document order; others are skipped (line 815).
FidGroups(m) == SelectSeq(m.ssrcGroups, LAMBDA g : g.semantics = "FID")

\* Mutant: the dedup step (ssrcs.unique()) left out.
GetRtpEncodingsNoUnique(m) ==
    IF m.ssrcs = <<>> THEN Throw
    ELSE
    LET ids  == [i \in DOMAIN m.ssrcs |-> m.ssrcs[i].id]
        fids == FidGroups(m)
        rtxs == {fids[i].ssrcs[2] : i \in DOMAIN fids}
        kept == SelectSeq(ids, LAMBDA s : s \notin rtxs)
        last(s) == SelectLastInSeq(fids, LAMBDA g : g.ssrcs[1] = s)
    IN  [i \in DOMAIN kept |->
            [ssrc |-> kept[i],
             rtx  |-> IF last(kept[i]) = 0 THEN NoSsrc
                      ELSE fids[last(kept[i])].ssrcs[2]]]

GetRtpEncodings(m) ==
    IF m.ssrcs = <<>> THEN Throw
    ELSE
    LET ids  == [i \in DOMAIN m.ssrcs |-> m.ssrcs[i].id]
        fids == FidGroups(m)
        \* ssrcs.remove(rtxSsrc) removes every occurrence
        rtxs == {fids[i].ssrcs[2] : i \in DOMAIN fids}
        kept == SelectSeq(UniqueAdjacent(ids), LAMBDA s : s \notin rtxs)
        \* ssrcToRtxSsrc[ssrc] = rtxSsrc: a later group overwrites
        last(s) == SelectLastInSeq(fids, LAMBDA g : g.ssrcs[1] = s)
    IN  [i \in DOMAIN kept |->
            [ssrc |-> kept[i],
             rtx  |-> IF last(kept[i]) = 0 THEN NoSsrc
                      ELSE fids[last(kept[i])].ssrcs[2]]]

(***************************************************************************)
(* addLegacySimulcast (parser.cpp 597-763).  Returns the rewritten         *)
(* section, or Throw.                                                      *)
(***************************************************************************)
\* Mutant: all cname lines first, then all msid lines.
SsrcLinesByAttribute(s, cname, msid) ==
    [j \in 1 .. 2 * Len(s) |->
        IF j <= Len(s)
        THEN [id |-> s[j], attribute |-> "cname", value |-> cname]
        ELSE [id |-> s[j - Len(s)], attribute |-> "msid", value |-> msid]]

\* The two a=ssrc lines (cname, then msid) the code writes for one SSRC.
SsrcLines(s, cname, msid) ==
    [j \in 1 .. 2 * Len(s) |->
        [id        |-> s[(j + 1) \div 2],
         attribute |-> IF j % 2 = 1 THEN "cname" ELSE "msid",
         value     |-> IF j % 2 = 1 THEN cname ELSE msid]]

\* Mutant: the loop counter starts at 1.
SimulcastSsrcsFromNext(first, numStreams) ==
    [i \in 1 .. numStreams |-> (first + i) % SsrcMod]

\* firstSsrc + i for uint8_t i in [0, numStreams), in uint32_t arithmetic.
SimulcastSsrcs(first, numStreams) ==
    [i \in 1 .. numStreams |-> (first + i - 1) % SsrcMod]

AddLegacySimulcast(m, numStreams) ==
    IF numStreams <= 1 THEN m
    ELSE
    LET msidAt  == SelectInSeq(m.ssrcs, LAMBDA l : l.attribute = "msid")
        cnameAt == SelectInSeq(m.ssrcs, LAMBDA l : l.attribute = "cname")
    IN
    IF msidAt = 0 \/ cnameAt = 0 THEN Throw
    ELSE
    LET msidLine  == m.ssrcs[msidAt]
        firstSsrc == msidLine.id
        \* streamId, trackId: the first two tokens of the msid value
        msidValue == <<msidLine.value[1], msidLine.value[2]>>
        \* the first group of any semantics that starts with firstSsrc
        grpAt     == SelectInSeq(m.ssrcGroups, LAMBDA g : g.ssrcs[1] = firstSsrc)
        firstRtx  == IF grpAt = 0 THEN 0
                     ELSE m.ssrcGroups[grpAt].ssrcs[2] % SsrcMod
        cname     == m.ssrcs[cnameAt].value
        ssrcs     == SimulcastSsrcs(firstSsrc, numStreams)
        rtxSsrcs  == IF firstRtx # 0 THEN SimulcastSsrcs(firstRtx, numStreams)
                     ELSE <<>>
    IN  [m EXCEPT
           !.ssrcGroups =
               <<[semantics |-> "SIM", ssrcs |-> ssrcs]>>
               \o [i \in DOMAIN rtxSsrcs |->
                     [semantics |-> "FID", ssrcs |-> <<ssrcs[i], rtxSsrcs[i]>>]],
           !.ssrcs = SsrcLines(ssrcs, cname, msidValue)
                     \o SsrcLines(rtxSsrcs, cname, msidValue)]

(***************************************************************************)
(* getCname (parser.cpp 765-788): the value of the first ssrc line with a  *)
(* string attribute, "" when there is none.                                *)
(***************************************************************************)
GetCname(m) ==
    LET at == SelectInSeq(m.ssrcs, LAMBDA l : l.attribute # NoAttr)
    IN  IF at = 0 THEN <<>> ELSE m.ssrcs[at].value

(***************************************************************************)
(* extractDtlsParameters (parser.cpp 545-595).  A media section here is    *)
(* [iceUfrag, port, fingerprint, setup]; iceUfrag is whether the key is    *)
(* present, a missing fingerprint or setup is Null.  The result's          *)
(* fingerprint stands for the pair (type, hash) of the chosen one; both    *)
(* read as null when there is none.                                        *)
(***************************************************************************)
DtlsRoleOf(setup) ==
    CASE setup = "active"  -> "client"
      [] setup = "passive" -> "server"
      [] setup = "actpass" -> "auto"
      [] OTHER             -> ""

ExtractDtlsParameters(doc) ==
    LET at == SelectInSeq(doc.media, LAMBDA md : md.iceUfrag /\ md.port # 0)
        m  == IF at = 0 THEN Null ELSE doc.media[at]
        fingerprint == IF m # Null /\ m.fingerprint # Null THEN m.fingerprint
                       ELSE doc.fingerprint
        role == IF m # Null /\ m.setup # Null THEN DtlsRoleOf(m.setup) ELSE ""
    IN  [role |-> role, fingerprint |-> fingerprint]

(***************************************************************************)
(* extractRtpCapabilities (parser.cpp 397-543).  A media section here is   *)
(* [type, rtp, fmtp, rtcpFb, ext]: rtp lines [payload, codec, rate,        *)
(* encoding] (encoding Null when absent), fmtp lines [payload, config],    *)
(* rtcp-fb lines [payload, type, subtype] whose payload is the text the    *)
(* grammar captured ("*" or digits) and ext lines [uri, value].  A         *)
(* mimeType kind + "/" + codec is the pair <<kind, codec>>.  codecsMap is  *)
(* a function from the uint8_t payload type.                               *)
(***************************************************************************)
\* The codec an a=rtpmap line gives (lines 435-462).
RtpCodec(kind, rtp) ==
    [kind                 |-> kind,
     mimeType             |-> <<kind, rtp.codec>>,
     preferredPayloadType |-> rtp.payload,
     clockRate            |-> rtp.rate,
     parameters           |-> EmptyObject,
     rtcpFeedback         |-> <<>>,
     channels             |-> IF kind # "audio" THEN Null
                              ELSE IF rtp.encoding # Null THEN Numeral[rtp.encoding]
                              ELSE 1]

\* 'profile-id' as a string is replaced by std::stoi of it (lines 474-480).
ProfileIdToInt(params) ==
    IF "profile-id" \in DOMAIN params /\ "str" \in DOMAIN params["profile-id"]
    THEN IF params["profile-id"].str \in DOMAIN Numeral
         THEN [params EXCEPT !["profile-id"] = JInt(Numeral[params["profile-id"].str])]
         ELSE Throw
    ELSE params

\* One a=fmtp line (lines 466-484): a known payload gets the parsed config.
AddFmtp(codecs, fmtp) ==
    IF codecs = Throw \/ fmtp.payload \notin DOMAIN codecs THEN codecs
    ELSE LET params == ProfileIdToInt(ParseParams(fmtp.config))
         IN  IF params = Throw THEN Throw
             ELSE [codecs EXCEPT ![fmtp.payload].parameters = params]

\* One a=rtcp-fb line (lines 488-510): std::stoi of its payload text.
AddRtcpFb(codecs, fb) ==
    IF codecs = Throw THEN Throw
    ELSE IF fb.payload \notin DOMAIN Numeral THEN Throw
    ELSE LET pt == Numeral[fb.payload] % 256
         IN  IF pt \notin DOMAIN codecs THEN codecs
             ELSE [codecs EXCEPT ![pt].rtcpFeedback =
                      Append(@, [type |-> fb.type, parameter |-> fb.subtype])]

\* Mutant: every audio and video section is taken.
TakesSectionAll(acc, m) == m.type \in {"audio", "video"}

\* The first audio and the first video section are taken, others skipped
\* (lines 413-432).
TakesSection(acc, m) ==
    \/ m.type = "audio" /\ ~acc.gotAudio
    \/ m.type = "video" /\ ~acc.gotVideo

AddSection(acc, m) ==
    IF acc = Throw \/ ~TakesSection(acc, m) THEN acc
    ELSE
    LET withRtp == FoldLeft(LAMBDA c, rtp : (rtp.payload % 256 :> RtpCodec(m.type, rtp)) @@ c,
                            acc.codecs, m.rtp)
        codecs  == FoldLeft(AddRtcpFb, FoldLeft(AddFmtp, withRtp, m.fmtp), m.rtcpFb)
    IN  IF codecs = Throw THEN Throw
        ELSE [codecs   |-> codecs,
              exts     |-> acc.exts \o [i \in DOMAIN m.ext |->
                              [kind |-> m.type, uri |-> m.ext[i].uri,
                               preferredId |-> m.ext[i].value]],
              gotAudio |-> acc.gotAudio \/ m.type = "audio",
              gotVideo |-> acc.gotVideo \/ m.type = "video"]

ExtractRtpCapabilities(doc) ==
    LET acc == FoldLeft(AddSection,
                        [codecs |-> EmptyObject, exts |-> <<>>,
                         gotAudio |-> FALSE, gotVideo |-> FALSE],
                        doc.media)
        pts == SetToSortSeq(DOMAIN acc.codecs, <)
    IN  IF acc = Throw THEN Throw
        ELSE [headerExtensions |-> acc.exts,
              codecs           |-> [i \in DOMAIN pts |-> acc.codecs[pts[i]]]]

(***************************************************************************)
(* applyCodecParameters (parser.cpp 855-929).  The offer's codecs are      *)
(* [mimeType, payloadType, parameters]; the answer section is [rtp, fmtp]. *)
(***************************************************************************)
\* Mutant: an existing stereo parameter wins over the offer's.
WithStereoKeepExisting(params, codec) ==
    IF /\ "sprop-stereo" \in DOMAIN codec.parameters
       /\ "bool" \in DOMAIN codec.parameters["sprop-stereo"]
    THEN params @@ ("stereo" :> JInt(IF codec.parameters["sprop-stereo"].bool THEN 1 ELSE 0))
    ELSE params

\* The parameters with the stereo flag of a boolean sprop-stereo (897-907).
WithStereo(params, codec) ==
    IF /\ "sprop-stereo" \in DOMAIN codec.parameters
       /\ "bool" \in DOMAIN codec.parameters["sprop-stereo"]
    THEN ("stereo" :> JInt(IF codec.parameters["sprop-stereo"].bool THEN 1 ELSE 0)) @@ params
    ELSE params

ApplyCodec(answer, codec) ==
    IF \/ Lowercase[codec.mimeType] # "audio/opus"
       \/ SelectInSeq(answer.rtp, LAMBDA r : r.payload = codec.payloadType) = 0
    THEN answer
    ELSE
    LET at    == SelectInSeq(answer.fmtp, LAMBDA f : f.payload = codec.payloadType)
        fmtps == IF at # 0 THEN answer.fmtp
                 ELSE Append(answer.fmtp, [payload |-> codec.payloadType, config |-> <<>>])
        k     == IF at # 0 THEN at ELSE Len(fmtps)
        params == WithStereo(ParseParams(fmtps[k].config), codec)
    IN  [answer EXCEPT !.fmtp = [fmtps EXCEPT ![k].config = WriteParams(params)]]

ApplyCodecParameters(offerRtpParameters, answerMediaObject) ==
    FoldLeft(ApplyCodec, answerMediaObject, offerRtpParameters.codecs)

(***************************************************************************)
(* The shape of the sections libwebrtc writes, which the callers in        *)
(* media_control.cpp pass to these helpers.                                *)
(***************************************************************************)
SsrcIds(m) == {m.ssrcs[i].id : i \in DOMAIN m.ssrcs}
GroupsOf(m, sem) ==
    {m.ssrcGroups[i] : i \in {j \in DOMAIN m.ssrcGroups : m.ssrcGroups[j].semantics = sem}}

\* the a=ssrc lines of one SSRC are consecutive
Grouped(m) ==
    \A i, j, k \in DOMAIN m.ssrcs :
        i < j /\ j < k /\ m.ssrcs[i].id = m.ssrcs[k].id => m.ssrcs[j].id = m.ssrcs[i].id

\* every group pairs two SSRCs that have lines; no SSRC is in two FID pairs
FidsWellFormed(m) ==
    /\ \A i \in DOMAIN m.ssrcGroups :
          /\ Len(m.ssrcGroups[i].ssrcs) = 2
          /\ m.ssrcGroups[i].ssrcs[1] # m.ssrcGroups[i].ssrcs[2]
          /\ {m.ssrcGroups[i].ssrcs[1], m.ssrcGroups[i].ssrcs[2]} \subseteq SsrcIds(m)
    /\ \A g, h \in GroupsOf(m, "FID") :
          g # h => {g.ssrcs[1], g.ssrcs[2]} \cap {h.ssrcs[1], h.ssrcs[2]} = {}

\* one track: a single primary and at most its RTX, the primary's lines
\* first, each SSRC with a cname and an msid line, all carrying the same
\* cname and msid
SingleStream(m) ==
    /\ Grouped(m) /\ FidsWellFormed(m)
    /\ GroupsOf(m, "SIM") = {}
    /\ Cardinality(SsrcIds(m) \ {g.ssrcs[2] : g \in GroupsOf(m, "FID")}) = 1
    /\ m.ssrcs # <<>> => m.ssrcs[1].id \notin {g.ssrcs[2] : g \in GroupsOf(m, "FID")}
    /\ \A s \in SsrcIds(m), a \in {"cname", "msid"} :
          \E i \in DOMAIN m.ssrcs : m.ssrcs[i].id = s /\ m.ssrcs[i].attribute = a
    /\ \A i, j \in DOMAIN m.ssrcs :
          m.ssrcs[i].attribute = m.ssrcs[j].attribute => m.ssrcs[i].value = m.ssrcs[j].value

HasAttr(m, a) == \E i \in DOMAIN m.ssrcs : m.ssrcs[i].attribute = a
AttrValue(m, a) == m.ssrcs[CHOOSE i \in DOMAIN m.ssrcs : m.ssrcs[i].attribute = a].value

=============================================================================
