------------------------------ MODULE SdpParse -------------------------------
(***************************************************************************)
(* sdptransform::parse of src/mssdk/json/parser.cpp with parseReg and      *)
(* attachProperties: the grammar-driven walk that turns SDP lines into the *)
(* document tree every other helper reads.                                 *)
(*                                                                         *)
(* Data abstraction.  A line is Invalid (it fails ValidLineRegex, which    *)
(* covers empty lines; the trailing '\r' strip only decides which lines    *)
(* those are) or [type, content].  The grammar (grammar::rulesMap, which   *)
(* is not part of this source) is the constant Grammar: for each line type *)
(* the ordered sequence of its rules [name, push, names, types, reg].  A   *)
(* rule's regex is abstracted to reg, a function of the content: NoMatch,  *)
(* or the sequence of its capture groups match[1..] ("" for a group that   *)
(* matched nothing).  JSON arrays and objects are [arr |-> seq] and        *)
(* [obj |-> function]; the parse state keeps the objects unwrapped.        *)
(***************************************************************************)
EXTENDS SdpParams

CONSTANTS Grammar,   \* [line type -> Seq(rule)]
          NoMatch,   \* rule.reg[content] when the regex does not match
          Invalid    \* a line ValidLineRegex refuses

JArr(s) == [arr |-> s]
JObj(o) == [obj |-> o]

\* match[i]: a group past match.size() reads as an unmatched sub_match, "".
Capture(m, i) == IF i <= Len(m) THEN m[i] ELSE ""

\* Mutant: every capture coerced with the first declared type.
AttachPropertiesFirstType(m, o, names, rawName, types) ==
    IF rawName # "" /\ names = <<>>
    THEN (rawName :> ToType(Capture(m, 1), types[1])) @@ o
    ELSE FoldLeft(LAMBDA acc, i : IF i <= Len(m) /\ m[i] # ""
                                  THEN (names[i] :> ToType(m[i], types[1])) @@ acc
                                  ELSE acc,
                  o, [i \in 1 .. Len(names) |-> i])

\* attachProperties (lines 244-266): a rule with a name and no capture
\* names stores match[1] under its name, empty or not; otherwise every
\* non-empty capture i is stored, typed, under names[i].
AttachProperties(m, o, names, rawName, types) ==
    IF rawName # "" /\ names = <<>>
    THEN (rawName :> ToType(Capture(m, 1), types[1])) @@ o
    ELSE FoldLeft(LAMBDA acc, i : IF i <= Len(m) /\ m[i] # ""
                                  THEN (names[i] :> ToType(m[i], types[i])) @@ acc
                                  ELSE acc,
                  o, [i \in 1 .. Len(names) |-> i])

NeedsBlank(rule) == rule.name # "" /\ rule.names # <<>>

\* Mutant: the push array is created afresh for every matching line.
EnsureContainerAlways(rule, loc) ==
    IF rule.push # ""
    THEN (rule.push :> JArr(<<>>)) @@ loc
    ELSE IF NeedsBlank(rule) /\ rule.name \notin DOMAIN loc
         THEN (rule.name :> JObj(EmptyObject)) @@ loc
         ELSE loc

\* The containers parseReg creates before it writes (lines 214-223): the
\* push array on first use, else the named object on first use.
EnsureContainer(rule, loc) ==
    IF rule.push # "" /\ rule.push \notin DOMAIN loc
    THEN (rule.push :> JArr(<<>>)) @@ loc
    ELSE IF NeedsBlank(rule) /\ rule.name \notin DOMAIN loc
         THEN (rule.name :> JObj(EmptyObject)) @@ loc
         ELSE loc

\* parseReg (lines 212-242): a push rule appends a fresh object built from
\* the captures; a named rule writes into the object at its name; any
\* other rule writes onto the cursor object itself.
ParseReg(rule, loc, content) ==
    LET l == EnsureContainer(rule, loc)
        Attach(o) == AttachProperties(rule.reg[content], o, rule.names, rule.name, rule.types)
    IN  IF rule.push # ""
        THEN [l EXCEPT ![rule.push] = JArr(Append(@.arr, JObj(Attach(EmptyObject))))]
        ELSE IF NeedsBlank(rule)
             THEN [l EXCEPT ![rule.name] = JObj(Attach(@.obj))]
             ELSE Attach(l)

\* The first rule of the line type whose regex matches (0 if none).
FirstRule(type, content) ==
    SelectInSeq(Grammar[type], LAMBDA r : r.reg[content] # NoMatch)

\* A media section starts with empty rtp and fmtp arrays.
NewMedia == ("rtp" :> JArr(<<>>)) @@ ("fmtp" :> JArr(<<>>))

(***************************************************************************)
(* The state of the parse loop: the session object, the media array and   *)
(* the cursor, loc = 0 for the session and k for media[k].                *)
(***************************************************************************)
InitialParse == [session |-> EmptyObject, media |-> <<>>, loc |-> 0]

\* Mutant: the new section is pushed but the cursor is left where it was.
OpenMediaNoRetarget(st) == [st EXCEPT !.media = Append(@, NewMedia)]

\* An m= line pushes a new section and points the cursor at it.
OpenMedia(st) == [st EXCEPT !.media = Append(@, NewMedia), !.loc = Len(st.media) + 1]

Cursor(st) == IF st.loc = 0 THEN st.session ELSE st.media[st.loc]

SetCursor(st, o) ==
    IF st.loc = 0 THEN [st EXCEPT !.session = o] ELSE [st EXCEPT !.media[st.loc] = o]

\* One turn of the while loop of parse (lines 46-90).
ParseLine(st, line) ==
    IF line = Invalid THEN st
    ELSE LET s1 == IF line.type = "m" THEN OpenMedia(st) ELSE st
         IN  IF line.type \notin DOMAIN Grammar THEN s1
             ELSE LET j == FirstRule(line.type, line.content)
                  IN  IF j = 0 THEN s1
                      ELSE SetCursor(s1, ParseReg(Grammar[line.type][j], Cursor(s1), line.content))

\* parse (lines 37-97): the session object with "media" linked in last.
Parse(lines) ==
    LET st == FoldLeft(ParseLine, InitialParse, lines)
    IN  ("media" :> JArr([k \in DOMAIN st.media |-> JObj(st.media[k])])) @@ st.session

=============================================================================
