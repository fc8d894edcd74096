------------------------------ MODULE SdpLists ------------------------------
(***************************************************************************)
(* The list parsers of src/mssdk/json/parser.cpp: parsePayloads,          *)
(* parseImageAttributes and parseSimulcastStreamList, with the two        *)
(* std::string helpers they are made of, std::getline on a delimiter and  *)
(* trim, and std::stoi.                                                    *)
(*                                                                         *)
(* The splitting is the control of these functions, so a text is kept as *)
(* the sequence of its characters (one-character strings); what they     *)
(* produce is abstracted as in SdpParams: a parameter piece becomes       *)
(* Bad or [key, eq, val] and goes through insertParam.                    *)
(***************************************************************************)
EXTENDS SdpParams

DigitChars == <<"0", "1", "2", "3", "4", "5", "6", "7", "8", "9">>
Digits     == ToSet(DigitChars)
DigitValue(c) == CHOOSE v \in 0 .. 9 : DigitChars[v + 1] = c

\* std::isspace on the characters the texts can hold.
Space == {" ", "\t"}

\* The characters of a sequence as one string.
Str(cs) == FoldLeft(LAMBDA acc, c : acc \o c, "", cs)

\* while (std::getline(ss, tok, d)): every delimiter ends a token, empty or
\* not; the text after the last delimiter is a token only if it is not
\* empty (a getline that extracts nothing at end of input fails).
Getline(s, d) ==
    LET r == FoldLeft(LAMBDA acc, c :
                          IF c = d THEN [done |-> Append(acc.done, acc.cur), cur |-> <<>>]
                          ELSE [acc EXCEPT !.cur = Append(@, c)],
                      [done |-> <<>>, cur |-> <<>>], s)
    IN  IF r.cur = <<>> THEN r.done ELSE Append(r.done, r.cur)

\* Indices of the characters of s outside Space.
Solid(s) == {i \in DOMAIN s : s[i] \notin Space}

\* trim (parser.cpp 342-356): erase the leading, then the trailing spaces.
Trim(s) ==
    IF Solid(s) = {} THEN <<>>
    ELSE SubSeq(s, Min(Solid(s)), Max(Solid(s)))

\* std::stoi (strtol): leading spaces, an optional sign, then the longest
\* run of digits; no digit throws std::invalid_argument.  Anything after
\* the run is ignored.  The texts are too short to leave int range.
Stoi(tok) ==
    LET ws    == Cardinality({i \in DOMAIN tok : \A j \in 1 .. i : tok[j] \in Space})
        signs == IF ws < Len(tok) /\ tok[ws + 1] \in {"+", "-"} THEN 1 ELSE 0
        from  == ws + signs + 1
        upto  == Max({from - 1} \cup
                     {j \in from .. Len(tok) : \A i \in from .. j : tok[i] \in Digits})
        mag   == FoldLeft(LAMBDA n, c : 10 * n + DigitValue(c), 0, SubSeq(tok, from, upto))
    IN  IF upto < from THEN [ok |-> FALSE]
        ELSE [ok |-> TRUE, val |-> IF signs = 1 /\ tok[ws + 1] = "-" THEN -mag ELSE mag]

(* Mutant: a token stoi refuses is skipped instead of thrown.              *)
ParsePayloadsSkipping(s) ==
    LET vals == [i \in DOMAIN Getline(s, " ") |-> Stoi(Getline(s, " ")[i])]
        good == SelectSeq(vals, LAMBDA v : v.ok)
    IN  [ok |-> TRUE, val |-> [i \in DOMAIN good |-> good[i].val]]

\* parsePayloads (parser.cpp 118-131): stoi of every ' '-separated token;
\* the first token stoi refuses throws out of the function.
ParsePayloads(s) ==
    LET toks == Getline(s, " ")
        vals == [i \in DOMAIN toks |-> Stoi(toks[i])]
    IN  IF \A i \in DOMAIN vals : vals[i].ok
        THEN [ok |-> TRUE, val |-> [i \in DOMAIN vals |-> vals[i].val]]
        ELSE [ok |-> FALSE]

\* insertParam's KeyValueRegex on a trimmed piece with no space in it:
\* the key runs to the first '=', which must not be the first character,
\* and the value is the rest ("" for "key=", which the regex refuses).
PieceOf(p) ==
    LET eqs == {i \in DOMAIN p : p[i] = "="}
    IN  CASE eqs = {}     -> [key |-> Str(p), eq |-> FALSE, val |-> ""]
          [] Min(eqs) = 1 -> Bad
          [] OTHER        -> [key |-> Str(SubSeq(p, 1, Min(eqs) - 1)), eq |-> TRUE,
                              val |-> Str(SubSeq(p, Min(eqs) + 1, Len(p)))]

\* The object of one "[k=v,...]" item: its first and last characters are
\* dropped unchecked, the rest split on ',', and every non-empty trimmed
\* piece inserted.
ImageAttrObject(item) ==
    FoldLeft(LAMBDA o, p : IF Trim(p) = <<>> THEN o ELSE InsertParam(o, PieceOf(Trim(p))),
             EmptyObject, Getline(SubSeq(item, 2, Len(item) - 1), ","))

(* Mutant: the length test is off by one.                                 *)
ShortItemOffByOne(it) == Len(it) < 6

\* if (item.length() < 5) continue; // [x=0]
ShortItem(it) == Len(it) < 5

\* parseImageAttributes (parser.cpp 133-168): items of fewer than five
\* characters are skipped; an item "*" returns the string "*" at once,
\* dropping the objects already collected.
ParseImageAttributes(s) ==
    LET r == FoldLeft(LAMBDA acc, it :
                          IF acc.star THEN acc
                          ELSE IF Trim(it) = <<"*">> THEN [acc EXCEPT !.star = TRUE]
                          ELSE IF ShortItem(Trim(it)) THEN acc
                          ELSE [acc EXCEPT !.arr = Append(@, ImageAttrObject(Trim(it)))],
                      [star |-> FALSE, arr |-> <<>>], Getline(s, " "))
    IN  IF r.star THEN JStr("*") ELSE r.arr

(* Mutant: the '~' is kept in the scid.                                   *)
SimulcastFormatKeepsTilde(f) == [scid |-> Str(f), paused |-> f[1] = "~"]

\* One format of a stream: a leading '~' marks it paused and is cut off.
SimulcastFormat(f) ==
    IF f[1] # "~" THEN [scid |-> Str(f), paused |-> FALSE]
    ELSE [scid |-> Str(Tail(f)), paused |-> TRUE]

\* parseSimulcastStreamList (parser.cpp 170-210): streams split on ';',
\* formats on ','; empty streams and empty formats are skipped, but a
\* stream made only of ',' gives an empty list of formats.
ParseSimulcastStreamList(s) ==
    LET NonEmpty(ts)  == SelectSeq(ts, LAMBDA t : t # <<>>)
        Formats(item) == LET fs == NonEmpty(Getline(item, ",")) IN
                         [i \in DOMAIN fs |-> SimulcastFormat(fs[i])]
        streams == NonEmpty(Getline(s, ";"))
    IN  [i \in DOMAIN streams |-> Formats(streams[i])]
=============================================================================
