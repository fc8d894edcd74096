------------------------------ MODULE SdpParams ------------------------------
(***************************************************************************)
(* The a=fmtp parameter parser of src/mssdk/json/parser.cpp: parseParams,  *)
(* insertParam, toType, isInt and isFloat, and the writer applyCodec-      *)
(* Parameters uses to turn the parameters back into a config string.       *)
(*                                                                         *)
(* Data abstraction.  A config string is the sequence of its ';'-separated *)
(* pieces.  A piece is Blank (empty once trimmed), Bad (does not match     *)
(* KeyValueRegex, e.g. a space inside the key) or [key, eq, val]: "key"    *)
(* when eq is FALSE (val is ""), "key=val" when it is TRUE, where val may  *)
(* be "" ("key=", which the regex refuses).  A value text is a string of   *)
(* a small vocabulary: Numeral maps the texts that read as a long (isInt)  *)
(* to their value, Decimal is the set of the other texts that read as a    *)
(* float (isFloat).  A JSON value is a record whose single field names its *)
(* type: [int |-> n], [str |-> s], [float |-> text], [bool |-> b].         *)
(* A JSON object is a function from keys.                                  *)
(***************************************************************************)
EXTENDS Integers, SequencesExt

CONSTANTS Numeral,   \* [integer literal text -> its value]
          Decimal,   \* texts that parse as a float and not as a long
          KeyRank,   \* [key -> rank] in std::map<std::string> order
          Blank, Bad

JInt(n)   == [int |-> n]
JStr(s)   == [str |-> s]
JFloat(t) == [float |-> t]
JBool(b)  == [bool |-> b]

EmptyObject == [k \in {} |-> JInt(0)]

\* isInt / isFloat (parser.cpp 268-286): the whole text reads as a number.
IsInt(t)   == t \in DOMAIN Numeral
IsFloat(t) == t \in DOMAIN Numeral \/ t \in Decimal

\* toType (parser.cpp 288-340).  The numerals are non-negative, so 'u'
\* (uint64) and 'd' (int64) read the same texts.
ToType(t, type) ==
    CASE type = "s" -> JStr(t)
      [] type = "u" -> IF IsInt(t) THEN JInt(Numeral[t]) ELSE JInt(0)
      [] type = "d" -> IF IsInt(t) THEN JInt(Numeral[t]) ELSE JInt(0)
      [] type = "f" -> IF IsFloat(t) THEN JFloat(t) ELSE JFloat("0")

\* WellKnownParameters of insertParam.
WellKnownParameters ==
    ("profile-level-id" :> "s") @@ ("packetization-mode" :> "d") @@ ("profile-id" :> "s")

\* insertParam (parser.cpp 359-395): a refused piece is dropped; otherwise
\* the value (match[2], "" when there is no '=') is typed and stored,
\* overwriting an earlier value of the same key.
InsertParam(o, piece) ==
    IF piece = Bad \/ (piece.eq /\ piece.val = "") THEN o
    ELSE
    LET value == piece.val
        type  == IF piece.key \in DOMAIN WellKnownParameters
                 THEN WellKnownParameters[piece.key]
                 ELSE IF IsInt(value) THEN "d"
                 ELSE IF IsFloat(value) THEN "f"
                 ELSE "s"
    IN  (piece.key :> ToType(value, type)) @@ o

\* parseParams (parser.cpp 99-116): blank pieces are skipped.
ParseParams(config) ==
    FoldLeft(LAMBDA o, piece : IF piece = Blank THEN o ELSE InsertParam(o, piece),
             EmptyObject, config)

\* The text the writer streams for a value (applyCodecParameters 919-924):
\* a string as is, a float through get<float>(), an integer through
\* get<int>(), and nothing for any other type.
ValueText(v) ==
    CASE "str" \in DOMAIN v   -> v.str
      [] "float" \in DOMAIN v -> v.float
      [] "int" \in DOMAIN v   -> CHOOSE t \in DOMAIN Numeral : Numeral[t] = v.int
      [] OTHER                -> ""

\* The config string applyCodecParameters writes back (lines 910-927):
\* "key=value" for every key of the object, in std::map order, joined by ';'.
WriteParams(o) ==
    LET keys == SetToSortSeq(DOMAIN o, LAMBDA a, b : KeyRank[a] < KeyRank[b])
    IN  [i \in DOMAIN keys |-> [key |-> keys[i], eq |-> TRUE, val |-> ValueText(o[keys[i]])]]

=============================================================================
