----------------------------- MODULE MySQLDump -----------------------------
(***************************************************************************)
(* parseValuesList of internal/mysql/snapshot_dump.go, byte by byte,       *)
(* against what mysqldump writes: the VALUES list of an INSERT statement,  *)
(* (v,...),(v,...); with numbers and NULL bare and strings quoted, quotes  *)
(* and backslashes in them escaped.  Bytes are told apart as far as the    *)
(* parser tells them apart: "x" is any other byte.                         *)
(***************************************************************************)
EXTENDS Integers, Sequences

CONSTANT MaxBytes  \* bound: bytes of the statement

VARIABLES
  w,        \* where mysqldump is in the statement
  written,  \* the tuples it wrote, the last one perhaps unfinished
  bytes,    \* how many bytes it wrote
  tuples, current, value, inString, escaped  \* parseValuesList's variables

writer == <<w, written, bytes>>
parser == <<tuples, current, value, inString, escaped>>
vars == <<writer, parser>>

Init ==
  /\ w = "open" /\ written = <<>> /\ bytes = 0
  /\ tuples = <<>> /\ current = <<>> /\ value = <<>> /\ inString = FALSE /\ escaped = FALSE

(***************************************************************************)
(* One turn of parseValuesList's loop.                                     *)
(***************************************************************************)
\* In a string every byte but an unescaped quote is data, the backslash itself
\* included; outside one the switch has cases for punctuation only.
Parse(c) ==
  LET data == escaped \/ (inString /\ c # "quote")
      ends == ~data /\ c \in {",", ")"}
  IN /\ escaped' = (~escaped /\ inString /\ c = "backslash")
     /\ inString' = IF ~data /\ c = "quote" THEN ~inString ELSE inString
     /\ value' = IF data THEN Append(value, c)
                 ELSE IF c \in {"(", ",", ")"} THEN <<>> ELSE value
     /\ current' = IF ends THEN Append(current, value)
                   ELSE IF ~data /\ c = "(" THEN <<>> ELSE current
     /\ tuples' = IF ends /\ c = ")" THEN Append(tuples, current') ELSE tuples

(***************************************************************************)
(* mysqldump writes one byte; the parser reads it.                         *)
(***************************************************************************)
Bare == [bare |-> TRUE, raw |-> <<"x">>]
Quoted == [bare |-> FALSE, raw |-> <<>>]

AddValue(v) == [written EXCEPT ![Len(written)] = Append(@, v)]
AddByte(c) ==
  LET t == Len(written) IN [written EXCEPT ![t][Len(written[t])].raw = Append(@, c)]

Write(c, next, result) ==
  /\ bytes < MaxBytes /\ bytes' = bytes + 1
  /\ w' = next /\ written' = result /\ Parse(c)

Tuple ==
  \/ w = "open" /\ Write("(", "value", Append(written, <<>>))
  \/ w \in {"bare", "quoted"} /\ Write(",", "value", written)
  \/ w \in {"bare", "quoted"} /\ Write(")", "closed", written)
  \/ w = "closed" /\ Write(",", "open", written)
  \/ w = "closed" /\ Write(";", "done", written)

Value ==
  \/ w = "value" /\ Write("x", "bare", AddValue(Bare))
  \/ w = "bare" /\ Write("x", "bare", AddByte("x"))
  \/ w = "value" /\ Write("quote", "string", AddValue(Quoted))
  \/ w = "string" /\ \E c \in {"x", "(", ",", ")"} : Write(c, "string", AddByte(c))
  \/ w = "string" /\ Write("backslash", "escape", AddByte("backslash"))
  \/ w = "escape" /\ \E c \in {"quote", "backslash"} : Write(c, "string", AddByte(c))
  \/ w = "string" /\ Write("quote", "quoted", written)

Next == Tuple \/ Value

Spec == Init /\ [][Next]_vars

-----------------------------------------------------------------------------
(***************************************************************************)
(* "parses (v1,v2,...),(v1,v2,...) from a mysqldump INSERT"                *)
(* (snapshot_dump.go:60), the bare values, numbers and NULL, included.     *)
(***************************************************************************)
ValuesAreParsed ==
  w = "done" => \A t \in DOMAIN written : \A i \in DOMAIN written[t] :
                  tuples[t][i] = written[t][i].raw
=============================================================================
