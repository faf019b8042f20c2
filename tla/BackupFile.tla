------------------------------- MODULE BackupFile -------------------------------
(****************************************************************************)
(* The file that the commands backup and restore of src/src/main.cpp write  *)
(* and read: how a record is laid out, how its value is escaped, and what   *)
(* the hand-written parser of restore makes of it.                          *)
(*                                                                          *)
(* A text is a sequence of characters; a few stand for more than one.  "key"*)
(* and "value" are the quoted names with their colon, which occur nowhere   *)
(* else because a quote in a value has a backslash before it; indentation   *)
(* is one blank; a key is one character, as it is written without escapes   *)
(* and read up to the next quote.                                           *)
(****************************************************************************)
EXTENDS Naturals, SequencesExt

CONSTANT Characters     \* what values are made of

NewLine == "newline"
Tab     == "tab"
CarriageReturn == "return"
Quote     == "\""
Backslash == "\\"
ControlChars == {"backspace", "formfeed", "other"}
Blanks  == {" ", Tab, NewLine, CarriageReturn}
Closers == {",", "}", "]"}
Letters == {"n", "r", "t", "u"}
Names   == {"key", "value"}     \* what the parser looks for

ASSUME BackupFileAssumption ==
  /\ Names \cap Characters = {}
  /\ Blanks \cup Closers \cup ControlChars \cup Letters \cup {Quote, Backslash} \subseteq Characters

------------------------------------------------------------------------------
(* backup *)

\* The passes of backup over a value, for one character of it.  Backspace and
\* form feed have letters of their own, other controls are \u and a number.
Escape(c) ==
  CASE c \in {Quote, Backslash} -> <<Backslash, c>>
    [] c = NewLine              -> <<Backslash, "n">>
    [] c = CarriageReturn       -> <<Backslash, "r">>
    [] c = Tab                  -> <<Backslash, "t">>
    [] c \in ControlChars       -> <<Backslash, "u">>
    [] OTHER                    -> <<c>>

Quoted(text) == <<Quote>> \o text \o <<Quote>>

RecordText(r, last) ==
     <<" ", "{", NewLine, " ", "key", " ">> \o Quoted(<<r.key>>) \o <<",", NewLine>>
  \o <<" ", "value", " ">> \o Quoted(FlattenSeq([i \in DOMAIN r.value |-> Escape(r.value[i])]))
  \o <<NewLine, " ", "}">> \o (IF last THEN <<>> ELSE <<",">>) \o <<NewLine>>

\* What backup writes behind "records": for a sequence of records.
BackupText(records) ==
     <<" ", "[", NewLine>>
  \o FlattenSeq([i \in DOMAIN records |-> RecordText(records[i], i = Len(records))])
  \o <<" ", "]", NewLine, "}", NewLine>>

------------------------------------------------------------------------------
(* restore *)

\* The first place from i on that has none of these characters.
Past(text, i, chars) ==
  LET from[j \in 1 .. Len(text) + 1] ==
        IF j <= Len(text) /\ text[j] \in chars THEN from[j + 1] ELSE j
  IN  from[i]

\* The first place from i on that has this character.
Find(text, i, char) ==
  LET from[j \in 1 .. Len(text) + 1] ==
        IF j <= Len(text) /\ text[j] # char THEN from[j + 1] ELSE j
  IN  from[i]

Unescaped == [c \in {Quote, Backslash, "n", "t", "r"} |->
                CASE c = "n" -> NewLine [] c = "t" -> Tab [] c = "r" -> CarriageReturn [] OTHER -> c]

\* The value that starts at place i, and where the parser stops.  A quote ends it
\* only if a closer follows, and a closer ends it without a quote.
ValueFrom(text, i) ==
  LET Add(c, rest) == [rest EXCEPT !.value = <<c>> \o @]
      Closes(j) == j <= Len(text) /\ text[j] \in Closers
      from[j \in 1 .. Len(text) + 1] ==
        IF j > Len(text) \/ Closes(j) THEN [value |-> <<>>, at |-> j]
        ELSE IF text[j] = Backslash /\ j < Len(text) /\ text[j + 1] \in DOMAIN Unescaped
             THEN Add(Unescaped[text[j + 1]], from[j + 2])
        ELSE IF text[j] # Quote THEN Add(text[j], from[j + 1])
        ELSE LET behind == Past(text, j + 1, Blanks)
             IN  IF Closes(behind) THEN [value |-> <<>>, at |-> behind]
                 ELSE Add(text[j], from[behind])
  IN  from[i]

\* The puts that restore makes of the text from place i on.
Restored(text) ==
  LET from[i \in 1 .. Len(text) + 1] ==
        LET key   == Past(text, Find(text, i, "key") + 1, {" ", Quote})
            value == Find(text, key, "value")
            read  == ValueFrom(text, Past(text, value + 1, {" ", Quote}))
        IN  IF Find(text, i, "key") > Len(text) \/ value > Len(text) THEN <<>>
            ELSE <<[key |-> text[key], value |-> read.value]>> \o from[read.at]
  IN  from[1]

------------------------------------------------------------------------------
\* The values that the format can hold: the parser skips the blanks and quotes a
\* value starts with, takes an empty one for what follows it, stops at a closer,
\* and does not know the escapes of control characters.
Plain(value) ==
  /\ value # <<>>
  /\ value[1] # " "
  /\ \A i \in DOMAIN value : value[i] \notin Closers \cup ControlChars

================================================================================
