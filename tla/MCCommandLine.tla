----------------------------- MODULE MCCommandLine -----------------------------
(* Instances of CommandLine for TLC. *)
EXTENDS CommandLine

CONSTANTS k1, k2

AnyTxn == [th \in Threads |-> Txns]

\* The file has a plain value.  The user puts another of the same length, which restore
\* cuts short, so that a third, of another length, is in play after a restore.
PlainValue  == <<"x", "n">>
CutValue    == <<"u", ",">>
SomeValues  == {CutValue}
StoredValue == {PlainValue}

\* Every kind of character that backup and restore tell apart, and two letters of
\* escapes.
SampleCharacters ==
  {"x", "n", "u", " ", ",", "}", Quote, Backslash, NewLine, Tab, CarriageReturn, "other"}

AllCharacters == SampleCharacters \cup Blanks \cup Closers \cup ControlChars \cup Letters

ShortTexts(n) == UNION {[1 .. m -> SampleCharacters] : m \in 0 .. n}

\* restore reads what backup wrote: each record once and under its key, and its
\* value if and only if it is one that the format can hold, whatever the value
\* beside it (main.cpp:281-367, 394-486).
ASSUME FormatReadsBack ==
  \A v \in ShortTexts(3), w \in ShortTexts(1) :
    LET ReadsBack(records) ==
          LET read == Restored(BackupText(records))
          IN  /\ Len(read) = Len(records)
              /\ \A i \in DOMAIN records :
                    /\ read[i].key = records[i].key
                    /\ read[i].value = records[i].value <=> Plain(records[i].value)
        first  == [key |-> "a", value |-> v]
        second == [key |-> "b", value |-> w]
    IN  ReadsBack(<<first, second>>) /\ ReadsBack(<<second, first>>)
================================================================================
