-------------------------------- MODULE Utf8 --------------------------------
(***************************************************************************)
(* Texts, as sequences of bytes, and where receiveLogs cuts the summary of *)
(* a log.  Of the bytes these matter: a newline, the first of a character  *)
(* of two, three or four, and those that continue it.                      *)
(***************************************************************************)
EXTENDS Naturals, Sequences, FiniteSetsExt

CONSTANT maxLogLength

ASSUME LimitAssumption == maxLogLength \in Nat

\* How many bytes a character has that begins with this one.
Width(letter) ==
    CASE letter = "lead2" -> 2
      [] letter = "lead3" -> 3
      [] letter = "lead4" -> 4
      [] OTHER -> 1

\* After the first byte of a character come all that continue it, and every
\* byte that continues one is one of them.
ValidString(s) ==
    \A i \in 1 .. Len(s) :
        /\ \A j \in 1 .. Width(s[i]) - 1 : i + j <= Len(s) /\ s[i + j] = "cont"
        /\ s[i] = "cont" => \E j \in 1 .. i - 1 : i < j + Width(s[j])

RuneStart(letter) == letter # "cont"

\* Where the first line of a text ends, if that is among the letters that the
\* summary may have.
Newlines(s) == {i \in 1 .. Len(s) : i <= maxLogLength /\ s[i] = "nl"}

TooLong(s) == Len(s) > maxLogLength \/ Newlines(s) # {}

\* The letters before which the loop over RuneStart may stop: none, and it
\* runs out of the string.
Stops(s) ==
    LET i == IF Newlines(s) # {} THEN Min(Newlines(s)) ELSE maxLogLength + 1
    IN  {j \in 1 .. i : RuneStart(s[j])}

\* Mutant: the text is cut wherever the limit falls.
cutAnywhere(s) ==
    IF TooLong(s)
    THEN SubSeq(s, 1, IF Newlines(s) # {} THEN Min(Newlines(s)) - 1 ELSE maxLogLength) \o <<" [...]">>
    ELSE s

cut(s) == IF TooLong(s) THEN SubSeq(s, 1, Max(Stops(s)) - 1) \o <<" [...]">> ELSE s

\* The beginnings of a text that a row may show: of its first line, with
\* whole characters, and within the limit.
Fits(s) ==
    {i \in 0 .. Len(s) :
        /\ i <= maxLogLength /\ ValidString(SubSeq(s, 1, i))
        /\ \A j \in 1 .. i : s[j] # "nl"}

\* The text if all of it fits, else the longest beginning that does.
FirstLine(s) ==
    LET longest == Max(Fits(s))
    IN  IF longest = Len(s) THEN s ELSE SubSeq(s, 1, longest) \o <<" [...]">>
=============================================================================
