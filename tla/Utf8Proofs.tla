----------------------------- MODULE Utf8Proofs -----------------------------
(***************************************************************************)
(* Proofs about the summary of a log, for every text of any length and     *)
(* every limit.                                                            *)
(***************************************************************************)
EXTENDS Utf8, SequenceTheorems, FiniteSetTheorems, TLAPS

\* Any set of numbers has a smallest one, which is its minimum.
LEMMA MinLemma ==
    ASSUME NEW S, S # {}, S \subseteq Nat
    PROVE  Min(S) \in S /\ \A x \in S : Min(S) <= x
  <1> DEFINE T == {0 .. x : x \in S}
  <1>1. T # {} /\ T \subseteq FiniteSubsetsOf(Nat)
    <2>1. \A x \in S : 0 .. x \in FiniteSubsetsOf(Nat)
      BY FS_Interval DEF FiniteSubsetsOf
    <2> QED
      BY <2>1
  <1>2. PICK I \in T : \A J \in T : <<J, I>> \notin StrictSubsetOrdering(Nat)
    <2> HIDE DEF T
    <2> QED
      BY <1>1, FS_StrictSubsetOrderingWellFounded, WFMin
  <1>3. PICK x \in S : I = 0 .. x
    BY <1>2
  <1>4. \A y \in S : x <= y
    <2> SUFFICES ASSUME NEW y \in S, y < x
                 PROVE  FALSE
      OBVIOUS
    <2>1. 0 .. y \subseteq 0 .. x /\ x \in 0 .. x /\ x \notin 0 .. y
      OBVIOUS
    <2>2. <<0 .. y, 0 .. x>> \in StrictSubsetOrdering(Nat)
      BY <2>1 DEF StrictSubsetOrdering
    <2> QED
      BY <1>2, <1>3, <2>2
  <1> QED
    BY <1>4 DEF Min

\* and one with a bound a largest one, which is its maximum.
LEMMA MaxLemma ==
    ASSUME NEW S, S # {}, NEW k \in Nat, S \subseteq 0 .. k
    PROVE  Max(S) \in S /\ \A x \in S : x <= Max(S)
  <1> DEFINE D == {k - x : x \in S}
  <1>1. D # {} /\ D \subseteq Nat
    <2>1. \A x \in S : k - x \in Nat
      OBVIOUS
    <2> QED
      BY <2>1
  <1>2. PICK d \in D : \A e \in D : d <= e
    <2> HIDE DEF D
    <2> QED
      BY <1>1, MinLemma
  <1>3. PICK m \in S : d = k - m
    BY <1>2
  <1>4. \A x \in S : m >= x
    <2> SUFFICES ASSUME NEW x \in S
                 PROVE  m >= x
      OBVIOUS
    <2>1. k - m <= k - x
      BY <1>2, <1>3
    <2> QED
      BY <2>1
  <1> QED
    BY <1>4 DEF Max

LEMMA WidthLemma == \A letter : Width(letter) \in 1 .. 4
  BY DEF Width

\* A beginning of a text ends with a whole character exactly if no byte that
\* continues one comes next.
LEMMA PrefixLemma ==
    ASSUME NEW Letter, NEW s \in Seq(Letter), ValidString(s), NEW k \in 0 .. Len(s)
    PROVE  ValidString(SubSeq(s, 1, k)) <=> (k < Len(s) => RuneStart(s[k + 1]))
  <1> DEFINE t == SubSeq(s, 1, k)
  <1>1. Len(t) = k /\ \A i \in 1 .. k : t[i] = s[i]
    BY SubSeqProperties
  <1> HIDE DEF t
  <1>2. ASSUME k < Len(s) => RuneStart(s[k + 1])
        PROVE  ValidString(t)
    <2> SUFFICES ASSUME NEW i \in 1 .. k
                 PROVE  /\ \A j \in 1 .. Width(t[i]) - 1 : i + j <= k /\ t[i + j] = "cont"
                        /\ t[i] = "cont" => \E j \in 1 .. i - 1 : i < j + Width(t[j])
      BY <1>1 DEF ValidString
    <2>1. ASSUME NEW j \in 1 .. Width(s[i]) - 1
          PROVE  i + j <= k /\ t[i + j] = "cont"
      <3>1. \A h \in 1 .. j : h \in 1 .. Width(s[i]) - 1 /\ i + h <= Len(s) /\ s[i + h] = "cont"
        BY WidthLemma DEF ValidString
      <3>2. i + j <= k
        <4> SUFFICES ASSUME i + j > k
                     PROVE  FALSE
          OBVIOUS
        <4>1. PICK h \in 1 .. j : i + h = k + 1
          <5>1. (k + 1) - i \in 1 .. j /\ i + ((k + 1) - i) = k + 1
            BY WidthLemma
          <5> QED
            BY <5>1
        <4>2. k + 1 <= Len(s) /\ s[k + 1] = "cont"
          BY <3>1, <4>1
        <4> QED
          BY <1>2, <4>2 DEF RuneStart
      <3> QED
        BY <1>1, <3>1, <3>2
    <2>2. ASSUME s[i] = "cont"
          PROVE  \E j \in 1 .. i - 1 : i < j + Width(t[j])
      BY <1>1, <2>2 DEF ValidString
    <2> QED
      BY <1>1, <2>1, <2>2
  <1>3. ASSUME k < Len(s), s[k + 1] = "cont", ValidString(t)
        PROVE  FALSE
    <2>1. PICK j \in 1 .. k : k + 1 < j + Width(s[j])
      BY <1>3 DEF ValidString
    <2>2. (k + 1) - j \in 1 .. Width(s[j]) - 1
      BY <2>1, WidthLemma
    <2>3. j + ((k + 1) - j) <= k
      BY <1>1, <1>3, <2>2 DEF ValidString
    <2> QED
      BY <2>3
  <1> QED
    BY <1>2, <1>3 DEF RuneStart, t

\* What a cut has to choose from: the loop begins at a letter of the text, the
\* beginnings that fit are those before a letter where it may stop, and there
\* is at least one.
LEMMA CutLemma ==
    ASSUME NEW Letter, NEW s \in Seq(Letter), ValidString(s), TooLong(s)
    PROVE  \E m \in 1 .. Len(s) :
             /\ Stops(s) = {j \in 1 .. m : RuneStart(s[j])}
             /\ Fits(s) = {j - 1 : j \in Stops(s)}
             /\ 1 \in Stops(s)
  <1> USE LimitAssumption
  <1> DEFINE m == IF Newlines(s) # {} THEN Min(Newlines(s)) ELSE maxLogLength + 1
  <1>1. /\ m \in 1 .. Len(s)
        /\ \A i \in 0 .. Len(s) : i < m <=> i <= maxLogLength /\ \A j \in 1 .. i : s[j] # "nl"
    <2>1. CASE Newlines(s) # {}
      <3>1. m \in Newlines(s) /\ \A j \in Newlines(s) : m <= j
        <4>1. Newlines(s) \subseteq Nat
          BY DEF Newlines
        <4> QED
          BY <2>1, <4>1, MinLemma
      <3> HIDE DEF m
      <3>2. m \in 1 .. Len(s) /\ m <= maxLogLength /\ s[m] = "nl"
        BY <3>1 DEF Newlines
      <3> QED
        BY <3>1, <3>2 DEF Newlines
    <2>2. CASE Newlines(s) = {}
      BY <2>2 DEF TooLong, Newlines
    <2> QED
      BY <2>1, <2>2
  <1>2. Stops(s) = {j \in 1 .. m : RuneStart(s[j])}
    BY DEF Stops
  <1> HIDE DEF m
  <1>3. \A i \in 0 .. Len(s) : i \in Fits(s) <=> i + 1 \in Stops(s)
    BY <1>1, <1>2, PrefixLemma DEF Fits
  <1>4. Fits(s) = {j - 1 : j \in Stops(s)}
    <2>1. \A i \in Fits(s) : i \in 0 .. Len(s) /\ i + 1 \in Stops(s) /\ i = (i + 1) - 1
      BY <1>3 DEF Fits
    <2>2. \A j \in Stops(s) : j - 1 \in 0 .. Len(s) /\ (j - 1) + 1 = j
      BY <1>1, <1>2
    <2> QED
      BY <1>3, <2>1, <2>2
  <1>5. 1 \in Stops(s)
    BY <1>1, <1>2 DEF ValidString, RuneStart
  <1> QED
    BY <1>1, <1>2, <1>4, <1>5

\* The last of the letters at which the loop may stop.
LEMMA StopsLemma ==
    ASSUME NEW Letter, NEW s \in Seq(Letter), ValidString(s), TooLong(s)
    PROVE  Max(Stops(s)) \in Stops(s) /\ \A j \in Stops(s) : j <= Max(Stops(s))
  <1>1. Stops(s) # {} /\ Stops(s) \subseteq 0 .. Len(s)
    BY CutLemma
  <1>2. Len(s) \in Nat
    OBVIOUS
  <1> QED
    BY <1>1, <1>2, MaxLemma

\* The loop of receiveLogs that looks for the start of a character
\* (storage.go:250-256) finds one within the text, so that it does not run out
\* of it, whatever the text and the limit, as long as it is UTF-8.
THEOREM CutStops ==
    ASSUME NEW Letter, NEW s \in Seq(Letter), ValidString(s), TooLong(s)
    PROVE  Stops(s) # {} /\ Stops(s) \subseteq 1 .. Len(s)
  BY CutLemma

\* The row of a log shows the longest beginning of its first line that fits
\* and does not end within a character (storage.go:247-258).
THEOREM CutIsFirstLine ==
    ASSUME NEW Letter, NEW s \in Seq(Letter), ValidString(s)
    PROVE  cut(s) = FirstLine(s)
  <1> USE LimitAssumption
  <1>1. CASE TooLong(s)
    <2>1. PICK m \in 1 .. Len(s) :
            /\ Stops(s) = {j \in 1 .. m : RuneStart(s[j])}
            /\ Fits(s) = {j - 1 : j \in Stops(s)}
            /\ 1 \in Stops(s)
      BY <1>1, CutLemma
    <2>2. Max(Stops(s)) \in Stops(s) /\ \A j \in Stops(s) : j <= Max(Stops(s))
      BY <1>1, StopsLemma
    <2>3. Max(Fits(s)) \in Fits(s) /\ \A i \in Fits(s) : i <= Max(Fits(s))
      <3>1. Fits(s) # {} /\ Fits(s) \subseteq 0 .. Len(s)
        BY <2>1 DEF Fits
      <3> QED
        BY <3>1, MaxLemma
    <2>4. Max(Fits(s)) = Max(Stops(s)) - 1 /\ Max(Fits(s)) # Len(s)
      <3> DEFINE a == Max(Stops(s))
                 b == Max(Fits(s))
      <3>1. a \in 1 .. m /\ a - 1 \in Fits(s)
        BY <2>1, <2>2
      <3>2. PICK j \in Stops(s) : b = j - 1
        BY <2>1, <2>3
      <3>3. j \in 1 .. m /\ j <= a
        BY <2>1, <2>2, <3>2
      <3>4. a - 1 <= b
        BY <2>3, <3>1
      <3> HIDE DEF a, b
      <3>5. b = a - 1 /\ b # Len(s)
        BY <3>1, <3>2, <3>3, <3>4
      <3> QED
        BY <3>5 DEF a, b
    <2> QED
      BY <1>1, <2>4 DEF cut, FirstLine
  <1>2. CASE ~TooLong(s)
    <2>1. Len(s) \in Fits(s)
      <3>1. ValidString(SubSeq(s, 1, Len(s)))
        BY PrefixLemma
      <3> QED
        BY <1>2, <3>1 DEF Fits, TooLong, Newlines
    <2>2. Fits(s) \subseteq 0 .. Len(s)
      BY DEF Fits
    <2>3. Max(Fits(s)) = Len(s)
      BY <2>1, <2>2, MaxLemma
    <2> QED
      BY <1>2, <2>3 DEF cut, FirstLine
  <1> QED
    BY <1>1, <1>2

\* A text is one with a letter more that is no part of a character.
LEMMA MoreLemma ==
    ASSUME NEW All, NEW t \in Seq(All), ValidString(t), NEW u \in Seq(All), Len(u) = 1,
           Width(u[1]) = 1, u[1] # "cont"
    PROVE  ValidString(t \o u)
  <1>1. /\ Len(t) \in Nat
        /\ Len(t \o u) = Len(t) + 1
        /\ \A i \in 1 .. Len(t) : (t \o u)[i] = t[i]
        /\ (t \o u)[Len(t) + 1] = u[1]
    <2>1. /\ Len(t \o u) = Len(t) + Len(u)
          /\ \A i \in 1 .. Len(t) + Len(u) :
               (t \o u)[i] = IF i <= Len(t) THEN t[i] ELSE u[i - Len(t)]
      BY ConcatProperties
    <2> QED
      BY <2>1
  <1>2. ASSUME NEW i \in 1 .. Len(t)
        PROVE  /\ \A j \in 1 .. Width((t \o u)[i]) - 1 :
                    i + j <= Len(t) + 1 /\ (t \o u)[i + j] = "cont"
               /\ (t \o u)[i] = "cont" => \E j \in 1 .. i - 1 : i < j + Width((t \o u)[j])
    <2>1. (t \o u)[i] = t[i] /\ Len(t) \in Nat
      BY <1>1
    <2>2. ASSUME NEW j \in 1 .. Width(t[i]) - 1
          PROVE  i + j \in 1 .. Len(t) /\ (t \o u)[i + j] = "cont"
      <3>1. i + j <= Len(t) /\ t[i + j] = "cont"
        BY DEF ValidString
      <3>2. i + j \in 1 .. Len(t)
        BY <2>1, <3>1, WidthLemma
      <3> QED
        BY <1>1, <3>1, <3>2
    <2>3. ASSUME t[i] = "cont"
          PROVE  \E j \in 1 .. i - 1 : i < j + Width((t \o u)[j])
      <3>1. PICK j \in 1 .. i - 1 : i < j + Width(t[j])
        BY <2>3 DEF ValidString
      <3>2. (t \o u)[j] = t[j]
        BY <1>1, <2>1
      <3> QED
        BY <3>1, <3>2
    <2> QED
      BY <2>1, <2>2, <2>3
  <1> QED
    BY <1>1, <1>2 DEF ValidString

\* What the row shows is UTF-8 again, so that the list of logs can be written
\* (value.go:182) if the text of the log can.
THEOREM CutIsText ==
    ASSUME NEW Letter, NEW s \in Seq(Letter), ValidString(s)
    PROVE  ValidString(cut(s))
  <1> USE LimitAssumption
  <1>1. CASE TooLong(s)
    <2>1. PICK m \in 1 .. Len(s) :
            /\ Stops(s) = {j \in 1 .. m : RuneStart(s[j])}
            /\ Fits(s) = {j - 1 : j \in Stops(s)}
            /\ 1 \in Stops(s)
      BY <1>1, CutLemma
    <2>2. Max(Stops(s)) \in Stops(s)
      BY <1>1, StopsLemma
    <2> DEFINE k == Max(Stops(s)) - 1
               t == SubSeq(s, 1, k)
    <2>3. k \in 0 .. Len(s) /\ ValidString(t)
      BY <2>1, <2>2 DEF Fits
    <2> HIDE DEF k
    <2>4. t \in Seq(Letter) /\ Len(t) = k
      BY <2>3, SubSeqProperties
    <2> HIDE DEF t
    <2>5. ValidString(t \o <<" [...]">>)
      <3> DEFINE All == Letter \cup {" [...]"}
                 mark == <<" [...]">>
      <3>1. t \in Seq(All)
        BY <2>4, Letter \subseteq All, SeqMonotonic
      <3>2. mark \in Seq(All) /\ Len(mark) = 1 /\ Width(mark[1]) = 1 /\ mark[1] # "cont"
        BY DEF Width
      <3> HIDE DEF All, mark
      <3>3. ValidString(t \o mark)
        BY <2>3, <3>1, <3>2, MoreLemma
      <3> QED
        BY <3>3 DEF mark
    <2> QED
      BY <1>1, <2>5 DEF cut, k, t
  <1>2. CASE ~TooLong(s)
    BY <1>2 DEF cut
  <1> QED
    BY <1>1, <1>2
=============================================================================
