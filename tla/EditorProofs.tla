---------------------------- MODULE EditorProofs ----------------------------
(***************************************************************************)
(* Theorems about LineEditor, for any characters, commands, page size and  *)
(* bounds.                                                                 *)
(***************************************************************************)
EXTENDS LineEditor, FiniteSetTheorems, SequenceTheorems, TLAPS

-----------------------------------------------------------------------------
(* Sequences and their extreme places.                                     *)

\* A part of a sequence is a sequence of the same elements.
LEMMA PartType ==
  ASSUME NEW S, NEW s \in Seq(S), NEW m \in Nat \ {0}, NEW n \in Int,
         n <= Len(s)
  PROVE  /\ SubSeq(s, m, n) \in Seq(S)
         /\ Len(SubSeq(s, m, n)) = IF m <= n THEN n - m + 1 ELSE 0
         /\ \A i \in 1..(n - m + 1) : SubSeq(s, m, n)[i] = s[i + m - 1]
  OBVIOUS

\* Putting two sequences together.
LEMMA JoinType ==
  ASSUME NEW S, NEW s \in Seq(S), NEW t \in Seq(S)
  PROVE  s \o t \in Seq(S) /\ Len(s \o t) = Len(s) + Len(t)
  OBVIOUS

\* Among finite sets one is minimal for strict inclusion; the two lemmas that
\* follow use it for intervals that end at the members of a set.
LEMMA MinimalSet ==
  ASSUME NEW T \in SUBSET FiniteSubsetsOf(Nat), T # {}
  PROVE  \E m \in T : \A t \in T : t \subseteq m => t = m
<1>1. PICK m \in T : \A t \in T : <<t, m>> \notin StrictSubsetOrdering(Nat)
  BY FS_StrictSubsetOrderingWellFounded, WFMin
<1>2. \A t \in T : t \in SUBSET Nat
  BY DEF FiniteSubsetsOf
<1> QED BY <1>1, <1>2 DEF StrictSubsetOrdering

\* A set of places that is not empty has a least member.
LEMMA MinIsMember ==
  ASSUME NEW S \in SUBSET Nat, S # {}
  PROVE  Min(S) \in S /\ \A y \in S : Min(S) <= y
<1> DEFINE Span(x) == 0..x
           T == {Span(x) : x \in S}
<1>1. ASSUME NEW x \in S PROVE Span(x) \in FiniteSubsetsOf(Nat)
  <2>1. x \in Nat /\ Span(x) \in SUBSET Nat
    OBVIOUS
  <2>2. IsFiniteSet(Span(x))
    BY <2>1, FS_Interval
  <2> HIDE DEF Span
  <2> QED BY <2>1, <2>2 DEF FiniteSubsetsOf
<1>2. T \in SUBSET FiniteSubsetsOf(Nat) /\ T # {}
  <2> HIDE DEF Span
  <2> QED BY <1>1
<1>3. PICK m \in T : \A t \in T : t \subseteq m => t = m
  <2> HIDE DEF T
  <2> QED BY <1>2, MinimalSet
<1>4. PICK x \in S : m = Span(x)
  OBVIOUS
<1>5. ASSUME NEW y \in S PROVE x <= y
  <2>1. Span(y) \in T
    OBVIOUS
  <2>2. Span(y) \subseteq Span(x) => Span(y) = Span(x)
    <3> HIDE DEF Span, T
    <3> QED BY <1>3, <1>4, <2>1
  <2>3. x \in Span(x) /\ x \in Nat /\ y \in Nat
    OBVIOUS
  <2>4. ~(x <= y) => Span(y) \subseteq Span(x) /\ x \notin Span(y)
    BY <2>3
  <2> HIDE DEF Span, T
  <2> QED BY <2>2, <2>3, <2>4
<1> QED BY <1>5 DEF Min

\* And, up to n, a greatest one.
LEMMA MaxIsMember ==
  ASSUME NEW n \in Nat, NEW S \in SUBSET (1..n), S # {}
  PROVE  Max(S) \in S /\ \A y \in S : Max(S) >= y
<1> DEFINE Span(x) == x..n
           T == {Span(x) : x \in S}
<1>1. ASSUME NEW x \in S PROVE Span(x) \in FiniteSubsetsOf(Nat)
  <2>1. x \in Nat /\ Span(x) \in SUBSET Nat
    OBVIOUS
  <2>2. IsFiniteSet(Span(x))
    BY <2>1, FS_Interval
  <2> HIDE DEF Span
  <2> QED BY <2>1, <2>2 DEF FiniteSubsetsOf
<1>2. T \in SUBSET FiniteSubsetsOf(Nat) /\ T # {}
  <2> HIDE DEF Span
  <2> QED BY <1>1
<1>3. PICK m \in T : \A t \in T : t \subseteq m => t = m
  <2> HIDE DEF T
  <2> QED BY <1>2, MinimalSet
<1>4. PICK x \in S : m = Span(x)
  OBVIOUS
<1>5. ASSUME NEW y \in S PROVE x >= y
  <2>1. Span(y) \in T
    OBVIOUS
  <2>2. Span(y) \subseteq Span(x) => Span(y) = Span(x)
    <3> HIDE DEF Span, T
    <3> QED BY <1>3, <1>4, <2>1
  <2>3. x \in Span(x) /\ x \in Nat /\ y \in Nat
    OBVIOUS
  <2>4. ~(x >= y) => Span(y) \subseteq Span(x) /\ x \notin Span(y)
    BY <2>3
  <2> HIDE DEF Span, T
  <2> QED BY <2>2, <2>3, <2>4
<1> QED BY <1>5 DEF Max

-----------------------------------------------------------------------------
(* The screen.                                                             *)

Screens == [text : Lines, col : Nat]

\* What a row looks like is a line.
LEMMA CellsType ==
  ASSUME NEW l \in Lines
  PROVE  Cells(l) \in Lines
<1>1. CASE Ink(l) = {}
  BY <1>1 DEF Cells, Lines
<1>2. CASE Ink(l) # {}
  <2>1. Ink(l) \in SUBSET (1..Len(l)) /\ Len(l) \in Nat
    BY DEF Ink, Lines
  <2>2. Max(Ink(l)) \in 1..Len(l)
    BY <1>2, <2>1, MaxIsMember
  <2> QED BY <1>2, <2>2, PartType DEF Cells, Lines
<1> QED BY <1>1, <1>2

\* Blanks are a line.
LEMMA BlanksType ==
  ASSUME NEW n \in Nat
  PROVE  Blanks(n) \in Lines /\ Len(Blanks(n)) = n
<1>1. Blanks(n) \in [1..n -> Chars]
  BY DEF Blanks, Chars
<1> QED BY <1>1 DEF Lines

\* Printing moves the cursor by what is printed.
LEMMA PrintedType ==
  ASSUME NEW s \in Screens, NEW t \in Lines
  PROVE  /\ Printed(s, t) \in Screens
         /\ Printed(s, t).col = s.col + Len(t)
<1> DEFINE row == s.text \o Blanks(s.col)
           left == SubSeq(row, 1, s.col)
           right == SubSeq(s.text, s.col + Len(t) + 1, Len(s.text))
<1>1. /\ s.text \in Seq(Chars) /\ s.col \in Nat /\ t \in Seq(Chars)
      /\ Len(s.text) \in Nat /\ Len(t) \in Nat
  BY DEF Screens, Lines
<1>2. row \in Seq(Chars) /\ s.col <= Len(row)
  <2>1. Blanks(s.col) \in Seq(Chars) /\ Len(Blanks(s.col)) = s.col
    BY <1>1, BlanksType DEF Lines
  <2>2. row \in Seq(Chars) /\ Len(row) = Len(s.text) + Len(Blanks(s.col))
    BY <1>1, <2>1, JoinType
  <2> QED BY <1>1, <2>1, <2>2
<1>3. left \in Seq(Chars)
  <2> HIDE DEF row
  <2> QED BY <1>1, <1>2, PartType
<1>4. right \in Seq(Chars)
  BY <1>1, PartType
<1>5. left \o t \o right \in Lines
  <2> HIDE DEF left, right
  <2> QED BY <1>1, <1>3, <1>4, JoinType DEF Lines
<1>6. Printed(s, t) = [text |-> Cells(left \o t \o right),
                       col |-> s.col + Len(t)]
  BY DEF Printed
<1> HIDE DEF left, right
<1> QED BY <1>1, <1>5, <1>6, CellsType DEF Screens

\* Moving back changes the column only.
LEMMA BackType ==
  ASSUME NEW s \in Screens, NEW n \in Int, n <= s.col
  PROVE  Back(s, n) \in Screens /\ Back(s, n).col = s.col - n
  BY DEF Back, Screens

\* The cursor follows _readBufPtr.
LEMMA MovedType ==
  ASSUME NEW s \in Screens, NEW l \in Lines, NEW p \in 0..Len(l),
         NEW q \in 0..Len(l), p <= s.col
  PROVE  /\ Moved(s, l, p, q) \in Screens
         /\ Moved(s, l, p, q).col = s.col + q - p
<1>1. s.col \in Nat /\ Len(l) \in Nat /\ l \in Seq(Chars)
  BY DEF Screens, Lines
<1>2. CASE q < p
  BY <1>1, <1>2, BackType DEF Moved
<1>3. CASE q >= p
  <2> DEFINE part == SubSeq(l, p + 1, q)
  <2>1. part \in Lines /\ Len(part) = q - p
    BY <1>1, <1>3, PartType DEF Lines
  <2>2. Moved(s, l, p, q) = Printed(s, part)
    BY <1>3 DEF Moved
  <2> HIDE DEF part
  <2> QED BY <1>1, <1>3, <2>1, <2>2, PrintedType
<1> QED BY <1>1, <1>2, <1>3

\* Deleting leaves the cursor where it is.
LEMMA CharDeletedType ==
  ASSUME NEW s \in Screens, NEW l \in Lines, NEW p \in 0..(Len(l) - 1),
         p <= s.col
  PROVE  /\ CharDeleted(s, l, p) \in Screens
         /\ CharDeleted(s, l, p).col = s.col
<1> DEFINE rest == SubSeq(l, p + 2, Len(l)) \o <<Blank>>
           printed == Printed(s, rest)
<1>1. s.col \in Nat /\ Len(l) \in Nat /\ l \in Seq(Chars)
  BY DEF Screens, Lines
<1>2. rest \in Lines /\ Len(rest) = Len(l) - p
  <2>1. /\ SubSeq(l, p + 2, Len(l)) \in Seq(Chars)
        /\ Len(SubSeq(l, p + 2, Len(l))) = Len(l) - p - 1
    BY <1>1, PartType
  <2>2. <<Blank>> \in Seq(Chars) /\ Len(<<Blank>>) = 1
    BY DEF Chars
  <2> QED BY <1>1, <2>1, <2>2, JoinType DEF Lines
<1>3. printed \in Screens /\ printed.col = s.col + Len(l) - p
  <2> HIDE DEF rest
  <2> QED BY <1>1, <1>2, PrintedType
<1>4. CharDeleted(s, l, p) = Back(Back(printed, 1), Len(l) - 1 - p)
  BY DEF CharDeleted
<1> HIDE DEF printed
<1>5. /\ Back(printed, 1) \in Screens
      /\ Back(printed, 1).col = s.col + Len(l) - p - 1
  <2>1. 1 \in Int /\ 1 <= printed.col
    BY <1>1, <1>3
  <2>2. /\ Back(printed, 1) \in Screens
        /\ Back(printed, 1).col = printed.col - 1
    BY <1>3, <2>1, BackType
  <2> QED BY <1>1, <1>3, <2>2
<1> DEFINE end == Back(printed, 1)
<1>6. end \in Screens /\ Len(l) - 1 - p \in Int /\ Len(l) - 1 - p <= end.col
  BY <1>1, <1>5
<1> HIDE DEF end
<1>7. /\ Back(end, Len(l) - 1 - p) \in Screens
      /\ Back(end, Len(l) - 1 - p).col = end.col - (Len(l) - 1 - p)
  BY <1>6, BackType
<1> QED BY <1>1, <1>4, <1>5, <1>7 DEF end

\* Deleting the line leads back to where it began.
LEMMA LineDeletedType ==
  ASSUME NEW s \in Screens, NEW l \in Lines, NEW p \in 0..Len(l), p <= s.col
  PROVE  /\ LineDeleted(s, l, p) \in Screens
         /\ LineDeleted(s, l, p).col = s.col - p
<1> DEFINE begin == Back(s, p)
           wiped == Printed(begin, Blanks(Len(l)))
<1>1. s.col \in Nat /\ Len(l) \in Nat
  BY DEF Screens, Lines
<1>2. begin \in Screens /\ begin.col = s.col - p
  BY <1>1, BackType
<1>3. wiped \in Screens /\ wiped.col = s.col - p + Len(l)
  <2> HIDE DEF begin
  <2> QED BY <1>1, <1>2, BlanksType, PrintedType
<1>4. LineDeleted(s, l, p) = Back(wiped, Len(l))
  BY DEF LineDeleted
<1> HIDE DEF wiped
<1> QED BY <1>1, <1>3, <1>4, BackType

-----------------------------------------------------------------------------
(* The invariant.                                                          *)

\* The cursor of the terminal may be ahead of _readBufPtr (a reprint leaves
\* it at the end of the line), but never behind: no function moves it left of
\* the prompt.
LineOK(l, p, s) ==
  /\ l \in Lines /\ p \in 0..Len(l)
  /\ s \in Screens /\ p <= s.col

\* The kept line is the last one, and idx is above it.
HistoryOK(h, temp, idx) ==
  /\ h \in Seq(Lines) /\ temp \in BOOLEAN
  /\ idx \in 0..Len(h)
  /\ IF temp THEN idx < Len(h) - 1 ELSE idx = Len(h)

EditInv ==
  /\ LineOK(line, ptr, screen)
  /\ HistoryOK(history, tempCmdStored, historyIdx)

\* Taking the last line out.
LEMMA WithoutLastType ==
  ASSUME NEW h \in Seq(Lines), h # << >>
  PROVE  /\ WithoutLast(h) \in Seq(Lines)
         /\ Len(WithoutLast(h)) = Len(h) - 1
         /\ \A i \in 1..(Len(h) - 1) : WithoutLast(h)[i] = h[i]
<1> DEFINE n == Len(h) - 1
<1>1. n \in Nat /\ n <= Len(h)
  OBVIOUS
<1>2. /\ SubSeq(h, 1, n) \in Seq(Lines)
      /\ Len(SubSeq(h, 1, n)) = IF 1 <= n THEN n - 1 + 1 ELSE 0
      /\ \A i \in 1..(n - 1 + 1) : SubSeq(h, 1, n)[i] = h[i + 1 - 1]
  <2> HIDE DEF n
  <2> QED BY <1>1, PartType
<1>3. WithoutLast(h) = SubSeq(h, 1, n)
  BY DEF WithoutLast
<1> HIDE DEF n
<1>4. /\ WithoutLast(h) \in Seq(Lines)
      /\ Len(WithoutLast(h)) = n
      /\ \A i \in 1..n : WithoutLast(h)[i] = h[i]
  BY <1>1, <1>2, <1>3
<1> QED BY <1>4 DEF n

\* A trimmed line is a line.
LEMMA TrimmedType ==
  ASSUME NEW l \in Lines, Ink(l) # {}
  PROVE  Trimmed(l) \in Lines
<1>1. /\ Ink(l) \in SUBSET (1..Len(l)) /\ Ink(l) \in SUBSET Nat
      /\ Len(l) \in Nat
  BY DEF Ink, Lines
<1>2. Min(Ink(l)) \in Ink(l) /\ Max(Ink(l)) \in Ink(l)
  BY <1>1, MinIsMember, MaxIsMember
<1>3. Min(Ink(l)) \in Nat \ {0} /\ Max(Ink(l)) \in 1..Len(l)
  BY <1>1, <1>2
<1> QED BY <1>3, PartType DEF Trimmed, Lines

\* The invariant has the two properties of the run as consequences.
LEMMA InvImplies == EditInv => TypeOK /\ KeptWhileAbove
<1> SUFFICES ASSUME EditInv PROVE TypeOK /\ KeptWhileAbove
  OBVIOUS
<1> USE DEF EditInv, LineOK, HistoryOK
<1>1. TypeOK
  BY DEF TypeOK, Screens
<1>2. Len(history) \in Nat
  OBVIOUS
<1>3. CASE tempCmdStored
  <2>1. history # << >>
    BY <1>2, <1>3
  <2> QED BY <1>1, <1>2, <1>3, <2>1, WithoutLastType
           DEF KeptWhileAbove, Entries
<1>4. CASE ~tempCmdStored
  BY <1>1, <1>2, <1>4 DEF KeptWhileAbove, Entries
<1> QED BY <1>3, <1>4

\* An empty line and an empty history.
LEMMA InitEdit == Init => EditInv
<1> SUFFICES ASSUME Init PROVE EditInv
  OBVIOUS
<1>1. << >> \in Lines /\ Len(<< >>) = 0
  BY DEF Lines
<1>2. Fresh(<< >>) \in Screens /\ Fresh(<< >>).col = 0
  BY <1>1, CellsType DEF Fresh, Screens
<1>3. LineOK(line, ptr, screen)
  BY <1>1, <1>2 DEF Init, LineOK
<1>4. << >> \in Seq(Lines)
  OBVIOUS
<1>5. HistoryOK(history, tempCmdStored, historyIdx)
  <2>1. /\ history \in Seq(Lines) /\ historyIdx \in 0..Len(history)
        /\ historyIdx = Len(history)
    BY <1>1, <1>4 DEF Init
  <2>2. tempCmdStored \in BOOLEAN /\ ~tempCmdStored
    BY DEF Init
  <2> QED BY <2>1, <2>2, Zenon DEF HistoryOK
<1> QED BY <1>3, <1>5 DEF EditInv

-----------------------------------------------------------------------------
(* Editing and retrieving keep it.                                         *)

\* Reprinting.
LEMMA FreshType ==
  ASSUME NEW l \in Lines
  PROVE  Fresh(l) \in Screens /\ Fresh(l).col = Len(l) /\ Len(l) \in Nat
  BY CellsType DEF Fresh, Screens, Lines

\* Showing another line.
LEMMA RetrieveKeeps ==
  ASSUME EditInv, NEW l \in Lines, Retrieve(l)
  PROVE  LineOK(line', ptr', screen')
<1> DEFINE empty == LineDeleted(screen, line, ptr)
<1>1. /\ line \in Lines /\ ptr \in 0..Len(line)
      /\ screen \in Screens /\ ptr <= screen.col
  BY DEF EditInv, LineOK
<1>2. screen.col \in Nat /\ Len(line) \in Nat /\ Len(l) \in Nat
  BY <1>1 DEF Screens, Lines
<1>3. empty \in Screens /\ empty.col = screen.col - ptr
  BY <1>1, LineDeletedType
<1>4. line' = l /\ ptr' = Len(l) /\ screen' = Printed(empty, l)
  BY DEF Retrieve
<1> HIDE DEF empty
<1>5. screen' \in Screens /\ screen'.col = screen.col - ptr + Len(l)
  BY <1>3, <1>4, PrintedType
<1> QED BY <1>1, <1>2, <1>4, <1>5 DEF LineOK

\* The end of a walk, which the kept line is in the history for.
LEMMA SettleKeeps ==
  ASSUME EditInv, NEW h \in Seq(Lines), NEW idx \in 0..(Len(h) - 1),
         Settle(h, TRUE, idx)
  PROVE  EditInv'
<1>1. Len(h) \in Nat \ {0} /\ h[idx + 1] \in Lines /\ h # << >>
  OBVIOUS
<1>2. LineOK(line', ptr', screen')
  BY <1>1, RetrieveKeeps DEF Settle
<1>3. HistoryOK(history', tempCmdStored', historyIdx')
  <2>1. CASE idx = Len(h) - 1
    BY <1>1, <2>1, WithoutLastType DEF Settle, HistoryOK
  <2>2. CASE idx # Len(h) - 1
    <3>1. history' = h /\ tempCmdStored' = TRUE /\ historyIdx' = idx
      BY <2>2 DEF Settle
    <3>2. idx \in 0..Len(h) /\ idx < Len(h) - 1
      BY <1>1, <2>2
    <3> QED BY <3>1, <3>2 DEF HistoryOK
  <2> QED BY <2>1, <2>2
<1> QED BY <1>2, <1>3 DEF EditInv

\* From the bottom the line is appended and the walk goes above it; from
\* above, it goes further up.
LEMMA MoveUpKeeps ==
  ASSUME EditInv, NEW n \in Nat \ {0}, MoveUp(n)
  PROVE  EditInv'
<1> DEFINE idx == IF historyIdx < n THEN 0 ELSE historyIdx - n
<1>1. /\ HistoryOK(history, tempCmdStored, historyIdx)
      /\ line \in Lines /\ Len(history) \in Nat
  BY DEF EditInv, LineOK, HistoryOK
<1>2. idx \in Nat /\ idx < historyIdx /\ historyIdx \in 0..Len(history)
  BY <1>1 DEF MoveUp, HistoryOK
<1>3. CASE historyIdx = Len(history)
  <2>1. /\ Append(history, line) \in Seq(Lines)
        /\ Len(Append(history, line)) = Len(history) + 1
    BY <1>1 DEF HistoryOK
  <2>2. Settle(Append(history, line), TRUE, idx)
    BY <1>3 DEF MoveUp
  <2>3. idx \in 0..(Len(Append(history, line)) - 1)
    BY <1>1, <1>2, <2>1
  <2> HIDE DEF idx
  <2> QED BY <2>1, <2>2, <2>3, SettleKeeps
<1>4. CASE historyIdx # Len(history)
  <2>1. Settle(history, TRUE, idx) /\ history \in Seq(Lines)
    BY <1>1, <1>4 DEF MoveUp, HistoryOK
  <2>2. idx \in 0..(Len(history) - 1)
    BY <1>1, <1>2
  <2> HIDE DEF idx
  <2> QED BY <2>1, <2>2, SettleKeeps
<1> QED BY <1>3, <1>4

\* Down to an entry, or to the kept line, which is taken out.
LEMMA MoveDownKeeps ==
  ASSUME EditInv, NEW n \in Nat \ {0}, MoveDown(n)
  PROVE  EditInv'
<1> DEFINE idx == Least(historyIdx + n, Len(history) - 1)
<1>1. HistoryOK(history, tempCmdStored, historyIdx) /\ Len(history) \in Nat
  BY DEF EditInv, HistoryOK
<1>2. tempCmdStored = TRUE /\ historyIdx < Len(history) - 1
  BY <1>1 DEF MoveDown, HistoryOK
<1>3. idx \in 0..(Len(history) - 1)
  BY <1>1, <1>2 DEF Least, HistoryOK
<1>4. Settle(history, TRUE, idx) /\ history \in Seq(Lines)
  BY <1>1, <1>2 DEF MoveDown, HistoryOK
<1> HIDE DEF idx
<1> QED BY <1>3, <1>4, SettleKeeps

-----------------------------------------------------------------------------
(* Every key keeps the invariant.                                          *)

\* Keys that edit the line leave the history alone.
LEMMA EditingKeeps ==
  ASSUME EditInv, UNCHANGED historyVars, LineOK(line', ptr', screen')
  PROVE  EditInv'
  BY DEF EditInv, historyVars

\* Moving in the line.
LEMMA MoveBufPtrKeeps ==
  ASSUME EditInv, NEW p \in 0..Len(line), MoveBufPtr(p)
  PROVE  EditInv'
<1>1. /\ line \in Lines /\ ptr \in 0..Len(line) /\ Len(line) \in Nat
      /\ screen \in Screens /\ ptr <= screen.col /\ screen.col \in Nat
  BY DEF EditInv, LineOK, Screens, Lines
<1>2. screen' \in Screens /\ screen'.col = screen.col + p - ptr
  BY <1>1, MovedType DEF MoveBufPtr
<1>3. LineOK(line', ptr', screen')
  BY <1>1, <1>2 DEF MoveBufPtr, LineOK
<1> QED BY <1>3, EditingKeeps DEF MoveBufPtr

\* Taking one character out.
LEMMA WithoutType ==
  ASSUME NEW l \in Lines, NEW p \in 0..(Len(l) - 1)
  PROVE  Without(l, p) \in Lines /\ Len(Without(l, p)) = Len(l) - 1
<1> DEFINE left == SubSeq(l, 1, p)
           right == SubSeq(l, p + 2, Len(l))
<1>1. l \in Seq(Chars) /\ Len(l) \in Nat
  BY DEF Lines
<1>2. left \in Seq(Chars) /\ Len(left) = p
  BY <1>1, PartType
<1>3. right \in Seq(Chars) /\ Len(right) = Len(l) - 1 - p
  BY <1>1, PartType
<1>4. Without(l, p) = left \o right
  BY DEF Without
<1> HIDE DEF left, right
<1> QED BY <1>1, <1>2, <1>3, <1>4, JoinType DEF Lines

\* Deleting at the cursor.
LEMMA DeleteCharKeeps ==
  ASSUME EditInv, DeleteChar
  PROVE  EditInv'
<1>1. /\ line \in Lines /\ ptr \in 0..(Len(line) - 1) /\ Len(line) \in Nat
      /\ screen \in Screens /\ ptr <= screen.col /\ screen.col \in Nat
  BY DEF EditInv, LineOK, Screens, Lines, DeleteChar
<1>2. screen' \in Screens /\ screen'.col = screen.col
  BY <1>1, CharDeletedType DEF DeleteChar
<1>3. line' \in Lines /\ Len(line') = Len(line) - 1 /\ ptr' = ptr
  BY <1>1, WithoutType DEF DeleteChar
<1>4. LineOK(line', ptr', screen')
  BY <1>1, <1>2, <1>3 DEF LineOK
<1> QED BY <1>4, EditingKeeps DEF DeleteChar, historyVars

\* Deleting before the cursor.
LEMMA BackSpaceKeeps ==
  ASSUME EditInv, BackSpace
  PROVE  EditInv'
<1> DEFINE moved == Moved(screen, line, ptr, ptr - 1)
<1>1. /\ line \in Lines /\ ptr \in 0..Len(line) /\ ptr > 0
      /\ Len(line) \in Nat
      /\ screen \in Screens /\ ptr <= screen.col /\ screen.col \in Nat
  BY DEF EditInv, LineOK, Screens, Lines, BackSpace
<1>2. ptr - 1 \in 0..Len(line) /\ ptr - 1 \in 0..(Len(line) - 1)
  BY <1>1
<1>3. moved \in Screens /\ moved.col = screen.col + (ptr - 1) - ptr
  BY <1>1, <1>2, MovedType
<1>4. screen' = CharDeleted(moved, line, ptr - 1)
  BY DEF BackSpace
<1> HIDE DEF moved
<1>5. ptr - 1 <= moved.col /\ moved.col = screen.col - 1
  BY <1>1, <1>3
<1>6. screen' \in Screens /\ screen'.col = moved.col
  BY <1>1, <1>2, <1>3, <1>4, <1>5, CharDeletedType
<1>7. line' \in Lines /\ Len(line') = Len(line) - 1 /\ ptr' = ptr - 1
  BY <1>1, <1>2, WithoutType DEF BackSpace
<1>8. LineOK(line', ptr', screen')
  BY <1>1, <1>5, <1>6, <1>7 DEF LineOK
<1> QED BY <1>8, EditingKeeps DEF BackSpace

\* Inserting.
LEMMA InsertCharKeeps ==
  ASSUME EditInv, NEW ch \in Chars, InsertChar(ch)
  PROVE  EditInv'
<1> DEFINE left == SubSeq(line, 1, ptr)
           right == SubSeq(line, ptr + 1, Len(line))
           shown == SubSeq(line', ptr + 1, Len(line'))
           printed == Printed(screen, shown)
<1>1. /\ line \in Seq(Chars) /\ ptr \in 0..Len(line) /\ Len(line) \in Nat
      /\ screen \in Screens /\ ptr <= screen.col /\ screen.col \in Nat
  BY DEF EditInv, LineOK, Screens, Lines
<1>2. left \in Seq(Chars) /\ Len(left) = ptr
  BY <1>1, PartType
<1>3. right \in Seq(Chars) /\ Len(right) = Len(line) - ptr
  BY <1>1, PartType
<1>4. /\ line' = left \o <<ch>> \o right /\ ptr' = ptr + 1
      /\ screen' = Back(printed, Len(line) - ptr)
      /\ UNCHANGED historyVars
  BY DEF InsertChar
<1>5. line' \in Seq(Chars) /\ Len(line') = Len(line) + 1
  <2>1. <<ch>> \in Seq(Chars) /\ Len(<<ch>>) = 1
    OBVIOUS
  <2> DEFINE one == <<ch>>
  <2>2. line' = left \o one \o right
    BY <1>4
  <2> HIDE DEF left, right, one
  <2>3. left \o one \in Seq(Chars) /\ Len(left \o one) = ptr + 1
    BY <1>2, <2>1, JoinType DEF one
  <2> QED BY <1>1, <1>3, <2>2, <2>3, JoinType
<1>6. shown \in Lines /\ Len(shown) = Len(line) + 1 - ptr
  BY <1>1, <1>5, PartType DEF Lines
<1>7. printed \in Screens /\ printed.col = screen.col + Len(line) + 1 - ptr
  <2> HIDE DEF left, right, shown
  <2>1. printed \in Screens /\ printed.col = screen.col + Len(shown)
    BY <1>1, <1>6, PrintedType
  <2> HIDE DEF printed
  <2> QED BY <1>1, <1>6, <2>1
<1>8. screen' \in Screens /\ screen'.col = screen.col + 1
  <2> HIDE DEF left, right, shown, printed
  <2> DEFINE back == Len(line) - ptr
  <2>1. back \in Int /\ back <= printed.col
    BY <1>1, <1>7
  <2>2. screen' = Back(printed, back)
    BY <1>4
  <2> HIDE DEF back
  <2>3. screen' \in Screens /\ screen'.col = printed.col - back
    BY <1>7, <2>1, <2>2, BackType
  <2> QED BY <1>1, <1>7, <2>3 DEF back
<1>9. LineOK(line', ptr', screen')
  <2> HIDE DEF left, right, printed
  <2>1. ptr' = ptr + 1
    BY <1>4
  <2>2. line' \in Lines /\ ptr' \in 0..Len(line') /\ ptr' <= screen'.col
    BY <1>1, <1>5, <1>8, <2>1 DEF Lines
  <2> QED BY <1>8, <2>2 DEF LineOK
<1> QED BY <1>4, <1>9, EditingKeeps

\* Filing a line ends above nothing: the kept line is gone.
LEMMA NewLineKeeps ==
  ASSUME EditInv, NewLine
  PROVE  EditInv'
<1>1. /\ history \in Seq(Lines) /\ Len(history) \in Nat /\ line \in Lines
      /\ tempCmdStored \in BOOLEAN
      /\ tempCmdStored => history # << >>
      /\ ~tempCmdStored => historyIdx = Len(history)
  <2>1. /\ history \in Seq(Lines) /\ Len(history) \in Nat
        /\ tempCmdStored \in BOOLEAN /\ historyIdx \in 0..Len(history)
        /\ IF tempCmdStored THEN historyIdx < Len(history) - 1
                            ELSE historyIdx = Len(history)
    BY DEF EditInv, HistoryOK
  <2>2. tempCmdStored => history # << >>
    BY <2>1
  <2> QED BY <2>1, <2>2, Zenon DEF EditInv, LineOK
<1>2. LineOK(line', ptr', screen')
  <2>1. << >> \in Lines /\ Len(<< >>) = 0
    BY DEF Lines
  <2>2. /\ Fresh(<< >>) \in Screens /\ Fresh(<< >>).col = 0
    BY <2>1, FreshType
  <2>3. line' = << >> /\ ptr' = 0 /\ screen' = Fresh(<< >>)
    BY DEF NewLine
  <2> QED BY <2>1, <2>2, <2>3 DEF LineOK
<1>3. history' \in Seq(Lines)
  <2>1. CASE Ink(line) = {}
    BY <1>1, <2>1, WithoutLastType DEF NewLine, AddHistory, historyVars
  <2>2. CASE Ink(line) # {}
    <3>1. Trimmed(line) \in Lines
      BY <1>1, <2>2, TrimmedType
    <3> QED BY <1>1, <2>2, <3>1 DEF NewLine, AddHistory
  <2> QED BY <2>1, <2>2
<1>4. tempCmdStored' = FALSE /\ historyIdx' = Len(history')
  <2>1. CASE UNCHANGED historyVars /\ ~tempCmdStored
    BY <1>1, <2>1 DEF historyVars
  <2>2. CASE tempCmdStored' = FALSE /\ historyIdx' = Len(history')
    BY <2>2
  <2> QED BY <2>1, <2>2, Zenon DEF NewLine, AddHistory
<1>5. HistoryOK(history', tempCmdStored', historyIdx')
  <2>1. Len(history') \in Nat
    BY <1>3
  <2>2. historyIdx' \in 0..Len(history')
    BY <1>4, <2>1
  <2>3. tempCmdStored' \in BOOLEAN /\ ~tempCmdStored'
    BY <1>4
  <2> QED BY <1>3, <1>4, <2>2, <2>3, Zenon DEF HistoryOK
<1> QED BY <1>2, <1>5 DEF EditInv

\* Reprinting puts the terminal's cursor at the end, ptr being before it.
LEMMA ReprintKeeps ==
  ASSUME EditInv, Reprint
  PROVE  EditInv'
<1>1. line \in Lines /\ ptr \in 0..Len(line)
  BY DEF EditInv, LineOK
<1>2. /\ Fresh(line) \in Screens /\ Fresh(line).col = Len(line)
      /\ Len(line) \in Nat
  BY <1>1, FreshType
<1>3. screen' = Fresh(line) /\ line' = line /\ ptr' = ptr
  BY DEF Reprint
<1>4. LineOK(line', ptr', screen')
  BY <1>1, <1>2, <1>3 DEF LineOK
<1> QED BY <1>4, EditingKeeps DEF Reprint

\* A completion shows a command, or reprints.
LEMMA CompleteCmdKeeps ==
  ASSUME EditInv, CompleteCmd
  PROVE  EditInv'
<1>1. \/ Reprint
      \/ \E cmd \in Commands : Retrieve(cmd) /\ UNCHANGED historyVars
  BY DEF CompleteCmd, CommonPrefix
<1>2. ASSUME NEW cmd \in Commands, Retrieve(cmd), UNCHANGED historyVars
      PROVE  EditInv'
  <2>1. cmd \in Lines
    BY CommandsAssumption DEF Lines, Chars
  <2> QED BY <1>2, <2>1, RetrieveKeeps, EditingKeeps
<1> QED BY <1>1, <1>2, ReprintKeeps

\* Every step keeps the invariant.
LEMMA NextEdit == EditInv /\ [Next]_editVars => EditInv'
<1> SUFFICES ASSUME EditInv, [Next]_editVars PROVE EditInv'
  OBVIOUS
<1>1. ASSUME NEW p \in 0..Len(line), MoveBufPtr(p) PROVE EditInv'
  BY <1>1, MoveBufPtrKeeps
<1>2. CASE DeleteChar
  BY <1>2, DeleteCharKeeps
<1>3. CASE BackSpace
  BY <1>3, BackSpaceKeeps
<1>4. ASSUME NEW ch \in Chars, InsertChar(ch) PROVE EditInv'
  BY <1>4, InsertCharKeeps
<1>5. CASE NewLine
  BY <1>5, NewLineKeeps
<1>6. ASSUME NEW n \in {1, PG_OFFSET}, MoveUp(n) \/ MoveDown(n)
      PROVE  EditInv'
  <2>1. n \in Nat \ {0}
    BY PageAssumption
  <2> QED BY <1>6, <2>1, MoveUpKeeps, MoveDownKeeps
<1>7. CASE CompleteCmd
  BY <1>7, CompleteCmdKeeps
<1>8. CASE ShowMessage
  BY <1>8, ReprintKeeps DEF ShowMessage
<1>9. CASE UNCHANGED editVars
  BY <1>9 DEF editVars, EditInv, LineOK, HistoryOK
<1> QED BY <1>1, <1>2, <1>3, <1>4, <1>5, <1>6, <1>7, <1>8, <1>9 DEF Next

\* No key moves _readBufPtr out of the line, _historyIdx out of the history,
\* or the cursor left of the prompt.
THEOREM EditorTypeCorrect == Spec => []TypeOK
<1>1. EditInv => TypeOK
  BY InvImplies
<1> QED BY <1>1, InitEdit, NextEdit, PTL DEF Spec

\* The line being typed is in the history exactly while the user is above its
\* bottom, for every page size and whatever was typed.
THEOREM KeptLine == Spec => []KeptWhileAbove
<1>1. EditInv => KeptWhileAbove
  BY InvImplies
<1> QED BY <1>1, InitEdit, NextEdit, PTL DEF Spec

-----------------------------------------------------------------------------
(* The editor implements CommandHistory.                                   *)

\* Taking out what was appended.
LEMMA WithoutLastAppend ==
  ASSUME NEW h \in Seq(Lines), NEW l \in Lines
  PROVE  WithoutLast(Append(h, l)) = h
<1> DEFINE a == Append(h, l)
           w == WithoutLast(a)
<1>1. /\ a \in Seq(Lines) /\ Len(a) = Len(h) + 1 /\ Len(h) \in Nat
      /\ \A i \in 1..Len(h) : a[i] = h[i]
  OBVIOUS
<1> HIDE DEF a
<1>2. a # << >>
  BY <1>1
<1>3. /\ w \in Seq(Lines) /\ Len(w) = Len(a) - 1
      /\ \A i \in 1..(Len(a) - 1) : w[i] = a[i]
  BY <1>1, <1>2, WithoutLastType
<1> HIDE DEF w
<1>4. Len(w) = Len(h) /\ \A i \in 1..Len(w) : w[i] = h[i]
  BY <1>1, <1>3
<1>5. w = h
  BY <1>3, <1>4, SeqEqual
<1> QED BY <1>5 DEF w, a

\* Replacing the last line is appending to the others.
LEMMA ReplaceLast ==
  ASSUME NEW h \in Seq(Lines), h # << >>, NEW l \in Lines
  PROVE  [h EXCEPT ![Len(h)] = l] = Append(WithoutLast(h), l)
<1> DEFINE r == [h EXCEPT ![Len(h)] = l]
           e == WithoutLast(h)
<1>1. /\ e \in Seq(Lines) /\ Len(e) = Len(h) - 1
      /\ \A i \in 1..(Len(h) - 1) : e[i] = h[i]
  BY WithoutLastType
<1>2. r \in Seq(Lines) /\ Len(r) = Len(h)
  OBVIOUS
<1>3. \A i \in 1..Len(h) : r[i] = IF i = Len(h) THEN l ELSE h[i]
  OBVIOUS
<1> HIDE DEF r, e
<1>4. /\ Append(e, l) \in Seq(Lines) /\ Len(Append(e, l)) = Len(h)
      /\ \A i \in 1..Len(h) :
           Append(e, l)[i] = IF i = Len(h) THEN l ELSE h[i]
  BY <1>1
<1>5. \A i \in 1..Len(r) : r[i] = Append(e, l)[i]
  BY <1>2, <1>3, <1>4
<1>6. r = Append(e, l)
  BY <1>2, <1>4, <1>5, SeqEqual
<1> QED BY <1>6 DEF r, e

\* What the refinement mapping makes of the history variables, case by case.
LEMMA MappedHistory ==
  ASSUME EditInv
  PROVE  /\ historyIdx \in Nat /\ Len(history) \in Nat
         /\ Entries \in Seq(Lines) /\ Len(Entries) \in Nat
         /\ historyIdx <= Len(Entries)
         /\ ~tempCmdStored => /\ Entries = history
                              /\ historyIdx = Len(Entries)
         /\ tempCmdStored =>
              /\ Entries = WithoutLast(history) /\ history # << >>
              /\ historyIdx < Len(Entries) /\ Len(Entries) = Len(history) - 1
              /\ \A i \in 1..Len(Entries) : Entries[i] = history[i]
<1>1. /\ history \in Seq(Lines) /\ Len(history) \in Nat
      /\ tempCmdStored \in BOOLEAN /\ historyIdx \in 0..Len(history)
      /\ IF tempCmdStored THEN historyIdx < Len(history) - 1
                          ELSE historyIdx = Len(history)
  BY DEF EditInv, HistoryOK
<1>2. CASE tempCmdStored
  <2>1. Entries = WithoutLast(history)
    BY <1>2 DEF Entries
  <2>2. history # << >> /\ historyIdx < Len(history) - 1
    BY <1>1, <1>2
  <2>3. /\ WithoutLast(history) \in Seq(Lines)
        /\ Len(WithoutLast(history)) = Len(history) - 1
        /\ \A i \in 1..(Len(history) - 1) : WithoutLast(history)[i] = history[i]
    BY <1>1, <2>2, WithoutLastType
  <2> QED BY <1>1, <1>2, <2>1, <2>2, <2>3
<1>3. CASE ~tempCmdStored
  <2>1. Entries = history /\ historyIdx = Len(history)
    BY <1>1, <1>3 DEF Entries
  <2> QED BY <1>1, <1>3, <2>1
<1> QED BY <1>2, <1>3

\* Editing is a step of CommandHistory that leaves its entries alone.
LEMMA EditStep ==
  ASSUME EditInv', UNCHANGED historyVars
  PROVE  CH!Edit
<1>1. line' \in Lines
  BY DEF EditInv, LineOK
<1>2. UNCHANGED Entries
  BY DEF historyVars, Entries
<1> QED BY <1>1, <1>2 DEF CH!Edit, historyVars

\* Filing a line is entering it.
LEMMA NewLineStep ==
  ASSUME EditInv, NewLine
  PROVE  CH!Enter
<1>1. history \in Seq(Lines) /\ line \in Lines
  BY DEF EditInv, LineOK, HistoryOK
<1>2. tempCmdStored' = FALSE /\ historyIdx' = Len(history')
  BY MappedHistory DEF NewLine, AddHistory, historyVars, EditInv, HistoryOK
<1>3. Entries' = history'
  BY <1>2 DEF Entries
<1>4. CASE Ink(line) = {}
  <2>1. history' = Entries
    BY <1>4, MappedHistory DEF NewLine, AddHistory, historyVars
  <2>2. Forms(line) = {}
    BY <1>4 DEF Forms
  <2> QED BY <1>2, <1>3, <2>1, <2>2 DEF CH!Enter, NewLine
<1>5. CASE Ink(line) # {}
  <2>1. PICK e \in Forms(line) : history' = Append(Entries, e)
    <3>1. CASE tempCmdStored
      <4>1. history' = Append(Entries, line)
        BY <1>1, <1>5, <3>1, MappedHistory, ReplaceLast
           DEF NewLine, AddHistory
      <4>2. line \in Forms(line)
        BY <1>5 DEF Forms
      <4> QED BY <4>1, <4>2
    <3>2. CASE ~tempCmdStored
      <4>1. history' = Append(Entries, Trimmed(line))
        BY <1>5, <3>2, MappedHistory DEF NewLine, AddHistory
      <4>2. Trimmed(line) \in Forms(line)
        BY <1>5 DEF Forms
      <4> QED BY <4>1, <4>2
    <3> QED BY <3>1, <3>2
  <2> QED BY <1>2, <1>3, <2>1 DEF CH!Enter, NewLine
<1> QED BY <1>4, <1>5

\* A walk that begins above the bottom.
LEMMA SettleStep ==
  ASSUME EditInv, tempCmdStored, NEW i \in 0..(Len(history) - 1),
         i # historyIdx, Settle(history, TRUE, i)
  PROVE  CH!Walk(i + 1)
<1>1. /\ historyIdx' = i /\ line' = history[i + 1]
      /\ IF i = Len(history) - 1
           THEN history' = WithoutLast(history) /\ tempCmdStored' = FALSE
           ELSE history' = history /\ tempCmdStored' = TRUE
  BY DEF Settle, Retrieve
<1>2. Entries' = Entries
  BY <1>1, MappedHistory DEF Entries
<1>3. /\ i + 1 \in 1..(Len(Entries) + 1) /\ i + 1 # historyIdx + 1
      /\ historyIdx + 1 # Len(Entries) + 1
  BY MappedHistory
<1>4. CASE i = Len(history) - 1
  <2>1. /\ i + 1 = Len(Entries) + 1 /\ i + 1 = Len(history)
        /\ ~tempCmdStored'
    BY <1>1, <1>4, MappedHistory
  <2> QED BY <1>1, <1>2, <1>3, <2>1 DEF CH!Walk, CH!Bottom
<1>5. CASE i # Len(history) - 1
  <2>1. /\ i + 1 # Len(Entries) + 1 /\ line' = Entries[i + 1]
        /\ history' = history /\ tempCmdStored'
    BY <1>1, <1>5, MappedHistory
  <2> QED BY <1>1, <1>2, <1>3, <2>1 DEF CH!Walk, CH!Bottom
<1> QED BY <1>4, <1>5

\* Walking up, from the bottom or from an entry.
LEMMA MoveUpStep ==
  ASSUME EditInv, NEW n \in Nat \ {0}, MoveUp(n)
  PROVE  \E to \in 1..CH!Bottom : CH!Walk(to)
<1> DEFINE i == IF historyIdx < n THEN 0 ELSE historyIdx - n
           h == Append(history, line)
<1>1. i \in Nat /\ i < historyIdx
  BY MappedHistory DEF MoveUp
<1>2. i + 1 \in 1..CH!Bottom
  BY <1>1, MappedHistory DEF CH!Bottom
<1>3. history \in Seq(Lines) /\ line \in Lines
  BY DEF EditInv, LineOK, HistoryOK
<1>4. CASE tempCmdStored
  <2>1. tempCmdStored = TRUE
    BY <1>4 DEF EditInv, HistoryOK
  <2>2. historyIdx # Len(history) /\ i \in 0..(Len(history) - 1)
    BY <1>1, <1>4, MappedHistory
  <2>3. Settle(history, TRUE, i)
    BY <2>1, <2>2 DEF MoveUp
  <2>4. i # historyIdx
    BY <1>1, MappedHistory
  <2> HIDE DEF i
  <2>5. CH!Walk(i + 1)
    BY <1>4, <2>2, <2>3, <2>4, SettleStep
  <2> QED BY <1>2, <2>5
<1>5. CASE ~tempCmdStored
  <2>1. historyIdx = Len(history) /\ Entries = history
    BY <1>5, MappedHistory
  <2>2. Settle(h, TRUE, i)
    BY <2>1 DEF MoveUp
  <2>3. /\ Len(h) = Len(history) + 1 /\ h[Len(h)] = line
        /\ \A k \in 1..Len(history) : h[k] = history[k]
    BY <1>3
  <2>4. WithoutLast(h) = history
    BY <1>3, WithoutLastAppend
  <2> HIDE DEF i, h
  <2>5. i # Len(h) - 1
    BY <1>1, <2>1, <2>3, MappedHistory
  <2>6. /\ historyIdx' = i /\ line' = h[i + 1]
        /\ history' = h /\ tempCmdStored' = TRUE
    BY <2>2, <2>5 DEF Settle, Retrieve
  <2>7. Entries' = Entries
    BY <2>1, <2>4, <2>6 DEF Entries
  <2>8. line' = Entries[i + 1] /\ i + 1 # Len(Entries) + 1
    BY <1>1, <2>1, <2>3, <2>6, MappedHistory
  <2>9. CH!Walk(i + 1)
    BY <1>1, <1>2, <2>1, <2>3, <2>6, <2>7, <2>8, MappedHistory
       DEF CH!Walk, CH!Bottom
  <2> QED BY <1>2, <2>9
<1> QED BY <1>4, <1>5

\* Walking down.
LEMMA MoveDownStep ==
  ASSUME EditInv, NEW n \in Nat \ {0}, MoveDown(n)
  PROVE  \E to \in 1..CH!Bottom : CH!Walk(to)
<1> DEFINE i == Least(historyIdx + n, Len(history) - 1)
<1>1. tempCmdStored /\ tempCmdStored = TRUE
  BY MappedHistory DEF MoveDown, EditInv, HistoryOK
<1>2. i \in 0..(Len(history) - 1) /\ i # historyIdx
  BY <1>1, MappedHistory DEF Least
<1>3. Settle(history, TRUE, i)
  BY <1>1 DEF MoveDown
<1> HIDE DEF i
<1>4. CH!Walk(i + 1)
  BY <1>1, <1>2, <1>3, SettleStep
<1>5. i + 1 \in 1..CH!Bottom
  BY <1>1, <1>2, MappedHistory DEF CH!Bottom
<1> QED BY <1>4, <1>5

\* Every key is a step of CommandHistory, or none.
LEMMA NextStep ==
  ASSUME EditInv, EditInv', [Next]_editVars
  PROVE  [CH!HistoryNext]_<<Entries, historyIdx + 1, line,
           IF tempCmdStored THEN history[Len(history)] ELSE << >>>>
<1>1. ASSUME NEW p \in 0..Len(line), MoveBufPtr(p) PROVE CH!Edit
  BY <1>1, EditStep DEF MoveBufPtr
<1>2. CASE DeleteChar
  BY <1>2, EditStep DEF DeleteChar, historyVars, CH!HistoryNext
<1>3. CASE BackSpace
  BY <1>3, EditStep DEF BackSpace, CH!HistoryNext
<1>4. ASSUME NEW ch \in Chars, InsertChar(ch) PROVE CH!Edit
  BY <1>4, EditStep DEF InsertChar
<1>5. CASE NewLine
  BY <1>5, NewLineStep DEF CH!HistoryNext
<1>6. ASSUME NEW n \in {1, PG_OFFSET}, MoveUp(n) \/ MoveDown(n)
      PROVE  \E to \in 1..CH!Bottom : CH!Walk(to)
  <2>1. n \in Nat \ {0}
    BY PageAssumption
  <2> QED BY <1>6, <2>1, MoveUpStep, MoveDownStep
<1>7. CASE CompleteCmd
  <2>1. UNCHANGED historyVars
    BY <1>7 DEF CompleteCmd, Reprint, historyVars
  <2> QED BY <2>1, EditStep DEF CH!HistoryNext
<1>8. CASE ShowMessage
  <2>1. UNCHANGED historyVars
    BY <1>8 DEF ShowMessage, Reprint, historyVars
  <2> QED BY <2>1, EditStep DEF CH!HistoryNext
<1>9. CASE UNCHANGED editVars
  BY <1>9 DEF editVars, Entries
<1> QED BY <1>1, <1>2, <1>3, <1>4, <1>5, <1>6, <1>7, <1>8, <1>9
        DEF Next, CH!HistoryNext

\* The editor keeps a history as CommandHistory promises it: nothing that was
\* entered is lost, doubled or moved, and the draft comes back at the bottom.
THEOREM EditorImplementsHistory == Spec => KeepsHistory
<1>1. Init => CH!HistoryInit
  BY DEF Init, CH!HistoryInit, Entries
<1>2. EditInv /\ EditInv' /\ [Next]_editVars =>
        [CH!HistoryNext]_<<Entries, historyIdx + 1, line,
          IF tempCmdStored THEN history[Len(history)] ELSE << >>>>
  BY NextStep
<1> QED BY <1>1, <1>2, InitEdit, NextEdit, PTL
        DEF Spec, KeepsHistory, CH!HistorySpec

-----------------------------------------------------------------------------
(* The terminal shows the line.                                            *)

\* The character in cell i of a row with l: behind l the cells are blank.
Cell(l, i) == IF i \in DOMAIN l THEN l[i] ELSE Blank
Alike(l, m) == \A i \in Nat \ {0} : Cell(l, i) = Cell(m, i)

\* Cutting the blanks off changes no cell.
LEMMA CellsAlike ==
  ASSUME NEW l \in Lines
  PROVE  Alike(Cells(l), l)
<1>1. /\ l \in Seq(Chars) /\ Len(l) \in Nat /\ DOMAIN l = 1..Len(l)
      /\ Ink(l) \in SUBSET (1..Len(l))
  BY DEF Ink, Lines
<1>2. CASE Ink(l) = {}
  <2>1. Cells(l) = << >> /\ DOMAIN << >> = {}
    BY <1>2 DEF Cells
  <2> QED BY <1>2, <2>1 DEF Alike, Cell, Ink
<1>3. CASE Ink(l) # {}
  <2> DEFINE n == Max(Ink(l))
             c == SubSeq(l, 1, n)
  <2>1. n \in 1..Len(l) /\ \A i \in Ink(l) : i <= n
    BY <1>1, <1>3, MaxIsMember
  <2>2. Cells(l) = c
    BY <1>3 DEF Cells
  <2> HIDE DEF n
  <2>3. c \in Seq(Chars) /\ Len(c) = n /\ \A i \in 1..n : c[i] = l[i]
    BY <1>1, <2>1
  <2>4. DOMAIN c = 1..n
    BY <2>3
  <2> HIDE DEF c
  <2>5. \A i \in Nat \ {0} : Cell(c, i) = Cell(l, i)
    BY <1>1, <2>1, <2>3, <2>4 DEF Cell, Ink
  <2> QED BY <2>2, <2>5 DEF Alike
<1> QED BY <1>2, <1>3

\* Rows with the same cells look the same.
LEMMA AlikeCells ==
  ASSUME NEW l \in Lines, NEW m \in Lines, Alike(l, m)
  PROVE  Cells(l) = Cells(m)
<1>1. /\ l \in Seq(Chars) /\ Len(l) \in Nat /\ DOMAIN l = 1..Len(l)
      /\ m \in Seq(Chars) /\ Len(m) \in Nat /\ DOMAIN m = 1..Len(m)
  BY DEF Lines
<1>2. /\ Ink(l) \in SUBSET (1..Len(l)) /\ Ink(m) \in SUBSET (1..Len(m))
      /\ Ink(l) = Ink(m)
  BY <1>1 DEF Ink, Alike, Cell
<1>3. CASE Ink(l) = {}
  BY <1>2, <1>3 DEF Cells
<1>4. CASE Ink(l) # {}
  <2> DEFINE n == Max(Ink(l))
             c == SubSeq(l, 1, n)
             d == SubSeq(m, 1, n)
  <2>1. n \in 1..Len(l)
    BY <1>1, <1>2, <1>4, MaxIsMember
  <2>2. n \in 1..Len(m)
    BY <1>1, <1>2, <1>4, MaxIsMember
  <2>3. Cells(l) = c /\ Cells(m) = d
    BY <1>2, <1>4 DEF Cells
  <2> HIDE DEF n
  <2>4. /\ c \in Seq(Chars) /\ Len(c) = n /\ \A i \in 1..n : c[i] = l[i]
        /\ d \in Seq(Chars) /\ Len(d) = n /\ \A i \in 1..n : d[i] = m[i]
    BY <1>1, <2>1, <2>2
  <2>5. \A i \in 1..n : l[i] = m[i]
    BY <1>1, <2>1, <2>2 DEF Alike, Cell
  <2> HIDE DEF c, d
  <2>6. c = d
    BY <2>4, <2>5, SeqEqual
  <2> QED BY <2>3, <2>6
<1> QED BY <1>3, <1>4

\* What stands where in two sequences put together.
LEMMA JoinAt ==
  ASSUME NEW S, NEW s \in Seq(S), NEW t \in Seq(S),
         NEW m, NEW n, Len(s) = m, Len(t) = n
  PROVE  /\ s \o t \in Seq(S) /\ Len(s \o t) = m + n
         /\ DOMAIN (s \o t) = 1..(m + n)
         /\ \A i \in 1..(m + n) :
              (s \o t)[i] = IF i <= m THEN s[i] ELSE t[i - m]
  OBVIOUS

\* l has the cells of x, but those behind the first k are covered by t.
Covers(x, k, t, l) ==
  \A i \in Nat \ {0} :
    Cell(l, i) = IF k < i /\ i <= k + Len(t) THEN t[i - k] ELSE Cell(x, i)

\* Printing t where the cursor is changes the cells it covers and no others.
LEMMA PrintedCells ==
  ASSUME NEW s \in Screens, NEW t \in Lines, NEW l \in Lines,
         Covers(s.text, s.col, t, l)
  PROVE  Printed(s, t) = [text |-> Cells(l), col |-> s.col + Len(t)]
<1> DEFINE k == s.col
           x == s.text
           b == Blanks(k)
           n == Len(x)
           e == k + Len(t)
           row == x \o b
           left == SubSeq(row, 1, k)
           right == SubSeq(x, e + 1, n)
           a == left \o t
           new == a \o right
<1>1. /\ x \in Seq(Chars) /\ k \in Nat /\ t \in Seq(Chars)
      /\ n = Len(x) /\ n \in Nat /\ Len(t) \in Nat
      /\ e \in Nat /\ e = k + Len(t) /\ k <= e
      /\ DOMAIN x = 1..n
  BY DEF Screens, Lines
<1>2. /\ b \in Seq(Chars) /\ Len(b) = k /\ \A i \in 1..k : b[i] = Blank
  BY <1>1, BlanksType DEF Blanks, Lines
<1>3. Printed(s, t) = [text |-> Cells(new), col |-> e]
  BY DEF Printed
<1>4. \A i \in Nat \ {0} :
        Cell(l, i) = IF k < i /\ i <= e THEN t[i - k] ELSE Cell(x, i)
  BY DEF Covers
<1> HIDE DEF new, a, right, left, row, e, n, b, x, k
<1>5. /\ row \in Seq(Chars) /\ Len(row) = n + k
      /\ \A i \in 1..(n + k) : row[i] = IF i <= n THEN x[i] ELSE b[i - n]
  BY <1>1, <1>2, JoinAt, SMTT(30) DEF row
<1>6. left \in Seq(Chars) /\ Len(left) = k /\ \A i \in 1..k : left[i] = row[i]
  BY <1>1, <1>5 DEF left
<1>7. \A i \in 1..k : left[i] = Cell(x, i)
  <2> SUFFICES ASSUME NEW i \in 1..k PROVE row[i] = Cell(x, i)
    BY <1>6
  <2>1. i \in 1..(n + k)
    BY <1>1
  <2>2. CASE i <= n
    BY <1>1, <1>5, <2>1, <2>2 DEF Cell
  <2>3. CASE i > n
    <3>1. i - n \in 1..k /\ ~(i \in 1..n)
      BY <1>1, <2>3
    <3>2. row[i] = b[i - n]
      BY <1>1, <1>5, <2>1, <2>3
    <3> QED BY <1>1, <1>2, <3>1, <3>2 DEF Cell
  <2> QED BY <1>1, <2>2, <2>3
<1>8. /\ right \in Seq(Chars)
      /\ Len(right) = IF e + 1 <= n THEN n - e ELSE 0
      /\ \A i \in 1..(n - e) : right[i] = x[i + e]
  <2> DEFINE m == e + 1
  <2>1. m \in Nat \ {0} /\ n \in Int /\ m = e + 1
    BY <1>1
  <2> HIDE DEF m
  <2>2. /\ right \in Seq(Chars)
        /\ Len(right) = IF m <= n THEN n - m + 1 ELSE 0
        /\ \A i \in 1..(n - m + 1) : right[i] = x[i + m - 1]
    <3>1. right = SubSeq(x, m, n)
      BY DEF right, m
    <3> QED BY <1>1, <2>1, <3>1, PartType
  <2>3. \A i \in 1..(n - e) : i \in 1..(n - m + 1) /\ i + m - 1 = i + e
    BY <1>1, <2>1
  <2> QED BY <1>1, <2>1, <2>2, <2>3
<1>9. /\ a \in Seq(Chars) /\ Len(a) = e
      /\ \A i \in 1..e : a[i] = IF i <= k THEN left[i] ELSE t[i - k]
  BY <1>1, <1>6, JoinAt DEF a
<1> DEFINE r == Len(right)
<1>10. r = Len(right) /\ r \in Nat /\ r = IF e + 1 <= n THEN n - e ELSE 0
  BY <1>1, <1>8
<1> HIDE DEF r
<1>11. /\ new \in Seq(Chars) /\ DOMAIN new = 1..(e + r)
       /\ \A i \in 1..(e + r) :
            new[i] = IF i <= e THEN a[i] ELSE right[i - e]
  BY <1>8, <1>9, <1>10, JoinAt DEF new
<1>12. /\ k \in Nat /\ n \in Nat /\ e \in Nat /\ r \in Nat /\ k <= e
       /\ r = IF e + 1 <= n THEN n - e ELSE 0
  BY <1>1, <1>10
<1>13. ASSUME NEW i \in Nat \ {0} PROVE Cell(new, i) = Cell(l, i)
  <2>1. CASE i <= k
    <3>1. i \in 1..(e + r) /\ i <= e /\ i \in 1..e /\ i \in 1..k
      BY <1>12, <2>1
    <3>2. new[i] = Cell(x, i)
      BY <1>7, <1>9, <1>11, <2>1, <3>1
    <3>3. Cell(l, i) = Cell(x, i)
      BY <1>1, <1>4, <2>1
    <3> QED BY <1>11, <3>1, <3>2, <3>3 DEF Cell
  <2>2. CASE k < i /\ i <= e
    <3>1. i \in 1..(e + r) /\ i \in 1..e /\ ~(i <= k)
      BY <1>12, <2>2
    <3>2. new[i] = t[i - k]
      BY <1>9, <1>11, <2>2, <3>1
    <3> QED BY <1>4, <1>11, <2>2, <3>1, <3>2 DEF Cell
  <2>3. CASE e < i
    <3>1. Cell(l, i) = Cell(x, i)
      BY <1>1, <1>4, <2>3
    <3>2. CASE i <= n
      <4>1. i - e \in 1..(n - e) /\ i \in 1..(e + r) /\ i - e + e = i
        BY <1>12, <2>3, <3>2
      <4>2. new[i] = right[i - e] /\ right[i - e] = x[i - e + e]
        BY <1>1, <1>8, <1>11, <2>3, <4>1
      <4>3. i \in 1..n
        BY <1>1, <3>2
      <4> QED BY <1>1, <1>11, <3>1, <4>1, <4>2, <4>3 DEF Cell
    <3>3. CASE i > n
      <4>1. ~(i \in 1..(e + r)) /\ ~(i \in 1..n)
        BY <1>12, <2>3, <3>3
      <4> QED BY <1>1, <1>11, <3>1, <4>1 DEF Cell
    <3> QED BY <1>1, <3>2, <3>3
  <2> QED BY <1>1, <2>1, <2>2, <2>3
<1>14. Cells(new) = Cells(l)
  <2>1. new \in Lines /\ Alike(new, l)
    BY <1>11, <1>13 DEF Lines, Alike
  <2> QED BY <2>1, AlikeCells
<1> QED BY <1>3, <1>14 DEF k, e

\* The terminal shows l with the cursor in column p.
Shows(s, l, p) == s = [text |-> Cells(l), col |-> p]

LEMMA ShowsType ==
  ASSUME NEW l \in Lines, NEW p \in Nat, NEW s, Shows(s, l, p)
  PROVE  /\ s \in Screens /\ s.text = Cells(l) /\ s.col = p
         /\ \A i \in Nat \ {0} : Cell(s.text, i) = Cell(l, i)
<1>1. Cells(l) \in Lines /\ Alike(Cells(l), l)
  BY CellsType, CellsAlike
<1>2. s = [text |-> Cells(l), col |-> p]
  BY DEF Shows
<1>3. s \in Screens /\ s.text = Cells(l) /\ s.col = p
  BY <1>1, <1>2 DEF Screens
<1> QED BY <1>1, <1>3 DEF Alike

LEMMA BackShows ==
  ASSUME NEW l, NEW p, NEW n, NEW s, Shows(s, l, p)
  PROVE  Shows(Back(s, n), l, p - n)
  BY DEF Shows, Back

LEMMA PrintedShows ==
  ASSUME NEW l \in Lines, NEW p \in Nat, NEW s, Shows(s, l, p),
         NEW t \in Lines, NEW m \in Lines, Covers(l, p, t, m)
  PROVE  Shows(Printed(s, t), m, p + Len(t))
<1>1. /\ s \in Screens /\ s.col = p
      /\ \A i \in Nat \ {0} : Cell(s.text, i) = Cell(l, i)
  BY ShowsType
<1>2. Covers(s.text, s.col, t, m)
  BY <1>1 DEF Covers
<1> QED BY <1>1, <1>2, PrintedCells DEF Shows

\* A part of a line, as what is printed over it.
LEMMA PartOver ==
  ASSUME NEW l \in Lines, NEW p \in 0..Len(l), NEW q \in p..Len(l)
  PROVE  /\ SubSeq(l, p + 1, q) \in Lines
         /\ Len(SubSeq(l, p + 1, q)) = q - p
         /\ \A i \in 1..(q - p) : SubSeq(l, p + 1, q)[i] = l[i + p]
<1> DEFINE m == p + 1
           t == SubSeq(l, m, q)
<1>1. /\ l \in Seq(Chars) /\ Len(l) \in Nat /\ p \in Nat /\ q \in Nat /\ p <= q
      /\ m \in Nat \ {0} /\ m = p + 1 /\ q <= Len(l)
  BY DEF Lines
<1> HIDE DEF m
<1>2. /\ t \in Seq(Chars) /\ Len(t) = IF m <= q THEN q - m + 1 ELSE 0
      /\ \A i \in 1..(q - m + 1) : t[i] = l[i + m - 1]
  BY <1>1, PartType
<1> HIDE DEF t
<1>3. Len(t) = q - p /\ q - m + 1 = q - p
  BY <1>1, <1>2
<1>4. \A i \in 1..(q - p) : t[i] = l[i + p]
  <2> TAKE i \in 1..(q - p)
  <2>1. i \in 1..(q - m + 1) /\ i + m - 1 = i + p
    BY <1>1
  <2> QED BY <1>2, <2>1
<1> QED BY <1>2, <1>3, <1>4 DEF t, m, Lines

\* Moving the cursor reprints what is on its way.
LEMMA MovedShows ==
  ASSUME NEW l \in Lines, NEW p \in 0..Len(l), NEW q \in 0..Len(l),
         NEW s, Shows(s, l, p)
  PROVE  Shows(Moved(s, l, p, q), l, q)
<1>1. /\ l \in Seq(Chars) /\ Len(l) \in Nat /\ DOMAIN l = 1..Len(l)
      /\ p \in Nat /\ q \in Nat
  BY DEF Lines
<1>2. CASE q < p
  <2>1. Shows(Back(s, p - q), l, p - (p - q))
    BY BackShows
  <2>2. p - (p - q) = q
    BY <1>1
  <2> QED BY <1>2, <2>1, <2>2 DEF Moved
<1>3. CASE q >= p
  <2> DEFINE t == SubSeq(l, p + 1, q)
  <2>1. /\ t \in Lines /\ Len(t) = q - p
        /\ \A i \in 1..(q - p) : t[i] = l[i + p]
    BY <1>1, <1>3, PartOver
  <2> HIDE DEF t
  <2>2. Covers(l, p, t, l)
    <3> SUFFICES ASSUME NEW i \in Nat \ {0}, p < i, i <= p + Len(t)
                 PROVE  Cell(l, i) = t[i - p]
      BY DEF Covers
    <3>1. i - p \in 1..(q - p) /\ i - p + p = i /\ i \in 1..Len(l)
      BY <1>1, <1>3, <2>1
    <3> QED BY <1>1, <2>1, <3>1 DEF Cell
  <2>3. Shows(Printed(s, t), l, p + Len(t))
    BY <1>1, <2>1, <2>2, PrintedShows
  <2>4. p + Len(t) = q
    BY <1>1, <2>1
  <2>5. Moved(s, l, p, q) = Printed(s, t)
    BY <1>1, <1>3 DEF Moved, t
  <2> QED BY <2>3, <2>4, <2>5
<1> QED BY <1>1, <1>2, <1>3

\* The line without the character behind column p.
LEMMA WithoutAt ==
  ASSUME NEW l \in Lines, NEW p \in 0..(Len(l) - 1)
  PROVE  /\ DOMAIN Without(l, p) = 1..(Len(l) - 1)
         /\ \A i \in 1..(Len(l) - 1) :
              Without(l, p)[i] = IF i <= p THEN l[i] ELSE l[i + 1]
<1> DEFINE n == Len(l)
           a == SubSeq(l, 1, p)
           b == SubSeq(l, p + 2, n)
           k == p + 1
           d == n - k
<1>1. /\ l \in Seq(Chars) /\ n \in Nat /\ n = Len(l) /\ p \in Nat /\ p < n
      /\ k \in 0..n /\ k = p + 1 /\ d \in Nat /\ d = n - k
  BY DEF Lines
<1>2. a \in Seq(Chars) /\ Len(a) = p /\ \A i \in 1..p : a[i] = l[i]
  BY <1>1
<1>3. b \in Seq(Chars) /\ Len(b) = d /\ \A i \in 1..d : b[i] = l[i + k]
  <2>1. b = SubSeq(l, k + 1, n)
    BY <1>1
  <2> HIDE DEF b, d, k, n
  <2>2. n \in k..Len(l)
    BY <1>1
  <2> QED BY <1>1, <2>1, <2>2, PartOver DEF Lines
<1>4. Without(l, p) = a \o b
  BY DEF Without
<1> HIDE DEF a, b, d, k, n
<1>5. /\ DOMAIN (a \o b) = 1..(p + d)
      /\ \A i \in 1..(p + d) :
           (a \o b)[i] = IF i <= p THEN a[i] ELSE b[i - p]
  BY <1>2, <1>3, JoinAt
<1>6. p + d = n - 1
  BY <1>1
<1>7. ASSUME NEW i \in 1..(n - 1)
      PROVE  (a \o b)[i] = IF i <= p THEN l[i] ELSE l[i + 1]
  <2>1. i \in 1..(p + d)
    BY <1>6
  <2>2. CASE i <= p
    <3>1. i \in 1..p
      BY <2>2
    <3> QED BY <1>2, <1>5, <2>1, <2>2, <3>1
  <2>3. CASE ~(i <= p)
    <3>1. i - p \in 1..d /\ i - p + k = i + 1
      BY <1>1, <2>3
    <3> QED BY <1>3, <1>5, <2>1, <2>3, <3>1
  <2> QED BY <2>2, <2>3
<1> QED BY <1>4, <1>5, <1>6, <1>7 DEF n

\* A character is deleted by printing what was behind it, and a blank.
LEMMA CharDeletedShows ==
  ASSUME NEW l \in Lines, NEW p \in 0..(Len(l) - 1), NEW s, Shows(s, l, p)
  PROVE  Shows(CharDeleted(s, l, p), Without(l, p), p)
<1> DEFINE n == Len(l)
           k == p + 1
           d == n - k
           b == SubSeq(l, p + 2, n)
           t == b \o <<Blank>>
           m == Without(l, p)
<1>1. /\ l \in Seq(Chars) /\ n \in Nat /\ n = Len(l) /\ p \in Nat /\ p < n
      /\ k \in 0..n /\ k = p + 1 /\ d \in Nat /\ d = n - k
      /\ DOMAIN l = 1..n
  BY DEF Lines
<1>2. b \in Seq(Chars) /\ Len(b) = d /\ \A i \in 1..d : b[i] = l[i + k]
  <2>1. b = SubSeq(l, k + 1, n)
    BY <1>1
  <2> HIDE DEF b, d, k, n
  <2>2. n \in k..Len(l)
    BY <1>1
  <2> QED BY <1>1, <2>1, <2>2, PartOver DEF Lines
<1>3. CharDeleted(s, l, p) = Back(Back(Printed(s, t), 1), n - 1 - p)
  BY DEF CharDeleted
<1>4. /\ m \in Lines /\ DOMAIN m = 1..(n - 1)
      /\ \A i \in 1..(n - 1) : m[i] = IF i <= p THEN l[i] ELSE l[i + 1]
  BY WithoutType, WithoutAt
<1> HIDE DEF b, d, k, n, t, m
<1>5. /\ t \in Seq(Chars) /\ Len(t) = d + 1
      /\ \A i \in 1..(d + 1) : t[i] = IF i <= d THEN b[i] ELSE Blank
  <2> DEFINE w == <<Blank>>
             o == Len(w)
  <2>0. w \in Seq(Chars)
    BY DEF Chars
  <2>1. o = 1 /\ w[1] = Blank
    OBVIOUS
  <2>2. t = b \o w
    BY DEF t
  <2> HIDE DEF w
  <2>3. /\ t \in Seq(Chars) /\ Len(t) = d + o
        /\ \A i \in 1..(d + o) : t[i] = IF i <= d THEN b[i] ELSE w[i - d]
    <3> HIDE DEF o
    <3>1. Len(w) = o
      BY DEF o
    <3> QED BY <1>2, <2>0, <2>2, <3>1, JoinAt
  <2>4. \A i \in 1..(d + 1) : i <= d \/ i - d = 1
    BY <1>1
  <2> QED BY <2>1, <2>3, <2>4
<1>6. Covers(l, p, t, m)
  <2> SUFFICES ASSUME NEW i \in Nat \ {0}
               PROVE  Cell(m, i) = IF p < i /\ i <= p + Len(t) THEN t[i - p]
                                   ELSE Cell(l, i)
    BY DEF Covers
  <2>1. p + Len(t) = n
    BY <1>1, <1>5
  <2>2. CASE i <= p
    <3>1. i \in 1..(n - 1) /\ i \in 1..n /\ ~(p < i)
      BY <1>1, <2>2
    <3> QED BY <1>1, <1>4, <2>2, <3>1 DEF Cell
  <2>3. CASE p < i /\ i < n
    <3>1. /\ i \in 1..(n - 1) /\ i - p \in 1..(d + 1) /\ i - p <= d
          /\ i - p \in 1..d /\ i - p + k = i + 1 /\ i <= n /\ ~(i <= p)
      BY <1>1, <2>3
    <3>2. t[i - p] = l[i + 1]
      BY <1>2, <1>5, <3>1
    <3> QED BY <1>4, <2>1, <2>3, <3>1, <3>2 DEF Cell
  <2>4. CASE i = n
    <3>1. ~(i \in 1..(n - 1)) /\ i - p = d + 1 /\ d + 1 \in 1..(d + 1)
          /\ ~(d + 1 <= d) /\ p < i /\ i <= n
      BY <1>1, <2>4
    <3>2. t[i - p] = Blank
      BY <1>5, <3>1
    <3> QED BY <1>4, <2>1, <3>1, <3>2 DEF Cell
  <2>5. CASE i > n
    <3>1. ~(i \in 1..(n - 1)) /\ ~(i \in 1..n) /\ ~(i <= n)
      BY <1>1, <2>5
    <3> QED BY <1>1, <1>4, <2>1, <3>1 DEF Cell
  <2> QED BY <1>1, <2>2, <2>3, <2>4, <2>5
<1>7. Shows(Printed(s, t), m, p + Len(t))
  BY <1>1, <1>4, <1>5, <1>6, PrintedShows DEF Lines
<1> DEFINE u == Printed(s, t)
           v == Back(u, 1)
           c == p + Len(t)
           e == n - 1 - p
<1>8. Shows(u, m, c) /\ CharDeleted(s, l, p) = Back(v, e)
  BY <1>3, <1>7
<1>9. c - 1 - e = p
  <2>1. Len(t) \in Nat /\ Len(t) = n - p
    BY <1>1, <1>5
  <2> QED BY <1>1, <2>1
<1> HIDE DEF u, c, e
<1>10. Shows(v, m, c - 1)
  BY <1>8, BackShows
<1> HIDE DEF v
<1>11. Shows(Back(v, e), m, c - 1 - e)
  BY <1>10, BackShows
<1> QED BY <1>8, <1>9, <1>11 DEF m

\* The line with ch in column p.
With(l, p, ch) == SubSeq(l, 1, p) \o <<ch>> \o SubSeq(l, p + 1, Len(l))

LEMMA WithAt ==
  ASSUME NEW l \in Lines, NEW p \in 0..Len(l), NEW ch \in Chars
  PROVE  /\ With(l, p, ch) \in Lines /\ Len(With(l, p, ch)) = Len(l) + 1
         /\ \A i \in 1..(Len(l) + 1) :
              With(l, p, ch)[i] = IF i <= p THEN l[i]
                                  ELSE IF i = p + 1 THEN ch ELSE l[i - 1]
<1> DEFINE n == Len(l)
           a == SubSeq(l, 1, p)
           w == <<ch>>
           o == Len(w)
           b == SubSeq(l, p + 1, n)
           d == n - p
           x == a \o w
           c == p + o
           m == x \o b
<1>1. /\ l \in Seq(Chars) /\ n \in Nat /\ n = Len(l) /\ p \in Nat /\ p <= n
      /\ d \in Nat /\ d = n - p
  BY DEF Lines
<1>2. a \in Seq(Chars) /\ Len(a) = p /\ \A i \in 1..p : a[i] = l[i]
  BY <1>1
<1>3. b \in Seq(Chars) /\ Len(b) = d /\ \A i \in 1..d : b[i] = l[i + p]
  <2> HIDE DEF b, d, n
  <2>1. n \in p..Len(l)
    BY <1>1
  <2> QED BY <1>1, <2>1, PartOver DEF Lines, b
<1>4. w \in Seq(Chars)
  OBVIOUS
<1>5. o = Len(w) /\ w[1] = ch
  OBVIOUS
<1>6. o = 1
  OBVIOUS
<1>7. With(l, p, ch) = m
  BY DEF With
<1> HIDE DEF a, b, d, n, w, o, x, m
<1>8. /\ x \in Seq(Chars) /\ Len(x) = p + o
      /\ \A i \in 1..(p + o) : x[i] = IF i <= p THEN a[i] ELSE w[i - p]
  <2>1. Len(w) = o
    BY <1>5
  <2> QED BY <1>2, <1>4, <2>1, JoinAt DEF x
<1>9. c \in Nat /\ c = p + 1
  BY <1>1, <1>6
<1>10. Len(x) = c
  BY <1>8
<1> HIDE DEF c
<1>11. /\ m \in Seq(Chars) /\ Len(m) = c + d
       /\ \A i \in 1..(c + d) : m[i] = IF i <= c THEN x[i] ELSE b[i - c]
  BY <1>3, <1>8, <1>10, JoinAt DEF m
<1>12. c + d = n + 1
  BY <1>1, <1>9
<1>13. ASSUME NEW i \in 1..(n + 1)
       PROVE  m[i] = IF i <= p THEN l[i] ELSE IF i = p + 1 THEN ch ELSE l[i - 1]
  <2>1. i \in 1..(c + d)
    BY <1>12
  <2>2. CASE i <= p
    <3>1. i \in 1..p /\ i \in 1..(p + o) /\ i <= c
      BY <1>1, <1>6, <1>9, <2>2
    <3> QED BY <1>2, <1>8, <1>11, <2>1, <2>2, <3>1
  <2>3. CASE i = p + 1
    <3>1. i \in 1..(p + o) /\ i <= c /\ ~(i <= p) /\ i - p = 1
      BY <1>1, <1>6, <1>9, <2>3
    <3> QED BY <1>5, <1>8, <1>11, <2>1, <2>3, <3>1
  <2>4. CASE i > p + 1
    <3>1. /\ i - c \in 1..d /\ i - c + p = i - 1
          /\ ~(i <= c) /\ ~(i <= p) /\ i # p + 1
      BY <1>1, <1>9, <2>4
    <3> QED BY <1>3, <1>11, <2>1, <3>1
  <2> QED BY <1>1, <2>2, <2>3, <2>4
<1> QED BY <1>7, <1>11, <1>12, <1>13 DEF n, Lines

\* A character is inserted by printing it and what is behind it.
LEMMA WithShows ==
  ASSUME NEW l \in Lines, NEW p \in 0..Len(l), NEW ch \in Chars,
         NEW s, Shows(s, l, p), NEW m, m = With(l, p, ch)
  PROVE  Shows(Back(Printed(s, SubSeq(m, p + 1, Len(m))), Len(l) - p), m, p + 1)
<1> DEFINE n == Len(l)
           k == n + 1
           t == SubSeq(m, p + 1, k)
           c == p + Len(t)
           e == n - p
           u == Printed(s, t)
<1>1. /\ l \in Seq(Chars) /\ n \in Nat /\ n = Len(l) /\ p \in Nat /\ p <= n
      /\ k \in Nat /\ k = n + 1 /\ DOMAIN l = 1..n
  BY DEF Lines
<1>2. /\ m \in Lines /\ Len(m) = k /\ DOMAIN m = 1..k
      /\ \A i \in 1..k :
           m[i] = IF i <= p THEN l[i] ELSE IF i = p + 1 THEN ch ELSE l[i - 1]
  <2>1. m \in Lines /\ Len(m) = k
        /\ \A i \in 1..k :
             m[i] = IF i <= p THEN l[i] ELSE IF i = p + 1 THEN ch ELSE l[i - 1]
    BY WithAt
  <2>2. DOMAIN m = 1..k
    BY <2>1 DEF Lines
  <2> QED BY <2>1, <2>2
<1> HIDE DEF n, k
<1>3. /\ t \in Lines /\ Len(t) = k - p
      /\ \A i \in 1..(k - p) : t[i] = m[i + p]
  <2>1. p \in 0..Len(m) /\ k \in p..Len(m)
    BY <1>1, <1>2
  <2> QED BY <1>2, <2>1, PartOver
<1> HIDE DEF t
<1>4. Covers(l, p, t, m)
  <2> SUFFICES ASSUME NEW i \in Nat \ {0}
               PROVE  Cell(m, i) = IF p < i /\ i <= p + Len(t) THEN t[i - p]
                                   ELSE Cell(l, i)
    BY DEF Covers
  <2>1. p + Len(t) = k
    BY <1>1, <1>3
  <2>2. CASE i <= p
    <3>1. i \in 1..k /\ i \in 1..n /\ ~(p < i)
      BY <1>1, <2>2
    <3> QED BY <1>1, <1>2, <2>2, <3>1 DEF Cell
  <2>3. CASE p < i /\ i <= k
    <3>1. i \in 1..k /\ i - p \in 1..(k - p) /\ i - p + p = i
      BY <1>1, <2>3
    <3> QED BY <1>2, <1>3, <2>1, <2>3, <3>1 DEF Cell
  <2>4. CASE i > k
    <3>1. ~(i \in 1..k) /\ ~(i \in 1..n) /\ ~(i <= k)
      BY <1>1, <2>4
    <3> QED BY <1>1, <1>2, <2>1, <3>1 DEF Cell
  <2> QED BY <1>1, <2>2, <2>3, <2>4
<1>5. Shows(u, m, c)
  BY <1>1, <1>2, <1>3, <1>4, PrintedShows
<1>6. c - e = p + 1
  <2>1. Len(t) = k - p
    BY <1>3
  <2> QED BY <1>1, <2>1
<1>7. Printed(s, SubSeq(m, p + 1, Len(m))) = u /\ e = Len(l) - p
  BY <1>1, <1>2 DEF t
<1> HIDE DEF u, c, e
<1>8. Shows(Back(u, e), m, c - e)
  BY <1>5, BackShows
<1> QED BY <1>6, <1>7, <1>8

\* Another line in place of l: l is blanked out from its beginning, and the
\* other is printed there.
LEMMA RetrievedShows ==
  ASSUME NEW l \in Lines, NEW p \in 0..Len(l), NEW s, Shows(s, l, p),
         NEW m \in Lines
  PROVE  Shows(Printed(LineDeleted(s, l, p), m), m, Len(m))
<1> DEFINE n == Len(l)
           b == Blanks(n)
           u == Back(s, p)
           v == Printed(u, b)
           e == << >>
<1>1. /\ l \in Seq(Chars) /\ n \in Nat /\ n = Len(l) /\ p \in Nat
      /\ DOMAIN l = 1..n
      /\ m \in Seq(Chars) /\ Len(m) \in Nat /\ DOMAIN m = 1..Len(m)
  BY DEF Lines
<1>2. e \in Lines /\ DOMAIN e = {}
  BY DEF Lines
<1>3. b \in Lines /\ Len(b) = n /\ \A i \in 1..n : b[i] = Blank
  BY <1>1, BlanksType DEF Blanks
<1>4. LineDeleted(s, l, p) = Back(v, n)
  BY DEF LineDeleted
<1> HIDE DEF n, b, e
<1>5. Shows(u, l, 0)
  <2>1. Shows(u, l, p - p)
    BY BackShows
  <2>2. p - p = 0
    BY <1>1
  <2> QED BY <2>1, <2>2
<1> HIDE DEF u
<1>6. Covers(l, 0, b, e)
  <2> SUFFICES ASSUME NEW i \in Nat \ {0}
               PROVE  Cell(e, i) = IF 0 < i /\ i <= 0 + Len(b) THEN b[i - 0]
                                   ELSE Cell(l, i)
    BY DEF Covers
  <2>1. 0 + Len(b) = n /\ i - 0 = i /\ 0 < i /\ Cell(e, i) = Blank
    BY <1>1, <1>2, <1>3 DEF Cell
  <2>2. CASE i <= n
    BY <1>1, <1>3, <2>1, <2>2
  <2>3. CASE ~(i <= n)
    BY <1>1, <2>1, <2>3 DEF Cell
  <2> QED BY <2>2, <2>3
<1>7. Shows(v, e, n)
  <2>1. 0 \in Nat
    OBVIOUS
  <2>2. Shows(v, e, 0 + Len(b))
    BY <1>2, <1>3, <1>5, <1>6, <2>1, PrintedShows
  <2>3. 0 + Len(b) = n
    BY <1>1, <1>3
  <2> QED BY <2>2, <2>3
<1> HIDE DEF v
<1> DEFINE w == Back(v, n)
<1>8. Shows(w, e, 0)
  <2>1. Shows(w, e, n - n)
    BY <1>7, BackShows
  <2>2. n - n = 0
    BY <1>1
  <2> QED BY <2>1, <2>2
<1> HIDE DEF w
<1>9. Covers(e, 0, m, m)
  <2> SUFFICES ASSUME NEW i \in Nat \ {0}
               PROVE  Cell(m, i) = IF 0 < i /\ i <= 0 + Len(m) THEN m[i - 0]
                                   ELSE Cell(e, i)
    BY DEF Covers
  <2>1. 0 + Len(m) = Len(m) /\ i - 0 = i /\ 0 < i
    BY <1>1
  <2>2. CASE i <= Len(m)
    BY <1>1, <2>1, <2>2 DEF Cell
  <2>3. CASE ~(i <= Len(m))
    BY <1>1, <1>2, <2>1, <2>3 DEF Cell
  <2> QED BY <2>2, <2>3
<1>10. Shows(Printed(w, m), m, Len(m))
  <2>1. 0 \in Nat
    OBVIOUS
  <2>2. Shows(Printed(w, m), m, 0 + Len(m))
    BY <1>2, <1>8, <1>9, <2>1, PrintedShows
  <2>3. 0 + Len(m) = Len(m)
    BY <1>1
  <2> QED BY <2>2, <2>3
<1> QED BY <1>4, <1>10 DEF w

\* What retrieveHistory and completeCmd leave on the terminal.
LEMMA RetrieveShows ==
  ASSUME EditInv, ScreenIsRight, NEW m \in Lines, Retrieve(m)
  PROVE  ScreenIsRight'
<1>1. /\ line \in Lines /\ ptr \in 0..Len(line) /\ Shows(screen, line, ptr)
  BY DEF EditInv, LineOK, ScreenIsRight, Shows
<1>2. Shows(Printed(LineDeleted(screen, line, ptr), m), m, Len(m))
  BY <1>1, RetrievedShows
<1>3. Shows(screen', line', ptr')
  BY <1>2 DEF Retrieve
<1> QED BY <1>3 DEF ScreenIsRight, Shows

\* A key that starts with the terminal in step leaves it so, or reprints the
\* line with the cursor inside it.
LEMMA KeyShows ==
  ASSUME EditInv, ScreenIsRight, Next
  PROVE  ScreenIsRight' \/ (Reprint /\ ptr < Len(line))
<1>1. /\ line \in Lines /\ ptr \in 0..Len(line) /\ Len(line) \in Nat
      /\ Shows(screen, line, ptr)
  BY DEF EditInv, LineOK, ScreenIsRight, Shows, Lines
<1>2. ASSUME Shows(screen', line', ptr') PROVE ScreenIsRight'
  BY <1>2 DEF ScreenIsRight, Shows
<1>3. ASSUME NEW p \in 0..Len(line), MoveBufPtr(p) PROVE ScreenIsRight'
  BY <1>1, <1>2, <1>3, MovedShows DEF MoveBufPtr
<1>4. ASSUME DeleteChar PROVE ScreenIsRight'
  <2>1. ptr \in 0..(Len(line) - 1)
    BY <1>1, <1>4 DEF DeleteChar
  <2> QED BY <1>1, <1>2, <1>4, <2>1, CharDeletedShows DEF DeleteChar
<1>5. ASSUME BackSpace PROVE ScreenIsRight'
  <2> DEFINE q == ptr - 1
             s == Moved(screen, line, ptr, q)
  <2>1. q \in 0..Len(line) /\ q \in 0..(Len(line) - 1)
    BY <1>1, <1>5 DEF BackSpace
  <2>2. /\ ptr' = q /\ line' = Without(line, q)
        /\ screen' = CharDeleted(s, line, q)
    BY <1>5 DEF BackSpace
  <2> HIDE DEF q
  <2>3. Shows(s, line, q)
    BY <1>1, <2>1, MovedShows
  <2> HIDE DEF s
  <2> QED BY <1>1, <1>2, <2>1, <2>2, <2>3, CharDeletedShows
<1>6. ASSUME NEW ch \in Chars, InsertChar(ch) PROVE ScreenIsRight'
  <2> DEFINE m == line'
  <2>1. /\ m = With(line, ptr, ch) /\ ptr' = ptr + 1
        /\ screen' = Back(Printed(screen, SubSeq(m, ptr + 1, Len(m))),
                          Len(line) - ptr)
    BY <1>6 DEF InsertChar, With
  <2> HIDE DEF m
  <2>2. Shows(screen', m, ptr + 1)
    BY <1>1, <1>6, <2>1, WithShows
  <2> QED BY <1>2, <2>1, <2>2 DEF m
<1>7. ASSUME NewLine PROVE ScreenIsRight'
  <2>1. Len(<< >>) = 0
    OBVIOUS
  <2>2. Shows(Fresh(<< >>), << >>, 0)
    BY <2>1 DEF Fresh, Shows
  <2> QED BY <1>2, <1>7, <2>2 DEF NewLine
<1>8. ASSUME NEW n \in {1, PG_OFFSET}, MoveUp(n) \/ MoveDown(n)
      PROVE  ScreenIsRight'
  <2>1. PICK m \in Lines : Retrieve(m)
    <3>1. /\ history \in Seq(Lines) /\ Len(history) \in Nat
          /\ historyIdx \in 0..Len(history) /\ tempCmdStored \in BOOLEAN
          /\ IF tempCmdStored THEN historyIdx < Len(history) - 1
                              ELSE historyIdx = Len(history)
          /\ n \in Nat \ {0}
      BY PageAssumption DEF EditInv, HistoryOK
    <3>2. ASSUME NEW h \in Seq(Lines), NEW i \in 0..(Len(h) - 1), NEW temp,
                 Settle(h, temp, i)
          PROVE  \E m \in Lines : Retrieve(m)
      <4>1. i + 1 \in 1..Len(h)
        OBVIOUS
      <4>2. h[i + 1] \in Lines
        BY <4>1
      <4> QED BY <3>2, <4>2 DEF Settle
    <3>3. CASE MoveUp(n)
      <4> DEFINE i == IF historyIdx < n THEN 0 ELSE historyIdx - n
      <4>1. i \in Nat /\ i < historyIdx
        BY <3>1, <3>3 DEF MoveUp
      <4>2. CASE historyIdx = Len(history)
        <5> DEFINE h == Append(history, line)
        <5>1. h \in Seq(Lines) /\ Len(h) = Len(history) + 1
          BY <1>1, <3>1
        <5>2. Settle(h, TRUE, i)
          BY <3>3, <4>2 DEF MoveUp
        <5> HIDE DEF h, i
        <5>3. i \in 0..(Len(h) - 1)
          BY <3>1, <4>1, <5>1
        <5> QED BY <3>2, <5>1, <5>2, <5>3
      <4>3. CASE historyIdx # Len(history)
        <5>1. Settle(history, tempCmdStored, i)
          BY <3>3, <4>3 DEF MoveUp
        <5> HIDE DEF i
        <5>2. i \in 0..(Len(history) - 1)
          BY <3>1, <4>1
        <5> QED BY <3>1, <3>2, <5>1, <5>2
      <4> QED BY <4>2, <4>3
    <3>4. CASE MoveDown(n)
      <4> DEFINE i == Least(historyIdx + n, Len(history) - 1)
      <4>1. tempCmdStored
        BY <3>1, <3>4, Zenon DEF MoveDown
      <4>2. historyIdx < Len(history) - 1
        BY <3>1, <4>1
      <4>3. i \in 0..(Len(history) - 1)
        BY <3>1, <4>2 DEF Least
      <4>4. Settle(history, tempCmdStored, i)
        BY <3>4 DEF MoveDown
      <4> HIDE DEF i
      <4> QED BY <3>1, <3>2, <4>3, <4>4
    <3> QED BY <1>8, <3>3, <3>4
  <2> QED BY <2>1, RetrieveShows
<1>9. ASSUME Reprint PROVE ScreenIsRight' \/ (Reprint /\ ptr < Len(line))
  <2>1. CASE ptr < Len(line)
    BY <1>9, <2>1
  <2>2. CASE ptr = Len(line)
    BY <1>2, <1>9, <2>2 DEF Reprint, Fresh, Shows
  <2> QED BY <1>1, <2>1, <2>2
<1>10. ASSUME CompleteCmd
       PROVE  ScreenIsRight' \/ (Reprint /\ ptr < Len(line))
  <2>1. Reprint \/ \E cmd \in Commands : Retrieve(cmd)
    BY <1>10 DEF CompleteCmd, CommonPrefix
  <2>2. \A cmd \in Commands : cmd \in Lines
    BY CommandsAssumption DEF Lines, Chars
  <2> QED BY <1>9, <2>1, <2>2, RetrieveShows
<1> QED BY <1>3, <1>4, <1>5, <1>6, <1>7, <1>8, <1>9, <1>10
        DEF Next, ShowMessage

\* Whatever is typed, the line is shown with the cursor where the next key
\* acts, by statements that print differences: moving prints what is on the
\* way, deleting what is behind and a blank, retrieving wipes and prints.  A
\* reprint inside the line is what loses the cursor.
THEOREM ScreenFollows == Spec => KeysKeepScreen
<1>1. EditInv /\ [Next]_editVars
      => EditInv' /\
         [ScreenIsRight => ScreenIsRight' \/ (Reprint /\ ptr < Len(line))
         ]_editVars
  BY NextEdit, KeyShows
<1> QED BY <1>1, InitEdit, PTL DEF Spec, KeysKeepScreen

-----------------------------------------------------------------------------
(* Counting the members of a set of places from the left.                  *)

UpTo(S, i) == {j \in S : j <= i}
Rank(S, i) == Cardinality(UpTo(S, i))
Nth(S, k) == CHOOSE i \in S : Rank(S, i) = k

\* A rank is at most the size of the set.
LEMMA RankType ==
  ASSUME NEW S \in SUBSET Nat, IsFiniteSet(S), NEW i \in Nat
  PROVE  /\ IsFiniteSet(UpTo(S, i))
         /\ Rank(S, i) \in Nat
         /\ Cardinality(S) \in Nat
         /\ Rank(S, i) <= Cardinality(S)
<1>1. UpTo(S, i) \in SUBSET S
  BY DEF UpTo
<1> QED BY <1>1, FS_Subset, FS_CardinalityType DEF Rank

\* Of two members the one further to the right has the greater rank.
LEMMA RankGrows ==
  ASSUME NEW S \in SUBSET Nat, IsFiniteSet(S), NEW i \in S, NEW j \in S,
         i < j
  PROVE  Rank(S, i) < Rank(S, j)
<1>1. UpTo(S, i) \in SUBSET UpTo(S, j) /\ UpTo(S, i) # UpTo(S, j)
  <2>1. i \in Nat /\ j \in Nat
    OBVIOUS
  <2>2. ASSUME NEW y \in UpTo(S, i) PROVE y \in UpTo(S, j)
    BY <2>1, <2>2 DEF UpTo
  <2>3. j \in UpTo(S, j) /\ j \notin UpTo(S, i)
    BY <2>1 DEF UpTo
  <2> QED BY <2>2, <2>3
<1>2. /\ IsFiniteSet(UpTo(S, j))
      /\ Rank(S, i) \in Nat /\ Rank(S, j) \in Nat
  BY RankType
<1>3. /\ Cardinality(UpTo(S, i)) <= Cardinality(UpTo(S, j))
      /\ Cardinality(UpTo(S, i)) # Cardinality(UpTo(S, j))
  BY <1>1, <1>2, FS_Subset
<1> QED BY <1>2, <1>3 DEF Rank

\* The leftmost member has rank 1.
LEMMA RankFirst ==
  ASSUME NEW S \in SUBSET Nat, S # {}
  PROVE  Rank(S, Min(S)) = 1
<1>1. Min(S) \in S /\ \A y \in S : Min(S) <= y
  BY MinIsMember
<1> DEFINE least == Min(S)
<1> HIDE DEF least
<1>2. least \in S /\ \A y \in S : least <= y
  BY <1>1 DEF least
<1>3. UpTo(S, least) = {least}
  <2>1. \A y \in S : y \in Nat
    OBVIOUS
  <2>2. ASSUME NEW y \in UpTo(S, least) PROVE y = least
    BY <1>2, <2>1, <2>2 DEF UpTo
  <2>3. least \in UpTo(S, least)
    BY <1>2, <2>1 DEF UpTo
  <2> QED BY <2>2, <2>3
<1>4. Rank(S, least) = 1
  BY <1>3, FS_Singleton DEF Rank
<1> QED BY <1>4 DEF least

\* The next member has the next rank.
LEMMA RankNext ==
  ASSUME NEW S \in SUBSET Nat, IsFiniteSet(S), NEW i \in S, NEW j \in S,
         i < j, \A y \in S : i < y => j <= y
  PROVE  Rank(S, j) = Rank(S, i) + 1
<1>1. UpTo(S, j) = UpTo(S, i) \cup {j} /\ j \notin UpTo(S, i)
  <2>1. \A y \in S : y \in Nat
    OBVIOUS
  <2>2. ASSUME NEW y \in UpTo(S, j) PROVE y \in UpTo(S, i) \cup {j}
    BY <2>1, <2>2 DEF UpTo
  <2>3. ASSUME NEW y \in UpTo(S, i) PROVE y \in UpTo(S, j)
    BY <2>1, <2>3 DEF UpTo
  <2>4. j \in UpTo(S, j) /\ j \notin UpTo(S, i)
    BY <2>1 DEF UpTo
  <2> QED BY <2>2, <2>3, <2>4
<1>2. IsFiniteSet(UpTo(S, i))
  BY RankType
<1> QED BY <1>1, <1>2, FS_AddElement DEF Rank

\* A member that is not counted last has another one to its right.
LEMMA RankLast ==
  ASSUME NEW S \in SUBSET Nat, IsFiniteSet(S), NEW i \in S,
         Rank(S, i) < Cardinality(S)
  PROVE  \E j \in S : i < j /\ Rank(S, j) = Rank(S, i) + 1
<1> DEFINE right == {j \in S : i < j}
<1>1. right # {}
  <2>1. SUFFICES ASSUME right = {} PROVE FALSE
    OBVIOUS
  <2>2. UpTo(S, i) = S
    <3>1. \A y \in S : y \in Nat /\ y <= i
      BY <2>1
    <3> QED BY <3>1 DEF UpTo
  <2>3. Rank(S, i) = Cardinality(S) /\ Rank(S, i) \in Nat
    BY <2>2, RankType DEF Rank
  <2> QED BY <2>3
<1>2. right \in SUBSET Nat
  OBVIOUS
<1>3. PICK j \in right : \A y \in right : j <= y
  <2> HIDE DEF right
  <2> QED BY <1>1, <1>2, MinIsMember
<1>4. j \in S /\ i < j /\ \A y \in S : i < y => j <= y
  BY <1>3
<1> QED BY <1>4, RankNext

\* Every number up to the size of the set is a rank.
LEMMA EveryRank ==
  ASSUME NEW S \in SUBSET Nat, IsFiniteSet(S),
         NEW k \in 1..Cardinality(S)
  PROVE  \E i \in S : Rank(S, i) = k
<1> DEFINE total == Cardinality(S)
           Counted(q) == \E i \in S : Rank(S, i) = q
           missing == {q \in 1..total : ~Counted(q)}
<1>1. total \in Nat
  BY FS_CardinalityType
<1>2. S # {}
  BY FS_EmptySet, <1>1
<1>3. SUFFICES ASSUME missing # {} PROVE FALSE
  <2> HIDE DEF Counted
  <2>1. Counted(k)
    BY <1>1, <1>3
  <2> QED BY <2>1 DEF Counted
<1>4. PICK q \in missing : \A y \in missing : q <= y
  <2>1. missing \in SUBSET Nat
    <3> HIDE DEF Counted, total
    <3> QED BY <1>1
  <2> HIDE DEF missing
  <2> QED BY <1>3, <2>1, MinIsMember
<1>5. q \in 1..total /\ ~Counted(q)
  BY <1>4
<1>6. Counted(1)
  BY <1>2, RankFirst, MinIsMember
<1>7. q # 1 /\ q - 1 \in 1..total /\ q - 1 \notin missing
  <2> HIDE DEF Counted, total
  <2> QED BY <1>1, <1>4, <1>5, <1>6
<1>8. Counted(q - 1)
  <2> HIDE DEF Counted, total
  <2> QED BY <1>7
<1>9. PICK i \in S : Rank(S, i) = q - 1
  BY <1>8
<1>10. Rank(S, i) < total
  <2> HIDE DEF total
  <2> QED BY <1>1, <1>5, <1>9
<1>11. \E j \in S : Rank(S, j) = (q - 1) + 1
  BY <1>9, <1>10, RankLast
<1>12. (q - 1) + 1 = q
  <2> HIDE DEF total
  <2> QED BY <1>1, <1>5
<1> QED BY <1>5, <1>11, <1>12

\* The member of a rank.
LEMMA NthMember ==
  ASSUME NEW S \in SUBSET Nat, IsFiniteSet(S),
         NEW k \in 1..Cardinality(S)
  PROVE  Nth(S, k) \in S /\ Rank(S, Nth(S, k)) = k
BY EveryRank DEF Nth

\* The first one is the leftmost.
LEMMA NthFirst ==
  ASSUME NEW S \in SUBSET Nat, IsFiniteSet(S), S # {}
  PROVE  /\ 1 \in 1..Cardinality(S)
         /\ Nth(S, 1) = Min(S)
<1>1. Min(S) \in S /\ \A y \in S : Min(S) <= y
  BY MinIsMember
<1>2. Rank(S, Min(S)) = 1
  BY RankFirst
<1>3. 1 \in 1..Cardinality(S)
  <2>1. Cardinality(S) \in Nat /\ 1 <= Cardinality(S)
    <3>1. Rank(S, Min(S)) <= Cardinality(S) /\ Cardinality(S) \in Nat
      BY <1>1, RankType
    <3> QED BY <1>2, <3>1
  <2> QED BY <2>1
<1>4. Nth(S, 1) \in S /\ Rank(S, Nth(S, 1)) = 1
  BY <1>3, NthMember
<1>5. ~(Min(S) < Nth(S, 1))
  <2>1. Min(S) < Nth(S, 1) => 1 < 1
    BY <1>1, <1>2, <1>4, RankGrows
  <2> QED BY <2>1
<1>6. Min(S) <= Nth(S, 1) /\ Min(S) \in Nat /\ Nth(S, 1) \in Nat
  BY <1>1, <1>4
<1> DEFINE m == Min(S)
           p == Nth(S, 1)
<1> HIDE DEF m, p
<1>7. m <= p /\ ~(m < p) /\ m \in Nat /\ p \in Nat
  BY <1>5, <1>6 DEF m, p
<1>8. p = m
  BY <1>7
<1> QED BY <1>3, <1>8 DEF m, p

\* The one of the next rank is the next one to the right.
LEMMA NthNext ==
  ASSUME NEW S \in SUBSET Nat, IsFiniteSet(S),
         NEW k \in 1..Cardinality(S), k + 1 \in 1..Cardinality(S)
  PROVE  /\ Nth(S, k) < Nth(S, k + 1)
         /\ \A y \in S : Nth(S, k) < y => Nth(S, k + 1) <= y
<1> DEFINE a == Nth(S, k)
           b == Nth(S, k + 1)
           total == Cardinality(S)
<1>1. a \in S /\ Rank(S, a) = k
  BY NthMember
<1>2. b \in S /\ Rank(S, b) = k + 1
  BY NthMember
<1>3. total \in Nat /\ k \in 1..total
  BY FS_CardinalityType
<1> HIDE DEF a, b, total
<1>4. a < b
  <2>1. CASE a = b
    BY <1>1, <1>2, <1>3, <2>1
  <2>2. CASE b < a
    <3>1. k + 1 < k
      BY <1>1, <1>2, <2>2, RankGrows
    <3> QED BY <1>3, <3>1
  <2> QED BY <1>1, <1>2, <2>1, <2>2
<1>5. ASSUME NEW y \in S, a < y, y < b PROVE FALSE
  <2>1. k < Rank(S, y) /\ Rank(S, y) < k + 1 /\ Rank(S, y) \in Nat
    BY <1>1, <1>2, <1>5, RankGrows, RankType
  <2> DEFINE r == Rank(S, y)
  <2> HIDE DEF r
  <2>2. k < r /\ r < k + 1 /\ r \in Nat
    BY <2>1 DEF r
  <2> QED BY <1>3, <2>2
<1>6. \A y \in S : a < y => b <= y
  BY <1>1, <1>2, <1>5
<1> QED BY <1>4, <1>6 DEF a, b

\* Behind the one with the greatest rank there is none.
LEMMA NthLast ==
  ASSUME NEW S \in SUBSET Nat, IsFiniteSet(S), S # {}
  PROVE  \A y \in S : y <= Nth(S, Cardinality(S))
<1> DEFINE total == Cardinality(S)
           z == Nth(S, total)
<1>1. total \in Nat /\ total \in 1..total
  BY NthFirst, FS_CardinalityType
<1>2. z \in S /\ Rank(S, z) = total
  BY <1>1, NthMember
<1> HIDE DEF z
<1>3. ASSUME NEW y \in S, z < y PROVE FALSE
  <2>1. total < Rank(S, y) /\ Rank(S, y) <= total /\ Rank(S, y) \in Nat
    BY <1>2, <1>3, RankGrows, RankType
  <2> DEFINE r == Rank(S, y)
  <2> HIDE DEF r, total
  <2>2. total < r /\ r <= total /\ r \in Nat
    BY <2>1 DEF r
  <2> QED BY <1>1, <2>2
<1>4. \A y \in S : y <= z
  BY <1>2, <1>3
<1> QED BY <1>4 DEF z

-----------------------------------------------------------------------------
(* One call of getNextToken reads one word.                                *)

EndOf(l, i) == Max({j \in Ink(l) : i..j \subseteq Ink(l)})

\* The places of a line with and without ink, and its words' starts.
LEMMA InkPlaces ==
  ASSUME NEW l \in Lines
  PROVE  /\ Len(l) \in Nat
         /\ Ink(l) \in SUBSET (1..Len(l))
         /\ Starts(l) \in SUBSET Ink(l)
         /\ Starts(l) \in SUBSET Nat
         /\ IsFiniteSet(Starts(l))
         /\ Cardinality(Starts(l)) \in 0..Len(l)
<1>1. Len(l) \in Nat /\ DOMAIN l = 1..Len(l)
  BY DEF Lines
<1>2. Ink(l) \in SUBSET (1..Len(l)) /\ Starts(l) \in SUBSET Ink(l)
  BY <1>1 DEF Ink, Starts
<1>3. IsFiniteSet(1..Len(l)) /\ Cardinality(1..Len(l)) = Len(l)
  <2> DEFINE n == Len(l)
  <2>1. n \in Nat /\ 1 \in Int
    BY <1>1
  <2> HIDE DEF n
  <2>2. IsFiniteSet(1..n) /\ Cardinality(1..n) = n
    BY <2>1, FS_Interval
  <2> QED BY <2>2 DEF n
<1>4. Starts(l) \in SUBSET (1..Len(l))
  BY <1>2
<1>5. IsFiniteSet(Starts(l)) /\ Cardinality(Starts(l)) <= Len(l)
  BY <1>3, <1>4, FS_Subset
<1>6. Cardinality(Starts(l)) \in Nat
  BY <1>5, FS_CardinalityType
<1> DEFINE total == Cardinality(Starts(l))
<1> HIDE DEF total
<1>7. total \in 0..Len(l)
  BY <1>1, <1>5, <1>6 DEF total
<1> QED BY <1>1, <1>2, <1>4, <1>5, <1>7 DEF total

\* What the two tests of the scans find at a place of the buffer.
LEMMA AtPlaces ==
  ASSUME NEW l \in Lines, NEW i \in 0..Len(l)
  PROVE  /\ At(l, i) # Blank <=> i = Len(l) \/ i + 1 \in Ink(l)
         /\ At(l, i) \in {Blank, Terminator}
              <=> i = Len(l) \/ i + 1 \notin Ink(l)
<1>1. Len(l) \in Nat /\ DOMAIN l = 1..Len(l) /\ i \in Nat
  BY DEF Lines
<1>2. CASE i = Len(l)
  BY <1>1, <1>2, CharactersAssumption DEF At
<1>3. CASE i < Len(l)
  <2>1. i + 1 \in DOMAIN l /\ l[i + 1] \in Chars /\ At(l, i) = l[i + 1]
    BY <1>1, <1>3 DEF At, Lines
  <2>2. i + 1 \in Ink(l) <=> l[i + 1] # Blank
    BY <2>1 DEF Ink
  <2>3. l[i + 1] # Terminator
    BY <2>1, CharactersAssumption DEF Chars
  <2>4. i # Len(l)
    <3> DEFINE n == Len(l)
    <3>1. i \in Nat /\ i < n
      BY <1>1, <1>3
    <3> HIDE DEF n
    <3>2. i # n
      BY <3>1
    <3> QED BY <3>2 DEF n
  <2>5. At(l, i) \in {Blank, Terminator} <=> l[i + 1] = Blank
    BY <2>1, <2>3
  <2> QED BY <2>1, <2>2, <2>4, <2>5
<1>4. i = Len(l) \/ i < Len(l)
  <2> DEFINE n == Len(l)
  <2>1. i \in 0..n /\ n \in Nat
    BY <1>1
  <2> HIDE DEF n
  <2>2. i = n \/ i < n
    BY <2>1
  <2> QED BY <2>2 DEF n
<1> QED BY <1>2, <1>3, <1>4

\* The first scan stops at the first character that is not a blank.
LEMMA HeadFound ==
  ASSUME NEW l \in Lines, NEW begin \in 0..Len(l), NEW s \in Ink(l),
         begin < s, \A y \in Ink(l) : begin < y => s <= y
  PROVE  LET heads == {i \in begin..(Len(l) - 1) : At(l, i) # Blank}
         IN  heads # {} /\ Min(heads) = s - 1
<1> DEFINE n == Len(l)
           heads == {i \in begin..(Len(l) - 1) : At(l, i) # Blank}
<1>1. n \in Nat /\ s \in 1..n /\ begin \in 0..n
  BY InkPlaces
<1>2. s - 1 \in heads
  <2>1. s - 1 \in begin..(n - 1) /\ s - 1 \in 0..n /\ (s - 1) + 1 = s
    <3> HIDE DEF n
    <3> QED BY <1>1
  <2>2. At(l, s - 1) # Blank
    BY <2>1, AtPlaces
  <2> QED BY <2>1, <2>2
<1>3. ASSUME NEW i \in heads PROVE s - 1 <= i
  <2>1. i \in begin..(n - 1) /\ At(l, i) # Blank
    BY <1>3
  <2>2. i \in 0..n /\ i # n
    <3> HIDE DEF n
    <3> QED BY <1>1, <2>1
  <2>3. i + 1 \in Ink(l)
    BY <2>1, <2>2, AtPlaces
  <2>4. begin < i + 1
    <3> HIDE DEF n
    <3> QED BY <1>1, <2>1
  <2>5. s <= i + 1
    BY <2>3, <2>4
  <2> HIDE DEF n
  <2> QED BY <1>1, <2>2, <2>5
<1>4. heads \in SUBSET Nat
  <2>1. begin..(n - 1) \in SUBSET Nat
    <3> HIDE DEF n
    <3> QED BY <1>1
  <2> QED BY <2>1
<1>5. Min(heads) \in heads /\ \A y \in heads : Min(heads) <= y
  <2> HIDE DEF heads
  <2> QED BY <1>2, <1>4, MinIsMember
<1>6. Min(heads) = s - 1
  <2> DEFINE m == Min(heads)
  <2>1. m \in Nat /\ m <= s - 1 /\ s - 1 <= m
    <3> HIDE DEF heads
    <3> QED BY <1>2, <1>3, <1>4, <1>5
  <2> HIDE DEF m, n
  <2>2. m = s - 1
    BY <1>1, <2>1
  <2> QED BY <2>2 DEF m
<1> QED BY <1>2, <1>6

\* The second scan stops behind the last character of the word.
LEMMA TailFound ==
  ASSUME NEW l \in Lines, NEW s \in Ink(l)
  PROVE  LET tails == {i \in (s - 1)..Len(l) :
                         At(l, i) \in {Blank, Terminator}}
             t == Min(tails)
         IN  /\ t \in s..Len(l)
             /\ t = EndOf(l, s)
             /\ s..t \subseteq Ink(l)
             /\ t = Len(l) \/ t + 1 \notin Ink(l)
<1> DEFINE n == Len(l)
           tails == {i \in (s - 1)..Len(l) :
                       At(l, i) \in {Blank, Terminator}}
           t == Min(tails)
           run == {j \in Ink(l) : s..j \subseteq Ink(l)}
<1>1. n \in Nat /\ s \in 1..n /\ Ink(l) \in SUBSET (1..n)
  BY InkPlaces
<1>2. n \in tails
  <2>1. n \in (s - 1)..n /\ n \in 0..n
    <3> HIDE DEF n
    <3> QED BY <1>1
  <2> QED BY <2>1, AtPlaces
<1>3. tails \in SUBSET ((s - 1)..n) /\ (s - 1)..n \in SUBSET (0..n)
  <2>1. (s - 1)..n \in SUBSET (0..n)
    <3> HIDE DEF n
    <3> QED BY <1>1
  <2> QED BY <2>1
<1>4. t \in tails /\ \A y \in tails : t <= y
  <2> HIDE DEF tails
  <2>1. tails \in SUBSET Nat
    BY <1>3
  <2> QED BY <1>2, <2>1, MinIsMember
<1>5. t \in (s - 1)..n /\ t \in 0..n
  BY <1>3, <1>4
<1>6. t = n \/ t + 1 \notin Ink(l)
  <2>1. At(l, t) \in {Blank, Terminator}
    BY <1>4
  <2> QED BY <1>5, <2>1, AtPlaces
<1>7. ASSUME NEW j \in (s - 1)..n, j < t PROVE j + 1 \in Ink(l)
  <2>1. j \notin tails
    <3> HIDE DEF tails, t, n
    <3> QED BY <1>1, <1>4, <1>5, <1>7
  <2>2. At(l, j) \notin {Blank, Terminator} /\ j \in 0..n
    BY <2>1, <1>3, <1>7
  <2> QED BY <2>2, AtPlaces
<1> HIDE DEF n, tails, t
<1>8. t \in s..n
  <2>1. t # s - 1
    BY <1>1, <1>6
  <2> QED BY <1>1, <1>5, <2>1
<1>9. ASSUME NEW j \in s..t PROVE j \in Ink(l)
  <2>1. j - 1 \in (s - 1)..n /\ j - 1 < t /\ (j - 1) + 1 = j
    BY <1>1, <1>8, <1>9
  <2> QED BY <1>7, <2>1
<1>10. t \in run
  <2>1. t \in s..t
    BY <1>1, <1>8
  <2> QED BY <1>9, <2>1
<1>11. ASSUME NEW j \in run PROVE j <= t
  <2>1. j \in Ink(l) /\ s..j \subseteq Ink(l) /\ j \in 1..n
    BY <1>1, <1>11
  <2>2. SUFFICES ASSUME t < j PROVE FALSE
    BY <1>1, <1>8, <2>1
  <2>3. t + 1 \in s..j /\ t # n
    BY <1>1, <1>8, <2>1, <2>2
  <2> QED BY <1>6, <2>1, <2>3
<1>12. EndOf(l, s) = t
  <2>1. run \in SUBSET (1..n)
    BY <1>1
  <2> HIDE DEF run
  <2>2. Max(run) \in run /\ \A y \in run : Max(run) >= y
    BY <1>1, <1>10, <2>1, MaxIsMember
  <2> DEFINE m == Max(run)
  <2> HIDE DEF m
  <2>3. m \in run /\ m >= t /\ m \in 1..n
    BY <1>10, <2>1, <2>2 DEF m
  <2>4. m <= t
    BY <1>11, <2>3
  <2>5. m = t
    BY <1>1, <1>8, <2>3, <2>4
  <2> QED BY <2>5 DEF EndOf, run, m
<1>13. s..t \subseteq Ink(l)
  BY <1>9
<1> QED BY <1>6, <1>8, <1>12, <1>13 DEF n, tails, t

\* Then the blanks behind the word are skipped: what follows begins the next
\* word, or the line ends.
LEMMA NextFound ==
  ASSUME NEW l \in Lines, NEW s \in Ink(l), NEW t \in s..Len(l),
         s..t \subseteq Ink(l), t = Len(l) \/ t + 1 \notin Ink(l)
  PROVE  LET nexts == {i \in t..Len(l) : At(l, i) # Blank}
             m == Min(nexts)
         IN  /\ m \in s..Len(l)
             /\ m = Len(l) \/ m + 1 \in Starts(l)
             /\ \A y \in Starts(l) : s < y => m < y
<1> DEFINE n == Len(l)
           nexts == {i \in t..Len(l) : At(l, i) # Blank}
           m == Min(nexts)
<1>1. /\ n \in Nat /\ s \in 1..n /\ t \in s..n /\ t \in 1..n
      /\ Ink(l) \in SUBSET (1..n)
      /\ t = n \/ t + 1 \notin Ink(l)
  <2>1. n \in Nat /\ s \in 1..n /\ t \in s..n
    BY InkPlaces
  <2>2. t \in 1..n
    <3> HIDE DEF n
    <3> QED BY <2>1
  <2> QED BY <2>1, <2>2, InkPlaces
<1>2. n \in nexts
  <2>1. n \in t..n /\ n \in 0..n
    <3> HIDE DEF n
    <3> QED BY <1>1
  <2> QED BY <2>1, AtPlaces
<1>3. nexts \in SUBSET (t..n) /\ t..n \in SUBSET (0..n)
  <2>1. t..n \in SUBSET (0..n)
    <3> HIDE DEF n
    <3> QED BY <1>1
  <2> QED BY <2>1
<1>4. m \in nexts /\ \A y \in nexts : m <= y
  <2> HIDE DEF nexts
  <2>1. nexts \in SUBSET Nat
    BY <1>3
  <2> QED BY <1>2, <2>1, MinIsMember
<1>5. m \in t..n /\ m \in 0..n
  BY <1>3, <1>4
<1>6. m = n \/ m + 1 \in Ink(l)
  <2>1. At(l, m) # Blank
    BY <1>4
  <2> QED BY <1>5, <2>1, AtPlaces
<1>7. ASSUME NEW j \in t..n, j < m PROVE j + 1 \notin Ink(l)
  <2>1. j \notin nexts
    <3> HIDE DEF nexts, m, n
    <3> QED BY <1>1, <1>4, <1>5, <1>7
  <2>2. ~(At(l, j) # Blank) /\ j \in 0..n
    BY <2>1, <1>3, <1>7
  <2> QED BY <2>2, AtPlaces
<1> HIDE DEF n, nexts, m
<1>8. m \in s..n
  BY <1>1, <1>5
<1>9. ASSUME m # n PROVE m + 1 \in Starts(l)
  <2>1. m # t
    BY <1>1, <1>6, <1>9
  <2>2. m - 1 \in t..n /\ m - 1 < m /\ (m - 1) + 1 = m
    BY <1>1, <1>5, <2>1
  <2>3. m \notin Ink(l)
    BY <1>7, <2>2
  <2>4. (m + 1) - 1 = m
    BY <1>1, <1>5
  <2> QED BY <1>6, <1>9, <2>3, <2>4 DEF Starts
<1>10. ASSUME NEW y \in Starts(l), s < y PROVE m < y
  <2>1. y \in Ink(l) /\ y - 1 \notin Ink(l) /\ y \in 1..n
    <3>1. y \in Ink(l) /\ y - 1 \notin Ink(l)
      BY DEF Starts
    <3> QED BY <1>1, <3>1
  <2>2. SUFFICES ASSUME y <= m PROVE FALSE
    BY <1>1, <1>5, <2>1
  <2>3. CASE y <= t
    <3>1. y - 1 \in s..t
      BY <1>1, <1>10, <2>1, <2>3
    <3> QED BY <2>1, <3>1
  <2>4. CASE t < y
    <3>1. y - 1 \in t..n /\ y - 1 < m /\ (y - 1) + 1 = y
      BY <1>1, <1>5, <2>1, <2>2, <2>4
    <3> QED BY <1>7, <2>1, <3>1
  <2> QED BY <1>1, <2>1, <2>3, <2>4
<1> QED BY <1>8, <1>9, <1>10 DEF n, nexts, m

\* The words of a line by number, and where the call that reads one leaves
\* the buffer.
WordStart(l, k) == Nth(Starts(l), k)
Word(l, k) == SubSeq(l, WordStart(l, k), EndOf(l, WordStart(l, k)))
Words(l) == Cardinality(Starts(l))
Follow(l, k) == IF k < Words(l) THEN WordStart(l, k + 1) - 1 ELSE Len(l)

LEMMA WordsAre == ASSUME NEW l
                  PROVE  WordsOf(l) = [k \in 1..Words(l) |-> Word(l, k)]
BY DEF WordsOf, Words, Word, WordStart, EndOf, Nth, Rank, UpTo

\* A call that begins between two words reads the next one and stops before
\* the one behind it.
LEMMA CallReadsWord ==
  ASSUME NEW l \in Lines, NEW k \in 1..Words(l), NEW begin \in 0..Len(l),
         begin < WordStart(l, k),
         \A y \in Ink(l) : begin < y => WordStart(l, k) <= y,
         NEW token
  PROVE  NextToken(token, l, begin)
           = [token |-> Word(l, k), next |-> Follow(l, k)]
<1> DEFINE n == Len(l)
           s == WordStart(l, k)
           heads == {i \in begin..(Len(l) - 1) : At(l, i) # Blank}
           tails == {i \in (s - 1)..Len(l) : At(l, i) \in {Blank, Terminator}}
           t == Min(tails)
           nexts == {i \in t..Len(l) : At(l, i) # Blank}
           m == Min(nexts)
<1>1. /\ n \in Nat /\ Starts(l) \in SUBSET Ink(l)
      /\ Starts(l) \in SUBSET (1..n) /\ Starts(l) \in SUBSET Nat
      /\ IsFiniteSet(Starts(l)) /\ Words(l) \in Nat
  BY InkPlaces DEF Words
<1>2. s \in Starts(l) /\ s \in Ink(l) /\ s \in 1..n
  BY <1>1, NthMember DEF Words, WordStart
<1>3. heads # {} /\ Min(heads) = s - 1
  BY <1>2, HeadFound
<1>4. /\ t \in s..n /\ t = EndOf(l, s)
      /\ s..t \subseteq Ink(l)
      /\ t = n \/ t + 1 \notin Ink(l)
  BY <1>2, TailFound
<1>5. /\ m \in s..n
      /\ m = n \/ m + 1 \in Starts(l)
      /\ \A y \in Starts(l) : s < y => m < y
  <2> HIDE DEF s, t
  <2> QED BY <1>2, <1>4, NextFound
<1>6. NextToken(token, l, begin)
        = [token |-> SubSeq(l, (s - 1) + 1, t), next |-> m]
  <2>1. LET tail == Min({i \in Min(heads)..n :
                           At(l, i) \in {Blank, Terminator}})
        IN  NextToken(token, l, begin)
              = [token |-> SubSeq(l, Min(heads) + 1, tail),
                 next |-> Min({i \in tail..n : At(l, i) # Blank})]
    BY <1>3 DEF NextToken
  <2> QED BY <1>3, <2>1
<1>7. (s - 1) + 1 = s
  <2> HIDE DEF s, n
  <2> QED BY <1>1, <1>2
<1>8. m = Follow(l, k)
  <2>1. CASE k < Words(l)
    <3>1. k + 1 \in 1..Words(l)
      BY <1>1, <2>1
    <3> DEFINE q == WordStart(l, k + 1)
    <3>2. q \in Starts(l) /\ q \in 1..n
      BY <1>1, <3>1, NthMember DEF Words, WordStart
    <3>3. s < q /\ \A y \in Starts(l) : s < y => q <= y
      BY <1>1, <3>1, NthNext DEF Words, WordStart
    <3> HIDE DEF q, m, s, n
    <3>4. m < q /\ m + 1 \in Starts(l) /\ s < m + 1
      BY <1>1, <1>2, <1>5, <3>2, <3>3
    <3>5. q <= m + 1
      BY <3>3, <3>4
    <3>6. m = q - 1
      BY <1>1, <1>2, <1>5, <3>2, <3>4, <3>5
    <3> QED BY <2>1, <3>6 DEF Follow, q
  <2>2. CASE ~(k < Words(l))
    <3>1. k = Words(l) /\ Starts(l) # {}
      BY <1>1, <1>2, <2>2
    <3>2. \A y \in Starts(l) : y <= s
      BY <1>1, <3>1, NthLast DEF Words, WordStart
    <3>3. m = n
      <4> HIDE DEF m, s, n
      <4> QED BY <1>1, <1>2, <1>5, <3>2
    <3> QED BY <2>2, <3>3 DEF Follow
  <2> QED BY <2>1, <2>2
<1> QED BY <1>4, <1>6, <1>7, <1>8 DEF Word

-----------------------------------------------------------------------------
(* getCmdTokens: what k calls after the first one have pushed.             *)

\* A line with ink has a first word, and nothing but blanks before it.
LEMMA FirstWord ==
  ASSUME NEW l \in Lines, Ink(l) # {}
  PROVE  1 \in 1..Words(l) /\ \A y \in Ink(l) : WordStart(l, 1) <= y
<1>1. /\ Ink(l) \in SUBSET Nat /\ Starts(l) \in SUBSET Ink(l)
      /\ Starts(l) \in SUBSET Nat /\ IsFiniteSet(Starts(l))
  BY InkPlaces
<1>2. PICK m \in Ink(l) : \A y \in Ink(l) : m <= y
  BY <1>1, MinIsMember
<1>3. m \in Starts(l)
  <2>1. m \in Nat
    BY <1>1
  <2>2. m - 1 \notin Ink(l)
    BY <1>2, <2>1
  <2> QED BY <2>2 DEF Starts
<1>4. Nth(Starts(l), 1) = Min(Starts(l)) /\ 1 \in 1..Words(l)
  BY <1>1, <1>3, NthFirst DEF Words
<1>5. Min(Starts(l)) \in Starts(l) /\ Min(Starts(l)) <= m
  BY <1>1, <1>3, MinIsMember
<1> DEFINE s == WordStart(l, 1)
<1>6. s \in Ink(l) /\ s <= m
  BY <1>1, <1>4, <1>5 DEF WordStart
<1> HIDE DEF s
<1>7. \A y \in Ink(l) : s <= y
  BY <1>1, <1>2, <1>6
<1> QED BY <1>4, <1>7 DEF s

\* A call on a line without ink leaves the token as it was.
LEMMA CallFindsNothing ==
  ASSUME NEW l \in Lines, Words(l) = 0, NEW token
  PROVE  NextToken(token, l, 0) = [token |-> token, next |-> Len(l)]
<1>1. Len(l) \in Nat
  BY InkPlaces
<1>2. Ink(l) = {}
  <2>1. Ink(l) # {} => 1 \in 1..0
    BY FirstWord
  <2> QED BY <2>1
<1>3. {i \in 0..(Len(l) - 1) : At(l, i) # Blank} = {}
  <2>1. ASSUME NEW i \in 0..(Len(l) - 1) PROVE At(l, i) = Blank
    <3>1. i \in 0..Len(l) /\ i # Len(l)
      <4> DEFINE n == Len(l)
      <4>1. n \in Nat /\ i \in 0..(n - 1)
        BY <1>1
      <4> HIDE DEF n
      <4>2. i \in 0..n /\ i # n
        BY <4>1
      <4> QED BY <4>2 DEF n
    <3> QED BY <1>2, <3>1, AtPlaces
  <2> QED BY <2>1
<1> QED BY <1>3 DEF NextToken

\* The calls, one after the other, and where each of them ends.
Pushed(l, g, k) ==
  IF k = 0
    THEN LET first == NextToken(<< >>, l, 0)
         IN  [tokens |-> <<first.token>>, next |-> first.next]
    ELSE LET done == g[k - 1]
             call == NextToken(done.tokens[Len(done.tokens)],
                               l, done.next)
         IN  IF done.next = Len(l) THEN done
             ELSE [tokens |-> Append(done.tokens, call.token),
                   next |-> call.next]
Calls(l, g) == g = [k \in 0..Len(l) |-> Pushed(l, g, k)]

WordsTo(l, k) ==
  [j \in 1..(IF k < Words(l) THEN k + 1 ELSE Words(l)) |-> Word(l, j)]
Read(l, k) ==
  [tokens |-> IF Words(l) = 0 THEN << << >> >> ELSE WordsTo(l, k),
   next |-> Follow(l, k + 1)]

\* There is one way only to read a line: two readings agree on their first
\* call, and a first call on which they differed would have begun alike.
LEMMA OneReading ==
  ASSUME NEW l, Len(l) \in Nat, NEW g, NEW h, Calls(l, g), Calls(l, h)
  PROVE  g = h
<1> DEFINE n == Len(l)
           apart == {k \in 0..n : g[k] # h[k]}
<1>1. \A k \in 0..n : g[k] = Pushed(l, g, k) /\ h[k] = Pushed(l, h, k)
  BY DEF Calls
<1>2. SUFFICES apart = {}
  <2>1. DOMAIN g = 0..n /\ DOMAIN h = 0..n
    BY DEF Calls
  <2>2. g = [k \in 0..n |-> g[k]] /\ h = [k \in 0..n |-> h[k]]
    BY <2>1 DEF Calls
  <2> QED BY <1>2, <2>1, <2>2
<1>3. SUFFICES ASSUME apart # {} PROVE FALSE
  OBVIOUS
<1>4. PICK k \in apart : \A y \in apart : k <= y
  <2>1. apart \in SUBSET Nat
    <3> HIDE DEF n
    <3> QED OBVIOUS
  <2> HIDE DEF apart
  <2> QED BY <1>3, <2>1, MinIsMember
<1>5. k \in 0..n /\ g[k] # h[k] /\ n \in Nat
  BY <1>4
<1>6. k # 0
  BY <1>1, <1>5 DEF Pushed
<1>7. k - 1 \in 0..n /\ ~(k <= k - 1)
  <2> HIDE DEF n
  <2> QED BY <1>5, <1>6
<1>8. g[k - 1] = h[k - 1]
  BY <1>4, <1>7
<1>9. Pushed(l, g, k) = Pushed(l, h, k)
  BY <1>6, <1>8 DEF Pushed
<1> QED BY <1>1, <1>5, <1>9

\* The first call reads the first word.
LEMMA FirstRead ==
  ASSUME NEW l \in Lines, NEW g
  PROVE  Pushed(l, g, 0) = Read(l, 0)
<1>1. Len(l) \in Nat /\ Words(l) \in Nat
  BY InkPlaces DEF Words
<1>2. CASE Words(l) = 0
  <2>1. Pushed(l, g, 0) = [tokens |-> << << >> >>, next |-> Len(l)]
    BY <1>2, CallFindsNothing DEF Pushed
  <2>2. Follow(l, 0 + 1) = Len(l)
    BY <1>2 DEF Follow
  <2> QED BY <1>2, <2>1, <2>2 DEF Read
<1>3. CASE Words(l) # 0
  <2>1. Ink(l) # {}
    <3>1. Ink(l) = {} => Starts(l) = {}
      BY DEF Starts
    <3> QED BY <1>3, <3>1, FS_EmptySet DEF Words
  <2>2. 1 \in 1..Words(l) /\ \A y \in Ink(l) : WordStart(l, 1) <= y
    BY <2>1, FirstWord
  <2>3. 0 < WordStart(l, 1) /\ 0 \in 0..Len(l)
    <3>1. WordStart(l, 1) \in Starts(l)
      BY <2>2, InkPlaces, NthMember DEF Words, WordStart
    <3>2. WordStart(l, 1) \in 1..Len(l)
      BY <3>1, InkPlaces
    <3> QED BY <1>1, <3>2
  <2>4. NextToken(<< >>, l, 0)
          = [token |-> Word(l, 1), next |-> Follow(l, 1)]
    BY <2>2, <2>3, CallReadsWord
  <2>5. Pushed(l, g, 0) = [tokens |-> <<Word(l, 1)>>, next |-> Follow(l, 1)]
    BY <2>4 DEF Pushed
  <2>6. WordsTo(l, 0) = <<Word(l, 1)>>
    <3> DEFINE total == Words(l)
    <3>1. total \in Nat /\ total # 0
      BY <1>1, <1>3
    <3> HIDE DEF total
    <3>2. 0 < total /\ 0 + 1 = 1
      BY <3>1
    <3>3. WordsTo(l, 0) = [j \in 1..1 |-> Word(l, j)]
      BY <3>2 DEF WordsTo, total
    <3> QED BY <3>3
  <2>7. 0 + 1 = 1
    OBVIOUS
  <2> QED BY <1>3, <2>5, <2>6, <2>7 DEF Read
<1> QED BY <1>2, <1>3

\* Each later call pushes the next word, and after the last one nothing.
LEMMA LaterRead ==
  ASSUME NEW l \in Lines, NEW k \in 1..Len(l), NEW g,
         g[k - 1] = Read(l, k - 1)
  PROVE  Pushed(l, g, k) = Read(l, k)
<1> DEFINE n == Len(l)
           total == Words(l)
           last == Read(l, k - 1)
<1>1. n \in Nat /\ total \in Nat /\ k \in 1..n /\ (k - 1) + 1 = k /\ k # 0
  BY InkPlaces DEF Words
<1>2. last.next = Follow(l, k)
  BY <1>1 DEF Read
<1>3. CASE ~(k < total)
  <2>1. last.next = n
    BY <1>2, <1>3 DEF Follow
  <2>2. Pushed(l, g, k) = last
    BY <1>1, <2>1 DEF Pushed
  <2>3. Follow(l, k) = Follow(l, k + 1)
    <3>1. ~(k + 1 < total)
      <4> HIDE DEF total
      <4> QED BY <1>1, <1>3
    <3> QED BY <1>3, <3>1 DEF Follow
  <2>4. WordsTo(l, k - 1) = WordsTo(l, k)
    <3>1. (IF k - 1 < total THEN (k - 1) + 1 ELSE total) = total
      <4> HIDE DEF total
      <4> QED BY <1>1, <1>3
    <3> QED BY <1>3, <3>1 DEF WordsTo
  <2> QED BY <1>1, <2>2, <2>3, <2>4 DEF Read
<1>4. CASE k < total
  <2> DEFINE begin == WordStart(l, k + 1) - 1
             s == WordStart(l, k + 1)
  <2>1. k + 1 \in 1..total /\ total # 0
    <3> HIDE DEF total
    <3> QED BY <1>1, <1>4
  <2>2. s \in Starts(l) /\ s \in 1..n /\ Ink(l) \in SUBSET (1..n)
    <3>1. s \in Starts(l)
      BY <2>1, InkPlaces, NthMember DEF Words, WordStart
    <3> QED BY <3>1, InkPlaces
  <2>3. /\ begin \in 0..n /\ begin < s /\ begin # n
        /\ \A y \in Ink(l) : begin < y => s <= y
    <3>1. begin = s - 1
      OBVIOUS
    <3> HIDE DEF n, s, begin
    <3> QED BY <1>1, <2>2, <3>1
  <2>4. last.next = begin
    BY <1>2, <1>4 DEF Follow
  <2>5. \A token : NextToken(token, l, begin)
                     = [token |-> Word(l, k + 1), next |-> Follow(l, k + 1)]
    <3> HIDE DEF begin
    <3> QED BY <2>1, <2>3, CallReadsWord
  <2>6. Pushed(l, g, k)
          = [tokens |-> Append(last.tokens, Word(l, k + 1)),
             next |-> Follow(l, k + 1)]
    <3> HIDE DEF last, begin
    <3>1. g[k - 1] = last
      BY DEF last
    <3> DEFINE call == NextToken(last.tokens[Len(last.tokens)], l, last.next)
    <3>2. Pushed(l, g, k)
            = [tokens |-> Append(last.tokens, call.token), next |-> call.next]
      BY <1>1, <2>3, <2>4, <3>1 DEF Pushed
    <3>3. call = [token |-> Word(l, k + 1), next |-> Follow(l, k + 1)]
      BY <2>4, <2>5
    <3> HIDE DEF call
    <3> QED BY <3>2, <3>3
  <2>7. last.tokens = [j \in 1..k |-> Word(l, j)]
    <3>1. (IF k - 1 < total THEN (k - 1) + 1 ELSE total) = k
      <4> HIDE DEF total
      <4> QED BY <1>1, <1>4
    <3>2. last.tokens = WordsTo(l, k - 1)
      BY <2>1 DEF Read
    <3> QED BY <3>1, <3>2 DEF WordsTo
  <2>8. Append([j \in 1..k |-> Word(l, j)], Word(l, k + 1))
          = [j \in 1..(k + 1) |-> Word(l, j)]
    BY <1>1
  <2>9. Read(l, k) = [tokens |-> [j \in 1..(k + 1) |-> Word(l, j)],
                      next |-> Follow(l, k + 1)]
    BY <1>4, <2>1 DEF Read, WordsTo
  <2> HIDE DEF last
  <2> QED BY <2>6, <2>7, <2>8, <2>9
<1> QED BY <1>3, <1>4

\* So the whole reading is known.
LEMMA AllRead ==
  ASSUME NEW l \in Lines
  PROVE  Calls(l, [k \in 0..Len(l) |-> Read(l, k)])
<1> DEFINE n == Len(l)
           reading == [k \in 0..n |-> Read(l, k)]
<1>1. n \in Nat
  BY InkPlaces
<1>2. ASSUME NEW k \in 0..n PROVE Read(l, k) = Pushed(l, reading, k)
  <2>1. CASE k = 0
    <3> HIDE DEF reading
    <3> QED BY <2>1, FirstRead
  <2>2. CASE k # 0
    <3>1. k \in 1..n /\ k - 1 \in 0..n
      <4> HIDE DEF n
      <4> QED BY <1>1, <2>2
    <3>2. reading[k - 1] = Read(l, k - 1)
      BY <3>1
    <3> HIDE DEF reading
    <3> QED BY <3>1, <3>2, LaterRead
  <2> QED BY <2>1, <2>2
<1>3. reading = [k \in 0..n |-> Pushed(l, reading, k)]
  <2>1. [k \in 0..n |-> Read(l, k)] = [k \in 0..n |-> Pushed(l, reading, k)]
    <3> HIDE DEF reading
    <3> QED BY <1>2
  <2> QED BY <2>1
<1> QED BY <1>3 DEF Calls

\* The tokens of a line are its words.
LEMMA TokensOfLine ==
  ASSUME NEW l \in Lines
  PROVE  GetCmdTokens(l)
           = IF WordsOf(l) = << >> THEN << << >> >> ELSE WordsOf(l)
<1> DEFINE n == Len(l)
           total == Words(l)
           reading == [k \in 0..n |-> Read(l, k)]
           chosen == CHOOSE g : Calls(l, g)
<1>1. n \in Nat /\ total \in 0..n
  BY InkPlaces DEF Words
<1>2. chosen = reading
  <2>1. Calls(l, reading)
    BY AllRead
  <2> HIDE DEF reading
  <2>2. Calls(l, chosen)
    BY <2>1
  <2> HIDE DEF chosen
  <2> QED BY <1>1, <2>1, <2>2, OneReading
<1>3. GetCmdTokens(l) = chosen[n].tokens
  BY DEF GetCmdTokens, Calls, Pushed
<1>4. chosen[n] = Read(l, n)
  <2>1. n \in 0..n
    <3> HIDE DEF n
    <3> QED BY <1>1
  <2> QED BY <1>2, <2>1
<1>5. WordsOf(l) = [k \in 1..total |-> Word(l, k)]
  BY WordsAre
<1>6. WordsTo(l, n) = WordsOf(l)
  <2>1. ~(n < total)
    <3> HIDE DEF n, total
    <3> QED BY <1>1
  <2> QED BY <1>5, <2>1 DEF WordsTo
<1>7. WordsOf(l) = << >> <=> total = 0
  <2> HIDE DEF n, total
  <2>1. total \in Nat
    BY <1>1
  <2> QED BY <1>5, <2>1
<1> HIDE DEF chosen
<1> QED BY <1>3, <1>4, <1>6, <1>7 DEF Read

\* For every line that can be typed, whatever its blanks, getCmdTokens
\* (client.cpp:139-170) finds each word of it once, from left to right, and
\* one empty token in a line without a word.
THEOREM TokensFollow == Spec => []TokensAreWords
<1>1. EditInv => TokensAreWords
  <2>1. EditInv => line \in Lines
    BY InvImplies DEF TypeOK
  <2> QED BY <2>1, TokensOfLine DEF TokensAreWords
<1> QED BY <1>1, InitEdit, NextEdit, PTL DEF Spec
=============================================================================
