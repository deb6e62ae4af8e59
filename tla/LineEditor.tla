----------------------------- MODULE LineEditor -----------------------------
(***************************************************************************)
(* The command line of the client (client/client.cpp, readCmdInt and what  *)
(* it calls): the line being edited, the history, and what the terminal    *)
(* shows to the right of the prompt.                                       *)
(*                                                                         *)
(* While the user is away from the bottom of the history, the line that    *)
(* was being typed is kept as an extra last element of _history.           *)
(***************************************************************************)
EXTENDS CmdTokens

CONSTANTS
  PG_OFFSET,    \* how far PgUp and PgDn go
  MaxSize,      \* bound: characters in the line plus lines in the history
  MaxHistory    \* bound: lines in the history

ASSUME PageAssumption == PG_OFFSET \in Nat \ {0}

VARIABLES
  line,           \* _readBuf
  ptr,            \* _readBufPtr - _readBuf
  history,        \* _history
  historyIdx,     \* _historyIdx
  tempCmdStored,  \* _tempCmdStored
  screen          \* the terminal: text behind the prompt, column of the cursor

editVars == <<line, ptr, history, historyIdx, tempCmdStored, screen>>
historyVars == <<history, historyIdx, tempCmdStored>>

Lines == Seq(Chars)

TypeOK ==
  /\ line \in Lines
  /\ ptr \in 0..Len(line)
  /\ history \in Seq(Lines)
  /\ historyIdx \in 0..Len(history)
  /\ tempCmdStored \in BOOLEAN
  /\ screen \in [text : Lines, col : Nat]

WithoutLast(s) == SubSeq(s, 1, Len(s) - 1)

\* The history without the kept line.
Entries == IF tempCmdStored THEN WithoutLast(history) ELSE history

-----------------------------------------------------------------------------
(* Output.                                                                 *)

Ink(l) == {i \in DOMAIN l : l[i] # Blank}

\* A cell with a blank is a cell with nothing.
Cells(l) == IF Ink(l) = {} THEN << >> ELSE SubSeq(l, 1, Max(Ink(l)))

Blanks(n) == [i \in 1..n |-> Blank]

\* Printing t at the cursor overwrites what is there.
Printed(s, t) ==
  LET row == s.text \o Blanks(s.col)
  IN  [text |-> Cells(SubSeq(row, 1, s.col) \o t
                        \o SubSeq(s.text, s.col + Len(t) + 1, Len(s.text))),
       col |-> s.col + Len(t)]

\* n times "\b".
Back(s, n) == [s EXCEPT !.col = @ - n]

\* A new row with the prompt and l.
Fresh(l) == [text |-> Cells(l), col |-> Len(l)]

\* moveBufPtr, from column p to column q of l.
Moved(s, l, p, q) ==
  IF q < p THEN Back(s, p - q) ELSE Printed(s, SubSeq(l, p + 1, q))

\* Mutant: the blank over the last character is not printed.
CharDeletedUnwiped(s, l, p) ==
  Back(Printed(s, SubSeq(l, p + 2, Len(l))), Len(l) - 1 - p)

\* deleteChar at column p: the rest of the line and a blank are printed.
CharDeleted(s, l, p) ==
  Back(Back(Printed(s, SubSeq(l, p + 2, Len(l)) \o <<Blank>>), 1),
       Len(l) - 1 - p)

\* deleteLine, with the cursor believed to be in column p.
LineDeleted(s, l, p) == Back(Printed(Back(s, p), Blanks(Len(l))), Len(l))

-----------------------------------------------------------------------------
Init ==
  /\ line = << >> /\ ptr = 0
  /\ history = << >> /\ historyIdx = 0 /\ tempCmdStored = FALSE
  /\ screen = Fresh(<< >>)

\* Home, End, the arrows and their control keys; elsewhere it beeps.
MoveBufPtr(p) ==
  /\ p \in {0, ptr - 1, ptr + 1, Len(line)} \cap (0..Len(line))
  /\ ptr' = p
  /\ screen' = Moved(screen, line, ptr, p)
  /\ UNCHANGED <<line, historyVars>>

Without(l, p) == SubSeq(l, 1, p) \o SubSeq(l, p + 2, Len(l))

DeleteChar ==
  /\ ptr < Len(line)
  /\ line' = Without(line, ptr)
  /\ screen' = CharDeleted(screen, line, ptr)
  /\ UNCHANGED <<ptr, historyVars>>

BackSpace ==
  /\ ptr > 0
  /\ ptr' = ptr - 1
  /\ line' = Without(line, ptr - 1)
  /\ screen' = CharDeleted(Moved(screen, line, ptr, ptr - 1), line, ptr - 1)
  /\ UNCHANGED historyVars

InsertChar(ch) ==
  /\ Len(line) + Len(Entries) < MaxSize
  /\ line' = SubSeq(line, 1, ptr) \o <<ch>> \o SubSeq(line, ptr + 1, Len(line))
  /\ ptr' = ptr + 1
  /\ screen' = Back(Printed(screen, SubSeq(line', ptr + 1, Len(line'))),
                    Len(line) - ptr)
  /\ UNCHANGED historyVars

-----------------------------------------------------------------------------
(* History.                                                                *)

Trimmed(l) == SubSeq(l, Min(Ink(l)), Max(Ink(l)))

\* Mutant: a blank line leaves the kept line in the history.
AddHistoryKeepsTemp ==
  IF Ink(line) = {}
    THEN /\ tempCmdStored' = FALSE
         /\ historyIdx' = Len(history)
         /\ UNCHANGED history
    ELSE /\ history' = IF tempCmdStored
                         THEN [history EXCEPT ![Len(history)] = line]
                         ELSE Append(history, Trimmed(line))
         /\ tempCmdStored' = FALSE
         /\ historyIdx' = Len(history')

\* addHistory.  A line entered away from the bottom replaces the line kept
\* there, and is not trimmed.
AddHistory ==
  \/ /\ Ink(line) = {}
     /\ IF tempCmdStored
          THEN /\ tempCmdStored' = FALSE
               /\ history' = WithoutLast(history)
               /\ historyIdx' = Len(history')
          ELSE UNCHANGED historyVars
  \/ /\ Ink(line) # {}
     /\ history' = IF tempCmdStored
                     THEN [history EXCEPT ![Len(history)] = line]
                     ELSE Append(history, Trimmed(line))
     /\ tempCmdStored' = FALSE
     /\ historyIdx' = Len(history')

\* The command of the line is executed, then the line is filed.
NewLine ==
  /\ Len(Entries) < MaxHistory
  /\ AddHistory
  /\ line' = << >> /\ ptr' = 0
  /\ screen' = Fresh(<< >>)

\* Mutant: the cursor stays where it was.
RetrieveKeepsCursor(l) ==
  /\ line' = l
  /\ ptr' = ptr
  /\ screen' = Printed(LineDeleted(screen, line, ptr), l)

\* retrieveHistory shows l in place of the line.
Retrieve(l) ==
  /\ line' = l
  /\ ptr' = Len(l)
  /\ screen' = Printed(LineDeleted(screen, line, ptr), l)

\* Mutant: the kept line is not taken out again.
SettleForgotten(h, temp, idx) ==
  /\ historyIdx' = idx
  /\ Retrieve(h[idx + 1])
  /\ history' = h /\ tempCmdStored' = temp

\* The end of moveToHistory, with the history h.
Settle(h, temp, idx) ==
  /\ historyIdx' = idx
  /\ Retrieve(h[idx + 1])
  /\ IF temp /\ idx = Len(h) - 1
       THEN history' = WithoutLast(h) /\ tempCmdStored' = FALSE
       ELSE history' = h /\ tempCmdStored' = temp

Least(a, b) == IF a < b THEN a ELSE b

\* moveToHistory(_historyIdx - n); at the oldest line it beeps.
MoveUp(n) ==
  /\ historyIdx > 0
  /\ LET idx == IF historyIdx < n THEN 0 ELSE historyIdx - n
     IN  IF historyIdx = Len(history)
           THEN Settle(Append(history, line), TRUE, idx)
           ELSE Settle(history, tempCmdStored, idx)

\* moveToHistory(_historyIdx + n); at the bottom it beeps.
MoveDown(n) ==
  /\ historyIdx # (IF tempCmdStored THEN Len(history) - 1 ELSE Len(history))
  /\ Settle(history, tempCmdStored, Least(historyIdx + n, Len(history) - 1))

-----------------------------------------------------------------------------
(* Completion, and reprinting.                                             *)

\* reprintCmd: the cursor is left at the end, ptr where it was.
Reprint ==
  /\ screen' = Fresh(line)
  /\ UNCHANGED <<line, ptr, historyVars>>

\* completeCmd, with one token in the line.
CompleteCmd ==
  /\ Len(GetCmdTokens(line)) = 1
  /\ LET cmds == CommonPrefix(GetCmdTokens(line)[1])
     IN  \/ \E cmd \in cmds :
              /\ cmds = {cmd}
              /\ Retrieve(cmd)
              /\ UNCHANGED historyVars
         \/ Cardinality(cmds) > 1 /\ Reprint

\* run shows a chat that arrived.
ShowMessage == Reprint

Next ==
  \/ \E p \in 0..Len(line) : MoveBufPtr(p)
  \/ DeleteChar \/ BackSpace
  \/ \E ch \in Chars : InsertChar(ch)
  \/ NewLine
  \/ \E n \in {1, PG_OFFSET} : MoveUp(n) \/ MoveDown(n)
  \/ CompleteCmd
  \/ ShowMessage

Spec == Init /\ [][Next]_editVars

-----------------------------------------------------------------------------
(* Properties.                                                             *)

\* The kept line is in the history exactly while the user is above the
\* bottom, whatever keys and commands come in between: no index ever points
\* behind the history, and no kept line is left in it (client.cpp:251-323).
KeptWhileAbove ==
  /\ historyIdx <= Len(Entries)
  /\ tempCmdStored <=> historyIdx < Len(Entries)

Forms(l) ==
  IF Ink(l) = {} THEN {} ELSE {l, Trimmed(l)}

CH == INSTANCE CommandHistory WITH
        AllLines <- Lines,
        entries <- Entries,
        place <- historyIdx + 1,
        current <- line,
        draft <- IF tempCmdStored THEN history[Len(history)] ELSE << >>

\* README.md:3, one moves up and down in the history of commands: what was
\* entered stays there, in order, and the draft comes back when the user
\* returns to the bottom, by whatever keys (client.cpp:251-323).
KeepsHistory == CH!HistorySpec

ScreenIsRight == screen = [text |-> Cells(line), col |-> ptr]

\* The terminal and the buffer are changed by separate statements, and every
\* key keeps them together: the line is shown, with the cursor where the next
\* key acts (client.cpp:173-248, 332-338).  It is only lost when the line is
\* reprinted with the cursor inside it (client.cpp:91-94).
KeysKeepScreen ==
  [][ScreenIsRight => ScreenIsRight' \/ (Reprint /\ ptr < Len(line))]_editVars

Starts(l) == {i \in Ink(l) : i - 1 \notin Ink(l)}

\* The maximal runs of letters of a line, from left to right.
WordsOf(l) ==
  LET start(k) == CHOOSE i \in Starts(l) :
                    Cardinality({j \in Starts(l) : j <= i}) = k
      end(i) == Max({j \in Ink(l) : i..j \subseteq Ink(l)})
  IN  [k \in 1..Cardinality(Starts(l)) |-> SubSeq(l, start(k), end(start(k)))]

\* getCmdTokens and its scans of the buffer (client.cpp:139-170) find the
\* words of the line, none twice and none missing, wherever the blanks are;
\* in a line without a word they find one empty token.
TokensAreWords ==
  GetCmdTokens(line) =
    IF WordsOf(line) = << >> THEN << << >> >> ELSE WordsOf(line)
=============================================================================
