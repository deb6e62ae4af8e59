------------------------------ MODULE CmdTokens ------------------------------
(***************************************************************************)
(* How a command line is cut into tokens and completed (client/client.cpp).*)
(* A line is the sequence of the printable characters between _readBuf and *)
(* _readBufEnd; behind them is the terminator.                             *)
(***************************************************************************)
EXTENDS Integers, Sequences, FiniteSetsExt

CONSTANTS
  Letters,     \* the printable characters but the blank
  Blank,
  Terminator,
  Commands     \* the names in _cmdExecMap, as sequences of letters

ASSUME CharactersAssumption ==
  /\ Blank \notin Letters
  /\ Terminator \notin Letters \cup {Blank}
ASSUME CommandsAssumption == Commands \subseteq Seq(Letters)

Chars == Letters \cup {Blank}

\* _readBuf[i]
At(line, i) == IF i < Len(line) THEN line[i + 1] ELSE Terminator

\* Mutant: the blanks behind a token are left for the next call.
NextTokenUncleaned(token, line, begin) ==
  LET end == Len(line)
      heads == {i \in begin..(end - 1) : At(line, i) # Blank}
  IN  IF heads = {} THEN [token |-> token, next |-> end]
      ELSE LET tail == Min({i \in Min(heads)..end :
                              At(line, i) \in {Blank, Terminator}})
           IN  [token |-> SubSeq(line, Min(heads) + 1, tail), next |-> tail]

\* getNextToken: token is the string passed by reference, which keeps what it
\* had when there is no token; next is where the following call begins, at
\* the first character behind the token that is not a blank.
NextToken(token, line, begin) ==
  LET end == Len(line)
      heads == {i \in begin..(end - 1) : At(line, i) # Blank}
  IN  IF heads = {} THEN [token |-> token, next |-> end]
      ELSE LET tail == Min({i \in Min(heads)..end :
                              At(line, i) \in {Blank, Terminator}})
           IN  [token |-> SubSeq(line, Min(heads) + 1, tail),
                next |-> Min({i \in tail..end : At(line, i) # Blank})]

\* getCmdTokens: one token is always pushed, an empty one for a blank line.
GetCmdTokens(line) ==
  LET end == Len(line)
      calls[k \in 0..end] ==   \* what k calls after the first one have pushed
        IF k = 0
          THEN LET first == NextToken(<< >>, line, 0)
               IN  [tokens |-> <<first.token>>, next |-> first.next]
          ELSE LET done == calls[k - 1]
                   call == NextToken(done.tokens[Len(done.tokens)],
                                     line, done.next)
               IN  IF done.next = end THEN done
                   ELSE [tokens |-> Append(done.tokens, call.token),
                         next |-> call.next]
  IN  calls[end].tokens

\* commonPrefix: a command that is shorter differs at its terminator.
CommonPrefix(prefix) ==
  {cmd \in Commands :
     \A i \in 1..Len(prefix) : i <= Len(cmd) /\ prefix[i] = cmd[i]}
=============================================================================
