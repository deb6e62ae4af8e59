------------------------------ MODULE Keyboard ------------------------------
(***************************************************************************)
(* From the keyboard to readCmdInt (client/cmdCharDef.cpp,                 *)
(* client/cmdCharDef.h and the loop of Client::run): the terminal, the     *)
(* buffer of the standard input, the switching between the user's terminal *)
(* settings and unbuffered ones without echo, and getChar, which makes one *)
(* ParseChar of the bytes of a key.  send, signUp and signIn read the same *)
(* standard input: a line, or two words and the rest of their line         *)
(* (client/cmd.cpp).                                                       *)
(*                                                                         *)
(* select() asks the terminal, and sees nothing of what the standard input *)
(* has already read.  While the user's settings are in force the line      *)
(* discipline gives whole lines, and takes the keys that edit them.        *)
(***************************************************************************)
EXTENDS Integers, Sequences

CONSTANTS
  Keys,    \* the keys the user presses, as the ParseChar they are meant to be
  MaxKeys  \* bounds how many

LINE_BEGIN_KEY == 1
LINE_END_KEY == 5
INPUT_END_KEY == 4
TAB_KEY == 9
NEWLINE_KEY == 10
ESC_KEY == 27
BACK_SPACE_KEY == 127

ARROW_KEY_FLAG == 256
ARROW_KEY_BEGIN == 65 + ARROW_KEY_FLAG
ARROW_KEY_END == 68 + ARROW_KEY_FLAG

MOD_KEY_FLAG == 512
MOD_KEY_INT == 91
MOD_KEY_BEGIN == 49 + MOD_KEY_FLAG
MOD_KEY_END == 54 + MOD_KEY_FLAG
MOD_KEY_DUMMY == 126

UNDEFINED_KEY == 2147483647

\* In decoded: a byte of a key that has more, and one that a command has read.
Part == -1
Line == -2

Byte == 0..255

\* The line discipline edits the line: reprint, kill, word erase, erase.
EditKeys == {18, 21, 23, BACK_SPACE_KEY}

\* It makes signals, an end of file or other bytes of them, or stops: Ctrl-C,
\* Ctrl-D, Ctrl-M, Ctrl-Q, Ctrl-S, Ctrl-V, Ctrl-Z and Ctrl-\.
SpecialKeys == {3, INPUT_END_KEY, 13, 17, 19, 22, 26, 28}

ArrowKeys == ARROW_KEY_BEGIN..ARROW_KEY_END
ModKeys == MOD_KEY_BEGIN..MOD_KEY_END
SimpleKeys == {LINE_BEGIN_KEY, LINE_END_KEY, INPUT_END_KEY, TAB_KEY,
               NEWLINE_KEY, BACK_SPACE_KEY}
Printable == 32..126

\* What readCmdInt has a case for; it inserts the printable ones.
ParseChars ==
  SimpleKeys \cup Printable \cup ArrowKeys \cup ModKeys \cup {UNDEFINED_KEY}

ASSUME KeysAssumption ==
  Keys \subseteq (Byte \ SpecialKeys) \cup ArrowKeys \cup ModKeys
ASSUME MaxKeysAssumption == MaxKeys \in Nat

VARIABLES
  wire,     \* bytes on their way to the terminal
  tty,      \* bytes the terminal holds
  lines,    \* how many of them the user's settings let a read have
  buf,      \* bytes the standard input has read
  term,     \* the settings of the terminal: the user's ("cooked") or "raw"
  stored,   \* stored_settings
  pc,       \* where run is
  dec,      \* the read of getChar that is next
  held,     \* its variable key
  msg,      \* a socket is readable
  ended,    \* the standard input has come to its end
  typed,    \* the keys pressed
  ends,     \* where in the bytes of all of them each one ends
  decoded,  \* what became of each byte read: a key for readCmdInt (the bytes
            \* of it before the last are Parts), or a Line
  clean     \* no ESC by itself, no edit by the line discipline

keyVars == <<wire, ended, typed, ends, clean>>
termVars == <<term, stored, lines>>
vars == <<keyVars, tty, buf, termVars, pc, dec, held, msg, decoded>>

\* execCmd is running; it asks for a line or for words, or waits for a reply.
Commanding == {"command", "line", "words", "reply"}

TypeOK ==
  /\ wire \in Seq(Byte) /\ tty \in Seq(Byte) /\ buf \in Seq(Byte)
  /\ term \in {"cooked", "raw"} /\ stored \in {"cooked", "raw"}
  /\ lines \in Nat
  /\ pc \in {"loop", "select", "call", "getc"} \cup Commanding
  /\ dec \in {"key", "combo", "mod", "dummy"}
  /\ held \in Byte
  /\ msg \in BOOLEAN /\ ended \in BOOLEAN /\ clean \in BOOLEAN
  /\ typed \in Seq(Keys) /\ ends \in Seq(Nat)
  /\ decoded \in Seq(ParseChars \cup {Part, Line})

Init ==
  /\ wire = << >> /\ tty = << >> /\ buf = << >>
  /\ term = "cooked" /\ stored = "cooked" /\ lines = 0
  /\ pc = "loop" /\ dec = "key" /\ held = 0
  /\ msg = FALSE /\ ended = FALSE
  /\ typed = << >> /\ ends = << >> /\ decoded = << >>
  /\ clean = TRUE

-----------------------------------------------------------------------------
(* The user, the terminal and the sockets.                                 *)

\* A terminal's bytes for a key.
Encoded(k) ==
  IF k \in ArrowKeys THEN <<ESC_KEY, 91, k - 256>>
  ELSE IF k \in ModKeys THEN <<ESC_KEY, 91, k - 512, 126>>
  ELSE <<k>>

\* The place of the last byte pressed.
LastEnd == IF ends = << >> THEN 0 ELSE ends[Len(ends)]

\* Bound: MaxKeys.
Press(k) ==
  /\ ~ended /\ Len(typed) < MaxKeys
  /\ typed' = Append(typed, k)
  /\ ends' = Append(ends, LastEnd + Len(Encoded(k)))
  /\ wire' = wire \o Encoded(k)
  /\ clean' = (clean /\ k # ESC_KEY)
  /\ UNCHANGED <<ended, tty, buf, termVars, pc, dec, held, msg, decoded>>

\* The line discipline takes b for itself.
Edits(b) == term = "cooked" /\ b \in EditKeys

\* Bytes of one key may arrive one by one.  An edit takes back some of the
\* line, or nothing; a newline completes it.
Arrive ==
  /\ wire # << >>
  /\ wire' = Tail(wire)
  /\ \/ /\ Edits(Head(wire))
        /\ \E n \in lines..Len(tty) : tty' = SubSeq(tty, 1, n)
        /\ clean' = FALSE
        /\ UNCHANGED lines
     \/ /\ ~Edits(Head(wire))
        /\ tty' = Append(tty, Head(wire))
        /\ lines' = IF term = "cooked" /\ Head(wire) = NEWLINE_KEY
                      THEN Len(tty) + 1 ELSE lines
        /\ UNCHANGED clean
  /\ UNCHANGED <<ended, typed, ends, buf, term, stored, pc, dec, held, msg,
                 decoded>>

\* A standard input that is redirected ends.
End ==
  /\ ~ended /\ wire = << >>
  /\ ended' = TRUE
  /\ UNCHANGED <<wire, typed, ends, clean, tty, buf, termVars, pc, dec, held,
                 msg, decoded>>

MsgArrives ==
  /\ ~msg
  /\ msg' = TRUE
  /\ UNCHANGED <<keyVars, tty, buf, termVars, pc, dec, held, decoded>>

-----------------------------------------------------------------------------
(* The terminal settings.                                                  *)

SetKeypress == stored' = term /\ term' = "raw" /\ lines' = 0

\* Mutant: the settings stay.
ResetForgotten == UNCHANGED termVars

\* What the terminal holds at the change counts as a line.
ResetKeypress == term' = stored /\ lines' = Len(tty) /\ UNCHANGED stored

-----------------------------------------------------------------------------
(* run.                                                                    *)

Listen ==
  /\ pc = "loop"
  /\ SetKeypress
  /\ pc' = "select"
  /\ UNCHANGED <<keyVars, tty, buf, dec, held, msg, decoded>>

StdinReady == tty # << >> \/ ended

\* readCmd, which calls getChar.
KeyboardTurn ==
  /\ pc = "select" /\ StdinReady
  /\ ResetKeypress
  /\ pc' = "call" /\ dec' = "key"
  /\ UNCHANGED <<keyVars, tty, buf, held, msg, decoded>>

\* Mutant: the sockets come first, and the keyboard after them.
SocketsFirst == TRUE

\* A socket is looked at only when there is nothing on STDIN.
SocketsTurn == ~StdinReady

MessageTurn ==
  /\ pc = "select" /\ msg
  /\ SocketsTurn
  /\ ResetKeypress
  /\ msg' = FALSE
  /\ pc' = "loop"
  /\ UNCHANGED <<keyVars, tty, buf, dec, held, decoded>>

-----------------------------------------------------------------------------
(* getChar and mygetc.                                                     *)

\* mygetc begins.
Mygetc ==
  /\ pc = "call"
  /\ SetKeypress
  /\ pc' = "getc"
  /\ UNCHANGED <<keyVars, tty, buf, dec, held, msg, decoded>>

\* The standard input reads when it has nothing left, and then all there is.
Fill ==
  /\ pc = "getc"
  /\ buf = << >> /\ tty # << >>
  /\ buf' = tty
  /\ tty' = << >>
  /\ UNCHANGED <<keyVars, termVars, pc, dec, held, msg, decoded>>

\* The conversion to a char: (int) MOD_KEY_BEGIN is 561, char(561) is '1'.
Char(n) == n % 256

\* Mutant: the first of the range is left out.
InRangeStrict(b, first, last) == b > Char(first) /\ b <= Char(last)

InRange(b, first, last) == b >= Char(first) /\ b <= Char(last)

\* getChar returns k.
Return(k) ==
  /\ decoded' = Append(decoded, k)
  /\ pc' = IF k = NEWLINE_KEY THEN "command" ELSE "loop"
  /\ UNCHANGED <<dec, held>>

\* Another byte is needed.
ReadNext(d) ==
  /\ dec' = d
  /\ pc' = "call"
  /\ decoded' = Append(decoded, Part)

\* Mutant: control characters are taken as they are.
SimpleUnchecked(b) == b

Simple(b) == IF b \in SimpleKeys \cup Printable THEN b ELSE UNDEFINED_KEY

\* Mutant: an arrow key ends with a dummy, as the others do.
ArrowWithDummy(b) == ReadNext("dummy") /\ held' = b

Arrow(b) == Return(b + ARROW_KEY_FLAG)

\* b is what a read of getChar returns.
Decode(b) ==
  \/ /\ dec = "key"
     /\ IF b = ESC_KEY THEN ReadNext("combo") /\ UNCHANGED held
                       ELSE Return(Simple(b))
  \/ /\ dec = "combo"
     /\ ReadNext(IF b = Char(MOD_KEY_INT) THEN "mod" ELSE "key")
     /\ UNCHANGED held
  \/ /\ dec = "mod"
     /\ IF InRange(b, MOD_KEY_BEGIN, MOD_KEY_END)
          THEN ReadNext("dummy") /\ held' = b
          ELSE IF InRange(b, ARROW_KEY_BEGIN, ARROW_KEY_END)
                 THEN Arrow(b)
                 ELSE Return(UNDEFINED_KEY)
  \/ /\ dec = "dummy"
     /\ Return(IF b = MOD_KEY_DUMMY THEN held + MOD_KEY_FLAG
                                    ELSE UNDEFINED_KEY)

\* mygetc returns a byte.
GetByte ==
  /\ pc = "getc" /\ buf # << >>
  /\ ResetKeypress
  /\ buf' = Tail(buf)
  /\ Decode(Head(buf))
  /\ UNCHANGED <<keyVars, tty, msg>>

\* At the end of the standard input getChar returns INPUT_END_KEY, which
\* readCmdInt ignores, if the read is its first one; the others take what is
\* in a variable that was never written: one of the bytes typed, say.
GetEof ==
  /\ pc = "getc" /\ buf = << >> /\ tty = << >> /\ ended
  /\ ResetKeypress
  /\ \/ /\ dec = "key"
        /\ pc' = "loop"
        /\ UNCHANGED <<dec, held, decoded>>
     \/ /\ dec # "key"
        /\ \E k \in Keys : Decode(Char(k))
  /\ UNCHANGED <<keyVars, tty, buf, msg>>

-----------------------------------------------------------------------------
(* execCmd.                                                                *)

\* send asks for a line, signUp and signIn for words.
CommandAsks ==
  /\ pc = "command"
  /\ pc' \in {"line", "words"}
  /\ UNCHANGED <<keyVars, tty, buf, termVars, dec, held, msg, decoded>>

\* The other commands ask for nothing.
CommandDone ==
  /\ pc \in {"command", "reply"}
  /\ pc' = "loop"
  /\ UNCHANGED <<keyVars, tty, buf, termVars, dec, held, msg, decoded>>

\* Under the user's settings a read gets a line, or what was there when they
\* were restored.
CommandFill ==
  /\ pc \in {"line", "words"} /\ buf = << >>
  /\ \E n \in 1..Len(tty) :
       /\ \/ ended
          \/ n = lines
          \/ n < lines /\ tty[n] = NEWLINE_KEY
       /\ buf' = SubSeq(tty, 1, n)
       /\ tty' = SubSeq(tty, n + 1, Len(tty))
       /\ lines' = IF n < lines THEN lines - n ELSE 0
  /\ UNCHANGED <<keyVars, term, stored, pc, dec, held, msg, decoded>>

\* The newline is the end of it, unless there are not two words before it.
CommandByte ==
  /\ pc \in {"line", "words"} /\ buf # << >>
  /\ \/ Head(buf) = NEWLINE_KEY /\ pc' = "reply"
     \/ (Head(buf) # NEWLINE_KEY \/ pc = "words") /\ UNCHANGED pc
  /\ buf' = Tail(buf)
  /\ decoded' = Append(decoded, Line)
  /\ UNCHANGED <<keyVars, tty, termVars, dec, held, msg>>

CommandEof ==
  /\ pc \in {"line", "words"} /\ buf = << >> /\ tty = << >> /\ ended
  /\ pc' = "reply"
  /\ UNCHANGED <<keyVars, tty, buf, termVars, dec, held, msg, decoded>>

-----------------------------------------------------------------------------
Program ==
  \/ Listen \/ KeyboardTurn \/ MessageTurn
  \/ Mygetc \/ Fill \/ GetByte \/ GetEof
  \/ CommandFill \/ CommandByte \/ CommandEof

Next ==
  \/ \E k \in Keys : Press(k)
  \/ Arrive \/ End \/ MsgArrives
  \/ Program \/ CommandAsks \/ CommandDone

\* The program runs, and bytes reach the terminal.  The user need not press
\* another key, and a command need not get its reply.
Spec == Init /\ [][Next]_vars /\ WF_vars(Program) /\ WF_vars(Arrive)

-----------------------------------------------------------------------------
(* Properties.                                                             *)

\* A key getChar does not know is an UNDEFINED_KEY.
Meant(k) == IF k \in ParseChars THEN k ELSE UNDEFINED_KEY

\* However the bytes arrive, and whatever the program does meanwhile, every
\* key that was pressed is returned by getChar or read by a command, as a
\* whole, once and in order, and getChar returns nothing else; as long as no
\* ESC comes by itself and no key edits what is typed ahead of a command or
\* for it (cmdCharDef.cpp:73-130, cmd.cpp:92, 137-140, 167-170).
DecodedInOrder ==
  clean =>
    /\ \A n \in DOMAIN typed :
         ends[n] <= Len(decoded) => decoded[ends[n]] \in {Meant(typed[n]), Line}
    /\ \A i \in DOMAIN decoded :
         decoded[i] \in ParseChars => \E n \in DOMAIN typed : ends[n] = i

\* The terminal has the user's settings whenever a command runs, a message is
\* printed or the client exits, and those are what is stored: a second
\* set_keypress before a reset would lose them (cmdCharDef.cpp:21-39,
\* client.cpp:385-390).
SettingsAreKept ==
  /\ term = "raw" <=> pc \in {"select", "getc"}
  /\ stored = "cooked"

\* Commands return: the user completes the lines they ask for, and the server
\* answers (when it does, is for CnMessage).
CommandsReturn == []<>(pc \notin Commanding)

\* Keys that wait in the buffer of the standard input, which select() does not
\* see, are read after the next byte arrives, before it is, and however many
\* messages come, with the exceptions of DecodedInOrder: an edit can take that
\* byte back (client.cpp:387-393).
BufferedKeysFollow ==
  CommandsReturn => (buf # << >> /\ tty # << >> ~> buf = << >> \/ ~clean)

\* A message is read although the keyboard comes first, and although getChar
\* blocks between the bytes of a key, while commands return: unless the user
\* presses ESC by itself, or the standard input has ended
\* (client.cpp:391-401).
MessageIsRead == CommandsReturn => (msg ~> ~msg \/ ended \/ ~clean)
=============================================================================
