--------------------------- MODULE KeyboardProofs ---------------------------
(***************************************************************************)
(* Theorems about Keyboard, for any keys and any number of them.           *)
(***************************************************************************)
EXTENDS Keyboard, SequenceTheorems, TLAPS

\* The digit of a key is read before its last byte.
HeldInv == dec = "dummy" => held \in 49..54

KeyInv == TypeOK /\ HeldInv

-----------------------------------------------------------------------------
(* The numbers.                                                            *)

\* The bounds of the ranges, as characters.
LEMMA CharBounds ==
  /\ Char(MOD_KEY_BEGIN) = 49 /\ Char(MOD_KEY_END) = 54
  /\ Char(ARROW_KEY_BEGIN) = 65 /\ Char(ARROW_KEY_END) = 68
  /\ Char(MOD_KEY_INT) = 91
  BY DEF Char, MOD_KEY_BEGIN, MOD_KEY_END, ARROW_KEY_BEGIN, ARROW_KEY_END,
         MOD_KEY_INT, MOD_KEY_FLAG, ARROW_KEY_FLAG

\* What InRange tells of a byte.
LEMMA Ranges ==
  ASSUME NEW b \in Byte
  PROVE  /\ InRange(b, MOD_KEY_BEGIN, MOD_KEY_END) <=> b \in 49..54
         /\ InRange(b, ARROW_KEY_BEGIN, ARROW_KEY_END) <=> b \in 65..68
  BY CharBounds DEF InRange, Byte

\* Every number getChar returns is a ParseChar.
LEMMA ReturnedType ==
  /\ \A b \in Byte : Simple(b) \in ParseChars
  /\ \A b \in 65..68 : b + ARROW_KEY_FLAG \in ParseChars
  /\ \A b \in 49..54 : b + MOD_KEY_FLAG \in ParseChars
  /\ UNDEFINED_KEY \in ParseChars
  /\ Part \notin ParseChars /\ Line \notin ParseChars
  BY DEF Part, Line, SimpleKeys, Printable, UNDEFINED_KEY, LINE_BEGIN_KEY,
         LINE_END_KEY, INPUT_END_KEY, TAB_KEY, NEWLINE_KEY, BACK_SPACE_KEY,
         Simple, ParseChars, ArrowKeys, ModKeys, MOD_KEY_BEGIN, MOD_KEY_END,
         ARROW_KEY_BEGIN, ARROW_KEY_END, MOD_KEY_FLAG, ARROW_KEY_FLAG

\* A terminal sends bytes.
LEMMA EncodedType ==
  ASSUME NEW k \in Keys
  PROVE  Encoded(k) \in Seq(Byte)
<1>1. k \in Byte \/ k \in ArrowKeys \/ k \in ModKeys
  BY KeysAssumption
<1>2. k \in ArrowKeys => k - 256 \in Byte
  BY DEF ArrowKeys, ARROW_KEY_BEGIN, ARROW_KEY_END, ARROW_KEY_FLAG, Byte
<1>3. k \in ModKeys => k - 512 \in Byte
  BY DEF ModKeys, MOD_KEY_BEGIN, MOD_KEY_END, MOD_KEY_FLAG, Byte
<1>4. 91 \in Byte /\ 126 \in Byte /\ ESC_KEY \in Byte
  BY DEF Byte, ESC_KEY
<1> QED BY <1>1, <1>2, <1>3, <1>4 DEF Encoded

\* A key taken as a character is a byte.
LEMMA CharType ==
  ASSUME NEW k \in Keys
  PROVE  Char(k) \in Byte
<1>1. k \in Nat
  BY KeysAssumption
  DEF Byte, ArrowKeys, ModKeys, MOD_KEY_BEGIN, MOD_KEY_END, ARROW_KEY_BEGIN,
      ARROW_KEY_END, MOD_KEY_FLAG, ARROW_KEY_FLAG
<1> QED BY <1>1 DEF Char, Byte

\* Taking the first element off, and the last, leaves a sequence.
LEMMA ShorterSeq ==
  ASSUME NEW S, NEW s \in Seq(S), s # << >>
  PROVE  /\ Tail(s) \in Seq(S) /\ Head(s) \in S
         /\ SubSeq(s, 1, Len(s) - 1) \in Seq(S)
  OBVIOUS

-----------------------------------------------------------------------------
(* Type correctness.                                                       *)

DecVars == <<pc, dec, held, decoded>>

\* The part of the type that getChar changes.
DecType ==
  /\ pc \in {"loop", "select", "call", "getc"} \cup Commanding
  /\ dec \in {"key", "combo", "mod", "dummy"}
  /\ held \in Byte
  /\ decoded \in Seq(ParseChars \cup {Part, Line})
  /\ HeldInv

\* Whatever byte is read, getChar goes on or returns a ParseChar.
LEMMA DecodeType ==
  ASSUME KeyInv, NEW b \in Byte, Decode(b)
  PROVE  DecType' /\ pc' \in {"loop", "call", "command"}
<1> USE DEF Commanding
<1>1. /\ held \in Byte
      /\ Append(decoded, Part) \in Seq(ParseChars \cup {Part, Line})
  BY DEF KeyInv, TypeOK
<1>2. ASSUME NEW k \in ParseChars, Return(k), dec' = dec
      PROVE  DecType' /\ pc' \in {"loop", "call", "command"}
  BY <1>2 DEF Return, DecType, KeyInv, HeldInv, TypeOK
<1>3. CASE dec = "key"
  BY <1>1, <1>2, <1>3, ReturnedType
  DEF Decode, ReadNext, DecType, HeldInv, Return
<1>4. CASE dec = "combo"
  BY <1>1, <1>4 DEF Decode, ReadNext, DecType, HeldInv
<1>5. CASE dec = "mod"
  BY <1>1, <1>2, <1>5, Ranges, ReturnedType
  DEF Decode, ReadNext, Arrow, Return, DecType, HeldInv
<1>6. CASE dec = "dummy"
  BY <1>1, <1>2, <1>6, ReturnedType DEF Decode, Return, KeyInv, HeldInv
<1> QED BY <1>3, <1>4, <1>5, <1>6 DEF Decode

\* Nothing has been pressed or read at first.
LEMMA InitKey == Init => KeyInv
<1> SUFFICES ASSUME Init PROVE KeyInv
  OBVIOUS
<1>1. \A S : << >> \in Seq(S)
  OBVIOUS
<1>2. 0 \in Byte
  BY DEF Byte
<1> QED BY <1>1, <1>2, Zenon DEF Init, KeyInv, TypeOK, HeldInv

\* What the terminal does keeps the types.
LEMMA OutsideType ==
  ASSUME KeyInv,
         \/ \E k \in Keys : Press(k)
         \/ Arrive \/ End \/ MsgArrives
  PROVE  KeyInv'
<1> USE DEF KeyInv, TypeOK, HeldInv, keyVars, termVars, Commanding
<1>1. ASSUME NEW k \in Keys, Press(k) PROVE KeyInv'
  <2>1. typed' \in Seq(Keys)
    BY <1>1 DEF Press
  <2>2. wire' \in Seq(Byte)
    BY <1>1, EncodedType DEF Press
  <2>3. ends' \in Seq(Nat)
    <3>1. Len(Encoded(k)) \in Nat
      BY EncodedType
    <3>2. LastEnd \in Nat
      BY DEF LastEnd
    <3> QED BY <1>1, <3>1, <3>2 DEF Press
  <2> QED BY <1>1, <2>1, <2>2, <2>3 DEF Press
<1>2. CASE Arrive
  <2>1. wire' \in Seq(Byte) /\ Head(wire) \in Byte
    BY <1>2, ShorterSeq DEF Arrive
  <2>2. ASSUME NEW n \in lines..Len(tty), tty' = SubSeq(tty, 1, n),
               UNCHANGED lines
        PROVE  tty' \in Seq(Byte) /\ lines' \in Nat
    <3>1. n \in 0..Len(tty)
      OBVIOUS
    <3> QED BY <2>2, <3>1
  <2>3. ASSUME tty' = Append(tty, Head(wire)), lines' \in {Len(tty) + 1, lines}
        PROVE  tty' \in Seq(Byte) /\ lines' \in Nat
    <3>1. tty' \in Seq(Byte) /\ Len(tty) \in Nat
      BY <2>1, <2>3
    <3> QED BY <2>3, <3>1
  <2>4. tty' \in Seq(Byte) /\ lines' \in Nat
    BY <1>2, <2>2, <2>3 DEF Arrive
  <2>5. clean' \in BOOLEAN
    BY <1>2 DEF Arrive
  <2> QED BY <1>2, <2>1, <2>4, <2>5 DEF Arrive
<1>3. CASE End
  BY <1>3 DEF End
<1>4. CASE MsgArrives
  BY <1>4 DEF MsgArrives
<1> QED BY <1>1, <1>2, <1>3, <1>4

\* What the program does keeps them.
LEMMA ProgramType ==
  ASSUME KeyInv, Program \/ CommandAsks \/ CommandDone
  PROVE  KeyInv'
<1> USE DEF keyVars, termVars, Commanding
<1>0. Len(tty) \in Nat /\ lines \in Nat
  BY DEF KeyInv, TypeOK
<1>1. CASE Listen \/ Mygetc
  BY <1>0, <1>1 DEF Listen, Mygetc, SetKeypress, KeyInv, TypeOK, HeldInv
<1>2. CASE KeyboardTurn \/ MessageTurn
  BY <1>0, <1>2
  DEF KeyboardTurn, MessageTurn, ResetKeypress, KeyInv, TypeOK, HeldInv
<1>3. CASE CommandAsks \/ CommandDone \/ CommandEof
  BY <1>3 DEF CommandAsks, CommandDone, CommandEof, KeyInv, TypeOK, HeldInv
<1>4. CASE Fill
  BY <1>4 DEF Fill, KeyInv, TypeOK, HeldInv
<1>5. CASE GetByte
  <2>1. Head(buf) \in Byte /\ buf' \in Seq(Byte)
    BY <1>5, ShorterSeq DEF GetByte, KeyInv, TypeOK
  <2>2. DecType'
    BY <1>5, <2>1, DecodeType DEF GetByte
  <2> QED BY <1>0, <1>5, <2>1, <2>2
          DEF GetByte, ResetKeypress, KeyInv, TypeOK, DecType, HeldInv
<1>6. CASE GetEof
  <2>1. CASE dec = "key" /\ UNCHANGED <<dec, held, decoded>> /\ pc' = "loop"
    BY <1>0, <1>6, <2>1
    DEF GetEof, ResetKeypress, KeyInv, TypeOK, HeldInv
  <2>2. ASSUME NEW k \in Keys, Decode(Char(k)) PROVE KeyInv'
    <3>1. DecType'
      BY <2>2, CharType, DecodeType
    <3> QED BY <1>0, <1>6, <3>1
            DEF GetEof, ResetKeypress, KeyInv, TypeOK, DecType, HeldInv
  <2> QED BY <1>6, <2>1, <2>2 DEF GetEof
<1>7. CASE CommandByte
  <2>1. buf' \in Seq(Byte)
    BY <1>7, ShorterSeq DEF CommandByte, KeyInv, TypeOK
  <2>2. decoded' \in Seq(ParseChars \cup {Part, Line})
    BY <1>7 DEF CommandByte, KeyInv, TypeOK
  <2>3. pc' \in {"line", "words", "reply"}
    BY <1>7 DEF CommandByte
  <2> QED BY <1>7, <2>1, <2>2, <2>3 DEF CommandByte, KeyInv, TypeOK, HeldInv
<1>8. CASE CommandFill
  <2>1. PICK n \in 1..Len(tty) :
          /\ buf' = SubSeq(tty, 1, n) /\ tty' = SubSeq(tty, n + 1, Len(tty))
          /\ lines' = IF n < lines THEN lines - n ELSE 0
    BY <1>8 DEF CommandFill
  <2>2. buf' \in Seq(Byte) /\ tty' \in Seq(Byte)
    BY <2>1 DEF KeyInv, TypeOK
  <2>3. lines' \in Nat
    BY <1>0, <2>1
  <2> QED BY <1>8, <2>2, <2>3 DEF CommandFill, KeyInv, TypeOK, HeldInv
<1> QED BY <1>1, <1>2, <1>3, <1>4, <1>5, <1>6, <1>7, <1>8 DEF Program

\* So does every step.
LEMMA NextKey == KeyInv /\ [Next]_vars => KeyInv'
<1>1. KeyInv /\ UNCHANGED vars => KeyInv'
  BY DEF vars, keyVars, termVars, KeyInv, TypeOK, HeldInv
<1> QED BY <1>1, OutsideType, ProgramType DEF Next

\* Whatever is pressed, readCmdInt gets nothing but ParseChars: what it would
\* insert in the line is printable.
THEOREM KeyboardTypeCorrect == Spec => []TypeOK
<1>1. KeyInv => TypeOK
  BY DEF KeyInv
<1> QED BY <1>1, InitKey, NextKey, PTL DEF Spec

-----------------------------------------------------------------------------
(* The terminal settings.                                                  *)

\* After a read the program is between two reads.
LEMMA DecodeLeaves ==
  ASSUME NEW b, Decode(b)
  PROVE  pc' \in {"loop", "call", "command"}
  BY DEF Decode, ReadNext, Return, Arrow

\* Each set_keypress is followed by one reset_keypress.
LEMMA NextSettings ==
  ASSUME TypeOK, SettingsAreKept, [Next]_vars
  PROVE  SettingsAreKept'
<1> USE DEF SettingsAreKept, termVars
<1>1. CASE Listen \/ Mygetc
  BY <1>1 DEF TypeOK, Listen, Mygetc, SetKeypress
<1>2. CASE KeyboardTurn \/ MessageTurn
  BY <1>2 DEF KeyboardTurn, MessageTurn, ResetKeypress
<1>3. CASE Fill \/ CommandAsks \/ CommandDone \/ CommandEof
  BY <1>3 DEF Fill, CommandAsks, CommandDone, CommandEof
<1>4. CASE CommandFill \/ CommandByte
  BY <1>4 DEF CommandFill, CommandByte
<1>5. CASE GetByte \/ GetEof
  <2>1. ResetKeypress /\ pc' \in {"loop", "call", "command"}
    BY <1>5, DecodeLeaves DEF GetByte, GetEof
  <2> QED BY <2>1 DEF ResetKeypress
<1>6. CASE \/ \E k \in Keys : Press(k)
           \/ Arrive \/ End \/ MsgArrives
  BY <1>6 DEF Press, Arrive, End, MsgArrives
<1>7. CASE UNCHANGED vars
  BY <1>7 DEF vars
<1> QED BY <1>1, <1>2, <1>3, <1>4, <1>5, <1>6, <1>7 DEF Next, Program

\* Whenever the program is not waiting for a key or a message, the terminal is
\* as the user had it, and so it is when it exits.
THEOREM TerminalGivenBack == Spec => []SettingsAreKept
<1>1. Init => SettingsAreKept
  BY DEF Init, SettingsAreKept
<1>2. KeyInv /\ SettingsAreKept /\ [Next]_vars => SettingsAreKept'
  BY NextSettings DEF KeyInv
<1> QED BY <1>1, <1>2, InitKey, NextKey, PTL DEF Spec

-----------------------------------------------------------------------------
(* Keys are read in order.  Len(decoded) bytes have been read; those that  *)
(* have not are the stream, and ends tells where each key lies in both.    *)

Stream == buf \o tty \o wire

\* The n-th key begins behind this place.
StartOf(n) == ends[n] - Len(Encoded(typed[n]))

\* The keys follow each other without a gap.
Layout ==
  /\ Len(ends) = Len(typed)
  /\ \A n \in DOMAIN typed : StartOf(n) >= 0 /\ ends[n] <= LastEnd
  /\ \A m, n \in DOMAIN typed : m < n => ends[m] <= StartOf(n)
  /\ \A p \in 1..LastEnd :
       \E n \in DOMAIN typed : StartOf(n) < p /\ p <= ends[n]

\* The stream is what the keys have behind the bytes read.
StreamInv ==
  /\ LastEnd = Len(decoded) + Len(Stream)
  /\ \A n \in DOMAIN typed : \A j \in 1..Len(Encoded(typed[n])) :
       StartOf(n) + j > Len(decoded) =>
         Stream[StartOf(n) + j - Len(decoded)] = Encoded(typed[n])[j]

Depth == [key |-> 0, combo |-> 1, mod |-> 2, dummy |-> 3]

\* How many bytes getChar has read of a key.
BytesRead == IF pc \in {"call", "getc"} THEN Depth[dec] ELSE 0

\* What they are.
Begun(k) ==
  /\ BytesRead < Len(Encoded(k))
  /\ BytesRead >= 1 => Encoded(k)[1] = ESC_KEY
  /\ BytesRead >= 2 => Encoded(k)[2] = MOD_KEY_INT
  /\ BytesRead >= 3 => Encoded(k)[3] = held

\* As many bytes have been read as the first keys have.
Boundary ==
  Len(decoded) = 0 \/ \E n \in DOMAIN typed : ends[n] = Len(decoded)

\* getChar is at the beginning of a key, or in the key whose bytes it has; only
\* a command may be within a key without knowing.
PlaceInv ==
  /\ BytesRead > 0 =>
       \E n \in DOMAIN typed :
         Len(decoded) = StartOf(n) + BytesRead /\ Begun(typed[n])
  /\ BytesRead = 0 /\ pc \notin {"line", "words"} => Boundary

OrderInv ==
  /\ Layout
  /\ ended => wire = << >>
  /\ clean => /\ \A n \in DOMAIN typed : typed[n] # ESC_KEY
              /\ StreamInv
              /\ PlaceInv
  /\ DecodedInOrder

\* A key has at least one byte.
LEMMA EncodedLen ==
  ASSUME NEW k \in Keys
  PROVE  /\ Encoded(k) \in Seq(Byte)
         /\ Len(Encoded(k)) \in Nat /\ Len(Encoded(k)) > 0
  BY EncodedType DEF Encoded

\* The sequences are sequences, and the places numbers.
LEMMA OrderTypes ==
  ASSUME TypeOK
  PROVE  /\ buf \in Seq(Byte) /\ tty \in Seq(Byte) /\ wire \in Seq(Byte)
         /\ Stream \in Seq(Byte) /\ buf \o tty \in Seq(Byte)
         /\ typed \in Seq(Keys) /\ ends \in Seq(Nat) /\ LastEnd \in Nat
         /\ Len(decoded) \in Nat /\ BytesRead \in 0..3
<1>1. BytesRead \in 0..3
  BY DEF TypeOK, BytesRead, Depth
<1>2. LastEnd \in Nat
  BY DEF TypeOK, LastEnd
<1> QED BY <1>1, <1>2 DEF TypeOK, Stream

\* Where a key lies.
LEMMA KeyPlace ==
  ASSUME TypeOK, Layout, NEW n \in DOMAIN typed
  PROVE  /\ typed[n] \in Keys /\ n \in Nat
         /\ Len(Encoded(typed[n])) \in Nat /\ Len(Encoded(typed[n])) > 0
         /\ ends[n] \in Nat /\ StartOf(n) \in Nat /\ StartOf(n) < ends[n]
         /\ ends[n] = StartOf(n) + Len(Encoded(typed[n]))
<1>1. typed[n] \in Keys /\ n \in 1..Len(typed) /\ Len(typed) \in Nat
  BY OrderTypes
<1>2. ends[n] \in Nat
  BY <1>1, OrderTypes DEF Layout
<1>3. /\ Len(Encoded(typed[n])) \in Nat /\ Len(Encoded(typed[n])) > 0
  BY <1>1, EncodedLen
<1>4. StartOf(n) >= 0
  BY DEF Layout
<1> DEFINE l == Len(Encoded(typed[n]))
<1>5. StartOf(n) = ends[n] - l
  BY DEF StartOf
<1> HIDE DEF l
<1>6. StartOf(n) \in Nat /\ StartOf(n) < ends[n] /\ ends[n] = StartOf(n) + l
  BY <1>2, <1>3, <1>4, <1>5 DEF l
<1> QED BY <1>1, <1>2, <1>3, <1>6 DEF l

\* A place lies in one key only.
LEMMA OneKey ==
  ASSUME TypeOK, Layout, NEW m \in DOMAIN typed, NEW n \in DOMAIN typed,
         NEW p \in Nat, StartOf(m) < p, p <= ends[m],
         StartOf(n) < p, p <= ends[n]
  PROVE  m = n
<1>1. /\ m \in Nat /\ n \in Nat /\ ends[m] \in Nat /\ ends[n] \in Nat
      /\ StartOf(m) \in Nat /\ StartOf(n) \in Nat
  BY KeyPlace
<1>2. m < n => ends[m] <= StartOf(n)
  BY DEF Layout
<1>3. n < m => ends[n] <= StartOf(m)
  BY DEF Layout
<1> QED BY <1>1, <1>2, <1>3

\* Behind a boundary a key begins.
LEMMA BehindBoundary ==
  ASSUME TypeOK, Layout, Boundary, NEW n \in DOMAIN typed,
         StartOf(n) < Len(decoded) + 1, Len(decoded) + 1 <= ends[n]
  PROVE  Len(decoded) = StartOf(n)
<1> DEFINE D == Len(decoded)
<1>1. /\ D \in Nat /\ n \in Nat /\ ends[n] \in Nat /\ StartOf(n) \in Nat
  BY OrderTypes, KeyPlace
<1>2. ASSUME NEW m \in DOMAIN typed, ends[m] = D PROVE D = StartOf(n)
  <2>1. /\ m \in Nat /\ ends[m] \in Nat /\ StartOf(m) \in Nat
        /\ StartOf(m) < ends[m]
    BY KeyPlace
  <2>2. m < n => ends[m] <= StartOf(n)
    BY DEF Layout
  <2>3. n < m => ends[n] <= StartOf(m)
    BY DEF Layout
  <2>4. m = n => FALSE
    BY <1>1, <1>2
  <2> HIDE DEF D
  <2>5. n < m => FALSE
    BY <1>1, <1>2, <2>1, <2>3 DEF D
  <2> QED BY <1>1, <1>2, <2>1, <2>2, <2>4, <2>5 DEF D
<1>3. D = 0 => D = StartOf(n)
  BY <1>1
<1> QED BY <1>2, <1>3 DEF Boundary

\* The key of which the next byte in the stream is one.
LEMMA NextByte ==
  ASSUME TypeOK, Layout, StreamInv, buf # << >>
  PROVE  /\ Len(decoded) + 1 <= LastEnd
         /\ (Tail(buf) \o tty) \o wire = Tail(Stream) /\ Stream # << >>
         /\ \E n \in DOMAIN typed :
              LET j == Len(decoded) + 1 - StartOf(n)
              IN  /\ StartOf(n) < Len(decoded) + 1
                  /\ Len(decoded) + 1 <= ends[n]
                  /\ j \in 1..Len(Encoded(typed[n]))
                  /\ Head(buf) = Encoded(typed[n])[j]
<1> DEFINE D == Len(decoded)
<1>1. /\ buf \in Seq(Byte) /\ tty \in Seq(Byte) /\ wire \in Seq(Byte)
      /\ D \in Nat /\ LastEnd \in Nat /\ Stream \in Seq(Byte)
  BY OrderTypes
<1>2. /\ Head(buf) \in Byte /\ Tail(buf) \in Seq(Byte)
      /\ buf = <<Head(buf)>> \o Tail(buf)
  BY <1>1
<1>3. Stream = <<Head(buf)>> \o ((Tail(buf) \o tty) \o wire)
  <2>1. <<Head(buf)>> \in Seq(Byte) /\ Tail(buf) \o tty \in Seq(Byte)
    BY <1>1, <1>2
  <2>2. buf \o tty = <<Head(buf)>> \o (Tail(buf) \o tty)
    BY <1>1, <1>2, <2>1, ConcatAssociative
  <2>3. (<<Head(buf)>> \o (Tail(buf) \o tty)) \o wire
          = <<Head(buf)>> \o ((Tail(buf) \o tty) \o wire)
    BY <1>1, <2>1, ConcatAssociative
  <2> QED BY <2>2, <2>3 DEF Stream
<1>4. /\ Stream # << >> /\ Stream[1] = Head(buf) /\ Len(Stream) > 0
      /\ (Tail(buf) \o tty) \o wire = Tail(Stream)
  <2>1. (Tail(buf) \o tty) \o wire \in Seq(Byte)
    BY <1>1, <1>2
  <2>2. ASSUME NEW R \in Seq(Byte), Stream = <<Head(buf)>> \o R
        PROVE  /\ Stream # << >> /\ Stream[1] = Head(buf) /\ Len(Stream) > 0
               /\ R = Tail(Stream)
    BY <1>2, <2>2
  <2> QED BY <1>3, <2>1, <2>2
<1>5. LastEnd = D + Len(Stream)
  BY DEF StreamInv
<1>6. D + 1 <= LastEnd /\ D + 1 \in 1..LastEnd
  BY <1>1, <1>4, <1>5
<1>7. PICK n \in DOMAIN typed : StartOf(n) < D + 1 /\ D + 1 <= ends[n]
  BY <1>6 DEF Layout
<1> DEFINE s == StartOf(n)
           l == Len(Encoded(typed[n]))
           j == D + 1 - s
<1>8. s \in Nat /\ l \in Nat /\ ends[n] = s + l
  BY KeyPlace
<1>9. \A i \in 1..l : s + i > D => Stream[s + i - D] = Encoded(typed[n])[i]
  BY DEF StreamInv
<1>10. s < D + 1 /\ D + 1 <= ends[n]
  BY <1>7
<1> HIDE DEF s, l, D
<1>11. j \in 1..l /\ s + j > D /\ s + j - D = 1
  BY <1>1, <1>8, <1>10 DEF D
<1>12. Head(buf) = Encoded(typed[n])[j]
  BY <1>4, <1>9, <1>11
<1> QED BY <1>4, <1>6, <1>7, <1>11, <1>12 DEF s, l, D

\* After the next byte has been read the rest is the stream.
LEMMA TailStream ==
  ASSUME TypeOK, Layout, StreamInv, buf # << >>, buf' = Tail(buf),
         UNCHANGED <<tty, wire, typed, ends>>,
         NEW d \in ParseChars \cup {Part, Line}, decoded' = Append(decoded, d)
  PROVE  StreamInv'
<1> DEFINE D == Len(decoded)
<1>1. /\ Stream \in Seq(Byte) /\ Stream # << >> /\ Stream' = Tail(Stream)
      /\ D \in Nat /\ LastEnd \in Nat
  BY NextByte, OrderTypes DEF Stream
<1>2. /\ Len(Stream') = Len(Stream) - 1 /\ Len(Stream) \in Nat
      /\ Len(Stream) > 0
      /\ \A i \in 1..Len(Stream') : Stream'[i] = Stream[i + 1]
  BY <1>1, HeadTailProperties
<1>3. Len(decoded') = D + 1
  BY DEF TypeOK
<1>4. LastEnd' = LastEnd /\ \A n \in DOMAIN typed : StartOf(n)' = StartOf(n)
  BY DEF LastEnd, StartOf
<1>5. LastEnd = D + Len(Stream)
  BY DEF StreamInv
<1>6. ASSUME NEW n \in DOMAIN typed, NEW i \in 1..Len(Encoded(typed[n])),
             StartOf(n) + i > D + 1
      PROVE  Stream'[StartOf(n) + i - (D + 1)] = Encoded(typed[n])[i]
  <2> DEFINE s == StartOf(n)
             l == Len(Encoded(typed[n]))
  <2>1. s \in Nat /\ l \in Nat /\ ends[n] = s + l /\ ends[n] <= LastEnd
    BY KeyPlace DEF Layout
  <2>2. i \in 1..l /\ s + i > D + 1
    BY <1>6
  <2>3. s + i > D => Stream[s + i - D] = Encoded(typed[n])[i]
    BY DEF StreamInv
  <2> HIDE DEF s, l, D
  <2>4. s + i - (D + 1) \in 1..Len(Stream')
    BY <1>1, <1>2, <1>5, <2>1, <2>2 DEF D
  <2>5. (s + i - (D + 1)) + 1 = s + i - D /\ s + i > D
    BY <1>1, <2>1, <2>2 DEF D
  <2>6. Stream'[s + i - (D + 1)] = Stream[s + i - D]
    BY <1>2, <2>4, <2>5
  <2> QED BY <2>3, <2>5, <2>6 DEF s, D
<1>7. LastEnd' = Len(decoded') + Len(Stream')
  BY <1>1, <1>2, <1>3, <1>4, <1>5
<1> QED BY <1>3, <1>4, <1>6, <1>7 DEF StreamInv

\* One entry more keeps the order, if it says what it should of the key whose
\* last byte it stands for, and no key else.
LEMMA OneMore ==
  ASSUME TypeOK, Layout, clean, DecodedInOrder,
         UNCHANGED <<typed, ends>>,
         NEW d \in ParseChars \cup {Part, Line}, decoded' = Append(decoded, d),
         \A n \in DOMAIN typed :
           ends[n] = Len(decoded) + 1 => d \in {Meant(typed[n]), Line},
         d \in ParseChars =>
           \E n \in DOMAIN typed : ends[n] = Len(decoded) + 1
  PROVE  DecodedInOrder'
<1> DEFINE D == Len(decoded)
<1>1. D \in Nat /\ decoded \in Seq(ParseChars \cup {Part, Line})
  BY DEF TypeOK
<1>2. /\ Len(decoded') = D + 1 /\ decoded'[D + 1] = d
      /\ \A i \in 1..D : decoded'[i] = decoded[i]
      /\ DOMAIN decoded' = 1..(D + 1) /\ DOMAIN decoded = 1..D
  BY <1>1
<1>3. ASSUME NEW n \in DOMAIN typed, ends[n] <= D + 1
      PROVE  decoded'[ends[n]] \in {Meant(typed[n]), Line}
  <2>1. ends[n] \in Nat /\ ends[n] > 0
    BY KeyPlace
  <2>2. CASE ends[n] = D + 1
    BY <1>2, <2>2
  <2>3. CASE ends[n] \in 1..D
    BY <1>2, <2>3 DEF DecodedInOrder
  <2> QED BY <1>1, <1>3, <2>1, <2>2, <2>3
<1>4. ASSUME NEW i \in 1..(D + 1), decoded'[i] \in ParseChars
      PROVE  \E n \in DOMAIN typed : ends[n] = i
  <2>1. CASE i = D + 1
    BY <1>2, <1>4, <2>1
  <2>2. CASE i \in 1..D
    BY <1>2, <1>4, <2>2 DEF DecodedInOrder
  <2> QED BY <1>1, <2>1, <2>2
<1> QED BY <1>2, <1>3, <1>4 DEF DecodedInOrder

\* What a step keeps that reads no byte.
LEMMA SameOrder ==
  ASSUME TypeOK, OrderInv, ended' => wire' = << >>, clean' => clean,
         UNCHANGED <<typed, ends, decoded, held>>,
         clean' => /\ UNCHANGED <<BytesRead, Stream>>
                   /\ pc' \notin {"line", "words"} =>
                        pc \notin {"line", "words"} \/ Boundary
  PROVE  OrderInv'
<1>1. Layout'
  BY DEF OrderInv, Layout, StartOf, LastEnd
<1>2. DecodedInOrder'
  BY DEF OrderInv, DecodedInOrder
<1> SUFFICES ASSUME clean' PROVE OrderInv'
  BY <1>1, <1>2 DEF OrderInv
<1>3. clean /\ UNCHANGED <<BytesRead, Stream, typed, ends, decoded, held>>
  OBVIOUS
<1>4. StreamInv'
  BY <1>3 DEF OrderInv, StreamInv, StartOf, LastEnd
<1>5. PlaceInv'
  <2>1. \A n \in DOMAIN typed : StartOf(n)' = StartOf(n)
    BY <1>3 DEF StartOf
  <2>2. \A k : Begun(k)' <=> Begun(k)
    BY <1>3 DEF Begun
  <2>3. Boundary' <=> Boundary
    BY <1>3 DEF Boundary
  <2>4. BytesRead' = BytesRead /\ Len(decoded') = Len(decoded) /\ typed' = typed
    BY <1>3
  <2>5. PlaceInv
    BY <1>3 DEF OrderInv
  <2>6. pc' \notin {"line", "words"} => pc \notin {"line", "words"} \/ Boundary
    OBVIOUS
  <2>7. ASSUME BytesRead' > 0
        PROVE  (\E n \in DOMAIN typed :
                  Len(decoded) = StartOf(n) + BytesRead /\ Begun(typed[n]))'
    <3>1. PICK n \in DOMAIN typed :
            Len(decoded) = StartOf(n) + BytesRead /\ Begun(typed[n])
      BY <2>4, <2>5, <2>7 DEF PlaceInv
    <3>2. Begun(typed[n])'
      BY <1>3, <3>1 DEF Begun
    <3> QED BY <2>1, <2>4, <3>1, <3>2
  <2>8. BytesRead' = 0 /\ pc' \notin {"line", "words"} => Boundary'
    BY <2>3, <2>4, <2>5, <2>6 DEF PlaceInv
  <2> QED BY <2>7, <2>8 DEF PlaceInv
<1> QED BY <1>1, <1>2, <1>3, <1>4, <1>5 DEF OrderInv

\* One key more lies behind the others.
LEMMA PressLayout ==
  ASSUME TypeOK, Layout, NEW k \in Keys, Press(k)
  PROVE  /\ Layout'
         /\ LastEnd' = LastEnd + Len(Encoded(k))
         /\ \A n \in DOMAIN typed :
              typed'[n] = typed[n] /\ ends'[n] = ends[n]
              /\ StartOf(n)' = StartOf(n)
         /\ \A n : n = Len(typed) + 1 => typed'[n] = k /\ StartOf(n)' = LastEnd
         /\ DOMAIN typed' = DOMAIN typed \cup {Len(typed) + 1}
<1> DEFINE N == Len(typed)
           l == Len(Encoded(k))
<1>1. /\ typed \in Seq(Keys) /\ ends \in Seq(Nat) /\ N \in Nat
      /\ LastEnd \in Nat /\ Len(ends) = N /\ l \in Nat /\ l > 0
  BY OrderTypes, EncodedLen DEF Layout
<1>2. typed' = Append(typed, k) /\ ends' = Append(ends, LastEnd + l)
  BY DEF Press
<1> HIDE DEF l
<1>3. /\ Len(typed') = N + 1 /\ Len(ends') = N + 1 /\ typed'[N + 1] = k
      /\ ends'[N + 1] = LastEnd + l
      /\ DOMAIN typed' = 1..(N + 1) /\ DOMAIN typed = 1..N
      /\ \A n \in 1..N : typed'[n] = typed[n] /\ ends'[n] = ends[n]
  BY <1>1, <1>2
<1> HIDE DEF N
<1>4. LastEnd' = LastEnd + l
  BY <1>1, <1>3 DEF LastEnd
<1>5. \A n \in 1..N : StartOf(n)' = StartOf(n)
  BY <1>3 DEF StartOf
<1>6. ASSUME NEW n, n = N + 1
      PROVE  StartOf(n)' = LastEnd /\ typed'[n] = k /\ ends'[n] = LastEnd + l
  <2>1. StartOf(n)' = ends'[n] - l
    BY <1>3, <1>6 DEF StartOf, l
  <2>2. ends'[n] = LastEnd + l
    BY <1>3, <1>6
  <2> QED BY <1>1, <1>3, <1>6, <2>1, <2>2
<1>7. DOMAIN typed' = DOMAIN typed \cup {N + 1}
  BY <1>1, <1>3
<1>8. \A n \in 1..N : /\ ends[n] \in Nat /\ StartOf(n) \in Nat
                      /\ StartOf(n) >= 0 /\ ends[n] <= LastEnd
  BY <1>3, KeyPlace DEF Layout
<1>9. ASSUME NEW n \in 1..(N + 1)
      PROVE  StartOf(n)' >= 0 /\ ends'[n] <= LastEnd'
  <2>1. CASE n \in 1..N
    <3>1. StartOf(n)' >= 0
      BY <1>5, <1>8, <2>1
    <3>2. ends'[n] = ends[n] /\ ends[n] \in Nat /\ ends[n] <= LastEnd
      BY <1>3, <1>8, <2>1
    <3>3. ends'[n] <= LastEnd + l
      BY <1>1, <3>2
    <3> QED BY <1>4, <3>1, <3>3
  <2>2. CASE n = N + 1
    BY <1>1, <1>4, <1>6, <2>2
  <2> QED BY <1>1, <2>1, <2>2
<1>10. ASSUME NEW m \in 1..(N + 1), NEW n \in 1..(N + 1), m < n
       PROVE  ends'[m] <= StartOf(n)'
  <2>1. m \in 1..N /\ (n \in 1..N \/ n = N + 1)
    BY <1>1, <1>10
  <2>2. CASE n \in 1..N
    <3>1. ends[m] <= StartOf(n)
      BY <1>3, <1>10, <2>1, <2>2 DEF Layout
    <3> QED BY <1>3, <1>5, <2>1, <2>2, <3>1
  <2>3. CASE n = N + 1
    <3>1. StartOf(n)' = LastEnd
      BY <1>6, <2>3
    <3> QED BY <1>3, <1>8, <2>1, <3>1
  <2> QED BY <2>1, <2>2, <2>3
<1>11. ASSUME NEW p \in 1..LastEnd'
       PROVE  \E n \in 1..(N + 1) : StartOf(n)' < p /\ p <= ends'[n]
  <2>1. p \in 1..LastEnd \/ (LastEnd < p /\ p <= LastEnd + l)
    BY <1>1, <1>4
  <2>2. CASE p \in 1..LastEnd
    <3>1. PICK n \in 1..N : StartOf(n) < p /\ p <= ends[n]
      BY <1>3, <2>2 DEF Layout
    <3>2. n \in 1..(N + 1) /\ StartOf(n)' < p /\ p <= ends'[n]
      BY <1>1, <1>3, <1>5, <3>1
    <3> QED BY <3>2
  <2>3. CASE LastEnd < p /\ p <= LastEnd + l
    <3>1. PICK n : n = N + 1
      OBVIOUS
    <3>2. n \in 1..(N + 1) /\ StartOf(n)' < p /\ p <= ends'[n]
      BY <1>1, <1>4, <1>6, <2>3, <3>1
    <3> QED BY <3>2
  <2> QED BY <2>1, <2>2, <2>3
<1>12. Layout'
  BY <1>3, <1>9, <1>10, <1>11 DEF Layout
<1> QED BY <1>3, <1>4, <1>5, <1>6, <1>7, <1>12 DEF N, l

\* One key more to come.
LEMMA PressOrder ==
  ASSUME TypeOK, OrderInv, NEW k \in Keys, Press(k)
  PROVE  OrderInv'
<1> DEFINE N == Len(typed)
           D == Len(decoded)
           l == Len(Encoded(k))
<1>1. ~ended /\ UNCHANGED <<ended, decoded, pc, dec, held, buf, tty>>
      /\ (clean' => clean /\ k # ESC_KEY)
  BY DEF Press
<1>2. /\ Layout' /\ Layout /\ LastEnd' = LastEnd + l
      /\ \A n \in DOMAIN typed :
           /\ typed'[n] = typed[n] /\ ends'[n] = ends[n]
           /\ StartOf(n)' = StartOf(n)
      /\ \A n : n = N + 1 => typed'[n] = k /\ StartOf(n)' = LastEnd
      /\ DOMAIN typed' = DOMAIN typed \cup {N + 1}
  BY PressLayout DEF OrderInv
<1>3. ~ended'
  BY <1>1
<1> SUFFICES ASSUME clean' PROVE OrderInv'
  BY <1>2, <1>3 DEF OrderInv, DecodedInOrder
<1>4. /\ \A n \in DOMAIN typed : typed[n] # ESC_KEY
      /\ StreamInv /\ PlaceInv /\ DecodedInOrder /\ k # ESC_KEY
      /\ clean
  BY <1>1 DEF OrderInv
<1>5. UNCHANGED BytesRead /\ decoded' = decoded /\ pc' = pc
  BY <1>1 DEF BytesRead
<1>6. Stream' = Stream \o Encoded(k)
  <2>1. /\ wire' = wire \o Encoded(k) /\ Encoded(k) \in Seq(Byte)
        /\ wire \in Seq(Byte) /\ buf \o tty \in Seq(Byte)
    BY EncodedType, OrderTypes DEF Press
  <2>2. ASSUME NEW a \in Seq(Byte), NEW b \in Seq(Byte), NEW c \in Seq(Byte)
        PROVE  (a \o b) \o c = a \o (b \o c)
    BY ConcatAssociative
  <2>3. ((buf \o tty) \o wire) \o Encoded(k)
          = (buf \o tty) \o (wire \o Encoded(k))
    BY <2>1, <2>2, Zenon
  <2> QED BY <1>1, <2>1, <2>3 DEF Stream
<1>7. /\ D \in Nat /\ LastEnd \in Nat /\ Stream \in Seq(Byte) /\ N \in Nat
      /\ l \in Nat /\ l > 0 /\ Encoded(k) \in Seq(Byte)
  BY OrderTypes, EncodedLen
<1>8. /\ Len(Stream') = Len(Stream) + l /\ Len(Stream) \in Nat
      /\ \A i \in 1..Len(Stream) : Stream'[i] = Stream[i]
      /\ \A i \in 1..l : Stream'[Len(Stream) + i] = Encoded(k)[i]
  BY <1>6, <1>7
<1>9. LastEnd = D + Len(Stream)
  BY <1>4 DEF StreamInv
<1>10. N + 1 \notin DOMAIN typed
  BY OrderTypes
<1>11. \A n \in DOMAIN typed' : typed'[n] # ESC_KEY
  BY <1>2, <1>4
<1>12. StreamInv'
  <2>1. ASSUME NEW n \in DOMAIN typed, NEW i \in 1..Len(Encoded(typed[n])),
               StartOf(n) + i > D
        PROVE  Stream'[StartOf(n) + i - D] = Encoded(typed[n])[i]
    <3> DEFINE s == StartOf(n)
               e == Len(Encoded(typed[n]))
    <3>1. s \in Nat /\ e \in Nat /\ ends[n] = s + e /\ ends[n] <= LastEnd
      BY <1>2, KeyPlace DEF Layout
    <3>2. i \in 1..e /\ s + i > D /\ Stream[s + i - D] = Encoded(typed[n])[i]
      BY <1>4, <2>1 DEF StreamInv
    <3> HIDE DEF s, e, D
    <3>3. D \in Nat /\ Len(Stream) \in Nat /\ LastEnd = D + Len(Stream)
      BY <1>7, <1>8, <1>9 DEF D
    <3>4. i \in Int /\ 1 <= i /\ i <= e
      BY <3>1, <3>2
    <3>5. s + i - D \in 1..Len(Stream)
      BY <3>1, <3>2, <3>3, <3>4
    <3> QED BY <1>8, <3>2, <3>5 DEF s, D
  <2>2. ASSUME NEW i \in 1..l
        PROVE  Stream'[LastEnd + i - D] = Encoded(k)[i]
    <3> HIDE DEF l, D
    <3>1. LastEnd + i - D = Len(Stream) + i
      BY <1>7, <1>8, <1>9 DEF D
    <3> QED BY <1>8, <3>1
  <2>3. LastEnd' = D + Len(Stream')
    BY <1>2, <1>7, <1>8, <1>9
  <2>4. ASSUME NEW n \in DOMAIN typed',
               NEW i \in 1..Len(Encoded(typed'[n])), StartOf(n)' + i > D
        PROVE  Stream'[StartOf(n)' + i - D] = Encoded(typed'[n])[i]
    <3>1. CASE n \in DOMAIN typed
      BY <1>2, <2>1, <2>4, <3>1
    <3>2. CASE n = N + 1
      BY <1>2, <2>2, <2>4, <3>2
    <3> QED BY <1>2, <3>1, <3>2
  <2> QED BY <1>5, <2>3, <2>4 DEF StreamInv
<1>13. PlaceInv'
  <2>1. ASSUME BytesRead > 0
        PROVE  (\E n \in DOMAIN typed :
                  Len(decoded) = StartOf(n) + BytesRead /\ Begun(typed[n]))'
    <3>1. PICK n \in DOMAIN typed :
            D = StartOf(n) + BytesRead /\ Begun(typed[n])
      BY <1>4, <2>1 DEF PlaceInv
    <3>2. n \in DOMAIN typed' /\ Begun(typed[n])'
      BY <1>1, <1>2, <1>5, <3>1 DEF Begun
    <3> QED BY <1>2, <1>5, <3>1, <3>2
  <2>2. Boundary => Boundary'
    BY <1>2, <1>5 DEF Boundary
  <2> QED BY <1>4, <1>5, <2>1, <2>2 DEF PlaceInv
<1>14. DecodedInOrder'
  <2>1. ends'[N + 1] > D
    <3>1. ends'[N + 1] = LastEnd + l
      BY <1>2, OrderTypes DEF Press, Layout
    <3> QED BY <1>7, <1>8, <1>9, <3>1
  <2>2. ASSUME NEW n \in DOMAIN typed', ends'[n] <= D
        PROVE  decoded[ends'[n]] \in {Meant(typed'[n]), Line}
    <3>1. ends'[N + 1] \in Nat
      <4>1. ends'[N + 1] = LastEnd + l
        BY <1>2, OrderTypes DEF Press, Layout
      <4> QED BY <1>7, <4>1
    <3>2. n # N + 1
      BY <1>7, <2>1, <2>2, <3>1
    <3>3. n \in DOMAIN typed
      BY <1>2, <3>2
    <3> QED BY <1>2, <1>4, <2>2, <3>3 DEF DecodedInOrder
  <2>3. \A i \in DOMAIN decoded :
          decoded[i] \in ParseChars => \E n \in DOMAIN typed' : ends'[n] = i
    BY <1>2, <1>4 DEF DecodedInOrder
  <2> QED BY <1>5, <2>2, <2>3 DEF DecodedInOrder
<1> QED BY <1>2, <1>3, <1>11, <1>12, <1>13, <1>14 DEF OrderInv

\* Bytes that go from the wire to the terminal, or on to the buffer.
LEMMA MovedOrder ==
  ASSUME TypeOK, OrderInv, Arrive \/ Fill \/ CommandFill
  PROVE  OrderInv'
<1>1. UNCHANGED <<typed, ends, decoded, held, ended, pc, dec>>
  BY DEF Arrive, Fill, CommandFill, keyVars
<1>2. UNCHANGED BytesRead
  BY <1>1 DEF BytesRead
<1>3. buf \in Seq(Byte) /\ tty \in Seq(Byte) /\ wire \in Seq(Byte)
  BY OrderTypes
<1>4. CASE Arrive
  <2>1. ended' => wire' = << >>
    BY <1>4, <1>1 DEF Arrive, OrderInv
  <2>2. clean' => clean
    BY <1>4 DEF Arrive
  <2>3. ASSUME clean' PROVE UNCHANGED Stream
    <3>1. /\ tty' = Append(tty, Head(wire)) /\ wire' = Tail(wire)
          /\ wire # << >> /\ buf' = buf
      BY <1>4, <2>3 DEF Arrive
    <3>4. tty' = tty \o <<Head(wire)>> /\ <<Head(wire)>> \in Seq(Byte)
          /\ Tail(wire) \in Seq(Byte) /\ <<Head(wire)>> \o Tail(wire) = wire
      BY <1>3, <3>1, HeadTailAppend, AppendIsConcat
    <3> DEFINE h == <<Head(wire)>>
               t == Tail(wire)
    <3>2. /\ tty' = tty \o h /\ wire' = t /\ h \o t = wire
          /\ h \in Seq(Byte) /\ t \in Seq(Byte)
      BY <3>1, <3>4
    <3> HIDE DEF h, t
    <3>6. ASSUME NEW a \in Seq(Byte), NEW b \in Seq(Byte), NEW c \in Seq(Byte)
          PROVE  (a \o b) \o c = a \o (b \o c)
      BY ConcatAssociative
    <3>7. (buf \o tty) \o h = buf \o (tty \o h) /\ buf \o tty \in Seq(Byte)
      BY <1>3, <3>2, <3>6
    <3>8. ((buf \o tty) \o h) \o t = (buf \o tty) \o (h \o t)
      BY <3>2, <3>6, <3>7, Zenon
    <3>3. (buf \o (tty \o h)) \o t = (buf \o tty) \o (h \o t)
      BY <3>7, <3>8
    <3> QED BY <3>1, <3>2, <3>3 DEF Stream
  <2> QED BY <1>1, <1>2, <2>1, <2>2, <2>3, SameOrder
<1>5. CASE Fill
  <2>1. UNCHANGED <<wire, clean>>
    BY <1>5 DEF Fill, keyVars
  <2>2. UNCHANGED Stream
    <3>1. << >> \o tty = tty /\ tty \o << >> = tty
      BY <1>3
    <3> QED BY <1>5, <2>1, <3>1 DEF Fill, Stream
  <2> QED BY <1>1, <1>2, <2>1, <2>2, SameOrder DEF OrderInv
<1>6. CASE CommandFill
  <2>1. UNCHANGED <<wire, clean>> /\ buf = << >>
    BY <1>6 DEF CommandFill, keyVars
  <2>2. PICK n \in 1..Len(tty) :
          buf' = SubSeq(tty, 1, n) /\ tty' = SubSeq(tty, n + 1, Len(tty))
    BY <1>6 DEF CommandFill
  <2>3. SubSeq(tty, 1, n) \o SubSeq(tty, n + 1, Len(tty)) = tty
    BY <1>3
  <2>4. << >> \o tty = tty
    BY <1>3
  <2>5. UNCHANGED Stream
    BY <2>1, <2>2, <2>3, <2>4 DEF Stream
  <2> QED BY <1>1, <1>2, <2>1, <2>5, SameOrder DEF OrderInv
<1> QED BY <1>4, <1>5, <1>6

\* The bytes of a key tell how many they are.
LEMMA KeyBytes ==
  ASSUME NEW k \in Keys
  PROVE  \/ k \in Byte /\ Len(Encoded(k)) = 1 /\ Encoded(k)[1] = k
         \/ /\ k \in ArrowKeys /\ Len(Encoded(k)) = 3
            /\ Encoded(k)[1] = ESC_KEY /\ Encoded(k)[2] = 91
            /\ Encoded(k)[3] = k - 256 /\ k - 256 \in 65..68
         \/ /\ k \in ModKeys /\ Len(Encoded(k)) = 4
            /\ Encoded(k)[1] = ESC_KEY /\ Encoded(k)[2] = 91
            /\ Encoded(k)[3] = k - 512 /\ k - 512 \in 49..54
            /\ Encoded(k)[4] = 126
<1> USE DEF ARROW_KEY_BEGIN, ARROW_KEY_END, ARROW_KEY_FLAG,
            MOD_KEY_BEGIN, MOD_KEY_END, MOD_KEY_FLAG
<1>1. CASE k \in ArrowKeys
  <2>1. Encoded(k) = <<ESC_KEY, 91, k - 256>>
    BY <1>1 DEF Encoded
  <2>2. k - 256 \in 65..68
    BY <1>1 DEF ArrowKeys
  <2> QED BY <1>1, <2>1, <2>2
<1>2. CASE k \in ModKeys
  <2>1. k \notin ArrowKeys /\ k - 512 \in 49..54
    BY <1>2 DEF ArrowKeys, ModKeys
  <2>2. Encoded(k) = <<ESC_KEY, 91, k - 512, 126>>
    BY <1>2, <2>1 DEF Encoded
  <2> QED BY <1>2, <2>1, <2>2
<1>3. CASE k \in Byte
  <2>1. k \notin ArrowKeys /\ k \notin ModKeys
    BY <1>3 DEF ArrowKeys, ModKeys, Byte
  <2>2. Encoded(k) = <<k>>
    BY <2>1 DEF Encoded
  <2> QED BY <1>3, <2>2
<1> QED BY <1>1, <1>2, <1>3, KeysAssumption

\* No byte of a key of three or four bytes is a newline.
LEMMA LongKeys ==
  ASSUME NEW k \in Keys
  PROVE  /\ Len(Encoded(k)) = 3 => \A i \in {1, 2, 3} : Encoded(k)[i] # 10
         /\ Len(Encoded(k)) = 4 => \A i \in {1, 2, 3, 4} : Encoded(k)[i] # 10
<1>0. ESC_KEY # 10
  BY DEF ESC_KEY
<1>1. CASE k \in Byte /\ Len(Encoded(k)) = 1
  BY <1>1
<1>2. CASE /\ Len(Encoded(k)) = 3
           /\ Encoded(k)[1] = ESC_KEY /\ Encoded(k)[2] = 91
           /\ Encoded(k)[3] = k - 256 /\ k - 256 \in 65..68
  <2>1. Encoded(k)[3] # 10
    BY <1>2
  <2> QED BY <1>0, <1>2, <2>1
<1>3. CASE /\ Len(Encoded(k)) = 4
           /\ Encoded(k)[1] = ESC_KEY /\ Encoded(k)[2] = 91
           /\ Encoded(k)[3] = k - 512 /\ k - 512 \in 49..54
           /\ Encoded(k)[4] = 126
  <2>1. Encoded(k)[3] # 10
    BY <1>3
  <2> QED BY <1>0, <1>3, <2>1
<1> QED BY <1>1, <1>2, <1>3, KeyBytes

\* One more byte of a key: getChar needs another one, or returns the key.
LEMMA DecodeKey ==
  ASSUME TypeOK, pc = "getc", NEW k \in Keys, k # ESC_KEY,
         BytesRead < Len(Encoded(k)), BytesRead > 0 => Begun(k),
         Decode(Encoded(k)[BytesRead + 1])
  PROVE  \/ /\ BytesRead' = BytesRead + 1 /\ decoded' = Append(decoded, Part)
            /\ BytesRead + 1 < Len(Encoded(k)) /\ Begun(k)'
         \/ /\ BytesRead' = 0 /\ decoded' = Append(decoded, Meant(k))
            /\ BytesRead + 1 = Len(Encoded(k))
<1> DEFINE b == Encoded(k)[BytesRead + 1]
<1>1. BytesRead = Depth[dec]
  BY DEF BytesRead
<1>2. ASSUME NEW d \in {"combo", "mod", "dummy"}, ReadNext(d)
      PROVE  BytesRead' = Depth[d] /\ decoded' = Append(decoded, Part)
  BY <1>2 DEF ReadNext, BytesRead
<1>3. ASSUME NEW r, Return(r)
      PROVE  BytesRead' = 0 /\ decoded' = Append(decoded, r)
  BY <1>3 DEF Return, BytesRead
<1>4. CASE dec = "key"
  <2>1. BytesRead = 0 /\ b = Encoded(k)[1]
    BY <1>1, <1>4 DEF Depth
  <2>2. \/ b = ESC_KEY /\ ReadNext("combo")
        \/ b # ESC_KEY /\ Return(Simple(b))
    BY <1>4 DEF Decode
  <2>3. CASE b = ESC_KEY /\ ReadNext("combo")
    <3>1. Len(Encoded(k)) > 1 /\ Encoded(k)[1] = ESC_KEY
      BY <2>1, <2>3, KeyBytes
    <3>2. BytesRead' = 1 /\ decoded' = Append(decoded, Part)
      BY <1>2, <2>3 DEF Depth
    <3> QED BY <2>1, <3>1, <3>2 DEF Begun
  <2>4. CASE b # ESC_KEY /\ Return(Simple(b))
    <3>1. k \in Byte /\ Len(Encoded(k)) = 1 /\ b = k
      BY <2>1, <2>4, KeyBytes
    <3>2. Simple(b) = Meant(k)
      BY <3>1 DEF Simple, Meant, ParseChars, Byte, ArrowKeys, ModKeys,
                  ARROW_KEY_BEGIN, ARROW_KEY_END, ARROW_KEY_FLAG,
                  MOD_KEY_BEGIN, MOD_KEY_END, MOD_KEY_FLAG, UNDEFINED_KEY
    <3> QED BY <1>3, <2>1, <2>4, <3>1, <3>2
  <2> QED BY <2>2, <2>3, <2>4
<1>5. CASE dec = "combo"
  <2>1. BytesRead = 1 /\ b = Encoded(k)[2] /\ Encoded(k)[1] = ESC_KEY
    BY <1>1, <1>5 DEF Depth, Begun
  <2>2. b = 91 /\ Len(Encoded(k)) > 2
    BY <2>1, KeyBytes
  <2>3. ReadNext("mod")
    BY <1>5, <2>2, CharBounds DEF Decode
  <2>4. BytesRead' = 2 /\ decoded' = Append(decoded, Part)
    BY <1>2, <2>3 DEF Depth
  <2> QED BY <2>1, <2>2, <2>4 DEF Begun, MOD_KEY_INT
<1>6. CASE dec = "mod"
  <2>1. BytesRead = 2 /\ b = Encoded(k)[3] /\ Encoded(k)[1] = ESC_KEY
        /\ Encoded(k)[2] = MOD_KEY_INT
    BY <1>1, <1>6 DEF Depth, Begun
  <2>2. CASE k \in ModKeys /\ Len(Encoded(k)) = 4 /\ b = k - 512
             /\ b \in 49..54
    <3>1. ReadNext("dummy") /\ held' = b
      BY <1>6, <2>2, Ranges DEF Decode, Byte
    <3>2. BytesRead' = 3 /\ decoded' = Append(decoded, Part)
      BY <1>2, <3>1 DEF Depth
    <3> QED BY <2>1, <2>2, <3>1, <3>2 DEF Begun
  <2>3. CASE k \in ArrowKeys /\ Len(Encoded(k)) = 3 /\ b = k - 256
             /\ b \in 65..68
    <3>1. Arrow(b)
      BY <1>6, <2>3, Ranges DEF Decode, Byte
    <3>2. b + ARROW_KEY_FLAG = k /\ Meant(k) = k
      BY <2>3 DEF ArrowKeys, ARROW_KEY_BEGIN, ARROW_KEY_END, ARROW_KEY_FLAG,
                  Meant, ParseChars
    <3>3. Return(k)
      BY <3>1, <3>2 DEF Arrow
    <3> QED BY <1>3, <2>1, <2>3, <3>2, <3>3
  <2> QED BY <2>1, <2>2, <2>3, KeyBytes
<1>7. CASE dec = "dummy"
  <2>1. BytesRead = 3 /\ b = Encoded(k)[4] /\ Encoded(k)[3] = held
    BY <1>1, <1>7 DEF Depth, Begun
  <2>2. /\ k \in ModKeys /\ Len(Encoded(k)) = 4 /\ b = 126
        /\ held = k - 512
    BY <2>1, KeyBytes
  <2>3. held + MOD_KEY_FLAG = k /\ Meant(k) = k
    BY <2>2 DEF ModKeys, MOD_KEY_BEGIN, MOD_KEY_END, MOD_KEY_FLAG, Meant,
                ParseChars
  <2>4. Return(k)
    BY <1>7, <2>2, <2>3 DEF Decode, MOD_KEY_DUMMY
  <2> QED BY <1>3, <2>1, <2>2, <2>3, <2>4
<1> QED BY <1>4, <1>5, <1>6, <1>7 DEF TypeOK

\* A byte that getChar reads.
LEMMA GetByteOrder ==
  ASSUME TypeOK, OrderInv, GetByte
  PROVE  OrderInv'
<1> DEFINE D == Len(decoded)
<1>1. UNCHANGED <<wire, tty, ended, typed, ends, clean>> /\ buf' = Tail(buf)
      /\ pc = "getc" /\ buf # << >> /\ Decode(Head(buf))
      /\ pc' \in {"loop", "call", "command"}
  BY DecodeLeaves DEF GetByte, keyVars
<1>2. Layout' /\ Layout
  BY <1>1 DEF OrderInv, Layout, StartOf, LastEnd
<1> SUFFICES ASSUME clean PROVE OrderInv'
  BY <1>1, <1>2 DEF OrderInv, DecodedInOrder
<1>3. /\ \A n \in DOMAIN typed : typed[n] # ESC_KEY
      /\ StreamInv /\ PlaceInv /\ DecodedInOrder
  BY DEF OrderInv
<1>4. PICK n \in DOMAIN typed :
        LET j == D + 1 - StartOf(n)
        IN  /\ StartOf(n) < D + 1 /\ D + 1 <= ends[n]
            /\ j \in 1..Len(Encoded(typed[n]))
            /\ Head(buf) = Encoded(typed[n])[j]
  BY <1>1, <1>2, <1>3, NextByte
<1> DEFINE k == typed[n]
           s == StartOf(n)
<1>5. /\ k \in Keys /\ k # ESC_KEY /\ s \in Nat /\ D \in Nat
      /\ Len(Encoded(k)) \in Nat /\ ends[n] = s + Len(Encoded(k))
      /\ BytesRead \in 0..3
  BY <1>2, <1>3, KeyPlace, OrderTypes
<1>6. D = s + BytesRead /\ BytesRead < Len(Encoded(k))
      /\ (BytesRead > 0 => Begun(k))
  <2>1. CASE BytesRead = 0
    <3>1. Boundary
      BY <1>1, <1>3, <2>1 DEF PlaceInv
    <3>2. D = s
      BY <1>2, <1>4, <3>1, BehindBoundary
    <3> QED BY <1>4, <1>5, <2>1, <3>2
  <2>2. CASE BytesRead > 0
    <3>1. PICK m \in DOMAIN typed :
            D = StartOf(m) + BytesRead /\ Begun(typed[m])
      BY <1>3, <2>2 DEF PlaceInv
    <3>2. /\ StartOf(m) \in Nat /\ Len(Encoded(typed[m])) \in Nat
          /\ ends[m] = StartOf(m) + Len(Encoded(typed[m]))
      BY <1>2, KeyPlace
    <3>3. BytesRead < Len(Encoded(typed[m]))
      BY <3>1 DEF Begun
    <3>4. StartOf(m) < D + 1 /\ D + 1 <= ends[m] /\ D + 1 \in Nat
      BY <1>5, <3>1, <3>2, <3>3
    <3>5. StartOf(n) < D + 1 /\ D + 1 <= ends[n]
      BY <1>4
    <3>6. m = n
      BY <1>2, <3>4, <3>5, OneKey
    <3> QED BY <3>1, <3>3, <3>6
  <2> QED BY <1>5, <2>1, <2>2
<1>7. Decode(Encoded(k)[BytesRead + 1])
  <2>1. D + 1 - s = BytesRead + 1
    BY <1>5, <1>6
  <2> QED BY <1>1, <1>4, <2>1
<1>8. \/ /\ BytesRead' = BytesRead + 1 /\ decoded' = Append(decoded, Part)
         /\ BytesRead + 1 < Len(Encoded(k)) /\ Begun(k)'
      \/ /\ BytesRead' = 0 /\ decoded' = Append(decoded, Meant(k))
         /\ BytesRead + 1 = Len(Encoded(k))
  BY <1>1, <1>5, <1>6, <1>7, DecodeKey
<1>9. ASSUME NEW m \in DOMAIN typed, ends[m] = D + 1 PROVE m = n
  <2>1. StartOf(m) \in Nat /\ ends[m] \in Nat /\ StartOf(m) < ends[m]
    BY <1>2, KeyPlace
  <2>2. StartOf(m) < D + 1 /\ D + 1 <= ends[m] /\ D + 1 \in Nat
    BY <1>5, <1>9, <2>1
  <2>3. StartOf(n) < D + 1 /\ D + 1 <= ends[n]
    BY <1>4
  <2> QED BY <1>2, <2>2, <2>3, OneKey
<1>10. Meant(k) \in ParseChars /\ Part \notin ParseChars
  BY ReturnedType DEF Meant
<1>11. \A m \in DOMAIN typed : StartOf(m)' = StartOf(m)
  BY <1>1 DEF StartOf
<1>12. CASE /\ BytesRead' = BytesRead + 1 /\ decoded' = Append(decoded, Part)
            /\ BytesRead + 1 < Len(Encoded(k)) /\ Begun(k)'
  <2>1. StreamInv'
    BY <1>1, <1>2, <1>3, <1>12, TailStream
  <2>2. \A m \in DOMAIN typed : ends[m] # D + 1
    BY <1>5, <1>6, <1>9, <1>12
  <2>3. DecodedInOrder'
    BY <1>1, <1>2, <1>3, <1>10, <1>12, <2>2, OneMore
  <2>4. PlaceInv'
    <3>1. Len(decoded') = D + 1
      BY <1>12 DEF TypeOK
    <3>2. n \in DOMAIN typed' /\ Begun(typed[n])'
      BY <1>1, <1>12 DEF Begun
    <3>3. Len(decoded') = StartOf(n)' + BytesRead' /\ BytesRead' > 0
      BY <1>5, <1>6, <1>11, <1>12, <3>1
    <3> QED BY <3>2, <3>3 DEF PlaceInv
  <2> QED BY <1>1, <1>2, <1>3, <2>1, <2>3, <2>4 DEF OrderInv
<1>13. CASE /\ BytesRead' = 0 /\ decoded' = Append(decoded, Meant(k))
            /\ BytesRead + 1 = Len(Encoded(k))
  <2>1. StreamInv'
    BY <1>1, <1>2, <1>3, <1>10, <1>13, TailStream
  <2>2. ends[n] = D + 1
    BY <1>5, <1>6, <1>13
  <2>3. DecodedInOrder'
    BY <1>1, <1>2, <1>3, <1>9, <1>10, <1>13, <2>2, OneMore
  <2>4. PlaceInv'
    <3>1. Len(decoded') = D + 1
      BY <1>13 DEF TypeOK
    <3>2. Boundary'
      BY <1>1, <2>2, <3>1 DEF Boundary
    <3> QED BY <1>13, <3>2 DEF PlaceInv
  <2> QED BY <1>1, <1>2, <1>3, <2>1, <2>3, <2>4 DEF OrderInv
<1> QED BY <1>8, <1>12, <1>13

\* A byte that a command reads.  Its newline is a key.
LEMMA CommandByteOrder ==
  ASSUME TypeOK, OrderInv, CommandByte
  PROVE  OrderInv'
<1> DEFINE D == Len(decoded)
<1>1. /\ UNCHANGED <<wire, tty, ended, typed, ends, clean>>
      /\ buf' = Tail(buf) /\ buf # << >> /\ pc \in {"line", "words"}
      /\ decoded' = Append(decoded, Line)
      /\ (pc' = pc \/ (Head(buf) = NEWLINE_KEY /\ pc' = "reply"))
  BY DEF CommandByte, keyVars
<1>2. Layout' /\ Layout
  BY <1>1 DEF OrderInv, Layout, StartOf, LastEnd
<1> SUFFICES ASSUME clean PROVE OrderInv'
  BY <1>1, <1>2 DEF OrderInv, DecodedInOrder
<1>3. /\ \A n \in DOMAIN typed : typed[n] # ESC_KEY
      /\ StreamInv /\ PlaceInv /\ DecodedInOrder
  BY DEF OrderInv
<1>4. StreamInv'
  BY <1>1, <1>2, <1>3, TailStream
<1>5. DecodedInOrder'
  BY <1>1, <1>2, <1>3, ReturnedType, OneMore
<1>6. BytesRead' = 0
  BY <1>1 DEF BytesRead
<1>7. ASSUME Head(buf) = NEWLINE_KEY PROVE Boundary'
  <2>1. PICK n \in DOMAIN typed :
          LET j == D + 1 - StartOf(n)
          IN  /\ StartOf(n) < D + 1 /\ D + 1 <= ends[n]
              /\ j \in 1..Len(Encoded(typed[n]))
              /\ Head(buf) = Encoded(typed[n])[j]
    BY <1>1, <1>2, <1>3, NextByte
  <2> DEFINE k == typed[n]
             s == StartOf(n)
             j == D + 1 - s
  <2>2. /\ k \in Keys /\ s \in Nat /\ D \in Nat
        /\ ends[n] = s + Len(Encoded(k)) /\ Len(Encoded(k)) \in Nat
    BY <1>2, KeyPlace, OrderTypes
  <2>3. j \in 1..Len(Encoded(k)) /\ Encoded(k)[j] = 10
    BY <1>7, <2>1 DEF NEWLINE_KEY
  <2> HIDE DEF j
  <2>4. Len(Encoded(k)) = 1
    <3>1. Len(Encoded(k)) = 3 => j \in {1, 2, 3}
      BY <2>3
    <3>2. Len(Encoded(k)) = 4 => j \in {1, 2, 3, 4}
      BY <2>3
    <3>6. Len(Encoded(k)) # 3
      BY <2>2, <2>3, <3>1, LongKeys
    <3>7. Len(Encoded(k)) # 4
      BY <2>2, <2>3, <3>2, LongKeys
    <3> QED BY <2>2, <3>6, <3>7, KeyBytes
  <2>5. ends[n] = D + 1
    BY <2>2, <2>3, <2>4 DEF j
  <2>6. Len(decoded') = D + 1
    BY <1>1 DEF TypeOK
  <2> QED BY <1>1, <2>5, <2>6 DEF Boundary
<1>8. PlaceInv'
  BY <1>1, <1>6, <1>7 DEF PlaceInv
<1> QED BY <1>1, <1>2, <1>3, <1>4, <1>5, <1>8 DEF OrderInv

\* When nothing is left all keys have been read.
LEMMA NothingLeft ==
  ASSUME TypeOK, Layout, StreamInv, buf = << >>, tty = << >>, wire = << >>
  PROVE  Boundary /\ LastEnd = Len(decoded)
<1>1. Len(Stream) = 0
  BY DEF Stream
<1>2. LastEnd = Len(decoded)
  BY <1>1, OrderTypes DEF StreamInv
<1>3. CASE ends = << >>
  BY <1>2, <1>3 DEF LastEnd, Boundary
<1>4. CASE ends # << >>
  <2>1. Len(ends) \in DOMAIN typed /\ ends[Len(ends)] = LastEnd
    BY <1>4, OrderTypes DEF Layout, LastEnd
  <2> QED BY <1>2, <2>1 DEF Boundary
<1> QED BY <1>2, <1>3, <1>4

\* The standard input does not end within a key.
LEMMA EofOrder ==
  ASSUME TypeOK, OrderInv, GetEof \/ CommandEof
  PROVE  OrderInv'
<1>1. UNCHANGED <<wire, tty, ended, typed, ends, clean, buf>>
      /\ ended /\ buf = << >> /\ tty = << >>
  BY DEF GetEof, CommandEof, keyVars
<1>2. Stream' = Stream
  BY <1>1 DEF Stream
<1>3. wire = << >>
  BY <1>1 DEF OrderInv
<1>4. clean => Boundary /\ LastEnd = Len(decoded)
  BY <1>1, <1>3, NothingLeft DEF OrderInv
<1>5. CASE /\ GetEof /\ dec = "key" /\ pc' = "loop"
           /\ UNCHANGED <<dec, held, decoded>>
  <2>1. BytesRead = 0 /\ BytesRead' = 0 /\ pc = "getc"
    BY <1>5 DEF GetEof, BytesRead, Depth
  <2> QED BY <1>1, <1>2, <1>3, <1>5, <2>1, SameOrder
<1>6. CASE CommandEof
  <2>1. BytesRead = 0 /\ BytesRead' = 0 /\ UNCHANGED <<held, decoded>>
    BY <1>6 DEF CommandEof, BytesRead
  <2> QED BY <1>1, <1>2, <1>3, <1>4, <2>1, SameOrder
<1>7. CASE GetEof /\ dec # "key"
  <2>1. BytesRead # 0
    BY <1>7 DEF GetEof, BytesRead, Depth, TypeOK
  <2>2. ~clean
    <3> SUFFICES ASSUME clean PROVE FALSE
      OBVIOUS
    <3>1. PlaceInv /\ Layout
      BY DEF OrderInv
    <3>2. BytesRead > 0 /\ BytesRead \in Nat
      BY <2>1, OrderTypes
    <3>3. PICK n \in DOMAIN typed :
            Len(decoded) = StartOf(n) + BytesRead /\ Begun(typed[n])
      BY <3>1, <3>2 DEF PlaceInv
    <3>4. /\ StartOf(n) \in Nat /\ Len(Encoded(typed[n])) \in Nat
          /\ ends[n] = StartOf(n) + Len(Encoded(typed[n]))
          /\ ends[n] <= LastEnd /\ LastEnd \in Nat
      BY <3>1, KeyPlace, OrderTypes DEF Layout
    <3>5. BytesRead < Len(Encoded(typed[n]))
      BY <3>3 DEF Begun
    <3> QED BY <1>4, <3>2, <3>3, <3>4, <3>5
  <2>3. Layout'
    BY <1>1 DEF OrderInv, Layout, StartOf, LastEnd
  <2> QED BY <1>1, <1>3, <2>2, <2>3 DEF OrderInv, DecodedInOrder
<1> QED BY <1>5, <1>6, <1>7 DEF GetEof

\* Every step keeps the order.
LEMMA NextOrder ==
  ASSUME TypeOK, OrderInv, [Next]_vars
  PROVE  OrderInv'
<1>1. CASE \E k \in Keys : Press(k)
  BY <1>1, PressOrder
<1>2. CASE Arrive \/ Fill \/ CommandFill
  BY <1>2, MovedOrder
<1>3. CASE GetByte
  BY <1>3, GetByteOrder
<1>4. CASE CommandByte
  BY <1>4, CommandByteOrder
<1>5. CASE GetEof \/ CommandEof
  BY <1>5, EofOrder
<1>6. CASE \/ End \/ MsgArrives \/ Listen \/ KeyboardTurn \/ MessageTurn
           \/ CommandAsks \/ CommandDone \/ Mygetc \/ UNCHANGED vars
  <2> USE DEF End, MsgArrives, Listen, KeyboardTurn, MessageTurn, CommandAsks,
              CommandDone, Mygetc, vars, keyVars
  <2>1. UNCHANGED <<wire, tty, buf, typed, ends, clean, decoded, held>>
        /\ (ended' => ended \/ wire = << >>)
    BY <1>6
  <2>2. UNCHANGED BytesRead
    BY <1>6 DEF BytesRead, Depth
  <2>3. UNCHANGED Stream
    BY <2>1 DEF Stream
  <2>4. pc' \notin {"line", "words"} => pc \notin {"line", "words"}
    BY <1>6
  <2>5. ended' => wire' = << >>
    BY <2>1 DEF OrderInv
  <2> QED BY <2>1, <2>2, <2>3, <2>4, <2>5, SameOrder
<1> QED BY <1>1, <1>2, <1>3, <1>4, <1>5, <1>6 DEF Next, Program

\* At first there is nothing to read.
LEMMA InitOrder == Init => OrderInv
<1> SUFFICES ASSUME Init PROVE OrderInv
  OBVIOUS
<1>1. /\ Len(decoded) = 0 /\ Len(typed) = 0 /\ BytesRead = 0
      /\ Stream = << >> /\ LastEnd = 0 /\ Len(ends) = 0
      /\ wire = << >> /\ DOMAIN typed = {} /\ DOMAIN decoded = {}
  BY DEF Init, BytesRead, Stream, LastEnd
<1>2. 1..LastEnd = {}
  BY <1>1
<1>3. Layout
  BY <1>1, <1>2 DEF Layout
<1>4. StreamInv
  <2>1. Len(Stream) = 0
    BY <1>1
  <2>2. LastEnd = Len(decoded) + Len(Stream)
    BY <1>1, <2>1
  <2> QED BY <1>1, <2>2 DEF StreamInv
<1>5. PlaceInv
  BY <1>1 DEF PlaceInv, Boundary
<1>6. DecodedInOrder
  BY <1>1 DEF DecodedInOrder
<1> QED BY <1>1, <1>3, <1>4, <1>5, <1>6 DEF OrderInv

\* For any keys, however their bytes arrive and whatever commands read of them,
\* each key is returned or read as a whole, once and in order.
THEOREM KeysInOrder == Spec => []DecodedInOrder
<1>1. OrderInv => DecodedInOrder
  BY DEF OrderInv
<1>2. KeyInv /\ OrderInv /\ [Next]_vars => OrderInv'
  BY NextOrder DEF KeyInv
<1> QED BY <1>1, <1>2, InitKey, NextKey, InitOrder, PTL DEF Spec
=============================================================================
