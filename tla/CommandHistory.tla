--------------------------- MODULE CommandHistory ---------------------------
(***************************************************************************)
(* What the history of a command line promises: the entries that were      *)
(* entered, oldest first, and below them one draft.  Walking up and down   *)
(* shows the entries and, at the bottom, the draft as it was left.         *)
(***************************************************************************)
EXTENDS Integers, Sequences

CONSTANTS
  AllLines,
  Forms(_)   \* line -> how it may be filed; in no form if it is blank

VARIABLES entries, place, current, draft

Bottom == Len(entries) + 1

HistoryInit ==
  /\ entries = << >> /\ place = 1
  /\ current = << >> /\ draft = << >>

\* The user edits the line that is shown; the entries are not touched.
Edit == current' \in AllLines /\ UNCHANGED <<entries, place, draft>>

\* To the bottom again, on an empty line.
Enter ==
  /\ \/ Forms(current) = {} /\ UNCHANGED entries
     \/ \E e \in Forms(current) : entries' = Append(entries, e)
  /\ place' = Len(entries') + 1
  /\ current' = << >> /\ draft' = << >>

Walk(to) ==
  /\ to \in 1..Bottom /\ to # place
  /\ place' = to
  /\ current' = IF to = Bottom THEN draft ELSE entries[to]
  /\ draft' = IF to = Bottom THEN << >>
              ELSE IF place = Bottom THEN current ELSE draft
  /\ UNCHANGED entries

HistoryNext == Edit \/ Enter \/ \E to \in 1..Bottom : Walk(to)

HistorySpec ==
  HistoryInit /\ [][HistoryNext]_<<entries, place, current, draft>>
=============================================================================
