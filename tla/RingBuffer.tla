------------------------------ MODULE RingBuffer ------------------------------
(***************************************************************************)
(* The bounded scrollback of a pane (arreo-core/src/pty.rs, RingBuffer) as *)
(* operators on records.  A byte is one of                                 *)
(*    "a"       a one-byte character                                       *)
(*    "n"       the newline (a carriage return before it is part of it)    *)
(*    "l", "t"  the lead and the trail byte of a two-byte character        *)
(* and a decoded character is "a", "n", "e" (the two-byte character) or    *)
(* "?" (U+FFFD, three bytes in UTF-8).                                     *)
(***************************************************************************)
EXTENDS Naturals, FiniteSets, Sequences, SequencesExt

CONSTANTS
    Capacity,   \* HOT_LINES
    MaxLine,    \* MAX_LINE_BYTES
    MaxJournal  \* MAX_RAW_JOURNAL

ASSUME RingAssumption ==
    /\ Capacity \in Nat \ {0}
    /\ MaxLine \in Nat \ {0}
    /\ MaxJournal \in Nat

Bytes == {"a", "n", "l", "t"}
Chars == {"a", "e", "?"}

(* String::len: bytes, not characters. *)
ByteLen(str) ==
    LET extra(c) == Cardinality({i \in DOMAIN str : str[i] = c})
    IN  Len(str) + extra("e") + 2 * extra("?")

(* String::from_utf8_lossy on ONE slice: a lead byte without its trail, or a
   trail without its lead, becomes the replacement character. *)
FromUtf8Lossy(bytes) ==
    LET led(i)    == i > 1 /\ bytes[i - 1] = "l"
        closed(i) == i < Len(bytes) /\ bytes[i + 1] = "t"
        decode(i) == CASE bytes[i] = "l" -> IF closed(i) THEN "e" ELSE "?"
                       [] bytes[i] = "t" -> IF led(i) THEN "skip" ELSE "?"
                       [] OTHER          -> bytes[i]
    IN  SelectSeq([i \in DOMAIN bytes |-> decode(i)], LAMBDA c : c # "skip")

(* The longest prefix of str of at most MaxLine bytes. *)
Floor(str) ==
    SubSeq(str, 1, Max({k \in 0..Len(str) : ByteLen(SubSeq(str, 1, k)) <= MaxLine}))

(* String::truncate(MAX_LINE_BYTES) panics when the cut is inside a character. *)
TruncatePanics(str) == ByteLen(str) > MaxLine /\ ByteLen(Floor(str)) # MaxLine

Excess(str) == IF ByteLen(str) > MaxLine THEN ByteLen(str) - MaxLine ELSE 0

(* A text cut at its newlines: the terminated lines, then the partial one. *)
Pieces(text) ==
    LET marks == <<0>> \o SetToSortSeq({i \in DOMAIN text : text[i] = "n"}, <)
                       \o <<Len(text) + 1>>
    IN  [k \in 1..(Len(marks) - 1) |-> SubSeq(text, marks[k] + 1, marks[k + 1] - 1)]

EmptyRing ==
    [lines |-> <<>>, pending |-> <<>>, raw |-> <<>>, rawTruncated |-> FALSE,
     dropped |-> 0, droppedBytes |-> 0]

(* push_line for each line of `new`: the oldest lines make room. *)
PushLines(lines, new) ==
    LET all == lines \o [k \in DOMAIN new |-> Floor(new[k])]
    IN  SubSeq(all, IF Len(all) > Capacity THEN Len(all) - Capacity + 1 ELSE 1, Len(all))
Evicted(lines, new) ==
    IF Len(lines) + Len(new) > Capacity THEN Len(lines) + Len(new) - Capacity ELSE 0

(* The journal takes what fits of a chunk and then closes for good. *)
Room(ring) == MaxJournal - Len(ring.raw)
Journal(ring, bytes) ==
    IF ring.rawTruncated THEN ring.raw
    ELSE ring.raw \o SubSeq(bytes, 1, IF Len(bytes) <= Room(ring) THEN Len(bytes) ELSE Room(ring))
JournalTruncated(ring, bytes) == ring.rawTruncated \/ Len(bytes) > Room(ring)

(* What a chunk adds to the partial line, cut into lines. *)
NewPieces(ring, bytes) == Pieces(ring.pending \o FromUtf8Lossy(bytes))

(* push_bytes, given the pieces its loop finds. *)
PushPieces(ring, bytes, pieces) ==
    [lines        |-> PushLines(ring.lines, Front(pieces)),
     pending      |-> Floor(Last(pieces)),
     raw          |-> Journal(ring, bytes),
     rawTruncated |-> JournalTruncated(ring, bytes),
     dropped      |-> ring.dropped + Evicted(ring.lines, Front(pieces)),
     droppedBytes |-> ring.droppedBytes
                        + MapThenSumSet(LAMBDA k : Excess(pieces[k]), DOMAIN pieces)]

PushBytes(ring, bytes) == PushPieces(ring, bytes, NewPieces(ring, bytes))

(* A faulty variant: the counters are left as push_line counted them. *)
SeedRecounting(scrollback) ==
    LET keep == Len(scrollback.raw) <= MaxJournal
    IN  [lines        |-> PushLines(<<>>, scrollback.lines),
         pending      |-> Floor(scrollback.pending),
         raw          |-> IF keep THEN scrollback.raw
                          ELSE SubSeq(scrollback.raw, 1, MaxJournal),
         rawTruncated |-> scrollback.rawTruncated \/ ~keep,
         dropped      |-> Evicted(<<>>, scrollback.lines),
         droppedBytes |-> 0]

(* RingBuffer::seed from a Pane::scrollback: the lines go through push_line,
   the counters that travelled overwrite what that counted. *)
Seed(scrollback) ==
    LET keep == Len(scrollback.raw) <= MaxJournal
    IN  [lines        |-> PushLines(<<>>, scrollback.lines),
         pending      |-> Floor(scrollback.pending),
         raw          |-> IF keep THEN scrollback.raw
                          ELSE SubSeq(scrollback.raw, 1, MaxJournal),
         rawTruncated |-> scrollback.rawTruncated \/ ~keep,
         dropped      |-> scrollback.dropped,
         droppedBytes |-> scrollback.droppedBytes]
=============================================================================
