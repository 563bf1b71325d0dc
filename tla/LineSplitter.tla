---------------------------- MODULE LineSplitter ----------------------------
(***************************************************************************)
(* RuntimeInstance::pump into CaptureBuffer::ingest, the part before a     *)
(* line is governed: every chunk of a provider's output is turned into     *)
(* text on its own, the text is cut into lines at LF, CR and CR LF, and an *)
(* unterminated line that outgrows the per-line cap is flushed.            *)
(*                                                                         *)
(* Output is a sequence of bytes: "x" is a character of one byte, "lead"   *)
(* and "tail" are those of a character of two.  A text is kept by its      *)
(* bytes as well, except that a byte which is no part of a whole character *)
(* is shown as "lost", the replacement character, three bytes long.        *)
(***************************************************************************)
EXTENDS Integers, Sequences, FiniteSets, SequencesExt

CONSTANTS
  PartialCap,    \* max_line_bytes, in bytes
  MaxChunkLen,   \* bound: bytes the reader takes at once (8192)
  MaxFed         \* bound: bytes fed in all

ASSUME SplitAssumption == PartialCap \in Nat /\ MaxChunkLen \in Nat /\ MaxFed \in Nat

VARIABLES
  fed,           \* every byte fed so far
  ends,          \* the places in it where a chunk ended
  pendingText,   \* the partial line
  splitLines     \* the lines handed on, oldest first

splitVars == <<fed, ends, pendingText, splitLines>>

Bytes       == {"x", "lead", "tail", "CR", "LF"}
Characters  == Bytes \cup {"lost"}
Terminators == {"CR", "LF"}

SplitInit == fed = <<>> /\ ends = {} /\ pendingText = <<>> /\ splitLines = <<>>

(* How many bytes of memory a text takes.                                  *)
Size(text) == Len(text) + 2 * Cardinality({i \in DOMAIN text : text[i] = "lost"})

(* The byte is part of a whole character: none of several bytes, or next   *)
(* to its other half, with no end of a chunk between the two.              *)
Intact(bytes, i, breaks) ==
  \/ bytes[i] \notin {"lead", "tail"}
  \/ bytes[i] = "lead" /\ i < Len(bytes) /\ bytes[i + 1] = "tail" /\ i \notin breaks
  \/ bytes[i] = "tail" /\ i > 1 /\ bytes[i - 1] = "lead" /\ i - 1 \notin breaks

Decoded(bytes, breaks) ==
  [i \in 1..Len(bytes) |-> IF Intact(bytes, i, breaks) THEN bytes[i] ELSE "lost"]

(* String::from_utf8_lossy of one chunk, which knows of no other.          *)
Lossy(chunk) == Decoded(chunk, {})

(* The position of the first terminator, 0 when there is none.             *)
FirstTerminator(text) ==
  LET at == {i \in DOMAIN text : text[i] \in Terminators} IN
  IF at = {} THEN 0 ELSE CHOOSE i \in at : \A j \in at : i <= j

(* A CR swallows the LF behind it, if that has arrived.                    *)
TerminatorLength(text, i) ==
  IF text[i] = "CR" /\ i < Len(text) /\ text[i + 1] = "LF" THEN 2 ELSE 1

(* The next line, if there is one, cut from what is left.                  *)
CutOnce(cut) ==
  LET i == FirstTerminator(cut.rest) IN
  IF i = 0 THEN cut
  ELSE [out  |-> Append(cut.out, SubSeq(cut.rest, 1, i - 1)),
        rest |-> SubSeq(cut.rest, i + TerminatorLength(cut.rest, i), Len(cut.rest))]

(* The lines cut from a text and what is left of it.  Every cut shortens   *)
(* the text, so as many rounds as it has characters are enough.            *)
Cut(text) == FoldLeft(LAMBDA cut, ignored : CutOnce(cut), [out |-> <<>>, rest |-> text], text)

(* Takes the end of a chunk for the end of a line.                         *)
IngestEager(chunk) ==
  LET cut == Cut(pendingText \o Lossy(chunk)) IN
  /\ Len(fed) + Len(chunk) <= MaxFed
  /\ fed' = fed \o chunk /\ ends' = ends \cup {Len(fed) + Len(chunk)}
  /\ pendingText' = <<>> /\ splitLines' = Append(splitLines \o cut.out, cut.rest)

Ingest(chunk) ==
  LET cut == Cut(pendingText \o Lossy(chunk)) IN
  /\ Len(fed) + Len(chunk) <= MaxFed
  /\ fed' = fed \o chunk /\ ends' = ends \cup {Len(fed) + Len(chunk)}
  /\ \/ /\ Size(cut.rest) <= PartialCap
        /\ pendingText' = cut.rest /\ splitLines' = splitLines \o cut.out
     \/ /\ Size(cut.rest) > PartialCap
        /\ pendingText' = <<>> /\ splitLines' = Append(splitLines \o cut.out, cut.rest)

SplitNext == \E n \in 1..MaxChunkLen : \E chunk \in [1..n -> Bytes] : Ingest(chunk)

SplitSpec == SplitInit /\ [][SplitNext]_splitVars

-----------------------------------------------------------------------------

(* The output as a reader takes it, one character after the other, from    *)
(* nothing: its text, its lines that hold any, the one it is in, how many  *)
(* line breaks there were (CR LF is one) and how long a line got.          *)
Afresh == [text |-> <<>>, lines |-> <<>>, open |-> <<>>, breaks |-> 0, longest |-> 0, afterCR |-> FALSE]

Filling(lines, line) == IF line = <<>> THEN lines ELSE Append(lines, line)
Longer(n, line)      == IF Size(line) > n THEN Size(line) ELSE n

ReadOn(reading, char) ==
  IF char \in Terminators
  THEN [text |-> reading.text, lines |-> Filling(reading.lines, reading.open), open |-> <<>>,
        breaks |-> IF char = "LF" /\ reading.afterCR THEN reading.breaks ELSE reading.breaks + 1,
        longest |-> reading.longest, afterCR |-> char = "CR"]
  ELSE [text |-> Append(reading.text, char), lines |-> reading.lines,
        open |-> Append(reading.open, char), breaks |-> reading.breaks,
        longest |-> Longer(reading.longest, Append(reading.open, char)), afterCR |-> FALSE]

Read(chars)   == FoldLeft(ReadOn, Afresh, chars)
Joined(lines) == FoldLeft(LAMBDA text, line : text \o line, <<>>, lines)
Filled(lines) == FoldLeft(Filling, <<>>, lines)

(* The whole output as text.                                               *)
Shown == Decoded(fed, ends)

(* However the output is chunked, nothing is lost, doubled or moved but a  *)
(* character of several bytes that an end of a chunk cuts in two: its      *)
(* bytes are replaced where they stand (runtime.rs:70).  No terminator is  *)
(* left in a line, and every line break in the output is one in the lines: *)
(* each of its maximal runs of text is a line of its own, unless a run     *)
(* outgrew the cap (capture.rs:71).                                        *)
LinesAreFaithful ==
  LET read == Read(Shown) IN
  /\ Joined(splitLines) \o pendingText = read.text
  /\ read.longest <= PartialCap =>
       /\ Filled(splitLines) = read.lines /\ pendingText = read.open
       /\ Len(splitLines) >= read.breaks

=============================================================================
