------------------------------ MODULE Chunking ------------------------------
(***************************************************************************)
(* chunk.Cut: the paragraphs of a text are packed into chunks of at most   *)
(* size runes.                                                             *)
(*                                                                         *)
(* A text is the sequence of the lengths of its lines, 0 for a blank one;  *)
(* lines have no blanks around them, so that trimming leaves them alone,   *)
(* and a rune is a byte.                                                   *)
(* A chunk is the sequence of the pieces of paragraphs it is made of, with *)
(* a blank line (two runes) between two pieces.                            *)
(***************************************************************************)
EXTENDS Integers, Sequences, SequencesExt

CONSTANTS
    Texts,     \* texts, as Cut has trimmed them
    Sizes,     \* chunk sizes
    MaxLine    \* bufio.Scanner's buffer

ASSUME TextsAssumption ==
    /\ MaxLine \in Nat \ {0}
    /\ Sizes \subseteq Int
    /\ \A t \in Texts : t \in Seq(Nat) /\ (t # <<>> => t[1] > 0 /\ t[Len(t)] > 0)

VARIABLES
    text, size,  \* the arguments
    pc,
    line,        \* the next line the scanner returns
    para,        \* runes in curPara
    paragraphs,  \* lengths of the paragraphs found
    next,        \* the paragraph the packing loop is at
    current,     \* currentChunk
    runes,       \* currentRunes
    chunks

vars == <<text, size, pc, line, para, paragraphs, next, current, runes, chunks>>
scanning == <<line, para, paragraphs>>
packing == <<next, current, runes, chunks>>

Piece == [para: Nat, from: Nat, to: Nat]
Chunk == Seq(Piece)

TypeOK ==
    /\ text \in Seq(Nat) /\ size \in Sizes
    /\ pc \in {"start", "scan", "pack", "done", "error"}
    /\ line \in 1..Len(text) + 1
    /\ para \in Nat /\ paragraphs \in Seq(Nat \ {0})
    /\ next \in 1..Len(paragraphs) + 1
    /\ current \in Chunk /\ runes \in Nat /\ chunks \in Seq(Chunk)

Init ==
    /\ text \in Texts /\ size \in Sizes
    /\ pc = "start"
    /\ line = 1 /\ para = 0 /\ paragraphs = <<>>
    /\ next = 1 /\ current = <<>> /\ runes = 0 /\ chunks = <<>>

Enter ==
    /\ pc = "start"
    /\ pc' = IF size <= 0 THEN "error" ELSE IF text = <<>> THEN "done" ELSE "scan"
    /\ UNCHANGED <<text, size, scanning, packing>>

(***************************************************************************)
(* extractParagraphs.                                                      *)
(***************************************************************************)
EndedAtEveryBlank == Append(paragraphs, para)
Ended == IF para > 0 THEN Append(paragraphs, para) ELSE paragraphs

BlankLine ==
    /\ pc = "scan"
    /\ line <= Len(text)
    /\ text[line] = 0
    /\ paragraphs' = Ended
    /\ para' = 0
    /\ line' = line + 1
    /\ UNCHANGED <<text, size, pc, packing>>

\* Lines of a paragraph stay apart by a newline.
LongerWithoutNewline == para + text[line]
Longer == IF para > 0 THEN para + 1 + text[line] ELSE text[line]

TextLine ==
    /\ pc = "scan"
    /\ line <= Len(text)
    /\ text[line] \in 1..MaxLine
    /\ para' = Longer
    /\ line' = line + 1
    /\ UNCHANGED <<text, size, pc, paragraphs, packing>>

LineTooLongEnds ==
    /\ pc = "scan"
    /\ line <= Len(text)
    /\ text[line] > MaxLine
    /\ paragraphs' = Ended
    /\ pc' = "pack"
    /\ UNCHANGED <<text, size, line, para, packing>>

LineTooLong ==
    /\ pc = "scan"
    /\ line <= Len(text)
    /\ text[line] > MaxLine
    /\ pc' = "error"
    /\ UNCHANGED <<text, size, scanning, packing>>

ScanEnds ==
    /\ pc = "scan"
    /\ line > Len(text)
    /\ paragraphs' = Ended
    /\ pc' = "pack"
    /\ UNCHANGED <<text, size, line, para, packing>>

(***************************************************************************)
(* The packing loop.                                                       *)
(***************************************************************************)
Paragraph == paragraphs[next]
Whole == [para |-> next, from |-> 1, to |-> Paragraph]

\* splitByRunes.
SmallerOf(a, b) == IF a < b THEN a ELSE b
SplitByRunes ==
    [k \in 1..(Paragraph + size - 1) \div size |->
        <<[para |-> next, from |-> (k - 1) * size + 1, to |-> SmallerOf(k * size, Paragraph)]>>]

FlushedNothing == chunks
Flushed == IF runes > 0 THEN Append(chunks, current) ELSE chunks

AtParagraph == pc = "pack" /\ next <= Len(paragraphs)

SplitParagraph ==
    /\ AtParagraph
    /\ Paragraph > size
    /\ chunks' = Flushed \o SplitByRunes
    /\ current' = <<>>
    /\ runes' = 0
    /\ next' = next + 1
    /\ UNCHANGED <<text, size, pc, scanning>>

NeededWithoutSeparator == Paragraph
Needed == IF runes > 0 THEN Paragraph + 2 ELSE Paragraph

FitsBelow == runes + Needed < size
Fits == runes + Needed <= size

JoinParagraph ==
    /\ AtParagraph
    /\ Paragraph <= size
    /\ Fits
    /\ current' = Append(current, Whole)
    /\ runes' = runes + Needed
    /\ next' = next + 1
    /\ UNCHANGED <<text, size, pc, scanning, chunks>>

StartChunk ==
    /\ AtParagraph
    /\ Paragraph <= size
    /\ ~Fits
    /\ chunks' = Append(chunks, current)
    /\ current' = <<Whole>>
    /\ runes' = Paragraph
    /\ next' = next + 1
    /\ UNCHANGED <<text, size, pc, scanning>>

PackEnds ==
    /\ pc = "pack"
    /\ next > Len(paragraphs)
    /\ chunks' = Flushed
    /\ pc' = "done"
    /\ UNCHANGED <<text, size, scanning, next, current, runes>>

Next ==
    \/ Enter
    \/ BlankLine \/ TextLine \/ LineTooLong \/ ScanEnds
    \/ SplitParagraph \/ JoinParagraph \/ StartChunk \/ PackEnds

Spec == Init /\ [][Next]_vars

-----------------------------------------------------------------------------
(***************************************************************************)
(* What a reader of the text would call its paragraphs, and the length of  *)
(* a chunk as Postgres will see it.                                        *)
(***************************************************************************)
TextRuns ==
    {r \in (1..Len(text)) \X (1..Len(text)) :
        /\ r[1] <= r[2]
        /\ \A i \in r[1]..r[2] : text[i] > 0
        /\ r[1] = 1 \/ text[r[1] - 1] = 0
        /\ r[2] = Len(text) \/ text[r[2] + 1] = 0}

Total(lengths) == FoldLeft(+, 0, lengths)

RunLength(r) == Total(SubSeq(text, r[1], r[2])) + r[2] - r[1]

PieceLength(x) == x.to - x.from + 1
Length(c) == Total([i \in DOMAIN c |-> PieceLength(c[i])]) + 2 * (Len(c) - 1)

\* Paragraphs are the runs of text lines in their order, none lost, joined or
\* counted short.
ParagraphsAreTextRuns ==
    pc \in {"pack", "done"} /\ text # <<>> =>
        \E runs \in [DOMAIN paragraphs -> TextRuns] :
            /\ TextRuns \subseteq {runs[i] : i \in DOMAIN paragraphs}
            /\ \A i, j \in DOMAIN paragraphs : i < j => runs[i][2] < runs[j][1]
            /\ \A i \in DOMAIN paragraphs : paragraphs[i] = RunLength(runs[i])

\* No chunk is empty or longer than asked for, although the loop counts the
\* runes beside the text it builds.
ChunksFit == \A i \in DOMAIN chunks : Length(chunks[i]) \in 1..size

\* The chunks are the text, whole and in order: every rune of every paragraph
\* is in one piece, and pieces follow each other.
Follows(x, y) ==
    \/ y.para = x.para /\ y.from = x.to + 1
    \/ y.para = x.para + 1 /\ y.from = 1 /\ x.to = paragraphs[x.para]

NothingLost ==
    pc = "done" /\ paragraphs # <<>> =>
        LET pieces == FlattenSeq(chunks)
        IN  /\ pieces # <<>>
            /\ pieces[1].para = 1 /\ pieces[1].from = 1
            /\ Last(pieces).para = Len(paragraphs) /\ Last(pieces).to = Last(paragraphs)
            /\ \A i \in 1..Len(pieces) - 1 : Follows(pieces[i], pieces[i + 1])

\* No chunk ends early: the paragraph after it did not fit in, unless one of
\* the two is cut.
IsWhole(x) == x.from = 1 /\ x.to = paragraphs[x.para]
NoNeedlessCut ==
    \A i \in 1..Len(chunks) - 1 :
        /\ chunks[i] # <<>> /\ chunks[i + 1] # <<>>
        /\ IsWhole(chunks[i][1]) /\ IsWhole(chunks[i + 1][1])
        => Length(chunks[i]) + 2 + PieceLength(chunks[i + 1][1]) > size
=============================================================================
