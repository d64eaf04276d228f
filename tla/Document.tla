------------------------------ MODULE Document ------------------------------
(***************************************************************************)
(* From the file to its chunks: vault's yamlParser takes the frontmatter   *)
(* off a note, chunk.Cut (Chunking) cuts what is left.  Each reads lines   *)
(* with a bufio.Scanner of its own.                                        *)
(*                                                                         *)
(* A line is its number of runes and what it says to the parser: that it   *)
(* is a fence (---), that the note has a title, or nothing.  A byte order  *)
(* mark, quotes around a title and other keys are left out.                *)
(***************************************************************************)
EXTENDS Chunking

CONSTANTS
    Documents,  \* files, as sequences of lines
    Titles,
    Untitled    \* yamlInfo.Title when no line names one

Line == [len: Nat, says: Titles \cup {"fence", "nothing"}]

ASSUME DocumentsAssumption ==
    /\ Documents \subseteq Seq(Line)
    /\ Untitled \notin Titles
    /\ {"fence", "nothing"} \cap Titles = {}

VARIABLES
    file,
    at,      \* the next line the parser's scanner returns
    mode,    \* foundStart, inFrontmatter and bodyStarted; then the outcome
    title,
    body     \* the builder

parsing == <<file, at, mode, title, body>>
docVars == <<parsing, vars>>

Outcomes == {"parsed", "unclosed", "overlong"}

DocTypeOK ==
    /\ TypeOK
    /\ file \in Seq(Line)
    /\ at \in 1..Len(file) + 1
    /\ mode \in {"first", "front", "body"} \cup Outcomes
    /\ title \in Titles \cup {Untitled}
    /\ body \in Seq(Nat)

DocInit ==
    /\ text = <<>> /\ Init
    /\ file \in Documents
    /\ at = 1 /\ mode = "first" /\ title = Untitled /\ body = <<>>

-----------------------------------------------------------------------------
(***************************************************************************)
(* yamlParser.                                                             *)
(***************************************************************************)
AtLine == at <= Len(file) /\ file[at].len <= MaxLine

\* strings.TrimSpace of a text.
TrimSpace(lines) ==
    LET inked == {i \in DOMAIN lines : lines[i] > 0}
    IN  IF inked = {} THEN <<>> ELSE SubSeq(lines, Min(inked), Max(inked))

Lengths(lines) == [i \in DOMAIN lines |-> lines[i].len]

Parsed(lines) ==
    /\ mode' = "parsed"
    /\ text' = TrimSpace(lines)

\* Only the very first line opens a frontmatter.
OpensAfterBlank(l) == l.len = 0 \/ l.says = "fence"

Opens(l) == l.says = "fence"

\* The rest of a plain file is never scanned here.
FirstLine ==
    /\ mode = "first"
    /\ AtLine
    /\ \/ /\ Opens(file[at])
          /\ mode' = "front" /\ at' = at + 1
          /\ UNCHANGED <<file, title, body, vars>>
       \/ /\ ~Opens(file[at])
          /\ Parsed(Lengths(file))
          /\ UNCHANGED <<file, at, title, body, size, pc, scanning, packing>>

FrontLine ==
    /\ mode = "front"
    /\ AtLine
    /\ mode' = IF file[at].says = "fence" THEN "body" ELSE mode
    /\ title' = IF file[at].says \in Titles THEN file[at].says ELSE title
    /\ at' = at + 1
    /\ UNCHANGED <<file, body, vars>>

BodyLine ==
    /\ mode = "body"
    /\ AtLine
    /\ body' = Append(body, file[at].len)
    /\ at' = at + 1
    /\ UNCHANGED <<file, mode, title, vars>>

\* scanner.Err, looked at before anything else.
Overlong ==
    /\ mode \notin Outcomes
    /\ at <= Len(file)
    /\ file[at].len > MaxLine
    /\ mode' = "overlong"
    /\ UNCHANGED <<file, at, title, body, vars>>

EndOfFile ==
    /\ mode \notin Outcomes
    /\ at > Len(file)
    /\ \/ /\ mode = "front"
          /\ mode' = "unclosed"
          /\ UNCHANGED vars
       \/ /\ mode # "front"
          /\ Parsed(body)
          /\ UNCHANGED <<size, pc, scanning, packing>>
    /\ UNCHANGED <<file, at, title, body>>

Cut ==
    /\ mode = "parsed"
    /\ Next
    /\ UNCHANGED parsing

DocNext ==
    \/ FirstLine \/ FrontLine \/ BodyLine \/ Overlong \/ EndOfFile
    \/ Cut

DocSpec == DocInit /\ [][DocNext]_docVars

-----------------------------------------------------------------------------
\* What a user means by a file: a fence on its first line opens a frontmatter,
\* the next fence closes it.
HasFrontmatter == file # <<>> /\ file[1].says = "fence"
Closing == {i \in 2..Len(file) : file[i].says = "fence"}
Readable(lines) == \A i \in DOMAIN lines : lines[i].len <= MaxLine

\* The text that is cut is the note without its frontmatter and all of it: a
\* fence further down is a horizontal rule, and what stands above it stays.
\* The title is the last one the frontmatter names.  A frontmatter left open
\* makes no note, and only a file that could be read to its end is said to
\* have left it open.
ReadAsWritten ==
    LET close == IF Closing = {} THEN Len(file) + 1 ELSE Min(Closing)
        named == {i \in 2..(close - 1) : file[i].says \in Titles}
    IN  /\ mode = "parsed" =>
              IF HasFrontmatter
              THEN /\ Closing # {} /\ Readable(file)
                   /\ text = TrimSpace(Lengths(SubSeq(file, close + 1, Len(file))))
                   /\ title = IF named = {} THEN Untitled ELSE file[Max(named)].says
              ELSE /\ text = TrimSpace(Lengths(file))
                   /\ title = Untitled
        /\ mode = "unclosed" => HasFrontmatter /\ Closing = {} /\ Readable(file)

\* A file with a line beyond a scanner's buffer is indexed not at all rather
\* than up to that line, whichever of the two scanners meets it.
NoFileHalfIndexed == pc = "done" => Readable(file)
=============================================================================
