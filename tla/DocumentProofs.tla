--------------------------- MODULE DocumentProofs ---------------------------
(***************************************************************************)
(* Proofs about Document and the Chunking it extends, for files of any     *)
(* length, lines of any length and every chunk size: a note is read as it  *)
(* is written, its paragraphs are found whole, and its chunks hold them in *)
(* order, each as full as its size allows.                                 *)
(*                                                                         *)
(* Each loop has its invariant.  The parser's (ParserOK) relates what it   *)
(* has kept to the lines behind it, the scanner's (ScanOK) the paragraphs  *)
(* it has found to the runs of text lines that ended before the one it is  *)
(* in, and the packing loop's (PackOK) the chunks to the paragraphs before *)
(* the next one: together they hold these paragraphs and nothing else      *)
(* (Covers), and what could still go into the last one is remembered       *)
(* exactly (CurrentOK, LinkOK).                                            *)
(***************************************************************************)
EXTENDS Document, FoldProofs

\* Paragraphs ps are the runs of text lines that end before line upto.
Found(runs, ps, upto) ==
    /\ runs \in [DOMAIN ps -> TextRuns]
    /\ \A i \in DOMAIN ps : ps[i] = RunLength(runs[i]) /\ runs[i][2] < upto
    /\ \A r \in TextRuns : r[2] < upto => \E i \in DOMAIN ps : runs[i] = r
    /\ \A i, j \in DOMAIN ps : i < j => runs[i][2] < runs[j][1]

\* The paragraphs are complete up to that line.
FoundUpTo(ps, upto) == \E runs \in [DOMAIN ps -> TextRuns] : Found(runs, ps, upto)

\* The paragraph being read began at line b, or is yet to begin there, and
\* length is what it has come to before line l.
InRun(b, l, length) ==
    /\ b = 1 \/ text[b - 1] = 0
    /\ \A i \in b..(l - 1) : text[i] > 0
    /\ b = l => length = 0
    /\ b # l => length > 0 /\ length = RunLength(<<b, l - 1>>)

\* The scanner has all paragraphs that ended before the one it is reading, and
\* at the end all there are.
ScanOK ==
    /\ pc = "scan" => \E b \in 1..line : InRun(b, line, para) /\ FoundUpTo(paragraphs, b)
    /\ pc \in {"pack", "done"} /\ text # <<>> => FoundUpTo(paragraphs, Len(text) + 1)

\* Every line the scanner has returned fits its buffer.
LinesOK ==
    /\ pc = "scan" => \A i \in 1..(line - 1) : text[i] <= MaxLine
    /\ pc \in {"pack", "done"} => \A i \in 1..Len(text) : text[i] <= MaxLine

\* The pieces are paragraphs 1 to n, whole and in order.
Covers(pieces, n) ==
    /\ n = 0 => pieces = <<>>
    /\ n > 0 =>
        /\ pieces # <<>>
        /\ pieces[1].para = 1 /\ pieces[1].from = 1
        /\ Last(pieces).para = n /\ Last(pieces).to = paragraphs[n]
        /\ \A i \in 1..Len(pieces) - 1 : Follows(pieces[i], pieces[i + 1])

\* Nothing more could have gone into chunk c, if d was cut after it.
Full(c, d) ==
    c # <<>> /\ d # <<>> /\ IsWhole(c[1]) /\ IsWhole(d[1])
        => Length(c) + 2 + PieceLength(d[1]) > size

\* The chunk being packed: what the loop counts is its length.
CurrentOK ==
    /\ current = <<>> => runes = 0
    /\ current # <<>> => runes = Length(current) /\ runes \in 1..size

\* The chunk before it.
LinkOK ==
    chunks # <<>> =>
        /\ current # <<>> => Full(Last(chunks), current)
        /\ current = <<>> => Last(chunks) # <<>> /\ ~IsWhole(Last(chunks)[1])

\* The loop over the paragraphs has packed the first next - 1 of them.
PackOK ==
    /\ pc = "pack" =>
        /\ CurrentOK /\ LinkOK
        /\ Covers(FlattenSeq(chunks) \o current, next - 1)
    /\ pc = "done" => Covers(FlattenSeq(chunks), Len(paragraphs))

\* Nothing is packed yet.
Untouched == next = 1 /\ current = <<>> /\ runes = 0 /\ chunks = <<>>

\* Each stage of Cut starts only when the one before it has ended.
StageOK ==
    /\ mode # "parsed" => pc = "start"
    /\ pc \in {"start", "scan", "error"} => Untouched
    /\ pc = "start" \/ text = <<>> => line = 1 /\ para = 0 /\ paragraphs = <<>> /\ Untouched
    /\ pc \in {"scan", "pack"} => size > 0 /\ text # <<>>

\* The inductive invariant of Cut.
CutInv == TypeOK /\ StageOK /\ ScanOK /\ LinesOK /\ PackOK /\ ChunksFit /\ NoNeedlessCut

-----------------------------------------------------------------------------
\* The title named in lines 2 to n of the file, if one is.
TitleIn(n) ==
    LET named == {i \in 2..n : file[i].says \in Titles}
    IN  IF named = {} THEN Untitled ELSE file[Max(named)].says

\* Every line the parser has returned fits its buffer.
ReadSoFar == \A i \in 1..(at - 1) : file[i].len <= MaxLine

\* No line from 2 to n closes the frontmatter.
NoFence(n) == \A i \in 2..n : file[i].says # "fence"

\* Line k closes the frontmatter.
Closes(k) == k \in 2..Len(file) /\ file[k].says = "fence" /\ NoFence(k - 1)

\* What the parser keeps is what the lines behind it say.
ParserOK ==
    /\ mode = "first" => at = 1 /\ title = Untitled /\ body = <<>>
    /\ mode \in {"front", "body"} => HasFrontmatter /\ ReadSoFar
    /\ mode = "front" => at >= 2 /\ NoFence(at - 1) /\ title = TitleIn(at - 1) /\ body = <<>>
    /\ mode = "body" => \E k \in 2..(at - 1) :
          Closes(k) /\ title = TitleIn(k - 1)
          /\ body = Lengths(SubSeq(file, k + 1, at - 1))

\* Whatever of the file is not cut has been read by the parser.
RestRead == mode = "parsed" => Readable(file) \/ text = TrimSpace(Lengths(file))

\* The inductive invariant of a file that is read and cut.
DocInv == DocTypeOK /\ CutInv /\ ParserOK /\ ReadAsWritten /\ RestRead

-----------------------------------------------------------------------------
(***************************************************************************)
(* Sets of numbers.                                                        *)
(***************************************************************************)
LEMMA MaxWitness ==
    ASSUME NEW S \in SUBSET Int, NEW x \in S, \A y \in S : x >= y
    PROVE  Max(S) = x
<1>1. Max(S) \in S /\ \A y \in S : Max(S) >= y
  BY Zenon DEF Max
<1> DEFINE m == Max(S)
<1>2. m \in S /\ m >= x
  BY <1>1
<1> HIDE DEF m
<1>3. m \in Int /\ x \in Int /\ x >= m
  BY <1>2
<1>4. m = x
  BY <1>2, <1>3
<1> QED BY <1>4 DEF m

\* As MaxWitness, for the least number.
LEMMA MinWitness ==
    ASSUME NEW S \in SUBSET Int, NEW x \in S, \A y \in S : x <= y
    PROVE  Min(S) = x
<1>1. Min(S) \in S /\ \A y \in S : Min(S) <= y
  BY Zenon DEF Min
<1> DEFINE m == Min(S)
<1>2. m \in S /\ m <= x
  BY <1>1
<1> HIDE DEF m
<1>3. m \in Int /\ x \in Int /\ x <= m
  BY <1>2
<1>4. m = x
  BY <1>2, <1>3
<1> QED BY <1>4 DEF m

\* A set of numbers that is not empty has a least one.
LEMMA MinIs ==
    ASSUME NEW S \in SUBSET Nat, S # {}
    PROVE  Min(S) \in S /\ \A y \in S : Min(S) <= y
<1>1. PICK m \in S : \A k \in S : ~(<<k, m>> \in OpToRel(<, Nat))
  BY NatLessThanWellFounded, WFMin
<1>2. \A k \in S : ~(k < m)
  BY <1>1 DEF OpToRel
<1>3. \E x \in S : \A y \in S : x <= y
  BY <1>2
<1> QED BY <1>3, Zenon DEF Min

-----------------------------------------------------------------------------
(***************************************************************************)
(* The runs of a text.                                                     *)
(***************************************************************************)
IsRun(a, z) ==
    /\ a \in 1..Len(text) /\ z \in 1..Len(text) /\ a <= z
    /\ \A i \in a..z : text[i] > 0
    /\ a = 1 \/ text[a - 1] = 0
    /\ z = Len(text) \/ text[z + 1] = 0

\* TextRuns are the runs.
LEMMA Runs ==
    /\ \A a, z : IsRun(a, z) => <<a, z>> \in TextRuns
    /\ \A r \in TextRuns : IsRun(r[1], r[2]) /\ r = <<r[1], r[2]>>
<1>1. ASSUME NEW a, NEW z, IsRun(a, z) PROVE <<a, z>> \in TextRuns
  BY <1>1 DEF IsRun, TextRuns
<1>2. ASSUME NEW r \in TextRuns PROVE IsRun(r[1], r[2]) /\ r = <<r[1], r[2]>>
  BY DEF IsRun, TextRuns
<1> QED BY <1>1, <1>2

\* Two runs that meet are one.
LEMMA RunsApart ==
    ASSUME text \in Seq(Nat), NEW a, NEW z, NEW b, NEW y,
           IsRun(a, z), IsRun(b, y), b <= z, a <= y
    PROVE  a = b /\ z = y
<1>1. a \in Int /\ b \in Int /\ z \in Int /\ y \in Int /\ Len(text) \in Nat
  BY DEF IsRun
<1>2. a < b => b - 1 \in a..z /\ b # 1
  BY <1>1 DEF IsRun
<1>3. b < a => a - 1 \in b..y /\ a # 1
  BY <1>1 DEF IsRun
<1>4. a = b
  BY <1>1, <1>2, <1>3 DEF IsRun
<1>5. z < y => z + 1 \in b..y /\ z # Len(text)
  BY <1>1, <1>4 DEF IsRun
<1>6. y < z => y + 1 \in a..z /\ y # Len(text)
  BY <1>1, <1>4 DEF IsRun
<1>7. z = y
  BY <1>1, <1>5, <1>6 DEF IsRun
<1> QED BY <1>4, <1>7

\* The last line of a run that ends before a line is before a run that ends there.
LEMMA RunEnds ==
    ASSUME text \in Seq(Nat), NEW l \in 1..Len(text) + 1, NEW b \in 1..(l - 1),
           b = 1 \/ text[b - 1] = 0, \A i \in b..(l - 1) : text[i] > 0,
           l = Len(text) + 1 \/ text[l] = 0
    PROVE  /\ <<b, l - 1>> \in TextRuns
           /\ \A r \in TextRuns : r[2] <= l => r[2] < b \/ r = <<b, l - 1>>
<1>1. IsRun(b, l - 1)
  BY DEF IsRun
<1>2. ASSUME NEW r \in TextRuns, r[2] <= l, ~(r[2] < b)
      PROVE  r = <<b, l - 1>>
  <2>1. IsRun(r[1], r[2]) /\ r = <<r[1], r[2]>>
    BY Runs
  <2> DEFINE a == r[1]
             z == r[2]
  <2>2. IsRun(a, z) /\ z <= l /\ ~(z < b)
    BY <1>2, <2>1
  <2> HIDE DEF a, z
  <2>3. a \in Int /\ z \in Int /\ a <= z /\ z <= Len(text) /\ text[z] > 0
    BY <2>2 DEF IsRun
  <2>4. z # l
    BY <2>3
  <2>5. b <= z /\ a <= l - 1
    BY <2>2, <2>3, <2>4
  <2>6. a = b /\ z = l - 1
    BY <1>1, <2>2, <2>5, RunsApart
  <2> QED BY <2>1, <2>6 DEF a, z
<1> QED BY <1>1, <1>2, Runs

\* A run that has just begun is as long as its one line.
LEMMA OneLine ==
    ASSUME text \in Seq(Nat), NEW l \in 1..Len(text)
    PROVE  RunLength(<<l, l>>) = text[l]
<1> DEFINE s == SubSeq(text, l, l)
<1>1. s \in Seq(Int) /\ Len(s) = 0 + 1 /\ s[1] = text[l] /\ text[l] \in Int
  OBVIOUS
<1> DEFINE e == <<>>
           n == 0
<1>2. /\ e \in Seq(Int) /\ n \in Nat /\ Len(e) = n /\ Len(s) = n + 1
      /\ \A i \in 1..n : s[i] = e[i]
  BY <1>1
<1>3. SumOf(s) = text[l]
  <2> HIDE DEF e, n, s
  <2>1. SumOf(s) = SumOf(e) + s[n + 1]
    BY <1>1, <1>2, SumExtends
  <2> QED BY <1>1, <2>1, SumOfNone DEF e, n
<1> HIDE DEF s
<1>4. RunLength(<<l, l>>) = SumOf(s) + l - l
  BY DEF RunLength, Total, SumOf, s
<1> QED BY <1>1, <1>3, <1>4

\* A run grows by its next line and the line break before it.
LEMMA OneLineMore ==
    ASSUME text \in Seq(Nat), NEW l \in 1..Len(text), NEW b \in 1..(l - 1)
    PROVE  /\ RunLength(<<b, l>>) = RunLength(<<b, l - 1>>) + 1 + text[l]
           /\ RunLength(<<b, l - 1>>) \in Int
<1> DEFINE s == SubSeq(text, b, l - 1)
<1>1. SubSeq(text, b, l) = Append(s, text[l]) /\ s \in Seq(Int) /\ text[l] \in Int
  OBVIOUS
<1> HIDE DEF s
<1>2. SumOf(Append(s, text[l])) = SumOf(s) + text[l] /\ SumOf(s) \in Int
  BY <1>1, SumAppend, SumType
<1>3. RunLength(<<b, l>>) = SumOf(SubSeq(text, b, l)) + l - b
  BY DEF RunLength, Total, SumOf
<1>4. RunLength(<<b, l - 1>>) = SumOf(s) + (l - 1) - b
  BY DEF RunLength, Total, SumOf, s
<1>5. l \in Int /\ b \in Int
  OBVIOUS
<1> DEFINE t == SumOf(s)
           x == text[l]
<1>6. /\ t \in Int /\ x \in Int
      /\ RunLength(<<b, l>>) = (t + x) + l - b /\ RunLength(<<b, l - 1>>) = t + (l - 1) - b
  BY <1>1, <1>2, <1>3, <1>4
<1> HIDE DEF t, x
<1>7. /\ RunLength(<<b, l>>) = RunLength(<<b, l - 1>>) + 1 + x
      /\ RunLength(<<b, l - 1>>) \in Int
  BY <1>5, <1>6
<1> QED BY <1>7 DEF x

-----------------------------------------------------------------------------
(***************************************************************************)
(* What the scan has found.                                                *)
(***************************************************************************)
LEMMA FoundMore ==
    ASSUME text \in Seq(Nat), NEW ps \in Seq(Nat), NEW b \in Int, NEW z \in Int, NEW upto \in Int,
           b <= z, z < upto, FoundUpTo(ps, b), <<b, z>> \in TextRuns,
           \A r \in TextRuns : r[2] < upto => r[2] < b \/ r = <<b, z>>
    PROVE  FoundUpTo(Append(ps, RunLength(<<b, z>>)), upto)
<1>1. PICK runs \in [DOMAIN ps -> TextRuns] : Found(runs, ps, b)
  BY DEF FoundUpTo
<1> DEFINE n == Len(ps)
           x == <<b, z>>
           qs == Append(ps, RunLength(x))
           more == [i \in 1..(n + 1) |-> IF i = n + 1 THEN x ELSE runs[i]]
<1>2. n \in Nat /\ DOMAIN ps = 1..n /\ DOMAIN qs = 1..(n + 1)
  OBVIOUS
<1>3. qs[n + 1] = RunLength(x) /\ \A i \in 1..n : qs[i] = ps[i]
  OBVIOUS
<1>4. x[1] = b /\ x[2] = z /\ x \in TextRuns
  OBVIOUS
<1> HIDE DEF n, x, qs
<1>5. /\ runs \in [1..n -> TextRuns]
      /\ \A i \in 1..n : ps[i] = RunLength(runs[i]) /\ runs[i][2] < b
      /\ \A r \in TextRuns : r[2] < b => \E i \in 1..n : runs[i] = r
      /\ \A i, j \in 1..n : i < j => runs[i][2] < runs[j][1]
  BY <1>1, <1>2 DEF Found
<1>6. \A r \in TextRuns : r[2] \in Int
  BY Runs DEF IsRun
<1>7. more \in [1..(n + 1) -> TextRuns]
  <2> SUFFICES ASSUME NEW i \in 1..(n + 1), i # n + 1 PROVE runs[i] \in TextRuns
    BY <1>4
  <2>1. i \in 1..n
    BY <1>2
  <2> QED BY <1>5, <2>1
<1>8. more[n + 1] = x /\ \A i \in 1..n : more[i] = runs[i]
  BY <1>2
<1> HIDE DEF more
<1>9. \A i \in 1..(n + 1) : i = n + 1 \/ i \in 1..n
  BY <1>2
<1>10. ASSUME NEW i \in 1..(n + 1) PROVE qs[i] = RunLength(more[i]) /\ more[i][2] < upto
  <2>1. CASE i = n + 1
    BY <1>3, <1>4, <1>8, <2>1
  <2>2. CASE i \in 1..n
    <3>1. qs[i] = RunLength(more[i])
      BY <1>3, <1>5, <1>8, <2>2
    <3>2. more[i][2] < b /\ more[i][2] \in Int
      BY <1>5, <1>6, <1>8, <2>2
    <3> QED BY <3>1, <3>2
  <2> QED BY <1>9, <2>1, <2>2
<1>11. ASSUME NEW r \in TextRuns, r[2] < upto PROVE \E i \in 1..(n + 1) : more[i] = r
  <2>1. r[2] < b \/ r = x
    BY <1>11 DEF x
  <2>2. n + 1 \in 1..(n + 1) /\ \A i \in 1..n : i \in 1..(n + 1)
    BY <1>2
  <2> QED BY <1>5, <1>8, <2>1, <2>2
<1>12. ASSUME NEW i \in 1..(n + 1), NEW j \in 1..(n + 1), i < j
       PROVE  more[i][2] < more[j][1]
  <2>1. i \in 1..n
    BY <1>2, <1>12
  <2>2. CASE j = n + 1
    BY <1>4, <1>5, <1>8, <2>1, <2>2
  <2>3. CASE j \in 1..n
    BY <1>5, <1>8, <1>12, <2>1, <2>3
  <2> QED BY <1>9, <2>2, <2>3
<1>13. Found(more, qs, upto)
  BY <1>2, <1>7, <1>10, <1>11, <1>12 DEF Found
<1>14. more \in [DOMAIN qs -> TextRuns]
  BY <1>2, <1>7
<1>15. FoundUpTo(qs, upto)
  BY <1>13, <1>14, Zenon DEF FoundUpTo
<1> QED BY <1>15 DEF qs, x

\* Where no run ends, none is found.
LEMMA FoundSame ==
    ASSUME NEW ps, NEW b \in Int, NEW upto \in Int, b <= upto, FoundUpTo(ps, b),
           \A r \in TextRuns : r[2] < upto => r[2] < b
    PROVE  FoundUpTo(ps, upto)
<1>1. PICK runs \in [DOMAIN ps -> TextRuns] : Found(runs, ps, b)
  BY DEF FoundUpTo
<1>2. \A r \in TextRuns : r[2] \in Int
  BY Runs DEF IsRun
<1>3. Found(runs, ps, upto)
  BY <1>1, <1>2 DEF Found
<1> QED BY <1>3 DEF FoundUpTo

-----------------------------------------------------------------------------
(***************************************************************************)
(* The scan keeps what it has found.                                       *)
(***************************************************************************)
LEMMA RunsStay ==
    ASSUME text' = text
    PROVE  TextRuns' = TextRuns /\ \A r : RunLength(r)' = RunLength(r)
<1>1. TextRuns' = TextRuns
  BY DEF TextRuns
<1>2. ASSUME NEW r PROVE RunLength(r)' = RunLength(r)
  BY DEF RunLength
<1> QED BY <1>1, <1>2

\* What was found stays while the text and the paragraphs do.
LEMMA FoundStays ==
    ASSUME text' = text, NEW b, NEW ps, ps = paragraphs', FoundUpTo(ps, b)
    PROVE  FoundUpTo(paragraphs, b)'
<1>1. PICK runs \in [DOMAIN ps -> TextRuns] : Found(runs, ps, b)
  BY DEF FoundUpTo
<1>2. TextRuns' = TextRuns
  BY RunsStay
<1>3. \A i \in DOMAIN ps : RunLength(runs[i])' = RunLength(runs[i])
  BY RunsStay
<1>4. Found(runs, paragraphs, b)'
  BY <1>1, <1>2, <1>3 DEF Found
<1>5. runs \in [DOMAIN paragraphs' -> TextRuns']
  BY <1>2
<1> QED BY <1>4, <1>5 DEF FoundUpTo

\* Before the packing there are no chunks to say anything of.
LEMMA NothingCut ==
    ASSUME chunks' = <<>>
    PROVE  ChunksFit' /\ NoNeedlessCut'
<1>1. DOMAIN <<>> = {} /\ 1..Len(<<>>) - 1 = {}
  OBVIOUS
<1> QED BY <1>1 DEF ChunksFit, NoNeedlessCut

\* Cut begins at the first line, with nothing found.
LEMMA EnterOK ==
    ASSUME CutInv, mode = "parsed", mode' = mode, Enter
    PROVE  CutInv'
<1>1. TypeOK'
  BY DEF Enter, CutInv, TypeOK, scanning, packing
<1>2. StageOK /\ Untouched /\ line = 1 /\ para = 0 /\ paragraphs = <<>> /\ size \in Int
  BY TextsAssumption DEF CutInv, StageOK, Enter, TypeOK, TextsAssumption
<1>3. StageOK'
  BY <1>2 DEF StageOK, Enter, Untouched, scanning, packing
<1>4. ChunksFit' /\ NoNeedlessCut'
  BY <1>2, NothingCut DEF Untouched, Enter, packing
<1>5. FoundUpTo(<<>>, 1)
  <2> DEFINE runs == [i \in {} |-> 0]
  <2>1. DOMAIN <<>> = {}
    OBVIOUS
  <2>2. \A r \in TextRuns : ~(r[2] < 1)
    BY Runs DEF IsRun
  <2>3. runs \in [{} -> TextRuns]
    OBVIOUS
  <2> QED BY <2>1, <2>2, <2>3 DEF FoundUpTo, Found
<1>6. text' = text /\ paragraphs' = <<>>
  BY <1>2 DEF Enter, scanning
<1>7. FoundUpTo(paragraphs, 1)'
  BY <1>5, <1>6, FoundStays
<1>8. InRun(1, line, para)'
  BY <1>2 DEF InRun, Enter, scanning
<1>9. ScanOK'
  <2>1. 1 \in 1..line'
    BY <1>2 DEF Enter, scanning
  <2>2. ~(pc' \in {"pack", "done"} /\ text' # <<>>)
    BY DEF Enter
  <2> QED BY <1>7, <1>8, <2>1, <2>2 DEF ScanOK
<1>10. LinesOK'
  <2>1. pc' = "scan" => line' = 1
    BY <1>2 DEF Enter, scanning
  <2>2. pc' \in {"pack", "done"} => text' = <<>>
    BY <1>6 DEF Enter
  <2>3. 1..(1 - 1) = {} /\ 1..Len(<<>>) = {}
    OBVIOUS
  <2> QED BY <2>1, <2>2, <2>3 DEF LinesOK
<1>11. PackOK'
  <2>1. pc' # "pack"
    BY DEF Enter
  <2>2. chunks' = <<>> /\ FlattenSeq(<<>>) = <<>> /\ Len(<<>>) = 0
    BY <1>2, FlattenNone DEF Untouched, Enter, packing
  <2>3. Covers(FlattenSeq(chunks), Len(paragraphs))'
    BY <1>6, <2>2 DEF Covers
  <2> QED BY <2>1, <2>3 DEF PackOK
<1> QED BY <1>1, <1>3, <1>4, <1>9, <1>10, <1>11 DEF CutInv

\* The paragraph that ends before line l, if there is one, is found.
LEMMA EndedOK ==
    ASSUME CutInv, pc = "scan", line = Len(text) + 1 \/ text[line] = 0
    PROVE  /\ Ended \in Seq(Nat \ {0}) /\ Ended \in Seq(Nat)
           /\ FoundUpTo(Ended, line) /\ line \in Int
           /\ \A r \in TextRuns : r[2] # line
<1>1. /\ text \in Seq(Nat) /\ line \in 1..Len(text) + 1 /\ para \in Nat
      /\ paragraphs \in Seq(Nat \ {0}) /\ line \in Int
  BY DEF CutInv, TypeOK
<1>2. Ended \in Seq(Nat \ {0}) /\ Ended \in Seq(Nat) /\ paragraphs \in Seq(Nat)
  <2>1. paragraphs \in Seq(Nat)
    BY <1>1
  <2>2. CASE para > 0
    BY <1>1, <2>1, <2>2 DEF Ended
  <2>3. CASE ~(para > 0)
    BY <1>1, <2>1, <2>3 DEF Ended
  <2> QED BY <2>1, <2>2, <2>3
<1>3. PICK b \in 1..line : InRun(b, line, para) /\ FoundUpTo(paragraphs, b)
  BY DEF CutInv, ScanOK
<1>4. b \in Int /\ b \in 1..Len(text) + 1
  BY <1>1
<1>5. \A r \in TextRuns : r[2] \in 1..Len(text) /\ text[r[2]] > 0
  BY Runs DEF IsRun
<1>6. \A r \in TextRuns : r[2] # line
  BY <1>1, <1>5
<1>7. CASE b = line
  <2>1. Ended = paragraphs
    BY <1>3, <1>7 DEF InRun, Ended
  <2> QED BY <1>1, <1>2, <1>3, <1>6, <1>7, <2>1
<1>8. CASE b # line
  <2>1. b \in 1..(line - 1)
    BY <1>1, <1>8
  <2>2. /\ b = 1 \/ text[b - 1] = 0
        /\ \A i \in b..(line - 1) : text[i] > 0
        /\ para > 0 /\ para = RunLength(<<b, line - 1>>)
    BY <1>3, <1>8 DEF InRun
  <2>3. /\ <<b, line - 1>> \in TextRuns
        /\ \A r \in TextRuns : r[2] <= line => r[2] < b \/ r = <<b, line - 1>>
    BY <1>1, <2>1, <2>2, RunEnds
  <2>4. /\ line - 1 \in Int /\ b <= line - 1 /\ line - 1 < line
        /\ \A r \in TextRuns : r[2] < line => r[2] < b \/ r = <<b, line - 1>>
    BY <1>1, <1>4, <1>5, <2>1, <2>3
  <2> DEFINE z == line - 1
  <2>5. FoundUpTo(Append(paragraphs, RunLength(<<b, z>>)), line)
    <3>1. z \in Int /\ b <= z /\ z < line /\ <<b, z>> \in TextRuns
      BY <2>3, <2>4
    <3>2. \A r \in TextRuns : r[2] < line => r[2] < b \/ r = <<b, z>>
      BY <2>4
    <3> HIDE DEF z
    <3> QED BY ONLY <1>1, <1>2, <1>3, <1>4, <3>1, <3>2, FoundMore
  <2>6. Ended = Append(paragraphs, RunLength(<<b, z>>))
    BY <2>2 DEF Ended
  <2> QED BY <1>1, <1>2, <1>6, <2>5, <2>6
<1> QED BY <1>7, <1>8

\* As FoundStays, for the paragraph being read.
LEMMA InRunStays ==
    ASSUME text' = text, NEW b, NEW l, NEW n, l = line', n = para', InRun(b, l, n)
    PROVE  InRun(b, line, para)'
<1>1. RunLength(<<b, line - 1>>)' = RunLength(<<b, l - 1>>)
  BY DEF RunLength
<1> QED BY <1>1 DEF InRun

\* A blank line ends the run that is being read, if one is.
LEMMA BlankLineOK ==
    ASSUME CutInv, mode = "parsed", mode' = mode, BlankLine
    PROVE  CutInv'
<1>1. /\ pc = "scan" /\ pc' = pc /\ text' = text /\ size' = size /\ Untouched /\ size > 0
      /\ next' = next /\ current' = current /\ runes' = runes /\ chunks' = chunks
      /\ paragraphs' = Ended /\ para' = 0 /\ line' = line + 1 /\ text # <<>>
  BY DEF BlankLine, packing, CutInv, StageOK
<1>2. /\ text \in Seq(Nat) /\ line \in 1..Len(text) + 1 /\ line \in Int
      /\ line <= Len(text) /\ text[line] = 0
  BY DEF BlankLine, CutInv, TypeOK
<1>3. /\ Ended \in Seq(Nat \ {0}) /\ Ended \in Seq(Nat)
      /\ FoundUpTo(Ended, line) /\ \A r \in TextRuns : r[2] # line
  BY <1>1, <1>2, EndedOK
<1>4. TypeOK'
  <2>1. 1 \in 1..Len(Ended) + 1
    BY <1>3
  <2> QED BY <1>1, <1>2, <1>3, <2>1 DEF CutInv, TypeOK, Untouched
<1>5. StageOK'
  BY <1>1 DEF StageOK, Untouched
<1>6. ChunksFit' /\ NoNeedlessCut'
  BY <1>1, NothingCut DEF Untouched
<1>7. PICK b : b = line + 1
  OBVIOUS
<1>8. FoundUpTo(paragraphs, b)'
  <2>1. \A r \in TextRuns : r[2] \in Int
    BY Runs DEF IsRun
  <2>2. b \in Int /\ line <= b /\ \A r \in TextRuns : r[2] < b => r[2] < line
    BY <1>2, <1>3, <1>7, <2>1
  <2>3. FoundUpTo(Ended, b)
    BY ONLY <1>2, <1>3, <2>2, FoundSame
  <2> QED BY ONLY <1>1, <2>3, FoundStays
<1>9. InRun(b, line, para)' /\ b \in 1..line'
  BY <1>1, <1>2, <1>7 DEF InRun
<1>10. ScanOK'
  BY <1>1, <1>8, <1>9 DEF ScanOK
<1>11. LinesOK'
  BY <1>1, <1>2, TextsAssumption DEF LinesOK, CutInv, TextsAssumption
<1>12. PackOK'
  BY <1>1 DEF PackOK
<1> QED BY <1>4, <1>5, <1>6, <1>10, <1>11, <1>12 DEF CutInv

\* A line of text begins a run or lengthens it.
LEMMA TextLineOK ==
    ASSUME CutInv, mode = "parsed", mode' = mode, TextLine
    PROVE  CutInv'
<1>1. /\ pc = "scan" /\ pc' = pc /\ text' = text /\ size' = size /\ Untouched /\ size > 0
      /\ next' = next /\ current' = current /\ runes' = runes /\ chunks' = chunks
      /\ paragraphs' = paragraphs /\ para' = Longer /\ line' = line + 1 /\ text # <<>>
  BY DEF TextLine, packing, CutInv, StageOK
<1>2. /\ text \in Seq(Nat) /\ line \in 1..Len(text) + 1 /\ line \in Int /\ para \in Nat
      /\ line \in 1..Len(text) /\ text[line] \in Int /\ text[line] > 0 /\ text[line] <= MaxLine
      /\ MaxLine \in Nat
  BY TextsAssumption DEF TextLine, CutInv, TypeOK, TextsAssumption
<1>3. TypeOK'
  <2>1. Longer \in Nat
    BY <1>2 DEF Longer
  <2> QED BY <1>1, <1>2, <2>1 DEF CutInv, TypeOK, Untouched
<1>4. StageOK'
  BY <1>1 DEF StageOK, Untouched
<1>5. ChunksFit' /\ NoNeedlessCut'
  BY <1>1, NothingCut DEF Untouched
<1>6. PICK b \in 1..line : InRun(b, line, para) /\ FoundUpTo(paragraphs, b)
  BY <1>1 DEF CutInv, ScanOK
<1>7. FoundUpTo(paragraphs, b)'
  BY ONLY <1>1, <1>6, FoundStays
<1>8. Longer > 0 /\ Longer = RunLength(<<b, line>>)
  <2>1. CASE b = line
    <3>1. para = 0
      BY <1>6, <2>1 DEF InRun
    <3>2. RunLength(<<line, line>>) = text[line]
      BY <1>2, OneLine
    <3> QED BY <1>2, <2>1, <3>1, <3>2 DEF Longer
  <2>2. CASE b # line
    <3>1. para > 0 /\ para = RunLength(<<b, line - 1>>) /\ b \in 1..(line - 1)
      BY <1>2, <1>6, <2>2 DEF InRun
    <3>2. RunLength(<<b, line>>) = RunLength(<<b, line - 1>>) + 1 + text[line]
      BY <1>2, <3>1, OneLineMore
    <3>3. Longer = para + 1 + text[line]
      BY <3>1 DEF Longer
    <3> QED BY <1>2, <3>1, <3>2, <3>3
  <2> QED BY <2>1, <2>2
<1>9. InRun(b, line, para)' /\ b \in 1..line'
  <2>1. b = 1 \/ text[b - 1] = 0
    BY <1>6 DEF InRun
  <2>2. \A i \in b..line : text[i] > 0
    BY <1>2, <1>6 DEF InRun
  <2>3. (line + 1) - 1 = line /\ b \in Int /\ b # line + 1 /\ b \in 1..(line + 1)
    BY <1>2
  <2> DEFINE l == line + 1
             n == Longer
  <2>4. l = line' /\ n = para'
    BY <1>1
  <2>5. InRun(b, l, n)
    BY <1>8, <2>1, <2>2, <2>3 DEF InRun
  <2> HIDE DEF l, n
  <2>6. InRun(b, line, para)'
    BY ONLY <1>1, <2>4, <2>5, InRunStays
  <2> QED BY <1>1, <2>3, <2>6
<1>10. ScanOK'
  BY <1>1, <1>7, <1>9 DEF ScanOK
<1>11. LinesOK'
  BY <1>1, <1>2 DEF LinesOK, CutInv
<1>12. PackOK'
  BY <1>1 DEF PackOK
<1> QED BY <1>3, <1>4, <1>5, <1>10, <1>11, <1>12 DEF CutInv

LEMMA LineTooLongOK ==
    ASSUME CutInv, mode = "parsed", mode' = mode, LineTooLong
    PROVE  CutInv'
<1>1. /\ pc = "scan" /\ pc' = "error" /\ UNCHANGED <<text, size, line, para, paragraphs>>
      /\ Untouched /\ next' = next /\ current' = current /\ runes' = runes
      /\ chunks' = chunks /\ text # <<>>
  BY DEF LineTooLong, scanning, packing, CutInv, StageOK
<1>2. TypeOK' /\ StageOK'
  BY <1>1 DEF CutInv, TypeOK, StageOK, Untouched
<1>3. ChunksFit' /\ NoNeedlessCut'
  BY <1>1, NothingCut DEF Untouched
<1>4. ScanOK' /\ LinesOK' /\ PackOK'
  BY <1>1 DEF ScanOK, LinesOK, PackOK
<1> QED BY <1>2, <1>3, <1>4 DEF CutInv

\* The end of the text ends the last run.
LEMMA ScanEndsOK ==
    ASSUME CutInv, mode = "parsed", mode' = mode, ScanEnds
    PROVE  CutInv'
<1>1. /\ pc = "scan" /\ pc' = "pack" /\ text' = text /\ size' = size /\ Untouched /\ size > 0
      /\ next' = next /\ current' = current /\ runes' = runes /\ chunks' = chunks
      /\ paragraphs' = Ended /\ para' = para /\ line' = line /\ text # <<>>
  BY DEF ScanEnds, packing, CutInv, StageOK
<1>2. /\ text \in Seq(Nat) /\ line = Len(text) + 1 /\ line \in 1..Len(text) + 1
  BY DEF ScanEnds, CutInv, TypeOK
<1>3. Ended \in Seq(Nat \ {0}) /\ FoundUpTo(Ended, line)
  BY <1>1, <1>2, EndedOK
<1>4. TypeOK'
  <2>1. 1 \in 1..Len(Ended) + 1
    BY <1>3
  <2> QED BY <1>1, <1>2, <1>3, <2>1 DEF CutInv, TypeOK, Untouched
<1>5. StageOK'
  BY <1>1 DEF StageOK, Untouched
<1>6. ChunksFit' /\ NoNeedlessCut'
  BY <1>1, NothingCut DEF Untouched
<1>7. PICK b : b = line
  OBVIOUS
<1>8. FoundUpTo(paragraphs, b)'
  BY ONLY <1>1, <1>3, <1>7, FoundStays
<1>9. ScanOK'
  BY <1>1, <1>2, <1>7, <1>8 DEF ScanOK
<1>10. LinesOK'
  BY <1>1, <1>2 DEF LinesOK, CutInv
<1>11. PackOK'
  <2>1. CurrentOK' /\ LinkOK'
    BY <1>1 DEF CurrentOK, LinkOK, Untouched
  <2>2. FlattenSeq(chunks') \o current' = <<>>
    BY <1>1, FlattenNone DEF Untouched
  <2>3. Covers(FlattenSeq(chunks) \o current, next - 1)'
    BY <1>1, <2>2 DEF Covers, Untouched
  <2> QED BY <1>1, <2>1, <2>3 DEF PackOK
<1> QED BY <1>4, <1>5, <1>6, <1>9, <1>10, <1>11 DEF CutInv

-----------------------------------------------------------------------------
(***************************************************************************)
(* Chunks and pieces.                                                      *)
(***************************************************************************)
LEMMA PieceIs ==
    ASSUME NEW x \in Piece
    PROVE  PieceLength(x) \in Int /\ x.para \in Nat /\ x.from \in Nat /\ x.to \in Nat
BY DEF Piece, PieceLength

\* A chunk grows by a piece and the separator before it.
LEMMA LengthMore ==
    ASSUME NEW c \in Chunk, NEW x \in Piece
    PROVE  /\ Length(c) \in Int
           /\ Length(Append(c, x)) = Length(c) + 2 + PieceLength(x)
<1> DEFINE d == Append(c, x)
           s == [i \in DOMAIN c |-> PieceLength(c[i])]
           r == [i \in DOMAIN d |-> PieceLength(d[i])]
           n == Len(c)
<1>1. /\ n \in Nat /\ Len(d) = n + 1 /\ DOMAIN c = 1..n /\ DOMAIN d = 1..(n + 1)
      /\ d[n + 1] = x /\ \A i \in 1..n : d[i] = c[i] /\ c[i] \in Piece
  BY DEF Chunk
<1> HIDE DEF d, n
<1>2. /\ s \in Seq(Int) /\ Len(s) = n
  <2>1. \A i \in 1..n : PieceLength(c[i]) \in Int
    BY <1>1, PieceIs
  <2>2. s = [i \in 1..n |-> PieceLength(c[i])]
    BY <1>1
  <2> HIDE DEF s
  <2> QED BY <1>1, <2>1, <2>2
<1>3. r \in Seq(Int) /\ Len(r) = n + 1
  <2>1. \A i \in 1..(n + 1) : d[i] \in Piece
    BY <1>1
  <2>2. \A i \in 1..(n + 1) : PieceLength(d[i]) \in Int
    BY <2>1, PieceIs
  <2>3. r = [i \in 1..(n + 1) |-> PieceLength(d[i])]
    BY <1>1
  <2> HIDE DEF r
  <2> QED BY <1>1, <2>2, <2>3
<1>4. r[n + 1] = PieceLength(x) /\ \A i \in 1..n : r[i] = s[i]
  BY <1>1
<1>5. Length(c) = SumOf(s) + 2 * (n - 1)
  BY DEF Length, Total, SumOf, n
<1>6. Length(d) = SumOf(r) + 2 * ((n + 1) - 1)
  BY <1>1 DEF Length, Total, SumOf
<1> HIDE DEF s, r
<1>7. SumOf(r) = SumOf(s) + r[n + 1] /\ SumOf(s) \in Int
  BY <1>1, <1>2, <1>3, <1>4, SumExtends, SumType
<1>8. Length(d) = Length(c) + 2 + PieceLength(x)
  <2> DEFINE u == SumOf(s)
             v == PieceLength(x)
             w == SumOf(r)
  <2>1. u \in Int /\ v \in Int /\ w = u + v
    BY <1>4, <1>7, PieceIs
  <2>2. Length(c) = u + 2 * (n - 1) /\ Length(d) = w + 2 * ((n + 1) - 1)
    BY <1>5, <1>6
  <2> HIDE DEF u, v, w
  <2>3. Length(d) = Length(c) + 2 + v
    BY <1>1, <2>1, <2>2
  <2> QED BY <2>3 DEF v
<1> QED BY <1>1, <1>5, <1>7, <1>8 DEF d

\* A chunk of one piece has no separator.
LEMMA LengthOne ==
    ASSUME NEW x \in Piece
    PROVE  Length(<<x>>) = PieceLength(x)
<1> DEFINE e == <<>>
<1>1. e \in Chunk /\ Append(e, x) = <<x>> /\ Len(e) = 0
  BY DEF Chunk
<1>2. Length(Append(e, x)) = Length(e) + 2 + PieceLength(x)
  BY <1>1, LengthMore
<1>3. Length(e) = SumOf(<<>>) + 2 * (0 - 1)
  <2>1. [i \in DOMAIN e |-> PieceLength(e[i])] = <<>>
    OBVIOUS
  <2> HIDE DEF e
  <2> QED BY <1>1, <2>1 DEF Length, Total, SumOf
<1>4. PieceLength(x) \in Int
  BY PieceIs
<1> QED BY <1>1, <1>2, <1>3, <1>4, SumOfNone

\* Pieces q are paragraph m.
IsParagraph(q, m) ==
    /\ q # <<>>
    /\ q[1].para = m /\ q[1].from = 1
    /\ Last(q).para = m /\ Last(q).to = paragraphs[m]
    /\ \A i \in 1..Len(q) - 1 : Follows(q[i], q[i + 1])

\* Pieces of the next paragraph, first to last, go on where the others end.
LEMMA CoversMore ==
    ASSUME NEW p \in Seq(Piece), NEW n \in Nat, Covers(p, n),
           NEW q \in Seq(Piece), IsParagraph(q, n + 1)
    PROVE  Covers(p \o q, n + 1)
<1> DEFINE r == p \o q
           L == Len(p)
           M == Len(q)
<1>1. /\ L \in Nat /\ M \in Nat /\ Len(r) = L + M /\ (p = <<>> <=> L = 0) /\ M > 0
      /\ r[L + M] = q[M] /\ r[L + 1] = q[1]
      /\ \A i \in 1..L : r[i] = p[i]
      /\ \A i \in 1..M : r[L + i] = q[i]
  BY DEF IsParagraph
<1>2. Last(r) = Last(q) /\ Last(q) = q[M] /\ (L > 0 => Last(p) = p[L])
  BY <1>1 DEF Last
<1> HIDE DEF r, L, M
<1>3. r[1].para = 1 /\ r[1].from = 1
  <2>1. CASE L = 0
    BY <1>1, <2>1 DEF Covers, IsParagraph
  <2>2. CASE L > 0
    <3>1. r[1] = p[1] /\ n > 0
      BY <1>1, <2>2 DEF Covers
    <3> QED BY <3>1 DEF Covers
  <2> QED BY <1>1, <2>1, <2>2
<1>4. ASSUME NEW i \in 1..(L + M) - 1 PROVE Follows(r[i], r[i + 1])
  <2>1. CASE i < L
    <3>1. i \in 1..L /\ i + 1 \in 1..L /\ i \in 1..L - 1 /\ n > 0
      BY <1>1, <2>1 DEF Covers
    <3>2. Follows(p[i], p[i + 1])
      BY <3>1 DEF Covers, L
    <3> QED BY <1>1, <3>1, <3>2
  <2>2. CASE i = L
    <3>1. L > 0 /\ i \in 1..L /\ n > 0
      BY <1>1, <2>2 DEF Covers
    <3>2. r[i] = p[L] /\ r[i + 1] = q[1]
      BY <1>1, <2>2, <3>1
    <3>3. p[L].para = n /\ p[L].to = paragraphs[n] /\ q[1].para = n + 1 /\ q[1].from = 1
      BY <1>2, <3>1 DEF Covers, IsParagraph
    <3> QED BY <3>2, <3>3 DEF Follows
  <2>3. CASE i > L
    <3>1. L \in Nat /\ M \in Nat /\ i \in Int /\ i > L /\ i < L + M
      <4>1. L \in Nat /\ M \in Nat
        BY <1>1
      <4> QED BY ONLY <4>1, <2>3, i \in 1..(L + M) - 1
    <3>2. PICK j \in Nat : j > 0 /\ j < M /\ i = L + j
      <4>1. i - L \in Nat /\ i - L > 0 /\ i - L < M /\ i = L + (i - L)
        BY ONLY <3>1
      <4> QED BY <4>1
    <3>3. j \in 1..M /\ j + 1 \in 1..M /\ j \in 1..M - 1 /\ i + 1 = L + (j + 1)
      BY ONLY <3>1, <3>2
    <3>4. r[i] = q[j] /\ r[i + 1] = q[j + 1]
      <4>1. \A k \in 1..M : r[L + k] = q[k]
        BY <1>1
      <4> QED BY ONLY <3>2, <3>3, <4>1
    <3>5. Follows(q[j], q[j + 1])
      BY <3>3 DEF IsParagraph, M
    <3> QED BY <3>4, <3>5
  <2> QED BY <1>1, <2>1, <2>2, <2>3
<1>5. r # <<>>
  BY <1>1
<1>6. Last(r).para = n + 1 /\ Last(r).to = paragraphs[n + 1]
  BY <1>2 DEF IsParagraph
<1>7. Covers(r, n + 1)
  BY <1>1, <1>3, <1>4, <1>5, <1>6 DEF Covers
<1> QED BY <1>7 DEF r

\* Chunks cs are of the size asked for, and none ends early.
Fitting(cs) == \A i \in DOMAIN cs : Length(cs[i]) \in 1..size

\* No chunk of cs ends where the next one could have gone on.
Apart(cs) == \A i \in 1..Len(cs) - 1 : Full(cs[i], cs[i + 1])

\* A chunk that begins with a piece of a paragraph too long for one.
StartsCut(c) == c # <<>> /\ ~IsWhole(c[1])

\* One chunk more, which could not have gone into the last.
LEMMA AppendApart ==
    ASSUME NEW cs \in Seq(Chunk), NEW c \in Chunk, Fitting(cs), Apart(cs),
           Length(c) \in 1..size, cs # <<>> => Full(Last(cs), c)
    PROVE  Fitting(Append(cs, c)) /\ Apart(Append(cs, c))
<1> DEFINE ds == Append(cs, c)
           n == Len(cs)
<1>1. /\ n \in Nat /\ Len(ds) = n + 1 /\ DOMAIN cs = 1..n /\ DOMAIN ds = 1..(n + 1)
      /\ ds[n + 1] = c /\ \A i \in 1..n : ds[i] = cs[i]
      /\ (n > 0 => cs # <<>>)
  OBVIOUS
<1>2. n > 0 => Last(cs) = cs[n]
  BY DEF Last
<1> HIDE DEF ds, n
<1>3. Fitting(ds)
  BY <1>1 DEF Fitting
<1>4. ASSUME NEW i \in 1..(n + 1) - 1 PROVE Full(ds[i], ds[i + 1])
  <2>1. CASE i = n
    <3>1. n > 0 /\ ds[i] = cs[n] /\ ds[i + 1] = c
      BY <1>1, <2>1
    <3>2. Full(cs[n], c)
      BY <1>1, <1>2, <3>1
    <3> QED BY <3>1, <3>2
  <2>2. CASE i < n
    <3>1. i \in 1..n - 1 /\ i \in 1..n /\ i + 1 \in 1..n
      BY <1>1, <2>2
    <3>2. Full(cs[i], cs[i + 1])
      BY <3>1 DEF Apart, n
    <3> QED BY <1>1, <3>1, <3>2
  <2> QED BY <1>1, <2>1, <2>2
<1>5. Apart(ds)
  BY <1>1, <1>4 DEF Apart
<1> QED BY <1>3, <1>5 DEF ds

\* Chunks that all begin with such pieces go after any others.
LEMMA ConcatApart ==
    ASSUME NEW cs \in Seq(Chunk), NEW ds \in Seq(Chunk), Fitting(cs), Fitting(ds), Apart(cs),
           \A i \in 1..Len(ds) : StartsCut(ds[i])
    PROVE  Fitting(cs \o ds) /\ Apart(cs \o ds)
<1> DEFINE es == cs \o ds
           n == Len(cs)
           m == Len(ds)
<1>1. /\ n \in Nat /\ m \in Nat /\ Len(es) = n + m
      /\ DOMAIN cs = 1..n /\ DOMAIN ds = 1..m /\ DOMAIN es = 1..(n + m)
      /\ \A i \in 1..n : es[i] = cs[i]
      /\ \A i \in 1..m : es[n + i] = ds[i]
  OBVIOUS
<1> HIDE DEF es, n, m
<1>2. \A i \in 1..(n + m) : i \in 1..n \/ (i - n \in 1..m /\ n + (i - n) = i)
  BY <1>1
<1>3. \A i \in 1..(n + m) : i \in 1..n \/ es[i] = ds[i - n]
  BY <1>1, <1>2
<1>4. Fitting(es)
  <2> SUFFICES ASSUME NEW i \in 1..(n + m) PROVE Length(es[i]) \in 1..size
    BY <1>1 DEF Fitting
  <2>1. CASE i \in 1..n
    BY <1>1, <2>1 DEF Fitting
  <2>2. CASE i \notin 1..n
    <3>1. es[i] = ds[i - n] /\ i - n \in 1..m
      BY <1>2, <1>3, <2>2
    <3> QED BY <1>1, <3>1 DEF Fitting
  <2> QED BY <2>1, <2>2
<1>5. ASSUME NEW i \in 1..(n + m) - 1 PROVE Full(es[i], es[i + 1])
  <2>1. CASE i < n
    <3>1. i \in 1..n - 1 /\ i \in 1..n /\ i + 1 \in 1..n
      BY <1>1, <2>1
    <3>2. Full(cs[i], cs[i + 1])
      BY <3>1 DEF Apart, n
    <3> QED BY <1>1, <3>1, <3>2
  <2>2. CASE i >= n
    <3>1. i + 1 \in 1..(n + m) /\ i + 1 \notin 1..n
      BY <1>1, <2>2
    <3>2. es[i + 1] = ds[(i + 1) - n] /\ (i + 1) - n \in 1..m
      BY <1>2, <1>3, <3>1
    <3>3. StartsCut(es[i + 1])
      BY <3>2 DEF m
    <3> QED BY <3>3 DEF Full, StartsCut
  <2> QED BY <1>1, <2>1, <2>2
<1>6. Apart(es)
  BY <1>1, <1>5 DEF Apart
<1> QED BY <1>4, <1>6 DEF es

\* Integer division, as SMT knows it.
LEMMA Division ==
    ASSUME NEW a \in Nat, NEW s \in Nat \ {0}
    PROVE  a \div s \in Int /\ s * (a \div s) <= a /\ a < s * (a \div s) + s
BY Z3

\* Products are compared by their factors.
LEMMA Multiples ==
    ASSUME NEW i \in Int, NEW j \in Int, NEW s \in Nat \ {0}
    PROVE  /\ i <= j => s * i <= s * j
           /\ i * s = s * i /\ i * s \in Int /\ (i - 1) * s = s * i - s
           /\ i >= 1 => (i - 1) * s >= 0
           /\ s * i > s => i > 1
BY Z3

\* A paragraph longer than s needs at least two pieces; only the last may be
\* short, and none is empty.
LEMMA SplitEnds ==
    ASSUME NEW P \in Nat, NEW s \in Nat \ {0}, P > s
    PROVE  LET d == (P + s - 1) \div s IN
           /\ d \in Int /\ d >= 2
           /\ d * s >= P
           /\ \A k \in 1..d : (k - 1) * s \in Nat /\ (k - 1) * s + 1 <= P
           /\ \A k \in 1..(d - 1) : k * s < P
<1> DEFINE d == (P + s - 1) \div s
<1>1. P + s - 1 \in Nat
  OBVIOUS
<1>2. d \in Int /\ s * d <= P + s - 1 /\ P + s - 1 < s * d + s
  BY <1>1, Division
<1> HIDE DEF d
<1>3. d * s = s * d /\ s * d \in Int
  BY <1>2, Multiples
<1>4. s * d >= P /\ s * d - s <= P - 1
  BY <1>2, <1>3
<1>5. d >= 2
  <2>1. s * d > s
    BY <1>3, <1>4
  <2>2. d > 1
    BY <1>2, <2>1, Multiples
  <2> QED BY <1>2, <2>2
<1>6. ASSUME NEW k \in 1..d PROVE (k - 1) * s \in Nat /\ (k - 1) * s + 1 <= P
  <2>1. k \in Int /\ k <= d /\ k >= 1
    BY <1>2
  <2>2. s * k <= s * d /\ (k - 1) * s = s * k - s /\ (k - 1) * s >= 0 /\ s * k \in Int
    BY <1>2, <2>1, Multiples
  <2> QED BY <1>3, <1>4, <2>2
<1>7. ASSUME NEW k \in 1..(d - 1) PROVE k * s < P
  <2>1. k + 1 \in 1..d /\ (k + 1) - 1 = k
    BY <1>2
  <2>2. ((k + 1) - 1) * s \in Nat /\ ((k + 1) - 1) * s + 1 <= P
    BY <1>6, <2>1
  <2> QED BY <2>1, <2>2
<1> QED BY <1>2, <1>3, <1>4, <1>5, <1>6, <1>7 DEF d

-----------------------------------------------------------------------------
(***************************************************************************)
(* A paragraph beyond the size of a chunk.                                 *)
(***************************************************************************)
PieceAt(k) ==
    [para |-> next, from |-> (k - 1) * size + 1, to |-> SmallerOf(k * size, Paragraph)]

\* How many pieces there are.
Many == (Paragraph + size - 1) \div size

\* The same of the paragraph at hand.
LEMMA SplitNumbers ==
    ASSUME CutInv, AtParagraph, Paragraph > size
    PROVE  /\ size \in Nat \ {0} /\ Paragraph \in Nat /\ Paragraph > 0 /\ next \in Nat
           /\ Many \in Int /\ Many >= 2 /\ Many * size >= Paragraph
           /\ \A k \in 1..Many : (k - 1) * size \in Nat /\ (k - 1) * size + 1 <= Paragraph
           /\ \A k \in 1..(Many - 1) : k * size < Paragraph
<1>1. size \in Int /\ size > 0
  BY TextsAssumption DEF AtParagraph, CutInv, TypeOK, StageOK, TextsAssumption
<1>2. Paragraph \in Nat /\ Paragraph > 0 /\ next \in Nat
  BY DEF AtParagraph, CutInv, TypeOK, Paragraph
<1>3. size \in Nat \ {0}
  BY <1>1
<1> DEFINE P == Paragraph
           s == size
<1>4. P \in Nat /\ s \in Nat \ {0} /\ P > s
  BY <1>2, <1>3
<1>5. Many = (P + s - 1) \div s
  BY DEF Many
<1> HIDE DEF P, s
<1>6. /\ Many \in Int /\ Many >= 2 /\ Many * s >= P
      /\ \A k \in 1..Many : (k - 1) * s \in Nat /\ (k - 1) * s + 1 <= P
      /\ \A k \in 1..(Many - 1) : k * s < P
  BY ONLY <1>4, <1>5, SplitEnds
<1> QED BY <1>2, <1>3, <1>6 DEF P, s

LEMMA EachPiece ==
    ASSUME CutInv, AtParagraph, Paragraph > size, NEW k \in 1..Many
    PROVE  /\ PieceAt(k) \in Piece /\ PieceLength(PieceAt(k)) \in 1..size
           /\ ~IsWhole(PieceAt(k))
<1> DEFINE a == (k - 1) * size
           b == k * size
           P == Paragraph
           to == SmallerOf(b, P)
<1>1. size \in Nat \ {0} /\ P \in Nat /\ next \in Nat /\ a \in Nat /\ a + 1 <= P /\ k \in Int
      /\ P > size /\ k >= 1
  BY SplitNumbers
<1>2. b = a + size /\ (k = 1 => a = 0) /\ (k > 1 => a >= size)
  <2>1. /\ k * size = size * k /\ (k - 1) * size = size * k - size /\ size * k \in Int
        /\ size * 1 = size /\ (k > 1 => size * 2 <= size * k) /\ size * 2 = size + size
    <3>1. size * 1 = size /\ size * 2 = size + size
      BY <1>1
    <3> QED BY <1>1, <3>1, Multiples
  <2> QED BY <1>1, <2>1
<1>3. PieceAt(k) = [para |-> next, from |-> a + 1, to |-> to]
  BY DEF PieceAt
<1>4. P = paragraphs[next]
  BY DEF Paragraph
<1> HIDE DEF a, b, P
<1>5. to \in Nat /\ to <= b /\ to >= a + 1 /\ (k = 1 => to = size)
  BY <1>1, <1>2 DEF SmallerOf
<1> HIDE DEF to
<1>6. PieceAt(k) \in Piece
  BY <1>1, <1>3, <1>5 DEF Piece
<1>7. PieceLength(PieceAt(k)) = to - (a + 1) + 1
  BY <1>3 DEF PieceLength
<1>8. PieceLength(PieceAt(k)) \in 1..size
  BY <1>1, <1>2, <1>5, <1>7
<1>9. IsWhole(PieceAt(k)) => a + 1 = 1 /\ to = P
  BY <1>3, <1>4 DEF IsWhole
<1>10. ~IsWhole(PieceAt(k))
  BY <1>1, <1>2, <1>5, <1>9
<1> QED BY <1>6, <1>8, <1>10

AllPieces == [k \in 1..Many |-> PieceAt(k)]

\* splitHard returns exactly these pieces, each a chunk of its own.
LEMMA SplitIs ==
    ASSUME CutInv, AtParagraph, Paragraph > size
    PROVE  /\ AllPieces \in Seq(Piece) /\ IsParagraph(AllPieces, next)
           /\ SplitByRunes \in Seq(Chunk) /\ Len(SplitByRunes) >= 2
           /\ Fitting(SplitByRunes)
           /\ \A i \in 1..Len(SplitByRunes) : StartsCut(SplitByRunes[i])
           /\ \A cs \in Seq(Chunk) :
                 FlattenSeq(cs \o SplitByRunes) = FlattenSeq(cs) \o AllPieces
<1> DEFINE ps == AllPieces
           D == Many
<1>1. /\ D \in Int /\ D >= 2 /\ D \in Nat
      /\ size \in Nat \ {0} /\ Paragraph \in Nat
  BY SplitNumbers
<1>2. /\ \A k \in 1..D : ps[k] = PieceAt(k) /\ ps[k] \in Piece
      /\ ps \in Seq(Piece) /\ Len(ps) = D /\ DOMAIN ps = 1..D
  <2>1. \A k \in 1..D : PieceAt(k) \in Piece
    BY EachPiece
  <2>2. \A k \in 1..D : ps[k] = PieceAt(k)
    BY DEF AllPieces
  <2>3. ps \in [1..D -> Piece]
    BY <2>1 DEF AllPieces
  <2> HIDE DEF ps, D
  <2> QED BY <1>1, <2>1, <2>2, <2>3
<1>3. SplitByRunes = [k \in 1..Len(ps) |-> <<ps[k]>>]
  <2>1. SplitByRunes = [k \in 1..D |-> <<PieceAt(k)>>]
    BY Zenon DEF SplitByRunes, Many, PieceAt
  <2> HIDE DEF ps, D
  <2> QED BY <1>2, <2>1
<1>4. ASSUME NEW cs \in Seq(Chunk)
      PROVE  FlattenSeq(cs \o SplitByRunes) = FlattenSeq(cs) \o ps
  <2>1. cs \in Seq(Seq(Piece))
    BY DEF Chunk
  <2> HIDE DEF ps
  <2>2. FlattenSeq(cs \o [k \in 1..Len(ps) |-> <<ps[k]>>]) = FlattenSeq(cs) \o ps
    BY <1>2, <2>1, FlattenOnes
  <2> QED BY <1>3, <2>2, Zenon
<1>5. /\ Len(SplitByRunes) = D /\ DOMAIN SplitByRunes = 1..D
      /\ SplitByRunes \in Seq(Chunk)
      /\ \A k \in 1..D : SplitByRunes[k] = <<ps[k]>>
  <2> DEFINE ss == SplitByRunes
  <2> HIDE DEF ps, D, ss
  <2>1. ss = [k \in 1..D |-> <<ps[k]>>]
    BY <1>2, <1>3 DEF ss
  <2>2. \A k \in 1..D : <<ps[k]>> \in Chunk
    <3> SUFFICES ASSUME NEW k \in 1..D PROVE <<ps[k]>> \in Chunk
      OBVIOUS
    <3> DEFINE x == ps[k]
    <3>1. x \in Piece
      BY <1>2
    <3> HIDE DEF x
    <3>2. <<x>> \in Seq(Piece)
      BY <3>1
    <3> QED BY <3>2 DEF x, Chunk
  <2>3. ss \in Seq(Chunk) /\ Len(ss) = D /\ DOMAIN ss = 1..D /\ \A k \in 1..D : ss[k] = <<ps[k]>>
    BY <1>1, <2>1, <2>2
  <2> QED BY <2>3 DEF ss
<1>6. ASSUME NEW k \in 1..D PROVE Length(SplitByRunes[k]) \in 1..size /\ StartsCut(SplitByRunes[k])
  <2> DEFINE x == PieceAt(k)
  <2>1. x \in Piece /\ PieceLength(x) \in 1..size /\ ~IsWhole(x)
    BY EachPiece
  <2>2. SplitByRunes[k] = <<x>>
    BY <1>2, <1>5
  <2> HIDE DEF x, ps, D
  <2>3. Length(<<x>>) = PieceLength(x)
    BY <2>1, LengthOne
  <2>4. <<x>> # <<>> /\ <<x>>[1] = x
    OBVIOUS
  <2> QED BY <2>1, <2>2, <2>3, <2>4 DEF StartsCut
<1>7. IsParagraph(ps, next)
  <2> HIDE DEF ps
  <2>1. Last(ps) = PieceAt(D) /\ ps[1] = PieceAt(1) /\ ps # <<>>
    BY <1>1, <1>2 DEF Last
  <2>2. PieceAt(1).para = next /\ PieceAt(1).from = 1
    <3>1. (1 - 1) * size + 1 = 1
      BY <1>1
    <3> QED BY <3>1 DEF PieceAt
  <2>3. PieceAt(D).para = next /\ PieceAt(D).to = paragraphs[next]
    <3>1. D * size >= Paragraph /\ D * size \in Int
      BY SplitNumbers
    <3>2. SmallerOf(D * size, Paragraph) = Paragraph
      <4> DEFINE w == D * size
      <4>1. w >= Paragraph /\ w \in Int
        BY <3>1
      <4> HIDE DEF w
      <4>2. SmallerOf(w, Paragraph) = Paragraph
        BY <1>1, <4>1 DEF SmallerOf
      <4> QED BY <4>2 DEF w
    <3> QED BY <3>2 DEF PieceAt, Paragraph
  <2>4. ASSUME NEW i \in 1..Len(ps) - 1 PROVE Follows(ps[i], ps[i + 1])
    <3>1. i \in 1..D /\ i + 1 \in 1..D /\ i \in 1..(D - 1) /\ (i + 1) - 1 = i
      BY <1>1, <1>2
    <3>2. i * size < Paragraph
      BY <3>1, SplitNumbers
    <3>3. SmallerOf(i * size, Paragraph) = i * size
      BY <3>2 DEF SmallerOf
    <3>4. PieceAt(i + 1).from = PieceAt(i).to + 1 /\ PieceAt(i + 1).para = PieceAt(i).para
      BY <3>1, <3>3 DEF PieceAt
    <3> QED BY <1>2, <3>1, <3>4 DEF Follows
  <2> QED BY <2>1, <2>2, <2>3, <2>4 DEF IsParagraph
<1> QED BY <1>1, <1>2, <1>4, <1>5, <1>6, <1>7 DEF Fitting

-----------------------------------------------------------------------------
(***************************************************************************)
(* The packing loop keeps the text whole and its chunks full.              *)
(***************************************************************************)
LEMMA Packing ==
    ASSUME CutInv, pc = "pack"
    PROVE  /\ chunks \in Seq(Chunk) /\ chunks \in Seq(Seq(Piece)) /\ current \in Chunk
           /\ current \in Seq(Piece) /\ runes \in Nat /\ size \in Int /\ size > 0
           /\ paragraphs \in Seq(Nat \ {0}) /\ next \in 1..Len(paragraphs) + 1
           /\ Fitting(chunks) /\ Apart(chunks) /\ CurrentOK /\ LinkOK /\ text # <<>>
           /\ Covers(FlattenSeq(chunks) \o current, next - 1)
           /\ FlattenSeq(chunks) \in Seq(Piece)
<1>1. /\ chunks \in Seq(Chunk) /\ current \in Chunk /\ runes \in Nat /\ size \in Int /\ size > 0
      /\ paragraphs \in Seq(Nat \ {0}) /\ next \in 1..Len(paragraphs) + 1 /\ text # <<>>
  BY TextsAssumption DEF CutInv, TypeOK, StageOK, TextsAssumption
<1>2. CurrentOK /\ LinkOK /\ Covers(FlattenSeq(chunks) \o current, next - 1)
  BY DEF CutInv, PackOK
<1>3. Fitting(chunks) /\ Apart(chunks)
  BY DEF CutInv, ChunksFit, Fitting, NoNeedlessCut, Apart, Full
<1>4. chunks \in Seq(Seq(Piece)) /\ current \in Seq(Piece)
  BY <1>1 DEF Chunk
<1>5. FlattenSeq(chunks) \in Seq(Piece)
  BY <1>4, FlattenType
<1> QED BY <1>1, <1>2, <1>3, <1>4, <1>5

\* The current chunk, once it is flushed, is one of the chunks.
LEMMA FlushedOK ==
    ASSUME CutInv, pc = "pack"
    PROVE  /\ Flushed \in Seq(Chunk) /\ Fitting(Flushed) /\ Apart(Flushed)
           /\ FlattenSeq(Flushed) = FlattenSeq(chunks) \o current
<1>1. CASE current = <<>>
  <2>1. Flushed = chunks
    BY <1>1, Packing DEF CurrentOK, Flushed
  <2>2. FlattenSeq(chunks) \o <<>> = FlattenSeq(chunks)
    <3> DEFINE f == FlattenSeq(chunks)
    <3>1. f \in Seq(Piece)
      BY Packing
    <3> HIDE DEF f
    <3>2. f \o <<>> = f
      BY <3>1
    <3> QED BY <3>2 DEF f
  <2> QED BY <1>1, <2>1, <2>2, Packing
<1>2. CASE current # <<>>
  <2>1. Flushed = Append(chunks, current) /\ Length(current) \in 1..size
        /\ (chunks # <<>> => Full(Last(chunks), current))
    BY <1>2, Packing DEF CurrentOK, LinkOK, Flushed
  <2>2. Append(chunks, current) \in Seq(Chunk)
    BY Packing
  <2>3. Fitting(Append(chunks, current)) /\ Apart(Append(chunks, current))
    BY <2>1, Packing, AppendApart
  <2>4. FlattenSeq(Append(chunks, current)) = FlattenSeq(chunks) \o current
    BY Packing, FlattenAppend
  <2> QED BY <2>1, <2>2, <2>3, <2>4
<1> QED BY <1>1, <1>2

\* What is said of the chunks stays while they do.
LEMMA ChunksStay ==
    ASSUME UNCHANGED <<paragraphs, size>>, NEW cs, cs = chunks', Fitting(cs), Apart(cs)
    PROVE  ChunksFit' /\ NoNeedlessCut'
BY DEF ChunksFit, NoNeedlessCut, Fitting, Apart, Full, IsWhole

\* As ChunksStay, for the pieces.
LEMMA CoversStays ==
    ASSUME UNCHANGED paragraphs, NEW p, NEW n, Covers(p, n)
    PROVE  Covers(p, n)'
BY DEF Covers, Follows

\* The scan is over, and what it found stays.
LEMMA ScanStays ==
    ASSUME CutInv, mode = "parsed", mode' = mode, pc = "pack", pc' \in {"pack", "done"},
           UNCHANGED <<text, size, scanning>>, size > 0, text # <<>>
    PROVE  ScanOK' /\ LinesOK' /\ StageOK'
<1>1. text' = text /\ paragraphs' = paragraphs /\ line' = line /\ para' = para /\ size' = size
  BY DEF scanning
<1>2. PICK b : b = Len(text) + 1
  OBVIOUS
<1>3. FoundUpTo(paragraphs, b)
  BY <1>2 DEF CutInv, ScanOK
<1>4. FoundUpTo(paragraphs, b)'
  <2> DEFINE ps == paragraphs
  <2>1. ps = paragraphs' /\ FoundUpTo(ps, b)
    BY <1>1, <1>3
  <2> HIDE DEF ps
  <2> QED BY ONLY <1>1, <2>1, FoundStays
<1>5. ScanOK'
  BY <1>1, <1>2, <1>4 DEF ScanOK
<1>6. LinesOK'
  BY <1>1 DEF LinesOK, CutInv
<1>7. StageOK'
  BY <1>1 DEF StageOK, CutInv
<1> QED BY <1>5, <1>6, <1>7

\* A paragraph that fits is one piece.
LEMMA WholeIs ==
    ASSUME CutInv, AtParagraph
    PROVE  /\ Whole \in Piece /\ PieceLength(Whole) = Paragraph /\ Paragraph \in Nat
           /\ Paragraph > 0 /\ IsWhole(Whole) /\ IsParagraph(<<Whole>>, next)
           /\ <<Whole>> \in Chunk /\ next \in Nat /\ next <= Len(paragraphs)
<1>1. next \in 1..Len(paragraphs) /\ next \in Nat /\ Paragraph \in Nat /\ Paragraph > 0
      /\ Paragraph = paragraphs[next] /\ next <= Len(paragraphs)
  BY Packing DEF AtParagraph, Paragraph
<1>2. Whole \in Piece /\ PieceLength(Whole) = Paragraph
  BY <1>1 DEF Whole, Piece, PieceLength
<1>3. Whole.para = next /\ Whole.from = 1 /\ Whole.to = paragraphs[next]
  BY <1>1 DEF Whole
<1> DEFINE x == Whole
<1>4. x \in Piece /\ x.para = next /\ x.from = 1 /\ x.to = paragraphs[next]
  BY <1>2, <1>3
<1> HIDE DEF x
<1>5. <<x>> \in Seq(Piece) /\ <<x>> # <<>> /\ Last(<<x>>) = x /\ <<x>>[1] = x
      /\ 1..Len(<<x>>) - 1 = {}
  BY <1>4 DEF Last
<1>6. IsParagraph(<<x>>, next)
  BY <1>4, <1>5 DEF IsParagraph
<1>7. IsWhole(x)
  BY <1>4 DEF IsWhole
<1> QED BY <1>1, <1>2, <1>5, <1>6, <1>7 DEF x, Chunk

\* A paragraph longer than a chunk: the current chunk is flushed, its pieces follow.
LEMMA SplitParagraphOK ==
    ASSUME CutInv, mode = "parsed", mode' = mode, SplitParagraph
    PROVE  CutInv'
<1>1. /\ pc = "pack" /\ AtParagraph /\ Paragraph > size /\ pc' = pc /\ text' = text
      /\ size' = size /\ paragraphs' = paragraphs /\ line' = line /\ para' = para
      /\ chunks' = Flushed \o SplitByRunes /\ current' = <<>> /\ runes' = 0 /\ next' = next + 1
  BY DEF SplitParagraph, AtParagraph, scanning
<1> DEFINE cs == Flushed \o SplitByRunes
           n == Len(SplitByRunes)
<1>2. /\ Flushed \in Seq(Chunk) /\ Fitting(Flushed) /\ Apart(Flushed)
      /\ FlattenSeq(Flushed) = FlattenSeq(chunks) \o current
  BY <1>1, FlushedOK
<1>3. /\ AllPieces \in Seq(Piece) /\ IsParagraph(AllPieces, next)
      /\ SplitByRunes \in Seq(Chunk) /\ n >= 2 /\ Fitting(SplitByRunes)
      /\ \A i \in 1..n : StartsCut(SplitByRunes[i])
      /\ FlattenSeq(cs) = FlattenSeq(Flushed) \o AllPieces
  BY <1>1, <1>2, SplitIs
<1>4. Fitting(cs) /\ Apart(cs)
  BY <1>2, <1>3, ConcatApart
<1>5. cs \in Seq(Chunk) /\ cs # <<>> /\ Last(cs) = SplitByRunes[n]
  <2> DEFINE fs == Flushed
             ss == SplitByRunes
  <2>1. fs \in Seq(Chunk) /\ ss \in Seq(Chunk) /\ Len(ss) = n /\ n >= 2
    BY <1>2, <1>3
  <2> HIDE DEF fs, ss, n
  <2>2. fs \o ss \in Seq(Chunk) /\ fs \o ss # <<>> /\ Len(fs \o ss) = Len(fs) + n
        /\ (fs \o ss)[Len(fs) + n] = ss[n]
    BY <2>1
  <2>3. Last(fs \o ss) = ss[n]
    BY <2>2 DEF Last
  <2> QED BY <2>2, <2>3 DEF fs, ss
<1>6. StartsCut(Last(cs))
  <2>1. n \in 1..n
    BY <1>3
  <2> QED BY <1>3, <1>5, <2>1
<1>7. Covers(FlattenSeq(cs), next)
  <2> DEFINE p == FlattenSeq(chunks) \o current
             m == next - 1
  <2>1. p \in Seq(Piece) /\ Covers(p, m)
    BY <1>1, Packing
  <2>2. m \in Nat /\ m + 1 = next
    BY <1>1, WholeIs, Packing
  <2> HIDE DEF p, m
  <2>3. Covers(p \o AllPieces, m + 1)
    BY <1>3, <2>1, <2>2, CoversMore
  <2> QED BY <1>2, <1>3, <2>2, <2>3 DEF p
<1> HIDE DEF cs
<1>8. chunks' = cs
  BY <1>1 DEF cs
<1>9. TypeOK'
  <2>1. <<>> \in Chunk /\ next + 1 \in 1..Len(paragraphs) + 1
    BY <1>1, WholeIs DEF Chunk
  <2> QED BY <1>1, <1>5, <1>8, <2>1 DEF CutInv, TypeOK
<1>10. ChunksFit' /\ NoNeedlessCut'
  BY <1>1, <1>4, <1>8, ChunksStay
<1>11. ScanOK' /\ LinesOK' /\ StageOK'
  BY <1>1, Packing, ScanStays DEF scanning
<1>12. PackOK'
  <2>1. CurrentOK'
    BY <1>1 DEF CurrentOK
  <2>2. LinkOK'
    BY <1>1, <1>6, <1>8 DEF LinkOK, StartsCut, IsWhole
  <2>3. Covers(FlattenSeq(chunks) \o current, next - 1)'
    <3> DEFINE f == FlattenSeq(cs)
    <3>1. f \in Seq(Piece)
      <4>1. cs \in Seq(Seq(Piece))
        BY <1>5 DEF Chunk
      <4> QED BY <4>1, FlattenType
    <3>2. FlattenSeq(chunks') \o current' = f
      <4>1. f \o <<>> = f
        <5> HIDE DEF f
        <5> QED BY <3>1
      <4> QED BY <1>1, <1>8, <4>1
    <3>3. next' - 1 = next
      BY <1>1, WholeIs
    <3> PICK q, m : q = f /\ m = next
      OBVIOUS
    <3>4. Covers(q, m)'
      BY <1>1, <1>7, CoversStays
    <3> QED BY <3>2, <3>3, <3>4
  <2> QED BY <1>1, <2>1, <2>2, <2>3 DEF PackOK
<1> QED BY <1>9, <1>10, <1>11, <1>12 DEF CutInv

\* A paragraph that still fits joins the current chunk.
LEMMA JoinParagraphOK ==
    ASSUME CutInv, mode = "parsed", mode' = mode, JoinParagraph
    PROVE  CutInv'
<1>1. /\ pc = "pack" /\ AtParagraph /\ Paragraph <= size /\ Fits /\ pc' = pc /\ text' = text
      /\ size' = size /\ paragraphs' = paragraphs /\ line' = line /\ para' = para
      /\ chunks' = chunks /\ current' = Append(current, Whole) /\ runes' = runes + Needed
      /\ next' = next + 1
  BY DEF JoinParagraph, AtParagraph, scanning
<1> DEFINE c == Append(current, Whole)
<1>2. /\ Whole \in Piece /\ PieceLength(Whole) = Paragraph /\ Paragraph \in Nat
      /\ Paragraph > 0 /\ IsWhole(Whole) /\ IsParagraph(<<Whole>>, next)
      /\ <<Whole>> \in Chunk /\ next \in Nat /\ next <= Len(paragraphs)
  BY <1>1, WholeIs
<1>3. /\ chunks \in Seq(Chunk) /\ current \in Chunk /\ current \in Seq(Piece) /\ runes \in Nat
      /\ size \in Int /\ size > 0
      /\ Fitting(chunks) /\ Apart(chunks) /\ CurrentOK /\ LinkOK
      /\ FlattenSeq(chunks) \in Seq(Piece)
  BY <1>1, Packing
<1>4. c \in Chunk /\ c \in Seq(Piece) /\ c # <<>>
      /\ c[1] = IF current = <<>> THEN Whole ELSE current[1]
  <2> DEFINE x == Whole
             d == current
  <2>1. x \in Piece /\ d \in Seq(Piece)
    BY <1>2, <1>3
  <2> HIDE DEF x, d
  <2>2. Append(d, x) \in Seq(Piece) /\ Append(d, x) # <<>>
        /\ Append(d, x)[1] = IF d = <<>> THEN x ELSE d[1]
    BY <2>1
  <2> QED BY <2>2 DEF x, d, Chunk
<1>5. runes' = Length(c) /\ runes' \in 1..size
  <2>1. CASE current = <<>>
    <3>1. runes = 0 /\ c = <<Whole>>
      BY <1>3, <2>1 DEF CurrentOK
    <3>2. Length(c) = Paragraph /\ Needed = Paragraph
      BY <1>2, <3>1, LengthOne DEF Needed
    <3> HIDE DEF c
    <3> QED BY <1>1, <1>2, <1>3, <3>1, <3>2
  <2>2. CASE current # <<>>
    <3>1. runes = Length(current) /\ runes \in 1..size
      BY <1>3, <2>2 DEF CurrentOK
    <3>2. Length(c) = Length(current) + 2 + PieceLength(Whole)
      BY <1>2, <1>3, LengthMore
    <3>3. Needed = Paragraph + 2
      BY <3>1 DEF Needed
    <3> HIDE DEF c
    <3>4. runes' = Length(c)
      BY <1>1, <1>2, <1>3, <3>1, <3>2, <3>3
    <3>5. runes' \in 1..size
      BY <1>1, <1>2, <1>3, <3>1, <3>3 DEF Fits
    <3> QED BY <3>4, <3>5
  <2> QED BY <2>1, <2>2
<1>6. Covers(FlattenSeq(chunks) \o c, next)
  <2> DEFINE f == FlattenSeq(chunks)
             x == <<Whole>>
             m == next - 1
  <2>1. f \in Seq(Piece) /\ x \in Seq(Piece) /\ IsParagraph(x, next) /\ f \o current \in Seq(Piece)
    BY <1>2, <1>3 DEF Chunk
  <2>2. m \in Nat /\ m + 1 = next /\ Covers(f \o current, m)
    BY <1>1, <1>2, Packing
  <2>3. f \o c = (f \o current) \o x
    <3> DEFINE d == current
               w == Whole
    <3>1. f \in Seq(Piece) /\ d \in Seq(Piece) /\ w \in Piece
      BY <1>2, <1>3
    <3> HIDE DEF f, d, w, c
    <3>2. f \o Append(d, w) = (f \o d) \o <<w>>
      BY <3>1
    <3> QED BY <3>2 DEF d, w, x, c
  <2> HIDE DEF f, x, m, c
  <2>4. Covers((f \o current) \o x, m + 1)
    BY <2>1, <2>2, CoversMore
  <2> QED BY <2>2, <2>3, <2>4 DEF f
<1> HIDE DEF c
<1>7. current' = c
  BY <1>1 DEF c
<1>8. TypeOK'
  <2>1. next + 1 \in 1..Len(paragraphs) + 1 /\ runes' \in Nat
    BY <1>2, <1>3, <1>5, Packing
  <2> QED BY <1>1, <1>4, <1>7, <2>1 DEF CutInv, TypeOK
<1>9. ChunksFit' /\ NoNeedlessCut'
  BY <1>1, <1>3, ChunksStay
<1>10. ScanOK' /\ LinesOK' /\ StageOK'
  BY <1>1, Packing, ScanStays DEF scanning
<1>11. PackOK'
  <2>1. CurrentOK'
    BY <1>1, <1>4, <1>5, <1>7 DEF CurrentOK
  <2>2. LinkOK'
    <3>1. chunks # <<>> => Full(Last(chunks), c)
      <4>1. CASE current = <<>>
        BY <1>3, <4>1 DEF LinkOK, Full
      <4>2. CASE current # <<>>
        BY <1>3, <1>4, <4>2 DEF LinkOK, Full
      <4> QED BY <4>1, <4>2
    <3>2. chunks' # <<>> => Full(Last(chunks), current)'
      BY <1>1, <1>7, <3>1 DEF Full, IsWhole
    <3> QED BY <1>4, <1>7, <3>2 DEF LinkOK
  <2>3. Covers(FlattenSeq(chunks) \o current, next - 1)'
    <3> PICK q, m : q = FlattenSeq(chunks) \o c /\ m = next
      OBVIOUS
    <3>1. Covers(q, m)'
      BY <1>1, <1>6, CoversStays
    <3>2. next' - 1 = next
      BY <1>1, <1>2
    <3> QED BY <1>1, <1>7, <3>1, <3>2
  <2> QED BY <1>1, <2>1, <2>2, <2>3 DEF PackOK
<1> QED BY <1>8, <1>9, <1>10, <1>11 DEF CutInv

\* A paragraph that no longer fits begins the next chunk.
LEMMA StartChunkOK ==
    ASSUME CutInv, mode = "parsed", mode' = mode, StartChunk
    PROVE  CutInv'
<1>1. /\ pc = "pack" /\ AtParagraph /\ Paragraph <= size /\ ~Fits /\ pc' = pc /\ text' = text
      /\ size' = size /\ paragraphs' = paragraphs /\ line' = line /\ para' = para
      /\ chunks' = Append(chunks, current) /\ current' = <<Whole>> /\ runes' = Paragraph
      /\ next' = next + 1
  BY DEF StartChunk, AtParagraph, scanning
<1> DEFINE cs == Append(chunks, current)
           c == <<Whole>>
<1>2. /\ Whole \in Piece /\ PieceLength(Whole) = Paragraph /\ Paragraph \in Nat
      /\ Paragraph > 0 /\ IsWhole(Whole) /\ IsParagraph(c, next)
      /\ c \in Chunk /\ next \in Nat /\ next <= Len(paragraphs)
  BY <1>1, WholeIs
<1>3. /\ chunks \in Seq(Chunk) /\ current \in Chunk /\ current \in Seq(Piece) /\ runes \in Nat
      /\ size \in Int /\ size > 0
      /\ Fitting(chunks) /\ Apart(chunks) /\ CurrentOK /\ LinkOK
      /\ FlattenSeq(chunks) \in Seq(Piece)
  BY <1>1, Packing
<1>4. runes > 0 /\ runes + Paragraph + 2 > size
  <2>1. runes = 0 => Needed = Paragraph
    BY DEF Needed
  <2>2. runes > 0
    BY <1>1, <1>2, <1>3, <2>1 DEF Fits
  <2> QED BY <1>1, <1>2, <1>3, <2>2 DEF Fits, Needed
<1>5. current # <<>> /\ runes = Length(current) /\ runes \in 1..size
      /\ (chunks # <<>> => Full(Last(chunks), current))
  BY <1>3, <1>4 DEF CurrentOK, LinkOK
<1>6. Fitting(cs) /\ Apart(cs)
  BY <1>3, <1>5, AppendApart
<1>7. cs \in Seq(Chunk) /\ Last(cs) = current /\ FlattenSeq(cs) = FlattenSeq(chunks) \o current
  <2>1. FlattenSeq(cs) = FlattenSeq(chunks) \o current
    BY <1>1, Packing, FlattenAppend
  <2>2. cs \in Seq(Chunk) /\ Last(cs) = current
    BY <1>3 DEF Last
  <2> QED BY <2>1, <2>2
<1>8. c # <<>> /\ c[1] = Whole /\ Length(c) = Paragraph
  BY <1>2, LengthOne
<1>9. Full(current, c)
  <2> HIDE DEF c
  <2> QED BY <1>2, <1>4, <1>5, <1>8 DEF Full
<1>10. Covers(FlattenSeq(cs) \o c, next)
  <2> DEFINE f == FlattenSeq(chunks)
             m == next - 1
  <2>1. c \in Seq(Piece) /\ f \o current \in Seq(Piece)
    BY <1>2, <1>3 DEF Chunk
  <2>2. m \in Nat /\ m + 1 = next /\ Covers(f \o current, m)
    BY <1>1, <1>2, Packing
  <2> HIDE DEF f, m, c
  <2>3. Covers((f \o current) \o c, m + 1)
    BY <1>2, <2>1, <2>2, CoversMore
  <2> QED BY <1>7, <2>2, <2>3 DEF f
<1> HIDE DEF cs, c
<1>11. chunks' = cs /\ current' = c
  BY <1>1 DEF cs, c
<1>12. TypeOK'
  <2>1. next + 1 \in 1..Len(paragraphs) + 1
    BY <1>1, <1>2, Packing
  <2> QED BY <1>1, <1>2, <1>7, <1>11, <2>1 DEF CutInv, TypeOK
<1>13. ChunksFit' /\ NoNeedlessCut'
  BY <1>1, <1>6, <1>11, ChunksStay
<1>14. ScanOK' /\ LinesOK' /\ StageOK'
  BY <1>1, Packing, ScanStays DEF scanning
<1>15. PackOK'
  <2>1. CurrentOK'
    BY <1>1, <1>2, <1>3, <1>8, <1>11 DEF CurrentOK
  <2>2. LinkOK'
    <3>1. Full(Last(chunks), current)'
      BY <1>1, <1>7, <1>9, <1>11 DEF Full, IsWhole
    <3> QED BY <1>8, <1>11, <3>1 DEF LinkOK
  <2>3. Covers(FlattenSeq(chunks) \o current, next - 1)'
    <3> PICK q, m : q = FlattenSeq(cs) \o c /\ m = next
      OBVIOUS
    <3>1. Covers(q, m)'
      BY <1>1, <1>10, CoversStays
    <3>2. next' - 1 = next
      BY <1>1, <1>2
    <3> QED BY <1>11, <3>1, <3>2
  <2> QED BY <1>1, <2>1, <2>2, <2>3 DEF PackOK
<1> QED BY <1>12, <1>13, <1>14, <1>15 DEF CutInv

\* After the last paragraph the current chunk is flushed.
LEMMA PackEndsOK ==
    ASSUME CutInv, mode = "parsed", mode' = mode, PackEnds
    PROVE  CutInv'
<1>1. /\ pc = "pack" /\ pc' = "done" /\ text' = text /\ size' = size
      /\ paragraphs' = paragraphs /\ line' = line /\ para' = para /\ next > Len(paragraphs)
      /\ chunks' = Flushed /\ current' = current /\ runes' = runes /\ next' = next
  BY DEF PackEnds, scanning
<1>2. /\ Flushed \in Seq(Chunk) /\ Fitting(Flushed) /\ Apart(Flushed)
      /\ FlattenSeq(Flushed) = FlattenSeq(chunks) \o current
  BY <1>1, FlushedOK
<1>3. next - 1 = Len(paragraphs)
  BY <1>1, Packing
<1>4. TypeOK'
  BY <1>1, <1>2 DEF CutInv, TypeOK
<1>5. ChunksFit' /\ NoNeedlessCut'
  BY <1>1, <1>2, ChunksStay
<1>6. ScanOK' /\ LinesOK' /\ StageOK'
  BY <1>1, Packing, ScanStays DEF scanning
<1>7. PackOK'
  <2> PICK q, m : q = FlattenSeq(Flushed) /\ m = Len(paragraphs)
    OBVIOUS
  <2>1. Covers(q, m)
    BY <1>1, <1>2, <1>3, Packing
  <2>2. Covers(q, m)'
    BY <1>1, <2>1, CoversStays
  <2>3. Covers(FlattenSeq(chunks), Len(paragraphs))'
    BY <1>1, <2>2
  <2> QED BY <1>1, <2>3 DEF PackOK
<1> QED BY <1>4, <1>5, <1>6, <1>7 DEF CutInv

\* Every step of Cut keeps its invariant.
LEMMA CutOK ==
    ASSUME CutInv, Cut
    PROVE  CutInv'
<1>1. mode = "parsed" /\ mode' = mode
  BY DEF Cut, parsing
<1> QED BY <1>1, EnterOK, BlankLineOK, TextLineOK, LineTooLongOK, ScanEndsOK, SplitParagraphOK,
           JoinParagraphOK, StartChunkOK, PackEndsOK DEF Cut, Next

-----------------------------------------------------------------------------
(***************************************************************************)
(* The parser.                                                             *)
(***************************************************************************)
\* Trimming takes blank lines only.
LEMMA TrimIs ==
    ASSUME NEW lines \in Seq(Nat)
    PROVE  /\ TrimSpace(lines) \in Seq(Nat)
           /\ (\A i \in 1..Len(TrimSpace(lines)) : TrimSpace(lines)[i] <= MaxLine)
                 => \A i \in DOMAIN lines : lines[i] <= MaxLine
<1> DEFINE inked == {i \in DOMAIN lines : lines[i] > 0}
           n == Len(lines)
<1>0. MaxLine \in Nat
  BY TextsAssumption DEF TextsAssumption
<1>1. n \in Nat /\ DOMAIN lines = 1..n /\ \A i \in 1..n : lines[i] \in Nat
  OBVIOUS
<1>2. inked \in SUBSET Nat /\ inked \in Below(n) /\ inked \subseteq 1..n
      /\ \A i \in 1..n : lines[i] > 0 => i \in inked
  BY <1>1 DEF Below
<1>3. TrimSpace(lines) = IF inked = {} THEN <<>> ELSE SubSeq(lines, Min(inked), Max(inked))
  BY DEF TrimSpace
<1> HIDE DEF inked, n
<1>4. CASE inked = {}
  <2>1. TrimSpace(lines) = <<>>
    BY <1>3, <1>4
  <2>2. \A i \in 1..n : lines[i] = 0
    BY <1>1, <1>2, <1>4
  <2> QED BY <1>0, <1>1, <2>1, <2>2
<1>5. CASE inked # {}
  <2> DEFINE a == Min(inked)
             z == Max(inked)
             t == SubSeq(lines, a, z)
  <2>1. a \in inked /\ \A i \in inked : a <= i
    BY <1>2, <1>5, MinIs
  <2>2. z \in inked /\ \A i \in inked : z >= i
    BY <1>1, <1>2, <1>5, MaxIs
  <2>3. TrimSpace(lines) = t
    BY <1>3, <1>5
  <2> HIDE DEF a, z
  <2>4. a \in 1..n /\ z \in 1..n /\ a <= z
    BY <1>2, <2>1, <2>2
  <2>5. t \in Seq(Nat) /\ Len(t) = z - a + 1 /\ \A i \in 1..(z - a + 1) : t[i] = lines[a + i - 1]
    BY <1>1, <2>4 DEF n
  <2> HIDE DEF t
  <2>6. ASSUME \A i \in 1..Len(t) : t[i] <= MaxLine, NEW i \in 1..n
        PROVE  lines[i] <= MaxLine
    <3>1. CASE i \in inked
      <4>1. i - a + 1 \in 1..Len(t) /\ a + (i - a + 1) - 1 = i
        BY <2>1, <2>2, <2>4, <2>5, <3>1
      <4>2. t[i - a + 1] = lines[i]
        BY <2>5, <4>1
      <4> QED BY <2>6, <4>1, <4>2
    <3>2. CASE i \notin inked
      <4>1. lines[i] = 0
        BY <1>1, <1>2, <3>2
      <4> QED BY <1>0, <4>1
    <3> QED BY <3>1, <3>2
  <2> QED BY <1>1, <2>3, <2>5, <2>6
<1> QED BY <1>4, <1>5

\* The lengths of lines are a text.
LEMMA LengthsType ==
    ASSUME NEW lines \in Seq(Line)
    PROVE  /\ Lengths(lines) \in Seq(Nat)
           /\ Len(Lengths(lines)) = Len(lines)
           /\ \A i \in 1..Len(lines) : Lengths(lines)[i] = lines[i].len
<1>1. ASSUME NEW i \in 1..Len(lines) PROVE lines[i].len \in Nat
  <2>1. lines[i] \in Line
    OBVIOUS
  <2> QED BY <2>1 DEF Line
<1> QED BY <1>1 DEF Lengths

\* A file and its lines.
LEMMA FileIs ==
    ASSUME DocInv
    PROVE  /\ file \in Seq(Line) /\ at \in 1..Len(file) + 1 /\ at \in Nat /\ MaxLine \in Nat
           /\ title \in Titles \cup {Untitled} /\ body \in Seq(Nat) /\ TypeOK /\ Len(file) \in Nat
           /\ \A i \in 1..Len(file) : file[i].len \in Nat
                 /\ file[i].says \in Titles \cup {"fence", "nothing"}
<1>1. file \in Seq(Line) /\ at \in 1..Len(file) + 1
      /\ title \in Titles \cup {Untitled} /\ body \in Seq(Nat) /\ TypeOK
  BY DEF DocInv, DocTypeOK
<1>2. ASSUME NEW i \in 1..Len(file)
      PROVE  file[i].len \in Nat /\ file[i].says \in Titles \cup {"fence", "nothing"}
  <2>1. file[i] \in Line
    BY <1>1
  <2> QED BY <2>1 DEF Line
<1>3. MaxLine \in Nat
  BY TextsAssumption DEF TextsAssumption
<1> QED BY <1>1, <1>2, <1>3

\* The line that closes the frontmatter.
LEMMA ClosesIs ==
    ASSUME file \in Seq(Line), NEW k, Closes(k)
    PROVE  Closing # {} /\ Min(Closing) = k
<1>1. k \in Closing /\ k \in Int
  BY DEF Closes, Closing
<1>2. ASSUME NEW i \in Closing PROVE i \in Int /\ k <= i
  BY <1>1 DEF Closes, Closing, NoFence
<1>3. Closing \in SUBSET Int
  BY <1>2
<1> QED BY <1>1, <1>2, <1>3, MinWitness

\* The title after one more line of frontmatter.
LEMMA TitleMore ==
    ASSUME NEW n \in Nat, n + 1 >= 2
    PROVE  TitleIn(n + 1) = IF file[n + 1].says \in Titles THEN file[n + 1].says ELSE TitleIn(n)
<1> DEFINE N(k) == {i \in 2..k : file[i].says \in Titles}
<1>1. TitleIn(n + 1) = IF N(n + 1) = {} THEN Untitled ELSE file[Max(N(n + 1))].says
  BY DEF TitleIn
<1>2. TitleIn(n) = IF N(n) = {} THEN Untitled ELSE file[Max(N(n))].says
  BY DEF TitleIn
<1>3. CASE file[n + 1].says \in Titles
  <2>1. /\ n + 1 \in N(n + 1) /\ N(n + 1) \in SUBSET Int
        /\ \A i \in N(n + 1) : n + 1 >= i
    BY <1>3
  <2> HIDE DEF N
  <2>2. Max(N(n + 1)) = n + 1
    BY <2>1, MaxWitness
  <2> QED BY <1>1, <1>3, <2>1, <2>2
<1>4. CASE file[n + 1].says \notin Titles
  <2>1. N(n + 1) = N(n)
    BY <1>4
  <2> QED BY <1>1, <1>2, <1>4, <2>1
<1> QED BY <1>3, <1>4

LEMMA TitleOfNone == TitleIn(1) = Untitled
<1>1. 2..1 = {}
  OBVIOUS
<1> QED BY <1>1 DEF TitleIn

\* What the parser reads before it is done leaves Cut alone.
LEMMA CutWaits ==
    ASSUME CutInv, UNCHANGED vars, mode \notin Outcomes
    PROVE  CutInv'
<1>1. pc = "start" /\ StageOK
  BY DEF CutInv, StageOK, Outcomes
<1> DEFINE c == chunks
<1>2. UNCHANGED <<text, size, pc, line, para, paragraphs, next, current, runes, chunks>>
  BY DEF vars
<1>3. TypeOK' /\ StageOK'
  BY <1>1, <1>2 DEF CutInv, TypeOK, StageOK, Untouched
<1>4. ChunksFit' /\ NoNeedlessCut'
  BY <1>1, <1>2, NothingCut DEF StageOK, Untouched
<1>5. ScanOK' /\ LinesOK' /\ PackOK'
  BY <1>1, <1>2 DEF ScanOK, LinesOK, PackOK
<1> QED BY <1>3, <1>4, <1>5 DEF CutInv

\* The parser hands its text to Cut.
LEMMA CutBegins ==
    ASSUME CutInv, mode \notin Outcomes, NEW lines \in Seq(Nat), Parsed(lines),
           UNCHANGED <<size, pc, scanning, packing>>
    PROVE  CutInv'
<1>1. pc = "start" /\ StageOK /\ TypeOK
  BY DEF CutInv, StageOK, Outcomes
<1>2. /\ UNCHANGED <<size, pc, line, para, paragraphs, next, current, runes, chunks>>
      /\ text' = TrimSpace(lines) /\ mode' = "parsed"
  BY DEF scanning, packing, Parsed
<1>3. Untouched /\ line = 1 /\ para = 0 /\ paragraphs = <<>>
  BY <1>1 DEF StageOK
<1>4. TypeOK'
  <2>1. text' \in Seq(Nat)
    BY <1>2, TrimIs
  <2>2. 1 \in 1..Len(text') + 1
    BY <2>1
  <2> QED BY <1>1, <1>2, <1>3, <2>1, <2>2 DEF TypeOK
<1>5. StageOK'
  BY <1>1, <1>2, <1>3 DEF StageOK, Untouched
<1>6. ChunksFit' /\ NoNeedlessCut'
  BY <1>2, <1>3, NothingCut DEF Untouched
<1>7. ScanOK' /\ LinesOK' /\ PackOK'
  BY <1>1, <1>2 DEF ScanOK, LinesOK, PackOK
<1> QED BY <1>4, <1>5, <1>6, <1>7 DEF CutInv

\* ReadAsWritten of an outcome m, a text t and a title name.
WrittenAs(m, t, name) ==
    /\ m = "parsed" =>
          IF HasFrontmatter
          THEN /\ Closing # {} /\ Readable(file)
               /\ t = TrimSpace(Lengths(SubSeq(file, Min(Closing) + 1, Len(file))))
               /\ name = TitleIn(Min(Closing) - 1)
          ELSE t = TrimSpace(Lengths(file)) /\ name = Untitled
    /\ m = "unclosed" => HasFrontmatter /\ Closing = {} /\ Readable(file)

\* This is what ReadAsWritten says.
LEMMA WrittenIs == WrittenAs(mode, text, title) <=> ReadAsWritten
<1>1. CASE Closing = {}
  BY <1>1 DEF WrittenAs, ReadAsWritten
<1>2. CASE Closing # {}
  BY <1>2 DEF WrittenAs, ReadAsWritten, TitleIn
<1> QED BY <1>1, <1>2

\* What is said of the file stays, as the file does.
LEMMA FileStays ==
    ASSUME UNCHANGED file
    PROVE  /\ Closing' = Closing /\ HasFrontmatter' = HasFrontmatter
           /\ \A n : TitleIn(n)' = TitleIn(n)
           /\ \A k : Closes(k)' = Closes(k)
           /\ \A n : NoFence(n)' = NoFence(n)
BY DEF Closing, HasFrontmatter, TitleIn, Closes, NoFence

\* ReadAsWritten, in the state a step of the parser leads to.
LEMMA WrittenStays ==
    ASSUME UNCHANGED file, WrittenAs(mode', text', title')
    PROVE  ReadAsWritten'
<1>1. Closing' = Closing /\ HasFrontmatter' = HasFrontmatter /\ \A n : TitleIn(n)' = TitleIn(n)
  BY FileStays
<1>2. PICK k : k = Min(Closing) - 1
  OBVIOUS
<1>3. TitleIn(k)' = TitleIn(k)
  BY <1>1
<1>4. CASE Closing = {}
  BY <1>1, <1>4 DEF WrittenAs, ReadAsWritten
<1>5. CASE Closing # {}
  BY <1>1, <1>2, <1>3, <1>5 DEF WrittenAs, ReadAsWritten, TitleIn
<1> QED BY <1>4, <1>5

\* What a step of the parser leads to is of the right shape.
LEMMA ParserTypes ==
    ASSUME DocInv, CutInv', UNCHANGED file, at' \in 1..Len(file) + 1,
           mode' \in {"first", "front", "body"} \cup Outcomes,
           title' \in Titles \cup {Untitled}, body' \in Seq(Nat)
    PROVE  DocTypeOK'
BY DEF DocInv, DocTypeOK, CutInv

\* The first line decides whether there is frontmatter.
LEMMA FirstLineOK ==
    ASSUME DocInv, FirstLine
    PROVE  DocInv'
<1>1. /\ mode = "first" /\ at = 1 /\ title = Untitled /\ body = <<>> /\ 1 <= Len(file)
      /\ file[1].len <= MaxLine /\ CutInv /\ ~(mode \in Outcomes)
  BY DEF FirstLine, AtLine, DocInv, ParserOK, Outcomes
<1>2. /\ file \in Seq(Line) /\ MaxLine \in Nat /\ Len(file) \in Nat /\ file # <<>>
  BY <1>1, FileIs
<1>3. CASE Opens(file[at]) /\ mode' = "front" /\ at' = at + 1 /\ UNCHANGED <<file, title, body, vars>>
  <2>1. CutInv'
    BY <1>1, <1>3, CutWaits
  <2>2. DocTypeOK'
    BY <1>1, <1>2, <1>3, <2>1, ParserTypes, FileIs
  <2>3. HasFrontmatter
    BY <1>1, <1>2, <1>3 DEF HasFrontmatter, Opens
  <2>4. ReadSoFar'
    BY <1>1, <1>2, <1>3 DEF ReadSoFar
  <2>5. at' - 1 = 1 /\ at' >= 2
    BY <1>1, <1>3
  <2>6. NoFence(at - 1)' /\ (title = TitleIn(at - 1))'
    <3>1. NoFence(1)
      BY DEF NoFence
    <3>2. NoFence(1)' /\ TitleIn(1)' = TitleIn(1)
      BY <1>3, <3>1, FileStays
    <3> QED BY <1>1, <1>3, <2>5, <3>2, TitleOfNone
  <2>7. ParserOK'
    BY <1>1, <1>3, <2>3, <2>4, <2>5, <2>6, FileStays DEF ParserOK
  <2>8. ReadAsWritten' /\ RestRead'
    BY <1>3, WrittenStays DEF WrittenAs, RestRead
  <2> QED BY <2>1, <2>2, <2>7, <2>8 DEF DocInv
<1>4. CASE /\ ~Opens(file[at]) /\ Parsed(Lengths(file))
           /\ UNCHANGED <<file, at, title, body, size, pc, scanning, packing>>
  <2>1. mode' = "parsed" /\ text' = TrimSpace(Lengths(file))
    BY <1>4 DEF Parsed
  <2>2. CutInv'
    BY <1>1, <1>2, <1>4, LengthsType, CutBegins
  <2>3. DocTypeOK'
    BY <1>4, <2>1, <2>2, ParserTypes, FileIs DEF Outcomes
  <2>4. ~HasFrontmatter
    BY <1>1, <1>4 DEF HasFrontmatter, Opens
  <2>5. ReadAsWritten'
    BY <1>1, <1>4, <2>1, <2>4, WrittenStays DEF WrittenAs
  <2>6. ParserOK' /\ RestRead'
    BY <1>4, <2>1 DEF ParserOK, RestRead
  <2> QED BY <2>2, <2>3, <2>5, <2>6 DEF DocInv
<1> QED BY <1>3, <1>4 DEF FirstLine

\* One line more has been read.
LEMMA ReadOn ==
    ASSUME DocInv, ReadSoFar, at <= Len(file), file[at].len <= MaxLine, UNCHANGED file,
           at' = at + 1
    PROVE  ReadSoFar' /\ at' \in 1..Len(file) + 1
BY FileIs DEF ReadSoFar

\* A line of frontmatter names a title, closes it, or says nothing.
LEMMA FrontLineOK ==
    ASSUME DocInv, FrontLine
    PROVE  DocInv'
<1>1. /\ mode = "front" /\ at >= 2 /\ at <= Len(file) /\ file[at].len <= MaxLine
      /\ NoFence(at - 1) /\ title = TitleIn(at - 1) /\ body = <<>> /\ CutInv
      /\ HasFrontmatter /\ ReadSoFar /\ ~(mode \in Outcomes)
  BY DEF FrontLine, AtLine, DocInv, ParserOK, Outcomes
<1>2. /\ at' = at + 1 /\ UNCHANGED <<file, body, vars>>
      /\ mode' = IF file[at].says = "fence" THEN "body" ELSE "front"
      /\ title' = IF file[at].says \in Titles THEN file[at].says ELSE title
  BY <1>1 DEF FrontLine
<1>3. /\ file \in Seq(Line) /\ MaxLine \in Nat /\ Len(file) \in Nat /\ at \in Nat
      /\ body \in Seq(Nat) /\ title \in Titles \cup {Untitled}
      /\ \A i \in 1..Len(file) : file[i].says \in Titles \cup {"fence", "nothing"}
  BY FileIs
<1>4. CutInv'
  BY <1>1, <1>2, CutWaits
<1>5. ReadSoFar' /\ at' \in 1..Len(file) + 1
  BY <1>1, <1>2, ReadOn
<1>6. DocTypeOK'
  <2>1. mode' \in {"first", "front", "body"} /\ title' \in Titles \cup {Untitled}
    BY <1>2, <1>3
  <2> QED BY <1>2, <1>3, <1>4, <1>5, <2>1, ParserTypes
<1>7. HasFrontmatter'
  BY <1>1, <1>2, FileStays
<1>8. ReadAsWritten' /\ RestRead'
  BY <1>2, WrittenStays DEF WrittenAs, RestRead
<1>9. title' = TitleIn(at) \/ file[at].says = "fence"
  <2>1. TitleIn((at - 1) + 1) = IF file[(at - 1) + 1].says \in Titles
                                THEN file[(at - 1) + 1].says ELSE TitleIn(at - 1)
    <3>1. at - 1 \in Nat /\ (at - 1) + 1 >= 2
      BY <1>1, <1>3
    <3> QED BY <3>1, TitleMore
  <2>2. (at - 1) + 1 = at
    BY <1>3
  <2> QED BY <1>1, <1>2, <2>1, <2>2
<1>10. PICK k : k = at
  OBVIOUS
<1>11. CASE file[at].says = "fence"
  <2>1. title' = title /\ mode' = "body"
    BY <1>2, <1>11, DocumentsAssumption DEF DocumentsAssumption
  <2>2. Closes(k)
    BY <1>1, <1>3, <1>10, <1>11 DEF Closes
  <2>3. Closes(k)' /\ TitleIn(k - 1)' = TitleIn(k - 1)
    BY <1>2, <2>2, FileStays
  <2>4. k \in 2..(at' - 1) /\ at' - 1 = k
    BY <1>1, <1>2, <1>3, <1>10
  <2>5. Lengths(SubSeq(file, k + 1, k)) = <<>>
    <3>1. SubSeq(file, k + 1, k) = <<>>
      BY <1>3, <1>10
    <3>2. Lengths(<<>>) = <<>>
      BY DEF Lengths
    <3> QED BY <3>1, <3>2
  <2>6. (title = TitleIn(k - 1) /\ body = Lengths(SubSeq(file, k + 1, at - 1)))'
    BY <1>1, <1>2, <1>10, <2>1, <2>3, <2>4, <2>5
  <2> QED BY <1>4, <1>5, <1>6, <1>7, <1>8, <2>1, <2>3, <2>4, <2>6 DEF DocInv, ParserOK
<1>12. CASE file[at].says # "fence"
  <2>1. mode' = "front"
    BY <1>2, <1>12
  <2>2. NoFence(k) /\ title' = TitleIn(k) /\ at' >= 2 /\ at' - 1 = k
    BY <1>1, <1>2, <1>3, <1>9, <1>10, <1>12 DEF NoFence
  <2>3. NoFence(k)' /\ TitleIn(k)' = TitleIn(k)
    BY <1>2, <2>2, FileStays
  <2>4. NoFence(at - 1)' /\ (title = TitleIn(at - 1))'
    BY <2>2, <2>3
  <2>5. body' = <<>>
    BY <1>1, <1>2
  <2> QED BY <1>4, <1>5, <1>6, <1>7, <1>8, <2>1, <2>2, <2>4, <2>5 DEF DocInv, ParserOK
<1> QED BY <1>11, <1>12

\* After the fence every line is text.
LEMMA BodyLineOK ==
    ASSUME DocInv, BodyLine
    PROVE  DocInv'
<1>1. /\ mode = "body" /\ at <= Len(file) /\ file[at].len <= MaxLine /\ CutInv
      /\ HasFrontmatter /\ ReadSoFar /\ ~(mode \in Outcomes)
      /\ at' = at + 1 /\ UNCHANGED <<file, mode, title, vars>>
      /\ body' = Append(body, file[at].len)
  BY DEF BodyLine, AtLine, DocInv, ParserOK, Outcomes
<1>2. PICK k \in 2..(at - 1) : /\ Closes(k) /\ title = TitleIn(k - 1)
                               /\ body = Lengths(SubSeq(file, k + 1, at - 1))
  BY <1>1 DEF DocInv, ParserOK
<1>3. /\ file \in Seq(Line) /\ Len(file) \in Nat /\ at \in Nat /\ at \in 1..Len(file) + 1
      /\ body \in Seq(Nat) /\ title \in Titles \cup {Untitled} /\ file[at].len \in Nat
  BY <1>1, FileIs
<1>4. CutInv'
  BY <1>1, CutWaits
<1>5. ReadSoFar' /\ at' \in 1..Len(file) + 1
  BY <1>1, ReadOn
<1>6. DocTypeOK'
  <2>1. body' \in Seq(Nat)
    BY <1>1, <1>3
  <2> QED BY <1>1, <1>3, <1>4, <1>5, <2>1, ParserTypes
<1>7. ReadAsWritten' /\ RestRead'
  BY <1>1, WrittenStays DEF WrittenAs, RestRead
<1>8. body' = Lengths(SubSeq(file, k + 1, at))
  <2> DEFINE s == SubSeq(file, k + 1, at - 1)
             r == SubSeq(file, k + 1, at)
             x == file[at]
  <2>1. s \in Seq(Line) /\ r = Append(s, x) /\ x \in Line
    BY <1>1, <1>3
  <2> HIDE DEF s, r, x
  <2>2. Lengths(Append(s, x)) = Append(Lengths(s), x.len)
    BY <2>1 DEF Lengths
  <2> QED BY <1>1, <1>2, <2>1, <2>2 DEF s, r, x
<1>9. Closes(k)' /\ (title = TitleIn(k - 1))'
  BY <1>1, <1>2, FileStays
<1>10. (body = Lengths(SubSeq(file, k + 1, at - 1)))'
  <2>1. at' - 1 = at
    BY <1>1, <1>3
  <2> QED BY <1>1, <1>8, <2>1
<1>11. k \in 2..(at' - 1)
  BY <1>1, <1>3
<1>12. ParserOK'
  BY <1>1, <1>5, <1>9, <1>10, <1>11, FileStays DEF ParserOK
<1> QED BY <1>4, <1>6, <1>7, <1>12 DEF DocInv

\* A line no scanner can hold ends the reading in an error.
LEMMA OverlongOK ==
    ASSUME DocInv, Overlong
    PROVE  DocInv'
<1>1. /\ mode \notin Outcomes /\ mode' = "overlong" /\ CutInv
      /\ UNCHANGED <<file, at, title, body, vars>>
  BY DEF Overlong, DocInv
<1>2. CutInv'
  BY <1>1, CutWaits
<1>3. DocTypeOK'
  BY <1>1, <1>2, ParserTypes, FileIs DEF Outcomes
<1>4. ReadAsWritten' /\ RestRead' /\ ParserOK'
  BY <1>1, WrittenStays DEF WrittenAs, RestRead, ParserOK
<1> QED BY <1>2, <1>3, <1>4 DEF DocInv

\* At the end the body, without blank lines around it, is the text.
LEMMA EndOfFileOK ==
    ASSUME DocInv, EndOfFile
    PROVE  DocInv'
<1>1. /\ mode \notin Outcomes /\ at = Len(file) + 1 /\ CutInv
      /\ UNCHANGED <<file, at, title, body>>
  BY FileIs DEF EndOfFile, DocInv
<1>2. /\ file \in Seq(Line) /\ Len(file) \in Nat /\ at \in 1..Len(file) + 1
      /\ body \in Seq(Nat) /\ title \in Titles \cup {Untitled} /\ (Len(file) + 1) - 1 = Len(file)
  BY FileIs
<1>3. ReadSoFar => Readable(file)
  BY <1>1, <1>2 DEF ReadSoFar, Readable
<1>4. CASE mode = "front" /\ mode' = "unclosed" /\ UNCHANGED vars
  <2>1. CutInv'
    BY <1>1, <1>4, CutWaits
  <2>2. DocTypeOK'
    BY <1>1, <1>2, <1>4, <2>1, ParserTypes DEF Outcomes
  <2>3. HasFrontmatter /\ ReadSoFar /\ NoFence(Len(file))
    BY <1>1, <1>2, <1>4 DEF DocInv, ParserOK
  <2>4. Closing = {}
    BY <2>3 DEF Closing, NoFence
  <2>5. ReadAsWritten' /\ RestRead' /\ ParserOK'
    BY <1>1, <1>3, <1>4, <2>3, <2>4, WrittenStays DEF WrittenAs, RestRead, ParserOK
  <2> QED BY <2>1, <2>2, <2>5 DEF DocInv
<1>5. CASE mode # "front" /\ Parsed(body) /\ UNCHANGED <<size, pc, scanning, packing>>
  <2>1. mode' = "parsed" /\ text' = TrimSpace(body) /\ mode \in {"first", "body"}
    <3>1. mode \in {"first", "front", "body"} \cup Outcomes
      BY DEF DocInv, DocTypeOK
    <3> QED BY <1>1, <1>5, <3>1 DEF Parsed
  <2>2. CutInv'
    BY <1>1, <1>2, <1>5, CutBegins
  <2>3. DocTypeOK'
    BY <1>1, <1>2, <2>1, <2>2, ParserTypes DEF Outcomes
  <2>4. WrittenAs(mode', text', title')
    <3>1. CASE mode = "first"
      <4>1. at = 1 /\ title = Untitled /\ body = <<>>
        BY <3>1 DEF DocInv, ParserOK
      <4>2. file = <<>>
        BY <1>1, <1>2, <4>1
      <4>3. Lengths(<<>>) = <<>>
        BY DEF Lengths
      <4>4. ~HasFrontmatter
        BY <4>2 DEF HasFrontmatter
      <4> QED BY <1>1, <2>1, <4>1, <4>2, <4>3, <4>4 DEF WrittenAs
    <3>2. CASE mode = "body"
      <4>1. HasFrontmatter /\ ReadSoFar
        BY <3>2 DEF DocInv, ParserOK
      <4>2. PICK k \in 2..(at - 1) : /\ Closes(k) /\ title = TitleIn(k - 1)
                                     /\ body = Lengths(SubSeq(file, k + 1, at - 1))
        BY <3>2 DEF DocInv, ParserOK
      <4>3. Closing # {} /\ Min(Closing) = k
        BY <1>2, <4>2, ClosesIs
      <4> QED BY <1>1, <1>2, <1>3, <2>1, <4>1, <4>2, <4>3 DEF WrittenAs
    <3> QED BY <2>1, <3>1, <3>2
  <2>5. ReadAsWritten'
    BY <1>1, <2>4, WrittenStays
  <2>6. RestRead'
    <3>1. Readable(file) \/ text' = TrimSpace(Lengths(file))
      BY <2>1, <2>4 DEF WrittenAs
    <3>2. file' = file
      BY <1>1
    <3> QED BY <3>1, <3>2 DEF RestRead
  <2>7. ParserOK'
    BY <2>1 DEF ParserOK
  <2> QED BY <2>2, <2>3, <2>5, <2>6, <2>7 DEF DocInv
<1> QED BY <1>4, <1>5 DEF EndOfFile

\* While the text is cut the parser is done.
LEMMA CutStepOK ==
    ASSUME DocInv, Cut
    PROVE  DocInv'
<1>1. mode = "parsed" /\ UNCHANGED <<file, at, mode, title, body>> /\ CutInv
  BY DEF Cut, parsing, DocInv
<1>2. text' = text
  BY DEF Cut, Next, Enter, BlankLine, TextLine, LineTooLong, ScanEnds, SplitParagraph,
         JoinParagraph, StartChunk, PackEnds
<1>3. CutInv'
  BY <1>1, CutOK
<1>4. DocTypeOK'
  BY <1>1, <1>3, ParserTypes, FileIs DEF Outcomes
<1>5. ReadAsWritten'
  <2>1. WrittenAs(mode, text, title)
    BY WrittenIs DEF DocInv
  <2>2. WrittenAs(mode', text', title')
    BY <1>1, <1>2, <2>1
  <2> QED BY <1>1, <2>2, WrittenStays
<1>6. RestRead' /\ ParserOK'
  BY <1>1, <1>2 DEF RestRead, ParserOK, DocInv
<1> QED BY <1>3, <1>4, <1>5, <1>6 DEF DocInv

LEMMA DocInitOK == DocInit => DocInv
<1> SUFFICES ASSUME DocInit PROVE DocInv
  OBVIOUS
<1>1. /\ text = <<>> /\ size \in Sizes /\ pc = "start" /\ line = 1 /\ para = 0
      /\ paragraphs = <<>> /\ next = 1 /\ current = <<>> /\ runes = 0 /\ chunks = <<>>
      /\ file \in Documents /\ at = 1 /\ mode = "first" /\ title = Untitled /\ body = <<>>
  BY DEF DocInit, Init
<1>2. TypeOK
  BY <1>1 DEF TypeOK, Chunk
<1>3. StageOK
  BY <1>1 DEF StageOK, Untouched
<1>4. ScanOK /\ LinesOK /\ PackOK
  BY <1>1 DEF ScanOK, LinesOK, PackOK
<1>5. ChunksFit /\ NoNeedlessCut
  <2>1. DOMAIN <<>> = {} /\ 1..Len(<<>>) - 1 = {}
    OBVIOUS
  <2> QED BY <1>1, <2>1 DEF ChunksFit, NoNeedlessCut
<1>6. DocTypeOK
  <2>1. file \in Seq(Line)
    BY <1>1, DocumentsAssumption DEF DocumentsAssumption
  <2>2. 1 \in 1..Len(file) + 1
    BY <2>1
  <2> QED BY <1>1, <1>2, <2>1, <2>2 DEF DocTypeOK
<1>7. ParserOK /\ RestRead /\ WrittenAs(mode, text, title)
  BY <1>1 DEF ParserOK, RestRead, WrittenAs
<1> QED BY <1>2, <1>3, <1>4, <1>5, <1>6, <1>7, WrittenIs DEF DocInv, CutInv

LEMMA DocStutter ==
    ASSUME DocInv, UNCHANGED docVars
    PROVE  DocInv'
<1>1. UNCHANGED <<file, at, mode, title, body, text, size, pc, line, para, paragraphs, next,
                  current, runes, chunks>>
  BY DEF docVars, parsing, vars
<1>2. CutInv /\ ParserOK /\ RestRead
  BY DEF DocInv
<1>3. TypeOK' /\ StageOK' /\ LinesOK'
  BY <1>1, <1>2 DEF CutInv, TypeOK, StageOK, Untouched, LinesOK
<1>4. ScanOK'
  <2>1. \A b : FoundUpTo(paragraphs, b) => FoundUpTo(paragraphs, b)'
    <3> SUFFICES ASSUME NEW b, FoundUpTo(paragraphs, b) PROVE FoundUpTo(paragraphs, b)'
      OBVIOUS
    <3> PICK ps : ps = paragraphs
      OBVIOUS
    <3> QED BY <1>1, FoundStays
  <2>2. \A b : InRun(b, line, para) => InRun(b, line, para)'
    <3> SUFFICES ASSUME NEW b, InRun(b, line, para) PROVE InRun(b, line, para)'
      OBVIOUS
    <3> PICK l, n : l = line /\ n = para
      OBVIOUS
    <3> QED BY <1>1, InRunStays
  <2>3. pc = "scan" => \E b \in 1..line' : InRun(b, line, para)' /\ FoundUpTo(paragraphs, b)'
    BY <1>1, <1>2, <2>1, <2>2 DEF CutInv, ScanOK
  <2>4. pc \in {"pack", "done"} /\ text # <<>> => FoundUpTo(paragraphs, Len(text) + 1)'
    <3> PICK z : z = Len(text) + 1
      OBVIOUS
    <3>1. FoundUpTo(paragraphs, z) => FoundUpTo(paragraphs, z)'
      BY <2>1
    <3> QED BY <1>1, <1>2, <3>1 DEF CutInv, ScanOK
  <2> QED BY <1>1, <2>3, <2>4 DEF ScanOK
<1>5. PackOK'
  <2>1. CurrentOK' <=> CurrentOK
    BY <1>1 DEF CurrentOK
  <2>2. LinkOK' <=> LinkOK
    BY <1>1 DEF LinkOK, Full, IsWhole
  <2>3. \A q, m : Covers(q, m)' <=> Covers(q, m)
    BY <1>1 DEF Covers, Follows
  <2>4. Covers(FlattenSeq(chunks) \o current, next - 1)' <=> Covers(FlattenSeq(chunks) \o current, next - 1)
    <3> PICK q, m : q = FlattenSeq(chunks) \o current /\ m = next - 1
      OBVIOUS
    <3> QED BY <1>1, <2>3
  <2>5. Covers(FlattenSeq(chunks), Len(paragraphs))' <=> Covers(FlattenSeq(chunks), Len(paragraphs))
    <3> PICK q, m : q = FlattenSeq(chunks) /\ m = Len(paragraphs)
      OBVIOUS
    <3> QED BY <1>1, <2>3
  <2> QED BY <1>1, <1>2, <2>1, <2>2, <2>4, <2>5 DEF CutInv, PackOK
<1>6. ChunksFit' /\ NoNeedlessCut'
  BY <1>1, <1>2 DEF CutInv, ChunksFit, NoNeedlessCut, IsWhole
<1>7. CutInv'
  BY <1>3, <1>4, <1>5, <1>6 DEF CutInv
<1>8. DocTypeOK'
  BY <1>1, <1>7, ParserTypes, FileIs DEF DocInv, DocTypeOK
<1>9. ReadAsWritten'
  <2>1. WrittenAs(mode', text', title')
    BY <1>1, WrittenIs DEF DocInv
  <2> QED BY <1>1, <2>1, WrittenStays
<1>10. RestRead' /\ ParserOK'
  <2>1. RestRead'
    BY <1>1, <1>2 DEF RestRead
  <2>2. \A n : (NoFence(n)' <=> NoFence(n)) /\ TitleIn(n)' = TitleIn(n) /\ (Closes(n)' <=> Closes(n))
    BY <1>1, FileStays
  <2>3. PICK n : n = at - 1
    OBVIOUS
  <2>4. (NoFence(n)' <=> NoFence(n)) /\ TitleIn(n)' = TitleIn(n)
    BY <2>2
  <2>5. ParserOK'
    BY <1>1, <1>2, <2>2, <2>3, <2>4, FileStays DEF ParserOK, ReadSoFar
  <2> QED BY <2>1, <2>5
<1> QED BY <1>7, <1>8, <1>9, <1>10 DEF DocInv

\* Every step keeps the invariant.
LEMMA DocNextOK == DocInv /\ [DocNext]_docVars => DocInv'
BY FirstLineOK, FrontLineOK, BodyLineOK, OverlongOK, EndOfFileOK, CutStepOK, DocStutter
   DEF DocNext

LEMMA DocInvariant == DocSpec => []DocInv
BY DocInitOK, DocNextOK, PTL DEF DocSpec

-----------------------------------------------------------------------------
(***************************************************************************)
(* What this says of a file and its chunks.                                *)
(***************************************************************************)

\* Every state is of the shape its types say, however long the file is.
THEOREM DocumentTypes == DocSpec => []DocTypeOK
BY DocInvariant, PTL DEF DocInv

\* The text that is cut is the note as written, less its frontmatter, under the
\* title named last; a frontmatter left open makes no note.
THEOREM NotesReadAsWritten == DocSpec => []ReadAsWritten
BY DocInvariant, PTL DEF DocInv

\* A note that is cut to its end has no line either scanner could not read.
THEOREM FilesReadWhole == DocSpec => []NoFileHalfIndexed
<1>1. DocInv => NoFileHalfIndexed
  <2> SUFFICES ASSUME DocInv, pc = "done" PROVE Readable(file)
    BY DEF NoFileHalfIndexed
  <2>1. mode = "parsed" /\ \A i \in 1..Len(text) : text[i] <= MaxLine
    BY DEF DocInv, CutInv, StageOK, LinesOK
  <2>2. CASE text = TrimSpace(Lengths(file))
    <3> DEFINE ls == Lengths(file)
    <3>1. /\ ls \in Seq(Nat) /\ Len(ls) = Len(file) /\ file \in Seq(Line)
          /\ \A i \in 1..Len(file) : ls[i] = file[i].len
      BY FileIs, LengthsType
    <3>2. \A i \in DOMAIN ls : ls[i] <= MaxLine
      <4> HIDE DEF ls
      <4> QED BY <2>1, <2>2, <3>1, TrimIs DEF ls
    <3> HIDE DEF ls
    <3>3. \A i \in 1..Len(file) : file[i].len <= MaxLine
      BY <3>1, <3>2
    <3> QED BY <3>1, <3>3 DEF Readable
  <2> QED BY <2>1, <2>2 DEF DocInv, RestRead
<1> QED BY <1>1, DocInvariant, PTL

\* The paragraphs found are the runs of text lines, none lost, joined or
\* counted short.
THEOREM ParagraphsAreRuns == DocSpec => []ParagraphsAreTextRuns
<1>1. DocInv => ParagraphsAreTextRuns
  <2> SUFFICES ASSUME DocInv, pc \in {"pack", "done"}, text # <<>>
               PROVE  ParagraphsAreTextRuns
    BY DEF ParagraphsAreTextRuns
  <2>1. PICK runs \in [DOMAIN paragraphs -> TextRuns] : Found(runs, paragraphs, Len(text) + 1)
    BY DEF DocInv, CutInv, ScanOK, FoundUpTo
  <2>2. Len(text) \in Nat
    BY DEF DocInv, CutInv, TypeOK
  <2>3. \A r \in TextRuns : r[2] \in Int /\ r[2] <= Len(text)
    BY <2>2, Runs DEF IsRun
  <2>4. \A r \in TextRuns : r[2] < Len(text) + 1
    BY <2>2, <2>3
  <2>5. TextRuns \subseteq {runs[i] : i \in DOMAIN paragraphs}
    BY <2>1, <2>4 DEF Found
  <2> QED BY <2>1, <2>5 DEF Found, ParagraphsAreTextRuns
<1> QED BY <1>1, DocInvariant, PTL

\* No chunk is empty or longer than asked for.
THEOREM ChunksFitTheirSize == DocSpec => []ChunksFit
BY DocInvariant, PTL DEF DocInv, CutInv

\* The chunks are the text's paragraphs, whole and in order.
THEOREM ChunksLoseNothing == DocSpec => []NothingLost
<1>1. DocInv => NothingLost
  <2> SUFFICES ASSUME DocInv, pc = "done", paragraphs # <<>>
               PROVE  NothingLost
    BY DEF NothingLost
  <2>1. Covers(FlattenSeq(chunks), Len(paragraphs))
    BY DEF DocInv, CutInv, PackOK
  <2>2. Len(paragraphs) > 0 /\ Last(paragraphs) = paragraphs[Len(paragraphs)]
    BY DEF DocInv, CutInv, TypeOK, Last
  <2> QED BY <2>1, <2>2 DEF Covers, NothingLost
<1> QED BY <1>1, DocInvariant, PTL

\* No chunk ends where the next paragraph would still have gone in.
THEOREM ChunksAreFull == DocSpec => []NoNeedlessCut
BY DocInvariant, PTL DEF DocInv, CutInv
=============================================================================
