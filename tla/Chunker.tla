------------------------------ MODULE Chunker -------------------------------
(***************************************************************************)
(* How a markdown file is cut into chunks.  A text is a sequence of lines, *)
(* each given by its length and its kind: blank, text or heading.  A chunk *)
(* is a stretch of the text, from a position up to another: what is joined *)
(* always stood together, and trimming it only drops blanks.               *)
(***************************************************************************)
EXTENDS Integers, Sequences

CONSTANTS MaxChunk, Overlap

ChunkerAssumption == MaxChunk \in Nat \ {0} /\ Overlap \in Nat

\* A line that is not blank has a character.
TextLines == {line \in [kind : {"blank", "text", "heading"}, len : Nat] :
                line.kind # "blank" => line.len > 0}

overlap == IF Overlap >= MaxChunk THEN MaxChunk \div 2 ELSE Overlap

Stretch(from, to) == [from |-> from, to |-> to]

Length(stretch) == stretch.to - stretch.from

Positions(stretch) == stretch.from .. stretch.to - 1

\* Before the first line: no chunks, nothing gathered.  curLen is 0 as long as no line
\* is gathered; ink: where the text is not blank.
Unread == [chunks |-> <<>>, cur |-> Stretch(0, 0), curLen |-> 0, at |-> 0, ink |-> {}]

\* What was gathered becomes a chunk, unless it is blank.
Flush(r) ==
  [r EXCEPT !.chunks = IF Positions(r.cur) \cap r.ink = {} THEN @ ELSE Append(@, r.cur),
            !.cur = Stretch(0, 0), !.curLen = 0]

\* Slip: the wrong way, which leaves gaps.
NoRepeat(line) == MaxChunk + overlap

\* So far apart are the chunks that are cut from a long line.
Stride(line) == MaxChunk - overlap

\* So many chunks are cut from a line, until the rest is short enough.
Cuts(line) == IF line.len <= MaxChunk THEN 0
              ELSE (line.len - MaxChunk + Stride(line) - 1) \div Stride(line)

\* The i-th of them, of a line that begins there.
Cut(line, begin, i) ==
  Stretch(begin + (i - 1) * Stride(line), begin + (i - 1) * Stride(line) + MaxChunk)

\* There is no room for the line: what was gathered is flushed, but its end is kept
\* for the next chunk.
Carry(r) ==
  LET kept == IF Length(r.cur) > overlap THEN Stretch(r.cur.to - overlap, r.cur.to)
                                         ELSE Stretch(0, 0)
  IN [Flush(r) EXCEPT !.cur = kept, !.curLen = Length(kept)]

\* The loop gets to a line.
Enter(r, line) ==
  [r EXCEPT !.at = @ + line.len + 1,
            !.ink = IF line.kind = "blank" THEN @ ELSE @ \cup (r.at .. r.at + line.len - 1)]

BeginAnew(r, line) == IF line.kind = "heading" THEN Flush(r) ELSE r

\* Chunks are cut from a line that begins there.
CutUp(r, line, begin) ==
  IF Cuts(line) = 0 THEN r
  ELSE LET cuts == [i \in 1 .. Cuts(line) |-> Cut(line, begin, i)]
       IN [Flush(r) EXCEPT !.chunks = @ \o cuts]

MakeRoom(r, len) == IF r.curLen + len > MaxChunk /\ r.curLen > 0 THEN Carry(r) ELSE r

Gather(r, from, to) ==
  [r EXCEPT !.cur = Stretch(IF r.curLen = 0 THEN from ELSE @.from, to),
            !.curLen = @ + to - from + 1]

\* One round of the loop over the lines.
ReadLine(r, line) ==
  LET end  == r.at + line.len
      rest == r.at + Cuts(line) * Stride(line)
      cut  == CutUp(BeginAnew(Enter(r, line), line), line, r.at)
  IN IF line.kind = "blank" /\ r.curLen = 0 THEN Enter(r, line)
     ELSE Gather(MakeRoom(cut, end - rest + 1), rest, end)

\* The loop, after n lines.
ReadLines(text, n) ==
  LET read[i \in 0 .. n] == IF i = 0 THEN Unread ELSE ReadLine(read[i - 1], text[i])
  IN read[n]

Read(text) == ReadLines(text, Len(text))

chunkText(text) == Flush(Read(text)).chunks
-----------------------------------------------------------------------------
\* Where the headings of a text begin.
Headings(text) ==
  {ReadLines(text, i - 1).at : i \in {j \in DOMAIN text : text[j].kind = "heading"}}

\* Chunks that are as they should be: nothing of the text is lost, they follow the
\* text, and every heading begins one; none is longer than MaxChunk and what is
\* carried over, with a line break.
Faithful(text, chunks) ==
  /\ Read(text).ink \subseteq UNION {Positions(chunks[i]) : i \in DOMAIN chunks}
  /\ \A i, j \in DOMAIN chunks : i < j => chunks[i].from < chunks[j].from
  /\ \A at \in Headings(text) : \E i \in DOMAIN chunks : chunks[i].from = at
  /\ \A i \in DOMAIN chunks : Length(chunks[i]) <= MaxChunk + overlap + 1
=============================================================================
