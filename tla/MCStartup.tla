----------------------------- MODULE MCStartup ------------------------------
(* Small instances of Startup.                                             *)
EXTENDS Startup

Line(kind, len) == [kind |-> kind, len |-> len]

\* Three files: a heading, and a line that is cut, whose rest is a batch of its own;
\* one without text; one of one chunk.
MCFiles == << <<Line("heading", 2), Line("blank", 0), Line("text", 6)>>,
              <<Line("blank", 0)>>,
              <<Line("text", 2)>> >>
MCSlugs == <<"majors", "notes", "school">>

\* Texts of up to three lines, blank or not, that are longer and shorter than MaxChunk.
Lines == {Line(kind, len) : <<kind, len>> \in {"blank", "text", "heading"} \X {1, 2, 4, 5, 9}}
           \cup {Line("blank", 0)}
MCTexts == UNION {[1 .. n -> Lines] : n \in 0 .. 3}
=============================================================================
