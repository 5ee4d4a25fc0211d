------------------------------ MODULE Positions ------------------------------
(***************************************************************************)
(* src/src/lexer.rs: byte offsets in a text to lines and columns.  A text  *)
(* is a sequence of pieces, as in Parser: what matters of a piece is how   *)
(* many bytes it has and whether it is a newline.                          *)
(***************************************************************************)
EXTENDS Snake, FiniteSets

Newline == "newline"

\* The offset of each piece, and of the end of the text after them
Offsets(text, width) ==
    LET at[k \in 1 .. Len(text) + 1] ==
            IF k = 1 THEN 0 ELSE at[k - 1] + width[text[k - 1]]
    IN  at

\* The offsets of the newlines before each piece, collected from the left
Newlines(text, width) ==
    LET found[k \in 1 .. Len(text) + 1] ==
            IF k = 1 THEN <<>>
            ELSE IF text[k - 1] = Newline
                 THEN Append(found[k - 1], Offsets(text, width)[k - 1])
            ELSE found[k - 1]
    IN  found

\* file_info: all of them, and the length
FileInfo(text, width) ==
    LET end == Len(text) + 1
    IN  [newlines |-> Newlines(text, width)[end], len |-> Offsets(text, width)[end]]

\* Bug: a line starts with the newline before it
LineBoundsAtNewline(info) == <<0>> \o info.newlines \o <<info.len>>

\* Where the lines start, and where the last one ends
LineBounds(info) ==
    <<0>> \o [i \in DOMAIN info.newlines |-> info.newlines[i] + 1] \o <<info.len>>

\* The first pair of neighbours around the offset; the code panics without one
HasLine(bounds, offset) ==
    \E n \in 1 .. Len(bounds) - 1 : bounds[n] <= offset /\ offset < bounds[n + 1]

OffsetToLineCol(bounds, offset) ==
    LET line == CHOOSE n \in 1 .. Len(bounds) - 1 :
                    /\ bounds[n] <= offset /\ offset < bounds[n + 1]
                    /\ \A m \in 1 .. n - 1 : ~(bounds[m] <= offset /\ offset < bounds[m + 1])
    IN  [line |-> line, col |-> offset - bounds[line]]

\* span1_to_span2 finds a line for both ends, or panics
Locatable(info, span) ==
    LET bounds == LineBounds(info)
    IN  HasLine(bounds, span[1]) /\ HasLine(bounds, span[2] - 1)

Span1ToSpan2(info, span) ==
    LET bounds == LineBounds(info)
        start == OffsetToLineCol(bounds, span[1])
        last == OffsetToLineCol(bounds, span[2] - 1)
    IN  [start_line |-> start.line, start_col |-> start.col,
         end_line |-> last.line, end_col |-> last.col + 1]

-----------------------------------------------------------------------------

\* Every piece has bytes, and a newline has one
Wide(text, width) ==
    /\ IsSeq(text)
    /\ \A k \in DOMAIN text : width[text[k]] \in Nat \ {0}
    /\ width[Newline] = 1

\* Reference: lines and columns counted by walking through the pieces.  The line
\* of a piece, and how many bytes stand before it in its line
LineOf(text, k) == 1 + Cardinality({m \in 1 .. k - 1 : text[m] = Newline})

ColumnOf(text, width, k) ==
    LET before[m \in 1 .. k] ==
            IF m = 1 \/ text[m - 1] = Newline THEN 0 ELSE before[m - 1] + width[text[m - 1]]
    IN  before[k]

\* The place of the pieces from j to k
PlaceOf(text, width, j, k) ==
    [start_line |-> LineOf(text, j), start_col |-> ColumnOf(text, width, j),
     end_line |-> LineOf(text, k), end_col |-> ColumnOf(text, width, k) + width[text[k]]]
=============================================================================
