------------------------------ MODULE TextEdits ------------------------------
(***************************************************************************)
(* How the edits a language server returns are applied to a text           *)
(* (lsp_fix.rs).  A text is a sequence of scalars: "a" stands for one      *)
(* UTF-16 unit, "W" for a scalar outside the basic plane, which takes two, *)
(* "r" and "n" for carriage return and line feed.  A position is a line    *)
(* and a number of UTF-16 units; an offset counts whole scalars, since     *)
(* every byte offset the code computes is the sum of whole scalars.        *)
(***************************************************************************)
EXTENDS Naturals, Sequences, SequencesExt, FiniteSets, FiniteSetsExt, Containers

Scalars == {"a", "W", "r", "n"}

Breaks == {"r", "n"}

Units(scalar) == IF scalar = "W" THEN 2 ELSE 1

Before(p, q) == p[1] < q[1] \/ (p[1] = q[1] /\ p[2] < q[2])

Failed(reason) == [error |-> reason]

-----------------------------------------------------------------------------
(***************************************************************************)
(* From positions to offsets.                                              *)
(***************************************************************************)

\* Where lines start: a carriage return and the line feed after it are one break.
LineStarts(text) ==
    {0} \cup {o \in DOMAIN text : \/ text[o] = "n"
                                  \/ text[o] = "r" /\ (o = Len(text) \/ text[o + 1] # "n")}

\* The offsets where a logical line starts and ends, without its break.
LineRange(text, line) ==
    LET start == CHOOSE s \in LineStarts(text) :
                     Cardinality({t \in LineStarts(text) : t < s}) = line
    IN  <<start, Min({o \in start..Len(text) : o = Len(text) \/ text[o + 1] \in Breaks})>>

\* What the scan of a line knows: the first position it has not resolved, the units
\* it has counted, the offset it is at, and whether it met a split scalar.
\* The positions at exactly this many units resolve to this offset.
Take(positions, scan) ==
    LET stop == Min({k \in scan.next..(Len(positions) + 1) :
                        k > Len(positions) \/ positions[k][2] # scan.units})
    IN  [scan EXCEPT
            !.next = stop,
            !.offsets = Put(@, {positions[k] : k \in scan.next..(stop - 1)}, scan.at)]

\* One scalar further.  The scan looks at the next position whatever its line.
ScanScalar(positions, scan, scalar) ==
    LET moved == Take(positions, [scan EXCEPT !.at = @ + 1, !.units = @ + Units(scalar)])
    IN  IF scan.error # "none" THEN scan
        ELSE IF moved.next <= Len(positions) /\ positions[moved.next][2] < moved.units
             THEN [moved EXCEPT !.error = "split"]
             ELSE moved

\* The positions of one line, from the first that names it.
ResolveLine(text, positions, offsets, line) ==
    LET range == LineRange(text, line)
        of(n) == {k \in DOMAIN positions : positions[k][1] = n}
        step(scan, scalar) == ScanScalar(positions, scan, scalar)
        done == FoldLeft(step,
                         Take(positions, [next |-> Min(of(line)), units |-> 0, at |-> range[1],
                                          offsets |-> offsets, error |-> "none"]),
                         SubSeq(text, range[1] + 1, range[2]))
    IN  IF done.error # "none" THEN Failed(done.error)
        ELSE IF done.next <= Max(of(line)) THEN Failed("character")
        ELSE [error |-> "none", offsets |-> done.offsets]

\* The next line, unless one before it could not be resolved.
NextLine(text, positions, found, line) ==
    IF found.error # "none" THEN found
    ELSE ResolveLine(text, positions, found.offsets, line)

\* Sorted positions without repetition, line by line in ascending order.
Resolve(text, positions) ==
    LET lines == {positions[k][1] : k \in DOMAIN positions}
        step(found, line) == NextLine(text, positions, found, line)
    IN  IF \E line \in lines : line >= Cardinality(LineStarts(text)) THEN Failed("line")
        ELSE FoldLeft(step, [error |-> "none", offsets |-> <<>>], Ascending(lines))

-----------------------------------------------------------------------------
(***************************************************************************)
(* Applying edits.  An edit replaces start to end with a text.             *)
(***************************************************************************)

\* A sort that is not stable: the later edit goes first where starts are equal.
InOrderUnstable(edits, from) ==
    Sort(DOMAIN edits, {p \in (DOMAIN edits) \X (DOMAIN edits) :
                           from[p[1]] < from[p[2]] \/ (from[p[1]] = from[p[2]] /\ p[1] > p[2])})

\* A stable sort: by start, and by place in the list where starts are equal.
InOrder(edits, from) ==
    Sort(DOMAIN edits, {p \in (DOMAIN edits) \X (DOMAIN edits) :
                           from[p[1]] < from[p[2]] \/ (from[p[1]] = from[p[2]] /\ p[1] < p[2])})

\* The next edit: the text up to its start is copied and its own is put in.
SpliceEdit(text, edits, from, to, made, i) ==
    IF made.error # "none" THEN made
    ELSE IF from[i] < made.cursor THEN [made EXCEPT !.error = "overlap"]
    ELSE [made EXCEPT !.cursor = to[i],
                      !.text = @ \o SubSeq(text, made.cursor + 1, from[i]) \o edits[i].text]

\* One forward pass over the edits.
Splice(text, edits, from, to) ==
    LET step(made, i) == SpliceEdit(text, edits, from, to, made, i)
        made == FoldLeft(step, [error |-> "none", cursor |-> 0, text |-> <<>>], InOrder(edits, from))
    IN  IF made.error # "none" THEN Failed(made.error)
        ELSE [error |-> "none", text |-> made.text \o SubSeq(text, made.cursor + 1, Len(text))]

\* The positions the edits name.
Ends(edits) == UNION {{edits[i].start, edits[i].end} : i \in DOMAIN edits}

ApplyTextEdits(text, edits) ==
    LET named == Ends(edits)
        positions == Sort(named, {p \in named \X named : Before(p[1], p[2])})
        found == Resolve(text, positions)
        from == [i \in DOMAIN edits |-> found.offsets[edits[i].start]]
        to == [i \in DOMAIN edits |-> found.offsets[edits[i].end]]
    IN  IF found.error # "none" THEN found
        ELSE IF \E i \in DOMAIN edits : from[i] > to[i] THEN Failed("inverted")
        ELSE Splice(text, edits, from, to)

\* Where a document that ended at a position ends with one scalar more.
EndAfter(text, end, o) ==
    IF text[o] = "n" /\ o > 1 /\ text[o - 1] = "r" THEN end
    ELSE IF text[o] \in Breaks THEN <<end[1] + 1, 0>>
    ELSE <<end[1], end[2] + Units(text[o])>>

\* Where an update that replaces a whole document tells the server that it ends.
DocumentEnd(text) ==
    LET step(end, o) == EndAfter(text, end, o)
    IN  FoldLeft(step, <<0, 0>>, [o \in DOMAIN text |-> o])

-----------------------------------------------------------------------------
(***************************************************************************)
(* The reference: what positions and edits mean, offset by offset.         *)
(***************************************************************************)

LineOf(text, offset) == Cardinality({s \in LineStarts(text) : 0 < s /\ s <= offset})

\* The position of an offset: its line and the units of that line before it.
PositionOf(text, offset) ==
    LET start == Max({s \in LineStarts(text) : s <= offset})
    IN  <<LineOf(text, offset),
          FoldLeft(LAMBDA n, scalar : n + Units(scalar), 0, SubSeq(text, start + 1, offset))>>

\* The offsets a position may name: a boundary between scalars, not within a break.
Boundaries(text) ==
    {o \in 0..Len(text) : ~(0 < o /\ o < Len(text) /\ text[o] = "r" /\ text[o + 1] = "n")}

Named(text, position) == {o \in Boundaries(text) : PositionOf(text, o) = position}

\* Every edit names a range of the text.
InText(text, edits) ==
    \A i \in DOMAIN edits :
        \E o \in Named(text, edits[i].start), e \in Named(text, edits[i].end) : o <= e

\* Edits that may stand in one list: they share no scalar, none inserts within
\* another, and where one replaces from a place, insertions there come before it.
Compatible(edits) ==
    \A i, j \in DOMAIN edits :
        i < j => \/ edits[i].end = edits[j].start
                 \/ Before(edits[i].end, edits[j].start)
                 \/ edits[j].end = edits[i].start /\ edits[j].start # edits[i].start
                 \/ Before(edits[j].end, edits[i].start)

\* Each edit's text stands where the edit starts, in the order of the list, and of
\* the old text exactly the scalars in no edit's range remain, in their order.
Expected(text, edits) ==
    LET offset(p) == CHOOSE o \in 0..Len(text) : o \in Named(text, p)
        covered(o) == \E i \in DOMAIN edits : offset(edits[i].start) < o /\ o <= offset(edits[i].end)
        at(o) == FlattenSeq([i \in DOMAIN edits |->
                                IF offset(edits[i].start) = o THEN edits[i].text ELSE <<>>])
    IN  FlattenSeq([k \in 1..(Len(text) + 1) |->
            (IF k = 1 \/ covered(k - 1) THEN <<>> ELSE <<text[k - 1]>>) \o at(k - 1)])

\* So many units into a line are in the middle of a wide scalar.
IsWithinWide(text, line, units) ==
    \E o \in DOMAIN text : text[o] = "W" /\ PositionOf(text, o) = <<line, units + 1>>

\* The line of p is scanned as if q, which is on a later line, were on it too: q seems
\* to come before p there, or to split a scalar of that line.
Misread(text, p, q) ==
    p[1] < q[1] /\ (q[2] < p[2] \/ IsWithinWide(text, p[1], q[2]))

HasMisread(text, edits) == \E p, q \in Ends(edits) : Misread(text, p, q)

\* What is applied is what the edits mean.  A refusal says what is wrong with them, but
\* for "split": edits are refused for it too if one position is misread for another,
\* and exactly then.
EditsAreSound(text, edits) ==
    LET made == ApplyTextEdits(text, edits)
    IN  CASE made.error = "none" -> /\ InText(text, edits)
                                    /\ Compatible(edits)
                                    /\ ~HasMisread(text, edits)
                                    /\ made.text = Expected(text, edits)
          [] made.error = "overlap" -> ~Compatible(edits)
          [] made.error = "split" -> ~InText(text, edits) \/ HasMisread(text, edits)
          [] OTHER -> ~InText(text, edits)

\* A document's end is the position of its last offset, and resolves to it.
EndIsSound(text) ==
    Resolve(text, <<DocumentEnd(text)>>) =
        [error |-> "none", offsets |-> [p \in {DocumentEnd(text)} |-> Len(text)]]

EditsApply(text, edits) ==
    InText(text, edits) /\ Compatible(edits) => ApplyTextEdits(text, edits).error = "none"
=============================================================================
