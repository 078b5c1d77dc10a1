----------------------------- MODULE TableGrid -----------------------------
(***************************************************************************)
(* Tables of the web editor (plugins table.core.js, table.cmds.js and      *)
(* table.sort.js in ueditor.all.js): rows of cells with row and column     *)
(* spans, the index table that UETable keeps of them, and the commands     *)
(* that insert, delete, merge, split and sort, on the cell of the cursor   *)
(* or on the rectangle of cells that the mouse has selected.               *)
(*                                                                         *)
(* A table is a sequence of rows, a row a sequence of cells, as in the     *)
(* document; rows and columns count from 1.  A cell keeps its spans, the   *)
(* set of texts in it and whether it carries the class of selected cells.  *)
(* Heading cells (th), widths, heights and colours are left out.           *)
(***************************************************************************)
EXTENDS Integers, Sequences, FiniteSets, SequencesExt, FiniteSetsExt, TLC

CONSTANTS
    Texts,              \* what the user types, each at most once
    InitRows, InitCols, \* size given to inserttable
    MaxRow, MaxCol      \* the options maxRowNum and maxColNum

VARIABLES
    tab,    \* the table and its UETable, or Gone
    dead,   \* selectedTds is null: every command fails until the next mouse down
    stuck,  \* __hasEnterExecCommand, which a command that throws leaves set
    failed, \* a command has just thrown
    sort    \* attribute data-sort is sortEnabled

vars == <<tab, dead, stuck, failed, sort>>

Gone == [rows |-> <<>>]
NoRange == [r0 |-> 0, c0 |-> 0, r1 |-> 0, c1 |-> 0]
NewCell == [rs |-> 1, cs |-> 1, txt |-> {}, sel |-> FALSE]

Exists == tab # Gone
Cells(rows) == UNION {{<<r, k>> : k \in DOMAIN rows[r]} : r \in DOMAIN rows}
CellAt(rows, p) == rows[p[1]][p[2]]
UpTo(n) == [i \in 1..n |-> i]
\* The positions of S in document order.
InOrder(S) ==
    LET nr == Max({0} \cup {p[1] : p \in S}) nk == Max({0} \cup {p[2] : p \in S})
        at(i) == <<((i - 1) \div nk) + 1, ((i - 1) % nk) + 1>>
    IN  SelectSeq([i \in 1..(nr * nk) |-> at(i)], LAMBDA p : p \in S)
Without(rows, S) ==
    [r \in DOMAIN rows |->
        LET keep == SelectSeq(UpTo(Len(rows[r])), LAMBDA k : <<r, k>> \notin S)
        IN  [i \in DOMAIN keep |-> rows[r][keep[i]]]]
TextsOf(rows) == UNION {UNION {rows[r][k].txt : k \in DOMAIN rows[r]} : r \in DOMAIN rows}
Selected(rows) == {p \in Cells(rows) : CellAt(rows, p).sel}
Unselect(rows) == [r \in DOMAIN rows |-> [k \in DOMAIN rows[r] |-> [rows[r][k] EXCEPT !.sel = FALSE]]]
Merged(rows) == \E r \in DOMAIN rows : \E k \in DOMAIN rows[r] : rows[r][k].rs > 1 \/ rows[r][k].cs > 1

----------------------------------------------------------------------------
(* The index table. *)

GetMaxRows(rows) ==
    Max({1, Len(rows)} \cup UNION {{r + rows[r][k].rs - 1 : k \in DOMAIN rows[r]} : r \in DOMAIN rows})

\* Cells of earlier rows that reach into row r: the first one counts with
\* its columns, each later one as a single column.
GetMaxCols(rows) ==
    LET own(r) == FoldFunction(+, 0, [k \in DOMAIN rows[r] |-> rows[r][k].cs])
        above(r) == {p \in Cells(rows) : p[1] < r /\ r < p[1] + CellAt(rows, p).rs}
        carried(r) == IF above(r) = {} THEN 0
                      ELSE CellAt(rows, InOrder(above(r))[1]).cs + Cardinality(above(r)) - 1
    IN  Max({0} \cup {own(r) + carried(r) : r \in DOMAIN rows})

Place(idx, p, cell) ==
    LET c == CHOOSE c \in p[2]..(p[2] + Cardinality(DOMAIN idx)) :
                 /\ <<p[1], c>> \notin DOMAIN idx
                 /\ \A d \in p[2]..(c - 1) : <<p[1], d>> \in DOMAIN idx
        block == (p[1]..(p[1] + cell.rs - 1)) \X (c..(c + cell.cs - 1))
    IN  [q \in block |-> [r |-> p[1], k |-> p[2], c |-> c, rs |-> cell.rs, cs |-> cell.cs]] @@ idx

Filled(rows) == FoldLeft(LAMBDA idx, p : Place(idx, p, CellAt(rows, p)), <<>>, InOrder(Cells(rows)))

Filler(row) == IF row = <<>> THEN NewCell ELSE [NewCell EXCEPT !.sel = Last(row).sel]

InfoOf(t, p) ==
    t.idx[<<p[1], CHOOSE c \in p[2]..t.nc : t.idx[<<p[1], c>>].r = p[1] /\ t.idx[<<p[1], c>>].k = p[2]>>]

\* The selection is rebuilt from the first and the last cell with the class.
RebuiltRange(t) ==
    LET s == InOrder(Selected(t.rows))
    IN  IF s = <<>> THEN NoRange
        ELSE LET a == InfoOf(t, s[1]) b == InfoOf(t, Last(s))
             IN  [r0 |-> a.r, c0 |-> a.c, r1 |-> b.r + b.rs - 1, c1 |-> b.c + b.cs - 1]

\* Squares that no cell covers get a cell at the end of their row.
Holes(idx, r, nc) == SelectSeq(UpTo(nc), LAMBDA c : <<r, c>> \notin DOMAIN idx)
Patched(rows, nc, idx, holes) ==
    [rows |-> [r \in DOMAIN rows |-> rows[r] \o [i \in DOMAIN holes[r] |-> Filler(rows[r])]],
     nr |-> Len(rows), nc |-> nc, range |-> NoRange,
     idx |-> [q \in UNION {{<<r, c>> : c \in Range(holes[r])} : r \in DOMAIN rows} |->
                [r |-> q[1], k |-> Len(rows[q[1]]) + CHOOSE i \in DOMAIN holes[q[1]] : holes[q[1]][i] = q[2],
                 c |-> q[2], rs |-> 1, cs |-> 1]] @@ idx]
WithIndex(rows, nc, idx) == Patched(rows, nc, idx, [r \in DOMAIN rows |-> Holes(idx, r, nc)])
WithRange(t) == [t EXCEPT !.range = RebuiltRange(t)]
Padded(raw) == [r \in 1..GetMaxRows(raw) |-> IF r \in DOMAIN raw THEN raw[r] ELSE <<>>]
Update(raw) == WithRange(WithIndex(Padded(raw), GetMaxCols(raw), Filled(Padded(raw))))

----------------------------------------------------------------------------
(* Selecting a rectangle. *)

\* The edges of the rectangle are checked up to, not including, the last
\* column and the last row; a wider one is checked again.
CheckRange(t, g) ==
    LET at(r, c) == t.idx[<<r, c>>]
        widened(h) ==
            LET cols == h.c0..(h.c1 - 1)
                lines == h.r0..(h.r1 - 1)
            IN  [r0 |-> Min({h.r0} \cup {at(h.r0, c).r : c \in cols}),
                 c1 |-> Max({h.c1} \cup {at(r, h.c1).c + at(r, h.c1).cs - 1 : r \in lines}),
                 r1 |-> Max({h.r1} \cup {at(h.r1, c).r + at(h.r1, c).rs - 1 : c \in cols}),
                 c0 |-> Min({h.c0} \cup {at(r, h.c0).c : r \in lines})]
        checked[h \in [r0 : Int, c0 : Int, r1 : Int, c1 : Int]] ==
            IF widened(h) = h THEN h ELSE checked[widened(h)]
    IN  checked[g]

GetCellsRange(t, a, b) ==
    LET i == InfoOf(t, a) j == InfoOf(t, b)
    IN  CheckRange(t, [r0 |-> Min({i.r, j.r}), c0 |-> Min({i.c, j.c}),
                       r1 |-> Max({i.r + i.rs - 1, j.r + j.rs - 1}),
                       c1 |-> Max({i.c + i.cs - 1, j.c + j.cs - 1})])

Within(g) == (g.r0..g.r1) \X (g.c0..g.c1)
CellsIn(t, g) == {<<t.idx[q].r, t.idx[q].k>> : q \in Within(g)}
\* getCells answers null when a cell sticks out of the rectangle.
Closed(t, g) ==
    \A q \in Within(g) : LET i == t.idx[q]
                         IN  (i.r..(i.r + i.rs - 1)) \X (i.c..(i.c + i.cs - 1)) \subseteq Within(g)

SetSelected(t, g) ==
    [t EXCEPT !.range = g,
              !.rows = [r \in DOMAIN t.rows |-> [k \in DOMAIN t.rows[r] |->
                         [t.rows[r][k] EXCEPT !.sel = Closed(t, g) /\ <<r, k>> \in CellsIn(t, g)]]]]

----------------------------------------------------------------------------
(* Operations of UETable: the table after it, and whether it threw.  One  *)
(* that throws stops before update().                                      *)

Done(rows) == [t |-> Update(rows), threw |-> FALSE]
Threw(t, rows) == [t |-> [t EXCEPT !.rows = rows], threw |-> TRUE]

MoveContent(rows, to, from) == [rows EXCEPT ![to[1]][to[2]].txt = @ \cup UNION {CellAt(rows, p).txt : p \in from}]

MergeRight(t, p) ==
    LET i == InfoOf(t, p)
        right == t.idx[<<i.r, i.c + i.cs>>]
        q == <<right.r, right.k>>
    IN  Done(Without([MoveContent(t.rows, p, {q}) EXCEPT ![p[1]][p[2]].cs = i.cs + right.cs], {q}))

MergeDown(t, p) ==
    LET i == InfoOf(t, p)
        down == t.idx[<<i.r + i.rs, i.c>>]
        q == <<down.r, down.k>>
    IN  Done(Without([MoveContent(t.rows, p, {q}) EXCEPT ![p[1]][p[2]].rs = i.rs + down.rs], {q}))

\* A merge over the full height keeps one column; one over the full width
\* deletes the rows below, as many as the loop from rowIndex + 1 to rowSpan
\* counts, and keeps one row.
MergeShape(t, g) ==
    LET rs == g.r1 - g.r0 + 1
        cs == IF rs = t.nr THEN 1 ELSE g.c1 - g.c0 + 1
        wide == cs = t.nc /\ rs # 1
    IN  [rs |-> IF wide THEN 1 ELSE rs, cs |-> cs, cut |-> IF wide THEN Max({0, rs - g.r0}) ELSE 0]

\* Mutant: the texts of the merged cells are not moved.
MergeRangeLosesText(t) ==
    LET g == t.range
        top == <<g.r0, t.idx[<<g.r0, g.c0>>].k>>
        s == MergeShape(t, g)
        kept == Without([Unselect(t.rows) EXCEPT ![top[1]][top[2]].rs = s.rs, ![top[1]][top[2]].cs = s.cs],
                        CellsIn(t, g) \ {top})
    IN  Done(SubSeq(kept, 1, g.r0) \o SubSeq(kept, g.r0 + s.cut + 1, Len(kept)))

MergeRange(t) ==
    LET g == t.range
        top == <<g.r0, t.idx[<<g.r0, g.c0>>].k>>
        rest == CellsIn(t, g) \ {top}
        s == MergeShape(t, g)
        moved == MoveContent(Unselect(t.rows), top, rest)
        kept == Without([moved EXCEPT ![top[1]][top[2]].rs = s.rs, ![top[1]][top[2]].cs = s.cs], rest)
    IN  IF Closed(t, g)
        THEN Done(SubSeq(kept, 1, g.r0) \o SubSeq(kept, g.r0 + s.cut + 1, Len(kept)))
        ELSE Threw(t, Unselect(t.rows))

\* The first cell of the new row looks at the neighbouring row's first cell,
\* which a last row covered from above does not have.
InsertRow(t, r) ==
    LET new(n) == [c \in 1..n |-> NewCell]
        crossing == {<<t.idx[<<r, c>>].r, t.idx[<<r, c>>].k>> : c \in 1..t.nc}
        longer == [i \in DOMAIN t.rows |-> [k \in DOMAIN t.rows[i] |->
                     IF i < r /\ <<i, k>> \in crossing THEN [t.rows[i][k] EXCEPT !.rs = @ + 1] ELSE t.rows[i][k]]]
        free == Cardinality({c \in 1..t.nc : t.idx[<<r, c>>].r >= r})
    IN  CASE r = t.nr + 1 /\ Last(t.rows) = <<>> -> Threw(t, Append(t.rows, new(1)))
          [] r \in {1, t.nr + 1} /\ ~(r = t.nr + 1 /\ Last(t.rows) = <<>>) -> Done(InsertAt(t.rows, r, new(t.nc)))
          [] OTHER -> Done(InsertAt(longer, r, new(free)))

PreviewMerged(t, r, c) ==
    LET before == {t.idx[<<r, d>>] : d \in 1..(c - 1)}
    IN  (c - 1) - Cardinality({i \in before : i.r = r})

InsertAfter(row, k, cell) == SubSeq(row, 1, k) \o <<cell>> \o SubSeq(row, k + 1, Len(row))

\* A cell that starts in the deleted row and reaches further down gives the
\* next row an empty copy of itself; a next row without cells has no place
\* to put it.
HandDown(t, r, acc, i) ==
    LET cell == acc.rows[r][i.k]
        next == acc.rows[r + 1]
        after == (i.c - 1) - (PreviewMerged(t, r + 1, i.c) - acc.count)
        copy == [cell EXCEPT !.rs = @ - 1, !.txt = {}]
        cut == [acc.rows EXCEPT ![r][i.k].rs = 1]
    IN  IF i.r # r \/ cell.rs = 1 \/ acc.threw THEN acc
        ELSE IF after > Len(next) THEN [acc EXCEPT !.rows = cut, !.threw = TRUE]
        ELSE [acc EXCEPT !.count = @ + 1,
                         !.rows = IF after = 0 /\ next = <<>> THEN cut
                                  ELSE [cut EXCEPT ![r + 1] = InsertAfter(next, after, copy)]]

InfoRow(t, r) ==
    LET starts == SelectSeq(UpTo(t.nc), LAMBDA c : t.idx[<<r, c>>].c = c)
    IN  [n \in DOMAIN starts |-> t.idx[<<r, starts[n]>>]]

DeleteRow(t, r) ==
    LET acc == FoldLeft(LAMBDA a, i : HandDown(t, r, a, i), [rows |-> t.rows, count |-> 0, threw |-> FALSE], InfoRow(t, r))
        above == {<<i.r, i.k>> : i \in {j \in Range(InfoRow(t, r)) : j.r < r}}
        shorter == [i \in DOMAIN acc.rows |-> [k \in DOMAIN acc.rows[i] |->
                      IF <<i, k>> \in above THEN [acc.rows[i][k] EXCEPT !.rs = @ - 1] ELSE acc.rows[i][k]]]
    IN  IF acc.threw THEN Threw(t, acc.rows) ELSE Done(RemoveAt(shorter, r))

\* At the right end a row without cells has no last cell to insert after;
\* inside, a single cell over the whole first row has no neighbour to look at.
InsertCol(t, c) ==
    LET crossing == {<<t.idx[<<r, c>>].r, t.idx[<<r, c>>].k>> : r \in {x \in 1..t.nr : t.idx[<<x, c>>].c < c}}
        wider(r) == [k \in DOMAIN t.rows[r] |->
                       IF <<r, k>> \in crossing THEN [t.rows[r][k] EXCEPT !.cs = @ + 1] ELSE t.rows[r][k]]
        place(r) == LET i == t.idx[<<r, c>>]
                    IN  IF i.c < c THEN wider(r)
                        ELSE InsertAfter(wider(r), Min({i.k - 1, Len(t.rows[r])}), NewCell)
        empty == {r \in DOMAIN t.rows : t.rows[r] = <<>>}
    IN  CASE c = 1 -> Done([r \in DOMAIN t.rows |-> <<NewCell>> \o t.rows[r]])
          [] c = t.nc + 1 /\ c # 1 ->
                IF empty = {} THEN Done([r \in DOMAIN t.rows |-> Append(t.rows[r], NewCell)])
                ELSE Threw(t, [r \in DOMAIN t.rows |-> IF r < Min(empty) THEN Append(t.rows[r], NewCell) ELSE t.rows[r]])
          [] OTHER ->
                IF Len(t.rows[1]) = 1 /\ t.idx[<<1, c>>].c < c
                THEN Threw(t, [t.rows EXCEPT ![1] = wider(1)])
                ELSE Done([r \in DOMAIN t.rows |-> place(r)])

DeleteCol(t, c) ==
    LET hit == {<<t.idx[<<r, c>>].r, t.idx[<<r, c>>].k>> : r \in 1..t.nr}
        narrow == [r \in DOMAIN t.rows |-> [k \in DOMAIN t.rows[r] |->
                     IF <<r, k>> \in hit /\ t.rows[r][k].cs > 1 THEN [t.rows[r][k] EXCEPT !.cs = @ - 1] ELSE t.rows[r][k]]]
    IN  Done(Without(narrow, {p \in hit : CellAt(t.rows, p).cs = 1}))

SplitToRows(t, p) ==
    LET i == InfoOf(t, p)
        part == [NewCell EXCEPT !.cs = i.cs]
        split == [r \in DOMAIN t.rows |->
                    IF r \in (i.r + 1)..(i.r + i.rs - 1)
                    THEN InsertAfter(t.rows[r], (i.c - 1) - PreviewMerged(t, r, i.c), part)
                    ELSE t.rows[r]]
    IN  Done([split EXCEPT ![p[1]][p[2]].rs = 1])

SplitToCols(t, p) ==
    LET i == InfoOf(t, p)
        parts == [n \in 1..(i.cs - 1) |-> [NewCell EXCEPT !.rs = i.rs]]
        row == t.rows[p[1]]
    IN  Done([t.rows EXCEPT ![p[1]] = SubSeq(row, 1, p[2] - 1) \o <<[row[p[2]] EXCEPT !.cs = 1]>>
                                        \o parts \o SubSeq(row, p[2] + 1, Len(row))])

\* splitToRows, then splitToCols on each of the cells it made.
SplitToCells(t, p) ==
    LET i == InfoOf(t, p)
        firstCells == [n \in 1..i.rs |-> <<i.r + n - 1, i.c>>]
        cellOf(u, q) == <<u.idx[q].r, u.idx[q].k>>
    IN  FoldLeft(LAMBDA acc, q : SplitToCols(acc.t, cellOf(acc.t, q)), SplitToRows(t, p), firstCells)

\* The selection repeats an operation once per row or column; a throw ends it.
Repeat(op(_), t, n) ==
    FoldLeft(LAMBDA acc, i : IF acc.threw THEN acc ELSE op(acc.t), [t |-> t, threw |-> FALSE], UpTo(n))

----------------------------------------------------------------------------
(* Commands, as execCommand runs them. *)

HasSelection == Selected(tab.rows) # {}
\* The cell of the cursor: mouseup puts it into the first selected cell.
Cursor == IF HasSelection THEN {InOrder(Selected(tab.rows))[1]} ELSE Cells(tab.rows)
Ready == Exists /\ ~dead /\ ~failed

\* The command has left no td: the table is removed.
Ending(t) == IF Cells(t.rows) = {} THEN Gone ELSE t

\* A throw leaves the flag of execCommand set for good; a merge that ends
\* fires afterexeccommand, which disables sorting, unless the flag was left.
Finish(res, merge) ==
    /\ tab' = IF res.threw THEN res.t ELSE Ending(res.t)
    /\ failed' = res.threw
    /\ stuck' = (stuck \/ res.threw)
    /\ sort' = (sort /\ Ending(res.t) # Gone /\ ~(merge /\ ~stuck /\ ~res.threw))
    /\ UNCHANGED dead

Rows(g) == g.r1 - g.r0 + 1
Cols(g) == g.c1 - g.c0 + 1

InsertRowCommand == Ready /\ tab.nr < MaxRow /\ \E p \in Cursor :
    LET g == tab.range i == InfoOf(tab, p)
        op(t) == InsertRow(t, IF HasSelection THEN g.r0 ELSE i.r)
    IN  Finish(Repeat(op, tab, IF HasSelection THEN Rows(g) ELSE 1), FALSE)

InsertRowNextCommand == Ready /\ tab.nr < MaxRow /\ \E p \in Cursor :
    LET g == tab.range i == InfoOf(tab, p)
        op(t) == InsertRow(t, IF HasSelection THEN g.r1 + 1 ELSE i.r + i.rs)
    IN  Finish(Repeat(op, tab, IF HasSelection THEN Rows(g) ELSE 1), FALSE)

DeleteRowCommand == Ready /\ \E p \in Cursor :
    LET g == tab.range i == InfoOf(tab, p)
        op(t) == DeleteRow(t, IF HasSelection THEN g.r0 ELSE i.r)
    IN  Finish(Repeat(op, tab, IF HasSelection THEN Rows(g) ELSE 1), FALSE)

InsertColCommand == Ready /\ tab.nc < MaxCol /\ \E p \in Cursor :
    LET g == tab.range i == InfoOf(tab, p)
        op(t) == InsertCol(t, IF HasSelection THEN g.c0 ELSE i.c)
    IN  Finish(Repeat(op, tab, IF HasSelection THEN Cols(g) ELSE 1), FALSE)

InsertColNextCommand == Ready /\ tab.nc < MaxCol /\ \E p \in Cursor :
    LET g == tab.range i == InfoOf(tab, p)
        op(t) == InsertCol(t, IF HasSelection THEN g.c1 + 1 ELSE i.c + i.cs)
    IN  Finish(Repeat(op, tab, IF HasSelection THEN Cols(g) ELSE 1), FALSE)

DeleteColCommand == Ready /\ \E p \in Cursor :
    LET g == tab.range i == InfoOf(tab, p)
        op(t) == DeleteCol(t, IF HasSelection THEN g.c0 ELSE i.c)
    IN  Finish(Repeat(op, tab, IF HasSelection THEN Cols(g) ELSE 1), FALSE)

\* Two cells merge when they are neighbours of the same height or width.
MergeRightCommand == Ready /\ ~HasSelection /\ \E p \in Cursor :
    LET i == InfoOf(tab, p) q == <<i.r, i.c + i.cs>>
    IN  /\ q[2] <= tab.nc
        /\ tab.idx[q].r = i.r /\ tab.idx[q].rs = i.rs
        /\ Finish(MergeRight(tab, p), TRUE)

MergeDownCommand == Ready /\ ~HasSelection /\ \E p \in Cursor :
    LET i == InfoOf(tab, p) q == <<i.r + i.rs, i.c>>
    IN  /\ q[1] <= tab.nr
        /\ tab.idx[q].c = i.c /\ tab.idx[q].cs = i.cs
        /\ Finish(MergeDown(tab, p), TRUE)

MergeCellsCommand == Ready /\ HasSelection /\ Finish(MergeRange(tab), TRUE)

SplitCommand == Ready /\ ~HasSelection /\ \E p \in Cursor :
    LET i == InfoOf(tab, p)
    IN  \/ i.rs > 1 /\ Finish(SplitToRows(tab, p), FALSE)
        \/ i.cs > 1 /\ Finish(SplitToCols(tab, p), FALSE)
        \/ (i.rs > 1 \/ i.cs > 1) /\ Finish(SplitToCells(tab, p), FALSE)

\* sorttable permutes the rows of the selection, or all rows.
SortTable ==
    /\ Ready /\ ~Merged(tab.rows)
    /\ LET lines == IF HasSelection THEN tab.range.r0..tab.range.r1 ELSE DOMAIN tab.rows
       IN  \E f \in Permutations(lines) :
             tab' = [tab EXCEPT !.rows = [r \in DOMAIN @ |-> IF r \in lines THEN @[f[r]] ELSE @[r]]]
    /\ UNCHANGED <<dead, stuck, failed, sort>>

\* enablesort is offered on a table without spans.
EnableSort == Ready /\ ~sort /\ ~Merged(tab.rows) /\ sort' = TRUE /\ UNCHANGED <<tab, dead, stuck, failed>>
DisableSort == Ready /\ sort /\ sort' = FALSE /\ UNCHANGED <<tab, dead, stuck, failed>>

----------------------------------------------------------------------------
(* Mouse and keys. *)

\* Mouse down in a cell: all classes go, the UETable is made anew.
Click ==
    /\ Exists /\ (dead \/ failed \/ HasSelection)
    /\ tab' = Update(Unselect(tab.rows))
    /\ dead' = FALSE /\ failed' = FALSE
    /\ UNCHANGED <<stuck, sort>>

\* Mouse down in one cell (Click) and over to another.
DragSelect ==
    /\ Ready /\ ~HasSelection
    /\ \E a, b \in Cells(tab.rows) :
         LET g == GetCellsRange(tab, a, b)
         IN  /\ a # b
             /\ tab' = SetSelected(tab, g)
             /\ dead' = ~Closed(tab, g)
    /\ UNCHANGED <<stuck, failed, sort>>

\* A plain key clears the selection; here it also types a text.
TypeText ==
    /\ Ready /\ ~HasSelection
    /\ \E p \in Cells(tab.rows), x \in Texts \ TextsOf(tab.rows) : tab' = [tab EXCEPT !.rows[p[1]][p[2]].txt = @ \cup {x}]
    /\ UNCHANGED <<dead, stuck, failed, sort>>

\* The Delete key empties the selected cells.
DeleteKey ==
    /\ Ready /\ HasSelection
    /\ tab' = [tab EXCEPT !.rows = [r \in DOMAIN @ |-> [k \in DOMAIN @[r] |->
                 IF @[r][k].sel THEN [@[r][k] EXCEPT !.txt = {}] ELSE @[r][k]]]]
    /\ UNCHANGED <<dead, stuck, failed, sort>>

\* The Backspace key deletes a selection of whole columns or whole rows.
BackspaceKey ==
    /\ Ready /\ HasSelection
    /\ IF Rows(tab.range) = tab.nr THEN DeleteColCommand
       ELSE Cols(tab.range) = tab.nc /\ DeleteRowCommand

\* createTable of inserttable.
InsertTable ==
    /\ ~Exists
    /\ tab' = Update([r \in 1..InitRows |-> [k \in 1..InitCols |-> NewCell]])
    /\ UNCHANGED <<dead, stuck, failed, sort>>

Init ==
    /\ tab = Update([r \in 1..InitRows |-> [k \in 1..InitCols |-> NewCell]])
    /\ dead = FALSE /\ stuck = FALSE /\ failed = FALSE /\ sort = FALSE

Next ==
    \/ InsertRowCommand \/ InsertRowNextCommand \/ DeleteRowCommand
    \/ InsertColCommand \/ InsertColNextCommand \/ DeleteColCommand
    \/ MergeRightCommand \/ MergeDownCommand \/ MergeCellsCommand \/ SplitCommand
    \/ SortTable \/ EnableSort \/ DisableSort
    \/ Click \/ DragSelect \/ TypeText \/ DeleteKey \/ BackspaceKey \/ InsertTable

Spec == Init /\ [][Next]_vars

----------------------------------------------------------------------------
(* Properties. *)

\* Flags are Booleans and a table in use has rows and columns.
TypeOK ==
    /\ {dead, stuck, failed, sort} \subseteq BOOLEAN
    /\ Exists => tab.nr > 0 /\ tab.nc > 0

\* Every square of the table belongs to exactly one cell and no cell
\* reaches outside, however commands, selections and failures follow each
\* other (what getCellInfo, the merge and the split commands rely on).
Tiled ==
    (Exists /\ ~failed) =>
        /\ DOMAIN tab.idx = (1..tab.nr) \X (1..tab.nc)
        /\ FoldSet(LAMBDA p, n : n + CellAt(tab.rows, p).rs * CellAt(tab.rows, p).cs, 0, Cells(tab.rows))
             = tab.nr * tab.nc
        /\ \A q \in DOMAIN tab.idx : <<tab.idx[q].r, tab.idx[q].k>> \in Cells(tab.rows)

\* A text stands in one cell: no clone of a cell keeps the text of its original.
NoTextTwice ==
    Exists => \A p, q \in Cells(tab.rows) : p # q => CellAt(tab.rows, p).txt \cap CellAt(tab.rows, q).txt = {}

\* Only deleting a row or column or pressing Delete loses a text: merging,
\* splitting, inserting, sorting and failing commands keep every one.
OnlyDeletesLose ==
    TextsOf(tab.rows) \ TextsOf(tab'.rows) # {} =>
        DeleteRowCommand \/ DeleteColCommand \/ DeleteKey \/ BackspaceKey

\* Sorting is never offered on a table with merged cells, unless a command
\* threw before and took the afterexeccommand event with it.
SortMeansUnmerged == (Exists /\ sort /\ ~stuck) => ~Merged(tab.rows)

\* No command throws on a table without merged cells.
ThrowsOnlyWhenMerged == failed' => failed \/ Merged(tab.rows)
============================================================================
