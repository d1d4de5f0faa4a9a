-------------------------------- MODULE Tables --------------------------------
(***************************************************************************)
(* From the text operations of a page to its chunks: which operations the  *)
(* reader keeps (infrastructure/pdf/reader.py), which of them form a table *)
(* (domain/tables.py), and what becomes of the rest (domain/chunking.py).  *)
(*                                                                         *)
(* A page is the sequence of the extractor's callbacks: where each was     *)
(* drawn and the words it drew, after normalisation (TextNormalization).   *)
(* Everything here speaks of positions in that sequence, so that it can be *)
(* said of each operation what became of it.  Coordinates are in units of  *)
(* half the least gap between columns.                                     *)
(***************************************************************************)
EXTENDS Naturals, Sequences, SequencesExt, FiniteSetsExt

MinColumnGap     == 2
MinRunsPerColumn == 2

NoTable == [caption |-> 0]

\* TextOp: where an operation was drawn, and the words it drew.
Operation == [x : Nat, y : Nat, words : Seq(STRING)]

\* The extractor repeats the whole page at the origin when it is done.
IsEcho(op) == op.x = 0 /\ op.y = 0

\* _page_text_ops: the operations that are kept.
PageTextOps(page) == {i \in DOMAIN page : page[i].words # <<>> /\ ~IsEcho(page[i])}

IsCaption(op) == Contains(op.words, "caption")

\* The operations drawn below the caption, wherever they come in the stream.
Body(page, ops, caption) == {i \in ops : page[i].y > page[caption].y}

\* _group_runs: consecutive operations with one x are a cell, known by the place of the first.
Run(page, body, k) ==
  {i \in body : k <= i /\ \A m \in body : k <= m /\ m <= i => page[m].x = page[k].x}

RunStarts(page, body) == {k \in body : \A m \in body : m < k => k \notin Run(page, body, m)}

Column(page, starts, x) == {k \in starts : page[k].x = x}

\* The column anchors: an x that recurs.
Anchors(page, body) ==
  LET starts == RunStarts(page, body)
  IN {x \in {page[k].x : k \in starts} : Cardinality(Column(page, starts, x)) >= MinRunsPerColumn}

\* The rows: one for each run of the left column, with the runs of the right column that
\* come before the next.  Of several the last is the cell, all are the row's.
RowsOf(page, body, left, right) ==
  LET starts == RunStarts(page, body)
      lefts  == Column(page, starts, left)
      rights(l) == {k \in Column(page, starts, right) :
                      l < k /\ \A m \in lefts : ~(l < m /\ m < k)}
      cell(k) == Run(page, body, k)
  IN [l \in lefts |->
       [left  |-> cell(l),
        right |-> IF rights(l) = {} THEN {} ELSE cell(Max(rights(l))),
        ops   |-> cell(l) \cup UNION {cell(k) : k \in rights(l)}]]

\* Mutant: whatever was walked is consumed, rows that are not kept included.
Consumed_Walked(rows, kept, caption) == {caption} \cup UNION {rows[l].ops : l \in DOMAIN rows}

\* What leaves the page with the table.
Consumed(rows, kept, caption) == {caption} \cup UNION {rows[l].ops : l \in kept}

\* detect_table: a caption, two anchors far enough apart, a header and a body row.
DetectTable(page, ops) ==
  LET captions == {i \in ops : IsCaption(page[i])}
      caption  == Min(captions)
      body     == Body(page, ops, caption)
      anchors  == Anchors(page, body)
      rows     == RowsOf(page, body, Min(anchors), Max(anchors))
      kept     == {l \in DOMAIN rows : rows[l].right # {}}
  IN IF \/ captions = {}
        \/ Cardinality(anchors) < 2
        \/ Max(anchors) - Min(anchors) < MinColumnGap
        \/ Cardinality(kept) < 2
       THEN NoTable
       ELSE [caption |-> caption, headers |-> rows[Min(kept)],
             rows |-> {rows[l] : l \in kept \ {Min(kept)}},
             consumed |-> Consumed(rows, kept, caption)]
-----------------------------------------------------------------------------
\* A chunk is a sequence of words, each with the operation that drew it; 0 drew those that
\* linearize_table puts in.
Put(word) == [word |-> word, op |-> 0]

\* The words of these operations, in stream order.
Text(page, places) ==
  FlattenSeq([i \in DOMAIN page |->
    IF i \in places
    THEN [w \in DOMAIN page[i].words |-> [word |-> page[i].words[w], op |-> i]] ELSE <<>>])

\* linearize_table and table_row_chunks: the caption, then one row with its headers.
RowChunk(page, table, row) ==
  Text(page, {table.caption}) \o <<Put("newline"), Put("row"), Put("|")>>
    \o Text(page, table.headers.left) \o Text(page, row.left) \o <<Put("|")>>
    \o Text(page, table.headers.right) \o Text(page, row.right)

RowChunks(page) ==
  LET table == DetectTable(page, PageTextOps(page))
  IN IF table = NoTable THEN {} ELSE {RowChunk(page, table, row) : row \in table.rows}

\* chunk_document for one page: the text that goes to split_prose, whose pieces
\* together are that text.
Prose(page) ==
  LET ops   == PageTextOps(page)
      table == DetectTable(page, ops)
  IN Text(page, IF table = NoTable THEN ops ELSE ops \ table.consumed)
-----------------------------------------------------------------------------
Drawn(page) == {i \in DOMAIN page : page[i].words # <<>> /\ ~IsEcho(page[i])}

From(chunk) == {chunk[i].op : i \in DOMAIN chunk} \ {0}

\* The right cell of a row was interrupted: an operation of the same column follows
\* before the left column comes back, and others between them.
Interrupted(page) ==
  LET table   == DetectTable(page, PageTextOps(page))
      body    == Body(page, PageTextOps(page), table.caption)
      anchors == Anchors(page, body)
      right   == Max(anchors)
      among(a, b) == {page[m].x : m \in {m \in body : a < m /\ m < b}}
  IN IF table = NoTable THEN {}
     ELSE {i \in table.consumed \ {table.caption} :
             /\ page[i].x = right
             /\ \E j \in body : /\ i < j /\ page[j].x = right
                                /\ among(i, j) \ {right} # {}
                                /\ Min(anchors) \notin among(i, j)}

\* Nothing a page says is dropped or said twice: each operation is in the rows of the
\* table or in the prose, never in both, and the extractor's echo in neither; only the
\* part of a right cell before an interruption is in no chunk.
PageKept(page) ==
  LET inRows  == UNION {From(chunk) : chunk \in RowChunks(page)}
      inProse == From(Prose(page))
  IN /\ inRows \cap inProse = {}
     /\ inRows \cup inProse = Drawn(page) \ Interrupted(page)
=============================================================================
