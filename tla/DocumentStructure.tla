---- MODULE DocumentStructure ----
(***************************************************************************)
(* From a parsed document to the chunks that are indexed: reading order,   *)
(* section paths, the vision model's page layouts, and grouping into       *)
(* bounded chunks with overlap (restructure.py, backends.py, models.py and *)
(* chunking.py of the index manager).  The items, the text and the model's *)
(* answers are inputs; every step is the code's own pure function.         *)
(*                                                                         *)
(* An item is known by its position in the document, so block identities   *)
(* are positions; a text is a sequence of characters "w" (a word's), "s"   *)
(* (a space) and "n" (a line break), the only distinction splitting makes. *)
(***************************************************************************)
EXTENDS Integers, Sequences, FiniteSets, SequencesExt

CONSTANTS
    Documents,     \* the parsed documents
    Hints,         \* what the model may say of a page, by the rank of its blocks
    MaxChars,      \* ChunkingConfig.max_chars
    Overlap        \* ChunkingConfig.overlap_chars

VARIABLES
    doc,       \* the document: items, the body's children and the items' children
    allow,     \* LayoutRefinementPolicy.allow_exclusions
    stage,     \* "parsed", "restructured", "laid_out", "chunked" or how it failed
    order,     \* the items in reading order
    raw,       \* the blocks restructuring made
    patches,   \* the accepted page layouts, NoPatch for a page the model did not answer
    blocks,    \* the blocks after the layouts are applied
    chunks     \* the groups of pieces, as positions in Pieces

docVars == <<doc, allow, stage, order, raw, patches, blocks, chunks>>

NoPatch == [page |-> 0]
None == 0
At(id) == doc.items[id]
Ids(bs) == [k \in DOMAIN bs |-> bs[k].id]
Place(s, x) == CHOOSE k \in DOMAIN s : s[k] = x
Heading(id) == At(id).kind = "heading"

----------------------------------------------------------------------------
(* Restructuring *)

\* The depth-first walk of the body, each item once, groups transparent.
RECURSIVE Walk(_, _, _)
Walk(todo, seen, out) ==
    IF todo = <<>> THEN out
    ELSE IF Head(todo) \in seen THEN Walk(Tail(todo), seen, out)
    ELSE Walk(doc.links[Head(todo)] \o Tail(todo), seen \cup {Head(todo)},
              IF At(Head(todo)).kind = "group" THEN out ELSE Append(out, Head(todo)))

\* Items the walk missed follow in the order they were serialized.
ReadingOrder ==
    LET walked == Walk(doc.body, {}, <<>>)
    IN  walked \o SelectSeq([i \in DOMAIN doc.items |-> i],
                            LAMBDA i : i \notin ToSet(walked) /\ At(i).kind # "group")

\* The heading stack is cut to level - 1 entries and the heading pushed; a
\* block's section path is the stack.
AddBlock(acc, id) ==
    LET stack == IF Heading(id)
                 THEN Append(SubSeq(acc.stack, 1,
                                    IF At(id).level - 1 < Len(acc.stack)
                                    THEN At(id).level - 1 ELSE Len(acc.stack)), id)
                 ELSE acc.stack
    IN  IF At(id).text = <<>> THEN acc
        ELSE [stack |-> stack,
              blocks |-> Append(acc.blocks, [id |-> id, path |-> stack,
                                             parent |-> None, group |-> None])]

Blocks(ids) == FoldLeft(AddBlock, [stack |-> <<>>, blocks |-> <<>>], ids).blocks

Restructure ==
    /\ stage = "parsed"
    /\ order' = ReadingOrder
    /\ raw' = Blocks(order')
    /\ blocks' = raw'
    /\ stage' = IF raw' = <<>> THEN "empty" ELSE "restructured"
    /\ UNCHANGED <<doc, allow, patches, chunks>>

----------------------------------------------------------------------------
(* The layout of a page *)

Pages == {At(raw[k].id).page : k \in DOMAIN raw}
OnPage(p) == SelectSeq(Ids(raw), LAMBDA id : At(id).page = p)

\* The model's answer for the blocks ids of a page.  A rank the page does not
\* have is a forged reference.
Forged == -1
Named(ids, k) == IF k = 0 THEN None ELSE IF k \in DOMAIN ids THEN ids[k] ELSE Forged
Reply(ids, h) ==
    LET rank(id) == Place(ids, id)
    IN  [order    |-> [k \in DOMAIN h.order |-> Named(ids, h.order[k])],
         parent   |-> [id \in ToSet(ids) |-> Named(ids, h.parent[rank(id)])],
         group    |-> [id \in ToSet(ids) |-> Named(ids, h.group[rank(id)])],
         heads    |-> [id \in ToSet(ids) |-> [k \in DOMAIN h.heads[rank(id)] |->
                                                Named(ids, h.heads[rank(id)][k])]],
         title    |-> [id \in ToSet(ids) |-> h.title[rank(id)]],
         excluded |-> [id \in ToSet(ids) |-> h.excluded[rank(id)]]]

\* Following parents from a block comes back to one already seen.
Cyclic(parent) ==
    \E id \in DOMAIN parent :
        LET up[n \in 0..Cardinality(DOMAIN parent)] ==
                IF n = 0 THEN id ELSE IF up[n - 1] = None THEN None ELSE parent[up[n - 1]]
        IN  up[Cardinality(DOMAIN parent)] # None

IsHeading(r, id) == Heading(id) \/ r.title[id]

\* _parse_layout_patch: an exact permutation, local references, no cycle, no
\* exclusion the policy forbids; a reference to a block nobody calls a heading
\* is dropped.
Accepts(r, ids) ==
    LET local == ToSet(ids)
        range(f) == {f[id] : id \in local}
    IN  /\ Len(r.order) = Len(ids) /\ ToSet(r.order) = local
        /\ range(r.parent) \cup range(r.group) \subseteq local \cup {None}
        /\ \A id \in local : /\ r.parent[id] # id
                             /\ ToSet(r.heads[id]) \subseteq local
                             /\ Cardinality(ToSet(r.heads[id])) = Len(r.heads[id])
        /\ allow \/ TRUE \notin range(r.excluded)
        /\ ~Cyclic(r.parent)

Parsed(r) ==
    [r EXCEPT !.heads = [id \in DOMAIN @ |-> SelectSeq(@[id], LAMBDA h : IsHeading(r, h))]]

\* _stabilize_ambiguous_same_box_blocks: blocks that share one box keep their
\* order among themselves and lose what the model said of them.
Shared(ids) == {id \in ToSet(ids) : \E other \in ToSet(ids) \ {id} :
                    /\ At(id).box # None
                    /\ At(other).box = At(id).box}
Stable(r, ids) ==
    LET vague == Shared(ids)
        mates(id) == SelectSeq(ids, LAMBDA x : At(x).box = At(id).box)
        places(id) == SelectSeq(r.order, LAMBDA x : At(x).box = At(id).box)
        clear(f) == [id \in DOMAIN f |-> IF id \in vague \/ f[id] \in vague THEN None ELSE f[id]]
        off(f) == [id \in DOMAIN f |-> id \notin vague /\ f[id]]
    IN  [order    |-> [k \in DOMAIN r.order |->
                         IF r.order[k] \in vague
                         THEN mates(r.order[k])[Place(places(r.order[k]), r.order[k])]
                         ELSE r.order[k]],
         parent   |-> clear(r.parent),
         group    |-> clear(r.group),
         heads    |-> [id \in DOMAIN r.heads |->
                         SelectSeq(r.heads[id], LAMBDA h : h \notin vague)],
         title    |-> off(r.title),
         excluded |-> off(r.excluded)]

----------------------------------------------------------------------------
(* Applying the layouts *)

Answered == {p \in DOMAIN patches : patches[p] # NoPatch}
Excluded == UNION {{id \in DOMAIN patches[p].excluded : patches[p].excluded[id]} : p \in Answered}

\* apply_layout_patches checks again what the parser let through.
Applicable ==
    /\ Excluded = {} \/ allow
    /\ \A p \in Answered : LET r == patches[p] IN
          /\ ToSet(r.order) = ToSet(OnPage(p))
          /\ ~Cyclic(r.parent)
          /\ \A id \in DOMAIN r.heads : \A h \in ToSet(r.heads[id]) : IsHeading(r, h)
          /\ \A id \in DOMAIN r.parent : {r.parent[id], r.group[id]} \cap Excluded = {}
    /\ ToSet(Ids(raw)) \ Excluded # {}

Raw(id) == raw[Place(Ids(raw), id)]
Laid(r, id) ==
    [Raw(id) EXCEPT !.path = IF r.heads[id] = <<>> THEN @ ELSE r.heads[id],
                    !.parent = r.parent[id], !.group = r.group[id]]

\* A refined page is written whole where its first block stood.
Emit(acc, b) ==
    LET p == At(b.id).page
    IN  IF p \notin Answered THEN [acc EXCEPT !.out = Append(@, b)]
        ELSE IF p \in acc.done THEN acc
        ELSE [out  |-> acc.out \o LET r == patches[p]
                                     kept == SelectSeq(r.order, LAMBDA id : id \notin Excluded)
                                 IN  [k \in DOMAIN kept |-> Laid(r, kept[k])],
              done |-> acc.done \cup {p}]

Applied == FoldLeft(Emit, [out |-> <<>>, done |-> {}], raw).out

\* One page's answer: an HTTP error leaves the page alone, a bad answer fails
\* the document.
RefinePage(p) ==
    /\ stage = "restructured"
    /\ p \in Pages \ DOMAIN patches
    /\ \/ patches' = [q \in DOMAIN patches \cup {p} |->
                        IF q = p THEN NoPatch ELSE patches[q]] /\ UNCHANGED stage
       \/ \E h \in Hints : LET ids == OnPage(p) IN
            /\ Len(h.title) = Len(ids)
            /\ LET r == Reply(ids, h) IN
                 IF Accepts(r, ids)
                 THEN /\ patches' = [q \in DOMAIN patches \cup {p} |->
                                       IF q = p THEN Stable(Parsed(r), ids) ELSE patches[q]]
                      /\ UNCHANGED stage
                 ELSE /\ stage' = "bad_answer"
                      /\ UNCHANGED patches
    /\ UNCHANGED <<doc, allow, order, raw, blocks, chunks>>

ApplyLayouts ==
    /\ stage = "restructured"
    /\ DOMAIN patches = Pages
    /\ IF Applicable THEN blocks' = Applied /\ stage' = "laid_out"
       ELSE stage' = "not_applicable" /\ UNCHANGED blocks
    /\ UNCHANGED <<doc, allow, order, raw, patches, chunks>>

----------------------------------------------------------------------------
(* Chunking *)

Blank(c) == c # "w"
Stripped(text, a, b) ==   \* the end of the text from a to b without trailing blanks
    IF \A k \in a..b : Blank(text[k]) THEN a - 1
    ELSE CHOOSE k \in a..b : ~Blank(text[k]) /\ \A j \in (k + 1)..b : Blank(text[j])

\* Where to cut text from position a: after the last separator of the preferred
\* kind in the second half, otherwise at the limit.
CutAt(text, a) ==
    LET hard == a + MaxChars - 1
        late(c) == {k \in (a + MaxChars \div 2)..hard : text[k] = c}
        latest(S) == CHOOSE k \in S : \A j \in S : j <= k
    IN  IF hard >= Len(text) THEN Len(text)
        ELSE IF late("n") # {} THEN latest(late("n"))
        ELSE IF late("s") # {} THEN latest(late("s"))
        ELSE hard

RECURSIVE Split(_, _)
Split(text, a) ==
    IF a > Len(text) THEN <<>>
    ELSE IF Blank(text[a]) THEN Split(text, a + 1)
    ELSE <<[from |-> a, to |-> Stripped(text, a, CutAt(text, a))]>>
         \o Split(text, CutAt(text, a) + 1)

Pieces ==
    LET of(b) == LET s == Split(At(b.id).text, 1)
                 IN  [k \in DOMAIN s |-> [block |-> b.id, path |-> b.path,
                                          from |-> s[k].from, to |-> s[k].to]]
    IN  FoldLeft(LAMBDA acc, b : acc \o of(b), <<>>, blocks)

Size(p) == p.to - p.from + 1
Joined(ps, g) ==   \* pieces are joined by a blank line of two characters
    FoldLeft(LAMBDA n, k : n + Size(ps[k]), 0, g) + 2 * (IF g = <<>> THEN 0 ELSE Len(g) - 1)

Compatible(p, q) ==
    (At(p.block).kind = "table" \/ At(q.block).kind = "table") => p.block = q.block

\* The longest end of a group that fits the overlap.
Tail_(ps, g) ==
    LET fit == {k \in 1..(Len(g) + 1) : Joined(ps, SubSeq(g, k, Len(g))) <= Overlap}
    IN  IF Overlap <= 0 THEN <<>>
        ELSE SubSeq(g, CHOOSE k \in fit : \A j \in fit : k <= j, Len(g))

Group(ps) ==
    LET add(acc, k) ==
            LET last == ps[acc.current[Len(acc.current)]]
                alike == last.path = ps[k].path /\ Compatible(last, ps[k])
                fits(g) == Joined(ps, Append(g, k)) <= MaxChars
                carry == IF alike THEN Tail_(ps, acc.current) ELSE <<>>
            IN  IF acc.current = <<>> THEN [acc EXCEPT !.current = <<k>>]
                ELSE IF alike /\ fits(acc.current) THEN [acc EXCEPT !.current = Append(@, k)]
                ELSE [groups  |-> Append(acc.groups, acc.current),
                      current |-> IF carry # <<>> /\ fits(carry) THEN Append(carry, k) ELSE <<k>>]
        all == FoldLeft(add, [groups |-> <<>>, current |-> <<>>], [k \in DOMAIN ps |-> k])
    IN  Append(all.groups, all.current)

ChunkBlocks ==
    /\ stage = "laid_out"
    /\ IF Pieces = <<>> THEN stage' = "empty" /\ UNCHANGED chunks
       ELSE chunks' = Group(Pieces) /\ stage' = "chunked"
    /\ UNCHANGED <<doc, allow, order, raw, patches, blocks>>

Init ==
    /\ doc \in Documents
    /\ allow \in BOOLEAN
    /\ stage = "parsed"
    /\ order = <<>> /\ raw = <<>> /\ blocks = <<>> /\ chunks = <<>>
    /\ patches = <<>>

Finished == stage \notin {"parsed", "restructured", "laid_out"} /\ UNCHANGED docVars

Next ==
    \/ Restructure
    \/ \E p \in Pages : RefinePage(p)
    \/ ApplyLayouts
    \/ ChunkBlocks
    \/ Finished

Spec == Init /\ [][Next]_docVars

----------------------------------------------------------------------------
(* Whatever references and cycles the parsed graph has, every item that is *)
(* not a group is read exactly once (_reading_order).                      *)
ReadOnce ==
    stage # "parsed" =>
        /\ ToSet(order) = {i \in DOMAIN doc.items : At(i).kind # "group"}
        /\ Cardinality(ToSet(order)) = Len(order)

(* With exclusions disabled a layout the parser accepted is never refused  *)
(* afterwards: clearing the blocks of a shared box must leave headings and *)
(* parents that apply_layout_patches still accepts.                        *)
AcceptedIsApplied == stage = "not_applicable" => allow

(* Layouts rearrange: the blocks are the restructured ones without those   *)
(* excluded under the policy, untouched pages keep their order, blocks of  *)
(* one box keep theirs, and no relation names a block that is gone.        *)
OnlyRearranged ==
    stage \in {"laid_out", "chunked"} =>
        /\ Cardinality(ToSet(Ids(blocks))) = Len(blocks)
        /\ ToSet(Ids(blocks)) = ToSet(Ids(raw)) \ Excluded
        /\ ~allow => Len(blocks) = Len(raw)
        /\ \A k, j \in DOMAIN blocks : k < j =>
              LET a == blocks[k].id
                  b == blocks[j].id
              IN  \/ Place(Ids(raw), a) < Place(Ids(raw), b)
                  \/ /\ At(a).page \in Answered \/ At(b).page \in Answered
                     /\ At(a).page = At(b).page => (At(a).box = None \/ At(a).box # At(b).box)
        /\ \A k \in DOMAIN blocks :
              /\ {blocks[k].parent, blocks[k].group} \subseteq ToSet(Ids(blocks)) \cup {None}
              /\ \A h \in ToSet(blocks[k].path) :
                    Heading(h) \/ \E p \in Answered : h \in DOMAIN patches[p].title
                                                      /\ patches[p].title[h]

(* The chunks are runs of consecutive pieces within the size limit, each   *)
(* with at least one piece no earlier chunk had, together all of them; a   *)
(* chunk stays in one section and a table is alone in its own; the pieces  *)
(* hold every character that is not blank, none twice.                     *)
ChunksCover ==
    stage = "chunked" => LET ps == Pieces IN
        /\ \A c \in DOMAIN chunks :
              /\ chunks[c] # <<>>
              /\ \A k \in 2..Len(chunks[c]) : chunks[c][k] = chunks[c][k - 1] + 1
              /\ Joined(ps, chunks[c]) <= MaxChars
              /\ \A k, j \in ToSet(chunks[c]) : /\ ps[k].path = ps[j].path
                                                /\ Compatible(ps[k], ps[j])
              /\ c > 1 => LET before == chunks[c - 1][Len(chunks[c - 1])]
                          IN  /\ chunks[c][Len(chunks[c])] > before
                              /\ chunks[c][1] <= before + 1
        /\ chunks[1][1] = 1 /\ chunks[Len(chunks)][Len(chunks[Len(chunks)])] = Len(ps)
        /\ \A b \in DOMAIN blocks : \A n \in DOMAIN At(blocks[b].id).text :
              Blank(At(blocks[b].id).text[n])
              \/ Cardinality({k \in DOMAIN ps : /\ ps[k].block = blocks[b].id
                                                /\ n \in ps[k].from..ps[k].to}) = 1

(* A heading lies under headings of a higher rank only ("Preserve reading  *)
(* order, section hierarchy").  It does not hold: the stack is cut by      *)
(* level, not by the levels it contains.                                   *)
SectionsNest ==
    \A k \in DOMAIN raw : Heading(raw[k].id) =>
        \A j \in 1..(Len(raw[k].path) - 1) : At(raw[k].path[j]).level < At(raw[k].id).level

DocumentSound == ReadOnce /\ AcceptedIsApplied /\ OnlyRearranged /\ ChunksCover
====
