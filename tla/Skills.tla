-------------------------------- MODULE Skills --------------------------------
(* The Skills of one run (skills/): packages on disk that may be edited at any *)
(* time, the registry's snapshot of them, taken when a process starts, the     *)
(* activation of a run that pins the revisions it selected, its restoration    *)
(* from a checkpoint in a later process, and the paged reads and searches of   *)
(* an active Skill's resources within the run's budget.  A package is a        *)
(* revision: its digest is equal when the revision is.                         *)
EXTENDS Integers, Sequences, FiniteSets, FiniteSetsExt, SequencesExt

CONSTANTS Names,          \* Skills in the source directory
          Revisions,      \* contents a package may have
          Instructions,   \* Revisions -> tokens of its instructions
          Grants,         \* Revisions -> the business tools it asks for
          Widths,         \* Revisions -> bytes of each character of its text
          Lines,          \* Revisions -> file number -> lines the query matches
          Sizes,          \* Revisions -> file number -> bytes of the file
          Tools,          \* business tools registered with the Agent
          MaxActive, MaxInstruction, MaxTotal, MaxResource, MaxReads,
          PageBytes, ScanBytes, MaxMatches,
          Unset,
          MaxEdits,       \* bound: edits of packages
          MaxRestarts     \* bound: processes the run lives through

VARIABLES disk,       \* Names -> revision on disk
          catalog,    \* Names -> revision the registry discovered
          run,        \* new, loading, active, failed or down
          picked,     \* Skills the selector chose, in order
          pinned,     \* the Skill state of the run (SkillRunState)
          saved,      \* the Skill state of its last checkpoint
          shown,      \* Names -> the revision whose instructions the model sees
          first,      \* Names -> the revision the run first activated
          page,       \* the resource access under way
          text,       \* Names -> characters read so far by following cursors
          found,      \* Names -> matches found so far by following cursors
          cursor,     \* Names -> [read, search]: where the next page starts
          edits, restarts

skillVars == <<disk, catalog, run, picked, pinned, saved, shown, first, page, text, found,
               cursor, edits, restarts>>

NoSkills == [catalog |-> Unset, active |-> <<>>, instructions |-> 0, reads |-> 0, tokens |-> 0]
Start    == [read |-> 0, search |-> [file |-> 1, line |-> 0]]
Idle     == [kind |-> "none", name |-> Unset]

Pin(n, r) == [name |-> n, revision |-> r, tools |-> Grants[r]]
ActiveNames == {pinned.active[i].name : i \in DOMAIN pinned.active}
RevisionOf(n) == (CHOOSE a \in Range(pinned.active) : a.name = n).revision

Init == /\ disk \in [Names -> Revisions]
        /\ catalog = disk
        /\ run = "new"
        /\ picked = <<>>
        /\ pinned = NoSkills
        /\ saved = NoSkills
        /\ shown = [n \in Names |-> Unset]
        /\ first = [n \in Names |-> Unset]
        /\ page = Idle
        /\ text = [n \in Names |-> 0]
        /\ found = [n \in Names |-> <<>>]
        /\ cursor = [n \in Names |-> Start]
        /\ edits = 0
        /\ restarts = 0

\* Somebody rewrites a package while the process runs.
Edit == /\ edits < MaxEdits
        /\ edits' = edits + 1
        /\ \E n \in Names : \E r \in Revisions \ {disk[n]} : disk' = [disk EXCEPT ![n] = r]
        /\ UNCHANGED <<catalog, run, picked, pinned, saved, shown, first, page, text, found,
                       cursor, restarts>>

resources == <<page, text, found, cursor>>

\* A hybrid selection: the requested Skills first, then the selector fills the
\* slots left from the rest of the catalog; too many requested ones are refused.
Selections == {s \in SetToAllKPermutations(Names) : Len(s) <= MaxActive}

Select == /\ run = "new"
          /\ picked' \in Selections
          /\ run' = "loading"
          /\ pinned' = [NoSkills EXCEPT !.catalog = catalog]
          /\ UNCHANGED <<disk, catalog, saved, shown, first, edits, restarts>>
          /\ UNCHANGED resources

Fails == run' = "failed" /\ UNCHANGED <<picked, pinned, shown, first>>

\* Mutant: whatever is on disk is loaded.
LoadsAnything(n) == n \in Names

\* registry.load: what is on disk must still be what the registry discovered.
Loads(n) == disk[n] = catalog[n]

\* One Skill of the selection is loaded off the event loop and checked; the
\* last one completes the activation.
LoadNext ==
    /\ run = "loading"
    /\ Len(pinned.active) < Len(picked)
    /\ LET n == picked[Len(pinned.active) + 1]
           r == disk[n]
           total == pinned.instructions + Instructions[r]
       IN IF /\ Grants[r] \subseteq Tools
             /\ Loads(n)
             /\ Instructions[r] <= MaxInstruction
             /\ total <= MaxTotal
          THEN /\ pinned' = [pinned EXCEPT !.active = Append(@, Pin(n, r)), !.instructions = total]
               /\ UNCHANGED <<run, picked, shown, first>>
          ELSE Fails
    /\ UNCHANGED <<disk, catalog, saved, edits, restarts>>
    /\ UNCHANGED resources

Shows(active) == [n \in Names |->
                    IF \E a \in Range(active) : a.name = n
                    THEN (CHOOSE a \in Range(active) : a.name = n).revision ELSE Unset]

Activate ==
    /\ run = "loading"
    /\ Len(pinned.active) = Len(picked)
    /\ run' = "active"
    /\ shown' = Shows(pinned.active)
    /\ first' = IF saved.catalog = Unset THEN shown' ELSE first
    /\ UNCHANGED <<disk, catalog, picked, pinned, saved, edits, restarts>>
    /\ UNCHANGED resources

\* Between resource accesses the run's state is checkpointed.
Checkpoint == /\ run = "active" /\ page = Idle
              /\ saved' = pinned
              /\ UNCHANGED <<disk, catalog, run, picked, pinned, shown, first, edits, restarts>>
              /\ UNCHANGED resources

\* The process dies; the next one discovers the packages as they are now.  The
\* cursors were in the model's context and do not survive unless checkpointed
\* with the conversation, which leaves resource results out.
Crash == /\ run \in {"loading", "active", "failed"}
         /\ restarts < MaxRestarts
         /\ restarts' = restarts + 1
         /\ run' = "down"
         /\ catalog' = disk
         /\ picked' = <<>>
         /\ pinned' = saved
         /\ shown' = [n \in Names |-> Unset]
         /\ page' = Idle
         /\ text' = [n \in Names |-> 0]
         /\ found' = [n \in Names |-> <<>>]
         /\ cursor' = [n \in Names |-> Start]
         /\ UNCHANGED <<disk, saved, first, edits>>

\* arestore: the catalog must be the one of the checkpoint, every pinned package
\* must load, and the tools, the tokens and the budget must fit as they did.  A
\* run that was never checkpointed with a selection selects anew.
Resume ==
    /\ run = "down"
    /\ IF saved.catalog = Unset
       THEN run' = "new" /\ UNCHANGED shown
       ELSE IF /\ saved.catalog = catalog
               /\ \A a \in Range(saved.active) : Loads(a.name) /\ a.tools = Grants[catalog[a.name]]
               /\ saved.tokens <= MaxResource /\ saved.reads <= MaxReads
               /\ saved.instructions + saved.tokens <= MaxTotal
            THEN run' = "active" /\ shown' = Shows(saved.active)
            ELSE run' = "failed" /\ UNCHANGED shown
    /\ UNCHANGED <<disk, catalog, picked, pinned, saved, first, edits, restarts>>
    /\ UNCHANGED resources

\* The model calls a resource tool: the call is counted before it runs, and a
\* response with one call too many ends the run.
Ask == /\ run = "active" /\ page = Idle
       /\ \E n \in ActiveNames, k \in {"read", "search"} :
            IF pinned.reads + 1 > MaxReads
            THEN /\ run' = "failed"
                 /\ UNCHANGED <<pinned, page>>
            ELSE /\ pinned' = [pinned EXCEPT !.reads = @ + 1]
                 /\ page' = [kind |-> k, name |-> n]
                 /\ UNCHANGED run
       /\ UNCHANGED <<disk, catalog, picked, saved, shown, first, text, found, cursor, edits, restarts>>

\* resource_snapshot: the whole package is validated against the pinned digest
\* before a byte of it is read; a changed package fails the call.
Verify ==
    /\ page.kind \in {"read", "search"}
    /\ page' = IF disk[page.name] = RevisionOf(page.name)
               THEN [page EXCEPT !.kind = IF page.kind = "read" THEN "reading" ELSE "searching"]
               ELSE Idle
    /\ UNCHANGED <<disk, catalog, run, picked, pinned, saved, shown, first, text, found, cursor,
                   edits, restarts>>

\* Byte offset at which the k-th character of a text ends.
Offset(w, k) == MapThenSumSet(LAMBDA i : w[i], 1..k)

\* The characters of the page from byte c: all that end within its limit.
PageEnd(w, c) == CHOOSE k \in 0..Len(w) :
                   /\ Offset(w, k) <= c + PageBytes
                   /\ k < Len(w) => Offset(w, k + 1) > c + PageBytes

\* The budget is checked on the result: one that does not fit is replaced by an
\* error and the model does not see it.
Delivers(cost, deliver) ==
    IF /\ pinned.tokens + cost <= MaxResource
       /\ pinned.instructions + pinned.tokens + cost <= MaxTotal
    THEN /\ pinned' = [pinned EXCEPT !.tokens = @ + cost]
         /\ deliver
    ELSE UNCHANGED <<pinned, text, found, cursor>>

Unchanged(n) == disk[n] = RevisionOf(n)

\* A page of text, its digest checked again on the bytes read.  The model
\* follows next_cursor; a page with no room for the next character fails.
ReadPage ==
    /\ page.kind = "reading"
    /\ LET n == page.name
           w == Widths[disk[n]]
           c == cursor[n].read
           k == PageEnd(w, c)
       IN IF Unchanged(n) /\ Offset(w, k) > c
          THEN Delivers(Offset(w, k) - c,
                        /\ text' = [text EXCEPT ![n] = k]
                        /\ cursor' = [cursor EXCEPT ![n].read = Offset(w, k)]
                        /\ UNCHANGED found)
          ELSE UNCHANGED <<pinned, text, found, cursor>>
    /\ page' = Idle
    /\ UNCHANGED <<disk, catalog, run, picked, saved, shown, first, edits, restarts>>

Before(p, q) == p.file < q.file \/ (p.file = q.file /\ p.line < q.line)

\* Every match of a revision, in the order of a search.
Matches(r) == SetToSortSeq(UNION {{[file |-> f, line |-> l] : l \in Lines[r][f]} :
                                    f \in DOMAIN Lines[r]}, Before)

\* The first file that no longer fits the scan budget, the first match that no
\* longer fits the page: the search stops at the earlier and resumes there.
FileStops(r, p) == {[file |-> g, line |-> 0] : g \in
    {g \in DOMAIN Sizes[r] : g > p.file
        /\ MapThenSumSet(LAMBDA f : Sizes[r][f], p.file..g) > ScanBytes}}
MatchStops(r, p) == LET rest == SelectSeq(Matches(r), LAMBDA m : ~Before(m, p))
                    IN IF Len(rest) > MaxMatches THEN {rest[MaxMatches + 1]} ELSE {}
Stops(r, p) == FileStops(r, p) \cup MatchStops(r, p)
Stop(r, p) == CHOOSE s \in Stops(r, p) : \A t \in Stops(r, p) : s = t \/ Before(s, t)

SearchPage ==
    /\ page.kind = "searching"
    /\ cursor[page.name].search.file # 0
    /\ LET n == page.name
           r == disk[n]
           p == cursor[n].search
           seen == SelectSeq(Matches(r), LAMBDA m :
                     ~Before(m, p) /\ (Stops(r, p) # {} => Before(m, Stop(r, p))))
       IN IF Unchanged(n)
          THEN Delivers(1 + Len(seen),
                        /\ found' = [found EXCEPT ![n] = @ \o seen]
                        /\ cursor' = [cursor EXCEPT ![n].search =
                                        IF Stops(r, p) = {} THEN [file |-> 0, line |-> 0] ELSE Stop(r, p)]
                        /\ UNCHANGED text)
          ELSE UNCHANGED <<pinned, text, found, cursor>>
    /\ page' = Idle
    /\ UNCHANGED <<disk, catalog, run, picked, saved, shown, first, edits, restarts>>

\* A search that is complete is not continued.
SearchDone ==
    /\ page.kind = "searching"
    /\ cursor[page.name].search.file = 0
    /\ page' = Idle
    /\ UNCHANGED <<disk, catalog, run, picked, pinned, saved, shown, first, text, found, cursor,
                   edits, restarts>>

Next == \/ Edit \/ Select \/ LoadNext \/ Activate \/ Checkpoint \/ Crash \/ Resume
        \/ Ask \/ Verify \/ ReadPage \/ SearchPage \/ SearchDone

Spec == Init /\ [][Next]_skillVars
----------------------------------------------------------------------------
TypeOK == /\ run \in {"new", "loading", "active", "failed", "down"}
          /\ page.kind \in {"none", "read", "search", "reading", "searching"}
          /\ disk \in [Names -> Revisions] /\ catalog \in [Names -> Revisions]

\* The instructions the model sees are those the run was started with, through
\* any edits and restarts, and those of the catalog it chose from: a changed
\* package fails the run instead.
InstructionsArePinned ==
    run = "active" =>
      /\ shown = Shows(pinned.active) /\ shown = first
      /\ \A n \in ActiveNames : shown[n] = pinned.catalog[n]

\* What the model pieces together from pages is a prefix of one revision's
\* text and matches, complete when the cursor says so.
PagesAreOneRevision ==
    run = "active" => \A n \in ActiveNames :
      /\ cursor[n].read = Offset(Widths[first[n]], text[n])
      /\ IsPrefix(found[n], Matches(first[n]))
      /\ cursor[n].search.file = 0 => found[n] = Matches(first[n])

\* The budgets hold over the whole run, also after a resumption.
WithinBudget == /\ pinned.reads <= MaxReads /\ pinned.tokens <= MaxResource
                /\ pinned.instructions + pinned.tokens <= MaxTotal
                /\ pinned.instructions = MapThenSumSet(LAMBDA i :
                      Instructions[pinned.active[i].revision], DOMAIN pinned.active)

\* A Skill never opens a tool the Agent does not have, nor one that the
\* revision its instructions come from did not ask for.
ToolsAreGranted == run = "active" =>
    \A a \in Range(pinned.active) : a.tools \subseteq Tools /\ a.tools = Grants[shown[a.name]]

SkillsSound == TypeOK /\ InstructionsArePinned /\ PagesAreOneRevision /\ WithinBudget /\ ToolsAreGranted
=============================================================================
