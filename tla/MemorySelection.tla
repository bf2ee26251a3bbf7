--------------------------- MODULE MemorySelection ---------------------------
(***************************************************************************)
(* What of a conversation goes into a model request.  Complete turns are   *)
(* chosen from the newest back, older ones are summarized, and an exact    *)
(* token count decides, whatever the counter makes of it: the count of a   *)
(* request need not be the sum of its parts.  Here a request is which      *)
(* summary it has and the turn its history starts with.                    *)
(***************************************************************************)
EXTENDS Integers, Sequences, FiniteSets, FiniteSetsExt

CONSTANTS
    Turns,    \* number of turns in the history, the oldest is turn 0
    Budget,   \* input tokens
    MaxCount, \* bound: tokens of a request
    Items     \* bound: what the assembler is given, sequences of context items

VARIABLES
    job,      \* the request: its counter, its limits, its policy
    step,     \* where prepare is
    chosen,   \* the summary and the first turn chosen so far
    items     \* the items of a call of the assembler

selVars == <<job, step, chosen, items>>

Starts == 0..Turns
Counters == [Starts -> 0..MaxCount]

(* A malformed turn ends the history: only what follows the last one is     *)
(* kept.  At most "limit" turns are.                                        *)
Request ==
    [none : Counters, mine : Counters, theirs : {[k \in Starts |-> c] : c \in {0, MaxCount}},
     valid : 0..1, limit : {1, Turns}, policy : {"turns", "budget", "durable"}]

NoTokens ==
    LET zero == [k \in Starts |-> 0]
    IN [none |-> zero, mine |-> zero, theirs |-> zero, valid |-> 0, limit |-> 1, policy |-> "turns"]

Init ==
    /\ \/ step = "new" /\ job \in Request /\ items = <<>>
       \/ step = "assembled" /\ job = NoTokens /\ items \in Items
    /\ chosen = [summary |-> "none", from |-> 0]

Count(s, k) == IF s = "none" THEN job.none[k] ELSE IF s = "mine" THEN job.mine[k] ELSE job.theirs[k]
Fits(s, k) == Count(s, k) <= Budget

Oldest == Max({job.valid, Turns - job.limit})

-----------------------------------------------------------------------------
(* The binary search for the fewest turns to remove. *)
Search(low, high) ==
    LET find[p \in Starts \X Starts] ==
            LET mid == (p[1] + p[2]) \div 2
            IN IF p[1] >= p[2] THEN p[1]
               ELSE IF Fits("none", Oldest + mid) THEN find[<<p[1], mid>>]
               ELSE find[<<mid + 1, p[2]>>]
    IN find[<<low, high>>]

Recent ==
    IF Oldest = Turns \/ Fits("none", Oldest) THEN Oldest
    ELSE Oldest + Search(1, Turns - Oldest)

(* RecentTurns takes its turns; the others take what fits or raise overflow, *)
(* and summarize what they left out.                                        *)
Select ==
    /\ step = "new"
    /\ chosen' = [summary |-> "none", from |-> IF job.policy = "turns" THEN Oldest ELSE Recent]
    /\ step' = IF job.policy = "turns" THEN "ready"
               ELSE IF ~Fits("none", Recent) THEN "overflow"
               ELSE IF Recent > job.valid THEN "summary" ELSE "ready"
    /\ UNCHANGED <<job, items>>

(* The summarizer fails: recent turns only, or the failure is terminal. *)
NoSummary ==
    /\ step = "summary"
    /\ step' \in {"recent", "failed"}
    /\ UNCHANGED <<job, chosen, items>>

-----------------------------------------------------------------------------
(* The first start from k on at which a summary fits, or the last. *)
Shrink(s, k) ==
    LET shrink[i \in Starts] == IF Fits(s, i) \/ i = Turns THEN i ELSE shrink[i + 1]
    IN shrink[k]

(* The last start down to "least" that can be reached while it fits. *)
Grow(s, k, least) ==
    LET grow[i \in Starts] ==
            IF i = least THEN i ELSE IF Fits(s, i - 1) THEN grow[i - 1] ELSE i
    IN grow[k]

(* TokenBudget: turns move from the history to the summary until it fits. *)
Condense ==
    /\ step = "summary" /\ job.policy = "budget"
    /\ LET from == Shrink("mine", chosen.from)
       IN chosen' = IF Fits("mine", from) THEN [summary |-> "mine", from |-> from] ELSE chosen
    /\ step' = "ready"
    /\ UNCHANGED <<job, items>>

(* _allocate_integer_costs: a total shared by weight, by cumulative         *)
(* rounding.  Here every weight is one.                                     *)
Allocated(i, parts, total) == ((i * total) \div parts) - (((i - 1) * total) \div parts)

(* ContextAssembler on the summary and the turns from start on: the summary *)
(* first, then the newest turn, each if its cost is left.  "left" after the *)
(* summary and the turns down to k; -1 stands for a turn that was skipped.  *)
Parts(start) == 1 + Turns - start
Total(s, start) == Max({0, Count(s, start) - Count("none", Turns)})
Cost(s, start, i) == Allocated(i, Parts(start), Total(s, start))

TakesSummary(s, start) == Cost(s, start, 1) <= Budget - Count("none", Turns)

FirstTaken(s, start) ==
    LET left == Budget - Count("none", Turns) - (IF TakesSummary(s, start) THEN Cost(s, start, 1) ELSE 0)
        take[k \in Starts] ==
            IF k = Turns THEN [left |-> left, from |-> Turns]
            ELSE LET after == take[k + 1] cost == Cost(s, start, k - start + 2)
                 IN IF after.from = k + 1 /\ cost <= after.left
                    THEN [left |-> after.left - cost, from |-> k]
                    ELSE after
    IN take[start].from

(* select_runtime_context: the assembler's choice, corrected by exact       *)
(* counts, first down to the budget and then up to it.                      *)
SelectExact(s, start) ==
    LET used == IF TakesSummary(s, start) THEN s ELSE "none"
        down == Shrink(used, FirstTaken(s, start))
        kept == IF Fits(used, down) THEN used ELSE "none"
        again == Shrink(s, down)
        summary == IF kept = "none" /\ Fits(s, again) THEN s ELSE kept
        from == IF kept = "none" THEN again ELSE down
    IN IF Count("none", Turns) > Budget \/ ~Fits(kept, down)
       THEN [ok |-> FALSE, summary |-> "none", from |-> start]
       ELSE [ok |-> TRUE, summary |-> summary, from |-> Grow(summary, from, start)]

(* A durable policy: the summary is optional, and it is committed only if   *)
(* it was selected.  A concurrent winner is fitted anew.                    *)
Arrange ==
    /\ step = "summary" /\ job.policy = "durable"
    /\ LET first == SelectExact("mine", chosen.from)
           second == SelectExact("theirs", chosen.from)
           Take(c) == IF c.summary = "none" THEN chosen ELSE [summary |-> c.summary, from |-> c.from]
       IN \/ /\ ~first.ok
             /\ step' = "raised" /\ UNCHANGED chosen
          \/ /\ first.ok
             /\ chosen' = Take(first) /\ step' = "ready"
          \/ /\ first.ok /\ first.summary # "none"
             /\ IF second.ok THEN chosen' = Take(second) /\ step' = "ready"
                ELSE UNCHANGED chosen /\ step' = "raised"
    /\ UNCHANGED <<job, items>>

Next == Select \/ NoSummary \/ Condense \/ Arrange

Spec == Init /\ [][Next]_selVars

-----------------------------------------------------------------------------
(* ContextAssembler.assemble on any items: atomic groups, some required,    *)
(* some compressible.                                                       *)
GroupsIn == {items[i].group : i \in DOMAIN items}
Members(g) == {i \in DOMAIN items : items[i].group = g}
Minimum(g) == MapThenSumSet(LAMBDA i : items[i].min, Members(g))
Required(g) == \E i \in Members(g) : items[i].required
Priority(g) == Max({items[i].priority : i \in Members(g)})
RequiredMinimum == MapThenSumSet(Minimum, {g \in GroupsIn : Required(g)})

Before(g, h) ==
    \/ Priority(g) > Priority(h)
    \/ Priority(g) = Priority(h) /\ Min(Members(g)) < Min(Members(h))

Room == Budget - RequiredMinimum

(* The groups in order of priority: whether each is taken, what it uses and *)
(* what is left after it.                                                   *)
Assembled ==
    LET Extra(g) == MapThenSumSet(LAMBDA i : items[i].max - items[i].min, Members(g))
        after[g \in GroupsIn] ==
            LET E == {h \in GroupsIn : Before(h, g)}
                left == IF E = {} THEN Room
                        ELSE after[CHOOSE h \in E : \A k \in E : k = h \/ Before(k, h)].left
                min == IF Required(g) THEN 0 ELSE Minimum(g)
                extra == IF Extra(g) < left - min THEN Extra(g) ELSE left - min
            IN IF min > left THEN [taken |-> FALSE, left |-> left, used |-> 0]
               ELSE [taken |-> TRUE, left |-> left - min - extra, used |-> Minimum(g) + extra]
    IN after

-----------------------------------------------------------------------------
TypeOK ==
    /\ step \in {"new", "summary", "ready", "recent", "overflow", "raised", "failed", "assembled"}
    /\ chosen.summary \in {"none", "mine", "theirs"} /\ chosen.from \in Starts

(* The count grows with the request. *)
Monotone ==
    \A k \in 0..(Turns - 1) :
        /\ job.none[k] >= job.none[k + 1] /\ job.mine[k] >= job.mine[k + 1]
        /\ job.mine[k] >= job.none[k] /\ job.mine[Turns] >= job.none[Turns]
        /\ job.theirs[k] >= job.none[k] /\ job.theirs[Turns] >= job.none[Turns]

(* Whatever the counter says, a request that is sent fits its budget, has   *)
(* no turn before a malformed one and no more turns than allowed.           *)
RequestFits ==
    step \in {"ready", "recent"} =>
        /\ job.policy # "turns" => Fits(chosen.summary, chosen.from)
        /\ chosen.from >= Oldest

(* With a counter that grows with the request nothing is left out that      *)
(* would fit: overflow means that not even the required messages fit, the   *)
(* recent turns are as many as fit, a summary is left out only if it fits   *)
(* with no turn, and otherwise as many turns follow it as leave it room.    *)
NothingMoreFits ==
    Monotone /\ job.policy # "turns" =>
        /\ step # "raised"
        /\ step = "overflow" => ~Fits("none", Turns)
        /\ step \in {"summary", "recent", "ready"} /\ chosen.summary = "none" /\ chosen.from > Oldest =>
              ~Fits("none", chosen.from - 1)
        /\ step = "ready" /\ chosen.from > job.valid /\ chosen.summary = "none" =>
              \E s \in {"mine", "theirs"} : ~Fits(s, Turns)
        /\ step = "ready" /\ chosen.summary # "none" /\ chosen.from > Recent =>
              ~Fits(chosen.summary, chosen.from - 1)

(* Required groups are always taken, the budget holds, and a group is       *)
(* dropped only if what came before it and what is required left no room.   *)
AssemblyIsFair ==
    step = "assembled" /\ RequiredMinimum <= Budget =>
        LET Used(S) == MapThenSumSet(LAMBDA g : Assembled[g].used, S)
        IN /\ Used(GroupsIn) <= Budget
           /\ \A g \in GroupsIn :
                 \/ Assembled[g].taken
                 \/ /\ ~Required(g)
                    /\ Minimum(g) + Used({h \in GroupsIn : Before(h, g) \/ Required(h)}) > Budget

SelectionSound == TypeOK /\ RequestFits /\ NothingMoreFits /\ AssemblyIsFair
=============================================================================
