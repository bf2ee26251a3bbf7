--------------------------- MODULE IndexPublication ---------------------------
(* The index generations of examples/14_rag_index_manager: a synchronization  *)
(* builds a new generation beside the one that is served, in a SQLite         *)
(* manifest and in a Milvus collection, publishes it by moving an alias and   *)
(* commits the manifest; a rollback moves both back.  The two stores share no *)
(* transaction, a Milvus call may fail, or take effect after its caller gave  *)
(* up on it, and the process may die between any two calls.  A document is    *)
(* one chunk; its revision stands for its content.                            *)
EXTENDS Integers, FiniteSets

CONSTANTS Documents, Contents,   \* documents and their contents; 0 is absent
          NoRows,                \* a collection that does not exist
          MaxGenerations,        \* bound: generations begun
          MaxChanges,            \* bound: changes of the directory
          MaxFaults,             \* bound: failing calls
          MaxDeaths              \* bound: deaths of the process

ASSUME IndexBounds ==
    MaxGenerations \in Nat /\ NoRows \notin [Documents -> {0} \cup Contents]

VARIABLES folder,      \* document -> content on disk
          gens,        \* generation -> its manifest: state and documents
          recent,      \* generation -> its place by published_at, the newest first; 0: never
          current,     \* kb_state.current_generation_id
          rows,        \* generation -> the rows of its collection
          alias, prior,\* the serving alias and the previous alias
          task,        \* the operation that holds the lock, or idle
          late,        \* alias switches that may still take effect
          slipped,     \* one has, after its caller gave up on it
          told,        \* what the last success reported, and what it was true of
          changes, faults, deaths

indexVars == <<folder, gens, recent, current, rows, alias, prior, task, late, slipped, told,
               changes, faults, deaths>>

Generations == 1..MaxGenerations
NoDocuments == [d \in Documents |-> 0]
Idle == [pc |-> "idle", gen |-> 0, base |-> 0, snapshot |-> NoDocuments, force |-> FALSE,
         left |-> {}, from |-> 0, to |-> 0, next |-> "idle", public |-> FALSE]

IndexInit ==
    /\ folder \in [Documents -> Contents]
    /\ gens = [g \in Generations |-> [state |-> "none", docs |-> NoDocuments,
                                      snapshot |-> NoDocuments]]
    /\ recent = [g \in Generations |-> 0]
    /\ current = 0 /\ rows = [g \in Generations |-> NoRows]
    /\ alias = 0 /\ prior = 0 /\ task = Idle
    /\ late = {} /\ slipped = FALSE /\ told = [gen |-> 0, served |-> 0, listed |-> 0]
    /\ changes = 0 /\ faults = 0 /\ deaths = 0

Counters == UNCHANGED <<recent, changes, deaths>>
World == UNCHANGED <<folder, late, slipped, told>> /\ Counters
Fault == faults < MaxFaults /\ faults' = faults + 1

Listed(g) == IF g = 0 THEN NoDocuments ELSE gens[g].docs

-----------------------------------------------------------------------------
(* _sync_unlogged *)
BeginSync ==
    /\ task.pc = "idle" /\ alias = current
    /\ folder # NoDocuments
    /\ \E g \in Generations, force \in BOOLEAN :
          /\ gens[g].state = "none" /\ \A h \in 1..g-1 : gens[h].state # "none"
          /\ force \/ folder # Listed(current)
          /\ gens' = [gens EXCEPT ![g].state = "building", ![g].snapshot = folder]
          /\ task' = [Idle EXCEPT !.pc = "create", !.gen = g, !.base = current,
                                  !.snapshot = folder, !.force = force, !.left = Documents]
    /\ UNCHANGED <<current, rows, alias, prior, faults>> /\ World

Go(pc) == task' = [task EXCEPT !.pc = pc]
Abort == Go("cleanup")

Create ==
    /\ task.pc = "create"
    /\ \/ /\ Go("build") /\ rows' = [rows EXCEPT ![task.gen] = NoDocuments]
          /\ faults' = faults
       \/ /\ Fault /\ task' = [task EXCEPT !.pc = "cleanup", !.left = {}]
          /\ rows' \in {rows, [rows EXCEPT ![task.gen] = NoDocuments]}
    /\ UNCHANGED <<gens, current, alias, prior>> /\ World

(* One action of the plan: carry a document forward, drop it, or process it.  *)
(* The index may lose rows that it acknowledged.                              *)
Record(d, content) == gens' = [gens EXCEPT ![task.gen].docs[d] = content]
Index(d, content) == rows' = [rows EXCEPT ![task.gen][d] = content]
Retained(d) == ~task.force /\ task.snapshot[d] = Listed(task.base)[d]
Served(d) == IF alias = 0 THEN 0 ELSE rows[alias][d]
Done(d) == task' = [task EXCEPT !.left = @ \ {d},
                                !.pc = IF task.left = {d} THEN "validate" ELSE "build"]

Build ==
    /\ task.pc = "build"
    /\ LET d == CHOOSE x \in task.left : TRUE
           content == task.snapshot[d]
       IN \/ /\ content = 0
             /\ Done(d) /\ UNCHANGED <<gens, rows, faults>>
          \/ /\ content # 0 /\ Retained(d)
             /\ IF Served(d) # 0
                THEN Done(d) /\ Record(d, content) /\ Index(d, Served(d))
                ELSE Abort /\ UNCHANGED <<gens, rows>>
             /\ faults' = faults
          \/ /\ content # 0 /\ ~Retained(d)
             /\ IF folder[d] = content
                THEN Done(d) /\ Record(d, content) /\ Index(d, content)
                ELSE Abort /\ UNCHANGED <<gens, rows>>
             /\ faults' = faults
          \/ /\ content # 0 /\ Fault
             /\ Done(d) /\ Record(d, content) /\ UNCHANGED rows
          \/ /\ Fault /\ Abort /\ Record(d, content)
             /\ rows' \in {rows, [rows EXCEPT ![task.gen][d] = content]}
    /\ UNCHANGED <<current, alias, prior>> /\ World

(* Mutant: the rows of the new generation are not counted. *)
ValidUncounted == task.gen \in DOMAIN gens

(* validate, and mark_staged. *)
Valid == rows[task.gen] = gens[task.gen].docs
Validate ==
    /\ task.pc = "validate"
    /\ \/ /\ Valid
          /\ gens' = [gens EXCEPT ![task.gen].state = "staged"]
          /\ task' = [task EXCEPT !.pc = IF alias = 0 THEN "publish" ELSE "keep",
                                  !.from = alias, !.to = task.gen]
          /\ faults' = faults
       \/ ~Valid /\ Abort /\ UNCHANGED <<gens, faults>>
       \/ Fault /\ Abort /\ gens' = gens
    /\ UNCHANGED <<current, rows, alias, prior>> /\ World

(* _set_alias: done, failed after it was done, or failed and perhaps done     *)
(* later, by the thread that was not waited for.                              *)
Failed == Fault /\ Counters /\ UNCHANGED <<folder, slipped, told>>
SetPrior(target, pc, failpc) ==
    \/ /\ prior' = target /\ Go(pc) /\ UNCHANGED <<late, faults, folder, slipped, told>>
       /\ Counters
    \/ /\ Go(failpc) /\ Failed
       /\ \/ prior' = target /\ late' = late
          \/ prior' = prior /\ late' = late \cup {<<"prior", target>>}
SetAlias(target, pc, failpc) ==
    \/ /\ alias' = target /\ Go(pc) /\ UNCHANGED <<late, faults, folder, slipped, told>>
       /\ Counters
    \/ /\ Go(failpc) /\ Failed
       /\ \/ alias' = target /\ late' = late
          \/ alias' = alias /\ late' = late \cup {<<"alias", target>>}

KeepPrevious == /\ task.pc = "keep"
                /\ SetPrior(task.from, "publish", "cleanup")
                /\ UNCHANGED <<gens, current, rows, alias>>
Publish == /\ task.pc = "publish"
           /\ SetAlias(task.gen, "verify", "cleanup")
           /\ UNCHANGED <<gens, current, rows, prior>>

(* From here on the index counts as published: it is never dropped. *)
VerifyAlias ==
    /\ task.pc = "verify"
    /\ \/ /\ task' = [task EXCEPT !.public = TRUE,
                                  !.pc = IF alias = task.gen THEN "commit" ELSE "cleanup"]
          /\ faults' = faults
       \/ Fault /\ task' = [task EXCEPT !.public = TRUE, !.pc = "cleanup"]
    /\ UNCHANGED <<gens, current, rows, alias, prior>> /\ World

Promoted(g) == [h \in Generations |->
                   IF h = g THEN [gens[h] EXCEPT !.state = "published"]
                   ELSE IF h = current THEN [gens[h] EXCEPT !.state = "available"]
                   ELSE gens[h]]
Newest(g) == [h \in Generations |->
                 IF h = g THEN 1
                 ELSE IF recent[h] # 0 /\ (recent[g] = 0 \/ recent[h] < recent[g])
                 THEN recent[h] + 1
                 ELSE recent[h]]
Promote(g) == /\ gens' = Promoted(g) /\ current' = g
              /\ recent' = Newest(g)
              /\ UNCHANGED <<changes, deaths>>
Report(g) == told' = [gen |-> g, served |-> alias, listed |-> g]

(* commit_published; where it fails, the alias is moved back. *)
Commit ==
    /\ task.pc = "commit"
    /\ \/ /\ Promote(task.gen) /\ task' = Idle /\ faults' = faults
          /\ IF current = task.base THEN Report(task.gen) ELSE told' = told
          /\ UNCHANGED <<folder, late, slipped, rows, alias, prior>>
       \/ /\ Fault
          /\ task' = [task EXCEPT !.pc = IF task.base = 0 THEN "cleanup" ELSE "swap",
                                  !.next = "cleanup"]
          /\ UNCHANGED <<gens, current, rows, alias, prior>> /\ World

(* _cleanup_failed_run *)
Cleanup ==
    /\ task.pc = "cleanup"
    /\ task' = Idle
    /\ \/ /\ gens' = [gens EXCEPT ![task.gen].state = "failed"] /\ faults' = faults
          /\ rows' = IF task.public \/ task.gen \in {alias, prior} THEN rows
                     ELSE [rows EXCEPT ![task.gen] = NoRows]
       \/ /\ Fault /\ rows' = rows
          /\ gens' \in {gens, [gens EXCEPT ![task.gen].state = "failed"]}
    /\ UNCHANGED <<current, alias, prior>> /\ World

-----------------------------------------------------------------------------
(* The rollback of the alias: it and the previous alias change places. *)
Swap == /\ task.pc = "swap"
        /\ IF alias = 0 \/ prior = 0
           THEN /\ task' = [task EXCEPT !.pc = IF task.next = "cleanup" THEN "cleanup" ELSE "end"]
                /\ UNCHANGED <<gens, current, rows, alias, prior, faults>> /\ World
           ELSE /\ task' = [task EXCEPT !.pc = "swap1", !.from = alias, !.to = prior]
                /\ UNCHANGED <<gens, current, rows, alias, prior, faults>> /\ World
FailedSwap == IF task.next = "cleanup" THEN "cleanup" ELSE "end"
Swap1 == /\ task.pc = "swap1"
         /\ SetAlias(task.to, "swap2", FailedSwap)
         /\ UNCHANGED <<gens, current, rows, prior>>
Swap2 == /\ task.pc = "swap2"
         /\ SetPrior(task.from, task.next, FailedSwap)
         /\ UNCHANGED <<gens, current, rows, alias>>

(* _rollback_unlogged: the manifest names the newest generation that is       *)
(* available, and the index must have gone back to that one.                  *)
Available == {g \in Generations : gens[g].state = "available"}
Candidate == IF Available = {} THEN 0
             ELSE CHOOSE g \in Available : \A h \in Available : recent[g] <= recent[h]
Rollback ==
    /\ task.pc = "idle" /\ alias = current /\ current # 0 /\ Candidate # 0
    /\ task' = [Idle EXCEPT !.pc = "swap", !.gen = Candidate, !.base = current, !.next = "match"]
    /\ UNCHANGED <<gens, current, rows, alias, prior, faults>> /\ World
Match ==
    /\ task.pc = "match"
    /\ \/ task' = [task EXCEPT !.pc = IF alias = task.gen THEN "revert" ELSE "swap",
                               !.next = "end"] /\ faults' = faults
       \/ Fault /\ Go("end")
    /\ UNCHANGED <<gens, current, rows, alias, prior>> /\ World
Revert ==
    /\ task.pc = "revert"
    /\ \/ /\ Promote(task.gen) /\ task' = Idle /\ faults' = faults
          /\ IF current = task.base THEN Report(task.gen) ELSE told' = told
          /\ UNCHANGED <<folder, late, slipped, rows, alias, prior>>
       \/ /\ Fault /\ task' = [task EXCEPT !.pc = "swap", !.next = "end"]
          /\ UNCHANGED <<gens, current, rows, alias, prior>> /\ World
End == /\ task.pc = "end" /\ task' = Idle
       /\ UNCHANGED <<gens, current, rows, alias, prior, faults>> /\ World

-----------------------------------------------------------------------------
Change == /\ changes < MaxChanges /\ changes' = changes + 1
          /\ \E d \in Documents, c \in {0} \cup Contents :
                c # folder[d] /\ folder' = [folder EXCEPT ![d] = c]
          /\ UNCHANGED <<gens, current, rows, alias, prior, task, late, slipped, told,
                         recent, faults, deaths>>

Late == \E l \in late :
           /\ late' = late \ {l}
           /\ IF rows[l[2]] = NoRows THEN UNCHANGED <<alias, prior, slipped>>
              ELSE /\ slipped' = TRUE
                   /\ alias' = IF l[1] = "alias" THEN l[2] ELSE alias
                   /\ prior' = IF l[1] = "prior" THEN l[2] ELSE prior
           /\ UNCHANGED <<folder, gens, current, rows, task, told, recent, changes, faults, deaths>>

Die == /\ task.pc # "idle" /\ deaths < MaxDeaths /\ deaths' = deaths + 1
       /\ task' = Idle
       /\ UNCHANGED <<folder, gens, current, rows, alias, prior, late, slipped, told,
                      recent, changes, faults>>

IndexNext ==
    \/ BeginSync \/ Create \/ Build \/ Validate \/ KeepPrevious \/ Publish \/ VerifyAlias
    \/ Commit \/ Cleanup \/ Swap \/ Swap1 \/ Swap2 \/ Rollback \/ Match \/ Revert \/ End
    \/ Change \/ Late \/ Die

IndexSpec == IndexInit /\ [][IndexNext]_indexVars

-----------------------------------------------------------------------------
(* A collection an alias names exists and holds exactly the documents that    *)
(* its manifest lists: whatever failed, nothing half built is ever served.    *)
ServedIsWhole ==
    \A g \in {alias, prior} \ {0} : rows[g] # NoRows /\ rows[g] = gens[g].docs

(* The manifest's current generation is the published one, and it lists the   *)
(* documents of the snapshot it was planned from, those carried forward       *)
(* included; only such generations are kept for a rollback.                   *)
ManifestIsWhole ==
    /\ \A g \in Generations : gens[g].state = "published" <=> (g = current)
    /\ \A g \in Available \cup ({current} \ {0}) :
          gens[g].docs = gens[g].snapshot /\ rows[g] = gens[g].docs

(* A reported success was true of both stores, and while no call failed and   *)
(* no process died, they never part.                                          *)
ReportsAreTrue ==
    /\ ~slipped => told.gen = told.served
    /\ task.pc = "idle" /\ faults = 0 /\ deaths = 0 => alias = current

(* A rollback can only go where the previous alias points. *)
RollbackIsReady ==
    task.pc = "idle" /\ faults + deaths = 0 /\ Candidate # 0 => prior = Candidate

PublicationSound == ServedIsWhole /\ ManifestIsWhole /\ ReportsAreTrue /\ RollbackIsReady
=============================================================================
