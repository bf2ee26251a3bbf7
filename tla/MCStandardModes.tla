--------------------------- MODULE MCStandardModes ---------------------------
(***************************************************************************)
(* What happens to one run: two instances of StandardRun (every fault with *)
(* the decisions a policy usually makes, and every decision with auxiliary *)
(* model calls but no fault beyond cancellation and timeout), the direct   *)
(* and the strict plan engine, the model call and the step policy they     *)
(* share, the skills a run works with, and the summary of its history and  *)
(* the items that fit its prompt.                                          *)
(* A behaviour exercises the one that `part` names and the others rest.    *)
(***************************************************************************)
EXTENDS Integers, StandardRun

VARIABLES
    part,
    directStaged, directPc, ctx, attempt, saved, directLog, batches, outcome, provider,
    directRan, lost, forgot, crashes, resumes,
    strictPc, plan, strictSaved, strictLog, emitted, finals, effects, torn, hollow,
    strictCrashes, strictResumes,
    modelMode, aux, modelPc, modelAttempt, turns, held, answer, sent, parts, frags,
    modelShown, usage, events, modelOutcome, result, primary,
    skillDisk, catalog, skillRun, picked, pinned, skillSaved, skillShown, first, page, text, found,
    cursor, edits, restarts,
    policyMode, policyPc, st, batch, notes, policyRan, rounds, reloads,
    contextLog, summary, legacy, clearing, epoch, at, view,
    job, step, chosen, items

CONSTANTS Nothing, Unset, getA, getB, r1, r2

MCNone == {}
MCBoth == {TRUE, FALSE}
MCNoContinue == {"finish", "custom", "tools", "fail"}
MCAll == {"finish", "custom", "tools", "continue", "fail"}
MCSkills == {"skills"}
MCAux == {"skills", "summary"}
MCFaults == {"setup", "store", "crash"}

Graceful == INSTANCE StandardRun WITH
    MaxSteps <- 2, MaxToolCalls <- 1, Decisions <- MCAll, AuxCalls <- MCAux, Faults <- MCNone

(* Answers of a provider: up to two fragments of text, one call cut in two *)
(* fragments, or two calls.                                                *)
MCCall(n, a) == [name |-> n, args |-> a]
MCAnswers ==
    [text : {<<>>, <<1>>, <<1, 2>>},
     calls : {<<>>, <<MCCall(getA, <<1, 2>>)>>, <<MCCall(getA, <<1>>), MCCall(getB, <<2>>)>>},
     finish : {"stop", "length"}]

(* Skills: what each revision of a package holds. *)
MCInstructions == <<1, 2, 1>>
MCGrants == <<{"t1"}, {}, {"t2"}>>
MCWidths == <<<<1, 2, 1>>, <<2, 1>>, <<1>>>>
MCLines  == <<<<{0, 2}, {1}>>, <<{}, {0}>>, <<{}, {}>>>>
MCSizes  == <<<<2, 2>>, <<1, 1>>, <<1, 1>>>>

(* Drafts of a planner, valid and not, and batches of tool calls. *)
MCStep(i, d) == [id |-> i, deps |-> d, tools |-> {}]
MCDrafts ==
    {<<MCStep("s1", {}), MCStep("s2", {"s1"})>>, <<MCStep("s2", {}), MCStep("s3", {"s2"})>>,
     <<MCStep("s1", {}), MCStep("s3", {"s1"})>>, <<MCStep("s1", {"s2"}), MCStep("s2", {})>>,
     <<MCStep("s1", {}), MCStep("s1", {})>>, <<MCStep("s3", {})>>, <<>>,
     <<[id |-> "s1", deps |-> {}, tools |-> {"x"}]>>}
MCToolCall(i, t, a) == [id |-> i, tool |-> t, args |-> a]
MCBatches ==
    {<<MCToolCall(1, "t", "a")>>, <<MCToolCall(2, "t", "b")>>, <<MCToolCall(2, "u", "b")>>,
     <<MCToolCall(3, "t", "a")>>, <<MCToolCall(2, "t", "a"), MCToolCall(3, "t", "b")>>,
     <<MCToolCall(3, "t", "a"), MCToolCall(3, "t", "b")>>}

(* Items a prompt is assembled from: two groups, wants and needs. *)
MCItem == {i \in [group : {1, 2}, required : BOOLEAN, priority : {1, 2}, min : 0..2, max : {1, 2}] :
              i.min <= i.max}
MCItems == {<<i, j>> : i \in MCItem, j \in MCItem}
           \cup {<<i, j, k>> : i \in MCItem, j \in MCItem,
                               k \in {x \in MCItem : x.group = 2 /\ x.min = 1}}

Direct == INSTANCE DirectRun WITH
    MaxSteps <- 2, MaxTurns <- 3, MaxToolCalls <- 1, MaxAttempts <- 2, MaxCrashes <- 2,
    MaxResumes <- 2, staged <- directStaged, pc <- directPc, log <- directLog,
    ran <- directRan

Strict == INSTANCE StrictRun WITH
    Steps <- 2, MaxStepAttempts <- 2, MaxReplans <- 1, MaxRepairs <- 1, MaxCalls <- 3,
    MaxCrashes <- 2, MaxResumes <- 2, pc <- strictPc, saved <- strictSaved,
    log <- strictLog, crashes <- strictCrashes, resumes <- strictResumes

Model == INSTANCE ModelCalls WITH
    Answers <- MCAnswers, MaxAttempts <- 3, MaxTurns <- 3, mode <- modelMode, pc <- modelPc,
    attempt <- modelAttempt, shown <- modelShown, outcome <- modelOutcome

Skill == INSTANCE Skills WITH
    Names <- {"s1", "s2"}, Revisions <- {1, 2, 3}, Instructions <- MCInstructions,
    Grants <- MCGrants, Widths <- MCWidths, Lines <- MCLines, Sizes <- MCSizes,
    Tools <- {"t1"}, MaxActive <- 2, MaxInstruction <- 2, MaxTotal <- 7, MaxResource <- 5,
    MaxReads <- 3, PageBytes <- 2, ScanBytes <- 3, MaxMatches <- 1, MaxEdits <- 2,
    MaxRestarts <- 1, run <- skillRun, saved <- skillSaved,
    disk <- skillDisk, shown <- skillShown

Policy == INSTANCE StepPolicy WITH
    Drafts <- MCDrafts, Batches <- MCBatches, Tools <- {"t"},
    Outcomes <- {"ok", "repair", "replan", "fail", "retry"},
    Modes <- {"replan", "fail", "legacy_replan", "legacy_fail", "implicit"}, MaxDraft <- 2,
    MaxAttempts <- 2, MaxReplans <- 1, MaxRepairs <- 1, MaxReloads <- 1, mode <- policyMode,
    pc <- policyPc, ran <- policyRan

Memory == INSTANCE ContextMemory WITH
    Readers <- {r1, r2}, Texts <- {"a", "b"}, PageSize <- 1, MaxTail <- 2, MaxIds <- 2,
    Stored <- {<<>>, <<"a", "b">>}, MaxLog <- 3, MaxClears <- 1, log <- contextLog

Selection == INSTANCE MemorySelection WITH
    Turns <- 3, Budget <- 1, MaxCount <- 2, Items <- MCItems

directVars == <<directStaged, directPc, ctx, attempt, saved, directLog, batches, outcome,
                provider, directRan, lost, forgot, crashes, resumes>>
strictVars == <<strictPc, plan, strictSaved, strictLog, emitted, finals, effects, torn,
                hollow, strictCrashes, strictResumes>>
modelVars == <<modelMode, aux, modelPc, modelAttempt, turns, held, answer, sent, parts,
               frags, modelShown, usage, events, modelOutcome, result, primary>>
skillVars == <<skillDisk, catalog, skillRun, picked, pinned, skillSaved, skillShown, first,
               page, text, found, cursor, edits, restarts>>
policyVars == <<policyMode, policyPc, st, batch, notes, policyRan, rounds, reloads>>
memoryVars == <<contextLog, summary, legacy, clearing, epoch, at, view>>
selectionVars == <<job, step, chosen, items>>
promptVars == <<memoryVars, selectionVars>>
allVars == <<part, vars, directVars, strictVars, modelVars, skillVars, policyVars, promptVars>>

(* The parts that a behaviour does not exercise rest, the run of the         *)
(* standard engine in an initial state.                                    *)
MainRests == Init /\ ~staged /\ ~retain
DirectRests ==
    /\ directStaged = 0 /\ directPc = 0 /\ ctx = 0 /\ attempt = 0 /\ saved = 0
    /\ directLog = 0 /\ batches = 0 /\ outcome = 0 /\ provider = 0 /\ directRan = 0
    /\ lost = 0 /\ forgot = 0 /\ crashes = 0 /\ resumes = 0
StrictRests ==
    /\ strictPc = 0 /\ plan = 0 /\ strictSaved = 0 /\ strictLog = 0 /\ emitted = 0
    /\ finals = 0 /\ effects = 0 /\ torn = 0 /\ hollow = 0 /\ strictCrashes = 0
    /\ strictResumes = 0
ModelRests ==
    /\ modelMode = 0 /\ aux = 0 /\ modelPc = 0 /\ modelAttempt = 0 /\ turns = 0 /\ held = 0
    /\ answer = 0 /\ sent = 0 /\ parts = 0 /\ frags = 0 /\ modelShown = 0 /\ usage = 0
    /\ events = 0 /\ modelOutcome = 0 /\ result = 0 /\ primary = 0
SkillRests ==
    /\ skillDisk = 0 /\ catalog = 0 /\ skillRun = 0 /\ picked = 0 /\ pinned = 0
    /\ skillSaved = 0 /\ skillShown = 0 /\ first = 0 /\ page = 0 /\ text = 0 /\ found = 0
    /\ cursor = 0 /\ edits = 0 /\ restarts = 0
PolicyRests ==
    /\ policyMode = 0 /\ policyPc = 0 /\ st = 0 /\ batch = 0 /\ notes = 0 /\ policyRan = 0
    /\ rounds = 0 /\ reloads = 0
MemoryRests ==
    /\ contextLog = 0 /\ summary = 0 /\ legacy = 0 /\ clearing = 0 /\ epoch = 0 /\ at = 0
    /\ view = 0
SelectionRests == job = 0 /\ step = 0 /\ chosen = 0 /\ items = 0

MCInit ==
    /\ part \in {"faults", "graceful", "direct", "strict", "model", "skills", "steps", "memory",
                 "selection"}
    /\ CASE part = "faults" -> Init [] part = "graceful" -> Graceful!Init [] OTHER -> MainRests
    /\ IF part = "direct" THEN Direct!Init ELSE DirectRests
    /\ IF part = "strict" THEN Strict!Init ELSE StrictRests
    /\ IF part = "model" THEN Model!Init ELSE ModelRests
    /\ IF part = "skills" THEN Skill!Init ELSE SkillRests
    /\ IF part = "steps" THEN Policy!Init ELSE PolicyRests
    /\ IF part = "memory" THEN Memory!Init ELSE MemoryRests
    /\ IF part = "selection" THEN Selection!Init ELSE SelectionRests

MCNext ==
    /\ UNCHANGED part
    /\ \/ part = "faults" /\ Next
          /\ UNCHANGED <<directVars, strictVars, modelVars, skillVars, policyVars, promptVars>>
       \/ part = "graceful" /\ Graceful!Next
          /\ UNCHANGED <<directVars, strictVars, modelVars, skillVars, policyVars, promptVars>>
       \/ part = "direct" /\ Direct!Next
          /\ UNCHANGED <<vars, strictVars, modelVars, skillVars, policyVars, promptVars>>
       \/ part = "strict" /\ Strict!Next
          /\ UNCHANGED <<vars, directVars, modelVars, skillVars, policyVars, promptVars>>
       \/ part = "model" /\ Model!Next
          /\ UNCHANGED <<vars, directVars, strictVars, skillVars, policyVars, promptVars>>
       \/ part = "skills" /\ Skill!Next
          /\ UNCHANGED <<vars, directVars, strictVars, modelVars, policyVars, promptVars>>
       \/ part = "steps" /\ Policy!Next
          /\ UNCHANGED <<vars, directVars, strictVars, modelVars, skillVars, promptVars>>
       \/ part = "memory" /\ Memory!Next
          /\ UNCHANGED <<vars, directVars, strictVars, modelVars, skillVars, policyVars,
                          selectionVars>>
       \/ part = "selection" /\ Selection!Next
          /\ UNCHANGED <<vars, directVars, strictVars, modelVars, skillVars, policyVars,
                          memoryVars>>

MCSpec == MCInit /\ [][MCNext]_allVars

(* Without crashes and failing best-effort writes, no batch key is reused   *)
(* for other messages.                                                      *)
NoConflict == part = "graceful" => NoPersistConflict

(* Under the same conditions every claim of resumability holds. *)
ClaimHolds == part = "graceful" => ResumableClaimHolds

(* A resume is safe under every fault, as long as no CONTINUE decision      *)
(* follows tools.                                                           *)
SafeResumes == part = "faults" => ResumesAreSafe

(* The second instance keeps its own limits.  The other engines, over       *)
(* crashes and resumptions: what was spent stays spent, completed steps     *)
(* stay done, the answer a model gave is the answer a caller sees once, and *)
(* a plan is revised and repaired within its rules.                         *)
EngineRunsSound ==
    /\ part = "graceful" => Graceful!TypeOK
    /\ part = "direct" => Direct!DirectSound
    /\ part = "strict" => Strict!StrictSound
    /\ part = "model" => Model!ModelCallSound
    /\ part = "steps" => Policy!StepPolicySound

(* What a run is shown is what there is: of its skills one pinned revision, *)
(* within its budgets; of its history a summary that covers what was said,  *)
(* and a selection that fits and leaves nothing out that would.             *)
PromptSound ==
    /\ part = "skills" => Skill!SkillsSound
    /\ part = "memory" => Memory!ContextSound
    /\ part = "selection" => Selection!SelectionSound
====
