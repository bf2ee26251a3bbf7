------------------------------ MODULE StageCache ------------------------------
(* The stages of one document revision in examples/14_rag_index_manager:      *)
(* parsing, restructuring, layout refinement, enrichment and chunking, each   *)
(* with an artifact that a later run may reuse.  The planner compares the     *)
(* pipeline with the one in the manifest to find the first stage to run; a    *)
(* stage whose artifact is missing or stale falls back to the stage before.   *)
(* An artifact carries the fingerprints the code stores in it, and `made',    *)
(* the pipeline that really produced it.                                      *)
EXTENDS Integers, Sequences, TLC

CONSTANTS Pipelines,       \* configurations the application runs with
          Missing,         \* an artifact that was never written
          MaxRuns,         \* bound: synchronizations
          MaxRollbacks     \* bound: rollbacks

Stages == <<"parser", "restructuring", "layout", "enrichment", "chunking", "embedding", "indexing">>
Made == {"parser", "restructuring", "layout", "enrichment", "chunking"}

VARIABLES config,          \* the pipeline the process was started with
          manifest,        \* published generations, the current one first
          files,           \* artifact -> what its file holds
          work,            \* the document being processed, or idle
          runs, rollbacks

cacheVars == <<config, manifest, files, work, runs, rollbacks>>

Resting == [pc |-> "idle", stage |-> "none", blocks |-> Missing, hints |-> Missing,
            chunks |-> Missing]

Init == /\ config \in Pipelines /\ manifest = <<>>
        /\ files = [a \in {"docling", "layout", "enrichments", "chunks"} |-> Missing]
        /\ work = Resting /\ runs = 0 /\ rollbacks = 0

-----------------------------------------------------------------------------
(* _pipeline_restart: the first fingerprint that differs names the stage.     *)
Changed == {i \in DOMAIN Stages : manifest[1].pipe[Stages[i]] # config[Stages[i]]}
Restart == IF manifest = <<>> THEN "parser"
           ELSE IF Changed = {} THEN "none"
           ELSE Stages[CHOOSE i \in Changed : \A j \in Changed : i <= j]

(* The loads: each verifies the fingerprints its artifact was stored with.    *)
Same(a, names) == /\ files[a] # Missing
                  /\ \A n \in names : files[a].kept[n] = config[n]
LoadsDocling == Same("docling", {"parser"})
LoadsLayout(blocks) == /\ Same("layout", {"layout"})
                       /\ files["layout"].raw = blocks
LoadsEnrichments(ids) == Same("enrichments", {"enrichment"}) /\ ids
LoadsChunks == Same("chunks", {"layout", "enrichment", "chunking"})

Kept(names) == [n \in names |-> config[n]]
Save(a, kept, raw, made) == files' = [files EXCEPT ![a] = [kept |-> kept, raw |-> raw, made |-> made]]

Rest == UNCHANGED <<config, manifest, runs, rollbacks>>

-----------------------------------------------------------------------------
(* A synchronization that has work to do.  force is a rebuild. *)
Begin == /\ work.pc = "idle" /\ runs < MaxRuns
         /\ runs' = runs + 1
         /\ \E force \in BOOLEAN :
               LET stage == IF force THEN "parser" ELSE Restart
               IN /\ stage # "none"
                  /\ work' = [Resting EXCEPT !.pc = "load", !.stage = stage]
         /\ UNCHANGED <<config, manifest, files, rollbacks>>

(* Vectors of an unchanged chunk are copied; chunks of an unchanged document  *)
(* are embedded again; the parse is reused by the stages between.             *)
Load ==
    /\ work.pc = "load"
    /\ work' = CASE work.stage = "indexing" ->
                      [work EXCEPT !.pc = "publish", !.chunks = manifest[1].rows]
                 [] work.stage = "embedding" /\ LoadsChunks ->
                      [work EXCEPT !.pc = "publish", !.chunks = files["chunks"].made]
                 [] work.stage # "parser" /\ LoadsDocling ->
                      [work EXCEPT !.pc = "refine",
                                   !.stage = IF @ = "embedding" THEN "chunking" ELSE @,
                                   !.blocks = [parser |-> files["docling"].made,
                                               restructuring |-> config["restructuring"]]]
                 [] OTHER -> [work EXCEPT !.pc = "parse", !.stage = "parser"]
    /\ UNCHANGED files /\ Rest

Parse == /\ work.pc = "parse"
         /\ Save("docling", Kept({"parser"}), Missing, config["parser"])
         /\ work' = [work EXCEPT !.pc = "refine",
                                 !.blocks = [parser |-> config["parser"],
                                             restructuring |-> config["restructuring"]]]
         /\ Rest

Ordered(layout) == [layout |-> layout] @@ work.blocks

Refine ==
    /\ work.pc = "refine"
    /\ IF config["layout"] = 0
       THEN work' = [work EXCEPT !.pc = "enrich", !.blocks = Ordered(0)] /\ UNCHANGED files
       ELSE IF work.stage \in {"layout", "enrichment", "chunking"} /\ LoadsLayout(work.blocks)
       THEN /\ work' = [work EXCEPT !.pc = "enrich", !.blocks = Ordered(files["layout"].made)]
            /\ UNCHANGED files
       ELSE /\ work' = [work EXCEPT !.pc = "enrich", !.blocks = Ordered(config["layout"]),
                                    !.stage = IF @ \in {"enrichment", "chunking"} THEN "layout"
                                              ELSE @]
            /\ Save("layout", Kept({"layout"}), work.blocks, config["layout"])
    /\ Rest

(* What an enrichment is compared by are the ids of its blocks.  Those of the *)
(* same blocks agree; another pipeline's blocks may have the same ids.        *)
Enrich ==
    /\ work.pc = "enrich"
    /\ \E ids \in BOOLEAN :
         /\ files["enrichments"] # Missing /\ files["enrichments"].raw = work.blocks => ids
         /\ IF work.stage = "chunking" /\ LoadsEnrichments(ids)
            THEN /\ work' = [work EXCEPT !.pc = "chunk", !.hints = files["enrichments"].made]
                 /\ UNCHANGED files
            ELSE /\ work' = [work EXCEPT !.pc = "chunk", !.hints = config["enrichment"]]
                 /\ Save("enrichments", Kept({"enrichment"}), work.blocks, config["enrichment"])
    /\ Rest

Chunk ==
    /\ work.pc = "chunk"
    /\ LET made == [chunking |-> config["chunking"], enrichment |-> work.hints] @@ work.blocks
       IN /\ work' = [work EXCEPT !.pc = "publish", !.chunks = made]
          /\ Save("chunks", Kept({"layout", "enrichment", "chunking"}), Missing, made)
    /\ Rest

(* The generation is published, and the one before it kept for a rollback.    *)
Publish == /\ work.pc = "publish"
           /\ manifest' = <<[pipe |-> config, rows |-> work.chunks]>>
                          \o (IF manifest = <<>> THEN <<>> ELSE <<Head(manifest)>>)
           /\ work' = Resting
           /\ UNCHANGED <<config, files, runs, rollbacks>>

(* A stage, the index or the process fails: the artifacts stay. *)
Fail == /\ work.pc # "idle" /\ work' = Resting
        /\ UNCHANGED files /\ Rest

Rollback == /\ work.pc = "idle" /\ Len(manifest) = 2 /\ rollbacks < MaxRollbacks
            /\ rollbacks' = rollbacks + 1
            /\ manifest' = <<manifest[2], manifest[1]>>
            /\ UNCHANGED <<config, files, work, runs>>

Reconfigure == /\ work.pc = "idle"
               /\ config' \in Pipelines \ {config}
               /\ UNCHANGED <<manifest, files, work, runs, rollbacks>>

Next == \/ Begin \/ Load \/ Parse \/ Refine \/ Enrich \/ Chunk \/ Publish
        \/ Fail \/ Rollback \/ Reconfigure

Spec == Init /\ [][Next]_cacheVars

-----------------------------------------------------------------------------
Agrees(names) == \A n \in names : work.chunks[n] = config[n]

(* Chunks about to be indexed were refined, enriched and split by the         *)
(* pipeline the manifest will name, however many failed runs, rollbacks and   *)
(* other configurations left their artifacts; all of it is new, the parse     *)
(* included, when a stage before the embedding ran.                           *)
CacheSound ==
    work.pc = "publish" =>
        /\ Agrees({"layout", "enrichment", "chunking"})
        /\ work.stage \notin {"embedding", "indexing"} => Agrees(Made)

(* They were also parsed and restructured by it.                              *)
ChunksAreFresh == work.pc = "publish" => Agrees(Made)
=============================================================================
