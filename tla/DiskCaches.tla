----------------------------- MODULE DiskCaches ------------------------------
(***************************************************************************)
(* The two caches a session keeps on disk and shares with the sessions     *)
(* beside and after it: the SPIR-V cache (ShaderCache), a file for each    *)
(* digest, and the driver's pipeline cache, one file (VulkanContext).      *)
(* Neither takes a lock: a file is written beside its name and renamed.    *)
(***************************************************************************)
EXTENDS Naturals

CONSTANTS
  Processes,      \* process ids; one that ends is used again, which is the worst case
  Workers,        \* threads that compile: Hydra's sync threads and the render thread
  ProcessOf,      \* by worker: its process
  Sources,        \* GLSL translation units
  Invalid,        \* those that do not compile
  Builds,         \* versions of glslang, each in another build of the renderer
  DiskFaults,     \* may a write, a rename or a directory fail
  MaxAsks,        \* bound: requests in a behaviour
  MaxEnds,        \* bound: processes ended, by themselves or killed
  MaxDamage,      \* bound: entries damaged on the disk
  None,
  Failed

\* What becomes of a file: nothing in it yet, its header without its words, all of it;
\* and what a disk may make of it: no words, no readable header, not a module.
Written == {"opened", "headed", "whole"}
Damaged == {"truncated", "headerless", "unmarked"}

Requests == [source : Sources, compiler : Builds]
Compiled(r) == IF r.source \in Invalid THEN Failed ELSE [program |-> r]
Programs == {Compiled(r) : r \in {q \in Requests : q.source \notin Invalid}}

\* Mutant: the compiler's version is left out of the key.
Digest_anyCompiler(r) == [source |-> r.source, compiler |-> "any"]

\* The key covers every input of the compiler, so the digest is all of the request.
Digest(r) == [source |-> r.source, compiler |-> r.compiler]
Digests == {Digest(r) : r \in Requests}

ASSUME WorkersHaveProcesses == ProcessOf \in [Workers -> Processes]
ASSUME InvalidAreSources == Invalid \subseteq Sources
ASSUME FailuresAreTold == None \notin Requests /\ Failed \notin Programs

VARIABLES
  entry,          \* by digest: the file at its path, None when there is none
  temporary,      \* by digest and name: a file not renamed yet
  saved,          \* the pipeline cache's file
  partial,        \* by process: its temporary of that file
  build,          \* by process: the build it runs, None when it does not run
  counter,        \* by process: UniqueSuffix's counter
  pipelines,      \* by process: what the driver's cache holds
  closing,        \* by process: "open", or where SavePipelineCache is
  job,            \* by worker: where its compile is
  answer,         \* by worker: the last result
  asks, ends, damages

disk == <<entry, temporary, saved, partial>>
session == <<build, counter, pipelines, closing>>
bounds == <<asks, ends, damages>>
vars == <<disk, session, job, answer, bounds>>

Idle == [at |-> "idle", request |-> None, file |-> None, name |-> None]
File(c, s) == [of |-> c, state |-> s]

Init ==
  /\ entry = [d \in Digests |-> None]
  /\ temporary = <<>>
  /\ saved = None
  /\ partial = [p \in Processes |-> None]
  /\ build = [p \in Processes |-> None]
  /\ counter = [p \in Processes |-> 0]
  /\ pipelines = [p \in Processes |-> {}]
  /\ closing = [p \in Processes |-> "open"]
  /\ job = [w \in Workers |-> Idle]
  /\ answer = [w \in Workers |-> None]
  /\ asks = 0 /\ ends = 0 /\ damages = 0

-----------------------------------------------------------------------------
(* CompileCached: Find, Compile, Store. One step for each call on the disk. *)

Move(w, at, f, n) ==
  job' = [job EXCEPT ![w] = [at |-> at, request |-> job[w].request, file |-> f, name |-> n]]
Running(w) == closing[ProcessOf[w]] = "open"

Ask(w, s) ==
  /\ asks < MaxAsks
  /\ job[w] = Idle
  /\ build[ProcessOf[w]] # None /\ Running(w)
  /\ job' = [job EXCEPT ![w] = [
       at |-> "find", request |-> [source |-> s, compiler |-> build[ProcessOf[w]]],
       file |-> None, name |-> None]]
  /\ asks' = asks + 1
  /\ UNCHANGED <<disk, session, answer, ends, damages>>

Finding(w, at) == job[w].at = at /\ UNCHANGED <<disk, session, bounds>>
Path(w) == Digest(job[w].request)

Give(w, result) ==
  /\ job' = [job EXCEPT ![w] = Idle]
  /\ answer' = [answer EXCEPT ![w] = result]

\* The file is opened and its header read.
HeaderReads(f) == f.state \notin {"opened", "headerless"}
OpenEntry(w) ==
  /\ Finding(w, "find")
  /\ LET f == entry[Path(w)]
     IN  IF f # None /\ HeaderReads(f) THEN Move(w, "sized", f, None)
                                       ELSE Move(w, "compile", None, None)
  /\ UNCHANGED answer

\* The size is asked of the path, which another process may have replaced since.
FullSize(f) == f.state \in {"whole", "unmarked"}
CheckSize(w) ==
  /\ Finding(w, "sized")
  /\ LET f == entry[Path(w)]
     IN  IF f # None /\ FullSize(f) THEN Move(w, "read", job[w].file, None)
                                    ELSE Move(w, "compile", None, None)
  /\ UNCHANGED answer

\* The words are read of the file that was opened, and the first one recognised.
ReadWords(w) ==
  /\ Finding(w, "read")
  /\ IF job[w].file.state = "whole"
       THEN Give(w, job[w].file.of)
       ELSE Move(w, "compile", None, None) /\ UNCHANGED answer

\* A compile that fails is an answer too, and is not stored.
Compile(w) ==
  /\ Finding(w, "compile")
  /\ IF Compiled(job[w].request) = Failed
       THEN Give(w, Failed)
       ELSE Move(w, "store", None, None) /\ UNCHANGED answer

\* Mutant: the counter alone, which two processes count alike.
NameOf_counterAlone(w) == <<None, counter[ProcessOf[w]]>>

\* UniqueSuffix: the process and its counter.
NameOf(w) == <<ProcessOf[w], counter[ProcessOf[w]]>>
Temporary(w) == <<Path(w), job[w].name>>

\* What Store returns is not looked at: the result is the compile's.
Stored(w) == Give(w, Compiled(job[w].request))

StoreFails(w) ==
  /\ DiskFaults
  /\ job[w].at = "store"
  /\ Stored(w)
  /\ counter' \in {counter, [counter EXCEPT ![ProcessOf[w]] = @ + 1]}
  /\ UNCHANGED <<disk, build, pipelines, closing, bounds>>

\* A leftover of the same name, of a process that had this id, is truncated.
OpenTemporary(w) ==
  /\ job[w].at = "store"
  /\ Move(w, "head", None, NameOf(w))
  /\ counter' = [counter EXCEPT ![ProcessOf[w]] = @ + 1]
  /\ LET t == <<Path(w), NameOf(w)>>
     IN  temporary' = [u \in DOMAIN temporary \union {t} |->
                         IF u = t THEN File(Compiled(job[w].request), "opened") ELSE temporary[u]]
  /\ UNCHANGED <<entry, saved, partial, build, pipelines, closing, answer, bounds>>

Write(w, at, state, then) ==
  /\ job[w].at = at
  /\ Temporary(w) \in DOMAIN temporary
  /\ temporary' = [temporary EXCEPT ![Temporary(w)] = File(Compiled(job[w].request), state)]
  /\ Move(w, then, None, job[w].name)
  /\ UNCHANGED <<entry, saved, partial, session, answer, bounds>>
WriteHeader(w) == Write(w, "head", "headed", "words")
WriteWords(w) == Write(w, "words", "whole", "rename")

Unlinked(w) == [u \in DOMAIN temporary \ {Temporary(w)} |-> temporary[u]]

\* A write that failed, or a rename: the temporary is removed.
Discard(w) ==
  /\ job[w].at \in {"head", "words", "rename"}
  /\ DiskFaults
  /\ temporary' = Unlinked(w)
  /\ Stored(w)
  /\ UNCHANGED <<entry, saved, partial, session, bounds>>

Rename(w) ==
  /\ job[w].at = "rename"
  /\ Temporary(w) \in DOMAIN temporary
  /\ entry' = [entry EXCEPT ![Path(w)] = temporary[Temporary(w)]]
  /\ temporary' = Unlinked(w)
  /\ Stored(w)
  /\ UNCHANGED <<saved, partial, session, bounds>>

Search(w) == OpenEntry(w) \/ CheckSize(w) \/ ReadWords(w)
Store(w) == StoreFails(w) \/ OpenTemporary(w) \/ WriteHeader(w) \/ WriteWords(w)
            \/ Discard(w) \/ Rename(w)
Work(w) == Search(w) \/ Compile(w) \/ Store(w)

-----------------------------------------------------------------------------
(* The session: VulkanContext reads the pipeline cache when it is made and  *)
(* saves it when it is destroyed.                                           *)

\* What the driver makes of a file: all of it, or none.
Accepted(f) == IF f # None /\ f.state = "whole" THEN f.of ELSE {}

Start(p, b) ==
  /\ build[p] = None
  /\ build' = [build EXCEPT ![p] = b]
  /\ pipelines' = [pipelines EXCEPT ![p] = Accepted(saved)]
  /\ UNCHANGED <<disk, counter, closing, job, answer, bounds>>

CreatePipeline(w) ==
  /\ answer[w] \in Programs
  /\ Running(w)
  /\ answer[w] \notin pipelines[ProcessOf[w]]
  /\ pipelines' = [pipelines EXCEPT ![ProcessOf[w]] = @ \union {answer[w]}]
  /\ UNCHANGED <<disk, build, counter, closing, job, answer, bounds>>

Of(p) == {w \in Workers : ProcessOf[w] = p}
Saving(p, at) == closing[p] = at /\ UNCHANGED <<entry, temporary, build, counter, pipelines,
                                                job, answer, bounds>>

\* Mutant: one temporary for every session.
PartialOf_oneForAll(p) == CHOOSE q \in Processes : TRUE

PartialOf(p) == p

OpenPartial(p) ==
  /\ build[p] # None /\ \A w \in Of(p) : job[w] = Idle
  /\ Saving(p, "open")
  /\ partial' = [partial EXCEPT ![PartialOf(p)] = File(pipelines[p], "opened")]
  /\ closing' = [closing EXCEPT ![p] = "writing"]
  /\ UNCHANGED saved

WritePartial(p) ==
  /\ Saving(p, "writing")
  /\ partial' = [partial EXCEPT ![PartialOf(p)] = File(pipelines[p], "whole")]
  /\ closing' = [closing EXCEPT ![p] = "renaming"]
  /\ UNCHANGED saved

RenamePartial(p) ==
  /\ Saving(p, "renaming")
  /\ partial[PartialOf(p)] # None
  /\ saved' = partial[PartialOf(p)]
  /\ partial' = [partial EXCEPT ![PartialOf(p)] = None]
  /\ closing' = [closing EXCEPT ![p] = "ended"]

\* The process is gone, and what it had not renamed stays. Its next one counts from 0.
Gone(p) ==
  /\ build' = [build EXCEPT ![p] = None]
  /\ counter' = [counter EXCEPT ![p] = 0]
  /\ pipelines' = [pipelines EXCEPT ![p] = {}]
  /\ closing' = [closing EXCEPT ![p] = "open"]
  /\ job' = [w \in Workers |-> IF w \in Of(p) THEN Idle ELSE job[w]]
  /\ answer' = [w \in Workers |-> IF w \in Of(p) THEN None ELSE answer[w]]
  /\ ends' = ends + 1
  /\ UNCHANGED <<disk, asks, damages>>

\* A save that fails returns where it is; a lost device does not save.
End(p) ==
  /\ ends < MaxEnds
  /\ build[p] # None /\ \A w \in Of(p) : job[w] = Idle
  /\ closing[p] = "ended" \/ DiskFaults
  /\ Gone(p)

Kill(p) ==
  /\ ends < MaxEnds
  /\ build[p] # None
  /\ Gone(p)

-----------------------------------------------------------------------------
\* A disk that loses part of a file after it was written whole.
Damage(d) ==
  /\ damages < MaxDamage
  /\ entry[d] # None /\ entry[d].state = "whole"
  /\ \E s \in Damaged : entry' = [entry EXCEPT ![d] = File(entry[d].of, s)]
  /\ damages' = damages + 1
  /\ UNCHANGED <<temporary, saved, partial, session, job, answer, asks, ends>>

Next ==
  \/ \E w \in Workers : (\E s \in Sources : Ask(w, s)) \/ Work(w) \/ CreatePipeline(w)
  \/ \E p \in Processes : \/ \E b \in Builds : Start(p, b)
                          \/ OpenPartial(p) \/ WritePartial(p) \/ RenamePartial(p)
                          \/ End(p) \/ Kill(p)
  \/ \E d \in Digests : Damage(d)

\* A thread in a compile is not stopped but by the end of its process.
Fairness == \A w \in Workers : WF_vars(Work(w))

Spec == Init /\ [][Next]_vars
FairSpec == Spec /\ Fairness

-----------------------------------------------------------------------------
(* Safety.                                                                  *)

\* A reader sees no entry or a complete one, and of its own key: however many
\* threads and processes write it, and wherever one of them was killed. Only the
\* disk can take part of it away.
EntriesAreWhole ==
  \A d \in Digests :
    entry[d] # None => /\ entry[d].state \in {"whole"} \union Damaged
                       /\ Digest(entry[d].of.program) = d

\* The pipeline cache is one session's, whole: sessions that close together
\* lose each other's entries and never mix them.
SavedIsOneSession == saved # None => saved.state = "whole"

-----------------------------------------------------------------------------
(* What it implements: a compile, whatever became of the disk.              *)

Asked == [w \in Workers |-> IF job[w].at = "idle" THEN None ELSE job[w].request]

Memo == INSTANCE CompileMemo WITH asked <- Asked

MemoSafety == Memo!MemoSafety
MemoSpec == Memo!MemoSpec

=============================================================================
