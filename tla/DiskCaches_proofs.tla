--------------------------- MODULE DiskCaches_proofs ---------------------------
(***************************************************************************)
(* Theorems about the caches on disk, for any processes, threads, builds   *)
(* and requests.                                                           *)
(*                                                                         *)
(* An entry is whole because a temporary is its writer's own: the names in *)
(* use in one process are below its counter and differ, and another        *)
(* process's differ by its id, also from what a killed one left.  An       *)
(* answer is the compile's because what is read is what the digest names,  *)
(* and the digest names everything the compiler reads.                     *)
(***************************************************************************)
EXTENDS DiskCaches, TLAPS

Files == [of : Programs, state : Written \union Damaged]
WriterAt == {"head", "words", "rename"}
StateAt(at) == IF at = "head" THEN "opened" ELSE IF at = "words" THEN "headed" ELSE "whole"
Jobs == [at : {"idle", "find", "sized", "read", "compile", "store"} \union WriterAt,
         request : Requests \union {None}, file : Files \union {None},
         name : (Processes \X Nat) \union {None}]

Types ==
  /\ job \in [Workers -> Jobs]
  /\ entry \in [Digests -> Files \union {None}]
  /\ build \in [Processes -> Builds \union {None}]
  /\ counter \in [Processes -> Nat]
  /\ answer \in [Workers -> Programs \union {Failed, None}]

JobIsKnown(w) ==
  /\ job[w].at # "idle" => job[w].request \in Requests
  /\ job[w].at \in {"sized", "read"} =>
       /\ job[w].file \in Files
       /\ Digest(job[w].file.of.program) = Digest(job[w].request)
  /\ job[w].at \in {"store"} \union WriterAt => Compiled(job[w].request) # Failed

OwnsName(w) ==
  job[w].at \in WriterAt =>
    \E n \in Nat : n < counter[ProcessOf[w]] /\ job[w].name = <<ProcessOf[w], n>>

NamesDiffer ==
  \A v, w \in Workers : v # w /\ job[v].at \in WriterAt /\ job[w].at \in WriterAt
                          => job[v].name # job[w].name

OwnsTemporary(w) ==
  job[w].at \in WriterAt =>
    /\ Temporary(w) \in DOMAIN temporary
    /\ temporary[Temporary(w)] = File(Compiled(job[w].request), StateAt(job[w].at))

EntryInv ==
  /\ Types
  /\ \A w \in Workers : JobIsKnown(w) /\ OwnsName(w) /\ OwnsTemporary(w)
  /\ NamesDiffer
  /\ EntriesAreWhole

SaveInv ==
  /\ closing \in [Processes -> {"open", "writing", "renaming", "ended"}]
  /\ DOMAIN partial = Processes
  /\ \A p \in Processes : closing[p] = "renaming" => partial[p].state = "whole"
  /\ SavedIsOneSession

-----------------------------------------------------------------------------
(* The pipeline cache.                                                     *)

\* The file is whole whenever it is there: a session renames only what it wrote,
\* and no other writes the same temporary.
THEOREM SavedWhole == Spec => []SavedIsOneSession
<1>1. Init => SaveInv
    BY DEF Init, SaveInv, SavedIsOneSession
<1>2. SaveInv /\ [Next]_vars => SaveInv'
  <2> SUFFICES ASSUME SaveInv, [Next]_vars PROVE SaveInv'
      OBVIOUS
  <2> USE DEF SaveInv, SavedIsOneSession
  <2>1. ASSUME NEW p \in Processes, OpenPartial(p) PROVE SaveInv'
      BY <2>1 DEF OpenPartial, Saving, PartialOf
  <2>2. ASSUME NEW p \in Processes, WritePartial(p) PROVE SaveInv'
      BY <2>2 DEF WritePartial, Saving, PartialOf, File
  <2>3. ASSUME NEW p \in Processes, RenamePartial(p) PROVE SaveInv'
      BY <2>3 DEF RenamePartial, Saving, PartialOf
  <2>4. ASSUME NEW p \in Processes, Gone(p) PROVE SaveInv'
      BY <2>4 DEF Gone, disk
  <2>6. ASSUME UNCHANGED <<saved, partial, closing>> PROVE SaveInv'
      BY <2>6
  <2>7. ASSUME NEW w \in Workers, Work(w) PROVE UNCHANGED <<saved, partial, closing>>
      BY <2>7 DEF Work, Search, Store, Finding, OpenEntry, CheckSize, ReadWords, Compile,
                  StoreFails, OpenTemporary, WriteHeader, WriteWords, Write, Discard, Rename,
                  disk, session
  <2> QED
      BY <2>1, <2>2, <2>3, <2>4, <2>6, <2>7
      DEF Next, Ask, CreatePipeline, Start, End, Kill, Damage, vars, disk, session
<1>3. SaveInv => SavedIsOneSession
    BY DEF SaveInv
<1> QED
    BY <1>1, <1>2, <1>3, PTL DEF Spec

-----------------------------------------------------------------------------
(* The SPIR-V cache.                                                       *)

\* The digest forgets nothing of a request: what it names is what it compiles to.
LEMMA DigestNamesProgram ==
  ASSUME NEW p \in Programs, NEW r \in Requests, Digest(p.program) = Digest(r)
  PROVE  p = Compiled(r)
<1>1. PICK q \in Requests : q.source \notin Invalid /\ p = [program |-> q]
    BY FailuresAreTold DEF Programs, Compiled
<1>2. q.source = r.source /\ q.compiler = r.compiler
    BY <1>1 DEF Digest
<1>3. q = r
    BY <1>2 DEF Requests
<1> QED
    BY <1>1, <1>3 DEF Compiled

\* A compile that does not fail gives a program, named by the request's digest.
LEMMA CompiledIsProgram ==
  ASSUME NEW r \in Requests, Compiled(r) # Failed
  PROVE  Compiled(r) \in Programs /\ Compiled(r).program = r
BY DEF Compiled, Programs

LEMMA DigestTyped == \A r \in Requests : Digest(r) \in Digests
BY DEF Digests

LEMMA IdleTyped == Idle \in Jobs /\ Idle.at = "idle"
BY DEF Idle, Jobs

LEMMA InitEntries == Init => EntryInv
<1> SUFFICES ASSUME Init PROVE EntryInv
    OBVIOUS
<1>1. \A w \in Workers : job[w] = Idle
    BY DEF Init
<1> QED
    BY <1>1, IdleTyped
    DEF Init, EntryInv, Types, JobIsKnown, OwnsName, OwnsTemporary, NamesDiffer, EntriesAreWhole,
        WriterAt

\* A step of one worker that touches no file nor name: its own facts are enough.
LEMMA WorkerMoves ==
  ASSUME EntryInv, NEW w \in Workers, NEW j \in Jobs,
         job' = [job EXCEPT ![w] = j], UNCHANGED <<entry, temporary, build, counter>>,
         answer' \in [Workers -> Programs \union {Failed, None}],
         j.at \notin WriterAt, JobIsKnown(w)'
  PROVE  EntryInv'
<1>1. Types'
    BY DEF EntryInv, Types
<1>2. \A v \in Workers : v # w => job'[v] = job[v]
    BY DEF EntryInv, Types
<1>3. job'[w] = j
    BY DEF EntryInv, Types
<1>4. \A v \in Workers : JobIsKnown(v)'
    BY <1>2 DEF EntryInv, JobIsKnown
<1>5. \A v \in Workers : OwnsName(v)' /\ OwnsTemporary(v)'
    BY <1>2, <1>3 DEF EntryInv, OwnsName, OwnsTemporary, Temporary, Path
<1>6. NamesDiffer'
    BY <1>2, <1>3 DEF EntryInv, NamesDiffer
<1>7. EntriesAreWhole'
    BY DEF EntryInv, EntriesAreWhole
<1> QED
    BY <1>1, <1>4, <1>5, <1>6, <1>7 DEF EntryInv

LEMMA AskKeeps ==
  ASSUME EntryInv, NEW w \in Workers, NEW s \in Sources, Ask(w, s)
  PROVE  EntryInv'
<1> DEFINE r == [source |-> s, compiler |-> build[ProcessOf[w]]]
           j == [at |-> "find", request |-> r, file |-> None, name |-> None]
<1>1. r \in Requests
    BY WorkersHaveProcesses DEF EntryInv, Types, Ask, Requests
<1>2. j \in Jobs
    BY <1>1 DEF Jobs
<1>3. job' = [job EXCEPT ![w] = j] /\ UNCHANGED <<entry, temporary, build, counter, answer>>
    BY DEF Ask, disk, session
<1>4. JobIsKnown(w)'
    BY <1>1, <1>3 DEF EntryInv, Types, JobIsKnown, WriterAt
<1>5. answer' \in [Workers -> Programs \union {Failed, None}] /\ j.at \notin WriterAt
    BY <1>3 DEF EntryInv, Types, WriterAt
<1> HIDE DEF r, j
<1> QED
    BY <1>2, <1>3, <1>4, <1>5, WorkerMoves

\* What a worker gives is a program or a failure.
LEMMA CompiledTyped == \A r \in Requests : Compiled(r) \in Programs \union {Failed}
BY CompiledIsProgram

LEMMA SearchKeeps ==
  ASSUME EntryInv, NEW w \in Workers, Search(w) \/ Compile(w)
  PROVE  EntryInv'
<1> USE DEF EntryInv, Types
<1> DEFINE Same == UNCHANGED <<entry, temporary, build, counter>>
           Answers == [Workers -> Programs \union {Failed, None}]
<1>1. Same
    BY DEF Search, OpenEntry, CheckSize, ReadWords, Compile, Finding, disk, session
<1>2. job[w] \in Jobs /\ JobIsKnown(w)
    OBVIOUS
<1>3. job[w].at \in {"find", "sized", "read", "compile"}
    BY DEF Search, OpenEntry, CheckSize, ReadWords, Compile, Finding
<1>4. job[w].request \in Requests /\ Path(w) \in Digests
    BY <1>2, <1>3, DigestTyped DEF JobIsKnown, Path
<1>5. ASSUME NEW at \in {"sized", "read", "compile", "store"}, NEW f \in Files \union {None},
             Move(w, at, f, None), UNCHANGED answer,
             at \in {"sized", "read"} => /\ f \in Files
                                         /\ Digest(f.of.program) = Digest(job[w].request),
             at = "store" => Compiled(job[w].request) # Failed
      PROVE  EntryInv'
  <2> DEFINE j == [at |-> at, request |-> job[w].request, file |-> f, name |-> None]
  <2>1. job' = [job EXCEPT ![w] = j] /\ j \in Jobs /\ j.at \notin WriterAt
      BY <1>4, <1>5 DEF Move, Jobs, WriterAt
  <2>2. JobIsKnown(w)'
      BY <1>4, <1>5, <2>1 DEF JobIsKnown, WriterAt
  <2>3. answer' \in Answers
      BY <1>5
  <2> HIDE DEF j
  <2> QED
      BY <1>1, <2>1, <2>2, <2>3, WorkerMoves
<1>6. ASSUME NEW result \in Programs \union {Failed}, Give(w, result) PROVE EntryInv'
  <2>1. job' = [job EXCEPT ![w] = Idle] /\ Idle \in Jobs /\ Idle.at \notin WriterAt
      BY <1>6, IdleTyped DEF Give, WriterAt
  <2>2. JobIsKnown(w)'
      BY <2>1, IdleTyped DEF JobIsKnown, WriterAt
  <2>3. answer' \in Answers
      BY <1>6 DEF Give
  <2> QED
      BY <1>1, <2>1, <2>2, <2>3, WorkerMoves
<1>7. CASE OpenEntry(w)
  <2>1. entry[Path(w)] # None => /\ entry[Path(w)] \in Files
                                 /\ Digest(entry[Path(w)].of.program) = Digest(job[w].request)
      BY <1>4 DEF EntriesAreWhole, Path
  <2> QED
      BY <1>5, <1>7, <2>1 DEF OpenEntry
<1>8. CASE CheckSize(w)
  <2>1. job[w].file \in Files /\ Digest(job[w].file.of.program) = Digest(job[w].request)
      BY <1>2, <1>8 DEF CheckSize, Finding, JobIsKnown
  <2> QED
      BY <1>5, <1>8, <2>1 DEF CheckSize
<1>9. CASE ReadWords(w)
  <2>1. job[w].file.of \in Programs
      BY <1>2, <1>9 DEF ReadWords, Finding, JobIsKnown, Files
  <2> QED
      BY <1>5, <1>6, <1>9, <2>1 DEF ReadWords
<1>10. CASE Compile(w)
    BY <1>5, <1>6, <1>10 DEF Compile
<1> QED
    BY <1>7, <1>8, <1>9, <1>10 DEF Search

\* A writer that gives its answer and unlinks its temporary, which was its own.
LEMMA WriterLeaves ==
  ASSUME EntryInv, NEW w \in Workers, job[w].at \in {"store"} \union WriterAt, Stored(w),
         job[w].at = "store" => UNCHANGED temporary,
         job[w].at # "store" => temporary' = Unlinked(w),
         UNCHANGED build, counter' \in [Processes -> Nat],
         \A p \in Processes : counter'[p] >= counter[p],
         entry' \in [Digests -> Files \union {None}], EntriesAreWhole'
  PROVE  EntryInv'
<1> USE DEF EntryInv, Types
<1>1. job' = [job EXCEPT ![w] = Idle] /\ Idle \in Jobs /\ Idle.at = "idle"
    BY IdleTyped DEF Stored, Give
<1>2. \A v \in Workers : v # w => job'[v] = job[v]
    BY <1>1
<1>3. job'[w].at = "idle"
    BY <1>1
<1>4. answer' \in [Workers -> Programs \union {Failed, None}]
  <2>1. job[w].request \in Requests
      BY DEF JobIsKnown, WriterAt
  <2> QED
      BY <2>1, CompiledTyped DEF Stored, Give
<1>5. Types'
    BY <1>1, <1>4
<1>6. \A v \in Workers : JobIsKnown(v)'
    BY <1>2, <1>3 DEF JobIsKnown, WriterAt
<1>7. \A v \in Workers : OwnsName(v)'
  <2> SUFFICES ASSUME NEW v \in Workers, job'[v].at \in WriterAt
               PROVE  \E n \in Nat : n < counter'[ProcessOf[v]] /\ job'[v].name = <<ProcessOf[v], n>>
      BY DEF OwnsName
  <2>1. v # w /\ job'[v] = job[v]
      BY <1>2, <1>3 DEF WriterAt
  <2>2. PICK n \in Nat : n < counter[ProcessOf[v]] /\ job[v].name = <<ProcessOf[v], n>>
      BY <2>1 DEF OwnsName
  <2>3. counter'[ProcessOf[v]] >= counter[ProcessOf[v]] /\ counter'[ProcessOf[v]] \in Nat
        /\ counter[ProcessOf[v]] \in Nat
      BY WorkersHaveProcesses
  <2> QED
      BY <2>1, <2>2, <2>3
<1>8. NamesDiffer'
    BY <1>2, <1>3 DEF NamesDiffer, WriterAt
<1>9. \A v \in Workers : OwnsTemporary(v)'
  <2> SUFFICES ASSUME NEW v \in Workers, job'[v].at \in WriterAt PROVE OwnsTemporary(v)'
      BY DEF OwnsTemporary
  <2>1. v # w /\ job'[v] = job[v]
      BY <1>2, <1>3 DEF WriterAt
  <2>2. Temporary(v)' = Temporary(v)
      BY <2>1 DEF Temporary, Path
  <2>3. job[w].at # "store" => Temporary(v) # Temporary(w)
    <3>1. job[w].at # "store" => job[v].name # job[w].name
        BY <2>1 DEF NamesDiffer, WriterAt
    <3> QED
        BY <3>1 DEF Temporary
  <2>4. /\ Temporary(v) \in DOMAIN temporary
        /\ temporary[Temporary(v)] = File(Compiled(job[v].request), StateAt(job[v].at))
      BY <2>1 DEF OwnsTemporary
  <2>5. Temporary(v) \in DOMAIN temporary' /\ temporary'[Temporary(v)] = temporary[Temporary(v)]
      BY <2>3, <2>4 DEF Unlinked
  <2> QED
      BY <2>1, <2>2, <2>4, <2>5 DEF OwnsTemporary
<1> QED
    BY <1>5, <1>6, <1>7, <1>8, <1>9

\* A name not used in the process is not used at all, and is left by none that is alive.
LEMMA OpenKeeps ==
  ASSUME EntryInv, NEW w \in Workers, OpenTemporary(w)
  PROVE  EntryInv'
<1> USE DEF EntryInv, Types
<1> DEFINE n == counter[ProcessOf[w]]
           j == [at |-> "head", request |-> job[w].request, file |-> None, name |-> NameOf(w)]
<1>1. n \in Nat /\ ProcessOf[w] \in Processes /\ job[w].request \in Requests
      /\ Compiled(job[w].request) # Failed /\ NameOf(w) = <<ProcessOf[w], n>>
    BY WorkersHaveProcesses DEF OpenTemporary, JobIsKnown, NameOf
<1>2. job' = [job EXCEPT ![w] = j] /\ j \in Jobs
    BY <1>1 DEF OpenTemporary, Move, Jobs, WriterAt
<1>3. UNCHANGED <<entry, build, answer>>
    BY DEF OpenTemporary
<1>4. counter' = [counter EXCEPT ![ProcessOf[w]] = n + 1]
    BY DEF OpenTemporary
<1>5. \A v \in Workers : v # w => job'[v] = job[v]
    BY <1>2
<1>6. job'[w] = j
    BY <1>2
<1>7. Types'
    BY <1>1, <1>2, <1>3, <1>4
<1>8. \A v \in Workers : JobIsKnown(v)'
    BY <1>1, <1>5, <1>6 DEF JobIsKnown, WriterAt
<1>9. ASSUME NEW v \in Workers, v # w, job[v].at \in WriterAt PROVE job[v].name # NameOf(w)
  <2>1. PICK m \in Nat : m < counter[ProcessOf[v]] /\ job[v].name = <<ProcessOf[v], m>>
      BY <1>9 DEF OwnsName
  <2> QED
      BY <1>1, <2>1
<1>10. \A v \in Workers : OwnsName(v)'
  <2> SUFFICES ASSUME NEW v \in Workers, job'[v].at \in WriterAt
               PROVE  \E m \in Nat : m < counter'[ProcessOf[v]] /\ job'[v].name = <<ProcessOf[v], m>>
      BY DEF OwnsName
  <2>1. CASE v = w
      BY <1>1, <1>4, <1>6, <2>1
  <2>2. CASE v # w
    <3>1. PICK m \in Nat : m < counter[ProcessOf[v]] /\ job[v].name = <<ProcessOf[v], m>>
        BY <1>5, <2>2 DEF OwnsName
    <3>2. counter'[ProcessOf[v]] >= counter[ProcessOf[v]] /\ counter[ProcessOf[v]] \in Nat
          /\ counter'[ProcessOf[v]] \in Nat
        BY <1>1, <1>4, WorkersHaveProcesses
    <3> QED
        BY <1>5, <2>2, <3>1, <3>2
  <2> QED
      BY <2>1, <2>2
<1>11. NamesDiffer'
  <2> SUFFICES ASSUME NEW u \in Workers, NEW v \in Workers, u # v, job'[u].at \in WriterAt,
                      job'[v].at \in WriterAt
               PROVE  job'[u].name # job'[v].name
      BY DEF NamesDiffer
  <2>1. CASE u = w
      BY <1>5, <1>6, <1>9, <2>1
  <2>2. CASE v = w
      BY <1>5, <1>6, <1>9, <2>2
  <2>3. CASE u # w /\ v # w
      BY <1>5, <2>3 DEF NamesDiffer
  <2> QED
      BY <2>1, <2>2, <2>3
<1>12. \A v \in Workers : OwnsTemporary(v)'
  <2> SUFFICES ASSUME NEW v \in Workers, job'[v].at \in WriterAt PROVE OwnsTemporary(v)'
      BY DEF OwnsTemporary
  <2> DEFINE t == <<Path(w), NameOf(w)>>
  <2>1. temporary' = [u \in DOMAIN temporary \union {t} |->
                       IF u = t THEN File(Compiled(job[w].request), "opened") ELSE temporary[u]]
      BY DEF OpenTemporary
  <2>2. CASE v = w
    <3>1. Temporary(w)' = t
        BY <1>6 DEF Temporary, Path
    <3> HIDE DEF t
    <3> QED
        BY <1>6, <2>1, <2>2, <3>1 DEF OwnsTemporary, StateAt
  <2>3. CASE v # w
    <3>1. Temporary(v)' = Temporary(v) /\ job'[v] = job[v]
        BY <1>5, <2>3 DEF Temporary, Path
    <3>2. Temporary(v) # t
        BY <1>5, <1>9, <2>3 DEF Temporary
    <3> HIDE DEF t
    <3> QED
        BY <2>1, <3>1, <3>2 DEF OwnsTemporary
  <2> QED
      BY <2>2, <2>3
<1>13. EntriesAreWhole'
    BY <1>3 DEF EntriesAreWhole
<1> QED
    BY <1>7, <1>8, <1>10, <1>11, <1>12, <1>13

\* A write changes the writer's own temporary.
LEMMA WriteKeeps ==
  ASSUME EntryInv, NEW w \in Workers, WriteHeader(w) \/ WriteWords(w)
  PROVE  EntryInv'
<1> USE DEF EntryInv, Types
<1>1. PICK at \in {"head", "words"}, then \in {"words", "rename"} :
        StateAt(then) \in Written /\ Write(w, at, StateAt(then), then)
    BY DEF WriteHeader, WriteWords, StateAt, Written
<1> DEFINE j == [at |-> then, request |-> job[w].request, file |-> None, name |-> job[w].name]
<1>2. job[w].at \in WriterAt /\ job[w].request \in Requests /\ Compiled(job[w].request) # Failed
    BY <1>1 DEF Write, WriterAt, JobIsKnown
<1>3. job' = [job EXCEPT ![w] = j] /\ j \in Jobs
    BY <1>1, <1>2 DEF Write, Move, Jobs, WriterAt
<1>4. UNCHANGED <<entry, build, counter, answer>>
    BY <1>1 DEF Write, session
<1>5. \A v \in Workers : v # w => job'[v] = job[v]
    BY <1>3
<1>6. job'[w] = j
    BY <1>3
<1>7. Types'
    BY <1>3, <1>4
<1>8. \A v \in Workers : JobIsKnown(v)'
    BY <1>2, <1>5, <1>6 DEF JobIsKnown, WriterAt
<1>9. \A v \in Workers : OwnsName(v)'
    BY <1>2, <1>4, <1>5, <1>6 DEF OwnsName
<1>10. NamesDiffer'
    BY <1>2, <1>5, <1>6 DEF NamesDiffer
<1>11. \A v \in Workers : OwnsTemporary(v)'
  <2> SUFFICES ASSUME NEW v \in Workers, job'[v].at \in WriterAt PROVE OwnsTemporary(v)'
      BY DEF OwnsTemporary
  <2>1. temporary' = [temporary EXCEPT ![Temporary(w)] =
                        File(Compiled(job[w].request), StateAt(then))]
        /\ Temporary(w) \in DOMAIN temporary
      BY <1>1 DEF Write
  <2>2. CASE v = w
    <3>1. Temporary(w)' = Temporary(w)
        BY <1>6 DEF Temporary, Path
    <3> QED
        BY <1>6, <2>1, <2>2, <3>1 DEF OwnsTemporary
  <2>3. CASE v # w
    <3>1. Temporary(v)' = Temporary(v) /\ job'[v] = job[v]
        BY <1>5, <2>3 DEF Temporary, Path
    <3>2. Temporary(v) # Temporary(w)
        BY <1>2, <2>3, <3>1 DEF Temporary, NamesDiffer
    <3> QED
        BY <2>1, <3>1, <3>2 DEF OwnsTemporary
  <2> QED
      BY <2>2, <2>3
<1>12. EntriesAreWhole'
    BY <1>4 DEF EntriesAreWhole
<1> QED
    BY <1>7, <1>8, <1>9, <1>10, <1>11, <1>12

LEMMA StoreKeeps ==
  ASSUME EntryInv, NEW w \in Workers, Store(w)
  PROVE  EntryInv'
<1> USE DEF EntryInv, Types
<1>1. CASE StoreFails(w)
  <2>1. counter' \in [Processes -> Nat] /\ \A p \in Processes : counter'[p] >= counter[p]
      BY <1>1, WorkersHaveProcesses DEF StoreFails
  <2>2. entry' \in [Digests -> Files \union {None}] /\ EntriesAreWhole' /\ UNCHANGED temporary
      BY <1>1 DEF StoreFails, disk, EntriesAreWhole
  <2> QED
      BY <1>1, <2>1, <2>2, WriterLeaves DEF StoreFails
<1>2. CASE OpenTemporary(w)
    BY <1>2, OpenKeeps
<1>3. CASE WriteHeader(w) \/ WriteWords(w)
    BY <1>3, WriteKeeps
<1>4. CASE Discard(w)
  <2>1. counter' \in [Processes -> Nat] /\ \A p \in Processes : counter'[p] >= counter[p]
      BY <1>4 DEF Discard, session
  <2>2. entry' \in [Digests -> Files \union {None}] /\ EntriesAreWhole'
      BY <1>4 DEF Discard, EntriesAreWhole
  <2> QED
      BY <1>4, <2>1, <2>2, WriterLeaves DEF Discard, session, WriterAt
<1>5. CASE Rename(w)
  <2>1. counter' \in [Processes -> Nat] /\ \A p \in Processes : counter'[p] >= counter[p]
      BY <1>5 DEF Rename, session
  <2>2. job[w].at = "rename" /\ job[w].request \in Requests
        /\ Compiled(job[w].request) # Failed /\ Path(w) \in Digests
      BY <1>5, DigestTyped DEF Rename, JobIsKnown, WriterAt, Path
  <2> DEFINE f == File(Compiled(job[w].request), "whole")
  <2>3. entry' = [entry EXCEPT ![Path(w)] = f]
      BY <1>5, <2>2 DEF Rename, OwnsTemporary, WriterAt, StateAt
  <2>4. f \in Files /\ f.state = "whole" /\ Digest(f.of.program) = Path(w)
      BY <2>2, CompiledIsProgram DEF File, Files, Written, Path
  <2>5. entry' \in [Digests -> Files \union {None}] /\ EntriesAreWhole'
    <3> HIDE DEF f
    <3> QED
      BY <2>3, <2>4 DEF EntriesAreWhole
  <2> QED
      BY <1>5, <2>1, <2>2, <2>5, WriterLeaves DEF Rename, session, WriterAt
<1> QED
    BY <1>1, <1>2, <1>3, <1>4, <1>5 DEF Store

\* A process that ends takes its workers; the counter it starts over with has no user.
LEMMA GoneKeeps ==
  ASSUME EntryInv, NEW p \in Processes, Gone(p)
  PROVE  EntryInv'
<1> USE DEF EntryInv, Types
<1>1. \A w \in Workers : job'[w] = IF ProcessOf[w] = p THEN Idle ELSE job[w]
    BY DEF Gone, Of
<1>2. Types'
  <2>1. job' \in [Workers -> Jobs]
      BY IdleTyped DEF Gone
  <2>2. build' \in [Processes -> Builds \union {None}]
      BY DEF Gone
  <2>3. counter' \in [Processes -> Nat]
      BY DEF Gone
  <2>4. answer' \in [Workers -> Programs \union {Failed, None}]
      BY DEF Gone
  <2> QED
      BY <2>1, <2>2, <2>3, <2>4 DEF Gone, disk
<1>3. UNCHANGED <<entry, temporary>>
    BY DEF Gone, disk
<1>4. ASSUME NEW w \in Workers, job'[w].at # "idle"
      PROVE  ProcessOf[w] # p /\ job'[w] = job[w] /\ counter'[ProcessOf[w]] = counter[ProcessOf[w]]
    BY <1>1, <1>4, IdleTyped, WorkersHaveProcesses DEF Gone
<1>5. \A w \in Workers : JobIsKnown(w)'
    BY <1>4 DEF JobIsKnown, WriterAt
<1>6. \A w \in Workers : OwnsName(w)'
    BY <1>4 DEF OwnsName, WriterAt
<1>7. NamesDiffer'
    BY <1>4 DEF NamesDiffer, WriterAt
<1>8. \A w \in Workers : OwnsTemporary(w)'
    BY <1>3, <1>4 DEF OwnsTemporary, Temporary, Path, WriterAt
<1>9. EntriesAreWhole'
    BY <1>3 DEF EntriesAreWhole
<1> QED
    BY <1>2, <1>5, <1>6, <1>7, <1>8, <1>9

\* What neither a job nor a name nor an entry is changed by.
LEMMA OthersKeep ==
  ASSUME EntryInv, UNCHANGED <<entry, temporary, counter, job, answer>>,
         build' \in [Processes -> Builds \union {None}]
  PROVE  EntryInv'
BY DEF EntryInv, Types, JobIsKnown, OwnsName, OwnsTemporary, NamesDiffer, EntriesAreWhole,
       Temporary, Path

LEMMA DamageKeeps ==
  ASSUME EntryInv, NEW d \in Digests, Damage(d)
  PROVE  EntryInv'
<1> USE DEF EntryInv, Types
<1>1. PICK s \in Damaged : entry' = [entry EXCEPT ![d] = File(entry[d].of, s)]
    BY DEF Damage
<1>2. /\ entry[d] \in Files /\ entry[d] # None
      /\ UNCHANGED <<temporary, build, counter, job, answer>>
    BY DEF Damage, session
<1>3. PICK f \in Files : f = File(entry[d].of, s) /\ f.of = entry[d].of /\ f.state = s
  <2>1. File(entry[d].of, s) \in Files
      BY <1>1, <1>2 DEF Files, File
  <2> QED
      BY <2>1 DEF File
<1>4. entry' = [entry EXCEPT ![d] = f]
    BY <1>1, <1>3
<1>5. EntriesAreWhole'
    BY <1>2, <1>3, <1>4 DEF EntriesAreWhole
<1>6. Types'
    BY <1>2, <1>4
<1> QED
    BY <1>2, <1>5, <1>6 DEF JobIsKnown, OwnsName, OwnsTemporary, NamesDiffer, Temporary, Path

LEMMA NextEntries == EntryInv /\ [Next]_vars => EntryInv'
<1> SUFFICES ASSUME EntryInv, [Next]_vars PROVE EntryInv'
    OBVIOUS
<1>1. ASSUME NEW w \in Workers, NEW s \in Sources, Ask(w, s) PROVE EntryInv'
    BY <1>1, AskKeeps
<1>2. ASSUME NEW w \in Workers, Work(w) PROVE EntryInv'
    BY <1>2, SearchKeeps, StoreKeeps DEF Work
<1>3. ASSUME NEW w \in Workers, CreatePipeline(w) PROVE EntryInv'
    BY <1>3, OthersKeep DEF CreatePipeline, disk, EntryInv, Types
<1>4. ASSUME NEW p \in Processes, NEW b \in Builds, Start(p, b) PROVE EntryInv'
    BY <1>4, OthersKeep DEF Start, disk, EntryInv, Types
<1>5. ASSUME NEW p \in Processes, OpenPartial(p) \/ WritePartial(p) \/ RenamePartial(p)
      PROVE  EntryInv'
    BY <1>5, OthersKeep DEF OpenPartial, WritePartial, RenamePartial, Saving, EntryInv, Types
<1>6. ASSUME NEW p \in Processes, End(p) \/ Kill(p) PROVE EntryInv'
    BY <1>6, GoneKeeps DEF End, Kill
<1>7. ASSUME NEW d \in Digests, Damage(d) PROVE EntryInv'
    BY <1>7, DamageKeeps
<1>8. CASE UNCHANGED vars
    BY <1>8, OthersKeep DEF vars, disk, session, EntryInv, Types
<1> QED
    BY <1>1, <1>2, <1>3, <1>4, <1>5, <1>6, <1>7, <1>8 DEF Next

\* A reader sees no entry or a complete one of its own key, for any number of processes
\* and threads, wherever they are killed: a rename never publishes a file part-written.
THEOREM EntriesWhole == Spec => []EntriesAreWhole
<1>1. EntryInv => EntriesAreWhole
    BY DEF EntryInv
<1> QED
    BY <1>1, InitEntries, NextEntries, PTL DEF Spec

-----------------------------------------------------------------------------
(* What it implements.                                                     *)

LEMMA AskedIs ==
  /\ \A w \in Workers : Asked[w] = IF job[w].at = "idle" THEN None ELSE job[w].request
  /\ DOMAIN Asked = Workers
BY DEF Asked

\* A step that leaves every job where it waits, and every answer, is a stutter.
LEMMA Stutters ==
  ASSUME UNCHANGED answer,
         \A w \in Workers : /\ job'[w].at = "idle" <=> job[w].at = "idle"
                            /\ job[w].at # "idle" => job'[w].request = job[w].request
  PROVE  UNCHANGED <<Asked, answer>>
BY DEF Asked

\* A worker that gives what the compile would is the memo's answer.
LEMMA GivesAnswer ==
  ASSUME EntryInv, NEW w \in Workers, job[w].at # "idle", Give(w, Compiled(job[w].request))
  PROVE  Memo!Answer(w)
<1>1. job[w].request \in Requests /\ job \in [Workers -> Jobs]
    BY DEF EntryInv, Types, JobIsKnown
<1>2. Asked[w] # None /\ Asked[w] = job[w].request
    BY <1>1, FailuresAreTold DEF Asked
<1>3. job'[w].at = "idle" /\ \A v \in Workers : v # w => job'[v] = job[v]
    BY <1>1, IdleTyped DEF Give
<1>4. Asked' = [Asked EXCEPT ![w] = None]
    BY <1>3 DEF Asked
<1>5. answer' = [answer EXCEPT ![w] = Compiled(Asked[w])]
    BY <1>2 DEF Give
<1> QED
    BY <1>2, <1>4, <1>5 DEF Memo!Answer

LEMMA AsksMemo ==
  ASSUME EntryInv, NEW w \in Workers, NEW s \in Sources, Ask(w, s)
  PROVE  \E r \in Requests : Memo!Ask(w, r)
<1> DEFINE r == [source |-> s, compiler |-> build[ProcessOf[w]]]
<1>1. r \in Requests /\ job \in [Workers -> Jobs]
    BY WorkersHaveProcesses DEF EntryInv, Types, Ask, Requests
<1>2. Asked[w] = None /\ UNCHANGED answer
    BY IdleTyped DEF Ask, Asked
<1>3. job' = [job EXCEPT ![w] = [at |-> "find", request |-> r, file |-> None, name |-> None]]
    BY DEF Ask
<1> HIDE DEF r
<1>4. Asked' = [Asked EXCEPT ![w] = r]
  <2>1. job'[w].at = "find" /\ job'[w].request = r /\ \A v \in Workers : v # w => job'[v] = job[v]
      BY <1>1, <1>3
  <2> QED
      BY <2>1 DEF Asked
<1> QED
    BY <1>1, <1>2, <1>4 DEF Memo!Ask

LEMMA WorkAnswers ==
  ASSUME EntryInv, NEW w \in Workers, Work(w)
  PROVE  Memo!Answer(w) \/ UNCHANGED <<Asked, answer>>
<1>1. job \in [Workers -> Jobs] /\ JobIsKnown(w) /\ job[w].at # "idle"
    BY DEF EntryInv, Types, Work, Search, Store, OpenEntry, CheckSize, ReadWords, Compile, Finding,
           StoreFails, OpenTemporary, WriteHeader, WriteWords, Write, Discard, Rename
<1>2. ASSUME NEW at, NEW f, NEW n, Move(w, at, f, n), at # "idle", UNCHANGED answer
      PROVE  UNCHANGED <<Asked, answer>>
    BY <1>1, <1>2, Stutters DEF Move
<1>3. ASSUME Stored(w) PROVE Memo!Answer(w)
    BY <1>1, <1>3, GivesAnswer DEF Stored
<1>4. CASE OpenEntry(w)
    BY <1>2, <1>4 DEF OpenEntry
<1>5. CASE CheckSize(w)
    BY <1>2, <1>5 DEF CheckSize
<1>6. CASE ReadWords(w)
  <2>1. job[w].file.of = Compiled(job[w].request)
      BY <1>1, <1>6, DigestNamesProgram DEF ReadWords, Finding, JobIsKnown, Files
  <2> QED
      BY <1>1, <1>2, <1>6, <2>1, GivesAnswer DEF ReadWords
<1>7. CASE Compile(w)
    BY <1>1, <1>2, <1>7, GivesAnswer DEF Compile
<1>8. CASE StoreFails(w) \/ Discard(w) \/ Rename(w)
    BY <1>3, <1>8 DEF StoreFails, Discard, Rename
<1>9. CASE OpenTemporary(w)
    BY <1>2, <1>9 DEF OpenTemporary
<1>10. CASE WriteHeader(w) \/ WriteWords(w)
    BY <1>2, <1>10 DEF WriteHeader, WriteWords, Write
<1> QED
    BY <1>4, <1>5, <1>6, <1>7, <1>8, <1>9, <1>10 DEF Work, Search, Store

LEMMA GoneForgets ==
  ASSUME NEW p \in Processes, Gone(p), DOMAIN answer = Workers
  PROVE  \E W \in SUBSET Workers : Memo!Forget(W)
<1>1. Of(p) \in SUBSET Workers
    BY DEF Of
<1>2. Asked' = [w \in Workers |-> IF w \in Of(p) THEN None ELSE Asked[w]]
    BY IdleTyped DEF Gone, Asked
<1>3. answer' = [w \in Workers |-> IF w \in Of(p) THEN None ELSE answer[w]]
    BY DEF Gone
<1> QED
    BY <1>1, <1>2, <1>3 DEF Memo!Forget

\* Every answer is the compile's own, of the build that asked: a hit, a damaged entry, a race
\* and a killed writer all look like a compile, and nothing else does.
THEOREM CachesImplementMemo == Spec => MemoSafety
<1>1. Init => Memo!MemoInit
    BY IdleTyped DEF Init, Memo!MemoInit, Asked
<1>2. EntryInv /\ [Next]_vars => [Memo!MemoNext]_(Memo!memoVars)
  <2> SUFFICES ASSUME EntryInv, [Next]_vars
               PROVE  Memo!MemoNext \/ UNCHANGED <<Asked, answer>>
      BY DEF Memo!memoVars
  <2>1. ASSUME NEW w \in Workers, NEW s \in Sources, Ask(w, s) PROVE Memo!MemoNext
      BY <2>1, AsksMemo DEF Memo!MemoNext
  <2>2. ASSUME NEW w \in Workers, Work(w) PROVE Memo!MemoNext \/ UNCHANGED <<Asked, answer>>
      BY <2>2, WorkAnswers DEF Memo!MemoNext
  <2>3. ASSUME NEW p \in Processes, End(p) \/ Kill(p) PROVE Memo!MemoNext
      BY <2>3, GoneForgets DEF End, Kill, EntryInv, Types, Memo!MemoNext
  <2>4. ASSUME UNCHANGED <<job, answer>> PROVE UNCHANGED <<Asked, answer>>
      BY <2>4 DEF Asked
  <2> QED
      BY <2>1, <2>2, <2>3, <2>4
      DEF Next, CreatePipeline, Start, OpenPartial, WritePartial, RenamePartial, Saving, Damage, vars
<1> QED
    BY <1>1, <1>2, InitEntries, NextEntries, PTL DEF Spec, MemoSafety, Memo!MemoSafety
=============================================================================
