----------------------------- MODULE CompileMemo -----------------------------
(***************************************************************************)
(* What GlslCompiler::CompileCached promises its callers: the SPIR-V that  *)
(* Compile would give, always an answer, and nothing of the disk.          *)
(***************************************************************************)

CONSTANTS
  Workers,        \* threads that compile, of every process
  Requests,       \* everything generated SPIR-V depends on
  Compiled(_),    \* what Compile gives for a request, Failed included
  None

VARIABLES
  asked,          \* by worker: what it waits for, None when it does not
  answer          \* by worker: the last answer it was given

memoVars == <<asked, answer>>

MemoInit ==
  /\ asked  = [w \in Workers |-> None]
  /\ answer = [w \in Workers |-> None]

Ask(w, r) ==
  /\ asked[w] = None
  /\ asked' = [asked EXCEPT ![w] = r]
  /\ UNCHANGED answer

Answer(w) ==
  /\ asked[w] # None
  /\ asked'  = [asked  EXCEPT ![w] = None]
  /\ answer' = [answer EXCEPT ![w] = Compiled(asked[w])]

\* The processes of these workers end, and start again knowing nothing.
Forget(W) ==
  /\ asked'  = [w \in Workers |-> IF w \in W THEN None ELSE asked[w]]
  /\ answer' = [w \in Workers |-> IF w \in W THEN None ELSE answer[w]]

MemoNext ==
  \/ \E w \in Workers : (\E r \in Requests : Ask(w, r)) \/ Answer(w)
  \/ \E W \in SUBSET Workers : Forget(W)

MemoSafety == MemoInit /\ [][MemoNext]_memoVars

\* Every request is answered, whatever became of the cache.
MemoSpec == MemoSafety /\ \A w \in Workers : WF_memoVars(Answer(w))
=============================================================================
