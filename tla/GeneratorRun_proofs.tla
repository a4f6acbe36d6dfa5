-------------------------- MODULE GeneratorRun_proofs --------------------------
(***************************************************************************)
(* Proofs about GeneratorRun: for any number of batches and of threads,    *)
(* whichever of them fail, every thread finds its own file, nothing runs   *)
(* on after the exit, the files left behind are accounted for, and the     *)
(* output is replaced as a whole or not at all.                            *)
(***************************************************************************)
EXTENDS GeneratorRun, SequenceTheorems, TLAPS

Count == Len(Batches)
Working == phase \in {"sequence", "pool", "shutdown", "assemble"}
Busy(t) == stage[t] # "idle"
HasFile(t) == stage[t] \in {"written", "maple"}

Phases == {"check", "variant", "sequence", "pool", "shutdown", "assemble",
           "write", "exited"}
Results == [status : {"pending", "done"} \cup Failures, code : Codes]

ControlType ==
  /\ run \in Runs
  /\ phase \in Phases
  /\ variant \in 1..2
  /\ queue \in Seq(Nat)
  /\ collected \in Nat
  /\ exit \in {"running", "0", "1"}

ThreadType ==
  /\ stage \in [Threads -> {"idle", "called", "written", "maple"}]
  /\ work \in [Threads -> [batch : Nat, name : Names \cup {"none"}, read : Codes]]
  /\ temp \in [Names -> Codes]
  /\ Working => result \in [Places -> Results]
  /\ \E n \in {0, Count, Len(run.batches[1])} : result \in [1..n -> Results]

(* Which threads may be busy, and with batches nobody else is busy with: those
   in the queue are the last of the list, and have no result yet. *)
ThreadInv ==
  /\ phase \notin {"sequence", "pool", "shutdown"} =>
       queue = << >> /\ \A t \in Threads : ~Busy(t)
  /\ phase = "sequence" =>
       /\ queue = << >>
       /\ \A t \in Threads : Busy(t) => t = 0 /\ work[t].batch = collected + 1
  /\ phase \in {"pool", "shutdown"} => ~Busy(0)
  /\ \A t \in Threads : Busy(t) =>
       /\ work[t].batch \in 1..Count
       /\ result[work[t].batch] = Pending
  /\ \A t, u \in Threads :
       Busy(t) /\ Busy(u) /\ work[t].batch = work[u].batch => t = u

QueueInv ==
  Working =>
    /\ Len(queue) =< Count
    /\ \A k \in 1..Len(queue) : queue[k] = Count - Len(queue) + k
    /\ \A k \in 1..Len(queue) : result[queue[k]] = Pending
    /\ \A t \in Threads : Busy(t) /\ t # 0 => work[t].batch =< Count - Len(queue)

ResultInv ==
  /\ Working =>
       /\ \A i \in Places : result[i].status = "done" => result[i].code = Code(variant, i)
       /\ collected =< Count
       /\ \A i \in 1..collected : result[i].status = "done"
  /\ phase = "assemble" => collected = Count

(* Names are not shared, and a file without a thread is one of a batch whose
   Maple was not started. *)
FileInv ==
  /\ FilesAreOwn
  /\ \A t \in Threads : HasFile(t) => work[t].name \in Names
  /\ \A t, u \in Threads :
       HasFile(t) /\ HasFile(u) /\ work[t].name = work[u].name => t = u
  /\ phase \in {"check", "variant"} => \A n \in Names : temp[n] = NoFile
  /\ \A n \in Names : temp[n] # NoFile =>
       \/ \E t \in Threads : HasFile(t) /\ work[t].name = n
       \/ \E i \in DOMAIN result :
            result[i].status = "not started" /\ temp[n] = Code(variant, i)
  /\ \A i \in DOMAIN result : result[i].status = "not started" =>
       \E n \in Names : /\ temp[n] = Code(variant, i)
                        /\ \A t \in Threads : HasFile(t) => work[t].name # n

OutputInv ==
  /\ phase \notin {"write", "exited"} =>
       text = IF variant = 1 THEN << >> ELSE Functions(run, 1, OwnCodes(run, 1))
  /\ phase = "write" => text = Complete(run)
  /\ phase = "exited" <=> exit # "running"
  /\ output = IF exit = "0" THEN Complete(run) ELSE OldFile

IInv ==
  /\ ControlType /\ ThreadType /\ ThreadInv /\ QueueInv
  /\ ResultInv /\ FileInv /\ OutputInv
-----------------------------------------------------------------------------
(* What the types say about the batches of the running variant. *)
LEMMA Facts ==
  ASSUME ControlType
  PROVE  /\ run \in RunType /\ Batches \in Seq(Batch) /\ Count \in Nat /\ Count > 0
         /\ Places = 1..Count /\ Cpus \in Nat \ {0} /\ 0 \in Threads
         /\ Threads = 0..Cpus
<1>1. run \in RunType /\ Cpus \in Nat \ {0}
  BY RunAssumption DEF ControlType
<1>2. Batches \in Seq(Batch) \ {<< >>}
  BY <1>1 DEF ControlType, RunType, Batches
<1>3. Count \in Nat /\ Count > 0
  BY <1>2 DEF Count
<1> QED
  BY <1>1, <1>2, <1>3 DEF Places, Threads, Count

(* The pool has no more threads than there are processors. *)
LEMMA Workforce ==
  ASSUME ControlType
  PROVE  Workers \in Nat /\ 1..Workers \subseteq Threads \ {0}
<1>1. Count \in Nat /\ Count > 0 /\ Cpus \in Nat \ {0} /\ Threads = 0..Cpus
  BY Facts
<1>2. Workers =< Cpus /\ Workers \in Nat
  BY <1>1 DEF Workers, Smaller, Larger, Count
<1> QED
  BY <1>1, <1>2

(* The text of a variant is a sequence: nothing is lost when it is appended to
   the empty one. *)
LEMMA FunctionsAfterNothing ==
  ASSUME NEW r \in RunType, NEW v, NEW codes
  PROVE  << >> \o Functions(r, v, codes) = Functions(r, v, codes)
<1> DEFINE f(k) == [variant |-> v, order |-> k - 1,
                    body |-> Body(r.batches[v], codes, k - 1)]
           n == r.maxOrder + 1
           S == {f(k) : k \in 1..n}
<1>1. n \in Nat
  BY DEF RunType
<1>2. [k \in 1..n |-> f(k)] \in Seq(S)
  <2>1. [k \in 1..n |-> f(k)] \in [1..n -> S]
    OBVIOUS
  <2> HIDE DEF S, n, f
  <2> QED
    BY <1>1, <2>1, SeqDef
<1>3. Functions(r, v, codes) \in Seq(S)
  BY <1>2 DEF Functions
<1> QED
  BY <1>3, ConcatEmptySeq

(* The invariant holds when the generator is started. *)
LEMMA InitHolds == Init => IInv
<1> SUFFICES ASSUME Init PROVE IInv
  OBVIOUS
<1> USE DEF Init
<1>1. ControlType
  BY DEF ControlType, Phases
<1>2. ThreadType
  <2>1. result \in [1..0 -> Results]
    OBVIOUS
  <2>2. NoWork \in [batch : Nat, name : Names \cup {"none"}, read : Codes]
    BY DEF NoWork, NoFile, Code, Codes
  <2>3. NoFile \in Codes
    BY DEF NoFile, Code, Codes
  <2> QED
    BY <2>1, <2>2, <2>3 DEF ThreadType, Working
<1>3. ThreadInv /\ QueueInv /\ ResultInv
  BY DEF ThreadInv, QueueInv, ResultInv, Working, Busy
<1>4. FileInv
  BY DEF FileInv, FilesAreOwn, HasFile
<1>5. OutputInv
  BY DEF OutputInv
<1> QED
  BY <1>1, <1>2, <1>3, <1>4, <1>5 DEF IInv
-----------------------------------------------------------------------------
(* Steps of the main thread that touch neither threads nor results. *)
LEMMA FilesUntouched ==
  ASSUME FileInv, UNCHANGED <<variant, result, stage, work, temp>>,
         phase' \in {"check", "variant"} => phase \in {"check", "variant"}
  PROVE  FileInv'
<1>1. FilesAreOwn'
  BY DEF FileInv, FilesAreOwn
<1>2. \A n \in Names : temp'[n] # NoFile =>
       \/ \E t \in Threads : HasFile(t)' /\ work'[t].name = n
       \/ \E i \in DOMAIN result' :
            result'[i].status = "not started" /\ temp'[n] = Code(variant', i)
  BY DEF FileInv, HasFile
<1>3. \A i \in DOMAIN result' : result'[i].status = "not started" =>
       \E n \in Names : /\ temp'[n] = Code(variant', i)
                        /\ \A t \in Threads : HasFile(t)' => work'[t].name # n
  <2> SUFFICES ASSUME NEW i \in DOMAIN result, result[i].status = "not started"
               PROVE  \E n \in Names : /\ temp[n] = Code(variant, i)
                                       /\ \A t \in Threads : HasFile(t)' => work[t].name # n
    OBVIOUS
  <2>1. PICK n \in Names : /\ temp[n] = Code(variant, i)
                           /\ \A t \in Threads : HasFile(t) => work[t].name # n
    BY DEF FileInv
  <2>2. \A t \in Threads : HasFile(t)' => work[t].name # n
    BY <2>1 DEF HasFile
  <2> QED
    BY <2>1, <2>2
<1>4. /\ \A t \in Threads : HasFile(t)' => work'[t].name \in Names
      /\ \A t, u \in Threads :
           HasFile(t)' /\ HasFile(u)' /\ work'[t].name = work'[u].name => t = u
      /\ phase' \in {"check", "variant"} => \A n \in Names : temp'[n] = NoFile
  BY DEF FileInv, HasFile
<1> QED
  BY <1>1, <1>2, <1>3, <1>4 DEF FileInv

(* The check of the header keeps the invariant. *)
LEMMA StepCheckHeader == IInv /\ CheckHeader => IInv'
<1> SUFFICES ASSUME IInv, CheckHeader PROVE IInv'
  OBVIOUS
<1> USE DEF CheckHeader, Exit, threads
<1>0. Batches' = Batches /\ Count' = Count /\ Places' = Places /\ ~Working /\ ~Working'
  BY DEF Batches, Places, Count, Working
<1>1. ControlType'
  BY DEF IInv, ControlType, Phases
<1>2. ThreadType'
  BY <1>0 DEF IInv, ThreadType
<1>3. ThreadInv' /\ QueueInv'
  BY <1>0 DEF IInv, ThreadInv, QueueInv, Busy, Count
<1>4. ResultInv'
  BY <1>0 DEF IInv, ResultInv
<1>5. FileInv'
  BY FilesUntouched DEF IInv
<1>6. OutputInv'
  BY DEF IInv, OutputInv
<1> QED
  BY <1>1, <1>2, <1>3, <1>4, <1>5, <1>6 DEF IInv

(* Waiting for the results in order keeps the invariant. *)
LEMMA StepCollect == IInv /\ Collect => IInv'
<1> SUFFICES ASSUME IInv, Collect PROVE IInv'
  OBVIOUS
<1> USE DEF Collect, threads
<1>0. Batches' = Batches /\ Count' = Count /\ Places' = Places /\ Working /\ Working'
  BY DEF Batches, Places, Count, Working
<1>1. ControlType'
  BY DEF IInv, ControlType, Phases
<1>2. ThreadType'
  BY <1>0 DEF IInv, ThreadType
<1>3. ThreadInv' /\ QueueInv'
  <2>1. phase = "sequence" => \A t \in Threads : ~Busy(t)
    <3> SUFFICES ASSUME phase = "sequence", NEW t \in Threads, Busy(t) PROVE FALSE
      OBVIOUS
    <3>1. result[collected + 1] = Pending
      BY DEF IInv, ThreadInv
    <3> QED
      BY <3>1 DEF Pending, Answer
  <2>2. ThreadInv'
    BY <1>0, <2>1 DEF IInv, ThreadInv, Busy
  <2>3. QueueInv'
    BY <1>0 DEF IInv, QueueInv, Busy
  <2> QED
    BY <2>2, <2>3
<1>4. ResultInv'
  <2>1. Count \in Nat /\ collected \in Nat /\ Count = Len(Batches)
    BY Facts DEF IInv, ControlType, Count
  <2>2. \A i \in 1..collected' : i = collected + 1 \/ i \in 1..collected
    BY <2>1
  <2> QED
    BY <1>0, <2>1, <2>2 DEF IInv, ResultInv
<1>5. FileInv'
  BY FilesUntouched DEF IInv
<1>6. OutputInv'
  BY DEF IInv, OutputInv
<1> QED
  BY <1>1, <1>2, <1>3, <1>4, <1>5, <1>6 DEF IInv

(* Once all are collected the threads are done. *)
LEMMA StepAllCollected == IInv /\ AllCollected => IInv'
<1> SUFFICES ASSUME IInv, AllCollected PROVE IInv'
  OBVIOUS
<1> USE DEF AllCollected, threads
<1>0. Batches' = Batches /\ Count' = Count /\ Places' = Places /\ Working /\ Working'
  BY DEF Batches, Places, Count, Working
<1>a. Count \in Nat /\ collected = Count /\ Places = 1..Count
  BY Facts DEF IInv, Count
<1>1. ControlType'
  BY DEF IInv, ControlType, Phases
<1>2. ThreadType'
  BY <1>0 DEF IInv, ThreadType
(* No thread is left with a batch that has no result. *)
<1>3. ThreadInv' /\ QueueInv'
  <2>1. \A t \in Threads : ~Busy(t)
    BY <1>0, <1>a DEF IInv, ThreadInv, ResultInv, Pending, Answer
  <2> QED
    BY <1>0, <2>1 DEF IInv, ThreadInv, QueueInv, Busy, Count
<1>4. ResultInv'
  BY <1>0, <1>a DEF IInv, ResultInv
<1>5. FileInv'
  BY FilesUntouched DEF IInv
<1>6. OutputInv'
  BY DEF IInv, OutputInv
<1> QED
  BY <1>1, <1>2, <1>3, <1>4, <1>5, <1>6 DEF IInv

(* A failure met in the sequence leaves no thread with a batch: the only one
   it could be has its result. *)
LEMMA StepRaise == IInv /\ Raise => IInv'
<1> SUFFICES ASSUME IInv, Raise PROVE IInv'
  OBVIOUS
<1> USE DEF Raise, Exit, threads
<1>0. Batches' = Batches /\ Count' = Count /\ Places' = Places /\ Working
  BY DEF Batches, Places, Count, Working
<1>a. Count \in Nat /\ collected < Count /\ Places = 1..Count /\ collected \in Nat
  BY Facts DEF IInv, Count, ControlType
<1>1. ControlType'
  BY DEF IInv, ControlType, Phases
<1>2. ThreadType'
  BY <1>0 DEF IInv, ThreadType
<1>3. ThreadInv'
  <2>1. phase = "sequence" => \A t \in Threads : ~Busy(t)
    <3> SUFFICES ASSUME phase = "sequence", NEW t \in Threads, Busy(t) PROVE FALSE
      OBVIOUS
    <3>1. result[collected + 1] = Pending
      BY DEF IInv, ThreadInv
    <3> QED
      BY <3>1 DEF Raises, Failures, Pending, Answer
  <2> QED
    BY <1>0, <2>1 DEF IInv, ThreadInv, Busy
<1>4. QueueInv' /\ ResultInv'
  BY <1>0, <1>a DEF IInv, QueueInv, ResultInv, Busy
<1>5. FileInv'
  BY FilesUntouched DEF IInv
<1>6. OutputInv'
  BY DEF IInv, OutputInv
<1> QED
  BY <1>1, <1>2, <1>3, <1>4, <1>5, <1>6 DEF IInv

(* The generator leaves a shut down pool only when no thread runs. *)
LEMMA StepPoolShutDown == IInv /\ PoolShutDown => IInv'
<1> SUFFICES ASSUME IInv, PoolShutDown PROVE IInv'
  OBVIOUS
<1> USE DEF PoolShutDown, Exit, threads
<1>0. Batches' = Batches /\ Count' = Count /\ Places' = Places /\ Working
  BY DEF Batches, Places, Count, Working
<1>a. Count \in Nat /\ Places = 1..Count /\ collected \in Nat /\ collected =< Count
  BY <1>0, Facts DEF IInv, Count, ControlType, ResultInv
<1>1. ControlType'
  BY DEF IInv, ControlType, Phases
<1>2. ThreadType'
  BY <1>0 DEF IInv, ThreadType
<1>3. ThreadInv'
  BY <1>0 DEF IInv, ThreadInv, Busy
<1>4. QueueInv' /\ ResultInv'
  BY <1>0, <1>a DEF IInv, QueueInv, ResultInv, Busy, Count
<1>5. FileInv'
  BY FilesUntouched DEF IInv
<1>6. OutputInv'
  BY DEF IInv, OutputInv
<1> QED
  BY <1>1, <1>2, <1>3, <1>4, <1>5, <1>6 DEF IInv

(* The file is written from the complete text. *)
LEMMA StepWriteOutput == IInv /\ WriteOutput => IInv'
<1> SUFFICES ASSUME IInv, WriteOutput PROVE IInv'
  OBVIOUS
<1> USE DEF WriteOutput, Exit, threads
<1>0. Batches' = Batches /\ Count' = Count /\ Places' = Places /\ ~Working /\ ~Working'
  BY DEF Batches, Places, Count, Working
<1>1. ControlType'
  BY DEF IInv, ControlType, Phases
<1>2. ThreadType'
  BY <1>0 DEF IInv, ThreadType
<1>3. ThreadInv' /\ QueueInv'
  BY <1>0 DEF IInv, ThreadInv, QueueInv, Busy, Count
<1>4. ResultInv'
  BY <1>0 DEF IInv, ResultInv
<1>5. FileInv'
  BY FilesUntouched DEF IInv
<1>6. OutputInv'
  BY DEF IInv, OutputInv
<1> QED
  BY <1>1, <1>2, <1>3, <1>4, <1>5, <1>6 DEF IInv

(* A variant starts with all its batches to be done. *)
LEMMA StepBeginVariant == IInv /\ BeginVariant => IInv'
<1> SUFFICES ASSUME IInv, BeginVariant PROVE IInv'
  OBVIOUS
<1> USE DEF BeginVariant, threads
<1>0. Batches' = Batches /\ Count' = Count /\ Places' = Places
  BY DEF Batches, Places, Count
<1>a. Count \in Nat /\ Places = 1..Count /\ Count = Len(Batches)
  BY Facts DEF IInv, Count
<1>b. queue' = (IF Pooled THEN [i \in 1..Count |-> i] ELSE << >>)
  BY <1>a
<1>c. \A t \in Threads : ~Busy(t)
  BY DEF IInv, ThreadInv
<1>d. result' = [i \in 1..Count |-> Pending]
  BY <1>a
<1>e. [i \in 1..Count |-> i] \in Seq(Nat) /\ Len([i \in 1..Count |-> i]) = Count
  <2>1. [i \in 1..Count |-> i] \in [1..Count -> Nat]
    OBVIOUS
  <2> QED
    BY <1>a, <2>1, SeqDef
<1>1. ControlType'
  BY <1>b, <1>e DEF IInv, ControlType, Phases
<1>2. ThreadType'
  <2>1. Pending \in Results
    BY DEF Pending, Answer, Results, NoFile, Code, Codes
  <2>2. result' \in [1..Count -> Results]
    BY <1>d, <2>1
  <2> QED
    BY <1>0, <1>a, <2>2 DEF IInv, ThreadType
<1>f. \A i \in DOMAIN result' : result'[i].status = "pending"
  BY <1>d DEF Pending, Answer
<1>3. ThreadInv'
  <2>1. \A t \in Threads : ~Busy(t)'
    BY <1>c DEF Busy
  <2>2. phase' = "sequence" => queue' = << >>
    BY <1>b
  <2>3. phase' \in {"sequence", "pool"}
    OBVIOUS
  <2> QED
    BY <2>1, <2>2, <2>3, Facts DEF ThreadInv, IInv
<1>4. QueueInv' /\ ResultInv'
  <2>1. Len(queue') =< Count /\ \A k \in 1..Len(queue') : queue'[k] = Count - Len(queue') + k
    <3>1. CASE Pooled
      BY <1>a, <1>b, <1>e, <3>1
    <3>2. CASE ~Pooled
      BY <1>a, <1>b, <3>2
    <3> QED
      BY <3>1, <3>2
  <2>2. \A k \in 1..Len(queue') : queue'[k] \in 1..Count
    BY <1>a, <1>b, <1>e
  <2>3. QueueInv'
    BY <1>0, <1>c, <1>d, <2>1, <2>2, ZenonT(60) DEF QueueInv, Busy
  <2>4. ResultInv'
    BY <1>0, <1>a, <1>d DEF ResultInv, Pending, Answer
  <2> QED
    BY <2>3, <2>4
<1>5. FileInv'
  <2>1. \A n \in Names : temp'[n] = NoFile
    BY DEF IInv, FileInv
  <2>2. \A t \in Threads : ~HasFile(t)' /\ stage'[t] = "idle"
    BY <1>c DEF HasFile, Busy
  <2>3. FilesAreOwn'
    BY <2>2 DEF FilesAreOwn
  <2> QED
    BY <1>f, <2>1, <2>2, <2>3 DEF FileInv
<1>6. OutputInv'
  BY DEF IInv, OutputInv
<1> QED
  BY <1>1, <1>2, <1>3, <1>4, <1>5, <1>6 DEF IInv

(* The codes collected for a variant are those of its own batches. *)
LEMMA StepAssemble == IInv /\ Assemble => IInv'
<1> SUFFICES ASSUME IInv, Assemble PROVE IInv'
  OBVIOUS
<1> USE DEF Assemble, threads
<1>a. /\ Count \in Nat /\ Places = 1..Count /\ Count = Len(Batches)
      /\ run \in RunType /\ variant \in 1..2
  BY Facts DEF IInv, Count, ControlType
<1>b. \A i \in 1..Count : result[i].status = "done" /\ result[i].code = Code(variant, i)
  BY <1>a DEF IInv, ResultInv, Working
<1>c. \A t \in Threads : ~Busy(t)
  BY DEF IInv, ThreadInv
<1>d. DOMAIN result = 1..Count
  BY <1>a DEF IInv, ThreadType, Working
<1>e. ~Working'
  BY DEF Working
<1>1. ControlType'
  BY DEF IInv, ControlType, Phases
<1>2. ThreadType'
  <2>1. result \in [1..Count -> Results]
    BY <1>a DEF IInv, ThreadType, Working
  <2>2. CASE variant = 1
    BY <1>e, <2>1, <2>2 DEF IInv, ThreadType, Count, Batches
  <2>3. CASE variant # 1
    BY <1>e, <2>1, <2>3 DEF IInv, ThreadType, Count, Batches
  <2> QED
    BY <2>2, <2>3
<1>3. ThreadInv' /\ QueueInv' /\ ResultInv'
  BY <1>c, <1>e DEF IInv, ThreadInv, QueueInv, ResultInv, Busy
<1>5. FileInv'
  <2>1. \A n \in Names : temp[n] = NoFile
    BY <1>b, <1>c, <1>d DEF IInv, FileInv, HasFile, Busy
  <2> QED
    BY <1>b, <1>c, <1>d, <2>1 DEF FileInv, FilesAreOwn, HasFile, Busy
<1>6. OutputInv'
  <2>1. [i \in Places |-> result[i].code] = OwnCodes(run, variant)
    BY <1>a, <1>b DEF OwnCodes, Batches
  <2>2. text' = text \o Functions(run, variant, OwnCodes(run, variant))
    BY <2>1
  <2>3. CASE variant = 1
    <3>1. text = << >>
      BY <2>3 DEF IInv, OutputInv
    <3>2. << >> \o Functions(run, 1, OwnCodes(run, 1)) = Functions(run, 1, OwnCodes(run, 1))
      BY <1>a, FunctionsAfterNothing
    <3> QED
      BY <2>2, <2>3, <3>1, <3>2 DEF IInv, OutputInv
  <2>4. CASE variant = 2
    BY <2>2, <2>4, SMTT(30) DEF IInv, OutputInv, Complete
  <2> QED
    BY <1>a, <2>3, <2>4
<1> QED
  BY <1>1, <1>2, <1>3, <1>5, <1>6 DEF IInv
-----------------------------------------------------------------------------
(* Steps of a thread, and the call by which the main thread becomes one. *)
LEMMA CallHolds ==
  ASSUME IInv, NEW t \in Threads, ~Busy(t), NEW i \in 1..Count, Call(t, i),
         UNCHANGED <<run, main, result, temp>>,
         phase \in {"sequence", "pool", "shutdown"}, result[i] = Pending,
         \A u \in Threads : Busy(u) => work[u].batch # i,
         queue' \in Seq(Nat)
  PROVE  /\ Batches' = Batches /\ Count' = Count /\ Places' = Places
         /\ Working /\ Working'
         /\ \A u \in Threads : Busy(u)' <=> Busy(u) \/ u = t
         /\ work'[t].batch = i /\ \A u \in Threads \ {t} : work'[u] = work[u]
         /\ ControlType' /\ ThreadType' /\ ResultInv' /\ FileInv' /\ OutputInv'
<1> USE DEF Call, main
<1>0. Batches' = Batches /\ Count' = Count /\ Places' = Places /\ Working /\ Working'
  BY DEF Batches, Places, Count, Working
<1>a. /\ stage \in [Threads -> {"idle", "called", "written", "maple"}]
      /\ work \in [Threads -> [batch : Nat, name : Names \cup {"none"}, read : Codes]]
  BY DEF IInv, ThreadType
<1>b. \A u \in Threads : Busy(u)' <=> Busy(u) \/ u = t
  BY <1>a DEF Busy
<1>c. work'[t].batch = i /\ \A u \in Threads \ {t} : work'[u] = work[u]
  BY <1>a DEF NoWork
<1>1. ControlType'
  BY DEF IInv, ControlType, Phases
<1>2. ThreadType'
  <2>1. [NoWork EXCEPT !.batch = i] \in [batch : Nat, name : Names \cup {"none"}, read : Codes]
    <3>1. NoFile \in Codes
      BY DEF NoFile, Code, Codes
    <3>2. i \in Nat
      BY Facts DEF IInv
    <3> QED
      BY <3>1, <3>2 DEF NoWork
  <2>2. /\ stage' \in [Threads -> {"idle", "called", "written", "maple"}]
        /\ work' \in [Threads -> [batch : Nat, name : Names \cup {"none"}, read : Codes]]
    BY <1>a, <2>1
  <2> QED
    BY <1>0, <2>2 DEF IInv, ThreadType
<1>4. ResultInv'
  BY <1>0 DEF IInv, ResultInv
<1>5. FileInv'
  <2>1. \A u \in Threads : HasFile(u)' <=> HasFile(u)
    BY <1>a DEF HasFile, Busy
  <2>2. \A u \in Threads : HasFile(u) => work'[u] = work[u] /\ stage'[u] = stage[u]
    BY <1>a DEF HasFile, Busy
  <2>3. FilesAreOwn'
    <3> SUFFICES ASSUME NEW u \in Threads, HasFile(u)'
                 PROVE  /\ temp[work'[u].name] = Code(variant, work'[u].batch)
                        /\ stage'[u] = "maple" => work'[u].read = Code(variant, work'[u].batch)
      BY DEF FilesAreOwn, HasFile
    <3>1. HasFile(u) /\ work'[u] = work[u] /\ stage'[u] = stage[u]
      BY <2>1, <2>2
    <3>2. /\ temp[work[u].name] = Code(variant, work[u].batch)
          /\ stage[u] = "maple" => work[u].read = Code(variant, work[u].batch)
      BY <3>1 DEF IInv, FileInv, FilesAreOwn, HasFile
    <3> QED
      BY <3>1, <3>2
  <2>4. /\ \A u \in Threads : HasFile(u)' => work'[u].name \in Names
        /\ \A u, w \in Threads :
             HasFile(u)' /\ HasFile(w)' /\ work'[u].name = work'[w].name => u = w
    BY <2>1, <2>2 DEF IInv, FileInv
  <2>5. ASSUME NEW n \in Names, temp[n] # NoFile
        PROVE  \/ \E u \in Threads : HasFile(u)' /\ work'[u].name = n
               \/ \E j \in DOMAIN result :
                    result[j].status = "not started" /\ temp[n] = Code(variant, j)
    <3>1. CASE \E u \in Threads : HasFile(u) /\ work[u].name = n
      BY <2>1, <2>2, <3>1
    <3>2. CASE ~ \E u \in Threads : HasFile(u) /\ work[u].name = n
      BY <2>5, <3>2 DEF IInv, FileInv
    <3> QED
      BY <3>1, <3>2
  <2>6. ASSUME NEW j \in DOMAIN result, result[j].status = "not started"
        PROVE  \E n \in Names : /\ temp[n] = Code(variant, j)
                                /\ \A u \in Threads : HasFile(u)' => work'[u].name # n
    <3>1. PICK n \in Names : /\ temp[n] = Code(variant, j)
                             /\ \A u \in Threads : HasFile(u) => work[u].name # n
      BY <2>6 DEF IInv, FileInv
    <3>2. \A u \in Threads : HasFile(u)' => work'[u].name # n
      BY <2>1, <2>2, <3>1
    <3> QED
      BY <3>1, <3>2
  <2> QED
    BY <2>3, <2>4, <2>5, <2>6, ZenonT(60) DEF IInv, FileInv
<1>6. OutputInv'
  BY DEF IInv, OutputInv
<1> QED
  BY <1>0, <1>b, <1>c, <1>1, <1>2, <1>4, <1>5, <1>6

(* Without a pool the main thread runs the first batch that is left. *)
LEMMA StepRunNext == IInv /\ RunNext => IInv'
<1> SUFFICES ASSUME IInv, RunNext PROVE IInv'
  OBVIOUS
<1> USE DEF RunNext
<1>a. /\ Count \in Nat /\ Count = Len(Batches) /\ collected \in Nat
      /\ 0 \in Threads /\ queue \in Seq(Nat)
  BY Facts DEF IInv, Count, ControlType
<1>b. queue = << >> /\ \A t \in Threads : ~Busy(t)
  BY DEF IInv, ThreadInv, Busy
<1>c. collected + 1 \in 1..Count
  BY <1>a
<1>d. /\ Batches' = Batches /\ Count' = Count /\ Places' = Places
      /\ Working /\ Working'
      /\ \A u \in Threads : Busy(u)' <=> Busy(u) \/ u = 0
      /\ work'[0].batch = collected + 1 /\ \A u \in Threads \ {0} : work'[u] = work[u]
      /\ ControlType' /\ ThreadType' /\ ResultInv' /\ FileInv' /\ OutputInv'
  BY <1>a, <1>b, <1>c, CallHolds
<1>e. phase' = phase /\ collected' = collected /\ result' = result /\ queue' = queue
  BY DEF main
<1>1. ThreadInv'
  BY <1>b, <1>c, <1>d, <1>e DEF ThreadInv
<1>2. QueueInv'
  BY <1>b, <1>d, <1>e DEF IInv, QueueInv
<1> QED
  BY <1>d, <1>1, <1>2 DEF IInv

(* A thread of the pool takes the batch at the head of the queue. *)
LEMMA StepTakeBatch ==
  ASSUME NEW t \in Threads PROVE IInv /\ TakeBatch(t) => IInv'
<1> SUFFICES ASSUME IInv, TakeBatch(t) PROVE IInv'
  OBVIOUS
<1> USE DEF TakeBatch
<1>a. /\ Count \in Nat /\ Count = Len(Batches) /\ queue \in Seq(Nat)
      /\ t # 0 /\ queue # << >>
  BY Facts, Workforce DEF IInv, Count, ControlType
<1>b. /\ Len(queue) \in 1..Count /\ Tail(queue) \in Seq(Nat)
      /\ Len(Tail(queue)) = Len(queue) - 1
      /\ \A k \in 1..Len(queue) - 1 : Tail(queue)[k] = queue[k + 1]
      /\ Head(queue) = Count - Len(queue) + 1
      /\ result[Head(queue)] = Pending
  BY <1>a DEF IInv, QueueInv, Working
<1>c. Head(queue) \in 1..Count
  BY <1>a, <1>b
<1>f. ~Busy(0)
  BY DEF IInv, ThreadInv
<1>g. \A u \in Threads : Busy(u) => work[u].batch \in 1..Count - Len(queue)
  BY <1>a, <1>b, <1>f DEF IInv, ThreadInv, QueueInv, Working
<1>h. \A u \in Threads : Busy(u) => work[u].batch # Head(queue)
  <2> SUFFICES ASSUME NEW u \in Threads, Busy(u) PROVE work[u].batch # Head(queue)
    OBVIOUS
  <2>1. work[u].batch \in 1..Count - Len(queue)
    BY <1>g
  <2>2. Head(queue) = Count - Len(queue) + 1 /\ Len(queue) \in 1..Count
    BY <1>b
  <2> QED
    BY <1>a, <2>1, <2>2
<1>d. /\ Batches' = Batches /\ Count' = Count /\ Places' = Places
      /\ Working /\ Working'
      /\ \A u \in Threads : Busy(u)' <=> Busy(u) \/ u = t
      /\ work'[t].batch = Head(queue) /\ \A u \in Threads \ {t} : work'[u] = work[u]
      /\ ControlType' /\ ThreadType' /\ ResultInv' /\ FileInv' /\ OutputInv'
  <2>1. \A u \in Threads : Busy(u) => work[u].batch # Head(queue)
    BY <1>h
  <2>2. ~Busy(t)
    BY DEF Busy
  <2> QED
    BY <1>b, <1>c, <2>1, <2>2, CallHolds
<1>e. phase' = phase /\ collected' = collected /\ result' = result /\ queue' = Tail(queue)
  BY DEF main
<1>1. ThreadInv'
  <2>1. \A u \in Threads : Busy(u) => work[u].batch # Head(queue)
    BY <1>h
  <2>2. ~Busy(0)'
    BY <1>a, <1>d, <1>f, Facts DEF IInv
  <2>3. \A u \in Threads : Busy(u)' => /\ work'[u].batch \in 1..Count'
                                      /\ result'[work'[u].batch] = Pending
    BY <1>b, <1>c, <1>d, <1>e DEF IInv, ThreadInv
  <2>4. \A u, w \in Threads :
          Busy(u)' /\ Busy(w)' /\ work'[u].batch = work'[w].batch => u = w
    BY <1>d, <2>1 DEF IInv, ThreadInv
  <2> QED
    BY <1>e, <2>2, <2>3, <2>4 DEF ThreadInv
<1>2. QueueInv'
  <2>1. Len(queue') = Len(queue) - 1 /\ Len(queue) \in 1..Count
    BY <1>b, <1>e
  <2>2. ASSUME NEW k \in 1..Len(queue')
        PROVE  queue'[k] = Count - Len(queue') + k /\ result'[queue'[k]] = Pending
    <3>1. k + 1 \in 1..Len(queue) /\ k \in 1..Len(queue) - 1
      BY <1>a, <2>1
    <3>2. queue[k + 1] = Count - Len(queue) + (k + 1) /\ result[queue[k + 1]] = Pending
      BY <3>1 DEF IInv, QueueInv, Working
    <3>3. queue'[k] = queue[k + 1]
      BY <1>b, <1>e, <3>1
    <3> QED
      BY <1>a, <1>e, <2>1, <3>2, <3>3
  <2>3. ASSUME NEW u \in Threads, Busy(u)' PROVE work'[u].batch =< Count - Len(queue')
    <3>1. CASE u = t
      BY <1>a, <1>b, <1>d, <2>1, <3>1
    <3>2. CASE u # t
      <4>1. work'[u] = work[u] /\ work[u].batch \in 1..Count - Len(queue)
        BY <1>d, <1>g, <2>3, <3>2
      <4> QED
        BY <1>a, <2>1, <4>1
    <3> QED
      BY <3>1, <3>2
  <2>4. Len(queue') =< Count
    BY <1>a, <2>1
  <2> QED
    BY <1>d, <2>2, <2>3, <2>4 DEF QueueInv
<1> QED
  BY <1>d, <1>1, <1>2 DEF IInv

(* What is known of a thread that has a batch. *)
LEMMA BusyFacts ==
  ASSUME IInv, NEW t \in Threads, Busy(t)
  PROVE  /\ phase \in {"sequence", "pool", "shutdown"} /\ Working
         /\ work[t].batch \in 1..Count /\ 1..Count = Places
         /\ result[work[t].batch] = Pending
         /\ result \in [1..Count -> Results]
         /\ variant \in 1..2
         /\ \A u \in Threads \ {t} : Busy(u) => work[u].batch # work[t].batch
<1>1. phase \in {"sequence", "pool", "shutdown"}
  BY DEF IInv, ThreadInv
<1>2. Working
  BY <1>1 DEF Working
<1>3. 1..Count = Places
  BY Facts DEF IInv
<1> QED
  BY <1>1, <1>2, <1>3 DEF IInv, ThreadInv, ThreadType, ControlType

(* A batch without a result is pending. *)
LEMMA PendingStatus == Pending.status = "pending"
BY DEF Pending, Answer

(* No file is a value a file name may have. *)
LEMMA NoFileIsACode == NoFile \in Codes
BY DEF NoFile, Code, Codes

(* No batch has the code that stands for no file. *)
LEMMA CodesDiffer ==
  ASSUME NEW v \in 1..2, NEW i PROVE Code(v, i) # NoFile
BY DEF Code, NoFile

(* Going on with a batch changes neither its place nor anybody else's. *)
LEMMA GoesOn ==
  ASSUME IInv, NEW t \in Threads, Busy(t), Busy(t)', UNCHANGED <<run, main, queue, result>>,
         \A u \in Threads \ {t} : work'[u] = work[u] /\ stage'[u] = stage[u],
         work'[t].batch = work[t].batch
  PROVE  ControlType' /\ ThreadInv' /\ QueueInv' /\ ResultInv' /\ OutputInv'
<1> USE DEF main
<1>0. Batches' = Batches /\ Count' = Count /\ Places' = Places /\ Working' = Working
  BY DEF Batches, Places, Count, Working
<1>a. \A u \in Threads : (Busy(u)' <=> Busy(u)) /\ work'[u].batch = work[u].batch
  BY DEF Busy
<1>1. ControlType'
  BY DEF IInv, ControlType
<1>2. ThreadInv' /\ QueueInv' /\ ResultInv'
  <2>1. ThreadInv'
    BY <1>0, <1>a, Facts DEF IInv, ThreadInv
  <2>2. QueueInv'
    BY <1>0, <1>a DEF IInv, QueueInv
  <2>3. ResultInv'
    BY <1>0 DEF IInv, ResultInv
  <2> QED
    BY <2>1, <2>2, <2>3
<1>3. OutputInv'
  BY DEF IInv, OutputInv
<1> QED
  BY <1>1, <1>2, <1>3

(* A thread writes its batch to a file nobody else has. *)
LEMMA StepWriteFile ==
  ASSUME NEW t \in Threads PROVE IInv /\ WriteFile(t) => IInv'
<1> SUFFICES ASSUME IInv, WriteFile(t) PROVE IInv'
  OBVIOUS
<1>1. PICK n \in Names : /\ temp[n] = NoFile
                         /\ temp' = [temp EXCEPT ![n] = Code(variant, work[t].batch)]
                         /\ work' = [work EXCEPT ![t].name = n]
  BY DEF WriteFile
<1>2. /\ stage[t] = "called" /\ stage' = [stage EXCEPT ![t] = "written"]
      /\ UNCHANGED <<run, main, queue, result>>
      /\ variant' = variant /\ phase' = phase /\ result' = result
  BY DEF WriteFile, main
<1>3. /\ stage \in [Threads -> {"idle", "called", "written", "maple"}]
      /\ work \in [Threads -> [batch : Nat, name : Names \cup {"none"}, read : Codes]]
      /\ temp \in [Names -> Codes]
  BY DEF IInv, ThreadType
<1>4. Busy(t) /\ Busy(t)' /\ ~HasFile(t) /\ HasFile(t)'
  BY <1>2, <1>3 DEF Busy, HasFile
<1>5. /\ \A u \in Threads \ {t} : work'[u] = work[u] /\ stage'[u] = stage[u]
      /\ work'[t].batch = work[t].batch /\ work'[t].name = n /\ stage'[t] = "written"
  BY <1>1, <1>2, <1>3
<1>6. /\ phase \in {"sequence", "pool", "shutdown"} /\ work[t].batch \in Nat
      /\ variant \in 1..2
  BY <1>3, <1>4, BusyFacts
<1>7. ControlType' /\ ThreadInv' /\ QueueInv' /\ ResultInv' /\ OutputInv'
  BY <1>2, <1>4, <1>5, GoesOn
<1>8. ThreadType'
  <2>1. Code(variant, work[t].batch) \in Codes
    BY <1>6 DEF Code, Codes
  <2>2. /\ stage' \in [Threads -> {"idle", "called", "written", "maple"}]
        /\ work' \in [Threads -> [batch : Nat, name : Names \cup {"none"}, read : Codes]]
        /\ temp' \in [Names -> Codes]
    BY <1>1, <1>2, <1>3, <2>1
  <2>3. Batches' = Batches /\ Count' = Count /\ Places' = Places /\ Working' = Working
    BY <1>2 DEF Batches, Places, Count, Working, main
  <2> QED
    BY <1>2, <2>2, <2>3 DEF IInv, ThreadType, main
<1>9. FileInv'
  <2>1. temp'[n] = Code(variant, work[t].batch) /\ \A m \in Names \ {n} : temp'[m] = temp[m]
    BY <1>1, <1>3
  <2>2. \A u \in Threads \ {t} : HasFile(u)' <=> HasFile(u)
    BY <1>5 DEF HasFile
  (* The name is new, so it is no other thread's. *)
  <2>3. \A u \in Threads : HasFile(u) =>
          /\ u # t /\ work[u].name \in Names /\ work[u].name # n
          /\ temp[work[u].name] = Code(variant, work[u].batch)
    <3> SUFFICES ASSUME NEW u \in Threads, HasFile(u)
                 PROVE  /\ u # t /\ work[u].name \in Names /\ work[u].name # n
                        /\ temp[work[u].name] = Code(variant, work[u].batch)
      OBVIOUS
    <3>1. temp[work[u].name] = Code(variant, work[u].batch) /\ work[u].name \in Names
      BY DEF IInv, FileInv, FilesAreOwn, HasFile
    <3> QED
      BY <1>1, <1>4, <1>6, <3>1, CodesDiffer
  <2>4. FilesAreOwn'
    <3> SUFFICES ASSUME NEW u \in Threads
                 PROVE  /\ stage'[u] \in {"written", "maple"} =>
                             temp'[work'[u].name] = Code(variant, work'[u].batch)
                        /\ stage'[u] = "maple" => work'[u].read = Code(variant, work'[u].batch)
      BY <1>2 DEF FilesAreOwn
    <3>1. CASE u = t
      BY <1>5, <2>1, <3>1
    <3>2. CASE u # t
      <4>1. work'[u] = work[u] /\ stage'[u] = stage[u]
        BY <1>5, <3>2
      <4>2. stage[u] \in {"written", "maple"} =>
              work[u].name \in Names \ {n} /\ temp[work[u].name] = Code(variant, work[u].batch)
        BY <2>3 DEF HasFile
      <4>3. stage[u] = "maple" => work[u].read = Code(variant, work[u].batch)
        BY DEF IInv, FileInv, FilesAreOwn
      <4> QED
        BY <2>1, <4>1, <4>2, <4>3
    <3> QED
      BY <3>1, <3>2
  <2>5. /\ \A u \in Threads : HasFile(u)' => work'[u].name \in Names
        /\ \A u, w \in Threads :
             HasFile(u)' /\ HasFile(w)' /\ work'[u].name = work'[w].name => u = w
    BY <1>5, <2>2, <2>3, ZenonT(60) DEF IInv, FileInv
  <2>6. ASSUME NEW m \in Names, temp'[m] # NoFile
        PROVE  \/ \E u \in Threads : HasFile(u)' /\ work'[u].name = m
               \/ \E j \in DOMAIN result :
                    result[j].status = "not started" /\ temp'[m] = Code(variant, j)
    <3>1. CASE m = n
      BY <1>4, <1>5, <3>1
    <3>2. CASE m # n
      <4>1. temp[m] = temp'[m]
        BY <2>1, <3>2
      <4>2. CASE \E u \in Threads : HasFile(u) /\ work[u].name = m
        BY <1>5, <2>2, <2>3, <4>2
      <4>3. CASE ~ \E u \in Threads : HasFile(u) /\ work[u].name = m
        BY <2>6, <4>1, <4>3 DEF IInv, FileInv
      <4> QED
        BY <4>2, <4>3
    <3> QED
      BY <3>1, <3>2
  <2>7. ASSUME NEW j \in DOMAIN result, result[j].status = "not started"
        PROVE  \E m \in Names : /\ temp'[m] = Code(variant, j)
                                /\ \A u \in Threads : HasFile(u)' => work'[u].name # m
    <3>1. PICK m \in Names : /\ temp[m] = Code(variant, j)
                             /\ \A u \in Threads : HasFile(u) => work[u].name # m
      BY <2>7 DEF IInv, FileInv
    <3>2. m # n
      BY <1>1, <1>6, <3>1, CodesDiffer
    <3>3. \A u \in Threads : HasFile(u)' => work'[u].name # m
      BY <1>5, <2>2, <3>1, <3>2
    <3> QED
      BY <2>1, <3>1, <3>2, <3>3
  <2>8. phase' \notin {"check", "variant"}
    BY <1>2, <1>6
  <2> QED
    BY <1>2, <2>4, <2>5, <2>6, <2>7, <2>8, ZenonT(60) DEF FileInv
<1> QED
  BY <1>7, <1>8, <1>9 DEF IInv

(* Maple reads the file of its own thread. *)
LEMMA StepStartMaple ==
  ASSUME NEW t \in Threads PROVE IInv /\ StartMaple(t) => IInv'
<1> SUFFICES ASSUME IInv, StartMaple(t) PROVE IInv'
  OBVIOUS
<1>2. /\ stage[t] = "written" /\ stage' = [stage EXCEPT ![t] = "maple"]
      /\ work' = [work EXCEPT ![t].read = temp[work[t].name]]
      /\ UNCHANGED <<run, main, queue, result>>
      /\ variant' = variant /\ phase' = phase /\ result' = result /\ temp' = temp
  BY DEF StartMaple, main
<1>3. /\ stage \in [Threads -> {"idle", "called", "written", "maple"}]
      /\ work \in [Threads -> [batch : Nat, name : Names \cup {"none"}, read : Codes]]
      /\ temp \in [Names -> Codes]
  BY DEF IInv, ThreadType
<1>4. Busy(t) /\ Busy(t)' /\ HasFile(t) /\ HasFile(t)'
  BY <1>2, <1>3 DEF Busy, HasFile
<1>5. /\ \A u \in Threads \ {t} : work'[u] = work[u] /\ stage'[u] = stage[u]
      /\ work'[t].batch = work[t].batch /\ work'[t].name = work[t].name
      /\ work'[t].read = temp[work[t].name]
  BY <1>2, <1>3
<1>6. /\ phase \in {"sequence", "pool", "shutdown"} /\ variant \in 1..2
      /\ work[t].name \in Names /\ temp[work[t].name] = Code(variant, work[t].batch)
  BY <1>2, <1>4, BusyFacts DEF IInv, FileInv, FilesAreOwn
<1>7. ControlType' /\ ThreadInv' /\ QueueInv' /\ ResultInv' /\ OutputInv'
  BY <1>2, <1>4, <1>5, GoesOn
<1>8. ThreadType'
  <2>2. /\ stage' \in [Threads -> {"idle", "called", "written", "maple"}]
        /\ work' \in [Threads -> [batch : Nat, name : Names \cup {"none"}, read : Codes]]
    BY <1>2, <1>3, <1>6
  <2>3. Batches' = Batches /\ Count' = Count /\ Places' = Places /\ Working' = Working
    BY <1>2 DEF Batches, Places, Count, Working, main
  <2> QED
    BY <1>2, <2>2, <2>3 DEF IInv, ThreadType, main
<1>9. FileInv'
  <2>1. \A u \in Threads : /\ HasFile(u)' <=> HasFile(u)
                           /\ work'[u].name = work[u].name
                           /\ work'[u].batch = work[u].batch
    BY <1>2, <1>3, <1>4, <1>5 DEF HasFile
  <2>2. FilesAreOwn'
    <3> SUFFICES ASSUME NEW u \in Threads
                 PROVE  /\ stage'[u] \in {"written", "maple"} =>
                             temp[work'[u].name] = Code(variant, work'[u].batch)
                        /\ stage'[u] = "maple" => work'[u].read = Code(variant, work'[u].batch)
      BY <1>2 DEF FilesAreOwn
    <3>1. CASE u = t
      BY <1>5, <1>6, <3>1
    <3>2. CASE u # t
      BY <1>5, <3>2, ZenonT(60) DEF IInv, FileInv, FilesAreOwn
    <3> QED
      BY <3>1, <3>2
  <2>3. /\ \A u \in Threads : HasFile(u)' => work'[u].name \in Names
        /\ \A u, w \in Threads :
             HasFile(u)' /\ HasFile(w)' /\ work'[u].name = work'[w].name => u = w
    BY <2>1 DEF IInv, FileInv
  <2>4. ASSUME NEW n \in Names, temp[n] # NoFile
        PROVE  \/ \E u \in Threads : HasFile(u)' /\ work'[u].name = n
               \/ \E j \in DOMAIN result :
                    result[j].status = "not started" /\ temp[n] = Code(variant, j)
    <3>1. CASE \E u \in Threads : HasFile(u) /\ work[u].name = n
      BY <2>1, <3>1
    <3>2. CASE ~ \E u \in Threads : HasFile(u) /\ work[u].name = n
      BY <2>4, <3>2 DEF IInv, FileInv
    <3> QED
      BY <3>1, <3>2
  <2>5. ASSUME NEW j \in DOMAIN result, result[j].status = "not started"
        PROVE  \E n \in Names : /\ temp[n] = Code(variant, j)
                                /\ \A u \in Threads : HasFile(u)' => work'[u].name # n
    <3>1. PICK n \in Names : /\ temp[n] = Code(variant, j)
                             /\ \A u \in Threads : HasFile(u) => work[u].name # n
      BY <2>5 DEF IInv, FileInv
    <3>2. \A u \in Threads : HasFile(u)' => work'[u].name # n
      BY <2>1, <3>1
    <3> QED
      BY <3>1, <3>2
  <2>6. phase' \notin {"check", "variant"}
    BY <1>2, <1>6
  <2> QED
    BY <1>2, <2>2, <2>3, <2>4, <2>5, <2>6, ZenonT(60) DEF FileInv
<1> QED
  BY <1>7, <1>8, <1>9 DEF IInv

(* An answer is the result of the thread's own batch, which nobody waits for
   any more and nobody has collected. *)
LEMMA ReturnHolds ==
  ASSUME IInv, NEW t \in Threads, Busy(t), NEW answer, Return(t, answer),
         UNCHANGED <<run, main, queue>>,
         answer \in Results,
         answer.status = "done" => answer.code = Code(variant, work[t].batch),
         temp' \in [Names -> Codes]
  PROVE  /\ ControlType' /\ ThreadType' /\ ThreadInv' /\ QueueInv'
         /\ ResultInv' /\ OutputInv'
         /\ result'[work[t].batch] = answer /\ DOMAIN result' = DOMAIN result
         /\ \A i \in DOMAIN result \ {work[t].batch} : result'[i] = result[i]
         /\ work[t].batch \in DOMAIN result
         /\ stage'[t] = "idle"
         /\ \A u \in Threads \ {t} : work'[u] = work[u] /\ stage'[u] = stage[u]
<1> USE DEF Return, main
<1> DEFINE b == work[t].batch
<1>0. /\ Batches' = Batches /\ Count' = Count /\ Places' = Places /\ Working' = Working
      /\ Working
  BY BusyFacts DEF Batches, Places, Count, Working
<1>1. /\ stage \in [Threads -> {"idle", "called", "written", "maple"}]
      /\ work \in [Threads -> [batch : Nat, name : Names \cup {"none"}, read : Codes]]
      /\ temp \in [Names -> Codes]
  BY DEF IInv, ThreadType
<1>2. /\ phase \in {"sequence", "pool", "shutdown"} /\ b \in 1..Count
      /\ result \in [1..Count -> Results] /\ result[b] = Pending /\ Places = 1..Count
      /\ \A u \in Threads \ {t} : Busy(u) => work[u].batch # b
  BY BusyFacts
<1>3. /\ result' \in [1..Count -> Results] /\ result'[b] = answer
      /\ \A i \in 1..Count \ {b} : result'[i] = result[i]
  BY <1>2
<1>4. /\ stage'[t] = "idle"
      /\ \A u \in Threads \ {t} : work'[u] = work[u] /\ stage'[u] = stage[u]
  BY <1>1
<1>5. \A u \in Threads : Busy(u)' <=> Busy(u) /\ u # t
  BY <1>4 DEF Busy
<1>6. ControlType'
  BY DEF IInv, ControlType
<1>7. ThreadType'
  <2>1. NoWork \in [batch : Nat, name : Names \cup {"none"}, read : Codes]
    BY DEF NoWork, NoFile, Code, Codes
  <2>2. /\ stage' \in [Threads -> {"idle", "called", "written", "maple"}]
        /\ work' \in [Threads -> [batch : Nat, name : Names \cup {"none"}, read : Codes]]
    BY <1>1, <2>1
  <2> QED
    BY <1>0, <1>2, <1>3, <2>2 DEF ThreadType
<1>8. ThreadInv'
  <2>1. \A u \in Threads : Busy(u)' => /\ work'[u].batch \in 1..Count
                                      /\ result'[work'[u].batch] = Pending
    <3> SUFFICES ASSUME NEW u \in Threads, Busy(u)'
                 PROVE  work'[u].batch \in 1..Count /\ result'[work'[u].batch] = Pending
      OBVIOUS
    <3>1. Busy(u) /\ u # t /\ work'[u] = work[u]
      BY <1>4, <1>5
    <3>2. work[u].batch \in 1..Count /\ result[work[u].batch] = Pending
      BY <3>1, BusyFacts
    <3> QED
      BY <1>2, <1>3, <3>1, <3>2
  <2>2. \A u, w \in Threads :
          Busy(u)' /\ Busy(w)' /\ work'[u].batch = work'[w].batch => u = w
    BY <1>4, <1>5 DEF IInv, ThreadInv
  <2>3. phase = "sequence" =>
          /\ queue = << >>
          /\ \A u \in Threads : Busy(u)' => u = 0 /\ work'[u].batch = collected + 1
    BY <1>4, <1>5 DEF IInv, ThreadInv
  <2>4. phase \in {"pool", "shutdown"} => ~Busy(0)'
    BY <1>5, Facts DEF IInv, ThreadInv
  <2> QED
    BY <1>0, <1>2, <2>1, <2>2, <2>3, <2>4 DEF ThreadInv
<1>9. QueueInv'
  <2>1. ASSUME NEW k \in 1..Len(queue) PROVE result'[queue[k]] = Pending
    <3>1. /\ Count \in Nat /\ queue \in Seq(Nat) /\ Len(queue) \in Nat /\ 0 \in Threads
          /\ Len(queue) =< Count
      BY <1>0, Facts DEF IInv, ControlType, QueueInv
    <3>2. t # 0
      BY <1>2, <2>1, <3>1 DEF IInv, ThreadInv
    <3>3. b =< Count - Len(queue) /\ queue[k] = Count - Len(queue) + k /\ result[queue[k]] = Pending
      BY <1>0, <2>1, <3>2 DEF IInv, QueueInv
    <3>4. queue[k] \in 1..Count \ {b}
      BY <1>2, <2>1, <3>1, <3>3
    <3> QED
      BY <1>3, <3>3, <3>4
  <2>2. \A u \in Threads : Busy(u)' /\ u # 0 => work'[u].batch =< Count - Len(queue)
    BY <1>0, <1>4, <1>5 DEF IInv, QueueInv
  <2> QED
    BY <1>0, <2>1, <2>2 DEF IInv, QueueInv
<1>10. ResultInv'
  <2>1. ASSUME NEW i \in 1..Count, result'[i].status = "done"
        PROVE  result'[i].code = Code(variant, i)
    BY <1>0, <1>2, <1>3, <2>1 DEF IInv, ResultInv
  <2>2. ASSUME NEW i \in 1..collected PROVE result'[i].status = "done"
    <3>1. i \in 1..Count /\ result[i].status = "done"
      BY <1>0, Facts DEF IInv, ResultInv, ControlType
    <3> QED
      BY <1>2, <1>3, <3>1 DEF Pending, Answer
  <2> QED
    BY <1>0, <1>2, <2>1, <2>2 DEF IInv, ResultInv
<1>11. OutputInv'
  BY DEF IInv, OutputInv
<1> QED
  BY <1>2, <1>3, <1>4, <1>6, <1>7, <1>8, <1>9, <1>10, <1>11

(* The file of a batch whose Maple did not start is left, and is accounted
   for. *)
LEMMA StepMapleNotStarted ==
  ASSUME NEW t \in Threads PROVE IInv /\ MapleNotStarted(t) => IInv'
<1> SUFFICES ASSUME IInv, MapleNotStarted(t) PROVE IInv'
  OBVIOUS
<1> DEFINE b == work[t].batch
           answer == Answer("not started", NoFile)
<1>1. /\ stage[t] = "written" /\ Return(t, answer) /\ UNCHANGED <<run, main, queue>>
      /\ temp' = temp /\ variant' = variant /\ phase' = phase
  BY DEF MapleNotStarted, main
<1>2. Busy(t) /\ HasFile(t) /\ temp \in [Names -> Codes]
  BY <1>1 DEF Busy, HasFile, IInv, ThreadType
<1>3. /\ answer \in Results /\ answer.status = "not started"
  BY DEF Answer, Results, Failures, NoFile, Code, Codes
<1>4. /\ ControlType' /\ ThreadType' /\ ThreadInv' /\ QueueInv'
      /\ ResultInv' /\ OutputInv'
      /\ result'[b] = answer /\ DOMAIN result' = DOMAIN result
      /\ \A i \in DOMAIN result \ {b} : result'[i] = result[i]
      /\ b \in DOMAIN result
      /\ stage'[t] = "idle"
      /\ \A u \in Threads \ {t} : work'[u] = work[u] /\ stage'[u] = stage[u]
  <2> HIDE DEF answer
  <2> QED
    BY <1>1, <1>2, <1>3, ReturnHolds
<1>5. /\ work[t].name \in Names /\ temp[work[t].name] = Code(variant, b)
      /\ \A u \in Threads \ {t} : HasFile(u) => work[u].name # work[t].name
      /\ phase \in {"sequence", "pool", "shutdown"}
      /\ result[b] = Pending
  BY <1>1, <1>2, BusyFacts DEF IInv, FileInv, FilesAreOwn
<1>6. FileInv'
  <2>1. \A u \in Threads : HasFile(u)' <=> HasFile(u) /\ u # t
    BY <1>4 DEF HasFile
  <2>2. FilesAreOwn'
    <3>1. FilesAreOwn
      BY DEF IInv, FileInv
    <3>2. ASSUME NEW u \in Threads, stage'[u] \in {"written", "maple"}
          PROVE  stage'[u] = stage[u] /\ work'[u] = work[u]
      BY <1>4, <3>2
    <3> QED
      BY <1>1, <3>1, <3>2 DEF FilesAreOwn
  <2>3. /\ \A u \in Threads : HasFile(u)' => work'[u].name \in Names
        /\ \A u, w \in Threads :
             HasFile(u)' /\ HasFile(w)' /\ work'[u].name = work'[w].name => u = w
    BY <1>4, <2>1 DEF IInv, FileInv
  <2>4. ASSUME NEW n \in Names, temp[n] # NoFile
        PROVE  \/ \E u \in Threads : HasFile(u)' /\ work'[u].name = n
               \/ \E j \in DOMAIN result :
                    result'[j].status = "not started" /\ temp[n] = Code(variant, j)
    <3>1. CASE n = work[t].name
      BY <1>3, <1>4, <1>5, <3>1
    <3>2. CASE n # work[t].name /\ \E u \in Threads : HasFile(u) /\ work[u].name = n
      BY <1>4, <2>1, <3>2
    <3>3. CASE ~ \E u \in Threads : HasFile(u) /\ work[u].name = n
      <4>1. PICK j \in DOMAIN result : result[j].status = "not started" /\ temp[n] = Code(variant, j)
        BY <2>4, <3>3 DEF IInv, FileInv
      <4>2. j # b
        BY <1>5, <4>1, PendingStatus
      <4> QED
        BY <1>4, <4>1, <4>2
    <3> QED
      BY <3>1, <3>2, <3>3
  <2>5. ASSUME NEW j \in DOMAIN result, result'[j].status = "not started"
        PROVE  \E n \in Names : /\ temp[n] = Code(variant, j)
                                /\ \A u \in Threads : HasFile(u)' => work'[u].name # n
    <3>1. CASE j = b
      BY <1>4, <1>5, <2>1, <3>1
    <3>2. CASE j # b
      <4>3. result[j].status = "not started"
        BY <1>4, <2>5, <3>2
      <4>1. PICK n \in Names : /\ temp[n] = Code(variant, j)
                               /\ \A u \in Threads : HasFile(u) => work[u].name # n
        BY <4>3 DEF IInv, FileInv
      <4>2. \A u \in Threads : HasFile(u)' => work'[u].name # n
        BY <1>4, <2>1, <4>1
      <4> QED
        BY <4>1, <4>2
    <3> QED
      BY <3>1, <3>2
  <2>6. phase' \notin {"check", "variant"}
    BY <1>1, <1>5
  <2>7. variant' = variant /\ temp' = temp /\ DOMAIN result' = DOMAIN result
    BY <1>1, <1>4
  <2> QED
    BY <2>2, <2>3, <2>4, <2>5, <2>6, <2>7 DEF FileInv
<1> QED
  BY <1>4, <1>6 DEF IInv

(* When Maple ends its file is removed before its output is looked at. *)
LEMMA StepMapleEnds ==
  ASSUME NEW t \in Threads PROVE IInv /\ MapleEnds(t) => IInv'
<1> SUFFICES ASSUME IInv, MapleEnds(t) PROVE IInv'
  OBVIOUS
<1> DEFINE b == work[t].batch
<1>1. /\ stage[t] = "maple" /\ UNCHANGED <<run, main, queue>>
      /\ temp' = [temp EXCEPT ![work[t].name] = NoFile]
      /\ variant' = variant /\ phase' = phase
  BY DEF MapleEnds, main
<1>2. /\ Busy(t) /\ HasFile(t) /\ temp \in [Names -> Codes]
      /\ work[t].read = Code(variant, b) /\ variant \in 1..2 /\ b \in Nat
  <2>1. Busy(t) /\ HasFile(t) /\ temp \in [Names -> Codes] /\ variant \in 1..2
    BY <1>1 DEF Busy, HasFile, IInv, ThreadType, ControlType
  <2>2. work[t].read = Code(variant, b)
    BY <1>1 DEF IInv, FileInv, FilesAreOwn
  <2>3. b \in Nat
    BY DEF IInv, ThreadType
  <2> QED
    BY <2>1, <2>2, <2>3
<1>3. PICK answer \in Results : /\ Return(t, answer) /\ answer.status # "not started"
                                /\ answer.status = "done" => answer.code = Code(variant, b)
  <2>1. Code(variant, b) \in Codes /\ NoFile \in Codes
    BY <1>2 DEF Code, Codes, NoFile
  <2>2. /\ Answer("done", work[t].read) \in Results /\ Answer("failed", NoFile) \in Results
        /\ Answer("done", work[t].read).status = "done"
        /\ Answer("done", work[t].read).code = Code(variant, b)
        /\ Answer("failed", NoFile).status = "failed"
    BY <1>2, <2>1 DEF Answer, Results, Failures
  <2>3. Return(t, Answer("done", work[t].read)) \/ Return(t, Answer("failed", NoFile))
    BY DEF MapleEnds
  <2> QED
    BY <2>2, <2>3
<1>a. temp' \in [Names -> Codes]
  BY <1>1, <1>2, NoFileIsACode
<1>4. /\ ControlType' /\ ThreadType' /\ ThreadInv' /\ QueueInv'
      /\ ResultInv' /\ OutputInv'
      /\ result'[b] = answer /\ DOMAIN result' = DOMAIN result
      /\ \A i \in DOMAIN result \ {b} : result'[i] = result[i]
      /\ b \in DOMAIN result
      /\ stage'[t] = "idle"
      /\ \A u \in Threads \ {t} : work'[u] = work[u] /\ stage'[u] = stage[u]
  <2>1. answer.status = "done" => answer.code = Code(variant, work[t].batch)
    BY <1>3
  <2>2. Return(t, answer) /\ answer \in Results /\ Busy(t)
    BY <1>2, <1>3
  <2>3. UNCHANGED <<run, main, queue>>
    BY <1>1
  <2> QED
    BY <1>a, <2>1, <2>2, <2>3, ReturnHolds
<1>5. /\ work[t].name \in Names
      /\ \A u \in Threads \ {t} : HasFile(u) => work[u].name # work[t].name
      /\ phase \in {"sequence", "pool", "shutdown"}
      /\ result[b] = Pending
  BY <1>1, <1>2, BusyFacts DEF IInv, FileInv
<1>b. temp'[work[t].name] = NoFile /\ \A n \in Names \ {work[t].name} : temp'[n] = temp[n]
  BY <1>1, <1>2, <1>5
<1>6. FileInv'
  <2>1. \A u \in Threads : HasFile(u)' <=> HasFile(u) /\ u # t
    BY <1>4 DEF HasFile
  <2>3. /\ \A u \in Threads : HasFile(u)' => work'[u].name \in Names
        /\ \A u, w \in Threads :
             HasFile(u)' /\ HasFile(w)' /\ work'[u].name = work'[w].name => u = w
    BY <1>4, <2>1 DEF IInv, FileInv
  <2>2. FilesAreOwn'
    <3> SUFFICES ASSUME NEW u \in Threads, HasFile(u)'
                 PROVE  /\ temp'[work'[u].name] = Code(variant, work'[u].batch)
                        /\ stage'[u] = "maple" => work'[u].read = Code(variant, work'[u].batch)
      BY <1>1 DEF FilesAreOwn, HasFile
    <3>1. HasFile(u) /\ u # t /\ work'[u] = work[u] /\ stage'[u] = stage[u]
      BY <1>4, <2>1
    <3>2. /\ temp[work[u].name] = Code(variant, work[u].batch) /\ work[u].name \in Names
          /\ stage[u] = "maple" => work[u].read = Code(variant, work[u].batch)
      BY <3>1 DEF IInv, FileInv, FilesAreOwn, HasFile
    <3> QED
      BY <1>5, <1>b, <3>1, <3>2
  <2>4. ASSUME NEW n \in Names, temp'[n] # NoFile
        PROVE  \/ \E u \in Threads : HasFile(u)' /\ work'[u].name = n
               \/ \E j \in DOMAIN result :
                    result'[j].status = "not started" /\ temp'[n] = Code(variant, j)
    <3>1. n # work[t].name /\ temp[n] = temp'[n]
      BY <1>b, <2>4
    <3>2. CASE \E u \in Threads : HasFile(u) /\ work[u].name = n
      BY <1>4, <2>1, <3>1, <3>2
    <3>3. CASE ~ \E u \in Threads : HasFile(u) /\ work[u].name = n
      <4>1. PICK j \in DOMAIN result : result[j].status = "not started" /\ temp[n] = Code(variant, j)
        BY <2>4, <3>1, <3>3 DEF IInv, FileInv
      <4>2. j # b
        BY <1>5, <4>1, PendingStatus
      <4> QED
        BY <1>4, <3>1, <4>1, <4>2
    <3> QED
      BY <3>2, <3>3
  <2>5. ASSUME NEW j \in DOMAIN result, result'[j].status = "not started"
        PROVE  \E n \in Names : /\ temp'[n] = Code(variant, j)
                                /\ \A u \in Threads : HasFile(u)' => work'[u].name # n
    <3>1. j # b
      BY <1>3, <1>4, <2>5
    <3>5. result[j].status = "not started"
      BY <1>4, <2>5, <3>1
    <3>2. PICK n \in Names : /\ temp[n] = Code(variant, j)
                             /\ \A u \in Threads : HasFile(u) => work[u].name # n
      BY <3>5 DEF IInv, FileInv
    <3>3. n # work[t].name
      BY <1>2, <3>2
    <3>4. \A u \in Threads : HasFile(u)' => work'[u].name # n
      BY <1>4, <2>1, <3>2
    <3> QED
      BY <1>b, <3>2, <3>3, <3>4
  <2>6. phase' \notin {"check", "variant"}
    BY <1>1, <1>5
  <2>7. variant' = variant /\ DOMAIN result' = DOMAIN result
    BY <1>1, <1>4
  <2> QED
    BY <2>2, <2>3, <2>4, <2>5, <2>6, <2>7 DEF FileInv
<1> QED
  BY <1>4, <1>6 DEF IInv
-----------------------------------------------------------------------------
(* Every step of the generator keeps the invariant. *)
LEMMA StepHolds == IInv /\ [Next]_vars => IInv'
<1> SUFFICES ASSUME IInv, [Next]_vars PROVE IInv'
  OBVIOUS
<1>1. ASSUME NEW t \in Threads, Thread(t) PROVE IInv'
  BY <1>1, StepTakeBatch, StepWriteFile, StepStartMaple, StepMapleNotStarted, StepMapleEnds
     DEF Thread
<1>2. CASE Main
  BY <1>2, StepCheckHeader, StepBeginVariant, StepRunNext, StepCollect, StepAllCollected,
     StepRaise, StepPoolShutDown, StepAssemble, StepWriteOutput
     DEF Main
<1>3. CASE UNCHANGED vars
  <2>0. UNCHANGED <<run, phase, variant, queue, collected, result, stage, work, temp, text,
                    output, exit>>
    BY <1>3 DEF vars, main, threads
  <2>1. Batches' = Batches /\ Count' = Count /\ Places' = Places /\ Working' = Working
    BY <2>0 DEF Batches, Places, Count, Working
  <2>2. ControlType' /\ ThreadType' /\ OutputInv'
    BY <2>0, <2>1 DEF IInv, ControlType, ThreadType, OutputInv
  <2>3. \A t \in Threads : Busy(t)' <=> Busy(t)
    BY <2>0 DEF Busy
  <2>4. ThreadInv'
    BY <2>0, <2>1, <2>3, Facts DEF IInv, ThreadInv
  <2>5. QueueInv' /\ ResultInv'
    BY <2>0, <2>1, <2>3 DEF IInv, QueueInv, ResultInv
  <2>6. FileInv'
    BY <2>0, FilesUntouched DEF IInv
  <2> QED
    BY <2>2, <2>4, <2>5, <2>6 DEF IInv
<1> QED
  BY <1>1, <1>2, <1>3 DEF Next

(* The invariant that the theorems below are read from holds in every state of
   a run. *)
THEOREM Inductive == Spec => []IInv
BY InitHolds, StepHolds, PTL DEF Spec

(* Every variable has its type, for any number of batches and threads. *)
THEOREM GeneratorTypeCorrect == Spec => []TypeOK
<1>1. IInv => TypeOK
  <2> SUFFICES ASSUME IInv PROVE TypeOK
    OBVIOUS
  <2>1. queue \in Seq(Places)
    <3>1. CASE Working
      <4>1. /\ Count \in Nat /\ Places = 1..Count /\ queue \in Seq(Nat) /\ Len(queue) \in Nat
            /\ Len(queue) =< Count
            /\ \A k \in 1..Len(queue) : queue[k] = Count - Len(queue) + k
        BY <3>1, Facts DEF IInv, ControlType, QueueInv
      <4>2. \A k \in 1..Len(queue) : queue[k] \in Places
        BY <4>1
      <4>3. queue \in [1..Len(queue) -> Places]
        BY <4>1, <4>2
      <4> QED
        BY <4>1, <4>3, SeqDef
    <3>2. CASE ~Working
      <4>1. queue = << >>
        BY <3>2 DEF IInv, ThreadInv, Working
      <4> QED
        BY <4>1, EmptySeq
    <3> QED
      BY <3>1, <3>2
  <2>2. \E n \in {0, Len(Batches), Len(run.batches[1])} :
         result \in [1..n -> [status : {"pending", "done"} \cup Failures, code : Codes]]
    BY DEF IInv, ThreadType, Count, Results
  <2> QED
    BY <2>1, <2>2 DEF TypeOK, IInv, ControlType, ThreadType, Phases
<1> QED
  BY <1>1, Inductive, PTL

(* Whatever the threads do at the same time, no thread reads the file of
   another or loses its own. *)
THEOREM NoFileIsShared == Spec => []FilesAreOwn
<1>1. IInv => FilesAreOwn
  BY DEF IInv, FileInv
<1> QED
  BY <1>1, Inductive, PTL

(* A failure of one batch does not leave the threads of the others running. *)
THEOREM ExitIsQuiet == Spec => []NothingRunsOn
<1>1. IInv => NothingRunsOn
  BY DEF IInv, ThreadInv, NothingRunsOn, Busy
<1> QED
  BY <1>1, Inductive, PTL

(* The files left behind are those of the batches whose Maple did not start. *)
THEOREM FilesAccountedFor == Spec => []FilesLeft
<1>1. IInv => FilesLeft
  <2> SUFFICES ASSUME IInv, phase = "exited"
               PROVE  {temp[n] : n \in Names} \ {NoFile} =
                        {Code(variant, i) :
                          i \in {j \in DOMAIN result : result[j].status = "not started"}}
    BY DEF FilesLeft
  <2>1. \A t \in Threads : ~HasFile(t)
    BY DEF IInv, ThreadInv, Busy, HasFile
  <2>2. ASSUME NEW n \in Names, temp[n] # NoFile
        PROVE  \E i \in DOMAIN result :
                 result[i].status = "not started" /\ temp[n] = Code(variant, i)
    BY <2>1, <2>2 DEF IInv, FileInv
  <2>3. ASSUME NEW i \in DOMAIN result, result[i].status = "not started"
        PROVE  \E n \in Names : temp[n] = Code(variant, i)
    BY <2>3 DEF IInv, FileInv
  <2>4. \A i : Code(variant, i) # NoFile
    BY CodesDiffer DEF IInv, ControlType
  <2> DEFINE left == {j \in DOMAIN result : result[j].status = "not started"}
  <2>5. ASSUME NEW c, c \in {temp[n] : n \in Names} \ {NoFile}
        PROVE  c \in {Code(variant, i) : i \in left}
    BY <2>2, <2>5
  <2>6. ASSUME NEW c, c \in {Code(variant, i) : i \in left}
        PROVE  c \in {temp[n] : n \in Names} \ {NoFile}
    <3>1. PICK i \in left : c = Code(variant, i)
      BY <2>6
    <3>2. PICK n \in Names : temp[n] = c
      BY <2>3, <3>1
    <3> QED
      BY <2>4, <3>1, <3>2
  <2> QED
    BY <2>5, <2>6
<1> QED
  BY <1>1, Inductive, PTL

(* The run implements Generation: every step but the last leaves the file
   alone, and the last puts all of the code there or none of it. *)
THEOREM FileIsReplacedAsAWhole == Spec => ReplacesAsAWhole
<1>1. Init => Atomic!Init
  BY DEF Init, Atomic!Init, OldFile, Atomic!OldFile
<1>2. IInv /\ [Next]_vars => [Atomic!Next]_(Atomic!vars)
  <2> SUFFICES ASSUME IInv, [Next]_vars
               PROVE  Atomic!Next \/ UNCHANGED Atomic!vars
    OBVIOUS
  <2> USE DEF Atomic!vars
  <2>1. CASE \E t \in Threads : Thread(t)
    <3>1. UNCHANGED <<run, main>>
      BY <2>1 DEF Thread, TakeBatch, WriteFile, StartMaple, MapleNotStarted, MapleEnds
    <3> QED
      BY <3>1 DEF main
  <2>2. CASE CheckHeader \/ Raise \/ PoolShutDown
    <3>1. /\ run' = run /\ output' = output /\ exit = "running"
          /\ exit' = exit \/ exit' = "1"
      BY <2>2 DEF CheckHeader, Raise, PoolShutDown, Exit, IInv, OutputInv, ControlType
    <3> QED
      BY <3>1 DEF Atomic!Next, Atomic!Fail
  <2>3. CASE BeginVariant \/ RunNext \/ Collect \/ AllCollected \/ Assemble
    <3>1. run' = run /\ output' = output /\ exit' = exit
      BY <2>3 DEF BeginVariant, RunNext, Collect, AllCollected, Assemble, main
    <3> QED
      BY <3>1
  <2>4. CASE WriteOutput
    <3>1. /\ run' = run /\ output' = Complete(run) /\ exit = "running" /\ exit' = "0"
      BY <2>4 DEF WriteOutput, Exit, IInv, OutputInv, ControlType
    <3>2. Complete(run) = Atomic!Complete(run)
      BY DEF Complete, Atomic!Complete, Functions, Atomic!Functions, Body, Atomic!Body,
             OwnCodes, Atomic!OwnCodes, Code, Atomic!Code
    <3> QED
      BY <3>1, <3>2 DEF Atomic!Next, Atomic!Succeed
  <2>5. CASE UNCHANGED vars
    BY <2>5 DEF vars, main
  <2> QED
    BY <2>1, <2>2, <2>3, <2>4, <2>5 DEF Next, Main
<1> QED
  BY <1>1, <1>2, Inductive, PTL DEF Spec, ReplacesAsAWhole, Atomic!Spec
=============================================================================
