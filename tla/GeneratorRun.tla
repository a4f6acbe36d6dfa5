----------------------------- MODULE GeneratorRun -----------------------------
(***************************************************************************)
(* A run of the code generator: the checks of the header, then for each    *)
(* variant the batches, each of which Maple turns into C code, and in the  *)
(* end the file that is written. The batches of a variant are run by the   *)
(* main thread one after the other or, when more than one worker is asked  *)
(* for, by the threads of a pool. What Maple answers is a free choice.     *)
(***************************************************************************)
EXTENDS GeneratedFile

CONSTANTS Runs,
          Cpus,     \* what os.cpu_count says
          Names     \* the names of temporary files

ASSUME RunAssumption == Cpus \in Nat \ {0} /\ Runs \subseteq RunType

VARIABLES run, phase, variant,
          queue,      \* the batches no thread of the pool has taken
          collected,  \* how many results the main thread has taken
          result,     \* of every batch of the variant
          stage,      \* where in maple_run a thread is; the main thread is 0
          work,       \* the batch it is there for, the name of its file and
                      \* what Maple read from the file
          temp,       \* the temporary files
          text,       \* the functions put together so far
          output, exit

main == <<phase, variant, collected, text, output, exit>>
threads == <<stage, work>>
vars == <<run, main, queue, result, threads, temp>>

Batches == run.batches[variant]
Places == 1..Len(Batches)
Threads == 0..Cpus

NoFile == Code(0, 0)    \* the code of no batch
NoWork == [batch |-> 0, name |-> "none", read |-> NoFile]

Answer(status, code) == [status |-> status, code |-> code]
Pending == Answer("pending", NoFile)
Failures == {"failed", "not started"}
Raises(i) == result[i].status \in Failures

Smaller(a, b) == IF a < b THEN a ELSE b
Larger(a, b) == IF a > b THEN a ELSE b

(* Feature sets are generated by one worker. *)
Workers ==
  LET requested == IF run.functype = "if_mgga" THEN 1 ELSE Cpus
  IN  Smaller(Len(Batches), Larger(1, requested))

Pooled == Len(Batches) > 1 /\ Workers > 1
-----------------------------------------------------------------------------
Init ==
  /\ run \in Runs
  /\ phase = "check"
  /\ variant = 1
  /\ queue = << >>
  /\ collected = 0
  /\ result = << >>
  /\ stage = [t \in Threads |-> "idle"]
  /\ work = [t \in Threads |-> NoWork]
  /\ temp = [n \in Names |-> NoFile]
  /\ text = << >>
  /\ output = OldFile
  /\ exit = "running"

Exit(code) == phase' = "exited" /\ exit' = code

CheckHeader ==
  /\ phase = "check"
  /\ IF Accepts(run) THEN phase' = "variant" /\ UNCHANGED exit ELSE Exit("1")
  /\ UNCHANGED <<run, variant, collected, text, output, queue, result, threads, temp>>

(* Faulty: the pool is not given the last batch. *)
BeginVariantShort ==
  /\ phase = "variant"
  /\ phase' = IF Pooled THEN "pool" ELSE "sequence"
  /\ queue' = IF Pooled THEN [i \in 1..Len(Batches)-1 |-> i] ELSE << >>
  /\ result' = [i \in Places |-> Pending]
  /\ collected' = 0
  /\ UNCHANGED <<run, variant, text, output, exit, threads, temp>>

(* The pool is given all the batches of a variant at once. *)
BeginVariant ==
  /\ phase = "variant"
  /\ phase' = IF Pooled THEN "pool" ELSE "sequence"
  /\ queue' = IF Pooled THEN [i \in Places |-> i] ELSE << >>
  /\ result' = [i \in Places |-> Pending]
  /\ collected' = 0
  /\ UNCHANGED <<run, variant, text, output, exit, threads, temp>>
-----------------------------------------------------------------------------
Call(t, i) ==
  /\ stage' = [stage EXCEPT ![t] = "called"]
  /\ work' = [work EXCEPT ![t] = [NoWork EXCEPT !.batch = i]]

Return(t, answer) ==
  /\ result' = [result EXCEPT ![work[t].batch] = answer]
  /\ stage' = [stage EXCEPT ![t] = "idle"]
  /\ work' = [work EXCEPT ![t] = NoWork]

(* The main thread runs the next batch itself. *)
RunNext ==
  /\ phase = "sequence"
  /\ stage[0] = "idle"
  /\ collected < Len(Batches)
  /\ result[collected + 1] = Pending
  /\ Call(0, collected + 1)
  /\ UNCHANGED <<run, main, queue, result, temp>>

TakeBatch(t) ==
  /\ t \in 1..Workers
  /\ phase \in {"pool", "shutdown"}
  /\ stage[t] = "idle"
  /\ queue # << >>
  /\ Call(t, Head(queue))
  /\ queue' = Tail(queue)
  /\ UNCHANGED <<run, main, result, temp>>

(* Faulty: every call uses the same name. *)
WriteFileOfOneName(t) ==
  /\ stage[t] = "called"
  /\ LET n == CHOOSE m \in Names : TRUE
     IN  /\ temp' = [temp EXCEPT ![n] = Code(variant, work[t].batch)]
         /\ work' = [work EXCEPT ![t].name = n]
  /\ stage' = [stage EXCEPT ![t] = "written"]
  /\ UNCHANGED <<run, main, queue, result>>

(* The file gets a name that no file has. *)
WriteFile(t) ==
  /\ stage[t] = "called"
  /\ \E n \in Names :
       /\ temp[n] = NoFile
       /\ temp' = [temp EXCEPT ![n] = Code(variant, work[t].batch)]
       /\ work' = [work EXCEPT ![t].name = n]
  /\ stage' = [stage EXCEPT ![t] = "written"]
  /\ UNCHANGED <<run, main, queue, result>>

StartMaple(t) ==
  /\ stage[t] = "written"
  /\ work' = [work EXCEPT ![t].read = temp[work[t].name]]
  /\ stage' = [stage EXCEPT ![t] = "maple"]
  /\ UNCHANGED <<run, main, queue, result, temp>>

(* An exception is raised while the file is there. *)
MapleNotStarted(t) ==
  /\ stage[t] = "written"
  /\ Return(t, Answer("not started", NoFile))
  /\ UNCHANGED <<run, main, queue, temp>>

(* Faulty: a failure returns before the file is removed. *)
MapleEndsKeepingFile(t) ==
  /\ stage[t] = "maple"
  /\ \/ /\ Return(t, Answer("done", work[t].read))
        /\ temp' = [temp EXCEPT ![work[t].name] = NoFile]
     \/ /\ Return(t, Answer("failed", NoFile))
        /\ UNCHANGED temp
  /\ UNCHANGED <<run, main, queue>>

(* The file is removed before the output is looked at: an error of Maple and
   an output without assignments both end in an exit. *)
MapleEnds(t) ==
  /\ stage[t] = "maple"
  /\ \/ Return(t, Answer("done", work[t].read))
     \/ Return(t, Answer("failed", NoFile))
  /\ temp' = [temp EXCEPT ![work[t].name] = NoFile]
  /\ UNCHANGED <<run, main, queue>>
-----------------------------------------------------------------------------
(* Faulty: of the results that are there any is taken for the next. *)
CollectAny ==
  /\ phase \in {"sequence", "pool"}
  /\ collected < Len(Batches)
  /\ result[collected + 1].status = "done"
  /\ \E i \in collected+1..Len(Batches) :
       /\ result[i].status = "done"
       /\ result' = [result EXCEPT ![collected + 1] = result[i],
                                   ![i] = result[collected + 1]]
  /\ collected' = collected + 1
  /\ UNCHANGED <<run, phase, variant, text, output, exit, queue, threads, temp>>

(* The results are taken in the order of the batches. *)
Collect ==
  /\ phase \in {"sequence", "pool"}
  /\ collected < Len(Batches)
  /\ result[collected + 1].status = "done"
  /\ collected' = collected + 1
  /\ UNCHANGED <<run, phase, variant, text, output, exit, queue, result, threads, temp>>

AllCollected ==
  /\ phase \in {"sequence", "pool"}
  /\ collected = Len(Batches)
  /\ phase' = IF phase = "pool" THEN "shutdown" ELSE "assemble"
  /\ UNCHANGED <<run, variant, collected, text, output, exit, queue, result, threads, temp>>

(* Faulty: a failure does not wait for the pool. *)
RaiseAtOnce ==
  /\ phase \in {"sequence", "pool"}
  /\ collected < Len(Batches)
  /\ Raises(collected + 1)
  /\ Exit("1")
  /\ UNCHANGED <<run, variant, collected, text, output, queue, result, threads, temp>>

(* A result that is a failure is raised again by the main thread, in a pool
   within the statement that waits for the pool. *)
Raise ==
  /\ phase \in {"sequence", "pool"}
  /\ collected < Len(Batches)
  /\ Raises(collected + 1)
  /\ IF phase = "pool" THEN phase' = "shutdown" /\ UNCHANGED exit ELSE Exit("1")
  /\ UNCHANGED <<run, variant, collected, text, output, queue, result, threads, temp>>

(* The batches still in the queue are run all the same. *)
PoolShutDown ==
  /\ phase = "shutdown"
  /\ queue = << >>
  /\ \A t \in Threads : stage[t] = "idle"
  /\ IF collected < Len(Batches) THEN Exit("1")
     ELSE phase' = "assemble" /\ UNCHANGED exit
  /\ UNCHANGED <<run, variant, collected, text, output, queue, result, threads, temp>>

(* Faulty: the loop over the variants goes on. *)
AssembleOnAndOn ==
  /\ phase = "assemble"
  /\ text' = text \o Functions(run, variant, [i \in Places |-> result[i].code])
  /\ variant' = variant + 1
  /\ phase' = "variant"
  /\ UNCHANGED <<run, collected, output, exit, queue, result, threads, temp>>

Assemble ==
  /\ phase = "assemble"
  /\ text' = text \o Functions(run, variant, [i \in Places |-> result[i].code])
  /\ IF variant = 1 THEN variant' = 2 /\ phase' = "variant"
     ELSE phase' = "write" /\ UNCHANGED variant
  /\ UNCHANGED <<run, collected, output, exit, queue, result, threads, temp>>

WriteOutput ==
  /\ phase = "write"
  /\ output' = text
  /\ Exit("0")
  /\ UNCHANGED <<run, variant, collected, text, queue, result, threads, temp>>
-----------------------------------------------------------------------------
Main ==
  \/ CheckHeader \/ BeginVariant \/ RunNext
  \/ Collect \/ AllCollected \/ Raise \/ PoolShutDown
  \/ Assemble \/ WriteOutput

Thread(t) ==
  \/ TakeBatch(t) \/ WriteFile(t)
  \/ StartMaple(t) \/ MapleNotStarted(t) \/ MapleEnds(t)

Next == Main \/ \E t \in Threads : Thread(t)

(* Every thread is scheduled, and Maple comes to an end. *)
Spec ==
  /\ Init /\ [][Next]_vars
  /\ WF_vars(Main) /\ \A t \in Threads : WF_vars(Thread(t))
-----------------------------------------------------------------------------
Codes == (0..2) \X Nat

TypeOK ==
  /\ run \in Runs
  /\ phase \in {"check", "variant", "sequence", "pool", "shutdown", "assemble",
                "write", "exited"}
  /\ variant \in 1..2
  /\ queue \in Seq(Places)
  /\ collected \in Nat
  /\ \E n \in {0, Len(Batches), Len(run.batches[1])} :
       result \in [1..n -> [status : {"pending", "done"} \cup Failures,
                            code : Codes]]
  /\ stage \in [Threads -> {"idle", "called", "written", "maple"}]
  /\ work \in [Threads -> [batch : Nat, name : Names \cup {"none"},
                           read : Codes]]
  /\ temp \in [Names -> Codes]
  /\ exit \in {"running", "0", "1"}

(* Whatever the threads do at the same time, each finds in its file the batch
   it was called for, from the time it wrote the file until Maple has read it
   and the file is removed. *)
FilesAreOwn ==
  \A t \in Threads :
    /\ stage[t] \in {"written", "maple"} =>
         temp[work[t].name] = Code(variant, work[t].batch)
    /\ stage[t] = "maple" => work[t].read = Code(variant, work[t].batch)

(* Once the generator has exited no thread is in the middle of a batch and no
   batch is waiting for one, not even when it exits for a failure of one of
   them. *)
NothingRunsOn ==
  phase = "exited" => /\ queue = << >>
                      /\ \A t \in Threads : stage[t] = "idle"

(* The only files left behind are those of the batches for which Maple could
   not be started; those of the other failures are removed. *)
FilesLeft ==
  phase = "exited" =>
    {temp[n] : n \in Names} \ {NoFile} =
      {Code(variant, i) : i \in {j \in DOMAIN result : result[j].status = "not started"}}

(* A run comes to its end, whichever batches fail. *)
Exits == <>(phase = "exited")

(* The run keeps the promise of Generation: the file is replaced as a whole or
   not at all, and what replaces it has the code of every batch where it
   belongs, in whatever order the threads come to an end. *)
Atomic == INSTANCE Generation
ReplacesAsAWhole == Atomic!Spec
=============================================================================
