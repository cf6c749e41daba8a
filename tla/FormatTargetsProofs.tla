------------------------ MODULE FormatTargetsProofs ------------------------
(***************************************************************************)
(* Proofs about the worker pool of format_targets, for any number of       *)
(* targets and threads.  FormattedOnce is not inductive: that no slot is   *)
(* missing needs the converse, that the outcome of a claimed target is     *)
(* never lost while the main thread may still collect it (Accounted), and  *)
(* what the threads know about the counter when they end.                  *)
(***************************************************************************)
EXTENDS FormatTargets, TLAPS

\* The main thread has not given up on the outcomes.
Collecting == main \in {"spawn", "receive", "join"}

\* A claimed target is somewhere, unless the thread that claimed it panicked.
Accounted ==
    Collecting => \A i \in Indices : i <= next =>
        \/ Held(i) \/ Sent(i) \/ slots[i] # None
        \/ \E w \in Workers : thread[w] = "panicked" /\ claim[w] = i

\* A thread is unborn until it is started; one that ended while outcomes were
\* collected found no target left; all are started before receiving begins
\* and none runs after it ends.
Threads ==
    /\ \A w \in Workers : thread[w] = "unborn" <=> w > spawned
    /\ Collecting => \A w \in Workers : thread[w] = "ended" => next = N
    /\ main \in {"receive", "join"} => spawned = WorkerCount
    /\ main = "join" => Running = {} /\ channel = {}
    /\ \A w \in Workers : thread[w] \in {"format", "send", "panicked"} => claim[w] \in 1..next

\* Only a worker that lived through the formatting sends an outcome; who
\* panicked did so on a target that panics.
Honest ==
    /\ \A w \in Workers : thread[w] = "send" => outcome[claim[w]] # "panics"
    /\ \A w \in Workers : thread[w] = "panicked" => outcome[claim[w]] = "panics"
    /\ \A m \in channel : m.outcome # "panics"
    /\ \A i \in Indices : slots[i] # "panics"
    /\ main = "unwind" => SpawnFails
    /\ main # "done" => answer = None

IInv == TypeOK /\ FormattedOnce /\ Accounted /\ Threads /\ Honest

USE FormatTargetsAssumption

LEMMA WorkerCountFact == WorkerCount \in Nat \ {0}
  BY DEF WorkerCount

LEMMA NoneFresh == None \notin Outcomes /\ None # Batch!Ok /\ None # Batch!Panic
  BY DEF Outcomes, Batch!Ok, Batch!Panic

LEMMA InitHolds == Init => IInv
  <1> SUFFICES ASSUME Init PROVE IInv
    OBVIOUS
  <1> USE WorkerCountFact DEF Init
  <1>1. TypeOK
    BY DEF TypeOK, Workers
  <1>2. FormattedOnce
    BY DEF FormattedOnce, Busy, Held, Sent
  <1>3. Accounted
    BY DEF Accounted, Collecting, Indices
  <1>4. Threads
    BY DEF Threads, Workers
  <1>5. Honest
    BY NoneFresh DEF Honest, Outcomes
  <1> QED
    BY <1>1, <1>2, <1>3, <1>4, <1>5 DEF IInv

LEMMA ClaimStep ==
  ASSUME NEW w \in Workers, IInv, Claim(w) PROVE IInv'
  <1> USE WorkerCountFact, NoneFresh DEF IInv, Claim
  <1>1. TypeOK'
    BY DEF TypeOK, Workers, Indices, Outcomes
  <1>2. FormattedOnce'
    BY DEF FormattedOnce, Busy, Held, Sent, TypeOK, Threads, Workers, Indices
  <1>3. Accounted'
    <2> SUFFICES ASSUME Collecting, NEW i \in Indices, i <= next + 1, slots[i] = None,
                        ~Sent(i), ~Held(i)'
                 PROVE  \E v \in Workers : thread'[v] = "panicked" /\ claim'[v] = i
      BY DEF Accounted, Collecting, Sent
    <2>1. i # next + 1
      BY DEF Held, Busy, TypeOK
    <2>2. i <= next /\ ~Held(i)
      BY <2>1 DEF Held, Busy, TypeOK, Indices
    <2>3. PICK v \in Workers : thread[v] = "panicked" /\ claim[v] = i
      BY <2>2 DEF Accounted
    <2>4. v # w /\ thread'[v] = "panicked" /\ claim'[v] = i
      BY <2>3 DEF TypeOK
    <2> QED
      BY <2>4
  <1>4. Threads'
    BY DEF Threads, Collecting, Running, TypeOK, Workers
  <1>5. Honest'
    BY DEF Honest, TypeOK, FormattedOnce, Workers, Outcomes
  <1> QED
    BY <1>1, <1>2, <1>3, <1>4, <1>5

LEMMA RetireStep ==
  ASSUME NEW w \in Workers, IInv, Retire(w) PROVE IInv'
  <1> USE WorkerCountFact, NoneFresh DEF IInv, Retire
  <1>1. TypeOK'
    BY DEF TypeOK, Workers, Indices, Outcomes
  <1>2. FormattedOnce'
    BY DEF FormattedOnce, Busy, Held, Sent, TypeOK, Threads, Workers, Indices
  <1>3. Accounted'
    BY DEF Accounted, Collecting, Busy, Held, Sent, TypeOK, Threads, Workers, Indices
  <1>4. Threads'
    BY DEF Threads, Collecting, Running, TypeOK, Workers
  <1>5. Honest'
    BY DEF Honest, TypeOK, FormattedOnce, Workers, Outcomes
  <1> QED
    BY <1>1, <1>2, <1>3, <1>4, <1>5

LEMMA FormatOneStep ==
  ASSUME NEW w \in Workers, IInv, FormatOne(w) PROVE IInv'
  <1> USE WorkerCountFact, NoneFresh DEF IInv, FormatOne
  <1>1. TypeOK'
    BY DEF TypeOK, Workers, Indices, Outcomes
  <1>2. FormattedOnce'
    BY DEF FormattedOnce, Busy, Held, Sent, TypeOK, Threads, Workers, Indices
  <1>3. Accounted'
    BY DEF Accounted, Collecting, Busy, Held, Sent, TypeOK, Threads, Workers, Indices
  <1>4. Threads'
    BY DEF Threads, Collecting, Running, TypeOK, Workers
  <1>5. Honest'
    BY DEF Honest, TypeOK, FormattedOnce, Workers, Outcomes
  <1> QED
    BY <1>1, <1>2, <1>3, <1>4, <1>5

LEMMA SendStep ==
  ASSUME NEW w \in Workers, IInv, Send(w) PROVE IInv'
  <1> USE WorkerCountFact, NoneFresh DEF IInv, Send, ReceiverAlive
  <1>1. TypeOK'
    <2>1. [index |-> claim[w], outcome |-> outcome[claim[w]]]
             \in [index : Indices, outcome : Outcomes]
      BY DEF TypeOK, Threads, Indices
    <2> QED
      BY <2>1 DEF TypeOK, Workers
  <1>2. FormattedOnce'
    BY DEF FormattedOnce, Busy, Held, Sent, TypeOK, Threads, Workers, Indices
  <1>3. Accounted'
    <2> SUFFICES ASSUME Collecting, NEW i \in Indices, i <= next, slots[i] = None,
                        ~Sent(i)', ~Held(i)'
                 PROVE  \E v \in Workers : thread'[v] = "panicked" /\ claim'[v] = i
      BY DEF Accounted, Collecting
    <2>1. ReceiverAlive
      <3>1. w \in Running
        BY DEF Running
      <3> QED
        BY <3>1 DEF Collecting, Threads
    <2>2. claim[w] # i
      <3>1. [index |-> claim[w], outcome |-> outcome[claim[w]]] \in channel'
        BY <2>1
      <3> QED
        BY <3>1 DEF Sent
    <2>3. ~Sent(i) /\ ~Held(i)
      BY <2>1, <2>2 DEF Sent, Held, Busy, TypeOK
    <2>4. PICK v \in Workers : thread[v] = "panicked" /\ claim[v] = i
      BY <2>3 DEF Accounted
    <2>5. v # w /\ thread'[v] = "panicked" /\ claim'[v] = i
      BY <2>4 DEF TypeOK
    <2> QED
      BY <2>5
  <1>4. Threads'
    BY DEF Threads, Collecting, Running, TypeOK, Workers
  <1>5. Honest'
    BY DEF Honest, TypeOK, FormattedOnce, Workers, Outcomes
  <1> QED
    BY <1>1, <1>2, <1>3, <1>4, <1>5

LEMMA SpawnStep ==
  ASSUME IInv, Spawn PROVE IInv'
  <1> USE WorkerCountFact, NoneFresh DEF IInv, Spawn
  <1>1. TypeOK'
    BY DEF TypeOK, Workers, Indices, Outcomes
  <1>2. FormattedOnce'
    BY DEF FormattedOnce, Busy, Held, Sent, TypeOK, Threads, Workers, Indices
  <1>3. Accounted'
    <2> SUFFICES ASSUME NEW i \in Indices, i <= next, slots[i] = None, ~Sent(i), ~Held(i)'
                 PROVE  \E v \in Workers : thread'[v] = "panicked" /\ claim'[v] = i
      BY DEF Accounted, Collecting, Sent
    <2> DEFINE new == spawned + 1
    <2>1. new \in Workers /\ thread[new] = "unborn" /\ thread' = [thread EXCEPT ![new] = "claim"]
      BY DEF TypeOK, Threads, Workers
    <2> HIDE DEF new
    <2>2. ~Held(i)
      BY <2>1 DEF Held, Busy, TypeOK
    <2>3. PICK v \in Workers : thread[v] = "panicked" /\ claim[v] = i
      BY <2>2 DEF Accounted, Collecting
    <2>4. v # new /\ thread'[v] = "panicked" /\ claim'[v] = i
      BY <2>1, <2>3 DEF TypeOK
    <2> QED
      BY <2>4
  <1>4. Threads'
    BY DEF Threads, Collecting, Running, TypeOK, Workers
  <1>5. Honest'
    BY DEF Honest, TypeOK, FormattedOnce, Workers, Outcomes
  <1> QED
    BY <1>1, <1>2, <1>3, <1>4, <1>5

LEMMA SpawnPanicsStep ==
  ASSUME IInv, SpawnPanics PROVE IInv'
  <1> USE WorkerCountFact, NoneFresh DEF IInv, SpawnPanics
  <1>1. TypeOK'
    BY DEF TypeOK, Workers, Indices, Outcomes
  <1>2. FormattedOnce'
    BY DEF FormattedOnce, Busy, Held, Sent, TypeOK, Threads, Workers, Indices
  <1>3. Accounted'
    BY DEF Accounted, Collecting, Busy, Held, Sent, TypeOK, Threads, Workers, Indices
  <1>4. Threads'
    BY DEF Threads, Collecting, Running, TypeOK, Workers
  <1>5. Honest'
    BY DEF Honest, TypeOK, FormattedOnce, Workers, Outcomes
  <1> QED
    BY <1>1, <1>2, <1>3, <1>4, <1>5

LEMMA DropSenderStep ==
  ASSUME IInv, DropSender PROVE IInv'
  <1> USE WorkerCountFact, NoneFresh DEF IInv, DropSender
  <1>1. TypeOK'
    BY DEF TypeOK, Workers, Indices, Outcomes
  <1>2. FormattedOnce'
    BY DEF FormattedOnce, Busy, Held, Sent, TypeOK, Threads, Workers, Indices
  <1>3. Accounted'
    BY DEF Accounted, Collecting, Busy, Held, Sent, TypeOK, Threads, Workers, Indices
  <1>4. Threads'
    BY DEF Threads, Collecting, Running, TypeOK, Workers
  <1>5. Honest'
    BY DEF Honest, TypeOK, FormattedOnce, Workers, Outcomes
  <1> QED
    BY <1>1, <1>2, <1>3, <1>4, <1>5

LEMMA ReceiveStep ==
  ASSUME IInv, Receive PROVE IInv'
  <1> USE WorkerCountFact, NoneFresh DEF IInv, Receive
  <1>1. TypeOK'
    BY DEF TypeOK, Workers, Indices, Outcomes
  <1>2. FormattedOnce'
    BY DEF FormattedOnce, Busy, Held, Sent, TypeOK, Threads, Workers, Indices
  <1>3. Accounted'
    <2>1. PICK m \in channel : /\ slots' = [slots EXCEPT ![m.index] = m.outcome]
                               /\ channel' = channel \ {m}
      OBVIOUS
    <2>2. m.index \in Indices /\ m.outcome # None
      BY <2>1 DEF TypeOK
    <2>3. slots'[m.index] # None
      BY <2>1, <2>2 DEF TypeOK
    <2>4. \A i \in Indices : slots[i] # None => slots'[i] # None
      BY <2>1, <2>2 DEF TypeOK
    <2>5. ASSUME NEW i \in Indices, Sent(i) PROVE Sent(i)' \/ slots'[i] # None
      BY <2>1, <2>3, <2>5 DEF Sent
    <2>6. ASSUME NEW i \in Indices, Held(i) PROVE Held(i)'
      BY <2>6 DEF Held, Busy
    <2> QED
      BY <2>4, <2>5, <2>6 DEF Accounted, Collecting
  <1>4. Threads'
    BY DEF Threads, Collecting, Running, TypeOK, Workers
  <1>5. Honest'
    BY DEF Honest, TypeOK, FormattedOnce, Workers, Outcomes
  <1> QED
    BY <1>1, <1>2, <1>3, <1>4, <1>5

LEMMA EndReceiveStep ==
  ASSUME IInv, EndReceive PROVE IInv'
  <1> USE WorkerCountFact, NoneFresh DEF IInv, EndReceive
  <1>1. TypeOK'
    BY DEF TypeOK, Workers, Indices, Outcomes
  <1>2. FormattedOnce'
    BY DEF FormattedOnce, Busy, Held, Sent, TypeOK, Threads, Workers, Indices
  <1>3. Accounted'
    BY DEF Accounted, Collecting, Busy, Held, Sent, TypeOK, Threads, Workers, Indices
  <1>4. Threads'
    BY DEF Threads, Collecting, Running, TypeOK, Workers
  <1>5. Honest'
    BY DEF Honest, TypeOK, FormattedOnce, Workers, Outcomes
  <1> QED
    BY <1>1, <1>2, <1>3, <1>4, <1>5

LEMMA ScopePanicsStep ==
  ASSUME IInv, ScopePanics PROVE IInv'
  <1> USE WorkerCountFact, NoneFresh DEF IInv, ScopePanics
  <1>1. TypeOK'
    BY DEF TypeOK, Workers, Indices, Outcomes
  <1>2. FormattedOnce'
    BY DEF FormattedOnce, Busy, Held, Sent, TypeOK, Threads, Workers, Indices
  <1>3. Accounted'
    BY DEF Accounted, Collecting, Busy, Held, Sent, TypeOK, Threads, Workers, Indices
  <1>4. Threads'
    BY DEF Threads, Collecting, Running, TypeOK, Workers
  <1>5. Honest'
    BY DEF Honest, TypeOK, FormattedOnce, Workers, Outcomes
  <1> QED
    BY <1>1, <1>2, <1>3, <1>4, <1>5

LEMMA CollectStep ==
  ASSUME IInv, Collect PROVE IInv'
  <1> USE WorkerCountFact, NoneFresh DEF IInv, Collect
  <1>1. TypeOK'
    BY DEF TypeOK, Workers, Indices, Outcomes
  <1>2. FormattedOnce'
    BY DEF FormattedOnce, Busy, Held, Sent, TypeOK, Threads, Workers, Indices
  <1>3. Accounted'
    BY DEF Accounted, Collecting, Busy, Held, Sent, TypeOK, Threads, Workers, Indices
  <1>4. Threads'
    BY DEF Threads, Collecting, Running, TypeOK, Workers
  <1>5. Honest'
    BY DEF Honest, TypeOK, FormattedOnce, Workers, Outcomes
  <1> QED
    BY <1>1, <1>2, <1>3, <1>4, <1>5

LEMMA NextHolds == IInv /\ [Next]_vars => IInv'
  <1> SUFFICES ASSUME IInv, [Next]_vars PROVE IInv'
    OBVIOUS
  <1>1. ASSUME NEW w \in Workers, Worker(w) PROVE IInv'
    BY <1>1, ClaimStep, RetireStep, FormatOneStep, SendStep DEF Worker
  <1>2. CASE Main
    BY <1>2, SpawnStep, SpawnPanicsStep, DropSenderStep, ReceiveStep, EndReceiveStep,
       ScopePanicsStep, CollectStep DEF Main
  <1>3. CASE UNCHANGED vars
    BY <1>3 DEF vars, IInv, TypeOK, FormattedOnce, Accounted, Threads, Honest, Busy,
                Held, Sent, Collecting, Running
  <1> QED
    BY <1>1, <1>2, <1>3 DEF Next

LEMMA Inductive == Spec => []IInv
  BY InitHolds, NextHolds, PTL DEF Spec

\* The state of the pool has its type: the counter never passes the number of
\* targets while a worker holds a target, and every message names a target.
THEOREM TypeCorrect == Spec => []TypeOK
  <1>1. IInv => TypeOK
    BY DEF IInv
  <1> QED
    BY <1>1, Inductive, PTL

\* Whatever the number of threads and however they interleave, no target is
\* formatted twice and no slot receives the outcome of another target.
THEOREM OnceCorrect == Spec => []FormattedOnce
  <1>1. IInv => FormattedOnce
    BY DEF IInv
  <1> QED
    BY <1>1, Inductive, PTL

LEMMA InvFillsSlots == IInv => SlotsFilled
  <1> SUFFICES ASSUME IInv, main = "join", Panicked = {}, NEW i \in Indices
               PROVE  slots[i] # None
    BY DEF SlotsFilled
  <1>1. \A w \in Workers : thread[w] = "ended"
    BY WorkerCountFact DEF IInv, Threads, Running, Panicked, TypeOK, Workers
  <1>2. 1 \in Workers
    BY WorkerCountFact DEF Workers
  <1>3. next = N
    BY <1>1, <1>2 DEF IInv, Threads, Collecting
  <1>4. ~Held(i) /\ ~Sent(i)
    BY <1>1 DEF IInv, Held, Busy, Sent, Threads
  <1> QED
    BY <1>1, <1>3, <1>4 DEF IInv, Accounted, Collecting, Indices

\* The expect of format_targets never fails: the receiving loop ends only when
\* every slot is filled, unless a thread panicked, which the scope reports.
THEOREM SlotsCorrect == Spec => []SlotsFilled
  BY Inductive, InvFillsSlots, PTL

LEMMA CollectAnswers == IInv /\ Collect => Batch!Answer
  <1> SUFFICES ASSUME IInv, Collect PROVE Batch!Answer
    OBVIOUS
  <1>1. answer = None /\ UNCHANGED outcome
    BY DEF IInv, Honest, Collect
  <1>2. \A i \in Indices : slots[i] = outcome[i] /\ outcome[i] \in {"formatted", "failed"}
    BY InvFillsSlots DEF Collect, IInv, SlotsFilled, FormattedOnce, Honest, TypeOK, Outcomes
  <1>3. Batch!Having("panics") = {}
    BY <1>2 DEF Batch!Having, Batch!Indices, Indices
  <1>4. CASE (\A i \in Indices : slots[i] = "formatted") /\ answer' = Batch!Ok
    BY <1>1, <1>2, <1>3, <1>4 DEF Batch!Answer, Batch!Having, Batch!Indices, Indices
  <1>5. ASSUME NEW i \in Indices, slots[i] # "formatted",
               \A j \in 1..i - 1 : slots[j] = "formatted",
               answer' = IF slots[i] = None THEN Batch!Panic ELSE Batch!Failure(i)
        PROVE  Batch!Answer
    <2>1. outcome[i] = "failed" /\ answer' = Batch!Failure(i)
      BY <1>2, <1>5, NoneFresh DEF Outcomes
    <2>2. ASSUME NEW j \in Indices, outcome[j] = "failed" PROVE i <= j
      BY <2>2, <1>2, <1>5 DEF Indices
    <2>3. Batch!FirstFailure(i)
      BY <2>1, <2>2 DEF Batch!FirstFailure, Batch!Having, Batch!Indices, Indices
    <2> QED
      BY <1>1, <1>3, <2>1, <2>3 DEF Batch!Answer, Batch!Indices, Indices
  <1> QED
    BY <1>4, <1>5 DEF Collect

LEMMA PanicAnswers == IInv /\ ScopePanics => Batch!Answer
  <1> SUFFICES ASSUME IInv, ScopePanics PROVE Batch!Answer
    OBVIOUS
  <1>1. answer = None /\ UNCHANGED outcome /\ answer' = Batch!Panic
    BY DEF IInv, Honest, ScopePanics
  <1>2. CASE Panicked # {}
    <2>1. PICK w \in Workers : thread[w] = "panicked"
      BY <1>2 DEF Panicked
    <2>2. claim[w] \in Indices /\ outcome[claim[w]] = "panics"
      BY <2>1 DEF IInv, Honest, Threads, TypeOK, Indices
    <2> QED
      BY <1>1, <2>2 DEF Batch!Answer, Batch!Having, Batch!Indices, Indices
  <1>3. CASE main = "unwind"
    BY <1>1, <1>3 DEF IInv, Honest, Batch!Answer
  <1> QED
    BY <1>2, <1>3 DEF ScopePanics

LEMMA StepRefines == IInv /\ [Next]_vars => [Batch!Answer]_<<outcome, answer>>
  <1> SUFFICES ASSUME IInv, [Next]_vars PROVE [Batch!Answer]_<<outcome, answer>>
    OBVIOUS
  <1>1. CASE Collect
    BY <1>1, CollectAnswers
  <1>2. CASE ScopePanics
    BY <1>2, PanicAnswers
  <1>3. CASE ~Collect /\ ~ScopePanics
    BY <1>3 DEF Next, Main, Worker, vars, Claim, Retire, FormatOne, Send, Spawn,
                SpawnPanics, DropSender, Receive, EndReceive
  <1> QED
    BY <1>1, <1>2, <1>3

\* The pool never answers anything but what a loop over the targets in order
\* would: the safety part of FormatAll, for any number of targets and threads.
\* (That it answers at all is liveness and left to TLC.)
THEOREM PoolRefinesLoop == Spec => Batch!Safety
  <1>1. Init => Batch!Init
    BY DEF Init, Batch!Init, Batch!Indices, Indices, Batch!Outcomes, Outcomes
  <1> QED
    BY <1>1, StepRefines, Inductive, PTL DEF Spec, Batch!Safety
=============================================================================
