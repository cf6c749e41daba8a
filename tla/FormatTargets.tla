--------------------------- MODULE FormatTargets ---------------------------
(***************************************************************************)
(* format_targets (src/src/io/context.rs): a pool of scoped threads shares *)
(* a counter of the next target, formats the targets it claims and sends   *)
(* each outcome, with its index, over a channel to the main thread, which  *)
(* files it in the slot of that index.  The receiving loop ends when every *)
(* sender is gone: the workers', each dropped when its thread ends, and    *)
(* the main thread's, dropped before it starts receiving.                  *)
(*                                                                         *)
(* A thread ends when no target is left, when formatting panics, or when   *)
(* the receiver is gone.  Starting a thread may fail, which panics in the  *)
(* main thread: it drops its ends of the channel and then, as any scope,   *)
(* waits for the threads it did start.                                     *)
(*                                                                         *)
(* The channel is a set of messages: nothing here depends on its order,    *)
(* and every order the channel can produce is an order the set allows.     *)
(***************************************************************************)
EXTENDS Integers, FiniteSets

CONSTANTS N,            \* the number of targets
          Parallelism,  \* available_parallelism()
          SpawnFails,   \* whether starting a thread may fail
          None

Indices == 1..N
Outcomes == {"formatted", "failed", "panics"}

ASSUME FormatTargetsAssumption ==
    /\ N \in Nat
    /\ Parallelism \in Nat \ {0}
    /\ SpawnFails \in BOOLEAN
    /\ None \notin [class : {"ok", "failed", "panic"}, index : 0..N] \cup Outcomes

\* min(available_parallelism, max(targets, 1))
WorkerCount == LET wanted == IF N = 0 THEN 1 ELSE N
               IN  IF Parallelism <= wanted THEN Parallelism ELSE wanted
Workers == 1..WorkerCount

VARIABLES
    outcome,   \* what format_one does with each target: fixed
    next,      \* the counter: targets claimed so far
    spawned,   \* threads started so far
    thread,    \* where each worker is
    claim,     \* the target it claimed last, 0 at first
    channel,   \* messages sent and not received
    main,      \* where the main thread is
    slots,     \* the outcomes received
    answer     \* what the caller gets

\* What the caller is promised, over the same outcome and answer.
Batch == INSTANCE FormatAll

vars == <<outcome, next, spawned, thread, claim, channel, main, slots, answer>>

Init ==
    /\ outcome \in [Indices -> Outcomes]
    /\ next = 0
    /\ spawned = 0
    /\ thread = [w \in Workers |-> "unborn"]
    /\ claim = [w \in Workers |-> 0]
    /\ channel = {}
    /\ main = "spawn"
    /\ slots = [i \in Indices |-> None]
    /\ answer = None

-----------------------------------------------------------------------------
(* A worker. *)

\* Mutant: the counter is read and written back in two accesses.
Claim_Lossy(w) ==
    /\ thread[w] = "claim" /\ next < N
    /\ next' \in {next, next + 1}
    /\ claim' = [claim EXCEPT ![w] = next + 1]
    /\ thread' = [thread EXCEPT ![w] = "format"]
    /\ UNCHANGED <<outcome, spawned, channel, main, slots, answer>>

\* fetch_add: the counter goes past the last target once per worker, which is
\* left out here, nobody reads it then.
Claim(w) ==
    /\ thread[w] = "claim" /\ next < N
    /\ next' = next + 1
    /\ claim' = [claim EXCEPT ![w] = next + 1]
    /\ thread' = [thread EXCEPT ![w] = "format"]
    /\ UNCHANGED <<outcome, spawned, channel, main, slots, answer>>

\* No target left: the thread ends and its sender is dropped.
Retire(w) ==
    /\ thread[w] = "claim" /\ next >= N
    /\ thread' = [thread EXCEPT ![w] = "ended"]
    /\ UNCHANGED <<outcome, next, spawned, claim, channel, main, slots, answer>>

FormatOne(w) ==
    /\ thread[w] = "format"
    /\ thread' = [thread EXCEPT ![w] =
                     IF outcome[claim[w]] = "panics" THEN "panicked" ELSE "send"]
    /\ UNCHANGED <<outcome, next, spawned, claim, channel, main, slots, answer>>

ReceiverAlive == main \in {"spawn", "receive"}

Send(w) ==
    /\ thread[w] = "send"
    /\ IF ReceiverAlive
       THEN /\ channel' = channel \cup {[index |-> claim[w], outcome |-> outcome[claim[w]]]}
            /\ thread' = [thread EXCEPT ![w] = "claim"]
       ELSE /\ thread' = [thread EXCEPT ![w] = "ended"]
            /\ UNCHANGED channel
    /\ UNCHANGED <<outcome, next, spawned, claim, main, slots, answer>>

Worker(w) == Claim(w) \/ Retire(w) \/ FormatOne(w) \/ Send(w)

-----------------------------------------------------------------------------
(* The main thread. *)

Spawn ==
    /\ main = "spawn" /\ spawned < WorkerCount
    /\ spawned' = spawned + 1
    /\ thread' = [thread EXCEPT ![spawned'] = "claim"]
    /\ UNCHANGED <<outcome, next, claim, channel, main, slots, answer>>

SpawnPanics ==
    /\ SpawnFails
    /\ main = "spawn" /\ spawned < WorkerCount
    /\ main' = "unwind" /\ channel' = {}
    /\ UNCHANGED <<outcome, next, spawned, thread, claim, slots, answer>>

\* drop(sender): from here the workers hold the only senders.
DropSender ==
    /\ main = "spawn" /\ spawned = WorkerCount
    /\ main' = "receive"
    /\ UNCHANGED <<outcome, next, spawned, thread, claim, channel, slots, answer>>

Receive ==
    /\ main = "receive"
    /\ \E m \in channel : /\ slots' = [slots EXCEPT ![m.index] = m.outcome]
                          /\ channel' = channel \ {m}
    /\ UNCHANGED <<outcome, next, spawned, thread, claim, main, answer>>

Running == {w \in Workers : thread[w] \in {"claim", "format", "send"}}

\* Mutants: the loop ends when the channel is empty; it waits for a sender the
\* main thread never dropped.
EndReceive_Empty ==
    /\ main = "receive" /\ channel = {}
    /\ main' = "join"
    /\ UNCHANGED <<outcome, next, spawned, thread, claim, channel, slots, answer>>
EndReceive_OwnSender ==
    /\ main = "receive" /\ channel = {} /\ Running = {} /\ spawned > WorkerCount
    /\ main' = "join"
    /\ UNCHANGED <<outcome, next, spawned, thread, claim, channel, slots, answer>>

EndReceive ==
    /\ main = "receive" /\ channel = {} /\ Running = {}
    /\ main' = "join"
    /\ UNCHANGED <<outcome, next, spawned, thread, claim, channel, slots, answer>>

\* The end of the scope: it waits for every thread, and panics if one did or
\* if its body did.
Panicked == {w \in Workers : thread[w] = "panicked"}

ScopePanics ==
    /\ \/ main = "join" /\ Panicked # {}
       \/ main = "unwind"
    /\ Running = {}
    /\ main' = "done" /\ answer' = Batch!Panic
    /\ UNCHANGED <<outcome, next, spawned, thread, claim, channel, slots>>

\* collect: all results, or the first failure in slot order.  Every slot must
\* be filled.
Collect ==
    /\ main = "join" /\ Running = {} /\ Panicked = {}
    /\ main' = "done"
    /\ \/ /\ \A i \in Indices : slots[i] = "formatted"
          /\ answer' = Batch!Ok
       \/ \E i \in Indices :
             /\ slots[i] # "formatted" /\ \A j \in 1..i - 1 : slots[j] = "formatted"
             /\ answer' = IF slots[i] = None THEN Batch!Panic ELSE Batch!Failure(i)
    /\ UNCHANGED <<outcome, next, spawned, thread, claim, channel, slots>>

Main == Spawn \/ SpawnPanics \/ DropSender \/ Receive \/ EndReceive \/ ScopePanics \/ Collect

Next == Main \/ \E w \in Workers : Worker(w)

\* Each thread runs as long as it can: the scheduler is fair to threads.
Spec == Init /\ [][Next]_vars /\ WF_vars(Main) /\ \A w \in Workers : WF_vars(Worker(w))

-----------------------------------------------------------------------------
(* Properties. *)

TypeOK ==
    /\ outcome \in [Indices -> Outcomes]
    /\ next \in 0..N
    /\ spawned \in 0..WorkerCount
    /\ thread \in [Workers -> {"unborn", "claim", "format", "send", "ended", "panicked"}]
    /\ claim \in [Workers -> 0..N]
    /\ channel \subseteq [index : Indices, outcome : Outcomes]
    /\ main \in {"spawn", "receive", "join", "unwind", "done"}
    /\ slots \in [Indices -> Outcomes \cup {None}]
    /\ answer \in {None, Batch!Ok, Batch!Panic} \cup {Batch!Failure(i) : i \in Indices}

\* Where the outcome of target i may be: with the worker that is formatting or
\* sending it, on the way, or in its slot.
Busy(w) == thread[w] \in {"format", "send"}
Held(i) == \E w \in Workers : Busy(w) /\ claim[w] = i
Sent(i) == \E m \in channel : m.index = i

\* No target is formatted twice and no slot is filled twice: the outcome of a
\* target is in one place at most, one not claimed yet is in none, and what
\* arrives in a slot is the outcome of that very target.
FormattedOnce ==
    /\ \A v, w \in Workers : Busy(v) /\ Busy(w) /\ claim[v] = claim[w] => v = w
    /\ \A m \in channel : m.outcome = outcome[m.index]
    /\ \A i \in Indices :
          /\ Held(i) => ~Sent(i) /\ slots[i] = None
          /\ Sent(i) => slots[i] = None
          /\ i > next => ~Held(i) /\ ~Sent(i) /\ slots[i] = None
          /\ slots[i] \in {None, outcome[i]}

\* context.rs: expect("format worker panicked") never fails.  When the results
\* are collected every slot is filled, or a worker did panic and the scope
\* panics first.
SlotsFilled ==
    main = "join" /\ Panicked = {} => \A i \in Indices : slots[i] # None

\* The pool gives the answer of a sequential loop, and does give it: no
\* deadlock between the receiver and the senders it waits for.
ImplementsFormatAll == Batch!Spec
=============================================================================
