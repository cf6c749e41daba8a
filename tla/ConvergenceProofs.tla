------------------------- MODULE ConvergenceProofs --------------------------
(***************************************************************************)
(* Proofs about the two fixed-point loops of full mode: the rounds of the  *)
(* wrapper, for any document and any measuring and emitting functions, and *)
(* the settlement of --rewrap, for any preparing and reflowing functions.  *)
(* What makes an adjacent repeat a fixed point and an older one a cycle is *)
(* in both that the history is a path of rounds (Path, Passed).            *)
(***************************************************************************)
EXTENDS ReflowRounds, RewrapSettlement, SequenceTheorems, TLAPS

\* While the rounds run, the history is a path that ends where the next round
\* starts.
Path ==
    outcome = "running" =>
        /\ round_history # <<>> => Last(round_history) = measured
        /\ \A i \in 1..Len(round_history) - 1 :
              Repeats(round_history[i], round_history[i + 1])

IInv == TypeOK /\ Path /\ OkIsFixedPoint /\ CycleIsGenuine

USE ReflowRoundsAssumption

\* What Progress says, in terms of the positions of a history.
LEMMA ProgressFacts ==
  ASSUME NEW S, NEW h \in Seq(S), NEW x
  PROVE  /\ Progress(h, x) \in {"Stable", "Cycle", "New"}
         /\ Progress(h, x) = "Stable" => h # <<>> /\ h[Len(h)] = x
         /\ Progress(h, x) = "Cycle" => \E k \in 1..Len(h) - 1 : h[k] = x
  <1>1. Progress(h, x) = "Cycle" => h[Len(h)] # x /\ \E k \in 1..Len(h) : h[k] = x
    BY DEF Progress, Contains, Last
  <1> QED
    BY <1>1 DEF Progress, Last

LEMMA InitHolds == Init => IInv
  BY DEF Init, IInv, TypeOK, Path, OkIsFixedPoint, CycleIsGenuine

\* An answer is kept: what was asked for stays as it was.
LEMMA AnswersKept ==
  ASSUME TypeOK, NEW over, NEW out,
         over \in Answers(overruns[measured], SUBSET Groups),
         out \in Answers(emission[measured][Flags(over)], Layouts),
         overruns' = [overruns EXCEPT ![measured] = {over}],
         emission' = [emission EXCEPT ![measured][Flags(over)] = {out}],
         needs_reflow' = Flags(over), Flags(over) = needs_reflow,
         NEW l \in Layouts, NEW m, Repeats(l, m)
  PROVE  Repeats(l, m)'
  <1>1. PICK seen \in SUBSET Groups : overruns[l] = {seen} /\ Flags(seen) = needs_reflow
    BY DEF Repeats
  <1>2. overruns'[l] = {seen}
    BY <1>1 DEF TypeOK, Answers
  <1>3. emission'[l][needs_reflow] = {m}
    BY DEF Repeats, TypeOK, Answers
  <1> QED
    BY <1>1, <1>2, <1>3 DEF Repeats, Flags

LEMMA RoundHolds == IInv /\ Round => IInv'
  <1> SUFFICES ASSUME IInv, Round PROVE IInv'
    OBVIOUS
  <1>1. PICK over \in Answers(overruns[measured], SUBSET Groups) :
        \E out \in Answers(emission[measured][Flags(over)], Layouts) :
          LET history == Comparable(Flags(over))
              progress == Progress(history, out)
          IN  /\ overruns' = [overruns EXCEPT ![measured] = {over}]
              /\ emission' = [emission EXCEPT ![measured][Flags(over)] = {out}]
              /\ needs_reflow' = Flags(over)
              /\ round_history' = IF progress = "New" THEN Remember(history, out) ELSE history
              /\ measured' = IF progress = "New" THEN out ELSE measured
              /\ outcome' = Verdict[progress]
    BY DEF Round
  <1>2. PICK out \in Answers(emission[measured][Flags(over)], Layouts),
             h \in {Comparable(Flags(over))}, m \in {measured} :
          /\ overruns' = [overruns EXCEPT ![m] = {over}]
          /\ emission' = [emission EXCEPT ![m][Flags(over)] = {out}]
          /\ needs_reflow' = Flags(over)
          /\ round_history' = IF Progress(h, out) = "New" THEN Remember(h, out) ELSE h
          /\ measured' = IF Progress(h, out) = "New" THEN out ELSE m
          /\ outcome' = Verdict[Progress(h, out)]
    BY <1>1
  <1>3. /\ outcome = "running" /\ m \in Layouts /\ m = measured
        /\ over \in SUBSET Groups /\ Flags(over) \in SUBSET Wrappable
        /\ out \in Layouts
    BY DEF Round, IInv, TypeOK, Answers, Flags
  <1>4. h \in Seq(Layouts) /\ h = Comparable(Flags(over))
    <2>1. Comparable(Flags(over)) \in Seq(Layouts)
      BY DEF Comparable, IInv, TypeOK
    <2> QED
      BY <2>1
  <1>5. /\ Progress(h, out) \in {"Stable", "Cycle", "New"}
        /\ Progress(h, out) = "Stable" => h # <<>> /\ h[Len(h)] = out
        /\ Progress(h, out) = "Cycle" => \E k \in 1..Len(h) - 1 : h[k] = out
    BY <1>4, ProgressFacts
  <1>6. TypeOK'
    <2>1. overruns' \in [Layouts -> SUBSET SUBSET Groups]
      BY <1>2, <1>3 DEF IInv, TypeOK
    <2>2. emission' \in [Layouts -> [SUBSET Groups -> SUBSET Layouts]]
      <3>1. emission[m] \in [SUBSET Groups -> SUBSET Layouts]
        BY <1>3 DEF IInv, TypeOK
      <3>2. [emission[m] EXCEPT ![Flags(over)] = {out}] \in [SUBSET Groups -> SUBSET Layouts]
        BY <1>3, <3>1
      <3> QED
        BY <1>2, <1>3, <3>2 DEF IInv, TypeOK
    <2>3. round_history' \in Seq(Layouts)
      BY <1>2, <1>3, <1>4 DEF Remember
    <2>4. outcome' \in {"running", "ok", "cycle", "error"}
      BY <1>2, <1>5 DEF Verdict
    <2>5. measured' \in Layouts /\ needs_reflow' \subseteq Wrappable
      BY <1>2, <1>3
    <2> QED
      BY <2>1, <2>2, <2>3, <2>4, <2>5 DEF TypeOK
  \* The round just made, under the flags it leaves.
  <1>7. Repeats(m, out)'
    <2>1. overruns'[m] = {over}
      BY <1>2, <1>3 DEF IInv, TypeOK
    <2>2. emission'[m][Flags(over)] = {out}
      BY <1>2, <1>3 DEF IInv, TypeOK
    <2> QED
      BY <1>2, <1>3, <2>1, <2>2 DEF Repeats, Flags
  \* The comparable history is a path under those flags that ends at m.
  <1>8. /\ h # <<>> => h[Len(h)] = m
        /\ \A i \in 1..Len(h) - 1 : Repeats(h[i], h[i + 1])'
    <2>1. CASE Flags(over) # needs_reflow
      BY <1>4, <2>1 DEF Comparable
    <2>2. CASE Flags(over) = needs_reflow
      <3>1. h = round_history
        BY <1>4, <2>2 DEF Comparable
      <3>2. h # <<>> => h[Len(h)] = m
        BY <1>3, <3>1 DEF IInv, Path, Last
      <3>3. ASSUME NEW i \in 1..Len(h) - 1 PROVE Repeats(h[i], h[i + 1])'
        <4>1. PICK a \in Layouts, b \in Layouts : a = h[i] /\ b = h[i + 1]
          BY <1>4
        <4>2. Repeats(a, b)
          BY <1>3, <3>1, <4>1 DEF IInv, Path
        <4>3. Repeats(a, b)'
          BY <1>2, <1>3, <2>2, <4>2, AnswersKept DEF IInv
        <4> QED
          BY <4>1, <4>3
      <3> QED
        BY <3>2, <3>3
    <2> QED
      BY <2>1, <2>2
  <1>9. CASE Progress(h, out) = "Stable"
    <2>1. outcome' = "ok" /\ measured' = m /\ m = out
      BY <1>2, <1>5, <1>8, <1>9 DEF Verdict
    <2>2. OkIsFixedPoint'
      BY <1>7, <2>1 DEF OkIsFixedPoint, Repeats, Flags
    <2> QED
      BY <1>6, <2>1, <2>2 DEF IInv, Path, CycleIsGenuine
  <1>10. CASE Progress(h, out) = "Cycle"
    <2>1. outcome' = "cycle" /\ round_history' = h
      BY <1>2, <1>10 DEF Verdict
    <2>2. PICK k \in 1..Len(h) - 1 : h[k] = out
      BY <1>5, <1>10
    <2>3. ASSUME NEW i \in k..Len(h)
          PROVE  Repeats(h[i], h[IF i = Len(h) THEN k ELSE i + 1])'
      <3>1. CASE i = Len(h)
        BY <1>4, <1>7, <1>8, <2>2, <3>1
      <3>2. CASE i # Len(h)
        BY <1>4, <1>8, <3>2
      <3> QED
        BY <3>1, <3>2
    <2>4. CycleIsGenuine'
      BY <2>1, <2>2, <2>3 DEF CycleIsGenuine, Repeats, Flags
    <2> QED
      BY <1>6, <2>1, <2>4 DEF IInv, Path, OkIsFixedPoint
  <1>11. CASE Progress(h, out) = "New"
    <2>1. outcome' = "running" /\ measured' = out /\ round_history' = Append(h, out)
      BY <1>2, <1>11 DEF Remember, Verdict
    <2>2. /\ Len(Append(h, out)) = Len(h) + 1
          /\ Append(h, out)[Len(h) + 1] = out
          /\ \A i \in 1..Len(h) : Append(h, out)[i] = h[i]
      BY <1>3, <1>4
    <2>3. ASSUME NEW i \in 1..Len(h)
          PROVE  Repeats(Append(h, out)[i], Append(h, out)[i + 1])'
      <3>1. CASE i = Len(h)
        BY <1>4, <1>7, <1>8, <2>2, <3>1
      <3>2. CASE i # Len(h)
        BY <1>4, <1>8, <2>2, <3>2
      <3> QED
        BY <3>1, <3>2
    <2>4. Last(round_history') = measured'
      BY <1>4, <2>1, <2>2 DEF Last
    <2>5. ASSUME NEW i \in 1..Len(round_history') - 1
          PROVE  Repeats(round_history[i], round_history[i + 1])'
      <3>1. PICK a, b : a = Append(h, out)[i] /\ b = Append(h, out)[i + 1]
        OBVIOUS
      <3>2. Repeats(a, b)'
        BY <1>4, <2>1, <2>2, <2>3, <3>1
      <3>3. a = round_history'[i] /\ b = round_history'[i + 1]
        BY <2>1, <3>1
      <3> QED
        BY <3>2, <3>3 DEF Repeats, Flags
    <2>6. Path'
      BY <2>4, <2>5 DEF Path
    <2> QED
      BY <1>6, <2>1, <2>6 DEF IInv, OkIsFixedPoint, CycleIsGenuine
  <1> QED
    BY <1>5, <1>9, <1>10, <1>11

LEMMA MeasureFailsHolds == IInv /\ MeasureFails => IInv'
  <1> SUFFICES ASSUME IInv, MeasureFails PROVE IInv'
    OBVIOUS
  <1>1. /\ outcome' = "error"
        /\ UNCHANGED <<overruns, emission, measured, needs_reflow, round_history>>
    BY DEF MeasureFails
  <1>2. TypeOK'
    BY <1>1 DEF IInv, TypeOK
  <1> QED
    BY <1>1, <1>2 DEF IInv, Path, OkIsFixedPoint, CycleIsGenuine

LEMMA Inductive == Spec => []IInv
  <1>1. IInv /\ [Next]_vars => IInv'
    <2>1. IInv /\ UNCHANGED vars => IInv'
      <3>1. TypeOK /\ UNCHANGED vars => TypeOK'
        BY DEF vars, TypeOK
      <3>2. Path /\ UNCHANGED vars => Path'
        BY DEF vars, Path, Repeats, Flags, Last
      <3>3. OkIsFixedPoint /\ UNCHANGED vars => OkIsFixedPoint'
        BY DEF vars, OkIsFixedPoint, Repeats, Flags
      <3>4. CycleIsGenuine /\ UNCHANGED vars => CycleIsGenuine'
        <4> SUFFICES ASSUME CycleIsGenuine, UNCHANGED vars, outcome' = "cycle"
                     PROVE  CycleIsGenuine'
          BY DEF CycleIsGenuine
        <4>1. PICK k \in 1..Len(round_history) - 1 :
                \A i \in k..Len(round_history) :
                    Repeats(round_history[i],
                            round_history[IF i = Len(round_history) THEN k ELSE i + 1])
          BY DEF CycleIsGenuine, vars
        <4>2. ASSUME NEW i \in k..Len(round_history')
              PROVE  Repeats(round_history[i],
                             round_history[IF i = Len(round_history) THEN k ELSE i + 1])'
          <5>1. PICK h : h = round_history
            OBVIOUS
          <5>2. PICK a, b : a = h[i] /\ b = h[IF i = Len(h) THEN k ELSE i + 1]
            OBVIOUS
          <5>3. Repeats(a, b)
            BY <4>1, <5>1, <5>2 DEF vars
          <5>4. Repeats(a, b)'
            BY <5>3 DEF Repeats, Flags, vars
          <5>5. round_history' = h
            BY <5>1 DEF vars
          <5> QED
            BY <5>2, <5>4, <5>5 DEF Repeats, Flags
        <4> QED
          BY <4>1, <4>2 DEF CycleIsGenuine, vars
      <3> QED
        BY <3>1, <3>2, <3>3, <3>4 DEF IInv
    <2> QED
      BY <2>1, RoundHolds, MeasureFailsHolds DEF Next
  <1> QED
    BY <1>1, InitHolds, PTL DEF Spec

\* The lines the wrapper returns are a fixed point of its rounds, whatever the
\* layouts measure and the groups emit.
THEOREM OkCorrect == Spec => []OkIsFixedPoint
  <1>1. IInv => OkIsFixedPoint
    BY DEF IInv
  <1> QED
    BY <1>1, Inductive, PTL

\* A cycle is reported only if the rounds would go round for ever.
THEOREM CycleCorrect == Spec => []CycleIsGenuine
  <1>1. IInv => CycleIsGenuine
    BY DEF IInv
  <1> QED
    BY <1>1, Inductive, PTL
-----------------------------------------------------------------------------
(* The settlement of --rewrap *)

SettlementTypeOK ==
    /\ rewrap \in BOOLEAN
    /\ prepared \in [Documents -> Documents \cup {None, Failure}]
    /\ reflowed \in [Documents -> Documents \cup {None, Failure}]
    /\ candidate \in Documents
    /\ output \in Documents \cup {None, Failure}
    /\ settlement_inputs \in Seq(Documents)
    /\ pc \in {"reflow", "settle", "ok", "failed", "cycle"}

\* While the settlement runs, its inputs are linked by the passes made so far and
\* end with the document at hand; before it is settled, that document's output
\* is the one that was laid out.
Passed ==
    /\ pc \in {"reflow", "settle"} /\ rewrap =>
          /\ settlement_inputs # <<>> /\ Last(settlement_inputs) = candidate
          /\ \A i \in 1..Len(settlement_inputs) - 1 :
                Pass(settlement_inputs[i], settlement_inputs[i + 1])
    /\ pc = "settle" => rewrap /\ output \in Documents /\ reflowed[candidate] = output

SettlementInv == SettlementTypeOK /\ Passed /\ OutputSettled /\ SettlementCycleIsGenuine

HIDE ReflowRoundsAssumption
USE RewrapSettlementAssumption

LEMMA SettlementInitHolds == SettlementInit => SettlementInv
  BY DEF SettlementInit, SettlementInv, SettlementTypeOK, Passed, OutputSettled,
         SettlementCycleIsGenuine, Last

LEMMA ReflowHolds == SettlementInv /\ ReflowAndLayOut => SettlementInv'
  <1> SUFFICES ASSUME SettlementInv, ReflowAndLayOut PROVE SettlementInv'
    OBVIOUS
  <1>1. PICK out \in AnswerOf(reflowed[candidate]) :
          /\ reflowed' = [reflowed EXCEPT ![candidate] = out]
          /\ output' = out
          /\ pc' = IF out = Failure THEN "failed" ELSE IF rewrap THEN "settle" ELSE "ok"
    BY DEF ReflowAndLayOut
  <1>2. pc = "reflow" /\ UNCHANGED <<rewrap, prepared, candidate, settlement_inputs>>
    BY DEF ReflowAndLayOut
  <1>3. out \in Documents \cup {Failure}
    BY DEF AnswerOf, SettlementInv, SettlementTypeOK
  <1>4. SettlementTypeOK'
    BY <1>1, <1>2, <1>3 DEF SettlementInv, SettlementTypeOK
  \* A pass that was made stays as it was.
  <1>5. ASSUME NEW input \in Documents, NEW next \in Documents, Pass(input, next)
        PROVE  Pass(input, next)'
    BY <1>1, <1>2, <1>5 DEF Pass, AnswerOf, SettlementInv, SettlementTypeOK
  <1>6. Passed'
    <2>1. ASSUME rewrap, NEW i \in 1..Len(settlement_inputs) - 1
          PROVE  Pass(settlement_inputs[i], settlement_inputs[i + 1])'
      <3>1. PICK x \in Documents, y \in Documents :
              x = settlement_inputs[i] /\ y = settlement_inputs[i + 1]
        BY DEF SettlementInv, SettlementTypeOK
      <3>2. Pass(x, y)'
        BY <1>2, <1>5, <2>1, <3>1 DEF SettlementInv, Passed
      <3> QED
        BY <1>2, <3>1, <3>2 DEF Pass
    <2>2. pc' = "settle" => rewrap' /\ output' \in Documents /\ reflowed'[candidate'] = output'
      BY <1>1, <1>2, <1>3 DEF SettlementInv, SettlementTypeOK
    <2> QED
      BY <1>2, <2>1, <2>2 DEF Passed, SettlementInv, Last
  <1>7. OutputSettled' /\ SettlementCycleIsGenuine'
    BY <1>1, <1>2 DEF OutputSettled, SettlementCycleIsGenuine
  <1> QED
    BY <1>4, <1>6, <1>7 DEF SettlementInv

LEMMA SettleHolds == SettlementInv /\ Settle => SettlementInv'
  <1> SUFFICES ASSUME SettlementInv, Settle PROVE SettlementInv'
    OBVIOUS
  <1>1. PICK p \in AnswerOf(prepared[output]) :
          /\ prepared' = [prepared EXCEPT ![output] = p]
          /\ IF p = Failure
             THEN pc' = "failed" /\ UNCHANGED <<settlement_inputs, candidate>>
             ELSE /\ pc' = Outcome[Settles(p)]
                  /\ settlement_inputs' = IF Settles(p) = "New"
                                          THEN Remember(settlement_inputs, p)
                                          ELSE settlement_inputs
                  /\ candidate' = IF Settles(p) = "New" THEN p ELSE candidate
    BY DEF Settle
  <1>2. pc = "settle" /\ UNCHANGED <<rewrap, reflowed, output>>
    BY DEF Settle
  <1>3. /\ rewrap /\ output \in Documents /\ reflowed[candidate] = output
        /\ p \in Documents \cup {Failure} /\ candidate \in Documents
        /\ settlement_inputs \in Seq(Documents) /\ settlement_inputs # <<>>
        /\ settlement_inputs[Len(settlement_inputs)] = candidate
    BY <1>2 DEF SettlementInv, SettlementTypeOK, Passed, AnswerOf, Last
  <1>4. prepared' \in [Documents -> Documents \cup {None, Failure}] /\ prepared'[output] = p
    BY <1>1, <1>3 DEF SettlementInv, SettlementTypeOK
  \* A pass that was made stays as it was.
  <1>5. ASSUME NEW input \in Documents, NEW next \in Documents, Pass(input, next)
        PROVE  Pass(input, next)'
    BY <1>1, <1>2, <1>5 DEF Pass, AnswerOf, SettlementInv, SettlementTypeOK
  <1>6. ASSUME NEW i \in 1..Len(settlement_inputs) - 1,
               NEW x \in Documents, NEW y \in Documents,
               x = settlement_inputs[i], y = settlement_inputs[i + 1]
        PROVE  Pass(x, y)'
    BY <1>2, <1>3, <1>5, <1>6 DEF SettlementInv, Passed
  <1>7. CASE p = Failure
    <2>1. pc' = "failed" /\ UNCHANGED <<settlement_inputs, candidate>>
      BY <1>1, <1>7
    <2> QED
      BY <1>2, <1>4, <2>1 DEF SettlementInv, SettlementTypeOK, Passed, OutputSettled,
                              SettlementCycleIsGenuine
  <1>8. CASE p \in Documents /\ p = output
    <2>1. pc' = "ok" /\ UNCHANGED <<settlement_inputs, candidate>>
      BY <1>1, <1>8 DEF Settles, Outcome
    <2> QED
      BY <1>2, <1>4, <1>8, <2>1 DEF SettlementInv, SettlementTypeOK, Passed, OutputSettled,
                                    SettlementCycleIsGenuine
  <1>9. CASE p \in Documents /\ p # output
    \* The pass just made.
    <2>0. PICK h \in Seq(Documents), c \in Documents : h = settlement_inputs /\ c = candidate
      BY <1>3
    <2>1. Pass(c, p)'
      BY <1>2, <1>3, <1>4, <1>9, <2>0 DEF Pass
    <2>2. /\ Settles(p) \in {"Stable", "Cycle", "New"}
          /\ Settles(p) = "Stable" => settlement_inputs[Len(settlement_inputs)] = p
          /\ Settles(p) = "Cycle" => \E k \in 1..Len(settlement_inputs) - 1 :
                                          settlement_inputs[k] = p
      BY <1>3, <1>9, ProgressFacts DEF Settles
    <2>3. /\ pc' = Outcome[Settles(p)]
          /\ Settles(p) # "New" => UNCHANGED <<settlement_inputs, candidate>>
          /\ Settles(p) = "New" =>
                settlement_inputs' = Append(settlement_inputs, p) /\ candidate' = p
      BY <1>1, <1>9 DEF Remember
    <2>4. CASE Settles(p) = "Stable"
      <3>1. pc' = "ok" /\ reflowed'[p] = output'
        BY <1>2, <1>3, <2>2, <2>3, <2>4 DEF Outcome
      <3> QED
        BY <1>2, <1>4, <2>3, <2>4, <3>1
           DEF SettlementInv, SettlementTypeOK, Passed, OutputSettled, SettlementCycleIsGenuine
    <2>5. CASE Settles(p) = "Cycle"
      <3>1. pc' = "cycle" /\ settlement_inputs' = h
        BY <2>0, <2>3, <2>5 DEF Outcome
      <3>2. PICK k \in 1..Len(h) - 1 : h[k] = p
        BY <2>0, <2>2, <2>5
      <3>3. ASSUME NEW i \in k..Len(h)
            PROVE  Pass(h[i], h[IF i = Len(h) THEN k ELSE i + 1])'
        <4>1. PICK x \in Documents, y \in Documents :
                x = h[i] /\ y = h[IF i = Len(h) THEN k ELSE i + 1]
          OBVIOUS
        <4>2. Pass(x, y)'
          BY <1>3, <1>6, <2>0, <2>1, <3>2, <4>1
        <4> QED
          BY <4>1, <4>2 DEF Pass
      <3>4. SettlementCycleIsGenuine'
        <4>1. ASSUME NEW i \in k..Len(settlement_inputs')
              PROVE  Pass(settlement_inputs[i],
                          settlement_inputs[IF i = Len(settlement_inputs) THEN k ELSE i + 1])'
          BY <3>1, <3>3, <4>1 DEF Pass
        <4> QED
          BY <3>1, <3>2, <4>1 DEF SettlementCycleIsGenuine
      <3> QED
        BY <1>2, <1>4, <2>3, <2>5, <3>1, <3>4
           DEF SettlementInv, SettlementTypeOK, Passed, OutputSettled
    <2>6. CASE Settles(p) = "New"
      <3>1. PICK g \in Seq(Documents) :
              /\ g = Append(h, p) /\ Len(g) = Len(h) + 1 /\ g[Len(g)] = p
              /\ \A i \in 1..Len(h) : g[i] = h[i]
        <4>1. /\ Append(h, p) \in Seq(Documents) /\ Len(Append(h, p)) = Len(h) + 1
              /\ Append(h, p)[Len(h) + 1] = p
              /\ \A i \in 1..Len(h) : Append(h, p)[i] = h[i]
          BY <1>9
        <4> QED
          BY <4>1, Zenon
      <3>2. pc' = "reflow" /\ settlement_inputs' = g /\ candidate' = p
        BY <2>0, <2>3, <2>6, <3>1 DEF Outcome
      <3>3. ASSUME NEW i \in 1..Len(g) - 1 PROVE Pass(g[i], g[i + 1])'
        <4>1. PICK x \in Documents, y \in Documents : x = g[i] /\ y = g[i + 1]
          BY <3>1
        <4>2. Pass(x, y)'
          <5>1. CASE i = Len(h)
            BY <1>3, <2>0, <2>1, <3>1, <4>1, <5>1
          <5>2. CASE i # Len(h)
            BY <1>6, <2>0, <3>1, <4>1, <5>2
          <5> QED
            BY <5>1, <5>2
        <4> QED
          BY <4>1, <4>2 DEF Pass
      <3>4. Passed'
        BY <3>1, <3>2, <3>3 DEF Passed, Last, Pass
      <3> QED
        BY <1>2, <1>4, <1>9, <3>1, <3>2, <3>4
           DEF SettlementInv, SettlementTypeOK, OutputSettled, SettlementCycleIsGenuine
    <2> QED
      BY <2>2, <2>4, <2>5, <2>6
  <1> QED
    BY <1>3, <1>7, <1>8, <1>9

\* What --rewrap returns is settled, and a reported cycle of its settlement is one,
\* whatever preparing and reflowing a document give.
THEOREM SettlementCorrect == SettlementSpec => []SettlementIsRight
  <1>1. SettlementInv /\ [SettlementNext]_settlementVars => SettlementInv'
    <2>1. SettlementInv /\ UNCHANGED settlementVars => SettlementInv'
      BY DEF settlementVars, SettlementInv, SettlementTypeOK, Passed, OutputSettled,
             SettlementCycleIsGenuine, Pass, Last
    <2> QED
      BY <2>1, ReflowHolds, SettleHolds DEF SettlementNext
  <1>2. SettlementInv => SettlementIsRight
    BY DEF SettlementInv, SettlementIsRight
  <1> QED
    BY <1>1, <1>2, SettlementInitHolds, PTL DEF SettlementSpec
=============================================================================
