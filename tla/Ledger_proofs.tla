---------------------------- MODULE Ledger_proofs ----------------------------
(***************************************************************************)
(* Proofs about one day's file, for any keys, any number of writers and    *)
(* any length: type correctness, what the dedupe scan and a cut write can  *)
(* and cannot cost, and that the lines implement RecordStore.              *)
(***************************************************************************)
EXTENDS Ledger, TLAPS

(* A call on its way to append has read the first lines, and its key was   *)
(* on none of them.                                                        *)
ScansHold ==
  \A w \in Writers : call[w].phase = "append" =>
    /\ call[w].lines <= Len(file)
    /\ call[w].key \in Keys => \A i \in 1..call[w].lines : file[i] # call[w].key

(* A line without its newline holds a write cut short and no answered row. *)
TailIsTorn ==
  ~ended => Len(file) \in torn /\ \A a \in acked : a[1] # Len(file)

(* A line answers for one row, and holds it unless a write on it was cut.  *)
AnswersHold ==
  /\ \A a \in acked : file[a[1]] = a[2] \/ a[1] \in torn
  /\ \A a, b \in acked : a[1] = b[1] => a = b

(* The inductive invariant. *)
Inv == TypeOK /\ ScansHold /\ DuplicatesOverlap /\ TailIsTorn /\ AnswersHold

-----------------------------------------------------------------------------
LEMMA InitInv == Init => Inv
BY DEF Init, Inv, TypeOK, Call, Answers, ScansHold, DuplicatesOverlap, TailIsTorn, AnswersHold

(* What glued bytes are. *)
LEMMA GlueIsDamage == ASSUME NEW old, NEW new PROVE Glue(old, new) \in Damage
BY DEF Glue, Damage

(* Putting bytes: one more line, or damage in place of the last one.       *)
AfterPut(w, bytes) ==
  /\ file' \in Seq(Lines) /\ seen' \in Seq(Nat) /\ Len(seen') = Len(file')
  /\ Position \in 1..Len(file') /\ Len(file') = Position /\ Len(file) <= Len(file')
  /\ \A i \in 1..Len(file) : i # Position => file'[i] = file[i]
  /\ \A i \in 1..Len(file) : seen'[i] = seen[i]
  /\ ended => /\ Position = Len(file) + 1 /\ file'[Position] = bytes
              /\ seen'[Position] = call[w].lines
  /\ ~ended => Position = Len(file) /\ file'[Position] \in Damage

LEMMA PutBytes ==
  ASSUME TypeOK, TailIsTorn, NEW w \in Writers, NEW bytes \in Lines, Put(bytes, w)
  PROVE  AfterPut(w, bytes)
<1>1. file \in Seq(Lines) /\ seen \in Seq(Nat) /\ Len(seen) = Len(file) /\ Len(file) \in Nat
      /\ call[w].lines \in Nat
  BY DEF TypeOK, Call
<1>2. CASE ended
  <2>1. /\ file' = Append(file, bytes) /\ seen' = Append(seen, call[w].lines)
        /\ Position = Len(file) + 1
    BY <1>2 DEF Put, Position
  <2>2. /\ file' \in Seq(Lines) /\ Len(file') = Len(file) + 1 /\ file'[Len(file) + 1] = bytes
        /\ \A i \in 1..Len(file) : file'[i] = file[i]
    BY <1>1, <2>1
  <2>3. /\ seen' \in Seq(Nat) /\ Len(seen') = Len(seen) + 1
        /\ seen'[Len(seen) + 1] = call[w].lines
        /\ \A i \in 1..Len(seen) : seen'[i] = seen[i]
    BY <1>1, <2>1
  <2>. QED  BY <1>1, <1>2, <2>1, <2>2, <2>3 DEF AfterPut
<1>3. CASE ~ended
  <2>1. Len(file) \in 1..Len(file)
    BY <1>1, <1>3 DEF TailIsTorn, TypeOK
  <2>2. file' = [file EXCEPT ![Len(file)] = Glue(file[Len(file)], bytes)] /\ seen' = seen
    BY <1>3 DEF Put
  <2>3. Glue(file[Len(file)], bytes) \in Lines /\ Glue(file[Len(file)], bytes) \in Damage
    BY GlueIsDamage DEF Lines
  <2>4. /\ file' \in Seq(Lines) /\ Len(file') = Len(file)
        /\ file'[Len(file)] = Glue(file[Len(file)], bytes)
        /\ \A i \in 1..Len(file) : i # Len(file) => file'[i] = file[i]
    BY <1>1, <2>1, <2>2, <2>3
  <2>. QED  BY <1>1, <1>3, <2>1, <2>2, <2>3, <2>4 DEF Position, AfterPut
<1>. QED  BY <1>1, <1>2, <1>3 DEF TypeOK

-----------------------------------------------------------------------------
(* A call that begins, or gives up, leaves the file as it was.             *)
LEMMA QuietStep ==
  ASSUME Inv, NEW w \in Writers, NEW c \in Call,
         call' = [call EXCEPT ![w] = c], UNCHANGED <<file, ended, seen, torn, acked>>,
         c.phase = "append" =>
           /\ c.lines <= Len(file)
           /\ c.key \in Keys => \A i \in 1..c.lines : file[i] # c.key
  PROVE  Inv'
<1>1. TypeOK'
  BY DEF Inv, TypeOK
<1>2. ScansHold'
  BY DEF Inv, TypeOK, ScansHold
<1>3. DuplicatesOverlap' /\ TailIsTorn' /\ AnswersHold'
  BY DEF Inv, DuplicatesOverlap, TailIsTorn, AnswersHold
<1>. QED  BY <1>1, <1>2, <1>3 DEF Inv

LEMMA ScanStep == ASSUME Inv, NEW w \in Writers, NEW k \in Keys \cup {None}, Scan(w, k) PROVE Inv'
<1>1. PICK p \in {"append", "duplicate", "failed"} :
        /\ p = "append" => k = None \/ ~(Has(k) \/ Poisoned)
        /\ call' = [call EXCEPT ![w] = [phase |-> p, key |-> k, lines |-> Len(file)]]
  BY DEF Scan
<1>2. file \in Seq(Lines) /\ Len(file) \in Nat /\ None \notin Keys
  BY LedgerAssumption DEF Inv, TypeOK
<1> DEFINE c == [phase |-> p, key |-> k, lines |-> Len(file)]
<1>3. c \in Call
  BY <1>2 DEF Call, Answers
<1>4. ASSUME c.phase = "append", c.key \in Keys, NEW i \in 1..c.lines PROVE file[i] # c.key
  BY <1>1, <1>2, <1>4 DEF Has, Poisoned
<1>5. call' = [call EXCEPT ![w] = c]
  BY <1>1
<1>6. UNCHANGED <<file, ended, seen, torn, acked>>
  BY DEF Scan
<1>7. c.lines <= Len(file)
  BY <1>2
<1> HIDE DEF c
<1>. QED  BY <1>3, <1>4, <1>5, <1>6, <1>7, QuietStep

LEMMA GiveUpStep == ASSUME Inv, NEW w \in Writers, GiveUp(w) PROVE Inv'
<1>1. [call[w] EXCEPT !.phase = "failed"] \in Call
  BY DEF Inv, TypeOK, Call, Answers
<1>2. call' = [call EXCEPT ![w] = [call[w] EXCEPT !.phase = "failed"]]
  BY DEF GiveUp, Answer
<1>3. [call[w] EXCEPT !.phase = "failed"].phase = "failed"
  BY DEF Inv, TypeOK, Call
<1>. QED  BY <1>1, <1>2, <1>3, QuietStep DEF GiveUp

(* A write that answers "answer", cut or not.                              *)
LEMMA PutStep ==
  ASSUME Inv, NEW w \in Writers, NEW answer \in Answers, Answer(w, answer),
         NEW bytes \in Damage \cup {call[w].key}, Put(bytes, w)
  PROVE  /\ call' \in [Writers -> Call] /\ ScansHold' /\ DuplicatesOverlap'
<1>1. /\ call[w] \in Call /\ call[w].phase = "append" /\ bytes \in Lines
      /\ file \in Seq(Lines) /\ Len(file) \in Nat /\ Len(seen) = Len(file)
  BY DEF Inv, TypeOK, Answer, Call, Lines
<1>0. AfterPut(w, bytes)
  BY <1>1, PutBytes DEF Inv
<1>2. call' \in [Writers -> Call]
  BY DEF Inv, TypeOK, Answer, Call
<1>3. \A i \in 1..Len(file) : file'[i] = file[i] \/ file'[i] \in Damage
  BY <1>0, <1>1 DEF AfterPut
<1>4. Keys \cap Damage = {}
  BY LedgerAssumption
<1>5. ScansHold'
  <2>. SUFFICES ASSUME NEW v \in Writers, call'[v].phase = "append"
                PROVE  /\ call'[v].lines <= Len(file')
                       /\ call'[v].key \in Keys =>
                            \A i \in 1..call'[v].lines : file'[i] # call'[v].key
    BY DEF ScansHold
  <2>1. call'[v] = call[v] /\ call[v].lines \in Nat
    BY DEF Answer, Inv, TypeOK, Call, Answers
  <2>2. Len(file) <= Len(file') /\ Len(file') \in Nat
    BY <1>0, <1>1 DEF AfterPut
  <2>. QED  BY <1>1, <1>3, <1>4, <2>1, <2>2 DEF Inv, ScansHold
<1>6. DuplicatesOverlap'
  <2>. SUFFICES ASSUME NEW i \in DOMAIN file', NEW j \in DOMAIN file', i < j,
                       file'[i] = file'[j], file'[i] \in Keys
                PROVE  seen'[j] < i
    BY DEF DuplicatesOverlap
  <2>1. i \in 1..Len(file') /\ j \in 1..Len(file') /\ Len(file') \in Nat
    BY <1>0, <1>1 DEF AfterPut
  <2>2. i \in 1..Len(file) /\ file'[i] = file[i]
    BY <1>1, <1>3, <1>4, <2>1, <1>0 DEF AfterPut
  <2>3. CASE j \in 1..Len(file)
    <3>1. file'[j] = file[j]
      BY <1>3, <1>4, <2>2, <2>3
    <3>2. DOMAIN file = 1..Len(file)
      BY <1>1
    <3>3. seen[j] < i
      BY <2>2, <2>3, <3>1, <3>2 DEF Inv, DuplicatesOverlap
    <3>4. seen'[j] = seen[j]
      BY <1>1, <2>3, <1>0 DEF AfterPut
    <3>. QED  BY <3>3, <3>4
  <2>4. CASE j \notin 1..Len(file)
    <3>1. ended /\ j = Position /\ file'[j] = bytes /\ seen'[j] = call[w].lines
      BY <1>1, <2>1, <2>4, <1>0 DEF AfterPut
    <3>2. bytes = call[w].key /\ call[w].lines \in Nat
      BY <1>1, <1>4, <3>1 DEF Call
    <3>3. file[i] = call[w].key /\ call[w].key \in Keys
      BY <2>2, <3>1, <3>2
    <3>4. i \notin 1..call[w].lines
      BY <1>1, <3>3 DEF Inv, ScansHold
    <3>. QED  BY <2>1, <3>1, <3>2, <3>4
  <2>. QED  BY <2>3, <2>4
<1>. QED  BY <1>2, <1>5, <1>6

LEMMA WriteLineStep == ASSUME Inv, NEW w \in Writers, WriteLine(w) PROVE Inv'
<1>1. /\ Answer(w, "written") /\ "written" \in Answers /\ Put(call[w].key, w)
      /\ call[w].key \in Lines /\ call[w].key \in Keys \cup {None}
  BY DEF WriteLine, Inv, TypeOK, Call, Lines, Answers
<1>2. call' \in [Writers -> Call] /\ ScansHold' /\ DuplicatesOverlap'
  BY <1>1, PutStep
<1>3. /\ ended' = TRUE /\ torn' = torn /\ acked' = acked \cup {<<Position, call[w].key>>}
      /\ file \in Seq(Lines) /\ Len(file) \in Nat
      /\ torn \subseteq 1..Len(file) /\ acked \subseteq (1..Len(file)) \X (Keys \cup {None})
  BY DEF WriteLine, Inv, TypeOK
<1>4. /\ file' \in Seq(Lines) /\ seen' \in Seq(Nat) /\ Len(seen') = Len(file')
      /\ Position \in 1..Len(file') /\ Len(file) <= Len(file') /\ Len(file') \in Nat
      /\ \A i \in 1..Len(file) : i # Position => file'[i] = file[i]
      /\ ended => Position = Len(file) + 1 /\ file'[Position] = call[w].key
      /\ ~ended => Position = Len(file)
  <2>1. AfterPut(w, call[w].key)
    BY <1>1, PutBytes DEF Inv
  <2>. QED  BY <2>1 DEF AfterPut
<1>5. TypeOK'
  <2>1. DOMAIN file' = 1..Len(file')
    BY <1>4
  <2>2. torn' \subseteq 1..Len(file')
    BY <1>3, <1>4
  <2>3. acked' \subseteq (1..Len(file')) \X (Keys \cup {None})
    BY <1>1, <1>3, <1>4
  <2>. QED  BY <1>2, <1>3, <1>4, <2>1, <2>2, <2>3 DEF TypeOK
<1>6. \A a \in acked : a[1] # Position
  BY <1>3, <1>4 DEF Inv, TailIsTorn
<1>7. AnswersHold'
  <2>1. ASSUME NEW a \in acked' PROVE file'[a[1]] = a[2] \/ a[1] \in torn'
    <3>1. CASE a \in acked
      BY <1>3, <1>4, <1>6, <3>1 DEF Inv, AnswersHold
    <3>2. CASE a = <<Position, call[w].key>> /\ ended
      BY <1>4, <3>2
    <3>3. CASE a = <<Position, call[w].key>> /\ ~ended
      BY <1>3, <1>4, <3>3 DEF Inv, TailIsTorn
    <3>. QED  BY <1>3, <3>1, <3>2, <3>3
  <2>2. ASSUME NEW a \in acked', NEW b \in acked', a[1] = b[1] PROVE a = b
    <3>1. CASE a \in acked /\ b \in acked
      BY <2>2, <3>1 DEF Inv, AnswersHold
    <3>2. CASE a \notin acked \/ b \notin acked
      BY <1>3, <1>6, <2>2, <3>2
    <3>. QED  BY <3>1, <3>2
  <2>. QED  BY <2>1, <2>2 DEF AnswersHold
<1>. QED  BY <1>2, <1>3, <1>5, <1>7 DEF Inv, TailIsTorn

LEMMA TearStep == ASSUME Inv, NEW w \in Writers, Tear(w) PROVE Inv'
<1>1. PICK bytes \in Damage \cup {call[w].key} : Put(bytes, w)
  BY DEF Tear
<1>2. Answer(w, "failed") /\ "failed" \in Answers /\ bytes \in Lines
  BY DEF Tear, Inv, TypeOK, Call, Lines, Answers
<1>3. call' \in [Writers -> Call] /\ ScansHold' /\ DuplicatesOverlap'
  BY <1>1, <1>2, PutStep
<1>4. /\ ended' = FALSE /\ torn' = torn \cup {Position} /\ acked' = acked
      /\ file \in Seq(Lines) /\ Len(file) \in Nat
      /\ torn \subseteq 1..Len(file) /\ acked \subseteq (1..Len(file)) \X (Keys \cup {None})
  BY DEF Tear, Inv, TypeOK
<1>5. /\ file' \in Seq(Lines) /\ seen' \in Seq(Nat) /\ Len(seen') = Len(file')
      /\ Position \in 1..Len(file') /\ Len(file') = Position
      /\ Len(file) <= Len(file') /\ Len(file') \in Nat
      /\ \A i \in 1..Len(file) : i # Position => file'[i] = file[i]
      /\ ended => Position = Len(file) + 1
      /\ ~ended => Position = Len(file)
  <2>1. AfterPut(w, bytes)
    BY <1>1, <1>2, PutBytes DEF Inv
  <2>. QED  BY <2>1 DEF AfterPut
<1>6. TypeOK'
  <2>1. DOMAIN file' = 1..Len(file')
    BY <1>5
  <2>2. torn' \subseteq 1..Len(file') /\ acked' \subseteq (1..Len(file')) \X (Keys \cup {None})
    BY <1>4, <1>5
  <2>. QED  BY <1>3, <1>4, <1>5, <2>1, <2>2 DEF TypeOK
<1>7. \A a \in acked : a[1] # Position
  BY <1>4, <1>5 DEF Inv, TailIsTorn
<1>8. AnswersHold'
  BY <1>4, <1>5, <1>7 DEF Inv, AnswersHold
<1>9. TailIsTorn'
  BY <1>4, <1>5, <1>7 DEF TailIsTorn
<1>. QED  BY <1>3, <1>6, <1>8, <1>9 DEF Inv

LEMMA NextInv == Inv /\ [Next]_vars => Inv'
<1>. SUFFICES ASSUME Inv, [Next]_vars PROVE Inv'
  OBVIOUS
<1>1. CASE UNCHANGED vars
  BY <1>1 DEF vars, Inv, TypeOK, ScansHold, DuplicatesOverlap, TailIsTorn, AnswersHold
<1>2. CASE Next
  BY <1>2, ScanStep, WriteLineStep, TearStep, GiveUpStep DEF Next, Step
<1>. QED  BY <1>1, <1>2

(* The inductive invariant: what scans have read, what cut writes left,    *)
(* and what answered rows are on.                                          *)
THEOREM Invariance == Spec => []Inv
BY InitInv, NextInv, PTL DEF Spec

(* Type correctness of the file and of the calls. *)
THEOREM TypeCorrect == Spec => []TypeOK
<1>1. Inv => TypeOK
  BY DEF Inv
<1>. QED  BY <1>1, Invariance, PTL

(* One key has two rows only if the second row's writer had scanned before *)
(* the first was there.                                                    *)
THEOREM OnlyOverlapsDuplicate == Spec => []DuplicatesOverlap
<1>1. Inv => DuplicatesOverlap
  BY DEF Inv
<1>. QED  BY <1>1, Invariance, PTL

(* An answered row is lost only to a write cut on its own line, and no     *)
(* such write costs two.                                                   *)
THEOREM LossBounded == Spec => []LossIsBounded
<1>1. Inv => LossIsBounded
  BY DEF Inv, AnswersHold, LossIsBounded
<1>. QED  BY <1>1, Invariance, PTL

-----------------------------------------------------------------------------
(* What a step of a writer does to the file, in one of three ways.         *)
LEMMA StepOnFile ==
  ASSUME Inv, NEW w \in Writers, Step(w)
  PROVE  \/ UNCHANGED <<file, ended>>
         \/ \E bytes \in Lines : Put(bytes, w)
<1>1. call[w].key \in Lines
  BY DEF Inv, TypeOK, Call, Lines
<1>2. Damage \subseteq Lines
  BY DEF Lines
<1>. QED  BY <1>1, <1>2 DEF Step, Scan, WriteLine, Tear, GiveUp

(* A line that has its newline is never touched again. *)
THEOREM EntriesSpared == Spec => CrashSparesEntries
<1>1. ASSUME Inv, [Next]_vars, NEW i \in DOMAIN file, i < Len(file) \/ ended
      PROVE  i \in DOMAIN file' /\ file'[i] = file[i]
  <2>1. file \in Seq(Lines) /\ Len(file) \in Nat /\ i \in 1..Len(file)
    BY <1>1 DEF Inv, TypeOK
  <2>2. ASSUME NEW w \in Writers, NEW bytes \in Lines, Put(bytes, w)
        PROVE  i \in DOMAIN file' /\ file'[i] = file[i]
    <3>1. i # Position
      BY <1>1, <2>1 DEF Position
    <3>2. AfterPut(w, bytes)
      BY <1>1, <2>2, PutBytes DEF Inv
    <3>3. i \in DOMAIN file'
      BY <2>1, <3>2 DEF AfterPut
    <3>4. file'[i] = file[i]
      BY <2>1, <3>1, <3>2 DEF AfterPut
    <3>. QED  BY <3>3, <3>4
  <2>3. CASE UNCHANGED file
    BY <2>1, <2>3
  <2>4. CASE Next
    BY <1>1, <2>2, <2>3, <2>4, StepOnFile DEF Next
  <2>. QED  BY <1>1, <2>3, <2>4 DEF vars
<1>2. Inv /\ [Next]_vars => [\A i \in DOMAIN file : (i < Len(file) \/ ended) =>
                             i \in DOMAIN file' /\ file'[i] = file[i]]_vars
  BY <1>1
<1>. QED  BY <1>2, Invariance, PTL DEF Spec, CrashSparesEntries

-----------------------------------------------------------------------------
(* The keys with a readable row, after bytes have been put.                *)
LEMMA RecordedAfter ==
  ASSUME Inv, NEW w \in Writers, NEW bytes \in Lines, Put(bytes, w)
  PROVE  /\ ended => recorded' = recorded \cup ({bytes} \cap Keys)
         /\ ~ended => recorded \ {tail} \subseteq recorded' /\ recorded' \subseteq recorded
         /\ ended => file'[Len(file')] = bytes
         /\ ~ended => file'[Len(file')] \in Damage
<1>0. AfterPut(w, bytes)
  BY PutBytes DEF Inv
<1>1. /\ file \in Seq(Lines) /\ Len(file) \in Nat /\ file' \in Seq(Lines) /\ Len(file') \in Nat
      /\ DOMAIN file = 1..Len(file) /\ DOMAIN file' = 1..Len(file')
  BY <1>0 DEF AfterPut, Inv, TypeOK
<1>2. /\ Len(file') = Position
      /\ \A i \in 1..Len(file) : i # Position => file'[i] = file[i]
      /\ ended => Position = Len(file) + 1 /\ file'[Position] = bytes
      /\ ~ended => Position = Len(file) /\ file'[Position] \in Damage
  BY <1>0 DEF AfterPut
<1>3. ASSUME ended PROVE recorded' = recorded \cup ({bytes} \cap Keys)
  <2>1. ASSUME NEW k \in recorded' PROVE k \in recorded \cup ({bytes} \cap Keys)
    BY <1>1, <1>2, <1>3, <2>1 DEF recorded
  <2>2. ASSUME NEW k \in recorded PROVE k \in recorded'
    BY <1>1, <1>2, <1>3, <2>2 DEF recorded
  <2>3. ASSUME bytes \in Keys PROVE bytes \in recorded'
    BY <1>1, <1>2, <1>3, <2>3 DEF recorded
  <2>. QED  BY <2>1, <2>2, <2>3
<1>4. ASSUME ~ended PROVE recorded \ {tail} \subseteq recorded' /\ recorded' \subseteq recorded
  <2>1. Keys \cap Damage = {}
    BY LedgerAssumption
  <2>2. ASSUME NEW k \in recorded' PROVE k \in recorded
    BY <1>1, <1>2, <1>4, <2>1, <2>2 DEF recorded
  <2>3. ASSUME NEW k \in recorded, k # tail PROVE k \in recorded'
    <3>1. PICK i \in 1..Len(file) : file[i] = k
      BY <1>1, <2>3 DEF recorded
    <3>2. i # Position
      BY <1>2, <1>4, <2>3, <3>1 DEF tail
    <3>. QED  BY <1>1, <1>2, <1>4, <2>3, <3>1, <3>2 DEF recorded
  <2>. QED  BY <2>2, <2>3
<1>. QED  BY <1>2, <1>3, <1>4

(* An append that ends is an End of RecordStore. *)
LEMMA AnswerIsEnd ==
  ASSUME Inv, NEW w \in Writers, NEW answer \in Answers, Answer(w, answer)
  PROVE  Store!End(w, answer)
<1>1. stage[w].phase = "append" /\ stage[w].key = call[w].key
  BY DEF stage, Answer
<1>2. /\ call'[w].phase = answer /\ call'[w].key = call[w].key
      /\ \A v \in Writers : v # w => call'[v] = call[v]
  BY DEF Answer, Inv, TypeOK, Call
<1>3. stage' = [stage EXCEPT ![w] = [phase |-> answer, key |-> stage[w].key]]
  BY <1>1, <1>2 DEF stage
<1>. QED  BY <1>1, <1>3 DEF Store!End

LEMMA ScanIsAsk ==
  ASSUME Inv, NEW w \in Writers, NEW k \in Keys \cup {None}, Scan(w, k)
  PROVE  Store!Ask(w, k)
<1>1. PICK p \in {"append", "duplicate", "failed"} :
        /\ p = "append"    => k = None \/ ~(Has(k) \/ Poisoned)
        /\ p = "duplicate" => k # None /\ Has(k)
        /\ call' = [call EXCEPT ![w] = [phase |-> p, key |-> k, lines |-> Len(file)]]
  BY DEF Scan
<1>2. stage[w].phase # "append"
  BY DEF Scan, stage
<1>3. ASSUME p = "append" PROVE k \notin recorded
  <2>1. CASE k = None
    BY <2>1, LedgerAssumption DEF recorded
  <2>2. CASE ~(Has(k) \/ Poisoned)
    <3>1. /\ file \in Seq(Lines) /\ Len(file) \in Nat /\ DOMAIN file = 1..Len(file)
      BY DEF Inv, TypeOK
    <3>2. \A j \in DOMAIN file : file[j] # "undecodable"
      BY <2>2 DEF Poisoned
    <3>3. ASSUME NEW i \in DOMAIN file, file[i] = k PROVE FALSE
      <4>1. \A j \in 1..i : j \in DOMAIN file
        BY <3>1
      <4>. QED  BY <2>2, <3>2, <3>3, <4>1 DEF Has
    <3>. QED  BY <3>3 DEF recorded
  <2>. QED  BY <1>1, <1>3, <2>1, <2>2
<1>4. p = "duplicate" => k \in recorded
  BY <1>1 DEF recorded, Has
<1>5. stage' = [stage EXCEPT ![w] = [phase |-> p, key |-> k]]
  BY <1>1 DEF stage, Inv, TypeOK
<1>6. UNCHANGED <<recorded, tail>>
  BY DEF Scan, recorded, tail
<1>. QED  BY <1>1, <1>2, <1>3, <1>4, <1>5, <1>6 DEF Store!Ask

(* The tail is "ended" exactly when the file is. *)
LEMMA TailTells == ASSUME Inv PROVE tail = "ended" <=> ended
<1>1. CASE ended
  BY <1>1 DEF tail
<1>2. CASE ~ended
  <2>1. Len(file) \in DOMAIN file /\ file \in Seq(Lines)
    BY <1>2 DEF Inv, TypeOK, TailIsTorn
  <2>. QED  BY <1>2, <2>1, LedgerAssumption DEF tail
<1>. QED  BY <1>1, <1>2

LEMMA WriteLineIsWrite ==
  ASSUME Inv, NEW w \in Writers, WriteLine(w) PROVE Store!Write(w)
<1>1. Answer(w, "written") /\ "written" \in Answers /\ Put(call[w].key, w) /\ ended' = TRUE
  BY DEF WriteLine, Answers
<1>2. call[w].key \in Lines
  BY DEF Inv, TypeOK, Call, Lines
<1>3. Store!End(w, "written") /\ tail' = "ended" /\ stage[w].key = call[w].key
  BY <1>1, AnswerIsEnd DEF tail, stage
<1>4. /\ ended => recorded' = recorded \cup ({call[w].key} \cap Keys)
      /\ ~ended => recorded \ {tail} \subseteq recorded' /\ recorded' \subseteq recorded
  BY <1>1, <1>2, RecordedAfter
<1>5. \/ tail = "ended" /\ recorded' = recorded \cup ({stage[w].key} \cap Keys)
      \/ tail # "ended" /\ Store!TailMayGoUnder
  BY <1>3, <1>4, TailTells DEF Store!TailMayGoUnder
<1>. QED  BY <1>3, <1>5 DEF Store!Write

LEMMA TearIsTear ==
  ASSUME Inv, NEW w \in Writers, Tear(w) PROVE Store!Tear(w)
<1>1. PICK bytes \in Damage \cup {call[w].key} : Put(bytes, w)
  BY DEF Tear
<1>2. Answer(w, "failed") /\ "failed" \in Answers /\ bytes \in Lines /\ ended' = FALSE
  BY DEF Tear, Inv, TypeOK, Call, Lines, Answers
<1>3. Store!End(w, "failed") /\ tail' = file'[Len(file')] /\ stage[w].key = call[w].key
  BY <1>2, AnswerIsEnd DEF tail, stage
<1>4. /\ ended => recorded' = recorded \cup ({bytes} \cap Keys)
      /\ ~ended => recorded \ {tail} \subseteq recorded' /\ recorded' \subseteq recorded
      /\ ended => file'[Len(file')] = bytes
      /\ ~ended => file'[Len(file')] \in Damage
  BY <1>1, <1>2, RecordedAfter
<1>5. CASE ended
  <2>1. tail' = bytes /\ tail = "ended" /\ tail' \in Store!Damage \cup {stage[w].key}
    BY <1>1, <1>3, <1>4, <1>5, TailTells DEF Store!Damage, Damage
  <2>. QED  BY <1>3, <1>4, <1>5, <2>1 DEF Store!Tear
<1>6. CASE ~ended
  BY <1>3, <1>4, <1>6, TailTells DEF Store!Tear, Store!TailMayGoUnder, Store!Damage, Damage
<1>. QED  BY <1>5, <1>6

LEMMA GiveUpIsGiveUp ==
  ASSUME Inv, NEW w \in Writers, GiveUp(w) PROVE Store!GiveUp(w)
<1>1. Store!End(w, "failed")
  BY AnswerIsEnd DEF GiveUp, Answers
<1>2. UNCHANGED <<recorded, tail>>
  BY DEF GiveUp, recorded, tail
<1>. QED  BY <1>1, <1>2 DEF Store!GiveUp

(* The file of lines implements the abstract store of keys: every step of  *)
(* a writer is the step of RecordStore that its answer stands for.         *)
THEOREM StoreImplemented == Spec => ImplementsRecordStore
<1>1. Init => Store!Init
  BY DEF Init, Store!Init, recorded, tail, stage
<1>2. Inv /\ [Next]_vars => [Store!Next]_(Store!vars)
  <2>. SUFFICES ASSUME Inv, [Next]_vars PROVE Store!Next \/ UNCHANGED Store!vars
    OBVIOUS
  <2>1. CASE UNCHANGED vars
    BY <2>1 DEF vars, Store!vars, recorded, tail, stage
  <2>2. ASSUME NEW w \in Writers, Step(w) PROVE Store!Next
    BY <2>2, ScanIsAsk, WriteLineIsWrite, TearIsTear, GiveUpIsGiveUp DEF Step, Store!Next
  <2>. QED  BY <2>1, <2>2 DEF Next
<1>. QED  BY <1>1, <1>2, Invariance, PTL DEF Spec, ImplementsRecordStore, Store!Spec
=============================================================================
