--------------------------- MODULE Delivery_proofs ---------------------------
(***************************************************************************)
(* Proofs about notifications, for any number of them: nothing vanishes,   *)
(* and what a dead letter and a second copy in the channel say of the      *)
(* answers the process had, and that a call cannot go on for ever.         *)
(***************************************************************************)
EXTENDS Delivery, TLAPS

Attempts == 1..MaxAttempts

LEMMA SomeAttempts == MaxAttempts \in Nat \ {0}
BY DEF MaxAttempts

(* A POST was made by its process, is in one place, and an answer tells    *)
(* the truth about it.                                                     *)
PostsHold ==
  \A n \in Notices, i \in Attempts :
    /\ <<n, i>> \in wire \cup channel => i <= call[n].attempt
    /\ \A s \in Statuses : <<n, i, s>> \in answers => i <= call[n].attempt
    /\ <<n, i>> \in wire =>
         <<n, i>> \notin channel /\ \A s \in Statuses : <<n, i, s>> \notin answers
    /\ <<n, i, "ok">> \in answers => <<n, i>> \in channel
    /\ <<n, i, "refused">> \in answers => <<n, i>> \notin channel

(* Every POST but the last has had no usable answer. *)
EarlierPostsHold ==
  \A n \in Notices :
    /\ \A i \in Attempts : i < call[n].attempt => <<n, i>> \in doubtful
    /\ call[n].phase = "idle" => call[n].attempt = 0
    /\ call[n].phase = "waiting" => call[n].attempt # 0
    /\ call[n].phase = "post" =>
         /\ call[n].attempt < MaxAttempts
         /\ call[n].attempt # 0 => Attempt(n) \in doubtful

(* Why a notice becomes a dead letter. *)
Earned(n) ==
  \/ <<n, call[n].attempt, "refused">> \in answers
  \/ <<n, call[n].attempt, "garbled">> \in answers /\ Attempt(n) \in doubtful
  \/ \A i \in Attempts : <<n, i>> \in doubtful

EndsHold ==
  \A n \in Notices :
    /\ (call[n].phase = "failed" \/ n \in letters \cup unwritten) => Earned(n)
    /\ n \in letters \cup unwritten => call[n].phase = "returned"
    /\ call[n].phase = "returned" =>
         n \in letters \cup unwritten \/ \E i \in Attempts : <<n, i>> \in channel

(* The inductive invariant. *)
Inv == TypeOK /\ PostsHold /\ EarlierPostsHold /\ EndsHold

-----------------------------------------------------------------------------
LEMMA InitInv == Init => Inv
BY SomeAttempts
   DEF Init, Inv, TypeOK, PostsHold, EarlierPostsHold, EndsHold, Posts, Attempts, UnderWay, Ended

(* What a call is made of. *)
LEMMA TypedCall ==
  ASSUME TypeOK, NEW n \in Notices
  PROVE  /\ call[n].phase \in {"idle"} \cup UnderWay \cup Ended
         /\ call[n].attempt \in 0..MaxAttempts /\ call[n].attempt \in Nat /\ MaxAttempts \in Nat
         /\ call[n] = [phase |-> call[n].phase, attempt |-> call[n].attempt]
BY SomeAttempts DEF TypeOK

LEMMA AttemptsCount == \A i \in Attempts : i \in Nat /\ i # 0
BY DEF Attempts

(* A process moves on without making a POST: the rest is up to where it    *)
(* goes.                                                                   *)
LEMMA MoveStep ==
  ASSUME Inv, NEW n \in Notices, NEW phase \in {"idle"} \cup UnderWay \cup Ended,
         Moves(n, phase), UNCHANGED <<wire, answers, channel>>,
         call[n].phase \in {"idle"} \cup UnderWay, phase # "idle", phase # "waiting",
         doubtful' \in {doubtful, doubtful \cup {Attempt(n)}},
         doubtful' # doubtful => call[n].attempt # 0,
         letters' \in {letters, letters \cup {n}},
         unwritten' \in {unwritten, unwritten \cup {n}},
         phase = "post" => /\ call[n].attempt < MaxAttempts
                           /\ call[n].attempt # 0 => Attempt(n) \in doubtful',
         phase = "failed" => Earned(n)',
         (letters' # letters \/ unwritten' # unwritten) => Earned(n) /\ phase = "returned",
         phase = "returned" =>
           n \in letters' \cup unwritten' \/ \E i \in Attempts : <<n, i>> \in channel
  PROVE  Inv'
<1>1. /\ \A m \in Notices : call'[m].attempt = call[m].attempt
      /\ \A m \in Notices : m # n => call'[m] = call[m]
      /\ call'[n].phase = phase
      /\ call' \in [Notices -> [phase: {"idle"} \cup UnderWay \cup Ended, attempt: 0..MaxAttempts]]
  BY DEF Moves, Inv, TypeOK
<1>2. doubtful \subseteq doubtful' /\ doubtful' \subseteq Posts
  BY TypedCall DEF Attempt, Inv, TypeOK, Posts
<1>3. TypeOK'
  BY <1>1, <1>2 DEF Inv, TypeOK
<1>4. PostsHold'
  BY <1>1 DEF Inv, PostsHold
<1>5. EarlierPostsHold'
  <2>. SUFFICES ASSUME NEW m \in Notices
                PROVE  /\ \A i \in Attempts : i < call'[m].attempt => <<m, i>> \in doubtful'
                       /\ call'[m].phase = "idle" => call'[m].attempt = 0
                       /\ call'[m].phase = "waiting" => call'[m].attempt # 0
                       /\ call'[m].phase = "post" =>
                            /\ call'[m].attempt < MaxAttempts
                            /\ call'[m].attempt # 0 => Attempt(m)' \in doubtful'
    BY DEF EarlierPostsHold
  <2>1. Attempt(m)' = Attempt(m)
    BY <1>1 DEF Attempt
  <2>2. CASE m = n
    BY <1>1, <1>2, <2>1, <2>2 DEF Inv, EarlierPostsHold
  <2>3. CASE m # n
    BY <1>1, <1>2, <2>1, <2>3 DEF Inv, EarlierPostsHold
  <2>. QED  BY <2>2, <2>3
<1>6. \A m \in Notices : Earned(m) => Earned(m)'
  BY <1>1, <1>2 DEF Earned, Attempt
<1>7. EndsHold'
  <2>. SUFFICES ASSUME NEW m \in Notices
                PROVE  /\ call'[m].phase = "failed" => Earned(m)'
                       /\ m \in letters' \cup unwritten' => Earned(m)'
                       /\ m \in letters' \cup unwritten' => call'[m].phase = "returned"
                       /\ call'[m].phase = "returned" =>
                            \/ m \in letters' \cup unwritten'
                            \/ \E i \in Attempts : <<m, i>> \in channel'
    BY DEF EndsHold
  <2>1. CASE m = n
    <3>1. n \notin letters \cup unwritten
      BY DEF Inv, EndsHold, UnderWay
    <3>. QED  BY <1>1, <1>6, <2>1, <3>1
  <2>2. CASE m # n
    <3>1. (m \in letters' <=> m \in letters) /\ (m \in unwritten' <=> m \in unwritten)
      BY <2>2
    <3>. QED  BY <1>1, <1>6, <2>2, <3>1 DEF Inv, EndsHold
  <2>. QED  BY <2>1, <2>2
<1>. QED  BY <1>3, <1>4, <1>5, <1>7 DEF Inv
LEMMA QuietStep ==
  ASSUME Inv, NEW n \in Notices, Begin(n) \/ Crash(n) PROVE Inv'
<1>1. CASE Begin(n)
  <2>1. call[n].attempt = 0 /\ MaxAttempts \in Nat \ {0}
    BY <1>1, SomeAttempts DEF Begin, Inv, EarlierPostsHold
  <2>. QED  BY <1>1, <2>1, MoveStep DEF Begin, UnderWay
<1>2. CASE Crash(n)
  BY <1>2, MoveStep DEF Crash, UnderWay, Ended
<1>. QED  BY <1>1, <1>2

LEMMA NoAnswerStep == ASSUME Inv, NEW n \in Notices, NoAnswer(n) PROVE Inv'
<1>1. PICK phase \in {"post", "failed"} :
        /\ Moves(n, phase)
        /\ phase = "post" => call[n].attempt < MaxAttempts
        /\ phase = "failed" => ~(call[n].attempt < MaxAttempts)
  BY DEF NoAnswer, Retry
<1>2. /\ call[n].phase = "waiting" /\ doubtful' = doubtful \cup {Attempt(n)}
      /\ UNCHANGED <<wire, answers, channel, letters, unwritten>>
  BY DEF NoAnswer
<1>3. /\ call[n].attempt # 0 /\ call[n].attempt \in 0..MaxAttempts /\ MaxAttempts \in Nat
      /\ \A i \in Attempts : i < call[n].attempt => <<n, i>> \in doubtful
  BY <1>2, TypedCall DEF Inv, EarlierPostsHold
<1>4. ASSUME phase = "failed" PROVE Earned(n)'
  <2>1. call[n].attempt = MaxAttempts
    BY <1>1, <1>3, <1>4
  <2>2. ASSUME NEW i \in Attempts PROVE <<n, i>> \in doubtful'
    <3>1. i < call[n].attempt \/ i = call[n].attempt
      BY <1>3, <2>1 DEF Attempts
    <3>. QED  BY <1>2, <1>3, <3>1 DEF Attempt
  <2>. QED  BY <2>2 DEF Earned
<1>. QED  BY <1>1, <1>2, <1>3, <1>4, MoveStep DEF UnderWay

LEMMA AnsweredStep == ASSUME Inv, NEW n \in Notices, Answered(n) PROVE Inv'
<1>1. PICK status \in {"ok", "refused", "garbled"} :
        /\ <<n, call[n].attempt, status>> \in answers /\ Moves(n, After(status))
        /\ doubtful' = IF status = "garbled" THEN doubtful \cup {Attempt(n)} ELSE doubtful
  BY DEF Answered
<1>2. /\ call[n].phase = "waiting" /\ UNCHANGED <<wire, answers, channel, letters, unwritten>>
  BY DEF Answered
<1>3. /\ call[n].attempt \in Attempts /\ call'[n].attempt = call[n].attempt
  BY <1>1, <1>2, TypedCall DEF Inv, EarlierPostsHold, Attempts, Moves, TypeOK
<1>4. CASE status = "ok"
  <2>1. <<n, call[n].attempt>> \in channel
    BY <1>1, <1>3, <1>4 DEF Inv, PostsHold
  <2>. QED  BY <1>1, <1>2, <1>3, <1>4, <2>1, MoveStep DEF UnderWay, Ended, After
<1>5. CASE status # "ok"
  <2>1. Earned(n)'
    BY <1>1, <1>2, <1>3, <1>5 DEF Earned, Attempt
  <2>2. call[n].attempt # 0
    BY <1>2 DEF Inv, EarlierPostsHold
  <2>. QED  BY <1>1, <1>2, <1>5, <2>1, <2>2, MoveStep DEF UnderWay, After
<1>. QED  BY <1>4, <1>5

LEMMA DeadLetterStep == ASSUME Inv, NEW n \in Notices, DeadLetter(n) PROVE Inv'
<1>1. /\ call[n].phase = "failed" /\ Moves(n, "returned")
      /\ UNCHANGED <<wire, answers, channel, doubtful>>
      /\ letters' \in {letters, letters \cup {n}} /\ unwritten' \in {unwritten, unwritten \cup {n}}
      /\ n \in letters' \cup unwritten'
  BY DEF DeadLetter
<1>2. Earned(n)
  BY <1>1 DEF Inv, EndsHold
<1>. QED  BY <1>1, <1>2, MoveStep DEF UnderWay, Ended

LEMMA SendStep == ASSUME Inv, NEW n \in Notices, Send(n) PROVE Inv'
<1>1. /\ call[n].phase = "post" /\ call[n].attempt \in 0..MaxAttempts
      /\ call[n].attempt < MaxAttempts /\ MaxAttempts \in Nat
      /\ call[n].attempt # 0 => Attempt(n) \in doubtful
  BY TypedCall DEF Send, Inv, EarlierPostsHold
<1> DEFINE k == call[n].attempt + 1
<1>2. /\ call'[n].phase = "waiting" /\ call'[n].attempt = k /\ k \in Attempts
      /\ \A m \in Notices : m # n => call'[m] = call[m]
      /\ call' \in [Notices -> [phase: {"idle"} \cup UnderWay \cup Ended, attempt: 0..MaxAttempts]]
  BY <1>1 DEF Send, Inv, TypeOK, Attempts, UnderWay
<1>3. wire' = wire \cup {<<n, k>>} /\ UNCHANGED <<answers, channel, letters, doubtful, unwritten>>
  BY DEF Send
<1>4. /\ <<n, k>> \notin channel /\ \A s \in Statuses : <<n, k, s>> \notin answers
  <2>1. ~(k <= call[n].attempt)
    BY <1>1
  <2> HIDE DEF k
  <2>. QED  BY <1>2, <2>1 DEF Inv, PostsHold
<1>5. TypeOK'
  BY <1>2, <1>3 DEF Inv, TypeOK, Posts, Attempts
<1>6. \A m \in Notices : call[m].attempt <= call'[m].attempt
  BY <1>1, <1>2, TypedCall DEF Inv
<1>7. PostsHold'
  <2>. SUFFICES ASSUME NEW m \in Notices, NEW i \in Attempts
                PROVE  /\ <<m, i>> \in wire' \cup channel => i <= call'[m].attempt
                       /\ \A s \in Statuses : <<m, i, s>> \in answers => i <= call'[m].attempt
                       /\ <<m, i>> \in wire' =>
                            /\ <<m, i>> \notin channel
                            /\ \A s \in Statuses : <<m, i, s>> \notin answers
                       /\ <<m, i, "ok">> \in answers => <<m, i>> \in channel
                       /\ <<m, i, "refused">> \in answers => <<m, i>> \notin channel
    BY <1>3 DEF PostsHold
  <2>1. CASE m = n /\ i = k
    BY <1>2, <1>4, <2>1 DEF Statuses
  <2>2. CASE ~(m = n /\ i = k)
    <3>1. <<m, i>> \in wire' <=> <<m, i>> \in wire
      BY <1>3, <2>2
    <3>2. call[m].attempt \in Nat /\ call'[m].attempt \in Nat /\ i \in Nat
      <4>1. call[m].attempt \in Nat /\ i \in Nat
        BY TypedCall, AttemptsCount DEF Inv
      <4>2. call'[m].attempt \in 0..MaxAttempts
        BY <1>2
      <4>. QED  BY <4>1, <4>2
    <3>. QED  BY <1>6, <3>1, <3>2 DEF Inv, PostsHold
  <2>. QED  BY <2>1, <2>2
<1>8. EarlierPostsHold'
  <2>. SUFFICES ASSUME NEW m \in Notices
                PROVE  /\ \A i \in Attempts : i < call'[m].attempt => <<m, i>> \in doubtful
                       /\ call'[m].phase = "idle" => call'[m].attempt = 0
                       /\ call'[m].phase = "waiting" => call'[m].attempt # 0
                       /\ call'[m].phase = "post" =>
                            /\ call'[m].attempt < MaxAttempts
                            /\ call'[m].attempt # 0 => Attempt(m)' \in doubtful
    BY <1>3 DEF EarlierPostsHold
  <2>1. CASE m = n
    <3>1. ASSUME NEW i \in Attempts, i < k PROVE <<n, i>> \in doubtful
      <4>1. i < call[n].attempt \/ (i = call[n].attempt /\ call[n].attempt # 0)
        BY <1>1, <3>1 DEF Attempts
      <4>. QED  BY <1>1, <3>1, <4>1 DEF Inv, EarlierPostsHold, Attempt
    <3>2. k # 0
      BY <1>1
    <3>. QED  BY <1>2, <2>1, <3>1, <3>2
  <2>2. CASE m # n
    BY <1>2, <2>2 DEF Inv, EarlierPostsHold, Attempt
  <2>. QED  BY <2>1, <2>2
<1>9. EndsHold'
  <2>1. n \notin letters \cup unwritten
    BY <1>1 DEF Inv, EndsHold
  <2>2. \A m \in Notices : m # n /\ Earned(m) => Earned(m)'
    BY <1>2, <1>3 DEF Earned, Attempt
  <2>. QED  BY <1>2, <1>3, <2>1, <2>2 DEF Inv, EndsHold
<1>. QED  BY <1>5, <1>7, <1>8, <1>9 DEF Inv

LEMMA NetworkStep == ASSUME Inv, NEW p \in wire, Arrives(p) \/ Lost(p) PROVE Inv'
<1>1. PICK n \in Notices, k \in Attempts : p = <<n, k>>
  BY DEF Inv, TypeOK, Posts, Attempts
<1>2. UNCHANGED <<call, letters, doubtful, unwritten>> /\ wire' = wire \ {<<n, k>>}
  BY <1>1 DEF Arrives, Lost
<1>3. /\ <<n, k>> \in wire /\ k <= call[n].attempt
      /\ <<n, k>> \notin channel /\ \A s \in Statuses : <<n, k, s>> \notin answers
  BY <1>1 DEF Inv, PostsHold
<1>4. CASE UNCHANGED <<answers, channel>>
  <2>1. TypeOK'
    BY <1>2, <1>4 DEF Inv, TypeOK
  <2>2. PostsHold'
    BY <1>2, <1>4 DEF Inv, PostsHold
  <2>3. EarlierPostsHold' /\ EndsHold'
    BY <1>2, <1>4 DEF Inv, EarlierPostsHold, EndsHold, Attempt, Earned
  <2>. QED  BY <2>1, <2>2, <2>3 DEF Inv
<1>5. ASSUME NEW status \in Statuses,
             answers' = answers \cup {<<n, k, status>>},
             channel' \in {channel, channel \cup {<<n, k>>}},
             status = "ok" => <<n, k>> \in channel', status = "refused" => channel' = channel
      PROVE  Inv'
  <2>1. TypeOK'
    BY <1>2, <1>5 DEF Inv, TypeOK, Posts, Attempts
  <2>2. PostsHold'
    <3>. SUFFICES ASSUME NEW m \in Notices, NEW i \in Attempts
                  PROVE  /\ <<m, i>> \in wire' \cup channel' => i <= call[m].attempt
                         /\ \A s \in Statuses : <<m, i, s>> \in answers' => i <= call[m].attempt
                         /\ <<m, i>> \in wire' =>
                              /\ <<m, i>> \notin channel'
                              /\ \A s \in Statuses : <<m, i, s>> \notin answers'
                         /\ <<m, i, "ok">> \in answers' => <<m, i>> \in channel'
                         /\ <<m, i, "refused">> \in answers' => <<m, i>> \notin channel'
      BY <1>2 DEF PostsHold
    <3>1. CASE m = n /\ i = k
      <4>1. \A s \in Statuses : <<m, i, s>> \in answers' => s = status
        BY <1>3, <1>5, <3>1
      <4>. QED  BY <1>2, <1>3, <1>5, <3>1, <4>1 DEF Statuses
    <3>2. CASE ~(m = n /\ i = k)
      <4>1. /\ <<m, i>> \in wire' <=> <<m, i>> \in wire
            /\ <<m, i>> \in channel' <=> <<m, i>> \in channel
            /\ \A s \in Statuses : <<m, i, s>> \in answers' <=> <<m, i, s>> \in answers
        BY <1>2, <1>5, <3>2
      <4>. QED  BY <4>1 DEF Inv, PostsHold, Statuses
    <3>. QED  BY <3>1, <3>2
  <2>3. EarlierPostsHold'
    BY <1>2 DEF Inv, EarlierPostsHold, Attempt
  <2>4. \A m \in Notices : Earned(m) => Earned(m)'
    BY <1>2, <1>5 DEF Earned, Attempt
  <2>5. EndsHold'
    BY <1>2, <1>5, <2>4 DEF Inv, EndsHold
  <2>. QED  BY <2>1, <2>2, <2>3, <2>5 DEF Inv
<1>. QED  BY <1>1, <1>4, <1>5 DEF Arrives, Lost

LEMMA NextInv == Inv /\ [Next]_vars => Inv'
<1>. SUFFICES ASSUME Inv, [Next]_vars PROVE Inv'
  OBVIOUS
<1>1. CASE UNCHANGED vars
  BY <1>1 DEF vars, Inv, TypeOK, PostsHold, EarlierPostsHold, EndsHold, Earned, Attempt
<1>2. ASSUME NEW n \in Notices, Begin(n) \/ Step(n) \/ Crash(n) PROVE Inv'
  BY <1>2, QuietStep, SendStep, NoAnswerStep, AnsweredStep, DeadLetterStep DEF Step
<1>. QED  BY <1>1, <1>2, NetworkStep DEF Next

(* The inductive invariant: where each POST is, what the answers to it     *)
(* say, and why each call is where it is.                                  *)
THEOREM Invariance == Spec => []Inv
BY InitInv, NextInv, PTL DEF Spec

-----------------------------------------------------------------------------
(* Type correctness of the calls, the network and the dead letters. *)
THEOREM TypeCorrect == Spec => []TypeOK
<1>1. Inv => TypeOK
  BY DEF Inv
<1>. QED  BY <1>1, Invariance, PTL

(* No notice of a call that returned is in neither place. *)
THEOREM NothingVanishes == Spec => []KeptOrHeard
<1>1. Inv => KeptOrHeard
  BY DEF Inv, EndsHold, KeptOrHeard
<1>. QED  BY <1>1, Invariance, PTL

(* Without a doubtful POST a notice is in one place, once. *)
THEOREM OnceUnlessDoubtful == Spec => []CopiesNeedSilence
<1>1. Inv => CopiesNeedSilence
  <2>. SUFFICES ASSUME Inv, NEW p \in channel,
                       p[1] \in letters \/ \E q \in channel : q[1] = p[1] /\ p[2] < q[2]
                PROVE  p \in doubtful
    BY DEF CopiesNeedSilence
  <2>1. PICK n \in Notices, i \in Attempts : p = <<n, i>>
    BY DEF Inv, TypeOK, Posts, Attempts
  <2>2. i <= call[n].attempt /\ call[n].attempt \in Nat /\ i \in Nat
    <3>1. call[n].attempt \in Nat /\ i \in Nat
      BY TypedCall, AttemptsCount DEF Inv
    <3>. QED  BY <2>1, <3>1 DEF Inv, PostsHold
  <2>3. CASE i < call[n].attempt
    BY <2>1, <2>3 DEF Inv, EarlierPostsHold
  <2>4. CASE i = call[n].attempt /\ n \in letters
    BY <2>1, <2>4 DEF Inv, PostsHold, EndsHold, Earned, Attempt
  <2>5. ASSUME i = call[n].attempt, NEW q \in channel, q[1] = n, i < q[2] PROVE FALSE
    <3>0. PICK m \in Notices, j \in Attempts : q = <<m, j>>
      BY DEF Inv, TypeOK, Posts, Attempts
    <3>1. m = n /\ q[2] = j
      BY <2>5, <3>0
    <3>2. <<n, j>> \in channel
      BY <2>5, <3>0, <3>1
    <3>3. j <= call[n].attempt /\ j \in Nat
      BY <3>2, AttemptsCount DEF Inv, PostsHold
    <3>. QED  BY <2>2, <2>5, <3>1, <3>3
  <2>. QED  BY <2>1, <2>2, <2>3, <2>4, <2>5
<1>. QED  BY <1>1, Invariance, PTL

(* A dead letter was refused, answered garbled, or tried every time. *)
THEOREM LettersEarned == Spec => []LettersAreEarned
<1>1. Inv => LettersAreEarned
  <2>. SUFFICES ASSUME Inv, NEW n \in letters \cup unwritten
                PROVE  \/ \E status \in {"refused", "garbled"} :
                            <<n, call[n].attempt, status>> \in answers
                       \/ \A i \in 1..MaxAttempts : <<n, i>> \in doubtful
    BY DEF LettersAreEarned
  <2>1. Earned(n)
    BY DEF Inv, TypeOK, EndsHold
  <2>. QED  BY <2>1 DEF Earned, Attempts
<1>. QED  BY <1>1, Invariance, PTL

-----------------------------------------------------------------------------
(* How many steps a call has left at most: two per POST it may still make, *)
(* and those of its phase.                                                 *)
PhaseSteps(phase) ==
  CASE phase = "idle"    -> 3
    [] phase = "post"    -> 2
    [] phase = "waiting" -> 3
    [] phase = "failed"  -> 1
    [] OTHER             -> 0

StepsLeft(c) == 2 * (MaxAttempts - c.attempt) + PhaseSteps(c.phase)

LEMMA StepsCountDown ==
  ASSUME TypeOK, NEW n \in Notices, Begin(n) \/ Step(n) \/ Crash(n)
  PROVE  /\ StepsLeft(call'[n]) < StepsLeft(call[n])
         /\ \A m \in Notices : m # n => call'[m] = call[m]
<1>1. call[n].attempt \in Nat /\ MaxAttempts \in Nat BY TypedCall
<1>2. /\ PhaseSteps("idle") = 3 /\ PhaseSteps("post") = 2 /\ PhaseSteps("waiting") = 3
      /\ PhaseSteps("failed") = 1 /\ PhaseSteps("returned") = 0 /\ PhaseSteps("crashed") = 0
  BY DEF PhaseSteps
<1>3. ASSUME NEW phase, Moves(n, phase), PhaseSteps(phase) \in Nat,
             PhaseSteps(phase) < PhaseSteps(call[n].phase), PhaseSteps(call[n].phase) \in Nat
      PROVE  /\ StepsLeft(call'[n]) < StepsLeft(call[n])
             /\ \A m \in Notices : m # n => call'[m] = call[m]
  <2>1. /\ call'[n].phase = phase /\ call'[n].attempt = call[n].attempt
        /\ \A m \in Notices : m # n => call'[m] = call[m]
    BY <1>3 DEF Moves, TypeOK
  <2> QED BY <1>1, <1>3, <2>1 DEF StepsLeft
<1>4. CASE Begin(n) BY <1>2, <1>3, <1>4 DEF Begin
<1>5. CASE Send(n)
  <2>1. /\ call'[n].phase = "waiting" /\ call'[n].attempt = call[n].attempt + 1
        /\ call[n].phase = "post" /\ \A m \in Notices : m # n => call'[m] = call[m]
    BY <1>5 DEF Send, TypeOK
  <2>2. StepsLeft(call[n]) = 2 * (MaxAttempts - call[n].attempt) + 2
    BY <1>2, <2>1 DEF StepsLeft
  <2>3. StepsLeft(call'[n]) = 2 * (MaxAttempts - (call[n].attempt + 1)) + 3
    BY <1>2, <2>1 DEF StepsLeft
  <2>4. StepsLeft(call'[n]) < StepsLeft(call[n]) BY <1>1, <2>2, <2>3
  <2> QED BY <2>1, <2>4
<1>6. CASE NoAnswer(n) BY <1>2, <1>3, <1>6 DEF NoAnswer, Retry
<1>7. CASE Answered(n) BY <1>2, <1>3, <1>7 DEF Answered, After
<1>8. CASE DeadLetter(n) BY <1>2, <1>3, <1>8 DEF DeadLetter
<1>9. CASE Crash(n) BY <1>2, <1>3, <1>9 DEF Crash, UnderWay
<1> QED BY <1>4, <1>5, <1>6, <1>7, <1>8, <1>9 DEF Step

(* Nothing keeps a call going, whatever Discord and the network do: each   *)
(* of its steps uses up one of at most 2 * MaxAttempts + 3, and no step of *)
(* another call or of the network gives one back.                          *)
THEOREM CallsRunDown ==
  Spec => /\ [](\A n \in Notices : StepsLeft(call[n]) \in 0..(2 * MaxAttempts + 3))
          /\ [][\A n \in Notices : \/ call'[n] = call[n] /\ ~Step(n)
                                   \/ StepsLeft(call'[n]) < StepsLeft(call[n])]_vars
<1>1. TypeOK => \A n \in Notices : StepsLeft(call[n]) \in 0..(2 * MaxAttempts + 3)
  <2> SUFFICES ASSUME TypeOK, NEW n \in Notices
               PROVE  StepsLeft(call[n]) \in 0..(2 * MaxAttempts + 3)
    OBVIOUS
  <2>1. PhaseSteps(call[n].phase) \in 0..3 BY DEF PhaseSteps
  <2>2. call[n].attempt \in 0..MaxAttempts /\ MaxAttempts \in Nat BY TypedCall
  <2> QED BY <2>1, <2>2 DEF StepsLeft
<1>2. TypeOK /\ [Next]_vars =>
        [\A n \in Notices : \/ call'[n] = call[n] /\ ~Step(n)
                            \/ StepsLeft(call'[n]) < StepsLeft(call[n])]_vars
  <2> SUFFICES ASSUME TypeOK, Next, NEW n \in Notices,
                      ~(StepsLeft(call'[n]) < StepsLeft(call[n]))
               PROVE  call'[n] = call[n] /\ ~Step(n)
    OBVIOUS
  <2>1. ~(Begin(n) \/ Step(n) \/ Crash(n)) BY StepsCountDown
  <2>2. call'[n] = call[n]
    <3>1. ASSUME NEW m \in Notices, Begin(m) \/ Step(m) \/ Crash(m) PROVE call'[n] = call[n]
      BY <2>1, <3>1, StepsCountDown
    <3> QED BY <3>1 DEF Next, Arrives, Lost
  <2> QED BY <2>1, <2>2
<1>3. Spec => []TypeOK BY Invariance, PTL DEF Inv
<1> QED BY <1>1, <1>2, <1>3, PTL DEF Spec
=============================================================================
