------------------------------ MODULE Delivery ------------------------------
(***************************************************************************)
(* One announcement of a firing on its way to Discord (notify.py, called   *)
(* through _notify_safe): a bounded number of POSTs over a network that    *)
(* may lose or delay either direction, then the dead-letter file.  A POST  *)
(* the client no longer waits for may still arrive.                        *)
(***************************************************************************)
EXTENDS Naturals

CONSTANT Notices   \* announcements, each made by one process

MaxAttempts == 3   \* stop_after_attempt

VARIABLES
  call,      \* of each notice: how far its process is, and the POSTs it made
  wire,      \* POSTs on their way, as <<notice, attempt>>
  answers,   \* answers of Discord, as <<notice, attempt, status>>
  channel,   \* POSTs the channel shows
  letters,   \* notices in the dead-letter file
  doubtful,  \* history: POSTs after which the process cannot know if they are shown
  unwritten  \* history: notices whose dead letter could not be written

vars == <<call, wire, answers, channel, letters, doubtful, unwritten>>

Posts    == Notices \X (1..MaxAttempts)
Statuses == {"ok", "refused", "down", "garbled"}  \* 2xx, 3xx and 4xx, 5xx, undecodable
UnderWay == {"post", "waiting", "failed"}
Ended    == {"returned", "crashed"}

Moves(n, phase) == call' = [call EXCEPT ![n].phase = phase]
Attempt(n)      == <<n, call[n].attempt>>

-----------------------------------------------------------------------------
Init ==
  /\ call = [n \in Notices |-> [phase |-> "idle", attempt |-> 0]]
  /\ wire = {} /\ answers = {} /\ channel = {} /\ letters = {}
  /\ doubtful = {} /\ unwritten = {}

Begin(n) ==
  /\ call[n].phase = "idle" /\ Moves(n, "post")
  /\ UNCHANGED <<wire, answers, channel, letters, doubtful, unwritten>>

Send(n) ==
  /\ call[n].phase = "post"
  /\ call' = [call EXCEPT ![n] = [phase |-> "waiting", attempt |-> @.attempt + 1]]
  /\ wire' = wire \cup {<<n, call[n].attempt + 1>>}
  /\ UNCHANGED <<answers, channel, letters, doubtful, unwritten>>

(* stop_after_attempt counts the POSTs, the first one included. *)
Retry(n) == Moves(n, IF call[n].attempt < MaxAttempts THEN "post" ELSE "failed")

(* _retryable_http: timeouts, transport errors and 5xx. *)
NoAnswer(n) ==
  /\ call[n].phase = "waiting"
  /\ Retry(n) /\ doubtful' = doubtful \cup {Attempt(n)}
  /\ UNCHANGED <<wire, answers, channel, letters, unwritten>>

(* Where an answer that is not retried leads: raise_for_status, or reading *)
(* the body, raises but for a good 2xx.                                    *)
After(status) == IF status = "ok" THEN "returned" ELSE "failed"

Answered(n) ==
  /\ call[n].phase = "waiting"
  /\ \E status \in {"ok", "refused", "garbled"} :
       /\ <<n, call[n].attempt, status>> \in answers /\ Moves(n, After(status))
       /\ doubtful' = IF status = "garbled" THEN doubtful \cup {Attempt(n)} ELSE doubtful
  /\ UNCHANGED <<wire, answers, channel, letters, unwritten>>

(* _append_dead_letter; the exception, its own or the POST's, ends in      *)
(* _notify_safe either way.                                                *)
DeadLetter(n) ==
  /\ call[n].phase = "failed" /\ Moves(n, "returned")
  /\ \/ letters' = letters \cup {n} /\ UNCHANGED unwritten
     \/ unwritten' = unwritten \cup {n} /\ UNCHANGED letters
  /\ UNCHANGED <<wire, answers, channel, doubtful>>

Crash(n) ==
  /\ call[n].phase \in UnderWay /\ Moves(n, "crashed")
  /\ UNCHANGED <<wire, answers, channel, letters, doubtful, unwritten>>

-----------------------------------------------------------------------------
(* Discord.  A POST it answers 2xx is shown, 4xx not, and otherwise may be. *)
Arrives(p) ==
  /\ wire' = wire \ {p}
  /\ \E status \in Statuses :
       /\ answers' = answers \cup {<<p[1], p[2], status>>}
       /\ channel' \in {channel, channel \cup {p}}
       /\ status = "ok" => p \in channel'
       /\ status = "refused" => channel' = channel
  /\ UNCHANGED <<call, letters, doubtful, unwritten>>

Lost(p) ==
  /\ wire' = wire \ {p}
  /\ UNCHANGED <<call, answers, channel, letters, doubtful, unwritten>>

Step(n) == Send(n) \/ NoAnswer(n) \/ Answered(n) \/ DeadLetter(n)

Next ==
  \/ \E n \in Notices : Begin(n) \/ Step(n) \/ Crash(n)
  \/ \E p \in wire : Arrives(p) \/ Lost(p)

Spec == Init /\ [][Next]_vars

(* A process that is under way goes on: a POST has a timeout of 10 s, and  *)
(* the waits between two are bounded.  Nothing is assumed of the network.  *)
FairSpec == Spec /\ \A n \in Notices : WF_vars(Step(n))

-----------------------------------------------------------------------------
TypeOK ==
  /\ call \in [Notices -> [phase: {"idle"} \cup UnderWay \cup Ended, attempt: 0..MaxAttempts]]
  /\ wire \subseteq Posts /\ channel \subseteq Posts /\ doubtful \subseteq Posts
  /\ answers \subseteq Notices \X (1..MaxAttempts) \X Statuses
  /\ letters \subseteq Notices /\ unwritten \subseteq Notices

(* A call that returned has its notice in the channel or in the dead       *)
(* letters, unless that file could not be written.                         *)
KeptOrHeard ==
  \A n \in Notices : call[n].phase = "returned" =>
    n \in letters \cup unwritten \/ \E p \in channel : p[1] = n

(* The channel shows a notice twice, or a notice that is also a dead       *)
(* letter, only because the process had no usable answer to the first POST. *)
CopiesNeedSilence ==
  \A p \in channel :
    (p[1] \in letters \/ \E q \in channel : q[1] = p[1] /\ p[2] < q[2]) => p \in doubtful

(* A dead letter is a notice whose last answer was a refusal or garbled,   *)
(* or one that every POST was spent on: no success leads there, and no     *)
(* reply lost before the last.                                             *)
LettersAreEarned ==
  \A n \in letters \cup unwritten :
    \/ \E status \in {"refused", "garbled"} : <<n, call[n].attempt, status>> \in answers
    \/ \A i \in 1..MaxAttempts : <<n, i>> \in doubtful

(* A notification never holds its firing for ever. *)
EveryCallEnds == \A n \in Notices : call[n].phase \in UnderWay ~> call[n].phase \in Ended
=============================================================================
