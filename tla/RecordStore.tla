---------------------------- MODULE RecordStore ----------------------------
(***************************************************************************)
(* What a JSONL file promises to the processes that append to it, with the *)
(* lines, their order and their bytes hidden: which keys have a readable   *)
(* row, and whether the last write was cut short.                          *)
(***************************************************************************)
CONSTANTS Keys, Writers, None

VARIABLES
  recorded,   \* the keys with a readable row
  tail,       \* "ended", or what the last write left without its newline
  call        \* of each writer: how far its call is, and the key of its row

vars == <<recorded, tail, call>>

Damage  == {"unreadable", "undecodable"}
Answers == {"written", "duplicate", "failed"}

Init ==
  /\ recorded = {} /\ tail = "ended"
  /\ call = [w \in Writers |-> [phase |-> "idle", key |-> None]]

(* The row left without a newline may be lost to the next write, no other. *)
TailMayGoUnder == recorded \ {tail} \subseteq recorded' /\ recorded' \subseteq recorded

(* A writer is told "duplicate" of recorded keys only, and goes on to      *)
(* append only rows whose key is not recorded.                             *)
Ask(w, k) ==
  /\ call[w].phase # "append"
  /\ \E p \in {"append", "duplicate", "failed"} :
       /\ p = "append" => k \notin recorded
       /\ p = "duplicate" => k \in recorded
       /\ call' = [call EXCEPT ![w] = [phase |-> p, key |-> k]]
  /\ UNCHANGED <<recorded, tail>>

End(w, answer) ==
  /\ call[w].phase = "append"
  /\ call' = [call EXCEPT ![w] = [phase |-> answer, key |-> call[w].key]]

(* A written row is recorded, unless the write before it was cut short.    *)
Write(w) ==
  /\ End(w, "written") /\ tail' = "ended"
  /\ \/ tail = "ended" /\ recorded' = recorded \cup ({call[w].key} \cap Keys)
     \/ tail # "ended" /\ TailMayGoUnder

(* A write cut short leaves damage, or its row without the newline.        *)
Tear(w) ==
  /\ End(w, "failed")
  /\ \/ /\ tail = "ended" /\ tail' \in Damage \cup {call[w].key}
        /\ recorded' = recorded \cup ({tail'} \cap Keys)
     \/ tail # "ended" /\ tail' \in Damage /\ TailMayGoUnder

GiveUp(w) == End(w, "failed") /\ UNCHANGED <<recorded, tail>>

Next ==
  \E w \in Writers :
    \/ \E k \in Keys \cup {None} : Ask(w, k)
    \/ Write(w) \/ Tear(w) \/ GiveUp(w)

Spec == Init /\ [][Next]_vars
=============================================================================
