--------------------------- MODULE RoutineContract ---------------------------
(***************************************************************************)
(* What the market-open routine promises, without saying how: a firing     *)
(* that trades commits to one order key first, a key is booked at most     *)
(* once whoever retries it, and a firing counts as settled only when its   *)
(* key is booked.  A firing may stop at any moment.                        *)
(***************************************************************************)
CONSTANTS Firings, Keys, None

VARIABLES
  stage,     \* idle, open, declined, committed, settled or closed
  key,       \* the key a firing has committed to, or None
  booked     \* bookings at the broker, each with its firing and its key

vars == <<stage, key, booked>>

Stages == {"idle", "open", "declined", "committed", "settled", "closed"}

TypeOK ==
  /\ stage \in [Firings -> Stages]
  /\ key \in [Firings -> Keys \cup {None}]
  /\ booked \subseteq [run: Firings, id: Keys]

Init ==
  /\ stage = [r \in Firings |-> "idle"]
  /\ key = [r \in Firings |-> None]
  /\ booked = {}

Move(r, from, to) == stage[r] \in from /\ stage' = [stage EXCEPT ![r] = to]

Open(r) == Move(r, {"idle"}, "open") /\ UNCHANGED <<key, booked>>

Decline(r) == Move(r, {"open"}, "declined") /\ UNCHANGED <<key, booked>>

Commit(r) ==
  /\ Move(r, {"open"}, "committed")
  /\ key'[r] \in Keys /\ key' = [key EXCEPT ![r] = key'[r]]
  /\ UNCHANGED booked

Taken(k) == \E b \in booked : b.id = k

(* One attempt at the broker: it books the key, finds it booked, or does   *)
(* neither; the firing settles, tries again or gives up.                   *)
Attempt(r) ==
  /\ \/ booked' = booked
     \/ ~Taken(key[r]) /\ booked' = booked \cup {[run |-> r, id |-> key[r]]}
  /\ \/ Move(r, {"committed"}, "committed")
     \/ Move(r, {"committed"}, "closed")
     \/ Move(r, {"committed"}, "settled") /\ \E b \in booked' : b.id = key[r]
  /\ UNCHANGED key

Close(r) ==
  /\ Move(r, {"open", "declined", "committed", "settled"}, "closed")
  /\ UNCHANGED <<key, booked>>

Next == \E r \in Firings : Open(r) \/ Decline(r) \/ Commit(r) \/ Attempt(r) \/ Close(r)

Spec == Init /\ [][Next]_vars

-----------------------------------------------------------------------------
(* A key has at most one booking, made by a firing that committed to it.   *)
BookedOnce ==
  /\ \A b, c \in booked : b.id = c.id => b = c
  /\ \A b \in booked : key[b.run] = b.id /\ stage[b.run] \in {"committed", "settled", "closed"}

(* A settled firing's key is booked. *)
SettledIsBooked == \A r \in Firings : stage[r] = "settled" => Taken(key[r])
=============================================================================
