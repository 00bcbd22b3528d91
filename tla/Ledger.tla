------------------------------- MODULE Ledger -------------------------------
(***************************************************************************)
(* One day's JSONL file and the processes that append to it (journal.py).  *)
(* A call scans the file for its row's key, then opens it again to append  *)
(* one line; nothing holds the file between the two.  A write may be cut   *)
(* short, by a full disk or a process killed, anywhere in the line.        *)
(*                                                                         *)
(* A line is known by its row's key, or by the way in which it cannot be   *)
(* read: text that is no JSON, or bytes that are no UTF-8 because the cut  *)
(* went through a character (rows are not escaped to ASCII).  Rows without *)
(* a key, audit events for one, carry None and are not scanned for.        *)
(***************************************************************************)
EXTENDS Naturals, Sequences

CONSTANTS
  Keys,       \* values of the dedupe field
  None,       \* the key of a row that is not deduplicated
  Writers,    \* processes, each with one call at a time
  MaxLines    \* bound: lines in the file

Damage == {"unreadable", "undecodable"}
Lines  == Keys \cup {None} \cup Damage

ASSUME LedgerAssumption ==
  /\ Keys \cap Damage = {} /\ None \notin Keys \cup Damage
  /\ "ended" \notin Lines
  /\ MaxLines \in Nat

VARIABLES
  file,       \* the lines
  ended,      \* the file is empty or its last byte is a newline
  call,       \* of each writer: phase, key, and the lines its scan read
  seen,       \* history: of each line, the lines its writer's scan had read
  torn,       \* history: the lines that hold a write cut short
  acked       \* history: line and key of every row a call has answered for

vars == <<file, ended, call, seen, torn, acked>>

Answers == {"written", "duplicate", "failed"}
Call == [phase: {"idle", "append"} \cup Answers, key: Keys \cup {None}, lines: Nat]

-----------------------------------------------------------------------------
(* Faulty variants of operators below; no specification uses them. *)

HasUpToDamage(k) ==
  \E i \in DOMAIN file : file[i] = k /\ \A j \in 1..i : file[j] \notin Damage

GluedLineReadsAsTheNewRow(old, new) == new

TruncatesFirst(bytes, w) ==
  /\ file' = <<bytes>> /\ seen' = <<call[w].lines>>

-----------------------------------------------------------------------------
Init ==
  /\ file = <<>> /\ ended = TRUE
  /\ call = [w \in Writers |-> [phase |-> "idle", key |-> None, lines |-> 0]]
  /\ seen = <<>> /\ torn = {} /\ acked = {}

(* _file_has_field_value returns at the first match; damaged JSON lines    *)
(* are skipped, bytes that do not decode raise when the scan reaches them. *)
Has(k) ==
  \E i \in DOMAIN file : file[i] = k /\ \A j \in 1..i : file[j] # "undecodable"

Poisoned == \E i \in DOMAIN file : file[i] = "undecodable"

(* The scan of a call that begins.  Text is decoded a block at a time, so  *)
(* bytes after a match may or may not have raised before it is seen.       *)
Scan(w, k) ==
  /\ call[w].phase # "append"
  /\ \E p \in {"append", "duplicate", "failed"} :
       /\ p = "append"    => k = None \/ ~(Has(k) \/ Poisoned)
       /\ p = "duplicate" => k # None /\ Has(k)
       /\ p = "failed"    => k # None /\ Poisoned
       /\ call' = [call EXCEPT ![w] = [phase |-> p, key |-> k, lines |-> Len(file)]]
  /\ UNCHANGED <<file, ended, seen, torn, acked>>

(* Two pieces on one line are one unreadable line. *)
Glue(old, new) ==
  IF "undecodable" \in {old, new} THEN "undecodable" ELSE "unreadable"

(* The position the next byte of the file belongs to. *)
Position == IF ended THEN Len(file) + 1 ELSE Len(file)

(* Bytes go to the end of the file, whatever is there. *)
Put(bytes, w) ==
  /\ Position <= MaxLines
  /\ IF ended
     THEN file' = Append(file, bytes) /\ seen' = Append(seen, call[w].lines)
     ELSE /\ file' = [file EXCEPT ![Len(file)] = Glue(@, bytes)]
          /\ UNCHANGED seen

Answer(w, answer) ==
  /\ call[w].phase = "append"
  /\ call' = [call EXCEPT ![w].phase = answer]

(* The row and its newline reach the file: the call returns True. *)
WriteLine(w) ==
  /\ Answer(w, "written")
  /\ Put(call[w].key, w) /\ ended' = TRUE
  /\ acked' = acked \cup {<<Position, call[w].key>>}
  /\ UNCHANGED torn

(* Faulty variant of Tear: the error of a write cut short is swallowed. *)
TearsSilently(w) ==
  /\ Answer(w, "written")
  /\ \E bytes \in Damage \cup {call[w].key} : Put(bytes, w)
  /\ ended' = FALSE
  /\ torn' = torn \cup {Position}
  /\ acked' = acked \cup {<<Position, call[w].key>>}

(* Only a part does: some of the row, or all of it but the newline. *)
Tear(w) ==
  /\ Answer(w, "failed")
  /\ \E bytes \in Damage \cup {call[w].key} : Put(bytes, w)
  /\ ended' = FALSE
  /\ torn' = torn \cup {Position}
  /\ UNCHANGED acked

(* The file cannot be opened, or the process dies before its first byte.   *)
GiveUp(w) ==
  /\ Answer(w, "failed")
  /\ UNCHANGED <<file, ended, seen, torn, acked>>

Step(w) ==
  \/ \E k \in Keys \cup {None} : Scan(w, k)
  \/ WriteLine(w) \/ Tear(w) \/ GiveUp(w)

Next == \E w \in Writers : Step(w)

Spec == Init /\ [][Next]_vars

-----------------------------------------------------------------------------
TypeOK ==
  /\ file \in Seq(Lines) /\ ended \in BOOLEAN
  /\ call \in [Writers -> Call]
  /\ seen \in Seq(Nat) /\ Len(seen) = Len(file)
  /\ torn \subseteq DOMAIN file
  /\ acked \subseteq (DOMAIN file) \X (Keys \cup {None})

(* A key gets a second row only from a call whose scan was over before the *)
(* first row was there: retries after crashes, torn lines and failed scans *)
(* included, calls that do not overlap never write one decision twice.     *)
DuplicatesOverlap ==
  \A i, j \in DOMAIN file : (i < j /\ file[i] = file[j] /\ file[i] \in Keys) => seen[j] < i

(* A row a call answered True for is lost only to a write cut short before *)
(* it on the same line, and each such write costs at most one of them.     *)
LossIsBounded ==
  LET lost == {a \in acked : file[a[1]] # a[2]}
  IN  /\ \A a \in lost : a[1] \in torn
      /\ \A a, b \in lost : a[1] = b[1] => a = b

(* A line that has its newline is never touched again: a crash in the      *)
(* middle of a write does not corrupt the entries before it.               *)
CrashSparesEntries ==
  [][\A i \in DOMAIN file : (i < Len(file) \/ ended) => i \in DOMAIN file' /\ file'[i] = file[i]]_vars

(* The file of lines is one of the stores RecordStore allows. *)
recorded == {k \in Keys : \E i \in DOMAIN file : file[i] = k}
tail     == IF ended THEN "ended" ELSE file[Len(file)]
stage    == [w \in Writers |-> [phase |-> call[w].phase, key |-> call[w].key]]

Store == INSTANCE RecordStore WITH call <- stage

ImplementsRecordStore == Store!Spec

=============================================================================
