------------------------------ MODULE RunSpec -------------------------------
(***************************************************************************)
(* What a run directory promises to whoever reads it: a ledger of stage    *)
(* verdicts that grows one stage at a time in pipeline order, and a single *)
(* terminal state that the ledger accounts for and that never changes.     *)
(* Nothing here says how the orchestrator, its logs or its crashes work.   *)
(***************************************************************************)
EXTENDS Integers, Sequences

CONSTANTS Dirs, NStages

VARIABLES
  life,      \* life[d]: "absent", "PENDING" or the terminal run state of d
  ledger     \* ledger[d]: the verdicts of the stages 1, 2, ... so far

vars == <<life, ledger>>

AllPassed(l) == \A i \in 1..Len(l) : l[i] = "PASSED"

(* The ledgers that end in terminal state s.                               *)
Accounts(l, s) ==
  CASE s = "COMPLETED"             -> Len(l) = NStages /\ AllPassed(l)
    [] s = "COMPLETED_TO_BOUNDARY" -> Len(l) = NStages /\ ~AllPassed(l)
    [] OTHER                       -> Len(l) > 0 /\ l[Len(l)] = "FAILED"

Init ==
  /\ life = [d \in Dirs |-> "absent"]
  /\ ledger = [d \in Dirs |-> <<>>]

Open(d) ==
  /\ life[d] = "absent"
  /\ life' = [life EXCEPT ![d] = "PENDING"]
  /\ UNCHANGED ledger

Record(d, v) ==
  /\ life[d] = "PENDING"
  /\ Len(ledger[d]) < NStages
  /\ IF v = "SKIPPED_BOUNDARY" THEN ~AllPassed(ledger[d])
                               ELSE AllPassed(ledger[d])
  /\ ledger' = [ledger EXCEPT ![d] = Append(@, v)]
  /\ UNCHANGED life

Close(d, s) ==
  /\ life[d] = "PENDING"
  /\ Accounts(ledger[d], s)
  /\ life' = [life EXCEPT ![d] = s]
  /\ UNCHANGED ledger

Next ==
  \E d \in Dirs :
    \/ Open(d)
    \/ \E v \in {"PASSED", "FAILED", "SKIPPED_BOUNDARY"} : Record(d, v)
    \/ \E s \in {"COMPLETED", "COMPLETED_TO_BOUNDARY", "HALTED_INTEGRITY",
                 "HALTED_VERIFICATION", "HALTED_GATE"} : Close(d, s)

Spec == Init /\ [][Next]_vars
=============================================================================
