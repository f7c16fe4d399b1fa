----------------------------- MODULE Sequence -----------------------------
(***************************************************************************)
(* SequenceService.next (src/modules/config/sequence.service.ts): the      *)
(* generator of correlative codes (CASE-000123, PICK-000007) used by       *)
(* CasesService.createCase and by WarehouseService for pickings.           *)
(*                                                                         *)
(* Every call runs in a transaction of its own: SELECT ... FOR UPDATE of   *)
(* the row, last_number + 1, UPDATE, COMMIT.  One action stands for each   *)
(* statement the database sees; what a transaction wrote is visible to the *)
(* others only once it has committed, and a transaction that fails leaves  *)
(* the row as it was and its lock free.                                    *)
(***************************************************************************)
EXTENDS Naturals, Sequences, Functions

CONSTANTS
  Callers,      \* requests that may be inside next() at the same time
  Codes,        \* codes that callers ask for
  Configured,   \* codes with a row in ir_sequence
  MaxNumber,    \* greatest value of the int column last_number
  Radix,        \* String(n) is radix 10; a small radix outgrows the padding early
  Padding,      \* Padding[q]: column padding of sequence q
  Prefix,       \* Prefix[q]: column prefix, or NoPrefix where it is NULL
  NoPrefix,
  NoCaller      \* holder of a free row lock

ASSUME SequenceAssumption ==
  /\ Configured \subseteq Codes
  /\ MaxNumber \in Nat
  /\ Radix \in Nat /\ Radix > 1
  /\ Padding \in [Configured -> Nat]
  /\ NoCaller \notin Callers

VARIABLES
  lastNumber,   \* lastNumber[q]: the committed row of ir_sequence
  lock,         \* lock[q]: who holds the row lock of q
  pc,           \* pc[c]: the statement caller c executes next
  code,         \* code[c]: the code c asked for
  entity,       \* entity[c]: lastNumber of the entity in c's memory
  issued,       \* issued[q]: history, the numbers next(q) has returned
  lost          \* lost[q]: history, the numbers whose caller died after COMMIT

vars == <<lastNumber, lock, pc, code, entity, issued, lost>>

Statements == {"idle", "select", "update", "commit", "return"}

TypeOK ==
  /\ lastNumber \in [Configured -> 0..MaxNumber]
  /\ lock \in [Configured -> Callers \cup {NoCaller}]
  /\ pc \in [Callers -> Statements]
  /\ code \in [Callers -> Codes]
  /\ entity \in [Callers -> 0..MaxNumber]
  /\ issued \in [Configured -> Seq(1..MaxNumber)]
  /\ lost \in [Configured -> SUBSET (1..MaxNumber)]

Init ==
  /\ lastNumber = [q \in Configured |-> 0]
  /\ lock = [q \in Configured |-> NoCaller]
  /\ pc = [c \in Callers |-> "idle"]
  /\ code \in [Callers -> Codes]
  /\ entity = [c \in Callers |-> 0]
  /\ issued = [q \in Configured |-> <<>>]
  /\ lost = [q \in Configured |-> {}]

-----------------------------------------------------------------------------
(***************************************************************************)
(* The code that next() returns: prefix followed by the number padded on   *)
(* the left.  padStart never cuts a number that outgrew the padding.       *)
(***************************************************************************)
\* String(n)
Digits[n \in Nat] ==
  IF n < Radix THEN <<n>> ELSE Append(Digits[n \div Radix], n % Radix)

\* Mutant of PadStart: fixed width, the last digits that outgrow the padding are cut.
PadStartCutting(s, width) ==
  [i \in 1..width |-> IF Len(s) >= width THEN s[i]
                     ELSE IF i + Len(s) <= width THEN 0 ELSE s[i + Len(s) - width]]

PadStart(s, width) ==
  IF Len(s) >= width THEN s ELSE [i \in 1..(width - Len(s)) |-> 0] \o s

Formatted(q, n) ==
  LET number == PadStart(Digits[n], Padding[q])
  IN  IF Prefix[q] = NoPrefix THEN number ELSE <<Prefix[q]>> \o number

-----------------------------------------------------------------------------
\* The transaction of c ends: the row lock it may hold is free again.
Release(c) == lock' = [q \in Configured |-> IF lock[q] = c THEN NoCaller ELSE lock[q]]

\* The call of c is over and its local variables are gone.
Over(c) == /\ pc' = [pc EXCEPT ![c] = "idle"]
           /\ entity' = [entity EXCEPT ![c] = 0]

\* A request calls next(q); BEGIN.
Call(c, q) ==
  /\ pc[c] = "idle"
  /\ pc' = [pc EXCEPT ![c] = "select"]
  /\ code' = [code EXCEPT ![c] = q]
  /\ UNCHANGED <<lastNumber, lock, entity, issued, lost>>

\* Mutant of SelectForUpdate: getOne() without setLock('pessimistic_write').
SelectWithoutLock(c) ==
  /\ pc[c] = "select"
  /\ code[c] \in Configured
  /\ entity' = [entity EXCEPT ![c] = lastNumber[code[c]]]
  /\ pc' = [pc EXCEPT ![c] = "update"]
  /\ UNCHANGED <<lastNumber, lock, code, issued, lost>>

\* getOne() under pessimistic_write: waits for the lock, reads the committed row.
SelectForUpdate(c) ==
  LET q == code[c]
  IN /\ pc[c] = "select"
     /\ q \in Configured
     /\ lock[q] = NoCaller
     /\ lock' = [lock EXCEPT ![q] = c]
     /\ entity' = [entity EXCEPT ![c] = lastNumber[q]]
     /\ pc' = [pc EXCEPT ![c] = "update"]
     /\ UNCHANGED <<lastNumber, code, issued, lost>>

\* No row for the code: NotFoundException, ROLLBACK.
NotFound(c) ==
  /\ pc[c] = "select"
  /\ code[c] \notin Configured
  /\ Over(c)
  /\ UNCHANGED <<lastNumber, lock, code, issued, lost>>

\* Mutant of Update: the save() is not part of the transaction.
UpdateOutsideTransaction(c) ==
  /\ pc[c] = "update"
  /\ entity[c] < MaxNumber
  /\ entity' = [entity EXCEPT ![c] = entity[c] + 1]
  /\ lastNumber' = [lastNumber EXCEPT ![code[c]] = entity[c] + 1]
  /\ pc' = [pc EXCEPT ![c] = "commit"]
  /\ UNCHANGED <<lock, code, issued, lost>>

\* Mutant of Update: the column has no limit.
UpdateUnbounded(c) ==
  /\ pc[c] = "update"
  /\ entity' = [entity EXCEPT ![c] = entity[c] + 1]
  /\ pc' = [pc EXCEPT ![c] = "commit"]
  /\ UNCHANGED <<lastNumber, lock, code, issued, lost>>

\* lastNumber += 1; save(): the UPDATE is inside the open transaction.
Update(c) ==
  /\ pc[c] = "update"
  /\ entity[c] < MaxNumber
  /\ entity' = [entity EXCEPT ![c] = entity[c] + 1]
  /\ pc' = [pc EXCEPT ![c] = "commit"]
  /\ UNCHANGED <<lastNumber, lock, code, issued, lost>>

\* Mutant of OutOfRange: the failed transaction is left open with its lock.
OutOfRangeLeftOpen(c) ==
  /\ pc[c] = "update"
  /\ entity[c] = MaxNumber
  /\ Over(c)
  /\ UNCHANGED <<lastNumber, lock, code, issued, lost>>

\* The int column cannot hold the number: the UPDATE fails, ROLLBACK.
OutOfRange(c) ==
  /\ pc[c] = "update"
  /\ entity[c] = MaxNumber
  /\ Release(c)
  /\ Over(c)
  /\ UNCHANGED <<lastNumber, code, issued, lost>>

Commit(c) ==
  /\ pc[c] = "commit"
  /\ lastNumber' = [lastNumber EXCEPT ![code[c]] = entity[c]]
  /\ Release(c)
  /\ pc' = [pc EXCEPT ![c] = "return"]
  /\ UNCHANGED <<code, entity, issued, lost>>

\* The transaction() promise resolves with the code.
Return(c) ==
  /\ pc[c] = "return"
  /\ issued' = [issued EXCEPT ![code[c]] = Append(issued[code[c]], entity[c])]
  /\ Over(c)
  /\ UNCHANGED <<lastNumber, lock, code, lost>>

\* Connection lost or process dead before COMMIT: ROLLBACK.
Rollback(c) ==
  /\ pc[c] \in {"select", "update", "commit"}
  /\ Release(c)
  /\ Over(c)
  /\ UNCHANGED <<lastNumber, code, issued, lost>>

\* Process dead, or the answer to COMMIT lost, after the row was committed.
DieCommitted(c) ==
  /\ pc[c] = "return"
  /\ lost' = [lost EXCEPT ![code[c]] = lost[code[c]] \cup {entity[c]}]
  /\ Over(c)
  /\ UNCHANGED <<lastNumber, lock, code, issued>>

\* The statements the server and the database go on executing by themselves.
Progress(c) == SelectForUpdate(c) \/ NotFound(c) \/ Update(c) \/ OutOfRange(c)
                 \/ Commit(c) \/ Return(c)

Next == \E c \in Callers :
          \/ \E q \in Codes : Call(c, q)
          \/ Progress(c)
          \/ Rollback(c)
          \/ DieCommitted(c)

Spec == Init /\ [][Next]_vars

(***************************************************************************)
(* Fairness: a statement that can run runs (weak), and InnoDB grants a row *)
(* lock to its waiters in turn, so a waiter that finds the lock free again *)
(* and again gets it (strong).  Nothing makes requests arrive or fail.     *)
(***************************************************************************)
FairSpec == /\ Spec
            /\ \A c \in Callers : WF_vars(Progress(c)) /\ SF_vars(SelectForUpdate(c))

-----------------------------------------------------------------------------
\* Two calls of next(q) never return the same formatted code, whatever their
\* interleaving, failures in between and the padding being outgrown.  The UNIQUE
\* keys agd_case.code and stock_picking.reference rest on it.
NoDuplicateCode ==
  \A q \in Configured : \A i, j \in DOMAIN issued[q] :
    i # j => Formatted(q, issued[q][i]) # Formatted(q, issued[q][j])

\* The numbers caller c holds after COMMIT and before it answers.
InHand(q) == {entity[c] : c \in {d \in Callers : pc[d] = "return" /\ code[d] = q}}

\* A hole in the numbering means a caller that died after COMMIT: every number up
\* to lastNumber was returned, is about to be, or was lost that way; a rollback
\* (failed UPDATE, lost connection, unknown code) never burns a number.
EveryNumberAccounted ==
  \A q \in Configured :
    1..lastNumber[q] = Range(issued[q]) \cup InHand(q) \cup lost[q]

\* The calls of next() refine an atomic counter per sequence, although each is
\* four statements that other calls and failures interleave with.
Taken == [c \in Callers |-> IF pc[c] = "return"
                           THEN {[code |-> code[c], number |-> entity[c]]}
                           ELSE {}]

Counter == INSTANCE AtomicCounter WITH last <- lastNumber, held <- Taken

ImplementsCounter == Counter!ASpec

\* No call waits for ever: not on the row lock, not after another call that held
\* the lock failed, not on an exhausted sequence or a code without a row.
EveryCallEnds == \A c \in Callers : pc[c] = "select" ~> pc[c] = "idle"
=============================================================================
