--------------------------- MODULE AtomicCounter ---------------------------
(***************************************************************************)
(* What SequenceService.next promises to its callers: each configured      *)
(* sequence is a counter, taking a number is one indivisible step, and a   *)
(* number that was taken is either delivered to the caller that took it or *)
(* lost with that caller -- never taken twice, never put back.             *)
(***************************************************************************)
EXTENDS Naturals, Sequences

CONSTANTS Callers,      \* requests that may be inside next() at the same time
          Configured,   \* codes with a row in ir_sequence
          MaxNumber     \* greatest value of the last_number column

VARIABLES last,         \* last[q]: the counter of sequence q
          held,         \* held[c]: the numbers caller c took and has not returned
          issued        \* issued[q]: the numbers returned to callers, in order

avars == <<last, held, issued>>

Held == [code : Configured, number : 1..MaxNumber]

AInit == /\ last = [q \in Configured |-> 0]
         /\ held = [c \in Callers |-> {}]
         /\ issued = [q \in Configured |-> <<>>]

\* A caller takes the next number of q.
Take(c, q) ==
  /\ held[c] = {}
  /\ last[q] < MaxNumber
  /\ last' = [last EXCEPT ![q] = last[q] + 1]
  /\ held' = [held EXCEPT ![c] = {[code |-> q, number |-> last[q] + 1]}]
  /\ UNCHANGED issued

\* The number reaches the code that called next().
Deliver(c) ==
  \E t \in held[c] :
    /\ issued' = [issued EXCEPT ![t.code] = Append(issued[t.code], t.number)]
    /\ held' = [held EXCEPT ![c] = {}]
    /\ UNCHANGED last

\* The caller dies with the number: the number stays used.
Lose(c) == /\ held[c] # {}
           /\ held' = [held EXCEPT ![c] = {}]
           /\ UNCHANGED <<last, issued>>

ANext == \E c \in Callers : Deliver(c) \/ Lose(c) \/ \E q \in Configured : Take(c, q)

ASpec == AInit /\ [][ANext]_avars
=============================================================================
