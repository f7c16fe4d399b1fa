------------------------- MODULE ContractLifecycle -------------------------
(***************************************************************************)
(* What the sales module promises about contracts: a quote request is      *)
(* awarded at most once and for good; a sale order becomes a contract only *)
(* as the awarded offer of its request or out of a cart; and each contract *)
(* gets one case file and then one invoice, in that order.                 *)
(***************************************************************************)
CONSTANTS Requests,     \* quote requests
          Orders,       \* sale orders
          NoRequest,    \* request of an order that comes from a cart
          NoOrder       \* award of a request that has none

VARIABLES award,        \* award[r]: the order selected for request r
          origin,       \* origin[o]: the request order o answers, or NoRequest
          stage         \* stage[o]: how far order o has come

cvars == <<award, origin, stage>>

CInit == /\ award = [r \in Requests |-> NoOrder]
         /\ origin = [o \in Orders |-> NoRequest]
         /\ stage = [o \in Orders |-> "absent"]

Advance(o, from, to) == /\ stage[o] = from
                        /\ stage' = [stage EXCEPT ![o] = to]

\* A provider offers order o for request r, or a cart drafts order o.
Offer(o) == /\ Advance(o, "absent", "offered")
            /\ \E r \in Requests \cup {NoRequest} : origin' = [origin EXCEPT ![o] = r]
            /\ UNCHANGED award

\* The client selects order o, the first and last time for its request.
Award(o) == /\ stage[o] = "offered"
            /\ origin[o] \in Requests
            /\ award[origin[o]] = NoOrder
            /\ award' = [award EXCEPT ![origin[o]] = o]
            /\ UNCHANGED <<origin, stage>>

Contract(o) == /\ Advance(o, "offered", "contracted")
               /\ origin[o] \in Requests => award[origin[o]] = o
               /\ UNCHANGED <<award, origin>>

OpenFile(o) == Advance(o, "contracted", "filed") /\ UNCHANGED <<award, origin>>

Invoice(o) == Advance(o, "filed", "invoiced") /\ UNCHANGED <<award, origin>>

CNext == \E o \in Orders : \/ Offer(o) \/ Award(o)
                           \/ Contract(o) \/ OpenFile(o) \/ Invoice(o)

CSpec == CInit /\ [][CNext]_cvars
=============================================================================
