-------------------------- MODULE GovernanceProofs --------------------------
(***************************************************************************)
(* Safety of Governance, for any number of handlers and versions: types,   *)
(* numbers, the published version, the catalogue, and decisions.           *)
(***************************************************************************)
EXTENDS Governance, SequenceTheorems, TLAPS

USE GovernanceAssumption

-----------------------------------------------------------------------------
(***************************************************************************)
(* The inductive invariant                                                 *)
(***************************************************************************)
PublishCalls == {"findPublished", "saveArchived", "savePublished", "updateHeader"}

\* What a handler has in its variables at each call.
ControlOf(h) ==
  /\ pc[h] = "saveHeader" => ctx[h].op \in {"list", "create"} /\ work = "service"
  /\ pc[h] = "findLast" => ctx[h].op = "create" /\ work # "policy"
  /\ pc[h] = "insertVersion" =>
       /\ ctx[h].op = "create"
       /\ IF work = "policy" THEN ctx[h].number \in Numbers
          ELSE ctx[h].number \in 1..(Len(versions) + 1)
  /\ pc[h] \in PublishCalls <=> ctx[h].op = "publish"
  /\ pc[h] \in PublishCalls => ctx[h].version \in DOMAIN versions
  /\ pc[h] = "saveArchived" =>
       /\ ctx[h].previous \in DOMAIN versions
       /\ versions[ctx[h].previous].status # "draft"
  /\ pc[h] = "updateHeader" =>
       work = "service" /\ versions[ctx[h].version].status # "draft"
  /\ pc[h] = "saveDecision" =>
       ctx[h].op = "decide" /\ work \in Decidable /\ ctx[h].decision \in DecisionsOn(work)

ControlInv == \A h \in Handlers : ControlOf(h)

\* A matrix or a policy is there from the start.
HeaderInv == header = "none" => work # "matrix"

\* While publications do not overlap, what is published is what the only publisher found,
\* nothing, or what it published, by how far it has come.
Exclusive ==
  /\ \A g, h \in Publishers : g = h
  /\ \A v, w \in Published : v = w
  /\ \A h \in Handlers :
       /\ pc[h] = "saveArchived" => Published \subseteq {ctx[h].previous}
       /\ pc[h] = "savePublished" => Published = {}
       /\ pc[h] = "updateHeader" => Published = {ctx[h].version}

OneInv == overlapped \/ Exclusive

\* What a publication has taken away and not yet put back, it still holds.
CatalogueInv ==
  /\ header = "published" => Released
  /\ Released /\ ~torn =>
       /\ \/ Published # {}
          \/ \E h \in Handlers : pc[h] = "savePublished" /\ ctx[h].previous # 0
       /\ work = "service" =>
            header = "published" \/ \E h \in Handlers : pc[h] = "updateHeader"

\* A decision that was answered is the one in the row, and nobody is about to replace it.
DecisionInv ==
  \/ disputed
  \/ told = {}
  \/ /\ work \in Decidable /\ decision \in DecisionsOn(work) \ {"pending"}
     /\ told = {decision}
     /\ \A h \in Handlers : pc[h] # "saveDecision"

IInv ==
  /\ TypeOK /\ ControlInv /\ HeaderInv
  /\ VersionsNumbered /\ OneInv /\ CatalogueInv /\ DecisionInv

-----------------------------------------------------------------------------
(***************************************************************************)
(* The steps of Next, one by one                                           *)
(***************************************************************************)
\* What handler h may do next: one of its calls, or throw.
Serve(h) ==
  \/ \E op \in {"list", "create"} : UsePublication(h, op)
  \/ SaveHeader(h) \/ FindLast(h)
  \/ \E label \in Numbers : LabelPolicyVersion(h, label)
  \/ InsertVersion(h)
  \/ pc[h] \in {"saveHeader", "insertVersion"} /\ Throw(h)
  \/ \E v \in DOMAIN versions : Publish(h, v)
  \/ FindPublished(h) \/ SaveArchived(h) \/ SavePublished(h) \/ UpdateHeader(h)
  \/ StartDecidable(h)
  \/ \E d \in DecisionsOn(work) : work \in Decidable /\ Decide(h, d)
  \/ SaveDecision(h)
  \/ Fail(h)

\* Every step is one of the calls, or a handler that throws.
LEMMA NextCases ==
  ASSUME Next
  PROVE  \E h \in Handlers : Serve(h)
<1>1. PICK h \in Handlers :
        AtVersions(h) \/ AtPolicies(h) \/ AtDecisions(h) \/ Continue(h) \/ Fail(h)
  BY DEF Next
<1>2. CASE AtVersions(h) \/ AtPolicies(h) \/ Fail(h)
  BY <1>2 DEF AtVersions, AtPolicies, Serve
<1>3. CASE AtDecisions(h)
  BY <1>3 DEF AtDecisions, DecideWorkflowInstance, CompleteActivity, UpdateModaiInspection,
              Decidable, Serve
<1>4. CASE Continue(h)
  BY <1>4 DEF Continue, HeaderTaken, VersionTaken, IdsUsedUp, Serve
<1> QED
  BY <1>1, <1>2, <1>3, <1>4

-----------------------------------------------------------------------------
(***************************************************************************)
(* What the operations do to the version rows                              *)
(***************************************************************************)
\* Only the status of one row changes.
LEMMA SetStatusFacts ==
  ASSUME TypeOK, NEW v \in DOMAIN versions, NEW status \in Statuses, SetStatus(v, status)
  PROVE  /\ versions' \in Seq(VersionRow)
         /\ Len(versions') = Len(versions) /\ DOMAIN versions' = DOMAIN versions
         /\ \A w \in DOMAIN versions :
              /\ versions'[w].number = versions[w].number
              /\ w # v => versions'[w].status = versions[w].status
         /\ versions'[v].status = status
<1> DEFINE row == [versions[v] EXCEPT !.status = status]
<1>1. versions \in Seq(VersionRow) /\ DOMAIN versions = 1..Len(versions)
  BY LenProperties DEF TypeOK
<1>2. versions[v] \in VersionRow
  BY <1>1, ElementOfSeq
<1>3. row \in VersionRow /\ row.number = versions[v].number /\ row.status = status
  BY <1>2 DEF VersionRow, Statuses
<1>4. versions' = [versions EXCEPT ![v] = row]
  BY DEF SetStatus
<1> HIDE DEF row
<1>5. /\ versions' \in Seq(VersionRow) /\ Len(versions') = Len(versions)
      /\ \A w \in 1..Len(versions) : versions'[w] = IF w = v THEN row ELSE versions[w]
  BY <1>1, <1>3, <1>4, ExceptSeq
<1>6. DOMAIN versions' = DOMAIN versions
  BY <1>1, <1>5, LenProperties
<1> QED
  BY <1>1, <1>3, <1>5, <1>6

\* A new row, in state DRAFT, comes after the others, which stay as they are.
LEMMA InsertFacts ==
  ASSUME IInv, NEW h \in Handlers, InsertVersion(h)
  PROVE  /\ versions' \in Seq(VersionRow)
         /\ Len(versions') = Len(versions) + 1 /\ Len(versions') <= MaxVersions
         /\ DOMAIN versions' = DOMAIN versions \cup {Len(versions')}
         /\ \A w \in DOMAIN versions : versions'[w] = versions[w]
         /\ versions'[Len(versions')].number = ctx[h].number
         /\ versions'[Len(versions')].status = "draft"
<1> DEFINE row == [number |-> ctx[h].number, status |-> "draft"]
<1>1. versions \in Seq(VersionRow) /\ DOMAIN versions = 1..Len(versions) /\ Len(versions) \in Nat
  BY LenProperties DEF IInv, TypeOK
<1>2. Len(versions) < MaxVersions /\ versions' = Append(versions, row)
  BY DEF InsertVersion
<1>3. ctx[h].number \in Numbers
  BY <1>1, <1>2 DEF InsertVersion, IInv, ControlInv, ControlOf, Numbers, GovernanceAssumption
<1>4. row \in VersionRow /\ row.number = ctx[h].number /\ row.status = "draft"
  BY <1>3 DEF VersionRow, Statuses
<1> HIDE DEF row
<1>5. /\ versions' \in Seq(VersionRow) /\ Len(versions') = Len(versions) + 1
      /\ \A w \in 1..Len(versions) : versions'[w] = versions[w]
      /\ versions'[Len(versions) + 1] = row
  BY <1>1, <1>2, <1>4, AppendProperties
<1>6. DOMAIN versions' = 1..(Len(versions) + 1)
  BY <1>5, LenProperties
<1> QED
  BY <1>1, <1>2, <1>4, <1>5, <1>6 DEF GovernanceAssumption

LEMMA MaxOfInterval ==
  ASSUME NEW n \in Nat
  PROVE  Max(0..n) = n
<1>1. n \in 0..n /\ \A y \in 0..n : n >= y
  OBVIOUS
<1>2. ASSUME NEW x \in 0..n, \A y \in 0..n : x >= y
      PROVE  x = n
  <2>1. x >= n /\ n >= x /\ x \in Int /\ n \in Int
    BY <1>1, <1>2
  <2> QED
    BY <2>1
<1> QED
  BY <1>1, <1>2 DEF Max

\* The last number of the versions of a matrix or a service is how many there are.
LEMMA LastNumberIsLen ==
  ASSUME IInv, work # "policy"
  PROVE  LastNumber = Len(versions)
<1> DEFINE S == {0} \cup {versions[v].number : v \in DOMAIN versions}
<1>1. DOMAIN versions = 1..Len(versions) /\ Len(versions) \in Nat
  BY LenProperties DEF IInv, TypeOK
<1>2. \A v \in DOMAIN versions : versions[v].number = v
  BY DEF IInv, VersionsNumbered
<1>3. S = 0..Len(versions)
  BY <1>1, <1>2
<1> QED
  BY <1>1, <1>3, MaxOfInterval DEF LastNumber

-----------------------------------------------------------------------------
(***************************************************************************)
(* Type correctness                                                        *)
(***************************************************************************)
LEMMA NoContextType == NoContext \in Context
BY DEF NoContext, Context, Decisions, Decidable, DecisionsOn, GovernanceAssumption

LEMMA KeepType ==
  ASSUME TypeOK, NEW h \in Handlers, NEW c \in Context, Keep(h, c)
  PROVE  ctx' \in [Handlers -> Context] /\ ctx'[h] = c
BY DEF TypeOK, Keep

LEMMA GotoType ==
  ASSUME TypeOK, NEW h \in Handlers, NEW call \in Calls, Goto(h, call)
  PROVE  pc' \in [Handlers -> Calls] /\ pc'[h] = call
BY DEF TypeOK, Goto

LEMMA LeaveType ==
  ASSUME TypeOK, NEW h \in Handlers, Leave(h)
  PROVE  pc' \in [Handlers -> Calls] /\ ctx' \in [Handlers -> Context]
BY KeepType, GotoType, NoContextType DEF Leave, Calls

LEMMA TypeStep == IInv /\ [Next]_vars => TypeOK'
<1> SUFFICES ASSUME IInv, [Next]_vars PROVE TypeOK'
  OBVIOUS
<1> USE DEF rows, history
<1>0. /\ work \in Works /\ header \in {"none", "draft", "published"}
      /\ versions \in Seq(VersionRow) /\ Len(versions) <= MaxVersions
      /\ decision \in {"none", "pending"} \cup (IF work \in Decidable THEN DecisionsOn(work) ELSE {})
      /\ pc \in [Handlers -> Calls] /\ ctx \in [Handlers -> Context]
      /\ overlapped \in BOOLEAN /\ torn \in BOOLEAN /\ disputed \in BOOLEAN
      /\ told \subseteq Decisions
      /\ Len(versions) \in Nat /\ DOMAIN versions = 1..Len(versions)
      /\ Len(versions) + 1 \in 0..(MaxVersions + 1)
  BY LenProperties DEF IInv, TypeOK, GovernanceAssumption
<1>1. CASE UNCHANGED vars
  BY <1>1 DEF vars, IInv, TypeOK
<1>2. ASSUME NEW h \in Handlers, Serve(h)
      PROVE  TypeOK'
  <2>1. ASSUME NEW op \in {"list", "create"}, UsePublication(h, op)
       PROVE  TypeOK'
    <3>1. [NoContext EXCEPT !.op = op] \in Context
      BY <2>1, NoContextType DEF Context
    <3> QED
      BY <1>0, <2>1, <3>1, KeepType, GotoType, LeaveType DEF IInv, TypeOK, UsePublication, Calls
  <2>2. CASE SaveHeader(h)
    BY <1>0, <2>2, GotoType, LeaveType DEF IInv, TypeOK, SaveHeader, Calls
  <2>3. CASE FindLast(h)
    <3>1. work # "policy"
      BY <2>3 DEF IInv, ControlInv, ControlOf, FindLast
    <3>2. LastNumber + 1 \in 0..(MaxVersions + 1)
      BY <1>0, <3>1, LastNumberIsLen
    <3>3. [ctx[h] EXCEPT !.number = LastNumber + 1] \in Context
      BY <1>0, <3>2 DEF Context
    <3> QED
      BY <1>0, <2>3, <3>3, KeepType, GotoType DEF IInv, TypeOK, FindLast, Calls
  <2>4. ASSUME NEW label \in Numbers, LabelPolicyVersion(h, label)
       PROVE  TypeOK'
    <3>0. label \in 0..(MaxVersions + 1)
      BY <2>4 DEF Numbers, GovernanceAssumption
    <3>1. [NoContext EXCEPT !.op = "create", !.number = label] \in Context
      BY <3>0, NoContextType DEF Context
    <3> QED
      BY <1>0, <2>4, <3>1, KeepType, GotoType DEF IInv, TypeOK, LabelPolicyVersion, Calls
  <2>5. CASE InsertVersion(h)
    BY <1>0, <2>5, InsertFacts, LeaveType DEF IInv, TypeOK, InsertVersion
  <2>6. CASE pc[h] \in {"saveHeader", "insertVersion"} /\ Throw(h)
    BY <1>0, <2>6, LeaveType DEF IInv, TypeOK, Throw
  <2>7. ASSUME NEW v \in DOMAIN versions, Publish(h, v)
       PROVE  TypeOK'
    <3>0. v \in 0..MaxVersions
      BY <1>0, <2>7 DEF GovernanceAssumption
    <3>1. [NoContext EXCEPT !.op = "publish", !.version = v] \in Context
      BY <3>0, NoContextType DEF Context
    <3> QED
      BY <1>0, <2>7, <3>1, KeepType, GotoType DEF IInv, TypeOK, Publish, Calls
  <2>8. CASE FindPublished(h)
    <3>0. Published \subseteq 0..MaxVersions
      BY <1>0 DEF Published, GovernanceAssumption
    <3>1. ASSUME NEW v \in Published PROVE [ctx[h] EXCEPT !.previous = v] \in Context
      BY <1>0, <3>0 DEF Context
    <3>2. UNCHANGED ctx => ctx' \in [Handlers -> Context]
      BY <1>0
    <3> QED
      BY <1>0, <2>8, <3>1, <3>2, KeepType, GotoType DEF IInv, TypeOK, FindPublished, Calls
  <2>9. CASE SaveArchived(h)
    <3>1. ctx[h].previous \in DOMAIN versions /\ "archived" \in Statuses
      BY <2>9 DEF IInv, ControlInv, ControlOf, SaveArchived, Statuses
    <3>2. versions' \in Seq(VersionRow) /\ Len(versions') = Len(versions)
      BY <2>9, <3>1, SetStatusFacts DEF IInv, SaveArchived
    <3> QED
      BY <1>0, <2>9, <3>2, GotoType DEF IInv, TypeOK, SaveArchived, Calls
  <2>10. CASE SavePublished(h)
    <3>1. ctx[h].version \in DOMAIN versions /\ "published" \in Statuses
      BY <2>10 DEF IInv, ControlInv, ControlOf, SavePublished, Statuses, PublishCalls
    <3>2. versions' \in Seq(VersionRow) /\ Len(versions') = Len(versions)
      BY <2>10, <3>1, SetStatusFacts DEF IInv, SavePublished
    <3>3. torn' \in BOOLEAN
      BY <1>0, <2>10 DEF SavePublished, Mended
    <3>4. pc' \in [Handlers -> Calls] /\ ctx' \in [Handlers -> Context]
      BY <1>0, <2>10, GotoType, LeaveType DEF IInv, SavePublished, Calls
    <3> QED
      BY <1>0, <2>10, <3>2, <3>3, <3>4 DEF IInv, TypeOK, SavePublished
  <2>11. CASE UpdateHeader(h)
    BY <1>0, <2>11, LeaveType DEF IInv, TypeOK, UpdateHeader, Mended
  <2>12. CASE StartDecidable(h)
    BY <1>0, <2>12 DEF IInv, TypeOK, StartDecidable
  <2>13. ASSUME NEW d \in DecisionsOn(work), work \in Decidable /\ Decide(h, d)
       PROVE  TypeOK'
    <3>1. [NoContext EXCEPT !.op = "decide", !.decision = d] \in Context
      BY <2>13, NoContextType DEF Context, Decisions
    <3> QED
      BY <1>0, <2>13, <3>1, KeepType, GotoType DEF IInv, TypeOK, Decide, Calls
  <2>14. CASE SaveDecision(h)
    <3>1. ctx[h].decision \in DecisionsOn(work) /\ work \in Decidable
      BY <2>14 DEF IInv, ControlInv, ControlOf, SaveDecision
    <3>2. told' \subseteq Decisions
      BY <1>0, <2>14, <3>1 DEF SaveDecision, Decisions
    <3>3. disputed' \in BOOLEAN
      BY <1>0, <2>14 DEF SaveDecision
    <3> QED
      BY <1>0, <2>14, <3>1, <3>2, <3>3, LeaveType DEF IInv, TypeOK, SaveDecision
  <2>15. CASE Fail(h)
    <3>1. torn' \in BOOLEAN
      BY <1>0, <2>15 DEF Fail
    <3> QED
      BY <1>0, <2>15, <3>1, LeaveType DEF IInv, TypeOK, Fail
  <2> QED
    BY <1>2, <2>1, <2>2, <2>3, <2>4, <2>5, <2>6, <2>7, <2>8, <2>9, <2>10, <2>11, <2>12, <2>13, <2>14, <2>15 DEF Serve
<1> QED
  BY <1>1, <1>2, NextCases

-----------------------------------------------------------------------------
(***************************************************************************)
(* What a step leaves alone                                                *)
(***************************************************************************)
\* Versions are never removed, and never become drafts again.
Grown ==
  /\ DOMAIN versions \subseteq DOMAIN versions' /\ Len(versions) <= Len(versions')
  /\ \A w \in DOMAIN versions : versions[w].status # "draft" => versions'[w].status # "draft"

\* The version that a publication archives, and the one it publishes, are there.
LEMMA PublisherHolds ==
  ASSUME IInv, NEW h \in Handlers
  PROVE  /\ pc[h] = "saveArchived" => ctx[h].previous \in DOMAIN versions
         /\ pc[h] \in PublishCalls => ctx[h].version \in DOMAIN versions
BY DEF IInv, ControlInv, ControlOf

\* Versions change in three calls only.
LEMMA VersionMoves ==
  ASSUME NEW h \in Handlers, Serve(h)
  PROVE  \/ UNCHANGED versions
         \/ InsertVersion(h) \/ SaveArchived(h) \/ SavePublished(h)
BY DEF Serve, rows, UsePublication, SaveHeader, FindLast, LabelPolicyVersion, Throw, Publish,
       FindPublished, UpdateHeader, StartDecidable, Decide, SaveDecision, Fail

LEMMA GrownStep ==
  ASSUME IInv, NEW h \in Handlers, Serve(h)
  PROVE  Grown
<1>0. DOMAIN versions = 1..Len(versions) /\ Len(versions) \in Nat
  BY LenProperties DEF IInv, TypeOK
<1>1. CASE UNCHANGED versions
  BY <1>0, <1>1 DEF Grown
<1>2. CASE InsertVersion(h)
  BY <1>0, <1>2, InsertFacts DEF Grown
<1>3. CASE SaveArchived(h)
  <2>1. /\ DOMAIN versions' = DOMAIN versions /\ Len(versions') = Len(versions)
        /\ versions'[ctx[h].previous].status = "archived"
        /\ \A w \in DOMAIN versions \ {ctx[h].previous} :
             versions'[w].status = versions[w].status
    BY <1>3, SetStatusFacts, PublisherHolds DEF SaveArchived, Statuses, IInv
  <2> QED
    BY <1>0, <2>1 DEF Grown
<1>4. CASE SavePublished(h)
  <2>1. /\ DOMAIN versions' = DOMAIN versions /\ Len(versions') = Len(versions)
        /\ versions'[ctx[h].version].status = "published"
        /\ \A w \in DOMAIN versions \ {ctx[h].version} :
             versions'[w].status = versions[w].status
    BY <1>4, SetStatusFacts, PublisherHolds DEF SavePublished, Statuses, IInv, PublishCalls
  <2> QED
    BY <1>0, <2>1 DEF Grown
<1> QED
  BY <1>1, <1>2, <1>3, <1>4, VersionMoves

\* A handler moves nobody else, and the record remains of its kind.
LEMMA OthersStay ==
  ASSUME IInv, NEW h \in Handlers, Serve(h), NEW g \in Handlers \ {h}
  PROVE  pc'[g] = pc[g] /\ ctx'[g] = ctx[g] /\ work' = work
<1>0. pc \in [Handlers -> Calls] /\ ctx \in [Handlers -> Context]
  BY DEF IInv, TypeOK
<1>1. work' = work
  BY DEF Serve, UsePublication, SaveHeader, FindLast, LabelPolicyVersion, InsertVersion, Throw,
         Publish, FindPublished, SaveArchived, SavePublished, UpdateHeader, StartDecidable,
         Decide, SaveDecision, Fail
<1>2. pc'[g] = pc[g]
  BY <1>0 DEF Serve, UsePublication, SaveHeader, FindLast, LabelPolicyVersion, InsertVersion, Throw,
         Publish, FindPublished, SaveArchived, SavePublished, UpdateHeader, StartDecidable,
         Decide, SaveDecision, Fail, Goto, Leave
<1>3. ctx'[g] = ctx[g]
  BY <1>0 DEF Serve, UsePublication, SaveHeader, FindLast, LabelPolicyVersion, InsertVersion, Throw,
         Publish, FindPublished, SaveArchived, SavePublished, UpdateHeader, StartDecidable,
         Decide, SaveDecision, Fail, Keep, Leave
<1> QED
  BY <1>1, <1>2, <1>3

LEMMA HeaderStep == IInv /\ [Next]_vars => HeaderInv'
<1> SUFFICES ASSUME IInv, [Next]_vars PROVE HeaderInv'
  OBVIOUS
<1>1. CASE UNCHANGED vars
  BY <1>1 DEF vars, rows, IInv, HeaderInv
<1>2. ASSUME NEW h \in Handlers, Serve(h)
      PROVE  HeaderInv'
  <2>1. work' = work /\ (header' = header \/ header' \in {"draft", "published"})
    BY <1>2 DEF Serve, rows, UsePublication, SaveHeader, FindLast, LabelPolicyVersion, InsertVersion,
           Throw, Publish, FindPublished, SaveArchived, SavePublished, UpdateHeader, StartDecidable,
           Decide, SaveDecision, Fail
  <2> QED
    BY <2>1 DEF IInv, HeaderInv
<1> QED
  BY <1>1, <1>2, NextCases

-----------------------------------------------------------------------------
(***************************************************************************)
(* What handlers hold                                                      *)
(***************************************************************************)
\* After a handler has answered or thrown, it holds nothing.
LEMMA LeaveControl ==
  ASSUME IInv, NEW h \in Handlers, Leave(h)
  PROVE  ControlOf(h)'
BY DEF IInv, TypeOK, Leave, Goto, Keep, NoContext, ControlOf, PublishCalls

LEMMA ControlStep == IInv /\ [Next]_vars => ControlInv'
<1> SUFFICES ASSUME IInv, [Next]_vars PROVE ControlInv'
  OBVIOUS
<1> USE DEF rows, history
<1>0. /\ pc \in [Handlers -> Calls] /\ ctx \in [Handlers -> Context]
      /\ DOMAIN versions = 1..Len(versions) /\ Len(versions) \in Nat
  BY LenProperties DEF IInv, TypeOK
<1>1. CASE UNCHANGED vars
  BY <1>1 DEF vars, IInv, ControlInv, ControlOf
<1>2. ASSUME NEW h \in Handlers, Serve(h)
      PROVE  ControlOf(h)'
  <2>0. ControlOf(h)
    BY DEF IInv, ControlInv
  <2>1. ASSUME NEW op \in {"list", "create"}, UsePublication(h, op)
       PROVE  ControlOf(h)'
    <3>1. CASE Leave(h)
      BY <3>1, LeaveControl
    <3>2. CASE ~Leave(h)
      <4>1. /\ pc'[h] = "saveHeader" \/ (pc'[h] = "findLast" /\ op = "create")
            /\ ctx'[h] = [NoContext EXCEPT !.op = op]
            /\ pc'[h] = "saveHeader" => header = "none"
        BY <1>0, <2>1, <3>2 DEF UsePublication, Goto, Keep
      <4>2. ctx'[h].op = op /\ UNCHANGED work /\ work \in {"service", "matrix"}
        BY <4>1, <2>1 DEF NoContext, UsePublication
      <4> QED
        BY <4>1, <4>2, <2>1 DEF ControlOf, PublishCalls, IInv, HeaderInv
    <3> QED
      BY <3>1, <3>2
  <2>2. CASE SaveHeader(h)
    <3>1. CASE Leave(h)
      BY <3>1, LeaveControl
    <3>2. CASE ~Leave(h)
      BY <1>0, <2>0, <2>2, <3>2 DEF SaveHeader, Goto, ControlOf, PublishCalls
    <3> QED
      BY <3>1, <3>2
  <2>3. CASE FindLast(h)
    <3>1. ctx'[h] = [ctx[h] EXCEPT !.number = Len(versions) + 1] /\ pc'[h] = "insertVersion"
      BY <1>0, <2>0, <2>3, LastNumberIsLen DEF FindLast, Goto, Keep, ControlOf
    <3>2. ctx'[h].op = "create" /\ ctx'[h].number = Len(versions) + 1
      BY <1>0, <2>0, <2>3, <3>1 DEF FindLast, ControlOf, Context
    <3> QED
      BY <1>0, <2>0, <2>3, <3>1, <3>2 DEF FindLast, ControlOf, PublishCalls, rows
  <2>4. ASSUME NEW label \in Numbers, LabelPolicyVersion(h, label)
       PROVE  ControlOf(h)'
    BY <1>0, <2>0, <2>4 DEF LabelPolicyVersion, Goto, Keep, NoContext, ControlOf, PublishCalls
  <2>5. CASE InsertVersion(h)
    BY <2>5, LeaveControl DEF InsertVersion
  <2>6. CASE pc[h] \in {"saveHeader", "insertVersion"} /\ Throw(h)
    BY <2>6, LeaveControl DEF Throw
  <2>7. ASSUME NEW v \in DOMAIN versions, Publish(h, v)
       PROVE  ControlOf(h)'
    BY <1>0, <2>0, <2>7 DEF Publish, Goto, Keep, NoContext, ControlOf, PublishCalls
  <2>8. CASE FindPublished(h)
    <3>0. UNCHANGED <<versions, work>> /\ ctx[h].op = "publish" /\ ctx[h].version \in DOMAIN versions
      BY <2>0, <2>8 DEF FindPublished, ControlOf, PublishCalls, rows
    <3>1. CASE Published = {} /\ Goto(h, "savePublished") /\ UNCHANGED ctx
      BY <1>0, <3>0, <3>1 DEF Goto, ControlOf, PublishCalls
    <3>2. ASSUME NEW v \in Published, Keep(h, [ctx[h] EXCEPT !.previous = v]), Goto(h, "saveArchived")
          PROVE  ControlOf(h)'
      <4>1. /\ pc'[h] = "saveArchived" /\ ctx'[h].previous = v
            /\ ctx'[h].op = "publish" /\ ctx'[h].version \in DOMAIN versions
        BY <1>0, <3>0, <3>2 DEF Goto, Keep, Context
      <4>2. v \in DOMAIN versions /\ versions[v].status # "draft"
        BY DEF Published
      <4> QED
        BY <3>0, <4>1, <4>2 DEF ControlOf, PublishCalls
    <3> QED
      BY <2>8, <3>1, <3>2 DEF FindPublished
  <2>9. CASE SaveArchived(h)
    <3>1. /\ pc'[h] = "savePublished" /\ ctx' = ctx /\ work' = work
          /\ ctx[h].op = "publish" /\ ctx[h].version \in DOMAIN versions
      BY <1>0, <2>0, <2>9 DEF SaveArchived, Goto, ControlOf, PublishCalls
    <3>2. DOMAIN versions \subseteq DOMAIN versions'
      BY <1>2, GrownStep DEF Grown
    <3> QED
      BY <3>1, <3>2 DEF ControlOf, PublishCalls
  <2>10. CASE SavePublished(h)
    <3>1. CASE Leave(h)
      BY <3>1, LeaveControl
    <3>2. CASE ~Leave(h)
      <4>1. /\ pc'[h] = "updateHeader" /\ ctx' = ctx /\ work = "service" /\ work' = work
            /\ ctx[h].op = "publish" /\ ctx[h].version \in DOMAIN versions
        BY <1>0, <2>0, <2>10, <3>2 DEF SavePublished, Goto, ControlOf, PublishCalls
      <4>2. DOMAIN versions \subseteq DOMAIN versions'
        BY <1>2, GrownStep DEF Grown
      <4>3. versions'[ctx[h].version].status = "published"
        BY <4>1, <2>10, SetStatusFacts DEF SavePublished, Statuses, IInv
      <4> QED
        BY <4>1, <4>2, <4>3 DEF ControlOf, PublishCalls
    <3> QED
      BY <3>1, <3>2
  <2>11. CASE UpdateHeader(h)
    BY <2>11, LeaveControl DEF UpdateHeader
  <2>12. CASE StartDecidable(h)
    BY <1>0, <2>0, <2>12 DEF StartDecidable, ControlOf, PublishCalls
  <2>13. ASSUME NEW d \in DecisionsOn(work), work \in Decidable /\ Decide(h, d)
       PROVE  ControlOf(h)'
    BY <1>0, <2>0, <2>13 DEF Decide, Goto, Keep, NoContext, ControlOf, PublishCalls
  <2>14. CASE SaveDecision(h)
    BY <2>14, LeaveControl DEF SaveDecision
  <2>15. CASE Fail(h)
    BY <2>15, LeaveControl DEF Fail
  <2> QED
    BY <1>2, <2>1, <2>2, <2>3, <2>4, <2>5, <2>6, <2>7, <2>8, <2>9, <2>10, <2>11, <2>12, <2>13, <2>14, <2>15 DEF Serve
<1>3. ASSUME NEW h \in Handlers, Serve(h), NEW g \in Handlers \ {h}
      PROVE  ControlOf(g)'
  <2>1. pc'[g] = pc[g] /\ ctx'[g] = ctx[g] /\ work' = work
    BY <1>3, OthersStay
  <2>2. ControlOf(g) /\ Grown
    BY <1>3, GrownStep DEF IInv, ControlInv
  <2>3. 1..(Len(versions) + 1) \subseteq 1..(Len(versions') + 1)
    <3>1. Len(versions') \in Nat
      BY TypeStep, LenProperties DEF TypeOK
    <3> QED
      BY <1>0, <2>2, <3>1 DEF Grown
  <2> QED
    BY <2>1, <2>2, <2>3 DEF ControlOf, Grown, PublishCalls
<1> QED
  BY <1>1, <1>2, <1>3, NextCases DEF ControlInv

-----------------------------------------------------------------------------
(***************************************************************************)
(* Numbers                                                                 *)
(***************************************************************************)
LEMMA NumbersStep == IInv /\ [Next]_vars => VersionsNumbered'
<1> SUFFICES ASSUME IInv, [Next]_vars PROVE VersionsNumbered'
  OBVIOUS
<1>0. DOMAIN versions = 1..Len(versions) /\ Len(versions) \in Nat
  BY LenProperties DEF IInv, TypeOK
<1>1. CASE UNCHANGED vars
  BY <1>1 DEF vars, rows, IInv, VersionsNumbered
<1>2. ASSUME NEW h \in Handlers, Serve(h)
      PROVE  VersionsNumbered'
  <2>0. work' = work
    BY <1>2 DEF Serve, UsePublication, SaveHeader, FindLast, LabelPolicyVersion, InsertVersion, Throw,
           Publish, FindPublished, SaveArchived, SavePublished, UpdateHeader, StartDecidable,
           Decide, SaveDecision, Fail
  <2>1. CASE UNCHANGED versions
    BY <2>0, <2>1 DEF IInv, VersionsNumbered
  <2>2. CASE InsertVersion(h)
    <3>1. \A w \in DOMAIN versions : versions[w].number # ctx[h].number
      BY <2>2 DEF InsertVersion, NumberTaken
    <3>2. \A v, w \in DOMAIN versions' :
            versions'[v].number = versions'[w].number => v = w
      BY <2>2, <3>1, InsertFacts DEF IInv, VersionsNumbered
    <3>3. ASSUME work # "policy"
          PROVE  ctx[h].number = Len(versions) + 1
      <4>1. ctx[h].number \in 1..(Len(versions) + 1)
        BY <2>2, <3>3 DEF IInv, ControlInv, ControlOf, InsertVersion
      <4>2. ctx[h].number \notin DOMAIN versions
        BY <3>1, <3>3 DEF IInv, VersionsNumbered
      <4> QED
        BY <1>0, <4>1, <4>2
    <3>4. work # "policy" => \A v \in DOMAIN versions' : versions'[v].number = v
      BY <2>2, <3>3, InsertFacts DEF IInv, VersionsNumbered
    <3> QED
      BY <2>0, <3>2, <3>4 DEF VersionsNumbered
  <2>3. CASE SaveArchived(h) \/ SavePublished(h)
    <3>1. /\ DOMAIN versions' = DOMAIN versions
          /\ \A w \in DOMAIN versions : versions'[w].number = versions[w].number
      BY <2>3, SetStatusFacts, PublisherHolds
         DEF SaveArchived, SavePublished, Statuses, PublishCalls, IInv
    <3> QED
      BY <2>0, <3>1 DEF IInv, VersionsNumbered
  <2> QED
    BY <1>2, <2>1, <2>2, <2>3, VersionMoves
<1> QED
  BY <1>1, <1>2, NextCases

-----------------------------------------------------------------------------
(***************************************************************************)
(* The published version                                                   *)
(***************************************************************************)
\* What each call does to the set of published versions, and to what was released.
LEMMA PublishedMoves ==
  ASSUME IInv, NEW h \in Handlers, Serve(h)
  PROVE  /\ SaveArchived(h) => Published' = Published \ {ctx[h].previous}
         /\ SavePublished(h) => Published' = Published \cup {ctx[h].version}
         /\ ~SaveArchived(h) /\ ~SavePublished(h) => Published' = Published
         /\ Released => Released'
         /\ ~SavePublished(h) /\ Released' => Released
<1>1. CASE UNCHANGED versions /\ ~SaveArchived(h) /\ ~SavePublished(h)
  BY <1>1 DEF Published, Released
<1>2. CASE InsertVersion(h)
  <2>1. /\ DOMAIN versions' = DOMAIN versions \cup {Len(versions')}
        /\ \A w \in DOMAIN versions : versions'[w] = versions[w]
        /\ versions'[Len(versions')].status = "draft"
    BY <1>2, InsertFacts
  <2>2. ~SaveArchived(h) /\ ~SavePublished(h)
    BY <1>2 DEF InsertVersion, SaveArchived, SavePublished
  <2>3. DOMAIN versions = 1..Len(versions) /\ DOMAIN versions' = 1..Len(versions')
    BY <1>2, InsertFacts, LenProperties DEF IInv, TypeOK
  <2> QED
    BY <2>1, <2>2 DEF Published, Released
<1>3. CASE SaveArchived(h)
  <2>1. /\ ctx[h].previous \in DOMAIN versions /\ DOMAIN versions' = DOMAIN versions
        /\ versions'[ctx[h].previous].status = "archived"
        /\ \A w \in DOMAIN versions \ {ctx[h].previous} :
             versions'[w].status = versions[w].status
        /\ versions[ctx[h].previous].status # "draft"
    BY <1>3, SetStatusFacts, PublisherHolds
       DEF SaveArchived, Statuses, IInv, ControlInv, ControlOf
  <2>2. ~SavePublished(h)
    BY <1>3 DEF SaveArchived, SavePublished
  <2>3. Published' = Published \ {ctx[h].previous}
    BY <2>1 DEF Published
  <2>4. Released' <=> Released
    BY <2>1 DEF Released
  <2> QED
    BY <1>3, <2>2, <2>3, <2>4
<1>4. CASE SavePublished(h)
  <2>1. /\ ctx[h].version \in DOMAIN versions /\ DOMAIN versions' = DOMAIN versions
        /\ versions'[ctx[h].version].status = "published"
        /\ \A w \in DOMAIN versions \ {ctx[h].version} :
             versions'[w].status = versions[w].status
    BY <1>4, SetStatusFacts, PublisherHolds DEF SavePublished, Statuses, IInv, PublishCalls
  <2>2. ~SaveArchived(h)
    BY <1>4 DEF SaveArchived, SavePublished
  <2>3. Published' = Published \cup {ctx[h].version}
    BY <2>1 DEF Published
  <2>4. Released'
    BY <2>1 DEF Released
  <2> QED
    BY <1>4, <2>2, <2>3, <2>4
<1> QED
  BY <1>1, <1>2, <1>3, <1>4, VersionMoves

\* Only Publish begins a publication, and it notices those in progress.
LEMMA PublishersMove ==
  ASSUME IInv, NEW h \in Handlers, Serve(h), ~overlapped'
  PROVE  /\ ~overlapped
         /\ \/ Publishers' \subseteq Publishers
            \/ Publishers = {} /\ Publishers' \subseteq {h} /\ pc'[h] = "findPublished"
<1>0. pc \in [Handlers -> Calls] /\ ctx \in [Handlers -> Context]
  BY DEF IInv, TypeOK
<1>1. CASE \E v \in DOMAIN versions : Publish(h, v)
  <2>1. ~overlapped /\ Publishers = {} /\ pc'[h] = "findPublished"
    BY <1>0, <1>1 DEF Publish, Goto
  <2>2. Publishers' \subseteq {h}
    BY <2>1, OthersStay DEF Publishers
  <2> QED
    BY <2>1, <2>2
<1>2. CASE ~\E v \in DOMAIN versions : Publish(h, v)
  <2>1. ~overlapped
    BY <1>2 DEF Serve, history, UsePublication, SaveHeader, FindLast, LabelPolicyVersion,
           InsertVersion, Throw, FindPublished, SaveArchived, SavePublished, UpdateHeader,
           StartDecidable, Decide, SaveDecision, Fail
  <2>2. ctx'[h].op = "publish" => ctx[h].op = "publish"
    <3>0. NoContext.op # "publish" /\ ctx[h] \in Context
      BY <1>0 DEF NoContext
    <3>1. CASE Leave(h)
      BY <1>0, <3>0, <3>1 DEF Leave, Keep
    <3>2. CASE ctx' = ctx
      BY <3>2
    <3>3. CASE FindLast(h)
      BY <1>0, <3>0, <3>3 DEF FindLast, Keep, Context
    <3>4. CASE FindPublished(h)
      BY <3>4 DEF FindPublished, IInv, ControlInv, ControlOf, PublishCalls
    <3>5. CASE \/ \E op \in {"list", "create"} : Keep(h, [NoContext EXCEPT !.op = op])
               \/ \E label \in Numbers : Keep(h, [NoContext EXCEPT !.op = "create", !.number = label])
               \/ \E d \in DecisionsOn(work) : Keep(h, [NoContext EXCEPT !.op = "decide", !.decision = d])
      BY <1>0, <3>5 DEF Keep, NoContext
    <3> QED
      BY <1>2, <3>1, <3>2, <3>3, <3>4, <3>5
         DEF Serve, UsePublication, SaveHeader, LabelPolicyVersion, InsertVersion, Throw,
             SaveArchived, SavePublished, UpdateHeader, StartDecidable, Decide, SaveDecision, Fail
  <2>3. Publishers' \subseteq Publishers
    BY <2>2, OthersStay DEF Publishers
  <2> QED
    BY <2>1, <2>3
<1> QED
  BY <1>1, <1>2

\* How a handler comes to each of the calls of a publication.
LEMMA PublishPath ==
  ASSUME IInv, NEW h \in Handlers, Serve(h)
  PROVE  /\ pc'[h] = "saveArchived" => FindPublished(h)
         /\ pc'[h] = "savePublished" => FindPublished(h) \/ SaveArchived(h)
         /\ pc'[h] = "updateHeader" => SavePublished(h)
<1>0. pc \in [Handlers -> Calls]
  BY DEF IInv, TypeOK
<1>1. CASE FindPublished(h) \/ SaveArchived(h) \/ SavePublished(h)
  BY <1>0, <1>1 DEF FindPublished, SaveArchived, SavePublished, Goto, Leave
<1>2. CASE ~FindPublished(h) /\ ~SaveArchived(h) /\ ~SavePublished(h)
  BY <1>0, <1>2 DEF Serve, UsePublication, SaveHeader, FindLast, LabelPolicyVersion, InsertVersion,
         Throw, Publish, UpdateHeader, StartDecidable, Decide, SaveDecision, Fail, Goto, Leave
<1> QED
  BY <1>1, <1>2

LEMMA OneStep == IInv /\ [Next]_vars => OneInv'
<1> SUFFICES ASSUME IInv, [Next]_vars, ~overlapped' PROVE Exclusive'
  BY DEF OneInv
<1>0. pc \in [Handlers -> Calls] /\ ctx \in [Handlers -> Context]
  BY DEF IInv, TypeOK
<1>1. CASE UNCHANGED vars
  BY <1>1 DEF vars, rows, history, IInv, OneInv, Exclusive, Publishers, Published
<1>2. ASSUME NEW h \in Handlers, Serve(h)
      PROVE  Exclusive'
  <2>0. Exclusive
    BY <1>2, PublishersMove DEF IInv, OneInv
  <2>1. \A g, k \in Publishers' : g = k
    BY <1>2, <2>0, PublishersMove DEF Exclusive
  <2>2. \A v, w \in Published' : v = w
    <3>1. SavePublished(h) => Published = {}
      BY <2>0 DEF SavePublished, Exclusive
    <3> QED
      BY <1>2, <2>0, <3>1, PublishedMoves DEF Exclusive
  <2>3. ASSUME NEW g \in Handlers \ {h}
        PROVE  /\ pc'[g] = "saveArchived" => Published' \subseteq {ctx'[g].previous}
               /\ pc'[g] = "savePublished" => Published' = {}
               /\ pc'[g] = "updateHeader" => Published' = {ctx'[g].version}
    <3>1. pc'[g] = pc[g] /\ ctx'[g] = ctx[g]
      BY <1>2, OthersStay
    <3>2. CASE pc[g] \in PublishCalls
      <4>1. g \in Publishers /\ h \notin Publishers
        BY <2>0, <3>2 DEF Exclusive, Publishers, IInv, ControlInv, ControlOf
      <4>2. ~SaveArchived(h) /\ ~SavePublished(h)
        BY <4>1 DEF SaveArchived, SavePublished, Publishers, PublishCalls, IInv, ControlInv, ControlOf
      <4>3. Published' = Published
        BY <1>2, <4>2, PublishedMoves
      <4> QED
        BY <2>0, <3>1, <4>3 DEF Exclusive
    <3> QED
      BY <3>1, <3>2 DEF PublishCalls
  <2>4. pc'[h] = "saveArchived" => Published' \subseteq {ctx'[h].previous}
    <3> SUFFICES ASSUME pc'[h] = "saveArchived" PROVE Published' \subseteq {ctx'[h].previous}
      OBVIOUS
    <3>1. FindPublished(h) /\ ~SaveArchived(h) /\ ~SavePublished(h)
      BY <1>2, PublishPath DEF FindPublished, SaveArchived, SavePublished
    <3>2. PICK v \in Published : Keep(h, [ctx[h] EXCEPT !.previous = v])
      BY <1>0, <3>1 DEF FindPublished, Goto
    <3>3. ctx'[h].previous = v
      BY <1>0, <3>2 DEF Keep, Context
    <3> QED
      BY <1>2, <2>0, <3>1, <3>3, PublishedMoves DEF Exclusive
  <2>5. pc'[h] = "savePublished" => Published' = {}
    <3> SUFFICES ASSUME pc'[h] = "savePublished" PROVE Published' = {}
      OBVIOUS
    <3>1. CASE FindPublished(h)
      <4>1. Published = {} /\ ~SaveArchived(h) /\ ~SavePublished(h)
        BY <1>0, <3>1 DEF FindPublished, Goto, SaveArchived, SavePublished
      <4> QED
        BY <1>2, <4>1, PublishedMoves
    <3>2. CASE SaveArchived(h)
      BY <1>2, <2>0, <3>2, PublishedMoves DEF Exclusive, SaveArchived
    <3> QED
      BY <1>2, <3>1, <3>2, PublishPath
  <2>6. pc'[h] = "updateHeader" => Published' = {ctx'[h].version}
    <3> SUFFICES ASSUME pc'[h] = "updateHeader" PROVE Published' = {ctx'[h].version}
      OBVIOUS
    <3>1. SavePublished(h)
      BY <1>2, PublishPath
    <3>2. Published = {}
      BY <2>0, <3>1 DEF SavePublished, Exclusive
    <3>3. ctx' = ctx
      BY <1>0, <3>1 DEF SavePublished, Leave, Goto
    <3> QED
      BY <1>2, <3>1, <3>2, <3>3, PublishedMoves
  <2> QED
    BY <2>1, <2>2, <2>3, <2>4, <2>5, <2>6 DEF Exclusive
<1> QED
  BY <1>1, <1>2, NextCases

-----------------------------------------------------------------------------
(***************************************************************************)
(* The catalogue                                                           *)
(***************************************************************************)
\* What a handler does that neither saves a published version nor the header: it leaves
\* no call of a publication behind, unless it dies there.
LEMMA CatalogueStays ==
  ASSUME IInv, NEW h \in Handlers, Serve(h),
         ~SaveArchived(h), ~SavePublished(h), ~UpdateHeader(h), ~torn'
  PROVE  /\ ~torn
         /\ header' = header \/ (header = "none" /\ header' = "draft")
         /\ pc[h] # "updateHeader" /\ ~(pc[h] = "savePublished" /\ ctx[h].previous # 0)
<1>1. CASE Fail(h)
  BY <1>1 DEF Fail, rows
<1>2. CASE ~Fail(h)
  <2>1. torn' = torn
    BY <1>2 DEF Serve, history, UsePublication, SaveHeader, FindLast, LabelPolicyVersion,
           InsertVersion, Throw, Publish, FindPublished, StartDecidable, Decide, SaveDecision
  <2>2. header' = header \/ (header = "none" /\ header' = "draft")
    BY <1>2 DEF Serve, rows, UsePublication, SaveHeader, FindLast, LabelPolicyVersion,
           InsertVersion, Throw, Publish, FindPublished, StartDecidable, Decide, SaveDecision
  <2>3. pc[h] # "updateHeader" /\ pc[h] # "savePublished"
    BY <1>2 DEF Serve, UsePublication, SaveHeader, FindLast, LabelPolicyVersion,
           InsertVersion, Throw, Publish, FindPublished, StartDecidable, Decide, SaveDecision
  <2> QED
    BY <2>1, <2>2, <2>3
<1> QED
  BY <1>1, <1>2

LEMMA CatalogueStep == IInv /\ [Next]_vars => CatalogueInv'
<1> SUFFICES ASSUME IInv, [Next]_vars PROVE CatalogueInv'
  OBVIOUS
<1>0. /\ pc \in [Handlers -> Calls] /\ ctx \in [Handlers -> Context]
      /\ overlapped \in BOOLEAN /\ torn \in BOOLEAN
      /\ DOMAIN versions = 1..Len(versions)
  BY LenProperties DEF IInv, TypeOK
<1>1. CASE UNCHANGED vars
  BY <1>1 DEF vars, rows, history, IInv, CatalogueInv, Released, Published
<1>2. ASSUME NEW h \in Handlers, Serve(h)
      PROVE  CatalogueInv'
  <2>0. CatalogueInv /\ (Released => Released') /\ work' = work
    <3>1. work' = work
      BY <1>2 DEF Serve, UsePublication, SaveHeader, FindLast, LabelPolicyVersion, InsertVersion, Throw,
           Publish, FindPublished, SaveArchived, SavePublished, UpdateHeader, StartDecidable,
           Decide, SaveDecision, Fail
    <3> QED
      BY <1>2, <3>1, PublishedMoves DEF IInv
  <2>1. CASE SaveArchived(h)
    <3>1. /\ header' = header /\ torn' = torn /\ pc'[h] = "savePublished" /\ ctx' = ctx
          /\ pc[h] = "saveArchived"
      BY <1>0, <2>1 DEF SaveArchived, history, Goto
    <3>2. ctx[h].previous \in DOMAIN versions
      BY <2>1, PublisherHolds DEF SaveArchived
    <3>3. ctx'[h].previous # 0
      BY <1>0, <3>1, <3>2
    <3>4. Released' => Released
      BY <1>2, <2>1, PublishedMoves DEF SaveArchived, SavePublished
    <3>5. \A g \in Handlers : pc[g] = "updateHeader" => pc'[g] = "updateHeader"
      BY <1>2, <3>1, OthersStay
    <3> QED
      BY <2>0, <3>1, <3>3, <3>4, <3>5 DEF CatalogueInv
  <2>2. CASE SavePublished(h)
    <3>1. Published' # {} /\ Released'
      <4>1. Published' = Published \cup {ctx[h].version}
        BY <1>2, <2>2, PublishedMoves
      <4>2. \A v \in Published' : v \in DOMAIN versions' /\ versions'[v].status = "published"
        BY DEF Published
      <4> QED
        BY <4>1, <4>2 DEF Released
    <3>2. work' = "service" => pc'[h] = "updateHeader"
      BY <1>0, <2>0, <2>2 DEF SavePublished, Goto
    <3> QED
      BY <3>1, <3>2 DEF CatalogueInv
  <2>3. CASE UpdateHeader(h)
    <3>1. header' = "published" /\ Published' = Published /\ pc[h] = "updateHeader"
      BY <1>2, <2>3, PublishedMoves DEF UpdateHeader, SaveArchived, SavePublished
    <3>2. Released
      BY <2>3 DEF UpdateHeader, IInv, ControlInv, ControlOf, PublishCalls, Released
    <3>3. ASSUME ~torn'
          PROVE  \/ Published' # {}
                 \/ \E g \in Handlers : pc'[g] = "savePublished" /\ ctx'[g].previous # 0
      <4>1. CASE torn
        <5>1. ~overlapped
          BY <2>3, <3>3, <4>1 DEF UpdateHeader, Mended
        <5> QED
          BY <3>1, <5>1 DEF IInv, OneInv, Exclusive
      <4>2. CASE ~torn
        <5>1. \A g \in Handlers : pc[g] = "savePublished" => pc'[g] = pc[g] /\ ctx'[g] = ctx[g]
          BY <1>2, <3>1, OthersStay
        <5> QED
          BY <2>0, <3>1, <3>2, <4>2, <5>1 DEF CatalogueInv
      <4> QED
        BY <4>1, <4>2
    <3> QED
      BY <2>0, <3>1, <3>2, <3>3 DEF CatalogueInv
  <2>4. CASE ~SaveArchived(h) /\ ~SavePublished(h) /\ ~UpdateHeader(h)
    <3>1. Published' = Published /\ (Released' => Released)
      BY <1>2, <2>4, PublishedMoves
    <3>2. header' = "published" => header = "published"
      BY <1>2, <2>4 DEF Serve, rows, UsePublication, SaveHeader, FindLast, LabelPolicyVersion,
             InsertVersion, Throw, Publish, FindPublished, StartDecidable, Decide, SaveDecision, Fail
    <3>3. ASSUME ~torn'
          PROVE  /\ ~torn /\ (header = "published" => header' = "published")
                 /\ \A g \in Handlers :
                      \/ pc[g] = "updateHeader"
                      \/ pc[g] = "savePublished" /\ ctx[g].previous # 0
                      => pc'[g] = pc[g] /\ ctx'[g] = ctx[g]
      BY <1>2, <2>4, <3>3, CatalogueStays, OthersStay
    <3> QED
      BY <2>0, <3>1, <3>2, <3>3 DEF CatalogueInv
  <2> QED
    BY <2>1, <2>2, <2>3, <2>4
<1> QED
  BY <1>1, <1>2, NextCases

-----------------------------------------------------------------------------
(***************************************************************************)
(* Decisions                                                               *)
(***************************************************************************)
LEMMA DecisionStep == IInv /\ [Next]_vars => DecisionInv'
<1> SUFFICES ASSUME IInv, [Next]_vars, ~disputed', told' # {}
             PROVE  /\ work' \in Decidable /\ decision' \in DecisionsOn(work') \ {"pending"}
                    /\ told' = {decision'}
                    /\ \A g \in Handlers : pc'[g] # "saveDecision"
  BY DEF DecisionInv
<1>0. pc \in [Handlers -> Calls] /\ ctx \in [Handlers -> Context] /\ disputed \in BOOLEAN
  BY DEF IInv, TypeOK
<1>1. CASE UNCHANGED vars
  BY <1>1 DEF vars, rows, history, IInv, DecisionInv
<1>2. ASSUME NEW h \in Handlers, Serve(h)
      PROVE  /\ work' \in Decidable /\ decision' \in DecisionsOn(work') \ {"pending"}
             /\ told' = {decision'}
             /\ \A g \in Handlers : pc'[g] # "saveDecision"
  <2>0. work' = work
    BY <1>2 DEF Serve, UsePublication, SaveHeader, FindLast, LabelPolicyVersion, InsertVersion, Throw,
           Publish, FindPublished, SaveArchived, SavePublished, UpdateHeader, StartDecidable,
           Decide, SaveDecision, Fail
  <2>1. CASE SaveDecision(h)
    <3>1. /\ ~disputed /\ \A g \in Handlers \ {h} : pc[g] # "saveDecision"
          /\ pc[h] = "saveDecision" /\ decision' = ctx[h].decision
          /\ told' = told \cup ({ctx[h].decision} \ {"pending"})
      BY <2>1 DEF SaveDecision
    <3>2. told = {}
      BY <3>1 DEF IInv, DecisionInv
    <3>3. work \in Decidable /\ ctx[h].decision \in DecisionsOn(work)
      BY <3>1 DEF IInv, ControlInv, ControlOf
    <3>4. \A g \in Handlers : pc'[g] # "saveDecision"
      BY <1>0, <2>1, <3>1 DEF SaveDecision, Leave, Goto
    <3> QED
      BY <2>0, <3>1, <3>2, <3>3, <3>4
  <2>2. CASE ~SaveDecision(h)
    <3>1. disputed' = disputed /\ told' = told
      BY <1>2, <2>2 DEF Serve, history, UsePublication, SaveHeader, FindLast, LabelPolicyVersion,
             InsertVersion, Throw, Publish, FindPublished, SaveArchived, SavePublished,
             UpdateHeader, StartDecidable, Decide, Fail
    <3>2. /\ work \in Decidable /\ decision \in DecisionsOn(work) \ {"pending"}
          /\ told = {decision}
          /\ \A g \in Handlers : pc[g] # "saveDecision"
      BY <3>1 DEF IInv, DecisionInv
    <3>3. decision # "none"
      BY <3>2 DEF DecisionsOn, Decidable
    <3>4. decision' = decision
      BY <1>2, <2>2, <3>3 DEF Serve, rows, UsePublication, SaveHeader, FindLast, LabelPolicyVersion,
             InsertVersion, Throw, Publish, FindPublished, SaveArchived, SavePublished,
             UpdateHeader, StartDecidable, Decide, Fail
    <3>5. pc'[h] # "saveDecision"
      BY <1>0, <1>2, <2>2, <3>2
         DEF Serve, UsePublication, SaveHeader, FindLast, LabelPolicyVersion, InsertVersion,
             Throw, Publish, FindPublished, SaveArchived, SavePublished, UpdateHeader,
             StartDecidable, Decide, Fail, Goto, Leave
    <3>6. \A g \in Handlers : pc'[g] # "saveDecision"
      BY <1>2, <3>2, <3>5, OthersStay
    <3> QED
      BY <2>0, <3>1, <3>2, <3>4, <3>6
  <2> QED
    BY <2>1, <2>2
<1> QED
  BY <1>1, <1>2, NextCases

-----------------------------------------------------------------------------
(***************************************************************************)
(* Theorems                                                                *)
(***************************************************************************)
LEMMA InitInv == Init => IInv
<1> SUFFICES ASSUME Init PROVE IInv
  OBVIOUS
<1>1. /\ versions = <<>> /\ versions \in Seq(VersionRow) /\ Len(versions) = 0
      /\ DOMAIN versions = {} /\ Published = {} /\ ~Released
  BY EmptySeq DEF Init, Published, Released
<1>2. TypeOK
  <2>1. pc \in [Handlers -> Calls] /\ ctx \in [Handlers -> Context]
    BY NoContextType DEF Init, Calls
  <2>2. /\ work \in Works /\ header \in {"none", "draft", "published"}
        /\ decision = "none" /\ told = {}
        /\ overlapped \in BOOLEAN /\ torn \in BOOLEAN /\ disputed \in BOOLEAN
    BY DEF Init
  <2>3. Len(versions) <= MaxVersions
    BY <1>1 DEF GovernanceAssumption
  <2> QED
    BY <1>1, <2>1, <2>2, <2>3 DEF TypeOK
<1>3. ControlInv /\ HeaderInv
  BY DEF Init, ControlInv, ControlOf, HeaderInv, NoContext, PublishCalls
<1>4. VersionsNumbered
  BY <1>1 DEF VersionsNumbered
<1>5. OneInv
  BY <1>1 DEF Init, OneInv, Exclusive, Publishers, NoContext
<1>6. CatalogueInv /\ DecisionInv
  BY <1>1 DEF Init, CatalogueInv, DecisionInv
<1> QED
  BY <1>2, <1>3, <1>4, <1>5, <1>6 DEF IInv

LEMMA Invariance == Spec => []IInv
<1>1. IInv /\ [Next]_vars => IInv'
  BY TypeStep, ControlStep, HeaderStep, NumbersStep, OneStep, CatalogueStep, DecisionStep
     DEF IInv
<1> QED
  BY <1>1, InitInv, PTL DEF Spec

\* Type correctness, for any number of handlers and versions: every number, label and id
\* that a handler of the governance, services and SIDUNEA services saves is one that its
\* table can hold, however the handlers interleave and wherever they die.
THEOREM TypeCorrect == Spec => []TypeOK
<1>1. IInv => TypeOK
  BY DEF IInv
<1> QED
  BY <1>1, Invariance, PTL

\* createVersion and createPublicationVersion compute the next number from what they
\* read; still the versions of an owner are numbered 1, 2, 3 ... in the order of their
\* inserts, and no label of a policy is given twice.
THEOREM NumbersFollow == Spec => []VersionsNumbered
<1>1. IInv => VersionsNumbered
  BY DEF IInv
<1> QED
  BY <1>1, Invariance, PTL

\* publishVersion and publishPolicyVersion leave at most one published version, at every
\* moment and whoever dies half way, as long as no two of them overlap.
THEOREM OnePublished == Spec => []OnePublishedUnlessOverlapped
<1>1. IInv => OnePublishedUnlessOverlapped
  BY DEF IInv, OneInv, Exclusive, OnePublishedUnlessOverlapped
<1> QED
  BY <1>1, Invariance, PTL

\* What publishVersion has once put into the catalogue is there for good, and nothing is
\* there that was never published.
THEOREM Catalogue == Spec => []CatalogueFollowsVersions
<1>1. ASSUME IInv PROVE CatalogueFollowsVersions
  <2>1. ASSUME Publishers = {}, NEW h \in Handlers
        PROVE  pc[h] # "savePublished" /\ pc[h] # "updateHeader"
    <3>1. ctx[h].op # "publish" /\ ControlOf(h)
      BY <1>1, <2>1 DEF Publishers, IInv, ControlInv
    <3> QED
      BY <3>1 DEF ControlOf, PublishCalls
  <2> QED
    BY <1>1, <2>1 DEF IInv, CatalogueInv, CatalogueFollowsVersions
<1> QED
  BY <1>1, Invariance, PTL

\* A decision that decideWorkflowInstance, completeActivity or updateModaiInspection
\* has answered stays in its row, unless two were deciding at the same time.
THEOREM DecisionStands == Spec => []DecisionStandsUnlessDisputed
<1>1. IInv => DecisionStandsUnlessDisputed
  BY DEF IInv, DecisionInv, DecisionStandsUnlessDisputed
<1> QED
  BY <1>1, Invariance, PTL
=============================================================================
