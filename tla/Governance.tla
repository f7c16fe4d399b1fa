----------------------------- MODULE Governance -----------------------------
(***************************************************************************)
(* Content that is published in versions, and records that are decided     *)
(* once, as GovernanceService, ServicesService, HomeService and            *)
(* SidUneaService write them: the versions of one governance matrix, of    *)
(* one legal policy, or of the publication of one catalogue service; one   *)
(* workflow instance, one activity, or one MODAI inspection.               *)
(*                                                                         *)
(* A behaviour is about one record, of the kind that work names.  A        *)
(* handler is one HTTP request; every repository call that others can      *)
(* observe is an action; save() writes the row as the handler holds it,    *)
(* and no transaction surrounds the calls.                                 *)
(***************************************************************************)
EXTENDS Naturals, Sequences, FiniteSetsExt

CONSTANTS
  Handlers,     \* requests that may be served at the same time
  Works,        \* kinds of record that a behaviour may be about
  MaxVersions,  \* ids a version table can give out; policies take their labels from these too
  MayFail       \* whether handlers may die between two awaits

Versioned == {"matrix", "policy", "service"}
Decidable == {"instance", "activity", "inspection"}

ASSUME GovernanceAssumption ==
  /\ Works \subseteq Versioned \cup Decidable /\ Works # {}
  /\ MaxVersions \in Nat /\ MayFail \in BOOLEAN

VARIABLES
  work,        \* the kind of the record; never changes
  header,      \* agd_service_publication row; a matrix or policy is there from the start
  versions,    \* version rows in the order of their ids
  decision,    \* status of the instance, activity or inspection
  pc, ctx,     \* the handlers: next repository call, local variables
  overlapped,  \* history: two publications were in progress at the same time
  torn,        \* history: a publication died half way, and none was completed since
  told,        \* history: decisions that somebody got as the answer
  disputed     \* history: a decision was saved while another was being taken

rows    == <<header, versions, decision>>
history == <<overlapped, torn, told, disputed>>
vars    == <<work, rows, pc, ctx, history>>

Numbers    == 1..MaxVersions
Statuses   == {"draft", "published", "archived"}
VersionRow == [number : Numbers, status : Statuses]
\* What a decider may ask for: complete() may carry no decision, and the result of an
\* inspection may be set to pending.
DecisionsOn(kind) ==
  CASE kind = "instance"   -> {"approved", "rejected"}
    [] kind = "activity"   -> {"approve", "reject", "done"}
    [] kind = "inspection" -> {"pending", "approved", "rejected"}
Decisions == UNION {DecisionsOn(kind) : kind \in Decidable}

Calls == {"idle", "saveHeader", "findLast", "insertVersion", "findPublished",
          "saveArchived", "savePublished", "updateHeader", "saveDecision"}
Context == [op       : {"none", "list", "create", "publish", "decide"},
            number   : 0..(MaxVersions + 1),   \* of the version to insert
            version  : 0..MaxVersions,         \* id of the version to publish
            previous : 0..MaxVersions,         \* id of the published one it found, 0: none
            decision : Decisions]
NoContext == [op |-> "none", number |-> 0, version |-> 0, previous |-> 0,
              decision |-> "pending"]

TypeOK ==
  /\ work \in Works
  /\ header \in {"none", "draft", "published"}
  /\ versions \in Seq(VersionRow) /\ Len(versions) <= MaxVersions
  /\ decision \in {"none", "pending"} \cup (IF work \in Decidable THEN DecisionsOn(work) ELSE {})
  /\ pc \in [Handlers -> Calls] /\ ctx \in [Handlers -> Context]
  /\ overlapped \in BOOLEAN /\ torn \in BOOLEAN /\ disputed \in BOOLEAN
  /\ told \subseteq Decisions

Init ==
  /\ work \in Works
  /\ header = IF work = "service" THEN "none" ELSE "draft"
  /\ versions = <<>> /\ decision = "none"
  /\ pc = [h \in Handlers |-> "idle"]
  /\ ctx = [h \in Handlers |-> NoContext]
  /\ overlapped = FALSE /\ torn = FALSE /\ told = {} /\ disputed = FALSE

-----------------------------------------------------------------------------
(***************************************************************************)
(* Handlers and rows                                                       *)
(***************************************************************************)
Goto(h, call) == pc' = [pc EXCEPT ![h] = call]
Keep(h, c)    == ctx' = [ctx EXCEPT ![h] = c]
Leave(h)      == Goto(h, "idle") /\ Keep(h, NoContext)

\* The handler throws: nothing is undone.
Throw(h) == Leave(h) /\ UNCHANGED <<work, rows, history>>

Published  == {v \in DOMAIN versions : versions[v].status = "published"}
Publishers == {h \in Handlers : ctx[h].op = "publish"}
SetStatus(v, status) == versions' = [versions EXCEPT ![v].status = status]

-----------------------------------------------------------------------------
(***************************************************************************)
(* New versions                                                            *)
(***************************************************************************)
\* getOrCreatePublication of a service, or the findOne of the matrix; the GET that lists
\* the versions of a service creates the publication as well.
UsePublication(h, op) ==
  /\ work = "service" \/ (work = "matrix" /\ op = "create")
  /\ pc[h] = "idle"
  /\ IF header = "none"
     THEN Goto(h, "saveHeader") /\ Keep(h, [NoContext EXCEPT !.op = op])
     ELSE IF op = "create" THEN Goto(h, "findLast") /\ Keep(h, [NoContext EXCEPT !.op = op])
     ELSE Leave(h)
  /\ UNCHANGED <<work, rows, history>>

\* The publication of the service in state DRAFT: product_template_id is UNIQUE.
SaveHeader(h) ==
  /\ pc[h] = "saveHeader"
  /\ header = "none"
  /\ header' = "draft"
  /\ IF ctx[h].op = "create" THEN Goto(h, "findLast") /\ UNCHANGED ctx ELSE Leave(h)
  /\ UNCHANGED <<work, versions, decision, history>>

HeaderTaken(h) == pc[h] = "saveHeader" /\ header # "none" /\ Throw(h)

LastNumber == Max({0} \cup {versions[v].number : v \in DOMAIN versions})

\* The version with the greatest number, and the number after it.
FindLast(h) ==
  /\ pc[h] = "findLast"
  /\ Keep(h, [ctx[h] EXCEPT !.number = LastNumber + 1])
  /\ Goto(h, "insertVersion")
  /\ UNCHANGED <<work, rows, history>>

\* A policy's version carries the label that its author gave it.
LabelPolicyVersion(h, label) ==
  /\ work = "policy" /\ pc[h] = "idle"
  /\ Keep(h, [NoContext EXCEPT !.op = "create", !.number = label])
  /\ Goto(h, "insertVersion")
  /\ UNCHANGED <<work, rows, history>>

NumberTaken(n) == \E v \in DOMAIN versions : versions[v].number = n

\* Mutant of InsertVersion: the number is not UNIQUE.
InsertVersionAgain(h) ==
  /\ pc[h] = "insertVersion"
  /\ Len(versions) < MaxVersions
  /\ versions' = Append(versions, [number |-> ctx[h].number, status |-> "draft"])
  /\ Leave(h)
  /\ UNCHANGED <<work, header, decision, history>>

\* The version in state DRAFT: (owner, number), or (policy, label), is UNIQUE.
InsertVersion(h) ==
  /\ pc[h] = "insertVersion"
  /\ Len(versions) < MaxVersions
  /\ ~NumberTaken(ctx[h].number)
  /\ versions' = Append(versions, [number |-> ctx[h].number, status |-> "draft"])
  /\ Leave(h)
  /\ UNCHANGED <<work, header, decision, history>>

VersionTaken(h) == pc[h] = "insertVersion" /\ NumberTaken(ctx[h].number) /\ Throw(h)

-----------------------------------------------------------------------------
(***************************************************************************)
(* publishVersion, publishPolicyVersion                                    *)
(***************************************************************************)
\* The findOne of the version; whatever its status, it will be published.
Publish(h, v) ==
  /\ pc[h] = "idle"
  /\ Goto(h, "findPublished")
  /\ Keep(h, [NoContext EXCEPT !.op = "publish", !.version = v])
  /\ overlapped' = (overlapped \/ Publishers # {})
  /\ UNCHANGED <<work, rows, torn, told, disputed>>

\* Mutant of FindPublished: the version to publish is not its own predecessor, but a
\* predecessor in another state than PUBLISHED is taken for none.
FindPublishedBefore(h) ==
  /\ pc[h] = "findPublished"
  /\ LET before == {v \in Published : v < ctx[h].version}
     IN \/ \E v \in before : /\ Keep(h, [ctx[h] EXCEPT !.previous = v])
                             /\ Goto(h, "saveArchived")
        \/ before = {} /\ Goto(h, "savePublished") /\ UNCHANGED ctx
  /\ UNCHANGED <<work, rows, history>>

\* The findOne, without ORDER BY, of a published version.
FindPublished(h) ==
  /\ pc[h] = "findPublished"
  /\ \/ \E v \in Published : /\ Keep(h, [ctx[h] EXCEPT !.previous = v])
                             /\ Goto(h, "saveArchived")
     \/ Published = {} /\ Goto(h, "savePublished") /\ UNCHANGED ctx
  /\ UNCHANGED <<work, rows, history>>

SaveArchived(h) ==
  /\ pc[h] = "saveArchived"
  /\ SetStatus(ctx[h].previous, "archived")
  /\ Goto(h, "savePublished")
  /\ UNCHANGED <<work, header, decision, ctx, history>>

\* The end of a publication mends what one that died had left, unless others were around.
Mended == torn /\ overlapped

SavePublished(h) ==
  /\ pc[h] = "savePublished"
  /\ SetStatus(ctx[h].version, "published")
  /\ IF work = "service" THEN Goto(h, "updateHeader") /\ UNCHANGED <<ctx, torn>>
     ELSE Leave(h) /\ torn' = Mended
  /\ UNCHANGED <<work, header, decision, overlapped, told, disputed>>

\* Mutant of UpdateHeader: the publication of the service stays as it is.
UpdateHeaderNot(h) ==
  /\ pc[h] = "updateHeader"
  /\ Leave(h) /\ torn' = Mended
  /\ UNCHANGED <<work, rows, overlapped, told, disputed>>

\* update(): only the columns of the publication, whatever they were.
UpdateHeader(h) ==
  /\ pc[h] = "updateHeader"
  /\ header' = "published"
  /\ Leave(h) /\ torn' = Mended
  /\ UNCHANGED <<work, versions, decision, overlapped, told, disputed>>

-----------------------------------------------------------------------------
(***************************************************************************)
(* startWorkflowInstance, createActivity, createModaiInspection, and what  *)
(* decides them                                                            *)
(***************************************************************************)
\* Bound: one record is decided on.
StartDecidable(h) ==
  /\ work \in Decidable /\ pc[h] = "idle" /\ decision = "none"
  /\ decision' = "pending"
  /\ UNCHANGED <<work, header, versions, pc, ctx, history>>

\* The findOne, and the refusal of one that is not PENDING.
Decide(h, d) ==
  /\ pc[h] = "idle" /\ decision = "pending"
  /\ Goto(h, "saveDecision")
  /\ Keep(h, [NoContext EXCEPT !.op = "decide", !.decision = d])
  /\ UNCHANGED <<work, rows, history>>

\* Mutant of DecideWorkflowInstance: a decided instance is decided again.
DecideWorkflowInstanceAgain(h, d) ==
  /\ work = "instance" /\ pc[h] = "idle" /\ decision # "none"
  /\ Goto(h, "saveDecision")
  /\ Keep(h, [NoContext EXCEPT !.op = "decide", !.decision = d])
  /\ UNCHANGED <<work, rows, history>>

DecideWorkflowInstance(h, d) == work = "instance" /\ Decide(h, d)
CompleteActivity(h, d)       == work = "activity" /\ Decide(h, d)
UpdateModaiInspection(h, d)  == work = "inspection" /\ Decide(h, d)

\* Mutant of SaveDecision: the row gets the word of the dto, not the status it stands for.
SaveDecisionVerbatim(h) ==
  /\ pc[h] = "saveDecision"
  /\ decision' = IF ctx[h].decision = "approved" THEN "approve" ELSE ctx[h].decision
  /\ told' = told \cup ({ctx[h].decision} \ {"pending"})
  /\ disputed' = (disputed \/ \E g \in Handlers \ {h} : pc[g] = "saveDecision")
  /\ Leave(h)
  /\ UNCHANGED <<work, header, versions, overlapped, torn>>

\* save(): the row as it was read, with the decision; the answer carries it.
SaveDecision(h) ==
  /\ pc[h] = "saveDecision"
  /\ decision' = ctx[h].decision
  /\ told' = told \cup ({ctx[h].decision} \ {"pending"})
  /\ disputed' = (disputed \/ \E g \in Handlers \ {h} : pc[g] = "saveDecision")
  /\ Leave(h)
  /\ UNCHANGED <<work, header, versions, overlapped, torn>>

-----------------------------------------------------------------------------
\* Bound: an insert into a version table after its last id throws.
IdsUsedUp(h) == pc[h] = "insertVersion" /\ Len(versions) = MaxVersions /\ Throw(h)

\* The process dies, or the database refuses.  A publication dies half way when it has
\* archived a version or published one, and more is to come.
Fail(h) ==
  /\ MayFail /\ pc[h] # "idle"
  /\ Leave(h)
  /\ torn' = (torn \/ pc[h] = "updateHeader"
                   \/ (pc[h] = "savePublished" /\ ctx[h].previous # 0))
  /\ UNCHANGED <<work, rows, overlapped, told, disputed>>

Continue(h) ==
  \/ SaveHeader(h) \/ HeaderTaken(h) \/ FindLast(h) \/ InsertVersion(h) \/ VersionTaken(h)
  \/ IdsUsedUp(h) \/ FindPublished(h) \/ SaveArchived(h) \/ SavePublished(h)
  \/ UpdateHeader(h) \/ SaveDecision(h)

AtVersions(h) ==
  \/ \E op \in {"list", "create"} : UsePublication(h, op)
  \/ \E v \in DOMAIN versions : Publish(h, v)

AtPolicies(h) == \E label \in Numbers : LabelPolicyVersion(h, label)

AtDecisions(h) ==
  \/ StartDecidable(h)
  \/ \E d \in DecisionsOn("instance") : DecideWorkflowInstance(h, d)
  \/ \E d \in DecisionsOn("activity") : CompleteActivity(h, d)
  \/ \E d \in DecisionsOn("inspection") : UpdateModaiInspection(h, d)

Next == \E h \in Handlers : AtVersions(h) \/ AtPolicies(h) \/ AtDecisions(h) \/ Continue(h) \/ Fail(h)

Spec == Init /\ [][Next]_vars

-----------------------------------------------------------------------------
(***************************************************************************)
(* Properties                                                              *)
(***************************************************************************)
\* src/README.md, Fase 2: one version is published at a time and the one before it is
\* archived, whoever dies half way; only publications that overlap can leave two.
OnePublishedUnlessOverlapped == overlapped \/ \A v, w \in Published : v = w

Released == \E v \in DOMAIN versions : versions[v].status # "draft"

\* src/README.md, Fase 3: a service is in the public catalogue only once a version of it
\* was published.  And what was published once stays so: when nobody is publishing there
\* is a published version, and a service is in the catalogue, unless the last publication
\* died half way; the next one that is completed mends that.
CatalogueFollowsVersions ==
  /\ header = "published" => Released
  /\ Released /\ Publishers = {} /\ ~torn =>
       Published # {} /\ (work = "service" => header = "published")

\* No two versions of an owner have the same number or label; those of a matrix or of a
\* service are numbered from 1 without gaps, in the order in which they were inserted,
\* although every author computes the next number from what it read.
VersionsNumbered ==
  /\ \A v, w \in DOMAIN versions : versions[v].number = versions[w].number => v = w
  /\ work # "policy" => \A v \in DOMAIN versions : versions[v].number = v

\* Whoever was told a decision finds it in the row for good, unless two that had both read
\* the row as pending were deciding at the same time.
DecisionStandsUnlessDisputed ==
  \A d \in told : decision = d \/ disputed
=============================================================================
