------------------------------ MODULE AuditLog ------------------------------
(* The audit log of all organisations: rows are attributed to an organisation *)
(* when they are written, or later by the ownership backfill, and read page   *)
(* by page. The dry-run scan is the same loop without its write.              *)
(*   apps/api/src/audit/                                                      *)
EXTENDS Integers, FiniteSetsExt, SequencesExt, AuditOwnership, Listing

CONSTANTS
  Targets,    \* rows that audit rows are about
  Orgs,
  NoLookup,   \* targets whose type has no relation to an organisation
  MaxLog,     \* bound: rows of AuditLog; an id is its place in the id order
  MaxTime,    \* bound: values of createdAt
  Writers, Sweeps, Readers,
  BatchSize,  \* AUDIT_OWNERSHIP_BACKFILL_BATCH_SIZE
  MaxRows,    \* AUDIT_OWNERSHIP_BACKFILL_MAX_ROWS
  PageLimit,  \* limit of a page
  NoTarget

ASSUME AuditConstants ==
  /\ NoLookup \subseteq Targets /\ NoOrg \notin Orgs /\ NoTarget \notin Targets
  /\ MaxLog \in Nat /\ MaxTime \in Nat \ {0}
  /\ BatchSize \in Nat \ {0} /\ MaxRows \in Nat \ {0} /\ PageLimit \in Nat \ {0}

VARIABLES
  owner,   \* the organisation a target belongs to; it never changes
  alive,   \* targets whose row exists
  log,     \* AuditLog
  writer,  \* calls of logAction
  sweep,   \* runs of the backfill or the scan
  reader   \* clients paging through recentForOrg

auditVars == <<owner, alive, log, writer, sweep, reader>>

Ids == 1..MaxLog
NoRow == [target |-> NoTarget, org |-> NoOrg, at |-> 0, removal |-> FALSE,
          live |-> FALSE]
Rows == {i \in Ids : log[i] # NoRow}

NullScoped(after) == {i \in Rows : log[i].org = NoOrg /\ i > after}

NoWrite == [pc |-> "idle", target |-> NoTarget, org |-> NoOrg]
NoSweep == [pc |-> "idle", kind |-> "scan", after |-> 0, batch |-> <<>>,
            limit |-> 0, examined |-> 0, backfilled |-> 0, found |-> NoOrg,
            incomplete |-> FALSE, due |-> {}, seen |-> {}, wrote |-> {}]
NoRead == [pc |-> "idle", org |-> NoOrg, at |-> MaxTime, id |-> MaxLog + 1,
           got |-> <<>>, due |-> {}]

LogRows == [target : Targets, org : Orgs \cup {NoOrg}, at : 1..MaxTime,
            removal : BOOLEAN, live : BOOLEAN]
Writes == [pc : {"idle", "create", "remove"}, target : Targets \cup {NoTarget},
           org : Orgs \cup {NoOrg}]
SweepRuns == [pc : {"idle", "list", "row", "write", "last", "ended"},
              kind : {"scan", "backfill"}, after : Ids \cup {0}, batch : Seq(Ids),
              limit : Nat, examined : 0..MaxRows, backfilled : Nat,
              found : Orgs \cup {NoOrg}, incomplete : BOOLEAN,
              due : SUBSET Ids, seen : SUBSET Ids, wrote : SUBSET Ids]
Reads == [pc : {"idle", "next", "ended"}, org : Orgs \cup {NoOrg}, at : 0..MaxTime,
          id : 0..MaxLog + 1, got : Seq(Ids), due : SUBSET Ids]

AuditTypeOK ==
  /\ owner \in [Targets -> Orgs] /\ alive \subseteq Targets
  /\ log \in [Ids -> LogRows \cup {NoRow}]
  /\ writer \in [Writers -> Writes]
  /\ sweep \in [Sweeps -> SweepRuns]
  /\ reader \in [Readers -> Reads]

\* Rows written before organisations were recorded have none.
AuditInit ==
  /\ owner \in [Targets -> Orgs]
  /\ alive = Targets
  /\ log \in [Ids -> {NoRow} \cup [target : Targets, org : {NoOrg},
                 at : {1}, removal : {FALSE}, live : {FALSE}]]
  /\ writer = [w \in Writers |-> NoWrite]
  /\ sweep = [s \in Sweeps |-> NoSweep]
  /\ reader = [r \in Readers |-> NoRead]

-----------------------------------------------------------------------------
\* RELATION_LOOKUP_BY_TARGET_TYPE: one look-up by primary key.
relationOf(t) == IF t \in alive \ NoLookup THEN {owner[t]} ELSE {}

\* What resolve may return to a caller of the target's own organisation: the
\* owner, or nothing after a failed look-up or when the caller has left.
resolve(t) == {NoOrg} \cup relationOf(t)

\* logAction, in two steps: resolve, then insert.
resolveOrgId(w) ==
  /\ writer[w].pc = "idle"
  /\ \E t \in Targets : \E o \in resolve(t) :
       writer' = [writer EXCEPT ![w] = [pc |-> "create", target |-> t, org |-> o]]
  /\ UNCHANGED <<owner, alive, log, sweep, reader>>

Insert(t, o, removal) ==
  \E i \in Ids \ Rows, now \in 1..MaxTime :
    log' = [log EXCEPT ![i] = [target |-> t, org |-> o, at |-> now,
                               removal |-> removal, live |-> o # NoOrg]]

logAction(w) ==
  /\ writer[w].pc = "create"
  /\ Insert(writer[w].target, writer[w].org, FALSE)
  /\ writer' = [writer EXCEPT ![w] = NoWrite]
  /\ UNCHANGED <<owner, alive, sweep, reader>>

\* Removal of a domain or a member: the row is looked up, then audited and
\* deleted in one transaction.
findInOrg(w) ==
  /\ writer[w].pc = "idle"
  /\ \E t \in alive \ NoLookup : \E o \in resolve(t) :
       writer' = [writer EXCEPT ![w] = [pc |-> "remove", target |-> t, org |-> o]]
  /\ UNCHANGED <<owner, alive, log, sweep, reader>>

remove(w) ==
  /\ writer[w].pc = "remove"
  /\ IF writer[w].target \in alive
     THEN /\ Insert(writer[w].target, writer[w].org, TRUE)
          /\ alive' = alive \ {writer[w].target}
     ELSE UNCHANGED <<log, alive>>
  /\ writer' = [writer EXCEPT ![w] = NoWrite]
  /\ UNCHANGED <<owner, sweep, reader>>

-----------------------------------------------------------------------------
\* Only the summary is left of a run that ended.
Summary(q) == [q EXCEPT !.after = 0, !.limit = 0, !.examined = 0]
Turn(s, next) ==
  /\ sweep' = [sweep EXCEPT ![s] = IF next.pc = "ended" THEN Summary(next) ELSE next]
  /\ UNCHANGED <<owner, alive, writer, reader>>

run(s) ==
  /\ sweep[s].pc = "idle"
  /\ \E kind \in {"scan", "backfill"} :
       Turn(s, [NoSweep EXCEPT !.pc = "list", !.kind = kind,
                               !.due = NullScoped(0)])
  /\ UNCHANGED log

listNullScoped(s) ==
  /\ sweep[s].pc = "list"
  /\ LET limit == Min({BatchSize, MaxRows - sweep[s].examined})
         rest == NullScoped(sweep[s].after)
     IN \E batch \in Listed(rest, ById(rest), limit) :
          Turn(s, [sweep[s] EXCEPT !.pc = IF batch = <<>> THEN "ended" ELSE "row",
                                   !.batch = batch, !.limit = limit])
  /\ UNCHANGED log

\* Plausible bug: the batch that empties the list is taken for the last one
\* whatever its length.
AfterRow_bug(q) ==
  LET done == [q EXCEPT !.after = Head(q.batch), !.examined = @ + 1,
                        !.seen = @ \cup {Head(q.batch)}, !.batch = Tail(@),
                        !.limit = @ - 1, !.found = NoOrg]
  IN [done EXCEPT !.pc = IF done.batch # <<>> THEN "row" ELSE "ended"]

\* A row is done: on to the next of the batch, the next batch or the end.
AfterRow(q) ==
  LET done == [q EXCEPT !.after = Head(q.batch), !.examined = @ + 1,
                        !.seen = @ \cup {Head(q.batch)}, !.batch = Tail(@),
                        !.limit = @ - 1, !.found = NoOrg]
  IN [done EXCEPT !.pc =
        IF done.batch # <<>> THEN "row"
        ELSE IF done.limit > 0 THEN "ended"
        ELSE IF done.examined < MaxRows THEN "list" ELSE "last"]

\* Resolve and classify; a failed look-up is counted and passed over.
resolveCandidates(s) ==
  /\ sweep[s].pc = "row"
  /\ LET t == log[Head(sweep[s].batch)].target
         class == classifyAuditOwnership(t \notin NoLookup, NoOrg, relationOf(t))
     IN \/ Turn(s, AfterRow(sweep[s]))
        \/ /\ class = "authoritatively_attributable"
           /\ sweep[s].kind = "backfill"
           /\ \E o \in relationOf(t) :
                Turn(s, [sweep[s] EXCEPT !.pc = "write", !.found = o])
  /\ UNCHANGED log

\* A row more is attributed.
Attributed(q) == [q EXCEPT !.backfilled = @ + 1, !.wrote = @ \cup {Head(q.batch)}]

\* Plausible bug: the update is not guarded by orgId: null.
guardedWrite_bug(s) ==
  /\ sweep[s].pc = "write"
  /\ log' = [log EXCEPT ![Head(sweep[s].batch)].org = sweep[s].found]
  /\ Turn(s, AfterRow(Attributed(sweep[s])))

guardedWrite(s) ==
  /\ sweep[s].pc = "write"
  /\ LET i == Head(sweep[s].batch)
     IN IF log[i].org = NoOrg
        THEN /\ log' = [log EXCEPT ![i].org = sweep[s].found]
             /\ Turn(s, AfterRow(Attributed(sweep[s])))
        ELSE /\ Turn(s, AfterRow(sweep[s]))
             /\ UNCHANGED log

\* One more read tells whether the capped run was complete.
lastRead(s) ==
  /\ sweep[s].pc = "last"
  /\ Turn(s, [sweep[s] EXCEPT !.pc = "ended",
                !.incomplete = NullScoped(sweep[s].after) # {}])
  /\ UNCHANGED log

-----------------------------------------------------------------------------
\* Plausible bug: the cursor compares createdAt alone.
Older_bug(a, at, id) == log[a].at < at

\* Row a comes after the cursor in createdAt desc, id desc.
Older(a, at, id) == log[a].at < at \/ (log[a].at = at /\ a < id)

\* orderBy: [{createdAt: "desc"}, {id: "desc"}]
NewestFirst(rows) ==
  {x \in rows \X rows : \/ log[x[1]].at > log[x[2]].at
                        \/ log[x[1]].at = log[x[2]].at /\ x[1] > x[2]}

recentForOrg(r) ==
  /\ reader[r].pc # "ended"
  /\ \E o \in Orgs :
       /\ reader[r].pc = "idle" \/ o = reader[r].org
       /\ LET rows == {i \in Rows : log[i].org = o}
              rest == {i \in rows : reader[r].pc = "idle"
                                    \/ Older(i, reader[r].at, reader[r].id)}
          IN \E found \in Listed(rest, NewestFirst(rest), PageLimit + 1) :
               reader' = [reader EXCEPT ![r] =
                 IF Len(found) > PageLimit
                 THEN [pc |-> "next", org |-> o,
                       at |-> log[found[PageLimit]].at, id |-> found[PageLimit],
                       got |-> reader[r].got \o SubSeq(found, 1, PageLimit),
                       due |-> IF reader[r].pc = "idle" THEN rows ELSE reader[r].due]
                 ELSE [pc |-> "ended", org |-> o, at |-> 0, id |-> 0,
                       got |-> reader[r].got \o found,
                       due |-> IF reader[r].pc = "idle" THEN rows ELSE reader[r].due]]
  /\ UNCHANGED <<owner, alive, log, writer, sweep>>

AuditNext ==
  \/ \E w \in Writers : resolveOrgId(w) \/ logAction(w) \/ findInOrg(w) \/ remove(w)
  \/ \E s \in Sweeps : run(s) \/ listNullScoped(s) \/ resolveCandidates(s)
                       \/ guardedWrite(s) \/ lastRead(s)
  \/ \E r \in Readers : recentForOrg(r)

AuditSpec == AuditInit /\ [][AuditNext]_auditVars

-----------------------------------------------------------------------------
\* A run that does not call itself incomplete has passed every row without an
\* organisation that was there when it started, unless another run or nobody
\* needs to look at it any more (audit-ownership-backfill.ts:127).
CompleteMeansExamined ==
  \A s \in Sweeps : sweep[s].pc = "ended" /\ ~sweep[s].incomplete =>
    \A i \in sweep[s].due : i \in sweep[s].seen \/ log[i].org # NoOrg

\* However many backfills overlap, their counts add up to the rows that got
\* their organisation after they were written
\* (audit-ownership-backfill.service.ts:80).
BackfilledOnce ==
  /\ \A s \in Sweeps : sweep[s].backfilled = Cardinality(sweep[s].wrote)
  /\ \A s, q \in Sweeps : s # q => sweep[s].wrote \cap sweep[q].wrote = {}
  /\ UNION {sweep[s].wrote : s \in Sweeps} = {i \in Rows : log[i].org # NoOrg /\ ~log[i].live}

\* Every removal that happened is in the log once, and none that did not
\* (domains.service.ts:101, memberships.service.ts:143).
RemovalLoggedOnce ==
  \A t \in Targets :
    Cardinality({i \in Rows : log[i].removal /\ log[i].target = t})
      = IF t \in alive THEN 0 ELSE 1

\* Paging through a growing log shows no row twice and every row that was the
\* organisation's when the first page was read (audit.service.ts:113).
PagesWhole ==
  \A r \in Readers : reader[r].pc = "ended" =>
    /\ IsInjective(reader[r].got)
    /\ reader[r].due \subseteq ToSet(reader[r].got)
=============================================================================
