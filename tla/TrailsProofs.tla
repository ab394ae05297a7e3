---------------------------- MODULE TrailsProofs ----------------------------
(* Proofs about LegacyOrder and AuditLog: what happened is in the log once,   *)
(* a deployed order is served, and a report that calls itself complete is.    *)
EXTENDS MCAuditLog, FiniteSetTheorems, SequenceTheorems, TLAPS

-----------------------------------------------------------------------------
(* Sequences and what a sorted, limited query answers.                        *)

\* The first and the rest of a sequence that is not empty.
LEMMA FirstAndRest ==
  ASSUME NEW S, NEW s \in Seq(S), s # <<>>
  PROVE  /\ Len(s) \in Nat \ {0} /\ DOMAIN s = 1..Len(s)
         /\ Head(s) = s[1] /\ Head(s) \in S
         /\ Tail(s) \in Seq(S) /\ Len(Tail(s)) = Len(s) - 1
         /\ DOMAIN Tail(s) = 1..(Len(s) - 1)
         /\ \A i \in 1..(Len(s) - 1) : Tail(s)[i] = s[i + 1]
         /\ (Tail(s) = <<>>) = (Len(s) = 1)
<1>1. Len(s) \in Nat \ {0} /\ DOMAIN s = 1..Len(s)
  BY EmptySeq, LenProperties
<1>2. /\ Head(s) \in S /\ Tail(s) \in Seq(S) /\ Len(Tail(s)) = Len(s) - 1
      /\ \A i \in 1..Len(Tail(s)) : Tail(s)[i] = s[i + 1]
  BY HeadTailProperties
<1>3. DOMAIN Tail(s) = 1..(Len(s) - 1)
  BY <1>2, LenProperties
<1>4. (Tail(s) = <<>>) = (Len(s) = 1)
  BY <1>1, <1>2, EmptySeq
<1> QED
  BY <1>1, <1>2, <1>3, <1>4

\* An answer is a sequence of rows, in order, and what it lacks comes after it.
LEMMA ListedFacts ==
  ASSUME NEW rows, NEW before, NEW n \in Nat, NEW f \in Listed(rows, before, n)
  PROVE  /\ f \in Seq(rows) /\ Len(f) \in 0..n /\ DOMAIN f = 1..Len(f)
         /\ (f = <<>>) = (Len(f) = 0)
         /\ \A i \in DOMAIN f : f[i] \in rows
         /\ \A i, j \in DOMAIN f : i < j => <<f[i], f[j]>> \in before
         /\ \A x \in rows :
              \/ \E i \in DOMAIN f : f[i] = x
              \/ Len(f) = n /\ \A i \in DOMAIN f : <<f[i], x>> \in before
<1>1. PICK m \in 0..n : f \in [1..m -> rows]
  BY DEF Listed
<1>2. f \in Seq(rows)
  BY <1>1, SeqDef
<1>3. Len(f) = m /\ DOMAIN f = 1..m
  BY <1>1, <1>2, LenProperties
<1>4. (f = <<>>) = (Len(f) = 0)
  BY <1>2, EmptySeq
<1> QED
  BY <1>1, <1>2, <1>3, <1>4 DEF Listed

\* The same by id: the answer ascends, and what a full answer lacks is greater.
LEMMA ListedById ==
  ASSUME NEW rows, NEW n \in Nat, NEW f \in Listed(rows, ById(rows), n)
  PROVE  /\ f \in Seq(rows) /\ Len(f) \in 0..n /\ DOMAIN f = 1..Len(f)
         /\ (f = <<>>) = (Len(f) = 0)
         /\ \A i \in DOMAIN f : f[i] \in rows
         /\ \A i, j \in DOMAIN f : i < j => f[i] < f[j]
         /\ \A x \in rows :
              \/ \E i \in DOMAIN f : f[i] = x
              \/ Len(f) = n /\ \A i \in DOMAIN f : f[i] < x
<1> DEFINE before == ById(rows)
<1>1. \A a, b : <<a, b>> \in before => a < b
  BY DEF ById
<1>5. f \in Listed(rows, before, n)
  OBVIOUS
<1> HIDE DEF before
<1>2. \A i, j \in DOMAIN f : i < j => <<f[i], f[j]>> \in before
  BY <1>5 DEF Listed
<1>3. \A x \in rows : \/ \E i \in DOMAIN f : f[i] = x
                      \/ Len(f) = n /\ \A i \in DOMAIN f : <<f[i], x>> \in before
  BY <1>5 DEF Listed
<1>4. /\ f \in Seq(rows) /\ Len(f) \in 0..n /\ DOMAIN f = 1..Len(f)
      /\ (f = <<>>) = (Len(f) = 0)
      /\ \A i \in DOMAIN f : f[i] \in rows
  BY <1>5, ListedFacts
<1> QED
  BY <1>1, <1>2, <1>3, <1>4

\* When the first of an ascending batch is passed, the rest ascends after it,
\* and what was in the batch or beyond it is the first, in the rest or beyond.
LEMMA FirstPassed ==
  ASSUME NEW S \in SUBSET Nat, NEW b \in Seq(S), b # <<>>,
         \A i, j \in DOMAIN b : i < j => b[i] < b[j]
  PROVE  /\ \A i \in DOMAIN Tail(b) : Head(b) < Tail(b)[i]
         /\ \A i, j \in DOMAIN Tail(b) : i < j => Tail(b)[i] < Tail(b)[j]
         /\ \A x : (\E i \in DOMAIN b : b[i] = x) =>
              x = Head(b) \/ \E i \in DOMAIN Tail(b) : Tail(b)[i] = x
         /\ \A x \in Nat : (\A i \in DOMAIN b : x > b[i]) =>
              x > Head(b) /\ \A i \in DOMAIN Tail(b) : x > Tail(b)[i]
<1> DEFINE n == Len(b)
           r == Tail(b)
<1>1. n \in Nat \ {0} /\ DOMAIN b = 1..n
  BY FirstAndRest
<1>2. DOMAIN r = 1..(n - 1) /\ \A i \in 1..(n - 1) : r[i] = b[i + 1]
  BY FirstAndRest
<1>9. Head(b) = b[1]
  BY FirstAndRest
<1> HIDE DEF n, r
<1>10. \A i \in DOMAIN b : b[i] \in Nat
  BY <1>1, LenProperties
<1>3. \A i \in DOMAIN r : i \in 1..(n - 1) /\ i + 1 \in DOMAIN b /\ i + 1 > 1 /\ r[i] = b[i + 1]
  BY <1>1, <1>2
<1>4. \A i \in DOMAIN b : i = 1 \/ (i - 1 \in DOMAIN r /\ r[i - 1] = b[i])
  <2> SUFFICES ASSUME NEW i \in DOMAIN b, i # 1 PROVE i - 1 \in DOMAIN r /\ r[i - 1] = b[i]
    OBVIOUS
  <2>1. i - 1 \in 1..(n - 1) /\ (i - 1) + 1 = i
    BY <1>1
  <2> QED
    BY <1>2, <2>1
<1>5. \A i \in DOMAIN r : Head(b) < r[i]
  BY <1>1, <1>3, <1>9
<1>6. \A i, j \in DOMAIN r : i < j => r[i] < r[j]
  BY <1>1, <1>3
<1>7. \A x : (\E i \in DOMAIN b : b[i] = x) => x = Head(b) \/ \E i \in DOMAIN r : r[i] = x
  BY <1>9, <1>4
<1>8. ASSUME NEW x \in Nat, \A i \in DOMAIN b : x > b[i]
      PROVE  x > Head(b) /\ \A i \in DOMAIN r : x > r[i]
  BY <1>1, <1>3, <1>8, <1>9
<1> QED
  BY <1>5, <1>6, <1>7, <1>8 DEF r

\* Math.min
LEMMA MinOfTwo ==
  ASSUME NEW a \in Nat, NEW b \in Nat
  PROVE  Min({a, b}) \in {a, b} /\ Min({a, b}) <= a /\ Min({a, b}) <= b
<1>1. \E x \in {a, b} : \A y \in {a, b} : x <= y
  OBVIOUS
<1> QED
  BY <1>1 DEF Min

-----------------------------------------------------------------------------
(* LegacyOrder: the inductive invariant, in parts.                            *)

\* What rows, requests and ResellPortal know of each other.
RowLinked(o) ==
  /\ legacy[o].client = NoCustomer <=> legacy[o].status = "none"
  /\ placing[o] # "idle" => legacy[o].status = "provisioning" /\ legacy[o].remote = NoRemote
  /\ legacy[o].status = "none" \/ placing[o] = "call" => remotes[o] = "none"
  /\ legacy[o].status # "none" => body[o] \in Customers
  /\ placing[o] = "store" => keyed[body[o]] # NoRemote
  /\ legacy[o].remote # NoRemote =>
       /\ legacy[o].status \in {"provisioning", "deployed"}
       /\ remotes[legacy[o].remote] # "none"
  /\ legacy[o].status = "deployed" =>
       /\ legacy[o].remote # NoRemote
       /\ remotes[legacy[o].remote] = "deployed"
       /\ body[legacy[o].remote] = legacy[o].client

KeyLinked(c) == keyed[c] # NoRemote => remotes[keyed[c]] # "none"

\* A poller's list is old, but a remote id is never replaced.
PollKnows(p) ==
  /\ \A o \in Placed :
       poll[p].was[o] # NoRemote => legacy[o].remote = poll[p].was[o]
  /\ poll[p].pc \in {"write", "audit"} =>
       /\ poll[p].was[Current(p)] # NoRemote
       /\ remotes[poll[p].was[Current(p)]] = "deployed"
       /\ body[poll[p].was[Current(p)]] = legacy[Current(p)].client
  /\ poll[p].pc = "audit" => poll[p].kind = "api" /\ Current(p) \in Deployed \cap apiWrote

\* An order that only guarded writes touched has one row when it is deployed.
LoggedRows ==
  /\ \A x \in deployedLog : x[1] \in Deployed
  /\ \A o \in Deployed \ apiWrote : \E p \in Pollers :
       /\ <<o, p>> \in deployedLog
       /\ \A q \in Pollers : <<o, q>> \in deployedLog => q = p

\* What a scan has still before it: the rest of its batch, and what comes after
\* a batch that was full.
InBatch(o) == \E i \in DOMAIN scan.batch : scan.batch[i] = o
Beyond(o) == scan.limit = Len(scan.batch) /\ \A i \in DOMAIN scan.batch : o > scan.batch[i]
Counted == {o \in scan.gaps : ~Audited(o) /\ o <= scan.after}

ScanKnows ==
  /\ scan.gaps \subseteq Deployed
  /\ scan.pc = "list" => scan.examined < ScanMax
  /\ scan.pc = "row" =>
       /\ scan.batch # <<>> /\ Len(scan.batch) <= scan.limit
       /\ scan.examined + scan.limit <= ScanMax
       /\ \A i \in DOMAIN scan.batch : scan.after < scan.batch[i]
       /\ \A i, j \in DOMAIN scan.batch : i < j => scan.batch[i] < scan.batch[j]
       /\ \A o \in scan.gaps : o <= scan.after \/ InBatch(o) \/ Beyond(o)
  /\ scan.pc = "ended" /\ ~scan.incomplete => \A o \in scan.gaps : o <= scan.after
  /\ Cardinality(Counted) <= scan.missing

LegacyInv ==
  /\ LegacyTypeOK
  /\ \A o \in Placed : RowLinked(o)
  /\ \A c \in Customers : KeyLinked(c)
  /\ \A p \in Pollers : PollKnows(p)
  /\ LoggedRows /\ GapWasCut /\ ScanKnows

-----------------------------------------------------------------------------
(* AuditLog: the inductive invariant, in parts.                               *)

Unscoped == {i \in Rows : log[i].org = NoOrg}
Later == {i \in Rows : log[i].org # NoOrg /\ ~log[i].live}

\* An organisation that was known was there from the start; a removal is logged
\* when its target is gone, and then once.
LogKnows ==
  /\ \A i \in Rows : log[i].live => log[i].org # NoOrg
  /\ \A w \in Writers : writer[w].pc # "idle" => writer[w].target \in Targets
  /\ \A i \in Rows : log[i].removal => log[i].target \notin alive
  /\ \A t \in Targets \ alive : \E i \in Rows :
       /\ log[i].removal /\ log[i].target = t
       /\ \A j \in Rows : log[j].removal /\ log[j].target = t => j = i

\* What a run has still before it, as for the scan of LegacyOrder.
Ahead(q, i) ==
  \/ q.pc \in {"list", "last"} /\ i > q.after
  \/ q.pc \in {"row", "write"} /\ \E j \in DOMAIN q.batch : q.batch[j] = i
  \/ /\ q.pc \in {"row", "write"} /\ q.limit = Len(q.batch)
     /\ \A j \in DOMAIN q.batch : i > q.batch[j]

\* A run, when the log has these rows and these of them have no organisation.
SweepKnows(q, rows, unscoped) ==
  /\ q.pc = "idle" => q = NoSweep
  /\ q.pc = "list" => q.examined < MaxRows
  /\ q.pc \in {"row", "write"} =>
       /\ q.batch # <<>> /\ Len(q.batch) <= q.limit /\ q.examined + q.limit <= MaxRows
       /\ \A j \in DOMAIN q.batch : q.batch[j] \in rows
       /\ \A j, k \in DOMAIN q.batch : j < k => q.batch[j] < q.batch[k]
  /\ q.pc = "write" => q.found \in Orgs
  /\ q.due \subseteq rows /\ q.wrote \subseteq rows
  /\ q.pc # "ended" \/ ~q.incomplete =>
       \A i \in q.due \cap unscoped : i \in q.seen \/ Ahead(q, i)

ReadKnows(q) ==
  /\ q.pc = "idle" => q = NoRead
  /\ IsInjective(q.got)
  /\ \A i \in q.due \cup ToSet(q.got) : i \in Rows /\ log[i].org = q.org
  /\ q.pc # "idle" => q.org \in Orgs
  /\ q.pc = "next" =>
       /\ \A i \in ToSet(q.got) : ~Older(i, q.at, q.id)
       /\ \A i \in q.due : i \in ToSet(q.got) \/ Older(i, q.at, q.id)
  /\ q.pc = "ended" => q.due \subseteq ToSet(q.got)

AuditInv ==
  /\ AuditTypeOK /\ LogKnows /\ BackfilledOnce
  /\ \A s \in Sweeps : SweepKnows(sweep[s], Rows, Unscoped)
  /\ \A r \in Readers : ReadKnows(reader[r])

-----------------------------------------------------------------------------
(* LegacyOrder: types.                                                        *)

\* The poller goes on: to the next of its list, or to its end.
LEMMA NextOrderKeeps ==
  ASSUME LegacyTypeOK, NEW p \in Pollers, poll[p].pc # "idle", NextOrder(p)
  PROVE  /\ poll' \in [Pollers -> Polls]
         /\ \A q \in Pollers : q # p => poll'[q] = poll[q]
         /\ poll'[p].pc \in {"idle", "ask"}
         /\ poll'[p].pc # "idle" => poll'[p].todo # <<>>
         /\ \A o \in Placed : poll'[p].was[o] \in {poll[p].was[o], NoRemote}
<1>1. poll[p] \in Polls /\ poll[p].todo \in Seq(Placed) /\ poll[p].todo # <<>>
  BY DEF LegacyTypeOK, Polls
<1>2. Tail(poll[p].todo) \in Seq(Placed)
  BY <1>1, FirstAndRest
<1>3. CASE Tail(poll[p].todo) = <<>>
  <2>1. poll' = [poll EXCEPT ![p] = NoPoll]
    BY <1>3 DEF NextOrder
  <2>2. NoPoll \in Polls
    BY EmptySeq DEF NoPoll, Polls
  <2>3. poll'[p] = NoPoll /\ \A q \in Pollers : q # p => poll'[q] = poll[q]
    BY <2>1 DEF LegacyTypeOK
  <2>4. poll' \in [Pollers -> Polls]
    BY <2>1, <2>2 DEF LegacyTypeOK
  <2> QED
    BY <2>3, <2>4 DEF NoPoll
<1>4. CASE Tail(poll[p].todo) # <<>>
  <2>1. poll' = [poll EXCEPT ![p] = [poll[p] EXCEPT !.pc = "ask", !.todo = Tail(poll[p].todo)]]
    BY <1>4 DEF NextOrder
  <2>2. [poll[p] EXCEPT !.pc = "ask", !.todo = Tail(poll[p].todo)] \in Polls
    BY <1>1, <1>2 DEF Polls
  <2>3. /\ poll'[p] = [poll[p] EXCEPT !.pc = "ask", !.todo = Tail(poll[p].todo)]
        /\ \A q \in Pollers : q # p => poll'[q] = poll[q]
    BY <2>1 DEF LegacyTypeOK
  <2>4. poll' \in [Pollers -> Polls]
    BY <2>1, <2>2 DEF LegacyTypeOK
  <2>5. poll'[p].pc = "ask" /\ poll'[p].todo = Tail(poll[p].todo) /\ poll'[p].was = poll[p].was
    BY <2>3, <1>1 DEF Polls
  <2> QED
    BY <1>4, <2>3, <2>4, <2>5
<1> QED
  BY <1>3, <1>4

\* A poller at an order has that order.
LEMMA CurrentPlaced ==
  ASSUME LegacyTypeOK, NEW p \in Pollers, poll[p].pc # "idle"
  PROVE  Current(p) \in Placed
<1>1. poll[p].todo \in Seq(Placed) /\ poll[p].todo # <<>>
  BY DEF LegacyTypeOK, Polls
<1> QED
  BY <1>1, FirstAndRest DEF Current

\* Every step of LegacyOrder keeps the types.
LEMMA LegacyTypeStep ==
  LegacyTypeOK /\ (\A o \in Placed : RowLinked(o)) /\ ScanKnows /\ [LegacyNext]_legacyVars
    => LegacyTypeOK'
<1> SUFFICES ASSUME LegacyTypeOK, \A o \in Placed : RowLinked(o), ScanKnows, LegacyNext
             PROVE  LegacyTypeOK'
  BY DEF LegacyTypeOK, legacyVars, orderVars, pollVars
<1>1. ASSUME NEW o \in Placed, placeOrder(o) PROVE LegacyTypeOK'
  <2>1. /\ legacy' \in [Placed -> OrderRows] /\ placing' \in [Placed -> {"idle", "call", "store", "fail"}]
        /\ body' \in [Placed -> Customers \cup {NoCustomer}]
    BY <1>1 DEF placeOrder, OrderRows, LegacyTypeOK
  <2> QED
    BY <1>1, <2>1 DEF placeOrder, LegacyTypeOK, pollVars
<1>2. ASSUME NEW o \in Placed, ordersCall(o) PROVE LegacyTypeOK'
  <2>1. /\ remotes' \in [Placed -> {"none", "pending", "deployed"}]
        /\ keyed' \in [Customers -> Placed \cup {NoRemote}]
        /\ placing' \in [Placed -> {"idle", "call", "store", "fail"}]
    BY <1>2 DEF ordersCall, LegacyTypeOK
  <2> QED
    BY <1>2, <2>1 DEF ordersCall, LegacyTypeOK, pollVars
<1>3. ASSUME NEW o \in Placed, storePlaced(o) PROVE LegacyTypeOK'
  <2>1. keyed[body[o]] \in Placed \cup {NoRemote}
    BY <1>3 DEF storePlaced, RowLinked, LegacyTypeOK
  <2>2. legacy' \in [Placed -> OrderRows] /\ placing' \in [Placed -> {"idle", "call", "store", "fail"}]
    BY <1>3, <2>1 DEF storePlaced, LegacyTypeOK, OrderRows
  <2> QED
    BY <1>3, <2>2 DEF storePlaced, LegacyTypeOK, pollVars
<1>4. ASSUME NEW o \in Placed, placeFailed(o) PROVE LegacyTypeOK'
  <2>1. legacy' \in [Placed -> OrderRows] /\ placing' \in [Placed -> {"idle", "call", "store", "fail"}]
    BY <1>4 DEF placeFailed, LegacyTypeOK, OrderRows
  <2> QED
    BY <1>4, <2>1 DEF placeFailed, LegacyTypeOK, pollVars
<1>5. ASSUME NEW o \in Placed, deploys(o) PROVE LegacyTypeOK'
  <2>1. remotes' \in [Placed -> {"none", "pending", "deployed"}]
    BY <1>5 DEF deploys, LegacyTypeOK
  <2> QED
    BY <1>5, <2>1 DEF deploys, LegacyTypeOK, pollVars
<1>6. ASSUME NEW p \in Pollers, listPending(p) PROVE LegacyTypeOK'
  <2> DEFINE pending == {o \in Placed : legacy[o].status = "provisioning"}
             Was == [o \in Placed |-> IF o \in pending THEN legacy[o].remote ELSE NoRemote]
  <2>1. PICK kind \in {"api", "cron"}, todo \in Listed(pending, ById(pending), MaxPlaced) :
          poll' = [poll EXCEPT ![p] = [pc |-> "ask", kind |-> kind, todo |-> todo, was |-> Was]]
    BY <1>6 DEF listPending
  <2>2. MaxPlaced \in Nat /\ pending # {}
    BY <1>6, LegacyConstants DEF listPending
  <2>11. pending \subseteq Placed
    OBVIOUS
  <2>6. Was \in [Placed -> Placed \cup {NoRemote}]
    BY DEF LegacyTypeOK, OrderRows
  <2> HIDE DEF pending
  <2>3. /\ todo \in Seq(pending) /\ DOMAIN todo = 1..Len(todo)
        /\ (todo = <<>>) = (Len(todo) = 0)
        /\ \A x \in pending : (\E i \in DOMAIN todo : todo[i] = x) \/ Len(todo) = MaxPlaced
    BY <2>2, ListedFacts
  <2>4. todo \in Seq(Placed)
    BY <2>3, <2>11, SeqMonotonic
  <2>5. todo # <<>>
    <3>1. CASE todo = <<>>
      <4>1. PICK x \in pending : TRUE
        BY <2>2
      <4>2. x \in Placed /\ Len(todo) = 0
        BY <2>3, <2>11, <3>1, <4>1
      <4>3. 1 <= MaxPlaced
        BY <4>2, <2>2 DEF Placed
      <4> QED
        BY <2>2, <2>3, <4>1, <4>2, <4>3
    <3> QED
      BY <3>1
  <2> HIDE DEF Was
  <2>7. [pc |-> "ask", kind |-> kind, todo |-> todo, was |-> Was] \in Polls
    BY <2>4, <2>6 DEF Polls
  <2>8. poll' \in [Pollers -> Polls]
    BY <2>1, <2>7 DEF LegacyTypeOK
  <2>9. \A q \in Pollers : poll'[q].pc # "idle" => poll'[q].todo # <<>>
    <3>1. poll'[p].todo = todo
      BY <2>1 DEF LegacyTypeOK
    <3>2. \A q \in Pollers : q # p => poll'[q] = poll[q]
      BY <2>1 DEF LegacyTypeOK
    <3> QED
      BY <3>1, <3>2, <2>5 DEF LegacyTypeOK
  <2> QED
    BY <1>6, <2>8, <2>9 DEF listPending, LegacyTypeOK, orderVars
<1>7. ASSUME NEW p \in Pollers, getServices(p) PROVE LegacyTypeOK'
  <2>1. poll' \in [Pollers -> Polls] /\ \A q \in Pollers : poll'[q].pc # "idle" => poll'[q].todo # <<>>
    <3>1. CASE NextOrder(p)
      BY <1>7, <3>1, NextOrderKeeps DEF getServices, LegacyTypeOK
    <3>2. CASE poll' = [poll EXCEPT ![p].pc = "write"]
      BY <1>7, <3>2 DEF getServices, LegacyTypeOK, Polls
    <3> QED
      BY <1>7, <3>1, <3>2 DEF getServices
  <2> QED
    BY <1>7, <2>1 DEF getServices, LegacyTypeOK, orderVars
<1>8. ASSUME NEW p \in Pollers, apiUpdate(p) PROVE LegacyTypeOK'
  <2>1. Current(p) \in Placed
    BY <1>8, CurrentPlaced DEF apiUpdate
  <2>2. legacy' \in [Placed -> OrderRows] /\ apiWrote' \subseteq Placed
    BY <1>8, <2>1 DEF apiUpdate, LegacyTypeOK, OrderRows
  <2>3. poll' \in [Pollers -> Polls] /\ \A q \in Pollers : poll'[q].pc # "idle" => poll'[q].todo # <<>>
    BY <1>8 DEF apiUpdate, LegacyTypeOK, Polls
  <2> QED
    BY <1>8, <2>2, <2>3 DEF apiUpdate, LegacyTypeOK
<1>9. ASSUME NEW p \in Pollers, apiAudit(p) PROVE LegacyTypeOK'
  <2>1. Current(p) \in Placed
    BY <1>9, CurrentPlaced DEF apiAudit
  <2>2. poll' \in [Pollers -> Polls] /\ \A q \in Pollers : poll'[q].pc # "idle" => poll'[q].todo # <<>>
    BY <1>9, NextOrderKeeps DEF apiAudit, LegacyTypeOK
  <2> QED
    BY <1>9, <2>1, <2>2 DEF apiAudit, LegacyTypeOK, orderVars
<1>10. ASSUME NEW p \in Pollers, cronUpdate(p) PROVE LegacyTypeOK'
  <2>1. Current(p) \in Placed
    BY <1>10, CurrentPlaced DEF cronUpdate
  <2>2. poll' \in [Pollers -> Polls] /\ \A q \in Pollers : poll'[q].pc # "idle" => poll'[q].todo # <<>>
    BY <1>10, NextOrderKeeps DEF cronUpdate, LegacyTypeOK
  <2>3. legacy' \in [Placed -> OrderRows] /\ deployedLog' \subseteq Placed \X Pollers
    BY <1>10, <2>1 DEF cronUpdate, LegacyTypeOK, OrderRows
  <2> QED
    BY <1>10, <2>2, <2>3 DEF cronUpdate, LegacyTypeOK
<1>11. ASSUME apiEnds PROVE LegacyTypeOK'
  <2>1. NoPoll \in Polls /\ NoPoll.pc = "idle"
    BY EmptySeq DEF NoPoll, Polls
  <2>2. poll' \in [Pollers -> Polls] /\ \A q \in Pollers : poll'[q].pc # "idle" => poll'[q].todo # <<>>
    BY <1>11, <2>1 DEF apiEnds, LegacyTypeOK
  <2>3. placing' \in [Placed -> {"idle", "call", "store", "fail"}] /\ cut' \subseteq Placed
    BY <1>11 DEF apiEnds, LegacyTypeOK
  <2> QED
    BY <1>11, <2>2, <2>3 DEF apiEnds, LegacyTypeOK
<1>12. ASSUME startScan PROVE LegacyTypeOK'
  <2>1. Gaps \subseteq Placed /\ <<>> \in Seq(Placed) /\ 0 \in 0..ScanMax
    BY EmptySeq, LegacyConstants DEF Gaps, Deployed
  <2>2. NoScan \in Scans
    BY <2>1 DEF NoScan, Scans
  <2>3. scan' \in Scans
    BY <1>12, <2>1, <2>2 DEF startScan, Scans
  <2> QED
    BY <1>12, <2>3 DEF startScan, LegacyTypeOK, orderVars, pollVars
<1>13. ASSUME listDeployed PROVE LegacyTypeOK'
  <2> DEFINE limit == Min({ScanBatch, ScanMax - scan.examined})
             rest == {o \in Deployed : o > scan.after}
  <2>1. PICK batch \in Listed(rest, ById(rest), limit) :
          scan' = [scan EXCEPT !.pc = IF batch = <<>> THEN "ended" ELSE "row",
                               !.batch = batch, !.limit = limit]
    BY <1>13 DEF listDeployed
  <2>2. limit \in Nat
    <3>1. ScanBatch \in Nat /\ ScanMax - scan.examined \in Nat
      BY LegacyConstants DEF LegacyTypeOK, Scans
    <3> QED
      BY <3>1, MinOfTwo
  <2>3. batch \in Seq(Placed)
    <3>1. batch \in Seq(rest) /\ rest \subseteq Placed
      BY <2>2, ListedFacts DEF Deployed
    <3> QED
      BY <3>1, SeqMonotonic
  <2> HIDE DEF limit, rest
  <2>4. scan' \in Scans
    BY <2>1, <2>2, <2>3 DEF LegacyTypeOK, Scans
  <2> QED
    BY <1>13, <2>4 DEF listDeployed, LegacyTypeOK, orderVars, pollVars
<1>14. ASSUME hasDeploymentAudit PROVE LegacyTypeOK'
  <2> DEFINE o == Head(scan.batch)
             next == [scan EXCEPT !.missing = IF Audited(o) THEN @ ELSE @ + 1, !.after = o,
                        !.batch = Tail(@), !.limit = @ - 1, !.examined = @ + 1]
  <2>1. scan.batch \in Seq(Placed) /\ scan.batch # <<>> /\ scan.limit \in Nat
        /\ Len(scan.batch) <= scan.limit /\ scan.examined + scan.limit <= ScanMax
        /\ scan.examined \in 0..ScanMax /\ scan.missing \in Nat
    BY <1>14 DEF hasDeploymentAudit, ScanKnows, LegacyTypeOK, Scans
  <2>2. o \in Placed /\ Tail(scan.batch) \in Seq(Placed) /\ scan.limit >= 1
    BY <2>1, FirstAndRest
  <2>3. scan.limit - 1 \in Nat /\ scan.examined + 1 \in 0..ScanMax /\ scan.missing + 1 \in Nat
    BY <2>1, <2>2, LegacyConstants
  <2> HIDE DEF o
  <2>4. next \in Scans
    BY <2>1, <2>2, <2>3 DEF LegacyTypeOK, Scans
  <2>5. scan' = AfterScanned(next)
    BY <1>14 DEF hasDeploymentAudit, o
  <2> HIDE DEF next
  <2>6. scan' \in Scans
    BY <2>4, <2>5 DEF AfterScanned, Scans
  <2> QED
    BY <1>14, <2>6 DEF hasDeploymentAudit, LegacyTypeOK, orderVars, pollVars
<1>15. ASSUME lastScan PROVE LegacyTypeOK'
  <2>1. scan' \in Scans
    BY <1>15 DEF lastScan, LegacyTypeOK, Scans
  <2> QED
    BY <1>15, <2>1 DEF lastScan, LegacyTypeOK, orderVars, pollVars
<1> QED
  BY <1>1, <1>2, <1>3, <1>4, <1>5, <1>6, <1>7, <1>8, <1>9, <1>10, <1>11, <1>12, <1>13, <1>14, <1>15
     DEF LegacyNext

-----------------------------------------------------------------------------
(* LegacyOrder: rows, keys and services at ResellPortal.                      *)

\* The columns of a row, one by one.
LEMMA RowFacts ==
  ASSUME LegacyTypeOK
  PROVE  /\ NoRemote \notin Placed /\ NoCustomer \notin Customers
         /\ \A o \in Placed :
              /\ legacy[o] \in OrderRows
              /\ legacy[o].client \in Customers \cup {NoCustomer}
              /\ legacy[o].remote \in Placed \cup {NoRemote}
              /\ legacy[o].status \in {"none", "provisioning", "deployed", "failed"}
BY LegacyConstants DEF LegacyTypeOK, OrderRows, Placed, NoRemote

\* What is known of an order stays known when its row stays, services keep their
\* account and do not go back, and keys stay.
LEMMA RowKept ==
  ASSUME LegacyTypeOK, NEW o \in Placed, RowLinked(o),
         legacy'[o] = legacy[o], placing'[o] \in {placing[o], "idle"}, body'[o] = body[o],
         \A x \in Placed : remotes[x] # "none" => body'[x] = body[x],
         \A x \in Placed : remotes[x] # "none" => remotes'[x] \in {remotes[x], "deployed"},
         remotes[o] = "none" => remotes'[o] = "none",
         \A c \in Customers : keyed[c] # NoRemote => keyed'[c] = keyed[c]
  PROVE  RowLinked(o)'
<1>1. legacy[o].remote # NoRemote => legacy[o].remote \in Placed
  BY RowFacts DEF RowLinked
<1>2. placing[o] = "store" => body[o] \in Customers
  BY RowFacts DEF RowLinked
<1> QED
  BY <1>1, <1>2 DEF RowLinked

\* A key of a client stays linked while its service stays.
LEMMA KeyKept ==
  ASSUME LegacyTypeOK, NEW c \in Customers, KeyLinked(c), keyed'[c] = keyed[c],
         \A x \in Placed : remotes[x] # "none" => remotes'[x] \in {remotes[x], "deployed"}
  PROVE  KeyLinked(c)'
<1>1. keyed[c] # NoRemote => keyed[c] \in Placed
  BY DEF LegacyTypeOK
<1> QED
  BY <1>1, LegacyConstants DEF KeyLinked

\* Every step keeps rows, requests, keys and services linked.
LEMMA RowStep ==
  LegacyInv /\ [LegacyNext]_legacyVars =>
    (\A o \in Placed : RowLinked(o))' /\ (\A c \in Customers : KeyLinked(c))'
<1> SUFFICES ASSUME LegacyInv, [LegacyNext]_legacyVars
             PROVE  (\A o \in Placed : RowLinked(o)') /\ (\A c \in Customers : KeyLinked(c)')
  OBVIOUS
<1> USE DEF LegacyInv
<1>0. /\ legacy \in [Placed -> OrderRows]
      /\ placing \in [Placed -> {"idle", "call", "store", "fail"}]
      /\ remotes \in [Placed -> {"none", "pending", "deployed"}]
      /\ keyed \in [Customers -> Placed \cup {NoRemote}]
      /\ body \in [Placed -> Customers \cup {NoCustomer}]
  BY DEF LegacyTypeOK
<1>1. ASSUME UNCHANGED <<legacy, body, remotes, keyed>>, \A x \in Placed : placing'[x] \in {placing[x], "idle"}
      PROVE  (\A o \in Placed : RowLinked(o)') /\ (\A c \in Customers : KeyLinked(c)')
  BY <1>1, RowKept, KeyKept
<1>2. ASSUME NEW o \in Placed, placeOrder(o)
      PROVE  (\A x \in Placed : RowLinked(x)') /\ (\A c \in Customers : KeyLinked(c)')
  <2>1. PICK c, account \in Customers :
          /\ legacy' = [legacy EXCEPT ![o] =
               [client |-> c, status |-> "provisioning", remote |-> NoRemote]]
          /\ body' = [body EXCEPT ![o] = account]
    BY <1>2 DEF placeOrder
  <2>2. /\ legacy'[o].client = c /\ legacy'[o].status = "provisioning" /\ legacy'[o].remote = NoRemote
        /\ body'[o] \in Customers
    BY <2>1, <1>0
  <2>3. \A x \in Placed : x # o => /\ legacy'[x] = legacy[x] /\ placing'[x] = placing[x]
                                  /\ body'[x] = body[x]
    BY <1>2, <2>1, <1>0 DEF placeOrder
  <2>4. legacy[o].client = NoCustomer /\ placing'[o] = "call" /\ remotes[o] = "none"
    BY <1>2, <1>0 DEF placeOrder, NoLegacy, RowLinked
  <2>5. UNCHANGED <<remotes, keyed>>
    BY <1>2 DEF placeOrder
  <2>6. \A x \in Placed : remotes[x] # "none" => body'[x] = body[x]
    BY <2>3, <2>4
  <2>7. \A x \in Placed : x # o => RowLinked(x)'
    BY <2>3, <2>5, <2>6, RowKept
  <2>8. RowLinked(o)'
    BY <2>2, <2>4, <2>5, LegacyConstants DEF RowLinked
  <2> QED
    BY <2>5, <2>7, <2>8, KeyKept
<1>3. ASSUME NEW o \in Placed, ordersCall(o)
      PROVE  (\A x \in Placed : RowLinked(x)') /\ (\A c \in Customers : KeyLinked(c)')
  <2>1. PICK c \in Customers : c = body[o]
    BY <1>3 DEF ordersCall, RowLinked
  <2>7. legacy[o].status = "provisioning" /\ legacy[o].remote = NoRemote
    BY <1>3 DEF ordersCall, RowLinked
  <2>2. PICK reached, answered \in BOOLEAN :
          /\ answered => reached
          /\ IF reached /\ keyed[c] = NoRemote
             THEN /\ remotes' = [remotes EXCEPT ![o] = "pending"]
                  /\ keyed' = [keyed EXCEPT ![c] = o]
             ELSE UNCHANGED <<remotes, keyed>>
          /\ placing' = [placing EXCEPT ![o] = IF answered THEN "store" ELSE "fail"]
    BY <1>3, <2>1 DEF ordersCall
  <2>3. UNCHANGED <<legacy, body>>
    BY <1>3 DEF ordersCall
  <2>4. \A x \in Placed : x # o => placing'[x] = placing[x]
    BY <2>2, <1>0
  <2>5. CASE reached /\ keyed[c] = NoRemote
    <3>1. /\ remotes'[o] = "pending" /\ keyed'[c] = o /\ remotes[o] = "none"
          /\ \A x \in Placed : x # o => remotes'[x] = remotes[x]
          /\ \A d \in Customers : d # c => keyed'[d] = keyed[d]
      BY <1>3, <2>1, <2>2, <2>5, <1>0 DEF ordersCall, RowLinked
    <3>2. \A x \in Placed : remotes[x] # "none" => remotes'[x] \in {remotes[x], "deployed"}
      BY <3>1
    <3>3. \A d \in Customers : keyed[d] # NoRemote => keyed'[d] = keyed[d]
      BY <2>5, <3>1
    <3>4. \A x \in Placed : x # o => RowLinked(x)'
      BY <2>3, <2>4, <3>1, <3>2, <3>3, RowKept
    <3>5. RowLinked(o)'
      BY <2>1, <2>2, <2>3, <2>7, <3>1, <1>0, RowFacts DEF RowLinked
    <3>6. \A d \in Customers : d # c => KeyLinked(d)'
      BY <2>3, <3>1, <3>2, KeyKept
    <3>7. KeyLinked(c)'
      BY <2>1, <2>3, <3>1 DEF KeyLinked
    <3> QED
      BY <3>4, <3>5, <3>6, <3>7
  <2>6. CASE UNCHANGED <<remotes, keyed>> /\ ~(reached /\ keyed[c] = NoRemote)
    <3>1. \A x \in Placed : x # o => RowLinked(x)'
      BY <2>3, <2>4, <2>6, RowKept
    <3>2. placing'[o] \in {"store", "fail"} /\ (placing'[o] = "store" => keyed[c] # NoRemote)
      BY <2>2, <2>6, <1>0
    <3>3. RowLinked(o)'
      BY <2>1, <2>3, <2>6, <2>7, <3>2, RowFacts DEF RowLinked
    <3> QED
      BY <2>3, <2>6, <3>1, <3>3, KeyKept
  <2> QED
    BY <2>2, <2>5, <2>6
<1>4. ASSUME NEW o \in Placed, storePlaced(o)
      PROVE  (\A x \in Placed : RowLinked(x)') /\ (\A c \in Customers : KeyLinked(c)')
  <2> DEFINE c == body[o]
  <2>1. /\ c \in Customers /\ legacy[o].status = "provisioning" /\ legacy[o].remote = NoRemote
        /\ keyed[c] \in Placed /\ remotes[keyed[c]] # "none"
        /\ legacy[o].client # NoCustomer
    BY <1>4, <1>0, RowFacts DEF storePlaced, RowLinked, KeyLinked
  <2>2. UNCHANGED <<body, remotes, keyed>> /\ \A x \in Placed : x # o => placing'[x] = placing[x]
    BY <1>4, <1>0 DEF storePlaced
  <2>3. CASE UNCHANGED legacy
    <3>1. placing'[o] \in {"idle", "fail"}
      BY <1>4, <1>0 DEF storePlaced
    <3>2. \A x \in Placed : x # o => RowLinked(x)'
      BY <2>2, <2>3, RowKept
    <3>3. RowLinked(o)'
      BY <2>1, <2>2, <2>3, <3>1, RowFacts DEF RowLinked
    <3> QED
      BY <2>2, <2>3, <3>2, <3>3, KeyKept
  <2>4. CASE legacy' = [legacy EXCEPT ![o].remote = keyed[c]] /\ placing' = [placing EXCEPT ![o] = "idle"]
    <3>1. /\ legacy'[o].remote = keyed[c] /\ legacy'[o].status = "provisioning"
          /\ legacy'[o].client = legacy[o].client /\ placing'[o] = "idle"
      BY <2>1, <2>4, <1>0 DEF OrderRows
    <3>2. \A x \in Placed : x # o => legacy'[x] = legacy[x]
      BY <2>4, <1>0
    <3>4. \A x \in Placed : x # o => RowLinked(x)'
      BY <2>2, <3>2, RowKept
    <3>5. RowLinked(o)'
      BY <2>1, <2>2, <3>1, RowFacts DEF RowLinked
    <3> QED
      BY <2>2, <3>4, <3>5, KeyKept
  <2> QED
    BY <1>4, <2>3, <2>4 DEF storePlaced
<1>5. ASSUME NEW o \in Placed, placeFailed(o)
      PROVE  (\A x \in Placed : RowLinked(x)') /\ (\A c \in Customers : KeyLinked(c)')
  <2>1. /\ legacy[o].status = "provisioning" /\ legacy[o].remote = NoRemote
        /\ UNCHANGED <<body, remotes, keyed>>
        /\ \A x \in Placed : x # o => legacy'[x] = legacy[x] /\ placing'[x] = placing[x]
    BY <1>5, <1>0 DEF placeFailed, RowLinked
  <2>2. /\ legacy'[o].client = legacy[o].client /\ legacy'[o].remote = NoRemote
        /\ legacy'[o].status = "failed" /\ placing'[o] = "idle"
    BY <1>5, <2>1, <1>0 DEF placeFailed, OrderRows
  <2>4. \A x \in Placed : x # o => RowLinked(x)'
    BY <2>1, RowKept
  <2>5. RowLinked(o)'
    BY <2>1, <2>2 DEF RowLinked
  <2> QED
    BY <2>1, <2>4, <2>5, KeyKept
<1>6. ASSUME NEW o \in Placed, deploys(o)
      PROVE  (\A x \in Placed : RowLinked(x)') /\ (\A c \in Customers : KeyLinked(c)')
  <2>1. /\ UNCHANGED <<legacy, placing, body, keyed>> /\ remotes[o] = "pending" /\ remotes'[o] = "deployed"
        /\ \A x \in Placed : x # o => remotes'[x] = remotes[x]
    BY <1>6, <1>0 DEF deploys
  <2>2. \A x \in Placed : remotes[x] # "none" => remotes'[x] \in {remotes[x], "deployed"}
    BY <2>1
  <2>3. \A x \in Placed : remotes[x] = "none" => remotes'[x] = "none"
    BY <2>1
  <2> QED
    BY <2>1, <2>2, <2>3, RowKept, KeyKept
\* A poller writes only for an order whose service was deployed when it asked.
<1>7. ASSUME NEW p \in Pollers, poll[p].pc = "write", UNCHANGED <<placing, body, remotes, keyed>>,
             legacy' = [legacy EXCEPT ![Current(p)].status = "deployed"]
      PROVE  (\A x \in Placed : RowLinked(x)') /\ (\A c \in Customers : KeyLinked(c)')
  <2>1. PICK o \in Placed : o = Current(p)
    BY <1>7, CurrentPlaced
  <2>7. /\ legacy[o].remote # NoRemote /\ remotes[legacy[o].remote] = "deployed"
        /\ body[legacy[o].remote] = legacy[o].client
    BY <1>7, <2>1 DEF PollKnows
  <2>2. legacy' = [legacy EXCEPT ![o].status = "deployed"]
    BY <1>7, <2>1
  <2>3. /\ legacy'[o].client = legacy[o].client /\ legacy'[o].remote = legacy[o].remote
        /\ legacy'[o].status = "deployed" /\ \A x \in Placed : x # o => legacy'[x] = legacy[x]
    BY <2>1, <2>2, <1>0 DEF OrderRows
  <2>5. \A x \in Placed : x # o => RowLinked(x)'
    BY <1>7, <2>3, RowKept
  <2>6. RowLinked(o)'
    BY <1>7, <2>7, <2>3, RowFacts DEF RowLinked
  <2> QED
    BY <1>7, <2>5, <2>6, KeyKept
<1>8. ASSUME apiEnds PROVE UNCHANGED <<legacy, body, remotes, keyed>> /\ \A x \in Placed : placing'[x] = "idle"
  BY <1>8 DEF apiEnds
<1>9. ASSUME NEW p \in Pollers, cronUpdate(p), legacy[Current(p)].status # "provisioning"
      PROVE  UNCHANGED <<legacy, body, remotes, keyed, placing>>
  BY <1>9 DEF cronUpdate
<1>10. ASSUME NEW p \in Pollers, listPending(p) \/ getServices(p) \/ apiAudit(p)
       PROVE  UNCHANGED <<legacy, body, remotes, keyed, placing>>
  BY <1>10 DEF listPending, getServices, apiAudit, orderVars
<1>11. ASSUME startScan \/ listDeployed \/ hasDeploymentAudit \/ lastScan \/ UNCHANGED legacyVars
       PROVE  UNCHANGED <<legacy, body, remotes, keyed, placing>>
  BY <1>11 DEF startScan, listDeployed, hasDeploymentAudit, lastScan, legacyVars, orderVars
<1> QED
  <2>1. ASSUME NEW p \in Pollers, apiUpdate(p)
        PROVE  (\A x \in Placed : RowLinked(x)') /\ (\A c \in Customers : KeyLinked(c)')
    BY <1>7, <2>1 DEF apiUpdate
  <2>2. ASSUME NEW p \in Pollers, cronUpdate(p)
        PROVE  (\A x \in Placed : RowLinked(x)') /\ (\A c \in Customers : KeyLinked(c)')
    BY <1>1, <1>7, <1>9, <2>2 DEF cronUpdate
  <2> QED
    BY <1>1, <1>2, <1>3, <1>4, <1>5, <1>6, <1>8, <1>10, <1>11, <2>1, <2>2 DEF LegacyNext

-----------------------------------------------------------------------------
(* LegacyOrder: pollers and the log.                                          *)

\* What is done is not undone: clients, remote ids, accounts of services,
\* deployments, audit rows.
LEMMA DoneStays ==
  ASSUME LegacyInv, LegacyNext
  PROVE  /\ \A x \in Placed : legacy[x].remote # NoRemote => legacy'[x].remote = legacy[x].remote
         /\ \A x \in Placed : remotes[x] = "deployed" => remotes'[x] = "deployed"
         /\ \A x \in Placed : remotes[x] # "none" => body'[x] = body[x]
         /\ \A x \in Placed : legacy[x].client # NoCustomer => legacy'[x].client = legacy[x].client
         /\ Deployed \subseteq Deployed'
         /\ deployedLog \subseteq deployedLog' /\ apiWrote \subseteq apiWrote' /\ cut \subseteq cut'
<1> USE DEF LegacyInv
<1>0. /\ legacy \in [Placed -> OrderRows]
      /\ placing \in [Placed -> {"idle", "call", "store", "fail"}]
      /\ remotes \in [Placed -> {"none", "pending", "deployed"}]
      /\ body \in [Placed -> Customers \cup {NoCustomer}]
  BY DEF LegacyTypeOK
<1>1. \A x \in Placed : legacy[x].remote # NoRemote => legacy'[x].remote = legacy[x].remote
  <2> TAKE x \in Placed
  <2>1. ASSUME NEW o \in Placed, placeOrder(o) \/ storePlaced(o) \/ placeFailed(o)
        PROVE  legacy[x].remote # NoRemote => legacy'[x].remote = legacy[x].remote
    <3>1. legacy[o].remote = NoRemote
      BY <2>1 DEF placeOrder, storePlaced, placeFailed, NoLegacy, RowLinked
    <3>2. x # o => legacy'[x] = legacy[x]
      BY <2>1, <1>0 DEF placeOrder, storePlaced, placeFailed
    <3> QED
      BY <3>1, <3>2
  <2>2. ASSUME NEW p \in Pollers, apiUpdate(p) \/ cronUpdate(p)
        PROVE  legacy'[x].remote = legacy[x].remote
    BY <2>2, <1>0 DEF apiUpdate, cronUpdate, OrderRows
  <2> QED
    BY <2>1, <2>2 DEF LegacyNext, ordersCall, deploys, listPending, getServices, apiAudit, apiEnds,
       startScan, listDeployed, hasDeploymentAudit, lastScan, orderVars
<1>2. \A x \in Placed : remotes[x] = "deployed" => remotes'[x] = "deployed"
  <2>1. ASSUME NEW o \in Placed, ordersCall(o)
        PROVE  \A x \in Placed : remotes[x] = "deployed" => remotes'[x] = "deployed"
    BY <2>1, <1>0 DEF ordersCall, RowLinked
  <2>2. ASSUME NEW o \in Placed, deploys(o)
        PROVE  \A x \in Placed : remotes[x] = "deployed" => remotes'[x] = "deployed"
    BY <2>2, <1>0 DEF deploys
  <2> QED
    BY <2>1, <2>2 DEF LegacyNext, placeOrder, storePlaced, placeFailed, apiUpdate, cronUpdate,
       listPending, getServices, apiAudit, apiEnds, startScan, listDeployed, hasDeploymentAudit,
       lastScan, orderVars
<1>3. \A x \in Placed : legacy[x].status = "deployed" => legacy'[x].status = "deployed"
  <2> TAKE x \in Placed
  <2>1. ASSUME NEW o \in Placed, placeOrder(o) \/ storePlaced(o) \/ placeFailed(o)
        PROVE  legacy[x].status = "deployed" => legacy'[x].status = "deployed"
    <3>1. legacy[o].status # "deployed"
      BY <2>1 DEF placeOrder, storePlaced, placeFailed, NoLegacy, RowLinked
    <3>2. x # o => legacy'[x] = legacy[x]
      BY <2>1, <1>0 DEF placeOrder, storePlaced, placeFailed
    <3> QED
      BY <3>1, <3>2
  <2>2. ASSUME NEW p \in Pollers, apiUpdate(p) \/ cronUpdate(p)
        PROVE  legacy[x].status = "deployed" => legacy'[x].status = "deployed"
    BY <2>2, <1>0 DEF apiUpdate, cronUpdate, OrderRows
  <2> QED
    BY <2>1, <2>2 DEF LegacyNext, ordersCall, deploys, listPending, getServices, apiAudit, apiEnds,
       startScan, listDeployed, hasDeploymentAudit, lastScan, orderVars
<1>4. deployedLog \subseteq deployedLog' /\ apiWrote \subseteq apiWrote' /\ cut \subseteq cut'
  BY DEF LegacyNext, placeOrder, ordersCall, storePlaced, placeFailed, deploys, listPending, getServices,
     apiUpdate, apiAudit, cronUpdate, apiEnds, startScan, listDeployed, hasDeploymentAudit, lastScan, pollVars
<1>5. \A x \in Placed : remotes[x] # "none" => body'[x] = body[x]
  <2>1. ASSUME NEW o \in Placed, placeOrder(o)
        PROVE  \A x \in Placed : remotes[x] # "none" => body'[x] = body[x]
    BY <2>1, <1>0 DEF placeOrder, NoLegacy, RowLinked
  <2> QED
    BY <2>1 DEF LegacyNext, ordersCall, storePlaced, placeFailed, deploys, apiUpdate, cronUpdate,
       listPending, getServices, apiAudit, apiEnds, startScan, listDeployed, hasDeploymentAudit,
       lastScan, orderVars
<1>6. \A x \in Placed : legacy[x].client # NoCustomer => legacy'[x].client = legacy[x].client
  <2> TAKE x \in Placed
  <2>1. ASSUME NEW o \in Placed, placeOrder(o)
        PROVE  legacy[x].client # NoCustomer => legacy'[x].client = legacy[x].client
    <3>1. legacy[o].client = NoCustomer /\ (x # o => legacy'[x] = legacy[x])
      BY <2>1, <1>0 DEF placeOrder, NoLegacy
    <3> QED
      BY <3>1
  <2>2. ASSUME NEW o \in Placed, storePlaced(o) \/ placeFailed(o)
        PROVE  legacy'[x].client = legacy[x].client
    BY <2>2, <1>0 DEF storePlaced, placeFailed, OrderRows
  <2>3. ASSUME NEW p \in Pollers, apiUpdate(p) \/ cronUpdate(p)
        PROVE  legacy'[x].client = legacy[x].client
    BY <2>3, <1>0 DEF apiUpdate, cronUpdate, OrderRows
  <2> QED
    BY <2>1, <2>2, <2>3 DEF LegacyNext, ordersCall, deploys, listPending, getServices, apiAudit,
       apiEnds, startScan, listDeployed, hasDeploymentAudit, lastScan, orderVars
<1> QED
  BY <1>1, <1>2, <1>3, <1>4, <1>5, <1>6 DEF Deployed

\* No step takes from a poller what it knows of its list.
LEMMA PollStep ==
  LegacyInv /\ [LegacyNext]_legacyVars => (\A p \in Pollers : PollKnows(p))'
<1> SUFFICES ASSUME LegacyInv, LegacyNext, NEW p \in Pollers PROVE PollKnows(p)'
  BY DEF LegacyInv, PollKnows, Current, Deployed, legacyVars, orderVars, pollVars
<1> USE DEF LegacyInv
<1>0. PollKnows(p) /\ poll \in [Pollers -> Polls] /\ poll[p] \in Polls
  BY DEF LegacyTypeOK
<1>1. CASE poll'[p] = poll[p]
  <2>1. \A o \in Placed : poll[p].was[o] \in Placed \cup {NoRemote}
    BY <1>0 DEF Polls
  <2>2. poll[p].pc # "idle" => Current(p) \in Placed
    BY CurrentPlaced
  <2>3. Current(p)' = Current(p)
    BY <1>1 DEF Current
  <2>4. ASSUME poll[p].pc \in {"write", "audit"}
        PROVE  /\ poll[p].was[Current(p)] # NoRemote
               /\ remotes'[poll[p].was[Current(p)]] = "deployed"
               /\ body'[poll[p].was[Current(p)]] = legacy'[Current(p)].client
    <3>1. PICK o \in Placed : o = Current(p)
      BY <2>2, <2>4
    <3>2. PICK r \in Placed : /\ r = poll[p].was[o] /\ r # NoRemote /\ remotes[r] = "deployed"
                              /\ body[r] = legacy[o].client /\ legacy[o].remote = r
      BY <1>0, <2>1, <2>4, <3>1 DEF PollKnows
    <3>3. legacy[o].client # NoCustomer
      BY <3>2 DEF RowLinked
    <3>4. remotes'[r] = "deployed" /\ body'[r] = body[r] /\ legacy'[o].client = legacy[o].client
      BY <3>2, <3>3, DoneStays
    <3> QED
      BY <3>1, <3>2, <3>4
  <2>5. \A o \in Placed : poll[p].was[o] # NoRemote => legacy'[o].remote = poll[p].was[o]
    BY <1>0, DoneStays DEF PollKnows
  <2>6. poll[p].pc = "audit" => poll[p].kind = "api" /\ Current(p) \in Deployed' \cap apiWrote'
    BY <1>0, DoneStays DEF PollKnows
  <2> QED
    BY <1>1, <2>3, <2>4, <2>5, <2>6 DEF PollKnows
<1>2. CASE poll[p].pc # "idle" /\ NextOrder(p)
  <2>1. poll'[p].pc \in {"idle", "ask"} /\ \A o \in Placed : poll'[p].was[o] \in {poll[p].was[o], NoRemote}
    BY <1>2, NextOrderKeeps
  <2> QED
    BY <1>0, <2>1, DoneStays DEF PollKnows
<1>3. CASE listPending(p)
  <2> DEFINE pending == {o \in Placed : legacy[o].status = "provisioning"}
             Was == [o \in Placed |-> IF o \in pending THEN legacy[o].remote ELSE NoRemote]
  <2>1. PICK kind \in {"api", "cron"}, todo \in Listed(pending, ById(pending), MaxPlaced) :
          poll' = [poll EXCEPT ![p] = [pc |-> "ask", kind |-> kind, todo |-> todo, was |-> Was]]
    BY <1>3 DEF listPending
  <2>2. UNCHANGED legacy
    BY <1>3 DEF listPending, orderVars
  <2>3. \A o \in Placed : Was[o] # NoRemote => Was[o] = legacy[o].remote
    OBVIOUS
  <2> HIDE DEF Was
  <2>4. poll'[p].pc = "ask" /\ poll'[p].was = Was
    BY <2>1, <1>0
  <2> QED
    BY <2>2, <2>3, <2>4 DEF PollKnows
<1>4. CASE getServices(p) /\ ~NextOrder(p)
  <2>1. /\ poll[p].pc = "ask" /\ poll[p].was[Current(p)] # NoRemote
        /\ remotes[poll[p].was[Current(p)]] = "deployed"
        /\ body[poll[p].was[Current(p)]] = legacy[Current(p)].client
        /\ poll' = [poll EXCEPT ![p].pc = "write"] /\ UNCHANGED orderVars
    BY <1>4 DEF getServices
  <2>2. poll'[p].pc = "write" /\ poll'[p].todo = poll[p].todo /\ poll'[p].was = poll[p].was
    BY <2>1, <1>0 DEF Polls
  <2> QED
    BY <1>0, <2>1, <2>2 DEF PollKnows, Current, orderVars
<1>5. CASE apiUpdate(p)
  <2>1. /\ poll'[p].pc = "audit" /\ poll'[p].todo = poll[p].todo /\ poll'[p].was = poll[p].was
        /\ poll'[p].kind = poll[p].kind /\ poll[p].kind = "api"
    BY <1>5, <1>0 DEF apiUpdate, Polls
  <2>2. PICK o \in Placed : o = Current(p)
    BY <1>5, CurrentPlaced DEF apiUpdate
  <2>3. legacy'[o].status = "deployed" /\ o \in apiWrote'
    BY <1>5, <2>2 DEF apiUpdate, LegacyTypeOK, OrderRows
  <2>4. Current(p)' = o
    BY <2>1, <2>2 DEF Current
  <2>5. /\ poll[p].was[o] # NoRemote /\ remotes'[poll[p].was[o]] = "deployed"
        /\ body'[poll[p].was[o]] = legacy[o].client
    BY <1>0, <1>5, <2>2 DEF PollKnows, apiUpdate
  <2>6. legacy'[o].client = legacy[o].client
    BY <1>5, <2>2 DEF apiUpdate, LegacyTypeOK, OrderRows
  <2> QED
    BY <1>0, <2>1, <2>3, <2>4, <2>5, <2>6, DoneStays DEF PollKnows, Deployed
<1>6. CASE apiEnds
  <2>1. poll'[p] = poll[p] \/ poll'[p] = NoPoll
    BY <1>6 DEF apiEnds
  <2> QED
    BY <1>1, <2>1 DEF NoPoll, PollKnows
<1>7. ASSUME NEW q \in Pollers, q # p, listPending(q) \/ getServices(q) \/ apiUpdate(q)
                                       \/ apiAudit(q) \/ cronUpdate(q)
      PROVE  poll'[p] = poll[p]
  <2>1. ASSUME poll[q].pc # "idle", NextOrder(q) PROVE poll'[p] = poll[p]
    BY <1>7, <2>1, NextOrderKeeps
  <2> QED
    BY <1>0, <1>7, <2>1 DEF listPending, getServices, apiUpdate, apiAudit, cronUpdate
<1>8. ASSUME NEW o \in Placed,
             placeOrder(o) \/ ordersCall(o) \/ storePlaced(o) \/ placeFailed(o) \/ deploys(o)
      PROVE  poll'[p] = poll[p]
  BY <1>8 DEF placeOrder, ordersCall, storePlaced, placeFailed, deploys, pollVars
<1>9. ASSUME startScan \/ listDeployed \/ hasDeploymentAudit \/ lastScan PROVE poll'[p] = poll[p]
  BY <1>9 DEF startScan, listDeployed, hasDeploymentAudit, lastScan, pollVars
<1>10. CASE apiAudit(p) \/ cronUpdate(p)
  BY <1>2, <1>10 DEF apiAudit, cronUpdate
<1> QED
  <2>1. CASE getServices(p)
    BY <1>2, <1>4, <2>1 DEF getServices
  <2> QED
    BY <1>1, <1>3, <1>5, <1>6, <1>7, <1>8, <1>9, <1>10, <2>1 DEF LegacyNext

\* Every step keeps one row of a deployment, or the crash or the failed write
\* that cut it off.
LEMMA LoggedStep ==
  LegacyInv /\ [LegacyNext]_legacyVars => LoggedRows' /\ GapWasCut'
<1> SUFFICES ASSUME LegacyInv, LegacyNext PROVE LoggedRows' /\ GapWasCut'
  BY DEF LegacyInv, LoggedRows, GapWasCut, Gaps, Auditing, Audited, Deployed, legacyVars, orderVars, pollVars
<1> USE DEF LegacyInv
<1>0. /\ legacy \in [Placed -> OrderRows] /\ poll \in [Pollers -> Polls]
      /\ deployedLog \subseteq Placed \X Pollers
  BY DEF LegacyTypeOK
\* A poller that leaves an order it has audited, or failed to audit, leaves the
\* others as they are.
<1>1. ASSUME NEW p \in Pollers, apiAudit(p) PROVE LoggedRows' /\ GapWasCut'
  <2>1. PICK o \in Placed : o = Current(p)
    BY <1>1, CurrentPlaced DEF apiAudit
  <2>2. /\ \/ deployedLog' = deployedLog \cup {<<o, p>>} /\ cut' = cut
           \/ deployedLog' = deployedLog /\ cut' = cut \cup {o}
        /\ o \in Deployed \cap apiWrote
        /\ UNCHANGED <<legacy, apiWrote>> /\ poll[p].pc = "audit"
    BY <1>1, <2>1 DEF apiAudit, orderVars, PollKnows
  <2>3. \A q \in Pollers : q # p => poll'[q] = poll[q]
    BY <1>1, <2>2, NextOrderKeeps DEF apiAudit
  <2>4. Deployed' = Deployed
    BY <2>2 DEF Deployed
  <2>5. LoggedRows'
    <3>1. \A x \in Deployed \ apiWrote, q \in Pollers : <<x, q>> \in deployedLog' <=> <<x, q>> \in deployedLog
      BY <2>2
    <3>2. \A y \in deployedLog' : y[1] \in Deployed
      BY <2>2 DEF LoggedRows
    <3> QED
      BY <2>2, <2>4, <3>1, <3>2 DEF LoggedRows
  <2>6. GapWasCut'
    <3> SUFFICES ASSUME NEW x \in Deployed, x \notin cut', ~Audited(x)' PROVE Auditing(x)' # {}
      BY <2>4 DEF GapWasCut, Gaps
    <3>1. x # o /\ ~Audited(x) /\ x \notin cut
      BY <2>2 DEF Audited
    <3>2. PICK q \in Pollers : poll[q].pc = "audit" /\ Head(poll[q].todo) = x
      BY <3>1 DEF GapWasCut, Gaps, Auditing
    <3>3. q # p
      BY <2>1, <3>1, <3>2 DEF Current
    <3> QED
      BY <2>3, <3>2, <3>3 DEF Auditing
  <2> QED
    BY <2>5, <2>6
<1>2. ASSUME NEW p \in Pollers, apiUpdate(p) PROVE LoggedRows' /\ GapWasCut'
  <2>1. PICK o \in Placed : o = Current(p)
    BY <1>2, CurrentPlaced DEF apiUpdate
  <2>2. /\ UNCHANGED <<deployedLog, cut>> /\ apiWrote' = apiWrote \cup {o}
        /\ legacy' = [legacy EXCEPT ![o].status = "deployed"]
        /\ poll' = [poll EXCEPT ![p].pc = "audit"] /\ poll[p].pc = "write"
    BY <1>2, <2>1 DEF apiUpdate
  <2>3. Deployed' = Deployed \cup {o}
    BY <2>2, <1>0 DEF Deployed, OrderRows
  <2>4. /\ poll'[p].pc = "audit" /\ Head(poll'[p].todo) = o
        /\ \A q \in Pollers : q # p => poll'[q] = poll[q]
    BY <2>1, <2>2, <1>0 DEF Current, Polls
  <2>5. LoggedRows'
    BY <2>2, <2>3 DEF LoggedRows
  <2>6. GapWasCut'
    <3> SUFFICES ASSUME NEW x \in Deployed', x \notin cut, ~Audited(x) PROVE Auditing(x)' # {}
      BY <2>2 DEF GapWasCut, Gaps, Audited
    <3>1. CASE x = o
      BY <2>4, <3>1 DEF Auditing
    <3>2. CASE x # o
      <4>1. PICK q \in Pollers : poll[q].pc = "audit" /\ Head(poll[q].todo) = x
        BY <2>3, <3>2 DEF GapWasCut, Gaps, Auditing
      <4> QED
        BY <2>2, <2>4, <4>1 DEF Auditing
    <3> QED
      BY <3>1, <3>2
  <2> QED
    BY <2>5, <2>6
<1>3. ASSUME NEW p \in Pollers, cronUpdate(p) PROVE LoggedRows' /\ GapWasCut'
  <2>1. PICK o \in Placed : o = Current(p)
    BY <1>3, CurrentPlaced DEF cronUpdate
  <2>2. \A q \in Pollers : q # p => poll'[q] = poll[q]
    BY <1>3, NextOrderKeeps DEF cronUpdate
  <2>3. poll[p].pc = "write" /\ UNCHANGED <<cut, apiWrote>>
    BY <1>3 DEF cronUpdate
  <2>4. \A x : Auditing(x) # {} => Auditing(x)' # {}
    BY <2>2, <2>3 DEF Auditing
  <2>5. CASE UNCHANGED <<legacy, deployedLog>>
    BY <2>3, <2>4, <2>5 DEF LoggedRows, GapWasCut, Gaps, Deployed, Audited
  <2>6. CASE /\ legacy[o].status = "provisioning" /\ legacy' = [legacy EXCEPT ![o].status = "deployed"]
             /\ deployedLog' = deployedLog \cup {<<o, p>>}
    <3>1. Deployed' = Deployed \cup {o} /\ o \notin Deployed
      BY <2>6, <1>0 DEF Deployed, OrderRows
    <3>2. \A q \in Pollers : <<o, q>> \notin deployedLog
      BY <3>1 DEF LoggedRows
    <3>3. LoggedRows'
      <4>1. \A y \in deployedLog' : y[1] \in Deployed'
        BY <2>6, <3>1 DEF LoggedRows
      <4>2. <<o, p>> \in deployedLog' /\ \A q \in Pollers : <<o, q>> \in deployedLog' => q = p
        BY <2>6, <3>2
      <4>3. \A x \in Deployed, q \in Pollers : <<x, q>> \in deployedLog' <=> <<x, q>> \in deployedLog
        BY <2>6, <3>1
      <4>4. \A x \in Deployed \ apiWrote : \E q \in Pollers :
              /\ <<x, q>> \in deployedLog'
              /\ \A z \in Pollers : <<x, z>> \in deployedLog' => z = q
        BY <4>3 DEF LoggedRows
      <4> QED
        BY <2>3, <3>1, <4>1, <4>2, <4>4 DEF LoggedRows
    <3>4. \A x \in Gaps' : x \in Gaps
      BY <2>6, <3>1 DEF Gaps, Audited
    <3> QED
      BY <2>3, <2>4, <3>3, <3>4 DEF GapWasCut
  <2> QED
    BY <1>3, <2>1, <2>5, <2>6 DEF cronUpdate
<1>4. ASSUME apiEnds PROVE LoggedRows' /\ GapWasCut'
  <2>1. UNCHANGED <<legacy, deployedLog, apiWrote>> /\ cut' = cut \cup {o \in Placed : Auditing(o) # {}}
    BY <1>4 DEF apiEnds
  <2>2. Gaps' = Gaps /\ Gaps \subseteq Placed
    BY <2>1 DEF Gaps, Deployed, Audited
  <2> QED
    BY <2>1, <2>2 DEF LoggedRows, GapWasCut, Deployed
\* The other steps write neither a status that is deployed nor an audit row.
<1>5. ASSUME Deployed' = Deployed, UNCHANGED <<deployedLog, apiWrote, cut>>,
             \A q \in Pollers : poll[q].pc = "audit" => poll'[q] = poll[q]
      PROVE  LoggedRows' /\ GapWasCut'
  <2>1. \A x : Auditing(x) \subseteq Auditing(x)'
    BY <1>5 DEF Auditing
  <2> QED
    BY <1>5, <2>1 DEF LoggedRows, GapWasCut, Gaps, Audited
<1>6. ASSUME NEW o \in Placed, placeOrder(o) \/ storePlaced(o) \/ placeFailed(o)
      PROVE  Deployed' = Deployed /\ UNCHANGED pollVars
  <2>1. legacy[o].status # "deployed"
    BY <1>6 DEF placeOrder, storePlaced, placeFailed, NoLegacy, RowLinked
  <2>2. legacy'[o].status # "deployed" /\ \A x \in Placed : x # o => legacy'[x] = legacy[x]
    BY <1>6, <1>0, <2>1 DEF placeOrder, storePlaced, placeFailed, OrderRows
  <2> QED
    BY <1>6, <2>1, <2>2 DEF placeOrder, storePlaced, placeFailed, Deployed
<1>7. ASSUME NEW p \in Pollers, listPending(p) \/ getServices(p)
      PROVE  /\ Deployed' = Deployed /\ UNCHANGED <<deployedLog, apiWrote, cut>>
             /\ \A q \in Pollers : poll[q].pc = "audit" => poll'[q] = poll[q]
  <2>1. poll[p].pc # "audit" /\ Deployed' = Deployed /\ UNCHANGED <<deployedLog, apiWrote, cut>>
    BY <1>7 DEF listPending, getServices, orderVars, Deployed
  <2>2. ASSUME poll[p].pc # "idle", NextOrder(p) PROVE \A q \in Pollers : q # p => poll'[q] = poll[q]
    BY <2>2, NextOrderKeeps
  <2>3. \A q \in Pollers : q # p => poll'[q] = poll[q]
    BY <1>0, <1>7, <2>2 DEF listPending, getServices
  <2> QED
    BY <2>1, <2>3
<1>8. ASSUME (\E o \in Placed : ordersCall(o) \/ deploys(o))
             \/ startScan \/ listDeployed \/ hasDeploymentAudit \/ lastScan
      PROVE  Deployed' = Deployed /\ UNCHANGED pollVars
  BY <1>8
  DEF ordersCall, deploys, startScan, listDeployed, hasDeploymentAudit, lastScan, orderVars, pollVars, Deployed
<1>9. CASE Deployed' = Deployed /\ UNCHANGED pollVars
  BY <1>5, <1>9 DEF pollVars
<1> QED
  BY <1>1, <1>2, <1>3, <1>4, <1>5, <1>6, <1>7, <1>8, <1>9 DEF LegacyNext

-----------------------------------------------------------------------------
(* LegacyOrder: the integrity scan.                                           *)

\* Every step keeps what the scan knows of the gaps it has counted and of those
\* before it.
LEMMA ScanStep == LegacyInv /\ [LegacyNext]_legacyVars => ScanKnows'
<1> SUFFICES ASSUME LegacyInv, LegacyNext PROVE ScanKnows'
  BY DEF LegacyInv, ScanKnows, Deployed, Counted, Audited, InBatch, Beyond, legacyVars, orderVars, pollVars
<1> USE DEF LegacyInv
<1>0. scan \in Scans /\ Placed \subseteq Nat /\ IsFiniteSet(Placed) /\ scan.after \in Nat
      /\ ScanBatch \in Nat \ {0} /\ ScanMax \in Nat \ {0}
  <2>1. IsFiniteSet(Placed)
    BY LegacyConstants, FS_Interval DEF Placed
  <2>2. scan \in Scans /\ scan.after \in Placed \cup {0}
    BY DEF LegacyTypeOK, Scans
  <2> QED
    BY <2>1, <2>2, LegacyConstants DEF Placed
<1>1. Counted \subseteq Placed /\ IsFiniteSet(Counted) /\ Cardinality(Counted) \in Nat
  BY <1>0, FS_Subset, FS_CardinalityType DEF Counted, Scans
\* The count of a scan at rest only falls when an audit row is written.
<1>2. ASSUME UNCHANGED scan PROVE ScanKnows'
  <2>1. Counted' \subseteq Counted
    BY <1>2, DoneStays DEF Counted, Audited
  <2>2. Cardinality(Counted') <= Cardinality(Counted) /\ Cardinality(Counted') \in Nat
    BY <1>1, <2>1, FS_Subset, FS_CardinalityType
  <2>3. scan.missing \in Nat
    BY <1>0 DEF Scans
  <2> QED
    BY <1>1, <1>2, <2>2, <2>3, DoneStays DEF ScanKnows, InBatch, Beyond
<1>3. ASSUME startScan PROVE ScanKnows'
  <2>1. /\ scan'.pc = "list" /\ scan'.gaps = Gaps /\ scan'.examined = 0 /\ scan'.after = 0
        /\ scan'.missing = 0 /\ UNCHANGED <<legacy, deployedLog>>
    BY <1>3 DEF startScan, NoScan, orderVars, pollVars
  <2>2. Counted' = {}
    BY <2>1, <1>0 DEF Counted, Gaps, Deployed, Placed
  <2> QED
    BY <2>1, <2>2, <1>0, FS_EmptySet DEF ScanKnows, Gaps, Deployed
<1>4. ASSUME listDeployed PROVE ScanKnows'
  <2> DEFINE limit == Min({ScanBatch, ScanMax - scan.examined})
             rest == {o \in Deployed : o > scan.after}
  <2>1. PICK batch \in Listed(rest, ById(rest), limit) :
          scan' = [scan EXCEPT !.pc = IF batch = <<>> THEN "ended" ELSE "row",
                               !.batch = batch, !.limit = limit]
    BY <1>4 DEF listDeployed
  <2>2. limit \in Nat \ {0} /\ scan.examined + limit <= ScanMax
    <3>1. ScanMax - scan.examined \in Nat \ {0} /\ scan.examined \in Nat
      BY <1>0, <1>4 DEF Scans, ScanKnows, listDeployed
    <3> HIDE DEF limit
    <3>2. limit \in {ScanBatch, ScanMax - scan.examined} /\ limit <= ScanMax - scan.examined
      BY <1>0, <3>1, MinOfTwo DEF limit
    <3> QED
      BY <1>0, <3>1, <3>2
  <2>3. /\ rest \subseteq Placed /\ \A o \in rest : scan.after < o
        /\ \A o \in Deployed : o <= scan.after \/ o \in rest
    BY <1>0 DEF Deployed
  <2> HIDE DEF limit, rest
  <2>4. /\ Len(batch) \in 0..limit /\ DOMAIN batch = 1..Len(batch) /\ (batch = <<>>) = (Len(batch) = 0)
        /\ \A i \in DOMAIN batch : batch[i] \in rest
        /\ \A i, j \in DOMAIN batch : i < j => batch[i] < batch[j]
        /\ \A x \in rest : \/ \E i \in DOMAIN batch : batch[i] = x
                           \/ Len(batch) = limit /\ \A i \in DOMAIN batch : batch[i] < x
    BY <2>2, ListedById
  <2>5. /\ scan'.pc = IF batch = <<>> THEN "ended" ELSE "row"
        /\ scan'.batch = batch /\ scan'.limit = limit /\ scan'.examined = scan.examined
        /\ scan'.gaps = scan.gaps /\ scan'.after = scan.after /\ scan'.missing = scan.missing
        /\ scan'.incomplete = scan.incomplete
    BY <2>1, <1>0 DEF Scans
  <2>6. UNCHANGED <<legacy, deployedLog>>
    BY <1>4 DEF listDeployed, orderVars, pollVars
  <2>7. Counted' = Counted /\ Deployed' = Deployed
    BY <2>5, <2>6 DEF Counted, Audited, Deployed
  <2>8. scan.gaps \subseteq Deployed /\ Cardinality(Counted) <= scan.missing
    BY DEF ScanKnows
  <2>9. ASSUME batch = <<>> PROVE \A o \in scan.gaps : o <= scan.after
    BY <2>2, <2>3, <2>4, <2>8, <2>9
  <2>10. ASSUME batch # <<>>, NEW o \in scan.gaps PROVE o <= scan'.after \/ InBatch(o)' \/ Beyond(o)'
    <3>1. CASE o <= scan.after
      BY <2>5, <3>1
    <3>2. CASE o \in rest
      BY <2>3, <2>4, <2>5, <3>2, <1>0 DEF InBatch, Beyond
    <3> QED
      BY <2>3, <2>8, <3>1, <3>2
  <2>11. CASE batch = <<>>
    BY <2>5, <2>7, <2>8, <2>9, <2>11 DEF ScanKnows
  <2>12. CASE batch # <<>>
    <3>1. scan'.pc = "row" /\ Len(batch) <= limit
      <4>1. scan'.pc = "row"
        BY <2>5, <2>12
      <4>2. Len(batch) \in 0..limit
        BY <2>4
      <4> QED
        BY <2>2, <4>1, <4>2
    <3>2. /\ \A i \in DOMAIN batch : scan.after < batch[i]
          /\ \A i, j \in DOMAIN batch : i < j => batch[i] < batch[j]
      BY <2>3, <2>4
    <3> QED
      BY <2>2, <2>5, <2>7, <2>8, <2>10, <2>12, <3>1, <3>2 DEF ScanKnows
  <2> QED
    BY <2>11, <2>12
<1>5. ASSUME hasDeploymentAudit PROVE ScanKnows'
  <2>1. PICK b \in Seq(Placed), o \in Placed, limit \in Nat, examined \in Nat :
          b = scan.batch /\ o = Head(b) /\ limit = scan.limit /\ examined = scan.examined
    <3>1. scan.batch \in Seq(Placed) /\ scan.batch # <<>> /\ scan.limit \in Nat /\ scan.examined \in Nat
      BY <1>0, <1>5 DEF hasDeploymentAudit, ScanKnows, Scans
    <3> QED
      BY <3>1, FirstAndRest
  <2>2. /\ b # <<>> /\ Len(b) <= limit /\ examined + limit <= ScanMax
        /\ \A i, j \in DOMAIN b : i < j => b[i] < b[j]
        /\ \A i \in DOMAIN b : scan.after < b[i]
        /\ \A x \in scan.gaps : x <= scan.after \/ InBatch(x) \/ Beyond(x)
    BY <1>5, <2>1 DEF hasDeploymentAudit, ScanKnows
  <2>3. /\ scan.missing \in Nat /\ Cardinality(Counted) <= scan.missing
        /\ scan.gaps \subseteq Deployed /\ Deployed \subseteq Nat
    BY <1>0 DEF ScanKnows, Scans, Deployed
  <2>4. PICK n \in Nat \ {0}, r \in Seq(Placed) :
          /\ n = Len(b) /\ r = Tail(b) /\ DOMAIN b = 1..n /\ o = b[1]
          /\ Len(r) = n - 1 /\ DOMAIN r = 1..(n - 1) /\ (r = <<>>) = (n = 1)
    <3>1. /\ Len(b) \in Nat \ {0} /\ DOMAIN b = 1..Len(b) /\ Head(b) = b[1]
          /\ Tail(b) \in Seq(Placed) /\ Len(Tail(b)) = Len(b) - 1
          /\ DOMAIN Tail(b) = 1..(Len(b) - 1) /\ (Tail(b) = <<>>) = (Len(b) = 1)
      BY <2>2, FirstAndRest
    <3> QED
      BY <2>1, <3>1
  <2>5. /\ \A i \in DOMAIN r : o < r[i]
        /\ \A i, j \in DOMAIN r : i < j => r[i] < r[j]
        /\ \A x : (\E i \in DOMAIN b : b[i] = x) => x = o \/ \E i \in DOMAIN r : r[i] = x
        /\ \A x \in Nat : (\A i \in DOMAIN b : x > b[i]) => x > o /\ \A i \in DOMAIN r : x > r[i]
    <3>1. Placed \in SUBSET Nat
      BY <1>0
    <3>2. /\ \A i \in DOMAIN Tail(b) : Head(b) < Tail(b)[i]
          /\ \A i, j \in DOMAIN Tail(b) : i < j => Tail(b)[i] < Tail(b)[j]
          /\ \A x : (\E i \in DOMAIN b : b[i] = x) =>
               x = Head(b) \/ \E i \in DOMAIN Tail(b) : Tail(b)[i] = x
          /\ \A x \in Nat : (\A i \in DOMAIN b : x > b[i]) =>
               x > Head(b) /\ \A i \in DOMAIN Tail(b) : x > Tail(b)[i]
      BY <2>2, <3>1, FirstPassed
    <3>3. o = Head(b) /\ r = Tail(b)
      BY <2>1, <2>4
    <3> QED
      BY <3>2, <3>3
  <2>6. scan.after < o /\ o \in Nat
    <3>1. 1 \in DOMAIN b /\ o = b[1]
      BY <2>4
    <3>2. scan.after < b[1]
      BY <2>2, <3>1
    <3> QED
      BY <1>0, <3>1, <3>2
  \* Every gap is passed, in the rest of the batch, or beyond it.
  <2>7. ASSUME NEW x \in scan.gaps
        PROVE  \/ x <= o
               \/ \E i \in DOMAIN r : r[i] = x
               \/ n = limit /\ x > o /\ \A i \in DOMAIN r : x > r[i]
    <3>1. x \in Nat
      BY <2>3
    <3>2. CASE x <= scan.after
      BY <1>0, <2>6, <3>1, <3>2
    <3>3. CASE InBatch(x)
      <4>1. \E i \in DOMAIN b : b[i] = x
        BY <2>1, <3>3 DEF InBatch
      <4>2. x = o \/ \E i \in DOMAIN r : r[i] = x
        BY <2>5, <4>1
      <4> QED
        BY <2>6, <4>2
    <3>4. CASE Beyond(x)
      BY <2>1, <2>4, <2>5, <3>1, <3>4 DEF Beyond
    <3> QED
      BY <2>2, <3>2, <3>3, <3>4
  <2>8. ASSUME NEW x \in scan.gaps, x <= o PROVE x <= scan.after \/ x = o
    <3>1. x \in Nat
      BY <2>3
    <3>2. CASE InBatch(x)
      <4>1. \E i \in DOMAIN b : b[i] = x
        BY <2>1, <3>2 DEF InBatch
      <4>2. x = o \/ \E i \in DOMAIN r : r[i] = x
        BY <2>5, <4>1
      <4>3. \A i \in DOMAIN r : o < r[i]
        BY <2>5
      <4> QED
        BY <2>6, <2>8, <3>1, <4>2, <4>3
    <3>3. CASE Beyond(x)
      <4>1. x > o
        BY <2>1, <2>4, <2>5, <3>1, <3>3 DEF Beyond
      <4> QED
        BY <2>6, <2>8, <3>1, <4>1
    <3> QED
      BY <2>2, <3>2, <3>3
  <2> DEFINE next == [scan EXCEPT !.missing = IF Audited(o) THEN @ ELSE @ + 1, !.after = o,
                        !.batch = Tail(@), !.limit = @ - 1, !.examined = @ + 1]
  <2>9. scan' = AfterScanned(next) /\ UNCHANGED <<legacy, deployedLog>>
    BY <1>5, <2>1 DEF hasDeploymentAudit, orderVars, pollVars
  <2>10. /\ scan'.batch = r /\ scan'.limit = limit - 1 /\ scan'.examined = examined + 1
         /\ scan'.after = o /\ scan'.gaps = scan.gaps
         /\ scan'.missing = IF Audited(o) THEN scan.missing ELSE scan.missing + 1
         /\ scan'.pc = IF r # <<>> THEN "row" ELSE IF limit - 1 > 0 THEN "ended"
                       ELSE IF examined + 1 < ScanMax THEN "list" ELSE "last"
    BY <2>1, <2>4, <2>9, <1>0 DEF AfterScanned, Scans
  <2> HIDE DEF next
  <2>11. Deployed' = Deployed /\ \A x : Audited(x)' = Audited(x)
    BY <2>9 DEF Deployed, Audited
  <2>12. Cardinality(Counted') <= scan'.missing
    <3>1. \A x \in Counted' : x \in Counted \/ x = o
      BY <2>8, <2>10, <2>11 DEF Counted
    <3>2. CASE Audited(o)
      <4>1. Counted' \subseteq Counted
        BY <2>11, <3>1, <3>2 DEF Counted
      <4>2. Cardinality(Counted') <= Cardinality(Counted) /\ Cardinality(Counted') \in Nat
        BY <1>1, <4>1, FS_Subset, FS_CardinalityType
      <4> QED
        BY <1>1, <2>3, <2>10, <3>2, <4>2
    <3>3. CASE ~Audited(o)
      <4>1. Counted' \subseteq Counted \cup {o}
        BY <3>1
      <4>2. IsFiniteSet(Counted \cup {o}) /\ Cardinality(Counted \cup {o}) <= Cardinality(Counted) + 1
            /\ Cardinality(Counted \cup {o}) \in Nat
        <5>1. IsFiniteSet(Counted \cup {o}) /\ Cardinality(Counted \cup {o}) =
                IF o \in Counted THEN Cardinality(Counted) ELSE Cardinality(Counted) + 1
          BY <1>1, FS_AddElement
        <5>2. Cardinality(Counted \cup {o}) \in Nat
          BY <5>1, FS_CardinalityType
        <5> QED
          BY <1>1, <5>1, <5>2
      <4>3. Cardinality(Counted') <= Cardinality(Counted \cup {o}) /\ Cardinality(Counted') \in Nat
        BY <4>1, <4>2, FS_Subset, FS_CardinalityType
      <4> QED
        BY <1>1, <2>3, <2>10, <3>3, <4>2, <4>3
    <3> QED
      BY <3>2, <3>3
  <2>13. scan'.gaps \subseteq Deployed'
    BY <2>3, <2>10, <2>11
  <2>14. scan'.pc = "list" => scan'.examined < ScanMax
    BY <2>10
  <2>15. ASSUME scan'.pc = "ended", NEW x \in scan.gaps PROVE x <= o
    <3>1. n = 1 /\ limit - 1 > 0 /\ DOMAIN r = {}
      BY <2>4, <2>10, <2>15
    <3>2. n # limit
      BY <2>1, <3>1
    <3> QED
      BY <2>7, <3>1, <3>2
  <2>16. ASSUME scan'.pc = "row"
         PROVE  /\ r # <<>> /\ Len(r) <= limit - 1 /\ examined + 1 + (limit - 1) <= ScanMax
                /\ \A x \in scan.gaps : x <= o \/ InBatch(x)' \/ Beyond(x)'
    <3>1. r # <<>>
      BY <2>10, <2>16
    <3>2. n <= limit /\ Len(r) = n - 1
      BY <2>2, <2>4
    <3>3. Len(r) <= limit - 1 /\ examined + 1 + (limit - 1) <= ScanMax /\ (n = limit => Len(r) = limit - 1)
      BY <2>1, <2>2, <3>2, <1>0
    <3>4. \A x \in scan.gaps : x <= o \/ InBatch(x)' \/ Beyond(x)'
      BY <2>7, <2>10, <3>3 DEF InBatch, Beyond
    <3> QED
      BY <3>1, <3>3, <3>4
  <2> QED
    BY <2>5, <2>10, <2>12, <2>13, <2>14, <2>15, <2>16 DEF ScanKnows
<1>6. ASSUME lastScan PROVE ScanKnows'
  <2>1. /\ scan'.pc = "ended" /\ scan'.incomplete = (\E o \in Deployed : o > scan.after)
        /\ scan'.gaps = scan.gaps /\ scan'.after = scan.after /\ scan'.missing = scan.missing
        /\ UNCHANGED <<legacy, deployedLog>>
    BY <1>6, <1>0 DEF lastScan, orderVars, pollVars, Scans
  <2>2. Deployed' = Deployed /\ Counted' = Counted
    BY <2>1 DEF Deployed, Counted, Audited
  <2>3. scan.gaps \subseteq Deployed /\ Deployed \subseteq Nat /\ Cardinality(Counted) <= scan.missing
    BY <1>0 DEF ScanKnows, Deployed
  <2>4. ASSUME ~scan'.incomplete, NEW o \in scan.gaps PROVE o <= scan.after
    <3>1. ~\E x \in Deployed : x > scan.after
      BY <2>1, <2>4
    <3> QED
      <4>1. o \in Deployed /\ o \in Nat /\ ~(o > scan.after)
        BY <2>3, <3>1
      <4> QED
        BY <4>1, <1>0
  <2> HIDE DEF ScanKnows
  <2>5. scan'.gaps \subseteq Deployed' /\ Cardinality(Counted') <= scan'.missing
    BY <2>1, <2>2, <2>3
  <2> QED
    BY <2>1, <2>4, <2>5 DEF ScanKnows
<1>7. ASSUME NEW o \in Placed,
             placeOrder(o) \/ ordersCall(o) \/ storePlaced(o) \/ placeFailed(o) \/ deploys(o)
      PROVE  UNCHANGED scan
  BY <1>7 DEF placeOrder, ordersCall, storePlaced, placeFailed, deploys
<1>8. ASSUME NEW p \in Pollers,
             listPending(p) \/ getServices(p) \/ apiUpdate(p) \/ apiAudit(p) \/ cronUpdate(p)
      PROVE  UNCHANGED scan
  BY <1>8 DEF listPending, getServices, apiUpdate, apiAudit, cronUpdate
<1>9. ASSUME apiEnds PROVE UNCHANGED scan
  BY <1>9 DEF apiEnds
<1> QED
  BY <1>2, <1>3, <1>4, <1>5, <1>6, <1>7, <1>8, <1>9 DEF LegacyNext

-----------------------------------------------------------------------------
(* LegacyOrder: the theorems.                                                 *)

\* The inductive invariant holds at the start.
LEMMA LegacyStart == LegacyInit => LegacyInv
<1> SUFFICES ASSUME LegacyInit PROVE LegacyInv
  OBVIOUS
<1>1. /\ \A o \in Placed : legacy[o] = NoLegacy /\ placing[o] = "idle" /\ remotes[o] = "none"
      /\ \A c \in Customers : keyed[c] = NoRemote
      /\ \A p \in Pollers : poll[p] = NoPoll
      /\ deployedLog = {} /\ scan = NoScan
  BY DEF LegacyInit
<1>2. Deployed = {}
  BY <1>1 DEF Deployed, NoLegacy
<1>3. LegacyTypeOK
  <2>1. NoPoll \in Polls /\ NoPoll.pc = "idle"
    BY EmptySeq DEF NoPoll, Polls
  <2>2. NoScan \in Scans
    <3>1. 0 \in 0..ScanMax /\ <<>> \in Seq(Placed)
      BY LegacyConstants, EmptySeq
    <3> QED
      BY <3>1 DEF NoScan, Scans
  <2>3. NoLegacy \in OrderRows
    BY DEF NoLegacy, OrderRows
  <2> QED
    BY <2>1, <2>2, <2>3 DEF LegacyInit, LegacyTypeOK
<1>4. (\A o \in Placed : RowLinked(o)) /\ (\A c \in Customers : KeyLinked(c))
  BY <1>1 DEF RowLinked, KeyLinked, NoLegacy
<1>5. \A p \in Pollers : PollKnows(p)
  BY <1>1 DEF PollKnows, NoPoll
<1>6. LoggedRows /\ GapWasCut
  BY <1>1, <1>2 DEF LoggedRows, GapWasCut, Gaps
<1>7. ScanKnows
  <2>1. scan.pc = "idle" /\ scan.gaps = {} /\ scan.missing = 0
    BY <1>1 DEF NoScan
  <2>2. Counted = {}
    BY <2>1 DEF Counted
  <2> QED
    BY <2>1, <2>2, FS_EmptySet DEF ScanKnows
<1> QED
  BY <1>3, <1>4, <1>5, <1>6, <1>7 DEF LegacyInv

\* Every step keeps the inductive invariant.
LEMMA LegacyStep == LegacyInv /\ [LegacyNext]_legacyVars => LegacyInv'
  BY LegacyTypeStep, RowStep, PollStep, LoggedStep, ScanStep DEF LegacyInv

\* The inductive invariant of LegacyOrder.
THEOREM LegacyInvariance == LegacySpec => []LegacyInv
<1> QED
  BY LegacyStart, LegacyStep, PTL DEF LegacySpec

\* Every row, request, poller and scan keeps its shape.
THEOREM LegacyTypesCorrect == LegacySpec => []LegacyTypeOK
<1>1. LegacyInv => LegacyTypeOK
  BY DEF LegacyInv
<1> QED
  BY <1>1, LegacyInvariance, PTL

\* A deployed order has a deployed service of its own client, and an order that
\* failed has none, however old the lists are that pollers work on and whatever
\* account the order's request named.
THEOREM DeployedServed == LegacySpec => []DeployedIsServed
<1>1. LegacyInv => DeployedIsServed
  <2> SUFFICES ASSUME LegacyInv, NEW o \in Placed
               PROVE  /\ o \in Deployed => /\ legacy[o].remote # NoRemote
                                           /\ remotes[legacy[o].remote] = "deployed"
                                           /\ body[legacy[o].remote] = legacy[o].client
                      /\ legacy[o].remote # NoRemote => legacy[o].status # "failed"
    BY DEF DeployedIsServed
  <2> QED
    BY DEF LegacyInv, RowLinked, Deployed
<1> QED
  BY <1>1, LegacyInvariance, PTL

\* What LegacyOrder contributes to the runs' two properties about logs: guarded
\* writes log a deployment once, a gap was cut off, failed to be written or is
\* being filled, and a complete scan has counted the gaps that stayed.
LEMMA LegacyReports == LegacyInv => CronAuditsOnce /\ GapWasCut /\ ScanCountsGaps
<1> SUFFICES ASSUME LegacyInv PROVE CronAuditsOnce /\ GapWasCut /\ ScanCountsGaps
  OBVIOUS
<1>1. CronAuditsOnce
  <2> SUFFICES ASSUME NEW o \in Placed \ apiWrote
               PROVE  Cardinality({p \in Pollers : <<o, p>> \in deployedLog})
                        = IF o \in Deployed THEN 1 ELSE 0
    BY DEF CronAuditsOnce
  <2>1. CASE o \in Deployed
    <3>1. PICK p \in Pollers : /\ <<o, p>> \in deployedLog
                               /\ \A q \in Pollers : <<o, q>> \in deployedLog => q = p
      BY <2>1 DEF LegacyInv, LoggedRows
    <3>2. {q \in Pollers : <<o, q>> \in deployedLog} = {p}
      BY <3>1
    <3> QED
      BY <2>1, <3>2, FS_Singleton
  <2>2. CASE o \notin Deployed
    <3>1. {q \in Pollers : <<o, q>> \in deployedLog} = {}
      BY <2>2 DEF LegacyInv, LoggedRows
    <3> QED
      BY <2>2, <3>1, FS_EmptySet
  <2> QED
    BY <2>1, <2>2
<1>2. ScanCountsGaps
  <2> SUFFICES ASSUME scan.pc = "ended", ~scan.incomplete
               PROVE  scan.missing >= Cardinality({o \in scan.gaps : ~Audited(o)})
    BY DEF ScanCountsGaps
  <2>1. {o \in scan.gaps : ~Audited(o)} = Counted
    BY DEF LegacyInv, ScanKnows, Counted
  <2>2. Cardinality(Counted) <= scan.missing /\ scan.missing \in Nat
    BY DEF LegacyInv, ScanKnows, LegacyTypeOK, Scans
  <2>3. IsFiniteSet(Placed) /\ Counted \subseteq Placed
    BY LegacyConstants, FS_Interval DEF Placed, LegacyInv, LegacyTypeOK, Scans, Counted
  <2>4. Cardinality(Counted) \in Nat
    BY <2>3, FS_Subset, FS_CardinalityType
  <2> QED
    BY <2>1, <2>2, <2>4
<1> QED
  BY <1>1, <1>2 DEF LegacyInv

-----------------------------------------------------------------------------
(* AuditLog: rows.                                                            *)

\* The rows of the audit log and their columns.
LEMMA RowsTyped ==
  ASSUME AuditTypeOK
  PROVE  /\ Ids \subseteq Nat /\ Rows \subseteq Ids /\ NoRow \notin LogRows
         /\ \A i \in Rows : /\ log[i] \in LogRows /\ log[i].target \in Targets
                            /\ log[i].org \in Orgs \cup {NoOrg} /\ log[i].at \in 1..MaxTime
                            /\ log[i].removal \in BOOLEAN /\ log[i].live \in BOOLEAN
<1>1. Ids \subseteq Nat /\ Rows \subseteq Ids
  BY AuditConstants DEF Ids, Rows
<1>2. NoRow \notin LogRows
  BY AuditConstants DEF NoRow, LogRows
<1>3. \A i \in Rows : log[i] \in LogRows
  BY DEF AuditTypeOK, Rows
<1> QED
  BY <1>1, <1>2, <1>3 DEF LogRows

\* A new row, and the others as they were.
LEMMA InsertKeeps ==
  ASSUME AuditTypeOK, NEW t \in Targets, NEW o \in Orgs \cup {NoOrg}, NEW removal \in BOOLEAN,
         Insert(t, o, removal)
  PROVE  /\ log' \in [Ids -> LogRows \cup {NoRow}]
         /\ \E i \in Ids \ Rows :
              /\ Rows' = Rows \cup {i} /\ \A j \in Rows : log'[j] = log[j]
              /\ log'[i].target = t /\ log'[i].org = o /\ log'[i].removal = removal
              /\ log'[i].live <=> o # NoOrg
<1> DEFINE live == o # NoOrg
<1>1. PICK i \in Ids \ Rows, now \in 1..MaxTime :
        log' = [log EXCEPT ![i] = [target |-> t, org |-> o, at |-> now, removal |-> removal, live |-> live]]
  BY DEF Insert
<1>2. live \in BOOLEAN
  OBVIOUS
<1>3. live <=> o # NoOrg
  OBVIOUS
<1> HIDE DEF live
<1>4. [target |-> t, org |-> o, at |-> now, removal |-> removal, live |-> live] \in LogRows
  BY <1>2 DEF LogRows
<1>5. log' \in [Ids -> LogRows \cup {NoRow}]
  BY <1>1, <1>4 DEF AuditTypeOK
<1>6. /\ log'[i] = [target |-> t, org |-> o, at |-> now, removal |-> removal, live |-> live]
      /\ \A j \in Ids : j # i => log'[j] = log[j]
  BY <1>1 DEF AuditTypeOK
<1>7. log'[i] # NoRow
  BY <1>4, <1>6, RowsTyped
<1>8. Rows' = Rows \cup {i} /\ \A j \in Rows : log'[j] = log[j]
  BY <1>6, <1>7 DEF Rows
<1> QED
  BY <1>3, <1>5, <1>6, <1>8

\* A row that gets its organisation keeps everything else.
LEMMA WriteKeeps ==
  ASSUME AuditTypeOK, NEW i \in Rows, NEW o \in Orgs, log' = [log EXCEPT ![i].org = o]
  PROVE  /\ log' \in [Ids -> LogRows \cup {NoRow}]
         /\ Rows' = Rows /\ log'[i].org = o
         /\ log'[i].target = log[i].target /\ log'[i].at = log[i].at
         /\ log'[i].removal = log[i].removal /\ log'[i].live = log[i].live
         /\ \A j \in Rows : j # i => log'[j] = log[j]
<1>1. log[i] \in LogRows /\ i \in Ids /\ Rows \subseteq Ids
  BY RowsTyped
<1>2. [log[i] EXCEPT !.org = o] \in LogRows
  BY <1>1 DEF LogRows
<1>3. log'[i] = [log[i] EXCEPT !.org = o] /\ \A j \in Ids : j # i => log'[j] = log[j]
  BY <1>1 DEF AuditTypeOK
<1>4. log' \in [Ids -> LogRows \cup {NoRow}]
  BY <1>2, <1>3, <1>1 DEF AuditTypeOK
<1>5. log'[i] # NoRow
  BY <1>2, <1>3, RowsTyped
<1>6. Rows' = Rows
  BY <1>1, <1>3, <1>5 DEF Rows
<1> QED
  BY <1>1, <1>3, <1>4, <1>6 DEF LogRows

\* A look-up answers with organisations or with none.
LEMMA ResolvedOrgs ==
  ASSUME AuditTypeOK, NEW t \in Targets
  PROVE  relationOf(t) \subseteq Orgs /\ resolve(t) \subseteq Orgs \cup {NoOrg}
BY DEF AuditTypeOK, relationOf, resolve

-----------------------------------------------------------------------------
(* AuditLog: runs of the backfill and the scan.                               *)

\* The fields of a run, one by one.
LEMMA SweepFields ==
  ASSUME NEW q \in SweepRuns
  PROVE  /\ q.pc \in {"idle", "list", "row", "write", "last", "ended"}
         /\ q.kind \in {"scan", "backfill"} /\ q.after \in Ids \cup {0} /\ q.batch \in Seq(Ids)
         /\ q.limit \in Nat /\ q.examined \in 0..MaxRows /\ q.backfilled \in Nat
         /\ q.found \in Orgs \cup {NoOrg} /\ q.incomplete \in BOOLEAN
         /\ q.due \subseteq Ids /\ q.seen \subseteq Ids /\ q.wrote \subseteq Ids
BY DEF SweepRuns

\* What is known of a run stays known when rows and organisations are added.
LEMMA SweepKept ==
  ASSUME NEW q, NEW rows, NEW unscoped, NEW rows2, NEW unscoped2,
         SweepKnows(q, rows, unscoped), rows \subseteq rows2, unscoped2 \cap rows \subseteq unscoped
  PROVE  SweepKnows(q, rows2, unscoped2)
<1>1. \A i \in q.due \cap unscoped2 : i \in q.due \cap unscoped
  BY DEF SweepKnows
<1> HIDE DEF Ahead
<1> QED
  BY <1>1 DEF SweepKnows

\* A row more is attributed: only the count and the rows written change.
LEMMA AttributedKeeps ==
  ASSUME NEW q \in SweepRuns, NEW rows, NEW unscoped, q.pc = "write",
         SweepKnows(q, rows, unscoped)
  PROVE  /\ Attributed(q) \in SweepRuns /\ SweepKnows(Attributed(q), rows, unscoped)
         /\ Attributed(q).pc = "write" /\ Attributed(q).batch = q.batch
         /\ Attributed(q).backfilled = q.backfilled + 1
         /\ Attributed(q).wrote = q.wrote \cup {Head(q.batch)}
         /\ Head(q.batch) \in rows
<1> DEFINE a == Attributed(q)
<1>1. q.batch \in Seq(Ids) /\ q.batch # <<>> /\ \A j \in DOMAIN q.batch : q.batch[j] \in rows
  BY SweepFields DEF SweepKnows
<1>2. Head(q.batch) \in Ids /\ Head(q.batch) \in rows
  BY <1>1, FirstAndRest
<1>3. q.backfilled + 1 \in Nat /\ q.wrote \cup {Head(q.batch)} \in SUBSET Ids
  BY <1>2, SweepFields
<1>4. a \in SweepRuns
  BY <1>3 DEF Attributed, SweepRuns
<1>5. /\ a.pc = q.pc /\ a.after = q.after /\ a.batch = q.batch /\ a.limit = q.limit
      /\ a.examined = q.examined /\ a.found = q.found /\ a.incomplete = q.incomplete
      /\ a.due = q.due /\ a.seen = q.seen
      /\ a.backfilled = q.backfilled + 1 /\ a.wrote = q.wrote \cup {Head(q.batch)}
  BY DEF Attributed, SweepRuns
<1> HIDE DEF a
<1>6. \A i : Ahead(q, i) => Ahead(a, i)
  BY <1>5 DEF Ahead
<1>7. SweepKnows(a, rows, unscoped)
  BY <1>2, <1>5, <1>6 DEF SweepKnows
<1> QED
  BY <1>2, <1>4, <1>5, <1>7 DEF a

\* A row is passed: what was before the run is passed or still before it.
LEMMA AfterRowKeeps ==
  ASSUME NEW q \in SweepRuns, NEW rows, NEW unscoped, q.pc \in {"row", "write"},
         SweepKnows(q, rows, unscoped), AuditTypeOK
  PROVE  /\ AfterRow(q) \in SweepRuns /\ SweepKnows(AfterRow(q), rows, unscoped)
         /\ AfterRow(q).wrote = q.wrote /\ AfterRow(q).backfilled = q.backfilled
<1>1. PICK b \in Seq(Ids), o \in Ids, limit \in Nat, examined \in Nat :
        b = q.batch /\ o = Head(b) /\ limit = q.limit /\ examined = q.examined
  <2>1. /\ q.batch \in Seq(Ids) /\ q.batch # <<>> /\ q.limit \in Nat /\ q.examined \in Nat
    BY SweepFields DEF SweepKnows
  <2> QED
    BY <2>1, FirstAndRest
<1>2. /\ b # <<>> /\ Len(b) <= limit /\ examined + limit <= MaxRows
      /\ \A i, j \in DOMAIN b : i < j => b[i] < b[j]
      /\ \A j \in DOMAIN b : b[j] \in rows
      /\ q.due \subseteq rows /\ q.wrote \subseteq rows
      /\ \A i \in q.due \cap unscoped : i \in q.seen \/ Ahead(q, i)
  BY <1>1 DEF SweepKnows
<1>3. PICK n \in Nat \ {0}, r \in Seq(Ids) :
        /\ n = Len(b) /\ r = Tail(b) /\ DOMAIN b = 1..n /\ o = b[1]
        /\ Len(r) = n - 1 /\ DOMAIN r = 1..(n - 1) /\ (r = <<>>) = (n = 1)
        /\ \A j \in 1..(n - 1) : r[j] = b[j + 1]
  <2>1. /\ Len(b) \in Nat \ {0} /\ DOMAIN b = 1..Len(b) /\ Head(b) = b[1]
        /\ Tail(b) \in Seq(Ids) /\ Len(Tail(b)) = Len(b) - 1
        /\ DOMAIN Tail(b) = 1..(Len(b) - 1) /\ (Tail(b) = <<>>) = (Len(b) = 1)
        /\ \A j \in 1..(Len(b) - 1) : Tail(b)[j] = b[j + 1]
    BY <1>2, FirstAndRest
  <2> QED
    BY <1>1, <2>1
<1>4. /\ \A i, j \in DOMAIN r : i < j => r[i] < r[j]
      /\ \A x : (\E i \in DOMAIN b : b[i] = x) => x = o \/ \E i \in DOMAIN r : r[i] = x
      /\ \A x \in Nat : (\A i \in DOMAIN b : x > b[i]) => x > o /\ \A i \in DOMAIN r : x > r[i]
  <2>1. Ids \in SUBSET Nat
    BY RowsTyped
  <2>2. /\ \A i, j \in DOMAIN Tail(b) : i < j => Tail(b)[i] < Tail(b)[j]
        /\ \A x : (\E i \in DOMAIN b : b[i] = x) =>
             x = Head(b) \/ \E i \in DOMAIN Tail(b) : Tail(b)[i] = x
        /\ \A x \in Nat : (\A i \in DOMAIN b : x > b[i]) =>
             x > Head(b) /\ \A i \in DOMAIN Tail(b) : x > Tail(b)[i]
    BY <1>2, <2>1, FirstPassed
  <2>3. o = Head(b) /\ r = Tail(b)
    BY <1>1, <1>3
  <2> QED
    BY <2>2, <2>3
<1>5. \A j \in DOMAIN r : r[j] \in rows
  <2> TAKE j \in DOMAIN r
  <2>1. j + 1 \in DOMAIN b /\ r[j] = b[j + 1]
    BY <1>3
  <2> QED
    BY <1>2, <2>1
<1> DEFINE a == AfterRow(q)
           pc == IF r # <<>> THEN "row" ELSE IF limit - 1 > 0 THEN "ended"
                 ELSE IF examined + 1 < MaxRows THEN "list" ELSE "last"
<1>6. limit - 1 \in Nat /\ examined + 1 \in 0..MaxRows /\ q.seen \cup {o} \in SUBSET Ids
  <2>1. limit >= 1 /\ MaxRows \in Nat
    BY <1>2, <1>3, AuditConstants
  <2> QED
    BY <1>1, <1>2, <2>1, SweepFields
<1>7. a = [q EXCEPT !.after = o, !.examined = examined + 1, !.seen = q.seen \cup {o}, !.batch = r,
                    !.limit = limit - 1, !.found = NoOrg, !.pc = pc]
  BY <1>1, <1>3 DEF AfterRow, SweepRuns
<1>8. a \in SweepRuns
  BY <1>1, <1>3, <1>6, <1>7 DEF SweepRuns
<1>9. /\ a.pc = pc /\ a.after = o /\ a.examined = examined + 1 /\ a.seen = q.seen \cup {o}
      /\ a.batch = r /\ a.limit = limit - 1 /\ a.due = q.due /\ a.wrote = q.wrote
      /\ a.backfilled = q.backfilled
  BY <1>7 DEF SweepRuns
<1> HIDE DEF a
<1>10. ASSUME NEW i \in q.due \cap unscoped PROVE i \in a.seen \/ Ahead(a, i)
  <2>1. i \in Nat
    BY SweepFields, RowsTyped
  <2>2. CASE i \in q.seen \/ i = o
    BY <1>9, <2>2
  <2>3. CASE i \notin q.seen /\ i # o
    <3>1. \/ \E j \in DOMAIN r : r[j] = i
          \/ n = limit /\ i > o /\ \A j \in DOMAIN r : i > r[j]
      BY <1>1, <1>2, <1>3, <1>4, <2>1, <2>3 DEF Ahead
    <3>2. CASE r # <<>>
      BY <1>3, <1>9, <3>1, <3>2 DEF Ahead
    <3>3. CASE r = <<>>
      <4>3. n = 1 /\ DOMAIN r = {}
        BY <1>3, <3>3
      <4>1. limit = 1 /\ i > o
        BY <3>1, <4>3
      <4>2. a.pc \in {"list", "last"}
        BY <1>9, <3>3, <4>1
      <4> QED
        BY <1>9, <4>1, <4>2 DEF Ahead
    <3> QED
      BY <3>2, <3>3
  <2> QED
    BY <2>2, <2>3
<1>11. SweepKnows(a, rows, unscoped)
  <2>1. a.pc \in {"row", "list", "last", "ended"}
    BY <1>9
  <2>2. a.pc = "list" => a.examined < MaxRows
    BY <1>9
  <2>3. a.pc = "row" => r # <<>>
    BY <1>9
  <2>4. Len(r) <= limit - 1 /\ examined + 1 + (limit - 1) <= MaxRows
    <3>1. n <= limit /\ Len(r) = n - 1 /\ MaxRows \in Nat
      BY <1>2, <1>3, AuditConstants
    <3>2. examined + limit <= MaxRows
      BY <1>2
    <3> QED
      BY <3>1, <3>2
  <2> QED
    BY <1>2, <1>4, <1>5, <1>9, <1>10, <2>1, <2>2, <2>3, <2>4 DEF SweepKnows
<1> QED
  BY <1>8, <1>9, <1>11 DEF a

\* The step of one run: the others stay, and a run that ends keeps its summary.
LEMMA TurnKeeps ==
  ASSUME AuditTypeOK, NEW s \in Sweeps, NEW next \in SweepRuns, Turn(s, next)
  PROVE  /\ sweep' \in [Sweeps -> SweepRuns]
         /\ \A q \in Sweeps : q # s => sweep'[q] = sweep[q]
         /\ sweep'[s].wrote = next.wrote /\ sweep'[s].backfilled = next.backfilled
         /\ \A rows, unscoped : SweepKnows(next, rows, unscoped) => SweepKnows(sweep'[s], rows, unscoped)
         /\ UNCHANGED <<owner, alive, writer, reader>>
<1>1. sweep' = [sweep EXCEPT ![s] = IF next.pc = "ended" THEN Summary(next) ELSE next]
      /\ UNCHANGED <<owner, alive, writer, reader>>
  BY DEF Turn
<1>2. CASE next.pc # "ended"
  BY <1>1, <1>2 DEF AuditTypeOK
<1>3. CASE next.pc = "ended"
  <2> DEFINE m == Summary(next)
  <2>1. m \in SweepRuns
    <3>1. 0 \in 0..MaxRows /\ 0 \in Nat
      BY AuditConstants
    <3> QED
      BY <3>1 DEF Summary, SweepRuns
  <2>2. /\ m.pc = "ended" /\ m.due = next.due /\ m.wrote = next.wrote /\ m.seen = next.seen
        /\ m.incomplete = next.incomplete /\ m.backfilled = next.backfilled
    BY <1>3 DEF Summary, SweepRuns
  <2>3. sweep' = [sweep EXCEPT ![s] = m]
    BY <1>1, <1>3
  <2> HIDE DEF m
  <2>4. sweep' \in [Sweeps -> SweepRuns] /\ sweep'[s] = m /\ \A q \in Sweeps : q # s => sweep'[q] = sweep[q]
    BY <2>1, <2>3 DEF AuditTypeOK
  <2>5. ASSUME NEW rows, NEW unscoped, SweepKnows(next, rows, unscoped) PROVE SweepKnows(m, rows, unscoped)
    BY <1>3, <2>2, <2>5 DEF SweepKnows, Ahead
  <2> QED
    BY <1>1, <2>2, <2>4, <2>5
<1> QED
  BY <1>2, <1>3

\* What each step of a run makes of it.
LEMMA RunStarts ==
  ASSUME AuditInv, NEW s \in Sweeps, run(s)
  PROVE  /\ UNCHANGED log /\ sweep[s] = NoSweep
         /\ \E next \in SweepRuns : /\ Turn(s, next) /\ SweepKnows(next, Rows, Unscoped)
                                    /\ next.wrote = {} /\ next.backfilled = 0
<1>1. PICK kind \in {"scan", "backfill"} :
        Turn(s, [NoSweep EXCEPT !.pc = "list", !.kind = kind, !.due = NullScoped(0)])
  BY DEF run
<1>2. sweep[s] = NoSweep /\ UNCHANGED log
  BY DEF run, AuditInv, SweepKnows
<1> DEFINE next == [NoSweep EXCEPT !.pc = "list", !.kind = kind, !.due = NullScoped(0)]
<1>3. NullScoped(0) \subseteq Rows /\ Rows \subseteq Ids /\ \A i \in NullScoped(0) : i > 0
  BY RowsTyped DEF AuditInv, NullScoped
<1>4. /\ next.pc = "list" /\ next.kind = kind /\ next.due = NullScoped(0) /\ next.after = 0
      /\ next.batch = <<>> /\ next.limit = 0 /\ next.examined = 0 /\ next.backfilled = 0
      /\ next.found = NoOrg /\ next.incomplete = FALSE /\ next.seen = {} /\ next.wrote = {}
  BY DEF NoSweep
<1>5. NoSweep \in SweepRuns
  <2>1. <<>> \in Seq(Ids) /\ 0 \in 0..MaxRows
    BY EmptySeq, AuditConstants
  <2> QED
    BY <2>1 DEF NoSweep, SweepRuns
<1>6. next \in SweepRuns
  BY <1>3, <1>5 DEF SweepRuns
<1> HIDE DEF next
<1>7. SweepKnows(next, Rows, Unscoped)
  BY <1>3, <1>4, AuditConstants DEF SweepKnows, Ahead
<1> QED
  BY <1>1, <1>2, <1>4, <1>6, <1>7 DEF next

\* A batch is the lowest rows after the cursor, so nothing due is skipped.
LEMMA RunLists ==
  ASSUME AuditInv, NEW s \in Sweeps, listNullScoped(s)
  PROVE  /\ UNCHANGED log
         /\ \E next \in SweepRuns : /\ Turn(s, next) /\ SweepKnows(next, Rows, Unscoped)
                                    /\ next.wrote = sweep[s].wrote /\ next.backfilled = sweep[s].backfilled
<1> DEFINE q == sweep[s]
           limit == Min({BatchSize, MaxRows - sweep[s].examined})
           rest == NullScoped(sweep[s].after)
<1>1. PICK batch \in Listed(rest, ById(rest), limit) :
        Turn(s, [sweep[s] EXCEPT !.pc = IF batch = <<>> THEN "ended" ELSE "row",
                                 !.batch = batch, !.limit = limit])
  BY DEF listNullScoped
<1>2. q \in SweepRuns /\ q.pc = "list" /\ SweepKnows(q, Rows, Unscoped) /\ UNCHANGED log
  BY DEF AuditInv, AuditTypeOK, listNullScoped
<1>3. limit \in Nat \ {0} /\ q.examined + limit <= MaxRows
  <2>1. q.examined \in Nat /\ MaxRows - q.examined \in Nat \ {0} /\ BatchSize \in Nat \ {0}
    BY <1>2, SweepFields, AuditConstants DEF SweepKnows
  <2> HIDE DEF limit, q
  <2>2. limit \in {BatchSize, MaxRows - q.examined} /\ limit <= MaxRows - q.examined
    BY <2>1, MinOfTwo DEF limit, q
  <2> QED
    BY <2>1, <2>2, AuditConstants
<1>4. /\ rest \subseteq Rows /\ Rows \subseteq Ids /\ Ids \subseteq Nat
      /\ \A i \in Unscoped : i > q.after => i \in rest
  BY RowsTyped DEF AuditInv, NullScoped, Unscoped
<1> HIDE DEF rest, limit
<1>5. /\ batch \in Seq(rest) /\ Len(batch) \in 0..limit /\ DOMAIN batch = 1..Len(batch)
      /\ (batch = <<>>) = (Len(batch) = 0)
      /\ \A i \in DOMAIN batch : batch[i] \in rest
      /\ \A i, j \in DOMAIN batch : i < j => batch[i] < batch[j]
      /\ \A x \in rest : \/ \E i \in DOMAIN batch : batch[i] = x
                         \/ Len(batch) = limit /\ \A i \in DOMAIN batch : batch[i] < x
  BY <1>3, ListedById
<1>6. batch \in Seq(Ids)
  BY <1>4, <1>5, SeqMonotonic
<1> DEFINE next == [sweep[s] EXCEPT !.pc = IF batch = <<>> THEN "ended" ELSE "row",
                                    !.batch = batch, !.limit = limit]
<1>7. next \in SweepRuns
  BY <1>2, <1>3, <1>6 DEF SweepRuns
<1>8. /\ next.pc = (IF batch = <<>> THEN "ended" ELSE "row") /\ next.batch = batch /\ next.limit = limit
      /\ next.examined = q.examined /\ next.due = q.due /\ next.seen = q.seen /\ next.wrote = q.wrote
      /\ next.backfilled = q.backfilled
  BY <1>2 DEF SweepRuns
<1> HIDE DEF next, q
<1>9. /\ q.due \subseteq Rows /\ q.wrote \subseteq Rows
      /\ \A i \in q.due \cap Unscoped : i \in q.seen \/ i > q.after
  BY <1>2 DEF SweepKnows, Ahead
<1>10. ASSUME NEW i \in q.due \cap Unscoped PROVE i \in q.seen \/ Ahead(next, i)
  <2>1. CASE i \in rest
    <3>1. \/ \E j \in DOMAIN batch : batch[j] = i
          \/ Len(batch) = limit /\ \A j \in DOMAIN batch : batch[j] < i
      BY <1>5, <2>1
    <3>2. \A j \in DOMAIN batch : batch[j] \in Nat
      BY <1>4, <1>5
    <3>3. batch # <<>>
      <4>1. batch = <<>> => Len(batch) = 0 /\ DOMAIN batch = {}
        BY <1>5
      <4> QED
        BY <1>3, <3>1, <4>1
    <3>4. i \in Nat
      BY <1>4, <2>1
    <3> QED
      BY <1>8, <3>1, <3>2, <3>3, <3>4 DEF Ahead
  <2> QED
    BY <1>4, <1>9, <2>1
<1>11. SweepKnows(next, Rows, Unscoped)
  <2>1. Len(batch) <= limit /\ (next.pc = "row" => batch # <<>>) /\ next.pc \in {"row", "ended"}
    BY <1>3, <1>5, <1>8
  <2>2. \A j \in DOMAIN batch : batch[j] \in Rows
    BY <1>4, <1>5
  <2> QED
    BY <1>3, <1>5, <1>8, <1>9, <1>10, <2>1, <2>2 DEF SweepKnows
<1> QED
  BY <1>1, <1>2, <1>7, <1>8, <1>11 DEF next, q

\* A row that is not attributed is passed; one that may be goes to the write.
LEMMA RunResolves ==
  ASSUME AuditInv, NEW s \in Sweeps, resolveCandidates(s)
  PROVE  /\ UNCHANGED log
         /\ \E next \in SweepRuns : /\ Turn(s, next) /\ SweepKnows(next, Rows, Unscoped)
                                    /\ next.wrote = sweep[s].wrote /\ next.backfilled = sweep[s].backfilled
<1> DEFINE t == log[Head(sweep[s].batch)].target
<1>1. /\ sweep[s] \in SweepRuns /\ sweep[s].pc = "row" /\ SweepKnows(sweep[s], Rows, Unscoped)
      /\ UNCHANGED log /\ AuditTypeOK
  BY DEF AuditInv, AuditTypeOK, resolveCandidates
<1>2. CASE Turn(s, AfterRow(sweep[s]))
  BY <1>1, <1>2, AfterRowKeeps
<1>3. ASSUME NEW o \in relationOf(t), Turn(s, [sweep[s] EXCEPT !.pc = "write", !.found = o])
      PROVE  \E next \in SweepRuns : /\ Turn(s, next) /\ SweepKnows(next, Rows, Unscoped)
                                     /\ next.wrote = sweep[s].wrote /\ next.backfilled = sweep[s].backfilled
  <2>1. Head(sweep[s].batch) \in Rows
    <3>1. /\ sweep[s].batch \in Seq(Ids) /\ sweep[s].batch # <<>>
          /\ \A j \in DOMAIN sweep[s].batch : sweep[s].batch[j] \in Rows
      BY <1>1, SweepFields DEF SweepKnows
    <3> QED
      BY <3>1, FirstAndRest
  <2>2. o \in Orgs
    BY <1>1, <1>3, <2>1, RowsTyped, ResolvedOrgs
  <2> DEFINE next == [sweep[s] EXCEPT !.pc = "write", !.found = o]
  <2>3. next \in SweepRuns
    BY <1>1, <2>2 DEF SweepRuns
  <2>4. /\ next.pc = "write" /\ next.found = o /\ next.batch = sweep[s].batch /\ next.limit = sweep[s].limit
        /\ next.examined = sweep[s].examined /\ next.due = sweep[s].due /\ next.seen = sweep[s].seen
        /\ next.wrote = sweep[s].wrote /\ next.backfilled = sweep[s].backfilled
    BY <1>1 DEF SweepRuns
  <2> HIDE DEF next
  <2>5. \A i : Ahead(sweep[s], i) => Ahead(next, i)
    BY <1>1, <2>4 DEF Ahead
  <2>6. SweepKnows(next, Rows, Unscoped)
    BY <1>1, <2>2, <2>4, <2>5 DEF SweepKnows
  <2> QED
    BY <1>3, <2>3, <2>4, <2>6 DEF next
<1> QED
  BY <1>1, <1>2, <1>3 DEF resolveCandidates

\* The last read of a capped run calls it incomplete if anything is left.
LEMMA RunReadsOn ==
  ASSUME AuditInv, NEW s \in Sweeps, lastRead(s)
  PROVE  /\ UNCHANGED log
         /\ \E next \in SweepRuns : /\ Turn(s, next) /\ SweepKnows(next, Rows, Unscoped)
                                    /\ next.wrote = sweep[s].wrote /\ next.backfilled = sweep[s].backfilled
<1> DEFINE more == NullScoped(sweep[s].after) # {}
           next == [sweep[s] EXCEPT !.pc = "ended", !.incomplete = more]
<1>1. /\ sweep[s] \in SweepRuns /\ sweep[s].pc = "last" /\ SweepKnows(sweep[s], Rows, Unscoped)
      /\ UNCHANGED log /\ Turn(s, next)
  BY DEF AuditInv, AuditTypeOK, lastRead
<1>2. more \in BOOLEAN
  OBVIOUS
<1>3. ASSUME ~more, NEW i \in Unscoped PROVE ~(i > sweep[s].after)
  BY <1>3 DEF NullScoped, Unscoped
<1> HIDE DEF more
<1>4. next \in SweepRuns
  BY <1>1, <1>2 DEF SweepRuns
<1>5. /\ next.pc = "ended" /\ next.incomplete = more /\ next.due = sweep[s].due /\ next.seen = sweep[s].seen
      /\ next.wrote = sweep[s].wrote /\ next.backfilled = sweep[s].backfilled
  BY <1>1 DEF SweepRuns
<1> HIDE DEF next
<1>6. /\ sweep[s].due \subseteq Rows /\ sweep[s].wrote \subseteq Rows
      /\ \A i \in sweep[s].due \cap Unscoped : i \in sweep[s].seen \/ i > sweep[s].after
  BY <1>1 DEF SweepKnows, Ahead
<1>7. SweepKnows(next, Rows, Unscoped)
  BY <1>3, <1>5, <1>6 DEF SweepKnows
<1> QED
  BY <1>1, <1>4, <1>5, <1>7

\* The guarded write attributes a row that has no organisation, or passes it.
LEMMA RunWrites ==
  ASSUME AuditInv, NEW s \in Sweeps, guardedWrite(s)
  PROVE  LET i == Head(sweep[s].batch) IN
         /\ i \in Rows /\ sweep[s].found \in Orgs
         /\ \/ /\ UNCHANGED log
               /\ \E next \in SweepRuns :
                    /\ Turn(s, next) /\ SweepKnows(next, Rows, Unscoped)
                    /\ next.wrote = sweep[s].wrote /\ next.backfilled = sweep[s].backfilled
            \/ /\ log[i].org = NoOrg /\ log' = [log EXCEPT ![i].org = sweep[s].found]
               /\ \E next \in SweepRuns :
                    /\ Turn(s, next) /\ SweepKnows(next, Rows, Unscoped)
                    /\ next.wrote = sweep[s].wrote \cup {i} /\ next.backfilled = sweep[s].backfilled + 1
<1>1. /\ sweep[s] \in SweepRuns /\ sweep[s].pc = "write" /\ SweepKnows(sweep[s], Rows, Unscoped)
      /\ AuditTypeOK
  BY DEF AuditInv, AuditTypeOK, guardedWrite
<1> DEFINE i == Head(sweep[s].batch)
           a == Attributed(sweep[s])
<1>2. /\ a \in SweepRuns /\ SweepKnows(a, Rows, Unscoped) /\ a.pc = "write"
      /\ a.backfilled = sweep[s].backfilled + 1 /\ a.wrote = sweep[s].wrote \cup {i} /\ i \in Rows
  BY <1>1, AttributedKeeps
<1>3. sweep[s].found \in Orgs
  BY <1>1 DEF SweepKnows
<1>4. CASE log[i].org = NoOrg
  <2>1. log' = [log EXCEPT ![i].org = sweep[s].found] /\ Turn(s, AfterRow(a))
    BY <1>4 DEF guardedWrite
  <2> HIDE DEF a
  <2>2. /\ AfterRow(a) \in SweepRuns /\ SweepKnows(AfterRow(a), Rows, Unscoped)
        /\ AfterRow(a).wrote = a.wrote /\ AfterRow(a).backfilled = a.backfilled
    BY <1>1, <1>2, AfterRowKeeps
  <2> QED
    BY <1>2, <1>3, <1>4, <2>1, <2>2
<1>5. CASE log[i].org # NoOrg
  <2>1. UNCHANGED log /\ Turn(s, AfterRow(sweep[s]))
    BY <1>5 DEF guardedWrite
  <2> HIDE DEF a
  <2>2. /\ AfterRow(sweep[s]) \in SweepRuns /\ SweepKnows(AfterRow(sweep[s]), Rows, Unscoped)
        /\ AfterRow(sweep[s]).wrote = sweep[s].wrote
        /\ AfterRow(sweep[s]).backfilled = sweep[s].backfilled
    BY <1>1, AfterRowKeeps
  <2> QED
    BY <1>2, <1>3, <2>1, <2>2
<1> QED
  BY <1>4, <1>5

-----------------------------------------------------------------------------
(* AuditLog: what every step does to the log.                                 *)

\* A step leaves the log, adds a row, or gives a row the organisation it lacks.
LEMMA LogSteps ==
  ASSUME AuditInv, AuditNext
  PROVE  \/ UNCHANGED log
         \/ \E w \in Writers, removal \in BOOLEAN :
              /\ Insert(writer[w].target, writer[w].org, removal)
              /\ writer[w].target \in Targets /\ writer[w].org \in Orgs \cup {NoOrg}
         \/ \E i \in Rows, o \in Orgs : log[i].org = NoOrg /\ log' = [log EXCEPT ![i].org = o]
<1>1. ASSUME NEW w \in Writers, logAction(w) \/ remove(w)
      PROVE  \/ UNCHANGED log
             \/ \E removal \in BOOLEAN :
                  /\ Insert(writer[w].target, writer[w].org, removal)
                  /\ writer[w].target \in Targets /\ writer[w].org \in Orgs \cup {NoOrg}
  <2>1. writer[w] \in Writes /\ writer[w].pc # "idle"
    BY <1>1 DEF AuditInv, AuditTypeOK, logAction, remove
  <2>2. writer[w].target \in Targets /\ writer[w].org \in Orgs \cup {NoOrg}
    BY <2>1 DEF AuditInv, LogKnows, Writes
  <2>3. UNCHANGED log \/ Insert(writer[w].target, writer[w].org, FALSE)
        \/ Insert(writer[w].target, writer[w].org, TRUE)
    BY <1>1 DEF logAction, remove
  <2> QED
    BY <2>2, <2>3
<1>2. ASSUME NEW s \in Sweeps, guardedWrite(s)
      PROVE  \/ UNCHANGED log
             \/ \E i \in Rows, o \in Orgs : log[i].org = NoOrg /\ log' = [log EXCEPT ![i].org = o]
  BY <1>2, RunWrites
<1>3. ASSUME NEW s \in Sweeps, run(s) \/ listNullScoped(s) \/ resolveCandidates(s) \/ lastRead(s)
      PROVE  UNCHANGED log
  BY <1>3 DEF run, listNullScoped, resolveCandidates, lastRead
<1>4. ASSUME NEW w \in Writers, resolveOrgId(w) \/ findInOrg(w) PROVE UNCHANGED log
  BY <1>4 DEF resolveOrgId, findInOrg
<1>5. ASSUME NEW r \in Readers, recentForOrg(r) PROVE UNCHANGED log
  BY <1>5 DEF recentForOrg
<1> QED
  BY <1>1, <1>2, <1>3, <1>4, <1>5 DEF AuditNext

\* So rows stay, with all but a missing organisation.
LEMMA LogGrows ==
  ASSUME AuditInv, AuditNext
  PROVE  /\ log' \in [Ids -> LogRows \cup {NoRow}]
         /\ Rows \subseteq Rows' /\ Unscoped' \cap Rows \subseteq Unscoped
         /\ \A i \in Rows : /\ log'[i].at = log[i].at
                            /\ log[i].org # NoOrg => log'[i].org = log[i].org
         /\ \A i \in Rows' : log'[i].live => log'[i].org # NoOrg
<1>1. AuditTypeOK /\ \A i \in Rows : log[i].live => log[i].org # NoOrg
  BY DEF AuditInv, LogKnows
<1>2. CASE UNCHANGED log
  <2>1. Rows' = Rows /\ Unscoped' = Unscoped
    BY <1>2 DEF Rows, Unscoped
  <2> QED
    BY <1>1, <1>2, <2>1 DEF AuditTypeOK
<1>3. ASSUME NEW t \in Targets, NEW o \in Orgs \cup {NoOrg}, NEW removal \in BOOLEAN, Insert(t, o, removal)
      PROVE  /\ log' \in [Ids -> LogRows \cup {NoRow}]
             /\ Rows \subseteq Rows' /\ Unscoped' \cap Rows \subseteq Unscoped
             /\ \A i \in Rows : /\ log'[i].at = log[i].at
                                /\ log[i].org # NoOrg => log'[i].org = log[i].org
             /\ \A i \in Rows' : log'[i].live => log'[i].org # NoOrg
  BY <1>1, <1>3, InsertKeeps DEF Unscoped
<1>4. ASSUME NEW i \in Rows, NEW o \in Orgs, log[i].org = NoOrg, log' = [log EXCEPT ![i].org = o]
      PROVE  /\ log' \in [Ids -> LogRows \cup {NoRow}]
             /\ Rows \subseteq Rows' /\ Unscoped' \cap Rows \subseteq Unscoped
             /\ \A j \in Rows : /\ log'[j].at = log[j].at
                                /\ log[j].org # NoOrg => log'[j].org = log[j].org
             /\ \A j \in Rows' : log'[j].live => log'[j].org # NoOrg
  <2>1. /\ log' \in [Ids -> LogRows \cup {NoRow}]
        /\ Rows' = Rows /\ log'[i].org = o /\ log'[i].at = log[i].at
        /\ \A j \in Rows : j # i => log'[j] = log[j]
    BY <1>1, <1>4, WriteKeeps
  <2>2. o # NoOrg
    BY AuditConstants
  <2>3. Unscoped' \cap Rows \subseteq Unscoped
    BY <1>4, <2>1, <2>2 DEF Unscoped
  <2>4. \A j \in Rows : log'[j].at = log[j].at /\ (log[j].org # NoOrg => log'[j].org = log[j].org)
    BY <1>4, <2>1
  <2>5. \A j \in Rows : log'[j].live => log'[j].org # NoOrg
    BY <1>1, <2>1, <2>2
  <2> QED
    BY <2>1, <2>3, <2>4, <2>5
<1> QED
  BY <1>2, <1>3, <1>4, LogSteps

\* Rows come in by an insert; a run leaves the log, or attributes one row to
\* itself that had no organisation.
LEMMA SweepMoves ==
  ASSUME AuditInv, AuditNext
  PROVE  \/ /\ UNCHANGED sweep
            /\ \/ UNCHANGED log
               \/ \E t \in Targets, o \in Orgs \cup {NoOrg}, removal \in BOOLEAN : Insert(t, o, removal)
         \/ \E s \in Sweeps, next \in SweepRuns :
              /\ Turn(s, next) /\ SweepKnows(next, Rows, Unscoped) /\ UNCHANGED log
              /\ next.wrote = sweep[s].wrote /\ next.backfilled = sweep[s].backfilled
         \/ \E s \in Sweeps, next \in SweepRuns, i \in Rows, o \in Orgs :
              /\ Turn(s, next) /\ SweepKnows(next, Rows, Unscoped)
              /\ log[i].org = NoOrg /\ log' = [log EXCEPT ![i].org = o]
              /\ next.wrote = sweep[s].wrote \cup {i} /\ next.backfilled = sweep[s].backfilled + 1
<1>1. ASSUME NEW w \in Writers, resolveOrgId(w) \/ logAction(w) \/ findInOrg(w) \/ remove(w)
      PROVE  /\ UNCHANGED sweep
             /\ \/ UNCHANGED log
                \/ \E t \in Targets, o \in Orgs \cup {NoOrg}, removal \in BOOLEAN : Insert(t, o, removal)
  <2>1. UNCHANGED sweep
    BY <1>1 DEF resolveOrgId, logAction, findInOrg, remove
  <2>2. CASE resolveOrgId(w) \/ findInOrg(w)
    BY <2>1, <2>2 DEF resolveOrgId, findInOrg
  <2>3. CASE logAction(w) \/ remove(w)
    <3>1. writer[w] \in Writes /\ writer[w].pc # "idle"
      BY <2>3 DEF AuditInv, AuditTypeOK, logAction, remove
    <3>2. writer[w].target \in Targets /\ writer[w].org \in Orgs \cup {NoOrg}
      BY <3>1 DEF AuditInv, LogKnows, Writes
    <3>3. UNCHANGED log \/ Insert(writer[w].target, writer[w].org, FALSE)
          \/ Insert(writer[w].target, writer[w].org, TRUE)
      BY <2>3 DEF logAction, remove
    <3> QED
      BY <2>1, <3>2, <3>3
  <2> QED
    BY <1>1, <2>2, <2>3
<1>2. ASSUME NEW s \in Sweeps, run(s) \/ listNullScoped(s) \/ resolveCandidates(s) \/ lastRead(s)
      PROVE  \E next \in SweepRuns :
              /\ Turn(s, next) /\ SweepKnows(next, Rows, Unscoped) /\ UNCHANGED log
              /\ next.wrote = sweep[s].wrote /\ next.backfilled = sweep[s].backfilled
  <2>1. CASE run(s)
    <3>1. NoSweep.wrote = {} /\ NoSweep.backfilled = 0
      BY DEF NoSweep
    <3> QED
      BY <2>1, <3>1, RunStarts
  <2> QED
    BY <1>2, <2>1, RunLists, RunResolves, RunReadsOn
<1>3. ASSUME NEW s \in Sweeps, guardedWrite(s)
      PROVE  \/ \E next \in SweepRuns :
                  /\ Turn(s, next) /\ SweepKnows(next, Rows, Unscoped) /\ UNCHANGED log
                  /\ next.wrote = sweep[s].wrote /\ next.backfilled = sweep[s].backfilled
             \/ \E next \in SweepRuns, i \in Rows, o \in Orgs :
                  /\ Turn(s, next) /\ SweepKnows(next, Rows, Unscoped)
                  /\ log[i].org = NoOrg /\ log' = [log EXCEPT ![i].org = o]
                  /\ next.wrote = sweep[s].wrote \cup {i} /\ next.backfilled = sweep[s].backfilled + 1
  BY <1>3, RunWrites
<1>4. ASSUME NEW r \in Readers, recentForOrg(r) PROVE UNCHANGED <<sweep, log>>
  BY <1>4 DEF recentForOrg
<1> QED
  BY <1>1, <1>2, <1>3, <1>4 DEF AuditNext

\* Every step keeps what each run knows.
LEMMA SweepStep ==
  ASSUME AuditInv, AuditNext
  PROVE  /\ sweep' \in [Sweeps -> SweepRuns]
         /\ \A s \in Sweeps : SweepKnows(sweep'[s], Rows', Unscoped')
<1>1. AuditTypeOK /\ \A s \in Sweeps : SweepKnows(sweep[s], Rows, Unscoped)
  BY DEF AuditInv
<1>2. \A s \in Sweeps : SweepKnows(sweep[s], Rows', Unscoped')
  BY <1>1, LogGrows, SweepKept
<1>3. CASE UNCHANGED sweep
  BY <1>1, <1>2, <1>3 DEF AuditTypeOK
<1>4. ASSUME NEW s \in Sweeps, NEW next \in SweepRuns, Turn(s, next), SweepKnows(next, Rows, Unscoped)
      PROVE  /\ sweep' \in [Sweeps -> SweepRuns]
             /\ \A q \in Sweeps : SweepKnows(sweep'[q], Rows', Unscoped')
  <2>1. SweepKnows(next, Rows', Unscoped')
    BY <1>4, LogGrows, SweepKept
  <2>2. /\ sweep' \in [Sweeps -> SweepRuns]
        /\ \A q \in Sweeps : q # s => sweep'[q] = sweep[q]
        /\ SweepKnows(sweep'[s], Rows', Unscoped')
    BY <1>1, <1>4, <2>1, TurnKeeps
  <2>3. \A q \in Sweeps : SweepKnows(sweep'[q], Rows', Unscoped')
    <3> TAKE q \in Sweeps
    <3>1. CASE q = s
      BY <2>2, <3>1
    <3>2. CASE q # s
      BY <1>2, <2>2, <3>2
    <3> QED
      BY <3>1, <3>2
  <2> QED
    BY <2>2, <2>3
<1> QED
  BY <1>3, <1>4, SweepMoves

\* The rows that were attributed later, and what runs claim to have written.
LEMMA BackfilledStep ==
  ASSUME AuditInv, AuditNext
  PROVE  BackfilledOnce'
<1>1. AuditTypeOK /\ \A i \in Rows : log[i].live => log[i].org # NoOrg
  BY DEF AuditInv, LogKnows
<1>2. /\ \A s \in Sweeps : sweep[s].backfilled = Cardinality(sweep[s].wrote)
      /\ \A s, q \in Sweeps : s # q => sweep[s].wrote \cap sweep[q].wrote = {}
      /\ \A s \in Sweeps : sweep[s].wrote \subseteq Later
      /\ \A i \in Later : \E s \in Sweeps : i \in sweep[s].wrote
  BY DEF AuditInv, BackfilledOnce, Later
<1>3. \A s \in Sweeps : IsFiniteSet(sweep[s].wrote)
  <2>1. IsFiniteSet(Ids)
    BY AuditConstants, FS_Interval DEF Ids
  <2>2. \A s \in Sweeps : sweep[s].wrote \in SUBSET Ids
    BY <1>1, SweepFields DEF AuditTypeOK
  <2> QED
    BY <2>1, <2>2, FS_Subset
<1>5. ASSUME UNCHANGED <<sweep, log>> PROVE Later' = Later
  BY <1>5 DEF Later, Rows
<1>6. ASSUME NEW t \in Targets, NEW o \in Orgs \cup {NoOrg}, NEW removal \in BOOLEAN,
             Insert(t, o, removal), UNCHANGED sweep
      PROVE  Later' = Later
  BY <1>1, <1>6, InsertKeeps DEF Later
<1>7. ASSUME NEW s \in Sweeps, NEW next \in SweepRuns, Turn(s, next), UNCHANGED log,
             next.wrote = sweep[s].wrote, next.backfilled = sweep[s].backfilled
      PROVE  /\ Later' = Later
             /\ \A q \in Sweeps : /\ sweep'[q].wrote = sweep[q].wrote
                                  /\ sweep'[q].backfilled = sweep[q].backfilled
  <2>1. Later' = Later
    BY <1>7 DEF Later, Rows
  <2>2. /\ sweep'[s].wrote = sweep[s].wrote /\ sweep'[s].backfilled = sweep[s].backfilled
        /\ \A q \in Sweeps : q # s => sweep'[q] = sweep[q]
    BY <1>1, <1>7, TurnKeeps
  <2> QED
    BY <2>1, <2>2
<1>8. ASSUME NEW s \in Sweeps, NEW next \in SweepRuns, NEW i \in Rows, NEW o \in Orgs, Turn(s, next),
             log[i].org = NoOrg, log' = [log EXCEPT ![i].org = o],
             next.wrote = sweep[s].wrote \cup {i}, next.backfilled = sweep[s].backfilled + 1
      PROVE  /\ \A q \in Sweeps : sweep'[q].backfilled = Cardinality(sweep'[q].wrote)
             /\ \A q, z \in Sweeps : q # z => sweep'[q].wrote \cap sweep'[z].wrote = {}
             /\ \A q \in Sweeps : sweep'[q].wrote \subseteq Later'
             /\ \A x \in Later' : \E q \in Sweeps : x \in sweep'[q].wrote
  <2>1. /\ sweep'[s].wrote = sweep[s].wrote \cup {i} /\ sweep'[s].backfilled = sweep[s].backfilled + 1
        /\ \A q \in Sweeps : q # s => sweep'[q] = sweep[q]
    BY <1>1, <1>8, TurnKeeps
  <2>2. /\ Rows' = Rows /\ log'[i].org = o /\ log'[i].live = log[i].live
        /\ \A j \in Rows : j # i => log'[j] = log[j]
    BY <1>1, <1>8, WriteKeeps
  <2>3. ~log[i].live /\ o # NoOrg /\ i \notin Later
    BY <1>1, <1>8, AuditConstants DEF Later
  <2>4. Later' = Later \cup {i}
    BY <1>8, <2>2, <2>3 DEF Later
  <2>5. \A q \in Sweeps : i \notin sweep[q].wrote
    BY <1>2, <2>3
  <2>6. Cardinality(sweep'[s].wrote) = sweep'[s].backfilled
    <3>1. Cardinality(sweep[s].wrote \cup {i}) = Cardinality(sweep[s].wrote) + 1
      BY <1>3, <2>5, FS_AddElement
    <3> QED
      BY <1>2, <2>1, <3>1
  <2>7. \A q \in Sweeps : sweep'[q].backfilled = Cardinality(sweep'[q].wrote)
    BY <1>2, <2>1, <2>6
  <2>8. \A q, z \in Sweeps : q # z => sweep'[q].wrote \cap sweep'[z].wrote = {}
    BY <1>2, <2>1, <2>5
  <2>9. \A q \in Sweeps : sweep'[q].wrote \subseteq Later'
    BY <1>2, <2>1, <2>4
  <2>10. \A x \in Later' : \E q \in Sweeps : x \in sweep'[q].wrote
    <3> TAKE x \in Later'
    <3>1. CASE x = i
      BY <2>1, <3>1
    <3>2. CASE x # i
      <4>1. PICK q \in Sweeps : x \in sweep[q].wrote
        BY <1>2, <2>4, <3>2
      <4> QED
        BY <2>1, <4>1
    <3> QED
      BY <3>1, <3>2
  <2> QED
    BY <2>7, <2>8, <2>9, <2>10
<1>9. /\ \A q \in Sweeps : sweep'[q].backfilled = Cardinality(sweep'[q].wrote)
      /\ \A q, z \in Sweeps : q # z => sweep'[q].wrote \cap sweep'[z].wrote = {}
      /\ \A q \in Sweeps : sweep'[q].wrote \subseteq Later'
      /\ \A x \in Later' : \E q \in Sweeps : x \in sweep'[q].wrote
  BY <1>2, <1>5, <1>6, <1>7, <1>8, SweepMoves
<1> QED
  BY <1>9 DEF BackfilledOnce, Later

-----------------------------------------------------------------------------
(* AuditLog: writers and removals.                                            *)

\* Every step keeps the types of owners, targets and writers.
LEMMA WriterTypeStep ==
  ASSUME AuditInv, AuditNext
  PROVE  /\ owner' \in [Targets -> Orgs] /\ alive' \subseteq Targets
         /\ writer' \in [Writers -> Writes]
         /\ \A w \in Writers : writer'[w].pc # "idle" => writer'[w].target \in Targets
<1>1. AuditTypeOK /\ \A w \in Writers : writer[w].pc # "idle" => writer[w].target \in Targets
  BY DEF AuditInv, LogKnows
<1>2. NoWrite \in Writes /\ NoWrite.pc = "idle"
  BY DEF NoWrite, Writes
<1>3. ASSUME NEW w \in Writers, NEW pc \in {"create", "remove"}, NEW t \in Targets, NEW o \in resolve(t),
             writer' = [writer EXCEPT ![w] = [pc |-> pc, target |-> t, org |-> o]],
             UNCHANGED <<owner, alive>>
      PROVE  /\ owner' \in [Targets -> Orgs] /\ alive' \subseteq Targets
             /\ writer' \in [Writers -> Writes]
             /\ \A v \in Writers : writer'[v].pc # "idle" => writer'[v].target \in Targets
  <2>1. o \in Orgs \cup {NoOrg}
    BY <1>1, ResolvedOrgs
  <2>2. [pc |-> pc, target |-> t, org |-> o] \in Writes
    BY <2>1 DEF Writes
  <2> QED
    BY <1>1, <1>3, <2>2 DEF AuditTypeOK
<1>4. ASSUME NEW w \in Writers, logAction(w) \/ remove(w)
      PROVE  /\ owner' \in [Targets -> Orgs] /\ alive' \subseteq Targets
             /\ writer' \in [Writers -> Writes]
             /\ \A v \in Writers : writer'[v].pc # "idle" => writer'[v].target \in Targets
  <2>1. writer' = [writer EXCEPT ![w] = NoWrite] /\ UNCHANGED owner /\ alive' \subseteq alive
    BY <1>4 DEF logAction, remove
  <2> QED
    BY <1>1, <1>2, <2>1 DEF AuditTypeOK
<1>5. ASSUME NEW w \in Writers, resolveOrgId(w) \/ findInOrg(w)
      PROVE  /\ owner' \in [Targets -> Orgs] /\ alive' \subseteq Targets
             /\ writer' \in [Writers -> Writes]
             /\ \A v \in Writers : writer'[v].pc # "idle" => writer'[v].target \in Targets
  <2>1. CASE resolveOrgId(w)
    <3>0. PICK t \in Targets : \E o \in resolve(t) :
            writer' = [writer EXCEPT ![w] = [pc |-> "create", target |-> t, org |-> o]]
      BY <2>1 DEF resolveOrgId
    <3>1. PICK o \in resolve(t) :
            writer' = [writer EXCEPT ![w] = [pc |-> "create", target |-> t, org |-> o]]
      BY <3>0
    <3> QED
      BY <1>3, <2>1, <3>1 DEF resolveOrgId
  <2>2. CASE findInOrg(w)
    <3>0. PICK t \in alive \ NoLookup : \E o \in resolve(t) :
            writer' = [writer EXCEPT ![w] = [pc |-> "remove", target |-> t, org |-> o]]
      BY <2>2 DEF findInOrg
    <3>1. PICK o \in resolve(t) :
            writer' = [writer EXCEPT ![w] = [pc |-> "remove", target |-> t, org |-> o]]
      BY <3>0
    <3>2. t \in Targets
      BY <1>1 DEF AuditTypeOK
    <3> QED
      BY <1>3, <2>2, <3>1, <3>2 DEF findInOrg
  <2> QED
    BY <1>5, <2>1, <2>2
<1>6. ASSUME NEW s \in Sweeps,
             run(s) \/ listNullScoped(s) \/ resolveCandidates(s) \/ guardedWrite(s) \/ lastRead(s)
      PROVE  UNCHANGED <<owner, alive, writer>>
  BY <1>6 DEF run, listNullScoped, resolveCandidates, guardedWrite, lastRead, Turn
<1>7. ASSUME NEW r \in Readers, recentForOrg(r) PROVE UNCHANGED <<owner, alive, writer>>
  BY <1>7 DEF recentForOrg
<1>8. CASE UNCHANGED <<owner, alive, writer>>
  BY <1>1, <1>8 DEF AuditTypeOK
<1> QED
  BY <1>4, <1>5, <1>6, <1>7, <1>8 DEF AuditNext

\* Every step keeps one removal row for each target that is gone.
LEMMA RemovalStep ==
  ASSUME AuditInv, AuditNext
  PROVE  /\ \A i \in Rows' : log'[i].removal => log'[i].target \notin alive'
         /\ \A t \in Targets \ alive' : \E i \in Rows' :
              /\ log'[i].removal /\ log'[i].target = t
              /\ \A j \in Rows' : log'[j].removal /\ log'[j].target = t => j = i
<1>1. /\ AuditTypeOK
      /\ \A i \in Rows : log[i].removal => log[i].target \notin alive
      /\ \A t \in Targets \ alive : \E i \in Rows :
           /\ log[i].removal /\ log[i].target = t
           /\ \A j \in Rows : log[j].removal /\ log[j].target = t => j = i
  BY DEF AuditInv, LogKnows
\* An ordinary row, or an attribution: removals are as they were.
<1>2. ASSUME UNCHANGED alive, \A i \in Rows : i \in Rows' /\ log'[i].removal = log[i].removal
                                             /\ log'[i].target = log[i].target,
             \A i \in Rows' \ Rows : ~log'[i].removal
      PROVE  /\ \A i \in Rows' : log'[i].removal => log'[i].target \notin alive'
             /\ \A t \in Targets \ alive' : \E i \in Rows' :
                  /\ log'[i].removal /\ log'[i].target = t
                  /\ \A j \in Rows' : log'[j].removal /\ log'[j].target = t => j = i
  <2>1. \A i \in Rows' : log'[i].removal => i \in Rows /\ log[i].removal /\ log[i].target = log'[i].target
    BY <1>2
  <2>2. ASSUME NEW t \in Targets \ alive
        PROVE  \E i \in Rows' : /\ log'[i].removal /\ log'[i].target = t
                                /\ \A j \in Rows' : log'[j].removal /\ log'[j].target = t => j = i
    <3>1. PICK i \in Rows : /\ log[i].removal /\ log[i].target = t
                            /\ \A j \in Rows : log[j].removal /\ log[j].target = t => j = i
      BY <1>1
    <3> QED
      BY <1>2, <2>1, <3>1
  <2> QED
    BY <1>1, <1>2, <2>1, <2>2
<1>3. ASSUME NEW w \in Writers, remove(w), writer[w].target \in alive
      PROVE  /\ \A i \in Rows' : log'[i].removal => log'[i].target \notin alive'
             /\ \A t \in Targets \ alive' : \E i \in Rows' :
                  /\ log'[i].removal /\ log'[i].target = t
                  /\ \A j \in Rows' : log'[j].removal /\ log'[j].target = t => j = i
  <2>1. PICK t \in Targets : t = writer[w].target
    BY <1>1, <1>3 DEF AuditTypeOK
  <2>2. writer[w].org \in Orgs \cup {NoOrg}
    BY <1>1 DEF AuditTypeOK, Writes
  <2>3. alive' = alive \ {t} /\ t \in alive /\ Insert(t, writer[w].org, TRUE)
    BY <1>3, <2>1 DEF remove
  <2>4. PICK n \in Ids \ Rows :
          /\ Rows' = Rows \cup {n} /\ \A j \in Rows : log'[j] = log[j]
          /\ log'[n].target = t /\ log'[n].removal = TRUE
    <3>1. PICK o \in Orgs \cup {NoOrg} : Insert(t, o, TRUE)
      BY <2>2, <2>3
    <3> QED
      BY <1>1, <3>1, InsertKeeps, ZenonT(30)
  <2>5. \A i \in Rows : log[i].removal => log[i].target # t
    BY <1>1, <2>3
  <2>6. \A i \in Rows' : log'[i].removal => log'[i].target \notin alive'
    BY <1>1, <2>3, <2>4
  <2>7. ASSUME NEW u \in Targets \ alive'
        PROVE  \E i \in Rows' : /\ log'[i].removal /\ log'[i].target = u
                                /\ \A j \in Rows' : log'[j].removal /\ log'[j].target = u => j = i
    <3>1. CASE u = t
      BY <2>4, <2>5, <3>1
    <3>2. CASE u # t
      <4>1. PICK i \in Rows : /\ log[i].removal /\ log[i].target = u
                              /\ \A j \in Rows : log[j].removal /\ log[j].target = u => j = i
        BY <1>1, <2>3, <3>2
      <4> QED
        BY <2>4, <3>2, <4>1
    <3> QED
      BY <3>1, <3>2
  <2> QED
    BY <2>6, <2>7
<1>4. ASSUME UNCHANGED <<alive, log>>
      PROVE  /\ UNCHANGED alive /\ Rows' = Rows
             /\ \A i \in Rows : log'[i].removal = log[i].removal /\ log'[i].target = log[i].target
  BY <1>4 DEF Rows
<1>5. ASSUME NEW w \in Writers, logAction(w)
      PROVE  /\ UNCHANGED alive
             /\ \A i \in Rows : /\ i \in Rows' /\ log'[i].removal = log[i].removal
                                /\ log'[i].target = log[i].target
             /\ \A i \in Rows' \ Rows : ~log'[i].removal
  <2>1. /\ writer[w].target \in Targets /\ writer[w].org \in Orgs \cup {NoOrg}
        /\ Insert(writer[w].target, writer[w].org, FALSE)
    BY <1>1, <1>5 DEF logAction, AuditInv, LogKnows, AuditTypeOK, Writes
  <2>2. PICK n \in Ids \ Rows :
          /\ Rows' = Rows \cup {n} /\ \A j \in Rows : log'[j] = log[j]
          /\ log'[n].removal = FALSE
    <3>1. PICK t \in Targets, o \in Orgs \cup {NoOrg}, no \in BOOLEAN : no = FALSE /\ Insert(t, o, no)
      BY <2>1
    <3> QED
      BY <1>1, <3>1, InsertKeeps
  <2> QED
    BY <1>5, <2>2 DEF logAction
<1>6. ASSUME NEW s \in Sweeps, guardedWrite(s)
      PROVE  /\ UNCHANGED alive /\ Rows' = Rows
             /\ \A i \in Rows : log'[i].removal = log[i].removal /\ log'[i].target = log[i].target
  <2>1. UNCHANGED alive
    BY <1>6 DEF guardedWrite, Turn
  <2>2. CASE UNCHANGED log
    BY <1>4, <2>1, <2>2
  <2>3. ASSUME NEW i \in Rows, NEW o \in Orgs, log' = [log EXCEPT ![i].org = o]
        PROVE  /\ Rows' = Rows
               /\ \A j \in Rows : log'[j].removal = log[j].removal /\ log'[j].target = log[j].target
    <3>1. /\ Rows' = Rows /\ log'[i].target = log[i].target /\ log'[i].removal = log[i].removal
          /\ \A j \in Rows : j # i => log'[j] = log[j]
      BY <1>1, <2>3, WriteKeeps
    <3> QED
      BY <3>1
  <2> QED
    BY <1>6, <2>1, <2>2, <2>3, RunWrites
<1>7. ASSUME NEW w \in Writers,
             resolveOrgId(w) \/ findInOrg(w) \/ (remove(w) /\ writer[w].target \notin alive)
      PROVE  UNCHANGED <<alive, log>>
  BY <1>7 DEF resolveOrgId, findInOrg, remove
<1>8. ASSUME NEW s \in Sweeps, run(s) \/ listNullScoped(s) \/ resolveCandidates(s) \/ lastRead(s)
      PROVE  UNCHANGED <<alive, log>>
  BY <1>8 DEF run, listNullScoped, resolveCandidates, lastRead, Turn
<1>9. ASSUME NEW r \in Readers, recentForOrg(r) PROVE UNCHANGED <<alive, log>>
  BY <1>9 DEF recentForOrg
<1>10. CASE UNCHANGED <<alive, log>>
  BY <1>2, <1>4, <1>10
<1>11. CASE \E s \in Sweeps : guardedWrite(s)
  BY <1>2, <1>6, <1>11
<1>12. CASE \E w \in Writers : logAction(w)
  BY <1>2, <1>5, <1>12
<1> QED
  BY <1>3, <1>7, <1>8, <1>9, <1>10, <1>11, <1>12 DEF AuditNext

-----------------------------------------------------------------------------
(* AuditLog: pages.                                                           *)

\* A page with other rows, added to what a reader has.
LEMMA PageAdded ==
  ASSUME NEW S, NEW got \in Seq(S), NEW page \in Seq(S), IsInjective(got), IsInjective(page),
         ToSet(got) \cap ToSet(page) = {}
  PROVE  /\ got \o page \in Seq(S) /\ IsInjective(got \o page)
         /\ ToSet(got \o page) = ToSet(got) \cup ToSet(page)
<1> DEFINE n == Len(got)
           m == Len(page)
           both == got \o page
<1>1. n \in Nat /\ DOMAIN got = 1..n /\ m \in Nat /\ DOMAIN page = 1..m
  BY LenProperties
<1>2. /\ both \in Seq(S) /\ Len(both) = n + m
      /\ \A i \in 1..n + m : both[i] = IF i <= n THEN got[i] ELSE page[i - n]
  BY ConcatProperties
<1>3. DOMAIN both = 1..n + m
  BY <1>2, LenProperties
<1> HIDE DEF n, m, both
<1>4. \A i \in 1..n : i \in DOMAIN both /\ both[i] = got[i]
  BY <1>1, <1>2, <1>3
<1>5. \A i \in 1..m : i + n \in DOMAIN both /\ both[i + n] = page[i]
  <2> TAKE i \in 1..m
  <2>1. i + n \in 1..n + m /\ ~(i + n <= n) /\ (i + n) - n = i
    BY <1>1
  <2> QED
    BY <1>2, <1>3, <2>1
<1>6. \A i \in DOMAIN both : \/ i \in 1..n /\ both[i] = got[i]
                             \/ i - n \in 1..m /\ both[i] = page[i - n]
  BY <1>1, <1>2, <1>3
<1>7. ToSet(both) = ToSet(got) \cup ToSet(page)
  BY <1>1, <1>4, <1>5, <1>6 DEF ToSet
<1>8. \A i \in 1..n, j \in 1..m : got[i] # page[j]
  BY <1>1 DEF ToSet
<1>9. ASSUME NEW i \in DOMAIN both, NEW j \in DOMAIN both, both[i] = both[j] PROVE i = j
  <2>1. i \in Nat /\ j \in Nat
    BY <1>1, <1>3
  <2>2. CASE i \in 1..n /\ both[i] = got[i] /\ j \in 1..n /\ both[j] = got[j]
    BY <1>1, <1>9, <2>2 DEF IsInjective
  <2>3. CASE i - n \in 1..m /\ both[i] = page[i - n] /\ j - n \in 1..m /\ both[j] = page[j - n]
    <3>1. i - n = j - n
      BY <1>1, <1>9, <2>3 DEF IsInjective
    <3> QED
      BY <1>1, <2>1, <3>1
  <2> QED
    BY <1>6, <1>8, <1>9, <2>2, <2>3
<1> QED
  BY <1>2, <1>7, <1>9 DEF IsInjective, both

\* A sorted answer: all of the rows, or a full page, a cursor and the rows that
\* come after it.
LEMMA PageRead ==
  ASSUME AuditTypeOK, NEW rest \in SUBSET Rows,
         NEW found \in Listed(rest, NewestFirst(rest), PageLimit + 1)
  PROVE  /\ found \in Seq(Ids) /\ IsInjective(found) /\ ToSet(found) \subseteq rest
         /\ Len(found) <= PageLimit => ToSet(found) = rest
         /\ Len(found) > PageLimit =>
              /\ found[PageLimit] \in rest
              /\ SubSeq(found, 1, PageLimit) \in Seq(Ids) /\ IsInjective(SubSeq(found, 1, PageLimit))
              /\ ToSet(SubSeq(found, 1, PageLimit)) \subseteq rest
              /\ \A i \in ToSet(SubSeq(found, 1, PageLimit)) :
                   ~Older(i, log[found[PageLimit]].at, found[PageLimit])
              /\ \A i \in rest : \/ i \in ToSet(SubSeq(found, 1, PageLimit))
                                 \/ Older(i, log[found[PageLimit]].at, found[PageLimit])
<1> DEFINE before == NewestFirst(rest)
           n == Len(found)
           page == SubSeq(found, 1, PageLimit)
           c == found[PageLimit]
<1>1. PageLimit \in Nat \ {0} /\ PageLimit + 1 \in Nat
  BY AuditConstants
<1>2. \A a, b : <<a, b>> \in before =>
        /\ a \in rest /\ b \in rest
        /\ log[a].at > log[b].at \/ (log[a].at = log[b].at /\ a > b)
  BY DEF NewestFirst
<1>3. /\ \A i \in rest : i \in Ids /\ i \in Nat /\ log[i].at \in Nat
      /\ rest \subseteq Ids
  BY RowsTyped
<1>4. found \in Listed(rest, before, PageLimit + 1)
  OBVIOUS
<1> HIDE DEF before
<1>5. /\ found \in Seq(rest) /\ n \in 0..PageLimit + 1 /\ DOMAIN found = 1..n
      /\ \A i \in DOMAIN found : found[i] \in rest
      /\ \A i, j \in DOMAIN found : i < j => <<found[i], found[j]>> \in before
      /\ \A x \in rest : \/ \E i \in DOMAIN found : found[i] = x
                         \/ n = PageLimit + 1 /\ \A i \in DOMAIN found : <<found[i], x>> \in before
  BY <1>1, <1>4, ListedFacts
<1>6. found \in Seq(Ids)
  BY <1>3, <1>5
<1> HIDE DEF n
<1>7. \A i, j \in DOMAIN found : i < j =>
        \/ log[found[i]].at > log[found[j]].at
        \/ log[found[i]].at = log[found[j]].at /\ found[i] > found[j]
  BY <1>2, <1>5
<1>8. \A i, j \in DOMAIN found : i < j => found[i] # found[j]
  BY <1>3, <1>5, <1>7
<1>9. IsInjective(found)
  BY <1>5, <1>8 DEF IsInjective
<1>10. ToSet(found) \subseteq rest
  BY <1>5 DEF ToSet
<1>11. n <= PageLimit => ToSet(found) = rest
  BY <1>1, <1>5, <1>10 DEF ToSet
<1>12. ASSUME n > PageLimit
       PROVE  /\ c \in rest /\ page \in Seq(Ids) /\ IsInjective(page) /\ ToSet(page) \subseteq rest
              /\ \A i \in ToSet(page) : ~Older(i, log[c].at, c)
              /\ \A i \in rest : i \in ToSet(page) \/ Older(i, log[c].at, c)
  <2>1. n = PageLimit + 1 /\ 1..PageLimit \subseteq DOMAIN found /\ PageLimit \in DOMAIN found
    BY <1>1, <1>5, <1>12
  <2>2. c \in rest
    BY <1>5, <2>1
  <2>3. /\ page \in Seq(Ids) /\ Len(page) = PageLimit
        /\ \A i \in 1..PageLimit : page[i] = found[i]
    <3>1. \A i \in 1..PageLimit : found[i] \in Ids
      BY <1>3, <1>5, <2>1
    <3>2. 1 \in Int /\ PageLimit \in Int /\ 1 <= PageLimit /\ PageLimit - 1 + 1 = PageLimit
      BY <1>1
    <3>3. /\ page \in Seq(Ids) /\ Len(page) = PageLimit - 1 + 1
          /\ \A i \in 1..PageLimit - 1 + 1 : page[i] = found[1 + i - 1]
      BY <3>1, <3>2, SubSeqProperties
    <3>4. \A i \in 1..PageLimit : 1 + i - 1 = i
      BY <1>1
    <3> QED
      BY <3>2, <3>3, <3>4
  <2>4. DOMAIN page = 1..PageLimit
    BY <2>3, LenProperties
  <2> HIDE DEF page
  <2>5. IsInjective(page)
    BY <1>9, <2>1, <2>3, <2>4 DEF IsInjective
  <2>6. ToSet(page) \subseteq rest
    BY <1>5, <2>1, <2>3, <2>4 DEF ToSet
  <2>7. \A k \in 1..PageLimit : ~Older(found[k], log[c].at, c)
    <3> TAKE k \in 1..PageLimit
    <3>1. k = PageLimit \/ k < PageLimit
      BY <1>1
    <3>2. CASE k = PageLimit
      BY <1>3, <2>2, <3>2 DEF Older
    <3>3. CASE k < PageLimit
      <4>1. \/ log[found[k]].at > log[c].at
            \/ log[found[k]].at = log[c].at /\ found[k] > c
        BY <1>7, <2>1, <3>3
      <4>2. found[k] \in rest
        BY <1>5, <2>1
      <4> QED
        BY <1>3, <2>2, <4>1, <4>2 DEF Older
    <3> QED
      BY <3>1, <3>2, <3>3
  <2>8. \A i \in ToSet(page) : ~Older(i, log[c].at, c)
    BY <2>3, <2>4, <2>7 DEF ToSet
  <2>9. \A x \in rest : <<c, x>> \in before => Older(x, log[c].at, c)
    BY <1>2, <1>3, <2>2 DEF Older
  <2>10. ASSUME NEW x \in rest PROVE x \in ToSet(page) \/ Older(x, log[c].at, c)
    <3>1. CASE \E i \in DOMAIN found : found[i] = x
      <4>1. PICK i \in DOMAIN found : found[i] = x
        BY <3>1
      <4>2. i \in 1..PageLimit \/ i = PageLimit + 1
        BY <1>1, <1>5, <2>1
      <4>3. CASE i \in 1..PageLimit
        BY <2>3, <2>4, <4>1, <4>3 DEF ToSet
      <4>4. CASE i = PageLimit + 1
        <5>1. PageLimit \in DOMAIN found /\ PageLimit < i
          BY <1>1, <2>1, <4>4
        <5>2. <<found[PageLimit], found[i]>> \in before
          BY <1>5, <5>1
        <5> QED
          BY <2>9, <4>1, <5>2
      <4> QED
        BY <4>2, <4>3, <4>4
    <3>2. CASE \A i \in DOMAIN found : <<found[i], x>> \in before
      BY <2>1, <2>9, <3>2
    <3> QED
      BY <1>5, <3>1, <3>2
  <2> QED
    BY <2>2, <2>3, <2>5, <2>6, <2>8, <2>10
<1> QED
  BY <1>6, <1>9, <1>10, <1>11, <1>12 DEF n

\* What a reader knows stays true while the log grows.
LEMMA ReadKept ==
  ASSUME AuditInv, AuditNext, NEW q \in Reads, ReadKnows(q)
  PROVE  /\ q.pc = "idle" => q = NoRead
         /\ IsInjective(q.got)
         /\ \A i \in q.due \cup ToSet(q.got) : i \in Rows' /\ log'[i].org = q.org
         /\ q.pc # "idle" => q.org \in Orgs
         /\ q.pc = "next" =>
              /\ \A i \in ToSet(q.got) : ~(log'[i].at < q.at \/ (log'[i].at = q.at /\ i < q.id))
              /\ \A i \in q.due : \/ i \in ToSet(q.got)
                                  \/ log'[i].at < q.at \/ (log'[i].at = q.at /\ i < q.id)
         /\ q.pc = "ended" => q.due \subseteq ToSet(q.got)
<1>1. /\ Rows \subseteq Rows'
      /\ \A i \in Rows : /\ log'[i].at = log[i].at
                         /\ log[i].org # NoOrg => log'[i].org = log[i].org
  BY LogGrows
<1>2. /\ q.pc = "idle" => q = NoRead
      /\ \A i \in q.due \cup ToSet(q.got) : i \in Rows /\ log[i].org = q.org
      /\ q.pc # "idle" => q.org \in Orgs
  BY DEF ReadKnows
<1>3. NoRead.due = {} /\ ToSet(NoRead.got) = {}
  BY DEF NoRead, ToSet
<1>4. q.pc = "idle" => q.due \cup ToSet(q.got) = {}
  BY <1>2, <1>3
<1>5. \A i \in q.due \cup ToSet(q.got) : i \in Rows' /\ log'[i].org = q.org
  <2> TAKE i \in q.due \cup ToSet(q.got)
  <2>1. q.org \in Orgs /\ q.org # NoOrg
    BY <1>2, <1>4, AuditConstants
  <2> QED
    BY <1>1, <1>2, <2>1
<1>6. \A i \in q.due \cup ToSet(q.got) : log'[i].at = log[i].at
  BY <1>1, <1>2
<1>7. /\ IsInjective(q.got)
      /\ q.pc = "ended" => q.due \subseteq ToSet(q.got)
  BY DEF ReadKnows
<1>8. q.pc = "next" =>
        /\ \A i \in ToSet(q.got) : ~(log'[i].at < q.at \/ (log'[i].at = q.at /\ i < q.id))
        /\ \A i \in q.due : \/ i \in ToSet(q.got)
                            \/ log'[i].at < q.at \/ (log'[i].at = q.at /\ i < q.id)
  BY <1>6 DEF ReadKnows, Older
<1> QED
  BY <1>2, <1>5, <1>7, <1>8

\* A page read: what it adds comes after what the reader has.
LEMMA PageStep ==
  ASSUME AuditInv, NEW r \in Readers, recentForOrg(r)
  PROVE  \E next \in Reads : reader' = [reader EXCEPT ![r] = next] /\ ReadKnows(next)
<1> DEFINE q == reader[r]
           first == q.pc = "idle"
<1>1. PICK o \in Orgs :
        /\ first \/ o = q.org
        /\ LET rows == {i \in Rows : log[i].org = o}
               rest == {i \in rows : first \/ Older(i, q.at, q.id)}
           IN \E found \in Listed(rest, NewestFirst(rest), PageLimit + 1) :
                reader' = [reader EXCEPT ![r] =
                 IF Len(found) > PageLimit
                 THEN [pc |-> "next", org |-> o,
                       at |-> log[found[PageLimit]].at, id |-> found[PageLimit],
                       got |-> q.got \o SubSeq(found, 1, PageLimit),
                       due |-> IF first THEN rows ELSE q.due]
                 ELSE [pc |-> "ended", org |-> o, at |-> 0, id |-> 0,
                       got |-> q.got \o found,
                       due |-> IF first THEN rows ELSE q.due]]
  BY DEF recentForOrg
<1>2. PICK rows \in SUBSET Rows : rows = {i \in Rows : log[i].org = o}
  OBVIOUS
<1>3. PICK rest \in SUBSET Rows : rest = {i \in rows : first \/ Older(i, q.at, q.id)}
  OBVIOUS
<1>4. PICK found \in Listed(rest, NewestFirst(rest), PageLimit + 1) :
        reader' = [reader EXCEPT ![r] =
          IF Len(found) > PageLimit
          THEN [pc |-> "next", org |-> o,
                at |-> log[found[PageLimit]].at, id |-> found[PageLimit],
                got |-> q.got \o SubSeq(found, 1, PageLimit),
                due |-> IF first THEN rows ELSE q.due]
          ELSE [pc |-> "ended", org |-> o, at |-> 0, id |-> 0,
                got |-> q.got \o found,
                due |-> IF first THEN rows ELSE q.due]]
  BY <1>1, <1>2, <1>3
<1>5. AuditTypeOK /\ q \in Reads /\ ReadKnows(q) /\ q.pc # "ended"
  BY DEF AuditInv, AuditTypeOK, recentForOrg
<1>6. /\ q.pc \in {"idle", "next", "ended"} /\ q.got \in Seq(Ids) /\ q.due \subseteq Ids
      /\ q.at \in Nat /\ q.id \in Nat
  BY <1>5, AuditConstants DEF Reads
<1>7. /\ first => q = NoRead
      /\ IsInjective(q.got)
      /\ \A i \in q.due \cup ToSet(q.got) : i \in Rows /\ log[i].org = q.org
      /\ ~first => /\ \A i \in ToSet(q.got) : ~Older(i, q.at, q.id)
                   /\ \A i \in q.due : i \in ToSet(q.got) \/ Older(i, q.at, q.id)
  BY <1>5, <1>6 DEF ReadKnows
<1>8. PICK due \in SUBSET Rows : due = IF first THEN rows ELSE q.due
  BY <1>2, <1>7
<1>9. first => q.due = {} /\ ToSet(q.got) = {}
  BY <1>7 DEF NoRead, ToSet
<1>10. PICK got \in Seq(Ids) : got = q.got
  BY <1>6
<1>11. ~first => q.org = o
  BY <1>1
<1>12. /\ \A i \in due \cup ToSet(got) : i \in rows
       /\ \A i \in due : i \in ToSet(got) \/ i \in rest
       /\ ToSet(got) \cap rest = {}
  <2>1. CASE first
    BY <1>3, <1>8, <1>9, <1>10, <2>1
  <2>2. CASE ~first
    BY <1>2, <1>3, <1>7, <1>8, <1>10, <1>11, <2>2
  <2> QED
    BY <2>1, <2>2
\* The rows to come are after the rows that were read.
<1>13. \A x \in rest, i \in ToSet(got) : ~Older(i, log[x].at, x)
  <2>1. CASE first
    BY <1>9, <1>10, <2>1
  <2>2. CASE ~first
    <3> SUFFICES ASSUME NEW x \in rest, NEW i \in ToSet(got) PROVE ~Older(i, log[x].at, x)
      OBVIOUS
    <3>1. Older(x, q.at, q.id) /\ ~Older(i, q.at, q.id)
      BY <1>3, <1>7, <1>10, <2>2
    <3>2. x \in Rows /\ i \in Rows
      BY <1>2, <1>12
    <3>3. x \in Nat /\ i \in Nat /\ log[x].at \in Nat /\ log[i].at \in Nat
      BY <1>5, <3>2, RowsTyped
    <3> QED
      BY <1>6, <3>1, <3>3 DEF Older
  <2> QED
    BY <2>1, <2>2
<1>14. rest \subseteq rows /\ \A i \in rows : i \in Rows /\ log[i].org = o
  BY <1>2, <1>3
<1>15. due \subseteq Ids /\ rows \subseteq Ids
  BY <1>5, RowsTyped
<1>16. IsInjective(got) /\ reader \in [Readers -> Reads]
  BY <1>5, <1>7, <1>10 DEF AuditTypeOK
<1>17. reader' = [reader EXCEPT ![r] =
          IF Len(found) > PageLimit
          THEN [pc |-> "next", org |-> o,
                at |-> log[found[PageLimit]].at, id |-> found[PageLimit],
                got |-> got \o SubSeq(found, 1, PageLimit), due |-> due]
          ELSE [pc |-> "ended", org |-> o, at |-> 0, id |-> 0,
                got |-> got \o found, due |-> due]]
  BY <1>4, <1>8, <1>10
<1> HIDE DEF q, first
<1>18. /\ found \in Seq(Ids) /\ IsInjective(found) /\ ToSet(found) \subseteq rest
       /\ Len(found) <= PageLimit => ToSet(found) = rest
       /\ Len(found) > PageLimit =>
            /\ found[PageLimit] \in rest
            /\ SubSeq(found, 1, PageLimit) \in Seq(Ids) /\ IsInjective(SubSeq(found, 1, PageLimit))
            /\ ToSet(SubSeq(found, 1, PageLimit)) \subseteq rest
            /\ \A i \in ToSet(SubSeq(found, 1, PageLimit)) :
                 ~Older(i, log[found[PageLimit]].at, found[PageLimit])
            /\ \A i \in rest : \/ i \in ToSet(SubSeq(found, 1, PageLimit))
                               \/ Older(i, log[found[PageLimit]].at, found[PageLimit])
  BY <1>5, PageRead
<1>19. CASE Len(found) > PageLimit
  <2>1. PICK c \in rest : c = found[PageLimit]
    BY <1>18, <1>19
  <2>2. PICK page \in Seq(Ids) : page = SubSeq(found, 1, PageLimit)
    BY <1>18, <1>19
  <2>3. /\ IsInjective(page) /\ ToSet(page) \subseteq rest
        /\ \A i \in ToSet(page) : ~Older(i, log[c].at, c)
        /\ \A i \in rest : i \in ToSet(page) \/ Older(i, log[c].at, c)
    BY <1>18, <1>19, <2>1, <2>2
  <2>4. PICK both \in Seq(Ids) : /\ both = got \o page /\ IsInjective(both)
                                 /\ ToSet(both) = ToSet(got) \cup ToSet(page)
    BY <1>12, <1>16, <2>3, PageAdded
  <2>5. c \in Ids /\ c \in 0..MaxLog + 1 /\ log[c].at \in 0..MaxTime
    <3>1. c \in Ids /\ log[c].at \in 1..MaxTime
      BY <1>5, RowsTyped
    <3> QED
      BY <3>1, AuditConstants DEF Ids
  <2> DEFINE next == [pc |-> "next", org |-> o, at |-> log[c].at, id |-> c, got |-> both, due |-> due]
  <2>6. next \in Reads
    BY <1>15, <2>5 DEF Reads
  <2>7. /\ next.pc = "next" /\ next.org = o /\ next.at = log[c].at /\ next.id = c
        /\ next.got = both /\ next.due = due
    OBVIOUS
  <2>8. reader' = [reader EXCEPT ![r] = next]
    BY <1>17, <1>19, <2>1, <2>2, <2>4
  <2> HIDE DEF next
  <2>9. \A i \in due \cup ToSet(both) : i \in Rows /\ log[i].org = o
    BY <1>12, <1>14, <2>3, <2>4
  <2>10. \A i \in ToSet(both) : ~Older(i, log[c].at, c)
    BY <1>13, <2>3, <2>4
  <2>11. \A i \in due : i \in ToSet(both) \/ Older(i, log[c].at, c)
    BY <1>12, <2>3, <2>4
  <2>12. ReadKnows(next)
    BY <2>4, <2>7, <2>9, <2>10, <2>11 DEF ReadKnows
  <2> QED
    BY <2>6, <2>8, <2>12
<1>20. CASE ~(Len(found) > PageLimit)
  <2>1. Len(found) <= PageLimit
    BY <1>18, <1>20, LenProperties, AuditConstants
  <2>2. PICK both \in Seq(Ids) : /\ both = got \o found /\ IsInjective(both)
                                 /\ ToSet(both) = ToSet(got) \cup rest
    <3>1. ToSet(found) = rest /\ found \in Seq(Ids) /\ IsInjective(found)
      BY <1>18, <2>1
    <3> QED
      BY <1>12, <1>16, <3>1, PageAdded
  <2> DEFINE next == [pc |-> "ended", org |-> o, at |-> 0, id |-> 0, got |-> both, due |-> due]
  <2>3. 0 \in 0..MaxTime /\ 0 \in 0..MaxLog + 1
    BY AuditConstants
  <2>4. next \in Reads
    BY <1>15, <2>3 DEF Reads
  <2>5. next.pc = "ended" /\ next.org = o /\ next.got = both /\ next.due = due
    OBVIOUS
  <2>6. reader' = [reader EXCEPT ![r] = next]
    BY <1>17, <1>20, <2>2
  <2> HIDE DEF next
  <2>7. \A i \in due \cup ToSet(both) : i \in Rows /\ log[i].org = o
    BY <1>12, <1>14, <2>2
  <2>8. due \subseteq ToSet(both)
    BY <1>12, <2>2
  <2>9. ReadKnows(next)
    BY <2>2, <2>5, <2>7, <2>8 DEF ReadKnows
  <2> QED
    BY <2>4, <2>6, <2>9
<1> QED
  BY <1>19, <1>20

\* Every step keeps what each reader knows.
LEMMA ReadersStep ==
  ASSUME AuditInv, AuditNext
  PROVE  reader' \in [Readers -> Reads] /\ \A r \in Readers : ReadKnows(reader[r])'
<1>1. reader \in [Readers -> Reads] /\ \A r \in Readers : ReadKnows(reader[r])
  BY DEF AuditInv, AuditTypeOK
<1>2. CASE UNCHANGED reader
  <2>1. \A r \in Readers : ReadKnows(reader[r])'
    <3> SUFFICES ASSUME NEW r \in Readers PROVE ReadKnows(reader[r])'
      OBVIOUS
    <3>1. PICK q \in Reads : q = reader[r] /\ reader'[r] = q /\ ReadKnows(q)
      BY <1>1, <1>2
    <3> QED
      BY <3>1, ReadKept DEF ReadKnows, Older
  <2> QED
    BY <1>1, <1>2, <2>1
<1>3. ASSUME NEW r \in Readers, recentForOrg(r)
      PROVE  reader' \in [Readers -> Reads] /\ \A z \in Readers : ReadKnows(reader[z])'
  <2>1. PICK next \in Reads : reader' = [reader EXCEPT ![r] = next] /\ ReadKnows(next)
    BY <1>3, PageStep
  <2>2. \A z \in Readers : reader'[z] \in Reads /\ ReadKnows(reader'[z])
    BY <1>1, <2>1
  <2>3. reader' \in [Readers -> Reads]
    BY <1>1, <2>1
  <2>4. ASSUME NEW z \in Readers PROVE ReadKnows(reader[z])'
    <3>1. PICK q \in Reads : q = reader'[z] /\ ReadKnows(q)
      BY <2>2
    <3> QED
      BY <3>1, ReadKept DEF ReadKnows, Older
  <2> QED
    BY <2>3, <2>4
<1>4. ASSUME NEW w \in Writers, resolveOrgId(w) \/ logAction(w) \/ findInOrg(w) \/ remove(w)
      PROVE  UNCHANGED reader
  BY <1>4 DEF resolveOrgId, logAction, findInOrg, remove
<1>5. ASSUME NEW s \in Sweeps,
             run(s) \/ listNullScoped(s) \/ resolveCandidates(s) \/ guardedWrite(s) \/ lastRead(s)
      PROVE  UNCHANGED reader
  BY <1>5 DEF run, listNullScoped, resolveCandidates, guardedWrite, lastRead, Turn
<1> QED
  BY <1>2, <1>3, <1>4, <1>5 DEF AuditNext

-----------------------------------------------------------------------------
(* AuditLog: the invariant, and the properties that follow.                   *)

\* The inductive invariant holds at the start.
LEMMA AuditStart == AuditInit => AuditInv
<1> SUFFICES ASSUME AuditInit PROVE AuditInv
  OBVIOUS
<1>1. NoWrite \in Writes /\ NoWrite.pc = "idle"
  BY DEF NoWrite, Writes
<1>2. /\ NoSweep \in SweepRuns /\ NoSweep.pc = "idle"
      /\ NoSweep.wrote = {} /\ NoSweep.backfilled = 0 /\ NoSweep.due = {}
  <2>1. 0 \in 0..MaxRows /\ <<>> \in Seq(Ids)
    BY AuditConstants, EmptySeq
  <2> QED
    BY <2>1 DEF NoSweep, SweepRuns
<1>3. NoRead \in Reads /\ NoRead.pc = "idle" /\ NoRead.got = <<>> /\ NoRead.due = {}
  <2>1. MaxTime \in 0..MaxTime /\ MaxLog + 1 \in 0..MaxLog + 1 /\ <<>> \in Seq(Ids)
    BY AuditConstants, EmptySeq
  <2> QED
    BY <2>1 DEF NoRead, Reads
<1>4. log \in [Ids -> LogRows \cup {NoRow}]
  <2>1. [target : Targets, org : {NoOrg}, at : {1}, removal : {FALSE}, live : {FALSE}] \subseteq LogRows
    <3> DEFINE no == {FALSE}
    <3>1. no \subseteq BOOLEAN /\ 1 \in 1..MaxTime
      BY AuditConstants
    <3> HIDE DEF no
    <3>2. [target : Targets, org : {NoOrg}, at : {1}, removal : no, live : no] \subseteq LogRows
      BY <3>1 DEF LogRows
    <3> QED
      BY <3>2 DEF no
  <2> QED
    BY <2>1 DEF AuditInit
<1>5. AuditTypeOK
  BY <1>1, <1>2, <1>3, <1>4 DEF AuditTypeOK, AuditInit
<1>6. \A i \in Rows : log[i].org = NoOrg /\ ~log[i].live /\ ~log[i].removal
  BY DEF AuditInit, Rows
<1>7. LogKnows
  BY <1>1, <1>6 DEF LogKnows, AuditInit
<1>8. \A s \in Sweeps : sweep[s] = NoSweep
  BY DEF AuditInit
<1>9. BackfilledOnce
  BY <1>2, <1>6, <1>8, FS_EmptySet DEF BackfilledOnce
<1>10. ASSUME NEW s \in Sweeps PROVE SweepKnows(sweep[s], Rows, Unscoped)
  BY <1>2, <1>8 DEF SweepKnows
<1>11. ASSUME NEW r \in Readers PROVE ReadKnows(reader[r])
  <2>1. PICK q \in Reads : q = reader[r] /\ q = NoRead
    BY <1>3 DEF AuditInit
  <2>2. IsInjective(<<>>) /\ ToSet(<<>>) = {}
    BY DEF IsInjective, ToSet
  <2>3. ReadKnows(q)
    BY <1>3, <2>1, <2>2 DEF ReadKnows
  <2> QED
    BY <2>1, <2>3
<1> QED
  BY <1>5, <1>7, <1>9, <1>10, <1>11 DEF AuditInv

\* Every step keeps the inductive invariant.
LEMMA AuditStep == AuditInv /\ [AuditNext]_auditVars => AuditInv'
<1>1. ASSUME AuditInv, AuditNext PROVE AuditInv'
  <2>1. AuditTypeOK'
    BY <1>1, WriterTypeStep, LogGrows, SweepStep, ReadersStep DEF AuditTypeOK
  <2>2. LogKnows'
    BY <1>1, LogGrows, WriterTypeStep, RemovalStep DEF LogKnows
  <2>3. \A s \in Sweeps : SweepKnows(sweep[s], Rows, Unscoped)'
    BY <1>1, SweepStep
  <2> QED
    BY <1>1, <2>1, <2>2, <2>3, BackfilledStep, ReadersStep DEF AuditInv
<1>2. ASSUME AuditInv, UNCHANGED auditVars PROVE AuditInv'
  <2>1. AuditTypeOK'
    BY <1>2 DEF auditVars, AuditInv, AuditTypeOK
  <2>2. LogKnows' /\ BackfilledOnce'
    BY <1>2 DEF auditVars, AuditInv, LogKnows, BackfilledOnce, Rows
  <2>3. \A s \in Sweeps : SweepKnows(sweep[s], Rows, Unscoped)'
    BY <1>2 DEF auditVars, AuditInv, SweepKnows, Ahead, Rows, Unscoped
  <2>4. \A r \in Readers : ReadKnows(reader[r])'
    BY <1>2 DEF auditVars, AuditInv, ReadKnows, Rows, Older
  <2> QED
    BY <2>1, <2>2, <2>3, <2>4 DEF AuditInv
<1> QED
  BY <1>1, <1>2

\* The inductive invariant of the audit log.
THEOREM AuditInvariance == AuditSpec => []AuditInv
  BY AuditStart, AuditStep, PTL DEF AuditSpec

\* Every variable of the audit log, its writers, runs and readers, has its type.
THEOREM AuditTypesCorrect == AuditSpec => []AuditTypeOK
<1>1. AuditInv => AuditTypeOK
  BY DEF AuditInv
<1> QED
  BY <1>1, AuditInvariance, PTL

\* Pages of a growing log show no row twice, and every row that was there when
\* the first page was read: the cursor of recentForOrg is a place in a strict
\* order that rows never change.
THEOREM PagesKept == AuditSpec => []PagesWhole
<1>1. AuditInv => PagesWhole
  BY DEF AuditInv, ReadKnows, PagesWhole
<1> QED
  BY <1>1, AuditInvariance, PTL

\* What the invariant says of removals and of runs that ended.
LEMMA AuditReports == AuditInv => BackfilledOnce /\ RemovalLoggedOnce /\ CompleteMeansExamined
<1> SUFFICES ASSUME AuditInv PROVE BackfilledOnce /\ RemovalLoggedOnce /\ CompleteMeansExamined
  OBVIOUS
<1>1. BackfilledOnce
  BY DEF AuditInv
<1>2. ASSUME NEW t \in Targets
      PROVE  Cardinality({i \in Rows : log[i].removal /\ log[i].target = t}) = IF t \in alive THEN 0 ELSE 1
  <2>1. CASE t \in alive
    <3>1. {i \in Rows : log[i].removal /\ log[i].target = t} = {}
      BY <2>1 DEF AuditInv, LogKnows
    <3> QED
      BY <2>1, <3>1, FS_EmptySet
  <2>2. CASE t \notin alive
    <3>1. PICK i \in Rows : /\ log[i].removal /\ log[i].target = t
                            /\ \A j \in Rows : log[j].removal /\ log[j].target = t => j = i
      BY <2>2 DEF AuditInv, LogKnows
    <3>2. {j \in Rows : log[j].removal /\ log[j].target = t} = {i}
      BY <3>1
    <3> QED
      BY <2>2, <3>2, FS_Singleton
  <2> QED
    BY <2>1, <2>2
<1>3. ASSUME NEW s \in Sweeps, sweep[s].pc = "ended", ~sweep[s].incomplete, NEW i \in sweep[s].due
      PROVE  i \in sweep[s].seen \/ log[i].org # NoOrg
  <2>1. PICK q \in SweepRuns : q = sweep[s] /\ SweepKnows(q, Rows, Unscoped)
    BY DEF AuditInv, AuditTypeOK
  <2>2. i \in Rows
    BY <1>3, <2>1 DEF SweepKnows
  <2>3. ~Ahead(q, i)
    BY <1>3, <2>1 DEF Ahead
  <2>4. i \in Unscoped => i \in q.seen
    BY <1>3, <2>1, <2>3 DEF SweepKnows
  <2> QED
    BY <2>1, <2>2, <2>4 DEF Unscoped
<1> QED
  BY <1>1, <1>2, <1>3 DEF RemovalLoggedOnce, CompleteMeansExamined

\* An attribution, a removal and a deployment that only guarded writes noticed
\* are in the log once, and a deployment that is not in it was cut off by a crash
\* of the API's poller or by a failing write of its audit.
THEOREM TrailsLoggedOnce == AuditSpec /\ LegacySpec => []LoggedOnce
<1>1. AuditInv /\ LegacyInv => LoggedOnce
  BY AuditReports, LegacyReports DEF LoggedOnce
<1> QED
  BY <1>1, AuditInvariance, LegacyInvariance, PTL

\* A backfill or a scan that ended and does not call itself incomplete passed
\* every row that was there for it when it started.
THEOREM TrailsComplete == AuditSpec /\ LegacySpec => []CompleteReports
<1>1. AuditInv /\ LegacyInv => CompleteReports
  BY AuditReports, LegacyReports DEF CompleteReports
<1> QED
  BY <1>1, AuditInvariance, LegacyInvariance, PTL
=============================================================================
