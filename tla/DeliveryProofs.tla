--------------------------- MODULE DeliveryProofs ---------------------------
(* Proofs about Delivery, for any number of links and requests, and about  *)
(* what the detectors make of a line, for every line and all they find:    *)
(* what a link shows is the result of a redaction.                         *)
EXTENDS Delivery, Detect, FiniteSetTheorems, TLAPS

(* Before any request there is no link, no access and no answer.           *)
LEMMA InitInv ==
  ASSUME Init
  PROVE  DeliveryInv
  <1>1. {} \in SUBSET Requests /\ IsFiniteSet({})
    BY FS_EmptySet
  <1>2. TypeOK
    BY <1>1, DeliveryAssumption DEF Init, TypeOK, LinkRow
  <1>3. ViewsBounded /\ AdmittedHasView /\ OpenKnows
    BY DEF Init, ViewsBounded, AdmittedHasView, OpenKnows
  <1>4. CreateKnows
    BY <1>1 DEF Init, CreateKnows, Shown
  <1> QED
    BY <1>2, <1>3, <1>4 DEF DeliveryInv

(* The clock, the worker and createLink leave the requests alone; a link   *)
(* is inserted without views, where there was no link.                     *)
LEMMA CreateInv ==
  ASSUME DeliveryInv,
         NEW l, Clock \/ (l \in Links /\ (Journaled(l) \/ Create(l)))
  PROVE  DeliveryInv'
  <1> USE DEF Creating
  <1>1. TypeOK /\ ViewsBounded /\ AdmittedHasView /\ OpenKnows /\ CreateKnows
    BY DEF DeliveryInv
  <1>2. UNCHANGED <<delivery_link_accesses, lock, openVars>>
    BY DEF Clock, Journaled, Create, ParseLink, Refuse, CheckOutput, InsertLink
  <1>3. \/ UNCHANGED delivery_links
        \/ /\ l \in Links /\ cpc[l] = "insert" /\ cpc'[l] \in {"told", "refused"} /\ UNCHANGED want
           /\ delivery_links' = [delivery_links EXCEPT ![l] = want[l]]
    BY <1>1 DEF Clock, Journaled, Create, ParseLink, Refuse, CheckOutput, InsertLink, createVars,
                TypeOK
  <1>4. /\ now' \in Nat /\ ready' \subseteq Links
        /\ cpc' \in [Links -> {"parse", "ready", "insert", "told", "refused"}]
    BY <1>1 DEF Clock, Journaled, Create, ParseLink, Refuse, CheckOutput, InsertLink, createVars,
                TypeOK
  <1>5. \A k \in Links :
          cpc'[k] \in {"parse", "ready", "insert"} => cpc[k] \in {"parse", "ready", "insert"}
    BY <1>1 DEF Clock, Journaled, Create, ParseLink, Refuse, CheckOutput, InsertLink, createVars,
                TypeOK
  <1>6. want' \in [Links -> LinkRow] /\ \A k \in Links : want'[k].count = 0
    <2>1. CASE UNCHANGED want
      BY <1>1, <2>1 DEF TypeOK, CreateKnows
    <2>2. CASE l \in Links /\ ParseLink(l)
      <3>1. PICK at \in now + 1 .. now + Lifetime, n \in 1..MaxViews :
               want' = [want EXCEPT ![l] = [expires |-> at, max |-> n, count |-> 0]]
        BY Zenon, <2>2 DEF ParseLink
      <3>2. at \in Nat
        BY <1>1, DeliveryAssumption DEF TypeOK
      <3>3. [expires |-> at, max |-> n, count |-> 0] \in LinkRow
        BY <3>2 DEF LinkRow
      <3>4. want' \in [Links -> LinkRow]
        BY Zenon, <1>1, <3>1, <3>3 DEF TypeOK
      <3>5. \A k \in Links : want'[k].count = 0
        BY <1>1, <3>1 DEF TypeOK, CreateKnows
      <3> QED
        BY <3>4, <3>5
    <2> QED
      BY <2>1, <2>2 DEF Clock, Journaled, Create, Refuse, CheckOutput, InsertLink, createVars
  <1>7. delivery_links' \in [Links -> LinkRow \cup {None}]
    BY <1>1, <1>3 DEF TypeOK
  <1>8. TypeOK'
    BY <1>1, <1>2, <1>4, <1>6, <1>7 DEF TypeOK, openVars
  <1>9. \A k \in Links :
          \/ delivery_links'[k] = delivery_links[k]
          \/ /\ k = l /\ l \in Links /\ cpc'[l] \in {"told", "refused"}
             /\ delivery_links[l] = None /\ delivery_links'[l] \in LinkRow
             /\ delivery_links'[l].count = 0
    BY <1>1, <1>3 DEF TypeOK, CreateKnows
  <1>10. ViewsBounded'
    <2> SUFFICES ASSUME NEW k \in Links, delivery_links'[k] # None
                 PROVE  /\ Shown(k)' \subseteq delivery_link_accesses'[k]
                        /\ Cardinality(delivery_link_accesses'[k]) = delivery_links'[k].count
                        /\ delivery_links'[k].count <= delivery_links'[k].max
      BY DEF ViewsBounded
    <2>1. Shown(k)' \subseteq delivery_link_accesses'[k]
      BY <1>1, <1>2 DEF Shown, CreateKnows, openVars
    <2>2. CASE delivery_links'[k] = delivery_links[k]
      BY <1>1, <1>2, <2>1, <2>2 DEF ViewsBounded
    <2>3. CASE delivery_links'[k] # delivery_links[k]
      <3>1. delivery_link_accesses'[k] = {} /\ Cardinality({}) = 0
        BY <1>1, <1>2, <1>9, <2>3, FS_EmptySet DEF CreateKnows
      <3>2. delivery_links'[k].count = 0 /\ delivery_links'[k].max \in Nat
        BY <1>9, <2>3, DeliveryAssumption DEF LinkRow
      <3> QED
        BY <2>1, <3>1, <3>2
    <2> QED
      BY <2>2, <2>3
  <1>11. AdmittedHasView' /\ OpenKnows'
    <2>1. OpenKnows'
      BY <1>1, <1>2 DEF OpenKnows, openVars
    <2>2. \A q \in Requests : pc[q] \in {"output", "commit"} =>
            delivery_links'[target[q]] = delivery_links[target[q]]
      BY <1>1, <1>9 DEF AdmittedHasView, OpenKnows, Row
    <2> QED
      BY <1>1, <1>2, <2>1, <2>2 DEF AdmittedHasView, Row, openVars
  <1>12. CreateKnows'
    <2>1. \A k \in Links : cpc'[k] \in {"parse", "ready", "insert"} => delivery_links'[k] = None
      BY <1>1, <1>5, <1>9 DEF CreateKnows
    <2>2. \A k \in Links : delivery_links'[k] = None => delivery_links[k] = None
      BY <1>9
    <2> QED
      BY <1>1, <1>2, <1>6, <2>1, <2>2 DEF CreateKnows, Shown, openVars
  <1> QED
    BY <1>8, <1>10, <1>11, <1>12 DEF DeliveryInv

(* Begin, and a statement that decides the answer or only reads, change    *)
(* neither the link nor its accesses; SelectLink takes a lock nobody has.  *)
LEMMA ReadInv ==
  ASSUME DeliveryInv,
         NEW q \in Requests,
         Begin(q) \/ SelectLink(q) \/ ReadOutput(q) \/ OpenFails(q) \/ Rollback(q)
  PROVE  DeliveryInv'
  <1> USE DEF Reject, Goto
  <1>1. TypeOK /\ ViewsBounded /\ AdmittedHasView /\ OpenKnows /\ CreateKnows
    BY DEF DeliveryInv
  <1>2. UNCHANGED <<now, ready, createVars, delivery_links, delivery_link_accesses>>
    BY DEF Begin, SelectLink, ReadOutput, OpenFails, Rollback
  <1>3. /\ pc[q] # "done"
        /\ \A r \in Requests \ {q} :
             /\ pc'[r] = pc[r] /\ target'[r] = target[r]
             /\ began'[r] = began[r] /\ answer'[r] = answer[r]
        /\ answer'[q] # 200
    BY <1>1 DEF Begin, SelectLink, ReadOutput, OpenFails, Rollback, Admit, TypeOK, OpenKnows
  <1>4. /\ pc' \in [Requests -> {"begin", "select", "output", "commit", "rollback", "done"}]
        /\ target' \in [Requests -> Links \cup {None}]
        /\ began' \in [Requests -> Nat]
        /\ answer' \in [Requests -> {0, 200, 403, 404, 409, 410, 503}]
    BY <1>1 DEF Begin, SelectLink, ReadOutput, OpenFails, Rollback, Admit, TypeOK
  <1>5. lock' \in [Links -> Requests \cup {None}]
    BY <1>1 DEF Begin, SelectLink, ReadOutput, OpenFails, Rollback, Release, TypeOK
  <1>6. TypeOK'
    BY <1>1, <1>2, <1>4, <1>5 DEF TypeOK, createVars
  <1>7. \A k \in Links : Shown(k)' \subseteq Shown(k)
    BY <1>3 DEF Shown
  <1>8. ViewsBounded'
    BY <1>1, <1>2, <1>7 DEF ViewsBounded
  <1>9. CreateKnows'
    BY <1>1, <1>2, <1>7 DEF CreateKnows, createVars
  <1>10. pc'[q] \in {"select", "output", "commit"} => target'[q] \in Links
    BY <1>1 DEF Begin, SelectLink, ReadOutput, OpenFails, Rollback, Admit, TypeOK, OpenKnows
  <1>11. OpenKnows'
    BY <1>1, <1>2, <1>3, <1>10 DEF OpenKnows
  <1>12. \A r \in Requests \ {q}, k \in Links : lock[k] = r => lock'[k] = r
    BY <1>1, DeliveryAssumption
       DEF Begin, SelectLink, ReadOutput, OpenFails, Rollback, Release, TypeOK
  <1>13. pc'[q] \in {"output", "commit"} =>
           lock'[target'[q]] = q /\ Row(q)' # None /\ Row(q)'.count < Row(q)'.max
    <2>1. CASE SelectLink(q)
      <3>1. CASE pc'[q] = "output"
        <4>1. /\ Row(q) # None /\ target[q] \in Links /\ target'[q] = target[q]
              /\ lock' = [lock EXCEPT ![target[q]] = q] /\ ~(Row(q).count >= Row(q).max)
          BY <1>1, <2>1, <3>1 DEF SelectLink, Admit, TypeOK, OpenKnows
        <4>2. Row(q).count \in Nat /\ Row(q).max \in Nat
          BY <1>1, <4>1, DeliveryAssumption DEF TypeOK, Row, LinkRow
        <4> QED
          BY <1>1, <1>2, <4>1, <4>2 DEF TypeOK, Row
      <3>2. pc'[q] \in {"output", "rollback"}
        BY <1>1, <2>1 DEF SelectLink, Admit, TypeOK
      <3> QED
        BY <3>1, <3>2
    <2>2. CASE ReadOutput(q)
      BY <1>1, <1>2, <2>2 DEF ReadOutput, AdmittedHasView, Row
    <2>3. CASE Begin(q) \/ OpenFails(q) \/ Rollback(q)
      BY SMTT(30), <1>1, <2>3 DEF Begin, OpenFails, Rollback, TypeOK
    <2> QED
      BY <2>1, <2>2, <2>3
  <1>14. AdmittedHasView'
    BY <1>1, <1>2, <1>3, <1>12, <1>13 DEF AdmittedHasView, OpenKnows, Row
  <1> QED
    BY <1>6, <1>8, <1>9, <1>11, <1>14 DEF DeliveryInv

(* The commit uses the view that the lock has kept for it.                 *)
LEMMA CommitInv ==
  ASSUME DeliveryInv, NEW q \in Requests, CommitView(q)
  PROVE  DeliveryInv'
  <1> DEFINE l == target[q]
  <1>1. TypeOK /\ ViewsBounded /\ AdmittedHasView /\ OpenKnows /\ CreateKnows
    BY DEF DeliveryInv
  <1>2. /\ pc[q] = "commit" /\ l \in Links /\ lock[l] = q /\ delivery_links[l] \in LinkRow
        /\ delivery_links[l] # None /\ delivery_links[l].count < delivery_links[l].max
        /\ q \notin delivery_link_accesses[l]
    BY <1>1 DEF CommitView, TypeOK, AdmittedHasView, OpenKnows, Row
  <1>3. /\ delivery_links' = [delivery_links EXCEPT ![l].count = @ + 1]
        /\ delivery_link_accesses' = [delivery_link_accesses EXCEPT ![l] = @ \cup {q}]
        /\ pc' = [pc EXCEPT ![q] = "done"]
        /\ lock' = [k \in Links |-> IF lock[k] = q THEN None ELSE lock[k]]
        /\ UNCHANGED <<now, ready, createVars, target, began>>
    BY DEF CommitView, Goto, Release
  <1>4. PICK status \in {200, 503} : answer' = [answer EXCEPT ![q] = status]
    BY Zenon DEF CommitView
  <1>5. /\ delivery_links[l].count \in Nat /\ delivery_links[l].max \in Nat
        /\ delivery_links'[l] = [delivery_links[l] EXCEPT !.count = @ + 1]
        /\ \A k \in Links \ {l} : /\ delivery_links'[k] = delivery_links[k]
                                 /\ delivery_link_accesses'[k] = delivery_link_accesses[k]
    BY <1>1, <1>2, <1>3, DeliveryAssumption DEF TypeOK, LinkRow
  <1>6. /\ delivery_links'[l] \in LinkRow
        /\ delivery_links'[l].count = delivery_links[l].count + 1
        /\ delivery_links'[l].max = delivery_links[l].max
        /\ delivery_link_accesses'[l] = delivery_link_accesses[l] \cup {q}
    BY <1>1, <1>2, <1>3, <1>5 DEF LinkRow, TypeOK
  <1>7. /\ IsFiniteSet(delivery_link_accesses'[l])
        /\ Cardinality(delivery_link_accesses'[l]) = Cardinality(delivery_link_accesses[l]) + 1
    <2>1. IsFiniteSet(delivery_link_accesses[l])
      BY <1>1, <1>2 DEF CreateKnows
    <2>2. ASSUME NEW S, IsFiniteSet(S), q \notin S
          PROVE  IsFiniteSet(S \cup {q}) /\ Cardinality(S \cup {q}) = Cardinality(S) + 1
      BY <2>2, FS_AddElement
    <2> QED
      BY <1>2, <1>6, <2>1, <2>2
  <1>8. TypeOK'
    <2>1. delivery_links' \in [Links -> LinkRow \cup {None}]
      BY <1>1, <1>3, <1>5, <1>6 DEF TypeOK
    <2>2. lock' \in [Links -> Requests \cup {None}]
      BY <1>1, <1>3 DEF TypeOK
    <2>3. delivery_link_accesses[l] \cup {q} \in SUBSET Requests
      BY <1>1, <1>2 DEF TypeOK
    <2>4. delivery_link_accesses' \in [Links -> SUBSET Requests]
      BY Zenon, <1>1, <1>3, <2>3 DEF TypeOK
    <2> QED
      BY <1>1, <1>3, <1>4, <2>1, <2>2, <2>4 DEF TypeOK, createVars
  <1>9. \A k \in Links : Shown(k)' \subseteq delivery_link_accesses'[k]
    BY <1>1, <1>3, <1>4, <1>5, <1>6 DEF Shown, CreateKnows, TypeOK
  <1>10. ViewsBounded'
    <2> SUFFICES ASSUME NEW k \in Links, delivery_links'[k] # None
                 PROVE  /\ Cardinality(delivery_link_accesses'[k]) = delivery_links'[k].count
                        /\ delivery_links'[k].count <= delivery_links'[k].max
      BY <1>9 DEF ViewsBounded
    <2>1. CASE k = l
      <3>1. Cardinality(delivery_link_accesses[l]) = delivery_links[l].count
        BY <1>1, <1>2 DEF ViewsBounded
      <3>2. delivery_links[l].count + 1 <= delivery_links[l].max
        BY <1>2, <1>5
      <3>3. /\ delivery_links'[k].count = delivery_links[l].count + 1
            /\ delivery_links'[k].max = delivery_links[l].max
        BY <1>6, <2>1
      <3>4. Cardinality(delivery_link_accesses'[k]) = delivery_links[l].count + 1
        BY <1>7, <2>1, <3>1
      <3> QED
        BY <3>2, <3>3, <3>4
    <2>2. CASE k # l
      BY <1>1, <1>5, <2>2 DEF ViewsBounded
    <2> QED
      BY <2>1, <2>2
  <1>11. CreateKnows'
    <2>1. None # delivery_links'[l]
      BY <1>6, NoneIsNoLink
    <2>2. cpc' = cpc /\ want' = want /\ cpc[l] \notin {"parse", "ready", "insert"}
      BY <1>1, <1>2, <1>3 DEF CreateKnows, createVars
    <2>3. \A k \in Links : delivery_links'[k] = None => delivery_link_accesses'[k] = {}
      BY <1>1, <1>5, <2>1 DEF CreateKnows
    <2>4. \A k \in Links : IsFiniteSet(delivery_link_accesses'[k])
      BY <1>1, <1>5, <1>7 DEF CreateKnows
    <2>5. \A k \in Links :
            cpc'[k] \in {"parse", "ready", "insert"} => delivery_links'[k] = None
      BY <1>1, <1>5, <2>2 DEF CreateKnows
    <2> QED
      BY <1>1, <1>9, <2>2, <2>3, <2>4, <2>5 DEF CreateKnows
  <1>12. OpenKnows'
    BY <1>1, <1>2, <1>3, <1>4, <1>5, <1>6 DEF OpenKnows, TypeOK
  <1>13. AdmittedHasView'
    BY <1>1, <1>2, <1>3, <1>5 DEF AdmittedHasView, OpenKnows, Row, TypeOK
  <1> QED
    BY <1>8, <1>10, <1>11, <1>12, <1>13 DEF DeliveryInv

(* Every step keeps DeliveryInv.                                           *)
LEMMA NextInv ==
  ASSUME DeliveryInv, [Next]_vars
  PROVE  DeliveryInv'
  <1>1. CASE UNCHANGED vars
    BY <1>1 DEF vars, createVars, openVars, DeliveryInv, TypeOK, ViewsBounded, AdmittedHasView,
                OpenKnows, CreateKnows, Shown, Row
  <1>2. CASE Clock \/ \E l \in Links : Journaled(l) \/ Create(l)
    BY <1>2, CreateInv
  <1>3. CASE \E q \in Requests : Begin(q) \/ Open(q) \/ OpenFails(q)
    BY <1>3, ReadInv, CommitInv DEF Open
  <1> QED
    BY <1>1, <1>2, <1>3 DEF Next, Ended

(* A delivery link shows its result at most maxViews times and logs every  *)
(* view, for any number of requests at once (openLink's FOR UPDATE).       *)
THEOREM LinkViewsBounded == Spec => []ViewsBounded
  <1>1. DeliveryInv => ViewsBounded
    BY DEF DeliveryInv
  <1> QED
    BY <1>1, InitInv, NextInv, PTL DEF Spec

-----------------------------------------------------------------------------
(* A row has an expiry that never changes, and a job with an output.       *)
RowsHaveResults ==
  \A l \in Links : cpc[l] = "insert" \/ delivery_links[l] # None => l \in ready

(* A request past the checks came in before the expiry of its link.        *)
InTime(q) ==
  /\ began[q] <= now
  /\ pc[q] \in {"output", "commit"} \/ answer[q] = 200 =>
       target[q] \in Links /\ Row(q) # None /\ began[q] < Row(q).expires
  /\ answer[q] # 409

TimesInv == RowsHaveResults /\ \A q \in Requests : InTime(q)

(* The clock, the workers and createLink: they leave the rows that exist.  *)
LEMMA CreateKeepsTimes ==
  ASSUME DeliveryInv, TimesInv, Clock \/ \E l \in Links : Journaled(l) \/ Create(l)
  PROVE  TimesInv'
  <1>1. /\ UNCHANGED <<pc, target, began, answer>> /\ ready \subseteq ready'
        /\ now \in Nat /\ now' \in Nat /\ now <= now'
    BY DEF Clock, Journaled, Create, ParseLink, Refuse, CheckOutput, InsertLink, Creating,
           openVars, DeliveryInv, TypeOK
  <1>2. \A k \in Links : delivery_links[k] # None => delivery_links'[k] = delivery_links[k]
    BY SMTT(30) DEF Clock, Journaled, Create, ParseLink, Refuse, CheckOutput, InsertLink, Creating,
           DeliveryInv, CreateKnows, TypeOK
  <1>3. \A k \in Links :
          /\ cpc'[k] = "insert" => cpc[k] = "insert" \/ k \in ready
          /\ delivery_links'[k] # None => delivery_links[k] # None \/ cpc[k] = "insert"
    BY SMTT(30) DEF Clock, Journaled, Create, ParseLink, Refuse, CheckOutput, InsertLink, Creating,
           createVars, DeliveryInv, TypeOK
  <1>4. RowsHaveResults'
    BY <1>1, <1>3 DEF TimesInv, RowsHaveResults
  <1>5. ASSUME NEW q \in Requests PROVE InTime(q)'
    BY <1>1, <1>2 DEF TimesInv, InTime, Row, DeliveryInv, TypeOK
  <1> QED
    BY <1>4, <1>5 DEF TimesInv

(* openLink: the checks read the clock after the request came in.          *)
LEMMA OpenKeepsTimes ==
  ASSUME DeliveryInv, TimesInv, NEW q \in Requests, Begin(q) \/ Open(q) \/ OpenFails(q)
  PROVE  TimesInv'
  <1>1. TypeOK /\ OpenKnows /\ AdmittedHasView /\ RowsHaveResults /\ InTime(q)
    BY DEF DeliveryInv, TimesInv
  <1>2. UNCHANGED <<now, ready, cpc>>
    BY DEF Begin, Open, SelectLink, ReadOutput, CommitView, Rollback, OpenFails, createVars
  <1>3. \A p \in Requests \ {q} :
          /\ pc'[p] = pc[p] /\ target'[p] = target[p] /\ began'[p] = began[p]
          /\ answer'[p] = answer[p]
    BY <1>1 DEF Begin, Open, SelectLink, Admit, Reject, ReadOutput, CommitView, Rollback,
                OpenFails, Goto, TypeOK
  <1>4. \A l \in Links :
          /\ delivery_links[l] = None => delivery_links'[l] = None
          /\ delivery_links[l] # None =>
               delivery_links'[l] # None /\ delivery_links'[l].expires = delivery_links[l].expires
    <2>1. CASE CommitView(q)
      <3> DEFINE k == target[q]
      <3>1. k \in Links /\ delivery_links[k] \in LinkRow
        BY <1>1, <2>1 DEF CommitView, AdmittedHasView, OpenKnows, Row, TypeOK
      <3>2. delivery_links' = [delivery_links EXCEPT ![k] = [delivery_links[k] EXCEPT !.count = @ + 1]]
        BY <2>1 DEF CommitView
      <3>3. /\ [delivery_links[k] EXCEPT !.count = @ + 1] \in LinkRow
            /\ [delivery_links[k] EXCEPT !.count = @ + 1].expires = delivery_links[k].expires
        BY <3>1 DEF LinkRow
      <3> QED
        BY <1>1, <3>1, <3>2, <3>3, NoneIsNoLink DEF TypeOK
    <2>2. CASE ~CommitView(q)
      BY <2>2 DEF Begin, Open, SelectLink, ReadOutput, Rollback, OpenFails
    <2> QED
      BY <2>1, <2>2
  <1>5. RowsHaveResults'
    BY SMTT(30), <1>1, <1>2, <1>4 DEF RowsHaveResults
  <1>6. ASSUME NEW p \in Requests \ {q} PROVE InTime(p)'
    <2>1. InTime(p)
      BY DEF TimesInv
    <2>2. /\ now' = now /\ pc'[p] = pc[p] /\ target'[p] = target[p]
          /\ began'[p] = began[p] /\ answer'[p] = answer[p]
      BY Zenon, <1>2, <1>3
    <2>3. target[p] \in Links /\ Row(p) # None =>
            delivery_links'[target[p]] # None
            /\ delivery_links'[target[p]].expires = Row(p).expires
      BY Zenon, <1>4 DEF Row
    <2>4. /\ began'[p] <= now' /\ answer'[p] # 409
      BY Zenon, <2>1, <2>2 DEF InTime
    <2>5. ASSUME pc'[p] \in {"output", "commit"} \/ answer'[p] = 200
          PROVE  target'[p] \in Links /\ Row(p)' # None /\ began'[p] < Row(p)'.expires
      <3>1. target[p] \in Links /\ Row(p) # None /\ began[p] < Row(p).expires
        BY Zenon, <2>1, <2>2, <2>5 DEF InTime
      <3>2. Row(p)' = delivery_links'[target[p]]
        BY Zenon, <2>2 DEF Row
      <3> QED
        BY Zenon, <2>2, <2>3, <3>1, <3>2
    <2> QED
      BY Zenon, <2>4, <2>5 DEF InTime
  <1>7. InTime(q)'
    <2>1. CASE Begin(q)
      BY <1>1, <2>1 DEF Begin, Goto, InTime, TypeOK, OpenKnows
    <2>2. CASE SelectLink(q)
      BY <1>1, <2>2 DEF SelectLink, Admit, Reject, Goto, InTime, TypeOK, OpenKnows, Row, LinkRow
    <2>3. CASE ReadOutput(q)
      BY <1>1, <2>3 DEF ReadOutput, Reject, Goto, InTime, TypeOK, OpenKnows, Row, RowsHaveResults
    <2>4. CASE CommitView(q)
      BY <1>1, <1>4, <2>4 DEF CommitView, Goto, InTime, TypeOK, Row
    <2>5. CASE Rollback(q)
      BY <1>1, <2>5 DEF Rollback, Goto, InTime, TypeOK, Row
    <2>6. CASE OpenFails(q)
      BY <1>1, <2>6 DEF OpenFails, Reject, Goto, InTime, TypeOK, Row
    <2> QED
      BY <2>1, <2>2, <2>3, <2>4, <2>5, <2>6 DEF Open
  <1> QED
    BY <1>5, <1>6, <1>7 DEF TimesInv

(* TimesInv holds throughout.                                              *)
THEOREM TimesInvariant == Spec => []TimesInv
  <1>1. Init => TimesInv
    BY DEF Init, TimesInv, RowsHaveResults, InTime
  <1>2. DeliveryInv /\ TimesInv /\ [Next]_vars => TimesInv'
    <2> SUFFICES ASSUME DeliveryInv, TimesInv, [Next]_vars PROVE TimesInv'
      OBVIOUS
    <2>1. CASE UNCHANGED vars
      BY <2>1 DEF vars, createVars, openVars, TimesInv, RowsHaveResults, InTime, Row
    <2> QED
      BY <2>1, CreateKeepsTimes, OpenKeepsTimes DEF Next, Ended
  <1> QED
    BY <1>1, <1>2, InitInv, NextInv, PTL DEF Spec

(* openLink shows nothing to a request that came in after the expiry.      *)
THEOREM ExpiredLinksClosed == Spec => []ExpiredIsClosed
  <1>1. TimesInv => ExpiredIsClosed
    BY DEF TimesInv, InTime, ExpiredIsClosed
  <1> QED
    BY <1>1, TimesInvariant, PTL

(* openLink never finds that the job of a link has no output: createLink   *)
(* has looked for it, and journaled output stays.                          *)
THEOREM LinksHaveResults == Spec => []LinkHasResult
  <1>1. TimesInv => LinkHasResult
    BY DEF TimesInv, InTime, LinkHasResult
  <1> QED
    BY <1>1, TimesInvariant, PTL

-----------------------------------------------------------------------------
(* The detectors. What is kept does not overlap; a match that was dropped  *)
(* has one that is preferred to it and overlaps it, because matches come   *)
(* to the loop in the order of preference.                                 *)
Apart(s) == \A a, b \in s : a # b => a.end <= b.start \/ b.end <= a.start

Beaten(a) == \E b \in kept : Overlap(a, b) /\ Preferred(b, a)

InLine == \A i, j \in 1..Len(chosen) : i < j => chosen[i].end <= chosen[j].start

ScanInv ==
  /\ dpc \in {"Scan", "preferLonger", "sort", "Apply", "done"}
  /\ next \in Nat \ {0} /\ kinds \subseteq Kinds
  /\ spans \subseteq Span /\ rest \subseteq spans /\ kept \subseteq spans
  /\ \A a \in spans : a.start < a.end
  /\ chosen \in Seq(Span) /\ Apart(kept)

ChooseInv ==
  /\ dpc = "Scan" => kept = {} /\ rest = spans
  /\ dpc \in {"Scan", "preferLonger"} => chosen = <<>>
  /\ dpc = "preferLonger" =>
       /\ \A a \in kept, b \in rest : Preferred(a, b)
       /\ \A a \in spans \ (kept \cup rest) : Beaten(a)
  /\ dpc \in {"sort", "Apply", "done"} => InLine /\ \A a \in spans \ kept : Beaten(a)
  /\ dpc = "sort" => /\ kept = Won \cup rest
                     /\ \A a \in Won, b \in rest : a.end <= b.start
  /\ dpc \in {"Apply", "done"} => Won = kept

(* The pieces written so far stand for the line up to prev, where all the  *)
(* matches that were replaced end and the others have not begun.           *)
Piece == [as : {"bytes", "stars", "token"}, kind : 0..NumKinds, from : Nat, to : Nat]

Written(text, upTo, won, how) ==
  /\ text \in Seq(Piece) /\ Tiles(text, upTo)
  /\ \A i \in 1..Len(text) : Justified(text[i], won, how)

Output == [text : Seq(Piece), prev : 0..Length, counts : [Kinds -> Nat], panic : BOOLEAN]

Count(k) == {a \in kept \ rest : a.kind = k}

Counting == IF mode = "job" THEN Counted ELSE Kinds

ApplyInv ==
  /\ out \in Output
  /\ out.panic = FALSE
  /\ dpc \in {"Scan", "preferLonger", "sort"} => out = NothingWritten
  /\ dpc = "Apply" =>
       /\ mode \in Modes \cup {"job"}
       /\ rest \subseteq kept
       /\ \A a \in kept \ rest : a.end <= out.prev
       /\ \A b \in rest : out.prev <= b.start
       /\ mode = "job" => rest = {chosen[i] : i \in {j \in 1..Len(chosen) : j >= next}}
       /\ Written(out.text, out.prev, Won, mode)
       /\ \A k \in Counting : out.counts[k] = Cardinality(Count(k)) /\ IsFiniteSet(Count(k))

DetectInv == ScanInv /\ ChooseInv /\ ApplyInv /\ OnlyMatchesChange

(* The fields of a match.                                                  *)
LEMMA SpanFields ==
  \A a \in Span : a.start \in 0..Length /\ a.end \in 0..Length /\ a.kind \in Kinds
                  /\ a.start \in Int /\ a.end \in Int /\ a.kind \in Int
  BY DetectAssumption DEF Span, Kinds

(* The fields of what is written.                                          *)
LEMMA OutputTypes ==
  \A o \in Output : /\ o.text \in Seq(Piece) /\ o.prev \in 0..Length /\ o.prev \in Nat
                    /\ o.counts \in [Kinds -> Nat] /\ o.panic \in BOOLEAN
  <1>1. \A o \in Output : o.text \in Seq(Piece) /\ o.prev \in 0..Length
                          /\ o.counts \in [Kinds -> Nat] /\ o.panic \in BOOLEAN
    BY Zenon DEF Output
  <1>2. \A i \in 0..Length : i \in Nat
    BY DetectAssumption
  <1> QED
    BY Zenon, <1>1, <1>2

(* What a detector finds are matches that are not empty.                   *)
LEMMA FoundSpans ==
  ASSUME NEW k \in Kinds, NEW found \in detectors[k]
  PROVE  found \subseteq Span /\ \A a \in found : a.start < a.end
  <1>1. \A i : \A s \in regexSpans(i) : s \subseteq Span /\ \A a \in s : a.start < a.end
    BY Zenon DEF regexSpans
  <1>2. CASE k = IP
    <2>1. found \in findIP
      BY <1>2 DEF detectors
    <2>2. PICK s \in regexSpans(IP), t \in regexSpans(IP) : found = s \cup t
      BY SMT, <2>1 DEF findIP
    <2> QED
      BY Zenon, <1>1, <2>2
  <1>3. CASE k # IP
    <2>1. found \in regexSpans(k)
      BY <1>3 DEF detectors
    <2> QED
      BY Zenon, <1>1, <2>1
  <1> QED
    BY <1>2, <1>3

(* Nothing is preferred to itself.                                         *)
LEMMA PreferredStrict == \A a \in Span : ~Preferred(a, a)
  BY SpanFields DEF Preferred, Size

(* Matches that overlap are not apart.                                     *)
LEMMA OverlapOrApart ==
  \A a, b \in Span : ~Overlap(a, b) <=> a.end <= b.start \/ b.end <= a.start
  BY SpanFields DEF Overlap

(* The loop of Scan keeps the invariant.                                   *)
LEMMA ScanStep == DetectInv /\ Scan => DetectInv'
  <1> SUFFICES ASSUME DetectInv, Scan PROVE DetectInv'
    OBVIOUS
  <1>1. /\ dpc = "Scan" /\ next' = next + 1 /\ rest' = spans' /\ dpc' \in {"Scan", "preferLonger"}
        /\ kinds' = kinds /\ kept' = kept /\ chosen' = chosen /\ mode' = mode /\ out' = out
    BY DEF Scan
  <1>2. ScanInv /\ kept = {} /\ rest = spans /\ chosen = <<>> /\ out = NothingWritten
        /\ ApplyInv
    BY <1>1 DEF DetectInv, ChooseInv, ApplyInv
  <1>3. spans' \subseteq Span /\ \A a \in spans' : a.start < a.end
    <2>1. CASE next \in kinds
      <3>1. PICK found \in detectors[next] : spans' = spans \cup found
        BY <2>1 DEF Scan
      <3>2. next \in Kinds
        BY <1>2, <2>1 DEF ScanInv
      <3> QED
        BY Zenon, <1>2, <3>1, <3>2, FoundSpans DEF ScanInv
    <2>2. CASE next \notin kinds
      <3>1. spans' = spans
        BY <2>2 DEF Scan
      <3> QED
        BY Zenon, <1>2, <3>1 DEF ScanInv
    <2> QED
      BY <2>1, <2>2
  <1>4. next' \in Nat \ {0}
    BY <1>1, <1>2 DEF ScanInv
  <1>5. ScanInv'
    <2>1. dpc' \in {"Scan", "preferLonger", "sort", "Apply", "done"}
      BY <1>1
    <2> QED
      BY Zenon, <1>1, <1>2, <1>3, <1>4, <2>1 DEF ScanInv, Apart
  <1>6. dpc' # "sort" /\ dpc' # "Apply" /\ dpc' # "done"
    BY <1>1
  <1>7. ChooseInv'
    BY Zenon, <1>1, <1>2, <1>6 DEF ChooseInv
  <1>8. ApplyInv'
    BY Zenon, <1>1, <1>2, <1>6 DEF ApplyInv
  <1>9. OnlyMatchesChange'
    BY Zenon, <1>6 DEF OnlyMatchesChange
  <1> QED
    BY <1>5, <1>7, <1>8, <1>9 DEF DetectInv

(* The loop of preferLonger keeps it.                                      *)
LEMMA preferLongerStep == DetectInv /\ preferLonger => DetectInv'
  <1> SUFFICES ASSUME DetectInv, preferLonger PROVE DetectInv'
    OBVIOUS
  <1>1. /\ dpc = "preferLonger" /\ next' = next /\ kinds' = kinds /\ spans' = spans
        /\ chosen' = chosen /\ mode' = mode /\ out' = out
    BY DEF preferLonger, scanVars
  <1>2. /\ ScanInv /\ chosen = <<>> /\ out = NothingWritten /\ ApplyInv
        /\ \A a \in kept, b \in rest : Preferred(a, b)
        /\ \A a \in spans \ (kept \cup rest) : Beaten(a)
    BY <1>1 DEF DetectInv, ChooseInv, ApplyInv
  <1>3. ASSUME dpc' \in {"preferLonger", "sort"}, rest' \subseteq spans, kept' \subseteq spans,
               Apart(kept'), ChooseInv'
        PROVE  DetectInv'
    <2>1. dpc' \in {"Scan", "preferLonger", "sort", "Apply", "done"} /\ dpc' # "Apply" /\ dpc' # "done"
      BY <1>3
    <2>2. ScanInv'
      BY Zenon, <1>1, <1>2, <1>3, <2>1 DEF ScanInv, Apart
    <2>3. ApplyInv'
      BY Zenon, <1>1, <1>2, <2>1 DEF ApplyInv
    <2>4. OnlyMatchesChange'
      BY Zenon, <2>1 DEF OnlyMatchesChange
    <2> QED
      BY <1>3, <2>2, <2>3, <2>4 DEF DetectInv
  <1>4. CASE rest = {} /\ rest' = kept /\ dpc' = "sort" /\ UNCHANGED kept
    <2>1. Won' = {} /\ InLine'
      BY <1>1, <1>2 DEF Won, InLine
    <2>2. \A a \in spans' \ kept' : Beaten(a)'
      BY Zenon, <1>1, <1>2, <1>4 DEF Beaten
    <2>3. dpc' # "Scan" /\ dpc' # "preferLonger" /\ dpc' # "Apply" /\ dpc' # "done"
      BY <1>4
    <2>4. ChooseInv'
      BY Zenon, <1>4, <2>1, <2>2, <2>3 DEF ChooseInv
    <2>5. Apart(kept') /\ kept' \subseteq spans /\ rest' \subseteq spans
      BY Zenon, <1>2, <1>4 DEF ScanInv
    <2>6. dpc' \in {"preferLonger", "sort"}
      BY <1>4
    <2> QED
      BY <1>3, <2>4, <2>5, <2>6
  <1>5. ASSUME NEW a \in rest, First(a, Preferred), rest' = rest \ {a}, dpc' = dpc,
               kept' = IF a.end <= a.start \/ \E c \in kept : Overlap(a, c)
                       THEN kept ELSE kept \cup {a}
        PROVE  DetectInv'
    <2>1. a \in Span /\ a \in spans /\ rest \subseteq spans /\ kept \subseteq spans /\ kept \subseteq Span
          /\ a.start < a.end /\ spans \subseteq Span
      BY Zenon, <1>2 DEF ScanInv
    <2>2. ~(a.end <= a.start)
      BY <2>1, SpanFields
    <2>3. kept' = IF \E c \in kept : Overlap(a, c) THEN kept ELSE kept \cup {a}
      BY Zenon, <1>5, <2>2
    <2>4. kept' \subseteq spans /\ rest' \subseteq spans /\ kept \subseteq kept' /\ kept' \subseteq kept \cup {a}
      BY Zenon, <1>5, <2>1, <2>3
    <2>5. Apart(kept')
      <3>1. Apart(kept)
        BY <1>2 DEF ScanInv
      <3>2. CASE \E c \in kept : Overlap(a, c)
        BY Zenon, <2>3, <3>1, <3>2
      <3>3. CASE ~\E c \in kept : Overlap(a, c)
        <4>1. \A c \in kept : a.end <= c.start \/ c.end <= a.start
          BY Zenon, <2>1, <3>3, OverlapOrApart
        <4> QED
          BY Zenon, <2>4, <3>1, <4>1 DEF Apart
      <3> QED
        BY <3>2, <3>3
    <2>6. \A b \in rest' : Preferred(a, b)
      BY Zenon, <1>5 DEF First
    <2>7. \A c \in kept', b \in rest' : Preferred(c, b)
      BY Zenon, <1>2, <1>5, <2>4, <2>6
    <2>8. \A b \in spans' \ (kept' \cup rest') : Beaten(b)'
      <3>1. \A b : Beaten(b) => Beaten(b)'
        BY Zenon, <2>4 DEF Beaten
      <3>2. a \notin kept' => Beaten(a)
        <4>1. a \notin kept' => \E c \in kept : Overlap(a, c)
          BY Zenon, <2>3
        <4> QED
          BY Zenon, <1>2, <4>1 DEF Beaten
      <3> QED
        BY Zenon, <1>1, <1>2, <1>5, <2>4, <3>1, <3>2
    <2>9. ChooseInv'
      <3>1. dpc' = "preferLonger" /\ dpc' # "Scan" /\ dpc' # "sort" /\ dpc' # "Apply" /\ dpc' # "done"
        BY <1>1, <1>5
      <3> QED
        BY Zenon, <1>1, <1>2, <2>7, <2>8, <3>1 DEF ChooseInv
    <2>10. dpc' \in {"preferLonger", "sort"}
      BY <1>1, <1>5
    <2> QED
      BY <1>3, <2>4, <2>5, <2>9, <2>10
  <1> QED
    BY Zenon, <1>4, <1>5 DEF preferLonger

(* A match that sort.Slice puts last ends the sequence of the chosen.      *)
LEMMA AppendSpan ==
  ASSUME NEW s \in Seq(Span), NEW a \in Span
  PROVE  /\ Append(s, a) \in Seq(Span)
         /\ {Append(s, a)[i] : i \in 1..Len(Append(s, a))} = {s[i] : i \in 1..Len(s)} \cup {a}
         /\ (\A i, j \in 1..Len(s) : i < j => s[i].end <= s[j].start)
            /\ (\A i \in 1..Len(s) : s[i].end <= a.start)
            => \A i, j \in 1..Len(Append(s, a)) :
                 i < j => Append(s, a)[i].end <= Append(s, a)[j].start
  <1> DEFINE t == Append(s, a)
  <1>1. Len(s) \in Nat /\ Len(t) = Len(s) + 1 /\ t \in Seq(Span)
    OBVIOUS
  <1>2. t[Len(s) + 1] = a /\ \A i \in 1..Len(s) : t[i] = s[i]
    OBVIOUS
  <1> HIDE DEF t
  <1>3. \A i \in 1..Len(t) : i \in 1..Len(s) \/ i = Len(s) + 1
    BY <1>1
  <1>4. Len(s) + 1 \in 1..Len(t) /\ \A i \in 1..Len(s) : i \in 1..Len(t)
    BY <1>1
  <1>5. {t[i] : i \in 1..Len(t)} = {s[i] : i \in 1..Len(s)} \cup {a}
    BY Zenon, <1>2, <1>3, <1>4
  <1>6. ASSUME \A i, j \in 1..Len(s) : i < j => s[i].end <= s[j].start,
               \A i \in 1..Len(s) : s[i].end <= a.start,
               NEW i \in 1..Len(t), NEW j \in 1..Len(t), i < j
        PROVE  t[i].end <= t[j].start
    <2>1. i \in 1..Len(s)
      BY <1>1, <1>6
    <2>2. CASE j \in 1..Len(s)
      BY Zenon, <1>2, <1>6, <2>1, <2>2
    <2>3. CASE j = Len(s) + 1
      BY Zenon, <1>2, <1>6, <2>1, <2>3
    <2> QED
      BY <1>3, <2>2, <2>3
  <1> QED
    BY Zenon, <1>1, <1>5, <1>6 DEF t

(* Of matches that are apart, the one that begins first ends before the    *)
(* others begin.                                                           *)
LEMMA FirstEnds ==
  ASSUME NEW s \in SUBSET Span, Apart(s), \A a \in s : a.start < a.end,
         NEW a \in s, \A b \in s \ {a} : ByStart(a, b)
  PROVE  \A b \in s \ {a} : a.end <= b.start
  <1> SUFFICES ASSUME NEW b \in s, b # a PROVE a.end <= b.start
    BY Zenon
  <1>1. a.start < b.start
    BY Zenon DEF ByStart
  <1>2. a.end <= b.start \/ b.end <= a.start
    BY Zenon DEF Apart
  <1>3. b.start < b.end
    OBVIOUS
  <1> QED
    BY <1>1, <1>2, <1>3, SpanFields

(* The last sort of preferLonger keeps the invariant, and so does the      *)
(* call of Apply or of applySpans, which begins with nothing written.      *)
LEMMA SortStep == DetectInv /\ SortChosen => DetectInv'
  <1> SUFFICES ASSUME DetectInv, SortChosen PROVE DetectInv'
    OBVIOUS
  <1>1. dpc = "sort" /\ kinds' = kinds /\ spans' = spans /\ kept' = kept /\ out' = out
    BY DEF SortChosen, scanVars
  <1>2. /\ ScanInv /\ InLine /\ kept = Won \cup rest /\ out = NothingWritten /\ ApplyInv
        /\ \A a \in Won, b \in rest : a.end <= b.start
        /\ \A a \in spans \ kept : Beaten(a)
    BY <1>1 DEF DetectInv, ChooseInv, ApplyInv
  <1>3. \A a \in spans' \ kept' : Beaten(a)'
    BY Zenon, <1>1, <1>2 DEF Beaten
  <1>4. spans \subseteq Span /\ kept \subseteq spans /\ rest \subseteq kept /\ Apart(kept)
        /\ Apart(rest) /\ rest \subseteq Span /\ rest \in SUBSET Span /\ \A a \in rest : a.start < a.end
    BY Zenon, <1>2 DEF ScanInv, Apart
  <1>5. ASSUME NEW a \in rest, First(a, ByStart), rest' = rest \ {a}, chosen' = Append(chosen, a),
               dpc' = dpc, next' = next, mode' = mode
        PROVE  DetectInv'
    <2>1. a \in Span /\ chosen \in Seq(Span)
      BY Zenon, <1>2, <1>4 DEF ScanInv
    <2>2. \A b \in rest' : a.end <= b.start
      BY Zenon, <1>4, <1>5, FirstEnds DEF First
    <2>3. chosen' \in Seq(Span) /\ Won' = Won \cup {a}
      <3>1. Won = {chosen[i] : i \in 1..Len(chosen)} /\ Won' = {chosen'[i] : i \in 1..Len(chosen')}
        BY DEF Won
      <3> HIDE DEF Won
      <3>2. {Append(chosen, a)[i] : i \in 1..Len(Append(chosen, a))}
              = {chosen[i] : i \in 1..Len(chosen)} \cup {a}
            /\ Append(chosen, a) \in Seq(Span)
        BY ONLY Zenon, <2>1, AppendSpan
      <3> QED
        BY Zenon, <1>5, <3>1, <3>2
    <2>4. InLine'
      <3>1. \A i \in 1..Len(chosen) : chosen[i].end <= a.start
        BY Zenon, <1>2 DEF Won
      <3> QED
        BY Zenon, <1>2, <1>5, <2>1, <3>1, AppendSpan DEF InLine
    <2>5. kept' = Won' \cup rest' /\ \A c \in Won', b \in rest' : c.end <= b.start
      BY Zenon, <1>1, <1>2, <1>5, <2>2, <2>3
    <2>6. dpc' = "sort" /\ dpc' # "Scan" /\ dpc' # "preferLonger" /\ dpc' # "Apply" /\ dpc' # "done"
          /\ dpc' \in {"Scan", "preferLonger", "sort", "Apply", "done"}
      BY <1>1, <1>5
    <2>7. ScanInv'
      BY Zenon, <1>1, <1>2, <1>4, <1>5, <2>3, <2>6 DEF ScanInv
    <2>8. ChooseInv'
      BY Zenon, <1>3, <2>4, <2>5, <2>6 DEF ChooseInv
    <2>9. ApplyInv'
      BY Zenon, <1>1, <1>2, <2>6 DEF ApplyInv
    <2>10. OnlyMatchesChange'
      BY Zenon, <2>6 DEF OnlyMatchesChange
    <2> QED
      BY <2>7, <2>8, <2>9, <2>10 DEF DetectInv
  <1>6. ASSUME rest = {}, rest' = kept, dpc' = "Apply", next' = 1, mode' \in Modes \cup {"job"},
               chosen' = chosen
        PROVE  DetectInv'
    <2>1. dpc' # "Scan" /\ dpc' # "preferLonger" /\ dpc' # "sort" /\ dpc' # "done"
          /\ dpc' \in {"Scan", "preferLonger", "sort", "Apply", "done"} /\ next' \in Nat \ {0}
      BY <1>6
    <2>2. Won' = Won /\ Won = kept /\ InLine'
      BY Zenon, <1>2, <1>6 DEF Won, InLine
    <2>3. ScanInv'
      BY Zenon, <1>1, <1>2, <1>4, <1>6, <2>1 DEF ScanInv
    <2>4. ChooseInv'
      BY Zenon, <1>1, <1>3, <2>1, <2>2 DEF ChooseInv
    <2>5. ApplyInv'
      <3>1. kept' \ rest' = {}
        BY Zenon, <1>1, <1>6
      <3>2. rest' = {chosen'[i] : i \in {j \in 1..Len(chosen') : j >= next'}}
        <4>1. Len(chosen) \in Nat
          BY <1>2 DEF ScanInv
        <4>2. {j \in 1..Len(chosen') : j >= next'} = 1..Len(chosen)
          BY <1>6, <4>1
        <4> QED
          BY Zenon, <1>6, <2>2, <4>2 DEF Won
      <3>3. out.text = <<>> /\ out.prev = 0 /\ out.counts = [k \in Kinds |-> 0]
        BY <1>2 DEF NothingWritten
      <3>4. Written(out.text, out.prev, Won, mode)'
        BY <1>1, <3>3 DEF Written, Tiles
      <3>5. \A b \in rest' : out'.prev <= b.start
        BY <1>1, <1>4, <1>6, <3>3, SpanFields
      <3>6. \A k : Count(k)' = {}
        BY Zenon, <3>1 DEF Count
      <3>7. \A k \in Counting' : out'.counts[k] = Cardinality(Count(k)') /\ IsFiniteSet(Count(k)')
        <4>1. \A k \in Counting' : k \in Kinds
          BY DetectAssumption DEF Counting, Kinds
        <4>2. \A k \in Kinds : out'.counts[k] = 0
          BY Zenon, <1>1, <3>3
        <4> QED
          BY Zenon, <3>6, <4>1, <4>2, FS_EmptySet
      <3> QED
        BY Zenon, <1>1, <1>2, <1>6, <2>1, <3>1, <3>2, <3>4, <3>5, <3>7 DEF ApplyInv
    <2>6. OnlyMatchesChange'
      <3>1. ~out'.panic
        BY Zenon, <1>1, <1>2 DEF ApplyInv
      <3> QED
        BY Zenon, <2>1, <3>1 DEF OnlyMatchesChange
    <2> QED
      BY <2>3, <2>4, <2>5, <2>6 DEF DetectInv
  <1> QED
    BY Zenon, <1>5, <1>6 DEF SortChosen

-----------------------------------------------------------------------------
(* A piece that begins where the text ends makes it longer.                *)
LEMMA WrittenMore ==
  ASSUME NEW won, NEW how, NEW text, NEW m \in Nat, Written(text, m, won, how),
         NEW x \in Piece, x.from = m, x.from <= x.to, Justified(x, won, how)
  PROVE  Written(Append(text, x), x.to, won, how)
  <1> DEFINE t == Append(text, x)
             n == Len(text)
  <1>1. text \in Seq(Piece) /\ Tiles(text, m) /\ \A i \in 1..n : Justified(text[i], won, how)
    BY Zenon DEF Written
  <1>2. n \in Nat /\ Len(t) = n + 1 /\ t \in Seq(Piece) /\ t # <<>> /\ (text = <<>> <=> n = 0)
    <2>1. n \in Nat /\ Len(t) = n + 1 /\ t \in Seq(Piece)
      BY <1>1
    <2>2. text = <<>> <=> n = 0
      BY <1>1
    <2>3. Len(<<>>) = 0 /\ n + 1 # 0
      BY <2>1
    <2>4. t # <<>>
      BY Zenon, <2>1, <2>3
    <2> QED
      BY <2>1, <2>2, <2>4
  <1>3. t[n + 1] = x /\ \A i \in 1..n : t[i] = text[i]
    BY <1>1
  <1> HIDE DEF t, n
  <1>4. \A i \in 1..Len(t) : i \in 1..n \/ i = n + 1
    BY <1>2
  <1>5. \A i \in 1..Len(t) : Justified(t[i], won, how)
    BY Zenon, <1>1, <1>3, <1>4
  <1>6. \A i \in 1..Len(t) : t[i].from <= t[i].to
    BY Zenon, <1>1, <1>3, <1>4 DEF Tiles, n
  <1>7. t[1].from = 0 /\ t[Len(t)].to = x.to
    <2>1. CASE n = 0
      BY <1>1, <1>2, <1>3, <2>1 DEF Tiles
    <2>2. CASE n # 0
      <3>1. 1 \in 1..n
        BY <1>2, <2>2
      <3> QED
        BY Zenon, <1>1, <1>2, <1>3, <2>2, <3>1 DEF Tiles
    <2> QED
      BY <2>1, <2>2
  <1>8. ASSUME NEW i \in 1..(Len(t) - 1) PROVE t[i].to = t[i + 1].from
    <2>1. i \in 1..n /\ (i = n \/ (i \in 1..(n - 1) /\ i + 1 \in 1..n))
      <3>1. Len(t) - 1 = n /\ n \in Nat
        BY <1>2
      <3>2. i \in 1..n
        BY Zenon, <1>8, <3>1
      <3>3. i = n \/ i \in 1..(n - 1)
        BY <3>1, <3>2
      <3>4. ASSUME i # n PROVE i + 1 \in 1..n
        BY <3>1, <3>2, <3>4
      <3> QED
        BY Zenon, <3>2, <3>3, <3>4
    <2>2. CASE i = n
      <3>1. text # <<>>
        BY <1>2, <2>1, <2>2
      <3>2. text[n].to = m
        BY Zenon, <1>1, <3>1 DEF Tiles, n
      <3> QED
        BY Zenon, <1>3, <2>1, <2>2, <3>2
    <2>3. CASE i \in 1..(n - 1) /\ i + 1 \in 1..n
      <3>1. text[i].to = text[i + 1].from
        BY Zenon, <1>1, <2>3 DEF Tiles, n
      <3> QED
        BY Zenon, <1>3, <2>1, <2>3, <3>1
    <2> QED
      BY <2>1, <2>2, <2>3
  <1>9. Tiles(t, x.to)
    BY Zenon, <1>2, <1>6, <1>7, <1>8 DEF Tiles
  <1> QED
    BY Zenon, <1>2, <1>5, <1>9 DEF Written, t

(* Writing one piece or two is appending them.                             *)
LEMMA AppendPieces ==
  ASSUME NEW s \in Seq(Piece), NEW x \in Piece, NEW y \in Piece
  PROVE  /\ s \o <<x>> = Append(s, x)
         /\ s \o <<x, y>> = Append(Append(s, x), y)
  OBVIOUS

(* The text before a match and what replaces it are justified.             *)
LEMMA ReplacedWritten ==
  ASSUME ScanInv, ApplyInv, Won = kept, dpc = "Apply",
         NEW a \in rest, \A b \in rest \ {a} : a.end <= b.start
  PROVE  Written(Append(out.text, Bytes(out.prev, a.start)) \o Replacement(a), a.end,
                 Won, mode)
  <1> DEFINE before == Bytes(out.prev, a.start)
  <1>1. /\ rest \subseteq kept /\ kept \subseteq Span /\ mode \in Modes \cup {"job"}
        /\ \A b \in kept \ rest : b.end <= out.prev
        /\ out.prev <= a.start /\ a.start < a.end /\ Written(out.text, out.prev, Won, mode)
    BY Zenon DEF ScanInv, ApplyInv
  <1>2. a \in Span /\ a \in Won /\ a.start \in 0..Length /\ a.end \in 0..Length /\ a.kind \in Kinds
    BY Zenon, <1>1, SpanFields
  <1>3. out.prev \in 0..Length
    BY Zenon, OutputTypes DEF ApplyInv
  <1>4. Length \in Nat /\ Readable \in Nat /\ NumKinds \in Nat
    BY DetectAssumption
  <1>5. \A b \in Won : b.start \in 0..Length /\ b.end \in 0..Length
                       /\ (b = a \/ b.end <= out.prev \/ a.end <= b.start)
    BY Zenon, <1>1, SpanFields
  <1>6. ASSUME NEW p \in out.prev..(a.start - 1) PROVE MayShow(p, Won, mode)
    BY <1>1, <1>2, <1>3, <1>4, <1>5, <1>6 DEF MayShow
  <1>7. before \in Piece /\ before.from = out.prev /\ before.to = a.start /\ Justified(before, Won, mode)
    <2>1. before \in Piece /\ before.from = out.prev /\ before.to = a.start /\ before.as = "bytes"
      BY <1>2, <1>3, <1>4 DEF Piece, Bytes
    <2> QED
      BY <1>6, <2>1 DEF Justified
  <1>8. Written(Append(out.text, before), a.start, Won, mode) /\ Append(out.text, before) \in Seq(Piece)
    <2>1. out.prev \in Nat
      BY <1>3, <1>4
    <2>2. Written(Append(out.text, before), a.start, Won, mode)
      BY Zenon, <1>1, <1>7, <2>1, WrittenMore
    <2> QED
      BY Zenon, <2>2 DEF Written
  <1> DEFINE t == Append(out.text, before)
  <1> HIDE DEF before, t
  <1>9. t \in Seq(Piece) /\ Written(t, a.start, Won, mode) /\ a.start \in Nat
    <2>1. a.start \in Nat
      BY <1>2, <1>4
    <2> QED
      BY Zenon, <1>8, <2>1 DEF t
  <1>10. ASSUME NEW x \in Piece, x.from = a.start, x.to = a.end, Justified(x, Won, mode)
         PROVE  Written(t \o <<x>>, a.end, Won, mode)
    <2>1. x.from <= x.to
      BY <1>1, <1>2, <1>10
    <2>2. Written(Append(t, x), a.end, Won, mode)
      BY Zenon, <1>9, <1>10, <2>1, WrittenMore
    <2> QED
      BY Zenon, <1>9, <1>10, <2>2, AppendPieces
  <1>11. ASSUME mode = "partial", NEW p \in a.start..(a.end - 1),
                Size(a) <= Readable \/ p >= a.end - Readable
         PROVE  MayShow(p, Won, mode)
    BY <1>1, <1>2, <1>3, <1>4, <1>5, <1>11 DEF MayShow
  <1>12. CASE mode = "partial" /\ Size(a) <= Readable
    <2> DEFINE x == Bytes(a.start, a.end)
    <2>1. x \in Piece /\ x.from = a.start /\ x.to = a.end /\ x.as = "bytes"
      <3>1. 0 \in 0..NumKinds /\ a.start \in Nat /\ a.end \in Nat
        BY <1>2, <1>4
      <3> QED
        BY Zenon, <3>1 DEF Piece, Bytes
    <2> HIDE DEF x
    <2>2. Justified(x, Won, mode)
      BY <1>11, <1>12, <2>1 DEF Justified
    <2>3. Replacement(a) = <<x>>
      BY Zenon, <1>12 DEF Replacement, partial, x
    <2> QED
      BY Zenon, <1>10, <2>1, <2>2, <2>3 DEF t, before
  <1>13. CASE mode = "partial" /\ ~(Size(a) <= Readable)
    <2> DEFINE cut == a.end - Readable
               x == Stars(a.start, cut)
               y == Bytes(cut, a.end)
    <2>1. cut \in Nat /\ a.start < cut /\ cut <= a.end /\ cut \in 0..Length
      BY <1>2, <1>4, <1>13 DEF Size
    <2>2. x \in Piece /\ x.from = a.start /\ x.to = cut /\ x.as = "stars"
      <3>1. 0 \in 0..NumKinds /\ a.start \in Nat
        BY <1>2, <1>4
      <3> QED
        BY Zenon, <2>1, <3>1 DEF Piece, Stars
    <2>3. y \in Piece /\ y.from = cut /\ y.to = a.end /\ y.as = "bytes"
      <3>1. 0 \in 0..NumKinds /\ a.end \in Nat
        BY <1>2, <1>4
      <3> QED
        BY Zenon, <2>1, <3>1 DEF Piece, Bytes
    <2>4. \A p \in cut..(a.end - 1) : p \in a.start..(a.end - 1) /\ p >= cut
      BY <1>2, <1>4, <2>1
    <2>5. Replacement(a) = <<x, y>>
      BY Zenon, <1>13 DEF Replacement, partial
    <2>6. Justified(x, Won, mode)
      BY <1>2, <1>13, <2>2 DEF Justified
    <2>7. Justified(y, Won, mode)
      BY SMTT(30), <1>11, <1>13, <2>3, <2>4 DEF Justified
    <2>8. x.from <= x.to /\ y.from <= y.to
      BY <1>2, <1>4, <2>1, <2>2, <2>3
    <2> HIDE DEF cut, x, y
    <2>9. Written(Append(t, x), cut, Won, mode)
      BY Zenon, <1>9, <2>2, <2>6, <2>8, WrittenMore
    <2>10. Written(Append(Append(t, x), y), a.end, Won, mode)
      BY Zenon, <2>1, <2>3, <2>7, <2>8, <2>9, WrittenMore
    <2>11. t \o <<x, y>> = Append(Append(t, x), y)
      BY Zenon, <1>9, <2>2, <2>3, AppendPieces
    <2> QED
      BY Zenon, <2>5, <2>10, <2>11 DEF t, before
  <1>14. CASE mode # "partial"
    <2> DEFINE x == Token(a)
    <2>1. x \in Piece /\ x.from = a.start /\ x.to = a.end /\ x.as = "token"
      <3>1. a.kind \in 0..NumKinds /\ a.start \in Nat /\ a.end \in Nat
        BY <1>2, <1>4 DEF Kinds
      <3> QED
        BY Zenon, <3>1 DEF Piece, Token
    <2>2. Justified(x, Won, mode)
      BY <1>2, <1>14, <2>1 DEF Justified
    <2>3. Replacement(a) = <<x>>
      BY Zenon, <1>14 DEF Replacement
    <2> HIDE DEF x
    <2> QED
      BY Zenon, <1>10, <2>1, <2>2, <2>3 DEF t, before
  <1> QED
    BY Zenon, <1>12, <1>13, <1>14

(* One more match replaced: the step that Apply and applySpans share.      *)
LEMMA ReplaceStep ==
  ASSUME DetectInv, dpc = "Apply", dpc' = dpc, next' \in Nat \ {0},
         UNCHANGED <<scanVars, kept, chosen, mode>>,
         NEW a \in rest, \A b \in rest \ {a} : a.end <= b.start, rest' = rest \ {a},
         mode = "job" => rest' = {chosen[i] : i \in {j \in 1..Len(chosen) : j >= next'}},
         out' = IF a.kind \in Counting THEN [Replaced(a) EXCEPT !.counts[a.kind] = @ + 1]
                ELSE Replaced(a)
  PROVE  DetectInv'
  <1>1. kinds' = kinds /\ spans' = spans /\ kept' = kept /\ chosen' = chosen /\ mode' = mode
    BY DEF scanVars
  <1>2. ScanInv /\ ChooseInv /\ ApplyInv /\ Won = kept
    BY DEF DetectInv, ChooseInv
  <1>3. /\ mode \in Modes \cup {"job"} /\ rest \subseteq kept /\ kept \subseteq spans
        /\ spans \subseteq Span /\ \A b \in kept \ rest : b.end <= out.prev
        /\ out.prev <= a.start /\ a.start < a.end
        /\ \A k \in Counting : out.counts[k] = Cardinality(Count(k)) /\ IsFiniteSet(Count(k))
    BY Zenon, <1>2 DEF ScanInv, ApplyInv
  <1>4. a \in Span /\ a \in kept /\ a.start \in 0..Length /\ a.end \in 0..Length /\ a.kind \in Kinds
    BY Zenon, <1>3, SpanFields
  <1>5. Won' = Won /\ Counting' = Counting
    BY Zenon, <1>1 DEF Won, Counting
  <1>6. dpc' # "Scan" /\ dpc' # "preferLonger" /\ dpc' # "sort" /\ dpc' # "done" /\ dpc' = "Apply"
        /\ dpc' \in {"Scan", "preferLonger", "sort", "Apply", "done"}
    OBVIOUS
  <1>7. ScanInv'
    BY Zenon, <1>1, <1>2, <1>6 DEF ScanInv
  <1>8. ChooseInv'
    <2>1. InLine /\ \A b \in spans \ kept : Beaten(b)
      BY <1>2 DEF ChooseInv
    <2>2. InLine' /\ \A b \in spans' \ kept' : Beaten(b)'
      BY Zenon, <1>1, <2>1 DEF InLine, Beaten
    <2> QED
      BY Zenon, <1>1, <1>2, <1>5, <1>6, <2>2 DEF ChooseInv
  <1> DEFINE text == Append(out.text, Bytes(out.prev, a.start)) \o Replacement(a)
  <1>9. Written(text, a.end, Won, mode)
    BY Zenon, <1>2, ReplacedWritten
  <1>10. text \in Seq(Piece)
    BY Zenon, <1>9 DEF Written
  <1>11. out \in Output
         /\ out.panic = FALSE
    BY <1>2 DEF ApplyInv
  <1> HIDE DEF text
  <1>12. /\ out' \in Output
         /\ out'.text = text /\ out'.prev = a.end /\ out'.panic = FALSE
         /\ out'.counts = IF a.kind \in Counting THEN [out.counts EXCEPT ![a.kind] = @ + 1]
                          ELSE out.counts
    <2> DEFINE r == Replaced(a)
    <2>1. r = [out EXCEPT !.text = text, !.prev = a.end]
      BY Zenon DEF Replaced, text
    <2>2. out' = IF a.kind \in Counting THEN [r EXCEPT !.counts[a.kind] = @ + 1] ELSE r
      BY Zenon
    <2> HIDE DEF r
    <2>3. r \in Output /\ r.text = text /\ r.prev = a.end /\ r.panic = FALSE /\ r.counts = out.counts
      <3>1. a.end \in 0..Length /\ text \in Seq(Piece) /\ out \in Output /\ out.panic = FALSE
        BY Zenon, <1>4, <1>10, <1>11
      <3> QED
        BY ONLY Zenon, <2>1, <3>1 DEF Output
    <2>4. CASE a.kind \in Counting
      <3>1. out' = [r EXCEPT !.counts[a.kind] = @ + 1]
        BY Zenon, <2>2, <2>4
      <3>2. out' \in Output /\ out'.text = r.text /\ out'.prev = r.prev /\ out'.panic = r.panic
            /\ out'.counts = [r.counts EXCEPT ![a.kind] = @ + 1]
        <4> DEFINE more == [r.counts EXCEPT ![a.kind] = @ + 1]
        <4>1. r.counts \in [Kinds -> Nat] /\ a.kind \in Kinds
          BY Zenon, <1>4, <2>3, OutputTypes
        <4>2. more \in [Kinds -> Nat]
          BY ONLY <4>1
        <4>3. out' = [r EXCEPT !.counts = more]
          BY ONLY Zenon, <3>1
        <4> HIDE DEF more
        <4>4. out' \in Output /\ out'.text = r.text /\ out'.prev = r.prev /\ out'.panic = r.panic
              /\ out'.counts = more
          BY ONLY Zenon, <2>3, <4>2, <4>3 DEF Output
        <4> QED
          BY Zenon, <4>4 DEF more
      <3> QED
        BY Zenon, <2>3, <2>4, <3>2
    <2>5. CASE a.kind \notin Counting
      BY Zenon, <2>2, <2>3, <2>5
    <2> QED
      BY Zenon, <2>4, <2>5
  <1>13. Written(out.text, out.prev, Won, mode)'
    BY Zenon, <1>1, <1>5, <1>9, <1>12
  <1>14. rest' \subseteq kept' /\ \A b \in rest' : out'.prev <= b.start
    BY Zenon, <1>1, <1>3, <1>12
  <1>15. \A b \in kept' \ rest' : b.end <= out'.prev
    <2>1. ASSUME NEW b \in kept, b \notin rest PROVE b.end <= a.end
      <3>1. b.end <= out.prev /\ b.end \in 0..Length /\ out.prev \in 0..Length
        BY Zenon, <1>3, <1>11, <2>1, SpanFields, OutputTypes
      <3> QED
        BY <1>3, <1>4, <3>1, DetectAssumption
    <2>2. a.end <= a.end
      BY <1>4
    <2> QED
      BY Zenon, <1>1, <1>12, <2>1, <2>2
  <1>16. \A k \in Counting' : out'.counts[k] = Cardinality(Count(k)') /\ IsFiniteSet(Count(k)')
    <2> TAKE k \in Counting'
    <2>1. k \in Counting /\ k \in Kinds
      BY <1>5, DetectAssumption DEF Counting, Kinds
    <2>2. out.counts[k] = Cardinality(Count(k)) /\ IsFiniteSet(Count(k)) /\ a \notin Count(k)
      BY Zenon, <1>3, <2>1 DEF Count
    <2>3. CASE k = a.kind
      <3>1. Count(k)' = Count(k) \cup {a}
        BY Zenon, <1>1, <1>4, <2>3 DEF Count
      <3>2. Cardinality(Count(k)') = Cardinality(Count(k)) + 1 /\ IsFiniteSet(Count(k)')
        <4>1. IsFiniteSet(Count(k) \cup {a}) /\ Cardinality(Count(k) \cup {a}) = Cardinality(Count(k)) + 1
          BY ONLY Zenon, <2>2, FS_AddElement
        <4> QED
          BY Zenon, <3>1, <4>1
      <3>3. out'.counts[k] = out.counts[k] + 1
        <4>1. out'.counts = [out.counts EXCEPT ![k] = @ + 1]
          BY Zenon, <1>12, <2>1, <2>3
        <4>2. out.counts \in [Kinds -> Nat]
          BY Zenon, <1>11, OutputTypes
        <4> QED
          BY Zenon, <2>1, <4>1, <4>2
      <3> QED
        BY Zenon, <2>2, <3>2, <3>3
    <2>4. CASE k # a.kind
      <3>1. Count(k)' = Count(k)
        BY Zenon, <1>1, <2>4 DEF Count
      <3>2. out'.counts[k] = out.counts[k]
        <4>1. out.counts \in [Kinds -> Nat]
          BY Zenon, <1>11, OutputTypes
        <4>2. CASE a.kind \in Counting
          <5>1. out'.counts = [out.counts EXCEPT ![a.kind] = @ + 1]
            BY Zenon, <1>12, <4>2
          <5> QED
            BY Zenon, <2>1, <2>4, <4>1, <5>1
        <4>3. CASE a.kind \notin Counting
          BY Zenon, <1>12, <4>3
        <4> QED
          BY Zenon, <4>2, <4>3
      <3> QED
        BY Zenon, <2>2, <3>1, <3>2
    <2> QED
      BY <2>3, <2>4
  <1>17. ApplyInv'
    <2>1. mode' \in Modes \cup {"job"}
          /\ (mode' = "job" => rest' = {chosen'[i] : i \in {j \in 1..Len(chosen') : j >= next'}})
      BY Zenon, <1>1, <1>3
    <2> QED
      BY Zenon, <1>6, <1>12, <1>13, <1>14, <1>15, <1>16, <2>1 DEF ApplyInv
  <1>18. OnlyMatchesChange'
    BY Zenon, <1>6, <1>12 DEF OnlyMatchesChange
  <1> QED
    BY <1>7, <1>8, <1>17, <1>18 DEF DetectInv

(* The end of both loops: the rest of the line.                            *)
LEMMA EndStep ==
  ASSUME DetectInv, dpc = "Apply", rest = {}, WriteRest,
         UNCHANGED <<scanVars, next, rest, kept, chosen, mode>>
  PROVE  DetectInv'
  <1>1. kinds' = kinds /\ spans' = spans /\ kept' = kept /\ chosen' = chosen /\ mode' = mode
        /\ next' = next /\ rest' = rest
    BY DEF scanVars
  <1>2. ScanInv /\ ChooseInv /\ ApplyInv /\ Won = kept /\ Won' = Won
    <2>1. Won' = Won
      BY Zenon, <1>1 DEF Won
    <2> QED
      BY <2>1 DEF DetectInv, ChooseInv
  <1>3. dpc' # "Scan" /\ dpc' # "preferLonger" /\ dpc' # "sort" /\ dpc' # "Apply" /\ dpc' = "done"
        /\ dpc' \in {"Scan", "preferLonger", "sort", "Apply", "done"}
    BY DEF WriteRest
  <1>4. ScanInv'
    BY Zenon, <1>1, <1>2, <1>3 DEF ScanInv
  <1>5. ChooseInv'
    <2>1. InLine /\ \A b \in spans \ kept : Beaten(b)
      BY <1>2 DEF ChooseInv
    <2>2. InLine' /\ \A b \in spans' \ kept' : Beaten(b)'
      BY Zenon, <1>1, <2>1 DEF InLine, Beaten
    <2> QED
      BY Zenon, <1>1, <1>2, <1>3, <2>2 DEF ChooseInv
  <1>6. /\ out \in Output
        /\ out.panic = FALSE /\ Written(out.text, out.prev, Won, mode)
        /\ \A a \in Won : a.end <= out.prev
        /\ \A k \in Counting : out.counts[k] = Cardinality(Count(k))
    BY Zenon, <1>2 DEF ApplyInv
  <1> DEFINE x == Bytes(out.prev, Length)
             text == Append(out.text, x)
  <1>7. x \in Piece /\ x.from = out.prev /\ x.to = Length /\ x.as = "bytes" /\ x.from <= x.to
        /\ out.prev \in Nat
    <2>1. out.prev \in 0..Length /\ out.prev \in Nat
      BY Zenon, <1>6, OutputTypes
    <2> QED
      BY <2>1, DetectAssumption DEF Piece, Bytes
  <1>8. Justified(x, Won, mode)
    <2>1. ASSUME NEW p \in out.prev..(Length - 1) PROVE MayShow(p, Won, mode)
      <3>1. ASSUME NEW a \in Won, p \in a.start..(a.end - 1) PROVE FALSE
        <4>1. a.end <= out.prev /\ a.start \in 0..Length /\ a.end \in 0..Length
          BY Zenon, <1>2, <1>6, SpanFields DEF ScanInv
        <4> QED
          BY <1>7, <2>1, <3>1, <4>1, DetectAssumption
      <3> QED
        BY Zenon, <3>1 DEF MayShow
    <2> QED
      BY <1>7, <2>1 DEF Justified
  <1> HIDE DEF x
  <1>9. Written(text, Length, Won, mode)
    BY Zenon, <1>6, <1>7, <1>8, WrittenMore
  <1> HIDE DEF text
  <1>10. out' = [out EXCEPT !.text = text]
    BY Zenon DEF WriteRest, text, x
  <1>11. text \in Seq(Piece)
    BY Zenon, <1>9 DEF Written
  <1>12. /\ out' \in Output
         /\ out'.text = text /\ out'.counts = out.counts /\ out'.panic = FALSE
    BY Zenon, <1>6, <1>10, <1>11 DEF Output
  <1>13. ApplyInv'
    BY Zenon, <1>3, <1>12 DEF ApplyInv
  <1>14. OnlyMatchesChange'
    <2>1. \A i \in 1..Len(text) : Justified(text[i], Won, mode)
      BY Zenon, <1>9 DEF Written
    <2>2. Tiles(text, Length)
      BY Zenon, <1>9 DEF Written
    <2>3. \A k \in IF mode = "job" THEN Counted ELSE Kinds :
            out.counts[k] = Cardinality({a \in Won : a.kind = k})
      <3>1. \A k : Count(k) = {a \in Won : a.kind = k}
        BY Zenon, <1>2 DEF Count
      <3> QED
        BY Zenon, <1>6, <3>1 DEF Counting
    <2>4. /\ Tiles(out'.text, Length)
          /\ \A i \in 1..Len(out'.text) : Justified(out'.text[i], Won', mode')
      BY Zenon, <1>1, <1>2, <1>12, <2>1, <2>2
    <2>5. \A k \in IF mode' = "job" THEN Counted ELSE Kinds :
            out'.counts[k] = Cardinality({a \in Won' : a.kind = k})
      BY Zenon, <1>1, <1>2, <1>12, <2>3
    <2> QED
      BY Zenon, <1>3, <2>4, <2>5 DEF OnlyMatchesChange
  <1> QED
    BY <1>4, <1>5, <1>13, <1>14 DEF DetectInv

(* Apply keeps the invariant, and never has to skip a match.               *)
LEMMA ApplyStep == DetectInv /\ Apply => DetectInv'
  <1> SUFFICES ASSUME DetectInv, Apply PROVE DetectInv'
    OBVIOUS
  <1>1. dpc = "Apply" /\ mode \in Modes /\ UNCHANGED <<scanVars, kept, chosen, mode>> /\ next' = next
        /\ mode # "job"
    BY DEF Apply, Modes
  <1>2. ScanInv /\ ApplyInv
    BY DEF DetectInv
  <1>3. ASSUME NEW a \in rest, First(a, ByStart), rest' = rest \ {a}, dpc' = dpc,
               out' = IF a.start < out.prev \/ a.end > Length \/ a.end <= a.start THEN out
                      ELSE [Replaced(a) EXCEPT !.counts[a.kind] = @ + 1]
        PROVE  DetectInv'
    <2>1. rest \subseteq kept /\ kept \subseteq spans /\ spans \subseteq Span /\ rest \in SUBSET Span
          /\ Apart(kept) /\ (\A b \in rest : b.start < b.end) /\ out.prev <= a.start
          /\ out.prev \in 0..Length /\ next \in Nat \ {0}
      BY Zenon, <1>1, <1>2, OutputTypes DEF ScanInv, ApplyInv
    <2>2. Apart(rest)
      BY Zenon, <2>1 DEF Apart
    <2>3. \A b \in rest \ {a} : a.end <= b.start
      BY Zenon, <1>3, <2>1, <2>2, FirstEnds DEF First
    <2>4. a.start \in 0..Length /\ a.end \in 0..Length /\ a.kind \in Kinds
      BY Zenon, <1>3, <2>1, SpanFields
    <2>5. ~(a.start < out.prev) /\ ~(a.end > Length) /\ ~(a.end <= a.start)
      BY <2>1, <2>4, DetectAssumption
    <2>6. a.kind \in Counting
      BY Zenon, <1>1, <2>4 DEF Counting
    <2>7. out' = IF a.kind \in Counting THEN [Replaced(a) EXCEPT !.counts[a.kind] = @ + 1]
                 ELSE Replaced(a)
      BY Zenon, <1>3, <2>5, <2>6
    <2>8. next' \in Nat \ {0}
      BY Zenon, <1>1, <2>1
    <2> QED
      BY Zenon, <1>1, <1>3, <2>3, <2>7, <2>8, ReplaceStep
  <1>4. CASE rest = {} /\ WriteRest /\ UNCHANGED rest
    <2>1. UNCHANGED <<scanVars, next, rest, kept, chosen, mode>>
      BY <1>1, <1>4
    <2> QED
      BY Zenon, <1>1, <1>4, <2>1, EndStep
  <1> QED
    BY Zenon, <1>3, <1>4 DEF Apply

(* applySpans keeps it too: the order in which preferLonger leaves the     *)
(* matches is the one that its slices need.                                *)
LEMMA applySpansStep == DetectInv /\ applySpans => DetectInv'
  <1> SUFFICES ASSUME DetectInv, applySpans PROVE DetectInv'
    OBVIOUS
  <1>1. dpc = "Apply" /\ mode = "job" /\ UNCHANGED <<scanVars, kept, chosen, mode>>
    BY DEF applySpans
  <1>2. /\ ScanInv /\ ApplyInv /\ InLine /\ Won = kept
        /\ rest = {chosen[i] : i \in {j \in 1..Len(chosen) : j >= next}}
    BY SMTT(30), <1>1 DEF DetectInv, ChooseInv, ApplyInv
  <1>3. Len(chosen) \in Nat /\ next \in Nat \ {0}
    BY <1>2 DEF ScanInv
  <1>4. ASSUME next <= Len(chosen), NEW a, a = chosen[next], rest' = rest \ {a}, dpc' = dpc,
               next' = next + 1,
               out' = IF a.start < out.prev \/ a.end > Length THEN [out EXCEPT !.panic = TRUE]
                      ELSE IF a.kind \in Counted
                      THEN [Replaced(a) EXCEPT !.counts[a.kind] = @ + 1]
                      ELSE Replaced(a)
        PROVE  DetectInv'
    <2>1. next \in 1..Len(chosen) /\ next >= next /\ next' \in Nat \ {0}
      BY <1>3, <1>4
    <2>2. a \in rest
      BY Zenon, <1>2, <1>4, <2>1
    <2>3. /\ rest \subseteq kept /\ kept \subseteq spans /\ spans \subseteq Span
          /\ a.start < a.end /\ out.prev <= a.start /\ out.prev \in 0..Length
      BY Zenon, <1>1, <1>2, <2>2, OutputTypes DEF ScanInv, ApplyInv
    <2>4. a.start \in 0..Length /\ a.end \in 0..Length
      BY Zenon, <2>2, <2>3, SpanFields
    <2>5. ~(a.start < out.prev) /\ ~(a.end > Length)
      BY <2>3, <2>4, DetectAssumption
    <2>6. \A j \in 1..Len(chosen) : j >= next <=> j = next \/ j >= next'
      BY <1>3, <1>4
    <2>7. ASSUME NEW j \in 1..Len(chosen), j >= next' PROVE a.end <= chosen[j].start /\ chosen[j] # a
      <3>1. next < j
        BY <1>3, <1>4, <2>7
      <3>2. a.end <= chosen[j].start
        BY Zenon, <1>2, <1>4, <2>1, <2>7, <3>1 DEF InLine
      <3>3. chosen[j] # a
        BY <2>3, <2>4, <3>2, DetectAssumption
      <3> QED
        BY Zenon, <3>2, <3>3
    <2>8. \A b \in rest \ {a} : a.end <= b.start
      <3>1. ASSUME NEW b \in rest, b # a PROVE a.end <= b.start
        <4>1. PICK j \in 1..Len(chosen) : j >= next /\ b = chosen[j]
          BY Zenon, <1>2, <3>1
        <4>2. j >= next'
          BY Zenon, <1>4, <2>6, <3>1, <4>1
        <4> QED
          BY Zenon, <2>7, <4>1, <4>2
      <3> QED
        BY Zenon, <3>1
    <2>9. rest' = {chosen[i] : i \in {j \in 1..Len(chosen) : j >= next'}}
      <3>1. ASSUME NEW b \in rest, b # a
            PROVE  \E j \in 1..Len(chosen) : j >= next' /\ b = chosen[j]
        <4>1. PICK j \in 1..Len(chosen) : j >= next /\ b = chosen[j]
          BY Zenon, <1>2, <3>1
        <4> QED
          BY Zenon, <1>4, <2>6, <3>1, <4>1
      <3>2. ASSUME NEW j \in 1..Len(chosen), j >= next' PROVE chosen[j] \in rest /\ chosen[j] # a
        <4>1. j >= next
          BY Zenon, <2>6, <3>2
        <4> QED
          BY Zenon, <1>2, <2>7, <3>2, <4>1
      <3> QED
        BY Zenon, <1>4, <3>1, <3>2
    <2>10. out' = IF a.kind \in Counting THEN [Replaced(a) EXCEPT !.counts[a.kind] = @ + 1]
                  ELSE Replaced(a)
      BY Zenon, <1>1, <1>4, <2>5 DEF Counting
    <2> QED
      BY Zenon, <1>1, <1>4, <2>1, <2>2, <2>8, <2>9, <2>10, ReplaceStep
  <1>5. CASE next > Len(chosen) /\ WriteRest /\ UNCHANGED <<rest, next>>
    <2>1. {j \in 1..Len(chosen) : j >= next} = {}
      BY <1>3, <1>5
    <2>2. rest = {}
      BY Zenon, <1>2, <2>1
    <2>3. UNCHANGED <<scanVars, next, rest, kept, chosen, mode>>
      BY <1>1, <1>5
    <2> QED
      BY Zenon, <1>1, <1>5, <2>2, <2>3, EndStep
  <1> QED
    BY Zenon, <1>4, <1>5 DEF applySpans

(* Every step keeps the invariant.                                         *)
LEMMA DetectStep == DetectInv /\ [DetectNext]_detectVars => DetectInv'
  <1> SUFFICES ASSUME DetectInv, [DetectNext]_detectVars PROVE DetectInv'
    OBVIOUS
  <1>1. CASE DetectNext
    BY Zenon, <1>1, ScanStep, preferLongerStep, SortStep, ApplyStep, applySpansStep DEF DetectNext
  <1>2. CASE UNCHANGED detectVars
    <2>1. /\ dpc' = dpc /\ kinds' = kinds /\ spans' = spans /\ next' = next /\ rest' = rest
          /\ kept' = kept /\ chosen' = chosen /\ mode' = mode /\ out' = out
      BY <1>2 DEF detectVars, scanVars
    <2>2. ScanInv'
      BY Zenon, <2>1 DEF DetectInv, ScanInv
    <2>3. ChooseInv'
      BY SMTT(30), <2>1 DEF DetectInv, ChooseInv, InLine, Won, Beaten
    <2>4. ApplyInv'
      BY <2>1 DEF DetectInv, ApplyInv, Won, Count, Counting
    <2>5. OnlyMatchesChange'
      BY Zenon, <2>1 DEF DetectInv, OnlyMatchesChange, Won
    <2> QED
      BY <2>2, <2>3, <2>4, <2>5 DEF DetectInv
  <1> QED
    BY <1>1, <1>2

(* The invariant holds of every line, whatever the detectors find.         *)
LEMMA DetectAlways == DetectSpec => []DetectInv
  <1>1. DetectInit => DetectInv
    <2> SUFFICES ASSUME DetectInit PROVE DetectInv
      OBVIOUS
    <2>1. ScanInv
      BY DEF DetectInit, ScanInv, Apart
    <2>2. ChooseInv
      BY DEF DetectInit, ChooseInv
    <2>3. ApplyInv
      <3>1. out = NothingWritten /\ dpc # "Apply"
        BY DEF DetectInit
      <3>2. <<>> \in Seq(Piece) /\ 0 \in 0..Length /\ [k \in Kinds |-> 0] \in [Kinds -> Nat]
        BY DetectAssumption
      <3>3. out \in Output
            /\ out.panic = FALSE
        BY Zenon, <3>1, <3>2 DEF NothingWritten, Output
      <3> QED
        BY Zenon, <3>1, <3>3 DEF ApplyInv
    <2>4. OnlyMatchesChange
      BY DEF DetectInit, OnlyMatchesChange
    <2> QED
      BY <2>1, <2>2, <2>3, <2>4 DEF DetectInv
  <1> QED
    BY <1>1, DetectStep, PTL DEF DetectSpec

(* What Scan returns is in order and apart, and no match is left out but   *)
(* for one that overlaps it and is preferred to it, for every line, every  *)
(* set of detectors and everything they may find.                          *)
THEOREM LongestMatchesWin == DetectSpec => []LongestMatchWins
  <1>1. DetectInv => LongestMatchWins
    <2> SUFFICES ASSUME DetectInv, dpc \in {"Apply", "done"}
                 PROVE  /\ \A i \in 1..(Len(chosen) - 1) : chosen[i].end <= chosen[i + 1].start
                        /\ \A a \in spans \ Won : \E b \in Won : Overlap(a, b) /\ Preferred(b, a)
                        /\ \A a \in Won : ~\E b \in Won : Overlap(a, b) /\ Preferred(b, a)
      BY Zenon DEF LongestMatchWins
    <2>1. ScanInv /\ Won = kept /\ InLine /\ \A a \in spans \ kept : Beaten(a)
      BY DEF DetectInv, ChooseInv
    <2>2. ASSUME NEW i \in 1..(Len(chosen) - 1) PROVE chosen[i].end <= chosen[i + 1].start
      <3>1. Len(chosen) \in Nat
        BY <2>1 DEF ScanInv
      <3>2. i \in 1..Len(chosen) /\ i + 1 \in 1..Len(chosen) /\ i < i + 1
        BY <2>2, <3>1
      <3> QED
        BY Zenon, <2>1, <3>2 DEF InLine
    <2>3. \A a \in spans \ Won : \E b \in Won : Overlap(a, b) /\ Preferred(b, a)
      BY Zenon, <2>1 DEF Beaten
    <2>4. ASSUME NEW a \in Won, NEW b \in Won, Overlap(a, b), Preferred(b, a) PROVE FALSE
      <3>1. a \in Span /\ b \in Span /\ Apart(kept)
        BY Zenon, <2>1 DEF ScanInv
      <3>2. a # b
        BY Zenon, <2>4, <3>1, PreferredStrict
      <3> QED
        BY Zenon, <2>1, <2>4, <3>1, <3>2, OverlapOrApart DEF Apart
    <2> QED
      BY Zenon, <2>2, <2>3, <2>4
  <1> QED
    BY <1>1, DetectAlways, PTL

(* In every mode, and in a redact job, each byte of the line is written    *)
(* once, in its place and as it was unless a match covers it, every match  *)
(* is counted once, and a redact job does not slice out of range.          *)
THEOREM OnlyMatchesChanged == DetectSpec => []OnlyMatchesChange
  <1>1. DetectInv => OnlyMatchesChange
    BY DEF DetectInv
  <1> QED
    BY <1>1, DetectAlways, PTL
=============================================================================
