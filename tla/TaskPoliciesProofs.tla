------------------------- MODULE TaskPoliciesProofs -------------------------
(* Theorems about TaskPolicies, for any sessions, prompts and scopes and   *)
(* any number of concurrent callers.                                       *)
EXTENDS TaskPolicies, SequenceTheorems, TLAPS

(* Where a caller has a row in hand, and where it has a revision for it.   *)
HasRow == {"c_reads_pending", "r_reads_latest"} \union Accepting \union Writing
HasRevision == {"c_reads_pending", "h_reads_parent"} \union Writing
HasGoverning == {"checks_clock", "expires", "checks_parent", "allowed"}
AtParent == {"c_reads_parent", "inherits"}

(* Below, table stands for policies and k for what a caller holds.         *)

(* The parent revision that a row names exists.                            *)
RowFits(table, s, row) ==
  row.parent # 0 =>
    ParentOf[s] \in Sessions /\ row.parent \in 1..Len(table[ParentOf[s]])

(* What a caller has read names rows that exist,                           *)
ReadsFit(table, k) ==
  /\ k.at # "idle" => k.session \in Sessions
  /\ k.inherited => k.at \in HasGoverning /\ ParentOf[k.session] \in Sessions
  /\ k.at \in AtParent => ParentOf[k.session] \in Sessions
  /\ k.at # "idle" /\ ~k.inherited => k.active \in 0..Len(table[k.session])
  /\ k.inherited => k.active \in 1..Len(table[ParentOf[k.session]])
  /\ k.at \in HasGoverning => k.active # 0
  /\ k.at \in {"c_reads_parent", "c_reads_latest"} => k.source \in Prompts
  /\ k.at = "c_reads_latest" => RowFits(table, k.session, k)

(* the row it is about to write is a new candidate, and may be inserted    *)
(* only while its session waits for no other,                              *)
WritesFit(table, k) ==
  /\ k.at \in HasRow =>
       /\ k.policy \in Policy /\ k.policy.status = "pending" /\ k.policy.by = "nobody"
       /\ RowFits(table, k.session, k.policy)
  /\ k.at = "h_reads_parent" => ParentOf[k.session] \in Sessions
  /\ k.at \in HasRevision => k.rev \in 1..(Len(table[k.session]) + 1)
  /\ k.at = "records" /\ k.rev = Len(table[k.session]) + 1 =>
       \A r \in 1..Len(table[k.session]) : table[k.session][r].status # "pending"

(* a narrowing permits less than the active revision that was read, and    *)
(* the inserted row is the one that was compared,                          *)
NarrowingFits(table, k) ==
  /\ k.at = "r_reads_latest" => ~k.narrows
  /\ k.at \in Writing /\ k.narrows =>
       /\ k.active # 0
       /\ Narrower(k.policy.scope, table[k.session][k.active].scope)
  /\ k.at = "activates" =>
       /\ k.narrows
       /\ k.rev \in 1..Len(table[k.session])
       /\ table[k.session][k.rev].scope = k.policy.scope

(* and past the clock the governing row was made for the current base.     *)
HolderOf(k) == IF k.inherited THEN ParentOf[k.session] ELSE k.session

BaseFits(table, digest, k) ==
  k.at \in {"checks_parent", "allowed"} => table[HolderOf(k)][k.active].base = digest

Fits(table, digest, k) ==
  /\ ReadsFit(table, k) /\ WritesFit(table, k) /\ NarrowingFits(table, k)
  /\ BaseFits(table, digest, k)

RowsFit ==
  \A s \in Sessions : \A r \in 1..Len(policies[s]) : RowFits(policies, s, policies[s][r])

Types ==
  /\ policies \in [Sessions -> Seq(Policy)]
  /\ base \in Bases
  /\ now \in Nat
  /\ caller \in [Callers -> CallerType]

Rows == PendingIsNewest /\ OneActive /\ RowsFit

(* The inductive invariant.                                                *)
PolicyInv == Types /\ Rows /\ \A c \in Callers : Fits(policies, base, caller[c])

-----------------------------------------------------------------------------
(* Every step only adds rows, and changes of a row that is open nothing    *)
(* but its status and, as it activates it, by whom.                        *)
KeepsRow(old, new) ==
  /\ new.source = old.source /\ new.scope = old.scope /\ new.parent = old.parent
  /\ new.base = old.base /\ new.expires = old.expires /\ new.generator = old.generator
  /\ new.status = "pending" => old.status = "pending"
  /\ new.by = old.by \/ (old.status = "pending" /\ new.status = "active")
  /\ old.status \notin Open => new = old

Grows ==
  /\ policies' \in [Sessions -> Seq(Policy)]
  /\ \A s \in Sessions :
       /\ Len(policies[s]) <= Len(policies'[s])
       /\ \A r \in 1..Len(policies[s]) : KeepsRow(policies[s][r], policies'[s][r])

(* A step that activates nothing.                                          *)
ActivatesNothing ==
  \A s \in Sessions : \A r \in 1..Len(policies'[s]) : policies'[s][r].status = "active" =>
    r \in 1..Len(policies[s]) /\ policies[s][r].status = "active"

(* A step that only ends open rows.                                        *)
EndsRow(old, new) ==
  \/ new = old
  \/ \E status \in PolicyStatus \ Open :
       old.status \in Open /\ new = [old EXCEPT !.status = status]

Shuts ==
  /\ policies' \in [Sessions -> Seq(Policy)]
  /\ \A s \in Sessions :
       /\ Len(policies'[s]) = Len(policies[s])
       /\ \A r \in 1..Len(policies[s]) : EndsRow(policies[s][r], policies'[s][r])

-----------------------------------------------------------------------------
(* Sequences of rows.                                                      *)

LEMMA RowOf ==
  ASSUME Types, NEW s \in Sessions
  PROVE  /\ policies[s] \in Seq(Policy)
         /\ Len(policies[s]) \in Nat
         /\ DOMAIN policies[s] = 1..Len(policies[s])
         /\ \A r \in 1..Len(policies[s]) : policies[s][r] \in Policy
<1>1. policies[s] \in Seq(Policy)
  BY DEF Types
<1>. QED
  BY <1>1, LenProperties, ElementOfSeq

LEMMA Mapped ==
  ASSUME NEW S, NEW rows \in Seq(S), NEW new,
         new = [r \in DOMAIN rows |-> new[r]],
         \A r \in DOMAIN rows : new[r] \in S
  PROVE  new \in Seq(S) /\ Len(new) = Len(rows)
<1>1. DOMAIN rows = 1..Len(rows) /\ Len(rows) \in Nat
  BY LenProperties
<1>2. new \in [1..Len(rows) -> S]
  BY <1>1
<1>3. new \in Seq(S)
  BY <1>1, <1>2, SeqDef
<1>4. DOMAIN new = 1..Len(new) /\ Len(new) \in Nat
  BY <1>3, LenProperties
<1>. QED
  BY <1>1, <1>2, <1>3, <1>4

LEMMA EndedType ==
  ASSUME NEW row \in Policy, NEW status \in PolicyStatus
  PROVE  [row EXCEPT !.status = status] \in Policy
BY DEF Policy

LEMMA EndedRows ==
  ASSUME NEW rows \in Seq(Policy), NEW statuses \in SUBSET Open,
         NEW status \in PolicyStatus \ Open
  PROVE  /\ Ended(rows, statuses, status) \in Seq(Policy)
         /\ Len(Ended(rows, statuses, status)) = Len(rows)
         /\ \A r \in 1..Len(rows) :
              /\ EndsRow(rows[r], Ended(rows, statuses, status)[r])
              /\ Ended(rows, statuses, status)[r].status \notin statuses
<1>. DEFINE new == Ended(rows, statuses, status)
<1>1. DOMAIN rows = 1..Len(rows)
  BY LenProperties
<1>2. ASSUME NEW r \in 1..Len(rows)
      PROVE  new[r] \in Policy /\ EndsRow(rows[r], new[r]) /\ new[r].status \notin statuses
  <2>1. rows[r] \in Policy
    BY ElementOfSeq
  <2>2. CASE rows[r].status \in statuses
    <3>1. new[r] = [rows[r] EXCEPT !.status = status]
      BY <1>1, <2>2 DEF Ended
    <3>2. new[r].status = status
      BY <2>1, <3>1 DEF Policy
    <3>. QED
      BY <2>1, <2>2, <3>1, <3>2, EndedType DEF EndsRow
  <2>3. CASE rows[r].status \notin statuses
    BY <1>1, <2>1, <2>3 DEF Ended, EndsRow
  <2>. QED
    BY <2>2, <2>3
<1>3. new = [r \in DOMAIN rows |-> new[r]]
  BY DEF Ended
<1>4. new \in Seq(Policy) /\ Len(new) = Len(rows)
  <2>. HIDE DEF new
  <2>. QED
    BY <1>1, <1>2, <1>3, Mapped
<1>. QED
  BY <1>2, <1>4

LEMMA NewestFound ==
  ASSUME NEW s, NEW status, NEW r \in Revisions(s), policies[s][r].status = status,
         \A q \in Revisions(s) : policies[s][q].status = status => q <= r
  PROVE  Newest(s, status) \in Revisions(s) /\ policies[s][Newest(s, status)].status = status
<1>. DEFINE found == {q \in Revisions(s) : policies[s][q].status = status}
<1>1. r \in found /\ \A q \in found : q <= r
  OBVIOUS
<1>2. Newest(s, status) = IF found = {} THEN 0 ELSE CHOOSE q \in found : \A p \in found : p <= q
  BY DEF Newest
<1>3. Newest(s, status) \in found
  <2>. HIDE DEF found
  <2>. QED
    BY <1>1, <1>2
<1>. QED
  BY <1>3

LEMMA NewestNone ==
  ASSUME NEW s, NEW status, \A q \in Revisions(s) : policies[s][q].status # status
  PROVE  Newest(s, status) = 0
BY DEF Newest

(* The newest active row and the newest pending row, where the rows are    *)
(* as they should be: there is no choice to make.                          *)
LEMMA ActiveFacts ==
  ASSUME Types, Rows, NEW s \in Sessions
  PROVE  /\ Active(s) \in 0..Len(policies[s])
         /\ Active(s) # 0 => policies[s][Active(s)].status = "active"
         /\ \A r \in 1..Len(policies[s]) :
              policies[s][r].status = "active" => r = Active(s)
<1>1. Len(policies[s]) \in Nat /\ Revisions(s) = 1..Len(policies[s])
  BY RowOf DEF Revisions
<1>2. CASE \E r \in Revisions(s) : policies[s][r].status = "active"
  <2>1. PICK r \in Revisions(s) : policies[s][r].status = "active"
    BY <1>2
  <2>2. \A q \in Revisions(s) : policies[s][q].status = "active" => q = r
    BY <2>1 DEF Rows, OneActive
  <2>3. \A q \in Revisions(s) : policies[s][q].status = "active" => q <= r
    BY <1>1, <2>2
  <2>4. Active(s) \in Revisions(s) /\ policies[s][Active(s)].status = "active"
    BY <2>1, <2>3, NewestFound DEF Active
  <2>5. Active(s) = r
    BY <2>2, <2>4
  <2>. QED
    BY <1>1, <2>2, <2>4, <2>5
<1>3. CASE \A r \in Revisions(s) : policies[s][r].status # "active"
  <2>1. Active(s) = 0
    BY <1>3, NewestNone DEF Active
  <2>. QED
    BY <1>1, <1>3, <2>1
<1>. QED
  BY <1>2, <1>3

LEMMA PendingFacts ==
  ASSUME Types, Rows, NEW s \in Sessions
  PROVE  Pending(s) \in 0..Len(policies[s])
<1>1. Len(policies[s]) \in Nat /\ Revisions(s) = 1..Len(policies[s])
  BY RowOf DEF Revisions
<1>2. CASE \E r \in Revisions(s) : policies[s][r].status = "pending"
  <2>1. PICK r \in Revisions(s) : policies[s][r].status = "pending"
    BY <1>2
  <2>2. \A q \in Revisions(s) : policies[s][q].status = "pending" => q <= r
    BY <1>1, <2>1 DEF Rows, PendingIsNewest
  <2>3. Pending(s) \in Revisions(s)
    BY <2>1, <2>2, NewestFound DEF Pending
  <2>. QED
    BY <1>1, <2>3
<1>3. CASE \A r \in Revisions(s) : policies[s][r].status # "pending"
  <2>1. Pending(s) = 0
    BY <1>3, NewestNone DEF Pending
  <2>. QED
    BY <1>1, <2>1
<1>. QED
  BY <1>2, <1>3

-----------------------------------------------------------------------------
(* What the two kinds of writing steps keep.                               *)

LEMMA ShutsGrows ==
  ASSUME Types, Shuts
  PROVE  Grows
<1>. SUFFICES ASSUME NEW s \in Sessions, NEW r \in 1..Len(policies[s])
             PROVE  KeepsRow(policies[s][r], policies'[s][r])
  BY RowOf DEF Shuts, Grows
<1>1. policies[s][r] \in Policy
  BY RowOf
<1>2. EndsRow(policies[s][r], policies'[s][r])
  BY DEF Shuts
<1>. QED
  BY <1>1, <1>2 DEF EndsRow, KeepsRow, Policy, Open

LEMMA ShutsActivatesNothing ==
  ASSUME Types, Shuts
  PROVE  ActivatesNothing
<1>. SUFFICES ASSUME NEW s \in Sessions, NEW r \in 1..Len(policies[s]),
                     policies'[s][r].status = "active"
             PROVE  policies[s][r].status = "active"
  BY DEF Shuts, ActivatesNothing
<1>1. policies[s][r] \in Policy
  BY RowOf
<1>2. EndsRow(policies[s][r], policies'[s][r])
  BY DEF Shuts
<1>. QED
  BY <1>1, <1>2 DEF EndsRow, Policy, Open

LEMMA RevisionsNext ==
  ASSUME Grows, NEW s \in Sessions
  PROVE  Revisions(s)' = 1..Len(policies'[s]) /\ Len(policies'[s]) \in Nat
<1>1. policies'[s] \in Seq(Policy)
  BY DEF Grows
<1>. QED
  BY <1>1, LenProperties DEF Revisions

(* Rows go on fitting as long as only fitting ones are added.              *)
LEMMA LaterRowFits ==
  ASSUME Types, Grows, NEW s \in Sessions, NEW row, RowFits(policies, s, row)
  PROVE  RowFits(policies', s, row)
<1>. SUFFICES ASSUME row.parent # 0, ParentOf[s] \in Sessions,
                     row.parent \in 1..Len(policies[ParentOf[s]])
             PROVE  row.parent \in 1..Len(policies'[ParentOf[s]])
  BY DEF RowFits
<1>1. Len(policies[ParentOf[s]]) \in Nat /\ Len(policies'[ParentOf[s]]) \in Nat
  BY RowOf, RevisionsNext
<1>2. Len(policies[ParentOf[s]]) <= Len(policies'[ParentOf[s]])
  BY DEF Grows
<1>. QED
  BY <1>1, <1>2

LEMMA ShutsKeepsRows ==
  ASSUME TaskPolicyAssumption, Types, Rows, Shuts
  PROVE  Rows'
<1>1. Grows /\ ActivatesNothing
  BY ShutsGrows, ShutsActivatesNothing
<1>. SUFFICES ASSUME NEW s \in Sessions
             PROVE  /\ \A r \in Revisions(s)' : policies'[s][r].status = "pending"
                         => r = Len(policies'[s])
                    /\ \A q, r \in Revisions(s)' :
                         policies'[s][q].status = "active" /\ policies'[s][r].status = "active"
                         => q = r
                    /\ \A r \in 1..Len(policies'[s]) : RowFits(policies', s, policies'[s][r])
  BY DEF Rows, PendingIsNewest, OneActive, RowsFit
<1>2. Revisions(s)' = 1..Len(policies[s]) /\ Revisions(s) = 1..Len(policies[s])
  BY <1>1, RowOf, RevisionsNext DEF Shuts, Revisions
<1>3. Len(policies'[s]) = Len(policies[s])
  BY DEF Shuts
<1>4. ASSUME NEW r \in 1..Len(policies[s])
      PROVE  /\ policies'[s][r].status = "pending" => r = Len(policies[s])
             /\ policies'[s][r].status = "active" => policies[s][r].status = "active"
             /\ RowFits(policies', s, policies'[s][r])
  <2>1. KeepsRow(policies[s][r], policies'[s][r])
    BY <1>1 DEF Grows
  <2>2. policies'[s][r].status = "pending" => r = Len(policies[s])
    BY <1>2, <2>1 DEF KeepsRow, Rows, PendingIsNewest
  <2>3. policies'[s][r].status = "active" => policies[s][r].status = "active"
    BY <1>1, <1>3 DEF ActivatesNothing
  <2>4. policies'[s][r].parent = policies[s][r].parent /\ policies[s][r].parent \in Nat
    BY <2>1, RowOf DEF KeepsRow, Policy
  <2>5. RowFits(policies, s, policies[s][r])
    BY DEF Rows, RowsFit
  <2>6. RowFits(policies', s, policies'[s][r])
    BY <1>1, <2>4, <2>5, LaterRowFits DEF RowFits
  <2>. QED
    BY <2>2, <2>3, <2>6
<1>5. \A q, r \in 1..Len(policies[s]) :
        policies[s][q].status = "active" /\ policies[s][r].status = "active" => q = r
  BY <1>2 DEF Rows, OneActive
<1>. QED
  BY <1>2, <1>3, <1>4, <1>5

-----------------------------------------------------------------------------
(* What the callers hold goes on fitting while others write.               *)

LEMMA LaterRow ==
  ASSUME Types, Grows, NEW s \in Sessions, NEW r \in 1..Len(policies[s])
  PROVE  /\ r \in 1..Len(policies'[s])
         /\ policies'[s][r].scope = policies[s][r].scope
         /\ policies'[s][r].base = policies[s][r].base
         /\ policies'[s][r].status = "pending" => policies[s][r].status = "pending"
<1>1. Len(policies[s]) \in Nat /\ Len(policies'[s]) \in Nat
  BY RowOf, RevisionsNext
<1>. QED
  BY <1>1 DEF Grows, KeepsRow

LEMMA FitsStable ==
  ASSUME Types, Grows, NEW k \in CallerType, NEW digest, Fits(policies, digest, k)
  PROVE  Fits(policies', digest, k)
<1>1. /\ ReadsFit(policies, k) /\ WritesFit(policies, k) /\ NarrowingFits(policies, k)
      /\ BaseFits(policies, digest, k)
  BY DEF Fits
<1>2. \A s \in Sessions : /\ Len(policies[s]) \in Nat /\ Len(policies'[s]) \in Nat
                          /\ Len(policies[s]) <= Len(policies'[s])
  BY RowOf, RevisionsNext DEF Grows
<1>3. ReadsFit(policies', k)
  <2>1. k.active \in Nat /\ k.parent \in Nat
    BY DEF CallerType
  <2>2. k.at = "c_reads_latest" => RowFits(policies', k.session, k)
    BY <1>1, LaterRowFits DEF ReadsFit
  <2>3. k.at # "idle" /\ ~k.inherited => k.active \in 0..Len(policies'[k.session])
    BY <1>1, <1>2, <2>1 DEF ReadsFit
  <2>4. k.inherited => k.active \in 1..Len(policies'[ParentOf[k.session]])
    BY <1>1, <1>2, <2>1 DEF ReadsFit
  <2>. QED
    BY <1>1, <2>2, <2>3, <2>4 DEF ReadsFit
<1>4. k.at # "idle" => k.session \in Sessions
  BY <1>1 DEF ReadsFit
<1>5. \A step \in HasRow \union HasRevision : step # "idle"
  BY DEF HasRow, HasRevision, Accepting, Writing
<1>6. WritesFit(policies', k)
  <2>1. k.at \in HasRow => RowFits(policies', k.session, k.policy)
    BY <1>1, <1>4, <1>5, LaterRowFits DEF WritesFit
  <2>2. k.at \in HasRevision => k.rev \in 1..(Len(policies'[k.session]) + 1)
    <3>1. k.rev \in Nat
      BY DEF CallerType
    <3>. QED
      BY <1>1, <1>2, <1>4, <1>5, <3>1 DEF WritesFit
  <2>3. ASSUME k.at = "records", k.rev = Len(policies'[k.session]) + 1,
               NEW r \in 1..Len(policies'[k.session])
        PROVE  policies'[k.session][r].status # "pending"
    <3>1. k.session \in Sessions /\ k.at \in HasRevision
      BY <1>4, <2>3 DEF HasRevision, Writing
    <3>2. k.rev \in 1..(Len(policies[k.session]) + 1)
      BY <1>1, <3>1 DEF WritesFit
    <3>3. Len(policies'[k.session]) = Len(policies[k.session])
      BY <1>2, <2>3, <3>1, <3>2
    <3>4. policies[k.session][r].status # "pending"
      BY <1>1, <2>3, <3>3 DEF WritesFit
    <3>. QED
      BY <2>3, <3>1, <3>3, <3>4, LaterRow
  <2>. QED
    BY <1>1, <2>1, <2>2, <2>3 DEF WritesFit
<1>7. NarrowingFits(policies', k)
  <2>1. ASSUME k.at \in Writing, k.narrows
        PROVE  k.active # 0 /\ Narrower(k.policy.scope, policies'[k.session][k.active].scope)
    <3>1. k.session \in Sessions /\ ~k.inherited
      BY <1>1, <1>4, <2>1 DEF ReadsFit, HasGoverning, Writing
    <3>2. k.active \in 1..Len(policies[k.session])
      BY <1>1, <1>2, <2>1, <3>1 DEF ReadsFit, NarrowingFits, Writing
    <3>. QED
      BY <1>1, <2>1, <3>1, <3>2, LaterRow DEF NarrowingFits
  <2>2. ASSUME k.at = "activates"
        PROVE  /\ k.narrows
               /\ k.rev \in 1..Len(policies'[k.session])
               /\ policies'[k.session][k.rev].scope = k.policy.scope
    BY <1>1, <1>4, <2>2, LaterRow DEF NarrowingFits
  <2>. QED
    BY <1>1, <2>1, <2>2 DEF NarrowingFits
<1>8. BaseFits(policies', digest, k)
  <2>. SUFFICES ASSUME k.at \in {"checks_parent", "allowed"}
               PROVE  policies'[HolderOf(k)][k.active].base = digest
    BY DEF BaseFits
  <2>1. HolderOf(k) \in Sessions /\ k.active \in 1..Len(policies[HolderOf(k)])
    BY <1>1, <1>2 DEF ReadsFit, HolderOf, HasGoverning
  <2>2. policies[HolderOf(k)][k.active].base = digest
    BY <1>1 DEF BaseFits
  <2>. QED
    BY <2>1, <2>2, LaterRow
<1>. QED
  BY <1>3, <1>6, <1>7, <1>8 DEF Fits

-----------------------------------------------------------------------------
(* A step of one caller: what it writes and what it goes on with must fit. *)

LEMMA WriteKeeps ==
  ASSUME PolicyInv, Grows, Rows', UNCHANGED <<base, now>>,
         NEW c \in Callers, NEW to \in CallerType, Moves(c, to), Fits(policies', base, to)
  PROVE  PolicyInv'
<1>1. Types'
  BY DEF PolicyInv, Types, Grows, Moves
<1>2. ASSUME NEW d \in Callers PROVE Fits(policies', base, caller'[d])
  <2>1. caller[d] \in CallerType /\ Fits(policies, base, caller[d])
    BY DEF PolicyInv, Types
  <2>2. caller'[d] = IF d = c THEN to ELSE caller[d]
    BY DEF Moves, PolicyInv, Types
  <2>. QED
    BY <2>1, <2>2, FitsStable DEF PolicyInv
<1>. QED
  BY <1>1, <1>2 DEF PolicyInv

LEMMA SameTable ==
  ASSUME PolicyInv, UNCHANGED policies
  PROVE  Grows /\ ActivatesNothing /\ Rows'
<1>1. Grows /\ ActivatesNothing
  BY DEF PolicyInv, Types, Grows, KeepsRow, ActivatesNothing
<1>2. Rows'
  BY DEF PolicyInv, Rows, PendingIsNewest, OneActive, RowsFit, Revisions
<1>. QED
  BY <1>1, <1>2

(* What every step but an activation does.                                 *)
Keeps == PolicyInv' /\ Grows /\ ActivatesNothing

LEMMA MoveKeeps ==
  ASSUME PolicyInv, UNCHANGED <<policies, base, now>>,
         NEW c \in Callers, NEW to \in CallerType, Moves(c, to), Fits(policies, base, to)
  PROVE  Keeps
<1>1. Fits(policies', base, to)
  OBVIOUS
<1>. QED
  BY <1>1, WriteKeeps, SameTable DEF Keeps

LEMMA IdleFits ==
  ASSUME NEW table, NEW digest
  PROVE  Idle \in CallerType /\ Fits(table, digest, Idle)
<1>1. Idle \in CallerType
  BY DEF Idle, CallerType, Step
<1>2. Idle.at = "idle" /\ Idle.inherited = FALSE
  BY DEF Idle
<1>. QED
  BY <1>1, <1>2 DEF Fits, ReadsFit, WritesFit, NarrowingFits, BaseFits, HasRow, HasRevision,
                    HasGoverning, AtParent, Accepting, Writing

LEMMA ReturnKeeps ==
  ASSUME PolicyInv, UNCHANGED <<policies, base, now>>, NEW c \in Callers, Returns(c)
  PROVE  Keeps
BY IdleFits, MoveKeeps DEF Returns

LEMMA CallerFacts ==
  ASSUME PolicyInv, NEW c \in Callers
  PROVE  /\ caller[c] \in CallerType
         /\ Fits(policies, base, caller[c])
         /\ ReadsFit(policies, caller[c]) /\ WritesFit(policies, caller[c])
         /\ NarrowingFits(policies, caller[c])
BY DEF PolicyInv, Types, Fits

(* The same caller elsewhere.                                              *)
LEMMA AtType ==
  ASSUME NEW k \in CallerType, NEW at \in Step
  PROVE  [k EXCEPT !.at = at] \in CallerType
BY DEF CallerType

-----------------------------------------------------------------------------
(* Where a caller is not at a step of a kind, nothing is asked of it.      *)

LEMMA ReadingFits ==
  ASSUME NEW table, NEW digest, NEW k \in CallerType,
         k.at \notin HasRow, k.at \notin HasRevision, k.at \notin {"checks_parent", "allowed"},
         ReadsFit(table, k)
  PROVE  Fits(table, digest, k)
BY DEF Fits, WritesFit, NarrowingFits, BaseFits, HasRow, HasRevision, Accepting, Writing

LEMMA CaptureReadsActiveKeeps ==
  ASSUME TaskPolicyAssumption, PolicyInv, NEW c \in Callers, NEW s \in Sessions,
         NEW p \in Prompts, CaptureReadsActive(c, s, p)
  PROVE  Keeps
<1>. DEFINE to == [Idle EXCEPT
       !.at = IF ParentOf[s] = NoSession THEN "c_reads_latest" ELSE "c_reads_parent",
       !.session = s, !.source = p, !.active = Active(s)]
<1>1. Active(s) \in 0..Len(policies[s]) /\ Active(s) \in Nat
  BY ActiveFacts, RowOf DEF PolicyInv
<1>2. to \in CallerType
  BY <1>1 DEF Idle, CallerType, Step
<1>3. /\ to.at \in {"c_reads_latest", "c_reads_parent"} /\ to.session = s /\ to.source = p
      /\ to.active = Active(s) /\ to.inherited = FALSE /\ to.parent = 0
      /\ to.at = "c_reads_parent" => ParentOf[s] # NoSession
  BY DEF Idle
<1>4. Moves(c, to) /\ UNCHANGED <<policies, base, now>>
  BY DEF CaptureReadsActive
<1>. HIDE DEF to
<1>5. ReadsFit(policies, to)
  BY <1>1, <1>3 DEF ReadsFit, RowFits, HasGoverning, AtParent, TaskPolicyAssumption
<1>6. Fits(policies, base, to)
  BY <1>2, <1>3, <1>5, ReadingFits DEF HasRow, HasRevision, Accepting, Writing
<1>. QED
  BY <1>2, <1>4, <1>6, MoveKeeps

LEMMA CaptureReadsParentKeeps ==
  ASSUME TaskPolicyAssumption, PolicyInv, NEW c \in Callers, CaptureReadsParent(c)
  PROVE  Keeps
<1>. DEFINE s == caller[c].session
            parent == Active(ParentOf[s])
            to == [caller[c] EXCEPT !.at = "c_reads_latest", !.parent = parent]
<1>1. CASE parent = 0
  BY <1>1, ReturnKeeps DEF CaptureReadsParent
<1>2. CASE parent # 0
  <2>1. ParentOf[s] \in Sessions /\ s \in Sessions
    BY CallerFacts DEF CaptureReadsParent, ReadsFit, AtParent
  <2>2. parent \in 1..Len(policies[ParentOf[s]]) /\ parent \in Nat
    BY <1>2, <2>1, ActiveFacts, RowOf DEF PolicyInv
  <2>3. to \in CallerType
    <3>1. caller[c] \in CallerType /\ "c_reads_latest" \in Step
      BY CallerFacts DEF Step
    <3>. QED
      BY <2>2, <3>1 DEF CallerType
  <2>4. Moves(c, to) /\ UNCHANGED <<policies, base, now>>
    BY <1>2 DEF CaptureReadsParent
  <2>5. /\ to.at = "c_reads_latest" /\ to.session = s /\ to.parent = parent
        /\ to.active = caller[c].active /\ to.inherited = caller[c].inherited
        /\ to.source = caller[c].source
    BY CallerFacts DEF CallerType
  <2>6. ReadsFit(policies, to)
    BY <2>1, <2>2, <2>5, CallerFacts
       DEF CaptureReadsParent, ReadsFit, RowFits, HasGoverning, AtParent
  <2>. HIDE DEF to
  <2>7. Fits(policies, base, to)
    BY <2>3, <2>5, <2>6, ReadingFits DEF HasRow, HasRevision, Accepting, Writing
  <2>. QED
    BY <2>3, <2>4, <2>7, MoveKeeps
<1>. QED
  BY <1>1, <1>2

-----------------------------------------------------------------------------
(* Candidates in hand.                                                     *)

(* A row as it is inserted.                                                *)
Candidate(row) == row \in Policy /\ row.status = "pending" /\ row.by = "nobody"

LEMMA IntersectedFits ==
  ASSUME TaskPolicyAssumption, Types, NEW s \in Sessions, NEW row, Candidate(row),
         RowFits(policies, s, row)
  PROVE  /\ Candidate(Intersected(row, s))
         /\ RowFits(policies, s, Intersected(row, s))
<1>1. CASE row.parent = 0
  BY <1>1 DEF Intersected
<1>2. CASE row.parent # 0
  <2>. DEFINE parent == policies[ParentOf[s]][row.parent]
  <2>1. parent \in Policy
    BY <1>2, RowOf DEF RowFits
  <2>2. /\ row.scope \intersect parent.scope \in SUBSET Perms
        /\ Least(row.expires, parent.expires) \in Nat
    BY <2>1 DEF Least, Policy, Candidate
  <2>3. Intersected(row, s) =
          [row EXCEPT !.scope = row.scope \intersect parent.scope,
                      !.expires = Least(row.expires, parent.expires)]
    BY <1>2 DEF Intersected, Candidate, Policy
  <2>. HIDE DEF parent
  <2>4. Intersected(row, s) \in Policy
    BY <2>2, <2>3 DEF Candidate, Policy
  <2>5. /\ Intersected(row, s).status = row.status /\ Intersected(row, s).by = row.by
        /\ Intersected(row, s).parent = row.parent
    BY <2>3 DEF Candidate, Policy
  <2>. QED
    BY <2>4, <2>5 DEF Candidate, RowFits
<1>. QED
  BY <1>1, <1>2

LEMMA SynthesizedFits ==
  ASSUME TaskPolicyAssumption, Types, NEW s \in Sessions, NEW source \in Prompts,
         NEW parent \in Nat,
         parent # 0 =>
           ParentOf[s] \in Sessions /\ parent \in 1..Len(policies[ParentOf[s]])
  PROVE  /\ Candidate(Synthesized(s, source, parent))
         /\ RowFits(policies, s, Synthesized(s, source, parent))
<1>. DEFINE row == [status |-> "pending", source |-> source, scope |-> ScopeOf[source],
               parent |-> parent, base |-> base, expires |-> now + Ttl,
               generator |-> "deterministic", by |-> "nobody"]
<1>1. now + Ttl \in Nat /\ ScopeOf[source] \in SUBSET Perms /\ base \in Bases
  BY DEF TaskPolicyAssumption, Types
<1>2. row \in Policy
  BY <1>1 DEF Policy, PolicyStatus, Open
<1>3. Candidate(row) /\ RowFits(policies, s, row)
  BY <1>2 DEF Candidate, RowFits
<1>. HIDE DEF row
<1>4. /\ Candidate(Intersected(row, s))
      /\ RowFits(policies, s, Intersected(row, s))
  BY <1>3, IntersectedFits
<1>5. Synthesized(s, source, parent) = Intersected(row, s)
  BY DEF Synthesized, row
<1>. QED
  BY <1>4, <1>5

LEMMA CandidateInHandFits ==
  ASSUME NEW table, NEW digest, NEW k \in CallerType, ReadsFit(table, k),
         k.at \in HasRow \ {"records", "activates"},
         Candidate(k.policy), RowFits(table, k.session, k.policy),
         k.at = "r_reads_latest" => ~k.narrows,
         k.at = "h_reads_parent" => ParentOf[k.session] \in Sessions,
         k.at \in HasRevision => k.rev \in 1..(Len(table[k.session]) + 1),
         k.at \in Writing /\ k.narrows =>
           /\ k.active # 0
           /\ Narrower(k.policy.scope, table[k.session][k.active].scope)
  PROVE  Fits(table, digest, k)
BY DEF Fits, WritesFit, NarrowingFits, BaseFits, HasRow, Accepting, Writing, Candidate

LEMMA CaptureReadsLatestKeeps ==
  ASSUME TaskPolicyAssumption, PolicyInv, NEW c \in Callers, CaptureReadsLatest(c)
  PROVE  Keeps
<1>. DEFINE s == caller[c].session
            active == caller[c].active
            row == Synthesized(s, caller[c].source, caller[c].parent)
            rev == Len(policies[s]) + 1
            to == [caller[c] EXCEPT !.at = "c_reads_pending", !.rev = rev, !.policy = row,
                                    !.source = NoPolicy, !.parent = 0]
<1>1. CASE Returns(c)
  BY <1>1, ReturnKeeps DEF CaptureReadsLatest
<1>2. CASE Moves(c, to)
  <2>1. /\ caller[c] \in CallerType /\ "c_reads_pending" \in Step
        /\ caller[c].at = "c_reads_latest"
    BY CallerFacts DEF CaptureReadsLatest, Step
  <2>2. s \in Sessions /\ caller[c].source \in Prompts /\ RowFits(policies, s, caller[c])
    BY <2>1, CallerFacts DEF ReadsFit
  <2>3. caller[c].parent \in Nat
    BY <2>1 DEF CallerType
  <2>4. Candidate(row) /\ RowFits(policies, s, row)
    BY <2>2, <2>3, SynthesizedFits DEF PolicyInv, RowFits
  <2>5. Len(policies[s]) \in Nat
    BY <2>2, RowOf DEF PolicyInv
  <2>. HIDE DEF row
  <2>6. to \in CallerType
    <3>1. row \in Policy \union {NoPolicy} /\ rev \in Nat /\ rev \in 1..rev
      BY <2>4, <2>5 DEF Candidate
    <3>. QED
      BY <2>1, <3>1 DEF CallerType
  <2>7. /\ to.at = "c_reads_pending" /\ to.session = s /\ to.policy = row /\ to.rev = rev
        /\ to.active = active /\ to.inherited = caller[c].inherited
    BY <2>1 DEF CallerType
  <2>. HIDE DEF to
  <2>8. ReadsFit(policies, to)
    BY <2>1, <2>2, <2>7, CallerFacts DEF ReadsFit, HasGoverning, AtParent
  <2>9. to.rev \in 1..(Len(policies[to.session]) + 1)
    BY <2>5, <2>7
  <2>10. to.at \in HasRow \ {"records", "activates"} /\ to.at \notin Writing
    BY <2>7 DEF HasRow, Writing
  <2>11. Fits(policies, base, to)
    BY <2>4, <2>6, <2>7, <2>8, <2>9, <2>10, CandidateInHandFits
  <2>. QED
    BY <1>2, <2>6, <2>11, MoveKeeps DEF CaptureReadsLatest
<1>. QED
  BY <1>1, <1>2 DEF CaptureReadsLatest

(* What is known of a caller that has a candidate in hand.                 *)
LEMMA InHand ==
  ASSUME PolicyInv, NEW c \in Callers, caller[c].at \in HasRow
  PROVE  /\ caller[c].session \in Sessions
         /\ ~caller[c].inherited
         /\ caller[c].active \in 0..Len(policies[caller[c].session])
         /\ caller[c].active \in Nat
         /\ Len(policies[caller[c].session]) \in Nat
         /\ Candidate(caller[c].policy)
         /\ RowFits(policies, caller[c].session, caller[c].policy)
<1>1. caller[c].session \in Sessions /\ ~caller[c].inherited
  BY CallerFacts DEF ReadsFit, HasGoverning, HasRow, Accepting, Writing
<1>2. caller[c].active \in 0..Len(policies[caller[c].session])
  BY <1>1, CallerFacts DEF ReadsFit, HasRow, Accepting, Writing
<1>3. Len(policies[caller[c].session]) \in Nat
  BY <1>1, RowOf DEF PolicyInv
<1>4. Candidate(caller[c].policy) /\ RowFits(policies, caller[c].session, caller[c].policy)
  BY CallerFacts DEF WritesFit, Candidate
<1>. QED
  BY <1>1, <1>2, <1>3, <1>4

LEMMA CaptureReadsPendingKeeps ==
  ASSUME TaskPolicyAssumption, PolicyInv, NEW c \in Callers, CaptureReadsPending(c)
  PROVE  Keeps
<1>. DEFINE s == caller[c].session
            active == caller[c].active
            granted == policies[s][active]
            old == caller[c].policy
            narrows == active # 0 /\ Narrower(old.scope, granted.scope)
            row == IF narrows THEN [old EXCEPT !.expires = Least(old.expires, granted.expires)]
                   ELSE old
            to == [caller[c] EXCEPT !.at = "supersedes", !.narrows = narrows, !.policy = row]
<1>0. caller[c].at = "c_reads_pending" /\ UNCHANGED <<policies, base, now>>
  BY DEF CaptureReadsPending
<1>1. CASE Returns(c)
  BY <1>0, <1>1, ReturnKeeps
<1>2. CASE ~Returns(c)
  <2>1. /\ caller[c] \in CallerType /\ "supersedes" \in Step
        /\ caller[c].at \in HasRow /\ caller[c].at \in HasRevision
    BY <1>0, CallerFacts DEF Step, Writing, HasRow, HasRevision
  <2>2. /\ s \in Sessions /\ ~caller[c].inherited /\ active \in 0..Len(policies[s])
        /\ Candidate(old) /\ RowFits(policies, s, old) /\ Len(policies[s]) \in Nat
    BY <2>1, InHand
  <2>3. Moves(c, to)
    <3>1. row = IF narrows THEN [old EXCEPT !.expires = Least(@, granted.expires)] ELSE old
      BY <2>2 DEF Candidate, Policy
    <3>. QED
      BY <1>2, <3>1 DEF CaptureReadsPending
  <2>4. Candidate(row) /\ row.parent = old.parent /\ row.scope = old.scope
    <3>1. CASE narrows
      <4>1. granted \in Policy
        BY <2>2, <3>1, RowOf DEF PolicyInv
      <4>2. Least(old.expires, granted.expires) \in Nat
        BY <2>2, <4>1 DEF Least, Candidate, Policy
      <4>. HIDE DEF granted
      <4>. QED
        BY <2>2, <3>1, <4>2 DEF Candidate, Policy
    <3>2. CASE ~narrows
      BY <2>2, <3>2
    <3>. QED
      BY <3>1, <3>2
  <2>5. RowFits(policies, s, row)
    BY <2>2, <2>4 DEF RowFits
  <2>6. row \in Policy \union {NoPolicy} /\ narrows \in BOOLEAN
    BY <2>4 DEF Candidate
  <2>7. narrows => active # 0 /\ Narrower(row.scope, granted.scope)
    BY <2>4
  <2>. HIDE DEF row, narrows
  <2>8. to \in CallerType
    BY <2>1, <2>6 DEF CallerType
  <2>9. /\ to.at = "supersedes" /\ to.session = s /\ to.policy = row /\ to.rev = caller[c].rev
        /\ to.active = active /\ to.inherited = caller[c].inherited /\ to.narrows = narrows
    BY <2>1 DEF CallerType
  <2>. HIDE DEF to
  <2>10. ReadsFit(policies, to)
    BY <2>2, <2>9 DEF ReadsFit, AtParent, HasGoverning
  <2>11. to.rev \in 1..(Len(policies[to.session]) + 1)
    BY <2>1, <2>9, CallerFacts DEF WritesFit
  <2>12. to.at \in HasRow \ {"records", "activates"} /\ to.at # "h_reads_parent"
    BY <2>9 DEF HasRow, Writing
  <2>13. Fits(policies, base, to)
    BY <2>4, <2>5, <2>7, <2>8, <2>9, <2>10, <2>11, <2>12, CandidateInHandFits
  <2>. QED
    BY <1>0, <2>3, <2>8, <2>13, MoveKeeps
<1>. QED
  BY <1>1, <1>2

-----------------------------------------------------------------------------
(* A compiled policy on its way to the table.                              *)

LEMMA CompiledFits ==
  ASSUME TaskPolicyAssumption, PolicyInv, NEW s \in Sessions, NEW d \in 1..Len(policies[s]),
         NEW row \in Compiled(policies[s][d])
  PROVE  Candidate(row) /\ RowFits(policies, s, row)
<1>. DEFINE draft == policies[s][d]
<1>1. draft \in Policy /\ RowFits(policies, s, draft)
  BY RowOf DEF PolicyInv, Rows, RowsFit
<1>. HIDE DEF draft
<1>2. PICK scope \in SUBSET (draft.scope \union ReadOnly),
           life \in {draft.expires, Least(draft.expires, now + 1)} :
        row = Generated(draft, scope, life)
  BY DEF Compiled, draft
<1>3. scope \in SUBSET Perms /\ life \in Nat
  <2>1. draft.scope \in SUBSET Perms /\ draft.expires \in Nat
    BY <1>1 DEF Policy
  <2>2. scope \in SUBSET Perms
    BY <2>1 DEF TaskPolicyAssumption
  <2>3. Least(draft.expires, now + 1) \in Nat
    BY <2>1 DEF PolicyInv, Types, Least
  <2>. QED
    BY <2>1, <2>2, <2>3
<1>4. row \in Policy
  BY <1>1, <1>2, <1>3 DEF Generated, Policy, PolicyStatus, Open
<1>5. row.status = "pending" /\ row.by = "nobody" /\ row.parent = draft.parent
  BY <1>1, <1>2 DEF Generated, Policy
<1>. QED
  BY <1>1, <1>4, <1>5 DEF Candidate, RowFits

LEMMA HybridStartsKeeps ==
  ASSUME TaskPolicyAssumption, PolicyInv, NEW c \in Callers, NEW s \in Sessions,
         NEW d \in Revisions(s), HybridStarts(c, s, d)
  PROVE  Keeps
<1>1. d \in 1..Len(policies[s]) /\ Len(policies[s]) \in Nat
  BY RowOf DEF Revisions, PolicyInv
<1>2. PICK row \in Compiled(policies[s][d]) :
        Moves(c, [Idle EXCEPT !.at = "h_reads_active", !.session = s, !.policy = row,
                              !.hybrid = TRUE])
  BY DEF HybridStarts
<1>. DEFINE to == [Idle EXCEPT !.at = "h_reads_active", !.session = s, !.policy = row,
                               !.hybrid = TRUE]
<1>3. Candidate(row) /\ RowFits(policies, s, row)
  BY <1>1, CompiledFits
<1>4. to \in CallerType
  BY <1>3 DEF Candidate, Idle, CallerType, Step, Accepting
<1>5. /\ to.at = "h_reads_active" /\ to.session = s /\ to.policy = row /\ to.active = 0
      /\ to.inherited = FALSE
  BY DEF Idle
<1>. HIDE DEF to
<1>6. ReadsFit(policies, to)
  BY <1>1, <1>5 DEF ReadsFit, AtParent, HasGoverning
<1>7. /\ to.at \in HasRow \ {"records", "activates"} /\ to.at \notin HasRevision
      /\ to.at \notin Writing
  BY <1>5 DEF HasRow, HasRevision, Accepting, Writing
<1>8. Fits(policies, base, to)
  BY <1>3, <1>4, <1>5, <1>6, <1>7, CandidateInHandFits
<1>. QED
  BY <1>2, <1>4, <1>8, MoveKeeps DEF HybridStarts, to

LEMMA HybridReadsActiveKeeps ==
  ASSUME TaskPolicyAssumption, PolicyInv, NEW c \in Callers, HybridReadsActive(c)
  PROVE  Keeps
<1>. DEFINE s == caller[c].session
            active == Active(s)
            to == [caller[c] EXCEPT !.at = "h_reads_pending", !.active = active]
<1>1. /\ caller[c] \in CallerType /\ "h_reads_pending" \in Step /\ caller[c].at \in HasRow
  BY CallerFacts DEF HybridReadsActive, Step, Accepting, HasRow
<1>2. s \in Sessions /\ ~caller[c].inherited
      /\ Candidate(caller[c].policy) /\ RowFits(policies, s, caller[c].policy)
  BY <1>1, InHand
<1>3. active \in 0..Len(policies[s]) /\ active \in Nat
  BY <1>2, ActiveFacts, RowOf DEF PolicyInv
<1>. HIDE DEF active
<1>4. to \in CallerType
  BY <1>1, <1>3 DEF CallerType
<1>5. /\ to.at = "h_reads_pending" /\ to.session = s /\ to.policy = caller[c].policy
      /\ to.active = active /\ to.inherited = caller[c].inherited
  BY <1>1 DEF CallerType
<1>6. Moves(c, to) /\ UNCHANGED <<policies, base, now>>
  BY DEF HybridReadsActive, active
<1>. HIDE DEF to
<1>7. ReadsFit(policies, to)
  BY <1>2, <1>3, <1>5 DEF ReadsFit, AtParent, HasGoverning
<1>8. /\ to.at \in HasRow \ {"records", "activates"} /\ to.at \notin HasRevision
      /\ to.at \notin Writing /\ to.at # "h_reads_parent"
  BY <1>5 DEF HasRow, HasRevision, Accepting, Writing
<1>9. Fits(policies, base, to)
  BY <1>2, <1>4, <1>5, <1>7, <1>8, CandidateInHandFits
<1>. QED
  BY <1>4, <1>6, <1>9, MoveKeeps

LEMMA HybridReadsPendingKeeps ==
  ASSUME TaskPolicyAssumption, PolicyInv, NEW c \in Callers, HybridReadsPending(c)
  PROVE  Keeps
<1>. DEFINE s == caller[c].session
            to == [caller[c] EXCEPT !.at = "h_reads_latest"]
<1>1. CASE Returns(c)
  BY <1>1, ReturnKeeps DEF HybridReadsPending
<1>2. CASE Goes(c, "h_reads_latest")
  <2>1. caller[c] \in CallerType /\ "h_reads_latest" \in Step /\ caller[c].at \in HasRow
    BY CallerFacts DEF HybridReadsPending, Step, Accepting, HasRow
  <2>2. to \in CallerType
    BY <2>1, AtType
  <2>3. /\ to.at = "h_reads_latest" /\ to.session = s /\ to.policy = caller[c].policy
        /\ to.active = caller[c].active /\ to.inherited = caller[c].inherited
    BY <2>1 DEF CallerType
  <2>4. Moves(c, to) /\ UNCHANGED <<policies, base, now>>
    BY <1>2 DEF HybridReadsPending, Goes
  <2>. HIDE DEF to
  <2>5. ReadsFit(policies, to)
    BY <2>1, <2>3, InHand DEF ReadsFit, AtParent, HasGoverning
  <2>6. /\ to.at \in HasRow \ {"records", "activates"} /\ to.at \notin HasRevision
        /\ to.at \notin Writing /\ to.at # "h_reads_parent"
    BY <2>3 DEF HasRow, HasRevision, Accepting, Writing
  <2>7. Fits(policies, base, to)
    BY <2>1, <2>2, <2>3, <2>5, <2>6, InHand, CandidateInHandFits
  <2>. QED
    BY <2>2, <2>4, <2>7, MoveKeeps
<1>. QED
  BY <1>1, <1>2 DEF HybridReadsPending

(* The end of both ways to complete a hybrid candidate.                    *)
LEMMA HybridDecidesKeeps ==
  ASSUME TaskPolicyAssumption, PolicyInv, NEW c \in Callers, caller[c].at \in Accepting,
         UNCHANGED <<policies, base, now>>,
         NEW row, Candidate(row), RowFits(policies, caller[c].session, row),
         NEW rev \in 1..(Len(policies[caller[c].session]) + 1), HybridDecides(c, row, rev)
  PROVE  Keeps
<1>. DEFINE s == caller[c].session
            active == caller[c].active
            narrows == active # 0 /\ Narrower(row.scope, policies[s][active].scope)
            to == [caller[c] EXCEPT !.at = "supersedes", !.rev = rev, !.policy = row,
                                    !.narrows = narrows]
<1>1. CASE Returns(c)
  BY <1>1, ReturnKeeps
<1>2. CASE ~Returns(c)
  <2>1. caller[c] \in CallerType /\ "supersedes" \in Step /\ caller[c].at \in HasRow
    BY CallerFacts DEF Step, Writing, HasRow
  <2>2. /\ s \in Sessions /\ ~caller[c].inherited /\ active \in 0..Len(policies[s])
        /\ Len(policies[s]) \in Nat
    BY <2>1, InHand
  <2>3. Moves(c, to)
    BY <1>2 DEF HybridDecides
  <2>4. row \in Policy \union {NoPolicy} /\ narrows \in BOOLEAN /\ rev \in Nat
    BY <2>2 DEF Candidate
  <2>5. narrows => active # 0 /\ Narrower(row.scope, policies[s][active].scope)
    OBVIOUS
  <2>. HIDE DEF narrows
  <2>6. to \in CallerType
    BY <2>1, <2>4 DEF CallerType
  <2>7. /\ to.at = "supersedes" /\ to.session = s /\ to.policy = row /\ to.rev = rev
        /\ to.active = active /\ to.inherited = caller[c].inherited /\ to.narrows = narrows
    BY <2>1 DEF CallerType
  <2>. HIDE DEF to
  <2>8. ReadsFit(policies, to)
    BY <2>2, <2>7 DEF ReadsFit, AtParent, HasGoverning
  <2>9. to.at \in HasRow \ {"records", "activates"} /\ to.at # "h_reads_parent"
    BY <2>7 DEF HasRow, Writing
  <2>10. Fits(policies, base, to)
    BY <2>5, <2>6, <2>7, <2>8, <2>9, CandidateInHandFits
  <2>. QED
    BY <2>3, <2>6, <2>10, MoveKeeps
<1>. QED
  BY <1>1, <1>2

LEMMA HybridReadsLatestKeeps ==
  ASSUME TaskPolicyAssumption, PolicyInv, NEW c \in Callers, HybridReadsLatest(c)
  PROVE  Keeps
<1>. DEFINE s == caller[c].session
            rev == Len(policies[s]) + 1
            to == [caller[c] EXCEPT !.at = "h_reads_parent", !.rev = rev]
<1>1. /\ caller[c] \in CallerType /\ "h_reads_parent" \in Step /\ caller[c].at \in HasRow
      /\ caller[c].at \in Accepting /\ UNCHANGED <<policies, base, now>>
  BY CallerFacts DEF HybridReadsLatest, Step, Accepting, HasRow
<1>2. /\ s \in Sessions /\ ~caller[c].inherited /\ caller[c].active \in 0..Len(policies[s])
      /\ Candidate(caller[c].policy) /\ RowFits(policies, s, caller[c].policy)
      /\ Len(policies[s]) \in Nat
  BY <1>1, InHand
<1>3. rev \in Nat /\ rev \in 1..(Len(policies[s]) + 1)
  BY <1>2
<1>4. CASE caller[c].policy.parent = 0
  <2>1. HybridDecides(c, caller[c].policy, rev)
    BY <1>4 DEF HybridReadsLatest
  <2>. QED
    BY <1>1, <1>2, <1>3, <2>1, HybridDecidesKeeps
<1>5. CASE caller[c].policy.parent # 0
  <2>1. Moves(c, to)
    BY <1>5 DEF HybridReadsLatest
  <2>. HIDE DEF rev
  <2>2. to \in CallerType
    BY <1>1, <1>3 DEF CallerType
  <2>3. /\ to.at = "h_reads_parent" /\ to.session = s /\ to.policy = caller[c].policy
        /\ to.active = caller[c].active /\ to.inherited = caller[c].inherited /\ to.rev = rev
    BY <1>1 DEF CallerType
  <2>4. ParentOf[s] \in Sessions
    BY <1>2, <1>5 DEF RowFits
  <2>. HIDE DEF to
  <2>5. ReadsFit(policies, to)
    BY <1>2, <2>3 DEF ReadsFit, AtParent, HasGoverning
  <2>6. to.at \in HasRow \ {"records", "activates"} /\ to.at \notin Writing
    BY <2>3 DEF HasRow, Accepting, Writing
  <2>7. Fits(policies, base, to)
    BY <1>2, <1>3, <2>2, <2>3, <2>4, <2>5, <2>6, CandidateInHandFits
  <2>. QED
    BY <1>1, <2>1, <2>2, <2>7, MoveKeeps
<1>. QED
  BY <1>4, <1>5

LEMMA HybridReadsParentKeeps ==
  ASSUME TaskPolicyAssumption, PolicyInv, NEW c \in Callers, HybridReadsParent(c)
  PROVE  Keeps
<1>. DEFINE s == caller[c].session
            row == caller[c].policy
<1>1. /\ caller[c].at = "h_reads_parent" /\ caller[c].at \in HasRow
      /\ caller[c].at \in Accepting /\ caller[c].at \in HasRevision
      /\ UNCHANGED <<policies, base, now>>
  BY DEF HybridReadsParent, Accepting, HasRow, HasRevision
<1>2. s \in Sessions /\ Candidate(row) /\ RowFits(policies, s, row)
  BY <1>1, InHand
<1>3. caller[c].rev \in 1..(Len(policies[s]) + 1)
  BY <1>1, CallerFacts DEF WritesFit
<1>4. CASE Returns(c)
  BY <1>1, <1>4, ReturnKeeps
<1>5. CASE HybridDecides(c, Intersected(row, s), caller[c].rev)
  <2>1. Candidate(Intersected(row, s)) /\ RowFits(policies, s, Intersected(row, s))
    BY <1>2, IntersectedFits DEF PolicyInv
  <2>. QED
    BY <1>1, <1>3, <1>5, <2>1, HybridDecidesKeeps
<1>. QED
  BY <1>4, <1>5 DEF HybridReadsParent

-----------------------------------------------------------------------------
(* Content revisions.                                                      *)

LEMMA ReviseReadsActiveKeeps ==
  ASSUME TaskPolicyAssumption, PolicyInv, NEW c \in Callers, NEW s \in Sessions,
         NEW x \in Content, ReviseReadsActive(c, s, x)
  PROVE  Keeps
<1>. DEFINE old == policies[s][Active(s)]
            row == [old EXCEPT !.status = "pending", !.by = "nobody", !.scope = @ \union {x}]
            to == [Idle EXCEPT !.at = "r_reads_latest", !.session = s, !.policy = row]
<1>1. Active(s) \in 1..Len(policies[s]) /\ Len(policies[s]) \in Nat
  BY ActiveFacts, RowOf DEF ReviseReadsActive, PolicyInv
<1>2. old \in Policy /\ RowFits(policies, s, old)
  BY <1>1, RowOf DEF PolicyInv, Rows, RowsFit
<1>3. Moves(c, to) /\ UNCHANGED <<policies, base, now>>
  BY DEF ReviseReadsActive
<1>. HIDE DEF old
<1>4. Candidate(row) /\ row.parent = old.parent
  <2>1. old.scope \union {x} \in SUBSET Perms
    BY <1>2 DEF TaskPolicyAssumption, Policy
  <2>2. row \in Policy
    BY <1>2, <2>1 DEF Policy, PolicyStatus, Open
  <2>. QED
    BY <1>2, <2>2 DEF Candidate, Policy
<1>5. RowFits(policies, s, row)
  BY <1>2, <1>4 DEF RowFits
<1>. HIDE DEF row
<1>6. to \in CallerType
  BY <1>4 DEF Candidate, Idle, CallerType, Step
<1>7. /\ to.at = "r_reads_latest" /\ to.session = s /\ to.policy = row /\ to.active = 0
      /\ to.inherited = FALSE /\ to.narrows = FALSE
  BY DEF Idle
<1>. HIDE DEF to
<1>8. ReadsFit(policies, to)
  BY <1>1, <1>7 DEF ReadsFit, AtParent, HasGoverning
<1>9. /\ to.at \in HasRow \ {"records", "activates"} /\ to.at \notin HasRevision
      /\ to.at \notin Writing /\ to.at # "h_reads_parent"
  BY <1>7 DEF HasRow, HasRevision, Accepting, Writing
<1>10. Fits(policies, base, to)
  BY <1>4, <1>5, <1>6, <1>7, <1>8, <1>9, CandidateInHandFits
<1>. QED
  BY <1>3, <1>6, <1>10, MoveKeeps

LEMMA ReviseReadsLatestKeeps ==
  ASSUME TaskPolicyAssumption, PolicyInv, NEW c \in Callers, ReviseReadsLatest(c)
  PROVE  Keeps
<1>. DEFINE s == caller[c].session
            rev == Len(policies[s]) + 1
            to == [caller[c] EXCEPT !.at = "supersedes", !.rev = rev]
<1>1. /\ caller[c] \in CallerType /\ "supersedes" \in Step /\ caller[c].at \in HasRow
      /\ Moves(c, to) /\ UNCHANGED <<policies, base, now>>
  BY CallerFacts DEF ReviseReadsLatest, Step, Writing, HasRow
<1>2. /\ s \in Sessions /\ ~caller[c].inherited /\ caller[c].active \in 0..Len(policies[s])
      /\ Candidate(caller[c].policy) /\ RowFits(policies, s, caller[c].policy)
      /\ Len(policies[s]) \in Nat
  BY <1>1, InHand
<1>3. /\ rev \in Nat /\ rev \in 1..(Len(policies[s]) + 1)
      /\ ~caller[c].narrows
  BY <1>2, CallerFacts DEF ReviseReadsLatest, NarrowingFits
<1>. HIDE DEF rev
<1>4. to \in CallerType
  BY <1>1, <1>3 DEF CallerType
<1>5. /\ to.at = "supersedes" /\ to.session = s /\ to.policy = caller[c].policy
      /\ to.active = caller[c].active /\ to.inherited = caller[c].inherited /\ to.rev = rev
      /\ to.narrows = caller[c].narrows
  BY <1>1 DEF CallerType
<1>. HIDE DEF to
<1>6. ReadsFit(policies, to)
  BY <1>2, <1>5 DEF ReadsFit, AtParent, HasGoverning
<1>7. to.at \in HasRow \ {"records", "activates"} /\ to.at # "h_reads_parent"
  BY <1>5 DEF HasRow, Writing
<1>8. Fits(policies, base, to)
  BY <1>2, <1>3, <1>4, <1>5, <1>6, <1>7, CandidateInHandFits
<1>. QED
  BY <1>1, <1>4, <1>8, MoveKeeps

-----------------------------------------------------------------------------
(* Evaluation.                                                             *)

LEMMA EvaluateReadsActiveKeeps ==
  ASSUME TaskPolicyAssumption, PolicyInv, NEW c \in Callers, NEW s \in Sessions,
         NEW x \in Calls, EvaluateReadsActive(c, s, x)
  PROVE  Keeps
<1>. DEFINE active == Active(s)
            to == [Idle EXCEPT !.at = "reads_pending", !.session = s, !.call = x,
                               !.active = active]
<1>1. active \in 0..Len(policies[s]) /\ active \in Nat
  BY ActiveFacts, RowOf DEF PolicyInv
<1>2. Moves(c, to) /\ UNCHANGED <<policies, base, now>>
  BY DEF EvaluateReadsActive
<1>. HIDE DEF active
<1>3. to \in CallerType
  BY <1>1 DEF Idle, CallerType, Step, Evaluating
<1>4. to.at = "reads_pending" /\ to.session = s /\ to.active = active /\ to.inherited = FALSE
  BY DEF Idle
<1>. HIDE DEF to
<1>5. ReadsFit(policies, to)
  BY <1>1, <1>4 DEF ReadsFit, AtParent, HasGoverning
<1>6. Fits(policies, base, to)
  BY <1>3, <1>4, <1>5, ReadingFits DEF HasRow, HasRevision, Accepting, Writing
<1>. QED
  BY <1>2, <1>3, <1>6, MoveKeeps

(* The same caller at another step of its evaluation.                      *)
LEMMA GoesKeeps ==
  ASSUME PolicyInv, NEW c \in Callers, NEW at \in HasGoverning \union {"inherits"},
         Goes(c, at), UNCHANGED <<policies, base, now>>,
         caller[c].at \in {"reads_pending", "checks_clock", "checks_parent"},
         at \in HasGoverning => caller[c].active # 0,
         at = "inherits" => ParentOf[caller[c].session] \in Sessions /\ ~caller[c].inherited,
         at \in {"checks_parent", "allowed"} =>
           policies[HolderOf(caller[c])][caller[c].active].base = base
  PROVE  Keeps
<1>. DEFINE k == caller[c]
            to == [k EXCEPT !.at = at]
<1>1. k \in CallerType /\ at \in Step
  BY CallerFacts DEF Step, HasGoverning, Evaluating
<1>2. to \in CallerType
  BY <1>1, AtType
<1>3. /\ to.at = at /\ to.session = k.session /\ to.active = k.active
      /\ to.inherited = k.inherited
  BY <1>1 DEF CallerType
<1>4. Moves(c, to)
  BY DEF Goes
<1>. HIDE DEF to
<1>5. ReadsFit(policies, to)
  BY <1>3, CallerFacts DEF ReadsFit, AtParent, HasGoverning
<1>6. BaseFits(policies, base, to)
  BY <1>3 DEF BaseFits, HolderOf
<1>7. at \notin HasRow /\ at \notin HasRevision
  BY DEF HasRow, HasRevision, HasGoverning, Accepting, Writing
<1>8. Fits(policies, base, to)
  BY <1>3, <1>5, <1>6, <1>7
     DEF Fits, WritesFit, NarrowingFits, HasRow, HasRevision, Writing
<1>. QED
  BY <1>2, <1>4, <1>8, MoveKeeps

LEMMA EvaluateReadsPendingKeeps ==
  ASSUME TaskPolicyAssumption, PolicyInv, NEW c \in Callers, EvaluateReadsPending(c)
  PROVE  Keeps
<1>1. caller[c].at = "reads_pending" /\ UNCHANGED <<policies, base, now>>
  BY DEF EvaluateReadsPending
<1>2. CASE Returns(c)
  BY <1>1, <1>2, ReturnKeeps
<1>3. CASE Goes(c, "checks_clock") /\ caller[c].active # 0
  BY <1>1, <1>3, GoesKeeps DEF HasGoverning
<1>4. CASE Goes(c, "inherits") /\ ParentOf[caller[c].session] # NoSession
  <2>1. caller[c].session \in Sessions /\ ~caller[c].inherited
    BY <1>1, CallerFacts DEF ReadsFit, HasGoverning
  <2>2. ParentOf[caller[c].session] \in Sessions
    BY <1>4, <2>1 DEF TaskPolicyAssumption
  <2>. QED
    BY <1>1, <1>4, <2>1, <2>2, GoesKeeps DEF HasGoverning
<1>. QED
  BY <1>2, <1>3, <1>4 DEF EvaluateReadsPending

LEMMA EvaluateInheritsKeeps ==
  ASSUME TaskPolicyAssumption, PolicyInv, NEW c \in Callers, EvaluateInherits(c)
  PROVE  Keeps
<1>. DEFINE s == caller[c].session
            parent == Active(ParentOf[s])
            to == [caller[c] EXCEPT !.at = "checks_clock", !.active = parent,
                                    !.inherited = TRUE]
<1>1. /\ caller[c] \in CallerType /\ "checks_clock" \in Step
      /\ s \in Sessions /\ ParentOf[s] \in Sessions
      /\ UNCHANGED <<policies, base, now>>
  BY CallerFacts DEF EvaluateInherits, Step, Evaluating, ReadsFit, AtParent
<1>2. CASE Returns(c)
  BY <1>1, <1>2, ReturnKeeps
<1>3. CASE parent # 0 /\ Moves(c, to)
  <2>1. parent \in 1..Len(policies[ParentOf[s]]) /\ parent \in Nat
    BY <1>1, <1>3, ActiveFacts, RowOf DEF PolicyInv
  <2>. HIDE DEF parent
  <2>2. to \in CallerType
    BY <1>1, <2>1 DEF CallerType
  <2>3. to.at = "checks_clock" /\ to.session = s /\ to.active = parent /\ to.inherited = TRUE
    BY <1>1 DEF CallerType
  <2>. HIDE DEF to
  <2>4. ReadsFit(policies, to)
    BY <1>1, <1>3, <2>1, <2>3 DEF ReadsFit, AtParent, HasGoverning
  <2>5. Fits(policies, base, to)
    BY <2>2, <2>3, <2>4, ReadingFits DEF HasRow, HasRevision, Accepting, Writing
  <2>. QED
    BY <1>1, <1>3, <2>2, <2>5, MoveKeeps
<1>. QED
  BY <1>2, <1>3 DEF EvaluateInherits

LEMMA EvaluateChecksClockKeeps ==
  ASSUME PolicyInv, NEW c \in Callers, EvaluateChecksClock(c)
  PROVE  Keeps
<1>1. /\ caller[c].at = "checks_clock" /\ UNCHANGED <<policies, base, now>>
      /\ caller[c].active # 0
  BY CallerFacts DEF EvaluateChecksClock, ReadsFit, HasGoverning
<1>2. CASE Returns(c)
  BY <1>1, <1>2, ReturnKeeps
<1>3. CASE Goes(c, "expires")
  BY <1>1, <1>3, GoesKeeps DEF HasGoverning
<1>4. CASE /\ Governing(c).base = base
           /\ Goes(c, "checks_parent") \/ Goes(c, "allowed")
  <2>1. policies[HolderOf(caller[c])][caller[c].active].base = base
    BY <1>4 DEF Governing, Holder, HolderOf
  <2>2. "checks_parent" \in HasGoverning /\ "allowed" \in HasGoverning
    BY DEF HasGoverning
  <2>. QED
    BY <1>1, <1>4, <2>1, <2>2, GoesKeeps
<1>. QED
  BY <1>2, <1>3, <1>4 DEF EvaluateChecksClock, Judges

LEMMA EvaluateChecksParentKeeps ==
  ASSUME PolicyInv, NEW c \in Callers, EvaluateChecksParent(c)
  PROVE  Keeps
<1>1. /\ caller[c].at = "checks_parent" /\ UNCHANGED <<policies, base, now>>
      /\ caller[c].active # 0
      /\ policies[HolderOf(caller[c])][caller[c].active].base = base
  BY CallerFacts DEF EvaluateChecksParent, ReadsFit, HasGoverning, Fits, BaseFits
<1>2. CASE Returns(c)
  BY <1>1, <1>2, ReturnKeeps
<1>3. CASE Goes(c, "allowed")
  BY <1>1, <1>3, GoesKeeps DEF HasGoverning
<1>. QED
  BY <1>2, <1>3 DEF EvaluateChecksParent, Judges

-----------------------------------------------------------------------------
(* The steps that end rows.                                                *)

LEMMA ShutKeeps ==
  ASSUME TaskPolicyAssumption, PolicyInv, Shuts, UNCHANGED <<base, now>>,
         NEW c \in Callers, NEW to \in CallerType, Moves(c, to), Fits(policies', base, to)
  PROVE  Keeps
BY WriteKeeps, ShutsGrows, ShutsActivatesNothing, ShutsKeepsRows DEF Keeps, PolicyInv

(* The rows of one session change.                                         *)
LEMMA OneSession ==
  ASSUME Types, NEW s \in Sessions, NEW rows \in Seq(Policy),
         policies' = [policies EXCEPT ![s] = rows], Len(rows) = Len(policies[s]),
         \A r \in 1..Len(rows) : EndsRow(policies[s][r], rows[r])
  PROVE  Shuts
<1>1. policies' \in [Sessions -> Seq(Policy)]
  BY DEF Types
<1>2. ASSUME NEW q \in Sessions
      PROVE  /\ Len(policies'[q]) = Len(policies[q])
             /\ \A r \in 1..Len(policies[q]) : EndsRow(policies[q][r], policies'[q][r])
  <2>1. policies'[q] = IF q = s THEN rows ELSE policies[q]
    BY DEF Types
  <2>2. CASE q = s
    BY <2>1, <2>2
  <2>3. CASE q # s
    BY <2>1, <2>3 DEF EndsRow
  <2>. QED
    BY <2>2, <2>3
<1>. QED
  BY <1>1, <1>2 DEF Shuts

(* One row changes.                                                        *)
LEMMA OneRow ==
  ASSUME Types, NEW s \in Sessions, NEW r \in 1..Len(policies[s]), NEW row \in Policy,
         policies' = [policies EXCEPT ![s][r] = row], EndsRow(policies[s][r], row)
  PROVE  Shuts
<1>. DEFINE rows == [policies[s] EXCEPT ![r] = row]
<1>1. policies[s] \in Seq(Policy)
  BY RowOf
<1>2. /\ rows \in Seq(Policy) /\ Len(rows) = Len(policies[s])
      /\ \A j \in 1..Len(policies[s]) : rows[j] = IF j = r THEN row ELSE policies[s][j]
  BY <1>1, ExceptSeq
<1>3. policies' = [policies EXCEPT ![s] = rows]
  OBVIOUS
<1>. HIDE DEF rows
<1>4. \A j \in 1..Len(rows) : EndsRow(policies[s][j], rows[j])
  BY <1>2 DEF EndsRow
<1>. QED
  BY <1>2, <1>3, <1>4, OneSession

LEMMA SupersedesKeeps ==
  ASSUME TaskPolicyAssumption, PolicyInv, NEW c \in Callers, Supersedes(c)
  PROVE  Keeps
<1>. DEFINE s == caller[c].session
            rows == Ended(policies[s], {"pending"}, "superseded")
            to == [caller[c] EXCEPT !.at = "records"]
<1>1. /\ caller[c] \in CallerType /\ "records" \in Step
      /\ caller[c].at = "supersedes" /\ caller[c].at \in HasRow /\ caller[c].at \in HasRevision
      /\ Moves(c, to) /\ UNCHANGED <<base, now>>
      /\ policies' = [policies EXCEPT ![s] = rows]
  BY CallerFacts DEF Supersedes, Goes, Step, Writing, HasRow, HasRevision
<1>2. s \in Sessions /\ policies[s] \in Seq(Policy) /\ Types
  BY <1>1, InHand, RowOf DEF PolicyInv
<1>3. {"pending"} \in SUBSET Open /\ "superseded" \in PolicyStatus \ Open
  BY DEF Open, PolicyStatus
<1>4. /\ rows \in Seq(Policy) /\ Len(rows) = Len(policies[s])
      /\ \A r \in 1..Len(policies[s]) :
           EndsRow(policies[s][r], rows[r]) /\ rows[r].status \notin {"pending"}
  BY <1>2, <1>3, EndedRows
<1>5. policies'[s] = rows
  BY <1>1, <1>2 DEF Types
<1>. HIDE DEF rows
<1>6. Shuts
  BY <1>1, <1>2, <1>4, OneSession
<1>7. Fits(policies', base, caller[c])
  BY <1>1, <1>2, <1>6, CallerFacts, ShutsGrows, FitsStable
<1>8. to \in CallerType
  BY <1>1, AtType
<1>9. /\ to.at = "records" /\ to.session = s /\ to.policy = caller[c].policy
      /\ to.active = caller[c].active /\ to.inherited = caller[c].inherited
      /\ to.rev = caller[c].rev /\ to.narrows = caller[c].narrows
  BY <1>1 DEF CallerType
<1>. HIDE DEF to
<1>10. ReadsFit(policies', to)
  BY <1>1, <1>7, <1>9 DEF Fits, ReadsFit, AtParent, HasGoverning
<1>11. WritesFit(policies', to)
  BY <1>1, <1>4, <1>5, <1>7, <1>9 DEF Fits, WritesFit, HasRow, HasRevision, Writing
<1>12. NarrowingFits(policies', to) /\ BaseFits(policies', base, to)
  BY <1>1, <1>7, <1>9 DEF Fits, NarrowingFits, BaseFits, Writing
<1>. QED
  BY <1>1, <1>6, <1>8, <1>10, <1>11, <1>12, ShutKeeps DEF Fits

LEMMA OpenClosed == Open \in SUBSET Open /\ "closed" \in PolicyStatus \ Open
BY DEF Open, PolicyStatus

LEMMA ClosesSessionKeeps ==
  ASSUME TaskPolicyAssumption, PolicyInv, NEW c \in Callers, NEW s \in Sessions,
         ClosesSession(c, s)
  PROVE  Keeps
<1>. DEFINE rows == Ended(policies[s], Open, "closed")
            to == [Idle EXCEPT !.at = "closes_children", !.session = s]
<1>1. /\ Moves(c, to) /\ UNCHANGED <<base, now>>
      /\ policies' = [policies EXCEPT ![s] = rows]
  BY DEF ClosesSession
<1>2. policies[s] \in Seq(Policy) /\ Types
  BY RowOf DEF PolicyInv
<1>3. /\ rows \in Seq(Policy) /\ Len(rows) = Len(policies[s])
      /\ \A r \in 1..Len(policies[s]) : EndsRow(policies[s][r], rows[r])
  BY <1>2, OpenClosed, EndedRows
<1>. HIDE DEF rows
<1>4. Shuts
  BY <1>1, <1>2, <1>3, OneSession
<1>5. to \in CallerType
  BY DEF Idle, CallerType, Step
<1>6. to.at = "closes_children" /\ to.session = s /\ to.active = 0 /\ to.inherited = FALSE
  BY DEF Idle
<1>7. Len(policies'[s]) \in Nat
  BY <1>2, <1>4, ShutsGrows, RevisionsNext
<1>. HIDE DEF to
<1>8. ReadsFit(policies', to)
  BY <1>6, <1>7 DEF ReadsFit, AtParent, HasGoverning
<1>9. Fits(policies', base, to)
  BY <1>5, <1>6, <1>8, ReadingFits DEF HasRow, HasRevision, Accepting, Writing
<1>. QED
  BY <1>1, <1>4, <1>5, <1>9, ShutKeeps

LEMMA ClosesChildrenKeeps ==
  ASSUME TaskPolicyAssumption, PolicyInv, NEW c \in Callers, ClosesChildren(c)
  PROVE  Keeps
<1>1. ASSUME NEW k \in Sessions
      PROVE  /\ policies'[k] \in Seq(Policy) /\ Len(policies'[k]) = Len(policies[k])
             /\ \A r \in 1..Len(policies[k]) : EndsRow(policies[k][r], policies'[k][r])
  <2>1. policies[k] \in Seq(Policy)
    BY RowOf DEF PolicyInv
  <2>2. CASE k \in Children(caller[c].session)
    <3>1. policies'[k] = Ended(policies[k], Open, "closed")
      BY <2>2 DEF ClosesChildren
    <3>. QED
      BY <2>1, <3>1, OpenClosed, EndedRows
  <2>3. CASE k \notin Children(caller[c].session)
    <3>1. policies'[k] = policies[k]
      BY <2>3 DEF ClosesChildren
    <3>. QED
      BY <2>1, <3>1 DEF EndsRow
  <2>. QED
    BY <2>2, <2>3
<1>2. policies' \in [Sessions -> Seq(Policy)]
  BY <1>1 DEF ClosesChildren
<1>3. Shuts
  BY <1>1, <1>2 DEF Shuts
<1>4. Moves(c, Idle) /\ UNCHANGED <<base, now>>
  BY DEF ClosesChildren, Returns
<1>. QED
  BY <1>3, <1>4, IdleFits, ShutKeeps

LEMMA EvaluateExpiresKeeps ==
  ASSUME TaskPolicyAssumption, PolicyInv, NEW c \in Callers, EvaluateExpires(c)
  PROVE  Keeps
<1>. DEFINE s == Holder(c)
            r == caller[c].active
            old == policies[s][r]
            row == [old EXCEPT !.status = IF @ = "active" THEN "expired" ELSE @]
<1>1. Moves(c, Idle) /\ UNCHANGED <<base, now>>
  BY DEF EvaluateExpires, Returns
<1>2. /\ s \in Sessions /\ Types
      /\ r \in 1..Len(policies[s])
  <2>1. /\ caller[c].session \in Sessions /\ r # 0
        /\ caller[c].inherited => ParentOf[caller[c].session] \in Sessions
        /\ caller[c].inherited => r \in 1..Len(policies[ParentOf[caller[c].session]])
        /\ ~caller[c].inherited => r \in 0..Len(policies[caller[c].session])
    BY CallerFacts DEF EvaluateExpires, ReadsFit, HasGoverning
  <2>2. s \in Sessions
    BY <2>1 DEF Holder
  <2>3. Len(policies[s]) \in Nat
    BY <2>2, RowOf DEF PolicyInv
  <2>4. r \in 1..Len(policies[s])
    BY <2>1, <2>3 DEF Holder
  <2>. QED
    BY <2>2, <2>4 DEF PolicyInv
<1>3. old \in Policy
  BY <1>2, RowOf
<1>4. policies' = [policies EXCEPT ![s][r] = row]
  BY DEF EvaluateExpires
<1>5. row \in Policy /\ EndsRow(old, row)
  <2>. HIDE DEF old
  <2>1. CASE old.status = "active"
    <3>1. row = [old EXCEPT !.status = "expired"]
      BY <1>3, <2>1 DEF Policy
    <3>2. "active" \in Open /\ "expired" \in PolicyStatus \ Open
      BY DEF Open, PolicyStatus
    <3>. QED
      BY <1>3, <2>1, <3>1, <3>2, EndedType DEF EndsRow
  <2>2. CASE old.status # "active"
    <3>1. row = old
      BY <1>3, <2>2 DEF Policy
    <3>. QED
      BY <1>3, <3>1 DEF EndsRow
  <2>. QED
    BY <2>1, <2>2
<1>. HIDE DEF row, s, r
<1>6. Shuts
  BY <1>2, <1>4, <1>5, OneRow
<1>. QED
  BY <1>1, <1>6, IdleFits, ShutKeeps

-----------------------------------------------------------------------------
(* The insert.                                                             *)

(* A candidate is added to a session that waits for no other.              *)
LEMMA AppendKeepsRows ==
  ASSUME TaskPolicyAssumption, Types, Rows, NEW s \in Sessions, NEW row, Candidate(row),
         RowFits(policies, s, row),
         \A r \in 1..Len(policies[s]) : policies[s][r].status # "pending",
         policies' = [policies EXCEPT ![s] = Append(@, row)]
  PROVE  /\ Grows /\ ActivatesNothing /\ Rows'
         /\ Len(policies'[s]) = Len(policies[s]) + 1
         /\ policies'[s][Len(policies[s]) + 1] = row
<1>1. policies[s] \in Seq(Policy) /\ Len(policies[s]) \in Nat /\ row \in Policy
  BY RowOf DEF Candidate
<1>2. policies'[s] = Append(policies[s], row)
  BY DEF Types
<1>3. /\ policies'[s] \in Seq(Policy)
      /\ Len(policies'[s]) = Len(policies[s]) + 1
      /\ \A r \in 1..Len(policies[s]) : policies'[s][r] = policies[s][r]
      /\ policies'[s][Len(policies[s]) + 1] = row
  BY <1>1, <1>2, AppendProperties
<1>4. \A q \in Sessions : q # s => policies'[q] = policies[q]
  BY DEF Types
<1>5. policies' \in [Sessions -> Seq(Policy)]
  BY <1>1, <1>2, <1>3 DEF Types
<1>6. ASSUME NEW q \in Sessions
      PROVE  /\ Len(policies[q]) <= Len(policies'[q])
             /\ \A r \in 1..Len(policies[q]) : policies'[q][r] = policies[q][r]
  <2>1. Len(policies[q]) \in Nat
    BY RowOf
  <2>. QED
    BY <1>1, <1>3, <1>4, <2>1
<1>7. Grows
  BY <1>5, <1>6 DEF Grows, KeepsRow
<1>8. ASSUME NEW q \in Sessions, NEW r \in 1..Len(policies'[q])
      PROVE  \/ q = s /\ r = Len(policies[s]) + 1 /\ policies'[q][r] = row
             \/ r \in 1..Len(policies[q]) /\ policies'[q][r] = policies[q][r]
  BY <1>1, <1>3, <1>4
<1>9. ActivatesNothing
  BY <1>8 DEF ActivatesNothing, Candidate
<1>10. Rows'
  <2>1. ASSUME NEW q \in Sessions, NEW r \in 1..Len(policies'[q]),
               policies'[q][r].status = "pending"
        PROVE  r = Len(policies'[q])
    <3>1. CASE q = s
      BY <1>1, <1>3, <1>8, <2>1, <3>1
    <3>2. CASE q # s
      <4>1. policies'[q] = policies[q]
        BY <1>4, <3>2
      <4>. QED
        BY <2>1, <4>1, RowOf DEF Rows, PendingIsNewest, Revisions
    <3>. QED
      BY <3>1, <3>2
  <2>2. ASSUME NEW p \in Sessions, NEW q \in 1..Len(policies'[p]),
               NEW r \in 1..Len(policies'[p]),
               policies'[p][q].status = "active", policies'[p][r].status = "active"
        PROVE  q = r
    <3>1. /\ q \in 1..Len(policies[p]) /\ policies[p][q].status = "active"
          /\ r \in 1..Len(policies[p]) /\ policies[p][r].status = "active"
      BY <1>9, <2>2 DEF ActivatesNothing
    <3>. QED
      BY <3>1, RowOf DEF Rows, OneActive, Revisions
  <2>3. ASSUME NEW q \in Sessions, NEW r \in 1..Len(policies'[q])
        PROVE  RowFits(policies', q, policies'[q][r])
    <3>1. RowFits(policies, q, policies'[q][r])
      BY <1>8, <2>3 DEF Rows, RowsFit
    <3>. QED
      BY <1>7, <3>1, LaterRowFits
  <2>4. \A q \in Sessions : Revisions(q)' = 1..Len(policies'[q])
    BY <1>7, RevisionsNext
  <2>. QED
    BY <2>1, <2>2, <2>3, <2>4 DEF Rows, PendingIsNewest, OneActive, RowsFit
<1>. QED
  BY <1>3, <1>7, <1>9, <1>10

LEMMA RecordsKeeps ==
  ASSUME TaskPolicyAssumption, PolicyInv, NEW c \in Callers, Records(c)
  PROVE  Keeps
<1>. DEFINE s == caller[c].session
            row == caller[c].policy
            to == [caller[c] EXCEPT !.at = "activates"]
<1>1. /\ caller[c] \in CallerType /\ "activates" \in Step /\ UNCHANGED <<base, now>>
      /\ caller[c].at = "records" /\ caller[c].at \in HasRow /\ caller[c].at \in HasRevision
  BY CallerFacts DEF Records, Step, Writing, HasRow, HasRevision
<1>2. /\ s \in Sessions /\ ~caller[c].inherited /\ Candidate(row) /\ RowFits(policies, s, row)
      /\ Len(policies[s]) \in Nat
  BY <1>1, InHand
<1>3. CASE caller[c].rev \in Revisions(s)
  BY <1>1, <1>3, ReturnKeeps DEF Records
<1>4. CASE caller[c].rev \notin Revisions(s)
  <2>1. caller[c].rev = Len(policies[s]) + 1
    <3>1. caller[c].rev \in 1..(Len(policies[s]) + 1)
      BY <1>1, CallerFacts DEF WritesFit
    <3>2. Revisions(s) = 1..Len(policies[s])
      BY <1>2, RowOf DEF PolicyInv, Revisions
    <3>. QED
      BY <1>2, <1>4, <3>1, <3>2
  <2>2. \A r \in 1..Len(policies[s]) : policies[s][r].status # "pending"
    BY <1>1, <2>1, CallerFacts DEF WritesFit
  <2>3. policies' = [policies EXCEPT ![s] = Append(@, row)]
    BY <1>4 DEF Records
  <2>4. /\ Grows /\ ActivatesNothing /\ Rows'
        /\ Len(policies'[s]) = Len(policies[s]) + 1
        /\ policies'[s][Len(policies[s]) + 1] = row
    BY <1>2, <2>2, <2>3, AppendKeepsRows DEF PolicyInv
  <2>5. CASE Moves(c, Idle)
    BY <1>1, <2>4, <2>5, IdleFits, WriteKeeps DEF Keeps
  <2>6. CASE caller[c].narrows /\ Moves(c, to)
    <3>1. Fits(policies', base, caller[c])
      BY <1>1, <2>4, CallerFacts, FitsStable DEF PolicyInv
    <3>2. to \in CallerType
      BY <1>1, AtType
    <3>3. /\ to.at = "activates" /\ to.session = s /\ to.policy = row
          /\ to.active = caller[c].active /\ to.inherited = caller[c].inherited
          /\ to.rev = caller[c].rev /\ to.narrows = caller[c].narrows
      BY <1>1 DEF CallerType
    <3>. HIDE DEF to
    <3>4. ReadsFit(policies', to)
      BY <1>1, <3>1, <3>3 DEF Fits, ReadsFit, AtParent, HasGoverning
    <3>5. WritesFit(policies', to)
      BY <1>1, <3>1, <3>3 DEF Fits, WritesFit, HasRow, HasRevision, Writing
    <3>6. caller[c].rev \in 1..Len(policies'[s]) /\ policies'[s][caller[c].rev] = row
      BY <1>2, <2>1, <2>4
    <3>7. NarrowingFits(policies', to)
      BY <1>1, <2>6, <3>1, <3>3, <3>6 DEF Fits, NarrowingFits, Writing
    <3>8. BaseFits(policies', base, to)
      BY <3>3 DEF BaseFits
    <3>. QED
      BY <1>1, <2>4, <2>6, <3>2, <3>4, <3>5, <3>7, <3>8, WriteKeeps DEF Keeps, Fits
  <2>. QED
    BY <1>4, <2>5, <2>6 DEF Records, Goes, Returns
<1>. QED
  BY <1>3, <1>4

-----------------------------------------------------------------------------
(* Activation: the one step that makes a row active.                       *)

(* What an activation does to the table.                                   *)
Replaces(s, r, by) ==
  /\ policies' \in [Sessions -> Seq(Policy)]
  /\ \A q \in Sessions : q # s => policies'[q] = policies[q]
  /\ Len(policies'[s]) = Len(policies[s])
  /\ policies'[s][r] = [policies[s][r] EXCEPT !.status = "active", !.by = by]
  /\ \A j \in 1..Len(policies[s]) : j # r =>
       /\ EndsRow(policies[s][j], policies'[s][j])
       /\ policies'[s][j].status # "active"
       /\ policies[s][j].status = "active" => policies'[s][j].status = "superseded"

LEMMA ActivationRows ==
  ASSUME Types, NEW s \in Sessions, NEW r \in 1..Len(policies[s]),
         policies[s][r].status = "pending", NEW by \in {"operator", "guardd"},
         Activation(s, r, by)
  PROVE  Replaces(s, r, by)
<1>. DEFINE ended == Ended(policies[s], {"active"}, "superseded")
            row == [policies[s][r] EXCEPT !.status = "active", !.by = by]
            rows == [ended EXCEPT ![r] = row]
<1>1. policies[s] \in Seq(Policy) /\ policies[s][r] \in Policy
  BY RowOf
<1>2. {"active"} \in SUBSET Open /\ "superseded" \in PolicyStatus \ Open
  BY DEF Open, PolicyStatus
<1>3. /\ ended \in Seq(Policy) /\ Len(ended) = Len(policies[s])
      /\ \A j \in 1..Len(policies[s]) :
           EndsRow(policies[s][j], ended[j]) /\ ended[j].status \notin {"active"}
  BY <1>1, <1>2, EndedRows
<1>4. \A j \in 1..Len(policies[s]) :
        ended[j] = IF policies[s][j].status \in {"active"}
                   THEN [policies[s][j] EXCEPT !.status = "superseded"] ELSE policies[s][j]
  BY RowOf DEF Ended
<1>6. \A j \in 1..Len(policies[s]) :
        policies[s][j].status = "active" => ended[j].status = "superseded"
  <2>. SUFFICES ASSUME NEW j \in 1..Len(policies[s]), policies[s][j].status = "active"
               PROVE  ended[j].status = "superseded"
    OBVIOUS
  <2>1. policies[s][j] \in Policy
    BY RowOf
  <2>2. ended[j] = [policies[s][j] EXCEPT !.status = "superseded"]
    BY <1>4
  <2>. QED
    BY <2>1, <2>2 DEF Policy
<1>7. row \in Policy
  BY <1>1 DEF Policy, PolicyStatus, Open
<1>8. policies' = [policies EXCEPT ![s] = rows]
  BY DEF Activation, Activated
<1>. HIDE DEF ended, row
<1>9. /\ rows \in Seq(Policy) /\ Len(rows) = Len(policies[s])
      /\ \A j \in 1..Len(policies[s]) : rows[j] = IF j = r THEN row ELSE ended[j]
  BY <1>3, <1>7, ExceptSeq
<1>. HIDE DEF rows
<1>10. policies'[s] = rows /\ \A q \in Sessions : q # s => policies'[q] = policies[q]
  BY <1>8 DEF Types
<1>11. policies' \in [Sessions -> Seq(Policy)]
  BY <1>8, <1>9 DEF Types
<1>12. policies'[s][r] = row
  BY <1>9, <1>10
<1>. QED
  BY <1>3, <1>6, <1>9, <1>10, <1>11, <1>12 DEF row, Replaces

LEMMA ActivationKeepsRows ==
  ASSUME TaskPolicyAssumption, Types, Rows, NEW s \in Sessions, NEW r \in 1..Len(policies[s]),
         policies[s][r].status = "pending", NEW by \in {"operator", "guardd"},
         Activation(s, r, by)
  PROVE  Grows /\ Rows'
<1>1. policies[s][r] \in Policy
  BY RowOf
<1>2. /\ policies' \in [Sessions -> Seq(Policy)]
      /\ \A q \in Sessions : q # s => policies'[q] = policies[q]
      /\ Len(policies'[s]) = Len(policies[s])
      /\ policies'[s][r] = [policies[s][r] EXCEPT !.status = "active", !.by = by]
      /\ \A j \in 1..Len(policies[s]) : j # r =>
           /\ EndsRow(policies[s][j], policies'[s][j])
           /\ policies'[s][j].status # "active"
  <2>1. Replaces(s, r, by)
    BY ActivationRows
  <2>. QED
    BY <2>1 DEF Replaces
<1>10. ASSUME NEW j \in 1..Len(policies[s])
      PROVE  KeepsRow(policies[s][j], policies'[s][j])
  <2>1. CASE j = r
    <3>1. policies'[s][r] = [policies[s][r] EXCEPT !.status = "active", !.by = by]
      BY <1>2
    <3>. QED
      BY <1>1, <2>1, <3>1 DEF KeepsRow, Policy, Open
  <2>2. CASE j # r
    <3>1. EndsRow(policies[s][j], policies'[s][j]) /\ policies[s][j] \in Policy
      BY <2>2, <1>2, RowOf
    <3>. QED
      BY <3>1 DEF EndsRow, KeepsRow, Policy, Open
  <2>. QED
    BY <2>1, <2>2
<1>3. ASSUME NEW q \in Sessions
      PROVE  /\ Len(policies'[q]) = Len(policies[q])
             /\ \A j \in 1..Len(policies[q]) : KeepsRow(policies[q][j], policies'[q][j])
  <2>1. CASE q = s
    BY <1>10, <2>1, <1>2
  <2>2. CASE q # s
    <3>1. policies'[q] = policies[q]
      BY <2>2, <1>2
    <3>. QED
      BY <3>1 DEF KeepsRow
  <2>. QED
    BY <2>1, <2>2
<1>4. policies' \in [Sessions -> Seq(Policy)]
  BY <1>2
<1>5. Grows
  BY <1>3, <1>4, RowOf DEF Grows
<1>6. \A q \in Sessions : Revisions(q)' = 1..Len(policies[q]) /\ Revisions(q) = 1..Len(policies[q])
  BY <1>3, <1>5, RevisionsNext, RowOf DEF Revisions
<1>7. ASSUME NEW q \in Sessions, NEW j \in 1..Len(policies[q]), policies'[q][j].status = "pending"
      PROVE  j = Len(policies'[q])
  BY <1>3, <1>6, <1>7 DEF KeepsRow, Rows, PendingIsNewest
<1>8. ASSUME NEW q \in Sessions, NEW i \in 1..Len(policies[q]), NEW j \in 1..Len(policies[q]),
             policies'[q][i].status = "active", policies'[q][j].status = "active"
      PROVE  i = j
  <2>1. CASE q = s
    BY <1>8, <2>1, <1>2
  <2>2. CASE q # s
    <3>1. policies'[q] = policies[q]
      BY <2>2, <1>2
    <3>. QED
      BY <1>6, <1>8, <3>1 DEF Rows, OneActive
  <2>. QED
    BY <2>1, <2>2
<1>9. ASSUME NEW q \in Sessions, NEW j \in 1..Len(policies[q])
      PROVE  RowFits(policies', q, policies'[q][j])
  <2>1. policies'[q][j].parent = policies[q][j].parent
    BY <1>3 DEF KeepsRow
  <2>2. RowFits(policies', q, policies[q][j])
    BY <1>5, LaterRowFits DEF Rows, RowsFit
  <2>. QED
    BY <2>1, <2>2 DEF RowFits
<1>. QED
  BY <1>3, <1>5, <1>6, <1>7, <1>8, <1>9 DEF Rows, PendingIsNewest, OneActive, RowsFit

LEMMA ActivatesNarrowedKeeps ==
  ASSUME TaskPolicyAssumption, PolicyInv, NEW c \in Callers, ActivatesNarrowed(c)
  PROVE  /\ PolicyInv' /\ Grows
         /\ \/ ActivatesNothing
            \/ /\ CanActivate(caller[c].session, caller[c].rev, caller[c].active)
               /\ Replaces(caller[c].session, caller[c].rev, "guardd")
<1>. DEFINE s == caller[c].session
            r == caller[c].rev
<1>1. /\ Moves(c, Idle) /\ UNCHANGED <<base, now>>
      /\ caller[c].at = "activates" /\ caller[c].at \in HasRow
  BY DEF ActivatesNarrowed, Returns, Writing, HasRow
<1>2. s \in Sessions /\ r \in 1..Len(policies[s])
  BY <1>1, InHand, CallerFacts DEF NarrowingFits
<1>3. CASE UNCHANGED policies
  BY <1>1, <1>3, SameTable, IdleFits, WriteKeeps
<1>4. CASE CanActivate(s, r, caller[c].active) /\ Activation(s, r, "guardd")
  <2>1. policies[s][r].status = "pending"
    BY <1>4 DEF CanActivate
  <2>2. Replaces(s, r, "guardd") /\ Grows /\ Rows'
    BY <1>2, <1>4, <2>1, ActivationRows, ActivationKeepsRows DEF PolicyInv
  <2>. QED
    BY <1>1, <1>4, <2>2, IdleFits, WriteKeeps
<1>. QED
  BY <1>3, <1>4 DEF ActivatesNarrowed

-----------------------------------------------------------------------------
(* The steps that move no caller.                                          *)

LEMMA TableKeeps ==
  ASSUME PolicyInv, Grows, Rows', UNCHANGED <<base, now, caller>>
  PROVE  PolicyInv'
<1>1. Types'
  BY DEF PolicyInv, Types, Grows
<1>2. ASSUME NEW c \in Callers PROVE Fits(policies', base, caller[c])
  BY CallerFacts, FitsStable DEF PolicyInv
<1>. QED
  BY <1>1, <1>2 DEF PolicyInv

LEMMA OperatorActivatesKeeps ==
  ASSUME TaskPolicyAssumption, PolicyInv, NEW s \in Sessions, NEW r \in Revisions(s),
         OperatorActivates(s, r)
  PROVE  PolicyInv' /\ Grows /\ Replaces(s, r, "operator")
<1>1. r \in 1..Len(policies[s]) /\ policies[s][r].status = "pending"
  BY RowOf DEF PolicyInv, Revisions, OperatorActivates, CanActivate
<1>2. Activation(s, r, "operator") /\ UNCHANGED <<base, now, caller>>
  BY DEF OperatorActivates
<1>3. Replaces(s, r, "operator") /\ Grows /\ Rows'
  BY <1>1, <1>2, ActivationRows, ActivationKeepsRows DEF PolicyInv
<1>. QED
  BY <1>2, <1>3, TableKeeps

LEMMA OperatorRejectsKeeps ==
  ASSUME TaskPolicyAssumption, PolicyInv, NEW s \in Sessions, NEW r \in Revisions(s),
         OperatorRejects(s, r)
  PROVE  Keeps
<1>. DEFINE row == [policies[s][r] EXCEPT !.status = "rejected"]
<1>1. r \in 1..Len(policies[s]) /\ policies[s][r] \in Policy
  BY RowOf DEF PolicyInv, Revisions
<1>2. policies[s][r].status = "pending" /\ policies' = [policies EXCEPT ![s][r] = row]
      /\ UNCHANGED <<base, now, caller>>
  BY DEF OperatorRejects
<1>3. "pending" \in Open /\ "rejected" \in PolicyStatus \ Open
  BY DEF Open, PolicyStatus
<1>4. row \in Policy /\ EndsRow(policies[s][r], row)
  BY <1>1, <1>2, <1>3, EndedType DEF EndsRow
<1>. HIDE DEF row
<1>5. Shuts
  BY <1>1, <1>2, <1>4, OneRow DEF PolicyInv
<1>. QED
  BY <1>2, <1>5, TableKeeps, ShutsGrows, ShutsActivatesNothing, ShutsKeepsRows
     DEF PolicyInv, Keeps

(* No evaluation is past the clock while the base policy changes.          *)
LEMMA BasePublishedKeeps ==
  ASSUME PolicyInv, BasePublished
  PROVE  Keeps
<1>1. Types'
  BY DEF PolicyInv, Types, BasePublished
<1>2. Grows /\ ActivatesNothing /\ Rows'
  BY SameTable DEF BasePublished
<1>3. ASSUME NEW c \in Callers PROVE Fits(policies, base', caller[c])
  <2>1. caller[c].at \notin {"checks_parent", "allowed"}
    BY DEF BasePublished, PolicyLockFree, Evaluating
  <2>. QED
    BY <2>1, CallerFacts DEF Fits, BaseFits
<1>. QED
  BY <1>1, <1>2, <1>3 DEF PolicyInv, BasePublished, Keeps

LEMMA TickKeeps ==
  ASSUME PolicyInv, Tick
  PROVE  Keeps
<1>1. Types' /\ UNCHANGED <<policies, base, caller>>
  BY DEF PolicyInv, Types, Tick
<1>2. Grows /\ ActivatesNothing /\ Rows'
  BY <1>1, SameTable
<1>. QED
  BY <1>1, <1>2 DEF PolicyInv, Keeps

LEMMA RestartKeeps ==
  ASSUME PolicyInv, Restart
  PROVE  Keeps
<1>1. \A c \in Callers : caller'[c] = Idle
  BY DEF Restart
<1>2. Types' /\ UNCHANGED <<policies, base>>
  BY IdleFits DEF PolicyInv, Types, Restart
<1>3. Grows /\ ActivatesNothing /\ Rows'
  BY <1>2, SameTable
<1>4. \A c \in Callers : Fits(policies', base', caller'[c])
  BY <1>1, IdleFits
<1>. QED
  BY <1>2, <1>3, <1>4 DEF PolicyInv, Keeps

-----------------------------------------------------------------------------
(* Every step.                                                             *)

LEMMA CaptureKeeps ==
  ASSUME TaskPolicyAssumption, PolicyInv, NEW c \in Callers, Capture(c),
         ~ActivatesNarrowed(c)
  PROVE  Keeps
BY CaptureReadsActiveKeeps, CaptureReadsParentKeeps, CaptureReadsLatestKeeps,
   CaptureReadsPendingKeeps, SupersedesKeeps, RecordsKeeps
   DEF Capture

LEMMA AcceptHybridCandidateKeeps ==
  ASSUME TaskPolicyAssumption, PolicyInv, NEW c \in Callers, AcceptHybridCandidate(c)
  PROVE  Keeps
BY HybridStartsKeeps, HybridReadsActiveKeeps, HybridReadsPendingKeeps,
   HybridReadsLatestKeeps, HybridReadsParentKeeps
   DEF AcceptHybridCandidate

LEMMA EvaluateKeeps ==
  ASSUME TaskPolicyAssumption, PolicyInv, NEW c \in Callers, Evaluate(c)
  PROVE  Keeps
<1>1. CASE EvaluateAnswers(c)
  BY <1>1, ReturnKeeps DEF EvaluateAnswers
<1>. QED
  BY <1>1, EvaluateReadsActiveKeeps, EvaluateReadsPendingKeeps, EvaluateInheritsKeeps,
     EvaluateChecksClockKeeps, EvaluateExpiresKeeps, EvaluateChecksParentKeeps
     DEF Evaluate

LEMMA NextKeeps ==
  ASSUME TaskPolicyAssumption, PolicyInv, [Next]_vars
  PROVE  \/ Keeps
         \/ \E c \in Callers : ActivatesNarrowed(c)
         \/ \E s \in Sessions : \E r \in Revisions(s) : OperatorActivates(s, r)
<1>1. ASSUME NEW c \in Callers, Capture(c), ~ActivatesNarrowed(c) PROVE Keeps
  BY <1>1, CaptureKeeps
<1>2. ASSUME NEW c \in Callers, AcceptHybridCandidate(c) PROVE Keeps
  BY <1>2, AcceptHybridCandidateKeeps
<1>3. ASSUME NEW c \in Callers, ReviseContent(c) PROVE Keeps
  BY <1>3, ReviseReadsActiveKeeps, ReviseReadsLatestKeeps DEF ReviseContent
<1>4. ASSUME NEW c \in Callers, CloseSession(c) PROVE Keeps
  BY <1>4, ClosesSessionKeeps, ClosesChildrenKeeps DEF CloseSession
<1>5. ASSUME NEW c \in Callers, Evaluate(c) PROVE Keeps
  BY <1>5, EvaluateKeeps
<1>6. ASSUME NEW s \in Sessions, NEW r \in Revisions(s), OperatorRejects(s, r) PROVE Keeps
  BY <1>6, OperatorRejectsKeeps
<1>7. CASE BasePublished \/ Tick \/ Restart
  BY <1>7, BasePublishedKeeps, TickKeeps, RestartKeeps
<1>8. CASE UNCHANGED vars
  <2>1. UNCHANGED <<policies, base, now, caller>>
    BY <1>8 DEF vars
  <2>2. Grows /\ ActivatesNothing /\ Rows'
    BY <2>1, SameTable
  <2>. QED
    BY <2>1, <2>2, TableKeeps DEF Keeps
<1>. QED
  BY <1>1, <1>2, <1>3, <1>4, <1>5, <1>6, <1>7, <1>8 DEF Next

LEMMA StepKeeps ==
  ASSUME TaskPolicyAssumption, PolicyInv, [Next]_vars
  PROVE  PolicyInv' /\ Grows
BY NextKeeps, ActivatesNarrowedKeeps, OperatorActivatesKeeps DEF Keeps

LEMMA InitFits == TaskPolicyAssumption /\ Init => PolicyInv
<1>. SUFFICES ASSUME Init PROVE PolicyInv
  OBVIOUS
<1>1. \A s \in Sessions : policies[s] = <<>> /\ Len(policies[s]) = 0 /\ Revisions(s) = {}
  BY EmptySeq DEF Init, Revisions
<1>2. Types
  BY IdleFits, EmptySeq DEF Init, Types
<1>3. Rows
  BY <1>1 DEF Rows, PendingIsNewest, OneActive, RowsFit
<1>4. \A c \in Callers : Fits(policies, base, caller[c])
  BY IdleFits DEF Init
<1>. QED
  BY <1>2, <1>3, <1>4 DEF PolicyInv

LEMMA Invariant == Spec => []PolicyInv
<1>1. Init => PolicyInv
  BY InitFits, TaskPolicyAssumption
<1>2. PolicyInv /\ [Next]_vars => PolicyInv'
  BY StepKeeps, TaskPolicyAssumption
<1>. QED
  BY <1>1, <1>2, PTL DEF Spec

-----------------------------------------------------------------------------
(* Theorems.                                                               *)

(* The state stays well-typed and no writer ever aims past the next        *)
(* revision.                                                               *)
THEOREM TypeCorrect == Spec => []TypeOK
<1>1. PolicyInv => TypeOK
  <2>. SUFFICES ASSUME PolicyInv, NEW c \in Callers, caller[c].at \in Writing
               PROVE  caller[c].rev \in 1..(Len(policies[caller[c].session]) + 1)
    BY DEF TypeOK, PolicyInv, Types
  <2>. QED
    BY CallerFacts DEF WritesFit, HasRevision
<1>. QED
  BY <1>1, Invariant, PTL

(* The pending revision of a session is its newest one, although no lock   *)
(* is held from the read of the newest revision to the insert.             *)
THEOREM PendingIsNewestCorrect == Spec => []PendingIsNewest
<1>1. PolicyInv => PendingIsNewest
  BY DEF PolicyInv, Rows
<1>. QED
  BY <1>1, Invariant, PTL

(* However captures, generations, content revisions and operators          *)
(* interleave, a session has at most one active revision.                  *)
THEOREM OneActiveCorrect == Spec => []OneActive
<1>1. PolicyInv => OneActive
  BY DEF PolicyInv, Rows
<1>. QED
  BY <1>1, Invariant, PTL

(* A call is allowed only under a policy made for the base policy in force *)
(* when the answer is given: _policy_lock keeps publication out meanwhile. *)
THEOREM AllowUnderCurrentBaseCorrect == Spec => []AllowUnderCurrentBase
<1>1. PolicyInv => AllowUnderCurrentBase
  <2>. SUFFICES ASSUME PolicyInv, NEW c \in Callers, caller[c].at = "allowed"
               PROVE  Governing(c).base = base
    BY DEF AllowUnderCurrentBase
  <2>. QED
    BY CallerFacts DEF Fits, BaseFits, Governing, Holder, HolderOf
<1>. QED
  BY <1>1, Invariant, PTL

(* No step, of whatever late writer, changes a revision whose outcome is   *)
(* decided.                                                                *)
THEOREM DecidedIsFinalCorrect == Spec => DecidedIsFinal
<1>1. ASSUME PolicyInv, [Next]_vars
      PROVE  [\A s \in Sessions : \A r \in Revisions(s) :
                policies[s][r].status \notin Open => policies'[s][r] = policies[s][r]]_vars
  <2>. SUFFICES ASSUME NEW s \in Sessions, NEW r \in Revisions(s),
                       policies[s][r].status \notin Open
               PROVE  policies'[s][r] = policies[s][r]
    OBVIOUS
  <2>1. r \in 1..Len(policies[s])
    BY <1>1, RowOf DEF PolicyInv, Revisions
  <2>2. KeepsRow(policies[s][r], policies'[s][r])
    BY <1>1, <2>1, StepKeeps, TaskPolicyAssumption DEF Grows
  <2>. QED
    BY <2>2 DEF KeepsRow
<1>. QED
  BY <1>1, Invariant, PTL DEF Spec, DecidedIsFinal

(* Behind whatever guardd activates by itself is one caller, and the       *)
(* active revision that it read is replaced.                               *)
LEMMA AutoActivation ==
  ASSUME TaskPolicyAssumption, PolicyInv, [Next]_vars,
         NEW s \in Sessions, NEW r \in AutoActivated(s)
  PROVE  \E c \in Callers :
           /\ caller[c].at = "activates" /\ caller[c].session = s /\ caller[c].rev = r
           /\ r \in 1..Len(policies[s]) /\ caller[c].active \in Revisions(s)
           /\ policies[s][caller[c].active].status = "active"
           /\ policies'[s][caller[c].active].status = "superseded"
<1>1. /\ r \in 1..Len(policies'[s])
      /\ policies'[s][r].status = "active" /\ policies'[s][r].by = "guardd"
      /\ r \in 1..Len(policies[s]) => policies[s][r].status # "active"
  <2>1. DOMAIN policies'[s] = 1..Len(policies'[s]) /\ Revisions(s) = 1..Len(policies[s])
    BY StepKeeps, RevisionsNext, RowOf DEF PolicyInv, Revisions
  <2>. QED
    BY <2>1 DEF AutoActivated
<1>2. ~ActivatesNothing
  BY <1>1 DEF ActivatesNothing
(* The row that was activated is r, in this session.                       *)
<1>3. ASSUME NEW q \in Sessions, NEW a \in 1..Len(policies[q]),
             NEW by \in {"operator", "guardd"},
             Replaces(q, a, by), policies[q][a].status = "pending"
      PROVE  q = s /\ a = r /\ by = "guardd"
  <2>1. q = s
    <3>1. q # s => policies'[s] = policies[s]
      BY <1>3 DEF Replaces
    <3>. QED
      BY <1>1, <3>1
  <2>2. a = r
    BY <1>1, <1>3, <2>1 DEF Replaces
  <2>3. policies[s][r] \in Policy
    BY <1>3, <2>1, <2>2, RowOf DEF PolicyInv
  <2>4. policies'[s][r] = [policies[s][r] EXCEPT !.status = "active", !.by = by]
    BY <1>3, <2>1, <2>2 DEF Replaces
  <2>. QED
    BY <1>1, <2>1, <2>2, <2>3, <2>4 DEF Policy
<1>4. ASSUME NEW q \in Sessions, NEW a \in Revisions(q), OperatorActivates(q, a)
      PROVE  FALSE
  <2>1. a \in 1..Len(policies[q]) /\ policies[q][a].status = "pending"
    BY <1>4, RowOf DEF PolicyInv, Revisions, OperatorActivates, CanActivate
  <2>2. Replaces(q, a, "operator")
    BY <1>4, OperatorActivatesKeeps
  <2>. QED
    BY <1>3, <2>1, <2>2
<1>5. PICK c \in Callers : ActivatesNarrowed(c)
  BY <1>2, <1>4, NextKeeps DEF Keeps
<1>. DEFINE k == caller[c]
<1>6. CanActivate(k.session, k.rev, k.active) /\ Replaces(k.session, k.rev, "guardd")
  BY <1>2, <1>5, ActivatesNarrowedKeeps
<1>7. /\ k.session \in Sessions /\ k.at = "activates"
      /\ k.rev \in 1..Len(policies[k.session]) /\ k.active \in 0..Len(policies[k.session])
      /\ k.active # 0
  <2>1. k.at = "activates" /\ k.at \in HasRow /\ k.at \in Writing
    BY <1>5 DEF ActivatesNarrowed, HasRow, Writing
  <2>. QED
    BY <2>1, InHand, CallerFacts DEF NarrowingFits
<1>8. policies[k.session][k.rev].status = "pending" /\ Active(k.session) = k.active
  BY <1>6 DEF CanActivate
<1>9. k.session = s /\ k.rev = r
  BY <1>3, <1>6, <1>7, <1>8
<1>10. /\ k.active \in 1..Len(policies[s]) /\ Len(policies[s]) \in Nat
       /\ policies[s][k.active].status = "active" /\ k.active # r
  BY <1>1, <1>7, <1>8, <1>9, ActiveFacts, RowOf DEF PolicyInv
<1>11. policies'[s][k.active].status = "superseded"
  BY <1>6, <1>9, <1>10 DEF Replaces
<1>12. k.active \in Revisions(s)
  BY <1>10, RowOf DEF PolicyInv, Revisions
<1>. QED
  BY <1>7, <1>9, <1>10, <1>11, <1>12

(* Whatever guardd activates by itself replaces an active revision that    *)
(* permits strictly more.                                                  *)
LEMMA StepNarrows ==
  ASSUME TaskPolicyAssumption, PolicyInv, [Next]_vars,
         NEW s \in Sessions, NEW r \in AutoActivated(s)
  PROVE  \E q \in Revisions(s) :
           /\ policies[s][q].status = "active" /\ policies'[s][q].status = "superseded"
           /\ Narrower(policies'[s][r].scope, policies[s][q].scope)
<1>1. PICK c \in Callers :
        /\ caller[c].at = "activates" /\ caller[c].session = s /\ caller[c].rev = r
        /\ r \in 1..Len(policies[s]) /\ caller[c].active \in Revisions(s)
        /\ policies[s][caller[c].active].status = "active"
        /\ policies'[s][caller[c].active].status = "superseded"
  BY AutoActivation
<1>2. Narrower(policies[s][r].scope, policies[s][caller[c].active].scope)
  BY <1>1, CallerFacts DEF NarrowingFits, Writing
<1>3. policies'[s][r].scope = policies[s][r].scope
  BY <1>1, StepKeeps DEF Grows, KeepsRow
<1>. QED
  BY <1>1, <1>2, <1>3

(* Without an operator a session is only ever given less, however many     *)
(* writers are at work between the comparison and the activation.          *)
THEOREM OnlyOperatorsWidenCorrect == Spec => OnlyOperatorsWiden
<1>1. ASSUME PolicyInv, [Next]_vars
      PROVE  [\A s \in Sessions : \A r \in AutoActivated(s) : \E q \in Revisions(s) :
                /\ policies[s][q].status = "active" /\ policies'[s][q].status = "superseded"
                /\ Narrower(policies'[s][r].scope, policies[s][q].scope)]_vars
  BY <1>1, StepNarrows, TaskPolicyAssumption
<1>. QED
  BY <1>1, Invariant, PTL DEF Spec, OnlyOperatorsWiden

-----------------------------------------------------------------------------
(* Scope and life of the rows.                                             *)

(* Where the row in hand has been held against the parent's.               *)
Held == {"c_reads_pending", "r_reads_latest"} \union Writing

(* A row permits what its parent row permits and what operators added.     *)
Within(table, s, row) ==
  row.parent # 0 =>
    row.scope \subseteq table[ParentOf[s]][row.parent].scope \union Content

(* A narrowing of the deterministic synthesizer lives no longer than what  *)
(* it narrows, and the inserted row is the one that was compared.          *)
HandFits(table, k) ==
  /\ k.at \in Held => Within(table, k.session, k.policy)
  /\ k.at \in Accepting => k.policy.generator = "hybrid"
  /\ k.at \in HasRow /\ k.policy.generator = "hybrid" => Hybrid
  /\ k.at \in Writing /\ k.narrows /\ k.policy.generator = "deterministic" =>
       k.policy.expires <= table[k.session][k.active].expires
  /\ k.at = "activates" =>
       /\ table[k.session][k.rev].generator = k.policy.generator
       /\ table[k.session][k.rev].expires = k.policy.expires

RowMade(table, s, row) == Within(table, s, row) /\ (row.generator = "hybrid" => Hybrid)

RowsMade == \A s \in Sessions : \A r \in 1..Len(policies[s]) : RowMade(policies, s, policies[s][r])

HandInv == PolicyInv /\ RowsMade /\ \A c \in Callers : HandFits(policies, caller[c])

(* Rows keep scope, parent and generator, so what fits goes on fitting.    *)
LEMMA LaterWithin ==
  ASSUME TaskPolicyAssumption, Types, Grows, NEW s \in Sessions, NEW row,
         RowFits(policies, s, row), Within(policies, s, row)
  PROVE  Within(policies', s, row)
<1>. SUFFICES ASSUME row.parent # 0
             PROVE  row.scope \subseteq policies'[ParentOf[s]][row.parent].scope \union Content
  BY DEF Within
<1>1. ParentOf[s] \in Sessions /\ row.parent \in 1..Len(policies[ParentOf[s]])
  BY DEF RowFits
<1>2. policies'[ParentOf[s]][row.parent].scope = policies[ParentOf[s]][row.parent].scope
  BY <1>1 DEF Grows, KeepsRow
<1>. QED
  BY <1>2 DEF Within

LEMMA HandStable ==
  ASSUME TaskPolicyAssumption, PolicyInv, Grows, NEW k, Fits(policies, base, k),
         HandFits(policies, k)
  PROVE  HandFits(policies', k)
<1>1. k.at \in Held => k.at \in HasRow
  BY DEF Held, HasRow
<1>2. k.at \in Held => Within(policies', k.session, k.policy)
  <2>. SUFFICES ASSUME k.at \in Held PROVE Within(policies', k.session, k.policy)
    OBVIOUS
  <2>1. k.session \in Sessions /\ RowFits(policies, k.session, k.policy)
    BY <1>1 DEF Fits, ReadsFit, WritesFit, Held, Writing
  <2>2. Within(policies, k.session, k.policy)
    BY DEF HandFits
  <2>. QED
    BY <2>1, <2>2, LaterWithin DEF PolicyInv
<1>3. k.at \in Writing /\ k.narrows =>
        policies'[k.session][k.active].expires = policies[k.session][k.active].expires
  <2>. SUFFICES ASSUME k.at \in Writing, k.narrows
               PROVE  policies'[k.session][k.active].expires = policies[k.session][k.active].expires
    OBVIOUS
  <2>1. k.session \in Sessions /\ ~k.inherited
    BY DEF Fits, ReadsFit, Writing, HasGoverning
  <2>2. k.active \in 0..Len(policies[k.session]) /\ k.active # 0
    BY <2>1 DEF Fits, ReadsFit, NarrowingFits, Writing
  <2>3. k.active \in 1..Len(policies[k.session])
    BY <2>1, <2>2, RowOf DEF PolicyInv
  <2>. QED
    BY <2>1, <2>3 DEF Grows, KeepsRow
<1>4. k.at = "activates" =>
        /\ policies'[k.session][k.rev].generator = policies[k.session][k.rev].generator
        /\ policies'[k.session][k.rev].expires = policies[k.session][k.rev].expires
  <2>. SUFFICES ASSUME k.at = "activates"
               PROVE  /\ policies'[k.session][k.rev].generator =
                           policies[k.session][k.rev].generator
                      /\ policies'[k.session][k.rev].expires = policies[k.session][k.rev].expires
    OBVIOUS
  <2>1. k.session \in Sessions /\ k.rev \in 1..Len(policies[k.session])
    BY DEF Fits, ReadsFit, NarrowingFits
  <2>. QED
    BY <2>1 DEF Grows, KeepsRow
<1>. QED
  BY <1>2, <1>3, <1>4 DEF HandFits

(* A caller with nothing in hand, and one that takes its row along.        *)
LEMMA EmptyHandFits ==
  ASSUME NEW table, NEW k, k.at \notin HasRow
  PROVE  HandFits(table, k)
BY DEF HandFits, HasRow, Held, Writing

LEMMA CarriedHandFits ==
  ASSUME NEW table, NEW k, NEW to, HandFits(table, k),
         to.session = k.session, to.policy = k.policy, to.at # "activates",
         \/ k.at \in Accepting /\ to.at \in Accepting
         \/ k.at \in Held /\ to.at \in Held \ Writing
         \/ k.at \in Held /\ to.at \in Writing /\ ~to.narrows
         \/ k.at \in Writing /\ to.at \in Writing /\ to.narrows = k.narrows /\ to.active = k.active
  PROVE  HandFits(table, to)
BY DEF HandFits, HasRow, Held, Writing, Accepting

-----------------------------------------------------------------------------
(* The steps that put a row in hand.                                       *)

LEMMA IntersectedWithin ==
  ASSUME Types, NEW s \in Sessions, NEW row, Candidate(row), RowFits(policies, s, row)
  PROVE  /\ Within(policies, s, Intersected(row, s))
         /\ Intersected(row, s).generator = row.generator
<1>1. CASE row.parent = 0
  BY <1>1 DEF Intersected, Within
<1>2. CASE row.parent # 0
  <2>. DEFINE parent == policies[ParentOf[s]][row.parent]
              new == Intersected(row, s)
  <2>1. new = [row EXCEPT !.scope = row.scope \intersect parent.scope,
                          !.expires = Least(row.expires, parent.expires)]
    BY <1>2 DEF Intersected, Candidate, Policy
  <2>2. /\ new.parent = row.parent /\ new.generator = row.generator
        /\ new.scope = row.scope \intersect parent.scope
    BY <2>1 DEF Candidate, Policy
  <2>. HIDE DEF new
  <2>. QED
    BY <2>2 DEF Within, new
<1>. QED
  BY <1>1, <1>2

LEMMA CaptureReadsLatestHand ==
  ASSUME TaskPolicyAssumption, HandInv, NEW c \in Callers, CaptureReadsLatest(c)
  PROVE  HandFits(policies', caller'[c])
<1>. DEFINE k == caller[c]
            s == caller[c].session
            row == [status |-> "pending", source |-> k.source, scope |-> ScopeOf[k.source],
                    parent |-> k.parent, base |-> base, expires |-> now + Ttl,
                    generator |-> "deterministic", by |-> "nobody"]
            new == Synthesized(s, k.source, k.parent)
<1>1. /\ k \in CallerType /\ k.at = "c_reads_latest" /\ UNCHANGED policies
      /\ s \in Sessions /\ k.source \in Prompts /\ RowFits(policies, s, k)
  BY CallerFacts DEF HandInv, CaptureReadsLatest, ReadsFit
<1>2. row \in Policy /\ RowFits(policies, s, row)
  <2>1. now + Ttl \in Nat /\ ScopeOf[k.source] \in SUBSET Perms /\ base \in Bases
        /\ k.parent \in Nat
    BY <1>1 DEF TaskPolicyAssumption, HandInv, PolicyInv, Types, CallerType
  <2>2. row \in Policy
    BY <1>1, <2>1 DEF Policy, PolicyStatus, Open
  <2>. QED
    BY <1>1, <2>2 DEF RowFits
<1>3. Candidate(row) /\ row.generator = "deterministic"
  BY <1>2 DEF Candidate
<1>. HIDE DEF row
<1>4. Within(policies, s, Intersected(row, s)) /\ Intersected(row, s).generator = "deterministic"
  BY <1>1, <1>2, <1>3, IntersectedWithin DEF HandInv, PolicyInv
<1>5. new = Intersected(row, s)
  BY DEF Synthesized, row
<1>. HIDE DEF new
<1>6. \/ caller'[c] = Idle
      \/ caller'[c] = [k EXCEPT !.at = "c_reads_pending", !.rev = Len(policies[s]) + 1,
                                !.policy = new, !.source = NoPolicy, !.parent = 0]
  BY DEF CaptureReadsLatest, Returns, Moves, HandInv, PolicyInv, Types, new
<1>7. CASE caller'[c] = Idle
  BY <1>7, EmptyHandFits DEF Idle, HasRow, Accepting, Writing
<1>8. CASE caller'[c] = [k EXCEPT !.at = "c_reads_pending", !.rev = Len(policies[s]) + 1,
                                  !.policy = new, !.source = NoPolicy, !.parent = 0]
  <2>1. /\ caller'[c].at = "c_reads_pending" /\ caller'[c].session = s
        /\ caller'[c].policy = new
    BY <1>1, <1>8 DEF CallerType
  <2>. QED
    BY <1>1, <1>4, <1>5, <2>1 DEF HandFits, Held, HasRow, Accepting, Writing
<1>. QED
  BY <1>6, <1>7, <1>8
(* One caller moved, to where what it holds fits.                          *)
HandMoves(c) ==
  /\ HandFits(policies', caller'[c])
  /\ \A d \in Callers : d # c => caller'[d] = caller[d]

LEMMA MoveFits ==
  ASSUME PolicyInv, NEW c \in Callers, NEW to, Moves(c, to), HandFits(policies', to)
  PROVE  HandMoves(c)
<1>1. caller'[c] = to /\ \A d \in Callers : d # c => caller'[d] = caller[d]
  BY DEF PolicyInv, Types, Moves
<1>. QED
  BY <1>1 DEF HandMoves

LEMMA EmptyMoveFits ==
  ASSUME PolicyInv, NEW c \in Callers, NEW to, Moves(c, to), to.at \notin HasRow
  PROVE  HandMoves(c)
BY MoveFits, EmptyHandFits

LEMMA ReturnFits ==
  ASSUME PolicyInv, NEW c \in Callers, Returns(c)
  PROVE  HandMoves(c)
<1>1. Idle.at \notin HasRow
  BY DEF Idle, HasRow, Accepting, Writing
<1>. QED
  BY <1>1, EmptyMoveFits DEF Returns

LEMMA CaptureReadsPendingHand ==
  ASSUME TaskPolicyAssumption, HandInv, NEW c \in Callers, CaptureReadsPending(c)
  PROVE  HandMoves(c)
<1>. DEFINE k == caller[c]
            s == k.session
            old == k.policy
            granted == policies[s][k.active]
            narrows == k.active # 0 /\ Narrower(old.scope, granted.scope)
            row == IF narrows THEN [old EXCEPT !.expires = Least(old.expires, granted.expires)]
                   ELSE old
            to == [k EXCEPT !.at = "supersedes", !.narrows = narrows, !.policy = row]
<1>1. /\ PolicyInv /\ k \in CallerType /\ k.at = "c_reads_pending" /\ k.at \in HasRow
      /\ k.at \in Held /\ UNCHANGED policies
  BY CallerFacts DEF HandInv, CaptureReadsPending, HasRow, Held
<1>2. /\ s \in Sessions /\ Candidate(old) /\ k.active \in 0..Len(policies[s])
      /\ Len(policies[s]) \in Nat
  BY <1>1, InHand
<1>3. Returns(c) \/ Moves(c, to)
  <2>1. row = IF narrows THEN [old EXCEPT !.expires = Least(@, granted.expires)] ELSE old
    BY <1>2 DEF Candidate, Policy
  <2>. QED
    BY <2>1 DEF CaptureReadsPending
<1>4. HandFits(policies, k)
  BY DEF HandInv
<1>5. /\ row.parent = old.parent /\ row.scope = old.scope /\ row.generator = old.generator
      /\ narrows => row.expires <= granted.expires
  <2>1. CASE narrows
    <3>1. granted \in Policy
      BY <1>1, <1>2, <2>1, RowOf DEF PolicyInv
    <3>2. Least(old.expires, granted.expires) <= granted.expires
      <4>1. old.expires \in Nat /\ granted.expires \in Nat
        BY <1>2, <3>1 DEF Candidate, Policy
      <4>. HIDE DEF old, granted
      <4>. QED
        BY <4>1 DEF Least
    <3>. HIDE DEF granted
    <3>. QED
      BY <1>2, <2>1, <3>2 DEF Candidate, Policy
  <2>2. CASE ~narrows
    BY <2>2
  <2>. QED
    BY <2>1, <2>2
<1>6. Within(policies, s, row)
  BY <1>1, <1>4, <1>5 DEF HandFits, Within
<1>. HIDE DEF row, narrows
<1>7. /\ to.at = "supersedes" /\ to.session = s /\ to.policy = row
      /\ to.active = k.active /\ to.narrows = narrows
  BY <1>1 DEF CallerType
<1>. HIDE DEF to
<1>8. HandFits(policies, to)
  BY <1>1, <1>4, <1>5, <1>6, <1>7 DEF HandFits, Held, HasRow, Accepting, Writing
<1>. QED
  BY <1>1, <1>3, <1>8, ReturnFits, MoveFits

LEMMA SupersedesHand ==
  ASSUME TaskPolicyAssumption, HandInv, Grows, NEW c \in Callers, Supersedes(c)
  PROVE  HandMoves(c)
<1>. DEFINE k == caller[c]
            to == [k EXCEPT !.at = "records"]
<1>1. /\ PolicyInv /\ k \in CallerType /\ k.at = "supersedes" /\ Moves(c, to)
      /\ Fits(policies, base, k) /\ HandFits(policies, k)
  BY CallerFacts DEF HandInv, Supersedes, Goes
<1>2. HandFits(policies', k)
  BY <1>1, HandStable
<1>3. /\ to.at = "records" /\ to.session = k.session /\ to.policy = k.policy
      /\ to.active = k.active /\ to.narrows = k.narrows
  BY <1>1 DEF CallerType
<1>. HIDE DEF to
<1>4. k.at \in Writing /\ to.at \in Writing /\ to.at # "activates"
  BY <1>1, <1>3 DEF Writing
<1>5. HandFits(policies', to)
  BY <1>2, <1>3, <1>4, CarriedHandFits
<1>. QED
  BY <1>1, <1>5, MoveFits

-----------------------------------------------------------------------------
(* The insert, the only step that adds a row.                              *)

SameLengths == \A s \in Sessions : Len(policies'[s]) = Len(policies[s])

(* The row is the one in hand.                                             *)
Adds(c) ==
  LET s == caller[c].session
  IN  /\ policies' = [policies EXCEPT ![s] = Append(@, caller[c].policy)]
      /\ \A r \in 1..Len(policies[s]) : policies[s][r].status # "pending"
      /\ \A q \in Sessions : q # s => Len(policies'[q]) = Len(policies[q])
      /\ Len(policies'[s]) = Len(policies[s]) + 1
      /\ caller[c].rev = Len(policies[s]) + 1
      /\ policies'[s][caller[c].rev] = caller[c].policy

LEMMA RecordsAdds ==
  ASSUME TaskPolicyAssumption, PolicyInv, NEW c \in Callers, Records(c)
  PROVE  (SameLengths /\ Returns(c)) \/ Adds(c)
<1>. DEFINE s == caller[c].session
            row == caller[c].policy
<1>1. caller[c].at = "records" /\ caller[c].at \in HasRow /\ caller[c].at \in HasRevision
  BY DEF Records, Writing, HasRow, HasRevision
<1>2. /\ s \in Sessions /\ Candidate(row) /\ RowFits(policies, s, row)
      /\ Len(policies[s]) \in Nat
  BY <1>1, InHand
<1>3. CASE caller[c].rev \in Revisions(s)
  BY <1>3 DEF Records, SameLengths
<1>4. CASE caller[c].rev \notin Revisions(s)
  <2>1. caller[c].rev = Len(policies[s]) + 1
    <3>1. caller[c].rev \in 1..(Len(policies[s]) + 1)
      BY <1>1, CallerFacts DEF WritesFit
    <3>2. Revisions(s) = 1..Len(policies[s])
      BY <1>2, RowOf DEF PolicyInv, Revisions
    <3>. QED
      BY <1>2, <1>4, <3>1, <3>2
  <2>2. \A r \in 1..Len(policies[s]) : policies[s][r].status # "pending"
    BY <1>1, <2>1, CallerFacts DEF WritesFit
  <2>3. policies' = [policies EXCEPT ![s] = Append(@, row)]
    BY <1>4 DEF Records
  <2>4. /\ Len(policies'[s]) = Len(policies[s]) + 1
        /\ policies'[s][Len(policies[s]) + 1] = row
    BY <1>2, <2>2, <2>3, AppendKeepsRows DEF PolicyInv
  <2>5. \A q \in Sessions : q # s => policies'[q] = policies[q]
    BY <2>3 DEF PolicyInv, Types
  <2>. QED
    BY <2>1, <2>2, <2>3, <2>4, <2>5 DEF Adds
<1>. QED
  BY <1>3, <1>4

LEMMA RecordsHand ==
  ASSUME TaskPolicyAssumption, HandInv, Grows, NEW c \in Callers, Records(c)
  PROVE  HandMoves(c)
<1>. DEFINE k == caller[c]
            to == [k EXCEPT !.at = "activates"]
<1>1. /\ PolicyInv /\ k \in CallerType /\ k.at = "records"
      /\ Fits(policies, base, k) /\ HandFits(policies, k)
  BY CallerFacts DEF HandInv, Records
<1>2. CASE Returns(c)
  BY <1>1, <1>2, ReturnFits
<1>3. CASE ~Returns(c)
  <2>1. Moves(c, to) /\ Adds(c)
    BY <1>1, <1>3, RecordsAdds DEF Records, Goes
  <2>2. HandFits(policies', k)
    BY <1>1, HandStable
  <2>3. /\ to.at = "activates" /\ to.session = k.session /\ to.policy = k.policy
        /\ to.active = k.active /\ to.narrows = k.narrows /\ to.rev = k.rev
    BY <1>1 DEF CallerType
  <2>. HIDE DEF to
  <2>4. policies'[to.session][to.rev] = to.policy
    BY <2>1, <2>3 DEF Adds
  <2>5. HandFits(policies', to)
    BY <1>1, <2>2, <2>3, <2>4 DEF HandFits, Held, HasRow, Accepting, Writing
  <2>. QED
    BY <1>1, <2>1, <2>5, MoveFits
<1>. QED
  BY <1>2, <1>3
-----------------------------------------------------------------------------
(* A hybrid candidate and a content revision on their way.                 *)

LEMMA HybridStartsHand ==
  ASSUME TaskPolicyAssumption, HandInv, NEW c \in Callers, NEW s \in Sessions,
         NEW d \in Revisions(s), HybridStarts(c, s, d)
  PROVE  HandMoves(c)
<1>1. d \in 1..Len(policies[s]) /\ PolicyInv /\ UNCHANGED policies /\ Hybrid
  BY RowOf DEF Revisions, HandInv, PolicyInv, HybridStarts
<1>2. PICK row \in Compiled(policies[s][d]) :
        Moves(c, [Idle EXCEPT !.at = "h_reads_active", !.session = s, !.policy = row,
                              !.hybrid = TRUE])
  BY DEF HybridStarts
<1>. DEFINE to == [Idle EXCEPT !.at = "h_reads_active", !.session = s, !.policy = row,
                               !.hybrid = TRUE]
<1>3. row.generator = "hybrid"
  <2>. DEFINE draft == policies[s][d]
  <2>1. draft \in Policy
    BY <1>1, RowOf DEF PolicyInv
  <2>. HIDE DEF draft
  <2>2. PICK scope \in SUBSET (draft.scope \union ReadOnly),
             life \in {draft.expires, Least(draft.expires, now + 1)} :
          row = Generated(draft, scope, life)
    BY DEF Compiled, draft
  <2>. QED
    BY <2>1, <2>2 DEF Generated, Policy
<1>4. to.at = "h_reads_active" /\ to.policy = row
  BY DEF Idle
<1>5. HandFits(policies', to)
  BY <1>1, <1>3, <1>4 DEF HandFits, Held, Writing
<1>. QED
  BY <1>1, <1>2, <1>5, MoveFits

(* The same row one step on.                                               *)
LEMMA AcceptingHand ==
  ASSUME TaskPolicyAssumption, HandInv, UNCHANGED policies, NEW c \in Callers,
         caller[c].at \in Accepting, NEW to, Moves(c, to), to.at \in Accepting,
         to.session = caller[c].session, to.policy = caller[c].policy
  PROVE  HandMoves(c)
<1>1. PolicyInv /\ HandFits(policies, caller[c]) /\ to.at # "activates"
  BY DEF HandInv, Accepting
<1>2. HandFits(policies', to)
  BY <1>1, CarriedHandFits
<1>. QED
  BY <1>1, <1>2, MoveFits

LEMMA HybridReadsActiveHand ==
  ASSUME TaskPolicyAssumption, HandInv, NEW c \in Callers, HybridReadsActive(c)
  PROVE  HandMoves(c)
<1>. DEFINE active == Active(caller[c].session)
            to == [caller[c] EXCEPT !.at = "h_reads_pending", !.active = active]
<1>1. caller[c] \in CallerType
  BY CallerFacts DEF HandInv
<1>2. Moves(c, to) /\ UNCHANGED policies /\ caller[c].at \in Accepting
  BY DEF HybridReadsActive, Accepting
<1>. HIDE DEF active
<1>3. /\ to.at \in Accepting /\ to.session = caller[c].session
      /\ to.policy = caller[c].policy
  BY <1>1 DEF CallerType, Accepting
<1>. HIDE DEF to
<1>. QED
  BY <1>2, <1>3, AcceptingHand

LEMMA HybridReadsPendingHand ==
  ASSUME TaskPolicyAssumption, HandInv, NEW c \in Callers, HybridReadsPending(c)
  PROVE  HandMoves(c)
<1>. DEFINE to == [caller[c] EXCEPT !.at = "h_reads_latest"]
<1>1. caller[c] \in CallerType /\ PolicyInv
  BY CallerFacts DEF HandInv
<1>2. CASE Returns(c)
  BY <1>1, <1>2, ReturnFits
<1>3. CASE ~Returns(c)
  <2>1. Moves(c, to) /\ UNCHANGED policies /\ caller[c].at \in Accepting
    BY <1>3 DEF HybridReadsPending, Accepting, Goes
  <2>2. /\ to.at \in Accepting /\ to.session = caller[c].session
        /\ to.policy = caller[c].policy
    BY <1>1 DEF CallerType, Accepting
  <2>. HIDE DEF to
  <2>. QED
    BY <2>1, <2>2, AcceptingHand
<1>. QED
  BY <1>2, <1>3

LEMMA HybridDecidesHand ==
  ASSUME TaskPolicyAssumption, HandInv, UNCHANGED policies, NEW c \in Callers,
         caller[c].at \in Accepting, NEW row, NEW rev, HybridDecides(c, row, rev),
         row.generator = "hybrid", Within(policies, caller[c].session, row)
  PROVE  HandMoves(c)
<1>. DEFINE s == caller[c].session
            active == caller[c].active
            narrows == active # 0 /\ Narrower(row.scope, policies[s][active].scope)
            to == [caller[c] EXCEPT !.at = "supersedes", !.rev = rev, !.policy = row,
                                    !.narrows = narrows]
<1>1. /\ caller[c] \in CallerType /\ PolicyInv /\ HandFits(policies, caller[c])
  BY CallerFacts DEF HandInv
<1>2. Returns(c) \/ Moves(c, to)
  BY DEF HybridDecides
<1>3. Hybrid
  BY <1>1, InHand DEF HandFits, HasRow
<1>. HIDE DEF narrows
<1>4. to.at = "supersedes" /\ to.session = s /\ to.policy = row
  BY <1>1 DEF CallerType
<1>. HIDE DEF to
<1>5. HandFits(policies', to)
  BY <1>3, <1>4 DEF HandFits, Accepting
<1>. QED
  BY <1>1, <1>2, <1>5, ReturnFits, MoveFits

LEMMA HybridReadsLatestHand ==
  ASSUME TaskPolicyAssumption, HandInv, NEW c \in Callers, HybridReadsLatest(c)
  PROVE  HandMoves(c)
<1>. DEFINE k == caller[c]
            rev == Len(policies[k.session]) + 1
            to == [k EXCEPT !.at = "h_reads_parent", !.rev = rev]
<1>1. /\ k \in CallerType /\ k.at \in Accepting /\ UNCHANGED policies
      /\ k.policy.generator = "hybrid"
  BY CallerFacts DEF HandInv, HandFits, HybridReadsLatest, Accepting
<1>2. CASE k.policy.parent = 0
  <2>1. HybridDecides(c, k.policy, rev)
    BY <1>2 DEF HybridReadsLatest
  <2>2. Within(policies, k.session, k.policy)
    BY <1>2 DEF Within
  <2>. QED
    BY <1>1, <2>1, <2>2, HybridDecidesHand
<1>3. CASE k.policy.parent # 0
  <2>1. Moves(c, to)
    BY <1>3 DEF HybridReadsLatest
  <2>. HIDE DEF rev
  <2>2. to.at \in Accepting /\ to.session = k.session /\ to.policy = k.policy
    BY <1>1 DEF CallerType, Accepting
  <2>. HIDE DEF to
  <2>. QED
    BY <1>1, <2>1, <2>2, AcceptingHand
<1>. QED
  BY <1>2, <1>3

LEMMA HybridReadsParentHand ==
  ASSUME TaskPolicyAssumption, HandInv, NEW c \in Callers, HybridReadsParent(c)
  PROVE  HandMoves(c)
<1>. DEFINE k == caller[c]
            row == k.policy
<1>1. /\ k.at \in Accepting /\ k.at \in HasRow /\ UNCHANGED policies /\ PolicyInv
      /\ row.generator = "hybrid"
  BY DEF HandInv, HandFits, HybridReadsParent, Accepting, HasRow
<1>2. CASE Returns(c)
  BY <1>1, <1>2, ReturnFits
<1>3. CASE ~Returns(c)
  <2>1. HybridDecides(c, Intersected(row, k.session), k.rev)
    BY <1>3 DEF HybridReadsParent
  <2>2. k.session \in Sessions /\ Candidate(row) /\ RowFits(policies, k.session, row)
    BY <1>1, InHand
  <2>3. /\ Within(policies, k.session, Intersected(row, k.session))
        /\ Intersected(row, k.session).generator = "hybrid"
    BY <1>1, <2>2, IntersectedWithin DEF PolicyInv
  <2>. QED
    BY <1>1, <2>1, <2>3, HybridDecidesHand
<1>. QED
  BY <1>2, <1>3

LEMMA ReviseReadsActiveHand ==
  ASSUME TaskPolicyAssumption, HandInv, NEW c \in Callers, NEW s \in Sessions,
         NEW x \in Content, ReviseReadsActive(c, s, x)
  PROVE  HandMoves(c)
<1>. DEFINE old == policies[s][Active(s)]
            row == [old EXCEPT !.status = "pending", !.by = "nobody", !.scope = @ \union {x}]
            to == [Idle EXCEPT !.at = "r_reads_latest", !.session = s, !.policy = row]
<1>1. Active(s) \in 1..Len(policies[s]) /\ PolicyInv
  BY ActiveFacts, RowOf DEF ReviseReadsActive, PolicyInv, HandInv
<1>2. old \in Policy /\ RowMade(policies, s, old)
  BY <1>1, RowOf DEF PolicyInv, HandInv, RowsMade
<1>3. Moves(c, to) /\ UNCHANGED policies
  BY DEF ReviseReadsActive
<1>. HIDE DEF old
<1>4. /\ row.parent = old.parent /\ row.generator = old.generator
      /\ row.scope = old.scope \union {x}
  BY <1>2 DEF Policy
<1>. HIDE DEF row
<1>5. Within(policies, s, row) /\ (row.generator = "hybrid" => Hybrid)
  BY <1>2, <1>4 DEF RowMade, Within
<1>6. to.at = "r_reads_latest" /\ to.session = s /\ to.policy = row
  BY DEF Idle
<1>. HIDE DEF to
<1>7. HandFits(policies', to)
  BY <1>3, <1>5, <1>6 DEF HandFits, Accepting, Writing
<1>. QED
  BY <1>1, <1>3, <1>7, MoveFits

LEMMA ReviseReadsLatestHand ==
  ASSUME TaskPolicyAssumption, HandInv, NEW c \in Callers, ReviseReadsLatest(c)
  PROVE  HandMoves(c)
<1>. DEFINE k == caller[c]
            rev == Len(policies[k.session]) + 1
            to == [k EXCEPT !.at = "supersedes", !.rev = rev]
<1>1. /\ k \in CallerType /\ k.at = "r_reads_latest" /\ ~k.narrows /\ PolicyInv
      /\ HandFits(policies, k) /\ Moves(c, to) /\ UNCHANGED policies
  BY CallerFacts DEF ReviseReadsLatest, HandInv, NarrowingFits
<1>. HIDE DEF rev
<1>2. to.at = "supersedes" /\ to.session = k.session /\ to.policy = k.policy /\ ~to.narrows
  BY <1>1 DEF CallerType
<1>. HIDE DEF to
<1>3. k.at \in Held /\ to.at \in Writing /\ to.at # "activates"
  BY <1>1, <1>2 DEF Held, Writing
<1>4. HandFits(policies', to)
  BY <1>1, <1>2, <1>3, CarriedHandFits
<1>. QED
  BY <1>1, <1>4, MoveFits
-----------------------------------------------------------------------------
(* Every step.                                                             *)

LEMMA CaptureReadsLatestMoves ==
  ASSUME TaskPolicyAssumption, HandInv, NEW c \in Callers, CaptureReadsLatest(c)
  PROVE  HandMoves(c)
<1>1. \A d \in Callers : d # c => caller'[d] = caller[d]
  BY DEF CaptureReadsLatest, Returns, Moves, HandInv, PolicyInv, Types
<1>. QED
  BY <1>1, CaptureReadsLatestHand DEF HandMoves

LEMMA CaptureHand ==
  ASSUME TaskPolicyAssumption, HandInv, Grows, NEW c \in Callers, Capture(c)
  PROVE  HandMoves(c)
<1>0. PolicyInv
  BY DEF HandInv
<1>1. ASSUME NEW s \in Sessions, NEW p \in Prompts, CaptureReadsActive(c, s, p)
      PROVE  HandMoves(c)
  <2>. DEFINE to == [Idle EXCEPT
         !.at = IF ParentOf[s] = NoSession THEN "c_reads_latest" ELSE "c_reads_parent",
         !.session = s, !.source = p, !.active = Active(s)]
  <2>1. Moves(c, to)
    BY <1>1 DEF CaptureReadsActive
  <2>2. to.at \in {"c_reads_latest", "c_reads_parent"}
    BY DEF Idle
  <2>. HIDE DEF to
  <2>. QED
    BY <1>0, <2>1, <2>2, EmptyMoveFits DEF HasRow, Accepting, Writing
<1>2. CASE CaptureReadsParent(c)
  <2>. DEFINE parent == Active(ParentOf[caller[c].session])
              to == [caller[c] EXCEPT !.at = "c_reads_latest", !.parent = parent]
  <2>1. Returns(c) \/ Moves(c, to)
    BY <1>2 DEF CaptureReadsParent
  <2>. HIDE DEF parent
  <2>2. to.at = "c_reads_latest"
    BY <1>0, CallerFacts DEF CallerType
  <2>. HIDE DEF to
  <2>. QED
    BY <1>0, <2>1, <2>2, EmptyMoveFits, ReturnFits DEF HasRow, Accepting, Writing
<1>3. CASE ActivatesNarrowed(c)
  BY <1>0, <1>3, ReturnFits DEF ActivatesNarrowed
<1>. QED
  BY <1>1, <1>2, <1>3, CaptureReadsLatestMoves, CaptureReadsPendingHand, SupersedesHand,
     RecordsHand
     DEF Capture

LEMMA AcceptHybridCandidateHand ==
  ASSUME TaskPolicyAssumption, HandInv, NEW c \in Callers, AcceptHybridCandidate(c)
  PROVE  HandMoves(c)
BY HybridStartsHand, HybridReadsActiveHand, HybridReadsPendingHand, HybridReadsLatestHand,
   HybridReadsParentHand
   DEF AcceptHybridCandidate

LEMMA ReviseContentHand ==
  ASSUME TaskPolicyAssumption, HandInv, NEW c \in Callers, ReviseContent(c)
  PROVE  HandMoves(c)
BY ReviseReadsActiveHand, ReviseReadsLatestHand DEF ReviseContent

LEMMA CloseSessionHand ==
  ASSUME PolicyInv, NEW c \in Callers, CloseSession(c)
  PROVE  HandMoves(c)
<1>1. ASSUME NEW s \in Sessions, ClosesSession(c, s)
      PROVE  HandMoves(c)
  <2>. DEFINE to == [Idle EXCEPT !.at = "closes_children", !.session = s]
  <2>1. Moves(c, to) /\ to.at = "closes_children"
    BY <1>1 DEF ClosesSession, Idle
  <2>. HIDE DEF to
  <2>. QED
    BY <2>1, EmptyMoveFits DEF HasRow, Accepting, Writing
<1>. QED
  BY <1>1, ReturnFits DEF CloseSession, ClosesChildren

(* An evaluation has no row in hand.                                       *)
LEMMA GoesEmpty ==
  ASSUME PolicyInv, NEW c \in Callers, NEW at, at \notin HasRow, Goes(c, at)
  PROVE  HandMoves(c)
<1>. DEFINE to == [caller[c] EXCEPT !.at = at]
<1>1. Moves(c, to) /\ to.at = at
  BY CallerFacts DEF Goes, CallerType
<1>. HIDE DEF to
<1>. QED
  BY <1>1, EmptyMoveFits

LEMMA EvaluateHand ==
  ASSUME PolicyInv, NEW c \in Callers, Evaluate(c)
  PROVE  HandMoves(c)
<1>. Evaluating \intersect HasRow = {}
  BY DEF Evaluating, HasRow, Accepting, Writing
<1>1. ASSUME NEW s \in Sessions, NEW x \in Calls, EvaluateReadsActive(c, s, x)
      PROVE  HandMoves(c)
  <2>. DEFINE to == [Idle EXCEPT !.at = "reads_pending", !.session = s, !.call = x,
                                 !.active = Active(s)]
  <2>1. Moves(c, to) /\ to.at = "reads_pending"
    BY <1>1 DEF EvaluateReadsActive, Idle
  <2>. HIDE DEF to
  <2>. QED
    BY <2>1, EmptyMoveFits DEF Evaluating
<1>2. CASE EvaluateInherits(c)
  <2>. DEFINE parent == Active(ParentOf[caller[c].session])
              to == [caller[c] EXCEPT !.at = "checks_clock", !.active = parent,
                                      !.inherited = TRUE]
  <2>1. Returns(c) \/ Moves(c, to)
    BY <1>2 DEF EvaluateInherits
  <2>. HIDE DEF parent
  <2>2. to.at = "checks_clock"
    BY CallerFacts DEF CallerType
  <2>. HIDE DEF to
  <2>. QED
    BY <2>1, <2>2, EmptyMoveFits, ReturnFits DEF Evaluating
<1>3. CASE \/ Returns(c)
           \/ \E at \in {"checks_clock", "inherits", "expires", "checks_parent", "allowed"} :
                Goes(c, at)
  BY <1>3, ReturnFits, GoesEmpty DEF Evaluating
<1>4. CASE EvaluateReadsPending(c)
  BY <1>3, <1>4 DEF EvaluateReadsPending
<1>5. CASE EvaluateChecksClock(c)
  BY <1>3, <1>5 DEF EvaluateChecksClock, Judges
<1>6. CASE EvaluateExpires(c)
  BY <1>3, <1>6 DEF EvaluateExpires
<1>7. CASE EvaluateChecksParent(c)
  BY <1>3, <1>7 DEF EvaluateChecksParent, Judges
<1>8. CASE EvaluateAnswers(c)
  BY <1>3, <1>8 DEF EvaluateAnswers
<1>. QED
  BY <1>1, <1>2, <1>4, <1>5, <1>6, <1>7, <1>8 DEF Evaluate

LEMMA HandsStep ==
  ASSUME TaskPolicyAssumption, HandInv, [Next]_vars
  PROVE  \A d \in Callers : HandFits(policies', caller'[d])
<1>1. PolicyInv /\ Grows
  BY StepKeeps DEF HandInv
<1>2. ASSUME NEW d \in Callers, caller'[d] = caller[d]
      PROVE  HandFits(policies', caller'[d])
  <2>1. Fits(policies, base, caller[d]) /\ HandFits(policies, caller[d])
    BY <1>1, CallerFacts DEF HandInv
  <2>. QED
    BY <1>1, <1>2, <2>1, HandStable
<1>3. ASSUME NEW c \in Callers, HandMoves(c)
      PROVE  \A d \in Callers : HandFits(policies', caller'[d])
  BY <1>2, <1>3 DEF HandMoves
<1>4. CASE \E c \in Callers :
             \/ Capture(c) \/ AcceptHybridCandidate(c) \/ ReviseContent(c) \/ CloseSession(c)
             \/ Evaluate(c)
  BY <1>1, <1>3, <1>4, CaptureHand, AcceptHybridCandidateHand, ReviseContentHand,
     CloseSessionHand, EvaluateHand
<1>5. CASE Restart
  <2>1. Idle.at \notin HasRow
    BY DEF Idle, HasRow, Accepting, Writing
  <2>. QED
    BY <1>5, <2>1, EmptyHandFits DEF Restart
<1>6. CASE UNCHANGED caller
  BY <1>2, <1>6
<1>. QED
  BY <1>4, <1>5, <1>6 DEF Next, OperatorActivates, OperatorRejects, BasePublished, Tick, vars
LEMMA ReplacedLength ==
  ASSUME Types, NEW s \in Sessions, NEW rows, Len(rows) = Len(policies[s]),
         policies' = [policies EXCEPT ![s] = rows]
  PROVE  SameLengths
BY DEF SameLengths, Types

LEMMA RowReplacedLength ==
  ASSUME Types, NEW s \in Sessions, NEW r, NEW row,
         r \in 1..Len(policies[s]), row \in Policy,
         policies' = [policies EXCEPT ![s][r] = row]
  PROVE  SameLengths
<1>. DEFINE rows == [policies[s] EXCEPT ![r] = row]
<1>1. policies[s] \in Seq(Policy)
  BY RowOf
<1>2. Len(rows) = Len(policies[s])
  BY <1>1, ExceptSeq
<1>3. policies' = [policies EXCEPT ![s] = rows]
  OBVIOUS
<1>. HIDE DEF rows
<1>. QED
  BY <1>2, <1>3, ReplacedLength

LEMMA EndedLength ==
  ASSUME Types, NEW s \in Sessions, NEW statuses \in SUBSET Open,
         NEW status \in PolicyStatus \ Open
  PROVE  Len(Ended(policies[s], statuses, status)) = Len(policies[s])
BY RowOf, EndedRows

LEMMA ActivationLength ==
  ASSUME Types, NEW s \in Sessions, NEW r \in 1..Len(policies[s]),
         policies[s][r].status = "pending", NEW by \in {"operator", "guardd"},
         Activation(s, r, by)
  PROVE  SameLengths
BY ActivationRows DEF Replaces, SameLengths

LEMMA LengthsStep ==
  ASSUME TaskPolicyAssumption, PolicyInv, [Next]_vars
  PROVE  SameLengths \/ \E c \in Callers : Records(c) /\ Adds(c)
<1>0. Types
  BY DEF PolicyInv
<1>1. CASE UNCHANGED policies
  BY <1>1 DEF SameLengths
<1>2. ASSUME NEW c \in Callers, Records(c)
      PROVE  SameLengths \/ Adds(c)
  BY <1>2, RecordsAdds
<1>3. ASSUME NEW c \in Callers, Supersedes(c)
      PROVE  SameLengths
  <2>. DEFINE s == caller[c].session
              rows == Ended(policies[s], {"pending"}, "superseded")
  <2>1. s \in Sessions
    BY <1>3, InHand DEF Supersedes, HasRow, Writing
  <2>2. {"pending"} \in SUBSET Open /\ "superseded" \in PolicyStatus \ Open
    BY DEF Open, PolicyStatus
  <2>3. Len(rows) = Len(policies[s])
    BY <1>0, <2>1, <2>2, EndedLength
  <2>4. policies' = [policies EXCEPT ![s] = rows]
    BY <1>3 DEF Supersedes
  <2>. HIDE DEF rows, s
  <2>. QED
    BY <1>0, <2>1, <2>3, <2>4, ReplacedLength
<1>4. ASSUME NEW c \in Callers, NEW s \in Sessions, ClosesSession(c, s)
      PROVE  SameLengths
  <2>. DEFINE rows == Ended(policies[s], Open, "closed")
  <2>1. Len(rows) = Len(policies[s])
    BY <1>0, OpenClosed, EndedLength
  <2>2. policies' = [policies EXCEPT ![s] = rows]
    BY <1>4 DEF ClosesSession
  <2>. HIDE DEF rows
  <2>. QED
    BY <1>0, <2>1, <2>2, ReplacedLength
<1>5. ASSUME NEW c \in Callers, ClosesChildren(c)
      PROVE  SameLengths
  <2>1. \A k \in Sessions :
          \/ policies'[k] = Ended(policies[k], Open, "closed")
          \/ policies'[k] = policies[k]
    BY <1>5 DEF ClosesChildren
  <2>2. \A k \in Sessions : Len(Ended(policies[k], Open, "closed")) = Len(policies[k])
    BY <1>0, OpenClosed, EndedLength
  <2>. QED
    BY <2>1, <2>2 DEF SameLengths
<1>6. ASSUME NEW c \in Callers, ActivatesNarrowed(c)
      PROVE  SameLengths
  <2>1. /\ caller[c].session \in Sessions
        /\ caller[c].rev \in 1..Len(policies[caller[c].session])
    BY <1>6, InHand, CallerFacts DEF ActivatesNarrowed, NarrowingFits, HasRow, Writing
  <2>. QED
    BY <1>0, <1>6, <2>1, ActivationLength DEF ActivatesNarrowed, CanActivate, SameLengths
<1>7. ASSUME NEW c \in Callers, EvaluateExpires(c)
      PROVE  SameLengths
  <2>. DEFINE s == Holder(c)
              r == caller[c].active
              old == policies[s][r]
              row == [old EXCEPT !.status = IF @ = "active" THEN "expired" ELSE @]
  <2>1. /\ caller[c].session \in Sessions /\ r # 0
        /\ caller[c].inherited => ParentOf[caller[c].session] \in Sessions
        /\ caller[c].inherited => r \in 1..Len(policies[ParentOf[caller[c].session]])
        /\ ~caller[c].inherited => r \in 0..Len(policies[caller[c].session])
    BY <1>7, CallerFacts DEF EvaluateExpires, ReadsFit, HasGoverning
  <2>2. s \in Sessions
    BY <2>1 DEF Holder
  <2>3. Len(policies[s]) \in Nat
    BY <1>0, <2>2, RowOf
  <2>4. r \in 1..Len(policies[s])
    BY <2>1, <2>3 DEF Holder
  <2>5. old \in Policy
    BY <1>0, <2>2, <2>4, RowOf
  <2>6. policies' = [policies EXCEPT ![s][r] = row]
    BY <1>7 DEF EvaluateExpires
  <2>7. row \in Policy
    <3>. HIDE DEF old
    <3>. QED
      BY <2>5 DEF Policy, PolicyStatus, Open
  <2>. HIDE DEF row, s, r
  <2>. QED
    BY <1>0, <2>2, <2>4, <2>6, <2>7, RowReplacedLength
<1>8. ASSUME NEW s \in Sessions, NEW r \in Revisions(s), OperatorRejects(s, r)
      PROVE  SameLengths
  <2>. DEFINE row == [policies[s][r] EXCEPT !.status = "rejected"]
  <2>1. r \in 1..Len(policies[s]) /\ policies[s][r] \in Policy
    BY <1>0, RowOf DEF Revisions
  <2>2. "rejected" \in PolicyStatus
    BY DEF PolicyStatus
  <2>3. row \in Policy
    BY <2>1, <2>2, EndedType
  <2>4. policies' = [policies EXCEPT ![s][r] = row]
    BY <1>8 DEF OperatorRejects
  <2>. HIDE DEF row
  <2>. QED
    BY <1>0, <2>1, <2>3, <2>4, RowReplacedLength
<1>9. ASSUME NEW s \in Sessions, NEW r \in Revisions(s), OperatorActivates(s, r)
      PROVE  SameLengths
  <2>1. r \in 1..Len(policies[s])
    BY <1>0, RowOf DEF Revisions
  <2>. QED
    BY <1>0, <1>9, <2>1, ActivationLength DEF OperatorActivates, CanActivate
<1>10. CASE \E c \in Callers : Capture(c)
  BY <1>1, <1>2, <1>3, <1>6, <1>10
     DEF Capture, CaptureReadsActive, CaptureReadsParent, CaptureReadsLatest,
         CaptureReadsPending
<1>11. CASE \E c \in Callers : AcceptHybridCandidate(c) \/ ReviseContent(c)
  BY <1>1, <1>11
     DEF AcceptHybridCandidate, ReviseContent, HybridStarts, HybridReadsActive,
         HybridReadsPending, HybridReadsLatest, HybridReadsParent, ReviseReadsActive,
         ReviseReadsLatest
<1>12. CASE \E c \in Callers : CloseSession(c)
  BY <1>4, <1>5, <1>12 DEF CloseSession
<1>13. CASE \E c \in Callers : Evaluate(c)
  BY <1>1, <1>7, <1>13
     DEF Evaluate, EvaluateReadsActive, EvaluateReadsPending, EvaluateInherits,
         EvaluateChecksClock, EvaluateChecksParent, EvaluateAnswers
<1>14. CASE BasePublished \/ Tick \/ Restart \/ UNCHANGED vars
  BY <1>1, <1>14 DEF BasePublished, Tick, Restart, vars
<1>. QED
  BY <1>8, <1>9, <1>10, <1>11, <1>12, <1>13, <1>14 DEF Next
LEMMA RowsMadeStep ==
  ASSUME TaskPolicyAssumption, HandInv, [Next]_vars
  PROVE  RowsMade'
<1>1. PolicyInv /\ Types /\ Grows
  BY StepKeeps DEF HandInv, PolicyInv
<1>2. ASSUME NEW s \in Sessions, NEW r \in 1..Len(policies[s])
      PROVE  RowMade(policies', s, policies'[s][r])
  <2>1. RowFits(policies, s, policies[s][r]) /\ RowMade(policies, s, policies[s][r])
    BY <1>1 DEF HandInv, RowsMade, PolicyInv, Rows, RowsFit
  <2>2. Within(policies', s, policies[s][r])
    BY <1>1, <2>1, LaterWithin DEF RowMade
  <2>3. KeepsRow(policies[s][r], policies'[s][r])
    BY <1>1 DEF Grows
  <2>. QED
    BY <2>1, <2>2, <2>3 DEF RowMade, Within, KeepsRow
<1>3. CASE SameLengths
  BY <1>2, <1>3 DEF SameLengths, RowsMade
<1>4. ASSUME NEW c \in Callers, Records(c), Adds(c)
      PROVE  RowsMade'
  <2>. DEFINE k == caller[c]
  <2>1. k.at \in Held /\ k.at \in HasRow
    BY <1>4 DEF Records, Held, HasRow, Writing
  <2>2. k.session \in Sessions /\ RowFits(policies, k.session, k.policy)
    BY <1>1, <2>1, InHand
  <2>3. RowMade(policies, k.session, k.policy)
    BY <2>1 DEF HandInv, HandFits, RowMade
  <2>4. RowMade(policies', k.session, k.policy)
    BY <1>1, <2>2, <2>3, LaterWithin DEF RowMade
  <2>5. ASSUME NEW s \in Sessions, NEW r \in 1..Len(policies'[s])
        PROVE  RowMade(policies', s, policies'[s][r])
    <3>1. Len(policies[s]) \in Nat
      BY <1>1, RowOf
    <3>2. r \in 1..Len(policies[s]) \/ (s = k.session /\ r = k.rev)
      BY <1>4, <3>1 DEF Adds
    <3>. QED
      BY <1>2, <1>4, <2>4, <3>2 DEF Adds
  <2>. QED
    BY <2>5 DEF RowsMade
<1>. QED
  BY <1>1, <1>3, <1>4, LengthsStep

LEMMA HandInvariant == Spec => []HandInv
<1>1. Init => HandInv
  <2>. SUFFICES ASSUME Init PROVE HandInv
    OBVIOUS
  <2>1. PolicyInv
    BY InitFits, TaskPolicyAssumption
  <2>2. RowsMade
    BY EmptySeq DEF Init, RowsMade
  <2>3. Idle.at \notin HasRow
    BY DEF Idle, HasRow, Accepting, Writing
  <2>4. \A c \in Callers : HandFits(policies, caller[c])
    BY <2>3, EmptyHandFits DEF Init
  <2>. QED
    BY <2>1, <2>2, <2>4 DEF HandInv
<1>2. HandInv /\ [Next]_vars => HandInv'
  BY StepKeeps, RowsMadeStep, HandsStep, TaskPolicyAssumption DEF HandInv
<1>. QED
  BY <1>1, <1>2, PTL DEF Spec

(* A child's policy permits nothing but what the parent's policy, as bound *)
(* by its digest, permits and what operators add to sessions: neither the  *)
(* synthesizer, nor a model, nor an automatic activation adds anything.    *)
ChildWithinParentAndContent ==
  \A s \in Sessions : \A r \in Revisions(s) :
    policies[s][r].parent # 0 =>
      policies[s][r].scope \subseteq
        policies[ParentOf[s]][policies[s][r].parent].scope \union Content

(* Captures and generations are held against the parent's policy when they *)
(* are compiled, transactions before the insert; revise_content only adds. *)
THEOREM ChildWithinParentAndContentCorrect == Spec => []ChildWithinParentAndContent
<1>1. HandInv => ChildWithinParentAndContent
  <2>. SUFFICES ASSUME HandInv, NEW s \in Sessions, NEW r \in Revisions(s),
                       policies[s][r].parent # 0
               PROVE  policies[s][r].scope \subseteq
                        policies[ParentOf[s]][policies[s][r].parent].scope \union Content
    BY DEF ChildWithinParentAndContent
  <2>1. r \in 1..Len(policies[s])
    BY RowOf DEF HandInv, PolicyInv, Revisions
  <2>. QED
    BY <2>1 DEF HandInv, RowsMade, RowMade, Within
<1>. QED
  BY <1>1, HandInvariant, PTL

(* Where operators add no content, a child never has more than its parent. *)
(* With content it can: revise_content does not look at the parent.        *)
THEOREM ChildWithinParentCorrect ==
  ASSUME Content = {}
  PROVE  Spec => []ChildWithinParent
<1>1. ChildWithinParentAndContent => ChildWithinParent
  BY DEF ChildWithinParentAndContent, ChildWithinParent
<1>. QED
  BY <1>1, ChildWithinParentAndContentCorrect, PTL

-----------------------------------------------------------------------------
(* The life of what guardd activates by itself.                            *)

(* A revision of the deterministic synthesizer that guardd activates by    *)
(* itself lives no longer than the one it replaces, whatever else is       *)
(* compiled and activated meanwhile.  A hybrid one may live longer:        *)
(* accept_hybrid_candidate compares what is permitted, not the life.       *)
DeterministicLife ==
  \A s \in Sessions : \A r \in AutoActivated(s) :
    policies'[s][r].generator = "deterministic" =>
      \E q \in Revisions(s) :
        /\ policies[s][q].status = "active" /\ policies'[s][q].status = "superseded"
        /\ policies'[s][r].expires <= policies[s][q].expires

DeterministicKeepsExpiry == [][DeterministicLife]_vars

LEMMA StepKeepsExpiry ==
  ASSUME TaskPolicyAssumption, HandInv, [Next]_vars,
         NEW s \in Sessions, NEW r \in AutoActivated(s),
         policies'[s][r].generator = "deterministic"
  PROVE  \E q \in Revisions(s) :
           /\ policies[s][q].status = "active" /\ policies'[s][q].status = "superseded"
           /\ policies'[s][r].expires <= policies[s][q].expires
<1>0. PolicyInv
  BY DEF HandInv
<1>1. PICK c \in Callers :
        /\ caller[c].at = "activates" /\ caller[c].session = s /\ caller[c].rev = r
        /\ r \in 1..Len(policies[s]) /\ caller[c].active \in Revisions(s)
        /\ policies[s][caller[c].active].status = "active"
        /\ policies'[s][caller[c].active].status = "superseded"
  BY <1>0, AutoActivation
<1>2. /\ policies'[s][r].generator = policies[s][r].generator
      /\ policies'[s][r].expires = policies[s][r].expires
  BY <1>0, <1>1, StepKeeps DEF Grows, KeepsRow
<1>3. caller[c].narrows /\ HandFits(policies, caller[c])
  BY <1>0, <1>1, CallerFacts DEF NarrowingFits, HandInv
<1>4. policies[s][r].expires <= policies[s][caller[c].active].expires
  BY <1>1, <1>2, <1>3 DEF HandFits, Writing
<1>. QED
  BY <1>1, <1>2, <1>4

(* The life is cut when the capture reads the candidate that waits, and    *)
(* the narrowing is activated several transactions later.                  *)
THEOREM DeterministicKeepsExpiryCorrect == Spec => DeterministicKeepsExpiry
<1>1. ASSUME HandInv, [Next]_vars
      PROVE  [DeterministicLife]_vars
  BY <1>1, StepKeepsExpiry, TaskPolicyAssumption DEF DeterministicLife
<1>. QED
  BY <1>1, HandInvariant, PTL DEF Spec, DeterministicKeepsExpiry

(* With the deterministic synthesizer alone, no automatic narrowing ever   *)
(* lengthens a life, however many callers race.                            *)
THEOREM NarrowingKeepsExpiryCorrect ==
  ASSUME ~Hybrid
  PROVE  Spec => NarrowingKeepsExpiry
<1>1. ASSUME HandInv, [Next]_vars
      PROVE  [\A s \in Sessions : \A r \in AutoActivated(s) : \E q \in Revisions(s) :
                /\ policies[s][q].status = "active" /\ policies'[s][q].status = "superseded"
                /\ policies'[s][r].expires <= policies[s][q].expires]_vars
  <2>. SUFFICES ASSUME NEW s \in Sessions, NEW r \in AutoActivated(s)
               PROVE  policies'[s][r].generator = "deterministic"
    BY <1>1, StepKeepsExpiry, TaskPolicyAssumption
  <2>1. PolicyInv
    BY <1>1 DEF HandInv
  <2>2. r \in 1..Len(policies[s])
    BY <1>1, <2>1, AutoActivation, TaskPolicyAssumption
  <2>3. policies[s][r] \in Policy /\ RowMade(policies, s, policies[s][r])
    BY <1>1, <2>1, <2>2, RowOf DEF HandInv, PolicyInv, RowsMade
  <2>4. policies[s][r].generator = "deterministic"
    BY <2>3 DEF RowMade, Policy
  <2>5. policies'[s][r].generator = policies[s][r].generator
    BY <1>1, <2>1, <2>2, StepKeeps, TaskPolicyAssumption DEF Grows, KeepsRow
  <2>. QED
    BY <2>4, <2>5
<1>. QED
  BY <1>1, HandInvariant, PTL DEF Spec, NarrowingKeepsExpiry

-----------------------------------------------------------------------------
(* Whatever was ever activated goes back to a confirmation.                *)

(* A row that was activated permits no more than one that an operator      *)
(* confirmed before it or with it.                                         *)
CoveredRow(table, s, r) ==
  /\ table[s][r].status = "pending" => table[s][r].by = "nobody"
  /\ table[s][r].status = "active" => table[s][r].by # "nobody"
  /\ table[s][r].by # "nobody" =>
       \E q \in 1..r : table[s][q].by = "operator" /\ table[s][r].scope \subseteq table[s][q].scope

Covered == \A s \in Sessions : \A r \in 1..Len(policies[s]) : CoveredRow(policies, s, r)

(* The row that an evaluation goes by was active when it was read, and     *)
(* permits the call that is allowed.                                       *)
Governed(table, k) ==
  /\ k.at \in {"reads_pending"} \union HasGoverning /\ k.active # 0 =>
       table[HolderOf(k)][k.active].by # "nobody"
  /\ k.at = "allowed" => k.call \in table[HolderOf(k)][k.active].scope

ConfirmInv == PolicyInv /\ Covered /\ \A c \in Callers : Governed(policies, caller[c])

LEMMA ActivatedStays ==
  ASSUME Grows, Covered, NEW s \in Sessions, NEW r \in 1..Len(policies[s]),
         policies[s][r].by # "nobody"
  PROVE  policies'[s][r].by = policies[s][r].by /\ policies'[s][r].scope = policies[s][r].scope
<1>1. KeepsRow(policies[s][r], policies'[s][r]) /\ CoveredRow(policies, s, r)
  BY DEF Grows, Covered
<1>. QED
  BY <1>1 DEF KeepsRow, CoveredRow

LEMMA KeptCovered ==
  ASSUME Types, Covered, Grows, NEW s \in Sessions, NEW r \in 1..Len(policies[s]),
         policies'[s][r].by = policies[s][r].by,
         policies'[s][r].status = "active" => policies[s][r].status = "active"
  PROVE  CoveredRow(policies', s, r)
<1>1. KeepsRow(policies[s][r], policies'[s][r]) /\ CoveredRow(policies, s, r)
  BY DEF Grows, Covered
<1>2. ASSUME policies'[s][r].by # "nobody"
      PROVE  \E q \in 1..r : /\ policies'[s][q].by = "operator"
                             /\ policies'[s][r].scope \subseteq policies'[s][q].scope
  <2>1. PICK q \in 1..r : /\ policies[s][q].by = "operator"
                          /\ policies[s][r].scope \subseteq policies[s][q].scope
    BY <1>1, <1>2 DEF CoveredRow
  <2>2. q \in 1..Len(policies[s])
    BY RowOf
  <2>3. policies'[s][q].by = "operator" /\ policies'[s][q].scope = policies[s][q].scope
    BY <2>1, <2>2, ActivatedStays
  <2>. QED
    BY <1>1, <2>1, <2>3 DEF KeepsRow
<1>. QED
  BY <1>1, <1>2 DEF CoveredRow, KeepsRow

(* The three kinds of steps: nothing is activated, an operator confirms,   *)
(* guardd narrows.                                                         *)
LEMMA KeptRowsCovered ==
  ASSUME Types, Covered, Grows, ActivatesNothing,
         NEW s \in Sessions, NEW r \in 1..Len(policies[s])
  PROVE  CoveredRow(policies', s, r)
<1>1. KeepsRow(policies[s][r], policies'[s][r])
  BY DEF Grows
<1>2. policies'[s][r].status = "active" => policies[s][r].status = "active"
  <2>1. r \in 1..Len(policies'[s])
    BY LaterRow
  <2>. QED
    BY <2>1 DEF ActivatesNothing
<1>3. policies'[s][r].by = policies[s][r].by
  BY <1>1, <1>2 DEF KeepsRow
<1>. QED
  BY <1>2, <1>3, KeptCovered

LEMMA ReplacedRowsCovered ==
  ASSUME Types, Covered, Grows, NEW s \in Sessions, NEW r \in 1..Len(policies[s]),
         NEW by \in {"operator", "guardd"}, Replaces(s, r, by),
         CoveredRow(policies', s, r)
  PROVE  Covered'
<1>. SUFFICES ASSUME NEW p \in Sessions, NEW j \in 1..Len(policies'[p])
             PROVE  CoveredRow(policies', p, j)
  BY DEF Covered
<1>1. j \in 1..Len(policies[p]) /\ policies[p][j] \in Policy
  BY RowOf DEF Replaces
<1>2. CASE p # s
  <2>1. policies'[p] = policies[p]
    BY <1>2 DEF Replaces
  <2>. QED
    BY <1>1, <2>1, KeptCovered
<1>3. CASE p = s /\ j # r
  <2>1. EndsRow(policies[s][j], policies'[s][j]) /\ policies'[s][j].status # "active"
    BY <1>1, <1>3 DEF Replaces
  <2>2. policies'[s][j].by = policies[s][j].by
    BY <1>1, <1>3, <2>1 DEF EndsRow, Policy
  <2>. QED
    BY <1>1, <1>3, <2>1, <2>2, KeptCovered
<1>. QED
  BY <1>2, <1>3

LEMMA CoveredStep ==
  ASSUME TaskPolicyAssumption, PolicyInv, Covered, [Next]_vars
  PROVE  Covered'
<1>1. Types /\ Grows
  BY StepKeeps DEF PolicyInv
<1>2. CASE Keeps
  <2>1. CASE SameLengths
    BY <1>1, <1>2, <2>1, KeptRowsCovered DEF SameLengths, Covered, Keeps
  <2>2. ASSUME NEW c \in Callers, Records(c), Adds(c)
        PROVE  Covered'
    <3>. DEFINE k == caller[c]
    <3>1. k.session \in Sessions /\ Candidate(k.policy)
      BY <2>2, InHand DEF Records, HasRow, Writing
    <3>2. ASSUME NEW s \in Sessions, NEW r \in 1..Len(policies'[s])
          PROVE  CoveredRow(policies', s, r)
      <4>1. Len(policies[s]) \in Nat
        BY <1>1, RowOf
      <4>2. r \in 1..Len(policies[s]) \/ (s = k.session /\ r = k.rev)
        BY <2>2, <4>1 DEF Adds
      <4>3. CASE s = k.session /\ r = k.rev
        <5>1. policies'[s][r].status = "pending" /\ policies'[s][r].by = "nobody"
          BY <2>2, <3>1, <4>3 DEF Adds, Candidate
        <5>. QED
          BY <5>1 DEF CoveredRow
      <4>. QED
        BY <1>1, <1>2, <4>2, <4>3, KeptRowsCovered DEF Keeps
    <3>. QED
      BY <3>2 DEF Covered
  <2>. QED
    BY <2>1, <2>2, LengthsStep
<1>3. ASSUME NEW s \in Sessions, NEW r \in Revisions(s), OperatorActivates(s, r)
      PROVE  Covered'
  <2>1. r \in 1..Len(policies[s]) /\ Len(policies[s]) \in Nat /\ policies[s][r] \in Policy
    BY <1>1, RowOf DEF Revisions
  <2>2. Replaces(s, r, "operator")
    BY <1>3, OperatorActivatesKeeps
  <2>3. policies'[s][r].by = "operator" /\ policies'[s][r].status = "active"
    BY <2>1, <2>2 DEF Replaces, Policy
  <2>4. CoveredRow(policies', s, r)
    BY <2>1, <2>3 DEF CoveredRow
  <2>. QED
    BY <1>1, <2>1, <2>2, <2>4, ReplacedRowsCovered
<1>4. ASSUME NEW c \in Callers, ActivatesNarrowed(c)
      PROVE  Covered'
  <2>. DEFINE s == caller[c].session
              r == caller[c].rev
              a == caller[c].active
  <2>1. /\ s \in Sessions /\ r \in 1..Len(policies[s]) /\ a \in 0..Len(policies[s])
        /\ Len(policies[s]) \in Nat /\ policies[s][r] \in Policy /\ a # 0
        /\ Narrower(policies[s][r].scope, policies[s][a].scope)
    <3>1. caller[c].at = "activates" /\ caller[c].at \in HasRow /\ caller[c].at \in Writing
      BY <1>4 DEF ActivatesNarrowed, HasRow, Writing
    <3>. QED
      BY <1>1, <3>1, InHand, CallerFacts, RowOf DEF NarrowingFits
  <2>2. CASE ActivatesNothing
    <3>1. SameLengths
      BY <1>1, <1>4, <2>1, ActivationLength
         DEF ActivatesNarrowed, CanActivate, SameLengths
    <3>. QED
      BY <1>1, <2>2, <3>1, KeptRowsCovered DEF SameLengths, Covered
  <2>3. CASE CanActivate(s, r, a) /\ Replaces(s, r, "guardd")
    <3>1. /\ policies'[s][r].by = "guardd" /\ policies'[s][r].status = "active"
          /\ policies'[s][r].scope = policies[s][r].scope
      BY <2>1, <2>3 DEF Replaces, Policy
    <3>2. policies[s][a].status = "active" /\ r = Len(policies[s]) /\ a \in 1..Len(policies[s])
      BY <2>1, <2>3, ActiveFacts, RowOf
         DEF CanActivate, PolicyInv, Rows, PendingIsNewest, Revisions
    <3>3. CoveredRow(policies, s, a)
      BY <2>1, <3>2 DEF Covered
    <3>4. PICK q \in 1..a : /\ policies[s][q].by = "operator"
                            /\ policies[s][a].scope \subseteq policies[s][q].scope
      BY <3>2, <3>3 DEF CoveredRow
    <3>5. q \in 1..Len(policies[s]) /\ q \in 1..r
      BY <2>1, <3>2
    <3>6. policies'[s][q].by = "operator" /\ policies'[s][q].scope = policies[s][q].scope
      BY <1>1, <2>1, <3>4, <3>5, ActivatedStays
    <3>7. policies'[s][r].scope \subseteq policies'[s][q].scope
      BY <2>1, <3>1, <3>4, <3>6 DEF Narrower
    <3>8. CoveredRow(policies', s, r)
      BY <3>1, <3>5, <3>6, <3>7 DEF CoveredRow
    <3>. QED
      BY <1>1, <2>1, <2>3, <3>8, ReplacedRowsCovered
  <2>. QED
    BY <1>4, <2>2, <2>3, ActivatesNarrowedKeeps
<1>. QED
  BY <1>2, <1>3, <1>4, NextKeeps
-----------------------------------------------------------------------------
(* The callers that evaluate.                                              *)

LEMMA GovernedStays ==
  ASSUME PolicyInv, Covered, Grows, NEW k, Fits(policies, base, k), Governed(policies, k)
  PROVE  Governed(policies', k)
<1>. SUFFICES ASSUME k.at \in {"reads_pending"} \union HasGoverning, k.active # 0
             PROVE  /\ policies'[HolderOf(k)][k.active].by # "nobody"
                    /\ policies'[HolderOf(k)][k.active].scope =
                         policies[HolderOf(k)][k.active].scope
  BY DEF Governed, HasGoverning, Fits, ReadsFit
<1>1. HolderOf(k) \in Sessions /\ k.active \in 0..Len(policies[HolderOf(k)])
  <2>1. k.at # "idle"
    BY DEF HasGoverning
  <2>2. CASE k.inherited
    BY <2>1, <2>2 DEF Fits, ReadsFit, HolderOf
  <2>3. CASE ~k.inherited
    BY <2>1, <2>3 DEF Fits, ReadsFit, HolderOf
  <2>. QED
    BY <2>2, <2>3
<1>2. k.active \in 1..Len(policies[HolderOf(k)])
  BY <1>1, RowOf DEF PolicyInv
<1>3. policies[HolderOf(k)][k.active].by # "nobody"
  BY DEF Governed
<1>. QED
  BY <1>1, <1>2, <1>3, ActivatedStays

LEMMA ActiveIsActivated ==
  ASSUME PolicyInv, Covered, NEW s \in Sessions, Active(s) # 0
  PROVE  policies[s][Active(s)].by # "nobody"
<1>1. Active(s) \in 1..Len(policies[s]) /\ policies[s][Active(s)].status = "active"
  BY ActiveFacts, RowOf DEF PolicyInv
<1>. QED
  BY <1>1 DEF Covered, CoveredRow

(* One caller moved, to where it is governed as it should be.              *)
GovernMoves(c) ==
  /\ Governed(policies', caller'[c])
  /\ \A d \in Callers : d # c => caller'[d] = caller[d]

LEMMA GovernedMove ==
  ASSUME PolicyInv, NEW c \in Callers, NEW to, Moves(c, to), Governed(policies', to)
  PROVE  GovernMoves(c)
<1>1. caller'[c] = to /\ \A d \in Callers : d # c => caller'[d] = caller[d]
  BY DEF PolicyInv, Types, Moves
<1>. QED
  BY <1>1 DEF GovernMoves

(* To a step outside of evaluation.                                        *)
LEMMA OutsideMove ==
  ASSUME PolicyInv, NEW c \in Callers, NEW to, Moves(c, to),
         to.at \notin {"reads_pending"} \union HasGoverning
  PROVE  GovernMoves(c)
<1>1. Governed(policies', to)
  BY DEF Governed, HasGoverning
<1>. QED
  BY <1>1, GovernedMove

LEMMA OutsideGoes ==
  ASSUME PolicyInv, NEW c \in Callers, NEW at, Goes(c, at),
         at \notin {"reads_pending"} \union HasGoverning
  PROVE  GovernMoves(c)
<1>. DEFINE to == [caller[c] EXCEPT !.at = at]
<1>1. Moves(c, to) /\ to.at = at
  BY CallerFacts DEF Goes, CallerType
<1>. HIDE DEF to
<1>. QED
  BY <1>1, OutsideMove

LEMMA OutsideReturn ==
  ASSUME PolicyInv, NEW c \in Callers, Returns(c)
  PROVE  GovernMoves(c)
<1>1. Idle.at \notin {"reads_pending"} \union HasGoverning
  BY DEF Idle, HasGoverning
<1>. QED
  BY <1>1, OutsideMove DEF Returns

LEMMA CaptureGoverned ==
  ASSUME PolicyInv, NEW c \in Callers, Capture(c)
  PROVE  GovernMoves(c)
<1>. DEFINE k == caller[c]
<1>0. k \in CallerType
  BY CallerFacts
<1>1. ASSUME NEW s \in Sessions, NEW p \in Prompts, CaptureReadsActive(c, s, p)
      PROVE  GovernMoves(c)
  <2>. DEFINE to == [Idle EXCEPT
         !.at = IF ParentOf[s] = NoSession THEN "c_reads_latest" ELSE "c_reads_parent",
         !.session = s, !.source = p, !.active = Active(s)]
  <2>1. Moves(c, to) /\ to.at \in {"c_reads_latest", "c_reads_parent"}
    BY <1>1 DEF CaptureReadsActive, Idle
  <2>. HIDE DEF to
  <2>. QED
    BY <2>1, OutsideMove DEF HasGoverning
<1>2. CASE CaptureReadsParent(c)
  <2>. DEFINE parent == Active(ParentOf[k.session])
              to == [k EXCEPT !.at = "c_reads_latest", !.parent = parent]
  <2>1. Returns(c) \/ Moves(c, to)
    BY <1>2 DEF CaptureReadsParent
  <2>. HIDE DEF parent
  <2>2. to.at = "c_reads_latest"
    BY <1>0 DEF CallerType
  <2>. HIDE DEF to
  <2>. QED
    BY <2>1, <2>2, OutsideMove, OutsideReturn DEF HasGoverning
<1>3. CASE CaptureReadsLatest(c)
  <2>. DEFINE row == Synthesized(k.session, k.source, k.parent)
              rev == Len(policies[k.session]) + 1
              to == [k EXCEPT !.at = "c_reads_pending", !.rev = rev, !.policy = row,
                              !.source = NoPolicy, !.parent = 0]
  <2>1. Returns(c) \/ Moves(c, to)
    BY <1>3 DEF CaptureReadsLatest
  <2>. HIDE DEF row, rev
  <2>2. to.at = "c_reads_pending"
    BY <1>0 DEF CallerType
  <2>. HIDE DEF to
  <2>. QED
    BY <2>1, <2>2, OutsideMove, OutsideReturn DEF HasGoverning
<1>4. CASE CaptureReadsPending(c)
  <2>1. Returns(c) \/ \E narrows, row : Moves(c, [k EXCEPT !.at = "supersedes",
                                                  !.narrows = narrows, !.policy = row])
    BY <1>4 DEF CaptureReadsPending
  <2>2. ASSUME NEW narrows, NEW row,
               Moves(c, [k EXCEPT !.at = "supersedes", !.narrows = narrows, !.policy = row])
        PROVE  GovernMoves(c)
    <3>. DEFINE to == [k EXCEPT !.at = "supersedes", !.narrows = narrows, !.policy = row]
    <3>1. Moves(c, to) /\ to.at = "supersedes"
      BY <1>0, <2>2 DEF CallerType
    <3>. HIDE DEF to
    <3>. QED
      BY <3>1, OutsideMove DEF HasGoverning
  <2>. QED
    BY <2>1, <2>2, OutsideReturn
<1>5. CASE Supersedes(c) \/ Records(c) \/ ActivatesNarrowed(c)
  <2>1. Returns(c) \/ Goes(c, "records") \/ Goes(c, "activates")
    BY <1>5 DEF Supersedes, Records, ActivatesNarrowed
  <2>. QED
    BY <2>1, OutsideReturn, OutsideGoes DEF HasGoverning
<1>. QED
  BY <1>1, <1>2, <1>3, <1>4, <1>5 DEF Capture

LEMMA AcceptHybridCandidateGoverned ==
  ASSUME PolicyInv, NEW c \in Callers, AcceptHybridCandidate(c)
  PROVE  GovernMoves(c)
<1>. DEFINE k == caller[c]
<1>0. k \in CallerType
  BY CallerFacts
<1>1. ASSUME NEW s \in Sessions, NEW d \in Revisions(s), HybridStarts(c, s, d)
      PROVE  GovernMoves(c)
  <2>1. PICK row : Moves(c, [Idle EXCEPT !.at = "h_reads_active", !.session = s,
                                         !.policy = row, !.hybrid = TRUE])
    BY <1>1 DEF HybridStarts
  <2>. DEFINE to == [Idle EXCEPT !.at = "h_reads_active", !.session = s, !.policy = row,
                                 !.hybrid = TRUE]
  <2>2. to.at = "h_reads_active"
    BY DEF Idle
  <2>. QED
    BY <2>1, <2>2, OutsideMove DEF HasGoverning
<1>2. CASE HybridReadsActive(c)
  <2>. DEFINE active == Active(k.session)
              to == [k EXCEPT !.at = "h_reads_pending", !.active = active]
  <2>1. Moves(c, to)
    BY <1>2 DEF HybridReadsActive
  <2>. HIDE DEF active
  <2>2. to.at = "h_reads_pending"
    BY <1>0 DEF CallerType
  <2>. HIDE DEF to
  <2>. QED
    BY <2>1, <2>2, OutsideMove DEF HasGoverning
<1>3. CASE HybridReadsPending(c)
  <2>1. Returns(c) \/ Goes(c, "h_reads_latest")
    BY <1>3 DEF HybridReadsPending
  <2>. QED
    BY <2>1, OutsideReturn, OutsideGoes DEF HasGoverning
<1>4. ASSUME NEW row, NEW rev, HybridDecides(c, row, rev)
      PROVE  GovernMoves(c)
  <2>. DEFINE narrows == k.active # 0 /\ Narrower(row.scope, policies[k.session][k.active].scope)
              to == [k EXCEPT !.at = "supersedes", !.rev = rev, !.policy = row,
                              !.narrows = narrows]
  <2>1. Returns(c) \/ Moves(c, to)
    BY <1>4 DEF HybridDecides
  <2>. HIDE DEF narrows
  <2>2. to.at = "supersedes"
    BY <1>0 DEF CallerType
  <2>. HIDE DEF to
  <2>. QED
    BY <2>1, <2>2, OutsideMove, OutsideReturn DEF HasGoverning
<1>5. CASE HybridReadsLatest(c)
  <2>. DEFINE rev == Len(policies[k.session]) + 1
              to == [k EXCEPT !.at = "h_reads_parent", !.rev = rev]
  <2>1. HybridDecides(c, k.policy, rev) \/ Moves(c, to)
    BY <1>5 DEF HybridReadsLatest
  <2>. HIDE DEF rev
  <2>2. to.at = "h_reads_parent"
    BY <1>0 DEF CallerType
  <2>. HIDE DEF to
  <2>. QED
    BY <1>4, <2>1, <2>2, OutsideMove DEF HasGoverning
<1>6. CASE HybridReadsParent(c)
  BY <1>4, <1>6, OutsideReturn DEF HybridReadsParent
<1>. QED
  BY <1>1, <1>2, <1>3, <1>5, <1>6 DEF AcceptHybridCandidate

LEMMA ReviseContentGoverned ==
  ASSUME PolicyInv, NEW c \in Callers, ReviseContent(c)
  PROVE  GovernMoves(c)
<1>1. ASSUME NEW s \in Sessions, NEW x \in Content, ReviseReadsActive(c, s, x)
      PROVE  GovernMoves(c)
  <2>1. PICK row : Moves(c, [Idle EXCEPT !.at = "r_reads_latest", !.session = s,
                                         !.policy = row])
    BY <1>1 DEF ReviseReadsActive
  <2>. DEFINE to == [Idle EXCEPT !.at = "r_reads_latest", !.session = s, !.policy = row]
  <2>2. to.at = "r_reads_latest"
    BY DEF Idle
  <2>. QED
    BY <2>1, <2>2, OutsideMove DEF HasGoverning
<1>2. CASE ReviseReadsLatest(c)
  <2>. DEFINE rev == Len(policies[caller[c].session]) + 1
              to == [caller[c] EXCEPT !.at = "supersedes", !.rev = rev]
  <2>1. Moves(c, to)
    BY <1>2 DEF ReviseReadsLatest
  <2>. HIDE DEF rev
  <2>2. to.at = "supersedes"
    BY CallerFacts DEF CallerType
  <2>. HIDE DEF to
  <2>. QED
    BY <2>1, <2>2, OutsideMove DEF HasGoverning
<1>. QED
  BY <1>1, <1>2 DEF ReviseContent

LEMMA CloseSessionGoverned ==
  ASSUME PolicyInv, NEW c \in Callers, CloseSession(c)
  PROVE  GovernMoves(c)
<1>1. ASSUME NEW s \in Sessions, ClosesSession(c, s)
      PROVE  GovernMoves(c)
  <2>. DEFINE to == [Idle EXCEPT !.at = "closes_children", !.session = s]
  <2>1. Moves(c, to) /\ to.at = "closes_children"
    BY <1>1 DEF ClosesSession, Idle
  <2>. HIDE DEF to
  <2>. QED
    BY <2>1, OutsideMove DEF HasGoverning
<1>. QED
  BY <1>1, OutsideReturn DEF CloseSession, ClosesChildren

(* From one step of an evaluation to the next under the same row.          *)
LEMMA GovernedGoes ==
  ASSUME PolicyInv, UNCHANGED policies, NEW c \in Callers, Governed(policies, caller[c]),
         NEW at, Goes(c, at), caller[c].at \in {"reads_pending"} \union HasGoverning,
         at = "allowed" => InScope(c)
  PROVE  GovernMoves(c)
<1>. DEFINE k == caller[c]
            to == [k EXCEPT !.at = at]
<1>1. /\ Moves(c, to) /\ to.at = at /\ to.session = k.session /\ to.active = k.active
      /\ to.inherited = k.inherited /\ to.call = k.call
  BY CallerFacts DEF Goes, CallerType
<1>. HIDE DEF to
<1>2. HolderOf(to) = HolderOf(k) /\ Governing(c) = policies[HolderOf(k)][k.active]
  BY <1>1 DEF HolderOf, Governing, Holder
<1>3. Governed(policies', to)
  BY <1>1, <1>2 DEF Governed, InScope
<1>. QED
  BY <1>1, <1>3, GovernedMove

LEMMA EvaluateGoverned ==
  ASSUME PolicyInv, Covered, NEW c \in Callers, Governed(policies, caller[c]), Evaluate(c)
  PROVE  GovernMoves(c)
<1>. DEFINE k == caller[c]
<1>0. k \in CallerType /\ ReadsFit(policies, k)
  BY CallerFacts
<1>1. ASSUME NEW s \in Sessions, NEW x \in Calls, EvaluateReadsActive(c, s, x)
      PROVE  GovernMoves(c)
  <2>. DEFINE active == Active(s)
              to == [Idle EXCEPT !.at = "reads_pending", !.session = s, !.call = x,
                                 !.active = active]
  <2>1. Moves(c, to) /\ UNCHANGED policies
    BY <1>1 DEF EvaluateReadsActive
  <2>2. active # 0 => policies[s][active].by # "nobody"
    BY ActiveIsActivated
  <2>. HIDE DEF active
  <2>3. to.at = "reads_pending" /\ to.session = s /\ to.active = active /\ to.inherited = FALSE
    BY DEF Idle
  <2>. HIDE DEF to
  <2>4. Governed(policies', to)
    BY <2>1, <2>2, <2>3 DEF Governed, HolderOf
  <2>. QED
    BY <2>1, <2>4, GovernedMove
<1>2. CASE EvaluateInherits(c)
  <2>. DEFINE parent == Active(ParentOf[k.session])
              to == [k EXCEPT !.at = "checks_clock", !.active = parent, !.inherited = TRUE]
  <2>1. UNCHANGED policies /\ (Returns(c) \/ (Moves(c, to) /\ parent # 0))
    BY <1>2 DEF EvaluateInherits
  <2>2. ParentOf[k.session] \in Sessions
    BY <1>0, <1>2 DEF EvaluateInherits, ReadsFit, AtParent
  <2>3. parent # 0 => policies[ParentOf[k.session]][parent].by # "nobody"
    BY <2>2, ActiveIsActivated
  <2>. HIDE DEF parent
  <2>4. /\ to.at = "checks_clock" /\ to.session = k.session /\ to.active = parent
        /\ to.inherited = TRUE
    BY <1>0 DEF CallerType
  <2>. HIDE DEF to
  <2>5. Governed(policies', to)
    BY <2>1, <2>3, <2>4 DEF Governed, HolderOf
  <2>. QED
    BY <2>1, <2>5, GovernedMove, OutsideReturn
<1>3. CASE Judges(c) /\ UNCHANGED policies /\ k.at \in HasGoverning
  BY <1>3, GovernedGoes, OutsideReturn DEF Judges
<1>4. CASE EvaluateReadsPending(c)
  <2>1. /\ UNCHANGED policies /\ k.at = "reads_pending"
        /\ Returns(c) \/ Goes(c, "checks_clock") \/ Goes(c, "inherits")
    BY <1>4 DEF EvaluateReadsPending
  <2>. QED
    BY <2>1, GovernedGoes, OutsideReturn
<1>5. CASE EvaluateChecksClock(c)
  <2>1. /\ UNCHANGED policies /\ k.at \in HasGoverning
        /\ Returns(c) \/ Goes(c, "expires") \/ Goes(c, "checks_parent") \/ Judges(c)
    BY <1>5 DEF EvaluateChecksClock, HasGoverning
  <2>. QED
    BY <1>3, <2>1, GovernedGoes, OutsideReturn
<1>6. CASE EvaluateChecksParent(c)
  <2>1. UNCHANGED policies /\ k.at \in HasGoverning /\ (Returns(c) \/ Judges(c))
    BY <1>6 DEF EvaluateChecksParent, HasGoverning
  <2>. QED
    BY <1>3, <2>1, OutsideReturn
<1>7. CASE EvaluateExpires(c) \/ EvaluateAnswers(c)
  BY <1>7, OutsideReturn DEF EvaluateExpires, EvaluateAnswers
<1>. QED
  BY <1>1, <1>2, <1>4, <1>5, <1>6, <1>7 DEF Evaluate
LEMMA ConfirmInvariant == Spec => []ConfirmInv
<1>1. Init => ConfirmInv
  <2>. SUFFICES ASSUME Init PROVE ConfirmInv
    OBVIOUS
  <2>1. PolicyInv
    BY InitFits, TaskPolicyAssumption
  <2>2. Covered
    BY EmptySeq DEF Init, Covered
  <2>3. \A c \in Callers : Governed(policies, caller[c])
    BY DEF Init, Idle, Governed, HasGoverning
  <2>. QED
    BY <2>1, <2>2, <2>3 DEF ConfirmInv
<1>2. ASSUME ConfirmInv, [Next]_vars
      PROVE  ConfirmInv'
  <2>1. PolicyInv /\ Covered /\ PolicyInv' /\ Grows /\ Covered'
    BY <1>2, StepKeeps, CoveredStep, TaskPolicyAssumption DEF ConfirmInv
  <2>2. ASSUME NEW d \in Callers, caller'[d] = caller[d]
        PROVE  Governed(policies', caller'[d])
    <3>1. Fits(policies, base, caller[d]) /\ Governed(policies, caller[d])
      BY <1>2, <2>1, CallerFacts DEF ConfirmInv
    <3>. QED
      BY <2>1, <2>2, <3>1, GovernedStays
  <2>3. ASSUME NEW c \in Callers, GovernMoves(c)
        PROVE  \A d \in Callers : Governed(policies', caller'[d])
    BY <2>2, <2>3 DEF GovernMoves
  <2>4. \A c \in Callers : Governed(policies, caller[c])
    BY <1>2 DEF ConfirmInv
  <2>5. CASE \E c \in Callers :
               \/ Capture(c) \/ AcceptHybridCandidate(c) \/ ReviseContent(c)
               \/ CloseSession(c) \/ Evaluate(c)
    <3>1. \A d \in Callers : Governed(policies', caller'[d])
      BY <2>1, <2>3, <2>4, <2>5, CaptureGoverned, AcceptHybridCandidateGoverned,
         ReviseContentGoverned, CloseSessionGoverned, EvaluateGoverned
    <3>. QED
      BY <2>1, <3>1 DEF ConfirmInv
  <2>6. CASE Restart
    <3>1. \A d \in Callers : Governed(policies', caller'[d])
      BY <2>6 DEF Restart, Governed, HasGoverning, Idle
    <3>. QED
      BY <2>1, <3>1 DEF ConfirmInv
  <2>7. CASE UNCHANGED caller
    <3>1. \A d \in Callers : Governed(policies', caller'[d])
      BY <2>2, <2>7
    <3>. QED
      BY <2>1, <3>1 DEF ConfirmInv
  <2>. QED
    BY <1>2, <2>5, <2>6, <2>7
       DEF Next, OperatorActivates, OperatorRejects, BasePublished, Tick, vars
<1>. QED
  BY <1>1, <1>2, PTL DEF Spec

(* Whatever guardd allows, an operator once confirmed for that session, or *)
(* for its parent where the child inherits: neither a narrowing, nor a     *)
(* model, nor a race of callers makes a permission of its own.             *)
THEOREM AllowedWasConfirmedCorrect == Spec => []AllowedWasConfirmed
<1>1. ConfirmInv => AllowedWasConfirmed
  <2>. SUFFICES ASSUME ConfirmInv, NEW c \in Callers, caller[c].at = "allowed"
               PROVE  \E r \in Revisions(Holder(c)) :
                        /\ r <= caller[c].active
                        /\ policies[Holder(c)][r].by = "operator"
                        /\ caller[c].call \in policies[Holder(c)][r].scope
    BY DEF AllowedWasConfirmed
  <2>. DEFINE s == Holder(c)
              a == caller[c].active
  <2>1. PolicyInv /\ Covered /\ Governed(policies, caller[c]) /\ s = HolderOf(caller[c])
    BY DEF ConfirmInv, Holder, HolderOf
  <2>2. s \in Sessions /\ a # 0 /\ a \in 0..Len(policies[s])
    BY <2>1, CallerFacts DEF ReadsFit, HasGoverning, Holder
  <2>3. a \in 1..Len(policies[s]) /\ Len(policies[s]) \in Nat /\ Revisions(s) = 1..Len(policies[s])
    BY <2>1, <2>2, RowOf DEF PolicyInv, Revisions
  <2>4. policies[s][a].by # "nobody" /\ caller[c].call \in policies[s][a].scope
    BY <2>1, <2>2 DEF Governed, HasGoverning
  <2>5. CoveredRow(policies, s, a)
    BY <2>1, <2>2, <2>3 DEF Covered
  <2>6. PICK q \in 1..a : /\ policies[s][q].by = "operator"
                          /\ policies[s][a].scope \subseteq policies[s][q].scope
    BY <2>4, <2>5 DEF CoveredRow
  <2>7. q \in Revisions(s) /\ q <= a
    BY <2>3
  <2>. QED
    BY <2>4, <2>6, <2>7
<1>. QED
  BY <1>1, ConfirmInvariant, PTL

-----------------------------------------------------------------------------
(* The table implements SessionGrant.                                      *)

LEMMA ScopesLater ==
  ASSUME Types, Grows, SameLengths, NEW s \in Sessions, NEW status,
         \A r \in 1..Len(policies[s]) :
           policies'[s][r].status = status => policies[s][r].status = status
  PROVE  ScopesOf(s, status)' \subseteq ScopesOf(s, status)
<1>1. Revisions(s) = 1..Len(policies[s]) /\ Revisions(s)' = 1..Len(policies[s])
  BY RowOf, RevisionsNext DEF SameLengths, Revisions
<1>. SUFFICES ASSUME NEW r \in Revisions(s)', policies'[s][r].status = status
             PROVE  policies'[s][r].scope \in ScopesOf(s, status)
  BY DEF ScopesOf
<1>2. policies'[s][r].scope = policies[s][r].scope /\ policies[s][r].status = status
  BY <1>1 DEF Grows, KeepsRow
<1>. QED
  BY <1>1, <1>2 DEF ScopesOf

LEMMA Barred ==
  ASSUME Types, Grows, NEW s \in Sessions
  PROVE  /\ Revisions(s) = 1..Len(policies[s]) /\ Revisions(s)' = 1..Len(policies'[s])
         /\ Len(policies[s]) \in Nat /\ Len(policies'[s]) \in Nat
         /\ \A status : ScopesOf(s, status) = {policies[s][r].scope :
              r \in {q \in 1..Len(policies[s]) : policies[s][q].status = status}}
         /\ \A status : ScopesOf(s, status)' = {policies'[s][r].scope :
              r \in {q \in 1..Len(policies'[s]) : policies'[s][q].status = status}}
<1>1. Revisions(s) = 1..Len(policies[s]) /\ Revisions(s)' = 1..Len(policies'[s])
      /\ Len(policies[s]) \in Nat /\ Len(policies'[s]) \in Nat
  BY RowOf, RevisionsNext DEF Revisions
<1>. QED
  BY <1>1 DEF ScopesOf

LEMMA ScopesType ==
  ASSUME Types, NEW s \in Sessions, NEW status
  PROVE  ScopesOf(s, status) \in SUBSET SUBSET Perms
<1>1. \A r \in Revisions(s) : policies[s][r] \in Policy
  BY RowOf DEF Revisions
<1>2. \A row \in Policy : row.scope \in SUBSET Perms
  BY DEF Policy
<1>. QED
  BY <1>1, <1>2 DEF ScopesOf

(* A step that activates nothing and adds no row.                          *)
LEMMA EndStep ==
  ASSUME TaskPolicyAssumption, PolicyInv, PolicyInv', Grows, SameLengths, ActivatesNothing
  PROVE  Granting!End
<1>0. Types /\ Types'
  BY DEF PolicyInv
<1>1. ASSUME NEW s \in Sessions, NEW r \in 1..Len(policies[s])
      PROVE  /\ policies'[s][r].status = "pending" => policies[s][r].status = "pending"
             /\ policies'[s][r].status = "active" => policies[s][r].status = "active"
             /\ policies'[s][r].by = policies[s][r].by
  BY DEF Grows, KeepsRow, SameLengths, ActivatesNothing
<1>2. \A s \in Sessions : /\ ScopesOf(s, "pending")' \subseteq ScopesOf(s, "pending")
                          /\ ScopesOf(s, "active")' \subseteq ScopesOf(s, "active")
  BY <1>0, <1>1, ScopesLater
<1>3. \A s \in Sessions : /\ ScopesOf(s, "pending")' \in SUBSET SUBSET Perms
                          /\ ScopesOf(s, "active")' \in SUBSET SUBSET Perms
  <2>1. ASSUME NEW s \in Sessions, NEW status
        PROVE  ScopesOf(s, status) \in SUBSET SUBSET Perms
    BY <1>0, ScopesType
  <2>. QED
    BY <1>0, <1>2, <2>1
<1>4. \A s \in Sessions :
        {r \in Revisions(s)' : policies'[s][r].by = "operator"} =
        {r \in Revisions(s) : policies[s][r].by = "operator"}
  BY <1>0, <1>1, Barred DEF SameLengths
<1>. QED
  BY <1>2, <1>3, <1>4 DEF Granting!End, SameLengths

(* The insert.                                                             *)
LEMMA InsertIsProposal ==
  ASSUME Types, Grows, NEW s \in Sessions, NEW row, Candidate(row),
         \A r \in 1..Len(policies[s]) : policies[s][r].status # "pending",
         policies' = [policies EXCEPT ![s] = Append(@, row)]
  PROVE  \E scope \in SUBSET Perms : Granting!Propose(s, scope)
<1>. DEFINE n == Len(policies[s])
<1>2. row.status = "pending" /\ row.by = "nobody" /\ row.scope \in SUBSET Perms /\ row \in Policy
  BY DEF Candidate, Policy
<1>3. policies[s] \in Seq(Policy) /\ n \in Nat
  BY RowOf
<1>4. /\ \A q \in Sessions : q # s => policies'[q] = policies[q]
      /\ policies'[s] = Append(policies[s], row)
  BY DEF Types
<1>5. /\ Len(policies'[s]) = n + 1 /\ policies'[s][n + 1] = row
      /\ \A r \in 1..n : policies'[s][r] = policies[s][r]
      /\ \A r \in 1..n : policies[s][r].status # "pending"
  <2>1. \A r \in 1..n : policies'[s][r] = policies[s][r]
    BY <1>2, <1>3, <1>4, AppendProperties
  <2>. QED
    BY <1>2, <1>3, <1>4, <2>1, AppendProperties
<1>6. 1..(n + 1) = 1..n \union {n + 1} /\ n + 1 \notin 1..n
  BY <1>3
<1>7. ScopesOf(s, "pending") = {}
  BY <1>5, Barred
<1>8. ScopesOf(s, "pending")' = {row.scope}
  <2>1. \A r \in 1..(n + 1) : policies'[s][r].status = "pending" <=> r = n + 1
    BY <1>2, <1>5, <1>6
  <2>. QED
    BY <1>5, <1>6, <2>1, Barred
<1>9. ScopesOf(s, "active")' = ScopesOf(s, "active")
  <2>1. {q \in 1..(n + 1) : policies'[s][q].status = "active"} =
        {q \in 1..n : policies[s][q].status = "active"}
    BY <1>2, <1>5, <1>6
  <2>2. \A q \in 1..n : policies'[s][q].scope = policies[s][q].scope
    BY <1>5
  <2>3. {policies'[s][r].scope : r \in {q \in 1..n : policies[s][q].status = "active"}} =
        {policies[s][r].scope : r \in {q \in 1..n : policies[s][q].status = "active"}}
    BY <2>2
  <2>. QED
    BY <1>5, <2>1, <2>3, Barred
<1>10. {r \in Revisions(s)' : policies'[s][r].by = "operator"} =
       {r \in Revisions(s) : policies[s][r].by = "operator"}
  <2>1. {r \in 1..(n + 1) : policies'[s][r].by = "operator"} =
        {r \in 1..n : policies[s][r].by = "operator"}
    BY <1>2, <1>5, <1>6
  <2>. QED
    BY <1>5, <2>1, Barred
<1>11. ASSUME NEW q \in Sessions, q # s
       PROVE  /\ Len(policies'[q]) = Len(policies[q])
              /\ ScopesOf(q, "pending")' = ScopesOf(q, "pending")
              /\ ScopesOf(q, "active")' = ScopesOf(q, "active")
              /\ {r \in Revisions(q)' : policies'[q][r].by = "operator"} =
                 {r \in Revisions(q) : policies[q][r].by = "operator"}
  BY <1>4, <1>11 DEF ScopesOf, Revisions
<1>12. [q \in Sessions |-> Len(policies'[q])] =
       [[q \in Sessions |-> Len(policies[q])] EXCEPT ![s] = @ + 1]
  BY <1>5, <1>11
<1>13. [q \in Sessions |-> ScopesOf(q, "pending")'] =
       [[q \in Sessions |-> ScopesOf(q, "pending")] EXCEPT ![s] = {row.scope}]
  BY <1>8, <1>11
<1>14. [q \in Sessions |-> ScopesOf(q, "active")'] = [q \in Sessions |-> ScopesOf(q, "active")]
  BY <1>9, <1>11
<1>15. [q \in Sessions |-> {r \in Revisions(q)' : policies'[q][r].by = "operator"}] =
       [q \in Sessions |-> {r \in Revisions(q) : policies[q][r].by = "operator"}]
  BY <1>10, <1>11
<1>16. Granting!Propose(s, row.scope)
  BY <1>7, <1>12, <1>13, <1>14, <1>15 DEF Granting!Propose
<1>. QED
  BY <1>2, <1>16

LEMMA ProposeStep ==
  ASSUME TaskPolicyAssumption, PolicyInv, Grows, NEW c \in Callers, Records(c), Adds(c)
  PROVE  \E s \in Sessions : \E scope \in SUBSET Perms : Granting!Propose(s, scope)
<1>. DEFINE s == caller[c].session
            row == caller[c].policy
<1>1. s \in Sessions /\ Candidate(row) /\ Types
  BY InHand DEF Records, HasRow, Writing, PolicyInv
<1>2. /\ \A r \in 1..Len(policies[s]) : policies[s][r].status # "pending"
      /\ policies' = [policies EXCEPT ![s] = Append(@, row)]
  BY DEF Adds
<1>. HIDE DEF s, row
<1>. QED
  BY <1>1, <1>2, InsertIsProposal

(* The activation: what waited is what is granted.                         *)
LEMMA ReplacesGrants ==
  ASSUME PolicyInv, Covered, Grows, NEW s \in Sessions, NEW r \in 1..Len(policies[s]),
         policies[s][r].status = "pending", NEW by, Replaces(s, r, by)
  PROVE  /\ Granting!Grant(s)
         /\ policies[s][r].scope \in ScopesOf(s, "pending") /\ r = Len(policies[s])
         /\ policies[s][r].by = "nobody" /\ policies'[s][r].by = by
         /\ \A j \in 1..Len(policies[s]) : j # r => policies'[s][j].by = policies[s][j].by
<1>. DEFINE n == Len(policies[s])
<1>0. Types /\ n \in Nat /\ r = n /\ Revisions(s) = 1..n
  BY RowOf DEF PolicyInv, Rows, PendingIsNewest, Revisions
<1>1. policies[s][r] \in Policy /\ policies[s][r].by = "nobody"
  BY RowOf DEF PolicyInv, Covered, CoveredRow
<1>2. /\ policies'[s][r].status = "active" /\ policies'[s][r].by = by
      /\ policies'[s][r].scope = policies[s][r].scope
  BY <1>1 DEF Replaces, Policy
<1>3. ASSUME NEW j \in 1..n, j # r
      PROVE  /\ policies[s][j].status # "pending"
             /\ policies'[s][j].status # "pending" /\ policies'[s][j].status # "active"
             /\ policies'[s][j].by = policies[s][j].by
  <2>1. policies[s][j].status # "pending"
    BY <1>0, <1>3 DEF PolicyInv, Rows, PendingIsNewest
  <2>2. KeepsRow(policies[s][j], policies'[s][j]) /\ policies'[s][j].status # "active"
    BY <1>3 DEF Grows, Replaces
  <2>. QED
    BY <2>1, <2>2 DEF KeepsRow
<1>4. Len(policies'[s]) = n
  BY DEF Replaces
<1>5. ScopesOf(s, "pending") = {policies[s][r].scope}
  <2>1. {q \in 1..n : policies[s][q].status = "pending"} = {r}
    BY <1>3
  <2>. QED
    BY <1>0, <2>1, Barred
<1>6. ScopesOf(s, "active")' = {policies[s][r].scope}
  <2>1. {q \in 1..n : policies'[s][q].status = "active"} = {r}
    BY <1>2, <1>3
  <2>. QED
    BY <1>0, <1>2, <1>4, <2>1, Barred
<1>7. ScopesOf(s, "pending")' = {}
  <2>1. {q \in 1..n : policies'[s][q].status = "pending"} = {}
    BY <1>2, <1>3
  <2>. QED
    BY <1>0, <1>4, <2>1, Barred
<1>8. ASSUME NEW q \in Sessions, q # s
      PROVE  /\ Len(policies'[q]) = Len(policies[q])
             /\ ScopesOf(q, "pending")' = ScopesOf(q, "pending")
             /\ ScopesOf(q, "active")' = ScopesOf(q, "active")
  BY <1>8 DEF Replaces, ScopesOf, Revisions
<1>9. [q \in Sessions |-> ScopesOf(q, "active")'] =
      [[q \in Sessions |-> ScopesOf(q, "active")] EXCEPT ![s] = ScopesOf(s, "pending")]
  BY <1>5, <1>6, <1>8
<1>10. [q \in Sessions |-> ScopesOf(q, "pending")'] =
       [[q \in Sessions |-> ScopesOf(q, "pending")] EXCEPT ![s] = {}]
  BY <1>7, <1>8
<1>11. [q \in Sessions |-> Len(policies'[q])] = [q \in Sessions |-> Len(policies[q])]
  BY <1>4, <1>8
<1>12. Granting!Grant(s)
  BY <1>5, <1>9, <1>10, <1>11 DEF Granting!Grant
<1>. QED
  BY <1>0, <1>1, <1>2, <1>3, <1>5, <1>12

LEMMA ConfirmStep ==
  ASSUME PolicyInv, Covered, Grows, NEW s \in Sessions, NEW r \in 1..Len(policies[s]),
         policies[s][r].status = "pending", Replaces(s, r, "operator")
  PROVE  Granting!Confirm(s)
<1>1. /\ Granting!Grant(s) /\ r = Len(policies[s]) /\ policies'[s][r].by = "operator"
      /\ \A j \in 1..Len(policies[s]) : j # r => policies'[s][j].by = policies[s][j].by
  BY ReplacesGrants
<1>2. {j \in Revisions(s)' : policies'[s][j].by = "operator"} =
      {j \in Revisions(s) : policies[s][j].by = "operator"} \union {Len(policies[s])}
  <2>1. /\ Revisions(s) = 1..Len(policies[s]) /\ Revisions(s)' = 1..Len(policies[s])
    BY Barred DEF PolicyInv, Replaces
  <2>. QED
    BY <1>1, <2>1
<1>3. ASSUME NEW q \in Sessions, q # s
      PROVE  {j \in Revisions(q)' : policies'[q][j].by = "operator"} =
             {j \in Revisions(q) : policies[q][j].by = "operator"}
  BY <1>3 DEF Replaces, Revisions
<1>4. [q \in Sessions |-> {j \in Revisions(q)' : policies'[q][j].by = "operator"}] =
      [[q \in Sessions |-> {j \in Revisions(q) : policies[q][j].by = "operator"}]
         EXCEPT ![s] = @ \union {Len(policies[s])}]
  BY <1>2, <1>3
<1>. QED
  BY <1>1, <1>4 DEF Granting!Confirm

LEMMA NarrowStep ==
  ASSUME PolicyInv, Covered, Grows, NEW s \in Sessions, NEW r \in 1..Len(policies[s]),
         policies[s][r].status = "pending", Replaces(s, r, "guardd"),
         NEW a \in 1..Len(policies[s]), policies[s][a].status = "active",
         policies[s][r].scope \subseteq policies[s][a].scope,
         policies[s][r].scope # policies[s][a].scope
  PROVE  Granting!Narrow(s)
<1>0. Revisions(s) = 1..Len(policies[s])
  BY Barred DEF PolicyInv
<1>1. /\ Granting!Grant(s) /\ policies[s][r].scope \in ScopesOf(s, "pending")
      /\ policies[s][r].by = "nobody" /\ policies'[s][r].by = "guardd"
      /\ \A j \in 1..Len(policies[s]) : j # r => policies'[s][j].by = policies[s][j].by
  BY ReplacesGrants
<1>2. policies[s][a].scope \in ScopesOf(s, "active")
  BY <1>0 DEF ScopesOf
<1>3. ASSUME NEW q \in Sessions
      PROVE  {j \in Revisions(q)' : policies'[q][j].by = "operator"} =
             {j \in Revisions(q) : policies[q][j].by = "operator"}
  <2>1. CASE q # s
    BY <2>1 DEF Replaces, Revisions
  <2>2. CASE q = s
    <3>1. Revisions(s)' = 1..Len(policies[s])
      BY Barred DEF PolicyInv, Replaces
    <3>. QED
      BY <1>0, <1>1, <2>2, <3>1
  <2>. QED
    BY <2>1, <2>2
<1>. QED
  BY <1>1, <1>2, <1>3 DEF Granting!Narrow

LEMMA NarrowedGrants ==
  ASSUME TaskPolicyAssumption, PolicyInv, PolicyInv', Covered, Grows,
         NEW c \in Callers, ActivatesNarrowed(c)
  PROVE  Granting!End \/ \E s \in Sessions : Granting!Narrow(s)
<1>. DEFINE s == caller[c].session
            r == caller[c].rev
            a == caller[c].active
<1>1. /\ s \in Sessions /\ r \in 1..Len(policies[s]) /\ a # 0
      /\ Narrower(policies[s][r].scope, policies[s][a].scope)
  <2>1. caller[c].at = "activates" /\ caller[c].at \in HasRow /\ caller[c].at \in Writing
    BY DEF ActivatesNarrowed, HasRow, Writing
  <2>. QED
    BY <2>1, InHand, CallerFacts DEF NarrowingFits
<1>2. CASE ActivatesNothing
  <2>1. SameLengths
    BY <1>1, ActivationLength DEF ActivatesNarrowed, CanActivate, SameLengths, PolicyInv
  <2>. QED
    BY <1>2, <2>1, EndStep
<1>3. CASE CanActivate(s, r, a) /\ Replaces(s, r, "guardd")
  <2>1. policies[s][r].status = "pending" /\ Active(s) = a
    BY <1>3 DEF CanActivate
  <2>2. a \in 1..Len(policies[s]) /\ policies[s][a].status = "active"
    BY <1>1, <2>1, ActiveFacts, RowOf DEF PolicyInv
  <2>. HIDE DEF s, r, a
  <2>. QED
    BY <1>1, <1>3, <2>1, <2>2, NarrowStep DEF Narrower
<1>. QED
  BY <1>2, <1>3, ActivatesNarrowedKeeps

LEMMA StepIsGrantStep ==
  ASSUME TaskPolicyAssumption, PolicyInv, PolicyInv', Covered, [Next]_vars
  PROVE  Granting!GrantNext
<1>0. Grows
  BY StepKeeps
<1>1. CASE Keeps
  <2>1. CASE SameLengths
    BY <1>0, <1>1, <2>1, EndStep DEF Keeps, Granting!GrantNext
  <2>2. CASE \E c \in Callers : Records(c) /\ Adds(c)
    BY <1>0, <2>2, ProposeStep DEF Granting!GrantNext
  <2>. QED
    BY <2>1, <2>2, LengthsStep
<1>2. CASE \E c \in Callers : ActivatesNarrowed(c)
  BY <1>0, <1>2, NarrowedGrants DEF Granting!GrantNext
<1>3. ASSUME NEW s \in Sessions, NEW r \in Revisions(s), OperatorActivates(s, r)
      PROVE  Granting!Confirm(s)
  <2>1. r \in 1..Len(policies[s]) /\ policies[s][r].status = "pending"
    BY <1>3, RowOf DEF PolicyInv, Revisions, OperatorActivates, CanActivate
  <2>. QED
    BY <1>0, <1>3, <2>1, OperatorActivatesKeeps, ConfirmStep
<1>4. CASE \E s \in Sessions : \E r \in Revisions(s) : OperatorActivates(s, r)
  BY <1>3, <1>4 DEF Granting!GrantNext
<1>. QED
  BY <1>1, <1>2, <1>4, NextKeeps

(* The table of the revisions, whoever writes it and in whatever order,    *)
(* shows the operator one candidate and one grant of each session: what is *)
(* granted is the candidate that he confirmed, or a part of the grant.     *)
THEOREM ImplementsGrantCorrect == Spec => ImplementsGrant
<1>1. Init => Granting!GrantInit
  BY DEF Init, Granting!GrantInit, ScopesOf, Revisions
<1>2. ConfirmInv /\ ConfirmInv' /\ [Next]_vars => [Granting!GrantNext]_(Granting!grantVars)
  BY TaskPolicyAssumption, StepIsGrantStep DEF ConfirmInv
<1>. QED
  BY <1>1, <1>2, ConfirmInvariant, PTL DEF Spec, ImplementsGrant, Granting!GrantSpec
=============================================================================
