------------------------------ MODULE WorkProofs ------------------------------
(***************************************************************************)
(* What agents may use and what they leave behind, proved for every set of *)
(* requests, keys, tasks, paths and steps: HardMemory,                     *)
(* MemoryConsolidation, ToolAccess, WorkspaceFiles and PlanValidation.     *)
(***************************************************************************)
EXTENDS Work, FiniteSetTheorems, SequenceTheorems, WellFoundedInduction, TLAPS
-----------------------------------------------------------------------------
(* Hard memory. A request works on rows nobody else changes, because it    *)
(* holds the row of the profile from its first read to its commit.         *)

\* Nothing is written before there is a profile.
EmptyWithoutProfile == profile = 0 => \A k \in Keys : rows[k] = <<>>

\* What a request has read is still so while it holds the row of the profile,
\* and its reply is its last step.
ReadsHold ==
  \A r \in Requests :
    /\ at[r] # "ended" => reply[r] = "none"
    /\ at[r] \in {"new", "creating"} => seen[r] = 0
    /\ at[r] = "locked" =>
         /\ counted[r] = IF profile = 0 THEN 1 ELSE profile
         /\ want[r].op = "upsert" => seen[r] = Hard!ActiveRow(want[r].key)

Changed == {r \in Requests : reply[r] \in {"written", "deleted"}}

HardInv ==
  /\ Hard!TypeOK /\ EmptyWithoutProfile /\ ReadsHold
  /\ Hard!OneActiveValue /\ Hard!ChangesAreCounted /\ IsFiniteSet(Changed)

\* The two ways to say who holds the row of the profile.
LEMMA HolderType ==
  ASSUME Hard!RequestsAssumption, Hard!TypeOK
  PROVE  /\ holder \in Requests \cup {Nobody}
         /\ \A r \in Requests : at[r] = "locked" <=> holder = r
BY DEF Hard!TypeOK, Hard!RequestsAssumption

\* An active row is the last of its key, and is the one a request finds.
LEMMA ActiveRowIs ==
  ASSUME Hard!TypeOK, Hard!OneActiveValue, NEW k \in Keys
  PROVE  \/ Hard!ActiveRow(k) = 0 /\ Hard!Active(k) = {}
         \/ /\ Hard!ActiveRow(k) = Len(rows[k]) /\ Hard!Active(k) = {Len(rows[k])}
            /\ Len(rows[k]) \in DOMAIN rows[k]
<1>1. Hard!Active(k) \subseteq DOMAIN rows[k] /\ 0 \notin DOMAIN rows[k]
  BY DEF Hard!Active, Hard!TypeOK
<1>2. CASE Hard!Active(k) = {}
  BY <1>2 DEF Hard!ActiveRow
<1>3. CASE Hard!Active(k) # {}
  <2>1. Hard!Active(k) = {Len(rows[k])}
    BY <1>3 DEF Hard!OneActiveValue
  <2>2. QED BY <1>1, <2>1 DEF Hard!ActiveRow
<1>4. QED BY <1>2, <1>3

\* How a request ends: its reply is given and the row of the profile let go.
LEMMA EndMoves ==
  ASSUME Hard!RequestsAssumption, Hard!TypeOK, NEW r \in Requests, at[r] # "ended",
         NEW how \in Hard!Replies, Hard!End(r, how)
  PROVE  /\ at' \in [Requests -> {"new", "creating", "locked", "ended"}]
         /\ reply' \in [Requests -> Hard!Replies]
         /\ {q \in Requests : at'[q] = "locked"} = {holder'} \ {Nobody}
         /\ at'[r] = "ended" /\ reply'[r] = how
         /\ \A q \in Requests \ {r} : at'[q] = at[q] /\ reply'[q] = reply[q]
BY HolderType DEF Hard!TypeOK, Hard!End

\* A request that ends without writing keeps the invariant.
LEMMA EndKeeps ==
  ASSUME Hard!RequestsAssumption, HardInv, NEW r \in Requests, at[r] # "ended",
         NEW how \in Hard!Replies \ {"written", "deleted"}, Hard!End(r, how),
         UNCHANGED <<profile, rows, want, seen, counted>>
  PROVE  HardInv'
<1>1. Hard!TypeOK'
  BY EndMoves DEF HardInv, Hard!TypeOK
<1>2. EmptyWithoutProfile' /\ Hard!OneActiveValue'
  BY DEF HardInv, EmptyWithoutProfile, Hard!OneActiveValue, Hard!Active
<1>3. ReadsHold'
  <2>1. \A k : Hard!ActiveRow(k)' = Hard!ActiveRow(k)
    BY DEF Hard!ActiveRow, Hard!Active
  <2>2. QED BY <2>1, EndMoves DEF HardInv, ReadsHold
<1>4. Changed' = Changed
  BY EndMoves DEF HardInv, ReadsHold, Changed
<1>5. Hard!ChangesAreCounted' /\ IsFiniteSet(Changed')
  BY <1>4 DEF HardInv, Hard!ChangesAreCounted, Changed
<1>6. QED BY <1>1, <1>2, <1>3, <1>5 DEF HardInv

\* A request that changes something counts as one more change.
LEMMA OneMoreChange ==
  ASSUME HardInv, NEW r \in Requests, at[r] = "locked",
         Changed' = Changed \cup {r}, profile' = counted[r] + 1
  PROVE  IsFiniteSet(Changed') /\ Hard!ChangesAreCounted'
<1>1. r \notin Changed
  BY DEF HardInv, ReadsHold, Changed
<1>2. /\ IsFiniteSet(Changed') /\ Cardinality(Changed') = Cardinality(Changed) + 1
      /\ Cardinality(Changed) \in Nat
  BY <1>1, FS_AddElement, FS_CardinalityType DEF HardInv
<1>3. /\ profile = IF Cardinality(Changed) = 0 THEN 0 ELSE Cardinality(Changed) + 1
      /\ Hard!ChangesAreCounted' <=>
           profile' = IF Cardinality(Changed') = 0 THEN 0 ELSE Cardinality(Changed') + 1
  BY DEF HardInv, Hard!ChangesAreCounted, Hard!Cardinality, Cardinality, Changed
<1>4. counted[r] = IF profile = 0 THEN 1 ELSE profile
  BY DEF HardInv, ReadsHold
<1>5. QED BY <1>2, <1>3, <1>4

\* Every step takes what the requests rely on to what they rely on.
LEMMA CreateKeeps ==
  ASSUME Hard!RequestsAssumption, HardInv, NEW r \in Requests, Hard!Create(r)
  PROVE  HardInv'
<1>1. CASE profile # 0
  <2>1. Hard!End(r, "duplicate profile") /\ at[r] # "ended"
        /\ UNCHANGED <<profile, rows, want, seen, counted>>
    BY <1>1 DEF Hard!Create
  <2>2. QED BY <2>1, EndKeeps DEF Hard!Replies
<1>2. CASE profile = 0
  <2>1. /\ at[r] = "creating" /\ holder = Nobody
        /\ holder' = r /\ at' = [at EXCEPT ![r] = "locked"]
        /\ counted' = [counted EXCEPT ![r] = 1]
        /\ UNCHANGED <<profile, rows, want, seen, reply>>
    BY <1>2 DEF Hard!Create
  <2>2. Hard!TypeOK'
    BY <2>1, HolderType DEF HardInv, Hard!TypeOK, Hard!RequestsAssumption
  <2>3. \A k : Hard!Active(k)' = Hard!Active(k) /\ Hard!ActiveRow(k)' = Hard!ActiveRow(k)
    BY <2>1 DEF Hard!ActiveRow, Hard!Active
  <2>4. ReadsHold'
    <3>1. want[r].op = "upsert" => Hard!ActiveRow(want[r].key) = 0
      <4> SUFFICES ASSUME want[r].op = "upsert"
                   PROVE  Hard!ActiveRow(want[r].key) = 0
        OBVIOUS
      <4>1. want[r].key \in Keys
        BY DEF HardInv, Hard!TypeOK, Hard!Wants
      <4>2. rows[want[r].key] = <<>>
        BY <1>2, <4>1 DEF HardInv, EmptyWithoutProfile
      <4>3. QED BY <4>2 DEF Hard!ActiveRow, Hard!Active
    <3>2. at'[r] = "locked" /\ counted'[r] = 1 /\ seen'[r] = 0 /\ reply'[r] = "none"
      BY <2>1 DEF HardInv, Hard!TypeOK, ReadsHold
    <3>3. \A q \in Requests \ {r} : at'[q] = at[q] /\ counted'[q] = counted[q]
      BY <2>1 DEF HardInv, Hard!TypeOK
    <3>4. QED BY <1>2, <2>1, <2>3, <3>1, <3>2, <3>3 DEF HardInv, ReadsHold
  <2>5. /\ EmptyWithoutProfile' /\ Hard!OneActiveValue'
        /\ Changed' = Changed /\ Hard!ChangesAreCounted'
    BY <2>1, <2>3 DEF HardInv, EmptyWithoutProfile, Hard!OneActiveValue, Changed,
                      Hard!ChangesAreCounted
  <2>6. QED BY <2>2, <2>4, <2>5 DEF HardInv
<1>3. QED BY <1>1, <1>2

LEMMA LockKeeps ==
  ASSUME Hard!RequestsAssumption, HardInv, NEW r \in Requests, Hard!Lock(r)
  PROVE  HardInv'
<1> DEFINE found == IF want[r].op = "upsert" THEN Hard!ActiveRow(want[r].key) ELSE 0
<1>1. /\ at[r] = "new" /\ profile > 0 /\ holder = Nobody
      /\ holder' = r /\ at' = [at EXCEPT ![r] = "locked"]
      /\ seen' = [seen EXCEPT ![r] = found] /\ counted' = [counted EXCEPT ![r] = profile]
      /\ UNCHANGED <<profile, rows, want, reply>>
  BY DEF Hard!Lock
<1>2. found \in Nat
  <2>1. want[r].op = "upsert" => want[r].key \in Keys
    BY DEF HardInv, Hard!TypeOK, Hard!Wants
  <2>2. \A k \in Keys : Len(rows[k]) \in Nat
    BY DEF HardInv, Hard!TypeOK
  <2>3. QED BY <2>1, <2>2, ActiveRowIs DEF HardInv
<1>3. Hard!TypeOK'
  BY <1>1, <1>2, HolderType DEF HardInv, Hard!TypeOK, Hard!RequestsAssumption
<1>4. \A k : Hard!Active(k)' = Hard!Active(k) /\ Hard!ActiveRow(k)' = Hard!ActiveRow(k)
  BY <1>1 DEF Hard!ActiveRow, Hard!Active
<1>5. ReadsHold'
  <2>1. /\ at'[r] = "locked" /\ counted'[r] = profile /\ seen'[r] = found /\ reply'[r] = "none"
        /\ profile # 0
    BY <1>1 DEF HardInv, Hard!TypeOK, ReadsHold
  <2>2. \A q \in Requests \ {r} :
          at'[q] = at[q] /\ counted'[q] = counted[q] /\ seen'[q] = seen[q]
    BY <1>1 DEF HardInv, Hard!TypeOK
  <2>3. QED BY <1>1, <1>4, <2>1, <2>2 DEF HardInv, ReadsHold
<1>6. /\ EmptyWithoutProfile' /\ Hard!OneActiveValue'
      /\ Changed' = Changed /\ Hard!ChangesAreCounted'
  BY <1>1, <1>4 DEF HardInv, EmptyWithoutProfile, Hard!OneActiveValue, Changed,
                    Hard!ChangesAreCounted
<1>7. QED BY <1>3, <1>5, <1>6 DEF HardInv

\* A change of one key by the request that holds the row: what the others rely on.
LEMMA ChangeKeeps ==
  ASSUME Hard!RequestsAssumption, HardInv, NEW r \in Requests, at[r] = "locked",
         NEW how \in {"written", "deleted"}, Hard!End(r, how),
         NEW k \in Keys, NEW list \in Seq(Hard!Row), rows' = [rows EXCEPT ![k] = list],
         {i \in DOMAIN list : list[i].status = "active"} \subseteq {Len(list)},
         profile' = counted[r] + 1, UNCHANGED <<want, seen, counted>>
  PROVE  HardInv'
<1>1. at[r] # "ended" /\ how \in Hard!Replies
  BY DEF Hard!Replies
<1>2. counted[r] \in Nat
  BY DEF HardInv, Hard!TypeOK
<1>3. Hard!TypeOK'
  <2>1. rows' \in [Keys -> Seq(Hard!Row)]
    BY DEF HardInv, Hard!TypeOK
  <2>2. profile' \in Nat
    BY <1>2
  <2>3. QED BY <1>1, <2>1, <2>2, EndMoves DEF HardInv, Hard!TypeOK
<1>4. profile' # 0
  BY <1>2
<1>5. EmptyWithoutProfile'
  BY <1>4 DEF EmptyWithoutProfile
<1>6. \A q \in Requests : at'[q] # "locked"
  BY <1>1, EndMoves, HolderType DEF HardInv, Hard!TypeOK
<1>7. ReadsHold'
  BY <1>1, <1>6, EndMoves DEF HardInv, ReadsHold
<1>8. Hard!OneActiveValue'
  BY DEF HardInv, Hard!TypeOK, Hard!OneActiveValue, Hard!Active
<1>9. Changed' = Changed \cup {r}
  BY <1>1, EndMoves DEF HardInv, ReadsHold, Changed
<1>10. QED BY <1>3, <1>5, <1>7, <1>8, <1>9, OneMoreChange DEF HardInv

\* What an upsert that is not refused writes: the row before, if there is an
\* active one, is superseded, and the new one is the last.
LEMMA UpsertWrites ==
  ASSUME HardInv, NEW k \in Keys, NEW value \in Values, NEW i, i = Hard!ActiveRow(k),
         NEW revision, revision = Hard!NextRevision(k, i),
         NEW list, list = Append(Hard!Supersede(k, i),
                                 [value |-> value, revision |-> revision, status |-> "active"])
  PROVE  /\ list \in Seq(Hard!Row) /\ Len(list) = Len(rows[k]) + 1
         /\ {j \in DOMAIN list : list[j].status = "active"} \subseteq {Len(list)}
         /\ \A j \in DOMAIN rows[k] : rows[k][j].status # "active" => list[j] = rows[k][j]
<1>1. rows[k] \in Seq(Hard!Row) /\ Len(rows[k]) \in Nat /\ DOMAIN rows[k] = 1 .. Len(rows[k])
  BY DEF HardInv, Hard!TypeOK
<1>2. \A j \in DOMAIN rows[k] : rows[k][j] \in Hard!Row
  BY <1>1
<1>3. \/ i = 0 /\ Hard!Active(k) = {}
      \/ i \in DOMAIN rows[k] /\ Hard!Active(k) = {i}
  BY ActiveRowIs DEF HardInv
<1>4. revision \in Nat \ {0}
  BY <1>2, <1>3 DEF Hard!NextRevision, Hard!Row
<1> DEFINE before == Hard!Supersede(k, i)
<1>5. /\ before \in Seq(Hard!Row) /\ Len(before) = Len(rows[k])
      /\ \A j \in DOMAIN rows[k] : before[j].status # "active"
      /\ \A j \in DOMAIN rows[k] : rows[k][j].status # "active" => before[j] = rows[k][j]
  <2>1. /\ DOMAIN before = 1 .. Len(rows[k])
        /\ \A j \in DOMAIN rows[k] :
             before[j] = IF j = i THEN [rows[k][j] EXCEPT !.status = "superseded"]
                         ELSE rows[k][j]
    BY <1>1 DEF Hard!Supersede
  <2>2. \A j \in DOMAIN rows[k] : before[j] \in Hard!Row
    BY <1>2, <2>1 DEF Hard!Row
  <2>3. before \in Seq(Hard!Row) /\ Len(before) = Len(rows[k])
    <3>1. before \in [1 .. Len(rows[k]) -> Hard!Row]
      BY <1>1, <2>2 DEF Hard!Supersede
    <3>2. QED BY <1>1, <3>1
  <2>4. \A j \in DOMAIN rows[k] : rows[k][j].status = "active" => j = i
    BY <1>3 DEF Hard!Active
  <2>5. \A j \in DOMAIN rows[k] : j = i => before[j].status = "superseded"
    BY <1>2, <2>1 DEF Hard!Row
  <2>6. i = 0 \/ (i \in DOMAIN rows[k] /\ rows[k][i].status = "active")
    BY <1>3 DEF Hard!Active
  <2> HIDE DEF before
  <2>7. \A j \in DOMAIN rows[k] : before[j].status # "active"
    BY <2>1, <2>4, <2>5
  <2>8. \A j \in DOMAIN rows[k] : rows[k][j].status # "active" => before[j] = rows[k][j]
    <3>1. \A j \in DOMAIN rows[k] : rows[k][j].status # "active" => j # i
      BY <1>1, <2>6
    <3>2. QED BY <2>1, <3>1
  <2>9. QED BY <2>3, <2>7, <2>8
<1>6. [value |-> value, revision |-> revision, status |-> "active"] \in Hard!Row
  BY <1>4 DEF Hard!Row
<1> HIDE DEF before
<1>7. /\ list \in Seq(Hard!Row) /\ Len(list) = Len(rows[k]) + 1
      /\ \A j \in DOMAIN rows[k] : list[j] = before[j]
  BY <1>1, <1>5, <1>6 DEF before
<1>8. QED BY <1>1, <1>5, <1>7

LEMMA UpsertKeeps ==
  ASSUME Hard!RequestsAssumption, HardInv, NEW r \in Requests, Hard!Upsert(r)
  PROVE  HardInv'
<1> DEFINE k == want[r].key
           i == seen[r]
           revision == Hard!NextRevision(k, i)
           new == [value |-> want[r].value, revision |-> revision, status |-> "active"]
           list == Append(Hard!Supersede(k, i), new)
<1>1. at[r] = "locked" /\ want[r].op = "upsert" /\ UNCHANGED <<want, seen, counted>>
  BY DEF Hard!Upsert
<1>2. k \in Keys /\ want[r].value \in Values
  BY <1>1 DEF HardInv, Hard!TypeOK, Hard!Wants
<1>3. i = Hard!ActiveRow(k)
  BY <1>1 DEF HardInv, ReadsHold
<1>4. \/ (Hard!End(r, "unchanged") \/ Hard!End(r, "duplicate revision")) /\ UNCHANGED <<profile, rows>>
      \/ /\ Hard!End(r, "written")
         /\ rows' = [rows EXCEPT ![k] = list] /\ profile' = counted[r] + 1
  BY DEF Hard!Upsert
<1>5. /\ list \in Seq(Hard!Row)
      /\ {j \in DOMAIN list : list[j].status = "active"} \subseteq {Len(list)}
  BY <1>2, <1>3, UpsertWrites
<1> HIDE DEF k, i, revision, new, list
<1>6. QED BY <1>1, <1>2, <1>4, <1>5, EndKeeps, ChangeKeeps DEF Hard!Replies

\* Deleting an active row leaves none.
Deleted(k, i) == [rows[k] EXCEPT ![i].status = "deleted"]

LEMMA DeleteWrites ==
  ASSUME HardInv, NEW k \in Keys, NEW i \in Hard!Active(k)
  PROVE  /\ Deleted(k, i) \in Seq(Hard!Row) /\ Len(Deleted(k, i)) = Len(rows[k])
         /\ {j \in DOMAIN Deleted(k, i) : Deleted(k, i)[j].status = "active"} = {}
         /\ \A j \in DOMAIN rows[k] :
              rows[k][j].status # "active" => Deleted(k, i)[j] = rows[k][j]
<1>1. rows[k] \in Seq(Hard!Row) /\ Len(rows[k]) \in Nat /\ DOMAIN rows[k] = 1 .. Len(rows[k])
  BY DEF HardInv, Hard!TypeOK
<1>2. Hard!Active(k) = {i} /\ i \in DOMAIN rows[k]
  BY DEF HardInv, Hard!OneActiveValue, Hard!Active
<1>3. rows[k][i] \in Hard!Row /\ [rows[k][i] EXCEPT !.status = "deleted"] \in Hard!Row
  <2>1. rows[k][i] \in Hard!Row
    BY <1>1, <1>2
  <2>2. QED BY <2>1 DEF Hard!Row
<1>4. Deleted(k, i) = [rows[k] EXCEPT ![i] = [rows[k][i] EXCEPT !.status = "deleted"]]
  BY DEF Deleted
<1>5. /\ Deleted(k, i) \in Seq(Hard!Row) /\ Len(Deleted(k, i)) = Len(rows[k])
      /\ DOMAIN Deleted(k, i) = DOMAIN rows[k]
  BY <1>1, <1>2, <1>3, <1>4, ExceptSeq
<1>6. Deleted(k, i)[i].status = "deleted"
  BY <1>2, <1>3, <1>4 DEF Hard!Row
<1>7. \A j \in DOMAIN rows[k] :
        j # i => Deleted(k, i)[j] = rows[k][j] /\ rows[k][j].status # "active"
  BY <1>2, <1>4 DEF Hard!Active
<1>8. rows[k][i].status = "active"
  BY DEF Hard!Active
<1>9. QED BY <1>5, <1>6, <1>7, <1>8

LEMMA DeleteKeeps ==
  ASSUME Hard!RequestsAssumption, HardInv, NEW r \in Requests, Hard!Delete(r)
  PROVE  HardInv'
<1> DEFINE k == want[r].key
           i == want[r].index
<1>1. at[r] = "locked" /\ want[r].op = "delete" /\ UNCHANGED <<want, seen, counted>>
  BY DEF Hard!Delete
<1>2. k \in Keys
  BY <1>1 DEF HardInv, Hard!TypeOK, Hard!Wants
<1>3. \/ Hard!End(r, "not found") /\ UNCHANGED <<profile, rows>>
      \/ /\ i \in Hard!Active(k) /\ Hard!End(r, "deleted")
         /\ rows' = [rows EXCEPT ![k] = Deleted(k, i)] /\ profile' = counted[r] + 1
  BY DEF Hard!Delete, Deleted
<1> HIDE DEF k, i
<1>4. i \in Hard!Active(k) =>
        /\ Deleted(k, i) \in Seq(Hard!Row)
        /\ {j \in DOMAIN Deleted(k, i) : Deleted(k, i)[j].status = "active"}
             \subseteq {Len(Deleted(k, i))}
  BY <1>2, DeleteWrites
<1>5. QED BY <1>1, <1>2, <1>3, <1>4, EndKeeps, ChangeKeeps DEF Hard!Replies

LEMMA HardNext ==
  ASSUME Hard!RequestsAssumption, HardInv, [Hard!Next]_Hard!vars
  PROVE  HardInv'
<1>1. CASE UNCHANGED Hard!vars
  <2>1. UNCHANGED <<profile, rows, want, at, holder, seen, counted, reply>>
    BY <1>1 DEF Hard!vars
  <2>2. \A k : Hard!Active(k)' = Hard!Active(k) /\ Hard!ActiveRow(k)' = Hard!ActiveRow(k)
    BY <2>1 DEF Hard!ActiveRow, Hard!Active
  <2>3. Hard!TypeOK' /\ EmptyWithoutProfile'
    BY <2>1 DEF HardInv, Hard!TypeOK, EmptyWithoutProfile
  <2>4. ReadsHold'
    BY <2>1, <2>2 DEF HardInv, ReadsHold
  <2>5. /\ Hard!OneActiveValue' /\ Changed' = Changed /\ Hard!ChangesAreCounted'
    BY <2>1, <2>2 DEF HardInv, Hard!OneActiveValue, Changed, Hard!ChangesAreCounted
  <2>6. QED BY <2>3, <2>4, <2>5 DEF HardInv
<1>2. ASSUME NEW r \in Requests,
             \/ Hard!Reject(r) \/ Hard!FindsNone(r) \/ Hard!Create(r) \/ Hard!Lock(r)
             \/ Hard!Upsert(r) \/ Hard!Delete(r) \/ Hard!List(r) \/ Hard!Lose(r)
      PROVE  HardInv'
  <2>1. CASE Hard!Reject(r)
    BY <2>1, EndKeeps DEF Hard!Reject, Hard!Replies
  <2>2. CASE Hard!FindsNone(r) /\ want[r].op # "upsert"
    BY <2>2, EndKeeps DEF Hard!FindsNone, Hard!Replies
  <2>3. CASE Hard!FindsNone(r) /\ want[r].op = "upsert"
    <3>1. /\ at[r] = "new" /\ at' = [at EXCEPT ![r] = "creating"]
          /\ UNCHANGED <<profile, rows, want, seen, counted, reply, holder>>
      BY <2>3 DEF Hard!FindsNone
    <3>2. Hard!TypeOK'
      BY <3>1 DEF HardInv, Hard!TypeOK
    <3>3. \A k : Hard!Active(k)' = Hard!Active(k) /\ Hard!ActiveRow(k)' = Hard!ActiveRow(k)
      BY <3>1 DEF Hard!ActiveRow, Hard!Active
    <3>4. ReadsHold'
      BY <3>1, <3>3 DEF HardInv, Hard!TypeOK, ReadsHold
    <3>5. /\ EmptyWithoutProfile' /\ Hard!OneActiveValue'
          /\ Changed' = Changed /\ Hard!ChangesAreCounted'
      BY <3>1, <3>3 DEF HardInv, EmptyWithoutProfile, Hard!OneActiveValue, Changed,
                        Hard!ChangesAreCounted
    <3>6. QED BY <3>2, <3>4, <3>5 DEF HardInv
  <2>4. CASE Hard!List(r)
    BY <2>4, EndKeeps DEF Hard!List, Hard!Replies
  <2>5. CASE Hard!Lose(r)
    BY <2>5, EndKeeps DEF Hard!Lose, Hard!Replies
  <2>6. QED BY <1>2, <2>1, <2>2, <2>3, <2>4, <2>5, CreateKeeps, LockKeeps, UpsertKeeps, DeleteKeeps
<1>3. QED BY <1>1, <1>2 DEF Hard!Next

LEMMA HardInit ==
  ASSUME Hard!RequestsAssumption, Hard!Init
  PROVE  HardInv
<1>1. Hard!TypeOK
  BY DEF Hard!RequestsAssumption, Hard!Init, Hard!TypeOK, Hard!Replies
<1>2. EmptyWithoutProfile /\ ReadsHold /\ Hard!OneActiveValue
  BY DEF Hard!Init, EmptyWithoutProfile, ReadsHold, Hard!OneActiveValue, Hard!Active
<1>3. Changed = {}
  BY DEF Hard!Init, Changed
<1>4. IsFiniteSet(Changed) /\ Hard!ChangesAreCounted
  BY <1>3, FS_EmptySet DEF Hard!Init, Hard!ChangesAreCounted, Hard!Cardinality, Cardinality, Changed
<1>5. QED BY <1>1, <1>2, <1>4 DEF HardInv

LEMMA HardInvariant ==
  ASSUME Hard!RequestsAssumption
  PROVE  Hard!Spec => []HardInv
BY HardInit, HardNext, PTL DEF Hard!Spec

\* However many requests upsert and delete however many keys, a key has at most
\* one active value and it is the last one written (OneActiveValue of the run
\* work), and the revision of the profile counts every change once.
THEOREM HardMemoryCorrect ==
  ASSUME Hard!RequestsAssumption
  PROVE  Hard!Spec => []OneActiveValue
<1>1. HardInv => OneActiveValue
  BY DEF HardInv, OneActiveValue
<1>2. QED BY <1>1, HardInvariant, PTL

\* What was deleted or superseded is never touched again (GoneStaysGone).
THEOREM HardMemoryGone ==
  ASSUME Hard!RequestsAssumption
  PROVE  Hard!Spec => GoneStaysGone
<1> DEFINE Kept == \A k \in Keys : \A i \in DOMAIN rows[k] :
                     rows[k][i].status # "active" => rows'[k][i] = rows[k][i]
<1>1. ASSUME HardInv, [Hard!Next]_Hard!vars
      PROVE  Kept
  <2>1. CASE UNCHANGED rows
    BY <2>1
  <2>2. ASSUME NEW r \in Requests, Hard!Upsert(r) \/ Hard!Delete(r), rows' # rows
        PROVE  Kept
    <3> DEFINE k == want[r].key
               i == seen[r]
               new == [value |-> want[r].value, revision |-> Hard!NextRevision(k, i),
                       status |-> "active"]
               list == Append(Hard!Supersede(k, i), new)
    <3>1. at[r] = "locked" /\ want[r].op \in {"upsert", "delete"} /\ k \in Keys
      BY <1>1, <2>2 DEF Hard!Upsert, Hard!Delete, HardInv, Hard!TypeOK, Hard!Wants
    <3>2. CASE want[r].op = "upsert"
      <4>1. rows' = [rows EXCEPT ![k] = list]
        BY <2>2, <3>2 DEF Hard!Upsert, Hard!Delete
      <4>2. i = Hard!ActiveRow(k) /\ want[r].value \in Values
        BY <1>1, <3>1, <3>2 DEF HardInv, ReadsHold, Hard!TypeOK, Hard!Wants
      <4> DEFINE revision == Hard!NextRevision(k, i)
      <4>. list = Append(Hard!Supersede(k, i),
                         [value |-> want[r].value, revision |-> revision, status |-> "active"])
        OBVIOUS
      <4> HIDE DEF list, k, i, revision
      <4>3. \A j \in DOMAIN rows[k] : rows[k][j].status # "active" => list[j] = rows[k][j]
        BY <1>1, <3>1, <4>2, UpsertWrites DEF revision
      <4>4. QED BY <1>1, <3>1, <4>1, <4>3 DEF HardInv, Hard!TypeOK
    <3>3. CASE want[r].op = "delete"
      <4>1. /\ want[r].index \in Hard!Active(k)
            /\ rows' = [rows EXCEPT ![k] = Deleted(k, want[r].index)]
        BY <2>2, <3>3 DEF Hard!Upsert, Hard!Delete, Deleted
      <4>2. \A j \in DOMAIN rows[k] :
              rows[k][j].status # "active" => Deleted(k, want[r].index)[j] = rows[k][j]
        BY <1>1, <3>1, <4>1, DeleteWrites
      <4> HIDE DEF k
      <4>3. QED BY <1>1, <3>1, <4>1, <4>2 DEF HardInv, Hard!TypeOK
    <3>4. QED BY <3>1, <3>2, <3>3
  <2>3. QED
    BY <1>1, <2>1, <2>2 DEF Hard!Next, Hard!vars, Hard!Reject, Hard!FindsNone, Hard!Create,
       Hard!Lock, Hard!List, Hard!Lose
<1>2. HardInv /\ [Hard!Next]_Hard!vars => [Kept]_Hard!vars
  BY <1>1
<1>3. QED BY <1>2, HardInvariant, PTL DEF Hard!Spec, GoneStaysGone, Hard!GoneStaysGone

-----------------------------------------------------------------------------
(* Consolidation. A job that is not completed has written nothing, and     *)
(* auto_activate was decided by the verdict a task ended with.             *)

\* How far the _consolidate_memory of a task has come.
JobFollowsReports ==
  \A t \in Tasks :
    /\ consolidating[t] # "idle" => state[t] # "VERIFYING"
    /\ consolidating[t] = "process" => job[t].status # "none"
    /\ job[t].status = "none" => job[t].attempt = 0
    /\ job[t].attempt <= Len(reports[t])
    /\ consolidating[t] # "idle" => job[t].attempt < Len(reports[t])

\* Only the success of a task makes its job activate what it writes.
AutoIsOfSuccess ==
  \A t \in Tasks :
    /\ auto[t] \/ job[t].auto => state[t] = "SUCCEEDED"
    /\ state[t] = "SUCCEEDED" =>
         reports[t] # <<>> /\ reports[t][Len(reports[t])] = "passed"

JobsInv ==
  /\ Jobs!TypeOK /\ JobFollowsReports /\ AutoIsOfSuccess
  /\ Jobs!JobAndMemoryAgree /\ Jobs!ActiveIsOfSuccess

LEMMA JobsInit ==
  ASSUME Jobs!BoundsAssumption, Jobs!Init
  PROVE  JobsInv
<1>1. Jobs!TypeOK
  BY DEF Jobs!BoundsAssumption, Jobs!Init, Jobs!TypeOK, Jobs!NoJob, Jobs!Job
<1>2. QED
  BY <1>1 DEF Jobs!Init, JobsInv, JobFollowsReports, AutoIsOfSuccess, Jobs!JobAndMemoryAgree,
              Jobs!ActiveIsOfSuccess, Jobs!NoJob

\* A step of one task that leaves its memory and its job alone keeps what they
\* have to agree on.
LEMMA VerifyKeeps ==
  ASSUME Jobs!BoundsAssumption, JobsInv, NEW t \in Tasks,
         NEW verdict \in {"passed", "failed", "needs_review"}, NEW target \in Jobs!Targets(verdict),
         Jobs!Verify(t, verdict, target)
  PROVE  JobsInv'
<1>1. /\ state[t] = "VERIFYING" /\ Len(reports[t]) < MaxReports
      /\ state' = [state EXCEPT ![t] = target]
      /\ reports' = [reports EXCEPT ![t] = Append(reports[t], verdict)]
      /\ consolidating' = [consolidating EXCEPT ![t] = "enqueue"]
      /\ auto' = [auto EXCEPT ![t] = (target = "SUCCEEDED")]
      /\ UNCHANGED <<job, memory, faults>>
  BY DEF Jobs!Verify
<1>2. /\ target \in {"BUDGET_EXCEEDED", "SUCCEEDED", "FAILED", "REPLANNING", "NEEDS_REVIEW"}
      /\ target = "SUCCEEDED" => verdict = "passed"
  BY DEF Jobs!Targets
<1> DEFINE new == Append(reports[t], verdict)
<1>3. /\ reports[t] \in Seq({"passed", "failed", "needs_review"})
      /\ new \in Seq({"passed", "failed", "needs_review"})
      /\ Len(new) = Len(reports[t]) + 1 /\ new[Len(new)] = verdict
      /\ new # <<>> /\ Len(reports[t]) \in Nat
  <2>1. reports[t] \in Seq({"passed", "failed", "needs_review"})
    BY DEF JobsInv, Jobs!TypeOK
  <2>2. QED BY <2>1
<1> HIDE DEF new
<1>4. /\ state'[t] = target /\ reports'[t] = new /\ consolidating'[t] = "enqueue"
      /\ auto'[t] = (target = "SUCCEEDED")
      /\ \A u \in Tasks \ {t} : /\ state'[u] = state[u] /\ reports'[u] = reports[u]
                                /\ consolidating'[u] = consolidating[u] /\ auto'[u] = auto[u]
  BY <1>1 DEF JobsInv, Jobs!TypeOK, new
<1>5. Jobs!TypeOK'
  BY <1>1, <1>2, <1>3, <1>4 DEF JobsInv, Jobs!TypeOK, Jobs!Terminal, new, Jobs!BoundsAssumption
<1>6. JobFollowsReports'
  <2>1. consolidating[t] = "idle" /\ job[t].attempt \in Nat
    BY <1>1 DEF JobsInv, JobFollowsReports, Jobs!TypeOK, Jobs!Job
  <2>2. job[t].attempt <= Len(reports[t])
    BY DEF JobsInv, JobFollowsReports
  <2>3. job[t].attempt <= Len(reports'[t]) /\ job[t].attempt < Len(reports'[t])
    BY <1>3, <1>4, <2>1, <2>2
  <2>4. QED BY <1>1, <1>2, <1>4, <2>3 DEF JobsInv, JobFollowsReports
<1>7. AutoIsOfSuccess'
  <2>1. auto'[t] \/ job'[t].auto => target = "SUCCEEDED"
    BY <1>1, <1>4 DEF JobsInv, AutoIsOfSuccess
  <2>2. \A u \in Tasks \ {t} : auto'[u] \/ job'[u].auto => auto[u] \/ job[u].auto
    BY <1>1, <1>4
  <2>3. QED BY <1>2, <1>3, <1>4, <2>1, <2>2 DEF JobsInv, AutoIsOfSuccess
<1>8. Jobs!JobAndMemoryAgree' /\ Jobs!ActiveIsOfSuccess'
  BY <1>1, <1>4 DEF JobsInv, Jobs!JobAndMemoryAgree, Jobs!ActiveIsOfSuccess
<1>9. QED BY <1>5, <1>6, <1>7, <1>8 DEF JobsInv

LEMMA ReplanKeeps ==
  ASSUME JobsInv, NEW t \in Tasks, Jobs!Replan(t)
  PROVE  JobsInv'
<1>1. /\ state[t] = "REPLANNING" /\ consolidating[t] = "idle"
      /\ state' = [state EXCEPT ![t] = "VERIFYING"]
      /\ UNCHANGED <<reports, consolidating, auto, job, memory, faults>>
  BY DEF Jobs!Replan
<1>2. state'[t] = "VERIFYING" /\ \A u \in Tasks \ {t} : state'[u] = state[u]
  BY <1>1 DEF JobsInv, Jobs!TypeOK
<1>3. Jobs!TypeOK'
  BY <1>1, <1>2 DEF JobsInv, Jobs!TypeOK
<1>4. JobFollowsReports' /\ AutoIsOfSuccess'
  BY <1>1, <1>2 DEF JobsInv, JobFollowsReports, AutoIsOfSuccess
<1>5. Jobs!JobAndMemoryAgree' /\ Jobs!ActiveIsOfSuccess'
  BY <1>1, <1>2 DEF JobsInv, Jobs!JobAndMemoryAgree, Jobs!ActiveIsOfSuccess
<1>6. QED BY <1>3, <1>4, <1>5 DEF JobsInv

LEMMA EnqueueKeeps ==
  ASSUME Jobs!BoundsAssumption, JobsInv, NEW t \in Tasks, Jobs!Enqueue(t)
  PROVE  JobsInv'
<1> DEFINE new == [status |-> "pending", attempt |-> 0, auto |-> auto[t]]
<1>1. /\ consolidating[t] = "enqueue"
      /\ job' = IF job[t].status # "none" THEN job ELSE [job EXCEPT ![t] = new]
      /\ consolidating' = [consolidating EXCEPT ![t] = "process"]
      /\ UNCHANGED <<state, reports, auto, memory, faults>>
  BY DEF Jobs!Enqueue
<1>2. /\ consolidating'[t] = "process"
      /\ \A u \in Tasks \ {t} : consolidating'[u] = consolidating[u] /\ job'[u] = job[u]
      /\ job'[t] = job[t] \/ (job[t].status = "none" /\ job'[t] = new)
      /\ job'[t].status # "none" /\ job'[t].attempt = job[t].attempt
  <2>1. job \in [Tasks -> Jobs!Job] /\ job[t].status = "none" => job[t].attempt = 0
    BY DEF JobsInv, JobFollowsReports, Jobs!TypeOK
  <2>2. QED BY <1>1, <2>1 DEF JobsInv, Jobs!TypeOK
<1>3. Jobs!TypeOK'
  <2>1. new \in Jobs!Job
    BY DEF JobsInv, Jobs!TypeOK, Jobs!BoundsAssumption, Jobs!Job
  <2>2. QED BY <1>1, <1>2, <2>1 DEF JobsInv, Jobs!TypeOK
<1>4. JobFollowsReports' /\ AutoIsOfSuccess'
  BY <1>1, <1>2 DEF JobsInv, JobFollowsReports, AutoIsOfSuccess
<1>5. Jobs!JobAndMemoryAgree' /\ Jobs!ActiveIsOfSuccess'
  BY <1>1, <1>2 DEF JobsInv, Jobs!JobAndMemoryAgree, Jobs!ActiveIsOfSuccess
<1>6. QED BY <1>3, <1>4, <1>5 DEF JobsInv

\* One transaction writes the memory and completes the job.
LEMMA ProcessKeeps ==
  ASSUME Jobs!BoundsAssumption, JobsInv, NEW t \in Tasks, Jobs!Process(t)
  PROVE  JobsInv'
<1> DEFINE new == Jobs!NewMemory(t)
           ended == [job[t] EXCEPT !.status = "completed", !.attempt = job[t].attempt + 1]
<1>1. /\ consolidating[t] = "process" /\ consolidating' = [consolidating EXCEPT ![t] = "idle"]
      /\ UNCHANGED <<state, reports, auto, faults>>
  BY DEF Jobs!Process
<1>2. /\ reports[t] \in Seq({"passed", "failed", "needs_review"}) /\ reports[t] # <<>>
      /\ Len(reports[t]) \in 1 .. MaxReports /\ job[t] \in Jobs!Job
      /\ memory[t] \in Seq(Jobs!Memory) /\ job[t].attempt < Len(reports[t])
  <2>1. /\ reports[t] \in Seq({"passed", "failed", "needs_review"}) /\ reports[t] # <<>>
        /\ Len(reports[t]) <= MaxReports
    BY <1>1 DEF JobsInv, Jobs!TypeOK
  <2>2. /\ job[t] \in Jobs!Job /\ memory[t] \in Seq(Jobs!Memory)
        /\ job[t].attempt < Len(reports[t])
    BY <1>1 DEF JobsInv, Jobs!TypeOK, JobFollowsReports
  <2>3. QED BY <2>1, <2>2 DEF Jobs!BoundsAssumption
<1>3. CASE job[t].status = "completed"
  <2>1. UNCHANGED <<job, memory>>
    BY <1>3 DEF Jobs!Process
  <2>2. QED
    BY <1>1, <2>1 DEF JobsInv, Jobs!TypeOK, JobFollowsReports, AutoIsOfSuccess,
       Jobs!JobAndMemoryAgree, Jobs!ActiveIsOfSuccess
<1>4. CASE job[t].status # "completed"
  <2>1. memory[t] = <<>>
    BY <1>2, <1>4 DEF JobsInv, Jobs!JobAndMemoryAgree
  <2>2. memory' = [memory EXCEPT ![t] = Append(memory[t], new)]
    BY <1>4, <2>1 DEF Jobs!Process, Jobs!Consolidate
  <2>3. job' = [job EXCEPT ![t] = ended]
    BY <1>4 DEF Jobs!Process
  <2>4. /\ new \in Jobs!Memory /\ new.report = Len(reports[t]) /\ ~new.edited
        /\ new.status = "active" => job[t].auto
    <3>1. Len(reports[t]) \in 1 .. MaxReports /\ 0 \in 0 .. MaxReports /\ 1 \in 0 .. MaxReports
      BY <1>2 DEF Jobs!BoundsAssumption
    <3>2. QED BY <3>1 DEF Jobs!NewMemory, Jobs!Memory, Jobs!Statuses
  <2>5. ended \in Jobs!Job /\ ended.status = "completed" /\ ended.auto = job[t].auto
        /\ ended.attempt = job[t].attempt + 1 /\ job[t].attempt \in Nat
    <3>1. job[t].attempt \in Nat /\ job[t].attempt + 1 \in 0 .. MaxReports
      BY <1>2 DEF Jobs!Job, Jobs!BoundsAssumption
    <3>2. QED BY <1>2, <3>1 DEF Jobs!Job
  <2> HIDE DEF new, ended
  <2>6. memory'[t] = <<new>> /\ memory'[t] \in Seq(Jobs!Memory)
    BY <2>1, <2>2, <2>4 DEF JobsInv, Jobs!TypeOK
  <2>7. /\ job'[t] = ended /\ consolidating'[t] = "idle"
        /\ \A u \in Tasks \ {t} : /\ memory'[u] = memory[u] /\ job'[u] = job[u]
                                  /\ consolidating'[u] = consolidating[u]
    BY <1>1, <2>2, <2>3 DEF JobsInv, Jobs!TypeOK
  <2>8. Jobs!TypeOK'
    BY <1>1, <2>2, <2>3, <2>5, <2>6, <2>7 DEF JobsInv, Jobs!TypeOK
  <2>9. JobFollowsReports'
    <3>1. job'[t].attempt <= Len(reports[t])
      BY <1>2, <2>5, <2>7
    <3>2. QED BY <1>1, <2>5, <2>7, <3>1 DEF JobsInv, JobFollowsReports
  <2>10. AutoIsOfSuccess'
    BY <1>1, <2>5, <2>7 DEF JobsInv, AutoIsOfSuccess
  <2>11. Jobs!JobAndMemoryAgree'
    <3>1. Len(memory'[t]) <= 1 /\ memory'[t] # <<>>
      BY <2>6
    <3>2. job'[t].status = "completed"
      BY <2>5, <2>7
    <3>3. \A u \in Tasks \ {t} :
            /\ Len(memory'[u]) <= 1
            /\ memory'[u] # <<>> <=> job'[u].status = "completed"
      BY <2>7 DEF JobsInv, Jobs!JobAndMemoryAgree
    <3>4. QED BY <3>1, <3>2, <3>3 DEF Jobs!JobAndMemoryAgree
  <2>12. Jobs!ActiveIsOfSuccess'
    <3>1. \A i \in DOMAIN memory'[t] : memory'[t][i] = new
      BY <2>6
    <3>2. new.status = "active" => state[t] = "SUCCEEDED" /\ reports[t][Len(reports[t])] = "passed"
      BY <2>4 DEF JobsInv, AutoIsOfSuccess
    <3>3. QED BY <1>1, <2>4, <2>7, <3>1, <3>2 DEF JobsInv, Jobs!ActiveIsOfSuccess
  <2>13. QED BY <2>8, <2>9, <2>10, <2>11, <2>12 DEF JobsInv
<1>5. QED BY <1>3, <1>4

LEMMA ProcessFailsKeeps ==
  ASSUME Jobs!BoundsAssumption, JobsInv, NEW t \in Tasks, Jobs!ProcessFails(t)
  PROVE  JobsInv'
<1> DEFINE ended == [job[t] EXCEPT !.status = "failed", !.attempt = job[t].attempt + 1]
<1>1. /\ consolidating[t] = "process" /\ job[t].status # "completed" /\ faults < MaxFaults
      /\ job' = [job EXCEPT ![t] = ended] /\ faults' = faults + 1
      /\ consolidating' = [consolidating EXCEPT ![t] = "idle"]
      /\ UNCHANGED <<state, reports, auto, memory>>
  BY DEF Jobs!ProcessFails
<1>2. /\ Len(reports[t]) \in Nat /\ Len(reports[t]) <= MaxReports
      /\ job[t] \in Jobs!Job /\ job[t].attempt < Len(reports[t])
  BY <1>1 DEF JobsInv, Jobs!TypeOK, JobFollowsReports
<1>3. /\ ended \in Jobs!Job /\ ended.status = "failed" /\ ended.auto = job[t].auto
      /\ ended.attempt <= Len(reports[t])
  <2>1. /\ job[t].attempt + 1 \in 0 .. MaxReports
        /\ job[t].attempt + 1 <= Len(reports[t])
    BY <1>2 DEF Jobs!Job, Jobs!BoundsAssumption
  <2>2. QED BY <1>2, <2>1 DEF Jobs!Job
<1> HIDE DEF ended
<1>4. /\ job'[t] = ended /\ consolidating'[t] = "idle"
      /\ \A u \in Tasks \ {t} : job'[u] = job[u] /\ consolidating'[u] = consolidating[u]
  BY <1>1 DEF JobsInv, Jobs!TypeOK
<1>5. faults' \in 0 .. MaxFaults
  BY <1>1 DEF JobsInv, Jobs!TypeOK, Jobs!BoundsAssumption
<1>6. Jobs!TypeOK'
  BY <1>1, <1>3, <1>4, <1>5 DEF JobsInv, Jobs!TypeOK
<1>7. JobFollowsReports' /\ AutoIsOfSuccess'
  BY <1>1, <1>3, <1>4 DEF JobsInv, JobFollowsReports, AutoIsOfSuccess
<1>8. Jobs!JobAndMemoryAgree' /\ Jobs!ActiveIsOfSuccess'
  BY <1>1, <1>3, <1>4 DEF JobsInv, Jobs!JobAndMemoryAgree, Jobs!ActiveIsOfSuccess
<1>9. QED BY <1>6, <1>7, <1>8 DEF JobsInv

\* A rolled back transaction or a lost process only ends calls.
LEMMA EndCallsKeeps ==
  ASSUME Jobs!BoundsAssumption, JobsInv, faults < MaxFaults, faults' = faults + 1,
         consolidating' \in [Tasks -> {"idle", "enqueue", "process"}],
         \A t \in Tasks : consolidating'[t] \in {"idle", consolidating[t]},
         UNCHANGED <<state, reports, auto, job, memory>>
  PROVE  JobsInv'
<1>1. faults' \in 0 .. MaxFaults
  BY DEF JobsInv, Jobs!TypeOK, Jobs!BoundsAssumption
<1>2. Jobs!TypeOK'
  BY <1>1 DEF JobsInv, Jobs!TypeOK
<1>3. JobFollowsReports' /\ AutoIsOfSuccess'
  BY DEF JobsInv, JobFollowsReports, AutoIsOfSuccess
<1>4. Jobs!JobAndMemoryAgree' /\ Jobs!ActiveIsOfSuccess'
  BY DEF JobsInv, Jobs!JobAndMemoryAgree, Jobs!ActiveIsOfSuccess
<1>5. QED BY <1>2, <1>3, <1>4 DEF JobsInv

LEMMA SetStatusKeeps ==
  ASSUME JobsInv, NEW t \in Tasks, NEW i \in DOMAIN memory[t],
         NEW status \in {"active", "rejected", "deleted"}, Jobs!SetStatus(t, i, status)
  PROVE  JobsInv'
<1> DEFINE new == [memory[t][i] EXCEPT !.status = status, !.edited = TRUE]
           list == [memory[t] EXCEPT ![i] = new]
<1>1. /\ memory' = [memory EXCEPT ![t] = list]
      /\ UNCHANGED <<state, reports, consolidating, auto, job, faults>>
  BY DEF Jobs!SetStatus
<1>2. memory[t] \in Seq(Jobs!Memory) /\ Len(memory[t]) \in Nat
  BY DEF JobsInv, Jobs!TypeOK
<1>3. memory[t][i] \in Jobs!Memory
  BY <1>2
<1>4. new \in Jobs!Memory /\ new.edited
  BY <1>3 DEF Jobs!Memory, Jobs!Statuses
<1> HIDE DEF new
<1>5. /\ list \in Seq(Jobs!Memory) /\ Len(list) = Len(memory[t])
      /\ list[i] = new /\ \A j \in DOMAIN list \ {i} : list[j] = memory[t][j]
      /\ DOMAIN list = DOMAIN memory[t]
  BY <1>2, <1>4, ExceptSeq
<1> HIDE DEF list
<1>6. memory'[t] = list /\ \A u \in Tasks \ {t} : memory'[u] = memory[u]
  BY <1>1 DEF JobsInv, Jobs!TypeOK
<1>7. Jobs!TypeOK'
  BY <1>1, <1>5 DEF JobsInv, Jobs!TypeOK
<1>8. JobFollowsReports' /\ AutoIsOfSuccess'
  BY <1>1 DEF JobsInv, JobFollowsReports, AutoIsOfSuccess
<1>9. Jobs!JobAndMemoryAgree'
  <2>1. (list = <<>>) <=> (memory[t] = <<>>)
    BY <1>2, <1>5
  <2>2. QED BY <1>1, <1>5, <1>6, <2>1 DEF JobsInv, Jobs!JobAndMemoryAgree
<1>10. Jobs!ActiveIsOfSuccess'
  BY <1>1, <1>4, <1>5, <1>6 DEF JobsInv, Jobs!ActiveIsOfSuccess
<1>11. QED BY <1>7, <1>8, <1>9, <1>10 DEF JobsInv

LEMMA JobsNext ==
  ASSUME Jobs!BoundsAssumption, JobsInv, [Jobs!Next]_Jobs!vars
  PROVE  JobsInv'
<1>1. CASE UNCHANGED Jobs!vars
  BY <1>1 DEF Jobs!vars, JobsInv, Jobs!TypeOK, JobFollowsReports, AutoIsOfSuccess,
     Jobs!JobAndMemoryAgree, Jobs!ActiveIsOfSuccess
<1>2. ASSUME NEW t \in Tasks, Jobs!TransactionFails(t)
      PROVE  JobsInv'
  BY <1>2, EndCallsKeeps DEF Jobs!TransactionFails, JobsInv, Jobs!TypeOK
<1>3. CASE Jobs!Crash
  BY <1>3, EndCallsKeeps DEF Jobs!Crash
<1>4. QED
  BY <1>1, <1>2, <1>3, VerifyKeeps, ReplanKeeps, EnqueueKeeps, ProcessKeeps, ProcessFailsKeeps,
     SetStatusKeeps DEF Jobs!Next

\* However often a task is verified, whatever fails or crashes in between and
\* whatever users do with its memories, it has at most one, made with its job,
\* and only the report it succeeded with activates it (MemoriesAreOfSuccess of
\* the run work, over _consolidate_memory and consolidation.py).
THEOREM MemoriesCorrect ==
  ASSUME Jobs!BoundsAssumption
  PROVE  Jobs!Spec => []MemoriesAreOfSuccess
<1>1. JobsInv => MemoriesAreOfSuccess
  BY DEF JobsInv, MemoriesAreOfSuccess, Jobs!MemoriesAreOfSuccess
<1>2. QED BY <1>1, JobsInit, JobsNext, PTL DEF Jobs!Spec

-----------------------------------------------------------------------------
(* Tools. What a run is offered follows from what it was started as.       *)

LimitOfChild(agent) == IF agent \in Access!Executes THEN 2 ELSE 0

OfferedByKind ==
  CASE run.kind = "none"    -> ~Access!Ran
    [] run.kind = "plain"   -> \A t \in offered : Access!Risk[t] <= 0
    [] run.kind = "skilled" ->
         offered = Access!Bound(run.agent, Access!EffectiveTools(run.skill, run.agent), 0)
    [] OTHER                ->
         offered = Access!Bound(run.agent, Access!ChildTools(run.agent), LimitOfChild(run.agent))

AccessInv == Access!TypeOK /\ OfferedByKind

LEMMA AccessInit ==
  ASSUME Access!Init
  PROVE  AccessInv
<1>1. run.kind = "none" /\ ~Access!Ran /\ offered = {}
  BY DEF Access!Init, Access!Ran
<1>2. Access!TypeOK
  BY <1>1 DEF Access!Init, Access!TypeOK, Access!Tools, Access!Agents
<1>3. OfferedByKind
  BY <1>1 DEF OfferedByKind
<1>4. QED BY <1>2, <1>3 DEF AccessInv

\* A run is started once, and no tool has run before it.
LEMMA StartTypes ==
  ASSUME AccessInv, NEW kind \in {"plain", "skilled"} \cup Access!Child,
         NEW agent \in Access!Agents, NEW skill \in Access!Manifests \cup {Access!NoSkill},
         NEW allowed, NEW limit, NEW place \in {"project", "worktree"},
         Access!Starts(kind, agent, skill, allowed, limit, place)
  PROVE  /\ Access!TypeOK' /\ run'.kind = kind /\ run'.agent = agent /\ run'.skill = skill
         /\ offered' = Access!Bound(agent, allowed, limit)'
         /\ UNCHANGED <<enabled, registry, last>>
<1>1. /\ run' = [kind |-> kind, agent |-> agent, skill |-> skill, place |-> place]
      /\ offered' = Access!Bound(agent, allowed, limit)
      /\ UNCHANGED <<enabled, registry, last>> /\ run.kind = "none"
  BY DEF Access!Starts
<1>2. ~Access!Ran /\ enabled \subseteq Access!WorkspaceTools /\ registry \subseteq Access!Tools
  BY <1>1 DEF AccessInv, OfferedByKind, Access!TypeOK
<1>3. Access!Bound(agent, allowed, limit) \subseteq registry
  BY DEF Access!Bound, Access!ModelTools
<1>4. Access!Bound(agent, allowed, limit)' = Access!Bound(agent, allowed, limit)
  BY <1>1 DEF Access!Bound, Access!ModelTools, Access!AllowedOf
<1>5. run' \in [kind : {"none", "plain", "skilled"} \cup Access!Child, agent : Access!Agents,
                skill : Access!Manifests \cup {Access!NoSkill}, place : {"project", "worktree"}]
  BY <1>1
<1>6. Access!TypeOK'
  BY <1>1, <1>2, <1>3, <1>5 DEF Access!TypeOK, Access!Ran
<1>7. QED BY <1>1, <1>4, <1>6

LEMMA AccessNext ==
  ASSUME AccessInv, [Access!Next]_Access!vars
  PROVE  AccessInv'
<1>1. CASE UNCHANGED Access!vars
  BY <1>1 DEF Access!vars, AccessInv, OfferedByKind, Access!TypeOK, Access!Ran, Access!Bound,
     Access!ModelTools, Access!AllowedOf, Access!EffectiveTools, Access!ChildTools
<1>2. ASSUME NEW agent \in Access!Agents, Access!StartPlain(agent)
      PROVE  AccessInv'
  <2>1. /\ Access!TypeOK' /\ run'.kind = "plain"
        /\ offered' = Access!Bound(agent, {}, 0)'
    BY <1>2, StartTypes DEF Access!StartPlain
  <2>2. \A t \in offered' : Access!Risk[t] <= 0
    BY <2>1 DEF Access!Bound, Access!ModelTools
  <2>3. QED BY <2>1, <2>2 DEF AccessInv, OfferedByKind
<1>3. ASSUME NEW agent \in Access!Agents, NEW skill \in Access!Manifests,
             Access!StartSkilled(agent, skill)
      PROVE  AccessInv'
  <2> DEFINE allowed == Access!EffectiveTools(skill, agent)
  <2>1. Access!Starts("skilled", agent, skill, allowed, 0, "project")
    BY <1>3 DEF Access!StartSkilled
  <2> HIDE DEF allowed
  <2>2. PICK tools : tools = allowed
    OBVIOUS
  <2>3. /\ Access!TypeOK' /\ run'.kind = "skilled" /\ run'.agent = agent /\ run'.skill = skill
        /\ offered' = Access!Bound(agent, tools, 0)' /\ enabled' = enabled
    BY <2>1, <2>2, StartTypes
  <2>4. tools = Access!EffectiveTools(skill, agent)'
    BY <2>2, <2>3 DEF allowed, Access!EffectiveTools, Access!AllowedOf
  <2>5. offered' = Access!Bound(run.agent, Access!EffectiveTools(run.skill, run.agent), 0)'
    BY <2>3, <2>4 DEF Access!Bound, Access!ModelTools, Access!AllowedOf, Access!EffectiveTools
  <2>6. QED BY <2>3, <2>5 DEF AccessInv, OfferedByKind
<1>4. ASSUME NEW agent \in Access!Agents, NEW parent \in {"chat", "task"},
             Access!StartChild(agent, parent)
      PROVE  AccessInv'
  <2> DEFINE allowed == Access!ChildTools(agent)
             kind == IF parent = "chat" THEN "chat child" ELSE "task child"
             limit == LimitOfChild(agent)
  <2>1. kind \in Access!Child /\ Access!PlaceOfChild(parent) \in {"project", "worktree"}
    BY DEF Access!Child, Access!PlaceOfChild
  <2>2. Access!Starts(kind, agent, Access!NoSkill, allowed, limit, Access!PlaceOfChild(parent))
    BY <1>4 DEF Access!StartChild, LimitOfChild
  <2>3. PICK k : k = kind
    OBVIOUS
  <2> HIDE DEF allowed, kind
  <2>4. PICK tools : tools = allowed
    OBVIOUS
  <2>5. PICK n : n = limit
    OBVIOUS
  <2> HIDE DEF limit
  <2>6. /\ Access!TypeOK' /\ run'.kind = k /\ run'.agent = agent
        /\ offered' = Access!Bound(agent, tools, n)' /\ enabled' = enabled
    BY <2>1, <2>2, <2>3, <2>4, <2>5, StartTypes
  <2>7. tools = Access!ChildTools(agent)' /\ n = LimitOfChild(agent)
    BY <2>4, <2>5, <2>6 DEF allowed, limit, Access!ChildTools, Access!AllowedOf
  <2>8. offered' = Access!Bound(run.agent, Access!ChildTools(run.agent), LimitOfChild(run.agent))'
    BY <2>6, <2>7 DEF Access!Bound, Access!ModelTools, Access!AllowedOf, Access!ChildTools, LimitOfChild
  <2>9. run'.kind \in Access!Child
    BY <2>1, <2>3, <2>6
  <2>10. QED BY <2>6, <2>8, <2>9 DEF AccessInv, OfferedByKind, Access!Child
<1>5. ASSUME NEW tool, Access!Call(tool)
      PROVE  AccessInv'
  <2>1. /\ UNCHANGED <<enabled, registry, run, offered>> /\ run.kind # "none"
        /\ last'.tool = tool /\ (last'.outcome = "ran" => tool \in offered)
    BY <1>5 DEF Access!Call
  <2>2. Access!TypeOK'
    BY <2>1 DEF AccessInv, Access!TypeOK, Access!Ran
  <2>3. OfferedByKind'
    BY <2>1 DEF AccessInv, OfferedByKind, Access!Bound, Access!ModelTools, Access!AllowedOf,
       Access!EffectiveTools, Access!ChildTools
  <2>4. QED BY <2>2, <2>3 DEF AccessInv
<1>6. QED BY <1>1, <1>2, <1>3, <1>4, <1>5 DEF Access!Next

LEMMA InvNarrows ==
  ASSUME AccessInv
  PROVE  Access!AccessNarrows
<1> DEFINE t == last.tool
<1>1. Access!Ran => t \in offered
  BY DEF AccessInv, Access!TypeOK
<1>2. run.kind \in {"none", "plain", "skilled"} \cup Access!Child
  BY DEF AccessInv, Access!TypeOK
<1>3. run.kind = "none" => ~Access!Ran
  BY DEF AccessInv, OfferedByKind
<1>4. CASE run.kind = "plain"
  <2>1. Access!Ran => Access!Risk[t] <= 0
    BY <1>1, <1>4 DEF AccessInv, OfferedByKind
  <2>2. offered \subseteq Access!Tools
    BY DEF AccessInv, Access!TypeOK
  <2>3. Access!Ran => Access!Risk[t] \in 0 .. 2
    BY <1>1, <2>2 DEF Access!Risk
  <2>4. QED BY <1>4, <2>1, <2>3 DEF AccessInv, Access!AccessNarrows, Access!SkillNarrows,
                  Access!OnlyWorkersWrite, Access!ChildrenDoNotFanOut, Access!Child
<1>5. CASE run.kind = "skilled"
  <2> DEFINE both == Access!EffectiveTools(run.skill, run.agent)
  <2>1. offered = Access!Bound(run.agent, both, 0)
    BY <1>5 DEF AccessInv, OfferedByKind
  <2>2. Access!Ran => /\ t \in (IF both = {} THEN Access!AllowedOf(run.agent) ELSE both)
                      /\ t \in registry /\ Access!Risk[t] <= 0
    BY <1>1, <2>1 DEF Access!Bound, Access!ModelTools
  <2>3. both = (Access!AllowedOf(run.agent) \cap run.skill.allowed) \ run.skill.denied
    BY DEF Access!EffectiveTools
  <2>4. Access!SkillNarrows
    BY <2>2, <2>3 DEF Access!SkillNarrows
  <2>5. Access!Ran => Access!Risk[t] \in 0 .. 2
    BY <2>2 DEF Access!Risk, AccessInv, Access!TypeOK
  <2>6. QED BY <1>5, <2>2, <2>4, <2>5 DEF AccessInv, Access!AccessNarrows,
                  Access!OnlyWorkersWrite, Access!ChildrenDoNotFanOut, Access!Child
<1>6. CASE run.kind \in Access!Child
  <2> DEFINE tools == Access!ChildTools(run.agent)
  <2>1. offered = Access!Bound(run.agent, tools, LimitOfChild(run.agent))
    BY <1>6 DEF AccessInv, OfferedByKind, Access!Child
  <2>2. "contact_supervisor" \in tools
    BY DEF Access!ChildTools, Access!AllowedOf, Access!InboxTools
  <2>3. Access!Ran => /\ t \in tools /\ t \in registry
                      /\ Access!Risk[t] <= LimitOfChild(run.agent)
    BY <1>1, <2>1, <2>2 DEF Access!Bound, Access!ModelTools
  <2>4. Access!ChildrenDoNotFanOut
    BY <2>3 DEF Access!ChildrenDoNotFanOut, Access!ChildTools
  <2>5. Access!Ran => Access!Risk[t] \in 0 .. 2
    BY <2>3 DEF Access!Risk, AccessInv, Access!TypeOK
  <2>6. Access!OnlyWorkersWrite
    BY <1>6, <2>3, <2>5 DEF Access!OnlyWorkersWrite, LimitOfChild, Access!Executes
  <2>7. QED BY <1>6, <2>4, <2>6 DEF AccessInv, Access!AccessNarrows, Access!SkillNarrows, Access!Child
<1>7. CASE run.kind = "none"
  BY <1>3, <1>7 DEF AccessInv, Access!AccessNarrows, Access!SkillNarrows, Access!OnlyWorkersWrite,
     Access!ChildrenDoNotFanOut, Access!Child
<1>8. QED BY <1>2, <1>4, <1>5, <1>6, <1>7

\* For every setting, registry and manifest, and any tool a model calls, a skill
\* only narrows, only workers that are children write files, and children start
\* no children (AccessNarrows of the run work, over agents/definitions.py,
\* skills/registry.py, tools/agent_binding.py and tools/runtime.py).
THEOREM AccessNarrowed == Access!Spec => []AccessNarrows
BY AccessInit, AccessNext, InvNarrows, PTL DEF Access!Spec, AccessNarrows

-----------------------------------------------------------------------------
(* Sums. Sum is what the fold of Bytes computes, for the sizes of any      *)
(* texts: its recursive function exists for a finite set, and the order in *)
(* which it takes the elements makes no difference.                        *)

Sum(texts, paths) == Files!MapThenSumSet(LAMBDA p : texts[p].size, paths)

\* Induction over the natural numbers, for a set of them.
LEMMA NaturalsFrom ==
  ASSUME NEW I \in SUBSET Nat, 0 \in I, \A n \in I : n + 1 \in I
  PROVE  I = Nat
<1> DEFINE rest == Nat \ I
           less == {ss \in Nat \X Nat : ss[1] < ss[2]}
<1> SUFFICES ASSUME rest # {}
             PROVE  FALSE
  OBVIOUS
<1>1. IsWellFoundedOn(less, Nat)
  BY NatLessThanWellFounded DEF OpToRel
<1>2. PICK m \in rest : \A n \in rest : <<n, m>> \notin less
  BY <1>1, WFMin
<1>3. m \in Nat /\ m # 0 /\ m - 1 \in Nat /\ <<m - 1, m>> \in less
  OBVIOUS
<1>4. m - 1 \in I
  BY <1>2, <1>3
<1>5. m \in I
  BY <1>3, <1>4
<1>6. QED BY <1>5

\* One equation per set, as the fold has it.
First(s) == CHOOSE x \in s : TRUE

Sums(texts, sets, g) ==
  g = [s \in sets |-> IF s = {} THEN 0 ELSE texts[First(s)].size + g[s \ {First(s)}]]

SumsOf(texts, paths) == CHOOSE g : Sums(texts, SUBSET paths, g)

LEMMA FirstIs ==
  ASSUME NEW s, s # {}
  PROVE  First(s) \in s
BY DEF First

LEMMA SumUnfolds ==
  ASSUME NEW texts, NEW T
  PROVE  Sum(texts, T) = SumsOf(texts, T)[T]
BY DEF Sum, SumsOf, Sums, First, Files!MapThenSumSet, Files!MapThenFoldSet


LEMMA SumsOfAre ==
  ASSUME NEW texts, NEW S, IsFiniteSet(S)
  PROVE  Sums(texts, SUBSET S, SumsOf(texts, S))
<1> DEFINE Within(n) == {s \in SUBSET S : Cardinality(s) <= n}
           I == {n \in Nat : \E g : Sums(texts, Within(n), g)}
<1>1. \A s \in SUBSET S : IsFiniteSet(s) /\ Cardinality(s) \in Nat
  BY FS_Subset, FS_CardinalityType
<1>2. \A s \in SUBSET S : s # {} =>
        /\ s \ {First(s)} \in SUBSET S /\ Cardinality(s \ {First(s)}) = Cardinality(s) - 1
  <2> SUFFICES ASSUME NEW s \in SUBSET S, s # {}
               PROVE  s \ {First(s)} \in SUBSET S /\ Cardinality(s \ {First(s)}) = Cardinality(s) - 1
    OBVIOUS
  <2>1. First(s) \in s /\ IsFiniteSet(s)
    BY <1>1, FirstIs
  <2>2. QED BY <2>1, FS_RemoveElement
<1>3. \A s \in SUBSET S : s # {} => Cardinality(s) > 0
  <2> SUFFICES ASSUME NEW s \in SUBSET S, s # {}
               PROVE  Cardinality(s) > 0
    OBVIOUS
  <2>1. Cardinality(s) \in Nat /\ IsFiniteSet(s)
    BY <1>1
  <2>2. Cardinality(s) # 0
    BY <2>1, FS_EmptySet
  <2>3. QED BY <2>1, <2>2
<1>4. 0 \in I
  <2> DEFINE g == [s \in Within(0) |-> 0]
  <2>1. \A s \in Within(0) : s = {}
    BY <1>1, <1>3
  <2>2. Sums(texts, Within(0), g)
    BY <2>1 DEF Sums
  <2>3. QED BY <2>2
<1>5. ASSUME NEW n \in I
      PROVE  n + 1 \in I
  <2>1. PICK g : Sums(texts, Within(n), g)
    OBVIOUS
  <2> DEFINE h == [s \in Within(n + 1) |-> IF s = {} THEN 0 ELSE texts[First(s)].size + g[s \ {First(s)}]]
  <2>2. n \in Nat /\ Within(n) \subseteq Within(n + 1)
    BY <1>1
  <2>3. \A s \in Within(n + 1) : s # {} => s \ {First(s)} \in Within(n)
    BY <1>1, <1>2, <2>2
  <2>4. \A s \in Within(n) : h[s] = g[s]
    <3> SUFFICES ASSUME NEW s \in Within(n)
                 PROVE  h[s] = g[s]
      OBVIOUS
    <3> HIDE DEF Within
    <3>1. g[s] = IF s = {} THEN 0 ELSE texts[First(s)].size + g[s \ {First(s)}]
      BY <2>1 DEF Sums
    <3>2. s \in Within(n + 1)
      BY <2>2
    <3>3. QED BY <3>1, <3>2
  <2> HIDE DEF Within
  <2>5. h = [s \in Within(n + 1) |-> IF s = {} THEN 0 ELSE texts[First(s)].size + h[s \ {First(s)}]]
    BY <2>3, <2>4
  <2>6. Sums(texts, Within(n + 1), h)
    BY <2>5 DEF Sums
  <2>7. QED BY <2>2, <2>6
<1>6. I = Nat
  <2>1. I \in SUBSET Nat
    OBVIOUS
  <2> HIDE DEF I
  <2>2. QED BY <1>4, <1>5, <2>1, NaturalsFrom
<1>7. Cardinality(S) \in I
  BY <1>1, <1>6
<1>8. PICK g : Sums(texts, Within(Cardinality(S)), g)
  BY <1>7
<1>9. Within(Cardinality(S)) = SUBSET S
  <2>1. \A s \in SUBSET S : Cardinality(s) <= Cardinality(S)
    BY FS_Subset
  <2>2. QED BY <2>1
<1>10. Sums(texts, SUBSET S, g)
  BY <1>8, <1>9
<1>11. QED BY <1>10 DEF SumsOf

\* What the function of a set has for one of its subsets is the sum of that.
LEMMA SumsAgree ==
  ASSUME NEW texts, NEW S, IsFiniteSet(S)
  PROVE  \A T \in SUBSET S : SumsOf(texts, S)[T] = Sum(texts, T)
<1> DEFINE g == SumsOf(texts, S)
           I == {n \in Nat : \A T \in SUBSET S : \A s \in SUBSET T : Cardinality(s) <= n =>
                               g[s] = SumsOf(texts, T)[s]}
<1>1. Sums(texts, SUBSET S, g) /\ \A T \in SUBSET S : Sums(texts, SUBSET T, SumsOf(texts, T))
  BY SumsOfAre, FS_Subset
<1>2. \A s \in SUBSET S : IsFiniteSet(s) /\ Cardinality(s) \in Nat
  BY FS_Subset, FS_CardinalityType
<1>3. \A s \in SUBSET S : s # {} =>
        /\ s \ {First(s)} \in SUBSET s
        /\ Cardinality(s \ {First(s)}) = Cardinality(s) - 1
  <2> SUFFICES ASSUME NEW s \in SUBSET S, s # {}
               PROVE  Cardinality(s \ {First(s)}) = Cardinality(s) - 1
    OBVIOUS
  <2>1. First(s) \in s /\ IsFiniteSet(s)
    BY <1>2, FirstIs
  <2>2. QED BY <2>1, FS_RemoveElement
<1>4. ASSUME NEW T \in SUBSET S, NEW s \in SUBSET T,
             s # {} => g[s \ {First(s)}] = SumsOf(texts, T)[s \ {First(s)}]
      PROVE  g[s] = SumsOf(texts, T)[s]
  <2> DEFINE t == SumsOf(texts, T)
  <2>1. s \in SUBSET S
    OBVIOUS
  <2>2. g[s] = IF s = {} THEN 0 ELSE texts[First(s)].size + g[s \ {First(s)}]
    BY <1>1, <2>1 DEF Sums
  <2>3. t[s] = IF s = {} THEN 0 ELSE texts[First(s)].size + t[s \ {First(s)}]
    <3>1. Sums(texts, SUBSET T, t)
      BY <1>1
    <3> HIDE DEF t
    <3>2. QED BY <3>1 DEF Sums
  <2>4. QED BY <1>4, <2>2, <2>3
<1>5. 0 \in I
  <2> SUFFICES ASSUME NEW T \in SUBSET S, NEW s \in SUBSET T, Cardinality(s) <= 0
               PROVE  g[s] = SumsOf(texts, T)[s]
    OBVIOUS
  <2>1. s = {}
    <3>1. s \in SUBSET S
      OBVIOUS
    <3>2. Cardinality(s) \in Nat /\ IsFiniteSet(s)
      BY <1>2, <3>1
    <3>3. QED BY <3>2, FS_EmptySet
  <2>2. QED BY <1>4, <2>1
<1>6. ASSUME NEW n \in I
      PROVE  n + 1 \in I
  <2> SUFFICES ASSUME NEW T \in SUBSET S, NEW s \in SUBSET T, Cardinality(s) <= n + 1
               PROVE  g[s] = SumsOf(texts, T)[s]
    OBVIOUS
  <2>1. s # {} => s \ {First(s)} \in SUBSET T /\ Cardinality(s \ {First(s)}) <= n
    <3>1. s \in SUBSET S
      OBVIOUS
    <3>2. QED BY <1>2, <1>3, <3>1
  <2>2. s # {} => g[s \ {First(s)}] = SumsOf(texts, T)[s \ {First(s)}]
    BY <2>1
  <2>3. QED BY <1>4, <2>2
<1>7. I = Nat
  <2>1. I \in SUBSET Nat
    OBVIOUS
  <2> HIDE DEF I
  <2>2. QED BY <1>5, <1>6, <2>1, NaturalsFrom
<1>8. SUFFICES ASSUME NEW T \in SUBSET S
               PROVE  g[T] = SumsOf(texts, T)[T]
  BY SumUnfolds
<1>9. Cardinality(T) \in I /\ T \in SUBSET T
  BY <1>2, <1>7
<1>10. QED BY <1>9


LEMMA SumOfNone ==
  ASSUME NEW texts
  PROVE  Sum(texts, {}) = 0
<1>1. Sums(texts, SUBSET {}, SumsOf(texts, {}))
  BY SumsOfAre, FS_EmptySet
<1>2. QED BY <1>1, SumUnfolds DEF Sums

LEMMA SumOfFirst ==
  ASSUME NEW texts, NEW T, IsFiniteSet(T), T # {}
  PROVE  Sum(texts, T) = texts[First(T)].size + Sum(texts, T \ {First(T)})
<1> DEFINE g == SumsOf(texts, T)
<1>1. g[T] = texts[First(T)].size + g[T \ {First(T)}]
  <2>1. Sums(texts, SUBSET T, g)
    BY SumsOfAre
  <2> HIDE DEF g
  <2>2. QED BY <2>1 DEF Sums
<1>2. g[T] = Sum(texts, T) /\ g[T \ {First(T)}] = Sum(texts, T \ {First(T)})
  BY SumsAgree
<1>3. QED BY <1>1, <1>2

\* Induction over the subsets of a finite set, for a set of them.
LEMMA SubsetsFrom ==
  ASSUME NEW S, IsFiniteSet(S), NEW F \in SUBSET SUBSET S, {} \in F,
         \A T \in SUBSET S : (\A s \in SUBSET T : s # T => s \in F) => T \in F
  PROVE  S \in F
<1> DEFINE I == {n \in Nat : \A T \in SUBSET S : Cardinality(T) <= n => T \in F}
<1>1. \A T \in SUBSET S : IsFiniteSet(T) /\ Cardinality(T) \in Nat
  BY FS_Subset, FS_CardinalityType
<1>2. 0 \in I
  <2> SUFFICES ASSUME NEW T \in SUBSET S, Cardinality(T) <= 0
               PROVE  T \in F
    OBVIOUS
  <2>1. Cardinality(T) = 0 /\ IsFiniteSet(T)
    BY <1>1
  <2>2. QED BY <2>1, FS_EmptySet
<1>3. ASSUME NEW n \in I
      PROVE  n + 1 \in I
  <2> SUFFICES ASSUME NEW T \in SUBSET S, Cardinality(T) <= n + 1
               PROVE  T \in F
    OBVIOUS
  <2>1. ASSUME NEW s \in SUBSET T, s # T
        PROVE  s \in F
    <3>1. Cardinality(s) < Cardinality(T)
      <4>1. IsFiniteSet(T)
        BY <1>1
      <4>2. Cardinality(s) <= Cardinality(T) /\ Cardinality(s) # Cardinality(T)
        BY <2>1, <4>1, FS_Subset
      <4>3. s \in SUBSET S
        OBVIOUS
      <4>4. QED BY <1>1, <4>2, <4>3
    <3>2. s \in SUBSET S /\ Cardinality(s) \in Nat /\ Cardinality(T) \in Nat /\ n \in Nat
      BY <1>1
    <3>3. Cardinality(s) <= n
      BY <3>1, <3>2
    <3>4. QED BY <3>2, <3>3
  <2>2. QED BY <2>1
<1>4. I = Nat
  <2>1. I \in SUBSET Nat
    OBVIOUS
  <2> HIDE DEF I
  <2>2. QED BY <1>2, <1>3, <2>1, NaturalsFrom
<1>5. Cardinality(S) \in I
  BY <1>1, <1>4
<1>6. QED BY <1>1, <1>5

Sized(texts, paths) == \A p \in paths : texts[p].size \in Nat

LEMMA SumIsNat ==
  ASSUME NEW texts, NEW S, IsFiniteSet(S), Sized(texts, S)
  PROVE  Sum(texts, S) \in Nat
<1> DEFINE F == {T \in SUBSET S : Sum(texts, T) \in Nat}
<1>1. {} \in F
  BY SumOfNone
<1>2. ASSUME NEW T \in SUBSET S, \A s \in SUBSET T : s # T => s \in F
      PROVE  T \in F
  <2>1. CASE T = {}
    BY <1>1, <2>1
  <2>2. CASE T # {}
    <3>1. First(T) \in T /\ IsFiniteSet(T)
      BY <2>2, FirstIs, FS_Subset
    <3>2. T \ {First(T)} \in F
      BY <1>2, <3>1
    <3>3. Sum(texts, T) = texts[First(T)].size + Sum(texts, T \ {First(T)})
      BY <2>2, <3>1, SumOfFirst
    <3>4. texts[First(T)].size \in Nat
      BY <3>1 DEF Sized
    <3>5. QED BY <3>2, <3>3, <3>4
  <2>3. QED BY <2>1, <2>2
<1>3. S \in F
  <2>1. F \in SUBSET SUBSET S
    OBVIOUS
  <2> HIDE DEF F
  <2>2. QED BY <1>1, <1>2, <2>1, SubsetsFrom
<1>4. QED BY <1>3

\* A sum may take any element first.
LEMMA SumOfAny ==
  ASSUME NEW texts, NEW S, IsFiniteSet(S), Sized(texts, S), NEW p \in S
  PROVE  Sum(texts, S) = texts[p].size + Sum(texts, S \ {p})
<1> DEFINE Splits(T) == \A q \in T : Sum(texts, T) = texts[q].size + Sum(texts, T \ {q})
           F == {T \in SUBSET S : Splits(T)}
<1>1. {} \in F
  OBVIOUS
<1>2. \A T \in SUBSET S : IsFiniteSet(T) /\ Sum(texts, T) \in Nat
  BY FS_Subset, SumIsNat DEF Sized
<1>3. ASSUME NEW T \in SUBSET S, \A s \in SUBSET T : s # T => s \in F
      PROVE  T \in F
  <2> DEFINE f == First(T)
  <2> SUFFICES ASSUME NEW q \in T
               PROVE  Sum(texts, T) = texts[q].size + Sum(texts, T \ {q})
    OBVIOUS
  <2>1. f \in T /\ Sum(texts, T) = texts[f].size + Sum(texts, T \ {f})
    BY <1>2, FirstIs, SumOfFirst
  <2> HIDE DEF f
  <2>2. CASE q = f
    BY <2>1, <2>2
  <2>3. CASE q # f
    <3> DEFINE rest == T \ {f, q}
    <3>1. Splits(T \ {f}) /\ Splits(T \ {q})
      BY <1>3, <2>1
    <3>2. Sum(texts, T \ {f}) = texts[q].size + Sum(texts, rest)
      <4>1. (T \ {f}) \ {q} = rest /\ q \in T \ {f}
        BY <2>3
      <4>2. QED BY <3>1, <4>1
    <3>3. Sum(texts, T \ {q}) = texts[f].size + Sum(texts, rest)
      <4>1. (T \ {q}) \ {f} = rest /\ f \in T \ {q}
        BY <2>1, <2>3
      <4>2. QED BY <3>1, <4>1
    <3>4. Sum(texts, rest) \in Nat /\ texts[q].size \in Nat /\ texts[f].size \in Nat
      BY <1>2, <2>1 DEF Sized
    <3> HIDE DEF rest
    <3>5. QED BY <2>1, <3>2, <3>3, <3>4
  <2>4. QED BY <2>2, <2>3
<1>4. S \in F
  <2>1. F \in SUBSET SUBSET S
    OBVIOUS
  <2> HIDE DEF F
  <2>2. QED BY <1>1, <1>3, <2>1, SubsetsFrom
<1>5. QED BY <1>4

\* A sum over more paths, of texts that are no shorter, is no less.
LEMMA SumGrows ==
  ASSUME NEW small, NEW big, NEW S, IsFiniteSet(S), NEW T \in SUBSET S,
         Sized(small, T), Sized(big, S), \A p \in T : small[p].size <= big[p].size
  PROVE  Sum(small, T) <= Sum(big, S)
<1> DEFINE F == {s \in SUBSET S : Sum(small, s \cap T) <= Sum(big, s)}
<1>1. {} \in F
  <2>1. {} \cap T = {}
    OBVIOUS
  <2>2. QED BY <2>1, SumOfNone
<1>2. \A s \in SUBSET S : /\ IsFiniteSet(s) /\ IsFiniteSet(s \cap T)
                          /\ Sum(big, s) \in Nat /\ Sum(small, s \cap T) \in Nat
  BY FS_Subset, SumIsNat DEF Sized
<1>3. ASSUME NEW U \in SUBSET S, \A s \in SUBSET U : s # U => s \in F
      PROVE  U \in F
  <2>1. CASE U = {}
    BY <1>1, <2>1
  <2>2. CASE U # {}
    <3>1. PICK p \in U : TRUE
      BY <2>2
    <3>2. U \ {p} \in F /\ U \ {p} \in SUBSET S /\ IsFiniteSet(U)
      BY <1>2, <1>3, <3>1
    <3> DEFINE V == U \ {p}
    <3>3. /\ Sum(small, V \cap T) \in Nat /\ Sum(big, V) \in Nat
          /\ Sum(small, V \cap T) <= Sum(big, V)
      <4>1. V \in F /\ V \in SUBSET S
        BY <3>2
      <4> HIDE DEF V
      <4>2. QED BY <1>2, <4>1
    <3>4. Sum(big, U) = big[p].size + Sum(big, U \ {p})
      <4>1. Sized(big, U)
        BY DEF Sized
      <4>2. QED BY <3>1, <3>2, <4>1, SumOfAny
    <3>5. big[p].size \in Nat
      BY <3>1 DEF Sized
    <3>6. CASE p \in T
      <4>1. Sum(small, U \cap T) = small[p].size + Sum(small, (U \cap T) \ {p})
        <5>1. Sized(small, U \cap T)
          BY DEF Sized
        <5>2. QED BY <1>2, <3>1, <3>6, <5>1, SumOfAny
      <4>2. (U \cap T) \ {p} = (U \ {p}) \cap T
        OBVIOUS
      <4>3. small[p].size \in Nat /\ small[p].size <= big[p].size
        BY <3>6 DEF Sized
      <4>4. Sum(small, U \cap T) = small[p].size + Sum(small, V \cap T)
        BY <4>1, <4>2
      <4>5. Sum(small, U \cap T) <= Sum(big, U)
        <5>1. Sum(big, U) = big[p].size + Sum(big, V)
          BY <3>4
        <5> HIDE DEF V
        <5>2. QED BY <3>5, <3>3, <4>3, <4>4, <5>1
      <4>6. QED BY <4>5
    <3>7. CASE p \notin T
      <4>1. U \cap T = (U \ {p}) \cap T
        BY <3>7
      <4>2. Sum(small, U \cap T) = Sum(small, V \cap T)
        BY <4>1
      <4>3. Sum(small, U \cap T) <= Sum(big, U)
        <5>1. Sum(big, U) = big[p].size + Sum(big, V)
          BY <3>4
        <5> HIDE DEF V
        <5>2. QED BY <3>5, <3>3, <4>2, <5>1
      <4>4. QED BY <4>3
    <3>8. QED BY <3>6, <3>7
  <2>3. QED BY <2>1, <2>2
<1>4. S \in F
  <2>1. F \in SUBSET SUBSET S
    OBVIOUS
  <2> HIDE DEF F
  <2>2. QED BY <1>1, <1>3, <2>1, SubsetsFrom
<1>5. S \cap T = T
  OBVIOUS
<1>6. QED BY <1>4, <1>5


\* Texts that are empty add nothing to a sum.
LEMMA SumOfPart ==
  ASSUME NEW long, NEW short, NEW S, IsFiniteSet(S), NEW T \in SUBSET S,
         Sized(long, S), \A p \in T : long[p].size = short[p].size,
         \A p \in S \ T : long[p].size = 0
  PROVE  Sum(long, S) = Sum(short, T)
<1> DEFINE F == {s \in SUBSET S : Sum(long, s) = Sum(short, s \cap T)}
<1>1. {} \in F
  <2>1. {} \cap T = {}
    OBVIOUS
  <2>2. QED BY <2>1, SumOfNone
<1>2. \A s \in SUBSET S : IsFiniteSet(s) /\ IsFiniteSet(s \cap T) /\ Sum(long, s) \in Nat
  BY FS_Subset, SumIsNat DEF Sized
<1>3. ASSUME NEW U \in SUBSET S, \A s \in SUBSET U : s # U => s \in F
      PROVE  U \in F
  <2>1. CASE U = {}
    BY <1>1, <2>1
  <2>2. CASE U # {}
    <3>1. PICK p \in U : TRUE
      BY <2>2
    <3> DEFINE V == U \ {p}
    <3>2. V \in F /\ V \in SUBSET S /\ IsFiniteSet(U) /\ IsFiniteSet(U \cap T)
      BY <1>2, <1>3, <3>1
    <3>3. Sum(long, V) = Sum(short, V \cap T) /\ Sum(long, V) \in Nat
      <4>1. V \in F /\ V \in SUBSET S
        BY <3>2
      <4> HIDE DEF V
      <4>2. QED BY <1>2, <4>1
    <3>4. Sum(long, U) = long[p].size + Sum(long, V)
      <4>1. Sized(long, U)
        BY DEF Sized
      <4>2. QED BY <3>1, <3>2, <4>1, SumOfAny
    <3>5. long[p].size \in Nat
      BY <3>1 DEF Sized
    <3>6. Sum(long, U) = Sum(short, U \cap T)
      <4>1. CASE p \in T
        <5>1. Sum(short, U \cap T) = short[p].size + Sum(short, (U \cap T) \ {p})
          <6>1. Sized(short, U \cap T)
            BY DEF Sized
          <6>2. QED BY <3>1, <3>2, <4>1, <6>1, SumOfAny
        <5>2. (U \cap T) \ {p} = V \cap T /\ long[p].size = short[p].size
          BY <4>1
        <5>3. Sum(short, U \cap T) = short[p].size + Sum(short, V \cap T)
          BY <5>1, <5>2
        <5> HIDE DEF V
        <5>4. QED BY <3>3, <3>4, <3>5, <5>2, <5>3
      <4>2. CASE p \notin T
        <5>1. U \cap T = V \cap T /\ long[p].size = 0
          BY <3>1, <4>2
        <5>2. Sum(short, U \cap T) = Sum(short, V \cap T)
          BY <5>1
        <5> HIDE DEF V
        <5>3. QED BY <3>3, <3>4, <5>1, <5>2
      <4>3. QED BY <4>1, <4>2
    <3>7. QED BY <3>6
  <2>3. QED BY <2>1, <2>2
<1>4. S \in F
  <2>1. F \in SUBSET SUBSET S
    OBVIOUS
  <2> HIDE DEF F
  <2>2. QED BY <1>1, <1>3, <2>1, SubsetsFrom
<1>5. S \cap T = T
  OBVIOUS
<1>6. QED BY <1>4, <1>5

\* A sum follows the change of one text.
LEMMA SumFollows ==
  ASSUME NEW before, NEW now, NEW S, IsFiniteSet(S), NEW p \in S,
         Sized(before, S), Sized(now, S), \A q \in S \ {p} : now[q].size = before[q].size
  PROVE  Sum(now, S) = Sum(before, S) - before[p].size + now[p].size
<1> DEFINE rest == S \ {p}
<1>1. IsFiniteSet(rest) /\ rest \in SUBSET rest /\ rest \ rest = {}
  BY FS_Subset
<1>2. Sized(now, rest) /\ Sized(before, rest)
  BY DEF Sized
<1>3. Sum(now, rest) = Sum(before, rest)
  <2>1. \A q \in rest : now[q].size = before[q].size
    OBVIOUS
  <2> HIDE DEF rest
  <2>2. QED BY <1>1, <1>2, <2>1, SumOfPart
<1>4. Sum(now, S) = now[p].size + Sum(now, rest) /\ Sum(before, S) = before[p].size + Sum(before, rest)
  BY SumOfAny
<1>5. now[p].size \in Nat /\ before[p].size \in Nat /\ Sum(before, rest) \in Nat
  <2>1. Sum(before, rest) \in Nat
    BY <1>1, <1>2, SumIsNat
  <2>2. QED BY <2>1 DEF Sized
<1> HIDE DEF rest
<1>6. QED BY <1>3, <1>4, <1>5

-----------------------------------------------------------------------------
(* Files. A call that no other overlapped had its file to itself. A write  *)
(* has its room: what the texts under way may make of the files exceeds    *)
(* the limits by no more than the peers of the last that passed them.      *)

FileCall ==
  [op : {"none", "create", "modify", "read"},
   at : {"unused", "opening", "looking", "replacing", "writing", "reading", "done", "failed"},
   path : Paths, size : Nat, old : Files!Texts, replaced : Files!Texts]

FilesTyped ==
  /\ files \in [DOMAIN files -> Files!Texts] /\ DOMAIN files \subseteq Paths
  /\ calls \in [Calls -> FileCall]
  /\ met \in SUBSET Calls /\ peak \in Nat

\* Where a call may be, by what it does, and with a file.
StageFits(c) ==
  /\ calls[c].at = "opening" => calls[c].op = "create"
  /\ calls[c].at \in {"looking", "replacing"} => calls[c].op = "modify"
  /\ calls[c].at = "reading" => calls[c].op = "read"
  /\ calls[c].at = "writing" => calls[c].op \in {"create", "modify"}
  /\ calls[c].at \in {"looking", "replacing", "writing", "reading"} => calls[c].path \in DOMAIN files
  /\ calls[c].at = "done" /\ calls[c].op = "create" => calls[c].path \in DOMAIN files
  /\ c \in Files!Writing => calls[c].size <= MaxFile

\* Calls that meet are all met, and nobody meets itself.
MetAreMet ==
  /\ \A c, d \in Calls :
       c # d /\ Files!Active(c) /\ Files!Active(d) /\ calls[c].path = calls[d].path => c \in met /\ d \in met
  /\ \A c \in met : calls[c].at # "unused" /\ \E d \in met : d # c /\ calls[d].path = calls[c].path

\* The file has the text of the one that works on it alone.
TextStands(c) ==
  LET text == files[calls[c].path] IN
  /\ calls[c].at = "writing" /\ text.author = 0 => text = Files!Empty
  /\ c \notin met =>
       /\ calls[c].at = "writing" => text = Files!Empty
       /\ calls[c].at = "replacing" => calls[c].old = text
       /\ calls[c].op = "modify" /\ calls[c].at \in {"writing", "done"} => calls[c].old = calls[c].replaced
       /\ calls[c].at = "reading" => text # Files!Empty /\ calls[c].size = text.size
       /\ calls[c].op = "read" /\ calls[c].at = "done" =>
            calls[c].old # Files!Empty /\ calls[c].size = calls[c].old.size

TextFits(p) ==
  /\ files[p].author # 0 => files[p].size <= MaxFile
  /\ files[p] = Files!Empty => \E c \in Calls : calls[c].path = p /\ calls[c].at = "writing"
  /\ files[p].author = Files!Mixed => \E c, d \in met : c # d /\ calls[c].path = p /\ calls[d].path = p

Opening == {c \in Calls : calls[c].at = "opening"}
Peers == IF peak = 0 THEN 0 ELSE peak - 1
Listed == Paths \ Ignored
Size(p) == IF p \in DOMAIN files THEN files[p].size ELSE 0

\* Each write that is under way finds room for its text, and so does what is
\* there already.
IsRoom(room) ==
  /\ \A p \in Listed : Size(p) <= room[p].size
  /\ \A c \in Files!Writing : calls[c].path \in Listed => calls[c].size <= room[calls[c].path].size
  /\ Sum(room, Listed) <= MaxTotal + Peers * MaxFile

Limited ==
  /\ IsFiniteSet(Files!Writing) /\ Cardinality(Files!Writing) <= peak
  /\ Cardinality(Files!Visible) + Cardinality(Opening) <= MaxFiles + Peers
  /\ \E room \in [Listed -> [size : Nat]] : IsRoom(room)

FilesInv ==
  /\ FilesTyped /\ MetAreMet /\ Files!CreatesOnlyNew /\ Limited
  /\ \A c \in Calls : StageFits(c) /\ TextStands(c)
  /\ \A p \in DOMAIN files : TextFits(p)

LEMMA FilesInit ==
  ASSUME Files!NumbersAssumption, Files!Init
  PROVE  FilesInv
<1> USE DEF Files!NumbersAssumption
<1>1. PICK start \in SUBSET Paths : files = [p \in start |-> Files!Text(0, 1)]
  BY DEF Files!Init
<1>2. Files!Empty \in Files!Texts /\ Files!Text(0, 1) \in Files!Texts
  BY DEF Files!Empty, Files!Text, Files!Texts
<1>3. Files!Unused \in FileCall
  BY <1>2 DEF Files!Unused, FileCall
<1>4. calls = [c \in Calls |-> Files!Unused] /\ met = {} /\ peak = 0
  BY DEF Files!Init
<1>5. \A c \in Calls : calls[c].at = "unused" /\ calls[c].op = "none"
  BY <1>4 DEF Files!Unused
<1>6. FilesTyped
  BY <1>1, <1>2, <1>3, <1>4 DEF FilesTyped
<1>7. Files!Writing = {} /\ Opening = {}
  BY <1>5 DEF Files!Writing, Files!Active, Opening
<1>8. MetAreMet /\ Files!CreatesOnlyNew /\ \A c \in Calls : StageFits(c) /\ TextStands(c)
  BY <1>4, <1>5, <1>7 DEF MetAreMet, Files!Active, Files!CreatesOnlyNew, StageFits, TextStands
<1>9. \A p \in DOMAIN files : TextFits(p)
  BY <1>1 DEF TextFits, Files!Text, Files!Empty, Files!Mixed
<1>10. Limited
  <2>1. IsFiniteSet(Files!Writing) /\ Cardinality(Files!Writing) = 0 /\ Cardinality(Opening) = 0
    BY <1>7, FS_EmptySet
  <2>2. IsFiniteSet(Files!Visible) /\ IsFiniteSet(Listed)
    <3>1. Files!Visible \in SUBSET Paths /\ Listed \in SUBSET Paths
      BY <1>1 DEF Files!Visible, Listed
    <3>2. IsFiniteSet(Paths)
      BY DEF Files!IsFiniteSet, IsFiniteSet
    <3>3. QED BY <3>1, <3>2, FS_Subset
  <2>3. Cardinality(Files!Visible) <= MaxFiles
    BY DEF Files!Init, Files!Cardinality, Cardinality
  <2>4. Cardinality(Files!Visible) \in Nat
    BY <2>2, FS_CardinalityType
  <2> DEFINE room == [p \in Listed |-> [size |-> Size(p)]]
  <2>5. \A p \in Paths : Size(p) \in Nat
    BY <1>6 DEF Size, FilesTyped, Files!Texts
  <2>6. room \in [Listed -> [size : Nat]]
    BY <2>5 DEF Listed
  <2>7. Sum(room, Listed) = Sum(files, Files!Visible)
    <3>1. Sized(room, Listed)
      BY <2>5 DEF Sized, Listed
    <3>2. Files!Visible \in SUBSET Listed
      BY <1>1 DEF Files!Visible, Listed
    <3>3. \A p \in Files!Visible : room[p].size = files[p].size
      BY <3>2 DEF Size, Files!Visible
    <3>4. \A p \in Listed \ Files!Visible : room[p].size = 0
      BY DEF Size, Files!Visible, Listed
    <3> HIDE DEF room
    <3>5. QED BY <2>2, <3>1, <3>2, <3>3, <3>4, SumOfPart
  <2>8. Sum(files, Files!Visible) <= MaxTotal
    BY DEF Files!Init, Files!Bytes, Sum
  <2>9. Peers = 0 /\ Peers * MaxFile = 0
    BY <1>4 DEF Peers
  <2>10. IsRoom(room)
    <3>1. \A p \in Listed : Size(p) <= room[p].size
      BY <2>5 DEF Listed
    <3>2. Sum(room, Listed) <= MaxTotal + Peers * MaxFile
      BY <2>7, <2>8, <2>9
    <3> HIDE DEF room
    <3>3. QED BY <1>7, <3>1, <3>2 DEF IsRoom
  <2>11. QED
    <3>1. \E r \in [Listed -> [size : Nat]] : IsRoom(r)
      BY <2>6, <2>10
    <3>2. Cardinality(Files!Visible) + Cardinality(Opening) <= MaxFiles + Peers
      BY <2>1, <2>3, <2>4, <2>9
    <3>3. Cardinality(Files!Writing) <= peak
      BY <1>4, <2>1
    <3>4. QED BY <2>1, <3>1, <3>2, <3>3 DEF Limited
<1>11. QED BY <1>6, <1>8, <1>9, <1>10 DEF FilesInv


LEMMA FileTypes ==
  ASSUME FilesTyped
  PROVE  /\ \A c \in Calls : /\ calls[c] \in FileCall /\ calls[c].path \in Paths /\ calls[c].size \in Nat
                             /\ calls[c].old \in Files!Texts /\ calls[c].replaced \in Files!Texts
         /\ \A p \in DOMAIN files : p \in Paths /\ files[p] \in Files!Texts /\ files[p].size \in Nat
         /\ \A p \in Paths : Size(p) \in Nat
BY DEF FilesTyped, FileCall, Files!Texts, Size

\* Call c, which had passed the limits, goes on with its own file.
Works(c) ==
  /\ calls[c].at \notin {"unused", "done", "failed"} /\ calls'[c].at # "unused"
  /\ calls'[c].op = calls[c].op /\ calls'[c].path = calls[c].path /\ calls'[c].size = calls[c].size
  /\ \A d \in Calls \ {c} : calls'[d] = calls[d]
  /\ met' = met /\ peak' = peak
  /\ DOMAIN files \subseteq DOMAIN files' /\ DOMAIN files' \subseteq DOMAIN files \cup {calls[c].path}
  /\ \A p \in DOMAIN files : p # calls[c].path => files'[p] = files[p]

\* What is not of that file or that call is as before.
LEMMA WorkLeaves ==
  ASSUME FilesInv, FilesTyped', NEW c \in Calls, Works(c)
  PROVE  /\ MetAreMet'
         /\ \A d \in Calls \ {c} : StageFits(d)'
         /\ \A p \in DOMAIN files' : p # calls[c].path => TextFits(p)'
<1>1. \A d \in Calls : Files!Active(d)' => Files!Active(d)
  BY DEF Works, Files!Active
<1>2. \A d \in Calls : calls'[d].path = calls[d].path /\ (calls[d].at # "unused" => calls'[d].at # "unused")
  BY DEF Works
<1>3. MetAreMet'
  <2>1. \A d, e \in Calls : d # e /\ Files!Active(d)' /\ Files!Active(e)' /\ calls'[d].path = calls'[e].path
          => d \in met' /\ e \in met'
    BY <1>1, <1>2 DEF FilesInv, MetAreMet, Works
  <2>2. \A d \in met' : calls'[d].at # "unused" /\ \E e \in met' : e # d /\ calls'[e].path = calls'[d].path
    BY <1>2 DEF FilesInv, MetAreMet, Works, FilesTyped
  <2>3. QED BY <2>1, <2>2 DEF MetAreMet
<1>4. ASSUME NEW d \in Calls \ {c}
      PROVE  StageFits(d)'
  <2>1. calls'[d] = calls[d] /\ StageFits(d) /\ DOMAIN files \subseteq DOMAIN files'
    BY DEF Works, FilesInv
  <2>2. QED BY <2>1 DEF StageFits, Files!Writing, Files!Active
<1>5. ASSUME NEW p \in DOMAIN files', p # calls[c].path
      PROVE  TextFits(p)'
  <2>1. p \in DOMAIN files /\ files'[p] = files[p] /\ TextFits(p) /\ met' = met /\ met \subseteq Calls
    BY <1>5 DEF Works, FilesInv, FilesTyped
  <2>2. files'[p] = Files!Empty => \E d \in Calls : calls'[d].path = p /\ calls'[d].at = "writing"
    <3> SUFFICES ASSUME files'[p] = Files!Empty
                 PROVE  \E d \in Calls : calls'[d].path = p /\ calls'[d].at = "writing"
      OBVIOUS
    <3>1. PICK d \in Calls : calls[d].path = p /\ calls[d].at = "writing"
      BY <2>1 DEF TextFits
    <3>2. d # c /\ calls'[d] = calls[d]
      BY <1>5, <3>1 DEF Works
    <3>3. QED BY <3>1, <3>2
  <2>3. files'[p].author = Files!Mixed =>
          \E d, e \in met' : d # e /\ calls'[d].path = p /\ calls'[e].path = p
    <3>1. \A d \in met : d \in Calls
      BY <2>1
    <3>2. QED BY <1>2, <2>1, <3>1 DEF TextFits
  <2>4. QED BY <2>1, <2>2, <2>3 DEF TextFits
<1>6. QED BY <1>3, <1>4, <1>5

\* Nobody but those who met the call sees what it makes of the file.
LEMMA WorkIsSeenByMet ==
  ASSUME FilesInv, FilesTyped', NEW c \in Calls, Works(c), calls[c].path \in DOMAIN files',
         \/ calls[c].path \in DOMAIN files /\ files'[calls[c].path] = files[calls[c].path]
         \/ files'[calls[c].path].author = 0 => files'[calls[c].path] = Files!Empty
  PROVE  \A d \in Calls \ {c} : TextStands(d)'
<1> SUFFICES ASSUME NEW d \in Calls \ {c}
             PROVE  TextStands(d)'
  OBVIOUS
<1>1. calls'[d] = calls[d] /\ met' = met /\ TextStands(d) /\ StageFits(d)
  BY DEF Works, FilesInv
<1>2. CASE calls[d].at \notin {"looking", "replacing", "writing", "reading"}
  BY <1>1, <1>2 DEF TextStands
<1>3. CASE calls[d].at \in {"looking", "replacing", "writing", "reading"}
  <2>1. calls[d].path \in DOMAIN files
    BY <1>1, <1>3 DEF StageFits
  <2>2. CASE files'[calls[d].path] = files[calls[d].path]
    BY <1>1, <2>2 DEF TextStands
  <2>3. CASE files'[calls[d].path] # files[calls[d].path]
    <3>1. calls[d].path = calls[c].path
      BY <2>1, <2>3 DEF Works
    <3>2. d \in met
      BY <1>3, <3>1 DEF FilesInv, MetAreMet, Files!Active, Works
    <3>3. files'[calls[d].path].author = 0 => files'[calls[d].path] = Files!Empty
      BY <2>1, <2>3, <3>1
    <3>4. QED BY <1>1, <3>2, <3>3 DEF TextStands
  <2>4. QED BY <2>2, <2>3
<1>4. QED BY <1>2, <1>3

\* Its text had room, and so the limits are as before.
LEMMA WorkHasRoom ==
  ASSUME Files!NumbersAssumption, FilesInv, FilesTyped', NEW c \in Calls, Works(c),
         Cardinality(Files!Visible') + Cardinality(Opening') <= Cardinality(Files!Visible) + Cardinality(Opening),
         Cardinality(Files!Visible') + Cardinality(Opening') \in Nat,
         Cardinality(Files!Visible) + Cardinality(Opening) \in Nat,
         calls[c].path \in DOMAIN files' =>
           \/ Size(calls[c].path)' <= Size(calls[c].path)
           \/ c \in Files!Writing /\ Size(calls[c].path)' <= calls[c].size
  PROVE  Limited'
<1>1. peak' = peak /\ Peers' = Peers /\ Peers \in Nat
  BY DEF Works, Peers, FilesInv, FilesTyped
<1>2. Files!Writing' \in SUBSET Files!Writing
  BY DEF Files!Writing, Files!Active, Works
<1>3. IsFiniteSet(Files!Writing') /\ Cardinality(Files!Writing') <= peak'
  <2>1. IsFiniteSet(Files!Writing) /\ Cardinality(Files!Writing) <= peak /\ peak \in Nat
    BY DEF FilesInv, Limited, FilesTyped
  <2>2. IsFiniteSet(Files!Writing') /\ Cardinality(Files!Writing') <= Cardinality(Files!Writing)
    BY <1>2, <2>1, FS_Subset
  <2>3. Cardinality(Files!Writing') \in Nat /\ Cardinality(Files!Writing) \in Nat
    BY <2>1, <2>2, FS_CardinalityType
  <2>4. QED BY <1>1, <2>1, <2>2, <2>3
<1>4. Cardinality(Files!Visible') + Cardinality(Opening') <= MaxFiles + Peers'
  <2>1. Cardinality(Files!Visible) + Cardinality(Opening) <= MaxFiles + Peers
    BY DEF FilesInv, Limited
  <2>2. MaxFiles \in Nat
    BY DEF Files!NumbersAssumption
  <2>3. QED BY <1>1, <2>1, <2>2
<1>5. \E room \in [Listed -> [size : Nat]] : IsRoom(room)'
  <2>1. PICK room \in [Listed -> [size : Nat]] : IsRoom(room)
    BY DEF FilesInv, Limited
  <2>2. \A p \in Listed : room[p].size \in Nat /\ Size(p) <= room[p].size
    BY <2>1 DEF IsRoom
  <2>3. ASSUME NEW p \in Listed
        PROVE  Size(p)' <= room[p].size
    <3>1. p \in Paths /\ Size(p) \in Nat /\ Size(p)' \in Nat
      BY FileTypes, FileTypes DEF FilesInv, Listed, FilesTyped, FileCall, Files!Texts, Size
    <3>2. CASE p # calls[c].path
      <4>1. Size(p)' = Size(p)
        BY <3>2 DEF Size, Works
      <4>2. QED BY <2>2, <4>1
    <3>3. CASE p = calls[c].path /\ p \notin DOMAIN files'
      <4>1. Size(p)' = 0
        BY <3>3 DEF Size
      <4>2. QED BY <2>2, <4>1
    <3>4. CASE p = calls[c].path /\ p \in DOMAIN files'
      <4>1. CASE Size(p)' <= Size(p)
        BY <2>2, <3>1, <4>1
      <4>2. CASE c \in Files!Writing /\ Size(p)' <= calls[c].size
        <5>1. calls[c].size <= room[p].size
          BY <2>1, <3>4, <4>2 DEF IsRoom
        <5>2. calls[c].size \in Nat
          BY FileTypes DEF FilesInv
        <5>3. QED BY <2>2, <3>1, <4>2, <5>1, <5>2
      <4>3. Size(p)' <= Size(p) \/ (c \in Files!Writing /\ Size(p)' <= calls[c].size)
        BY <3>4 DEF Size, Works
      <4>4. QED BY <4>1, <4>2, <4>3
    <3>5. QED BY <3>2, <3>3, <3>4
  <2>4. \A d \in Files!Writing' : calls'[d].path \in Listed => calls'[d].size <= room[calls'[d].path].size
    <3>1. \A d \in Calls : calls'[d].path = calls[d].path /\ calls'[d].size = calls[d].size
      BY DEF Works
    <3>2. Files!Writing \subseteq Calls
      BY DEF Files!Writing
    <3>3. QED BY <1>2, <2>1, <3>1, <3>2 DEF IsRoom
  <2>5. Sum(room, Listed) <= MaxTotal + Peers' * MaxFile
    BY <1>1, <2>1 DEF IsRoom
  <2>6. IsRoom(room)'
    BY <2>3, <2>4, <2>5 DEF IsRoom, Listed
  <2>7. QED BY <2>6
<1>6. QED BY <1>3, <1>4, <1>5 DEF Limited, Listed


\* The three parts of the work of one call.
LEMMA WorkKeeps ==
  ASSUME Files!NumbersAssumption, FilesInv, FilesTyped', NEW c \in Calls, Works(c),
         StageFits(c)', TextStands(c)', Files!CreatesOnlyNew',
         calls[c].path \in DOMAIN files' =>
           /\ TextFits(calls[c].path)'
           /\ \/ calls[c].path \in DOMAIN files /\ files'[calls[c].path] = files[calls[c].path]
              \/ files'[calls[c].path].author = 0 => files'[calls[c].path] = Files!Empty,
         Limited'
  PROVE  FilesInv'
<1>1. /\ MetAreMet'
      /\ \A d \in Calls \ {c} : StageFits(d)'
      /\ \A p \in DOMAIN files' : p # calls[c].path => TextFits(p)'
  BY WorkLeaves
<1>2. ASSUME NEW d \in Calls
      PROVE  StageFits(d)'
  BY <1>1
<1>3. ASSUME NEW d \in Calls
      PROVE  TextStands(d)'
  <2>1. CASE d = c
    BY <2>1
  <2>2. CASE d # c /\ calls[c].path \in DOMAIN files'
    BY <2>2, WorkIsSeenByMet
  <2>3. CASE d # c /\ calls[c].path \notin DOMAIN files'
    <3>1. calls'[d] = calls[d] /\ met' = met /\ TextStands(d) /\ StageFits(d)
      BY <2>3 DEF Works, FilesInv
    <3>2. CASE calls[d].at \notin {"looking", "replacing", "writing", "reading"}
      BY <3>1, <3>2 DEF TextStands
    <3>3. CASE calls[d].at \in {"looking", "replacing", "writing", "reading"}
      <4>1. files'[calls[d].path] = files[calls[d].path]
        BY <2>3, <3>1, <3>3 DEF StageFits, Works
      <4>2. QED BY <3>1, <4>1 DEF TextStands
    <3>4. QED BY <3>2, <3>3
  <2>4. QED BY <2>1, <2>2, <2>3
<1>4. ASSUME NEW p \in DOMAIN files'
      PROVE  TextFits(p)'
  <2>1. calls'[c].path = calls[c].path
    BY DEF Works
  <2>2. CASE p = calls[c].path
    BY <2>1, <2>2
  <2>3. QED BY <1>1, <2>2
<1>5. QED BY <1>1, <1>2, <1>3, <1>4 DEF FilesInv

\* The files there are, and the calls that are about to make one, are finite.
LEMMA FilesFinite ==
  ASSUME Files!NumbersAssumption, FilesInv
  PROVE  /\ IsFiniteSet(Paths) /\ IsFiniteSet(Listed)
         /\ IsFiniteSet(Files!Visible) /\ Cardinality(Files!Visible) \in Nat
         /\ Files!Visible \in SUBSET Listed
         /\ IsFiniteSet(Files!Writing) /\ Cardinality(Files!Writing) \in Nat
         /\ Opening \in SUBSET Files!Writing /\ IsFiniteSet(Opening) /\ Cardinality(Opening) \in Nat
<1>1. IsFiniteSet(Paths)
  BY DEF Files!NumbersAssumption, Files!IsFiniteSet, IsFiniteSet
<1>2. Listed \in SUBSET Paths /\ Files!Visible \in SUBSET Listed
  BY DEF Listed, Files!Visible, FilesInv, FilesTyped
<1>3. IsFiniteSet(Listed) /\ IsFiniteSet(Files!Visible)
  BY <1>1, <1>2, FS_Subset
<1>4. Opening \in SUBSET Files!Writing
  <2>1. \A c \in Calls : calls[c].at = "opening" => calls[c].op = "create"
    BY DEF FilesInv, StageFits
  <2>2. QED BY <2>1 DEF Opening, Files!Writing, Files!Active
<1>5. IsFiniteSet(Files!Writing)
  BY DEF FilesInv, Limited
<1>6. QED BY <1>1, <1>2, <1>3, <1>4, <1>5, FS_Subset, FS_CardinalityType

\* A call that opens no file leaves the files there are.
LEMMA WorkCounts ==
  ASSUME Files!NumbersAssumption, FilesInv, NEW c \in Calls, Works(c), calls'[c].at # "opening",
         DOMAIN files' = DOMAIN files
  PROVE  /\ Cardinality(Files!Visible') + Cardinality(Opening') <= Cardinality(Files!Visible) + Cardinality(Opening)
         /\ Cardinality(Files!Visible') + Cardinality(Opening') \in Nat
         /\ Cardinality(Files!Visible) + Cardinality(Opening) \in Nat
<1>1. Files!Visible' = Files!Visible
  BY DEF Files!Visible
<1>2. Opening' \in SUBSET Opening
  BY DEF Opening, Works
<1>3. Cardinality(Files!Visible) \in Nat /\ IsFiniteSet(Opening) /\ Cardinality(Opening) \in Nat
  BY FilesFinite
<1>4. Cardinality(Opening') <= Cardinality(Opening) /\ Cardinality(Opening') \in Nat
  BY <1>2, <1>3, FS_Subset, FS_CardinalityType
<1>5. QED BY <1>1, <1>3, <1>4


\* A call moves on and no file changes.
LEMMA QuietWorkKeeps ==
  ASSUME Files!NumbersAssumption, FilesInv, NEW c \in Calls,
         calls[c].at \notin {"unused", "done", "failed", "writing"},
         calls' \in [Calls -> FileCall], \A d \in Calls \ {c} : calls'[d] = calls[d],
         calls'[c].op = calls[c].op, calls'[c].path = calls[c].path, calls'[c].size = calls[c].size,
         files' = files, met' = met, peak' = peak,
         \/ calls'[c].at = "failed"
         \/ calls'[c].at = "replacing" /\ calls[c].at = "looking" /\ calls'[c].old = files[calls[c].path]
         \/ calls'[c].at = "done" /\ calls[c].at = "reading" /\ calls'[c].old = files[calls[c].path]
  PROVE  FilesInv'
<1>1. /\ calls[c] \in FileCall /\ StageFits(c) /\ TextStands(c) /\ FilesTyped
      /\ \A d \in Calls : StageFits(d)
  BY FileTypes DEF FilesInv
<1>2. calls'[c].at # "unused" /\ calls'[c].at # "opening"
  OBVIOUS
<1>3. /\ calls'[c].op = calls[c].op /\ calls'[c].path = calls[c].path
      /\ calls'[c].size = calls[c].size
      /\ \A d \in Calls \ {c} : calls'[d] = calls[d]
  OBVIOUS
<1>4. FilesTyped'
  BY <1>1 DEF FilesTyped
<1>5. Works(c)
  BY <1>2, <1>3 DEF Works
<1>6. StageFits(c)'
  BY <1>1, <1>3 DEF StageFits, Files!Writing, Files!Active
<1>7. TextStands(c)'
  <2>1. calls'[c].at = "replacing" => calls[c].op = "modify"
    BY <1>1 DEF StageFits
  <2>2. calls'[c].at = "done" => calls[c].op = "read"
    BY <1>1 DEF StageFits
  <2>3. QED BY <1>1, <1>3, <2>1, <2>2 DEF TextStands
<1>8. Files!CreatesOnlyNew'
  <2>1. \A d \in Calls : calls'[d].op = calls[d].op /\ calls'[d].path = calls[d].path
    BY <1>3
  <2>2. \A d \in Calls : calls[d].op = "create" /\ calls'[d].at \in {"writing", "done"} => calls[d].at \in {"writing", "done"}
    BY <1>1, <1>3 DEF StageFits
  <2>3. QED BY <2>1, <2>2 DEF FilesInv, Files!CreatesOnlyNew
<1>9. calls[c].path \in DOMAIN files' => TextFits(calls[c].path)'
  <2> SUFFICES ASSUME calls[c].path \in DOMAIN files
               PROVE  TextFits(calls[c].path)'
    OBVIOUS
  <2> DEFINE p == calls[c].path
  <2>1. TextFits(p)
    BY DEF FilesInv
  <2>2. files[p] = Files!Empty => \E d \in Calls : calls'[d].path = p /\ calls'[d].at = "writing"
    BY <1>3, <2>1 DEF TextFits
  <2>3. \A d \in met : calls'[d].path = calls[d].path
    BY <1>1, <1>3 DEF FilesTyped
  <2>4. calls'[c].path = p
    BY <1>3
  <2>5. files[p].author = Files!Mixed => \E d, e \in met : d # e /\ calls'[d].path = p /\ calls'[e].path = p
    BY <2>1, <2>3 DEF TextFits
  <2> HIDE DEF p
  <2>6. /\ files'[p].author # 0 => files'[p].size <= MaxFile
        /\ files'[p] = Files!Empty => \E d \in Calls : calls'[d].path = p /\ calls'[d].at = "writing"
        /\ files'[p].author = Files!Mixed => \E d, e \in met' : d # e /\ calls'[d].path = p /\ calls'[e].path = p
    BY <2>1, <2>2, <2>5 DEF TextFits
  <2>7. /\ files'[calls'[c].path].author # 0 => files'[calls'[c].path].size <= MaxFile
        /\ files'[calls'[c].path] = Files!Empty =>
             \E d \in Calls : calls'[d].path = calls'[c].path /\ calls'[d].at = "writing"
        /\ files'[calls'[c].path].author = Files!Mixed =>
             \E d, e \in met' : d # e /\ calls'[d].path = calls'[c].path /\ calls'[e].path = calls'[c].path
    BY <2>4, <2>6
  <2>8. QED BY <2>7 DEF TextFits
<1>10. Limited'
  <2>1. Size(calls[c].path)' <= Size(calls[c].path)
    <3>1. calls[c].path \in Paths
      BY FileTypes DEF FilesInv
    <3>2. Size(calls[c].path) \in Nat
      BY <3>1, FileTypes DEF FilesInv
    <3>3. Size(calls[c].path)' = Size(calls[c].path)
      BY <1>3 DEF Size
    <3>4. QED BY <3>2, <3>3
  <2>2. calls'[c].at # "opening"
    BY <1>2
  <2>3. QED BY <1>4, <1>5, <2>1, <2>2, WorkCounts, WorkHasRoom
<1>11. QED BY <1>4, <1>5, <1>6, <1>7, <1>8, <1>9, <1>10, WorkKeeps

LEMMA LookKeeps ==
  ASSUME Files!NumbersAssumption, FilesInv, NEW c \in Calls, Files!Look(c)
  PROVE  FilesInv'
<1>1. /\ calls[c].at = "looking" /\ calls[c].path \in DOMAIN files
      /\ calls \in [Calls -> FileCall] /\ calls[c] \in FileCall
  BY DEF Files!Look, FilesInv, FilesTyped, StageFits
<1>2. files[calls[c].path] \in Files!Texts
  BY <1>1, FileTypes DEF FilesInv
<1>3. /\ calls' \in [Calls -> FileCall] /\ \A d \in Calls \ {c} : calls'[d] = calls[d]
      /\ calls'[c].op = calls[c].op /\ calls'[c].path = calls[c].path /\ calls'[c].size = calls[c].size
      /\ calls'[c].at = "replacing" /\ calls'[c].old = files[calls[c].path]
  BY <1>1, <1>2 DEF Files!Look, FileCall
<1>4. UNCHANGED <<files, met, peak>>
  BY DEF Files!Look
<1>5. QED BY <1>1, <1>3, <1>4, QuietWorkKeeps

LEMMA TakeKeeps ==
  ASSUME Files!NumbersAssumption, FilesInv, NEW c \in Calls, Files!Take(c)
  PROVE  FilesInv'
<1>1. /\ calls[c].at = "reading" /\ calls[c].path \in DOMAIN files
      /\ calls \in [Calls -> FileCall] /\ calls[c] \in FileCall
  BY DEF Files!Take, FilesInv, FilesTyped, StageFits
<1>2. files[calls[c].path] \in Files!Texts
  BY <1>1, FileTypes DEF FilesInv
<1>3. /\ calls' \in [Calls -> FileCall] /\ \A d \in Calls \ {c} : calls'[d] = calls[d]
      /\ calls'[c].op = calls[c].op /\ calls'[c].path = calls[c].path /\ calls'[c].size = calls[c].size
      /\ calls'[c].at = "done" /\ calls'[c].old = files[calls[c].path]
  BY <1>1, <1>2 DEF Files!Take, FileCall
<1>4. UNCHANGED <<files, met, peak>>
  BY DEF Files!Take
<1>5. QED BY <1>1, <1>3, <1>4, QuietWorkKeeps

LEMMA CancelKeeps ==
  ASSUME Files!NumbersAssumption, FilesInv, NEW c \in Calls,
         \/ Files!Cancel(c)
         \/ Files!Open(c) /\ calls[c].path \in DOMAIN files
  PROVE  FilesInv'
<1>1. /\ calls[c].at \in {"opening", "looking", "replacing", "reading"}
      /\ calls' = [calls EXCEPT ![c].at = "failed"]
      /\ UNCHANGED <<files, met, peak>>
  BY DEF Files!Cancel, Files!Open, Files!Moves
<1>2. calls \in [Calls -> FileCall] /\ calls[c] \in FileCall
  BY DEF FilesInv, FilesTyped
<1>3. /\ calls' \in [Calls -> FileCall] /\ \A d \in Calls \ {c} : calls'[d] = calls[d]
      /\ calls'[c] = [calls[c] EXCEPT !.at = "failed"]
  BY <1>1, <1>2 DEF FileCall
<1>4. /\ calls'[c].op = calls[c].op /\ calls'[c].path = calls[c].path /\ calls'[c].size = calls[c].size
      /\ calls'[c].at = "failed"
  BY <1>2, <1>3 DEF FileCall
<1>5. QED BY <1>1, <1>3, <1>4, QuietWorkKeeps

\* create_file makes its file, which nobody had.
LEMMA OpenKeeps ==
  ASSUME Files!NumbersAssumption, FilesInv, NEW c \in Calls, Files!Open(c),
         calls[c].path \notin DOMAIN files
  PROVE  FilesInv'
<1> DEFINE p == calls[c].path
<1>1. /\ FilesTyped /\ StageFits(c) /\ calls \in [Calls -> FileCall] /\ calls[c] \in FileCall
      /\ p \in Paths /\ Files!Empty \in Files!Texts
  BY FileTypes DEF FilesInv, FilesTyped, Files!Empty, Files!Text, Files!Texts
<1>2. /\ calls[c].at = "opening" /\ calls' = [calls EXCEPT ![c].at = "writing"]
      /\ files' = [q \in DOMAIN files \cup {p} |-> IF q = p THEN Files!Empty ELSE files[q]]
      /\ met' = met /\ peak' = peak
  BY DEF Files!Open, Files!Moves
<1>3. /\ calls'[c].at = "writing" /\ calls'[c].op = "create" /\ calls[c].op = "create"
      /\ calls'[c].path = p /\ calls'[c].size = calls[c].size
      /\ calls' \in [Calls -> FileCall] /\ \A d \in Calls \ {c} : calls'[d] = calls[d]
  BY <1>1, <1>2 DEF FileCall, StageFits
<1>4. /\ DOMAIN files' = DOMAIN files \cup {p} /\ files'[p] = Files!Empty
      /\ \A q \in DOMAIN files : q # p /\ files'[q] = files[q]
  BY <1>2
<1> HIDE DEF p
<1>5. FilesTyped'
  <2>1. files' \in [DOMAIN files' -> Files!Texts] /\ DOMAIN files' \subseteq Paths
    BY <1>1, <1>2, <1>4 DEF FilesTyped
  <2>2. QED BY <1>1, <1>2, <1>3, <2>1 DEF FilesTyped
<1>6. Works(c)
  BY <1>2, <1>3, <1>4 DEF Works, p
<1>7. StageFits(c)'
  <2>1. c \in Files!Writing
    BY <1>2, <1>3 DEF Files!Writing, Files!Active
  <2>2. calls[c].size <= MaxFile
    BY <1>1, <2>1 DEF StageFits
  <2>3. QED BY <1>3, <1>4, <2>2 DEF StageFits
<1>8. TextStands(c)'
  BY <1>3, <1>4 DEF TextStands
<1>9. Files!CreatesOnlyNew'
  <2>1. \A d \in Calls \ {c} : calls[d].op = "create" /\ calls[d].path = p => calls[d].at \notin {"writing", "done"}
    BY <1>4 DEF FilesInv, StageFits, p
  <2>2. QED BY <1>3, <2>1 DEF FilesInv, Files!CreatesOnlyNew
<1>10. TextFits(calls[c].path)'
  <2>1. files'[calls'[c].path] = Files!Empty /\ calls'[c].at = "writing"
    BY <1>3, <1>4
  <2>2. Files!Empty.author = 0 /\ 0 # Files!Mixed
    BY DEF Files!Empty, Files!Text, Files!Mixed
  <2>3. QED BY <2>1, <2>2 DEF TextFits
<1>11. Limited'
  <2>1. Opening' = Opening \ {c} /\ c \in Opening
    BY <1>2, <1>3 DEF Opening
  <2>2. Files!Visible' \in SUBSET (Files!Visible \cup {p}) /\ p \notin Files!Visible
    BY <1>4 DEF Files!Visible, p
  <2>3. /\ IsFiniteSet(Opening) /\ IsFiniteSet(Files!Visible)
        /\ Cardinality(Opening) \in Nat /\ Cardinality(Files!Visible) \in Nat
    BY FilesFinite
  <2>4. Cardinality(Opening') = Cardinality(Opening) - 1 /\ Cardinality(Opening') \in Nat
    BY <2>1, <2>3, FS_RemoveElement, FS_CardinalityType
  <2>5. Cardinality(Files!Visible') <= Cardinality(Files!Visible) + 1 /\ Cardinality(Files!Visible') \in Nat
    <3>1. /\ IsFiniteSet(Files!Visible \cup {p})
          /\ Cardinality(Files!Visible \cup {p}) = Cardinality(Files!Visible) + 1
      BY <2>2, <2>3, FS_AddElement
    <3>2. /\ IsFiniteSet(Files!Visible') /\ Cardinality(Files!Visible') <= Cardinality(Files!Visible \cup {p})
      BY <2>2, <3>1, FS_Subset
    <3>3. QED BY <3>1, <3>2, FS_CardinalityType
  <2>6. Size(calls[c].path)' <= Size(calls[c].path)
    <3>1. Size(calls[c].path)' = 0
      BY <1>3, <1>4 DEF Size, Files!Empty, Files!Text
    <3>2. Size(calls[c].path) \in Nat
      BY <1>1, FileTypes DEF p
    <3>3. QED BY <3>1, <3>2
  <2>7. /\ Cardinality(Files!Visible') + Cardinality(Opening') <= Cardinality(Files!Visible) + Cardinality(Opening)
        /\ Cardinality(Files!Visible') + Cardinality(Opening') \in Nat
        /\ Cardinality(Files!Visible) + Cardinality(Opening) \in Nat
    BY <2>3, <2>4, <2>5
  <2>8. QED BY <1>5, <1>6, <2>6, <2>7, WorkHasRoom
<1>12. files'[calls[c].path] = Files!Empty
  BY <1>4 DEF p
<1>13. QED BY <1>5, <1>6, <1>7, <1>8, <1>9, <1>10, <1>11, <1>12, WorkKeeps

\* modify_file empties the file that it read.
LEMMA TruncateKeeps ==
  ASSUME Files!NumbersAssumption, FilesInv, NEW c \in Calls, Files!Truncate(c)
  PROVE  FilesInv'
<1> DEFINE p == calls[c].path
<1>1. /\ FilesTyped /\ StageFits(c) /\ TextStands(c)
      /\ calls \in [Calls -> FileCall] /\ calls[c] \in FileCall
      /\ p \in Paths /\ Files!Empty \in Files!Texts
  BY FileTypes DEF FilesInv, FilesTyped, Files!Empty, Files!Text, Files!Texts
<1>2. /\ calls[c].at = "replacing"
      /\ calls' = [calls EXCEPT ![c].at = "writing", ![c].replaced = files[p]]
      /\ files' = [files EXCEPT ![p] = Files!Empty]
      /\ met' = met /\ peak' = peak
  BY DEF Files!Truncate
<1>3. p \in DOMAIN files /\ files[p] \in Files!Texts /\ calls[c].op = "modify"
  BY <1>1, <1>2, FileTypes DEF StageFits
<1>4. /\ calls'[c].at = "writing" /\ calls'[c].op = "modify" /\ calls'[c].old = calls[c].old
      /\ calls'[c].replaced = files[p]
      /\ calls'[c].path = p /\ calls'[c].size = calls[c].size
      /\ calls' \in [Calls -> FileCall] /\ \A d \in Calls \ {c} : calls'[d] = calls[d]
  BY <1>1, <1>2, <1>3 DEF FileCall
<1>5. /\ DOMAIN files' = DOMAIN files /\ files'[p] = Files!Empty
      /\ \A q \in DOMAIN files : q # p => files'[q] = files[q]
  BY <1>1, <1>2, <1>3 DEF FilesTyped
<1>6. FilesTyped'
  <2>1. files' \in [DOMAIN files' -> Files!Texts] /\ DOMAIN files' \subseteq Paths
    BY <1>1, <1>2, <1>3, <1>5 DEF FilesTyped
  <2>2. QED BY <1>1, <1>2, <1>4, <2>1 DEF FilesTyped
<1> HIDE DEF p
<1>7. Works(c)
  BY <1>2, <1>3, <1>4, <1>5 DEF Works, p
<1>8. StageFits(c)'
  <2>1. c \in Files!Writing
    BY <1>2, <1>3 DEF Files!Writing, Files!Active
  <2>2. calls[c].size <= MaxFile
    BY <1>1, <2>1 DEF StageFits
  <2>3. QED BY <1>3, <1>4, <1>5, <2>2 DEF StageFits
<1>9. TextStands(c)'
  <2>1. c \notin met => calls[c].old = files[p]
    BY <1>1, <1>2 DEF TextStands, p
  <2>2. QED BY <1>2, <1>4, <1>5, <2>1 DEF TextStands
<1>10. Files!CreatesOnlyNew'
  BY <1>4 DEF FilesInv, Files!CreatesOnlyNew
<1>11. TextFits(calls[c].path)'
  <2>1. files'[calls'[c].path] = Files!Empty /\ calls'[c].at = "writing"
    BY <1>4, <1>5
  <2>2. Files!Empty.author = 0 /\ 0 # Files!Mixed
    BY DEF Files!Empty, Files!Text, Files!Mixed
  <2>3. QED BY <2>1, <2>2 DEF TextFits
<1>12. Limited'
  <2>1. Size(calls[c].path)' <= Size(calls[c].path)
    <3>1. Size(calls[c].path)' = 0
      BY <1>4, <1>5 DEF Size, Files!Empty, Files!Text
    <3>2. Size(calls[c].path) \in Nat
      BY <1>1, FileTypes DEF p
    <3>3. QED BY <3>1, <3>2
  <2>2. calls'[c].at # "opening"
    BY <1>4
  <2>3. QED BY <1>5, <1>6, <1>7, <2>1, <2>2, WorkCounts, WorkHasRoom
<1>13. files'[calls[c].path] = Files!Empty
  BY <1>5 DEF p
<1>14. QED BY <1>6, <1>7, <1>8, <1>9, <1>10, <1>11, <1>12, <1>13, WorkKeeps


\* A file is as long as its writer made it, or as another that it met.
LEMMA WriteKeeps ==
  ASSUME Files!NumbersAssumption, FilesInv, NEW c \in Calls, Files!Write(c)
  PROVE  FilesInv'
<1> DEFINE p == calls[c].path
           text == IF files[p].size > calls[c].size THEN Files!Text(Files!Mixed, files[p].size)
                                                    ELSE Files!Text(c, calls[c].size)
<1>1. /\ FilesTyped /\ StageFits(c) /\ TextStands(c)
      /\ calls \in [Calls -> FileCall] /\ calls[c] \in FileCall
      /\ p \in Paths /\ calls[c].size \in Nat /\ c \in Nat \ {0}
  BY FileTypes DEF FilesInv, FilesTyped, Files!NumbersAssumption
<1>2. /\ calls[c].at = "writing" /\ calls' = [calls EXCEPT ![c].at = "done"]
      /\ met' = met /\ peak' = peak
  BY DEF Files!Write, Files!Moves
<1>3. p \in DOMAIN files /\ files[p] \in Files!Texts /\ calls[c].op \in {"create", "modify"}
  BY <1>1, <1>2, FileTypes DEF StageFits
<1>4. files' = [files EXCEPT ![p] = text]
  BY <1>3 DEF Files!Write
<1>5. /\ calls'[c].at = "done" /\ calls'[c].op = calls[c].op /\ calls'[c].old = calls[c].old
      /\ calls'[c].replaced = calls[c].replaced
      /\ calls'[c].path = p /\ calls'[c].size = calls[c].size
      /\ calls' \in [Calls -> FileCall] /\ \A d \in Calls \ {c} : calls'[d] = calls[d]
  BY <1>1, <1>2 DEF FileCall
<1>6. /\ text \in Files!Texts /\ text.author # 0
      /\ text.author = Files!Mixed => files[p].size > calls[c].size /\ text.size = files[p].size
      /\ text.author # Files!Mixed => text.size = calls[c].size
      /\ text.size <= files[p].size \/ text.size <= calls[c].size
  BY <1>1, <1>3 DEF Files!Text, Files!Texts, Files!Mixed
<1>7. c \in Files!Writing /\ calls[c].size <= MaxFile
  BY <1>1, <1>2, <1>3 DEF Files!Writing, Files!Active, StageFits
<1> HIDE DEF text
<1>8. /\ DOMAIN files' = DOMAIN files /\ files'[p] = text
      /\ \A q \in DOMAIN files : q # p => files'[q] = files[q]
  BY <1>1, <1>3, <1>4 DEF FilesTyped
<1>9. FilesTyped'
  <2>1. files' \in [DOMAIN files' -> Files!Texts] /\ DOMAIN files' \subseteq Paths
    BY <1>1, <1>4, <1>6, <1>8 DEF FilesTyped
  <2>2. QED BY <1>1, <1>2, <1>5, <2>1 DEF FilesTyped
<1> HIDE DEF p
<1>10. Works(c)
  BY <1>2, <1>3, <1>5, <1>8 DEF Works, p
<1>11. StageFits(c)'
  <2>1. c \notin Files!Writing'
    BY <1>5 DEF Files!Writing, Files!Active
  <2>2. QED BY <1>3, <1>5, <1>8, <2>1 DEF StageFits
<1>12. TextStands(c)'
  <2>1. calls[c].op = "modify" /\ c \notin met => calls[c].old = calls[c].replaced
    BY <1>1, <1>2 DEF TextStands
  <2>2. QED BY <1>2, <1>3, <1>5, <2>1 DEF TextStands
<1>13. Files!CreatesOnlyNew'
  <2>1. \A d \in Calls : /\ calls'[d].op = calls[d].op /\ calls'[d].path = calls[d].path
                         /\ calls'[d].at \in {"writing", "done"} <=> calls[d].at \in {"writing", "done"}
    BY <1>2, <1>5 DEF p
  <2>2. QED BY <2>1 DEF FilesInv, Files!CreatesOnlyNew
<1>14. TextFits(calls[c].path)'
  <2>1. text.author = Files!Mixed => files[p].author # 0 /\ c \in met
    <3>1. Files!Empty.size = 0
      BY DEF Files!Empty, Files!Text
    <3>2. files[p].size > calls[c].size => files[p] # Files!Empty
      BY <1>1, <3>1
    <3>3. QED BY <1>1, <1>2, <1>6, <3>2 DEF TextStands, p
  <2>2. text.size <= MaxFile
    <3>1. CASE text.author = Files!Mixed
      <4>1. files[p].size <= MaxFile
        BY <1>3, <2>1, <3>1 DEF FilesInv, TextFits
      <4>2. QED BY <1>6, <3>1, <4>1
    <3>2. CASE text.author # Files!Mixed
      BY <1>6, <1>7, <3>2
    <3>3. QED BY <3>1, <3>2
  <2>3. text # Files!Empty
    BY <1>6 DEF Files!Empty, Files!Text
  <2>4. text.author = Files!Mixed =>
          \E d, e \in met' : d # e /\ calls'[d].path = p /\ calls'[e].path = p
    <3> SUFFICES ASSUME text.author = Files!Mixed
                 PROVE  \E d, e \in met' : d # e /\ calls'[d].path = p /\ calls'[e].path = p
      OBVIOUS
    <3>1. c \in met
      BY <2>1
    <3>2. PICK d \in met : d # c /\ calls[d].path = calls[c].path
      BY <3>1 DEF FilesInv, MetAreMet
    <3>3. calls'[d].path = p /\ calls'[c].path = p
      BY <1>1, <1>5, <3>2 DEF p, FilesTyped
    <3>4. QED BY <1>2, <3>1, <3>2, <3>3
  <2>5. /\ files'[calls'[c].path] = text /\ calls'[c].path = p
    BY <1>5, <1>8
  <2>6. QED BY <1>6, <2>2, <2>3, <2>4, <2>5 DEF TextFits
<1>15. Limited'
  <2>1. Size(calls[c].path)' <= Size(calls[c].path) \/ Size(calls[c].path)' <= calls[c].size
    <3>1. Size(calls[c].path)' = text.size
      BY <1>3, <1>5, <1>8 DEF Size
    <3>2. Size(calls[c].path) = files[p].size
      BY <1>3 DEF Size, p
    <3>3. QED BY <1>6, <3>1, <3>2
  <2>2. calls'[c].at # "opening"
    BY <1>5
  <2>3. QED BY <1>7, <1>8, <1>9, <1>10, <2>1, <2>2, WorkCounts, WorkHasRoom
<1>16. files'[calls[c].path].author # 0
  BY <1>6, <1>8 DEF p
<1>17. QED BY <1>9, <1>10, <1>11, <1>12, <1>13, <1>14, <1>15, <1>16, WorkKeeps

\* There is room for the longest text of each of the calls W.
LEMMA RoomForEach ==
  ASSUME Files!NumbersAssumption, NEW W \in SUBSET Calls, IsFiniteSet(W),
         NEW room \in [Listed -> [size : Nat]]
  PROVE  \E more \in [Listed -> [size : Nat]] :
           /\ \A p \in Listed : room[p].size <= more[p].size
           /\ \A c \in W : calls[c].path \in Listed => MaxFile <= more[calls[c].path].size
           /\ Sum(more, Listed) <= Sum(room, Listed) + Cardinality(W) * MaxFile
<1> DEFINE Makes(U, more) ==
             /\ \A p \in Listed : room[p].size <= more[p].size
             /\ \A c \in U : calls[c].path \in Listed => MaxFile <= more[calls[c].path].size
             /\ Sum(more, Listed) <= Sum(room, Listed) + Cardinality(U) * MaxFile
           F == {U \in SUBSET W : \E more \in [Listed -> [size : Nat]] : Makes(U, more)}
<1>1. IsFiniteSet(Listed) /\ MaxFile \in Nat
  <2>1. IsFiniteSet(Paths) /\ Listed \in SUBSET Paths
    BY DEF Files!NumbersAssumption, Files!IsFiniteSet, IsFiniteSet, Listed
  <2>2. QED BY <2>1, FS_Subset DEF Files!NumbersAssumption
<1>2. \A texts \in [Listed -> [size : Nat]] :
        /\ Sized(texts, Listed) /\ Sum(texts, Listed) \in Nat
        /\ \A p \in Listed : texts[p].size \in Nat
  <2> SUFFICES ASSUME NEW texts \in [Listed -> [size : Nat]]
               PROVE  /\ Sized(texts, Listed) /\ Sum(texts, Listed) \in Nat
                      /\ \A p \in Listed : texts[p].size \in Nat
    OBVIOUS
  <2>1. Sized(texts, Listed)
    BY DEF Sized
  <2>2. QED BY <1>1, <2>1, SumIsNat DEF Sized
<1>3. {} \in F
  <2>1. Cardinality({}) = 0
    BY FS_EmptySet
  <2>2. Makes({}, room)
    BY <1>1, <1>2, <2>1
  <2>3. QED BY <2>2
<1>4. ASSUME NEW U \in SUBSET W, \A s \in SUBSET U : s # U => s \in F
      PROVE  U \in F
  <2>1. CASE U = {}
    BY <1>3, <2>1
  <2>2. CASE U # {}
    <3>1. PICK c \in U : TRUE
      BY <2>2
    <3> DEFINE V == U \ {c}
    <3>2. V \in F
      BY <1>4, <3>1
    <3>3. PICK more \in [Listed -> [size : Nat]] : Makes(V, more)
      BY <3>2
    <3>4. /\ Cardinality(U) = Cardinality(V) + 1 /\ Cardinality(V) \in Nat
      <4>1. IsFiniteSet(U)
        BY FS_Subset
      <4>2. Cardinality(V) = Cardinality(U) - 1 /\ IsFiniteSet(V) /\ Cardinality(U) \in Nat
        BY <3>1, <4>1, FS_RemoveElement, FS_CardinalityType
      <4>3. Cardinality(V) \in Nat
        BY <4>2, FS_CardinalityType
      <4> HIDE DEF V
      <4>4. QED BY <4>2, <4>3
    <3>5. Cardinality(U) * MaxFile = Cardinality(V) * MaxFile + MaxFile /\ Cardinality(V) * MaxFile \in Nat
      <4> HIDE DEF V
      <4>1. ASSUME NEW m \in Nat, NEW n \in Nat, m = n + 1
            PROVE  m * MaxFile = n * MaxFile + MaxFile /\ n * MaxFile \in Nat
        BY <1>1, <4>1
      <4>2. Cardinality(U) \in Nat
        BY <3>4
      <4>3. QED BY <3>4, <4>1, <4>2
    <3>6. /\ \A p \in Listed : room[p].size <= more[p].size
          /\ \A d \in V : calls[d].path \in Listed => MaxFile <= more[calls[d].path].size
          /\ Sum(more, Listed) <= Sum(room, Listed) + Cardinality(V) * MaxFile
      BY <3>3
    <3>7. CASE calls[c].path \notin Listed
      <4>1. \A d \in U : calls[d].path \in Listed => MaxFile <= more[calls[d].path].size
        BY <3>6, <3>7
      <4>2. Sum(more, Listed) <= Sum(room, Listed) + Cardinality(U) * MaxFile
        <5>1. Sum(more, Listed) \in Nat /\ Sum(room, Listed) \in Nat
          BY <1>2
        <5> HIDE DEF V
        <5>2. QED BY <1>1, <3>5, <3>6, <5>1
      <4>3. Makes(U, more)
        BY <3>6, <4>1, <4>2
      <4>4. QED BY <4>3
    <3>8. CASE calls[c].path \in Listed
      <4> DEFINE p == calls[c].path
                 most == [more EXCEPT ![p] = [size |-> more[p].size + MaxFile]]
      <4>1. \A q \in Listed : more[q].size \in Nat
        BY <1>2
      <4>2. /\ most \in [Listed -> [size : Nat]] /\ most[p].size = more[p].size + MaxFile
            /\ \A q \in Listed : q # p => most[q] = more[q]
        BY <1>1, <3>8, <4>1
      <4> HIDE DEF most, p
      <4>3. p \in Listed /\ p = calls[c].path
        BY <3>8 DEF p
      <4>4. \A q \in Listed : more[q].size <= most[q].size /\ most[q].size \in Nat
        BY <1>1, <4>1, <4>2
      <4>5. \A q \in Listed : room[q].size <= most[q].size
        <5>1. \A q \in Listed : room[q].size \in Nat
          BY <1>2
        <5>2. QED BY <3>6, <4>1, <4>4, <5>1
      <4>6. \A d \in U : calls[d].path \in Listed => MaxFile <= most[calls[d].path].size
        <5>1. MaxFile <= most[p].size
          BY <1>1, <4>1, <4>2, <4>3
        <5>2. \A d \in V : calls[d].path \in Listed => MaxFile <= most[calls[d].path].size
          BY <1>1, <3>6, <4>1, <4>4
        <5>3. QED BY <4>3, <5>1, <5>2
      <4>7. Sum(most, Listed) = Sum(more, Listed) + MaxFile
        <5>1. \A q \in Listed \ {p} : most[q].size = more[q].size
          BY <4>2
        <5>2. Sum(most, Listed) = Sum(more, Listed) - more[p].size + most[p].size
          BY <1>1, <1>2, <4>2, <4>3, <5>1, SumFollows
        <5>3. Sum(more, Listed) \in Nat /\ more[p].size \in Nat
          BY <1>2, <4>3
        <5>4. QED BY <1>1, <4>2, <5>2, <5>3
      <4>8. Sum(most, Listed) <= Sum(room, Listed) + Cardinality(U) * MaxFile
        <5>1. Sum(more, Listed) \in Nat /\ Sum(room, Listed) \in Nat
          BY <1>2
        <5> HIDE DEF V
        <5>2. QED BY <1>1, <3>5, <3>6, <4>7, <5>1
      <4>9. Makes(U, most)
        BY <4>5, <4>6, <4>8
      <4>10. QED BY <4>2, <4>9
    <3>9. QED BY <3>7, <3>8
  <2>3. QED BY <2>1, <2>2
<1>5. W \in F
  <2>1. F \in SUBSET SUBSET W
    OBVIOUS
  <2> HIDE DEF F
  <2>2. QED BY <1>3, <1>4, <2>1, SubsetsFrom
<1>6. QED BY <1>5


\* A call that is one of n + 1 that write has n peers at least.
LEMMA PeersGrow ==
  ASSUME NEW k \in Nat, NEW m \in Nat, k <= m, NEW n \in Nat, n + 1 <= m
  PROVE  /\ (IF k = 0 THEN 0 ELSE k - 1) \in Nat /\ (IF m = 0 THEN 0 ELSE m - 1) \in Nat
         /\ (IF k = 0 THEN 0 ELSE k - 1) <= (IF m = 0 THEN 0 ELSE m - 1)
         /\ n <= (IF m = 0 THEN 0 ELSE m - 1)
OBVIOUS

\* A write that passes the limits fits beside what is there now; what the
\* others may still make of their files is what the limits give way to.
LEMMA BeginHasRoom ==
  ASSUME Files!NumbersAssumption, FilesInv, NEW c \in Calls, NEW p \in Paths, NEW size \in Nat,
         c \notin Files!Writing, size <= MaxFile,
         Files!Writing' = Files!Writing \cup {c},
         files' = files, \A d \in Calls \ {c} : calls'[d] = calls[d],
         calls'[c].path = p, calls'[c].size = size,
         peak' \in Nat, peak <= peak', Cardinality(Files!Writing) + 1 <= peak',
         Files!Bytes(Files!Visible) - Size(p) + size <= MaxTotal
  PROVE  \E room \in [Listed -> [size : Nat]] : IsRoom(room)'
<1> DEFINE n == Cardinality(Files!Writing)
<1>1. /\ IsFiniteSet(Listed) /\ IsFiniteSet(Files!Writing) /\ n \in Nat
      /\ Files!Visible \in SUBSET Listed /\ Files!Writing \in SUBSET Calls
      /\ MaxFile \in Nat /\ MaxTotal \in Nat /\ peak \in Nat
  BY FilesFinite DEF Files!NumbersAssumption, FilesInv, FilesTyped, Files!Writing
<1>2. Peers \in Nat /\ Peers' \in Nat /\ Peers <= Peers' /\ n <= Peers'
  <2>1. n \in Nat /\ peak \in Nat /\ n + 1 <= peak'
    BY <1>1
  <2> HIDE DEF n
  <2>2. QED BY <2>1, PeersGrow DEF Peers
<1>3. Peers * MaxFile <= Peers' * MaxFile /\ n * MaxFile <= Peers' * MaxFile
      /\ Peers * MaxFile \in Nat /\ Peers' * MaxFile \in Nat /\ n * MaxFile \in Nat
  <2>1. ASSUME NEW i \in Nat, NEW j \in Nat, i <= j
        PROVE  i * MaxFile <= j * MaxFile /\ i * MaxFile \in Nat
    BY <1>1, <2>1
  <2> HIDE DEF n
  <2>2. n \in Nat /\ n <= Peers'
    BY <1>1, <1>2
  <2>3. QED BY <1>2, <2>1, <2>2
<1>4. PICK room \in [Listed -> [size : Nat]] : IsRoom(room)
  BY DEF FilesInv, Limited
<1>5. \A texts \in [Listed -> [size : Nat]] :
        /\ Sized(texts, Listed) /\ Sum(texts, Listed) \in Nat
        /\ \A q \in Listed : texts[q].size \in Nat
  <2> SUFFICES ASSUME NEW texts \in [Listed -> [size : Nat]]
               PROVE  /\ Sized(texts, Listed) /\ Sum(texts, Listed) \in Nat
                      /\ \A q \in Listed : texts[q].size \in Nat
    OBVIOUS
  <2>1. Sized(texts, Listed)
    BY DEF Sized
  <2>2. QED BY <1>1, <2>1, SumIsNat DEF Sized
<1>6. \A q \in Paths : Size(q) \in Nat /\ Size(q)' = Size(q)
  BY FileTypes DEF FilesInv, Size
<1>7. Listed \subseteq Paths
  BY DEF Listed
<1>8. /\ \A q \in Listed : Size(q) <= room[q].size
      /\ \A d \in Files!Writing : calls[d].path \in Listed => calls[d].size <= room[calls[d].path].size
      /\ Sum(room, Listed) <= MaxTotal + Peers * MaxFile
  BY <1>4 DEF IsRoom
\* What is to be shown of a room.
<1>9. ASSUME NEW more \in [Listed -> [size : Nat]],
             \A q \in Listed : Size(q) <= more[q].size,
             \A d \in Files!Writing : calls[d].path \in Listed => calls[d].size <= more[calls[d].path].size,
             p \in Listed => size <= more[p].size,
             Sum(more, Listed) <= MaxTotal + Peers' * MaxFile
      PROVE  IsRoom(more)'
  <2>1. \A q \in Listed : Size(q)' <= more[q].size
    BY <1>6, <1>7, <1>9
  <2>2. \A d \in Files!Writing' : calls'[d].path \in Listed => calls'[d].size <= more[calls'[d].path].size
    <3>1. \A d \in Files!Writing : calls'[d] = calls[d]
      BY <1>1
    <3>2. QED BY <1>9, <3>1
  <2>3. QED BY <1>9, <2>1, <2>2 DEF IsRoom, Listed
<1>10. CASE p \in Listed => size <= room[p].size
  <2>1. Sum(room, Listed) <= MaxTotal + Peers' * MaxFile
    <3>1. Sum(room, Listed) \in Nat
      BY <1>5
    <3>2. QED BY <1>1, <1>3, <1>8, <3>1
  <2>2. IsRoom(room)'
    BY <1>8, <1>9, <1>10, <2>1
  <2>3. QED BY <2>2
<1>11. CASE p \in Listed /\ ~(size <= room[p].size)
  <2> DEFINE now == [q \in Listed |-> [size |-> Size(q)]]
  <2>1. now \in [Listed -> [size : Nat]]
    BY <1>6, <1>7
  <2>2. Sum(now, Listed) = Files!Bytes(Files!Visible)
    <3>1. Sized(now, Listed)
      BY <1>5, <2>1
    <3>2. \A q \in Files!Visible : now[q].size = files[q].size
      BY <1>1 DEF Size, Files!Visible
    <3>3. \A q \in Listed \ Files!Visible : now[q].size = 0
      BY DEF Size, Files!Visible, Listed
    <3> HIDE DEF now
    <3>4. Sum(now, Listed) = Sum(files, Files!Visible)
      BY <1>1, <3>1, <3>2, <3>3, SumOfPart
    <3>5. QED BY <3>4 DEF Files!Bytes, Sum
  <2>3. \A q \in Listed : now[q].size = Size(q)
    OBVIOUS
  <2> HIDE DEF now
  <2>4. PICK more \in [Listed -> [size : Nat]] :
          /\ \A q \in Listed : now[q].size <= more[q].size
          /\ \A d \in Files!Writing : calls[d].path \in Listed => MaxFile <= more[calls[d].path].size
          /\ Sum(more, Listed) <= Sum(now, Listed) + n * MaxFile
    BY <1>1, <2>1, RoomForEach
  <2> DEFINE most == [more EXCEPT ![p] = [size |-> size]]
  <2>5. /\ most \in [Listed -> [size : Nat]] /\ most[p].size = size
        /\ \A q \in Listed : q # p => most[q] = more[q]
    BY <1>11
  <2> HIDE DEF most
  <2>6. Sum(most, Listed) = Sum(more, Listed) - more[p].size + size
    <3>1. \A q \in Listed \ {p} : most[q].size = more[q].size
      BY <2>5
    <3>2. QED BY <1>1, <1>5, <1>11, <2>5, <3>1, SumFollows
  <2>7. Sum(most, Listed) <= MaxTotal + Peers' * MaxFile
    <3>1. /\ Sum(more, Listed) \in Nat /\ Sum(now, Listed) \in Nat /\ more[p].size \in Nat
          /\ Size(p) \in Nat /\ Size(p) <= more[p].size
      BY <1>5, <1>6, <1>11, <2>1, <2>3, <2>4
    <3>2. Sum(more, Listed) <= Sum(now, Listed) + n * MaxFile
      BY <2>4
    <3>3. Sum(now, Listed) - Size(p) + size <= MaxTotal
      BY <2>2
    <3> HIDE DEF n
    <3>4. QED BY <1>1, <1>3, <2>6, <3>1, <3>2, <3>3
  <2>8. \A q \in Listed : room[q].size \in Nat /\ more[q].size \in Nat
    BY <1>5
  <2>9. \A q \in Listed : Size(q) <= most[q].size
    <3>1. Size(p) <= size
      BY <1>6, <1>8, <1>11, <2>8
    <3>2. \A q \in Listed : q # p => Size(q) <= most[q].size
      BY <2>3, <2>4, <2>5
    <3>3. QED BY <2>5, <3>1, <3>2
  <2>10. \A d \in Files!Writing : calls[d].path \in Listed => calls[d].size <= most[calls[d].path].size
    <3> SUFFICES ASSUME NEW d \in Files!Writing, calls[d].path \in Listed
                 PROVE  calls[d].size <= most[calls[d].path].size
      OBVIOUS
    <3>1. d \in Calls /\ calls[d].size \in Nat /\ calls[d].size <= MaxFile
      BY <1>1, FileTypes DEF FilesInv, StageFits
    <3>2. CASE calls[d].path = p
      <4>1. calls[d].size <= room[p].size
        BY <1>8, <3>2
      <4>2. QED BY <1>11, <2>5, <2>8, <3>1, <3>2, <4>1
    <3>3. CASE calls[d].path # p
      <4>1. MaxFile <= more[calls[d].path].size /\ most[calls[d].path] = more[calls[d].path]
        BY <2>4, <2>5, <3>3
      <4>2. QED BY <1>1, <2>8, <3>1, <4>1
    <3>4. QED BY <3>2, <3>3
  <2>11. IsRoom(most)'
    BY <1>9, <2>5, <2>7, <2>9, <2>10
  <2>12. QED BY <2>5, <2>11
<1>12. QED BY <1>10, <1>11


\* A call begins. Whom it meets it meets now, and if it writes, the limits held
\* with its text a moment ago.
LEMMA BeginKeeps ==
  ASSUME Files!NumbersAssumption, FilesInv,
         NEW c \in Calls, NEW op \in {"create", "modify", "read"}, NEW p \in Paths, NEW size \in Nat,
         NEW passes, NEW stage,
         Files!Begin(c, op, p, size, passes, stage),
         \/ op = "create" /\ stage = "opening" /\ (passes => Files!Fits(p, size, FALSE))
         \/ op = "modify" /\ stage = "looking" /\ (passes => p \in DOMAIN files /\ Files!Fits(p, size, TRUE))
         \/ op = "read" /\ stage = "reading" /\ (passes => p \in DOMAIN files /\ size = files[p].size)
  PROVE  FilesInv'
<1> DEFINE others == {d \in Calls : Files!Active(d) /\ calls[d].path = p}
           to == IF passes THEN stage ELSE "failed"
<1>1. /\ FilesTyped /\ calls \in [Calls -> FileCall] /\ Files!Empty \in Files!Texts
      /\ met \subseteq Calls /\ peak \in Nat
  BY DEF FilesInv, FilesTyped, Files!Empty, Files!Text, Files!Texts
<1>2. /\ calls[c].at = "unused" /\ files' = files
      /\ calls' = [calls EXCEPT ![c] = [Files!Unused EXCEPT !.op = op, !.path = p, !.size = size, !.at = to]]
      /\ met' = IF passes /\ others # {} THEN met \cup others \cup {c} ELSE met
      /\ peak' = IF passes /\ op # "read" /\ Cardinality(Files!Writing) >= peak
                   THEN Cardinality(Files!Writing) + 1 ELSE peak
  BY DEF Files!Begin, Files!Cardinality, Cardinality
<1>3. to \in {"opening", "looking", "reading", "failed"} /\ (to # "failed" => passes /\ to = stage)
  OBVIOUS
<1> HIDE DEF to
<1>4. /\ calls'[c].op = op /\ calls'[c].path = p /\ calls'[c].size = size /\ calls'[c].at = to
      /\ calls' \in [Calls -> FileCall] /\ \A d \in Calls \ {c} : calls'[d] = calls[d]
  BY <1>1, <1>2, <1>3 DEF FileCall, Files!Unused
<1>5. Cardinality(Files!Writing) \in Nat /\ peak' \in Nat /\ peak <= peak'
  <2>1. Cardinality(Files!Writing) \in Nat
    BY FilesFinite
  <2>2. QED BY <1>1, <1>2, <2>1
<1>6. met \subseteq met' /\ met' \subseteq Calls /\ others \subseteq Calls \ {c} /\ \A d \in met : d # c
  <2>1. \A d \in met : d # c
    BY <1>2 DEF FilesInv, MetAreMet
  <2>2. others \subseteq Calls \ {c}
    BY <1>2 DEF Files!Active
  <2>3. QED BY <1>1, <1>2, <2>1, <2>2
<1>7. FilesTyped'
  BY <1>1, <1>2, <1>4, <1>5, <1>6 DEF FilesTyped
<1>8. /\ \A d \in Calls \ {c} : Files!Active(d)' <=> Files!Active(d)
      /\ Files!Active(c)' => passes /\ to = stage
  BY <1>3, <1>4 DEF Files!Active
<1>9. MetAreMet'
  <2>1. ASSUME NEW d \in Calls, NEW e \in Calls, d # e, Files!Active(d)', Files!Active(e)',
               calls'[d].path = calls'[e].path
        PROVE  d \in met' /\ e \in met'
    <3>1. CASE d = c
      <4>1. passes /\ e \in others
        BY <1>4, <1>8, <2>1, <3>1
      <4>2. QED BY <1>2, <3>1, <4>1
    <3>2. CASE e = c
      <4>1. passes /\ d \in others
        BY <1>4, <1>8, <2>1, <3>2
      <4>2. QED BY <1>2, <3>2, <4>1
    <3>3. CASE d # c /\ e # c
      <4>1. d \in met /\ e \in met
        BY <1>4, <1>8, <2>1, <3>3 DEF FilesInv, MetAreMet
      <4>2. QED BY <1>6, <4>1
    <3>4. QED BY <3>1, <3>2, <3>3
  <2>2. ASSUME NEW d \in met'
        PROVE  calls'[d].at # "unused" /\ \E e \in met' : e # d /\ calls'[e].path = calls'[d].path
    <3>1. CASE d \in met
      <4>1. PICK e \in met : e # d /\ calls[e].path = calls[d].path
        BY <3>1 DEF FilesInv, MetAreMet
      <4>2. calls'[d] = calls[d] /\ calls'[e] = calls[e] /\ e \in met'
        BY <1>1, <1>4, <1>6, <3>1
      <4>3. calls[d].at # "unused"
        BY <3>1 DEF FilesInv, MetAreMet
      <4>4. QED BY <4>1, <4>2, <4>3
    <3>2. CASE d \notin met
      <4>1. others # {} /\ met' = met \cup others \cup {c} /\ d \in others \cup {c}
        BY <1>2, <3>2
      <4>2. calls'[c].path = p /\ calls'[c].at # "unused"
        BY <1>3, <1>4
      <4>3. \A e \in others : e # c /\ calls'[e].path = p /\ calls'[e].at # "unused"
        BY <1>4, <1>6 DEF Files!Active
      <4>4. QED BY <4>1, <4>2, <4>3
    <3>3. QED BY <3>1, <3>2
  <2>3. QED BY <2>1, <2>2 DEF MetAreMet
<1>10. passes /\ op # "read" => size <= MaxFile
  BY DEF Files!Fits
<1>11. ASSUME NEW d \in Calls
       PROVE  StageFits(d)'
  <2>1. CASE d # c
    <3>1. calls'[d] = calls[d] /\ StageFits(d)
      BY <1>4, <2>1 DEF FilesInv
    <3>2. QED BY <1>2, <3>1 DEF StageFits, Files!Writing, Files!Active
  <2>2. CASE d = c
    <3>1. c \in Files!Writing' => size <= MaxFile
      BY <1>4, <1>8, <1>10 DEF Files!Writing
    <3>2. QED BY <1>2, <1>3, <1>4, <2>2, <3>1 DEF StageFits
  <2>3. QED BY <2>1, <2>2
<1>12. ASSUME NEW d \in Calls
       PROVE  TextStands(d)'
  <2>1. CASE d # c
    <3>1. calls'[d] = calls[d] /\ TextStands(d)
      BY <1>4, <2>1 DEF FilesInv
    <3>2. QED BY <1>2, <1>6, <3>1 DEF TextStands
  <2>2. CASE d = c
    <3>1. to = "reading" /\ c \notin met' => files[p] # Files!Empty /\ size = files[p].size
      <4> SUFFICES ASSUME to = "reading", c \notin met'
                   PROVE  files[p] # Files!Empty /\ size = files[p].size
        OBVIOUS
      <4>1. passes /\ op = "read" /\ p \in DOMAIN files /\ size = files[p].size
        BY <1>3
      <4>2. others = {}
        BY <1>2, <4>1
      <4>3. files[p] # Files!Empty
        BY <4>1, <4>2 DEF FilesInv, TextFits, Files!Active
      <4>4. QED BY <4>1, <4>3
    <3>2. QED BY <1>2, <1>3, <1>4, <2>2, <3>1 DEF TextStands
  <2>3. QED BY <2>1, <2>2
<1>13. ASSUME NEW q \in DOMAIN files'
       PROVE  TextFits(q)'
  <2>1. q \in DOMAIN files /\ TextFits(q)
    BY <1>2 DEF FilesInv
  <2>2. files[q] = Files!Empty => \E d \in Calls : calls'[d].path = q /\ calls'[d].at = "writing"
    <3>1. \A d \in Calls : calls[d].at = "writing" => calls'[d] = calls[d]
      BY <1>2, <1>4
    <3>2. QED BY <2>1, <3>1 DEF TextFits
  <2>3. files[q].author = Files!Mixed =>
          \E d, e \in met' : d # e /\ calls'[d].path = q /\ calls'[e].path = q
    <3>1. \A d \in met : d \in met' /\ calls'[d] = calls[d]
      BY <1>1, <1>4, <1>6
    <3>2. QED BY <2>1, <3>1 DEF TextFits
  <2>4. QED BY <1>2, <2>1, <2>2, <2>3 DEF TextFits
<1>14. Files!CreatesOnlyNew'
  <2>1. \A d \in Calls : calls'[d].at \in {"writing", "done"} => d # c /\ calls'[d] = calls[d]
    BY <1>3, <1>4
  <2>2. QED BY <2>1 DEF FilesInv, Files!CreatesOnlyNew
<1>15. Limited'
  <2>1. /\ Files!Visible' = Files!Visible /\ Cardinality(Files!Visible) \in Nat
        /\ IsFiniteSet(Files!Writing) /\ IsFiniteSet(Opening) /\ Cardinality(Opening) \in Nat
        /\ Cardinality(Files!Writing) <= peak /\ MaxFiles \in Nat
        /\ Cardinality(Files!Visible) + Cardinality(Opening) <= MaxFiles + Peers
        /\ Opening \in SUBSET Files!Writing
    BY <1>2, FilesFinite DEF Files!Visible, FilesInv, Limited, Files!NumbersAssumption
  <2>2. c \notin Files!Writing /\ c \notin Opening
    BY <1>2 DEF Files!Writing, Files!Active, Opening
  <2>3. CASE ~passes \/ op = "read"
    <3>1. Files!Writing' = Files!Writing /\ Opening' = Opening /\ peak' = peak
      BY <1>2, <1>3, <1>4, <1>8, <2>2, <2>3 DEF Files!Writing, Opening
    <3>2. \A room : IsRoom(room) => IsRoom(room)'
      <4>1. \A d \in Files!Writing : calls'[d] = calls[d]
        BY <1>4, <2>2 DEF Files!Writing
      <4>2. QED BY <1>2, <3>1, <4>1 DEF IsRoom, Size, Peers, Listed
    <3>3. \E room \in [Listed -> [size : Nat]] : IsRoom(room)'
      BY <3>2 DEF FilesInv, Limited
    <3>4. QED BY <2>1, <3>1, <3>3 DEF Limited, Peers, Listed
  <2>4. CASE passes /\ op # "read"
    <3>1. Files!Writing' = Files!Writing \cup {c}
      BY <1>3, <1>4, <1>8, <2>4 DEF Files!Writing, Files!Active, to
    <3>2. /\ IsFiniteSet(Files!Writing') /\ Cardinality(Files!Writing') = Cardinality(Files!Writing) + 1
      BY <2>1, <2>2, <3>1, FS_AddElement
    <3>3. Cardinality(Files!Writing) + 1 <= peak'
      BY <1>2, <1>5, <2>1, <2>4
    <3>4. Cardinality(Opening) <= Cardinality(Files!Writing)
      BY <2>1, FS_Subset
    <3>5. Cardinality(Files!Visible') + Cardinality(Opening') <= MaxFiles + Peers'
      <4>1. Peers \in Nat /\ Peers <= Peers' /\ Cardinality(Files!Writing) <= Peers' /\ Peers' \in Nat
        <5>1. PICK n \in Nat : n = Cardinality(Files!Writing)
          BY <1>5
        <5>2. n + 1 <= peak'
          BY <3>3, <5>1
        <5>3. Peers \in Nat /\ Peers <= Peers' /\ n <= Peers' /\ Peers' \in Nat
          BY <1>1, <1>5, <5>2, PeersGrow DEF Peers
        <5>4. QED BY <5>1, <5>3
      <4>2. CASE op = "create"
        <5>1. Opening' = Opening \cup {c}
          BY <1>4, <2>4, <4>2 DEF Opening, to
        <5>2. Cardinality(Opening') = Cardinality(Opening) + 1
          BY <2>1, <2>2, <5>1, FS_AddElement
        <5>3. Cardinality(Files!Visible) + 1 <= MaxFiles
          BY <2>4, <4>2 DEF Files!Fits, Files!Cardinality, Cardinality
        <5>4. QED BY <1>5, <2>1, <3>4, <4>1, <5>2, <5>3
      <4>3. CASE op = "modify"
        <5>1. Opening' = Opening
          BY <1>4, <2>2, <2>4, <4>3 DEF Opening, to
        <5>2. QED BY <2>1, <4>1, <5>1
      <4>4. QED BY <2>4, <4>2, <4>3
    <3>6. Files!Bytes(Files!Visible) - Size(p) + size <= MaxTotal
      <4>1. Size(p) \in Nat /\ MaxTotal \in Nat
        BY FileTypes DEF FilesInv, Files!NumbersAssumption
      <4>2. Files!Bytes(Files!Visible) \in Nat
        <5>1. \A q \in DOMAIN files : files[q].size \in Nat
          BY FileTypes DEF FilesInv
        <5>2. Sized(files, Files!Visible)
          BY <5>1 DEF Sized, Files!Visible
        <5>3. IsFiniteSet(Files!Visible)
          BY FilesFinite
        <5>4. Sum(files, Files!Visible) \in Nat
          BY <5>2, <5>3, SumIsNat
        <5>5. QED BY <5>4 DEF Files!Bytes, Sum
      <4>3. CASE op = "create"
        <5>1. Files!Bytes(Files!Visible) - 0 + size <= MaxTotal
          BY <2>4, <4>3 DEF Files!Fits
        <5>2. QED BY <4>1, <4>2, <5>1
      <4>4. CASE op = "modify"
        <5>1. p \in DOMAIN files /\ Files!Bytes(Files!Visible) - files[p].size + size <= MaxTotal
          BY <2>4, <4>4 DEF Files!Fits
        <5>2. QED BY <5>1 DEF Size
      <4>5. QED BY <2>4, <4>3, <4>4
    <3>7. \E room \in [Listed -> [size : Nat]] : IsRoom(room)'
      BY <1>2, <1>4, <1>5, <1>10, <2>2, <2>4, <3>1, <3>3, <3>6, BeginHasRoom
    <3>8. Cardinality(Files!Writing') <= peak'
      BY <3>2, <3>3
    <3>9. QED BY <3>2, <3>5, <3>7, <3>8 DEF Limited, Listed
  <2>5. QED BY <2>3, <2>4
<1>16. QED BY <1>7, <1>9, <1>11, <1>12, <1>13, <1>14, <1>15 DEF FilesInv

LEMMA FilesNext ==
  ASSUME Files!NumbersAssumption, FilesInv, [Files!Next]_(Files!vars)
  PROVE  FilesInv'
<1>1. CASE UNCHANGED Files!vars
  <2>1. files' = files /\ calls' = calls /\ met' = met /\ peak' = peak
    BY <1>1 DEF Files!vars
  <2>2. /\ Files!Writing' = Files!Writing /\ Files!Visible' = Files!Visible /\ Opening' = Opening
        /\ \A room : IsRoom(room)' <=> IsRoom(room)
    BY <2>1 DEF Files!Writing, Files!Active, Files!Visible, Opening, IsRoom, Size, Peers, Listed
  <2>3. Limited'
    BY <2>1, <2>2 DEF FilesInv, Limited, Peers, Listed
  <2>4. FilesTyped' /\ MetAreMet' /\ Files!CreatesOnlyNew'
    BY <2>1 DEF FilesInv, FilesTyped, MetAreMet, Files!Active, Files!CreatesOnlyNew
  <2>5. \A c \in Calls : StageFits(c)' /\ TextStands(c)'
    BY <2>1, <2>2 DEF FilesInv, StageFits, TextStands
  <2>6. \A p \in DOMAIN files' : TextFits(p)'
    BY <2>1 DEF FilesInv, TextFits
  <2>7. QED BY <2>3, <2>4, <2>5, <2>6 DEF FilesInv
<1>2. CASE Files!Next
  <2>1. PICK c \in Calls :
          \/ \E path \in Paths, size \in Sizes : Files!Create(c, path, size)
          \/ \E path \in Paths, size \in Sizes : Files!Modify(c, path, size)
          \/ \E path \in Paths : Files!Read(c, path)
          \/ Files!Open(c) \/ Files!Look(c) \/ Files!Truncate(c)
          \/ Files!Write(c) \/ Files!Take(c) \/ Files!Cancel(c)
    BY <1>2 DEF Files!Next
  <2>2. Sizes \subseteq Nat
    BY DEF Files!NumbersAssumption
  <2>3. ASSUME NEW path \in Paths, NEW size \in Sizes, Files!Create(c, path, size)
        PROVE  FilesInv'
    BY <2>2, <2>3, BeginKeeps DEF Files!Create
  <2>4. ASSUME NEW path \in Paths, NEW size \in Sizes, Files!Modify(c, path, size)
        PROVE  FilesInv'
    BY <2>2, <2>4, BeginKeeps DEF Files!Modify
  <2>5. ASSUME NEW path \in Paths, Files!Read(c, path)
        PROVE  FilesInv'
    <3> DEFINE passes == path \in DOMAIN files /\ files[path].size <= MaxRead
               size == IF passes THEN files[path].size ELSE 0
    <3>1. Files!Begin(c, "read", path, size, passes, "reading")
      BY <2>5 DEF Files!Read
    <3>2. size \in Nat
      BY FileTypes DEF FilesInv
    <3>3. passes => path \in DOMAIN files /\ size = files[path].size
      OBVIOUS
    <3> HIDE DEF passes, size
    <3>4. QED BY <3>1, <3>2, <3>3, BeginKeeps
  <2>6. QED BY <2>1, <2>3, <2>4, <2>5, OpenKeeps, LookKeeps, TruncateKeeps, WriteKeeps, TakeKeeps, CancelKeeps
<1>3. QED BY <1>1, <1>2


LEMMA FilesInvSound ==
  ASSUME Files!NumbersAssumption, FilesInv
  PROVE  FilesKept
<1>1. Files!TypeOK
  <2>1. /\ DOMAIN files \subseteq Paths /\ \A p \in DOMAIN files : files[p] \in Files!Texts
        /\ met \subseteq Calls /\ peak \in Nat
    BY DEF FilesInv, FilesTyped
  <2>2. \A c \in Calls : calls[c] \in FileCall /\ StageFits(c)
    BY FileTypes DEF FilesInv
  <2>3. QED BY <2>1, <2>2 DEF Files!TypeOK, FileCall, StageFits
<1>2. Files!LimitsGiveWayToPeersOnly
  <2>1. /\ IsFiniteSet(Listed) /\ Files!Visible \in SUBSET Listed
        /\ Cardinality(Files!Visible) \in Nat /\ Cardinality(Opening) \in Nat
    BY FilesFinite
  <2>2. Peers \in Nat /\ MaxFiles \in Nat /\ MaxTotal \in Nat /\ MaxFile \in Nat
    BY DEF FilesInv, FilesTyped, Peers, Files!NumbersAssumption
  <2>3. Cardinality(Files!Visible) <= MaxFiles + Peers
    <3>1. Cardinality(Files!Visible) + Cardinality(Opening) <= MaxFiles + Peers
      BY DEF FilesInv, Limited
    <3>2. QED BY <2>1, <2>2, <3>1
  <2>4. PICK room \in [Listed -> [size : Nat]] : IsRoom(room)
    BY DEF FilesInv, Limited
  <2>5. Files!Bytes(Files!Visible) <= MaxTotal + Peers * MaxFile
    <3>1. \A p \in DOMAIN files : files[p].size \in Nat
      BY FileTypes DEF FilesInv
    <3>2. Sized(files, Files!Visible)
      BY <3>1 DEF Sized, Files!Visible
    <3>3. \A p \in Files!Visible : files[p].size <= room[p].size
      <4>1. \A p \in Files!Visible : p \in Listed /\ Size(p) = files[p].size
        BY <2>1 DEF Size, Files!Visible
      <4>2. \A p \in Listed : Size(p) <= room[p].size
        BY <2>4 DEF IsRoom
      <4>3. QED
        <5> SUFFICES ASSUME NEW p \in Files!Visible
                     PROVE  files[p].size <= room[p].size
          OBVIOUS
        <5>1. QED BY <4>1, <4>2
    <3>4. Sized(room, Listed)
      BY <2>4 DEF Sized
    <3>5. Sum(files, Files!Visible) <= Sum(room, Listed)
      BY <2>1, <3>2, <3>3, <3>4, SumGrows
    <3>6. /\ Sum(files, Files!Visible) \in Nat /\ Sum(room, Listed) \in Nat
          /\ Sum(room, Listed) <= MaxTotal + Peers * MaxFile
      <4>1. IsFiniteSet(Files!Visible)
        BY FilesFinite
      <4>2. QED BY <2>1, <2>4, <3>2, <3>4, <4>1, SumIsNat DEF IsRoom
    <3>7. Sum(files, Files!Visible) <= MaxTotal + Peers * MaxFile
      <4>1. Peers * MaxFile \in Nat
        BY <2>2
      <4>2. QED BY <2>2, <3>5, <3>6, <4>1
    <3>8. QED BY <3>7 DEF Files!Bytes, Sum
  <2>6. \A p \in DOMAIN files : files[p].author # 0 => files[p].size <= MaxFile
    BY DEF FilesInv, TextFits
  <2>7. QED BY <2>3, <2>5, <2>6 DEF Files!LimitsGiveWayToPeersOnly, Peers, Files!Cardinality, Cardinality
<1>3. Files!DifferenceIsTrue
  BY DEF FilesInv, TextStands, Files!DifferenceIsTrue
<1>4. Files!TextsAreWhole
  <2>1. \A p \in DOMAIN files :
          /\ files[p] = Files!Empty => \E c \in Calls : calls[c].path = p /\ calls[c].at = "writing"
          /\ files[p].author = Files!Mixed => \E c, d \in met : c # d /\ calls[c].path = p /\ calls[d].path = p
    BY DEF FilesInv, TextFits
  <2>2. \A c \in Calls \ met : calls[c].op = "read" /\ calls[c].at = "done" =>
          calls[c].old # Files!Empty /\ calls[c].old.size = calls[c].size
    BY DEF FilesInv, TextStands
  <2>3. QED BY <2>1, <2>2 DEF Files!TextsAreWhole
<1>5. QED BY <1>1, <1>2, <1>3, <1>4 DEF FilesInv, FilesKept

\* FilesKept of the run work: however calls of create_file, modify_file and
\* read_file overlap, and whichever are cancelled, a file is created only where
\* none was, the limits of validate_capacity are exceeded by no more than what
\* writes at the same time may add, and a call that no other overlapped reports
\* a true difference or a whole text (tools/file_tools.py, workspace/paths.py).
THEOREM WorkspaceFilesAreKept ==
  ASSUME Files!NumbersAssumption
  PROVE  Files!Spec => []FilesKept
<1>1. Files!Init => FilesInv
  BY FilesInit
<1>2. FilesInv /\ [Files!Next]_(Files!vars) => FilesInv'
  BY FilesNext
<1>3. FilesInv => FilesKept
  BY FilesInvSound
<1>4. QED BY <1>1, <1>2, <1>3, PTL DEF Files!Spec

-----------------------------------------------------------------------------
(* Plans. A loop is a function of its rounds, and so is the depth of a     *)
(* recursion; both exist for any number of them.                           *)

Loops(S, N) == [1 .. N -> [S -> S]]

Runs(S, first, N, next) ==
  {f \in [0 .. N -> S] : f[0] = first /\ \A i \in 1 .. N : f[i] = next[i][f[i - 1]]}

LEMMA LoopRuns ==
  ASSUME NEW S, NEW first \in S, NEW N \in Nat, NEW next \in Loops(S, N)
  PROVE  Runs(S, first, N, next) # {}
<1> DEFINE To(n, f) == f \in [0 .. n -> S] /\ f[0] = first /\ \A i \in 1 .. n : f[i] = next[i][f[i - 1]]
           I == {n \in Nat : n > N \/ \E f : To(n, f)}
<1>1. 0 \in I
  <2>1. To(0, [i \in 0 .. 0 |-> first])
    OBVIOUS
  <2>2. QED BY <2>1
<1>2. \A n \in I : n + 1 \in I
  <2> SUFFICES ASSUME NEW n \in Nat, n + 1 <= N, \E f : To(n, f)
               PROVE  \E g : To(n + 1, g)
    <3> HIDE DEF To
    <3>1. \A n \in Nat : n + 1 \in Nat /\ (~ (n + 1 > N) => n + 1 <= N /\ ~ (n > N))
      OBVIOUS
    <3>2. QED BY <3>1
  <2> PICK f : To(n, f)
    OBVIOUS
  <2> next \in [1 .. N -> [S -> S]]
    BY DEF Loops
  <2> DEFINE g == [i \in 0 .. n + 1 |-> IF i = n + 1 THEN next[n + 1][f[n]] ELSE f[i]]
  <2>1. n + 1 \in 1 .. N /\ f[n] \in S
    OBVIOUS
  <2>2. next[n + 1][f[n]] \in S
    BY <2>1
  <2>3. g \in [0 .. n + 1 -> S] /\ g[0] = first /\ g[n + 1] = next[n + 1][f[n]]
    BY <2>2
  <2>4. \A i \in 1 .. n + 1 : g[i] = next[i][g[i - 1]]
    <3> SUFFICES ASSUME NEW i \in 1 .. n + 1
                 PROVE  g[i] = next[i][g[i - 1]]
      OBVIOUS
    <3>1. g[i - 1] = f[i - 1] /\ i \in Nat
      OBVIOUS
    <3>2. CASE i = n + 1
      BY <2>3, <3>1, <3>2
    <3>3. CASE i # n + 1
      <4>1. i \in 1 .. n /\ g[i] = f[i]
        BY <3>3
      <4>2. QED BY <3>1, <4>1
    <3>4. QED BY <3>2, <3>3
  <2>5. To(n + 1, g)
    BY <2>3, <2>4
  <2>6. QED BY <2>5
<1> HIDE DEF I
<1>3. I \in SUBSET Nat
  BY DEF I
<1>4. N \in I
  BY <1>1, <1>2, <1>3, NaturalsFrom
<1>5. QED BY <1>4 DEF I, Runs

Rounds(visit, nodes, search, after) ==
  after = [i \in 0 .. Len(nodes) |-> IF i = 0 THEN search ELSE visit[nodes[i]][after[i - 1]]]

RoundsOf(visit, nodes, search) == CHOOSE after : Rounds(visit, nodes, search, after)

LEMMA VisitAllUnfolds ==
  ASSUME NEW visit, NEW nodes, NEW search
  PROVE  Plans!VisitAll(visit, nodes, search) = RoundsOf(visit, nodes, search)[Len(nodes)]
BY DEF Plans!VisitAll, RoundsOf, Rounds

Visitors == [Plans!Ids -> [Plans!Searches -> Plans!Searches]]

\* What holds of the loop's search from its beginning and after each call holds in the end.
LEMMA VisitAllIs ==
  ASSUME NEW visit \in Visitors, NEW nodes \in Seq(Plans!Ids), NEW search \in Plans!Searches
  PROVE  \E after \in [0 .. Len(nodes) -> Plans!Searches] :
           /\ after[0] = search
           /\ \A i \in 1 .. Len(nodes) : after[i] = visit[nodes[i]][after[i - 1]]
           /\ Plans!VisitAll(visit, nodes, search) = after[Len(nodes)]
<1> DEFINE S == Plans!Searches
           N == Len(nodes)
           next == [i \in 1 .. N |-> visit[nodes[i]]]
           after == RoundsOf(visit, nodes, search)
<1>1. N \in Nat /\ \A i \in 1 .. N : nodes[i] \in Plans!Ids
  OBVIOUS
<1>2. next \in Loops(S, N)
  BY <1>1 DEF Visitors, Loops
<1>first. search \in S
  OBVIOUS
<1> HIDE DEF S, next
<1>3. PICK f \in [0 .. N -> S] : f[0] = search /\ \A i \in 1 .. N : f[i] = next[i][f[i - 1]]
  <2> HIDE DEF N
  <2>1. Runs(S, search, N, next) # {}
    BY <1>1, <1>2, <1>first, LoopRuns
  <2>2. QED BY <2>1 DEF Runs
<1>4. Rounds(visit, nodes, search, f)
  <2>1. \A i \in 0 .. N : f[i] = IF i = 0 THEN search ELSE visit[nodes[i]][f[i - 1]]
    <3> SUFFICES ASSUME NEW i \in 0 .. N
                 PROVE  f[i] = IF i = 0 THEN search ELSE visit[nodes[i]][f[i - 1]]
      OBVIOUS
    <3>1. i # 0 => i \in 1 .. N
      BY <1>1
    <3>2. i # 0 => next[i] = visit[nodes[i]]
      BY <3>1 DEF next
    <3>3. QED BY <1>3, <3>1, <3>2
  <2>2. f = [i \in 0 .. N |-> f[i]]
    BY <1>3
  <2>3. QED BY <2>1, <2>2 DEF Rounds
<1>5. Rounds(visit, nodes, search, after)
  BY <1>4 DEF RoundsOf
<1> HIDE DEF after
<1>6. after[0] = search /\ DOMAIN after = 0 .. N /\ \A i \in 1 .. N : after[i] = visit[nodes[i]][after[i - 1]]
  <2>1. after = [i \in 0 .. N |-> IF i = 0 THEN search ELSE visit[nodes[i]][after[i - 1]]]
    BY <1>5 DEF Rounds
  <2> HIDE DEF N
  <2>2. \A i \in 0 .. N : after[i] = IF i = 0 THEN search ELSE visit[nodes[i]][after[i - 1]]
    BY <2>1
  <2>3. 0 \in 0 .. N /\ \A i \in 1 .. N : i \in 0 .. N /\ i # 0
    BY <1>1
  <2>4. DOMAIN after = 0 .. N
    BY <2>1
  <2>5. QED BY <2>2, <2>3, <2>4
<1>7. after \in [0 .. N -> S]
  <2> DEFINE I == {n \in Nat : n > N \/ after[n] \in S}
  <2>1. 0 \in I
    BY <1>6 DEF S
  <2>2. \A n \in I : n + 1 \in I
    <3> SUFFICES ASSUME NEW n \in Nat, n + 1 <= N, after[n] \in S
                 PROVE  after[n + 1] \in S
      BY <1>1
    <3>1. n + 1 \in 1 .. N /\ n + 1 - 1 = n
      BY <1>1
    <3>2. after[n + 1] = visit[nodes[n + 1]][after[n]]
      BY <1>6, <3>1
    <3>3. visit[nodes[n + 1]] \in [S -> S]
      BY <1>1, <3>1 DEF Visitors, S
    <3>4. QED BY <3>2, <3>3
  <2> HIDE DEF I
  <2>3. I \in SUBSET Nat
    BY DEF I
  <2>4. I = Nat
    BY <2>1, <2>2, <2>3, NaturalsFrom
  <2>5. \A i \in 0 .. N : after[i] \in S
    BY <1>1, <2>4 DEF I
  <2>6. after = [i \in 0 .. N |-> after[i]]
    BY <1>5, <1>6 DEF Rounds
  <2>7. QED BY <2>5, <2>6
<1>8. Plans!VisitAll(visit, nodes, search) = after[N]
  BY VisitAllUnfolds DEF after
<1>9. QED BY <1>6, <1>7, <1>8 DEF S

LEMMA SequenceOfSet ==
  ASSUME NEW S, IsFiniteSet(S)
  PROVE  /\ Plans!SetToSeq(S) \in Seq(S)
         /\ \A x \in S : \E i \in 1 .. Len(Plans!SetToSeq(S)) : Plans!SetToSeq(S)[i] = x
<1> DEFINE n == Cardinality(S)
           s == Plans!SetToSeq(S)
<1>1. n \in Nat /\ ExistsBijection(1 .. n, S)
  BY FS_CardinalityType
<1>2. PICK b \in Bijection(1 .. n, S) : TRUE
  BY <1>1 DEF ExistsBijection
<1>3. b \in [1 .. n -> S] /\ Plans!IsInjective(b)
  BY <1>2 DEF Bijection, Injection, IsInjective, Plans!IsInjective
<1>4. s = CHOOSE f \in [1 .. n -> S] : Plans!IsInjective(f)
  BY DEF Plans!SetToSeq, Plans!Cardinality, Cardinality
<1> HIDE DEF s
<1>5. s \in [1 .. n -> S] /\ Plans!IsInjective(s)
  BY <1>3, <1>4
<1> HIDE DEF n
<1>6. s \in Seq(S) /\ Len(s) = n
  BY <1>1, <1>5
<1>7. s \in Injection(1 .. n, S)
  BY <1>5 DEF Injection, IsInjective, Plans!IsInjective
<1>8. Cardinality(1 .. n) = n
  BY <1>1, FS_Interval
<1>9. s \in Surjection(1 .. n, S)
  BY <1>7, <1>8, FS_Injection DEF n
<1>10. \A x \in S : \E i \in 1 .. n : s[i] = x
  BY <1>9 DEF Surjection
<1>11. QED BY <1>6, <1>10 DEF s

Needs(node) == Plans!StepOf(node).needs

\* The nodes of the graph are finitely many and depend on nodes of it.
Known ==
  /\ IsFiniteSet(Plans!Ids) /\ \A node \in Plans!Ids : Needs(node) \subseteq Plans!Ids

Nodes(node) == Plans!SetToSeq(Needs(node))

Entered(search, node) == [search EXCEPT !.visiting = @ \cup {node}]

LEMMA NodesAre ==
  ASSUME Known, NEW node \in Plans!Ids
  PROVE  /\ Nodes(node) \in Seq(Plans!Ids)
         /\ \A i \in 1 .. Len(Nodes(node)) : Nodes(node)[i] \in Needs(node)
         /\ \A d \in Needs(node) : \E i \in 1 .. Len(Nodes(node)) : Nodes(node)[i] = d
<1>1. IsFiniteSet(Needs(node)) /\ Needs(node) \subseteq Plans!Ids
  BY FS_Subset DEF Known
<1>2. Nodes(node) \in Seq(Needs(node))
  BY <1>1, SequenceOfSet DEF Nodes
<1>3. \A d \in Needs(node) : \E i \in 1 .. Len(Nodes(node)) : Nodes(node)[i] = d
  BY <1>1, SequenceOfSet DEF Nodes
<1>4. \A i \in 1 .. Len(Nodes(node)) : Nodes(node)[i] \in Needs(node)
  BY <1>2
<1>5. Nodes(node) \in Seq(Plans!Ids)
  BY <1>1, <1>2
<1>6. QED BY <1>3, <1>4, <1>5

LEMMA VisitIs ==
  ASSUME Known, NEW deeper \in Visitors, NEW node \in Plans!Ids, NEW search \in Plans!Searches
  PROVE  LET result == Plans!Visit(deeper)[node][search]
             after == Plans!VisitAll(deeper, Nodes(node), Entered(search, node))
         IN  /\ result \in Plans!Searches
             /\ Entered(search, node) \in Plans!Searches /\ after \in Plans!Searches
             /\ \/ /\ ~search.ok \/ node \in search.visiting
                   /\ result = [search EXCEPT !.ok = FALSE]
                \/ /\ search.ok /\ node \notin search.visiting /\ node \in search.visited
                   /\ result = search
                \/ /\ search.ok /\ node \notin search.visiting /\ node \notin search.visited
                   /\ result = [after EXCEPT !.visiting = @ \ {node}, !.visited = @ \cup {node}]
<1> DEFINE result == Plans!Visit(deeper)[node][search]
           after == Plans!VisitAll(deeper, Nodes(node), Entered(search, node))
<1>1. Entered(search, node) \in Plans!Searches
  BY DEF Entered, Plans!Searches
<1>2. after \in Plans!Searches
  <2>1. Nodes(node) \in Seq(Plans!Ids) /\ Len(Nodes(node)) \in Nat
    BY NodesAre
  <2>2. PICK f \in [0 .. Len(Nodes(node)) -> Plans!Searches] : after = f[Len(Nodes(node))]
    BY <1>1, <2>1, VisitAllIs
  <2>3. QED BY <2>1, <2>2
<1>3. result =
        IF ~search.ok \/ node \in search.visiting THEN [search EXCEPT !.ok = FALSE]
        ELSE IF node \in search.visited THEN search
        ELSE [after EXCEPT !.visiting = @ \ {node}, !.visited = @ \cup {node}]
  BY DEF Plans!Visit, Nodes, Needs, Entered
<1> HIDE DEF after, result
<1>4. result \in Plans!Searches
  BY <1>2, <1>3 DEF Plans!Searches
<1>5. search.ok \in BOOLEAN
  BY DEF Plans!Searches
<1>6. \/ ~search.ok \/ node \in search.visiting
      \/ search.ok /\ node \notin search.visiting /\ node \in search.visited
      \/ search.ok /\ node \notin search.visiting /\ node \notin search.visited
  BY <1>5
<1>7. QED BY <1>1, <1>2, <1>3, <1>4, <1>6 DEF after, result

LEMMA VisitIsVisitor ==
  ASSUME Known, NEW deeper \in Visitors
  PROVE  Plans!Visit(deeper) \in Visitors
<1>1. \A node \in Plans!Ids : Plans!Visit(deeper)[node] = [search \in Plans!Searches |-> Plans!Visit(deeper)[node][search]]
  BY DEF Plans!Visit
<1>2. Plans!Visit(deeper) = [node \in Plans!Ids |-> Plans!Visit(deeper)[node]]
  BY DEF Plans!Visit
<1>3. \A node \in Plans!Ids : \A search \in Plans!Searches : Plans!Visit(deeper)[node][search] \in Plans!Searches
  BY VisitIs
<1>4. \A node \in Plans!Ids : Plans!Visit(deeper)[node] \in [Plans!Searches -> Plans!Searches]
  BY <1>1, <1>3
<1>5. QED BY <1>2, <1>4 DEF Visitors

NoVisit == [node \in Plans!Ids |-> [search \in Plans!Searches |-> [search EXCEPT !.ok = FALSE]]]

Nested(visits) ==
  visits = [nested \in 0 .. Len(plan) + 1 |-> IF nested = 0 THEN NoVisit ELSE Plans!Visit(visits[nested - 1])]

LEMMA VisitsUnfold == Plans!Visits = CHOOSE visits : Nested(visits)
BY DEF Plans!Visits, Nested, NoVisit

LEMMA VisitsAre ==
  ASSUME Known, Len(plan) \in Nat
  PROVE  /\ Plans!Visits[0] = NoVisit
         /\ \A n \in 0 .. Len(plan) + 1 : Plans!Visits[n] \in Visitors
         /\ \A n \in 0 .. Len(plan) : Plans!Visits[n + 1] = Plans!Visit(Plans!Visits[n])
<1> DEFINE N == Len(plan) + 1
           next == [i \in 1 .. N |-> [visit \in Visitors |-> Plans!Visit(visit)]]
<1>1. NoVisit \in Visitors
  BY DEF NoVisit, Visitors, Plans!Searches
<1>2. next \in Loops(Visitors, N)
  <2>1. [visit \in Visitors |-> Plans!Visit(visit)] \in [Visitors -> Visitors]
    BY VisitIsVisitor
  <2>2. QED BY <2>1 DEF Loops
<1>3. \A i \in 1 .. N : \A visit \in Visitors : next[i][visit] = Plans!Visit(visit)
  OBVIOUS
<1>4. N \in Nat
  OBVIOUS
<1> HIDE DEF next, N
<1>5. PICK f \in [0 .. N -> Visitors] : f[0] = NoVisit /\ \A i \in 1 .. N : f[i] = next[i][f[i - 1]]
  <2>1. Runs(Visitors, NoVisit, N, next) # {}
    BY <1>1, <1>2, <1>4, LoopRuns
  <2>2. QED BY <2>1 DEF Runs
<1>6. Nested(f)
  <2>1. \A i \in 0 .. N : f[i] = IF i = 0 THEN NoVisit ELSE Plans!Visit(f[i - 1])
    <3> SUFFICES ASSUME NEW i \in 0 .. N
                 PROVE  f[i] = IF i = 0 THEN NoVisit ELSE Plans!Visit(f[i - 1])
      OBVIOUS
    <3>1. i # 0 => i \in 1 .. N /\ i - 1 \in 0 .. N
      BY <1>4
    <3>2. i # 0 => f[i - 1] \in Visitors
      BY <3>1
    <3>3. i # 0 => next[i][f[i - 1]] = Plans!Visit(f[i - 1])
      BY <1>3, <3>1, <3>2
    <3>4. QED BY <1>5, <3>1, <3>3
  <2>2. f = [i \in 0 .. N |-> f[i]]
    OBVIOUS
  <2>3. QED BY <2>1, <2>2 DEF Nested, N
<1>7. Nested(Plans!Visits)
  BY <1>6, VisitsUnfold
<1> DEFINE visits == Plans!Visits
<1> HIDE DEF visits
<1>8. \A i \in 0 .. N : visits[i] = IF i = 0 THEN NoVisit ELSE Plans!Visit(visits[i - 1])
  BY <1>7 DEF Nested, visits, N
<1>9. \A n \in 0 .. Len(plan) : visits[n + 1] = Plans!Visit(visits[n])
  <2> SUFFICES ASSUME NEW n \in 0 .. Len(plan)
               PROVE  visits[n + 1] = Plans!Visit(visits[n])
    OBVIOUS
  <2>1. n + 1 \in 0 .. N /\ n + 1 # 0 /\ n + 1 - 1 = n
    BY DEF N
  <2>2. QED BY <1>8, <2>1
<1>10. \A n \in 0 .. N : visits[n] \in Visitors
  <2> DEFINE I == {n \in Nat : n > N \/ visits[n] \in Visitors}
  <2>1. 0 \in I
    BY <1>1, <1>4, <1>8
  <2>2. \A n \in I : n + 1 \in I
    <3> SUFFICES ASSUME NEW n \in Nat, n + 1 <= N, visits[n] \in Visitors
                 PROVE  visits[n + 1] \in Visitors
      BY <1>4
    <3>1. n \in 0 .. Len(plan)
      BY DEF N
    <3>2. QED BY <1>9, <3>1, VisitIsVisitor
  <2> HIDE DEF I
  <2>3. I \in SUBSET Nat
    BY DEF I
  <2>4. I = Nat
    BY <2>1, <2>2, <2>3, NaturalsFrom
  <2>5. QED BY <1>4, <2>4 DEF I
<1>11. visits[0] = NoVisit
  BY <1>4, <1>8
<1>12. QED BY <1>9, <1>10, <1>11 DEF visits, N

-----------------------------------------------------------------------------
(* Plans: what a search that raises nothing has visited has an order.      *)

Ordered(nodes) ==
  \E rank \in [nodes -> 1 .. Cardinality(nodes)] :
    \A node \in nodes : Needs(node) \subseteq nodes /\ \A d \in Needs(node) : rank[d] < rank[node]

LEMMA OrderedMore ==
  ASSUME Known, NEW V \in SUBSET Plans!Ids, Ordered(V), NEW node \in Plans!Ids, Needs(node) \subseteq V
  PROVE  Ordered(V \cup {node})
<1>1. CASE node \in V
  <2>1. V \cup {node} = V
    BY <1>1
  <2>2. QED BY <2>1
<1>2. CASE node \notin V
  <2> DEFINE all == V \cup {node}
             n == Cardinality(V)
  <2>1. IsFiniteSet(V)
    BY FS_Subset DEF Known
  <2>2. n \in Nat /\ Cardinality(all) = n + 1
    BY <1>2, <2>1, FS_CardinalityType, FS_AddElement
  <2>3. PICK rank \in [V -> 1 .. n] :
          \A v \in V : Needs(v) \subseteq V /\ \A d \in Needs(v) : rank[d] < rank[v]
    BY DEF Ordered
  <2> HIDE DEF n
  <2> DEFINE more == [v \in all |-> IF v = node THEN n + 1 ELSE rank[v]]
  <2>4. more \in [all -> 1 .. n + 1]
    BY <2>2
  <2>5. \A v \in V : more[v] = rank[v] /\ rank[v] \in 1 .. n
    BY <1>2
  <2>6. more[node] = n + 1
    OBVIOUS
  <2> HIDE DEF more
  <2>7. \A v \in all : Needs(v) \subseteq all /\ \A d \in Needs(v) : more[d] < more[v]
    <3>1. \A v \in V : Needs(v) \subseteq all /\ \A d \in Needs(v) : more[d] < more[v]
      BY <2>3, <2>5
    <3>2. \A d \in Needs(node) : more[d] < more[node]
      BY <2>2, <2>5, <2>6
    <3>3. QED BY <3>1, <3>2
  <2>8. QED BY <2>2, <2>4, <2>7 DEF Ordered
<1>3. QED BY <1>1, <1>2

\* What a search that is ok has become from one.
Extends(after, search) ==
  /\ search.ok /\ after.visiting = search.visiting
  /\ search.visited \subseteq after.visited /\ Ordered(after.visited)

Sound(visit) ==
  \A node \in Plans!Ids, search \in Plans!Searches :
    visit[node][search].ok =>
      /\ search.ok
      /\ Ordered(search.visited) =>
           Extends(visit[node][search], search) /\ node \in visit[node][search].visited

LEMMA AllSound ==
  ASSUME NEW visit \in Visitors, Sound(visit), NEW nodes \in Seq(Plans!Ids),
         NEW search \in Plans!Searches, Ordered(search.visited),
         Plans!VisitAll(visit, nodes, search).ok
  PROVE  LET after == Plans!VisitAll(visit, nodes, search)
         IN  Extends(after, search) /\ \A i \in 1 .. Len(nodes) : nodes[i] \in after.visited
<1> DEFINE N == Len(nodes)
<1>1. N \in Nat /\ \A i \in 1 .. N : nodes[i] \in Plans!Ids
  OBVIOUS
<1>2. PICK after \in [0 .. N -> Plans!Searches] :
        /\ after[0] = search
        /\ \A i \in 1 .. N : after[i] = visit[nodes[i]][after[i - 1]]
        /\ Plans!VisitAll(visit, nodes, search) = after[N]
  BY VisitAllIs
<1> HIDE DEF N
<1> DEFINE Holds(n) == after[n].ok => /\ Extends(after[n], search)
                                      /\ \A i \in 1 .. n : nodes[i] \in after[n].visited
           I == {n \in Nat : n > N \/ Holds(n)}
<1>3. 0 \in I
  <2>1. Holds(0)
    BY <1>2 DEF Extends
  <2>2. QED BY <2>1
<1>4. \A n \in I : n + 1 \in I
  <2> SUFFICES ASSUME NEW n \in Nat, n + 1 <= N, Holds(n)
               PROVE  Holds(n + 1)
    <3> HIDE DEF Holds
    <3>1. \A n \in Nat : n + 1 \in Nat /\ (~ (n + 1 > N) => n + 1 <= N /\ ~ (n > N))
      BY <1>1
    <3>2. QED BY <3>1
  <2> SUFFICES ASSUME after[n + 1].ok
               PROVE  /\ Extends(after[n + 1], search)
                      /\ \A i \in 1 .. n + 1 : nodes[i] \in after[n + 1].visited
    OBVIOUS
  <2>1. n + 1 \in 1 .. N /\ n + 1 - 1 = n /\ n \in 0 .. N
    BY <1>1
  <2>2. after[n + 1] = visit[nodes[n + 1]][after[n]] /\ after[n] \in Plans!Searches
    BY <1>2, <2>1
  <2>3. after[n].ok
    <3>1. \A s \in Plans!Searches : visit[nodes[n + 1]][s].ok => s.ok
      BY <1>1, <2>1 DEF Sound
    <3>2. QED BY <2>2, <3>1
  <2>4. Extends(after[n], search) /\ \A i \in 1 .. n : nodes[i] \in after[n].visited
    BY <2>3
  <2>5. Extends(after[n + 1], after[n]) /\ nodes[n + 1] \in after[n + 1].visited
    BY <1>1, <2>1, <2>2, <2>4 DEF Sound, Extends
  <2>6. Extends(after[n + 1], search)
    BY <2>4, <2>5 DEF Extends
  <2>7. \A i \in 1 .. n + 1 : nodes[i] \in after[n + 1].visited
    <3> SUFFICES ASSUME NEW i \in 1 .. n + 1
                 PROVE  nodes[i] \in after[n + 1].visited
      OBVIOUS
    <3>1. i = n + 1 \/ i \in 1 .. n
      OBVIOUS
    <3>2. QED BY <2>4, <2>5, <3>1 DEF Extends
  <2>8. QED BY <2>6, <2>7
<1> HIDE DEF I
<1>5. I \in SUBSET Nat
  BY DEF I
<1>6. N \in I
  BY <1>1, <1>3, <1>4, <1>5, NaturalsFrom
<1>7. Holds(N)
  BY <1>1, <1>6 DEF I
<1>8. QED BY <1>2, <1>7 DEF N

LEMMA VisitSound ==
  ASSUME Known, NEW deeper \in Visitors, Sound(deeper)
  PROVE  Sound(Plans!Visit(deeper))
<1> SUFFICES ASSUME NEW node \in Plans!Ids, NEW search \in Plans!Searches,
                    Plans!Visit(deeper)[node][search].ok
             PROVE  LET result == Plans!Visit(deeper)[node][search]
                    IN  /\ search.ok
                        /\ Ordered(search.visited) => Extends(result, search) /\ node \in result.visited
  BY DEF Sound
<1> DEFINE result == Plans!Visit(deeper)[node][search]
           after == Plans!VisitAll(deeper, Nodes(node), Entered(search, node))
<1>1. /\ result \in Plans!Searches
      /\ Entered(search, node) \in Plans!Searches /\ after \in Plans!Searches
      /\ \/ /\ ~search.ok \/ node \in search.visiting
            /\ result = [search EXCEPT !.ok = FALSE]
         \/ /\ search.ok /\ node \notin search.visiting /\ node \in search.visited
            /\ result = search
         \/ /\ search.ok /\ node \notin search.visiting /\ node \notin search.visited
            /\ result = [after EXCEPT !.visiting = @ \ {node}, !.visited = @ \cup {node}]
  BY VisitIs
<1>2. result.ok
  OBVIOUS
<1> HIDE DEF result, after
<1>3. CASE result = [search EXCEPT !.ok = FALSE]
  BY <1>2, <1>3 DEF Plans!Searches
<1>4. CASE search.ok /\ node \in search.visited /\ result = search
  BY <1>4 DEF Extends, result
<1>5. CASE /\ search.ok /\ node \notin search.visiting
           /\ result = [after EXCEPT !.visiting = @ \ {node}, !.visited = @ \cup {node}]
  <2> SUFFICES ASSUME Ordered(search.visited)
               PROVE  Extends(result, search) /\ node \in result.visited
    BY <1>5 DEF result
  <2>1. after.ok /\ result.visiting = after.visiting \ {node} /\ result.visited = after.visited \cup {node}
    BY <1>1, <1>2, <1>5 DEF Plans!Searches
  <2>2. /\ Entered(search, node).visited = search.visited
        /\ Entered(search, node).visiting = search.visiting \cup {node}
    BY DEF Entered, Plans!Searches
  <2>3. /\ Extends(after, Entered(search, node))
        /\ \A i \in 1 .. Len(Nodes(node)) : Nodes(node)[i] \in after.visited
    <3>1. Nodes(node) \in Seq(Plans!Ids)
      BY NodesAre
    <3>2. Ordered(Entered(search, node).visited) /\ Plans!VisitAll(deeper, Nodes(node), Entered(search, node)).ok
      BY <2>1, <2>2 DEF after
    <3>3. QED BY <1>1, <3>1, <3>2, AllSound DEF after
  <2>4. Needs(node) \subseteq after.visited
    BY <2>3, NodesAre
  <2>5. Ordered(result.visited)
    <3>1. after.visited \in SUBSET Plans!Ids /\ Ordered(after.visited)
      BY <1>1, <2>3 DEF Extends, Plans!Searches
    <3>2. QED BY <2>1, <2>4, <3>1, OrderedMore
  <2>6. QED BY <1>5, <2>1, <2>2, <2>3, <2>5 DEF Extends
<1>6. QED BY <1>1, <1>3, <1>4, <1>5 DEF result

LEMMA VisitsSound ==
  ASSUME Known, Len(plan) \in Nat
  PROVE  Sound(Plans!Visits[Len(plan) + 1])
<1> DEFINE N == Len(plan) + 1
           I == {n \in Nat : n > N \/ Sound(Plans!Visits[n])}
<1>1. N \in Nat
  OBVIOUS
<1>2. 0 \in I
  <2>1. Sound(NoVisit)
    BY DEF Sound, NoVisit, Plans!Searches
  <2>2. QED BY <2>1, VisitsAre
<1>3. \A n \in I : n + 1 \in I
  <2> SUFFICES ASSUME NEW n \in Nat, n + 1 <= N, Sound(Plans!Visits[n])
               PROVE  Sound(Plans!Visits[n + 1])
    OBVIOUS
  <2>1. n \in 0 .. Len(plan) /\ n \in 0 .. Len(plan) + 1
    OBVIOUS
  <2>2. Plans!Visits[n] \in Visitors /\ Plans!Visits[n + 1] = Plans!Visit(Plans!Visits[n])
    BY <2>1, VisitsAre
  <2>3. QED BY <2>2, VisitSound
<1> HIDE DEF I
<1>4. I \in SUBSET Nat
  BY DEF I
<1>5. N \in I
  BY <1>1, <1>2, <1>3, <1>4, NaturalsFrom
<1>6. QED BY <1>1, <1>5 DEF I

-----------------------------------------------------------------------------
(* Plans: where there is an order, a search raises nothing. Each node it   *)
(* is visiting comes later than the node it visits next.                   *)

Ranked(rank) ==
  /\ rank \in [Plans!Ids -> Nat \ {0}]
  /\ \A node \in Plans!Ids : \A d \in Needs(node) : rank[d] < rank[node]

Above(search, rank, n) == search.ok /\ \A v \in search.visiting : rank[v] > n

Complete(visit, rank, n) ==
  \A node \in Plans!Ids, search \in Plans!Searches :
    rank[node] <= n /\ Above(search, rank, rank[node]) =>
      visit[node][search].ok /\ visit[node][search].visiting = search.visiting

LEMMA AllComplete ==
  ASSUME NEW visit \in Visitors, NEW rank, NEW n, Complete(visit, rank, n),
         NEW nodes \in Seq(Plans!Ids), NEW search \in Plans!Searches,
         \A i \in 1 .. Len(nodes) : rank[nodes[i]] <= n /\ Above(search, rank, rank[nodes[i]]),
         search.ok
  PROVE  LET after == Plans!VisitAll(visit, nodes, search)
         IN  after.ok /\ after.visiting = search.visiting
<1> DEFINE N == Len(nodes)
<1>1. N \in Nat /\ \A i \in 1 .. N : nodes[i] \in Plans!Ids
  OBVIOUS
<1>2. PICK after \in [0 .. N -> Plans!Searches] :
        /\ after[0] = search
        /\ \A i \in 1 .. N : after[i] = visit[nodes[i]][after[i - 1]]
        /\ Plans!VisitAll(visit, nodes, search) = after[N]
  BY VisitAllIs
<1>3. \A i \in 1 .. N : rank[nodes[i]] <= n /\ Above(search, rank, rank[nodes[i]])
  OBVIOUS
<1> HIDE DEF N
<1> DEFINE Holds(k) == after[k].ok /\ after[k].visiting = search.visiting
           I == {k \in Nat : k > N \/ Holds(k)}
<1>4. 0 \in I
  BY <1>2
<1>5. \A k \in I : k + 1 \in I
  <2> SUFFICES ASSUME NEW k \in Nat, k + 1 <= N, Holds(k)
               PROVE  Holds(k + 1)
    <3> HIDE DEF Holds
    <3>1. \A k \in Nat : k + 1 \in Nat /\ (~ (k + 1 > N) => k + 1 <= N /\ ~ (k > N))
      BY <1>1
    <3>2. QED BY <3>1
  <2>1. k + 1 \in 1 .. N /\ k + 1 - 1 = k /\ k \in 0 .. N
    BY <1>1
  <2>2. after[k + 1] = visit[nodes[k + 1]][after[k]] /\ after[k] \in Plans!Searches
    BY <1>2, <2>1
  <2>3. rank[nodes[k + 1]] <= n /\ Above(after[k], rank, rank[nodes[k + 1]])
    BY <1>3, <2>1 DEF Above
  <2>4. QED BY <1>1, <2>1, <2>2, <2>3 DEF Complete
<1> HIDE DEF I
<1>6. I \in SUBSET Nat
  BY DEF I
<1>7. N \in I
  BY <1>1, <1>4, <1>5, <1>6, NaturalsFrom
<1>8. Holds(N)
  BY <1>1, <1>7 DEF I
<1>9. QED BY <1>2, <1>8 DEF N

LEMMA VisitComplete ==
  ASSUME Known, NEW rank, Ranked(rank), NEW n \in Nat, NEW deeper \in Visitors, Complete(deeper, rank, n)
  PROVE  Complete(Plans!Visit(deeper), rank, n + 1)
<1> SUFFICES ASSUME NEW node \in Plans!Ids, NEW search \in Plans!Searches,
                    rank[node] <= n + 1, Above(search, rank, rank[node])
             PROVE  LET result == Plans!Visit(deeper)[node][search]
                    IN  result.ok /\ result.visiting = search.visiting
  BY DEF Complete
<1> DEFINE result == Plans!Visit(deeper)[node][search]
           entered == Entered(search, node)
           after == Plans!VisitAll(deeper, Nodes(node), entered)
<1>1. /\ entered \in Plans!Searches /\ after \in Plans!Searches
      /\ \/ /\ ~search.ok \/ node \in search.visiting
            /\ result = [search EXCEPT !.ok = FALSE]
         \/ /\ search.ok /\ node \notin search.visiting /\ node \in search.visited
            /\ result = search
         \/ /\ search.ok /\ node \notin search.visiting /\ node \notin search.visited
            /\ result = [after EXCEPT !.visiting = @ \ {node}, !.visited = @ \cup {node}]
  BY VisitIs
<1>2. search.ok /\ rank[node] \in Nat /\ node \notin search.visiting
  BY DEF Above, Ranked
<1>3. entered.ok /\ entered.visiting = search.visiting \cup {node}
  BY <1>2 DEF Entered, Plans!Searches
<1> HIDE DEF result, entered
<1>4. CASE result = search
  BY <1>2, <1>4 DEF result
<1>5. CASE result = [after EXCEPT !.visiting = @ \ {node}, !.visited = @ \cup {node}]
  <2>1. \A i \in 1 .. Len(Nodes(node)) :
          rank[Nodes(node)[i]] <= n /\ Above(entered, rank, rank[Nodes(node)[i]])
    <3> SUFFICES ASSUME NEW d \in Needs(node)
                 PROVE  rank[d] <= n /\ Above(entered, rank, rank[d])
      BY NodesAre
    <3>1. d \in Plans!Ids
      BY DEF Known
    <3>2. rank[d] \in Nat /\ rank[d] < rank[node]
      BY <3>1 DEF Ranked
    <3>3. \A v \in search.visiting : rank[v] > rank[node] /\ rank[v] \in Nat
      BY DEF Above, Ranked, Plans!Searches
    <3>4. \A v \in entered.visiting : rank[v] > rank[d]
      BY <1>2, <1>3, <3>2, <3>3
    <3>5. QED BY <1>2, <1>3, <3>2, <3>4 DEF Above
  <2>2. after.ok /\ after.visiting = entered.visiting
    <3>1. Nodes(node) \in Seq(Plans!Ids)
      BY NodesAre
    <3>2. QED BY <1>1, <1>3, <2>1, <3>1, AllComplete
  <2> HIDE DEF after
  <2>3. result.ok /\ result.visiting = entered.visiting \ {node}
    BY <1>1, <1>5, <2>2 DEF Plans!Searches
  <2>4. QED BY <1>2, <1>3, <2>3 DEF result
<1>6. QED BY <1>1, <1>2, <1>4, <1>5

LEMMA VisitsComplete ==
  ASSUME Known, Len(plan) \in Nat, NEW rank, Ranked(rank)
  PROVE  Complete(Plans!Visits[Len(plan) + 1], rank, Len(plan) + 1)
<1> DEFINE N == Len(plan) + 1
           I == {n \in Nat : n > N \/ Complete(Plans!Visits[n], rank, n)}
<1>1. N \in Nat
  OBVIOUS
<1>2. 0 \in I
  <2>1. Complete(Plans!Visits[0], rank, 0)
    BY DEF Complete, Ranked
  <2>2. QED BY <2>1
<1>3. \A n \in I : n + 1 \in I
  <2> SUFFICES ASSUME NEW n \in Nat, n + 1 <= N, Complete(Plans!Visits[n], rank, n)
               PROVE  Complete(Plans!Visits[n + 1], rank, n + 1)
    OBVIOUS
  <2>1. n \in 0 .. Len(plan) /\ n \in 0 .. Len(plan) + 1
    OBVIOUS
  <2>2. Plans!Visits[n] \in Visitors /\ Plans!Visits[n + 1] = Plans!Visit(Plans!Visits[n])
    BY <2>1, VisitsAre
  <2>3. QED BY <2>2, VisitComplete
<1> HIDE DEF I
<1>4. I \in SUBSET Nat
  BY DEF I
<1>5. N \in I
  BY <1>1, <1>2, <1>3, <1>4, NaturalsFrom
<1>6. QED BY <1>1, <1>5 DEF I

-----------------------------------------------------------------------------
(* Plans: validate_dag accepts what has an order, and nothing else.        *)

LEMMA PlanHas ==
  ASSUME Plans!TypeOK
  PROVE  /\ Len(plan) \in Nat /\ DOMAIN plan = 1 .. Len(plan)
         /\ \A i \in 1 .. Len(plan) : plan[i] \in Steps /\ plan[i].id \in Plans!Ids
         /\ Plans!Range(plan) = {plan[i] : i \in 1 .. Len(plan)}
         /\ Plans!Ids = {plan[i].id : i \in 1 .. Len(plan)}
         /\ IsFiniteSet(Plans!Ids)
<1>1. plan \in Seq(Steps)
  BY DEF Plans!TypeOK
<1>2. Len(plan) \in Nat /\ DOMAIN plan = 1 .. Len(plan) /\ \A i \in 1 .. Len(plan) : plan[i] \in Steps
  BY <1>1
<1>3. Plans!Range(plan) = {plan[i] : i \in 1 .. Len(plan)}
  BY <1>2 DEF Plans!Range
<1>4. Plans!Ids = {plan[i].id : i \in 1 .. Len(plan)}
  BY <1>3 DEF Plans!Ids
<1>5. IsFiniteSet(Plans!Ids)
  <2> DEFINE f == [i \in 1 .. Len(plan) |-> plan[i].id]
  <2>1. f \in Surjection(1 .. Len(plan), Plans!Ids)
    BY <1>4 DEF Surjection
  <2>2. ExistsSurjection(1 .. Len(plan), Plans!Ids)
    BY <2>1 DEF ExistsSurjection
  <2>3. QED BY <1>2, <2>2, FS_NatSurjection
<1>6. QED BY <1>2, <1>3, <1>4, <1>5

LEMMA IdsDiffer ==
  ASSUME Plans!TypeOK, Plans!Cardinality(Plans!Ids) = Len(plan)
  PROVE  /\ \A i, j \in 1 .. Len(plan) : plan[i].id = plan[j].id => i = j
         /\ \A i \in 1 .. Len(plan) : Plans!StepOf(plan[i].id) = plan[i]
<1> DEFINE f == [i \in 1 .. Len(plan) |-> plan[i].id]
           ids == Plans!Ids
<1>1. /\ Len(plan) \in Nat /\ Plans!Range(plan) = {plan[i] : i \in 1 .. Len(plan)}
      /\ ids = {plan[i].id : i \in 1 .. Len(plan)}
  BY PlanHas
<1>2. f \in Surjection(1 .. Len(plan), ids)
  BY <1>1 DEF Surjection
<1>3. Cardinality(ids) = Len(plan)
  BY DEF Plans!Cardinality, Cardinality
<1> HIDE DEF f, ids
<1>4. IsFiniteSet(1 .. Len(plan)) /\ Cardinality(1 .. Len(plan)) = Len(plan)
  <2>1. 1 \in Int /\ Len(plan) \in Int
    BY <1>1
  <2>2. /\ IsFiniteSet(1 .. Len(plan))
        /\ Cardinality(1 .. Len(plan)) = IF 1 > Len(plan) THEN 0 ELSE Len(plan) - 1 + 1
    BY <2>1, FS_Interval
  <2>3. QED BY <1>1, <2>2
<1>5. f \in Injection(1 .. Len(plan), ids)
  BY <1>2, <1>3, <1>4, FS_SurjSameCardinalityImpliesInj
<1>6. \A i, j \in 1 .. Len(plan) : plan[i].id = plan[j].id => i = j
  BY <1>5 DEF f, Injection, IsInjective
<1>7. \A i \in 1 .. Len(plan) : Plans!StepOf(plan[i].id) = plan[i]
  BY <1>1, <1>6 DEF Plans!StepOf
<1>8. QED BY <1>6, <1>7

\* Every step has a name of its own, and every dependency is the name of one.
WellNamed ==
  /\ Plans!Cardinality(Plans!Ids) = Len(plan)
  /\ \A s \in Plans!Range(plan) : s.needs \subseteq Plans!Ids

LEMMA WellNamedIsKnown ==
  ASSUME Plans!TypeOK, WellNamed
  PROVE  Known /\ \A i \in 1 .. Len(plan) : Needs(plan[i].id) = plan[i].needs
<1>1. /\ Plans!Range(plan) = {plan[i] : i \in 1 .. Len(plan)}
      /\ Plans!Ids = {plan[i].id : i \in 1 .. Len(plan)} /\ IsFiniteSet(Plans!Ids)
  BY PlanHas
<1>2. \A i \in 1 .. Len(plan) : Plans!StepOf(plan[i].id) = plan[i]
  BY IdsDiffer DEF WellNamed
<1>3. \A i \in 1 .. Len(plan) : Needs(plan[i].id) = plan[i].needs
  BY <1>2 DEF Needs
<1>4. ASSUME NEW node \in Plans!Ids PROVE Needs(node) \subseteq Plans!Ids
  <2>1. PICK i \in 1 .. Len(plan) : node = plan[i].id
    BY <1>1
  <2>2. plan[i] \in Plans!Range(plan) /\ Needs(node) = plan[i].needs
    BY <1>1, <1>3, <2>1
  <2>3. QED BY <2>2 DEF WellNamed
<1>5. Known
  BY <1>1, <1>4 DEF Known
<1>6. QED BY <1>3, <1>5

Orders(rank) ==
  /\ rank \in [Plans!Ids -> 1 .. Len(plan)]
  /\ \A s \in Plans!Range(plan) : \A d \in s.needs : d \in Plans!Ids /\ rank[d] < rank[s.id]

Start == [ok |-> TRUE, visiting |-> {}, visited |-> {}]

Graph == [i \in DOMAIN plan |-> plan[i].id]

LEMMA SearchBegins ==
  ASSUME Plans!TypeOK
  PROVE  /\ Start \in Plans!Searches /\ Ordered(Start.visited)
         /\ Graph \in Seq(Plans!Ids) /\ Len(Graph) = Len(plan)
         /\ \A i \in 1 .. Len(plan) : Graph[i] = plan[i].id
<1>1. /\ Len(plan) \in Nat /\ DOMAIN plan = 1 .. Len(plan)
      /\ \A i \in 1 .. Len(plan) : plan[i].id \in Plans!Ids
  BY PlanHas
<1>2. Start \in Plans!Searches
  BY DEF Start, Plans!Searches
<1>3. Ordered({})
  <2>1. [node \in {} |-> 1] \in [{} -> 1 .. Cardinality({})]
    OBVIOUS
  <2>2. QED BY <2>1 DEF Ordered
<1>4. Graph \in [1 .. Len(plan) -> Plans!Ids]
  BY <1>1 DEF Graph
<1>5. Graph \in Seq(Plans!Ids) /\ Len(Graph) = Len(plan)
  BY <1>1, <1>4
<1>6. QED BY <1>1, <1>2, <1>3, <1>5 DEF Graph, Start

LEMMA DagHasOrder ==
  ASSUME Plans!TypeOK, Plans!IsDag
  PROVE  WellNamed /\ \E rank : Orders(rank)
<1>1. WellNamed
  BY DEF Plans!IsDag, WellNamed
<1>2. /\ Len(plan) \in Nat /\ Plans!Range(plan) = {plan[i] : i \in 1 .. Len(plan)}
      /\ Plans!Ids = {plan[i].id : i \in 1 .. Len(plan)}
  BY PlanHas
<1>3. Known /\ \A i \in 1 .. Len(plan) : Needs(plan[i].id) = plan[i].needs
  BY <1>1, WellNamedIsKnown
<1> DEFINE visit == Plans!Visits[Len(plan) + 1]
           after == Plans!VisitAll(visit, Graph, Start)
<1>4. after.ok
  BY DEF Plans!IsDag, Graph, Start
<1>5. visit \in Visitors /\ Sound(visit)
  BY <1>2, <1>3, VisitsAre, VisitsSound
<1>6. after \in Plans!Searches
  <2> HIDE DEF visit
  <2>1. PICK f \in [0 .. Len(Graph) -> Plans!Searches] : after = f[Len(Graph)]
    BY <1>5, SearchBegins, VisitAllIs
  <2>2. QED BY <1>2, <2>1, SearchBegins
<1>7. Extends(after, Start) /\ \A i \in 1 .. Len(plan) : plan[i].id \in after.visited
  <2> HIDE DEF visit
  <2>1. Extends(after, Start) /\ \A i \in 1 .. Len(Graph) : Graph[i] \in after.visited
    BY <1>4, <1>5, SearchBegins, AllSound
  <2>2. QED BY <2>1, SearchBegins
<1> HIDE DEF after
<1>8. after.visited = Plans!Ids
  BY <1>2, <1>6, <1>7 DEF Plans!Searches
<1>9. PICK rank \in [Plans!Ids -> 1 .. Cardinality(Plans!Ids)] :
        \A node \in Plans!Ids : \A d \in Needs(node) : rank[d] < rank[node]
  BY <1>7, <1>8 DEF Extends, Ordered
<1>10. Cardinality(Plans!Ids) = Len(plan)
  BY <1>1 DEF WellNamed, Plans!Cardinality, Cardinality
<1>11. Orders(rank)
  BY <1>1, <1>2, <1>3, <1>9, <1>10 DEF Orders, WellNamed
<1>12. QED BY <1>1, <1>11

LEMMA OrderIsDag ==
  ASSUME Plans!TypeOK, WellNamed, NEW rank, Orders(rank)
  PROVE  Plans!IsDag
<1>1. /\ Len(plan) \in Nat /\ Plans!Range(plan) = {plan[i] : i \in 1 .. Len(plan)}
      /\ Plans!Ids = {plan[i].id : i \in 1 .. Len(plan)}
  BY PlanHas
<1>2. Known /\ \A i \in 1 .. Len(plan) : Needs(plan[i].id) = plan[i].needs
  BY WellNamedIsKnown
<1>3. Ranked(rank) /\ \A node \in Plans!Ids : rank[node] \in 1 .. Len(plan)
  <2>1. rank \in [Plans!Ids -> 1 .. Len(plan)]
    BY DEF Orders
  <2>2. rank \in [Plans!Ids -> Nat \ {0}]
    BY <1>1, <2>1
  <2>3. \A i \in 1 .. Len(plan) : \A d \in plan[i].needs : rank[d] < rank[plan[i].id]
    BY <1>1 DEF Orders
  <2>4. \A node \in Plans!Ids : \A d \in Needs(node) : rank[d] < rank[node]
    BY <1>1, <1>2, <2>3
  <2>5. QED BY <2>1, <2>2, <2>4 DEF Ranked
<1> DEFINE visit == Plans!Visits[Len(plan) + 1]
<1>4. visit \in Visitors /\ Complete(visit, rank, Len(plan) + 1)
  BY <1>1, <1>2, <1>3, VisitsAre, VisitsComplete
<1> HIDE DEF visit
<1>5. \A i \in 1 .. Len(Graph) :
        rank[Graph[i]] <= Len(plan) + 1 /\ Above(Start, rank, rank[Graph[i]])
  <2> SUFFICES ASSUME NEW i \in 1 .. Len(plan)
               PROVE  rank[plan[i].id] <= Len(plan) + 1 /\ Above(Start, rank, rank[plan[i].id])
    BY SearchBegins
  <2>1. plan[i].id \in Plans!Ids
    BY PlanHas
  <2>2. rank[plan[i].id] <= Len(plan) + 1
    BY <1>1, <1>3, <2>1
  <2>3. QED BY <2>2 DEF Above, Start
<1>6. Start.ok
  BY DEF Start
<1>7. Plans!VisitAll(visit, Graph, Start).ok
  BY <1>4, <1>5, <1>6, SearchBegins, AllComplete
<1>8. QED BY <1>7 DEF Plans!IsDag, WellNamed, Graph, Start, visit

LEMMA DagIsExact ==
  ASSUME Plans!TypeOK
  PROVE  Plans!DagIsExact
<1>1. Plans!IsDag => WellNamed /\ \E rank : Orders(rank)
  BY DagHasOrder
<1>2. /\ Plans!Cardinality(Plans!Ids) = Len(plan)
      /\ \E rank \in [Plans!Ids -> 1 .. Len(plan)] :
           \A s \in Plans!Range(plan) : \A d \in s.needs : d \in Plans!Ids /\ rank[d] < rank[s.id]
      => Plans!IsDag
  <2> SUFFICES ASSUME Plans!Cardinality(Plans!Ids) = Len(plan),
                      NEW rank \in [Plans!Ids -> 1 .. Len(plan)],
                      \A s \in Plans!Range(plan) : \A d \in s.needs : d \in Plans!Ids /\ rank[d] < rank[s.id]
               PROVE  Plans!IsDag
    OBVIOUS
  <2>1. WellNamed /\ Orders(rank)
    BY DEF WellNamed, Orders
  <2>2. QED BY <2>1, OrderIsDag
<1>3. QED BY <1>1, <1>2 DEF Plans!DagIsExact, WellNamed, Orders

-----------------------------------------------------------------------------
(* Plans: the files a step may count on when those listed before it have   *)
(* been seen.                                                              *)

Creates(i) == plan[i].tool = "create"

CreatedBy(i) == {plan[k].path : k \in {l \in 1 .. i : Creates(l)}}

AvailableBy(available) ==
  available = [i \in 0 .. Len(plan) |->
                 IF i = 0 THEN snapshot ELSE Plans!After(plan[i], available[i - 1])]

LEMMA AvailableUnfolds == Plans!Available = CHOOSE available : AvailableBy(available)
BY DEF Plans!Available, AvailableBy

LEMMA CreatedByMore ==
  ASSUME NEW n \in Nat
  PROVE  Plans!After(plan[n + 1], snapshot \cup CreatedBy(n)) = snapshot \cup CreatedBy(n + 1)
<1>1. \A l : l \in 1 .. n + 1 <=> l \in 1 .. n \/ l = n + 1
  OBVIOUS
<1>2. CASE Creates(n + 1)
  <2>1. CreatedBy(n + 1) = CreatedBy(n) \cup {plan[n + 1].path}
    BY <1>1, <1>2 DEF CreatedBy
  <2>2. QED BY <1>2, <2>1 DEF Creates, Plans!After
<1>3. CASE ~ Creates(n + 1)
  <2>1. CreatedBy(n + 1) = CreatedBy(n)
    BY <1>1, <1>3 DEF CreatedBy
  <2>2. QED BY <1>3, <2>1 DEF Creates, Plans!After
<1>4. QED BY <1>2, <1>3

LEMMA AvailableIs ==
  ASSUME Len(plan) \in Nat
  PROVE  \A i \in 0 .. Len(plan) : Plans!Available[i] = snapshot \cup CreatedBy(i)
<1> DEFINE N == Len(plan)
           f == [i \in 0 .. N |-> snapshot \cup CreatedBy(i)]
           available == Plans!Available
<1>1. snapshot \cup CreatedBy(0) = snapshot
  BY DEF CreatedBy
<1>2. AvailableBy(f)
  <2>1. \A i \in 0 .. N : f[i] = IF i = 0 THEN snapshot ELSE Plans!After(plan[i], f[i - 1])
    <3> SUFFICES ASSUME NEW i \in 0 .. N
                 PROVE  f[i] = IF i = 0 THEN snapshot ELSE Plans!After(plan[i], f[i - 1])
      OBVIOUS
    <3>1. i # 0 => i - 1 \in Nat /\ i - 1 \in 0 .. N /\ i - 1 + 1 = i
      OBVIOUS
    <3>2. i # 0 => Plans!After(plan[i], snapshot \cup CreatedBy(i - 1)) = snapshot \cup CreatedBy(i)
      BY <3>1, CreatedByMore
    <3>3. QED BY <1>1, <3>1, <3>2
  <2> HIDE DEF f
  <2>2. f = [i \in 0 .. N |-> f[i]]
    BY DEF f
  <2>3. QED BY <2>1, <2>2 DEF AvailableBy
<1>3. AvailableBy(available)
  BY <1>2, AvailableUnfolds
<1> HIDE DEF available, N
<1>4. \A i \in 0 .. N :
        available[i] = IF i = 0 THEN snapshot ELSE Plans!After(plan[i], available[i - 1])
  BY <1>3 DEF AvailableBy, N
<1>5. N \in Nat
  BY DEF N
<1> DEFINE I == {n \in Nat : n > N \/ available[n] = snapshot \cup CreatedBy(n)}
<1>6. 0 \in I
  BY <1>1, <1>4, <1>5
<1>7. \A n \in I : n + 1 \in I
  <2> SUFFICES ASSUME NEW n \in Nat, n + 1 <= N, available[n] = snapshot \cup CreatedBy(n)
               PROVE  available[n + 1] = snapshot \cup CreatedBy(n + 1)
    BY <1>5
  <2>1. n + 1 \in 0 .. N /\ n + 1 # 0 /\ n + 1 - 1 = n
    BY <1>5
  <2>2. PICK i \in 0 .. N : i = n + 1 /\ i # 0 /\ i - 1 = n
    BY <2>1
  <2>3. available[i] = Plans!After(plan[i], available[i - 1])
    BY <1>4, <2>2
  <2>4. QED BY <2>2, <2>3, CreatedByMore
<1> HIDE DEF I
<1>8. I \in SUBSET Nat
  BY DEF I
<1>9. I = Nat
  BY <1>6, <1>7, <1>8, NaturalsFrom
<1>10. \A i \in 0 .. N : i \in I /\ ~ (i > N)
  BY <1>5, <1>9
<1>11. QED BY <1>10 DEF I, available, N

\* What validate_plan says of the files, when it accepts a plan.
PlanFits ==
  \A j \in 1 .. Len(plan) :
    /\ plan[j].tool \in {"read", "modify"} =>
         \/ plan[j].path \in snapshot
         \/ \E i \in 1 .. j - 1 : Creates(i) /\ plan[i].path = plan[j].path
    /\ Creates(j) =>
         /\ plan[j].path \notin snapshot
         /\ \A i \in 1 .. j - 1 : Creates(i) => plan[i].path # plan[j].path

LEMMA ValidFits ==
  ASSUME Plans!TypeOK, Plans!IsValid
  PROVE  PlanFits
<1> SUFFICES ASSUME NEW j \in 1 .. Len(plan)
             PROVE  /\ plan[j].tool \in {"read", "modify"} =>
                         \/ plan[j].path \in snapshot
                         \/ \E i \in 1 .. j - 1 : Creates(i) /\ plan[i].path = plan[j].path
                    /\ Creates(j) =>
                         /\ plan[j].path \notin snapshot
                         /\ \A i \in 1 .. j - 1 : Creates(i) => plan[i].path # plan[j].path
  BY DEF PlanFits
<1>1. Len(plan) \in Nat /\ DOMAIN plan = 1 .. Len(plan)
  BY PlanHas
<1>2. Plans!FileFits(plan[j], Plans!Available[j - 1])
  BY <1>1 DEF Plans!IsValid
<1>3. j - 1 \in 0 .. Len(plan)
  BY <1>1
<1>4. Plans!Available[j - 1] = snapshot \cup CreatedBy(j - 1)
  BY <1>1, <1>3, AvailableIs
<1>5. Plans!FileFits(plan[j], snapshot \cup CreatedBy(j - 1))
  BY <1>2, <1>4
<1>6. QED BY <1>5 DEF Plans!FileFits, CreatedBy, Creates

-----------------------------------------------------------------------------
(* Plans: how the waves follow the dependencies.                           *)

\* The places of the plan can be numbered, every dependency before what needs it.
PlanOrdered ==
  /\ \A i, j \in 1 .. Len(plan) : plan[i].id = plan[j].id => i = j
  /\ \E rank \in [1 .. Len(plan) -> 1 .. Len(plan)] :
       \A i \in 1 .. Len(plan) : \A d \in plan[i].needs :
         \E j \in 1 .. Len(plan) : plan[j].id = d /\ rank[j] < rank[i]

LEMMA DagOrders ==
  ASSUME Plans!TypeOK, Plans!IsDag
  PROVE  PlanOrdered
<1>1. WellNamed /\ \E rank : Orders(rank)
  BY DagHasOrder
<1>2. PICK rank : Orders(rank)
  BY <1>1
<1>3. /\ \A i \in 1 .. Len(plan) : plan[i].id \in Plans!Ids
      /\ Plans!Range(plan) = {plan[i] : i \in 1 .. Len(plan)}
      /\ Plans!Ids = {plan[i].id : i \in 1 .. Len(plan)}
  BY PlanHas
<1>4. \A i, j \in 1 .. Len(plan) : plan[i].id = plan[j].id => i = j
  BY <1>1, IdsDiffer DEF WellNamed
<1> DEFINE place == [i \in 1 .. Len(plan) |-> rank[plan[i].id]]
<1>5. rank \in [Plans!Ids -> 1 .. Len(plan)]
  BY <1>2 DEF Orders
<1>6. place \in [1 .. Len(plan) -> 1 .. Len(plan)]
  BY <1>3, <1>5
<1>7. ASSUME NEW i \in 1 .. Len(plan), NEW d \in plan[i].needs
      PROVE  \E j \in 1 .. Len(plan) : plan[j].id = d /\ place[j] < place[i]
  <2>1. d \in Plans!Ids /\ rank[d] < rank[plan[i].id]
    BY <1>2, <1>3 DEF Orders
  <2>2. PICK j \in 1 .. Len(plan) : plan[j].id = d
    BY <1>3, <2>1
  <2>3. QED BY <2>1, <2>2
<1> HIDE DEF place
<1>8. QED BY <1>4, <1>6, <1>7 DEF PlanOrdered

\* The least of some numbers.
LEMMA LeastIs ==
  ASSUME NEW S \in SUBSET Nat, S # {}
  PROVE  Plans!Min(S) \in S /\ \A n \in S : Plans!Min(S) <= n
<1> DEFINE less == {ss \in Nat \X Nat : ss[1] < ss[2]}
<1>1. IsWellFoundedOn(less, Nat)
  BY NatLessThanWellFounded DEF OpToRel
<1>2. PICK m \in S : \A n \in S : <<n, m>> \notin less
  BY <1>1, WFMin
<1>3. ASSUME NEW n \in S PROVE m <= n
  <2>1. n \in Nat /\ m \in Nat
    OBVIOUS
  <2>2. n < m => <<n, m>> \in less
    BY <2>1
  <2>3. ~ (n < m)
    BY <1>2, <2>2
  <2>4. QED BY <2>1, <2>3
<1>4. QED BY <1>3 DEF Plans!Min

\* Of an ordered plan some step is ready, until all are done.
LEMMA SomeIsReady ==
  ASSUME Plans!TypeOK, PlanOrdered, Plans!Remaining # {}
  PROVE  \E i \in Plans!Remaining : plan[i].needs \subseteq done
<1>1. Len(plan) \in Nat /\ Plans!Remaining = {i \in 1 .. Len(plan) : plan[i].id \notin done}
  BY PlanHas DEF Plans!Remaining
<1>2. PICK rank \in [1 .. Len(plan) -> 1 .. Len(plan)] :
        \A i \in 1 .. Len(plan) : \A d \in plan[i].needs :
          \E j \in 1 .. Len(plan) : plan[j].id = d /\ rank[j] < rank[i]
  BY DEF PlanOrdered
<1> DEFINE ranks == {rank[i] : i \in Plans!Remaining}
<1>3. ranks \in SUBSET Nat /\ ranks # {}
  BY <1>1
<1> HIDE DEF ranks
<1>4. Plans!Min(ranks) \in ranks /\ \A n \in ranks : Plans!Min(ranks) <= n
  BY <1>3, LeastIs
<1>5. PICK i \in Plans!Remaining : rank[i] = Plans!Min(ranks)
  BY <1>4 DEF ranks
<1>6. ASSUME NEW d \in plan[i].needs, d \notin done
      PROVE  FALSE
  <2>1. PICK j \in 1 .. Len(plan) : plan[j].id = d /\ rank[j] < rank[i]
    BY <1>1, <1>2
  <2>2. j \in Plans!Remaining
    BY <1>1, <1>6, <2>1
  <2>3. rank[i] <= rank[j]
    BY <1>4, <1>5, <2>2 DEF ranks
  <2>4. rank[i] \in Nat /\ rank[j] \in Nat
    BY <1>1
  <2>5. QED BY <2>1, <2>3, <2>4
<1>7. QED BY <1>6

-----------------------------------------------------------------------------
(* Plans: the inductive invariant.                                         *)

\* What is done or begun had all it needs done before it.
DoneInOrder ==
  \A i \in 1 .. Len(plan) : plan[i].id \in done \/ i \in wave => plan[i].needs \subseteq done

CreatedByDone == {plan[i].path : i \in {k \in 1 .. Len(plan) : plan[k].id \in done /\ Creates(k)}}

\* From its acceptance on a plan has an order and fits its files, the waves follow
\* the order, and the files are those of the beginning and those created, as long
\* as nobody else changes them.
PlanInv ==
  /\ Plans!TypeOK /\ phase # "stuck"
  /\ phase = "planning" => done = {} /\ wave = {} /\ (changes = 0 => there = snapshot)
  /\ phase \in {"executing", "failed"} =>
       /\ PlanOrdered /\ PlanFits /\ DoneInOrder
       /\ changes = 0 => there = snapshot \cup CreatedByDone
  /\ phase = "failed" => wave # {} /\ ~ Plans!FileFits(plan[Plans!Min(wave)], there)

\* What is said of the plan alone stays when the plan does.
LEMMA PlanStays ==
  ASSUME plan' = plan, snapshot' = snapshot
  PROVE  /\ Plans!Ids' = Plans!Ids
         /\ PlanOrdered => PlanOrdered'
         /\ PlanFits => PlanFits'
         /\ done' = done => Plans!Remaining' = Plans!Remaining /\ CreatedByDone' = CreatedByDone
<1>1. Plans!Ids' = Plans!Ids
  BY DEF Plans!Ids, Plans!Range
<1>2. PlanOrdered => PlanOrdered'
  BY DEF PlanOrdered
<1>3. PlanFits => PlanFits'
  BY DEF PlanFits, Creates
<1>4. done' = done => Plans!Remaining' = Plans!Remaining /\ CreatedByDone' = CreatedByDone
  BY DEF Plans!Remaining, CreatedByDone, Creates
<1>5. QED BY <1>1, <1>2, <1>3, <1>4

LEMMA PlansInit ==
  ASSUME Plans!StepsAssumption, Plans!Init
  PROVE  PlanInv
<1>1. plan \in Seq(Steps) /\ Len(plan) = 0
  BY DEF Plans!Init
<1>2. 0 <= MaxLength /\ 0 \in 0 .. MaxChanges
  BY DEF Plans!StepsAssumption
<1>3. Plans!TypeOK
  BY <1>1, <1>2 DEF Plans!TypeOK, Plans!Init
<1>4. QED BY <1>3 DEF PlanInv, Plans!Init

LEMMA WriteStepKeeps ==
  ASSUME Plans!StepsAssumption, PlanInv, NEW step \in Steps, Plans!WriteStep(step)
  PROVE  PlanInv'
<1>1. /\ plan \in Seq(Steps) /\ phase = "planning" /\ phase' = phase /\ Len(plan) < MaxLength
      /\ plan' = Append(plan, step) /\ done' = {} /\ wave' = {} /\ MaxLength \in Nat
  BY DEF PlanInv, Plans!TypeOK, Plans!WriteStep, Plans!StepsAssumption
<1>2. plan' \in Seq(Steps) /\ Len(plan') <= MaxLength
  BY <1>1
<1>3. Plans!TypeOK'
  BY <1>1, <1>2 DEF PlanInv, Plans!TypeOK, Plans!WriteStep
<1>4. changes' = 0 => there' = snapshot'
  BY <1>1 DEF PlanInv, Plans!WriteStep
<1>5. QED BY <1>1, <1>3, <1>4 DEF PlanInv

LEMMA SubmitKeeps ==
  ASSUME PlanInv, Plans!Submit
  PROVE  PlanInv'
<1>1. /\ phase = "planning" /\ done = {} /\ wave = {} /\ plan' = plan /\ snapshot' = snapshot
      /\ there' = there /\ done' = done /\ wave' = wave /\ changes' = changes
      /\ phase' = IF ~ Plans!IsDag THEN "malformed" ELSE IF ~ Plans!IsValid THEN "rejected" ELSE "executing"
      /\ changes = 0 => there = snapshot
      /\ Plans!TypeOK
  BY DEF PlanInv, Plans!Submit
<1>2. phase' \in {"malformed", "rejected", "executing"}
  BY <1>1
<1>3. Plans!TypeOK'
  <2>1. Plans!Ids' = Plans!Ids /\ Plans!Remaining' = Plans!Remaining
    BY <1>1, PlanStays
  <2>2. QED BY <1>1, <1>2, <2>1 DEF Plans!TypeOK
<1>4. phase' = "executing" => PlanOrdered' /\ PlanFits'
  BY <1>1, DagOrders, ValidFits, PlanStays
<1>5. DoneInOrder' /\ CreatedByDone' = {}
  BY <1>1 DEF DoneInOrder, CreatedByDone
<1>6. changes' = 0 => there' = snapshot' \cup CreatedByDone'
  BY <1>1, <1>5
<1>7. QED BY <1>2, <1>3, <1>4, <1>5, <1>6 DEF PlanInv

LEMMA MeddleKeeps ==
  ASSUME Plans!StepsAssumption, PlanInv, NEW path \in PlanPaths, Plans!Meddle(path)
  PROVE  PlanInv'
<1>1. /\ phase \in {"planning", "executing"} /\ phase' = phase /\ changes < MaxChanges
      /\ there' = (there \ {path}) \cup ({path} \ there) /\ changes' = changes + 1
      /\ plan' = plan /\ snapshot' = snapshot /\ done' = done /\ wave' = wave
      /\ Plans!TypeOK
  BY DEF PlanInv, Plans!Meddle
<1>2. changes' \in 0 .. MaxChanges /\ changes' # 0
  BY <1>1 DEF Plans!TypeOK, Plans!StepsAssumption
<1>3. there' \subseteq PlanPaths
  BY <1>1 DEF Plans!TypeOK
<1>4. Plans!TypeOK'
  <2>1. Plans!Ids' = Plans!Ids /\ Plans!Remaining' = Plans!Remaining
    BY <1>1, PlanStays
  <2>2. QED BY <1>1, <1>2, <1>3, <2>1 DEF Plans!TypeOK
<1>5. phase' = "executing" => PlanOrdered' /\ PlanFits' /\ DoneInOrder'
  <2>1. DoneInOrder => DoneInOrder'
    BY <1>1 DEF DoneInOrder
  <2>2. QED BY <1>1, <2>1, PlanStays DEF PlanInv
<1>6. phase' = "planning" => done' = {} /\ wave' = {}
  BY <1>1 DEF PlanInv
<1>7. QED BY <1>1, <1>2, <1>4, <1>5, <1>6 DEF PlanInv

LEMMA NextWaveKeeps ==
  ASSUME PlanInv, Plans!NextWave
  PROVE  PlanInv'
<1> DEFINE ready == {i \in Plans!Remaining : plan[i].needs \subseteq done}
<1>1. /\ phase = "executing" /\ wave = {} /\ Plans!Remaining # {}
      /\ IF ready = {} THEN phase' = "stuck" /\ wave' = wave ELSE wave' = ready /\ phase' = phase
      /\ plan' = plan /\ snapshot' = snapshot /\ there' = there /\ done' = done /\ changes' = changes
      /\ Plans!TypeOK /\ PlanOrdered /\ PlanFits /\ DoneInOrder
      /\ changes = 0 => there = snapshot \cup CreatedByDone
  BY DEF PlanInv, Plans!NextWave
<1>2. ready # {}
  BY <1>1, SomeIsReady
<1>3. phase' = "executing" /\ wave' = ready
  BY <1>1, <1>2
<1>4. /\ Plans!Ids' = Plans!Ids /\ Plans!Remaining' = Plans!Remaining
      /\ CreatedByDone' = CreatedByDone /\ PlanOrdered' /\ PlanFits'
  BY <1>1, PlanStays
<1>5. Plans!TypeOK'
  BY <1>1, <1>3, <1>4 DEF Plans!TypeOK
<1>6. DoneInOrder'
  BY <1>1, <1>3 DEF DoneInOrder
<1>7. changes' = 0 => there' = snapshot' \cup CreatedByDone'
  BY <1>1, <1>4
<1>8. QED BY <1>3, <1>4, <1>5, <1>6, <1>7 DEF PlanInv

\* The step that runs next is in the wave, and not done.
LEMMA FirstOfWave ==
  ASSUME Plans!TypeOK, wave # {}
  PROVE  /\ Plans!Min(wave) \in wave /\ Plans!Min(wave) \in 1 .. Len(plan)
         /\ plan[Plans!Min(wave)].id \notin done
<1>1. wave \subseteq Plans!Remaining /\ Len(plan) \in Nat /\ DOMAIN plan = 1 .. Len(plan)
  BY PlanHas DEF Plans!TypeOK
<1>2. wave \in SUBSET Nat
  BY <1>1 DEF Plans!Remaining
<1>3. Plans!Min(wave) \in wave
  BY <1>2, LeastIs
<1>4. QED BY <1>1, <1>3 DEF Plans!Remaining

LEMMA RunStepKeeps ==
  ASSUME Plans!StepsAssumption, PlanInv, Plans!RunStep
  PROVE  PlanInv'
<1> DEFINE j == Plans!Min(wave)
<1>1. /\ phase = "executing" /\ wave # {}
      /\ IF Plans!FileFits(plan[j], there)
           THEN /\ there' = Plans!After(plan[j], there)
                /\ done' = done \cup {plan[j].id} /\ wave' = wave \ {j} /\ phase' = phase
           ELSE phase' = "failed" /\ there' = there /\ done' = done /\ wave' = wave
      /\ plan' = plan /\ snapshot' = snapshot /\ changes' = changes
      /\ Plans!TypeOK /\ PlanOrdered /\ PlanFits /\ DoneInOrder
      /\ changes = 0 => there = snapshot \cup CreatedByDone
  BY DEF PlanInv, Plans!RunStep
<1>2. j \in wave /\ j \in 1 .. Len(plan) /\ plan[j].id \notin done
  BY <1>1, FirstOfWave
<1>3. Plans!Ids' = Plans!Ids /\ PlanOrdered' /\ PlanFits'
  BY <1>1, PlanStays
<1>4. CASE Plans!FileFits(plan[j], there)
  <2> HIDE DEF j
  <2>1. /\ there' = Plans!After(plan[j], there)
        /\ done' = done \cup {plan[j].id} /\ wave' = wave \ {j} /\ phase' = "executing"
    BY <1>1, <1>4
  <2>2. /\ Len(plan) \in Nat /\ DOMAIN plan = 1 .. Len(plan)
        /\ plan[j] \in Steps /\ plan[j].id \in Plans!Ids
    BY <1>1, <1>2, PlanHas
  <2>3. \A i \in 1 .. Len(plan) : plan[i].id = plan[j].id => i = j
    BY <1>1, <1>2 DEF PlanOrdered
  <2>4. there' \subseteq PlanPaths
    <3>1. plan[j].path \in PlanPaths
      BY <2>2 DEF Plans!StepsAssumption
    <3>2. QED BY <1>1, <2>1, <3>1 DEF Plans!After, Plans!TypeOK
  <2>5. wave' \subseteq Plans!Remaining'
    <3>1. wave \subseteq {i \in 1 .. Len(plan) : plan[i].id \notin done}
      BY <1>1, <2>2 DEF Plans!TypeOK, Plans!Remaining
    <3>2. \A i \in wave' : i \in 1 .. Len(plan) /\ plan[i].id \notin done'
      BY <2>1, <2>3, <3>1
    <3>3. Plans!Remaining' = {i \in 1 .. Len(plan) : plan[i].id \notin done'}
      BY <1>1, <2>2 DEF Plans!Remaining
    <3>4. QED BY <3>2, <3>3
  <2>6. Plans!TypeOK'
    BY <1>1, <1>3, <2>1, <2>2, <2>4, <2>5 DEF Plans!TypeOK
  <2>7. DoneInOrder'
    <3>1. plan[j].needs \subseteq done
      BY <1>1, <1>2 DEF DoneInOrder
    <3>2. ASSUME NEW i \in 1 .. Len(plan), plan[i].id \in done' \/ i \in wave'
          PROVE  plan[i].needs \subseteq done'
      <4>1. i = j \/ plan[i].id \in done \/ i \in wave
        BY <2>1, <2>3, <3>2
      <4>2. plan[i].needs \subseteq done
        BY <1>1, <3>1, <4>1 DEF DoneInOrder
      <4>3. QED BY <2>1, <4>2
    <3>3. QED BY <1>1, <3>2 DEF DoneInOrder
  <2>8. ASSUME changes' = 0
        PROVE  there' = snapshot' \cup CreatedByDone'
    <3>1. there = snapshot \cup CreatedByDone
      BY <1>1, <2>8
    <3>2. CreatedByDone' = {plan[i].path : i \in {k \in 1 .. Len(plan) : plan[k].id \in done' /\ Creates(k)}}
      BY <1>1 DEF CreatedByDone, Creates
    <3>3. \A k \in 1 .. Len(plan) : plan[k].id \in done' <=> plan[k].id \in done \/ k = j
      BY <2>1, <2>3
    <3>4. CASE Creates(j)
      <4>1. CreatedByDone' = CreatedByDone \cup {plan[j].path}
        BY <1>2, <3>2, <3>3, <3>4 DEF CreatedByDone
      <4>2. QED BY <1>1, <2>1, <3>1, <3>4, <4>1 DEF Plans!After, Creates
    <3>5. CASE ~ Creates(j)
      <4>1. CreatedByDone' = CreatedByDone
        BY <3>2, <3>3, <3>5 DEF CreatedByDone
      <4>2. QED BY <1>1, <2>1, <3>1, <3>5, <4>1 DEF Plans!After, Creates
    <3>6. QED BY <3>4, <3>5
  <2>9. QED BY <1>3, <2>1, <2>6, <2>7, <2>8 DEF PlanInv
<1>5. CASE ~ Plans!FileFits(plan[j], there)
  <2>1. phase' = "failed" /\ there' = there /\ done' = done /\ wave' = wave
    BY <1>1, <1>5
  <2>2. Plans!Remaining' = Plans!Remaining /\ CreatedByDone' = CreatedByDone
    BY <1>1, <2>1, PlanStays
  <2>3. Plans!TypeOK'
    BY <1>1, <1>3, <2>1, <2>2 DEF Plans!TypeOK
  <2>4. DoneInOrder'
    BY <1>1, <2>1 DEF DoneInOrder
  <2>5. changes' = 0 => there' = snapshot' \cup CreatedByDone'
    BY <1>1, <2>1, <2>2
  <2>6. (~ Plans!FileFits(plan[Plans!Min(wave)], there))'
    BY <1>1, <1>5, <2>1 DEF Plans!FileFits, Plans!Min
  <2>7. QED BY <1>1, <1>3, <2>1, <2>3, <2>4, <2>5, <2>6 DEF PlanInv
<1>6. QED BY <1>4, <1>5

LEMMA WavesEndKeeps ==
  ASSUME PlanInv, Plans!CheckFails \/ Plans!Verify
  PROVE  PlanInv'
<1>1. /\ phase' = "verifying" /\ plan' = plan /\ snapshot' = snapshot /\ there' = there
      /\ done' = done /\ wave' = wave /\ changes' = changes /\ Plans!TypeOK
  BY DEF PlanInv, Plans!CheckFails, Plans!Verify
<1>2. Plans!Ids' = Plans!Ids /\ Plans!Remaining' = Plans!Remaining
  BY <1>1, PlanStays
<1>3. Plans!TypeOK'
  BY <1>1, <1>2 DEF Plans!TypeOK
<1>4. phase' \notin {"stuck", "planning", "executing", "failed"}
  BY <1>1
<1>5. QED BY <1>3, <1>4 DEF PlanInv

LEMMA PlansNext ==
  ASSUME Plans!StepsAssumption, PlanInv, [Plans!Next]_(Plans!vars)
  PROVE  PlanInv'
<1>1. CASE UNCHANGED Plans!vars
  <2>1. /\ plan' = plan /\ snapshot' = snapshot /\ there' = there /\ phase' = phase
        /\ done' = done /\ wave' = wave /\ changes' = changes
    BY <1>1 DEF Plans!vars
  <2>2. /\ Plans!Ids' = Plans!Ids /\ (PlanOrdered => PlanOrdered') /\ (PlanFits => PlanFits')
        /\ Plans!Remaining' = Plans!Remaining /\ CreatedByDone' = CreatedByDone
    BY <2>1, PlanStays
  <2>3. Plans!TypeOK' /\ (DoneInOrder => DoneInOrder')
    BY <2>1, <2>2 DEF PlanInv, Plans!TypeOK, DoneInOrder
  <2>4. phase' = "failed" => wave' # {} /\ (~ Plans!FileFits(plan[Plans!Min(wave)], there))'
    BY <2>1 DEF PlanInv, Plans!FileFits, Plans!Min
  <2>5. QED BY <2>1, <2>2, <2>3, <2>4 DEF PlanInv
<1>2. CASE \E step \in Steps : Plans!WriteStep(step)
  BY <1>2, WriteStepKeeps
<1>3. CASE \E path \in PlanPaths : Plans!Meddle(path)
  BY <1>3, MeddleKeeps
<1>4. CASE Plans!Submit
  BY <1>4, SubmitKeeps
<1>5. CASE Plans!NextWave
  BY <1>5, NextWaveKeeps
<1>6. CASE Plans!RunStep
  BY <1>6, RunStepKeeps
<1>7. CASE Plans!CheckFails \/ Plans!Verify
  BY <1>7, WavesEndKeeps
<1>8. QED BY <1>1, <1>2, <1>3, <1>4, <1>5, <1>6, <1>7 DEF Plans!Next

-----------------------------------------------------------------------------
(* Plans: why a step fails.                                                *)

\* What is not done is no dependency of the wave, however remote.
LEMMA WaveNeedsDone ==
  ASSUME Plans!TypeOK, PlanOrdered, DoneInOrder, NEW j \in wave, j \in 1 .. Len(plan)
  PROVE  Plans!Ancestors(plan[j]) \subseteq done
<1>1. done \in SUBSET Plans!Ids
  BY DEF Plans!TypeOK
<1>2. plan[j].needs \subseteq done
  BY DEF DoneInOrder
<1>3. \A s \in Plans!Range(plan) : s.id \in done => s.needs \subseteq done
  BY PlanHas DEF DoneInOrder
<1>4. QED BY <1>1, <1>2, <1>3 DEF Plans!Ancestors

LEMMA FailureIsOrder ==
  ASSUME PlanInv
  PROVE  Plans!FailsOnlyForOrder
<1> SUFFICES ASSUME phase = "failed", changes = 0
             PROVE  \E i, j \in DOMAIN plan :
                      /\ i < j /\ j = Plans!Min(wave)
                      /\ plan[i].tool = "create" /\ plan[i].path = plan[j].path
                      /\ plan[i].id \notin Plans!Ancestors(plan[j])
  BY DEF Plans!FailsOnlyForOrder
<1> DEFINE j == Plans!Min(wave)
<1>1. /\ Plans!TypeOK /\ PlanOrdered /\ PlanFits /\ DoneInOrder /\ there = snapshot \cup CreatedByDone
      /\ wave # {} /\ ~ Plans!FileFits(plan[j], there)
  BY DEF PlanInv
<1>2. j \in wave /\ j \in 1 .. Len(plan) /\ plan[j].id \notin done
  BY <1>1, FirstOfWave
<1>3. Plans!Ancestors(plan[j]) \subseteq done
  BY <1>1, <1>2, WaveNeedsDone
<1>4. Len(plan) \in Nat /\ DOMAIN plan = 1 .. Len(plan)
  BY <1>1, PlanHas
<1> HIDE DEF j
<1>5. CASE plan[j].tool \in {"read", "modify"} /\ plan[j].path \notin there
  <2>1. PICK i \in 1 .. j - 1 : Creates(i) /\ plan[i].path = plan[j].path
    BY <1>1, <1>2, <1>5 DEF PlanFits
  <2>2. i \in 1 .. Len(plan) /\ i < j
    BY <1>2, <1>4, <2>1
  <2>3. plan[i].id \notin done
    BY <1>1, <1>5, <2>1, <2>2 DEF CreatedByDone
  <2>4. QED BY <1>2, <1>3, <1>4, <2>1, <2>2, <2>3 DEF Creates, j
<1>6. CASE Creates(j) /\ plan[j].path \in there
  <2>1. plan[j].path \notin snapshot
    BY <1>1, <1>2, <1>6 DEF PlanFits
  <2>2. PICK i \in 1 .. Len(plan) : plan[i].id \in done /\ Creates(i) /\ plan[i].path = plan[j].path
    BY <1>1, <1>6, <2>1 DEF CreatedByDone
  <2>3. i # j
    BY <1>2, <2>2
  <2>4. i \in 1 .. j - 1 \/ j \in 1 .. i - 1
    BY <1>2, <1>4, <2>3
  <2>5. QED BY <1>1, <1>2, <1>6, <2>2, <2>4 DEF PlanFits
<1>7. QED BY <1>1, <1>5, <1>6 DEF Plans!FileFits, Creates

\* validate_dag accepts exactly the plans whose steps can be put in an order; the
\* waves in which execute runs an accepted plan never end for want of a step that
\* is ready ("execution plan has no runnable step"), because dependencies point to
\* smaller numbers; and validate_plan, which walks the plan in the order in which it
\* is listed, lets a step fail for its file only when others touched the file or a
\* dependency on its creation is missing: for every set of steps and files.
THEOREM PlansAreRun ==
  ASSUME Plans!StepsAssumption
  PROVE  Plans!Spec => []PlansRun
<1>1. Plans!Init => PlanInv
  BY PlansInit
<1>2. PlanInv /\ [Plans!Next]_(Plans!vars) => PlanInv'
  BY PlansNext
<1>3. PlanInv => PlansRun
  BY DagIsExact, FailureIsOrder DEF PlanInv, PlansRun, Plans!NeverStuck
<1>4. QED BY <1>1, <1>2, <1>3, PTL DEF Plans!Spec
=============================================================================
