------------------------------ MODULE HardMemory ------------------------------
(***************************************************************************)
(* The hard memory of one owner: HardMemoryService (memory/hard.py) over   *)
(* the tables of memory/models.py. Requests run in sessions of their own;  *)
(* the row of the profile, read FOR UPDATE, lets one in at a time until    *)
(* its transaction ends.                                                   *)
(***************************************************************************)
EXTENDS Integers, Sequences, FiniteSets, SequencesExt

CONSTANTS
  Requests,
  Keys,
  Values,
  Nobody

RequestsAssumption == Nobody \notin Requests

VARIABLES
  profile,  \* revision of the profile row, 0 while there is none
  rows,     \* [key -> its rows in the order they were written]
  want,     \* [request -> what it asks for]
  at,       \* "new", "locking", "creating", "locked", "ended"
  holder,   \* the request whose transaction holds the profile row
  seen,     \* the row upsert read as the active one: its index, or 0
  counted,  \* the revision of the profile as the request read it
  reply     \* [request -> how it ended]

vars == <<profile, rows, want, at, holder, seen, counted, reply>>

Wants ==
  [op : {"upsert"}, key : Keys, value : Values]
    \cup [op : {"delete"}, key : Keys, index : 1 .. 2] \cup [op : {"list"}]

Active(k) == {i \in DOMAIN rows[k] : rows[k][i].status = "active"}
ActiveRow(k) == IF Active(k) = {} THEN 0 ELSE CHOOSE i \in Active(k) : TRUE
-----------------------------------------------------------------------------
Init ==
  /\ profile = 0 /\ rows = [k \in Keys |-> <<>>]
  /\ want \in [Requests -> Wants]
  /\ at = [r \in Requests |-> "new"] /\ holder = Nobody
  /\ seen = [r \in Requests |-> 0] /\ counted = [r \in Requests |-> 0]
  /\ reply = [r \in Requests |-> "none"]

End(r, how) ==
  /\ at' = [at EXCEPT ![r] = "ended"]
  /\ reply' = [reply EXCEPT ![r] = how]
  /\ holder' = IF holder = r THEN Nobody ELSE holder

\* A value that is not registered or of the wrong type ends an upsert before
\* it reads anything.
Reject(r) ==
  /\ at[r] = "new" /\ want[r].op = "upsert"
  /\ End(r, "invalid")
  /\ UNCHANGED <<profile, rows, want, seen, counted>>

\* profile finds no row, not even one that is being inserted: only upsert
\* creates one.
FindsNone(r) ==
  /\ at[r] = "new" /\ profile = 0 /\ holder = Nobody
  /\ IF want[r].op = "upsert"
       THEN at' = [at EXCEPT ![r] = "creating"] /\ UNCHANGED <<reply, holder>>
       ELSE End(r, IF want[r].op = "list" THEN "read" ELSE "not found")
  /\ UNCHANGED <<profile, rows, want, seen, counted>>

\* The insert of the new profile: the second of two is a duplicate.
Create(r) ==
  /\ at[r] = "creating" /\ holder = Nobody
  /\ IF profile = 0
       THEN /\ holder' = r /\ at' = [at EXCEPT ![r] = "locked"]
            /\ counted' = [counted EXCEPT ![r] = 1] /\ UNCHANGED reply
       ELSE End(r, "duplicate profile") /\ UNCHANGED counted
  /\ UNCHANGED <<profile, rows, want, seen>>

\* Mutant of Lock: the row is read without FOR UPDATE.
LockNothing(r) ==
  /\ at[r] = "new" /\ profile > 0
  /\ at' = [at EXCEPT ![r] = "locked"] /\ holder' = r
  /\ seen' = [seen EXCEPT ![r] = IF want[r].op = "upsert" THEN ActiveRow(want[r].key) ELSE 0]
  /\ counted' = [counted EXCEPT ![r] = profile]
  /\ UNCHANGED <<profile, rows, want, reply>>

\* profile gets the row, and upsert the active row of the key after it.
Lock(r) ==
  /\ at[r] = "new" /\ profile > 0 /\ holder = Nobody
  /\ holder' = r /\ at' = [at EXCEPT ![r] = "locked"]
  /\ seen' = [seen EXCEPT ![r] = IF want[r].op = "upsert" THEN ActiveRow(want[r].key) ELSE 0]
  /\ counted' = [counted EXCEPT ![r] = profile]
  /\ UNCHANGED <<profile, rows, want, reply>>

\* Mutant of Supersede: the row before stays active.
SupersedeNot(k, i) == rows[k]

Supersede(k, i) == [j \in DOMAIN rows[k] |->
                      IF j = i THEN [rows[k][j] EXCEPT !.status = "superseded"] ELSE rows[k][j]]

\* The revision of the new row counts on from the row it replaces.
NextRevision(k, i) == IF i = 0 THEN 1 ELSE rows[k][i].revision + 1

\* upsert and its commit, which the unique key of the table may refuse.
Upsert(r) ==
  LET k == want[r].key
      i == seen[r]
      revision == NextRevision(k, i)
  IN  /\ at[r] = "locked" /\ want[r].op = "upsert"
      /\ IF i # 0 /\ rows[k][i].value = want[r].value
           THEN End(r, "unchanged") /\ UNCHANGED <<profile, rows>>
         ELSE IF \E j \in DOMAIN rows[k] : rows[k][j].revision = revision
           THEN End(r, "duplicate revision") /\ UNCHANGED <<profile, rows>>
         ELSE /\ rows' = [rows EXCEPT ![k] =
                   Append(Supersede(k, i), [value |-> want[r].value, revision |-> revision, status |-> "active"])]
              /\ profile' = counted[r] + 1
              /\ End(r, "written")
      /\ UNCHANGED <<want, seen, counted>>

\* Mutant of Delete: a row is deleted whatever it is.
DeleteAny(r) ==
  LET k == want[r].key
      i == want[r].index
  IN  /\ at[r] = "locked" /\ want[r].op = "delete"
      /\ IF i \in DOMAIN rows[k]
           THEN /\ rows' = [rows EXCEPT ![k][i].status = "deleted"] /\ profile' = counted[r] + 1
                /\ End(r, "deleted")
           ELSE End(r, "not found") /\ UNCHANGED <<profile, rows>>
      /\ UNCHANGED <<want, seen, counted>>

\* delete finds the row by its id among the active ones.
Delete(r) ==
  LET k == want[r].key
      i == want[r].index
  IN  /\ at[r] = "locked" /\ want[r].op = "delete"
      /\ IF i \in Active(k)
           THEN /\ rows' = [rows EXCEPT ![k][i].status = "deleted"] /\ profile' = counted[r] + 1
                /\ End(r, "deleted")
           ELSE End(r, "not found") /\ UNCHANGED <<profile, rows>>
      /\ UNCHANGED <<want, seen, counted>>

List(r) ==
  /\ at[r] = "locked" /\ want[r].op = "list"
  /\ End(r, "read")
  /\ UNCHANGED <<profile, rows, want, seen, counted>>

\* The connection or the process is lost: the transaction is rolled back.
Lose(r) ==
  /\ at[r] \in {"creating", "locked"}
  /\ End(r, "lost")
  /\ UNCHANGED <<profile, rows, want, seen, counted>>

Next == \E r \in Requests :
  \/ Reject(r) \/ FindsNone(r) \/ Create(r) \/ Lock(r)
  \/ Upsert(r) \/ Delete(r) \/ List(r) \/ Lose(r)

Spec == Init /\ [][Next]_vars
-----------------------------------------------------------------------------
Replies == {"none", "invalid", "read", "not found", "duplicate profile", "unchanged", "written",
            "duplicate revision", "deleted", "lost"}

Row == [value : Values, revision : Nat \ {0}, status : {"active", "superseded", "deleted"}]

TypeOK ==
  /\ profile \in Nat /\ want \in [Requests -> Wants]
  /\ rows \in [Keys -> Seq(Row)]
  /\ at \in [Requests -> {"new", "creating", "locked", "ended"}]
  /\ seen \in [Requests -> Nat] /\ counted \in [Requests -> Nat] /\ reply \in [Requests -> Replies]
  /\ {r \in Requests : at[r] = "locked"} = {holder} \ {Nobody}

\* However upserts and deletes of one key meet, it has at most one active
\* value, and that is the last one written.
OneActiveValue == \A k \in Keys : Active(k) \subseteq {Len(rows[k])}

\* The revision of the profile counts the changes: none is lost.
ChangesAreCounted ==
  LET changes == Cardinality({r \in Requests : reply[r] \in {"written", "deleted"}})
  IN  profile = IF changes = 0 THEN 0 ELSE changes + 1

\* What was deleted is never active again, and what was replaced is not either.
GoneStaysGone == [][\A k \in Keys : \A i \in DOMAIN rows[k] :
  rows[k][i].status # "active" => rows'[k][i] = rows[k][i]]_vars

\* No request writes a revision a second time: the unique key of the table
\* never has to refuse an upsert.
RevisionsAreNew == \A r \in Requests : reply[r] # "duplicate revision"
=============================================================================
