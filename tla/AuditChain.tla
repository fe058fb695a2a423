------------------------------ MODULE AuditChain ------------------------------
(***************************************************************************)
(* The audit journal of one saga (audit.py): rows chained by hashes, an    *)
(* append that reads the head of the chain and inserts under a lock of the *)
(* saga, and the verification of the whole chain.                          *)
(*                                                                         *)
(* The lock is BEGIN IMMEDIATE in SQLite, an advisory transaction lock in  *)
(* PostgreSQL: it ends with its transaction, whatever ends that.  SHA-256  *)
(* of the canonical JSON is taken for injective: a hash is the sequence of *)
(* the events it depends on.                                               *)
(***************************************************************************)
EXTENDS Sequences, Naturals

CONSTANTS Appender, Event

VARIABLES
  chain,       \* the rows of the saga, by sequence
  inserting    \* per appender: the row it made for the head it read, if any

chainVars == <<chain, inserting>>

Hashes == Seq(Event)
NoHash == <<>>
Hash(previous, event) == Append(previous, event)

ChainRow == [event : Event, previous : Hashes, hash : Hashes]

RowAfter(head, event) ==
  [event |-> event, previous |-> head, hash |-> Hash(head, event)]

HeadHash(rows) == IF rows = <<>> THEN NoHash ELSE rows[Len(rows)].hash

ACTypeOK ==
  /\ chain \in Seq(ChainRow)
  /\ inserting \in [Appender -> SUBSET ChainRow]

ACInit ==
  /\ chain = <<>>
  /\ inserting = [a \in Appender |-> {}]

(* Mutant: the head is read without a lock.                                *)
UnlockedFor(a) == inserting[a] = {}

(* A transaction in progress holds the lock.                               *)
Unlocked(a) == \A b \in Appender : inserting[b] = {}

ReadHead(a, event) ==
  /\ Unlocked(a)
  /\ inserting' = [inserting EXCEPT ![a] = {RowAfter(HeadHash(chain), event)}]
  /\ UNCHANGED chain

Insert(a) ==
  /\ \E row \in inserting[a] : chain' = Append(chain, row)
  /\ inserting' = [inserting EXCEPT ![a] = {}]

(* The transaction is rolled back: an error, or the end of its process.    *)
Abort(a) ==
  /\ inserting[a] # {}
  /\ inserting' = [inserting EXCEPT ![a] = {}]
  /\ UNCHANGED chain

ACNext ==
  \E a \in Appender : Insert(a) \/ Abort(a) \/ \E event \in Event : ReadHead(a, event)

ACSpec == ACInit /\ [][ACNext]_chainVars

-----------------------------------------------------------------------------
PreviousHash(rows, i) == IF i = 1 THEN NoHash ELSE rows[i - 1].hash

(* Mutant: the stored hashes are compared with each other only.            *)
VerifyLinks(rows) == \A i \in DOMAIN rows : rows[i].previous = PreviousHash(rows, i)

(* verify_audit_chain: each stored hash is computed again.                 *)
Verify(rows) ==
  \A i \in DOMAIN rows :
    /\ rows[i].previous = PreviousHash(rows, i)
    /\ rows[i].hash = Hash(PreviousHash(rows, i), rows[i].event)

WithoutRow(rows, i) == SubSeq(rows, 1, i - 1) \o SubSeq(rows, i + 1, Len(rows))

(* "PostgreSQL uses a transaction-scoped advisory lock" so that appends    *)
(* that overlap do not fork the chain: it is valid at any time.            *)
ChainValid == Verify(chain)

(* "detects row mutation, deletion from the middle, reordering": whatever  *)
(* one of these does to the rows as they are, the verification fails.  A   *)
(* row lost at the end is not detected, and not promised to be.            *)
DamageDetected ==
  /\ \A i \in DOMAIN chain, event \in Event :
       event # chain[i].event => ~Verify([chain EXCEPT ![i].event = event])
  /\ \A i \in 1..(Len(chain) - 1) : ~Verify(WithoutRow(chain, i))
  /\ \A i, j \in DOMAIN chain :
       i < j => ~Verify([chain EXCEPT ![i] = chain[j], ![j] = chain[i]])
=============================================================================
