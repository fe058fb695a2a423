--------------------------- MODULE AuditChainProofs ---------------------------
(***************************************************************************)
(* Proofs about AuditChain, for any set of appenders and of events: the    *)
(* chain is valid at any time, and damage to it is found.                  *)
(*                                                                         *)
(* The invariant adds to the validity of the chain what makes it last: at  *)
(* most one append is between its read and its insert, what it will insert *)
(* follows the head that the chain still has, and the hash of a row        *)
(* depends on as many events as there are rows up to it.                   *)
(***************************************************************************)
EXTENDS AuditChain, TLAPS

Alone == \A a, b \in Appender : inserting[a] # {} /\ inserting[b] # {} => a = b

FollowsHead ==
  \A a \in Appender : \A row \in inserting[a] :
    \E event \in Event : row = RowAfter(HeadHash(chain), event)

Depths == \A i \in DOMAIN chain : Len(chain[i].hash) = i

ChainInv ==
  /\ ACTypeOK
  /\ Verify(chain)
  /\ Alone
  /\ FollowsHead
  /\ Depths

(* The row of an event for a head has the fields of a row.                 *)
LEMMA RowAfterType ==
  ASSUME NEW head \in Hashes, NEW event \in Event
  PROVE  /\ RowAfter(head, event) \in ChainRow
         /\ RowAfter(head, event).hash = Append(head, event)
         /\ RowAfter(head, event).previous = head
         /\ RowAfter(head, event).event = event
  BY DEF RowAfter, ChainRow, Hashes, Hash

(* The head of a chain is a hash of as many events as the chain has rows.  *)
LEMMA HeadType ==
  ASSUME ChainInv
  PROVE  HeadHash(chain) \in Hashes /\ Len(HeadHash(chain)) = Len(chain)
  <1>1. CASE chain = <<>>
    BY <1>1 DEF HeadHash, Hashes, NoHash
  <1>2. CASE chain # <<>>
    <2>1. chain \in Seq(ChainRow) /\ Len(chain) \in DOMAIN chain
      BY <1>2 DEF ChainInv, ACTypeOK
    <2>2. chain[Len(chain)] \in ChainRow
      BY <2>1
    <2> QED BY <1>2, <2>1, <2>2 DEF HeadHash, Hashes, ChainRow, ChainInv, Depths
  <1> QED BY <1>1, <1>2

(* The invariant holds at the start.                                       *)
LEMMA ChainInit == ACInit => ChainInv
  BY DEF ACInit, ChainInv, ACTypeOK, Verify, Alone, FollowsHead, Depths

(* An append that reads the head.                                          *)
LEMMA ReadHeadKeeps ==
  ASSUME ChainInv, NEW a \in Appender, NEW event \in Event, ReadHead(a, event)
  PROVE  ChainInv'
  <1>1. RowAfter(HeadHash(chain), event) \in ChainRow
    BY HeadType, RowAfterType
  <1>2. chain' = chain /\ \A b \in Appender : inserting[b] = {}
    BY DEF ReadHead, Unlocked
  <1>3. inserting' = [inserting EXCEPT ![a] = {RowAfter(HeadHash(chain), event)}]
    BY DEF ReadHead
  <1>4. ACTypeOK'
    BY <1>1, <1>2, <1>3 DEF ChainInv, ACTypeOK
  <1>5. Alone'
    BY <1>2, <1>3 DEF ChainInv, ACTypeOK, Alone
  <1>6. FollowsHead'
    BY <1>2, <1>3 DEF ChainInv, ACTypeOK, FollowsHead
  <1> QED BY <1>2, <1>4, <1>5, <1>6 DEF ChainInv, Depths

(* An append that inserts: its row follows the row that is still the last. *)
LEMMA InsertKeeps ==
  ASSUME ChainInv, NEW a \in Appender, Insert(a)
  PROVE  ChainInv'
  <1>1. PICK row \in inserting[a] : chain' = Append(chain, row)
    BY DEF Insert
  <1>2. PICK event \in Event : row = RowAfter(HeadHash(chain), event)
    BY <1>1 DEF ChainInv, FollowsHead
  <1>3. chain \in Seq(ChainRow) /\ inserting \in [Appender -> SUBSET ChainRow]
    BY DEF ChainInv, ACTypeOK
  <1>4. /\ row \in ChainRow /\ row.previous = HeadHash(chain)
        /\ row.hash = Append(HeadHash(chain), event) /\ row.event = event
    BY <1>2, HeadType, RowAfterType
  <1>5. inserting' = [b \in Appender |-> {}]
    BY <1>1, <1>3 DEF Insert, ChainInv, Alone
  <1>6. ACTypeOK' /\ Alone' /\ FollowsHead'
    BY <1>1, <1>3, <1>4, <1>5 DEF ACTypeOK, Alone, FollowsHead
  <1>7. /\ DOMAIN chain' = 1..(Len(chain) + 1)
        /\ \A i \in 1..Len(chain) : chain'[i] = chain[i]
        /\ chain'[Len(chain) + 1] = row
    BY <1>1, <1>3, <1>4
  <1>8. \A i \in 1..(Len(chain) + 1) : PreviousHash(chain', i) =
          IF i = Len(chain) + 1 THEN HeadHash(chain) ELSE PreviousHash(chain, i)
    BY <1>3, <1>7 DEF PreviousHash, HeadHash
  <1>9. Verify(chain)'
    BY <1>3, <1>4, <1>7, <1>8 DEF ChainInv, Verify, Hash
  <1>10. Depths'
    <2>1. Len(row.hash) = Len(chain) + 1
      BY <1>4, HeadType DEF Hashes
    <2> QED BY <1>3, <1>7, <2>1 DEF ChainInv, Depths
  <1> QED BY <1>6, <1>9, <1>10 DEF ChainInv

(* A transaction rolled back leaves the chain alone.                       *)
LEMMA AbortKeeps ==
  ASSUME ChainInv, NEW a \in Appender, Abort(a)
  PROVE  ChainInv'
  BY DEF ChainInv, ACTypeOK, Alone, FollowsHead, Depths, Abort

(* Every step of the journal keeps the invariant.                          *)
LEMMA ChainNext == ChainInv /\ [ACNext]_chainVars => ChainInv'
  <1> SUFFICES ASSUME ChainInv, [ACNext]_chainVars PROVE ChainInv'
    OBVIOUS
  <1>1. CASE UNCHANGED chainVars
    BY <1>1 DEF chainVars, ChainInv, ACTypeOK, Alone, FollowsHead, Depths
  <1>2. CASE ACNext
    BY <1>2, ReadHeadKeeps, InsertKeeps, AbortKeeps DEF ACNext
  <1> QED BY <1>1, <1>2

-----------------------------------------------------------------------------
(* A hash depends on its event: the hashes of two events differ.           *)
LEMMA HashInjective ==
  ASSUME NEW head \in Hashes, NEW d \in Event, NEW e \in Event,
         Hash(head, d) = Hash(head, e)
  PROVE  d = e
  <1>1. Append(head, d)[Len(head) + 1] = d /\ Append(head, e)[Len(head) + 1] = e
    BY DEF Hashes
  <1> QED BY <1>1 DEF Hash

(* What the previous hash of a row of a valid chain is.                    *)
LEMMA PreviousDepth ==
  ASSUME ChainInv, NEW i \in DOMAIN chain
  PROVE  /\ PreviousHash(chain, i) \in Hashes
         /\ Len(PreviousHash(chain, i)) = i - 1
         /\ chain[i].previous = PreviousHash(chain, i)
  <1>1. chain \in Seq(ChainRow) /\ i \in 1..Len(chain)
    BY DEF ChainInv, ACTypeOK
  <1>2. chain[i].previous = PreviousHash(chain, i)
    BY DEF ChainInv, Verify
  <1>3. CASE i = 1
    BY <1>2, <1>3 DEF PreviousHash, NoHash, Hashes
  <1>4. CASE i # 1
    <2>1. i - 1 \in 1..Len(chain) /\ chain[i - 1] \in ChainRow
      BY <1>1, <1>4
    <2> QED BY <1>1, <1>2, <1>4, <2>1 DEF PreviousHash, ChainRow, Hashes, ChainInv, Depths
  <1> QED BY <1>3, <1>4

(* A row whose event is another one: its hash is not that of the event.    *)
LEMMA AlteredFound ==
  ASSUME ChainInv, NEW i \in DOMAIN chain, NEW event \in Event, event # chain[i].event
  PROVE  ~Verify([chain EXCEPT ![i].event = event])
  <1> DEFINE rows == [chain EXCEPT ![i].event = event]
  <1>1. chain \in Seq(ChainRow) /\ chain[i] \in ChainRow
    BY DEF ChainInv, ACTypeOK
  <1>2. DOMAIN rows = DOMAIN chain /\ rows[i].event = event
    BY <1>1 DEF ChainRow
  <1>3. \A j \in DOMAIN chain : rows[j].hash = chain[j].hash
    BY <1>1 DEF ChainRow
  <1>4. PreviousHash(rows, i) = PreviousHash(chain, i)
    BY <1>1, <1>3 DEF PreviousHash
  <1>5. chain[i].hash = Hash(PreviousHash(chain, i), chain[i].event)
    BY DEF ChainInv, Verify
  <1>6. SUFFICES ASSUME Verify(rows) PROVE FALSE
    OBVIOUS
  <1>7. rows[i].hash = Hash(PreviousHash(rows, i), rows[i].event)
    BY <1>2, <1>6 DEF Verify
  <1>8. Hash(PreviousHash(chain, i), chain[i].event) = Hash(PreviousHash(chain, i), event)
    BY <1>2, <1>3, <1>4, <1>5, <1>7
  <1> QED BY <1>1, <1>8, PreviousDepth, HashInjective DEF ChainRow

(* A row that is gone from the middle: the next one has a previous hash    *)
(* that is too long.                                                       *)
LEMMA DeletedFound ==
  ASSUME ChainInv, NEW i \in 1..(Len(chain) - 1)
  PROVE  ~Verify(WithoutRow(chain, i))
  <1> DEFINE rows == WithoutRow(chain, i)
  <1>1. chain \in Seq(ChainRow)
    BY DEF ChainInv, ACTypeOK
  <1>2. i \in DOMAIN chain /\ i + 1 \in DOMAIN chain
    BY <1>1
  <1>3. i \in DOMAIN rows /\ rows[i] = chain[i + 1]
    BY <1>1 DEF WithoutRow
  <1>4. i # 1 => rows[i - 1] = chain[i - 1]
    BY <1>1 DEF WithoutRow
  <1>5. PreviousHash(rows, i) = PreviousHash(chain, i)
    BY <1>4 DEF PreviousHash
  <1>6. Len(rows[i].previous) = i /\ Len(PreviousHash(rows, i)) = i - 1
    BY <1>2, <1>3, <1>5, PreviousDepth
  <1> QED BY <1>1, <1>3, <1>6 DEF Verify

(* Two rows that change places: the earlier place gets a previous hash     *)
(* that is too long.                                                       *)
LEMMA SwappedFound ==
  ASSUME ChainInv, NEW i \in DOMAIN chain, NEW j \in DOMAIN chain, i < j
  PROVE  ~Verify([chain EXCEPT ![i] = chain[j], ![j] = chain[i]])
  <1> DEFINE rows == [chain EXCEPT ![i] = chain[j], ![j] = chain[i]]
  <1>1. chain \in Seq(ChainRow) /\ i \in Nat /\ j \in Nat
    BY DEF ChainInv, ACTypeOK
  <1>2. DOMAIN rows = DOMAIN chain /\ rows[i] = chain[j]
    BY <1>1
  <1>3. i # 1 => rows[i - 1] = chain[i - 1]
    BY <1>1
  <1>4. PreviousHash(rows, i) = PreviousHash(chain, i)
    BY <1>3 DEF PreviousHash
  <1>5. Len(rows[i].previous) = j - 1 /\ Len(PreviousHash(rows, i)) = i - 1
    BY <1>2, <1>4, PreviousDepth
  <1> QED BY <1>1, <1>2, <1>5 DEF Verify

-----------------------------------------------------------------------------
(* The invariant of the journal.                                           *)
THEOREM ChainInvariant == ACSpec => []ChainInv
  <1>1. ACInit => ChainInv
    BY ChainInit
  <1>2. ChainInv /\ [ACNext]_chainVars => ChainInv'
    BY ChainNext
  <1> QED BY <1>1, <1>2, PTL DEF ACSpec

(* However appends overlap, fail and end with their processes, the chain   *)
(* is valid at any time (audit.py, append).                                *)
THEOREM AlwaysValid == ACSpec => []ChainValid
  <1>1. ChainInv => ChainValid
    BY DEF ChainInv, ChainValid
  <1> QED BY <1>1, ChainInvariant, PTL

(* At any time verify_audit_chain finds an event that was altered, a row   *)
(* deleted before the last one, and two rows that changed places.          *)
THEOREM AlwaysDetected == ACSpec => []DamageDetected
  <1>1. ChainInv => DamageDetected
    BY AlteredFound, DeletedFound, SwappedFound DEF DamageDetected
  <1> QED BY <1>1, ChainInvariant, PTL
=============================================================================
