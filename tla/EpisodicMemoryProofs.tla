------------------------ MODULE EpisodicMemoryProofs ------------------------
(***************************************************************************)
(* What reads and marks that overlap make of the memories, and what the    *)
(* jobs of the sleep cycles write to the graph.                            *)
(* The first invariant counts, for each row, the reads that have marked it *)
(* and not answered yet (Marked): with the answered ones they are covered  *)
(* by the count of the row, since a mark raises the count by one when its  *)
(* read comes in.  The second one follows a job from its snapshot to its   *)
(* last write (JobOK): what it has yet to write is what the graph lacks.   *)
(***************************************************************************)
EXTENDS EpisodicMemory, ClusteringProofs

(* What a read may have seen: the counts of some memories.                 *)
Sight == UNION {[S -> Nat] : S \in SUBSET Memory}

(* What a reader may be at.                                                *)
Session == [pc : {"free", "selected", "marking", "answer"}, seen : Sight,
            left : SUBSET Memory, at : Nat]

(* Rows have one memory each, and readers know stored memories only.       *)
RowsOK ==
  /\ now \in Nat
  /\ deployed \in [store : {"memory", "postgres"}, graph : {"memory", "neo4j"},
                   strict : BOOLEAN, llm : BOOLEAN]
  /\ budget \in [memories : SUBSET Memory, reads : Int, jobs : Int, hours : Int]
  /\ rows \in Seq([id : Memory, count : Nat, last : Nat])
  /\ \A i, k \in DOMAIN rows : rows[i].id = rows[k].id => i = k
  /\ \A i \in DOMAIN rows : rows[i].id \notin budget.memories
  /\ reader \in [Reader -> Session]
  /\ told \in [Memory -> Nat]

ReaderOK(r) ==
  /\ reader[r].left \subseteq DOMAIN reader[r].seen
  /\ DOMAIN reader[r].seen \subseteq Stored
  /\ reader[r].pc = "selected" => reader[r].left = DOMAIN reader[r].seen
  /\ reader[r].pc \in {"free", "answer"} => reader[r].left = {}

(* The answers of the store can be relied on.                              *)
Reliable == deployed.store = "memory" \/ deployed.strict

(* The reads that have marked m and not yet answered.                      *)
Marked(m) ==
  {r \in Reader : reader[r].pc # "free"
                  /\ m \in DOMAIN reader[r].seen /\ m \notin reader[r].left}

(* A count covers what any read under way has seen, ...                    *)
SeenOK(i) ==
  \A r \in Reader : reader[r].pc # "free" /\ rows[i].id \in DOMAIN reader[r].seen =>
    reader[r].seen[rows[i].id] <= rows[i].count

(* ... the answered reads and the marked ones, and what these will report. *)
CountedOK(i) ==
  /\ told[rows[i].id] + Cardinality(Marked(rows[i].id)) <= rows[i].count
  /\ \A r \in Marked(rows[i].id) : reader[r].seen[rows[i].id] + 1 <= rows[i].count

CountsOK ==
  /\ \A m \in Memory \ Stored : told[m] = 0
  /\ \A i \in DOMAIN rows : SeenOK(i)
  /\ Reliable => created \subseteq Stored /\ \A i \in DOMAIN rows : CountedOK(i)

MemoryInv ==
  /\ RowsOK
  /\ \A r \in Reader : ReaderOK(r)
  /\ CountsOK

(* What may be seen is counts of memories.                                 *)
LEMMA SightType ==
  /\ \A f \in Sight : DOMAIN f \subseteq Memory /\ \A m \in DOMAIN f : f[m] \in Nat
  /\ \A S \in SUBSET Memory : \A f \in [S -> Nat] : f \in Sight
  /\ <<>> \in Sight
<1>1. \A S \in SUBSET Memory : \A f \in [S -> Nat] : f \in Sight
  BY DEF Sight
<1>2. <<>> \in [{} -> Nat]
  OBVIOUS
<1>3. \A f \in Sight : DOMAIN f \subseteq Memory /\ \A m \in DOMAIN f : f[m] \in Nat
  BY DEF Sight
<1> QED
  BY <1>1, <1>2, <1>3

(* An element of a sequence.                                               *)
LEMMA ElementType ==
  ASSUME NEW S, NEW q \in Seq(S), NEW i \in DOMAIN q
  PROVE  q[i] \in S
OBVIOUS

(* A row of the table.                                                     *)
LEMMA RowType ==
  ASSUME RowsOK, NEW i \in DOMAIN rows
  PROVE  rows[i] \in [id : Memory, count : Nat, last : Nat]
<1>1. rows \in Seq([id : Memory, count : Nat, last : Nat])
  BY DEF RowsOK, Session
<1> QED
  BY <1>1, ElementType

(* A reader.                                                               *)
LEMMA ReaderType ==
  ASSUME RowsOK, NEW r \in Reader
  PROVE  reader[r] \in [pc : {"free", "selected", "marking", "answer"},
                        seen : Sight, left : SUBSET Memory, at : Nat]
BY DEF RowsOK, Session

(* The row of a stored memory.                                             *)
LEMMA RowOf ==
  ASSUME RowsOK, NEW i \in DOMAIN rows
  PROVE  Row(rows[i].id) = rows[i]
<1>1. \A k \in DOMAIN rows : rows[k].id = rows[i].id => k = i
  BY DEF RowsOK, Session
<1> QED
  BY <1>1 DEF Row

(* The reads are finite in number, so those that have marked can be counted. *)
LEMMA MarkedFinite ==
  ASSUME MemoryAssumption, NEW m
  PROVE  IsFiniteSet(Marked(m)) /\ Cardinality(Marked(m)) \in Nat
BY FS_Subset, FS_CardinalityType DEF Marked, MemoryAssumption

-----------------------------------------------------------------------------
(* Initially nothing is stored and nobody reads.                           *)
LEMMA InitOK ==
  ASSUME MemoryAssumption, Init
  PROVE  MemoryInv
<1>1. PICK scene \in Scenario : deployed = scene.deployed /\ budget = scene.budget
  BY DEF Init
<1>2. RowsOK
  <2>1. budget \in [memories : SUBSET Memory, reads : Int, jobs : Int, hours : Int]
    BY <1>1 DEF MemoryAssumption
  <2>2. reader \in [Reader -> [pc : {"free", "selected", "marking", "answer"},
                               seen : Sight, left : SUBSET Memory, at : Nat]]
    BY SightType DEF Init, Free
  <2> QED
    BY <1>1, <2>1, <2>2 DEF RowsOK, Session, Init, MemoryAssumption
<1>3. Stored = {}
  BY DEF Init, Stored
<1>4. \A r \in Reader : ReaderOK(r)
  BY <1>3 DEF Init, Free, ReaderOK
<1>5. CountsOK
  BY <1>3 DEF Init, CountsOK
<1> QED
  BY <1>2, <1>4, <1>5 DEF MemoryInv

(* A step that touches neither rows nor readers.                           *)
LEMMA FrameOK ==
  ASSUME MemoryInv, UNCHANGED <<deployed, storeVars, readVars>>,
         now' \in Nat, budget' \in [memories : SUBSET Memory, reads : Int, jobs : Int, hours : Int],
         budget'.memories = budget.memories
  PROVE  MemoryInv'
<1>1. Stored' = Stored /\ \A m : Marked(m)' = Marked(m)
  BY DEF Stored, Marked, storeVars, readVars
<1>2. RowsOK'
  BY DEF MemoryInv, RowsOK, Session, storeVars, readVars
<1>3. \A r \in Reader : ReaderOK(r)'
  BY <1>1 DEF MemoryInv, ReaderOK, readVars
<1>4. CountsOK'
  BY <1>1 DEF MemoryInv, CountsOK, SeenOK, CountedOK, Reliable, storeVars, readVars
<1> QED
  BY <1>2, <1>3, <1>4 DEF MemoryInv

(* A memory that is stored for the first time has been seen by no read.    *)
LEMMA IngestOK ==
  ASSUME MemoryInv, MemoryAssumption, NEW m \in Memory, Ingest(m)
  PROVE  MemoryInv'
<1> USE DEF MemoryInv
<1>1. PICK outcome \in StoreOutcome :
        /\ rows' = IF outcome = "ok"
                   THEN Append(rows, [id |-> m, count |-> 0, last |-> now])
                   ELSE rows
        /\ created' = IF outcome = "ok" \/ (outcome = "error" /\ ~deployed.strict)
                      THEN created \cup {m} ELSE created
  BY DEF Ingest
<1>2. m \in budget.memories /\ UNCHANGED <<deployed, now, reader, told>>
      /\ budget' = [budget EXCEPT !.memories = @ \ {m}]
  BY DEF Ingest, readVars
<1>3. m \notin Stored
  BY <1>2 DEF RowsOK, Session, Stored
<1>4. CASE outcome = "ok"
  <2>1. rows' = Append(rows, [id |-> m, count |-> 0, last |-> now]) /\ created' = created \cup {m}
    BY <1>1, <1>4
  <2>2. Len(rows') = Len(rows) + 1 /\ DOMAIN rows = 1..Len(rows) /\ DOMAIN rows' = 1..Len(rows')
        /\ Len(rows) \in Nat
        /\ rows' \in Seq([id : Memory, count : Nat, last : Nat])
    BY <2>1 DEF RowsOK, Session
  <2>3. \A i \in DOMAIN rows : rows'[i] = rows[i]
    BY <2>1, <2>2 DEF RowsOK, Session
  <2>4. rows'[Len(rows')] = [id |-> m, count |-> 0, last |-> now]
    BY <2>1, <2>2 DEF RowsOK, Session
  <2>5. \A i \in DOMAIN rows' : i \in DOMAIN rows \/ i = Len(rows')
    BY <2>2
  <2>6. Stored' = Stored \cup {m}
    <3>1. Stored' = {rows'[i].id : i \in DOMAIN rows'}
      BY DEF Stored
    <3>2. Stored \subseteq Stored' /\ m \in Stored'
      BY <2>2, <2>3, <2>4, <3>1 DEF Stored
    <3>3. Stored' \subseteq Stored \cup {m}
      BY <2>3, <2>4, <2>5, <3>1 DEF Stored
    <3> QED
      BY <3>2, <3>3
  <2>7. RowsOK'
    <3>1. \A i, k \in DOMAIN rows' : rows'[i].id = rows'[k].id => i = k
      <4>1. \A i \in DOMAIN rows : rows[i].id # m
        BY <1>3 DEF Stored
      <4>2. \A i, k \in DOMAIN rows : rows'[i].id = rows'[k].id => i = k
        BY <2>3 DEF RowsOK, Session
      <4> QED
        BY <2>3, <2>4, <2>5, <4>1, <4>2
    <3>2. \A i \in DOMAIN rows' : rows'[i].id \notin budget'.memories
      <4>1. budget'.memories = budget.memories \ {m}
        BY <1>2 DEF RowsOK, Session
      <4>2. \A i \in DOMAIN rows : rows[i].id \notin budget.memories
        BY DEF RowsOK, Session
      <4>3. rows'[Len(rows')].id = m
        BY <2>4
      <4> QED
        BY <2>3, <2>5, <4>1, <4>2, <4>3
    <3>3. budget' \in [memories : SUBSET Memory, reads : Int, jobs : Int, hours : Int]
      BY <1>2 DEF RowsOK, Session
    <3> QED
      BY <1>2, <2>2, <3>1, <3>2, <3>3 DEF RowsOK, Session
  <2>8. \A r \in Reader : ReaderOK(r)'
    BY <1>2, <2>6 DEF ReaderOK
  <2>9. \A x : Marked(x)' = Marked(x)
    BY <1>2 DEF Marked
  <2>10. \A r \in Reader : m \notin DOMAIN reader[r].seen
    BY <1>3 DEF ReaderOK
  <2>11. told[m] = 0
    BY <1>3 DEF CountsOK
  <2>12. ASSUME NEW i \in DOMAIN rows'
         PROVE  SeenOK(i)' /\ (Reliable => CountedOK(i)')
    <3>1. CASE i \in DOMAIN rows
      <4>1. SeenOK(i) /\ (Reliable => CountedOK(i)) /\ rows'[i] = rows[i]
        BY <2>3, <3>1 DEF CountsOK
      <4> QED
        BY <4>1, <1>2, <2>9 DEF SeenOK, CountedOK
    <3>2. CASE i = Len(rows')
      <4>1. rows'[i].id = m /\ rows'[i].count = 0
        BY <2>4, <3>2
      <4>2. SeenOK(i)'
        BY <4>1, <1>2, <2>10 DEF SeenOK
      <4>3. Marked(rows[i].id)' = {}
        BY <4>1, <1>2, <2>10 DEF Marked
      <4>4. CountedOK(i)'
        BY <4>1, <4>3, <1>2, <2>11, FS_EmptySet DEF CountedOK
      <4> QED
        BY <4>2, <4>4
    <3> QED
      BY <2>5, <3>1, <3>2
  <2>13. CountsOK'
    BY <1>2, <2>1, <2>6, <2>12 DEF CountsOK, Reliable
  <2> QED
    BY <2>7, <2>8, <2>13
<1>5. CASE outcome # "ok"
  <2>1. rows' = rows /\ (created' = created \/ ~Reliable)
    BY <1>1, <1>5 DEF StoreOutcome, Reliable
  <2>2. Stored' = Stored /\ \A x : Marked(x)' = Marked(x)
    BY <1>2, <2>1 DEF Stored, Marked
  <2>3. RowsOK'
    BY <1>2, <2>1 DEF RowsOK, Session
  <2>4. \A r \in Reader : ReaderOK(r)'
    BY <1>2, <2>2 DEF ReaderOK
  <2>5. CountsOK'
    BY <1>2, <2>1, <2>2 DEF CountsOK, SeenOK, CountedOK, Reliable
  <2> QED
    BY <2>3, <2>4, <2>5
<1> QED
  BY <1>4, <1>5

-----------------------------------------------------------------------------
(* A step of read r: the other reads stay where they are.                  *)
OnlyReader(r, new) ==
  /\ reader' = [reader EXCEPT ![r] = new]
  /\ UNCHANGED <<deployed, now, created>>
  /\ budget' \in [memories : SUBSET Memory, reads : Int, jobs : Int, hours : Int]
  /\ budget'.memories = budget.memories

(* A read that has chosen its page has marked nothing.                     *)
LEMMA SelectOK ==
  ASSUME MemoryInv, NEW r \in Reader, NEW new \in Session, OnlyReader(r, new),
         UNCHANGED <<rows, told>>, reader[r].pc = "free",
         new.left = DOMAIN new.seen, new.left \subseteq Stored,
         new.pc = IF new.left = {} THEN "answer" ELSE "selected",
         \A i \in DOMAIN rows : rows[i].id \in new.left => new.seen[rows[i].id] = rows[i].count
  PROVE  MemoryInv'
<1> USE DEF MemoryInv, OnlyReader
<1>1. reader'[r] = new /\ \A x \in Reader \ {r} : reader'[x] = reader[x]
  BY DEF RowsOK, Session
<1>2. Stored' = Stored
  BY DEF Stored
<1>3. RowsOK'
  BY DEF RowsOK, Session
<1>4. ASSUME NEW x \in Reader PROVE ReaderOK(x)'
  BY <1>1, <1>2 DEF ReaderOK
<1>5. \A m : Marked(m)' = Marked(m)
  <2> SUFFICES ASSUME NEW m PROVE Marked(m)' = Marked(m)
    OBVIOUS
  <2>1. r \notin Marked(m) /\ r \notin Marked(m)'
    BY <1>1 DEF Marked
  <2>2. \A x \in Reader \ {r} : x \in Marked(m)' <=> x \in Marked(m)
    BY <1>1 DEF Marked
  <2> QED
    BY <2>1, <2>2 DEF Marked
<1>6. ASSUME NEW i \in DOMAIN rows
      PROVE  SeenOK(i)' /\ (Reliable => CountedOK(i)')
  <2>1. SeenOK(i) /\ (Reliable => CountedOK(i)) /\ rows[i].count \in Nat
    BY RowType DEF CountsOK
  <2>2. SeenOK(i)'
    BY <2>1, <1>1 DEF SeenOK
  <2>3. r \notin Marked(rows[i].id)
    BY DEF Marked
  <2>4. Reliable => CountedOK(i)'
    BY <2>1, <2>3, <1>1, <1>5 DEF CountedOK
  <2> QED
    BY <2>2, <2>4
<1>7. CountsOK'
  BY <1>2, <1>6 DEF CountsOK, Reliable
<1> QED
  BY <1>3, <1>4, <1>7

(* A mark that begins takes the time and nothing else.                     *)
LEMMA BeginOK ==
  ASSUME MemoryInv, NEW r \in Reader, BeginMark(r)
  PROVE  MemoryInv'
<1> USE DEF MemoryInv
<1>1. /\ reader'[r] = [reader[r] EXCEPT !.pc = "marking", !.at = now]
      /\ \A x \in Reader \ {r} : reader'[x] = reader[x]
      /\ reader[r].pc = "selected"
      /\ UNCHANGED <<deployed, now, rows, created, told, budget>>
  BY DEF BeginMark, RowsOK, Session, storeVars
<1>2. /\ reader'[r].pc = "marking" /\ reader'[r].at = now
      /\ reader'[r].seen = reader[r].seen /\ reader'[r].left = reader[r].left
  BY <1>1 DEF RowsOK, Session
<1>3. RowsOK'
  <2>1. reader' = [reader EXCEPT ![r].pc = "marking", ![r].at = now]
    BY DEF BeginMark
  <2>2. reader[r] \in Session /\ now \in Nat
    BY ReaderType DEF Session, RowsOK, Session
  <2>3. reader'[r] \in Session
    BY <1>1, <2>2 DEF Session
  <2>4. reader' = [reader EXCEPT ![r] = reader'[r]]
    BY <2>1, <1>1 DEF RowsOK, Session
  <2>5. reader' \in [Reader -> Session]
    BY <2>3, <2>4 DEF RowsOK, Session
  <2> QED
    BY <1>1, <2>5 DEF RowsOK, Session
<1>4. Stored' = Stored
  BY <1>1 DEF Stored
<1>5. ASSUME NEW x \in Reader PROVE ReaderOK(x)'
  BY <1>1, <1>2, <1>4 DEF ReaderOK
<1>6. \A m : Marked(m)' = Marked(m)
  BY <1>1, <1>2, ZenonT(60) DEF Marked
<1>7. ASSUME NEW i \in DOMAIN rows
      PROVE  SeenOK(i)' /\ (Reliable => CountedOK(i)')
  <2>1. SeenOK(i) /\ (Reliable => CountedOK(i))
    BY DEF CountsOK
  <2>2. SeenOK(i)'
    BY <2>1, <1>1, <1>2 DEF SeenOK
  <2>3. \A x \in Reader : reader'[x].seen = reader[x].seen
    BY <1>1, <1>2
  <2>4. Reliable => CountedOK(i)'
    BY <2>1, <2>3, <1>1, <1>6, ZenonT(60) DEF CountedOK, Marked
  <2> QED
    BY <2>2, <2>4
<1>8. CountsOK'
  BY <1>1, <1>4, <1>7 DEF CountsOK, Reliable
<1> QED
  BY <1>3, <1>5, <1>8

(* A mark adds one to the count of each row that it picks and makes its    *)
(* read one of those that have marked it.                                  *)
LEMMA MarkOK ==
  ASSUME MemoryInv, MemoryAssumption, NEW r \in Reader, reader[r].pc = "marking",
         NEW S \in SUBSET reader[r].left, NEW new \in Session, OnlyReader(r, new),
         new.seen = reader[r].seen, new.left = reader[r].left \ S,
         new.pc = IF new.left = {} THEN "answer" ELSE "marking",
         UNCHANGED told,
         rows' = [i \in DOMAIN rows |->
                    IF rows[i].id \in S THEN Reinforced(rows[i], r) ELSE rows[i]]
  PROVE  MemoryInv'
<1> USE DEF MemoryInv, OnlyReader
<1>1. reader'[r] = new /\ \A x \in Reader \ {r} : reader'[x] = reader[x]
  BY DEF RowsOK, Session
<1>2. ASSUME NEW i \in DOMAIN rows
      PROVE  /\ i \in DOMAIN rows' /\ rows'[i].id = rows[i].id
             /\ rows'[i].count = IF rows[i].id \in S THEN rows[i].count + 1 ELSE rows[i].count
             /\ rows'[i] \in [id : Memory, count : Nat, last : Nat]
             /\ rows[i].count \in Nat /\ rows[i].id \in Memory
  <2>1. rows[i] \in [id : Memory, count : Nat, last : Nat] /\ MarkTime(r) \in Nat
    BY RowType, ReaderType DEF MarkTime, RowsOK
  <2>2. rows'[i] = IF rows[i].id \in S
                   THEN [rows[i] EXCEPT !.count = @ + 1, !.last = MarkTime(r)]
                   ELSE rows[i]
    BY DEF Reinforced
  <2>3. CASE rows[i].id \in S
    <3>1. rows'[i] = [id |-> rows[i].id, count |-> rows[i].count + 1, last |-> MarkTime(r)]
      BY <2>1, <2>2, <2>3
    <3> QED
      BY <2>1, <2>3, <3>1
  <2> QED
    BY <2>1, <2>2, <2>3
<1>3. DOMAIN rows' = DOMAIN rows
  OBVIOUS
<1>4. Stored' = Stored
  BY <1>2, <1>3 DEF Stored
<1>5. RowsOK'
  <2>1. DOMAIN rows = 1..Len(rows) /\ Len(rows) \in Nat
    BY DEF RowsOK, Session
  <2>2. rows' \in Seq([id : Memory, count : Nat, last : Nat])
    BY <1>2, <1>3, <2>1
  <2>3. reader' \in [Reader -> Session]
    BY DEF RowsOK, Session
  <2> QED
    <3>1. \A i, k \in DOMAIN rows' : rows'[i].id = rows'[k].id => i = k
      BY <1>2, <1>3 DEF RowsOK, Session
    <3>2. \A i \in DOMAIN rows' : rows'[i].id \notin budget'.memories
      BY <1>2, <1>3 DEF RowsOK, Session
    <3> QED
      BY <2>2, <2>3, <3>1, <3>2 DEF RowsOK, Session
<1>6. ASSUME NEW x \in Reader PROVE ReaderOK(x)'
  BY <1>1, <1>4 DEF ReaderOK
<1>7. ASSUME NEW i \in DOMAIN rows
      PROVE  SeenOK(i)' /\ (Reliable => CountedOK(i)')
  <2>1. SeenOK(i) /\ (Reliable => CountedOK(i))
    BY DEF CountsOK
  <2>2. SeenOK(i)'
    <3> SUFFICES ASSUME NEW x \in Reader, reader'[x].pc # "free",
                        rows[i].id \in DOMAIN reader'[x].seen
                 PROVE  reader'[x].seen[rows[i].id] <= rows'[i].count
      BY <1>2 DEF SeenOK
    <3>1. reader[x].pc # "free" /\ reader'[x].seen = reader[x].seen
      BY <1>1
    <3>2. reader[x].seen[rows[i].id] <= rows[i].count
      BY <2>1, <3>1 DEF SeenOK
    <3>3. reader[x].seen[rows[i].id] \in Nat
      BY <3>1, SightType DEF RowsOK, Session
    <3> QED
      BY <1>2, <3>1, <3>2, <3>3
  <2>3. ASSUME NEW m \in Memory, m = rows[i].id, Reliable
        PROVE  CountedOK(i)'
    <3> USE <2>3
    <3>1. CountedOK(i) /\ told[m] \in Nat
      BY <2>1, <2>3, <1>2 DEF RowsOK, Session
    <3>2. CASE m \in S
      <4>1. r \notin Marked(m) /\ r \in Marked(m)'
        <5>1. m \in reader[r].left /\ m \in DOMAIN reader[r].seen
          BY <3>2 DEF ReaderOK
        <5>2. m \in DOMAIN new.seen /\ m \notin new.left /\ new.pc # "free"
          BY <3>2, <5>1
        <5> QED
          BY <5>1, <5>2, <1>1 DEF Marked
      <4>2. \A x \in Reader \ {r} : x \in Marked(m)' <=> x \in Marked(m)
        BY <1>1 DEF Marked
      <4>3. Marked(m)' = Marked(m) \cup {r}
        BY <4>1, <4>2 DEF Marked
      <4> HIDE DEF MemoryInv, OnlyReader
      <4>4. Cardinality(Marked(m)') = Cardinality(Marked(m)) + 1
        <5>1. IsFiniteSet(Marked(m)) /\ Cardinality(Marked(m)) \in Nat
          BY MarkedFinite
        <5>2. Cardinality(Marked(m) \cup {r}) = Cardinality(Marked(m)) + 1
          BY <4>1, <5>1, FS_AddElement
        <5> QED
          BY <4>3, <5>2
      <4>5. rows'[i].id = m /\ rows'[i].count = rows[i].count + 1
        BY <1>2, <3>2
      <4>6. told'[m] + Cardinality(Marked(m)') <= rows'[i].count
        BY <3>1, <4>4, <4>5, <1>2, MarkedFinite DEF CountedOK
      <4>7. ASSUME NEW x \in Marked(m)'
            PROVE  reader'[x].seen[m] + 1 <= rows'[i].count
        <5>1. x \in Reader /\ reader'[x].seen = reader[x].seen /\ reader[x].pc # "free"
              /\ m \in DOMAIN reader[x].seen
          BY <1>1, <4>7 DEF Marked
        <5>2. reader[x].seen[m] <= rows[i].count
          BY <2>1, <5>1 DEF SeenOK
        <5>3. reader[x].seen[m] \in Nat
          <6>1. reader[x].seen \in Sight
            BY <5>1, ReaderType DEF MemoryInv
          <6> QED
            BY <5>1, <6>1, SightType
        <5> QED
          BY <1>2, <4>5, <5>1, <5>2, <5>3
      <4> QED
        BY <4>5, <4>6, <4>7 DEF CountedOK
    <3>3. CASE m \notin S
      <4>1. Marked(m)' = Marked(m)
        BY <3>3, <1>1 DEF Marked
      <4>2. \A x \in Reader : reader'[x].seen = reader[x].seen
        BY <1>1
      <4>3. rows'[i].id = m /\ rows'[i].count = rows[i].count
        BY <1>2, <3>3
      <4>4. told'[m] + Cardinality(Marked(m)') <= rows'[i].count
        BY <3>1, <4>1, <4>3 DEF CountedOK
      <4>5. ASSUME NEW x \in Marked(m)'
            PROVE  reader'[x].seen[m] + 1 <= rows'[i].count
        <5>1. x \in Marked(m) /\ x \in Reader
          BY <4>1, <4>5 DEF Marked
        <5> QED
          BY <3>1, <4>2, <4>3, <5>1 DEF CountedOK
      <4> QED
        BY <4>3, <4>4, <4>5 DEF CountedOK
    <3> QED
      BY <3>2, <3>3
  <2> QED
    BY <1>2, <2>2, <2>3
<1>8. CountsOK'
  BY <1>3, <1>4, <1>7 DEF CountsOK, Reliable
<1> QED
  BY <1>5, <1>6, <1>8

(* A mark whose error is not passed on, which only a deployment whose      *)
(* answers cannot be relied on has.                                        *)
LEMMA SpoiltOK ==
  ASSUME MemoryInv, NEW r \in Reader, NEW new \in Session, OnlyReader(r, new),
         UNCHANGED <<rows, told>>, ~Reliable,
         new.seen = reader[r].seen, new.left = {}, new.pc = "answer",
         reader[r].pc # "free"
  PROVE  MemoryInv'
<1> USE DEF MemoryInv, OnlyReader
<1>1. reader'[r] = new /\ \A x \in Reader \ {r} : reader'[x] = reader[x]
  BY DEF RowsOK, Session
<1>2. Stored' = Stored
  BY DEF Stored
<1>3. RowsOK'
  BY DEF RowsOK, Session
<1>4. ASSUME NEW x \in Reader PROVE ReaderOK(x)'
  BY <1>1, <1>2 DEF ReaderOK
<1>5. ASSUME NEW i \in DOMAIN rows PROVE SeenOK(i)'
  BY <1>1 DEF CountsOK, SeenOK
<1>6. CountsOK'
  BY <1>2, <1>5 DEF CountsOK, Reliable
<1> QED
  BY <1>3, <1>4, <1>6

(* A read ends, with an answer that lists the memories of T or with none:  *)
(* what it has marked is told, or forgotten.                               *)
LEMMA EndOK ==
  ASSUME MemoryInv, MemoryAssumption, NEW r \in Reader, OnlyReader(r, Free),
         reader[r].pc # "free", UNCHANGED rows,
         NEW T \in SUBSET DOMAIN reader[r].seen, T \cap reader[r].left = {},
         told' = [m \in Memory |-> IF m \in T THEN told[m] + 1 ELSE told[m]]
  PROVE  MemoryInv'
<1> USE DEF MemoryInv, OnlyReader
<1>1. reader'[r] = Free /\ \A x \in Reader \ {r} : reader'[x] = reader[x]
  BY DEF RowsOK, Session
<1>2. Stored' = Stored
  BY DEF Stored
<1>3. RowsOK'
  <2>1. Free \in Session
    BY SightType DEF Free, Session
  <2>2. told' \in [Memory -> Nat]
    BY DEF RowsOK, Session
  <2> QED
    BY <2>1, <2>2 DEF RowsOK, Session
<1>4. ASSUME NEW x \in Reader PROVE ReaderOK(x)'
  BY <1>1, <1>2 DEF ReaderOK, Free
<1>5. ASSUME NEW i \in DOMAIN rows PROVE SeenOK(i)'
  BY <1>1 DEF CountsOK, SeenOK, Free
<1>6. \A m : Marked(m)' = Marked(m) \ {r}
  <2> SUFFICES ASSUME NEW m PROVE Marked(m)' = Marked(m) \ {r}
    OBVIOUS
  <2>1. r \notin Marked(m)'
    BY <1>1 DEF Marked, Free
  <2>2. \A x \in Reader \ {r} : x \in Marked(m)' <=> x \in Marked(m)
    BY <1>1 DEF Marked
  <2> QED
    BY <2>1, <2>2 DEF Marked
<1>7. ASSUME NEW i \in DOMAIN rows, NEW m \in Memory, m = rows[i].id, Reliable
      PROVE  CountedOK(i)'
  <2> USE <1>7
  <2>1. CountedOK(i) /\ rows[i].count \in Nat /\ told[m] \in Nat
    BY RowType DEF CountsOK, RowsOK, Session
  <2>2. IsFiniteSet(Marked(m)) /\ Cardinality(Marked(m)) \in Nat
    BY MarkedFinite
  <2>3. Cardinality(Marked(m) \ {r}) =
          IF r \in Marked(m) THEN Cardinality(Marked(m)) - 1 ELSE Cardinality(Marked(m))
    BY <2>2, FS_RemoveElement
  <2>4. m \in T => r \in Marked(m)
    BY DEF Marked
  <2>5. told'[m] = IF m \in T THEN told[m] + 1 ELSE told[m]
    OBVIOUS
  <2>6. told[m] + Cardinality(Marked(m)) <= rows[i].count
    BY <2>1 DEF CountedOK
  <2>7. told'[m] + Cardinality(Marked(m)') <= rows[i].count
    <3> HIDE DEF MemoryInv, OnlyReader
    <3>1. Cardinality(Marked(m)') = Cardinality(Marked(m) \ {r})
      BY <1>6
    <3>2. told'[m] + Cardinality(Marked(m) \ {r}) <= rows[i].count
      BY <2>1, <2>2, <2>3, <2>4, <2>5, <2>6
    <3> QED
      BY <3>1, <3>2
  <2>8. ASSUME NEW x \in Marked(m)' PROVE reader'[x].seen[m] + 1 <= rows[i].count
    <3>1. x \in Marked(m) /\ reader'[x] = reader[x]
      BY <1>1, <1>6, <2>8 DEF Marked
    <3> QED
      BY <2>1, <3>1 DEF CountedOK
  <2> QED
    BY <2>7, <2>8 DEF CountedOK
<1>8. \A i \in DOMAIN rows : rows[i].id \in Memory
  BY RowType
<1>9. \A m \in Memory \ Stored : told'[m] = 0
  BY DEF CountsOK, ReaderOK
<1>10. CountsOK'
  BY <1>2, <1>5, <1>7, <1>8, <1>9 DEF CountsOK, Reliable
<1> QED
  BY <1>3, <1>4, <1>10

-----------------------------------------------------------------------------
(* The steps of Next that are neither a read's nor the storing of a memory *)
(* leave rows and readers alone.                                           *)
LEMMA OtherFrame ==
  ASSUME MemoryInv, NEW j \in Job,
         \/ Schedule(j)
         \/ \E t \in ToSet(Tenants) : Queue(j, t)
         \/ JobStep(j) \/ LlmStep(j) \/ LlmReturns(j)
  PROVE  /\ UNCHANGED <<deployed, now, storeVars, readVars>>
         /\ budget' \in [memories : SUBSET Memory, reads : Int, jobs : Int, hours : Int]
         /\ budget'.memories = budget.memories
<1>1. budget \in [memories : SUBSET Memory, reads : Int, jobs : Int, hours : Int]
  BY DEF MemoryInv, RowsOK, Session
<1>2. CASE Schedule(j) \/ \E t \in ToSet(Tenants) : Queue(j, t)
  <2>1. UNCHANGED <<deployed, now, storeVars, readVars>>
        /\ budget' = [budget EXCEPT !.jobs = @ - 1]
    BY <1>2 DEF Schedule, Queue, StartJob
  <2> QED
    BY <1>1, <2>1
<1>3. CASE JobStep(j) \/ LlmStep(j) \/ LlmReturns(j)
  <2>1. UNCHANGED <<deployed, now, storeVars, readVars, budget>>
    BY <1>3 DEF JobStep, LlmStep, LlmReturns, LlmAnswers, LlmTimesOut, Fetch, Measure, Search,
       Found, Label, Upsert, EndCycle, EndJob
  <2> QED
    BY <1>1, <2>1
<1> QED
  BY <1>2, <1>3

-----------------------------------------------------------------------------
(* Each step of a read is one of those above.                              *)
LEMMA SelectStep ==
  ASSUME MemoryInv, NEW r \in Reader, NEW t, Select(r, t)
  PROVE  MemoryInv'
<1>1. PICK page \in SUBSET Stored :
        reader' = [reader EXCEPT ![r] =
            [pc |-> IF page = {} THEN "answer" ELSE "selected",
             seen |-> [m \in page |-> Row(m).count], left |-> page, at |-> 0]]
  BY DEF Select
<1> DEFINE new == [pc |-> IF page = {} THEN "answer" ELSE "selected",
                   seen |-> [m \in page |-> Row(m).count], left |-> page, at |-> 0]
<1>2. \A i \in DOMAIN rows : Row(rows[i].id) = rows[i] /\ rows[i].count \in Nat
                             /\ rows[i].id \in Memory
  BY RowOf, RowType DEF MemoryInv
<1>3. \A m \in page : Row(m).count \in Nat /\ m \in Memory
  BY <1>2 DEF Stored
<1>4. new \in Session
  <2>1. page \in SUBSET Memory /\ [m \in page |-> Row(m).count] \in [page -> Nat]
    BY <1>3
  <2>2. [m \in page |-> Row(m).count] \in Sight
    BY <2>1, SightType
  <2> QED
    BY <2>1, <2>2 DEF Session
<1>5. OnlyReader(r, new)
  <2>1. UNCHANGED <<deployed, now, created>> /\ budget' = [budget EXCEPT !.reads = @ - 1]
    BY DEF Select, storeVars
  <2>2. budget \in [memories : SUBSET Memory, reads : Int, jobs : Int, hours : Int]
    BY DEF MemoryInv, RowsOK, Session
  <2> QED
    BY <1>1, <2>1, <2>2 DEF OnlyReader
<1>6. UNCHANGED <<rows, told>> /\ reader[r].pc = "free"
  BY DEF Select, storeVars
<1>7. \A i \in DOMAIN rows : rows[i].id \in new.left => new.seen[rows[i].id] = rows[i].count
  BY <1>2
<1>8. new.left = DOMAIN new.seen /\ new.left \subseteq Stored
      /\ new.pc = IF new.left = {} THEN "answer" ELSE "selected"
  OBVIOUS
<1> HIDE DEF new
<1> QED
  BY <1>4, <1>5, <1>6, <1>7, <1>8, SelectOK

(* The mark of one item of the list in memory.                             *)
LEMMA MarkItemStep ==
  ASSUME MemoryInv, MemoryAssumption, NEW r \in Reader, MarkItem(r)
  PROVE  MemoryInv'
<1>1. PICK i \in DOMAIN rows :
        /\ rows[i].id \in reader[r].left
        /\ rows' = [rows EXCEPT ![i] = Reinforced(rows[i], r)]
        /\ LET left == reader[r].left \ {rows[i].id}
           IN reader' = [reader EXCEPT ![r].left = left,
                                       ![r].pc = IF left = {} THEN "answer" ELSE @]
  BY DEF MarkItem
<1>2. reader[r].pc = "marking" /\ UNCHANGED <<deployed, now, created, told, budget>>
  BY DEF MarkItem
<1>3. reader[r] \in Session
  BY ReaderType DEF MemoryInv, Session
<1> DEFINE S == {rows[i].id}
           left == reader[r].left \ S
           new == [reader[r] EXCEPT !.left = left,
                                    !.pc = IF left = {} THEN "answer" ELSE "marking"]
<1>4. /\ new \in Session /\ new.seen = reader[r].seen /\ new.left = left
      /\ new.pc = IF left = {} THEN "answer" ELSE "marking"
  BY <1>3 DEF Session
<1>5. reader' = [reader EXCEPT ![r] = new]
  BY <1>1, <1>2 DEF MemoryInv, RowsOK, Session
<1>6. OnlyReader(r, new)
  BY <1>2, <1>5 DEF OnlyReader, MemoryInv, RowsOK, Session
<1>7. rows' = [k \in DOMAIN rows |->
                 IF rows[k].id \in S THEN Reinforced(rows[k], r) ELSE rows[k]]
  BY <1>1 DEF MemoryInv, RowsOK, Session
<1>8. S \in SUBSET reader[r].left
  BY <1>1
<1> HIDE DEF new, S
<1> QED
  BY <1>2, <1>4, <1>6, <1>7, <1>8, MarkOK

(* The statement that marks the table, and how it may fail.                *)
LEMMA MarkRowsStep ==
  ASSUME MemoryInv, MemoryAssumption, NEW r \in Reader, MarkRows(r)
  PROVE  MemoryInv'
<1>1. PICK outcome \in StoreOutcome :
        /\ rows' = IF outcome = "ok"
                   THEN [i \in DOMAIN rows |->
                           IF Picks(r, rows[i]) THEN Reinforced(rows[i], r) ELSE rows[i]]
                   ELSE rows
        /\ reader' = [reader EXCEPT ![r] =
             IF outcome = "busy" \/ (outcome = "error" /\ deployed.strict)
             THEN Free ELSE [@ EXCEPT !.pc = "answer", !.left = {}]]
  BY DEF MarkRows
<1>2. reader[r].pc = "marking" /\ deployed.store = "postgres"
      /\ UNCHANGED <<deployed, now, created, told, budget>>
  BY DEF MarkRows
<1>3. reader[r] \in Session
  BY ReaderType DEF MemoryInv, Session
<1> DEFINE new == [reader[r] EXCEPT !.pc = "answer", !.left = {}]
<1>4. new \in Session /\ new.seen = reader[r].seen /\ new.left = {} /\ new.pc = "answer"
  BY <1>3 DEF Session
<1>5. \A x : reader' = [reader EXCEPT ![r] = x] => OnlyReader(r, x)
  BY <1>2 DEF OnlyReader, MemoryInv, RowsOK, Session
<1>6. CASE outcome = "ok"
  <2>1. reader' = [reader EXCEPT ![r] = new]
    BY <1>1, <1>6 DEF MemoryInv, RowsOK, Session
  <2>2. rows' = [i \in DOMAIN rows |-> IF rows[i].id \in reader[r].left
                                      THEN Reinforced(rows[i], r) ELSE rows[i]]
    BY <1>1, <1>6 DEF Picks
  <2>3. new.left = reader[r].left \ reader[r].left
    BY <1>4
  <2>4. new.pc = IF new.left = {} THEN "answer" ELSE "marking"
    BY <1>4
  <2> HIDE DEF new
  <2> QED
    BY <1>2, <1>4, <1>5, <2>1, <2>2, <2>3, <2>4, MarkOK
<1>7. CASE outcome = "busy" \/ (outcome = "error" /\ deployed.strict)
  <2>1. UNCHANGED rows /\ reader' = [reader EXCEPT ![r] = Free]
    BY <1>1, <1>7
  <2>2. told' = [m \in Memory |-> IF m \in {} THEN told[m] + 1 ELSE told[m]]
    BY <1>2 DEF MemoryInv, RowsOK, Session
  <2>3. {} \in SUBSET DOMAIN reader[r].seen /\ {} \cap reader[r].left = {}
    OBVIOUS
  <2> QED
    BY <1>2, <1>5, <2>1, <2>2, <2>3, EndOK
<1>8. CASE outcome = "error" /\ ~deployed.strict
  <2>1. UNCHANGED rows /\ reader' = [reader EXCEPT ![r] = new]
    BY <1>1, <1>8
  <2>2. ~Reliable
    BY <1>2, <1>8 DEF Reliable
  <2> HIDE DEF new
  <2> QED
    BY <1>2, <1>4, <1>5, <2>1, <2>2, SpoiltOK
<1> QED
  BY <1>6, <1>7, <1>8 DEF StoreOutcome

(* The answer of a read.                                                   *)
LEMMA AnswerStep ==
  ASSUME MemoryInv, MemoryAssumption, NEW r \in Reader, AnswerRead(r)
  PROVE  MemoryInv'
<1>1. OnlyReader(r, Free)
  BY DEF AnswerRead, OnlyReader, storeVars, MemoryInv, RowsOK, Session
<1>2. reader[r].pc = "answer" /\ UNCHANGED rows
      /\ told' = [m \in Memory |-> IF m \in DOMAIN reader[r].seen THEN told[m] + 1 ELSE told[m]]
  BY DEF AnswerRead, storeVars
<1>3. DOMAIN reader[r].seen \cap reader[r].left = {}
  BY <1>2 DEF MemoryInv, ReaderOK
<1> QED
  BY <1>1, <1>2, <1>3, EndOK

(* Time passes.                                                            *)
LEMMA TickStep ==
  ASSUME MemoryInv, Tick
  PROVE  MemoryInv'
<1>1. now' \in Nat /\ budget' \in [memories : SUBSET Memory, reads : Int, jobs : Int, hours : Int]
      /\ budget'.memories = budget.memories
  <2>1. now' = now + 1 /\ budget' = [budget EXCEPT !.hours = @ - 1]
    BY DEF Tick
  <2>2. now \in Nat
    BY DEF MemoryInv, RowsOK, Session
  <2>3. budget \in [memories : SUBSET Memory, reads : Int, jobs : Int, hours : Int]
    BY DEF MemoryInv, RowsOK, Session
  <2> QED
    BY <2>1, <2>2, <2>3
<1>2. UNCHANGED <<deployed, storeVars, readVars>>
  BY DEF Tick
<1> QED
  BY <1>1, <1>2, FrameOK

(* Every step keeps the invariant of the memories.                         *)
LEMMA MemoryStep ==
  ASSUME MemoryInv, MemoryAssumption, [Next]_vars
  PROVE  MemoryInv'
<1>1. CASE \E m \in Memory : Ingest(m)
  BY <1>1, IngestOK
<1>2. CASE \E r \in Reader : ReadStep(r) \/ \E t \in ToSet(Tenants) : Select(r, t)
  BY <1>2, BeginOK, MarkItemStep, MarkRowsStep, AnswerStep, SelectStep DEF ReadStep
<1>3. CASE Tick
  BY <1>3, TickStep
<1>4. ASSUME NEW j \in Job,
             \/ Schedule(j)
             \/ \E t \in ToSet(Tenants) : Queue(j, t)
             \/ JobStep(j) \/ LlmStep(j) \/ LlmReturns(j)
      PROVE  MemoryInv'
  <2>1. /\ UNCHANGED <<deployed, now, storeVars, readVars>>
        /\ budget' \in [memories : SUBSET Memory, reads : Int, jobs : Int, hours : Int]
        /\ budget'.memories = budget.memories
    BY <1>4, OtherFrame
  <2> QED
    BY <2>1, FrameOK DEF MemoryInv, RowsOK, Session
<1>5. CASE UNCHANGED vars
  <2>1. UNCHANGED <<deployed, now, storeVars, readVars, budget>>
    BY <1>5 DEF vars, storeVars, readVars
  <2> QED
    BY <2>1, FrameOK DEF MemoryInv, RowsOK, Session
<1> QED
  BY <1>1, <1>2, <1>3, <1>4, <1>5 DEF Next

-----------------------------------------------------------------------------
(* The invariant of the memory, for every set of memories, readers and     *)
(* jobs, and every lifetime.                                               *)
THEOREM MemoryInvHolds == Spec => []MemoryInv
<1>1. Init => MemoryInv
  BY MemoryAssumption, InitOK
<1>2. MemoryInv /\ [Next]_vars => MemoryInv'
  BY MemoryAssumption, MemoryStep
<1> QED
  BY <1>1, <1>2, PTL DEF Spec

(* In memory and in a strict deployment answers are true: what was         *)
(* acknowledged is stored, a row counts every answered read that listed    *)
(* it, and no answer reports more than the row says.                       *)
THEOREM AnswersHold == Spec => []AnswersAreTrue
<1>1. MemoryInv => AnswersAreTrue
  <2> SUFFICES ASSUME MemoryInv, Reliable PROVE AnswersAreTrue
    BY DEF AnswersAreTrue, Reliable
  <2>1. created \subseteq Stored
    BY DEF MemoryInv, CountsOK
  <2>2. ASSUME NEW i \in DOMAIN rows
        PROVE  told[rows[i].id] <= Row(rows[i].id).count
    <3>1. Row(rows[i].id) = rows[i] /\ rows[i].count \in Nat /\ rows[i].id \in Memory
      BY RowOf, RowType DEF MemoryInv
    <3>2. told[rows[i].id] + Cardinality(Marked(rows[i].id)) <= rows[i].count
      BY DEF MemoryInv, CountsOK, CountedOK
    <3>3. Cardinality(Marked(rows[i].id)) \in Nat
      BY MarkedFinite, MemoryAssumption
    <3>4. told[rows[i].id] \in Nat
      BY <3>1 DEF MemoryInv, RowsOK, Session
    <3> QED
      BY <3>1, <3>2, <3>3, <3>4
  <2>3. ASSUME NEW r \in Reader, reader[r].pc = "answer", NEW i \in DOMAIN rows,
               rows[i].id \in DOMAIN reader[r].seen
        PROVE  reader[r].seen[rows[i].id] + 1 <= Row(rows[i].id).count
    <3>1. Row(rows[i].id) = rows[i]
      BY RowOf DEF MemoryInv
    <3>2. r \in Marked(rows[i].id)
      BY <2>3 DEF Marked, MemoryInv, ReaderOK
    <3> QED
      BY <3>1, <3>2 DEF MemoryInv, CountsOK, CountedOK
  <2>4. \A r \in Reader : DOMAIN reader[r].seen \subseteq Stored
    BY DEF MemoryInv, ReaderOK
  <2> QED
    BY <2>1, <2>2, <2>3, <2>4 DEF AnswersAreTrue, Stored
<1> QED
  BY <1>1, MemoryInvHolds, PTL

-----------------------------------------------------------------------------
(* A row that no read has chosen is left as it is, and time does not go    *)
(* back.                                                                   *)
LEMMA RowUntouched ==
  ASSUME MemoryInv, [Next]_vars, NEW i \in DOMAIN rows,
         \A r \in Reader : reader[r].pc = "free" \/ rows[i].id \notin reader[r].left
  PROVE  i \in DOMAIN rows' /\ rows'[i] = rows[i] /\ now' \in Nat /\ now <= now'
<1>1. now \in Nat /\ i \in 1..Len(rows)
      /\ rows \in Seq([id : Memory, count : Nat, last : Nat])
  BY DEF MemoryInv, RowsOK, Session
<1>2. CASE UNCHANGED <<rows, now>>
  BY <1>1, <1>2
<1>3. CASE \E m \in Memory : Ingest(m)
  BY <1>1, <1>3 DEF Ingest
<1>4. ASSUME NEW r \in Reader, MarkItem(r)
      PROVE  rows' = rows \/ (DOMAIN rows' = DOMAIN rows /\ rows'[i] = rows[i] /\ now' = now)
  BY <1>4 DEF MarkItem
<1>5. ASSUME NEW r \in Reader, MarkRows(r)
      PROVE  rows' = rows \/ (DOMAIN rows' = DOMAIN rows /\ rows'[i] = rows[i])
  BY <1>5 DEF MarkRows, Picks
<1>6. \A r \in Reader : MarkItem(r) \/ MarkRows(r) => now' = now
  BY DEF MarkItem, MarkRows
<1>7. CASE Tick
  BY <1>1, <1>7 DEF Tick, storeVars
<1>8. ASSUME NEW r \in Reader,
             BeginMark(r) \/ AnswerRead(r) \/ \E t \in ToSet(Tenants) : Select(r, t)
      PROVE  UNCHANGED <<rows, now>>
  BY <1>8 DEF BeginMark, AnswerRead, Select, storeVars
<1>9. ASSUME NEW j \in Job,
             \/ Schedule(j)
             \/ \E t \in ToSet(Tenants) : Queue(j, t)
             \/ JobStep(j) \/ LlmStep(j) \/ LlmReturns(j)
      PROVE  UNCHANGED <<rows, now>>
  BY <1>9, OtherFrame DEF storeVars
<1>10. CASE UNCHANGED vars
  BY <1>2, <1>10 DEF vars
<1> QED
  BY <1>1, <1>2, <1>3, <1>4, <1>5, <1>6, <1>7, <1>8, <1>9, <1>10 DEF Next, ReadStep

(* A memory that has faded stays so, unless a read that chose it while it  *)
(* was active has still to mark it, whatever lifetimes the decay gives.    *)
THEOREM ForgottenHolds ==
  ASSUME \A importance : \A n \in Nat : Lifetime(importance, n) \in Int
  PROVE  Spec => ForgottenForGood
<1>1. MemoryInv /\ MemoryInv' /\ [Next]_vars =>
        [\A m \in Stored :
           (/\ ~Active(m)
            /\ \A r \in Reader : reader[r].pc = "free" \/ m \notin reader[r].left)
           => ~Active(m)']_vars
  <2> SUFFICES ASSUME MemoryInv, MemoryInv', [Next]_vars, NEW i \in DOMAIN rows,
                      NEW m, m = rows[i].id, ~Active(m),
                      \A r \in Reader : reader[r].pc = "free" \/ m \notin reader[r].left
               PROVE  ~Active(m)'
    BY DEF Stored
  <2>1. i \in DOMAIN rows' /\ rows'[i] = rows[i] /\ now' \in Nat /\ now <= now'
    BY RowUntouched
  <2>2. Row(m) = rows[i]
    BY RowOf DEF MemoryInv
  <2>3. Row(m)' = rows[i]
    <3>1. \A k \in DOMAIN rows' : rows'[k].id = rows'[i].id => k = i
      BY <2>1 DEF MemoryInv, RowsOK, Session
    <3> QED
      BY <2>1, <3>1 DEF Row
  <2>4. rows[i].count \in Nat /\ rows[i].last \in Nat /\ now \in Nat
    BY RowType DEF MemoryInv, RowsOK, Session
  <2>5. Lifetime(Fact[m].importance, rows[i].count) \in Int
    BY <2>4
  <2> QED
    BY <2>1, <2>2, <2>3, <2>4, <2>5 DEF Active
<1> QED
  BY <1>1, MemoryInvHolds, PTL DEF Spec, ForgottenForGood

-----------------------------------------------------------------------------
(***************************************************************************)
(* What a background job may be at.                                        *)
(***************************************************************************)

Concepts == {"Phrase"} \cup {"Cluster " \o ToString(c) : c \in Nat}
Relationship ==
  (Concepts \cup {Fact[m].role : m \in Memory})
  \X {"SUMMARIZES_EXPERIENCE", "DISCOVERED_CONCEPT"}
  \X (Concepts \cup {Fact[m].summary : m \in Memory})

Late == {"label", "asked", "leaving", "write"}
Stages == {"idle", "fetch", "measure", "search"} \cup Late

Searches == {<<>>} \cup UNION {SearchSet(n) : n \in Nat}

Records ==
  [pc : Stages, todo : Seq(ToSet(Tenants)), episodes : Seq(Memory), search : Searches,
   clusters : Seq(Nat \X Seq(Nat)), k : Nat \ {0}, upserts : Seq(Relationship),
   failures : 0..(Attempts - 1), missed : BOOLEAN]

(* The episodes of a cycle: memories of one tenant, each of them once and  *)
(* stored (S).                                                             *)
SnapshotOK(episodes, S) ==
  /\ \A i \in DOMAIN episodes : episodes[i] \in S
  /\ \A i, k \in DOMAIN episodes :
       /\ episodes[i] = episodes[k] => i = k
       /\ Fact[episodes[i]].tenant = Fact[episodes[k]].tenant

(* The search of a cycle.                                                  *)
SearchingOK(x) ==
  /\ SearchType(x.search, Len(x.episodes))
  /\ x.search.near = Near(Embeddings(x.episodes))
  /\ MinSamples = 2 => SearchOK(x.search, Len(x.episodes))

(* The clusters of a cycle.                                                *)
ClustersOK(x) ==
  /\ \A q \in DOMAIN x.clusters :
       x.clusters[q][2] \in Seq(1..Len(x.episodes)) /\ Len(x.clusters[q][2]) >= 2
  /\ MinSamples = 2 => IsClustering(Embeddings(x.episodes), x.clusters)

(* The relationships that a cluster gives when it is labelled.             *)
Edges(x, q, concept) ==
  {<<concept, "SUMMARIZES_EXPERIENCE", Fact[x.episodes[x.clusters[q][2][i]]].summary>> :
     i \in DOMAIN x.clusters[q][2]}
  \cup {<<Fact[x.episodes[x.clusters[q][2][i]]].role, "DISCOVERED_CONCEPT", concept>> :
          i \in DOMAIN x.clusters[q][2]}

(* Unless a call was given up: the clusters before the k-th are in the     *)
(* graph g, the k-th is in it but for the relationships still to write.    *)
WrittenOK(x, g) ==
  x.pc \in Late /\ ~x.missed =>
    \A q \in DOMAIN x.clusters : q < x.k => \E concept : Edges(x, q, concept) \subseteq g

PendingOK(x, g) ==
  x.pc = "write" => \E concept :
    /\ ToSet(x.upserts) \subseteq Edges(x, x.k, concept)
    /\ ~x.missed => Edges(x, x.k, concept) \subseteq g \cup ToSet(x.upserts)

JobOK(x, S, g) ==
  /\ x \in Records
  /\ x.pc \notin Late => x.k = 1
  /\ x.pc = "write" <=> x.upserts # <<>>
  /\ x.pc \notin {"idle", "fetch"} => x.todo # <<>> /\ SnapshotOK(x.episodes, S)
  /\ x.pc = "search" => SearchingOK(x)
  /\ x.pc \in Late => ClustersOK(x)
  /\ x.pc \in Late \ {"label"} => x.k \in DOMAIN x.clusters
  /\ WrittenOK(x, g)
  /\ PendingOK(x, g)

(* An edge of the graph tells of two similar memories that are stored.     *)
Earned(edge, S) ==
  \E m, n \in S :
    /\ Related(m, n)
    /\ IF edge[2] = "DISCOVERED_CONCEPT" THEN edge[1] = Fact[m].role
       ELSE edge[3] = Fact[m].summary

TimesOK ==
  /\ \A i \in DOMAIN rows : rows[i].id \in created /\ rows[i].last <= now
  /\ \A r \in Reader : reader[r].at <= now

JobsOK ==
  /\ job \in [Job -> Records]
  /\ \A j \in Job : JobOK(job[j], Stored, graph)

GraphOK == MinSamples = 2 => \A edge \in graph : Earned(edge, Stored)

(* A job is what its parts are.                                            *)
LEMMA RecordIs ==
  ASSUME NEW x \in Records
  PROVE  /\ x.pc \in Stages /\ x.todo \in Seq(ToSet(Tenants)) /\ x.episodes \in Seq(Memory)
         /\ x.search \in Searches /\ x.clusters \in Seq(Nat \X Seq(Nat))
         /\ x.k \in Nat \ {0} /\ x.upserts \in Seq(Relationship)
         /\ x.failures \in 0..(Attempts - 1) /\ x.missed \in BOOLEAN
BY DEF Records

(* Parts of the right kind make a job.                                     *)
LEMMA RecordOf ==
  ASSUME NEW pc \in Stages, NEW todo \in Seq(ToSet(Tenants)), NEW episodes \in Seq(Memory),
         NEW search \in Searches, NEW clusters \in Seq(Nat \X Seq(Nat)), NEW k \in Nat \ {0},
         NEW upserts \in Seq(Relationship), NEW failures \in 0..(Attempts - 1),
         NEW missed \in BOOLEAN
  PROVE  [pc |-> pc, todo |-> todo, episodes |-> episodes, search |-> search,
          clusters |-> clusters, k |-> k, upserts |-> upserts,
          failures |-> failures, missed |-> missed] \in Records
BY DEF Records

(* What is stored and written only grows, and jobs that wait are as well.  *)
LEMMA JobGrows ==
  ASSUME NEW x, NEW S, NEW T, S \subseteq T, NEW g, NEW h, g \subseteq h, JobOK(x, S, g)
  PROVE  JobOK(x, T, h)
<1>1. x.pc \notin {"idle", "fetch"} => x.todo # <<>> /\ SnapshotOK(x.episodes, T)
  BY DEF JobOK, SnapshotOK
<1>2. WrittenOK(x, h)
  <2>1. WrittenOK(x, g)
    BY DEF JobOK
  <2>2. \A q : \A concept : Edges(x, q, concept) \subseteq g => Edges(x, q, concept) \subseteq h
    OBVIOUS
  <2> QED
    BY <2>1, <2>2 DEF WrittenOK
<1>3. PendingOK(x, h)
  <2>1. PendingOK(x, g)
    BY DEF JobOK
  <2>2. \A E : \A U : E \subseteq g \cup U => E \subseteq h \cup U
    OBVIOUS
  <2> QED
    BY <2>1, <2>2 DEF PendingOK
<1> QED
  BY <1>1, <1>2, <1>3 DEF JobOK

(* A job that does nothing.                                                *)
LEMMA IdleOK ==
  ASSUME MemoryAssumption, NEW S, NEW g
  PROVE  JobOK(Idle, S, g)
<1>1. /\ "idle" \in Stages /\ <<>> \in Seq(ToSet(Tenants)) /\ <<>> \in Seq(Memory)
      /\ <<>> \in Searches /\ <<>> \in Seq(Nat \X Seq(Nat)) /\ 1 \in Nat \ {0}
      /\ <<>> \in Seq(Relationship) /\ 0 \in 0..(Attempts - 1) /\ FALSE \in BOOLEAN
  BY DEF Stages, Searches, MemoryAssumption
<1>2. Idle \in Records
  BY <1>1, RecordOf DEF Idle
<1>3. Idle.pc = "idle" /\ Idle.k = 1 /\ Idle.upserts = <<>>
  BY DEF Idle
<1> QED
  BY <1>2, <1>3 DEF JobOK, WrittenOK, PendingOK, Late

(* A job that is about to fetch the episodes of a tenant.                  *)
LEMMA WaitsOK ==
  ASSUME NEW x, NEW S, NEW g, JobOK(x, S, g), x.pc \in {"idle", "fetch"},
         NEW t \in Seq(ToSet(Tenants))
  PROVE  JobOK([x EXCEPT !.pc = "fetch", !.todo = t], S, g)
<1> DEFINE new == [x EXCEPT !.pc = "fetch", !.todo = t]
<1>1. x \in Records /\ x.k = 1 /\ x.upserts = <<>>
  BY DEF JobOK, Late
<1>2. new.pc = "fetch" /\ new.k = x.k /\ new.upserts = x.upserts
  BY <1>1 DEF Records
<1>3. new \in Records
  <2>1. "fetch" \in Stages
    BY DEF Stages
  <2> QED
    BY <1>1, <2>1 DEF Records
<1> HIDE DEF new
<1>4. JobOK(new, S, g)
  BY <1>1, <1>2, <1>3 DEF JobOK, WrittenOK, PendingOK, Late
<1> QED
  BY <1>4 DEF new

(* The embeddings of episodes.                                             *)
LEMMA EmbeddingsType ==
  ASSUME MemoryAssumption, NEW episodes \in Seq(Memory)
  PROVE  Embeddings(episodes) \in Seq(Seq(Int)) /\ Len(Embeddings(episodes)) = Len(episodes)
<1>1. Len(episodes) \in Nat /\ DOMAIN episodes = 1..Len(episodes)
      /\ \A i \in DOMAIN episodes : episodes[i] \in Memory
  OBVIOUS
<1>2. \A i \in DOMAIN episodes : Fact[episodes[i]].embedding \in Seq(Int)
  BY <1>1 DEF MemoryAssumption
<1>3. Embeddings(episodes) \in [1..Len(episodes) -> Seq(Int)]
  BY <1>1, <1>2 DEF Embeddings
<1> QED
  BY <1>1, <1>3

(* A cycle that has fetched its episodes.                                  *)
LEMMA SnapshotStep ==
  ASSUME NEW x, NEW S, NEW g, JobOK(x, S, g), x.pc = "fetch",
         x.todo # <<>>, NEW e \in Seq(Memory), SnapshotOK(e, S)
  PROVE  JobOK([x EXCEPT !.pc = "measure", !.episodes = e], S, g)
<1> DEFINE new == [x EXCEPT !.pc = "measure", !.episodes = e]
<1>1. x \in Records /\ x.k = 1 /\ x.upserts = <<>>
  BY DEF JobOK, Late
<1>2. new.pc = "measure" /\ new.k = x.k /\ new.upserts = x.upserts /\ new.episodes = e
      /\ new.todo = x.todo
  BY <1>1 DEF Records
<1>3. new \in Records
  <2>1. "measure" \in Stages
    BY DEF Stages
  <2> QED
    BY <1>1, <2>1 DEF Records
<1> HIDE DEF new
<1>4. JobOK(new, S, g)
  BY <1>1, <1>2, <1>3 DEF JobOK, WrittenOK, PendingOK, Late
<1> QED
  BY <1>4 DEF new

(* A cycle whose search begins, or takes a turn.                           *)
LEMMA SearchStep ==
  ASSUME NEW x, NEW S, NEW g, JobOK(x, S, g), x.pc \in {"measure", "search"},
         NEW s, SearchType(s, Len(x.episodes)), s.near = Near(Embeddings(x.episodes)),
         MinSamples = 2 => SearchOK(s, Len(x.episodes))
  PROVE  JobOK([x EXCEPT !.pc = "search", !.search = s], S, g)
<1> DEFINE new == [x EXCEPT !.pc = "search", !.search = s]
<1>1. x \in Records /\ x.k = 1 /\ x.upserts = <<>> /\ SnapshotOK(x.episodes, S) /\ x.todo # <<>>
  BY DEF JobOK, Late
<1>2. new.pc = "search" /\ new.k = x.k /\ new.upserts = x.upserts /\ new.episodes = x.episodes
      /\ new.search = s /\ new.todo = x.todo
  BY <1>1 DEF Records
<1>3. new \in Records
  <2>1. "search" \in Stages
    BY DEF Stages
  <2>2. s \in Searches
    BY DEF SearchType, Searches, SearchSet
  <2> QED
    BY <1>1, <2>1, <2>2 DEF Records
<1> HIDE DEF new
<1>4. SearchingOK(new)
  BY <1>2 DEF SearchingOK
<1>5. JobOK(new, S, g)
  BY <1>1, <1>2, <1>3, <1>4 DEF JobOK, WrittenOK, PendingOK, Late
<1> QED
  BY <1>5 DEF new

(* The distances are taken and the search begins.                          *)
LEMMA MeasureStep ==
  ASSUME MemoryAssumption, NEW x, NEW S, NEW g, JobOK(x, S, g), x.pc = "measure"
  PROVE  JobOK([x EXCEPT !.pc = "search", !.search = NewSearch(Embeddings(x.episodes))], S, g)
<1> DEFINE es == Embeddings(x.episodes)
           s == NewSearch(es)
<1>1. es \in Seq(Seq(Int)) /\ Len(es) = Len(x.episodes)
  BY EmbeddingsType DEF JobOK, Records
<1>2. s.near = Near(es)
  BY DEF NewSearch
<1> HIDE DEF es
<1>3. SearchType(s, Len(es)) /\ (MinSamples = 2 => SearchOK(s, Len(es)))
  BY <1>1, NewSearchType, NewSearchOK
<1> HIDE DEF s
<1>4. SearchType(s, Len(x.episodes)) /\ s.near = Near(Embeddings(x.episodes))
      /\ (MinSamples = 2 => SearchOK(s, Len(x.episodes)))
  BY <1>1, <1>2, <1>3 DEF es
<1>5. JobOK([x EXCEPT !.pc = "search", !.search = s], S, g)
  BY <1>4, SearchStep
<1> QED
  BY <1>5 DEF s, es

(* A turn of the search.                                                   *)
LEMMA TurnStep ==
  ASSUME NEW x, NEW S, NEW g, JobOK(x, S, g), x.pc = "search", ~Complete(x.search)
  PROVE  JobOK([x EXCEPT !.search = Turn(x.search)], S, g)
<1> DEFINE s == Turn(x.search)
<1>1. SearchingOK(x) /\ x \in Records
  BY DEF JobOK
<1>2. SearchType(s, Len(x.episodes)) /\ s.near = Near(Embeddings(x.episodes))
      /\ (MinSamples = 2 => SearchOK(s, Len(x.episodes)))
  BY <1>1, TurnOK DEF SearchingOK
<1> HIDE DEF s
<1>3. JobOK([x EXCEPT !.pc = "search", !.search = s], S, g)
  BY <1>2, SearchStep
<1>4. [x EXCEPT !.pc = "search", !.search = s] = [x EXCEPT !.search = s]
  BY <1>1 DEF Records
<1> QED
  BY <1>3, <1>4 DEF s

(* The clusters of a complete search.                                      *)
LEMMA FoundStep ==
  ASSUME MemoryAssumption, NEW x, NEW S, NEW g, JobOK(x, S, g), x.pc = "search",
         Complete(x.search)
  PROVE  JobOK([x EXCEPT !.pc = "label", !.search = <<>>,
                         !.clusters = Large(Clusters(x.search.label))], S, g)
<1> DEFINE label == x.search.label
           n == Len(x.episodes)
           cl == Large(Clusters(label))
           new == [x EXCEPT !.pc = "label", !.search = <<>>, !.clusters = cl]
           es == Embeddings(x.episodes)
<1>1. /\ x \in Records /\ x.k = 1 /\ x.upserts = <<>> /\ SnapshotOK(x.episodes, S) /\ x.todo # <<>>
      /\ SearchingOK(x)
  BY DEF JobOK, Late
<1>2. n \in Nat /\ label \in [1..n -> Int] /\ x.episodes \in Seq(Memory)
  BY <1>1 DEF SearchingOK, SearchType, SearchSet, Records
<1>3. es \in Seq(Seq(Int)) /\ Len(es) = n
  BY <1>2, EmbeddingsType
<1>4. MinSamples = 2 => IsClustering(es, cl)
  <2> HIDE DEF es
  <2>1. MinSamples = 2 => SearchOK(x.search, Len(es)) /\ x.search.near = Near(es)
    BY <1>1, <1>3 DEF SearchingOK, es
  <2> QED
    BY <1>3, <2>1, FoundIs
<1>5. Lists(cl, n, label) /\ \A k \in DOMAIN cl : Len(cl[k][2]) >= 2
  <2> HIDE DEF n, label
  <2>1. Lists(Clusters(label), n, label)
    BY <1>2, ClustersIs
  <2> QED
    BY <1>2, <2>1, LargeIs
<1> HIDE DEF cl, label, es
<1>6. cl \in Seq(Nat \X Seq(Nat))
  <2>1. cl \in Seq(Nat \X Seq(1..n))
    BY <1>5 DEF Lists
  <2>2. Nat \X Seq(1..n) \subseteq Nat \X Seq(Nat)
    <3>1. 1..n \subseteq Nat
      OBVIOUS
    <3> HIDE DEF n
    <3>2. \A q \in Seq(1..n) : q \in Seq(Nat)
      BY <3>1, Widen
    <3> QED
      BY <3>2
  <2> HIDE DEF n
  <2> QED
    BY <2>1, <2>2, Widen
<1>7. /\ new.pc = "label" /\ new.k = x.k /\ new.upserts = x.upserts
      /\ new.episodes = x.episodes /\ new.clusters = cl /\ new.todo = x.todo
  BY <1>1 DEF Records
<1>8. new \in Records
  <2>1. "label" \in Stages /\ <<>> \in Searches
    BY DEF Stages, Late, Searches
  <2> QED
    BY <1>1, <1>6, <2>1 DEF Records
<1> HIDE DEF new
<1>9. ClustersOK(new)
  <2>1. \A q \in DOMAIN cl : cl[q][2] \in Seq(1..n)
    BY <1>5 DEF Lists
  <2> QED
    BY <1>4, <1>5, <1>7, <2>1 DEF ClustersOK, es
<1>10. WrittenOK(new, g)
  <2>1. DOMAIN cl = 1..Len(cl) /\ Len(cl) \in Nat
    BY <1>6
  <2> QED
    BY <1>1, <1>7, <2>1 DEF WrittenOK
<1>11. JobOK(new, S, g)
  BY <1>1, <1>7, <1>8, <1>9, <1>10 DEF JobOK, PendingOK, Late
<1> QED
  BY <1>11 DEF new, cl, label

(* A cycle that asks the LLM for a label, or waits for it.                 *)
LEMMA AskStep ==
  ASSUME NEW x, NEW S, NEW g, JobOK(x, S, g), x.pc \in {"label", "asked"},
         x.k \in DOMAIN x.clusters, NEW to \in {"asked", "leaving"}
  PROVE  JobOK([x EXCEPT !.pc = to], S, g)
<1> DEFINE new == [x EXCEPT !.pc = to]
<1>1. x \in Records /\ x.upserts = <<>> /\ SnapshotOK(x.episodes, S) /\ x.todo # <<>>
      /\ ClustersOK(x) /\ WrittenOK(x, g)
  BY DEF JobOK, Late
<1>2. /\ new.pc = to /\ new.k = x.k /\ new.upserts = x.upserts
      /\ new.episodes = x.episodes /\ new.clusters = x.clusters /\ new.missed = x.missed
      /\ new.todo = x.todo
  BY <1>1 DEF Records
<1>3. new \in Records
  <2>1. to \in Stages
    BY DEF Stages, Late
  <2> QED
    BY <1>1, <2>1 DEF Records
<1> HIDE DEF new
<1>4. ClustersOK(new)
  BY <1>1, <1>2 DEF ClustersOK
<1>5. WrittenOK(new, g)
  <2>1. \A q : \A concept : Edges(new, q, concept) = Edges(x, q, concept)
    BY <1>2 DEF Edges
  <2> QED
    BY <1>1, <1>2, <2>1 DEF WrittenOK, Late
<1>6. JobOK(new, S, g)
  BY <1>1, <1>2, <1>3, <1>4, <1>5 DEF JobOK, PendingOK, Late
<1> QED
  BY <1>6 DEF new

(* The relationships to write for a cluster, in their order.               *)
Listed(x, concept) ==
  LET points == x.clusters[x.k][2]
      Item(i) == Fact[x.episodes[points[i]]]
  IN [n \in 1..(2 * Len(points)) |->
        IF n % 2 = 1
        THEN <<concept, "SUMMARIZES_EXPERIENCE", Item((n + 1) \div 2).summary>>
        ELSE <<Item(n \div 2).role, "DISCOVERED_CONCEPT", concept>>]

(* They are the edges that the cluster gives.                              *)
LEMMA ListedIs ==
  ASSUME NEW x \in Records, ClustersOK(x), x.k \in DOMAIN x.clusters, NEW concept \in Concepts
  PROVE  /\ Listed(x, concept) \in Seq(Relationship) /\ Listed(x, concept) # <<>>
         /\ ToSet(Listed(x, concept)) = Edges(x, x.k, concept)
<1> DEFINE points == x.clusters[x.k][2]
           l == Len(points)
           Item(i) == Fact[x.episodes[points[i]]]
           list == Listed(x, concept)
           odd(i) == <<concept, "SUMMARIZES_EXPERIENCE", Item(i).summary>>
           even(i) == <<Item(i).role, "DISCOVERED_CONCEPT", concept>>
<1>1. /\ x.episodes \in Seq(Memory) /\ points \in Seq(1..Len(x.episodes)) /\ l >= 2
      /\ l \in Nat
  BY DEF ClustersOK, Records
<1>2. DOMAIN points = 1..l /\ \A i \in 1..l : x.episodes[points[i]] \in Memory
  BY <1>1
<1>3. \A i \in 1..l : odd(i) \in Relationship /\ even(i) \in Relationship
  BY <1>2 DEF Relationship
<1>4. list = [n \in 1..(2 * l) |-> IF n % 2 = 1 THEN odd((n + 1) \div 2) ELSE even(n \div 2)]
  BY DEF Listed
<1>5. Edges(x, x.k, concept) = {odd(i) : i \in 1..l} \cup {even(i) : i \in 1..l}
  BY <1>2 DEF Edges
<1> HIDE DEF points, l, Item, list, odd, even
<1>6. \A n \in 1..(2 * l) : IF n % 2 = 1 THEN (n + 1) \div 2 \in 1..l ELSE n \div 2 \in 1..l
  BY <1>1
<1>7. DOMAIN list = 1..(2 * l) /\ 2 * l \in Nat
  BY <1>1, <1>4
<1>8. \A n \in 1..(2 * l) :
        list[n] \in Relationship /\ list[n] \in {odd(i) : i \in 1..l} \cup {even(i) : i \in 1..l}
  BY <1>3, <1>4, <1>6
<1>9. list \in Seq(Relationship) /\ list # <<>>
  <2>1. list \in [1..(2 * l) -> Relationship]
    BY <1>4, <1>8
  <2>2. 1 \in DOMAIN list
    BY <1>1, <1>7
  <2> QED
    BY <1>7, <2>1, <2>2
<1>10. \A i \in 1..l : odd(i) \in ToSet(list) /\ even(i) \in ToSet(list)
  <2> SUFFICES ASSUME NEW i \in 1..l PROVE odd(i) \in ToSet(list) /\ even(i) \in ToSet(list)
    OBVIOUS
  <2>1. /\ 2 * i - 1 \in 1..(2 * l) /\ (2 * i - 1) % 2 = 1 /\ ((2 * i - 1) + 1) \div 2 = i
        /\ 2 * i \in 1..(2 * l) /\ (2 * i) % 2 = 0 /\ (2 * i) \div 2 = i
    BY <1>1
  <2>2. list[2 * i - 1] = odd(i) /\ list[2 * i] = even(i)
    BY <1>4, <2>1
  <2> QED
    BY <1>7, <2>1, <2>2 DEF ToSet
<1>11. ToSet(list) = Edges(x, x.k, concept)
  BY <1>5, <1>7, <1>8, <1>10 DEF ToSet
<1> QED
  BY <1>9, <1>11 DEF list

(* A cluster that has got its label.                                       *)
LEMMA LabelledStep ==
  ASSUME NEW x, NEW S, NEW g, JobOK(x, S, g), x.pc \in {"label", "asked", "leaving"},
         x.k \in DOMAIN x.clusters, NEW concept \in Concepts, MemoryAssumption
  PROVE  JobOK([x EXCEPT !.pc = "write", !.upserts = Listed(x, concept), !.failures = 0], S, g)
<1> DEFINE list == Listed(x, concept)
           new == [x EXCEPT !.pc = "write", !.upserts = list, !.failures = 0]
<1>1. x \in Records /\ SnapshotOK(x.episodes, S) /\ x.todo # <<>> /\ ClustersOK(x) /\ WrittenOK(x, g)
  BY DEF JobOK, Late
<1>2. list \in Seq(Relationship) /\ list # <<>> /\ ToSet(list) = Edges(x, x.k, concept)
  BY <1>1, ListedIs
<1> HIDE DEF list
<1>3. /\ new.pc = "write" /\ new.k = x.k /\ new.upserts = list
      /\ new.episodes = x.episodes /\ new.clusters = x.clusters /\ new.missed = x.missed
      /\ new.todo = x.todo
  BY <1>1 DEF Records
<1>4. new \in Records
  <2>1. "write" \in Stages /\ 0 \in 0..(Attempts - 1)
    BY DEF Stages, Late, MemoryAssumption
  <2> QED
    BY <1>1, <1>2, <2>1 DEF Records
<1> HIDE DEF new
<1>5. ClustersOK(new)
  BY <1>1, <1>3 DEF ClustersOK
<1>6. \A q : \A c : Edges(new, q, c) = Edges(x, q, c)
  BY <1>3 DEF Edges
<1>7. WrittenOK(new, g)
  BY <1>1, <1>3, <1>6 DEF WrittenOK, Late
<1>8. PendingOK(new, g)
  BY <1>2, <1>3, <1>6 DEF PendingOK
<1>9. JobOK(new, S, g)
  BY <1>1, <1>2, <1>3, <1>4, <1>5, <1>7, <1>8 DEF JobOK, Late
<1> QED
  BY <1>9 DEF new, list

(* A write that is done with: the next one, or the next cluster.           *)
Advanced(x) ==
  LET rest == Tail(x.upserts)
  IN [x EXCEPT !.upserts = rest, !.failures = 0,
               !.k = IF rest = <<>> THEN @ + 1 ELSE @,
               !.pc = IF rest = <<>> THEN "label" ELSE @]

(* It may have been given up, so that nothing is known of the graph.       *)
LEMMA AdvancedStep ==
  ASSUME MemoryAssumption, NEW x, NEW S, NEW g, NEW h, JobOK(x, S, g), x.pc = "write",
         NEW missed \in BOOLEAN, g \subseteq h,
         ~missed => ~x.missed /\ Head(x.upserts) \in h
  PROVE  JobOK([Advanced(x) EXCEPT !.missed = missed], S, h)
<1> DEFINE rest == Tail(x.upserts)
           new == [Advanced(x) EXCEPT !.missed = missed]
<1>1. /\ x \in Records /\ x.upserts # <<>> /\ SnapshotOK(x.episodes, S) /\ x.todo # <<>> /\ ClustersOK(x)
      /\ WrittenOK(x, g) /\ PendingOK(x, g) /\ x.k \in DOMAIN x.clusters
  BY DEF JobOK, Late
<1>2. x.upserts \in Seq(Relationship) /\ x.k \in Nat \ {0}
  BY <1>1 DEF Records
<1>3. rest \in Seq(Relationship) /\ ToSet(x.upserts) = {Head(x.upserts)} \cup ToSet(rest)
  BY <1>1, <1>2, HeadTail
<1> HIDE DEF rest
<1>4. Advanced(x) = [x EXCEPT !.upserts = rest, !.failures = 0,
                              !.k = IF rest = <<>> THEN x.k + 1 ELSE x.k,
                              !.pc = IF rest = <<>> THEN "label" ELSE "write"]
  BY DEF Advanced, rest
<1>5. /\ new.pc = (IF rest = <<>> THEN "label" ELSE "write")
      /\ new.k = (IF rest = <<>> THEN x.k + 1 ELSE x.k) /\ new.upserts = rest
      /\ new.episodes = x.episodes /\ new.clusters = x.clusters /\ new.missed = missed
      /\ new.todo = x.todo
  BY <1>1, <1>4 DEF Records
<1>6. new \in Records
  <2>1. "write" \in Stages /\ "label" \in Stages /\ 0 \in 0..(Attempts - 1)
        /\ x.k + 1 \in Nat \ {0}
    BY <1>2 DEF Stages, Late, MemoryAssumption
  <2> DEFINE k == IF rest = <<>> THEN x.k + 1 ELSE x.k
             pc == IF rest = <<>> THEN "label" ELSE "write"
  <2>2. k \in Nat \ {0} /\ pc \in Stages
    BY <1>2, <2>1
  <2> HIDE DEF k, pc
  <2>3. Advanced(x) = [x EXCEPT !.upserts = rest, !.failures = 0, !.k = k, !.pc = pc]
    BY <1>4 DEF k, pc
  <2>4. Advanced(x) \in Records
    BY <1>1, <1>3, <2>1, <2>2, <2>3 DEF Records
  <2> QED
    BY <2>4 DEF Records
<1> HIDE DEF new
<1>7. ClustersOK(new)
  BY <1>1, <1>5 DEF ClustersOK
<1>8. \A q : \A c : Edges(new, q, c) = Edges(x, q, c)
  BY <1>5 DEF Edges
<1>9. PICK concept : /\ ToSet(x.upserts) \subseteq Edges(x, x.k, concept)
                     /\ ~x.missed => Edges(x, x.k, concept) \subseteq g \cup ToSet(x.upserts)
  BY <1>1 DEF PendingOK
<1>10. ~missed => Edges(x, x.k, concept) \subseteq h \cup ToSet(rest)
  BY <1>3, <1>9
<1>11. PendingOK(new, h)
  BY <1>3, <1>5, <1>8, <1>9, <1>10 DEF PendingOK
<1>12. WrittenOK(new, h)
  <2> SUFFICES ASSUME ~missed, NEW q \in DOMAIN x.clusters, q < new.k
               PROVE  \E c : Edges(x, q, c) \subseteq h
    BY <1>5, <1>8 DEF WrittenOK
  <2>1. q \in Nat
    BY <1>1 DEF Records
  <2>2. CASE q < x.k
    <3>1. \E c : Edges(x, q, c) \subseteq g
      BY <1>1, <2>2 DEF WrittenOK, Late
    <3> QED
      BY <3>1
  <2>3. CASE ~(q < x.k)
    <3>1. rest = <<>> /\ q = x.k
      BY <1>2, <1>5, <2>1, <2>3
    <3>2. ToSet(rest) = {}
      BY <3>1 DEF ToSet
    <3> QED
      BY <1>10, <3>1, <3>2
  <2> QED
    BY <2>2, <2>3
<1>13. JobOK(new, S, h)
  BY <1>1, <1>5, <1>6, <1>7, <1>11, <1>12 DEF JobOK, Late
<1> QED
  BY <1>13 DEF new

(* A call of Neo4j that is to be repeated.                                 *)
LEMMA RepeatStep ==
  ASSUME MemoryAssumption, NEW x, NEW S, NEW g, JobOK(x, S, g), x.pc = "write",
         x.failures + 1 < Attempts
  PROVE  JobOK([x EXCEPT !.failures = x.failures + 1], S, g)
<1> DEFINE new == [x EXCEPT !.failures = x.failures + 1]
<1>1. /\ x \in Records /\ SnapshotOK(x.episodes, S) /\ x.todo # <<>> /\ ClustersOK(x)
      /\ WrittenOK(x, g) /\ PendingOK(x, g) /\ x.k \in DOMAIN x.clusters /\ x.upserts # <<>>
  BY DEF JobOK, Late
<1>2. /\ new.pc = "write" /\ new.k = x.k /\ new.upserts = x.upserts
      /\ new.episodes = x.episodes /\ new.clusters = x.clusters /\ new.missed = x.missed
      /\ new.todo = x.todo
  BY <1>1 DEF Records
<1>3. new \in Records
  <2>1. x.failures + 1 \in 0..(Attempts - 1)
    <3>1. x.failures \in 0..(Attempts - 1) /\ Attempts \in Nat
      BY <1>1 DEF Records, MemoryAssumption
    <3> QED
      BY <3>1
  <2> QED
    BY <1>1, <2>1 DEF Records
<1> HIDE DEF new
<1>4. \A q : \A c : Edges(new, q, c) = Edges(x, q, c)
  BY <1>2 DEF Edges
<1>5. ClustersOK(new)
  BY <1>1, <1>2 DEF ClustersOK
<1>6. WrittenOK(new, g)
  BY <1>1, <1>2, <1>4 DEF WrittenOK
<1>7. PendingOK(new, g)
  <2>1. PICK concept : /\ ToSet(x.upserts) \subseteq Edges(x, x.k, concept)
                       /\ ~x.missed => Edges(x, x.k, concept) \subseteq g \cup ToSet(x.upserts)
    BY <1>1 DEF PendingOK
  <2>2. Edges(new, x.k, concept) = Edges(x, x.k, concept)
    BY <1>4
  <2> QED
    BY <1>2, <2>1, <2>2 DEF PendingOK
<1>8. JobOK(new, S, g)
  BY <1>1, <1>2, <1>3, <1>5, <1>6, <1>7 DEF JobOK, Late
<1> QED
  BY <1>8 DEF new

(* What a job has to write tells of similar memories.                      *)
LEMMA PendingEarned ==
  ASSUME MemoryAssumption, MinSamples = 2, NEW x, NEW S, NEW g, JobOK(x, S, g),
         x.pc = "write", NEW edge \in ToSet(x.upserts)
  PROVE  Earned(edge, S)
<1> DEFINE es == Embeddings(x.episodes)
           n == Len(x.episodes)
           points == x.clusters[x.k][2]
           core == {i \in DOMAIN es : IsCore(Near(es), i)}
<1>1. /\ x.episodes \in Seq(Memory) /\ SnapshotOK(x.episodes, S) /\ x.todo # <<>> /\ ClustersOK(x)
      /\ PendingOK(x, g) /\ x.k \in DOMAIN x.clusters
  BY DEF JobOK, Records, Late
<1>2. PICK concept : edge \in Edges(x, x.k, concept)
  BY <1>1 DEF PendingOK
<1>3. PICK a \in DOMAIN points :
        edge = <<concept, "SUMMARIZES_EXPERIENCE", Fact[x.episodes[points[a]]].summary>>
        \/ edge = <<Fact[x.episodes[points[a]]].role, "DISCOVERED_CONCEPT", concept>>
  BY <1>2 DEF Edges
<1>4. /\ es \in Seq(Seq(Int)) /\ Len(es) = n /\ n \in Nat /\ DOMAIN es = 1..n
      /\ \A i \in 1..n : es[i] = Fact[x.episodes[i]].embedding
      /\ DOMAIN x.episodes = 1..n
  BY <1>1, EmbeddingsType DEF Embeddings
<1>5. points \in Seq(1..n) /\ points[a] \in 1..n /\ points[a] \in ToSet(points)
  <2>1. points \in Seq(1..n)
    BY <1>1 DEF ClustersOK
  <2> HIDE DEF points, n
  <2>2. points[a] \in ToSet(points)
    BY DEF ToSet
  <2> QED
    BY <2>1, <2>2, ElementType
<1> DEFINE i == points[a]
<1>6. \E k \in DOMAIN x.clusters : i \in ToSet(x.clusters[k][2])
  BY <1>1, <1>5
<1> HIDE DEF es, n, points, i
<1>7. NeighboursOK(Near(es), n)
  BY <1>4, NearIs
<1>8. \A p, q \in 1..n : q \in Near(es)[p] <=> Close(es[p], es[q])
  BY <1>4 DEF Near
<1>9. \E j \in core : Close(es[i], es[j])
  <2>1. IsClustering(es, x.clusters)
    BY <1>1 DEF ClustersOK, es
  <2>2. i \in DOMAIN es
    BY <1>4, <1>5 DEF i
  <2> QED
    BY <1>6, <2>1, <2>2 DEF IsClustering
<1>10. i \in 1..n
  BY <1>5 DEF i
<1>11. PICK j \in 1..n : j # i /\ Close(es[i], es[j])
  <2>1. PICK p \in core : Close(es[i], es[p])
    BY <1>9
  <2>2. p \in 1..n /\ Near(es)[p] \ {p} # {}
    <3>1. p \in 1..n /\ IsCore(Near(es), p)
      BY <1>4
    <3> QED
      BY <1>7, <3>1, CoreIs
  <2>3. CASE p # i
    BY <2>1, <2>2, <2>3
  <2>4. CASE p = i
    <3>1. PICK q \in Near(es)[i] : q # i
      BY <2>2, <2>4
    <3>2. q \in 1..n
      BY <1>7, <1>10, <3>1 DEF NeighboursOK
    <3> QED
      BY <1>8, <1>10, <3>1, <3>2
  <2> QED
    BY <2>3, <2>4
<1>12. /\ x.episodes[i] \in S /\ x.episodes[j] \in S
       /\ x.episodes[i] # x.episodes[j]
       /\ Fact[x.episodes[i]].tenant = Fact[x.episodes[j]].tenant
  BY <1>1, <1>4, <1>10, <1>11 DEF SnapshotOK
<1>13. Related(x.episodes[i], x.episodes[j])
  BY <1>4, <1>10, <1>11, <1>12 DEF Related
<1>14. IF edge[2] = "DISCOVERED_CONCEPT" THEN edge[1] = Fact[x.episodes[i]].role
       ELSE edge[3] = Fact[x.episodes[i]].summary
  BY <1>3 DEF i
<1> QED
  BY <1>12, <1>13, <1>14 DEF Earned

(* The cycle of a tenant is over.                                          *)
LEMMA EndStep ==
  ASSUME MemoryAssumption, NEW S, NEW g, NEW t \in Seq(ToSet(Tenants))
  PROVE  JobOK([Idle EXCEPT !.pc = "fetch", !.todo = t], S, g)
BY IdleOK, WaitsOK DEF Idle

(* The episodes of a tenant are stored, and each of them once.             *)
LEMMA EpisodesAre ==
  ASSUME MemoryInv, NEW t
  PROVE  EpisodesOf(t) \in Seq(Memory) /\ SnapshotOK(EpisodesOf(t), Stored)
<1> DEFINE own == {i \in DOMAIN rows : Fact[rows[i].id].tenant = t}
           q == InOrder(own)
           c == Cardinality(own)
           e == EpisodesOf(t)
<1>1. /\ DOMAIN rows = 1..Len(rows) /\ Len(rows) \in Nat
      /\ \A i, k \in DOMAIN rows : rows[i].id = rows[k].id => i = k
  BY DEF MemoryInv, RowsOK, Session
<1>2. \A i \in DOMAIN rows : rows[i].id \in Memory /\ rows[i].id \in Stored
  BY RowType DEF MemoryInv, Stored
<1>3. /\ c \in Nat /\ q \in [1..c -> own] /\ DOMAIN q = 1..c
      /\ \A i, k \in DOMAIN q : q[i] = q[k] => i = k
  <2>1. own \in SUBSET (1..Len(rows))
    BY <1>1
  <2> HIDE DEF own
  <2> QED
    BY <1>1, <2>1, InOrderIs
<1>4. e = [k \in 1..c |-> rows[q[k]].id]
  BY <1>3 DEF EpisodesOf
<1>5. \A i \in own : i \in DOMAIN rows /\ Fact[rows[i].id].tenant = t
  OBVIOUS
<1> HIDE DEF own, q, c, e
<1>6. \A k \in 1..c : q[k] \in DOMAIN rows /\ e[k] = rows[q[k]].id /\ Fact[e[k]].tenant = t
  BY <1>3, <1>4, <1>5
<1>7. DOMAIN e = 1..c /\ e \in [1..c -> Memory]
  BY <1>2, <1>4, <1>6
<1>8. e \in Seq(Memory)
  BY <1>3, <1>7
<1>9. ASSUME NEW i \in 1..c, NEW k \in 1..c, e[i] = e[k]
      PROVE  i = k
  BY <1>1, <1>3, <1>6, <1>9
<1>10. SnapshotOK(e, Stored)
  BY <1>2, <1>6, <1>7, <1>9 DEF SnapshotOK
<1> QED
  BY <1>8, <1>10 DEF e

-----------------------------------------------------------------------------
(* The invariant of the jobs and of the graph that they write.             *)
JobsInv == JobsOK /\ GraphOK

(* A step of job j, of which the other jobs see at most a larger graph.    *)
LEMMA OnlyJob ==
  ASSUME JobsOK, NEW j \in Job, NEW y, job' = [job EXCEPT ![j] = y],
         Stored' = Stored, graph \subseteq graph', JobOK(y, Stored, graph')
  PROVE  JobsOK'
<1>1. job \in [Job -> Records] /\ y \in Records
  BY DEF JobsOK, JobOK
<1>2. job' \in [Job -> Records] /\ job'[j] = y /\ \A i \in Job \ {j} : job'[i] = job[i]
  BY <1>1
<1>3. ASSUME NEW i \in Job
      PROVE  JobOK(job'[i], Stored', graph')
  <2>1. CASE i = j
    BY <1>2, <2>1
  <2>2. CASE i # j
    <3>1. JobOK(job[i], Stored, graph)
      BY DEF JobsOK
    <3>2. JobOK(job[i], Stored, graph')
      BY <3>1, JobGrows
    <3> QED
      BY <1>2, <2>2, <3>2
  <2> QED
    BY <2>1, <2>2
<1> QED
  BY <1>2, <1>3 DEF JobsOK

(* A step that leaves the jobs alone.                                      *)
LEMMA JobsGrow ==
  ASSUME JobsInv, UNCHANGED <<graph, job>>, Stored \subseteq Stored'
  PROVE  JobsInv'
<1>1. job' = job /\ graph' = graph
  OBVIOUS
<1>2. \A i \in Job : JobOK(job[i], Stored', graph)
  BY JobGrows DEF JobsInv, JobsOK
<1>3. JobsOK'
  BY <1>1, <1>2 DEF JobsInv, JobsOK
<1>4. GraphOK'
  BY <1>1 DEF JobsInv, GraphOK, Earned
<1> QED
  BY <1>3, <1>4 DEF JobsInv

(* What a job is before it takes a step.                                   *)
LEMMA JobIs ==
  ASSUME JobsInv, NEW j \in Job
  PROVE  /\ JobOK(job[j], Stored, graph) /\ job[j] \in Records
         /\ job \in [Job -> Records]
BY DEF JobsInv, JobsOK

(* A step that writes nothing to the graph.                                *)
LEMMA SilentStep ==
  ASSUME JobsInv, NEW j \in Job, NEW y, job' = [job EXCEPT ![j] = y],
         UNCHANGED <<storeVars, graph>>, JobOK(y, Stored, graph)
  PROVE  JobsInv'
<1>1. Stored' = Stored /\ graph' = graph
  BY DEF Stored, storeVars
<1>2. JobsOK'
  BY <1>1, OnlyJob DEF JobsInv
<1> QED
  BY <1>1, <1>2 DEF JobsInv, GraphOK

(* A job is queued for a tenant or scheduled for all of them.              *)
LEMMA StartOK ==
  ASSUME JobsInv, MemoryAssumption, NEW j \in Job,
         Schedule(j) \/ \E t \in ToSet(Tenants) : Queue(j, t)
  PROVE  JobsInv'
<1>1. ASSUME NEW todo \in Seq(ToSet(Tenants)), StartJob(j, todo)
      PROVE  JobsInv'
  <2>1. job[j].pc = "idle" /\ UNCHANGED <<storeVars, graph>>
        /\ job' = [job EXCEPT ![j].pc = "fetch", ![j].todo = todo]
    BY <1>1 DEF StartJob
  <2>2. job' = [job EXCEPT ![j] = [job[j] EXCEPT !.pc = "fetch", !.todo = todo]]
    BY <2>1, JobIs
  <2>3. JobOK([job[j] EXCEPT !.pc = "fetch", !.todo = todo], Stored, graph)
    BY <2>1, JobIs, WaitsOK
  <2> QED
    BY <2>1, <2>2, <2>3, SilentStep
<1>2. ASSUME NEW t \in ToSet(Tenants), Queue(j, t)
      PROVE  JobsInv'
  <2>1. <<t>> \in Seq(ToSet(Tenants))
    OBVIOUS
  <2> QED
    BY <1>1, <1>2, <2>1 DEF Queue
<1>3. CASE Schedule(j)
  <2> DEFINE here == {i \in DOMAIN Tenants : \E m \in Stored : Fact[m].tenant = Tenants[i]}
             q == InOrder(here)
             c == Cardinality(here)
             todo == [i \in DOMAIN q |-> Tenants[q[i]]]
  <2>1. DOMAIN Tenants = 1..Len(Tenants) /\ Len(Tenants) \in Nat
    BY DEF MemoryAssumption
  <2>2. c \in Nat /\ q \in [1..c -> here] /\ DOMAIN q = 1..c
    <3>1. here \in SUBSET (1..Len(Tenants))
      BY <2>1
    <3> HIDE DEF here
    <3> QED
      BY <2>1, <3>1, InOrderIs
  <2>3. \A i \in here : Tenants[i] \in ToSet(Tenants)
    BY DEF ToSet
  <2>4. StartJob(j, todo)
    BY <1>3 DEF Schedule
  <2> HIDE DEF here, q, c
  <2>5. todo \in [1..c -> ToSet(Tenants)]
    BY <2>2, <2>3
  <2>6. todo \in Seq(ToSet(Tenants))
    BY <2>2, <2>5
  <2> HIDE DEF todo
  <2> QED
    BY <1>1, <2>4, <2>6
<1> QED
  BY <1>2, <1>3

(* A cycle fetches the episodes of its tenant, skips it or is given up.    *)
LEMMA FetchOK ==
  ASSUME JobsInv, MemoryInv, MemoryAssumption, NEW j \in Job, Fetch(j)
  PROVE  JobsInv'
<1> DEFINE x == job[j]
           todo == Tail(x.todo)
           e == EpisodesOf(Head(x.todo))
<1>1. x.pc = "fetch" /\ x.todo # <<>> /\ UNCHANGED <<storeVars, graph>>
  BY DEF Fetch
<1>2. JobOK(x, Stored, graph) /\ x \in Records /\ job \in [Job -> Records]
  BY JobIs
<1>3. todo \in Seq(ToSet(Tenants))
  BY <1>1, <1>2, HeadTail DEF Records
<1>4. e \in Seq(Memory) /\ SnapshotOK(e, Stored)
  BY EpisodesAre
<1> DEFINE skipped == [x EXCEPT !.pc = "fetch", !.todo = todo]
           begun == [x EXCEPT !.pc = "measure", !.episodes = e]
<1>5. \/ job' = [job EXCEPT ![j].todo = Tail(@)]
      \/ job' = [job EXCEPT ![j].pc = "measure", ![j].episodes = e]
      \/ job' = [job EXCEPT ![j] = Idle]
  BY DEF Fetch
<1>6. job' \in {[job EXCEPT ![j] = skipped], [job EXCEPT ![j] = begun], [job EXCEPT ![j] = Idle]}
  <2>1. [x EXCEPT !.todo = Tail(@)] = skipped
    BY <1>1, <1>2 DEF Records
  <2>2. [job EXCEPT ![j].todo = Tail(@)] = [job EXCEPT ![j] = skipped]
    BY <1>2, <2>1
  <2>3. [job EXCEPT ![j].pc = "measure", ![j].episodes = e] = [job EXCEPT ![j] = begun]
    BY <1>2
  <2> HIDE DEF skipped, begun
  <2> QED
    BY <1>5, <2>2, <2>3
<1>7. JobOK(skipped, Stored, graph)
  BY <1>1, <1>2, <1>3, WaitsOK
<1>8. JobOK(begun, Stored, graph)
  <2> HIDE DEF e
  <2> QED
    BY <1>1, <1>2, <1>4, SnapshotStep
<1>9. JobOK(Idle, Stored, graph)
  BY IdleOK
<1> HIDE DEF skipped, begun
<1> QED
  BY <1>1, <1>6, <1>7, <1>8, <1>9, SilentStep

(* The distances, a turn of the search and its result.                     *)
LEMMA SearchesOK ==
  ASSUME JobsInv, MemoryAssumption, NEW j \in Job, Measure(j) \/ Search(j) \/ Found(j)
  PROVE  JobsInv'
<1> DEFINE x == job[j]
<1>1. UNCHANGED <<storeVars, graph>>
  BY DEF Measure, Search, Found
<1>2. JobOK(x, Stored, graph) /\ x \in Records /\ job \in [Job -> Records]
  BY JobIs
<1>3. CASE Measure(j)
  <2> DEFINE y == [x EXCEPT !.pc = "search", !.search = NewSearch(Embeddings(x.episodes))]
  <2>1. x.pc = "measure"
        /\ job' = [job EXCEPT ![j].pc = "search",
                              ![j].search = NewSearch(Embeddings(job[j].episodes))]
    BY <1>3 DEF Measure
  <2>2. job' = [job EXCEPT ![j] = y]
    BY <1>2, <2>1
  <2>3. JobOK(y, Stored, graph)
    BY <1>2, <2>1, MeasureStep
  <2> HIDE DEF y
  <2> QED
    BY <1>1, <2>2, <2>3, SilentStep
<1>4. CASE Search(j)
  <2> DEFINE y == [x EXCEPT !.search = Turn(x.search)]
  <2>1. x.pc = "search" /\ ~Complete(x.search) /\ job' = [job EXCEPT ![j].search = Turn(@)]
    BY <1>4 DEF Search
  <2>2. job' = [job EXCEPT ![j] = y]
    BY <1>2, <2>1
  <2>3. JobOK(y, Stored, graph)
    BY <1>2, <2>1, TurnStep
  <2> HIDE DEF y
  <2> QED
    BY <1>1, <2>2, <2>3, SilentStep
<1>5. CASE Found(j)
  <2> DEFINE cl == Large(Clusters(x.search.label))
             y == [x EXCEPT !.pc = "label", !.search = <<>>, !.clusters = cl]
  <2>1. x.pc = "search" /\ Complete(x.search)
    BY <1>5 DEF Found
  <2>2. job' = [job EXCEPT ![j].pc = "label", ![j].search = <<>>, ![j].clusters = cl]
    BY <1>5 DEF Found, Large
  <2>3. JobOK(y, Stored, graph)
    BY <1>2, <2>1, FoundStep
  <2> HIDE DEF cl
  <2>4. job' = [job EXCEPT ![j] = y]
    BY <1>2, <2>2
  <2> HIDE DEF y
  <2> QED
    BY <1>1, <2>3, <2>4, SilentStep
<1> QED
  BY <1>3, <1>4, <1>5

(* A cluster gets its label, from the LLM or without it.                   *)
LEMMA LabelsStepOK ==
  ASSUME JobsInv, MemoryAssumption, NEW j \in Job,
         Label(j) \/ LlmStep(j) \/ LlmReturns(j)
  PROVE  JobsInv'
<1> DEFINE x == job[j]
<1>1. UNCHANGED <<storeVars, graph>>
  BY DEF Label, LlmStep, LlmAnswers, LlmTimesOut, LlmReturns
<1>2. JobOK(x, Stored, graph) /\ x \in Records /\ job \in [Job -> Records]
  BY JobIs
<1>3. /\ x.clusters \in Seq(Nat \X Seq(Nat)) /\ x.k \in Nat \ {0}
      /\ DOMAIN x.clusters = 1..Len(x.clusters) /\ Len(x.clusters) \in Nat
  BY <1>2, RecordIs
<1>4. /\ Label(j) => x.pc = "label" /\ x.k <= Len(x.clusters)
      /\ LlmStep(j) => x.pc = "asked"
      /\ LlmReturns(j) => x.pc = "leaving"
  BY DEF Label, LlmStep, LlmAnswers, LlmTimesOut, LlmReturns
<1>5. x.k \in DOMAIN x.clusters
  BY <1>2, <1>3, <1>4 DEF JobOK, Late
<1>6. FallbackLabel(j) \in Concepts /\ "Phrase" \in Concepts
  <2>1. x.clusters[x.k] \in Nat \X Seq(Nat)
    BY <1>3, <1>5
  <2>2. x.clusters[x.k][1] \in Nat
    BY <2>1
  <2> QED
    BY <2>2 DEF FallbackLabel, Concepts
<1>7. ASSUME NEW concept \in Concepts, Labelled(j, concept),
             x.pc \in {"label", "asked", "leaving"}
      PROVE  JobsInv'
  <2> DEFINE list == Listed(x, concept)
             y == [x EXCEPT !.pc = "write", !.upserts = list, !.failures = 0]
  <2>1. job' = [job EXCEPT ![j].pc = "write", ![j].upserts = list, ![j].failures = 0]
    BY <1>7 DEF Labelled, Upserts, Listed
  <2>2. JobOK(y, Stored, graph)
    BY <1>2, <1>5, <1>7, LabelledStep
  <2> HIDE DEF list
  <2>3. job' = [job EXCEPT ![j] = y]
    BY <1>2, <2>1
  <2> HIDE DEF y
  <2> QED
    BY <1>1, <2>2, <2>3, SilentStep
<1>8. ASSUME NEW to \in {"asked", "leaving"}, job' = [job EXCEPT ![j].pc = to],
             x.pc \in {"label", "asked"}
      PROVE  JobsInv'
  <2>1. job' = [job EXCEPT ![j] = [x EXCEPT !.pc = to]]
    BY <1>2, <1>8
  <2>2. JobOK([x EXCEPT !.pc = to], Stored, graph)
    BY <1>2, <1>5, <1>8, AskStep
  <2> QED
    BY <1>1, <2>1, <2>2, SilentStep
<1> HIDE DEF x
<1>9. CASE Label(j)
  BY <1>4, <1>6, <1>7, <1>8, <1>9 DEF Label
<1>10. CASE LlmStep(j)
  <2>1. CASE LlmAnswers(j)
    BY <1>4, <1>6, <1>7, <1>10, <2>1 DEF LlmAnswers
  <2>2. CASE LlmTimesOut(j)
    BY <1>4, <1>8, <1>10, <2>2 DEF LlmTimesOut
  <2> QED
    BY <1>10, <2>1, <2>2 DEF LlmStep
<1>11. CASE LlmReturns(j)
  BY <1>4, <1>6, <1>7, <1>11 DEF LlmReturns
<1> QED
  BY <1>9, <1>10, <1>11

(* What a write adds to the graph is earned, and what it leaves to write   *)
(* is what the graph still lacks.                                          *)
LEMMA UpsertOK ==
  ASSUME JobsInv, MemoryAssumption, NEW j \in Job, Upsert(j)
  PROVE  JobsInv'
<1> DEFINE x == job[j]
           head == Head(x.upserts)
           more == graph \cup {head}
<1>1. x.pc = "write" /\ UNCHANGED storeVars
  BY DEF Upsert
<1>2. JobOK(x, Stored, graph) /\ x \in Records /\ job \in [Job -> Records]
  BY JobIs
<1>3. Stored' = Stored
  BY <1>1 DEF Stored, storeVars
<1>4. head \in ToSet(x.upserts)
  <2>1. x.upserts \in Seq(Relationship) /\ x.upserts # <<>>
    BY <1>1, <1>2, RecordIs DEF JobOK
  <2> QED
    BY <2>1, HeadTail
<1>5. graph' \in {graph, more} /\ graph \subseteq graph'
  BY DEF Upsert
<1>6. GraphOK'
  <2>1. MinSamples = 2 => Earned(head, Stored)
    BY <1>1, <1>2, <1>4, PendingEarned
  <2>2. MinSamples = 2 => \A edge \in graph' : Earned(edge, Stored)
    BY <1>5, <2>1 DEF JobsInv, GraphOK
  <2> QED
    BY <1>3, <2>2 DEF GraphOK, Earned
<1>7. Written(j) = Advanced(x)
  BY DEF Written, Advanced
<1>8. x.missed \in BOOLEAN /\ Advanced(x) = [Advanced(x) EXCEPT !.missed = x.missed]
  BY <1>2 DEF Records, Advanced
<1>9. CASE graph' = more /\ job' = [job EXCEPT ![j] = Written(j)]
  <2> DEFINE y == [Advanced(x) EXCEPT !.missed = x.missed]
  <2>1. JobOK(y, Stored, graph')
    BY <1>1, <1>2, <1>5, <1>8, <1>9, AdvancedStep
  <2>2. job' = [job EXCEPT ![j] = y]
    BY <1>7, <1>8, <1>9
  <2>3. JobsOK'
    <3> HIDE DEF y
    <3> QED
      BY <1>3, <1>5, <2>1, <2>2, OnlyJob DEF JobsInv
  <2> QED
    BY <1>6, <2>3 DEF JobsInv
<1>10. CASE x.failures + 1 < Attempts /\ job' = [job EXCEPT ![j].failures = @ + 1]
  <2> DEFINE y == [x EXCEPT !.failures = x.failures + 1]
  <2>1. JobOK(y, Stored, graph)
    BY <1>1, <1>2, <1>10, RepeatStep
  <2>2. JobOK(y, Stored, graph')
    <3> HIDE DEF y
    <3> QED
      BY <1>5, <2>1, JobGrows
  <2>3. job' = [job EXCEPT ![j] = y]
    BY <1>2, <1>10
  <2>4. JobsOK'
    <3> HIDE DEF y
    <3> QED
      BY <1>3, <1>5, <2>2, <2>3, OnlyJob DEF JobsInv
  <2> QED
    BY <1>6, <2>4 DEF JobsInv
<1>11. CASE job' = [job EXCEPT ![j] = [Written(j) EXCEPT !.missed = TRUE]]
  <2> DEFINE y == [Advanced(x) EXCEPT !.missed = TRUE]
  <2>1. JobOK(y, Stored, graph')
    BY <1>1, <1>2, <1>5, AdvancedStep
  <2>2. job' = [job EXCEPT ![j] = y]
    BY <1>7, <1>11
  <2>3. JobsOK'
    <3> HIDE DEF y
    <3> QED
      BY <1>3, <1>5, <2>1, <2>2, OnlyJob DEF JobsInv
  <2> QED
    BY <1>6, <2>3 DEF JobsInv
<1>12. \/ graph' = more /\ job' = [job EXCEPT ![j] = Written(j)]
       \/ x.failures + 1 < Attempts /\ job' = [job EXCEPT ![j].failures = @ + 1]
       \/ job' = [job EXCEPT ![j] = [Written(j) EXCEPT !.missed = TRUE]]
  BY DEF Upsert
<1> QED
  BY <1>9, <1>10, <1>11, <1>12

(* A cycle or a job is complete.                                           *)
LEMMA EndsOK ==
  ASSUME JobsInv, MemoryAssumption, NEW j \in Job, EndCycle(j) \/ EndJob(j)
  PROVE  JobsInv'
<1> DEFINE x == job[j]
<1>1. UNCHANGED <<storeVars, graph>>
  BY DEF EndCycle, EndJob
<1>2. JobOK(x, Stored, graph) /\ x \in Records
  BY JobIs
<1>3. CASE EndJob(j)
  <2>1. job' = [job EXCEPT ![j] = Idle]
    BY <1>3 DEF EndJob
  <2> QED
    BY <1>1, <2>1, IdleOK, SilentStep
<1>4. CASE EndCycle(j)
  <2> DEFINE y == [Idle EXCEPT !.pc = "fetch", !.todo = Tail(x.todo)]
  <2>1. job' = [job EXCEPT ![j] = y]
    BY <1>4 DEF EndCycle
  <2>2. x.todo \in Seq(ToSet(Tenants)) /\ x.todo # <<>>
    BY <1>2, <1>4, RecordIs DEF JobOK, EndCycle
  <2>3. Tail(x.todo) \in Seq(ToSet(Tenants))
    BY <2>2, HeadTail
  <2>4. JobOK(y, Stored, graph)
    BY <2>3, EndStep
  <2> HIDE DEF y
  <2> QED
    BY <1>1, <2>1, <2>4, SilentStep
<1> QED
  BY <1>3, <1>4

-----------------------------------------------------------------------------
(* What a step does to the rows: their memories stay, and what is new or   *)
(* marked is of a time that has come.                                      *)
LEMMA RowsStep ==
  ASSUME MemoryInv, TimesOK, [Next]_vars
  PROVE  /\ \A i \in DOMAIN rows : i \in DOMAIN rows' /\ rows'[i].id = rows[i].id
         /\ \A i \in DOMAIN rows' : rows'[i].id \in created' /\ rows'[i].last <= now'
         /\ now' \in Nat /\ now <= now'
<1> DEFINE Row_ == [id : Memory, count : Nat, last : Nat]
           Kept == /\ \A i \in DOMAIN rows : i \in DOMAIN rows' /\ rows'[i].id = rows[i].id
                   /\ \A i \in DOMAIN rows' : rows'[i].id \in created' /\ rows'[i].last <= now'
                   /\ now' \in Nat /\ now <= now'
<1>1. /\ now \in Nat /\ rows \in Seq(Row_) /\ DOMAIN rows = 1..Len(rows) /\ Len(rows) \in Nat
      /\ \A i \in DOMAIN rows : rows[i] \in Row_
      /\ \A i \in DOMAIN rows : rows[i].id \in created /\ rows[i].last <= now
      /\ \A r \in Reader : reader[r].at \in Nat /\ reader[r].at <= now
  <2>1. rows \in Seq(Row_) /\ now \in Nat
    BY DEF MemoryInv, RowsOK
  <2>2. DOMAIN rows = 1..Len(rows) /\ Len(rows) \in Nat
    BY <2>1
  <2>3. \A i \in DOMAIN rows : rows[i] \in Row_
    BY RowType DEF MemoryInv
  <2>4. \A r \in Reader : reader[r].at \in Nat
    BY ReaderType DEF MemoryInv
  <2> QED
    BY <2>1, <2>2, <2>3, <2>4 DEF TimesOK
<1>2. CASE UNCHANGED <<rows, created, now>>
  BY <1>1, <1>2
<1>3. ASSUME NEW m \in Memory, Ingest(m)
      PROVE  Kept
  <2>1. now' = now /\ \E outcome \in StoreOutcome :
          /\ rows' = IF outcome = "ok"
                     THEN Append(rows, [id |-> m, count |-> 0, last |-> now])
                     ELSE rows
          /\ created' = IF outcome = "ok" \/ (outcome = "error" /\ ~deployed.strict)
                        THEN created \cup {m} ELSE created
    BY <1>3 DEF Ingest
  <2>2. created \subseteq created'
    BY <2>1
  <2>3. CASE rows' = rows
    <3>1. \A i \in DOMAIN rows : rows[i].id \in created' /\ rows[i].last <= now
      BY <1>1, <2>2
    <3>2. rows' = rows /\ now' = now
      BY <2>1, <2>3
    <3> QED
      BY <1>1, <3>1, <3>2
  <2>4. CASE rows' # rows
    <3> DEFINE row == [id |-> m, count |-> 0, last |-> now]
    <3>1. rows' = Append(rows, row) /\ m \in created'
      BY <2>1, <2>4
    <3>2. row \in Row_ /\ row.id = m /\ row.last = now
      BY <1>1
    <3> HIDE DEF row, Row_
    <3>3. /\ DOMAIN rows' = 1..(Len(rows) + 1) /\ rows'[Len(rows) + 1] = row
          /\ \A i \in DOMAIN rows : i \in DOMAIN rows' /\ rows'[i] = rows[i]
      BY <1>1, <3>1, <3>2
    <3>4. \A i \in DOMAIN rows' : i \in DOMAIN rows \/ i = Len(rows) + 1
      BY <1>1, <3>3
    <3>5. now' \in Nat /\ now <= now'
      BY <1>1, <2>1
    <3> QED
      BY <1>1, <2>1, <2>2, <3>1, <3>2, <3>3, <3>4, <3>5
  <2> QED
    BY <2>3, <2>4
<1>4. ASSUME NEW r \in Reader, NEW i \in DOMAIN rows
      PROVE  Reinforced(rows[i], r).id = rows[i].id /\ Reinforced(rows[i], r).last <= now
  BY <1>1 DEF Reinforced, MarkTime
<1>5. ASSUME NEW r \in Reader, MarkItem(r) \/ MarkRows(r)
      PROVE  Kept
  <2>1. now' = now /\ created' = created
    BY <1>5 DEF MarkItem, MarkRows
  <2>2. /\ DOMAIN rows' = DOMAIN rows
        /\ \A i \in DOMAIN rows : rows'[i] = rows[i] \/ rows'[i] = Reinforced(rows[i], r)
    BY <1>1, <1>5 DEF MarkItem, MarkRows
  <2>3. \A i \in DOMAIN rows : rows'[i].id = rows[i].id /\ rows'[i].last <= now
    BY <1>1, <1>4, <2>2
  <2> QED
    BY <1>1, <2>1, <2>2, <2>3
<1>6. ASSUME NEW r \in Reader,
             BeginMark(r) \/ AnswerRead(r) \/ \E t \in ToSet(Tenants) : Select(r, t)
      PROVE  UNCHANGED <<rows, created, now>>
  BY <1>6 DEF BeginMark, AnswerRead, Select, storeVars
<1>7. CASE Tick
  BY <1>1, <1>7 DEF Tick, storeVars
<1>8. ASSUME NEW j \in Job,
             \/ Schedule(j)
             \/ \E t \in ToSet(Tenants) : Queue(j, t)
             \/ JobStep(j) \/ LlmStep(j) \/ LlmReturns(j)
      PROVE  UNCHANGED <<rows, created, now>>
  BY <1>8, OtherFrame DEF storeVars
<1>9. CASE UNCHANGED vars
  BY <1>2, <1>9 DEF vars
<1> QED
  BY <1>2, <1>3, <1>5, <1>6, <1>7, <1>8, <1>9 DEF Next, ReadStep

(* No time that is written down is later than now.                         *)
LEMMA TimesStep ==
  ASSUME MemoryInv, TimesOK, [Next]_vars
  PROVE  TimesOK'
<1>1. /\ \A i \in DOMAIN rows' : rows'[i].id \in created' /\ rows'[i].last <= now'
      /\ now' \in Nat /\ now <= now' /\ now \in Nat /\ now <= now /\ 0 \in Nat /\ 0 <= now
  BY RowsStep DEF MemoryInv, RowsOK
<1>2. \A r \in Reader : reader[r] \in Session /\ reader[r].at \in Nat /\ reader[r].at <= now
  BY ReaderType DEF MemoryInv, TimesOK, Session
<1>3. reader \in [Reader -> Session]
  BY DEF MemoryInv, RowsOK
<1> SUFFICES \A r \in Reader : reader'[r].at <= now'
  BY <1>1 DEF TimesOK
<1>4. CASE reader' = reader
  BY <1>1, <1>2, <1>4
<1>5. Free.at = 0
  BY DEF Free
<1>6. ASSUME NEW r \in Reader, NEW new, reader' = [reader EXCEPT ![r] = new],
             new.at \in Nat, new.at <= now
      PROVE  \A x \in Reader : reader'[x].at <= now'
  <2>1. \A x \in Reader : reader'[x] = IF x = r THEN new ELSE reader[x]
    BY <1>3, <1>6
  <2> QED
    BY <1>1, <1>2, <1>6, <2>1
<1>7. ASSUME NEW r \in Reader, ReadStep(r)
      PROVE  \A x \in Reader : reader'[x].at <= now'
  <2>1. reader[r] \in Session
    BY <1>2
  <2>2. CASE BeginMark(r)
    <3> DEFINE new == [reader[r] EXCEPT !.pc = "marking", !.at = now]
    <3>1. reader' = [reader EXCEPT ![r] = new] /\ new.at = now
      BY <1>3, <2>1, <2>2 DEF BeginMark, Session
    <3> HIDE DEF new
    <3> QED
      BY <1>1, <1>6, <3>1
  <2>3. CASE MarkItem(r)
    <3>1. PICK left : reader' = [reader EXCEPT ![r].left = left,
                                               ![r].pc = IF left = {} THEN "answer" ELSE @]
      BY <2>3 DEF MarkItem
    <3> DEFINE new == [reader[r] EXCEPT !.left = left,
                                        !.pc = IF left = {} THEN "answer" ELSE @]
    <3>2. reader' = [reader EXCEPT ![r] = new] /\ new.at = reader[r].at
      BY <1>3, <2>1, <3>1 DEF Session
    <3> HIDE DEF new
    <3> QED
      BY <1>2, <1>6, <3>2
  <2>4. CASE MarkRows(r)
    <3> DEFINE new == [reader[r] EXCEPT !.pc = "answer", !.left = {}]
    <3>1. reader' \in {[reader EXCEPT ![r] = Free], [reader EXCEPT ![r] = new]}
      BY <2>4 DEF MarkRows
    <3>2. new.at = reader[r].at
      BY <2>1 DEF Session
    <3> HIDE DEF new
    <3> QED
      BY <1>1, <1>2, <1>5, <1>6, <3>1, <3>2
  <2>5. CASE AnswerRead(r)
    <3>1. reader' = [reader EXCEPT ![r] = Free]
      BY <2>5 DEF AnswerRead
    <3> QED
      BY <1>1, <1>5, <1>6, <3>1
  <2> QED
    BY <1>7, <2>2, <2>3, <2>4, <2>5 DEF ReadStep
<1>8. ASSUME NEW r \in Reader, NEW t, Select(r, t)
      PROVE  \A x \in Reader : reader'[x].at <= now'
  <2>1. PICK new : reader' = [reader EXCEPT ![r] = new] /\ new.at = 0
    <3>1. PICK page \in SUBSET Stored :
            reader' = [reader EXCEPT ![r] =
              [pc |-> IF page = {} THEN "answer" ELSE "selected",
               seen |-> [m \in page |-> Row(m).count], left |-> page, at |-> 0]]
      BY <1>8 DEF Select
    <3> DEFINE new == [pc |-> IF page = {} THEN "answer" ELSE "selected",
                       seen |-> [m \in page |-> Row(m).count], left |-> page, at |-> 0]
    <3>2. reader' = [reader EXCEPT ![r] = new] /\ new.at = 0
      BY <3>1
    <3> HIDE DEF new
    <3> QED
      BY <3>2
  <2> QED
    BY <1>1, <1>6, <2>1
<1>9. ASSUME NEW m \in Memory, Ingest(m)
      PROVE  reader' = reader
  BY <1>9 DEF Ingest, readVars
<1>10. Tick => reader' = reader
  BY DEF Tick, readVars
<1>11. ASSUME NEW j \in Job,
              \/ Schedule(j)
              \/ \E t \in ToSet(Tenants) : Queue(j, t)
              \/ JobStep(j) \/ LlmStep(j) \/ LlmReturns(j)
       PROVE  reader' = reader
  BY <1>11, OtherFrame DEF readVars
<1>12. UNCHANGED vars => reader' = reader
  BY DEF vars
<1> QED
  BY <1>4, <1>7, <1>8, <1>9, <1>10, <1>11, <1>12 DEF Next

-----------------------------------------------------------------------------
(* The invariant of the whole system.                                      *)
SystemInv == MemoryInv /\ TimesOK /\ JobsInv

(* The invariant of the system holds in the initial states, ...            *)
LEMMA SystemStart ==
  ASSUME MemoryAssumption, Init
  PROVE  SystemInv
<1>1. MemoryInv
  BY InitOK
<1>2. TimesOK
  BY DEF Init, TimesOK, Free
<1>3. job = [j \in Job |-> Idle] /\ graph = {}
  BY DEF Init
<1>4. JobOK(Idle, Stored, graph) /\ Idle \in Records
  BY IdleOK DEF JobOK
<1>5. JobsOK
  BY <1>3, <1>4 DEF JobsOK
<1>6. GraphOK
  BY <1>3 DEF GraphOK
<1> QED
  BY <1>1, <1>2, <1>5, <1>6 DEF SystemInv, JobsInv

(* ... and every step keeps it.                                            *)
LEMMA SystemStep ==
  ASSUME MemoryAssumption, SystemInv, [Next]_vars
  PROVE  SystemInv'
<1>1. MemoryInv /\ TimesOK /\ JobsInv
  BY DEF SystemInv
<1>2. MemoryInv' /\ TimesOK'
  BY <1>1, MemoryStep, TimesStep
<1>3. Stored \subseteq Stored'
  <2>1. \A i \in DOMAIN rows : i \in DOMAIN rows' /\ rows'[i].id = rows[i].id
    BY <1>1, RowsStep
  <2> SUFFICES ASSUME NEW i \in DOMAIN rows PROVE rows[i].id \in Stored'
    BY DEF Stored
  <2>2. i \in DOMAIN rows' /\ rows'[i].id = rows[i].id
    BY <2>1
  <2> QED
    BY <2>2 DEF Stored
<1>4. ASSUME UNCHANGED <<graph, job>> PROVE JobsInv'
  BY <1>1, <1>3, <1>4, JobsGrow
<1>5. ASSUME NEW m \in Memory, Ingest(m)
      PROVE  JobsInv'
  BY <1>4, <1>5 DEF Ingest, jobVars
<1>6. ASSUME NEW r \in Reader, ReadStep(r) \/ \E t \in ToSet(Tenants) : Select(r, t)
      PROVE  JobsInv'
  <2>1. UNCHANGED <<graph, job>>
    BY <1>6 DEF ReadStep, BeginMark, MarkItem, MarkRows, AnswerRead, Select, jobVars
  <2> QED
    BY <1>4, <2>1
<1>7. ASSUME Tick PROVE JobsInv'
  BY <1>4, <1>7 DEF Tick, jobVars
<1>8. ASSUME NEW j \in Job,
             \/ Schedule(j)
             \/ \E t \in ToSet(Tenants) : Queue(j, t)
             \/ JobStep(j) \/ LlmStep(j) \/ LlmReturns(j)
      PROVE  JobsInv'
  BY <1>1, <1>8, StartOK, FetchOK, SearchesOK, LabelsStepOK, UpsertOK, EndsOK DEF JobStep
<1>9. ASSUME UNCHANGED vars PROVE JobsInv'
  BY <1>4, <1>9 DEF vars
<1>10. JobsInv'
  BY <1>5, <1>6, <1>7, <1>8, <1>9 DEF Next
<1> QED
  BY <1>2, <1>10 DEF SystemInv

(* Memories, reads and jobs are what they should be, for every set of      *)
(* them, every lifetime, number of attempts and size of a core.            *)
THEOREM SystemInvHolds == Spec => []SystemInv
<1>1. Init => SystemInv
  BY MemoryAssumption, SystemStart
<1>2. SystemInv /\ [Next]_vars => SystemInv'
  BY MemoryAssumption, SystemStep
<1> QED
  BY <1>1, <1>2, PTL DEF Spec

(* Rows are distinct and were asked for; a read marks what it has seen;    *)
(* jobs write what their clusters give.                                    *)
THEOREM TypeCorrect == Spec => []TypeOK
<1>1. SystemInv => TypeOK
  <2> SUFFICES ASSUME SystemInv PROVE TypeOK
    OBVIOUS
  <2>1. MemoryInv /\ TimesOK /\ JobsOK
    BY DEF SystemInv, JobsInv
  <2>2. now \in Nat /\ \A i, k \in DOMAIN rows : rows[i].id = rows[k].id => i = k
    BY <2>1 DEF MemoryInv, RowsOK
  <2>3. ASSUME NEW i \in DOMAIN rows
        PROVE  rows[i] \in [id : created, count : Nat, last : 0..now]
    <3>1. rows[i] \in [id : Memory, count : Nat, last : Nat]
      BY <2>1, RowType DEF MemoryInv
    <3>2. rows[i].id \in created /\ rows[i].last <= now
      BY <2>1 DEF TimesOK
    <3> QED
      BY <2>2, <3>1, <3>2
  <2>4. ASSUME NEW r \in Reader
        PROVE  /\ reader[r].pc \in {"free", "selected", "marking", "answer"}
               /\ reader[r].left \subseteq DOMAIN reader[r].seen
               /\ DOMAIN reader[r].seen \subseteq Stored
    BY <2>1, ReaderType DEF MemoryInv, ReaderOK
  <2>5. ASSUME NEW j \in Job
        PROVE  /\ job[j].pc \in
                    {"idle", "fetch", "measure", "search", "label", "asked", "leaving", "write"}
               /\ job[j].failures \in 0..(Attempts - 1)
               /\ job[j].pc = "write" <=> job[j].upserts # <<>>
    <3>1. JobOK(job[j], Stored, graph) /\ job[j] \in Records
      BY <2>1 DEF JobsOK
    <3> QED
      BY <3>1, RecordIs DEF JobOK, Stages, Late
  <2> QED
    BY <2>2, <2>3, <2>4, <2>5 DEF TypeOK
<1> QED
  BY <1>1, SystemInvHolds, PTL

(* The clusters of a cycle are those that density-based clustering         *)
(* defines, with two samples to a core as the sleep cycles have it.        *)
THEOREM ClustersHold ==
  ASSUME MinSamples = 2
  PROVE  Spec => []ClustersAreDense
<1>1. SystemInv => ClustersAreDense
  <2> SUFFICES ASSUME SystemInv, NEW j \in Job,
                      job[j].pc \notin {"idle", "fetch", "measure", "search"}
               PROVE  IsClustering(Embeddings(job[j].episodes), job[j].clusters)
    BY DEF ClustersAreDense
  <2>1. JobOK(job[j], Stored, graph)
    BY DEF SystemInv, JobsInv, JobsOK
  <2>2. job[j].pc \in Late
    BY <2>1, RecordIs DEF JobOK, Stages
  <2> QED
    BY <2>1, <2>2 DEF JobOK, ClustersOK
<1> QED
  BY <1>1, SystemInvHolds, PTL

(* Two similar memories of a snapshot are in a cluster together.           *)
LEMMA SimilarTogether ==
  ASSUME MemoryAssumption, MinSamples = 2, NEW x, NEW S, NEW g, JobOK(x, S, g), x.pc \in Late,
         NEW m \in ToSet(x.episodes), NEW n \in ToSet(x.episodes), Related(m, n)
  PROVE  \E q \in DOMAIN x.clusters : \E a, b \in DOMAIN x.clusters[q][2] :
           m = x.episodes[x.clusters[q][2][a]] /\ n = x.episodes[x.clusters[q][2][b]]
<1> DEFINE es == Embeddings(x.episodes)
           l == Len(x.episodes)
           core == {i \in DOMAIN es : IsCore(Near(es), i)}
<1>1. x.episodes \in Seq(Memory) /\ IsClustering(es, x.clusters)
  BY DEF JobOK, Records, ClustersOK
<1>2. /\ es \in Seq(Seq(Int)) /\ Len(es) = l /\ l \in Nat /\ DOMAIN es = 1..l
      /\ \A i \in 1..l : es[i] = Fact[x.episodes[i]].embedding
      /\ DOMAIN x.episodes = 1..l
  BY <1>1, EmbeddingsType DEF Embeddings
<1>3. PICK i \in 1..l : m = x.episodes[i]
  BY <1>2 DEF ToSet
<1>4. PICK k \in 1..l : n = x.episodes[k]
  BY <1>2 DEF ToSet
<1>5. i # k /\ Close(es[i], es[k])
  BY <1>2, <1>3, <1>4 DEF Related
<1> HIDE DEF es, l
<1>6. NeighboursOK(Near(es), l)
  BY <1>2, NearIs
<1>7. k \in Near(es)[i] /\ i \in Near(es)[k]
  <2>1. k \in Near(es)[i]
    BY <1>2, <1>5 DEF Near
  <2> QED
    BY <1>6, <2>1 DEF NeighboursOK
<1>8. IsCore(Near(es), i) /\ IsCore(Near(es), k)
  BY <1>5, <1>6, <1>7, CoreIs
<1>9. i \in core /\ k \in core
  BY <1>2, <1>8
<1>10. PICK q \in DOMAIN x.clusters : {i, k} \subseteq ToSet(x.clusters[q][2])
  <2>1. \A p, r \in core : Close(es[p], es[r]) =>
          \E q \in DOMAIN x.clusters : {p, r} \subseteq ToSet(x.clusters[q][2])
    BY <1>1 DEF IsClustering
  <2> HIDE DEF core
  <2> QED
    BY <1>5, <1>9, <2>1
<1>11. PICK a \in DOMAIN x.clusters[q][2] : i = x.clusters[q][2][a]
  BY <1>10 DEF ToSet
<1>12. PICK b \in DOMAIN x.clusters[q][2] : k = x.clusters[q][2][b]
  BY <1>10 DEF ToSet
<1> QED
  BY <1>3, <1>4, <1>11, <1>12

(* The graph tells of similar memories only, each of them stored and of    *)
(* one tenant; and when a cycle that had no call given up is complete, any *)
(* two similar memories of its snapshot share a concept, and their roles   *)
(* lead to it.                                                             *)
THEOREM GraphHolds ==
  ASSUME MinSamples = 2
  PROVE  Spec => []GraphIsEarned
<1>1. SystemInv => GraphIsEarned
  <2> SUFFICES ASSUME SystemInv PROVE GraphIsEarned
    OBVIOUS
  <2>1. \A edge \in graph : Earned(edge, Stored)
    BY DEF SystemInv, JobsInv, GraphOK
  <2>2. ASSUME NEW j \in Job, job[j].pc = "label", job[j].k > Len(job[j].clusters),
               ~job[j].missed, NEW m \in ToSet(job[j].episodes),
               NEW n \in ToSet(job[j].episodes), Related(m, n)
        PROVE  \E edge \in graph :
                 /\ edge[2] = "SUMMARIZES_EXPERIENCE" /\ edge[3] = Fact[m].summary
                 /\ <<edge[1], edge[2], Fact[n].summary>> \in graph
                 /\ <<Fact[m].role, "DISCOVERED_CONCEPT", edge[1]>> \in graph
                 /\ <<Fact[n].role, "DISCOVERED_CONCEPT", edge[1]>> \in graph
    <3> DEFINE x == job[j]
    <3>1. JobOK(x, Stored, graph) /\ x.pc \in Late /\ x \in Records
      BY <2>2 DEF SystemInv, JobsInv, JobsOK, Late
    <3>2. PICK q \in DOMAIN x.clusters : \E a, b \in DOMAIN x.clusters[q][2] :
            m = x.episodes[x.clusters[q][2][a]] /\ n = x.episodes[x.clusters[q][2][b]]
      BY <2>2, <3>1, MemoryAssumption, SimilarTogether
    <3>3. q < x.k
      <4>1. x.clusters \in Seq(Nat \X Seq(Nat)) /\ x.k \in Nat
        BY <3>1, RecordIs
      <4> QED
        BY <2>2, <4>1
    <3>4. PICK concept : Edges(x, q, concept) \subseteq graph
      BY <2>2, <3>1, <3>3 DEF JobOK, WrittenOK
    <3> HIDE DEF x
    <3>5. \A v \in {m, n} : <<concept, "SUMMARIZES_EXPERIENCE", Fact[v].summary>> \in graph
                            /\ <<Fact[v].role, "DISCOVERED_CONCEPT", concept>> \in graph
      BY <3>2, <3>4 DEF Edges
    <3> DEFINE edge == <<concept, "SUMMARIZES_EXPERIENCE", Fact[m].summary>>
    <3>6. edge \in graph /\ edge[1] = concept /\ edge[2] = "SUMMARIZES_EXPERIENCE"
          /\ edge[3] = Fact[m].summary
      BY <3>5
    <3> HIDE DEF edge
    <3> QED
      BY <3>5, <3>6
  <2> QED
    BY <2>1, <2>2 DEF GraphIsEarned, Earned
<1> QED
  BY <1>1, SystemInvHolds, PTL
=============================================================================
