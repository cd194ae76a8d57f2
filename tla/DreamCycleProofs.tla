-------------------------- MODULE DreamCycleProofs --------------------------
(***************************************************************************)
(* Proofs about DreamCycle, for any memories, texts and limits, any number *)
(* of Dream Cycles and any number of faults.                               *)
(*                                                                         *)
(* The lists of a cycle are old when it acts on them.  What makes that     *)
(* harmless is that rows keep their order and their texts, wherever a new  *)
(* one goes: duplicates stay duplicates (CycleSound).  `Overlaps' is not   *)
(* transitive, but `older' is, and a chain of duplicates that ended in a   *)
(* memory that is dropped goes on from there (ChainStays).                 *)
(***************************************************************************)
EXTENDS DreamCycle, TLAPS

\* x has a row before that of y.
Earlier(x, y) == \E j, k \in DOMAIN created : j < k /\ created[j] = x /\ created[k] = y

TypeInv ==
    /\ created \in Seq(Ids)
    /\ active \subseteq Stored
    /\ text \in [Ids -> Texts]
    /\ age \in [Ids -> 0..2]
    /\ raised \subseteq Memories
    /\ dream \in [Dreamers -> Cycles]
    /\ ran \subseteq Manual
    /\ faults \in 0..MaxFaults
    /\ why \in [Ids -> [by : Reasons, into : Ids \cup {None}]]
    /\ botched \subseteq Snapshots

OneRow == \A j, k \in DOMAIN created : created[j] = created[k] => j = k

Represented ==
    \A y \in Stored : why[y].by = "dedup" =>
        /\ \E w \in Stored : why[y].into = w /\ Earlier(w, y) /\ Overlaps(w, y)
        /\ \E x \in Stored : why[x].by # "dedup" /\ Earlier(x, y) /\ ChainLeads(y, x)

\* What a cycle holds is true of the rows, however old its lists are.
CycleSound(c) ==
    /\ c.phase = "contradiction" => c.todo \subseteq Memories \X Memories
    /\ c.phase = "dedup" => \A d \in c.todo : Earlier(d[1], d[2]) /\ Overlaps(d[1], d[2])
    /\ c.snap = None => c.list = {}
    /\ c.snap # None => c.phase = "snapshot" /\ c.snap \notin Stored
    /\ \A x \in c.list : x \in Stored /\ text[x].head \subseteq Whole(c.draft)

DreamInv ==
    /\ TypeInv
    /\ OneRow
    /\ \A x \in Ids \ Stored : why[x] = NoReason
    /\ \A x \in active : why[x] = NoReason
    /\ \A x \in Ids : why[x].by = "snapshot" => why[x].into # None
    /\ Represented
    /\ SnapshotKeepsHeads
    /\ \A p \in Dreamers : CycleSound(dream[p])
    /\ \A p, q \in Dreamers : p # q /\ dream[p].snap # None => dream[p].snap # dream[q].snap

-----------------------------------------------------------------------------
(* Rows *)

\* A row is found where it is.
LEMMA AtFacts ==
    ASSUME NEW x \in Stored
    PROVE  At(x) \in DOMAIN created /\ created[At(x)] = x
BY DEF At, Stored

\* With one row for every id, the older one is the one whose row is earlier.
LEMMA OlderIsEarlier ==
    ASSUME OneRow, created \in Seq(Ids), NEW x \in Stored, NEW y \in Stored
    PROVE  Older(x, y) <=> Earlier(x, y)
<1>1. At(x) \in DOMAIN created /\ created[At(x)] = x /\ At(y) \in DOMAIN created /\ created[At(y)] = y
  BY AtFacts
<1>2. \A j \in DOMAIN created : (created[j] = x => j = At(x)) /\ (created[j] = y => j = At(y))
  BY <1>1 DEF OneRow
<1> QED
  BY <1>1, <1>2 DEF Older, Earlier

LEMMA EarlierFacts ==
    ASSUME created \in Seq(Ids), NEW x, NEW y, Earlier(x, y)
    PROVE  x \in Stored /\ y \in Stored /\ x \in Ids /\ y \in Ids /\ (OneRow => x # y)
<1>1. PICK j \in DOMAIN created, k \in DOMAIN created : j < k /\ created[j] = x /\ created[k] = y
  BY DEF Earlier
<1>2. j \in Nat /\ k \in Nat /\ created[j] \in Ids /\ created[k] \in Ids
  BY <1>1
<1> QED
  BY <1>1, <1>2 DEF Stored, OneRow

LEMMA EarlierTransitive ==
    ASSUME created \in Seq(Ids), OneRow, NEW x, NEW y, NEW z, Earlier(x, y), Earlier(y, z)
    PROVE  Earlier(x, z)
<1>1. PICK j \in DOMAIN created, k \in DOMAIN created : j < k /\ created[j] = x /\ created[k] = y
  BY DEF Earlier
<1>2. PICK l \in DOMAIN created, m \in DOMAIN created : l < m /\ created[l] = y /\ created[m] = z
  BY DEF Earlier
<1>3. k = l
  BY <1>1, <1>2 DEF OneRow
<1>4. j \in Nat /\ k \in Nat /\ m \in Nat
  BY <1>1, <1>2
<1>5. j < m
  BY <1>1, <1>2, <1>3, <1>4
<1> QED
  BY <1>1, <1>2, <1>5 DEF Earlier

\* A row more leaves the others where they are.
LEMMA InsertFacts ==
    ASSUME TypeInv, OneRow, NEW m \in Ids, m \notin Stored, NEW n \in 0..Len(created), created' = Inserted(m, n)
    PROVE  /\ created' \in Seq(Ids) /\ Stored' = Stored \cup {m} /\ OneRow'
           /\ \A x, y : Earlier(x, y) => Earlier(x, y)'
<1>1. created \in Seq(Ids) /\ Len(created) \in Nat /\ DOMAIN created = 1..Len(created)
  BY DEF TypeInv
<1> DEFINE moved(j) == IF j <= n THEN j ELSE j + 1
<1>2. /\ created' \in Seq(Ids) /\ Len(created') = Len(created) + 1 /\ DOMAIN created' = 1..(Len(created) + 1)
      /\ \A j \in DOMAIN created : created'[moved(j)] = created[j] /\ moved(j) \in DOMAIN created'
      /\ created'[n + 1] = m /\ n + 1 \in DOMAIN created'
  BY <1>1 DEF Inserted
<1>3. \A j \in DOMAIN created' : j = n + 1 \/ \E i \in DOMAIN created : j = moved(i)
  <2>1. ASSUME NEW j \in DOMAIN created', j # n + 1
        PROVE  \E i \in DOMAIN created : j = moved(i)
    <3>1. CASE j <= n
      <4>1. j \in DOMAIN created /\ j = moved(j)
        BY <1>1, <1>2, <2>1, <3>1
      <4> QED
        BY <4>1
    <3>2. CASE ~(j <= n)
      <4>1. j - 1 \in DOMAIN created /\ j = moved(j - 1)
        BY <1>1, <1>2, <2>1, <3>2
      <4> QED
        BY <4>1
    <3> QED
      BY <3>1, <3>2
  <2> QED
    BY <2>1
<1>4. \A i, j \in DOMAIN created : i < j => moved(i) < moved(j)
  BY <1>1
<1> HIDE DEF moved
<1>5. Stored' = Stored \cup {m}
  BY <1>2, <1>3 DEF Stored
<1>6. \A j \in DOMAIN created : created[j] # m
  BY DEF Stored
<1>7. OneRow'
  <2>1. ASSUME NEW i \in DOMAIN created', NEW j \in DOMAIN created', created'[i] = created'[j]
        PROVE  i = j
    <3>1. CASE i = n + 1
      BY <1>2, <1>3, <1>6, <2>1, <3>1
    <3>2. CASE j = n + 1
      BY <1>2, <1>3, <1>6, <2>1, <3>2
    <3>3. CASE i # n + 1 /\ j # n + 1
      <4>1. PICK g \in DOMAIN created, h \in DOMAIN created : i = moved(g) /\ j = moved(h)
        BY <1>3, <2>1, <3>3
      <4>2. g = h
        BY <1>2, <2>1, <4>1 DEF OneRow
      <4> QED
        BY <4>1, <4>2
    <3> QED
      BY <3>1, <3>2, <3>3
  <2> QED
    BY <2>1 DEF OneRow
<1>8. ASSUME NEW x, NEW y, Earlier(x, y)
      PROVE  Earlier(x, y)'
  <2>1. PICK i \in DOMAIN created, j \in DOMAIN created : i < j /\ created[i] = x /\ created[j] = y
    BY <1>8 DEF Earlier
  <2>2. /\ moved(i) \in DOMAIN created' /\ moved(j) \in DOMAIN created' /\ moved(i) < moved(j)
        /\ created'[moved(i)] = x /\ created'[moved(j)] = y
    BY <1>2, <1>4, <2>1
  <2> QED
    BY <2>2 DEF Earlier
<1> QED
  BY <1>2, <1>5, <1>7, <1>8

-----------------------------------------------------------------------------
(* The invariant *)

LEMMA AsleepFacts ==
    ASSUME NEW ph \in Phases
    PROVE  /\ InPhase(ph) \in Cycles /\ InPhase(ph).phase = ph /\ InPhase(ph).todo = {}
           /\ InPhase(ph).snap = None /\ InPhase(ph).list = {} /\ CycleSound(InPhase(ph))
           /\ Asleep \in Cycles /\ Asleep.snap = None /\ Asleep.todo = {} /\ Asleep.list = {} /\ CycleSound(Asleep)
BY LimitAssumption DEF InPhase, Asleep, Cycles, Phases, NoText, Texts, CycleSound

\* Nothing is stored and every cycle sleeps.
LEMMA InitInv == Init => DreamInv
<1> SUFFICES ASSUME Init
             PROVE  DreamInv
  OBVIOUS
<1>1. Stored = {} /\ DOMAIN created = {}
  BY DEF Init, Stored
<1>2. TypeInv
  <2>1. dream \in [Dreamers -> Cycles]
    BY AsleepFacts DEF Init, Phases
  <2>2. NoText \in Texts /\ NoReason \in [by : Reasons, into : Ids \cup {None}]
    BY DEF NoText, Texts, NoReason, Reasons
  <2>3. faults \in 0..MaxFaults /\ created \in Seq(Ids)
    BY LimitAssumption DEF Init
  <2> QED
    BY <1>1, <2>1, <2>2, <2>3 DEF Init, TypeInv
<1>3. \A p \in Dreamers : CycleSound(dream[p]) /\ dream[p].snap = None
  BY AsleepFacts DEF Init, Phases
<1>4. \A x \in Ids : why[x] = NoReason /\ why[x].by = ""
  BY DEF Init, NoReason
<1>5. active = {}
  BY DEF Init
<1> QED
  BY <1>1, <1>2, <1>3, <1>4, <1>5 DEF DreamInv, OneRow, Represented, SnapshotKeepsHeads

\* What Dropped does to the history: it notes a reason where there was none.
LEMMA DroppedFacts ==
    ASSUME TypeInv, \A x \in active : why[x] = NoReason,
           NEW S, NEW by \in Reasons, NEW into \in Ids \cup {None}, Dropped(S, by, into)
    PROVE  /\ active' \subseteq active
           /\ why' \in [Ids -> [by : Reasons, into : Ids \cup {None}]]
           /\ \A x \in Ids : x \in S \cap active => x \in Stored /\ why'[x].by = by /\ why'[x].into = into
           /\ \A x \in Ids : x \notin S \cap active => why'[x] = why[x]
           /\ \A x \in active' : why'[x] = NoReason
           /\ \A x \in Ids : why[x].by = "dedup" => why'[x] = why[x]
<1>1. active \subseteq Ids
  BY DEF TypeInv, Stored
<1>2. /\ active' \subseteq active
      /\ why' \in [Ids -> [by : Reasons, into : Ids \cup {None}]]
      /\ \A x \in Ids : x \in S \cap active => x \in Stored /\ why'[x].by = by /\ why'[x].into = into
      /\ \A x \in Ids : x \notin S \cap active => why'[x] = why[x]
  BY DEF Dropped, TypeInv
<1>3. \A x \in active' : x \notin S \cap active /\ x \in Ids /\ x \in active
  BY <1>1 DEF Dropped
<1>4. NoReason.by # "dedup"
  BY DEF NoReason
<1> QED
  BY <1>1, <1>2, <1>3, <1>4

\* Reasons that are added leave the chains of duplicates as they are.
LEMMA ChainStays ==
    ASSUME \A z \in Ids : why[z].by = "dedup" => why'[z] = why[z], NEW x, NEW y, ChainLeads(y, x)
    PROVE  ChainLeads(y, x)'
<1> SUFFICES ASSUME NEW S \in SUBSET Ids, y \in S, \A z \in S : why'[z].by = "dedup" => why'[z].into \in S
             PROVE  x \in S
  BY DEF ChainLeads
<1>1. \A z \in S : why[z].by = "dedup" => why[z].into \in S
  OBVIOUS
<1> QED
  BY <1>1 DEF ChainLeads

\* A step that leaves rows and texts where they are, and lets a cycle that is at
\* no snapshot go on, keeps the invariant as long as what it drops is not dropped
\* for a snapshot, and has its representative if it is dropped as a duplicate.
LEMMA RowsStay ==
    ASSUME DreamInv, UNCHANGED <<created, text, botched>>,
           active' \subseteq active, age' \in [Ids -> 0..2], raised' \subseteq Memories,
           ran' \subseteq Manual, faults' \in 0..MaxFaults,
           why' \in [Ids -> [by : Reasons, into : Ids \cup {None}]],
           \A x \in Ids : why'[x] = why[x] \/ (x \in Stored /\ why'[x].by # "snapshot"),
           \A x \in active' : why'[x] = NoReason,
           \A x \in Ids : why[x].by = "dedup" => why'[x] = why[x],
           Represented' \/ \A x \in Ids : why'[x] = why[x] \/ why'[x].by # "dedup",
           \/ UNCHANGED dream
           \/ \E p \in Dreamers : \E c \in Cycles :
                /\ dream' = [dream EXCEPT ![p] = c]
                /\ CycleSound(c)
                /\ dream[p].snap = None
                /\ c.snap # None => \A q \in Dreamers : c.snap # dream[q].snap
    PROVE  DreamInv'
<1>0. TypeInv /\ OneRow /\ Represented /\ SnapshotKeepsHeads
  BY DEF DreamInv
<1>1. /\ dream' \in [Dreamers -> Cycles]
      /\ \A p \in Dreamers : CycleSound(dream'[p])
      /\ \A p \in Dreamers : dream[p].snap # None => dream'[p] = dream[p]
      /\ \A p, q \in Dreamers : p # q /\ dream'[p].snap # None => dream'[p].snap # dream'[q].snap
  <2>1. CASE UNCHANGED dream
    BY <2>1 DEF DreamInv, TypeInv
  <2>2. ASSUME NEW p \in Dreamers, NEW c \in Cycles,
               dream' = [dream EXCEPT ![p] = c], CycleSound(c), dream[p].snap = None,
               c.snap # None => \A q \in Dreamers : c.snap # dream[q].snap
        PROVE  <1>1!1 /\ <1>1!2 /\ <1>1!3 /\ <1>1!4
    <3>1. dream \in [Dreamers -> Cycles] /\ dream'[p] = c /\ \A q \in Dreamers : q # p => dream'[q] = dream[q]
      BY <2>2, <1>0 DEF TypeInv
    <3>2. \A q \in Dreamers : CycleSound(dream[q])
      BY DEF DreamInv
    <3>3. \A q, r \in Dreamers : q # r /\ dream[q].snap # None => dream[q].snap # dream[r].snap
      BY DEF DreamInv
    <3>4. dream' \in [Dreamers -> Cycles]
      BY <2>2, <3>1
    <3>5. \A q \in Dreamers : CycleSound(dream'[q])
      BY <2>2, <3>1, <3>2
    <3>6. \A q \in Dreamers : dream[q].snap # None => dream'[q] = dream[q]
      BY <2>2, <3>1
    <3>7. \A q, r \in Dreamers : q # r /\ dream'[q].snap # None => dream'[q].snap # dream'[r].snap
      BY <2>2, <3>1, <3>3
    <3> QED
      BY <3>4, <3>5, <3>6, <3>7
  <2> QED
    BY <2>1, <2>2
<1>2. Stored' = Stored
  BY DEF Stored
<1>3. TypeInv'
  BY <1>0, <1>1, <1>2 DEF TypeInv
<1>4. OneRow' /\ (\A x \in Ids \ Stored' : why'[x] = NoReason) /\ \A x \in active' : why'[x] = NoReason
  BY <1>0, <1>2 DEF DreamInv, OneRow
<1>a. \A x \in Ids : why'[x].by = "snapshot" => why'[x].into # None
  BY DEF DreamInv
<1>5. \A x, y : (Earlier(x, y)' <=> Earlier(x, y)) /\ (Overlaps(x, y)' <=> Overlaps(x, y))
  BY DEF Earlier, Overlaps
<1>6. Stored \subseteq Ids
  BY <1>0 DEF TypeInv, Stored
<1>7. Represented'
  <2> SUFFICES ASSUME \A x \in Ids : why'[x] = why[x] \/ why'[x].by # "dedup"
               PROVE  Represented'
    OBVIOUS
  <2>1. \A y \in Stored : why'[y].by = "dedup" => why[y].by = "dedup" /\ why'[y] = why[y]
    BY <1>6
  <2>2. \A x \in Stored : why[x].by # "dedup" => why'[x].by # "dedup"
    BY <1>6
  <2>3. \A x, y : ChainLeads(y, x) => ChainLeads(y, x)'
    BY ChainStays
  <2>4. ASSUME NEW y \in Stored', why'[y].by = "dedup"
        PROVE  /\ \E w \in Stored' : why'[y].into = w /\ Earlier(w, y)' /\ Overlaps(w, y)'
               /\ \E x \in Stored' : why'[x].by # "dedup" /\ Earlier(x, y)' /\ ChainLeads(y, x)'
    <3>1. y \in Stored /\ why[y].by = "dedup" /\ why'[y] = why[y]
      BY <1>2, <2>1, <2>4
    <3>2. \E w \in Stored : why[y].into = w /\ Earlier(w, y) /\ Overlaps(w, y)
      BY <1>0, <3>1 DEF Represented
    <3>3. PICK x \in Stored : why[x].by # "dedup" /\ Earlier(x, y) /\ ChainLeads(y, x)
      BY <1>0, <3>1 DEF Represented
    <3>4. \E w \in Stored' : why'[y].into = w /\ Earlier(w, y)' /\ Overlaps(w, y)'
      BY <1>2, <1>5, <3>1, <3>2
    <3>5. x \in Stored' /\ why'[x].by # "dedup" /\ Earlier(x, y)' /\ ChainLeads(y, x)'
      BY <1>2, <1>5, <2>2, <2>3, <3>3
    <3> QED
      BY <3>4, <3>5
  <2> QED
    BY <2>4 DEF Represented
<1>8. SnapshotKeepsHeads'
  <2> SUFFICES ASSUME NEW x \in Stored', why'[x].by = "snapshot"
               PROVE  \/ why'[x].into \in botched'
                      \/ why'[x].into \in Stored' /\ text'[x].head \subseteq Whole(text'[why'[x].into])
                      \/ \E p \in Dreamers : dream'[p].snap = why'[x].into /\ text'[x].head \subseteq Whole(dream'[p].draft)
    BY DEF SnapshotKeepsHeads, Whole
  <2>1. x \in Stored /\ why'[x] = why[x] /\ why[x].into # None
    BY <1>2, <1>6 DEF DreamInv
  <2>2. CASE why[x].into \in botched \/ (why[x].into \in Stored /\ text[x].head \subseteq Whole(text[why[x].into]))
    BY <1>2, <2>1, <2>2
  <2>3. ASSUME NEW p \in Dreamers, dream[p].snap = why[x].into, text[x].head \subseteq Whole(dream[p].draft)
        PROVE  \E q \in Dreamers : dream'[q].snap = why'[x].into /\ text'[x].head \subseteq Whole(dream'[q].draft)
    BY <1>1, <2>1, <2>3
  <2> QED
    BY <1>0, <2>1, <2>2, <2>3 DEF SnapshotKeepsHeads
<1>9. \A p \in Dreamers : CycleSound(dream[p])'
  BY <1>1, <1>2, <1>5 DEF CycleSound
<1> QED
  BY <1>1, <1>3, <1>4, <1>a, <1>7, <1>8, <1>9 DEF DreamInv

\* What a cycle goes on to after a pair.
LEMMA AfterFacts ==
    ASSUME NEW next \in Phases, NEW p \in Dreamers, dream[p] \in Cycles, CycleSound(dream[p]),
           NEW todo \in SUBSET dream[p].todo, NEW left \in Nat, dream[p].phase # "snapshot"
    PROVE  LET c == After(next, dream[p], todo, left)
           IN  c \in Cycles /\ CycleSound(c) /\ c.snap = None
<1> DEFINE c == [dream[p] EXCEPT !.todo = todo, !.left = left]
<1>1. dream[p].snap = None /\ dream[p].list = {}
  BY DEF CycleSound
<1>2. c \in Cycles /\ c.todo = todo /\ c.snap = None /\ c.list = {} /\ c.phase = dream[p].phase
  BY <1>1 DEF Cycles
<1>3. CycleSound(c)
  BY <1>2 DEF CycleSound
<1>4. InPhase(next) \in Cycles /\ CycleSound(InPhase(next)) /\ InPhase(next).snap = None
  BY AsleepFacts
<1>5. After(next, dream[p], todo, left) \in {c, InPhase(next)}
  BY DEF After
<1> HIDE DEF c
<1> QED
  BY <1>2, <1>3, <1>4, <1>5

\* Forgetting, ageing, eviction, contradictions and a snapshot that does not begin.
LEMMA QuietInv ==
    ASSUME DreamInv,
           \/ \E x \in Ids : Forget(x) \/ GrowOld(x)
           \/ \E p \in Dreamers : \/ Evict(p) \/ EvictFails(p) \/ SnapshotFails(p)
                                \/ ListContradictions(p) \/ Contradiction(p) \/ ContradictionFails(p)
    PROVE  DreamInv'
<1>0. /\ TypeInv /\ dream \in [Dreamers -> Cycles] /\ faults \in 0..MaxFaults /\ MaxFaults \in Nat
      /\ \A x \in Ids : age[x] \in 0..2
      /\ \A x \in active : why[x] = NoReason
  BY LimitAssumption DEF DreamInv, TypeInv
<1>1. ASSUME NEW x \in Ids, Forget(x)
      PROVE  DreamInv'
  <2>1. /\ active' \subseteq active /\ why' \in [Ids -> [by : Reasons, into : Ids \cup {None}]]
        /\ \A y \in Ids : why'[y] = why[y] \/ (y \in Stored /\ why'[y].by = "forget")
        /\ \A y \in active' : why'[y] = NoReason
        /\ \A y \in Ids : why[y].by = "dedup" => why'[y] = why[y]
    <3> DEFINE S == {x}
               into == None
    <3>1. /\ Dropped(S, "forget", into) /\ "forget" \in Reasons /\ into \in Ids \cup {None} /\ TypeInv
          /\ \A y \in active : why[y] = NoReason
      BY <1>0, <1>1 DEF Forget, Reasons
    <3> HIDE DEF S, into
    <3>2. active' \subseteq active /\ \A y \in active' : why'[y] = NoReason
      BY <3>1, DroppedFacts
    <3>3. why' \in [Ids -> [by : Reasons, into : Ids \cup {None}]]
      BY <3>1, DroppedFacts
    <3>4. \A y \in Ids : y \in S \cap active => y \in Stored /\ why'[y].by = "forget" /\ why'[y].into = into
      BY <3>1, DroppedFacts
    <3>5. \A y \in Ids : y \notin S \cap active => why'[y] = why[y]
      BY <3>1, DroppedFacts
    <3>6. \A y \in Ids : why[y].by = "dedup" => why'[y] = why[y]
      BY <3>1, DroppedFacts
    <3> QED
      BY <3>2, <3>3, <3>4, <3>5, <3>6
  <2> QED
    BY <1>0, <1>1, <2>1, RowsStay DEF Forget, TypeInv
<1>2. ASSUME NEW x \in Ids, GrowOld(x)
      PROVE  DreamInv'
  <2>1. age[x] + 1 \in 0..2
    BY <1>0, <1>2, AgingAssumption DEF GrowOld
  <2>2. age' \in [Ids -> 0..2]
    BY <1>0, <1>2, <2>1 DEF GrowOld, TypeInv
  <2> QED
    BY <1>0, <1>2, <2>2, RowsStay DEF GrowOld, TypeInv
\* Whatever a cycle goes on to, it holds nothing.
<1>3. ASSUME NEW p \in Dreamers, NEW ph \in Phases, dream' = [dream EXCEPT ![p] = InPhase(ph)], dream[p].phase # "snapshot"
      PROVE  \E q \in Dreamers : \E c \in Cycles :
                /\ dream' = [dream EXCEPT ![q] = c]
                /\ CycleSound(c)
                /\ dream[q].snap = None
                /\ c.snap # None => \A o \in Dreamers : c.snap # dream[o].snap
  <2>1. dream[p].snap = None
    BY <1>3 DEF DreamInv, CycleSound
  <2>2. InPhase(ph) \in Cycles /\ CycleSound(InPhase(ph)) /\ InPhase(ph).snap = None
    BY AsleepFacts
  <2> QED
    BY <1>3, <2>1, <2>2
<1>4. ASSUME NEW p \in Dreamers, Evict(p)
      PROVE  DreamInv'
  <2>1. /\ active' \subseteq active /\ why' \in [Ids -> [by : Reasons, into : Ids \cup {None}]]
        /\ \A y \in Ids : why'[y] = why[y] \/ (y \in Stored /\ why'[y].by = "evict")
        /\ \A y \in active' : why'[y] = NoReason
        /\ \A y \in Ids : why[y].by = "dedup" => why'[y] = why[y]
    <3> DEFINE S == Stale
               into == None
    <3>1. /\ Dropped(S, "evict", into) /\ "evict" \in Reasons /\ into \in Ids \cup {None} /\ TypeInv
          /\ \A y \in active : why[y] = NoReason
      BY <1>0, <1>4 DEF Evict, Reasons
    <3> HIDE DEF S, into
    <3>2. active' \subseteq active /\ \A y \in active' : why'[y] = NoReason
      BY <3>1, DroppedFacts
    <3>3. why' \in [Ids -> [by : Reasons, into : Ids \cup {None}]]
      BY <3>1, DroppedFacts
    <3>4. \A y \in Ids : y \in S \cap active => y \in Stored /\ why'[y].by = "evict" /\ why'[y].into = into
      BY <3>1, DroppedFacts
    <3>5. \A y \in Ids : y \notin S \cap active => why'[y] = why[y]
      BY <3>1, DroppedFacts
    <3>6. \A y \in Ids : why[y].by = "dedup" => why'[y] = why[y]
      BY <3>1, DroppedFacts
    <3> QED
      BY <3>2, <3>3, <3>4, <3>5, <3>6
  <2>2. ran' \subseteq Manual /\ dream[p].phase # "snapshot" /\ dream' = [dream EXCEPT ![p] = InPhase("contradiction")]
    BY <1>0, <1>4 DEF Evict, Wakes, TypeInv
  <2>3. "contradiction" \in Phases
    BY DEF Phases
  <2>4. UNCHANGED <<created, text, age, raised, faults, botched>>
    BY <1>4 DEF Evict
  <2> QED
    BY <1>0, <1>3, <2>1, <2>2, <2>3, <2>4, RowsStay DEF TypeInv
<1>5. ASSUME NEW p \in Dreamers, EvictFails(p)
      PROVE  DreamInv'
  <2>1. ran' \subseteq Manual /\ dream[p].phase # "snapshot" /\ dream' = [dream EXCEPT ![p] = InPhase("contradiction")]
    BY <1>0, <1>5 DEF EvictFails, Wakes, TypeInv
  <2>2. "contradiction" \in Phases /\ faults' \in 0..MaxFaults
    BY <1>0, <1>5 DEF Phases, EvictFails, Fault
  <2>3. UNCHANGED <<created, active, text, age, raised, why, botched>>
    BY <1>5 DEF EvictFails, rows
  <2> QED
    BY <1>0, <1>3, <2>1, <2>2, <2>3, RowsStay DEF TypeInv
\* A list of contradictions is read and acted on.
<1>6. ASSUME NEW p \in Dreamers, ListContradictions(p)
      PROVE  DreamInv'
  <2> DEFINE c == IF Contradictions = {} THEN InPhase("dedup")
                  ELSE [dream[p] EXCEPT !.todo = Contradictions, !.left = ContradictLimit]
  <2>1. /\ dream[p] \in Cycles /\ CycleSound(dream[p]) /\ dream[p].phase = "contradiction"
        /\ UNCHANGED <<created, active, text, age, raised, ran, faults, why, botched>>
        /\ dream' = [dream EXCEPT ![p] = c]
    BY <1>0, <1>6 DEF ListContradictions, DreamInv, rows
  <2>2. dream[p].snap = None /\ dream[p].list = {}
    BY <2>1 DEF CycleSound
  <2>3. c \in Cycles /\ CycleSound(c) /\ c.snap = None
    <3>1. InPhase("dedup") \in Cycles /\ CycleSound(InPhase("dedup")) /\ InPhase("dedup").snap = None
      BY AsleepFacts DEF Phases
    <3>2. Contradictions \subseteq Memories \X Memories /\ ContradictLimit \in Nat
      BY PairAssumption, LimitAssumption DEF Contradictions
    <3> DEFINE d == [dream[p] EXCEPT !.todo = Contradictions, !.left = ContradictLimit]
    <3>3. Contradictions \in SUBSET (Ids \X Ids)
      BY <3>2 DEF Ids
    <3>4. /\ d \in Cycles /\ d.snap = None /\ d.list = {} /\ d.todo = Contradictions
          /\ d.phase = "contradiction"
      <4> HIDE DEF Contradictions
      <4> QED
        BY <2>1, <2>2, <3>2, <3>3 DEF Cycles
    <3>5. CycleSound(d)
      BY <3>2, <3>4 DEF CycleSound
    <3> HIDE DEF d
    <3>6. c = InPhase("dedup") \/ c = d
      BY DEF d
    <3> QED
      BY <3>1, <3>4, <3>5, <3>6
  <2> HIDE DEF c
  <2> QED
    BY <1>0, <2>1, <2>2, <2>3, RowsStay DEF TypeInv
<1>8. ASSUME NEW p \in Dreamers, Contradiction(p)
      PROVE  DreamInv'
  <2>1. /\ dream[p] \in Cycles /\ CycleSound(dream[p]) /\ dream[p].phase = "contradiction"
        /\ UNCHANGED <<created, active, text, age, ran, why, botched>>
        /\ dream[p].left \in Nat /\ dream[p].left > 0
    BY <1>0, <1>8 DEF Contradiction, DreamInv, Cycles
  <2>2. dream[p].snap = None /\ dream[p].todo \subseteq Memories \X Memories
    BY <2>1 DEF CycleSound
  <2>3. PICK c \in dream[p].todo :
          \/ /\ raised' = raised \cup {c[1], c[2]}
             /\ dream' = [dream EXCEPT ![p] = After("dedup", dream[p], dream[p].todo \ {c}, dream[p].left - 1)]
             /\ UNCHANGED faults
          \/ /\ Fault
             /\ dream' = [dream EXCEPT ![p] = After("dedup", dream[p], dream[p].todo \ {c}, dream[p].left)]
             /\ UNCHANGED raised
    BY <1>0, <1>8 DEF Contradiction
  <2>4. ASSUME NEW left \in Nat
        PROVE  LET e == After("dedup", dream[p], dream[p].todo \ {c}, left)
               IN  e \in Cycles /\ CycleSound(e) /\ e.snap = None
    BY <2>1, <2>4, AfterFacts DEF Phases
  <2>5. raised' \subseteq Memories /\ faults' \in 0..MaxFaults
    BY <1>0, <2>2, <2>3 DEF Fault, TypeInv
  <2>6. \E e \in Cycles : dream' = [dream EXCEPT ![p] = e] /\ CycleSound(e) /\ e.snap = None
    <3>1. dream[p].left - 1 \in Nat
      BY <2>1
    <3> QED
      BY <2>1, <2>3, <2>4, <3>1
  <2> QED
    BY <1>0, <2>1, <2>2, <2>5, <2>6, RowsStay DEF TypeInv
<1>9. ASSUME NEW p \in Dreamers, SnapshotFails(p)
      PROVE  DreamInv'
  <2>1. dream[p].snap = None /\ dream' = [dream EXCEPT ![p] = Asleep]
        /\ UNCHANGED <<created, active, text, age, raised, ran, why, botched>>
    BY <1>9 DEF SnapshotFails, rows
  <2>2. Asleep \in Cycles /\ CycleSound(Asleep) /\ Asleep.snap = None
    BY AsleepFacts DEF Phases
  <2>3. faults' \in 0..MaxFaults
    BY <1>0, <1>9 DEF SnapshotFails, Fault
  <2> QED
    BY <1>0, <2>1, <2>2, <2>3, RowsStay DEF TypeInv
<1>7. ASSUME NEW p \in Dreamers, ContradictionFails(p)
      PROVE  DreamInv'
  <2>1. dream[p].phase # "snapshot" /\ dream' = [dream EXCEPT ![p] = InPhase("dedup")]
    BY <1>7 DEF ContradictionFails
  <2>2. "dedup" \in Phases /\ faults' \in 0..MaxFaults
    BY <1>0, <1>7 DEF Phases, ContradictionFails, Fault
  <2>3. UNCHANGED <<created, active, text, age, raised, ran, why, botched>>
    BY <1>7 DEF ContradictionFails, rows
  <2> QED
    BY <1>0, <1>3, <2>1, <2>2, <2>3, RowsStay DEF TypeInv
<1> QED
  BY <1>1, <1>2, <1>4, <1>5, <1>6, <1>7, <1>8, <1>9

\* A list is read when it is true.
LEMMA ListsInv ==
    ASSUME DreamInv, NEW p \in Dreamers, ListForDedup(p) \/ ListForSnapshot(p)
    PROVE  DreamInv'
<1>0. /\ TypeInv /\ OneRow /\ dream[p] \in Cycles /\ created \in Seq(Ids) /\ active \subseteq Stored
      /\ CycleSound(dream[p]) /\ Stored \subseteq Ids /\ text \in [Ids -> Texts]
      /\ \A x \in active : why[x] = NoReason
  BY DEF DreamInv, TypeInv, Stored
<1>1. ASSUME NEW c \in Cycles, dream' = [dream EXCEPT ![p] = c], CycleSound(c), dream[p].snap = None,
             c.snap # None => \A q \in Dreamers : c.snap # dream[q].snap,
             UNCHANGED <<rows, ran, faults, why, botched>>
      PROVE  DreamInv'
  <2>1. UNCHANGED <<created, active, text, age, raised, ran, faults, why, botched>>
    BY <1>1 DEF rows
  <2> QED
    BY <1>0, <1>1, <2>1, RowsStay DEF TypeInv
<1>2. CASE ListForDedup(p)
  <2>1. dream[p].snap = None /\ UNCHANGED <<rows, ran, faults, why, botched>>
    BY <1>0, <1>2 DEF ListForDedup, CycleSound
  <2> DEFINE c == [InPhase("dedup") EXCEPT !.todo = Duplicates, !.left = DedupLimit]
  <2>2. CASE dream' = [dream EXCEPT ![p] = c]
    <3>1. Duplicates \in SUBSET (Ids \X Ids) /\ DedupLimit \in Nat
      BY <1>0, LimitAssumption DEF Duplicates
    <3>2. /\ InPhase("dedup") \in Cycles /\ InPhase("dedup").snap = None /\ InPhase("dedup").list = {}
          /\ InPhase("dedup").phase = "dedup"
      BY AsleepFacts DEF Phases
    <3>3. c \in Cycles /\ c.todo = Duplicates /\ c.snap = None /\ c.list = {} /\ c.phase = "dedup"
      <4> HIDE DEF Duplicates
      <4> QED
        BY <3>1, <3>2 DEF Cycles
    <3>4. \A d \in Duplicates : Earlier(d[1], d[2]) /\ Overlaps(d[1], d[2])
      <4> SUFFICES ASSUME NEW d \in Duplicates
                   PROVE  Earlier(d[1], d[2]) /\ Overlaps(d[1], d[2])
        OBVIOUS
      <4>1. d[1] \in Stored /\ d[2] \in Stored /\ Older(d[1], d[2]) /\ Overlaps(d[1], d[2])
        BY <1>0 DEF Duplicates
      <4> QED
        BY <1>0, <4>1, OlderIsEarlier
    <3>5. CycleSound(c)
      BY <3>3, <3>4 DEF CycleSound
    <3> HIDE DEF c
    <3> QED
      BY <1>1, <2>1, <2>2, <3>3, <3>5
  <2>3. CASE dream' = [dream EXCEPT ![p] = InPhase("snapshot")]
    BY <1>1, <2>1, <2>3, AsleepFacts DEF Phases
  <2> QED
    BY <1>2, <2>2, <2>3 DEF ListForDedup
<1>3. CASE ListForSnapshot(p)
  <2>0. dream[p].snap = None /\ dream[p].phase = "snapshot" /\ UNCHANGED <<rows, ran, faults, why, botched>>
    BY <1>3 DEF ListForSnapshot
  <2>1. PICK S \in Selected :
          IF ~AtLeastTwo(S) THEN dream' = [dream EXCEPT ![p] = Asleep]
          ELSE \E first \in S :
            /\ \A x \in S : Importance(first) <= Importance(x)
            /\ Unused # {}
            /\ dream' = [dream EXCEPT ![p] = [@ EXCEPT !.list = S, !.snap = NewSnapshot, !.draft = SnapshotOf(S, first)]]
    BY <1>3 DEF ListForSnapshot
  <2>2. S \subseteq Stored
    BY <1>0 DEF Selected, Old
  <2>3. CASE ~AtLeastTwo(S)
    BY <1>1, <2>0, <2>1, <2>3, AsleepFacts DEF Phases
  <2>4. CASE AtLeastTwo(S)
    <3>1. PICK first \in S :
            /\ Unused # {}
            /\ dream' = [dream EXCEPT ![p] = [@ EXCEPT !.list = S, !.snap = NewSnapshot, !.draft = SnapshotOf(S, first)]]
      BY <2>1, <2>4
    <3> DEFINE c == [dream[p] EXCEPT !.list = S, !.snap = NewSnapshot, !.draft = SnapshotOf(S, first)]
    <3>2. NewSnapshot \in Snapshots /\ NewSnapshot \notin Stored /\ \A q \in Dreamers : NewSnapshot # dream[q].snap
      BY <3>1 DEF NewSnapshot, Unused
    <3>3. SnapshotOf(S, first) \in Texts /\ \A x \in S : text[x].head \subseteq Whole(SnapshotOf(S, first))
      <4>1. \A x \in S : text[x].head \subseteq Words
        BY <1>0, <2>2 DEF Texts
      <4>2. /\ SnapshotOf(S, first).head = text[first].head
            /\ SnapshotOf(S, first).rest = UNION {text[x].head : x \in S \ {first}}
        BY DEF SnapshotOf
      <4>3. UNION {text[x].head : x \in S \ {first}} \subseteq Words
        BY <4>1
      <4>4. SnapshotOf(S, first) \in Texts
        BY <4>1, <4>3 DEF SnapshotOf, Texts
      <4>5. \A x \in S : text[x].head \subseteq Whole(SnapshotOf(S, first))
        BY <4>2 DEF Whole
      <4> QED
        BY <4>4, <4>5
    <3>4. /\ c \in Cycles /\ c.list = S /\ c.snap = NewSnapshot /\ c.draft = SnapshotOf(S, first)
          /\ c.phase = "snapshot" /\ c.todo = dream[p].todo
      <4>1. S \in SUBSET Ids
        BY <1>0, <2>2
      <4> QED
        BY <1>0, <2>0, <3>2, <3>3, <4>1 DEF Cycles
    <3>5. CycleSound(c)
      <4>1. c.phase # "dedup" /\ c.phase # "contradiction"
        BY <3>4
      <4>2. c.snap # None /\ c.snap \notin Stored
        <5>1. None \notin Snapshots
          BY IdAssumption DEF Ids
        <5> QED
          BY <3>2, <3>4, <5>1
      <4>3. \A x \in c.list : x \in Stored /\ text[x].head \subseteq Whole(c.draft)
        BY <2>2, <3>3, <3>4
      <4> QED
        BY <3>4, <4>1, <4>2, <4>3 DEF CycleSound
    <3>6. dream' = [dream EXCEPT ![p] = c]
      BY <1>0, <3>1 DEF TypeInv
    <3> HIDE DEF c
    <3> QED
      BY <1>1, <2>0, <3>2, <3>4, <3>5, <3>6
  <2> QED
    BY <2>3, <2>4
<1> QED
  BY <1>2, <1>3

\* A duplicate that is dropped leaves a representative to everything that it
\* represented.
LEMMA DedupInv ==
    ASSUME DreamInv, NEW p \in Dreamers, Dedup(p)
    PROVE  DreamInv'
<1>0. /\ TypeInv /\ OneRow /\ Represented /\ dream[p] \in Cycles /\ created \in Seq(Ids)
      /\ CycleSound(dream[p]) /\ dream[p].phase = "dedup" /\ dream[p].left > 0
      /\ dream[p].left \in Nat /\ dream[p].todo \in SUBSET (Ids \X Ids)
      /\ Stored \subseteq Ids /\ \A x \in active : why[x] = NoReason
  <2>1. /\ TypeInv /\ OneRow /\ Represented /\ CycleSound(dream[p]) /\ dream[p] \in Cycles
        /\ \A x \in active : why[x] = NoReason
    BY DEF DreamInv, TypeInv
  <2>2. dream[p].phase = "dedup" /\ dream[p].left > 0
    BY DEF Dedup
  <2> QED
    BY <2>1, <2>2 DEF TypeInv, Cycles, Stored
<1>1. PICK d \in dream[p].todo :
        \/ /\ Dropped({d[2]}, "dedup", d[1])
           /\ dream' = [dream EXCEPT ![p] = After("snapshot", @, @.todo \ {d}, @.left - 1)]
           /\ UNCHANGED faults
        \/ /\ Fault
           /\ dream' = [dream EXCEPT ![p] = After("snapshot", @, @.todo \ {d}, @.left)]
           /\ UNCHANGED <<active, why>>
  BY DEF Dedup
<1>2. UNCHANGED <<created, text, age, raised, ran, botched>>
  BY DEF Dedup
<1>3. dream[p].snap = None /\ dream[p].list = {}
  BY <1>0 DEF CycleSound
<1>4. Earlier(d[1], d[2]) /\ Overlaps(d[1], d[2])
  BY <1>0 DEF CycleSound
<1>5. d[1] \in Stored /\ d[2] \in Stored /\ d[1] \in Ids /\ d[2] \in Ids /\ d[1] # d[2]
  BY <1>0, <1>4, EarlierFacts
<1>6. ASSUME NEW left \in Nat
      PROVE  LET c == After("snapshot", dream[p], dream[p].todo \ {d}, left)
             IN  c \in Cycles /\ CycleSound(c) /\ c.snap = None
  BY <1>0, AfterFacts DEF Phases
<1>7. CASE /\ Dropped({d[2]}, "dedup", d[1])
           /\ dream' = [dream EXCEPT ![p] = After("snapshot", @, @.todo \ {d}, @.left - 1)]
           /\ UNCHANGED faults
  <2>1. /\ active' \subseteq active /\ why' \in [Ids -> [by : Reasons, into : Ids \cup {None}]]
        /\ \A x \in Ids : x \in {d[2]} \cap active => x \in Stored /\ why'[x].by = "dedup" /\ why'[x].into = d[1]
        /\ \A x \in Ids : x \notin {d[2]} \cap active => why'[x] = why[x]
        /\ \A x \in active' : why'[x] = NoReason
        /\ \A x \in Ids : why[x].by = "dedup" => why'[x] = why[x]
    <3>1. "dedup" \in Reasons /\ d[1] \in Ids \cup {None} /\ Dropped({d[2]}, "dedup", d[1]) /\ TypeInv
      BY <1>0, <1>5, <1>7 DEF Reasons
    <3>2. /\ active' \subseteq active /\ why' \in [Ids -> [by : Reasons, into : Ids \cup {None}]]
          /\ \A x \in Ids : x \in {d[2]} \cap active => x \in Stored /\ why'[x].by = "dedup" /\ why'[x].into = d[1]
          /\ \A x \in Ids : x \notin {d[2]} \cap active => why'[x] = why[x]
          /\ \A x \in active' : why'[x] = NoReason
          /\ \A x \in Ids : why[x].by = "dedup" => why'[x] = why[x]
      <4> DEFINE S == {d[2]}
                 into == d[1]
      <4>1. "dedup" \in Reasons /\ into \in Ids \cup {None} /\ Dropped(S, "dedup", into) /\ TypeInv
        BY <3>1
      <4> HIDE DEF S, into
      <4>2. /\ active' \subseteq active
            /\ why' \in [Ids -> [by : Reasons, into : Ids \cup {None}]]
            /\ \A x \in Ids : x \in S \cap active => x \in Stored /\ why'[x].by = "dedup" /\ why'[x].into = into
            /\ \A x \in Ids : x \notin S \cap active => why'[x] = why[x]
            /\ \A x \in active' : why'[x] = NoReason
            /\ \A x \in Ids : why[x].by = "dedup" => why'[x] = why[x]
        BY <1>0, <4>1, DroppedFacts
      <4> QED
        BY <4>2 DEF S, into
    <3> QED
      BY <3>2
  <2>2. \A x \in Ids : x # d[2] => why'[x] = why[x]
    BY <2>1
  <2>3. \A x, y : ChainLeads(y, x) => ChainLeads(y, x)'
    BY <2>1, ChainStays
  \* Where the chain of the younger memory ends, if this step drops it.
  <2>4. ASSUME why'[d[2]].by = "dedup"
        PROVE  /\ \E w \in Stored : why'[d[2]].into = w /\ Earlier(w, d[2]) /\ Overlaps(w, d[2])
               /\ \E w \in Stored : why'[w].by # "dedup" /\ Earlier(w, d[2]) /\ ChainLeads(d[2], w)'
    <3>1. CASE d[2] \in active
      <4>1. why'[d[2]].into = d[1]
        BY <1>5, <2>1, <3>1
      <4>2. ASSUME NEW S \in SUBSET Ids, d[2] \in S, \A z \in S : why'[z].by = "dedup" => why'[z].into \in S
            PROVE  d[1] \in S
        BY <2>4, <4>1, <4>2
      <4>3. CASE why[d[1]].by # "dedup"
        <5>1. ChainLeads(d[2], d[1])'
          BY <4>2 DEF ChainLeads
        <5>2. why'[d[1]].by # "dedup"
          BY <1>5, <2>2, <4>3
        <5> QED
          BY <1>4, <1>5, <4>1, <5>1, <5>2
      <4>4. CASE why[d[1]].by = "dedup"
        <5>1. PICK w \in Stored : why[w].by # "dedup" /\ Earlier(w, d[1]) /\ ChainLeads(d[1], w)
          BY <1>0, <1>5, <4>4 DEF Represented
        <5>2. Earlier(w, d[2])
          BY <1>0, <1>4, <5>1, EarlierTransitive
        <5>3. w # d[2] /\ w \in Ids
          BY <1>0, <5>2, EarlierFacts
        <5>4. ChainLeads(d[1], w)'
          BY <2>3, <5>1
        <5>5. ASSUME NEW S \in SUBSET Ids, d[2] \in S, \A z \in S : why'[z].by = "dedup" => why'[z].into \in S
              PROVE  w \in S
          <6>1. d[1] \in S
            BY <4>2, <5>5
          <6> QED
            BY <5>4, <5>5, <6>1 DEF ChainLeads
        <5>6. ChainLeads(d[2], w)'
          BY <5>5 DEF ChainLeads
        <5>7. why'[w].by # "dedup"
          BY <2>2, <5>1, <5>3
        <5> QED
          BY <1>4, <1>5, <4>1, <5>1, <5>2, <5>6, <5>7
      <4> QED
        BY <4>3, <4>4
    <3>2. CASE d[2] \notin active
      <4>1. why'[d[2]] = why[d[2]]
        BY <1>5, <2>1, <3>2
      <4>2. /\ \E w \in Stored : why[d[2]].into = w /\ Earlier(w, d[2]) /\ Overlaps(w, d[2])
            /\ \E w \in Stored : why[w].by # "dedup" /\ Earlier(w, d[2]) /\ ChainLeads(d[2], w)
        BY <1>0, <1>5, <2>4, <4>1 DEF Represented
      <4>3. PICK w \in Stored : why[w].by # "dedup" /\ Earlier(w, d[2]) /\ ChainLeads(d[2], w)
        BY <4>2
      <4>4. w # d[2] /\ w \in Ids
        BY <1>0, <4>3, EarlierFacts
      <4> QED
        BY <2>2, <2>3, <4>1, <4>2, <4>3, <4>4
    <3> QED
      BY <3>1, <3>2
  <2>5. Represented'
    <3>1. /\ Stored' = Stored
          /\ \A x, y : (Earlier(x, y)' <=> Earlier(x, y)) /\ (Overlaps(x, y)' <=> Overlaps(x, y))
      BY <1>2 DEF Stored, Earlier, Overlaps
    <3>2. ASSUME NEW y \in Stored, why'[y].by = "dedup"
          PROVE  /\ \E w \in Stored : why'[y].into = w /\ Earlier(w, y) /\ Overlaps(w, y)
                 /\ \E x \in Stored : why'[x].by # "dedup" /\ Earlier(x, y) /\ ChainLeads(y, x)'
      <4>1. CASE y = d[2]
        BY <2>4, <3>2, <4>1
      <4>2. CASE y # d[2]
        <5>1. why'[y] = why[y] /\ why[y].by = "dedup"
          BY <1>0, <2>2, <3>2, <4>2
        <5>2. \E w \in Stored : why[y].into = w /\ Earlier(w, y) /\ Overlaps(w, y)
          BY <1>0, <5>1 DEF Represented
        <5>3. PICK x \in Stored : why[x].by # "dedup" /\ Earlier(x, y) /\ ChainLeads(y, x)
          BY <1>0, <5>1 DEF Represented
        <5>4. CASE why'[x].by # "dedup"
          BY <2>3, <5>1, <5>2, <5>3, <5>4
        \* The chain ended in the memory that is dropped.
        <5>5. CASE why'[x].by = "dedup"
          <6>1. x = d[2]
            BY <1>0, <2>2, <5>3, <5>5
          <6>2. PICK w \in Stored : why'[w].by # "dedup" /\ Earlier(w, d[2]) /\ ChainLeads(d[2], w)'
            BY <2>4, <5>5, <6>1
          <6>3. Earlier(w, y)
            BY <1>0, <5>3, <6>1, <6>2, EarlierTransitive
          <6>4. ChainLeads(y, x)'
            BY <2>3, <5>3
          <6>5. ASSUME NEW S \in SUBSET Ids, y \in S, \A z \in S : why'[z].by = "dedup" => why'[z].into \in S
                PROVE  w \in S
            <7>1. d[2] \in S
              BY <6>1, <6>4, <6>5 DEF ChainLeads
            <7> QED
              BY <6>2, <6>5, <7>1 DEF ChainLeads
          <6>6. ChainLeads(y, w)'
            BY <6>5 DEF ChainLeads
          <6> QED
            BY <5>1, <5>2, <6>2, <6>3, <6>6
        <5> QED
          BY <5>4, <5>5
      <4> QED
        BY <4>1, <4>2
    <3>3. \A y \in Stored' : why'[y].by = "dedup" =>
            /\ \E w \in Stored' : why'[y].into = w /\ Earlier(w, y)' /\ Overlaps(w, y)'
            /\ \E x \in Stored' : why'[x].by # "dedup" /\ Earlier(x, y)' /\ ChainLeads(y, x)'
      BY <3>1, <3>2
    <3> QED
      BY <3>3 DEF Represented
  <2>6. \A x \in Ids : why'[x] = why[x] \/ (x \in Stored /\ why'[x].by # "snapshot")
    BY <2>1
  <2>7. dream[p].left - 1 \in Nat
    BY <1>0
  <2> DEFINE c == After("snapshot", dream[p], dream[p].todo \ {d}, dream[p].left - 1)
  <2>8. c \in Cycles /\ CycleSound(c) /\ c.snap = None /\ dream' = [dream EXCEPT ![p] = c]
    BY <1>6, <1>7, <2>7
  <2>9. UNCHANGED <<created, text, age, raised, ran, botched, faults>>
    BY <1>2, <1>7
  <2> HIDE DEF c
  <2> QED
    BY <1>0, <1>3, <2>1, <2>5, <2>6, <2>8, <2>9, RowsStay DEF TypeInv
<1>8. CASE /\ Fault
           /\ dream' = [dream EXCEPT ![p] = After("snapshot", @, @.todo \ {d}, @.left)]
           /\ UNCHANGED <<active, why>>
  <2> DEFINE c == After("snapshot", dream[p], dream[p].todo \ {d}, dream[p].left)
  <2>1. c \in Cycles /\ CycleSound(c) /\ c.snap = None /\ dream' = [dream EXCEPT ![p] = c]
    BY <1>0, <1>6, <1>8
  <2>2. faults' \in 0..MaxFaults
    BY <1>0, <1>8, LimitAssumption DEF Fault, TypeInv
  <2> HIDE DEF c
  <2> QED
    BY <1>0, <1>2, <1>3, <1>8, <2>1, <2>2, RowsStay DEF TypeInv
<1> QED
  BY <1>1, <1>7, <1>8

\* A row more: the other rows, what their cycles hold and what represents them
\* stay.
LEMMA InsertedInv ==
    ASSUME DreamInv, NEW m \in Ids, m \notin Stored, NEW t \in Texts, NEW n \in 0..Len(created),
           created' = Inserted(m, n), active' = active \cup {m}, text' = [text EXCEPT ![m] = t],
           UNCHANGED <<age, raised, ran, faults, why, botched>>,
           \/ UNCHANGED dream /\ \A q \in Dreamers : dream[q].snap # m
           \/ \E p \in Dreamers : dream[p].snap = m /\ dream[p].draft = t /\ dream' = [dream EXCEPT ![p] = Asleep]
    PROVE  DreamInv'
<1>0. /\ TypeInv /\ OneRow /\ Represented /\ SnapshotKeepsHeads /\ created \in Seq(Ids) /\ text \in [Ids -> Texts]
      /\ \A q \in Dreamers : CycleSound(dream[q]) /\ dream[q] \in Cycles
      /\ \A q, r \in Dreamers : q # r /\ dream[q].snap # None => dream[q].snap # dream[r].snap
      /\ Stored \subseteq Ids /\ m # None
  BY IdAssumption DEF DreamInv, TypeInv, Stored
<1>1. /\ created' \in Seq(Ids) /\ Stored' = Stored \cup {m} /\ OneRow'
      /\ \A x, y : Earlier(x, y) => Earlier(x, y)'
  BY <1>0, InsertFacts
<1>2. /\ text' \in [Ids -> Texts] /\ text'[m] = t /\ \A x \in Stored : text'[x] = text[x]
  BY <1>0
<1>3. \A x, y \in Stored : Overlaps(x, y) => Overlaps(x, y)'
  BY <1>2 DEF Overlaps, Whole
<1>4. /\ dream' \in [Dreamers -> Cycles]
      /\ \A q \in Dreamers :
            \/ dream'[q] = dream[q] /\ dream[q].snap # m
            \/ dream'[q] = Asleep /\ dream[q].snap = m /\ dream[q].draft = t
  <2>1. CASE UNCHANGED dream /\ \A q \in Dreamers : dream[q].snap # m
    BY <1>0, <2>1 DEF TypeInv
  <2>2. ASSUME NEW p \in Dreamers, dream[p].snap = m, dream[p].draft = t, dream' = [dream EXCEPT ![p] = Asleep]
        PROVE  <1>4!1 /\ <1>4!2
    <3>1. Asleep \in Cycles
      BY AsleepFacts DEF Phases
    <3>2. \A q \in Dreamers : q # p => dream[q].snap # m
      BY <1>0, <2>2
    <3>3. dream \in [Dreamers -> Cycles]
      BY <1>0 DEF TypeInv
    <3> QED
      BY <2>2, <3>1, <3>2, <3>3
  <2> QED
    BY <2>1, <2>2
<1>5. Asleep.snap = None /\ Asleep.todo = {} /\ Asleep.list = {}
  BY AsleepFacts DEF Phases
<1>6. TypeInv'
  BY <1>0, <1>1, <1>2, <1>4 DEF TypeInv
<1>7. (\A x \in Ids \ Stored' : why'[x] = NoReason) /\ \A x \in active' : why'[x] = NoReason
  BY <1>1 DEF DreamInv
<1>8. \A x \in Ids : why'[x].by = "snapshot" => why'[x].into # None
  BY DEF DreamInv
<1>9. why'[m].by = ""
  <2>1. why[m] = NoReason /\ why' = why
    BY DEF DreamInv
  <2>2. NoReason.by = ""
    BY DEF NoReason
  <2> QED
    BY <2>1, <2>2
<1>10. Represented'
  <2>1. ASSUME NEW y \in Stored', why'[y].by = "dedup"
        PROVE  /\ \E w \in Stored' : why'[y].into = w /\ Earlier(w, y)' /\ Overlaps(w, y)'
               /\ \E x \in Stored' : why'[x].by # "dedup" /\ Earlier(x, y)' /\ ChainLeads(y, x)'
    <3>1. y \in Stored /\ why[y].by = "dedup" /\ why'[y] = why[y]
      BY <1>1, <1>9, <2>1
    <3>2. \E w \in Stored : why[y].into = w /\ Earlier(w, y) /\ Overlaps(w, y)
      BY <1>0, <3>1 DEF Represented
    <3>4. PICK x \in Stored : why[x].by # "dedup" /\ Earlier(x, y) /\ ChainLeads(y, x)
      BY <1>0, <3>1 DEF Represented
    <3>5. ChainLeads(y, x)'
      BY <3>4, ChainStays
    <3> QED
      BY <1>1, <1>3, <3>1, <3>2, <3>4, <3>5
  <2> QED
    BY <2>1 DEF Represented
<1>11. SnapshotKeepsHeads'
  <2>1. ASSUME NEW x \in Stored', why'[x].by = "snapshot"
        PROVE  \/ why'[x].into \in botched'
               \/ why'[x].into \in Stored' /\ text'[x].head \subseteq Whole(text'[why'[x].into])
               \/ \E p \in Dreamers : dream'[p].snap = why'[x].into /\ text'[x].head \subseteq Whole(dream'[p].draft)
    <3>1. x \in Stored /\ why'[x] = why[x] /\ text'[x] = text[x] /\ why[x].by = "snapshot"
      BY <1>1, <1>2, <1>9, <2>1
    <3>2. CASE why[x].into \in botched
      BY <3>1, <3>2
    <3>3. CASE why[x].into \in Stored /\ text[x].head \subseteq Whole(text[why[x].into])
      BY <1>1, <1>2, <3>1, <3>3
    <3>4. ASSUME NEW p \in Dreamers, dream[p].snap = why[x].into, text[x].head \subseteq Whole(dream[p].draft)
          PROVE  \/ why'[x].into \in Stored' /\ text'[x].head \subseteq Whole(text'[why'[x].into])
                 \/ \E q \in Dreamers : dream'[q].snap = why'[x].into /\ text'[x].head \subseteq Whole(dream'[q].draft)
      <4>1. CASE dream'[p] = dream[p]
        BY <3>1, <3>4, <4>1
      <4>2. CASE dream[p].snap = m /\ dream[p].draft = t
        BY <1>1, <1>2, <3>1, <3>4, <4>2
      <4> QED
        BY <1>4, <4>1, <4>2
    <3> QED
      BY <1>0, <3>1, <3>2, <3>3, <3>4 DEF SnapshotKeepsHeads
  <2> QED
    BY <2>1 DEF SnapshotKeepsHeads, Whole
<1>12. ASSUME NEW q \in Dreamers
       PROVE  CycleSound(dream[q])'
  <2>1. CASE dream'[q] = dream[q] /\ dream[q].snap # m
    <3>1. ASSUME dream[q].phase = "dedup"
          PROVE  \A d \in dream[q].todo : Earlier(d[1], d[2])' /\ Overlaps(d[1], d[2])'
      <4>1. \A d \in dream[q].todo : Earlier(d[1], d[2]) /\ Overlaps(d[1], d[2])
        BY <1>0, <3>1 DEF CycleSound
      <4>2. \A d \in dream[q].todo : d[1] \in Stored /\ d[2] \in Stored
        BY <1>0, <4>1, EarlierFacts
      <4> QED
        BY <1>1, <1>3, <4>1, <4>2
    <3>2. \A x \in dream[q].list : x \in Stored' /\ text'[x].head \subseteq Whole(dream[q].draft)
      BY <1>0, <1>1, <1>2 DEF CycleSound
    <3> QED
      BY <1>0, <1>1, <2>1, <3>1, <3>2 DEF CycleSound, Whole
  <2>2. CASE dream'[q] = Asleep
    BY <1>5, <2>2 DEF CycleSound
  <2> QED
    BY <1>4, <2>1, <2>2
<1>13. \A q, r \in Dreamers : q # r /\ dream'[q].snap # None => dream'[q].snap # dream'[r].snap
  BY <1>0, <1>4, <1>5
<1> QED
  BY <1>1, <1>6, <1>7, <1>8, <1>10, <1>11, <1>12, <1>13 DEF DreamInv

\* A snapshot and its cycle: rows are dropped for it one by one, with their heads
\* in its draft; and it is inserted, or it is known to be lost.
LEMMA SnapshotInv ==
    ASSUME DreamInv, NEW p \in Dreamers, (\E x \in Ids : DropOld(p, x)) \/ InsertSnapshot(p) \/ Die(p)
    PROVE  DreamInv'
<1>0. /\ TypeInv /\ OneRow /\ Represented /\ SnapshotKeepsHeads /\ created \in Seq(Ids) /\ text \in [Ids -> Texts]
      /\ \A q \in Dreamers : CycleSound(dream[q]) /\ dream[q] \in Cycles
      /\ \A q, r \in Dreamers : q # r /\ dream[q].snap # None => dream[q].snap # dream[r].snap
      /\ Stored \subseteq Ids /\ dream \in [Dreamers -> Cycles] /\ botched \subseteq Snapshots
      /\ \A x \in Ids : why[x].by = "snapshot" => why[x].into # None
      /\ \A x \in Ids \ Stored : why[x] = NoReason
      /\ \A x \in active : why[x] = NoReason
  BY DEF DreamInv, TypeInv, Stored
<1>1. /\ dream[p].snap \in Snapshots \cup {None} /\ dream[p].draft \in Texts /\ dream[p].list \subseteq Ids
      /\ Snapshots \subseteq Ids /\ None \notin Ids
  BY <1>0, IdAssumption DEF Cycles, Ids
<1>a. Asleep \in Cycles /\ Asleep.snap = None /\ Asleep.todo = {} /\ Asleep.list = {} /\ CycleSound(Asleep)
  BY AsleepFacts DEF Phases
\* Rows and texts stay, p drops one row or gives its snapshot up.
<1>2. ASSUME NEW c \in Cycles, dream' = [dream EXCEPT ![p] = c], UNCHANGED <<created, text, age, raised, ran>>,
             active' \subseteq active, faults' \in 0..MaxFaults, botched' \subseteq Snapshots, botched \subseteq botched',
             CycleSound(c),
             \/ c.snap = dream[p].snap /\ c.draft = dream[p].draft
             \/ c.snap = None /\ dream[p].snap \in botched' \cup {None},
             why' \in [Ids -> [by : Reasons, into : Ids \cup {None}]],
             \A x \in Ids : \/ why'[x] = why[x]
                            \/ /\ x \in Stored /\ why'[x].by = "snapshot" /\ why'[x].into = c.snap /\ c.snap # None
                               /\ text[x].head \subseteq Whole(c.draft),
             \A x \in active' : why'[x] = NoReason,
             \A x \in Ids : why[x].by = "dedup" => why'[x] = why[x]
      PROVE  DreamInv'
  <2>1. Stored' = Stored /\ \A x, y : (Earlier(x, y)' <=> Earlier(x, y)) /\ (Overlaps(x, y)' <=> Overlaps(x, y))
    BY <1>2 DEF Stored, Earlier, Overlaps
  <2>2. dream' \in [Dreamers -> Cycles] /\ dream'[p] = c /\ \A q \in Dreamers : q # p => dream'[q] = dream[q]
    BY <1>0, <1>2
  <2>3. TypeInv'
    BY <1>0, <1>2, <2>1, <2>2 DEF TypeInv
  <2>4. OneRow' /\ (\A x \in Ids \ Stored' : why'[x] = NoReason) /\ \A x \in active' : why'[x] = NoReason
    BY <1>0, <1>2, <2>1 DEF OneRow
  <2>5. \A x \in Ids : why'[x].by = "snapshot" => why'[x].into # None
    BY <1>0, <1>2
  <2>6. Represented'
    <3>1. ASSUME NEW y \in Stored', why'[y].by = "dedup"
          PROVE  /\ \E w \in Stored' : why'[y].into = w /\ Earlier(w, y)' /\ Overlaps(w, y)'
                 /\ \E x \in Stored' : why'[x].by # "dedup" /\ Earlier(x, y)' /\ ChainLeads(y, x)'
      <4>1. y \in Stored /\ y \in Ids /\ why'[y] = why[y] /\ why[y].by = "dedup"
        BY <1>0, <1>2, <2>1, <3>1
      <4>2. \E w \in Stored : why[y].into = w /\ Earlier(w, y) /\ Overlaps(w, y)
        BY <1>0, <4>1 DEF Represented
      <4>3. PICK x \in Stored : why[x].by # "dedup" /\ Earlier(x, y) /\ ChainLeads(y, x)
        BY <1>0, <4>1 DEF Represented
      <4>4. ChainLeads(y, x)'
        BY <1>2, <4>3, ChainStays
      <4>5. why'[x].by # "dedup"
        BY <1>0, <1>2, <4>3
      <4> QED
        BY <2>1, <4>1, <4>2, <4>3, <4>4, <4>5
    <3> QED
      BY <3>1 DEF Represented
  <2>7. SnapshotKeepsHeads'
    <3>1. ASSUME NEW x \in Stored', why'[x].by = "snapshot"
          PROVE  \/ why'[x].into \in botched'
                 \/ why'[x].into \in Stored' /\ text'[x].head \subseteq Whole(text'[why'[x].into])
                 \/ \E q \in Dreamers : dream'[q].snap = why'[x].into /\ text'[x].head \subseteq Whole(dream'[q].draft)
      <4>0. x \in Stored /\ x \in Ids /\ text' = text
        BY <1>0, <1>2, <2>1
      <4>1. CASE why'[x].into = c.snap /\ text[x].head \subseteq Whole(c.draft)
        BY <2>2, <4>0, <4>1
      <4>2. CASE why'[x] = why[x]
        <5>0. why[x].by = "snapshot" /\ why[x].into # None
          BY <1>0, <3>1, <4>0, <4>2
        <5>1. CASE why[x].into \in botched
          BY <1>2, <4>2, <5>1
        <5>2. CASE why[x].into \in Stored /\ text[x].head \subseteq Whole(text[why[x].into])
          BY <2>1, <4>0, <4>2, <5>2
        <5>3. ASSUME NEW q \in Dreamers, dream[q].snap = why[x].into, text[x].head \subseteq Whole(dream[q].draft)
              PROVE  \/ why'[x].into \in botched'
                     \/ \E r \in Dreamers : dream'[r].snap = why'[x].into /\ text'[x].head \subseteq Whole(dream'[r].draft)
          <6>1. CASE q # p
            BY <2>2, <4>0, <4>2, <5>3, <6>1
          <6>2. CASE q = p
            BY <1>2, <2>2, <4>0, <4>2, <5>0, <5>3, <6>2
          <6> QED
            BY <6>1, <6>2
        <5> QED
          BY <1>0, <4>0, <5>0, <5>1, <5>2, <5>3 DEF SnapshotKeepsHeads
      <4> QED
        BY <1>2, <4>0, <4>1, <4>2
    <3> QED
      BY <3>1 DEF SnapshotKeepsHeads, Whole
  <2>8. \A q \in Dreamers : CycleSound(dream[q])'
    <3>1. \A q \in Dreamers : CycleSound(dream'[q])
      BY <1>0, <1>2, <2>2
    <3> QED
      BY <1>2, <2>1, <3>1 DEF CycleSound
  <2>9. \A q, r \in Dreamers : q # r /\ dream'[q].snap # None => dream'[q].snap # dream'[r].snap
    BY <1>0, <1>2, <2>2
  <2> QED
    BY <2>3, <2>4, <2>5, <2>6, <2>7, <2>8, <2>9 DEF DreamInv
<1>3. ASSUME NEW x \in Ids, DropOld(p, x)
      PROVE  DreamInv'
  <2> DEFINE c == [dream[p] EXCEPT !.list = dream[p].list \ {x}]
  <2>0. /\ x \in dream[p].list /\ dream' = [dream EXCEPT ![p].list = @ \ {x}]
        /\ UNCHANGED <<created, text, age, raised, ran, botched>>
        /\ (Dropped({x}, "snapshot", dream[p].snap) /\ UNCHANGED faults) \/ (Fault /\ UNCHANGED <<active, why>>)
    BY <1>3 DEF DropOld
  <2>1. /\ c \in Cycles /\ c.list = dream[p].list \ {x} /\ c.snap = dream[p].snap /\ c.draft = dream[p].draft
        /\ c.todo = dream[p].todo /\ c.phase = dream[p].phase
    BY <1>0, <1>1 DEF Cycles
  <2>2. dream' = [dream EXCEPT ![p] = c]
    BY <1>0, <2>0
  <2>3. CycleSound(dream[p]) /\ x \in Stored /\ dream[p].snap # None /\ text[x].head \subseteq Whole(dream[p].draft)
    BY <1>0, <2>0 DEF CycleSound
  <2>4. CycleSound(c)
    BY <2>1, <2>3 DEF CycleSound
  <2> HIDE DEF c
  <2>5. CASE Dropped({x}, "snapshot", dream[p].snap) /\ UNCHANGED faults
    <3> DEFINE into == dream[p].snap
    <3>1. "snapshot" \in Reasons /\ into \in Ids \cup {None} /\ Dropped({x}, "snapshot", into) /\ TypeInv
      BY <1>0, <1>1, <2>5 DEF Reasons
    <3> HIDE DEF into
    <3>2. /\ active' \subseteq active
          /\ why' \in [Ids -> [by : Reasons, into : Ids \cup {None}]]
          /\ \A y \in Ids : y \in {x} \cap active => y \in Stored /\ why'[y].by = "snapshot" /\ why'[y].into = into
          /\ \A y \in Ids : y \notin {x} \cap active => why'[y] = why[y]
          /\ \A y \in active' : why'[y] = NoReason
          /\ \A y \in Ids : why[y].by = "dedup" => why'[y] = why[y]
      BY <1>0, <3>1, DroppedFacts
    <3>3. into = c.snap /\ c.snap # None /\ text[x].head \subseteq Whole(c.draft)
      BY <2>1, <2>3 DEF into
    <3>4. \A y \in Ids : \/ why'[y] = why[y]
                         \/ /\ y \in Stored /\ why'[y].by = "snapshot" /\ why'[y].into = c.snap /\ c.snap # None
                            /\ text[y].head \subseteq Whole(c.draft)
      BY <3>2, <3>3
    <3>5. faults' \in 0..MaxFaults
      BY <1>0, <2>5 DEF TypeInv
    <3> QED
      BY <1>0, <1>2, <2>0, <2>1, <2>2, <2>4, <3>2, <3>4, <3>5
  <2>6. CASE Fault /\ UNCHANGED <<active, why>>
    <3>1. faults' \in 0..MaxFaults /\ why' \in [Ids -> [by : Reasons, into : Ids \cup {None}]]
      BY <1>0, <2>6, LimitAssumption DEF Fault, TypeInv
    <3> QED
      BY <1>0, <1>2, <2>0, <2>1, <2>2, <2>4, <2>6, <3>1
  <2> QED
    BY <2>0, <2>5, <2>6
\* The snapshot is lost.
<1>4. ASSUME Fault, dream' = [dream EXCEPT ![p] = Asleep], UNCHANGED <<created, active, text, age, raised, ran, why>>,
             botched' = botched \cup ({dream[p].snap} \ {None})
      PROVE  DreamInv'
  <2>1. /\ faults' \in 0..MaxFaults /\ why' \in [Ids -> [by : Reasons, into : Ids \cup {None}]]
        /\ active' \subseteq active /\ \A x \in active' : why'[x] = NoReason
    BY <1>0, <1>4, LimitAssumption DEF Fault, TypeInv
  <2>2. botched' \subseteq Snapshots /\ botched \subseteq botched' /\ dream[p].snap \in botched' \cup {None}
    BY <1>0, <1>1, <1>4
  <2> QED
    BY <1>a, <1>2, <1>4, <2>1, <2>2
<1>5. CASE InsertSnapshot(p)
  <2>0. dream[p].snap # None /\ UNCHANGED <<age, raised, ran, why>> /\ dream' = [dream EXCEPT ![p] = Asleep]
    BY <1>5 DEF InsertSnapshot
  <2>1. dream[p].snap \in Snapshots /\ dream[p].snap \in Ids /\ dream[p].snap \notin Stored
    BY <1>0, <1>1, <2>0 DEF CycleSound
  <2>2. CASE /\ \E n \in 0..Len(created) : StoredToday(n) /\ created' = Inserted(dream[p].snap, n)
             /\ active' = active \cup {dream[p].snap}
             /\ text' = [text EXCEPT ![dream[p].snap] = dream[p].draft]
             /\ UNCHANGED <<faults, botched>>
    <3> DEFINE m == dream[p].snap
               t == dream[p].draft
    <3>1. m \in Ids /\ m \notin Stored /\ t \in Texts
      BY <1>1, <2>1
    <3>2. active' = active \cup {m} /\ text' = [text EXCEPT ![m] = t]
      BY <2>2
    <3>3. \E q \in Dreamers : dream[q].snap = m /\ dream[q].draft = t /\ dream' = [dream EXCEPT ![q] = Asleep]
      BY <2>0
    <3>4. UNCHANGED <<age, raised, ran, faults, why, botched>>
      BY <2>0, <2>2
    <3>5. PICK n \in 0..Len(created) : created' = Inserted(m, n)
      BY <2>2
    <3> HIDE DEF m, t
    <3> QED
      BY <3>1, <3>2, <3>3, <3>4, <3>5, InsertedInv
  <2>3. CASE Fault /\ botched' = botched \cup {dream[p].snap} /\ UNCHANGED <<created, active, text>>
    <3>1. botched' = botched \cup ({dream[p].snap} \ {None})
      BY <2>0, <2>3
    <3> QED
      BY <1>4, <2>0, <2>3, <3>1
  <2> QED
    BY <1>5, <2>2, <2>3 DEF InsertSnapshot
<1>6. CASE Die(p)
  <2>1. UNCHANGED <<created, active, text, age, raised, ran, why>>
    BY <1>6 DEF Die, rows
  <2> QED
    BY <1>4, <1>6, <2>1 DEF Die
<1> QED
  BY <1>3, <1>5, <1>6

\* A memory that a handler stores has an id of its own.
LEMMA StoreInv ==
    ASSUME DreamInv, NEW k \in DOMAIN Arrivals, Store(k)
    PROVE  DreamInv'
<1> DEFINE m == Arrivals[k]
           t == Says[m]
<1>1. m \in Memories /\ m \in Ids /\ t \in Texts /\ m \notin Snapshots /\ m # None
  BY TextAssumption, IdAssumption DEF Memories, Ids
<1>2. /\ m \notin Stored /\ created' = Inserted(m, Len(created)) /\ active' = active \cup {m}
      /\ text' = [text EXCEPT ![m] = t] /\ UNCHANGED <<age, raised, dream, ran, faults, why, botched>>
  BY DEF Store
<1>3. \A q \in Dreamers : dream[q].snap # m
  <2>1. \A q \in Dreamers : dream[q] \in Cycles
    BY DEF DreamInv, TypeInv
  <2> QED
    BY <1>1, <2>1 DEF Cycles
<1>4. Len(created) \in 0..Len(created)
  BY DEF DreamInv, TypeInv
<1> HIDE DEF m, t
<1> QED
  BY <1>1, <1>2, <1>3, <1>4, InsertedInv

\* Every step keeps the invariant, and so does a step that changes nothing.
LEMMA NextInv == DreamInv /\ [Next]_vars => DreamInv'
<1> SUFFICES ASSUME DreamInv, [Next]_vars
             PROVE  DreamInv'
  OBVIOUS
<1>1. CASE \E k \in DOMAIN Arrivals : Store(k)
  BY <1>1, StoreInv
<1>2. CASE \E x \in Ids : Forget(x) \/ GrowOld(x)
  BY <1>2, QuietInv
<1>3. ASSUME NEW p \in Dreamers, Step(p) \/ Die(p)
      PROVE  DreamInv'
  BY <1>3, QuietInv, ListsInv, DedupInv, SnapshotInv DEF Step
<1>4. CASE UNCHANGED vars
  <2>1. UNCHANGED <<created, active, text, age, raised, dream, ran, faults, why, botched>>
    BY <1>4 DEF vars, rows
  <2> QED
    BY <2>1, RowsStay DEF DreamInv, TypeInv
<1> QED
  BY <1>1, <1>2, <1>3, <1>4 DEF Next

LEMMA Invariance == Spec => []DreamInv
BY InitInv, NextInv, PTL DEF Spec

-----------------------------------------------------------------------------
(* The theorems *)

\* Every variable has its type, and every row that is active exists.
THEOREM DreamTypeCorrect == Spec => []TypeOK
<1>1. DreamInv => TypeOK
  BY DEF DreamInv, TypeInv, TypeOK, Stored
<1> QED
  BY <1>1, Invariance, PTL

\* What dedup has dropped repeats the older memory it was dropped for, and the
\* chain of such memories ends in one that dedup has not dropped (dream.go:164-215).
THEOREM RepresentativesRemain == Spec => []RepresentativeRemains
<1>1. DreamInv => RepresentativeRemains
  <2> SUFFICES ASSUME DreamInv, NEW y \in Stored, why[y].by = "dedup"
               PROVE  /\ Older(why[y].into, y) /\ Overlaps(why[y].into, y)
                      /\ \E x \in Stored : why[x].by # "dedup" /\ Older(x, y) /\ ChainLeads(y, x)
    BY DEF RepresentativeRemains
  <2>0. created \in Seq(Ids) /\ OneRow
    BY DEF DreamInv, TypeInv
  <2>1. PICK w \in Stored : why[y].into = w /\ Earlier(w, y) /\ Overlaps(w, y)
    BY DEF DreamInv, Represented
  <2>3. PICK x \in Stored : why[x].by # "dedup" /\ Earlier(x, y) /\ ChainLeads(y, x)
    BY DEF DreamInv, Represented
  <2>4. Older(w, y) /\ Older(x, y)
    BY <2>0, <2>1, <2>3, OlderIsEarlier
  <2> QED
    BY <2>1, <2>3, <2>4
<1> QED
  BY <1>1, Invariance, PTL

\* The beginning of every memory dropped for a snapshot is in the snapshot, or
\* the snapshot was lost in a fault (dream.go:260-279).
THEOREM SnapshotsKeepHeads == Spec => []SnapshotKeepsHeads
<1>1. DreamInv => SnapshotKeepsHeads
  BY DEF DreamInv
<1> QED
  BY <1>1, Invariance, PTL
=============================================================================
