--------------------------- MODULE Recall_proofs ---------------------------
(***************************************************************************)
(* Proofs about the records and their vectors, for every set of ids, every *)
(* limit and any number of failures.                                       *)
(***************************************************************************)
EXTENDS Recall, FiniteSetTheorems, TLAPS

-----------------------------------------------------------------------------
(* The inductive invariant *)

PrunedIn(f) == {i \in DOMAIN f : f[i].status = "pruned"}

\* Genesis Anchors are anchors and active, and anchors belong to nobody.
Sound(record) ==
    /\ record.core   => record.anchor /\ record.status = "active"
    /\ record.anchor => record.owner = Mind

GoodStore(f) == IsStore(f) /\ \A i \in DOMAIN f : Sound(f[i])

\* What g calls pruned, f does not call active; a Genesis Anchor is one in both.
Later(f, g) ==
    \A i \in DOMAIN f \cap DOMAIN g :
        f[i].core = g[i].core /\ (g[i].status = "pruned" => f[i].status = "pruned")

\* No wipe comes to a Genesis Anchor.
Spared ==
    \A w \in Wiper : Forgets(w) =>
        \A i \in wipe[w].todo : /\ i \in DOMAIN store   => ~store[i].core
                                /\ i \in DOMAIN weighed => ~weighed[i].core

\* While the program runs, every vector is accounted for, and so is every one
\* to come; while it does not, those a restart would find beside a record that
\* the file calls pruned are.  For that the file must not call active what the
\* store no longer does, nor the record that is weighed.
Inv ==
    /\ TypeOK
    /\ GoodStore(store) /\ GoodStore(file) /\ GoodStore(weighed)
    /\ Later(store, file) /\ Later(weighed, file)
    /\ Later(weighed, store) /\ Later(store, weighed)
    /\ Spared
    /\ ActiveIsFindable /\ VectorsHaveRecords
    /\ up => Coming \ Active \subseteq orphans
    /\ ~up => /\ store = Empty /\ weighed = Empty /\ adding = {}
              /\ \A w \in Wiper : wipe[w] = Idle
              /\ PrunedIn(file) \cap index \subseteq faulty \cup orphans

LEMMA EmptyGood == GoodStore(Empty) /\ DOMAIN Empty = {}
BY DEF GoodStore, IsStore, Empty, MemoryRecord

\* What is empty has nothing to disagree about.
LEMMA EmptyLater ==
    ASSUME NEW f, DOMAIN f = {}, NEW g
    PROVE  Later(f, g) /\ Later(g, f)
BY DEF Later

LEMMA ComingElements ==
    ASSUME NEW i
    PROVE  i \in Coming <=>
             i \in adding \/ \E w \in Wiper : wipe[w].stage = "sync" /\ i \in wipe[w].todo
BY DEF Coming

\* One wipe moves on.
LEMMA ComingMoves ==
    ASSUME wipe \in [Wiper -> Wipe], NEW w \in Wiper, NEW v \in Wipe,
           wipe' = [wipe EXCEPT ![w] = v], adding' = adding
    PROVE  /\ wipe' \in [Wiper -> Wipe]
           /\ wipe'[w] = v /\ \A x \in Wiper \ {w} : wipe'[x] = wipe[x]
           /\ Coming' \subseteq Coming \cup (IF v.stage = "sync" THEN v.todo ELSE {})
           /\ v.stage = "sync" => v.todo \subseteq Coming'
           /\ Coming \subseteq Coming' \cup (IF wipe[w].stage = "sync" THEN wipe[w].todo ELSE {})
<1>1. /\ wipe' \in [Wiper -> Wipe]
      /\ wipe'[w] = v /\ \A x \in Wiper \ {w} : wipe'[x] = wipe[x]
    OBVIOUS
<1>2. \A i : i \in Coming' <=>
             i \in adding' \/ \E x \in Wiper : wipe'[x].stage = "sync" /\ i \in wipe'[x].todo
    BY DEF Coming
<1>3. \A i : i \in Coming <=>
             i \in adding \/ \E x \in Wiper : wipe[x].stage = "sync" /\ i \in wipe[x].todo
    BY ComingElements
<1>4. ASSUME NEW i \in Coming'
      PROVE  i \in Coming \cup (IF v.stage = "sync" THEN v.todo ELSE {})
    BY <1>1, <1>2, <1>3
<1>5. ASSUME NEW i \in Coming
      PROVE  i \in Coming' \cup (IF wipe[w].stage = "sync" THEN wipe[w].todo ELSE {})
    BY <1>1, <1>2, <1>3
<1>6. v.stage = "sync" => v.todo \subseteq Coming'
    BY <1>1, <1>2
<1>. QED
    BY <1>1, <1>4, <1>5, <1>6

LEMMA RecordsGood ==
    /\ Genesis \in MemoryRecord /\ Sound(Genesis) /\ Genesis.status = "active"
    /\ Genesis.core
    /\ Reflection \in MemoryRecord /\ Sound(Reflection) /\ Reflection.status = "active"
    /\ ~Reflection.core
    /\ \A p \in Owner \cup {Mind} :
                        /\ Told(p) \in MemoryRecord /\ Sound(Told(p))
                        /\ Told(p).status = "active" /\ ~Told(p).core
<1>1. 0 \in 0 .. MaxAge
    BY RecallAssumption
<1>. QED
    BY <1>1 DEF Genesis, Reflection, Told, MemoryRecord, Sound

LEMMA OnlyGood ==
    ASSUME NEW f, GoodStore(f), NEW ids, ids \subseteq DOMAIN f
    PROVE  /\ GoodStore(Only(f, ids))
           /\ DOMAIN Only(f, ids) = ids
           /\ \A i \in ids : Only(f, ids)[i] = f[i]
BY DEF GoodStore, IsStore, Only

LEMMA WithGood ==
    ASSUME NEW f, GoodStore(f), NEW i \in Id, NEW r \in MemoryRecord, Sound(r)
    PROVE  /\ GoodStore(With(f, i, r))
           /\ DOMAIN With(f, i, r) = DOMAIN f \cup {i}
           /\ With(f, i, r)[i] = r
           /\ \A j \in DOMAIN f \ {i} : With(f, i, r)[j] = f[j]
BY DEF GoodStore, IsStore, With

\* A store whose records change their ages, or their statuses, or both.
Aged(f, g) ==
    /\ DOMAIN g = DOMAIN f /\ g = [i \in DOMAIN f |-> g[i]]
    /\ \A i \in DOMAIN f : /\ g[i] \in MemoryRecord
                           /\ g[i].owner = f[i].owner /\ g[i].core = f[i].core
                           /\ g[i].anchor = f[i].anchor

LEMMA AgedGood ==
    ASSUME NEW f, GoodStore(f), NEW g, Aged(f, g),
           \A i \in DOMAIN f : f[i].core => g[i].status = "active"
    PROVE  GoodStore(g)
BY DEF GoodStore, IsStore, Aged, Sound

LEMMA OlderAged ==
    ASSUME NEW f, GoodStore(f)
    PROVE  /\ Aged(f, Older(f))
           /\ \A i \in DOMAIN f : Older(f)[i].status = f[i].status
<1> SUFFICES ASSUME NEW i \in DOMAIN f
             PROVE  /\ Older(f)[i] \in MemoryRecord
                    /\ Older(f)[i].owner = f[i].owner /\ Older(f)[i].core = f[i].core
                    /\ Older(f)[i].anchor = f[i].anchor /\ Older(f)[i].status = f[i].status
    BY DEF Aged, Older
<1>1. f[i] \in MemoryRecord
    BY DEF GoodStore, IsStore
<1>2. PICK a \in 0 .. MaxAge : Older(f)[i] = [f[i] EXCEPT !.age = a]
  <2>1. f[i].age \in 0 .. MaxAge
      BY <1>1 DEF MemoryRecord
  <2>2. (IF f[i].age < MaxAge THEN f[i].age + 1 ELSE f[i].age) \in 0 .. MaxAge
      BY <2>1, RecallAssumption
  <2>. QED
      BY <2>2 DEF Older
<1>. QED
    BY <1>1, <1>2 DEF MemoryRecord

LEMMA Initially == Init => Inv
<1> SUFFICES ASSUME Init PROVE Inv
    OBVIOUS
<1>1. GoodStore(store) /\ GoodStore(file) /\ GoodStore(weighed) /\ DOMAIN store = {} /\ DOMAIN file = {} /\ DOMAIN weighed = {}
    BY EmptyGood DEF Init
<1>2. \A w \in Wiper : wipe[w] = Idle
    BY DEF Init
<1>3. wipe \in [Wiper -> Wipe]
    BY DEF Init, Idle, Wipe
<1>4. Later(store, file) /\ Later(weighed, file) /\ Later(weighed, store) /\ Later(store, weighed)
    BY <1>1, EmptyLater
<1>5. Spared
    BY <1>1 DEF Spared
<1>6. TypeOK
    BY <1>1, <1>3 DEF Init, TypeOK, GoodStore
<1>. QED
    BY <1>1, <1>2, <1>4, <1>5, <1>6 DEF Init, Inv, PrunedIn, ActiveIsFindable, VectorsHaveRecords

LEMMA StartStep == Inv /\ Start => Inv'
<1> SUFFICES ASSUME Inv, Start PROVE Inv'
    OBVIOUS
<1>1. PICK loaded \in {f \in {file} \cup {With(file, g, Genesis) : g \in Fresh} :
                          CoreIn(f) # {} /\ (CoreIn(file) # {} => f = file)},
           lost \in SUBSET (ActiveIn(file) \ index) :
           /\ Sync(loaded, lost)
           /\ store' = loaded
           /\ orphans' = (index \ Records(loaded)) \cup ((orphans \cap index) \ ActiveIn(loaded))
           /\ faulty' = (faulty \cap index) \cup lost
    BY DEF Start
<1>2. /\ up' = TRUE /\ gcDue' = TRUE /\ file' = file /\ adding' = adding
      /\ held' = held /\ weighed' = weighed /\ wipe' = wipe /\ revived' = revived
    BY DEF Start, threads
<1>2a. ~up /\ weighed = Empty /\ adding = {} /\ \A w \in Wiper : wipe[w] = Idle
    BY DEF Start, Inv
<1>3. /\ GoodStore(loaded)
      /\ DOMAIN file \subseteq DOMAIN loaded
      /\ \A i \in DOMAIN file : loaded[i] = file[i]
      /\ \A i \in DOMAIN loaded \ DOMAIN file : loaded[i].status = "active"
  <2>1. CASE loaded = file
      BY <2>1 DEF Inv
  <2>2. CASE loaded # file
    <3>1. PICK g \in Fresh : loaded = With(file, g, Genesis)
        BY <2>2
    <3>2. g \in Id /\ g \notin DOMAIN file
        BY DEF Fresh, Records
    <3>3. GoodStore(file) /\ Genesis \in MemoryRecord /\ Sound(Genesis)
        BY RecordsGood DEF Inv
    <3>. DEFINE new == With(file, g, Genesis)
    <3>3a. /\ GoodStore(new) /\ DOMAIN new = DOMAIN file \cup {g} /\ new[g] = Genesis
           /\ \A i \in DOMAIN file \ {g} : new[i] = file[i]
        BY <3>2, <3>3, WithGood
    <3>. HIDE DEF new
    <3>4. /\ GoodStore(loaded) /\ DOMAIN loaded = DOMAIN file \cup {g}
          /\ loaded[g] = Genesis
          /\ \A i \in DOMAIN file : loaded[i] = file[i]
        BY <3>1, <3>2, <3>3a DEF new
    <3>5. loaded[g].status = "active"
        BY <3>4, RecordsGood
    <3>. QED
        BY <3>2, <3>4, <3>5
  <2>. QED
      BY <2>1, <2>2
<1>4. /\ lost \subseteq ActiveIn(loaded) \ index
      /\ index' = index \cup (ActiveIn(loaded) \ lost)
    BY <1>1 DEF Sync
<1>5. ActiveIn(loaded) \subseteq DOMAIN loaded /\ DOMAIN loaded \subseteq Id
    BY <1>3 DEF ActiveIn, GoodStore, IsStore
<1>6. TypeOK'
    BY <1>1, <1>2, <1>3, <1>4, <1>5 DEF Inv, TypeOK, GoodStore
<1>7. Active' = ActiveIn(loaded)
    BY <1>1 DEF Active
<1>8. Coming' = {}
    BY <1>2, <1>2a DEF Coming, Idle
<1>9. ActiveIsFindable'
    BY <1>1, <1>4, <1>7 DEF ActiveIsFindable
<1>10. VectorsHaveRecords'
  <2> SUFFICES ASSUME NEW i \in index, i \notin ActiveIn(loaded)
               PROVE  i \in orphans' \cup faulty'
      BY <1>4, <1>7 DEF VectorsHaveRecords
  <2>1. CASE i \notin DOMAIN loaded
      BY <1>1, <2>1 DEF Records
  <2>2. CASE i \in DOMAIN loaded
    <3>1. loaded[i].status = "pruned"
        BY <1>3, <2>2 DEF ActiveIn, GoodStore, IsStore, MemoryRecord
    <3>2. i \in PrunedIn(file)
        BY <1>3, <2>2, <3>1 DEF PrunedIn
    <3>3. i \in faulty \cup orphans
        BY <1>2a, <3>2 DEF Inv
    <3>. QED
        BY <1>1, <3>3
  <2>. QED
      BY <2>1, <2>2
<1>11. Later(store', file') /\ DOMAIN weighed = {}
    BY <1>1, <1>2, <1>2a, <1>3, EmptyGood DEF Later
<1>12. Later(weighed', store') /\ Later(store', weighed') /\ Later(weighed', file')
    BY <1>2, <1>11, EmptyLater
<1>13. Spared'
    BY <1>2, <1>2a DEF Spared, Forgets, Idle
<1>. QED
    BY <1>1, <1>2, <1>3, <1>6, <1>8, <1>9, <1>10, <1>11, <1>12, <1>13 DEF Inv

LEMMA RememberStep ==
    ASSUME Inv, NEW i \in Fresh, NEW r \in MemoryRecord, Sound(r), r.status = "active",
           NEW locked \in BOOLEAN, Remember(i, r, locked)
    PROVE  Inv'
<1>1. /\ i \in Id /\ i \notin DOMAIN store /\ i \notin DOMAIN file /\ i \notin DOMAIN weighed
      /\ i \notin index /\ i \notin InHand
    BY DEF Fresh, Records
<1>2. /\ store' = With(store, i, r) /\ up /\ up' = up /\ adding' = adding \cup {i}
      /\ held' = IF locked THEN {i} ELSE held
      /\ file' = file /\ gcDue' = gcDue /\ index' = index /\ weighed' = weighed /\ wipe' = wipe
      /\ orphans' = orphans /\ revived' = revived /\ faulty' = faulty
    BY DEF Remember, history
<1>3. /\ GoodStore(store') /\ DOMAIN store' = DOMAIN store \cup {i}
      /\ store'[i] = r /\ \A j \in DOMAIN store : store'[j] = store[j]
    BY <1>1, <1>2, WithGood DEF Inv
<1>4. Active' = Active \cup {i}
    BY <1>1, <1>3 DEF Active, ActiveIn
<1>5. TypeOK'
    BY <1>1, <1>2, <1>3 DEF Inv, TypeOK, GoodStore
<1>6. Coming' = Coming \cup {i}
    BY <1>2 DEF Coming
<1>7. Later(store', file') /\ Later(weighed', file') /\ Later(weighed', store') /\ Later(store', weighed')
    BY <1>1, <1>2, <1>3 DEF Inv, Later
<1>8. Spared'
    BY <1>1, <1>2, <1>3 DEF Inv, Spared, Forgets, InHand
<1>9. ActiveIsFindable' /\ VectorsHaveRecords' /\ Coming' \ Active' \subseteq orphans'
    BY <1>1, <1>2, <1>4, <1>6 DEF Inv, ActiveIsFindable, VectorsHaveRecords
<1>. QED
    BY <1>2, <1>3, <1>5, <1>7, <1>8, <1>9 DEF Inv

LEMMA EmbedStep ==
    ASSUME Inv, NEW i \in adding, Embed(i)
    PROVE  Inv'
<1>1. /\ up /\ up' = up /\ adding' = adding \ {i} /\ held' = held \ {i}
      /\ store' = store /\ file' = file /\ gcDue' = gcDue /\ weighed' = weighed /\ wipe' = wipe
      /\ orphans' = orphans /\ revived' = revived
      /\ \/ index' = index \cup {i} /\ faulty' = faulty
         \/ index' = index /\ faulty' = faulty \cup {i}
    BY DEF Embed, IndexOf, memory
<1>2. i \in Id
    BY DEF Inv, TypeOK
<1>3. TypeOK'
    BY <1>1, <1>2 DEF Inv, TypeOK, IsStore
<1>4. Coming \subseteq Coming' \cup {i} /\ Coming' \subseteq Coming /\ i \in Coming
    BY <1>1 DEF Coming
<1>5. Active' = Active
    BY <1>1 DEF Active
<1>6. ActiveIsFindable'
    BY <1>1, <1>4, <1>5 DEF Inv, ActiveIsFindable
<1>7. i \in Active \/ i \in orphans
    BY <1>1, <1>4 DEF Inv
<1>8. VectorsHaveRecords' /\ Coming' \ Active' \subseteq orphans'
    BY <1>1, <1>4, <1>5, <1>7 DEF Inv, VectorsHaveRecords
<1>9. Spared'
    BY <1>1 DEF Inv, Spared, Forgets
<1>. QED
    BY <1>1, <1>3, <1>6, <1>8, <1>9 DEF Inv, Later, GoodStore, IsStore

LEMMA WeighStep ==
    ASSUME Inv, NEW i \in index \cap Records(store), Weigh(i)
    PROVE  Inv'
<1>1. /\ up /\ up' = up /\ weighed' = Only(store, {i})
      /\ store' = store /\ file' = file /\ index' = index /\ gcDue' = gcDue
      /\ adding' = adding /\ held' = held /\ wipe' = wipe
      /\ orphans' = orphans /\ revived' = revived /\ faulty' = faulty
    BY DEF Weigh, memory, history
<1>2. {i} \subseteq DOMAIN store
    BY DEF Records
<1>3. GoodStore(weighed') /\ DOMAIN weighed' = {i} /\ weighed'[i] = store[i]
    BY <1>1, <1>2, OnlyGood DEF Inv
<1>4. TypeOK'
    BY <1>1, <1>3 DEF Inv, TypeOK, GoodStore
<1>5. Later(weighed', file') /\ Later(weighed', store') /\ Later(store', weighed')
  <2>1. Later(store, file)
      BY DEF Inv
  <2>. QED
      BY <1>1, <1>2, <1>3, <2>1 DEF Later
<1>6. Spared'
    BY <1>1, <1>2, <1>3 DEF Inv, Spared, Forgets
<1>7. Coming' = Coming /\ Active' = Active
    BY <1>1 DEF Coming, Active
<1>8. ActiveIsFindable' /\ VectorsHaveRecords'
    BY <1>1, <1>7 DEF Inv, ActiveIsFindable, VectorsHaveRecords
<1>9. GoodStore(store') /\ GoodStore(file') /\ Later(store', file')
    BY <1>1 DEF Inv
<1>. QED
    BY <1>1, <1>3, <1>4, <1>5, <1>6, <1>7, <1>8, <1>9 DEF Inv

LEMMA ReinforceStep ==
    ASSUME Inv, NEW i \in Records(weighed), NEW age \in {0, weighed[i].age}, Reinforce(i, age)
    PROVE  Inv'
<1> DEFINE r == [weighed[i] EXCEPT !.age = age]
<1>1. /\ up /\ up' = up /\ store' = With(store, i, r) /\ weighed' = Empty
      /\ revived' = revived \cup ({i} \ Records(store))
      /\ file' = file /\ index' = index /\ gcDue' = gcDue
      /\ adding' = adding /\ held' = held /\ wipe' = wipe
      /\ orphans' = orphans /\ faulty' = faulty
    BY DEF Reinforce
<1>2. /\ i \in DOMAIN weighed /\ i \in Id /\ weighed[i] \in MemoryRecord /\ Sound(weighed[i])
    BY DEF Records, Inv, GoodStore, IsStore
<1>3. 0 \in 0 .. MaxAge
    BY RecallAssumption
<1>4. /\ r \in MemoryRecord /\ r.core = weighed[i].core /\ r.status = weighed[i].status
      /\ r.owner = weighed[i].owner /\ r.anchor = weighed[i].anchor
    BY <1>2, <1>3 DEF MemoryRecord
<1>5. Sound(r)
    BY <1>2, <1>4 DEF Sound
<1> HIDE DEF r
<1>6. /\ GoodStore(store') /\ DOMAIN store' = DOMAIN store \cup {i}
      /\ store'[i] = r /\ \A j \in DOMAIN store \ {i} : store'[j] = store[j]
  <2>. DEFINE new == With(store, i, r)
  <2>1. GoodStore(store)
      BY DEF Inv
  <2>2. /\ GoodStore(new) /\ DOMAIN new = DOMAIN store \cup {i} /\ new[i] = r
        /\ \A j \in DOMAIN store \ {i} : new[j] = store[j]
      BY <1>2, <1>4, <1>5, <2>1, WithGood
  <2>. HIDE DEF new
  <2>. QED
      BY <1>1, <2>2 DEF new
<1>7. GoodStore(weighed') /\ DOMAIN weighed' = {}
    BY <1>1, EmptyGood
<1>8. TypeOK'
    BY <1>1, <1>2, <1>6, <1>7 DEF Inv, TypeOK, GoodStore
<1>9. Later(store', file')
    BY <1>1, <1>2, <1>4, <1>6 DEF Inv, Later
<1>10. Later(weighed', file') /\ Later(weighed', store') /\ Later(store', weighed')
    BY <1>7, EmptyLater
<1>11. Spared'
    BY <1>1, <1>2, <1>4, <1>6, <1>7 DEF Inv, Spared, Forgets
<1>12. i \in DOMAIN store => store[i].status = weighed[i].status
    BY <1>2 DEF Inv, Later, GoodStore, IsStore, MemoryRecord
<1>13. Active \subseteq Active' /\ Active' \subseteq Active \cup ({i} \ Records(store))
    BY <1>4, <1>6, <1>12 DEF Active, ActiveIn, Records
<1>14. Coming' = Coming
    BY <1>1 DEF Coming
<1>15. ActiveIsFindable' /\ VectorsHaveRecords' /\ Coming' \ Active' \subseteq orphans'
    BY <1>1, <1>13, <1>14 DEF Inv, ActiveIsFindable, VectorsHaveRecords
<1>. QED
    BY <1>1, <1>6, <1>7, <1>8, <1>9, <1>10, <1>11, <1>15 DEF Inv

\* The steps that change nothing but the ages of the records.
LEMMA AgeStep ==
    ASSUME Inv, Aged(store, store'), Aged(file, file'), Aged(weighed, weighed'),
           \A i \in DOMAIN store : store'[i].status = store[i].status,
           \A i \in DOMAIN file : file'[i].status = file[i].status,
           \A i \in DOMAIN weighed : weighed'[i].status = weighed[i].status,
           up' = up, gcDue' \in BOOLEAN, UNCHANGED <<index, adding, held, wipe, history>>
    PROVE  Inv'
<1>0. orphans' = orphans /\ revived' = revived /\ faulty' = faulty
    BY DEF history
<1>1. GoodStore(store') /\ GoodStore(file') /\ GoodStore(weighed')
    BY AgedGood DEF Inv, GoodStore, Sound
<1>2. ActiveIn(store') = ActiveIn(store) /\ PrunedIn(file') = PrunedIn(file)
    BY DEF Aged, ActiveIn, PrunedIn
<1>3. ~up' => store' = Empty /\ weighed' = Empty
  <2>1. DOMAIN store = {} => store' = Empty
      BY DEF Aged, Empty
  <2>2. DOMAIN weighed = {} => weighed' = Empty
      BY DEF Aged, Empty
  <2>. QED
      BY <2>1, <2>2, EmptyGood DEF Inv
<1>4. Later(store', file') /\ Later(weighed', file') /\ Later(weighed', store') /\ Later(store', weighed')
    BY DEF Inv, Aged, Later
<1>5. TypeOK'
    BY <1>0, <1>1 DEF Inv, TypeOK, GoodStore
<1>6. Spared'
    BY DEF Inv, Spared, Forgets, Aged
<1>7. Coming' = Coming /\ Active' = Active
    BY <1>2 DEF Coming, Active
<1>8. ActiveIsFindable' /\ VectorsHaveRecords'
    BY <1>0, <1>7 DEF Inv, ActiveIsFindable, VectorsHaveRecords
<1>. QED
    BY <1>0, <1>1, <1>2, <1>3, <1>4, <1>5, <1>6, <1>7, <1>8 DEF Inv

LEMMA CollectStep == Inv /\ Collect => Inv'
<1> SUFFICES ASSUME Inv, Collect PROVE Inv'
    OBVIOUS
<1>1. PICK ids \in SUBSET Candidates :
          /\ store' = [i \in Records(store) |->
                          IF i \in ids THEN [store[i] EXCEPT !.status = "pruned"]
                                       ELSE store[i]]
          /\ Unindex(ids)
          /\ orphans' = orphans \cup (ids \cap Coming)
    BY DEF Collect
<1>2. PICK stuck \in SUBSET (ids \cap index) :
          /\ index' = index \ (ids \ stuck)
          /\ faulty' = faulty \cup stuck
    BY <1>1 DEF Unindex
<1>3. /\ up /\ up' = up /\ file' = file /\ gcDue' = FALSE /\ revived' = revived
      /\ adding' = adding /\ held' = held /\ weighed' = weighed /\ wipe' = wipe
      /\ DOMAIN weighed = {}
    BY DEF Collect, threads, LockIsFree, Records
<1>4. \A i \in ids : i \in DOMAIN store /\ ~store[i].anchor /\ ~store[i].core
    BY DEF Candidates, IsProtected, Active, ActiveIn, Inv, GoodStore, Sound
<1>5. Aged(store, store')
  <2> SUFFICES ASSUME NEW i \in DOMAIN store
               PROVE  /\ store'[i] \in MemoryRecord
                      /\ store'[i].owner = store[i].owner /\ store'[i].core = store[i].core
                      /\ store'[i].anchor = store[i].anchor
      BY <1>1 DEF Aged, Records
  <2>1. store[i] \in MemoryRecord
      BY DEF Inv, GoodStore, IsStore
  <2>2. store'[i] = store[i] \/ store'[i] = [store[i] EXCEPT !.status = "pruned"]
      BY <1>1 DEF Records
  <2>. QED
      BY <2>1, <2>2 DEF MemoryRecord
<1>6. \A i \in DOMAIN store : store'[i].status = IF i \in ids THEN "pruned" ELSE store[i].status
  <2>1. \A i \in DOMAIN store : store[i] \in MemoryRecord
      BY DEF Inv, GoodStore, IsStore
  <2>. QED
      BY <1>1, <2>1 DEF Records, MemoryRecord
<1>7. GoodStore(store')
    BY <1>4, <1>5, <1>6, AgedGood DEF Inv, GoodStore, Sound
<1>8. DOMAIN store' = DOMAIN store
    BY <1>5 DEF Aged
<1>9. Active' = Active \ ids
    BY <1>4, <1>6, <1>8 DEF Active, ActiveIn
<1>10. Coming' = Coming /\ Coming \subseteq Id
    BY <1>3 DEF Coming, Inv, TypeOK, Wipe
<1>11. TypeOK'
    BY <1>1, <1>2, <1>3, <1>4, <1>7, <1>10 DEF Inv, TypeOK, GoodStore, IsStore
<1>12. Later(store', file')
    BY <1>3, <1>5, <1>6, <1>8 DEF Inv, Aged, Later
<1>13. Later(weighed', store') /\ Later(store', weighed')
    BY <1>3, EmptyLater
<1>14. Spared'
    BY <1>3, <1>5 DEF Inv, Spared, Forgets, Aged
<1>15. ActiveIsFindable'
    BY <1>2, <1>3, <1>9, <1>10 DEF Inv, ActiveIsFindable
<1>16. VectorsHaveRecords'
    BY <1>1, <1>2, <1>3, <1>9 DEF Inv, VectorsHaveRecords
<1>17. Coming' \ Active' \subseteq orphans'
    BY <1>1, <1>3, <1>9, <1>10 DEF Inv
<1>. QED
    BY <1>3, <1>7, <1>11, <1>12, <1>13, <1>14, <1>15, <1>16, <1>17 DEF Inv

\* Records are dropped from the store, and every vector of theirs, there or to
\* come, is deleted or accounted for.
LEMMA DropStep ==
    ASSUME Inv, NEW ids \in SUBSET DOMAIN store, store' = Only(store, ids),
           up, up' = up, file' = file, gcDue' = gcDue, revived' = revived,
           adding' = adding, held' = held, weighed' = weighed,
           wipe' \in [Wiper -> Wipe], Coming' = Coming,
           \A w \in Wiper : Forgets(w)' => Forgets(w) /\ wipe'[w].todo \subseteq wipe[w].todo,
           index' \subseteq index, orphans' \in SUBSET Id, faulty' \in SUBSET Id,
           orphans \subseteq orphans', faulty \subseteq faulty',
           (index \ index') \cap ids = {},
           (index' \cap DOMAIN store) \ ids \subseteq orphans' \cup faulty',
           (Coming \cap DOMAIN store) \ ids \subseteq orphans'
    PROVE  Inv'
<1>1. /\ GoodStore(store') /\ DOMAIN store' = ids
      /\ \A i \in ids : store'[i] = store[i]
    BY OnlyGood DEF Inv
<1>2. TypeOK'
    BY <1>1 DEF Inv, TypeOK, GoodStore
<1>3. Active' = Active \cap ids /\ Active \subseteq DOMAIN store
    BY <1>1 DEF Active, ActiveIn
<1>4. ActiveIsFindable'
    BY <1>3 DEF Inv, ActiveIsFindable
<1>5. VectorsHaveRecords' /\ Coming' \ Active' \subseteq orphans'
    BY <1>3 DEF Inv, VectorsHaveRecords
<1>6. Later(store', file') /\ Later(weighed', store') /\ Later(store', weighed') /\ Later(weighed', file')
    BY <1>1 DEF Inv, Later
<1>7. Spared'
    BY <1>1 DEF Inv, Spared
<1>8. GoodStore(file') /\ GoodStore(weighed')
    BY DEF Inv
<1>. QED
    BY <1>1, <1>2, <1>4, <1>5, <1>6, <1>7, <1>8 DEF Inv

LEMMA DeleteStep ==
    ASSUME Inv, NEW p \in Owner, DeleteOwnerData(p)
    PROVE  Inv'
<1> DEFINE owned == {i \in Records(store) : store[i].owner = p /\ ~store[i].core}
           kept == DOMAIN store \ owned
<1>1. store' = Only(store, kept) /\ Unindex(owned) /\ orphans' = orphans \cup (owned \cap Coming)
    BY DEF DeleteOwnerData, Records
<1>2. /\ up /\ up' = up /\ file' = file /\ gcDue' = gcDue /\ revived' = revived
      /\ adding' = adding /\ held' = held /\ weighed' = weighed /\ wipe' = wipe
    BY DEF DeleteOwnerData, threads
<1>3. owned \subseteq DOMAIN store /\ kept \in SUBSET DOMAIN store /\ owned \cap kept = {}
    BY DEF Records
<1>3a. DOMAIN store = owned \cup kept /\ DOMAIN store \subseteq Id
    BY <1>3 DEF Inv, TypeOK, IsStore
<1> HIDE DEF owned, kept
<1>4. PICK stuck \in SUBSET (owned \cap index) :
          index' = index \ (owned \ stuck) /\ faulty' = faulty \cup stuck
    BY <1>1 DEF Unindex
<1>5. (index' \cap DOMAIN store) \ kept \subseteq orphans' \cup faulty'
    BY <1>3, <1>3a, <1>4
<1>6. orphans' \in SUBSET Id /\ faulty' \in SUBSET Id
    BY <1>1, <1>3a, <1>4 DEF Inv, TypeOK
<1>7. /\ index' \subseteq index /\ faulty \subseteq faulty' /\ orphans \subseteq orphans'
      /\ (index \ index') \cap kept = {} /\ (Coming \cap DOMAIN store) \ kept \subseteq orphans'
    BY <1>1, <1>3, <1>3a, <1>4
<1>8. Coming' = Coming /\ wipe' \in [Wiper -> Wipe]
    BY <1>2 DEF Coming, Inv, TypeOK
<1>9. \A w \in Wiper : Forgets(w)' => Forgets(w) /\ wipe'[w].todo \subseteq wipe[w].todo
    BY <1>2 DEF Forgets
<1>. QED
    BY <1>1, <1>2, <1>3, <1>5, <1>6, <1>7, <1>8, <1>9, DropStep

LEMMA ForgetStep ==
    ASSUME Inv, NEW w \in Wiper, NEW i \in wipe[w].todo, Forget(w, i)
    PROVE  Inv'
<1> DEFINE kept == DOMAIN store \ {i}
           v == [wipe[w] EXCEPT !.todo = @ \ {i}]
<1>1. /\ up /\ Forgets(w) /\ store' = Only(store, kept)
      /\ orphans' = orphans \cup ({i} \cap DOMAIN store \cap (index \cup Coming))
      /\ wipe' = [wipe EXCEPT ![w].todo = @ \ {i}]
      /\ up' = up /\ file' = file /\ index' = index /\ gcDue' = gcDue
      /\ adding' = adding /\ held' = held /\ weighed' = weighed
      /\ revived' = revived /\ faulty' = faulty
    BY DEF Forget, Records
<1>2. wipe \in [Wiper -> Wipe] /\ wipe[w] \in Wipe
    BY DEF Inv, TypeOK
<1>3. v \in Wipe /\ v.stage = wipe[w].stage /\ v.todo = wipe[w].todo \ {i} /\ wipe' = [wipe EXCEPT ![w] = v]
    BY <1>1, <1>2 DEF Wipe
<1> HIDE DEF v
<1>4. /\ wipe' \in [Wiper -> Wipe] /\ wipe'[w] = v
      /\ \A x \in Wiper \ {w} : wipe'[x] = wipe[x]
      /\ Coming' \subseteq Coming \cup (IF v.stage = "sync" THEN v.todo ELSE {})
      /\ Coming \subseteq Coming' \cup (IF wipe[w].stage = "sync" THEN wipe[w].todo ELSE {})
    BY <1>1, <1>2, <1>3, ComingMoves
<1>5. wipe[w].stage # "sync"
    BY <1>1 DEF Forgets
<1>6. Coming' = Coming
    BY <1>3, <1>4, <1>5
<1>7. \A x \in Wiper : Forgets(x)' => Forgets(x) /\ wipe'[x].todo \subseteq wipe[x].todo
    BY <1>3, <1>4 DEF Forgets
<1>8. DOMAIN store \subseteq Id /\ orphans \subseteq Id /\ faulty \subseteq Id
    BY DEF Inv, TypeOK, IsStore
<1>. QED
    BY <1>1, <1>4, <1>6, <1>7, <1>8, DropStep

\* A wipe begins, ends, or goes on to what it does next, and nothing else
\* happens to the records.
LEMMA WipeStep ==
    ASSUME Inv, NEW w \in Wiper, NEW v \in Wipe, wipe' = [wipe EXCEPT ![w] = v],
           up, up' = up, store' = store, file' = file, gcDue' = gcDue,
           adding' = adding, held' = held, weighed' = weighed,
           index' \in SUBSET Id, orphans' \in SUBSET Id, revived' \in SUBSET Id, faulty' \in SUBSET Id,
           v.stage \in {"shutdown", "reset"} => v.todo \cap CoreIn(store) = {} /\ v.todo \subseteq DOMAIN store,
           ActiveIsFindable', VectorsHaveRecords', Coming' \ Active' \subseteq orphans'
    PROVE  Inv'
<1>1. wipe \in [Wiper -> Wipe]
    BY DEF Inv, TypeOK
<1>2. /\ wipe' \in [Wiper -> Wipe] /\ wipe'[w] = v
      /\ \A x \in Wiper \ {w} : wipe'[x] = wipe[x]
    BY <1>1
<1>3. TypeOK'
    BY <1>2 DEF Inv, TypeOK, IsStore
<1>4. Spared'
  <2> SUFFICES ASSUME NEW x \in Wiper, Forgets(x)', NEW i \in wipe'[x].todo
               PROVE  /\ i \in DOMAIN store   => ~store[i].core
                      /\ i \in DOMAIN weighed => ~weighed[i].core
      BY DEF Spared
  <2>1. CASE x # w
      BY <1>2, <2>1 DEF Inv, Spared, Forgets
  <2>2. CASE x = w
    <3>1. i \in DOMAIN store /\ ~store[i].core
        BY <1>2, <2>2 DEF Forgets, CoreIn
    <3>. QED
        BY <3>1 DEF Inv, Later
  <2>. QED
      BY <2>1, <2>2
<1>5. GoodStore(store') /\ GoodStore(file') /\ GoodStore(weighed')
    BY DEF Inv
<1>6. Later(store', file') /\ Later(weighed', file') /\ Later(weighed', store') /\ Later(store', weighed')
    BY DEF Inv
<1>. QED
    BY <1>3, <1>4, <1>5, <1>6 DEF Inv

LEMMA BeginWipeStep ==
    ASSUME Inv, NEW w \in Wiper, NEW stage \in {"shutdown", "reset"}, BeginWipe(w, stage)
    PROVE  Inv'
<1> DEFINE v == [stage |-> stage, todo |-> Records(store) \ CoreIn(store)]
<1>1. /\ up /\ wipe[w] = Idle /\ wipe' = [wipe EXCEPT ![w] = v]
      /\ up' = up /\ store' = store /\ file' = file /\ gcDue' = gcDue /\ index' = index
      /\ adding' = adding /\ held' = held /\ weighed' = weighed
      /\ orphans' = orphans /\ revived' = revived /\ faulty' = faulty
    BY DEF BeginWipe, memory, history
<1>2. v \in Wipe /\ v.stage # "sync"
    BY DEF Inv, TypeOK, IsStore, Wipe, Records
<1>3. v.todo \cap CoreIn(store) = {} /\ v.todo \subseteq DOMAIN store
    BY DEF Records
<1> HIDE DEF v
<1>4. wipe \in [Wiper -> Wipe] /\ wipe[w].stage # "sync"
    BY <1>1 DEF Inv, TypeOK, Idle
<1>5. Coming' = Coming
    BY <1>1, <1>2, <1>4, ComingMoves
<1>6. Active' = Active
    BY <1>1 DEF Active
<1>7. ActiveIsFindable' /\ VectorsHaveRecords' /\ Coming' \ Active' \subseteq orphans'
    BY <1>1, <1>5, <1>6 DEF Inv, ActiveIsFindable, VectorsHaveRecords
<1>8. index' \in SUBSET Id /\ orphans' \in SUBSET Id /\ revived' \in SUBSET Id /\ faulty' \in SUBSET Id
    BY <1>1 DEF Inv, TypeOK
<1>. QED
    BY <1>1, <1>2, <1>3, <1>7, <1>8, WipeStep

LEMMA ShutdownStep ==
    ASSUME Inv, NEW w \in Wiper, CognitiveShutdown(w)
    PROVE  Inv'
<1>1. /\ up /\ wipe[w].stage = "shutdown" /\ wipe' = [wipe EXCEPT ![w] = Idle]
      /\ up' = up /\ store' = store /\ file' = file /\ gcDue' = gcDue /\ index' = index
      /\ adding' = adding /\ held' = held /\ weighed' = weighed
      /\ orphans' = orphans /\ revived' = revived /\ faulty' = faulty
    BY DEF CognitiveShutdown, memory, history
<1>2. Idle \in Wipe /\ Idle.stage = "off"
    BY DEF Idle, Wipe
<1>4. wipe \in [Wiper -> Wipe]
    BY DEF Inv, TypeOK
<1>5. Coming' = Coming
    BY <1>1, <1>2, <1>4, ComingMoves
<1>6. Active' = Active
    BY <1>1 DEF Active
<1>7. ActiveIsFindable' /\ VectorsHaveRecords' /\ Coming' \ Active' \subseteq orphans'
    BY <1>1, <1>5, <1>6 DEF Inv, ActiveIsFindable, VectorsHaveRecords
<1>8. index' \in SUBSET Id /\ orphans' \in SUBSET Id /\ revived' \in SUBSET Id /\ faulty' \in SUBSET Id
    BY <1>1 DEF Inv, TypeOK
<1>. QED
    BY <1>1, <1>2, <1>7, <1>8, WipeStep

\* What is active goes on the list of what the reset adds; what else is to come
\* has been accounted for.
LEMMA SoftResetStep ==
    ASSUME Inv, NEW w \in Wiper, SoftReset(w)
    PROVE  Inv'
<1> DEFINE v == [stage |-> "sync", todo |-> Active]
<1>1. /\ up /\ wipe[w].stage = "reset" /\ wipe' = [wipe EXCEPT ![w] = v]
      /\ up' = up /\ store' = store /\ file' = file /\ gcDue' = gcDue /\ revived' = {}
      /\ adding' = adding /\ held' = held /\ weighed' = weighed
    BY DEF SoftReset, memory
<1>2. \/ index' = {} /\ orphans' = orphans \cap Coming /\ faulty' = {}
      \/ index' = index /\ orphans' = orphans /\ faulty' = faulty
    BY DEF SoftReset
<1>3. v \in Wipe /\ v.stage = "sync" /\ v.todo = Active
    BY DEF Inv, TypeOK, IsStore, Wipe, Active, ActiveIn
<1> HIDE DEF v
<1>4. wipe \in [Wiper -> Wipe] /\ wipe[w].stage # "sync"
    BY <1>1 DEF Inv, TypeOK
<1>5. Coming' = Coming \cup Active
    BY <1>1, <1>3, <1>4, ComingMoves
<1>6. Active' = Active
    BY <1>1 DEF Active
<1>7. Coming \ Active \subseteq orphans /\ index \ Active \subseteq orphans \cup faulty
    BY <1>1 DEF Inv, VectorsHaveRecords
<1>8. Coming' \ Active' \subseteq orphans'
    BY <1>2, <1>5, <1>6, <1>7
<1>9. ActiveIsFindable'
    BY <1>5, <1>6 DEF ActiveIsFindable
<1>10. VectorsHaveRecords'
    BY <1>2, <1>6, <1>7 DEF VectorsHaveRecords
<1>11. index' \in SUBSET Id /\ orphans' \in SUBSET Id /\ revived' \in SUBSET Id /\ faulty' \in SUBSET Id
    BY <1>1, <1>2 DEF Inv, TypeOK
<1>. QED
    BY <1>1, <1>3, <1>8, <1>9, <1>10, <1>11, WipeStep

LEMMA SyncOneStep ==
    ASSUME Inv, NEW w \in Wiper, NEW i \in wipe[w].todo, SyncOne(w, i)
    PROVE  Inv'
<1> DEFINE v == [wipe[w] EXCEPT !.todo = @ \ {i}]
<1>1. /\ up /\ wipe[w].stage = "sync" /\ index' = index \cup {i}
      /\ wipe' = [wipe EXCEPT ![w].todo = @ \ {i}]
      /\ up' = up /\ store' = store /\ file' = file /\ gcDue' = gcDue
      /\ adding' = adding /\ held' = held /\ weighed' = weighed
      /\ orphans' = orphans /\ revived' = revived /\ faulty' = faulty
    BY DEF SyncOne, memory, history
<1>2. wipe \in [Wiper -> Wipe] /\ wipe[w] \in Wipe /\ i \in Id
    BY DEF Inv, TypeOK, Wipe
<1>3. v \in Wipe /\ v.stage = "sync" /\ v.todo = wipe[w].todo \ {i} /\ wipe' = [wipe EXCEPT ![w] = v]
    BY <1>1, <1>2 DEF Wipe
<1> HIDE DEF v
<1>4. /\ Coming' \subseteq Coming \cup v.todo /\ v.todo \subseteq Coming'
      /\ Coming \subseteq Coming' \cup wipe[w].todo
    BY <1>1, <1>2, <1>3, ComingMoves
<1>5. wipe[w].todo \subseteq Coming
    BY <1>1, ComingElements
<1>6. Active' = Active
    BY <1>1 DEF Active
<1>7. Coming' \subseteq Coming /\ Coming \subseteq Coming' \cup {i}
    BY <1>3, <1>4, <1>5
<1>8. i \in Active \/ i \in orphans
    BY <1>1, <1>5 DEF Inv
<1>9. ActiveIsFindable' /\ VectorsHaveRecords' /\ Coming' \ Active' \subseteq orphans'
    BY <1>1, <1>6, <1>7, <1>8 DEF Inv, ActiveIsFindable, VectorsHaveRecords
<1>10. index' \in SUBSET Id /\ orphans' \in SUBSET Id /\ revived' \in SUBSET Id /\ faulty' \in SUBSET Id
    BY <1>1, <1>2 DEF Inv, TypeOK
<1>. QED
    BY <1>1, <1>3, <1>9, <1>10, WipeStep

LEMMA EndSyncStep ==
    ASSUME Inv, NEW w \in Wiper, EndSync(w)
    PROVE  Inv'
<1> DEFINE lost == (wipe[w].todo \cap Active) \ index
<1>1. /\ up /\ wipe[w].stage = "sync" /\ faulty' = faulty \cup lost
      /\ wipe' = [wipe EXCEPT ![w] = Idle]
      /\ up' = up /\ store' = store /\ file' = file /\ gcDue' = gcDue /\ index' = index
      /\ adding' = adding /\ held' = held /\ weighed' = weighed
      /\ orphans' = orphans /\ revived' = revived
    BY DEF EndSync, memory
<1>2. wipe \in [Wiper -> Wipe] /\ wipe[w] \in Wipe /\ Idle \in Wipe /\ Idle.stage = "off"
    BY DEF Inv, TypeOK, Idle, Wipe
<1>3. Coming' \subseteq Coming /\ Coming \subseteq Coming' \cup wipe[w].todo
    BY <1>1, <1>2, ComingMoves
<1>4. Active' = Active
    BY <1>1 DEF Active
<1>5. ActiveIsFindable' /\ VectorsHaveRecords' /\ Coming' \ Active' \subseteq orphans'
    BY <1>1, <1>3, <1>4 DEF Inv, ActiveIsFindable, VectorsHaveRecords
<1>6. index' \in SUBSET Id /\ orphans' \in SUBSET Id /\ revived' \in SUBSET Id /\ faulty' \in SUBSET Id
    BY <1>1, <1>2 DEF Inv, TypeOK, Wipe
<1>. QED
    BY <1>1, <1>2, <1>5, <1>6, WipeStep

LEMMA CrashStep == Inv /\ Crash => Inv'
<1> SUFFICES ASSUME Inv, Crash PROVE Inv'
    OBVIOUS
<1>1. /\ up /\ up' = FALSE /\ store' = Empty /\ adding' = {} /\ held' = {} /\ weighed' = Empty
      /\ wipe' = [w \in Wiper |-> Idle] /\ revived' = {} /\ file' = file /\ index' = index
      /\ gcDue' = gcDue /\ orphans' = orphans /\ faulty' = faulty
    BY DEF Crash
<1>2. GoodStore(store') /\ GoodStore(weighed') /\ DOMAIN store' = {} /\ DOMAIN weighed' = {}
    BY <1>1, EmptyGood
<1>3. Later(store', file') /\ Later(weighed', file') /\ Later(weighed', store') /\ Later(store', weighed')
    BY <1>2, EmptyLater
<1>4. wipe' \in [Wiper -> Wipe]
    BY <1>1 DEF Idle, Wipe
<1>5. TypeOK'
    BY <1>1, <1>2, <1>4 DEF Inv, TypeOK, GoodStore
<1>6. PrunedIn(file) \cap Active = {}
    BY DEF Inv, Later, PrunedIn, Active, ActiveIn
<1>7. PrunedIn(file) \cap index \subseteq faulty \cup orphans
    BY <1>1, <1>6 DEF Inv, VectorsHaveRecords
<1>8. Spared'
    BY <1>2 DEF Spared
<1>9. GoodStore(file') /\ PrunedIn(file') = PrunedIn(file) /\ \A w \in Wiper : wipe'[w] = Idle
    BY <1>1 DEF Inv
<1>. QED
    BY <1>1, <1>2, <1>3, <1>5, <1>7, <1>8, <1>9 DEF Inv, ActiveIsFindable, VectorsHaveRecords

LEMMA SaveStep == Inv /\ Save => Inv'
<1> SUFFICES ASSUME Inv, Save PROVE Inv'
    OBVIOUS
<1>1. /\ up /\ up' = up /\ file' = store /\ store' = store /\ index' = index /\ gcDue' = gcDue
      /\ adding' = adding /\ held' = held /\ weighed' = weighed /\ wipe' = wipe
      /\ orphans' = orphans /\ revived' = revived /\ faulty' = faulty
      /\ DOMAIN weighed = {}
    BY DEF Save, threads, history, LockIsFree, Records
<1>2. TypeOK'
    BY <1>1 DEF Inv, TypeOK
<1>3. Later(store', file') /\ Later(weighed', file') /\ Later(weighed', store') /\ Later(store', weighed')
    BY <1>1, EmptyLater DEF Later
<1>4. Coming' = Coming /\ Active' = Active
    BY <1>1 DEF Coming, Active
<1>5. ActiveIsFindable' /\ VectorsHaveRecords'
    BY <1>1, <1>4 DEF Inv, ActiveIsFindable, VectorsHaveRecords
<1>6. Spared'
    BY <1>1 DEF Inv, Spared, Forgets
<1>7. GoodStore(store') /\ GoodStore(file') /\ GoodStore(weighed')
    BY <1>1 DEF Inv
<1>. QED
    BY <1>1, <1>2, <1>3, <1>4, <1>5, <1>6, <1>7 DEF Inv

LEMMA AccessedAged ==
    ASSUME NEW f, GoodStore(f), NEW ids
    PROVE  /\ Aged(f, Accessed(f, ids))
           /\ \A i \in DOMAIN f : Accessed(f, ids)[i].status = f[i].status
<1> SUFFICES ASSUME NEW i \in DOMAIN f
             PROVE  LET g == Accessed(f, ids)
                    IN  /\ g[i] \in MemoryRecord
                        /\ g[i].owner = f[i].owner /\ g[i].core = f[i].core
                        /\ g[i].anchor = f[i].anchor /\ g[i].status = f[i].status
    BY DEF Aged, Accessed
<1>1. f[i] \in MemoryRecord /\ 0 \in 0 .. MaxAge
    BY RecallAssumption DEF GoodStore, IsStore
<1>2. Accessed(f, ids)[i] = f[i] \/ Accessed(f, ids)[i] = [f[i] EXCEPT !.age = 0]
    BY DEF Accessed
<1>. QED
    BY <1>1, <1>2 DEF MemoryRecord

LEMMA Step == Inv /\ [Next]_vars => Inv'
<1> SUFFICES ASSUME Inv, [Next]_vars PROVE Inv'
    OBVIOUS
<1>1. ASSUME NEW i \in Fresh, Remember(i, Reflection, FALSE)
      PROVE  Inv'
    BY <1>1, RememberStep, RecordsGood
<1>2. ASSUME NEW i \in Fresh, NEW p \in Owner \cup {Mind}, NEW locked \in BOOLEAN,
             Remember(i, Told(p), locked)
      PROVE  Inv'
    BY <1>2, RememberStep, RecordsGood
<1>3. CASE RetrieveMemories
  <2>1. PICK found :
            /\ store' = Accessed(store, found \cap Active)
            /\ weighed' = Accessed(weighed, found \cap Active)
      BY <1>3 DEF RetrieveMemories
  <2>2. GoodStore(store) /\ GoodStore(weighed)
      BY DEF Inv
  <2>3. /\ Aged(store, store') /\ Aged(weighed, weighed')
        /\ \A i \in DOMAIN store : store'[i].status = store[i].status
        /\ \A i \in DOMAIN weighed : weighed'[i].status = weighed[i].status
      BY <2>1, <2>2, AccessedAged
  <2>4. Aged(file, file') /\ \A i \in DOMAIN file : file'[i].status = file[i].status
      BY <1>3 DEF RetrieveMemories, Aged, Inv, GoodStore, IsStore
  <2>. QED
      BY <1>3, <2>3, <2>4, AgeStep DEF RetrieveMemories, Inv, TypeOK
<1>4. CASE TimePasses
  <2>1. Aged(store, store') /\ Aged(file, file') /\ Aged(weighed, weighed')
      BY <1>4, OlderAged DEF TimePasses, Inv
  <2>2. /\ \A i \in DOMAIN store : store'[i].status = store[i].status
        /\ \A i \in DOMAIN file : file'[i].status = file[i].status
        /\ \A i \in DOMAIN weighed : weighed'[i].status = weighed[i].status
      BY <1>4, OlderAged DEF TimePasses, Inv
  <2>. QED
      BY <1>4, <2>1, <2>2, AgeStep DEF TimePasses, Inv, TypeOK
<1>5. CASE UNCHANGED vars
  <2>1. /\ up' = up /\ store' = store /\ file' = file /\ index' = index /\ gcDue' = gcDue
        /\ adding' = adding /\ held' = held /\ weighed' = weighed /\ wipe' = wipe
        /\ orphans' = orphans /\ revived' = revived /\ faulty' = faulty
      BY <1>5 DEF vars, memory, threads, history
  <2>2. Coming' = Coming /\ Active' = Active
      BY <2>1 DEF Coming, Active
  <2>. QED
      BY <2>1, <2>2 DEF Inv, TypeOK, Spared, Forgets, ActiveIsFindable, VectorsHaveRecords
<1>6. ASSUME NEW w \in Wiper, NEW i \in wipe[w].todo, Forget(w, i) \/ SyncOne(w, i)
      PROVE  Inv'
    BY <1>6, ForgetStep, SyncOneStep
<1>7. ASSUME NEW w \in Wiper, CognitiveShutdown(w) \/ SoftReset(w) \/ EndSync(w)
      PROVE  Inv'
    BY <1>7, ShutdownStep, SoftResetStep, EndSyncStep
<1>. QED
    BY <1>1, <1>2, <1>3, <1>4, <1>5, <1>6, <1>7, StartStep, CrashStep, SaveStep, EmbedStep,
       WeighStep, ReinforceStep, CollectStep, DeleteStep, BeginWipeStep DEF Next

-----------------------------------------------------------------------------
(* The theorems *)

THEOREM Invariance == Spec => []Inv
BY Initially, Step, PTL DEF Spec

\* Every reachable state has its type.
THEOREM TypeCorrect == Spec => []TypeOK
<1>1. Inv => TypeOK
    BY DEF Inv
<1>. QED
    BY <1>1, Invariance, PTL

\* Whatever is pruned, erased, wiped, saved and lost, and however often the
\* program crashes: an active memory has its vector or is about to, unless
\* adding it failed or it came back from a wipe.
THEOREM ActiveStaysFindable == Spec => []ActiveIsFindable
<1>1. Inv => ActiveIsFindable
    BY DEF Inv
<1>. QED
    BY <1>1, Invariance, PTL

\* However many threads reset the mind or throw the kill switch while others
\* remember: a vector without an active record comes from a failure, or from a
\* record that went while its vector was on its way or with nobody to remove it.
THEOREM VectorsKeepRecords == Spec => []VectorsHaveRecords
<1>1. Inv => VectorsHaveRecords
    BY DEF Inv
<1>. QED
    BY <1>1, Invariance, PTL

\* No collection, no erasure and no reinforcement takes an anchor, and no wipe
\* takes a Genesis Anchor.
THEOREM AnchorsAreKept == Spec => AnchorsOutlast
<1>1. ASSUME Inv, Next, NEW i \in Active, store[i].anchor, i \notin Active'
      PROVE  ~up' \/ \E w \in Wiper : Forgets(w) /\ i \in wipe[w].todo /\ ~store[i].core
  <2>0. i \in DOMAIN store /\ store[i].status = "active" /\ store[i].owner = Mind
      BY <1>1 DEF Active, ActiveIn, Inv, GoodStore, Sound
  <2>1. CASE Start
      BY <2>0, <2>1, <1>1, EmptyGood DEF Start, Inv
  <2>2. CASE Crash
      BY <2>2 DEF Crash
  <2>3. ASSUME i \in DOMAIN store', store'[i].status = "active"
        PROVE  FALSE
      BY <1>1, <2>3 DEF Active, ActiveIn
  <2>4. store' # store
      BY <2>0, <2>3
  <2>5. ASSUME NEW j \in Fresh, NEW r, NEW locked \in BOOLEAN, Remember(j, r, locked)
        PROVE  FALSE
    <3>1. j # i
        BY <2>0 DEF Fresh, Records
    <3>. QED
        BY <2>0, <2>3, <2>5, <3>1 DEF Remember, With
  <2>6. ASSUME NEW j \in Records(weighed), NEW age \in {0, weighed[j].age}, Reinforce(j, age)
        PROVE  FALSE
    <3>1. store' = With(store, j, [weighed[j] EXCEPT !.age = age])
        BY <2>6 DEF Reinforce
    <3>2. CASE j # i
        BY <2>0, <2>3, <3>1, <3>2 DEF With
    <3>3. CASE j = i
      <4>1. i \in DOMAIN weighed /\ weighed[i] \in MemoryRecord
          BY <1>1, <3>3 DEF Inv, GoodStore, IsStore, Records
      <4>2. weighed[i].status = "active"
          BY <1>1, <2>0, <4>1 DEF Inv, Later, MemoryRecord
      <4>3. [weighed[i] EXCEPT !.age = age].status = "active"
          BY <4>1, <4>2 DEF MemoryRecord
      <4>. QED
          BY <2>3, <3>1, <3>3, <4>3 DEF With
    <3>. QED
        BY <3>2, <3>3
  <2>7. CASE RetrieveMemories
    <3>1. PICK ids : store' = Accessed(store, ids)
        BY <2>7 DEF RetrieveMemories
    <3>2. GoodStore(store)
        BY <1>1 DEF Inv
    <3>3. i \in DOMAIN Accessed(store, ids) /\ Accessed(store, ids)[i].status = "active"
        BY <2>0, <3>2, AccessedAged DEF Aged
    <3>. QED
        BY <2>3, <3>1, <3>3
  <2>8. CASE TimePasses
    <3>1. GoodStore(store)
        BY <1>1 DEF Inv
    <3>2. i \in DOMAIN Older(store) /\ Older(store)[i].status = "active"
        BY <2>0, <3>1, OlderAged DEF Aged
    <3>. QED
        BY <2>3, <2>8, <3>2 DEF TimePasses
  <2>9. CASE Collect
    <3>1. i \notin Candidates
        BY <1>1 DEF Candidates, IsProtected
    <3>. QED
        BY <2>0, <2>3, <2>9, <3>1 DEF Collect, Records
  <2>10. ASSUME NEW p \in Owner, DeleteOwnerData(p)
         PROVE  FALSE
    <3>1. p # Mind
        BY RecallAssumption
    <3>. QED
        BY <2>0, <2>3, <2>10, <3>1 DEF DeleteOwnerData, Only, Records
  <2>11. ASSUME NEW w \in Wiper, NEW j \in wipe[w].todo, Forget(w, j)
         PROVE  \E x \in Wiper : Forgets(x) /\ i \in wipe[x].todo /\ ~store[i].core
    <3>1. Forgets(w) /\ store' = Only(store, Records(store) \ {j})
        BY <2>11 DEF Forget
    <3>2. j = i
        BY <2>0, <2>3, <3>1 DEF Only, Records
    <3>3. ~store[i].core
        BY <1>1, <2>0, <2>11, <3>1, <3>2 DEF Inv, Spared
    <3>. QED
        BY <2>11, <3>1, <3>2, <3>3
  <2>12. \/ Start \/ Crash
         \/ \E j \in Fresh : Remember(j, Reflection, FALSE)
         \/ \E j \in Fresh, p \in Owner \cup {Mind}, locked \in BOOLEAN : Remember(j, Told(p), locked)
         \/ \E j \in Records(weighed) : \E age \in {0, weighed[j].age} : Reinforce(j, age)
         \/ RetrieveMemories \/ TimePasses \/ Collect
         \/ \E p \in Owner : DeleteOwnerData(p)
         \/ \E w \in Wiper : \E j \in wipe[w].todo : Forget(w, j)
      BY <1>1, <2>4 DEF Next, Save, Embed, Weigh, BeginWipe, SyncOne, CognitiveShutdown,
                        SoftReset, EndSync, memory
  <2>. QED
      BY <2>1, <2>2, <2>5, <2>6, <2>7, <2>8, <2>9, <2>10, <2>11, <2>12
<1>2. Inv /\ [Next]_vars =>
        [\A i \in Active : store[i].anchor /\ i \notin Active' =>
            \/ ~up'
            \/ \E w \in Wiper : Forgets(w) /\ i \in wipe[w].todo /\ ~store[i].core]_vars
    BY <1>1
<1>. QED
    BY <1>2, Invariance, PTL DEF Spec, AnchorsOutlast

-----------------------------------------------------------------------------
(* What a collection takes *)

\* A collection takes some of the candidates, as many as Prunable says, and leaves
\* the other records as they are.
LEMMA WhatCollectTakes ==
    ASSUME Inv, Collect
    PROVE  \E ids \in SUBSET Candidates :
              /\ Cardinality(ids) = Smaller(MaxToPrune, Cardinality(Candidates))
              /\ Active' = Active \ ids
              /\ Candidates' = Candidates \ ids
<1>1. PICK ids \in SUBSET Candidates :
          /\ Prunable(ids)
          /\ store' = [i \in Records(store) |->
                          IF i \in ids THEN [store[i] EXCEPT !.status = "pruned"]
                                       ELSE store[i]]
    BY DEF Collect
<1>2. ids \subseteq Active /\ Active \subseteq DOMAIN store /\ DOMAIN store' = DOMAIN store
    BY <1>1 DEF Candidates, Active, ActiveIn, Records
<1>3. \A i \in DOMAIN store \ ids : store'[i] = store[i]
    BY <1>1 DEF Records
<1>4. ASSUME NEW i \in ids
      PROVE  store'[i].status = "pruned"
  <2>1. store[i] \in MemoryRecord
      BY <1>2 DEF Inv, GoodStore, IsStore
  <2>. QED
      BY <1>1, <1>2, <2>1 DEF Records, MemoryRecord
<1>5. Active' = Active \ ids
    BY <1>2, <1>3, <1>4 DEF Active, ActiveIn
<1>6. Candidates' = Candidates \ ids
    BY <1>2, <1>3, <1>5 DEF Candidates, IsProtected
<1>. QED
    BY <1>1, <1>5, <1>6 DEF Prunable

\* The active memories and the candidates can be counted.
LEMMA ActiveIsFinite ==
    ASSUME Inv
    PROVE  /\ IsFiniteSet(Active) /\ Cardinality(Active) \in Nat
           /\ IsFiniteSet(Candidates) /\ Cardinality(Candidates) \in Nat
<1>1. Active \in SUBSET Id /\ Candidates \in SUBSET Active
    BY DEF Inv, TypeOK, IsStore, Active, ActiveIn, Candidates
<1>2. IsFiniteSet(Active)
    BY <1>1, FS_Subset, RecallAssumption
<1>3. IsFiniteSet(Candidates)
    BY <1>1, <1>2, FS_Subset
<1>. QED
    BY <1>2, <1>3, FS_CardinalityType

\* The number a collection aims at covers what is over the limit; within the
\* limit it is at most half of the candidates.
LEMMA MaxToPruneBounds ==
    ASSUME Inv
    PROVE  /\ MaxToPrune \in Nat
           /\ Cardinality(Active) - Limit <= MaxToPrune
           /\ Cardinality(Active) <= Limit => 2 * MaxToPrune <= Cardinality(Candidates)
<1> DEFINE total == Cardinality(Active)
           count == Cardinality(Candidates)
           half  == count \div 2
<1>1. total \in Nat /\ count \in Nat /\ Limit \in Nat
    BY ActiveIsFinite, RecallAssumption
<1>2. half \in Nat /\ 2 * half <= count
    BY <1>1
<1>3. MaxToPrune = LET over == Larger(0, total - Limit)
                   IN  IF 2 * total > Limit THEN Larger(over, Smaller(half, 500)) ELSE over
    BY DEF MaxToPrune
<1> HIDE DEF total, count, half
<1>4. /\ MaxToPrune \in Nat
      /\ total - Limit <= MaxToPrune
      /\ total <= Limit => 2 * MaxToPrune <= count
    BY <1>1, <1>2, <1>3 DEF Larger, Smaller
<1>. QED
    BY <1>4 DEF total, count

\* Either all candidates go, or at least what is over the limit.
THEOREM CollectionsReachTheLimit == Spec => CollectionReachesLimit
<1>1. ASSUME Inv, Collect
      PROVE  Cardinality(Active') =< Limit \/ Candidates' = {}
  <2>1. PICK ids \in SUBSET Candidates :
            /\ Cardinality(ids) = Smaller(MaxToPrune, Cardinality(Candidates))
            /\ Active' = Active \ ids
            /\ Candidates' = Candidates \ ids
      BY <1>1, WhatCollectTakes
  <2>2. /\ IsFiniteSet(Active) /\ Cardinality(Active) \in Nat
        /\ IsFiniteSet(Candidates) /\ Cardinality(Candidates) \in Nat
      BY <1>1, ActiveIsFinite
  <2>3. MaxToPrune \in Nat /\ Cardinality(Active) - Limit <= MaxToPrune /\ Limit \in Nat
      BY <1>1, MaxToPruneBounds, RecallAssumption
  <2>4. CASE Cardinality(ids) = Cardinality(Candidates)
    <3>1. ids = Candidates
        BY <2>2, <2>4, FS_Subset
    <3>. QED
        BY <2>1, <3>1
  <2>5. CASE Cardinality(ids) # Cardinality(Candidates)
    <3>1. Cardinality(ids) = MaxToPrune
        BY <2>1, <2>5 DEF Smaller
    <3>2. Active \cap ids = ids
        BY <2>1 DEF Candidates
    <3>3. Cardinality(Active \ ids) = Cardinality(Active) - Cardinality(ids)
        BY <2>2, <3>2, FS_Difference
    <3>4. Cardinality(Active') = Cardinality(Active) - MaxToPrune
        BY <2>1, <3>1, <3>3
    <3>. QED
        BY <2>2, <2>3, <3>4
  <2>. QED
      BY <2>4, <2>5
<1>2. Inv /\ [Next]_vars =>
        [Collect => \/ Cardinality(Active') =< Limit
                    \/ Candidates' = {}]_vars
    BY <1>1
<1>. QED
    BY <1>2, Invariance, PTL DEF Spec, CollectionReachesLimit

\* Nothing is over the limit, so at most half of the candidates go.
THEOREM CollectionsAreGentle == Spec => CollectionIsGentle
<1>1. ASSUME Inv, Collect, Cardinality(Active) =< Limit
      PROVE  2 * Cardinality(Active \ Active') =< Cardinality(Candidates)
  <2>1. PICK ids \in SUBSET Candidates :
            /\ Cardinality(ids) = Smaller(MaxToPrune, Cardinality(Candidates))
            /\ Active' = Active \ ids
      BY <1>1, WhatCollectTakes
  <2>2. Cardinality(Candidates) \in Nat
      BY <1>1, ActiveIsFinite
  <2>3. MaxToPrune \in Nat /\ 2 * MaxToPrune <= Cardinality(Candidates)
      BY <1>1, MaxToPruneBounds
  <2>4. Active \ Active' = ids
      BY <2>1 DEF Candidates
  <2>. QED
      BY <2>1, <2>2, <2>3, <2>4 DEF Smaller
<1>2. Inv /\ [Next]_vars =>
        [Collect /\ Cardinality(Active) =< Limit =>
            2 * Cardinality(Active \ Active') =< Cardinality(Candidates)]_vars
    BY <1>1
<1>. QED
    BY <1>2, Invariance, PTL DEF Spec, CollectionIsGentle

=============================================================================
