--------------------------- MODULE FlashStoreProofs ---------------------------
(***************************************************************************)
(* The stores in flash, for every set of values, bound and number of       *)
(* failures.  The argument: a save writes generation g + 1 into the sector *)
(* of that parity, and the record of generation g lies in the other one;   *)
(* so an erase never reaches the record a boot would load.                 *)
(***************************************************************************)
EXTENDS FlashStore, TLAPS

Value == [config |-> Configs, routes |-> Tables]
RecordsOf(s) == [generation : Nat, value : Value[s] \cup {Nothing}]

Phases == {"idle", "erase", "write", "check"}

\* The shape of the state.
TypeOK ==
    /\ sector \in [Stores -> [Slots -> [generation : Nat, value : Configs \cup Tables \cup {Nothing}]]]
    /\ \A s \in Stores : sector[s] \in [Slots -> RecordsOf(s)]
    /\ generation \in [Stores -> Nat]
    /\ pending \in Configs /\ table \in Tables /\ content \in Tables \cup {Nothing}
    /\ up \in BOOLEAN /\ spoilt \in BOOLEAN
    /\ job \in [phase : Phases, store : Stores, by : {"none", "save", "tnc", "timer"},
                value : Configs \cup Tables \cup {Nothing}, before : TncSettings]
    /\ job.phase # "idle" => job.value \in Value[job.store]

\* A sector holds generations of its own parity, and no value without one.
Parity(pair) ==
    \A i \in Slots : /\ pair[i].generation # 0 => Slot(pair[i].generation) = i
                     /\ pair[i].generation = 0 <=> pair[i].value = Nothing

\* The save in progress has put its record in flash.
Arrived(s) == job.phase = "check" /\ job.store = s /\ Landed

\* What RAM counts is what flash holds.
Counted(s) ==
    /\ up /\ ~Arrived(s) => Load(sector[s]).generation = generation[s]
    /\ up /\ Arrived(s) => Load(sector[s]) = Rec(generation[s] + 1, job.value)

Inv ==
    /\ TypeOK
    /\ ~up => job.phase = "idle"
    /\ \A s \in Stores : Parity(sector[s])
    /\ Counted("config")

-----------------------------------------------------------------------------
USE FlashAssumption

\* Consecutive generations go to different sectors.
LEMMA SlotAlternates ==
    ASSUME NEW g \in Nat
    PROVE  Slot(g) \in Slots /\ Slot(g + 1) \in Slots /\ Slot(g) # Slot(g + 1)
BY DEF Slot, Slots

\* Load picks a record of the pair, and none is newer.
LEMMA LoadIsNewest ==
    ASSUME NEW s \in Stores, NEW pair \in [Slots -> RecordsOf(s)]
    PROVE  /\ Load(pair) \in RecordsOf(s)
           /\ \E i \in Slots : Load(pair) = pair[i]
           /\ \A i \in Slots : pair[i].generation <= Load(pair).generation
BY DEF Load, Slots, RecordsOf

\* Erasing the sector the next generation goes to leaves what a boot loads.
LEMMA EraseSparesNewest ==
    ASSUME NEW s \in Stores, NEW pair \in [Slots -> RecordsOf(s)],
           Parity(pair),
           NEW g \in Nat, g = Load(pair).generation,
           NEW after, after = [pair EXCEPT ![Slot(g + 1)] = Invalid]
    PROVE  /\ after \in [Slots -> RecordsOf(s)]
           /\ Parity(after)
           /\ Load(after) = Load(pair)
<1>1. Slot(g) \in Slots /\ Slot(g + 1) \in Slots /\ Slot(g) # Slot(g + 1)
  BY SlotAlternates
<1>2. after \in [Slots -> RecordsOf(s)] /\ Parity(after)
  BY <1>1 DEF Parity, Invalid, RecordsOf
<1>3. after[Slot(g + 1)] = Invalid /\ after[Slot(g)] = pair[Slot(g)]
  BY <1>1
<1>4. pair[Slot(g)] = Load(pair)
  <2>1. PICK i \in Slots : Load(pair) = pair[i]
    BY LoadIsNewest
  <2>2. CASE g # 0
    BY <2>1, <2>2 DEF Parity
  <2>3. CASE g = 0
    <3>1. \A j \in Slots : pair[j].generation = 0
      <4>1. \A j \in Slots : pair[j].generation <= Load(pair).generation
        BY LoadIsNewest
      <4>2. \A j \in Slots : pair[j].generation \in Nat
        BY DEF RecordsOf
      <4> QED BY <4>1, <4>2, <2>3
    <3>2. \A j \in Slots : pair[j] = [generation |-> 0, value |-> Nothing]
      BY <3>1 DEF Parity, RecordsOf
    <3> QED BY <2>1, <3>2, <1>1
  <2> QED BY <2>2, <2>3
<1>5. Load(after) = after[Slot(g)]
  <2>1. CASE g # 0
    BY <2>1, <1>1, <1>3, <1>4 DEF Load, Slots, Invalid, RecordsOf
  <2>2. CASE g = 0
    <3>1. pair[Slot(g)] = Invalid
      BY <2>2, <1>1, <1>4 DEF Parity, Invalid, RecordsOf
    <3>2. after[0] = Invalid /\ after[1] = Invalid
      BY <3>1, <1>1, <1>3 DEF Slots
    <3> QED BY <3>1, <3>2, <1>3 DEF Load
  <2> QED BY <2>1, <2>2
<1> QED BY <1>2, <1>3, <1>4, <1>5

\* A record written to the sector of its parity is where it belongs.
LEMMA WriteKeepsParity ==
    ASSUME NEW s \in Stores, NEW pair \in [Slots -> RecordsOf(s)],
           Parity(pair), NEW g \in Nat, NEW v \in Value[s]
    PROVE  Parity([pair EXCEPT ![Slot(g + 1)] = Rec(g + 1, v)])
<1> DEFINE after == [pair EXCEPT ![Slot(g + 1)] = Rec(g + 1, v)]
<1>1. Slot(g + 1) \in Slots
  BY SlotAlternates
<1>2. after[Slot(g + 1)] = Rec(g + 1, v) /\ \A i \in Slots \ {Slot(g + 1)} : after[i] = pair[i]
  BY <1>1
<1>3. v # Nothing
  BY DEF Value, Stores
<1>4. /\ after[Slot(g + 1)].generation = g + 1
      /\ after[Slot(g + 1)].value = v
  BY <1>2 DEF Rec
<1> QED BY <1>1, <1>2, <1>3, <1>4 DEF Parity

\* Writing the next generation there makes it what a boot loads.
LEMMA WriteIsNewest ==
    ASSUME NEW s \in Stores, NEW pair \in [Slots -> RecordsOf(s)],
           Parity(pair),
           NEW g \in Nat, g = Load(pair).generation,
           NEW v \in Value[s],
           NEW after, after = [pair EXCEPT ![Slot(g + 1)] = Rec(g + 1, v)]
    PROVE  /\ after \in [Slots -> RecordsOf(s)]
           /\ Parity(after)
           /\ after[Slot(g + 1)] = Rec(g + 1, v)
           /\ Load(after) = Rec(g + 1, v)
<1>1. Slot(g) \in Slots /\ Slot(g + 1) \in Slots /\ Slot(g) # Slot(g + 1)
  BY SlotAlternates
<1>2. Rec(g + 1, v) \in RecordsOf(s)
  BY DEF Rec, RecordsOf
<1>3. after \in [Slots -> RecordsOf(s)]
  BY <1>1, <1>2
<1>4. after[Slot(g + 1)] = Rec(g + 1, v) /\ \A i \in Slots \ {Slot(g + 1)} : after[i] = pair[i]
  BY <1>1
<1>5. Parity(after)
  BY WriteKeepsParity
<1>6. \A i \in Slots : pair[i].generation <= g
  BY LoadIsNewest
<1>7. Load(after) = Rec(g + 1, v)
  BY <1>1, <1>4, <1>6 DEF Load, Slots, Rec, RecordsOf
<1> QED BY <1>3, <1>4, <1>5, <1>7

-----------------------------------------------------------------------------
(***************************************************************************)
(* The invariant.                                                          *)
(***************************************************************************)
LEMMA InitInv == Init => Inv
<1> SUFFICES ASSUME Init PROVE Inv
  OBVIOUS
<1>1. TypeOK
  BY DEF Init, TypeOK, RecordsOf, Value, Invalid, Factory, Configs, NoJob, Stores, Slots, Phases
<1>2. \A s \in Stores : Parity(sector[s])
  BY DEF Init, Parity, Invalid, Stores, Slots
<1>3. Counted("config")
  BY DEF Init, Counted
<1> QED BY <1>1, <1>2, <1>3 DEF Inv, Init, NoJob

\* Steps that leave flash, the counters and the running save alone.
LEMMA QuietStep ==
    ASSUME Inv, UNCHANGED <<sector, generation, up, job>>,
           pending' \in Configs, table' \in Tables, content' \in Tables \cup {Nothing},
           spoilt' \in BOOLEAN
    PROVE  Inv'
BY DEF Inv, TypeOK, Counted, Arrived, Landed, Target

\* A new save changes nothing in flash.
LEMMA StartStep ==
    ASSUME Inv, UNCHANGED <<sector, generation, up, content, table, spoilt>>, up,
           job.phase = "idle", job'.phase = "erase",
           job' \in [phase : Phases, store : Stores, by : {"none", "save", "tnc", "timer"},
                     value : Configs \cup Tables \cup {Nothing}, before : TncSettings],
           job'.value \in Value[job'.store], pending' \in Configs
    PROVE  Inv'
<1>1. TypeOK'
  BY DEF Inv, TypeOK
<1>2. Counted("config")'
  BY DEF Inv, Counted, Arrived
<1> QED BY <1>1, <1>2 DEF Inv

\* The pair a save works on, after a write to the sector it targets.
LEMMA PutFacts ==
    ASSUME TypeOK, NEW r \in RecordsOf(job.store), Put(r)
    PROVE  /\ Target \in Slots
           /\ sector'[job.store] = [sector[job.store] EXCEPT ![Target] = r]
           /\ \A s \in Stores \ {job.store} : sector'[s] = sector[s]
           /\ sector' \in [Stores -> [Slots -> [generation : Nat, value : Configs \cup Tables \cup {Nothing}]]]
           /\ \A s \in Stores : sector'[s] \in [Slots -> RecordsOf(s)]
<1>1. job.store \in Stores /\ generation[job.store] \in Nat
  BY DEF TypeOK
<1>2. Target \in Slots
  BY <1>1, SlotAlternates DEF Target
<1>3. sector'[job.store] = [sector[job.store] EXCEPT ![Target] = r]
  BY <1>1 DEF Put, TypeOK
<1>4. \A s \in Stores \ {job.store} : sector'[s] = sector[s]
  BY DEF Put, TypeOK
<1>5. \A s \in Stores : sector[s] \in [Slots -> RecordsOf(s)]
  BY DEF TypeOK
<1>6. sector'[job.store] \in [Slots -> RecordsOf(job.store)]
  BY <1>1, <1>2, <1>3, <1>5
<1>7. \A s \in Stores : sector'[s] \in [Slots -> RecordsOf(s)]
  BY <1>4, <1>5, <1>6
<1>8. sector' \in [Stores -> [Slots -> [generation : Nat, value : Configs \cup Tables \cup {Nothing}]]]
  <2>1. r \in [generation : Nat, value : Configs \cup Tables \cup {Nothing}]
    BY <1>1 DEF RecordsOf, Value, Stores
  <2>2. [sector[job.store] EXCEPT ![Target] = r]
          \in [Slots -> [generation : Nat, value : Configs \cup Tables \cup {Nothing}]]
    BY <1>1, <1>2, <2>1 DEF TypeOK
  <2> QED BY <1>1, <2>2 DEF Put, TypeOK
<1> QED BY <1>2, <1>3, <1>4, <1>7, <1>8

\* The end of a save, whatever it reports.
LEMMA EndJobTypes ==
    ASSUME TypeOK, NEW ok \in BOOLEAN, EndJob(ok)
    PROVE  /\ pending' \in Configs
           /\ job' = NoJob
           /\ NoJob \in [phase : Phases, store : Stores, by : {"none", "save", "tnc", "timer"},
                         value : Configs \cup Tables \cup {Nothing}, before : TncSettings]
BY DEF TypeOK, EndJob, NoJob, Phases, Stores, Configs

LEMMA EraseInv ==
    ASSUME Inv, Erase
    PROVE  /\ Inv'
           /\ Load(sector'["config"]) = Load(sector["config"])
<1> DEFINE st == job.store
<1>1. /\ TypeOK /\ st \in Stores /\ generation[st] \in Nat
      /\ Invalid \in RecordsOf(st) /\ up /\ ~Arrived("config")
  BY DEF Inv, TypeOK, Invalid, RecordsOf, Erase, Arrived
<1>2. /\ Target \in Slots
      /\ sector'[st] = [sector[st] EXCEPT ![Target] = Invalid]
      /\ \A s \in Stores \ {st} : sector'[s] = sector[s]
      /\ sector' \in [Stores -> [Slots -> [generation : Nat, value : Configs \cup Tables \cup {Nothing}]]]
      /\ \A s \in Stores : sector'[s] \in [Slots -> RecordsOf(s)]
  BY <1>1, PutFacts DEF Erase
<1>3. \/ job' = [job EXCEPT !.phase = "write"] /\ UNCHANGED pending
      \/ job' = NoJob /\ pending' \in Configs
  BY <1>1, EndJobTypes DEF Erase
<1>4. TypeOK'
  <2>1. /\ job' \in [phase : Phases, store : Stores, by : {"none", "save", "tnc", "timer"},
                     value : Configs \cup Tables \cup {Nothing}, before : TncSettings]
        /\ job'.phase # "idle" => job'.value \in Value[job'.store]
    <3>1. CASE job' = [job EXCEPT !.phase = "write"]
      BY <3>1 DEF Inv, TypeOK, Phases, Erase
    <3>2. CASE job' = NoJob
      BY <3>2 DEF NoJob, Phases, Stores, Inv, TypeOK, Configs
    <3> QED BY <1>3, <3>1, <3>2
  <2>2. pending' \in Configs
    BY <1>3 DEF Inv, TypeOK
  <2> QED BY <1>2, <2>1, <2>2 DEF Inv, TypeOK, Erase
<1>5. \A s \in Stores : Parity(sector'[s])
  <2>1. Parity(sector[st])
    BY <1>1 DEF Inv
  <2>2. Parity(sector'[st])
    BY <1>1, <1>2, <2>1 DEF Parity, Invalid, TypeOK
  <2> QED BY <1>2, <2>2 DEF Inv
<1>6. Load(sector'["config"]) = Load(sector["config"])
  <2>1. CASE st = "config"
    <3>1. /\ sector["config"] \in [Slots -> RecordsOf("config")]
          /\ Parity(sector["config"])
          /\ generation["config"] = Load(sector["config"]).generation
      BY <1>1, <2>1 DEF Inv, TypeOK, RecordsOf, Value, Counted, Stores
    <3>2. sector'["config"] = [sector["config"] EXCEPT ![Slot(generation["config"] + 1)] = Invalid]
      BY <1>2, <2>1 DEF Target
    <3>3. generation["config"] \in Nat /\ "config" \in Stores
      BY <1>1, <2>1
    <3> HIDE DEF st
    <3> QED BY ONLY <3>1, <3>2, <3>3, EraseSparesNewest
  <2>2. CASE st # "config"
    <3>1. sector'["config"] = sector["config"]
      BY <1>2, <2>2 DEF Stores
    <3> QED BY <3>1 DEF Load
  <2> QED BY <2>1, <2>2
<1>7. Counted("config")'
  <2>1. ~Arrived("config")'
    BY <1>3, <1>1 DEF Arrived, NoJob, TypeOK
  <2>2. Load(sector["config"]).generation = generation["config"]
    BY <1>1 DEF Inv, Counted
  <2> QED BY <1>6, <2>1, <2>2 DEF Counted, Erase
<1>8. up'
  BY <1>1 DEF Erase
<1> QED BY <1>4, <1>5, <1>6, <1>7, <1>8 DEF Inv

LEMMA WriteInv ==
    ASSUME Inv, Write
    PROVE  /\ Inv'
           /\ job.store = "config" => Load(sector'["config"]).value = job.value /\ Arrived("config")'
           /\ job.store # "config" => sector'["config"] = sector["config"] /\ ~Arrived("config")'
<1> DEFINE st == job.store
           v == job.value
           g == generation[job.store]
<1>1. /\ TypeOK /\ st \in Stores /\ g \in Nat /\ v \in Value[st] /\ up
      /\ ~Arrived("config") /\ Parity(sector[st])
      /\ Rec(g + 1, v) \in RecordsOf(st)
  BY DEF Inv, TypeOK, Write, Arrived, Rec, RecordsOf
<1>2. /\ Target \in Slots
      /\ sector'[st] = [sector[st] EXCEPT ![Target] = Rec(g + 1, v)]
      /\ \A s \in Stores \ {st} : sector'[s] = sector[s]
      /\ sector' \in [Stores -> [Slots -> [generation : Nat, value : Configs \cup Tables \cup {Nothing}]]]
      /\ \A s \in Stores : sector'[s] \in [Slots -> RecordsOf(s)]
  BY <1>1, PutFacts DEF Write
<1>3. job' = [job EXCEPT !.phase = "check"] /\ UNCHANGED <<generation, pending, up>>
  BY DEF Write, ram
<1>4. TypeOK'
  BY <1>1, <1>2, <1>3 DEF TypeOK, Write, Phases, ram
<1>5. sector[st] \in [Slots -> RecordsOf(st)]
  BY <1>1 DEF TypeOK
<1>6. sector'[st] = [sector[st] EXCEPT ![Slot(g + 1)] = Rec(g + 1, v)]
  BY <1>2 DEF Target
<1>7. \A s \in Stores : Parity(sector'[s])
  <2>1. Parity([sector[st] EXCEPT ![Slot(g + 1)] = Rec(g + 1, v)])
    <3> HIDE DEF st, v, g
    <3> QED BY ONLY <1>1, <1>5, WriteKeepsParity
  <2>2. \A s \in Stores \ {st} : Parity(sector'[s])
    BY <1>2 DEF Inv
  <2> QED BY <1>6, <2>1, <2>2
<1>8. job.store # "config" => sector'["config"] = sector["config"] /\ ~Arrived("config")'
  <2>1. "config" \in Stores
    BY DEF Stores
  <2> QED BY <1>1, <1>2, <1>3, <2>1 DEF Arrived, TypeOK
<1>9. CASE st = "config"
  <2>1. generation["config"] = Load(sector["config"]).generation
    BY <1>1 DEF Inv, Counted
  <2>2. /\ sector'[st][Slot(g + 1)] = Rec(g + 1, v)
        /\ Load(sector'[st]) = Rec(g + 1, v)
    <3>1. g = Load(sector[st]).generation
      BY <2>1, <1>9
    <3> HIDE DEF st, v, g
    <3> QED BY ONLY <1>1, <1>5, <1>6, <3>1, WriteIsNewest
  <2>3. job'.phase = "check" /\ job'.store = "config" /\ job'.value = v
    BY <1>1, <1>3, <1>9 DEF TypeOK
  <2>4. Landed'
    BY <2>2, <2>3, <1>3, <1>9 DEF Landed, Target, Rec
  <2>5. Arrived("config")'
    BY <2>3, <2>4 DEF Arrived
  <2>6. Load(sector'["config"]) = Rec(generation'["config"] + 1, job'.value)
    BY <2>2, <2>3, <1>3, <1>9
  <2>7. Counted("config")'
    BY <2>5, <2>6 DEF Counted, Load
  <2>8. Load(sector'["config"]).value = job.value
    BY <2>2, <1>9 DEF Rec
  <2>9. up'
    BY <1>1, <1>3
  <2> QED BY <1>4, <1>7, <1>9, <2>5, <2>7, <2>8, <2>9 DEF Inv
<1>10. CASE st # "config"
  <2>1. Load(sector'["config"]).generation = generation'["config"]
    BY <1>1, <1>3, <1>8, <1>10 DEF Inv, Counted
  <2>2. Counted("config")'
    BY <1>8, <1>10, <2>1 DEF Counted, Load
  <2>3. up'
    BY <1>1, <1>3
  <2> QED BY <1>4, <1>7, <1>8, <1>10, <2>2, <2>3 DEF Inv
<1> QED BY <1>9, <1>10

\* Before its record is written, a save of the configuration has not landed.
LEMMA NotYetLanded ==
    ASSUME Inv, job.phase = "write", job.store = "config"
    PROVE  ~Landed
<1>1. /\ Load(sector["config"]).generation = generation["config"]
      /\ sector["config"] \in [Slots -> RecordsOf("config")]
      /\ "config" \in Stores /\ generation["config"] \in Nat
  BY DEF Inv, TypeOK, Counted, Arrived, Stores
<1>2. Target \in Slots
  BY <1>1, SlotAlternates DEF Target
<1>3. sector["config"][Target].generation <= generation["config"]
  BY <1>1, <1>2, LoadIsNewest
<1>4. sector["config"][Target].generation \in Nat
  BY <1>1, <1>2 DEF RecordsOf
<1> QED BY <1>1, <1>3, <1>4 DEF Landed

LEMMA WriteGoesWrongInv ==
    ASSUME Inv, WriteGoesWrong
    PROVE  /\ Inv' /\ ~Arrived("config")'
           /\ job'.phase # "idle" => job' = [job EXCEPT !.phase = "check"]
<1>1. TypeOK /\ up /\ ~Arrived("config")
  BY DEF Inv, TypeOK, WriteGoesWrong, Arrived
<1>2. /\ \/ job' = [job EXCEPT !.phase = "check"] /\ UNCHANGED pending
         \/ job' = NoJob /\ pending' \in Configs
      /\ UNCHANGED <<sector, up, generation, content, table, spoilt>>
  BY <1>1, EndJobTypes DEF WriteGoesWrong
<1>3. /\ job' \in [phase : Phases, store : Stores, by : {"none", "save", "tnc", "timer"},
                   value : Configs \cup Tables \cup {Nothing}, before : TncSettings]
      /\ job'.phase # "idle" => job'.value \in Value[job'.store]
  <2>1. CASE job' = [job EXCEPT !.phase = "check"]
    BY <2>1, <1>1 DEF TypeOK, Phases, WriteGoesWrong
  <2>2. CASE job' = NoJob
    BY <2>2, <1>1 DEF NoJob, Phases, Stores, TypeOK, Configs
  <2> QED BY <1>2, <2>1, <2>2
<1>4. TypeOK'
  BY <1>1, <1>2, <1>3 DEF TypeOK
<1>5. ~Arrived("config")'
  <2>1. CASE job' = [job EXCEPT !.phase = "check"]
    <3>1. job'.store = job.store
      BY <2>1, <1>1 DEF TypeOK
    <3>2. job.store = "config" => ~Landed
      BY NotYetLanded DEF WriteGoesWrong
    <3> QED BY <1>2, <3>1, <3>2 DEF Arrived, Landed, Target
  <2>2. CASE job' = NoJob
    BY <2>2 DEF Arrived, NoJob
  <2> QED BY <1>2, <2>1, <2>2
<1>6. Counted("config")'
  BY <1>1, <1>2, <1>5 DEF Inv, Counted
<1>7. job'.phase # "idle" => job' = [job EXCEPT !.phase = "check"]
  BY <1>2 DEF NoJob
<1> QED BY <1>1, <1>2, <1>4, <1>5, <1>6, <1>7 DEF Inv

LEMMA FinishInv ==
    ASSUME Inv, Finish
    PROVE  Inv'
<1>1. TypeOK /\ up /\ job.store \in Stores /\ "config" \in Stores
  BY DEF Inv, TypeOK, Finish, Stores
<1> DEFINE ok == ReadsBack => Landed
<1>2. /\ generation' = [generation EXCEPT ![job.store] = IF ok THEN @ + 1 ELSE @]
      /\ content' = IF job.store = "routes" THEN job.value ELSE content
      /\ EndJob(ok) /\ job.phase = "check"
      /\ UNCHANGED <<sector, up, table>>
  BY DEF Finish
<1>3. /\ pending' \in Configs /\ job' = NoJob
      /\ NoJob \in [phase : Phases, store : Stores, by : {"none", "save", "tnc", "timer"},
                    value : Configs \cup Tables \cup {Nothing}, before : TncSettings]
  <2>1. ok \in BOOLEAN
    BY DEF ReadsBack, Landed
  <2> HIDE DEF ok
  <2> QED BY <1>1, <1>2, <2>1, EndJobTypes
<1>4. spoilt' \in BOOLEAN
  BY DEF Finish
<1>5. content' \in Tables \cup {Nothing}
  BY <1>1, <1>2 DEF TypeOK, Value
<1>6. generation' \in [Stores -> Nat]
  BY <1>1, <1>2 DEF TypeOK
<1>7. TypeOK'
  BY <1>1, <1>2, <1>3, <1>4, <1>5, <1>6 DEF TypeOK, NoJob
<1>8. Load(sector["config"]).generation = generation'["config"]
  <2>1. CASE Arrived("config")
    <3>1. Load(sector["config"]).generation = generation["config"] + 1
      BY <2>1, <1>1 DEF Inv, Counted, Rec
    <3>2. ok /\ job.store = "config"
      BY <2>1 DEF Arrived
    <3> QED BY <3>1, <3>2, <1>1, <1>2 DEF TypeOK
  <2>2. CASE ~Arrived("config")
    <3>1. Load(sector["config"]).generation = generation["config"]
      BY <2>2, <1>1 DEF Inv, Counted
    <3>2. job.store = "config" => ~ok
      BY <2>2, <1>2 DEF Arrived, ReadsBack
    <3> QED BY <3>1, <3>2, <1>1, <1>2 DEF TypeOK
  <2> QED BY <2>1, <2>2
<1>9. Counted("config")'
  BY <1>2, <1>3, <1>8 DEF Counted, Arrived, NoJob, Load
<1> QED BY <1>1, <1>2, <1>7, <1>9 DEF Inv

LEMMA BootInv ==
    ASSUME Inv, Boot
    PROVE  Inv'
<1>1. \A s \in Stores : Load(sector[s]) \in RecordsOf(s)
  BY LoadIsNewest DEF Inv, TypeOK
<1>2. Found \in Configs
  BY <1>1 DEF Found, Factory, Configs, RecordsOf, Value, Stores
<1>3. table' \in Tables
  BY <1>1 DEF Boot, RecordsOf, Value, Stores
<1>4. generation' \in [Stores -> Nat]
  BY <1>1 DEF Boot, RecordsOf
<1>5. TypeOK'
  BY <1>2, <1>3, <1>4 DEF Inv, TypeOK, Boot
<1>6. Counted("config")'
  BY DEF Inv, Boot, Counted, Arrived, Stores
<1> QED BY <1>5, <1>6 DEF Inv, Boot

LEMMA PowerCutInv ==
    ASSUME Inv, PowerCut
    PROVE  Inv'
<1>1. TypeOK'
  BY DEF Inv, TypeOK, PowerCut, NoJob, Phases, Stores, Configs, ram
<1> QED BY <1>1 DEF Inv, PowerCut, NoJob, Counted

LEMMA SaveInv ==
    ASSUME Inv, SaveConfig \/ SaveRoutes \/ \E t \in TncSettings : SetTncAndSave(t)
    PROVE  Inv'
<1> DEFINE Jobs == [phase : Phases, store : Stores, by : {"none", "save", "tnc", "timer"},
                    value : Configs \cup Tables \cup {Nothing}, before : TncSettings]
<1>1. TypeOK
  BY DEF Inv
<1>2. CASE UNCHANGED <<job, pending>>
  BY <1>2, QuietStep, <1>1 DEF TypeOK, SaveConfig, SaveRoutes, SetTncAndSave, ram
<1>3. CASE SaveConfig /\ ~taken
  <2>1. pending.tnc \in TncSettings /\ pending \in Configs
    BY <1>1 DEF TypeOK, Configs
  <2>2. job' \in Jobs /\ job'.value \in Value[job'.store] /\ job'.phase = "erase"
    BY <1>3, <2>1 DEF SaveConfig, StartSave, Phases, Stores, Value
  <2> QED BY <1>1, <1>3, <2>2, StartStep DEF TypeOK, SaveConfig, Running, ram
<1>4. CASE SaveRoutes
  <2>1. job' \in Jobs /\ job'.value \in Value[job'.store] /\ job'.phase = "erase"
    BY <1>1, <1>4 DEF TypeOK, SaveRoutes, StartSave, Phases, Stores, Value
  <2> QED BY <1>1, <1>4, <2>1, StartStep DEF TypeOK, SaveRoutes, Running, ram
<1>5. ASSUME NEW t \in TncSettings, SetTncAndSave(t), ~taken, t # pending.tnc
      PROVE  Inv'
  <2>1. [pending EXCEPT !.tnc = t] \in Configs /\ pending.tnc \in TncSettings
    BY <1>1 DEF TypeOK, Configs
  <2>2. job' \in Jobs /\ job'.value \in Value[job'.store] /\ job'.phase = "erase"
    BY <1>5, <2>1 DEF SetTncAndSave, StartSave, Phases, Stores, Value
  <2> QED BY <1>1, <1>5, <2>1, <2>2, StartStep DEF SetTncAndSave, Running
<1> QED BY <1>2, <1>3, <1>4, <1>5 DEF SaveConfig, SetTncAndSave, ram

LEMMA RestInv ==
    ASSUME Inv, TakeFlash \/ SetField \/ (\E t \in Tables : Relearn(t)) \/ UNCHANGED vars
    PROVE  Inv'
<1>1. TypeOK
  BY DEF Inv
<1>2. CASE TakeFlash
  BY <1>1, <1>2, QuietStep DEF TypeOK, TakeFlash, ram
<1>3. CASE SetField
  BY <1>1, <1>3, QuietStep DEF TypeOK, SetField, Configs
<1>4. CASE \E t \in Tables : Relearn(t)
  BY <1>1, <1>4, QuietStep DEF TypeOK, Relearn
<1>5. CASE UNCHANGED vars
  BY <1>1, <1>5, QuietStep DEF TypeOK, vars, ram
<1> QED BY <1>2, <1>3, <1>4, <1>5

LEMMA NextInv == Inv /\ [Next]_vars => Inv'
BY EraseInv, WriteInv, WriteGoesWrongInv, FinishInv, BootInv, PowerCutInv, SaveInv, RestInv
   DEF Next

\* The shape of the state, the parity of the sectors and the agreement of RAM
\* with flash hold in every reachable state.
THEOREM Invariant == Spec => []Inv
<1>1. Init => Inv
  BY InitInv
<1>2. Inv /\ [Next]_vars => Inv'
  BY NextInv
<1> QED BY <1>1, <1>2, PTL DEF Spec

-----------------------------------------------------------------------------
(***************************************************************************)
(* The configuration store implements DurableStore.                        *)
(***************************************************************************)
LEMMA DurableInit == Init => Durable!Init
BY DEF Init, Durable!Init, Load, Invalid, SavingConfig, NoJob, Stores, Slots

\* Steps outside a save, and the start of one.
LEMMA DurableBetween ==
    ASSUME Inv,
           Boot \/ PowerCut \/ TakeFlash \/ SetField \/ SaveConfig \/ SaveRoutes
           \/ (\E t \in TncSettings : SetTncAndSave(t)) \/ (\E t \in Tables : Relearn(t))
           \/ UNCHANGED vars
    PROVE  [Durable!Next]_(Durable!vars)
<1>1. CASE UNCHANGED <<sector, generation, job>>
  BY <1>1 DEF Durable!vars, SavingConfig, Landed, Target, Load
<1>2. CASE Boot
  BY <1>2 DEF Boot, Durable!vars, SavingConfig, Inv, Load
<1>3. CASE PowerCut
  <2>1. Durable!PowerCut
    BY <1>3 DEF PowerCut, Durable!PowerCut, NoJob, SavingConfig, Load
  <2> QED BY <2>1 DEF Durable!Next
<1>4. ASSUME NEW v \in Configs, NEW by, NEW before, StartSave("config", by, v, before),
             job.phase = "idle", UNCHANGED sector
      PROVE  [Durable!Next]_(Durable!vars)
  <2>1. Durable!Begin(v)
    BY <1>4 DEF StartSave, Durable!Begin, SavingConfig, Load
  <2> QED BY <2>1 DEF Durable!Next
<1>5. CASE SaveConfig /\ ~taken
  BY <1>4, <1>5 DEF SaveConfig, Running, Inv, TypeOK
<1>6. ASSUME NEW t \in TncSettings, SetTncAndSave(t), ~taken, t # pending.tnc
      PROVE  [Durable!Next]_(Durable!vars)
  <2>1. [pending EXCEPT !.tnc = t] \in Configs
    BY DEF Inv, TypeOK, Configs
  <2> QED BY <1>4, <1>6, <2>1 DEF SetTncAndSave, Running
<1>7. CASE SaveRoutes
  BY <1>7 DEF SaveRoutes, Running, StartSave, Durable!vars, SavingConfig, Load, ram
<1>8. CASE TakeFlash \/ SetField \/ (\E t \in Tables : Relearn(t)) \/ UNCHANGED vars
  BY <1>1, <1>8 DEF TakeFlash, SetField, Relearn, vars, ram
<1> QED BY <1>1, <1>2, <1>3, <1>5, <1>6, <1>7, <1>8 DEF SaveConfig, SetTncAndSave, ram

\* The steps of a save.
LEMMA DurableSave ==
    ASSUME Inv, Erase \/ Write \/ WriteGoesWrong \/ Finish
    PROVE  [Durable!Next]_(Durable!vars)
<1>1. job.phase # "idle" /\ job.store \in Stores /\ job.value \in Value[job.store]
  BY DEF Inv, TypeOK, Erase, Write, WriteGoesWrong, Finish
<1>2. job.store = "config" => SavingConfig /\ job.value # Nothing
  BY <1>1 DEF SavingConfig, Value
<1>3. ASSUME job' = NoJob, Load(sector'["config"]) = Load(sector["config"])
      PROVE  [Durable!Next]_(Durable!vars)
  <2>1. ~SavingConfig'
    BY <1>3 DEF SavingConfig, NoJob
  <2>2. CASE SavingConfig /\ job.phase = "check" /\ Landed
    <3>1. Durable!Acknowledge
      BY <1>3, <2>1, <2>2 DEF Durable!Acknowledge, Load
    <3> QED BY <3>1 DEF Durable!Next
  <2>3. CASE ~(SavingConfig /\ job.phase = "check" /\ Landed)
    <3>1. Durable!Refuse
      BY <1>3, <2>1, <2>3 DEF Durable!Refuse, Load
    <3> QED BY <3>1 DEF Durable!Next
  <2> QED BY <2>2, <2>3
<1>4. ASSUME job.phase # "check", ~Arrived("config")', job' = [job EXCEPT !.phase = job'.phase],
             job'.phase # "idle", Load(sector'["config"]) = Load(sector["config"])
      PROVE  UNCHANGED Durable!vars
  <2>1. job'.store = job.store /\ job'.value = job.value
    BY <1>4 DEF Inv, TypeOK
  <2> QED BY <1>1, <1>4, <2>1 DEF Durable!vars, SavingConfig, Arrived, Load
<1>5. CASE Erase
  <2>1. Load(sector'["config"]) = Load(sector["config"])
    BY <1>5, EraseInv
  <2>2. CASE job' = NoJob
    BY <1>3, <2>1, <2>2
  <2>3. CASE job' = [job EXCEPT !.phase = "write"]
    <3>1. job'.phase = "write"
      BY <2>3 DEF Inv, TypeOK
    <3> QED BY <1>4, <1>5, <2>1, <2>3, <3>1 DEF Erase, Arrived
  <2> QED BY <1>5, <2>2, <2>3 DEF Erase, EndJob
<1>6. CASE Write
  <2>1. job' = [job EXCEPT !.phase = "check"] /\ job'.phase = "check" /\ job.phase = "write"
    BY <1>6 DEF Write, Inv, TypeOK
  <2>2. CASE job.store = "config"
    <3>1. Load(sector'["config"]).value = job.value /\ Arrived("config")'
      BY <1>6, <2>2, WriteInv
    <3>2. job'.value = job.value /\ job'.store = job.store
      BY <2>1 DEF Inv, TypeOK
    <3>3. Durable!Land
      BY <1>2, <2>1, <2>2, <3>1, <3>2 DEF Durable!Land, SavingConfig, Arrived, Load
    <3> QED BY <3>3 DEF Durable!Next
  <2>3. CASE job.store # "config"
    <3>1. sector'["config"] = sector["config"] /\ ~Arrived("config")'
      BY <1>6, <2>3, WriteInv
    <3>2. Load(sector'["config"]) = Load(sector["config"])
      BY <3>1
    <3> QED BY <1>4, <2>1, <3>1, <3>2
  <2> QED BY <2>2, <2>3
<1>7. CASE WriteGoesWrong
  <2>1. /\ ~Arrived("config")' /\ job.phase = "write" /\ sector' = sector
        /\ job' = NoJob \/ job' = [job EXCEPT !.phase = "check"]
    BY <1>7, WriteGoesWrongInv DEF WriteGoesWrong, EndJob
  <2>2. Load(sector'["config"]) = Load(sector["config"])
    BY <2>1
  <2>3. CASE job' = NoJob
    BY <1>3, <2>2, <2>3
  <2>4. CASE job' = [job EXCEPT !.phase = "check"]
    <3>1. job'.phase = "check"
      BY <2>4 DEF Inv, TypeOK
    <3> QED BY <1>4, <2>1, <2>2, <2>4, <3>1
  <2> QED BY <2>1, <2>3, <2>4
<1>8. CASE Finish
  <2>1. job' = NoJob /\ sector' = sector
    BY <1>8 DEF Finish, EndJob
  <2>2. Load(sector'["config"]) = Load(sector["config"])
    BY <2>1
  <2> QED BY <1>3, <2>1, <2>2
<1> QED BY <1>5, <1>6, <1>7, <1>8

\* A boot finds the configuration saved last: whatever the power cuts, the
\* failed and the bad writes, the store implements DurableStore ("a torn write
\* can never lose the previous config", config_store.rs).
THEOREM ConfigIsDurable == Spec => ConfigDurable
<1>1. Init => Durable!Init
  BY DurableInit
<1>2. Inv /\ [Next]_vars => [Durable!Next]_(Durable!vars)
  BY DurableBetween, DurableSave DEF Next
<1>3. Spec => []Inv
  BY Invariant
<1> QED BY <1>1, <1>2, <1>3, PTL DEF Spec, ConfigDurable, Durable!Spec

-----------------------------------------------------------------------------
(***************************************************************************)
(* What a save called saved is in flash: the pending settings are those in *)
(* flash whenever no save is in progress, but for what the console has     *)
(* staged since, so that set_tnc_and_save may answer from them otherwise.  *)
(***************************************************************************)
Settled ==
    /\ job.store = "routes" => job.by # "tnc"
    /\ up /\ ~SavingConfig /\ ~staged => pending.tnc = Found.tnc
    /\ SavingConfig =>
         /\ ~reply.ok
         /\ job.by \in {"save", "tnc"}
         /\ job.value.tnc = pending.tnc
         /\ ~Arrived("config") /\ ~staged =>
              Found.tnc = IF job.by = "tnc" THEN job.before ELSE pending.tnc
    /\ OkMeansStored

LEMMA ArrivedIsFound ==
    ASSUME Inv, Arrived("config")
    PROVE  Found = job.value
<1>1. up /\ job.value # Nothing
  BY DEF Inv, TypeOK, Arrived, Value
<1> QED BY <1>1 DEF Inv, Counted, Rec, Found

\* The flash a boot would find is the same after a step that leaves Load alone.
LEMMA SameFound ==
    ASSUME Load(sector'["config"]) = Load(sector["config"])
    PROVE  Found' = Found
BY DEF Found, Load, Factory

\* A save that fails puts the settings back as flash has them.
LEMMA RefusedIsSettled ==
    ASSUME Inv, Settled, job.phase # "idle", ~Arrived("config"), EndJob(FALSE),
           Load(sector'["config"]) = Load(sector["config"])
    PROVE  Settled'
<1>1. Found' = Found /\ ~SavingConfig' /\ up
  BY SameFound DEF EndJob, SavingConfig, NoJob, Inv
<1>2. CASE job.store = "config"
  <2>1. /\ SavingConfig
        /\ job.by \in {"save", "tnc"} /\ job.value.tnc = pending.tnc
        /\ ~staged => Found.tnc = IF job.by = "tnc" THEN job.before ELSE pending.tnc
    BY <1>2 DEF Settled, SavingConfig
  <2>2. ~staged' => pending'.tnc = Found.tnc
    BY <2>1 DEF EndJob, Inv, TypeOK, Configs
  <2>3. ~reply'.ok
    BY <1>2, <2>1 DEF EndJob, Said
  <2> QED BY <1>1, <2>2, <2>3 DEF Settled, OkMeansStored, ReplyStored, EndJob, NoJob
<1>3. CASE job.store # "config"
  <2>1. job.store = "routes"
    BY <1>3 DEF Inv, TypeOK, Stores
  <2>2. job.by # "tnc" /\ OkMeansStored /\ ~SavingConfig
    BY <1>3, <2>1 DEF Settled, SavingConfig
  <2>3. ~staged => pending.tnc = Found.tnc
    BY <1>1, <2>2 DEF Settled
  <2>4. reply' = reply
    BY <2>1, <2>2 DEF EndJob
  <2>5. pending' = pending /\ (staged' <=> staged)
    BY <2>2 DEF EndJob
  <2> QED BY <1>1, <2>2, <2>3, <2>4, <2>5 DEF Settled, OkMeansStored, ReplyStored, EndJob, NoJob
<1> QED BY <1>2, <1>3

\* Steps outside a save, and the start of one.
LEMMA SettledBetween ==
    ASSUME Inv, Settled,
           Boot \/ PowerCut \/ TakeFlash \/ SetField \/ SaveConfig \/ SaveRoutes
           \/ (\E t \in TncSettings : SetTncAndSave(t)) \/ (\E t \in Tables : Relearn(t))
           \/ UNCHANGED vars
    PROVE  Settled'
<1>1. pending \in Configs
  BY DEF Inv, TypeOK
<1>2. sector' = sector
  BY DEF Boot, PowerCut, TakeFlash, SetField, SaveConfig, SaveRoutes, SetTncAndSave, Relearn, vars
<1>3. Found' = Found
  BY <1>2 DEF Found, Load, Factory
<1>4. CASE UNCHANGED <<job, generation, up, reply, staged>> /\ pending'.tnc = pending.tnc
  BY <1>2, <1>3, <1>4 DEF Settled, SavingConfig, OkMeansStored, ReplyStored, Arrived, Landed, Target
<1>5. CASE TakeFlash \/ (\E t \in Tables : Relearn(t)) \/ UNCHANGED vars
  BY <1>4, <1>5 DEF TakeFlash, Relearn, vars, ram
<1>6. CASE Boot
  <2>1. ~SavingConfig' /\ pending' = Found /\ UNCHANGED <<reply, job>>
    BY <1>6 DEF Boot, Inv, SavingConfig
  <2> QED BY <1>3, <2>1 DEF Settled, OkMeansStored, ReplyStored
<1>7. CASE PowerCut
  <2>1. ~SavingConfig' /\ ~up' /\ reply' = reply /\ job' = NoJob
    BY <1>7 DEF PowerCut, SavingConfig, NoJob
  <2> QED BY <1>3, <2>1 DEF Settled, OkMeansStored, ReplyStored, NoJob
<1>8. CASE SetField
  <2>1. /\ reply' = NoReply /\ UNCHANGED <<job, generation, up>>
        /\ ~staged' => ~staged /\ pending'.tnc = pending.tnc
    <3>1. ASSUME NEW t \in TncSettings, pending' = [pending EXCEPT !.tnc = t],
                 staged' = (staged \/ t # pending.tnc), ~staged'
          PROVE  ~staged /\ pending'.tnc = pending.tnc
      BY <1>1, <3>1 DEF Configs
    <3>2. ASSUME NEW v \in Rest, pending' = [pending EXCEPT !.rest = v], UNCHANGED staged
          PROVE  pending'.tnc = pending.tnc
      BY <1>1, <3>2 DEF Configs
    <3> QED BY <1>8, <3>1, <3>2 DEF SetField
  <2>2. ~SavingConfig
    BY <1>8 DEF SetField, Running, SavingConfig
  <2>3. ~SavingConfig' /\ ~reply'.ok /\ up' = up
    BY <2>1, <2>2 DEF SavingConfig, NoReply, Said
  <2> QED BY <1>3, <2>1, <2>2, <2>3 DEF Settled, OkMeansStored, ReplyStored
<1>9. ASSUME Running, reply' = Said(FALSE, reply'.tnc, reply'.rest), UNCHANGED <<job, pending, up, staged>>
      PROVE  Settled'
  <2>1. ~SavingConfig /\ ~SavingConfig' /\ ~reply'.ok
    BY <1>9 DEF Running, SavingConfig, Said
  <2> QED BY <1>3, <1>9, <2>1 DEF Settled, OkMeansStored, ReplyStored
<1>10. ASSUME Running, NEW v \in Configs, NEW by \in {"save", "tnc"},
              StartSave("config", by, v, pending.tnc),
              pending'.tnc = v.tnc, by = "save" => v = pending,
              reply' = NoReply, UNCHANGED <<up, staged>>
       PROVE  Settled'
  <2>1. ~staged => pending.tnc = Found.tnc
    BY <1>10 DEF Settled, Running, SavingConfig
  <2>2. /\ SavingConfig' /\ job'.by = by /\ job'.value = v /\ job'.before = pending.tnc
        /\ job'.store = "config" /\ ~reply'.ok
    BY <1>10 DEF StartSave, SavingConfig, NoReply, Said
  <2> QED BY <1>3, <1>10, <2>1, <2>2 DEF Settled, OkMeansStored, ReplyStored
<1>11. CASE SaveConfig
  <2>1. CASE taken
    <3>1. reply' = Said(FALSE, reply'.tnc, reply'.rest)
      BY <1>11, <2>1 DEF SaveConfig, Said
    <3> QED BY <1>9, <1>11, <2>1, <3>1 DEF SaveConfig, ram
  <2>2. CASE ~taken
    BY <1>1, <1>10, <1>11, <2>2 DEF SaveConfig, ram
  <2> QED BY <2>1, <2>2
<1>12. ASSUME NEW t \in TncSettings, SetTncAndSave(t)
       PROVE  Settled'
  <2>1. CASE taken
    <3>1. reply' = Said(FALSE, reply'.tnc, reply'.rest)
      BY <1>12, <2>1 DEF SetTncAndSave, Said
    <3> QED BY <1>9, <1>12, <2>1, <3>1 DEF SetTncAndSave
  <2>2. CASE ~taken /\ t = pending.tnc
    <3>1. /\ reply' = [Said(TRUE, t, Nothing) EXCEPT !.staged = staged]
          /\ UNCHANGED <<job, pending, up, staged>> /\ Running
      BY <1>12, <2>2 DEF SetTncAndSave
    <3>2. ~SavingConfig /\ ~SavingConfig' /\ (~staged => pending.tnc = Found.tnc)
      BY <3>1 DEF Running, SavingConfig, Settled
    <3>3. reply'.tnc = t /\ reply'.rest = Nothing /\ reply'.staged = staged
      BY <3>1 DEF Said
    <3> QED BY <1>3, <2>2, <3>1, <3>2, <3>3 DEF Settled, OkMeansStored, ReplyStored
  <2>3. CASE ~taken /\ t # pending.tnc
    <3>1. [pending EXCEPT !.tnc = t] \in Configs /\ [pending EXCEPT !.tnc = t].tnc = t
      BY <1>1 DEF Configs
    <3> QED BY <1>10, <1>12, <2>3, <3>1 DEF SetTncAndSave
  <2> QED BY <2>1, <2>2, <2>3
<1>13. CASE SaveRoutes
  <2>1. /\ ~SavingConfig /\ up /\ ~SavingConfig' /\ job'.by = "timer"
        /\ UNCHANGED <<up, reply, pending, staged>>
    BY <1>13 DEF SaveRoutes, Running, StartSave, SavingConfig, ram
  <2> QED BY <1>3, <2>1 DEF Settled, OkMeansStored, ReplyStored
<1> QED BY <1>5, <1>6, <1>7, <1>8, <1>11, <1>12, <1>13

\* The steps of a save.
LEMMA SettledSave ==
    ASSUME Inv, Settled, Erase \/ Write \/ WriteGoesWrong \/ Finish
    PROVE  Settled'
<1>1. job.phase # "idle" /\ job.store \in Stores /\ up /\ job.value \in Value[job.store]
  BY DEF Inv, TypeOK, Erase, Write, WriteGoesWrong, Finish
<1>2. ASSUME job' = [job EXCEPT !.phase = job'.phase], job'.phase # "idle",
             UNCHANGED <<reply, pending, up, staged>>, job.phase # "check",
             Arrived("config")' \/ Load(sector'["config"]) = Load(sector["config"]),
             ~SavingConfig => Load(sector'["config"]) = Load(sector["config"])
      PROVE  Settled'
  <2>1. job'.store = job.store /\ job'.value = job.value /\ job'.by = job.by /\ job'.before = job.before
    BY <1>2 DEF Inv, TypeOK
  <2>2. SavingConfig' = SavingConfig
    BY <1>1, <1>2, <2>1 DEF SavingConfig
  <2>3. ~Arrived("config")
    BY <1>2 DEF Arrived
  <2>4. CASE SavingConfig
    <3>1. ~reply'.ok
      BY <1>2, <2>4 DEF Settled
    <3>2. Arrived("config")' \/ Found' = Found
      BY <1>2, SameFound
    <3> QED BY <1>2, <2>1, <2>2, <2>3, <2>4, <3>1, <3>2 DEF Settled, OkMeansStored, ReplyStored
  <2>5. CASE ~SavingConfig
    BY <1>1, <1>2, <2>1, <2>2, <2>5, SameFound DEF Settled, OkMeansStored, ReplyStored
  <2> QED BY <2>4, <2>5
<1>3. CASE Erase
  <2>1. Load(sector'["config"]) = Load(sector["config"])
    BY <1>3, EraseInv
  <2>2. job.phase = "erase" /\ up' = up /\ ~Arrived("config")
    BY <1>3 DEF Erase, Arrived
  <2>3. CASE EndJob(FALSE)
    BY <1>1, <2>1, <2>2, <2>3, RefusedIsSettled
  <2>4. CASE job' = [job EXCEPT !.phase = "write"] /\ UNCHANGED <<reply, pending, staged>>
    <3>1. job'.phase = "write"
      BY <2>4 DEF Inv, TypeOK
    <3> QED BY <1>2, <2>1, <2>2, <2>4, <3>1
  <2> QED BY <1>3, <2>3, <2>4 DEF Erase
<1>4. CASE Write
  <2>1. /\ job' = [job EXCEPT !.phase = "check"] /\ job.phase = "write"
        /\ UNCHANGED <<reply, pending, up, staged>>
    BY <1>4 DEF Write, ram
  <2>2. job'.phase = "check"
    BY <2>1 DEF Inv, TypeOK
  <2>3. job.store = "config" => Arrived("config")'
    BY <1>4, WriteInv
  <2>4. job.store # "config" => Load(sector'["config"]) = Load(sector["config"])
    <3>1. job.store # "config" => sector'["config"] = sector["config"]
      BY <1>4, WriteInv
    <3> QED BY <3>1
  <2> QED BY <1>1, <1>2, <2>1, <2>2, <2>3, <2>4 DEF SavingConfig
<1>5. CASE WriteGoesWrong
  <2>1. job.phase = "write" /\ up' = up /\ ~Arrived("config") /\ sector' = sector
    BY <1>5 DEF WriteGoesWrong, Arrived
  <2>2. Load(sector'["config"]) = Load(sector["config"])
    BY <2>1
  <2>3. CASE EndJob(FALSE)
    BY <1>1, <2>1, <2>2, <2>3, RefusedIsSettled
  <2>4. CASE job' = [job EXCEPT !.phase = "check"] /\ UNCHANGED <<reply, pending, staged>>
    <3>1. job'.phase = "check"
      BY <2>4 DEF Inv, TypeOK
    <3> QED BY <1>2, <2>1, <2>2, <2>4, <3>1
  <2> QED BY <1>5, <2>3, <2>4 DEF WriteGoesWrong
<1>6. CASE Finish
  <2>1. job.phase = "check" /\ sector' = sector /\ up' = up /\ EndJob(ReadsBack => Landed)
    BY <1>6 DEF Finish
  <2>2. Load(sector'["config"]) = Load(sector["config"])
    BY <2>1
  <2>3. Found' = Found /\ ~SavingConfig' /\ job' = NoJob
    BY <2>1, <2>2, SameFound DEF EndJob, SavingConfig, NoJob
  <2>4. CASE job.store = "config" /\ Landed
    <3>1. Found = job.value
      BY <2>1, <2>4, ArrivedIsFound DEF Arrived
    <3>2. SavingConfig /\ job.by \in {"save", "tnc"} /\ job.value.tnc = pending.tnc
      BY <1>1, <2>4 DEF SavingConfig, Settled
    <3>3. EndJob(TRUE)
      BY <2>1, <2>4 DEF EndJob
    <3>4. pending' = pending
      BY <3>3 DEF EndJob
    <3>5. CASE job.by = "tnc"
      <4>1. reply' = Said(TRUE, job.value.tnc, Nothing)
        BY <3>3, <3>5, <2>4 DEF EndJob
      <4> QED BY <2>3, <3>1, <3>2, <3>4, <4>1 DEF Settled, OkMeansStored, ReplyStored, Said, NoJob
    <3>6. CASE job.by = "save"
      <4>1. reply' = Said(TRUE, job.value.tnc, job.value.rest)
        BY <3>3, <3>6, <2>4 DEF EndJob
      <4> QED BY <2>3, <3>1, <3>2, <3>4, <4>1 DEF Settled, OkMeansStored, ReplyStored, Said, NoJob
    <3> QED BY <3>2, <3>5, <3>6
  <2>5. CASE job.store = "config" /\ ~Landed
    <3>1. EndJob(FALSE) /\ ~Arrived("config")
      BY <2>1, <2>5 DEF EndJob, ReadsBack, Arrived
    <3> QED BY <1>1, <2>2, <3>1, RefusedIsSettled
  <2>6. CASE job.store = "routes"
    <3>1. ~SavingConfig /\ job.by # "tnc"
      BY <2>6 DEF SavingConfig, Settled
    <3>2. UNCHANGED <<reply, pending>> /\ (staged' <=> staged)
      BY <2>1, <2>6, <3>1 DEF EndJob
    <3> QED BY <1>1, <2>1, <2>3, <3>1, <3>2 DEF Settled, OkMeansStored, ReplyStored, NoJob
  <2> QED BY <1>1, <2>4, <2>5, <2>6 DEF Stores
<1> QED BY <1>3, <1>4, <1>5, <1>6

\* An answer "saved" names what a boot finds, whatever is cut off or fails, unless
\* it was about settings that the console had only staged.
THEOREM SavedIsStored == Spec => []OkMeansStored
<1>1. Init => Settled
  BY DEF Init, Settled, SavingConfig, NoJob, OkMeansStored, ReplyStored, NoReply, Said
<1>2. Inv /\ Settled /\ [Next]_vars => Settled'
  BY SettledBetween, SettledSave DEF Next
<1>3. Settled => OkMeansStored
  BY DEF Settled
<1>4. Spec => []Inv
  BY Invariant
<1> QED BY <1>1, <1>2, <1>3, <1>4, PTL DEF Spec

-----------------------------------------------------------------------------
(***************************************************************************)
(* The routes.  Their save does not read back, so a bad write may pass for *)
(* a good one; until one has, flash and the counter agree at every step,   *)
(* and content is what a boot would load.                                  *)
(***************************************************************************)
Kept ==
    ~spoilt =>
        /\ Counted("routes")
        /\ up /\ ~Arrived("routes") /\ content # Nothing =>
              Load(sector["routes"]).value = content

\* A step that leaves the newest routes, the counter and content alone keeps
\* them, unless it makes a record arrive.
LEMMA KeptStep ==
    ASSUME Kept, up, spoilt' = spoilt, up' = up,
           Load(sector'["routes"]) = Load(sector["routes"]),
           generation'["routes"] = generation["routes"], content' = content,
           ~Arrived("routes"), ~Arrived("routes")'
    PROVE  Kept'
<1>1. ~spoilt => /\ Load(sector["routes"]).generation = generation["routes"]
                 /\ content # Nothing => Load(sector["routes"]).value = content
  BY DEF Kept, Counted
<1> QED BY <1>1 DEF Kept, Counted

\* Without a save of the routes at its end, none of their records arrives.
LEMMA OtherSave ==
    ASSUME TypeOK, job.store # "routes" \/ job.phase # "check"
    PROVE  ~Arrived("routes")
BY DEF Arrived

LEMMA KeptBetween ==
    ASSUME Inv, Kept,
           Boot \/ PowerCut \/ TakeFlash \/ SetField \/ SaveConfig \/ SaveRoutes
           \/ (\E t \in TncSettings : SetTncAndSave(t)) \/ (\E t \in Tables : Relearn(t))
           \/ UNCHANGED vars
    PROVE  Kept'
<1>1. CASE Boot
  <2>1. job' = job /\ job.phase = "idle" /\ sector' = sector /\ content' = Nothing
    BY <1>1 DEF Boot, Inv
  <2>2. ~Arrived("routes")'
    BY <2>1 DEF Arrived
  <2>3. generation'["routes"] = Load(sector["routes"]).generation
    BY <1>1 DEF Boot, Stores
  <2>4. Load(sector'["routes"]) = Load(sector["routes"])
    BY <2>1
  <2> QED BY <2>1, <2>2, <2>3, <2>4 DEF Kept, Counted
<1>2. CASE PowerCut
  <2>1. ~up'
    BY <1>2 DEF PowerCut
  <2> QED BY <2>1 DEF Kept, Counted
<1>3. CASE UNCHANGED vars
  BY <1>3 DEF Kept, Counted, Arrived, Landed, Target, Load, vars, ram
<1>4. ASSUME Running, job'.phase # "check", UNCHANGED <<sector, up, generation, content, spoilt>>
      PROVE  Kept'
  <2>1. ~Arrived("routes") /\ ~Arrived("routes")'
    BY <1>4 DEF Running, Arrived
  <2>2. Load(sector'["routes"]) = Load(sector["routes"])
    BY <1>4
  <2> QED BY <1>4, <2>1, <2>2, KeptStep DEF Running
<1>5. CASE TakeFlash \/ SetField \/ (\E t \in Tables : Relearn(t))
  BY <1>4, <1>5 DEF TakeFlash, SetField, Relearn, ram, Running
<1>6. CASE SaveConfig \/ SaveRoutes \/ \E t \in TncSettings : SetTncAndSave(t)
  <2>1. Running /\ UNCHANGED <<sector, up, generation, content, spoilt>>
    BY <1>6 DEF SaveConfig, SaveRoutes, SetTncAndSave, ram
  <2>2. job' = job \/ job'.phase = "erase"
    <3>1. CASE SaveConfig
      <4>1. CASE taken
        BY <3>1, <4>1 DEF SaveConfig
      <4>2. CASE ~taken
        BY <3>1, <4>2 DEF SaveConfig, StartSave
      <4> QED BY <4>1, <4>2
    <3>2. CASE SaveRoutes
      BY <3>2 DEF SaveRoutes, StartSave
    <3>3. ASSUME NEW t \in TncSettings, SetTncAndSave(t)
          PROVE  job' = job \/ job'.phase = "erase"
      <4>1. CASE taken \/ t = pending.tnc
        BY <3>3, <4>1 DEF SetTncAndSave
      <4>2. CASE ~taken /\ t # pending.tnc
        <5>1. StartSave("config", "tnc", [pending EXCEPT !.tnc = t], pending.tnc)
          BY <3>3, <4>2 DEF SetTncAndSave
        <5> QED BY <5>1 DEF StartSave
      <4> QED BY <4>1, <4>2
    <3> QED BY <1>6, <3>1, <3>2, <3>3
  <2>3. job'.phase # "check"
    BY <2>1, <2>2 DEF Running
  <2> QED BY <1>4, <2>1, <2>3
<1> QED BY <1>1, <1>2, <1>3, <1>5, <1>6

LEMMA KeptErase ==
    ASSUME Inv, Kept, Erase
    PROVE  Kept'
<1>1. /\ TypeOK /\ job.store \in Stores /\ "routes" \in Stores /\ up /\ ~Arrived("routes")
      /\ Invalid \in RecordsOf(job.store)
      /\ job.phase = "erase"
  BY DEF Inv, TypeOK, Erase, Arrived, Invalid, RecordsOf, Stores
<1>2. UNCHANGED <<up, generation, content, spoilt>>
  BY DEF Erase
<1>3. /\ sector'[job.store] = [sector[job.store] EXCEPT ![Target] = Invalid]
      /\ \A s \in Stores \ {job.store} : sector'[s] = sector[s]
  BY <1>1, PutFacts DEF Erase
<1>4. ~Arrived("routes")'
  <2>1. job'.phase # "check"
    <3>1. CASE job' = [job EXCEPT !.phase = "write"]
      BY <3>1, <1>1 DEF TypeOK
    <3>2. CASE EndJob(FALSE)
      BY <3>2 DEF EndJob, NoJob
    <3> QED BY <3>1, <3>2 DEF Erase
  <2> QED BY <2>1 DEF Arrived
<1>5. CASE job.store # "routes"
  <2>1. sector'["routes"] = sector["routes"]
    BY <1>1, <1>3, <1>5
  <2>2. Load(sector'["routes"]) = Load(sector["routes"])
    BY <2>1
  <2> QED BY <1>1, <1>2, <1>4, <2>2, KeptStep
<1>6. CASE job.store = "routes" /\ ~spoilt
  <2>1. /\ sector["routes"] \in [Slots -> RecordsOf("routes")]
        /\ Parity(sector["routes"])
        /\ generation["routes"] \in Nat
    BY <1>1 DEF Inv, TypeOK
  <2>2. generation["routes"] = Load(sector["routes"]).generation
    BY <1>1, <1>6 DEF Kept, Counted
  <2>3. sector'["routes"] = [sector["routes"] EXCEPT ![Slot(generation["routes"] + 1)] = Invalid]
    BY <1>3, <1>6 DEF Target
  <2>4. Load(sector'["routes"]) = Load(sector["routes"])
    BY ONLY <1>1, <2>1, <2>2, <2>3, EraseSparesNewest
  <2> QED BY <1>1, <1>2, <1>4, <2>4, KeptStep
<1>7. CASE spoilt
  BY <1>2, <1>7 DEF Kept
<1> QED BY <1>5, <1>6, <1>7

LEMMA KeptWrite ==
    ASSUME Inv, Kept, Write
    PROVE  Kept'
<1> DEFINE st == job.store
           v == job.value
           g == generation["routes"]
<1>1. /\ TypeOK /\ st \in Stores /\ "routes" \in Stores /\ up /\ ~Arrived("routes")
      /\ v \in Value[st] /\ job.phase = "write"
      /\ generation[st] \in Nat /\ Rec(generation[st] + 1, v) \in RecordsOf(st)
  BY DEF Inv, TypeOK, Write, Arrived, Rec, RecordsOf, Stores
<1>2. /\ UNCHANGED <<up, generation, content, spoilt>>
      /\ job' = [job EXCEPT !.phase = "check"]
  BY DEF Write, ram
<1>3. job'.store = st /\ job'.value = v /\ job'.phase = "check"
  BY <1>1, <1>2 DEF TypeOK
<1>4. /\ sector'[st] = [sector[st] EXCEPT ![Target] = Rec(generation[st] + 1, v)]
      /\ \A s \in Stores \ {st} : sector'[s] = sector[s]
  BY <1>1, PutFacts DEF Write
<1>5. CASE st # "routes"
  <2>1. sector'["routes"] = sector["routes"]
    BY <1>1, <1>4, <1>5
  <2>2. Load(sector'["routes"]) = Load(sector["routes"]) /\ ~Arrived("routes")'
    BY <1>3, <1>5, <2>1 DEF Arrived
  <2> QED BY <1>1, <1>2, <2>2, KeptStep
<1>6. CASE st = "routes" /\ ~spoilt
  <2>1. /\ sector["routes"] \in [Slots -> RecordsOf("routes")]
        /\ Parity(sector["routes"])
        /\ g \in Nat /\ v \in Value["routes"]
    BY <1>1, <1>6 DEF Inv, TypeOK
  <2>2. g = Load(sector["routes"]).generation
    BY <1>1, <1>6 DEF Kept, Counted
  <2>3. sector'["routes"] = [sector["routes"] EXCEPT ![Slot(g + 1)] = Rec(g + 1, v)]
    BY <1>4, <1>6 DEF Target
  <2>4. /\ sector'["routes"][Slot(g + 1)] = Rec(g + 1, v)
        /\ Load(sector'["routes"]) = Rec(g + 1, v)
    <3> HIDE DEF v, g
    <3> QED BY ONLY <1>1, <2>1, <2>2, <2>3, WriteIsNewest
  <2>5. Landed'
    BY <2>4, <1>2, <1>3, <1>6 DEF Landed, Target, Rec
  <2>6. Arrived("routes")'
    BY <2>5, <1>3, <1>6 DEF Arrived
  <2>7. Load(sector'["routes"]) = Rec(generation'["routes"] + 1, job'.value)
    BY <2>4, <1>2, <1>3
  <2> QED BY <2>6, <2>7 DEF Kept, Counted, Load
<1>7. CASE spoilt
  BY <1>2, <1>7 DEF Kept
<1> QED BY <1>5, <1>6, <1>7

\* Before its record is written, a save of the routes has not landed.
LEMMA RoutesNotYetLanded ==
    ASSUME Inv, Kept, ~spoilt, job.phase = "write", job.store = "routes"
    PROVE  ~Landed
<1>1. up
  BY DEF Inv
<1>2. /\ Load(sector["routes"]).generation = generation["routes"]
      /\ sector["routes"] \in [Slots -> RecordsOf("routes")]
      /\ "routes" \in Stores /\ generation["routes"] \in Nat
  BY <1>1 DEF Inv, TypeOK, Kept, Counted, Arrived, Stores
<1>3. Target \in Slots
  BY <1>2, SlotAlternates DEF Target
<1>4. sector["routes"][Target].generation <= generation["routes"]
  BY <1>2, <1>3, LoadIsNewest
<1>5. sector["routes"][Target].generation \in Nat
  BY <1>2, <1>3 DEF RecordsOf
<1> QED BY <1>2, <1>4, <1>5 DEF Landed

LEMMA KeptGoneWrong ==
    ASSUME Inv, Kept, WriteGoesWrong
    PROVE  Kept'
<1>1. TypeOK /\ up /\ ~Arrived("routes") /\ job.phase = "write"
  BY DEF Inv, WriteGoesWrong, Arrived
<1>2. UNCHANGED <<sector, up, generation, content, spoilt>>
  BY DEF WriteGoesWrong
<1>3. ~spoilt => ~Arrived("routes")'
  <2>1. CASE job' = [job EXCEPT !.phase = "check"]
    <3>1. job'.store = job.store
      BY <1>1, <2>1 DEF TypeOK
    <3>2. ~spoilt /\ job.store = "routes" => ~Landed
      BY <1>1, RoutesNotYetLanded
    <3> QED BY <1>2, <3>1, <3>2 DEF Arrived, Landed, Target
  <2>2. CASE EndJob(FALSE)
    BY <2>2 DEF EndJob, NoJob, Arrived
  <2> QED BY <2>1, <2>2 DEF WriteGoesWrong
<1>4. Load(sector'["routes"]) = Load(sector["routes"])
  BY <1>2
<1>5. CASE ~spoilt
  BY <1>1, <1>2, <1>3, <1>4, <1>5, KeptStep
<1>6. CASE spoilt
  BY <1>2, <1>6 DEF Kept
<1> QED BY <1>5, <1>6

LEMMA KeptFinish ==
    ASSUME Inv, Kept, Finish
    PROVE  Kept'
<1>1. /\ TypeOK /\ up /\ "routes" \in Stores /\ job.phase = "check"
      /\ generation \in [Stores -> Nat]
  BY DEF Inv, TypeOK, Finish, Stores
<1>2. /\ UNCHANGED <<sector, up>>
      /\ generation' = [generation EXCEPT ![job.store] = IF ReadsBack => Landed THEN @ + 1 ELSE @]
      /\ content' = IF job.store = "routes" THEN job.value ELSE content
      /\ job' = NoJob
      /\ spoilt' = (spoilt \/ ~(ReadsBack \/ Landed))
  BY DEF Finish, EndJob
<1>3. ~Arrived("routes")' /\ Load(sector'["routes"]) = Load(sector["routes"])
  BY <1>2 DEF Arrived, NoJob
<1>4. CASE job.store # "routes"
  <2>1. /\ generation'["routes"] = generation["routes"]
        /\ content' = content /\ ~Arrived("routes")
    BY <1>1, <1>2, <1>4 DEF Arrived
  <2>2. spoilt' = spoilt
    <3>1. job.store = "config"
      BY <1>1, <1>4 DEF TypeOK, Stores
    <3>2. spoilt \in BOOLEAN
      BY <1>1 DEF TypeOK
    <3> QED BY <1>2, <3>1, <3>2 DEF ReadsBack
  <2> QED BY <1>1, <1>2, <1>3, <2>1, <2>2, KeptStep
<1>5. CASE job.store = "routes" /\ ~spoilt'
  <2>1. ~spoilt /\ Landed
    BY <1>2, <1>5 DEF ReadsBack
  <2>2. Arrived("routes")
    BY <1>1, <1>5, <2>1 DEF Arrived
  <2>3. Load(sector["routes"]) = Rec(generation["routes"] + 1, job.value)
    BY <1>1, <2>1, <2>2 DEF Kept, Counted
  <2>4. generation'["routes"] = generation["routes"] + 1 /\ content' = job.value
    BY <1>1, <1>2, <1>5, <2>1
  <2>5. /\ Load(sector'["routes"]).generation = generation'["routes"]
        /\ Load(sector'["routes"]).value = content'
    BY <1>3, <2>3, <2>4 DEF Rec
  <2> QED BY <1>3, <2>5 DEF Kept, Counted
<1>6. CASE spoilt'
  BY <1>6 DEF Kept
<1> QED BY <1>4, <1>5, <1>6

\* The routes a boot finds are those the counter and the wear gate name, over
\* every sequence of saves, power cuts, reported failures and re-learned tables,
\* until an unreported bad write is taken for a good one (netrom_save has no
\* read-back to tell).
THEOREM RoutesAreKept == Spec => []RoutesSurvive
<1>1. Init => Kept
  BY DEF Init, Kept, Counted
<1>2. Inv /\ Kept /\ [Next]_vars => Kept'
  BY KeptBetween, KeptErase, KeptWrite, KeptGoneWrong, KeptFinish DEF Next
<1>3. Inv /\ Kept => RoutesSurvive
  <2>1. ~(job.store = "routes" /\ job.phase = "check") => ~Arrived("routes")
    BY DEF Arrived
  <2> QED BY <2>1 DEF Kept, Counted, RoutesSurvive
<1>4. Spec => []Inv
  BY Invariant
<1> QED BY <1>1, <1>2, <1>3, <1>4, PTL DEF Spec
=============================================================================
