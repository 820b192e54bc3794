----------------------- MODULE ResourceObjects_proofs -----------------------
(***************************************************************************)
(* Theorems about the objects in memory, for any clients, contents and     *)
(* number of writes: deep copies keep the goroutines apart.                *)
(***************************************************************************)
EXTENDS ResourceObjects, TLAPS

(* The deep copies leave out no reference of any type.                     *)
LEMMA AllCopied ==
  ASSUME NEW t \in AllTypes
  PROVE  Fields(t) \subseteq DeepCopied(t)
<1>1. CASE t = "Entity"
  BY <1>1 DEF Fields, DeepCopied, EntityFields, EntityDeepCopy
<1>2. CASE t = "Kind"
  BY <1>2 DEF Fields, DeepCopied, KindFields, KindDeepCopy
<1>3. CASE t = "Relation"
  BY <1>3 DEF Fields, DeepCopied, RelationFields, RelationDeepCopy
<1>4. CASE t = "Service"
  BY <1>4 DEF Fields, DeepCopied, ServiceFields, ServiceDeepCopy
<1>5. CASE t = "Model"
  BY <1>5 DEF Fields, DeepCopied, ModelFields, ModelDeepCopy,
              ModelSpecDeepCopy, ModelStatusDeepCopy
<1>6. CASE t = "ModelRegistry"
  BY <1>6 DEF Fields, DeepCopied, ModelRegistryFields, ModelRegistryDeepCopy
<1>7. QED
  BY <1>1, <1>2, <1>3, <1>4, <1>5, <1>6 DEF AllTypes

(* Every holder points to a cell of its own.                               *)
OwnCells(h) == {h} \X {0, 1}

Owned ==
  \A h \in Holders : object[h].ref \in OwnCells(h) \cup {NoCell}

(* Nobody has read a version that is still to come.                        *)
Past == \A h \in Holders : object[h].version <= Len(log)

IInv == TypeOK /\ Owned /\ Past /\ CacheFaithful

(* What a step leaves alone.                                               *)
Others(h) == \A g \in Holders \ {h} : View(g)' = View(g)

LEMMA CellFacts ==
  ASSUME NEW h \in Holders
  PROVE  /\ OwnCells(h) \subseteq Cells /\ NoCell \notin Cells
         /\ \A g \in Holders \ {h} : OwnCells(g) \cap OwnCells(h) = {}
         /\ <<h, 0>> \in OwnCells(h) /\ <<h, 1>> \in OwnCells(h)
         /\ <<h, 0>> # <<h, 1>>
BY DEF OwnCells, Cells, NoCell

(* There is always a new cell.                                             *)
LEMMA NewCellIsNew ==
  ASSUME Owned, NEW h \in Holders
  PROVE  /\ NewCell(h) \in OwnCells(h)
         /\ \A g \in Holders : object[g].ref # NewCell(h)
<1> DEFINE Free(c) == \A g \in Holders : object[g].ref # c
<1>1. \E c \in OwnCells(h) : object[h].ref # c
  BY CellFacts
<1>2. PICK c \in OwnCells(h) : object[h].ref # c
  BY <1>1
<1>3. Free(c)
  <2> SUFFICES ASSUME NEW g \in Holders
               PROVE  object[g].ref # c
    OBVIOUS
  <2>1. c # NoCell /\ (g # h => c \notin OwnCells(g))
    BY CellFacts
  <2>2. object[g].ref \in OwnCells(g) \cup {NoCell}
    BY DEF Owned
  <2>3. QED
    BY <1>2, <2>1, <2>2
<1>4. NewCell(h) = CHOOSE d \in OwnCells(h) : Free(d)
  BY DEF NewCell, OwnCells
<1>5. NewCell(h) \in OwnCells(h) /\ Free(NewCell(h))
  BY <1>2, <1>3, <1>4
<1>6. QED
  BY <1>5

(***************************************************************************)
(* A new object: its holder sees the content, nobody else sees a change.   *)
(***************************************************************************)
LEMMA AllocateNew ==
  ASSUME TypeOK, Owned, NEW h \in Holders, NEW n \in Nat,
         NEW content \in Values \cup {Nil}, Allocate(h, n, content)
  PROVE  /\ object' \in [Holders -> [version : Nat,
                                     ref : Cells \cup {NoCell}]]
         /\ memory' \in [Cells -> Values \cup {Nil}]
         /\ Owned'
         /\ object'[h].version = n
         /\ \A g \in Holders \ {h} : object'[g] = object[g]
         /\ View(h)' = [version |-> n, content |-> content]
         /\ Others(h)
<1> DEFINE ref == IF content = Nil THEN NoCell ELSE NewCell(h)
<1>1. /\ object' = [object EXCEPT ![h] = [version |-> n, ref |-> ref]]
      /\ memory' = IF content = Nil THEN memory
                   ELSE [memory EXCEPT ![ref] = content]
  BY DEF Allocate
<1>2. /\ NewCell(h) \in OwnCells(h) /\ NewCell(h) \in Cells
      /\ \A g \in Holders : object[g].ref # NewCell(h)
      /\ NewCell(h) # NoCell
  BY NewCellIsNew, CellFacts
<1>3. ref \in OwnCells(h) \cup {NoCell} /\ ref \in Cells \cup {NoCell}
  BY <1>2
<1>4. /\ object' \in [Holders -> [version : Nat, ref : Cells \cup {NoCell}]]
      /\ object'[h] = [version |-> n, ref |-> ref]
      /\ \A g \in Holders \ {h} : object'[g] = object[g]
  BY <1>1, <1>3 DEF TypeOK
<1>5. memory' \in [Cells -> Values \cup {Nil}]
  BY <1>1, <1>2 DEF TypeOK
<1>6. Owned'
  <2>1. \A g \in Holders : object'[g].ref \in OwnCells(g) \cup {NoCell}
    BY <1>3, <1>4 DEF Owned
  <2>2. QED
    BY <2>1 DEF Owned, OwnCells, Holders
<1>7. View(h)' = [version |-> n, content |-> content]
  <2>1. View(h)' = [version |-> object'[h].version,
                    content |-> IF object'[h].ref = NoCell THEN Nil
                                ELSE memory'[object'[h].ref]]
    BY DEF View, Content
  <2>2. object'[h].version = n /\ object'[h].ref = ref
    BY <1>4
  <2>3. content # Nil => ref # NoCell /\ memory'[ref] = content
    BY <1>1, <1>2 DEF TypeOK
  <2>4. QED
    BY <2>1, <2>2, <2>3
<1>8. Others(h)
  <2> SUFFICES ASSUME NEW g \in Holders \ {h}
               PROVE  View(g)' = View(g)
    BY DEF Others
  <2>1. object'[g] = object[g] /\ object[g].ref \in Cells \cup {NoCell}
        /\ object[g].ref # NewCell(h)
    BY <1>2, <1>4 DEF TypeOK
  <2>2. object[g].ref # NoCell => memory'[object[g].ref] = memory[object[g].ref]
    BY <1>1, <1>2, <2>1 DEF TypeOK
  <2>3. QED
    BY <2>1, <2>2 DEF View, Content
<1>9. QED
  BY <1>4, <1>5, <1>6, <1>7, <1>8

-----------------------------------------------------------------------------
(* What each step does to the objects: at most one holder sees a change.   *)

OneChange == \E h \in Holders : Others(h)

(* What a step makes of the objects and the log, as far as IInv goes.      *)
Objects ==
  /\ object' \in [Holders -> [version : Nat, ref : Cells \cup {NoCell}]]
  /\ memory' \in [Cells -> Values \cup {Nil}]
  /\ Owned'

CacheSees(version, content) ==
  View("cache")' = [version |-> version, content |-> content]

LEMMA ViewOf ==
  ASSUME NEW h \in Holders
  PROVE  View(h) = [version |-> object[h].version,
                    content |-> IF object[h].ref = NoCell THEN Nil
                                ELSE memory[object[h].ref]]
BY DEF View, Content

LEMMA ViewTyped ==
  ASSUME TypeOK, NEW h \in Holders
  PROVE  View(h).content \in Values \cup {Nil} /\ View(h).version \in Nat
         /\ View(h).version = object[h].version
BY ViewOf DEF TypeOK

LEMMA CacheHolds == "cache" \in Holders /\ Clients \subseteq Holders
                    /\ "cache" \notin Clients
BY ClientsAssumption DEF Holders

(* Every step but a write leaves the log, every write appends to it.       *)
Logged ==
  \/ log' = log
  \/ \E v \in Values \cup {Nil, Gone} : log' = Append(log, v)

LEMMA AppendFacts ==
  ASSUME NEW S, NEW s \in Seq(S), NEW v \in S
  PROVE  /\ Append(s, v) \in Seq(S) /\ Len(Append(s, v)) = Len(s) + 1
         /\ Len(s) \in Nat
         /\ \A n \in 1..Len(s) : Append(s, v)[n] = s[n]
         /\ Append(s, v)[Len(s) + 1] = v
OBVIOUS

LEMMA LogTyped ==
  ASSUME TypeOK, Logged
  PROVE  /\ log' \in Seq(Values \cup {Nil, Gone}) /\ Len(log') > 0
         /\ Len(log') >= Len(log)
         /\ \A n \in 1..Len(log) : log'[n] = log[n]
<1>1. log \in Seq(Values \cup {Nil, Gone}) /\ Len(log) > 0 /\ Len(log) \in Nat
  BY DEF TypeOK
<1>2. CASE log' = log
  BY <1>1, <1>2
<1>3. ASSUME NEW v \in Values \cup {Nil, Gone}, log' = Append(log, v)
      PROVE  /\ log' \in Seq(Values \cup {Nil, Gone})
             /\ Len(log') = Len(log) + 1
             /\ \A n \in 1..Len(log) : log'[n] = log[n]
  BY <1>1, <1>3, AppendFacts
<1>4. CASE \E v \in Values \cup {Nil, Gone} : log' = Append(log, v)
  BY <1>1, <1>3, <1>4
<1>5. QED
  BY <1>2, <1>4 DEF Logged

(***************************************************************************)
(* A step keeps IInv when it keeps the objects in their cells, holds no    *)
(* version beyond the log, and leaves the cache as it was or fills it with *)
(* what the log says.                                                      *)
(***************************************************************************)
LEMMA StepKeeps ==
  ASSUME IInv, Objects, Logged, UNCHANGED <<type, field>>,
         \A h \in Holders : object'[h].version <= Len(log'),
         \/ View("cache")' = View("cache")
         \/ /\ object'["cache"].version = 0
         \/ /\ object'["cache"].version = Len(log)
            /\ View("cache")'.content = log[Len(log)]
  PROVE  IInv'
<1>1. TypeOK'
  BY LogTyped DEF IInv, TypeOK, Objects
<1>2. Past' /\ Owned'
  BY DEF Past, Objects, Owned, OwnCells, Holders
<1>3. View("cache")'.version = object'["cache"].version
      /\ View("cache").version = object["cache"].version
  BY CacheHolds DEF View
<1>4. object["cache"].version \in Nat /\ object'["cache"].version \in Nat
      /\ Len(log) \in Nat /\ Len(log) > 0
      /\ object["cache"].version <= Len(log)
  BY CacheHolds DEF IInv, TypeOK, Objects, Past
<1>5. CacheFaithful'
  <2> SUFFICES ASSUME object'["cache"].version > 0
               PROVE  View("cache")'.content = log'[object'["cache"].version]
    BY DEF CacheFaithful, Holds
  <2>1. CASE View("cache")' = View("cache")
    <3>1. object'["cache"].version = object["cache"].version
      BY <1>3, <2>1
    <3>2. View("cache").content = log[object["cache"].version]
      BY <3>1 DEF IInv, CacheFaithful, Holds
    <3>3. object["cache"].version \in 1..Len(log)
      BY <1>4, <3>1
    <3>4. QED
      BY <2>1, <3>1, <3>2, <3>3, LogTyped DEF IInv
  <2>2. CASE /\ object'["cache"].version = Len(log)
             /\ View("cache")'.content = log[Len(log)]
    <3>1. Len(log) \in 1..Len(log)
      BY <1>4
    <3>2. QED
      BY <2>2, <3>1, LogTyped DEF IInv
  <2>3. QED
    BY <1>4, <2>1, <2>2
<1>6. QED
  BY <1>1, <1>2, <1>5 DEF IInv

(* Client c gets a new object of a version that is in the log.             *)
LEMMA ClientGets ==
  ASSUME IInv, NEW c \in Clients, NEW n \in Nat,
         NEW content \in Values \cup {Nil}, Allocate(c, n, content),
         Logged, n <= Len(log'), UNCHANGED <<type, field>>
  PROVE  IInv' /\ OneChange
<1>1. TypeOK /\ Owned /\ Past /\ c \in Holders /\ "cache" \in Holders \ {c}
  BY CacheHolds DEF IInv
<1>2. /\ Objects /\ Others(c)
      /\ object'[c].version = n
      /\ \A g \in Holders \ {c} : object'[g] = object[g]
  BY <1>1, AllocateNew DEF Objects
<1>3. View("cache")' = View("cache")
  BY <1>1, <1>2 DEF Others
<1>4. \A h \in Holders : object'[h].version <= Len(log')
  <2> SUFFICES ASSUME NEW h \in Holders
               PROVE  object'[h].version <= Len(log')
    OBVIOUS
  <2>1. CASE h = c
    BY <1>2, <2>1
  <2>2. CASE h # c
    <3>1. object'[h].version = object[h].version
          /\ object[h].version <= Len(log) /\ object[h].version \in Nat
      BY <1>1, <1>2, <2>2 DEF Past, TypeOK
    <3>2. Len(log') >= Len(log) /\ Len(log) \in Nat /\ Len(log') \in Nat
      BY <1>1, LogTyped DEF TypeOK
    <3>3. QED
      BY <3>1, <3>2
  <2>3. QED
    BY <2>1, <2>2
<1>5. IInv'
  BY <1>2, <1>3, <1>4, StepKeeps
<1>6. QED
  BY <1>1, <1>2, <1>5 DEF OneChange

(* The answer to a write.                                                  *)
LEMMA ClientWrites ==
  ASSUME IInv, NEW c \in Clients, NEW content \in Values \cup {Nil},
         Respond(c, content)
  PROVE  IInv' /\ OneChange
<1>1. Len(log) \in Nat /\ Len(log) > 0 /\ log \in Seq(Values \cup {Nil, Gone})
  BY DEF IInv, TypeOK
<1>2. CASE content = Last(log)
  <2>1. Allocate(c, Len(log), content) /\ UNCHANGED <<type, field, log>>
    BY <1>2 DEF Respond
  <2>2. QED
    BY <1>1, <2>1, ClientGets DEF Logged
<1>3. CASE content # Last(log)
  <2>1. /\ Allocate(c, Len(log) + 1, content) /\ UNCHANGED <<type, field>>
        /\ log' = Append(log, content)
    BY <1>3 DEF Respond
  <2>2. Len(log') = Len(log) + 1
    BY <1>1, <2>1
  <2>3. Logged
    BY <2>1 DEF Logged
  <2>4. QED
    BY <1>1, <2>1, <2>2, <2>3, ClientGets
<1>4. QED
  BY <1>2, <1>3

-----------------------------------------------------------------------------
(* The steps.                                                              *)

LEMMA LastTyped ==
  ASSUME TypeOK
  PROVE  /\ Last(log) \in Values \cup {Nil, Gone}
         /\ Len(log) \in Nat /\ Len(log) > 0 /\ Last(log) = log[Len(log)]
         /\ Exists => Last(log) \in Values \cup {Nil}
<1>1. Len(log) \in 1..Len(log) /\ log \in Seq(Values \cup {Nil, Gone})
  BY DEF TypeOK
<1>2. QED
  BY <1>1 DEF TypeOK, Last, Exists

LEMMA DeliverKeeps ==
  ASSUME IInv, Deliver
  PROVE  IInv' /\ OneChange
<1>1. TypeOK /\ Owned /\ Past /\ "cache" \in Holders
  BY CacheHolds DEF IInv
<1>2. UNCHANGED <<type, field, log>> /\ Logged
  BY DEF Deliver, Logged
<1>3. CASE Last(log) = Gone
  <2>1. object' = [object EXCEPT !["cache"] = Nothing] /\ memory' = memory
    BY <1>3 DEF Deliver
  <2>2. Nothing \in [version : Nat, ref : Cells \cup {NoCell}]
        /\ Nothing.version = 0 /\ Nothing.ref = NoCell
    BY DEF Nothing
  <2>3. /\ object' \in [Holders -> [version : Nat, ref : Cells \cup {NoCell}]]
        /\ object'["cache"] = Nothing
        /\ \A g \in Holders \ {"cache"} : object'[g] = object[g]
    BY <1>1, <2>1, <2>2 DEF TypeOK
  <2>4. Objects
    <3>1. memory' \in [Cells -> Values \cup {Nil}]
      BY <1>1, <2>1 DEF TypeOK
    <3>2. \A h \in Holders : object'[h].ref \in OwnCells(h) \cup {NoCell}
      BY <1>1, <2>2, <2>3 DEF Owned
    <3>3. Owned'
      BY <3>2 DEF Owned, OwnCells, Holders
    <3>4. QED
      BY <2>3, <3>1, <3>3 DEF Objects
  <2>5. Others("cache")
    BY <2>1, <2>3 DEF Others, View, Content
  <2>6. \A h \in Holders : object'[h].version <= Len(log')
    BY <1>1, <1>2, <2>2, <2>3, LastTyped DEF Past
  <2>7. object'["cache"].version = 0
    BY <2>2, <2>3
  <2>8. IInv'
    BY <1>2, <2>4, <2>6, <2>7, StepKeeps
  <2>9. QED
    BY <1>1, <2>5, <2>8 DEF OneChange
<1>4. CASE Last(log) # Gone
  <2>1. Allocate("cache", Len(log), Last(log))
    BY <1>4 DEF Deliver
  <2>2. Last(log) \in Values \cup {Nil} /\ Len(log) \in Nat
        /\ Last(log) = log[Len(log)]
    BY <1>1, <1>4, LastTyped DEF Exists
  <2>3. /\ Objects /\ Others("cache")
        /\ object'["cache"].version = Len(log)
        /\ View("cache")'.content = log[Len(log)]
        /\ \A g \in Holders \ {"cache"} : object'[g] = object[g]
    BY <1>1, <2>1, <2>2, AllocateNew DEF Objects
  <2>4. \A h \in Holders : object'[h].version <= Len(log')
    BY <1>1, <1>2, <2>2, <2>3 DEF Past
  <2>5. IInv'
    BY <1>2, <2>3, <2>4, StepKeeps
  <2>6. QED
    BY <1>1, <2>3, <2>5 DEF OneChange
<1>5. QED
  BY <1>3, <1>4

(* A deep copy leaves out no reference, so the reader has its own cells.   *)
LEMMA CachedGetKeeps ==
  ASSUME IInv, NEW c \in Clients, CachedGet(c)
  PROVE  IInv' /\ OneChange
<1>1. type \in AllTypes /\ field \in Fields(type)
  BY TypesAssumption DEF IInv, TypeOK
<1>2. field \in DeepCopied(type)
  BY <1>1, AllCopied
<1>3. /\ Allocate(c, object["cache"].version, View("cache").content)
      /\ UNCHANGED <<type, field, log>>
  BY <1>2 DEF CachedGet
<1>4. /\ object["cache"].version \in Nat
      /\ View("cache").content \in Values \cup {Nil}
      /\ object["cache"].version <= Len(log)
  BY CacheHolds, ViewTyped DEF IInv, Past, TypeOK
<1>5. QED
  BY <1>3, <1>4, ClientGets DEF Logged

LEMMA MutateKeeps ==
  ASSUME IInv, NEW c \in Clients, Mutate(c)
  PROVE  IInv' /\ OneChange
<1>1. TypeOK /\ Owned /\ Past /\ c \in Holders
      /\ "cache" \in Holders \ {c} /\ object[c].version \in Nat
      /\ object[c].version <= Len(log)
  BY CacheHolds DEF IInv, TypeOK, Past
<1>2. UNCHANGED <<type, field, log>> /\ Logged
  BY DEF Mutate, Logged
<1>3. PICK v \in Values \ {View(c).content} :
        IF object[c].ref = NoCell
        THEN Allocate(c, object[c].version, v)
        ELSE /\ memory' = [memory EXCEPT ![object[c].ref] = v]
             /\ UNCHANGED object
  BY DEF Mutate
<1>4. CASE object[c].ref = NoCell
  <2>1. Allocate(c, object[c].version, v) /\ v \in Values \cup {Nil}
    BY <1>3, <1>4
  <2>2. QED
    BY <1>1, <1>2, <2>1, ClientGets
<1>5. CASE object[c].ref # NoCell
  <2>1. memory' = [memory EXCEPT ![object[c].ref] = v] /\ object' = object
    BY <1>3, <1>5
  <2>2. object[c].ref \in OwnCells(c)
    BY <1>1, <1>5 DEF Owned
  <2>3. Objects
    <3>1. memory' \in [Cells -> Values \cup {Nil}]
      BY <1>1, <2>1 DEF TypeOK
    <3>2. QED
      BY <1>1, <2>1, <3>1 DEF Objects, Owned, TypeOK
  <2>4. Others(c)
    <3> SUFFICES ASSUME NEW g \in Holders \ {c}
                 PROVE  View(g)' = View(g)
      BY DEF Others
    <3>1. object[g].ref \in OwnCells(g) \cup {NoCell}
          /\ object[g].ref \in Cells \cup {NoCell}
      BY <1>1 DEF Owned, TypeOK
    <3>2. object[g].ref # object[c].ref \/ object[g].ref = NoCell
      BY <1>1, <2>2, <3>1, CellFacts
    <3>3. object[g].ref # NoCell
          => memory'[object[g].ref] = memory[object[g].ref]
      BY <1>1, <2>1, <3>1, <3>2 DEF TypeOK
    <3>4. QED
      BY <2>1, <3>3 DEF View, Content
  <2>5. View("cache")' = View("cache")
    BY <1>1, <2>4 DEF Others
  <2>6. \A h \in Holders : object'[h].version <= Len(log')
    BY <1>1, <1>2, <2>1 DEF Past
  <2>7. IInv'
    BY <1>2, <2>3, <2>5, <2>6, StepKeeps
  <2>8. QED
    BY <1>1, <2>4, <2>7 DEF OneChange
<1>6. QED
  BY <1>4, <1>5

LEMMA DeleteKeeps ==
  ASSUME IInv, NEW c \in Clients, Delete(c)
  PROVE  IInv' /\ OneChange
<1>1. UNCHANGED <<type, field, object, memory>> /\ log' = Append(log, Gone)
  BY DEF Delete
<1>2. Logged /\ TypeOK /\ Owned /\ Past
  BY <1>1 DEF Logged, IInv
<1>3. Objects
  BY <1>1, <1>2 DEF Objects, Owned, TypeOK
<1>4. \A h \in Holders : View(h)' = View(h)
  BY <1>1 DEF View, Content
<1>5. \A h \in Holders : object'[h].version <= Len(log')
  <2>1. Len(log') >= Len(log) /\ Len(log) \in Nat /\ Len(log') \in Nat
    BY <1>2, LogTyped DEF TypeOK
  <2>2. QED
    BY <1>1, <1>2, <2>1 DEF Past, TypeOK
<1>6. IInv'
  BY <1>1, <1>2, <1>3, <1>4, <1>5, CacheHolds, StepKeeps
<1>7. QED
  BY <1>4, <1>6, CacheHolds DEF OneChange, Others

LEMMA CallKeeps ==
  ASSUME IInv, NEW c \in Clients,
         \/ Get(c) \/ Create(c) \/ Update(c) \/ UpdateStatus(c) \/ Patch(c)
  PROVE  IInv' /\ OneChange
<1>1. TypeOK /\ c \in Holders
  BY CacheHolds DEF IInv
<1>2. View(c).content \in Values \cup {Nil}
      /\ (Exists => Last(log) \in Values \cup {Nil}) /\ Len(log) \in Nat
  BY <1>1, ViewTyped, LastTyped
<1>3. CASE Get(c)
  <2>1. Allocate(c, Len(log), Last(log)) /\ UNCHANGED <<type, field, log>>
        /\ Exists
    BY <1>3 DEF Get
  <2>2. QED
    BY <1>2, <2>1, ClientGets DEF Logged
<1>4. CASE Create(c)
  BY <1>4, ClientWrites DEF Create
<1>5. CASE Update(c)
  BY <1>2, <1>5, ClientWrites DEF Update
<1>6. CASE UpdateStatus(c)
  BY <1>2, <1>6, ClientWrites DEF UpdateStatus
<1>7. CASE Patch(c)
  BY <1>7, ClientWrites DEF Patch
<1>8. QED
  BY <1>3, <1>4, <1>5, <1>6, <1>7

LEMMA InitHolds == Init => IInv
<1> SUFFICES ASSUME Init
             PROVE  IInv
  OBVIOUS
<1>1. \A h \in Holders : object[h] = Nothing
  BY DEF Init
<1>2. Nothing.version = 0 /\ Nothing.ref = NoCell
      /\ Nothing \in [version : Nat, ref : Cells \cup {NoCell}]
  BY DEF Nothing
<1>3. log \in Seq(Values \cup {Nil, Gone}) /\ Len(log) = 1
  BY DEF Init
<1>4. TypeOK
  BY <1>2, <1>3 DEF Init, TypeOK
<1>5. Owned /\ Past
  BY <1>1, <1>2, <1>3 DEF Owned, Past
<1>6. CacheFaithful
  BY <1>1, <1>2, CacheHolds DEF CacheFaithful, Holds
<1>7. QED
  BY <1>4, <1>5, <1>6 DEF IInv

LEMMA NextHolds ==
  ASSUME IInv, Next
  PROVE  IInv' /\ OneChange
BY DeliverKeeps, CachedGetKeeps, MutateKeeps, DeleteKeeps, CallKeeps DEF Next

LEMMA StutterHolds == IInv /\ UNCHANGED vars => IInv'
BY DEF IInv, TypeOK, Owned, Past, CacheFaithful, Holds, View, Content, vars

-----------------------------------------------------------------------------
(* The theorems.                                                           *)

(***************************************************************************)
(* The cache holds what the API server had, whatever the clients do to the *)
(* copies it hands out.                                                    *)
(***************************************************************************)
THEOREM CacheFaithfulHolds == Spec => []CacheFaithful
<1>1. IInv /\ [Next]_vars => IInv'
  BY NextHolds, StutterHolds
<1>2. IInv => CacheFaithful
  BY DEF IInv
<1>3. QED
  BY <1>1, <1>2, InitHolds, PTL DEF Spec

(***************************************************************************)
(* No change of an object in memory is seen by two holders, for all types  *)
(* of resources and all their references.                                  *)
(***************************************************************************)
THEOREM IsolationHolds == Spec => Isolation
<1>1. IInv /\ [Next]_vars => IInv'
  BY NextHolds, StutterHolds
<1>2. ASSUME IInv, Next
      PROVE  \A g, h \in Holders :
               View(g)' # View(g) /\ View(h)' # View(h) => g = h
  <2>1. PICK k \in Holders : Others(k)
    BY <1>2, NextHolds DEF OneChange
  <2>2. QED
    BY <2>1 DEF Others
<1>3. IInv /\ [Next]_vars =>
        [\A g, h \in Holders :
           View(g)' # View(g) /\ View(h)' # View(h) => g = h]_vars
  BY <1>2
<1>4. QED
  BY <1>1, <1>3, InitHolds, PTL DEF Spec, Isolation

(***************************************************************************)
(* Every variable has its type: no client ever finds both of its cells     *)
(* taken, so that a new object always has a cell of its own.               *)
(***************************************************************************)
THEOREM TypeCorrect == Spec => []TypeOK
<1>1. IInv /\ [Next]_vars => IInv'
  BY NextHolds, StutterHolds
<1>2. IInv => TypeOK
  BY DEF IInv
<1>3. QED
  BY <1>1, <1>2, InitHolds, PTL DEF Spec

=============================================================================
