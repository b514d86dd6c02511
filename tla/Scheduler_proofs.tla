-------------------------- MODULE Scheduler_proofs --------------------------
(***************************************************************************)
(* Proofs about Scheduler, for any jobs, schedules, goroutines and bounds. *)
(***************************************************************************)
EXTENDS Scheduler, TLAPS

-----------------------------------------------------------------------------
(* The arrays of jobs                                                      *)

Entries  == [id : 1..MaxId, job : Names, due : DueSets, from : 1..MaxId]
Array    == [room : Nat, cells : Seq(Entries)]
Update   == [pc : {"idle", "remove", "add", "assign"}, at : Nat, pos : Nat, id : 0..MaxId]
Addition == [pc : {"idle", "read", "append"}, job : Names \cup {Nil},
             id : 0..MaxId, at : Nat, len : Nat]
Registrations == [id : 1..MaxId, job : Names, due : DueSets, from : 1..MaxId, since : Time]

LEMMA DueOfJob ==
    ASSUME NEW j \in Names
    PROVE  Due[j] \in DueSets
  BY DEF DueSets

LEMMA MadeEntry ==
    ASSUME NEW i \in 1..MaxId, NEW j \in Names, NEW d \in DueSets
    PROVE  /\ Entry(i, j, d) \in Entries
           /\ Entry(i, j, d).id = i /\ Entry(i, j, d).from = i
  BY DEF Entry, Entries

LEMMA PutArray ==
    ASSUME NEW ss \in Seq(Array), NEW s \in 1..Len(ss), NEW new \in Array
    PROVE  /\ [ss EXCEPT ![s] = new] \in Seq(Array)
           /\ Len([ss EXCEPT ![s] = new]) = Len(ss)
           /\ \A t \in 1..Len(ss) :
                 [ss EXCEPT ![s] = new][t] = IF t = s THEN new ELSE ss[t]
  OBVIOUS

\* Writing a cell of an array in place, appending in place, and appending to a
\* copy of the first n cells.
Written(ss, s, k, e)     == [ss EXCEPT ![s].cells[k] = e]
Lengthened(ss, s, e)     == [ss EXCEPT ![s].cells = Append(ss[s].cells, e)]
Moved(ss, s, n, r, e)    ==
    Append(ss, [room |-> r, cells |-> Append(SubSeq(ss[s].cells, 1, n), e)])

IsWritten(ns, ss, s, k, e) ==
    /\ ns \in Seq(Array) /\ Len(ns) = Len(ss)
    /\ \A t \in 1..Len(ss) :
          /\ Len(ns[t].cells) = Len(ss[t].cells)
          /\ \A m \in 1..Len(ss[t].cells) :
                ns[t].cells[m] = IF t = s /\ m = k THEN e ELSE ss[t].cells[m]

IsLengthened(ns, ss, s, e) ==
    /\ ns \in Seq(Array) /\ Len(ns) = Len(ss)
    /\ \A t \in 1..Len(ss) : t # s => ns[t] = ss[t]
    /\ Len(ns[s].cells) = Len(ss[s].cells) + 1
    /\ \A m \in 1..Len(ss[s].cells) : ns[s].cells[m] = ss[s].cells[m]
    /\ ns[s].cells[Len(ss[s].cells) + 1] = e

IsMoved(ns, ss, s, n, e) ==
    /\ ns \in Seq(Array) /\ Len(ns) = Len(ss) + 1
    /\ \A t \in 1..Len(ss) : ns[t] = ss[t]
    /\ Len(ns[Len(ss) + 1].cells) = n + 1
    /\ \A m \in 1..n : ns[Len(ss) + 1].cells[m] = ss[s].cells[m]
    /\ ns[Len(ss) + 1].cells[n + 1] = e

LEMMA WriteCell ==
    ASSUME NEW ss \in Seq(Array), NEW s \in 1..Len(ss),
           NEW k \in 1..Len(ss[s].cells), NEW e \in Entries
    PROVE  IsWritten(Written(ss, s, k, e), ss, s, k, e)
<1> DEFINE ns == Written(ss, s, k, e)
           row == [ss[s].cells EXCEPT ![k] = e]
           new == [ss[s] EXCEPT !.cells = row]
<1>0. ss[s] \in Array
  OBVIOUS
<1>1. ss[s] \in Array /\ ss[s].cells \in Seq(Entries)
  BY <1>0 DEF Array
<1>2. row \in Seq(Entries) /\ Len(row) = Len(ss[s].cells)
      /\ \A m \in 1..Len(ss[s].cells) : row[m] = IF m = k THEN e ELSE ss[s].cells[m]
  BY <1>1
<1> HIDE DEF row
<1>3. new \in Array /\ new.cells = row
  BY <1>1, <1>2 DEF Array
<1>4. ns = [ss EXCEPT ![s] = new]
  BY DEF row, Written
<1> HIDE DEF new, ns
<1>5. ns \in Seq(Array) /\ Len(ns) = Len(ss)
      /\ \A t \in 1..Len(ss) : ns[t] = IF t = s THEN new ELSE ss[t]
  BY <1>3, <1>4, PutArray
<1> QED
  BY <1>2, <1>3, <1>5 DEF ns, IsWritten

LEMMA AppendCell ==
    ASSUME NEW ss \in Seq(Array), NEW s \in 1..Len(ss), NEW e \in Entries
    PROVE  IsLengthened(Lengthened(ss, s, e), ss, s, e)
<1> DEFINE ns == Lengthened(ss, s, e)
           row == Append(ss[s].cells, e)
           new == [ss[s] EXCEPT !.cells = row]
<1>0. ss[s] \in Array
  OBVIOUS
<1>1. ss[s] \in Array /\ ss[s].cells \in Seq(Entries)
  BY <1>0 DEF Array
<1>2. /\ row \in Seq(Entries) /\ Len(row) = Len(ss[s].cells) + 1
      /\ \A m \in 1..Len(ss[s].cells) : row[m] = ss[s].cells[m]
      /\ row[Len(ss[s].cells) + 1] = e
  BY <1>1
<1> HIDE DEF row
<1>3. new \in Array /\ new.cells = row
  BY <1>1, <1>2 DEF Array
<1>4. ns = [ss EXCEPT ![s] = new]
  BY DEF row, Lengthened
<1> HIDE DEF new, ns
<1>5. ns \in Seq(Array) /\ Len(ns) = Len(ss)
      /\ \A t \in 1..Len(ss) : ns[t] = IF t = s THEN new ELSE ss[t]
  BY <1>3, <1>4, PutArray
<1> QED
  BY <1>2, <1>3, <1>5 DEF ns, IsLengthened

LEMMA MoveCells ==
    ASSUME NEW ss \in Seq(Array), NEW s \in 1..Len(ss), NEW e \in Entries,
           NEW n \in 0..Len(ss[s].cells), NEW r \in Nat
    PROVE  IsMoved(Moved(ss, s, n, r, e), ss, s, n, e)
<1> DEFINE copy == SubSeq(ss[s].cells, 1, n)
           row  == Append(copy, e)
           new  == [room |-> r, cells |-> row]
<1>0. ss[s] \in Array
  OBVIOUS
<1>1. ss[s].cells \in Seq(Entries) /\ n \in Nat
  BY <1>0 DEF Array
<1>2. copy \in Seq(Entries) /\ Len(copy) = n
      /\ \A m \in 1..n : copy[m] = ss[s].cells[m]
  BY <1>1
<1> HIDE DEF copy
<1>3. row \in Seq(Entries) /\ Len(row) = n + 1 /\ row[n + 1] = e
      /\ \A m \in 1..n : row[m] = ss[s].cells[m]
  BY <1>1, <1>2
<1> HIDE DEF row
<1>4. new \in Array /\ new.cells = row
  BY <1>3 DEF Array
<1> HIDE DEF new
<1>5. Append(ss, new) \in Seq(Array) /\ Len(Append(ss, new)) = Len(ss) + 1
      /\ (\A t \in 1..Len(ss) : Append(ss, new)[t] = ss[t])
      /\ Append(ss, new)[Len(ss) + 1] = new
  BY <1>4
<1> QED
  BY <1>3, <1>4, <1>5 DEF new, row, copy, Moved, IsMoved

-----------------------------------------------------------------------------
(* Types                                                                   *)

\* s.jobs is a part of an array.
SliceOf(s, n) == s \in 1..Len(slices) /\ n \in 0..Len(slices[s].cells)

\* A goroutine that has found its job points to a cell that exists.
PointsTo(u) ==
    /\ phase # "down"
    /\ upd[u].at \in 1..Len(slices)
    /\ upd[u].pos \in 1..Len(slices[upd[u].at].cells)
    /\ upd[u].pc = "assign" => upd[u].id \in 1..MaxId
Pointers == \A u \in Updaters : upd[u].pc # "idle" => PointsTo(u)

\* A goroutine that adds a job has an id for it, and then a slice.
Appends(a) ==
    /\ phase # "down"
    /\ add[a].job \in Names /\ add[a].id \in 1..MaxId
    /\ add[a].pc = "append" => SliceOf(add[a].at, add[a].len)
Additions == \A a \in Adders : add[a].pc # "idle" => Appends(a)

Types == TypeOK /\ SliceOf(header.at, header.len) /\ Pointers /\ Additions

LEMMA Typed ==
    TypeOK <=>
    /\ phase \in {"down", "catchup", "running"}
    /\ todo \in Seq(Names)
    /\ catchUp = Nil \/ catchUp \in [job : Names, pc : {"run", "save"}]
    /\ gocron \subseteq Registrations
    /\ slices \in Seq(Array)
    /\ header \in [at : Nat, len : Nat]
    /\ upd \in [Updaters -> Update]
    /\ add \in [Adders -> Addition]
    /\ execs \subseteq [job : Names, by : {"cron", "api"}, at : Time, pc : {"run", "save"}]
    /\ lastRun \in [Names -> Time \cup {Nil}]
    /\ now \in Time /\ bootedAt \in Time
    /\ nextId \in 1..(MaxId + 1)
    /\ amiss \subseteq Names /\ overwrote \subseteq 1..MaxId
  BY DEF TypeOK, Registrations, Array, Entries, Update, Addition

LEMMA IdleUpdate == NoUpdate \in Update /\ NoUpdate.pc = "idle"
  BY BoundsAssumption DEF NoUpdate, Update

LEMMA IdleAdd == NoAdd \in Addition /\ NoAdd.pc = "idle"
  BY BoundsAssumption DEF NoAdd, Addition

\* Nothing is registered and no goroutine is at work.
Blank ==
    /\ gocron = {} /\ slices = <<[room |-> 0, cells |-> <<>>]>> /\ header = Empty
    /\ upd = [u \in Updaters |-> NoUpdate]
    /\ add = [a \in Adders |-> NoAdd]
    /\ overwrote = {}

LEMMA BlankTypes ==
    ASSUME Blank
    PROVE  /\ gocron \subseteq Registrations
           /\ slices \in Seq(Array)
           /\ header \in [at : Nat, len : Nat]
           /\ upd \in [Updaters -> Update]
           /\ add \in [Adders -> Addition]
           /\ overwrote \subseteq 1..MaxId
           /\ SliceOf(header.at, header.len) /\ Pointers /\ Additions
           /\ Len(slices) = 1 /\ Len(slices[1].cells) = 0
<1> DEFINE first == [room |-> 0, cells |-> <<>>]
<1>1. first \in Array /\ first.cells = <<>>
  BY DEF Array
<1>2. slices = <<first>>
  BY DEF Blank
<1> HIDE DEF first
<1>3. slices \in Seq(Array) /\ Len(slices) = 1 /\ slices[1].cells = <<>>
  BY <1>1, <1>2
<1>4. \A u \in Updaters : upd[u] = NoUpdate
  BY DEF Blank
<1>5. \A a \in Adders : add[a] = NoAdd
  BY DEF Blank
<1>6. SliceOf(header.at, header.len) /\ header \in [at : Nat, len : Nat]
  BY <1>3 DEF Blank, SliceOf, Empty
<1>7. Pointers /\ Additions
  BY <1>4, <1>5, IdleUpdate, IdleAdd DEF Pointers, Additions
<1>8. upd \in [Updaters -> Update] /\ add \in [Adders -> Addition]
  BY IdleUpdate, IdleAdd DEF Blank
<1> QED
  BY <1>3, <1>6, <1>7, <1>8 DEF Blank

LEMMA InitTypes ==
    ASSUME Init
    PROVE  Types
<1>1. Blank
  BY DEF Init, Blank
<1>2. TypeOK
  BY <1>1, BlankTypes, BoundsAssumption, Typed DEF Init, Time
<1> QED
  BY <1>1, <1>2, BlankTypes DEF Types

\* The ids and entries of the start.
LEMMA BootIds ==
    ASSUME TypeOK, nextId + Len(BootJobs) <= MaxId + 1
    PROVE  /\ DOMAIN BootJobs = 1..Len(BootJobs) /\ Len(BootJobs) \in Nat
           /\ \A i \in DOMAIN BootJobs :
                 /\ BootJobs[i] \in Names
                 /\ nextId + i - 1 \in 1..MaxId
                 /\ nextId + i - 1 < nextId + Len(BootJobs)
                 /\ nextId + i - 1 >= nextId
  BY BootAssumption, BoundsAssumption DEF TypeOK

BootCells == [i \in DOMAIN BootJobs |-> Entry(nextId + i - 1, BootJobs[i], Due[BootJobs[i]])]

LEMMA BootEntries ==
    ASSUME TypeOK, nextId + Len(BootJobs) <= MaxId + 1
    PROVE  /\ BootCells \in Seq(Entries) /\ Len(BootCells) = Len(BootJobs)
           /\ \A i \in 1..Len(BootJobs) :
                 BootCells[i].id = nextId + i - 1 /\ BootCells[i].from = nextId + i - 1
<1>1. \A i \in DOMAIN BootJobs :
         /\ Entry(nextId + i - 1, BootJobs[i], Due[BootJobs[i]]) \in Entries
         /\ Entry(nextId + i - 1, BootJobs[i], Due[BootJobs[i]]).id = nextId + i - 1
         /\ Entry(nextId + i - 1, BootJobs[i], Due[BootJobs[i]]).from = nextId + i - 1
  <2> SUFFICES ASSUME NEW i \in DOMAIN BootJobs
               PROVE  /\ Entry(nextId + i - 1, BootJobs[i], Due[BootJobs[i]]) \in Entries
                      /\ Entry(nextId + i - 1, BootJobs[i], Due[BootJobs[i]]).id = nextId + i - 1
                      /\ Entry(nextId + i - 1, BootJobs[i], Due[BootJobs[i]]).from = nextId + i - 1
    OBVIOUS
  <2>1. BootJobs[i] \in Names /\ nextId + i - 1 \in 1..MaxId /\ Due[BootJobs[i]] \in DueSets
    BY BootIds, DueOfJob
  <2> QED
    BY <2>1, MadeEntry
<1>2. BootCells \in [1..Len(BootJobs) -> Entries]
  BY <1>1, BootIds DEF BootCells
<1>3. BootCells \in Seq(Entries) /\ Len(BootCells) = Len(BootJobs)
  BY <1>2, BootIds
<1> QED
  BY <1>1, <1>3, BootIds DEF BootCells

\* What Boot makes of the slice.
LEMMA BootMakes ==
    ASSUME TypeOK, Boot
    PROVE  /\ slices' \in Seq(Array) /\ Len(slices') = 1 /\ slices'[1].cells = BootCells
<1>1. PICK r \in 0..Spare : slices' = <<[room |-> Len(BootJobs) + r, cells |-> BootCells]>>
  BY DEF Boot, BootCells
<1> DEFINE first == [room |-> Len(BootJobs) + r, cells |-> BootCells]
<1>2. first \in Array /\ first.cells = BootCells
  BY BootIds, BootEntries, BoundsAssumption DEF Array, Boot
<1> HIDE DEF first
<1>3. slices' = <<first>>
  BY <1>1 DEF first
<1> QED
  BY <1>2, <1>3

LEMMA BootTypes ==
    ASSUME Types, Boot
    PROVE  Types'
<1>1. nextId + Len(BootJobs) <= MaxId + 1 /\ phase = "down" /\ phase' = "catchup"
  BY DEF Boot
<1>2. gocron' \subseteq Registrations
  <2>1. \A i \in DOMAIN BootJobs :
           Registration(nextId + i - 1, BootJobs[i], Due[BootJobs[i]], nextId + i - 1)
             \in Registrations
    BY <1>1, BootIds, DueOfJob DEF Registration, Registrations, Types, TypeOK
  <2> QED
    BY <2>1 DEF Boot
<1>3. slices' \in Seq(Array) /\ Len(slices') = 1 /\ slices'[1].cells = BootCells
  BY BootMakes DEF Types
<1>4. header' \in [at : Nat, len : Nat] /\ SliceOf(header.at, header.len)'
  BY <1>1, <1>3, BootIds, BootEntries DEF Boot, SliceOf, Types
<1>5. nextId' \in 1..(MaxId + 1)
  BY <1>1, BootIds, BoundsAssumption DEF Boot, Types, TypeOK
<1>6. TypeOK'
  BY <1>2, <1>3, <1>4, <1>5, BootAssumption DEF Boot, Types,
     TypeOK, Registrations, Array, Entries, Update, Addition
<1>7. Pointers' /\ Additions'
  BY <1>1 DEF Boot, Types, Pointers, PointsTo, Additions, Appends
<1> QED
  BY <1>4, <1>6, <1>7 DEF Types, SliceOf
\* The steps of the start, of executions and of time leave the slices and the
\* goroutines that add and reschedule jobs alone.
LEMMA SamePointers ==
    ASSUME Types, UNCHANGED <<slices, header, upd, add>>, phase # "down" => phase' # "down"
    PROVE  SliceOf(header.at, header.len)' /\ Pointers' /\ Additions'
  BY DEF Types, Pointers, PointsTo, Additions, Appends, SliceOf

LEMMA LastRunTypes ==
    ASSUME TypeOK, NEW j \in Names, LastRunSet(j)
    PROVE  lastRun' \in [Names -> Time \cup {Nil}] /\ amiss' \subseteq Names
<1>1. CASE lastRun' = [lastRun EXCEPT ![j] = now] /\ UNCHANGED amiss
  BY <1>1 DEF TypeOK
<1>2. CASE UNCHANGED lastRun /\ amiss' = amiss \cup {j}
  BY <1>2 DEF TypeOK
<1> QED
  BY <1>1, <1>2 DEF LastRunSet

\* A catch-up is not the missing one.
LEMMA CatchUpIsThere ==
    ASSUME NEW j \in Names, NEW p \in {"run", "save"}
    PROVE  [job |-> j, pc |-> p] \in [job : Names, pc : {"run", "save"}]
           /\ [job |-> j, pc |-> p] # Nil
  BY NilAssumption

LEMMA StartTypes ==
    ASSUME Types, StartStep
    PROVE  Types'
<1> USE DEF Types
<1>1. CASE CheckJob
  <2>1. todo # <<>> /\ todo \in Seq(Names)
    BY <1>1 DEF CheckJob, TypeOK
  <2>2. Head(todo) \in Names /\ Tail(todo) \in Seq(Names)
    BY <2>1
  <2>3. catchUp' = Nil \/ catchUp' \in [job : Names, pc : {"run", "save"}]
    BY <1>1, <2>2, CatchUpIsThere DEF CheckJob, idleCatchUp
  <2>4. amiss' \subseteq Names
    BY <1>1, <2>2 DEF CheckJob, TypeOK
  <2>5. TypeOK'
    BY <1>1, <2>2, <2>3, <2>4 DEF CheckJob, TypeOK, memory
  <2> QED
    BY <1>1, <2>5, SamePointers DEF CheckJob, memory
<1>2. CASE CatchUpRan
  <2>1. catchUp' \in [job : Names, pc : {"run", "save"}]
    BY <1>2 DEF CatchUpRan, TypeOK, idleCatchUp
  <2>2. TypeOK'
    BY <1>2, <2>1 DEF CatchUpRan, TypeOK, memory
  <2> QED
    BY <1>2, <2>2, SamePointers DEF CatchUpRan, memory
<1>3. CASE CatchUpSaved
  <2>1. catchUp.job \in Names /\ LastRunSet(catchUp.job)
    BY <1>3 DEF CatchUpSaved, TypeOK, idleCatchUp
  <2>2. lastRun' \in [Names -> Time \cup {Nil}] /\ amiss' \subseteq Names
    BY <2>1, LastRunTypes
  <2>3. TypeOK'
    BY <1>3, <2>2 DEF CatchUpSaved, TypeOK, memory
  <2> QED
    BY <1>3, <2>3, SamePointers DEF CatchUpSaved, memory
<1>4. CASE StartCron
  <2>1. ASSUME NEW g \in gocron
        PROVE  [g EXCEPT !.since = now]
                 \in Registrations
    BY Typed DEF Registrations
  <2>2. gocron' \subseteq Registrations
    BY <1>4, <2>1 DEF StartCron
  <2>3. TypeOK'
    BY <1>4, <2>2 DEF StartCron, history, Types, TypeOK, Registrations
  <2> QED
    BY <1>4, <2>3, SamePointers DEF StartCron
<1> QED
  BY <1>1, <1>2, <1>3, <1>4 DEF StartStep

LEMMA FireTypes ==
    ASSUME Types, NEW g \in gocron, Fire(g)
    PROVE  Types'
<1>1. [g EXCEPT !.since = now] \in Registrations
  BY Typed DEF Types, Registrations
<1>2. [job |-> g.job, by |-> "cron", at |-> now, pc |-> "run"]
        \in [job : Names, by : {"cron", "api"}, at : Time, pc : {"run", "save"}]
  BY DEF Types, TypeOK
<1>3. TypeOK'
  BY <1>1, <1>2 DEF Types, Fire, history, TypeOK, Registrations
<1> QED
  BY <1>3, SamePointers DEF Types, Fire

LEMMA TriggerTypes ==
    ASSUME Types, NEW j \in Names, Trigger(j)
    PROVE  Types'
<1>1. [job |-> j, by |-> "api", at |-> now, pc |-> "run"]
        \in [job : Names, by : {"cron", "api"}, at : Time, pc : {"run", "save"}]
  BY DEF Types, TypeOK
<1>2. TypeOK'
  BY <1>1 DEF Types, TypeOK, Trigger, memory, history
<1> QED
  BY <1>2, SamePointers DEF Types, Trigger, memory

LEMMA ExecutionTypes ==
    ASSUME Types, NEW x \in execs, Ran(x) \/ Saved(x)
    PROVE  Types'
<1>1. x \in [job : Names, by : {"cron", "api"}, at : Time, pc : {"run", "save"}]
  BY DEF Types, TypeOK
<1>2. CASE Ran(x)
  <2>1. [x EXCEPT !.pc = "save"]
          \in [job : Names, by : {"cron", "api"}, at : Time, pc : {"run", "save"}]
    BY <1>1
  <2>2. execs' \subseteq [job : Names, by : {"cron", "api"}, at : Time, pc : {"run", "save"}]
    BY <1>2, <2>1 DEF Ran, Types, TypeOK
  <2>3. amiss' \subseteq Names
    BY <1>1, <1>2 DEF Ran, Types, TypeOK
  <2>4. TypeOK'
    BY <1>2, <2>2, <2>3 DEF Ran, Types, TypeOK, memory
  <2> QED
    BY <1>2, <2>4, SamePointers DEF Ran, Types, memory
<1>3. CASE Saved(x)
  <2>1. lastRun' \in [Names -> Time \cup {Nil}] /\ amiss' \subseteq Names
    BY <1>1, <1>3, LastRunTypes DEF Saved, Types
  <2>2. TypeOK'
    BY <1>3, <2>1 DEF Saved, Types, TypeOK, memory
  <2> QED
    BY <1>3, <2>2, SamePointers DEF Saved, Types, memory
<1> QED
  BY <1>2, <1>3

LEMMA AddRegisterTypes ==
    ASSUME Types, NEW a \in Adders, NEW j \in Names, AddRegister(a, j)
    PROVE  Types'
<1>1. nextId \in 1..MaxId /\ nextId' \in 1..(MaxId + 1)
  BY BoundsAssumption DEF Types, TypeOK, AddRegister
<1>2. Registration(nextId, j, Due[j], nextId) \in Registrations
  BY <1>1, DueOfJob DEF Registration, Registrations, Types, TypeOK
<1> DEFINE r == [NoAdd EXCEPT !.pc = "read", !.job = j, !.id = nextId]
<1>3. r \in Addition /\ r.pc = "read" /\ r.job = j /\ r.id = nextId
  <2>1. nextId \in 0..MaxId
    BY <1>1, BoundsAssumption
  <2> QED
    BY <2>1 DEF NoAdd, Addition
<1>4. add' = [add EXCEPT ![a] = r] /\ add \in [Adders -> Addition]
  BY Typed DEF AddRegister, Types
<1> HIDE DEF r
<1>5. add' \in [Adders -> Addition]
  BY <1>3, <1>4
<1>6. TypeOK'
  BY <1>1, <1>2, <1>5 DEF Types, TypeOK, AddRegister, history, Registrations, Addition
<1>7. Additions'
  <2> SUFFICES ASSUME NEW b \in Adders, add'[b].pc # "idle"
               PROVE  Appends(b)'
    BY DEF Additions
  <2>1. CASE b = a
    BY <1>1, <1>3, <1>4, <2>1 DEF Appends, AddRegister
  <2>2. CASE b # a
    BY <1>4, <2>2 DEF Appends, Additions, Types, AddRegister, SliceOf
  <2> QED
    BY <2>1, <2>2
<1> QED
  BY <1>6, <1>7 DEF Types, Pointers, PointsTo, AddRegister, SliceOf

LEMMA AddReadTypes ==
    ASSUME Types, NEW a \in Adders, AddRead(a)
    PROVE  Types'
<1>1. add' = [add EXCEPT ![a].pc = "append", ![a].at = header.at, ![a].len = header.len]
      /\ add \in [Adders -> Addition] /\ header \in [at : Nat, len : Nat]
  BY Typed DEF AddRead, Types
<1>2. add' \in [Adders -> Addition]
      /\ add'[a].job = add[a].job /\ add'[a].id = add[a].id
      /\ add'[a].at = header.at /\ add'[a].len = header.len
      /\ \A b \in Adders : b # a => add'[b] = add[b]
  BY <1>1 DEF Addition
<1>3. TypeOK'
  BY <1>2 DEF Types, TypeOK, AddRead, history, Addition
<1>4. Additions'
  <2> SUFFICES ASSUME NEW b \in Adders, add'[b].pc # "idle"
               PROVE  Appends(b)'
    BY DEF Additions
  <2>1. CASE b = a
    <3>1. Appends(a)
      BY DEF AddRead, Types, Additions
    <3> QED
      BY <1>2, <2>1, <3>1 DEF Appends, AddRead, Types, SliceOf
  <2>2. CASE b # a
    BY <1>2, <2>2 DEF Appends, Additions, Types, AddRead, SliceOf
  <2> QED
    BY <2>1, <2>2
<1> QED
  BY <1>3, <1>4 DEF Types, Pointers, PointsTo, AddRead, SliceOf

NewEntry(a) == Entry(add[a].id, add[a].job, Due[add[a].job])

\* What an append makes of the arrays: a cell keeps its entry unless the new
\* one was written over it, and a cell of the new arrays holds the new entry
\* or one that was there before.
AppendMakes(a) ==
    /\ slices' \in Seq(Array) /\ Len(slices') >= Len(slices)
    /\ \A s \in 1..Len(slices) :
          /\ Len(slices'[s].cells) >= Len(slices[s].cells)
          /\ \A k \in 1..Len(slices[s].cells) :
                \/ slices'[s].cells[k] = slices[s].cells[k]
                \/ slices'[s].cells[k] = NewEntry(a) /\ add[a].id \in overwrote'
    /\ \A s \in 1..Len(slices') : \A k \in 1..Len(slices'[s].cells) :
          \/ slices'[s].cells[k] = NewEntry(a)
          \/ \E t \in 1..Len(slices) : \E m \in 1..Len(slices[t].cells) :
                slices'[s].cells[k] = slices[t].cells[m]
    /\ overwrote \subseteq overwrote' /\ overwrote' \subseteq overwrote \cup {add[a].id}
    /\ header' \in [at : Nat, len : Nat]
    /\ header'.at \in 1..Len(slices') /\ header'.len \in 0..Len(slices'[header'.at].cells)

LEMMA AddAppendMakes ==
    ASSUME Types, NEW a \in Adders, AddAppend(a)
    PROVE  AppendMakes(a)
<1>1. Appends(a) /\ slices \in Seq(Array) /\ overwrote \subseteq 1..MaxId
  BY Typed DEF AddAppend, Types, Additions
<1> PICK at, n, e : at = add[a].at /\ n = add[a].len /\ e = NewEntry(a)
  OBVIOUS
<1>2. at \in 1..Len(slices) /\ n \in 0..Len(slices[at].cells) /\ e \in Entries
  BY <1>1, MadeEntry, DueOfJob DEF Appends, SliceOf, NewEntry, AddAppend
<1>3. Len(slices[at].cells) \in Nat /\ Len(slices) \in Nat /\ n \in Nat
  <2>1. slices[at] \in Array
    BY <1>1, <1>2
  <2> QED
    BY <1>1, <1>2, <2>1 DEF Array
<1>4. CASE /\ n < Len(slices[at].cells)
           /\ slices' = [slices EXCEPT ![at].cells[n + 1] = e]
           /\ overwrote' = overwrote \cup {add[a].id}
           /\ header' = [at |-> at, len |-> n + 1]
  <2>1. n + 1 \in 1..Len(slices[at].cells)
    BY <1>3, <1>4
  <2>2. /\ slices' \in Seq(Array) /\ Len(slices') = Len(slices)
        /\ \A t \in 1..Len(slices) :
              /\ Len(slices'[t].cells) = Len(slices[t].cells)
              /\ \A m \in 1..Len(slices[t].cells) :
                    slices'[t].cells[m] = IF t = at /\ m = n + 1 THEN e ELSE slices[t].cells[m]
    <3>1. slices' = Written(slices, at, n + 1, e)
      BY <1>4 DEF Written
    <3>2. IsWritten(slices', slices, at, n + 1, e)
      BY <1>1, <1>2, <2>1, <3>1, WriteCell
    <3> QED
      BY <3>2 DEF IsWritten
  <2>3. header' \in [at : Nat, len : Nat] /\ header'.at = at /\ header'.len = n + 1
    BY <1>2, <1>3, <1>4
  <2> QED
    BY <1>2, <1>3, <1>4, <2>1, <2>2, <2>3 DEF AppendMakes
<1>5. CASE /\ n >= Len(slices[at].cells)
           /\ slices' = [slices EXCEPT ![at].cells = Append(slices[at].cells, e)]
           /\ overwrote' = overwrote
           /\ header' = [at |-> at, len |-> n + 1]
  <2>1. n = Len(slices[at].cells)
    BY <1>2, <1>3, <1>5
  <2>2. /\ slices' \in Seq(Array) /\ Len(slices') = Len(slices)
        /\ \A t \in 1..Len(slices) : t # at => slices'[t] = slices[t]
        /\ Len(slices'[at].cells) = n + 1
        /\ \A m \in 1..n : slices'[at].cells[m] = slices[at].cells[m]
        /\ slices'[at].cells[n + 1] = e
    <3>1. slices' = Lengthened(slices, at, e)
      BY <1>5 DEF Lengthened
    <3>2. IsLengthened(slices', slices, at, e)
      BY <1>1, <1>2, <3>1, AppendCell
    <3> QED
      BY <2>1, <3>2 DEF IsLengthened
  <2>3. header' \in [at : Nat, len : Nat] /\ header'.at = at /\ header'.len = n + 1
    BY <1>2, <1>3, <1>5
  <2>4. ASSUME NEW s \in 1..Len(slices)
        PROVE  /\ Len(slices'[s].cells) >= Len(slices[s].cells)
               /\ \A k \in 1..Len(slices[s].cells) : slices'[s].cells[k] = slices[s].cells[k]
    <3>0. Len(slices[s].cells) \in Nat
      <4>1. slices[s] \in Array
        BY <1>1
      <4> QED
        BY <4>1 DEF Array
    <3> QED
      BY <1>3, <2>1, <2>2, <3>0
  <2>5. ASSUME NEW s \in 1..Len(slices'), NEW k \in 1..Len(slices'[s].cells)
        PROVE  \/ slices'[s].cells[k] = e
               \/ \E t \in 1..Len(slices) : \E m \in 1..Len(slices[t].cells) :
                     slices'[s].cells[k] = slices[t].cells[m]
    <3>1. CASE s # at
      BY <2>2, <3>1
    <3>2. CASE s = at
      <4>1. k = n + 1 \/ k \in 1..n
        BY <1>3, <2>2, <3>2
      <4> QED
        BY <1>2, <2>1, <2>2, <3>2, <4>1
    <3> QED
      BY <3>1, <3>2
  <2>6. /\ Len(slices') >= Len(slices)
        /\ header'.at \in 1..Len(slices') /\ header'.len \in 0..Len(slices'[header'.at].cells)
    BY <1>2, <1>3, <2>2, <2>3
  <2>7. \A s \in 1..Len(slices') : \A k \in 1..Len(slices'[s].cells) :
           \/ slices'[s].cells[k] = e
           \/ \E t \in 1..Len(slices) : \E m \in 1..Len(slices[t].cells) :
                 slices'[s].cells[k] = slices[t].cells[m]
    BY <2>5
  <2> HIDE <1>4, <2>5
  <2>8. e = NewEntry(a) /\ slices' \in Seq(Array) /\ overwrote' = overwrote
    BY <1>5, <2>2
  <2> QED
    BY <2>3, <2>4, <2>6, <2>7, <2>8, ZenonT(60) DEF AppendMakes
<1>6. CASE /\ \E r \in 0..Spare :
                 slices' = Append(slices,
                    [room |-> n + 1 + r, cells |-> Append(SubSeq(slices[at].cells, 1, n), e)])
           /\ overwrote' = overwrote
           /\ header' = [at |-> Len(slices) + 1, len |-> n + 1]
  <2>0. PICK r \in 0..Spare :
           slices' = Append(slices,
              [room |-> n + 1 + r, cells |-> Append(SubSeq(slices[at].cells, 1, n), e)])
    BY <1>6
  <2>1. n + 1 + r \in Nat
    BY <1>3, BoundsAssumption
  <2>2. /\ slices' \in Seq(Array) /\ Len(slices') = Len(slices) + 1
        /\ \A t \in 1..Len(slices) : slices'[t] = slices[t]
        /\ Len(slices'[Len(slices) + 1].cells) = n + 1
        /\ \A m \in 1..n : slices'[Len(slices) + 1].cells[m] = slices[at].cells[m]
        /\ slices'[Len(slices) + 1].cells[n + 1] = e
    <3>1. slices' = Moved(slices, at, n, n + 1 + r, e)
      BY <2>0 DEF Moved
    <3>2. IsMoved(slices', slices, at, n, e)
      BY <1>1, <1>2, <2>1, <3>1, MoveCells
    <3> QED
      BY <3>2 DEF IsMoved
  <2>3. header' \in [at : Nat, len : Nat] /\ header'.at = Len(slices) + 1 /\ header'.len = n + 1
    BY <1>2, <1>3, <1>6
  <2>4. ASSUME NEW s \in 1..Len(slices), Len(slices[s].cells) \in Nat
        PROVE  Len(slices'[s].cells) >= Len(slices[s].cells)
    BY <2>2, <2>4
  <2>5. ASSUME NEW s \in 1..Len(slices'), NEW k \in 1..Len(slices'[s].cells)
        PROVE  \/ slices'[s].cells[k] = e
               \/ \E t \in 1..Len(slices) : \E m \in 1..Len(slices[t].cells) :
                     slices'[s].cells[k] = slices[t].cells[m]
    <3>0. s \in 1..Len(slices) \/ s = Len(slices) + 1
      BY <1>3, <2>2
    <3>1. CASE s \in 1..Len(slices)
      BY <2>2, <3>1
    <3>2. CASE s = Len(slices) + 1
      <4>1. k = n + 1 \/ k \in 1..n
        BY <1>3, <2>2, <3>2
      <4>2. \A m \in 1..n : m \in 1..Len(slices[at].cells)
        BY <1>2, <1>3
      <4> QED
        BY <1>2, <2>2, <3>2, <4>1, <4>2
    <3> QED
      BY <3>0, <3>1, <3>2
  <2>6. \A s \in 1..Len(slices) : Len(slices[s].cells) \in Nat
    <3> SUFFICES ASSUME NEW s \in 1..Len(slices)
                 PROVE  Len(slices[s].cells) \in Nat
      OBVIOUS
    <3>1. slices[s] \in Array
      BY <1>1
    <3> QED
      BY <3>1 DEF Array
  <2>7. /\ Len(slices') >= Len(slices)
        /\ header'.at \in 1..Len(slices') /\ header'.len \in 0..Len(slices'[header'.at].cells)
    BY <1>3, <2>2, <2>3
  <2> QED
    BY <1>6, <2>2, <2>3, <2>4, <2>5, <2>6, <2>7 DEF AppendMakes
<1>7. CASE n < Len(slices[at].cells)
  BY <1>3, <1>4, <1>6, <1>7 DEF AddAppend, NewEntry
<1>8. CASE ~ (n < Len(slices[at].cells))
  <2>1. n >= Len(slices[at].cells)
    BY <1>3, <1>8
  <2>2. \/ /\ slices' = [slices EXCEPT ![at].cells = Append(slices[at].cells, e)]
           /\ overwrote' = overwrote
           /\ header' = [at |-> at, len |-> n + 1]
        \/ /\ \E r \in 0..Spare :
                 slices' = Append(slices,
                    [room |-> n + 1 + r, cells |-> Append(SubSeq(slices[at].cells, 1, n), e)])
           /\ overwrote' = overwrote
           /\ header' = [at |-> Len(slices) + 1, len |-> n + 1]
    BY <1>8 DEF AddAppend, NewEntry
  <2> QED
    BY <1>5, <1>6, <2>1, <2>2
<1> QED
  BY <1>7, <1>8

LEMMA AddEnds ==
    ASSUME add \in [Adders -> Addition], NEW a \in Adders,
           add' = [add EXCEPT ![a] = NoAdd]
    PROVE  /\ add' \in [Adders -> Addition]
           /\ \A b \in Adders : add'[b].pc # "idle" => b # a /\ add'[b] = add[b]
  BY IdleAdd

\* Pointers and slices that were read stay good while the arrays only grow.
Grow ==
    /\ slices' \in Seq(Array) /\ Len(slices') >= Len(slices)
    /\ \A s \in 1..Len(slices) : Len(slices'[s].cells) >= Len(slices[s].cells)

LEMMA GrownPoints ==
    ASSUME slices \in Seq(Array), Grow, phase' = phase,
           NEW u \in Updaters, PointsTo(u), upd'[u] = upd[u]
    PROVE  PointsTo(u)'
<1>1. slices[upd[u].at] \in Array /\ slices'[upd[u].at] \in Array
  BY DEF PointsTo, Grow
<1>2. Len(slices[upd[u].at].cells) \in Nat /\ Len(slices'[upd[u].at].cells) \in Nat
  BY <1>1 DEF Array
<1> QED
  BY <1>2 DEF PointsTo, Grow

LEMMA GrownSlice ==
    ASSUME slices \in Seq(Array), Grow, NEW s, NEW n, SliceOf(s, n)
    PROVE  s \in 1..Len(slices') /\ n \in 0..Len(slices'[s].cells)
<1>1. slices[s] \in Array /\ slices'[s] \in Array
  BY DEF SliceOf, Grow
<1>2. Len(slices[s].cells) \in Nat /\ Len(slices'[s].cells) \in Nat
  BY <1>1 DEF Array
<1> QED
  BY <1>2 DEF SliceOf, Grow

LEMMA AddAppendTypes ==
    ASSUME Types, NEW a \in Adders, AddAppend(a)
    PROVE  Types'
<1>1. AppendMakes(a) /\ Appends(a)
  BY AddAppendMakes DEF Types, Additions, AddAppend
<1>2. slices \in Seq(Array) /\ add \in [Adders -> Addition] /\ overwrote \subseteq 1..MaxId
  BY Typed DEF Types
<1>3. Grow
  BY <1>1 DEF AppendMakes, Grow
<1>4. /\ add' \in [Adders -> Addition]
      /\ \A b \in Adders : add'[b].pc # "idle" => b # a /\ add'[b] = add[b]
  BY <1>2, AddEnds DEF AddAppend
<1>5. overwrote' \subseteq 1..MaxId
  BY <1>1, <1>2 DEF AppendMakes, Appends
<1>6. TypeOK'
  BY <1>1, <1>4, <1>5
     DEF AppendMakes, Types, TypeOK, AddAppend, history, Addition, Array, Entries
<1>7. Pointers'
  BY <1>2, <1>3, GrownPoints DEF Types, Pointers, AddAppend
<1>8. Additions'
  <2> SUFFICES ASSUME NEW b \in Adders, add'[b].pc # "idle"
               PROVE  Appends(b)'
    BY DEF Additions
  <2>1. add'[b] = add[b] /\ Appends(b) /\ phase' = phase
    BY <1>4 DEF Types, Additions, AddAppend
  <2> QED
    BY <1>2, <1>3, <2>1, GrownSlice DEF Appends, SliceOf
<1> QED
  BY <1>1, <1>6, <1>7, <1>8 DEF Types, AppendMakes, SliceOf

LEMMA UpdateFindTypes ==
    ASSUME Types, NEW u \in Updaters, NEW j \in Names, UpdateFind(u, j)
    PROVE  Types'
<1>1. PICK k \in DOMAIN Jobs :
         upd' = [upd EXCEPT ![u] = [NoUpdate EXCEPT !.pc = "remove", !.at = header.at, !.pos = k]]
  BY DEF UpdateFind
<1> DEFINE r == [NoUpdate EXCEPT !.pc = "remove", !.at = header.at, !.pos = k]
<1>2. slices \in Seq(Array) /\ header \in [at : Nat, len : Nat] /\ upd \in [Updaters -> Update]
      /\ SliceOf(header.at, header.len)
  BY Typed DEF Types
<1>3. k \in 1..header.len /\ k \in 1..Len(slices[header.at].cells)
  <2>1. slices[header.at] \in Array
    BY <1>2 DEF SliceOf
  <2>2. slices[header.at].cells \in Seq(Entries) /\ header.len \in 0..Len(slices[header.at].cells)
    BY <1>2, <2>1 DEF SliceOf, Array
  <2> QED
    BY <2>2 DEF Jobs
<1>4. r \in Update /\ r.pc = "remove" /\ r.at = header.at /\ r.pos = k
  <2>1. header.at \in Nat /\ k \in Nat /\ 0 \in 0..MaxId
    BY <1>2, <1>3, BoundsAssumption
  <2> QED
    BY <2>1 DEF NoUpdate, Update
<1>5. upd' = [upd EXCEPT ![u] = r]
  BY <1>1
<1> HIDE DEF r
<1>6. upd' \in [Updaters -> Update]
  BY <1>2, <1>4, <1>5
<1>7. TypeOK'
  BY <1>6 DEF Types, TypeOK, UpdateFind, history, Update
<1>8. ASSUME NEW v \in Updaters, upd'[v].pc # "idle"
      PROVE  PointsTo(v)'
  <2>1. CASE v = u
    BY <1>2, <1>3, <1>4, <1>5, <2>1 DEF PointsTo, UpdateFind, SliceOf
  <2>2. CASE v # u
    <3>1. upd'[v] = upd[v] /\ PointsTo(v)
      BY <1>2, <1>5, <1>8, <2>2 DEF Types, Pointers
    <3> QED
      BY <3>1 DEF PointsTo, UpdateFind
  <2> QED
    BY <2>1, <2>2
<1> QED
  BY <1>7, <1>8 DEF Types, Pointers, Additions, Appends, UpdateFind, SliceOf

LEMMA UpdateRemoveTypes ==
    ASSUME Types, NEW u \in Updaters, UpdateRemove(u)
    PROVE  Types'
<1>1. upd \in [Updaters -> Update]
  BY Typed DEF Types
<1>2. /\ upd' \in [Updaters -> Update]
      /\ \A v \in Updaters : upd'[v].pc # "idle" =>
            /\ upd[v].pc # "idle"
            /\ upd'[v].at = upd[v].at /\ upd'[v].pos = upd[v].pos
            /\ upd'[v].pc = "assign" => upd[v].pc = "assign" /\ upd'[v].id = upd[v].id
  <2>1. CASE upd' = [upd EXCEPT ![u].pc = "add"]
    BY <1>1, <2>1 DEF Update, UpdateRemove
  <2>2. CASE upd' = [upd EXCEPT ![u] = NoUpdate]
    BY <1>1, <2>2, IdleUpdate
  <2> QED
    BY <2>1, <2>2 DEF UpdateRemove
<1>3. gocron' \subseteq gocron
  BY DEF UpdateRemove
<1>4. TypeOK'
  BY <1>2, <1>3 DEF Types, TypeOK, UpdateRemove, history, Update
<1>5. Pointers'
  BY <1>2 DEF Types, Pointers, PointsTo, UpdateRemove
<1> QED
  BY <1>4, <1>5 DEF Types, Additions, Appends, UpdateRemove, SliceOf

\* The end of a rescheduling: the goroutine is idle, the others are as before.
LEMMA UpdateEnds ==
    ASSUME upd \in [Updaters -> Update], NEW u \in Updaters,
           upd' = [upd EXCEPT ![u] = NoUpdate]
    PROVE  /\ upd' \in [Updaters -> Update]
           /\ \A v \in Updaters : upd'[v].pc # "idle" => v # u /\ upd'[v] = upd[v]
  BY IdleUpdate

\* The entry behind a pointer.
LEMMA FoundTyped ==
    ASSUME slices \in Seq(Array), NEW u \in Updaters, PointsTo(u)
    PROVE  Found(u) \in Entries
<1>1. slices[upd[u].at] \in Array
  BY DEF PointsTo
<1> QED
  BY <1>1 DEF PointsTo, Found, Array

LEMMA UpdateAddTypes ==
    ASSUME Types, NEW u \in Updaters, UpdateAdd(u)
    PROVE  Types'
<1>1. upd \in [Updaters -> Update] /\ slices \in Seq(Array) /\ PointsTo(u)
  BY Typed DEF Types, Pointers, UpdateAdd
<1>2. CASE /\ nextId <= MaxId
           /\ gocron' = gocron \cup {Registration(nextId, Found(u).job, NewDue, Found(u).from)}
           /\ upd' = [upd EXCEPT ![u].pc = "assign", ![u].id = nextId]
           /\ nextId' = nextId + 1
  <2>1. nextId \in 1..MaxId /\ nextId' \in 1..(MaxId + 1) /\ now \in Time
    BY <1>2, BoundsAssumption DEF Types, TypeOK
  <2>2. Found(u).job \in Names /\ Found(u).from \in 1..MaxId /\ NewDue \in DueSets
    BY <1>1, FoundTyped DEF Entries, DueSets
  <2>3. Registration(nextId, Found(u).job, NewDue, Found(u).from) \in Registrations
    BY <2>1, <2>2 DEF Registration, Registrations
  <2>4. /\ upd' \in [Updaters -> Update]
        /\ upd'[u].id = nextId /\ upd'[u].at = upd[u].at /\ upd'[u].pos = upd[u].pos
        /\ \A v \in Updaters : v # u => upd'[v] = upd[v]
    <3>1. nextId \in 0..MaxId
      BY <2>1, BoundsAssumption
    <3> QED
      BY <1>1, <1>2, <3>1 DEF Update
  <2>5. TypeOK'
    BY <1>2, <2>1, <2>3, <2>4 DEF Types, TypeOK, UpdateAdd, history, Update, Registrations
  <2>6. ASSUME NEW v \in Updaters, upd'[v].pc # "idle"
        PROVE  PointsTo(v)'
    <3>1. CASE v = u
      BY <1>1, <2>1, <2>4, <3>1 DEF PointsTo, UpdateAdd
    <3>2. CASE v # u
      BY <2>4, <2>6, <3>2 DEF Types, Pointers, PointsTo, UpdateAdd
    <3> QED
      BY <3>1, <3>2
  <2> QED
    BY <2>5, <2>6 DEF Types, Pointers, Additions, Appends, UpdateAdd, SliceOf
<1>3. CASE upd' = [upd EXCEPT ![u] = NoUpdate] /\ UNCHANGED <<gocron, nextId>>
  <2>1. /\ upd' \in [Updaters -> Update]
        /\ \A v \in Updaters : upd'[v].pc # "idle" => v # u /\ upd'[v] = upd[v]
    BY <1>1, <1>3, UpdateEnds
  <2>2. TypeOK'
    BY <1>3, <2>1 DEF Types, TypeOK, UpdateAdd, history, Update
  <2> QED
    BY <2>1, <2>2 DEF Types, Pointers, PointsTo, Additions, Appends, UpdateAdd, SliceOf
<1> QED
  BY <1>2, <1>3 DEF UpdateAdd

\* What the assignments make of the arrays.
LEMMA UpdateAssigns ==
    ASSUME Types, NEW u \in Updaters, UpdateAssign(u)
    PROVE  LET e == [Found(u) EXCEPT !.id = upd[u].id, !.due = NewDue]
           IN  /\ e.id = upd[u].id /\ e.from = Found(u).from
               /\ slices' \in Seq(Array) /\ Len(slices') = Len(slices)
               /\ \A t \in 1..Len(slices) :
                     /\ Len(slices'[t].cells) = Len(slices[t].cells)
                     /\ \A m \in 1..Len(slices[t].cells) :
                           slices'[t].cells[m] = IF t = upd[u].at /\ m = upd[u].pos
                                                 THEN e ELSE slices[t].cells[m]
<1> DEFINE e == [Found(u) EXCEPT !.id = upd[u].id, !.due = NewDue]
<1>1. slices \in Seq(Array) /\ PointsTo(u) /\ upd[u].id \in 1..MaxId
  BY Typed DEF Types, Pointers, PointsTo, UpdateAssign
<1>2. e \in Entries /\ e.id = upd[u].id /\ e.from = Found(u).from
  BY <1>1, FoundTyped DEF Entries, DueSets
<1>3. slices' = Written(slices, upd[u].at, upd[u].pos, e)
  BY DEF UpdateAssign, Written
<1> HIDE DEF e
<1>4. upd[u].at \in 1..Len(slices) /\ upd[u].pos \in 1..Len(slices[upd[u].at].cells)
  BY <1>1 DEF PointsTo
<1>5. IsWritten(slices', slices, upd[u].at, upd[u].pos, e)
  BY <1>1, <1>2, <1>3, <1>4, WriteCell
<1> QED
  BY <1>2, <1>5 DEF e, IsWritten

LEMMA UpdateAssignTypes ==
    ASSUME Types, NEW u \in Updaters, UpdateAssign(u)
    PROVE  Types'
<1>1. upd \in [Updaters -> Update] /\ slices \in Seq(Array)
  BY Typed DEF Types
<1>2. slices' \in Seq(Array) /\ Len(slices') = Len(slices)
      /\ \A t \in 1..Len(slices) : Len(slices'[t].cells) = Len(slices[t].cells)
  BY UpdateAssigns
<1>3. /\ upd' \in [Updaters -> Update]
      /\ \A v \in Updaters : upd'[v].pc # "idle" => v # u /\ upd'[v] = upd[v]
  BY <1>1, UpdateEnds DEF UpdateAssign
<1>4. TypeOK'
  BY <1>2, <1>3 DEF Types, TypeOK, UpdateAssign, history, Update, Array, Entries
<1>5. Pointers'
  BY <1>2, <1>3 DEF Types, Pointers, PointsTo, UpdateAssign
<1>6. Additions' /\ SliceOf(header.at, header.len)'
  BY <1>2 DEF Types, Additions, Appends, SliceOf, UpdateAssign
<1> QED
  BY <1>4, <1>5, <1>6 DEF Types, SliceOf

\* What Down makes of the scheduler's memory.
LEMMA DownBlank ==
    ASSUME Down
    PROVE  /\ gocron' \subseteq Registrations
           /\ slices' \in Seq(Array)
           /\ header' \in [at : Nat, len : Nat]
           /\ upd' \in [Updaters -> Update]
           /\ add' \in [Adders -> Addition]
           /\ overwrote' \subseteq 1..MaxId
           /\ SliceOf(header.at, header.len)' /\ Pointers' /\ Additions'
           /\ gocron' = {} /\ Len(slices') = 1 /\ Len(slices'[1].cells) = 0
           /\ \A u \in Updaters : upd'[u].pc = "idle"
           /\ \A a \in Adders : add'[a].pc = "idle"
<1> DEFINE first == [room |-> 0, cells |-> <<>>]
<1>1. first \in Array /\ first.cells = <<>>
  BY DEF Array
<1>2. slices' = <<first>>
  BY DEF Down
<1> HIDE DEF first
<1>3. slices' \in Seq(Array) /\ Len(slices') = 1 /\ slices'[1].cells = <<>>
  BY <1>1, <1>2
<1>4. /\ \A u \in Updaters : upd'[u].pc = "idle"
      /\ \A a \in Adders : add'[a].pc = "idle"
      /\ upd' \in [Updaters -> Update] /\ add' \in [Adders -> Addition]
  BY IdleUpdate, IdleAdd DEF Down
<1>5. SliceOf(header.at, header.len)' /\ header' \in [at : Nat, len : Nat]
  BY <1>3 DEF Down, SliceOf, Empty
<1>6. Pointers' /\ Additions'
  BY <1>4 DEF Pointers, Additions
<1> QED
  BY <1>3, <1>4, <1>5, <1>6 DEF Down

LEMMA DownTypes ==
    ASSUME Types, Down
    PROVE  Types'
<1>1. amiss' \subseteq Names
  <2>1. {x.job : x \in {y \in execs : y.pc = "save"}} \subseteq Names
    BY DEF Types, TypeOK
  <2>2. (IF idleCatchUp THEN {} ELSE {catchUp.job}) \subseteq Names
    BY DEF Types, TypeOK, idleCatchUp
  <2> QED
    BY <2>1, <2>2 DEF Down, Types, TypeOK
<1>2. TypeOK'
  BY <1>1, DownBlank DEF Types, TypeOK, Down, Registrations, Array, Entries, Update, Addition
<1> QED
  BY <1>2, DownBlank DEF Types, SliceOf

LEMMA TickTypes ==
    ASSUME Types, Tick
    PROVE  Types'
<1>1. now' \in Time
  BY BoundsAssumption DEF Types, TypeOK, Tick, Time
<1>2. TypeOK'
  BY <1>1 DEF Types, TypeOK, Tick, memory, history
<1> QED
  BY <1>2, SamePointers DEF Types, Tick, memory, SliceOf

LEMMA NextTypes ==
    ASSUME Types, [Next]_vars
    PROVE  Types'
<1>1. CASE Boot
  BY <1>1, BootTypes
<1>2. CASE StartStep
  BY <1>2, StartTypes
<1>3. CASE \E g \in gocron : Fire(g)
  BY <1>3, FireTypes
<1>4. CASE \E x \in execs : Ran(x) \/ Saved(x)
  BY <1>4, ExecutionTypes
<1>5. CASE \E j \in Names : Trigger(j)
  BY <1>5, TriggerTypes
<1>6. CASE \E a \in Adders : (\E j \in Names : AddRegister(a, j)) \/ AddRead(a) \/ AddAppend(a)
  BY <1>6, AddRegisterTypes, AddReadTypes, AddAppendTypes
<1>7. CASE \E u \in Updaters, j \in Names : UpdateFind(u, j)
  BY <1>7, UpdateFindTypes
<1>8. CASE \E u \in Updaters : UpdateRemove(u) \/ UpdateAdd(u) \/ UpdateAssign(u)
  BY <1>8, UpdateRemoveTypes, UpdateAddTypes, UpdateAssignTypes
<1>9. CASE Stop \/ Crash
  BY <1>9, DownTypes DEF Stop, Crash
<1>10. CASE Tick
  BY <1>10, TickTypes
<1>11. CASE UNCHANGED vars
  BY <1>11 DEF vars, Types, TypeOK, Pointers, PointsTo, Additions, Appends, SliceOf
<1> QED
  BY <1>1, <1>2, <1>3, <1>4, <1>5, <1>6, <1>7, <1>8, <1>9, <1>10, <1>11 DEF Next

\* Every variable of the scheduler always holds a value of its type, s.jobs is
\* always a part of an array, and a goroutine inside UpdateJobSchedule always
\* points to a cell that exists, wherever racing appends left it
\* (scheduler.go:129, 163-203).
THEOREM SchedulerTypes == Spec => []Types
<1>1. Init => Types
  BY InitTypes
<1>2. Types /\ [Next]_vars => Types'
  BY NextTypes
<1> QED
  BY <1>1, <1>2, PTL DEF Spec
-----------------------------------------------------------------------------
(* One schedule for what was added once                                    *)

\* Ids are given out once, and what was written over another had an id.
Old ==
    /\ \A g \in gocron : g.id < nextId /\ g.from < nextId
    /\ \A g, h \in gocron : g.id = h.id => g = h
    /\ \A s \in 1..Len(slices) : \A k \in 1..Len(slices[s].cells) :
          slices[s].cells[k].id < nextId /\ slices[s].cells[k].from < nextId
    /\ \A u \in Updaters : upd[u].pc = "assign" => upd[u].id < nextId
    /\ \A a \in Adders : add[a].pc # "idle" => add[a].id < nextId

Fits(e, i) == e.from \notin overwrote => \A g \in gocron : g.id = i => g.from = e.from

\* A cell that holds the id of a registration, in whichever array, comes from
\* the same AddJob; so does what is about to be written into a cell, and what
\* an AddJob is about to append is its own.
SameFrom ==
    \A s \in 1..Len(slices) : \A k \in 1..Len(slices[s].cells) :
        Fits(slices[s].cells[k], slices[s].cells[k].id)
Assigns == \A u \in Updaters : upd[u].pc = "assign" => Fits(Found(u), upd[u].id)
OwnId ==
    \A a \in Adders : add[a].pc # "idle" =>
        \A g \in gocron : g.id = add[a].id => g.from = add[a].id

\* A goroutine about to add a registration has removed the only one, and it is
\* alone with its job, unless the cell it points to was written over.
Removed ==
    \A u \in Updaters : upd[u].pc = "add" /\ Found(u).from \notin overwrote =>
        \A g \in gocron : g.from # Found(u).from
OneAdds ==
    \A u, v \in Updaters :
        /\ upd[u].pc = "add" /\ upd[v].pc = "add"
        /\ Found(u).from = Found(v).from /\ Found(u).from \notin overwrote
        => u = v

OneSchedule ==
    AddedOnceRunsOnce /\ Old /\ SameFrom /\ Assigns /\ OwnId /\ Removed /\ OneAdds

\* The steps use these types only.
LEMMA GocronTyped ==
    ASSUME TypeOK, NEW g \in gocron
    PROVE  /\ g \in Registrations
           /\ g.id \in Nat /\ g.from \in Nat
           /\ [g EXCEPT !.since = now].id = g.id
           /\ [g EXCEPT !.since = now].from = g.from
  BY Typed, BoundsAssumption DEF Registrations

LEMMA CellTyped ==
    ASSUME Types, NEW s \in 1..Len(slices), NEW k \in 1..Len(slices[s].cells)
    PROVE  /\ slices[s].cells[k] \in Entries
           /\ slices[s].cells[k].id \in Nat /\ slices[s].cells[k].from \in Nat
<1>1. slices \in Seq(Array)
  BY Typed DEF Types
<1>2. slices[s] \in Array
  BY <1>1
<1>3. slices[s].cells[k] \in Entries
  BY <1>2 DEF Array
<1> QED
  BY <1>3, BoundsAssumption DEF Entries

LEMMA Registered ==
    ASSUME NEW i, NEW j, NEW d, NEW f
    PROVE  Registration(i, j, d, f).id = i /\ Registration(i, j, d, f).from = f
  BY DEF Registration

LEMMA BootSchedules ==
    ASSUME Types, Boot
    PROVE  OneSchedule'
<1>1. TypeOK /\ nextId + Len(BootJobs) <= MaxId + 1 /\ nextId' = nextId + Len(BootJobs)
      /\ nextId \in Nat
  BY BoundsAssumption DEF Types, TypeOK, Boot
<1>2. \A i \in DOMAIN BootJobs : nextId + i - 1 < nextId' /\ i \in Nat
  BY <1>1, BootIds
<1>3. \A g \in gocron' : \E i \in DOMAIN BootJobs :
         /\ g = Registration(nextId + i - 1, BootJobs[i], Due[BootJobs[i]], nextId + i - 1)
         /\ g.id = nextId + i - 1 /\ g.from = nextId + i - 1
  BY Registered DEF Boot
<1>4. \A i, m \in DOMAIN BootJobs : nextId + i - 1 = nextId + m - 1 => i = m
  BY <1>1, <1>2
<1>5. \A g, h \in gocron' : g.id = h.id \/ g.from = h.from => g = h
  <2> SUFFICES ASSUME NEW g \in gocron', NEW h \in gocron', g.id = h.id \/ g.from = h.from
               PROVE  g = h
    OBVIOUS
  <2>1. PICK i \in DOMAIN BootJobs :
           /\ g = Registration(nextId + i - 1, BootJobs[i], Due[BootJobs[i]], nextId + i - 1)
           /\ g.id = nextId + i - 1 /\ g.from = nextId + i - 1
    BY <1>3
  <2>2. PICK m \in DOMAIN BootJobs :
           /\ h = Registration(nextId + m - 1, BootJobs[m], Due[BootJobs[m]], nextId + m - 1)
           /\ h.id = nextId + m - 1 /\ h.from = nextId + m - 1
    BY <1>3
  <2>3. i = m
    BY <1>4, <2>1, <2>2
  <2> QED
    BY <2>1, <2>2, <2>3
<1>6. Len(slices') = 1 /\ slices'[1].cells = BootCells
  BY BootMakes DEF Types
<1>7. \A s \in 1..Len(slices') : \A k \in 1..Len(slices'[s].cells) :
         /\ s = 1 /\ k \in DOMAIN BootJobs
         /\ slices'[s].cells[k].id = nextId + k - 1
         /\ slices'[s].cells[k].from = nextId + k - 1
  BY <1>1, <1>6, BootIds, BootEntries
<1>8. /\ \A u \in Updaters : upd'[u].pc = "idle"
      /\ \A a \in Adders : add'[a].pc = "idle"
  BY DEF Types, Pointers, PointsTo, Additions, Appends, Boot
<1>9. AddedOnceRunsOnce'
  BY <1>5 DEF AddedOnceRunsOnce
<1>10. Old'
  BY <1>2, <1>3, <1>5, <1>7, <1>8 DEF Old
<1>11. SameFrom'
  BY <1>3, <1>7 DEF SameFrom, Fits
<1>12. Assigns' /\ OwnId' /\ Removed' /\ OneAdds'
  BY <1>8 DEF Assigns, OwnId, Removed, OneAdds
<1> QED
  BY <1>9, <1>10, <1>11, <1>12 DEF OneSchedule

\* Steps that only change when a registration fired last keep everything.
LEMMA KeepSchedules ==
    ASSUME OneSchedule, UNCHANGED <<slices, upd, add, nextId, overwrote>>,
           \A g \in gocron' : \E h \in gocron : g.id = h.id /\ g.from = h.from,
           \A g, h \in gocron' : g.id = h.id => g = h,
           AddedOnceRunsOnce'
    PROVE  OneSchedule'
<1>1. Old'
  BY DEF OneSchedule, Old
<1>2. \A e, i : Fits(e, i) => Fits(e, i)'
  BY DEF Fits
<1>3. SameFrom'
  BY DEF OneSchedule, SameFrom, Fits
<1>4. Assigns' /\ OwnId'
  BY DEF OneSchedule, Assigns, OwnId, Found, Fits
<1>5. Removed' /\ OneAdds'
  BY DEF OneSchedule, Removed, OneAdds, Found
<1> QED
  BY <1>1, <1>3, <1>4, <1>5 DEF OneSchedule

LEMMA SameSchedules ==
    ASSUME OneSchedule, UNCHANGED <<gocron, slices, upd, add, nextId, overwrote>>
    PROVE  OneSchedule'
<1>1. AddedOnceRunsOnce'
  BY DEF OneSchedule, AddedOnceRunsOnce
<1>2. \A g, h \in gocron' : g.id = h.id => g = h
  BY DEF OneSchedule, Old
<1> QED
  BY <1>1, <1>2, KeepSchedules

LEMMA StartSchedules ==
    ASSUME Types, OneSchedule, StartCron
    PROVE  OneSchedule'
<1>1. \A g \in gocron' : \E h \in gocron :
         g = [h EXCEPT !.since = now] /\ g.id = h.id /\ g.from = h.from
  BY GocronTyped DEF Types, StartCron
<1>2. AddedOnceRunsOnce'
  BY <1>1 DEF OneSchedule, AddedOnceRunsOnce, StartCron
<1>3. \A g, h \in gocron' : g.id = h.id => g = h
  BY <1>1 DEF OneSchedule, Old
<1> QED
  BY <1>1, <1>2, <1>3, KeepSchedules DEF StartCron

LEMMA FireSchedules ==
    ASSUME Types, OneSchedule, NEW g \in gocron, Fire(g)
    PROVE  OneSchedule'
<1> DEFINE f == [g EXCEPT !.since = now]
<1>1. f.id = g.id /\ f.from = g.from
  BY GocronTyped DEF Types
<1>2. gocron' = (gocron \ {g}) \cup {f} /\ overwrote' = overwrote
  BY DEF Fire
<1> HIDE DEF f
<1>3. AddedOnceRunsOnce'
  BY <1>1, <1>2 DEF OneSchedule, AddedOnceRunsOnce
<1>4. \A x \in gocron' : \E h \in gocron : x.id = h.id /\ x.from = h.from
  BY <1>1, <1>2
<1>5. \A x, h \in gocron' : x.id = h.id => x = h
  BY <1>1, <1>2 DEF OneSchedule, Old
<1> QED
  BY <1>3, <1>4, <1>5, KeepSchedules DEF Fire

\* A registration with a fresh id fits every cell.
LEMMA FreshFits ==
    ASSUME nextId \in Nat, NEW r, r.id = nextId, gocron' = gocron \cup {r},
           overwrote' = overwrote, NEW e, NEW i \in Nat, i < nextId, Fits(e, i)
    PROVE  Fits(e, i)'
  BY DEF Fits

LEMMA FreshOld ==
    ASSUME Types, OneSchedule, NEW r, r.id = nextId, r.from \in Nat, r.from <= nextId,
           gocron' = gocron \cup {r}, nextId' = nextId + 1, slices' = slices
    PROVE  /\ \A g \in gocron' : g.id < nextId' /\ g.from < nextId'
           /\ \A g, h \in gocron' : g.id = h.id => g = h
           /\ \A s \in 1..Len(slices') : \A k \in 1..Len(slices'[s].cells) :
                slices'[s].cells[k].id < nextId' /\ slices'[s].cells[k].from < nextId'
<1>1. nextId \in Nat
  BY BoundsAssumption DEF Types, TypeOK
<1>2. \A g \in gocron : g.id \in Nat /\ g.from \in Nat /\ g.id < nextId /\ g.from < nextId
  BY GocronTyped DEF Types, OneSchedule, Old
<1>3. \A g \in gocron' : g.id < nextId' /\ g.from < nextId'
  BY <1>1, <1>2
<1>4. \A g, h \in gocron' : g.id = h.id => g = h
  BY <1>1, <1>2 DEF OneSchedule, Old
<1>5. ASSUME NEW s \in 1..Len(slices), NEW k \in 1..Len(slices[s].cells)
      PROVE  slices[s].cells[k].id < nextId + 1 /\ slices[s].cells[k].from < nextId + 1
  BY <1>1, CellTyped DEF OneSchedule, Old
<1> QED
  BY <1>3, <1>4, <1>5

LEMMA FreshFrom ==
    ASSUME Types, OneSchedule, NEW r, r.id = nextId,
           gocron' = gocron \cup {r}, overwrote' = overwrote, slices' = slices
    PROVE  SameFrom'
<1>1. nextId \in Nat
  BY BoundsAssumption DEF Types, TypeOK
<1> SUFFICES ASSUME NEW s \in 1..Len(slices), NEW k \in 1..Len(slices[s].cells)
             PROVE  Fits(slices[s].cells[k], slices[s].cells[k].id)'
  BY DEF SameFrom
<1>2. slices[s].cells[k].id < nextId /\ slices[s].cells[k].id \in Nat
      /\ Fits(slices[s].cells[k], slices[s].cells[k].id)
  BY CellTyped DEF OneSchedule, Old, SameFrom
<1> QED
  BY <1>1, <1>2 DEF Fits

LEMMA AddRegisterSchedules ==
    ASSUME Types, OneSchedule, NEW a \in Adders, NEW j \in Names, AddRegister(a, j)
    PROVE  OneSchedule'
<1> DEFINE r == Registration(nextId, j, Due[j], nextId)
<1>1. nextId \in Nat /\ nextId' = nextId + 1 /\ gocron' = gocron \cup {r}
      /\ UNCHANGED <<slices, upd, overwrote>>
  BY BoundsAssumption DEF Types, TypeOK, AddRegister
<1>2. r.id = nextId /\ r.from = nextId
  BY Registered
<1> HIDE DEF r
<1>3. \A g \in gocron : g.id \in Nat /\ g.from \in Nat /\ g.id < nextId /\ g.from < nextId
  BY GocronTyped DEF Types, OneSchedule, Old
<1>4. /\ add'[a].id = nextId
      /\ \A b \in Adders : b # a => add'[b] = add[b]
  <2>1. add' = [add EXCEPT ![a] = [NoAdd EXCEPT !.pc = "read", !.job = j, !.id = nextId]]
        /\ add \in [Adders -> Addition]
    BY Typed DEF AddRegister, Types
  <2> QED
    BY <2>1 DEF NoAdd
<1>5. AddedOnceRunsOnce'
  BY <1>1, <1>2, <1>3 DEF OneSchedule, AddedOnceRunsOnce
<1>6. Old'
  <2>1. \A u \in Updaters : upd'[u].pc = "assign" => upd'[u].id < nextId'
    <3> SUFFICES ASSUME NEW u \in Updaters, upd[u].pc = "assign"
                 PROVE  upd[u].id < nextId + 1
      BY <1>1
    <3>1. upd[u].id \in 1..MaxId /\ upd[u].id < nextId
      BY DEF Types, Pointers, PointsTo, OneSchedule, Old
    <3> QED
      BY <1>1, <3>1, BoundsAssumption
  <2>2. \A b \in Adders : add'[b].pc # "idle" => add'[b].id < nextId'
    <3> SUFFICES ASSUME NEW b \in Adders, add'[b].pc # "idle"
                 PROVE  add'[b].id < nextId'
      OBVIOUS
    <3>1. CASE b = a
      BY <1>1, <1>4, <3>1
    <3>2. CASE b # a
      <4>1. add[b].id \in 1..MaxId /\ add[b].id < nextId /\ add'[b] = add[b]
        BY <1>4, <3>2 DEF Types, Additions, Appends, OneSchedule, Old
      <4> QED
        BY <1>1, <4>1, BoundsAssumption
    <3> QED
      BY <3>1, <3>2
  <2> QED
    BY <1>1, <1>2, <2>1, <2>2, FreshOld DEF Old
<1>7. SameFrom'
  BY <1>1, <1>2, FreshFrom
<1>8. Assigns'
  <2> SUFFICES ASSUME NEW u \in Updaters, upd[u].pc = "assign"
               PROVE  Fits(Found(u), upd[u].id)'
    BY <1>1 DEF Assigns
  <2>1. upd[u].id \in Nat /\ upd[u].id < nextId /\ Fits(Found(u), upd[u].id)
    BY BoundsAssumption DEF Types, Pointers, PointsTo, OneSchedule, Old, Assigns
  <2> QED
    BY <1>1, <1>2, <2>1 DEF Fits, Found
<1>9. OwnId'
  <2> SUFFICES ASSUME NEW b \in Adders, add'[b].pc # "idle",
                      NEW g \in gocron', g.id = add'[b].id
               PROVE  g.from = add'[b].id
    BY DEF OwnId
  <2>1. CASE b = a
    BY <1>1, <1>2, <1>3, <1>4, <2>1
  <2>2. CASE b # a
    <3>1. add[b].id \in Nat /\ add[b].id < nextId /\ add'[b] = add[b]
      BY <1>4, <2>2, BoundsAssumption DEF Types, Additions, Appends, OneSchedule, Old
    <3> QED
      BY <1>1, <1>2, <3>1 DEF OneSchedule, OwnId
  <2> QED
    BY <2>1, <2>2
<1>10. Removed' /\ OneAdds'
  <2>1. \A u \in Updaters : upd[u].pc = "add" => Found(u).from \in Nat /\ Found(u).from < nextId
    BY CellTyped DEF Found, Types, Pointers, PointsTo, OneSchedule, Old
  <2>2. \A u \in Updaters : Found(u)' = Found(u)
    BY <1>1 DEF Found
  <2>3. Removed'
    BY <1>1, <1>2, <2>1, <2>2 DEF OneSchedule, Removed
  <2>4. OneAdds'
    BY <1>1, <2>2 DEF OneSchedule, OneAdds
  <2> QED
    BY <2>3, <2>4
<1> QED
  BY <1>5, <1>6, <1>7, <1>8, <1>9, <1>10 DEF OneSchedule

LEMMA AddReadSchedules ==
    ASSUME Types, OneSchedule, NEW a \in Adders, AddRead(a)
    PROVE  OneSchedule'
<1>1. UNCHANGED <<gocron, slices, upd, nextId, overwrote>>
  BY DEF AddRead
<1>2. \A b \in Adders : add'[b].id = add[b].id /\ (add'[b].pc # "idle" => add[b].pc # "idle")
  <2>1. add' = [add EXCEPT ![a].pc = "append", ![a].at = header.at, ![a].len = header.len]
        /\ add \in [Adders -> Addition] /\ add[a].pc = "read"
    BY Typed DEF AddRead, Types
  <2> QED
    BY <2>1 DEF Addition
<1>3. AddedOnceRunsOnce' /\ Old' /\ SameFrom'
  BY <1>1, <1>2 DEF OneSchedule, AddedOnceRunsOnce, Old, SameFrom, Fits
<1>4. Assigns' /\ OwnId' /\ Removed' /\ OneAdds'
  BY <1>1, <1>2 DEF OneSchedule, Assigns, Fits, OwnId, Removed, OneAdds, Found
<1> QED
  BY <1>3, <1>4 DEF OneSchedule

LEMMA AddAppendSchedules ==
    ASSUME Types, OneSchedule, NEW a \in Adders, AddAppend(a)
    PROVE  OneSchedule'
<1> PICK e : e = NewEntry(a)
  OBVIOUS
<1>1. UNCHANGED <<gocron, upd, nextId>> /\ AppendMakes(a) /\ Appends(a) /\ add[a].pc # "idle"
  BY AddAppendMakes DEF AddAppend, Types, Additions
<1>2. e.id = add[a].id /\ e.from = add[a].id /\ e.id < nextId
  BY <1>1, MadeEntry, DueOfJob DEF NewEntry, Appends, OneSchedule, Old
<1>3. /\ \A s \in 1..Len(slices') : \A k \in 1..Len(slices'[s].cells) :
            \/ slices'[s].cells[k] = e
            \/ \E t \in 1..Len(slices) : \E m \in 1..Len(slices[t].cells) :
                  slices'[s].cells[k] = slices[t].cells[m]
      /\ overwrote \subseteq overwrote'
  BY <1>1 DEF AppendMakes
<1>4. \A f : f \notin overwrote' => f \notin overwrote
  BY <1>3
<1>5. \A b \in Adders : add'[b].pc # "idle" => b # a /\ add'[b] = add[b]
  BY AddEnds, Typed DEF AddAppend, Types
<1>6. AddedOnceRunsOnce'
  BY <1>1, <1>4 DEF OneSchedule, AddedOnceRunsOnce
<1>7. Old'
  <2>1. \A s \in 1..Len(slices') : \A k \in 1..Len(slices'[s].cells) :
           slices'[s].cells[k].id < nextId /\ slices'[s].cells[k].from < nextId
    BY <1>2, <1>3 DEF OneSchedule, Old
  <2> QED
    BY <1>1, <1>5, <2>1 DEF OneSchedule, Old
<1>8. SameFrom'
  <2> SUFFICES ASSUME NEW s \in 1..Len(slices'), NEW k \in 1..Len(slices'[s].cells)
               PROVE  Fits(slices[s].cells[k], slices[s].cells[k].id)'
    BY DEF SameFrom
  <2>1. CASE slices'[s].cells[k] = e
    BY <1>1, <1>2, <2>1 DEF Fits, OneSchedule, OwnId
  <2>2. CASE \E t \in 1..Len(slices) : \E m \in 1..Len(slices[t].cells) :
                slices'[s].cells[k] = slices[t].cells[m]
    <3>0. PICK t \in 1..Len(slices) : \E m \in 1..Len(slices[t].cells) :
             slices'[s].cells[k] = slices[t].cells[m]
      BY <2>2
    <3>1. PICK m \in 1..Len(slices[t].cells) :
             slices'[s].cells[k] = slices[t].cells[m]
      BY <3>0
    <3>2. Fits(slices[t].cells[m], slices[t].cells[m].id)
      BY DEF OneSchedule, SameFrom
    <3> QED
      BY <1>1, <1>4, <3>1, <3>2 DEF Fits
  <2> QED
    BY <1>3, <2>1, <2>2
\* A goroutine's cell is as it was, or its job is one of those written over another.
<1>9. ASSUME NEW u \in Updaters, upd[u].pc # "idle", Found(u)'.from \notin overwrote'
      PROVE  Found(u)' = Found(u) /\ Found(u).from \notin overwrote
  <2>1. upd[u].at \in 1..Len(slices) /\ upd[u].pos \in 1..Len(slices[upd[u].at].cells)
    BY <1>9 DEF Types, Pointers, PointsTo
  <2>2. \/ Found(u)' = Found(u)
        \/ Found(u)' = e /\ add[a].id \in overwrote'
    BY <1>1, <2>1 DEF AppendMakes, Found
  <2> QED
    BY <1>2, <1>4, <1>9, <2>2
<1>10. Assigns'
  <2> SUFFICES ASSUME NEW u \in Updaters, upd[u].pc = "assign",
                      Found(u)'.from \notin overwrote', NEW g \in gocron, g.id = upd[u].id
               PROVE  g.from = Found(u)'.from
    BY <1>1 DEF Assigns, Fits
  <2>1. Found(u)' = Found(u) /\ Found(u).from \notin overwrote
    BY <1>9
  <2> QED
    BY <2>1 DEF OneSchedule, Assigns, Fits
<1>11. OwnId'
  BY <1>1, <1>5 DEF OneSchedule, OwnId
<1>12. Removed'
  <2> SUFFICES ASSUME NEW u \in Updaters, upd[u].pc = "add", Found(u)'.from \notin overwrote',
                      NEW g \in gocron
               PROVE  g.from # Found(u)'.from
    BY <1>1 DEF Removed
  <2>1. Found(u)' = Found(u) /\ Found(u).from \notin overwrote
    BY <1>9
  <2> QED
    BY <2>1 DEF OneSchedule, Removed
<1>13. OneAdds'
  <2> SUFFICES ASSUME NEW u \in Updaters, NEW v \in Updaters,
                      upd[u].pc = "add", upd[v].pc = "add",
                      Found(u)'.from = Found(v)'.from, Found(u)'.from \notin overwrote'
               PROVE  u = v
    BY <1>1 DEF OneAdds
  <2>1. Found(u)' = Found(u) /\ Found(u).from \notin overwrote
    BY <1>9
  <2>2. Found(v)' = Found(v)
    BY <1>9
  <2> QED
    BY <2>1, <2>2 DEF OneSchedule, OneAdds
<1> QED
  BY <1>6, <1>7, <1>8, <1>10, <1>11, <1>12, <1>13 DEF OneSchedule

\* A goroutine that ends its rescheduling, or begins one, disturbs nothing.
LEMMA QuietSchedules ==
    ASSUME OneSchedule, UNCHANGED <<gocron, slices, add, nextId, overwrote>>,
           \A v \in Updaters : upd'[v].pc \in {"add", "assign"} => upd'[v] = upd[v]
    PROVE  OneSchedule'
<1>1. AddedOnceRunsOnce' /\ Old' /\ SameFrom' /\ OwnId'
  BY DEF OneSchedule, AddedOnceRunsOnce, Old, SameFrom, OwnId, Fits
<1>2. \A v \in Updaters : upd'[v].pc \in {"add", "assign"} =>
         upd'[v] = upd[v] /\ Found(v)' = Found(v)
  BY DEF Found
<1>3. Assigns'
  BY <1>2 DEF OneSchedule, Assigns, Fits
<1>4. Removed' /\ OneAdds'
  BY <1>2 DEF OneSchedule, Removed, OneAdds
<1> QED
  BY <1>1, <1>3, <1>4 DEF OneSchedule

LEMMA UpdateFindSchedules ==
    ASSUME Types, OneSchedule, NEW u \in Updaters, NEW j \in Names, UpdateFind(u, j)
    PROVE  OneSchedule'
<1>1. PICK k \in DOMAIN Jobs :
         upd' = [upd EXCEPT ![u] = [NoUpdate EXCEPT !.pc = "remove", !.at = header.at, !.pos = k]]
  BY DEF UpdateFind
<1>2. upd \in [Updaters -> Update]
  BY Typed DEF Types
<1>3. \A v \in Updaters : upd'[v].pc \in {"add", "assign"} => upd'[v] = upd[v]
  BY <1>1, <1>2 DEF NoUpdate
<1> QED
  BY <1>3, QuietSchedules DEF UpdateFind

LEMMA UpdateRemoveSchedules ==
    ASSUME Types, OneSchedule, NEW u \in Updaters, UpdateRemove(u)
    PROVE  OneSchedule'
<1>1. upd \in [Updaters -> Update] /\ PointsTo(u)
      /\ UNCHANGED <<slices, add, nextId, overwrote>>
  BY Typed DEF Types, Pointers, UpdateRemove
<1>2. CASE \E g \in gocron : /\ g.id = Found(u).id
                            /\ gocron' = gocron \ {g}
                            /\ upd' = [upd EXCEPT ![u].pc = "add"]
  <2>1. PICK g \in gocron : /\ g.id = Found(u).id
                            /\ gocron' = gocron \ {g}
                            /\ upd' = [upd EXCEPT ![u].pc = "add"]
    BY <1>2
  <2>2. /\ upd'[u].at = upd[u].at /\ upd'[u].pos = upd[u].pos /\ upd'[u].pc = "add"
        /\ \A v \in Updaters : v # u => upd'[v] = upd[v]
        /\ \A v \in Updaters : Found(v)' = Found(v)
    BY <1>1, <2>1 DEF Update, Found
  <2>3. Found(u).from \notin overwrote => g.from = Found(u).from
    BY <1>1, <2>1 DEF OneSchedule, SameFrom, Fits, PointsTo, Found
  <2>4. AddedOnceRunsOnce' /\ SameFrom' /\ OwnId'
    BY <1>1, <2>1 DEF OneSchedule, AddedOnceRunsOnce, SameFrom, OwnId, Fits
  <2>5. Old'
    BY <1>1, <2>1, <2>2 DEF OneSchedule, Old
  <2>6. Assigns'
    BY <1>1, <2>1, <2>2 DEF OneSchedule, Assigns, Fits
  <2>7. Removed'
    BY <1>1, <2>1, <2>2, <2>3 DEF OneSchedule, AddedOnceRunsOnce, Removed
  <2>8. OneAdds'
    BY <1>1, <2>2, <2>3 DEF OneSchedule, Removed, OneAdds
  <2> QED
    BY <2>4, <2>5, <2>6, <2>7, <2>8 DEF OneSchedule
<1>3. CASE upd' = [upd EXCEPT ![u] = NoUpdate] /\ gocron' = gocron
  <2>1. \A v \in Updaters : upd'[v].pc \in {"add", "assign"} => upd'[v] = upd[v]
    BY <1>1, <1>3, UpdateEnds
  <2> QED
    BY <1>1, <1>3, <2>1, QuietSchedules
<1> QED
  BY <1>2, <1>3 DEF UpdateRemove

LEMMA UpdateAddSchedules ==
    ASSUME Types, OneSchedule, NEW u \in Updaters, UpdateAdd(u)
    PROVE  OneSchedule'
<1> DEFINE r == Registration(nextId, Found(u).job, NewDue, Found(u).from)
<1>0. upd \in [Updaters -> Update] /\ nextId \in 1..(MaxId + 1)
  BY Typed DEF Types
<1>1. upd \in [Updaters -> Update] /\ PointsTo(u) /\ nextId \in Nat
      /\ UNCHANGED <<slices, add, overwrote>>
  BY <1>0, BoundsAssumption DEF Types, Pointers, UpdateAdd
<1>2. CASE /\ nextId <= MaxId
           /\ gocron' = gocron \cup {r}
           /\ upd' = [upd EXCEPT ![u].pc = "assign", ![u].id = nextId]
           /\ nextId' = nextId + 1
  <2>1. r.id = nextId /\ r.from = Found(u).from
    BY Registered
  <2> HIDE DEF r
  <2>2. Found(u).from \in Nat /\ Found(u).from < nextId
    BY <1>1, CellTyped DEF Found, PointsTo, OneSchedule, Old
  <2>3. /\ upd'[u].at = upd[u].at /\ upd'[u].pos = upd[u].pos
        /\ upd'[u].pc = "assign" /\ upd'[u].id = nextId
        /\ \A v \in Updaters : v # u => upd'[v] = upd[v]
        /\ \A v \in Updaters : Found(v)' = Found(v)
    BY <1>1, <1>2 DEF Update, Found
  <2>4. \A g \in gocron : g.id \in Nat /\ g.from \in Nat /\ g.id < nextId /\ g.from < nextId
    BY GocronTyped DEF Types, OneSchedule, Old
  <2>5. AddedOnceRunsOnce'
    BY <1>1, <1>2, <2>1 DEF OneSchedule, AddedOnceRunsOnce, Removed, UpdateAdd
  <2>6. Old'
    <3>1. \A v \in Updaters : upd'[v].pc = "assign" => upd'[v].id < nextId'
      <4> SUFFICES ASSUME NEW v \in Updaters, upd'[v].pc = "assign"
                   PROVE  upd'[v].id < nextId'
        OBVIOUS
      <4>1. CASE v = u
        BY <1>1, <1>2, <2>3, <4>1
      <4>2. CASE v # u
        <5>1. upd[v].pc = "assign" /\ upd'[v].id = upd[v].id
          BY <2>3, <4>2
        <5>2. upd[v].id \in 1..MaxId /\ upd[v].id < nextId
          BY <5>1 DEF Types, Pointers, PointsTo, OneSchedule, Old
        <5> QED
          BY <1>1, <1>2, <5>1, <5>2, BoundsAssumption
      <4> QED
        BY <4>1, <4>2
    <3>2. \A b \in Adders : add'[b].pc # "idle" => add'[b].id < nextId'
      <4> SUFFICES ASSUME NEW b \in Adders, add[b].pc # "idle"
                   PROVE  add[b].id < nextId + 1
        BY <1>1, <1>2
      <4>1. add[b].id \in 1..MaxId /\ add[b].id < nextId
        BY DEF Types, Additions, Appends, OneSchedule, Old
      <4> QED
        BY <1>1, <4>1, BoundsAssumption
    <3> QED
      BY <1>1, <1>2, <2>1, <2>2, <3>1, <3>2, FreshOld DEF Old
  <2>7. SameFrom'
    BY <1>1, <1>2, <2>1, FreshFrom
  <2>8. Assigns'
    <3> SUFFICES ASSUME NEW v \in Updaters, upd'[v].pc = "assign"
                 PROVE  Fits(Found(v), upd[v].id)'
      BY DEF Assigns
    <3>1. CASE v = u
      BY <1>1, <1>2, <2>1, <2>3, <2>4, <3>1 DEF Fits
    <3>2. CASE v # u
      <4>1. upd[v].pc = "assign" /\ upd'[v] = upd[v]
        BY <2>3, <3>2
      <4>2. upd[v].id \in Nat /\ upd[v].id < nextId /\ Fits(Found(v), upd[v].id)
        BY <4>1, BoundsAssumption DEF Types, Pointers, PointsTo, OneSchedule, Old, Assigns
      <4>3. ASSUME NEW g \in gocron', g.id = upd[v].id
            PROVE  g \in gocron
        BY <1>2, <2>1, <4>2, <4>3
      <4>4. Found(v)' = Found(v) /\ overwrote' = overwrote
        BY <1>1, <2>3
      <4> QED
        BY <4>1, <4>2, <4>3, <4>4 DEF Fits
    <3> QED
      BY <3>1, <3>2
  <2>9. OwnId'
    <3> SUFFICES ASSUME NEW b \in Adders, add[b].pc # "idle",
                        NEW g \in gocron', g.id = add[b].id
                 PROVE  g.from = add[b].id
      BY <1>1 DEF OwnId
    <3>1. add[b].id \in Nat /\ add[b].id < nextId
      BY BoundsAssumption DEF Types, Additions, Appends, OneSchedule, Old
    <3> QED
      BY <1>1, <1>2, <2>1, <3>1 DEF OneSchedule, OwnId
  <2>10. Removed'
    <3> SUFFICES ASSUME NEW v \in Updaters, upd'[v].pc = "add",
                        Found(v).from \notin overwrote, NEW g \in gocron'
                 PROVE  g.from # Found(v).from
      BY <1>1, <2>3 DEF Removed
    <3>1. v # u /\ upd[v].pc = "add"
      BY <2>3
    <3>2. Found(v).from # Found(u).from
      BY <3>1 DEF OneSchedule, OneAdds, UpdateAdd
    <3> QED
      BY <1>2, <2>1, <3>1, <3>2 DEF OneSchedule, Removed
  <2>11. OneAdds'
    BY <1>1, <2>3 DEF OneSchedule, OneAdds
  <2> QED
    BY <2>5, <2>6, <2>7, <2>8, <2>9, <2>10, <2>11 DEF OneSchedule
<1>3. CASE upd' = [upd EXCEPT ![u] = NoUpdate] /\ UNCHANGED <<gocron, nextId>>
  <2>1. \A v \in Updaters : upd'[v].pc \in {"add", "assign"} => upd'[v] = upd[v]
    BY <1>1, <1>3, UpdateEnds
  <2> QED
    BY <1>1, <1>3, <2>1, QuietSchedules
<1> QED
  BY <1>2, <1>3 DEF UpdateAdd

LEMMA UpdateAssignSchedules ==
    ASSUME Types, OneSchedule, NEW u \in Updaters, UpdateAssign(u)
    PROVE  OneSchedule'
<1>1. upd \in [Updaters -> Update] /\ PointsTo(u) /\ upd[u].pc = "assign"
      /\ UNCHANGED <<gocron, add, nextId, overwrote>>
  BY Typed DEF Types, Pointers, UpdateAssign
<1> PICK e : e = [Found(u) EXCEPT !.id = upd[u].id, !.due = NewDue]
  OBVIOUS
<1>2. /\ e.id = upd[u].id /\ e.from = Found(u).from
      /\ Len(slices') = Len(slices)
      /\ \A t \in 1..Len(slices) :
            /\ Len(slices'[t].cells) = Len(slices[t].cells)
            /\ \A m \in 1..Len(slices[t].cells) :
                  slices'[t].cells[m] = IF t = upd[u].at /\ m = upd[u].pos
                                        THEN e ELSE slices[t].cells[m]
  BY UpdateAssigns
<1>3. /\ \A v \in Updaters : upd'[v].pc # "idle" => v # u /\ upd'[v] = upd[v]
  BY <1>1, UpdateEnds DEF UpdateAssign
<1>4. \A v \in Updaters : upd'[v].pc # "idle" => Found(v)'.from = Found(v).from
  <2> SUFFICES ASSUME NEW v \in Updaters, upd'[v].pc # "idle"
               PROVE  Found(v)'.from = Found(v).from
    OBVIOUS
  <2>1. upd'[v] = upd[v] /\ PointsTo(v)
    BY <1>3 DEF Types, Pointers
  <2>2. CASE upd[v].at = upd[u].at /\ upd[v].pos = upd[u].pos
    <3>1. Found(v)' = slices'[upd[u].at].cells[upd[u].pos] /\ Found(v) = Found(u)
      BY <2>1, <2>2 DEF Found
    <3>2. upd[u].at \in 1..Len(slices) /\ upd[u].pos \in 1..Len(slices[upd[u].at].cells)
      BY <1>1 DEF PointsTo
    <3>3. slices'[upd[u].at].cells[upd[u].pos] = e
      BY <1>2, <3>2
    <3> QED
      BY <1>2, <3>1, <3>3
  <2>3. CASE ~ (upd[v].at = upd[u].at /\ upd[v].pos = upd[u].pos)
    BY <1>2, <2>1, <2>3 DEF Found, PointsTo
  <2> QED
    BY <2>2, <2>3
<1>5. AddedOnceRunsOnce' /\ OwnId'
  BY <1>1 DEF OneSchedule, AddedOnceRunsOnce, OwnId
<1>6. Old'
  <2>1. ASSUME NEW s \in 1..Len(slices'), NEW k \in 1..Len(slices'[s].cells)
        PROVE  slices'[s].cells[k].id < nextId /\ slices'[s].cells[k].from < nextId
    <3>1. s \in 1..Len(slices) /\ k \in 1..Len(slices[s].cells)
      BY <1>2
    <3>2. CASE s = upd[u].at /\ k = upd[u].pos
      <4>1. slices'[s].cells[k] = e
        BY <1>2, <3>1, <3>2
      <4>2. Found(u).from < nextId /\ upd[u].id < nextId
        BY <1>1 DEF OneSchedule, Old, PointsTo, Found
      <4> QED
        BY <1>2, <4>1, <4>2
    <3>3. CASE ~ (s = upd[u].at /\ k = upd[u].pos)
      BY <1>2, <3>1, <3>3 DEF OneSchedule, Old
    <3> QED
      BY <3>2, <3>3
  <2> QED
    BY <1>1, <1>3, <2>1 DEF OneSchedule, Old
<1>7. SameFrom'
  <2> SUFFICES ASSUME NEW s \in 1..Len(slices'), NEW k \in 1..Len(slices'[s].cells)
               PROVE  Fits(slices[s].cells[k], slices[s].cells[k].id)'
    BY DEF SameFrom
  <2>1. s \in 1..Len(slices) /\ k \in 1..Len(slices[s].cells)
    BY <1>2
  <2>2. CASE s = upd[u].at /\ k = upd[u].pos
    <3>1. slices'[s].cells[k] = e
      BY <1>2, <2>1, <2>2
    <3>2. Fits(Found(u), upd[u].id)
      BY <1>1 DEF OneSchedule, Assigns
    <3> QED
      BY <1>1, <1>2, <3>1, <3>2 DEF Fits
  <2>3. CASE ~ (s = upd[u].at /\ k = upd[u].pos)
    <3>1. slices'[s].cells[k] = slices[s].cells[k]
      BY <1>2, <2>1, <2>3
    <3>2. Fits(slices[s].cells[k], slices[s].cells[k].id)
      BY <2>1 DEF OneSchedule, SameFrom
    <3> QED
      BY <1>1, <3>1, <3>2 DEF Fits
  <2> QED
    BY <2>2, <2>3
<1>8. Assigns'
  <2> SUFFICES ASSUME NEW v \in Updaters, upd'[v].pc = "assign"
               PROVE  Fits(Found(v), upd[v].id)'
    BY DEF Assigns
  <2>1. upd'[v] = upd[v] /\ Found(v)'.from = Found(v).from
    BY <1>3, <1>4
  <2> QED
    BY <1>1, <2>1 DEF OneSchedule, Assigns, Fits
<1>9. Removed' /\ OneAdds'
  BY <1>1, <1>3, <1>4 DEF OneSchedule, Removed, OneAdds
<1> QED
  BY <1>5, <1>6, <1>7, <1>8, <1>9 DEF OneSchedule

LEMMA DownSchedules ==
    ASSUME Down
    PROVE  OneSchedule'
<1>1. gocron' = {} /\ Len(slices') = 1 /\ Len(slices'[1].cells) = 0
      /\ (\A u \in Updaters : upd'[u].pc = "idle")
      /\ (\A a \in Adders : add'[a].pc = "idle")
  BY DownBlank
<1>2. \A s \in 1..Len(slices') : \A k \in 1..Len(slices'[s].cells) : FALSE
  BY <1>1
<1> QED
  BY <1>1, <1>2
     DEF OneSchedule, AddedOnceRunsOnce, Old, SameFrom, Assigns, OwnId, Removed, OneAdds

LEMMA InitSchedules ==
    ASSUME Init
    PROVE  OneSchedule
<1>1. gocron = {} /\ Len(slices) = 1 /\ Len(slices[1].cells) = 0
      /\ (\A u \in Updaters : upd[u].pc = "idle")
      /\ (\A a \in Adders : add[a].pc = "idle")
  BY BlankTypes, IdleUpdate, IdleAdd DEF Blank, Init
<1>2. \A s \in 1..Len(slices) : \A k \in 1..Len(slices[s].cells) : FALSE
  BY <1>1
<1> QED
  BY <1>1, <1>2
     DEF OneSchedule, AddedOnceRunsOnce, Old, SameFrom, Assigns, OwnId, Removed, OneAdds

LEMMA NextSchedules ==
    ASSUME Types, OneSchedule, [Next]_vars
    PROVE  OneSchedule'
<1>1. CASE Boot
  BY <1>1, BootSchedules
<1>2. CASE StartStep
  <2>1. CASE StartCron
    BY <2>1, StartSchedules
  <2>2. CASE CheckJob \/ CatchUpRan \/ CatchUpSaved
    BY <2>2, SameSchedules DEF CheckJob, CatchUpRan, CatchUpSaved, memory
  <2> QED
    BY <1>2, <2>1, <2>2 DEF StartStep
<1>3. CASE \E g \in gocron : Fire(g)
  BY <1>3, FireSchedules
<1>4. CASE \E x \in execs : Ran(x) \/ Saved(x)
  BY <1>4, SameSchedules DEF Ran, Saved, memory
<1>5. CASE \E a \in Adders : (\E j \in Names : AddRegister(a, j)) \/ AddRead(a) \/ AddAppend(a)
  BY <1>5, AddRegisterSchedules, AddReadSchedules, AddAppendSchedules
<1>6. CASE \E j \in Names : Trigger(j)
  BY <1>6, SameSchedules DEF Trigger, memory
<1>7. CASE \E u \in Updaters, j \in Names : UpdateFind(u, j)
  BY <1>7, UpdateFindSchedules
<1>8. CASE \E u \in Updaters : UpdateRemove(u) \/ UpdateAdd(u) \/ UpdateAssign(u)
  BY <1>8, UpdateRemoveSchedules, UpdateAddSchedules, UpdateAssignSchedules
<1>9. CASE Stop \/ Crash
  BY <1>9, DownSchedules DEF Stop, Crash
<1>10. CASE Tick \/ UNCHANGED vars
  BY <1>10, SameSchedules DEF Tick, vars, memory
<1> QED
  BY <1>1, <1>2, <1>3, <1>4, <1>5, <1>6, <1>7, <1>8, <1>9, <1>10 DEF Next

\* However reschedulings overlap, with each other and with jobs being added,
\* and whichever array a goroutine points into, gocron never runs what one
\* AddJob (or the start) registered on two schedules at once, unless that AddJob
\* wrote its entry over another's (scheduler.go:110-130, 173-203).
THEOREM OneSchedules == Spec => []AddedOnceRunsOnce
<1>1. Init => Types /\ OneSchedule
  BY InitTypes, InitSchedules
<1>2. (Types /\ OneSchedule) /\ [Next]_vars => (Types /\ OneSchedule)'
  BY NextTypes, NextSchedules
<1>3. Types /\ OneSchedule => AddedOnceRunsOnce
  BY DEF OneSchedule
<1> QED
  BY <1>1, <1>2, <1>3, PTL DEF Spec
-----------------------------------------------------------------------------
(* Caught up before cron starts                                            *)

Caught(j) == lastRun[j] # Nil /\ j \notin amiss => lastRun[j] + Threshold >= bootedAt

\* Nothing ran in the future.
Clock ==
    /\ bootedAt <= now
    /\ \A j \in Names : lastRun[j] # Nil => lastRun[j] <= now

\* While the process starts, a job that has not been looked at is still to be
\* looked at, or being caught up.
Waiting(j) ==
    \/ \E k \in DOMAIN todo : todo[k] = j
    \/ catchUp # Nil /\ catchUp.job = j
Pending ==
    phase = "catchup" =>
        \A i \in DOMAIN BootJobs : Waiting(BootJobs[i]) \/ Caught(BootJobs[i])

CatchesUp == Clock /\ Pending /\ CaughtUpBeforeCron

LEMMA CaughtUpIs ==
    CaughtUpBeforeCron <=>
        (phase = "running" => \A i \in DOMAIN BootJobs : Caught(BootJobs[i]))
  BY DEF CaughtUpBeforeCron, Caught

LEMMA BootJobIsName ==
    ASSUME NEW i \in DOMAIN BootJobs
    PROVE  BootJobs[i] \in Names
  BY DEF Names

LEMMA TimesTyped ==
    ASSUME TypeOK
    PROVE  /\ now \in Nat /\ bootedAt \in Nat /\ Threshold \in Nat
           /\ \A j \in Names : lastRun[j] # Nil => lastRun[j] \in Nat
           /\ now # Nil
  BY BoundsAssumption, NilAssumption DEF TypeOK, Time

\* Between two starts a job's last run only moves to the present, and what is
\* amiss stays so: who is caught up stays caught up.
Advances ==
    /\ \A j \in Names : lastRun'[j] = lastRun[j] \/ lastRun'[j] = now
    /\ amiss \subseteq amiss'

LEMMA CaughtStays ==
    ASSUME TypeOK, Clock, Advances, bootedAt' = bootedAt,
           NEW j \in Names, Caught(j)
    PROVE  Caught(j)'
  BY TimesTyped DEF Clock, Advances, Caught

LEMMA ClockStays ==
    ASSUME TypeOK, Clock, Advances, bootedAt' \in {bootedAt, now},
           now' \in {now, now + 1}
    PROVE  Clock'
  BY TimesTyped DEF Clock, Advances

\* A step that leaves the phase and whoever waits alone.
LEMMA CatchesStay ==
    ASSUME TypeOK, CatchesUp, Advances, UNCHANGED <<phase, todo, catchUp, bootedAt>>,
           now' \in {now, now + 1}
    PROVE  CatchesUp'
<1>1. Clock'
  BY ClockStays DEF CatchesUp
<1>2. \A i \in DOMAIN BootJobs : Caught(BootJobs[i]) => Caught(BootJobs[i])'
  BY CaughtStays, BootJobIsName DEF CatchesUp
<1>3. Pending'
  BY <1>2 DEF CatchesUp, Pending, Waiting
<1>4. CaughtUpBeforeCron'
  BY <1>2, CaughtUpIs DEF CatchesUp, CaughtUpBeforeCron, Caught
<1> QED
  BY <1>1, <1>3, <1>4 DEF CatchesUp

LEMMA SetAdvances ==
    ASSUME TypeOK, NEW j \in Names, LastRunSet(j)
    PROVE  Advances
  BY DEF TypeOK, LastRunSet, Advances

LEMMA BootCatches ==
    ASSUME TypeOK, CatchesUp, Boot
    PROVE  CatchesUp'
<1>1. Advances
  BY DEF Boot, Advances
<1>2. Clock'
  BY <1>1, ClockStays DEF CatchesUp, Boot
<1>3. Pending'
  BY DEF Pending, Waiting, Boot
<1>4. CaughtUpBeforeCron'
  BY DEF CaughtUpBeforeCron, Boot
<1> QED
  BY <1>2, <1>3, <1>4 DEF CatchesUp

LEMMA CheckCatches ==
    ASSUME TypeOK, CatchesUp, CheckJob
    PROVE  CatchesUp'
<1> PICK h : h = Head(todo)
  OBVIOUS
<1>1. todo # <<>> /\ todo \in Seq(Names) /\ todo' = Tail(todo) /\ catchUp = Nil
  BY DEF CheckJob, TypeOK, idleCatchUp
<1>2. h \in Names
      /\ \A k \in DOMAIN todo :
            todo[k] = h \/ \E m \in DOMAIN todo' : todo'[m] = todo[k]
  <2>1. todo[1] = h /\ h \in Names
    BY <1>1
  <2>2. \A m \in 1..(Len(todo) - 1) : m \in DOMAIN todo' /\ todo'[m] = todo[m + 1]
    BY <1>1
  <2>3. ASSUME NEW k \in DOMAIN todo, k # 1
        PROVE  (k - 1) \in 1..(Len(todo) - 1) /\ (k - 1) + 1 = k
    BY <1>1, <2>3
  <2> QED
    BY <2>1, <2>2, <2>3
<1>3. Advances /\ UNCHANGED <<phase, lastRun, now, bootedAt>>
  BY DEF CheckJob, Advances
<1>4. Clock'
  BY <1>3, ClockStays DEF CatchesUp
\* The job that was looked at waits for its catch-up, ran lately, or is amiss.
<1>5. Waiting(h)' \/ Caught(h)'
  <2>1. CASE Overdue(h) /\ catchUp' = [job |-> h, pc |-> "run"]
    BY <1>2, <2>1, CatchUpIsThere DEF Waiting
  <2>2. CASE ~ Overdue(h)
    BY <1>2, <1>3, <2>2, TimesTyped DEF Overdue, Caught, CatchesUp, Clock
  <2>3. CASE amiss' = amiss \cup {h}
    BY <2>3 DEF Caught
  <2> QED
    BY <2>1, <2>2, <2>3 DEF CheckJob
<1>6. ASSUME NEW i \in DOMAIN BootJobs, Waiting(BootJobs[i])
      PROVE  Waiting(BootJobs[i])' \/ Caught(BootJobs[i])'
  <2>1. PICK k \in DOMAIN todo : todo[k] = BootJobs[i]
    BY <1>1, <1>6 DEF Waiting
  <2>2. CASE BootJobs[i] = h
    BY <1>5, <2>2
  <2>3. CASE BootJobs[i] # h
    BY <1>2, <2>1, <2>3 DEF Waiting
  <2> QED
    BY <2>2, <2>3
<1>7. \A i \in DOMAIN BootJobs : Caught(BootJobs[i]) => Caught(BootJobs[i])'
  BY <1>3, CaughtStays, BootJobIsName DEF CatchesUp
<1>8. Pending'
  BY <1>3, <1>6, <1>7 DEF CatchesUp, Pending
<1>9. CaughtUpBeforeCron'
  BY <1>3 DEF CaughtUpBeforeCron, CheckJob
<1> QED
  BY <1>4, <1>8, <1>9 DEF CatchesUp

LEMMA SavedCatches ==
    ASSUME TypeOK, CatchesUp, CatchUpSaved
    PROVE  CatchesUp'
<1> PICK c : c = catchUp.job
  OBVIOUS
<1>1. c \in Names /\ LastRunSet(c)
  BY DEF CatchUpSaved, TypeOK, idleCatchUp
<1>2. Advances /\ UNCHANGED <<phase, todo, now, bootedAt>>
  BY <1>1, SetAdvances DEF CatchUpSaved
<1>3. Clock'
  BY <1>2, ClockStays DEF CatchesUp
<1>4. \A i \in DOMAIN BootJobs : Caught(BootJobs[i]) => Caught(BootJobs[i])'
  BY <1>2, CaughtStays, BootJobIsName DEF CatchesUp
\* The job caught up has just run, or Redis was not told.
<1>5. Caught(c)'
  <2>1. CASE lastRun' = [lastRun EXCEPT ![c] = now]
    <3>1. lastRun'[c] = now
      BY <1>1, <2>1 DEF TypeOK
    <3> QED
      BY <1>2, <3>1, TimesTyped DEF Caught, CatchesUp, Clock
  <2>2. CASE amiss' = amiss \cup {c}
    BY <2>2 DEF Caught
  <2> QED
    BY <1>1, <2>1, <2>2 DEF LastRunSet
<1>6. ASSUME NEW i \in DOMAIN BootJobs, Waiting(BootJobs[i])
      PROVE  Waiting(BootJobs[i])' \/ Caught(BootJobs[i])'
  <2>1. CASE \E k \in DOMAIN todo : todo[k] = BootJobs[i]
    BY <1>2, <2>1 DEF Waiting
  <2>2. CASE c = BootJobs[i]
    BY <1>5, <2>2
  <2> QED
    BY <1>6, <2>1, <2>2 DEF Waiting
<1>7. Pending'
  BY <1>2, <1>4, <1>6 DEF CatchesUp, Pending
<1>8. CaughtUpBeforeCron'
  BY <1>2, <1>4, CaughtUpIs DEF CatchesUp, CaughtUpBeforeCron, Caught
<1> QED
  BY <1>3, <1>7, <1>8 DEF CatchesUp

LEMMA RanCatches ==
    ASSUME TypeOK, CatchesUp, CatchUpRan
    PROVE  CatchesUp'
<1>1. Advances /\ UNCHANGED <<phase, todo, lastRun, amiss, now, bootedAt>>
  BY DEF CatchUpRan, Advances
<1>2. catchUp' # Nil /\ catchUp'.job = catchUp.job
  <2>1. catchUp \in [job : Names, pc : {"run", "save"}]
    BY DEF CatchUpRan, TypeOK, idleCatchUp
  <2>2. catchUp' \in [job : Names, pc : {"run", "save"}] /\ catchUp'.job = catchUp.job
    BY <2>1 DEF CatchUpRan
  <2> QED
    BY <2>2, NilAssumption
<1>3. Clock'
  BY <1>1, ClockStays DEF CatchesUp
<1>4. Pending'
  BY <1>1, <1>2 DEF CatchesUp, Pending, Waiting, Caught
<1>5. CaughtUpBeforeCron'
  BY <1>1 DEF CatchesUp, CaughtUpBeforeCron
<1> QED
  BY <1>3, <1>4, <1>5 DEF CatchesUp

LEMMA StartCatches ==
    ASSUME TypeOK, CatchesUp, StartCron
    PROVE  CatchesUp'
<1>1. phase = "catchup" /\ catchUp = Nil /\ todo = <<>> /\ phase' = "running"
      /\ UNCHANGED <<lastRun, amiss, now, bootedAt>>
  BY DEF StartCron, idleCatchUp, history
<1>2. DOMAIN todo = {}
  BY <1>1
<1>3. \A i \in DOMAIN BootJobs : Caught(BootJobs[i])
  BY <1>1, <1>2 DEF CatchesUp, Pending, Waiting
<1>4. CaughtUpBeforeCron'
  BY <1>1, <1>3 DEF CaughtUpBeforeCron, Caught
<1>5. Clock' /\ Pending'
  BY <1>1 DEF CatchesUp, Clock, Pending
<1> QED
  BY <1>4, <1>5 DEF CatchesUp

LEMMA DownCatches ==
    ASSUME TypeOK, CatchesUp, Down
    PROVE  CatchesUp'
  BY DEF CatchesUp, Down, Clock, Pending, CaughtUpBeforeCron

LEMMA NextCatches ==
    ASSUME Types, CatchesUp, [Next]_vars
    PROVE  CatchesUp'
<1> USE DEF Types
<1>1. CASE Boot
  BY <1>1, BootCatches
<1>2. CASE StartStep
  BY <1>2, CheckCatches, RanCatches, SavedCatches, StartCatches DEF StartStep
<1>3. CASE Stop \/ Crash
  BY <1>3, DownCatches DEF Stop, Crash
<1>4. CASE \E x \in execs : Saved(x)
  <2>1. PICK x \in execs : Saved(x)
    BY <1>4
  <2>2. x.job \in Names /\ LastRunSet(x.job)
    BY <2>1 DEF Saved, TypeOK
  <2> QED
    BY <2>1, <2>2, SetAdvances, CatchesStay DEF Saved
<1>5. CASE \E x \in execs : Ran(x)
  <2>1. Advances /\ UNCHANGED <<phase, todo, catchUp, bootedAt, now>>
    BY <1>5 DEF Ran, Advances
  <2> QED
    BY <2>1, CatchesStay
<1>6. CASE \/ \E g \in gocron : Fire(g)
           \/ \E j \in Names : Trigger(j)
           \/ \E a \in Adders, j \in Names : AddRegister(a, j)
           \/ \E a \in Adders : AddRead(a) \/ AddAppend(a)
           \/ \E u \in Updaters, j \in Names : UpdateFind(u, j)
           \/ \E u \in Updaters : UpdateRemove(u) \/ UpdateAdd(u) \/ UpdateAssign(u)
           \/ UNCHANGED vars
  <2>1. UNCHANGED <<phase, todo, catchUp, bootedAt, now, lastRun, amiss>>
    BY <1>6
       DEF Fire, Trigger, AddRegister, AddRead, AddAppend, UpdateFind, UpdateRemove,
           UpdateAdd, UpdateAssign, history, vars
  <2> QED
    BY <2>1, CatchesStay DEF Advances
<1>7. CASE Tick
  <2>1. UNCHANGED <<phase, todo, catchUp, bootedAt, lastRun, amiss>> /\ now' = now + 1
    BY <1>7 DEF Tick, history
  <2> QED
    BY <2>1, CatchesStay DEF Advances
<1> QED
  BY <1>1, <1>2, <1>3, <1>4, <1>5, <1>6, <1>7 DEF Next

LEMMA InitCatches ==
    ASSUME Init
    PROVE  CatchesUp
  BY BoundsAssumption DEF Init, CatchesUp, Clock, Pending, CaughtUpBeforeCron

\* When gocron starts, however long the catch-up of the others took, no job with
\* a known last run is older than the threshold at the start of the process,
\* unless Redis failed for that job (scheduler.go:97-101, 237-263).
THEOREM CaughtUp == Spec => []CaughtUpBeforeCron
<1>1. Init => Types /\ CatchesUp
  BY InitTypes, InitCatches
<1>2. (Types /\ CatchesUp) /\ [Next]_vars => (Types /\ CatchesUp)'
  BY NextTypes, NextCatches
<1>3. Types /\ CatchesUp => CaughtUpBeforeCron
  BY DEF CatchesUp
<1> QED
  BY <1>1, <1>2, <1>3, PTL DEF Spec
=============================================================================
