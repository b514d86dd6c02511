----------------------------- MODULE Scheduler -----------------------------
(***************************************************************************)
(* The job scheduler of internal/scheduler/scheduler.go, as cmd/brain/     *)
(* main.go drives it: jobs are registered with gocron when the process     *)
(* starts, Start runs the catch-up of missed jobs and then gocron, the     *)
(* admin API reschedules and triggers jobs, the AI roles add jobs while    *)
(* the process runs.  Only the last-run times survive a restart: they are  *)
(* in Redis.  The slice s.jobs is not protected by a lock: AddJob appends  *)
(* to the slice it read, in place or into a new array, while another       *)
(* AddJob does the same and UpdateJobSchedule holds a pointer into an      *)
(* array.  A slice header is read and written whole: what a torn one would *)
(* do is left out.                                                         *)
(***************************************************************************)
EXTENDS Naturals, Sequences

CONSTANTS
    BootJobs,    \* the jobs registered at startup, in order
    RoleJobs,    \* jobs the AI roles may add at run time
    Due,         \* the times at which each job's default cron expression fires
    NewDue,      \* those of the expression an administrator may install
    Updaters,    \* goroutines inside UpdateJobSchedule
    Adders,      \* goroutines inside AddJob
    Spare,       \* bound on the room append leaves in a new array
    Threshold,   \* two hours
    MaxTime,     \* bound on the clock
    MaxId,       \* bound on the number of gocron registrations
    Nil,
    ManualJobs,  \* the jobs an administrator triggers through the API
    RedisFaults, Crashes

VARIABLES
    phase,      \* of the process: "down", "catchup" or "running"
    todo,       \* jobs CheckMissedJobs has still to look at
    catchUp,    \* the catch-up in progress, or Nil
    gocron,     \* registrations: id, job, due times, last time it could fire
    slices,     \* the backing arrays s.jobs had: their room and their cells
    header,     \* s.jobs: an array and how many of its cells are in the slice
    upd,        \* the local state of each UpdateJobSchedule
    add,        \* the local state of each AddJob
    execs,      \* running executions of jobs
    lastRun,    \* Redis: scheduler:last_run:{job}, or Nil
    now,
    nextId,
    bootedAt,   \* history: when the process last started
    amiss,      \* history: jobs whose last-run time Redis once failed to give
                \* or was not told
    overwrote   \* history: ids of the jobs that were appended over another

vars == <<phase, todo, catchUp, gocron, slices, header, upd, add, execs, lastRun,
          now, nextId, bootedAt, amiss, overwrote>>

Names == {BootJobs[i] : i \in DOMAIN BootJobs} \cup RoleJobs
Time  == 0..MaxTime
DueSets == {Due[j] : j \in Names} \cup {NewDue}

ASSUME BoundsAssumption ==
    Threshold \in Nat /\ MaxTime \in Nat /\ MaxId \in Nat /\ Spare \in Nat
ASSUME DueAssumption ==
    (\A j \in Names : Due[j] \subseteq Nat) /\ NewDue \subseteq Nat
ASSUME BootAssumption == BootJobs \in Seq(Names)
\* Nil is no name and no number and no catch-up.
ASSUME NilAssumption ==
    /\ Nil \notin Names \cup Nat
    /\ Nil \notin [job : Names, pc : {"run", "save"}]
ASSUME FaultAssumption == {RedisFaults, Crashes} \subseteq BOOLEAN

\* "from" is history: the id the job had when it was added, which a
\* rescheduled registration takes over from the entry it was found in.
Registration(i, j, d, f) ==
    [id |-> i, job |-> j, due |-> d, from |-> f, since |-> now]

Entry(i, j, d) == [id |-> i, job |-> j, due |-> d, from |-> i]

\* What s.jobs shows.
Jobs == SubSeq(slices[header.at].cells, 1, header.len)

Listed(j) == \E k \in DOMAIN Jobs : Jobs[k].job = j

Empty    == [at |-> 1, len |-> 0]
NoUpdate == [pc |-> "idle", at |-> 0, pos |-> 0, id |-> 0]
NoAdd    == [pc |-> "idle", job |-> Nil, id |-> 0, at |-> 0, len |-> 0]

memory == <<gocron, slices, header, upd, add, nextId, overwrote>>
history == <<bootedAt, amiss>>
idleCatchUp == catchUp = Nil

-----------------------------------------------------------------------------
(* Startup: New, registerSchedulerJobs, LoadExistingForTenant, then Start  *)

\* The i-th job of the start is registered with the i-th fresh id; how much
\* room append has left in the array is the runtime's affair.
Boot ==
    /\ phase = "down"
    /\ nextId + Len(BootJobs) <= MaxId + 1
    /\ phase' = "catchup"
    /\ todo' = BootJobs
    /\ gocron' = {Registration(nextId + i - 1, BootJobs[i], Due[BootJobs[i]],
                               nextId + i - 1) : i \in DOMAIN BootJobs}
    /\ \E r \in 0..Spare :
          slices' = <<[room |-> Len(BootJobs) + r,
                       cells |-> [i \in DOMAIN BootJobs |->
                           Entry(nextId + i - 1, BootJobs[i], Due[BootJobs[i]])]]>>
    /\ header' = [at |-> 1, len |-> Len(BootJobs)]
    /\ nextId' = nextId + Len(BootJobs)
    /\ bootedAt' = now
    /\ UNCHANGED <<catchUp, upd, add, execs, lastRun, now, amiss, overwrote>>

Overdue(j) == lastRun[j] # Nil /\ now - lastRun[j] > Threshold

\* Faulty variant: jobs whose last run is old are left to cron.
CheckJobSkips ==
    /\ phase = "catchup" /\ idleCatchUp /\ todo # <<>>
    /\ todo' = Tail(todo)
    /\ UNCHANGED <<phase, catchUp, memory, execs, lastRun, now, history>>

\* Faulty variant: a job stays first in the loop until it is not overdue.
CheckJobAgain ==
    /\ phase = "catchup" /\ idleCatchUp /\ todo # <<>>
    /\ IF Overdue(Head(todo))
       THEN catchUp' = [job |-> Head(todo), pc |-> "run"] /\ UNCHANGED todo
       ELSE todo' = Tail(todo) /\ UNCHANGED catchUp
    /\ UNCHANGED <<phase, memory, execs, lastRun, now, history>>

\* CheckMissedJobs, one job: a missing or unreadable last_run is skipped.
CheckJob ==
    /\ phase = "catchup" /\ idleCatchUp /\ todo # <<>>
    /\ todo' = Tail(todo)
    /\ \/ /\ Overdue(Head(todo))
          /\ catchUp' = [job |-> Head(todo), pc |-> "run"]
          /\ UNCHANGED amiss
       \/ /\ ~ Overdue(Head(todo))
          /\ UNCHANGED <<catchUp, amiss>>
       \/ /\ RedisFaults
          /\ UNCHANGED catchUp
          /\ amiss' = amiss \cup {Head(todo)}
    /\ UNCHANGED <<phase, memory, execs, lastRun, now, bootedAt>>

\* rdb.Set: an error is only logged.
LastRunSet(j) ==
    \/ lastRun' = [lastRun EXCEPT ![j] = now] /\ UNCHANGED amiss
    \/ RedisFaults /\ UNCHANGED lastRun /\ amiss' = amiss \cup {j}

\* The callback has returned, with or without an error.
CatchUpRan ==
    /\ ~ idleCatchUp
    /\ catchUp.pc = "run"
    /\ catchUp' = [catchUp EXCEPT !.pc = "save"]
    /\ UNCHANGED <<phase, todo, memory, execs, lastRun, now, bootedAt, amiss>>

CatchUpSaved ==
    /\ ~ idleCatchUp
    /\ catchUp.pc = "save"
    /\ catchUp' = Nil
    /\ LastRunSet(catchUp.job)
    /\ UNCHANGED <<phase, todo, memory, execs, now, bootedAt>>

\* gocron starts now: what became due during the catch-up does not fire.
StartCron ==
    /\ phase = "catchup" /\ idleCatchUp /\ todo = <<>>
    /\ phase' = "running"
    /\ gocron' = {[g EXCEPT !.since = now] : g \in gocron}
    /\ UNCHANGED <<todo, catchUp, slices, header, upd, add, nextId, overwrote,
                   execs, lastRun, now, history>>

-----------------------------------------------------------------------------
(* Executions                                                              *)

FiresNow(g) == now \in g.due /\ g.since < now

\* Nothing keeps two executions of a job from overlapping.
Fire(g) ==
    /\ phase = "running"
    /\ FiresNow(g)
    /\ gocron' = (gocron \ {g}) \cup {[g EXCEPT !.since = now]}
    /\ execs' = execs \cup {[job |-> g.job, by |-> "cron", at |-> now, pc |-> "run"]}
    /\ UNCHANGED <<phase, todo, catchUp, slices, header, upd, add, nextId,
                   overwrote, lastRun, now, history>>

\* TriggerJob: the callback alone, in the goroutine of the request.
Trigger(j) ==
    /\ j \in ManualJobs
    /\ phase # "down" /\ Listed(j)
    /\ execs' = execs \cup {[job |-> j, by |-> "api", at |-> now, pc |-> "run"]}
    /\ UNCHANGED <<phase, todo, catchUp, memory, lastRun, now, history>>

\* The callback returns; only a job fired by cron goes on to its last_run.
Ran(x) ==
    /\ x.pc = "run"
    /\ execs' = (execs \ {x}) \cup
           (IF x.by = "cron" THEN {[x EXCEPT !.pc = "save"]} ELSE {})
    /\ amiss' = IF x.by = "api" THEN amiss \cup {x.job} ELSE amiss
    /\ UNCHANGED <<phase, todo, catchUp, memory, lastRun, now, bootedAt>>

\* Faulty variant: the time is rounded up.
SavedRoundedUp(x) ==
    /\ x.pc = "save"
    /\ execs' = execs \ {x}
    /\ lastRun' = [lastRun EXCEPT ![x.job] = now + 1]
    /\ UNCHANGED <<phase, todo, catchUp, memory, now, history>>

Saved(x) ==
    /\ x.pc = "save"
    /\ execs' = execs \ {x}
    /\ LastRunSet(x.job)
    /\ UNCHANGED <<phase, todo, catchUp, memory, now, bootedAt>>

-----------------------------------------------------------------------------
(* AddJob                                                                  *)

\* A request adds the jobs of a role, whether or not the role was there before.
AddRegister(a, j) ==
    /\ phase # "down"
    /\ add[a].pc = "idle"
    /\ j \in RoleJobs
    /\ nextId <= MaxId
    /\ gocron' = gocron \cup {Registration(nextId, j, Due[j], nextId)}
    /\ add' = [add EXCEPT ![a] = [NoAdd EXCEPT !.pc = "read", !.job = j, !.id = nextId]]
    /\ nextId' = nextId + 1
    /\ UNCHANGED <<phase, todo, catchUp, slices, header, upd, overwrote, execs,
                   lastRun, now, history>>

\* append(s.jobs, ...) works on the slice as it was read.
AddRead(a) ==
    /\ add[a].pc = "read"
    /\ add' = [add EXCEPT ![a].pc = "append", ![a].at = header.at, ![a].len = header.len]
    /\ UNCHANGED <<phase, todo, catchUp, gocron, slices, header, upd, nextId,
                   overwrote, execs, lastRun, now, history>>

\* In place if there is room behind the slice that was read, over whatever was
\* appended there since; else into a new array, after a copy of that slice.
AddAppend(a) ==
    /\ add[a].pc = "append"
    /\ LET at  == add[a].at
           n   == add[a].len
           new == Entry(add[a].id, add[a].job, Due[add[a].job])
           old == slices[at]
       IN  \/ /\ n < old.room
              /\ IF n < Len(old.cells)
                 THEN /\ slices' = [slices EXCEPT ![at].cells[n + 1] = new]
                      /\ overwrote' = overwrote \cup {add[a].id}
                 ELSE /\ slices' = [slices EXCEPT ![at].cells = Append(old.cells, new)]
                      /\ UNCHANGED overwrote
              /\ header' = [at |-> at, len |-> n + 1]
           \/ /\ n = old.room
              /\ \E r \in 0..Spare :
                    slices' = Append(slices,
                        [room  |-> n + 1 + r,
                         cells |-> Append(SubSeq(old.cells, 1, n), new)])
              /\ header' = [at |-> Len(slices) + 1, len |-> n + 1]
              /\ UNCHANGED overwrote
    /\ add' = [add EXCEPT ![a] = NoAdd]
    /\ UNCHANGED <<phase, todo, catchUp, gocron, upd, nextId, execs, lastRun, now,
                   history>>

-----------------------------------------------------------------------------
(* UpdateJobSchedule                                                       *)

\* found = &s.jobs[i], the first entry with the name.
UpdateFind(u, j) ==
    /\ phase # "down"
    /\ upd[u].pc = "idle"
    /\ \E k \in DOMAIN Jobs :
          /\ Jobs[k].job = j
          /\ \A i \in 1..(k - 1) : Jobs[i].job # j
          /\ upd' = [upd EXCEPT ![u] =
                [NoUpdate EXCEPT !.pc = "remove", !.at = header.at, !.pos = k]]
    /\ UNCHANGED <<phase, todo, catchUp, gocron, slices, header, add, nextId,
                   overwrote, execs, lastRun, now, history>>

\* What the pointer shows now.
Found(u) == slices[upd[u].at].cells[upd[u].pos]

\* Faulty variant: a failing RemoveJob is ignored.
UpdateRemoveIgnored(u) ==
    /\ upd[u].pc = "remove"
    /\ gocron' = {h \in gocron : h.id # Found(u).id}
    /\ upd' = [upd EXCEPT ![u].pc = "add"]
    /\ UNCHANGED <<phase, todo, catchUp, slices, header, add, nextId, overwrote,
                   execs, lastRun, now, history>>

\* RemoveJob fails if gocron does not know the id (any more).
UpdateRemove(u) ==
    /\ upd[u].pc = "remove"
    /\ \/ \E g \in gocron :
            /\ g.id = Found(u).id
            /\ gocron' = gocron \ {g}
            /\ upd' = [upd EXCEPT ![u].pc = "add"]
       \/ /\ \A g \in gocron : g.id # Found(u).id
          /\ upd' = [upd EXCEPT ![u] = NoUpdate]
          /\ UNCHANGED gocron
    /\ UNCHANGED <<phase, todo, catchUp, slices, header, add, nextId, overwrote,
                   execs, lastRun, now, history>>

\* NewJob with the name and the callback the pointer shows; an invalid
\* expression is only noticed here.
UpdateAdd(u) ==
    /\ upd[u].pc = "add"
    /\ \/ /\ nextId <= MaxId
          /\ gocron' = gocron \cup
                {Registration(nextId, Found(u).job, NewDue, Found(u).from)}
          /\ upd' = [upd EXCEPT ![u].pc = "assign", ![u].id = nextId]
          /\ nextId' = nextId + 1
       \/ /\ upd' = [upd EXCEPT ![u] = NoUpdate]
          /\ UNCHANGED <<gocron, nextId>>
    /\ UNCHANGED <<phase, todo, catchUp, slices, header, add, overwrote, execs,
                   lastRun, now, history>>

\* found.cron and found.jobID.
UpdateAssign(u) ==
    /\ upd[u].pc = "assign"
    /\ slices' = [slices EXCEPT ![upd[u].at].cells[upd[u].pos] =
                     [Found(u) EXCEPT !.id = upd[u].id, !.due = NewDue]]
    /\ upd' = [upd EXCEPT ![u] = NoUpdate]
    /\ UNCHANGED <<phase, todo, catchUp, gocron, header, add, nextId, overwrote,
                   execs, lastRun, now, history>>

-----------------------------------------------------------------------------
(* Shutdown, crash, time                                                   *)

Down ==
    /\ phase' = "down" /\ todo' = <<>> /\ catchUp' = Nil
    /\ gocron' = {} /\ slices' = <<[room |-> 0, cells |-> <<>>]>> /\ header' = Empty
    /\ upd' = [u \in Updaters |-> NoUpdate]
    /\ add' = [a \in Adders |-> NoAdd]
    /\ execs' = {}
    /\ overwrote' = {}
    /\ amiss' = amiss \cup {x.job : x \in {y \in execs : y.pc = "save"}}
                     \cup (IF idleCatchUp THEN {} ELSE {catchUp.job})
    /\ UNCHANGED <<lastRun, now, nextId, bootedAt>>

\* Shutdown waits for the jobs gocron runs.
Stop == phase = "running" /\ execs = {} /\ Down

Crash == Crashes /\ phase # "down" /\ Down

\* gocron fires on time.
Tick ==
    /\ now < MaxTime
    /\ phase = "running" => \A g \in gocron : ~ FiresNow(g)
    /\ now' = now + 1
    /\ UNCHANGED <<phase, todo, catchUp, memory, execs, lastRun, history>>

Init ==
    /\ phase = "down" /\ todo = <<>> /\ catchUp = Nil
    /\ gocron = {} /\ slices = <<[room |-> 0, cells |-> <<>>]>> /\ header = Empty
    /\ upd = [u \in Updaters |-> NoUpdate]
    /\ add = [a \in Adders |-> NoAdd]
    /\ execs = {}
    /\ lastRun = [j \in Names |-> Nil]
    /\ now = 0 /\ nextId = 1 /\ bootedAt = 0
    /\ amiss = {} /\ overwrote = {}

StartStep == CheckJob \/ CatchUpRan \/ CatchUpSaved \/ StartCron

Next ==
    \/ Boot \/ StartStep
    \/ \E g \in gocron : Fire(g)
    \/ \E x \in execs : Ran(x) \/ Saved(x)
    \/ \E j \in Names : Trigger(j)
    \/ \E a \in Adders, j \in Names : AddRegister(a, j)
    \/ \E a \in Adders : AddRead(a) \/ AddAppend(a)
    \/ \E u \in Updaters, j \in Names : UpdateFind(u, j)
    \/ \E u \in Updaters : UpdateRemove(u) \/ UpdateAdd(u) \/ UpdateAssign(u)
    \/ Stop \/ Crash \/ Tick

Spec == Init /\ [][Next]_vars

\* The main goroutine runs, and the callbacks of jobs return.
FairSpec == Spec /\ WF_vars(StartStep)

-----------------------------------------------------------------------------
(* Properties                                                              *)

\* Every variable holds a value of the program's types.
TypeOK ==
    /\ phase \in {"down", "catchup", "running"}
    /\ todo \in Seq(Names)
    /\ catchUp = Nil \/ catchUp \in [job : Names, pc : {"run", "save"}]
    /\ gocron \subseteq [id : 1..MaxId, job : Names, due : DueSets,
                          from : 1..MaxId, since : Time]
    /\ slices \in Seq([room : Nat, cells : Seq([id : 1..MaxId, job : Names,
                                                due : DueSets, from : 1..MaxId])])
    /\ header \in [at : Nat, len : Nat]
    /\ upd \in [Updaters -> [pc : {"idle", "remove", "add", "assign"},
                             at : Nat, pos : Nat, id : 0..MaxId]]
    /\ add \in [Adders -> [pc : {"idle", "read", "append"}, job : Names \cup {Nil},
                           id : 0..MaxId, at : Nat, len : Nat]]
    /\ execs \subseteq [job : Names, by : {"cron", "api"}, at : Time, pc : {"run", "save"}]
    /\ lastRun \in [Names -> Time \cup {Nil}]
    /\ now \in Time /\ bootedAt \in Time
    /\ nextId \in 1..(MaxId + 1)
    /\ amiss \subseteq Names /\ overwrote \subseteq 1..MaxId

\* However reschedulings overlap, with each other and with jobs being added
\* while the slice moves, gocron never runs what was added once on two schedules
\* at once: the old registration is removed, and a lost race ends in an error
\* (scheduler.go:173-199).  A job that was added twice has two schedules, and
\* so may have one that an AddJob wrote over another which had read the same
\* slice (scheduler.go:129); a job of the start is never such a one.
AddedOnceRunsOnce ==
    \A g, h \in gocron : g.from = h.from /\ g.from \notin overwrote => g = h

\* When gocron starts, every job with a known last run older than the
\* threshold at startup has been caught up, even if catching up the others
\* took long (scheduler.go:97-101, 238-263), unless Redis failed for that job.
CaughtUpBeforeCron ==
    phase = "running" =>
        \A i \in DOMAIN BootJobs :
            LET t == lastRun[BootJobs[i]]
            IN  t # Nil /\ BootJobs[i] \notin amiss => t + Threshold >= bootedAt

\* Start comes to its end: every catch-up is tried once, then cron runs.
StartEnds == phase = "catchup" ~> phase # "catchup"

-----------------------------------------------------------------------------
(* What the documentation says and the code does not do                    *)

Missed(j, since) == \E d \in Due[j] : since < d /\ d <= now

\* scheduler.go:237: CheckMissedJobs "checks if any jobs missed their window
\* and runs catch-up".
OnlyMissedCaughtUp ==
    [][catchUp = Nil /\ catchUp' # Nil =>
         Missed(catchUp'.job, lastRun[catchUp'.job])]_vars

\* README.md:335: "Run catch-up if within 2-hour window".
CaughtUpInWindow ==
    [][catchUp = Nil /\ catchUp' # Nil =>
         \E d \in Due[catchUp'.job] : d <= now /\ now <= d + Threshold]_vars

\* README.md:335: "On startup, check for missed jobs": a job that was due
\* within the two hours before the start, and after its last run, was run.
MissedCaughtUp ==
    phase = "running" =>
        \A i \in DOMAIN BootJobs :
            LET t == lastRun[BootJobs[i]]
            IN  t # Nil => ~ \E d \in Due[BootJobs[i]] :
                    t < d /\ d <= bootedAt /\ bootedAt <= d + Threshold

Quiet ==
    /\ phase # "down"
    /\ \A u \in Updaters : upd[u].pc = "idle"
    /\ \A a \in Adders : add[a].pc = "idle"

\* scheduler.go:146: "ListJobs returns info about all registered jobs": what
\* is listed is registered ...
ListedIsRegistered ==
    Quiet => \A k \in DOMAIN Jobs : \E g \in gocron : g.id = Jobs[k].id

\* ... and what is registered is listed.
RegisteredIsListed ==
    Quiet => \A g \in gocron : \E k \in DOMAIN Jobs : Jobs[k].id = g.id

\* scheduler.go:160: "UpdateJobSchedule updates the cron expression for an
\* existing job": no registration keeps another.
OneExpression ==
    Quiet => \A g, h \in gocron : g.job = h.job => g.due = h.due

=============================================================================
