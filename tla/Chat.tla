-------------------------------- MODULE Chat --------------------------------
(***************************************************************************)
(* The mentor's conversations of one tenant, and what limits them:         *)
(* internal/brain/chat.go, internal/seats/service.go, the group mentor of  *)
(* cmd/brain/scheduler_jobs.go and the requests that lead to them.  The    *)
(* employees talk to the mentor, the boss to the mentor or to the seat     *)
(* chosen with /talk; every conversation is one Redis value that a handler *)
(* reads, extends by an exchange with the LLM and writes back whole.  The  *)
(* board's discussions and the posts to groups are held back by a key that *)
(* is read before the LLM's work and set after it.                         *)
(*                                                                         *)
(* A Redis call or an SQL statement is one step of the goroutine that      *)
(* makes it; telebot and gin start one goroutine a message or a request.   *)
(***************************************************************************)
EXTENDS Naturals, Sequences, FiniteSets

CONSTANTS
    Employees, Boss, Seats,  \* a conversation each
    Groups,                  \* group chats
    Boards,                  \* the board, which discusses a topic
    Handlers,                \* goroutines
    Personas,                \* brain.ValidMentors
    None,                    \* no seat, no persona, no conversation
    RateMax,                 \* rateLimitMax
    Kept, SeatKept,          \* maxHistoryMessages of brain and of seats, in exchanges
    MaxExchanges,            \* bound: exchanges in all conversations
    MaxFaults                \* bound: failed calls and crashes

VARIABLES
    history,    \* the Redis keys chat:... and seat:...
    silence,    \* how long ago each conversation was written: "recent", "gap"
    counter,    \* the Redis keys chat_rate:...
    expiring,   \* the keys chat_rate:... that have a time to live
    cooling,    \* the Redis keys board_rate:... and group:last_post:...
    talkTo,     \* the Redis key active_seat:...
    holder,     \* the persona of each row of seats
    group,      \* is_active of each row of group_chats
    request,    \* where each goroutine is and what it has read
    extracting, \* transcripts whose extraction runs
    nextId,     \* exchanges so far, plus one
    written,    \* history: where each exchange was written
    remembered, \* history: exchanges that were remembered
    again,      \* history: exchanges that were remembered once more
    gone,       \* history: exchanges gone as the code means them to go
    crossed,    \* history: conversations with two handlers at a time, or a failed call
    admitted,   \* history: requests let through in the present window
    uncounted,  \* history: those of them that were not counted
    endless,    \* history: keys whose time to live was not set
    done,       \* history: the board and groups whose work was done in the present window
    repeated,   \* history: those whose work was begun again in it
    faults      \* history: the number of faults

redis == <<history, silence, counter, expiring, cooling, talkTo>>
tables == <<holder, group>>
said == <<written, remembered, again, gone, crossed>>
limits == <<admitted, uncounted, endless>>
posts == <<done, repeated>>
vars == <<redis, tables, request, extracting, nextId, said, limits, posts, faults>>

Conversations == Employees \cup {Boss} \cup Seats
Mentored == Employees \cup {Boss}
Exchanges == 1 .. MaxExchanges
Cooled == Boards \cup Groups

Locations == {"idle", "expire", "load", "trim", "ask", "save", "find", "work", "cool"}
NoRequest == [at |-> "idle", with |-> None, id |-> 0, read |-> <<>>]
At(p, l) == request[p].at = l

-----------------------------------------------------------------------------
Init ==
    /\ history = [c \in Conversations |-> <<>>]
    /\ silence = [c \in Conversations |-> "recent"]
    /\ counter = [e \in Employees |-> 0]
    /\ expiring = {}
    /\ cooling = {}
    /\ talkTo = None
    /\ holder = [s \in Seats |-> None]
    /\ group = [g \in Groups |-> "none"]
    /\ request = [p \in Handlers |-> NoRequest]
    /\ extracting = {}
    /\ nextId = 1
    /\ written = [m \in Exchanges |-> None]
    /\ remembered = {} /\ again = {} /\ gone = {} /\ crossed = {}
    /\ admitted = [e \in Employees |-> 0] /\ uncounted = [e \in Employees |-> 0] /\ endless = {}
    /\ done = {} /\ repeated = {}
    /\ faults = 0

Fault == faults < MaxFaults /\ faults' = faults + 1
Written(ok) == IF ok THEN UNCHANGED faults ELSE Fault

Reads(p, where, read) ==
    request' = [request EXCEPT ![p] = [at |-> where, with |-> request[p].with, id |-> request[p].id, read |-> read]]
Goes(p, where) == Reads(p, where, request[p].read)
Ends(p) == request' = [request EXCEPT ![p] = NoRequest]
Begins(p, where, c, i) ==
    request' = [request EXCEPT ![p] = [at |-> where, with |-> c, id |-> i, read |-> <<>>]]

(* The queries of seats and of group_chats                                 *)

\* GetSeatByType; is_active is never cleared.
GetSeat(s) == holder[s] # None
ListActiveSeats == {s \in Seats : GetSeat(s)}
\* CreateSeat: one row for a tenant and a seat type.
CreateSeat(s, m) == ~GetSeat(s) /\ holder' = [holder EXCEPT ![s] = m]
\* UpdateSeat and DeleteSeat, by the row's id.
UpdateSeat(s, m) == GetSeat(s) /\ holder' = [holder EXCEPT ![s] = m]
DeleteSeat(s) == GetSeat(s) /\ holder' = [holder EXCEPT ![s] = None]

\* GetGroupChatByPlatformID.
GetGroup(g) == group[g] # "none"
ListActiveGroups == {g \in Groups : group[g] = "active"}
CreateGroupChat(g) == group' = [group EXCEPT ![g] = "active"]
UpdateGroupChat(g, a) == group' = [group EXCEPT ![g] = a]
SoftDeleteGroupChat(g) == group' = [group EXCEPT ![g] = "inactive"]

-----------------------------------------------------------------------------
Busy(c) == {p \in Handlers : request[p].with = c}
Open(c) == {p \in Busy(c) : request[p].at \in {"trim", "ask", "save"}}

-----------------------------------------------------------------------------
(* Messages to the mentor and to seats                                     *)

\* A message needs an exchange; each is used once.
Numbered == nextId \in Exchanges /\ nextId' = nextId + 1

Limited(n) == n > RateMax

\* HandleEmployee begins with checkRateLimit: the first message of a window
\* still has to set the window's end; an error of INCR lets the message through.
EmployeeWrites(p, e) ==
    /\ At(p, "idle") /\ Numbered
    /\ \/ /\ counter' = [counter EXCEPT ![e] = @ + 1]
          /\ UNCHANGED faults
          /\ IF Limited(counter'[e]) /\ counter[e] > 0
             THEN UNCHANGED <<request, admitted>>
             ELSE /\ Begins(p, IF counter[e] = 0 THEN "expire" ELSE "load", e, nextId)
                  /\ admitted' = [admitted EXCEPT ![e] = @ + 1]
          /\ UNCHANGED uncounted
       \/ /\ Fault /\ UNCHANGED counter
          /\ Begins(p, "load", e, nextId)
          /\ admitted' = [admitted EXCEPT ![e] = @ + 1]
          /\ uncounted' = [uncounted EXCEPT ![e] = @ + 1]
    /\ UNCHANGED <<history, silence, expiring, cooling, talkTo, tables, extracting, said, endless, posts>>

\* A mutation: the time to live is never set.
ExpireNever(p) ==
    /\ At(p, "expire")
    /\ Goes(p, "load")
    /\ UNCHANGED <<redis, tables, extracting, nextId, said, limits, posts, faults>>

\* The other half of checkRateLimit; that EXPIRE failed is only logged.
Expire(p) ==
    /\ At(p, "expire")
    /\ \E ok \in BOOLEAN :
          /\ Written(ok)
          /\ expiring' = IF ok THEN expiring \cup {request[p].with} ELSE expiring
          /\ endless' = IF ok THEN endless ELSE endless \cup {request[p].with}
    /\ Goes(p, "load")
    /\ UNCHANGED <<history, silence, counter, cooling, talkTo, tables, extracting, nextId,
                   said, admitted, uncounted, posts>>

\* The boss writes to the seat of /talk if there is one, and otherwise to the
\* mentor; a seat that is gone is an error.
BossWrites(p) ==
    LET to == IF talkTo # None THEN talkTo ELSE Boss
    IN  /\ At(p, "idle") /\ Numbered
        /\ IF to \in Seats /\ ~GetSeat(to)
           THEN UNCHANGED request
           ELSE Begins(p, "load", to, nextId)
        /\ UNCHANGED <<redis, tables, extracting, said, limits, posts, faults>>

\* A client of the API writes to a seat.
ClientWrites(p, s) ==
    /\ At(p, "idle") /\ Numbered
    /\ IF ~GetSeat(s) THEN UNCHANGED request ELSE Begins(p, "load", s, nextId)
    /\ UNCHANGED <<redis, tables, extracting, said, limits, posts, faults>>

\* loadHistory: an error of GET is an empty history.  Only the mentor's
\* conversations look for a gap.
Load(p) ==
    LET c == request[p].with
    IN  /\ At(p, "load")
        /\ \E ok \in BOOLEAN :
              /\ Written(ok)
              /\ LET read == IF ok THEN history[c] ELSE <<>>
                 IN  Reads(p, IF c \in Mentored /\ read # <<>> /\ silence[c] = "gap"
                              THEN "trim" ELSE "ask", read)
              /\ crossed' = IF Open(c) # {} \/ ~ok THEN crossed \cup {c} ELSE crossed
        /\ UNCHANGED <<redis, tables, extracting, nextId, written, remembered, again, gone, limits, posts>>

\* checkGapAndTrim after six hours of silence: a goroutine extracts memories
\* from the transcript, the key is deleted, whatever it now holds, and an error
\* of DEL is ignored.
Trim(p) ==
    LET c == request[p].with
    IN  /\ At(p, "trim")
        /\ extracting' = extracting \cup {<<c, request[p].read>>}
        /\ \E ok \in BOOLEAN :
              /\ Written(ok)
              /\ history' = IF ok THEN [history EXCEPT ![c] = <<>>] ELSE history
              /\ crossed' = IF ok THEN crossed ELSE crossed \cup {c}
        /\ Reads(p, "ask", <<>>)
        /\ UNCHANGED <<silence, counter, expiring, cooling, talkTo, tables, nextId,
                       written, remembered, again, gone, limits, posts>>

\* The LLM answers, or the handler ends with an apology and writes nothing.
Ask(p) ==
    /\ At(p, "ask")
    /\ Goes(p, "save") \/ Ends(p)
    /\ UNCHANGED <<redis, tables, extracting, nextId, said, limits, posts, faults>>

Most(c) == IF c \in Seats THEN SeatKept ELSE Kept
LastOf(h, n) == SubSeq(h, IF Len(h) > n THEN Len(h) - n + 1 ELSE 1, Len(h))
RangeOf(h) == {h[i] : i \in DOMAIN h}

\* A mutation: the answer is written without what was read.
ExtendedAlone(c, read, i) == <<i>>

\* The history with one exchange more, the oldest beyond the limit dropped.
Extended(c, read, i) == LastOf(Append(read, i), Most(c))

\* saveHistory overwrites the key and starts its time to live anew.
Save(p) ==
    LET c == request[p].with
        now == Extended(c, request[p].read, request[p].id)
        cut == IF Len(request[p].read) = Most(c) THEN {Head(request[p].read)} ELSE {}
    IN  /\ At(p, "save")
        /\ \/ /\ history' = [history EXCEPT ![c] = now]
              /\ silence' = [silence EXCEPT ![c] = "recent"]
              /\ written' = [written EXCEPT ![request[p].id] = c]
              /\ gone' = gone \cup cut
              /\ UNCHANGED faults
           \/ Fault /\ UNCHANGED <<history, silence, written, gone>>
        /\ Ends(p)
        /\ UNCHANGED <<counter, expiring, cooling, talkTo, tables, extracting, nextId,
                       remembered, again, crossed, limits, posts>>

\* ExtractFromChat of the memory engine, which Memory models, succeeds or fails.
Extract(x) ==
    LET read == RangeOf(x[2])
    IN  /\ x \in extracting
        /\ extracting' = extracting \ {x}
        /\ \/ /\ again' = again \cup (read \cap remembered)
              /\ remembered' = remembered \cup read
              /\ UNCHANGED gone
           \/ gone' = gone \cup read /\ UNCHANGED <<again, remembered>>
        /\ UNCHANGED <<redis, tables, request, nextId, written, crossed, limits, posts, faults>>

\* Time passes, longer than any handler runs: a gap of six hours, then the end
\* of historyTTL and of seatHistoryTTL, a day after the last exchange.
Silence(c) ==
    /\ history[c] # <<>> /\ Busy(c) = {}
    /\ IF silence[c] = "recent"
       THEN silence' = [silence EXCEPT ![c] = "gap"] /\ UNCHANGED <<history, gone>>
       ELSE /\ history' = [history EXCEPT ![c] = <<>>]
            /\ gone' = gone \cup RangeOf(history[c])
            /\ silence' = [silence EXCEPT ![c] = "recent"]
    /\ UNCHANGED <<counter, expiring, cooling, talkTo, tables, request, extracting, nextId,
                   written, remembered, again, crossed, limits, posts, faults>>

\* rateLimitWindow is over: a key with a time to live is gone.
WindowEnds(e) ==
    /\ e \in expiring
    /\ counter' = [counter EXCEPT ![e] = 0]
    /\ expiring' = expiring \ {e}
    /\ admitted' = [admitted EXCEPT ![e] = 0] /\ uncounted' = [uncounted EXCEPT ![e] = 0]
    /\ UNCHANGED <<history, silence, cooling, talkTo, tables, request, extracting, nextId,
                   said, endless, posts, faults>>

-----------------------------------------------------------------------------
(* Work that is limited by a key set at its end                            *)

\* The key is absent, or GET fails and the work begins nevertheless.
NotCooling(k) ==
    \/ k \notin cooling /\ UNCHANGED faults
    \/ Fault

Begin(p, k) ==
    /\ At(p, "idle")
    /\ NotCooling(k)
    /\ Begins(p, "work", k, 0)
    /\ repeated' = IF k \in done THEN repeated \cup {k} ELSE repeated
    /\ UNCHANGED <<redis, tables, extracting, nextId, said, limits, done>>

\* BoardDiscuss, asked for with /board or by a client, looks for board_rate and
\* lists the seats.
BoardDiscuss(p, b) == ListActiveSeats # {} /\ Begin(p, b)

\* The job group_mentor looks for the last post of each active group.
GroupMentor(p, g) == g \in ListActiveGroups /\ Begin(p, g)

\* A mutation: a discussion whose synthesis failed is not followed by its key.
DiscussedUnlimited(p) ==
    /\ At(p, "work") /\ request[p].with \in Boards
    /\ Ends(p)
    /\ done' = done \cup {request[p].with}
    /\ UNCHANGED <<redis, tables, extracting, nextId, said, limits, repeated, faults>>

\* Every seat speaks in turn and the board's synthesis follows, whatever the
\* LLM calls return.
Discussed(p) ==
    /\ At(p, "work") /\ request[p].with \in Boards
    /\ Goes(p, "cool")
    /\ UNCHANGED <<redis, tables, extracting, nextId, said, limits, posts, faults>>

\* The group's mentor may fail, skip, or post.
Posted(p) ==
    /\ At(p, "work") /\ request[p].with \in Groups
    /\ Goes(p, "cool") \/ Ends(p)
    /\ UNCHANGED <<redis, tables, extracting, nextId, said, limits, posts, faults>>

\* The key is set; that this failed is at most logged.
Cool(p) ==
    /\ At(p, "cool")
    /\ \E ok \in BOOLEAN :
          /\ Written(ok)
          /\ cooling' = IF ok THEN cooling \cup {request[p].with} ELSE cooling
    /\ done' = done \cup {request[p].with}
    /\ Ends(p)
    /\ UNCHANGED <<history, silence, counter, expiring, talkTo, tables, extracting, nextId,
                   said, limits, repeated>>

\* boardRateLimitTTL, or the day of a group's last post, is over.
CoolingEnds(k) ==
    /\ k \in cooling \cup done
    /\ cooling' = cooling \ {k}
    /\ done' = done \ {k}
    /\ UNCHANGED <<history, silence, counter, expiring, talkTo, tables, request, extracting, nextId,
                   said, limits, repeated, faults>>

-----------------------------------------------------------------------------
(* Seats and groups                                                        *)

\* /talk s and /talk off.
Talk(s) ==
    /\ s = None \/ (s \in Seats /\ GetSeat(s))
    /\ talkTo' = s
    /\ UNCHANGED <<history, silence, counter, expiring, cooling, tables, request,
                   extracting, nextId, said, limits, posts, faults>>

\* UpsertSeat of /assign: the seat is looked up ...
Assign(p, s) ==
    /\ At(p, "idle")
    /\ request' = [request EXCEPT ![p] =
          [at |-> "find", with |-> None, id |-> 0, read |-> <<s, GetSeat(s)>>]]
    /\ UNCHANGED <<redis, tables, extracting, nextId, said, limits, posts, faults>>

\* ... and then created or updated; a row created or deleted since is an error.
Upsert(p, m) ==
    /\ At(p, "find")
    /\ LET s == request[p].read[1]
       IN  \/ IF request[p].read[2] THEN UpdateSeat(s, m) ELSE CreateSeat(s, m)
           \/ /\ request[p].read[2] # GetSeat(s)
              /\ UNCHANGED holder
    /\ Ends(p)
    /\ UNCHANGED <<redis, group, extracting, nextId, said, limits, posts, faults>>

\* The API's requests about seats; the titles and scopes are left out.
Seated == UNCHANGED <<redis, group, request, extracting, nextId, said, limits, posts, faults>>
CreateRequest(s, m) == CreateSeat(s, m) /\ Seated
UpdateRequest(s, m) == UpdateSeat(s, m) /\ Seated
DeleteRequest(s) == DeleteSeat(s) /\ Seated

\* /join in a group registers it; a group that has a row, even a deleted one,
\* is already registered.
Grouped == UNCHANGED <<redis, holder, request, extracting, nextId, said, limits, posts, faults>>
Join(g) == ~GetGroup(g) /\ CreateGroupChat(g) /\ Grouped
UpdateGroup(g, a) == GetGroup(g) /\ UpdateGroupChat(g, a) /\ Grouped
DeleteGroup(g) == GetGroup(g) /\ SoftDeleteGroupChat(g) /\ Grouped

\* The process ends: goroutines are lost, Redis and the tables are not.
Crash ==
    /\ Fault
    /\ request' = [p \in Handlers |-> NoRequest]
    /\ extracting' = {}
    /\ gone' = gone \cup UNION {RangeOf(x[2]) : x \in extracting}
    /\ endless' = endless \cup {request[p].with : p \in {q \in Handlers : At(q, "expire")}}
    /\ done' = done \cup {request[p].with : p \in {q \in Handlers : At(q, "cool")}}
    /\ UNCHANGED <<redis, tables, nextId, written, remembered, again, crossed, admitted, uncounted, repeated>>

Next ==
    \/ \E p \in Handlers :
          \/ \E e \in Employees : EmployeeWrites(p, e)
          \/ \E s \in Seats : ClientWrites(p, s) \/ Assign(p, s)
          \/ BossWrites(p) \/ Expire(p) \/ Load(p) \/ Trim(p) \/ Ask(p) \/ Save(p)
          \/ \E b \in Boards : BoardDiscuss(p, b)
          \/ \E g \in Groups : GroupMentor(p, g)
          \/ Discussed(p) \/ Posted(p) \/ Cool(p)
          \/ \E m \in Personas : Upsert(p, m)
    \/ \E x \in extracting : Extract(x)
    \/ \E c \in Conversations : Silence(c)
    \/ \E e \in Employees : WindowEnds(e)
    \/ \E k \in Cooled : CoolingEnds(k)
    \/ \E s \in Seats \cup {None} : Talk(s)
    \/ \E s \in Seats, m \in Personas : CreateRequest(s, m) \/ UpdateRequest(s, m)
    \/ \E s \in Seats : DeleteRequest(s)
    \/ \E g \in Groups : Join(g) \/ DeleteGroup(g)
    \/ \E g \in Groups, a \in {"active", "inactive"} : UpdateGroup(g, a)
    \/ Crash

Spec == Init /\ [][Next]_vars

-----------------------------------------------------------------------------
(* Properties                                                              *)

\* Every variable holds a value of its type.
TypeOK ==
    /\ \A c \in Conversations : history[c] \in Seq(Exchanges) /\ Len(history[c]) <= Most(c)
    /\ silence \in [Conversations -> {"recent", "gap"}]
    /\ counter \in [Employees -> Nat] /\ expiring \subseteq Employees
    /\ cooling \subseteq Cooled
    /\ talkTo \in Seats \cup {None} /\ holder \in [Seats -> Personas \cup {None}]
    /\ group \in [Groups -> {"none", "active", "inactive"}]
    /\ \A p \in Handlers : request[p].at \in Locations
    /\ \A x \in extracting : x[1] \in Mentored /\ x[2] \in Seq(Exchanges)
    /\ nextId \in 1 .. MaxExchanges + 1 /\ faults \in 0 .. MaxFaults

\* A counter of checkRateLimit has an end, or is about to get one, unless the
\* call that sets it failed or the process ended first (chat.go:301).
CounterExpires ==
    \A e \in Employees :
       counter[e] > 0 =>
          e \in expiring \cup endless \/ \E p \in Busy(e) : At(p, "expire")

\* However the handlers of an employee interleave, and whenever the window
\* ends, no more messages reach the LLM in a window than the limit and those
\* whose INCR failed.
AdmittedPerWindow ==
    \A e \in Employees : admitted[e] <= RateMax + uncounted[e]

\* What was said in a conversation is still there, was remembered or is being
\* remembered, or went as the code means it to: cut, expired, or its extraction
\* failed; and it is remembered once.  Only two handlers at a time, or a failed
\* call to Redis, can lose or double it (chat.go:143, service.go:124).
SaidIsKept ==
    \A m \in Exchanges :
       written[m] \notin {None} \cup crossed =>
          /\ \/ m \in RangeOf(history[written[m]])
             \/ m \in remembered \cup gone
             \/ \E x \in extracting : m \in RangeOf(x[2])
          /\ m \notin again

\* After a discussion of the board or a post to a group, no other begins within
\* the window, unless a call failed, the process ended, or the two overlapped
\* (service.go:159, scheduler_jobs.go:258).
WorkedOncePerWindow == repeated # {} => faults > 0

-----------------------------------------------------------------------------
(* What the documents say, which the code does not keep                    *)

\* "EXPIRE 60": the employee is heard again after a minute.
NeverEndless == endless = {}

\* "If gap > 6 hours: extract old conversation".
NeverForgotten ==
    \A c \in Mentored : silence[c] = "gap" /\ history[c] # <<>> /\ history'[c] = <<>>
                          => extracting' # extracting
NeverForgottenSteps == [][NeverForgotten]_vars

\* "once per 5 minutes per tenant", "max 1 proactive message per group per day".
NeverTwoAtOnce ==
    \A p, q \in Handlers :
       p # q => ~(At(p, "work") /\ At(q, "cool") /\ request[p].with = request[q].with)
=============================================================================
