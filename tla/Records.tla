------------------------------ MODULE Records ------------------------------
(***************************************************************************)
(* The records about people and their work: reviews, training, careers,    *)
(* skills, projects, tasks, meetings, workflows, reporting lines, goals,   *)
(* metrics and incentive rules, with the handlers of internal/api and the  *)
(* statements of internal/db/sqlc they execute. A client lists rows,       *)
(* opens the form of one, changes a field and sends the whole form back,   *)
(* as the views of the frontend do; an UPDATE overwrites every column of   *)
(* the form. A statement is a step, and so are the checks some handlers    *)
(* make before it.                                                         *)
(*                                                                         *)
(* One operator stands for a statement: the row an INSERT or UPDATE makes, *)
(* the rows a SELECT finds.  Columns of one kind are one field: "text" is  *)
(* what the form holds besides the status and the employees, as the number *)
(* of the edit that gave it, and "self" the employee's part of a review    *)
(* or the name of a metric.                                                *)
(***************************************************************************)
EXTENDS Naturals, FiniteSets

CONSTANTS
    Employees,
    Clients,    \* browser pages and API clients, one request each at a time
    None,       \* NULL
    MaxRows,    \* bound: rows ever inserted
    MaxEdits    \* bound: forms sent

VARIABLES
    row,      \* the rows of all tables
    nextRow,  \* rows ever inserted, plus one
    client,   \* what each client shows and what its request is about to do
    edits,    \* history: forms sent
    given,    \* history: for each row, what was last given to each field
    clashed   \* history: rows saved from a form older than the row

vars == <<row, nextRow, client, edits, given, clashed>>
ghosts == <<edits, given, clashed>>

Ids == 1 .. MaxRows
Fields == {"status", "who", "by", "self", "text", "stamped"}

NoRow == [table |-> "none"]
Exists(i) == i # 0 /\ row[i] # NoRow
In(t) == {i \in Ids : row[i].table = t}

\* A row as INSERT makes it of a form.
Row(t, f) ==
    [table |-> t, of |-> f.of, to |-> f.to, who |-> f.who, by |-> f.by, status |-> f.status,
     self |-> 0, text |-> f.text, stamped |-> {}, active |-> TRUE]

Closed == [at |-> "closed"]

\* The statuses an UPDATE notes the time of.
Stamped == {"submitted", "acknowledged", "completed"}

\* The values of the status columns; the first is the default.
States(t) ==
    CASE t = "review_cycles" -> {"draft", "active"}
      [] t = "performance_reviews" -> {"pending", "submitted", "acknowledged"}
      [] t = "training_programs" -> {"active", "archived"}
      [] t = "training_enrollments" -> {"enrolled", "completed"}
      [] t = "meeting_action_items" -> {"open", "done"}
      [] t = "projects" -> {"planned", "blocked"}
      [] t = "tasks" -> {"todo", "done"}
      [] t = "reporting_lines" -> {"direct", "dotted"}
      [] t = "goals" -> {"draft", "active"}
      [] OTHER -> {""}

Init ==
    /\ row = [i \in Ids |-> NoRow]
    /\ nextRow = 1
    /\ client = [p \in Clients |-> Closed]
    /\ edits = 0
    /\ given = [i \in Ids |-> NoRow]
    /\ clashed = {}

-----------------------------------------------------------------------------
(* What PostgreSQL does with the statements                                *)

\* The tables whose rows go with the row "of" refers to.
Cascading == {"performance_reviews", "training_enrollments", "meeting_action_items",
              "employee_skills", "key_results"}
\* The tables whose reference becomes NULL.
Nulling == {"tasks"}

\* The table "of" and "to" refer to.
Parent(t) ==
    CASE t = "performance_reviews" -> "review_cycles"
      [] t = "training_enrollments" -> "training_programs"
      [] t = "career_paths" -> "career_levels"
      [] t = "employee_skills" -> "skills"
      [] t = "tasks" -> "projects"
      [] t = "meeting_action_items" -> "meetings"
      [] t = "key_results" -> "goals"
      [] OTHER -> "none"

\* The unique indexes.
Keys ==
    [t \in {"performance_reviews", "training_enrollments", "employee_skills"} |-> {"of", "who"}]
Key(t) ==
    IF t \in DOMAIN Keys THEN Keys[t]
    ELSE IF t = "career_paths" THEN {"who"}
    ELSE IF t = "reporting_lines" THEN {"who", "by"}
    ELSE IF t = "metrics" THEN {"self"} ELSE {"nothing"}

Conflicts(r) ==
    {i \in In(r.table) : Key(r.table) \subseteq DOMAIN r /\ \A k \in Key(r.table) : row[i][k] = r[k]}
RefersWell(r) == \A i \in {r.of, r.to} \ {0} : row[i].table = Parent(r.table)
Fits(r) == RefersWell(r) /\ Conflicts(r) = {}

\* A mutation: the rows that refer to a deleted one stay.
CascadeNothing(i) == {i}

\* DELETE: the rows that go with row i.
Cascade(i) == {i} \cup {k \in Ids : row[k].table \in Cascading /\ row[k].of = i}

\* A reference that neither cascades nor becomes NULL refuses the DELETE.
Restricts(i) ==
    \E k \in Ids : /\ Exists(k) /\ row[k].table \notin Cascading \cup Nulling
                   /\ i \in {row[k].of, row[k].to}

Without(gone) ==
    [k \in Ids |-> IF k \in gone THEN NoRow
                   ELSE IF Exists(k) /\ row[k].table \in Nulling /\ row[k].of \in gone
                        THEN [row[k] EXCEPT !.of = 0] ELSE row[k]]

-----------------------------------------------------------------------------
(* Requests, whose handlers are below.  A request that finds nothing, or   *)
(* whose statement fails, is answered with an error.                       *)

Answered(p) == client' = [client EXCEPT ![p] = Closed]

\* The client shows the rows listed and opens the form of one.
Opens(p, listed) ==
    /\ client[p].at = "closed"
    /\ \E i \in listed :
          client' = [client EXCEPT ![p] = [at |-> "open", id |-> i, read |-> row[i]]]
    /\ UNCHANGED <<row, nextRow, ghosts>>

OpenOn(p, t) == client[p].at = "open" /\ client[p].read.table = t
At(p, what, t) == client[p].at = what /\ client[p].form.table = t

Insert(p, r) ==
    /\ IF nextRow \in Ids /\ Fits(r)
       THEN /\ row' = [row EXCEPT ![nextRow] = r]
            /\ given' = [given EXCEPT ![nextRow] = r]
            /\ nextRow' = nextRow + 1
       ELSE UNCHANGED <<row, given, nextRow>>
    /\ Answered(p)

Sending == edits < MaxEdits /\ edits' = edits + 1

\* A form to insert is filled in.
Filled(t, of, to, who, by, status) ==
    Row(t, [of |-> of, to |-> to, who |-> who, by |-> by, status |-> status, text |-> edits + 1])

\* A handler that inserts at once ...
CreatesNow(p, r) ==
    client[p].at = "closed" /\ Sending /\ Insert(p, r) /\ UNCHANGED clashed

\* ... and one that looks for the row referred to first.
Creates(p, r, found) ==
    \/ /\ client[p].at = "closed" /\ Sending
       /\ client' = [client EXCEPT ![p] = IF found THEN [at |-> "create", form |-> r] ELSE Closed]
       /\ UNCHANGED <<row, nextRow, given, clashed>>
    \/ /\ At(p, "create", r.table)
       /\ Insert(p, client[p].form) /\ UNCHANGED <<edits, clashed>>

\* The form with one field changed.
Values(t, c) ==
    IF c = "status" THEN States(t)
    ELSE IF c = "who" THEN Employees \cup {None} ELSE {edits + 1}
Changed(p, t, c, v) == [client[p].read EXCEPT ![c] = v]

\* A row with one field given; of a status that is noted, the time is.
Edited(r, c, v) ==
    [r EXCEPT ![c] = v,
              !.stamped = IF c = "status" /\ v \in Stamped THEN @ \cup {v} ELSE @]

\* UPDATE ... WHERE id = i: nothing happens if there is no such row.
Update(p, i, new, c, v) ==
    /\ IF Exists(i)
       THEN /\ row' = [row EXCEPT ![i] = new]
            /\ given' = [given EXCEPT ![i] = Edited(@, c, v)]
            /\ clashed' = IF \E k \in Fields : row[i][k] # client[p].read[k]
                          THEN clashed \cup {i} ELSE clashed
       ELSE UNCHANGED <<row, given, clashed>>
    /\ Answered(p)
    /\ UNCHANGED nextRow

UpdatesNow(p, t, fields, Statement(_, _)) ==
    /\ OpenOn(p, t) /\ Sending
    /\ \E c \in fields : \E v \in Values(t, c) :
          LET i == client[p].id
          IN  Update(p, i, IF Exists(i) THEN Statement(i, Changed(p, t, c, v)) ELSE NoRow, c, v)

Updates(p, t, fields, found(_), Statement(_, _)) ==
    \/ /\ OpenOn(p, t) /\ Sending
       /\ \E c \in fields : \E v \in Values(t, c) :
             client' = [client EXCEPT ![p] =
                IF found(@) THEN [at |-> "update", id |-> @.id, read |-> @.read,
                                     form |-> Changed(p, t, c, v), field |-> c]
                ELSE Closed]
       /\ UNCHANGED <<row, nextRow, given, clashed>>
    \/ /\ At(p, "update", t)
       /\ LET i == client[p].id
              f == client[p].form
              c == client[p].field
          IN  Update(p, i, IF Exists(i) THEN Statement(i, f) ELSE NoRow, c, f[c])
       /\ UNCHANGED edits

Delete(p, i) ==
    /\ row' = IF Restricts(i) THEN row ELSE Without(Cascade(i))
    /\ Answered(p)
    /\ UNCHANGED <<nextRow, ghosts>>

DeletesNow(p, t) == OpenOn(p, t) /\ Delete(p, client[p].id)

Deletes(p, t, found(_)) ==
    \/ /\ OpenOn(p, t)
       /\ client' = [client EXCEPT ![p] =
             IF found(@) THEN [at |-> "delete", id |-> @.id, form |-> @.read] ELSE Closed]
       /\ UNCHANGED <<row, nextRow, ghosts>>
    \/ At(p, "delete", t) /\ Delete(p, client[p].id)

\* DELETE handlers of the tables whose rows stay and are listed no more.
Retires(p, t, found(_)) ==
    \/ /\ OpenOn(p, t)
       /\ client' = [client EXCEPT ![p] =
             IF found(@) THEN [at |-> "delete", id |-> @.id, form |-> @.read] ELSE Closed]
       /\ UNCHANGED <<row, nextRow, ghosts>>
    \/ /\ At(p, "delete", t)
       /\ row' = [row EXCEPT ![client[p].id].active = FALSE]
       /\ given' = [given EXCEPT ![client[p].id].active = FALSE]
       /\ Answered(p)
       /\ UNCHANGED <<nextRow, edits, clashed>>

\* A statement fails, or the client goes away.
Fails(p) == client[p].at # "closed" /\ Answered(p) /\ UNCHANGED <<row, nextRow, ghosts>>

\* INSERT ... ON CONFLICT DO UPDATE, at once.
Upsert(p, r, Statement(_, _)) ==
    /\ Sending
    /\ LET old == Conflicts(r)
       IN  IF old = {} \/ ~RefersWell(r) THEN Insert(p, r)
           ELSE \E i \in old : /\ row' = [row EXCEPT ![i] = Statement(i, r)]
                               /\ given' = [given EXCEPT ![i] = r]
                               /\ Answered(p)
                               /\ UNCHANGED nextRow
    /\ UNCHANGED clashed

People == Employees \cup {None}

-----------------------------------------------------------------------------
(* Reviews                                                                 *)

ListReviewCycles == In("review_cycles")
GetReviewCycle(c) == row[c].table = "review_cycles"
VerifyReviewCycleTenant(c) == row[c].table = "review_cycles"
ListReviewsByCycle(c) == {i \in In("performance_reviews") : row[i].of = c}
GetReview(i) == row[i].table = "performance_reviews"

CreateReviewCycle(status) == Filled("review_cycles", 0, 0, None, None, status)
CreateReview(c, e, reviewer) == Filled("performance_reviews", c, 0, e, reviewer, "pending")

UpdateReviewCycle(i, f) == [row[i] EXCEPT !.text = f.text, !.status = f.status]
\* A mutation: only what the manager fills in is written.
UpdateManagersPart(i, f) == [row[i] EXCEPT !.status = f.status, !.text = f.text]
\* A mutation: the time of the submission is not noted.
UpdateUnstamped(i, f) ==
    [row[i] EXCEPT !.status = f.status, !.self = f.self, !.text = f.text]
UpdateReview(i, f) ==
    [row[i] EXCEPT !.status = f.status, !.self = f.self, !.text = f.text,
                   !.stamped = @ \cup ({f.status} \cap {"submitted", "acknowledged"})]

\* handleListReviewCycles, handleListReviewsByCycle.
ListReviews(p) ==
    \/ Opens(p, ListReviewCycles)
    \/ \E c \in Ids : GetReviewCycle(c) /\ Opens(p, ListReviewsByCycle(c))

CreateCycle(p) == \E s \in States("review_cycles") : CreatesNow(p, CreateReviewCycle(s))
UpdateCycle(p) == UpdatesNow(p, "review_cycles", {"text", "status"}, UpdateReviewCycle)
DeleteCycle(p) == DeletesNow(p, "review_cycles")

AddReview(p) ==
    \E c \in Ids, e \in Employees :
        Creates(p, CreateReview(c, e, None), GetReviewCycle(c))
\* handleUpdateReview: the review is read, then its cycle, then written; the
\* two reads are one step, as only the review can go away between them.
FoundReview(c) == GetReview(c.id) /\ VerifyReviewCycleTenant(row[c.id].of)
SaveReview(p) ==
    Updates(p, "performance_reviews", {"status", "self", "text"}, FoundReview, UpdateReview)

Reviews(p) ==
    ListReviews(p) \/ CreateCycle(p) \/ UpdateCycle(p) \/ DeleteCycle(p) \/ AddReview(p) \/ SaveReview(p)

-----------------------------------------------------------------------------
(* Training                                                                *)

ListTrainingPrograms == In("training_programs")
ListEnrollments(c) == {i \in In("training_enrollments") : row[i].of = c}
ListEmployeeEnrollments(e) == {i \in In("training_enrollments") : row[i].who = e}
VerifyTrainingProgramTenant(c) == row[c.id].table = "training_programs"

CreateTrainingProgram == Filled("training_programs", 0, 0, None, None, "active")
CreateEnrollment(c, e) == Filled("training_enrollments", c, 0, e, None, "enrolled")

UpdateTrainingProgram(i, f) == [row[i] EXCEPT !.text = f.text, !.status = f.status]
\* A mutation: the time of completion goes when the status does.
UpdateEnrollmentAnew(i, f) ==
    [row[i] EXCEPT !.status = f.status, !.text = f.text,
                   !.stamped = {f.status} \cap {"completed"}]
UpdateEnrollment(i, f) ==
    [row[i] EXCEPT !.status = f.status, !.text = f.text,
                   !.stamped = @ \cup ({f.status} \cap {"completed"})]

ListTraining(p) ==
    \/ Opens(p, ListTrainingPrograms)
    \/ \E c \in Ids : Opens(p, ListEnrollments(c))
AddProgram(p) == CreatesNow(p, CreateTrainingProgram)
SaveProgram(p) ==
    Updates(p, "training_programs", {"text", "status"}, VerifyTrainingProgramTenant,
            UpdateTrainingProgram)
DeleteProgram(p) == Deletes(p, "training_programs", VerifyTrainingProgramTenant)
Enroll(p) ==
    \E c \in Ids, e \in Employees : CreatesNow(p, CreateEnrollment(c, e))
SaveEnrollment(p) ==
    UpdatesNow(p, "training_enrollments", {"status", "text"}, UpdateEnrollment)
DeleteEnrollment(p) == DeletesNow(p, "training_enrollments")

Training(p) ==
    \/ ListTraining(p) \/ AddProgram(p) \/ SaveProgram(p) \/ DeleteProgram(p)
    \/ Enroll(p) \/ SaveEnrollment(p) \/ DeleteEnrollment(p)

-----------------------------------------------------------------------------
(* Career levels and paths                                                 *)

ListCareerLevels == In("career_levels")
ListCareerPaths == In("career_paths")
VerifyCareerLevelTenant(c) == row[c.id].table = "career_levels"

CreateCareerLevel == Filled("career_levels", 0, 0, None, None, "")
UpdateCareerLevel(i, f) == [row[i] EXCEPT !.text = f.text]
NewCareerPath(e, current, target) == Filled("career_paths", current, target, e, None, "")
\* A mutation: the level reached is written, the next one is not.
UpsertCurrentLevel(i, f) == [row[i] EXCEPT !.of = f.of, !.text = f.text]
UpsertCareerPath(i, f) == [row[i] EXCEPT !.of = f.of, !.to = f.to, !.text = f.text]

ListCareers(p) == Opens(p, ListCareerLevels) \/ Opens(p, ListCareerPaths)
AddLevel(p) == CreatesNow(p, CreateCareerLevel)
SaveLevel(p) ==
    Updates(p, "career_levels", {"text"}, VerifyCareerLevelTenant, UpdateCareerLevel)
DeleteLevel(p) == Deletes(p, "career_levels", VerifyCareerLevelTenant)
SavePath(p) ==
    \E e \in Employees, current, target \in Ids \cup {0} :
        /\ client[p].at = "closed"
        /\ Upsert(p, NewCareerPath(e, current, target), UpsertCareerPath)
DeletePath(p) == DeletesNow(p, "career_paths")

Careers(p) ==
    ListCareers(p) \/ AddLevel(p) \/ SaveLevel(p) \/ DeleteLevel(p) \/ SavePath(p) \/ DeletePath(p)

-----------------------------------------------------------------------------
(* Skills                                                                  *)

ListSkills == In("skills")
ListEmployeeSkills(e) == {i \in In("employee_skills") : row[i].who = e}
CreateSkill == Filled("skills", 0, 0, None, None, "")
UpdateSkill(i, f) == [row[i] EXCEPT !.text = f.text]
NewEmployeeSkill(s, e) == Filled("employee_skills", s, 0, e, None, "")
SetEmployeeSkill(i, f) == [row[i] EXCEPT !.text = f.text]

ListTheSkills(p) ==
    Opens(p, ListSkills) \/ \E e \in Employees : Opens(p, ListEmployeeSkills(e))
AddSkill(p) == CreatesNow(p, CreateSkill)
SaveSkill(p) == UpdatesNow(p, "skills", {"text"}, UpdateSkill)
DeleteSkill(p) == DeletesNow(p, "skills")
SetSkill(p) ==
    \E s \in Ids, e \in Employees :
        client[p].at = "closed" /\ Upsert(p, NewEmployeeSkill(s, e), SetEmployeeSkill)
DeleteEmployeeSkill(p) ==
    /\ OpenOn(p, "employee_skills")
    /\ \E i \in ListEmployeeSkills(client[p].read.who) :
          row[i].of = client[p].read.of /\ Delete(p, i)

Skills(p) ==
    ListTheSkills(p) \/ AddSkill(p) \/ SaveSkill(p) \/ DeleteSkill(p) \/ SetSkill(p) \/ DeleteEmployeeSkill(p)

-----------------------------------------------------------------------------
(* Projects and tasks                                                      *)

ListProjects == In("projects")
ListBlockedProjects == {i \in ListProjects : row[i].status = "blocked"}
VerifyProjectTenant(c) == row[c.id].table = "projects"
CreateProject(e, status) == Filled("projects", 0, 0, e, None, status)
UpdateProject(i, f) ==
    [row[i] EXCEPT !.text = f.text, !.status = f.status, !.who = f.who]

ListTasks == In("tasks")
\* Any task with a due date may be overdue.
ListOverdueTasks == {i \in ListTasks : row[i].status \notin {"done", "cancelled"}}
VerifyTaskTenant(c) == row[c.id].table = "tasks"
CreateTask(project, e, status) == Filled("tasks", project, 0, e, None, status)
\* A mutation: the owner is not written.
UpdateTaskText(i, f) == [row[i] EXCEPT !.text = f.text, !.status = f.status]
UpdateTask(i, f) == [row[i] EXCEPT !.text = f.text, !.status = f.status, !.who = f.who]

ListWork(p) ==
    \/ Opens(p, ListProjects) \/ Opens(p, ListBlockedProjects)
    \/ Opens(p, ListTasks) \/ Opens(p, ListOverdueTasks)
AddProject(p) ==
    \E e \in People, s \in States("projects") : CreatesNow(p, CreateProject(e, s))
SaveProject(p) ==
    Updates(p, "projects", {"text", "status", "who"}, VerifyProjectTenant, UpdateProject)
DeleteProject(p) == Deletes(p, "projects", VerifyProjectTenant)
AddTask(p) ==
    \E project \in Ids \cup {0}, e \in People, s \in States("tasks") :
        CreatesNow(p, CreateTask(project, e, s))
SaveTask(p) == Updates(p, "tasks", {"text", "status", "who"}, VerifyTaskTenant, UpdateTask)
DeleteTask(p) == Deletes(p, "tasks", VerifyTaskTenant)

Work(p) ==
    \/ ListWork(p) \/ AddProject(p) \/ SaveProject(p) \/ DeleteProject(p)
    \/ AddTask(p) \/ SaveTask(p) \/ DeleteTask(p)

-----------------------------------------------------------------------------
(* Meetings and their action items                                         *)

ListMeetings == In("meetings")
ListMeetingsByEmployee(e) == {i \in ListMeetings : row[i].who = e}
GetMeeting(i) == row[i].table = "meetings"
CreateMeeting(e, manager) == Filled("meetings", 0, 0, e, manager, "")
UpdateMeeting(i, f) == [row[i] EXCEPT !.text = f.text]

ListActionItems(m) == {i \in In("meeting_action_items") : row[i].of = m}
ListOpenActionItemsByTenant ==
    {i \in In("meeting_action_items") : GetMeeting(row[i].of) /\ row[i].status # "done"}
CreateActionItem(m, e) == Filled("meeting_action_items", m, 0, e, None, "open")
UpdateActionItem(i, f) ==
    [row[i] EXCEPT !.text = f.text, !.status = f.status, !.who = f.who]

ListTheMeetings(p) ==
    \/ Opens(p, ListMeetings)
    \/ \E e \in Employees : Opens(p, ListMeetingsByEmployee(e))
ListItems(p) == \E m \in Ids : GetMeeting(m) /\ Opens(p, ListActionItems(m))
ListOpenItems(p) == Opens(p, ListOpenActionItemsByTenant)
AddMeeting(p) ==
    \E e \in Employees, m \in People : CreatesNow(p, CreateMeeting(e, m))
SaveMeeting(p) == UpdatesNow(p, "meetings", {"text"}, UpdateMeeting)
DeleteMeeting(p) == DeletesNow(p, "meetings")
AddItem(p) ==
    \E m \in Ids, e \in People : Creates(p, CreateActionItem(m, e), GetMeeting(m))
SaveItem(p) ==
    UpdatesNow(p, "meeting_action_items", {"text", "status", "who"}, UpdateActionItem)
DeleteItem(p) == DeletesNow(p, "meeting_action_items")

Meetings(p) ==
    \/ ListTheMeetings(p) \/ ListItems(p) \/ ListOpenItems(p) \/ AddMeeting(p) \/ SaveMeeting(p)
    \/ DeleteMeeting(p) \/ AddItem(p) \/ SaveItem(p) \/ DeleteItem(p)

-----------------------------------------------------------------------------
(* Workflows and reporting lines                                           *)

ListWorkflows == {i \in In("workflows") : row[i].active}
VerifyWorkflowTenant(c) == row[c.id].table = "workflows"
CreateWorkflow == Filled("workflows", 0, 0, None, None, "")
\* A mutation: a saved form makes the workflow active again.
UpdateWorkflowWhole(i, f) == f
UpdateWorkflow(i, f) == [row[i] EXCEPT !.text = f.text]

OpenWorkflow(p) == Opens(p, ListWorkflows)
AddWorkflow(p) == CreatesNow(p, CreateWorkflow)
SaveWorkflow(p) == Updates(p, "workflows", {"text"}, VerifyWorkflowTenant, UpdateWorkflow)

DeleteWorkflow(p) == Retires(p, "workflows", VerifyWorkflowTenant)

Workflows(p) ==
    OpenWorkflow(p) \/ AddWorkflow(p) \/ SaveWorkflow(p) \/ DeleteWorkflow(p)

ListReportingLines == In("reporting_lines")
GetDirectReports(m) == {i \in ListReportingLines : row[i].by = m /\ row[i].status = "direct"}
VerifyReportingLineTenant(c) == row[c.id].table = "reporting_lines"
CreateReportingLine(manager, report, type) ==
    Filled("reporting_lines", 0, 0, report, manager, type)

ListLines(p) ==
    \/ Opens(p, ListReportingLines)
    \/ \E m \in Employees : Opens(p, GetDirectReports(m))
AddLine(p) ==
    \E m, e \in Employees, type \in States("reporting_lines") :
        CreatesNow(p, CreateReportingLine(m, e, type))
DeleteLine(p) == Deletes(p, "reporting_lines", VerifyReportingLineTenant)

Lines(p) == ListLines(p) \/ AddLine(p) \/ DeleteLine(p)

-----------------------------------------------------------------------------
(* Goals and key results                                                   *)

ListGoalsByCycle == In("goals")
GetGoal(g) == row[g].table = "goals"
CreateGoal(owner, status) == Filled("goals", 0, 0, owner, None, status)
UpdateGoal(i, f) ==
    [row[i] EXCEPT !.text = f.text, !.status = f.status, !.who = f.who]

GetKeyResultsByGoal(g) == {i \in In("key_results") : row[i].of = g}
CreateKeyResult(g) == Filled("key_results", g, 0, None, None, "")
UpdateKeyResult(i, f) == [row[i] EXCEPT !.text = f.text]

\* verifyGoalTenant: of a key result only the goal in the path is looked for.
VerifyGoalTenant(c) == GetGoal(c.read.of)

ListGoals(p) ==
    Opens(p, ListGoalsByCycle) \/ \E g \in ListGoalsByCycle : Opens(p, GetKeyResultsByGoal(g))
AddGoal(p) == \E e \in People, s \in States("goals") : CreatesNow(p, CreateGoal(e, s))
SaveGoal(p) == UpdatesNow(p, "goals", {"text", "status", "who"}, UpdateGoal)
DeleteGoal(p) == DeletesNow(p, "goals")
AddKeyResult(p) == \E g \in Ids : Creates(p, CreateKeyResult(g), GetGoal(g))
SaveKeyResult(p) == Updates(p, "key_results", {"text"}, VerifyGoalTenant, UpdateKeyResult)
DeleteKeyResult(p) == Deletes(p, "key_results", VerifyGoalTenant)

TheGoals(p) ==
    \/ ListGoals(p) \/ AddGoal(p) \/ SaveGoal(p) \/ DeleteGoal(p)
    \/ AddKeyResult(p) \/ SaveKeyResult(p) \/ DeleteKeyResult(p)

-----------------------------------------------------------------------------
(* Metrics and incentive rules.  The name of a metric is in "self".        *)

ListMetrics == {i \in In("metrics") : row[i].active}
VerifyMetricTenant(c) == row[c.id].table = "metrics"
CreateMetric(name, owner) == [Filled("metrics", 0, 0, owner, None, "") EXCEPT !.self = name]
UpdateMetric(i, f) == [row[i] EXCEPT !.text = f.text, !.who = f.who]

OpenMetric(p) == Opens(p, ListMetrics)
AddMetric(p) == \E n \in {1, 2}, e \in People : CreatesNow(p, CreateMetric(n, e))
SaveMetric(p) == Updates(p, "metrics", {"text", "who"}, VerifyMetricTenant, UpdateMetric)
DeleteMetric(p) == Retires(p, "metrics", VerifyMetricTenant)

ListIncentiveRules == {i \in In("incentive_rules") : row[i].active}
VerifyIncentiveRuleTenant(c) == row[c.id].table = "incentive_rules"
CreateIncentiveRule == Filled("incentive_rules", 0, 0, None, None, "")
UpdateIncentiveRule(i, f) == [row[i] EXCEPT !.text = f.text]

OpenRule(p) == Opens(p, ListIncentiveRules)
AddRule(p) == CreatesNow(p, CreateIncentiveRule)
SaveRule(p) ==
    Updates(p, "incentive_rules", {"text"}, VerifyIncentiveRuleTenant, UpdateIncentiveRule)
DeleteRule(p) == Retires(p, "incentive_rules", VerifyIncentiveRuleTenant)

Measures(p) ==
    \/ OpenMetric(p) \/ AddMetric(p) \/ SaveMetric(p) \/ DeleteMetric(p)
    \/ OpenRule(p) \/ AddRule(p) \/ SaveRule(p) \/ DeleteRule(p)

-----------------------------------------------------------------------------
(* The specification                                                       *)

Next ==
    \E p \in Clients :
        \/ Reviews(p) \/ Training(p) \/ Careers(p) \/ Skills(p) \/ Work(p) \/ Meetings(p)
        \/ Workflows(p) \/ Lines(p) \/ TheGoals(p) \/ Measures(p) \/ Fails(p)

Spec == Init /\ [][Next]_vars

-----------------------------------------------------------------------------
(* Properties                                                              *)

\* Every row is of a known table and every client at a known point.
TypeOK ==
    /\ \A i \in Ids :
          \/ row[i] = NoRow
          \/ /\ i < nextRow
             /\ row[i].of \in Ids \cup {0} /\ row[i].to \in Ids \cup {0}
             /\ row[i].who \in People /\ row[i].by \in People
             /\ row[i].status \in States(row[i].table)
             /\ row[i].text \in 0 .. MaxEdits /\ row[i].stamped \subseteq Stamped
    /\ nextRow \in 1 .. MaxRows + 1 /\ edits \in 0 .. MaxEdits
    /\ \A p \in Clients : client[p].at \in {"closed", "open", "create", "update", "delete"}

\* What was last given to a field of a row is what the row holds, whichever
\* requests wrote other fields of the row since, as long as every form saved
\* showed the row as it was: an UPDATE writes every column of its form.  The
\* times of submission, acknowledgement and completion are those of statuses
\* the row was given, and a workflow deleted stays deleted.
EditsKept ==
    \A i \in Ids \ clashed :
        Exists(i) => \A k \in Fields \cup {"to", "active"} : row[i][k] = given[i][k]

\* A row refers to rows that exist, whatever is deleted between the check a
\* handler makes and its INSERT, and a reference is the one given or, after
\* its row was deleted, NULL.  No two rows have one key: one review per cycle
\* and employee, one enrollment per program and employee, one path per
\* employee, one level per skill and employee, one line per pair, one metric
\* per name.
ReferencesHold ==
    \A i \in Ids : Exists(i) =>
        /\ RefersWell(row[i])
        /\ row[i].of = given[i].of \/ (row[i].of = 0 /\ ~Exists(given[i].of))
        /\ Key(row[i].table) # {"nothing"} => Conflicts(row[i]) = {i}

\* What the frontend takes for granted: a form is saved over the row it shows.
NeverOverwritten == clashed = {}

=============================================================================
