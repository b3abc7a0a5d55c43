------------------------------ MODULE Dashboard ------------------------------
(***************************************************************************)
(* The dashboard in one browser tab and the API it reads: which workspace  *)
(* and project are selected, what is shown of the project, the requests    *)
(* under way, the timer that polls while a crawl or a verification runs,   *)
(* and the server's side as far as the page shows it.                      *)
(*                                                                         *)
(* A request is sent, each of its reads finds the database at a moment of  *)
(* its own, and the answer arrives later, in any order.  The page runs to  *)
(* completion between two awaits.  A state set there is rendered, and its  *)
(* effects run, in a step of their own; clicks come between renders, and   *)
(* what they set is rendered at once.                                      *)
(***************************************************************************)
EXTENDS Naturals, FiniteSets

CONSTANTS
    Workspaces, Projects,   \* those that exist or may be created
    Home,          \* Home[p]: the workspace of project p
    Founded,       \* workspaces and projects that exist in the beginning
    Connections,   \* bound: requests under way
    MaxRuns,       \* bound: crawls of one project
    MaxClicks,     \* bound: what the user does
    MaxFailures,   \* bound: requests that fail
    Patient,       \* assumed of the user: no workspace is created while the list loads
    None           \* null

ASSUME DashboardAssumption ==
    /\ Home \in [Projects -> Workspaces]
    /\ Founded \subseteq Workspaces \cup Projects
    /\ \A p \in Projects \cap Founded : Home[p] \in Founded
    /\ None \notin Workspaces \cup Projects \cup Nat \cup [challenge : BOOLEAN, valid : BOOLEAN]
    /\ {MaxRuns, MaxClicks, MaxFailures} \subseteq Nat
    /\ Patient \in BOOLEAN

VARIABLES
    exists,        \* the workspaces and projects in the database
    srv,           \* srv[p]: what the server has of project p
    page,          \* the state of the component, and its timer
    rendered,      \* the selection at the last render, on which effects depend
    call,          \* call[c]: the request on connection c
    op,            \* the operation that keeps the buttons disabled (busy)
    left           \* clicks and failures still to come

vars == <<exists, srv, page, rendered, call, op, left>>

\* Of a project: its last crawl and whether it is active, the one last published,
\* its schedule, its pending challenge and whether its verification is valid.
FreshProject == [run |-> 0, active |-> FALSE, published |-> 0, schedule |-> FALSE,
                 challenge |-> FALSE, valid |-> FALSE]

\* The project as the lists give it.
Summary(p) == [challenge |-> srv[p].challenge, valid |-> srv[p].valid]

EmptyPage == [workspaces |-> {}, ws |-> None, p |-> None, overview |-> None,
              schedule |-> None, timer |-> None, known |-> [p \in Projects |-> None]]

\* p is the project asked for or preferred, ws the workspace it is asked for in.
FreeCall == [kind |-> "free", live |-> FALSE, ws |-> None, p |-> None, row |-> None,
             run |-> None, schedule |-> None, summary |-> None, list |-> None]

Request(kind, ws, p) == [FreeCall EXCEPT !.kind = kind, !.live = TRUE, !.ws = ws, !.p = p]

\* stage: the request of the operation is sent, has taken effect, or the page loads on
\* connection conn what came of it.  current: selection = selectionVersion.current.
NoOp == [kind |-> "none", stage |-> "none", target |-> None, conn |-> None,
         current |-> FALSE, on |-> FALSE]

\* The calls and one more, on some free connection.
With(calls, request) ==
    LET c == CHOOSE d \in Connections : calls[d] = FreeCall
    IN  [calls EXCEPT ![c] = request]

Init ==
    /\ exists = Founded
    /\ srv = [p \in Projects |-> [FreshProject EXCEPT !.valid = (p \in Founded)]]
    /\ page = EmptyPage
    /\ rendered = [ws |-> None, p |-> None]
    /\ call = With([c \in Connections |-> FreeCall], Request("workspaces", None, None))
    /\ op = NoOp
    /\ left = [clicks |-> MaxClicks, failures |-> MaxFailures]

Selection == [ws |-> page.ws, p |-> page.p]

Is(c, kind) == call[c].kind = kind

Free == {c \in Connections : Is(c, "free")}

\* Mutation: the counter does not grow.
StillCounting(calls, kind) == calls

\* A counter grows: no call of this kind is the latest any more, what it brings is
\* left out.
Outdated(calls, kind) ==
    [c \in Connections |-> IF calls[c].kind = kind THEN [FreeCall EXCEPT !.kind = kind]
                           ELSE calls[c]]

\* clearProjectData, of the page and of the operation; the calls for data are outdated.
Cleared(state) == [state EXCEPT !.overview = None, !.schedule = None, !.timer = None]
Disowned(o)    == [o EXCEPT !.current = FALSE]

-----------------------------------------------------------------------------
(* Loading. *)

\* Mutation: the timer of the last answer goes on.
LoadingKeepsTimer(state) == state

\* loadProjectData clears the timer when it starts.
Loading(state) == [state EXCEPT !.timer = None]

\* loadProjectData, up to its await.
Load(ws, p) ==
    /\ Free # {}
    /\ call' = With(Outdated(call, "data"), Request("data", ws, p))
    /\ page' = Loading(page)

\* A render after the selection became ws and p: the cleanups of the effects, whose
\* dependencies changed, then the effects.
Effects(calls, ws, p) ==
    LET moved    == rendered.ws # ws
        outdated == Outdated(IF moved THEN Outdated(calls, "projects") ELSE calls, "data")
        listing  == IF moved THEN With(outdated, Request("projects", ws, None)) ELSE outdated
    IN  IF p # None THEN With(listing, Request("data", ws, p)) ELSE listing

Render ==
    /\ rendered # Selection
    /\ rendered' = Selection
    /\ Cardinality(Free) >= 2
    /\ call' = Effects(call, page.ws, page.p)
    /\ page' = [page EXCEPT !.timer = None]
    /\ UNCHANGED <<exists, srv, op, left>>

\* The poll timer fires.
Poll ==
    /\ page.timer # None
    /\ Load(page.timer.ws, page.timer.p)
    /\ UNCHANGED <<exists, srv, rendered, op, left>>

\* The project is looked up in the workspace; otherwise the answers are 404.
Found(c) == Home[call[c].p] = call[c].ws

\* request === dataRequest.current, or projectRequest.current.
Latest(c) == call[c].live

\* The reads of the server.  getOverview reads the project with its latest published
\* run before the active run.  The schedule and the project are requests of their own,
\* here made at once: nothing below relates the two.
ReadRow(c) ==
    /\ Is(c, "data") /\ Latest(c) /\ Found(c) /\ call[c].row = None
    /\ call' = [call EXCEPT ![c].row = srv[call[c].p].published]
    /\ UNCHANGED <<exists, srv, page, rendered, op, left>>

ReadRun(c) ==
    /\ Is(c, "data") /\ call[c].row # None /\ call[c].run = None
    /\ LET project == srv[call[c].p]
       IN  call' = [call EXCEPT ![c].run = IF project.active THEN project.run ELSE 0]
    /\ UNCHANGED <<exists, srv, page, rendered, op, left>>

ReadRest(c) ==
    /\ Is(c, "data") /\ Latest(c) /\ Found(c) /\ call[c].summary = None
    /\ call' = [call EXCEPT ![c].schedule = srv[call[c].p].schedule,
                           ![c].summary = Summary(call[c].p)]
    /\ UNCHANGED <<exists, srv, page, rendered, op, left>>

ReadList(c) ==
    /\ Latest(c) /\ call[c].list = None
    /\ \/ /\ Is(c, "projects")
          /\ call' = [call EXCEPT ![c].list =
                 [p \in Projects |-> IF p \in exists /\ Home[p] = call[c].ws THEN Summary(p)
                                    ELSE None]]
       \/ /\ Is(c, "workspaces")
          /\ call' = [call EXCEPT ![c].list = exists \cap Workspaces]
    /\ UNCHANGED <<exists, srv, page, rendered, op, left>>

\* The operation was waiting for this call.
Finished(c) == IF op.stage = "load" /\ op.conn = c THEN NoOp ELSE op

\* What the timer will ask for.
Asked(got) == [ws |-> got.ws, p |-> got.p]

\* Mutation: only a crawl is followed.
FollowsCrawls(got) == got.run # 0

\* What has not come to an end is asked for again.
Unfinished(got) == got.run # 0 \/ got.summary.challenge

\* All answers of loadProjectData are there.
DataAnswer(c) ==
    /\ Is(c, "data") /\ Latest(c) /\ None \notin {call[c].run, call[c].summary}
    /\ call' = [call EXCEPT ![c] = FreeCall]
    /\ LET got == call[c]
       IN  page' = [page EXCEPT
               !.overview = [p |-> got.p, report |-> got.row, run |-> got.run],
               !.schedule = got.schedule,
               !.known[got.p] = IF @ = None THEN None ELSE got.summary,
               !.timer = IF Unfinished(got) THEN Asked(got) ELSE None]
    /\ op' = Finished(c)
    /\ UNCHANGED <<exists, srv, rendered, left>>

\* An answer or an error that does not count any more.
Ignored(c) ==
    /\ call[c] # FreeCall /\ ~Latest(c)
    /\ call' = [call EXCEPT ![c] = FreeCall]
    /\ op' = Finished(c)
    /\ UNCHANGED <<exists, srv, page, rendered, left>>

\* Mutation: a failure is final.
GivesUp(got) == None

Retried(got) == Asked(got)

\* One of them fails: the page says so and tries again.
DataError(c) ==
    /\ Is(c, "data") /\ Latest(c)
    /\ \/ ~Found(c) /\ left' = left
       \/ left.failures > 0 /\ left' = [left EXCEPT !.failures = @ - 1]
    /\ call' = [call EXCEPT ![c] = FreeCall]
    /\ page' = [page EXCEPT !.timer = Retried(call[c])]
    /\ op' = Finished(c)
    /\ UNCHANGED <<exists, srv, rendered>>

\* What a list selects: the preferred one, else the one of the last visit, which is the
\* one selected, if there is one, and any otherwise; else the first, which may be any.
Choices(preferred, selected, listed) ==
    IF preferred \in listed THEN {preferred} ELSE IF selected \in listed THEN {selected} ELSE listed

\* loadProjects; without projects the page is cleared.
ListAnswer(c) ==
    /\ Is(c, "projects") /\ Latest(c) /\ call[c].list # None
    /\ LET list   == call[c].list
           listed == {p \in Projects : list[p] # None}
           freed  == [call EXCEPT ![c] = FreeCall]
       IN  \/ /\ listed = {}
              /\ call' = Outdated(freed, "data")
              /\ page' = [Cleared(page) EXCEPT !.known = list, !.p = None]
              /\ op' = Disowned(Finished(c))
           \/ /\ call' = freed
              /\ \E p \in Choices(call[c].p, page.p, listed) :
                    page' = [page EXCEPT !.known = list, !.p = p]
              /\ op' = Finished(c)
    /\ UNCHANGED <<exists, srv, rendered, left>>

\* loadWorkspaces, whose answers all count.  A workspace that was just created is
\* selected instead, before anything is rendered.
WorkspacesAnswer(c) ==
    /\ Is(c, "workspaces") /\ call[c].list # None
    /\ LET freed   == [call EXCEPT ![c] = FreeCall]
           listed  == call[c].list
           created == op.stage = "load" /\ op.conn = c
       IN  \/ /\ ~created
              /\ call' = freed
              /\ IF listed = {} THEN page' = page
                 ELSE \E ws \in Choices(None, page.ws, listed) :
                         page' = [page EXCEPT !.workspaces = listed, !.ws = ws]
           \/ /\ created
              /\ call' = Outdated(Outdated(freed, "projects"), "data")
              /\ page' = [Cleared(page) EXCEPT !.workspaces = listed, !.ws = op.target,
                                               !.p = None, !.known = EmptyPage.known]
    /\ op' = Finished(c)
    /\ UNCHANGED <<exists, srv, rendered, left>>

\* A list cannot be loaded; nothing asks for it again.
ListError(c) ==
    /\ Is(c, "projects") \/ Is(c, "workspaces")
    /\ Latest(c)
    /\ left.failures > 0
    /\ left' = [left EXCEPT !.failures = @ - 1]
    /\ call' = [call EXCEPT ![c] = FreeCall]
    /\ op' = Finished(c)
    /\ UNCHANGED <<exists, srv, page, rendered>>

-----------------------------------------------------------------------------
(* The user. *)

Click == /\ rendered = Selection
         /\ left.clicks > 0 /\ left' = [left EXCEPT !.clicks = @ - 1]
         /\ UNCHANGED <<exists, srv>>

\* What a click sets is rendered before the page goes on.
SelectWorkspace(ws) ==
    /\ Click /\ Free # {}
    /\ ws \in page.workspaces \ {page.ws}
    /\ page' = [Cleared(page) EXCEPT !.ws = ws, !.p = None, !.known = EmptyPage.known]
    /\ rendered' = [ws |-> ws, p |-> None]
    /\ call' = Effects(call, ws, None)
    /\ op' = Disowned(op)

SelectProject(p) ==
    /\ Click /\ Free # {}
    /\ page.known[p] # None /\ p # page.p
    /\ page' = [Cleared(page) EXCEPT !.p = p]
    /\ rendered' = [ws |-> page.ws, p |-> p]
    /\ call' = Effects(call, page.ws, p)
    /\ op' = Disowned(op)

Begin(kind, target) ==
    /\ Click
    /\ op.kind = "none"
    /\ op' = [NoOp EXCEPT !.kind = kind, !.stage = "sent", !.target = target, !.current = TRUE,
                          !.on = (page.schedule = FALSE)]
    /\ UNCHANGED <<page, rendered, call>>

\* The form for projects is there while none is known.
Operate ==
    \/ /\ Patient => \A c \in Connections : ~Is(c, "workspaces")
       /\ \E ws \in Workspaces \ exists : Begin("workspace", ws)
    \/ \E p \in Projects \ exists : /\ page.ws = Home[p] /\ page.known = EmptyPage.known
                                    /\ Begin("project", p)
    \/ /\ page.p # None /\ page.known[page.p] # None
       /\ LET known == page.known[page.p]
          IN  \/ ~known.valid /\ ~known.challenge /\ Begin("verification", page.p)
              \/ /\ known.valid /\ page.overview # None /\ page.overview.run = 0
                 /\ Begin("crawl", page.p)
              \/ /\ page.schedule # None /\ (page.schedule \/ known.valid)
                 /\ Begin("schedule", page.p)

-----------------------------------------------------------------------------
(* What an operation does on the server, and on the page when the answer comes. *)

\* Starting a crawl is refused while one is active.
TakesEffect ==
    /\ op.stage = "sent"
    /\ op.kind = "crawl" => ~srv[op.target].active /\ srv[op.target].run < MaxRuns
    /\ exists' = exists \cup {op.target}
    /\ srv' = CASE op.kind = "verification" -> [srv EXCEPT ![op.target].challenge = TRUE]
                [] op.kind = "crawl" -> [srv EXCEPT ![op.target].run = @ + 1,
                                                    ![op.target].active = TRUE]
                [] op.kind = "schedule" -> [srv EXCEPT ![op.target].schedule = op.on]
                [] OTHER -> srv
    /\ op' = [op EXCEPT !.stage = "served"]
    /\ UNCHANGED <<page, rendered, call, left>>

\* The operation waits for the call it makes.
Loads == [op EXCEPT !.stage = "load",
                    !.conn = CHOOSE c \in Connections : call[c] = FreeCall /\ call'[c] # FreeCall]

\* The page loads what an operation changed, unless the selection has changed since.
OpAnswer ==
    /\ op.stage = "served"
    /\ \/ /\ op.kind = "workspace" /\ Free # {}
          /\ call' = With(call, Request("workspaces", None, None))
          /\ page' = page /\ op' = Loads
       \/ /\ op.kind = "project" /\ op.current /\ Free # {}
          /\ call' = With(Outdated(call, "projects"),
                          Request("projects", Home[op.target], op.target))
          /\ page' = page /\ op' = Loads
       \/ /\ op.kind \in {"verification", "crawl"} /\ op.current
          /\ Load(Home[op.target], op.target)
          /\ op' = Loads
       \/ /\ op.kind = "schedule" /\ op.current
          /\ page' = [page EXCEPT !.schedule = op.on]
          /\ op' = NoOp /\ call' = call
       \/ /\ op.kind # "workspace" /\ ~op.current
          /\ op' = NoOp /\ UNCHANGED <<page, call>>
    /\ UNCHANGED <<exists, srv, rendered, left>>

\* The request fails, before it had its effect or after.
OpError ==
    /\ op.stage \in {"sent", "served"}
    /\ \/ left.failures > 0 /\ left' = [left EXCEPT !.failures = @ - 1]
       \/ /\ op.stage = "sent" /\ op.kind = "crawl"
          /\ srv[op.target].active \/ srv[op.target].run = MaxRuns
          /\ left' = left
    /\ op' = NoOp
    /\ UNCHANGED <<exists, srv, page, rendered, call>>

-----------------------------------------------------------------------------
(* What goes on at the server meanwhile: see CrawlTriggers, CrawlRun and Verification. *)

StartRun(p) ==
    /\ srv[p].schedule /\ srv[p].valid /\ ~srv[p].active /\ srv[p].run < MaxRuns
    /\ srv' = [srv EXCEPT ![p].run = @ + 1, ![p].active = TRUE]
    /\ UNCHANGED <<exists, page, rendered, call, op, left>>

EndRun(p) ==
    /\ srv[p].active
    /\ \E published \in {srv[p].published, srv[p].run} :
          srv' = [srv EXCEPT ![p].active = FALSE, ![p].published = published]
    /\ UNCHANGED <<exists, page, rendered, call, op, left>>

SettleCheck(p) ==
    /\ srv[p].challenge
    /\ \E valid \in BOOLEAN : srv' = [srv EXCEPT ![p].challenge = FALSE, ![p].valid = valid]
    /\ UNCHANGED <<exists, page, rendered, call, op, left>>

-----------------------------------------------------------------------------

Read(c)   == ReadRow(c) \/ ReadRun(c) \/ ReadRest(c) \/ ReadList(c)
Answer(c) == DataAnswer(c) \/ Ignored(c) \/ ListAnswer(c) \/ WorkspacesAnswer(c)
Finish(p) == EndRun(p) \/ SettleCheck(p)

Next ==
    \/ Render \/ Poll
    \/ \E c \in Connections : Read(c) \/ Answer(c) \/ DataError(c) \/ ListError(c)
    \/ \E ws \in Workspaces : SelectWorkspace(ws)
    \/ \E p \in Projects : SelectProject(p) \/ StartRun(p) \/ Finish(p)
    \/ Operate \/ TakesEffect \/ OpAnswer \/ OpError

\* The page renders and its timer fires; requests are answered or fail; crawls and
\* checks come to an end (CrawlRun!RunSettles, Verification!CheckSettles).
Fairness ==
    /\ WF_vars(Render) /\ WF_vars(Poll) /\ WF_vars(OpAnswer)
    /\ WF_vars(TakesEffect \/ OpError)
    /\ \A c \in Connections : WF_vars(Read(c)) /\ WF_vars(Answer(c))
    /\ \A p \in Projects : WF_vars(Finish(p))

Spec == Init /\ [][Next]_vars /\ Fairness

-----------------------------------------------------------------------------
(* What must hold. *)

TypeOK ==
    /\ page.ws \in Workspaces \cup {None} /\ page.p \in Projects \cup {None}
    /\ page.timer \in [ws : Workspaces, p : Projects] \cup {None}
    /\ page.schedule \in BOOLEAN \cup {None}
    /\ page.overview # None =>
          page.overview \in [p : Projects, report : 0..MaxRuns, run : 0..MaxRuns]

\* An answer is shown only under the project it was asked for, and the answers that
\* are shown of a project while it stays selected never go back in time, however the
\* answers of polls, operations and earlier selections overtake each other
\* (loadProjectData, clearProjectData, the cleanups of the effects).
ShownInOrder ==
    [][(page'.overview # page.overview /\ page'.overview # None) =>
          /\ page'.overview.p = rendered.p
          /\ (page.overview # None /\ page.overview.p = page'.overview.p) =>
                page'.overview.report >= page.overview.report]_vars

\* At most one call for data counts, and none while a timer waits for the next: polls
\* do not multiply, whatever starts them.
OnePoll ==
    /\ Cardinality({c \in Connections : Is(c, "data") /\ call[c].live}) <= 1
    /\ page.timer # None => \A c \in Connections : Is(c, "data") => ~call[c].live

\* If a project stays selected, then what is shown is in the end about that project,
\* also when the selection came from the list a new project was loaded with.
SelectionIsLoaded ==
    \A p \in Projects :
        <>[](page.p = p /\ page.ws = Home[p]) => <>[](page.overview # None /\ page.overview.p = p)

\* A crawl that is shown as active, or a challenge that is shown as pending, is not
\* shown for ever: the page goes on asking until it has ended.
RunsAreFollowed ==
    /\ []<>(page.overview = None \/ page.overview.run = 0)
    /\ []<>(page.p = None \/ page.known[page.p] = None \/ ~page.known[page.p].challenge)
=============================================================================
