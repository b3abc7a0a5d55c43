--------------------------- MODULE DashboardProofs ---------------------------
(***************************************************************************)
(* Polls do not multiply and answers are shown in order, for every number  *)
(* of workspaces, projects and connections, and whatever is clicked,       *)
(* answered late or lost.                                                  *)
(*                                                                         *)
(* Every call for data begins by outdating those before it and by stopping *)
(* the timer, and the timer starts again only with the answer to the one   *)
(* call that counts.                                                       *)
(*                                                                         *)
(* That call is about the project rendered because whatever changes the    *)
(* selection without rendering it, the list of projects, keeps the project *)
(* selected if it can, and because an operation that is still current is   *)
(* about it.  Its report is as new as the one shown because a call that    *)
(* reads the server reads it later than the one whose answer is shown.     *)
(***************************************************************************)
EXTENDS Dashboard, FiniteSetTheorems, TLAPS

Kinds == {"free", "data", "projects", "workspaces"}

\* A request and a page have their fields.
IsRequest(r) == r \in [kind : Kinds, live : BOOLEAN, ws : {r.ws}, p : {r.p}, row : {r.row},
                       run : {r.run}, schedule : {r.schedule}, summary : {r.summary},
                       list : {r.list}]

IsPage(q) == q \in [workspaces : {q.workspaces}, ws : {q.ws}, p : {q.p}, overview : {q.overview},
                    schedule : {q.schedule}, timer : {q.timer}, known : {q.known}]

Calls(f) == f = [c \in Connections |-> f[c]] /\ \A c \in Connections : IsRequest(f[c])

\* The calls for data that count.
LiveData(f) == {c \in Connections : f[c].kind = "data" /\ f[c].live}

One(S) == \A c, d \in S : c = d

PollInv ==
    /\ Calls(call) /\ IsPage(page)
    /\ One(LiveData(call))
    /\ page.timer # None => LiveData(call) = {}

-----------------------------------------------------------------------------
(* Calls. *)

LEMMA Requests ==
    /\ IsRequest(FreeCall) /\ ~FreeCall.live
    /\ \A ws, p : \A k \in Kinds : IsRequest(Request(k, ws, p)) /\ Request(k, ws, p).kind = k
    /\ \A k \in Kinds : LET r == [FreeCall EXCEPT !.kind = k] IN IsRequest(r) /\ ~r.live
<1>1. IsRequest(FreeCall) /\ ~FreeCall.live
  BY DEF IsRequest, FreeCall, Kinds
<1>2. ASSUME NEW k \in Kinds, NEW ws, NEW p
      PROVE  IsRequest(Request(k, ws, p)) /\ Request(k, ws, p).kind = k
  BY DEF IsRequest, Request, FreeCall
<1>3. ASSUME NEW k \in Kinds
      PROVE  LET r == [FreeCall EXCEPT !.kind = k] IN IsRequest(r) /\ ~r.live
  BY DEF IsRequest, FreeCall
<1> QED  BY <1>1, <1>2, <1>3

\* Calls of a kind are outdated.
LEMMA OutdatedCalls ==
    ASSUME NEW f, Calls(f), NEW k \in Kinds
    PROVE  /\ Calls(Outdated(f, k))
           /\ LiveData(Outdated(f, k)) \subseteq LiveData(f)
           /\ k = "data" => LiveData(Outdated(f, k)) = {}
<1> DEFINE g == Outdated(f, k)
           r == [FreeCall EXCEPT !.kind = k]
<1>1. IsRequest(r) /\ ~r.live
  BY Requests
<1>2. g = [c \in Connections |-> IF f[c].kind = k THEN r ELSE f[c]]
  BY DEF Outdated
<1> HIDE DEF g, r
<1>3. \A c \in Connections : g[c] = IF f[c].kind = k THEN r ELSE f[c]
  BY <1>2
<1>4. g = [c \in Connections |-> g[c]]
  BY <1>2
<1>5. Calls(g)
  BY <1>1, <1>3, <1>4 DEF Calls
<1>6. LiveData(g) \subseteq LiveData(f) /\ (k = "data" => LiveData(g) = {})
  BY <1>1, <1>3 DEF LiveData
<1> QED  BY <1>5, <1>6 DEF g

\* One entry of the calls changes.
LEMMA OneChanges ==
    ASSUME NEW f, Calls(f), NEW r, IsRequest(r), NEW b
    PROVE  LET g == [f EXCEPT ![b] = r]
           IN  /\ Calls(g)
               /\ LiveData(g) \subseteq LiveData(f) \cup {b}
               /\ r.kind # "data" \/ ~r.live => LiveData(g) \subseteq LiveData(f) \ {b}
<1> DEFINE g == [f EXCEPT ![b] = r]
<1>1. g = [c \in Connections |-> IF c = b THEN r ELSE f[c]]
  BY DEF Calls
<1> HIDE DEF g
<1>2. \A c \in Connections : g[c] = IF c = b THEN r ELSE f[c]
  BY <1>1
<1>3. g = [c \in Connections |-> g[c]]
  BY <1>1
<1>4. Calls(g)
  BY <1>2, <1>3 DEF Calls
<1>5. /\ LiveData(g) \subseteq LiveData(f) \cup {b}
      /\ r.kind # "data" \/ ~r.live => LiveData(g) \subseteq LiveData(f) \ {b}
  BY <1>2 DEF LiveData
<1> QED  BY <1>4, <1>5 DEF g

\* A request more.
LEMMA WithCalls ==
    ASSUME NEW f, Calls(f), NEW r, IsRequest(r)
    PROVE  /\ Calls(With(f, r))
           /\ r.kind # "data" => LiveData(With(f, r)) \subseteq LiveData(f)
           /\ LiveData(f) = {} => One(LiveData(With(f, r)))
<1> DEFINE b == CHOOSE d \in Connections : f[d] = FreeCall
           g == [f EXCEPT ![b] = r]
<1>1. With(f, r) = g
  BY DEF With
<1> HIDE DEF b
<1>2. /\ Calls(g)
      /\ LiveData(g) \subseteq LiveData(f) \cup {b}
      /\ r.kind # "data" \/ ~r.live => LiveData(g) \subseteq LiveData(f) \ {b}
  BY OneChanges
<1> HIDE DEF g
<1> QED  BY <1>1, <1>2 DEF One

\* A call for data outdates those before it.
LEMMA DataRequested ==
    ASSUME NEW f, Calls(f), NEW ws, NEW p
    PROVE  LET g == With(Outdated(f, "data"), Request("data", ws, p))
           IN  Calls(g) /\ One(LiveData(g))
<1>1. "data" \in Kinds
  BY DEF Kinds
<1>2. Calls(Outdated(f, "data")) /\ LiveData(Outdated(f, "data")) = {}
  BY <1>1, OutdatedCalls
<1>3. IsRequest(Request("data", ws, p))
  BY <1>1, Requests
<1> QED  BY <1>2, <1>3, WithCalls

LEMMA ProjectsRequested ==
    ASSUME NEW f, Calls(f), NEW ws, NEW p, NEW k \in {"projects", "workspaces"}
    PROVE  LET g == With(f, Request(k, ws, p))
           IN  Calls(g) /\ LiveData(g) \subseteq LiveData(f)
<1>1. IsRequest(Request(k, ws, p)) /\ Request(k, ws, p).kind = k
  BY Requests DEF Kinds
<1> QED  BY <1>1, WithCalls

\* The effects of a render leave one call for data that counts.
LEMMA EffectsCalls ==
    ASSUME NEW ws, NEW p, Calls(call)
    PROVE  Calls(Effects(call, ws, p)) /\ One(LiveData(Effects(call, ws, p)))
<1> DEFINE moved    == rendered.ws # ws
           outdated == Outdated(IF moved THEN Outdated(call, "projects") ELSE call, "data")
           listing  == IF moved THEN With(outdated, Request("projects", ws, None)) ELSE outdated
<1>1. Calls(outdated) /\ LiveData(outdated) = {}
  BY OutdatedCalls DEF Kinds
<1>2. Calls(listing) /\ LiveData(listing) = {}
  <2> HIDE DEF outdated
  <2> QED  BY <1>1, ProjectsRequested
<1>3. Effects(call, ws, p) = IF p # None THEN With(listing, Request("data", ws, p)) ELSE listing
  BY DEF Effects
<1> HIDE DEF listing
<1>4. IsRequest(Request("data", ws, p))
  BY Requests DEF Kinds
<1>5. Calls(With(listing, Request("data", ws, p))) /\ One(LiveData(With(listing, Request("data", ws, p))))
  BY <1>2, <1>4, WithCalls
<1> QED  BY <1>2, <1>3, <1>5 DEF One
-----------------------------------------------------------------------------
(* The invariant is inductive. *)

\* A call remembers what was read for it.
LEMMA ReadCalls ==
    ASSUME Calls(call), NEW c \in Connections, NEW r, call' = [call EXCEPT ![c] = r],
           IsRequest(r), r.kind = call[c].kind, r.live = call[c].live
    PROVE  Calls(call') /\ LiveData(call') \subseteq LiveData(call)
<1>1. /\ Calls(call')
      /\ LiveData(call') \subseteq LiveData(call) \cup {c}
      /\ r.kind # "data" \/ ~r.live => LiveData(call') \subseteq LiveData(call) \ {c}
  BY OneChanges
<1>2. r.kind = "data" /\ r.live => c \in LiveData(call)
  BY DEF LiveData
<1> QED  BY <1>1, <1>2

\* A connection becomes free.
LEMMA FreedCalls ==
    ASSUME Calls(call), NEW c \in Connections
    PROVE  LET g == [call EXCEPT ![c] = FreeCall]
           IN  Calls(g) /\ LiveData(g) \subseteq LiveData(call) \ {c}
  BY Requests, OneChanges

\* Steps that leave the timer alone, or stop it, and make no call for data.
LEMMA QuietStep ==
    ASSUME PollInv, Calls(call'), LiveData(call') \subseteq LiveData(call), IsPage(page'),
           page'.timer \in {page.timer, None}
    PROVE  PollInv'
  BY DEF PollInv, One

\* Steps that stop the timer.
LEMMA StoppingStep ==
    ASSUME Calls(call'), One(LiveData(call')), IsPage(page'), page'.timer = None
    PROVE  PollInv'
  BY DEF PollInv

LEMMA LoadPolls == ASSUME PollInv, NEW ws, NEW p, Load(ws, p) PROVE PollInv'
<1>1. Calls(call') /\ One(LiveData(call'))
  BY DataRequested DEF Load, PollInv
<1>2. page' = [page EXCEPT !.timer = None] /\ IsPage(page)
  BY DEF Load, Loading, PollInv
<1>3. IsPage(page') /\ page'.timer = None
  BY <1>2 DEF IsPage
<1> QED  BY <1>1, <1>3, StoppingStep

LEMMA ReadPolls == ASSUME PollInv, NEW c \in Connections, Read(c) PROVE PollInv'
<1>1. Calls(call) /\ IsRequest(call[c]) /\ page' = page /\ IsPage(page)
  BY DEF PollInv, Calls, Read, ReadRow, ReadRun, ReadRest, ReadList
<1>2. ASSUME NEW r, call' = [call EXCEPT ![c] = r],
             IsRequest(r), r.kind = call[c].kind, r.live = call[c].live
      PROVE  PollInv'
  BY <1>1, <1>2, ReadCalls, QuietStep
<1>3. ASSUME NEW x, call' = [call EXCEPT ![c].row = x] PROVE PollInv'
  <2>1. call' = [call EXCEPT ![c] = [call[c] EXCEPT !.row = x]]
    BY <1>3
  <2>2. LET r == [call[c] EXCEPT !.row = x]
        IN  IsRequest(r) /\ r.kind = call[c].kind /\ r.live = call[c].live
    BY <1>1 DEF IsRequest
  <2> QED  BY <1>2, <2>1, <2>2
<1>4. ASSUME NEW x, call' = [call EXCEPT ![c].run = x] PROVE PollInv'
  <2>1. call' = [call EXCEPT ![c] = [call[c] EXCEPT !.run = x]]
    BY <1>4
  <2>2. LET r == [call[c] EXCEPT !.run = x]
        IN  IsRequest(r) /\ r.kind = call[c].kind /\ r.live = call[c].live
    BY <1>1 DEF IsRequest
  <2> QED  BY <1>2, <2>1, <2>2
<1>5. ASSUME NEW x, NEW y, call' = [call EXCEPT ![c].schedule = x, ![c].summary = y] PROVE PollInv'
  <2>1. call' = [call EXCEPT ![c] = [call[c] EXCEPT !.schedule = x, !.summary = y]]
    BY <1>5
  <2>2. LET r == [call[c] EXCEPT !.schedule = x, !.summary = y]
        IN  IsRequest(r) /\ r.kind = call[c].kind /\ r.live = call[c].live
    BY <1>1 DEF IsRequest
  <2> QED  BY <1>2, <2>1, <2>2
<1>6. ASSUME NEW x, call' = [call EXCEPT ![c].list = x] PROVE PollInv'
  <2>1. call' = [call EXCEPT ![c] = [call[c] EXCEPT !.list = x]]
    BY <1>6
  <2>2. LET r == [call[c] EXCEPT !.list = x]
        IN  IsRequest(r) /\ r.kind = call[c].kind /\ r.live = call[c].live
    BY <1>1 DEF IsRequest
  <2> QED  BY <1>2, <2>1, <2>2
<1>7. CASE ReadRow(c)
  BY <1>3, <1>7 DEF ReadRow
<1>8. CASE ReadRun(c)
  BY <1>4, <1>8 DEF ReadRun
<1>9. CASE ReadRest(c)
  BY <1>5, <1>9 DEF ReadRest
<1>10. CASE ReadList(c)
  BY <1>6, <1>10 DEF ReadList
<1> QED  BY <1>7, <1>8, <1>9, <1>10 DEF Read

LEMMA AnswerPolls ==
    ASSUME PollInv, NEW c \in Connections, Answer(c) \/ DataError(c) \/ ListError(c)
    PROVE  PollInv'
<1> DEFINE freed == [call EXCEPT ![c] = FreeCall]
<1>1. Calls(call) /\ IsPage(page) /\ One(LiveData(call))
  BY DEF PollInv
<1>2. Calls(freed) /\ LiveData(freed) \subseteq LiveData(call) \ {c}
  BY <1>1, FreedCalls
<1>3. c \in LiveData(call) => LiveData(freed) = {}
  BY <1>1, <1>2 DEF One
<1>4. Calls(Outdated(freed, "data")) /\ LiveData(Outdated(freed, "data")) = {}
  BY <1>2, OutdatedCalls DEF Kinds
<1>5. Calls(Outdated(Outdated(freed, "projects"), "data"))
      /\ LiveData(Outdated(Outdated(freed, "projects"), "data")) = {}
  <2>1. Calls(Outdated(freed, "projects"))
    BY <1>2, OutdatedCalls DEF Kinds
  <2> QED  BY <2>1, OutdatedCalls DEF Kinds
<1> HIDE DEF freed
<1>6. CASE DataAnswer(c)
  <2>1. c \in LiveData(call) /\ call' = freed
    BY <1>6 DEF DataAnswer, Is, Latest, LiveData, freed
  <2> DEFINE got == call[c]
             o == [p |-> got.p, report |-> got.row, run |-> got.run]
             s == got.schedule
             k == [page.known EXCEPT ![got.p] = IF @ = None THEN None ELSE got.summary]
             t == IF Unfinished(got) THEN Asked(got) ELSE None
  <2>2. page' = [page EXCEPT !.overview = o, !.schedule = s, !.known = k, !.timer = t]
    BY <1>6 DEF DataAnswer
  <2> HIDE DEF o, s, k, t
  <2>3. IsPage(page')
    BY <1>1, <2>2 DEF IsPage
  <2> QED  BY <1>2, <1>3, <2>1, <2>3 DEF PollInv, One
<1>7. CASE DataError(c)
  <2>1. c \in LiveData(call) /\ call' = freed
    BY <1>7 DEF DataError, Is, Latest, LiveData, freed
  <2>2. PICK t : page' = [page EXCEPT !.timer = t]
    BY <1>7 DEF DataError
  <2>3. IsPage(page')
    BY <1>1, <2>2 DEF IsPage
  <2> QED  BY <1>2, <1>3, <2>1, <2>3 DEF PollInv, One
<1>8. CASE Ignored(c) \/ ListError(c)
  <2>1. call' = freed /\ page' = page
    BY <1>8 DEF Ignored, ListError, freed
  <2> QED  BY <1>1, <1>2, <2>1, QuietStep
<1>9. CASE ListAnswer(c)
  <2>1. CASE /\ call' = Outdated(freed, "data")
             /\ page' = [Cleared(page) EXCEPT !.known = call[c].list, !.p = None]
    <3>1. IsPage(page') /\ page'.timer = None
      <4>1. IsPage(Cleared(page)) /\ Cleared(page).timer = None
        BY <1>1 DEF IsPage, Cleared
      <4> DEFINE q == Cleared(page)
      <4> HIDE DEF q
      <4>2. page' = [q EXCEPT !.known = call[c].list, !.p = None] /\ IsPage(q) /\ q.timer = None
        BY <2>1, <4>1 DEF q
      <4> QED  BY <4>2 DEF IsPage
    <3> QED  BY <1>4, <2>1, <3>1, StoppingStep DEF One
  <2>2. ASSUME call' = freed, NEW p, page' = [page EXCEPT !.known = call[c].list, !.p = p]
        PROVE  PollInv'
    <3>1. IsPage(page') /\ page'.timer = page.timer
      BY <1>1, <2>2 DEF IsPage
    <3> QED  BY <1>1, <1>2, <2>2, <3>1, QuietStep
  <2> QED  BY <1>9, <2>1, <2>2 DEF ListAnswer, freed
<1>10. CASE WorkspacesAnswer(c)
  <2>1. CASE call' = freed /\ page' = page
    BY <1>1, <1>2, <2>1, QuietStep
  <2>2. ASSUME call' = freed, NEW ws, page' = [page EXCEPT !.workspaces = call[c].list, !.ws = ws]
        PROVE  PollInv'
    <3>1. IsPage(page') /\ page'.timer = page.timer
      BY <1>1, <2>2 DEF IsPage
    <3> QED  BY <1>1, <1>2, <2>2, <3>1, QuietStep
  <2>3. CASE /\ call' = Outdated(Outdated(freed, "projects"), "data")
             /\ page' = [Cleared(page) EXCEPT !.workspaces = call[c].list, !.ws = op.target,
                                              !.p = None, !.known = EmptyPage.known]
    <3>1. IsPage(page') /\ page'.timer = None
      <4>1. IsPage(Cleared(page)) /\ Cleared(page).timer = None
        BY <1>1 DEF IsPage, Cleared
      <4> DEFINE q == Cleared(page)
                 k == EmptyPage.known
      <4> HIDE DEF q, k
      <4>2. /\ page' = [q EXCEPT !.workspaces = call[c].list, !.ws = op.target, !.p = None, !.known = k]
            /\ IsPage(q) /\ q.timer = None
        BY <2>3, <4>1 DEF q, k
      <4> QED  BY <4>2 DEF IsPage
    <3> QED  BY <1>5, <2>3, <3>1, StoppingStep DEF One
  <2> QED  BY <1>10, <2>1, <2>2, <2>3 DEF WorkspacesAnswer, freed
<1> QED  BY <1>6, <1>7, <1>8, <1>9, <1>10 DEF Answer
LEMMA RenderPolls == ASSUME PollInv, Render PROVE PollInv'
<1>1. Calls(call') /\ One(LiveData(call'))
  BY EffectsCalls DEF Render, PollInv
<1>2. IsPage(page) /\ page' = [page EXCEPT !.timer = None]
  BY DEF Render, PollInv
<1>3. IsPage(page') /\ page'.timer = None
  BY <1>2 DEF IsPage
<1> QED  BY <1>1, <1>3, StoppingStep

LEMMA SelectPolls ==
    ASSUME PollInv, (\E ws \in Workspaces : SelectWorkspace(ws))
                    \/ (\E p \in Projects : SelectProject(p))
    PROVE  PollInv'
<1> DEFINE q == Cleared(page)
<1>1. IsPage(page)
  BY DEF PollInv
<1>2. IsPage(q) /\ q.timer = None
  BY <1>1 DEF IsPage, Cleared
<1>3. ASSUME NEW ws \in Workspaces, SelectWorkspace(ws) PROVE PollInv'
  <2> DEFINE k == EmptyPage.known
  <2>1. Calls(call') /\ One(LiveData(call'))
    BY <1>3, EffectsCalls DEF SelectWorkspace, PollInv
  <2>2. page' = [q EXCEPT !.ws = ws, !.p = None, !.known = k]
    BY <1>3 DEF SelectWorkspace
  <2> HIDE DEF q, k
  <2>3. IsPage(page') /\ page'.timer = None
    BY <1>2, <2>2 DEF IsPage
  <2> QED  BY <2>1, <2>3, StoppingStep
<1>4. ASSUME NEW p \in Projects, SelectProject(p) PROVE PollInv'
  <2>1. Calls(call') /\ One(LiveData(call'))
    BY <1>4, EffectsCalls DEF SelectProject, PollInv
  <2>2. page' = [q EXCEPT !.p = p]
    BY <1>4 DEF SelectProject
  <2> HIDE DEF q
  <2>3. IsPage(page') /\ page'.timer = None
    BY <1>2, <2>2 DEF IsPage
  <2> QED  BY <2>1, <2>3, StoppingStep
<1> QED  BY <1>3, <1>4

LEMMA OpAnswerPolls == ASSUME PollInv, OpAnswer PROVE PollInv'
<1>1. Calls(call) /\ IsPage(page)
  BY DEF PollInv
<1>2. CASE /\ call' = With(call, Request("workspaces", None, None))
           /\ page' = page
  BY <1>1, <1>2, ProjectsRequested, QuietStep
<1>3. CASE /\ call' = With(Outdated(call, "projects"), Request("projects", Home[op.target], op.target))
           /\ page' = page
  <2> DEFINE f == Outdated(call, "projects")
  <2>1. Calls(f) /\ LiveData(f) \subseteq LiveData(call)
    BY <1>1, OutdatedCalls DEF Kinds
  <2>2. call' = With(f, Request("projects", Home[op.target], op.target))
    BY <1>3
  <2> HIDE DEF f
  <2>3. Calls(call') /\ LiveData(call') \subseteq LiveData(f)
    BY <2>1, <2>2, ProjectsRequested
  <2> QED  BY <1>1, <1>3, <2>1, <2>3, QuietStep
<1>4. CASE Load(Home[op.target], op.target)
  BY <1>4, LoadPolls
<1>5. CASE call' = call /\ page' = [page EXCEPT !.schedule = op.on]
  <2>1. IsPage(page') /\ page'.timer = page.timer
    BY <1>1, <1>5 DEF IsPage
  <2> QED  BY <1>1, <1>5, <2>1, QuietStep
<1>6. CASE UNCHANGED <<page, call>>
  BY <1>1, <1>6, QuietStep
<1> QED  BY <1>2, <1>3, <1>4, <1>5, <1>6 DEF OpAnswer

\* Steps of the server, and an operation that begins or takes effect.
LEMMA ElsewherePolls ==
    ASSUME PollInv, \/ Operate \/ TakesEffect \/ OpError
                    \/ \E p \in Projects : StartRun(p) \/ Finish(p)
                    \/ UNCHANGED vars
    PROVE  PollInv'
<1>1. UNCHANGED <<page, call>>
  BY DEF Operate, Begin, TakesEffect, OpError, StartRun, Finish, EndRun, SettleCheck, vars
<1> QED  BY <1>1, QuietStep DEF PollInv

LEMMA PollStep == ASSUME PollInv, [Next]_vars PROVE PollInv'
<1>1. CASE Poll
  BY <1>1, LoadPolls DEF Poll
<1>2. CASE \E c \in Connections : Read(c) \/ Answer(c) \/ DataError(c) \/ ListError(c)
  BY <1>2, ReadPolls, AnswerPolls
<1>3. CASE (\E ws \in Workspaces : SelectWorkspace(ws)) \/ (\E p \in Projects : SelectProject(p))
  BY <1>3, SelectPolls
<1>4. CASE \/ Operate \/ TakesEffect \/ OpError
           \/ \E p \in Projects : StartRun(p) \/ Finish(p)
           \/ UNCHANGED vars
  BY <1>4, ElsewherePolls
<1> QED  BY <1>1, <1>2, <1>3, <1>4, RenderPolls, OpAnswerPolls DEF Next

LEMMA PollInit == ASSUME Init PROVE PollInv
<1> DEFINE free == [c \in Connections |-> FreeCall]
<1>1. \A c \in Connections : free[c] = FreeCall
  OBVIOUS
<1>2. Calls(free) /\ LiveData(free) = {}
  <2>1. free = [c \in Connections |-> free[c]]
    OBVIOUS
  <2> HIDE DEF free
  <2> QED  BY <1>1, <2>1, Requests DEF Calls, LiveData
<1>3. call = With(free, Request("workspaces", None, None))
  BY DEF Init
<1> HIDE DEF free
<1>4. Calls(call) /\ LiveData(call) = {}
  BY <1>2, <1>3, ProjectsRequested
<1>5. IsPage(page) /\ page.timer = None
  BY DEF Init, EmptyPage, IsPage
<1> QED  BY <1>4, <1>5 DEF PollInv, One

LEMMA PollInvImplies == ASSUME PollInv PROVE OnePoll
<1>1. LiveData(call) = {c \in Connections : Is(c, "data") /\ call[c].live}
  BY DEF LiveData, Is
<1>2. Cardinality(LiveData(call)) <= 1
  <2>1. CASE LiveData(call) = {}
    BY <2>1, FS_EmptySet
  <2>2. CASE LiveData(call) # {}
    <3>1. PICK c \in LiveData(call) : TRUE
      BY <2>2
    <3>2. LiveData(call) = {c}
      BY <3>1 DEF PollInv, One
    <3> QED  BY <3>2, FS_Singleton
  <2> QED  BY <2>1, <2>2
<1>3. page.timer # None => \A c \in Connections : Is(c, "data") => ~call[c].live
  BY DEF PollInv, LiveData, Is
<1> QED  BY <1>1, <1>2, <1>3 DEF OnePoll

-----------------------------------------------------------------------------

\* At most one call for the data of a project counts, and none while the timer waits for
\* the next: every call outdates those before it, and only the answer that counts, or its
\* failure, starts the timer (loadProjectData).
THEOREM PollsDoNotMultiply == Spec => []OnePoll
<1>1. Init => PollInv
  BY PollInit
<1>2. PollInv /\ [Next]_vars => PollInv'
  BY PollStep
<1>3. PollInv => OnePoll
  BY PollInvImplies
<1> QED  BY <1>1, <1>2, <1>3, PTL DEF Spec

-----------------------------------------------------------------------------
(* Answers are shown in order. *)

Numbers == [run : Nat, active : BOOLEAN, published : Nat, schedule : BOOLEAN, challenge : BOOLEAN,
            valid : BOOLEAN]

\* What the server has, and which operation is under way.
ServerTyped ==
    /\ srv \in [Projects -> Numbers]
    /\ \A p \in Projects : srv[p].published <= srv[p].run

OpKinds == {"none", "workspace", "project", "verification", "crawl", "schedule"}

IsOp(o) ==
    /\ o \in [kind : OpKinds, stage : {"none", "sent", "served", "load"}, target : {o.target},
              conn : {o.conn}, current : BOOLEAN, on : BOOLEAN]
    /\ o.kind = "none" => o = NoOp

OpTyped == IsOp(op)

\* The operation waits for the call on connection c.
Awaits(c) == op.stage = "load" /\ op.conn = c

\* Nothing has happened yet but the first call for the workspaces.
Pristine ==
    /\ page = EmptyPage /\ op = NoOp
    /\ rendered = [ws |-> None, p |-> None]
    /\ \A c \in Connections : call[c].kind \in {"free", "workspaces"}
    /\ One({c \in Connections : Is(c, "workspaces")})

\* A list of workspaces comes first, or because a workspace was created.
WorkspacesFirst == \A c \in Connections : Is(c, "workspaces") => Awaits(c) \/ Pristine

\* What the page knows is there, in the workspace selected.
KnownExists ==
    /\ page.known = [p \in Projects |-> page.known[p]]
    /\ \A p \in Projects : page.known[p] # None => p \in exists /\ Home[p] = page.ws
    /\ page.p # None => page.p \in Projects /\ page.known[page.p] # None

\* The calls for projects that count.
LiveLists == {c \in Connections : call[c].kind = "projects" /\ call[c].live}

\* One list counts.  It is that of the workspace selected and has every project known, and
\* only an operation that waits for it may prefer another project to the one selected.
ListsInOrder ==
    /\ One(LiveLists)
    /\ \A c \in LiveLists :
          /\ call[c].ws = page.ws
          /\ call[c].p # None => Awaits(c) /\ op.kind = "project"
          /\ call[c].list # None => call[c].list = [p \in Projects |-> call[c].list[p]]
          /\ call[c].list # None => \A p \in Projects :
                /\ page.known[p] # None => call[c].list[p] # None
                /\ call[c].list[p] # None => p \in exists /\ Home[p] = page.ws

\* An operation that is still current is about what is selected.
OpInOrder ==
    /\ op.current /\ op.kind \in {"verification", "crawl"} => 
          op.target \in Projects /\ op.target = page.p /\ op.target = rendered.p
    /\ op.current /\ op.kind = "project" => Home[op.target] = page.ws

\* The data asked for are those of the project rendered, and no older than what is shown.
DataInOrder ==
    /\ \A c \in LiveData(call) :
          /\ call[c].p \in Projects /\ call[c].p = rendered.p
          /\ call[c].run # None => call[c].row # None
          /\ call[c].row # None =>
                /\ call[c].row \in Nat /\ call[c].row <= srv[call[c].p].published
                /\ page.overview # None /\ page.overview.p = call[c].p =>
                      page.overview.report <= call[c].row
    /\ page.timer # None => page.timer.p \in Projects /\ page.timer.p = rendered.p
    /\ page.overview # None =>
          /\ page.overview.p \in Projects /\ page.overview.report \in Nat
          /\ page.overview.report <= srv[page.overview.p].published

\* A connection of no kind carries nothing.
FreeCalls == \A c \in Connections : Is(c, "free") => call[c] = FreeCall

ShownInv == /\ PollInv /\ FreeCalls /\ ServerTyped /\ OpTyped /\ WorkspacesFirst /\ KnownExists
            /\ ListsInOrder /\ OpInOrder /\ DataInOrder

-----------------------------------------------------------------------------
(* What steps do to the calls, connection by connection. *)

\* A call that does not count, and is none for workspaces.
Dead(r) == ~r.live /\ r.kind # "workspaces" /\ (r.kind = "free" => r = FreeCall)

\* Nothing new is asked for.
Kept(f, g) == \A c \in Connections : g[c] = f[c] \/ Dead(g[c])

LEMMA KeptOutdated ==
    ASSUME NEW f, NEW k \in {"data", "projects"}
    PROVE  /\ Kept(f, Outdated(f, k))
           /\ \A c \in Connections : Outdated(f, k)[c].kind = k => ~Outdated(f, k)[c].live
           /\ \A c \in Connections : f[c] = FreeCall <=> Outdated(f, k)[c] = FreeCall
<1> DEFINE r == [FreeCall EXCEPT !.kind = k]
<1>1. r.kind = k /\ ~r.live /\ r # FreeCall /\ FreeCall.kind = "free" /\ Dead(r)
  BY DEF FreeCall, Dead
<1>2. \A c \in Connections : Outdated(f, k)[c] = IF f[c].kind = k THEN r ELSE f[c]
  BY DEF Outdated
<1> HIDE DEF r
<1>3. Kept(f, Outdated(f, k))
  BY <1>1, <1>2 DEF Kept
<1> QED  BY <1>1, <1>2, <1>3

\* The calls of a kind that count, or that are for workspaces, are the same.
Same(k) == \A c \in Connections : call'[c].kind = k /\ (call'[c].live \/ k = "workspaces")
                                  => call'[c] = call[c]

LEMMA KeptSame == ASSUME Kept(call, call') PROVE \A k : Same(k)
  BY DEF Kept, Same, Dead

LEMMA KeptTwice == ASSUME NEW f, NEW g, NEW h, Kept(f, g), Kept(g, h) PROVE Kept(f, h)
  BY DEF Kept

LEMMA KeptFreed == ASSUME Calls(call), NEW c \in Connections
                   PROVE  Kept(call, [call EXCEPT ![c] = FreeCall])
<1>1. Dead(FreeCall)
  BY DEF Dead, FreeCall
<1>2. \A d \in Connections : [call EXCEPT ![c] = FreeCall][d] = IF d = c THEN FreeCall ELSE call[d]
  BY DEF Calls
<1> QED  BY <1>1, <1>2 DEF Kept

\* One connection, free if there is any, has the new request.
LEMMA WithAdds ==
    ASSUME NEW f, Calls(f), NEW r
    PROVE  \E b : /\ \A c \in Connections : With(f, r)[c] = IF c = b THEN r ELSE f[c]
                  /\ (\E c \in Connections : f[c] = FreeCall) => b \in Connections /\ f[b] = FreeCall
<1> DEFINE b == CHOOSE d \in Connections : f[d] = FreeCall
<1>1. With(f, r) = [f EXCEPT ![b] = r]
  BY DEF With
<1>2. (\E c \in Connections : f[c] = FreeCall) => b \in Connections /\ f[b] = FreeCall
  OBVIOUS
<1> HIDE DEF b
<1>3. \A c \in Connections : [f EXCEPT ![b] = r][c] = IF c = b THEN r ELSE f[c]
  BY DEF Calls
<1> QED  BY <1>1, <1>2, <1>3

\* g has the call r on one connection, and those of f on the others; or it is f.
Adds(f, r, g) == \E b : \A c \in Connections : g[c] = IF c = b THEN r ELSE f[c]

LEMMA WithEntry == ASSUME NEW f, Calls(f), NEW r PROVE Adds(f, r, With(f, r))
<1>1. \E b : \A c \in Connections : With(f, r)[c] = IF c = b THEN r ELSE f[c]
  <2>1. PICK b : /\ \A c \in Connections : With(f, r)[c] = IF c = b THEN r ELSE f[c]
                 /\ (\E c \in Connections : f[c] = FreeCall) => b \in Connections /\ f[b] = FreeCall
    BY WithAdds
  <2> WITNESS b
  <2> QED  BY <2>1
<1> QED  BY <1>1 DEF Adds

LEMMA AddedEntries ==
    ASSUME NEW f, NEW r, NEW g, Adds(f, r, g)
    PROVE  \A c \in Connections : g[c] = f[c] \/ g[c] = r
<1>1. PICK b : \A c \in Connections : g[c] = IF c = b THEN r ELSE f[c]
  BY DEF Adds
<1> QED  BY <1>1

LEMMA RequestFields ==
    ASSUME NEW k, NEW ws, NEW p
    PROVE  LET r == Request(k, ws, p)
           IN  /\ r.kind = k /\ r.live /\ r.ws = ws /\ r.p = p /\ r.row = None /\ r.run = None /\ r.list = None
               /\ r # FreeCall
  BY DEF Request, FreeCall

-----------------------------------------------------------------------------
(* What each part of the invariant depends on. *)

\* An operation goes on waiting for a call that still counts.
OpWaits == \A c \in Connections : Awaits(c) /\ ~Dead(call'[c]) => Awaits(c)' /\ op'.kind = op.kind

LEMMA ListsStay ==
    ASSUME ListsInOrder, Same("projects"), OpWaits, exists \subseteq exists', page'.ws = page.ws,
           \A p \in Projects : page'.known[p] # None => page.known[p] # None
    PROVE  ListsInOrder'
<1>1. \A c \in LiveLists' : c \in LiveLists /\ call'[c] = call[c] /\ ~Dead(call'[c])
  BY DEF LiveLists, Same, Dead
<1>2. One(LiveLists')
  BY <1>1 DEF ListsInOrder, One
<1>3. ASSUME NEW c \in LiveLists'
      PROVE  /\ call'[c].ws = page'.ws
             /\ call'[c].p # None => Awaits(c)' /\ op'.kind = "project"
             /\ call'[c].list # None => call'[c].list = [p \in Projects |-> call'[c].list[p]]
             /\ call'[c].list # None => \A p \in Projects :
                   /\ page'.known[p] # None => call'[c].list[p] # None
                   /\ call'[c].list[p] # None => p \in exists' /\ Home[p] = page'.ws
  <2>1. c \in Connections
    BY DEF LiveLists
  <2> QED  BY <1>1, <1>3, <2>1 DEF ListsInOrder, OpWaits
<1> QED  BY <1>2, <1>3 DEF ListsInOrder

\* No list counts.
LEMMA NoListsInOrder == ASSUME LiveLists' = {} PROVE ListsInOrder'
  BY DEF ListsInOrder, One

LEMMA DataStays ==
    ASSUME DataInOrder, Same("data"), rendered'.p = rendered.p,
           page'.overview \in {page.overview, None}, page'.timer \in {page.timer, None},
           ServerTyped, ServerTyped', \A p \in Projects : srv[p].published <= srv'[p].published
    PROVE  DataInOrder'
<1>1. \A c \in LiveData(call') : c \in LiveData(call) /\ call'[c] = call[c]
  BY DEF LiveData, Same
<1>2. \A p \in Projects : srv[p].published \in Nat /\ srv'[p].published \in Nat
  BY DEF ServerTyped, Numbers
<1>3. ASSUME NEW c \in LiveData(call')
      PROVE  /\ call'[c].p \in Projects /\ call'[c].p = rendered'.p
             /\ call'[c].run # None => call'[c].row # None
             /\ call'[c].row # None =>
                   /\ call'[c].row \in Nat /\ call'[c].row <= srv'[call'[c].p].published
                   /\ page'.overview # None /\ page'.overview.p = call'[c].p =>
                         page'.overview.report <= call'[c].row
  BY <1>1, <1>2, <1>3 DEF DataInOrder
<1>4. page'.timer # None => page'.timer.p \in Projects /\ page'.timer.p = rendered'.p
  BY DEF DataInOrder
<1>5. page'.overview # None =>
          /\ page'.overview.p \in Projects /\ page'.overview.report \in Nat
          /\ page'.overview.report <= srv'[page'.overview.p].published
  BY <1>2 DEF DataInOrder
<1> QED  BY <1>3, <1>4, <1>5 DEF DataInOrder

LEMMA WorkspacesStay ==
    ASSUME WorkspacesFirst, Same("workspaces"), OpWaits,
           Pristine => Pristine' \/ \A c \in Connections : ~Is(c, "workspaces")'
    PROVE  WorkspacesFirst'
<1> SUFFICES ASSUME NEW c \in Connections, Is(c, "workspaces")' PROVE Awaits(c)' \/ Pristine'
  BY DEF WorkspacesFirst
<1>1. call'[c] = call[c] /\ ~Dead(call'[c])
  BY DEF Same, Dead, Is
<1> QED  BY <1>1 DEF WorkspacesFirst, OpWaits, Is

LEMMA FreeStays == ASSUME FreeCalls, Kept(call, call') PROVE FreeCalls'
  BY DEF FreeCalls, Kept, Dead, Is

\* The answer to a call, or its failure, frees its connection.
LEMMA Returned ==
    ASSUME WorkspacesFirst, FreeCalls, OpTyped, NEW c \in Connections, call[c] # FreeCall,
           Kept(call, call'), Dead(call'[c]), op' \in {Finished(c), Disowned(Finished(c))}
    PROVE  /\ OpWaits /\ WorkspacesFirst' /\ FreeCalls'
           /\ op'.current => op' = op
           /\ \A k : Same(k)
<1>1. OpWaits
  BY DEF OpWaits, Awaits, Finished, Disowned, OpTyped, IsOp
<1>2. Pristine => \A d \in Connections : ~Is(d, "workspaces")'
  BY DEF Pristine, FreeCalls, Kept, Dead, Is, One
<1>3. op'.current => op' = op
  BY DEF Finished, Disowned, NoOp, OpTyped, IsOp
<1>4. \A k : Same(k)
  BY KeptSame
<1> QED  BY <1>1, <1>2, <1>3, <1>4, FreeStays, WorkspacesStay

\* The operation is the same, or not current any more, or not about what moves.
LEMMA OpStays ==
    ASSUME OpInOrder,
           op'.current => /\ op.current /\ op'.kind = op.kind /\ op'.target = op.target
                          /\ op.kind = "project" => page'.ws = page.ws
                          /\ op.kind \in {"verification", "crawl"} =>
                                page'.p = page.p /\ rendered'.p = rendered.p
    PROVE  OpInOrder'
  BY DEF OpInOrder

-----------------------------------------------------------------------------
(* The server, the operation and what the page knows. *)

\* r comes after q.
Follows(q, r) == r \in Numbers /\ q.published <= r.published /\ r.published <= r.run

LEMMA NumbersChanged ==
    ASSUME NEW r \in Numbers, r.published <= r.run
    PROVE  \A v, w \in BOOLEAN :
              /\ Follows(r, [r EXCEPT !.challenge = v])
              /\ Follows(r, [r EXCEPT !.schedule = v])
              /\ Follows(r, [r EXCEPT !.challenge = v, !.valid = w])
              /\ Follows(r, [r EXCEPT !.run = r.run + 1, !.active = v])
              /\ \A n \in {r.published, r.run} :
                    Follows(r, [r EXCEPT !.active = v, !.published = n])
<1> SUFFICES ASSUME NEW v \in BOOLEAN, NEW w \in BOOLEAN
             PROVE  /\ Follows(r, [r EXCEPT !.challenge = v])
                    /\ Follows(r, [r EXCEPT !.schedule = v])
                    /\ Follows(r, [r EXCEPT !.challenge = v, !.valid = w])
                    /\ Follows(r, [r EXCEPT !.run = r.run + 1, !.active = v])
                    /\ \A n \in {r.published, r.run} :
                          Follows(r, [r EXCEPT !.active = v, !.published = n])
  OBVIOUS
<1>0. r.published \in Nat /\ r.run \in Nat /\ r.published <= r.published /\ r.published <= r.run + 1
  BY DEF Numbers
<1>1. Follows(r, [r EXCEPT !.challenge = v])
  BY <1>0 DEF Numbers, Follows
<1>2. Follows(r, [r EXCEPT !.schedule = v])
  BY <1>0 DEF Numbers, Follows
<1>3. Follows(r, [r EXCEPT !.challenge = v, !.valid = w])
  BY <1>0 DEF Numbers, Follows
<1>4. Follows(r, [r EXCEPT !.run = r.run + 1, !.active = v])
  <2> DEFINE q == [r EXCEPT !.run = r.run + 1]
  <2>1. q \in Numbers /\ Follows(r, q)
    BY <1>0 DEF Numbers, Follows
  <2>2. [r EXCEPT !.run = r.run + 1, !.active = v] = [q EXCEPT !.active = v]
    BY DEF Numbers
  <2> HIDE DEF q
  <2>3. Follows(r, [q EXCEPT !.active = v])
    BY <2>1 DEF Numbers, Follows
  <2> QED  BY <2>2, <2>3
<1>5. ASSUME NEW n \in {r.published, r.run} PROVE Follows(r, [r EXCEPT !.active = v, !.published = n])
  <2> DEFINE q == [r EXCEPT !.published = n]
  <2>1. q \in Numbers /\ Follows(r, q)
    BY <1>0 DEF Numbers, Follows
  <2>2. [r EXCEPT !.active = v, !.published = n] = [q EXCEPT !.active = v]
    BY DEF Numbers
  <2> HIDE DEF q
  <2>3. Follows(r, [q EXCEPT !.active = v])
    BY <2>1 DEF Numbers, Follows
  <2> QED  BY <2>2, <2>3
<1> QED  BY <1>1, <1>2, <1>3, <1>4, <1>5

\* What exists stays, and reports only grow newer.
LEMMA ServerGrows ==
    ASSUME ServerTyped, OpTyped, [Next]_vars
    PROVE  /\ ServerTyped' /\ exists \subseteq exists'
           /\ \A p \in Projects : srv[p].published <= srv'[p].published
<1>1. \A p \in Projects : /\ srv[p].published \in Nat /\ srv[p].run \in Nat /\ srv[p] \in Numbers
                          /\ srv[p].published <= srv[p].run
  BY DEF ServerTyped, Numbers
<1>2. CASE srv' = srv /\ exists \subseteq exists'
  BY <1>1, <1>2 DEF ServerTyped
<1>3. ASSUME NEW q, NEW r, srv' = [srv EXCEPT ![q] = r], exists \subseteq exists',
             q \in Projects => Follows(srv[q], r)
      PROVE  /\ ServerTyped' /\ exists \subseteq exists'
             /\ \A p \in Projects : srv[p].published <= srv'[p].published
  <2>1. \A p \in Projects : srv'[p] = IF p = q THEN r ELSE srv[p]
    BY <1>3 DEF ServerTyped
  <2>2. srv' = [p \in Projects |-> srv'[p]]
    BY <1>3 DEF ServerTyped
  <2>3. \A p \in Projects : srv'[p] \in Numbers /\ srv'[p].published <= srv'[p].run
    BY <1>1, <1>3, <2>1 DEF ServerTyped, Follows
  <2>4. srv' \in [Projects -> Numbers]
    BY <2>2, <2>3
  <2>5. \A p \in Projects : srv[p].published <= srv'[p].published
    BY <1>1, <1>3, <2>1 DEF Follows, Numbers
  <2> QED  BY <1>3, <2>3, <2>4, <2>5 DEF ServerTyped
<1>4. CASE TakesEffect
  <2> DEFINE q == op.target
  <2>1. exists \subseteq exists'
    BY <1>4 DEF TakesEffect
  <2>2. CASE op.kind = "verification"
    <3>1. PICK v \in BOOLEAN : srv' = [srv EXCEPT ![q] = [srv[q] EXCEPT !.challenge = v]]
      BY <1>4, <2>2 DEF TakesEffect
    <3>2. q \in Projects => Follows(srv[q], [srv[q] EXCEPT !.challenge = v])
      BY <1>1, <3>1, NumbersChanged
    <3> QED  BY <1>3, <2>1, <3>1, <3>2
  <2>3. CASE op.kind = "crawl"
    <3>1. PICK v \in BOOLEAN : srv' = [srv EXCEPT ![q] = [srv[q] EXCEPT !.run = srv[q].run + 1, !.active = v]]
      BY <1>4, <2>3 DEF TakesEffect
    <3>2. q \in Projects => Follows(srv[q], [srv[q] EXCEPT !.run = srv[q].run + 1, !.active = v])
      BY <1>1, <3>1, NumbersChanged
    <3> QED  BY <1>3, <2>1, <3>1, <3>2
  <2>4. CASE op.kind = "schedule"
    <3>1. PICK v \in BOOLEAN : srv' = [srv EXCEPT ![q] = [srv[q] EXCEPT !.schedule = v]]
      BY <1>4, <2>4 DEF TakesEffect, OpTyped, IsOp
    <3>2. q \in Projects => Follows(srv[q], [srv[q] EXCEPT !.schedule = v])
      BY <1>1, <3>1, NumbersChanged
    <3> QED  BY <1>3, <2>1, <3>1, <3>2
  <2>5. CASE op.kind \notin {"verification", "crawl", "schedule"}
    BY <1>2, <1>4, <2>1, <2>5 DEF TakesEffect
  <2> QED  BY <2>2, <2>3, <2>4, <2>5
<1>5. ASSUME NEW p \in Projects, StartRun(p) \/ Finish(p)
      PROVE  /\ ServerTyped' /\ exists \subseteq exists'
             /\ \A q \in Projects : srv[q].published <= srv'[q].published
  <2>0. exists \subseteq exists'
    BY <1>5 DEF StartRun, Finish, EndRun, SettleCheck
  <2>1. CASE StartRun(p)
    <3>1. PICK v \in BOOLEAN : srv' = [srv EXCEPT ![p] = [srv[p] EXCEPT !.run = srv[p].run + 1, !.active = v]]
      BY <2>1 DEF StartRun
    <3>2. Follows(srv[p], [srv[p] EXCEPT !.run = srv[p].run + 1, !.active = v])
      BY <1>1, <3>1, NumbersChanged
    <3> QED  BY <1>3, <2>0, <3>1, <3>2
  <2>2. CASE EndRun(p)
    <3>1. PICK v \in BOOLEAN, n \in {srv[p].published, srv[p].run} : srv' = [srv EXCEPT ![p] = [srv[p] EXCEPT !.active = v, !.published = n]]
      BY <2>2 DEF EndRun
    <3>2. Follows(srv[p], [srv[p] EXCEPT !.active = v, !.published = n])
      BY <1>1, <3>1, NumbersChanged
    <3> QED  BY <1>3, <2>0, <3>1, <3>2
  <2>3. CASE SettleCheck(p)
    <3>1. PICK v \in BOOLEAN, w \in BOOLEAN : srv' = [srv EXCEPT ![p] = [srv[p] EXCEPT !.challenge = v, !.valid = w]]
      BY <2>3 DEF SettleCheck
    <3>2. Follows(srv[p], [srv[p] EXCEPT !.challenge = v, !.valid = w])
      BY <1>1, <3>1, NumbersChanged
    <3> QED  BY <1>3, <2>0, <3>1, <3>2
  <2> QED  BY <1>5, <2>1, <2>2, <2>3 DEF Finish
<1>6. TakesEffect \/ (\E p \in Projects : StartRun(p) \/ Finish(p)) \/ UNCHANGED <<srv, exists>>
  BY DEF Next, vars, Render, Poll, Read, ReadRow, ReadRun, ReadRest, ReadList, Answer, DataAnswer, Ignored,
     ListAnswer, WorkspacesAnswer, DataError, ListError, SelectWorkspace, SelectProject, Click, Operate, Begin,
     OpAnswer, OpError
<1> QED  BY <1>2, <1>4, <1>5, <1>6

LEMMA OpForms ==
    /\ IsOp(NoOp) /\ ~NoOp.current /\ NoOp.stage = "none" /\ NoOp.kind = "none"
    /\ \A o : IsOp(o) => /\ IsOp(Disowned(o)) /\ ~Disowned(o).current
                         /\ Disowned(o).stage = o.stage /\ Disowned(o).conn = o.conn
                         /\ Disowned(o).kind = o.kind
<1>1. IsOp(NoOp) /\ ~NoOp.current /\ NoOp.stage = "none" /\ NoOp.kind = "none"
  BY DEF IsOp, NoOp, OpKinds
<1>2. ASSUME NEW o, IsOp(o)
      PROVE  /\ IsOp(Disowned(o)) /\ ~Disowned(o).current
             /\ Disowned(o).stage = o.stage /\ Disowned(o).conn = o.conn
             /\ Disowned(o).kind = o.kind
  <2> DEFINE off == FALSE
             d == [o EXCEPT !.current = off]
  <2>1. off \in BOOLEAN /\ ~off /\ d = Disowned(o)
    BY DEF Disowned
  <2>2. o \in [kind : OpKinds, stage : {"none", "sent", "served", "load"}, target : {o.target},
               conn : {o.conn}, current : BOOLEAN, on : BOOLEAN]
    BY <1>2 DEF IsOp
  <2>3. o.kind = "none" => d = o
    BY <1>2 DEF IsOp, NoOp
  <2>4. d.current = off /\ d.stage = o.stage /\ d.conn = o.conn /\ d.kind = o.kind /\ d.target = o.target
    BY <2>2
  <2> HIDE DEF off
  <2>5. d \in [kind : OpKinds, stage : {"none", "sent", "served", "load"}, target : {o.target},
               conn : {o.conn}, current : BOOLEAN, on : BOOLEAN]
    BY <2>1, <2>2
  <2> HIDE DEF d
  <2> QED  BY <1>2, <2>1, <2>3, <2>4, <2>5 DEF IsOp
<1> QED  BY <1>1, <1>2

LEMMA StepOp == ASSUME OpTyped, [Next]_vars PROVE OpTyped'
<1>1. CASE op' \in {op, NoOp, Disowned(op), Disowned(NoOp)}
  BY <1>1, OpForms DEF OpTyped
<1>2. ASSUME NEW k \in OpKinds \ {"none"}, NEW t, Begin(k, t) PROVE OpTyped'
  BY <1>2 DEF Begin, OpTyped, IsOp, NoOp, OpKinds
<1>3. CASE TakesEffect
  BY <1>3 DEF TakesEffect, OpTyped, IsOp, NoOp
<1>4. CASE OpAnswer
  <2>1. CASE op' = Loads
    <3>1. PICK b : op' = [op EXCEPT !.stage = "load", !.conn = b]
      BY <2>1 DEF Loads
    <3>2. op.kind # "none"
      BY <1>4 DEF OpAnswer, OpTyped, IsOp, NoOp
    <3> QED  BY <3>1, <3>2 DEF OpTyped, IsOp
  <2> QED  BY <1>1, <1>4, <2>1 DEF OpAnswer
<1>5. CASE Operate
  BY <1>2, <1>5 DEF Operate, OpKinds
<1>6. ASSUME NEW c \in Connections, Read(c) \/ Answer(c) \/ DataError(c) \/ ListError(c)
      PROVE  op' \in {op, NoOp, Disowned(op), Disowned(NoOp)}
  BY <1>6 DEF Read, ReadRow, ReadRun, ReadRest, ReadList, Answer, DataAnswer, Ignored, ListAnswer,
     WorkspacesAnswer, DataError, ListError, Finished
<1> QED
  BY <1>1, <1>3, <1>4, <1>5, <1>6
  DEF Next, vars, Render, Poll, SelectWorkspace, SelectProject, OpError, StartRun, Finish, EndRun, SettleCheck

-----------------------------------------------------------------------------
(* Every step keeps the order. *)

LEMMA KnownStays ==
    ASSUME KnownExists, exists \subseteq exists', page'.known = page.known, page'.ws = page.ws,
           page'.p = page.p
    PROVE  KnownExists'
  BY DEF KnownExists

\* What every step keeps, whatever it is.
Kind == PollInv /\ ServerTyped /\ OpTyped

LEMMA StepKind ==
    ASSUME Kind, [Next]_vars
    PROVE  /\ Kind' /\ exists \subseteq exists'
           /\ \A p \in Projects : srv[p].published <= srv'[p].published
  BY PollStep, ServerGrows, StepOp DEF Kind

\* The page, the selection and the calls stay as they are.
LEMMA QuietShown ==
    ASSUME ShownInv, [Next]_vars, UNCHANGED <<page, rendered, call>>,
           op' = op \/ op.stage \in {"sent", "served"},
           op'.current => op.current /\ op'.kind = op.kind /\ op'.target = op.target
    PROVE  ShownInv'
<1>1. Kind' /\ exists \subseteq exists' /\ \A p \in Projects : srv[p].published <= srv'[p].published
  BY StepKind DEF ShownInv, Kind
<1>2. Kept(call, call')
  BY DEF Kept
<1>3. OpWaits
  BY DEF OpWaits, Awaits
<1>4. Pristine => Pristine'
  BY OpForms DEF Pristine, Is
<1>5. FreeCalls' /\ WorkspacesFirst'
  BY <1>2, <1>3, <1>4, KeptSame, FreeStays, WorkspacesStay DEF ShownInv
<1>6. KnownExists' /\ ListsInOrder'
  BY <1>1, <1>2, <1>3, KeptSame, KnownStays, ListsStay DEF ShownInv
<1>7. OpInOrder'
  BY OpStays DEF ShownInv
<1>8. DataInOrder'
  BY <1>1, <1>2, KeptSame, DataStays DEF ShownInv, Kind
<1> QED  BY <1>1, <1>5, <1>6, <1>7, <1>8 DEF ShownInv, Kind

LEMMA ElsewhereShown ==
    ASSUME ShownInv, [Next]_vars,
           \/ TakesEffect \/ OpError \/ UNCHANGED vars
           \/ \E p \in Projects : StartRun(p) \/ Finish(p)
    PROVE  ShownInv'
<1>1. CASE op' = op /\ UNCHANGED <<page, rendered, call>>
  BY <1>1, QuietShown
<1>2. CASE TakesEffect
  <2>1. UNCHANGED <<page, rendered, call>> /\ op' = [op EXCEPT !.stage = "served"] /\ op.stage = "sent"
    BY <1>2 DEF TakesEffect
  <2>2. op'.current = op.current /\ op'.kind = op.kind /\ op'.target = op.target
    BY <2>1 DEF ShownInv, OpTyped, IsOp
  <2> QED  BY <2>1, <2>2, QuietShown
<1>3. CASE OpError
  <2>1. UNCHANGED <<page, rendered, call>> /\ op' = NoOp /\ op.stage \in {"sent", "served"}
    BY <1>3 DEF OpError
  <2>2. ~op'.current
    BY <2>1, OpForms
  <2> QED  BY <2>1, <2>2, QuietShown
<1> QED
  BY <1>1, <1>2, <1>3 DEF StartRun, Finish, EndRun, SettleCheck, vars

LEMMA OperateShown == ASSUME Patient, ShownInv, [Next]_vars, Operate PROVE ShownInv'
<1>1. Kind' /\ exists \subseteq exists' /\ \A p \in Projects : srv[p].published <= srv'[p].published
  BY StepKind DEF ShownInv, Kind
<1>2. UNCHANGED <<page, rendered, call>> /\ rendered = Selection /\ op.kind = "none"
  BY DEF Operate, Begin, Click
<1>3. op = NoOp
  BY <1>2 DEF ShownInv, OpTyped, IsOp
<1>4. Kept(call, call')
  BY <1>2 DEF Kept
<1>5. OpWaits
  BY <1>3, OpForms DEF OpWaits, Awaits
<1>6. \/ op'.kind = "workspace" /\ \A c \in Connections : ~Is(c, "workspaces")
      \/ op'.kind = "project" /\ page.ws \in Workspaces /\ Home[op'.target] = page.ws
      \/ op'.kind \notin {"workspace", "project"} /\ op'.target = page.p /\ page.p # None
  <2>1. \A k, t : Begin(k, t) => op'.kind = k /\ op'.target = t
    BY DEF Begin, NoOp
  <2>2. \A p \in Projects : Home[p] \in Workspaces
    BY DashboardAssumption
  <2> QED  BY <2>1, <2>2 DEF Operate
<1>7. Pristine => \A c \in Connections : ~Is(c, "workspaces")
  BY <1>6, DashboardAssumption DEF Pristine, EmptyPage
<1>8. FreeCalls' /\ WorkspacesFirst'
  <2>1. Pristine => \A c \in Connections : ~Is(c, "workspaces")'
    BY <1>2, <1>7 DEF Is
  <2> QED  BY <1>4, <1>5, <2>1, KeptSame, FreeStays, WorkspacesStay DEF ShownInv
<1>9. KnownExists' /\ ListsInOrder'
  BY <1>1, <1>2, <1>4, <1>5, KeptSame, KnownStays, ListsStay DEF ShownInv
<1>10. OpInOrder'
  BY <1>2, <1>6 DEF ShownInv, KnownExists, OpInOrder, Selection
<1>11. DataInOrder'
  BY <1>1, <1>2, <1>4, KeptSame, DataStays DEF ShownInv, Kind
<1> QED  BY <1>1, <1>8, <1>9, <1>10, <1>11 DEF ShownInv, Kind

\* What is read is what the server has at that moment.
LEMMA ReadShown == ASSUME ShownInv, [Next]_vars, NEW c \in Connections, Read(c) PROVE ShownInv'
<1>1. Kind' /\ exists \subseteq exists' /\ \A p \in Projects : srv[p].published <= srv'[p].published
  BY StepKind DEF ShownInv, Kind
<1>2. UNCHANGED <<exists, srv, page, rendered, op>> /\ Calls(call) /\ IsRequest(call[c])
  BY DEF Read, ReadRow, ReadRun, ReadRest, ReadList, ShownInv, PollInv, Calls
<1>3. ASSUME NEW r, call' = [call EXCEPT ![c] = r],
             r.kind = call[c].kind, r.live = call[c].live, r.ws = call[c].ws, r.p = call[c].p,
             call[c].kind # "free",
             r.row \in {call[c].row, srv[call[c].p].published},
             r.run = call[c].run \/ call[c].row # None,
             r.list = call[c].list
             \/ call[c].kind # "projects"
             \/ r.list = [p \in Projects |-> IF p \in exists /\ Home[p] = call[c].ws
                                             THEN Summary(p) ELSE None]
      PROVE  ShownInv'
  <2>1. \A d \in Connections : call'[d] = IF d = c THEN r ELSE call[d]
    BY <1>2, <1>3 DEF Calls
  <2>2. FreeCalls'
    BY <1>3, <2>1 DEF ShownInv, FreeCalls, Is
  <2>3. WorkspacesFirst'
    <3>1. \A d \in Connections : call'[d].kind = call[d].kind
      BY <1>3, <2>1
    <3>2. Pristine => Pristine'
      BY <1>2, <3>1 DEF Pristine, Is
    <3> QED  BY <1>2, <3>1, <3>2 DEF ShownInv, WorkspacesFirst, Is, Awaits
  <2>4. KnownExists' /\ OpInOrder'
    BY <1>1, <1>2, KnownStays, OpStays DEF ShownInv
  <2>5. ListsInOrder'
    <3>1. LiveLists' = LiveLists
      BY <1>3, <2>1 DEF LiveLists
    <3>2. ASSUME NEW d \in LiveLists
          PROVE  /\ call'[d].ws = page'.ws
                 /\ call'[d].p # None => Awaits(d)' /\ op'.kind = "project"
                 /\ call'[d].list # None => call'[d].list = [p \in Projects |-> call'[d].list[p]]
                 /\ call'[d].list # None => \A p \in Projects :
                       /\ page'.known[p] # None => call'[d].list[p] # None
                       /\ call'[d].list[p] # None => p \in exists' /\ Home[p] = page'.ws
      <4>1. d \in Connections /\ call[d].kind = "projects"
        BY DEF LiveLists
      <4>2. \A p \in Projects : Summary(p) # None
        BY DashboardAssumption DEF Summary, ShownInv, ServerTyped, Numbers
      <4>3. call[d].ws = page.ws /\ (call[d].p # None => Awaits(d) /\ op.kind = "project")
        BY DEF ShownInv, ListsInOrder
      <4>4. \A p \in Projects : page.known[p] # None => p \in exists /\ Home[p] = page.ws
        BY DEF ShownInv, KnownExists
      <4>5. CASE call'[d].list = call[d].list
        BY <1>2, <1>3, <2>1, <4>1, <4>3, <4>5 DEF ShownInv, ListsInOrder, Awaits
      <4>6. CASE d = c /\ r.list = [p \in Projects |-> IF p \in exists /\ Home[p] = call[c].ws
                                                       THEN Summary(p) ELSE None]
        BY <1>2, <1>3, <2>1, <4>1, <4>2, <4>3, <4>4, <4>6 DEF Awaits
      <4> QED  BY <1>3, <2>1, <4>1, <4>5, <4>6
    <3> QED  BY <3>1, <3>2 DEF ShownInv, ListsInOrder
  <2>6. DataInOrder'
    <3>1. LiveData(call') = LiveData(call)
      BY <1>3, <2>1 DEF LiveData
    <3>2. ASSUME NEW d \in LiveData(call)
          PROVE  /\ call'[d].p \in Projects /\ call'[d].p = rendered'.p
                 /\ call'[d].run # None => call'[d].row # None
                 /\ call'[d].row # None =>
                       /\ call'[d].row \in Nat /\ call'[d].row <= srv'[call'[d].p].published
                       /\ page'.overview # None /\ page'.overview.p = call'[d].p =>
                             page'.overview.report <= call'[d].row
      <4>1. d \in Connections /\ call[d].live
        BY DEF LiveData
      <4>2. /\ call[d].p \in Projects /\ call[d].p = rendered.p
            /\ srv[call[d].p].published \in Nat /\ srv[call[d].p].published # None
        BY DashboardAssumption DEF ShownInv, DataInOrder, ServerTyped, Numbers
      <4>3. CASE call'[d].row = call[d].row
        BY <1>2, <1>3, <2>1, <4>1, <4>3 DEF ShownInv, DataInOrder
      <4>4. CASE d = c /\ r.row = srv[call[c].p].published
        BY <1>2, <1>3, <2>1, <4>1, <4>2, <4>4 DEF ShownInv, DataInOrder
      <4> QED  BY <1>3, <2>1, <4>1, <4>2, <4>3, <4>4
    <3> QED  BY <1>2, <3>1, <3>2 DEF ShownInv, DataInOrder
  <2> QED  BY <1>1, <2>2, <2>3, <2>4, <2>5, <2>6 DEF ShownInv, Kind
<1>4. CASE ReadRow(c)
  <2> DEFINE r == [call[c] EXCEPT !.row = srv[call[c].p].published]
  <2>1. call' = [call EXCEPT ![c] = r] /\ call[c].kind = "data"
    BY <1>4 DEF ReadRow, Is
  <2>2. /\ r.kind = call[c].kind /\ r.live = call[c].live /\ r.ws = call[c].ws /\ r.p = call[c].p
        /\ r.row = srv[call[c].p].published /\ r.list = call[c].list /\ r.run = call[c].run
    BY <1>2 DEF IsRequest
  <2> HIDE DEF r
  <2> QED  BY <1>3, <2>1, <2>2
<1>5. ASSUME NEW x, call' = [call EXCEPT ![c].run = x], Is(c, "data"), call[c].row # None PROVE ShownInv'
  <2> DEFINE r == [call[c] EXCEPT !.run = x]
  <2>1. call' = [call EXCEPT ![c] = r] /\ call[c].kind = "data"
    BY <1>5 DEF Is
  <2>2. /\ r.kind = call[c].kind /\ r.live = call[c].live /\ r.ws = call[c].ws /\ r.p = call[c].p
        /\ r.row = call[c].row /\ r.list = call[c].list
    BY <1>2 DEF IsRequest
  <2> HIDE DEF r
  <2> QED  BY <1>3, <1>5, <2>1, <2>2
<1>6. CASE ReadRest(c)
  <2> DEFINE s == srv[call[c].p].schedule
             t == Summary(call[c].p)
             r == [call[c] EXCEPT !.schedule = s, !.summary = t]
  <2>1. call' = [call EXCEPT ![c] = r] /\ call[c].kind = "data"
    BY <1>6 DEF ReadRest, Is
  <2> HIDE DEF s, t
  <2>2. /\ r.kind = call[c].kind /\ r.live = call[c].live /\ r.ws = call[c].ws /\ r.p = call[c].p
        /\ r.row = call[c].row /\ r.list = call[c].list /\ r.run = call[c].run
    BY <1>2 DEF IsRequest
  <2> HIDE DEF r
  <2> QED  BY <1>3, <2>1, <2>2
<1>7. CASE ReadList(c)
  <2>1. PICK x : /\ call' = [call EXCEPT ![c].list = x]
                 /\ \/ /\ Is(c, "projects")
                       /\ x = [p \in Projects |-> IF p \in exists /\ Home[p] = call[c].ws
                                                 THEN Summary(p) ELSE None]
                    \/ Is(c, "workspaces")
    BY <1>7 DEF ReadList
  <2> DEFINE r == [call[c] EXCEPT !.list = x]
  <2>2. call' = [call EXCEPT ![c] = r] /\ call[c].kind \in {"projects", "workspaces"}
    BY <2>1 DEF Is
  <2>3. /\ r.kind = call[c].kind /\ r.live = call[c].live /\ r.ws = call[c].ws /\ r.p = call[c].p
        /\ r.row = call[c].row /\ r.list = x /\ r.run = call[c].run
    BY <1>2 DEF IsRequest
  <2> HIDE DEF r
  <2>4. \/ call[c].kind # "projects"
        \/ x = [p \in Projects |-> IF p \in exists /\ Home[p] = call[c].ws
                                    THEN Summary(p) ELSE None]
    BY <2>1 DEF Is
  <2> QED  BY <1>3, <2>2, <2>3, <2>4
<1> QED  BY <1>4, <1>5, <1>6, <1>7 DEF Read, ReadRun

\* The answer to a call is there, or it failed; what the page shows may change.
LEMMA AnswerShown ==
    ASSUME ShownInv, [Next]_vars, NEW c \in Connections,
           DataAnswer(c) \/ DataError(c) \/ Ignored(c) \/ ListError(c)
    PROVE  ShownInv'
<1>1. Kind' /\ exists \subseteq exists' /\ \A p \in Projects : srv[p].published <= srv'[p].published
  BY StepKind DEF ShownInv, Kind
<1>2. Calls(call) /\ IsPage(page) /\ One(LiveData(call)) /\ IsRequest(call[c])
  BY DEF ShownInv, PollInv, Calls
<1>3. /\ call' = [call EXCEPT ![c] = FreeCall] /\ op' = Finished(c)
      /\ rendered' = rendered /\ call[c] # FreeCall
  BY DEF DataAnswer, DataError, Ignored, ListError, Is, Latest, FreeCall
<1>4. Kept(call, call') /\ Dead(call'[c])
  BY <1>2, <1>3, KeptFreed DEF Dead, FreeCall, Calls
<1>5. /\ OpWaits /\ WorkspacesFirst' /\ FreeCalls' /\ \A k : Same(k)
      /\ op'.current => op' = op
  BY <1>3, <1>4, Returned DEF ShownInv
<1>6. /\ page'.ws = page.ws /\ page'.p = page.p
      /\ page'.known = [p \in Projects |-> page'.known[p]]
      /\ \A p \in Projects : page'.known[p] # None <=> page.known[p] # None
  <2>1. CASE DataAnswer(c)
    <3> DEFINE got == call[c]
               o == [p |-> got.p, report |-> got.row, run |-> got.run]
               k == [page.known EXCEPT ![got.p] = IF page.known[got.p] = None THEN None ELSE got.summary]
               t == IF Unfinished(got) THEN Asked(got) ELSE None
    <3>1. page' = [page EXCEPT !.overview = o, !.schedule = got.schedule, !.known = k, !.timer = t]
      BY <2>1 DEF DataAnswer
    <3>2. got.summary # None
      BY <2>1 DEF DataAnswer
    <3>3. k = [p \in Projects |-> k[p]] /\ \A p \in Projects : k[p] # None <=> page.known[p] # None
      <4>1. page.known = [p \in Projects |-> page.known[p]]
        BY DEF ShownInv, KnownExists
      <4> QED  BY <3>2, <4>1
    <3> HIDE DEF k, o, t
    <3>4. page'.ws = page.ws /\ page'.p = page.p /\ page'.known = k
      BY <1>2, <3>1 DEF IsPage
    <3> QED  BY <3>3, <3>4
  <2>2. CASE ~DataAnswer(c)
    <3>1. page'.ws = page.ws /\ page'.p = page.p /\ page'.known = page.known
      BY <1>2, <2>2 DEF IsPage, DataError, Ignored, ListError
    <3> QED  BY <3>1 DEF ShownInv, KnownExists
  <2> QED  BY <2>1, <2>2
<1>7. KnownExists' /\ ListsInOrder'
  <2>1. ListsInOrder'
    BY <1>1, <1>5, <1>6, ListsStay DEF ShownInv
  <2> QED  BY <1>1, <1>6, <2>1 DEF ShownInv, KnownExists
<1>8. OpInOrder'
  BY <1>3, <1>5, <1>6, OpStays DEF ShownInv
<1>9. CASE Ignored(c) \/ ListError(c)
  <2>1. page' = page
    BY <1>9 DEF Ignored, ListError
  <2>2. DataInOrder'
    BY <1>1, <1>3, <1>5, <2>1, DataStays DEF ShownInv, Kind
  <2> QED  BY <1>1, <1>5, <1>7, <1>8, <2>2 DEF ShownInv, Kind
<1>10. CASE DataAnswer(c) \/ DataError(c)
  <2>1. c \in LiveData(call)
    BY <1>10 DEF DataAnswer, DataError, Is, Latest, LiveData
  <2>2. LiveData(call') = {}
    BY <1>2, <1>4, <1>5, <2>1 DEF LiveData, Same, One, Dead
  <2>3. call[c].p \in Projects /\ call[c].p = rendered.p
    BY <2>1 DEF ShownInv, DataInOrder
  <2> DEFINE got == call[c]
  <2>4. page'.timer # None => page'.timer.p = got.p
    <3>1. page'.timer \in {None, Asked(got)}
      BY <1>2, <1>10 DEF DataAnswer, DataError, Retried, IsPage
    <3> QED  BY <3>1 DEF Asked
  <2>5. page'.overview # None =>
           /\ page'.overview.p \in Projects /\ page'.overview.report \in Nat
           /\ page'.overview.report <= srv'[page'.overview.p].published
    <3>1. CASE DataAnswer(c)
      <4>1. page'.overview = [p |-> got.p, report |-> got.row, run |-> got.run] /\ srv' = srv
        BY <1>2, <3>1 DEF DataAnswer, IsPage
      <4>2. got.row # None
        BY <3>1, <2>1 DEF DataAnswer, ShownInv, DataInOrder
      <4> QED  BY <2>1, <2>3, <4>1, <4>2 DEF ShownInv, DataInOrder
    <3>2. CASE DataError(c)
      <4>1. page'.overview = page.overview /\ srv' = srv
        BY <1>2, <3>2 DEF DataError, IsPage
      <4> QED  BY <4>1 DEF ShownInv, DataInOrder
    <3> QED  BY <1>10, <3>1, <3>2
  <2>6. DataInOrder'
    BY <1>3, <2>2, <2>3, <2>4, <2>5 DEF DataInOrder
  <2> QED  BY <1>1, <1>5, <1>7, <1>8, <2>6 DEF ShownInv, Kind
<1> QED  BY <1>9, <1>10

\* A list of projects selects one of them; what was selected stays, unless a new project
\* was waited for.
LEMMA ListShown ==
    ASSUME ShownInv, [Next]_vars, NEW c \in Connections, ListAnswer(c) PROVE ShownInv'
<1> DEFINE freed  == [call EXCEPT ![c] = FreeCall]
           list   == call[c].list
           listed == {p \in Projects : list[p] # None}
<1>1. Kind' /\ exists \subseteq exists' /\ \A p \in Projects : srv[p].published <= srv'[p].published
  BY StepKind DEF ShownInv, Kind
<1>2. Calls(call) /\ IsPage(page) /\ IsRequest(call[c])
  BY DEF ShownInv, PollInv, Calls
<1>3. c \in LiveLists /\ call[c].list # None /\ call[c] # FreeCall /\ UNCHANGED <<exists, srv, rendered>>
  <2>1. /\ call[c].kind = "projects" /\ call[c].live /\ call[c].list # None
        /\ UNCHANGED <<exists, srv, rendered>>
    BY DEF ListAnswer, Is, Latest
  <2>2. FreeCall.kind = "free"
    BY DEF FreeCall
  <2> QED  BY <2>1, <2>2 DEF LiveLists
<1>4. Kept(call, freed) /\ Dead(freed[c])
  BY <1>2, KeptFreed DEF Dead, FreeCall, Calls
<1>5. /\ \A p \in Projects : /\ page.known[p] # None => list[p] # None
                             /\ list[p] # None => p \in exists /\ Home[p] = page.ws
      /\ call[c].p # None => Awaits(c)
  BY <1>3 DEF ShownInv, ListsInOrder
<1>6. None \notin listed
  BY DashboardAssumption DEF listed
<1>7. list = [p \in Projects |-> list[p]]
  BY <1>3 DEF ShownInv, ListsInOrder
<1> HIDE DEF freed, list, listed
<1>8. CASE /\ listed = {} /\ call' = Outdated(freed, "data") /\ op' = Disowned(Finished(c))
           /\ page' = [Cleared(page) EXCEPT !.known = list, !.p = None]
  <2>1. Kept(call, call') /\ Dead(call'[c])
    <3>1. Kept(freed, call')
      BY <1>8, KeptOutdated
    <3> QED  BY <1>4, <3>1, KeptTwice DEF Kept
  <2>2. /\ OpWaits /\ WorkspacesFirst' /\ FreeCalls' /\ \A k : Same(k)
    BY <1>3, <1>8, <2>1, Returned DEF ShownInv, LiveLists
  <2>3. ~op'.current
    BY <1>8, OpForms DEF ShownInv, OpTyped, Finished
  <2>4. /\ page'.ws = page.ws /\ page'.p = None /\ page'.known = list
        /\ page'.overview = None /\ page'.timer = None
    <3> DEFINE q == Cleared(page)
    <3>1. IsPage(q) /\ q.ws = page.ws /\ q.overview = None /\ q.timer = None
      BY <1>2 DEF IsPage, Cleared
    <3>2. page' = [q EXCEPT !.known = list, !.p = None]
      BY <1>8
    <3> HIDE DEF q
    <3> QED  BY <3>1, <3>2 DEF IsPage
  <2>5. KnownExists'
    BY <1>3, <1>5, <1>7, <2>4 DEF KnownExists
  <2>6. ListsInOrder'
    <3>1. LiveLists' = {}
      BY <1>3, <2>1, <2>2 DEF ShownInv, ListsInOrder, One, LiveLists, Same, Dead
    <3> QED  BY <3>1, NoListsInOrder
  <2>7. OpInOrder' /\ DataInOrder'
    <3>1. OpInOrder'
      BY <2>3 DEF OpInOrder
    <3>2. DataInOrder'
      BY <1>1, <1>3, <2>2, <2>4, DataStays DEF ShownInv, Kind
    <3> QED  BY <3>1, <3>2
  <2> QED  BY <1>1, <2>2, <2>5, <2>6, <2>7 DEF ShownInv, Kind
<1>9. ASSUME call' = freed, op' = Finished(c), NEW p \in Choices(call[c].p, page.p, listed),
             page' = [page EXCEPT !.known = list, !.p = p]
      PROVE  ShownInv'
  <2>1. /\ OpWaits /\ WorkspacesFirst' /\ FreeCalls' /\ \A k : Same(k)
        /\ op'.current => op' = op
    BY <1>3, <1>4, <1>9, Returned DEF ShownInv, LiveLists
  <2>2. /\ page'.ws = page.ws /\ page'.p = p /\ page'.known = list
        /\ page'.overview = page.overview /\ page'.timer = page.timer
    BY <1>2, <1>9 DEF IsPage
  <2>3. p \in listed /\ p \in Projects /\ list[p] # None
    BY <1>9 DEF Choices, listed
  <2>4. KnownExists'
    BY <1>3, <1>5, <1>7, <2>2, <2>3 DEF KnownExists
  <2>5. ListsInOrder'
    <3>1. LiveLists' = {}
      BY <1>3, <1>4, <1>9, <2>1 DEF ShownInv, ListsInOrder, One, LiveLists, Same, Dead
    <3> QED  BY <3>1, NoListsInOrder
  <2>6. OpInOrder'
    <3>1. op.current /\ op' = op /\ op.kind \in {"verification", "crawl"} => p = page.p
      <4>1. SUFFICES ASSUME op.current, op' = op, op.kind \in {"verification", "crawl"}
                     PROVE  p = page.p
        OBVIOUS
      <4>2. call[c].p = None
        BY <1>3, <4>1 DEF ShownInv, ListsInOrder
      <4>3. page.p \in Projects /\ page.known[page.p] # None
        BY <4>1, DashboardAssumption DEF ShownInv, OpInOrder, KnownExists
      <4>4. page.p \in listed
        BY <1>5, <4>3 DEF listed
      <4> QED  BY <1>6, <1>9, <4>2, <4>4 DEF Choices
    <3> QED  BY <1>3, <2>1, <2>2, <3>1, OpStays DEF ShownInv
  <2>7. DataInOrder'
    BY <1>1, <1>3, <2>1, <2>2, DataStays DEF ShownInv, Kind
  <2> QED  BY <1>1, <2>1, <2>4, <2>5, <2>6, <2>7 DEF ShownInv, Kind
<1> QED  BY <1>8, <1>9 DEF ListAnswer, freed, list, listed

\* Workspaces are listed before there is anything else, or for one that was created and is
\* selected then.
LEMMA WorkspacesShown ==
    ASSUME ShownInv, [Next]_vars, NEW c \in Connections, WorkspacesAnswer(c) PROVE ShownInv'
<1> DEFINE freed == [call EXCEPT ![c] = FreeCall]
<1>1. Kind' /\ exists \subseteq exists' /\ \A p \in Projects : srv[p].published <= srv'[p].published
  BY StepKind DEF ShownInv, Kind
<1>2. Calls(call) /\ IsPage(page) /\ IsRequest(call[c])
  BY DEF ShownInv, PollInv, Calls
<1>3. Is(c, "workspaces") /\ call[c] # FreeCall /\ op' = Finished(c) /\ UNCHANGED <<exists, srv, rendered>>
  <2>1. call[c].kind = "workspaces" /\ op' = Finished(c) /\ UNCHANGED <<exists, srv, rendered>>
    BY DEF WorkspacesAnswer, Is
  <2>2. FreeCall.kind = "free"
    BY DEF FreeCall
  <2> QED  BY <2>1, <2>2 DEF Is
<1>4. Kept(call, freed) /\ Dead(freed[c])
  BY <1>2, KeptFreed DEF Dead, FreeCall, Calls
<1>5. Awaits(c) \/ Pristine
  BY <1>3 DEF ShownInv, WorkspacesFirst
<1> HIDE DEF freed
<1>6. ASSUME Pristine, ~Awaits(c), call' = freed, NEW W, NEW ws,
             page' = page \/ page' = [page EXCEPT !.workspaces = W, !.ws = ws]
      PROVE  ShownInv'
  <2>1. /\ OpWaits /\ WorkspacesFirst' /\ FreeCalls' /\ \A k : Same(k)
        /\ op'.current => op' = op
    BY <1>3, <1>4, <1>6, Returned DEF ShownInv
  <2>2. page'.p = None /\ page'.overview = None /\ page'.timer = None /\ page'.known = page.known
    BY <1>2, <1>6 DEF IsPage, Pristine, EmptyPage
  <2>3. ~op'.current
    BY <1>6, <2>1, OpForms DEF Pristine
  <2>4. page.known = [p \in Projects |-> None]
    BY <1>6 DEF Pristine, EmptyPage
  <2>5. KnownExists'
    BY <2>2, <2>4 DEF KnownExists
  <2>6. LiveLists' = {}
    BY <1>6, <2>1 DEF LiveLists, Same, Pristine
  <2>7. DataInOrder'
    BY <1>1, <1>3, <2>1, <2>2, DataStays DEF ShownInv, Kind
  <2>8. OpInOrder' /\ ListsInOrder'
    BY <2>3, <2>6, NoListsInOrder DEF OpInOrder
  <2> QED  BY <1>1, <2>1, <2>5, <2>7, <2>8 DEF ShownInv, Kind
<1>7. CASE /\ Awaits(c) /\ call' = Outdated(Outdated(freed, "projects"), "data")
           /\ page' = [Cleared(page) EXCEPT !.workspaces = call[c].list, !.ws = op.target,
                                            !.p = None, !.known = EmptyPage.known]
  <2> DEFINE g == Outdated(freed, "projects")
  <2>1. /\ Kept(freed, g) /\ Kept(g, call')
        /\ \A d \in Connections : g[d].kind = "projects" => ~g[d].live
    BY <1>7, KeptOutdated
  <2> HIDE DEF g
  <2>2. Kept(call, call') /\ Dead(call'[c])
    BY <1>4, <2>1, KeptTwice DEF Kept
  <2>3. /\ OpWaits /\ WorkspacesFirst' /\ FreeCalls' /\ \A k : Same(k)
    BY <1>3, <2>2, Returned DEF ShownInv
  <2>4. op' = NoOp
    BY <1>3, <1>7 DEF Finished, Awaits
  <2>5. /\ page'.p = None /\ page'.known = EmptyPage.known
        /\ page'.overview = None /\ page'.timer = None
    <3> DEFINE q == Cleared(page)
               k == EmptyPage.known
    <3>1. IsPage(q) /\ q.overview = None /\ q.timer = None
      BY <1>2 DEF IsPage, Cleared
    <3>2. page' = [q EXCEPT !.workspaces = call[c].list, !.ws = op.target, !.p = None, !.known = k]
      BY <1>7
    <3> HIDE DEF q, k
    <3>3. page'.p = None /\ page'.known = k /\ page'.overview = None /\ page'.timer = None
      BY <3>1, <3>2 DEF IsPage
    <3> QED  BY <3>3 DEF k
  <2>6. EmptyPage.known = [p \in Projects |-> None]
    BY DEF EmptyPage
  <2>7. KnownExists'
    BY <2>5, <2>6 DEF KnownExists
  <2>8. LiveLists' = {}
    BY <2>1 DEF LiveLists, Kept, Dead
  <2>9. DataInOrder'
    BY <1>1, <1>3, <2>3, <2>5, DataStays DEF ShownInv, Kind
  <2>10. OpInOrder' /\ ListsInOrder'
    BY <2>4, <2>8, OpForms, NoListsInOrder DEF OpInOrder
  <2> QED  BY <1>1, <2>3, <2>7, <2>9, <2>10 DEF ShownInv, Kind
<1> QED  BY <1>5, <1>6, <1>7 DEF WorkspacesAnswer, Awaits, freed

-----------------------------------------------------------------------------
(* Steps that ask for something. *)

LEMMA EffectsParts ==
    ASSUME Calls(call), NEW ws, NEW p, call' = Effects(call, ws, p)
    PROVE  \E g, h :
              /\ Kept(call, g)
              /\ \A c \in Connections : g[c].kind = "data" => ~g[c].live
              /\ rendered.ws # ws => \A c \in Connections : g[c].kind = "projects" => ~g[c].live
              /\ IF rendered.ws # ws THEN Adds(g, Request("projects", ws, None), h) ELSE h = g
              /\ IF p # None THEN Adds(h, Request("data", ws, p), call') ELSE call' = h
<1> DEFINE moved == rendered.ws # ws
           f     == IF moved THEN Outdated(call, "projects") ELSE call
           g     == Outdated(f, "data")
           r     == Request("projects", ws, None)
           s     == Request("data", ws, p)
           h     == IF moved THEN With(g, r) ELSE g
<1>1. call' = IF p # None THEN With(h, s) ELSE h
  BY DEF Effects
<1>2. Calls(f) /\ Kept(call, f) /\ (moved => \A c \in Connections : f[c].kind = "projects" => ~f[c].live)
  <2>1. Kept(call, call)
    BY DEF Kept
  <2> QED  BY <2>1, KeptOutdated, OutdatedCalls DEF Kinds
<1> HIDE DEF f
<1>3. Calls(g) /\ Kept(f, g) /\ \A c \in Connections : g[c].kind = "data" => ~g[c].live
  BY <1>2, KeptOutdated, OutdatedCalls DEF Kinds
<1> HIDE DEF g
<1>4. Calls(With(g, r)) /\ Adds(g, r, With(g, r))
  BY <1>3, ProjectsRequested, WithEntry
<1>5. Calls(h) /\ IF moved THEN Adds(g, r, h) ELSE h = g
  BY <1>3, <1>4
<1> HIDE DEF h, r, s, moved
<1>6. IF p # None THEN Adds(h, s, call') ELSE call' = h
  BY <1>1, <1>5, WithEntry
<1>7. Kept(call, g)
  BY <1>2, <1>3, KeptTwice
<1>8. moved => \A c \in Connections : g[c].kind = "projects" => ~g[c].live
  BY <1>2, <1>3 DEF Kept, Dead
<1> QED  BY <1>3, <1>5, <1>6, <1>7, <1>8 DEF moved, r, s

\* Each connection has one of the two new calls, or one from before that still counts only
\* if it is for projects and the workspace is the same.
LEMMA EffectsEntries ==
    ASSUME Calls(call), NEW ws, NEW p, call' = Effects(call, ws, p)
    PROVE  \A c \in Connections :
              \/ call'[c] = Request("data", ws, p) /\ p # None
              \/ call'[c] = Request("projects", ws, None) /\ rendered.ws # ws
              \/ /\ call'[c] = call[c] \/ Dead(call'[c])
                 /\ ~(call'[c].kind = "data" /\ call'[c].live)
                 /\ rendered.ws # ws => ~(call'[c].kind = "projects" /\ call'[c].live)
<1> DEFINE r == Request("projects", ws, None)
           s == Request("data", ws, p)
<1>1. PICK g, h :
         /\ Kept(call, g)
         /\ \A c \in Connections : g[c].kind = "data" => ~g[c].live
         /\ rendered.ws # ws => \A c \in Connections : g[c].kind = "projects" => ~g[c].live
         /\ IF rendered.ws # ws THEN Adds(g, r, h) ELSE h = g
         /\ IF p # None THEN Adds(h, s, call') ELSE call' = h
  BY EffectsParts
<1> HIDE DEF r, s
<1>2. \A c \in Connections : h[c] = g[c] \/ (h[c] = r /\ rendered.ws # ws)
  <2>1. rendered.ws # ws => Adds(g, r, h)
    BY <1>1
  <2>2. Adds(g, r, h) => \A c \in Connections : h[c] = g[c] \/ h[c] = r
    BY AddedEntries
  <2> QED  BY <1>1, <2>1, <2>2
<1>3. \A c \in Connections : call'[c] = h[c] \/ (call'[c] = s /\ p # None)
  <2>1. p # None => Adds(h, s, call')
    BY <1>1
  <2>2. Adds(h, s, call') => \A c \in Connections : call'[c] = h[c] \/ call'[c] = s
    BY AddedEntries
  <2> QED  BY <1>1, <2>1, <2>2
<1>4. ASSUME NEW c \in Connections, call'[c] = g[c]
      PROVE  /\ call'[c] = call[c] \/ Dead(call'[c])
             /\ ~(call'[c].kind = "data" /\ call'[c].live)
             /\ rendered.ws # ws => ~(call'[c].kind = "projects" /\ call'[c].live)
  BY <1>1, <1>4 DEF Kept
<1>5. \A c \in Connections : \/ call'[c] = s /\ p # None
                             \/ call'[c] = r /\ rendered.ws # ws
                             \/ call'[c] = g[c]
  BY <1>2, <1>3
<1> QED  BY <1>4, <1>5 DEF r, s

\* At most one of the calls after the effects is for a list and counts.
LEMMA OneListing ==
    ASSUME Calls(call), One(LiveLists), NEW ws, NEW p, call' = Effects(call, ws, p)
    PROVE  One(LiveLists')
<1> DEFINE r == Request("projects", ws, None)
           s == Request("data", ws, p)
<1>1. s.kind # "projects"
  BY RequestFields
<1>2. PICK g, h :
         /\ Kept(call, g)
         /\ rendered.ws # ws => \A c \in Connections : g[c].kind = "projects" => ~g[c].live
         /\ IF rendered.ws # ws THEN Adds(g, r, h) ELSE h = g
         /\ IF p # None THEN Adds(h, s, call') ELSE call' = h
  BY EffectsParts
<1> HIDE DEF r, s
<1> DEFINE Lists(x) == {c \in Connections : x[c].kind = "projects" /\ x[c].live}
<1>3. Lists(call') \subseteq Lists(h)
  BY <1>1, <1>2 DEF Adds
<1>4. CASE rendered.ws # ws
  <2>1. PICK b : \A c \in Connections : h[c] = IF c = b THEN r ELSE g[c]
    BY <1>2, <1>4 DEF Adds
  <2>2. \A c \in Lists(h) : c = b
    BY <1>2, <1>4, <2>1
  <2> QED  BY <1>3, <2>2 DEF One, LiveLists
<1>5. CASE rendered.ws = ws
  <2>1. Lists(h) \subseteq LiveLists
    BY <1>2, <1>5 DEF LiveLists, Kept, Dead
  <2> QED  BY <1>3, <2>1 DEF One, LiveLists
<1> QED  BY <1>4, <1>5

\* The selection changes, or is rendered.
LEMMA EffectsShown ==
    ASSUME ShownInv, [Next]_vars, NEW ws, NEW p, p # None => p \in Projects,
           call' = Effects(call, ws, p), rendered' = [ws |-> ws, p |-> p],
           page'.ws = ws, page'.p = p, page'.timer = None, page'.overview \in {page.overview, None},
           UNCHANGED <<exists, srv>>, KnownExists', ~Pristine,
           \/ /\ ws = page.ws /\ p = page.p /\ op' = op
              /\ \A q \in Projects : page'.known[q] # None => page.known[q] # None
           \/ /\ op' = Disowned(op) /\ rendered = Selection
              /\ \/ ws # page.ws
                 \/ ws = page.ws /\ page'.known = page.known
    PROVE  ShownInv'
<1>1. Kind' /\ exists \subseteq exists' /\ \A q \in Projects : srv[q].published <= srv'[q].published
  BY StepKind DEF ShownInv, Kind
<1>2. Calls(call) /\ One(LiveLists) /\ IsOp(op)
  BY DEF ShownInv, PollInv, ListsInOrder, OpTyped
<1> DEFINE data == Request("data", ws, p)
           listing == Request("projects", ws, None)
<1>3. /\ data.kind = "data" /\ data.p = p /\ data.row = None /\ data.run = None
      /\ listing.kind = "projects" /\ listing.ws = ws /\ listing.p = None /\ listing.list = None
  BY RequestFields
<1> HIDE DEF data, listing
<1>4. \A c \in Connections :
         \/ call'[c] = data /\ p # None
         \/ call'[c] = listing /\ rendered.ws # ws
         \/ /\ call'[c] = call[c] \/ Dead(call'[c])
            /\ ~(call'[c].kind = "data" /\ call'[c].live)
            /\ rendered.ws # ws => ~(call'[c].kind = "projects" /\ call'[c].live)
  BY <1>2, EffectsEntries DEF data, listing
<1>5. OpWaits /\ (op'.current => op.current /\ op' = op) /\ op'.kind = op.kind
      /\ \A c \in Connections : Awaits(c)' <=> Awaits(c)
  BY <1>2, OpForms DEF OpWaits, Awaits
<1>6. FreeCalls'
  BY <1>3, <1>4 DEF ShownInv, FreeCalls, Is, Dead
<1>7. WorkspacesFirst'
  <2>1. Same("workspaces")
    BY <1>3, <1>4 DEF Same, Dead
  <2> QED  BY <1>5, <2>1, WorkspacesStay DEF ShownInv
<1>8. ListsInOrder'
  <2>1. One(LiveLists')
    BY <1>2, OneListing
  <2>2. ASSUME NEW c \in LiveLists'
        PROVE  /\ call'[c].ws = page'.ws
               /\ call'[c].p # None => Awaits(c)' /\ op'.kind = "project"
               /\ call'[c].list # None => call'[c].list = [q \in Projects |-> call'[c].list[q]]
               /\ call'[c].list # None => \A q \in Projects :
                     /\ page'.known[q] # None => call'[c].list[q] # None
                     /\ call'[c].list[q] # None => q \in exists' /\ Home[q] = page'.ws
    <3>1. c \in Connections /\ call'[c].kind = "projects" /\ call'[c].live
      BY DEF LiveLists
    <3>2. CASE call'[c] = listing
      BY <1>3, <3>2
    <3>3. CASE call'[c] # listing
      <4>1. call'[c] = call[c] /\ c \in LiveLists /\ rendered.ws = ws
        BY <1>3, <1>4, <3>1, <3>3 DEF Dead, LiveLists
      <4>2. ws = page.ws /\ \A q \in Projects : page'.known[q] # None => page.known[q] # None
        BY <4>1 DEF Selection
      <4> QED  BY <1>5, <3>1, <4>1, <4>2 DEF ShownInv, ListsInOrder
    <3> QED  BY <3>2, <3>3
  <2> QED  BY <2>1, <2>2 DEF ListsInOrder
<1>9. OpInOrder'
  <2>1. op'.current => op.current /\ op' = op /\ ws = page.ws /\ p = page.p
    BY <1>2, <1>5, OpForms
  <2> QED  BY <2>1 DEF ShownInv, OpInOrder
<1>10. DataInOrder'
  <2>1. \A c \in LiveData(call') : call'[c] = data /\ p # None
    BY <1>3, <1>4 DEF LiveData
  <2>2. page'.overview # None =>
           /\ page'.overview.p \in Projects /\ page'.overview.report \in Nat
           /\ page'.overview.report <= srv'[page'.overview.p].published
    BY DEF ShownInv, DataInOrder
  <2> QED  BY <1>3, <2>1, <2>2 DEF DataInOrder
<1> QED  BY <1>1, <1>6, <1>7, <1>8, <1>9, <1>10 DEF ShownInv, Kind

LEMMA RenderShown == ASSUME ShownInv, [Next]_vars, Render PROVE ShownInv'
<1>1. IsPage(page) /\ page' = [page EXCEPT !.timer = None]
  BY DEF Render, ShownInv, PollInv
<1>2. /\ page'.ws = page.ws /\ page'.p = page.p /\ page'.timer = None
      /\ page'.overview = page.overview /\ page'.known = page.known
  BY <1>1 DEF IsPage
<1>3. /\ call' = Effects(call, page.ws, page.p) /\ rendered' = [ws |-> page.ws, p |-> page.p]
      /\ op' = op /\ UNCHANGED <<exists, srv>>
  BY DEF Render, Selection
<1>4. KnownExists'
  BY <1>2, <1>3, KnownStays DEF ShownInv
<1>5. ~Pristine
  BY DEF Render, Pristine, Selection, EmptyPage
<1>6. page.p # None => page.p \in Projects
  BY DEF ShownInv, KnownExists
<1> QED  BY <1>2, <1>3, <1>4, <1>5, <1>6, EffectsShown

\* A click selects something else.
LEMMA SelectShown ==
    ASSUME ShownInv, [Next]_vars,
           (\E ws \in Workspaces : SelectWorkspace(ws)) \/ (\E p \in Projects : SelectProject(p))
    PROVE  ShownInv'
<1> DEFINE q == Cleared(page)
<1>1. IsPage(page)
  BY DEF ShownInv, PollInv
<1>2. /\ IsPage(q) /\ q.ws = page.ws /\ q.known = page.known
      /\ q.timer = None /\ q.overview = None
  BY <1>1 DEF IsPage, Cleared
<1>3. ASSUME NEW ws \in Workspaces, SelectWorkspace(ws) PROVE ShownInv'
  <2> DEFINE k == EmptyPage.known
  <2>1. /\ page' = [q EXCEPT !.ws = ws, !.p = None, !.known = k]
        /\ call' = Effects(call, ws, None) /\ rendered' = [ws |-> ws, p |-> None]
        /\ op' = Disowned(op) /\ rendered = Selection /\ UNCHANGED <<exists, srv>> /\ ws # page.ws
    BY <1>3 DEF SelectWorkspace, Click
  <2>2. k = [p \in Projects |-> None]
    BY DEF EmptyPage
  <2>3. ~Pristine
    <3>1. ws \in page.workspaces
      BY <1>3 DEF SelectWorkspace
    <3>2. EmptyPage.workspaces = {}
      BY DEF EmptyPage
    <3> QED  BY <3>1, <3>2 DEF Pristine
  <2> HIDE DEF q, k
  <2>4. /\ page'.ws = ws /\ page'.p = None /\ page'.known = k
        /\ page'.timer = None /\ page'.overview = None
    BY <1>2, <2>1 DEF IsPage
  <2>5. KnownExists'
    BY <2>2, <2>4 DEF KnownExists
  <2> QED  BY <2>1, <2>3, <2>4, <2>5, EffectsShown
<1>4. ASSUME NEW p \in Projects, SelectProject(p) PROVE ShownInv'
  <2>1. /\ page' = [q EXCEPT !.p = p]
        /\ call' = Effects(call, page.ws, p) /\ rendered' = [ws |-> page.ws, p |-> p]
        /\ op' = Disowned(op) /\ rendered = Selection /\ UNCHANGED <<exists, srv>>
        /\ page.known[p] # None
    BY <1>4 DEF SelectProject, Click
  <2>2. ~Pristine
    BY <2>1 DEF Pristine, EmptyPage
  <2> HIDE DEF q
  <2>3. /\ page'.ws = page.ws /\ page'.p = p /\ page'.known = page.known
        /\ page'.timer = None /\ page'.overview = None
    BY <1>2, <2>1 DEF IsPage
  <2>4. KnownExists'
    BY <2>1, <2>3 DEF ShownInv, KnownExists
  <2> QED  BY <2>1, <2>2, <2>3, <2>4, EffectsShown
<1> QED  BY <1>3, <1>4

\* The data of the project rendered are asked for again.
LEMMA LoadShown ==
    ASSUME ShownInv, [Next]_vars, NEW ws, NEW p \in Projects, p = rendered.p, Load(ws, p),
           UNCHANGED <<exists, srv, rendered>>,
           op' = op \/ op.stage = "served",
           op'.current => op.current /\ op'.kind = op.kind /\ op'.target = op.target
    PROVE  ShownInv'
<1> DEFINE g == Outdated(call, "data")
           s == Request("data", ws, p)
<1>1. Kind' /\ exists \subseteq exists' /\ \A q \in Projects : srv[q].published <= srv'[q].published
  BY StepKind DEF ShownInv, Kind
<1>2. Calls(call) /\ IsPage(page)
  BY DEF ShownInv, PollInv
<1>3. call' = With(g, s) /\ page' = [page EXCEPT !.timer = None]
  BY DEF Load, Loading
<1>4. /\ Calls(g) /\ Kept(call, g)
      /\ \A c \in Connections : g[c].kind = "data" => ~g[c].live
  BY <1>2, OutdatedCalls, KeptOutdated DEF Kinds
<1>5. s.kind = "data" /\ s.p = p /\ s.row = None /\ s.run = None
  BY RequestFields
<1> HIDE DEF g, s
<1>6. \A c \in Connections :
         \/ call'[c] = s
         \/ (call'[c] = call[c] \/ Dead(call'[c])) /\ ~(call'[c].kind = "data" /\ call'[c].live)
  <2>1. Adds(g, s, call')
    BY <1>3, <1>4, WithEntry
  <2>2. \A c \in Connections : call'[c] = g[c] \/ call'[c] = s
    BY <2>1, AddedEntries
  <2> QED  BY <1>4, <2>2 DEF Kept
<1>7. /\ page'.ws = page.ws /\ page'.p = page.p /\ page'.timer = None
      /\ page'.overview = page.overview /\ page'.known = page.known
  BY <1>2, <1>3 DEF IsPage
<1>8. OpWaits
  BY DEF OpWaits, Awaits
<1>9. Same("projects") /\ Same("workspaces")
  BY <1>5, <1>6 DEF Same, Dead
<1>10. FreeCalls'
  BY <1>5, <1>6 DEF ShownInv, FreeCalls, Is, Dead
<1>11. WorkspacesFirst'
  <2>1. ~Pristine
    BY DashboardAssumption DEF Pristine
  <2> QED  BY <1>8, <1>9, <2>1, WorkspacesStay DEF ShownInv
<1>12. KnownExists' /\ ListsInOrder' /\ OpInOrder'
  BY <1>1, <1>7, <1>8, <1>9, KnownStays, ListsStay, OpStays DEF ShownInv
<1>13. DataInOrder'
  <2>1. \A c \in LiveData(call') : call'[c] = s
    BY <1>6 DEF LiveData
  <2>2. page'.overview # None =>
           /\ page'.overview.p \in Projects /\ page'.overview.report \in Nat
           /\ page'.overview.report <= srv'[page'.overview.p].published
    BY <1>7 DEF ShownInv, DataInOrder
  <2> QED  BY <1>5, <1>7, <2>1, <2>2 DEF DataInOrder
<1> QED  BY <1>1, <1>10, <1>11, <1>12, <1>13 DEF ShownInv, Kind

LEMMA PollShown == ASSUME ShownInv, [Next]_vars, Poll PROVE ShownInv'
<1>1. page.timer.p \in Projects /\ page.timer.p = rendered.p
  BY DEF Poll, ShownInv, DataInOrder
<1> QED  BY <1>1, LoadShown DEF Poll

\* The operation waits for the call r, which is new among those of g.
LoadsNew(g, r) ==
    \E b \in Connections : /\ \A c \in Connections : call'[c] = IF c = b THEN r ELSE g[c]
                           /\ op' = [op EXCEPT !.stage = "load", !.conn = b]

LEMMA LoadsConnection ==
    ASSUME FreeCalls, OpTyped, Free # {}, NEW g, Calls(g),
           \A c \in Connections : g[c] = FreeCall <=> call[c] = FreeCall,
           NEW r, r # FreeCall, call' = With(g, r), op' = Loads
    PROVE  LoadsNew(g, r)
<1>1. PICK b : /\ \A c \in Connections : With(g, r)[c] = IF c = b THEN r ELSE g[c]
               /\ (\E c \in Connections : g[c] = FreeCall) => b \in Connections /\ g[b] = FreeCall
  BY WithAdds
<1>2. \E c \in Connections : g[c] = FreeCall
  BY DEF FreeCalls, Free
<1>3. b \in Connections /\ call[b] = FreeCall
  BY <1>1, <1>2
<1>4. \A c \in Connections : call'[c] = IF c = b THEN r ELSE g[c]
  BY <1>1
<1>5. (CHOOSE c \in Connections : call[c] = FreeCall /\ call'[c] # FreeCall) = b
  BY <1>3, <1>4
<1>6. op' = [op EXCEPT !.stage = "load", !.conn = b]
  BY <1>5 DEF Loads
<1> QED  BY <1>3, <1>4, <1>6 DEF LoadsNew

\* An operation that has had its effect makes the page load what came of it.
LEMMA OpAnswerShown == ASSUME ShownInv, [Next]_vars, OpAnswer PROVE ShownInv'
<1>1. Kind' /\ exists \subseteq exists' /\ \A q \in Projects : srv[q].published <= srv'[q].published
  BY StepKind DEF ShownInv, Kind
<1>2. Calls(call) /\ IsPage(page) /\ IsOp(op) /\ op.stage = "served" /\ UNCHANGED <<exists, srv, rendered>>
  BY DEF ShownInv, PollInv, OpTyped, OpAnswer
<1>3. OpWaits /\ ~Pristine /\ \A c \in Connections : ~Awaits(c)
  BY <1>2, OpForms DEF OpWaits, Awaits, Pristine
<1>4. ASSUME op' = Loads
      PROVE  op'.current = op.current /\ op'.kind = op.kind /\ op'.target = op.target
  <2>1. PICK b : op' = [op EXCEPT !.stage = "load", !.conn = b]
    BY <1>4 DEF Loads
  <2> QED  BY <1>2, <2>1 DEF IsOp
<1>5. CASE /\ op.kind = "workspace" /\ Free # {} /\ page' = page /\ op' = Loads
           /\ call' = With(call, Request("workspaces", None, None))
  <2> DEFINE r == Request("workspaces", None, None)
  <2>1. r.kind = "workspaces" /\ r # FreeCall
    BY RequestFields
  <2>2. call' = With(call, r)
    BY <1>5
  <2> HIDE DEF r
  <2>3. PICK b \in Connections : /\ \A c \in Connections : call'[c] = IF c = b THEN r ELSE call[c]
                                 /\ op' = [op EXCEPT !.stage = "load", !.conn = b]
    <3>1. LoadsNew(call, r)
      BY <1>2, <1>5, <2>1, <2>2, LoadsConnection DEF ShownInv
    <3> QED  BY <3>1 DEF LoadsNew
  <2>4. op'.stage = "load" /\ op'.conn = b
    BY <1>2, <2>3 DEF IsOp
  <2>5. FreeCalls'
    BY <2>1, <2>3 DEF ShownInv, FreeCalls, Is
  <2>6. WorkspacesFirst'
    BY <1>3, <2>3, <2>4 DEF ShownInv, WorkspacesFirst, Is, Awaits
  <2>7. Same("projects") /\ Same("data")
    BY <2>1, <2>3 DEF Same
  <2>8. KnownExists' /\ ListsInOrder' /\ OpInOrder' /\ DataInOrder'
    BY <1>1, <1>2, <1>3, <1>4, <1>5, <2>7, KnownStays, ListsStay, OpStays, DataStays DEF ShownInv, Kind
  <2> QED  BY <1>1, <2>5, <2>6, <2>8 DEF ShownInv, Kind
<1>6. CASE /\ op.kind = "project" /\ op.current /\ Free # {} /\ page' = page /\ op' = Loads
           /\ call' = With(Outdated(call, "projects"), Request("projects", Home[op.target], op.target))
  <2> DEFINE g == Outdated(call, "projects")
             r == Request("projects", Home[op.target], op.target)
  <2>1. /\ r.kind = "projects" /\ r # FreeCall /\ r.ws = Home[op.target] /\ r.p = op.target
        /\ r.list = None
    BY RequestFields
  <2>2. /\ Calls(g) /\ Kept(call, g)
        /\ \A c \in Connections : g[c].kind = "projects" => ~g[c].live
        /\ \A c \in Connections : g[c] = FreeCall <=> call[c] = FreeCall
    BY <1>2, OutdatedCalls, KeptOutdated DEF Kinds
  <2>3. call' = With(g, r)
    BY <1>6
  <2> HIDE DEF g, r
  <2>4. PICK b \in Connections : /\ \A c \in Connections : call'[c] = IF c = b THEN r ELSE g[c]
                                 /\ op' = [op EXCEPT !.stage = "load", !.conn = b]
    <3>1. LoadsNew(g, r)
      BY <1>6, <2>1, <2>2, <2>3, LoadsConnection DEF ShownInv
    <3> QED  BY <3>1 DEF LoadsNew
  <2>5. op'.stage = "load" /\ op'.conn = b /\ op'.kind = "project"
    BY <1>2, <1>6, <2>4 DEF IsOp
  <2>6. FreeCalls'
    BY <2>1, <2>2, <2>4 DEF ShownInv, FreeCalls, Is, Kept, Dead
  <2>7. Same("data") /\ Same("workspaces")
    BY <2>1, <2>2, <2>4 DEF Same, Kept, Dead
  <2>8. WorkspacesFirst'
    BY <1>3, <2>7, WorkspacesStay DEF ShownInv
  <2>9. ListsInOrder'
    <3>1. \A c \in LiveLists' : c = b /\ call'[c] = r
      BY <2>2, <2>4 DEF LiveLists
    <3>2. Home[op.target] = page'.ws
      BY <1>6 DEF ShownInv, OpInOrder
    <3> QED  BY <2>1, <2>5, <3>1, <3>2 DEF ListsInOrder, One, Awaits
  <2>10. KnownExists' /\ OpInOrder' /\ DataInOrder'
    BY <1>1, <1>2, <1>4, <1>6, <2>7, KnownStays, OpStays, DataStays DEF ShownInv, Kind
  <2> QED  BY <1>1, <2>6, <2>8, <2>9, <2>10 DEF ShownInv, Kind
<1>7. CASE op.kind \in {"verification", "crawl"} /\ op.current /\ Load(Home[op.target], op.target) /\ op' = Loads
  <2>1. op.target \in Projects /\ op.target = rendered.p
    BY <1>7 DEF ShownInv, OpInOrder
  <2> QED  BY <1>2, <1>4, <1>7, <2>1, LoadShown
<1>8. CASE op' = NoOp /\ call' = call /\ page' = [page EXCEPT !.schedule = op.on]
  <2>1. /\ page'.ws = page.ws /\ page'.p = page.p /\ page'.timer = page.timer
        /\ page'.overview = page.overview /\ page'.known = page.known
    BY <1>2, <1>8 DEF IsPage
  <2>2. Kept(call, call') /\ ~op'.current
    BY <1>8, OpForms DEF Kept
  <2>3. FreeCalls' /\ WorkspacesFirst'
    BY <1>3, <2>2, KeptSame, FreeStays, WorkspacesStay DEF ShownInv
  <2>4. KnownExists' /\ ListsInOrder' /\ OpInOrder'
    BY <1>1, <1>3, <2>1, <2>2, KeptSame, KnownStays, ListsStay, OpStays DEF ShownInv
  <2>5. DataInOrder'
    BY <1>1, <1>2, <2>1, <2>2, KeptSame, DataStays DEF ShownInv, Kind
  <2> QED  BY <1>1, <2>3, <2>4, <2>5 DEF ShownInv, Kind
<1>9. CASE op' = NoOp /\ UNCHANGED <<page, call>>
  BY <1>2, <1>9, OpForms, QuietShown
<1> QED  BY <1>5, <1>6, <1>7, <1>8, <1>9 DEF OpAnswer

LEMMA ShownStep == ASSUME Patient, ShownInv, [Next]_vars PROVE ShownInv'
<1>1. CASE \E c \in Connections : Read(c) \/ Answer(c) \/ DataError(c) \/ ListError(c)
  BY <1>1, ReadShown, AnswerShown, ListShown, WorkspacesShown DEF Answer
<1>2. CASE (\E ws \in Workspaces : SelectWorkspace(ws)) \/ (\E p \in Projects : SelectProject(p))
  BY <1>2, SelectShown
<1>3. CASE \/ TakesEffect \/ OpError \/ UNCHANGED vars
           \/ \E p \in Projects : StartRun(p) \/ Finish(p)
  BY <1>3, ElsewhereShown
<1> QED  BY <1>1, <1>2, <1>3, RenderShown, PollShown, OperateShown, OpAnswerShown DEF Next

LEMMA ShownInit == ASSUME Init PROVE ShownInv
<1> DEFINE free == [c \in Connections |-> FreeCall]
           r    == Request("workspaces", None, None)
<1>1. \A c \in Connections : free[c] = FreeCall
  OBVIOUS
<1>2. Calls(free)
  <2>1. free = [c \in Connections |-> free[c]]
    OBVIOUS
  <2> HIDE DEF free
  <2> QED  BY <1>1, <2>1, Requests DEF Calls
<1>3. call = With(free, r) /\ page = EmptyPage /\ op = NoOp /\ rendered = [ws |-> None, p |-> None]
  BY DEF Init
<1>4. r.kind = "workspaces" /\ FreeCall.kind = "free"
  BY RequestFields DEF FreeCall
<1> HIDE DEF free, r
<1>5. PICK b : \A c \in Connections : call[c] = IF c = b THEN r ELSE FreeCall
  <2>1. Adds(free, r, call)
    BY <1>2, <1>3, WithEntry
  <2> QED  BY <1>1, <2>1 DEF Adds
<1>6. Pristine
  BY <1>3, <1>4, <1>5 DEF Pristine, Is, One
<1>7. FreeCalls /\ WorkspacesFirst
  BY <1>4, <1>5, <1>6 DEF FreeCalls, WorkspacesFirst, Is
<1>8. LiveLists = {} /\ LiveData(call) = {}
  BY <1>4, <1>5 DEF LiveLists, LiveData
<1>9. /\ page.known = [p \in Projects |-> None] /\ page.p = None
      /\ page.overview = None /\ page.timer = None
  BY <1>3 DEF EmptyPage
<1>10. KnownExists /\ ListsInOrder /\ OpInOrder /\ DataInOrder /\ OpTyped
  BY <1>3, <1>8, <1>9, OpForms DEF KnownExists, ListsInOrder, One, OpInOrder, DataInOrder, OpTyped
<1>11. ServerTyped
  <2>1. srv = [p \in Projects |-> [FreshProject EXCEPT !.valid = (p \in Founded)]]
    BY DEF Init
  <2>2. ASSUME NEW p \in Projects
        PROVE  srv[p] \in Numbers /\ srv[p].published <= srv[p].run
    <3> DEFINE v == p \in Founded
    <3>1. v \in BOOLEAN /\ srv[p] = [FreshProject EXCEPT !.valid = v]
      BY <2>1
    <3> HIDE DEF v
    <3>2. FreshProject \in Numbers /\ FreshProject.published = 0 /\ FreshProject.run = 0
      BY DEF FreshProject, Numbers
    <3> DEFINE fresh == FreshProject
    <3> HIDE DEF fresh
    <3>3. ASSUME NEW w \in BOOLEAN, fresh \in Numbers
          PROVE  /\ [fresh EXCEPT !.valid = w] \in Numbers
                 /\ [fresh EXCEPT !.valid = w].published = fresh.published
                 /\ [fresh EXCEPT !.valid = w].run = fresh.run
      BY <3>3 DEF Numbers
    <3> QED  BY <3>1, <3>2, <3>3 DEF fresh
  <2>3. srv = [p \in Projects |-> srv[p]]
    BY <2>1
  <2> QED  BY <2>2, <2>3 DEF ServerTyped
<1> QED  BY <1>7, <1>10, <1>11, PollInit DEF ShownInv

\* Only an answer that counts shows an overview; any other step leaves it or clears it.
LEMMA OverviewStays ==
    ASSUME IsPage(page), [Next]_vars, ~(\E c \in Connections : DataAnswer(c))
    PROVE  page'.overview \in {page.overview, None}
<1> DEFINE q == Cleared(page)
           k == EmptyPage.known
<1>1. IsPage(q) /\ q.overview = None
  BY DEF IsPage, Cleared
<1>2. CASE page' = page
  BY <1>2
<1>3. CASE \/ page' = [page EXCEPT !.timer = None]
           \/ \E s : page' = [page EXCEPT !.schedule = s]
           \/ \E t : page' = [page EXCEPT !.timer = t]
           \/ \E W, ws : page' = [page EXCEPT !.workspaces = W, !.ws = ws]
           \/ \E l, p : page' = [page EXCEPT !.known = l, !.p = p]
  BY <1>3 DEF IsPage
<1> HIDE DEF q
<1>4. CASE \/ \E l, p : page' = [q EXCEPT !.known = l, !.p = p]
           \/ \E p : page' = [q EXCEPT !.p = p]
           \/ \E ws, l : page' = [q EXCEPT !.ws = ws, !.p = None, !.known = l]
           \/ \E W, ws, l : page' = [q EXCEPT !.workspaces = W, !.ws = ws, !.p = None, !.known = l]
  BY <1>1, <1>4 DEF IsPage
<1>5. CASE Render \/ Poll
  BY <1>3, <1>5 DEF Render, Poll, Load, Loading
<1>6. ASSUME NEW c \in Connections, Read(c) \/ Ignored(c) \/ ListError(c)
      PROVE  page' = page
  BY <1>6 DEF Read, ReadRow, ReadRun, ReadRest, ReadList, Ignored, ListError
<1>7. ASSUME NEW c \in Connections, DataError(c) PROVE page'.overview \in {page.overview, None}
  BY <1>3, <1>7 DEF DataError
<1>8. ASSUME NEW c \in Connections, ListAnswer(c) PROVE page'.overview \in {page.overview, None}
  BY <1>3, <1>4, <1>8 DEF ListAnswer, q
<1>9. ASSUME NEW c \in Connections, WorkspacesAnswer(c) PROVE page'.overview \in {page.overview, None}
  <2>1. \/ page' = page
        \/ \E W, ws : page' = [page EXCEPT !.workspaces = W, !.ws = ws]
        \/ \E W, ws : page' = [q EXCEPT !.workspaces = W, !.ws = ws, !.p = None, !.known = k]
    BY <1>9 DEF WorkspacesAnswer, q
  <2> HIDE DEF k
  <2> QED  BY <1>2, <1>3, <1>4, <2>1
<1>10. ASSUME NEW ws \in Workspaces, SelectWorkspace(ws) PROVE page'.overview \in {page.overview, None}
  <2>1. page' = [q EXCEPT !.ws = ws, !.p = None, !.known = k]
    BY <1>10 DEF SelectWorkspace, q
  <2> HIDE DEF k
  <2> QED  BY <1>4, <2>1
<1>11. ASSUME NEW p \in Projects, SelectProject(p) PROVE page'.overview \in {page.overview, None}
  BY <1>4, <1>11 DEF SelectProject, q
<1>12. CASE OpAnswer
  BY <1>2, <1>3, <1>12 DEF OpAnswer, Load, Loading
<1>13. CASE \/ Operate \/ TakesEffect \/ OpError \/ UNCHANGED vars
            \/ \E p \in Projects : StartRun(p) \/ Finish(p)
  BY <1>2, <1>13 DEF Operate, Begin, TakesEffect, OpError, vars, StartRun, Finish, EndRun, SettleCheck
<1> QED
  BY <1>2, <1>5, <1>6, <1>7, <1>8, <1>9, <1>10, <1>11, <1>12, <1>13 DEF Next, Answer

\* What an answer shows is about the project rendered, and is not older than what is shown.
LEMMA ShownInOrderStep ==
    ASSUME ShownInv, [Next]_vars, page'.overview # page.overview, page'.overview # None
    PROVE  /\ page'.overview.p = rendered.p
           /\ (page.overview # None /\ page.overview.p = page'.overview.p) =>
                 page'.overview.report >= page.overview.report
<1>1. IsPage(page) /\ Calls(call)
  BY DEF ShownInv, PollInv
<1>2. PICK c \in Connections : DataAnswer(c)
  BY <1>1, OverviewStays
<1> DEFINE got == call[c]
<1>3. page'.overview = [p |-> got.p, report |-> got.row, run |-> got.run]
  BY <1>1, <1>2 DEF DataAnswer, IsPage
<1>4. c \in LiveData(call) /\ got.run # None
  BY <1>2 DEF DataAnswer, Is, Latest, LiveData
<1>5. /\ got.p = rendered.p /\ got.row \in Nat
      /\ page.overview # None /\ page.overview.p = got.p => page.overview.report <= got.row
      /\ page.overview # None => page.overview.report \in Nat
  BY <1>4 DEF ShownInv, DataInOrder
<1> QED  BY <1>3, <1>5

-----------------------------------------------------------------------------

\* Provided no workspace is created while the list of workspaces loads, what is shown is
\* about the project rendered and never goes back in time, however answers overtake each
\* other (loadProjectData, clearProjectData, the cleanups of the effects).
THEOREM AnswersAreShownInOrder == ASSUME Patient PROVE Spec => ShownInOrder
<1>1. Init => ShownInv
  BY ShownInit
<1>2. ShownInv /\ [Next]_vars => ShownInv'
  BY ShownStep
<1>3. ShownInv /\ [Next]_vars =>
         [(page'.overview # page.overview /\ page'.overview # None) =>
             /\ page'.overview.p = rendered.p
             /\ (page.overview # None /\ page.overview.p = page'.overview.p) =>
                   page'.overview.report >= page.overview.report]_vars
  BY ShownInOrderStep
<1> QED  BY <1>1, <1>2, <1>3, PTL DEF Spec, ShownInOrder
=============================================================================
