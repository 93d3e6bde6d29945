----------------------------- MODULE Presenter -----------------------------
(***************************************************************************)
(* The task loop of pybossa.js in the tabs of one contributor, and what    *)
(* the server does for it: the depth-first scheduler behind newtask, the   *)
(* stamps of ContributionsGuard, and the acceptance of an answer.          *)
(*                                                                         *)
(* While a task is shown the loop already fetches the next one, at offset  *)
(* 1: the task shown is expected to be the first candidate.  Meanwhile     *)
(* other contributors complete tasks, stamps expire, the contributor has   *)
(* other tabs and reloads pages, and requests or their responses get lost. *)
(* A task is numbered by its place in the order the scheduler serves.      *)
(***************************************************************************)
EXTENDS Integers, FiniteSets

CONSTANTS
    Tabs,       \* the contributor's tabs
    NTasks,     \* how many tasks the project has
    Others,     \* tasks that other contributors may complete
    Faults,     \* whether requests get lost and stamps expire
    MaxOpens    \* bound: how many pages are opened

Tasks == 1..NTasks

\* The response {} of newtask, whose id is undefined, and previousTask
\* before anything was shown.
Empty == 0
Undefined == -1

ASSUME ProjectAssumption ==
    /\ NTasks \in Nat
    /\ Others \subseteq Tasks
    /\ Faults \in BOOLEAN
    /\ MaxOpens \in Nat

VARIABLES
    completed,  \* tasks in state completed
    answered,   \* tasks with a committed run of the contributor
    stamped,    \* tasks with a stamp of the contributor
    opens,      \* how many pages were opened
    tab         \* the loop of each tab

vars == <<completed, answered, stamped, opens, tab>>

\* url: the task in the address the page was opened at (Empty: none); shown:
\* the task presented; past: those presented before on this page; fetch and
\* next: the state of nextLoaded and its task; solved: the state of
\* taskSolved.
Tab == [url: Tasks \cup {Empty}, shown: Tasks \cup {Empty, Undefined},
        past: SUBSET (Tasks \cup {Empty}), next: Tasks \cup {Empty},
        fetch: {"none", "first", "second", "loading", "loaded", "lost"},
        solved: {"no", "posting", "stored", "yes"}]

Closed == [url |-> Empty, shown |-> Undefined, past |-> {}, next |-> Empty,
           fetch |-> "none", solved |-> "no"]

TypeOK ==
    /\ completed \subseteq Others
    /\ answered \subseteq Tasks
    /\ stamped \subseteq Tasks
    /\ opens \in 0..MaxOpens
    /\ tab \in [Tabs -> Tab]

Init ==
    /\ completed = {}
    /\ answered = {}
    /\ stamped = {}
    /\ opens = 0
    /\ tab = [p \in Tabs |-> Closed]

Become(p, state) == tab' = [tab EXCEPT ![p] = state]

Shown(p) == tab[p].shown

-----------------------------------------------------------------------------
(* GET /api/project/<id>/newtask with the depth-first scheduler *)

\* Tasks in progress that the contributor has not answered.
Candidates == Tasks \ (answered \cup completed)

Before(t) == {u \in Candidates: u < t}

\* LIMIT 1 OFFSET n, or {}.
Candidate(n) ==
    LET found == {t \in Candidates: Cardinality(Before(t)) = n}
    IN  IF found = {} THEN Empty ELSE CHOOSE t \in found: TRUE

\* A variant of Stamp: the empty response gets one too.
StampAnything(t) == stamped' = stamped \cup {t}

\* What is handed out is stamped.
Stamp(t) == stamped' = stamped \cup ({t} \ {Empty})

-----------------------------------------------------------------------------
(* pybossa.run *)

\* The page of a task stamps it; the page of newtask has no task in its
\* address.  The script starts with getNextTask(0, undefined).
Open(p, url) ==
    /\ opens < MaxOpens
    /\ opens' = opens + 1
    /\ Stamp(url)
    /\ Become(p, [Closed EXCEPT !.url = url, !.fetch = "first"])
    /\ UNCHANGED <<completed, answered>>

\* _resolveNextTaskLoaded starts the user's taskLoaded function.
Load(p, t) == Become(p, [tab[p] EXCEPT !.fetch = "loading", !.next = t])

\* The address is looked at before anything was shown only.
AtTaskAddress(p) == Shown(p) = Undefined /\ tab[p].url # Empty

FetchTask(p) ==
    /\ tab[p].fetch = "first"
    /\ AtTaskAddress(p)
    /\ Load(p, tab[p].url)
    /\ UNCHANGED <<completed, answered, stamped, opens>>

\* offset+1
SecondOffset == 2

FirstOffset(p) == IF Shown(p) = Undefined THEN 0 ELSE 1

\* A variant of SameAsPrevious: what comes is taken.
NeverTheSame(p, t) == FALSE

\* task.id === previousTask.id, with undefined ids on both sides as well.
SameAsPrevious(p, t) == t = Shown(p)

FetchNewTask(p) ==
    LET t == Candidate(FirstOffset(p))
    IN  /\ tab[p].fetch = "first"
        /\ ~AtTaskAddress(p)
        /\ IF SameAsPrevious(p, t)
           THEN Become(p, [tab[p] EXCEPT !.fetch = "second"])
           ELSE Load(p, t)
        /\ Stamp(t)
        /\ UNCHANGED <<completed, answered, opens>>

\* The second try is taken as it comes.
FetchSecond(p) ==
    /\ tab[p].fetch = "second"
    /\ Load(p, Candidate(SecondOffset))
    /\ Stamp(Candidate(SecondOffset))
    /\ UNCHANGED <<completed, answered, opens>>

\* A variant of TaskLoaded: the deferred is resolved for real tasks only.
TaskLoadedUnlessEmpty(p) ==
    /\ tab[p].fetch = "loading"
    /\ tab[p].next # Empty
    /\ Become(p, [tab[p] EXCEPT !.fetch = "loaded"])
    /\ UNCHANGED <<completed, answered, stamped, opens>>

\* The user's taskLoaded resolves.
TaskLoaded(p) ==
    /\ tab[p].fetch = "loading"
    /\ Become(p, [tab[p] EXCEPT !.fetch = "loaded"])
    /\ UNCHANGED <<completed, answered, stamped, opens>>

\* loop: the next task is presented and the one after it asked for.
Loop(p) ==
    /\ tab[p].fetch = "loaded"
    /\ Shown(p) = Undefined \/ tab[p].solved = "yes"
    /\ Become(p, [tab[p] EXCEPT !.shown = tab[p].next,
                                !.past = @ \cup ({Shown(p)} \ {Undefined}),
                                !.fetch = "first",
                                !.solved = "no"])
    /\ UNCHANGED <<completed, answered, stamped, opens>>

Run(p) ==
    \/ FetchTask(p)
    \/ FetchNewTask(p)
    \/ FetchSecond(p)
    \/ TaskLoaded(p)
    \/ Loop(p)

-----------------------------------------------------------------------------
(* pybossa.saveTask(...).done(deferred.resolve) *)

SaveTask(p) ==
    /\ Shown(p) \in Tasks
    /\ tab[p].solved = "no"
    /\ Become(p, [tab[p] EXCEPT !.solved = "posting"])
    /\ UNCHANGED <<completed, answered, stamped, opens>>

\* POST /api/taskrun: the stamp is taken first; a refusal leaves the task on
\* the screen with its buttons.
Refused(p) == Shown(p) \notin stamped \/ Shown(p) \in answered

StoreAnswer(p) ==
    /\ tab[p].solved = "posting"
    /\ stamped' = stamped \ {Shown(p)}
    /\ IF Refused(p)
       THEN Become(p, [tab[p] EXCEPT !.solved = "no"]) /\ UNCHANGED answered
       ELSE /\ answered' = answered \cup {Shown(p)}
            /\ Become(p, [tab[p] EXCEPT !.solved = "stored"])
    /\ UNCHANGED <<completed, opens>>

Resolve(p) ==
    /\ tab[p].solved = "stored"
    /\ Become(p, [tab[p] EXCEPT !.solved = "yes"])
    /\ UNCHANGED <<completed, answered, stamped, opens>>

-----------------------------------------------------------------------------
(* The others, time and the network *)

OthersComplete(t) ==
    /\ t \in Others \ completed
    /\ completed' = completed \cup {t}
    /\ UNCHANGED <<answered, stamped, opens, tab>>

StampExpires(t) ==
    /\ Faults
    /\ t \in stamped
    /\ stamped' = stamped \ {t}
    /\ UNCHANGED <<completed, answered, opens, tab>>

\* A variant of LoseFetch: a failure is taken for the response {}.
LoseFetchAsEmpty(p) ==
    /\ Faults
    /\ tab[p].fetch \in {"first", "second"}
    /\ Load(p, Empty)
    /\ UNCHANGED <<completed, answered, stamped, opens>>

\* The request, or a response whose task was stamped.  No failure callback
\* is registered: nextLoaded stays pending for ever.
LoseFetch(p) ==
    /\ Faults
    /\ \/ tab[p].fetch = "first" /\ UNCHANGED stamped
       \/ tab[p].fetch = "second" /\ UNCHANGED stamped
       \/ /\ tab[p].fetch = "first"
          /\ ~AtTaskAddress(p)
          /\ Stamp(Candidate(FirstOffset(p)))
       \/ /\ tab[p].fetch = "second"
          /\ Stamp(Candidate(SecondOffset))
    /\ Become(p, [tab[p] EXCEPT !.fetch = "lost"])
    /\ UNCHANGED <<completed, answered, opens>>

\* The answer or the response to it: the user may press the button again.
LoseAnswer(p) ==
    /\ Faults
    /\ tab[p].solved \in {"posting", "stored"}
    /\ Become(p, [tab[p] EXCEPT !.solved = "no"])
    /\ UNCHANGED <<completed, answered, stamped, opens>>

Next ==
    \/ \E p \in Tabs:
         \/ \E url \in Tasks \cup {Empty}: Open(p, url)
         \/ Run(p)
         \/ SaveTask(p)
         \/ StoreAnswer(p)
         \/ Resolve(p)
         \/ LoseFetch(p)
         \/ LoseAnswer(p)
    \/ \E t \in Tasks: OthersComplete(t) \/ StampExpires(t)

Spec == Init /\ [][Next]_vars

\* The browser runs the callbacks that are due, and a request that is not
\* lost is served.  Nobody has to answer, to open a page or to complete.
FairSpec == Spec /\ \A p \in Tabs: WF_vars(Run(p))

-----------------------------------------------------------------------------
(* Properties *)

\* A task the contributor has dealt with is not presented on that page again:
\* the prefetch ran while it was still a candidate, whatever others complete
\* between its two tries and the answer of the one on the screen.
PresentedOnce == \A p \in Tabs: Shown(p) \notin tab[p].past

\* When the loop runs out of tasks, at most two are left that it might have
\* shown, however many tasks others completed under its fixed offsets.
FewLeftBehind ==
    \A p \in Tabs: Shown(p) = Empty => Cardinality(Candidates) <= 2

\* $.when(nextLoaded, taskSolved) ends: after an answer the loop goes on,
\* with a task or the empty one, unless the request for it was lost.
AnswerGoesOn ==
    \A p \in Tabs:
        tab[p].solved = "yes" ~>
            tab[p].solved # "yes" \/ tab[p].fetch = "lost"

-----------------------------------------------------------------------------
(* What the repository says and its code does not guarantee *)

\* snippets/image.html, presenting the empty task: "You have participated in
\* all available tasks!"
FinishedMeansAll ==
    \A p \in Tabs: Shown(p) = Empty => Candidates = {}

=============================================================================
