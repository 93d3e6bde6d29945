--------------------------- MODULE ResultHistory ---------------------------
(***************************************************************************)
(* What a task promises to those who read its results, whatever requests   *)
(* overlap: its history is one of single steps.  Answers are stored one at *)
(* a time; a version of the result is stored together with the answer that *)
(* completed the task, follows all versions before it, lists every answer  *)
(* they list that is still stored, and is the only one marked last.  It    *)
(* may miss an answer stored meanwhile, never one an earlier version had.  *)
(***************************************************************************)
EXTENDS Naturals

VARIABLES
    answers,    \* ids of the stored task runs
    results     \* versions of the result: [id, ids, last]

Init == answers = {} /\ results = {}

\* No stored answer has the id, and no version of the result lists it.
Fresh(i) == i \notin answers /\ \A r \in results: i \notin r.ids

AddAnswer ==
    /\ \E i \in answers' \ answers: Fresh(i) /\ answers' = answers \cup {i}
    /\ UNCHANGED results

\* i completes the task; r is the version made of it.
Follows(r, i) ==
    /\ r.last
    /\ i \in r.ids
    /\ \A o \in results: o.id < r.id /\ o.ids \cap answers \subseteq r.ids

NewVersion ==
    /\ \E i \in answers' \ answers, r \in results':
         /\ Fresh(i)
         /\ Follows(r, i)
         /\ answers' = answers \cup {i}
         /\ results' = {[o EXCEPT !.last = FALSE]: o \in results} \cup {r}

RemoveAnswers == answers' \subseteq answers /\ UNCHANGED results

ClearResults == results' = {} /\ UNCHANGED answers

Next == AddAnswer \/ NewVersion \/ RemoveAnswers \/ ClearResults

Spec == Init /\ [][Next]_<<answers, results>>

=============================================================================
