--------------------------- MODULE RelationStore ---------------------------
(***************************************************************************)
(* What an update of a many-to-many relation promises: the links it adds   *)
(* and removes change in one step or not at all, an update that failed     *)
(* before its commit changes nothing, and after the step every requested   *)
(* change holds or was found done already at some moment while the update  *)
(* ran.  RelatedRows, the code of core/data_service.go, implements it.     *)
(***************************************************************************)
CONSTANTS
    Rows,      \* the ids of the related tables' rows
    Updates,   \* the updates of a behaviour, each submitted once
    Requests,  \* what an update may ask for
    Adds(_),   \* the pairs a request adds
    Deletes(_) \* the pairs a request deletes

VARIABLES
    links,    \* the committed pairs of the join table
    status,   \* "idle", "running", "applied", "dropped" or "done"
    request,  \* what each update asked for
    answer,   \* "none", "ok" or "error"
    present,  \* the pairs that were linked at some moment since the submission
    absent    \* the pairs that were not

vars == <<links, status, request, answer, present, absent>>
Pairs == Rows \X Rows

Init ==
    /\ links \in SUBSET Pairs
    /\ status = [u \in Updates |-> "idle"]
    /\ request \in [Updates -> Requests]
    /\ answer = [u \in Updates |-> "none"]
    /\ present = [u \in Updates |-> {}]
    /\ absent = [u \in Updates |-> {}]

Submit(u) ==
    /\ status[u] = "idle"
    /\ status' = [status EXCEPT ![u] = "running"]
    /\ present' = [present EXCEPT ![u] = links]
    /\ absent' = [absent EXCEPT ![u] = Pairs \ links]
    /\ UNCHANGED <<links, request, answer>>

\* The one step in which links change.
Apply(u) ==
    /\ status[u] = "running"
    /\ status' = [status EXCEPT ![u] = "applied"]
    /\ \E added \in SUBSET Adds(request[u]), deleted \in SUBSET Deletes(request[u]) :
          /\ Adds(request[u]) \ added \subseteq present[u]
          /\ Deletes(request[u]) \ deleted \subseteq absent[u]
          /\ links' = (links \ deleted) \union added
    /\ present' = [v \in Updates |-> IF status[v] = "running" THEN present[v] \union links' ELSE present[v]]
    /\ absent' = [v \in Updates |-> IF status[v] = "running" THEN absent[v] \union (Pairs \ links') ELSE absent[v]]
    /\ UNCHANGED <<request, answer>>

Drop(u) ==
    /\ status[u] = "running"
    /\ status' = [status EXCEPT ![u] = "dropped"]
    /\ UNCHANGED <<links, request, answer, present, absent>>

\* "ok" tells that the update was applied; "error" may also hide that it was.
Answer(u, how) ==
    /\ \/ status[u] = "applied"
       \/ status[u] = "dropped" /\ how = "error"
    /\ status' = [status EXCEPT ![u] = "done"]
    /\ answer' = [answer EXCEPT ![u] = how]
    /\ UNCHANGED <<links, request, present, absent>>

Next ==
    \E u \in Updates :
        \/ Submit(u) \/ Apply(u) \/ Drop(u)
        \/ \E how \in {"ok", "error"} : Answer(u, how)

Spec == Init /\ [][Next]_vars
=============================================================================
