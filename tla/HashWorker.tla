----------------------------- MODULE HashWorker -----------------------------
(***************************************************************************)
(* What the rig expects of the hash workers, the cores of its slaves: a    *)
(* worker is given one job at a time, works it out, and hands over the     *)
(* result of that job, once.  A result can be dropped on its way to the    *)
(* server (connection closed, master restarted); then nobody asks again.   *)
(***************************************************************************)
CONSTANTS Workers, Jobs, Nothing

VARIABLES work,       \* the job of each worker and whether it is worked out
          sent        \* the last result of each worker given to the server

workerVars == <<work, sent>>

Free     == [job |-> Nothing, stage |-> "free"]
Taken(j) == [job |-> j, stage |-> "taken"]

Init == /\ work = [w \in Workers |-> Free]
        /\ sent = [w \in Workers |-> Nothing]

Assign(w, j) == /\ work[w] = Free
                /\ work' = [work EXCEPT ![w] = Taken(j)]
                /\ UNCHANGED sent

Finish(w) == /\ work[w].stage = "taken"
             /\ work' = [work EXCEPT ![w].stage = "finished"]
             /\ UNCHANGED sent

Deliver(w) == /\ work[w].stage = "finished"
              /\ work' = [work EXCEPT ![w] = Free]
              /\ sent' = [sent EXCEPT ![w] = work[w].job]

\* A restart of the master drops those of several workers at once.
Drop(ws) == /\ \A w \in ws : work[w].stage = "finished"
            /\ work' = [w \in Workers |-> IF w \in ws THEN Free ELSE work[w]]
            /\ UNCHANGED sent

Next == \/ \E w \in Workers : \/ \E j \in Jobs : Assign(w, j)
                              \/ Finish(w) \/ Deliver(w)
        \/ \E ws \in SUBSET Workers : Drop(ws)

Spec == Init /\ [][Next]_workerVars
=============================================================================
