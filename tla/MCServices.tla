------------------------------ MODULE MCServices ------------------------------
(* The turbo scheduler with its pool, and the change stream, on small      *)
(* instances.  They share no variable: a behaviour is one module's, and    *)
(* the other stays in one of its initial states.                          *)
EXTENDS Jobs, Watch

VARIABLE part

Idling == {f \in [Workers -> {<<"idle">>, <<"none">>}] :
             Cardinality({x \in Workers : f[x] = <<"idle">>}) = MinWorkers}
Init == /\ JobsInit /\ WatchInit
        /\ \/ part = "jobs"
           \/ part = "watch" /\ worker = CHOOSE f \in Idling : TRUE
Next ==
  \/ part = "jobs" /\ JobsNext /\ UNCHANGED <<part, watchVars>>
  \/ part = "watch" /\ WatchNext /\ UNCHANGED <<part, jobsVars>>

(* Only the scheduler's goroutines are owed a turn.                        *)
Spec == Init /\ [][Next]_<<part, jobsVars, watchVars>> /\ JobsFairness
=============================================================================
