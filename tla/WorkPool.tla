------------------------------ MODULE WorkPool ------------------------------
(***************************************************************************)
(* What smokezip promises of the files it is asked to convert: whatever    *)
(* number of threads it runs, each file is converted by exactly one of     *)
(* them, and the program is over only when all of them have been.  A kill  *)
(* forgets the pool; the next run starts from a new one.                   *)
(***************************************************************************)
CONSTANT Files

VARIABLES
    pool,   \* the files to convert, each "waiting", "busy" or "done"
    over    \* the program does not run

poolVars == <<pool, over>>

Nothing == [i \in {} |-> "waiting"]

PoolInit == pool = Nothing /\ over = TRUE

Start ==
    /\ over
    /\ \E wanted \in SUBSET Files : pool' = [i \in wanted |-> "waiting"]
    /\ over' = FALSE

Move(i, from, to) ==
    /\ ~over
    /\ pool[i] = from
    /\ pool' = [pool EXCEPT ![i] = to]
    /\ UNCHANGED over

Begin(i)  == Move(i, "waiting", "busy")
Finish(i) == Move(i, "busy", "done")

End ==
    /\ ~over
    /\ \A i \in DOMAIN pool : pool[i] = "done"
    /\ over' = TRUE
    /\ UNCHANGED pool

Killed ==
    /\ ~over
    /\ pool' = Nothing
    /\ over' = TRUE

PoolNext ==
    \/ Start
    \/ End
    \/ Killed
    \/ \E i \in DOMAIN pool : Begin(i) \/ Finish(i)

PoolSpec == PoolInit /\ [][PoolNext]_poolVars
=============================================================================
