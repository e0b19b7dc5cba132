------------------------------ MODULE NgraphEnv ------------------------------
(***************************************************************************)
(* NgraphTest.with_ngraph and NgraphTest.without_ngraph of               *)
(* test/python/common.py, called by the tests of one pytest process one  *)
(* after the other.  Each saves NGRAPH_TF_DISABLE_DEASSIGN_CLUSTERS,       *)
(* sets the bridge's enabled flag, runs the test body l(sess) and puts     *)
(* the variable back; the body returns or raises (a failing assert), and  *)
(* nothing catches the exception inside the helper.                       *)
(***************************************************************************)
EXTENDS Naturals

CONSTANTS
    Values,    \* strings the user may give the variable, "1" among them
    MaxCalls   \* bound on the helper calls of the process, a natural

VARIABLES
    env,       \* NGRAPH_TF_DISABLE_DEASSIGN_CLUSTERS, or "unset"
    enabled,   \* ngraph_bridge.is_enabled()
    pc,        \* "idle", or the helper whose body runs
    saved,     \* the helper's local ngraph_tf_disable_deassign_clusters
    calls,     \* helper calls so far
    user,      \* the variable as the user started the process with
    returned   \* the last helper call returned normally

vars == <<env, enabled, pc, saved, calls, user, returned>>

EnvValues == Values \cup {"unset"}

\* os.environ.pop(name, None): the old value, or None.
Pop == env
-----------------------------------------------------------------------------
Init ==
    /\ env \in EnvValues
    /\ enabled = TRUE
    /\ pc = "idle"
    /\ saved = "unset"
    /\ calls = 0
    /\ user = env
    /\ returned = TRUE

\* with_ngraph up to the body: pop the variable, set it to '1', enable.
WithNgraph ==
    /\ pc = "idle"
    /\ calls < MaxCalls
    /\ saved' = Pop
    /\ env' = "1"
    /\ enabled' = TRUE
    /\ pc' = "with"
    /\ calls' = calls + 1
    /\ UNCHANGED <<user, returned>>

\* without_ngraph up to the body: pop the variable, disable.
WithoutNgraph ==
    /\ pc = "idle"
    /\ calls < MaxCalls
    /\ saved' = Pop
    /\ env' = "unset"
    /\ enabled' = FALSE
    /\ pc' = "without"
    /\ calls' = calls + 1
    /\ UNCHANGED <<user, returned>>

\* The body of with_ngraph returns: pop the variable, then put back the
\* saved value if there was one.
WithReturns ==
    /\ pc = "with"
    /\ env' = saved
    /\ pc' = "idle"
    /\ returned' = TRUE
    /\ UNCHANGED <<enabled, saved, calls, user>>

\* The body of without_ngraph returns: put back the saved value if there
\* was one (without popping first).
WithoutReturns ==
    /\ pc = "without"
    /\ env' = IF saved # "unset" THEN saved ELSE env
    /\ pc' = "idle"
    /\ returned' = TRUE
    /\ UNCHANGED <<enabled, saved, calls, user>>

\* The body raises: the exception leaves the helper before its restore.
BodyRaises ==
    /\ pc \in {"with", "without"}
    /\ pc' = "idle"
    /\ returned' = FALSE
    /\ UNCHANGED <<env, enabled, saved, calls, user>>

Next == WithNgraph \/ WithoutNgraph \/ WithReturns \/ WithoutReturns \/ BodyRaises

Spec == Init /\ [][Next]_vars
-----------------------------------------------------------------------------
TypeOK ==
    /\ env \in EnvValues
    /\ enabled \in BOOLEAN
    /\ pc \in {"idle", "with", "without"}
    /\ saved \in EnvValues
    /\ calls \in 0..MaxCalls
    /\ user \in EnvValues
    /\ returned \in BOOLEAN

(***************************************************************************)
(* CleanReturnRestores: when the last helper call returned normally, the  *)
(* variable is again what the user started the process with: a test that  *)
(* passes leaves the environment of the next one as it found it at the    *)
(* start, even after an earlier test failed.                              *)
(***************************************************************************)
CleanReturnRestores == (pc = "idle" /\ returned) => env = user
====
