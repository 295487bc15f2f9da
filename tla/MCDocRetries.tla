---------------------------- MODULE MCDocRetries ----------------------------
(* One job that may be tried twice, against the retry rule that              *)
(* docs/scheduler.md states.                                                 *)
EXTENDS Collector

Answer == {Result({})}
Said == {{}}

\* docs/scheduler.md:71: "Retry while `recoverable && retryCount < maxRetry`."
\* A job that fails recoverably is dead-lettered only when its retry_count is no
\* longer below max_retry (worker.go:153).
RetriesWhileBelow ==
    [][(status' = "dead_letter" /\ (ended'.at = "execute" \/ ended'.cause \in {"busy", "write"}))
          => (status = "dead_letter" \/ ~(retryCount < JobMaxRetry))]_collectorVars
=============================================================================
