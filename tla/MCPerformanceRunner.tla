------------------------ MODULE MCPerformanceRunner --------------------------
(***************************************************************************)
(* The ceilings scaled down: three requests for two threads, so that a     *)
(* thread takes a second task while the other waits, two levels, and       *)
(* arguments on both sides of every ceiling.                               *)
(***************************************************************************)
EXTENDS PerformanceRunner

MCArguments ==
    [profile_type : ProfileType,
     concurrency : {{}, {<<2>>}, {<<2, 1>>}, {<<1, 2, 1>>}, {<<4>>}, {<<0>>}},
     requests : {{}, {3}, {4}},
     duration : {{}, {1}, {3}},
     max_concurrency : {{}, {0}, {1}, {4}},
     stop_on_error_rate_percent : {{}, {40}},
     stop_on_p95_ms : {{}, {1}}]
MCLoadConcurrency == <<1, 2>>
MCStressSteps == <<1, 2, 3, 5>>
=============================================================================
