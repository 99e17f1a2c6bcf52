---- MODULE MCMidnight ----
(* Two processes at a time: on one wallet, or as the workers of a job. *)
EXTENDS MidnightJobs
VARIABLE scene
vars == <<runVars, jobVars, scene>>

\* Of a pipeline.
Tail2 == <<"liquidation", "aggregate">>
Middle == <<"matching", "settlement">>

\* The first process has environment "e", for symmetry.
Env == IF run = <<>> THEN {"e"} ELSE Envs
Terminal(p, e, name) == Launch(<<Process(p, e, name)>>) /\ UNCHANGED <<jobVars, chain, mempool, night, idle, dust, store, scoped>>

OneWallet ==
  /\ scene = "terminals"
  /\ \E e \in Env, c \in {"liquidation", "aggregate"} :
       /\ \A r \in DOMAIN run : run[r].program = RunPipeline(0, <<c>>)
       /\ Terminal(RunPipeline(0, <<c>>), e, Default)
Others ==
  /\ scene = "others"
  /\ \/ /\ run = <<>>
        /\ \/ \E p \in {DeployOrder(0), SyncDerived(<<0, 1>>), FundLocal(1)} : Terminal(p, "e", Default)
           \/ Terminal(SplitSequential(0, Tail2), "e", Suffixed)
     \/ run = <<>> /\ FundDerivedJob(0, <<1>>, "e")
     \* A wallet that has DUST and new coins is registered by one run after the other.
     \/ /\ \A r \in DOMAIN run : run[r].program = SyncDerived(<<0>>)
        /\ Terminal(SyncDerived(<<0>>), "e", Default)
Workers ==
  /\ scene = "jobs"
  /\ \/ job = <<>> /\ ParallelCliJob(2, 0, "run-all", "e", <<>>)
     \/ job = <<>> /\ SplitAll(1, "e", Middle)
     \/ job = <<>> /\ ParallelCliJob(1, 1, "run-pipeline", "e", Middle)
     \/ Len(job) = 1 /\ Len(run) = 1 /\ job[1].whole /\ (ParallelCliJob(1, 2, "run-all", "f", <<>>) \/ StartFails("fund-derived"))

Init ==
  /\ RunsInit /\ JobsInit /\ scene \in {"terminals", "jobs", "others"}
  /\ <<idle, dust>> \in IF scene = "jobs" THEN {<<{}, {1}>>, <<{}, night>>}
                         ELSE {<<{}, {}>>, <<night, {}>>, <<{}, night>>} \cup (IF scene = "others" THEN {<<night, night>>} ELSE {})
  /\ night = IF scene = "jobs" THEN {1, 2} ELSE {0}
  /\ scoped => scene = "terminals"
Next ==
  \/ (RunsNext /\ UNCHANGED <<jobVars, scene>>)
  \/ (((scene # "terminals" /\ JobsNext) \/ OneWallet \/ Others \/ Workers) /\ UNCHANGED scene)
Spec == Init /\ [][Next]_vars /\ RunsFairness /\ JobsFairness
====
