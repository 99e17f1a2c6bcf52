---- MODULE MidnightJobs ----
(***************************************************************************)
(* The maintenance jobs of the API (perps-web/server/midnightSetup.ts) and *)
(* the programs that run others: parallel-cli, one child for each wallet,  *)
(* and run-pipeline-split, one child for each contract.  The processes     *)
(* themselves are those of MidnightRuns.                                   *)
(***************************************************************************)
EXTENDS MidnightRuns

CONSTANTS
  MaxJobs,      \* MAX_JOBS: records that the API keeps
  MaxRestarts   \* bound: restarts of the API

ASSUME JobsAssumption == Wallets \subseteq Nat /\ MaxJobs \in Nat /\ MaxRuns \in Nat /\ MaxRestarts \in Nat

VARIABLES
  job,          \* one record per parent process, in order of their start
  boots         \* restarts of the API

jobVars == <<job, boots>>

\* The store names that a process is given: the default ones, or those that end in the index of its wallet.
Default == 0
Suffixed == 1

\* whole: the parent has been able to start all the children it should have.
Job(kind, members, status, parent, whole) ==
  [kind |-> kind, members |-> members, status |-> status, parent |-> parent, whole |-> whole,
   boot |-> boots, listed |-> kind # "split"]

\* pruneJobs: the oldest records go, whatever their status.
Pruned(js) ==
  [j \in DOMAIN js |->
     [js[j] EXCEPT !.listed = @ /\ Cardinality({k \in DOMAIN js : k > j /\ js[k].listed}) < MaxJobs]]

\* spawnNpmCliJob, with all the processes that follow from it.
Start(kind, ps, whole) ==
  /\ Launch(ps) /\ Len(job) < MaxRuns
  /\ job' = Pruned(Append(job, Job(kind, (Len(run) + 1)..(Len(run) + Len(ps)), "running", "up", whole)))
  /\ UNCHANGED <<boots, chain, mempool, night, idle, dust, store, scoped>>

\* The parent starts one child after the other, and each may be one that cannot be started.
StartEach(kind, ps) ==
  \E up \in SUBSET DOMAIN ps :
    Start(kind, FlattenSeq([i \in DOMAIN ps |-> IF i \in up THEN <<ps[i]>> ELSE <<>>]), up = DOMAIN ps)

StartFails(kind) ==
  /\ Len(job) < MaxRuns
  /\ job' = Pruned(Append(job, Job(kind, {}, "failed", "over", FALSE)))
  /\ UNCHANGED <<runVars, boots>>

FundDerivedJob(funder, ws, e) == Start("fund-derived", <<Process(FundDerived(funder, ws), e, Default)>>, TRUE)

\* The program reads the offset with || 1, so that 0 is not an offset.
First(offset) == IF offset = 0 THEN 1 ELSE offset
Worker(w, script, e, cs) == Process(IF script = "run-all" THEN RunAll(w) ELSE RunPipeline(w, cs), e, Suffixed)
ParallelCliJob(count, offset, script, e, cs) ==
  StartEach("parallel-cli", [i \in 1..count |-> Worker(First(offset) + i - 1, script, e, cs)])

\* From a terminal, or from the API for a trade; in sequence, one process has all the slots, and each its names.
SplitAll(base, e, cs) == StartEach("split", [k \in DOMAIN cs |-> Process(SplitSlot(base, k, cs), e, Suffixed)])

AllDone(j) == \A r \in job[j].members : run[r].phase = "done"
SomeFailed(j) == \E r \in job[j].members : run[r].phase = "failed"

\* Defective: the program goes on until every child has ended well.
EndsWell(j) == AllDone(j)

\* parallel-cli waits for every child to close, unless one could not be started; the split gives up at the first that
\* fails.  Either then leaves the others to themselves.
Ends(j) ==
  \/ ~job[j].whole
  \/ job[j].kind = "split" /\ (AllDone(j) \/ SomeFailed(j))
  \/ job[j].kind # "split" /\ \A r \in job[j].members : ~Running(r)

\* Defective: one is enough.
ExitsLeniently(j) == \E r \in job[j].members : run[r].phase = "done"

\* The exit code is 0 iff every child has been started and its exit code is 0.
ExitsWell(j) == job[j].whole /\ AllDone(j)

\* The parent ends, and the API, if it is the one that started it, records how.
Close(j, well, how) ==
  job' = [job EXCEPT ![j].parent = how, ![j].status = IF boots # job[j].boot THEN @ ELSE IF well THEN "completed" ELSE "failed"]

ParentEnds(j) ==
  /\ job[j].parent = "up" /\ Ends(j) /\ Close(j, ExitsWell(j), "over")
  /\ UNCHANGED <<runVars, boots>>

\* A signal ends the parent; its children go on.
ParentDies(j) ==
  /\ job[j].parent = "up" /\ Close(j, FALSE, "killed")
  /\ UNCHANGED <<runVars, boots>>

\* The registry is in memory; the children go on.
ApiRestarts ==
  /\ boots < MaxRestarts /\ boots' = boots + 1
  /\ job' = [j \in DOMAIN job |-> [job[j] EXCEPT !.listed = FALSE]]
  /\ UNCHANGED runVars

JobsInit == job = <<>> /\ boots = 0
JobsNext == ApiRestarts \/ \E j \in DOMAIN job : ParentEnds(j) \/ ParentDies(j)

\* Anybody may start any program, from a terminal or as the children of a job.
Names == {Default, Suffixed}
Processes == {Process(p, e, name) : p \in Programs, e \in Envs, name \in Names}
Kinds == {"fund-derived", "parallel-cli", "split"}
Starts ==
  \/ \E ps \in Seq(Processes) :
       \/ Launch(ps) /\ UNCHANGED <<jobVars, chain, mempool, night, idle, dust, store, scoped>>
       \/ \E kind \in Kinds, whole \in BOOLEAN : Start(kind, ps, whole)
  \/ \E kind \in Kinds : StartFails(kind)

MidnightSpec ==
  /\ RunsInit /\ JobsInit
  /\ [][(RunsNext /\ UNCHANGED jobVars) \/ JobsNext \/ Starts]_<<runVars, jobVars>>

JobsFairness == \A j \in 1..MaxRuns : WF_<<runVars, jobVars>>(j \in DOMAIN job /\ ParentEnds(j))

-----------------------------------------------------------------------------
\* A job that the API reports as completed has sealed everything: each of its workers has been started and has ended well,
\* with every transaction of its program on the ledger (midnightSetup.ts:94-96, midnight-parallel-cli.ts:80).
CompletedMeansSealed ==
  \A j \in DOMAIN job : job[j].status = "completed" =>
    job[j].whole /\ \A r \in job[j].members : run[r].phase = "done" /\ CallsOf(r) \subseteq landed[r]

\* A job that has ended by itself leaves nobody at work on its wallets, so that a new one may be started on them; but a
\* split that fails does, and so does a job one of whose workers could not be started.
EndedJobsLeaveNobody ==
  \A j \in DOMAIN job : job[j].parent = "over" /\ job[j].kind # "split" /\ job[j].whole =>
    \A r \in job[j].members : ~Running(r)

\* The API forgets a job of its own only when it has MAX_JOBS newer ones.
ForgottenWasPushedOut ==
  \A j \in DOMAIN job : job[j].boot = boots /\ job[j].kind # "split" /\ ~job[j].listed =>
    Cardinality({k \in DOMAIN job : k > j /\ job[k].listed}) >= MaxJobs

\* Who believes the job table is right: what it calls completed has sealed, and what it does not list has been pushed out;
\* and what has ended is over, with the two exceptions above.
TableTellsTheTruth == CompletedMeansSealed /\ EndedJobsLeaveNobody /\ ForgottenWasPushedOut

\* Whoever polls a job learns how it ended, unless the API has forgotten it or a worker waits for its wallet for ever.
PollersLearn ==
  \A j \in 1..MaxRuns :
    \/ \E r \in 1..MaxRuns : <>[](j \in DOMAIN job /\ r \in job[j].members /\ Waits(r))
    \/ (j \in DOMAIN job /\ job[j].listed) ~> (j \in DOMAIN job /\ (~job[j].listed \/ job[j].status # "running"))

\* Processes end, and those who wait for them learn it.
EverythingEnds == RunsEnd /\ PollersLearn

=============================================================================
