-------------------------- MODULE InvocationProofs --------------------------
(***************************************************************************)
(* The command line, for every combination of arguments and settings: what *)
(* an execution has learnt at each point of main, and so what its exit     *)
(* status says.                                                            *)
(***************************************************************************)
EXTENDS Invocation, TLAPS

\* What makes main leave with 2, in the order it looks.
Refusal ==
  \/ argv.form # "help" /\ ~args_ok(argv)
  \/ ~from_env(~argv.dry_run)
  \/ (argv.manual \/ argv.dry_run) /\ argv.date = "future"
  \/ ~argv.dry_run /\ ~(env.lock_path /\ env.lock_file)

\* Nothing main refuses for.
Acceptable == args_ok(argv) /\ ~Refusal

\* What the stages passed have established, ...
Learnt ==
  /\ at \in {"settings", "target", "preview", "lock", "run"} => args_ok(argv)
  /\ at \in {"target", "preview", "lock", "run"} => from_env(~argv.dry_run)
  /\ at \in {"preview", "lock", "run"} =>
       (at = "preview" <=> argv.dry_run)
         /\ ((argv.manual \/ argv.dry_run) => argv.date # "future")
  /\ at = "run" => env.lock_path /\ env.lock_file

\* ... and what the end says about them.
Outcome ==
  \/ exit = 0 /\ argv.form = "help" /\ contacted = {}
  \/ exit = 2 /\ Refusal /\ contacted = {}
  \/ exit \in {0, 1} /\ Acceptable /\ (argv.dry_run => "line" \notin contacted)

InvocationInvariant ==
  /\ argv \in Argvs /\ env \in Environments
  /\ at \in {"started", "settings", "target", "preview", "lock", "run", "ended"}
  /\ locked \in BOOLEAN /\ (locked <=> at = "run")
  /\ at # "ended" => exit = Running /\ contacted = {}
  /\ at = "ended" => Outcome
  /\ Learnt

-----------------------------------------------------------------------------
\* A date and a retry key that pass are well-formed and have their mode.
LEMMA AcceptedArguments ==
  ASSUME NEW args \in Argvs, args_ok(args)
  PROVE  /\ args.form = "known" /\ ~(args.dry_run /\ args.manual)
         /\ args.date \notin {"empty", "malformed"}
         /\ args.retry_key \notin {"empty", "malformed"}
         /\ args.date # "absent" => args.manual \/ args.dry_run
         /\ args.retry_key # "absent" => args.manual
  BY DEF args_ok, Given, Argvs, Dates, RetryKeys

\* Why a preview with arguments that are well-formed by themselves is refused.
LEMMA RefusedPreview ==
  ASSUME NEW args \in Argvs, args.form = "known", args.dry_run, ~args_ok(args)
  PROVE  \/ args.manual \/ args.retry_key # "absent"
         \/ args.date \in {"empty", "malformed"}
  BY DEF args_ok, Given, Argvs, Dates, RetryKeys

LEMMA InvocationStep ==
  ASSUME InvocationInvariant, [Next]_vars
  PROVE  InvocationInvariant'
<1> USE DEF InvocationInvariant
<1>1. CASE ParseArgs
  BY <1>1 DEF ParseArgs, Exit, Goto, Learnt, Outcome, Refusal, Acceptable, Running
<1>2. CASE ReadSettings
  BY <1>2 DEF ReadSettings, from_env, Exit, Goto, Learnt, Outcome, Refusal, Acceptable, Running
<1>3. CASE ResolveTarget
  BY <1>3 DEF ResolveTarget, from_env, Exit, Goto, Learnt, Outcome, Refusal, Acceptable, Running
<1>4. CASE Preview
  BY <1>4 DEF Preview, from_env, Exit, Learnt, Outcome, Refusal, Acceptable, Running
<1>5. CASE OpenLock
  BY <1>5 DEF OpenLock, from_env, Exit, Learnt, Outcome, Refusal, Acceptable, Running
<1>6. CASE Run
  BY <1>6 DEF Run, from_env, Exit, Learnt, Outcome, Refusal, Acceptable, Running
<1>7. CASE UNCHANGED vars
  BY <1>7 DEF vars, from_env, Learnt, Outcome, Refusal, Acceptable
<1> QED
  BY <1>1, <1>2, <1>3, <1>4, <1>5, <1>6, <1>7 DEF Next

\* Whoever holds the lock has accepted arguments and settings; an execution
\* that ended with 2 had a reason to refuse and had asked nobody anything; any
\* other but the help text had none (main, _parse_args and from_env).
THEOREM EveryExitIsExplained == Spec => []InvocationInvariant
<1>1. Init => InvocationInvariant
  BY DEF Init, InvocationInvariant, Learnt, Running
<1>2. InvocationInvariant /\ [Next]_vars => InvocationInvariant'
  BY InvocationStep
<1> QED
  BY <1>1, <1>2, PTL DEF Spec

\* Exit status 2 means that nothing was done, and no wrong argument gets as far
\* as a request or the lock.
THEOREM WrongInputDoesNothing == Spec => []WrongInputIsHarmless
<1>1. InvocationInvariant => WrongInputIsHarmless
  BY AcceptedArguments DEF InvocationInvariant, WrongInputIsHarmless, Learnt, Outcome,
     Refusal, Acceptable, args_ok, Argvs, Running
<1> QED
  BY <1>1, EveryExitIsExplained, PTL

\* A preview stays away from the lock and from LINE, and is refused over its
\* own arguments and settings only, never over a missing token or lock file.
THEOREM PreviewsNeedNoSecrets == Spec => []PreviewNeedsNoSecrets
<1>1. InvocationInvariant => PreviewNeedsNoSecrets
  <2> SUFFICES ASSUME InvocationInvariant, argv.form = "known", argv.dry_run
               PROVE  /\ ~locked /\ "line" \notin contacted
                      /\ (exit = 2 /\ env.public_id /\ env.timezone /\ env.log_level) =>
                           \/ argv.manual \/ argv.retry_key # "absent"
                           \/ argv.date \in {"empty", "malformed", "future"}
    BY DEF PreviewNeedsNoSecrets
  <2>1. ~locked /\ "line" \notin contacted
    BY DEF InvocationInvariant, Learnt, Outcome
  <2>2. exit = 2 => Refusal
    BY DEF InvocationInvariant, Outcome, Running
  <2> QED
    BY <2>1, <2>2, RefusedPreview DEF InvocationInvariant, Refusal, from_env
<1> QED
  BY <1>1, EveryExitIsExplained, PTL

\* The daily run of a service that started is not refused: the checks of main
\* of service.py include those of the run (Settings.from_env, open_lock).
THEOREM StartedServiceRunsDaily == Spec => []AcceptedAtStartAcceptedDaily
<1>1. InvocationInvariant => AcceptedAtStartAcceptedDaily
  BY DEF InvocationInvariant, AcceptedAtStartAcceptedDaily, Outcome, Refusal, Running,
     service_accepts, from_env, args_ok, Given
<1> QED
  BY <1>1, EveryExitIsExplained, PTL
=============================================================================
