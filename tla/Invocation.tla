----------------------------- MODULE Invocation -----------------------------
(***************************************************************************)
(* One execution of the command line, from its arguments and environment   *)
(* to its exit status: _parse_args and main of __main__.py, from_env of    *)
(* config.py, and the checks main of service.py makes of the same          *)
(* environment.  The job itself is a step with every result; Cli and       *)
(* ScheduleJob have its inside.                                            *)
(***************************************************************************)
EXTENDS Integers

\* An option that is given with a value may have the empty one, which Python
\* takes for false.
Dates == {"absent", "empty", "malformed", "past", "today", "future"}
RetryKeys == {"absent", "empty", "malformed", "uuid"}
Argvs == [form: {"known", "help", "unknown"}, dry_run: BOOLEAN, manual: BOOLEAN,
          date: Dates, retry_key: RetryKeys]

\* Which settings are acceptable; lock_path: JOB_LOCK_PATH is not blank,
\* lock_file: the file can be opened.
Environments ==
  [token: BOOLEAN, secret: BOOLEAN, public_id: BOOLEAN, timezone: BOOLEAN,
   log_level: BOOLEAN, lock_path: BOOLEAN, lock_file: BOOLEAN]

VARIABLES
  argv, env,   \* given
  at,          \* how far main has come
  locked,      \* it is inside job_lock, holding the lock
  contacted,   \* the services it sent a request to
  exit         \* its exit status, -1 while it runs

vars == <<argv, env, at, locked, contacted, exit>>

Running == -1
Given(value) == value \notin {"absent", "empty"}

-----------------------------------------------------------------------------
Goto(stage) == at' = stage /\ UNCHANGED <<argv, env, locked, contacted, exit>>

Exit(code) ==
  /\ exit' = code /\ at' = "ended" /\ locked' = FALSE
  /\ UNCHANGED <<argv, env>>

\* Mutant: an empty retry key is not looked at.
args_ok_if_given(args) ==
  /\ args.form = "known"
  /\ ~(args.dry_run /\ (args.manual \/ Given(args.retry_key)))
  /\ Given(args.date) => args.manual \/ args.dry_run
  /\ Given(args.retry_key) => args.manual
  /\ args.date \in {"absent", "past", "today", "future"}
  /\ args.retry_key # "malformed"

\* _parse_args: the combinations, by truth value; then the values, if not None.
args_ok(args) ==
  /\ args.form = "known"
  /\ ~(args.dry_run /\ (args.manual \/ Given(args.retry_key)))
  /\ Given(args.date) => args.manual \/ args.dry_run
  /\ Given(args.retry_key) => args.manual
  /\ args.date # "absent" => args.date \in {"past", "today", "future"}
  /\ args.retry_key # "absent" => args.retry_key = "uuid"

ParseArgs ==
  /\ at = "started"
  /\ IF argv.form = "help" THEN Exit(0) /\ UNCHANGED contacted
     ELSE IF args_ok(argv) THEN Goto("settings")
     ELSE Exit(2) /\ UNCHANGED contacted

\* Settings.from_env.  JOB_LOCK_PATH is looked at when the lock is opened.
from_env(require_token) ==
  /\ require_token => env.token
  /\ env.public_id /\ env.timezone /\ env.log_level

\* Mutant: a preview reads the settings as the other modes do.
ReadSettingsWithToken ==
  /\ at = "settings"
  /\ IF from_env(TRUE) THEN Goto("target") ELSE Exit(2) /\ UNCHANGED contacted

ReadSettings ==
  /\ at = "settings"
  /\ IF from_env(~argv.dry_run) THEN Goto("target") ELSE Exit(2) /\ UNCHANGED contacted

\* The date of a manual run or a preview may not lie in the future.
ResolveTarget ==
  /\ at = "target"
  /\ IF (argv.manual \/ argv.dry_run) /\ argv.date = "future"
       THEN Exit(2) /\ UNCHANGED contacted
       ELSE Goto(IF argv.dry_run THEN "preview" ELSE "lock")

\* A preview asks iCHEF; no schedule, too long a text and every failure are 1.
Preview ==
  /\ at = "preview" /\ contacted' = {"ichef"}
  /\ \E code \in {0, 1} : Exit(code)

\* open_lock and flock: an unusable file, a lock that is busy, or the lock.
OpenLock ==
  /\ at = "lock"
  /\ IF ~(env.lock_path /\ env.lock_file)
       THEN Exit(2) /\ UNCHANGED contacted
       ELSE \/ Exit(0) /\ UNCHANGED contacted
            \/ /\ at' = "run" /\ locked' = TRUE
               /\ UNCHANGED <<argv, env, contacted, exit>>

\* ScheduleJob.run or run_manual: returns, or raises anything.
Run ==
  /\ at = "run"
  /\ contacted' \in {{}, {"ichef"}, {"ichef", "line"}}
  /\ \/ Exit(1)
     \/ "line" \in contacted' /\ Exit(0)

Init ==
  /\ argv \in Argvs /\ env \in Environments
  /\ at = "started" /\ locked = FALSE /\ contacted = {} /\ exit = Running

Next == ParseArgs \/ ReadSettings \/ ResolveTarget \/ Preview \/ OpenLock \/ Run

Spec == Init /\ [][Next]_vars

-----------------------------------------------------------------------------
\* WebhookSettings.from_env.
webhook_from_env == env.secret /\ env.log_level

\* Mutant: the service leaves the lock to its jobs.
service_accepts_settings == from_env(TRUE) /\ webhook_from_env

\* main of service.py: Settings, WebhookSettings and a look at the lock file,
\* before a child is started; with less, the container does not start.
service_accepts ==
  from_env(TRUE) /\ webhook_from_env /\ env.lock_path /\ env.lock_file

\* A run that ends with 2 (README: wrong settings or arguments) did nothing: a
\* wrong argument or setting is found before any request is sent, and nothing
\* that goes wrong later ends with 2.  And it is found: with a wrong one, no
\* service is contacted.
WrongInputIsHarmless ==
  LET wrong == \/ argv.form # "known"
               \/ argv.date \in {"empty", "malformed", "future"}
               \/ argv.retry_key \in {"empty", "malformed"}
               \/ argv.dry_run /\ argv.manual
               \/ argv.date # "absent" /\ ~argv.dry_run /\ ~argv.manual
               \/ argv.retry_key # "absent" /\ ~argv.manual
  IN  /\ exit = 2 => contacted = {}
      /\ wrong => contacted = {} /\ ~locked /\ exit \in {Running, 0, 2}

\* A preview never takes the lock, never calls LINE, and needs neither the
\* access token nor a lock file to succeed (README: "不需要 access token、不
\* 取得廣播鎖").
PreviewNeedsNoSecrets ==
  argv.form = "known" /\ argv.dry_run =>
    /\ ~locked /\ "line" \notin contacted
    /\ (exit = 2 /\ env.public_id /\ env.timezone /\ env.log_level) =>
         \/ argv.manual \/ argv.retry_key # "absent"
         \/ argv.date \in {"empty", "malformed", "future"}

\* What the service accepts before it starts its children, its daily run
\* accepts too: with the same environment it is not refused at 13:35.
AcceptedAtStartAcceptedDaily ==
  service_accepts /\ argv = [form |-> "known", dry_run |-> FALSE, manual |-> FALSE,
                             date |-> "absent", retry_key |-> "absent"]
  => exit # 2
=============================================================================
