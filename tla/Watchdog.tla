------------------------------ MODULE Watchdog ------------------------------
(***************************************************************************)
(* The supervisor of the worker process (scripts/watchdog.py).  A round of *)
(* its loop sleeps one CHECK_INTERVAL, polls the child, probes the health  *)
(* endpoint and reads the child's log, in that order, while the child goes *)
(* on working.  Time is counted in rounds.  Of the log the watchdog tells  *)
(* apart which marker is the newest and whether ten lines say that the     *)
(* inference process is closed; spawn starts a new log and keeps the old   *)
(* ones.                                                                   *)
(***************************************************************************)
EXTENDS Naturals

CONSTANTS
  StartupGrace,   \* STARTUP_GRACE, in rounds
  HardStrikes,    \* HARD_STRIKES
  SoftGrace,      \* SOFT_UNREG_GRACE, in rounds
  KeptLogs        \* the keep of _rotate

ASSUME WatchdogAssumption ==
  {StartupGrace, HardStrikes, SoftGrace, KeptLogs} \subseteq Nat \ {0}

VARIABLES
  alive,        \* the child runs
  http,         \* what GET / answers: "200", "503" or "silent"
  marker,       \* the newest marker of the log
  closed,       \* ten lines of "process object is closed"
  check,        \* where the round is
  hard,         \* the value of _probe_hard_down in this round
  age,          \* rounds since the spawn, up to StartupGrace
  strikes,      \* hard_strikes
  softFor,      \* rounds since soft_since; Idle when that is 0.0
  killed,       \* history variable: the last step killed the child
  down,         \* history variable: rounds in a row that found it unregistered, capped
  current, logs \* the child's number, and whose log each file on disk is

watchdogVars == <<alive, http, marker, closed, check, hard, age, strikes, softFor,
                  killed, down, current, logs>>
worker == <<alive, http, marker, closed>>
counters == <<age, strikes, softFor, killed, down, current, logs>>

Idle == SoftGrace + 1

\* Mutant of Rotate: the files are renamed from the newest up, each over the
\* one before it.
RotateUp(files) == [i \in 0..KeptLogs |-> IF i = KeptLogs THEN files[0] ELSE 0]

(* _rotate: the oldest file is unlinked, then every other one, the oldest  *)
(* first and worker.log itself last, is renamed to the name after its own, *)
(* which no file has any more.  0: no such file.                           *)
Rotate(files) == [i \in 0..KeptLogs |-> IF i = 0 THEN 0 ELSE files[i - 1]]

WatchdogInit ==
  /\ alive = TRUE /\ http = "silent" /\ marker = "none" /\ closed = FALSE
  /\ check = "sleep" /\ hard = FALSE
  /\ age = 0 /\ strikes = 0 /\ softFor = Idle
  /\ killed = FALSE /\ down = 0
  /\ current = 1 /\ logs = [i \in 0..KeptLogs |-> IF i = 0 THEN 1 ELSE 0]

(* The child after n; the numbers are reused when its log is long gone. *)
Following(n) == IF n = KeptLogs + 2 THEN 1 ELSE n + 1

(* spawn, and the counters every caller of it resets. *)
Spawn ==
  /\ alive' = TRUE /\ http' = "silent" /\ marker' = "none" /\ closed' = FALSE
  /\ age' = 0 /\ strikes' = 0 /\ softFor' = Idle /\ down' = 0
  /\ current' = Following(current)
  /\ logs' = [Rotate(logs) EXCEPT ![0] = current']

(* The top of the loop: respawn a child that has exited, and judge none    *)
(* that is still starting.                                                 *)
Poll ==
  /\ check = "sleep"
  /\ \/ /\ ~alive /\ Spawn /\ check' = "sleep"
     \/ /\ alive /\ age < StartupGrace
        /\ age' = age + 1 /\ strikes' = 0 /\ softFor' = Idle /\ down' = 0
        /\ check' = "sleep" /\ UNCHANGED <<worker, current, logs>>
     \/ /\ alive /\ age = StartupGrace
        /\ check' = "probe" /\ UNCHANGED <<worker, age, strikes, softFor, down, current, logs>>
  /\ killed' = FALSE /\ UNCHANGED hard

(* _probe_hard_down: an unreachable endpoint is not hard-down. *)
Probe ==
  /\ check = "probe" /\ check' = "judge"
  /\ hard' = (http = "503" \/ closed)
  /\ UNCHANGED <<worker, counters>>

(* _log_unregistered: no failure marker means registered. *)
Unregistered == marker = "failed"

\* Mutant of Waited: every round starts the clock of the outage.
WaitedAnew == 0

(* The rounds this outage has lasted, this one included. *)
Waited == IF softFor = Idle THEN 0 ELSE softFor + 1

(* _restart: stop waits for the child to end, then a new one is spawned. *)
Restart == Spawn /\ killed' = TRUE

DownAgain == down' = IF down < HardStrikes THEN down + 1 ELSE down
\* Mutant of Healthy: the hard strikes are kept.
HealthyButStruck == UNCHANGED strikes /\ softFor' = Idle /\ down' = 0

Healthy == strikes' = 0 /\ softFor' = Idle /\ down' = 0

\* Mutant of JudgeHard: one strike too many is waited for.
JudgeHardLate ==
  /\ hard
  /\ \/ ~Unregistered /\ Healthy /\ killed' = FALSE /\ UNCHANGED <<worker, age, current, logs>>
     \/ /\ Unregistered /\ strikes < HardStrikes
        /\ strikes' = strikes + 1 /\ softFor' = Idle
        /\ DownAgain /\ killed' = FALSE /\ UNCHANGED <<worker, age, current, logs>>
     \/ Unregistered /\ strikes >= HardStrikes /\ Restart

JudgeHard ==
  /\ hard
  /\ \/ ~Unregistered /\ Healthy /\ killed' = FALSE /\ UNCHANGED <<worker, age, current, logs>>
     \/ /\ Unregistered /\ strikes + 1 < HardStrikes
        /\ strikes' = strikes + 1 /\ softFor' = Idle
        /\ DownAgain /\ killed' = FALSE /\ UNCHANGED <<worker, age, current, logs>>
     \/ Unregistered /\ strikes + 1 >= HardStrikes /\ Restart

JudgeSoft ==
  /\ ~hard /\ Unregistered
  /\ \/ /\ Waited < SoftGrace
        /\ strikes' = 0 /\ softFor' = Waited
        /\ DownAgain
        /\ killed' = FALSE /\ UNCHANGED <<worker, age, current, logs>>
     \/ Waited >= SoftGrace /\ Restart

JudgeHealthy ==
  /\ ~hard /\ ~Unregistered
  /\ Healthy /\ killed' = FALSE /\ UNCHANGED <<worker, age, current, logs>>

Judge ==
  /\ check = "judge" /\ check' = "sleep" /\ UNCHANGED hard
  /\ JudgeHard \/ JudgeSoft \/ JudgeHealthy

(* ---- the child, as the watchdog sees it ---- *)

Register == alive /\ marker' = "registered" /\ UNCHANGED <<alive, http, closed>>
LoseConnection == alive /\ marker' = "failed" /\ UNCHANGED <<alive, http, closed>>
HealthAnswer == alive /\ http' \in {"200", "503", "silent"} \ {http} /\ UNCHANGED <<alive, marker, closed>>
InferenceDies == alive /\ ~closed /\ closed' = TRUE /\ UNCHANGED <<alive, http, marker>>
WorkerExits == alive /\ alive' = FALSE /\ UNCHANGED <<http, marker, closed>>

WorkerStep ==
  /\ Register \/ LoseConnection \/ HealthAnswer \/ InferenceDies \/ WorkerExits
  /\ killed' = FALSE
  /\ UNCHANGED <<check, hard, age, strikes, softFor, down, current, logs>>

Round == Poll \/ Probe \/ Judge

WatchdogNext == Round \/ WorkerStep

WatchdogSpec == WatchdogInit /\ [][WatchdogNext]_watchdogVars

-----------------------------------------------------------------------------

(* The types of the variables. *)
WatchdogTypeOK ==
  /\ alive \in BOOLEAN /\ closed \in BOOLEAN /\ hard \in BOOLEAN /\ killed \in BOOLEAN
  /\ http \in {"200", "503", "silent"} /\ marker \in {"none", "registered", "failed"}
  /\ check \in {"sleep", "probe", "judge"}
  /\ age \in 0..StartupGrace /\ strikes \in 0..(HardStrikes - 1)
  /\ softFor \in 0..(SoftGrace - 1) \cup {Idle}
  /\ current \in 1..(KeptLogs + 2) /\ logs \in [0..KeptLogs -> 0..(KeptLogs + 2)]

(* A child is killed only when the log showed it unregistered in the last  *)
(* HardStrikes rounds one after the other, whatever the endpoint answered: *)
(* never a booting worker, never one that came back in between, never one  *)
(* that takes calls while the endpoint raises its false alarm.             *)
KillsOnlyTheDown == [][killed' => down >= HardStrikes - 1 /\ marker = "failed" /\ age = StartupGrace]_watchdogVars

(* An outage of one kind is not left alone: a child that stays unregistered *)
(* with the endpoint answering 503 is replaced, and so is one that stays    *)
(* unregistered with the endpoint answering 200.                            *)
OutageEnds ==
  /\ []<>~(alive /\ marker = "failed" /\ http = "503")
  /\ []<>~(alive /\ marker = "failed" /\ http # "503" /\ ~closed)

(* The log of a child is on disk until KeptLogs others have come after it: *)
(* a crash can be read after the respawn, and the renames never leave a    *)
(* hole nor overwrite a log that is still to be kept.                      *)
LogsInOrder ==
  /\ logs[0] = current
  /\ \A i \in 1..KeptLogs :
       logs[i] # 0 => logs[i - 1] = Following(logs[i])
  /\ current > KeptLogs => \A i \in 0..KeptLogs : logs[i] # 0

(* The counters stay in their bounds and the logs in their order. *)
WatchdogInv == WatchdogTypeOK /\ LogsInOrder

(* A worker that is unregistered for good is replaced, whichever way each  *)
(* round finds it.                                                         *)
AnyOutageEnds == []<>~(alive /\ marker = "failed")

(* Docstring of _log_unregistered: True if the worker is currently not     *)
(* registered "(or it never registered)".  Such a worker is replaced.      *)
NeverRegisteredEnds == []<>~(alive /\ marker = "none")
=============================================================================
