------------------------------ MODULE Campaign ------------------------------
(***************************************************************************)
(* One campaign of the control API: the runner that dials its contacts     *)
(* (src/web/server.py), the tables it keeps (src/db.py) and the dialler it *)
(* calls (src/telephony/outbound.py).  A job is one POST to run or rerun;  *)
(* every await of the code is a step of its own.  A database call may fail *)
(* without effect, whether asyncpg raises or there is no pool, and the     *)
(* process may die.  The attempts test at the head of _dial never fires:   *)
(* pending_contacts selects no attempts column, so the record a job dials  *)
(* from has none and the code reads 0.  A call goes on after its task: the *)
(* dialler returns when the callee answers.                                *)
(***************************************************************************)
EXTENDS Naturals, FiniteSets, Sequences, FiniteSetsExt

CONSTANTS
  Contacts,        \* the rows of CampaignContact of this campaign
  Phones,          \* the numbers its list may hold, one more than once
  Jobs,            \* bound: the POSTs that are made
  MaxConcurrent,   \* _CAMPAIGN_MAX_CONCURRENT
  MaxAttempts,     \* _CAMPAIGN_MAX_ATTEMPTS
  MaxTroubles,     \* bound: failed database and LiveKit calls, deaths of the API
  MaxHangUps       \* bound: calls that end

ASSUME CampaignAssumption ==
  /\ IsFiniteSet(Contacts) /\ IsFiniteSet(Phones) /\ IsFiniteSet(Jobs)
  /\ MaxConcurrent \in Nat \ {0} /\ {MaxAttempts, MaxTroubles, MaxHangUps} \subseteq Nat

VARIABLES
  phone,       \* the number of each contact, as the list was uploaded
  contacts,    \* CampaignContact: [status, attempts]
  campaign,    \* Campaign: [status, completed, failed]
  history,     \* CampaignRun and CampaignRunContact, in order of insertion;
               \* took, the contacts the run took on, is a history variable
  running,     \* the campaign is in _running_campaigns
  job,         \* a job: [pc, todo, no, run]
  dial,        \* the task _dial(contact) of a job
  room,        \* the call of that task: "ringing", "up", "over"; or its room
               \* with no call in it, "orphan" or "deleted"
  configured,  \* OUTBOUND_TRUNK_ID and LIVEKIT_* are set
  faults, crashes

campaignVars == <<phone, contacts, campaign, history, running, job, dial, room,
                  configured, faults, crashes>>

Count(f, s) == Cardinality({c \in DOMAIN f : f[c] = s})
StatusOf == [c \in Contacts |-> contacts[c].status]

\* Mutant of Holding: a task that is over keeps its place in the semaphore.
HoldingUnreleased == {"mark", "markrun", "dispatch", "ring", "cleanup", "done", "donerun",
                      "failed", "failedrun", "recount", "over"}

(* The tasks inside `async with sem`. *)
Holding == {"mark", "markrun", "dispatch", "ring", "cleanup", "done", "donerun",
            "failed", "failedrun", "recount"}

HoldingOf(j) == {c \in Contacts : dial[j][c] \in Holding}

CampaignInit ==
  /\ phone \in [Contacts -> Phones]
  /\ contacts = [c \in Contacts |-> [status |-> "pending", attempts |-> 0]]
  /\ campaign = [status |-> "draft", completed |-> 0, failed |-> 0]
  /\ history = <<>>
  /\ running = FALSE
  /\ job = [j \in Jobs |-> [pc |-> "new", todo |-> {}, no |-> 0, run |-> 0]]
  /\ dial = [j \in Jobs |-> [c \in Contacts |-> "none"]]
  /\ room = [j \in Jobs |-> [c \in Contacts |-> "none"]]
  /\ configured \in BOOLEAN
  /\ faults = 0 /\ crashes = 0

(* A call of the database or of LiveKit fails. *)
Fails == faults + crashes < MaxTroubles /\ faults' = faults + 1
Works == UNCHANGED faults

At(j, pc, next) == job[j].pc = pc /\ job' = [job EXCEPT ![j].pc = next]
DialAt(j, c, pc, next) == dial[j][c] = pc /\ dial' = [dial EXCEPT ![j][c] = next]
Table == <<contacts, campaign, history>>
Calls == <<dial, room>>
Env == <<phone, configured, crashes>>

(* ---- the POSTs ---- *)

PostRun(j) ==
  /\ At(j, "new", "guard")
  /\ UNCHANGED <<Table, Calls, Env, running, faults>>

(* reset_campaign: every contact, or with failed=1 those not done. *)
Rearmed(onlyFailed) ==
  {c \in Contacts : onlyFailed => contacts[c].status # "done"}

(* Nothing matched, no pool, or an exception: the POST answers an error. *)
PostRerun(j, onlyFailed) ==
  /\ job[j].pc = "new"
  /\ \/ /\ Works
        /\ contacts' = [c \in Contacts |->
             IF c \in Rearmed(onlyFailed) THEN [status |-> "pending", attempts |-> 0]
                                          ELSE contacts[c]]
        /\ job' = [job EXCEPT ![j].pc = "rearm", ![j].todo = Rearmed(onlyFailed)]
     \/ /\ Fails
        /\ job' = [job EXCEPT ![j].pc = "over"]
        /\ UNCHANGED contacts
  /\ UNCHANGED <<campaign, history, Calls, Env, running>>

RearmCampaign(j) ==
  /\ \/ Works /\ At(j, "rearm", "rearmcount") /\ campaign' = [campaign EXCEPT !.status = "pending"]
     \/ Fails /\ At(j, "rearm", "over") /\ UNCHANGED campaign
  /\ UNCHANGED <<contacts, history, Calls, Env, running>>

Recounted == [campaign EXCEPT !.completed = Count(StatusOf, "done"),
                              !.failed = Count(StatusOf, "failed")]

RearmCount(j) ==
  /\ \/ Works /\ campaign' = Recounted
        /\ At(j, "rearmcount", IF job[j].todo = {} THEN "over" ELSE "guard")
     \/ Fails /\ UNCHANGED campaign /\ At(j, "rearmcount", "over")
  /\ UNCHANGED <<contacts, history, Calls, Env, running>>

(* ---- _run_campaign and _run_campaign_inner ---- *)

\* Mutant of Guard: a running campaign is not looked for.
GuardNothing(j) ==
  /\ At(j, "guard", "load") /\ running' = TRUE
  /\ UNCHANGED <<Table, Calls, Env, faults>>

(* The test and the add of _running_campaigns, with no await between them. *)
Guard(j) ==
  /\ IF running THEN At(j, "guard", "over") /\ UNCHANGED running
                ELSE At(j, "guard", "load") /\ running' = TRUE
  /\ UNCHANGED <<Table, Calls, Env, faults>>

(* The finally clause: however the inner function ends. *)
Leave(j) == job' = [job EXCEPT ![j].pc = "over"] /\ running' = FALSE

LoadCampaign(j) ==
  /\ \/ Works /\ At(j, "load", "status") /\ UNCHANGED running
     \/ Fails /\ job[j].pc = "load" /\ Leave(j)
  /\ UNCHANGED <<Table, Calls, Env>>

(* An exception ends the job; with no pool the call returns and it goes on. *)
SetRunning(j) ==
  /\ job[j].pc = "status"
  /\ \/ Works /\ At(j, "status", "pending") /\ campaign' = [campaign EXCEPT !.status = "running"]
        /\ UNCHANGED running
     \/ Fails /\ Leave(j) /\ UNCHANGED campaign
     \/ Fails /\ At(j, "status", "pending") /\ UNCHANGED <<campaign, running>>
  /\ UNCHANGED <<contacts, history, Calls, Env>>

PendingContacts(j) ==
  /\ job[j].pc = "pending"
  /\ \/ /\ Works
        /\ job' = [job EXCEPT ![j].pc = "maxno",
                    ![j].todo = {c \in Contacts : contacts[c].status \in {"pending", "failed"}}]
        /\ UNCHANGED running
     \/ Fails /\ Leave(j)
     \/ Fails /\ job' = [job EXCEPT ![j].pc = "maxno", ![j].todo = {}] /\ UNCHANGED running
  /\ UNCHANGED <<Table, Calls, Env>>

(* create_campaign_run: SELECT MAX(runNo)+1, then INSERT; None on failure. *)
NextRunNo == 1 + Max({0} \cup {history[i].no : i \in DOMAIN history})

SelectMax(j) ==
  /\ job[j].pc = "maxno"
  /\ \/ Works /\ job' = [job EXCEPT ![j].pc = "insert", ![j].no = NextRunNo]
     \/ Fails /\ job' = [job EXCEPT ![j].pc = "ramp"]
  /\ UNCHANGED <<Table, Calls, Env, running>>

InsertRun(j) ==
  /\ job[j].pc = "insert"
  /\ \/ /\ Works
        /\ history' = Append(history,
             [no |-> job[j].no, status |-> "running", total |-> Cardinality(job[j].todo),
              completed |-> 0, failed |-> 0, took |-> job[j].todo,
              outcome |-> [p \in Phones |-> "none"]])
        /\ job' = [job EXCEPT ![j].pc = "ramp", ![j].run = Len(history) + 1]
     \/ Fails /\ job' = [job EXCEPT ![j].pc = "ramp"] /\ UNCHANGED history
  /\ UNCHANGED <<contacts, campaign, Calls, Env, running>>

(* The launch loop, one task a second; ORDER BY updatedAt is any order. *)
Launch(j, c) ==
  /\ job[j].pc = "ramp" /\ c \in job[j].todo
  /\ job' = [job EXCEPT ![j].todo = @ \ {c}]
  /\ DialAt(j, c, "none", "queued")
  /\ UNCHANGED <<Table, room, Env, running, faults>>

(* ---- _dial ---- *)

(* `async with sem`. *)
Acquire(j, c) ==
  /\ Cardinality(HoldingOf(j)) < MaxConcurrent
  /\ DialAt(j, c, "queued", "mark")
  /\ UNCHANGED <<Table, job, room, Env, running, faults>>

\* Mutant of Updated: every update of the status counts as an attempt.
UpdatedTwice(c, status, bump) ==
  [contacts EXCEPT ![c] = [status |-> status, attempts |-> @.attempts + 1]]

(* update_contact: attempts grows on the dialling transition only. *)
Updated(c, status, bump) ==
  [contacts EXCEPT ![c] = [status |-> status, attempts |-> @.attempts + bump]]

UpdateContact(j, c, pc, next, status, bump) ==
  /\ DialAt(j, c, pc, next)
  /\ \/ Works /\ contacts' = Updated(c, status, bump)
     \/ Fails /\ UNCHANGED contacts
  /\ UNCHANGED <<campaign, history, job, room, Env, running>>

\* Mutant of Recorded: the outcome goes to the newest run.
RecordedLast(j, c, status) ==
  IF history = <<>> THEN history ELSE [history EXCEPT ![Len(history)].outcome[phone[c]] = status]

(* record_run_contact: an upsert on (run, phone), nothing without a run. *)
Recorded(j, c, status) ==
  IF job[j].run = 0 THEN history
  ELSE [history EXCEPT ![job[j].run].outcome[phone[c]] = status]

RecordRunContact(j, c, pc, next, status) ==
  /\ DialAt(j, c, pc, next)
  /\ \/ Works /\ history' = Recorded(j, c, status)
     \/ Fails /\ UNCHANGED history
  /\ UNCHANGED <<contacts, campaign, job, room, Env, running>>

MarkDialing(j, c) == UpdateContact(j, c, "mark", "markrun", "dialing", 1)
RecordDialing(j, c) == RecordRunContact(j, c, "markrun", "dispatch", "dialing")
MarkDone(j, c) == UpdateContact(j, c, "done", "donerun", "done", 0)
RecordDone(j, c) == RecordRunContact(j, c, "donerun", "recount", "done")
MarkFailed(j, c) == UpdateContact(j, c, "failed", "failedrun", "failed", 0)
\* Mutant of RecordFailed: the except branch tells only the contact.
RecordNothing(j, c) ==
  /\ DialAt(j, c, "failedrun", "recount")
  /\ UNCHANGED <<Table, job, room, Env, running, faults>>

RecordFailed(j, c) == RecordRunContact(j, c, "failedrun", "recount", "failed")

(* place_call: the agent is dispatched into a new room, the callee rung ... *)
Dispatch(j, c) ==
  /\ configured
  /\ \/ /\ Works /\ DialAt(j, c, "dispatch", "ring")
        /\ room' = [room EXCEPT ![j][c] = "ringing"]
     \/ /\ Fails /\ DialAt(j, c, "dispatch", "failed")
        /\ UNCHANGED room
  /\ UNCHANGED <<Table, job, Env, running>>

(* ... he answers, and the task goes on while the call is up ... *)
Answered(j, c) ==
  /\ DialAt(j, c, "ring", "done")
  /\ room' = [room EXCEPT ![j][c] = "up"]
  /\ UNCHANGED <<Table, job, Env, running, faults>>

(* ... or a SIP error leaves the agent alone in the room ... *)
SipError(j, c) ==
  /\ DialAt(j, c, "ring", "cleanup")
  /\ room' = [room EXCEPT ![j][c] = "orphan"]
  /\ UNCHANGED <<Table, job, Env, running, faults>>

\* Mutant of Cleanup: the error is raised at once.
CleanupSkipped(j, c) ==
  /\ DialAt(j, c, "cleanup", "failed")
  /\ UNCHANGED <<Table, job, room, Env, running, faults>>

(* ... after which the orphan room is deleted, and the error raised anyway. *)
Cleanup(j, c) ==
  /\ DialAt(j, c, "cleanup", "failed")
  /\ \/ Works /\ room' = [room EXCEPT ![j][c] = "deleted"]
     \/ Fails /\ UNCHANGED room
  /\ UNCHANGED <<Table, job, Env, running>>

(* The calls outlive their tasks: one that is up ends, whoever hangs up;   *)
(* one that rang when the process died may still be answered.              *)
HangUp(j, c) ==
  /\ Cardinality({x \in Jobs \X Contacts : room[x[1]][x[2]] = "over"}) < MaxHangUps
  /\ room[j][c] = "up" /\ room' = [room EXCEPT ![j][c] = "over"]
  /\ UNCHANGED <<Table, job, dial, Env, running, faults>>

AnsweredUnwatched(j, c) ==
  /\ room[j][c] = "ringing" /\ dial[j][c] = "over"
  /\ room' = [room EXCEPT ![j][c] = "up"]
  /\ UNCHANGED <<Table, job, dial, Env, running, faults>>

(* Leaving the task releases the semaphore. *)
Recount(j, c) ==
  /\ DialAt(j, c, "recount", "over")
  /\ \/ Works /\ campaign' = Recounted
     \/ Fails /\ UNCHANGED campaign
  /\ UNCHANGED <<contacts, history, job, room, Env, running>>

(* ---- the end of a run ---- *)

Gather(j) ==
  /\ job[j].todo = {} /\ \A c \in Contacts : dial[j][c] \in {"none", "over"}
  /\ At(j, "ramp", "finalize")
  /\ UNCHANGED <<Table, Calls, Env, running, faults>>

Finalized(h) == [h EXCEPT !.status = "done", !.completed = Count(h.outcome, "done"),
                          !.failed = Count(h.outcome, "failed")]

FinalizeRun(j) ==
  /\ At(j, "finalize", "setdone")
  /\ \/ /\ Works
        /\ history' = IF job[j].run = 0 THEN history
                      ELSE [history EXCEPT ![job[j].run] = Finalized(@)]
     \/ Fails /\ UNCHANGED history
  /\ UNCHANGED <<contacts, campaign, Calls, Env, running>>

\* Mutant of SetDone: another word for the same status.
SetCompleted(j) ==
  /\ Works /\ At(j, "setdone", "lastcount") /\ campaign' = [campaign EXCEPT !.status = "completed"]
  /\ UNCHANGED <<contacts, history, Calls, Env, running>>

SetDone(j) ==
  /\ At(j, "setdone", "lastcount")
  /\ \/ Works /\ campaign' = [campaign EXCEPT !.status = "done"]
     \/ Fails /\ UNCHANGED campaign
  /\ UNCHANGED <<contacts, history, Calls, Env, running>>

LastCount(j) ==
  /\ job[j].pc = "lastcount" /\ Leave(j)
  /\ \/ Works /\ campaign' = Recounted
     \/ Fails /\ UNCHANGED campaign
  /\ UNCHANGED <<contacts, history, Calls, Env>>

(* The process dies with its jobs, its tasks and _running_campaigns; the   *)
(* tables and the LiveKit rooms stay.                                      *)
Die ==
  /\ job' = [j \in Jobs |-> IF job[j].pc = "new" THEN job[j] ELSE [job[j] EXCEPT !.pc = "over"]]
  /\ dial' = [j \in Jobs |-> [c \in Contacts |->
                IF dial[j][c] = "none" THEN "none" ELSE "over"]]
  /\ running' = FALSE
  /\ UNCHANGED <<Table, phone, room, configured, faults>>

Crash ==
  /\ faults + crashes < MaxTroubles /\ crashes' = crashes + 1
  /\ \E j \in Jobs : job[j].pc \notin {"new", "over"}
  /\ Die

(* place_call raises SystemExit when the trunk is not configured: `except  *)
(* Exception` does not catch it and the event loop lets it through.        *)
DieUnconfigured(j, c) ==
  /\ ~configured /\ dial[j][c] = "dispatch"
  /\ Die /\ UNCHANGED crashes

DialStep(j, c) ==
  \/ Launch(j, c) \/ Acquire(j, c) \/ MarkDialing(j, c) \/ RecordDialing(j, c)
  \/ Dispatch(j, c) \/ Answered(j, c) \/ SipError(j, c) \/ Cleanup(j, c)
  \/ MarkDone(j, c) \/ RecordDone(j, c) \/ MarkFailed(j, c) \/ RecordFailed(j, c)
  \/ Recount(j, c) \/ DieUnconfigured(j, c)

JobStep(j) ==
  \/ RearmCampaign(j) \/ RearmCount(j) \/ Guard(j) \/ LoadCampaign(j) \/ SetRunning(j)
  \/ PendingContacts(j) \/ SelectMax(j) \/ InsertRun(j) \/ Gather(j)
  \/ FinalizeRun(j) \/ SetDone(j) \/ LastCount(j)
  \/ \E c \in Contacts : DialStep(j, c)

CampaignNext ==
  \/ \E j \in Jobs : PostRun(j) \/ JobStep(j)
  \/ \E j \in Jobs, c \in Contacts : HangUp(j, c) \/ AnsweredUnwatched(j, c)
  \/ \E j \in Jobs, onlyFailed \in BOOLEAN : PostRerun(j, onlyFailed)
  \/ Crash

CampaignSpec == CampaignInit /\ [][CampaignNext]_campaignVars

-----------------------------------------------------------------------------

(* The types of the variables. *)
CampaignTypeOK ==
  /\ contacts \in [Contacts -> [status : {"pending", "dialing", "done", "failed"},
                                attempts : Nat]]
  /\ campaign.status \in {"draft", "pending", "running", "done"}
  /\ running \in BOOLEAN
  /\ \A j \in Jobs : job[j].run \in 0..Len(history) /\ job[j].todo \subseteq Contacts

(* However runs and reruns are clicked, and however a run ends, only one   *)
(* job of the process dials, and no more than MaxConcurrent of its calls   *)
(* are being placed: what the _running_campaigns guard and the semaphore   *)
(* bound.  While the process lives, a phone that rings is one of these;    *)
(* calls that were answered are not.                                       *)
DialsBounded ==
  /\ \A j \in Jobs : /\ Cardinality(HoldingOf(j)) <= MaxConcurrent
                     /\ \A k \in Jobs : HoldingOf(j) # {} /\ HoldingOf(k) # {} => j = k
  /\ crashes = 0 => \A j \in Jobs, c \in Contacts : room[j][c] = "ringing" => c \in HoldingOf(j)

(* attempts counts a dial at most once, however its updates fail and       *)
(* whatever resets it: the double count the comment of update_contact      *)
(* reports stays fixed.                                                    *)
AttemptsAreDials ==
  \A c \in Contacts :
    contacts[c].attempts <= Cardinality({j \in Jobs : dial[j][c] \notin {"none", "queued", "mark"}})

(* Two runs of the campaign never have the same number, although the       *)
(* number is read and inserted in two statements and the table has no      *)
(* unique index on it.                                                     *)
RunNumbersDistinct ==
  \A i, k \in DOMAIN history : history[i].no = history[k].no => i = k

(* A run that is closed keeps its counts and its outcomes whatever later   *)
(* runs, reruns and resets do: the history that CampaignRun is kept for.   *)
ClosedRunStays ==
  [][\A i \in DOMAIN history :
       history[i].status = "done" => i \in DOMAIN history' /\ history'[i] = history[i]]_campaignVars

(* No zombie contact: a run that closes with no failed call behind it has  *)
(* an outcome, done or failed, for every phone it took on, however the     *)
(* tasks of contacts that share one have overwritten each other's.         *)
ClosedRunAddsUp ==
  \A i \in DOMAIN history :
    faults = 0 /\ history[i].status = "done" =>
      history[i].completed + history[i].failed =
        Cardinality({phone[c] : c \in history[i].took})

(* A room is left open behind a failed call only if its deletion failed or *)
(* the process died: the orphan rooms place_call cleans up.                *)
NoOrphanRooms ==
  faults = 0 /\ crashes = 0 =>
    \A j \in Jobs, c \in Contacts :
      dial[j][c] \in {"failed", "failedrun"} => room[j][c] # "orphan"

(* What a campaign's jobs, tables and rooms show at every step. *)
CampaignInv ==
  /\ CampaignTypeOK /\ DialsBounded /\ AttemptsAreDials
  /\ RunNumbersDistinct /\ ClosedRunAddsUp /\ NoOrphanRooms

(* Every job ends: whatever fails, the guard and the semaphore are given   *)
(* back, so a later run is not refused for ever.                           *)
JobsEnd == \A j \in Jobs : job[j].pc = "guard" ~> job[j].pc = "over"

(* Comment of _dial: "Stop retrying a contact that has already failed too  *)
(* many times."                                                            *)
AttemptsCapped == \A c \in Contacts : contacts[c].attempts <= MaxAttempts

(* Docstring of rerun_campaign: "Re-arm a finished campaign and dial it    *)
(* again."  Here: what was re-armed is not left pending by a campaign that *)
(* is done with no job at work.                                            *)
RearmedIsDialled ==
  faults = 0 /\ campaign.status = "done" /\ (\A j \in Jobs : job[j].pc \in {"new", "over"}) =>
    \A c \in Contacts : contacts[c].status # "pending"

(* A contact is not left dialling when no job is at work. *)
NoneStuckDialing ==
  faults = 0 /\ (\A j \in Jobs : job[j].pc \in {"new", "over"}) =>
    \A c \in Contacts : contacts[c].status # "dialing"

(* Violated.  "Max simultaneous live calls per campaign run": a task gives *)
(* its place back when the callee answers, and the next call is placed.    *)
LiveCallsBounded ==
  \A j \in Jobs : Cardinality({c \in Contacts : room[j][c] \in {"ringing", "up"}}) <= MaxConcurrent

(* Violated.  A phone whose call is up is not rung again: a rerun, or a    *)
(* second contact with the same phone, does.                               *)
OnePhoneOneCall ==
  \A j, k \in Jobs, c, d \in Contacts :
    room[j][c] = "up" /\ room[k][d] = "ringing" => phone[c] # phone[d]

(* Violated.  The counts of a closed run make up its total: contacts that  *)
(* share a phone share the outcome.                                        *)
ClosedRunMakesTotal ==
  \A i \in DOMAIN history :
    faults = 0 /\ history[i].status = "done" =>
      history[i].completed + history[i].failed = history[i].total
=============================================================================
