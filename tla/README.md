# Verification of the voice-call system

TLA+ models of the inbound/outbound AI call system in this repository: the
LiveKit agent worker (`src/src/agent.py` and the modules it drives), the FastAPI
control API (`src/src/web/server.py`), the Next.js dashboard (`src/dashboard`),
the watchdog (`src/scripts/watchdog.py`), Supabase Postgres and Redis.  TLC
checks the models on small instances, TLAPS proves their safety properties for
every value of the constants.

Source names are of files in `src/src/` unless they begin with another directory.

## 1. The system and its parts

| Part | State it keeps | Operations | Hard behaviour | What makes it correct |
|---|---|---|---|---|
| **Appointment book** `db.py` 594-1075, `tools.py`, dashboard `api/appointments` | the `Appointment` table with a partial unique index, a 20 s availability cache per process | book, reschedule, cancel, cancel all, list slots; dashboard POST and DELETE | every SELECT, INSERT and UPDATE is an `await`; calls, parallel tool calls and the dashboard interleave; reads fail open, writes are retried, acknowledgements get lost | a slot has one holder; a reply says what happened; nobody else's booking is touched |
| **Slot grid** `db.py` 540-780 | the saved hours, step and weekdays | refresh, spoken date and time to a slot, free slots | zero read as unset, clamps, rounding, the clock's last minutes | spoken times land on slots that can be booked |
| **Live snapshot** `agent.py` 498-618 | a 15 s text of the book | five reads, store, invalidate | awaits between the reads and the store | no block shows an older table than it says |
| **Prompt** `agent.py` 930-1300, `prompt_budget.py` | the chat, the mood | rails, forced tool, tools on demand, trim | a turn depends on the whole history; the trim cuts between a call and its output | the rails and the last exchange survive, the budget holds |
| **Conversation** `fsm.py`, `cancellation.py`, `predictive.py`, the turn handler of `agent.py` | FSM state, registered tasks, the prefetch and its shared `_result`, the pending filler | session events, interim and final transcripts, the scheduled interrupt, the 0.20 s wait | callbacks in any order, tasks that outlive the turn that made them | barge-ins are seen, interrupts drain the prefetches, an answer is for the question asked |
| **Turn routing** `router/`, `agent.py` 200-420 and 1330-1480 | last language, last line of each pool | classify, detect the language, pick a canned line | one word list hides another; a draft before the hook of its turn; a prefetched answer before the router's line | a goodbye closes unless the prefetch answered it, the language is the content's, lines rotate |
| **Hearing** `audio.py`, `backchannel.py` | what the agent said, half duplex and its timers | audio on and off, transcripts, a bad link | the text of a line comes before, its audio during, its echo after | the caller is heard, the agent does not hear itself |
| **Stabiliser** `pipeline/stabilizer.py` | stable prefix and tracks | push partials and finals, reset | rewrites in the middle of a transcript | what is stable has lasted |
| **LLM reply** `llm_race.py`, `agent.py` 1283-1316 and its fallbacks | the streams | race, fall back, cancel | winner, loser, failure and cancellation in any order | one stream is heard, none is left open |
| **Voice** `pipeline/tts.py`, `tts_cache.py` | speaker, phrase cache | retune, `say_cached` | renders in parallel, a retune in between | the model has the voice; the cache keeps the last used |
| **Caller gender** `gender.py` | a window of pitches, the lock | frames, decision, spot checks | a lock against a phone that is handed over | the agent's honorifics follow the voice |
| **Call start** `agent.py` 2280-2764 | tasks, the shared list of openers | configure, wait for the callee, pick, ask, prebake | a callee who comes early, late or never; two calls write one list | every call opens |
| **Call ending** `telephony/resilience.py`, `_hangup` in `agent.py` | the grace task, `_end_fired` | disconnect, grace expiry, hangup, room deletion | four parties may end a call; a blip may come back at any second | the room is deleted once, not early, and in the end |
| **Call record** `telemetry.py`, `db.py` 150-330 | Redis list, `Call` and `Transcript` rows, `_call_ready`, `_call_lock` | first upsert, start, turn, context, shutdown flush, replay, end | fire-and-forget tasks against outages, a foreign key, a flush that gives up | no line lost, only a task flush gave up on touches an ended call, shutdown returns |
| **Campaign** `web/server.py` 224-344, `db.py` 340-590, `telephony/outbound.py` | contacts, campaign, run history, `_running_campaigns` | run, rerun, dial, record, count, close | several runs clicked, contacts that share a phone, calls that outlive their tasks, a failing write anywhere, a crash while dialling | one job dials, within its semaphore; attempts are dials; a closed run adds up and stays |
| **Runtime configuration** `runtime_config.py`, dashboard `api/config` | the row, the Redis entry | load, save, invalidate, expire | a load that overlaps a save | the cache settles on what was saved |
| **Semantic cache** `cache.py` | Redis hash, a mirror per process | lookup, refresh, prune, store | a mirror refreshed while entries are stored and expire | what is served is young, what is stored propagates |
| **Knowledge base** `kb.py`, `kb_store.py`, `web/server.py`, dashboard `api/kb` | document rows, vectors, answers | upload, delete, search, prefetch | either side fails half-way; an upload overlaps its deletion | indexed is searchable; vectors keep a row to delete them by |
| **Caller profiles** `memory.py`, dashboard `api/self-learning` | active profile, suggestions, the applied marks | learn, suggest, approve, reject, load | two tabs, a lost reply, an approval beside the next call | only what an operator approved is remembered, once |
| **Watchdog** `scripts/watchdog.py` | counters, log files | probe, judge, restart, rotate | two symptoms whose counters reset each other; a worker that boots | a worker that is down is restarted, a healthy one never |
| Control API's other routes, SIP setup, provider factories, sentence streaming, texts, notifications, dashboard pages, benchmarks | - | provider and page I/O | - | see "Not modelled" |

How they interact.  The session's events call the FSM's hooks; a transition to
INTERRUPTED schedules the registry's `on_interrupt`, which cancels the
prefetches and flushes the audio.  The turn handler takes the prefetch's answer,
or a line of the router, or lets the LLM answer; `llm_node` trims the prompt,
puts the snapshot in it and may force a booking tool; the tools share the
process's availability cache with the snapshot.  A disconnect goes to the FSM
(CALL_END) and to the grace check, which may call `_hangup`; `_hangup` deletes
the room, whose end runs the shutdown callback, which closes the call record
and leaves a profile suggestion for the dashboard.  The dashboard writes the
configuration, the documents, the contacts and the bookings that later calls
read.  The campaign runner dials calls; the watchdog restarts the worker.

Every part is listed in `PROJECT.json` under `components`, and every place where
this code is hard to test under `hazards`.

## 2. What is modelled

Each module's VARIABLES name the code's fields they stand for; the names of the
actions are those of the functions, or say what a piece of one does.  Code
between two awaits is one action.  Definitions commented `Mutant of X`
are plausible bugs kept for the tests of the properties; no specification uses
them.

### The book: Appointments, BookingLedger, AppointmentsRefinement

One *client* is a tool-invocation slot of a call (`Calls`) or a request slot of
the dashboard (`Desk`).  `pc[c]` names the await a request is about to complete.
A SELECT whose rows only enter the process after its await is two actions
(`SelectTimes` reads the table into `view[c]`, `TimesArrive` stores the view in
the cache), so another client's INSERT may fall in between.

| Code | Model |
|---|---|
| `appt_booked_times`, `_booked_cache` | `ServeFromCache`, `SelectTimes`, `TimesArrive`, `SelectTimesFails`, `ExpireCache`, `cache` |
| `appt_book` | `StartBook`, `RefuseEarly`, `DuplicateGuard`, `Insert`, `InsertFails`, `InsertConflicts`, `NextAttempt`, `BookReturns` |
| `appt_reschedule` | `StartReschedule`, `FindForMove`, `Move`, `MoveFails`, `RescheduleReturns` |
| `appt_cancel`, `cancel_appointment`, `cancel_all_appointments` | `StartCancel`, `StartCancelAll`, `ListBookings`, `LookUp`, `Cancel`, `CancelFails`, `CancelReturns`, `Verdict` |
| `check_appointment_slots`, the snapshot's reads | `StartSlots`, `StartSnapshot`, `offered` |
| `_get_pool`, `_ensure_appt_constraints` | `Connect`, `EnsureConstraints`, `pool`, `idx` |
| dashboard `POST` / `DELETE` | `DeskClash`, `DeskCreate`, `DeskCreateFails`, `DeskFind`, `DeskCancel` |

`done[c]` is a history variable: a write of the current request has committed.
Slots are model values with a date each.  `BookingLedger` is what the book
promises, without rows, caches or retries; `AppointmentsRefinement` maps the
table to it (`Holder`: the number on a slot's booked row).

### Around the book: SlotGrid, LiveSnapshot, PromptAssembly

`SlotGrid` does the arithmetic on minutes: `RefreshApptGrid` (the clamp and the
environment's values for what is unset), `NormTime`, `ResolveDate`, `FreeOn`
with today's cutoff.  The grids, the clock faces and the hours asked for are
small sets chosen at the boundaries (half a step, noon, the last slot, the last
five minutes of the day).  The operators are checked in every state against
what they are for, not against a second copy of themselves.

`LiveSnapshot`: a draft (`_appt_live_snapshot` of one LLM turn) reads its parts
one by one, may read some late or not at all, and stores the text; a tool books
and then invalidates.  The table is a count of bookings, which is enough to
tell an older text from a newer one.

`PromptAssembly`: the chat is a sequence of items; `CallerSays`, `CallTool`,
`GiveUp`, `AnswerInWords` are a turn of `llm_node`, `Prompt` the trim of
`enforce_prompt_budget`, `Forced` and `Offered` the tool choice.  A tool's
reply is the text the later turns search for "booked".  What the model says is
any answer or any tool the choice allows.

### A call under way: ConversationFSM, Conversation, TurnRouting, Hearing, Stabiliser, Voice, LlmTurn

`ConversationFSM` is the transition table and the five hooks as functions.
`Conversation` binds them to the session's events and adds the registry, the
prefetch tasks and the turn handler.  The AgentSession decides who speaks and
when a turn completes; it is not in this repository and is modelled by its
events, in any order the handlers of `agent.py` allow.

| Code | Model |
|---|---|
| session event handlers, `_on_transition` | `UserStarts`, `UserStops`, `AgentStarts`, `AgentStops`, `Disconnect`, `MoveTo` |
| `CancellationRegistry.on_interrupt`, `cancel_generation` | `RunInterrupt`, `tracked` |
| `PredictivePrefetch.maybe_prefetch`, `_prefetch` | `Interim`, `Acquire`, `Resolve`, `LookupFails` |
| `take_if_matches`, `reset`, `on_user_turn_completed` | `TurnCompleted`, `Waited`, `Took`, `Routed` |
| `_pending_filler` | `Routed`, `FillerPlays` |

Text is a set `Queries` with the relation `Within` (the final starts with or
contains the prediction).  `lastFiller` = 0 stands for the code's -10, which is
at least as far from the first turn as the gap test asks.

`TurnRouting`: a turn is the set of words in it that the code's lists know;
`Hits`, `Intent`, `Trivial`, `Variety`, `MarkerLanguage` are the classifier and
the language detection, `Noise`, `Canned`, `Asked` the routes of
`on_user_turn_completed`.  A prefetched answer goes before the router's line:
`Prefetchable` is what `maybe_prefetch` looks up, `Foreseen` a turn that
contains such a prefix, and `Canned` and `Asked` may then take the route "warm".
`Hearing` has the lines handed to the session before they are heard (`HandOver`,
the queue `said`), the echo guard, half duplex with both
triggers and the backchanneler's one ack, on a clock of ticks.  `Stabiliser`
pushes partials and finals of two tokens through `Rewritten`, `Kept`,
`Followed`, `Lasted`.  `Voice` is `_safe_speaker`, the retune after a final
transcript, and `say_cached` with its LRU store behind `_say` (`SayCached`) and
the listening acks (`Ack`); a phrase is keyed by the model, the speaker
configured for the memory's language, that language and its words (`KeyOf`), and
holds the audio of the speaker that rendered it.

`LlmTurn` is one reply: `Wake`, `CloseLoser`, `NextWait`, `DropLoser`,
`YieldFirst`, `WinnerEnds`, `Finally` are `race_async_gens`, the `Alone` actions
`_llm_stream_with_fallback` with the adapter over both providers.  `Closed` is
`t.cancel()` with `_safe_aclose`: a generator that is still pulling refuses
`aclose`, and its cancellation lands on a later turn of the loop.

### The edges of a call: CallStart, CallerGender, CallEnding

`CallStart` follows `entrypoint` from its metadata to the first words for two
calls at once, with the profile task, `_prebake_opener` beside the wait for the
callee, and the list of openers the calls share.  `CallerGender` takes frames
as the band the pitch lands in; `Medians`, `Classified`, `Decide`, `SpotCheck`,
`Rearm` are `detect_caller_gender`.  In `CallEnding` seconds pass in `Tick`; a
timer at zero fires before time goes on.  `OnDisconnect` is `_on_disconnect`,
`GraceExpires` the code after the grace sleep, `Hangup` is `_hangup` up to its
sleep and `DeleteRoom`/`DeleteFails` the rest.

### Records and the office: CallRecord, Campaign, RuntimeConfig, SemanticCache, KnowledgeBase, CallerProfiles, Watchdog

`CallRecord`: each turn is a task whose `pc` walks through the Redis pipeline
(with the trim to `KeptLines`), `_ensure_call` (at once when ready, else under
`_call_lock`) and the insert; `update_context` is gathered with it and may write
before, between or after these steps, and the task is over (`Persisted`) when both are; the shutdown callback walks through `flush`, the
replay and `end_call`.  `db` is up or down; a statement while it is down fails,
which `_exec` turns into a return value.

`Campaign`: a job is a background task of a POST (`PostRun`, `PostRerun`) that
passes `Guard`, loads, marks the campaign running, numbers a run in two
statements, launches a `dial` per contact under the semaphore and gathers them.
Each write of `_dial` is an action that may fail (`_safe`); `Crash` ends the
process and with it every job.  Contacts may share a phone, by which a run's
outcomes are keyed.  The dialler returns when the callee answers, so `room`
follows the call beyond its task: `HangUp` ends it, and a phone that rang when
the process died may still be answered (`AnsweredUnwatched`).  `took`, the
contacts a run took on, is a history variable.

`RuntimeConfig`: loaders go through Redis and the row and write the entry back,
operators write the row and then drop the entry.  `SemanticCache`: a mirror per
process is pulled, pruned and patched on a clock.  `KnowledgeBase`: an upload
and a deletion of a document, step by step, each call of either side failing.
`CallerProfiles`: calls that learn, tabs that approve or reject.  `Watchdog`: a
round is `Poll`, `Probe`, `Judge` and sometimes `Restart`, beside a worker that
registers, drops, comes back, answers 200, 503 or nothing, and dies; the log
files are numbered children.

### The compositions for TLC

`BookingCallMC`, `LiveCallMC`, `CallEdgesMC` and `BackOfficeMC` put several
components in one instance.  These components share no variable of the code -
what one needs of another (that a tool booked, that a turn came) is an input it
may get at any time - so an interleaving of two is no new behaviour of either,
and a product would only multiply their states.  The composite therefore
chooses the component that moves at the start (`part`) and keeps the others at
their beginning: the sum of the state spaces, one TLC run for several
questions.  Weak fairness of a component is `WF_componentVars(part = "..." /\ A)`,
so it is asked only of the component that moves.  The exception is where parts
do share state, and there they are one module: the book with its cache and the
dashboard; the FSM with the registry, the prefetch and the turn handler; the
campaign with the outbound call; the knowledge base with the prefetch's cache.

## 3. What the runs check

A property that joins several facts is given with its parts in parentheses;
every one has a mutant of its own in the module.

| Run | Instance | Shows |
|---|---|---|
| `table` | a call against the dashboard's bookings, two slots on two days, three keys, failing writes; 939 741 states | `TypeOK`, `NoDoubleBooking`, `HonestFailure`; `HonestSuccess`, `HonestNothing`: a success or an empty list is true when it is told; `BookingsKept` (`OnlyTheOwnerReleases`, `MoveKeepsABooking`): a booking ends only by its owner, a caller without a number or the operator, and a move never takes without giving |
| `desk` | a call against the dashboard's bookings and cancels, two keys, failing reads and writes, cached and fresh reads; 349 409 states | the book implements the ledger (`LedgerSpec`) although availability reads fail open and the dashboard checks before it creates; the slot just booked is not re-offered by the process's cache (`OwnBookingNotReoffered`) while no other reader shares it |
| `startup` | two callers of one process; the index is created by the process itself, after its pool is usable; 113 148 states | before and after the index is there a success is true when it is told (`HonestSuccess`); the duplicate guard keeps one booking per number and day (`OneBookingPerDay`) while a number has one request at a time |
| `answered` | one call, every service, every fault; two snapshot drafts; a chat of five items; seven grids; 111 417 states | with fairness, every request comes to a reply (`Answered`); `PromptSound`: a served block is current unless a read failed or a draft ran late (`SnapshotCurrent`), the trim keeps the rails and the end of the conversation (`ExchangeKept`, `BudgetHonoured`), spoken dates and times land on the grid (`GridInv`: `GridNeverEmpty`, `UnderstoodIsBookable`, `NearestIsTaken`, `DatesLand`, `PastNotOffered`) |
| `floor` | two turns, two prefetches, slow and failing lookups, drops; fifteen utterances; one line and the reply, two lines waiting to be heard; two tokens, two words; two sayings of a phrase in every language; three racers; 435 226 states | `BargeInSeen`, `InterruptDrains`, `FreshFromFinished`; `TurnsRouted` (`GoodbyeCloses`, `DraftsAgree`, `ContentDecides`), `LinesRotate`; `SoundInv` (`CallerHeardAgain`, `LinkProtects`, `EchoOfLineDropped`, `OneAckPerUtterance`, `StableHasLasted`, `SpeakerValid`, `KeepsLastUsed`); `ReplyInv` (`NothingLeftOpen`, `OneReply`, `SilentOnlyIfAllFail`); with fairness `TurnSettles` and `CancelledCloses` |
| `hangup` | three drops, any number of end requests, a room API that may fail; two calls that share their openers; a window of four frames; 106 796 states | `DeletedOnce`, `FirstDropHasFullGrace`; `EdgesInv` (`OpenersBounded`, `JoinedIsOpened`); with fairness `EndsAreRequested` (`GoneIsRequested`, `FiredIsRequested`), `CallOpens`, `VoiceFollowed` |
| `replay` | three turns, two outages, a list that keeps two lines; two contacts, two phones, two jobs, a failing call and a crash; the cache with two processes on a clock of six; a document and two failures; two calls and a tab; 1 232 672 states | `ReadyMeansRow`; `RecordInv` when flush waits for every task (`AllCounted`, `NoLineTwice`); `CampaignInv` (`DialsBounded`, `AttemptsAreDials`, `RunNumbersDistinct`, `ClosedRunAddsUp`, `NoOrphanRooms`), `ClosedRunStays`; `RecallInv` (`ExpiredNotServed`, `StoresPropagate`; `IndexedIsSearchable`, `VectorsKeepAHandle`; `CountNotInflated`, `LearnedIsReviewed`) |
| `returns` | two turns, an outage, failing pipelines, hanging tasks that flush gives up on; a campaign of two contacts with one phone; a watchdog with grace 2, strikes 2, soft grace 3, two kept logs; two loaders, two operators, three saves; 374 937 states | `OnlyStragglersRevive`: an ended call changes again only by an upsert flush gave up on; `WatchdogInv` (`LogsInOrder`), `KillsOnlyTheDown`, `ConfigInv` (`CachedIsSaved`); with fairness `EndReturns`, `JobsEnd`, `OutageEnds`, `ConfigSettles` |
| `staleid` | one call, three slots | **violated** `MoveConservesBookings`: a move by the id of a row that is no longer booked adds a booking |
| `stale` | two turns, two prefetches | **violated** `NoStaleAnswer`: the answer of an orphaned prefetch is served when the current one failed or was cancelled |
| `reconnect` | drops | **violated** `HeardAfterReconnect`: after a blip the FSM stays in CALL_END and its barge-in path is dead |
| `hole` | two turns, one outage | **violated** `NothingLost`: when an early insert failed, the replay doubles a later line and loses the early one |

Every property of a passing run has mutants in `PROJECT.json`, at least one for
each of its parts that is not a type: definitions that change the code's the
way a plausible bug would, under which the run finds the property violated.

### More counterexamples

These properties say what a comment or docstring promises, or what one would
expect, and TLC finds each violated; the comment over the property quotes the
sentence or names the gap.  The first group has configurations of its own.

| Configuration | Property | What happens |
|---|---|---|
| `AppointmentsMC_noindex` | `NoDoubleBooking` | without the unique index (`_ensure_appt_constraints` goes on when it cannot create it) the fresh read before the INSERT does not close the race it is said to close (`db.py` 788-789) |
| `AppointmentsMC_sameday` | `OneBookingPerDay` | two parallel tool calls of one caller both pass the duplicate guard (`db.py` 795-805) |
| `AppointmentsMC_reoffer` | `OwnBookingNotReoffered` | a snapshot's SELECT issued before the INSERT refills the cache after the booking popped it (`db.py` 691-717) |
| `AppointmentsMC_stalefree` | `TableFresh` | "TABLE-FRESH DATA" comes from a cache (`tools.py` 205, 248) |
| `AppointmentsMC_lostack` | `HonestFailure` | a committed INSERT whose acknowledgement is lost is reported as not booked (`db.py` 867-877) |
| `AppointmentsMC_readfails` | `HonestNothing` | a failed lookup is told as "NO upcoming bookings" (`db.py` 987, `tools.py` 521) |
| `AppointmentsMC_webcancel` | `HonestSuccess` | a caller without a number is told that an unknown booking was cancelled (`db.py` 939) |

The second group is shown by the configuration of the run, with the property in
place of its own and the constants named.

| Run | Property | What happens |
|---|---|---|
| `answered` | `BookingShown` | a snapshot that read before a booking stores its text after the invalidation |
| `answered` | `MoodFollows` | the caller's mood of one turn stays until another informative one |
| `answered` | `AlreadyMeansBooked` | words in the chat that only look like a confirmation switch the booking tools' rail (`agent.py` 1038-1060) |
| `answered`, `MaxRows = 2` | `NeverRebooks` | a booking is forced again in the turn that made it |
| `answered` | `ChosenTimeCanBook` | a turn that only names a time is offered no booking tool (`agent.py` 955-985) |
| `answered` | `NoOrphanOutput` | the trim may begin with an output whose call it dropped (`prompt_budget.py` 121-123) |
| `answered`, under `PromptSpec` | `EveryTurnIsAnswered` | a turn with "cancel" forces the same tool until the session gives up |
| `answered`, `Saved <- OddGrids` | `SlotsAreBookable`, `SomeDayIsOpen` | steps that do not divide the hour make slots that spoken times never reach; weekdays counted from 1 pass the clamp |
| `answered` | `PastNeverOffered`, `MidnightOpens`, `OneDateOneSpelling`, `BareHourUnderstood` | the cutoff wraps after 23:55; an opening at 0 reads as unset; one date has two spellings; "5" is never the evening's |
| `floor` | `AckKeepsTheFloor`, `InterruptDropsFiller`, `FillerCadence` | the FSM interrupts at short acknowledgements; the filler task is never registered; the gap test is true at every turn |
| `floor` | `ShortGoodbyesClose` | a goodbye the prefetch has an answer to ("see you, bye" after a warmed "see you") is answered and does not close the call (`agent.py` 1445-1454 come before 1456-1467) |
| `floor` | `RomanContentDecides`, `AcksKeepTheLanguage`, `LongTurnsAreAnswered`, `NeverTheSameLine` | an ack in Roman script or an unlisted one in script takes the turn's language; longer turns always go to the model; the noise filter repeats itself |
| `floor` | `EchoOfReplyDropped`, `SilentAgentHears`, `ShortAnswersHeard` | the text of a reply reaches the guard after its audio; a line dropped before its audio leaves the guard speaking; a short answer that matches a line is dropped |
| `floor` | `StableIsHeard`, `StableWasConsecutive`, `ConfidenceIsThisTurns` | dropped words stay in the prefix; a short transcript does not restart the count; null scores leave those of an earlier turn |
| `floor` | `VoiceMatches`, `AckKeepsVoice` | a phrase is stored under the memory's language with the audio of the last retune; a turn that leaves the language still retunes |
| `hangup` | `GraceIsFull`, `BlipSurvives`, `GoneIsEnded` | a second drop is judged at the end of the first one's countdown; a caller back during the goodbye loses the room; a failing `delete_room` is never retried |
| `hangup` | `NobodyMissesIt`, `GreetingIsSpoken`, `LanguageSeeded` | after thirty seconds the opener is spoken to an empty room; a tagged greeting is not used; a campaign's language is not seeded without a name |
| `hangup`, `MaxOpeners = 2` | `OpenersKept` | of two variants appended at once one is lost |
| `hangup` | `LockMeansAgreement` | a streak goes on when the decision changes from one gender to the other |
| `returns` | `EndedStays` | an upsert that outlives flush makes an ended call live again (`telemetry.py` 110, 161) |
| `replay` | `TailRestored` | a list cut at its limit makes the replay count from another line |
| `replay`, one contact, four jobs, `MaxTroubles = 0` | `AttemptsCapped` | a rerun re-arms contacts beyond the cap |
| `replay`, `Moving = {"campaign"}` | `LiveCallsBounded` | "max simultaneous live calls" (`server.py` 221-224) counts calls being placed: the permit is given back at the answer (`outbound.py` 135) |
| `replay`, `Moving = {"campaign"}` | `OnePhoneOneCall` | a rerun, or a second contact with the same phone, rings a phone whose call is up |
| `replay`, `Moving = {"campaign"}` | `ClosedRunMakesTotal` | contacts of one list may share a phone (`campaigns/route.ts` 34-45) and then share the outcome (`db.py` 480), so the counts fall short of the total |
| `replay` | `RearmedIsDialled`, `NoneStuckDialing` | a rerun refused by the guard has already re-armed its contacts; a crash leaves a contact dialling |
| `replay`, `MaxStores = 2` | `WriterHits`, `OnlyExpiredDropped` | a refresh under way overwrites the patch; the prune deletes a question that was stored anew |
| `replay` | `NoOrphanVectors`, `OwnFacts`, `DeletedNotTold` | a deletion during the upload leaves vectors without a row; the prefetch searches every business (`predictive.py` 51); a cached answer outlives its document |
| `replay`, two tabs | `NewestRemembered`, `EveryApprovedCounted` | approvals in the other order put an older call over a newer one; of two at once one count is lost |
| `returns`, `Moving = {"watchdog"}` | `AnyOutageEnds`, `NeverRegisteredEnds` | symptoms that alternate reset each other's counters; a worker that never wrote a marker is never judged |
| `returns` | `SavedIsNext` | a load that read before a save stores its copy after the invalidation |

### Bounds and why they are enough

* **Book**: two clients and two slots are the smallest book in which two requests
  want one slot and a move has somewhere to go.  Two keys let two bookings race;
  the third one in `table` lets a move meet a taken slot and a cancel-all half
  succeed; `staleid` needs three for its second move.  Keys are never reused, so
  `RowIds` bounds the bookings of a run; a request that would need another one
  is not started (`KeysLeft`).  `MaxAttempts` = 3 is the code's own number.
* **Snapshot and prompt**: two drafts give one that overtakes another;
  `Budget` = 11 items is crossed by five items of chat and the rails, so the trim
  happens with and without a tool's output at the cut.  `MaxRows` = 1.
* **Grid**: the minutes and hours asked for stand at half a step, at noon, at
  the first and last slot and at the wrap of the clock.
* **Floor**: two prefetch tasks give one orphan and one current task, two turns
  a turn after a reset.  `MaxInflight` = 1 is the code's semaphore.
  `MaxSaid` = 2 lines wait to be heard, so that one can be overtaken.
  `AckCooldown` = 1 and `HalfTtl` = 2 ticks keep the order of the code's windows
  (echo window, then half duplex).  Three racers give a winner, a loser that had
  ended and one still pulling.  One phrase has a key for
  every language it is said in, so that `MaxEntries` = 2 evicts.
* **Edges**: `Grace` = 5 and `Goodbye` = 4 seconds are the code's own numbers, so
  a countdown may end before, during and after a hangup.  Three drops give a
  drop inside another one's countdown and one after.  One opener kept makes
  every append an eviction.
* **Record**: three turns and two outages give a failed insert between two good
  ones and an outage in `end()`.  `KeptLines` = 2 of three turns reaches the
  list's cap.
* **Campaign**: two contacts under one permit make one wait, and with `Phones`
  of two numbers they share one or do not; two jobs are a run
  and a rerun; `MaxHangUps` = 4 is every call they can make; `MaxTroubles` = 1 failing statement or crash can fall at any step.
* **Office**: `MaxClock` = 6 lets an answer expire, be refreshed and pruned;
  `MaxStores` = 1, `MaxCacheFaults` = 1.  Three saves by two operators overlap
  two loads, with one failing call.  The watchdog's numbers keep the order of
  the code's (2 strikes, a longer soft grace) and are the least at which each
  counter counts.

`CHECK_DEADLOCK FALSE` stands where the system stops: a deleted room, an exited
job process, an office with nothing left to do.  In `answered` and `floor` the
explicit steps `ChatFull` and `Rests` name where it may.

### Fairness

* **Book**: every query has a `command_timeout` and every retry loop a bound, so
  a request in flight keeps taking steps.  Nobody has to start a request.
* **Conversation**: the event loop runs the turn handler when it can go on and
  the timer of `wait_for(..., 0.20)` fires (`WF` on `Waited`, `Routed`).
  Lookups owe nothing.
* **Reply**: the race goes on and a cancelled pull is collected by the loop; a
  stream owes no chunk.
* **Edges**: time passes and timers fire; the entrypoint and its opener task go
  on, every await of theirs having a timeout; callers owe nothing.  Gender is
  asked about audio that goes on.
* **Record**: the shutdown callback is awaited by the worker and its queries
  time out, as does the upsert of whoever holds `_call_lock`.
* **Campaign**: the steps of a job, each a bounded request; `place_call` has its
  own timeout.
* **Watchdog**: its loop runs.  The worker owes nothing.
* **Configuration**: a load that has begun, an invalidation after its save, and
  the expiry of an entry.  No save has to happen.

## 4. What is proved

Every invariant and every action property that a passing run checks is also
proved by TLAPS, for every value of the constants that the named assumptions
allow: any number of calls, slots, rows, tasks, contacts, racers, phrases, logs.
Each theorem module extends the modules it is about.

| Theorem | Says | Further assumption |
|---|---|---|
| `AppointmentsProofs!TypeCorrect` | `Spec => []TypeOK` | |
| `NoDoubleBookings` | `Spec => []NoDoubleBooking` | the index exists from the start |
| `FailuresAreHonest` | `Spec => []HonestFailure` | no lost acknowledgement |
| `SuccessesAreHonest` | `Spec => []HonestSuccess` | every call has a number |
| `NothingIsHonest` | `Spec => HonestNothing` | reads succeed |
| `OwnBookingsAreNotReoffered` | `Spec => []OwnBookingNotReoffered` | a process serves one call |
| `OneBookingADay` | `Spec => []OneBookingPerDay` | only guarded services, no failing read and no lost acknowledgement, a number on one call at a time |
| `ImplementsLedger` | `Spec => LedgerSpec` | the index exists from the start, no lost acknowledgement |
| `BookingsAreKept` | `Spec => BookingsKept` | |
| `BookingCallProofs!PromptsAreSound` | `BookingSpec => []PromptSound` | |
| `BookingCallImplementsParts` | a booking call is a behaviour of the book, the live block, the prompt and the grid | |
| `ConversationProofs!ConversationTypes` | `Spec => []TypeOK` | |
| `FloorIsKept` | `Spec => []FloorInv` | |
| `BargeInsAreSeen` | `Spec => BargeInSeen` | |
| `InterruptsDrain` | `Spec => InterruptDrains` | |
| `PrefetchIsOrderly` | `Spec => []PrefetchInv` | one permit |
| `WarmAnswersAreFresh` | `Spec => FreshFromFinished` | one permit |
| `LiveCallProofs!CallImplementsParts` | a live call is a behaviour of each of its six parts | |
| `CallsAreRouted` | `LiveSpec => []TurnsRouted` | |
| `LinesAlwaysRotate` | `LiveSpec => LinesRotate` | |
| `CallsSoundRight` | `LiveSpec => []SoundInv` | |
| `LlmTurnProofs!RepliesAreSound` | `TurnSpec => []ReplyInv` | |
| `CallEdgesProofs!RoomDeletedOnce` | `Spec => []DeletedOnce` | |
| `FirstDropsWait` | `Spec => FirstDropHasFullGrace` | |
| `EdgesAreSound` | `EdgeSpec => []EdgesInv` | |
| `CampaignProofs!CampaignSound` | `CampaignSpec => []CampaignInv` | |
| `ClosedRunsStay` | `CampaignSpec => ClosedRunStays` | |
| `BackOfficeProofs!ReadyCallsHaveARow` | `Spec => []ReadyMeansRow` | |
| `RecordAddsUp` | `Spec => []RecordInv` | flush waits for every task |
| `EndedCallsStay` | `Spec => OnlyStragglersRevive` | |
| `CacheFollowsSaves` | `ConfigSpec => []ConfigInv` | |
| `HealthyIsNotKilled` | `WatchdogSpec => KillsOnlyTheDown` | `SoftGrace + 1 >= HardStrikes` |
| `LogsAreKept` | `WatchdogSpec => []WatchdogInv` | |
| `RowsAndVectors` | `KbSpec => []KbInv` | |
| `RecallIsSound` | `OfficeSpec => []RecallInv` | `MemRefresh > 1` |

The assumptions are what the code gives or what the property needs.  That the
second kind is needed is shown by the further counterexamples of section 3:
`noindex`, `lostack`, `webcancel`, `readfails`, `reoffer`, `sameday` and
`Faults = {"slow"}` drop one each and violate the property.  One
permit is `Semaphore(1)` of `predictive.py`.  The soft grace is 36 rounds of the
watchdog's loop and the strikes are 2.  `MemRefresh > 1`: the mirror is pulled
once in 60 s (`cache.py` 47) and a tick is the time of a Redis call, which is cut
off after 2 s (`cache.py` 96-97).

### The arguments

*The book.*

* `NoDoubleBooking` holds because the index is there from the start and nothing
  drops it: an INSERT or a move is refused when the slot is taken, wherever the
  reads before it failed open.
* `HonestFailure` is not inductive: nothing in it says that a request still on
  its way has not written yet.  `CommitInv` ties the place a request stands at
  to whether it has committed.
* `HonestSuccess` needs `KindInv` (a request stands where its kind may stand) and
  `SuccessInv`: what was acknowledged has `Landed` in the table, and
  `LandedStays` whatever the other clients do to the row.
* `OwnBookingNotReoffered` needs `OwnInv`: while the row of the caller's last
  booking stands, the process's cache of its date is empty or has the slot as taken.
* `OneBookingPerDay` needs `DayInv`: past the duplicate guard the number has no
  row on the day, since a row becomes booked only by an INSERT (`NewRows`), the
  number has no other request, and a retry follows only an INSERT that did not
  commit.
* `ImplementsLedger` maps every step: starting a request is `Request`, an INSERT
  is `Grant`, a move `Exchange`, a cancel `Release`, the return is `Report`, and
  the rest stutters.  Slots being distinct makes `Holder` a function of the table.
* `BookingsKept` needs `AimsAtOwn`: between the SELECT that found a row and the
  UPDATE by its id alone the row stays the caller's, because a key in use never
  changes its number (`RowFate`), whatever the others do to it.

*Around the book.*

* `SnapshotIInv` says of the drafts what `SnapshotCurrent` says of the block:
  with no tool under way and nothing unreliable a draft holds the table or nothing.
* `PromptIInv` adds that the persona leads the chat.  Then nothing is healed
  (`NothingToHeal`), the count of dropped items exists and is the least one
  (`DropCountIs`), and the three pieces of the prompt are found again in their
  places (`Pieces`), which gives `ExchangeKept` and `BudgetHonoured`.
* `GridIInv` adds that the grid opens before it closes and that a slot fits into
  the day.  Slots that divide the hour are the multiples of the step from the
  opening to the close (`EvenSlots`), Python's rounding takes the nearest
  multiple (`RoundIsNearest`) and a multiple to itself (`RoundIsExact`); so what
  is snapped is a slot, and no slot is nearer (`SnapLands`).

*The conversation.*

* `BargeInSeen` needs `FloorInv`: while the agent is heard the FSM is in a state
  from which speech leads to INTERRUPTED, and INTERRUPTED lasts only while the
  caller talks.
* `InterruptDrains` needs `AllTracked`: every task that has not finished is in
  the registry, orphans included, so cancelling the registry reaches it.
* `FreshFromFinished` needs `PrefetchInv`: with one permit tasks run in spawn order,
  so an orphan has finished before the current task ran and the
  last writer of `_result` is the current one.  With two permits it is false, as the mutant shows.
* `TurnsRouted` needs `RoutingIInv`: what a draft was locked to is what its turn
  locks to, because the variety a turn settles on locks to the language it was
  settled from; and words that are acks, thanks, goodbyes or pleas to repeat hold
  no prefix that is looked up, so a goodbye made of them is never answered warm.
* `SoundInv` is three invariants.  `HearingIInv` ties the clocks of the echo
  window, of the trouble and of the bad link, so that a window never outlives
  its cause, and counts acknowledgements with their flag.  `StabIInv` adds
  `TrackHasLasted`: the word that is tracked has stood at its place as often and
  as long as the track says.  `VoiceIInv` adds that the phrases being rendered
  are phrases in voices the model has, and that the store's keys are the last
  ones used.
* `ReplyInv` needs `RaceShape` (which of the race's sets can be non-empty where),
  `OpenIsHeld` (a stream that is open is one the reply still holds: waiting, a
  loser to close, the winner, or the one that runs alone), `OneSpeaks` (what was
  spoken is the winner's or the lone stream's) and `AskedInTurn` (until it is
  cancelled a reply goes through race, primary, Gemini, Grok in this order, each
  failed before the next is asked).  It holds for any number of racers.
* A step of a composite is a step of one part and a stutter of the others, so
  each part's theorem carries over (`CallImplementsParts`,
  `BookingCallImplementsParts`).

*The edges.*

* `DeletedOnce` needs `HangupInv` (a sleeping hangup has made no request yet and `_end_fired` is set).
* `FirstDropHasFullGrace` needs `GraceIInv`: during the first countdown the
  seconds the caller has been away and the seconds left make the whole grace.
* `EdgesInv` needs `StartIInv` (every list of openers is orderly and every
  opener task carries one, `OrderlyLists`, `SoundTasks`) and `GenderIInv` (before
  the lock the streak is short of it; a median is one of the pitches,
  `MedianIsPitch`).

*Records and the office.*

* `ReadyMeansRow` needs the types of the row, the lock and the places
  (`RowTypes`): only an upsert that succeeded sets `_call_ready`, and no
  statement removes the row.
* `RecordInv` needs `TasksOver` (after flush no turn is on its way),
  `ReplayAddsUp` (rows and lines still to replay make up the list) and
  `RowsAreTurns` (where nothing fails the rows are the turns that are done, each
  once, so that nothing is replayed).
* `OnlyStragglersRevive` needs that the call is marked ended by the last step of
  `end()` alone (`EndedLast`): whatever moves after it is a task that flush
  did not wait for.
* `CampaignInv` needs `OneInside` (one job past the guard), `Permits` (no job holds
  more than the semaphore has), `RunsOwned` (runs are numbered in order and an
  open one has one job that writes it), `Watched` (while the process lives, a
  phone that rings has its task) and, as long as nothing has failed, `Accounts`
  (every phone of the contacts a run took on has its outcome, or a task that has
  still to tell it), which survives tasks that overwrite each other's outcome.
* `ConfigInv` needs that an entry a load is about to write is the row's unless a
  save has come in between, which `exposed` records.
* `RecallInv` is three invariants.  `CacheIInv`: a mirror, a lookup and a store
  under way lack nothing stored before they were pulled and hold nothing that
  had expired by then (`MirrorSound`, `LookupSound`, `StoreSound`).  `KbIInv`: an upload about to mark
  its document has written the vectors (`UploadIsSound`), and a deletion begun
  after the upload has no writer beside it (`LateIsAlone`).  `ProfileIInv`: a call
  and a tab hold a profile that counts no more calls than were approved
  (`CallKept`, `ReviewKept`).
* `KillsOnlyTheDown` needs the counters tied to the rounds in a row the worker
  was found unregistered: `hard_strikes` never exceeds them, and the soft grace
  has run only if they have.  The soft path compares a time, so it takes
  `SoftGrace + 1 >= HardStrikes`.
* `WatchdogInv` needs `LogsIInv`: there are as many logs as there have been
  children, until all the places are taken.

### What stays with TLC

Everything under fairness: `Answered`, `TurnSettles`, `CancelledCloses`,
`EndsAreRequested`, `CallOpens`, `VoiceFollowed`, `EndReturns`, `JobsEnd`,
`OutageEnds` and `ConfigSettles`.  A proof would need ENABLED of the fair
actions, which is out of the prover's reach.

Three definitions are written so that they can be reasoned about without
recursion: `Watchdog!Rotate` gives the files after the loop of renames in closed
form, `Voice!ToEnd` moves an entry by its place in the order of use, and `PromptAssembly!ExchangeKept` cuts the prompt at the lengths of its
pieces.  The assumptions on the constants of each module are named in it
(`HearingAssumption`, `PromptAssumption`, ...) and evaluated by every run.

## 5. Not modelled

* Sentence streaming (`pipeline/sentence_streaming.py`): nothing outside tests
  and scripts imports it.
* Provider factories, SIP setup, personas, texts of fillers, notifications, cost,
  logging, settings: they choose a client, hold text or send what nobody waits for.
* The control API's token and single-call routes: one SDK call each.
* Dashboard pages, benchmarks and probes: presentation and measurements.
* Of modelled parts: the latency aggregates of `telemetry.py`; the cosine
  similarity of the semantic cache (questions are equal or not) and the eviction
  of its oldest namespace; the order in which `entrypoint` builds SDK objects;
  the wording and per-provider format of the prompt; a log rotation that fails
  and wipes the file; the de-duplication of a line in `turn()` and an insert
  whose acknowledgement is lost.

Some observations made on the way that are no property: canned and warm answers
are logged twice; the filler's language is the turn's variety (`agent.py`
1389-1393); `content.refresh` is disabled; the adaptive buffer's delay is only
logged; the semantic cache's namespace includes the caller's name and hint
(`agent.py` 2178-2214), so callers with a hint share nothing.

## 6. Plan

Done: the book, the conversation, the ending, the record (first stage); the
campaign, the configuration, the snapshot, the semantic cache, the watchdog, the
race, call start, knowledge base, profiles, routing, hearing, stabiliser, voice,
gender, grid and prompt (second stage).

The proofs: every invariant and action property of the runs (third stage).

Left, in this order:

1. An abstract specification of the configuration (a register whose read is not
   older than the last save but one) and a proof that the loads implement it.
2. Composition of `CallEnding` and `CallRecord`: a call is marked ended after its
   room is gone, whichever way it went.
3. Weaker assumptions: `OneBookingADay` with moves among the services, and
   `OwnBookingsAreNotReoffered` for calls that share a process but never a date.

## 7. Running

    tlc -workers 2 -config AppointmentsMC_table.cfg AppointmentsMC
    tlapm AppointmentsProofs.tla
