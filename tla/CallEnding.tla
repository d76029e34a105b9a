----------------------------- MODULE CallEnding -----------------------------
(***************************************************************************)
(* How a call ends: the caller's leg drops and returns, the grace check of *)
(* src/telephony/resilience.py counts down, and everything that wants the  *)
(* call over (the end_call tool, the goodbye guard, the canned bye route,  *)
(* the grace check) calls the one _hangup of src/agent.py, which deletes   *)
(* the room after the goodbye line.  Time passes in seconds; a timer that  *)
(* has run out fires before time goes on.                                  *)
(***************************************************************************)
EXTENDS Naturals

CONSTANTS
  Grace,    \* _hangup_grace
  Goodbye,  \* the sleep of _hangup
  MaxDrops, \* times the leg may drop (bound)
  Faults    \* "api": delete_room may raise

ASSUME TimerAssumption ==
  /\ Grace \in Nat /\ Goodbye \in Nat /\ MaxDrops \in Nat
  /\ Faults \subseteq {"api"}

VARIABLES
  caller,   \* the remote participant
  away,     \* seconds since it left, up to Grace
  drops,    \* times it has left
  told,     \* the FSM has been told CALL_END
  check,    \* _hangup_task
  left,     \* seconds left of the grace sleep
  fired,    \* _end_fired
  why,      \* history: what fired the hangup
  hang,     \* where _hangup stands
  wait,     \* seconds left of the goodbye sleep
  attempts, \* history: delete_room requests
  room

vars == <<caller, away, drops, told, check, left, fired, why, hang, wait,
          attempts, room>>

\* Mutant of OnDisconnect: the countdown is one second too long.
OnDisconnectLate ==
  /\ told' = TRUE
  /\ IF check = "none" THEN check' = "counting" /\ left' = Grace + 1
                       ELSE UNCHANGED <<check, left>>

\* Mutant of OnDisconnect: a finished check still counts as one.
OnDisconnectEver ==
  /\ told' = TRUE
  /\ IF drops = 0 THEN check' = "counting" /\ left' = Grace
                  ELSE UNCHANGED <<check, left>>

\* TelephonyResilience._on_disconnect: one grace check at a time.
OnDisconnect ==
  /\ told' = TRUE
  /\ IF check = "none" THEN check' = "counting" /\ left' = Grace
                       ELSE UNCHANGED <<check, left>>

Leave ==
  /\ room = "open" /\ caller = "present" /\ drops < MaxDrops
  /\ caller' = "gone"
  /\ away' = 0
  /\ drops' = drops + 1
  /\ OnDisconnect
  /\ UNCHANGED <<fired, why, hang, wait, attempts, room>>

Return ==
  /\ room = "open" /\ caller = "gone"
  /\ caller' = "present"
  /\ UNCHANGED <<away, drops, told, check, left, fired, why, hang, wait,
                 attempts, room>>

\* Mutant of Hangup: the flag is only looked at, never set.
HangupAgain(reason) ==
  /\ fired' = fired
  /\ why' = reason
  /\ hang' = "sleeping"
  /\ wait' = Goodbye

\* Mutant of Hangup: a second request cancels the first one's sleep.
HangupCancels(reason) ==
  IF fired THEN hang' = "over" /\ UNCHANGED <<fired, why, wait>>
  ELSE /\ fired' = TRUE
       /\ why' = reason
       /\ hang' = "sleeping"
       /\ wait' = Goodbye

\* _hangup up to its sleep; nothing if it was called before.
Hangup(reason) ==
  IF fired THEN UNCHANGED <<fired, why, hang, wait>>
  ELSE /\ fired' = TRUE
       /\ why' = reason
       /\ hang' = "sleeping"
       /\ wait' = Goodbye

\* The tool, the goodbye guard or the bye route.
EndCall ==
  /\ room = "open"
  /\ Hangup("agent")
  /\ UNCHANGED <<caller, away, drops, told, check, left, attempts, room>>

\* Mutant of GraceExpires: nobody looks who is in the room.
GraceExpiresBlind ==
  /\ check = "counting" /\ left = 0
  /\ Hangup("grace")
  /\ check' = IF fired THEN "none" ELSE "hanging"
  /\ UNCHANGED <<caller, away, drops, told, left, attempts, room>>

GraceExpires ==
  /\ check = "counting" /\ left = 0
  /\ IF caller = "gone"
     THEN /\ Hangup("grace")
          /\ check' = IF fired THEN "none" ELSE "hanging"
     ELSE /\ check' = "none"
          /\ UNCHANGED <<fired, why, hang, wait>>
  /\ UNCHANGED <<caller, away, drops, told, left, attempts, room>>

\* The grace check that is inside _hangup returns with it.
CheckReturns == IF check = "hanging" THEN "none" ELSE check

\* delete_room kicks the caller's leg: one more disconnect event.
DeleteRoom ==
  /\ hang = "sleeping" /\ wait = 0
  /\ hang' = "over"
  /\ attempts' = attempts + 1
  /\ room' = "deleted"
  /\ caller' = "gone"
  /\ told' = TRUE
  /\ check' = CheckReturns
  /\ UNCHANGED <<away, drops, left, fired, why, wait>>

DeleteFails ==
  /\ "api" \in Faults
  /\ hang = "sleeping" /\ wait = 0
  /\ hang' = "over"
  /\ attempts' = attempts + 1
  /\ check' = CheckReturns
  /\ UNCHANGED <<caller, away, drops, told, left, fired, why, wait, room>>

Less(n) == IF n = 0 THEN 0 ELSE n - 1

Tick ==
  /\ room = "open"
  /\ ~(check = "counting" /\ left = 0)
  /\ ~(hang = "sleeping" /\ wait = 0)
  /\ left' = IF check = "counting" THEN Less(left) ELSE left
  /\ wait' = Less(wait)
  /\ away' = IF caller = "gone" /\ away < Grace THEN away + 1 ELSE away
  /\ UNCHANGED <<caller, drops, told, check, fired, why, hang, attempts, room>>

Init ==
  /\ caller = "present" /\ away = 0 /\ drops = 0 /\ told = FALSE
  /\ check = "none" /\ left = 0
  /\ fired = FALSE /\ why = "none" /\ hang = "idle" /\ wait = 0
  /\ attempts = 0 /\ room = "open"

Next ==
  \/ Leave \/ Return \/ EndCall \/ GraceExpires
  \/ DeleteRoom \/ DeleteFails \/ Tick

Spec == Init /\ [][Next]_vars

\* Time passes and timers fire; callers and the agent owe nothing.
FairSpec ==
  Spec /\ WF_vars(Tick) /\ WF_vars(GraceExpires) /\ WF_vars(DeleteRoom \/ DeleteFails)

-----------------------------------------------------------------------------
(* Properties. *)

\* Every variable has the type the code gives it.
TypeOK ==
  /\ caller \in {"present", "gone"} /\ away \in 0..Grace
  /\ drops \in 0..MaxDrops /\ told \in BOOLEAN
  /\ check \in {"none", "counting", "hanging"} /\ left \in 0..Grace
  /\ fired \in BOOLEAN /\ why \in {"none", "agent", "grace"}
  /\ hang \in {"idle", "sleeping", "over"} /\ wait \in 0..Goodbye
  /\ attempts \in Nat /\ room \in {"open", "deleted"}

\* However many of them want the call over, the room is deleted at most
\* once: "flag prevents double-fire".
DeletedOnce == attempts <= 1

\* The inductive strengthening of DeletedOnce.
HangupInv ==
  /\ attempts \in {0, 1}
  /\ hang = "sleeping" => attempts = 0 /\ fired
  /\ hang = "idle" => attempts = 0
  /\ ~fired => hang = "idle"

\* The grace check only hangs up on a caller gone for the whole window:
\* "a blip doesn't kill a live call".
GraceIsFull ==
  [][why = "none" /\ why' = "grace" => away = Grace]_vars

\* A caller that has dropped once gets the whole window, whatever the agent
\* asks for in the meantime.
FirstDropHasFullGrace ==
  [][why = "none" /\ why' = "grace" /\ drops = 1 => away = Grace]_vars

\* A caller that left for good has the room's deletion requested: the
\* countdown another disconnect started, or one that found the caller back,
\* loses nobody.
GoneIsRequested == <>[](caller = "gone") => <>(attempts > 0)

\* A hangup that was asked for reaches the room API.
FiredIsRequested == fired ~> attempts > 0

\* Whoever wants the call over is not forgotten.
EndsAreRequested == GoneIsRequested /\ FiredIsRequested

\* A caller that left for good has the call ended, so that billing stops.
GoneIsEnded == <>[](caller = "gone") => <>(room = "deleted")

\* The grace check never takes the room from a caller who is back: "a blip
\* doesn't kill a live call".
BlipSurvives ==
  [][room = "open" /\ room' = "deleted" /\ why = "grace" => caller = "gone"]_vars
=============================================================================
