--------------------------- MODULE ConversationFSM ---------------------------
(***************************************************************************)
(* The transition table of src/fsm.py and the hooks the AgentSession's     *)
(* events are bound to, as functions from the state before to the state    *)
(* after.                                                                  *)
(***************************************************************************)

State == {"GREETING", "LISTENING", "THINKING", "SPEAKING", "INTERRUPTED",
          "KB_FETCH", "ACTION_EXECUTION", "CALL_END"}

Allowed ==
  [s \in State |->
    CASE s = "GREETING"    -> {"LISTENING", "SPEAKING", "CALL_END"}
      [] s = "LISTENING"   -> {"THINKING", "SPEAKING", "INTERRUPTED", "CALL_END"}
      [] s = "THINKING"    -> {"KB_FETCH", "ACTION_EXECUTION", "SPEAKING",
                               "INTERRUPTED", "LISTENING", "CALL_END"}
      [] s \in {"KB_FETCH", "ACTION_EXECUTION"}
                           -> {"SPEAKING", "THINKING", "INTERRUPTED", "CALL_END"}
      [] s = "SPEAKING"    -> {"LISTENING", "INTERRUPTED", "CALL_END"}
      [] s = "INTERRUPTED" -> {"LISTENING", "THINKING", "CALL_END"}
      [] s = "CALL_END"    -> {}]

\* Mutant of To: an illegal transition leaves no state at all.
ToNowhere(s, target) == IF target \in Allowed[s] THEN target ELSE "NONE"

\* An illegal transition is logged and ignored.
To(s, target) == IF target \in Allowed[s] THEN target ELSE s

\* Mutant of OnUserStartedSpeaking: only speech counts as barge-in.
OnUserStartedOverSpeech(s) ==
  CASE s = "SPEAKING" -> To(s, "INTERRUPTED")
    [] s \in {"GREETING", "LISTENING"} -> To(s, "LISTENING")
    [] OTHER -> s

OnUserStartedSpeaking(s) ==
  CASE s \in {"SPEAKING", "THINKING", "KB_FETCH", "ACTION_EXECUTION"} ->
         To(s, "INTERRUPTED")
    [] s \in {"GREETING", "LISTENING"} -> To(s, "LISTENING")
    [] OTHER -> s

OnUserTurnCommitted(s) ==
  IF s \in {"LISTENING", "INTERRUPTED", "GREETING"} THEN To(s, "THINKING") ELSE s

OnAgentStartedSpeaking(s) == To(s, "SPEAKING")

OnAgentStoppedSpeaking(s) ==
  IF s = "SPEAKING" THEN To(s, "LISTENING") ELSE s

OnCallEnded(s) == To(s, "CALL_END")
=============================================================================
