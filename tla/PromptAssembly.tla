--------------------------- MODULE PromptAssembly ---------------------------
(***************************************************************************)
(* The prompt of one reply and the tool it forces: VoiceAgent.llm_node and *)
(* src/prompt_budget.py over the chat of an appointment call.  Each reply  *)
(* forks the chat, adds the language marker behind the persona and the     *)
(* reminders at the end, trims the oldest items to the budget, drops the   *)
(* booking tools when the turn names no booking, and otherwise picks the   *)
(* tool from the caller's words and from the tool results still in the     *)
(* prompt.  Every item counts one token.  LiveKit (external) calls         *)
(* llm_node again with the result after every tool call of the turn.       *)
(***************************************************************************)
EXTENDS Naturals, Sequences, FiniteSets

CONSTANTS
  Budget,       \* llm_prompt_max_tokens, in items
  KeepRecent,   \* keep_recent_msgs
  MaxToolSteps, \* LiveKit's bound on the tool calls of a turn
  MaxChat,      \* bound: items of the chat when the caller speaks
  MaxRows       \* bound: bookings of the caller

ASSUME PromptAssumption ==
  /\ {Budget, KeepRecent, MaxToolSteps, MaxChat} \subseteq Nat
  /\ MaxRows \in Nat \ {0}

VARIABLES
  chat,      \* the session's chat context
  said,      \* the booking words of the caller's turn
  replying,  \* the turn is being answered
  toolSteps, \* tool calls of this turn
  feels,     \* the memory's emotion is informative; a neutral turn keeps it
  chosen,    \* tool_choice of the last llm_node: a tool, "required" or "auto"
  rows,      \* bookings of the caller in the table
  landed     \* history variable: a booking of this call has landed

promptVars == <<chat, said, replying, toolSteps, feels, chosen, rows, landed>>

BookTools == {"check_appointment_slots", "book_appointment", "my_appointment",
              "reschedule_appointment", "cancel_appointment"}

(* Words by the lists they are in.  "3 pm" has a concrete time; "free" and *)
(* "fix" ask for availability and a booking but are no cue of the filter;  *)
(* "argh" has an emotion; of "cancel" the classifier makes an intent.      *)
Cues == {"cancel", "reschedule", "3 pm", "slot", "free", "book", "fix", "argh"}
BookCues == {"cancel", "reschedule", "slot", "book"}

(* What a tool answers: see src/tools.py. *)
Results == {"booked", "refused", "free slots", "day full", "your bookings",
            "nothing on file", "moved", "not moved", "cancelled", "not cancelled"}

(* The answers with "book" and one of "confirm", "booked" and "id=" in     *)
(* their text.  A successful booking's has no "book" in it.                *)
ReadsAsBooked == {"refused", "day full", "your bookings", "not moved"}

PromptInit ==
  /\ chat = <<"persona">> /\ said = {} /\ replying = FALSE /\ toolSteps = 0
  /\ feels = FALSE /\ chosen = "auto" /\ rows \in 0..1 /\ landed = FALSE

(* ---- the prompt ---- *)

(* All the chat holds behind the persona is conversation: never a system   *)
(* message, which would be kept.                                           *)
Talk == Tail(chat)

(* The language marker goes behind the persona. *)
Front == <<Head(chat), "marker">>

(* The address, the caller's mood and the memory when they say something,  *)
(* and the reminders of the language and of the length go to the end.      *)
Reminders ==
  <<"snapshot", "gender">>
  \o (IF feels THEN <<"emotion">> ELSE <<>>)
  \o (IF feels \/ "cancel" \in said THEN <<"memory">> ELSE <<>>)
  \o <<"reminder", "length">>

Excess == Len(Front \o Talk \o Reminders) - Budget

\* Mutant of DropCount: the recent items are not protected.
DropUnprotected ==
  IF Excess < 0 THEN 0 ELSE IF Excess > Len(Talk) THEN Len(Talk) ELSE Excess

\* Mutant of DropCount: one item more than the budget takes.
DropOneMore ==
  IF Excess < 0 \/ Len(Talk) <= KeepRecent THEN 0
  ELSE IF Excess + 1 > Len(Talk) - KeepRecent THEN Len(Talk) - KeepRecent ELSE Excess + 1

(* The oldest items of the conversation are dropped until the rest fits,   *)
(* the last KeepRecent never.                                              *)
DropCount ==
  CHOOSE n \in 0..Len(Talk) :
    /\ n <= Excess \/ n = 0
    /\ n <= Len(Talk) - KeepRecent \/ n = 0
    /\ n >= Excess \/ n >= Len(Talk) - KeepRecent

(* A leading call or output is dropped too: never met, since the persona   *)
(* leads.                                                                  *)
Healed(s) ==
  LET first == CHOOSE i \in DOMAIN s :
                 /\ s[i] \notin Results \cup {"call"}
                 /\ \A j \in 1..(i - 1) : s[j] \in Results \cup {"call"}
  IN SubSeq(s, first, Len(s))

Prompt == Healed(Front \o SubSeq(Talk, DropCount + 1, Len(Talk)) \o Reminders)

(* ---- the tools ---- *)

Offered == IF said \cap BookCues # {} THEN BookTools ELSE {}

AlreadyBooked == \E i \in DOMAIN Prompt : Prompt[i] \in ReadsAsBooked

Forced ==
  IF Offered = {} THEN "auto"
  ELSE IF "cancel" \in said THEN "cancel_appointment"
  ELSE IF "reschedule" \in said THEN "reschedule_appointment"
  ELSE IF AlreadyBooked THEN "auto"
  ELSE IF "3 pm" \in said THEN "book_appointment"
  ELSE "check_appointment_slots"

(* ---- the turn ---- *)

CallerSays(words) ==
  /\ ~replying /\ Len(chat) < MaxChat
  /\ chat' = Append(chat, "user") /\ said' = words
  /\ replying' = TRUE /\ toolSteps' = 0
  /\ feels' = (feels \/ "argh" \in words)
  /\ UNCHANGED <<chosen, rows, landed>>

\* Mutant of Outcome: a cancel takes a row there is not.
OutcomeAnyway(tool) ==
  IF tool = "cancel_appointment" THEN {<<"cancelled", rows - 1>>} ELSE {<<"refused", rows>>}

(* What a tool can answer and what it leaves in the table. *)
Outcome(tool) ==
  CASE tool = "book_appointment" -> {<<"refused", rows>>} \cup {<<"booked", r>> : r \in {rows + 1} \cap 1..MaxRows}
    [] tool = "check_appointment_slots" -> {<<"free slots", rows>>, <<"day full", rows>>}
    [] tool = "my_appointment" -> {<<IF rows = 0 THEN "nothing on file" ELSE "your bookings", rows>>}
    [] tool = "reschedule_appointment" -> {<<"not moved", rows>>} \cup {<<"moved", r>> : r \in {rows} \ {0}}
    [] tool = "cancel_appointment" -> {<<"not cancelled", rows>>} \cup {<<"cancelled", r - 1>> : r \in {rows} \ {0}}

(* llm_node, and the model calls a tool: the forced one if there is one. *)
CallTool(tool) ==
  /\ replying /\ toolSteps < MaxToolSteps
  /\ chosen' = Forced
  /\ tool \in (IF Forced = "auto" THEN Offered ELSE {Forced})
  /\ \E o \in Outcome(tool) :
       /\ chat' = chat \o <<"call", o[1]>> /\ rows' = o[2]
       /\ landed' = (landed \/ o[1] = "booked")
  /\ toolSteps' = toolSteps + 1
  /\ UNCHANGED <<said, replying, feels>>

(* llm_node, and the model answers in words. *)
AnswerInWords ==
  /\ replying /\ Forced = "auto"
  /\ chosen' = Forced
  /\ chat' = Append(chat, "assistant") /\ replying' = FALSE
  /\ UNCHANGED <<said, toolSteps, feels, rows, landed>>

(* LiveKit gives the turn up. *)
GiveUp ==
  /\ replying /\ toolSteps = MaxToolSteps
  /\ replying' = FALSE
  /\ UNCHANGED <<chat, said, toolSteps, feels, chosen, rows, landed>>

PromptNext ==
  \/ \E words \in SUBSET Cues : CallerSays(words)
  \/ \E tool \in BookTools : CallTool(tool)
  \/ AnswerInWords \/ GiveUp

PromptSpec ==
  /\ PromptInit /\ [][PromptNext]_promptVars
  /\ WF_promptVars(AnswerInWords \/ GiveUp \/ \E tool \in BookTools : CallTool(tool))

-----------------------------------------------------------------------------

(* The types of the variables. *)
PromptTypeOK ==
  /\ chat \in Seq({"persona", "user", "assistant", "call"} \cup Results)
  /\ said \subseteq Cues /\ replying \in BOOLEAN /\ toolSteps \in 0..MaxToolSteps
  /\ feels \in BOOLEAN
  /\ chosen \in BookTools \cup {"auto"} /\ rows \in 0..MaxRows /\ landed \in BOOLEAN

(* Whatever is trimmed, the persona leads, every other rail is kept in its *)
(* order, and between them the model sees the end of the conversation, its *)
(* last KeepRecent items at least (enforce_prompt_budget).                 *)
ExchangeKept ==
  LET kept == Len(Prompt) - Len(Front) - Len(Reminders)
      from == Len(Front) + 1
  IN /\ kept \in 0..Len(Talk)
     /\ SubSeq(Prompt, 1, Len(Front)) = Front
     /\ SubSeq(Prompt, from + kept, Len(Prompt)) = Reminders
     /\ SubSeq(Prompt, from, Len(Front) + kept) = SubSeq(Talk, Len(Talk) - kept + 1, Len(Talk))
     /\ kept < KeepRecent => kept = Len(Talk)

(* The prompt fits the budget unless nothing but the rails and the         *)
(* immediate exchange is left, and no more is dropped than that takes.     *)
BudgetHonoured ==
  /\ Len(Prompt) <= Budget \/ Len(Prompt) <= KeepRecent + Len(Front \o Reminders)
  /\ Len(Prompt) < Budget => Len(Prompt) = Len(chat) + 1 + Len(Reminders)

(* The trimmed prompt, for every chat and every turn of it. *)
PromptInv == PromptTypeOK /\ ExchangeKept /\ BudgetHonoured

(* Violated.  A caller who has calmed down is not treated as upset: the    *)
(* emotion of a turn stays until another one replaces it.                  *)
MoodFollows == replying /\ "argh" \notin said => ~feels

(* Violated.  A call taken for one that has booked already has booked. *)
AlreadyMeansBooked == AlreadyBooked => landed

(* Violated.  "never re-books": once a booking of this call has landed no  *)
(* further one is forced.                                                  *)
NeverRebooks ==
  [][landed /\ toolSteps' > toolSteps => chosen' # "book_appointment"]_promptVars

(* Violated.  "a real booking turn never loses" the booking tools: a       *)
(* caller who names a time can be booked.                                  *)
ChosenTimeCanBook == replying /\ "3 pm" \in said => Offered # {}

(* Violated.  "A kept suffix never starts with an orphaned tool output     *)
(* whose matching call was dropped."                                       *)
NoOrphanOutput ==
  \A i \in DOMAIN Prompt : Prompt[i] \in Results => Prompt[i - 1] = "call"

(* Violated.  "never loops": every turn of the caller gets an answer in    *)
(* words; a turn with "cancel" forces the same tool after its result.      *)
EveryTurnIsAnswered == replying ~> (chat[Len(chat)] = "assistant")
=============================================================================
