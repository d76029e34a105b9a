------------------------------ MODULE SlotGrid -----------------------------
(***************************************************************************)
(* The appointment grid of src/db.py and the two parsers in front of every *)
(* booking: which slots a day has (_refresh_appt_grid, _all_slots), what a *)
(* spoken time is snapped to (norm_time), which day a spoken date means    *)
(* (resolve_date), and which of today's slots are already past             *)
(* (appt_available_slots).  Times are minutes after midnight.              *)
(***************************************************************************)
EXTENDS Integers, FiniteSets

CONSTANTS
  Environment,  \* the grid of the settings
  Saved,        \* the grids the dashboard can save, broken ones among them
  Minutes       \* the times the clock is looked at

Grids == [open : 0..23, close : 1..24, step : Nat \ {0}, days : SUBSET Nat]

ASSUME SlotGridAssumption ==
  /\ Environment \in Grids /\ Environment.open < Environment.close
  /\ Environment.step <= 60 * (Environment.close - Environment.open)
  /\ Saved \subseteq [open : Nat, close : Nat, step : Nat, days : SUBSET Nat]
  /\ Minutes \subseteq 0..1439

VARIABLES
  grid,    \* APPT_OPEN_HOUR, APPT_CLOSE_HOUR, APPT_SLOT_MIN, APPT_OPEN_WEEKDAYS
  saved,   \* what the dashboard last saved and a call applied
  weekday, \* today_tz().weekday()
  now      \* now_tz(), the minute of the day

gridVars == <<grid, saved, weekday, now>>

(* ---- the grid ---- *)

\* Mutant of OrEnvironment: nothing falls back to the settings.
TakenAsIs(cfg) == cfg

\* Zero and the empty string are "not set" for the code.
OrEnvironment(cfg) ==
  [open  |-> IF cfg.open = 0 THEN Environment.open ELSE cfg.open,
   close |-> IF cfg.close = 0 THEN Environment.close ELSE cfg.close,
   step  |-> IF cfg.step = 0 THEN Environment.step ELSE cfg.step,
   days  |-> IF cfg.days = {} THEN Environment.days ELSE cfg.days]

\* Mutant of Sane: closing before opening is let through.
SaneHours(g) == g.open \in 0..23 /\ g.close \in 1..24

Sane(g) ==
  /\ g.open \in 0..23 /\ g.close \in 1..24 /\ g.open < g.close
  /\ g.step * 60 <= (g.close - g.open) * 3600

RefreshApptGrid(cfg) ==
  /\ saved' = cfg
  /\ grid' = (IF Sane(OrEnvironment(cfg)) THEN OrEnvironment(cfg) ELSE grid)
  /\ UNCHANGED <<weekday, now>>

AllSlots ==
  {grid.open * 60 + k * grid.step : k \in 0..((grid.close - grid.open) * 60 - 1) \div grid.step}

(* ---- norm_time ---- *)

\* Mutant of Round: towards zero.
RoundDown(total, step) == total \div step

(* Python's round: to the nearer multiple, from the middle to the even one. *)
Round(total, step) ==
  LET q == total \div step
      twice == 2 * (total % step)
  IN IF twice < step \/ (twice = step /\ q % 2 = 0) THEN q ELSE q + 1

None == -1
\* Mutant of LastSlot: the closing hour is taken for a slot.
LastHour == grid.close * 60

LastSlot == grid.close * 60 - grid.step

Snap(total) ==
  LET t == Round(total, grid.step) * grid.step
  IN IF t < grid.open * 60 \/ t > LastSlot THEN None ELSE t

(* The words of a spoken time that the code looks for; "am" is also a part *)
(* of "sayantram", the evening.                                            *)
Hints == [plain |-> {}, morning |-> {"am"}, evening |-> {"pm"}, sayantram |-> {"pm", "am"}]

NormTime(hh, mm, hint) ==
  LET pm == IF "pm" \in Hints[hint] /\ hh < 12 THEN hh + 12 ELSE hh
      am == IF "am" \in Hints[hint] /\ pm = 12 THEN 0 ELSE pm
  IN Snap(am * 60 + mm)

(* ---- resolve_date: the days from today, None when unclear ---- *)

Weekdays == 0..6
\* Mutant of Ahead: "monday" said on a Monday.
AheadOrToday(wd) == (wd - weekday) % 7

Ahead(wd) == IF wd = weekday THEN 7 ELSE (wd - weekday) % 7

(* A text is the set of the words found in it: "day after tomorrow" has    *)
(* two.                                                                    *)
ResolveDate(words, names) ==
  IF "today" \in words THEN 0
  ELSE IF "day after" \in words THEN 2
  ELSE IF "tomorrow" \in words THEN 1
  ELSE IF names # {} THEN Ahead(CHOOSE wd \in names : \A other \in names : wd <= other)
  ELSE None

(* A date in digits, "2026-06-05" or "2026-6-5": strptime reads both, and  *)
(* what was written is handed on as the table's date.                      *)
DateText == [day : Nat, as : {"padded", "bare"}]
Parses(text) == text \in DateText
ResolveDigits(text) == IF Parses(text) THEN text ELSE None

(* ---- appt_available_slots and the guard of appt_book ---- *)

(* The cutoff is the clock's face five minutes on. *)
Cutoff == (now + 5) % 1440

\* Mutant of FreeOn: today is a day like any other.
FreeAnyTime(wd, isToday) == IF wd \notin grid.days THEN {} ELSE AllSlots

FreeOn(wd, isToday) ==
  IF wd \notin grid.days THEN {}
  ELSE {t \in AllSlots : isToday => t >= Cutoff}

(* ---- the day goes on ---- *)

GridInit ==
  /\ grid = Environment /\ saved = Environment
  /\ weekday = 0 /\ now \in Minutes

ClockMoves ==
  /\ \/ now' \in {m \in Minutes : m > now} /\ UNCHANGED weekday
     \/ now' \in Minutes /\ weekday' = (weekday + 1) % 7
  /\ UNCHANGED <<grid, saved>>

GridNext == ClockMoves \/ \E cfg \in Saved : RefreshApptGrid(cfg)

GridSpec == GridInit /\ [][GridNext]_gridVars

-----------------------------------------------------------------------------

Asked == [hh : {0, 5, 8, 9, 12, 17, 18, 23}, mm : {0, 14, 15, 16, 45}, hint : DOMAIN Hints]
Even == 60 % grid.step = 0   \* the slots of every hour are the same

(* The types of the variables. *)
GridTypeOK ==
  /\ grid.open \in 0..23 /\ grid.close \in 1..24 /\ grid.step \in 1..1440
  /\ saved \in Saved \cup {Environment}
  /\ weekday \in Weekdays /\ now \in Minutes

(* "nonsense values would produce an empty slot grid and break booking     *)
(* entirely": whatever was saved before, a call has slots.                 *)
GridNeverEmpty == AllSlots # {}

(* The time the tool understands is one appt_book accepts, and a slot read  *)
(* back to the caller is understood as itself (slots that divide the hour). *)
UnderstoodIsBookable ==
  Even =>
    LET slots == AllSlots
    IN /\ \A a \in Asked : NormTime(a.hh, a.mm, a.hint) \in slots \cup {None}
       /\ \A t \in slots : Snap(t) = t

(* "snapped to the nearest slot": no slot is nearer to what was asked. *)
NearestIsTaken ==
  Even => \A a \in {x \in Asked : x.hint = "plain"} :
    LET t == NormTime(a.hh, a.mm, "plain")
        away(s) == IF s >= a.hh * 60 + a.mm THEN s - a.hh * 60 - a.mm ELSE a.hh * 60 + a.mm - s
    IN t # None => \A s \in AllSlots : away(t) <= away(s)

(* A weekday's name is its next occurrence, one to seven days ahead, never *)
(* today; "day after tomorrow" is not tomorrow.                            *)
DatesLand ==
  /\ \A wd \in Weekdays : LET ahead == ResolveDate({}, {wd})
                          IN ahead \in 1..7 /\ (weekday + ahead) % 7 = wd
  /\ ResolveDate({"day after", "tomorrow"}, {}) = 2

(* Before 23:55 the agent never offers a slot of today that has begun. *)
PastNotOffered == now < 1435 => \A t \in FreeOn(weekday, TRUE) : t > now

(* What the caller says lands on the grid, whatever grid was saved last. *)
GridInv ==
  /\ GridTypeOK /\ GridNeverEmpty
  /\ UnderstoodIsBookable /\ NearestIsTaken /\ DatesLand /\ PastNotOffered

(* Violated.  The same without the bound: the cutoff's clock face wraps. *)
PastNeverOffered == \A t \in FreeOn(weekday, TRUE) : t > now

(* Violated.  A slot the tool offers can be asked for by name: with steps  *)
(* of 45 or 50 minutes norm_time snaps to multiples counted from midnight. *)
SlotsAreBookable == \A t \in AllSlots : Snap(t) = t

(* Violated.  A saved opening at midnight is applied: zero is "not set". *)
MidnightOpens == Sane(saved) => grid.open = saved.open

(* Violated.  "a valid grid" has an open day: a day counted from 1 to 7    *)
(* passes the clamp.                                                       *)
SomeDayIsOpen == \E wd \in Weekdays : wd \in grid.days

(* Violated.  "Natural date -> 'YYYY-MM-DD'": two spellings of one day are *)
(* two dates for the table and its unique index.                           *)
OneDateOneSpelling ==
  \A x, y \in {"padded", "bare"} :
    ResolveDigits([day |-> weekday, as |-> x]) = ResolveDigits([day |-> weekday, as |-> y])

(* Violated.  norm_time "Handles '5'": a bare hour is never the evening's. *)
BareHourUnderstood == 17 * 60 \in AllSlots => NormTime(5, 0, "plain") # None
=============================================================================
