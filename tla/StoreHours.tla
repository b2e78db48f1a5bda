----------------------------- MODULE StoreHours -----------------------------
(* When a store takes orders (domain/storestatus/status.go): its weekly      *)
(* hours with dated exceptions, the manager's pause, the order types that    *)
(* are on, and the times an order can be promised for.  Pure: every operator *)
(* reads a schedule sch, an ordering row st and an instant.                  *)
(*                                                                           *)
(* Time is a number of ticks in the store's zone; daylight saving is left    *)
(* out.  A date is a day number.  sch.weekly gives every weekday its ranges, *)
(* sch.exc some dates an exception.                                          *)
EXTENDS Integers, FiniteSetsExt

CONSTANTS
    DayLen,     \* ticks of a day
    WeekLen,    \* days of a week (7 in the code)
    SlotLen,    \* SlotMinutes
    LookAhead,  \* lookAhead, in days
    PresetLen,  \* the length of every pause preset that has one
    NONE        \* SQL NULL, Go's nil

ASSUME HoursAssumption ==
    /\ {DayLen, WeekLen, SlotLen, LookAhead} \subseteq Nat \ {0}
    /\ DayLen % SlotLen = 0

Kinds == {"pickup", "delivery"}

(* tenancy.OpeningHours and Exception: a range opens and closes at a time of *)
(* a day.                                                                    *)
HoursRange == [open : 0..DayLen - 1, close : 0..DayLen - 1]
OpeningHours == [0..WeekLen - 1 -> SUBSET HoursRange]
Exception == [closed : BOOLEAN, hours : SUBSET HoursRange]
Presets == DOMAIN PresetLen \cup {"today", "indefinite"}

Date(t) == t \div DayLen
Midnight(day) == day * DayLen

(* OpeningHours.Validate: no range opens and closes at the same time.        *)
ValidHours(ranges) == \A r \in ranges : r.open # r.close

ValidException(e) == e.closed \/ (e.hours # {} /\ ValidHours(e.hours))

(* No hours at all is not "always closed": the store is always open.         *)
HoursSet(sch) == \E d \in DOMAIN sch.weekly : sch.weekly[d] # {}

DayHours(sch, day) ==
    IF day \in DOMAIN sch.exc
    THEN IF sch.exc[day].closed THEN {} ELSE sch.exc[day].hours
    ELSE sch.weekly[day % WeekLen]

(* The open stretches that start on a date: a close at or before the open    *)
(* is past midnight.                                                         *)
Periods(sch, day) ==
    IF ~HoursSet(sch) /\ day \notin DOMAIN sch.exc
    THEN {[start |-> Midnight(day), end |-> Midnight(day + 1)]}
    ELSE {[start |-> Midnight(day) + r.open,
           end |-> Midnight(IF r.close <= r.open THEN day + 1 ELSE day) + r.close] : r \in DayHours(sch, day)}

PeriodsAround(sch, t, days) == UNION {Periods(sch, Date(t) + i) : i \in -1..days}

Holds(p, t) == p.start <= t /\ t < p.end

(* The open period holding t: the first that does.                           *)
Current(sch, t) ==
    CHOOSE p \in PeriodsAround(sch, t, 0) :
        Holds(p, t) /\ \A o \in PeriodsAround(sch, t, 0) : Holds(o, t) => p.start <= o.start

OpenAt(sch, t) == \E p \in PeriodsAround(sch, t, 0) : Holds(p, t)

NextOpen(sch, t) ==
    LET later == {p.start : p \in {o \in PeriodsAround(sch, t, LookAhead) : o.start > t}}
    IN  IF OpenAt(sch, t) THEN t ELSE IF later = {} THEN NONE ELSE Min(later)

(* Back-to-back periods count as one, two days on at most: taken in the      *)
(* order they start, a period that starts by the end so far moves the end,   *)
(* so the last end is the first that no period runs over.                    *)
LastEnd(end, periods) ==
    Min({e \in {end} \cup {p.end : p \in periods} :
            e >= end /\ \A p \in periods : p.start <= e => p.end <= e})

ClosesAt(sch, t) ==
    IF ~OpenAt(sch, t) \/ ~HoursSet(sch) THEN NONE
    ELSE LastEnd(Current(sch, t).end, PeriodsAround(sch, Current(sch, t).end, 1))

(* When a pause preset ends.  "today", after midnight inside last night's    *)
(* stretch, is that shift; otherwise it lasts to the end of the last stretch *)
(* that starts today, and to midnight at least.                              *)
PauseUntil(sch, now, preset) ==
    LET today == Date(now)
    IN  IF preset = "indefinite" THEN NONE
        ELSE IF preset # "today" THEN now + PresetLen[preset]
        ELSE IF OpenAt(sch, now) /\ Current(sch, now).start < Midnight(today) /\ HoursSet(sch) THEN ClosesAt(sch, now)
        ELSE Max({Midnight(today + 1)} \cup {p.end : p \in Periods(sch, today)})

Paused(st, now) == st.pausedAt # NONE /\ (st.pausedUntil = NONE \/ now < st.pausedUntil)

State(now, sch, st) ==
    IF Paused(st, now) THEN "paused" ELSE IF OpenAt(sch, now) THEN "open" ELSE "closed"

Accepting(now, sch, st) == State(now, sch, st) = "open" /\ (st.pickup \/ st.delivery)

(* When ASAP orders are next taken; NONE when they are now, or when nobody   *)
(* knows.                                                                    *)
NextOpenAt_FromNow(now, sch, st) ==
    IF Accepting(now, sch, st) \/ OpenAt(sch, now) THEN NONE ELSE NextOpen(sch, now)

NextOpenAt(now, sch, st) ==
    IF Accepting(now, sch, st) THEN NONE
    ELSE IF Paused(st, now) THEN IF st.pausedUntil = NONE THEN NONE ELSE NextOpen(sch, st.pausedUntil)
    ELSE IF OpenAt(sch, now) THEN NONE ELSE NextOpen(sch, now)

Compute(now, sch, st) ==
    [state |-> State(now, sch, st), accepting |-> Accepting(now, sch, st), openNow |-> OpenAt(sch, now),
     nextOpenAt |-> NextOpenAt(now, sch, st),
     closesAt |-> IF OpenAt(sch, now) THEN ClosesAt(sch, now) ELSE NONE]

(* The times an order of a kind can be promised for on a date.               *)
CeilSlot(t) == ((t + SlotLen - 1) \div SlotLen) * SlotLen

Slots_IgnorePause(now, st, kind, p) ==
    {t \in p.start..p.end : t % SlotLen = 0 /\ t >= Max({p.start, now}) + st.eta[kind]}

Slots(now, st, kind, p) ==
    LET from == Max({p.start, now} \cup IF Paused(st, now) THEN {st.pausedUntil} ELSE {})
    IN  {t \in CeilSlot(from + st.eta[kind])..p.end : t % SlotLen = 0}

TimesAllowed(now, st, kind, date) ==
    st[kind] /\ st.days # 0 /\ date \in Date(now)..Date(now) + st.days

Times(now, sch, st, kind, date) ==
    IF Paused(st, now) /\ st.pausedUntil = NONE THEN {}
    ELSE UNION {Slots(now, st, kind, p) : p \in Periods(sch, date)}

(* The latest daily reset at or before now.                                  *)
LastReset(now, hour) ==
    IF Midnight(Date(now)) + hour > now THEN Midnight(Date(now) - 1) + hour ELSE Midnight(Date(now)) + hour

=============================================================================
