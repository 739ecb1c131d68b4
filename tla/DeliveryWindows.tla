--------------------------- MODULE DeliveryWindows ---------------------------
(***************************************************************************)
(* The windows a customer may choose a delivery in, from the offer to the  *)
(* placing of the order (src/modules/delivery/delivery-slot.logic.ts,      *)
(* delivery-options.service.ts, delivery-operating-config.service.ts and   *)
(* placeOrder of src/modules/orders/orders.service.ts).                    *)
(*                                                                         *)
(* The operating hours are a row that administrators edit and that each    *)
(* server process keeps for a while. An offer cuts the hours into windows; *)
(* placing the order cuts them again, looks for the window, reads the hours*)
(* once more and validates the window against them.                        *)
(*                                                                         *)
(* Left out: the places in a slot (DeliverySlots), the rest of the         *)
(* checkout, orders without a window. A duration below five minutes and    *)
(* windows from the default list do not occur (the requests forbid them),  *)
(* and clipping a window to the hours it was cut from changes nothing.     *)
(***************************************************************************)
EXTENDS Integers, Sequences

CONSTANTS
    None,
    Processes,     \* server processes, each with a cache of its own
    Requests,      \* customers, each of whom chooses a window and orders
    Hours,         \* the hours a hub may have: [open, close], or None
    DefaultHours,
    Configs,       \* operating hours: [open, close, duration, closed]
    Leads,         \* minutes of lead a load may need
    DayMinutes,    \* minutes of a day
    Horizon,       \* days that are offered, today included
    CacheTtl,      \* how long a process keeps the hours
    MaxTime, MaxEdits   \* bounds on the clock and on the edits

ConstantsFit ==
    /\ None \notin Configs /\ None \notin {"accepted", "gone", "hours", "preference"}
    /\ DefaultHours # None
    /\ DayMinutes \in Nat \ {0} /\ Horizon \in Nat /\ CacheTtl \in Nat /\ MaxTime \in Nat
    /\ Leads \subseteq Nat
    /\ \A h \in Hours \cup {DefaultHours} : h # None => h.open \in Nat /\ h.close \in Nat
    /\ \A c \in Configs : c.open \in Nat /\ c.close \in Nat /\ c.duration \in Nat \ {0}
    /\ \A c \in Configs : c.close <= DayMinutes

VARIABLES
    row,           \* deliveryOperatingConfig
    cache,         \* of each process: the hours it keeps and when it asked for them
    hub, lead,     \* the hub and the lead of this load
    now,           \* minutes since midnight of the first day
    past,          \* history: the hours there were, and until when
    request        \* the frame of each request

vars == <<row, cache, hub, lead, now, past, request>>

-----------------------------------------------------------------------------
Today(t) == t \div DayMinutes
Minute(t) == t % DayMinutes
Better(a, b) == IF a >= b THEN a ELSE b
Worse(a, b) == IF a <= b THEN a ELSE b

Idle == [pc |-> "idle", process |-> None, config |-> None, fetched |-> FALSE, at |-> 0,
         window |-> None, preference |-> None, offered |-> None, rebuilt |-> None, result |-> None]

TypeOK ==
    /\ row \in Configs
    /\ \A p \in Processes : cache[p] # None => cache[p].value \in Configs /\ cache[p].at <= now
    /\ now \in 0..MaxTime
    /\ \A r \in Requests :
          /\ request[r].pc \in {"idle", "offer", "choose", "rebuild", "found", "validate", "done"}
          /\ request[r].result \in {None, "accepted", "gone", "hours", "preference"}

Init ==
    /\ row \in Configs
    /\ cache = [p \in Processes |-> None]
    /\ hub \in Hours
    /\ lead \in Leads
    /\ now = 0
    /\ past = <<>>
    /\ request = [r \in Requests |-> Idle]

-----------------------------------------------------------------------------
(* The windows. *)

ResolveHubHours(h) == IF h = None \/ h.open = h.close THEN DefaultHours ELSE h

\* Hours that do not meet, or that pass midnight, leave the operating hours.
ResolveEffectiveHours(h, c) ==
    LET open == Better(h.open, c.open)
        close == Worse(h.close, c.close)
    IN IF close <= open THEN [open |-> c.open, close |-> c.close]
       ELSE [open |-> open, close |-> close]

BuildDurationSlots(hours, duration) ==
    {[start |-> s, end |-> s + duration] :
        s \in {m \in hours.open..(hours.close - duration) : (m - hours.open) % duration = 0}}

\* A window of today may still be had.
Open(w, hours, minute) ==
    LET cutoff == Better(hours.open, w.start - lead)
        earliest == minute + lead
    IN /\ w.end > earliest
       /\ minute < cutoff \/ w.start >= earliest

GenerateSlotWindowsForDate(day, c, t) ==
    LET hours == ResolveEffectiveHours(ResolveHubHours(hub), c) IN
    IF day \in c.closed THEN {}
    ELSE {[day |-> day, start |-> w.start, end |-> w.end] :
            w \in {v \in BuildDurationSlots(hours, c.duration) :
                     day = Today(t) => Open(v, hours, Minute(t))}}

Windows(c, t) ==
    UNION {GenerateSlotWindowsForDate(d, c, t) : d \in Today(t)..(Today(t) + Horizon - 1)}

(* Mutant: the end of a window is not compared with the closing hour.        *)
MutantValidateSlotAgainstOperatingRules(w, c) ==
    /\ w.day \notin c.closed
    /\ w.start >= c.open /\ w.start <= c.close

ValidateSlotAgainstOperatingRules(w, c) ==
    /\ w.day \notin c.closed
    /\ w.start >= c.open /\ w.end <= c.close
    /\ w.end - w.start = c.duration
    /\ (w.start - c.open) % c.duration = 0

SlotMatchesPreference(preference, w, today) ==
    CASE preference = "TODAY" -> w.day = today
      [] preference = "TOMORROW" -> w.day = today + 1
      [] OTHER -> w.day >= today

-----------------------------------------------------------------------------
(* The operating hours. *)

Goto(r, frame) == request' = [request EXCEPT ![r] = frame]
At(r, pc) == request[r].pc = pc
Fresh(p) == cache[p] # None /\ cache[p].at + CacheTtl > now

\* getConfig: the kept hours, or the row.
GetConfig(r, p, pc) ==
    /\ Goto(r, [request[r] EXCEPT
                   !.pc = pc, !.process = p, !.at = now, !.fetched = ~Fresh(p),
                   !.config = IF Fresh(p) THEN cache[p].value ELSE row])
    /\ UNCHANGED <<row, cache, hub, lead, now, past>>

\* Hours read from the row are kept, though they may have changed since.
Keeps(r) ==
    LET q == request[r] IN
    IF q.fetched THEN cache' = [cache EXCEPT ![q.process] = [value |-> q.config, at |-> q.at]]
    ELSE UNCHANGED cache

\* A bound: nothing is followed beyond the last order.
Running == \E r \in Requests : request[r].pc # "done"

UpdateConfig(p) ==
    /\ Running
    /\ Len(past) < MaxEdits
    /\ \E c \in Configs \ {row} :
          /\ row' = c
          /\ past' = Append(past, [config |-> row, until |-> now])
    /\ cache' = [cache EXCEPT ![p] = None]
    /\ UNCHANGED <<hub, lead, now, request>>

Tick ==
    /\ Running
    /\ now < MaxTime
    /\ now' = now + 1
    /\ UNCHANGED <<row, cache, hub, lead, past, request>>

-----------------------------------------------------------------------------
(* The customer. *)

AskForOptions(r, p) ==
    /\ At(r, "idle")
    /\ GetConfig(r, p, "offer")

\* The options are cut for the moment they were asked for.
BuildOptions(r) ==
    LET q == request[r] IN
    /\ At(r, "offer")
    /\ Keeps(r)
    /\ \E w \in Windows(q.config, q.at), preference \in {"TODAY", "TOMORROW", "SCHEDULED"} :
          /\ SlotMatchesPreference(preference, w, Today(q.at))
          /\ Goto(r, [q EXCEPT !.pc = "choose", !.window = w, !.preference = preference,
                               !.offered = q.config, !.config = None])
    /\ UNCHANGED <<row, hub, lead, now, past>>

PlaceOrder(r, p) ==
    /\ At(r, "choose")
    /\ GetConfig(r, p, "rebuild")

FindSlot(r) ==
    LET q == request[r] IN
    /\ At(r, "rebuild")
    /\ Keeps(r)
    /\ Goto(r, IF q.window \in Windows(q.config, q.at)
               THEN [q EXCEPT !.pc = "found", !.rebuilt = q.config, !.config = None]
               ELSE [q EXCEPT !.pc = "done", !.rebuilt = q.config, !.result = "gone"])
    /\ UNCHANGED <<row, hub, lead, now, past>>

ReadHours(r) ==
    /\ At(r, "found")
    /\ GetConfig(r, request[r].process, "validate")

Validate(r) ==
    LET q == request[r]
        result == IF ~ValidateSlotAgainstOperatingRules(q.window, q.config) THEN "hours"
                  ELSE IF ~SlotMatchesPreference(q.preference, q.window, Today(now))
                  THEN "preference" ELSE "accepted"
    IN
    /\ At(r, "validate")
    /\ Keeps(r)
    /\ Goto(r, [q EXCEPT !.pc = "done", !.result = result])
    /\ UNCHANGED <<row, hub, lead, now, past>>

Next ==
    \/ \E r \in Requests :
          \/ \E p \in Processes : AskForOptions(r, p) \/ PlaceOrder(r, p)
          \/ BuildOptions(r) \/ FindSlot(r) \/ ReadHours(r) \/ Validate(r)
    \/ \E p \in Processes : UpdateConfig(p)
    \/ Tick

-----------------------------------------------------------------------------
InForce(c, since) ==
    row = c \/ \E k \in 1..Len(past) : past[k].config = c /\ past[k].until >= since

Meet(h, c) == h.open < c.close /\ c.open < h.close /\ h.open < h.close

\* The hub opens on a boundary of the operating windows, or before them all.
Aligned(c) ==
    LET h == ResolveHubHours(hub) IN
    ~Meet(h, c) \/ h.open <= c.open \/ (h.open - c.open) % c.duration = 0

(* What is offered does not overlap, is over neither before the load could   *)
(* be there nor outside the hours, and keeps to the hub's hours where they   *)
(* meet the operating hours (generateSlotWindowsForDate). On later days  *)
(* the code looks at no lead, so that a window of them must end after it is  *)
(* over only if it ends that long after midnight.                            *)
OffersFit ==
    LET h == ResolveHubHours(hub) IN
    \A w \in Windows(row, now) :
        /\ w.day \notin row.closed
        /\ row.open <= w.start /\ w.end <= row.close
        /\ Meet(h, row) => h.open <= w.start /\ w.end <= h.close
        /\ w.day = Today(now) \/ lead <= w.end => w.day * DayMinutes + w.end > now + lead
        /\ \A v \in Windows(row, now) \ {w} :
              v.day = w.day => v.end <= w.start \/ w.end <= v.start

(* A window that is found again is accepted under the same hours, unless the *)
(* hub opens in the middle of an operating window or midnight has turned the *)
(* preference; it is not found under the same hours only when its time has   *)
(* come; and no process accepts a window by hours that were given up longer  *)
(* ago than it may keep them (placeOrder, getConfig).                        *)
OfferedIsAccepted ==
    /\ TypeOK
    /\ OffersFit
    /\ \A r \in Requests :
          LET q == request[r]
              w == q.window
          IN /\ q.result = "hours" /\ q.rebuilt = q.config => ~Aligned(q.config)
             /\ q.result = "gone" /\ q.offered = q.config =>
                   w.day * DayMinutes + w.start < q.at + lead
             /\ q.result = "preference" =>
                   w.day < Today(now) + (IF q.preference = "TOMORROW" THEN 1 ELSE 0)
             /\ q.result = "accepted" =>
                   /\ InForce(q.config, q.at - CacheTtl)
                   /\ w.day \notin q.config.closed
                   /\ q.config.open <= w.start /\ w.end <= q.config.close
                   /\ q.rebuilt = q.config => Aligned(q.config)
=============================================================================
