--------------------------- MODULE DeliveryPricing ---------------------------
(***************************************************************************)
(* The price list of one delivery vehicle: rules that give a price for a   *)
(* slab of distances, edited by administrators, and the price that a       *)
(* checkout finds in them (src/modules/delivery/delivery-pricing.service.ts*)
(* createRule, updateRule, deleteRule, resolveListPrice).                  *)
(*                                                                         *)
(* An edit is a sequence of statements without a transaction: read the     *)
(* rule, read the other rules, write, write the history. Each is a step;   *)
(* the process may be restarted between any two. Slabs may be nested, but  *)
(* not overlap otherwise.                                                  *)
(*                                                                         *)
(* Left out: other vehicles, whose rules are never looked at together,     *)
(* currency, reasons, the benefit of free deliveries (OrderPlacement).     *)
(***************************************************************************)
EXTENDS Integers, Sequences

CONSTANTS
    None,
    Requests,      \* administrators' requests that may run at the same time
    Rules,         \* ids of rules
    MaxKm,         \* bound on distances
    NewRules,      \* what createRule may be asked for: [from, to, price, active]
    Patches,       \* what updateRule may be asked for, None where it is silent
    MaxWrites      \* bound on the writes to rules

Slab == [from : 0..MaxKm, to : 0..MaxKm, price : Nat, active : BOOLEAN]
Row == [from : 0..MaxKm, to : 0..MaxKm, price : Nat, active : BOOLEAN, version : Nat]

(* What the theorems ask of the constants; an instance states it as ASSUME.  *)
ConstantsFit ==
    /\ MaxKm \in Nat
    /\ MaxWrites \in Nat
    /\ NewRules \subseteq Slab
    /\ Patches \subseteq [from : 0..MaxKm \cup {None}, to : 0..MaxKm \cup {None},
                         price : Nat \cup {None}, active : BOOLEAN \cup {None}]
    /\ None \notin Nat \cup BOOLEAN \cup Rules \cup Slab \cup Row

VARIABLES
    rule,          \* deliveryPricingRule by id, or None
    history,       \* deliveryPricingHistory, in the order it was written
    request,       \* the frame of each request
    writes,        \* history: how many writes of rules there have been
    wrote,         \* history: which of them wrote a rule last, and how many it had seen
    asked,         \* history: the price somebody last asked for
    raced          \* history: rules written over a version nobody had read

vars == <<rule, history, request, writes, wrote, asked, raced>>
ghosts == <<writes, wrote, asked, raced>>

-----------------------------------------------------------------------------
Idle == [pc |-> "idle", id |-> None, new |-> None, patch |-> None, old |-> None, seen |-> 0]
Listed == {i \in Rules : rule[i] # None}

TypeOK ==
    /\ \A i \in Listed : rule[i] \in Row /\ rule[i].from < rule[i].to
    /\ \A r \in Requests : request[r].pc \in {"idle", "check", "write", "history"}
    /\ writes \in 0..MaxWrites
    /\ raced \subseteq Rules

Init ==
    /\ rule = [i \in Rules |-> None]
    /\ history = <<>>
    /\ request = [r \in Requests |-> Idle]
    /\ writes = 0
    /\ wrote = [i \in Rules |-> [at |-> 0, seen |-> 0]]
    /\ asked = [i \in Rules |-> 0]
    /\ raced = {}

Goto(r, frame) == request' = [request EXCEPT ![r] = frame]
At(r, pc) == request[r].pc = pc

Or(value, default) == IF value = None THEN default ELSE value

-----------------------------------------------------------------------------
(* Editing. *)

\* validateSlabInput; prices below zero do not occur.
ValidSlab(new) == new.to > new.from

CreateRule(r, i, new) ==
    /\ At(r, "idle")
    /\ rule[i] = None
    /\ \A other \in Requests : request[other].id # i     \* ids are fresh
    /\ ValidSlab(new)
    /\ Goto(r, [Idle EXCEPT !.pc = "check", !.id = i, !.new = new])
    /\ UNCHANGED <<rule, history, ghosts>>

\* A deletion asks for active = FALSE and nothing else.
ReadRule(r, i, patch) ==
    /\ At(r, "idle")
    /\ rule[i] # None
    /\ LET old == rule[i]
           new == [from |-> Or(patch.from, old.from), to |-> Or(patch.to, old.to),
                   price |-> Or(patch.price, old.price), active |-> Or(patch.active, old.active)]
       IN /\ ValidSlab(new)
          /\ Goto(r, [Idle EXCEPT !.pc = "check", !.id = i, !.new = new, !.old = old,
                                  !.patch = patch])
    /\ UNCHANGED <<rule, history, ghosts>>

Same(a, b) == a.from = b.from /\ a.to = b.to
Within(a, b) == a.from >= b.from /\ a.to <= b.to
Nested(a, b) == Within(a, b) \/ Within(b, a)
Crosses(a, b) == a.from < b.to /\ a.to > b.from /\ ~Nested(a, b)

(* Mutant: only the slabs that begin before the new one are looked at. *)
MutantOverlaps(new, i) ==
    \E j \in Listed \ {i} :
        rule[j].from <= new.from /\ (Same(new, rule[j]) \/ Crosses(new, rule[j]))

Overlaps(new, i) == \E j \in Listed \ {i} : Same(new, rule[j]) \/ Crosses(new, rule[j])

AssertNoCrossingOverlap(r) ==
    /\ At(r, "check")
    /\ IF Overlaps(request[r].new, request[r].id)
       THEN Goto(r, Idle)
       ELSE Goto(r, [request[r] EXCEPT !.pc = "write", !.seen = writes])
    /\ UNCHANGED <<rule, history, ghosts>>

\* A second rule for exactly the same slab is refused by the unique index.
WriteRule(r) ==
    LET q == request[r]
        created == q.old = None
        row == [from |-> q.new.from, to |-> q.new.to, price |-> q.new.price,
                active |-> q.new.active,
                version |-> IF created THEN 1 ELSE rule[q.id].version + 1]
    IN
    /\ At(r, "write")
    /\ writes < MaxWrites
    /\ IF \E j \in Listed \ {q.id} : Same(q.new, rule[j])
       THEN Goto(r, Idle) /\ UNCHANGED <<rule, ghosts>>
       ELSE /\ rule' = [rule EXCEPT ![q.id] = row]
            /\ Goto(r, [q EXCEPT !.pc = "history", !.new = row])
            /\ writes' = writes + 1
            /\ wrote' = [wrote EXCEPT ![q.id] = [at |-> writes + 1, seen |-> q.seen]]
            /\ IF created
               THEN asked' = [asked EXCEPT ![q.id] = q.new.price] /\ UNCHANGED raced
               ELSE /\ asked' = [asked EXCEPT ![q.id] = Or(q.patch.price, @)]
                    /\ raced' = IF rule[q.id].version = q.old.version THEN raced
                                ELSE raced \cup {q.id}
    /\ UNCHANGED history

WriteHistory(r) ==
    LET q == request[r] IN
    /\ At(r, "history")
    /\ history' = Append(history, [rule |-> q.id, version |-> q.new.version, new |-> q.new.price,
                                   previous |-> IF q.old = None THEN 0 ELSE q.old.price])
    /\ Goto(r, Idle)
    /\ UNCHANGED <<rule, ghosts>>

\* A statement throws, or the process ends.
Restart(r) ==
    /\ ~At(r, "idle")
    /\ Goto(r, Idle)
    /\ UNCHANGED <<rule, history, ghosts>>

-----------------------------------------------------------------------------
(* Pricing. *)

Covering(km) ==
    {i \in Listed : rule[i].active /\ rule[i].from <= km /\ km <= rule[i].to}

(* The first rule in the order of distanceToKm; rules that end at the same   *)
(* distance come in the order the database likes.                            *)
ResolveListPrice(km) == {i \in Covering(km) : \A j \in Covering(km) : rule[i].to <= rule[j].to}

Next ==
    \E r \in Requests :
        \/ \E i \in Rules :
              \/ \E new \in NewRules : CreateRule(r, i, new)
              \/ \E patch \in Patches : ReadRule(r, i, patch)
        \/ AssertNoCrossingOverlap(r) \/ WriteRule(r) \/ WriteHistory(r) \/ Restart(r)

-----------------------------------------------------------------------------
(* Two slabs overlap without one containing the other only if the later of   *)
(* the two was checked before the earlier was written (assertNoCrossing-     *)
(* Overlap runs before, and outside, the write).                             *)
SlabsNest ==
    \A i, j \in Listed :
        Crosses(rule[i], rule[j]) /\ wrote[i].at < wrote[j].at => wrote[j].seen < wrote[i].at

(* A rule has the price somebody last asked for, unless an update that was   *)
(* silent about the price put back the one it had read, while another update *)
(* came in between (updateRule writes every column, and a deletion too).     *)
PriceIsAsAsked == \A i \in Listed \ raced : rule[i].price = asked[i]

(* Of nested slabs the one that covers a distance most tightly gives the     *)
(* price, and slabs that end at the same distance share it (resolveListPrice *)
(* sorts by the end alone).                                                  *)
TightestFit ==
    \A km \in 0..MaxKm : \A i \in ResolveListPrice(km), j \in Covering(km) :
        \/ Within(rule[i], rule[j]) \/ rule[i].to = rule[j].to
        \/ rule[i].to = km /\ rule[j].from = km
        \/ Crosses(rule[i], rule[j])

(* The history tells each change of a rule that nobody raced with from the   *)
(* price it had, in the order of its versions.                               *)
HistoryAgrees ==
    \A k, l \in 1..Len(history) :
        /\ history[k].rule = history[l].rule
        /\ history[k].version + 1 = history[l].version
        /\ history[k].rule \notin raced
        => history[l].previous = history[k].new

PriceListHolds ==
    /\ TypeOK
    /\ SlabsNest
    /\ PriceIsAsAsked
    /\ TightestFit
    /\ HistoryAgrees
=============================================================================
