--------------------------- MODULE SupportTickets ---------------------------
(***************************************************************************)
(* One support ticket, its messages, and the counters of unread messages   *)
(* (src/modules/support/support-message.service.ts, support.service.ts,    *)
(* src/admin/support/admin-support.service.ts).                            *)
(*                                                                         *)
(* A handler reads the ticket, decides by its status, and writes it by id  *)
(* in a transaction, which is one step. Marking messages as read is a      *)
(* transaction of two statements, the second of which also covers messages *)
(* the first has not seen.                                                 *)
(*                                                                         *)
(* Left out: the text, notifications, priorities, the history and who the  *)
(* ticket is assigned to, none of which anything depends on; the number of *)
(* a ticket, which is drawn as a quotation's is (BulkEnquiries).           *)
(***************************************************************************)
EXTENDS Integers, Sequences, FiniteSets

CONSTANTS
    Requests,      \* requests that may run at the same time
    StatusChoices, \* statuses that updateStatus is asked for
    MaxMessages    \* bound on the messages

SupportTicketStatus ==
    {"OPEN", "ASSIGNED", "IN_PROGRESS", "WAITING_FOR_CUSTOMER", "WAITING_FOR_ADMIN",
     "RESOLVED", "CLOSED", "REOPENED"}
Parties == {"customer", "admin"}

(* What the theorems ask of the constants; an instance states it as ASSUME.  *)
ConstantsFit ==
    /\ StatusChoices \subseteq SupportTicketStatus
    /\ MaxMessages \in Nat \ {0}

VARIABLES
    status,
    resolved, closed,   \* whether resolvedAt and closedAt are set
    unread,             \* unreadCustomerCount and unreadAdminCount
    message,            \* [from, read], in the order they were sent; internal
                        \* notes, which no counter and no marking includes, are
                        \* left out; and history: sent while its reader was marking
    request,            \* the frame of each request
    patched             \* history: the status alone was put back to an older one

vars == <<status, resolved, closed, unread, message, request, patched>>
ticket == <<status, resolved, closed, patched>>

-----------------------------------------------------------------------------
Idle == [pc |-> "idle", party |-> "admin", internal |-> FALSE, seen |-> "OPEN",
         next |-> "OPEN", upTo |-> 0, stale |-> FALSE]

TypeOK ==
    /\ status \in SupportTicketStatus
    /\ resolved \in BOOLEAN /\ closed \in BOOLEAN /\ patched \in BOOLEAN
    /\ unread \in [Parties -> 0..MaxMessages]
    /\ message \in Seq([from : Parties, read : BOOLEAN, during : BOOLEAN])
    /\ \A r \in Requests :
          request[r].pc \in {"idle", "send", "assign", "status", "reopen", "mark", "counter"}

\* create: the description is the first message.
Init ==
    /\ status = "OPEN"
    /\ resolved = FALSE /\ closed = FALSE /\ patched = FALSE
    /\ unread = [customer |-> 0, admin |-> 1]
    /\ message = <<[from |-> "customer", read |-> FALSE, during |-> FALSE]>>
    /\ request = [r \in Requests |-> Idle]

At(r, pc) == request[r].pc = pc
Writing == {"send", "assign", "status", "reopen"}

\* Reading the ticket, with the frame that it leaves.
Reads(r, frame) ==
    /\ At(r, "idle")
    /\ request' = [request EXCEPT ![r] = frame]
    /\ UNCHANGED <<ticket, unread, message>>

\* r goes on at pc; what the others have read of the ticket is now stale.
Leaves(r, pc) ==
    request' = [other \in Requests |->
                   IF other = r THEN [Idle EXCEPT !.pc = pc]
                   ELSE [request[other] EXCEPT !.stale = request[other].pc \in Writing]]

SetStatus(s, isResolved, isClosed) ==
    /\ status' = s
    /\ resolved' = isResolved
    /\ closed' = isClosed
    /\ patched' = FALSE

-----------------------------------------------------------------------------
(* Messages. *)

(* Mutant: replies to a closed ticket are not refused.                       *)
MutantMayReply(internal) == TRUE

MayReply(internal) == internal \/ status # "CLOSED"

SendMessageRead(r, from, internal) ==
    /\ internal => from = "admin"
    /\ MayReply(internal)
    /\ Reads(r, [Idle EXCEPT !.pc = "send", !.party = from, !.internal = internal,
                             !.seen = IF from = "customer" THEN status ELSE @])

ResolveStatusAfterMessage(current, from) ==
    IF from = "admin" THEN "WAITING_FOR_CUSTOMER"
    ELSE IF current = "RESOLVED" THEN "REOPENED" ELSE "WAITING_FOR_ADMIN"

Reader(from) == IF from = "admin" THEN "customer" ELSE "admin"

\* A reply goes on to findOne, a message of the conversation does not.
SendMessage(r) ==
    LET q == request[r]
        reader == Reader(q.party)
    IN
    /\ At(r, "send") /\ ~q.internal
    /\ Len(message) < MaxMessages
    /\ message' = Append(message,
           [from |-> q.party, read |-> FALSE,
            during |-> \E other \in Requests :
                           At(other, "counter") /\ request[other].party = reader])
    /\ \E pc \in {"idle"} \cup (IF q.party = "admin" THEN {"mark"} ELSE {}) : Leaves(r, pc)
    /\ SetStatus(ResolveStatusAfterMessage(q.seen, q.party), FALSE, FALSE)
    /\ unread' = [unread EXCEPT ![reader] = @ + 1]

\* A note touches neither status nor counters.
AddInternalNote(r) ==
    /\ At(r, "send") /\ request[r].internal
    /\ request' = [request EXCEPT ![r] = [Idle EXCEPT !.pc = "mark"]]
    /\ UNCHANGED <<ticket, unread, message>>

Unread(reader) ==
    {i \in 1..Len(message) :
        Reader(message[i].from) = reader /\ ~message[i].read}

\* The first statement of markMessagesRead; staff come here from findOne too.
MarkRead(r, reader) ==
    /\ At(r, "idle") \/ (At(r, "mark") /\ reader = "admin")
    /\ request' = [request EXCEPT ![r] =
                      [Idle EXCEPT !.pc = "counter", !.party = reader, !.upTo = Len(message)]]
    /\ UNCHANGED <<ticket, unread, message>>

\* The second, and the commit.
MarkMessagesRead(r) ==
    LET q == request[r] IN
    /\ At(r, "counter")
    /\ message' = [i \in 1..Len(message) |->
                      IF i \in Unread(q.party) /\ i <= q.upTo
                      THEN [message[i] EXCEPT !.read = TRUE] ELSE message[i]]
    /\ unread' = [unread EXCEPT ![q.party] = 0]
    /\ request' = [request EXCEPT ![r] = Idle]
    /\ UNCHANGED ticket

-----------------------------------------------------------------------------
(* The staff. *)

AssignExecutiveRead(r) == Reads(r, [Idle EXCEPT !.pc = "assign", !.seen = status])

\* Writes the status that was read, but not the times that belong to it.
AssignExecutive(r) ==
    LET q == request[r] IN
    /\ At(r, "assign")
    /\ status' = IF q.seen = "OPEN" THEN "ASSIGNED" ELSE q.seen
    /\ patched' = (patched \/ q.stale)
    /\ Leaves(r, "mark")
    /\ UNCHANGED <<resolved, closed, unread, message>>

ValidStatusTransition(current, next) ==
    current = "CLOSED" => next \in {"CLOSED", "OPEN", "REOPENED"}

UpdateStatusRead(r) ==
    \E s \in StatusChoices :
        /\ ValidStatusTransition(status, s)
        /\ Reads(r, [Idle EXCEPT !.pc = "status", !.next = s])

UpdateStatus(r) ==
    LET s == request[r].next IN
    /\ At(r, "status")
    /\ SetStatus(s, s \in {"RESOLVED", "CLOSED"}, s = "CLOSED")
    /\ Leaves(r, "mark")
    /\ UNCHANGED <<unread, message>>

ReopenRead(r) ==
    /\ status \in {"CLOSED", "RESOLVED"}
    /\ Reads(r, [Idle EXCEPT !.pc = "reopen"])

Reopen(r) ==
    /\ At(r, "reopen")
    /\ SetStatus("REOPENED", FALSE, FALSE)
    /\ Leaves(r, "mark")
    /\ UNCHANGED <<unread, message>>

\* A statement fails, or the process ends.
Fail(r) ==
    /\ ~At(r, "idle")
    /\ request' = [request EXCEPT ![r] = Idle]
    /\ UNCHANGED <<ticket, unread, message>>

Next ==
    \E r \in Requests :
        \/ \E from \in Parties, internal \in BOOLEAN : SendMessageRead(r, from, internal)
        \/ \E reader \in Parties : MarkRead(r, reader)
        \/ SendMessage(r) \/ AddInternalNote(r) \/ MarkMessagesRead(r)
        \/ AssignExecutiveRead(r) \/ AssignExecutive(r)
        \/ UpdateStatusRead(r) \/ UpdateStatus(r)
        \/ ReopenRead(r) \/ Reopen(r) \/ Fail(r)

-----------------------------------------------------------------------------
(* The counter of a reader counts the newest messages for him, all of them   *)
(* unread; an unread message it does not count was sent while he was marking *)
(* (markMessagesRead sets it to 0 in a statement of its own).                *)
UnreadIsCounted ==
    \A reader \in Parties :
        LET all == {i \in 1..Len(message) : Reader(message[i].from) = reader}
            newest == {i \in all :
                          Cardinality({j \in all : j >= i}) <= unread[reader]}
        IN /\ Cardinality(newest) = unread[reader]
           /\ newest \subseteq Unread(reader)
           /\ \A i \in Unread(reader) \ newest : message[i].during

(* The times of a ticket belong to its status, unless an assignment put back *)
(* a status that somebody had changed since it was read (assignExecutive).   *)
TimesFitStatus ==
    ~patched =>
        /\ closed <=> status = "CLOSED"
        /\ resolved <=> status \in {"RESOLVED", "CLOSED"}

(* No request that knows the ticket as it is can take it out of CLOSED, but  *)
(* to OPEN or REOPENED (sendMessage, assertValidStatusTransition, reopen).   *)
ClosedIsClosed ==
    \A r \in Requests :
        LET q == request[r] IN
        status = "CLOSED" /\ ~q.stale =>
            /\ q.pc = "send" => q.internal
            /\ q.pc = "assign" => q.seen = "CLOSED"
            /\ q.pc = "status" => q.next \in {"CLOSED", "OPEN", "REOPENED"}

TicketHolds ==
    /\ TypeOK
    /\ UnreadIsCounted
    /\ TimesFitStatus
    /\ ClosedIsClosed
=============================================================================
