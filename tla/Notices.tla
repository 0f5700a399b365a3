------------------------------- MODULE Notices -------------------------------
(***************************************************************************)
(* What the administrators publish from the command line: the hash-linked  *)
(* announcement feed (registry/service/announcement.go, store/sqlite/      *)
(* announcements.go) and the registry cases (service/registry_case.go,     *)
(* store/sqlite/registry_case.go), how both are read page by page while    *)
(* they grow, and the parts of the complete audit that cover them          *)
(* (announcement_verify.go, registry_case_verify.go).                      *)
(*                                                                         *)
(* The public feed is read with a cursor that the registry signs: it holds *)
(* the snapshot and the last sequence delivered, and outlives the server   *)
(* process.  An operator may restore an earlier copy of the database       *)
(* between two pages; the two histories then number different              *)
(* announcements alike.  Cases are listed by CLI calls whose cursor is a   *)
(* plain event index.                                                      *)
(*                                                                         *)
(* Abstractions.  A chained hash is the chain it is taken of.  A case is   *)
(* named by the index of its flag event.  A draft keeps what the feed's    *)
(* filters look at: the kind stands for kind, severity and update channel. *)
(* A repeated publication or case mutation answers with the stored record  *)
(* and, like a refused one, changes nothing and is not a step; the         *)
(* idempotency keys of case events serve nothing else and are left out.    *)
(***************************************************************************)
EXTENDS Integers, Sequences, FiniteSets, SequencesExt

CONSTANTS
    Publications,      \* publication_id values
    Kinds,             \* announcement kinds
    Drafts,            \* announcement drafts
    AnyKind,           \* the empty kind filter
    Readers,           \* clients of the feed
    Limits,            \* page sizes
    Administrators,    \* callers of the clear command
    Listers,           \* callers of the list command
    Subjects,          \* deployments, claims, groups, batches, ledger entries
    MaxTime,           \* bound on the clock
    MaxLag,            \* how old the clock value of a transaction may be
    MaxAnnouncements,  \* bound on the feed
    MaxCaseEvents      \* bound on registry_case_events

ASSUME NoticesAssumption ==
    /\ MaxTime \in Nat \ {0} /\ MaxLag \in Nat
    /\ Limits \subseteq Nat \ {0}
    /\ AnyKind \notin Kinds

(* validateAndNormalizeAnnouncement: an expiry, where there is one (not 0),*)
(* lies after the publication time.                                        *)
ValidDraft(d) ==
    /\ d \in [kind : Kinds, published : Nat, expires : Nat]
    /\ d.expires # 0 => d.expires > d.published

ASSUME DraftsAssumption == \A d \in Drafts : ValidDraft(d)

VARIABLES
    clock,      \* the host's clock
    feed,       \* table announcements, by sequence
    readers,    \* what each client holds of the feed
    subjects,   \* the rows other components have written that a case may name
    caseEvents, \* table registry_case_events, by event_index
    cases,      \* table registry_cases
    clears,     \* per administrator, the clear whose case has been read
    listings,   \* what each listing of the cases holds
    backup      \* the copy of the tables a restore would install

feedVars == <<feed, readers>>
caseVars == <<subjects, caseEvents, cases, clears, listings>>
vars == <<clock, feed, readers, subjects, caseEvents, cases, clears, listings, backup>>

-----------------------------------------------------------------------------
(* Values.                                                                 *)

Times == 1..MaxTime

IdleReader ==
    [phase |-> "idle", kind |-> AnyKind, expired |-> FALSE, through |-> 0, chain |-> <<>>,
     asOf |-> 0, after |-> 0, items |-> <<>>]

NoClear == 0

IdleListing == [phase |-> "idle", status |-> "", before |-> 0, items |-> <<>>, start |-> {}]

(* The clock values a transaction that commits now may carry.              *)
ClockReads == {t \in Times : clock - MaxLag <= t /\ t <= clock}

HeadAt(chain) == IF chain = <<>> THEN 0 ELSE Last(chain).at

(* ORDER BY ... DESC: the i-th number of S has i - 1 larger ones.          *)
Descending(S) ==
    [i \in 1..Cardinality(S) |-> CHOOSE x \in S : Cardinality({y \in S : y > x}) = i - 1]

(* ... LIMIT n.                                                            *)
Largest(S, n) ==
    SubSeq(Descending(S), 1, IF Cardinality(S) < n THEN Cardinality(S) ELSE n)

-----------------------------------------------------------------------------
(* Publishing an announcement.                                             *)

Published == {feed[s].publication : s \in DOMAIN feed}

(* PublishAnnouncement, AppendAnnouncement.                                *)
Publish(p, draft, at) ==
    /\ Len(feed) < MaxAnnouncements
    /\ p \notin Published
    /\ HeadAt(feed) <= at
    /\ feed' = Append(feed, [publication |-> p, draft |-> draft, at |-> at])
    /\ UNCHANGED <<clock, readers, caseVars, backup>>

-----------------------------------------------------------------------------
(* Reading the feed.  The first request takes the head of the chain, then  *)
(* the clock, then its page; the requests that follow a cursor take the    *)
(* row the snapshot ends with, then their page.                            *)

(* announcementState without a cursor: AnnouncementHead.  A client may     *)
(* give a cursor up and start again.                                       *)
StartFeed(r, kind, expired) ==
    /\ readers[r].phase # "head"
    /\ readers' = [readers EXCEPT ![r] =
                    [IdleReader EXCEPT !.phase = "head", !.kind = kind, !.expired = expired,
                                       !.through = Len(feed), !.chain = feed]]
    /\ UNCHANGED <<clock, feed, caseVars, backup>>

(* Announcements: the WHERE clause.                                        *)
Matches(c) ==
    {s \in 1..c.through :
        LET d == feed[s].draft
        IN  /\ d.published <= c.asOf
            /\ c.expired \/ d.expires = 0 \/ d.expires > c.asOf
            /\ c.kind \in {AnyKind, d.kind}
            /\ c.after # 0 => s < c.after}

(* AnnouncementFeed: the page, and the cursor when there is more.          *)
WithPage(c, limit) ==
    LET found == Matches(c)
        page == Largest(found, limit)
        items == c.items \o [i \in DOMAIN page |-> [sequence |-> page[i], entry |-> feed[page[i]]]]
    IN  IF Cardinality(found) > limit
        THEN [c EXCEPT !.phase = "cursor", !.after = Last(page), !.items = items]
        ELSE [c EXCEPT !.phase = "done", !.after = 0, !.items = items]

(* The rest of the first request: as_of is read after the head.            *)
FirstPage(r, limit) ==
    /\ readers[r].phase = "head"
    /\ readers' = [readers EXCEPT ![r] = WithPage([@ EXCEPT !.asOf = clock], limit)]
    /\ UNCHANGED <<clock, feed, caseVars, backup>>

(* Mutant: only the presence of the boundary row is checked.               *)
CursorAvailableBySequence(c) == c.through \in DOMAIN feed

(* announcementState with a cursor: the row the snapshot ends with is      *)
(* still there, with the hash it had.                                      *)
CursorAvailable(c) ==
    /\ c.through \in DOMAIN feed
    /\ SubSeq(feed, 1, c.through) = c.chain

NextPage(r, limit) ==
    /\ readers[r].phase = "cursor"
    /\ CursorAvailable(readers[r])
    /\ readers' = [readers EXCEPT ![r] = WithPage(@, limit)]
    /\ UNCHANGED <<clock, feed, caseVars, backup>>

(* "cursor snapshot is not available in this registry": the client starts  *)
(* again.                                                                  *)
RefuseCursor(r) ==
    /\ readers[r].phase = "cursor"
    /\ ~CursorAvailable(readers[r])
    /\ readers' = [readers EXCEPT ![r] = IdleReader]
    /\ UNCHANGED <<clock, feed, caseVars, backup>>

-----------------------------------------------------------------------------
(* Registry cases.                                                         *)

(* Rows of deployments, claims, groups, batches or ledger entries, written *)
(* by the other components and never removed.                              *)
RecordSubject(s) ==
    /\ s \in Subjects \ subjects
    /\ subjects' = subjects \cup {s}
    /\ UNCHANGED <<clock, feedVars, caseEvents, cases, clears, listings, backup>>

(* FlagRegistryCase, AppendRegistryCaseEvent with action flag.             *)
FlagCase(s, at) ==
    LET i == Len(caseEvents) + 1
    IN  /\ i <= MaxCaseEvents
        /\ HeadAt(caseEvents) <= at
        /\ s \in subjects
        /\ caseEvents' = Append(caseEvents, [action |-> "flag", case |-> i, subject |-> s,
                                             at |-> at])
        /\ cases' = cases \cup {[case |-> i, status |-> "OPEN", subject |-> s,
                                 flaggedAt |-> at, clearedAt |-> 0, latest |-> i]}
        /\ UNCHANGED <<clock, feedVars, subjects, clears, listings, backup>>

(* ClearRegistryCase reads the case before its transaction opens, for the  *)
(* fields the clear event repeats.                                         *)
ReadCase(a, row) ==
    /\ clears[a] = NoClear
    /\ clears' = [clears EXCEPT ![a] = row.case]
    /\ UNCHANGED <<clock, feedVars, subjects, caseEvents, cases, listings, backup>>

(* Mutant: the status was looked at when the case was read.                *)
MayClearAny(row) == row.case \in DOMAIN caseEvents

(* The status check of the transaction.                                    *)
MayClear(row) == row.status = "OPEN"

(* The rest of ClearRegistryCase: AppendRegistryCaseEvent, action clear.   *)
ClearCase(a, at) ==
    LET i == Len(caseEvents) + 1
    IN  /\ i <= MaxCaseEvents
        /\ HeadAt(caseEvents) <= at
        /\ \E row \in cases :
            /\ row.case = clears[a]
            /\ MayClear(row)
            /\ caseEvents' = Append(caseEvents, [action |-> "clear", case |-> row.case,
                                                 subject |-> row.subject, at |-> at])
            /\ cases' = (cases \ {row}) \cup
                            {[row EXCEPT !.status = "CLEARED", !.clearedAt = at, !.latest = i]}
        /\ clears' = [clears EXCEPT ![a] = NoClear]
        /\ UNCHANGED <<clock, feedVars, subjects, listings, backup>>

(* The transaction refuses: the case is cleared, the key is used for       *)
(* something else, or the clock value is behind the head.                  *)
RefuseClear(a) ==
    /\ clears[a] # NoClear
    /\ clears' = [clears EXCEPT ![a] = NoClear]
    /\ UNCHANGED <<clock, feedVars, subjects, caseEvents, cases, listings, backup>>

-----------------------------------------------------------------------------
(* Listing the cases, newest flag first.                                   *)

CasesWith(status) == {row.case : row \in {w \in cases : status \in {"", w.status}}}

(* Mutant: the newest event orders the listing.                            *)
ListKeyLatest(row) == row.latest

(* The column a listing is ordered and continued by.                       *)
ListKey(row) == row.case

(* RegistryCases: one page.                                                *)
WithCases(l, limit) ==
    LET found == {row \in cases : /\ l.status \in {"", row.status}
                                  /\ l.before # 0 => ListKey(row) < l.before}
        keys == {ListKey(row) : row \in found}
        page == Largest(keys, limit)
        CaseBy(key) == (CHOOSE row \in found : ListKey(row) = key).case
        items == l.items \o [i \in DOMAIN page |-> CaseBy(page[i])]
    IN  IF Cardinality(keys) > limit
        THEN [l EXCEPT !.phase = "cursor", !.before = Last(page), !.items = items]
        ELSE [l EXCEPT !.phase = "done", !.before = 0, !.items = items]

(* A listing starts again once it has ended, or is given up.               *)
ListCases(a, status, limit) ==
    /\ listings' = [listings EXCEPT ![a] =
                     WithCases([IdleListing EXCEPT !.status = status,
                                                   !.start = CasesWith(status)], limit)]
    /\ UNCHANGED <<clock, feedVars, subjects, caseEvents, cases, clears, backup>>

MoreCases(a, limit) ==
    /\ listings[a].phase = "cursor"
    /\ listings' = [listings EXCEPT ![a] = WithCases(@, limit)]
    /\ UNCHANGED <<clock, feedVars, subjects, caseEvents, cases, clears, backup>>

-----------------------------------------------------------------------------
(* The environment.                                                        *)

Tick ==
    /\ clock < MaxTime
    /\ clock' = clock + 1
    /\ UNCHANGED <<feedVars, caseVars, backup>>

(* The tables are copied.                                                  *)
Backup ==
    /\ backup' = [feed |-> feed, subjects |-> subjects, caseEvents |-> caseEvents,
                  cases |-> cases]
    /\ UNCHANGED <<clock, feedVars, caseVars>>

(* The copy is installed.  The server stops for it, and with it the        *)
(* requests in progress; the administrators' commands start afresh.        *)
Restore ==
    /\ feed' = backup.feed
    /\ subjects' = backup.subjects
    /\ caseEvents' = backup.caseEvents
    /\ cases' = backup.cases
    /\ readers' = [r \in Readers |->
                    IF readers[r].phase = "head" THEN IdleReader ELSE readers[r]]
    /\ clears' = [a \in Administrators |-> NoClear]
    /\ listings' = [a \in Listers |-> IdleListing]
    /\ UNCHANGED <<clock, backup>>

Init ==
    /\ clock = 1
    /\ feed = <<>>
    /\ readers = [r \in Readers |-> IdleReader]
    /\ subjects = {}
    /\ caseEvents = <<>>
    /\ cases = {}
    /\ clears = [a \in Administrators |-> NoClear]
    /\ listings = [a \in Listers |-> IdleListing]
    /\ backup = [feed |-> <<>>, subjects |-> {}, caseEvents |-> <<>>, cases |-> {}]

FeedNext ==
    \/ \E p \in Publications, d \in Drafts, at \in ClockReads : Publish(p, d, at)
    \/ \E r \in Readers, kind \in Kinds \cup {AnyKind}, expired \in BOOLEAN :
            StartFeed(r, kind, expired)
    \/ \E r \in Readers, limit \in Limits : FirstPage(r, limit) \/ NextPage(r, limit)
    \/ \E r \in Readers : RefuseCursor(r)

CaseNext ==
    \/ \E s \in Subjects : RecordSubject(s)
    \/ \E s \in Subjects, at \in ClockReads : FlagCase(s, at)
    \/ \E a \in Administrators, row \in cases : ReadCase(a, row)
    \/ \E a \in Administrators, at \in ClockReads : ClearCase(a, at)
    \/ \E a \in Administrators : RefuseClear(a)
    \/ \E a \in Listers, status \in {"", "OPEN", "CLEARED"}, limit \in Limits :
            ListCases(a, status, limit)
    \/ \E a \in Listers, limit \in Limits : MoreCases(a, limit)

Next == FeedNext \/ CaseNext \/ Tick \/ Backup \/ Restore

Spec == Init /\ [][Next]_vars

-----------------------------------------------------------------------------
(* The complete audit, for announcements and cases.                        *)

(* The row VerifyRegistryCases expects for the case that event i flags.    *)
ExpectedCase(i) ==
    LET later == {j \in DOMAIN caseEvents : j > i /\ caseEvents[j].case = i}
        row == [case |-> i, status |-> "OPEN", subject |-> caseEvents[i].subject,
                flaggedAt |-> caseEvents[i].at, clearedAt |-> 0, latest |-> i]
    IN  IF later = {} THEN row
        ELSE LET j == CHOOSE j \in later : \A k \in later : j <= k
             IN  [row EXCEPT !.status = "CLEARED", !.clearedAt = caseEvents[j].at, !.latest = j]

Flags == {i \in DOMAIN caseEvents : caseEvents[i].action = "flag"}

(* VerifyRegistryCases: each event follows from the ones before it.        *)
CaseEventValid(i) ==
    LET e == caseEvents[i]
    IN  /\ i > 1 => caseEvents[i - 1].at <= e.at
        /\ e.action = "flag" => e.case = i
        /\ e.action = "clear" =>
            /\ e.case \in Flags /\ e.case < i
            /\ caseEvents[e.case].subject = e.subject
            /\ \A j \in 1..i - 1 : caseEvents[j].action = "clear" => caseEvents[j].case # e.case

(* The case events replay, the subjects of the cases exist, and the query  *)
(* rows are the replayed ones, no more and no less.                        *)
VerifyRegistryCases ==
    /\ \A i \in DOMAIN caseEvents : CaseEventValid(i)
    /\ \A i \in Flags : caseEvents[i].subject \in subjects
    /\ cases = {ExpectedCase(i) : i \in Flags}

(* The announcements are in the order of their times, each publication     *)
(* once (the table's UNIQUE constraint).                                   *)
VerifyAnnouncements ==
    /\ \A s \in DOMAIN feed : s > 1 => feed[s - 1].at <= feed[s].at
    /\ \A s, t \in DOMAIN feed : feed[s].publication = feed[t].publication => s = t

-----------------------------------------------------------------------------
(* Properties.                                                             *)

(* What a snapshot shows: the entries of its chain that its filters let    *)
(* through at its as_of, newest first.                                     *)
Snapshot(c) ==
    LET shown == {s \in DOMAIN c.chain :
                    LET d == c.chain[s].draft
                    IN  /\ d.published <= c.asOf
                        /\ c.expired \/ d.expires \notin 1..c.asOf
                        /\ c.kind = AnyKind \/ c.kind = d.kind}
        order == Descending(shown)
    IN  [i \in DOMAIN order |-> [sequence |-> order[i], entry |-> c.chain[order[i]]]]

(* A client that follows the cursors of AnnouncementFeed to the end has    *)
(* received every announcement of the signed snapshot that passes its      *)
(* filters exactly once, newest first, and nothing else, whatever was      *)
(* published, expired or restored between the pages; and what it holds at  *)
(* any time is a prefix of that.                                           *)
FeedExactlyOnce ==
    \A r \in Readers :
        /\ readers[r].phase = "done" => readers[r].items = Snapshot(readers[r])
        /\ readers[r].phase = "cursor" => IsPrefix(readers[r].items, Snapshot(readers[r]))

(* "Clearing a case while another caller is paging does not reorder or     *)
(* skip its remaining case rows": a listing names no case twice, newest    *)
(* flag first, and when it ends it has named every case that had the       *)
(* requested status when it began and has it still.                        *)
CaseListsComplete ==
    \A a \in Listers :
        LET l == listings[a]
        IN  /\ \A i, j \in DOMAIN l.items : i < j => l.items[i] > l.items[j]
            /\ l.phase = "done" =>
                    (l.start \cap CasesWith(l.status)) \subseteq Range(l.items)

(* The parts of the complete audit for announcements and cases accept      *)
(* every database the operations can produce, restored ones included.      *)
NoticesAuditPass == VerifyAnnouncements /\ VerifyRegistryCases
=============================================================================
