--------------------------- MODULE Notices_proofs ---------------------------
(***************************************************************************)
(* Proofs about the announcements and the registry cases, for every set of *)
(* readers and administrators, every feed and every number of backups and  *)
(* restores.                                                               *)
(***************************************************************************)
EXTENDS Notices, TLAPS, FiniteSetTheorems, SequenceTheorems

(* The rows of each table.                                                 *)
FeedRows == [publication: Publications, draft: Drafts, at: Nat]

CaseEventRows == [action: {"flag", "clear"}, case: Nat, subject: Subjects, at: Nat]

-----------------------------------------------------------------------------
(* The audit as a predicate on tables, for the live ones and the copy.     *)

(* A feed the audit of the announcements accepts.                          *)
FeedAudited(f) ==
    /\ f \in Seq(FeedRows)
    /\ \A s \in DOMAIN f : s > 1 => f[s - 1].at <= f[s].at
    /\ \A s, t \in DOMAIN f : f[s].publication = f[t].publication => s = t

(* Case event i of chain ev: a flag opens the case it names; a clear ends  *)
(* a case that is open.                                                    *)
EventFollows(ev, i) ==
    /\ i > 1 => ev[i - 1].at <= ev[i].at
    /\ ev[i].action = "flag" => ev[i].case = i
    /\ ev[i].action = "clear" =>
        /\ ev[i].case \in 1..(i - 1)
        /\ ev[ev[i].case].action = "flag"
        /\ ev[ev[i].case].subject = ev[i].subject
        /\ \A j \in 1..(i - 1) : ev[j].action = "clear" => ev[j].case # ev[i].case

(* What the row of the case that event i of chain ev flags looks like:     *)
(* open while no event names the case again, else cleared by event j.      *)
OpenRow(ev, i) ==
    [case |-> i, status |-> "OPEN", subject |-> ev[i].subject,
     flaggedAt |-> ev[i].at, clearedAt |-> 0, latest |-> i]

ClearedRow(ev, i, j) ==
    [case |-> i, status |-> "CLEARED", subject |-> ev[i].subject,
     flaggedAt |-> ev[i].at, clearedAt |-> ev[j].at, latest |-> j]

ClearsOf(ev, i) == {j \in DOMAIN ev : j > i /\ ev[j].case = i}

(* The row cs has for case i is the one that the chain gives it.           *)
RowFollows(ev, i, row) ==
    \/ ClearsOf(ev, i) = {} /\ row = OpenRow(ev, i)
    \/ \E j \in ClearsOf(ev, i) : ClearsOf(ev, i) = {j} /\ row = ClearedRow(ev, i, j)

FlagsOf(ev) == {i \in DOMAIN ev : ev[i].action = "flag"}

(* Tables of cases that their audit accepts.                               *)
CasesAudited(ev, subj, cs) ==
    /\ ev \in Seq(CaseEventRows)
    /\ \A i \in DOMAIN ev : EventFollows(ev, i)
    /\ \A i \in FlagsOf(ev) : ev[i].subject \in subj
    /\ \A i \in FlagsOf(ev) : \E row \in cs : RowFollows(ev, i, row)
    /\ \A row \in cs : row.case \in FlagsOf(ev) /\ RowFollows(ev, row.case, row)

(* The inductive invariant: what is live and what a restore would install  *)
(* are both audited.                                                       *)
NoticesInv ==
    /\ clock \in Nat
    /\ FeedAudited(feed)
    /\ CasesAudited(caseEvents, subjects, cases)
    /\ FeedAudited(backup.feed)
    /\ CasesAudited(backup.caseEvents, backup.subjects, backup.cases)

(* The audited tables are what the model's audit asks for: an event that   *)
(* names a case again is the only one, so the oldest of them is the clear. *)
LEMMA InvAudits == NoticesInv => NoticesAuditPass
<1> SUFFICES ASSUME NoticesInv PROVE NoticesAuditPass
  OBVIOUS
<1>1. VerifyAnnouncements
  BY DEF NoticesInv, FeedAudited, VerifyAnnouncements
<1>2. /\ CasesAudited(caseEvents, subjects, cases)
      /\ caseEvents \in Seq(CaseEventRows)
      /\ Len(caseEvents) \in Nat
      /\ DOMAIN caseEvents = 1..Len(caseEvents)
  BY DEF NoticesInv, CasesAudited
<1>3. Flags = FlagsOf(caseEvents)
  BY DEF Flags, FlagsOf
<1>4. ASSUME NEW i \in DOMAIN caseEvents PROVE CaseEventValid(i)
  <2>1. EventFollows(caseEvents, i)
    BY <1>2 DEF CasesAudited
  <2>2. i \in Nat /\ i <= Len(caseEvents)
    BY <1>2
  <2>3. QED
    BY <2>1, <2>2, <1>2, <1>3 DEF EventFollows, CaseEventValid, FlagsOf
<1>5. ASSUME NEW i \in FlagsOf(caseEvents), NEW row, RowFollows(caseEvents, i, row)
      PROVE  row = ExpectedCase(i)
  <2> DEFINE later == {j \in DOMAIN caseEvents : j > i /\ caseEvents[j].case = i}
             open == [case |-> i, status |-> "OPEN", subject |-> caseEvents[i].subject,
                      flaggedAt |-> caseEvents[i].at, clearedAt |-> 0, latest |-> i]
             first == CHOOSE j \in later : \A k \in later : j <= k
  <2>1. later = ClearsOf(caseEvents, i)
    BY DEF ClearsOf
  <2>2. ExpectedCase(i) = IF later = {} THEN open
                          ELSE [open EXCEPT !.status = "CLEARED",
                                            !.clearedAt = caseEvents[first].at,
                                            !.latest = first]
    BY DEF ExpectedCase
  <2>3. CASE later = {}
    BY <2>1, <2>2, <2>3, <1>5 DEF RowFollows, OpenRow
  <2>4. CASE later # {}
    <3>1. PICK j \in later : later = {j} /\ row = ClearedRow(caseEvents, i, j)
      BY <2>1, <2>4, <1>5 DEF RowFollows
    <3>2. j \in Nat
      BY <1>2
    <3>3. \E x \in later : \A k \in later : x <= k
      <4> HIDE DEF later
      <4> QED
        BY <3>1, <3>2
    <3>4. first \in later
      <4> HIDE DEF later
      <4> QED
        BY <3>3
    <3>5. first = j
      BY <3>1, <3>4
    <3>6. ExpectedCase(i) = [open EXCEPT !.status = "CLEARED",
                                         !.clearedAt = caseEvents[j].at, !.latest = j]
      BY <2>2, <2>4, <3>5
    <3>7. QED
      BY <3>1, <3>6 DEF ClearedRow
  <2>5. QED
    BY <2>3, <2>4
<1>6. cases = {ExpectedCase(i) : i \in Flags}
  <2>1. ASSUME NEW row \in cases PROVE \E i \in Flags : row = ExpectedCase(i)
    <3>1. row.case \in FlagsOf(caseEvents) /\ RowFollows(caseEvents, row.case, row)
      BY <1>2 DEF CasesAudited
    <3>2. QED
      BY <3>1, <1>3, <1>5
  <2>2. ASSUME NEW i \in Flags PROVE ExpectedCase(i) \in cases
    <3>1. PICK row \in cases : RowFollows(caseEvents, i, row)
      BY <1>2, <1>3 DEF CasesAudited
    <3>2. QED
      BY <3>1, <1>3, <1>5
  <2>3. QED
    BY <2>1, <2>2, Zenon
<1>7. VerifyRegistryCases
  BY <1>2, <1>3, <1>4, <1>6 DEF VerifyRegistryCases, CasesAudited
<1>8. QED
  BY <1>1, <1>7 DEF NoticesAuditPass

-----------------------------------------------------------------------------
(* Preservation.                                                           *)

(* An empty database is audited.                                           *)
LEMMA NoticesStart == Init => NoticesInv
<1> SUFFICES ASSUME Init PROVE NoticesInv
  OBVIOUS
<1>1. FeedAudited(<<>>)
  BY DEF FeedAudited
<1>2. CasesAudited(<<>>, {}, {})
  <2>1. <<>> \in Seq(CaseEventRows) /\ DOMAIN <<>> = {}
    OBVIOUS
  <2>2. QED
    BY <2>1 DEF CasesAudited, FlagsOf
<1>3. QED
  BY <1>1, <1>2 DEF Init, NoticesInv

(* HeadAt is the time of the newest row.                                   *)
LEMMA HeadIsLast ==
    ASSUME NEW Rows, NEW chain \in Seq(Rows), chain # <<>>
    PROVE  HeadAt(chain) = chain[Len(chain)].at /\ Len(chain) \in Nat \ {0}
BY DEF HeadAt, Last

(* A publication keeps the feed in the order of its times, each            *)
(* publication once.                                                       *)
LEMMA PublishAudited ==
    ASSUME NEW p \in Publications, NEW d \in Drafts, NEW at \in Nat,
           FeedAudited(feed), Publish(p, d, at)
    PROVE  FeedAudited(feed')
<1> DEFINE row == [publication |-> p, draft |-> d, at |-> at]
           n == Len(feed)
<1>1. /\ feed \in Seq(FeedRows)
      /\ row \in FeedRows
      /\ feed' = Append(feed, row)
  BY DEF FeedAudited, Publish, FeedRows
<1> HIDE DEF row
<1>2. /\ n \in Nat
      /\ DOMAIN feed = 1..n
      /\ feed' \in Seq(FeedRows)
      /\ DOMAIN feed' = 1..(n + 1)
      /\ feed'[n + 1] = row
      /\ \A s \in 1..n : feed'[s] = feed[s]
  BY <1>1
<1>3. row.publication = p /\ row.at = at
  BY DEF row
<1>4. ASSUME NEW s \in DOMAIN feed', s > 1 PROVE feed'[s - 1].at <= feed'[s].at
  <2>1. CASE s \in 1..n
    BY <2>1, <1>2, <1>4 DEF FeedAudited
  <2>2. CASE s = n + 1
    <3>1. feed # <<>>
      BY <2>2, <1>2, <1>4
    <3>2. HeadAt(feed) = feed[n].at /\ n \in Nat \ {0}
      BY <3>1, <1>1, HeadIsLast
    <3>3. HeadAt(feed) <= at
      BY DEF Publish
    <3>4. QED
      BY <3>2, <3>3, <2>2, <1>2, <1>3
  <2>3. QED
    BY <2>1, <2>2, <1>2
<1>5. ASSUME NEW s \in DOMAIN feed', NEW t \in DOMAIN feed',
             feed'[s].publication = feed'[t].publication
      PROVE  s = t
  <2>1. \A u \in 1..n : feed[u].publication # p
    BY <1>2 DEF Publish, Published
  <2>2. QED
    BY <2>1, <1>2, <1>3, <1>5 DEF FeedAudited
<1>6. QED
  BY <1>2, <1>4, <1>5 DEF FeedAudited

(* Whether an event follows is decided by the events up to it.             *)
LEMMA FollowsKept ==
    ASSUME NEW n \in Nat, NEW ev, NEW nv, \A i \in 1..n : nv[i] = ev[i],
           NEW i \in 1..n, EventFollows(ev, i)
    PROVE  EventFollows(nv, i)
<1>1. nv[i] = ev[i]
  OBVIOUS
<1>2. i > 1 => nv[i - 1] = ev[i - 1]
  OBVIOUS
<1>3. \A j \in 1..(i - 1) : nv[j] = ev[j]
  OBVIOUS
<1>4. QED
  BY <1>1, <1>2, <1>3 DEF EventFollows

(* A flag opens a case of its own: no earlier event names it.              *)
LEMMA FlagAudited ==
    ASSUME NEW s \in Subjects, NEW at \in Nat,
           CasesAudited(caseEvents, subjects, cases), FlagCase(s, at)
    PROVE  CasesAudited(caseEvents', subjects', cases')
<1> DEFINE n == Len(caseEvents)
           e == [action |-> "flag", case |-> n + 1, subject |-> s, at |-> at]
           new == [case |-> n + 1, status |-> "OPEN", subject |-> s,
                   flaggedAt |-> at, clearedAt |-> 0, latest |-> n + 1]
<1>1. /\ caseEvents \in Seq(CaseEventRows)
      /\ n \in Nat
      /\ caseEvents' = Append(caseEvents, e)
      /\ cases' = cases \cup {new}
      /\ subjects' = subjects
      /\ s \in subjects
      /\ HeadAt(caseEvents) <= at
  BY DEF CasesAudited, FlagCase
<1>2. /\ e \in CaseEventRows
      /\ e.action = "flag" /\ e.case = n + 1 /\ e.subject = s /\ e.at = at
  BY <1>1 DEF CaseEventRows
<1>3. new.case = n + 1
  OBVIOUS
<1>4. PICK ev : ev = caseEvents
  OBVIOUS
<1>5. PICK nv : nv = caseEvents'
  OBVIOUS
<1> HIDE DEF e
<1>6. /\ ev \in Seq(CaseEventRows)
      /\ DOMAIN ev = 1..n
      /\ nv \in Seq(CaseEventRows)
      /\ DOMAIN nv = 1..(n + 1)
      /\ nv[n + 1] = e
      /\ \A i \in 1..n : nv[i] = ev[i]
  BY <1>1, <1>2, <1>4, <1>5
<1>7. \A i \in 1..n : EventFollows(ev, i)
  BY <1>4, <1>6 DEF CasesAudited
<1>8. \A i \in 1..n : ev[i].case \in 1..n
  <2> SUFFICES ASSUME NEW i \in 1..n PROVE ev[i].case \in 1..n
    OBVIOUS
  <2>1. ev[i].action \in {"flag", "clear"}
    <3>1. ev[i] \in CaseEventRows
      BY <1>6
    <3>2. QED
      BY <3>1 DEF CaseEventRows
  <2>2. QED
    BY <2>1, <1>1, <1>7 DEF EventFollows
<1>9. \A i \in 1..(n + 1) : EventFollows(nv, i)
  <2>1. ASSUME NEW i \in 1..n PROVE EventFollows(nv, i)
    BY <1>1, <1>6, <1>7, FollowsKept
  <2>2. EventFollows(nv, n + 1)
    <3>1. n + 1 > 1 => nv[n].at <= nv[n + 1].at
      <4> SUFFICES ASSUME n + 1 > 1 PROVE nv[n].at <= nv[n + 1].at
        OBVIOUS
      <4>1. ev # <<>>
        BY <1>1, <1>6
      <4>2. HeadAt(ev) = ev[n].at
        BY <4>1, <1>6, <1>4, HeadIsLast
      <4>3. QED
        BY <4>2, <1>1, <1>2, <1>4, <1>6
    <3>2. QED
      BY <3>1, <1>1, <1>2, <1>6 DEF EventFollows
  <2>3. QED
    BY <2>1, <2>2, <1>1
<1>10. FlagsOf(nv) = FlagsOf(ev) \cup {n + 1}
  BY <1>1, <1>2, <1>6 DEF FlagsOf
<1>11. \A i \in 1..n : ClearsOf(nv, i) = ClearsOf(ev, i)
  BY <1>1, <1>2, <1>6, SMTT(30) DEF ClearsOf
<1>12. ClearsOf(nv, n + 1) = {}
  BY <1>1, <1>6 DEF ClearsOf
<1>13. ASSUME NEW i \in 1..n, NEW row, RowFollows(ev, i, row) PROVE RowFollows(nv, i, row)
  <2>1. OpenRow(nv, i) = OpenRow(ev, i)
    BY <1>6 DEF OpenRow
  <2>2. \A j \in ClearsOf(ev, i) : ClearedRow(nv, i, j) = ClearedRow(ev, i, j)
    BY <1>6 DEF ClearedRow, ClearsOf
  <2>3. QED
    BY <2>1, <2>2, <1>11, <1>13 DEF RowFollows
<1>14. RowFollows(nv, n + 1, new)
  BY <1>2, <1>6, <1>12 DEF RowFollows, OpenRow
<1>15. FlagsOf(ev) \subseteq 1..n
  BY <1>6 DEF FlagsOf
<1>16. \A i \in FlagsOf(nv) : nv[i].subject \in subjects
  <2>1. \A i \in FlagsOf(ev) : ev[i].subject \in subjects
    BY <1>4 DEF CasesAudited
  <2>2. QED
    BY <2>1, <1>1, <1>2, <1>6, <1>10, <1>15
<1>17. \A i \in FlagsOf(nv) : \E row \in cases' : RowFollows(nv, i, row)
  <2>1. \A i \in FlagsOf(ev) : \E row \in cases : RowFollows(ev, i, row)
    BY <1>4 DEF CasesAudited
  <2> HIDE DEF new
  <2>2. QED
    BY <2>1, <1>1, <1>10, <1>13, <1>14, <1>15
<1>18. \A row \in cases' : row.case \in FlagsOf(nv) /\ RowFollows(nv, row.case, row)
  <2>1. \A row \in cases : row.case \in FlagsOf(ev) /\ RowFollows(ev, row.case, row)
    BY <1>4 DEF CasesAudited
  <2> HIDE DEF new
  <2>2. QED
    BY <2>1, <1>1, <1>3, <1>10, <1>13, <1>14, <1>15
<1>19. QED
  BY <1>1, <1>5, <1>6, <1>9, <1>16, <1>17, <1>18 DEF CasesAudited

(* A clear ends the one open case it names: the transaction looks at the   *)
(* status again, so no earlier event has cleared it.                       *)
LEMMA ClearAudited ==
    ASSUME NEW a \in Administrators, NEW at \in Nat,
           CasesAudited(caseEvents, subjects, cases), ClearCase(a, at)
    PROVE  CasesAudited(caseEvents', subjects', cases')
<1> DEFINE n == Len(caseEvents)
<1>1. PICK old \in cases :
        /\ old.status = "OPEN"
        /\ caseEvents' = Append(caseEvents, [action |-> "clear", case |-> old.case,
                                             subject |-> old.subject, at |-> at])
        /\ cases' = (cases \ {old}) \cup
                        {[old EXCEPT !.status = "CLEARED", !.clearedAt = at, !.latest = n + 1]}
  BY DEF ClearCase, MayClear
<1> DEFINE e == [action |-> "clear", case |-> old.case, subject |-> old.subject, at |-> at]
           new == [old EXCEPT !.status = "CLEARED", !.clearedAt = at, !.latest = n + 1]
<1>2. /\ caseEvents \in Seq(CaseEventRows)
      /\ n \in Nat
      /\ subjects' = subjects
      /\ HeadAt(caseEvents) <= at
  BY DEF CasesAudited, ClearCase
<1>3. PICK c : c = old.case
  OBVIOUS
<1>4. PICK ev : ev = caseEvents
  OBVIOUS
<1>5. PICK nv : nv = caseEvents'
  OBVIOUS
<1>6. ev \in Seq(CaseEventRows) /\ DOMAIN ev = 1..n
  BY <1>2, <1>4
<1>7. c \in FlagsOf(ev) /\ RowFollows(ev, c, old)
  BY <1>3, <1>4 DEF CasesAudited
<1>8. ClearsOf(ev, c) = {} /\ old = OpenRow(ev, c)
  BY <1>1, <1>7 DEF RowFollows, OpenRow, ClearedRow
<1>9. c \in 1..n /\ ev[c].action = "flag"
  BY <1>6, <1>7 DEF FlagsOf
<1>10. ev[c].subject \in Subjects /\ old.subject = ev[c].subject
  <2>1. ev[c] \in CaseEventRows
    BY <1>6, <1>9
  <2>2. QED
    BY <2>1, <1>8 DEF CaseEventRows, OpenRow
<1>11. /\ e \in CaseEventRows
       /\ e.action = "clear" /\ e.case = c /\ e.subject = ev[c].subject /\ e.at = at
  BY <1>2, <1>3, <1>9, <1>10 DEF CaseEventRows
<1>12. new = [case |-> c, status |-> "CLEARED", subject |-> ev[c].subject,
              flaggedAt |-> ev[c].at, clearedAt |-> at, latest |-> n + 1]
  <2>1. PICK o : o = [case |-> c, status |-> "OPEN", subject |-> ev[c].subject,
                      flaggedAt |-> ev[c].at, clearedAt |-> 0, latest |-> c]
    OBVIOUS
  <2>2. new = [o EXCEPT !.status = "CLEARED", !.clearedAt = at, !.latest = n + 1]
    BY <2>1, <1>8 DEF OpenRow
  <2>3. PICK p : p = [o EXCEPT !.status = "CLEARED"]
    OBVIOUS
  <2>4. PICK q : q = [p EXCEPT !.clearedAt = at]
    OBVIOUS
  <2>5. p = [case |-> c, status |-> "CLEARED", subject |-> ev[c].subject,
             flaggedAt |-> ev[c].at, clearedAt |-> 0, latest |-> c]
    BY <2>1, <2>3
  <2>6. q = [case |-> c, status |-> "CLEARED", subject |-> ev[c].subject,
             flaggedAt |-> ev[c].at, clearedAt |-> at, latest |-> c]
    BY <2>4, <2>5
  <2>7. [q EXCEPT !.latest = n + 1]
            = [case |-> c, status |-> "CLEARED", subject |-> ev[c].subject,
               flaggedAt |-> ev[c].at, clearedAt |-> at, latest |-> n + 1]
    BY <2>6
  <2>8. QED
    BY <2>2, <2>3, <2>4, <2>7
<1>13. nv = Append(ev, e) /\ cases' = (cases \ {old}) \cup {new}
  BY <1>1, <1>4, <1>5
<1> HIDE DEF e, new
<1>14. /\ nv \in Seq(CaseEventRows)
       /\ DOMAIN nv = 1..(n + 1)
       /\ nv[n + 1] = e
       /\ \A i \in 1..n : nv[i] = ev[i]
  BY <1>6, <1>11, <1>13
<1>15. \A i \in 1..n : EventFollows(ev, i)
  BY <1>4, <1>6 DEF CasesAudited
<1>16. \A i \in 1..(n + 1) : EventFollows(nv, i)
  <2>1. ASSUME NEW i \in 1..n PROVE EventFollows(nv, i)
    BY <1>2, <1>14, <1>15, FollowsKept
  <2>2. EventFollows(nv, n + 1)
    <3>1. nv[n].at <= nv[n + 1].at
      <4>1. ev # <<>>
        BY <1>6, <1>9
      <4>2. HeadAt(ev) = ev[n].at
        BY <4>1, <1>6, <1>4, HeadIsLast
      <4>3. QED
        BY <4>2, <1>2, <1>4, <1>9, <1>11, <1>14
    <3>2. ASSUME NEW j \in 1..n, nv[j].action = "clear" PROVE nv[j].case # c
      <4>1. EventFollows(ev, j) /\ nv[j] = ev[j]
        BY <1>14, <1>15
      <4>2. j \notin ClearsOf(ev, c)
        BY <1>8
      <4>3. QED
        BY <4>1, <4>2, <3>2, <1>2, <1>6, <1>9 DEF EventFollows, ClearsOf
    <3>3. (n + 1) - 1 = n
      BY <1>2
    <3>4. QED
      BY <3>1, <3>2, <3>3, <1>2, <1>9, <1>11, <1>14 DEF EventFollows
  <2>3. QED
    BY <2>1, <2>2, <1>2
<1>17. FlagsOf(nv) = FlagsOf(ev)
  BY <1>2, <1>6, <1>11, <1>14 DEF FlagsOf
<1>18. FlagsOf(ev) \subseteq 1..n
  BY <1>6 DEF FlagsOf
<1>19. \A i \in 1..n : i # c => ClearsOf(nv, i) = ClearsOf(ev, i)
  BY <1>2, <1>6, <1>11, <1>14 DEF ClearsOf
<1>20. ClearsOf(nv, c) = {n + 1}
  BY <1>2, <1>6, <1>8, <1>9, <1>11, <1>14, SMTT(30) DEF ClearsOf
<1>21. ASSUME NEW i \in 1..n, i # c, NEW row, RowFollows(ev, i, row)
       PROVE  RowFollows(nv, i, row)
  <2>1. OpenRow(nv, i) = OpenRow(ev, i)
    BY <1>14 DEF OpenRow
  <2>2. \A j \in ClearsOf(ev, i) : ClearedRow(nv, i, j) = ClearedRow(ev, i, j)
    BY <1>6, <1>14 DEF ClearedRow, ClearsOf
  <2>3. QED
    BY <2>1, <2>2, <1>19, <1>21 DEF RowFollows
<1>22. new.case = c /\ RowFollows(nv, c, new)
  <2>1. new = ClearedRow(nv, c, n + 1)
    BY <1>9, <1>11, <1>12, <1>14 DEF ClearedRow
  <2>2. QED
    BY <2>1, <1>20 DEF RowFollows, ClearedRow
<1>23. \A row \in cases : row.case \in FlagsOf(ev) /\ RowFollows(ev, row.case, row)
  BY <1>4 DEF CasesAudited
<1>24. \A i \in FlagsOf(nv) : \E row \in cases' : RowFollows(nv, i, row)
  <2> SUFFICES ASSUME NEW i \in FlagsOf(nv) PROVE \E row \in cases' : RowFollows(nv, i, row)
    OBVIOUS
  <2>1. CASE i = c
    BY <2>1, <1>13, <1>22
  <2>2. CASE i # c
    <3>1. PICK row \in cases : RowFollows(ev, i, row)
      BY <1>4, <1>17 DEF CasesAudited
    <3>2. row.case = i
      BY <3>1 DEF RowFollows, OpenRow, ClearedRow
    <3>3. row # old
      BY <3>2, <2>2, <1>3
    <3>4. QED
      BY <3>1, <3>3, <2>2, <1>13, <1>17, <1>18, <1>21
  <2>3. QED
    BY <2>1, <2>2
<1>25. \A row \in cases' : row.case \in FlagsOf(nv) /\ RowFollows(nv, row.case, row)
  <2> SUFFICES ASSUME NEW row \in cases'
               PROVE  row.case \in FlagsOf(nv) /\ RowFollows(nv, row.case, row)
    OBVIOUS
  <2>1. CASE row = new
    BY <2>1, <1>7, <1>17, <1>22
  <2>2. CASE row \in cases /\ row # old
    <3>1. row.case # c
      <4> SUFFICES ASSUME row.case = c PROVE FALSE
        OBVIOUS
      <4>1. RowFollows(ev, c, row)
        BY <2>2, <1>23
      <4>2. row = OpenRow(ev, c)
        BY <4>1, <1>8 DEF RowFollows
      <4>3. QED
        BY <4>2, <2>2, <1>8
    <3>2. QED
      BY <3>1, <2>2, <1>17, <1>18, <1>21, <1>23
  <2>3. QED
    BY <2>1, <2>2, <1>13
<1>26. \A i \in FlagsOf(nv) : nv[i].subject \in subjects
  BY <1>4, <1>14, <1>17, <1>18 DEF CasesAudited
<1>27. QED
  BY <1>2, <1>5, <1>14, <1>16, <1>24, <1>25, <1>26 DEF CasesAudited

(* Every operation keeps the tables audited, a restore too.                *)
LEMMA NoticesStep == NoticesInv /\ [Next]_vars => NoticesInv'
<1> SUFFICES ASSUME NoticesInv, [Next]_vars PROVE NoticesInv'
  OBVIOUS
<1>1. ClockReads \subseteq Nat
  BY NoticesAssumption DEF ClockReads, Times
<1>2. CASE UNCHANGED <<clock, feed, caseEvents, subjects, cases, backup>>
  BY <1>2 DEF NoticesInv
<1>3. ASSUME NEW p \in Publications, NEW d \in Drafts, NEW at \in ClockReads, Publish(p, d, at)
      PROVE  NoticesInv'
  <2>1. FeedAudited(feed')
    BY <1>1, <1>3, PublishAudited DEF NoticesInv
  <2>2. UNCHANGED <<clock, caseEvents, subjects, cases, backup>>
    BY <1>3 DEF Publish, caseVars
  <2>3. QED
    BY <2>1, <2>2 DEF NoticesInv
<1>4. ASSUME NEW s \in Subjects, RecordSubject(s)
      PROVE  NoticesInv'
  <2>1. UNCHANGED <<clock, feed, caseEvents, cases, backup>> /\ subjects \subseteq subjects'
    BY <1>4 DEF RecordSubject, feedVars
  <2>2. CasesAudited(caseEvents, subjects', cases)
    BY <2>1 DEF NoticesInv, CasesAudited
  <2>3. QED
    BY <2>1, <2>2 DEF NoticesInv
<1>5. ASSUME NEW s \in Subjects, NEW at \in ClockReads, FlagCase(s, at)
      PROVE  NoticesInv'
  <2>1. CasesAudited(caseEvents', subjects', cases')
    BY <1>1, <1>5, FlagAudited DEF NoticesInv
  <2>2. UNCHANGED <<clock, feed, backup>>
    BY <1>5 DEF FlagCase, feedVars
  <2>3. QED
    BY <2>1, <2>2 DEF NoticesInv
<1>6. ASSUME NEW a \in Administrators, NEW at \in ClockReads, ClearCase(a, at)
      PROVE  NoticesInv'
  <2>1. CasesAudited(caseEvents', subjects', cases')
    BY <1>1, <1>6, ClearAudited DEF NoticesInv
  <2>2. UNCHANGED <<clock, feed, backup>>
    BY <1>6 DEF ClearCase, feedVars
  <2>3. QED
    BY <2>1, <2>2 DEF NoticesInv
<1>7. CASE Tick
  BY <1>7 DEF NoticesInv, Tick, feedVars, caseVars
<1>8. CASE Backup
  <2>1. /\ UNCHANGED <<clock, feed, caseEvents, subjects, cases>>
        /\ backup'.feed = feed /\ backup'.subjects = subjects
        /\ backup'.caseEvents = caseEvents /\ backup'.cases = cases
    BY <1>8 DEF Backup, feedVars, caseVars
  <2>2. QED
    BY <2>1 DEF NoticesInv
<1>9. CASE Restore
  BY <1>9 DEF NoticesInv, Restore
<1>10. CASE UNCHANGED vars
  BY <1>2, <1>10 DEF vars
<1>11. CASE FeedNext
  <2>1. ASSUME NEW r \in Readers, NEW kind, NEW expired, StartFeed(r, kind, expired)
        PROVE  NoticesInv'
    BY <1>2, <2>1 DEF StartFeed, caseVars
  <2>2. ASSUME NEW r \in Readers, NEW limit, FirstPage(r, limit) \/ NextPage(r, limit)
        PROVE  NoticesInv'
    BY <1>2, <2>2 DEF FirstPage, NextPage, caseVars
  <2>3. ASSUME NEW r \in Readers, RefuseCursor(r) PROVE NoticesInv'
    BY <1>2, <2>3 DEF RefuseCursor, caseVars
  <2>4. QED
    BY <2>1, <2>2, <2>3, <1>3, <1>11 DEF FeedNext
<1>12. CASE CaseNext
  <2>1. ASSUME NEW a \in Administrators, NEW row \in cases, ReadCase(a, row) PROVE NoticesInv'
    BY <1>2, <2>1 DEF ReadCase, feedVars
  <2>2. ASSUME NEW a \in Administrators, RefuseClear(a) PROVE NoticesInv'
    BY <1>2, <2>2 DEF RefuseClear, feedVars
  <2>3. ASSUME NEW a \in Listers, NEW st, NEW limit,
               ListCases(a, st, limit) \/ MoreCases(a, limit)
        PROVE  NoticesInv'
    BY <1>2, <2>3 DEF ListCases, MoreCases, feedVars
  <2>4. QED
    BY <2>1, <2>2, <2>3, <1>4, <1>5, <1>6, <1>12 DEF CaseNext
<1>13. QED
  BY <1>7, <1>8, <1>9, <1>10, <1>11, <1>12 DEF Next

(* The complete audit's parts for announcements and cases accept every     *)
(* database that AppendAnnouncement, AppendRegistryCaseEvent and the       *)
(* restore of any earlier copy can produce, for every number of            *)
(* administrators racing to clear a case.                                  *)
THEOREM NoticesAuditHolds == Spec => []NoticesAuditPass
<1>1. Spec => []NoticesInv
  BY NoticesStart, NoticesStep, PTL DEF Spec
<1>2. QED
  BY <1>1, InvAudits, PTL

-----------------------------------------------------------------------------
(* Descending, the order every listing uses: what it returns, and that     *)
(* nothing else has these properties.                                      *)

(* What makes a function the descending enumeration of S.                  *)
Enumerates(order, n, S) ==
    /\ order \in [1..n -> S]
    /\ \A i, j \in 1..n : i < j => order[i] > order[j]
    /\ \A x \in S : \E i \in 1..n : order[i] = x

(* The larger elements of two different numbers differ in number.          *)
LEMMA RanksDiffer ==
    ASSUME NEW S \in SUBSET Nat, IsFiniteSet(S), NEW x \in S, NEW y \in S, x < y
    PROVE  Cardinality({z \in S : z > y}) < Cardinality({z \in S : z > x})
<1> DEFINE A == {z \in S : z > y}
           B == {z \in S : z > x}
<1>1. x \in Nat /\ y \in Nat /\ \A z \in S : z \in Nat
  OBVIOUS
<1>2. A \in SUBSET B /\ y \in B /\ y \notin A
  <2>1. \A z \in S : z > y => z > x
    BY <1>1
  <2>2. y > x /\ ~(y > y)
    BY <1>1
  <2>3. QED
    BY <2>1, <2>2
<1>3. B \in SUBSET S
  OBVIOUS
<1> HIDE DEF A, B
<1>4. IsFiniteSet(B)
  BY <1>3, FS_Subset
<1>5. IsFiniteSet(A) /\ Cardinality(A) <= Cardinality(B) /\ (Cardinality(B) = Cardinality(A) => B = A)
  BY <1>2, <1>4, FS_Subset
<1>6. Cardinality(A) \in Nat /\ Cardinality(B) \in Nat
  BY <1>4, <1>5, FS_CardinalityType
<1>7. Cardinality(A) < Cardinality(B)
  BY <1>2, <1>5, <1>6
<1>8. QED
  BY <1>7 DEF A, B

(* Descending(S) lists a finite set of numbers, each once, larger ones     *)
(* first.                                                                  *)
LEMMA DescendingIs ==
    ASSUME NEW S \in SUBSET Nat, IsFiniteSet(S)
    PROVE  Cardinality(S) \in Nat /\ Enumerates(Descending(S), Cardinality(S), S)
<1> DEFINE N == Cardinality(S)
           Rank(x) == Cardinality({y \in S : y > x})
           D == Descending(S)
           rank == [x \in S |-> Rank(x)]
<1>1. N \in Nat
  BY FS_CardinalityType
<1>2. ASSUME NEW x \in S PROVE Rank(x) \in 0..(N - 1)
  <2> DEFINE A == {y \in S : y > x}
  <2>1. A \in SUBSET S /\ x \notin A
    OBVIOUS
  <2> HIDE DEF A
  <2>2. IsFiniteSet(A) /\ Cardinality(A) <= N /\ (N = Cardinality(A) => S = A)
    BY <2>1, FS_Subset
  <2>3. Cardinality(A) \in Nat
    BY <2>2, FS_CardinalityType
  <2>4. Cardinality(A) \in 0..(N - 1)
    BY <2>1, <2>2, <2>3, <1>1
  <2>5. QED
    BY <2>4 DEF A
<1>3. ASSUME NEW x \in S, NEW y \in S, x < y PROVE Rank(y) < Rank(x)
  BY <1>3, RanksDiffer
<1>4. ASSUME NEW x \in S, NEW y \in S, Rank(x) = Rank(y) PROVE x = y
  <2>1. x \in Nat /\ y \in Nat /\ Rank(x) \in Int /\ Rank(y) \in Int
    BY <1>1, <1>2
  <2>2. ~(x < y) /\ ~(y < x)
    <3> HIDE DEF Rank
    <3> QED
      BY <2>1, <1>3, <1>4
  <2>3. QED
    BY <2>1, <2>2
<1>5. rank \in Injection(S, 0..(N - 1))
  <2>1. \A x \in S : rank[x] = Rank(x)
    OBVIOUS
  <2> HIDE DEF Rank
  <2>2. rank \in [S -> 0..(N - 1)]
    BY <1>2
  <2>3. IsInjective(rank)
    BY <2>1, <2>2, <1>4 DEF IsInjective
  <2>4. QED
    BY <2>2, <2>3 DEF Injection
<1>6. IsFiniteSet(0..(N - 1)) /\ Cardinality(0..(N - 1)) = N
  <2>1. N - 1 \in Int /\ 0 \in Int
    BY <1>1
  <2>2. /\ IsFiniteSet(0..(N - 1))
        /\ Cardinality(0..(N - 1)) = IF 0 > N - 1 THEN 0 ELSE (N - 1) - 0 + 1
    BY <2>1, FS_Interval
  <2>3. QED
    BY <2>2, <1>1
<1>7. rank \in Surjection(S, 0..(N - 1))
  BY <1>5, <1>6, FS_Injection
<1>8. \A i \in 1..N : \E x \in S : Rank(x) = i - 1
  <2>1. \A x \in S : rank[x] = Rank(x)
    OBVIOUS
  <2> HIDE DEF Rank
  <2>2. \A k \in 0..(N - 1) : \E x \in S : rank[x] = k
    BY <1>7 DEF Surjection
  <2>3. ASSUME NEW i \in 1..N PROVE i - 1 \in 0..(N - 1)
    BY <1>1
  <2>4. QED
    BY <2>1, <2>2, <2>3
<1>9. D = [i \in 1..N |-> CHOOSE x \in S : Rank(x) = i - 1]
  BY DEF Descending
<1> HIDE DEF Rank, D
<1>10. ASSUME NEW i \in 1..N PROVE D[i] \in S /\ Rank(D[i]) = i - 1
  BY <1>8, <1>9
<1>11. D \in [1..N -> S]
  BY <1>9, <1>10
<1>12. \A i, j \in 1..N : i < j => D[i] > D[j]
  <2> SUFFICES ASSUME NEW i \in 1..N, NEW j \in 1..N, i < j PROVE D[i] > D[j]
    OBVIOUS
  <2>1. PICK x \in S : x = D[i] /\ Rank(x) = i - 1
    BY <1>10
  <2>2. PICK y \in S : y = D[j] /\ Rank(y) = j - 1
    BY <1>10
  <2>3. x \in Nat /\ y \in Nat
    OBVIOUS
  <2>4. x # y
    BY <2>1, <2>2
  <2>5. ~(x < y)
    BY <2>1, <2>2, <1>3
  <2>6. QED
    BY <2>1, <2>2, <2>3, <2>4, <2>5
<1>13. \A x \in S : \E i \in 1..N : D[i] = x
  <2> SUFFICES ASSUME NEW x \in S PROVE \E i \in 1..N : D[i] = x
    OBVIOUS
  <2>1. Rank(x) + 1 \in 1..N
    BY <1>1, <1>2
  <2>2. PICK i \in 1..N : i = Rank(x) + 1
    BY <2>1
  <2>3. Rank(D[i]) = Rank(x)
    BY <2>2, <1>1, <1>2, <1>10
  <2>4. QED
    BY <2>3, <1>4, <1>10
<1>14. QED
  BY <1>1, <1>11, <1>12, <1>13 DEF Enumerates, D

(* A descending enumeration of S is Descending(S).                         *)
LEMMA DescendingOnly ==
    ASSUME NEW S \in SUBSET Nat, NEW n \in Nat, NEW order, Enumerates(order, n, S)
    PROVE  IsFiniteSet(S) /\ Cardinality(S) = n /\ order = Descending(S)
<1> USE DEF Enumerates
<1>1. order \in Bijection(1..n, S)
  <2>1. \A i \in 1..n : order[i] \in Nat
    OBVIOUS
  <2>2. IsInjective(order)
    BY <2>1 DEF IsInjective
  <2>3. QED
    BY <2>2 DEF Bijection, Injection, Surjection
<1>2. Cardinality(S) = n
  BY <1>1, FS_CountingElements DEF ExistsBijection
<1>3. IsFiniteSet(S)
  BY <1>1, FS_NatBijection DEF ExistsBijection
<1>4. PICK D : D = Descending(S)
  OBVIOUS
<1>5. Enumerates(D, n, S)
  BY <1>2, <1>3, <1>4, DescendingIs
<1>6. ASSUME NEW e, Enumerates(e, n, S), NEW i \in 1..n
      PROVE  Cardinality({y \in S : y > e[i]}) = i - 1
  <2> DEFINE A == {y \in S : y > e[i]}
             f == [j \in 1..(i - 1) |-> e[j]]
  <2>1. \A j \in 1..n : e[j] \in Nat
    BY <1>6
  <2>2. f \in [1..(i - 1) -> A]
    BY <2>1, <1>6
  <2>3. ASSUME NEW y \in A PROVE \E j \in 1..(i - 1) : f[j] = y
    <3>1. PICK j \in 1..n : e[j] = y
      BY <1>6
    <3>2. e[j] > e[i] /\ e[i] \in Nat /\ e[j] \in Nat
      BY <3>1, <2>1
    <3>3. j # i /\ (i < j => e[i] > e[j])
      BY <3>2, <1>6
    <3>4. ~(i < j)
      BY <3>2, <3>3
    <3>5. j \in 1..(i - 1)
      BY <3>3, <3>4
    <3>6. QED
      BY <3>1, <3>5
  <2>4. IsInjective(f)
    <3> SUFFICES ASSUME NEW j \in 1..(i - 1), NEW k \in 1..(i - 1), e[j] = e[k] PROVE j = k
      BY DEF IsInjective
    <3>1. j \in 1..n /\ k \in 1..n
      OBVIOUS
    <3>2. ~(j < k) /\ ~(k < j)
      BY <3>1, <2>1, <1>6
    <3>3. QED
      BY <3>1, <3>2
  <2>5. f \in Bijection(1..(i - 1), A)
    <3> HIDE DEF A, f
    <3> QED
      BY <2>2, <2>3, <2>4 DEF Bijection, Injection, Surjection
  <2>6. i - 1 \in Nat
    OBVIOUS
  <2> HIDE DEF A, f
  <2>7. Cardinality(A) = i - 1
    BY <2>5, <2>6, FS_CountingElements DEF ExistsBijection
  <2>8. QED
    BY <2>7 DEF A
<1>7. ASSUME NEW i \in 1..n PROVE order[i] = D[i]
  <2>1. PICK x \in S : x = order[i]
    OBVIOUS
  <2>2. PICK y \in S : y = D[i]
    BY <1>5
  <2>3. Cardinality({z \in S : z > x}) = i - 1
    BY <2>1, <1>6
  <2>4. Cardinality({z \in S : z > y}) = i - 1
    BY <2>2, <1>5, <1>6, SMTT(30)
  <2>5. x \in Nat /\ y \in Nat
    OBVIOUS
  <2>6. i - 1 \in Int /\ ~(i - 1 < i - 1)
    OBVIOUS
  <2>7. ~(x < y)
    BY <2>3, <2>4, <2>6, <1>3, RanksDiffer
  <2>8. ~(y < x)
    BY <2>3, <2>4, <2>6, <1>3, RanksDiffer
  <2>9. QED
    BY <2>1, <2>2, <2>5, <2>7, <2>8
<1>8. QED
  BY <1>2, <1>3, <1>4, <1>5, <1>7

(* The page after the n largest numbers of S: the next ones in descending  *)
(* order, at most limit of them.                                           *)
PageAfter(S, n, limit, found) ==
    LET D == Descending(S)
        N == Cardinality(S)
        k == IF N - n < limit THEN N - n ELSE limit
        page == Largest(found, limit)
    IN  /\ IsFiniteSet(found) /\ Cardinality(found) = N - n
        /\ k \in Nat /\ n + k <= N
        /\ page \in [1..k -> S] /\ page \in Seq(Nat) /\ Len(page) = k
        /\ \A i \in 1..k : page[i] = D[n + i]

(* The query for the page after position n answers with the next entries   *)
(* of the whole list.                                                      *)
LEMMA NextPageIs ==
    ASSUME NEW S \in SUBSET Nat, IsFiniteSet(S), NEW n \in 0..Cardinality(S),
           NEW limit \in Nat \ {0}, NEW found,
           found = {x \in S : n # 0 => x < Descending(S)[n]}
    PROVE  PageAfter(S, n, limit, found)
<1> DEFINE D == Descending(S)
           N == Cardinality(S)
           k == IF N - n < limit THEN N - n ELSE limit
           rest == [i \in 1..(N - n) |-> D[n + i]]
<1>1. N \in Nat /\ Enumerates(D, N, S)
  BY DescendingIs
<1>2. /\ D \in [1..N -> S]
      /\ \A i, j \in 1..N : i < j => D[i] > D[j]
      /\ \A x \in S : \E i \in 1..N : D[i] = x
      /\ \A i \in 1..N : D[i] \in Nat
  BY <1>1 DEF Enumerates
<1> HIDE DEF D, N
<1>3. n \in Nat /\ n <= N /\ N - n \in Nat
  BY <1>1 DEF N
<1>4. found = {x \in S : n # 0 => x < D[n]}
  BY DEF D
<1>5. \A i \in 1..(N - n) : n + i \in 1..N
  BY <1>1, <1>3
<1>6. \A i \in 1..(N - n) : rest[i] = D[n + i] /\ rest[i] \in S
  BY <1>2, <1>5
<1>7. Enumerates(rest, N - n, found)
  <2>1. ASSUME NEW i \in 1..(N - n) PROVE rest[i] \in found
    <3>1. n # 0 => D[n] > D[n + i]
      BY <1>2, <1>3, <1>5
    <3>2. n # 0 => D[n] \in Nat
      BY <1>2, <1>3
    <3>3. D[n + i] \in Nat
      BY <1>2, <1>5
    <3>4. n # 0 => D[n + i] < D[n]
      BY <3>1, <3>2, <3>3
    <3>5. QED
      BY <3>4, <1>4, <1>6
  <2>2. rest \in [1..(N - n) -> found]
    BY <2>1
  <2>3. \A i, j \in 1..(N - n) : i < j => rest[i] > rest[j]
    BY <1>2, <1>3, <1>5, <1>6
  <2>4. ASSUME NEW x \in found PROVE \E i \in 1..(N - n) : rest[i] = x
    <3>1. PICK j \in 1..N : D[j] = x
      BY <1>2, <1>4
    <3>2. j > n
      <4>1. CASE n = 0
        BY <4>1, <1>1
      <4>2. CASE n # 0
        <5>1. D[j] < D[n] /\ n \in 1..N
          BY <3>1, <4>2, <1>3, <1>4
        <5>2. j # n
          BY <5>1, <1>2
        <5>3. ~(j < n)
          BY <5>1, <1>2
        <5>4. QED
          BY <5>2, <5>3, <1>3
      <4>3. QED
        BY <4>1, <4>2
    <3>3. j - n \in 1..(N - n) /\ n + (j - n) = j
      BY <3>2, <1>1, <1>3
    <3>4. QED
      BY <3>1, <3>3, <1>6
  <2> HIDE DEF rest
  <2>5. QED
    BY <2>2, <2>3, <2>4 DEF Enumerates
<1>8. found \in SUBSET Nat
  BY <1>4
<1>9. IsFiniteSet(found) /\ Cardinality(found) = N - n /\ rest = Descending(found)
  <2> HIDE DEF rest
  <2> QED
    BY <1>3, <1>7, <1>8, DescendingOnly
<1>10. k \in Nat /\ k <= N - n /\ n + k <= N
  BY <1>1, <1>3
<1>11. Largest(found, limit) = SubSeq(rest, 1, k)
  <2> HIDE DEF rest
  <2> QED
    BY <1>9 DEF Largest
<1> HIDE DEF rest, k
<1>12. \A i \in 1..k : rest[i] \in S /\ rest[i] \in Nat /\ rest[i] = D[n + i]
  <2>1. \A i \in 1..k : i \in 1..(N - n)
    BY <1>3, <1>10
  <2>2. QED
    BY <2>1, <1>6
<1>13. PICK page : page = Largest(found, limit)
  OBVIOUS
<1>14. /\ page \in Seq(S)
       /\ Len(page) = IF 1 <= k THEN k - 1 + 1 ELSE 0
       /\ \A i \in 1..(k - 1 + 1) : page[i] = rest[1 + i - 1]
  BY <1>10, <1>11, <1>12, <1>13, SubSeqProperties
<1>15. Len(page) = k /\ \A i \in 1..k : page[i] = D[n + i]
  BY <1>10, <1>12, <1>14
<1>16. page \in [1..k -> S]
  BY <1>14, <1>15
<1>17. page \in Seq(Nat)
  BY <1>14, SeqMonotonic
<1>18. QED
  BY <1>9, <1>10, <1>13, <1>15, <1>16, <1>17 DEF PageAfter, D, N, k

-----------------------------------------------------------------------------
(* The feed, page by page.                                                 *)

EntryRows == [sequence: Nat, entry: FeedRows]

ReaderRows ==
    [phase: {"idle", "head", "cursor", "done"}, kind: Kinds \cup {AnyKind}, expired: BOOLEAN,
     through: Nat, chain: Seq(FeedRows), asOf: Nat, after: Nat, items: Seq(EntryRows)]

(* The sequences a snapshot shows, and the first n entries of it.          *)
Shown(c) ==
    {s \in DOMAIN c.chain :
        LET d == c.chain[s].draft
        IN  /\ d.published <= c.asOf
            /\ c.expired \/ d.expires \notin 1..c.asOf
            /\ c.kind = AnyKind \/ c.kind = d.kind}

Entries(c, n) ==
    [i \in 1..n |-> [sequence |-> Descending(Shown(c))[i],
                     entry |-> c.chain[Descending(Shown(c))[i]]]]

(* A client that holds a cursor has the first entries of its snapshot, and *)
(* the cursor names the last of them; at the end it has all.               *)
ReaderFollows(c) ==
    /\ c.phase \in {"head", "cursor"} => c.through = Len(c.chain)
    /\ c.phase = "head" => c.items = <<>> /\ c.after = 0
    /\ c.phase = "cursor" =>
        \E n \in 1..Cardinality(Shown(c)) :
            c.items = Entries(c, n) /\ c.after = Descending(Shown(c))[n]
    /\ c.phase = "done" => c.items = Entries(c, Cardinality(Shown(c)))

(* The first entries of the table are the chain.                           *)
BeginsWith(f, chain) == Len(chain) <= Len(f) /\ \A s \in 1..Len(chain) : f[s] = chain[s]

(* A request in progress read a head that the feed still begins with: the  *)
(* feed only grows while the server runs.                                  *)
ReadersInv ==
    /\ readers \in [Readers -> ReaderRows]
    /\ \A r \in Readers :
        /\ ReaderFollows(readers[r])
        /\ readers[r].phase = "head" => BeginsWith(feed, readers[r].chain)

(* What a snapshot shows is a finite set of sequences.                     *)
LEMMA ShownFinite ==
    ASSUME NEW c \in ReaderRows
    PROVE  /\ Shown(c) \in SUBSET (1..Len(c.chain)) /\ Shown(c) \in SUBSET Nat
           /\ IsFiniteSet(Shown(c)) /\ Cardinality(Shown(c)) \in Nat
           /\ Enumerates(Descending(Shown(c)), Cardinality(Shown(c)), Shown(c))
<1>1. c.chain \in Seq(FeedRows)
  BY DEF ReaderRows
<1>2. Len(c.chain) \in Nat /\ DOMAIN c.chain = 1..Len(c.chain)
  BY <1>1
<1>3. Shown(c) \in SUBSET (1..Len(c.chain)) /\ Shown(c) \in SUBSET Nat
  BY <1>2 DEF Shown
<1>4. IsFiniteSet(1..Len(c.chain))
  BY <1>2, FS_Interval
<1>5. IsFiniteSet(Shown(c))
  BY <1>3, <1>4, FS_Subset
<1>6. QED
  BY <1>3, <1>5, DescendingIs

(* The entries are records of the chain.                                   *)
LEMMA EntriesAre ==
    ASSUME NEW c \in ReaderRows, NEW n \in 0..Cardinality(Shown(c))
    PROVE  /\ Entries(c, n) \in Seq(EntryRows)
           /\ Len(Entries(c, n)) = n
           /\ \A i \in 1..n : /\ Descending(Shown(c))[i] \in 1..Len(c.chain)
                              /\ Entries(c, n)[i] = [sequence |-> Descending(Shown(c))[i],
                                                     entry |-> c.chain[Descending(Shown(c))[i]]]
<1>1. PICK D : D = Descending(Shown(c))
  OBVIOUS
<1>2. /\ Cardinality(Shown(c)) \in Nat
      /\ Enumerates(D, Cardinality(Shown(c)), Shown(c))
      /\ Shown(c) \in SUBSET (1..Len(c.chain))
  BY <1>1, ShownFinite
<1>3. n \in Nat /\ \A i \in 1..n : D[i] \in 1..Len(c.chain)
  BY <1>2 DEF Enumerates
<1>4. c.chain \in Seq(FeedRows)
  BY DEF ReaderRows
<1>5. \A i \in 1..n : D[i] \in Nat /\ c.chain[D[i]] \in FeedRows
  BY <1>3, <1>4
<1>6. ASSUME NEW i \in 1..n PROVE [sequence |-> D[i], entry |-> c.chain[D[i]]] \in EntryRows
  BY <1>5 DEF EntryRows
<1>7. Entries(c, n) = [i \in 1..n |-> [sequence |-> D[i], entry |-> c.chain[D[i]]]]
  BY <1>1 DEF Entries
<1>8. Entries(c, n) \in [1..n -> EntryRows]
  BY <1>6, <1>7
<1>9. Entries(c, n) \in Seq(EntryRows) /\ Len(Entries(c, n)) = n
  BY <1>3, <1>8
<1>10. QED
  BY <1>1, <1>3, <1>7, <1>9

(* The rows the query finds are the ones of the snapshot that come after   *)
(* the last sequence delivered.                                            *)
LEMMA MatchesAre ==
    ASSUME NEW c \in ReaderRows, feed \in Seq(FeedRows), c.through = Len(c.chain),
           BeginsWith(feed, c.chain)
    PROVE  Matches(c) = {x \in Shown(c) : c.after # 0 => x < c.after}
<1>1. /\ c.chain \in Seq(FeedRows) /\ c.asOf \in Nat
      /\ c.expired \in BOOLEAN /\ c.kind \in Kinds \cup {AnyKind}
  BY DEF ReaderRows
<1>2. Len(c.chain) \in Nat /\ DOMAIN c.chain = 1..Len(c.chain)
  BY <1>1
<1>3. ASSUME NEW s \in 1..Len(c.chain)
      PROVE  /\ feed[s] = c.chain[s]
             /\ feed[s].draft.published \in Nat /\ feed[s].draft.expires \in Nat
  <2>1. feed[s] = c.chain[s]
    BY DEF BeginsWith
  <2>2. c.chain[s] \in FeedRows
    BY <1>1
  <2>3. c.chain[s].draft \in Drafts
    BY <2>2 DEF FeedRows
  <2>4. c.chain[s].draft \in [kind : Kinds, published : Nat, expires : Nat]
    BY <2>3, DraftsAssumption DEF ValidDraft
  <2>5. QED
    BY <2>1, <2>4
<1>4. ASSUME NEW x \in Nat PROVE (x = 0 \/ x > c.asOf) <=> x \notin 1..c.asOf
  BY <1>1
<1>5. ASSUME NEW s \in 1..Len(c.chain) PROVE s \in Matches(c) <=> s \in Shown(c) /\ (c.after # 0 => s < c.after)
  <2>1. PICK d : d = feed[s].draft /\ d = c.chain[s].draft
    BY <1>3
  <2>2. (d.expires = 0 \/ d.expires > c.asOf) <=> d.expires \notin 1..c.asOf
    BY <2>1, <1>3, <1>4
  <2>3. s \in Matches(c) <=> /\ d.published <= c.asOf
                             /\ c.expired \/ d.expires = 0 \/ d.expires > c.asOf
                             /\ c.kind \in {AnyKind, d.kind}
                             /\ c.after # 0 => s < c.after
    BY <2>1 DEF Matches
  <2>4. s \in Shown(c) <=> /\ d.published <= c.asOf
                           /\ c.expired \/ d.expires \notin 1..c.asOf
                           /\ c.kind = AnyKind \/ c.kind = d.kind
    BY <2>1, <1>2 DEF Shown
  <2>5. QED
    BY <2>2, <2>3, <2>4
<1>6. Matches(c) \subseteq 1..Len(c.chain) /\ Shown(c) \subseteq 1..Len(c.chain)
  BY <1>2 DEF Matches, Shown
<1>7. QED
  BY <1>5, <1>6

(* Turning a page changes neither the snapshot nor what it shows.          *)
Turned(c, phase, after, items) ==
    [c EXCEPT !.phase = phase, !.after = after, !.items = items]

PageOf(w, c, phase, after, items) ==
    /\ w \in ReaderRows /\ w.phase = phase /\ w.after = after /\ w.items = items
    /\ w.through = c.through /\ w.chain = c.chain
    /\ Shown(w) = Shown(c) /\ \A m : Entries(w, m) = Entries(c, m)

(* Turning a page changes what it says and leaves what the reader has      *)
(* seen.                                                                   *)
LEMMA PageTurned ==
    ASSUME NEW c \in ReaderRows, NEW phase \in {"cursor", "done"}, NEW after \in Nat,
           NEW items \in Seq(EntryRows)
    PROVE  PageOf(Turned(c, phase, after, items), c, phase, after, items)
<1>1. PICK w : w = Turned(c, phase, after, items)
  OBVIOUS
<1>2. /\ w \in ReaderRows /\ w.phase = phase /\ w.after = after /\ w.items = items
      /\ w.through = c.through /\ w.chain = c.chain /\ w.kind = c.kind
      /\ w.asOf = c.asOf
  BY <1>1 DEF ReaderRows, Turned
<1>3. w.expired = c.expired
  BY <1>1 DEF ReaderRows, Turned
<1>4. Shown(w) = Shown(c)
  BY <1>2, <1>3 DEF Shown
<1>5. \A m : Entries(w, m) = Entries(c, m)
  BY <1>2, <1>4 DEF Entries
<1>6. QED
  BY <1>1, <1>2, <1>4, <1>5 DEF PageOf

(* A page extends what the client holds by the next entries of its         *)
(* snapshot.                                                               *)
LEMMA PageTaken ==
    ASSUME NEW c \in ReaderRows, feed \in Seq(FeedRows), c.through = Len(c.chain),
           BeginsWith(feed, c.chain), NEW limit \in Nat \ {0},
           NEW n \in 0..Cardinality(Shown(c)), c.items = Entries(c, n),
           c.after = IF n = 0 THEN 0 ELSE Descending(Shown(c))[n]
    PROVE  WithPage(c, limit) \in ReaderRows /\ ReaderFollows(WithPage(c, limit))
           /\ WithPage(c, limit).phase \in {"cursor", "done"}
<1>1. PICK D : D = Descending(Shown(c))
  OBVIOUS
<1>2. PICK N : N = Cardinality(Shown(c))
  OBVIOUS
<1>3. /\ N \in Nat /\ n \in 0..N /\ Shown(c) \in SUBSET (1..Len(c.chain))
      /\ Shown(c) \in SUBSET Nat /\ IsFiniteSet(Shown(c))
      /\ Enumerates(D, N, Shown(c))
  BY <1>1, <1>2, ShownFinite
<1>4. \A i \in 1..N : D[i] \in 1..Len(c.chain)
  BY <1>3 DEF Enumerates
<1>5. PICK found : found = Matches(c)
  OBVIOUS
<1>6. found = {x \in Shown(c) : n # 0 => x < Descending(Shown(c))[n]}
  <2>1. found = {x \in Shown(c) : c.after # 0 => x < c.after}
    BY <1>5, MatchesAre
  <2>2. n # 0 => c.after = D[n] /\ D[n] # 0
    BY <1>1, <1>3, <1>4
  <2>3. n = 0 => c.after = 0
    OBVIOUS
  <2>4. QED
    BY <2>1, <2>2, <2>3, <1>1
<1>7. PICK k : k = IF N - n < limit THEN N - n ELSE limit
  OBVIOUS
<1>8. PICK page : page = Largest(found, limit)
  OBVIOUS
<1>9. /\ Cardinality(found) = N - n
      /\ k \in Nat /\ n + k <= N
      /\ page \in [1..k -> Shown(c)] /\ page \in Seq(Nat) /\ Len(page) = k
      /\ \A i \in 1..k : page[i] = D[n + i]
  <2>1. PageAfter(Shown(c), n, limit, found)
    BY <1>2, <1>3, <1>6, NextPageIs
  <2>2. QED
    BY <2>1, <1>1, <1>2, <1>7, <1>8 DEF PageAfter
<1> DEFINE new == [i \in DOMAIN page |-> [sequence |-> page[i], entry |-> feed[page[i]]]]
           items == c.items \o new
<1>10. n + k \in 0..N
  BY <1>3, <1>9
<1>11. items = Entries(c, n + k)
  <2>1. \A i \in 1..k : page[i] \in 1..Len(c.chain) /\ page[i] \in Nat
    BY <1>3, <1>9
  <2>2. c.chain \in Seq(FeedRows)
    BY DEF ReaderRows
  <2>3. \A i \in 1..k : feed[page[i]] = c.chain[page[i]] /\ feed[page[i]] \in FeedRows
    BY <2>1, <2>2 DEF BeginsWith
  <2>4. DOMAIN page = 1..k
    BY <1>9
  <2>5. new \in [1..k -> EntryRows]
    <3>1. ASSUME NEW i \in 1..k
          PROVE  [sequence |-> page[i], entry |-> feed[page[i]]] \in EntryRows
      BY <2>1, <2>3 DEF EntryRows
    <3>2. QED
      BY <2>4, <3>1
  <2>6. new \in Seq(EntryRows) /\ Len(new) = k
    BY <2>5, <1>9, SMTT(30)
  <2>7. \A i \in 1..k : new[i] = [sequence |-> D[n + i], entry |-> c.chain[D[n + i]]]
    BY <2>3, <2>4, <1>9
  <2> HIDE DEF new
  <2>8. PICK old : old = Entries(c, n)
    OBVIOUS
  <2>9. /\ old \in Seq(EntryRows) /\ Len(old) = n
        /\ \A i \in 1..n : old[i] = [sequence |-> D[i], entry |-> c.chain[D[i]]]
    BY <2>8, <1>1, <1>2, EntriesAre
  <2>10. PICK all : all = Entries(c, n + k)
    OBVIOUS
  <2>11. /\ all \in Seq(EntryRows) /\ Len(all) = n + k
         /\ \A i \in 1..(n + k) : all[i] = [sequence |-> D[i], entry |-> c.chain[D[i]]]
    BY <2>10, <1>1, <1>2, <1>10, EntriesAre
  <2>12. items = old \o new
    BY <2>8
  <2> HIDE DEF items
  <2>13. /\ items \in Seq(EntryRows) /\ Len(items) = n + k
         /\ \A i \in 1..(n + k) : items[i] = IF i <= n THEN old[i] ELSE new[i - n]
    <3>1. /\ old \o new \in Seq(EntryRows)
          /\ Len(old \o new) = Len(old) + Len(new)
          /\ \A i \in 1..(Len(old) + Len(new)) :
                (old \o new)[i] = IF i <= Len(old) THEN old[i] ELSE new[i - Len(old)]
      <4>1. old \in Seq(EntryRows) /\ new \in Seq(EntryRows)
        BY <2>6, <2>9
      <4>2. QED
        BY <4>1, ConcatProperties
    <3>2. QED
      BY <3>1, <2>6, <2>9, <2>12
  <2>14. ASSUME NEW i \in 1..(n + k) PROVE items[i] = all[i]
    <3>1. CASE i <= n
      <4>1. items[i] = old[i] /\ i \in 1..n
        BY <3>1, <2>13, <1>3, <1>9
      <4>2. QED
        BY <4>1, <2>9, <2>11
    <3>2. CASE i > n
      <4>1. items[i] = new[i - n]
        BY <3>2, <2>13, <1>3, <1>9
      <4>2. i - n \in 1..k /\ n + (i - n) = i
        BY <3>2, <1>3, <1>9
      <4>3. QED
        BY <4>1, <4>2, <2>7, <2>11
    <3>3. QED
      BY <3>1, <3>2, <1>3, <1>9
  <2>15. QED
    BY <2>10, <2>11, <2>13, <2>14, SeqEqual
<1>12. items \in Seq(EntryRows)
  BY <1>2, <1>10, <1>11, EntriesAre
<1> HIDE DEF items
<1>13. PICK w : w = WithPage(c, limit)
  OBVIOUS
<1>14. w = IF N - n > limit
           THEN [c EXCEPT !.phase = "cursor", !.after = Last(page), !.items = items]
           ELSE [c EXCEPT !.phase = "done", !.after = 0, !.items = items]
  BY <1>5, <1>8, <1>9, <1>13 DEF WithPage, items
<1>15. CASE N - n > limit
  <2>1. k = limit /\ n + k \in 1..N
    BY <1>15, <1>3, <1>7, <1>9
  <2>2. Last(page) = D[n + k] /\ D[n + k] \in Nat
    BY <2>1, <1>4, <1>9 DEF Last
  <2>3. PageOf(w, c, "cursor", D[n + k], items)
    <3>1. w = Turned(c, "cursor", D[n + k], items)
      BY <2>2, <1>14, <1>15 DEF Turned
    <3>2. "cursor" \in {"cursor", "done"}
      OBVIOUS
    <3>3. QED
      BY <2>2, <3>1, <3>2, <1>12, PageTurned
  <2>4. ReaderFollows(w)
    BY <2>1, <2>3, <1>1, <1>2, <1>11 DEF ReaderFollows, PageOf
  <2>5. QED
    BY <2>3, <2>4, <1>13 DEF PageOf
<1>16. CASE ~(N - n > limit)
  <2>1. k = N - n /\ n + k = N
    BY <1>16, <1>3, <1>7
  <2>2. PageOf(w, c, "done", 0, items)
    <3>1. w = Turned(c, "done", 0, items)
      BY <1>14, <1>16 DEF Turned
    <3>2. "done" \in {"cursor", "done"} /\ 0 \in Nat
      OBVIOUS
    <3>3. QED
      BY <3>1, <3>2, <1>12, PageTurned
  <2>3. ReaderFollows(w)
    BY <2>1, <2>2, <1>2, <1>11 DEF ReaderFollows, PageOf
  <2>4. QED
    BY <2>2, <2>3, <1>13 DEF PageOf
<1>17. QED
  BY <1>15, <1>16

(* A client that has not begun follows.                                    *)
LEMMA IdleFollows == IdleReader \in ReaderRows /\ ReaderFollows(IdleReader)
<1>1. IdleReader \in ReaderRows
  <2>1. <<>> \in Seq(FeedRows) /\ <<>> \in Seq(EntryRows)
    OBVIOUS
  <2>2. QED
    BY <2>1 DEF IdleReader, ReaderRows
<1>2. IdleReader.phase = "idle"
  BY DEF IdleReader
<1>3. QED
  BY <1>1, <1>2 DEF ReaderFollows

(* What a client that follows holds is what FeedExactlyOnce asks for.      *)
LEMMA FollowingIsExact ==
    ASSUME NEW c \in ReaderRows, ReaderFollows(c)
    PROVE  /\ c.phase = "done" => c.items = Snapshot(c)
           /\ c.phase = "cursor" => IsPrefix(c.items, Snapshot(c))
<1>1. PICK N : N = Cardinality(Shown(c))
  OBVIOUS
<1>2. N \in Nat /\ DOMAIN Descending(Shown(c)) = 1..N
  BY <1>1, ShownFinite DEF Enumerates
<1>3. Snapshot(c) = Entries(c, N)
  BY <1>2 DEF Snapshot, Shown, Entries
<1>4. c.phase = "done" => c.items = Snapshot(c)
  BY <1>1, <1>3 DEF ReaderFollows
<1>5. ASSUME c.phase = "cursor" PROVE IsPrefix(c.items, Snapshot(c))
  <2>1. PICK n \in 1..N : c.items = Entries(c, n)
    BY <1>1, <1>5 DEF ReaderFollows
  <2>2. PICK s : s = Entries(c, n)
    OBVIOUS
  <2>3. PICK t : t = Entries(c, N)
    OBVIOUS
  <2>4. n \in 0..N /\ N \in 0..N
    BY <1>2
  <2>5. s \in Seq(EntryRows) /\ Len(s) = n /\ t \in Seq(EntryRows) /\ Len(t) = N
    BY <2>2, <2>3, <2>4, <1>1, EntriesAre
  <2>6. \A i \in 1..n : s[i] = t[i]
    BY <2>2, <2>3, <1>2 DEF Entries
  <2>7. SubSeq(s, 1, n) = SubSeq(t, 1, n)
    <3>1. \A i \in 1..n : s[i] \in EntryRows /\ t[i] \in EntryRows
      BY <2>4, <2>5, <2>6
    <3>2. PICK a : a = SubSeq(s, 1, n)
      OBVIOUS
    <3>3. PICK b : b = SubSeq(t, 1, n)
      OBVIOUS
    <3>4. /\ a \in Seq(EntryRows) /\ Len(a) = IF 1 <= n THEN n - 1 + 1 ELSE 0
          /\ \A i \in 1..(n - 1 + 1) : a[i] = s[1 + i - 1]
      BY <3>1, <3>2, <1>2, SubSeqProperties
    <3>5. /\ b \in Seq(EntryRows) /\ Len(b) = IF 1 <= n THEN n - 1 + 1 ELSE 0
          /\ \A i \in 1..(n - 1 + 1) : b[i] = t[1 + i - 1]
      BY <3>1, <3>3, <1>2, SubSeqProperties
    <3>6. Len(a) = n /\ Len(b) = n /\ \A i \in 1..n : a[i] = b[i]
      BY <3>4, <3>5, <2>6, <1>2
    <3>7. QED
      BY <3>2, <3>3, <3>4, <3>5, <3>6, SeqEqual
  <2>8. IsPrefix(s, t)
    BY <2>4, <2>5, <2>7 DEF IsPrefix
  <2>9. QED
    BY <2>1, <2>2, <2>3, <2>8, <1>3
<1>6. QED
  BY <1>4, <1>5

(* The readers follow initially.                                           *)
LEMMA ReadersStart == Init => ReadersInv
<1> SUFFICES ASSUME Init PROVE ReadersInv
  OBVIOUS
<1>1. readers = [r \in Readers |-> IdleReader]
  BY DEF Init
<1>2. IdleReader.phase = "idle"
  BY DEF IdleReader
<1>3. QED
  BY <1>1, <1>2, IdleFollows DEF ReadersInv

(* One client's row changes to one that follows and is in no request.      *)
LEMMA ReaderMoves ==
    ASSUME ReadersInv, UNCHANGED feed, NEW r \in Readers, NEW w \in ReaderRows,
           ReaderFollows(w), w.phase = "head" => BeginsWith(feed, w.chain),
           readers' = [readers EXCEPT ![r] = w]
    PROVE  ReadersInv'
<1>1. readers \in [Readers -> ReaderRows]
  BY DEF ReadersInv
<1>2. readers' \in [Readers -> ReaderRows]
  BY <1>1
<1>3. \A q \in Readers : readers'[q] = IF q = r THEN w ELSE readers[q]
  BY <1>1
<1>4. ASSUME NEW q \in Readers
      PROVE  /\ ReaderFollows(readers'[q])
             /\ readers'[q].phase = "head" => BeginsWith(feed', readers'[q].chain)
  <2>1. CASE q = r
    <3>1. readers'[q] = w
      BY <2>1, <1>3
    <3>2. QED
      BY <3>1
  <2>2. CASE q # r
    <3>1. readers'[q] = readers[q]
      BY <2>2, <1>3
    <3>2. QED
      BY <3>1 DEF ReadersInv
  <2>3. QED
    BY <2>1, <2>2
<1>5. QED
  BY <1>2, <1>4 DEF ReadersInv

(* Every operation keeps the readers following.                            *)
LEMMA ReadersStep == NoticesInv /\ ReadersInv /\ [Next]_vars => ReadersInv'
<1> SUFFICES ASSUME NoticesInv, ReadersInv, [Next]_vars PROVE ReadersInv'
  OBVIOUS
<1>1. /\ readers \in [Readers -> ReaderRows]
      /\ \A r \in Readers : ReaderFollows(readers[r])
      /\ \A r \in Readers : readers[r].phase = "head" => BeginsWith(feed, readers[r].chain)
  BY DEF ReadersInv
<1>2. feed \in Seq(FeedRows) /\ clock \in Nat
  BY DEF NoticesInv, FeedAudited
<1>3. CASE UNCHANGED <<feed, readers>>
  BY <1>3 DEF ReadersInv
<1>4. ASSUME NEW p \in Publications, NEW d \in Drafts, NEW at \in ClockReads, Publish(p, d, at)
      PROVE  ReadersInv'
  <2>1. PICK row : row \in FeedRows /\ feed' = Append(feed, row)
    <3>1. at \in Nat
      BY NoticesAssumption DEF ClockReads, Times
    <3>2. [publication |-> p, draft |-> d, at |-> at] \in FeedRows
      BY <3>1 DEF FeedRows
    <3>3. QED
      BY <3>2, <1>4 DEF Publish
  <2>2. UNCHANGED readers
    BY <1>4 DEF Publish
  <2>3. /\ Len(feed) \in Nat /\ Len(feed') = Len(feed) + 1
        /\ \A s \in 1..Len(feed) : feed'[s] = feed[s]
    BY <2>1, <1>2
  <2>4. ASSUME NEW r \in Readers, readers[r].phase = "head"
        PROVE  BeginsWith(feed', readers[r].chain)
    <3>1. readers[r] \in ReaderRows
      BY <1>1
    <3>2. readers[r].chain \in Seq(FeedRows)
      BY <3>1 DEF ReaderRows
    <3>3. Len(readers[r].chain) \in Nat
      BY <3>2
    <3>4. BeginsWith(feed, readers[r].chain)
      BY <2>4, <1>1
    <3>5. QED
      BY <3>3, <3>4, <2>3 DEF BeginsWith
  <2>5. QED
    BY <2>2, <2>4, <1>1 DEF ReadersInv
<1>5. ASSUME NEW r \in Readers, NEW kind \in Kinds \cup {AnyKind}, NEW expired \in BOOLEAN,
             StartFeed(r, kind, expired)
      PROVE  ReadersInv'
  <2>1. PICK w : w = [IdleReader EXCEPT !.phase = "head", !.kind = kind, !.expired = expired,
                                        !.through = Len(feed), !.chain = feed]
    OBVIOUS
  <2>2. w \in ReaderRows
    <3>1. IdleReader \in ReaderRows
      BY IdleFollows
    <3>2. Len(feed) \in Nat
      BY <1>2
    <3>3. QED
      BY <2>1, <3>1, <3>2, <1>2 DEF ReaderRows
  <2>3. /\ w.phase = "head" /\ w.through = Len(feed) /\ w.chain = feed
        /\ w.items = <<>> /\ w.after = 0
    BY <2>1 DEF IdleReader
  <2>4. ReaderFollows(w)
    BY <2>3 DEF ReaderFollows
  <2>5. BeginsWith(feed, w.chain)
    <3>1. Len(feed) \in Nat
      BY <1>2
    <3>2. QED
      BY <2>3, <3>1 DEF BeginsWith
  <2>6. readers' = [readers EXCEPT ![r] = w] /\ UNCHANGED feed
    BY <2>1, <1>5 DEF StartFeed
  <2>7. QED
    BY <2>2, <2>4, <2>5, <2>6, ReaderMoves
<1>6. ASSUME NEW r \in Readers, NEW limit \in Limits, FirstPage(r, limit)
      PROVE  ReadersInv'
  <2>1. PICK c : c = [readers[r] EXCEPT !.asOf = clock]
    OBVIOUS
  <2>2. /\ readers[r].phase = "head" /\ UNCHANGED feed
        /\ readers' = [readers EXCEPT ![r] = WithPage(c, limit)]
    BY <2>1, <1>6, <1>1 DEF FirstPage
  <2>3. readers[r] \in ReaderRows
    BY <1>1
  <2>4. /\ c \in ReaderRows
        /\ c.through = readers[r].through /\ c.chain = readers[r].chain
        /\ c.items = readers[r].items /\ c.after = readers[r].after
    BY <2>1, <2>3, <1>2 DEF ReaderRows
  <2>5. /\ readers[r].through = Len(readers[r].chain)
        /\ readers[r].items = <<>> /\ readers[r].after = 0
    BY <2>2, <1>1 DEF ReaderFollows
  <2>6. BeginsWith(feed, c.chain)
    BY <2>2, <2>4, <1>1
  <2>7. 0 \in 0..Cardinality(Shown(c))
    BY <2>4, ShownFinite
  <2>8. c.items = Entries(c, 0)
    BY <2>4, <2>5 DEF Entries
  <2>9. limit \in Nat \ {0}
    BY NoticesAssumption
  <2>10. PICK w : w = WithPage(c, limit)
    OBVIOUS
  <2>11. w \in ReaderRows /\ ReaderFollows(w) /\ w.phase \in {"cursor", "done"}
    BY <2>4, <2>5, <2>6, <2>7, <2>8, <2>9, <2>10, <1>2, PageTaken
  <2>12. QED
    BY <2>2, <2>10, <2>11, ReaderMoves
<1>7. ASSUME NEW r \in Readers, NEW limit \in Limits, NextPage(r, limit)
      PROVE  ReadersInv'
  <2>1. PICK c : c = readers[r]
    OBVIOUS
  <2>2. /\ c.phase = "cursor" /\ CursorAvailable(c) /\ UNCHANGED feed
        /\ readers' = [readers EXCEPT ![r] = WithPage(c, limit)]
    BY <2>1, <1>7, <1>1 DEF NextPage
  <2>3. c \in ReaderRows /\ ReaderFollows(c)
    BY <2>1, <1>1
  <2>4. c.through = Len(c.chain)
    BY <2>2, <2>3 DEF ReaderFollows
  <2>5. PICK n \in 1..Cardinality(Shown(c)) :
          c.items = Entries(c, n) /\ c.after = Descending(Shown(c))[n]
    BY <2>2, <2>3 DEF ReaderFollows
  <2>6. BeginsWith(feed, c.chain)
    <3>1. c.chain \in Seq(FeedRows) /\ c.through \in Nat
      BY <2>3 DEF ReaderRows
    <3>2. PICK m \in Nat : m = c.through
      BY <3>1
    <3>3. m \in 1..Len(feed) /\ SubSeq(feed, 1, m) = c.chain
      <4>1. m \in DOMAIN feed /\ SubSeq(feed, 1, m) = c.chain
        BY <2>2, <3>2 DEF CursorAvailable
      <4>2. QED
        BY <4>1, <1>2
    <3>4. \A i \in 1..m : feed[i] \in FeedRows
      BY <3>3, <1>2
    <3>5. \A i \in 1..(m - 1 + 1) : c.chain[i] = feed[1 + i - 1]
      BY <3>3, <3>4, SubSeqProperties
    <3>6. Len(c.chain) = m /\ m <= Len(feed)
      BY <2>4, <3>2, <3>3, <1>2
    <3>7. QED
      BY <3>2, <3>5, <3>6 DEF BeginsWith
  <2>7. limit \in Nat \ {0}
    BY NoticesAssumption
  <2>8. PICK w : w = WithPage(c, limit)
    OBVIOUS
  <2>9. Cardinality(Shown(c)) \in Nat
    BY <2>3, ShownFinite
  <2>10. n \in 0..Cardinality(Shown(c)) /\ n # 0
    BY <2>9
  <2>11. c.after = IF n = 0 THEN 0 ELSE Descending(Shown(c))[n]
    BY <2>5, <2>10
  <2>12. w \in ReaderRows /\ ReaderFollows(w) /\ w.phase \in {"cursor", "done"}
    BY <2>3, <2>4, <2>5, <2>6, <2>7, <2>8, <2>10, <2>11, <1>2, PageTaken
  <2>13. QED
    BY <2>2, <2>8, <2>12, ReaderMoves
<1>8. ASSUME NEW r \in Readers, RefuseCursor(r) PROVE ReadersInv'
  <2>1. IdleReader.phase = "idle"
    BY DEF IdleReader
  <2>2. readers' = [readers EXCEPT ![r] = IdleReader] /\ UNCHANGED feed
    BY <1>8 DEF RefuseCursor
  <2>3. QED
    BY <2>1, <2>2, IdleFollows, ReaderMoves
<1>9. CASE Restore
  <2>1. \A r \in Readers :
            readers'[r] = IF readers[r].phase = "head" THEN IdleReader ELSE readers[r]
    BY <1>9 DEF Restore
  <2>2. readers' \in [Readers -> ReaderRows]
    BY <1>1, <1>9, IdleFollows DEF Restore
  <2>3. IdleReader.phase = "idle"
    BY DEF IdleReader
  <2>4. ASSUME NEW r \in Readers
        PROVE  ReaderFollows(readers'[r]) /\ readers'[r].phase # "head"
    <3>1. CASE readers[r].phase = "head"
      <4>1. readers'[r] = IdleReader
        BY <3>1, <2>1
      <4>2. QED
        BY <4>1, <2>3, IdleFollows
    <3>2. CASE readers[r].phase # "head"
      <4>1. readers'[r] = readers[r]
        BY <3>2, <2>1
      <4>2. QED
        BY <4>1, <3>2, <1>1
    <3>3. QED
      BY <3>1, <3>2
  <2>5. QED
    BY <2>2, <2>4 DEF ReadersInv
<1>10. CASE FeedNext
  BY <1>4, <1>5, <1>6, <1>7, <1>8, <1>10 DEF FeedNext
<1>11. CASE CaseNext
  <2>1. UNCHANGED <<feed, readers>>
    BY <1>11 DEF CaseNext, RecordSubject, FlagCase, ReadCase, ClearCase, RefuseClear,
                 ListCases, MoreCases, feedVars
  <2>2. QED
    BY <2>1, <1>3
<1>12. CASE Tick \/ Backup
  <2>1. UNCHANGED <<feed, readers>>
    BY <1>12 DEF Tick, Backup, feedVars
  <2>2. QED
    BY <2>1, <1>3
<1>13. CASE UNCHANGED vars
  BY <1>3, <1>13 DEF vars
<1>14. QED
  BY <1>9, <1>10, <1>11, <1>12, <1>13 DEF Next

(* A client that follows the cursors of AnnouncementFeed to the end has    *)
(* every announcement of its signed snapshot that passes its filters,      *)
(* exactly once and newest first, whatever is published, expires or is     *)
(* restored between its pages: for every number of clients, every filter   *)
(* and every sequence of page sizes.                                       *)
THEOREM FeedExactlyOnceHolds == Spec => []FeedExactlyOnce
<1>1. Spec => [](NoticesInv /\ ReadersInv)
  BY NoticesStart, NoticesStep, ReadersStart, ReadersStep, PTL DEF Spec
<1>2. ReadersInv => FeedExactlyOnce
  <2> SUFFICES ASSUME ReadersInv, NEW r \in Readers
               PROVE  /\ readers[r].phase = "done" => readers[r].items = Snapshot(readers[r])
                      /\ readers[r].phase = "cursor" =>
                            IsPrefix(readers[r].items, Snapshot(readers[r]))
    BY DEF FeedExactlyOnce
  <2>1. PICK c : c = readers[r]
    OBVIOUS
  <2>2. c \in ReaderRows /\ ReaderFollows(c)
    BY <2>1 DEF ReadersInv
  <2>3. QED
    BY <2>1, <2>2, FollowingIsExact
<1>3. QED
  BY <1>1, <1>2, PTL

-----------------------------------------------------------------------------
(* Listing the cases while they are flagged and cleared.                   *)

ListingRows ==
    [phase: {"idle", "cursor", "done"}, status: {"", "OPEN", "CLEARED"}, before: Nat,
     items: Seq(Nat), start: SUBSET Nat]

(* The items of a listing are in descending order.                         *)
ItemsDescend(l) == \A i, j \in DOMAIN l.items : i < j => l.items[i] > l.items[j]

(* With W the cases that have the requested status now, and n events: what *)
(* had the status at the start and still has it is listed down to the      *)
(* cursor.  A cleared case is never open again, so nothing that was not    *)
(* there to be listed on an earlier page is missing now.                   *)
ListingFollows(l, W, n) ==
    /\ ItemsDescend(l)
    /\ l.start \subseteq 1..n
    /\ l.status # "OPEN" => l.start \subseteq W
    /\ l.phase = "cursor" =>
        /\ l.before # 0
        /\ \A i \in DOMAIN l.items : l.items[i] >= l.before
        /\ \A x \in l.start \cap W : x >= l.before => x \in Range(l.items)
    /\ l.phase = "done" => l.start \cap W \subseteq Range(l.items)

ListingsInv ==
    /\ listings \in [Listers -> ListingRows]
    /\ \A a \in Listers :
        ListingFollows(listings[a], CasesWith(listings[a].status), Len(caseEvents))

(* The cases with a status are flags of the chain, finitely many.          *)
LEMMA CasesWithAre ==
    ASSUME NoticesInv, NEW st
    PROVE  /\ Len(caseEvents) \in Nat
           /\ CasesWith(st) \in SUBSET (1..Len(caseEvents))
           /\ CasesWith(st) \in SUBSET (Nat \ {0})
           /\ IsFiniteSet(CasesWith(st))
<1>1. caseEvents \in Seq(CaseEventRows) /\ \A row \in cases : row.case \in FlagsOf(caseEvents)
  BY DEF NoticesInv, CasesAudited
<1>2. Len(caseEvents) \in Nat /\ DOMAIN caseEvents = 1..Len(caseEvents)
  BY <1>1
<1>3. CasesWith(st) \in SUBSET (1..Len(caseEvents))
  BY <1>1, <1>2 DEF CasesWith, FlagsOf
<1>4. IsFiniteSet(1..Len(caseEvents))
  BY <1>2, FS_Interval
<1>5. IsFiniteSet(CasesWith(st))
  BY <1>3, <1>4, FS_Subset
<1>6. QED
  BY <1>2, <1>3, <1>5

(* The i-th item of a page is a case, so the page is its keys.             *)
ListPage(l, limit) == Largest({x \in CasesWith(l.status) : l.before # 0 => x < l.before}, limit)

ListTurned(l, phase, before, items) ==
    [l EXCEPT !.phase = phase, !.before = before, !.items = items]

(* One page of a listing, by keys alone.                                   *)
LEMMA WithCasesIs ==
    ASSUME NEW l \in ListingRows, NEW limit \in Nat \ {0}, NoticesInv
    PROVE  WithCases(l, limit) =
             IF Cardinality({x \in CasesWith(l.status) : l.before # 0 => x < l.before}) > limit
             THEN ListTurned(l, "cursor", Last(ListPage(l, limit)),
                             l.items \o ListPage(l, limit))
             ELSE ListTurned(l, "done", 0, l.items \o ListPage(l, limit))
<1> DEFINE found == {row \in cases : /\ l.status \in {"", row.status}
                                     /\ l.before # 0 => ListKey(row) < l.before}
           keys == {ListKey(row) : row \in found}
           page == Largest(keys, limit)
           CaseBy(key) == (CHOOSE row \in found : ListKey(row) = key).case
           new == [i \in DOMAIN page |-> CaseBy(page[i])]
           Keys == {x \in CasesWith(l.status) : l.before # 0 => x < l.before}
<1>1. keys = Keys
  BY DEF CasesWith, ListKey
<1>2. Keys \in SUBSET Nat /\ IsFiniteSet(Keys)
  <2>1. CasesWith(l.status) \in SUBSET (Nat \ {0}) /\ IsFiniteSet(CasesWith(l.status))
    BY CasesWithAre
  <2>2. Keys \in SUBSET CasesWith(l.status)
    OBVIOUS
  <2> HIDE DEF Keys
  <2>3. QED
    BY <2>1, <2>2, FS_Subset
<1>3. page = ListPage(l, limit)
  BY <1>1 DEF ListPage
<1>4. new = page
  <2>1. /\ Cardinality(Keys) \in Nat
        /\ PageAfter(Keys, 0, limit, Keys)
    <3> HIDE DEF Keys
    <3>1. Cardinality(Keys) \in Nat
      BY <1>2, FS_CardinalityType
    <3>2. 0 \in 0..Cardinality(Keys) /\ Keys = {x \in Keys : 0 # 0 => x < Descending(Keys)[0]}
      BY <3>1
    <3>3. QED
      BY <3>1, <3>2, <1>2, NextPageIs
  <2>2. PICK k \in Nat : page \in [1..k -> keys]
    <3> HIDE DEF Keys, keys
    <3> QED
      BY <2>1, <1>1, <1>2 DEF PageAfter
  <2>3. ASSUME NEW i \in DOMAIN page PROVE CaseBy(page[i]) = page[i]
    <3> HIDE DEF page
    <3>1. page[i] \in keys
      BY <2>2
    <3> HIDE DEF found
    <3>2. PICK key : key = page[i] /\ key \in keys
      BY <3>1
    <3>3. \E row \in found : ListKey(row) = key
      BY <3>2
    <3>4. ListKey(CHOOSE row \in found : ListKey(row) = key) = key
      BY <3>3
    <3>5. CaseBy(key) = key
      BY <3>4 DEF ListKey
    <3>6. QED
      BY <3>2, <3>5
  <2>4. page = [i \in DOMAIN page |-> page[i]]
    <3> HIDE DEF page, keys
    <3> QED
      BY <2>2
  <2> HIDE DEF page, CaseBy
  <2>5. QED
    BY <2>3, <2>4
<1>5. WithCases(l, limit) =
        IF Cardinality(keys) > limit
        THEN [l EXCEPT !.phase = "cursor", !.before = Last(page), !.items = l.items \o new]
        ELSE [l EXCEPT !.phase = "done", !.before = 0, !.items = l.items \o new]
  BY DEF WithCases
<1> HIDE DEF page, new, keys
<1>6. QED
  BY <1>1, <1>3, <1>4, <1>5 DEF ListTurned

ListPageOf(w, l, phase, before, items) ==
    /\ w \in ListingRows /\ w.phase = phase /\ w.before = before /\ w.items = items
    /\ w.status = l.status /\ w.start = l.start

(* A turned page keeps the request.                                        *)
LEMMA ListTurnedIs ==
    ASSUME NEW l \in ListingRows, NEW phase \in {"cursor", "done"}, NEW before \in Nat,
           NEW items \in Seq(Nat)
    PROVE  ListPageOf(ListTurned(l, phase, before, items), l, phase, before, items)
BY DEF ListingRows, ListTurned, ListPageOf

(* A page continues a listing below its cursor and leaves nothing out that *)
(* has the status: what is listed next is everything down to its last item.*)
LEMMA ListingTaken ==
    ASSUME NoticesInv, NEW l \in ListingRows, NEW limit \in Nat \ {0},
           ItemsDescend(l),
           l.start \subseteq 1..Len(caseEvents),
           l.status # "OPEN" => l.start \subseteq CasesWith(l.status),
           l.before = 0 => l.items = <<>>,
           l.before # 0 =>
                /\ \A i \in DOMAIN l.items : l.items[i] >= l.before
                /\ \A x \in l.start \cap CasesWith(l.status) :
                        x >= l.before => x \in Range(l.items)
    PROVE  LET w == WithCases(l, limit)
           IN  /\ w \in ListingRows /\ w.status = l.status
               /\ ListingFollows(w, CasesWith(w.status), Len(caseEvents))
<1>1. PICK W : W = CasesWith(l.status)
  OBVIOUS
<1>2. PICK S : S = {x \in W : l.before # 0 => x < l.before}
  OBVIOUS
<1>3. /\ W \in SUBSET (Nat \ {0}) /\ IsFiniteSet(W)
  BY <1>1, CasesWithAre
<1>4. S \in SUBSET W /\ S \in SUBSET Nat
  BY <1>2, <1>3
<1>5. IsFiniteSet(S)
  BY <1>3, <1>4, FS_Subset
<1>6. PICK D : D = Descending(S)
  OBVIOUS
<1>7. PICK N : N = Cardinality(S)
  OBVIOUS
<1>8. N \in Nat /\ Enumerates(D, N, S)
  BY <1>4, <1>5, <1>6, <1>7, DescendingIs
<1>9. PICK k : k = IF N - 0 < limit THEN N - 0 ELSE limit
  OBVIOUS
<1>10. PICK page : page = Largest(S, limit)
  OBVIOUS
<1>11. /\ k \in Nat /\ 0 + k <= N
       /\ page \in Seq(Nat) /\ Len(page) = k
       /\ \A i \in 1..k : page[i] = D[0 + i]
  <2>1. 0 \in 0..Cardinality(S) /\ S = {x \in S : 0 # 0 => x < Descending(S)[0]}
    BY <1>7, <1>8
  <2>2. PageAfter(S, 0, limit, S)
    BY <2>1, <1>4, <1>5, NextPageIs
  <2>3. QED
    BY <2>2, <1>6, <1>7, <1>9, <1>10 DEF PageAfter
<1>12. /\ \A i \in 1..k : page[i] = D[i] /\ D[i] \in S
       /\ \A i \in 1..N : D[i] \in S /\ D[i] \in Nat \ {0}
       /\ \A i, j \in 1..N : i < j => D[i] > D[j]
       /\ \A x \in S : \E i \in 1..N : D[i] = x
  <2>1. /\ D \in [1..N -> S]
        /\ \A i, j \in 1..N : i < j => D[i] > D[j]
        /\ \A x \in S : \E i \in 1..N : D[i] = x
    BY <1>8 DEF Enumerates
  <2>2. ASSUME NEW i \in 1..k PROVE page[i] = D[i] /\ D[i] \in S
    <3>1. i \in 1..N /\ 0 + i = i
      BY <1>8, <1>11
    <3>2. QED
      BY <3>1, <2>1, <1>11
  <2>3. ASSUME NEW i \in 1..N PROVE D[i] \in S /\ D[i] \in Nat \ {0}
    BY <2>1, <1>3, <1>4
  <2>4. QED
    BY <2>1, <2>2, <2>3
<1>13. l.items \in Seq(Nat) /\ l.before \in Nat /\ l.start \in SUBSET Nat
  BY DEF ListingRows
<1>14. PICK m : m = Len(l.items)
  OBVIOUS
<1>15. m \in Nat /\ DOMAIN l.items = 1..m /\ \A i \in 1..m : l.items[i] \in Nat
  BY <1>13, <1>14
<1>16. PICK items : items = l.items \o page
  OBVIOUS
<1>17. /\ items \in Seq(Nat) /\ Len(items) = m + k /\ DOMAIN items = 1..(m + k)
       /\ \A i \in 1..(m + k) : items[i] = IF i <= m THEN l.items[i] ELSE page[i - m]
  <2>1. /\ l.items \o page \in Seq(Nat)
        /\ Len(l.items \o page) = Len(l.items) + Len(page)
        /\ \A i \in 1..(Len(l.items) + Len(page)) :
              (l.items \o page)[i] = IF i <= Len(l.items) THEN l.items[i]
                                     ELSE page[i - Len(l.items)]
    <3>1. l.items \in Seq(Nat) /\ page \in Seq(Nat)
      BY <1>11, <1>13
    <3>2. QED
      BY <3>1, ConcatProperties
  <2>2. QED
    BY <2>1, <1>11, <1>14, <1>16
<1>18. \A i \in 1..m : items[i] = l.items[i]
  BY <1>11, <1>15, <1>17
<1>19. \A i \in 1..(m + k) : i > m => i - m \in 1..k /\ items[i] = D[i - m]
  <2> SUFFICES ASSUME NEW i \in 1..(m + k), i > m
               PROVE  i - m \in 1..k /\ items[i] = D[i - m]
    OBVIOUS
  <2>1. i - m \in 1..k /\ ~(i <= m)
    BY <1>11, <1>15
  <2>2. items[i] = page[i - m]
    BY <2>1, <1>17
  <2>3. QED
    BY <2>1, <2>2, <1>12
<1>20. m > 0 => l.before # 0
  BY <1>14, <1>13
<1>21. ASSUME NEW i \in 1..(m + k), NEW j \in 1..(m + k), i < j
       PROVE  items[i] > items[j]
  <2>1. CASE j <= m
    <3>1. i \in 1..m /\ j \in 1..m
      BY <2>1, <1>21, <1>11, <1>15
    <3>2. QED
      BY <3>1, <1>15, <1>18, <1>21 DEF ItemsDescend
  <2>2. CASE i <= m /\ j > m
    <3>1. i \in 1..m
      BY <2>2, <1>15, <1>11
    <3>2. items[j] = D[j - m] /\ j - m \in 1..k
      BY <2>2, <1>19
    <3>3. PICK y : y = items[j]
      OBVIOUS
    <3>4. y \in S
      BY <3>2, <3>3, <1>12
    <3>5. y < l.before /\ y \in Nat
      BY <3>1, <3>4, <1>2, <1>4, <1>15, <1>20
    <3>6. l.items[i] >= l.before /\ l.items[i] \in Nat
      BY <3>1, <1>15, <1>20
    <3>7. QED
      BY <3>1, <3>3, <3>5, <3>6, <1>13, <1>18
  <2>3. CASE i > m
    <3>1. j > m
      BY <2>3, <1>11, <1>15, <1>21
    <3>2. /\ items[i] = D[i - m] /\ i - m \in 1..k
          /\ items[j] = D[j - m] /\ j - m \in 1..k
      BY <2>3, <3>1, <1>19
    <3>3. i - m \in 1..N /\ j - m \in 1..N /\ i - m < j - m
      BY <3>2, <1>8, <1>11, <1>15, <1>21
    <3>4. QED
      BY <3>2, <3>3, <1>12
  <2>4. QED
    BY <2>1, <2>2, <2>3, <1>11, <1>15
<1>22. ASSUME NEW x \in l.start \cap W, \A i \in 1..N : D[i] = x => i <= k
       PROVE  x \in Range(items)
  <2>1. CASE x \in S
    <3>1. PICK i \in 1..N : D[i] = x
      BY <2>1, <1>12
    <3>2. i \in 1..k
      BY <3>1, <1>22, <1>8, <1>11
    <3>3. m + i \in 1..(m + k) /\ m + i > m /\ (m + i) - m = i
      BY <3>2, <1>11, <1>15
    <3>4. items[m + i] = x
      BY <3>1, <3>3, <1>19
    <3>5. QED
      BY <3>3, <3>4, <1>17 DEF Range
  <2>2. CASE x \notin S
    <3>1. l.before # 0 /\ ~(x < l.before) /\ x \in Nat
      BY <2>2, <1>2, <1>3
    <3>2. x \in Range(l.items)
      BY <3>1, <1>1, <1>13
    <3>3. PICK i \in 1..m : l.items[i] = x
      BY <3>2, <1>15 DEF Range
    <3>4. i \in 1..(m + k) /\ items[i] = x
      BY <3>3, <1>11, <1>15, <1>18
    <3>5. QED
      BY <3>4, <1>17 DEF Range
  <2>3. QED
    BY <2>1, <2>2
<1>23. PICK w : w = WithCases(l, limit)
  OBVIOUS
<1>24. w = IF N > limit THEN ListTurned(l, "cursor", Last(page), items)
           ELSE ListTurned(l, "done", 0, items)
  <2>1. ListPage(l, limit) = page
    BY <1>1, <1>2, <1>10 DEF ListPage
  <2>2. QED
    BY <2>1, <1>1, <1>2, <1>7, <1>16, <1>23, WithCasesIs
<1>25. CASE N > limit
  <2>1. k = limit /\ k \in 1..N /\ k >= 1
    BY <1>8, <1>9, <1>11, <1>25
  <2>2. Last(page) = D[k] /\ D[k] \in Nat \ {0}
    <3>1. k \in 1..k
      BY <2>1
    <3>2. page[k] = D[k]
      BY <3>1, <1>12
    <3>3. QED
      BY <2>1, <3>2, <1>11, <1>12 DEF Last
  <2>3. /\ w \in ListingRows /\ w.phase = "cursor" /\ w.before = D[k] /\ w.items = items
        /\ w.status = l.status /\ w.start = l.start
    <3>1. w = ListTurned(l, "cursor", D[k], items)
      BY <2>2, <1>24, <1>25
    <3>2. D[k] \in Nat /\ "cursor" \in {"cursor", "done"}
      BY <2>2
    <3>3. QED
      <4>1. ListPageOf(w, l, "cursor", D[k], items)
        BY <3>1, <3>2, <1>17, ListTurnedIs
      <4>2. QED
        BY <4>1 DEF ListPageOf
  <2>4. ItemsDescend(w)
    BY <2>3, <1>17, <1>21 DEF ItemsDescend
  <2>5. ASSUME NEW i \in 1..(m + k) PROVE items[i] >= D[k]
    <3>1. CASE i <= m
      <4>1. i \in 1..m /\ D[k] \in S
        BY <2>1, <3>1, <1>11, <1>12, <1>15
      <4>2. l.before # 0 /\ l.items[i] >= l.before /\ D[k] < l.before
        BY <4>1, <1>2, <1>15, <1>20
      <4>3. QED
        BY <4>1, <4>2, <2>2, <1>13, <1>15, <1>18
    <3>2. CASE i > m
      <4>1. items[i] = D[i - m] /\ i - m \in 1..k
        BY <3>2, <1>19
      <4>2. i - m \in 1..N /\ D[i - m] \in Nat
        BY <4>1, <2>1, <1>8, <1>12
      <4>3. i - m < k => D[i - m] > D[k]
        BY <4>2, <2>1, <1>12
      <4>4. i - m = k => D[i - m] = D[k]
        OBVIOUS
      <4>5. QED
        BY <4>1, <4>2, <4>3, <4>4, <2>1, <2>2
    <3>3. QED
      BY <3>1, <3>2, <1>15, <1>11
  <2>6. ASSUME NEW x \in l.start \cap W, x >= D[k] PROVE x \in Range(items)
    <3>1. ASSUME NEW i \in 1..N, D[i] = x PROVE i <= k
      <4>1. ~(k < i)
        <5>1. k < i => D[k] > D[i]
          BY <2>1, <1>12
        <5>2. D[i] \in Nat
          BY <1>12
        <5>3. QED
          BY <5>1, <5>2, <2>2, <2>6, <3>1
      <4>2. QED
        BY <4>1, <1>8, <1>11
    <3>2. QED
      BY <3>1, <1>22
  <2>7. ListingFollows(w, W, Len(caseEvents))
    BY <2>2, <2>3, <2>4, <2>5, <2>6, <1>1, <1>17 DEF ListingFollows
  <2>8. QED
    BY <2>3, <2>7, <1>1, <1>23
<1>26. CASE ~(N > limit)
  <2>1. k = N
    BY <1>8, <1>9, <1>26
  <2>2. /\ w \in ListingRows /\ w.phase = "done" /\ w.before = 0 /\ w.items = items
        /\ w.status = l.status /\ w.start = l.start
    <3>1. w = ListTurned(l, "done", 0, items)
      BY <1>24, <1>26
    <3>2. 0 \in Nat /\ "done" \in {"cursor", "done"}
      OBVIOUS
    <3>3. QED
      <4>1. ListPageOf(w, l, "done", 0, items)
        BY <3>1, <3>2, <1>17, ListTurnedIs
      <4>2. QED
        BY <4>1 DEF ListPageOf
  <2>3. ItemsDescend(w)
    BY <2>2, <1>17, <1>21 DEF ItemsDescend
  <2>4. \A x \in l.start \cap W : x \in Range(items)
    BY <2>1, <1>8, <1>22
  <2>5. ListingFollows(w, W, Len(caseEvents))
    BY <2>2, <2>3, <2>4, <1>1 DEF ListingFollows
  <2>6. QED
    BY <2>2, <2>5, <1>1, <1>23
<1>27. QED
  BY <1>25, <1>26

(* A listing without items is in order.                                    *)
LEMMA NoItemsDescend ==
    ASSUME NEW l, l.items = <<>>
    PROVE  ItemsDescend(l)
BY DEF ItemsDescend

(* A listing that has not begun follows.                                   *)
LEMMA IdleListingFollows ==
    ASSUME NEW W, NEW n \in Nat
    PROVE  IdleListing \in ListingRows /\ ListingFollows(IdleListing, W, n)
<1>1. <<>> \in Seq(Nat) /\ {} \in SUBSET Nat
  OBVIOUS
<1>2. IdleListing \in ListingRows
  BY <1>1 DEF IdleListing, ListingRows
<1>3. IdleListing.phase = "idle" /\ IdleListing.items = <<>> /\ IdleListing.start = {}
  BY DEF IdleListing
<1>4. ItemsDescend(IdleListing)
  BY <1>3 DEF ItemsDescend
<1>5. QED
  BY <1>2, <1>3, <1>4 DEF ListingFollows

(* The listings follow initially.                                          *)
LEMMA ListingsStart == Init => ListingsInv
<1> SUFFICES ASSUME Init PROVE ListingsInv
  OBVIOUS
<1>1. listings = [a \in Listers |-> IdleListing] /\ Len(caseEvents) = 0
  BY DEF Init
<1>2. \A W : IdleListing \in ListingRows /\ ListingFollows(IdleListing, W, 0)
  BY IdleListingFollows
<1>3. QED
  BY <1>1, <1>2 DEF ListingsInv

(* A listing goes on following when the chain grows, cases keep their      *)
(* status or are cleared, and new ones are flagged.                        *)
LEMMA ListingKept ==
    ASSUME NEW l \in ListingRows, NEW W, NEW V, NEW n \in Nat, NEW m \in Nat, n <= m,
           ListingFollows(l, W, n), l.start \cap V \subseteq W,
           l.status # "OPEN" => W \subseteq V
    PROVE  ListingFollows(l, V, m)
<1>1. l.start \subseteq 1..m
  BY DEF ListingFollows
<1>2. l.status # "OPEN" => l.start \subseteq V
  BY DEF ListingFollows
<1>3. QED
  BY <1>1, <1>2 DEF ListingFollows

(* In a step no case is opened again, and none that is cleared, or that is *)
(* there, ceases to be.                                                    *)
StatusKept ==
    /\ CasesWith("OPEN")' \cap 1..Len(caseEvents) \subseteq CasesWith("OPEN")
    /\ CasesWith("") \subseteq CasesWith("")'
    /\ CasesWith("CLEARED") \subseteq CasesWith("CLEARED")'

(* The other callers' listings survive a change of the cases.              *)
LEMMA ListingsKept ==
    ASSUME ListingsInv, UNCHANGED listings, Len(caseEvents) \in Nat, Len(caseEvents') \in Nat,
           Len(caseEvents) <= Len(caseEvents'), StatusKept
    PROVE  ListingsInv'
<1>1. ASSUME NEW a \in Listers, NEW l, l = listings[a]
      PROVE  ListingFollows(l, CasesWith(l.status)', Len(caseEvents'))
  <2>1. l \in ListingRows /\ ListingFollows(l, CasesWith(l.status), Len(caseEvents))
    BY <1>1 DEF ListingsInv
  <2>2. PICK st \in {"", "OPEN", "CLEARED"} : st = l.status
    BY <2>1 DEF ListingRows
  <2>3. PICK V : V = CasesWith(st)'
    OBVIOUS
  <2>4. PICK W : W = CasesWith(st)
    OBVIOUS
  <2>5. l.start \subseteq 1..Len(caseEvents) /\ (st # "OPEN" => l.start \subseteq W)
    BY <2>1, <2>2, <2>4 DEF ListingFollows
  <2>6. /\ st = "OPEN" => V \cap 1..Len(caseEvents) \subseteq W
        /\ st # "OPEN" => W \subseteq V
    BY <2>3, <2>4 DEF StatusKept
  <2>7. l.start \cap V \subseteq W
    BY <2>5, <2>6
  <2>8. ListingFollows(l, W, Len(caseEvents))
    BY <2>1, <2>2, <2>4
  <2>9. ListingFollows(l, V, Len(caseEvents'))
    BY <2>1, <2>2, <2>6, <2>7, <2>8, ListingKept
  <2>10. QED
    BY <2>2, <2>3, <2>9
<1>2. QED
  BY <1>1 DEF ListingsInv

(* One caller's listing moves to one that follows.                         *)
LEMMA ListingMoves ==
    ASSUME ListingsInv, UNCHANGED <<caseEvents, cases>>, NEW a \in Listers,
           NEW w \in ListingRows, ListingFollows(w, CasesWith(w.status), Len(caseEvents)),
           listings' = [listings EXCEPT ![a] = w]
    PROVE  ListingsInv'
<1>1. listings \in [Listers -> ListingRows]
  BY DEF ListingsInv
<1>2. listings' \in [Listers -> ListingRows]
  BY <1>1
<1>3. \A st : CasesWith(st)' = CasesWith(st)
  BY DEF CasesWith
<1>4. ASSUME NEW b \in Listers, NEW l, l = listings'[b]
      PROVE  ListingFollows(l, CasesWith(l.status)', Len(caseEvents'))
  <2>1. l = IF b = a THEN w ELSE listings[b]
    BY <1>1, <1>4
  <2>2. ListingFollows(l, CasesWith(l.status), Len(caseEvents))
    BY <2>1 DEF ListingsInv
  <2>3. QED
    BY <2>2, <1>3
<1>5. QED
  BY <1>2, <1>4 DEF ListingsInv

(* Every operation keeps the listings following.                           *)
LEMMA ListingsStep == NoticesInv /\ ListingsInv /\ [Next]_vars => ListingsInv'
<1> SUFFICES ASSUME NoticesInv, ListingsInv, [Next]_vars PROVE ListingsInv'
  OBVIOUS
<1>1. /\ caseEvents \in Seq(CaseEventRows) /\ Len(caseEvents) \in Nat
      /\ \A row \in cases : row.case \in FlagsOf(caseEvents)
                            /\ RowFollows(caseEvents, row.case, row)
  BY DEF NoticesInv, CasesAudited
<1>2. listings \in [Listers -> ListingRows]
  BY DEF ListingsInv
<1>3. CASE UNCHANGED <<caseEvents, cases, listings>>
  <2>1. StatusKept
    BY <1>3 DEF CasesWith, StatusKept
  <2>2. QED
    BY <2>1, <1>1, <1>3, ListingsKept
<1>4. ASSUME NEW s \in Subjects, NEW at \in ClockReads, FlagCase(s, at)
      PROVE  ListingsInv'
  <2> DEFINE row == [case |-> Len(caseEvents) + 1, status |-> "OPEN", subject |-> s,
                     flaggedAt |-> at, clearedAt |-> 0, latest |-> Len(caseEvents) + 1]
             e == [action |-> "flag", case |-> Len(caseEvents) + 1, subject |-> s, at |-> at]
  <2>1. cases' = cases \cup {row} /\ row.case = Len(caseEvents) + 1
    BY <1>4 DEF FlagCase
  <2>2. caseEvents' = Append(caseEvents, e)
    BY <1>4 DEF FlagCase
  <2> HIDE DEF row, e
  <2>3. Len(caseEvents') = Len(caseEvents) + 1
    BY <2>2, <1>1
  <2>4. StatusKept
    <3>1. \A st : CasesWith(st) \subseteq CasesWith(st)'
      BY <2>1 DEF CasesWith
    <3>2. CasesWith("OPEN")' \subseteq CasesWith("OPEN") \cup {Len(caseEvents) + 1}
      BY <2>1 DEF CasesWith
    <3>3. Len(caseEvents) + 1 \notin 1..Len(caseEvents)
      BY <1>1
    <3>4. QED
      BY <3>1, <3>2, <3>3 DEF StatusKept
  <2>5. UNCHANGED listings
    BY <1>4 DEF FlagCase
  <2>6. QED
    BY <2>3, <2>4, <2>5, <1>1, ListingsKept
<1>5. ASSUME NEW a \in Administrators, NEW at \in ClockReads, ClearCase(a, at)
      PROVE  ListingsInv'
  <2>1. PICK old \in cases :
          /\ old.status = "OPEN"
          /\ caseEvents' = Append(caseEvents, [action |-> "clear", case |-> old.case,
                                               subject |-> old.subject, at |-> at])
          /\ cases' = (cases \ {old}) \cup {[old EXCEPT !.status = "CLEARED", !.clearedAt = at,
                                                        !.latest = Len(caseEvents) + 1]}
    BY <1>5 DEF ClearCase, MayClear
  <2>2. PICK new : new = [old EXCEPT !.status = "CLEARED", !.clearedAt = at,
                                     !.latest = Len(caseEvents) + 1]
    OBVIOUS
  <2>3. new.status = "CLEARED" /\ new.case = old.case
    <3>1. RowFollows(caseEvents, old.case, old)
      BY <1>1
    <3>2. old = OpenRow(caseEvents, old.case)
      BY <2>1, <3>1 DEF RowFollows, OpenRow, ClearedRow
    <3>3. DOMAIN old = {"case", "status", "subject", "flaggedAt", "clearedAt", "latest"}
      BY <3>2 DEF OpenRow
    <3>4. QED
      BY <2>2, <3>3
  <2>4. Len(caseEvents') = Len(caseEvents) + 1
    BY <2>1, <1>1
  <2>5. cases' = (cases \ {old}) \cup {new}
    BY <2>1, <2>2
  <2>6. StatusKept
    <3>1. CasesWith("OPEN")' \subseteq CasesWith("OPEN")
      BY <2>3, <2>5 DEF CasesWith
    <3>2. CasesWith("") \subseteq CasesWith("")'
      BY <2>3, <2>5 DEF CasesWith
    <3>3. CasesWith("CLEARED") \subseteq CasesWith("CLEARED")'
      BY <2>1, <2>3, <2>5 DEF CasesWith
    <3>4. QED
      BY <3>1, <3>2, <3>3 DEF StatusKept
  <2>7. UNCHANGED listings
    BY <1>5 DEF ClearCase
  <2>8. QED
    BY <2>4, <2>6, <2>7, <1>1, ListingsKept
<1>6. ASSUME NEW a \in Listers, NEW st \in {"", "OPEN", "CLEARED"}, NEW limit \in Limits,
             ListCases(a, st, limit)
      PROVE  ListingsInv'
  <2>1. PICK l : l = [IdleListing EXCEPT !.status = st, !.start = CasesWith(st)]
    OBVIOUS
  <2>2. /\ listings' = [listings EXCEPT ![a] = WithCases(l, limit)]
        /\ UNCHANGED <<caseEvents, cases>>
    BY <2>1, <1>6 DEF ListCases
  <2>3. /\ CasesWith(st) \in SUBSET (1..Len(caseEvents)) /\ CasesWith(st) \in SUBSET (Nat \ {0})
    BY CasesWithAre
  <2>4. /\ l \in ListingRows /\ l.status = st /\ l.start = CasesWith(st)
        /\ l.items = <<>> /\ l.before = 0
    <3>1. CasesWith(st) \in SUBSET Nat
      BY <2>3
    <3>2. IdleListing \in ListingRows
      BY <1>1, IdleListingFollows
    <3>3. IdleListing.items = <<>> /\ IdleListing.before = 0
      BY DEF IdleListing
    <3>4. QED
      BY <2>1, <3>1, <3>2, <3>3 DEF ListingRows
  <2>5. ItemsDescend(l)
    BY <2>4, NoItemsDescend
  <2>6. limit \in Nat \ {0}
    BY NoticesAssumption
  <2>7. PICK w : w = WithCases(l, limit)
    OBVIOUS
  <2>8. w \in ListingRows /\ ListingFollows(w, CasesWith(w.status), Len(caseEvents))
    BY <2>3, <2>4, <2>5, <2>6, <2>7, ListingTaken
  <2>9. QED
    BY <2>2, <2>7, <2>8, ListingMoves
<1>7. ASSUME NEW a \in Listers, NEW limit \in Limits, MoreCases(a, limit)
      PROVE  ListingsInv'
  <2>1. PICK l : l = listings[a]
    OBVIOUS
  <2>2. /\ listings' = [listings EXCEPT ![a] = WithCases(l, limit)]
        /\ UNCHANGED <<caseEvents, cases>> /\ l.phase = "cursor"
    BY <2>1, <1>2, <1>7 DEF MoreCases
  <2>3. l \in ListingRows /\ ListingFollows(l, CasesWith(l.status), Len(caseEvents))
    BY <2>1 DEF ListingsInv
  <2>4. /\ ItemsDescend(l) /\ l.start \subseteq 1..Len(caseEvents)
        /\ l.status # "OPEN" => l.start \subseteq CasesWith(l.status)
        /\ l.before # 0
        /\ \A i \in DOMAIN l.items : l.items[i] >= l.before
        /\ \A x \in l.start \cap CasesWith(l.status) : x >= l.before => x \in Range(l.items)
    BY <2>2, <2>3 DEF ListingFollows
  <2>5. limit \in Nat \ {0}
    BY NoticesAssumption
  <2>6. PICK w : w = WithCases(l, limit)
    OBVIOUS
  <2>7. w \in ListingRows /\ ListingFollows(w, CasesWith(w.status), Len(caseEvents))
    BY <2>3, <2>4, <2>5, <2>6, ListingTaken
  <2>8. QED
    BY <2>2, <2>6, <2>7, ListingMoves
<1>8. CASE Restore
  <2>1. Len(caseEvents') \in Nat
    <3>1. backup.caseEvents \in Seq(CaseEventRows)
      BY DEF NoticesInv, CasesAudited
    <3>2. caseEvents' = backup.caseEvents
      BY <1>8 DEF Restore
    <3>3. QED
      BY <3>1, <3>2
  <2>2. listings' = [a \in Listers |-> IdleListing]
    BY <1>8 DEF Restore
  <2>3. \A W : IdleListing \in ListingRows /\ ListingFollows(IdleListing, W, Len(caseEvents'))
    BY <2>1, IdleListingFollows
  <2>4. QED
    BY <2>2, <2>3 DEF ListingsInv
<1>9. CASE FeedNext
  <2>1. UNCHANGED <<caseEvents, cases, listings>>
    BY <1>9 DEF FeedNext, Publish, StartFeed, FirstPage, NextPage, RefuseCursor, caseVars
  <2>2. QED
    BY <2>1, <1>3
<1>10. CASE CaseNext
  <2>1. ASSUME NEW s \in Subjects, RecordSubject(s) PROVE ListingsInv'
    BY <1>3, <2>1 DEF RecordSubject
  <2>2. ASSUME NEW a \in Administrators, NEW row \in cases, ReadCase(a, row) PROVE ListingsInv'
    BY <1>3, <2>2 DEF ReadCase
  <2>3. ASSUME NEW a \in Administrators, RefuseClear(a) PROVE ListingsInv'
    BY <1>3, <2>3 DEF RefuseClear
  <2>4. QED
    BY <2>1, <2>2, <2>3, <1>4, <1>5, <1>6, <1>7, <1>10 DEF CaseNext
<1>11. CASE Tick \/ Backup
  <2>1. UNCHANGED <<caseEvents, cases, listings>>
    BY <1>11 DEF Tick, Backup, caseVars
  <2>2. QED
    BY <2>1, <1>3
<1>12. CASE UNCHANGED vars
  BY <1>3, <1>12 DEF vars
<1>13. QED
  BY <1>8, <1>9, <1>10, <1>11, <1>12 DEF Next

(* A listing of the cases names no case twice, newest flag first, and when *)
(* it ends it has named every case that had the requested status when it   *)
(* began and has it still, whatever is flagged, cleared or listed by       *)
(* others between its pages: for every number of callers and every         *)
(* sequence of page sizes.                                                 *)
THEOREM CaseListsCompleteHolds == Spec => []CaseListsComplete
<1>1. Spec => [](NoticesInv /\ ListingsInv)
  BY NoticesStart, NoticesStep, ListingsStart, ListingsStep, PTL DEF Spec
<1>2. ListingsInv => CaseListsComplete
  BY DEF ListingsInv, ListingFollows, ItemsDescend, CaseListsComplete
<1>3. QED
  BY <1>1, <1>2, PTL
=============================================================================
