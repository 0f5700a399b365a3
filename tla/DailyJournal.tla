---------------------------- MODULE DailyJournal ----------------------------
(***************************************************************************)
(* What the ledger and its checkpoints promise together, without requests, *)
(* nonces, revisions or concurrency: a journal of timed entries that only  *)
(* grows, and one seal per UTC day.  A seal shows the whole journal up to  *)
(* the end of its day and is never changed; nothing is ever written into a *)
(* day that has been sealed.                                               *)
(***************************************************************************)
EXTENDS Integers, Sequences

CONSTANTS DayLength,  \* length of a day
          FirstDay    \* the day the journal was opened

VARIABLES journal,    \* entries, each with its time in field "at"
          seals       \* seals[n] is the journal through day FirstDay + n - 1

(* The end of the newest sealed day.                                       *)
SealedUntil == (FirstDay + Len(seals)) * DayLength

(* The journal through the end of a day.                                   *)
JournalThrough(day) ==
    [i \in {j \in DOMAIN journal : journal[j].at < (day + 1) * DayLength} |-> journal[i]]

JournalInit == journal = <<>> /\ seals = <<>>

(* One entry is added at the end, no earlier than the entry before it and  *)
(* not in a sealed day.                                                    *)
Write ==
    /\ Len(journal') = Len(journal) + 1
    /\ SubSeq(journal', 1, Len(journal)) = journal
    /\ LET new == journal'[Len(journal')].at
       IN  new >= SealedUntil /\ \A i \in DOMAIN journal : journal[i].at <= new
    /\ UNCHANGED seals

(* The next days are sealed, none is left out.                             *)
Seal ==
    /\ Len(seals') > Len(seals)
    /\ \A n \in DOMAIN seals' :
        seals'[n] = IF n \in DOMAIN seals THEN seals[n]
                                          ELSE JournalThrough(FirstDay + n - 1)
    /\ UNCHANGED journal

JournalNext == Write \/ Seal

JournalSpec == JournalInit /\ [][JournalNext]_<<journal, seals>>
=============================================================================
