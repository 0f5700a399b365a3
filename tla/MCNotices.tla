----------------------------- MODULE MCNotices -----------------------------
(* Instances of the announcements and the registry cases for TLC.          *)
EXTENDS Notices

(* Nothing orders publications or administrators.                          *)
NoticesSymmetry == Permutations(Publications) \cup Permutations(Administrators)

(* A lasting draft, and one of the other kind that expires.                *)
FewDrafts ==
    {[kind |-> "GENERAL", published |-> 1, expires |-> 0],
     [kind |-> "UPDATE", published |-> 1, expires |-> 2]}

(* The feed and the cases share the clock and the backup alone: a          *)
(* behaviour exercises one of the two.                                     *)
OneOfTwo ==
    \/ feed' = <<>> /\ readers' = [r \in Readers |-> IdleReader]
    \/ subjects' = {} /\ listings' = [a \in Listers |-> IdleListing]

NextApart == Next /\ OneOfTwo

SpecApart == Init /\ [][NextApart]_vars
=============================================================================
