------------------------------- MODULE Dedup -------------------------------
(***************************************************************************)
(* What fmd5 and fsha1 promise the owner of the files, without the lists,  *)
(* the walks and the prompts: copies of one content form a group; a copy   *)
(* leaves its group because the user named it, or because the tool decided *)
(* for the whole group which copy stays.  The tool dates the copies by     *)
(* their modification time, and cannot date one whose time is 0.           *)
(***************************************************************************)
CONSTANTS
  Paths,   \* the files
  Groups   \* the groups of equal files the search found

\* What the search guarantees of the groups; SetCommands gives it for its own.
GroupsAssumption ==
  /\ Groups \subseteq SUBSET Paths
  /\ \A G, H \in Groups : G \cap H # {} => G = H

VARIABLES
  groups,   \* the groups still on offer, without the copies that left them
  doomed,   \* copies the tool has decided to remove and not yet removed
  stored,   \* the files whose content is on the disk or in the trash
  undated,  \* the files with modification time 0
  asked     \* the copies the user named

vars == <<groups, doomed, stored, undated, asked>>

TypeOK ==
  /\ groups \subseteq SUBSET Paths
  /\ doomed \subseteq Paths
  /\ stored \subseteq Paths
  /\ undated \subseteq Paths
  /\ asked \subseteq Paths

Init ==
  /\ groups = Groups
  /\ doomed = {}
  /\ stored = Paths
  /\ undated \in SUBSET Paths
  /\ asked = {}

\* The removal of p may fail without notice.
Remove(p) == stored' \in {stored, stored \ {p}}

\* The user names one copy.
Name(g, p) ==
  /\ groups' = (groups \ {g}) \cup {g \ {p}}
  /\ asked' = asked \cup {p}
  /\ Remove(p)
  /\ UNCHANGED <<doomed, undated>>

\* The tool decides for a whole group: one copy stays, of those it can date
\* if there are any; if there are none it may also be that no copy stays.
Decide(g) ==
  /\ \E left \in {{}} \cup {{k} : k \in g} :
       /\ left \ undated # {} \/ g \subseteq undated
       /\ doomed' = doomed \cup (g \ left)
  /\ groups' = groups \ {g}
  /\ UNCHANGED <<stored, undated, asked>>

\* One copy the tool has decided about goes.
Discard(p) ==
  /\ doomed' = doomed \ {p}
  /\ Remove(p)
  /\ UNCHANGED <<groups, undated, asked>>

\* A group with fewer than two copies is none any more.
Prune ==
  /\ groups' = {g \in groups : \E p, q \in g : p # q}
  /\ UNCHANGED <<doomed, stored, undated, asked>>

Next ==
  \/ \E g \in groups : \E p \in g : Name(g, p)
  \/ \E g \in groups : Decide(g)
  \/ \E p \in doomed : Discard(p)
  \/ Prune

Spec == Init /\ [][Next]_vars
-----------------------------------------------------------------------------
\* A content disappears only if the user named every copy of it that could be
\* dated: the sweeps of f and t alone never remove the last one.
GroupKept ==
  \A G \in Groups :
    \/ G \cap stored # {}
    \/ G \subseteq asked \cup undated
=============================================================================
