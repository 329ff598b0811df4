---------------------------- MODULE DuplicateSets ----------------------------
(***************************************************************************)
(* What the two halves of fmd5 and fsha1 agree on: the list of duplicate   *)
(* sets that the search leaves behind (struct file_list, turned round by   *)
(* rearr_list) and the prompts start from.  DupSearch guarantees it, and   *)
(* SetCommands relies on it.                                               *)
(***************************************************************************)
EXTENDS Integers, Sequences

\* Each set has two files or more, all of one content, and no file is listed
\* twice; contentOf gives the content of every file that is there.
IsReport(report, contentOf) ==
  /\ report \in Seq(Seq(DOMAIN contentOf))
  /\ \A k \in DOMAIN report :
       /\ Len(report[k]) >= 2
       /\ \A a \in DOMAIN report[k] : contentOf[report[k][a]] = contentOf[report[k][1]]
  /\ \A k, l \in DOMAIN report : \A a \in DOMAIN report[k], b \in DOMAIN report[l] :
       report[k][a] = report[l][b] => k = l /\ a = b
=============================================================================
