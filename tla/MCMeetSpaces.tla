---------------------------- MODULE MCMeetSpaces ----------------------------
(***************************************************************************)
(* A finite instance of MeetSpaces for TLC.                                *)
(***************************************************************************)
EXTENDS MeetSpaces, FiniteSets, TLC

Symmetry == Permutations(Requests) \cup Permutations(Subjects)

Authorizing == {f \in Flows : flow[f].at \notin {"unused", "spent"}}
Touched == {r \in Records : row[r] # NoRow \/ r \in active}

OnlyAdminsHost == \A u \in Users : MayHost(u) \/ IsAnyOrganizer(u) => u \in Admins

NoOrganization ==
  \A h \in Hosts \ {Aedilis} : host[h] = Nobody /\ \A f \in Flows : flow[f].mode # h

\* The bound of the run: requests for two records at once, or one record and an
\* authorization.  Once an organization has a host of its own, one or the other.
Bounds ==
  /\ Cardinality(Touched) >= 2 => Authorizing = {} /\ NoOrganization
  /\ Cardinality(Touched) = 1 => Authorizing = {} \/ NoOrganization
  /\ OnlyAdminsHost
=============================================================================
