--------------------------------- MODULE MCArchive ---------------------------------
(* Archive, Annotations and Challenges for TLC.  The five kinds of annotations      *)
(* share nothing but the versions, and challenges only whether theirs is public, so *)
(* a behaviour moves the archive alone, one kind of annotations beside publications *)
(* and the lifecycle, or the challenges of one subject.                             *)
EXTENDS Annotations, Challenges, TLC

CONSTANTS a1, a2, a3, a4, b1, ra, rb, p1

Source(r, commit, selection) == [repository |-> r, commit |-> commit, selection |-> selection]

\* a1 and a3 are one commit, once from the branch and once from a release; a4
\* captures the source of a1 again.
SomeSources ==
    a1 :> Source(ra, "one", "branch") @@ a2 :> Source(ra, "two", "branch")
       @@ a3 :> Source(ra, "one", "release") @@ a4 :> Source(ra, "one", "branch")
       @@ b1 :> Source(rb, "one", "branch")

SomeBinding == p1 :> <<ra, 1>>

VARIABLE side

archiveVars == <<annotatedVars, challengeVars, side>>

Attached == {"discussion", "monitoring", "execution", "exchange", "protocols"}

\* Submissions that wait for their publication.
Waiting ==
    {<<a1, a2>>} \union (IF side = "discussion" THEN {<<a1, a3>>, <<a1, a4>>} ELSE {})

PreparedInit ==
    /\ captures = [c \in Captures |-> IF c = b1 THEN "absent" ELSE "live"]
    /\ \E w \in Waiting :
          submissions = [i \in DOMAIN w |-> [capture |-> w[i], status |-> "pending"]]
    /\ versions = [r \in Reviews |-> <<>>]
    /\ current = [r \in Reviews |-> Nothing]
    /\ events = [r \in Reviews |-> <<>>]
    /\ briefs = [b \in Briefs |-> Nothing]
    /\ req = [h \in Handlers |-> Idle]
    /\ told = {}

ArchiveInit ==
    /\ side \in {"archive", "challenges"} \union Attached
    /\ IF side \in Attached THEN PreparedInit ELSE Init
    /\ AnnotationsInit
    /\ ChallengeInit

\* What may happen to the versions meanwhile.
Surroundings ==
    /\ \/ \E i \in DOMAIN submissions : MaterializeReviewPublication(i)
       \/ \E r \in Reviews : RecordReviewLifecycleEvent(r)
       \/ \E h \in Handlers : Abandon(h)
    /\ UNCHANGED annotations
    /\ Recorded' <= 1

\* Who is involved anyway need not file to be so.
OutsidersFile == \A i \in DOMAIN rows' : rows'[i].challenger \notin Contributors \union Assessors

PublishedNext ==
    \/ /\ side = "archive" /\ Next /\ UNCHANGED annotations
       /\ captures'[a3] = "absent" /\ captures'[a4] = "absent"
    \/ side \in Attached /\ Surroundings
    \/ side = "discussion" /\ DiscussionNext
    \/ side = "monitoring" /\ MonitoringNext
    \/ side = "execution" /\ ExecutionNext
    \/ side = "exchange" /\ ExchangeNext
    \/ side = "protocols" /\ ProtocolsNext

ArchiveNext ==
    /\ UNCHANGED side
    /\ \/ PublishedNext /\ UNCHANGED challengeVars
       \/ side = "challenges" /\ ChallengeNext /\ OutsidersFile /\ UNCHANGED annotatedVars

ArchiveSpec == ArchiveInit /\ [][ArchiveNext]_archiveVars

ArchiveSymmetry == Permutations(Actors) \union Permutations(Handlers) \union Permutations(Staff)
===============================================================================
