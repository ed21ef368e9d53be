-------------------------- MODULE Publication_proofs --------------------------
(***************************************************************************)
(* The synthesis series, the archive of reviews and the annotations of its *)
(* versions: proofs of what the runs check of SynthesisSeries, Archive and *)
(* Annotations.  The inductive invariants come first in each part; what    *)
(* they add to the properties is what a handler or a row still relies on   *)
(* after the transaction that read or wrote it.                            *)
(***************************************************************************)
EXTENDS Annotations, SynthesisSeries, FiniteSetTheorems, SequenceTheorems, TLAPS

-----------------------------------------------------------------------------
(* Synthesis series *)

\* Whoever holds a version (a row of it, a proposal, an observation, an
\* evaluation under way) holds one that was accepted from a stored draft.
VersionsHeld ==
    /\ \A d \in Accepted : draft[d] # None
    /\ \A p \in proposal : p.version \in Accepted
    /\ \A d \in Drafts : observed[d] # None => d \in Accepted
    /\ \A e \in Evaluators : ev[e] # Resting => ev[e].version \in Accepted

\* The drafts of a series are numbered up to their count, so one is the latest.
DraftsAreNumbered ==
    \A s \in Series :
        /\ \A d \in Of(s) : draft[d].ordinal <= Cardinality(Of(s))
        /\ Of(s) # {} => \E d \in Of(s) : draft[d].ordinal = Cardinality(Of(s))

SeriesInv ==
    /\ SeriesTypeOK
    /\ HeadsFormALine
    /\ OpenProposalsAreCurrent
    /\ StaleHeadsAreProposed
    /\ VersionsHeld
    /\ DraftsAreNumbered

\* The versions of a series.
Line(s) == {d \in Accepted : draft[d].series = s}

HeadIsLast(s) ==
    /\ head[s] = None => Line(s) = {}
    /\ head[s] # None => head[s] \in Line(s) /\ version[head[s]].ordinal = Cardinality(Line(s))

Linked(s) ==
    \A d \in Line(s) :
        /\ draft[d].status = "accepted"
        /\ draft[d].previous = version[d].predecessor
        /\ IF version[d].predecessor = None THEN version[d].ordinal = 1
           ELSE /\ version[d].predecessor \in Line(s)
                /\ version[d].ordinal = version[version[d].predecessor].ordinal + 1

\* HeadsFormALine, in these terms.
LEMMA LinesOneByOne ==
    /\ HeadsFormALine <=> \A s \in Series : HeadIsLast(s) /\ Linked(s)
    /\ HeadsFormALine' <=> \A s \in Series : HeadIsLast(s)' /\ Linked(s)'
BY DEF HeadsFormALine, HeadIsLast, Linked, Line

\* None is no draft and no row of the tables of the series.
LEMMA NullsOfSeries ==
    /\ \A x \in Nat : x # None
    /\ \A d \in Drafts : d # None /\ d \in Nat
    /\ \A x \in DraftRows : x # None
    /\ \A x \in AcceptedRows : x # None
BY SeriesConstants DEF Drafts

\* Sets of drafts are finite and have a count.
LEMMA DraftsAreFinite ==
    \A S \in SUBSET Drafts : IsFiniteSet(S) /\ Cardinality(S) \in Nat
<1>1. IsFiniteSet(Drafts)
  BY SeriesConstants, FS_Interval DEF Drafts
<1> QED
  BY <1>1, FS_Subset, FS_CardinalityType

\* One more draft adds one to the count.
LEMMA OneMoreDraft ==
    ASSUME NEW S \in SUBSET Drafts, NEW d \in Drafts, d \notin S
    PROVE  Cardinality(S \union {d}) = Cardinality(S) + 1
BY DraftsAreFinite, FS_AddElement

\* The initial state satisfies the invariant.
LEMMA SeriesStarts == SeriesInit => SeriesInv
<1> SUFFICES ASSUME SeriesInit PROVE SeriesInv
  OBVIOUS
<1> USE DEF SeriesInit, OrNone
<1>1. Accepted = {} /\ \A s \in Series : Of(s) = {}
  BY DEF Accepted, Of
<1>2. graph \in Packets
  BY SeriesConstants
<1>3. SeriesTypeOK
  BY <1>2, SeriesConstants DEF SeriesTypeOK
<1>4. HeadsFormALine /\ OpenProposalsAreCurrent /\ StaleHeadsAreProposed
  BY <1>1 DEF HeadsFormALine, OpenProposalsAreCurrent, StaleHeadsAreProposed
<1>5. VersionsHeld /\ DraftsAreNumbered
  BY <1>1 DEF VersionsHeld, DraftsAreNumbered
<1> QED
  BY <1>3, <1>4, <1>5 DEF SeriesInv

\* A draft is stored: its series gains a number, and nobody held it before.
LEMMA StoreDraftKeeps ==
    ASSUME SeriesInv, NEW d \in Drafts, NEW s \in Series, NEW p \in Packets, StoreDraft(d, s, p)
    PROVE  SeriesInv'
<1> DEFINE row == [series |-> s, packet |-> p, status |-> "pending", ordinal |-> Ordinal(s) + 1,
                   previous |-> head[s],
                   parent |-> IF Of(s) # {} /\ draft[Latest(s)].status = "regeneration-requested"
                              THEN Latest(s) ELSE None]
<1>1. SeriesTypeOK /\ HeadsFormALine /\ OpenProposalsAreCurrent /\ StaleHeadsAreProposed
      /\ VersionsHeld /\ DraftsAreNumbered
  BY DEF SeriesInv
<1>2. /\ draft[d] = None
      /\ draft' = [draft EXCEPT ![d] = row]
      /\ UNCHANGED <<version, head, observed, proposal, ev, graph, changes>>
  BY DEF StoreDraft
<1>3. \A q \in Series : Of(q) \in SUBSET Drafts /\ Cardinality(Of(q)) \in Nat
  BY DraftsAreFinite DEF Of
<1>4. \A c \in Of(s) : draft[c].ordinal \in Nat
  BY <1>1, NullsOfSeries DEF Of, SeriesTypeOK, OrNone, DraftRows
<1>5. Of(s) # {} => Latest(s) \in Of(s)
  <2>1. SUFFICES ASSUME Of(s) # {}
                 PROVE  \E c \in Of(s) : \A b \in Of(s) : draft[b].ordinal <= draft[c].ordinal
    BY DEF Latest
  <2> QED
    BY <2>1, <1>1, <1>3 DEF DraftsAreNumbered
<1>6. row \in DraftRows
  <2>1. Ordinal(s) + 1 \in Nat
    BY <1>3 DEF Ordinal
  <2>2. head[s] \in OrNone(Drafts)
    BY <1>1 DEF SeriesTypeOK
  <2>3. row.parent \in OrNone(Drafts)
    BY <1>3, <1>5 DEF OrNone
  <2> QED
    BY <2>1, <2>2, <2>3 DEF DraftRows, Statuses
<1>7. row # None /\ row.series = s /\ row.ordinal = Cardinality(Of(s)) + 1
  BY <1>6, NullsOfSeries DEF Ordinal
<1> HIDE DEF row
<1>8. SeriesTypeOK'
  BY <1>1, <1>2, <1>6 DEF SeriesTypeOK, OrNone
<1>9. draft'[d] = row /\ \A c \in Drafts : c # d => draft'[c] = draft[c]
  BY <1>1, <1>2 DEF SeriesTypeOK
<1>10. Accepted' = Accepted /\ d \notin Accepted /\ Accepted \subseteq Drafts
       /\ \A c \in Accepted : draft'[c] = draft[c]
  BY <1>1, <1>2, <1>9 DEF Accepted, VersionsHeld
<1>11. HeadsFormALine'
  <2> SUFFICES ASSUME NEW q \in Series PROVE HeadIsLast(q)' /\ Linked(q)'
    BY LinesOneByOne
  <2>1. Line(q)' = Line(q) /\ \A c \in Line(q) : draft'[c] = draft[c]
    BY <1>10 DEF Line
  <2>2. HeadIsLast(q) /\ Linked(q)
    BY <1>1, LinesOneByOne
  <2>3. HeadIsLast(q)'
    BY <1>2, <2>1, <2>2 DEF HeadIsLast
  <2>4. Linked(q)'
    BY <1>2, <2>1, <2>2 DEF Linked
  <2> QED
    BY <2>3, <2>4
<1>12. OpenProposalsAreCurrent'
  BY <1>1, <1>2, <1>10 DEF OpenProposalsAreCurrent, VersionsHeld, IsStale, Finding
<1>13. StaleHeadsAreProposed'
  BY <1>1, <1>2, <1>10 DEF StaleHeadsAreProposed, VersionsHeld, IsStale, Finding, HeadsFormALine
<1>14. VersionsHeld'
  BY <1>1, <1>2, <1>10, <1>9 DEF VersionsHeld
<1>15. d \notin Of(s) /\ Of(s)' = Of(s) \union {d} /\ \A q \in Series : q # s => Of(q)' = Of(q)
  BY <1>2, <1>7, <1>9 DEF Of
<1>16. Cardinality(Of(s)') = Cardinality(Of(s)) + 1
  BY <1>3, <1>15, OneMoreDraft
<1>17. DraftsAreNumbered'
  <2> SUFFICES ASSUME NEW q \in Series
               PROVE  /\ \A c \in Of(q)' : draft'[c].ordinal <= Cardinality(Of(q)')
                      /\ Of(q)' # {} => \E c \in Of(q)' : draft'[c].ordinal = Cardinality(Of(q)')
    BY DEF DraftsAreNumbered
  <2>1. CASE q = s
    <3>1. \A c \in Of(s) : draft'[c].ordinal <= Cardinality(Of(s)) + 1
      <4>1. \A c \in Of(s) : draft'[c] = draft[c]
        BY <1>9, <1>15, <1>3
      <4> QED
        BY <4>1, <1>1, <1>3, <1>4 DEF DraftsAreNumbered
    <3>2. draft'[d].ordinal = Cardinality(Of(s)) + 1
      BY <1>7, <1>9
    <3>3. \A c \in Of(s)' : draft'[c].ordinal <= Cardinality(Of(s)) + 1
      BY <3>1, <3>2, <1>15, <1>3
    <3> QED
      BY <2>1, <3>2, <3>3, <1>15, <1>16
  <2>2. CASE q # s
    <3>1. Of(q)' = Of(q) /\ \A c \in Of(q) : draft'[c] = draft[c]
      BY <2>2, <1>15, <1>2, <1>9 DEF Of
    <3> QED
      BY <3>1, <1>1 DEF DraftsAreNumbered
  <2> QED
    BY <2>1, <2>2
<1> QED
  BY <1>8, <1>11, <1>12, <1>13, <1>14, <1>17 DEF SeriesInv

\* Only the status of a draft changes: a fact shared by its decisions.
LEMMA StatusOnly ==
    ASSUME SeriesInv, NEW d \in Drafts, NEW status \in Statuses, draft[d] # None,
           draft' = [draft EXCEPT ![d].status = status]
    PROVE  /\ draft' \in [Drafts -> OrNone(DraftRows)]
           /\ \A c \in Drafts : draft'[c] # None <=> draft[c] # None
           /\ \A c \in Drafts : draft[c] # None =>
                 /\ draft'[c].series = draft[c].series /\ draft'[c].packet = draft[c].packet
                 /\ draft'[c].ordinal = draft[c].ordinal /\ draft'[c].previous = draft[c].previous
                 /\ draft'[c].status = IF c = d THEN status ELSE draft[c].status
           /\ DraftsAreNumbered'
<1>1. draft \in [Drafts -> OrNone(DraftRows)] /\ draft[d] \in DraftRows
  BY DEF SeriesInv, SeriesTypeOK, OrNone
<1>2. PICK row \in DraftRows : row = draft[d]
  BY <1>1
<1>3. [row EXCEPT !.status = status] \in DraftRows
  BY <1>2 DEF DraftRows
<1>4. PICK new \in DraftRows : new = [row EXCEPT !.status = status]
  BY <1>3
<1>5. draft' = [draft EXCEPT ![d] = new]
  BY <1>1, <1>2, <1>4
<1>6. new.series = row.series /\ new.packet = row.packet /\ new.ordinal = row.ordinal
      /\ new.previous = row.previous /\ new.status = status /\ new # None /\ row # None
  BY <1>2, <1>4, NullsOfSeries DEF DraftRows
<1>7. draft' \in [Drafts -> OrNone(DraftRows)]
  BY <1>1, <1>5 DEF OrNone
<1>8. \A c \in Drafts : draft'[c] = IF c = d THEN new ELSE draft[c]
  BY <1>1, <1>5
<1>9. \A c \in Drafts : draft'[c] # None <=> draft[c] # None
  BY <1>2, <1>6, <1>8
<1>10. \A c \in Drafts : draft[c] # None =>
                 /\ draft'[c].series = draft[c].series /\ draft'[c].packet = draft[c].packet
                 /\ draft'[c].ordinal = draft[c].ordinal /\ draft'[c].previous = draft[c].previous
                 /\ draft'[c].status = IF c = d THEN status ELSE draft[c].status
  BY <1>2, <1>6, <1>8
<1>11. \A s \in Series : Of(s)' = Of(s)
  BY <1>9, <1>10 DEF Of
<1>12. \A s \in Series : \A c \in Of(s) : draft'[c].ordinal = draft[c].ordinal
  BY <1>10 DEF Of
<1>13. DraftsAreNumbered'
  BY <1>11, <1>12 DEF DraftsAreNumbered, SeriesInv
<1> QED
  BY <1>7, <1>9, <1>10, <1>13

\* A draft that is declined was no version.
LEMMA DeclineKeeps ==
    ASSUME SeriesInv, NEW d \in Drafts, NEW status \in {"rejected", "regeneration-requested"},
           Decline(d, status)
    PROVE  SeriesInv'
<1>1. SeriesTypeOK /\ HeadsFormALine /\ OpenProposalsAreCurrent /\ StaleHeadsAreProposed
      /\ VersionsHeld
  BY DEF SeriesInv
<1>2. /\ draft[d] # None /\ draft[d].status = "pending"
      /\ draft' = [draft EXCEPT ![d].status = status]
      /\ UNCHANGED <<version, head, observed, proposal, ev, graph, changes>>
  BY DEF Decline, Pending
<1>3. /\ draft' \in [Drafts -> OrNone(DraftRows)]
      /\ \A c \in Drafts : draft'[c] # None <=> draft[c] # None
      /\ \A c \in Drafts : draft[c] # None =>
            /\ draft'[c].series = draft[c].series /\ draft'[c].packet = draft[c].packet
            /\ draft'[c].previous = draft[c].previous
            /\ draft'[c].status = IF c = d THEN status ELSE draft[c].status
      /\ DraftsAreNumbered'
  <2>1. status \in Statuses
    BY DEF Statuses
  <2> QED
    BY <1>2, <2>1, StatusOnly
<1>4. SeriesTypeOK'
  BY <1>1, <1>2, <1>3 DEF SeriesTypeOK
<1>5. Accepted' = Accepted /\ Accepted \subseteq Drafts
  BY <1>2 DEF Accepted
<1>6. \A s \in Series : Line(s)' = Line(s)
  BY <1>1, <1>3, <1>5 DEF Line, VersionsHeld
<1>7. \A s \in Series : d \notin Line(s)
  BY <1>1, <1>2 DEF Line, HeadsFormALine
<1>8. HeadsFormALine'
  <2> SUFFICES ASSUME NEW q \in Series PROVE HeadIsLast(q)' /\ Linked(q)'
    BY LinesOneByOne
  <2>1. \A c \in Line(q) :
            c # d /\ draft'[c].status = draft[c].status /\ draft'[c].previous = draft[c].previous
    BY <1>7, <1>3, <1>5, <1>1 DEF Line, VersionsHeld
  <2>2. HeadIsLast(q) /\ Linked(q)
    BY <1>1, LinesOneByOne
  <2>3. HeadIsLast(q)'
    BY <1>2, <1>6, <2>2 DEF HeadIsLast
  <2>4. Linked(q)'
    BY <1>2, <1>6, <2>1, <2>2 DEF Linked
  <2> QED
    BY <2>3, <2>4
<1>9. OpenProposalsAreCurrent'
  BY <1>1, <1>2, <1>3, <1>5 DEF OpenProposalsAreCurrent, VersionsHeld, IsStale, Finding
<1>10. StaleHeadsAreProposed'
  <2>1. \A s \in Series : head[s] # None => head[s] \in Accepted
    BY <1>1 DEF HeadsFormALine
  <2> QED
    BY <1>1, <1>2, <1>3, <1>5, <2>1 DEF StaleHeadsAreProposed, VersionsHeld, IsStale, Finding
<1>11. VersionsHeld'
  BY <1>1, <1>2, <1>3, <1>5 DEF VersionsHeld
<1> QED
  BY <1>3, <1>4, <1>8, <1>9, <1>10, <1>11 DEF SeriesInv

\* A draft is accepted: it follows the head and becomes it.  Nothing was known of it
\* as a version, so no observation and no proposal is about it; the open proposals
\* of its series are gone.
LEMMA AcceptKeeps ==
    ASSUME SeriesInv, NEW d \in Drafts, Accept(d)
    PROVE  SeriesInv'
<1>0. PICK s \in Series : s = draft[d].series
  BY NullsOfSeries DEF Accept, Pending, SeriesInv, SeriesTypeOK, OrNone, DraftRows
<1> DEFINE row == [predecessor |-> head[s],
                   ordinal |-> IF head[s] = None THEN 1 ELSE version[head[s]].ordinal + 1]
<1>1. SeriesTypeOK /\ HeadsFormALine /\ OpenProposalsAreCurrent /\ StaleHeadsAreProposed
      /\ VersionsHeld
  BY DEF SeriesInv
<1>2. /\ draft[d] # None /\ draft[d].status = "pending" /\ draft[d].previous = head[s]
      /\ draft' = [draft EXCEPT ![d].status = "accepted"]
      /\ version' = [version EXCEPT ![d] = row]
      /\ head' = [head EXCEPT ![s] = d]
      /\ proposal' = Superseded(s, d)
      /\ UNCHANGED <<observed, ev, graph, changes>>
  BY <1>0 DEF Accept, Pending, IsCurrentLine, SupersedeOlder
<1>3. /\ draft' \in [Drafts -> OrNone(DraftRows)]
      /\ \A c \in Drafts : draft'[c] # None <=> draft[c] # None
      /\ \A c \in Drafts : draft[c] # None =>
            /\ draft'[c].series = draft[c].series /\ draft'[c].packet = draft[c].packet
            /\ draft'[c].previous = draft[c].previous
            /\ draft'[c].status = IF c = d THEN "accepted" ELSE draft[c].status
      /\ DraftsAreNumbered'
  <2>1. "accepted" \in Statuses
    BY DEF Statuses
  <2> QED
    BY <1>2, <2>1, StatusOnly
<1>4. s \in Series /\ d # None
  BY NullsOfSeries
<1>5. HeadIsLast(s) /\ Linked(s)
  BY <1>1, <1>4, LinesOneByOne
<1>6. head[s] # None => head[s] \in Line(s) /\ head[s] \in Drafts /\ version[head[s]].ordinal \in Nat
  BY <1>1, <1>5 DEF HeadIsLast, Line, Accepted, SeriesTypeOK, OrNone, AcceptedRows
<1>7. row \in AcceptedRows
  BY <1>1, <1>4, <1>6 DEF SeriesTypeOK, OrNone, AcceptedRows
<1>8. row # None /\ row.predecessor = head[s]
      /\ row.ordinal = IF head[s] = None THEN 1 ELSE version[head[s]].ordinal + 1
  BY <1>7, NullsOfSeries
<1> HIDE DEF row
<1>9. d \notin Accepted
  <2>1. d \in Accepted => d \in Line(s)
    BY <1>0 DEF Line
  <2> QED
    BY <2>1, <1>2, <1>5 DEF Linked
<1>10. version'[d] = row /\ \A c \in Drafts : c # d => version'[c] = version[c]
  BY <1>1, <1>2 DEF SeriesTypeOK
<1>11. Accepted' = Accepted \union {d} /\ Accepted \subseteq Drafts
  BY <1>8, <1>10 DEF Accepted
<1>12. head'[s] = d /\ \A q \in Series : q # s => head'[q] = head[q]
  BY <1>1, <1>2, <1>4 DEF SeriesTypeOK
<1>13. Line(s)' = Line(s) \union {d} /\ d \notin Line(s) /\ \A q \in Series : q # s => Line(q)' = Line(q)
  <2>1. \A c \in Accepted \union {d} : draft'[c].series = draft[c].series
    BY <1>1, <1>2, <1>3, <1>11 DEF VersionsHeld
  <2> QED
    BY <1>0, <1>9, <1>11, <2>1 DEF Line
<1>14. Cardinality(Line(s)') = Cardinality(Line(s)) + 1 /\ Cardinality(Line(s)) \in Nat
  <2>1. Line(s) \in SUBSET Drafts
    BY <1>11 DEF Line
  <2> QED
    BY <1>13, <2>1, DraftsAreFinite, OneMoreDraft
<1>15. SeriesTypeOK'
  <2>1. version' \in [Drafts -> OrNone(AcceptedRows)]
    BY <1>1, <1>2, <1>7 DEF SeriesTypeOK, OrNone
  <2>2. head' \in [Series -> OrNone(Drafts)]
    BY <1>1, <1>2 DEF SeriesTypeOK, OrNone
  <2>3. proposal' \subseteq proposal
    BY <1>2 DEF Superseded
  <2> QED
    BY <1>1, <1>2, <1>3, <2>1, <2>2, <2>3 DEF SeriesTypeOK
<1>16. HeadsFormALine'
  <2> SUFFICES ASSUME NEW q \in Series PROVE HeadIsLast(q)' /\ Linked(q)'
    BY LinesOneByOne
  <2>1. HeadIsLast(q) /\ Linked(q)
    BY <1>1, LinesOneByOne
  <2>2. \A c \in Line(q) : /\ c # d /\ c \in Drafts /\ version'[c] = version[c]
                           /\ draft'[c].status = draft[c].status
                           /\ draft'[c].previous = draft[c].previous
    <3>1. \A c \in Line(q) : c \in Accepted /\ c \in Drafts /\ draft[c] # None
      BY <1>1 DEF Line, Accepted, VersionsHeld
    <3> QED
      BY <3>1, <1>3, <1>9, <1>10
  <2>3. CASE q # s
    <3>1. Line(q)' = Line(q) /\ head'[q] = head[q]
      BY <2>3, <1>12, <1>13
    <3>2. HeadIsLast(q)'
      BY <3>1, <2>1, <2>2 DEF HeadIsLast
    <3>3. Linked(q)'
      BY <3>1, <2>1, <2>2 DEF Linked
    <3> QED
      BY <3>2, <3>3
  <2>4. CASE q = s
    <3>1. version'[d].ordinal = Cardinality(Line(s)) + 1
      <4>1. CASE head[s] = None
        <5>1. Line(s) = {}
          BY <1>5, <4>1 DEF HeadIsLast
        <5> QED
          BY <5>1, <4>1, <1>8, <1>10, FS_EmptySet
      <4>2. CASE head[s] # None
        BY <4>2, <1>5, <1>8, <1>10 DEF HeadIsLast
      <4> QED
        BY <4>1, <4>2
    <3>2. HeadIsLast(s)'
      BY <3>1, <1>4, <1>12, <1>13, <1>14 DEF HeadIsLast
    <3>3. \A c \in Line(s) :
              /\ draft'[c].status = "accepted"
              /\ draft'[c].previous = version'[c].predecessor
              /\ IF version'[c].predecessor = None THEN version'[c].ordinal = 1
                 ELSE /\ version'[c].predecessor \in Line(s)'
                      /\ version'[c].ordinal = version'[version'[c].predecessor].ordinal + 1
      BY <2>1, <2>2, <2>4, <1>13 DEF Linked
    <3>4. /\ draft'[d].status = "accepted"
          /\ draft'[d].previous = version'[d].predecessor
          /\ IF version'[d].predecessor = None THEN version'[d].ordinal = 1
             ELSE /\ version'[d].predecessor \in Line(s)'
                  /\ version'[d].ordinal = version'[version'[d].predecessor].ordinal + 1
      <4>1. version'[d].predecessor = head[s] /\ draft'[d].previous = head[s]
            /\ draft'[d].status = "accepted"
        BY <1>2, <1>3, <1>8, <1>10
      <4>2. CASE head[s] = None
        BY <4>1, <4>2, <1>8, <1>10
      <4>3. CASE head[s] # None
        <5>1. head[s] \in Line(s) /\ version'[head[s]] = version[head[s]]
          BY <4>3, <1>6, <2>2, <2>4
        <5> QED
          BY <4>1, <4>3, <5>1, <1>8, <1>10, <1>13
      <4> QED
        BY <4>2, <4>3
    <3>5. Linked(s)'
      BY <3>3, <3>4, <1>13 DEF Linked
    <3> QED
      BY <2>4, <3>2, <3>5
  <2> QED
    BY <2>3, <2>4
<1>17. \A p \in proposal' : p \in proposal /\ p.version \in Accepted /\ p.version \in Drafts
          /\ p.version # d /\ draft[p.version] # None
  BY <1>1, <1>2, <1>9 DEF Superseded, VersionsHeld, Accepted
<1>18. OpenProposalsAreCurrent'
  <2> SUFFICES ASSUME NEW p \in proposal', p.status = "open"
               PROVE  /\ head'[draft'[p.version].series] = p.version
                      /\ observed'[p.version] = p.found
                      /\ IsStale(p.version, p.found)'
    BY DEF OpenProposalsAreCurrent
  <2>1. /\ head[draft[p.version].series] = p.version
        /\ observed[p.version] = p.found
        /\ IsStale(p.version, p.found)
    BY <1>1, <1>17 DEF OpenProposalsAreCurrent
  <2>2. draft[p.version].series # s
    BY <1>2, <1>17 DEF Superseded
  <2>3. draft'[p.version].series = draft[p.version].series /\ draft[p.version].series \in Series
        /\ draft'[p.version].packet = draft[p.version].packet
    BY <1>1, <1>3, <1>17 DEF SeriesTypeOK, OrNone, DraftRows
  <2> QED
    BY <2>1, <2>2, <2>3, <1>2, <1>12 DEF IsStale, Finding
<1>19. StaleHeadsAreProposed'
  <2> SUFFICES ASSUME NEW q \in Series, head'[q] # None, observed'[head'[q]] # None,
                      observed'[head'[q]] # Finding(draft'[head'[q]].packet, TRUE)
               PROVE  \E p \in proposal' : p.version = head'[q] /\ p.found = observed'[head'[q]]
    BY DEF StaleHeadsAreProposed, IsStale, Finding
  <2>1. q # s
    BY <1>1, <1>2, <1>9, <1>12 DEF VersionsHeld
  <2>2. head'[q] = head[q] /\ head[q] \in Line(q) /\ observed' = observed
    <3>1. HeadIsLast(q)
      BY <1>1, LinesOneByOne
    <3> QED
      BY <3>1, <2>1, <1>2, <1>12 DEF HeadIsLast
  <2>3. draft[head[q]].series = q /\ draft'[head[q]].packet = draft[head[q]].packet
    BY <2>2, <1>1, <1>3 DEF Line, Accepted, VersionsHeld
  <2>4. IsStale(head[q], observed[head[q]])
    BY <2>2, <2>3 DEF IsStale, Finding
  <2>5. PICK p \in proposal : p.version = head[q] /\ p.found = observed[head[q]]
    BY <2>2, <2>4, <1>1 DEF StaleHeadsAreProposed
  <2>6. p \in proposal'
    BY <2>5, <2>3, <2>1, <1>2 DEF Superseded
  <2> QED
    BY <2>2, <2>5, <2>6
<1>20. VersionsHeld'
  BY <1>1, <1>2, <1>3, <1>11, <1>17 DEF VersionsHeld
<1> QED
  BY <1>3, <1>15, <1>16, <1>18, <1>19, <1>20 DEF SeriesInv

\* The line depends on the drafts, the versions and the heads alone.
LEMMA LineUndisturbed ==
    ASSUME HeadsFormALine, UNCHANGED <<draft, version, head>>
    PROVE  HeadsFormALine'
<1> SUFFICES ASSUME NEW s \in Series PROVE HeadIsLast(s)' /\ Linked(s)'
  BY LinesOneByOne
<1>1. Line(s)' = Line(s)
  BY DEF Line, Accepted
<1>2. HeadIsLast(s) /\ Linked(s)
  BY LinesOneByOne
<1>3. HeadIsLast(s)'
  BY <1>1, <1>2 DEF HeadIsLast
<1>4. Linked(s)'
  BY <1>1, <1>2 DEF Linked
<1> QED
  BY <1>3, <1>4

\* What an evaluation does to its local variables, and a change of the graph, leave the
\* tables alone.
LEMMA RowsAloneKeep ==
    ASSUME SeriesInv, SeriesTypeOK', UNCHANGED rows,
           \A e \in Evaluators : ev'[e] # Resting => ev'[e].version \in Accepted
    PROVE  SeriesInv'
<1>1. UNCHANGED <<draft, version, head, observed, proposal>>
  BY DEF rows
<1>2. HeadsFormALine'
  BY <1>1, LineUndisturbed DEF SeriesInv
<1>3. OpenProposalsAreCurrent' /\ StaleHeadsAreProposed'
  BY <1>1 DEF SeriesInv, OpenProposalsAreCurrent, StaleHeadsAreProposed, IsStale, Finding
<1>4. VersionsHeld'
  BY <1>1 DEF SeriesInv, VersionsHeld, Accepted
<1>5. DraftsAreNumbered'
  BY <1>1 DEF SeriesInv, DraftsAreNumbered, Of
<1> QED
  BY <1>2, <1>3, <1>4, <1>5 DEF SeriesInv

\* An evaluation that begins holds the head, and keeps it.
LEMMA EvaluationKeeps ==
    ASSUME SeriesInv, NEW e \in Evaluators,
           (\E s \in Series : BeginEvaluation(e, s)) \/ Repeat(e) \/ LoadFails(e)
    PROVE  SeriesInv'
<1> USE DEF SeriesInv
<1>1. UNCHANGED rows /\ UNCHANGED graph /\ changes' \in 0 .. MaxChanges
  <2>1. UNCHANGED rows /\ UNCHANGED graph /\ (UNCHANGED changes \/ Change)
    BY DEF BeginEvaluation, Repeat, LoadFails
  <2> QED
    BY <2>1, SeriesConstants DEF Change, SeriesTypeOK
<1>2. \E local \in [pc: {"repeat", "store"}, version: Accepted, found: Findings] :
          ev' = [ev EXCEPT ![e] = local]
  <2>1. CASE \E s \in Series : BeginEvaluation(e, s)
    <3> PICK s \in Series : BeginEvaluation(e, s)
      BY <2>1
    <3>1. head[s] \in Accepted
      BY DEF BeginEvaluation, HeadsFormALine
    <3>2. [pc |-> "repeat", version |-> head[s], found |-> Finding(graph, TRUE)]
              \in [pc: {"repeat", "store"}, version: Accepted, found: Findings]
      BY <3>1 DEF Finding, Findings, SeriesTypeOK
    <3> QED
      BY <3>2 DEF BeginEvaluation, Goto
  <2>2. CASE Repeat(e) \/ LoadFails(e)
    <3>1. ev[e] # Resting
      BY <2>2 DEF Repeat, LoadFails, Resting
    <3>2. PICK local \in [pc: {"repeat", "store"}, version: Accepted, found: Findings] : local = ev[e]
      BY <3>1 DEF SeriesTypeOK, VersionsHeld
    <3>3. PICK ok \in BOOLEAN : ev' = [ev EXCEPT ![e] = [local EXCEPT !.pc = "store", !.found.loaded = ok]]
      BY <2>2, <3>2 DEF Repeat, LoadFails, Goto
    <3>4. [local EXCEPT !.pc = "store", !.found.loaded = ok]
              \in [pc: {"repeat", "store"}, version: Accepted, found: Findings]
      BY <3>2 DEF Findings
    <3> QED
      BY <3>3, <3>4
  <2> QED
    BY <2>1, <2>2
<1>3. PICK local \in [pc: {"repeat", "store"}, version: Accepted, found: Findings] :
          ev' = [ev EXCEPT ![e] = local]
  BY <1>2
<1>4. SeriesTypeOK'
  BY <1>1, <1>3 DEF SeriesTypeOK, rows, Accepted
<1>5. \A f \in Evaluators : ev'[f] # Resting => ev'[f].version \in Accepted
  BY <1>3 DEF SeriesTypeOK, VersionsHeld
<1> QED
  BY <1>1, <1>4, <1>5, RowsAloneKeep

LEMMA GraphChangeKeeps ==
    ASSUME SeriesInv, NEW p \in Packets, GraphChanges(p)
    PROVE  SeriesInv'
<1>1. UNCHANGED <<rows, ev>> /\ graph' = p /\ changes' \in 0 .. MaxChanges
  BY SeriesConstants DEF GraphChanges, Change, SeriesInv, SeriesTypeOK
<1>2. SeriesTypeOK'
  BY <1>1 DEF SeriesInv, SeriesTypeOK, rows
<1> QED
  BY <1>1, <1>2, RowsAloneKeep DEF SeriesInv, VersionsHeld

\* An evaluation is stored: only if its version still is the head does it move the
\* observation, and then the proposals move with it.
LEMMA StoreEvaluationKeeps ==
    ASSUME SeriesInv, NEW e \in Evaluators, StoreEvaluation(e)
    PROVE  SeriesInv'
<1>1. SeriesTypeOK /\ HeadsFormALine /\ OpenProposalsAreCurrent /\ StaleHeadsAreProposed
      /\ VersionsHeld /\ DraftsAreNumbered
  BY DEF SeriesInv
<1>2. ev[e].pc = "store" /\ ev' = [ev EXCEPT ![e] = Resting]
      /\ UNCHANGED <<draft, version, head, graph, changes>>
  BY DEF StoreEvaluation, Goto
<1>3. PICK d \in Accepted : d = ev[e].version
  BY <1>1, <1>2 DEF VersionsHeld, Resting
<1>4. d \in Drafts /\ draft[d] # None
  BY <1>1 DEF Accepted, VersionsHeld
<1>5. PICK s \in Series : s = draft[d].series
  BY <1>1, <1>4 DEF SeriesTypeOK, OrNone, DraftRows
<1>6. PICK found \in Findings : found = ev[e].found
  BY <1>1, <1>2 DEF SeriesTypeOK, Resting
<1>7. \/ UNCHANGED <<observed, proposal>>
      \/ head[s] = d /\ UNCHANGED observed /\ proposal' = Superseded(s, d)
      \/ /\ head[s] = d
         /\ observed' = [observed EXCEPT ![d] = found]
         /\ proposal' = Propose(d, found, Superseded(s, d))
  BY <1>3, <1>5, <1>6 DEF StoreEvaluation, HeadIsSame
<1>8. ev' \in [Evaluators -> {Resting} \union
                 [pc: {"repeat", "store"}, version: Drafts, found: Findings]]
  BY <1>1, <1>2 DEF SeriesTypeOK
<1>9. \A f \in Evaluators : ev'[f] # Resting => ev'[f].version \in Accepted
  BY <1>1, <1>2 DEF SeriesTypeOK, VersionsHeld
<1>10. CASE UNCHANGED <<observed, proposal>>
  <2>1. SeriesTypeOK'
    BY <1>1, <1>2, <1>8, <1>10 DEF SeriesTypeOK
  <2> QED
    BY <2>1, <1>2, <1>9, <1>10, RowsAloneKeep DEF rows
<1>11. CASE head[s] = d /\ proposal' \subseteq proposal \union {[version |-> d, found |-> found, status |-> "open"]}
            /\ \/ (UNCHANGED observed /\ proposal' = Superseded(s, d))
               \/ (/\ observed' = [observed EXCEPT ![d] = found]
                   /\ proposal' = Propose(d, found, Superseded(s, d)))
  <2>1. [version |-> d, found |-> found, status |-> "open"]
            \in [version: Drafts, found: Findings,
                 status: {"open", "dismissed", "regeneration-requested"}]
    BY <1>4
  <2>2. observed' \in [Drafts -> OrNone(Findings)] /\ \A c \in Drafts : c # d => observed'[c] = observed[c]
    BY <1>1, <1>4, <1>11 DEF SeriesTypeOK, OrNone
  <2>3. SeriesTypeOK'
    BY <1>1, <1>2, <1>8, <1>11, <2>1, <2>2 DEF SeriesTypeOK
  <2>4. HeadsFormALine'
    BY <1>1, <1>2, LineUndisturbed
  <2>5. DraftsAreNumbered'
    BY <1>1, <1>2 DEF DraftsAreNumbered, Of
  <2>6. VersionsHeld'
    <3>1. Accepted' = Accepted
      BY <1>2 DEF Accepted
    <3>2. \A p \in proposal' : p.version \in Accepted
      BY <1>1, <1>11 DEF VersionsHeld
    <3>3. \A c \in Drafts : observed'[c] # None => c \in Accepted
      BY <1>1, <2>2 DEF VersionsHeld
    <3> QED
      BY <1>1, <1>2, <1>9, <3>1, <3>2, <3>3 DEF VersionsHeld
  <2>7. \A p \in proposal : p.version \in Drafts
    BY <1>1 DEF SeriesTypeOK
  <2>8. OpenProposalsAreCurrent'
    <3> SUFFICES ASSUME NEW p \in proposal', p.status = "open"
                 PROVE  /\ head[draft[p.version].series] = p.version
                        /\ observed'[p.version] = p.found
                        /\ p.found # Finding(draft[p.version].packet, TRUE)
      BY <1>2 DEF OpenProposalsAreCurrent, IsStale, Finding
    <3>1. CASE p \in proposal /\ p.version # d
      BY <1>1, <2>2, <2>7, <3>1 DEF OpenProposalsAreCurrent, IsStale
    <3>2. CASE UNCHANGED observed /\ proposal' = Superseded(s, d)
      BY <1>1, <3>2 DEF OpenProposalsAreCurrent, IsStale, Superseded
    <3>3. CASE /\ observed' = [observed EXCEPT ![d] = found]
               /\ proposal' = Propose(d, found, Superseded(s, d))
               /\ ~(p \in proposal /\ p.version # d)
      <4>1. p = [version |-> d, found |-> found, status |-> "open"] /\ IsStale(d, found)
        BY <3>3 DEF Propose, Superseded
      <4>2. observed'[d] = found
        BY <1>1, <1>4, <3>3 DEF SeriesTypeOK
      <4> QED
        BY <4>1, <4>2, <1>5, <1>11 DEF IsStale
    <3> QED
      BY <1>11, <3>1, <3>2, <3>3
  <2>9. StaleHeadsAreProposed'
    <3> SUFFICES ASSUME NEW q \in Series, head[q] # None, observed'[head[q]] # None,
                        observed'[head[q]] # Finding(draft[head[q]].packet, TRUE)
                 PROVE  \E p \in proposal' : p.version = head[q] /\ p.found = observed'[head[q]]
      BY <1>2 DEF StaleHeadsAreProposed, IsStale, Finding
    <3>1. head[q] \in Drafts /\ draft[head[q]].series = q
      BY <1>1 DEF HeadsFormALine, Accepted
    <3>2. CASE observed'[head[q]] = observed[head[q]] /\ (q # s \/ proposal' = Superseded(s, d))
      <4>1. PICK p \in proposal : p.version = head[q] /\ p.found = observed[head[q]]
        BY <1>1, <3>2 DEF StaleHeadsAreProposed, IsStale
      <4>2. p \in Superseded(s, d)
        BY <1>11, <3>1, <3>2, <4>1 DEF Superseded
      <4>3. p \in proposal'
        BY <1>5, <1>11, <3>1, <3>2, <4>1, <4>2 DEF Propose
      <4> QED
        BY <3>2, <4>1, <4>3
    <3>3. CASE q = s /\ observed' = [observed EXCEPT ![d] = found]
               /\ proposal' = Propose(d, found, Superseded(s, d))
      <4>1. head[q] = d /\ observed'[d] = found
        BY <1>1, <1>4, <1>11, <3>3 DEF SeriesTypeOK
      <4>2. [version |-> d, found |-> found, status |-> "open"] \in proposal'
        BY <3>3, <4>1 DEF Propose, IsStale
      <4> QED
        BY <4>1, <4>2
    <3>4. q # s => head[q] # d
      BY <1>5, <3>1
    <3> QED
      BY <1>11, <2>2, <3>1, <3>2, <3>3, <3>4
  <2> QED
    BY <2>3, <2>4, <2>5, <2>6, <2>8, <2>9 DEF SeriesInv
<1>12. Superseded(s, d) \subseteq proposal
       /\ Propose(d, found, Superseded(s, d))
             \subseteq proposal \union {[version |-> d, found |-> found, status |-> "open"]}
  BY DEF Superseded, Propose
<1> QED
  BY <1>7, <1>10, <1>11, <1>12

\* A proposal that an editor decides still is about its version and observation.
LEMMA DecideKeeps ==
    ASSUME SeriesInv, NEW p \in proposal, NEW status \in {"dismissed", "regeneration-requested"},
           Decide(p, status)
    PROVE  SeriesInv'
<1>1. SeriesTypeOK /\ HeadsFormALine /\ OpenProposalsAreCurrent /\ StaleHeadsAreProposed
      /\ VersionsHeld /\ DraftsAreNumbered
  BY DEF SeriesInv
<1>2. PICK row : row = [p EXCEPT !.status = status]
  OBVIOUS
<1>3. /\ proposal' = (proposal \ {p}) \union {row}
      /\ UNCHANGED <<draft, version, head, observed, ev, graph, changes>>
  BY <1>2 DEF Decide
<1>4. row \in [version: Drafts, found: Findings, status: {"open", "dismissed", "regeneration-requested"}]
      /\ row.version = p.version /\ row.found = p.found /\ row.status # "open"
  BY <1>1, <1>2 DEF SeriesTypeOK
<1>5. SeriesTypeOK'
  BY <1>1, <1>3, <1>4 DEF SeriesTypeOK
<1>6. HeadsFormALine' /\ DraftsAreNumbered'
  BY <1>1, <1>3, LineUndisturbed DEF DraftsAreNumbered, Of
<1>7. VersionsHeld'
  BY <1>1, <1>3, <1>4 DEF VersionsHeld, Accepted
<1>8. OpenProposalsAreCurrent'
  BY <1>1, <1>3, <1>4 DEF OpenProposalsAreCurrent, IsStale, Finding
<1>9. StaleHeadsAreProposed'
  BY <1>1, <1>3, <1>4 DEF StaleHeadsAreProposed, IsStale, Finding
<1> QED
  BY <1>5, <1>6, <1>7, <1>8, <1>9 DEF SeriesInv

LEMMA SeriesSteps == SeriesInv /\ [SeriesNext]_seriesVars => SeriesInv'
<1> SUFFICES ASSUME SeriesInv, [SeriesNext]_seriesVars PROVE SeriesInv'
  OBVIOUS
<1>1. CASE UNCHANGED seriesVars
  <2>1. SeriesTypeOK' /\ UNCHANGED rows /\ UNCHANGED ev
    BY <1>1 DEF SeriesInv, SeriesTypeOK, seriesVars, rows
  <2> QED
    BY <2>1, RowsAloneKeep DEF SeriesInv, VersionsHeld
<1>2. CASE \E d \in Drafts : \E s \in Series, p \in Packets : StoreDraft(d, s, p)
  BY <1>2, StoreDraftKeeps
<1>3. CASE \E d \in Drafts : \E status \in {"rejected", "regeneration-requested"} : Decline(d, status)
  BY <1>3, DeclineKeeps
<1>4. CASE \E d \in Drafts : Accept(d)
  BY <1>4, AcceptKeeps
<1>5. CASE \E p \in Packets : GraphChanges(p)
  BY <1>5, GraphChangeKeeps
<1>6. CASE \E e \in Evaluators : (\E s \in Series : BeginEvaluation(e, s)) \/ Repeat(e) \/ LoadFails(e)
  BY <1>6, EvaluationKeeps
<1>7. CASE \E e \in Evaluators : StoreEvaluation(e)
  BY <1>7, StoreEvaluationKeeps
<1>8. CASE \E p \in proposal, status \in {"dismissed", "regeneration-requested"} : Decide(p, status)
  BY <1>8, DecideKeeps
<1> QED
  BY <1>1, <1>2, <1>3, <1>4, <1>5, <1>6, <1>7, <1>8 DEF SeriesNext

LEMMA SeriesInvariant == SeriesSpec => []SeriesInv
BY SeriesStarts, SeriesSteps, PTL DEF SeriesSpec

\* Whatever the number of series, drafts and evaluations: the accepted versions of a
\* series are one line ending in its head (decideSynthesisDraft).
THEOREM SeriesLine == SeriesSpec => []LineIsSound
<1>1. SeriesInv => LineIsSound
  BY DEF SeriesInv, LineIsSound
<1> QED
  BY <1>1, SeriesInvariant, PTL

\* An open proposal is about the head as it is observed now, and a head observed as
\* stale has a proposal (evaluateSynthesisHead, decideSynthesisRegenerationProposal).
THEOREM Proposals == SeriesSpec => []ProposalsFollowTheHead
<1>1. SeriesInv => ProposalsFollowTheHead
  BY DEF SeriesInv, ProposalsFollowTheHead
<1> QED
  BY <1>1, SeriesInvariant, PTL

-----------------------------------------------------------------------------
(* The archive *)

\* What a handler read, by its locals: a capture; claims that exist; a row that has
\* left the unregistered state, with a triage that covers its claims.
HandlerHolds(l) ==
    /\ l.pc = "submission" => l.capture \in Captures
    /\ l.pc = "draft" => l.brief \in Briefs /\ l.claims \subseteq AllVersions
    /\ l.pc = "publish" =>
          /\ l.brief \in Briefs /\ Status(l.brief) # "none"
          /\ briefs[l.brief].claims \subseteq l.triage /\ l.triage \subseteq AllVersions

HandlersHold == \A h \in Handlers : HandlerHolds(req[h])

\* Event m of review r withholds version n.
Closes(r, m, n) == events[r][m].version = n /\ events[r][m].kind # "correction"

\* The ledger of one review, event by event.
ClosedOnce(r) ==
    \A n \in DOMAIN versions[r] :
        /\ versions[r][n].state = "published" <=> \A m \in DOMAIN events[r] : ~Closes(r, m, n)
        /\ \A m \in DOMAIN events[r] : Closes(r, m, n) =>
              /\ versions[r][n].state = StateAfter(events[r][m].kind)
              /\ \A k \in DOMAIN events[r] : events[r][k].version = n => k <= m

CorrectedInTime(r) ==
    \A k \in DOMAIN events[r] : events[r][k].kind = "correction" =>
        /\ events[r][k].supersedes < events[r][k].version
        /\ \A m \in DOMAIN events[r] :
              Closes(r, m, events[r][k].supersedes) /\ events[r][m].kind = "tombstone" => k < m

ArchiveInv ==
    /\ CurrentIsNewest
    /\ CapturesAreSpentOnce
    /\ \A r \in Reviews : ClosedOnce(r) /\ CorrectedInTime(r)
    /\ AcknowledgedEventsStand
    /\ HandlersHold

\* StateFollowsLedger, in these terms.
LEMMA LedgerOneByOne ==
    StateFollowsLedger <=> \A r \in Reviews : ClosedOnce(r) /\ CorrectedInTime(r)
BY DEF StateFollowsLedger, ClosedOnce, CorrectedInTime, Closes

\* Sequences as functions.
LEMMA Rows ==
    ASSUME NEW S, NEW seq \in Seq(S)
    PROVE  /\ Len(seq) \in Nat /\ DOMAIN seq = 1 .. Len(seq)
           /\ \A n \in DOMAIN seq : seq[n] \in S /\ n \in Nat /\ n # 0 /\ n <= Len(seq)
<1>1. Len(seq) \in Nat /\ DOMAIN seq = 1 .. Len(seq)
  BY LenProperties
<1> QED
  BY <1>1, ElementOfSeq

LEMMA OneMoreRow ==
    ASSUME NEW S, NEW seq \in Seq(S), NEW elt \in S, NEW new, new = Append(seq, elt)
    PROVE  /\ new \in Seq(S) /\ Len(new) = Len(seq) + 1
           /\ DOMAIN new = DOMAIN seq \union {Len(new)} /\ Len(new) \notin DOMAIN seq
           /\ DOMAIN new = 1 .. Len(new) /\ new # <<>>
           /\ \A n \in DOMAIN seq : new[n] = seq[n]
           /\ new[Len(new)] = elt
<1>1. new \in Seq(S) /\ Len(new) = Len(seq) + 1 /\ new # <<>> /\ new[Len(new)] = elt
      /\ \A n \in 1 .. Len(seq) : new[n] = seq[n]
  BY AppendProperties
<1>2. Len(seq) \in Nat /\ DOMAIN seq = 1 .. Len(seq) /\ DOMAIN new = 1 .. Len(new)
  BY <1>1, LenProperties
<1> QED
  BY <1>1, <1>2

LEMMA OneRowChanged ==
    ASSUME NEW S, NEW seq \in Seq(S), NEW i \in DOMAIN seq, NEW elt \in S,
           NEW new, new = [seq EXCEPT ![i] = elt]
    PROVE  /\ new \in Seq(S) /\ Len(new) = Len(seq) /\ DOMAIN new = DOMAIN seq
           /\ \A n \in DOMAIN seq : new[n] = IF n = i THEN elt ELSE seq[n]
<1>1. i \in 1 .. Len(seq) /\ DOMAIN seq = 1 .. Len(seq)
  BY LenProperties
<1> QED
  BY <1>1, ExceptSeq, LenProperties

\* The types of what the archive holds.
LEMMA ArchiveTypes ==
    ASSUME TypeOK
    PROVE  /\ \A i \in DOMAIN submissions : submissions[i] \in SubmissionRows
              /\ submissions[i].capture \in Captures
           /\ \A r \in Reviews : versions[r] \in Seq(VersionRows) /\ events[r] \in Seq(EventRows)
           /\ \A r \in Reviews : \A n \in DOMAIN versions[r] :
                 /\ versions[r][n] \in VersionRows /\ versions[r][n].submission \in DOMAIN submissions
                 /\ n \in Nat
           /\ \A r \in Reviews : \A n \in DOMAIN events[r] :
                 /\ events[r][n] \in EventRows /\ events[r][n].version \in DOMAIN versions[r]
                 /\ n \in Nat /\ n <= Len(events[r]) /\ events[r][n].version \in Nat
           /\ \A b \in Briefs : briefs[b] # Nothing => briefs[b] \in BriefRows
<1>1. \A i \in DOMAIN submissions : submissions[i] \in SubmissionRows
  BY Rows DEF TypeOK
<1>2. \A r \in Reviews : versions[r] \in Seq(VersionRows) /\ events[r] \in Seq(EventRows)
  BY DEF TypeOK
<1>3. \A r \in Reviews : \A n \in DOMAIN versions[r] :
          /\ versions[r][n] \in VersionRows /\ versions[r][n].submission \in DOMAIN submissions
          /\ n \in Nat
  BY <1>2, Rows DEF TypeOK
<1>4. \A r \in Reviews : \A n \in DOMAIN events[r] :
          events[r][n] \in EventRows /\ n \in Nat /\ n <= Len(events[r])
  BY <1>2, Rows
<1>5. \A r \in Reviews : \A n \in DOMAIN events[r] : events[r][n].version \in DOMAIN versions[r]
  BY DEF TypeOK, Mutations
<1> QED
  BY <1>1, <1>2, <1>3, <1>4, <1>5 DEF TypeOK, SubmissionRows, EventRows

\* The archive starts empty.
LEMMA ArchiveStarts == Init => ArchiveInv
<1> SUFFICES ASSUME Init PROVE ArchiveInv
  OBVIOUS
<1> USE DEF Init
<1>1. <<>> \in Seq(SubmissionRows) /\ <<>> \in Seq(VersionRows) /\ <<>> \in Seq(EventRows)
  BY EmptySeq
<1>2. DOMAIN <<>> = {}
  OBVIOUS
<1>3. TypeOK
  BY <1>1, <1>2 DEF TypeOK
<1>4. CurrentIsNewest
  BY <1>2, <1>3 DEF CurrentIsNewest
<1>5. CapturesAreSpentOnce
  BY <1>2 DEF CapturesAreSpentOnce
<1>6. \A r \in Reviews : ClosedOnce(r) /\ CorrectedInTime(r)
  BY <1>2 DEF ClosedOnce, CorrectedInTime
<1>7. AcknowledgedEventsStand /\ HandlersHold
  BY DEF AcknowledgedEventsStand, HandlersHold, HandlerHolds, Idle
<1> QED
  BY <1>4, <1>5, <1>6, <1>7 DEF ArchiveInv

\* What is true of reviews and submissions while none of them moves.
ReviewsHold ==
    /\ \A r \in Reviews : current[r] =
          IF versions[r] = <<>> THEN Nothing ELSE versions[r][Len(versions[r])].commit
    /\ \A r, s \in Reviews : \A m \in DOMAIN versions[r], n \in DOMAIN versions[s] :
          /\ submissions[versions[r][m].submission].status = "accepted"
          /\ versions[r][m].submission = versions[s][n].submission => <<r, m>> = <<s, n>>
    /\ CapturesAreSpentOnce
    /\ \A r \in Reviews : ClosedOnce(r) /\ CorrectedInTime(r)
    /\ AcknowledgedEventsStand

LEMMA ArchiveInvIs ==
    /\ ArchiveInv <=> TypeOK /\ ReviewsHold /\ HandlersHold
    /\ ArchiveInv' <=> TypeOK' /\ ReviewsHold' /\ HandlersHold'
BY DEF ArchiveInv, ReviewsHold, CurrentIsNewest

LEMMA ReviewsStay == ReviewsHold /\ UNCHANGED <<submissions, reviews>> => ReviewsHold'
<1> SUFFICES ASSUME ReviewsHold, UNCHANGED <<submissions, reviews>> PROVE ReviewsHold'
  OBVIOUS
<1> USE DEF ReviewsHold, reviews
<1>1. CapturesAreSpentOnce' /\ AcknowledgedEventsStand'
  BY DEF CapturesAreSpentOnce, AcknowledgedEventsStand
<1>2. \A r \in Reviews : ClosedOnce(r)' /\ CorrectedInTime(r)'
  BY DEF ClosedOnce, CorrectedInTime, Closes
<1> QED
  BY <1>1, <1>2

\* What a handler holds stays, while the versions grow and the briefs keep their claims.
LEMMA HandlerStays ==
    ASSUME NEW l, HandlerHolds(l), AllVersions \subseteq AllVersions',
           \A b \in Briefs : Status(b) # "none" =>
               Status(b)' # "none" /\ briefs'[b].claims = briefs[b].claims
    PROVE  HandlerHolds(l)'
BY DEF HandlerHolds

\* One handler takes a step that writes nothing but its locals.
LEMMA LocalStep ==
    ASSUME ArchiveInv, UNCHANGED <<intake, reviews, briefs>>, NEW h \in Handlers, NEW l,
           HandlerHolds(l), req' = [req EXCEPT ![h] = l]
    PROVE  ArchiveInv'
<1>1. TypeOK /\ ReviewsHold /\ HandlersHold
  BY ArchiveInvIs
<1>2. UNCHANGED <<captures, submissions, versions, current, events, told, briefs>>
  BY DEF intake, reviews
<1>3. TypeOK'
  BY <1>1, <1>2 DEF TypeOK, Mutations, AllVersions
<1>4. ReviewsHold'
  BY <1>1, <1>2, ReviewsStay DEF reviews
<1>5. HandlersHold'
  <2> SUFFICES ASSUME NEW g \in Handlers PROVE HandlerHolds(req[g])'
    BY DEF HandlersHold
  <2>1. PICK k : k = req'[g]
    OBVIOUS
  <2>2. HandlerHolds(k)
    BY <2>1, <1>1 DEF HandlersHold, TypeOK
  <2>3. HandlerHolds(k)'
    BY <1>2, <2>2 DEF HandlerHolds, AllVersions, Status
  <2> QED
    BY <2>1, <2>3 DEF HandlerHolds
<1> QED
  BY <1>3, <1>4, <1>5, ArchiveInvIs

\* Handlers that go on, or end, while the archive moves.
LEMMA HandlersStay ==
    ASSUME TypeOK, HandlersHold, AllVersions \subseteq AllVersions',
           \A b \in Briefs : Status(b) # "none" =>
               Status(b)' # "none" /\ briefs'[b].claims = briefs[b].claims,
           UNCHANGED req \/ \E h \in Handlers : Finish(h)
    PROVE  HandlersHold' /\ DOMAIN req' = Handlers
<1>1. DOMAIN req' = Handlers /\ \A g \in Handlers : req'[g] \in {req[g], Idle}
  BY DEF Finish, TypeOK
<1>2. HandlersHold'
  <2> SUFFICES ASSUME NEW g \in Handlers PROVE HandlerHolds(req[g])'
    BY DEF HandlersHold
  <2>1. PICK k : k = req'[g]
    OBVIOUS
  <2>2. HandlerHolds(k)
    BY <1>1, <2>1 DEF HandlersHold, HandlerHolds, Idle
  <2>3. HandlerHolds(k)'
    BY <2>2, HandlerStays
  <2> QED
    BY <2>1, <2>3 DEF HandlerHolds
<1> QED
  BY <1>1, <1>2

\* Briefs that stay as they are.
LEMMA BriefsStay ==
    ASSUME TypeOK, UNCHANGED briefs, AllVersions \subseteq AllVersions'
    PROVE  /\ briefs' \in [Briefs -> BriefRows \union {Nothing}]
           /\ \A b \in Briefs : briefs'[b] # Nothing =>
                 /\ briefs'[b].claims \subseteq AllVersions'
                 /\ briefs'[b].triage \in (SUBSET AllVersions') \union {Nothing}
           /\ \A b \in Briefs : Status(b) # "none" =>
                 Status(b)' # "none" /\ briefs'[b].claims = briefs[b].claims
BY DEF TypeOK, Status

\* A capture is made, or expires.
LEMMA CaptureStep ==
    ASSUME ArchiveInv, NEW c \in Captures, CreateInspectionCapture(c) \/ ExpireCapture(c)
    PROVE  ArchiveInv'
<1>1. TypeOK /\ ReviewsHold /\ HandlersHold
  BY ArchiveInvIs
<1>2. UNCHANGED <<submissions, reviews, briefs, req>>
      /\ captures' \in [Captures -> {"absent", "live", "expired"}]
  BY <1>1 DEF CreateInspectionCapture, ExpireCapture, TypeOK
<1>3. UNCHANGED <<versions, current, events, told>>
  BY <1>2 DEF reviews
<1>4. TypeOK'
  BY <1>1, <1>2, <1>3 DEF TypeOK, Mutations, AllVersions
<1>5. AllVersions' = AllVersions
  BY <1>3 DEF AllVersions
<1>6. HandlersHold'
  BY <1>1, <1>2, <1>5, BriefsStay, HandlersStay
<1> QED
  BY <1>1, <1>2, <1>4, <1>6, ReviewsStay, ArchiveInvIs

\* A submission spends its capture: the transaction finds it unspent.
LEMMA PersistSubmissionStep ==
    ASSUME ArchiveInv, NEW h \in Handlers, PersistSubmission(h)
    PROVE  ArchiveInv'
<1>1. TypeOK /\ ReviewsHold /\ HandlersHold
  BY ArchiveInvIs
<1>2. PICK c \in Captures : c = req[h].capture
  BY <1>1 DEF PersistSubmission, HandlersHold, HandlerHolds
<1>3. PICK row : row = [capture |-> c, status |-> "pending"]
  OBVIOUS
<1>4. /\ \A i \in DOMAIN submissions : submissions[i].capture # c
      /\ submissions' = Append(submissions, row)
      /\ Finish(h)
      /\ UNCHANGED <<captures, versions, current, events, told, briefs>>
  BY <1>2, <1>3 DEF PersistSubmission, Usable, Consumed, reviews
<1>5. row \in SubmissionRows /\ row.capture = c
  BY <1>3 DEF SubmissionRows
<1>6. submissions \in Seq(SubmissionRows)
  BY <1>1 DEF TypeOK
<1>7. PICK n : n = Len(submissions')
  OBVIOUS
<1>8. /\ submissions' \in Seq(SubmissionRows)
      /\ DOMAIN submissions' = DOMAIN submissions \union {n} /\ n \notin DOMAIN submissions
      /\ \A i \in DOMAIN submissions : submissions'[i] = submissions[i]
      /\ submissions'[n] = row
  BY <1>4, <1>5, <1>6, <1>7, OneMoreRow
<1>9. AllVersions' = AllVersions
  BY <1>4 DEF AllVersions
<1>10. HandlersHold' /\ DOMAIN req' = Handlers
  BY <1>1, <1>4, <1>9, BriefsStay, HandlersStay
<1>11. TypeOK'
  BY <1>1, <1>4, <1>8, <1>9, <1>10 DEF TypeOK, Mutations
<1>12. ReviewsHold'
  <2>1. \A r \in Reviews : \A m \in DOMAIN versions[r] :
            versions[r][m].submission \in DOMAIN submissions
    BY <1>1, ArchiveTypes
  <2>2. \A r, s \in Reviews : \A m \in DOMAIN versions'[r], k \in DOMAIN versions'[s] :
          /\ submissions'[versions'[r][m].submission].status = "accepted"
          /\ versions'[r][m].submission = versions'[s][k].submission => <<r, m>> = <<s, k>>
    BY <1>1, <1>4, <1>8, <2>1 DEF ReviewsHold
  <2>3. CapturesAreSpentOnce'
    BY <1>1, <1>4, <1>5, <1>8 DEF ReviewsHold, CapturesAreSpentOnce
  <2>4. \A r \in Reviews : ClosedOnce(r)' /\ CorrectedInTime(r)'
    BY <1>1, <1>4 DEF ReviewsHold, ClosedOnce, CorrectedInTime, Closes
  <2>5. AcknowledgedEventsStand'
    BY <1>1, <1>4 DEF ReviewsHold, AcknowledgedEventsStand
  <2>6. \A r \in Reviews : current'[r] =
          IF versions'[r] = <<>> THEN Nothing ELSE versions'[r][Len(versions'[r])].commit
    BY <1>1, <1>4 DEF ReviewsHold
  <2> QED
    BY <2>2, <2>3, <2>4, <2>5, <2>6 DEF ReviewsHold
<1> QED
  BY <1>10, <1>11, <1>12, ArchiveInvIs

\* A submission is published: its review gets a newest version, on which the ledger is
\* silent, since events name versions that exist.
LEMMA MaterializeStep ==
    ASSUME ArchiveInv, NEW i \in DOMAIN submissions, MaterializeReviewPublication(i)
    PROVE  ArchiveInv'
<1>1. TypeOK /\ ReviewsHold /\ HandlersHold
  BY ArchiveInvIs
<1>2. PICK capture \in Captures : capture = submissions[i].capture
  BY <1>1, ArchiveTypes
<1>3. PICK source : source = SourceOf[capture]
  OBVIOUS
<1>4. PICK r \in Reviews : r = source.repository
  BY <1>2, <1>3, ArchiveConstants
<1>5. PICK commit \in Commits : commit = source.commit
  BY <1>2, <1>3 DEF Commits
<1>6. PICK row : row = [commit |-> commit, submission |-> i, state |-> "published"]
  OBVIOUS
<1>7. PICK old \in SubmissionRows : old = submissions[i]
  BY <1>1, ArchiveTypes
<1>8. PICK spent : spent = [old EXCEPT !.status = "accepted"]
  OBVIOUS
<1>9. /\ old.status = "pending"
      /\ submissions' = [submissions EXCEPT ![i] = spent]
      /\ versions' = [versions EXCEPT ![r] = Append(versions[r], row)]
      /\ current' = [current EXCEPT ![r] = commit]
      /\ UNCHANGED <<captures, events, told, briefs, req>>
  <2>1. submissions \in Seq(SubmissionRows)
    BY <1>1 DEF TypeOK
  <2> QED
    BY <2>1, <1>2, <1>3, <1>4, <1>5, <1>6, <1>7, <1>8 DEF MaterializeReviewPublication
<1>10. spent \in SubmissionRows /\ spent.status = "accepted" /\ spent.capture = old.capture
  BY <1>7, <1>8 DEF SubmissionRows
<1>11. /\ submissions' \in Seq(SubmissionRows)
       /\ DOMAIN submissions' = DOMAIN submissions
       /\ \A k \in DOMAIN submissions : submissions'[k] = IF k = i THEN spent ELSE submissions[k]
  <2>1. submissions \in Seq(SubmissionRows)
    BY <1>1 DEF TypeOK
  <2> QED
    BY <2>1, <1>9, <1>10, OneRowChanged
<1>12. i \in Nat
  BY <1>1, Rows DEF TypeOK
<1>13. row \in VersionRows /\ row.submission = i /\ row.state = "published" /\ row.commit = commit
  BY <1>6, <1>12 DEF VersionRows
<1>14. \A q \in Reviews : versions'[q] = IF q = r THEN Append(versions[r], row) ELSE versions[q]
  BY <1>1, <1>9 DEF TypeOK
<1>15. PICK n : n = Len(versions'[r])
  OBVIOUS
<1>16. /\ versions'[r] \in Seq(VersionRows) /\ versions'[r] # <<>>
       /\ DOMAIN versions'[r] = DOMAIN versions[r] \union {n} /\ n \notin DOMAIN versions[r]
       /\ \A m \in DOMAIN versions[r] : versions'[r][m] = versions[r][m]
       /\ versions'[r][n] = row
  <2>1. versions[r] \in Seq(VersionRows) /\ versions'[r] = Append(versions[r], row)
    BY <1>1, <1>14, ArchiveTypes
  <2> QED
    BY <2>1, <1>13, <1>15, OneMoreRow
<1>17. \A q \in Reviews : DOMAIN versions[q] \subseteq DOMAIN versions'[q]
  BY <1>14, <1>16
<1>18. AllVersions \subseteq AllVersions'
  BY <1>17 DEF AllVersions
<1>19. HandlersHold' /\ DOMAIN req' = Handlers
  BY <1>1, <1>9, <1>18, BriefsStay, HandlersStay
<1>20. TypeOK'
  <2>1. versions' \in [Reviews -> Seq(VersionRows)]
    <3>1. \A q \in Reviews : versions'[q] \in Seq(VersionRows)
      BY <1>1, <1>14, <1>16, ArchiveTypes
    <3> QED
      BY <3>1, <1>1, <1>9 DEF TypeOK
  <2>2. \A q \in Reviews : \A m \in DOMAIN versions'[q] :
            versions'[q][m].submission \in DOMAIN submissions'
    BY <1>1, <1>11, <1>13, <1>14, <1>16, ArchiveTypes
  <2>3. current' \in [Reviews -> Commits \union {Nothing}]
    BY <1>1, <1>9 DEF TypeOK
  <2>4. \A q \in Reviews : \A m \in DOMAIN events'[q] : events'[q][m] \in Mutations(q)'
    <3>1. \A q \in Reviews : Mutations(q) \subseteq Mutations(q)'
      BY <1>17 DEF Mutations
    <3> QED
      BY <3>1, <1>1, <1>9 DEF TypeOK
  <2> QED
    BY <1>1, <1>9, <1>11, <1>18, <1>19, <2>1, <2>2, <2>3, <2>4, BriefsStay DEF TypeOK
<1>21. ReviewsHold'
  <2>1. \A q \in Reviews : current'[q] =
          IF versions'[q] = <<>> THEN Nothing ELSE versions'[q][Len(versions'[q])].commit
    BY <1>1, <1>9, <1>13, <1>14, <1>15, <1>16 DEF ReviewsHold, TypeOK
  <2>2. \A q \in Reviews : \A m \in DOMAIN versions[q] :
            versions[q][m].submission \in DOMAIN submissions /\ versions[q][m].submission # i
            /\ submissions[versions[q][m].submission].status = "accepted"
    BY <1>1, <1>7, <1>9, ArchiveTypes DEF ReviewsHold
  <2>3. \A q \in Reviews : \A m \in DOMAIN versions'[q] :
            \/ m \in DOMAIN versions[q] /\ versions'[q][m] = versions[q][m]
            \/ q = r /\ m = n /\ versions'[q][m] = row
    BY <1>14, <1>16
  <2>4. \A q \in Reviews : \A m \in DOMAIN versions'[q] :
            submissions'[versions'[q][m].submission].status = "accepted"
    BY <1>10, <1>11, <1>13, <2>2, <2>3
  <2>5. \A q, s \in Reviews : \A m \in DOMAIN versions'[q], k \in DOMAIN versions'[s] :
            versions'[q][m].submission = versions'[s][k].submission => <<q, m>> = <<s, k>>
    <3> SUFFICES ASSUME NEW q \in Reviews, NEW s \in Reviews,
                        NEW m \in DOMAIN versions'[q], NEW k \in DOMAIN versions'[s],
                        versions'[q][m].submission = versions'[s][k].submission
                 PROVE  q = s /\ m = k
      OBVIOUS
    <3>1. CASE m \in DOMAIN versions[q] /\ versions'[q][m] = versions[q][m]
      BY <3>1, <2>2, <2>3, <1>1, <1>13 DEF ReviewsHold
    <3>2. CASE q = r /\ m = n /\ versions'[q][m] = row
      BY <3>2, <2>2, <2>3, <1>13
    <3> QED
      BY <3>1, <3>2, <2>3
  <2>6. CapturesAreSpentOnce'
    BY <1>1, <1>7, <1>10, <1>11 DEF ReviewsHold, CapturesAreSpentOnce
  <2>7. AcknowledgedEventsStand'
    BY <1>1, <1>9 DEF ReviewsHold, AcknowledgedEventsStand
  <2>8. \A q \in Reviews : ClosedOnce(q)'
    <3> SUFFICES ASSUME NEW q \in Reviews, NEW m \in DOMAIN versions'[q]
                 PROVE  /\ versions'[q][m].state = "published"
                              <=> \A k \in DOMAIN events[q] : ~Closes(q, k, m)
                        /\ \A k \in DOMAIN events[q] : Closes(q, k, m) =>
                              /\ versions'[q][m].state = StateAfter(events[q][k].kind)
                              /\ \A j \in DOMAIN events[q] : events[q][j].version = m => j <= k
      BY <1>9 DEF ClosedOnce, Closes
    <3>1. CASE m \in DOMAIN versions[q] /\ versions'[q][m] = versions[q][m]
      BY <3>1, <1>1 DEF ReviewsHold, ClosedOnce
    <3>2. CASE q = r /\ m = n /\ versions'[q][m] = row
      <4>1. \A k \in DOMAIN events[q] : events[q][k].version # m
        BY <3>2, <1>1, <1>16, ArchiveTypes
      <4> QED
        BY <3>2, <4>1, <1>13 DEF Closes
    <3> QED
      BY <3>1, <3>2, <2>3
  <2>9. \A q \in Reviews : CorrectedInTime(q)'
    BY <1>1, <1>9 DEF ReviewsHold, CorrectedInTime, Closes
  <2> QED
    BY <2>1, <2>4, <2>5, <2>6, <2>7, <2>8, <2>9 DEF ReviewsHold
<1> QED
  BY <1>19, <1>20, <1>21, ArchiveInvIs

\* A repeated lifecycle request is told what was recorded.
LEMMA ReplayStep ==
    ASSUME ArchiveInv, NEW r \in Reviews, NEW revision \in Nat, NEW e, Replay(r, revision, e),
           UNCHANGED <<intake, current, briefs, req>>
    PROVE  ArchiveInv'
<1>1. TypeOK /\ ReviewsHold /\ HandlersHold
  BY ArchiveInvIs
<1>2. /\ revision \in DOMAIN events[r] /\ events[r][revision] = e
      /\ told' = told \union {<<r, revision, e>>}
      /\ UNCHANGED <<captures, submissions, versions, current, events, briefs, req>>
  BY DEF Replay, intake
<1>3. TypeOK'
  BY <1>1, <1>2 DEF TypeOK, Mutations, AllVersions
<1>4. AllVersions' = AllVersions
  BY <1>2 DEF AllVersions
<1>5. HandlersHold'
  BY <1>1, <1>2, <1>4, BriefsStay, HandlersStay
<1>6. AcknowledgedEventsStand'
  BY <1>1, <1>2 DEF ReviewsHold, AcknowledgedEventsStand
<1>7. \A q \in Reviews : ClosedOnce(q)' /\ CorrectedInTime(q)'
  BY <1>1, <1>2 DEF ReviewsHold, ClosedOnce, CorrectedInTime, Closes
<1>8. ReviewsHold'
  BY <1>1, <1>2, <1>6, <1>7 DEF ReviewsHold, CapturesAreSpentOnce
<1> QED
  BY <1>3, <1>5, <1>8, ArchiveInvIs

\* An event is recorded on a published version: nothing withheld it before, and a
\* version that a correction names as superseded was no tombstone.
LEMMA RecordStep ==
    ASSUME ArchiveInv, NEW r \in Reviews, NEW revision \in Nat, NEW e \in Mutations(r),
           Record(r, revision, e), UNCHANGED <<intake, current, briefs, req>>
    PROVE  ArchiveInv'
<1>1. TypeOK /\ ReviewsHold /\ HandlersHold
  BY ArchiveInvIs
<1>2. /\ e.version \in DOMAIN versions[r] /\ e.version \in Nat
      /\ e.kind \in {"withdrawal", "tombstone", "correction"}
      /\ e.supersedes \in Nat \union {Nothing}
      /\ e \in EventRows
  BY <1>1, ArchiveTypes DEF Mutations, EventRows
<1>3. PICK v \in DOMAIN versions[r] : v = e.version
  BY <1>2
<1>4. PICK old \in VersionRows : old = versions[r][v]
  BY <1>1, ArchiveTypes
<1>5. PICK new : new = [old EXCEPT !.state = StateAfter(e.kind)]
  OBVIOUS
<1>6. /\ new \in VersionRows /\ new.commit = old.commit /\ new.submission = old.submission
      /\ new.state = StateAfter(e.kind)
  BY <1>2, <1>4, <1>5 DEF VersionRows, StateAfter
<1>7. /\ old.state = "published"
      /\ e.kind = "correction" => Corrects(r, e)
      /\ versions' = [versions EXCEPT ![r] = [versions[r] EXCEPT ![v] = new]]
      /\ events' = [events EXCEPT ![r] = Append(events[r], e)]
      /\ told' = told \union {<<r, revision, e>>}
      /\ revision = Len(events[r]) + 1
      /\ UNCHANGED <<captures, submissions, current, briefs, req>>
  <2>1. versions[r] \in Seq(VersionRows) /\ events[r] \in Seq(EventRows)
        /\ versions \in [Reviews -> Seq(VersionRows)] /\ events \in [Reviews -> Seq(EventRows)]
    BY <1>1, ArchiveTypes DEF TypeOK
  <2> QED
    BY <2>1, <1>3, <1>4, <1>5 DEF Record, intake
<1>8. /\ \A q \in Reviews : versions'[q] = IF q = r THEN [versions[r] EXCEPT ![v] = new] ELSE versions[q]
      /\ \A q \in Reviews : events'[q] = IF q = r THEN Append(events[r], e) ELSE events[q]
  BY <1>1, <1>7 DEF TypeOK
<1>9. /\ versions'[r] \in Seq(VersionRows) /\ Len(versions'[r]) = Len(versions[r])
      /\ DOMAIN versions'[r] = DOMAIN versions[r]
      /\ \A n \in DOMAIN versions[r] : versions'[r][n] = IF n = v THEN new ELSE versions[r][n]
  <2>1. versions[r] \in Seq(VersionRows) /\ versions'[r] = [versions[r] EXCEPT ![v] = new]
    BY <1>1, <1>8, ArchiveTypes
  <2> QED
    BY <2>1, <1>6, OneRowChanged
<1>10. PICK last : last = Len(events'[r])
  OBVIOUS
<1>11. /\ events'[r] \in Seq(EventRows) /\ last = revision
       /\ DOMAIN events'[r] = DOMAIN events[r] \union {last} /\ last \notin DOMAIN events[r]
       /\ \A m \in DOMAIN events[r] : events'[r][m] = events[r][m] /\ m < last
       /\ events'[r][last] = e /\ last \in Nat
  <2>1. events[r] \in Seq(EventRows) /\ events'[r] = Append(events[r], e)
    BY <1>1, <1>8, ArchiveTypes
  <2>2. /\ events'[r] \in Seq(EventRows) /\ last = Len(events[r]) + 1
        /\ DOMAIN events'[r] = DOMAIN events[r] \union {last} /\ last \notin DOMAIN events[r]
        /\ \A m \in DOMAIN events[r] : events'[r][m] = events[r][m]
        /\ events'[r][last] = e
    BY <2>1, <1>2, <1>10, OneMoreRow
  <2>3. Len(events[r]) \in Nat /\ DOMAIN events[r] = 1 .. Len(events[r])
    BY <2>1, LenProperties
  <2> QED
    BY <2>2, <2>3, <1>7
<1>12. \A q \in Reviews : DOMAIN versions'[q] = DOMAIN versions[q] /\ Len(versions'[q]) = Len(versions[q])
  BY <1>8, <1>9
<1>13. AllVersions' = AllVersions /\ \A q \in Reviews : Mutations(q)' = Mutations(q)
  BY <1>12 DEF AllVersions, Mutations
<1>14. HandlersHold' /\ DOMAIN req' = Handlers
  BY <1>1, <1>7, <1>13, BriefsStay, HandlersStay
<1>15. \A q \in Reviews : \A n \in DOMAIN versions[q] :
           /\ versions'[q][n].submission = versions[q][n].submission
           /\ versions'[q][n].commit = versions[q][n].commit
           /\ (q # r \/ n # v) => versions'[q][n] = versions[q][n]
  BY <1>4, <1>6, <1>8, <1>9
<1>16. TypeOK'
  <2>1. versions' \in [Reviews -> Seq(VersionRows)] /\ events' \in [Reviews -> Seq(EventRows)]
    <3>1. \A q \in Reviews : versions'[q] \in Seq(VersionRows) /\ events'[q] \in Seq(EventRows)
      BY <1>1, <1>8, <1>9, <1>11, ArchiveTypes
    <3> QED
      BY <3>1, <1>1, <1>7 DEF TypeOK
  <2>2. \A q \in Reviews : \A n \in DOMAIN versions'[q] :
            versions'[q][n].submission \in DOMAIN submissions'
    BY <1>1, <1>7, <1>12, <1>15, ArchiveTypes
  <2>3. \A q \in Reviews : \A n \in DOMAIN events'[q] : events'[q][n] \in Mutations(q)'
    <3> SUFFICES ASSUME NEW q \in Reviews, NEW n \in DOMAIN events'[q]
                 PROVE  events'[q][n] \in Mutations(q)
      BY <1>13
    <3>1. CASE q = r
      BY <3>1, <1>1, <1>11 DEF TypeOK
    <3>2. CASE q # r
      BY <3>2, <1>1, <1>8 DEF TypeOK
    <3> QED
      BY <3>1, <3>2
  <2> QED
    BY <1>1, <1>7, <1>13, <1>14, <2>1, <2>2, <2>3, BriefsStay DEF TypeOK
<1>17. ReviewsHold'
  <2>1. \A q \in Reviews : current'[q] =
          IF versions'[q] = <<>> THEN Nothing ELSE versions'[q][Len(versions'[q])].commit
    <3> SUFFICES ASSUME NEW q \in Reviews
                 PROVE  current[q] =
                          IF versions'[q] = <<>> THEN Nothing ELSE versions'[q][Len(versions'[q])].commit
      BY <1>7
    <3>1. versions[q] \in Seq(VersionRows) /\ versions'[q] \in Seq(VersionRows)
      BY <1>1, <1>8, <1>9, ArchiveTypes
    <3>2. versions'[q] = <<>> <=> versions[q] = <<>>
      BY <3>1, <1>12, EmptySeq
    <3>3. CASE versions[q] = <<>>
      BY <3>2, <3>3, <1>1 DEF ReviewsHold
    <3>4. CASE versions[q] # <<>>
      <4>1. Len(versions[q]) \in DOMAIN versions[q]
        BY <3>1, <3>4, EmptySeq, LenProperties
      <4> QED
        BY <4>1, <3>2, <3>4, <1>1, <1>12, <1>15 DEF ReviewsHold
    <3> QED
      BY <3>3, <3>4
  <2>2. \A q, s \in Reviews : \A m \in DOMAIN versions'[q], n \in DOMAIN versions'[s] :
          /\ submissions'[versions'[q][m].submission].status = "accepted"
          /\ versions'[q][m].submission = versions'[s][n].submission => <<q, m>> = <<s, n>>
    BY <1>1, <1>7, <1>12, <1>15 DEF ReviewsHold
  <2>3. CapturesAreSpentOnce'
    BY <1>1, <1>7 DEF ReviewsHold, CapturesAreSpentOnce
  <2>4. AcknowledgedEventsStand'
    <3> SUFFICES ASSUME NEW t \in told' PROVE t[2] \in DOMAIN events'[t[1]] /\ events'[t[1]][t[2]] = t[3]
      BY DEF AcknowledgedEventsStand
    <3>1. CASE t \in told
      <4>1. t[2] \in DOMAIN events[t[1]] /\ events[t[1]][t[2]] = t[3]
        BY <3>1, <1>1 DEF ReviewsHold, AcknowledgedEventsStand
      <4>2. events' = [events EXCEPT ![r] = events'[r]]
        BY <1>1, <1>7, <1>8 DEF TypeOK
      <4>3. CASE t[1] = r
        BY <4>1, <4>3, <1>11
      <4>4. CASE t[1] # r
        <5>1. DOMAIN events = Reviews
          BY <1>1 DEF TypeOK
        <5>2. events'[t[1]] = events[t[1]] \/ t[1] \notin Reviews
          BY <4>4, <1>8
        <5> QED
          BY <5>1, <5>2, <4>1, <4>4, <1>1, <1>7 DEF TypeOK
      <4> QED
        BY <4>3, <4>4
    <3>2. CASE t = <<r, revision, e>>
      BY <3>2, <1>11
    <3> QED
      BY <3>1, <3>2, <1>7
  <2>5. ClosedOnce(r) /\ CorrectedInTime(r)
    BY <1>1 DEF ReviewsHold
  <2>6. \A m \in DOMAIN events[r] : ~Closes(r, m, v)
    BY <2>5, <1>4, <1>7 DEF ClosedOnce
  <2>7. \A m \in DOMAIN events[r] : \A n : Closes(r, m, n)' <=> Closes(r, m, n)
    BY <1>11 DEF Closes
  <2>8. \A n : Closes(r, last, n)' <=> n = v /\ e.kind # "correction"
    BY <1>3, <1>11 DEF Closes
  <2>9. ClosedOnce(r)'
    <3> SUFFICES ASSUME NEW n \in DOMAIN versions[r]
                 PROVE  /\ versions'[r][n].state = "published"
                              <=> \A k \in DOMAIN events'[r] : ~Closes(r, k, n)'
                        /\ \A k \in DOMAIN events'[r] : Closes(r, k, n)' =>
                              /\ versions'[r][n].state = StateAfter(events'[r][k].kind)
                              /\ \A j \in DOMAIN events'[r] : events'[r][j].version = n => j <= k
      BY <1>12 DEF ClosedOnce
    <3>1. CASE n # v
      <4>1. versions'[r][n] = versions[r][n] /\ ~Closes(r, last, n)'
        BY <3>1, <1>15, <2>8
      <4>2. events'[r][last].version # n
        BY <3>1, <1>3, <1>11
      <4> QED
        BY <4>1, <4>2, <2>5, <2>7, <1>11 DEF ClosedOnce
    <3>2. CASE n = v /\ e.kind = "correction"
      <4>1. versions'[r][n].state = "published"
        BY <3>2, <1>6, <1>9 DEF StateAfter
      <4>2. \A k \in DOMAIN events'[r] : ~Closes(r, k, n)'
        BY <3>2, <2>6, <2>7, <2>8, <1>11
      <4> QED
        BY <4>1, <4>2
    <3>3. CASE n = v /\ e.kind # "correction"
      <4>1. versions'[r][n].state = StateAfter(e.kind) /\ StateAfter(e.kind) # "published"
        BY <3>3, <1>2, <1>6, <1>9 DEF StateAfter
      <4>2. \A k \in DOMAIN events'[r] : Closes(r, k, n)' <=> k = last
        BY <3>3, <2>6, <2>7, <2>8, <1>11
      <4>3. \A j \in DOMAIN events'[r] : j <= last
        <5>1. \A j \in DOMAIN events[r] : j \in Nat /\ j < last
          BY <1>1, <1>11, ArchiveTypes
        <5> QED
          BY <5>1, <1>11
      <4> QED
        BY <4>1, <4>2, <4>3, <1>11
    <3> QED
      BY <3>1, <3>2, <3>3
  <2>10. CorrectedInTime(r)'
    <3> SUFFICES ASSUME NEW k \in DOMAIN events'[r], NEW x, x = events'[r][k], x.kind = "correction"
                 PROVE  /\ x.supersedes < x.version
                        /\ \A m \in DOMAIN events'[r] :
                              Closes(r, m, x.supersedes)' /\ events'[r][m].kind = "tombstone" => k < m
      BY DEF CorrectedInTime, Closes
    <3>1. CASE k \in DOMAIN events[r]
      <4>1. x = events[r][k] /\ k < last
        BY <3>1, <1>11
      <4>2. /\ x.supersedes < x.version
            /\ \A m \in DOMAIN events[r] :
                  Closes(r, m, x.supersedes) /\ events[r][m].kind = "tombstone" => k < m
        BY <3>1, <4>1, <2>5 DEF CorrectedInTime
      <4> QED
        BY <4>1, <4>2, <2>7, <1>11
    <3>2. CASE k = last
      <4>1. x = e /\ e.kind = "correction" /\ Corrects(r, e)
        BY <3>2, <1>7, <1>11
      <4>2. PICK u : u = e.supersedes
        OBVIOUS
      <4>3. u \in 1 .. v - 1 /\ versions[r][u].state \in Readable
        BY <4>1, <4>2, <1>3 DEF Corrects
      <4>4. u \in DOMAIN versions[r] /\ u < v
        <5>1. DOMAIN versions[r] = 1 .. Len(versions[r]) /\ Len(versions[r]) \in Nat
          BY <1>1, ArchiveTypes, LenProperties
        <5> QED
          BY <5>1, <4>3, <1>3
      <4>5. \A m \in DOMAIN events'[r] : ~(Closes(r, m, u)' /\ events'[r][m].kind = "tombstone")
        <5>1. ~Closes(r, last, u)'
          BY <2>8, <4>1
        <5>2. ASSUME NEW m \in DOMAIN events[r], Closes(r, m, u), events[r][m].kind = "tombstone"
              PROVE  FALSE
          <6>1. versions[r][u].state = StateAfter(events[r][m].kind)
            BY <5>2, <4>4, <2>5 DEF ClosedOnce
          <6> QED
            BY <6>1, <5>2, <4>3 DEF StateAfter, Readable
        <5> QED
          BY <5>1, <5>2, <2>7, <1>11
      <4> QED
        BY <4>1, <4>2, <4>4, <4>5, <1>3
    <3> QED
      BY <3>1, <3>2, <1>11
  <2>11. \A q \in Reviews : ClosedOnce(q)' /\ CorrectedInTime(q)'
    <3> SUFFICES ASSUME NEW q \in Reviews, q # r PROVE ClosedOnce(q)' /\ CorrectedInTime(q)'
      BY <2>9, <2>10
    <3>1. versions'[q] = versions[q] /\ events'[q] = events[q]
      BY <1>8
    <3>2. ClosedOnce(q) /\ CorrectedInTime(q)
      BY <1>1 DEF ReviewsHold
    <3> QED
      BY <3>1, <3>2 DEF ClosedOnce, CorrectedInTime, Closes
  <2> QED
    BY <2>1, <2>2, <2>3, <2>4, <2>11 DEF ReviewsHold
<1> QED
  BY <1>14, <1>16, <1>17, ArchiveInvIs

\* BriefsOpenOnCurrentEvidence, as an action.
OpensOnCurrentEvidence ==
    \A b \in Briefs :
        /\ Status(b) = "draft" /\ Status(b)' = "open" =>
              /\ briefs'[b].triage = Corpus'
              /\ briefs'[b].claims \subseteq Corpus'
        /\ Status(b) \notin {"none", "draft"} => briefs'[b].triage = briefs[b].triage

LEMMA UnmovedBriefs == UNCHANGED briefs => OpensOnCurrentEvidence
BY DEF OpensOnCurrentEvidence, Status

\* One brief gets a row that keeps the claims of the row before.  When it opens, its
\* triage is the corpus and covers the claims; and an opened brief keeps its triage.
LEMMA BriefStep ==
    ASSUME ArchiveInv, NEW b \in Briefs, NEW row \in BriefRows,
           UNCHANGED <<intake, reviews>>, briefs' = [briefs EXCEPT ![b] = row],
           UNCHANGED req \/ \E h \in Handlers : Finish(h),
           row.claims \subseteq AllVersions, row.triage \in (SUBSET AllVersions) \union {Nothing},
           Status(b) # "none" => row.claims = briefs[b].claims,
           Status(b) = "draft" /\ row.status = "open" =>
               row.triage = Corpus /\ row.claims \subseteq Corpus,
           Status(b) \notin {"none", "draft"} => row.triage = briefs[b].triage
    PROVE  ArchiveInv' /\ OpensOnCurrentEvidence
<1>1. TypeOK /\ ReviewsHold /\ HandlersHold
  BY ArchiveInvIs
<1>2. UNCHANGED <<captures, submissions, versions, current, events, told>>
  BY DEF intake, reviews
<1>3. \A c \in Briefs : briefs'[c] = IF c = b THEN row ELSE briefs[c]
  BY <1>1 DEF TypeOK
<1>4. row # Nothing /\ row.status \in {"draft", "open", "claimed", "completed", "withdrawn"}
  BY ArchiveConstants DEF BriefRows
<1>5. \A c \in Briefs : Status(c)' = IF c = b THEN row.status ELSE Status(c)
  BY <1>3, <1>4 DEF Status
<1>6. AllVersions' = AllVersions /\ Corpus' = Corpus
  BY <1>2 DEF AllVersions, Corpus, IsReadable
<1>7. \A c \in Briefs : Status(c) # "none" =>
          Status(c)' # "none" /\ briefs'[c].claims = briefs[c].claims
  BY <1>3, <1>4, <1>5
<1>8. HandlersHold' /\ DOMAIN req' = Handlers
  BY <1>1, <1>6, <1>7, HandlersStay
<1>9. TypeOK'
  <2>1. briefs' \in [Briefs -> BriefRows \union {Nothing}]
    BY <1>1 DEF TypeOK
  <2>2. \A c \in Briefs : briefs'[c] # Nothing =>
            /\ briefs'[c].claims \subseteq AllVersions'
            /\ briefs'[c].triage \in (SUBSET AllVersions') \union {Nothing}
    BY <1>1, <1>3, <1>6 DEF TypeOK
  <2> QED
    BY <1>1, <1>2, <1>8, <2>1, <2>2 DEF TypeOK, Mutations
<1>10. ReviewsHold'
  BY <1>1, <1>2, ReviewsStay DEF reviews
<1>11. OpensOnCurrentEvidence
  BY <1>3, <1>5, <1>6 DEF OpensOnCurrentEvidence
<1> QED
  BY <1>8, <1>9, <1>10, <1>11, ArchiveInvIs

\* The row of a brief that exists.
LEMMA BriefRow ==
    ASSUME TypeOK, NEW b \in Briefs, Status(b) # "none"
    PROVE  /\ briefs[b] \in BriefRows /\ Status(b) = briefs[b].status
           /\ briefs[b].claims \subseteq AllVersions
           /\ briefs[b].triage \in (SUBSET AllVersions) \union {Nothing}
BY DEF TypeOK, Status

LEMMA RegisterDraftStep ==
    ASSUME ArchiveInv, NEW h \in Handlers, RegisterDraft(h)
    PROVE  ArchiveInv' /\ OpensOnCurrentEvidence
<1>1. TypeOK /\ HandlersHold
  BY ArchiveInvIs
<1>2. PICK b \in Briefs : b = req[h].brief
  BY <1>1 DEF RegisterDraft, HandlersHold, HandlerHolds
<1>3. PICK claims \in SUBSET AllVersions : claims = req[h].claims
  BY <1>1 DEF RegisterDraft, HandlersHold, HandlerHolds
<1>4. PICK row : row = [status |-> "draft", claims |-> claims, claimant |-> Nothing, triage |-> Nothing]
  OBVIOUS
<1>5. AllVersions \subseteq Reviews \X Nat
  BY <1>1, ArchiveTypes DEF AllVersions
<1>6. row \in BriefRows /\ row.claims = claims /\ row.triage = Nothing /\ row.status = "draft"
  <2>1. claims \in SUBSET (Reviews \X Nat)
    BY <1>3, <1>5
  <2> QED
    BY <2>1, <1>4 DEF BriefRows
<1>7. Status(b) = "none" /\ briefs' = [briefs EXCEPT ![b] = row] /\ Finish(h)
      /\ UNCHANGED <<intake, reviews>>
  BY <1>2, <1>3, <1>4 DEF RegisterDraft
<1>8. row.claims \subseteq AllVersions /\ row.triage \in (SUBSET AllVersions) \union {Nothing}
  BY <1>3, <1>6
<1> QED
  BY <1>6, <1>7, <1>8, BriefStep

\* The transaction computes the corpus again, so the triage that the handler carries
\* is current; and it covered the claims when it was computed.
LEMMA PublishBriefStep ==
    ASSUME ArchiveInv, NEW h \in Handlers, PublishBrief(h)
    PROVE  ArchiveInv' /\ OpensOnCurrentEvidence
<1>1. TypeOK /\ HandlersHold
  BY ArchiveInvIs
<1>2. PICK b \in Briefs : b = req[h].brief
  BY <1>1 DEF PublishBrief, HandlersHold, HandlerHolds
<1>3. PICK triage \in SUBSET AllVersions : triage = req[h].triage
  BY <1>1 DEF PublishBrief, HandlersHold, HandlerHolds
<1>4. briefs[b].claims \subseteq triage /\ Status(b) = "draft" /\ Corpus = triage
      /\ Finish(h) /\ UNCHANGED <<intake, reviews>>
  BY <1>1, <1>2, <1>3 DEF PublishBrief, HandlersHold, HandlerHolds
<1>5. PICK old \in BriefRows : old = briefs[b]
  BY <1>1, <1>4, BriefRow
<1>6. PICK row : row = [old EXCEPT !.status = "open", !.triage = triage]
  OBVIOUS
<1>7. AllVersions \subseteq Reviews \X Nat
  BY <1>1, ArchiveTypes DEF AllVersions
<1>8. row \in BriefRows /\ row.claims = old.claims /\ row.triage = triage
  BY <1>3, <1>5, <1>6, <1>7 DEF BriefRows
<1>9. briefs' = [briefs EXCEPT ![b] = row]
  <2>1. DOMAIN briefs = Briefs
    BY <1>1 DEF TypeOK
  <2> QED
    BY <2>1, <1>2, <1>3, <1>5, <1>6 DEF PublishBrief
<1>10. row.claims \subseteq AllVersions
  BY <1>1, <1>4, <1>5, <1>8, BriefRow
<1> QED
  BY <1>3, <1>4, <1>5, <1>8, <1>9, <1>10, BriefStep

LEMMA WorkOnBriefStep ==
    ASSUME ArchiveInv, NEW b \in Briefs,
           \/ \E a \in Actors : ClaimBrief(a, b) \/ CompleteBrief(a, b)
           \/ WithdrawBrief(b)
    PROVE  ArchiveInv' /\ OpensOnCurrentEvidence
<1>1. TypeOK /\ DOMAIN briefs = Briefs
  BY ArchiveInvIs DEF TypeOK
<1>2. Status(b) # "none"
  BY DEF ClaimBrief, CompleteBrief, WithdrawBrief
<1>3. PICK old \in BriefRows : old = briefs[b]
  BY <1>1, <1>2, BriefRow
<1>4. UNCHANGED <<intake, reviews, req>>
  BY DEF ClaimBrief, CompleteBrief, WithdrawBrief
<1>5. PICK status \in {"claimed", "completed", "withdrawn"}, claimant \in Actors \union {Nothing} :
          briefs' = [briefs EXCEPT ![b] = [old EXCEPT !.status = status, !.claimant = claimant]]
  <2>1. CASE \E a \in Actors : ClaimBrief(a, b)
    <3> PICK a \in Actors : ClaimBrief(a, b)
      BY <2>1
    <3>1. briefs' = [briefs EXCEPT ![b] = [old EXCEPT !.status = "claimed", !.claimant = a]]
      BY <1>1, <1>3 DEF ClaimBrief
    <3> QED
      BY <3>1
  <2>2. CASE (\E a \in Actors : CompleteBrief(a, b)) \/ WithdrawBrief(b)
    <3>1. PICK status \in {"completed", "withdrawn"} :
              briefs' = [briefs EXCEPT ![b] = [old EXCEPT !.status = status]]
      BY <2>2, <1>1, <1>3 DEF CompleteBrief, WithdrawBrief
    <3>2. [old EXCEPT !.status = status]
              = [old EXCEPT !.status = status, !.claimant = old.claimant]
          /\ old.claimant \in Actors \union {Nothing}
      BY DEF BriefRows
    <3> QED
      BY <3>1, <3>2
  <2> QED
    BY <2>1, <2>2
<1>6. PICK row : row = [old EXCEPT !.status = status, !.claimant = claimant]
  OBVIOUS
<1>7. row \in BriefRows /\ row.claims = old.claims /\ row.triage = old.triage /\ row.status = status
  BY <1>3, <1>5, <1>6 DEF BriefRows
<1>8. briefs' = [briefs EXCEPT ![b] = row]
  BY <1>5, <1>6
<1>9. row.claims \subseteq AllVersions /\ row.triage \in (SUBSET AllVersions) \union {Nothing}
  BY <1>1, <1>2, <1>3, <1>7, BriefRow
<1>10. row.status # "open"
  BY <1>5, <1>7
<1> QED
  BY <1>3, <1>4, <1>7, <1>8, <1>9, <1>10, BriefStep

\* A handler reads what its transaction relies on, or stops.
LEMMA ReadStep ==
    ASSUME ArchiveInv, NEW h \in Handlers,
           \/ \E c \in Captures : BeginSubmission(h, c)
           \/ \E b \in Briefs, claims \in (SUBSET AllVersions) \ {{}} : BeginDraft(h, b, claims)
           \/ \E b \in Briefs : BeginPublish(h, b)
           \/ Abandon(h)
    PROVE  ArchiveInv' /\ UNCHANGED briefs
<1>1. TypeOK /\ HandlersHold
  BY ArchiveInvIs
<1>2. UNCHANGED <<intake, reviews, briefs>>
  BY DEF BeginSubmission, BeginDraft, BeginPublish, Abandon
<1>3. CASE \E c \in Captures : BeginSubmission(h, c)
  <2> PICK c \in Captures : BeginSubmission(h, c)
    BY <1>3
  <2>1. PICK l : l = [pc |-> "submission", capture |-> c]
    OBVIOUS
  <2>2. HandlerHolds(l) /\ req' = [req EXCEPT ![h] = l]
    BY <2>1 DEF HandlerHolds, BeginSubmission
  <2> QED
    BY <2>2, <1>2, LocalStep
<1>4. CASE \E b \in Briefs, claims \in (SUBSET AllVersions) \ {{}} : BeginDraft(h, b, claims)
  <2> PICK b \in Briefs, claims \in (SUBSET AllVersions) \ {{}} : BeginDraft(h, b, claims)
    BY <1>4
  <2>1. PICK l : l = [pc |-> "draft", brief |-> b, claims |-> claims]
    OBVIOUS
  <2>2. HandlerHolds(l) /\ req' = [req EXCEPT ![h] = l]
    BY <2>1 DEF HandlerHolds, BeginDraft
  <2> QED
    BY <2>2, <1>2, LocalStep
<1>5. CASE \E b \in Briefs : BeginPublish(h, b)
  <2> PICK b \in Briefs : BeginPublish(h, b)
    BY <1>5
  <2>1. PICK l : l = [pc |-> "publish", brief |-> b, triage |-> Corpus]
    OBVIOUS
  <2>2. HandlerHolds(l) /\ req' = [req EXCEPT ![h] = l]
    BY <2>1 DEF HandlerHolds, BeginPublish, Corpus
  <2> QED
    BY <2>2, <1>2, LocalStep
<1>6. CASE Abandon(h)
  <2>1. HandlerHolds(Idle)
    BY DEF HandlerHolds, Idle
  <2> QED
    BY <2>1, <1>6, <1>2, LocalStep DEF Abandon, Finish
<1> QED
  BY <1>2, <1>3, <1>4, <1>5, <1>6

LEMMA ArchiveSteps == ArchiveInv /\ Next => ArchiveInv' /\ OpensOnCurrentEvidence
<1> SUFFICES ASSUME ArchiveInv, Next PROVE ArchiveInv' /\ OpensOnCurrentEvidence
  OBVIOUS
<1>1. CASE \E c \in Captures : CreateInspectionCapture(c) \/ ExpireCapture(c)
  <2>1. UNCHANGED briefs
    BY <1>1 DEF CreateInspectionCapture, ExpireCapture
  <2> QED
    BY <1>1, <2>1, CaptureStep, UnmovedBriefs
<1>2. CASE \E h \in Handlers : PersistSubmission(h)
  <2>1. UNCHANGED briefs
    BY <1>2 DEF PersistSubmission
  <2> QED
    BY <1>2, <2>1, PersistSubmissionStep, UnmovedBriefs
<1>3. CASE \E i \in DOMAIN submissions : MaterializeReviewPublication(i)
  <2>1. UNCHANGED briefs
    BY <1>3 DEF MaterializeReviewPublication
  <2> QED
    BY <1>3, <2>1, MaterializeStep, UnmovedBriefs
<1>4. CASE \E r \in Reviews : RecordReviewLifecycleEvent(r)
  <2> PICK r \in Reviews : RecordReviewLifecycleEvent(r)
    BY <1>4
  <2>1. PICK expected \in 0 .. Len(events[r]), e \in Mutations(r) :
            Replay(r, expected + 1, e) \/ Record(r, expected + 1, e)
    BY DEF RecordReviewLifecycleEvent
  <2>2. PICK revision \in Nat : revision = expected + 1
    BY <2>1
  <2>3. UNCHANGED <<intake, current, briefs, req>>
    BY DEF RecordReviewLifecycleEvent
  <2>4. ArchiveInv'
    BY <2>1, <2>2, <2>3, ReplayStep, RecordStep
  <2> QED
    BY <2>3, <2>4, UnmovedBriefs
<1>5. CASE \E h \in Handlers : RegisterDraft(h) \/ PublishBrief(h)
  BY <1>5, RegisterDraftStep, PublishBriefStep
<1>6. CASE \E b \in Briefs : WithdrawBrief(b) \/ \E a \in Actors : ClaimBrief(a, b) \/ CompleteBrief(a, b)
  BY <1>6, WorkOnBriefStep
<1>7. CASE \E h \in Handlers :
               \/ \E c \in Captures : BeginSubmission(h, c)
               \/ \E b \in Briefs, claims \in (SUBSET AllVersions) \ {{}} : BeginDraft(h, b, claims)
               \/ \E b \in Briefs : BeginPublish(h, b)
               \/ Abandon(h)
  BY <1>7, ReadStep, UnmovedBriefs
<1> QED
  BY <1>1, <1>2, <1>3, <1>4, <1>5, <1>6, <1>7 DEF Next

-----------------------------------------------------------------------------
(* What is attached to the versions *)

\* How the archive moves under the annotations: versions stay, with their commit and
\* their submission, and submissions stay, with their capture.
ArchiveGrows ==
    /\ \A r \in Reviews : \A n \in DOMAIN versions[r] :
          /\ n \in DOMAIN versions'[r]
          /\ versions'[r][n].commit = versions[r][n].commit
          /\ versions'[r][n].submission = versions[r][n].submission
    /\ \A i \in DOMAIN submissions :
          i \in DOMAIN submissions' /\ submissions'[i].capture = submissions[i].capture

\* No handler comes to one of these statements.
Avoids(pcs) == \A h \in Handlers : req'[h] = req[h] \/ req'[h].pc \notin pcs

LEMMA VersionsAre ==
    /\ \A v : v \in AllVersions <=> \E r \in Reviews : \E n \in DOMAIN versions[r] : v = <<r, n>>
    /\ \A v : v \in AllVersions' <=> \E r \in Reviews : \E n \in DOMAIN versions'[r] : v = <<r, n>>
BY DEF AllVersions

LEMMA VersionsGrow ==
    ASSUME TypeOK, ArchiveGrows
    PROVE  AllVersions \subseteq AllVersions' /\ Affected \subseteq Affected'
<1>1. AllVersions \subseteq AllVersions'
  BY VersionsAre DEF ArchiveGrows
<1>2. ASSUME NEW v \in Affected PROVE v \in Affected'
  <2>1. v \in AllVersions /\ CapturedAs(v) \in Citing
    BY <1>2 DEF Affected
  <2>2. PICK r \in Reviews : \E n \in DOMAIN versions[r] : v = <<r, n>>
    BY <2>1, VersionsAre
  <2>3. PICK n \in DOMAIN versions[r] : v = <<r, n>>
    BY <2>2
  <2>4. CapturedAs(v)' = CapturedAs(v)
    BY <2>3, ArchiveTypes DEF ArchiveGrows, CapturedAs
  <2> QED
    BY <2>1, <2>4, <1>1 DEF Affected
<1> QED
  BY <1>1, <1>2

\* The statements of the archive's own handlers.
ArchivePcs == {"idle", "submission", "draft", "publish"}

LEMMA ArchiveMoves ==
    ASSUME ArchiveInv, Next
    PROVE  ArchiveGrows /\ \A h \in Handlers : req'[h] = req[h] \/ req'[h].pc \in ArchivePcs
<1>1. TypeOK
  BY ArchiveInvIs
<1>2. \A h \in Handlers : req'[h] = req[h] \/ req'[h].pc \in ArchivePcs
  <2>1. \/ UNCHANGED req
        \/ \E h \in Handlers : \E l : l.pc \in ArchivePcs /\ req' = [req EXCEPT ![h] = l]
    <3>1. CASE \E h \in Handlers : PersistSubmission(h) \/ RegisterDraft(h) \/ PublishBrief(h) \/ Abandon(h)
      <4>1. Idle.pc \in ArchivePcs
        BY DEF Idle, ArchivePcs
      <4> QED
        BY <3>1, <4>1 DEF PersistSubmission, RegisterDraft, PublishBrief, Abandon, Finish
    <3>2. CASE \E h \in Handlers :
                  \/ \E c \in Captures : BeginSubmission(h, c)
                  \/ \E b \in Briefs, claims \in (SUBSET AllVersions) \ {{}} : BeginDraft(h, b, claims)
                  \/ \E b \in Briefs : BeginPublish(h, b)
      <4> PICK h \in Handlers :
                  \/ \E c \in Captures : BeginSubmission(h, c)
                  \/ \E b \in Briefs, claims \in (SUBSET AllVersions) \ {{}} : BeginDraft(h, b, claims)
                  \/ \E b \in Briefs : BeginPublish(h, b)
        BY <3>2
      <4>1. ASSUME NEW c \in Captures, BeginSubmission(h, c)
            PROVE  \E l : l.pc \in ArchivePcs /\ req' = [req EXCEPT ![h] = l]
        <5>1. PICK l : l = [pc |-> "submission", capture |-> c]
          OBVIOUS
        <5>2. l.pc \in ArchivePcs /\ req' = [req EXCEPT ![h] = l]
          BY <4>1, <5>1 DEF BeginSubmission, ArchivePcs
        <5> QED
          BY <5>2
      <4>2. ASSUME NEW b \in Briefs, NEW claims, BeginDraft(h, b, claims)
            PROVE  \E l : l.pc \in ArchivePcs /\ req' = [req EXCEPT ![h] = l]
        <5>1. PICK l : l = [pc |-> "draft", brief |-> b, claims |-> claims]
          OBVIOUS
        <5>2. l.pc \in ArchivePcs /\ req' = [req EXCEPT ![h] = l]
          BY <4>2, <5>1 DEF BeginDraft, ArchivePcs
        <5> QED
          BY <5>2
      <4>3. ASSUME NEW b \in Briefs, BeginPublish(h, b)
            PROVE  \E l : l.pc \in ArchivePcs /\ req' = [req EXCEPT ![h] = l]
        <5>1. PICK l : l = [pc |-> "publish", brief |-> b, triage |-> Corpus]
          OBVIOUS
        <5>2. l.pc \in ArchivePcs /\ req' = [req EXCEPT ![h] = l]
          BY <4>3, <5>1 DEF BeginPublish, ArchivePcs
        <5> QED
          BY <5>2
      <4> QED
        BY <4>1, <4>2, <4>3
    <3>3. CASE \/ \E c \in Captures : CreateInspectionCapture(c) \/ ExpireCapture(c)
               \/ \E i \in DOMAIN submissions : MaterializeReviewPublication(i)
               \/ \E r \in Reviews : RecordReviewLifecycleEvent(r)
               \/ \E a \in Actors, b \in Briefs : ClaimBrief(a, b) \/ CompleteBrief(a, b)
               \/ \E b \in Briefs : WithdrawBrief(b)
      BY <3>3 DEF CreateInspectionCapture, ExpireCapture, MaterializeReviewPublication,
                  RecordReviewLifecycleEvent, ClaimBrief, CompleteBrief, WithdrawBrief
    <3> QED
      BY <3>1, <3>2, <3>3 DEF Next
  <2> QED
    BY <2>1, <1>1 DEF TypeOK
<1>3. ArchiveGrows
  <2>1. CASE \E h \in Handlers : PersistSubmission(h)
    <3>1. PICK row \in SubmissionRows : submissions' = Append(submissions, row)
      <4>1. PICK h \in Handlers : PersistSubmission(h)
        BY <2>1
      <4>2. req[h].capture \in Captures
        BY <4>1, ArchiveInvIs DEF PersistSubmission, HandlersHold, HandlerHolds
      <4> QED
        BY <4>1, <4>2 DEF PersistSubmission, SubmissionRows
    <3>2. UNCHANGED versions
      BY <2>1 DEF PersistSubmission, reviews
    <3> QED
      BY <3>1, <3>2, <1>1, OneMoreRow DEF ArchiveGrows, TypeOK
  <2>2. CASE \E i \in DOMAIN submissions : MaterializeReviewPublication(i)
    <3>1. PICK i \in DOMAIN submissions : MaterializeReviewPublication(i)
      BY <2>2
    <3>2. PICK old \in SubmissionRows : old = submissions[i]
      BY <1>1, ArchiveTypes
    <3>3. PICK spent : spent = [old EXCEPT !.status = "accepted"]
      OBVIOUS
    <3>4. spent \in SubmissionRows /\ spent.capture = old.capture
      BY <3>2, <3>3 DEF SubmissionRows
    <3>5. submissions \in Seq(SubmissionRows) /\ submissions' = [submissions EXCEPT ![i] = spent]
      BY <3>1, <3>2, <3>3, <1>1 DEF MaterializeReviewPublication, TypeOK
    <3>6. \A k \in DOMAIN submissions :
              k \in DOMAIN submissions' /\ submissions'[k].capture = submissions[k].capture
      BY <3>2, <3>4, <3>5, OneRowChanged
    <3>7. PICK source : source = SourceOf[submissions[i].capture]
      OBVIOUS
    <3>8. source.repository \in Reviews /\ source.commit \in Commits
      BY <3>7, <1>1, ArchiveTypes, ArchiveConstants DEF Commits
    <3>9. PICK row : row = [commit |-> source.commit, submission |-> i, state |-> "published"]
      OBVIOUS
    <3>10. row \in VersionRows
      BY <3>8, <3>9, <1>1, Rows DEF VersionRows, TypeOK
    <3>11. PICK r \in Reviews : r = source.repository
      BY <3>8
    <3>12. \A q \in Reviews : versions'[q] = IF q = r THEN Append(versions[r], row) ELSE versions[q]
      BY <3>1, <3>7, <3>9, <3>11, <1>1 DEF MaterializeReviewPublication, TypeOK
    <3>13. \A n \in DOMAIN versions[r] : n \in DOMAIN versions'[r] /\ versions'[r][n] = versions[r][n]
      <4>1. versions[r] \in Seq(VersionRows) /\ versions'[r] = Append(versions[r], row)
        BY <3>12, <1>1, ArchiveTypes
      <4> QED
        BY <4>1, <3>10, OneMoreRow
    <3> QED
      BY <3>6, <3>12, <3>13 DEF ArchiveGrows
  <2>3. CASE \E r \in Reviews : RecordReviewLifecycleEvent(r)
    <3>1. PICK r \in Reviews : RecordReviewLifecycleEvent(r)
      BY <2>3
    <3>2. UNCHANGED submissions
      BY <3>1 DEF RecordReviewLifecycleEvent, intake
    <3>3. PICK revision \in Nat, e \in Mutations(r) : Replay(r, revision, e) \/ Record(r, revision, e)
      BY <3>1 DEF RecordReviewLifecycleEvent
    <3>4. CASE UNCHANGED versions
      BY <3>2, <3>4 DEF ArchiveGrows
    <3>5. CASE Record(r, revision, e)
      <4>1. PICK v \in DOMAIN versions[r] : v = e.version
        BY DEF Mutations
      <4>2. PICK old \in VersionRows : old = versions[r][v]
        BY <1>1, ArchiveTypes
      <4>3. PICK new : new = [old EXCEPT !.state = StateAfter(e.kind)]
        OBVIOUS
      <4>4. new \in VersionRows /\ new.commit = old.commit /\ new.submission = old.submission
        BY <4>2, <4>3 DEF VersionRows, StateAfter, Mutations
      <4>5. versions[r] \in Seq(VersionRows)
            /\ \A q \in Reviews : versions'[q] = IF q = r THEN [versions[r] EXCEPT ![v] = new] ELSE versions[q]
        BY <3>5, <4>1, <4>2, <4>3, <1>1, ArchiveTypes DEF Record, TypeOK
      <4>6. \A n \in DOMAIN versions[r] :
                n \in DOMAIN versions'[r] /\ versions'[r][n] = IF n = v THEN new ELSE versions[r][n]
        BY <4>4, <4>5, OneRowChanged
      <4> QED
        BY <3>2, <4>2, <4>4, <4>5, <4>6 DEF ArchiveGrows
    <3> QED
      BY <3>3, <3>4, <3>5 DEF Replay
  <2>4. CASE UNCHANGED <<submissions, versions>>
    BY <2>4 DEF ArchiveGrows
  <2>5. \/ UNCHANGED <<submissions, versions>>
        \/ \E h \in Handlers : PersistSubmission(h)
        \/ \E i \in DOMAIN submissions : MaterializeReviewPublication(i)
        \/ \E r \in Reviews : RecordReviewLifecycleEvent(r)
    BY DEF Next, CreateInspectionCapture, ExpireCapture, BeginSubmission, BeginDraft, RegisterDraft,
           BeginPublish, PublishBrief, Abandon, ClaimBrief, CompleteBrief, WithdrawBrief, intake, reviews
  <2> QED
    BY <2>1, <2>2, <2>3, <2>4, <2>5
<1> QED
  BY <1>2, <1>3

\* A step of an annotation leaves the archive and its handlers alone.
LEMMA AnnotationLocal ==
    ASSUME ArchiveInv, UNCHANGED <<intake, reviews, briefs>>,
           \/ UNCHANGED req
           \/ \E h \in Handlers : \E l : /\ l.pc \notin {"submission", "draft", "publish"}
                                         /\ req' = [req EXCEPT ![h] = l]
    PROVE  ArchiveInv' /\ OpensOnCurrentEvidence /\ ArchiveGrows
<1>1. ArchiveGrows
  BY DEF ArchiveGrows, intake, reviews
<1>2. CASE UNCHANGED req
  <2>1. TypeOK /\ ReviewsHold /\ HandlersHold
    BY ArchiveInvIs
  <2>2. UNCHANGED <<captures, submissions, versions, current, events, told>>
    BY DEF intake, reviews
  <2>3. TypeOK'
    BY <2>1, <2>2, <1>2 DEF TypeOK, Mutations, AllVersions
  <2>4. HandlersHold'
    BY <2>1, <2>2, <1>2 DEF HandlersHold, HandlerHolds, AllVersions, Status
  <2> QED
    BY <2>1, <2>3, <2>4, <1>1, ReviewsStay, ArchiveInvIs, UnmovedBriefs DEF intake
<1>3. CASE \E h \in Handlers : \E l : /\ l.pc \notin {"submission", "draft", "publish"}
                                      /\ req' = [req EXCEPT ![h] = l]
  <2> PICK h \in Handlers :
          \E l : l.pc \notin {"submission", "draft", "publish"} /\ req' = [req EXCEPT ![h] = l]
    BY <1>3
  <2> PICK l : l.pc \notin {"submission", "draft", "publish"} /\ req' = [req EXCEPT ![h] = l]
    OBVIOUS
  <2>1. HandlerHolds(l)
    BY DEF HandlerHolds
  <2> QED
    BY <2>1, <1>1, LocalStep, UnmovedBriefs
<1> QED
  BY <1>2, <1>3

-----------------------------------------------------------------------------
(* Comments *)

CommentRows == [on : Reviews \X Nat, parent : Nat, status : {"visible", "removed"}]

\* Threads are one level deep and on one version.
CommentsHold ==
    /\ comments \in Seq(CommentRows)
    /\ \A i \in DOMAIN comments :
          /\ comments[i].on \in AllVersions
          /\ comments[i].parent \in 0 .. i - 1
          /\ comments[i].parent # 0 =>
                /\ comments[comments[i].parent].parent = 0
                /\ comments[comments[i].parent].on = comments[i].on

\* A writer's snapshot is the commit of a version that exists; once it has loaded the
\* version, of that one or an older one, which it found readable.
WriterHolds(l) ==
    /\ l.pc = "review" =>
          /\ l.review \in Reviews /\ l.parent \in DOMAIN comments \union {0} /\ l.revision \in Nat
          /\ \E n \in DOMAIN versions[l.review] : versions[l.review][n].commit = l.snapshot
    /\ l.pc \in {"reply", "post"} =>
          /\ l \in [pc : {"reply", "post"}, review : Reviews, parent : DOMAIN comments \union {0},
                    revision : Nat, snapshot : Commits, version : Nat, state : Readable]
          /\ l.version \in DOMAIN versions[l.review]
          /\ \E n \in DOMAIN versions[l.review] :
                n <= l.version /\ versions[l.review][n].commit = l.snapshot
    /\ l.pc = "reply" => l.parent # 0
    /\ l.pc = "post" /\ l.parent # 0 =>
          comments[l.parent].parent = 0 /\ comments[l.parent].on = <<l.review, l.version>>

DiscussionInv == CommentsHold /\ \A h \in Handlers : WriterHolds(req[h])

CommentsStay ==
    \A i \in DOMAIN comments :
        /\ i \in DOMAIN comments'
        /\ comments'[i].on = comments[i].on /\ comments'[i].parent = comments[i].parent

LEMMA WriterStays ==
    ASSUME NEW l, WriterHolds(l), ArchiveGrows, CommentsStay
    PROVE  WriterHolds(l)'
<1>1. CASE l.pc = "review"
  BY <1>1 DEF WriterHolds, ArchiveGrows, CommentsStay
<1>2. CASE l.pc \in {"reply", "post"}
  <2>1. l \in [pc : {"reply", "post"}, review : Reviews, parent : DOMAIN comments' \union {0},
               revision : Nat, snapshot : Commits, version : Nat, state : Readable]
    BY <1>2 DEF WriterHolds, CommentsStay
  <2>2. /\ l.version \in DOMAIN versions'[l.review]
        /\ \E n \in DOMAIN versions'[l.review] :
              n <= l.version /\ versions'[l.review][n].commit = l.snapshot
    BY <1>2, <2>1 DEF WriterHolds, ArchiveGrows
  <2>3. l.pc = "post" /\ l.parent # 0 =>
          comments'[l.parent].parent = 0 /\ comments'[l.parent].on = <<l.review, l.version>>
    BY <1>2 DEF WriterHolds, CommentsStay
  <2> QED
    BY <1>2, <2>1, <2>2, <2>3 DEF WriterHolds
<1>3. CASE l.pc \notin {"review", "reply", "post"}
  BY <1>3 DEF WriterHolds
<1> QED
  BY <1>1, <1>2, <1>3

DiscussionPcs == {"review", "reply", "post"}

\* Everything else leaves comments and their writers alone.
LEMMA DiscussionStays ==
    ASSUME TypeOK, DiscussionInv, ArchiveGrows, UNCHANGED discussion, Avoids(DiscussionPcs)
    PROVE  DiscussionInv'
<1>1. UNCHANGED comments
  BY DEF discussion
<1>2. CommentsStay
  BY <1>1 DEF CommentsStay
<1>3. CommentsHold'
  BY <1>1, VersionsGrow DEF DiscussionInv, CommentsHold
<1>4. \A h \in Handlers : WriterHolds(req[h])'
  <2> SUFFICES ASSUME NEW h \in Handlers PROVE WriterHolds(req[h])'
    OBVIOUS
  <2>1. PICK l : l = req'[h]
    OBVIOUS
  <2>2. CASE l = req[h]
    <3>1. WriterHolds(l)'
      BY <2>2, <1>2, WriterStays DEF DiscussionInv
    <3> QED
      BY <3>1, <2>1 DEF WriterHolds
  <2>3. CASE l.pc \notin DiscussionPcs
    BY <2>1, <2>3 DEF WriterHolds, DiscussionPcs
  <2> QED
    BY <2>1, <2>2, <2>3 DEF Avoids
<1> QED
  BY <1>3, <1>4 DEF DiscussionInv

\* One writer goes on and the comments stay, or grow.
LEMMA WriterStep ==
    ASSUME TypeOK, DiscussionInv, ArchiveGrows, CommentsStay, CommentsHold',
           NEW h \in Handlers, NEW l, WriterHolds(l)', req' = [req EXCEPT ![h] = l]
    PROVE  DiscussionInv'
<1> SUFFICES ASSUME NEW g \in Handlers PROVE WriterHolds(req[g])'
  BY DEF DiscussionInv
<1>1. req'[g] = IF g = h THEN l ELSE req[g]
  BY DEF TypeOK
<1>2. PICK k : k = req'[g]
  OBVIOUS
<1>3. WriterHolds(k)'
  BY <1>1, <1>2, WriterStays DEF DiscussionInv
<1> QED
  BY <1>2, <1>3 DEF WriterHolds

\* CommentsWereOpen, as an action.
CommentsOpen ==
    Len(comments') > Len(comments) =>
        LET c == comments'[Len(comments')]
            r == c.on[1] IN
        /\ IsReadable(c.on)
        /\ \/ c.on[2] = Newest(r)
           \/ \E n \in 1 .. Newest(r) - 1 : versions[r][n].commit = current[r]
        /\ c.parent # 0 =>
              comments[c.parent].parent = 0 /\ comments[c.parent].on = c.on

LEMMA SilentComments == UNCHANGED comments /\ DiscussionInv => CommentsOpen
<1>1. DiscussionInv => Len(comments) \in Nat
  BY LenProperties DEF DiscussionInv, CommentsHold
<1> QED
  BY <1>1 DEF CommentsOpen

LEMMA LoadReviewStep ==
    ASSUME ArchiveInv, DiscussionInv, ArchiveGrows, NEW h \in Handlers, NEW r \in Reviews,
           NEW parent \in 0 .. MaxComments, LoadReview(h, r, parent)
    PROVE  DiscussionInv' /\ UNCHANGED comments
<1>1. TypeOK /\ ReviewsHold
  BY ArchiveInvIs
<1>2. UNCHANGED <<versions, comments>> /\ current[r] # Nothing /\ parent \in 0 .. Len(comments)
  BY DEF LoadReview, annotations, discussion, reviews
<1>3. comments \in Seq(CommentRows) /\ CommentsStay
  BY <1>2 DEF DiscussionInv, CommentsHold, CommentsStay
<1>4. PICK l : l = [pc |-> "review", review |-> r, parent |-> parent,
                    revision |-> Len(events[r]), snapshot |-> current[r]]
  OBVIOUS
<1>5. l.pc = "review" /\ l.review = r /\ l.parent = parent /\ l.revision = Len(events[r])
      /\ l.snapshot = current[r]
  BY <1>4
<1>6. parent \in DOMAIN comments \union {0}
  BY <1>2, <1>3, LenProperties
<1>7. Len(events[r]) \in Nat
  BY <1>1, ArchiveTypes, LenProperties
<1>8. \E n \in DOMAIN versions[r] : versions[r][n].commit = current[r]
  <2>1. versions[r] # <<>> /\ current[r] = versions[r][Len(versions[r])].commit
    BY <1>1, <1>2 DEF ReviewsHold
  <2>2. Len(versions[r]) \in DOMAIN versions[r]
    BY <2>1, <1>1, ArchiveTypes, EmptySeq, LenProperties
  <2> QED
    BY <2>1, <2>2
<1>9. WriterHolds(l)'
  BY <1>2, <1>5, <1>6, <1>7, <1>8 DEF WriterHolds
<1>10. CommentsHold'
  BY <1>1, <1>2, VersionsGrow DEF DiscussionInv, CommentsHold
<1> QED
  BY <1>1, <1>2, <1>3, <1>4, <1>9, <1>10, WriterStep DEF LoadReview, Hold

LEMMA LoadVersionStep ==
    ASSUME ArchiveInv, DiscussionInv, ArchiveGrows, NEW h \in Handlers, LoadVersion(h)
    PROVE  DiscussionInv' /\ UNCHANGED comments
<1>1. TypeOK
  BY ArchiveInvIs
<1>2. UNCHANGED <<versions, comments>> /\ req[h].pc = "review"
  BY DEF LoadVersion, annotations, discussion, reviews
<1>3. comments \in Seq(CommentRows) /\ CommentsStay
  BY <1>2 DEF DiscussionInv, CommentsHold, CommentsStay
<1>4. PICK old : old = req[h]
  OBVIOUS
<1>5. /\ old.review \in Reviews /\ old.parent \in DOMAIN comments \union {0} /\ old.revision \in Nat
      /\ \E n \in DOMAIN versions[old.review] : versions[old.review][n].commit = old.snapshot
  BY <1>2, <1>4 DEF DiscussionInv, WriterHolds
<1>6. PICK r \in Reviews : r = old.review
  BY <1>5
<1>7. PICK n \in DOMAIN versions[r] : versions[r][n].commit = old.snapshot
  BY <1>5, <1>6
<1>8. Newest(r) \in Nat /\ Newest(r) \in DOMAIN versions[r] /\ n <= Newest(r) /\ old.snapshot \in Commits
  <2>1. versions[r] \in Seq(VersionRows)
    BY <1>1, ArchiveTypes
  <2>2. Len(versions[r]) \in Nat /\ DOMAIN versions[r] = 1 .. Len(versions[r])
    BY <2>1, LenProperties
  <2>3. versions[r][n] \in VersionRows
    BY <2>1, Rows
  <2> QED
    BY <2>2, <2>3, <1>7 DEF Newest, VersionRows
<1>9. PICK l : l = [pc |-> IF old.parent = 0 THEN "post" ELSE "reply",
                    review |-> r, parent |-> old.parent,
                    revision |-> old.revision, snapshot |-> old.snapshot,
                    version |-> Newest(r), state |-> versions[r][Newest(r)].state]
  OBVIOUS
<1>10. versions[r][Newest(r)].state \in Readable /\ req' = [req EXCEPT ![h] = l]
  BY <1>4, <1>6, <1>9 DEF LoadVersion, Hold
<1>11. l.review = r /\ l.parent = old.parent /\ l.snapshot = old.snapshot /\ l.version = Newest(r)
       /\ l.pc = (IF old.parent = 0 THEN "post" ELSE "reply")
  BY <1>9
<1>12. l \in [pc : {"reply", "post"}, review : Reviews, parent : DOMAIN comments \union {0},
              revision : Nat, snapshot : Commits, version : Nat, state : Readable]
  BY <1>5, <1>8, <1>9, <1>10
<1>13. WriterHolds(l)
  <2>1. \E m \in DOMAIN versions[l.review] : m <= l.version /\ versions[l.review][m].commit = l.snapshot
    BY <1>7, <1>8, <1>11
  <2> QED
    BY <1>8, <1>11, <1>12, <2>1 DEF WriterHolds
<1>14. CommentsHold'
  BY <1>1, <1>2, VersionsGrow DEF DiscussionInv, CommentsHold
<1>15. WriterHolds(l)'
  BY <1>3, <1>13, WriterStays
<1> QED
  BY <1>1, <1>2, <1>3, <1>10, <1>14, <1>15, WriterStep

\* The thread of a comment is a top-level comment on the same version.
LEMMA LoadParentStep ==
    ASSUME ArchiveInv, DiscussionInv, ArchiveGrows, NEW h \in Handlers, LoadParent(h)
    PROVE  DiscussionInv' /\ UNCHANGED comments
<1>1. TypeOK
  BY ArchiveInvIs
<1>2. UNCHANGED <<versions, comments>> /\ req[h].pc = "reply"
  BY DEF LoadParent, annotations, discussion, reviews
<1>3. comments \in Seq(CommentRows) /\ CommentsStay
  BY <1>2 DEF DiscussionInv, CommentsHold, CommentsStay
<1>4. PICK old : old = req[h]
  OBVIOUS
<1>5. /\ old \in [pc : {"reply", "post"}, review : Reviews, parent : DOMAIN comments \union {0},
                  revision : Nat, snapshot : Commits, version : Nat, state : Readable]
      /\ old.version \in DOMAIN versions[old.review]
      /\ \E n \in DOMAIN versions[old.review] :
            n <= old.version /\ versions[old.review][n].commit = old.snapshot
      /\ old.parent # 0
  BY <1>2, <1>4 DEF DiscussionInv, WriterHolds
<1>6. old.parent \in DOMAIN comments /\ comments[old.parent].on = <<old.review, old.version>>
  BY <1>4, <1>5 DEF LoadParent
<1>7. PICK thread : thread = Thread(old.parent)
  OBVIOUS
<1>8. thread \in DOMAIN comments /\ comments[thread].parent = 0
      /\ comments[thread].on = <<old.review, old.version>>
  <2>1. CASE comments[old.parent].parent = 0
    BY <2>1, <1>6, <1>7 DEF Thread
  <2>2. CASE comments[old.parent].parent # 0
    <3>1. thread = comments[old.parent].parent
      BY <2>2, <1>7 DEF Thread
    <3>2. comments[thread].parent = 0 /\ comments[thread].on = comments[old.parent].on
          /\ thread \in 0 .. old.parent - 1
      BY <2>2, <3>1, <1>6 DEF DiscussionInv, CommentsHold
    <3>3. DOMAIN comments = 1 .. Len(comments) /\ Len(comments) \in Nat
      BY <1>3, LenProperties
    <3> QED
      BY <2>2, <3>1, <3>2, <3>3, <1>6
  <2> QED
    BY <2>1, <2>2
<1>9. PICK l : l = [old EXCEPT !.pc = "post", !.parent = thread]
  OBVIOUS
<1>10. req' = [req EXCEPT ![h] = l]
  BY <1>4, <1>7, <1>9 DEF LoadParent, Hold
<1>11. /\ l \in [pc : {"reply", "post"}, review : Reviews, parent : DOMAIN comments \union {0},
                 revision : Nat, snapshot : Commits, version : Nat, state : Readable]
       /\ l.pc = "post" /\ l.review = old.review /\ l.parent = thread /\ l.snapshot = old.snapshot
       /\ l.version = old.version
  BY <1>5, <1>8, <1>9
<1>12. WriterHolds(l)
  BY <1>5, <1>8, <1>11 DEF WriterHolds
<1>13. CommentsHold'
  BY <1>1, <1>2, VersionsGrow DEF DiscussionInv, CommentsHold
<1>14. WriterHolds(l)'
  BY <1>3, <1>12, WriterStays
<1> QED
  BY <1>1, <1>2, <1>3, <1>10, <1>13, <1>14, WriterStep

\* The lock compares what was read: the version is readable still, and the snapshot the
\* writer carries is current, which the version or an older one of the same commit has.
LEMMA PostStep ==
    ASSUME ArchiveInv, DiscussionInv, ArchiveGrows, NEW h \in Handlers, Post(h)
    PROVE  DiscussionInv' /\ CommentsOpen
<1>1. TypeOK
  BY ArchiveInvIs
<1>2. PICK l : l = req[h]
  OBVIOUS
<1>3. /\ l.pc = "post" /\ WriterHolds(l) /\ Finish(h) /\ UNCHANGED versions
      /\ l \in [pc : {"reply", "post"}, review : Reviews, parent : DOMAIN comments \union {0},
                revision : Nat, snapshot : Commits, version : Nat, state : Readable]
  BY <1>2 DEF Post, DiscussionInv, WriterHolds, reviews
<1>4. PICK r \in Reviews : r = l.review
  BY <1>3
<1>5. PICK v \in DOMAIN versions[r] : v = l.version
  BY <1>3, <1>4 DEF WriterHolds
<1>6. PICK n \in DOMAIN versions[r] : n <= v /\ versions[r][n].commit = l.snapshot
  BY <1>3, <1>4, <1>5 DEF WriterHolds
<1>7. current[r] = l.snapshot /\ versions[r][v].state = l.state /\ l.state \in Readable
  BY <1>2, <1>3, <1>4, <1>5 DEF Post, SameEpoch
<1>8. PICK row : row = [on |-> <<r, v>>, parent |-> l.parent, status |-> "visible"]
  OBVIOUS
<1>9. comments' = Append(comments, row) /\ comments \in Seq(CommentRows)
  BY <1>2, <1>4, <1>5, <1>8 DEF Post, DiscussionInv, CommentsHold
<1>10. DOMAIN comments = 1 .. Len(comments) /\ Len(comments) \in Nat
       /\ DOMAIN versions[r] = 1 .. Newest(r) /\ Newest(r) \in Nat
  BY <1>1, <1>9, ArchiveTypes, LenProperties DEF Newest
<1>11. row \in CommentRows /\ row.on = <<r, v>> /\ row.parent = l.parent
  BY <1>3, <1>8, <1>10 DEF CommentRows
<1>12. PICK last : last = Len(comments')
  OBVIOUS
<1>13. /\ comments' \in Seq(CommentRows) /\ last = Len(comments) + 1
       /\ DOMAIN comments' = DOMAIN comments \union {last} /\ last \notin DOMAIN comments
       /\ \A i \in DOMAIN comments : comments'[i] = comments[i]
       /\ comments'[last] = row
  BY <1>9, <1>11, <1>12, OneMoreRow
<1>14. CommentsStay
  BY <1>13 DEF CommentsStay
<1>15. l.parent # 0 => comments[l.parent].parent = 0 /\ comments[l.parent].on = <<r, v>>
                       /\ l.parent \in DOMAIN comments
  BY <1>3, <1>4, <1>5 DEF WriterHolds
<1>16. row.on \in AllVersions /\ AllVersions' = AllVersions
  BY <1>3, <1>11, VersionsAre DEF AllVersions
<1>17. CommentsHold'
  <2> SUFFICES ASSUME NEW i \in DOMAIN comments'
               PROVE  /\ comments'[i].on \in AllVersions
                      /\ comments'[i].parent \in 0 .. i - 1
                      /\ comments'[i].parent # 0 =>
                            /\ comments'[comments'[i].parent].parent = 0
                            /\ comments'[comments'[i].parent].on = comments'[i].on
    BY <1>13, <1>16 DEF CommentsHold
  <2>1. CASE i \in DOMAIN comments
    <3>1. /\ comments[i].on \in AllVersions
          /\ comments[i].parent \in 0 .. i - 1
          /\ comments[i].parent # 0 =>
                /\ comments[comments[i].parent].parent = 0
                /\ comments[comments[i].parent].on = comments[i].on
      BY <2>1 DEF DiscussionInv, CommentsHold
    <3>2. comments[i].parent # 0 => comments[i].parent \in DOMAIN comments
      BY <2>1, <3>1, <1>10
    <3> QED
      BY <2>1, <3>1, <3>2, <1>13
  <2>2. CASE i = last
    <3>1. l.parent \in 0 .. i - 1
      BY <2>2, <1>3, <1>10, <1>13
    <3> QED
      BY <2>2, <3>1, <1>11, <1>13, <1>15, <1>16
  <2> QED
    BY <2>1, <2>2, <1>13
<1>18. DiscussionInv'
  <2>1. WriterHolds(Idle)'
    BY DEF WriterHolds, Idle
  <2> QED
    BY <2>1, <1>1, <1>3, <1>14, <1>17, WriterStep DEF Finish
<1>19. CommentsOpen
  <2>1. IsReadable(row.on)
    BY <1>7, <1>11 DEF IsReadable
  <2>2. row.on[1] = r /\ row.on[2] = v
    BY <1>11
  <2>3. v = Newest(r) \/ n \in 1 .. Newest(r) - 1
    BY <1>5, <1>6, <1>10
  <2>4. v = Newest(r) \/ \E m \in 1 .. Newest(r) - 1 : versions[r][m].commit = current[r]
    BY <2>3, <1>6, <1>7
  <2>5. comments'[Len(comments')] = row
    BY <1>12, <1>13
  <2> QED
    BY <2>1, <2>2, <2>4, <2>5, <1>11, <1>15 DEF CommentsOpen
<1> QED
  BY <1>18, <1>19

LEMMA RemoveCommentStep ==
    ASSUME ArchiveInv, DiscussionInv, ArchiveGrows, NEW i \in DOMAIN comments, RemoveComment(i)
    PROVE  DiscussionInv' /\ CommentsOpen
<1>1. TypeOK /\ UNCHANGED <<versions, req>>
  BY ArchiveInvIs DEF RemoveComment, vars, reviews
<1>2. comments \in Seq(CommentRows)
  BY DEF DiscussionInv, CommentsHold
<1>3. PICK old \in CommentRows : old = comments[i]
  BY <1>2, Rows
<1>4. PICK new : new = [old EXCEPT !.status = "removed"]
  OBVIOUS
<1>5. new \in CommentRows /\ new.on = old.on /\ new.parent = old.parent
  BY <1>3, <1>4 DEF CommentRows
<1>6. comments' = [comments EXCEPT ![i] = new]
  BY <1>2, <1>3, <1>4 DEF RemoveComment
<1>7. /\ comments' \in Seq(CommentRows) /\ Len(comments') = Len(comments)
      /\ DOMAIN comments' = DOMAIN comments
      /\ \A k \in DOMAIN comments : comments'[k] = IF k = i THEN new ELSE comments[k]
  BY <1>2, <1>5, <1>6, OneRowChanged
<1>8. \A k \in DOMAIN comments :
          comments'[k].on = comments[k].on /\ comments'[k].parent = comments[k].parent
  BY <1>3, <1>5, <1>7
<1>9. CommentsStay
  BY <1>7, <1>8 DEF CommentsStay
<1>10. \A k \in DOMAIN comments : comments[k].parent # 0 => comments[k].parent \in DOMAIN comments
  <2>1. DOMAIN comments = 1 .. Len(comments) /\ Len(comments) \in Nat
    BY <1>2, LenProperties
  <2>2. \A k \in DOMAIN comments : comments[k].parent \in 0 .. k - 1
    BY DEF DiscussionInv, CommentsHold
  <2> QED
    BY <2>1, <2>2
<1>11. AllVersions' = AllVersions
  BY <1>1 DEF AllVersions
<1>12. CommentsHold'
  BY <1>7, <1>8, <1>10, <1>11 DEF DiscussionInv, CommentsHold
<1>13. \A h \in Handlers : WriterHolds(req[h])'
  <2> SUFFICES ASSUME NEW h \in Handlers PROVE WriterHolds(req[h])'
    OBVIOUS
  <2>1. PICK l : l = req[h] /\ l = req'[h]
    BY <1>1
  <2>2. WriterHolds(l)'
    BY <2>1, <1>9, WriterStays DEF DiscussionInv
  <2> QED
    BY <2>1, <2>2 DEF WriterHolds
<1>14. Len(comments) \in Nat
  BY <1>2, LenProperties
<1> QED
  BY <1>7, <1>12, <1>13, <1>14 DEF DiscussionInv, CommentsOpen

-----------------------------------------------------------------------------
(* What was acknowledged *)

\* Rows that were resolved, and verdicts, stay as they are; other rows keep their content.
AlertsKept ==
    \A k \in DOMAIN alerts :
        k \in DOMAIN alerts' /\ (~Open(alerts[k].status) => alerts'[k] = alerts[k])

VerdictsKept ==
    \A p \in Passports : \A n \in DOMAIN verdicts[p] :
        n \in DOMAIN verdicts'[p] /\ verdicts'[p][n] = verdicts[p][n]

NotesKept ==
    \A a \in Activities : notes[a] # Nothing =>
        /\ notes'[a] # Nothing /\ notes'[a].content = notes[a].content
        /\ ~Open(notes[a].status) => notes'[a] = notes[a]

SnapshotsKept ==
    \A k \in DOMAIN snapshots :
        /\ k \in DOMAIN snapshots' /\ snapshots'[k].content = snapshots[k].content
        /\ ~Open(snapshots[k].status) => snapshots'[k] = snapshots[k]

RowsKept == AlertsKept /\ VerdictsKept /\ NotesKept /\ SnapshotsKept

LEMMA UntouchedRows ==
    /\ UNCHANGED monitoring => AlertsKept
    /\ UNCHANGED execution => VerdictsKept
    /\ UNCHANGED exchange => NotesKept
    /\ UNCHANGED protocols => SnapshotsKept
BY DEF monitoring, execution, exchange, protocols, AlertsKept, VerdictsKept, NotesKept, SnapshotsKept

Says(row, t) == row.status = t.as /\ row.by = t.by /\ ~Open(t.as)

\* What an editor was told stands in a row that is no longer open, or in a verdict.
ResolutionHolds(t) ==
    \/ \E k \in DOMAIN alerts : t.what = [alert |-> k] /\ Says(alerts[k], t)
    \/ \E a \in Activities : t.what = [activity |-> a] /\ notes[a] # Nothing /\ Says(notes[a], t)
    \/ \E k \in DOMAIN snapshots : t.what = [snapshot |-> k] /\ Says(snapshots[k], t)
    \/ \E p \in Passports : \E n \in DOMAIN verdicts[p] :
          /\ t.what = [passport |-> p, revision |-> n]
          /\ verdicts[p][n].ok /\ verdicts[p][n].by = t.by

ReceiptHolds(t) ==
    \/ \E a \in Activities :
          t.key = [activity |-> a] /\ notes[a] # Nothing /\ notes[a].content = t.content
    \/ \E k \in DOMAIN snapshots : t.key = [snapshot |-> k] /\ snapshots[k].content = t.content

HistoryInv ==
    /\ \A t \in resolutions : ResolutionHolds(t)
    /\ \A t \in receipts : ReceiptHolds(t)

\* What was acknowledged stands, if the rows are kept and what is new stands.
LEMMA HistoryStep ==
    ASSUME HistoryInv, RowsKept,
           \A t \in resolutions' : t \in resolutions \/ ResolutionHolds(t)',
           \A t \in receipts' : t \in receipts \/ ReceiptHolds(t)'
    PROVE  HistoryInv'
<1>1. ASSUME NEW t \in resolutions PROVE ResolutionHolds(t)'
  <2>1. CASE \E k \in DOMAIN alerts : t.what = [alert |-> k] /\ Says(alerts[k], t)
    <3>1. \E k \in DOMAIN alerts' : t.what = [alert |-> k] /\ Says(alerts'[k], t)
      BY <2>1 DEF RowsKept, AlertsKept, Says
    <3> QED
      BY <3>1 DEF ResolutionHolds, Says
  <2>2. CASE \E a \in Activities : t.what = [activity |-> a] /\ notes[a] # Nothing /\ Says(notes[a], t)
    <3>1. \E a \in Activities : t.what = [activity |-> a] /\ notes'[a] # Nothing /\ Says(notes'[a], t)
      BY <2>2 DEF RowsKept, NotesKept, Says
    <3> QED
      BY <3>1 DEF ResolutionHolds, Says
  <2>3. CASE \E k \in DOMAIN snapshots : t.what = [snapshot |-> k] /\ Says(snapshots[k], t)
    <3>1. \E k \in DOMAIN snapshots' : t.what = [snapshot |-> k] /\ Says(snapshots'[k], t)
      BY <2>3 DEF RowsKept, SnapshotsKept, Says
    <3> QED
      BY <3>1 DEF ResolutionHolds, Says
  <2>4. CASE \E p \in Passports : \E n \in DOMAIN verdicts[p] :
                /\ t.what = [passport |-> p, revision |-> n]
                /\ verdicts[p][n].ok /\ verdicts[p][n].by = t.by
    <3>1. \E p \in Passports : \E n \in DOMAIN verdicts'[p] :
                /\ t.what = [passport |-> p, revision |-> n]
                /\ verdicts'[p][n].ok /\ verdicts'[p][n].by = t.by
      BY <2>4 DEF RowsKept, VerdictsKept
    <3> QED
      BY <3>1 DEF ResolutionHolds
  <2> QED
    BY <1>1, <2>1, <2>2, <2>3, <2>4 DEF HistoryInv, ResolutionHolds
<1>2. ASSUME NEW t \in receipts PROVE ReceiptHolds(t)'
  <2>1. CASE \E a \in Activities :
                t.key = [activity |-> a] /\ notes[a] # Nothing /\ notes[a].content = t.content
    <3>1. \E a \in Activities :
                t.key = [activity |-> a] /\ notes'[a] # Nothing /\ notes'[a].content = t.content
      BY <2>1 DEF RowsKept, NotesKept
    <3> QED
      BY <3>1 DEF ReceiptHolds
  <2>2. CASE \E k \in DOMAIN snapshots :
                t.key = [snapshot |-> k] /\ snapshots[k].content = t.content
    <3>1. \E k \in DOMAIN snapshots' :
                t.key = [snapshot |-> k] /\ snapshots'[k].content = t.content
      BY <2>2 DEF RowsKept, SnapshotsKept
    <3> QED
      BY <3>1 DEF ReceiptHolds
  <2> QED
    BY <1>2, <2>1, <2>2 DEF HistoryInv, ReceiptHolds
<1> QED
  BY <1>1, <1>2 DEF HistoryInv

LEMMA HistoryStays ==
    ASSUME HistoryInv, RowsKept, UNCHANGED history PROVE HistoryInv'
BY HistoryStep DEF history

-----------------------------------------------------------------------------
(* Claim monitoring *)

MonitoringPcs == {"signal"}

MonitoringInv ==
    /\ signals \in 0 .. MaxSignals
    /\ \A k \in DOMAIN alerts : k[1] \in 1 .. signals /\ k[2] \in Affected
    /\ \A h \in Handlers : req[h].pc = "signal" => req[h].affected \subseteq Affected

LEMMA MonitoringStays ==
    ASSUME TypeOK, MonitoringInv, ArchiveGrows, UNCHANGED monitoring, Avoids(MonitoringPcs)
    PROVE  MonitoringInv'
<1>1. Affected \subseteq Affected' /\ UNCHANGED <<signals, alerts>>
  BY VersionsGrow DEF monitoring
<1>2. \A h \in Handlers : req'[h].pc = "signal" => req'[h] = req[h]
  BY DEF Avoids, MonitoringPcs
<1>3. \A h \in Handlers : req'[h].pc = "signal" => req'[h].affected \subseteq Affected'
  BY <1>1, <1>2 DEF MonitoringInv
<1> QED
  BY <1>1, <1>3 DEF MonitoringInv

LEMMA FindAffectedStep ==
    ASSUME TypeOK, MonitoringInv, NEW h \in Handlers, FindAffected(h)
    PROVE  MonitoringInv' /\ UNCHANGED monitoring /\ UNCHANGED history
<1>1. PICK l : l = [pc |-> "signal", affected |-> Affected]
  OBVIOUS
<1>2. l.affected = Affected /\ req' = [req EXCEPT ![h] = l]
  BY <1>1 DEF FindAffected, Hold
<1>3. UNCHANGED <<versions, submissions, signals, alerts, monitoring, history>>
  BY DEF FindAffected, annotations, monitoring, history, intake, reviews
<1>4. Affected' = Affected
  BY <1>3 DEF Affected, AllVersions, CapturedAs
<1>5. \A g \in Handlers : req'[g] = IF g = h THEN l ELSE req[g]
  BY <1>2 DEF TypeOK
<1>6. \A g \in Handlers : req'[g].pc = "signal" => req'[g].affected \subseteq Affected
  BY <1>2, <1>5 DEF MonitoringInv
<1> QED
  BY <1>3, <1>4, <1>6 DEF MonitoringInv

\* A new signal's alerts are under keys of their own.
LEMMA RegisterCitationStep ==
    ASSUME TypeOK, MonitoringInv, NEW h \in Handlers, RegisterCitationStatus(h)
    PROVE  MonitoringInv' /\ AlertsKept
<1>1. PICK affected : affected = req[h].affected
  OBVIOUS
<1>2. affected \subseteq Affected /\ signals' = signals + 1 /\ signals < MaxSignals
      /\ alerts' = Extended(alerts, {signals + 1} \X affected, [status |-> "open", by |-> Nothing])
      /\ UNCHANGED <<versions, submissions>> /\ req' = [req EXCEPT ![h] = Idle]
  BY <1>1 DEF RegisterCitationStatus, MonitoringInv, Finish, intake, reviews
<1>3. DOMAIN alerts' = DOMAIN alerts \union ({signals + 1} \X affected)
      /\ \A k \in DOMAIN alerts : alerts'[k] = alerts[k]
  <2>1. PICK keys : keys = {signals + 1} \X affected
    OBVIOUS
  <2>2. PICK row : row = [status |-> "open", by |-> Nothing]
    OBVIOUS
  <2>3. alerts' = Extended(alerts, keys, row)
    BY <2>1, <2>2, <1>2
  <2>4. PICK new : new = alerts'
    OBVIOUS
  <2>5. DOMAIN new = DOMAIN alerts \union keys /\ \A k \in DOMAIN alerts : new[k] = alerts[k]
    <3>1. new = Extended(alerts, keys, row)
      BY <2>3, <2>4
    <3> QED
      BY <3>1 DEF Extended
  <2> QED
    BY <2>1, <2>4, <2>5
<1>4. Affected' = Affected
  BY <1>2 DEF Affected, AllVersions, CapturedAs
<1>5. signals \in Nat /\ signals' \in 0 .. MaxSignals
  BY <1>2, AnnotationConstants DEF MonitoringInv
<1>6. \A k \in DOMAIN alerts' : k[1] \in 1 .. signals' /\ k[2] \in Affected
  BY <1>2, <1>3, <1>5 DEF MonitoringInv
<1>7. \A g \in Handlers : req'[g].pc = "signal" => req'[g].affected \subseteq Affected
  <2>1. \A g \in Handlers : req'[g] = IF g = h THEN Idle ELSE req[g]
    BY <1>2 DEF TypeOK
  <2>2. Idle.pc # "signal"
    BY DEF Idle
  <2> QED
    BY <2>1, <2>2 DEF MonitoringInv
<1> QED
  BY <1>3, <1>4, <1>5, <1>6, <1>7 DEF MonitoringInv, AlertsKept

\* An alert is resolved while it is open, and then is not.
LEMMA ResolveProposalStep ==
    ASSUME TypeOK, MonitoringInv, HistoryInv, NEW k \in DOMAIN alerts, NEW e \in Staff,
           NEW as \in {"updated", "dismissed"}, ResolveProposal(k, as, e)
    PROVE  MonitoringInv' /\ HistoryInv'
<1>1. PICK row : row = [status |-> as, by |-> e]
  OBVIOUS
<1>2. PICK t : t = [what |-> [alert |-> k], as |-> as, by |-> e]
  OBVIOUS
<1>3. /\ Open(alerts[k].status) /\ alerts' = [alerts EXCEPT ![k] = row]
      /\ resolutions' = resolutions \union {t}
      /\ UNCHANGED <<vars, signals, execution, exchange, protocols, receipts>>
  BY <1>1, <1>2 DEF ResolveProposal, Told
<1>4. DOMAIN alerts' = DOMAIN alerts
      /\ \A j \in DOMAIN alerts : alerts'[j] = IF j = k THEN row ELSE alerts[j]
  BY <1>3
<1>5. AlertsKept
  BY <1>3, <1>4 DEF AlertsKept
<1>6. RowsKept
  BY <1>3, <1>5, UntouchedRows DEF RowsKept
<1>7. ResolutionHolds(t)'
  <2>1. t.what = [alert |-> k] /\ t.as = as /\ t.by = e /\ row.status = as /\ row.by = e
    BY <1>1, <1>2
  <2>2. ~Open(as)
    BY DEF Open
  <2> QED
    BY <2>1, <2>2, <1>4 DEF ResolutionHolds, Says
<1>8. HistoryInv'
  BY <1>3, <1>6, <1>7, HistoryStep
<1>9. UNCHANGED <<versions, submissions, req, signals>>
  BY <1>3 DEF vars, reviews, intake
<1>10. Affected' = Affected
  BY <1>9 DEF Affected, AllVersions, CapturedAs
<1> QED
  BY <1>4, <1>8, <1>9, <1>10 DEF MonitoringInv

-----------------------------------------------------------------------------
(* Execution passports *)

ExecutionPcs == {"register", "load", "verdict"}

VerdictRows == [ok : BOOLEAN, by : Staff, checkedAt : Nat]

\* The revision an editor expects is not above the row's, which only grows; what was
\* checked was read in between.
CheckerHolds(l) ==
    /\ l.pc \in ExecutionPcs => l.passport \in Passports
    /\ l.pc \in {"load", "verdict"} =>
          /\ passports[l.passport] # Nothing /\ l.by \in Staff /\ l.revision \in Nat
          /\ l.revision <= passports[l.passport].revision
    /\ l.pc = "verdict" =>
          /\ l.ok \in BOOLEAN /\ l.checkedAt \in Nat
          /\ l.revision <= l.checkedAt /\ l.checkedAt <= passports[l.passport].revision

PassportsHold ==
    /\ passports \in [Passports -> {Nothing} \union PassportRows]
    /\ verdicts \in [Passports -> Seq(VerdictRows)]
    /\ \A p \in Passports : passports[p] = Nothing => verdicts[p] = <<>>
    /\ VerdictsAreConsecutive

ExecutionInv == PassportsHold /\ \A h \in Handlers : CheckerHolds(req[h])

PassportsGrow ==
    \A p \in Passports : passports[p] # Nothing =>
        passports'[p] # Nothing /\ passports[p].revision <= passports'[p].revision
        /\ passports[p].revision \in Nat /\ passports'[p].revision \in Nat

LEMMA PassportTypes ==
    ASSUME PassportsHold
    PROVE  /\ \A row \in PassportRows : row # Nothing
           /\ \A p \in Passports : passports[p] # Nothing =>
                 passports[p] \in PassportRows /\ passports[p].revision \in Nat
BY AnnotationConstants DEF PassportsHold, PassportRows

LEMMA CheckerStays ==
    ASSUME NEW l, CheckerHolds(l), PassportsGrow
    PROVE  CheckerHolds(l)'
BY DEF CheckerHolds, PassportsGrow, ExecutionPcs

LEMMA ExecutionStays ==
    ASSUME ExecutionInv, UNCHANGED execution, Avoids(ExecutionPcs)
    PROVE  ExecutionInv'
<1>1. UNCHANGED <<passports, verdicts>>
  BY DEF execution
<1>2. PassportsHold'
  BY <1>1 DEF ExecutionInv, PassportsHold, VerdictsAreConsecutive
<1>3. ASSUME NEW h \in Handlers PROVE CheckerHolds(req[h])'
  <2>1. CASE req'[h] = req[h]
    BY <1>1, <2>1 DEF ExecutionInv, CheckerHolds
  <2>2. CASE req'[h].pc \notin ExecutionPcs
    BY <2>2 DEF CheckerHolds, ExecutionPcs
  <2> QED
    BY <2>1, <2>2 DEF Avoids
<1> QED
  BY <1>2, <1>3 DEF ExecutionInv

LEMMA CheckerStep ==
    ASSUME TypeOK, ExecutionInv, PassportsHold', PassportsGrow, NEW h \in Handlers, NEW l,
           CheckerHolds(l)', req' = [req EXCEPT ![h] = l]
    PROVE  ExecutionInv'
<1> SUFFICES ASSUME NEW g \in Handlers PROVE CheckerHolds(req[g])'
  BY DEF ExecutionInv
<1>1. req'[g] = IF g = h THEN l ELSE req[g]
  BY DEF TypeOK
<1>2. PICK k : k = req'[g]
  OBVIOUS
<1>3. CheckerHolds(k)'
  BY <1>1, <1>2, CheckerStays DEF ExecutionInv
<1> QED
  BY <1>2, <1>3 DEF CheckerHolds

\* A handler reads, or checks.
LEMMA CheckStep ==
    ASSUME TypeOK, ExecutionInv, NEW h \in Handlers,
           \/ \E p \in Passports : BeginPassport(h, p)
           \/ \E p \in Passports, e \in Staff : LoadPassport(h, p, e)
           \/ \E trusted \in BOOLEAN : CheckPassport(h, trusted)
    PROVE  ExecutionInv' /\ UNCHANGED execution /\ UNCHANGED history
<1>1. UNCHANGED <<passports, verdicts, execution, history>>
  BY DEF BeginPassport, LoadPassport, CheckPassport, annotations, execution, history
<1>2. PassportsHold /\ PassportsHold'
  BY <1>1 DEF ExecutionInv, PassportsHold, VerdictsAreConsecutive
<1>3. PassportsGrow
  BY <1>1, <1>2, PassportTypes DEF PassportsGrow
<1>4. \E l : CheckerHolds(l) /\ req' = [req EXCEPT ![h] = l]
  <2>1. ASSUME NEW p \in Passports, BeginPassport(h, p)
        PROVE  \E l : CheckerHolds(l) /\ req' = [req EXCEPT ![h] = l]
    <3>1. PICK l : l = [pc |-> "register", passport |-> p]
      OBVIOUS
    <3>2. CheckerHolds(l) /\ req' = [req EXCEPT ![h] = l]
      BY <2>1, <3>1 DEF CheckerHolds, BeginPassport, Hold
    <3> QED
      BY <3>2
  <2>2. ASSUME NEW p \in Passports, NEW e \in Staff, LoadPassport(h, p, e)
        PROVE  \E l : CheckerHolds(l) /\ req' = [req EXCEPT ![h] = l]
    <3>1. PICK l : l = [pc |-> "load", passport |-> p, by |-> e, revision |-> passports[p].revision]
      OBVIOUS
    <3>2. passports[p] # Nothing /\ passports[p].revision \in Nat
      BY <2>2, <1>2, PassportTypes DEF LoadPassport
    <3>3. CheckerHolds(l) /\ req' = [req EXCEPT ![h] = l]
      BY <2>2, <3>1, <3>2 DEF CheckerHolds, LoadPassport, Hold
    <3> QED
      BY <3>3
  <2>3. ASSUME NEW trusted \in BOOLEAN, CheckPassport(h, trusted)
        PROVE  \E l : CheckerHolds(l) /\ req' = [req EXCEPT ![h] = l]
    <3>1. PICK old : old = req[h]
      OBVIOUS
    <3>2. old.pc = "load" /\ old.passport \in Passports /\ passports[old.passport] # Nothing
          /\ old.by \in Staff /\ old.revision \in Nat
          /\ old.revision <= passports[old.passport].revision
      BY <2>3, <3>1 DEF CheckPassport, ExecutionInv, CheckerHolds, ExecutionPcs
    <3>3. passports[old.passport].revision \in Nat
      BY <3>2, <1>2, PassportTypes
    <3>4. PICK ok \in BOOLEAN : ok = (trusted /\ IsReadable(Binds[old.passport]))
      OBVIOUS
    <3>5. PICK l : l = [pc |-> "verdict", passport |-> old.passport, by |-> old.by,
                        revision |-> old.revision, ok |-> ok,
                        checkedAt |-> passports[old.passport].revision]
      OBVIOUS
    <3>6. req' = [req EXCEPT ![h] = l]
      BY <2>3, <3>1, <3>4, <3>5 DEF CheckPassport, Hold
    <3>7. CheckerHolds(l)
      BY <3>2, <3>3, <3>4, <3>5 DEF CheckerHolds
    <3> QED
      BY <3>6, <3>7
  <2> QED
    BY <2>1, <2>2, <2>3
<1>5. PICK l : CheckerHolds(l) /\ req' = [req EXCEPT ![h] = l]
  BY <1>4
<1>6. CheckerHolds(l)'
  BY <1>3, <1>5, CheckerStays
<1> QED
  BY <1>1, <1>2, <1>3, <1>5, <1>6, CheckerStep

LEMMA RegisterPassportStep ==
    ASSUME TypeOK, ExecutionInv, NEW h \in Handlers, RegisterExecutionPassport(h)
    PROVE  ExecutionInv' /\ VerdictsKept /\ UNCHANGED history
<1>1. PassportsHold
  BY DEF ExecutionInv
<1>2. PICK p \in Passports : p = req[h].passport
  BY DEF RegisterExecutionPassport, ExecutionInv, CheckerHolds, ExecutionPcs
<1>3. PICK row : row = [status |-> "verified", revision |-> 0]
  OBVIOUS
<1>4. passports[p] = Nothing /\ passports' = [passports EXCEPT ![p] = row] /\ Finish(h)
      /\ UNCHANGED <<verdicts, history>>
  BY <1>2, <1>3 DEF RegisterExecutionPassport
<1>5. row \in PassportRows /\ row.revision = 0 /\ row.status = "verified" /\ row # Nothing
  BY <1>1, <1>3, PassportTypes DEF PassportRows
<1>6. \A q \in Passports : passports'[q] = IF q = p THEN row ELSE passports[q]
  BY <1>1, <1>4 DEF PassportsHold
<1>7. verdicts[p] = <<>> /\ Len(verdicts[p]) = 0 /\ DOMAIN verdicts[p] = {}
  <2>1. verdicts[p] = <<>>
    BY <1>1, <1>4 DEF PassportsHold
  <2> QED
    BY <2>1
<1>8. PassportsHold'
  <2>1. passports' \in [Passports -> {Nothing} \union PassportRows]
    BY <1>1, <1>4, <1>5 DEF PassportsHold
  <2>2. VerdictsAreConsecutive'
    BY <1>1, <1>4, <1>5, <1>6, <1>7 DEF PassportsHold, VerdictsAreConsecutive
  <2> QED
    BY <1>1, <1>4, <1>5, <1>6, <2>1, <2>2 DEF PassportsHold
<1>9. PassportsGrow
  BY <1>1, <1>4, <1>6, PassportTypes DEF PassportsGrow
<1>10. CheckerHolds(Idle)'
  BY DEF CheckerHolds, Idle, ExecutionPcs
<1> QED
  BY <1>4, <1>8, <1>9, <1>10, CheckerStep DEF Finish, VerdictsKept

\* The revision compared is the number of verdicts, so what was checked is what the last
\* verdict left.
LEMMA WriteVerdictStep ==
    ASSUME TypeOK, ExecutionInv, HistoryInv, NEW h \in Handlers, WriteVerdict(h)
    PROVE  ExecutionInv' /\ HistoryInv'
<1>1. PassportsHold
  BY DEF ExecutionInv
<1>2. PICK l : l = req[h]
  OBVIOUS
<1>3. /\ l.pc = "verdict" /\ l.passport \in Passports /\ passports[l.passport] # Nothing
      /\ l.by \in Staff /\ l.revision \in Nat /\ l.ok \in BOOLEAN /\ l.checkedAt \in Nat
      /\ l.revision <= l.checkedAt /\ l.checkedAt <= passports[l.passport].revision
      /\ passports[l.passport].revision = l.revision
  BY <1>2 DEF WriteVerdict, SameRevision, ExecutionInv, CheckerHolds, ExecutionPcs
<1>4. PICK p \in Passports : p = l.passport
  BY <1>3
<1>5. PICK verdict : verdict = [ok |-> l.ok, by |-> l.by, checkedAt |-> l.checkedAt]
  OBVIOUS
<1>6. PICK row : row = [status |-> IF verdict.ok THEN "verified" ELSE "failed",
                        revision |-> l.revision + 1]
  OBVIOUS
<1>7. PICK t : t = [what |-> [passport |-> p, revision |-> l.revision + 1], as |-> "verified",
                    by |-> verdict.by]
  OBVIOUS
<1>8. /\ passports' = [passports EXCEPT ![p] = row]
      /\ verdicts' = [verdicts EXCEPT ![p] = Append(verdicts[p], verdict)]
      /\ UNCHANGED resolutions \/ (verdict.ok /\ resolutions' = resolutions \union {t})
      /\ Finish(h)
      /\ UNCHANGED <<monitoring, exchange, protocols, receipts>>
  BY <1>1, <1>2, <1>3, <1>4, <1>5, <1>6, <1>7 DEF WriteVerdict, Told, PassportsHold
<1>9. verdict \in VerdictRows /\ verdict.ok = l.ok /\ verdict.checkedAt = l.revision
      /\ l.revision = Len(verdicts[p])
  <2>1. l.checkedAt = l.revision
    BY <1>3, <1>4
  <2>2. passports[p].revision = Len(verdicts[p])
    BY <1>1, <1>3, <1>4 DEF PassportsHold, VerdictsAreConsecutive
  <2> QED
    BY <2>1, <2>2, <1>3, <1>4, <1>5 DEF VerdictRows
<1>10. row \in PassportRows /\ row.revision = l.revision + 1 /\ row # Nothing
       /\ row.status = (IF verdict.ok THEN "verified" ELSE "failed")
  BY <1>1, <1>3, <1>6, PassportTypes DEF PassportRows
<1>11. \A q \in Passports : /\ passports'[q] = IF q = p THEN row ELSE passports[q]
                            /\ q # p => verdicts'[q] = verdicts[q]
  BY <1>1, <1>8 DEF PassportsHold
<1>12. verdicts'[p] = Append(verdicts[p], verdict) /\ verdicts[p] \in Seq(VerdictRows)
  BY <1>1, <1>8 DEF PassportsHold
<1>13. PICK last : last = Len(verdicts'[p])
  OBVIOUS
<1>14. /\ verdicts'[p] \in Seq(VerdictRows) /\ last = l.revision + 1
       /\ DOMAIN verdicts'[p] = DOMAIN verdicts[p] \union {last} /\ verdicts'[p] # <<>>
       /\ \A n \in DOMAIN verdicts[p] : verdicts'[p][n] = verdicts[p][n]
       /\ verdicts'[p][last] = verdict
  <2>1. PICK new : new = verdicts'[p]
    OBVIOUS
  <2>2. new = Append(verdicts[p], verdict) /\ last = Len(new) /\ verdict \in VerdictRows
    BY <2>1, <1>9, <1>12, <1>13
  <2>3. /\ new \in Seq(VerdictRows) /\ Len(new) = Len(verdicts[p]) + 1
        /\ DOMAIN new = DOMAIN verdicts[p] \union {Len(new)} /\ new # <<>>
        /\ \A n \in DOMAIN verdicts[p] : new[n] = verdicts[p][n]
        /\ new[Len(new)] = verdict
    BY <2>2, <1>12, OneMoreRow
  <2> QED
    BY <2>1, <2>2, <2>3, <1>9
<1>15. VerdictsAreConsecutive'
  <2> SUFFICES ASSUME NEW q \in Passports, passports'[q] # Nothing
               PROVE  /\ passports'[q].revision = Len(verdicts'[q])
                      /\ passports'[q].status = "failed" <=>
                            verdicts'[q] # <<>> /\ ~verdicts'[q][Len(verdicts'[q])].ok
                      /\ \A n \in DOMAIN verdicts'[q] : verdicts'[q][n].checkedAt = n - 1
    BY DEF VerdictsAreConsecutive
  <2>1. CASE q # p
    BY <2>1, <1>1, <1>11 DEF PassportsHold, VerdictsAreConsecutive
  <2>2. CASE q = p
    <3>1. \A n \in DOMAIN verdicts[p] : verdicts[p][n].checkedAt = n - 1
      BY <1>1, <1>3, <1>4 DEF PassportsHold, VerdictsAreConsecutive
    <3>2. verdict.checkedAt = last - 1
      BY <1>3, <1>9, <1>14
    <3>3. \A n \in DOMAIN verdicts'[p] : verdicts'[p][n].checkedAt = n - 1
      BY <3>1, <3>2, <1>14
    <3>4. passports'[p].status = "failed" <=> ~verdict.ok
      BY <1>10, <1>11
    <3> QED
      BY <2>2, <3>3, <3>4, <1>10, <1>11, <1>13, <1>14
  <2> QED
    BY <2>1, <2>2
<1>16. PassportsHold'
  <2>1. passports' \in [Passports -> {Nothing} \union PassportRows]
    BY <1>1, <1>8, <1>10 DEF PassportsHold
  <2>2. verdicts' \in [Passports -> Seq(VerdictRows)]
    <3>1. \A q \in Passports : verdicts'[q] \in Seq(VerdictRows)
      BY <1>1, <1>11, <1>14 DEF PassportsHold
    <3> QED
      BY <3>1, <1>1, <1>8 DEF PassportsHold
  <2> QED
    BY <1>1, <1>10, <1>11, <1>15, <2>1, <2>2 DEF PassportsHold
<1>17. PassportsGrow
  BY <1>1, <1>3, <1>4, <1>10, <1>11, PassportTypes DEF PassportsGrow
<1>18. CheckerHolds(Idle)'
  BY DEF CheckerHolds, Idle, ExecutionPcs
<1>19. ExecutionInv'
  BY <1>8, <1>16, <1>17, <1>18, CheckerStep DEF Finish
<1>20. VerdictsKept
  BY <1>11, <1>14 DEF VerdictsKept
<1>21. RowsKept
  BY <1>8, <1>20, UntouchedRows DEF RowsKept
<1>22. verdict.ok => ResolutionHolds(t)'
  <2>1. t.what = [passport |-> p, revision |-> last] /\ t.by = verdict.by
    BY <1>7, <1>14
  <2> QED
    BY <2>1, <1>14 DEF ResolutionHolds
<1>23. HistoryInv'
  BY <1>8, <1>21, <1>22, HistoryStep
<1> QED
  BY <1>19, <1>23

-----------------------------------------------------------------------------
(* Notifications *)

ExchangePcs == {"receive", "announce"}

\* An announcement, sent or about to be, answers a review request that was accepted; the
\* row is resolved, so it stays.
Answers(x) ==
    /\ x.to \in Activities /\ notes[x.to] # Nothing
    /\ notes[x.to].status = "accepted"
    /\ notes[x.to].content = x.about /\ x.about \in ReviewRequests

CourierHolds(l) ==
    /\ l.pc = "receive" => l.activity \in Activities /\ l.payload \in Payloads
    /\ l.pc = "announce" => Answers(l.answer)

ExchangeInv ==
    /\ notes \in [Activities -> {Nothing} \union NoteRows]
    /\ \A x \in announcements : Answers(x)
    /\ \A h \in Handlers : CourierHolds(req[h])

LEMMA NoteTypes ==
    ASSUME ExchangeInv
    PROVE  /\ \A row \in NoteRows : row # Nothing
           /\ \A a \in Activities : notes[a] # Nothing => notes[a] \in NoteRows
BY AnnotationConstants DEF ExchangeInv

LEMMA AnswersStay ==
    ASSUME NEW x, Answers(x), NotesKept
    PROVE  Answers(x)'
<1>1. ~Open("accepted")
  BY DEF Open
<1> QED
  BY <1>1 DEF Answers, NotesKept

LEMMA CourierStays ==
    ASSUME NEW l, CourierHolds(l), NotesKept
    PROVE  CourierHolds(l)'
<1>1. l.pc = "announce" => Answers(l.answer)'
  <2> PICK x : x = l.answer
    OBVIOUS
  <2>1. l.pc = "announce" => Answers(x)'
    BY AnswersStay DEF CourierHolds
  <2> QED
    BY <2>1
<1> QED
  BY <1>1 DEF CourierHolds

\* The notes are kept, and a handler goes on or not.
LEMMA CourierStep ==
    ASSUME TypeOK, ExchangeInv, NotesKept, notes' \in [Activities -> {Nothing} \union NoteRows],
           \A x \in announcements' : x \in announcements \/ Answers(x)',
           \A h \in Handlers : \E l : l = req'[h] /\ (l = req[h] \/ CourierHolds(l)')
    PROVE  ExchangeInv'
<1>1. \A x \in announcements' : Answers(x)'
  BY AnswersStay DEF ExchangeInv
<1>2. ASSUME NEW h \in Handlers PROVE CourierHolds(req[h])'
  <2>1. PICK l : l = req'[h] /\ (l = req[h] \/ CourierHolds(l)')
    OBVIOUS
  <2>2. CourierHolds(l)'
    BY <2>1, CourierStays DEF ExchangeInv
  <2> QED
    BY <2>1, <2>2 DEF CourierHolds
<1> QED
  BY <1>1, <1>2 DEF ExchangeInv

LEMMA ExchangeStays ==
    ASSUME TypeOK, ExchangeInv, UNCHANGED exchange, Avoids(ExchangePcs)
    PROVE  ExchangeInv'
<1>1. UNCHANGED <<notes, announcements>> /\ NotesKept
  BY UntouchedRows DEF exchange
<1>2. ASSUME NEW h \in Handlers PROVE \E l : l = req'[h] /\ (l = req[h] \/ CourierHolds(l)')
  <2> PICK l : l = req'[h]
    OBVIOUS
  <2>1. l = req[h] \/ CourierHolds(l)'
    BY DEF Avoids, ExchangePcs, CourierHolds
  <2> QED
    BY <2>1
<1> QED
  BY <1>1, <1>2, CourierStep DEF ExchangeInv

\* A handler with new locals, or that is done.
LEMMA CourierGoesOn ==
    ASSUME TypeOK, NEW g \in Handlers, NEW l, req' = [req EXCEPT ![g] = l], CourierHolds(l)'
    PROVE  \A h \in Handlers : \E k : k = req'[h] /\ (k = req[h] \/ CourierHolds(k)')
<1> SUFFICES ASSUME NEW h \in Handlers
             PROVE  \E k : k = req'[h] /\ (k = req[h] \/ CourierHolds(k)')
  OBVIOUS
<1>1. req'[h] = IF h = g THEN l ELSE req[h]
  BY DEF TypeOK
<1> PICK k : k = req'[h]
  OBVIOUS
<1>2. k = req[h] \/ CourierHolds(k)'
  BY <1>1
<1> QED
  BY <1>2

LEMMA IdleCourier == CourierHolds(Idle)'
BY DEF CourierHolds, Idle

LEMMA LookUpActivityStep ==
    ASSUME TypeOK, ExchangeInv, HistoryInv, NEW h \in Handlers, NEW a \in Activities,
           NEW payload \in Payloads, LookUpActivity(h, a, payload)
    PROVE  ExchangeInv' /\ HistoryInv'
<1>1. /\ UNCHANGED <<notes, announcements, resolutions, monitoring, execution, exchange, protocols>>
  BY DEF LookUpActivity, exchange
<1>2. NotesKept /\ RowsKept
  BY <1>1, UntouchedRows DEF RowsKept
<1>3. CASE notes[a] = Nothing
  <2>1. PICK l : l = [pc |-> "receive", activity |-> a, payload |-> payload]
    OBVIOUS
  <2>2. req' = [req EXCEPT ![h] = l] /\ UNCHANGED receipts
    BY <1>3, <2>1 DEF LookUpActivity, Hold
  <2>3. CourierHolds(l)'
    BY <2>1 DEF CourierHolds
  <2>4. ExchangeInv'
    BY <1>1, <1>2, <2>2, <2>3, CourierGoesOn, CourierStep DEF ExchangeInv
  <2> QED
    BY <1>1, <1>2, <2>2, <2>4, HistoryStays DEF history
<1>4. CASE notes[a] # Nothing
  <2>1. PICK t : t = [key |-> [activity |-> a], content |-> payload]
    OBVIOUS
  <2>2. notes[a].content = payload /\ receipts' = receipts \union {t} /\ UNCHANGED req
    BY <1>4, <2>1 DEF LookUpActivity, Same, Receipt
  <2>3. ReceiptHolds(t)'
    <3>1. t.key = [activity |-> a] /\ t.content = payload
      BY <2>1
    <3> QED
      BY <3>1, <1>1, <1>4, <2>2 DEF ReceiptHolds
  <2>4. ExchangeInv'
    BY <1>1, <2>2, ExchangeStays DEF Avoids
  <2> QED
    BY <1>1, <1>2, <2>2, <2>3, <2>4, HistoryStep
<1> QED
  BY <1>3, <1>4

LEMMA ReceiveStep ==
    ASSUME TypeOK, ExchangeInv, HistoryInv, NEW h \in Handlers, ReceiveFederationNotification(h)
    PROVE  ExchangeInv' /\ HistoryInv'
<1>1. req[h].activity \in Activities /\ req[h].payload \in Payloads
  BY DEF ReceiveFederationNotification, ExchangeInv, CourierHolds
<1>2. PICK a \in Activities : a = req[h].activity
  BY <1>1
<1>3. PICK payload \in Payloads : payload = req[h].payload
  BY <1>1
<1>4. PICK row : row = [content |-> payload, status |-> "pending", by |-> Nothing]
  OBVIOUS
<1>5. PICK t : t = [key |-> [activity |-> a], content |-> payload]
  OBVIOUS
<1>6. /\ \/ notes[a] = Nothing /\ notes' = [notes EXCEPT ![a] = row]
         \/ notes[a] # Nothing /\ notes[a].content = payload /\ UNCHANGED notes
      /\ receipts' = receipts \union {t}
      /\ req' = [req EXCEPT ![h] = Idle]
      /\ UNCHANGED <<announcements, monitoring, execution, protocols, resolutions>>
  BY <1>2, <1>3, <1>4, <1>5 DEF ReceiveFederationNotification, Same, Receipt, Finish
<1>7. row \in NoteRows /\ row.content = payload /\ row # Nothing
  BY <1>4, NoteTypes DEF NoteRows
<1>8. /\ notes' \in [Activities -> {Nothing} \union NoteRows]
      /\ notes'[a] # Nothing /\ notes'[a].content = payload
      /\ \A b \in Activities : notes[b] # Nothing => notes'[b] = notes[b]
  BY <1>6, <1>7 DEF ExchangeInv
<1>9. NotesKept /\ RowsKept
  BY <1>6, <1>8, UntouchedRows DEF NotesKept, RowsKept
<1>10. ExchangeInv'
  BY <1>6, <1>8, <1>9, IdleCourier, CourierGoesOn, CourierStep
<1>11. ReceiptHolds(t)'
  <2>1. t.key = [activity |-> a] /\ t.content = payload
    BY <1>5
  <2> QED
    BY <2>1, <1>8 DEF ReceiptHolds
<1>12. HistoryInv'
  BY <1>6, <1>9, <1>11, HistoryStep
<1> QED
  BY <1>10, <1>12

LEMMA ResolveNotificationStep ==
    ASSUME TypeOK, ExchangeInv, HistoryInv, NEW a \in Activities, NEW e \in Staff,
           NEW as \in {"accepted", "rejected"}, ResolveFederationNotification(a, as, e)
    PROVE  ExchangeInv' /\ HistoryInv'
<1>1. notes[a] # Nothing /\ Open(notes[a].status)
  BY DEF ResolveFederationNotification
<1>2. PICK old \in NoteRows : old = notes[a]
  BY <1>1, NoteTypes
<1>3. PICK new : new = [old EXCEPT !.status = as, !.by = e]
  OBVIOUS
<1>4. PICK t : t = [what |-> [activity |-> a], as |-> as, by |-> e]
  OBVIOUS
<1>5. /\ notes' = [notes EXCEPT ![a] = new]
      /\ resolutions' = resolutions \union {t}
      /\ UNCHANGED <<vars, announcements, monitoring, execution, protocols, receipts>>
  BY <1>2, <1>3, <1>4 DEF ResolveFederationNotification, Told, ExchangeInv
<1>6. new \in NoteRows /\ new.content = old.content /\ new.status = as /\ new.by = e /\ new # Nothing
  BY <1>2, <1>3, NoteTypes DEF NoteRows
<1>7. /\ notes' \in [Activities -> {Nothing} \union NoteRows]
      /\ \A b \in Activities : notes'[b] = IF b = a THEN new ELSE notes[b]
  BY <1>5, <1>6 DEF ExchangeInv
<1>8. NotesKept
  BY <1>1, <1>2, <1>6, <1>7 DEF NotesKept
<1>9. RowsKept
  BY <1>5, <1>8, UntouchedRows DEF RowsKept
<1>10. ExchangeInv'
  <2>1. UNCHANGED req
    BY <1>5 DEF vars
  <2> QED
    BY <2>1, <1>5, <1>7, <1>8, CourierStep
<1>11. ResolutionHolds(t)'
  <2>1. t.what = [activity |-> a] /\ t.as = as /\ t.by = e /\ ~Open(as)
    BY <1>4 DEF Open
  <2> QED
    BY <2>1, <1>6, <1>7 DEF ResolutionHolds, Says
<1>12. HistoryInv'
  BY <1>5, <1>9, <1>11, HistoryStep
<1> QED
  BY <1>10, <1>12

LEMMA AnnouncementStep ==
    ASSUME TypeOK, ExchangeInv, NEW h \in Handlers,
           \/ \E a \in Activities, v \in AllVersions : BeginAnnouncement(h, a, v)
           \/ PrepareAnnouncement(h)
    PROVE  ExchangeInv' /\ NotesKept /\ UNCHANGED history
<1>1. UNCHANGED <<notes, history>> /\ NotesKept
  <2>1. UNCHANGED <<notes, history>>
    BY DEF BeginAnnouncement, PrepareAnnouncement, annotations, exchange, history
  <2> QED
    BY <2>1 DEF NotesKept
<1>2. CASE \E a \in Activities, v \in AllVersions : BeginAnnouncement(h, a, v)
  <2> PICK a \in Activities, v \in AllVersions : BeginAnnouncement(h, a, v)
    BY <1>2
  <2>1. PICK x : x = [to |-> a, about |-> notes[a].content, version |-> v]
    OBVIOUS
  <2>2. PICK l : l = [pc |-> "announce", answer |-> x]
    OBVIOUS
  <2>3. Answers(x)
    BY <2>1 DEF Answers, BeginAnnouncement
  <2>4. CourierHolds(l)
    BY <2>2, <2>3 DEF CourierHolds
  <2>5. CourierHolds(l)'
    BY <2>4, <1>1, CourierStays
  <2>6. req' = [req EXCEPT ![h] = l] /\ UNCHANGED announcements
    BY <2>1, <2>2 DEF BeginAnnouncement, Hold, annotations, exchange
  <2> QED
    BY <1>1, <2>5, <2>6, CourierGoesOn, CourierStep DEF ExchangeInv
<1>3. CASE PrepareAnnouncement(h)
  <2>1. PICK x : x = req[h].answer
    OBVIOUS
  <2>2. announcements' = announcements \union {x} /\ req' = [req EXCEPT ![h] = Idle] /\ Answers(x)
    BY <1>3, <2>1 DEF PrepareAnnouncement, Finish, ExchangeInv, CourierHolds
  <2>3. Answers(x)'
    BY <1>1, <2>2, AnswersStay
  <2> QED
    BY <1>1, <2>2, <2>3, IdleCourier, CourierGoesOn, CourierStep DEF ExchangeInv
<1> QED
  BY <1>1, <1>2, <1>3

-----------------------------------------------------------------------------
(* Protocol drift *)

ProtocolsPcs == {"capture"}

SnapshotRows == [content : Contents, by : Staff \union {Nothing},
                 status : {"none", "open", "explained", "dismissed"}]

ProtocolsInv ==
    /\ \A k \in DOMAIN snapshots : k \in AllVersions \X SourceVersions /\ snapshots[k] \in SnapshotRows
    /\ \A h \in Handlers : req[h].pc = "capture" =>
          req[h].key \in AllVersions \X SourceVersions /\ req[h].content \in Contents

LEMMA TargetsGrow ==
    ASSUME TypeOK, ArchiveGrows, NEW k \in AllVersions \X SourceVersions
    PROVE  k \in AllVersions' \X SourceVersions
BY VersionsGrow

LEMMA ProtocolsStays ==
    ASSUME TypeOK, ProtocolsInv, ArchiveGrows, UNCHANGED protocols, Avoids(ProtocolsPcs)
    PROVE  ProtocolsInv'
<1>1. UNCHANGED snapshots
  BY DEF protocols
<1>2. \A h \in Handlers : req'[h].pc = "capture" => req'[h] = req[h]
  BY DEF Avoids, ProtocolsPcs
<1>3. \A h \in Handlers : req'[h].pc = "capture" =>
          req'[h].key \in AllVersions' \X SourceVersions /\ req'[h].content \in Contents
  BY <1>2, TargetsGrow DEF ProtocolsInv
<1>4. \A k \in DOMAIN snapshots : k \in AllVersions' \X SourceVersions /\ snapshots[k] \in SnapshotRows
  BY TargetsGrow DEF ProtocolsInv
<1> QED
  BY <1>1, <1>3, <1>4 DEF ProtocolsInv

LEMMA LookUpSnapshotStep ==
    ASSUME TypeOK, ProtocolsInv, HistoryInv, ArchiveGrows, NEW h \in Handlers, NEW v \in AllVersions,
           NEW source \in SourceVersions, NEW content \in Contents,
           LookUpSnapshot(h, v, source, content)
    PROVE  ProtocolsInv' /\ HistoryInv'
<1>1. UNCHANGED <<snapshots, versions, resolutions, monitoring, execution, exchange, protocols>>
  BY DEF LookUpSnapshot, protocols, reviews
<1>2. RowsKept
  BY <1>1, UntouchedRows DEF RowsKept
<1>3. AllVersions' = AllVersions
  BY <1>1 DEF AllVersions
<1>4. PICK k \in AllVersions \X SourceVersions : k = <<v, source>>
  OBVIOUS
<1>5. CASE k \notin DOMAIN snapshots
  <2>1. PICK l : l = [pc |-> "capture", key |-> k, content |-> content]
    OBVIOUS
  <2>2. req' = [req EXCEPT ![h] = l] /\ UNCHANGED receipts
    BY <1>4, <1>5, <2>1 DEF LookUpSnapshot, Hold
  <2>3. \A g \in Handlers : req'[g] = IF g = h THEN l ELSE req[g]
    BY <2>2 DEF TypeOK
  <2>4. l.key = k /\ l.content = content
    BY <2>1
  <2>5. ProtocolsInv'
    BY <1>1, <1>3, <1>4, <2>3, <2>4 DEF ProtocolsInv
  <2> QED
    BY <1>1, <1>2, <2>2, <2>5, HistoryStays DEF history
<1>6. CASE k \in DOMAIN snapshots
  <2>1. PICK t : t = [key |-> [snapshot |-> k], content |-> content]
    OBVIOUS
  <2>2. snapshots[k].content = content /\ receipts' = receipts \union {t} /\ UNCHANGED req
    BY <1>4, <1>6, <2>1 DEF LookUpSnapshot, Same, Receipt
  <2>3. ReceiptHolds(t)'
    <3>1. t.key = [snapshot |-> k] /\ t.content = content
      BY <2>1
    <3> QED
      BY <3>1, <1>1, <1>6, <2>2 DEF ReceiptHolds
  <2>4. ProtocolsInv'
    BY <1>1, <2>2, ProtocolsStays DEF Avoids
  <2> QED
    BY <1>1, <1>2, <2>2, <2>3, <2>4, HistoryStep
<1> QED
  BY <1>5, <1>6

LEMMA RegisterSnapshotStep ==
    ASSUME TypeOK, ProtocolsInv, HistoryInv, ArchiveGrows, NEW h \in Handlers,
           RegisterProtocolSnapshot(h)
    PROVE  ProtocolsInv' /\ HistoryInv'
<1>1. req[h].key \in AllVersions \X SourceVersions /\ req[h].content \in Contents
  BY DEF RegisterProtocolSnapshot, ProtocolsInv
<1>2. PICK k \in AllVersions \X SourceVersions : k = req[h].key
  BY <1>1
<1>3. PICK content \in Contents : content = req[h].content
  BY <1>1
<1>4. PICK row : row = [content |-> content, by |-> Nothing,
                        status |-> IF content \in Differing THEN "open" ELSE "none"]
  OBVIOUS
<1>5. PICK t : t = [key |-> [snapshot |-> k], content |-> content]
  OBVIOUS
<1>6. /\ \/ k \notin DOMAIN snapshots /\ snapshots' = Extended(snapshots, {k}, row)
         \/ k \in DOMAIN snapshots /\ snapshots[k].content = content /\ UNCHANGED snapshots
      /\ receipts' = receipts \union {t}
      /\ req' = [req EXCEPT ![h] = Idle]
      /\ UNCHANGED <<versions, monitoring, execution, exchange, resolutions>>
  BY <1>2, <1>3, <1>4, <1>5 DEF RegisterProtocolSnapshot, Same, Receipt, Finish, reviews
<1>7. row \in SnapshotRows /\ row.content = content
  BY <1>4 DEF SnapshotRows
<1>8. /\ DOMAIN snapshots' = DOMAIN snapshots \union {k}
      /\ \A j \in DOMAIN snapshots : snapshots'[j] = snapshots[j]
      /\ snapshots'[k] \in SnapshotRows /\ snapshots'[k].content = content
  <2>1. CASE k \notin DOMAIN snapshots
    BY <1>6, <1>7, <2>1 DEF Extended
  <2>2. CASE k \in DOMAIN snapshots
    BY <1>6, <2>2 DEF ProtocolsInv
  <2> QED
    BY <2>1, <2>2
<1>9. SnapshotsKept /\ RowsKept
  BY <1>6, <1>8, UntouchedRows DEF SnapshotsKept, RowsKept
<1>10. AllVersions' = AllVersions
  BY <1>6 DEF AllVersions
<1>11. ProtocolsInv'
  <2>1. \A g \in Handlers : req'[g] = IF g = h THEN Idle ELSE req[g]
    BY <1>6 DEF TypeOK
  <2>2. Idle.pc # "capture"
    BY DEF Idle
  <2>3. \A g \in Handlers : req'[g].pc = "capture" =>
            req'[g].key \in AllVersions \X SourceVersions /\ req'[g].content \in Contents
    BY <2>1, <2>2 DEF ProtocolsInv
  <2>4. \A j \in DOMAIN snapshots' :
            j \in AllVersions \X SourceVersions /\ snapshots'[j] \in SnapshotRows
    BY <1>8 DEF ProtocolsInv
  <2> QED
    BY <1>10, <2>3, <2>4 DEF ProtocolsInv
<1>12. ReceiptHolds(t)'
  <2>1. t.key = [snapshot |-> k] /\ t.content = content
    BY <1>5
  <2> QED
    BY <2>1, <1>8 DEF ReceiptHolds
<1>13. HistoryInv'
  BY <1>6, <1>9, <1>12, HistoryStep
<1> QED
  BY <1>11, <1>13

LEMMA ResolveProtocolStep ==
    ASSUME TypeOK, ProtocolsInv, HistoryInv, NEW k \in DOMAIN snapshots, NEW e \in Staff,
           NEW as \in {"explained", "dismissed"}, ResolveProtocolProposal(k, as, e)
    PROVE  ProtocolsInv' /\ HistoryInv'
<1>1. PICK old \in SnapshotRows : old = snapshots[k]
  BY DEF ProtocolsInv
<1>2. PICK new : new = [old EXCEPT !.status = as, !.by = e]
  OBVIOUS
<1>3. PICK t : t = [what |-> [snapshot |-> k], as |-> as, by |-> e]
  OBVIOUS
<1>4. /\ Open(old.status) /\ snapshots' = [snapshots EXCEPT ![k] = new]
      /\ resolutions' = resolutions \union {t}
      /\ UNCHANGED <<vars, monitoring, execution, exchange, receipts>>
  BY <1>1, <1>2, <1>3 DEF ResolveProtocolProposal, Told
<1>5. new \in SnapshotRows /\ new.content = old.content /\ new.status = as /\ new.by = e
  BY <1>1, <1>2 DEF SnapshotRows
<1>6. DOMAIN snapshots' = DOMAIN snapshots
      /\ \A j \in DOMAIN snapshots : snapshots'[j] = IF j = k THEN new ELSE snapshots[j]
  BY <1>4
<1>7. SnapshotsKept
  BY <1>1, <1>4, <1>5, <1>6 DEF SnapshotsKept
<1>8. RowsKept
  BY <1>4, <1>7, UntouchedRows DEF RowsKept
<1>9. UNCHANGED <<versions, req>>
  BY <1>4 DEF vars, reviews
<1>10. AllVersions' = AllVersions
  BY <1>9 DEF AllVersions
<1>11. ProtocolsInv'
  BY <1>5, <1>6, <1>9, <1>10 DEF ProtocolsInv
<1>12. ResolutionHolds(t)'
  <2>1. t.what = [snapshot |-> k] /\ t.as = as /\ t.by = e /\ ~Open(as)
    BY <1>3 DEF Open
  <2> QED
    BY <2>1, <1>5, <1>6 DEF ResolutionHolds, Says
<1>13. HistoryInv'
  BY <1>4, <1>8, <1>12, HistoryStep
<1> QED
  BY <1>11, <1>13

-----------------------------------------------------------------------------
(* The steps together *)

\* A step of one kind of annotations: a handler of that kind goes on or is done.
GoesOnWithin(pcs) ==
    \E h \in Handlers : \E l : l.pc \in pcs \union {"idle"} /\ req' = [req EXCEPT ![h] = l]

MovesWithin(pcs) ==
    /\ UNCHANGED <<intake, reviews, briefs>>
    /\ UNCHANGED req \/ GoesOnWithin(pcs)

LEMMA HeldWithin ==
    ASSUME NEW pcs, NEW h \in Handlers, NEW l, l.pc \in pcs, Hold(h, l)
    PROVE  GoesOnWithin(pcs)
BY DEF Hold, GoesOnWithin

LEMMA DoneWithin ==
    ASSUME NEW pcs, NEW h \in Handlers, Finish(h)
    PROVE  GoesOnWithin(pcs)
<1>1. Idle.pc \in pcs \union {"idle"}
  BY DEF Idle
<1> QED
  BY <1>1 DEF Finish, GoesOnWithin

\* It comes to no statement of another kind, nor of the archive.
LEMMA MovesAvoid ==
    ASSUME TypeOK, NEW pcs, MovesWithin(pcs), NEW others, \A pc \in others : pc \notin pcs \union {"idle"}
    PROVE  Avoids(others)
<1>1. CASE UNCHANGED req
  BY <1>1 DEF Avoids
<1>2. CASE GoesOnWithin(pcs)
  <2> PICK h \in Handlers : \E l : l.pc \in pcs \union {"idle"} /\ req' = [req EXCEPT ![h] = l]
    BY <1>2 DEF GoesOnWithin
  <2> PICK l : l.pc \in pcs \union {"idle"} /\ req' = [req EXCEPT ![h] = l]
    OBVIOUS
  <2>1. \A g \in Handlers : req'[g] = IF g = h THEN l ELSE req[g]
    BY DEF TypeOK
  <2> QED
    BY <2>1 DEF Avoids
<1> QED
  BY <1>1, <1>2 DEF MovesWithin

LEMMA MovesAreLocal ==
    ASSUME ArchiveInv, NEW pcs, MovesWithin(pcs),
           \A pc \in pcs : pc \notin {"submission", "draft", "publish"}
    PROVE  ArchiveInv' /\ OpensOnCurrentEvidence /\ ArchiveGrows
<1>1. \/ UNCHANGED req
      \/ \E h \in Handlers : \E l : /\ l.pc \notin {"submission", "draft", "publish"}
                                    /\ req' = [req EXCEPT ![h] = l]
  BY DEF MovesWithin, GoesOnWithin
<1> QED
  BY <1>1, AnnotationLocal DEF MovesWithin

LEMMA DiscussionMoves ==
    ASSUME DiscussionInv, DiscussionNext
    PROVE  /\ MovesWithin(DiscussionPcs)
           /\ UNCHANGED monitoring /\ UNCHANGED execution /\ UNCHANGED exchange
           /\ UNCHANGED protocols /\ UNCHANGED history
<1>1. ASSUME NEW h \in Handlers, NEW r \in Reviews, NEW parent \in 0 .. MaxComments,
             LoadReview(h, r, parent)
      PROVE  /\ GoesOnWithin(DiscussionPcs)
             /\ UNCHANGED <<intake, reviews, briefs, monitoring, execution, exchange, protocols, history>>
  <2>1. PICK l : l = [pc |-> "review", review |-> r, parent |-> parent,
                      revision |-> Len(events[r]), snapshot |-> current[r]]
    OBVIOUS
  <2>2. l.pc \in DiscussionPcs /\ Hold(h, l)
    BY <1>1, <2>1 DEF LoadReview, DiscussionPcs
  <2> QED
    BY <1>1, <2>2, HeldWithin DEF LoadReview, annotations
<1>2. ASSUME NEW h \in Handlers, LoadVersion(h)
      PROVE  /\ GoesOnWithin(DiscussionPcs)
             /\ UNCHANGED <<intake, reviews, briefs, monitoring, execution, exchange, protocols, history>>
  <2>1. PICK r : r = req[h].review
    OBVIOUS
  <2>2. PICK l : l = [pc |-> IF req[h].parent = 0 THEN "post" ELSE "reply",
                      review |-> r, parent |-> req[h].parent,
                      revision |-> req[h].revision, snapshot |-> req[h].snapshot,
                      version |-> Newest(r), state |-> versions[r][Newest(r)].state]
    OBVIOUS
  <2>3. l.pc \in DiscussionPcs /\ Hold(h, l)
    BY <1>2, <2>1, <2>2 DEF LoadVersion, DiscussionPcs
  <2> QED
    BY <1>2, <2>3, HeldWithin DEF LoadVersion, annotations
<1>3. ASSUME NEW h \in Handlers, LoadParent(h)
      PROVE  /\ GoesOnWithin(DiscussionPcs)
             /\ UNCHANGED <<intake, reviews, briefs, monitoring, execution, exchange, protocols, history>>
  <2>1. PICK old : old = req[h]
    OBVIOUS
  <2>2. old \in [pc : {"reply", "post"}, review : Reviews, parent : DOMAIN comments \union {0},
                revision : Nat, snapshot : Commits, version : Nat, state : Readable]
    BY <1>3, <2>1 DEF LoadParent, DiscussionInv, WriterHolds
  <2>3. PICK l : l = [old EXCEPT !.pc = "post", !.parent = Thread(old.parent)]
    OBVIOUS
  <2>4. l.pc \in DiscussionPcs
    BY <2>2, <2>3 DEF DiscussionPcs
  <2>5. Hold(h, l)
    BY <1>3, <2>1, <2>3 DEF LoadParent
  <2> QED
    BY <1>3, <2>4, <2>5, HeldWithin DEF LoadParent, annotations
<1>4. ASSUME NEW h \in Handlers, Post(h)
      PROVE  /\ GoesOnWithin(DiscussionPcs)
             /\ UNCHANGED <<intake, reviews, briefs, monitoring, execution, exchange, protocols, history>>
  BY <1>4, DoneWithin DEF Post
<1>5. ASSUME NEW i \in DOMAIN comments, RemoveComment(i)
      PROVE  UNCHANGED <<intake, reviews, briefs, req, monitoring, execution, exchange, protocols, history>>
  BY <1>5 DEF RemoveComment, vars
<1> QED
  BY <1>1, <1>2, <1>3, <1>4, <1>5 DEF DiscussionNext, MovesWithin

LEMMA MonitoringMoves ==
    ASSUME MonitoringNext
    PROVE  /\ MovesWithin(MonitoringPcs)
           /\ UNCHANGED discussion /\ UNCHANGED execution /\ UNCHANGED exchange
           /\ UNCHANGED protocols /\ UNCHANGED receipts
<1>1. ASSUME NEW h \in Handlers, FindAffected(h)
      PROVE  /\ GoesOnWithin(MonitoringPcs)
             /\ UNCHANGED <<intake, reviews, briefs, discussion, execution, exchange, protocols, history>>
  <2>1. PICK l : l = [pc |-> "signal", affected |-> Affected]
    OBVIOUS
  <2>2. l.pc \in MonitoringPcs /\ Hold(h, l)
    BY <1>1, <2>1 DEF FindAffected, MonitoringPcs
  <2> QED
    BY <1>1, <2>2, HeldWithin DEF FindAffected, annotations
<1>2. ASSUME NEW h \in Handlers, RegisterCitationStatus(h)
      PROVE  /\ GoesOnWithin(MonitoringPcs)
             /\ UNCHANGED <<intake, reviews, briefs, discussion, execution, exchange, protocols, history>>
  BY <1>2, DoneWithin DEF RegisterCitationStatus
<1>3. ASSUME NEW k, NEW e, NEW as, ResolveProposal(k, as, e)
      PROVE  UNCHANGED <<intake, reviews, briefs, req, discussion, execution, exchange, protocols, receipts>>
  BY <1>3 DEF ResolveProposal, vars
<1> QED
  BY <1>1, <1>2, <1>3 DEF MonitoringNext, MovesWithin, history

LEMMA ExecutionMoves ==
    ASSUME ExecutionNext
    PROVE  /\ MovesWithin(ExecutionPcs)
           /\ UNCHANGED discussion /\ UNCHANGED monitoring /\ UNCHANGED exchange
           /\ UNCHANGED protocols /\ UNCHANGED receipts
<1> PICK h \in Handlers :
       \/ \E p \in Passports : BeginPassport(h, p)
       \/ RegisterExecutionPassport(h)
       \/ \E p \in Passports, e \in Staff : LoadPassport(h, p, e)
       \/ \E trusted \in BOOLEAN : CheckPassport(h, trusted)
       \/ WriteVerdict(h)
  BY DEF ExecutionNext
<1> DEFINE Others == /\ GoesOnWithin(ExecutionPcs)
                     /\ UNCHANGED <<intake, reviews, briefs, discussion, monitoring, exchange, protocols,
                                    receipts>>
<1>1. ASSUME NEW p \in Passports, BeginPassport(h, p) PROVE Others
  <2>1. PICK l : l = [pc |-> "register", passport |-> p]
    OBVIOUS
  <2>2. l.pc \in ExecutionPcs /\ Hold(h, l)
    BY <1>1, <2>1 DEF BeginPassport, ExecutionPcs
  <2> QED
    BY <1>1, <2>2, HeldWithin DEF BeginPassport, annotations, history
<1>2. ASSUME NEW p \in Passports, NEW e \in Staff, LoadPassport(h, p, e) PROVE Others
  <2>1. PICK l : l = [pc |-> "load", passport |-> p, by |-> e, revision |-> passports[p].revision]
    OBVIOUS
  <2>2. l.pc \in ExecutionPcs /\ Hold(h, l)
    BY <1>2, <2>1 DEF LoadPassport, ExecutionPcs
  <2> QED
    BY <1>2, <2>2, HeldWithin DEF LoadPassport, annotations, history
<1>3. ASSUME NEW trusted \in BOOLEAN, CheckPassport(h, trusted) PROVE Others
  <2>1. PICK p : p = req[h].passport
    OBVIOUS
  <2>2. PICK l : l = [pc |-> "verdict", passport |-> p, by |-> req[h].by, revision |-> req[h].revision,
                      ok |-> trusted /\ IsReadable(Binds[p]), checkedAt |-> passports[p].revision]
    OBVIOUS
  <2>3. l.pc \in ExecutionPcs
    BY <2>2 DEF ExecutionPcs
  <2>4. Hold(h, l)
    BY <1>3, <2>1, <2>2 DEF CheckPassport
  <2> QED
    BY <1>3, <2>3, <2>4, HeldWithin DEF CheckPassport, annotations, history
<1>4. ASSUME RegisterExecutionPassport(h) \/ WriteVerdict(h) PROVE Others
  BY <1>4, DoneWithin DEF RegisterExecutionPassport, WriteVerdict, history
<1> QED
  BY <1>1, <1>2, <1>3, <1>4 DEF MovesWithin

LEMMA ExchangeMoves ==
    ASSUME ExchangeNext
    PROVE  /\ MovesWithin(ExchangePcs)
           /\ UNCHANGED discussion /\ UNCHANGED monitoring /\ UNCHANGED execution
           /\ UNCHANGED protocols
<1> DEFINE Others == UNCHANGED <<intake, reviews, briefs, discussion, monitoring, execution, protocols>>
<1>1. ASSUME NEW h \in Handlers, NEW a \in Activities, NEW payload \in Payloads,
             LookUpActivity(h, a, payload)
      PROVE  (UNCHANGED req \/ GoesOnWithin(ExchangePcs)) /\ Others
  <2>1. PICK l : l = [pc |-> "receive", activity |-> a, payload |-> payload]
    OBVIOUS
  <2>2. l.pc \in ExchangePcs /\ (Hold(h, l) \/ UNCHANGED req)
    BY <1>1, <2>1 DEF LookUpActivity, ExchangePcs
  <2> QED
    BY <1>1, <2>2, HeldWithin DEF LookUpActivity
<1>2. ASSUME NEW h \in Handlers, NEW a \in Activities, NEW v \in AllVersions, BeginAnnouncement(h, a, v)
      PROVE  GoesOnWithin(ExchangePcs) /\ Others
  <2>1. PICK l : l = [pc |-> "announce",
                      answer |-> [to |-> a, about |-> notes[a].content, version |-> v]]
    OBVIOUS
  <2>2. l.pc \in ExchangePcs /\ Hold(h, l)
    BY <1>2, <2>1 DEF BeginAnnouncement, ExchangePcs
  <2> QED
    BY <1>2, <2>2, HeldWithin DEF BeginAnnouncement, annotations
<1>3. ASSUME NEW h \in Handlers, ReceiveFederationNotification(h) \/ PrepareAnnouncement(h)
      PROVE  GoesOnWithin(ExchangePcs) /\ Others
  BY <1>3, DoneWithin DEF ReceiveFederationNotification, PrepareAnnouncement
<1>4. ASSUME NEW a, NEW as, NEW e, ResolveFederationNotification(a, as, e)
      PROVE  UNCHANGED req /\ Others
  BY <1>4 DEF ResolveFederationNotification, vars
<1> QED
  BY <1>1, <1>2, <1>3, <1>4 DEF ExchangeNext, MovesWithin

LEMMA ProtocolsMoves ==
    ASSUME ProtocolsNext
    PROVE  /\ MovesWithin(ProtocolsPcs)
           /\ UNCHANGED discussion /\ UNCHANGED monitoring /\ UNCHANGED execution
           /\ UNCHANGED exchange
<1> DEFINE Others == UNCHANGED <<intake, reviews, briefs, discussion, monitoring, execution, exchange>>
<1>1. ASSUME NEW h \in Handlers, NEW v \in AllVersions, NEW source \in SourceVersions,
             NEW content \in Contents, LookUpSnapshot(h, v, source, content)
      PROVE  (UNCHANGED req \/ GoesOnWithin(ProtocolsPcs)) /\ Others
  <2>1. PICK k : k = <<v, source>>
    OBVIOUS
  <2>2. PICK l : l = [pc |-> "capture", key |-> k, content |-> content]
    OBVIOUS
  <2>3. l.pc \in ProtocolsPcs /\ (Hold(h, l) \/ UNCHANGED req)
    BY <1>1, <2>1, <2>2 DEF LookUpSnapshot, ProtocolsPcs
  <2> QED
    BY <1>1, <2>3, HeldWithin DEF LookUpSnapshot
<1>2. ASSUME NEW h \in Handlers, RegisterProtocolSnapshot(h)
      PROVE  GoesOnWithin(ProtocolsPcs) /\ Others
  BY <1>2, DoneWithin DEF RegisterProtocolSnapshot
<1>3. ASSUME NEW k, NEW as, NEW e, ResolveProtocolProposal(k, as, e)
      PROVE  UNCHANGED req /\ Others
  BY <1>3 DEF ResolveProtocolProposal, vars
<1> QED
  BY <1>1, <1>2, <1>3 DEF ProtocolsNext, MovesWithin

AnnotationsInv ==
    /\ ArchiveInv
    /\ DiscussionInv
    /\ MonitoringInv
    /\ ExecutionInv
    /\ ExchangeInv
    /\ ProtocolsInv
    /\ HistoryInv

LEMMA AnnotationsStart == AnnotationsInit /\ Init => AnnotationsInv
<1> SUFFICES ASSUME AnnotationsInit, Init PROVE AnnotationsInv
  OBVIOUS
<1>1. ArchiveInv /\ \A h \in Handlers : req[h] = Idle
  BY ArchiveStarts DEF Init
<1>2. DiscussionInv
  <2>1. comments = <<>> /\ <<>> \in Seq(CommentRows)
    BY DEF AnnotationsInit
  <2>2. CommentsHold
    BY <2>1 DEF CommentsHold
  <2> QED
    BY <1>1, <2>2 DEF DiscussionInv, WriterHolds, Idle
<1>3. MonitoringInv
  BY <1>1, AnnotationConstants DEF AnnotationsInit, MonitoringInv, Idle
<1>4. ExecutionInv
  <2>1. \A p \in Passports : passports[p] = Nothing /\ verdicts[p] = <<>>
    BY DEF AnnotationsInit
  <2>2. passports \in [Passports -> {Nothing} \union PassportRows]
    BY DEF AnnotationsInit
  <2>3. verdicts \in [Passports -> Seq(VerdictRows)]
    BY DEF AnnotationsInit
  <2>4. VerdictsAreConsecutive
    BY <2>1 DEF VerdictsAreConsecutive
  <2> QED
    BY <1>1, <2>1, <2>2, <2>3, <2>4 DEF ExecutionInv, PassportsHold, CheckerHolds, ExecutionPcs, Idle
<1>5. ExchangeInv
  BY <1>1 DEF AnnotationsInit, ExchangeInv, CourierHolds, Idle
<1>6. ProtocolsInv
  BY <1>1 DEF AnnotationsInit, ProtocolsInv, Idle
<1>7. HistoryInv
  BY DEF AnnotationsInit, HistoryInv
<1> QED
  BY <1>1, <1>2, <1>3, <1>4, <1>5, <1>6, <1>7 DEF AnnotationsInv

\* Every step keeps the invariant and the two action properties.
StepsRight == AnnotationsInv' /\ OpensOnCurrentEvidence /\ CommentsOpen

LEMMA ArchiveStepRight ==
    ASSUME AnnotationsInv, Next, UNCHANGED annotations
    PROVE  StepsRight
<1>1. ArchiveInv' /\ OpensOnCurrentEvidence
  BY ArchiveSteps DEF AnnotationsInv
<1>2. ArchiveGrows /\ \A h \in Handlers : req'[h] = req[h] \/ req'[h].pc \in ArchivePcs
  BY ArchiveMoves DEF AnnotationsInv
<1>3. /\ Avoids(DiscussionPcs) /\ Avoids(MonitoringPcs) /\ Avoids(ExecutionPcs)
      /\ Avoids(ExchangePcs) /\ Avoids(ProtocolsPcs)
  BY <1>2 DEF Avoids, ArchivePcs, DiscussionPcs, MonitoringPcs, ExecutionPcs, ExchangePcs, ProtocolsPcs
<1>4. /\ UNCHANGED discussion /\ UNCHANGED monitoring /\ UNCHANGED execution /\ UNCHANGED exchange
      /\ UNCHANGED protocols /\ UNCHANGED history /\ UNCHANGED comments
  BY DEF annotations, discussion
<1>5. RowsKept /\ TypeOK
  BY <1>4, UntouchedRows, ArchiveInvIs DEF RowsKept, AnnotationsInv
<1> QED
  BY <1>1, <1>2, <1>3, <1>4, <1>5, DiscussionStays, MonitoringStays, ExecutionStays, ExchangeStays,
     ProtocolsStays, HistoryStays, SilentComments DEF AnnotationsInv, StepsRight

LEMMA DiscussionStepRight ==
    ASSUME AnnotationsInv, DiscussionNext
    PROVE  StepsRight
<1>1. /\ MovesWithin(DiscussionPcs)
      /\ UNCHANGED monitoring /\ UNCHANGED execution /\ UNCHANGED exchange
      /\ UNCHANGED protocols /\ UNCHANGED history
  BY DiscussionMoves DEF AnnotationsInv
<1>2. ArchiveInv' /\ OpensOnCurrentEvidence /\ ArchiveGrows /\ TypeOK
  BY <1>1, MovesAreLocal, ArchiveInvIs DEF AnnotationsInv, DiscussionPcs
<1>3. /\ Avoids(MonitoringPcs) /\ Avoids(ExecutionPcs) /\ Avoids(ExchangePcs) /\ Avoids(ProtocolsPcs)
  BY <1>1, <1>2, MovesAvoid DEF DiscussionPcs, MonitoringPcs, ExecutionPcs, ExchangePcs, ProtocolsPcs
<1>4. RowsKept
  BY <1>1, UntouchedRows DEF RowsKept
<1>5. DiscussionInv' /\ CommentsOpen
  <2>1. ASSUME NEW h \in Handlers, NEW r \in Reviews, NEW parent \in 0 .. MaxComments,
               LoadReview(h, r, parent)
        PROVE  DiscussionInv' /\ CommentsOpen
    BY <1>2, <2>1, LoadReviewStep, SilentComments DEF AnnotationsInv
  <2>2. ASSUME NEW h \in Handlers, LoadVersion(h) \/ LoadParent(h)
        PROVE  DiscussionInv' /\ CommentsOpen
    BY <1>2, <2>2, LoadVersionStep, LoadParentStep, SilentComments DEF AnnotationsInv
  <2>3. ASSUME NEW h \in Handlers, Post(h)
        PROVE  DiscussionInv' /\ CommentsOpen
    BY <1>2, <2>3, PostStep DEF AnnotationsInv
  <2>4. ASSUME NEW i \in DOMAIN comments, RemoveComment(i)
        PROVE  DiscussionInv' /\ CommentsOpen
    BY <1>2, <2>4, RemoveCommentStep DEF AnnotationsInv
  <2> QED
    BY <2>1, <2>2, <2>3, <2>4 DEF DiscussionNext
<1> QED
  BY <1>1, <1>2, <1>3, <1>4, <1>5, MonitoringStays, ExecutionStays, ExchangeStays,
     ProtocolsStays, HistoryStays DEF AnnotationsInv, StepsRight

LEMMA MonitoringStepRight ==
    ASSUME AnnotationsInv, MonitoringNext
    PROVE  StepsRight
<1>1. /\ MovesWithin(MonitoringPcs)
      /\ UNCHANGED discussion /\ UNCHANGED execution /\ UNCHANGED exchange
      /\ UNCHANGED protocols /\ UNCHANGED comments
  BY MonitoringMoves DEF discussion
<1>2. ArchiveInv' /\ OpensOnCurrentEvidence /\ ArchiveGrows /\ TypeOK
  BY <1>1, MovesAreLocal, ArchiveInvIs DEF AnnotationsInv, MonitoringPcs
<1>3. /\ Avoids(DiscussionPcs) /\ Avoids(ExecutionPcs) /\ Avoids(ExchangePcs) /\ Avoids(ProtocolsPcs)
  BY <1>1, <1>2, MovesAvoid DEF DiscussionPcs, MonitoringPcs, ExecutionPcs, ExchangePcs, ProtocolsPcs
<1>4. VerdictsKept /\ NotesKept /\ SnapshotsKept
  BY <1>1, UntouchedRows
<1>5. MonitoringInv' /\ HistoryInv'
  <2>1. ASSUME NEW h \in Handlers, FindAffected(h)
        PROVE  MonitoringInv' /\ HistoryInv'
    <3>1. MonitoringInv' /\ UNCHANGED monitoring /\ UNCHANGED history
      BY <1>2, <2>1, FindAffectedStep DEF AnnotationsInv
    <3> QED
      BY <1>4, <3>1, UntouchedRows, HistoryStays DEF AnnotationsInv, RowsKept
  <2>2. ASSUME NEW h \in Handlers, RegisterCitationStatus(h)
        PROVE  MonitoringInv' /\ HistoryInv'
    <3>1. MonitoringInv' /\ AlertsKept
      BY <1>2, <2>2, RegisterCitationStep DEF AnnotationsInv
    <3>2. UNCHANGED history
      BY <2>2 DEF RegisterCitationStatus
    <3> QED
      BY <1>4, <3>1, <3>2, HistoryStays DEF AnnotationsInv, RowsKept
  <2>3. ASSUME NEW k \in DOMAIN alerts, NEW e \in Staff, NEW as \in {"updated", "dismissed"},
               ResolveProposal(k, as, e)
        PROVE  MonitoringInv' /\ HistoryInv'
    BY <1>2, <2>3, ResolveProposalStep DEF AnnotationsInv
  <2> QED
    BY <2>1, <2>2, <2>3 DEF MonitoringNext
<1> QED
  BY <1>1, <1>2, <1>3, <1>5, DiscussionStays, ExecutionStays, ExchangeStays,
     ProtocolsStays, SilentComments DEF AnnotationsInv, StepsRight

LEMMA ExecutionStepRight ==
    ASSUME AnnotationsInv, ExecutionNext
    PROVE  StepsRight
<1>1. /\ MovesWithin(ExecutionPcs)
      /\ UNCHANGED discussion /\ UNCHANGED monitoring /\ UNCHANGED exchange
      /\ UNCHANGED protocols /\ UNCHANGED comments
  BY ExecutionMoves DEF discussion
<1>2. ArchiveInv' /\ OpensOnCurrentEvidence /\ ArchiveGrows /\ TypeOK
  BY <1>1, MovesAreLocal, ArchiveInvIs DEF AnnotationsInv, ExecutionPcs
<1>3. /\ Avoids(DiscussionPcs) /\ Avoids(MonitoringPcs) /\ Avoids(ExchangePcs) /\ Avoids(ProtocolsPcs)
  BY <1>1, <1>2, MovesAvoid DEF DiscussionPcs, MonitoringPcs, ExecutionPcs, ExchangePcs, ProtocolsPcs
<1>4. AlertsKept /\ NotesKept /\ SnapshotsKept
  BY <1>1, UntouchedRows
<1>5. ExecutionInv' /\ HistoryInv'
  <2> PICK h \in Handlers :
         \/ \E p \in Passports : BeginPassport(h, p)
         \/ RegisterExecutionPassport(h)
         \/ \E p \in Passports, e \in Staff : LoadPassport(h, p, e)
         \/ \E trusted \in BOOLEAN : CheckPassport(h, trusted)
         \/ WriteVerdict(h)
    BY DEF ExecutionNext
  <2>1. CASE \/ \E p \in Passports : BeginPassport(h, p)
             \/ \E p \in Passports, e \in Staff : LoadPassport(h, p, e)
             \/ \E trusted \in BOOLEAN : CheckPassport(h, trusted)
    <3>1. ExecutionInv' /\ UNCHANGED execution /\ UNCHANGED history
      BY <1>2, <2>1, CheckStep DEF AnnotationsInv
    <3> QED
      BY <1>4, <3>1, UntouchedRows, HistoryStays DEF AnnotationsInv, RowsKept
  <2>2. CASE RegisterExecutionPassport(h)
    <3>1. ExecutionInv' /\ VerdictsKept /\ UNCHANGED history
      BY <1>2, <2>2, RegisterPassportStep DEF AnnotationsInv
    <3> QED
      BY <1>4, <3>1, HistoryStays DEF AnnotationsInv, RowsKept
  <2>3. CASE WriteVerdict(h)
    BY <1>2, <2>3, WriteVerdictStep DEF AnnotationsInv
  <2> QED
    BY <2>1, <2>2, <2>3
<1> QED
  BY <1>1, <1>2, <1>3, <1>5, DiscussionStays, MonitoringStays, ExchangeStays,
     ProtocolsStays, SilentComments DEF AnnotationsInv, StepsRight

LEMMA ExchangeStepRight ==
    ASSUME AnnotationsInv, ExchangeNext
    PROVE  StepsRight
<1>1. /\ MovesWithin(ExchangePcs)
      /\ UNCHANGED discussion /\ UNCHANGED monitoring /\ UNCHANGED execution
      /\ UNCHANGED protocols /\ UNCHANGED comments
  BY ExchangeMoves DEF discussion
<1>2. ArchiveInv' /\ OpensOnCurrentEvidence /\ ArchiveGrows /\ TypeOK
  BY <1>1, MovesAreLocal, ArchiveInvIs DEF AnnotationsInv, ExchangePcs
<1>3. /\ Avoids(DiscussionPcs) /\ Avoids(MonitoringPcs) /\ Avoids(ExecutionPcs) /\ Avoids(ProtocolsPcs)
  BY <1>1, <1>2, MovesAvoid DEF DiscussionPcs, MonitoringPcs, ExecutionPcs, ExchangePcs, ProtocolsPcs
<1>4. AlertsKept /\ VerdictsKept /\ SnapshotsKept
  BY <1>1, UntouchedRows
<1>5. ExchangeInv' /\ HistoryInv'
  <2>1. ASSUME NEW h \in Handlers, NEW a \in Activities, NEW payload \in Payloads,
               LookUpActivity(h, a, payload)
        PROVE  ExchangeInv' /\ HistoryInv'
    BY <1>2, <2>1, LookUpActivityStep DEF AnnotationsInv
  <2>2. ASSUME NEW h \in Handlers, ReceiveFederationNotification(h)
        PROVE  ExchangeInv' /\ HistoryInv'
    BY <1>2, <2>2, ReceiveStep DEF AnnotationsInv
  <2>3. ASSUME NEW h \in Handlers,
               \/ \E a \in Activities, v \in AllVersions : BeginAnnouncement(h, a, v)
               \/ PrepareAnnouncement(h)
        PROVE  ExchangeInv' /\ HistoryInv'
    <3>1. ExchangeInv' /\ NotesKept /\ UNCHANGED history
      BY <1>2, <2>3, AnnouncementStep DEF AnnotationsInv
    <3> QED
      BY <1>4, <3>1, HistoryStays DEF AnnotationsInv, RowsKept
  <2>4. ASSUME NEW a \in Activities, NEW e \in Staff, NEW as \in {"accepted", "rejected"},
               ResolveFederationNotification(a, as, e)
        PROVE  ExchangeInv' /\ HistoryInv'
    BY <1>2, <2>4, ResolveNotificationStep DEF AnnotationsInv
  <2> QED
    BY <2>1, <2>2, <2>3, <2>4 DEF ExchangeNext
<1> QED
  BY <1>1, <1>2, <1>3, <1>5, DiscussionStays, MonitoringStays, ExecutionStays,
     ProtocolsStays, SilentComments DEF AnnotationsInv, StepsRight

LEMMA ProtocolsStepRight ==
    ASSUME AnnotationsInv, ProtocolsNext
    PROVE  StepsRight
<1>1. /\ MovesWithin(ProtocolsPcs)
      /\ UNCHANGED discussion /\ UNCHANGED monitoring /\ UNCHANGED execution
      /\ UNCHANGED exchange /\ UNCHANGED comments
  BY ProtocolsMoves DEF discussion
<1>2. ArchiveInv' /\ OpensOnCurrentEvidence /\ ArchiveGrows /\ TypeOK
  BY <1>1, MovesAreLocal, ArchiveInvIs DEF AnnotationsInv, ProtocolsPcs
<1>3. /\ Avoids(DiscussionPcs) /\ Avoids(MonitoringPcs) /\ Avoids(ExecutionPcs) /\ Avoids(ExchangePcs)
  BY <1>1, <1>2, MovesAvoid DEF DiscussionPcs, MonitoringPcs, ExecutionPcs, ExchangePcs, ProtocolsPcs
<1>5. ProtocolsInv' /\ HistoryInv'
  <2>1. ASSUME NEW h \in Handlers, NEW v \in AllVersions, NEW source \in SourceVersions,
               NEW content \in Contents, LookUpSnapshot(h, v, source, content)
        PROVE  ProtocolsInv' /\ HistoryInv'
    BY <1>2, <2>1, LookUpSnapshotStep DEF AnnotationsInv
  <2>2. ASSUME NEW h \in Handlers, RegisterProtocolSnapshot(h)
        PROVE  ProtocolsInv' /\ HistoryInv'
    BY <1>2, <2>2, RegisterSnapshotStep DEF AnnotationsInv
  <2>3. ASSUME NEW k \in DOMAIN snapshots, NEW e \in Staff, NEW as \in {"explained", "dismissed"},
               ResolveProtocolProposal(k, as, e)
        PROVE  ProtocolsInv' /\ HistoryInv'
    BY <1>2, <2>3, ResolveProtocolStep DEF AnnotationsInv
  <2> QED
    BY <2>1, <2>2, <2>3 DEF ProtocolsNext
<1> QED
  BY <1>1, <1>2, <1>3, <1>5, DiscussionStays, MonitoringStays, ExecutionStays,
     ExchangeStays, SilentComments DEF AnnotationsInv, StepsRight

LEMMA AnnotationsSteps ==
    AnnotationsInv /\ [AnnotationsNext]_annotatedVars => StepsRight
<1> SUFFICES ASSUME AnnotationsInv, [AnnotationsNext]_annotatedVars PROVE StepsRight
  OBVIOUS
<1>1. CASE UNCHANGED annotatedVars
  <2>1. /\ UNCHANGED <<intake, reviews, briefs>> /\ UNCHANGED req
        /\ UNCHANGED discussion /\ UNCHANGED monitoring /\ UNCHANGED execution /\ UNCHANGED exchange
        /\ UNCHANGED protocols /\ UNCHANGED history /\ UNCHANGED comments
    BY <1>1 DEF annotatedVars, vars, annotations, discussion
  <2>2. MovesWithin({})
    BY <2>1 DEF MovesWithin
  <2>3. ArchiveInv' /\ OpensOnCurrentEvidence /\ ArchiveGrows /\ TypeOK
    BY <2>2, MovesAreLocal, ArchiveInvIs DEF AnnotationsInv
  <2>4. \A pcs : Avoids(pcs)
    BY <2>1 DEF Avoids
  <2>5. RowsKept
    BY <2>1, UntouchedRows DEF RowsKept
  <2> QED
    BY <2>1, <2>3, <2>4, <2>5, DiscussionStays, MonitoringStays, ExecutionStays, ExchangeStays,
       ProtocolsStays, HistoryStays, SilentComments DEF AnnotationsInv, StepsRight
<1> QED
  BY <1>1, ArchiveStepRight, DiscussionStepRight, MonitoringStepRight, ExecutionStepRight,
     ExchangeStepRight, ProtocolsStepRight DEF AnnotationsNext

LEMMA AnnotationsInvariant == AnnotationsSpec => []AnnotationsInv
<1>1. AnnotationsInv /\ [AnnotationsNext]_annotatedVars => AnnotationsInv'
  BY AnnotationsSteps DEF StepsRight
<1> QED
  BY <1>1, AnnotationsStart, PTL DEF AnnotationsSpec

\* AnnotationsStand is what the invariant says of the rows and of the answers.
LEMMA AttachedRowsStand == AnnotationsInv => AnnotationsStand
<1> SUFFICES ASSUME AnnotationsInv PROVE AnnotationsStand
  OBVIOUS
<1>1. AnnotationsTypeOK
  <2>1. \A i \in DOMAIN comments :
            /\ comments[i].on \in AllVersions /\ comments[i].parent \in 0 .. i - 1
            /\ comments[i].status \in {"visible", "removed"}
    <3>1. \A i \in DOMAIN comments : comments[i] \in CommentRows
      BY Rows DEF AnnotationsInv, DiscussionInv, CommentsHold
    <3> QED
      BY <3>1 DEF AnnotationsInv, DiscussionInv, CommentsHold, CommentRows
  <2> QED
    BY <2>1 DEF AnnotationsTypeOK, AnnotationsInv, MonitoringInv, ExecutionInv, PassportsHold,
                ExchangeInv, ProtocolsInv
<1>2. ResolutionsStand
  <2> SUFFICES ASSUME NEW t \in resolutions
               PROVE  LET Stands(row) == row.status = t.as /\ row.by = t.by IN
                      CASE "alert" \in DOMAIN t.what -> Stands(alerts[t.what.alert])
                        [] "activity" \in DOMAIN t.what -> Stands(notes[t.what.activity])
                        [] "snapshot" \in DOMAIN t.what -> Stands(snapshots[t.what.snapshot])
                        [] "passport" \in DOMAIN t.what ->
                              LET verdict == verdicts[t.what.passport][t.what.revision] IN
                              verdict.ok /\ verdict.by = t.by
    BY DEF ResolutionsStand
  <2>1. ResolutionHolds(t)
    BY DEF AnnotationsInv, HistoryInv
  <2>2. CASE \E k \in DOMAIN alerts : t.what = [alert |-> k] /\ Says(alerts[k], t)
    <3> PICK k \in DOMAIN alerts : t.what = [alert |-> k] /\ Says(alerts[k], t)
      BY <2>2
    <3>1. DOMAIN t.what = {"alert"} /\ t.what.alert = k
      OBVIOUS
    <3> QED
      BY <3>1 DEF Says
  <2>3. CASE \E a \in Activities : t.what = [activity |-> a] /\ notes[a] # Nothing /\ Says(notes[a], t)
    <3> PICK a \in Activities : t.what = [activity |-> a] /\ Says(notes[a], t)
      BY <2>3
    <3>1. DOMAIN t.what = {"activity"} /\ t.what.activity = a
      OBVIOUS
    <3> QED
      BY <3>1 DEF Says
  <2>4. CASE \E k \in DOMAIN snapshots : t.what = [snapshot |-> k] /\ Says(snapshots[k], t)
    <3> PICK k \in DOMAIN snapshots : t.what = [snapshot |-> k] /\ Says(snapshots[k], t)
      BY <2>4
    <3>1. DOMAIN t.what = {"snapshot"} /\ t.what.snapshot = k
      OBVIOUS
    <3> QED
      BY <3>1 DEF Says
  <2>5. CASE \E p \in Passports : \E n \in DOMAIN verdicts[p] :
                /\ t.what = [passport |-> p, revision |-> n]
                /\ verdicts[p][n].ok /\ verdicts[p][n].by = t.by
    <3> PICK p \in Passports : \E n \in DOMAIN verdicts[p] :
                /\ t.what = [passport |-> p, revision |-> n]
                /\ verdicts[p][n].ok /\ verdicts[p][n].by = t.by
      BY <2>5
    <3> PICK n \in DOMAIN verdicts[p] :
                /\ t.what = [passport |-> p, revision |-> n]
                /\ verdicts[p][n].ok /\ verdicts[p][n].by = t.by
      OBVIOUS
    <3>1. DOMAIN t.what = {"passport", "revision"} /\ t.what.passport = p /\ t.what.revision = n
      OBVIOUS
    <3> QED
      BY <3>1
  <2> QED
    BY <2>1, <2>2, <2>3, <2>4, <2>5 DEF ResolutionHolds
<1>3. ReceiptsAgree
  <2> SUFFICES ASSUME NEW t \in receipts
               PROVE  t.content = IF "activity" \in DOMAIN t.key THEN notes[t.key.activity].content
                                  ELSE snapshots[t.key.snapshot].content
    BY DEF ReceiptsAgree
  <2>1. ReceiptHolds(t)
    BY DEF AnnotationsInv, HistoryInv
  <2>2. CASE \E a \in Activities :
                t.key = [activity |-> a] /\ notes[a] # Nothing /\ notes[a].content = t.content
    <3> PICK a \in Activities : t.key = [activity |-> a] /\ notes[a].content = t.content
      BY <2>2
    <3>1. DOMAIN t.key = {"activity"} /\ t.key.activity = a
      OBVIOUS
    <3> QED
      BY <3>1
  <2>3. CASE \E k \in DOMAIN snapshots : t.key = [snapshot |-> k] /\ snapshots[k].content = t.content
    <3> PICK k \in DOMAIN snapshots : t.key = [snapshot |-> k] /\ snapshots[k].content = t.content
      BY <2>3
    <3>1. DOMAIN t.key = {"snapshot"} /\ t.key.snapshot = k
      OBVIOUS
    <3> QED
      BY <3>1
  <2> QED
    BY <2>1, <2>2, <2>3 DEF ReceiptHolds
<1>4. VerdictsAreConsecutive
  BY DEF AnnotationsInv, ExecutionInv, PassportsHold
<1>5. AnnouncementsAnswer
  BY DEF AnnotationsInv, ExchangeInv, Answers, AnnouncementsAnswer
<1> QED
  BY <1>1, <1>2, <1>3, <1>4, <1>5 DEF AnnotationsStand

\* From its single-use capture to the newest version of its review, every submission is
\* accounted for once (submission-creation.ts, submission-publication.ts), whatever the
\* handlers of the archive and of the annotations had read before.
THEOREM Versions == AnnotationsSpec => []VersionsAreAccounted
<1>1. AnnotationsInv => VersionsAreAccounted
  BY DEF AnnotationsInv, ArchiveInv, VersionsAreAccounted
<1> QED
  BY <1>1, AnnotationsInvariant, PTL

\* What a version shows is what the ledger says of it, and what an editor was told of an
\* event, at first or in a replay, is the event recorded (review-lifecycle.ts).
THEOREM Ledger == AnnotationsSpec => []LedgerExplainsState
<1>1. AnnotationsInv => LedgerExplainsState
  BY LedgerOneByOne DEF AnnotationsInv, ArchiveInv, LedgerExplainsState
<1> QED
  BY <1>1, AnnotationsInvariant, PTL

\* A brief opens with the triage of the corpus of that moment, which its claims are in,
\* and keeps it (replication-marketplace.ts).
THEOREM BriefsOpen == AnnotationsSpec => BriefsOpenOnCurrentEvidence
<1> DEFINE Opens ==
       \A b \in Briefs :
          /\ Status(b) = "draft" /\ Status(b)' = "open" =>
                /\ briefs'[b].triage = Corpus'
                /\ briefs'[b].claims \subseteq Corpus'
          /\ Status(b) \notin {"none", "draft"} => briefs'[b].triage = briefs[b].triage
<1>1. AnnotationsInv /\ [AnnotationsNext]_annotatedVars => [Opens]_vars
  BY AnnotationsSteps DEF StepsRight, OpensOnCurrentEvidence
<1> QED
  BY <1>1, AnnotationsInvariant, PTL DEF AnnotationsSpec, BriefsOpenOnCurrentEvidence

\* What was attached to a version stands as those who attached, resolved or verified it
\* were told (claim-monitoring.ts, execution-passports.ts, federation.ts,
\* protocol-drift.ts).
THEOREM Attached == AnnotationsSpec => []AnnotationsStand
BY AttachedRowsStand, AnnotationsInvariant, PTL

\* A comment reaches a readable version that is the newest of its review, or whose commit
\* the review published again, and replies stay in one thread on it (comments.ts).
THEOREM Comments == AnnotationsSpec => CommentsWereOpen
<1> DEFINE Posted ==
       Len(comments') > Len(comments) =>
          LET c == comments'[Len(comments')]
              r == c.on[1] IN
          /\ IsReadable(c.on)
          /\ \/ c.on[2] = Newest(r)
             \/ \E n \in 1 .. Newest(r) - 1 : versions[r][n].commit = current[r]
          /\ c.parent # 0 =>
                comments[c.parent].parent = 0 /\ comments[c.parent].on = c.on
<1>1. AnnotationsInv /\ [AnnotationsNext]_annotatedVars => [Posted]_annotatedVars
  BY AnnotationsSteps DEF StepsRight, CommentsOpen
<1> QED
  BY <1>1, AnnotationsInvariant, PTL DEF AnnotationsSpec, CommentsWereOpen
================================================================================
