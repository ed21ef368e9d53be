--------------------------- MODULE SynthesisSeries ---------------------------
(***************************************************************************)
(* What editors and the freshness scan do with the drafts of synthesis     *)
(* series: decideSynthesisDraft (synthesis-editorial-decisions.ts),        *)
(* evaluateSynthesisHead (synthesis-staleness-evaluation.ts) and           *)
(* decideSynthesisRegenerationProposal (synthesis-staleness-proposals.ts)  *)
(* of apps/web/src/lib, and the transaction of synthesis-generation.ts     *)
(* that stores a draft.                                                    *)
(*                                                                         *)
(* The transactions are Serializable: each is one action.  An evaluation   *)
(* reads the head and, twice, the knowledge graph before its transaction.  *)
(* An accepted draft and its ReviewVersion are named alike.  A packet is   *)
(* what a series' selector shows of the graph at one time.                 *)
(***************************************************************************)
EXTENDS Naturals, FiniteSets

CONSTANTS
    Series,        \* series keys
    MaxDrafts,     \* drafts ever stored (bound)
    Packets,       \* states of the graph, as the selectors see it
    Evaluators,    \* evaluations in flight at once
    MaxChanges,    \* changes of the graph and failed loads (bound)
    None

Drafts == 1 .. MaxDrafts    \* in the order they are stored

Statuses == {"pending", "accepted", "rejected", "regeneration-requested"}
OrNone(S) == S \union {None}

\* The rows of drafts, and of the versions that accepted ones become.
DraftRows == [series: Series, packet: Packets, status: Statuses, ordinal: Nat,
              previous: OrNone(Drafts), parent: OrNone(Drafts)]
AcceptedRows == [predecessor: OrNone(Drafts), ordinal: Nat]

\* None is the null of the database, neither a number nor a row; the graph shows
\* something at any time.
ASSUME SeriesConstants ==
    /\ MaxDrafts \in Nat
    /\ MaxChanges \in Nat
    /\ None \notin Nat \union DraftRows \union AcceptedRows
    /\ Packets # {}

VARIABLES
    draft,      \* SynthesisDraft rows
    version,    \* ReviewVersion rows of accepted drafts
    head,       \* Review.currentSynthesisVersionId per series
    observed,   \* SynthesisStalenessHead: the current evaluation of a version
    proposal,   \* SynthesisRegenerationProposal rows that are not superseded
    ev,         \* local variables of the evaluations
    graph,      \* what the selectors show now
    changes     \* changes and failures so far

seriesVars == <<draft, version, head, observed, proposal, ev, graph, changes>>

rows == <<draft, version, head, observed, proposal>>

Resting == [pc |-> "idle"]

SeriesInit ==
    /\ draft = [d \in Drafts |-> None]
    /\ version = [d \in Drafts |-> None]
    /\ head = [s \in Series |-> None]
    /\ observed = [d \in Drafts |-> None]
    /\ proposal = {}
    /\ ev = [e \in Evaluators |-> Resting]
    /\ graph = CHOOSE p \in Packets : TRUE    \* packets differ in name only
    /\ changes = 0

-----------------------------------------------------------------------------
(* The draft is stored, generated from a packet loaded some time before *)

Of(s)      == {d \in Drafts : draft[d] # None /\ draft[d].series = s}
Latest(s)  == CHOOSE d \in Of(s) : \A c \in Of(s) : draft[c].ordinal <= draft[d].ordinal
Ordinal(s) == Cardinality(Of(s))    \* the ordinals of a series are 1, 2, ...

StoreDraft(d, s, p) ==
    /\ draft[d] = None
    /\ \A c \in 1 .. d - 1 : draft[c] # None
    /\ draft' = [draft EXCEPT ![d] =
          [series |-> s, packet |-> p, status |-> "pending", ordinal |-> Ordinal(s) + 1,
           previous |-> head[s],
           parent |-> IF Of(s) # {} /\ draft[Latest(s)].status = "regeneration-requested"
                      THEN Latest(s) ELSE None]]
    /\ UNCHANGED <<version, head, observed, proposal, ev, graph, changes>>

-----------------------------------------------------------------------------
(* decideSynthesisDraft *)

Pending(d) == draft[d] # None /\ draft[d].status = "pending"

Decline(d, status) ==
    /\ Pending(d)
    /\ draft' = [draft EXCEPT ![d].status = status]
    /\ UNCHANGED <<version, head, observed, proposal, ev, graph, changes>>

Accepted  == {d \in Drafts : version[d] # None}

\* What is left when the open proposals of the series about another version than
\* d are superseded; a superseded row is never read again.
Superseded(s, d) ==
    {p \in proposal : p.status = "open" /\ draft[p.version].series = s => p.version = d}

BrokenSupersede(s, d) == proposal    \* left to the next scan

SupersedeOlder(s, d) == Superseded(s, d)

BrokenIsCurrentLine(d) == TRUE    \* the head a draft was generated from is not compared

IsCurrentLine(d) == draft[d].previous = head[draft[d].series]

\* (Licenses, checklists and DOIs, which an acceptance may be refused for, are not
\* modelled: an acceptance need not be asked for.)
Accept(d) ==
    /\ Pending(d)
    /\ IsCurrentLine(d)
    /\ LET s == draft[d].series IN
          /\ version' = [version EXCEPT ![d] =
                [predecessor |-> head[s],
                 ordinal |-> IF head[s] = None THEN 1 ELSE version[head[s]].ordinal + 1]]
          /\ head' = [head EXCEPT ![s] = d]
          /\ proposal' = SupersedeOlder(s, d)
    /\ draft' = [draft EXCEPT ![d].status = "accepted"]
    /\ UNCHANGED <<observed, ev, graph, changes>>

-----------------------------------------------------------------------------
(* evaluateSynthesisHead *)

Change == changes < MaxChanges /\ changes' = changes + 1

\* Nodes, relations or assessments are added: no transaction of this module.
GraphChanges(p) ==
    /\ p # graph
    /\ Change
    /\ graph' = p
    /\ UNCHANGED <<rows, ev>>

\* An evaluation is identified by the version and by what was found: a packet,
\* or the failure to load one while the graph was so.
Finding(p, ok) == [packet |-> p, loaded |-> ok]

Goto(e, local) == ev' = [ev EXCEPT ![e] = local]

BeginEvaluation(e, s) ==
    /\ ev[e] = Resting
    /\ head[s] # None
    /\ Goto(e, [pc |-> "repeat", version |-> head[s], found |-> Finding(graph, TRUE)])
    /\ UNCHANGED <<rows, graph, changes>>

\* The second load must give what the first one gave.
Repeat(e) ==
    /\ ev[e].pc = "repeat"
    /\ Goto(e, [ev[e] EXCEPT !.pc = "store", !.found.loaded = ev[e].found.packet = graph])
    /\ UNCHANGED <<rows, graph, changes>>

LoadFails(e) ==
    /\ ev[e].pc = "repeat"
    /\ Change
    /\ Goto(e, [ev[e] EXCEPT !.pc = "store", !.found.loaded = FALSE])
    /\ UNCHANGED <<rows, graph>>

IsStale(d, found) == found # Finding(draft[d].packet, TRUE)

BrokenPropose(d, found, before) ==    \* a stale head has one proposal
    IF IsStale(d, found) /\ \A p \in before : p.version # d
    THEN before \union {[version |-> d, found |-> found, status |-> "open"]}
    ELSE before

\* An open proposal for the version is superseded, and a stale version gets a
\* new one about what was found now.
Propose(d, found, before) ==
    {p \in before : p.status = "open" => p.version # d}
    \union (IF IsStale(d, found)
            THEN {[version |-> d, found |-> found, status |-> "open"]} ELSE {})

BrokenMoves(d, found) == observed[d] = None    \* a version is observed once

\* The authoritative observation moves, unless it is this one already; the row of
\* an evaluation that was made before, by another call, is used again.
Moves(d, found) == observed[d] # found

BrokenHeadIsSame(s, d) == TRUE    \* the head is not read again in the transaction

HeadIsSame(s, d) == head[s] = d

StoreEvaluation(e) ==
    /\ ev[e].pc = "store"
    /\ LET d == ev[e].version
           found == ev[e].found
           s == draft[d].series
           older == Superseded(s, d)
       IN IF HeadIsSame(s, d)
          THEN IF Moves(d, found)
               THEN /\ observed' = [observed EXCEPT ![d] = found]
                    /\ proposal' = Propose(d, found, older)
               ELSE proposal' = older /\ UNCHANGED observed
          ELSE UNCHANGED <<observed, proposal>>
    /\ Goto(e, Resting)
    /\ UNCHANGED <<draft, version, head, graph, changes>>

-----------------------------------------------------------------------------
(* decideSynthesisRegenerationProposal *)

Decide(p, status) ==
    /\ p.status = "open"
    /\ head[draft[p.version].series] = p.version
    /\ observed[p.version] = p.found
    /\ IsStale(p.version, p.found)
    /\ proposal' = (proposal \ {p}) \union {[p EXCEPT !.status = status]}
    /\ UNCHANGED <<draft, version, head, observed, ev, graph, changes>>

-----------------------------------------------------------------------------
SeriesNext ==
    \/ \E d \in Drafts :
          \/ \E s \in Series, p \in Packets : StoreDraft(d, s, p)
          \/ \E status \in {"rejected", "regeneration-requested"} : Decline(d, status)
          \/ Accept(d)
    \/ \E p \in Packets : GraphChanges(p)
    \/ \E e \in Evaluators :
          \/ \E s \in Series : BeginEvaluation(e, s)
          \/ Repeat(e) \/ LoadFails(e) \/ StoreEvaluation(e)
    \/ \E p \in proposal, status \in {"dismissed", "regeneration-requested"} :
          Decide(p, status)

\* An evaluation that has begun runs to its end.  Nobody has to scan or decide.
Fairness == \A e \in Evaluators : WF_seriesVars(Repeat(e) \/ StoreEvaluation(e))

SeriesSpec == SeriesInit /\ [][SeriesNext]_seriesVars /\ Fairness

-----------------------------------------------------------------------------
(* Properties *)

Findings == [packet: Packets, loaded: BOOLEAN]

SeriesTypeOK ==
    /\ draft \in [Drafts -> OrNone(DraftRows)]
    /\ version \in [Drafts -> OrNone(AcceptedRows)]
    /\ head \in [Series -> OrNone(Drafts)]
    /\ observed \in [Drafts -> OrNone(Findings)]
    /\ proposal \subseteq [version: Drafts, found: Findings,
                     status: {"open", "dismissed", "regeneration-requested"}]
    /\ ev \in [Evaluators -> {Resting} \union
                  [pc: {"repeat", "store"}, version: Drafts, found: Findings]]
    /\ graph \in Packets
    /\ changes \in 0 .. MaxChanges

\* docs/synthesis-editorial.md: acceptance "derives lineage and the next public
\* ordinal only from" the head.  The accepted versions of a series are one line
\* that ends in its head, and every draft was generated as the successor of the
\* version it follows, though drafts are stored and accepted in any order.
HeadsFormALine ==
    \A s \in Series :
        LET V == {d \in Accepted : draft[d].series = s} IN
        /\ head[s] = None => V = {}
        /\ head[s] # None => head[s] \in V /\ version[head[s]].ordinal = Cardinality(V)
        /\ \A d \in V : LET p == version[d].predecessor IN
              /\ draft[d].status = "accepted"
              /\ draft[d].previous = p
              /\ IF p = None THEN version[d].ordinal = 1
                 ELSE p \in V /\ version[d].ordinal = version[p].ordinal + 1

\* docs/synthesis-staleness.md: "at most one open proposal per head", superseded
\* when the observation changes or a newer head is accepted.  An open proposal is
\* about the head of its series, as it is observed now, and stale; so an editor
\* can always decide it.
OpenProposalsAreCurrent ==
    \A p \in proposal : p.status = "open" =>
        /\ head[draft[p.version].series] = p.version
        /\ observed[p.version] = p.found
        /\ IsStale(p.version, p.found)

\* A head observed as stale has a proposal about that very observation, open or
\* decided by an editor: none is lost when a state of the graph comes back or
\* an evaluation of an older state is stored last.
StaleHeadsAreProposed ==
    \A s \in Series : LET d == head[s] IN
        d # None /\ observed[d] # None /\ IsStale(d, observed[d]) =>
            \E p \in proposal : p.version = d /\ p.found = observed[d]

\* Drafts, versions and heads agree, in rows of their types.
LineIsSound == SeriesTypeOK /\ HeadsFormALine

\* The proposals of a series follow its head: the open one is about what is shown
\* now, and a stale head is never without a proposal.
ProposalsFollowTheHead == OpenProposalsAreCurrent /\ StaleHeadsAreProposed

Scanned(s) ==
    \E e \in Evaluators : ev[e] # Resting /\ ev[e].pc = "repeat" /\ ev[e].version = head[s]

\* "A->B->A points back to the original A": evaluations may be stored in another
\* order than the graph was read in, but once the graph stays as it is, and the
\* scan goes on, the observation of every head is what the graph shows.
ObservationCatchesUp ==
    \A s \in Series : []<>Scanned(s) =>
        <>[](head[s] # None /\ observed[head[s]] = Finding(graph, TRUE))
===============================================================================
