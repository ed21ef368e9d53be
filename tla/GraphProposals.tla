----------------------------- MODULE GraphProposals -----------------------------
(***************************************************************************)
(* What editors do with proposals for the knowledge graph                  *)
(* (apps/web/src/lib): node-edge-lifecycle.ts, whose proposals by authors  *)
(* and agents share the edge of their source version, relation and target  *)
(* node, and node-identity-lifecycle.ts, whose same-claim proposals own    *)
(* nothing.                                                                *)
(*                                                                         *)
(* A decision is one Serializable transaction, hence one action; only the  *)
(* role of the editor is read before it.  The unique key of the edge turns *)
(* a concurrent second confirmation into a retry, which is the same action *)
(* after the first.  The note a decision carries is compared and stored    *)
(* like its author is, and left out.  The names have a prefix so that      *)
(* another module can be extended beside this one.  Operators named        *)
(* Broken... are deliberate bugs for the mutation runs.                    *)
(***************************************************************************)
EXTENDS Naturals

CONSTANTS
    Proposals,     \* proposals by origin key
    TupleOf,       \* the edge each would confirm; NoTuple for a same-claim one
    TargetOf,      \* the target version each froze
    NoTuple,
    Deciders,      \* users that may be editors
    Movers,        \* those of them whose role changes meanwhile
    Desks,         \* decisions between their role check and their transaction
    NoRow

Tuples  == {TupleOf[p] : p \in Proposals} \ {NoTuple}
Targets == {TargetOf[p] : p \in Proposals}
Decided == {"confirmed", "rejected", "superseded"}

\* The rows of the tables.
ProposalRows == [status : {"proposed"} \union Decided, revision : 0 .. 2,
                 by : Deciders \union {NoRow}, confirms : BOOLEAN]
EdgeRows == [status : {"confirmed", "superseded"}, target : Targets \union {NoRow},
             by : Deciders \union {NoRow}, revision : Nat]

ASSUME GraphConstants ==
    /\ DOMAIN TupleOf = Proposals
    /\ DOMAIN TargetOf = Proposals
    /\ Movers \subseteq Deciders
    /\ NoRow \notin Deciders \union Targets \union ProposalRows \union EdgeRows

VARIABLES
    proposal,      \* NodeEdgeProposal and NodeIdentityProposal rows
    edge,          \* NodeEdge rows
    editors,       \* users whose role is EDITOR or ADMIN
    desk,          \* who passed the role check, per decision in flight
    decisions      \* history: what successful decisions told their author

graphVars == <<proposal, edge, editors, desk, decisions>>

\* An edge from before editorial confirmation: it says confirmed, by nobody.
Legacy == [status |-> "confirmed", target |-> NoRow, by |-> NoRow, revision |-> 0]

GraphInit ==
    /\ proposal = [p \in Proposals |-> NoRow]
    /\ edge \in [Tuples -> {NoRow, Legacy}]
    /\ editors = Deciders
    /\ desk = [d \in Desks |-> NoRow]
    /\ decisions = {}

-----------------------------------------------------------------------------
\* createAgentNodeEdgeProposal and the materialization of author and same-claim
\* proposals at publication.  Under an origin key that has a row they only
\* compare or keep it.
Create(p) ==
    /\ proposal[p] = NoRow
    /\ proposal' = [proposal EXCEPT ![p] =
          [status |-> "proposed", revision |-> 0, by |-> NoRow, confirms |-> FALSE]]
    /\ UNCHANGED <<edge, editors, desk, decisions>>

\* A role is changed, outside this code.
ChangeRole(u) ==
    /\ editors' = IF u \in editors THEN editors \ {u} ELSE editors \union {u}
    /\ UNCHANGED <<proposal, edge, desk, decisions>>

RequireCurrentEditor(d, u) ==
    /\ desk[d] = NoRow
    /\ u \in editors
    /\ desk' = [desk EXCEPT ![d] = u]
    /\ UNCHANGED <<proposal, edge, editors, decisions>>

\* The decision is refused, or its process dies.
Refuse(d) ==
    /\ desk[d] # NoRow
    /\ desk' = [desk EXCEPT ![d] = NoRow]
    /\ UNCHANGED <<proposal, edge, editors, decisions>>

-----------------------------------------------------------------------------
(* decideNodeEdgeProposal and decideNodeIdentityProposal *)

Tell(d, p, status, revision) ==
    /\ decisions' = decisions \union
          {[proposal |-> p, by |-> desk[d], status |-> status, revision |-> revision]}
    /\ desk' = [desk EXCEPT ![d] = NoRow]

BrokenRepeat(d, p, status, expected) ==    \* whose decision it was is not compared
    /\ proposal[p].status = status
    /\ proposal[p].revision = expected + 1
    /\ Tell(d, p, status, expected + 1)
    /\ UNCHANGED <<proposal, edge, editors>>

\* The same decision by the same editor on the same revision is answered again.
Repeat(d, p, status, expected) ==
    /\ proposal[p].status = status
    /\ proposal[p].by = desk[d]
    /\ proposal[p].revision = expected + 1
    /\ Tell(d, p, status, expected + 1)
    /\ UNCHANGED <<proposal, edge, editors>>

\* transitionNodeEdgeProposal; a same-claim proposal is never superseded.
MayBecome(p) ==
    CASE proposal[p].status = "proposed" ->
            {"confirmed", "rejected"} \union (IF TupleOf[p] = NoTuple THEN {} ELSE {"superseded"})
      [] proposal[p].status = "confirmed" ->
            IF TupleOf[p] = NoTuple THEN {} ELSE {"superseded"}
      [] OTHER -> {}

\* Editorially confirmed by somebody who still is an editor.
Authoritative(t) == edge[t].by \in editors

BrokenReusable(t, p) == edge[t] # NoRow => edge[t].status = "confirmed"

\* Only a confirmed edge, for the same target version, can be confirmed again.
Reusable(t, p) ==
    edge[t] # NoRow => /\ edge[t].status = "confirmed"
                       /\ edge[t].target \in {NoRow, TargetOf[p]}

Signed(t, p, u) ==
    [status |-> "confirmed", target |-> TargetOf[p], by |-> u,
     revision |-> IF edge[t] = NoRow THEN 0 ELSE edge[t].revision + 1]

BrokenConfirmEdge(t, p, u) ==    \* the last to confirm signs the edge
    edge' = [edge EXCEPT ![t] = Signed(t, p, u)]

\* The edge is created, kept, or signed anew when nobody of authority did.
ConfirmEdge(t, p, u) ==
    edge' = IF edge[t] # NoRow /\ Authoritative(t) THEN edge
            ELSE [edge EXCEPT ![t] = Signed(t, p, u)]

OtherConfirmations(p) ==
    {q \in Proposals \ {p} :
        proposal[q] # NoRow /\ proposal[q].confirms /\ proposal[q].status = "confirmed"
        /\ TupleOf[q] = TupleOf[p]}

Superseded(e) == [e EXCEPT !.status = "superseded", !.revision = @ + 1]

BrokenSupersedeEdge(p) ==    \* other confirmations of the edge are not counted
    edge' = IF proposal[p].confirms /\ edge[TupleOf[p]].status = "confirmed"
            THEN [edge EXCEPT ![TupleOf[p]] = Superseded(@)] ELSE edge

SupersedeEdge(p) ==
    edge' = IF /\ proposal[p].confirms
               /\ OtherConfirmations(p) = {}
               /\ edge[TupleOf[p]].status = "confirmed"
            THEN [edge EXCEPT ![TupleOf[p]] = Superseded(@)] ELSE edge

Apply(d, p, status, expected) ==
    /\ proposal[p].revision = expected
    /\ status \in MayBecome(p)
    /\ LET t == TupleOf[p] IN
       IF t = NoTuple \/ status = "rejected" THEN UNCHANGED edge
       ELSE IF status = "confirmed" THEN Reusable(t, p) /\ ConfirmEdge(t, p, desk[d])
       ELSE SupersedeEdge(p)
    /\ proposal' = [proposal EXCEPT ![p] =
          [status |-> status, revision |-> expected + 1, by |-> desk[d],
           confirms |-> @.confirms \/ (status = "confirmed" /\ TupleOf[p] # NoTuple)]]
    /\ Tell(d, p, status, expected + 1)
    /\ UNCHANGED editors

Decide(d) ==
    /\ desk[d] # NoRow
    /\ \E p \in Proposals, status \in {"confirmed", "rejected", "superseded"}, expected \in 0 .. 1 :
          /\ proposal[p] # NoRow
          /\ Repeat(d, p, status, expected) \/ Apply(d, p, status, expected)

GraphNext ==
    \/ \E p \in Proposals : Create(p)
    \/ \E u \in Movers : ChangeRole(u)
    \/ \E d \in Desks :
          (\E u \in Deciders : RequireCurrentEditor(d, u)) \/ Refuse(d) \/ Decide(d)

GraphSpec == GraphInit /\ [][GraphNext]_graphVars

-----------------------------------------------------------------------------
(* Properties *)

GraphTypeOK ==
    /\ proposal \in [Proposals -> ProposalRows \union {NoRow}]
    /\ edge \in [Tuples -> EdgeRows \union {NoRow}]
    /\ editors \subseteq Deciders
    /\ desk \in [Desks -> Deciders \union {NoRow}]
    /\ decisions \subseteq
          [proposal : Proposals, by : Deciders, status : Decided, revision : 1 .. 2]

Confirming(t) == {p \in Proposals : TupleOf[p] = t /\ proposal[p] # NoRow
                                     /\ proposal[p].status = "confirmed"}

\* docs/data-model.md:85-89: confirmation "only then creates or reuses" an edge,
\* and independent origins support one edge.  An editorially confirmed edge has a
\* confirmed proposal behind it as long as it stands, all of them for its very
\* target version, whatever order its origins are confirmed and superseded in; it
\* is superseded with the last of them; and who signed it did confirm one.
EdgesAreBacked ==
    /\ GraphTypeOK
    /\ \A t \in Tuples :
          LET e == edge[t] IN
          /\ \A p \in Confirming(t) : /\ e # NoRow
                                      /\ e.status = "confirmed"
                                      /\ e.target = TargetOf[p]
          /\ e # NoRow /\ e.by # NoRow =>
                /\ e.status = "confirmed" <=> Confirming(t) # {}
                /\ \E c \in decisions : /\ c.status = "confirmed" /\ c.by = e.by
                                        /\ TupleOf[c.proposal] = t
                                        /\ TargetOf[c.proposal] = e.target

\* Every success an editor was ever told, first or repeated, is a decision of
\* that editor that was taken once: no two are told of one revision, and what was
\* told of the present one is what the row says.
DecisionsAreOwned ==
    \A c \in decisions :
        LET row == proposal[c.proposal] IN
        /\ c.revision <= row.revision
        /\ c.revision = row.revision => c.status = row.status /\ c.by = row.by
        /\ \A o \in decisions :
              o.proposal = c.proposal /\ o.revision = c.revision => o = c

\* An edge keeps the version and the signature it was confirmed with: only one
\* signed by nobody, or by somebody who is no editor now, is signed anew, and a
\* superseded edge stays as it is.
SignaturesStand ==
    [][\A t \in Tuples : edge[t] # NoRow =>
          /\ edge[t].status = "superseded" => edge'[t] = edge[t]
          /\ edge[t].target # NoRow => edge'[t].target = edge[t].target
          /\ Authoritative(t) => edge'[t].by = edge[t].by]_graphVars
===============================================================================
