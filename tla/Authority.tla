----------------------------- MODULE Authority -----------------------------
(***************************************************************************)
(* Who may do what to which document: warrant/registry.ts, sharing.ts,     *)
(* access.ts, the decision of policy.ts as warrant/index.ts asks it, and   *)
(* the share routes. Planning a task issues warrants to its agents; a      *)
(* person who can edit a document shares it with another (a grant), who    *)
(* attaches agents to the grant (more warrants); grants and warrants are   *)
(* replaced, withdrawn, revoked and expire.                                *)
(***************************************************************************)
EXTENDS Integers, Sequences, FiniteSets

CONSTANTS Humans, Agents, Docs,
          Covers,       \* <<granted, asked>>: a directory covers what is under it
          Ttls,         \* the lifetimes people ask for
          MaxNow,       \* bound: how far the clock goes
          MaxWarrants,  \* bound: warrants ever issued
          MaxGrants     \* bound: shares ever made

ASSUME AuthorityAssumption ==
  /\ Covers \subseteq Docs \X Docs
  /\ \A d \in Docs : <<d, d>> \in Covers
  /\ Ttls \subseteq Nat \ {0}
  /\ MaxNow \in Nat /\ MaxWarrants \in Nat /\ MaxGrants \in Nat

VARIABLES
  now,       \* the clock
  warrants,  \* the warrants, in the order of issue
  grants     \* the shares, in the order they were made

vars == <<now, warrants, grants>>

Scopes == {"read", "write", "model", "propose", "comment"}

AGENT_SCOPES == Scopes

SCOPES_FOR_ROLE ==
  [viewer    |-> {"read"},
   commenter |-> {"read", "comment"},
   editor    |-> {"read", "comment", "write", "propose"}]

Roles == DOMAIN SCOPES_FOR_ROLE

\* grant = 0: issued with a subtask; otherwise minted from that grant.
Warrant == [human: Humans, agent: Agents, grant: Nat, docs: SUBSET Docs,
            scopes: SUBSET Scopes, expires: Nat, state: {"issued", "revoked"}]

Grant == [doc: Docs, by: Humans, to: Humans, role: Roles, expires: Nat,
          state: {"granted", "withdrawn"}, minted: SUBSET Nat]

TypeOK ==
  /\ now \in 0 .. MaxNow
  /\ warrants \in Seq(Warrant) /\ Len(warrants) <= MaxWarrants
  /\ grants \in Seq(Grant) /\ Len(grants) <= MaxGrants

Init == now = 0 /\ warrants = <<>> /\ grants = <<>>

-----------------------------------------------------------------------------
(***************************************************************************)
(* Registry                                                                *)
(***************************************************************************)

isLive(w) == w.state = "issued" /\ w.expires > now

Live == {i \in DOMAIN warrants : isLive(warrants[i])}

covers(w, doc) == \E d \in w.docs : <<d, doc>> \in Covers

\* The first live warrant of the agent, whatever it is for.
warrantForAgent(agent) ==
  {i \in Live : /\ warrants[i].agent = agent
                /\ \A j \in Live : warrants[j].agent = agent => i <= j}

\* The decision about an agent: only its first live warrant is looked at.
authorize(agent, scope, doc) ==
  \E i \in warrantForAgent(agent) : scope \in warrants[i].scopes /\ covers(warrants[i], doc)

issue(human, agent, grant, docs, scopes, expires) ==
  /\ Len(warrants) < MaxWarrants
  /\ warrants' = Append(warrants,
       [human |-> human, agent |-> agent, grant |-> grant, docs |-> docs,
        scopes |-> scopes, expires |-> expires, state |-> "issued"])

Revoked(ids) ==
  [i \in DOMAIN warrants |->
     IF i \in ids THEN [warrants[i] EXCEPT !.state = "revoked"] ELSE warrants[i]]

-----------------------------------------------------------------------------
(***************************************************************************)
(* ShareRegistry                                                           *)
(***************************************************************************)

heldScopes(human, doc) ==
  UNION {warrants[i].scopes :
           i \in {k \in Live : warrants[k].human = human /\ covers(warrants[k], doc)}}

canShare(by, to, doc, role) ==
  /\ by # to
  /\ "write" \in heldScopes(by, doc)
  /\ SCOPES_FOR_ROLE[role] \subseteq heldScopes(by, doc)

grantIsLive(g) == g.state = "granted" /\ g.expires > now

forDocAndGrantee(doc, to) ==
  {g \in DOMAIN grants : grantIsLive(grants[g]) /\ grants[g].doc = doc /\ grants[g].to = to}

Withdrawn(ids) ==
  [g \in DOMAIN grants |->
     IF g \in ids THEN [grants[g] EXCEPT !.state = "withdrawn"] ELSE grants[g]]

Minted(ids) == UNION {grants[g].minted : g \in ids}

-----------------------------------------------------------------------------
(***************************************************************************)
(* The routes                                                              *)
(***************************************************************************)

\* Planning a task gives every subtask an agent of its own and a warrant.
Plan ==
  \E human \in Humans, agent \in Agents, doc \in Docs, ttl \in Ttls :
    /\ \A i \in DOMAIN warrants : warrants[i].agent # agent
    /\ issue(human, agent, 0, {doc}, AGENT_SCOPES, now + ttl)
    /\ UNCHANGED <<now, grants>>

\* Sharing again with the same person replaces the share and its warrants.
Share ==
  \E by, to \in Humans, doc \in Docs, role \in Roles, ttl \in Ttls :
    /\ canShare(by, to, doc, role)
    /\ Len(grants) < MaxGrants
    /\ LET replaced == forDocAndGrantee(doc, to)
       IN  /\ grants' = Append(Withdrawn(replaced),
                [doc |-> doc, by |-> by, to |-> to, role |-> role,
                 expires |-> now + ttl, state |-> "granted", minted |-> {}])
           /\ warrants' = Revoked(Minted(replaced))
    /\ now' = now

\* Mutant: the share's warrants run on a time of their own.
AttachOwnTime ==
  \E g \in DOMAIN grants, agent \in Agents, ttl \in Ttls :
    /\ grantIsLive(grants[g])
    /\ \A i \in grants[g].minted : ~(warrants[i].agent = agent /\ isLive(warrants[i]))
    /\ issue(grants[g].to, agent, g, {grants[g].doc},
             SCOPES_FOR_ROLE[grants[g].role], now + ttl)
    /\ grants' = [grants EXCEPT ![g].minted = @ \cup {Len(warrants) + 1}]
    /\ now' = now

\* The grantee attaches an agent. An agent with a live warrant from this
\* grant keeps it: then nothing is issued.
Attach ==
  \E g \in DOMAIN grants, agent \in Agents :
    /\ grantIsLive(grants[g])
    /\ \A i \in grants[g].minted : ~(warrants[i].agent = agent /\ isLive(warrants[i]))
    /\ issue(grants[g].to, agent, g, {grants[g].doc},
             SCOPES_FOR_ROLE[grants[g].role], grants[g].expires)
    /\ grants' = [grants EXCEPT ![g].minted = @ \cup {Len(warrants) + 1}]
    /\ now' = now

\* Either party withdraws a share, expired or not; its warrants go with it.
Unshare ==
  \E g \in DOMAIN grants :
    /\ grants' = Withdrawn({g})
    /\ warrants' = Revoked(grants[g].minted)
    /\ now' = now

\* The person a warrant names revokes it.
Revoke ==
  \E i \in DOMAIN warrants :
    /\ warrants[i].state = "issued"
    /\ warrants' = Revoked({i})
    /\ UNCHANGED <<now, grants>>

Tick == now < MaxNow /\ now' = now + 1 /\ UNCHANGED <<warrants, grants>>

Next == Plan \/ Share \/ Attach \/ Unshare \/ Revoke \/ Tick

Spec == Init /\ [][Next]_vars

-----------------------------------------------------------------------------
(***************************************************************************)
(* Properties                                                              *)
(***************************************************************************)

\* A warrant minted from a share is never live when the share is not: when it
\* was withdrawn, replaced or has expired (ShareRegistry.revoke, attachAgent).
WarrantsFallWithTheirGrant ==
  \A i \in Live : warrants[i].grant # 0 => grantIsLive(grants[warrants[i].grant])

\* What the share dialog lists is what people hold from shares: behind every
\* live warrant of a share the document lists its holder, and at a role that is
\* no narrower, also after roles were changed by sharing again (grant, forDoc).
DialogShowsWhatIsHeld ==
  \A i \in Live : warrants[i].grant # 0 =>
    \A doc \in warrants[i].docs :
      LET listed == forDocAndGrantee(doc, warrants[i].human)
      IN  /\ listed # {}
          /\ \A g \in listed : warrants[i].scopes \subseteq SCOPES_FOR_ROLE[grants[g].role]

\* Shares are what they say: what is held of one falls with it, and is listed
\* (sharing.ts).
SharesAreTrue == WarrantsFallWithTheirGrant /\ DialogShowsWhatIsHeld

\* Whoever shared a document had it with a task, or was made its editor
\* before: no chain of shares starts from nothing, or passes through a viewer
\* or a commenter (canShare).
OnlyEditorsShare ==
  \A g \in DOMAIN grants :
    \/ \E i \in DOMAIN warrants : /\ warrants[i].grant = 0
                                  /\ warrants[i].human = grants[g].by
                                  /\ covers(warrants[i], grants[g].doc)
    \/ \E h \in 1 .. g - 1 : /\ grants[h].to = grants[g].by
                             /\ <<grants[h].doc, grants[g].doc>> \in Covers
                             /\ grants[h].role = "editor"

\* However often an agent is attached to a share, it holds one live warrant
\* from it, so that revoking it once takes it away (attachAgent).
OneWarrantPerAttachedAgent ==
  \A i, j \in Live :
    /\ warrants[i].grant # 0
    /\ warrants[i].grant = warrants[j].grant
    /\ warrants[i].agent = warrants[j].agent
    => i = j

\* Not so: what a share gave to an agent of one person, the agent may do
\* (types.ts: authority appears when the grantee attaches an agent).
AttachedAgentsMayAct ==
  \A i \in Live :
    (\A j \in Live : warrants[j].agent = warrants[i].agent => warrants[j].human = warrants[i].human)
    => \A scope \in warrants[i].scopes, doc \in warrants[i].docs :
         authorize(warrants[i].agent, scope, doc)

\* Not so: while it lasts, a share ends only by what its two parties do
\* (routes.ts: nobody else can touch it).
OnlyPartiesEndAShare ==
  [][\A g \in DOMAIN grants :
       grantIsLive(grants[g]) /\ grants'[g].state = "withdrawn" /\ Len(grants') > Len(grants)
       => grants'[Len(grants')].by \in {grants[g].by, grants[g].to}]_vars
=============================================================================
