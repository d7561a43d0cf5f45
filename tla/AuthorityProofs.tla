-------------------------- MODULE AuthorityProofs --------------------------
(***************************************************************************)
(* Authority, for any people, agents, documents, lifetimes and bounds: its *)
(* type invariant and what holds between shares and the warrants minted    *)
(* from them. And Planning, for any requests, proposals and commits of     *)
(* others: a split is a partition, and seeding only adds.                  *)
(***************************************************************************)
EXTENDS Authority, Planning, SequenceTheorems, FiniteSetTheorems, NaturalsInduction, WellFoundedInduction, TLAPS

USE AuthorityAssumption

\* A warrant of a share says what the share says, and was revoked with it.
Backed(ws, gs) ==
  \A i \in DOMAIN ws : ws[i].grant # 0 =>
    /\ ws[i].grant \in DOMAIN gs
    /\ i \in gs[ws[i].grant].minted
    /\ ws[i].human = gs[ws[i].grant].to
    /\ ws[i].docs = {gs[ws[i].grant].doc}
    /\ ws[i].scopes = SCOPES_FOR_ROLE[gs[ws[i].grant].role]
    /\ ws[i].expires = gs[ws[i].grant].expires
    /\ ws[i].state = "issued" => gs[ws[i].grant].state = "granted"

\* At any time t, a document is shared with a person at most once.
Single(gs, t) ==
  \A g, h \in DOMAIN gs :
    /\ gs[g].state = "granted" /\ gs[g].expires > t
    /\ gs[h].state = "granted" /\ gs[h].expires > t
    /\ gs[g].doc = gs[h].doc /\ gs[g].to = gs[h].to
    => g = h

\* The live warrants of a share are of different agents.
Apart(ws, t) ==
  \A i, j \in DOMAIN ws :
    /\ ws[i].state = "issued" /\ ws[i].expires > t
    /\ ws[j].state = "issued" /\ ws[j].expires > t
    /\ ws[i].grant # 0 /\ ws[i].grant = ws[j].grant /\ ws[i].agent = ws[j].agent
    => i = j

\* Who shared had the document with a task, or as its editor.
Rooted(ws, gs) ==
  \A g \in DOMAIN gs :
    \/ \E i \in DOMAIN ws : /\ ws[i].grant = 0 /\ ws[i].human = gs[g].by
                            /\ covers(ws[i], gs[g].doc)
    \/ \E h \in 1 .. g - 1 : /\ gs[h].to = gs[g].by
                             /\ <<gs[h].doc, gs[g].doc>> \in Covers
                             /\ gs[h].role = "editor"

Sound(ws, gs, t) == Backed(ws, gs) /\ Single(gs, t) /\ Apart(ws, t) /\ Rooted(ws, gs)

IInv == TypeOK /\ Sound(warrants, grants, now)

SameW(x, y) == /\ y.human = x.human /\ y.agent = x.agent /\ y.grant = x.grant
               /\ y.docs = x.docs /\ y.scopes = x.scopes /\ y.expires = x.expires

SameG(x, y) == /\ y.doc = x.doc /\ y.by = x.by /\ y.to = x.to /\ y.role = x.role
               /\ y.expires = x.expires /\ y.minted = x.minted

-----------------------------------------------------------------------------

LEMMA SameInterval ==
  ASSUME NEW m \in Nat, NEW n \in Nat, 1 .. m = 1 .. n
  PROVE  m = n
<1>1. \A k \in Nat : k \in 1 .. m <=> k \in 1 .. n
  OBVIOUS
<1> QED BY <1>1

LEMMA Replaced ==
  ASSUME NEW S, NEW s \in Seq(S), NEW d, DOMAIN d = DOMAIN s,
         d = [k \in DOMAIN s |-> d[k]], \A k \in DOMAIN s : d[k] \in S
  PROVE  d \in Seq(S) /\ Len(d) = Len(s)
<1>1. Len(s) \in Nat /\ DOMAIN s = 1 .. Len(s)
  BY LenProperties
<1>2. d \in [1 .. Len(s) -> S]
  BY <1>1
<1>3. d \in Seq(S)
  BY <1>1, <1>2, SeqDef
<1>4. Len(d) \in Nat /\ DOMAIN d = 1 .. Len(d)
  BY <1>3, LenProperties
<1> QED BY <1>1, <1>3, <1>4, SameInterval

LEMMA Appended ==
  ASSUME NEW S, NEW s \in Seq(S), NEW e \in S
  PROVE  /\ Append(s, e) \in Seq(S) /\ Len(Append(s, e)) = Len(s) + 1
         /\ DOMAIN Append(s, e) = DOMAIN s \cup {Len(s) + 1}
         /\ Len(s) + 1 \notin DOMAIN s
         /\ \A k \in DOMAIN s : Append(s, e)[k] = s[k]
         /\ Append(s, e)[Len(s) + 1] = e
<1>1. Len(s) \in Nat /\ DOMAIN s = 1 .. Len(s)
  BY LenProperties
<1>2. Append(s, e) \in Seq(S) /\ Len(Append(s, e)) = Len(s) + 1
  BY AppendProperties
<1>3. DOMAIN Append(s, e) = 1 .. Len(s) + 1
  BY <1>1, <1>2, LenProperties
<1>4. /\ \A k \in 1 .. Len(s) : Append(s, e)[k] = s[k]
      /\ Append(s, e)[Len(s) + 1] = e
  BY AppendProperties
<1> QED BY <1>1, <1>2, <1>3, <1>4

LEMMA Elements ==
  ASSUME TypeOK
  PROVE  /\ \A i \in DOMAIN warrants : warrants[i] \in Warrant
         /\ \A g \in DOMAIN grants : grants[g] \in Grant
         /\ DOMAIN warrants = 1 .. Len(warrants) /\ Len(warrants) \in Nat
         /\ DOMAIN grants = 1 .. Len(grants) /\ Len(grants) \in Nat
BY LenProperties, ElementOfSeq DEF TypeOK

LEMMA RevokedFacts ==
  ASSUME TypeOK, NEW S
  PROVE  /\ Revoked(S) \in Seq(Warrant) /\ Len(Revoked(S)) = Len(warrants)
         /\ DOMAIN Revoked(S) = DOMAIN warrants
         /\ \A i \in DOMAIN warrants :
              /\ SameW(warrants[i], Revoked(S)[i])
              /\ Revoked(S)[i].state = "issued" <=> warrants[i].state = "issued" /\ i \notin S
<1>. DEFINE d == Revoked(S)
<1>1. \A i \in DOMAIN warrants :
        d[i] = IF i \in S THEN [warrants[i] EXCEPT !.state = "revoked"] ELSE warrants[i]
  BY DEF Revoked
<1>2. DOMAIN d = DOMAIN warrants /\ d = [i \in DOMAIN warrants |-> d[i]]
  BY DEF Revoked
<1>. HIDE DEF d
<1>3. \A i \in DOMAIN warrants :
        /\ d[i] \in Warrant /\ SameW(warrants[i], d[i])
        /\ d[i].state = "issued" <=> warrants[i].state = "issued" /\ i \notin S
  <2>1. SUFFICES ASSUME NEW i \in DOMAIN warrants
                 PROVE  /\ d[i] \in Warrant /\ SameW(warrants[i], d[i])
                        /\ d[i].state = "issued" <=> warrants[i].state = "issued" /\ i \notin S
    OBVIOUS
  <2>2. warrants[i] \in Warrant
    BY Elements
  <2>3. CASE i \in S
    <3>1. d[i] = [warrants[i] EXCEPT !.state = "revoked"]
      BY <1>1, <2>3
    <3> QED BY <2>2, <2>3, <3>1 DEF Warrant, SameW
  <2>4. CASE i \notin S
    BY <1>1, <2>2, <2>4 DEF SameW
  <2> QED BY <2>3, <2>4
<1>4. d \in Seq(Warrant) /\ Len(d) = Len(warrants)
  BY <1>2, <1>3, Replaced DEF TypeOK
<1> QED BY <1>2, <1>3, <1>4 DEF d

LEMMA WithdrawnFacts ==
  ASSUME TypeOK, NEW S
  PROVE  /\ Withdrawn(S) \in Seq(Grant) /\ Len(Withdrawn(S)) = Len(grants)
         /\ DOMAIN Withdrawn(S) = DOMAIN grants
         /\ \A g \in DOMAIN grants :
              /\ SameG(grants[g], Withdrawn(S)[g])
              /\ Withdrawn(S)[g].state = "granted" <=> grants[g].state = "granted" /\ g \notin S
<1>. DEFINE d == Withdrawn(S)
<1>1. \A g \in DOMAIN grants :
        d[g] = IF g \in S THEN [grants[g] EXCEPT !.state = "withdrawn"] ELSE grants[g]
  BY DEF Withdrawn
<1>2. DOMAIN d = DOMAIN grants /\ d = [g \in DOMAIN grants |-> d[g]]
  BY DEF Withdrawn
<1>. HIDE DEF d
<1>3. \A g \in DOMAIN grants :
        /\ d[g] \in Grant /\ SameG(grants[g], d[g])
        /\ d[g].state = "granted" <=> grants[g].state = "granted" /\ g \notin S
  <2>1. SUFFICES ASSUME NEW g \in DOMAIN grants
                 PROVE  /\ d[g] \in Grant /\ SameG(grants[g], d[g])
                        /\ d[g].state = "granted" <=> grants[g].state = "granted" /\ g \notin S
    OBVIOUS
  <2>2. grants[g] \in Grant
    BY Elements
  <2>3. CASE g \in S
    <3>1. d[g] = [grants[g] EXCEPT !.state = "withdrawn"]
      BY <1>1, <2>3
    <3> QED BY <2>2, <2>3, <3>1 DEF Grant, SameG
  <2>4. CASE g \notin S
    BY <1>1, <2>2, <2>4 DEF SameG
  <2> QED BY <2>3, <2>4
<1>4. d \in Seq(Grant) /\ Len(d) = Len(grants)
  BY <1>2, <1>3, Replaced DEF TypeOK
<1> QED BY <1>2, <1>3, <1>4 DEF d

LEMMA IssuedFacts ==
  ASSUME TypeOK, NEW w \in Warrant, Len(warrants) < MaxWarrants, warrants' = Append(warrants, w)
  PROVE  /\ warrants' \in Seq(Warrant) /\ Len(warrants') <= MaxWarrants
         /\ DOMAIN warrants' = DOMAIN warrants \cup {Len(warrants) + 1}
         /\ Len(warrants) + 1 \notin DOMAIN warrants
         /\ \A i \in DOMAIN warrants : warrants'[i] = warrants[i]
         /\ warrants'[Len(warrants) + 1] = w
<1>1. warrants \in Seq(Warrant) /\ Len(warrants) \in Nat
  BY Elements DEF TypeOK
<1>2. /\ Append(warrants, w) \in Seq(Warrant) /\ Len(Append(warrants, w)) = Len(warrants) + 1
      /\ DOMAIN Append(warrants, w) = DOMAIN warrants \cup {Len(warrants) + 1}
      /\ Len(warrants) + 1 \notin DOMAIN warrants
      /\ \A k \in DOMAIN warrants : Append(warrants, w)[k] = warrants[k]
      /\ Append(warrants, w)[Len(warrants) + 1] = w
  BY <1>1, Appended
<1>3. Len(warrants') <= MaxWarrants
  BY <1>1, <1>2
<1> QED BY <1>2, <1>3

-----------------------------------------------------------------------------
\* Revoking, withdrawing and the passing of time keep what is sound, if no
\* warrant outlasts its share.
LEMMA LessIsSound ==
  ASSUME NEW ws, NEW gs, NEW t \in Nat, Sound(ws, gs, t),
         NEW ds, NEW es, NEW u \in Nat, t <= u,
         \A i \in DOMAIN ws : ws[i].expires \in Nat,
         \A g \in DOMAIN gs : gs[g].expires \in Nat,
         DOMAIN ds = DOMAIN ws, DOMAIN es = DOMAIN gs, DOMAIN gs = 1 .. Len(gs), Len(gs) \in Nat,
         \A i \in DOMAIN ws : SameW(ws[i], ds[i]) /\ (ds[i].state = "issued" => ws[i].state = "issued"),
         \A g \in DOMAIN gs : SameG(gs[g], es[g]) /\ (es[g].state = "granted" => gs[g].state = "granted"),
         \A i \in DOMAIN ws : ds[i].state = "issued" /\ ws[i].grant # 0
                              => es[ws[i].grant].state = "granted"
  PROVE  Sound(ds, es, u)
<1>1. Backed(ds, es)
  <2>1. SUFFICES ASSUME NEW i \in DOMAIN ws, ds[i].grant # 0
                 PROVE  /\ ds[i].grant \in DOMAIN es
                        /\ i \in es[ds[i].grant].minted
                        /\ ds[i].human = es[ds[i].grant].to
                        /\ ds[i].docs = {es[ds[i].grant].doc}
                        /\ ds[i].scopes = SCOPES_FOR_ROLE[es[ds[i].grant].role]
                        /\ ds[i].expires = es[ds[i].grant].expires
                        /\ ds[i].state = "issued" => es[ds[i].grant].state = "granted"
    BY DEF Backed
  <2>2. SameW(ws[i], ds[i]) /\ ws[i].grant # 0 /\ ds[i].grant = ws[i].grant
    BY <2>1 DEF SameW
  <2>3. /\ ws[i].grant \in DOMAIN gs
        /\ i \in gs[ws[i].grant].minted
        /\ ws[i].human = gs[ws[i].grant].to
        /\ ws[i].docs = {gs[ws[i].grant].doc}
        /\ ws[i].scopes = SCOPES_FOR_ROLE[gs[ws[i].grant].role]
        /\ ws[i].expires = gs[ws[i].grant].expires
    BY <2>2 DEF Sound, Backed
  <2>4. SameG(gs[ws[i].grant], es[ws[i].grant])
    BY <2>3
  <2> QED BY <2>2, <2>3, <2>4 DEF SameW, SameG
<1>2. Single(es, u)
  <2>1. \A g \in DOMAIN gs :
          /\ es[g].state = "granted" /\ es[g].expires > u
          => /\ gs[g].state = "granted" /\ gs[g].expires > t
             /\ es[g].doc = gs[g].doc /\ es[g].to = gs[g].to
    BY DEF SameG
  <2>2. \A g, h \in DOMAIN gs :
          /\ gs[g].state = "granted" /\ gs[g].expires > t
          /\ gs[h].state = "granted" /\ gs[h].expires > t
          /\ gs[g].doc = gs[h].doc /\ gs[g].to = gs[h].to
          => g = h
    BY DEF Sound, Single
  <2> QED BY <2>1, <2>2 DEF Single
<1>3. Apart(ds, u)
  <2>1. \A i \in DOMAIN ws :
          /\ ds[i].state = "issued" /\ ds[i].expires > u
          => ws[i].state = "issued" /\ ws[i].expires > t
    BY DEF SameW
  <2>2. \A i \in DOMAIN ws : ds[i].grant = ws[i].grant /\ ds[i].agent = ws[i].agent
    BY DEF SameW
  <2>3. \A i, j \in DOMAIN ws :
          /\ ws[i].state = "issued" /\ ws[i].expires > t
          /\ ws[j].state = "issued" /\ ws[j].expires > t
          /\ ws[i].grant # 0 /\ ws[i].grant = ws[j].grant /\ ws[i].agent = ws[j].agent
          => i = j
    BY DEF Sound, Apart
  <2> QED BY <2>1, <2>2, <2>3 DEF Apart
<1>4. Rooted(ds, es)
  <2>1. SUFFICES ASSUME NEW g \in DOMAIN gs
                 PROVE  \/ \E i \in DOMAIN ds : /\ ds[i].grant = 0 /\ ds[i].human = es[g].by
                                                /\ covers(ds[i], es[g].doc)
                        \/ \E h \in 1 .. g - 1 : /\ es[h].to = es[g].by
                                                 /\ <<es[h].doc, es[g].doc>> \in Covers
                                                 /\ es[h].role = "editor"
    BY DEF Rooted
  <2>2. es[g].by = gs[g].by /\ es[g].doc = gs[g].doc
    BY DEF SameG
  <2>3. CASE \E i \in DOMAIN ws : /\ ws[i].grant = 0 /\ ws[i].human = gs[g].by
                                  /\ covers(ws[i], gs[g].doc)
    <3>1. PICK i \in DOMAIN ws : /\ ws[i].grant = 0 /\ ws[i].human = gs[g].by
                                 /\ covers(ws[i], gs[g].doc)
      BY <2>3
    <3>2. ds[i].grant = 0 /\ ds[i].human = es[g].by /\ ds[i].docs = ws[i].docs
      BY <2>2, <3>1 DEF SameW
    <3> QED BY <2>2, <3>1, <3>2 DEF covers
  <2>4. CASE \E h \in 1 .. g - 1 : /\ gs[h].to = gs[g].by
                                   /\ <<gs[h].doc, gs[g].doc>> \in Covers
                                   /\ gs[h].role = "editor"
    <3>1. PICK h \in 1 .. g - 1 : /\ gs[h].to = gs[g].by
                                  /\ <<gs[h].doc, gs[g].doc>> \in Covers
                                  /\ gs[h].role = "editor"
      BY <2>4
    <3>2. h \in DOMAIN gs
      BY <3>1
    <3>3. es[h].to = gs[h].to /\ es[h].doc = gs[h].doc /\ es[h].role = gs[h].role
      BY <3>2 DEF SameG
    <3> QED BY <2>2, <3>1, <3>3
  <2> QED BY <2>3, <2>4 DEF Sound, Rooted
<1> QED BY <1>1, <1>2, <1>3, <1>4 DEF Sound

LEMMA Times ==
  ASSUME TypeOK
  PROVE  /\ now \in Nat
         /\ \A i \in DOMAIN warrants : warrants[i].expires \in Nat
         /\ \A g \in DOMAIN grants : grants[g].expires \in Nat
<1>1. now \in Nat
  BY DEF TypeOK
<1>2. \A i \in DOMAIN warrants : warrants[i].expires \in Nat
  BY Elements DEF Warrant
<1>3. \A g \in DOMAIN grants : grants[g].expires \in Nat
  BY Elements DEF Grant
<1> QED BY <1>1, <1>2, <1>3

\* Withdrawing shares together with the warrants minted from them.
LEMMA WithdrawnTogether ==
  ASSUME IInv, NEW T
  PROVE  LET ws == Revoked(Minted(T))
             gs == Withdrawn(T)
         IN  T \subseteq DOMAIN grants => Sound(ws, gs, now)
<1>1. SUFFICES ASSUME T \subseteq DOMAIN grants
               PROVE  Sound(Revoked(Minted(T)), Withdrawn(T), now)
  OBVIOUS
<1>. DEFINE ws == Revoked(Minted(T))
            gs == Withdrawn(T)
<1>2. /\ DOMAIN ws = DOMAIN warrants
      /\ \A i \in DOMAIN warrants :
           /\ SameW(warrants[i], ws[i])
           /\ ws[i].state = "issued" <=> warrants[i].state = "issued" /\ i \notin Minted(T)
  BY RevokedFacts DEF IInv
<1>3. /\ DOMAIN gs = DOMAIN grants
      /\ \A g \in DOMAIN grants :
           /\ SameG(grants[g], gs[g])
           /\ gs[g].state = "granted" <=> grants[g].state = "granted" /\ g \notin T
  BY WithdrawnFacts DEF IInv
<1>. HIDE DEF ws, gs
<1>4. ASSUME NEW i \in DOMAIN warrants, ws[i].state = "issued", warrants[i].grant # 0
      PROVE  gs[warrants[i].grant].state = "granted"
  <2>1. warrants[i].state = "issued" /\ i \notin Minted(T)
    BY <1>2, <1>4
  <2>2. /\ warrants[i].grant \in DOMAIN grants
        /\ i \in grants[warrants[i].grant].minted
        /\ grants[warrants[i].grant].state = "granted"
    BY <1>4, <2>1 DEF IInv, Sound, Backed
  <2>3. warrants[i].grant \notin T
    BY <2>1, <2>2 DEF Minted
  <2> QED BY <1>3, <2>2, <2>3
<1>5. /\ \A i \in DOMAIN warrants :
           /\ SameW(warrants[i], ws[i])
           /\ ws[i].state = "issued" => warrants[i].state = "issued"
      /\ \A i \in DOMAIN warrants :
           ws[i].state = "issued" /\ warrants[i].grant # 0 => gs[warrants[i].grant].state = "granted"
  BY <1>2, <1>4
<1>6. \A g \in DOMAIN grants :
        /\ SameG(grants[g], gs[g])
        /\ gs[g].state = "granted" => grants[g].state = "granted"
  BY <1>3
<1>7. /\ Sound(warrants, grants, now) /\ now \in Nat /\ now <= now
      /\ DOMAIN grants = 1 .. Len(grants) /\ Len(grants) \in Nat
  BY Times, Elements DEF IInv
<1>8. /\ \A i \in DOMAIN warrants : warrants[i].expires \in Nat
      /\ \A g \in DOMAIN grants : grants[g].expires \in Nat
  BY Times DEF IInv
<1>9. DOMAIN ws = DOMAIN warrants /\ DOMAIN gs = DOMAIN grants
  BY <1>2, <1>3
<1>10. Sound(ws, gs, now)
  BY <1>5, <1>6, <1>7, <1>8, <1>9, LessIsSound
<1> QED BY <1>10 DEF ws, gs

-----------------------------------------------------------------------------
LEMMA PlanKeeps ==
  ASSUME IInv, Plan
  PROVE  IInv'
<1>1. PICK human \in Humans, agent \in Agents, paper \in Docs, ttl \in Ttls :
        issue(human, agent, 0, {paper}, AGENT_SCOPES, now + ttl)
  BY DEF Plan
<1>2. now' = now /\ grants' = grants /\ now + ttl \in Nat /\ AGENT_SCOPES \in SUBSET Scopes
  BY Times DEF Plan, IInv, AGENT_SCOPES
<1>. DEFINE n == Len(warrants) + 1
            w == [human |-> human, agent |-> agent, grant |-> 0, docs |-> {paper},
                  scopes |-> AGENT_SCOPES, expires |-> now + ttl, state |-> "issued"]
<1>3. /\ warrants' \in Seq(Warrant) /\ Len(warrants') <= MaxWarrants
      /\ DOMAIN warrants' = DOMAIN warrants \cup {n}
      /\ \A i \in DOMAIN warrants : warrants'[i] = warrants[i]
      /\ warrants'[n] = w
  <2>1. w \in Warrant
    BY <1>2 DEF Warrant
  <2>2. warrants' = Append(warrants, w) /\ Len(warrants) < MaxWarrants /\ TypeOK
    BY <1>1 DEF issue, IInv
  <2> QED BY <2>1, <2>2, IssuedFacts
<1>4. warrants'[n].grant = 0
  BY <1>3
<1>5. \A i \in DOMAIN warrants' : warrants'[i].grant # 0 => i \in DOMAIN warrants
  BY <1>3, <1>4
<1>. HIDE DEF n, w
<1>6. Backed(warrants', grants)
  BY <1>3, <1>5 DEF IInv, Sound, Backed
<1>7. Apart(warrants', now)
  BY <1>3, <1>5 DEF IInv, Sound, Apart
<1>8. Rooted(warrants', grants)
  BY <1>3 DEF IInv, Sound, Rooted, covers
<1>9. TypeOK'
  BY <1>2, <1>3 DEF IInv, TypeOK
<1> QED BY <1>2, <1>6, <1>7, <1>8, <1>9 DEF IInv, Sound

LEMMA AttachKeeps ==
  ASSUME IInv, Attach
  PROVE  IInv'
<1>1. PICK g \in DOMAIN grants, agent \in Agents :
        /\ grantIsLive(grants[g])
        /\ \A i \in grants[g].minted : ~(warrants[i].agent = agent /\ isLive(warrants[i]))
        /\ issue(grants[g].to, agent, g, {grants[g].doc},
                 SCOPES_FOR_ROLE[grants[g].role], grants[g].expires)
        /\ grants' = [grants EXCEPT ![g].minted = @ \cup {Len(warrants) + 1}]
        /\ now' = now
  BY DEF Attach
<1>2. grants[g] \in Grant /\ DOMAIN grants = 1 .. Len(grants) /\ Len(warrants) \in Nat
  BY Elements DEF IInv
<1>3. grants[g].role \in Roles
  BY <1>2 DEF Grant
<1>4. /\ g \in Nat /\ g # 0 /\ grants[g].to \in Humans /\ {grants[g].doc} \in SUBSET Docs
      /\ grants[g].expires \in Nat /\ grants[g].minted \in SUBSET Nat
  BY <1>2 DEF Grant
<1>5. SCOPES_FOR_ROLE[grants[g].role] \in SUBSET Scopes
  BY <1>3 DEF Roles, SCOPES_FOR_ROLE, Scopes
<1>. DEFINE n == Len(warrants) + 1
            w == [human |-> grants[g].to, agent |-> agent, grant |-> g,
                  docs |-> {grants[g].doc}, scopes |-> SCOPES_FOR_ROLE[grants[g].role],
                  expires |-> grants[g].expires, state |-> "issued"]
<1>6. /\ warrants' \in Seq(Warrant) /\ Len(warrants') <= MaxWarrants
      /\ DOMAIN warrants' = DOMAIN warrants \cup {n} /\ n \notin DOMAIN warrants
      /\ \A i \in DOMAIN warrants : warrants'[i] = warrants[i]
      /\ warrants'[n] = w
  <2>1. issue(grants[g].to, agent, g, {grants[g].doc},
              SCOPES_FOR_ROLE[grants[g].role], grants[g].expires)
    BY <1>1
  <2>2. warrants' = Append(warrants, w) /\ Len(warrants) < MaxWarrants /\ TypeOK
    BY <2>1 DEF issue, IInv
  <2>3. w \in Warrant
    BY <1>4, <1>5 DEF Warrant
  <2> QED BY <2>2, <2>3, IssuedFacts
<1>7. /\ w.human = grants[g].to /\ w.agent = agent /\ w.grant = g
      /\ w.docs = {grants[g].doc} /\ w.scopes = SCOPES_FOR_ROLE[grants[g].role]
      /\ w.expires = grants[g].expires /\ w.state = "issued"
  OBVIOUS
<1>8. n \in Nat
  BY <1>2
<1>. HIDE DEF n, w
<1>9. /\ DOMAIN grants' = DOMAIN grants
      /\ grants' = [h \in DOMAIN grants |-> grants'[h]]
      /\ grants'[g] = [grants[g] EXCEPT !.minted = @ \cup {n}]
      /\ \A h \in DOMAIN grants : h # g => grants'[h] = grants[h]
  BY <1>1 DEF n
<1>10. /\ grants'[g] \in Grant /\ grants'[g].minted = grants[g].minted \cup {n}
       /\ grants'[g].state = grants[g].state
       /\ grants'[g].doc = grants[g].doc /\ grants'[g].by = grants[g].by
       /\ grants'[g].to = grants[g].to /\ grants'[g].role = grants[g].role
       /\ grants'[g].expires = grants[g].expires
  <2>1. /\ grants[g] \in Grant
        /\ grants'[g] = [grants[g] EXCEPT !.minted = @ \cup {n}]
    BY <1>2, <1>9
  <2>2. grants[g].minted \cup {n} \in SUBSET Nat
    BY <1>8, <2>1 DEF Grant
  <2> QED BY <2>1, <2>2 DEF Grant
<1>11. \A h \in DOMAIN grants :
         /\ grants'[h] \in Grant /\ grants[h].minted \subseteq grants'[h].minted
         /\ grants'[h].state = grants[h].state
         /\ grants'[h].doc = grants[h].doc /\ grants'[h].by = grants[h].by
         /\ grants'[h].to = grants[h].to /\ grants'[h].role = grants[h].role
         /\ grants'[h].expires = grants[h].expires
  BY <1>9, <1>10, Elements DEF IInv
<1>12. grants[g].state = "granted"
  BY <1>1 DEF grantIsLive
<1>13. Backed(warrants', grants')
  <2>1. SUFFICES ASSUME NEW i \in DOMAIN warrants', warrants'[i].grant # 0
                 PROVE  /\ warrants'[i].grant \in DOMAIN grants'
                        /\ i \in grants'[warrants'[i].grant].minted
                        /\ warrants'[i].human = grants'[warrants'[i].grant].to
                        /\ warrants'[i].docs = {grants'[warrants'[i].grant].doc}
                        /\ warrants'[i].scopes = SCOPES_FOR_ROLE[grants'[warrants'[i].grant].role]
                        /\ warrants'[i].expires = grants'[warrants'[i].grant].expires
                        /\ warrants'[i].state = "issued"
                           => grants'[warrants'[i].grant].state = "granted"
    BY DEF Backed
  <2>2. CASE i = n
    BY <1>6, <1>7, <1>9, <1>10, <1>12, <2>2
  <2>3. CASE i \in DOMAIN warrants
    <3>1. warrants'[i] = warrants[i] /\ warrants[i].grant # 0
      BY <1>6, <2>1, <2>3
    <3>2. /\ warrants[i].grant \in DOMAIN grants
          /\ i \in grants[warrants[i].grant].minted
          /\ warrants[i].human = grants[warrants[i].grant].to
          /\ warrants[i].docs = {grants[warrants[i].grant].doc}
          /\ warrants[i].scopes = SCOPES_FOR_ROLE[grants[warrants[i].grant].role]
          /\ warrants[i].expires = grants[warrants[i].grant].expires
          /\ warrants[i].state = "issued" => grants[warrants[i].grant].state = "granted"
      BY <2>3, <3>1 DEF IInv, Sound, Backed
    <3> QED BY <1>9, <1>11, <3>1, <3>2
  <2> QED BY <1>6, <2>2, <2>3
<1>14. Single(grants', now)
  BY <1>9, <1>11 DEF IInv, Sound, Single
<1>15. Apart(warrants', now)
  <2>1. ASSUME NEW i \in DOMAIN warrants, isLive(warrants[i]), warrants[i].grant = g
        PROVE  warrants[i].agent # agent
    <3>1. i \in grants[g].minted
      BY <1>4, <2>1 DEF IInv, Sound, Backed
    <3> QED BY <1>1, <2>1, <3>1
  <2>2. \A i \in DOMAIN warrants :
          warrants[i].state = "issued" /\ warrants[i].expires > now /\ warrants[i].grant = g
          => warrants[i].agent # agent
    BY <2>1 DEF isLive
  <2>3. \A i, j \in DOMAIN warrants :
          /\ warrants[i].state = "issued" /\ warrants[i].expires > now
          /\ warrants[j].state = "issued" /\ warrants[j].expires > now
          /\ warrants[i].grant # 0 /\ warrants[i].grant = warrants[j].grant
          /\ warrants[i].agent = warrants[j].agent
          => i = j
    BY DEF IInv, Sound, Apart
  <2> QED BY <1>6, <1>7, <2>2, <2>3 DEF Apart
<1>16. Rooted(warrants', grants')
  <2>1. SUFFICES ASSUME NEW x \in DOMAIN grants
                 PROVE  \/ \E i \in DOMAIN warrants' :
                             /\ warrants'[i].grant = 0 /\ warrants'[i].human = grants'[x].by
                             /\ covers(warrants'[i], grants'[x].doc)
                        \/ \E h \in 1 .. x - 1 : /\ grants'[h].to = grants'[x].by
                                                 /\ <<grants'[h].doc, grants'[x].doc>> \in Covers
                                                 /\ grants'[h].role = "editor"
    BY <1>9 DEF Rooted
  <2>2. \A h \in 1 .. x - 1 : h \in DOMAIN grants
    BY <1>2, Elements DEF IInv
  <2>3. \/ \E i \in DOMAIN warrants :
             /\ warrants[i].grant = 0 /\ warrants[i].human = grants[x].by
             /\ covers(warrants[i], grants[x].doc)
        \/ \E h \in 1 .. x - 1 : /\ grants[h].to = grants[x].by
                                 /\ <<grants[h].doc, grants[x].doc>> \in Covers
                                 /\ grants[h].role = "editor"
    BY DEF IInv, Sound, Rooted
  <2> QED BY <1>6, <1>11, <2>2, <2>3
<1>17. grants' \in Seq(Grant) /\ Len(grants') = Len(grants)
  BY <1>9, <1>11, Replaced DEF IInv, TypeOK
<1>18. TypeOK'
  BY <1>1, <1>6, <1>17 DEF IInv, TypeOK
<1> QED BY <1>1, <1>13, <1>14, <1>15, <1>16, <1>18 DEF IInv, Sound

LEMMA ShareKeeps ==
  ASSUME IInv, Share
  PROVE  IInv'
<1>1. PICK by \in Humans, to \in Humans, paper \in Docs, role \in Roles, ttl \in Ttls :
        /\ canShare(by, to, paper, role)
        /\ Len(grants) < MaxGrants
        /\ LET replaced == forDocAndGrantee(paper, to)
           IN  /\ grants' = Append(Withdrawn(replaced),
                    [doc |-> paper, by |-> by, to |-> to, role |-> role,
                     expires |-> now + ttl, state |-> "granted", minted |-> {}])
               /\ warrants' = Revoked(Minted(replaced))
        /\ now' = now
  BY DEF Share
<1>. DEFINE T == forDocAndGrantee(paper, to)
            ws == Revoked(Minted(T))
            gs == Withdrawn(T)
            n == Len(grants) + 1
            e == [doc |-> paper, by |-> by, to |-> to, role |-> role,
                  expires |-> now + ttl, state |-> "granted", minted |-> {}]
<1>2. T \subseteq DOMAIN grants
  BY DEF forDocAndGrantee
<1>3. Sound(ws, gs, now)
  BY <1>2, WithdrawnTogether
<1>4. /\ ws \in Seq(Warrant) /\ Len(ws) = Len(warrants) /\ DOMAIN ws = DOMAIN warrants
      /\ \A i \in DOMAIN warrants : SameW(warrants[i], ws[i])
  BY RevokedFacts DEF IInv
<1>5. /\ gs \in Seq(Grant) /\ Len(gs) = Len(grants) /\ DOMAIN gs = DOMAIN grants
      /\ \A g \in DOMAIN grants :
           /\ SameG(grants[g], gs[g])
           /\ gs[g].state = "granted" <=> grants[g].state = "granted" /\ g \notin T
  BY WithdrawnFacts DEF IInv
<1>6. now + ttl \in Nat /\ DOMAIN grants = 1 .. Len(grants) /\ Len(grants) \in Nat
  BY Times, Elements DEF IInv
<1>7. e \in Grant
  BY <1>6 DEF Grant
<1>8. e.doc = paper /\ e.by = by /\ e.to = to /\ e.role = role /\ e.state = "granted" /\ e.minted = {}
  OBVIOUS
<1>9. grants' = Append(gs, e) /\ warrants' = ws /\ now' = now
  BY <1>1
<1>. HIDE DEF ws, gs, e
<1>10. /\ grants' \in Seq(Grant) /\ Len(grants') = Len(gs) + 1
       /\ DOMAIN grants' = DOMAIN grants \cup {n} /\ n \notin DOMAIN grants
       /\ \A g \in DOMAIN grants : grants'[g] = gs[g]
       /\ grants'[n] = e
  BY <1>5, <1>7, <1>9, Appended
<1>11. \A h \in DOMAIN grants :
         gs[h].state = "granted" /\ gs[h].expires > now => gs[h].doc # paper \/ gs[h].to # to
  <2>1. SUFFICES ASSUME NEW h \in DOMAIN grants, gs[h].state = "granted", gs[h].expires > now,
                        gs[h].doc = paper, gs[h].to = to
                 PROVE  FALSE
    OBVIOUS
  <2>2. grants[h].state = "granted" /\ h \notin T /\ SameG(grants[h], gs[h])
    BY <1>5, <2>1
  <2>3. h \in T
    BY <2>1, <2>2 DEF T, forDocAndGrantee, grantIsLive, SameG
  <2> QED BY <2>2, <2>3
<1>12. \/ \E i \in DOMAIN ws : ws[i].grant = 0 /\ ws[i].human = by /\ covers(ws[i], paper)
       \/ \E h \in DOMAIN grants : gs[h].to = by /\ <<gs[h].doc, paper>> \in Covers /\ gs[h].role = "editor"
  <2>1. PICK i \in DOMAIN warrants : /\ warrants[i].human = by /\ covers(warrants[i], paper)
                                     /\ "write" \in warrants[i].scopes
    BY <1>1 DEF canShare, heldScopes, Live
  <2>2. SameW(warrants[i], ws[i]) /\ warrants[i] \in Warrant
    BY <1>4, Elements DEF IInv
  <2>3. CASE warrants[i].grant = 0
    BY <1>4, <2>1, <2>2, <2>3 DEF SameW, covers
  <2>4. CASE warrants[i].grant # 0
    <3>. DEFINE h == warrants[i].grant
    <3>1. /\ h \in DOMAIN grants /\ grants[h].to = by
          /\ warrants[i].docs = {grants[h].doc}
          /\ warrants[i].scopes = SCOPES_FOR_ROLE[grants[h].role]
      BY <2>1, <2>4 DEF IInv, Sound, Backed
    <3>2. <<grants[h].doc, paper>> \in Covers
      BY <2>1, <3>1 DEF covers
    <3>3. grants[h].role \in Roles
      BY <3>1, Elements DEF IInv, Grant
    <3>4. grants[h].role = "editor"
      BY <2>1, <3>1, <3>3 DEF Roles, SCOPES_FOR_ROLE
    <3>5. gs[h].to = grants[h].to /\ gs[h].doc = grants[h].doc /\ gs[h].role = grants[h].role
      BY <1>5, <3>1 DEF SameG
    <3> QED BY <3>1, <3>2, <3>4, <3>5
  <2> QED BY <2>3, <2>4
<1>. HIDE DEF n
<1>13. Backed(ws, grants')
  <2>1. SUFFICES ASSUME NEW i \in DOMAIN ws, ws[i].grant # 0
                 PROVE  /\ ws[i].grant \in DOMAIN grants'
                        /\ i \in grants'[ws[i].grant].minted
                        /\ ws[i].human = grants'[ws[i].grant].to
                        /\ ws[i].docs = {grants'[ws[i].grant].doc}
                        /\ ws[i].scopes = SCOPES_FOR_ROLE[grants'[ws[i].grant].role]
                        /\ ws[i].expires = grants'[ws[i].grant].expires
                        /\ ws[i].state = "issued" => grants'[ws[i].grant].state = "granted"
    BY DEF Backed
  <2>2. /\ ws[i].grant \in DOMAIN gs
        /\ i \in gs[ws[i].grant].minted
        /\ ws[i].human = gs[ws[i].grant].to
        /\ ws[i].docs = {gs[ws[i].grant].doc}
        /\ ws[i].scopes = SCOPES_FOR_ROLE[gs[ws[i].grant].role]
        /\ ws[i].expires = gs[ws[i].grant].expires
        /\ ws[i].state = "issued" => gs[ws[i].grant].state = "granted"
    BY <1>3, <2>1 DEF Sound, Backed
  <2> QED BY <1>5, <1>10, <2>2
<1>14. Single(grants', now)
  <2>1. \A g, h \in DOMAIN gs :
          /\ gs[g].state = "granted" /\ gs[g].expires > now
          /\ gs[h].state = "granted" /\ gs[h].expires > now
          /\ gs[g].doc = gs[h].doc /\ gs[g].to = gs[h].to
          => g = h
    BY <1>3 DEF Sound, Single
  <2> QED BY <1>5, <1>8, <1>10, <1>11, <2>1 DEF Single
<1>15. Rooted(ws, grants')
  <2>1. ASSUME NEW x \in DOMAIN grants
        PROVE  \/ \E i \in DOMAIN ws : /\ ws[i].grant = 0 /\ ws[i].human = grants'[x].by
                                       /\ covers(ws[i], grants'[x].doc)
               \/ \E h \in 1 .. x - 1 : /\ grants'[h].to = grants'[x].by
                                        /\ <<grants'[h].doc, grants'[x].doc>> \in Covers
                                        /\ grants'[h].role = "editor"
    <3>1. \A h \in 1 .. x - 1 : h \in DOMAIN grants
      BY <1>6, <2>1
    <3>2. \/ \E i \in DOMAIN ws : /\ ws[i].grant = 0 /\ ws[i].human = gs[x].by
                                  /\ covers(ws[i], gs[x].doc)
          \/ \E h \in 1 .. x - 1 : /\ gs[h].to = gs[x].by
                                   /\ <<gs[h].doc, gs[x].doc>> \in Covers
                                   /\ gs[h].role = "editor"
      BY <1>3, <1>5 DEF Sound, Rooted
    <3> QED BY <1>10, <3>1, <3>2
  <2>2. \A h \in DOMAIN grants : h \in 1 .. n - 1
    BY <1>6 DEF n
  <2>3. \/ \E i \in DOMAIN ws : /\ ws[i].grant = 0 /\ ws[i].human = grants'[n].by
                                /\ covers(ws[i], grants'[n].doc)
        \/ \E h \in 1 .. n - 1 : /\ grants'[h].to = grants'[n].by
                                 /\ <<grants'[h].doc, grants'[n].doc>> \in Covers
                                 /\ grants'[h].role = "editor"
    BY <1>8, <1>10, <1>12, <2>2
  <2> QED BY <1>10, <2>1, <2>3 DEF Rooted
<1>16. TypeOK'
  BY <1>1, <1>4, <1>5, <1>6, <1>9, <1>10 DEF IInv, TypeOK
<1> QED BY <1>3, <1>9, <1>13, <1>14, <1>15, <1>16 DEF IInv, Sound

LEMMA UnshareKeeps ==
  ASSUME IInv, Unshare
  PROVE  IInv'
<1>1. PICK g \in DOMAIN grants : /\ grants' = Withdrawn({g})
                                 /\ warrants' = Revoked(grants[g].minted)
                                 /\ now' = now
  BY DEF Unshare
<1>2. Minted({g}) = grants[g].minted
  BY DEF Minted
<1>3. Sound(warrants', grants', now)
  BY <1>1, <1>2, WithdrawnTogether
<1>4. TypeOK'
  BY <1>1, RevokedFacts, WithdrawnFacts DEF IInv, TypeOK
<1> QED BY <1>1, <1>3, <1>4 DEF IInv

LEMMA RevokeKeeps ==
  ASSUME IInv, Revoke
  PROVE  IInv'
<1>1. PICK x \in DOMAIN warrants : warrants' = Revoked({x}) /\ now' = now /\ grants' = grants
  BY DEF Revoke
<1>2. /\ warrants' \in Seq(Warrant) /\ Len(warrants') = Len(warrants)
      /\ DOMAIN warrants' = DOMAIN warrants
      /\ \A i \in DOMAIN warrants :
           /\ SameW(warrants[i], warrants'[i])
           /\ warrants'[i].state = "issued" => warrants[i].state = "issued"
  BY <1>1, RevokedFacts DEF IInv
<1>3. \A g \in DOMAIN grants :
        SameG(grants[g], grants[g]) /\ (grants[g].state = "granted" => grants[g].state = "granted")
  BY DEF SameG
<1>4. \A i \in DOMAIN warrants : warrants'[i].state = "issued" /\ warrants[i].grant # 0
                                 => grants[warrants[i].grant].state = "granted"
  BY <1>2 DEF IInv, Sound, Backed
<1>5. /\ Sound(warrants, grants, now) /\ now \in Nat /\ now <= now
      /\ DOMAIN grants = 1 .. Len(grants) /\ Len(grants) \in Nat
      /\ \A i \in DOMAIN warrants : warrants[i].expires \in Nat
      /\ \A g \in DOMAIN grants : grants[g].expires \in Nat
  BY Times, Elements DEF IInv
<1>6. Sound(warrants', grants, now)
  BY <1>2, <1>3, <1>4, <1>5, LessIsSound, SMTT(40)
<1>7. TypeOK'
  BY <1>1, <1>2 DEF IInv, TypeOK
<1> QED BY <1>1, <1>6, <1>7 DEF IInv

LEMMA TickKeeps ==
  ASSUME IInv, Tick
  PROVE  IInv'
<1>1. now' = now + 1 /\ now < MaxNow /\ warrants' = warrants /\ grants' = grants
  BY DEF Tick
<1>2. /\ \A i \in DOMAIN warrants :
           /\ SameW(warrants[i], warrants[i])
           /\ warrants[i].state = "issued" => warrants[i].state = "issued"
      /\ \A g \in DOMAIN grants :
           /\ SameG(grants[g], grants[g])
           /\ grants[g].state = "granted" => grants[g].state = "granted"
  BY DEF SameW, SameG
<1>3. \A i \in DOMAIN warrants : warrants[i].state = "issued" /\ warrants[i].grant # 0
                                 => grants[warrants[i].grant].state = "granted"
  BY DEF IInv, Sound, Backed
<1>4. /\ Sound(warrants, grants, now) /\ now \in Nat /\ now + 1 \in Nat /\ now <= now + 1
      /\ DOMAIN grants = 1 .. Len(grants) /\ Len(grants) \in Nat
      /\ \A i \in DOMAIN warrants : warrants[i].expires \in Nat
      /\ \A g \in DOMAIN grants : grants[g].expires \in Nat
  BY Times, Elements DEF IInv
<1>5. Sound(warrants, grants, now + 1)
  BY <1>2, <1>3, <1>4, LessIsSound
<1>6. TypeOK'
  BY <1>1 DEF IInv, TypeOK
<1> QED BY <1>1, <1>5, <1>6 DEF IInv

LEMMA Inductive == Spec => []IInv
<1>1. Init => IInv
  <2>1. SUFFICES ASSUME Init PROVE IInv
    OBVIOUS
  <2>2. <<>> \in Seq(Warrant) /\ <<>> \in Seq(Grant) /\ Len(<<>>) = 0
    BY EmptySeq
  <2>3. warrants = <<>> /\ grants = <<>> /\ now = 0
    BY <2>1 DEF Init
  <2>4. DOMAIN warrants = {} /\ DOMAIN grants = {}
    BY <2>3
  <2>5. Sound(warrants, grants, now)
    BY <2>4 DEF Sound, Backed, Single, Apart, Rooted
  <2>6. TypeOK
    BY <2>2, <2>3 DEF TypeOK
  <2> QED BY <2>5, <2>6 DEF IInv
<1>2. IInv /\ [Next]_vars => IInv'
  <2>1. SUFFICES ASSUME IInv, [Next]_vars PROVE IInv'
    OBVIOUS
  <2>2. CASE Plan
    BY <2>1, <2>2, PlanKeeps
  <2>3. CASE Share
    BY <2>1, <2>3, ShareKeeps
  <2>4. CASE Attach
    BY <2>1, <2>4, AttachKeeps
  <2>5. CASE Unshare
    BY <2>1, <2>5, UnshareKeeps
  <2>6. CASE Revoke
    BY <2>1, <2>6, RevokeKeeps
  <2>7. CASE Tick
    BY <2>1, <2>7, TickKeeps
  <2>8. CASE UNCHANGED vars
    BY <2>1, <2>8 DEF vars, IInv, TypeOK
  <2> QED BY <2>1, <2>2, <2>3, <2>4, <2>5, <2>6, <2>7, <2>8 DEF Next
<1> QED BY <1>1, <1>2, PTL DEF Spec

\* The type invariant.
THEOREM TypeCorrect == Spec => []TypeOK
<1>1. IInv => TypeOK
  BY DEF IInv
<1> QED BY <1>1, Inductive, PTL

\* No warrant minted from a share outlives it (ShareRegistry.revoke).
THEOREM SharesTakeTheirWarrantsAlong == Spec => []WarrantsFallWithTheirGrant
<1>1. IInv => WarrantsFallWithTheirGrant
  <2>1. SUFFICES ASSUME IInv, NEW i \in Live, warrants[i].grant # 0
                 PROVE  grantIsLive(grants[warrants[i].grant])
    BY DEF WarrantsFallWithTheirGrant
  <2>2. i \in DOMAIN warrants /\ warrants[i].state = "issued" /\ warrants[i].expires > now
    BY <2>1 DEF Live, isLive
  <2> QED BY <2>1, <2>2 DEF IInv, Sound, Backed, grantIsLive
<1> QED BY <1>1, Inductive, PTL

\* Behind a live warrant of a share stands the one share the dialog lists for
\* its holder, at the same role (ShareRegistry.grant, forDocAndGrantee).
THEOREM DialogIsTrue == Spec => []DialogShowsWhatIsHeld
<1>1. IInv => DialogShowsWhatIsHeld
  <2>1. SUFFICES ASSUME IInv, NEW i \in Live, warrants[i].grant # 0,
                        NEW paper \in warrants[i].docs
                 PROVE  /\ forDocAndGrantee(paper, warrants[i].human) # {}
                        /\ \A h \in forDocAndGrantee(paper, warrants[i].human) :
                             warrants[i].scopes \subseteq SCOPES_FOR_ROLE[grants[h].role]
    BY DEF DialogShowsWhatIsHeld
  <2>. DEFINE g == warrants[i].grant
  <2>2. i \in DOMAIN warrants /\ warrants[i].state = "issued" /\ warrants[i].expires > now
    BY <2>1 DEF Live, isLive
  <2>3. /\ g \in DOMAIN grants /\ warrants[i].human = grants[g].to
        /\ paper = grants[g].doc /\ warrants[i].scopes = SCOPES_FOR_ROLE[grants[g].role]
        /\ grants[g].state = "granted" /\ grants[g].expires > now
    BY <2>1, <2>2 DEF IInv, Sound, Backed
  <2>4. g \in forDocAndGrantee(paper, warrants[i].human)
    BY <2>3 DEF forDocAndGrantee, grantIsLive
  <2>5. ASSUME NEW h \in forDocAndGrantee(paper, warrants[i].human)
        PROVE  h = g
    <3>1. /\ h \in DOMAIN grants /\ grants[h].state = "granted" /\ grants[h].expires > now
          /\ grants[h].doc = paper /\ grants[h].to = warrants[i].human
      BY DEF forDocAndGrantee, grantIsLive
    <3> QED BY <2>1, <2>3, <3>1 DEF IInv, Sound, Single
  <2> QED BY <2>3, <2>4, <2>5
<1> QED BY <1>1, Inductive, PTL

\* What is held of a share falls with it, and is listed.
THEOREM SharesHold == Spec => []SharesAreTrue
<1>1. WarrantsFallWithTheirGrant /\ DialogShowsWhatIsHeld => SharesAreTrue
  BY DEF SharesAreTrue
<1> QED BY <1>1, SharesTakeTheirWarrantsAlong, DialogIsTrue, PTL

\* A chain of shares begins with a task and passes only through editors
\* (canShare).
THEOREM SharesComeFromEditors == Spec => []OnlyEditorsShare
<1>1. IInv => OnlyEditorsShare
  BY DEF IInv, Sound, Rooted, OnlyEditorsShare
<1> QED BY <1>1, Inductive, PTL

\* Attaching an agent again mints no second live warrant (attachAgent).
THEOREM AttachedOnce == Spec => []OneWarrantPerAttachedAgent
<1>1. IInv => OneWarrantPerAttachedAgent
  BY DEF IInv, Sound, Apart, OneWarrantPerAttachedAgent, Live, isLive
<1> QED BY <1>1, Inductive, PTL

-----------------------------------------------------------------------------
(***************************************************************************)
(* Planning: what a fold of a list keeps after each of its items. FoldLeft *)
(* is a function on the sets of places not yet folded; it exists when what *)
(* it keeps stays in a set (FoldExists), and the sets 1 .. i are the steps *)
(* of a loop (FirstPlaces).                                                *)
(***************************************************************************)
HIDE AuthorityAssumption

\* What holds of 0 and passes from each number to the next holds of all.
LEMMA Induction ==
  ASSUME NEW N, 0 \in N, \A n \in Nat : n \in N => n + 1 \in N
  PROVE  Nat \subseteq N
<1> DEFINE T == Nat \ N
<1> SUFFICES ASSUME T # {} PROVE FALSE
  OBVIOUS
<1>1. IsWellFoundedOn({q \in Nat \X Nat : q[1] < q[2]}, Nat)
  BY NatLessThanWellFounded DEF OpToRel
<1>2. \E t \in T : \A u \in T : ~(<< u, t >> \in {q \in Nat \X Nat : q[1] < q[2]})
  <2>1. T \subseteq Nat /\ T # {}
    OBVIOUS
  <2> HIDE DEF T
  <2> QED BY ONLY <2>1, <1>1, WFMin
<1>3. PICK t \in T : \A u \in T : ~(u < t)
  BY <1>2
<1>4. t # 0 /\ t \in Nat
  BY <1>3
<1>5. t - 1 \in Nat /\ t - 1 \notin T
  BY <1>3, <1>4
<1>6. t - 1 \in N /\ (t - 1) + 1 = t
  BY <1>4, <1>5
<1>7. t \in N
  BY <1>5, <1>6
<1> QED BY <1>3, <1>7

\* The largest member of a set, and the smallest.
LEMMA LargestIs ==
  ASSUME NEW s, NEW m \in s, s \subseteq Int, \A k \in s : k <= m
  PROVE  Max(s) = m
<1>1. \E x \in s : \A y \in s : x >= y
  OBVIOUS
<1> DEFINE x == Max(s)
<1>2. x \in s /\ \A y \in s : x >= y
  BY <1>1 DEF Max
<1> HIDE DEF x
<1>3. x \in Int /\ m \in Int /\ x >= m /\ x <= m
  BY <1>2
<1>4. x = m
  BY <1>3
<1> QED BY <1>4 DEF x

LEMMA SmallestIs ==
  ASSUME NEW s, s \subseteq Nat, s # {}
  PROVE  Min(s) \in s /\ \A k \in s : Min(s) <= k
<1>1. IsWellFoundedOn({q \in Nat \X Nat : q[1] < q[2]}, Nat)
  BY NatLessThanWellFounded DEF OpToRel
<1>2. \E t \in s : \A u \in s : ~(<< u, t >> \in {q \in Nat \X Nat : q[1] < q[2]})
  BY ONLY s \subseteq Nat, s # {}, <1>1, WFMin
<1>3. PICK t \in s : \A u \in s : ~(<< u, t >> \in {q \in Nat \X Nat : q[1] < q[2]})
  BY <1>2
<1>4. ASSUME NEW u \in s PROVE t <= u
  <2>1. t \in Nat /\ u \in Nat
    OBVIOUS
  <2>2. ~(u < t)
    BY <1>3, <2>1
  <2> QED BY <2>1, <2>2
<1>5. \E x \in s : \A u \in s : x <= u
  BY <1>4
<1> QED BY <1>5 DEF Min

LEMMA FirstPlaces ==
  ASSUME NEW n \in Nat, NEW i \in 1 .. n
  PROVE  /\ 1 .. i \in SUBSET (1 .. n) /\ 1 .. i # {}
         /\ Max(1 .. i) = i /\ (1 .. i) \ {Max(1 .. i)} = 1 .. i - 1
<1>1. i \in 1 .. i /\ 1 .. i \subseteq Int /\ \A k \in 1 .. i : k <= i
  OBVIOUS
<1>2. Max(1 .. i) = i
  BY <1>1, LargestIs
<1> QED BY <1>2

LEMMA LargestOf ==
  ASSUME NEW n \in Nat, NEW s \in SUBSET (1 .. n + 1), s # {}
  PROVE  Max(s) \in 1 .. n + 1 /\ s \ {Max(s)} \in SUBSET (1 .. n)
<1> DEFINE t == {n + 1 - k : k \in s}
<1>1. t \subseteq Nat /\ t # {}
  <2>1. \A k \in s : k \in 1 .. n + 1
    OBVIOUS
  <2>2. \A k \in s : n + 1 - k \in Nat
    BY <2>1
  <2> QED BY <2>2
<1>2. Min(t) \in t /\ \A k \in t : Min(t) <= k
  <2> HIDE DEF t
  <2> QED BY <1>1, SmallestIs
<1>3. PICK m \in s : Min(t) = n + 1 - m
  BY <1>2
<1>4. ASSUME NEW k \in s PROVE k <= m
  <2>1. n + 1 - k \in t
    OBVIOUS
  <2> HIDE DEF t
  <2>2. n + 1 - m <= n + 1 - k
    BY <1>2, <1>3, <2>1
  <2>3. k \in 1 .. n + 1 /\ m \in 1 .. n + 1
    OBVIOUS
  <2> QED BY <2>2, <2>3
<1>5. s \subseteq Int
  OBVIOUS
<1>6. Max(s) = m
  BY <1>4, <1>5, LargestIs
<1>7. ASSUME NEW k \in s, k # m PROVE k \in 1 .. n
  <2>1. k \in 1 .. n + 1 /\ m \in 1 .. n + 1
    OBVIOUS
  <2> QED BY <1>4, <1>7, <2>1
<1> QED BY <1>6, <1>7

\* f keeps base before the first place, and takes the step G at each.
Folds(f, n, base, G) ==
  \A s \in SUBSET (1 .. n) : f[s] = IF s = {} THEN base ELSE G[f[s \ {Max(s)}], Max(s)]

LEMMA FoldExists ==
  ASSUME NEW n \in Nat, NEW S, NEW base \in S, NEW G \in [S \X (1 .. n) -> S]
  PROVE  \E f \in [SUBSET (1 .. n) -> S] : Folds(f, n, base, G)
<1> DEFINE Val(s, f) == IF s = {} THEN base ELSE G[f[s \ {Max(s)}], Max(s)]
           Good(m, f) == /\ f \in [SUBSET (1 .. m) -> S]
                         /\ \A s \in SUBSET (1 .. m) : f[s] = Val(s, f)
           N == {m \in Nat : m <= n => \E f : Good(m, f)}
<1>1. 0 \in N
  <2> DEFINE f == [s \in SUBSET (1 .. 0) |-> base]
  <2>1. \A s \in SUBSET (1 .. 0) : s = {}
    OBVIOUS
  <2>2. Good(0, f)
    BY <2>1
  <2> HIDE DEF f, Good
  <2> QED BY <2>2
<1>2. ASSUME NEW m \in Nat, m \in N PROVE m + 1 \in N
  <2> SUFFICES ASSUME m + 1 <= n PROVE \E f : Good(m + 1, f)
    <3> HIDE DEF Good
    <3> QED BY DEF N
  <2>1. PICK f : Good(m, f)
    <3> HIDE DEF Good
    <3> QED BY <1>2
  <2> DEFINE g == [s \in SUBSET (1 .. m + 1) |-> Val(s, f)]
  <2>2. ASSUME NEW s \in SUBSET (1 .. m + 1), s # {}
        PROVE  Max(s) \in 1 .. n /\ s \ {Max(s)} \in SUBSET (1 .. m)
    <3>1. Max(s) \in 1 .. m + 1 /\ s \ {Max(s)} \in SUBSET (1 .. m)
      BY <2>2, LargestOf
    <3> QED BY <3>1
  <2>3. ASSUME NEW s \in SUBSET (1 .. m + 1) PROVE Val(s, f) \in S
    BY <2>1, <2>2
  <2>4. ASSUME NEW s \in SUBSET (1 .. m) PROVE g[s] = f[s]
    <3>1. s \in SUBSET (1 .. m + 1)
      OBVIOUS
    <3>2. f[s] = Val(s, f)
      BY <2>1
    <3> HIDE DEF Val
    <3> QED BY <3>1, <3>2
  <2>5. ASSUME NEW s \in SUBSET (1 .. m + 1) PROVE Val(s, f) = Val(s, g)
    <3> HIDE DEF g
    <3> QED BY <2>2, <2>4
  <2>6. g \in [SUBSET (1 .. m + 1) -> S]
    <3> HIDE DEF Val
    <3> QED BY <2>3
  <2>7. \A s \in SUBSET (1 .. m + 1) : g[s] = Val(s, g)
    <3>1. \A s \in SUBSET (1 .. m + 1) : g[s] = Val(s, f)
      <4> HIDE DEF Val
      <4> QED OBVIOUS
    <3> HIDE DEF g, Val
    <3> QED BY <2>5, <3>1
  <2>8. Good(m + 1, g)
    <3> HIDE DEF g, Val
    <3> QED BY <2>6, <2>7
  <2> HIDE DEF g, Good
  <2> QED BY <2>8
<1>3. n \in N
  <2> HIDE DEF N
  <2> QED BY <1>1, <1>2, Induction
<1>4. \E f : Good(n, f)
  <2> HIDE DEF Good
  <2> QED BY <1>3
<1> QED BY <1>4 DEF Folds

\* The largest place of a set is one of them.
LEMMA MaxIn ==
  ASSUME NEW n \in Nat, NEW s \in SUBSET (1 .. n), s # {}
  PROVE  Max(s) \in 1 .. n /\ s \ {Max(s)} \in SUBSET (1 .. n)
<1>1. n - 1 \in Nat /\ n = (n - 1) + 1
  <2>1. \E k \in s : k \in 1 .. n
    OBVIOUS
  <2> QED BY <2>1
<1>2. Max(s) \in 1 .. n /\ s \ {Max(s)} \in SUBSET (1 .. n - 1)
  <2> DEFINE m == n - 1
  <2>1. m \in Nat /\ s \in SUBSET (1 .. m + 1) /\ n = m + 1
    BY <1>1
  <2> HIDE DEF m
  <2>2. Max(s) \in 1 .. m + 1 /\ s \ {Max(s)} \in SUBSET (1 .. m)
    BY <2>1, LargestOf
  <2> QED BY <2>1, <2>2 DEF m
<1> QED BY <1>2

-----------------------------------------------------------------------------
(* The loops of planning, step by step. *)

Word == STRING \cup {"implement", "configure", "test", "document", "work",
                     "src", "config", "tests", "docs", "write", "add", "cover", "readme"}

Keep(kept, word) == IF word \in Punctuation THEN kept ELSE Append(kept, word)

LEMMA SlugLoop ==
  ASSUME NEW title \in Seq(Word)
  PROVE  \E v : /\ v[0] = <<>>
                /\ \A i \in 1 .. Len(title) : v[i] = Keep(v[i - 1], title[i])
                /\ FoldLeft(LAMBDA kept, word : IF word \in Punctuation THEN kept ELSE Append(kept, word),
                            <<>>, title) = v[Len(title)]
<1> DEFINE n == Len(title)
           S == Seq(Word)
           G == [x \in S \X (1 .. n) |-> Keep(x[1], title[x[2]])]
           Val(s, f) == IF s = {} THEN <<>> ELSE Keep(f[s \ {Max(s)}], title[Max(s)])
           Q(f) == f = [s \in SUBSET DOMAIN title |-> Val(s, f)]
           F == CHOOSE f : Q(f)
           v == [i \in 0 .. n |-> F[1 .. i]]
<1>1. n \in Nat /\ DOMAIN title = 1 .. n
  BY LenProperties
<1>2. FoldLeft(LAMBDA kept, word : IF word \in Punctuation THEN kept ELSE Append(kept, word),
                            <<>>, title) = F[DOMAIN title]
  BY DEF FoldLeft, MapThenFoldSet, Keep
<1>3. <<>> \in S /\ \A x \in S : \A i \in 1 .. n : Keep(x, title[i]) \in S
  BY ElementOfSeq, AppendProperties, <1>1 DEF Keep
<1>4. \E f : Q(f)
  <2>1. G \in [S \X (1 .. n) -> S]
    <3> HIDE DEF S, n
    <3> QED BY <1>3
  <2>2. PICK f \in [SUBSET (1 .. n) -> S] : Folds(f, n, <<>>, G)
    <3> HIDE DEF S, n, G
    <3> QED BY <1>1, <1>3, <2>1, FoldExists
  <2>3. ASSUME NEW s \in SUBSET (1 .. n) PROVE f[s] = Val(s, f)
    <3>1. CASE s = {}
      BY <2>2, <3>1 DEF Folds
    <3>2. CASE s # {}
      <4>1. Max(s) \in 1 .. n /\ s \ {Max(s)} \in SUBSET (1 .. n)
        <5> HIDE DEF n
        <5> QED BY <1>1, <3>2, MaxIn
      <4>2. f[s] = G[f[s \ {Max(s)}], Max(s)]
        <5> HIDE DEF S, n, G
        <5> QED BY <2>2, <3>2 DEF Folds
      <4>3. G[f[s \ {Max(s)}], Max(s)] = Keep(f[s \ {Max(s)}], title[Max(s)])
        <5> HIDE DEF S, n
        <5> QED BY <4>1
      <4> QED BY <3>2, <4>2, <4>3
    <3> QED BY <3>1, <3>2
  <2>4. f = [s \in SUBSET (1 .. n) |-> Val(s, f)]
    <3> HIDE DEF S, n, Val, G
    <3> QED BY <2>3
  <2> HIDE DEF Val
  <2> QED BY <1>1, <2>4
<1>5. Q(F)
  <2> HIDE DEF Q
  <2> QED BY <1>4
<1>6. v[0] = <<>>
  <2>1. F[{}] = <<>>
    <3> HIDE DEF F
    <3> QED BY <1>5
  <2>2. v[0] = F[1 .. 0] /\ 1 .. 0 = {}
    <3> HIDE DEF F, n
    <3> QED BY <1>1
  <2> HIDE DEF v, F
  <2> QED BY <2>1, <2>2
<1>7. ASSUME NEW i \in 1 .. n PROVE v[i] = Keep(v[i - 1], title[i])
  <2>1. /\ 1 .. i \in SUBSET (1 .. n) /\ 1 .. i # {}
        /\ Max(1 .. i) = i /\ (1 .. i) \ {Max(1 .. i)} = 1 .. i - 1
    <3> HIDE DEF n
    <3> QED BY <1>1, FirstPlaces
  <2>2. F[1 .. i] = Val(1 .. i, F)
    <3> HIDE DEF F, Val, n
    <3> QED BY <1>1, <1>5, <2>1
  <2>3. v[i] = F[1 .. i] /\ v[i - 1] = F[1 .. i - 1]
    <3> HIDE DEF F, n
    <3> QED BY <1>1
  <2> HIDE DEF F, v
  <2> QED BY <2>1, <2>2, <2>3
<1>8. FoldLeft(LAMBDA kept, word : IF word \in Punctuation THEN kept ELSE Append(kept, word),
                            <<>>, title) = v[n]
  <2>1. v[n] = F[1 .. n]
    <3> HIDE DEF F, n
    <3> QED BY <1>1
  <2> HIDE DEF v, F
  <2> QED BY <1>1, <1>2, <2>1
<1> HIDE DEF v, F
<1> QED BY <1>6, <1>7, <1>8

\* The items of a reply; what is made of one.
Item     == [title : Seq(STRING), description : Seq(STRING), paths : SUBSET Seq(STRING)]
Paths    == {normalisePath(path) : path \in Seq(STRING)} \cup Seq(Word)
Proposal == [title : Seq(Word), description : Seq(Word), paths : SUBSET Paths]

Propose(out, item, max) ==
  IF item.title = <<>> \/ Claims(item, out) = {} \/ Len(out) >= max THEN out
  ELSE Append(out, [title |-> item.title, description |-> item.description, paths |-> Claims(item, out)])

LEMMA ProposalsLoop ==
  ASSUME NEW items \in Seq(Item), NEW max \in Nat
  PROVE  \E v : /\ v[0] = <<>>
                /\ \A i \in 1 .. Len(items) : v[i] = Propose(v[i - 1], items[i], max)
                /\ parseArkProposals(items, max) = v[Len(items)]
<1> DEFINE n == Len(items)
           S == Seq(Proposal)
           G == [x \in S \X (1 .. n) |-> Propose(x[1], items[x[2]], max)]
           Val(s, f) == IF s = {} THEN <<>> ELSE Propose(f[s \ {Max(s)}], items[Max(s)], max)
           Q(f) == f = [s \in SUBSET DOMAIN items |-> Val(s, f)]
           F == CHOOSE f : Q(f)
           v == [i \in 0 .. n |-> F[1 .. i]]
<1>1. n \in Nat /\ DOMAIN items = 1 .. n
  BY LenProperties
<1>2. parseArkProposals(items, max) = F[DOMAIN items]
  BY DEF parseArkProposals, FoldLeft, MapThenFoldSet, Propose
<1>3. <<>> \in S /\ \A x \in S : \A i \in 1 .. n : Propose(x, items[i], max) \in S
  <2> SUFFICES ASSUME NEW x \in S, NEW i \in 1 .. n PROVE Propose(x, items[i], max) \in S
    OBVIOUS
  <2>1. items[i] \in Item
    BY <1>1, ElementOfSeq
  <2>2. Claims(items[i], x) \in SUBSET Paths
    BY <2>1 DEF Claims, Item, Paths
  <2>3. items[i].title \in Seq(Word)
    BY <2>1 DEF Item, Word
  <2>5. items[i].description \in Seq(Word)
    BY <2>1 DEF Item, Word
  <2>4. [title |-> items[i].title, description |-> items[i].description,
          paths |-> Claims(items[i], x)] \in Proposal
    BY <2>2, <2>3, <2>5 DEF Proposal
  <2> QED BY <2>4, AppendProperties DEF Propose
<1>4. \E f : Q(f)
  <2>1. G \in [S \X (1 .. n) -> S]
    <3> HIDE DEF S, n
    <3> QED BY <1>3
  <2>2. PICK f \in [SUBSET (1 .. n) -> S] : Folds(f, n, <<>>, G)
    <3> HIDE DEF S, n, G
    <3> QED BY <1>1, <1>3, <2>1, FoldExists
  <2>3. ASSUME NEW s \in SUBSET (1 .. n) PROVE f[s] = Val(s, f)
    <3>1. CASE s = {}
      BY <2>2, <3>1 DEF Folds
    <3>2. CASE s # {}
      <4>1. Max(s) \in 1 .. n /\ s \ {Max(s)} \in SUBSET (1 .. n)
        <5> HIDE DEF n
        <5> QED BY <1>1, <3>2, MaxIn
      <4>2. f[s] = G[f[s \ {Max(s)}], Max(s)]
        <5> HIDE DEF S, n, G
        <5> QED BY <2>2, <3>2 DEF Folds
      <4>3. G[f[s \ {Max(s)}], Max(s)] = Propose(f[s \ {Max(s)}], items[Max(s)], max)
        <5> HIDE DEF S, n
        <5> QED BY <4>1
      <4> QED BY <3>2, <4>2, <4>3
    <3> QED BY <3>1, <3>2
  <2>4. f = [s \in SUBSET (1 .. n) |-> Val(s, f)]
    <3> HIDE DEF S, n, Val, G
    <3> QED BY <2>3
  <2> HIDE DEF Val
  <2> QED BY <1>1, <2>4
<1>5. Q(F)
  <2> HIDE DEF Q
  <2> QED BY <1>4
<1>6. v[0] = <<>>
  <2>1. F[{}] = <<>>
    <3> HIDE DEF F
    <3> QED BY <1>5
  <2>2. v[0] = F[1 .. 0] /\ 1 .. 0 = {}
    <3> HIDE DEF F, n
    <3> QED BY <1>1
  <2> HIDE DEF v, F
  <2> QED BY <2>1, <2>2
<1>7. ASSUME NEW i \in 1 .. n PROVE v[i] = Propose(v[i - 1], items[i], max)
  <2>1. /\ 1 .. i \in SUBSET (1 .. n) /\ 1 .. i # {}
        /\ Max(1 .. i) = i /\ (1 .. i) \ {Max(1 .. i)} = 1 .. i - 1
    <3> HIDE DEF n
    <3> QED BY <1>1, FirstPlaces
  <2>2. F[1 .. i] = Val(1 .. i, F)
    <3> HIDE DEF F, Val, n
    <3> QED BY <1>1, <1>5, <2>1
  <2>3. v[i] = F[1 .. i] /\ v[i - 1] = F[1 .. i - 1]
    <3> HIDE DEF F, n
    <3> QED BY <1>1
  <2> HIDE DEF F, v
  <2> QED BY <2>1, <2>2, <2>3
<1>8. parseArkProposals(items, max) = v[n]
  <2>1. v[n] = F[1 .. n]
    <3> HIDE DEF F, n
    <3> QED BY <1>1
  <2> HIDE DEF v, F
  <2> QED BY <1>1, <1>2, <2>1
<1> HIDE DEF v, F
<1> QED BY <1>6, <1>7, <1>8

\* Every heading there may be.
HeadingsOf == {Numbered(x[1], x[2]) : x \in Seq(Word) \X Nat}

Name(names, proposal) == Append(names, Heading(proposal.title, ToSet(names)))

LEMMA HeadingsLoop ==
  ASSUME NEW proposals \in Seq(Proposal)
  PROVE  \E v : /\ v[0] = <<>>
                /\ \A i \in 1 .. Len(proposals) : v[i] = Name(v[i - 1], proposals[i])
                /\ Headings(proposals) = v[Len(proposals)]
<1> DEFINE n == Len(proposals)
           S == Seq(HeadingsOf \cup {Numbered(title, Min({})) : title \in Seq(Word)})
           G == [x \in S \X (1 .. n) |-> Name(x[1], proposals[x[2]])]
           Val(s, f) == IF s = {} THEN <<>> ELSE Name(f[s \ {Max(s)}], proposals[Max(s)])
           Q(f) == f = [s \in SUBSET DOMAIN proposals |-> Val(s, f)]
           F == CHOOSE f : Q(f)
           v == [i \in 0 .. n |-> F[1 .. i]]
<1>1. n \in Nat /\ DOMAIN proposals = 1 .. n
  BY LenProperties
<1>2. Headings(proposals) = F[DOMAIN proposals]
  BY DEF Headings, FoldLeft, MapThenFoldSet, Name
<1>3. <<>> \in S /\ \A x \in S : \A i \in 1 .. n : Name(x, proposals[i]) \in S
  <2> DEFINE H == HeadingsOf \cup {Numbered(title, Min({})) : title \in Seq(Word)}
  <2> SUFFICES ASSUME NEW x \in Seq(H), NEW i \in 1 .. n PROVE Name(x, proposals[i]) \in Seq(H)
    OBVIOUS
  <2> DEFINE title == proposals[i].title
             free == {k \in 1 .. Cardinality(ToSet(x)) + 1 : Numbered(title, k) \notin ToSet(x)}
  <2>1. title \in Seq(Word)
    <3>1. proposals[i] \in Proposal
      BY <1>1, ElementOfSeq
    <3> QED BY <3>1 DEF Proposal
  <2>2. free # {} => Min(free) \in Nat
    <3>1. free \subseteq Nat
      OBVIOUS
    <3> HIDE DEF free
    <3> QED BY <3>1, SmallestIs
  <2>3. Heading(title, ToSet(x)) = Numbered(title, Min(free))
    BY DEF Heading
  <2>4. Heading(title, ToSet(x)) \in H
    <3>1. CASE free # {}
      <4> DEFINE k == Min(free)
      <4>1. k \in Nat /\ Heading(title, ToSet(x)) = Numbered(title, k)
        BY <2>2, <2>3, <3>1
      <4>2. << title, k >> \in Seq(Word) \X Nat
        BY <2>1, <4>1
      <4> HIDE DEF k, free, title
      <4> QED BY <4>1, <4>2 DEF HeadingsOf
    <3>2. CASE free = {}
      <4> HIDE DEF free, title
      <4> QED BY <2>1, <2>3, <3>2
    <3> QED BY <3>1, <3>2
  <2> HIDE DEF H, free
  <2> QED BY <2>4, AppendProperties DEF Name
<1>4. \E f : Q(f)
  <2>1. G \in [S \X (1 .. n) -> S]
    <3> HIDE DEF S, n
    <3> QED BY <1>3
  <2>2. PICK f \in [SUBSET (1 .. n) -> S] : Folds(f, n, <<>>, G)
    <3> HIDE DEF S, n, G
    <3> QED BY <1>1, <1>3, <2>1, FoldExists
  <2>3. ASSUME NEW s \in SUBSET (1 .. n) PROVE f[s] = Val(s, f)
    <3>1. CASE s = {}
      BY <2>2, <3>1 DEF Folds
    <3>2. CASE s # {}
      <4>1. Max(s) \in 1 .. n /\ s \ {Max(s)} \in SUBSET (1 .. n)
        <5> HIDE DEF n
        <5> QED BY <1>1, <3>2, MaxIn
      <4>2. f[s] = G[f[s \ {Max(s)}], Max(s)]
        <5> HIDE DEF S, n, G
        <5> QED BY <2>2, <3>2 DEF Folds
      <4>3. G[f[s \ {Max(s)}], Max(s)] = Name(f[s \ {Max(s)}], proposals[Max(s)])
        <5> HIDE DEF S, n
        <5> QED BY <4>1
      <4> QED BY <3>2, <4>2, <4>3
    <3> QED BY <3>1, <3>2
  <2>4. f = [s \in SUBSET (1 .. n) |-> Val(s, f)]
    <3> HIDE DEF S, n, Val, G
    <3> QED BY <2>3
  <2> HIDE DEF Val
  <2> QED BY <1>1, <2>4
<1>5. Q(F)
  <2> HIDE DEF Q
  <2> QED BY <1>4
<1>6. v[0] = <<>>
  <2>1. F[{}] = <<>>
    <3> HIDE DEF F
    <3> QED BY <1>5
  <2>2. v[0] = F[1 .. 0] /\ 1 .. 0 = {}
    <3> HIDE DEF F, n
    <3> QED BY <1>1
  <2> HIDE DEF v, F
  <2> QED BY <2>1, <2>2
<1>7. ASSUME NEW i \in 1 .. n PROVE v[i] = Name(v[i - 1], proposals[i])
  <2>1. /\ 1 .. i \in SUBSET (1 .. n) /\ 1 .. i # {}
        /\ Max(1 .. i) = i /\ (1 .. i) \ {Max(1 .. i)} = 1 .. i - 1
    <3> HIDE DEF n
    <3> QED BY <1>1, FirstPlaces
  <2>2. F[1 .. i] = Val(1 .. i, F)
    <3> HIDE DEF F, Val, n
    <3> QED BY <1>1, <1>5, <2>1
  <2>3. v[i] = F[1 .. i] /\ v[i - 1] = F[1 .. i - 1]
    <3> HIDE DEF F, n
    <3> QED BY <1>1
  <2> HIDE DEF F, v
  <2> QED BY <2>1, <2>2, <2>3
<1>8. Headings(proposals) = v[n]
  <2>1. v[n] = F[1 .. n]
    <3> HIDE DEF F, n
    <3> QED BY <1>1
  <2> HIDE DEF v, F
  <2> QED BY <1>1, <1>2, <2>1
<1> HIDE DEF v, F
<1> QED BY <1>6, <1>7, <1>8

\* Every line planning and the others put into the document.
DocLine == HeadingsOf \cup {Placeholder, Empty, << "work" >>} \cup {TitleLine(p) : p \in Plans}

Opening(p, lines) == IF lines = <<>> THEN << TitleLine(p), Empty >> ELSE <<>>

Add(added, s, lines) ==
  IF s.section \in ToSet(lines) THEN added ELSE added \o << s.section, Placeholder, Empty >>

LEMMA AdditionsLoop ==
  ASSUME NEW p \in Plans, NEW lines, NEW X, NEW subtasks \in Seq(X),
         \A i \in DOMAIN subtasks : subtasks[i].section \in HeadingsOf
  PROVE  \E v : /\ v[0] = Opening(p, lines)
                /\ \A i \in 1 .. Len(subtasks) : v[i] = Add(v[i - 1], subtasks[i], lines)
                /\ Additions(p, lines, subtasks) = v[Len(subtasks)]
<1> DEFINE n == Len(subtasks)
           S == Seq(DocLine)
           G == [x \in S \X (1 .. n) |-> Add(x[1], subtasks[x[2]], lines)]
           Val(s, f) == IF s = {} THEN Opening(p, lines) ELSE Add(f[s \ {Max(s)}], subtasks[Max(s)], lines)
           Q(f) == f = [s \in SUBSET DOMAIN subtasks |-> Val(s, f)]
           F == CHOOSE f : Q(f)
           v == [i \in 0 .. n |-> F[1 .. i]]
<1>1. n \in Nat /\ DOMAIN subtasks = 1 .. n
  BY LenProperties
<1>2. Additions(p, lines, subtasks) = F[DOMAIN subtasks]
  BY DEF Additions, Opening, FoldLeft, MapThenFoldSet, Add
<1>3. Opening(p, lines) \in S /\ \A x \in S : \A i \in 1 .. n : Add(x, subtasks[i], lines) \in S
  <2>1. TitleLine(p) \in DocLine /\ Placeholder \in DocLine /\ Empty \in DocLine
    BY DEF DocLine
  <2>2. Opening(p, lines) \in Seq(DocLine)
    BY <2>1 DEF Opening
  <2> SUFFICES ASSUME NEW x \in S, NEW i \in 1 .. n PROVE Add(x, subtasks[i], lines) \in S
    BY <2>2
  <2>3. subtasks[i].section \in DocLine
    BY <1>1 DEF DocLine
  <2>4. << subtasks[i].section, Placeholder, Empty >> \in Seq(DocLine)
    BY <2>1, <2>3
  <2> QED BY <2>4, ConcatProperties DEF Add
<1>4. \E f : Q(f)
  <2>1. G \in [S \X (1 .. n) -> S]
    <3> HIDE DEF S, n
    <3> QED BY <1>3
  <2>2. PICK f \in [SUBSET (1 .. n) -> S] : Folds(f, n, Opening(p, lines), G)
    <3> HIDE DEF S, n, G
    <3> QED BY <1>1, <1>3, <2>1, FoldExists
  <2>3. ASSUME NEW s \in SUBSET (1 .. n) PROVE f[s] = Val(s, f)
    <3>1. CASE s = {}
      BY <2>2, <3>1 DEF Folds
    <3>2. CASE s # {}
      <4>1. Max(s) \in 1 .. n /\ s \ {Max(s)} \in SUBSET (1 .. n)
        <5> HIDE DEF n
        <5> QED BY <1>1, <3>2, MaxIn
      <4>2. f[s] = G[f[s \ {Max(s)}], Max(s)]
        <5> HIDE DEF S, n, G
        <5> QED BY <2>2, <3>2 DEF Folds
      <4>3. G[f[s \ {Max(s)}], Max(s)] = Add(f[s \ {Max(s)}], subtasks[Max(s)], lines)
        <5> HIDE DEF S, n
        <5> QED BY <4>1
      <4> QED BY <3>2, <4>2, <4>3
    <3> QED BY <3>1, <3>2
  <2>4. f = [s \in SUBSET (1 .. n) |-> Val(s, f)]
    <3> HIDE DEF S, n, Val, G
    <3> QED BY <2>3
  <2> HIDE DEF Val
  <2> QED BY <1>1, <2>4
<1>5. Q(F)
  <2> HIDE DEF Q
  <2> QED BY <1>4
<1>6. v[0] = Opening(p, lines)
  <2>1. F[{}] = Opening(p, lines)
    <3> HIDE DEF F
    <3> QED BY <1>5
  <2>2. v[0] = F[1 .. 0] /\ 1 .. 0 = {}
    <3> HIDE DEF F, n
    <3> QED BY <1>1
  <2> HIDE DEF v, F
  <2> QED BY <2>1, <2>2
<1>7. ASSUME NEW i \in 1 .. n PROVE v[i] = Add(v[i - 1], subtasks[i], lines)
  <2>1. /\ 1 .. i \in SUBSET (1 .. n) /\ 1 .. i # {}
        /\ Max(1 .. i) = i /\ (1 .. i) \ {Max(1 .. i)} = 1 .. i - 1
    <3> HIDE DEF n
    <3> QED BY <1>1, FirstPlaces
  <2>2. F[1 .. i] = Val(1 .. i, F)
    <3> HIDE DEF F, Val, n
    <3> QED BY <1>1, <1>5, <2>1
  <2>3. v[i] = F[1 .. i] /\ v[i - 1] = F[1 .. i - 1]
    <3> HIDE DEF F, n
    <3> QED BY <1>1
  <2> HIDE DEF F, v
  <2> QED BY <2>1, <2>2, <2>3
<1>8. Additions(p, lines, subtasks) = v[n]
  <2>1. v[n] = F[1 .. n]
    <3> HIDE DEF F, n
    <3> QED BY <1>1
  <2> HIDE DEF v, F
  <2> QED BY <1>1, <1>2, <2>1
<1> HIDE DEF v, F
<1> QED BY <1>6, <1>7, <1>8

-----------------------------------------------------------------------------
(* What the loops of planning come to. *)

\* Each has a path of its own.
Exclusive(proposals) ==
  \A i, k \in DOMAIN proposals :
    /\ proposals[i].paths # {}
    /\ i # k => proposals[i].paths \cap proposals[k].paths = {}

LEMMA ProposeKeeps ==
  ASSUME NEW out \in Seq(Proposal), NEW max \in Nat, Len(out) <= max, Exclusive(out),
         NEW item \in Item
  PROVE  LET next1 == Propose(out, item, max)
         IN  next1 \in Seq(Proposal) /\ Len(next1) <= max /\ Exclusive(next1)
<1> DEFINE one == [title |-> item.title, description |-> item.description, paths |-> Claims(item, out)]
           more == Append(out, one)
<1>1. Claims(item, out) \in SUBSET Paths
  BY DEF Claims, Item, Paths
<1>2. one \in Proposal
  BY <1>1 DEF Item, Word, Proposal
<1>3. Len(out) \in Nat
  BY LenProperties
<1>4. /\ more \in Seq(Proposal) /\ Len(more) = Len(out) + 1 /\ more[Len(out) + 1] = one
      /\ \A i \in 1 .. Len(out) : more[i] = out[i]
  BY <1>2, AppendProperties
<1>5. ASSUME Claims(item, out) # {} PROVE Exclusive(more)
  <2>1. \A i \in DOMAIN out : out[i].paths \cap Claims(item, out) = {}
    BY DEF Claims, ToSet
  <2>2. DOMAIN more = 1 .. Len(out) + 1 /\ DOMAIN out = 1 .. Len(out)
    BY <1>4, LenProperties
  <2>3. one.paths = Claims(item, out)
    OBVIOUS
  <2> SUFFICES ASSUME NEW i \in DOMAIN more, NEW k \in DOMAIN more
               PROVE  /\ more[i].paths # {}
                      /\ i # k => more[i].paths \cap more[k].paths = {}
    BY DEF Exclusive
  <2> HIDE DEF more, one
  <2>4. CASE i \in 1 .. Len(out) /\ k \in 1 .. Len(out)
    BY <1>4, <2>2, <2>4 DEF Exclusive
  <2>5. CASE i = Len(out) + 1 /\ k \in 1 .. Len(out)
    BY <1>4, <1>5, <2>1, <2>2, <2>3, <2>5
  <2>6. CASE k = Len(out) + 1 /\ i \in 1 .. Len(out)
    BY <1>4, <1>5, <2>1, <2>2, <2>3, <2>6 DEF Exclusive
  <2>7. CASE i = Len(out) + 1 /\ k = Len(out) + 1
    BY <1>4, <1>5, <2>3, <2>7
  <2> QED BY <1>3, <2>2, <2>4, <2>5, <2>6, <2>7
<1> HIDE DEF more, one
<1> QED BY <1>3, <1>4, <1>5 DEF Propose, more, one

\* Whatever the model answers, its proposals are no more than were asked for,
\* and no two of them claim a path.
LEMMA ArkProposals ==
  ASSUME NEW items \in Seq(Item), NEW max \in Nat
  PROVE  LET proposals == parseArkProposals(items, max)
         IN  /\ proposals \in Seq(Proposal) /\ Len(proposals) <= max
             /\ Exclusive(proposals)
<1>1. PICK v : /\ v[0] = <<>>
               /\ \A i \in 1 .. Len(items) : v[i] = Propose(v[i - 1], items[i], max)
               /\ parseArkProposals(items, max) = v[Len(items)]
  BY ProposalsLoop
<1> DEFINE OK(x) == x \in Seq(Proposal) /\ Len(x) <= max /\ Exclusive(x)
           N == {i \in Nat : i <= Len(items) => OK(v[i])}
<1>2. Len(items) \in Nat
  BY LenProperties
<1>3. 0 \in N
  <2>1. OK(<<>>)
    BY DEF Exclusive
  <2> HIDE DEF OK
  <2> QED BY <1>1, <2>1
<1>4. ASSUME NEW i \in Nat, i \in N PROVE i + 1 \in N
  <2> SUFFICES ASSUME i + 1 <= Len(items) PROVE OK(v[i + 1])
    <3> HIDE DEF OK
    <3> QED BY DEF N
  <2>1. i + 1 \in 1 .. Len(items) /\ (i + 1) - 1 = i /\ i <= Len(items)
    BY <1>2
  <2>2. OK(v[i])
    <3> HIDE DEF OK
    <3> QED BY <1>4, <2>1
  <2>3. items[i + 1] \in Item
    BY <2>1, ElementOfSeq
  <2>4. v[i + 1] = Propose(v[i], items[i + 1], max)
    BY <1>1, <2>1
  <2> QED BY <2>2, <2>3, <2>4, ProposeKeeps
<1>5. Len(items) \in N
  <2> HIDE DEF N
  <2> QED BY <1>2, <1>3, <1>4, Induction
<1>6. OK(v[Len(items)])
  <2> HIDE DEF OK
  <2> QED BY <1>5
<1> QED BY <1>1, <1>6

LEMMA SlugIs ==
  ASSUME NEW title \in Seq(Word)
  PROVE  slug(title) \in Seq(Word)
<1> DEFINE words == FoldLeft(LAMBDA kept, word : IF word \in Punctuation THEN kept
                                                  ELSE Append(kept, word),
                             <<>>, title)
<1>1. PICK v : /\ v[0] = <<>>
               /\ \A i \in 1 .. Len(title) : v[i] = Keep(v[i - 1], title[i])
               /\ words = v[Len(title)]
  BY SlugLoop
<1> HIDE DEF words
<1> DEFINE N == {i \in Nat : i <= Len(title) => v[i] \in Seq(Word)}
<1>2. Len(title) \in Nat
  BY LenProperties
<1>3. 0 \in N
  <2>1. v[0] \in Seq(Word)
    <3>1. v[0] = <<>>
      BY <1>1
    <3> QED BY <3>1
  <2> QED BY <2>1
<1>4. ASSUME NEW i \in Nat, i \in N PROVE i + 1 \in N
  <2> SUFFICES ASSUME i + 1 <= Len(title) PROVE v[i + 1] \in Seq(Word)
    OBVIOUS
  <2>1. i + 1 \in 1 .. Len(title) /\ (i + 1) - 1 = i /\ i <= Len(title)
    BY <1>2
  <2>2. v[i] \in Seq(Word) /\ title[i + 1] \in Word
    BY <1>4, <2>1, ElementOfSeq
  <2>3. v[i + 1] = Keep(v[i], title[i + 1])
    BY <1>1, <2>1
  <2> QED BY <2>2, <2>3, AppendProperties DEF Keep
<1>5. Len(title) \in N
  <2> HIDE DEF N
  <2> QED BY <1>2, <1>3, <1>4, Induction
<1>6. words \in Seq(Word)
  BY <1>1, <1>2, <1>5
<1>7. slug(title) = IF words = <<>> THEN << "work" >> ELSE words
  BY DEF slug, words
<1>8. << "work" >> \in Seq(Word)
  BY DEF Word
<1> QED BY <1>6, <1>7, <1>8

\* The rules give each phase a place of its own.
LEMMA RuleProposals ==
  ASSUME NEW title \in Seq(Word), NEW max \in Nat \ {0}
  PROVE  LET proposals == RuleSplit(title, max)
         IN  /\ proposals \in Seq(Proposal) /\ Len(proposals) <= max
             /\ Exclusive(proposals) /\ proposals # <<>>
<1> DEFINE s == slug(title)
           phase(verb, says, place) ==
             [title |-> << verb >> \o title, description |-> << says >> \o title, paths |-> {place \o s}]
           one   == phase("implement", "write", << "src" >>)
           two   == phase("configure", "add", << "src", "config" >>)
           three == phase("test", "cover", << "tests" >>)
           four  == phase("document", "readme", << "docs" >>)
           phases == << one, two, three, four >>
           k == Min({max, 4})
<1>1. s \in Seq(Word) /\ Len(s) \in Nat
  BY SlugIs, LenProperties
<1>2. /\ << "src" >> \in Seq(Word) /\ << "src", "config" >> \in Seq(Word)
      /\ << "tests" >> \in Seq(Word) /\ << "docs" >> \in Seq(Word)
      /\ << "implement" >> \in Seq(Word) /\ << "configure" >> \in Seq(Word)
      /\ << "test" >> \in Seq(Word) /\ << "document" >> \in Seq(Word)
  BY DEF Word
<1>10. /\ << "write" >> \in Seq(Word) /\ << "add" >> \in Seq(Word)
      /\ << "cover" >> \in Seq(Word) /\ << "readme" >> \in Seq(Word)
  <2>1. "write" \in Word /\ "add" \in Word /\ "cover" \in Word /\ "readme" \in Word
    BY DEF Word
  <2>2. \A w \in Word : << w >> \in Seq(Word)
    OBVIOUS
  <2> QED BY <2>1, <2>2
<1>3. ASSUME NEW verb, NEW says, NEW place,
             << verb >> \in Seq(Word), << says >> \in Seq(Word), place \in Seq(Word)
      PROVE  phase(verb, says, place) \in Proposal
  <2>1. << verb >> \o title \in Seq(Word) /\ << says >> \o title \in Seq(Word) /\ place \o s \in Seq(Word)
    <3> HIDE DEF s
    <3> QED BY <1>1, <1>3, ConcatProperties
  <2> HIDE DEF s
  <2> QED BY <2>1 DEF Proposal, Paths
<1>4. phases \in Seq(Proposal) /\ Len(phases) = 4
  <2>1. one \in Proposal /\ two \in Proposal /\ three \in Proposal /\ four \in Proposal
    <3> HIDE DEF phase
    <3> QED BY <1>2, <1>10, <1>3
  <2> HIDE DEF one, two, three, four
  <2> QED BY <2>1
<1>5. k \in 1 .. 4 /\ k <= max
  <2>1. {max, 4} \subseteq Nat
    OBVIOUS
  <2>2. k \in {max, 4} /\ \A y \in {max, 4} : k <= y
    BY <2>1, SmallestIs
  <2> HIDE DEF k
  <2> QED BY <2>2
<1>6. RuleSplit(title, max) = SubSeq(phases, 1, k)
  BY <1>4 DEF RuleSplit
<1>7. /\ SubSeq(phases, 1, k) \in Seq(Proposal) /\ Len(SubSeq(phases, 1, k)) = k
      /\ \A i \in 1 .. k : SubSeq(phases, 1, k)[i] = phases[i]
  <2> HIDE DEF phases, k
  <2>1. 1 \in Int /\ k \in Int /\ \A i \in 1 .. k : phases[i] \in Proposal
    <3>1. \A i \in 1 .. k : i \in 1 .. Len(phases)
      BY <1>4, <1>5
    <3>2. \A i \in 1 .. Len(phases) : phases[i] \in Proposal
      BY <1>4, ElementOfSeq
    <3> QED BY <1>5, <3>1, <3>2
  <2> DEFINE t == SubSeq(phases, 1, k)
  <2>2. /\ t \in Seq(Proposal) /\ Len(t) = IF 1 <= k THEN k - 1 + 1 ELSE 0
        /\ \A i \in 1 .. k - 1 + 1 : t[i] = phases[1 + i - 1]
    BY <2>1, SubSeqProperties
  <2>3. k - 1 + 1 = k /\ 1 <= k /\ \A i \in 1 .. k : 1 + i - 1 = i
    BY <1>5
  <2> HIDE DEF t
  <2>4. t \in Seq(Proposal) /\ Len(t) = k /\ \A i \in 1 .. k : t[i] = phases[i]
    BY <2>2, <2>3
  <2> QED BY <2>4 DEF t
<1>8. \A i, j \in 1 .. 4 : phases[i].paths # {} /\ (i # j => phases[i].paths \cap phases[j].paths = {})
  <2> DEFINE a == << "src" >> \o s
             b == << "src", "config" >> \o s
             c == << "tests" >> \o s
             d == << "docs" >> \o s
  <2>1. /\ Len(a) = 1 + Len(s) /\ Len(b) = 2 + Len(s)
        /\ a[1] = "src" /\ b[1] = "src" /\ c[1] = "tests" /\ d[1] = "docs"
    <3> HIDE DEF s
    <3> QED BY <1>1, <1>2, ConcatProperties
  <2>2. a # b /\ a # c /\ a # d /\ b # c /\ b # d /\ c # d
    <3> HIDE DEF a, b, c, d, s
    <3>1. Len(a) # Len(b)
      BY <1>1, <2>1
    <3>2. a # b
      BY <3>1
    <3> QED BY <2>1, <3>2
  <2>3. /\ phases[1].paths = {a} /\ phases[2].paths = {b}
        /\ phases[3].paths = {c} /\ phases[4].paths = {d}
    OBVIOUS
  <2>4. \A i \in 1 .. 4 : i = 1 \/ i = 2 \/ i = 3 \/ i = 4
    OBVIOUS
  <2> HIDE DEF phases, a, b, c, d
  <2>5. \A i \in 1 .. 4 : phases[i].paths # {}
    BY <2>3, <2>4
  <2>6. \A i, j \in 1 .. 4 : i # j => phases[i].paths \cap phases[j].paths = {}
    <3> SUFFICES ASSUME NEW i \in 1 .. 4, NEW j \in 1 .. 4, i # j
                 PROVE  phases[i].paths \cap phases[j].paths = {}
      OBVIOUS
    <3>1. CASE i = 1
      BY <2>2, <2>3, <2>4, <3>1
    <3>2. CASE i = 2
      BY <2>2, <2>3, <2>4, <3>2
    <3>3. CASE i = 3
      BY <2>2, <2>3, <2>4, <3>3
    <3>4. CASE i = 4
      BY <2>2, <2>3, <2>4, <3>4
    <3> QED BY <2>4, <3>1, <3>2, <3>3, <3>4
  <2> QED BY <2>5, <2>6
<1>9. Exclusive(SubSeq(phases, 1, k)) /\ SubSeq(phases, 1, k) # <<>>
  <2> DEFINE t == SubSeq(phases, 1, k)
  <2>1. DOMAIN t = 1 .. k /\ \A i \in 1 .. k : t[i] = phases[i] /\ i \in 1 .. 4
    <3> HIDE DEF phases, k
    <3> QED BY <1>5, <1>7, LenProperties
  <2>2. t # <<>>
    <3>1. Len(t) # 0
      <4> HIDE DEF phases, k
      <4> QED BY <1>5, <1>7
    <3> HIDE DEF t
    <3> QED BY <3>1
  <2> HIDE DEF phases, t, k
  <2> QED BY <1>8, <2>1, <2>2 DEF Exclusive, t
<1> HIDE DEF phases, k
<1> QED BY <1>5, <1>6, <1>7, <1>9


LEMMA NumberedIs ==
  ASSUME NEW title \in Seq(Word), NEW n
  PROVE  /\ HeadingLine(title) # Append(HeadingLine(title), ToString(n))
         /\ Numbered(title, n) # <<>> /\ Numbered(title, n)[1] = "##"
<1> DEFINE W == Word \cup {"##", ToString(n)}
           h == HeadingLine(title)
           a == Append(h, ToString(n))
<1>1. title \in Seq(W) /\ << "##" >> \in Seq(W) /\ ToString(n) \in W /\ Len(title) \in Nat
  BY LenProperties
<1>2. h \in Seq(W) /\ Len(h) = 1 + Len(title) /\ h[1] = "##"
  <2> HIDE DEF W
  <2> QED BY <1>1, ConcatProperties DEF HeadingLine
<1>3. a \in Seq(W) /\ Len(a) = Len(h) + 1 /\ \A i \in 1 .. Len(h) : a[i] = h[i]
  <2> HIDE DEF W, h
  <2> QED BY <1>1, <1>2, AppendProperties
<1>4. Len(h) \in Nat /\ 1 \in 1 .. Len(h) /\ Len(<<>>) = 0
  <2> HIDE DEF h
  <2> QED BY <1>1, <1>2
<1>5. a[1] = "##"
  <2> HIDE DEF W, h, a
  <2> QED BY <1>2, <1>3, <1>4
<1>6. h # <<>> /\ a # <<>> /\ h # a
  <2> HIDE DEF W, h, a
  <2>1. Len(h) # 0 /\ Len(a) # 0 /\ Len(h) # Len(a)
    BY <1>3, <1>4
  <2> QED BY <1>4, <2>1
<1>7. Numbered(title, n) = h \/ Numbered(title, n) = a
  BY DEF Numbered
<1> HIDE DEF h, a
<1> QED BY <1>2, <1>5, <1>6, <1>7 DEF h, a

LEMMA NumbersDiffer ==
  ASSUME NEW p \in Plans, NEW title \in Seq(Word),
         NEW m \in 1 .. Request[p].maxSubtasks, NEW n \in 1 .. Request[p].maxSubtasks, m # n
  PROVE  Numbered(title, m) # Numbered(title, n)
<1> DEFINE h == HeadingLine(title)
<1>1. ToString(m) # ToString(n)
  BY NumeralAssumption
<1>2. h # Append(h, ToString(m)) /\ h # Append(h, ToString(n))
  BY NumberedIs
<1>3. Append(h, ToString(m)) # Append(h, ToString(n))
  <2> DEFINE W == Word \cup {"##", ToString(m), ToString(n)}
             x == ToString(m)
             y == ToString(n)
  <2>1. h \in Seq(W) /\ x \in W /\ y \in W
    <3>1. title \in Seq(W) /\ << "##" >> \in Seq(W)
      OBVIOUS
    <3> HIDE DEF W
    <3> QED BY <3>1, ConcatProperties DEF HeadingLine, W
  <2> HIDE DEF h, W, x, y
  <2>2. Append(h, x)[Len(h) + 1] = x /\ Append(h, y)[Len(h) + 1] = y
    BY <2>1, AppendProperties
  <2>3. x # y
    BY <1>1 DEF x, y
  <2>4. Append(h, x) # Append(h, y)
    BY <2>2, <2>3
  <2> QED BY <2>4 DEF x, y
<1>4. /\ Numbered(title, m) = IF m = 1 THEN h ELSE Append(h, ToString(m))
      /\ Numbered(title, n) = IF n = 1 THEN h ELSE Append(h, ToString(n))
  BY DEF Numbered
<1> HIDE DEF h
<1> QED BY <1>2, <1>3, <1>4

\* A heading is none of those taken: there are more numbers than those.
LEMMA HeadingIsNew ==
  ASSUME NEW p \in Plans, NEW title \in Seq(Word), NEW taken, IsFiniteSet(taken),
         Request[p].maxSubtasks \in Nat, Cardinality(taken) < Request[p].maxSubtasks
  PROVE  Heading(title, taken) \in HeadingsOf /\ Heading(title, taken) \notin taken
<1> DEFINE c == Cardinality(taken) + 1
           free == {n \in 1 .. c : Numbered(title, n) \notin taken}
           f == [n \in 1 .. c |-> Numbered(title, n)]
<1>1. Cardinality(taken) \in Nat /\ c \in Nat /\ c <= Request[p].maxSubtasks
  BY FS_CardinalityType
<1>2. free # {}
  <2> SUFFICES ASSUME free = {} PROVE FALSE
    OBVIOUS
  <2>1. f \in [1 .. c -> taken]
    <3>1. \A n \in 1 .. c : Numbered(title, n) \in taken
      OBVIOUS
    <3> HIDE DEF c
    <3> QED BY <3>1
  <2>2. IsFiniteSet(1 .. c) /\ Cardinality(1 .. c) = c
    <3> HIDE DEF c
    <3>1. 1 \in Int /\ c \in Int
      BY <1>1
    <3>2. IsFiniteSet(1 .. c) /\ Cardinality(1 .. c) = IF 1 > c THEN 0 ELSE c - 1 + 1
      BY <3>1, FS_Interval
    <3> QED BY <1>1, <3>2
  <2>3. Cardinality(taken) < Cardinality(1 .. c)
    BY <1>1, <2>2
  <2>4. PICK x \in 1 .. c, y \in 1 .. c : x # y /\ f[x] = f[y]
    <3> DEFINE places == 1 .. c
    <3>1. f \in [places -> taken] /\ IsFiniteSet(places) /\ Cardinality(taken) < Cardinality(places)
      BY <2>1, <2>2, <2>3
    <3> HIDE DEF f, places
    <3>2. \E x, y \in places : x # y /\ f[x] = f[y]
      BY <3>1, FS_PigeonHole
    <3> QED BY <3>2 DEF places
  <2>5. x \in 1 .. Request[p].maxSubtasks /\ y \in 1 .. Request[p].maxSubtasks
    <3> HIDE DEF c, f
    <3> QED BY <1>1
  <2>6. Numbered(title, x) = Numbered(title, y)
    <3>1. f[x] = Numbered(title, x) /\ f[y] = Numbered(title, y)
      OBVIOUS
    <3> HIDE DEF f
    <3> QED BY <2>4, <3>1
  <2> QED BY <2>4, <2>5, <2>6, NumbersDiffer
<1>3. Min(free) \in free
  <2>1. free \subseteq Nat
    OBVIOUS
  <2> HIDE DEF free
  <2> QED BY <1>2, <2>1, SmallestIs
<1> DEFINE n == Min(free)
<1>4. n \in Nat /\ Numbered(title, n) \notin taken
  <2> HIDE DEF n
  <2>1. n \in free
    BY <1>3 DEF n
  <2> QED BY <2>1
<1>5. Heading(title, taken) = Numbered(title, n)
  BY DEF Heading
<1>6. << title, n >> \in Seq(Word) \X Nat
  <2> HIDE DEF n
  <2> QED BY <1>4
<1> HIDE DEF n
<1> QED BY <1>4, <1>5, <1>6 DEF HeadingsOf

Distinct(names) == \A i, k \in DOMAIN names : i # k => names[i] # names[k]

LEMMA NameKeeps ==
  ASSUME NEW p \in Plans, Request[p].maxSubtasks \in Nat, NEW names \in Seq(HeadingsOf),
         Distinct(names), Len(names) < Request[p].maxSubtasks, NEW proposal \in Proposal
  PROVE  LET more == Name(names, proposal)
         IN  more \in Seq(HeadingsOf) /\ Len(more) = Len(names) + 1 /\ Distinct(more)
<1> DEFINE taken == ToSet(names)
           n == Len(names)
           h == Heading(proposal.title, taken)
           more == Append(names, h)
<1>1. n \in Nat /\ DOMAIN names = 1 .. n
  BY LenProperties
<1>2. IsFiniteSet(taken) /\ Cardinality(taken) <= n
  <2>1. IsFiniteSet(1 .. n) /\ Cardinality(1 .. n) = n
    <3> HIDE DEF n
    <3>1. 1 \in Int /\ n \in Int
      BY <1>1
    <3>2. IsFiniteSet(1 .. n) /\ Cardinality(1 .. n) = IF 1 > n THEN 0 ELSE n - 1 + 1
      BY <3>1, FS_Interval
    <3> QED BY <1>1, <3>2
  <2>2. names \in Surjection(1 .. n, taken)
    BY <1>1 DEF Surjection, ToSet
  <2> HIDE DEF n, taken
  <2> QED BY <2>1, <2>2, FS_Surjection
<1>3. proposal.title \in Seq(Word)
  BY DEF Proposal
<1>4. h \in HeadingsOf /\ h \notin taken
  <2>1. Cardinality(taken) < Request[p].maxSubtasks
    <3>1. Cardinality(taken) \in Nat
      BY <1>2, FS_CardinalityType
    <3> HIDE DEF taken
    <3> QED BY <1>1, <1>2, <3>1
  <2> HIDE DEF taken
  <2> QED BY <1>2, <1>3, <2>1, HeadingIsNew
<1> HIDE DEF h
<1>5. /\ more \in Seq(HeadingsOf) /\ Len(more) = n + 1 /\ more[n + 1] = h
      /\ \A i \in 1 .. n : more[i] = names[i]
  BY <1>4, AppendProperties
<1>6. \A i \in 1 .. n : names[i] # h
  BY <1>1, <1>4 DEF ToSet
<1>7. DOMAIN more = 1 .. n + 1
  BY <1>5, LenProperties
<1>8. Distinct(more)
  <2> HIDE DEF more, n
  <2> SUFFICES ASSUME NEW i \in 1 .. n + 1, NEW k \in 1 .. n + 1, i # k
               PROVE  more[i] # more[k]
    BY <1>7 DEF Distinct
  <2>1. CASE i \in 1 .. n /\ k \in 1 .. n
    BY <1>1, <1>5, <2>1 DEF Distinct
  <2>2. CASE i = n + 1 \/ k = n + 1
    BY <1>1, <1>5, <1>6, <2>2
  <2> QED BY <1>1, <2>1, <2>2
<1>9. Name(names, proposal) = more
  BY DEF Name, h
<1> HIDE DEF more
<1> QED BY <1>5, <1>8, <1>9

LEMMA HeadingsDiffer ==
  ASSUME NEW p \in Plans, Request[p].maxSubtasks \in Nat, NEW proposals \in Seq(Proposal),
         Len(proposals) <= Request[p].maxSubtasks
  PROVE  LET names == Headings(proposals)
         IN  names \in Seq(HeadingsOf) /\ Len(names) = Len(proposals) /\ Distinct(names)
<1>1. PICK v : /\ v[0] = <<>>
               /\ \A i \in 1 .. Len(proposals) : v[i] = Name(v[i - 1], proposals[i])
               /\ Headings(proposals) = v[Len(proposals)]
  BY HeadingsLoop
<1> DEFINE OK(x, i) == x \in Seq(HeadingsOf) /\ Len(x) = i /\ Distinct(x)
           N == {i \in Nat : i <= Len(proposals) => OK(v[i], i)}
<1>2. Len(proposals) \in Nat
  BY LenProperties
<1>3. 0 \in N
  <2>1. OK(<<>>, 0)
    BY DEF Distinct
  <2> HIDE DEF OK
  <2>2. v[0] = <<>>
    BY <1>1
  <2> QED BY <2>1, <2>2
<1>4. ASSUME NEW i \in Nat, i \in N PROVE i + 1 \in N
  <2> SUFFICES ASSUME i + 1 <= Len(proposals) PROVE OK(v[i + 1], i + 1)
    <3> HIDE DEF OK
    <3> QED BY DEF N
  <2>1. /\ i + 1 \in 1 .. Len(proposals) /\ (i + 1) - 1 = i /\ i <= Len(proposals)
        /\ i < Request[p].maxSubtasks
    BY <1>2
  <2>2. OK(v[i], i)
    <3> HIDE DEF OK
    <3> QED BY <1>4, <2>1
  <2>3. proposals[i + 1] \in Proposal
    BY <2>1, ElementOfSeq
  <2>4. v[i + 1] = Name(v[i], proposals[i + 1])
    BY <1>1, <2>1
  <2> QED BY <2>1, <2>2, <2>3, <2>4, NameKeeps
<1>5. Len(proposals) \in N
  <2> HIDE DEF N
  <2> QED BY <1>2, <1>3, <1>4, Induction
<1>6. OK(v[Len(proposals)], Len(proposals))
  <2> HIDE DEF OK
  <2> QED BY <1>5
<1> QED BY <1>1, <1>6


-----------------------------------------------------------------------------
(* What a split is, and what planning adds to a document. *)

Partition(p, subtasks) ==
  /\ Len(subtasks) <= Request[p].maxSubtasks
  /\ \A i, k \in DOMAIN subtasks :
       /\ subtasks[i].paths # {}
       /\ i # k => /\ subtasks[i].paths \cap subtasks[k].paths = {}
                   /\ subtasks[i].section # subtasks[k].section

Split(p, subtasks) ==
  /\ \E X : subtasks \in Seq(X)
  /\ \A i \in DOMAIN subtasks : subtasks[i].section \in HeadingsOf
  /\ Partition(p, subtasks)

LEMMA SubtasksSplit ==
  ASSUME NEW p \in Plans, Request[p].maxSubtasks \in Nat, NEW proposals \in Seq(Proposal),
         Len(proposals) <= Request[p].maxSubtasks, Exclusive(proposals)
  PROVE  /\ Split(p, Subtasks(p, proposals))
         /\ proposals # <<>> => Subtasks(p, proposals) # <<>>
<1> DEFINE n == Len(proposals)
           names == Headings(proposals)
           st == Subtasks(p, proposals)
           X == {st[i] : i \in 1 .. n}
<1>1. n \in Nat /\ DOMAIN proposals = 1 .. n
  BY LenProperties
<1>2. names \in Seq(HeadingsOf) /\ Len(names) = n /\ Distinct(names)
  BY HeadingsDiffer
<1>3. /\ DOMAIN st = 1 .. n
      /\ \A i \in 1 .. n : st[i].paths = proposals[i].paths /\ st[i].section = names[i]
      /\ st = [i \in 1 .. n |-> st[i]]
  <2>1. DOMAIN proposals = 1 .. n
    BY <1>1
  <2> HIDE DEF names, n
  <2> QED BY <2>1 DEF Subtasks, names
<1> HIDE DEF st, names
<1>4. st \in Seq(X) /\ Len(st) = n
  <2>1. st \in [1 .. n -> X]
    BY <1>3
  <2> HIDE DEF X, n
  <2>2. st \in Seq(X)
    BY <1>1, <2>1
  <2> QED BY <1>1, <1>3, <2>2, LenProperties
<1>5. \A i \in 1 .. n : names[i] \in HeadingsOf
  BY <1>2, ElementOfSeq
<1>6. DOMAIN names = 1 .. n
  BY <1>2, LenProperties
<1>7. Partition(p, st)
  <2>1. \A i, k \in 1 .. n :
          /\ proposals[i].paths # {}
          /\ i # k => /\ proposals[i].paths \cap proposals[k].paths = {}
                      /\ names[i] # names[k]
    BY <1>1, <1>2, <1>6 DEF Exclusive, Distinct
  <2>2. n <= Request[p].maxSubtasks
    OBVIOUS
  <2>3. Len(st) = n
    BY <1>4
  <2> HIDE DEF n, X
  <2> SUFFICES ASSUME NEW i \in 1 .. n, NEW k \in 1 .. n
               PROVE  /\ st[i].paths # {}
                      /\ i # k => /\ st[i].paths \cap st[k].paths = {}
                                  /\ st[i].section # st[k].section
    BY <1>3, <2>2, <2>3 DEF Partition
  <2>4. /\ st[i].paths = proposals[i].paths /\ st[i].section = names[i]
        /\ st[k].paths = proposals[k].paths /\ st[k].section = names[k]
    BY <1>3
  <2> QED BY <2>1, <2>4
<1>8. proposals # <<>> => st # <<>>
  <2> HIDE DEF X
  <2>1. proposals # <<>> => n # 0
    OBVIOUS
  <2>2. st = <<>> => Len(st) = 0
    OBVIOUS
  <2> QED BY <1>4, <2>1, <2>2
<1> HIDE DEF X, n
<1> QED BY <1>3, <1>4, <1>5, <1>7, <1>8 DEF Split, st, n

\* What may come of a request: what the model may make of it, or the rules.
Splits(p) == ArkSplits[p] \cup {RuleSplits[p]}

LEMMA EverySplit ==
  ASSUME PlanningAssumption, NEW p \in Plans
  PROVE  /\ \A subtasks \in Splits(p) : Split(p, subtasks)
         /\ RuleSplits[p] # <<>>
<1> DEFINE max == Request[p].maxSubtasks
<1>1. /\ max \in Nat \ {0} /\ Request[p].title \in Seq(Word)
      /\ \A items \in Replies[p] : items \in Seq(Item)
  <2>1. max \in Nat \ {0} /\ Request[p].title \in Seq(STRING)
    BY DEF PlanningAssumption
  <2>2. \A items \in Replies[p] : items \in Seq([title : Seq(STRING), description : Seq(STRING), paths : SUBSET Seq(STRING)])
    BY DEF PlanningAssumption
  <2> QED BY <2>1, <2>2 DEF Word, Item
<1>2. ASSUME NEW items \in Replies[p] PROVE Split(p, Subtasks(p, parseArkProposals(items, max)))
  <2> DEFINE proposals == parseArkProposals(items, max)
  <2>1. proposals \in Seq(Proposal) /\ Len(proposals) <= max /\ Exclusive(proposals)
    BY <1>1, ArkProposals
  <2> HIDE DEF proposals
  <2> QED BY <1>1, <2>1, SubtasksSplit DEF proposals
<1>3. LET st == Subtasks(p, RuleSplit(Request[p].title, max)) IN Split(p, st) /\ st # <<>>
  <2> DEFINE proposals == RuleSplit(Request[p].title, max)
  <2>1. /\ proposals \in Seq(Proposal) /\ Len(proposals) <= max /\ Exclusive(proposals)
        /\ proposals # <<>>
    BY <1>1, RuleProposals
  <2> HIDE DEF proposals
  <2>2. Split(p, Subtasks(p, proposals)) /\ Subtasks(p, proposals) # <<>>
    BY <1>1, <2>1, SubtasksSplit
  <2> QED BY <2>2 DEF proposals
<1>4. /\ ArkSplits[p] = {Subtasks(p, parseArkProposals(items, max)) : items \in Replies[p]}
      /\ RuleSplits[p] = Subtasks(p, RuleSplit(Request[p].title, max))
  BY DEF ArkSplits, RuleSplits
<1> HIDE DEF max
<1> QED BY <1>2, <1>3, <1>4 DEF Splits

LEMMA OtherLines ==
  ASSUME PlanningAssumption, NEW p \in Plans
  PROVE  /\ TitleLine(p) \notin HeadingsOf /\ Placeholder \notin HeadingsOf
         /\ Empty \notin HeadingsOf
<1>1. \A h \in HeadingsOf : h # <<>> /\ h[1] = "##"
  <2> SUFFICES ASSUME NEW title \in Seq(Word), NEW n \in Nat
               PROVE  Numbered(title, n) # <<>> /\ Numbered(title, n)[1] = "##"
    BY DEF HeadingsOf
  <2> QED BY NumberedIs
<1>2. TitleLine(p)[1] = "#"
  <2> DEFINE W == STRING \cup {"#"}
             title == Request[p].title
  <2>1. title \in Seq(STRING)
    BY DEF PlanningAssumption
  <2>2. title \in Seq(W) /\ << "#" >> \in Seq(W)
    BY <2>1
  <2> HIDE DEF W, title
  <2>3. (<< "#" >> \o title)[1] = "#"
    BY <2>2, ConcatProperties
  <2> QED BY <2>3 DEF TitleLine, title
<1>3. Placeholder[1] = "- (not started)" /\ Empty = <<>>
  BY DEF Placeholder, Empty
<1> QED BY <1>1, <1>2, <1>3

\* The lines of x that are headings: of the first m subtasks, not yet in the
\* document, and each once.
Added(x, lines, subtasks, m) ==
  /\ x \in Seq(DocLine)
  /\ \A j \in DOMAIN x : x[j] \in HeadingsOf =>
       /\ x[j] \notin ToSet(lines)
       /\ \E q \in 1 .. m : x[j] = subtasks[q].section
       /\ \A k \in DOMAIN x : x[k] = x[j] => k = j

LEMMA AddKeeps ==
  ASSUME PlanningAssumption, NEW p \in Plans, NEW lines, NEW subtasks, NEW m \in Nat,
         Split(p, subtasks), m + 1 \in DOMAIN subtasks, DOMAIN subtasks \subseteq Nat,
         \A q \in 1 .. m : q \in DOMAIN subtasks,
         NEW x, Added(x, lines, subtasks, m)
  PROVE  Added(Add(x, subtasks[m + 1], lines), lines, subtasks, m + 1)
<1> DEFINE sec == subtasks[m + 1].section
           t == << sec, Placeholder, Empty >>
           y == x \o t
           n == Len(x)
<1>1. x \in Seq(DocLine) /\ n \in Nat /\ DOMAIN x = 1 .. n
  BY LenProperties DEF Added
<1>2. CASE sec \in ToSet(lines)
  <2>1. Add(x, subtasks[m + 1], lines) = x
    BY <1>2 DEF Add
  <2>2. \A q \in 1 .. m : q \in 1 .. m + 1
    OBVIOUS
  <2> QED BY <2>1, <2>2 DEF Added
<1>3. CASE sec \notin ToSet(lines)
  <2>1. Add(x, subtasks[m + 1], lines) = y
    BY <1>3 DEF Add
  <2>2. /\ sec \in HeadingsOf /\ Placeholder \notin HeadingsOf /\ Empty \notin HeadingsOf
        /\ \A q \in 1 .. m : sec # subtasks[q].section
    <3>1. \A q \in 1 .. m : q # m + 1
      OBVIOUS
    <3> QED BY <3>1, OtherLines DEF Split, Partition
  <2>3. t \in Seq(DocLine) /\ Len(t) = 3
    BY <2>2 DEF DocLine
  <2>4. /\ y \in Seq(DocLine) /\ Len(y) = n + 3
        /\ \A j \in 1 .. n : y[j] = x[j]
        /\ y[n + 1] = sec /\ y[n + 2] = Placeholder /\ y[n + 3] = Empty
    <3>1. t[1] = sec /\ t[2] = Placeholder /\ t[3] = Empty
      OBVIOUS
    <3> HIDE DEF t, sec
    <3>2. /\ y \in Seq(DocLine) /\ Len(y) = Len(x) + Len(t)
          /\ \A j \in 1 .. Len(x) + Len(t) : y[j] = IF j <= Len(x) THEN x[j] ELSE t[j - Len(x)]
      BY <1>1, <2>3, ConcatProperties
    <3>3. /\ Len(y) = n + 3
          /\ \A j \in 1 .. n + 3 : y[j] = IF j <= n THEN x[j] ELSE t[j - n]
      BY <2>3, <3>2
    <3> HIDE DEF y, n
    <3>4. \A j \in 1 .. n : j \in 1 .. n + 3 /\ j <= n
      BY <1>1
    <3>5. /\ (n + 1) - n = 1 /\ (n + 2) - n = 2 /\ (n + 3) - n = 3
          /\ ~(n + 1 <= n) /\ ~(n + 2 <= n) /\ ~(n + 3 <= n)
          /\ n + 1 \in 1 .. n + 3 /\ n + 2 \in 1 .. n + 3 /\ n + 3 \in 1 .. n + 3
      BY <1>1
    <3>6. \A j \in 1 .. n : y[j] = x[j]
      BY <3>3, <3>4
    <3>7. y[n + 1] = t[1] /\ y[n + 2] = t[2] /\ y[n + 3] = t[3]
      BY <3>3, <3>5
    <3> QED BY <3>1, <3>2, <3>3, <3>6, <3>7
  <2>5. DOMAIN y = 1 .. n + 3
    BY <2>4, LenProperties
  <2> HIDE DEF y, sec, n
  <2>6. \A j \in 1 .. n + 3 : j \in 1 .. n \/ j = n + 1 \/ j = n + 2 \/ j = n + 3
    BY <1>1
  <2> SUFFICES ASSUME NEW j \in DOMAIN y, y[j] \in HeadingsOf
               PROVE  /\ y[j] \notin ToSet(lines)
                      /\ \E q \in 1 .. m + 1 : y[j] = subtasks[q].section
                      /\ \A k \in DOMAIN y : y[k] = y[j] => k = j
    BY <2>1, <2>4 DEF Added
  <2>7. CASE j \in 1 .. n
    <3>1. /\ y[j] = x[j] /\ x[j] \notin ToSet(lines)
          /\ \A k \in 1 .. n : x[k] = x[j] => k = j
      BY <1>1, <2>4, <2>7 DEF Added
    <3>2. PICK q \in 1 .. m : x[j] = subtasks[q].section
      BY <1>1, <2>4, <2>7 DEF Added
    <3>3. q \in 1 .. m + 1 /\ x[j] # sec
      BY <2>2, <3>2
    <3> QED BY <2>2, <2>4, <2>5, <2>6, <3>1, <3>2, <3>3
  <2>8. CASE j = n + 1
    <3>1. \A k \in 1 .. n : x[k] # sec
      BY <1>1, <2>2 DEF Added
    <3>2. m + 1 \in 1 .. m + 1 /\ sec = subtasks[m + 1].section
      BY DEF sec
    <3> QED BY <1>3, <2>2, <2>4, <2>5, <2>6, <2>8, <3>1, <3>2
  <2>9. j # n + 2 /\ j # n + 3
    BY <2>2, <2>4
  <2> QED BY <2>5, <2>6, <2>7, <2>8, <2>9
<1> QED BY <1>2, <1>3

LEMMA AdditionsAre ==
  ASSUME PlanningAssumption, NEW p \in Plans, NEW lines, NEW subtasks, Split(p, subtasks)
  PROVE  LET x == Additions(p, lines, subtasks)
         IN  /\ x \in Seq(DocLine)
             /\ \A j \in DOMAIN x : x[j] \in HeadingsOf =>
                  x[j] \notin ToSet(lines) /\ \A k \in DOMAIN x : x[k] = x[j] => k = j
<1> DEFINE n == Len(subtasks)
<1>0. PICK X : subtasks \in Seq(X)
  BY DEF Split
<1>1. PICK v : /\ v[0] = Opening(p, lines)
               /\ \A i \in 1 .. n : v[i] = Add(v[i - 1], subtasks[i], lines)
               /\ Additions(p, lines, subtasks) = v[n]
  BY <1>0, AdditionsLoop DEF Split
<1>2. n \in Nat /\ DOMAIN subtasks = 1 .. n
  BY <1>0, LenProperties
<1> DEFINE N == {i \in Nat : i <= n => Added(v[i], lines, subtasks, i)}
<1>3. 0 \in N
  <2>1. TitleLine(p) \in DocLine /\ Empty \in DocLine
    BY DEF DocLine
  <2>2. Opening(p, lines) \in Seq(DocLine)
    BY <2>1 DEF Opening
  <2>3. \A j \in DOMAIN Opening(p, lines) : Opening(p, lines)[j] \in {TitleLine(p), Empty}
    BY DEF Opening
  <2>4. Added(Opening(p, lines), lines, subtasks, 0)
    BY <2>2, <2>3, OtherLines DEF Added
  <2> QED BY <1>1, <2>4
<1>4. ASSUME NEW i \in Nat, i \in N PROVE i + 1 \in N
  <2> SUFFICES ASSUME i + 1 <= n PROVE Added(v[i + 1], lines, subtasks, i + 1)
    OBVIOUS
  <2> HIDE DEF n
  <2>1. /\ i + 1 \in 1 .. n /\ (i + 1) - 1 = i /\ i <= n
        /\ \A q \in 1 .. i : q \in 1 .. n
    BY <1>2
  <2>2. Added(v[i], lines, subtasks, i)
    BY <1>4, <2>1
  <2>3. v[i + 1] = Add(v[i], subtasks[i + 1], lines)
    BY <1>1, <2>1
  <2>4. DOMAIN subtasks \subseteq Nat /\ i + 1 \in DOMAIN subtasks
        /\ \A q \in 1 .. i : q \in DOMAIN subtasks
    BY <1>2, <2>1
  <2> QED BY <2>2, <2>3, <2>4, AddKeeps
<1>5. n \in N
  <2> HIDE DEF N
  <2> QED BY <1>2, <1>3, <1>4, Induction
<1>6. Added(v[n], lines, subtasks, n)
  <2> HIDE DEF n
  <2> QED BY <1>2, <1>5
<1> QED BY <1>1, <1>6 DEF Added


-----------------------------------------------------------------------------
(* The invariant of planning. *)

Document == [lines : Seq(DocLine), version : Nat]

PlanRow(p) ==
  [stage : {"new", "splitting", "workspaces", "seeding", "saving", "done", "failed"},
   subtasks : {<<>>} \cup Splits(p), made : Nat, read : Document,
   from : {"none", "ark", "rule"}, splitter : {"none", "ark", "rule"}]

\* A request beyond its split has one of those that may come of it; what it
\* read, if nobody has committed since, is what is there.
Row(p, r, d) ==
  /\ r \in PlanRow(p)
  /\ r.stage \notin {"new", "splitting"} => r.subtasks \in Splits(p) \ {<<>>}
  /\ r.stage = "seeding" => /\ r.read.version <= d.version
                            /\ r.read.version = d.version => r.read = d

PlanInv ==
  /\ plan = [p \in Plans |-> plan[p]]
  /\ \A p \in Plans : Row(p, plan[p], doc)
  /\ doc \in Document
  /\ lastSource \in {"ark", "rule"}

\* What SeedLosesNothing says of a step.
AddsOnly ==
  /\ IsPrefix(doc.lines, doc'.lines)
  /\ \A i, k \in DOMAIN doc'.lines :
       /\ doc'.lines[i] \in {a.heading : a \in UNION {Allocations(p) : p \in Plans}}
       /\ i > Len(doc.lines) /\ doc'.lines[k] = doc'.lines[i]
       => k = i

LEMMA SamePrefix ==
  ASSUME NEW X, NEW s \in Seq(X), NEW t \in Seq(X)
  PROVE  IsPrefix(s, s \o t)
<1>1. /\ s \o t \in Seq(X) /\ Len(s \o t) = Len(s) + Len(t)
      /\ \A i \in 1 .. Len(s) : (s \o t)[i] = s[i]
  BY ConcatProperties
<1>2. Len(s) \in Nat /\ Len(t) \in Nat
  BY LenProperties
<1> DEFINE u == s \o t
           n == Len(s)
           a == SubSeq(s, 1, n)
           b == SubSeq(u, 1, n)
<1>3. u \in Seq(X) /\ n <= Len(u) /\ n \in Nat /\ \A i \in 1 .. n : u[i] = s[i]
  BY <1>1, <1>2
<1>4. a = [i \in 1 .. n |-> s[i]] /\ b = [i \in 1 .. n |-> u[i]]
  <2> HIDE DEF u
  <2> QED BY <1>3 DEF SubSeq
<1>5. a = b
  <2> HIDE DEF u, a, b
  <2> QED BY <1>3, <1>4
<1> QED BY <1>3, <1>5 DEF IsPrefix

LEMMA SameAdds ==
  ASSUME PlanInv, doc' = doc
  PROVE  AddsOnly
<1>1. doc.lines \in Seq(DocLine)
  BY DEF PlanInv, Document
<1>2. doc.lines \o <<>> = doc.lines
  BY <1>1, ConcatEmptySeq
<1>3. <<>> \in Seq(DocLine)
  OBVIOUS
<1>4. IsPrefix(doc.lines, doc.lines)
  BY <1>1, <1>2, <1>3, SamePrefix
<1>5. \A i \in DOMAIN doc.lines : ~(i > Len(doc.lines))
  BY <1>1, LenProperties
<1> QED BY <1>4, <1>5 DEF AddsOnly

LEMMA SplitHere ==
  ASSUME PlanningAssumption, NEW p \in Plans, NEW subtasks \in {<<>>} \cup Splits(p)
  PROVE  \A s \in ToSet(subtasks) : s.section \in HeadingsOf
<1>1. CASE subtasks = <<>>
  BY <1>1 DEF ToSet
<1>2. CASE subtasks \in Splits(p)
  BY <1>2, EverySplit DEF ToSet, Split
<1> QED BY <1>1, <1>2

LEMMA AllocationsAre ==
  ASSUME PlanningAssumption, PlanInv
  PROVE  {a.heading : a \in UNION {Allocations(p) : p \in Plans}} \subseteq HeadingsOf
<1> SUFFICES ASSUME NEW p \in Plans, NEW a \in Allocations(p) PROVE a.heading \in HeadingsOf
  OBVIOUS
<1>1. PICK s \in ToSet(plan[p].subtasks) : a = [agentId |-> s.agentId, heading |-> s.section]
  BY DEF Allocations
<1>2. plan[p].subtasks \in {<<>>} \cup Splits(p)
  BY DEF PlanInv, Row, PlanRow
<1> QED BY <1>1, <1>2, SplitHere

\* A step of one request that leaves the document alone.
LEMMA RowStep ==
  ASSUME PlanInv, NEW p \in Plans, NEW r, Row(p, r, doc),
         plan' = [plan EXCEPT ![p] = r], doc' = doc, lastSource' \in {"ark", "rule"}
  PROVE  PlanInv' /\ AddsOnly
<1>1. PlanInv'
  BY DEF PlanInv
<1> QED BY <1>1, SameAdds

LEMMA AskKeeps ==
  ASSUME PlanInv, NEW p \in Plans, Ask(p) \/ MakeWorkspace(p) \/ WorkspaceFails(p)
                                   \/ Saved(p) \/ SaveFails(p)
  PROVE  PlanInv' /\ AddsOnly
<1>0. Row(p, plan[p], doc) /\ lastSource \in {"ark", "rule"}
  BY DEF PlanInv
<1>1. CASE Ask(p)
  <2> DEFINE r == [plan[p] EXCEPT !.stage = "splitting"]
  <2>1. Row(p, r, doc)
    BY <1>0 DEF Row, PlanRow
  <2>2. plan' = [plan EXCEPT ![p] = r] /\ doc' = doc /\ lastSource' \in {"ark", "rule"}
    BY <1>1 DEF Ask
  <2> QED BY <2>1, <2>2, RowStep
<1>2. CASE MakeWorkspace(p)
  <2> DEFINE r == [plan[p] EXCEPT !.made = @ + 1]
  <2>1. Row(p, r, doc)
    BY <1>0 DEF Row, PlanRow
  <2>2. plan' = [plan EXCEPT ![p] = r] /\ doc' = doc /\ lastSource' \in {"ark", "rule"}
    BY <1>0, <1>2 DEF MakeWorkspace
  <2> QED BY <2>1, <2>2, RowStep
<1>3. CASE WorkspaceFails(p) \/ SaveFails(p)
  <2> DEFINE r == [plan[p] EXCEPT !.stage = "failed"]
  <2>1. Row(p, r, doc)
    BY <1>0, <1>3 DEF Row, PlanRow, WorkspaceFails, SaveFails
  <2>2. plan' = [plan EXCEPT ![p] = r] /\ doc' = doc /\ lastSource' \in {"ark", "rule"}
    BY <1>0, <1>3 DEF WorkspaceFails, SaveFails
  <2> QED BY <2>1, <2>2, RowStep
<1>4. CASE Saved(p)
  <2> DEFINE r == [plan[p] EXCEPT !.stage = "done"]
  <2>1. Row(p, r, doc)
    BY <1>0, <1>4 DEF Row, PlanRow, Saved
  <2>2. plan' = [plan EXCEPT ![p] = r] /\ doc' = doc /\ lastSource' \in {"ark", "rule"}
    BY <1>0, <1>4 DEF Saved
  <2> QED BY <2>1, <2>2, RowStep
<1> QED BY <1>1, <1>2, <1>3, <1>4

LEMMA DivideKeeps ==
  ASSUME PlanningAssumption, PlanInv, NEW p \in Plans, Answered(p) \/ Fell(p)
  PROVE  PlanInv' /\ AddsOnly
<1>0. Row(p, plan[p], doc) /\ lastSource \in {"ark", "rule"}
  BY DEF PlanInv
<1>1. PICK subtasks \in Splits(p) \ {<<>>}, source \in {"ark", "rule"} :
        /\ Divide(p, subtasks, source)
        /\ doc' = doc /\ lastSource' \in {"ark", "rule"}
  <2>1. CASE Answered(p)
    BY <1>0, <2>1 DEF Answered, Splits
  <2>2. CASE Fell(p)
    <3>1. RuleSplits[p] \in Splits(p) \ {<<>>}
      BY EverySplit DEF Splits
    <3> QED BY <2>2, <3>1 DEF Fell
  <2> QED BY <2>1, <2>2
<1> DEFINE r == [plan[p] EXCEPT !.stage = "workspaces", !.from = source, !.subtasks = subtasks]
<1>2. Row(p, r, doc)
  BY <1>0 DEF Row, PlanRow
<1>3. plan' = [plan EXCEPT ![p] = r]
  BY <1>1 DEF Divide
<1> QED BY <1>1, <1>2, <1>3, RowStep

LEMMA ListKeeps ==
  ASSUME PlanInv, NEW p \in Plans, List(p)
  PROVE  PlanInv' /\ AddsOnly
<1>0. /\ Row(p, plan[p], doc) /\ doc \in Document /\ lastSource \in {"ark", "rule"}
      /\ plan[p].stage = "workspaces" /\ doc' = doc /\ lastSource' = lastSource
  BY DEF PlanInv, List
<1>1. PICK stage \in {"seeding", "done"} :
        plan' = [plan EXCEPT ![p].stage = stage, ![p].splitter = lastSource, ![p].read = doc]
  BY DEF List
<1> DEFINE r == [plan[p] EXCEPT !.stage = stage, !.splitter = lastSource, !.read = doc]
<1>2. /\ doc.version \in Nat /\ doc.version <= doc.version
      /\ stage \in {"new", "splitting", "workspaces", "seeding", "saving", "done", "failed"}
      /\ stage \notin {"new", "splitting"} /\ lastSource \in {"none", "ark", "rule"}
  BY <1>0 DEF Document
<1>3. Row(p, r, doc)
  BY <1>0, <1>2 DEF Row, PlanRow
<1>4. plan' = [plan EXCEPT ![p] = r]
  BY <1>1
<1> QED BY <1>0, <1>3, <1>4, RowStep

\* A document that somebody committed to is none that was read before.
LEMMA NewVersion ==
  ASSUME PlanInv, doc' \in Document, doc'.version = doc.version + 1
  PROVE  \A p \in Plans : Row(p, plan[p], doc')
<1> SUFFICES ASSUME NEW p \in Plans, plan[p].stage = "seeding"
             PROVE  plan[p].read.version <= doc'.version /\ plan[p].read.version # doc'.version
  BY DEF PlanInv, Row
<1>1. plan[p].read \in Document /\ plan[p].read.version <= doc.version
  BY DEF PlanInv, Row, PlanRow
<1>2. plan[p].read.version \in Nat /\ doc.version \in Nat
  BY <1>1 DEF PlanInv, Document
<1> QED BY <1>1, <1>2

LEMMA SeedKeeps ==
  ASSUME PlanningAssumption, PlanInv, NEW p \in Plans, Seed(p)
  PROVE  PlanInv' /\ AddsOnly
<1>0. /\ Row(p, plan[p], doc) /\ doc \in Document /\ lastSource \in {"ark", "rule"}
      /\ plan[p].stage = "seeding" /\ lastSource' = lastSource
  BY DEF PlanInv, Seed
<1>1. ASSUME NEW stage \in {"failed", "done"}, plan' = [plan EXCEPT ![p].stage = stage], doc' = doc
      PROVE  PlanInv' /\ AddsOnly
  <2> DEFINE r == [plan[p] EXCEPT !.stage = stage]
  <2>1. Row(p, r, doc)
    BY <1>0 DEF Row, PlanRow
  <2>2. plan' = [plan EXCEPT ![p] = r]
    BY <1>1
  <2> QED BY <1>0, <1>1, <2>1, <2>2, RowStep
<1>2. ASSUME plan[p].read.version = doc.version,
             doc' = [lines   |-> plan[p].read.lines
                                   \o Additions(p, plan[p].read.lines, plan[p].subtasks),
                     version |-> doc.version + 1],
             plan' = [plan EXCEPT ![p].stage = "saving"]
      PROVE  PlanInv' /\ AddsOnly
  <2> DEFINE old == doc.lines
             x == Additions(p, old, plan[p].subtasks)
             new == old \o x
             n == Len(old)
  <2>1. plan[p].read = doc /\ plan[p].subtasks \in Splits(p)
    BY <1>0, <1>2 DEF Row
  <2>2. old \in Seq(DocLine) /\ doc.version \in Nat
    BY <1>0 DEF Document
  <2>3. Split(p, plan[p].subtasks)
    BY <2>1, EverySplit
  <2>4. /\ x \in Seq(DocLine)
        /\ \A j \in DOMAIN x : x[j] \in HeadingsOf =>
             x[j] \notin ToSet(old) /\ \A k \in DOMAIN x : x[k] = x[j] => k = j
    BY <2>3, AdditionsAre
  <2>5. doc' = [lines |-> new, version |-> doc.version + 1]
    BY <1>2, <2>1
  <2> HIDE DEF x
  <2>6. /\ new \in Seq(DocLine) /\ Len(new) = n + Len(x)
        /\ \A j \in 1 .. n + Len(x) : new[j] = IF j <= n THEN old[j] ELSE x[j - n]
    BY <2>2, <2>4, ConcatProperties
  <2>7. IsPrefix(old, new)
    BY <2>2, <2>4, SamePrefix
  <2> HIDE DEF new
  <2>8. doc' \in Document /\ doc'.version = doc.version + 1 /\ doc'.lines = new
    BY <2>2, <2>5, <2>6 DEF Document
  <2>9. PlanInv'
    <3> DEFINE r == [plan[p] EXCEPT !.stage = "saving"]
    <3>1. Row(p, r, doc')
      BY <1>0, <2>1 DEF Row, PlanRow
    <3>2. plan' = [plan EXCEPT ![p] = r]
      BY <1>2
    <3>3. \A q \in Plans : Row(q, plan[q], doc')
      BY <2>8, NewVersion
    <3>4. plan = [q \in Plans |-> plan[q]]
      BY DEF PlanInv
    <3> HIDE DEF r
    <3> QED BY <1>0, <2>8, <3>1, <3>2, <3>3, <3>4 DEF PlanInv
  <2>10. n \in Nat /\ Len(x) \in Nat /\ DOMAIN x = 1 .. Len(x)
         /\ DOMAIN old = 1 .. n /\ DOMAIN new = 1 .. n + Len(x)
    BY <2>2, <2>4, <2>6, LenProperties
  <2>11. ASSUME NEW i \in DOMAIN new, NEW k \in DOMAIN new,
                new[i] \in HeadingsOf, i > n, new[k] = new[i]
         PROVE  k = i
    <3> HIDE DEF n, old
    <3>1. i - n \in DOMAIN x /\ new[i] = x[i - n]
      BY <2>6, <2>10, <2>11
    <3>2. new[i] \notin ToSet(old) /\ \A j \in DOMAIN x : x[j] = new[i] => j = i - n
      BY <2>4, <2>11, <3>1
    <3>3. CASE k <= n
      <4>1. k \in DOMAIN old /\ new[k] = old[k]
        BY <2>6, <2>10, <3>3
      <4> QED BY <2>11, <3>2, <4>1 DEF ToSet
    <3>4. CASE ~(k <= n)
      <4>1. k - n \in DOMAIN x /\ new[k] = x[k - n]
        BY <2>6, <2>10, <3>4
      <4>2. k - n = i - n
        BY <2>11, <3>2, <4>1
      <4> QED BY <2>10, <4>2
    <3> QED BY <3>3, <3>4
  <2>12. AddsOnly
    BY <2>7, <2>8, <2>11, AllocationsAre DEF AddsOnly
  <2> QED BY <2>9, <2>12
<1> QED BY <1>1, <1>2 DEF Seed

LEMMA EditKeeps ==
  ASSUME PlanInv, Edit
  PROVE  PlanInv'
<1>1. doc.lines \in Seq(DocLine) /\ doc.version \in Nat
  BY DEF PlanInv, Document
<1>2. Append(doc.lines, << "work" >>) \in Seq(DocLine)
  <2>1. << "work" >> \in DocLine
    BY DEF DocLine
  <2> QED BY <1>1, <2>1, AppendProperties
<1>3. \A i \in DOMAIN doc.lines : RemoveAt(doc.lines, i) \in Seq(DocLine)
  <2> SUFFICES ASSUME NEW i \in DOMAIN doc.lines PROVE RemoveAt(doc.lines, i) \in Seq(DocLine)
    OBVIOUS
  <2> DEFINE s == doc.lines
             n == Len(s)
  <2>1. n \in Nat /\ i \in 1 .. n /\ s \in Seq(DocLine)
    BY <1>1, LenProperties
  <2> HIDE DEF s
  <2>2. SubSeq(s, 1, i - 1) \in Seq(DocLine) /\ SubSeq(s, i + 1, n) \in Seq(DocLine)
    BY <2>1
  <2> DEFINE a == SubSeq(s, 1, i - 1)
             b == SubSeq(s, i + 1, n)
  <2> HIDE DEF a, b
  <2>3. a \o b \in Seq(DocLine)
    BY <2>2, ConcatProperties DEF a, b
  <2> QED BY <2>3 DEF RemoveAt, a, b, s
<1>4. PICK lines \in Seq(DocLine) : doc' = [lines |-> lines, version |-> doc.version + 1]
  BY <1>2, <1>3 DEF Edit
<1>5. doc' \in Document /\ doc'.version = doc.version + 1
  BY <1>1, <1>4 DEF Document
<1>6. \A p \in Plans : Row(p, plan[p], doc')
  BY <1>5, NewVersion
<1> QED BY <1>5, <1>6 DEF PlanInv, Edit

LEMMA PlanningStarts ==
  ASSUME PlanningInit
  PROVE  PlanInv
<1>1. <<>> \in Seq(DocLine)
  OBVIOUS
<1>2. NoDocument \in Document
  BY <1>1 DEF NoDocument, Document
<1> QED BY <1>2 DEF PlanningInit, PlanInv, Row, PlanRow

LEMMA PlanningKeeps ==
  ASSUME PlanningAssumption, PlanInv, [PlanningNext]_planVars
  PROVE  PlanInv' /\ (plan' # plan => AddsOnly)
<1>1. ASSUME NEW p \in Plans, Ask(p) \/ Answered(p) \/ Step(p)
      PROVE  PlanInv' /\ AddsOnly
  BY <1>1, AskKeeps, DivideKeeps, ListKeeps, SeedKeeps DEF Step
<1>2. CASE Edit
  BY <1>2, EditKeeps DEF Edit
<1>3. CASE Lease
  BY <1>3 DEF Lease, PlanInv
<1>4. CASE UNCHANGED planVars
  BY <1>4 DEF planVars, PlanInv
<1> QED BY <1>1, <1>2, <1>3, <1>4 DEF PlanningNext

LEMMA PlanningHolds == PlanningAssumption => (PlanningSpec => []PlanInv)
<1>1. PlanningInit => PlanInv
  BY PlanningStarts
<1>2. PlanningAssumption /\ PlanInv /\ [PlanningNext]_planVars => PlanInv'
  BY PlanningKeeps
<1> SUFFICES ASSUME PlanningAssumption PROVE PlanningSpec => []PlanInv
  OBVIOUS
<1>3. PlanInv /\ [PlanningNext]_planVars => PlanInv'
  BY <1>2
<1> QED BY <1>1, <1>3, PTL DEF PlanningSpec

(***************************************************************************)
(* No path and no section is given to two subtasks of a task, each has a   *)
(* path of its own, and there are no more of them than were asked for:     *)
(* for any requests and whatever the model proposes (parseArkProposals,    *)
(* RuleSplitter.split, the headings of Orchestrator.plan).                 *)
(***************************************************************************)
THEOREM TheSplitRepeatsNothing == PlanningSpec => []SplitRepeatsNothing
<1>1. ASSUME PlanInv PROVE SplitRepeatsNothing
  <2> SUFFICES ASSUME NEW p \in Plans
               PROVE  /\ Partition(p, plan[p].subtasks)
                      /\ plan[p].stage \notin {"new", "splitting"} => plan[p].subtasks # <<>>
    BY DEF SplitRepeatsNothing, Partition
  <2>1. /\ plan[p].subtasks \in {<<>>} \cup Splits(p)
        /\ plan[p].stage \notin {"new", "splitting"} => plan[p].subtasks # <<>>
    BY <1>1 DEF PlanInv, Row, PlanRow
  <2>2. CASE plan[p].subtasks \in Splits(p)
    <3>1. Split(p, plan[p].subtasks)
      BY <2>2, PlanningAssumption, EverySplit
    <3> QED BY <2>1, <3>1 DEF Split
  <2>3. CASE plan[p].subtasks = <<>>
    <3>1. Request[p].maxSubtasks \in Nat
      BY PlanningAssumption DEF PlanningAssumption
    <3> QED BY <2>1, <2>2, <2>3, <3>1 DEF Partition
  <2> QED BY <2>1, <2>2, <2>3
<1> QED BY <1>1, PlanningAssumption, PlanningHolds, PTL

(***************************************************************************)
(* What planning does to a document leaves the lines that are there in     *)
(* place, and gives no heading twice: however many requests plan at once   *)
(* and whoever commits between what one of them reads and what it writes.  *)
(***************************************************************************)
THEOREM SeedingLosesNothing == PlanningSpec => SeedLosesNothing
<1>1. PlanInv /\ [PlanningNext]_planVars => [plan' # plan => AddsOnly]_planVars
  BY PlanningAssumption, PlanningKeeps
<1> QED BY <1>1, PlanningAssumption, PlanningHolds, PTL DEF PlanningSpec, SeedLosesNothing, AddsOnly

=============================================================================
