-------------------------- MODULE PageProofs --------------------------
(***************************************************************************)
(* The safety of the page, for any number of documents, agents and         *)
(* requests: first the editor, then the chat and the rows of the feed.     *)
(*                                                                         *)
(* The comparison of versions alone does not make a save safe: what has to *)
(* hold is that a version and a text travel together. IInv says so of each *)
(* place that holds such a pair (the page, an answer under way, a save     *)
(* under way) and that the buffer on screen comes from the page's text.    *)
(***************************************************************************)
EXTENDS Workbench, Chat, Feed, SequenceTheorems, FiniteSetTheorems, TLAPS

\* The pair is the present state of the document, or an older one.
Current(d, version, text) ==
  /\ version <= server[d].version
  /\ version = server[d].version => text = server[d].text

BufferIsOfThePage ==
  Mounted => /\ models[selected] \in Model
             /\ models[selected].basis = shown.text

PageIsCurrent == shown # None => Current(shown.doc, shown.version, shown.text)

ReadsAreCurrent ==
  \A r \in reads : r.target # None /\ r.answer # None
                     => Current(r.target, r.answer.version, r.answer.text)

SaveIsCurrent ==
  save # None /\ save.seen = save.doc => Current(save.doc, save.expected, save.basis)

Flagged == Mounted /\ Typed(models[selected]) => dirty

\* An answer is only there for a request that has chosen its document.
AnsweredReads == \A r \in reads : r.answer # None => r.target # None

IInv == /\ TypeOK
        /\ BufferIsOfThePage
        /\ PageIsCurrent
        /\ ReadsAreCurrent
        /\ SaveIsCurrent
        /\ Flagged
        /\ AnsweredReads

PageOK == /\ selected \in Docs \cup {None}
          /\ open \in BOOLEAN
          /\ shown \in View \cup {None}
          /\ models \in [Docs -> Model \cup {None}]
          /\ dirty \in BOOLEAN

-----------------------------------------------------------------------------
(***************************************************************************)
(* The steps the actions share                                             *)
(***************************************************************************)

LEMMA RendersKeeps ==
  ASSUME PageOK, BufferIsOfThePage, Flagged,
         NEW sel \in Docs \cup {None}, NEW view \in BOOLEAN,
         NEW doc \in View \cup {None}, Renders(sel, view, doc)
  PROVE  /\ PageOK' /\ BufferIsOfThePage' /\ Flagged'
         /\ selected' = sel /\ shown' = doc
  <1>1. selected' = sel /\ open' = view /\ shown' = doc
    BY DEF Renders
  <1>2. CASE view /\ sel # None /\ doc # None
    <2>1. doc \in View /\ doc.text \in Texts /\ sel \in Docs
      BY <1>2 DEF View
    <2>2. CASE Mounted /\ sel = selected /\ doc.text = shown.text
      <3>1. models' = models /\ dirty' = dirty
        BY <1>2, <2>2 DEF Renders
      <3> QED BY <1>1, <1>2, <2>1, <2>2, <3>1
              DEF PageOK, BufferIsOfThePage, Flagged, Mounted, Typed
    <2>3. CASE ~(Mounted /\ sel = selected /\ doc.text = shown.text)
      <3>1. Shows(sel, doc.text)
        BY <1>2, <2>3 DEF Renders
      <3>2. models' = [models EXCEPT ![sel] = Taken(doc.text)] /\ dirty' \in BOOLEAN
        BY <3>1 DEF Shows
      <3>3. /\ Taken(doc.text) \in Model
            /\ Taken(doc.text).basis = doc.text /\ Taken(doc.text).text = doc.text
        BY <2>1 DEF Taken, Model
      <3>4. models'[sel] = Taken(doc.text)
        BY <2>1, <3>2 DEF PageOK
      <3>5. models' \in [Docs -> Model \cup {None}]
        BY <2>1, <3>2, <3>3 DEF PageOK
      <3>6. PageOK' /\ BufferIsOfThePage'
        BY <1>1, <3>2, <3>3, <3>4, <3>5 DEF PageOK, BufferIsOfThePage, Mounted
      <3>7. ~Typed(models'[selected'])
        BY <1>1, <3>3, <3>4 DEF Typed
      <3> QED BY <1>1, <3>6, <3>7 DEF Flagged
    <2> QED BY <2>2, <2>3
  <1>3. CASE ~(view /\ sel # None /\ doc # None)
    <2>1. models' = [d \in Docs |-> None] /\ dirty' = FALSE
      BY <1>3 DEF Renders
    <2> QED BY <1>1, <1>3, <2>1 DEF PageOK, BufferIsOfThePage, Flagged, Mounted
  <1> QED BY <1>2, <1>3

LEMMA CleanedKeeps ==
  ASSUME PageOK, BufferIsOfThePage, Flagged, Cleaned,
         UNCHANGED <<selected, open, shown>>
  PROVE  PageOK' /\ BufferIsOfThePage' /\ Flagged'
  <1>1. CASE Mounted /\ dirty
    <2>1. shown \in View /\ shown.text \in Texts /\ selected \in Docs
      BY <1>1 DEF PageOK, View, Mounted
    <2>2. /\ models' = [models EXCEPT ![selected] = Taken(shown.text)]
          /\ dirty' \in BOOLEAN
      BY <1>1 DEF Cleaned
    <2>3. /\ Taken(shown.text) \in Model
          /\ Taken(shown.text).basis = shown.text /\ Taken(shown.text).text = shown.text
      BY <2>1 DEF Taken, Model
    <2>4. models'[selected] = Taken(shown.text)
      BY <2>1, <2>2 DEF PageOK
    <2>5. models' \in [Docs -> Model \cup {None}]
      BY <2>1, <2>2, <2>3 DEF PageOK
    <2> QED BY <2>2, <2>3, <2>4, <2>5 DEF PageOK, BufferIsOfThePage, Flagged, Mounted, Typed
  <1>2. CASE ~(Mounted /\ dirty)
    BY <1>2 DEF Cleaned, PageOK, BufferIsOfThePage, Flagged, Mounted, Typed
  <1> QED BY <1>1, <1>2

LEMMA StartsKeeps ==
  ASSUME TypeOK, ReadsAreCurrent, AnsweredReads, UNCHANGED server,
         NEW target \in Docs \cup {None}, Starts(target)
  PROVE  reads' \subseteq ReadRequest /\ ReadsAreCurrent' /\ AnsweredReads'
  <1> DEFINE new == [target |-> target, answer |-> None]
  <1>1. new \in ReadRequest /\ new.answer = None
    BY DEF ReadRequest
  <1>2. reads' \subseteq reads \cup {new}
    BY DEF Starts
  <1>3. reads' \subseteq ReadRequest
    BY <1>1, <1>2 DEF TypeOK
  <1>4. \A r \in reads' : r \in reads \/ r.answer = None
    BY <1>1, <1>2
  <1> HIDE DEF new
  <1> QED BY <1>3, <1>4 DEF ReadsAreCurrent, AnsweredReads, Current

\* A document that moves on leaves every pair what it was: old.
LEMMA AdvanceKeeps ==
  ASSUME TypeOK, PageIsCurrent, ReadsAreCurrent, SaveIsCurrent, AnsweredReads,
         NEW d \in Docs, NEW text \in Texts,
         server' = [server EXCEPT ![d] = [version |-> @.version + 1, text |-> text]],
         UNCHANGED <<shown, reads>>
  PROVE  /\ server' \in [Docs -> Content]
         /\ PageIsCurrent' /\ ReadsAreCurrent' /\ AnsweredReads'
         /\ \A e \in Docs, v \in Nat, t \in Texts :
              Current(e, v, t) => Current(e, v, t)'
  <1>1. \A e \in Docs : server[e] \in Content
    BY DEF TypeOK
  <1>2. server[d].version \in Nat
    BY <1>1 DEF Content
  <1>3. [version |-> server[d].version + 1, text |-> text] \in Content
    BY <1>2 DEF Content
  <1>4. server' \in [Docs -> Content]
    BY <1>3 DEF TypeOK
  <1>5. ASSUME NEW e \in Docs, NEW v \in Nat, NEW t \in Texts, Current(e, v, t)
        PROVE  Current(e, v, t)'
    <2>1. CASE e = d
      <3>1. server'[e].version = server[e].version + 1
        BY <2>1, <1>3 DEF TypeOK
      <3> QED BY <1>2, <1>5, <2>1, <3>1 DEF Current
    <2>2. CASE e # d
      BY <1>5, <2>2 DEF Current, TypeOK
    <2> QED BY <2>1, <2>2
  <1>6. PageIsCurrent'
    <2>1. SUFFICES ASSUME shown # None
                   PROVE  Current(shown.doc, shown.version, shown.text)'
      BY DEF PageIsCurrent
    <2>2. shown \in View
      BY <2>1 DEF TypeOK
    <2> QED BY <1>5, <2>1, <2>2 DEF PageIsCurrent, View, Current
  <1>7. ReadsAreCurrent'
    <2>1. SUFFICES ASSUME NEW r \in reads, r.target # None, r.answer # None
                   PROVE  Current(r.target, r.answer.version, r.answer.text)'
      BY DEF ReadsAreCurrent
    <2>2. r \in ReadRequest
      BY DEF TypeOK
    <2>3. r.target \in Docs /\ r.answer \in Content
      BY <2>1, <2>2 DEF ReadRequest
    <2>4. r.answer.version \in Nat /\ r.answer.text \in Texts
      BY <2>3 DEF Content
    <2>5. Current(r.target, r.answer.version, r.answer.text)
      BY <2>1 DEF ReadsAreCurrent
    <2> QED BY <1>5, <2>3, <2>4, <2>5 DEF Current
  <1>8. AnsweredReads'
    BY DEF AnsweredReads
  <1> QED BY <1>4, <1>5, <1>6, <1>7, <1>8

-----------------------------------------------------------------------------
(***************************************************************************)
(* The invariant                                                           *)
(***************************************************************************)

THEOREM Initially == Init => IInv
  <1> SUFFICES ASSUME Init PROVE IInv
    OBVIOUS
  <1>1. TypeOK
    <2>1. \A d \in Docs : server[d] \in Content
      <3>1. 1 .. Seeds \subseteq Texts
        BY WorkbenchAssumption DEF Texts
      <3> QED BY <3>1 DEF Init, Content
    <2>2. server \in [Docs -> Content]
      BY <2>1 DEF Init
    <2>3. fresh \in 1 .. MaxTexts + 1 /\ events \in 0 .. MaxEvents
      BY WorkbenchAssumption DEF Init
    <2>4. models \in [Docs -> Model \cup {None}]
      BY DEF Init
    <2> QED BY <2>2, <2>3, <2>4 DEF TypeOK, Init
  <1> QED BY <1>1 DEF IInv, Init, BufferIsOfThePage, PageIsCurrent, ReadsAreCurrent,
             SaveIsCurrent, Flagged, AnsweredReads, Mounted

LEMMA EventTyped == ASSUME TypeOK, Event PROVE events' \in 0 .. MaxEvents
BY WorkbenchAssumption DEF TypeOK, Event

LEMMA WriteTyped ==
  ASSUME TypeOK, Write PROVE fresh \in Texts /\ fresh' \in 1 .. MaxTexts + 1
BY WorkbenchAssumption DEF TypeOK, Write, Texts

\* What a step that leaves the server, the saves and the documents that
\* arrived alone keeps of the invariant.
LEMMA QuietKeeps ==
  ASSUME IInv, UNCHANGED <<server, fresh>>, PageOK', BufferIsOfThePage', Flagged',
         UNCHANGED shown, tabs' \subseteq Docs, events' \in 0 .. MaxEvents,
         reads' \subseteq ReadRequest, ReadsAreCurrent', AnsweredReads',
         save' = save \/ save' = None
  PROVE  IInv'
BY DEF IInv, TypeOK, PageOK, PageIsCurrent, SaveIsCurrent, Current

THEOREM ReadSteps ==
  ASSUME IInv, Poll \/ \E r \in reads : Listed(r) \/ Serve(r) \/ Arrive(r) \/ ReadFails(r)
  PROVE  IInv'
  <1> USE DEF page
  <1>0. PageOK /\ TypeOK /\ events \in 0 .. MaxEvents /\ tabs \subseteq Docs
    BY DEF IInv, TypeOK, PageOK
  <1>1. CASE Poll
    <2>1. selected \in Docs \cup {None} /\ Starts(selected) /\ UNCHANGED server
      BY <1>0, <1>1 DEF Poll, PageOK
    <2>2. reads' \subseteq ReadRequest /\ ReadsAreCurrent' /\ AnsweredReads'
      BY <1>0, <2>1, StartsKeeps DEF IInv
    <2>3. PageOK' /\ BufferIsOfThePage' /\ Flagged'
      BY <1>0, <1>1 DEF Poll, IInv, PageOK, BufferIsOfThePage, Flagged, Mounted, Typed
    <2> QED BY <1>0, <1>1, <2>2, <2>3, QuietKeeps DEF Poll
  <1>2. ASSUME NEW r \in reads, Listed(r) PROVE IInv'
    <2>0. r \in ReadRequest
      BY <1>0 DEF TypeOK
    <2>1. PICK first \in Docs :
            /\ reads' = (reads \ {r}) \cup {[r EXCEPT !.target = first]}
            /\ tabs' = tabs \cup {first}
            /\ Renders(first, open, shown)
      BY <1>2 DEF Listed
    <2>2. PageOK' /\ BufferIsOfThePage' /\ Flagged' /\ shown' = shown
      BY <1>0, <2>1, RendersKeeps DEF IInv, PageOK
    <2>3. r.answer = None
      BY <1>2, <2>0 DEF Listed, IInv, AnsweredReads
    <2>4. [r EXCEPT !.target = first] \in ReadRequest
          /\ [r EXCEPT !.target = first].answer = None
      BY <2>0, <2>3 DEF ReadRequest
    <2>5. UNCHANGED <<server, fresh, save, events>>
      BY <1>2 DEF Listed
    <2>6. reads' \subseteq ReadRequest /\ \A q \in reads' : q \in reads \/ q.answer = None
      BY <1>0, <2>1, <2>4 DEF TypeOK
    <2>7. ReadsAreCurrent' /\ AnsweredReads'
      BY <2>5, <2>6 DEF IInv, ReadsAreCurrent, AnsweredReads, Current
    <2>8. tabs' \subseteq Docs
      BY <1>0, <2>1
    <2> QED BY <1>0, <2>2, <2>5, <2>6, <2>7, <2>8, QuietKeeps
  <1>3. ASSUME NEW r \in reads, Serve(r) PROVE IInv'
    <2>0. r \in ReadRequest /\ r.target \in Docs
      BY <1>0, <1>3 DEF TypeOK, Serve, ReadRequest
    <2> DEFINE answered == [r EXCEPT !.answer = server[r.target]]
    <2>1. server[r.target] \in Content
      BY <1>0, <2>0 DEF TypeOK
    <2>2. /\ answered \in ReadRequest
          /\ answered.target = r.target /\ answered.answer = server[r.target]
      BY <2>0, <2>1 DEF ReadRequest
    <2>3. reads' = (reads \ {r}) \cup {answered}
      BY <1>3 DEF Serve
    <2>4. UNCHANGED <<page, server, fresh, save, events>>
      BY <1>3 DEF Serve
    <2>5. reads' \subseteq ReadRequest /\ \A q \in reads' : q \in reads \/ q = answered
      BY <1>0, <2>2, <2>3 DEF TypeOK
    <2>6. Current(answered.target, answered.answer.version, answered.answer.text)
      BY <2>1, <2>2 DEF Current, Content
    <2> HIDE DEF answered
    <2>7. ReadsAreCurrent'
      BY <2>4, <2>5, <2>6 DEF IInv, ReadsAreCurrent, Current
    <2>8. AnsweredReads'
      <3>1. answered.target # None
        BY <2>0, <2>2, WorkbenchAssumption
      <3> QED BY <2>5, <3>1 DEF IInv, AnsweredReads
    <2>9. PageOK' /\ BufferIsOfThePage' /\ Flagged' /\ tabs' \subseteq Docs
      BY <1>0, <2>4 DEF IInv, PageOK, BufferIsOfThePage, Flagged, Mounted, Typed
    <2> QED BY <1>0, <2>4, <2>5, <2>7, <2>8, <2>9, QuietKeeps
  <1>4. ASSUME NEW r \in reads, Arrive(r) PROVE IInv'
    <2> DEFINE doc == [doc |-> r.target, version |-> r.answer.version,
                       text |-> r.answer.text]
    <2>0. r \in ReadRequest /\ r.target # None
      BY <1>0, <1>4 DEF TypeOK, Arrive, IInv, AnsweredReads
    <2>1. r.target \in Docs /\ r.answer \in Content
      BY <1>4, <2>0 DEF Arrive, ReadRequest
    <2>2. doc \in View /\ doc.doc = r.target /\ doc.version = r.answer.version
          /\ doc.text = r.answer.text
      BY <2>1 DEF Content, View
    <2>3. Current(r.target, r.answer.version, r.answer.text)
      BY <1>4, <2>0 DEF Arrive, IInv, ReadsAreCurrent
    <2>4. Renders(selected, open, doc) /\ reads' = reads \ {r}
          /\ UNCHANGED <<tabs, server, fresh, save, events>>
      BY <1>4 DEF Arrive
    <2> HIDE DEF doc
    <2>5. PageOK' /\ BufferIsOfThePage' /\ Flagged' /\ shown' = doc
      BY <1>0, <2>2, <2>4, RendersKeeps DEF IInv, PageOK
    <2>6. PageIsCurrent'
      BY <2>2, <2>3, <2>4, <2>5 DEF PageIsCurrent, Current
    <2>7. ReadsAreCurrent' /\ SaveIsCurrent' /\ AnsweredReads'
      BY <2>4 DEF IInv, ReadsAreCurrent, SaveIsCurrent, AnsweredReads, Current
    <2>8. TypeOK'
      BY <1>0, <2>4, <2>5 DEF TypeOK, PageOK
    <2> QED BY <2>5, <2>6, <2>7, <2>8 DEF IInv
  <1>5. ASSUME NEW r \in reads, ReadFails(r) PROVE IInv'
    <2>1. reads' \subseteq reads /\ UNCHANGED <<page, server, fresh, save>>
          /\ events' \in 0 .. MaxEvents
      BY <1>0, <1>5, EventTyped DEF ReadFails
    <2>2. reads' \subseteq ReadRequest /\ ReadsAreCurrent' /\ AnsweredReads'
      BY <1>0, <2>1 DEF IInv, TypeOK, ReadsAreCurrent, AnsweredReads, Current
    <2>3. PageOK' /\ BufferIsOfThePage' /\ Flagged' /\ tabs' \subseteq Docs
      BY <1>0, <2>1 DEF IInv, PageOK, BufferIsOfThePage, Flagged, Mounted, Typed
    <2> QED BY <2>1, <2>2, <2>3, QuietKeeps
  <1> QED BY <1>1, <1>2, <1>3, <1>4, <1>5

THEOREM HumanSteps ==
  ASSUME IInv, Leave \/ Type \/ Save \/ \E d \in Docs : Select(d) \/ Close(d)
  PROVE  IInv'
  <1> USE DEF page
  <1>0. PageOK /\ TypeOK /\ tabs \subseteq Docs /\ reads \subseteq ReadRequest
    BY DEF IInv, TypeOK, PageOK
  <1>1. ASSUME NEW d \in Docs, Select(d) PROVE IInv'
    <2>1. PageOK' /\ BufferIsOfThePage' /\ Flagged' /\ shown' = shown
      BY <1>0, <1>1, RendersKeeps DEF IInv, PageOK, Select
    <2>2. UNCHANGED <<server, fresh, save>> /\ tabs' \subseteq Docs
          /\ events' \in 0 .. MaxEvents
      BY <1>0, <1>1, EventTyped DEF Select
    <2>3. Starts(d) \/ UNCHANGED reads
      BY <1>1 DEF Select
    <2>4. reads' \subseteq ReadRequest /\ ReadsAreCurrent' /\ AnsweredReads'
      <3>1. CASE Starts(d)
        BY <1>0, <2>2, <3>1, StartsKeeps DEF IInv
      <3>2. CASE UNCHANGED reads
        BY <1>0, <2>2, <3>2 DEF IInv, ReadsAreCurrent, AnsweredReads, Current
      <3> QED BY <2>3, <3>1, <3>2
    <2> QED BY <2>1, <2>2, <2>4, QuietKeeps
  <1>2. ASSUME NEW d \in Docs, Close(d) PROVE IInv'
    <2>1. UNCHANGED <<server, fresh, save>> /\ tabs' \subseteq Docs
          /\ events' \in 0 .. MaxEvents
      BY <1>0, <1>2, EventTyped DEF Close
    <2>2. CASE d # selected
      <3>1. UNCHANGED <<selected, open, shown, models, dirty, reads>>
        BY <1>2, <2>2 DEF Close
      <3>2. reads' \subseteq ReadRequest /\ ReadsAreCurrent' /\ AnsweredReads'
        BY <1>0, <2>1, <3>1 DEF IInv, ReadsAreCurrent, AnsweredReads, Current
      <3>3. PageOK' /\ BufferIsOfThePage' /\ Flagged'
        BY <1>0, <3>1 DEF IInv, PageOK, BufferIsOfThePage, Flagged, Mounted, Typed
      <3> QED BY <2>1, <3>1, <3>2, <3>3, QuietKeeps
    <2>3. CASE d = selected
      <3>1. PICK d1 \in Docs \cup {None} : Renders(d1, open, shown) /\ Starts(d1)
        BY <1>0, <1>2, <2>3 DEF Close
      <3>2. PageOK' /\ BufferIsOfThePage' /\ Flagged' /\ shown' = shown
        BY <1>0, <3>1, RendersKeeps DEF IInv, PageOK
      <3>3. reads' \subseteq ReadRequest /\ ReadsAreCurrent' /\ AnsweredReads'
        BY <1>0, <2>1, <3>1, StartsKeeps DEF IInv
      <3> QED BY <2>1, <3>2, <3>3, QuietKeeps
    <2> QED BY <2>2, <2>3
  <1>3. CASE Leave
    <2>1. PageOK' /\ BufferIsOfThePage' /\ Flagged' /\ shown' = shown
      BY <1>0, <1>3, RendersKeeps DEF IInv, PageOK, Leave
    <2>2. UNCHANGED <<server, fresh, save, tabs, reads>> /\ events' \in 0 .. MaxEvents
      BY <1>0, <1>3, EventTyped DEF Leave
    <2>3. ReadsAreCurrent' /\ AnsweredReads'
      BY <2>2 DEF IInv, ReadsAreCurrent, AnsweredReads, Current
    <2> QED BY <1>0, <2>1, <2>2, <2>3, QuietKeeps
  <1>4. CASE Type
    <2>1. /\ Mounted /\ fresh \in Texts /\ fresh' \in 1 .. MaxTexts + 1
          /\ models' = [models EXCEPT ![selected].text = fresh] /\ dirty' = TRUE
          /\ UNCHANGED <<selected, tabs, open, shown, server, reads, save, events>>
      BY <1>0, <1>4, WriteTyped DEF Type
    <2>2. /\ selected \in Docs /\ models[selected] \in Model
          /\ models[selected].basis = shown.text
      BY <1>0, <2>1 DEF PageOK, Mounted, IInv, BufferIsOfThePage
    <2>3. /\ [models[selected] EXCEPT !.text = fresh] \in Model
          /\ [models[selected] EXCEPT !.text = fresh].basis = shown.text
      BY <2>1, <2>2 DEF Model
    <2>4. models'[selected] = [models[selected] EXCEPT !.text = fresh]
      BY <1>0, <2>1, <2>2 DEF PageOK
    <2>5. models' \in [Docs -> Model \cup {None}]
      BY <1>0, <2>1, <2>2, <2>3 DEF PageOK
    <2>6. TypeOK'
      BY <1>0, <2>1, <2>5 DEF TypeOK
    <2>7. BufferIsOfThePage' /\ Flagged'
      BY <2>1, <2>3, <2>4 DEF BufferIsOfThePage, Flagged, Mounted
    <2> QED BY <2>1, <2>6, <2>7 DEF IInv, PageIsCurrent, ReadsAreCurrent,
                  SaveIsCurrent, AnsweredReads, Current
  <1>5. CASE Save
    <2>1. /\ selected \in Docs /\ shown \in View /\ models[selected] \in Model
          /\ models[selected].basis = shown.text /\ shown # None
      BY <1>0, <1>5 DEF Save, PageOK, Mounted, IInv, BufferIsOfThePage
    <2>2. /\ save' = [doc |-> selected, expected |-> shown.version,
                      text |-> models[selected].text, basis |-> models[selected].basis,
                      seen |-> shown.doc, answer |-> None]
          /\ UNCHANGED <<page, server, fresh, reads>> /\ events' \in 0 .. MaxEvents
      BY <1>0, <1>5, EventTyped DEF Save
    <2>3. save' \in SaveRequest
      BY <2>1, <2>2 DEF SaveRequest, View, Model
    <2>4. Current(shown.doc, shown.version, shown.text)
      BY <2>1 DEF IInv, PageIsCurrent
    <2>5. SaveIsCurrent'
      BY <2>1, <2>2, <2>4 DEF SaveIsCurrent, Current
    <2>6. TypeOK'
      BY <1>0, <2>2, <2>3 DEF TypeOK
    <2> QED BY <2>2, <2>5, <2>6 DEF IInv, PageIsCurrent, ReadsAreCurrent, AnsweredReads,
                  Current, BufferIsOfThePage, Flagged, Mounted, Typed
  <1> QED BY <1>1, <1>2, <1>3, <1>4, <1>5

THEOREM ServerSteps ==
  ASSUME IInv, ServeSave \/ SaveWritten \/ SaveDenied \/ \E d \in Docs : Commit(d)
  PROVE  IInv'
  <1> USE DEF page
  <1>0. /\ PageOK /\ TypeOK /\ tabs \subseteq Docs /\ reads \subseteq ReadRequest
        /\ events \in 0 .. MaxEvents
    BY DEF IInv, TypeOK, PageOK
  <1>a. ASSUME NEW d \in Docs, NEW text \in Texts,
               server' = [server EXCEPT ![d] = [version |-> @.version + 1, text |-> text]],
               UNCHANGED <<page, reads, events>>, fresh' \in 1 .. MaxTexts + 1,
               save' \in SaveRequest \cup {None},
               save' # None => /\ save # None /\ save'.doc = save.doc /\ save'.seen = save.seen
                               /\ save'.expected = save.expected /\ save'.basis = save.basis
        PROVE  IInv'
    <2>1. /\ server' \in [Docs -> Content]
          /\ PageIsCurrent' /\ ReadsAreCurrent' /\ AnsweredReads'
          /\ \A e \in Docs, v \in Nat, t \in Texts : Current(e, v, t) => Current(e, v, t)'
      BY <1>0, <1>a, AdvanceKeeps DEF IInv
    <2>2. SaveIsCurrent'
      <3>1. SUFFICES ASSUME save' # None, save'.seen = save'.doc
                     PROVE  Current(save.doc, save.expected, save.basis)'
        BY <1>a DEF SaveIsCurrent, Current
      <3>2. save \in SaveRequest
        BY <1>0, <1>a, <3>1 DEF TypeOK
      <3>3. save.doc \in Docs /\ save.expected \in Nat /\ save.basis \in Texts
        BY <3>2 DEF SaveRequest
      <3>4. Current(save.doc, save.expected, save.basis)
        BY <1>a, <3>1 DEF IInv, SaveIsCurrent
      <3>5. /\ save'.doc = save.doc /\ save'.expected = save.expected
            /\ save'.basis = save.basis
        BY <1>a, <3>1
      <3> QED BY <2>1, <3>3, <3>4, <3>5 DEF Current
    <2>3. TypeOK'
      BY <1>0, <1>a, <2>1 DEF TypeOK
    <2> QED BY <1>a, <2>1, <2>2, <2>3
            DEF IInv, BufferIsOfThePage, Flagged, Mounted, Typed
  <1>1. CASE ServeSave
    <2>1. save # None /\ save \in SaveRequest
      BY <1>0, <1>1 DEF ServeSave, TypeOK
    <2>2. \A answer \in {"written", "stale"} :
            LET answered == [save EXCEPT !.answer = answer]
            IN  /\ answered \in SaveRequest /\ answered.doc = save.doc
                /\ answered.seen = save.seen /\ answered.expected = save.expected
                /\ answered.basis = save.basis
      BY <2>1 DEF SaveRequest
    <2>3. save.doc \in Docs /\ save.text \in Texts
      BY <2>1 DEF SaveRequest
    <2>4. UNCHANGED <<page, fresh, reads, events>> /\ fresh' \in 1 .. MaxTexts + 1
      BY <1>0, <1>1 DEF ServeSave, TypeOK
    <2>5. CASE /\ server' = [server EXCEPT ![save.doc] =
                               [version |-> @.version + 1, text |-> save.text]]
               /\ save' = [save EXCEPT !.answer = "written"]
      <3>1. /\ save' \in SaveRequest /\ save'.doc = save.doc /\ save'.seen = save.seen
            /\ save'.expected = save.expected /\ save'.basis = save.basis
        BY <2>2, <2>5
      <3> QED BY <1>a, <2>1, <2>3, <2>4, <2>5, <3>1
    <2>6. CASE UNCHANGED server /\ save' = [save EXCEPT !.answer = "stale"]
      <3>1. /\ save' \in SaveRequest /\ save'.doc = save.doc /\ save'.seen = save.seen
            /\ save'.expected = save.expected /\ save'.basis = save.basis
        BY <2>2, <2>6
      <3>2. SaveIsCurrent'
        BY <2>1, <2>6, <3>1 DEF IInv, SaveIsCurrent, Current
      <3>3. TypeOK'
        BY <1>0, <2>4, <2>6, <3>1 DEF TypeOK
      <3> QED BY <2>4, <2>6, <3>2, <3>3 DEF IInv, PageIsCurrent, ReadsAreCurrent,
                 AnsweredReads, Current, BufferIsOfThePage, Flagged, Mounted, Typed
    <2> QED BY <1>1, <2>5, <2>6 DEF ServeSave
  <1>2. CASE SaveWritten
    <2>1. /\ save # None /\ save \in SaveRequest /\ save' = None
          /\ Starts(save.doc) /\ Cleaned
          /\ UNCHANGED <<selected, tabs, open, shown, server, fresh, events>>
      BY <1>0, <1>2 DEF SaveWritten, TypeOK
    <2>2. save.doc \in Docs
      BY <2>1 DEF SaveRequest
    <2>3. reads' \subseteq ReadRequest /\ ReadsAreCurrent' /\ AnsweredReads'
      BY <1>0, <2>1, <2>2, StartsKeeps DEF IInv
    <2>4. PageOK' /\ BufferIsOfThePage' /\ Flagged'
      BY <1>0, <2>1, CleanedKeeps DEF IInv
    <2> QED BY <1>0, <2>1, <2>3, <2>4, QuietKeeps
  <1>3. CASE SaveDenied
    <2>1. save' = None /\ UNCHANGED <<page, server, fresh, reads, events>>
      BY <1>3 DEF SaveDenied
    <2>2. ReadsAreCurrent' /\ AnsweredReads'
      BY <2>1 DEF IInv, ReadsAreCurrent, AnsweredReads, Current
    <2>3. PageOK' /\ BufferIsOfThePage' /\ Flagged'
      BY <1>0, <2>1 DEF IInv, PageOK, BufferIsOfThePage, Flagged, Mounted, Typed
    <2> QED BY <1>0, <2>1, <2>2, <2>3, QuietKeeps
  <1>4. ASSUME NEW d \in Docs, Commit(d) PROVE IInv'
    <2>1. fresh \in Texts /\ fresh' \in 1 .. MaxTexts + 1
      BY <1>0, <1>4, WriteTyped DEF Commit
    <2>2. save' \in SaveRequest \cup {None} /\ save' = save
      BY <1>0, <1>4 DEF Commit, TypeOK
    <2> QED BY <1>4, <1>a, <2>1, <2>2 DEF Commit
  <1> QED BY <1>1, <1>2, <1>3, <1>4

THEOREM Inductive == IInv /\ [Next]_vars => IInv'
  <1> SUFFICES ASSUME IInv, [Next]_vars PROVE IInv'
    OBVIOUS
  <1>1. CASE UNCHANGED vars
    BY <1>1 DEF vars, IInv, TypeOK, BufferIsOfThePage, PageIsCurrent, ReadsAreCurrent,
       SaveIsCurrent, Flagged, AnsweredReads, Current, Mounted, Typed
  <1> QED BY <1>1, ReadSteps, HumanSteps, ServerSteps DEF Next

\* The types of the page, of what is in flight and of the server.
THEOREM TypeCorrect == Spec => []TypeOK
  <1>1. IInv => TypeOK
    BY DEF IInv
  <1> QED BY <1>1, Initially, Inductive, PTL DEF Spec

\* Typing that is not saved is always said to be unsaved.
THEOREM TypingIsFlagged == Spec => []UnsavedIsFlagged
  <1>1. IInv => UnsavedIsFlagged
    BY DEF IInv, Flagged, UnsavedIsFlagged
  <1> QED BY <1>1, Initially, Inductive, PTL DEF Spec

\* A save of the file that is shown replaces the text its buffer came from.
THEOREM SavesAreSafe == Spec => SavesReplaceWhatWasSeen
  <1> DEFINE A == save # None /\ save.seen = save.doc
                  /\ server'[save.doc] # server[save.doc] /\ save' # save
                    => save.basis = server[save.doc].text
  <1>1. IInv /\ [Next]_vars => [A]_vars
    <2> SUFFICES ASSUME IInv, Next, save # None, save.seen = save.doc,
                        server'[save.doc] # server[save.doc], save' # save
                 PROVE  save.basis = server[save.doc].text
      BY DEF vars
    <2>1. ServeSave
      BY DEF Next, Poll, Leave, Type, Save, SaveWritten, SaveDenied, Listed, Serve,
             Arrive, ReadFails, Select, Close, Commit
    <2>2. save.expected = server[save.doc].version
      BY <2>1 DEF ServeSave
    <2> QED BY <2>2 DEF IInv, SaveIsCurrent, Current
  <1> QED BY <1>1, Initially, Inductive, PTL DEF Spec, SavesReplaceWhatWasSeen

-----------------------------------------------------------------------------
(***************************************************************************)
(* The chat. An answer is for the agent that its request was about, but    *)
(* it may arrive after others were opened, and two answers of one opening  *)
(* complete each other. ChatInv says what every message carries about whom *)
(* it is, and that requests with one number, and what has arrived for      *)
(* them, are about one agent.                                              *)
(***************************************************************************)
Fields == {"by", "kind", "of", "n", "at", "length", "run", "agents"}

\* What a message carries about whom it is.
MessageOK(x) ==
  /\ DOMAIN x = Fields
  /\ x.at = "answered" /\ x.kind \in {"message", "runs"} => x.run.of = x.of
  /\ x.kind = "message" => x.of \in Chats
  /\ x.by = "op" => x.of \in Chats \cup {NoAgent}
  /\ x.kind \in {"messages", "runs"} => x.by \in {"load", "poll"}
  /\ x.by = "load" => x.n \in Nat /\ x.n < opens

\* Requests of one load are about one agent.
WireOK ==
  /\ net \in Seq(ToSet(net))
  /\ \A x \in ToSet(net) : MessageOK(x)
  /\ \A x, y \in ToSet(net) : x.by = "load" /\ y.by = "load" /\ x.n = y.n => x.of = y.of

\* The run that arrived for a load is of the agent its requests are about.
LoadOK(l) ==
  /\ DOMAIN l = {"no", "left", "run"}
  /\ l.no \in Nat /\ l.no < opens
  /\ \A x \in ToSet(net) : x.by = "load" /\ x.n = l.no => l.run = NoRun \/ l.run.of = x.of

LoadsOK == \A l \in loads : LoadOK(l)

LastOK ==
  /\ DOMAIN last = Chats
  /\ \A a \in Chats : DOMAIN last[a] = {"of", "n", "ended"} /\ last[a].of = a

ChatInv ==
  /\ WireOK /\ LoadsOK /\ LastOK
  /\ opens \in Nat
  /\ selectedId \in Chats \cup {NoAgent}
  /\ RunShownIsSelected

LEMMA ElementsIn ==
  ASSUME NEW T, NEW s \in Seq(T)
  PROVE  /\ ToSet(s) \subseteq T /\ s \in Seq(ToSet(s))
         /\ DOMAIN s = 1 .. Len(s) /\ \A i \in DOMAIN s : s[i] \in ToSet(s)
<1>1. DOMAIN s = 1 .. Len(s) /\ Len(s) \in Nat /\ \A i \in 1 .. Len(s) : s[i] \in T
  OBVIOUS
<1>2. \A i \in DOMAIN s : s[i] \in ToSet(s)
  BY DEF ToSet
<1>3. s = [i \in 1 .. Len(s) |-> s[i]]
  BY <1>1
<1>4. s \in Seq(ToSet(s))
  BY <1>1, <1>2, <1>3, IsASeq
<1> QED BY <1>1, <1>2, <1>4 DEF ToSet

LEMMA AppendIn ==
  ASSUME NEW T, NEW s \in Seq(T), NEW x
  PROVE  Append(s, x) \in Seq(T \cup {x}) /\ ToSet(Append(s, x)) \subseteq ToSet(s) \cup {x}
<1>1. s \in Seq(T \cup {x})
  OBVIOUS
<1>2. Append(s, x) \in Seq(T \cup {x}) /\ Len(Append(s, x)) = Len(s) + 1
  BY <1>1
<1>3. \A i \in 1 .. Len(s) + 1 : Append(s, x)[i] = IF i = Len(s) + 1 THEN x ELSE s[i]
  BY <1>1
<1>4. DOMAIN Append(s, x) = 1 .. Len(s) + 1 /\ DOMAIN s = 1 .. Len(s) /\ Len(s) \in Nat
  BY <1>1, <1>2
<1> QED BY <1>2, <1>3, <1>4 DEF ToSet

LEMMA RemoveIn ==
  ASSUME NEW T, NEW s \in Seq(T), NEW i \in DOMAIN s
  PROVE  RemoveAt(s, i) \in Seq(T) /\ ToSet(RemoveAt(s, i)) \subseteq ToSet(s)
<1>1. DOMAIN s = 1 .. Len(s) /\ Len(s) \in Nat /\ i \in 1 .. Len(s)
  OBVIOUS
<1> DEFINE p == SubSeq(s, 1, i - 1)
           q == SubSeq(s, i + 1, Len(s))
<1>2. p \in Seq(T) /\ Len(p) = i - 1 /\ \A k \in 1 .. i - 1 : p[k] = s[k]
  BY <1>1, SubSeqProperties
<1>3. q \in Seq(T) /\ Len(q) = Len(s) - i /\ \A k \in 1 .. Len(s) - i : q[k] = s[i + k]
  BY <1>1, SubSeqProperties, SMTT(40)
<1> DEFINE z == p \o q
<1>4. RemoveAt(s, i) = z
  BY DEF RemoveAt
<1> HIDE DEF p, q
<1>5. z \in Seq(T) /\ Len(z) = Len(p) + Len(q)
      /\ \A k \in 1 .. Len(p) + Len(q) : z[k] = IF k <= Len(p) THEN p[k] ELSE q[k - Len(p)]
  BY <1>2, <1>3, ConcatProperties
<1> HIDE DEF z
<1>6. DOMAIN z = 1 .. Len(z)
  BY <1>5
<1> DEFINE n == Len(s)
<1>7. n \in Nat /\ i \in 1 .. n /\ Len(p) = i - 1 /\ Len(q) = n - i
  BY <1>1, <1>2, <1>3
<1> HIDE DEF n
<1>8. \A k \in 1 .. Len(z) : \E j \in 1 .. n : z[k] = s[j]
  <2> SUFFICES ASSUME NEW k \in 1 .. (i - 1) + (n - i) PROVE \E j \in 1 .. n : z[k] = s[j]
    BY <1>5, <1>7
  <2>1. CASE k <= i - 1
    <3>1. k \in 1 .. i - 1 /\ k \in 1 .. n
      BY <2>1, <1>7
    <3>2. z[k] = s[k]
      BY <2>1, <3>1, <1>2, <1>5, <1>7
    <3> QED BY <3>1, <3>2
  <2>2. CASE ~(k <= i - 1)
    <3> DEFINE m == k - (i - 1)
    <3>0. /\ n \in Int /\ i \in Int /\ k \in Int
          /\ 1 <= i /\ i <= n /\ i <= k /\ k <= n - 1
      BY <2>2, <1>7, SMTT(40)
    <3>1. m \in 1 .. n - i /\ i + m \in 1 .. n
      BY ONLY <3>0
    <3>2. z[k] = q[m]
      BY <2>2, <1>5, <1>7
    <3>3. q[m] = s[i + m]
      BY <3>1, <1>3 DEF n
    <3> QED BY <3>1, <3>2, <3>3
  <2> QED BY <2>1, <2>2
<1>9. \A y \in ToSet(z) : \E k \in 1 .. Len(z) : y = z[k]
  BY <1>6 DEF ToSet
<1>10. \A j \in 1 .. n : s[j] \in ToSet(s)
  BY <1>1 DEF ToSet, n
<1>11. ToSet(z) \subseteq ToSet(s)
  BY <1>8, <1>9, <1>10, Zenon
<1> QED BY <1>4, <1>5, <1>11

LEMMA TwoMoreIn ==
  ASSUME NEW T, NEW s \in Seq(T), NEW x, NEW y
  PROVE  s \o << x, y >> \in Seq(T \cup {x, y}) /\ ToSet(s \o << x, y >>) \subseteq ToSet(s) \cup {x, y}
<1>1. s \in Seq(T \cup {x, y}) /\ << x, y >> \in Seq(T \cup {x, y}) /\ Len(<< x, y >>) = 2
  OBVIOUS
<1> DEFINE c == s \o << x, y >>
<1>2. c \in Seq(T \cup {x, y}) /\ Len(c) = Len(s) + 2
  BY <1>1, ConcatProperties
<1>3. \A k \in 1 .. Len(s) + 2 : c[k] = IF k <= Len(s) THEN s[k] ELSE << x, y >>[k - Len(s)]
  BY <1>1, ConcatProperties
<1> HIDE DEF c
<1>4. DOMAIN c = 1 .. Len(s) + 2 /\ DOMAIN s = 1 .. Len(s) /\ Len(s) \in Nat
  BY <1>1, <1>2
<1>5. \A k \in 1 .. Len(s) + 2 : c[k] \in ToSet(s) \cup {x, y}
  <2> SUFFICES ASSUME NEW k \in 1 .. Len(s) + 2 PROVE c[k] \in ToSet(s) \cup {x, y}
    OBVIOUS
  <2>1. CASE k <= Len(s)
    BY <2>1, <1>3, <1>4 DEF ToSet
  <2>2. CASE k = Len(s) + 1
    BY <2>2, <1>3, <1>4
  <2>3. CASE k = Len(s) + 2
    BY <2>3, <1>3, <1>4
  <2> QED BY <2>1, <2>2, <2>3, <1>4
<1>6. ToSet(c) \subseteq ToSet(s) \cup {x, y}
  BY <1>4, <1>5 DEF ToSet
<1> QED BY <1>2, <1>6 DEF c

LEMMA ReplaceIn ==
  ASSUME NEW T, NEW s \in Seq(T), NEW i \in DOMAIN s, NEW x
  PROVE  [s EXCEPT ![i] = x] \in Seq(T \cup {x}) /\ ToSet([s EXCEPT ![i] = x]) \subseteq ToSet(s) \cup {x}
<1> DEFINE c == [s EXCEPT ![i] = x]
<1>1. DOMAIN s = 1 .. Len(s) /\ s \in Seq(T \cup {x}) /\ i \in 1 .. Len(s)
  OBVIOUS
<1>2. c \in Seq(T \cup {x}) /\ \A k \in 1 .. Len(s) : c[k] = IF k = i THEN x ELSE s[k]
  BY <1>1, ExceptSeq
<1>3. DOMAIN c = DOMAIN s
  OBVIOUS
<1> HIDE DEF c
<1>4. ToSet(c) \subseteq ToSet(s) \cup {x}
  BY <1>1, <1>2, <1>3 DEF ToSet
<1> QED BY <1>2, <1>4 DEF c

\* What is no new load keeps the wire and the loads.
OnTheWire(y) == y.by = "load" => \E x \in ToSet(net) : x.by = "load" /\ x.n = y.n /\ x.of = y.of

LEMMA NoNewLoad ==
  ASSUME ChatInv, opens' = opens,
         NEW N, net' \in Seq(ToSet(net) \cup N),
         \A y \in N : MessageOK(y) /\ OnTheWire(y),
         \A l \in loads' : LoadOK(l)
  PROVE  WireOK' /\ LoadsOK'
<1>1. net' \in Seq(ToSet(net')) /\ ToSet(net') \subseteq ToSet(net) \cup N
  BY ElementsIn
<1>2. \A x \in ToSet(net) \cup N : MessageOK(x) /\ OnTheWire(x)
  BY DEF ChatInv, WireOK, OnTheWire
<1>3. \A x \in ToSet(net) \cup N : MessageOK(x)'
  BY <1>2 DEF MessageOK
<1>4. \A x, y \in ToSet(net') : x.by = "load" /\ y.by = "load" /\ x.n = y.n => x.of = y.of
  BY <1>1, <1>2 DEF OnTheWire, ChatInv, WireOK
<1>5. WireOK'
  BY <1>1, <1>3, <1>4 DEF WireOK
<1>6. ASSUME NEW l \in loads' PROVE LoadOK(l)'
  <2>1. LoadOK(l)
    OBVIOUS
  <2>2. \A x \in ToSet(net') : x.by = "load" /\ x.n = l.no => l.run = NoRun \/ l.run.of = x.of
    BY <1>1, <1>2, <2>1 DEF OnTheWire, LoadOK
  <2> QED BY <2>1, <2>2 DEF LoadOK
<1> QED BY <1>5, <1>6 DEF LoadsOK

LEMMA RequestFields ==
  ASSUME NEW who, NEW what, NEW a, NEW n
  PROVE  LET x == Request(who, what, a, n)
         IN  /\ DOMAIN x = Fields
             /\ x.by = who /\ x.kind = what /\ x.of = a /\ x.n = n /\ x.at = "asked"
BY DEF Request, Fields

LEMMA RequestOK ==
  ASSUME NEW who, NEW what, NEW a, NEW n,
         who # "load",
         what = "message" => a \in Chats,
         who = "op" => a \in Chats \cup {NoAgent},
         what \in {"messages", "runs"} => who = "poll"
  PROVE  MessageOK(Request(who, what, a, n)) /\ OnTheWire(Request(who, what, a, n))
<1> DEFINE x == Request(who, what, a, n)
<1>1. /\ DOMAIN x = Fields
      /\ x.by = who /\ x.kind = what /\ x.of = a /\ x.n = n /\ x.at = "asked"
  BY RequestFields
<1> HIDE DEF x
<1>2. MessageOK(x) /\ OnTheWire(x)
  BY <1>1 DEF MessageOK, OnTheWire
<1> QED BY <1>2 DEF x

\* An answer takes the place of its request.
LEMMA AnswerKeeps ==
  ASSUME ChatInv, NEW i \in DOMAIN net, NEW y,
         DOMAIN y = Fields,
         y.by = net[i].by, y.kind = net[i].kind, y.of = net[i].of, y.n = net[i].n,
         y.at = "answered" /\ y.kind \in {"message", "runs"} => y.run.of = y.of,
         net' = [net EXCEPT ![i] = y], opens' = opens, loads' = loads
  PROVE  WireOK' /\ LoadsOK'
<1> DEFINE N == {y}
<1>1. net \in Seq(ToSet(net)) /\ net[i] \in ToSet(net)
  BY DEF ChatInv, WireOK, ToSet
<1>2. net' \in Seq(ToSet(net) \cup N)
  BY <1>1, ReplaceIn
<1>3. MessageOK(net[i])
  BY <1>1 DEF ChatInv, WireOK
<1>4. MessageOK(y) /\ OnTheWire(y)
  BY <1>1, <1>3 DEF MessageOK, OnTheWire
<1>5. \A l \in loads' : LoadOK(l)
  BY DEF ChatInv, LoadsOK
<1>6. \A z \in N : MessageOK(z) /\ OnTheWire(z)
  BY <1>4
<1> HIDE DEF N
<1> QED BY <1>2, <1>5, <1>6, NoNewLoad

\* An agent is opened: its requests carry a number of their own.
LEMMA OpenKeeps ==
  ASSUME ChatInv, NEW a \in Chats \cup {NoAgent}, NEW wire \in Seq(ToSet(net)),
         OpenAgent(a, wire)
  PROVE  /\ WireOK' /\ LoadsOK' /\ opens' \in Nat
         /\ selectedId' \in Chats \cup {NoAgent} /\ RunShownIsSelected'
<1> DEFINE N == {}
<1>1. /\ selectedId' = a
      /\ opens \in Nat
      /\ wire \in Seq(ToSet(net) \cup N)
      /\ \A l \in loads : LoadOK(l)
      /\ \A y \in N : MessageOK(y) /\ OnTheWire(y)
  BY DEF OpenAgent, ChatInv, LoadsOK
<1> HIDE DEF N
<1>2. CASE a = selectedId
  <2>1. net' = wire /\ UNCHANGED << activeRun, loads, opens >>
    BY <1>2 DEF OpenAgent
  <2>2. WireOK' /\ LoadsOK'
    BY <1>1, <2>1, NoNewLoad
  <2> QED BY <1>1, <1>2, <2>1, <2>2 DEF ChatInv, RunShownIsSelected
<1>3. CASE a # selectedId /\ a = NoAgent
  <2>1. net' = wire /\ activeRun' = NoRun /\ UNCHANGED << loads, opens >>
    BY <1>3 DEF OpenAgent
  <2>2. WireOK' /\ LoadsOK'
    BY <1>1, <2>1, NoNewLoad
  <2> QED BY <1>1, <2>1, <2>2 DEF RunShownIsSelected
<1>4. CASE a # selectedId /\ a # NoAgent
  <2> DEFINE x    == Request("load", "messages", a, opens)
             y    == Request("load", "runs", a, opens)
             load == [no |-> opens, left |-> {"messages", "runs"}, run |-> NoRun]
  <2>1. /\ activeRun' = NoRun /\ opens' = opens + 1
        /\ loads' = loads \cup {load} /\ net' = wire \o << x, y >>
    BY <1>4 DEF OpenAgent
  <2>2. \A z \in {x, y} : /\ DOMAIN z = Fields /\ z.by = "load" /\ z.of = a /\ z.n = opens
                          /\ z.kind \in {"messages", "runs"} /\ z.at = "asked"
    BY RequestFields
  <2>3. DOMAIN load = {"no", "left", "run"} /\ load.no = opens /\ load.run = NoRun
    OBVIOUS
  <2> HIDE DEF x, y, load
  <2>4. /\ net' \in Seq(ToSet(net) \cup {x, y})
    BY <2>1, TwoMoreIn
  <2>5. net' \in Seq(ToSet(net')) /\ ToSet(net') \subseteq ToSet(net) \cup {x, y}
    BY <2>4, ElementsIn
  <2>6. \A z \in ToSet(net) : MessageOK(z) /\ MessageOK(z)'
    BY <1>1, <2>1 DEF MessageOK, ChatInv, WireOK
  <2>7. \A z \in {x, y} : MessageOK(z)'
    BY <1>1, <2>1, <2>2 DEF MessageOK
  <2>8. \A z \in ToSet(net) : z.by = "load" => z.n # opens
    BY <1>1, <2>6 DEF MessageOK
  <2>9. \A v, z \in ToSet(net') : v.by = "load" /\ z.by = "load" /\ v.n = z.n => v.of = z.of
    BY <2>2, <2>5, <2>8 DEF ChatInv, WireOK
  <2>10. WireOK'
    BY <2>5, <2>6, <2>7, <2>9 DEF WireOK
  <2>11. ASSUME NEW l \in loads' PROVE LoadOK(l)'
    <3>1. CASE l = load
      BY <1>1, <2>1, <2>3, <3>1 DEF LoadOK
    <3>2. CASE l \in loads
      <4>1. LoadOK(l)
        BY <1>1, <3>2
      <4>2. l.no # opens /\ l.no < opens + 1
        BY <1>1, <4>1 DEF LoadOK
      <4>3. \A z \in ToSet(net') : z.by = "load" /\ z.n = l.no => l.run = NoRun \/ l.run.of = z.of
        BY <2>2, <2>5, <4>1, <4>2 DEF LoadOK
      <4> QED BY <2>1, <4>1, <4>2, <4>3 DEF LoadOK
    <3> QED BY <2>1, <3>1, <3>2
  <2> QED BY <1>1, <2>1, <2>10, <2>11 DEF LoadsOK, RunShownIsSelected
<1> QED BY <1>2, <1>3, <1>4

LEMMA TheSameAgent ==
  ASSUME ChatInv, selectedId' = selectedId, opens' = opens,
         activeRun' = activeRun \/ activeRun' = NoRun \/ activeRun'.of = selectedId
  PROVE  selectedId' \in Chats \cup {NoAgent} /\ opens' \in Nat /\ RunShownIsSelected'
BY DEF ChatInv, RunShownIsSelected

\* The last run of an agent is one of its own.
LEMMA LastKept ==
  ASSUME LastOK, NEW a, NEW r, last' = [last EXCEPT ![a] = r],
         a \in Chats => DOMAIN r = {"of", "n", "ended"} /\ r.of = a
  PROVE  LastOK'
BY DEF LastOK

LEMMA RunFields ==
  ASSUME NEW a, NEW n, NEW over
  PROVE  LET r == RunOf(a, n, over)
         IN  DOMAIN r = {"of", "n", "ended"} /\ r.of = a
BY DEF RunOf

LEMMA EndedFields ==
  ASSUME LastOK, NEW a \in Chats
  PROVE  LET r == [last[a] EXCEPT !.ended = TRUE]
         IN  DOMAIN r = {"of", "n", "ended"} /\ r.of = a
<1> DEFINE old == last[a]
<1>1. DOMAIN old = {"of", "n", "ended"} /\ old.of = a
  BY DEF LastOK
<1> HIDE DEF old
<1>2. DOMAIN [old EXCEPT !.ended = TRUE] = {"of", "n", "ended"}
      /\ [old EXCEPT !.ended = TRUE].of = a
  BY <1>1
<1> QED BY <1>2 DEF old

\* Answers: what is filled in is not whom the request is about.
Same(x, y) == /\ DOMAIN y = Fields
              /\ y.by = x.by /\ y.kind = x.kind /\ y.of = x.of /\ y.n = x.n

LEMMA AnswerFields ==
  ASSUME NEW x, DOMAIN x = Fields, NEW length, NEW run, NEW agents, NEW at
  PROVE  /\ Same(x, [x EXCEPT !.at = at]) /\ [x EXCEPT !.at = at].at = at
         /\ Same(x, [[x EXCEPT !.agents = agents] EXCEPT !.at = at])
         /\ LET y == [[x EXCEPT !.length = length, !.run = run] EXCEPT !.at = at]
            IN  Same(x, y) /\ y.run = run
         /\ LET y == [[x EXCEPT !.run = run, !.length = length] EXCEPT !.at = at]
            IN  Same(x, y) /\ y.run = run
BY DEF Same, Fields

LEMMA RunEndsKeeps ==
  ASSUME ChatInv, NEW a \in Chats, RunEnds(a)
  PROVE  ChatInv'
<1> DEFINE r == [last[a] EXCEPT !.ended = TRUE]
<1>1. DOMAIN r = {"of", "n", "ended"} /\ r.of = a
  BY EndedFields DEF ChatInv
<1>2. last' = [last EXCEPT ![a] = r] /\ UNCHANGED << net, chatPage, loads, opens >>
  BY DEF RunEnds
<1> HIDE DEF r
<1>3. LastOK'
  BY <1>1, <1>2, LastKept DEF ChatInv
<1> QED BY <1>2, <1>3 DEF ChatInv, WireOK, MessageOK, LoadsOK, LoadOK, RunShownIsSelected, chatPage

LEMMA Unanswered ==
  ASSUME ChatInv, NEW i \in DOMAIN net
  PROVE  /\ net \in Seq(ToSet(net)) /\ net[i] \in ToSet(net)
         /\ MessageOK(net[i]) /\ DOMAIN net[i] = Fields
BY DEF ChatInv, WireOK, MessageOK, ToSet

LEMMA RefuseKeeps ==
  ASSUME ChatInv, NEW i \in DOMAIN net, Refuse(i), opens' = opens, loads' = loads
  PROVE  WireOK' /\ LoadsOK'
<1> DEFINE x == net[i]
           y == [x EXCEPT !.at = "refused"]
<1>1. Same(x, y) /\ y.at = "refused"
  BY Unanswered, AnswerFields
<1>2. net' = [net EXCEPT ![i] = y]
  BY DEF Refuse
<1> HIDE DEF y
<1> QED BY <1>1, <1>2, AnswerKeeps DEF Same

LEMMA TellKeeps ==
  ASSUME ChatInv, NEW i \in DOMAIN net, Tell(i)
  PROVE  ChatInv'
<1> DEFINE x == net[i]
           a == x.of
           y == [[x EXCEPT !.agents = state] EXCEPT !.at = "answered"]
           z == [[x EXCEPT !.length = said[a], !.run = last[a]] EXCEPT !.at = "answered"]
<1>0. DOMAIN x = Fields
  BY Unanswered
<1>1. Same(x, y) /\ Same(x, z) /\ z.run = last[a]
  <2> HIDE DEF x, a
  <2> QED BY <1>0 DEF Same, Fields
<1>2. \/ Refuse(i)
      \/ x.kind = "agents" /\ net' = [net EXCEPT ![i] = y]
      \/ a \in Chats /\ net' = [net EXCEPT ![i] = z]
  BY DEF Tell, Reply, There
<1>3. UNCHANGED << last, opens, loads, selectedId, activeRun >>
  BY DEF Tell, chatServer, ChatClient, chatPage
<1> HIDE DEF y, z
<1>4. WireOK' /\ LoadsOK'
  <2>1. CASE Refuse(i)
    BY <1>3, <2>1, RefuseKeeps
  <2>2. CASE x.kind = "agents" /\ net' = [net EXCEPT ![i] = y]
    BY <1>1, <1>3, <2>2, AnswerKeeps DEF Same
  <2>3. CASE a \in Chats /\ net' = [net EXCEPT ![i] = z]
    <3>1. z.run.of = z.of
      BY <1>1, <2>3 DEF ChatInv, LastOK, Same
    <3> QED BY <1>1, <1>3, <2>3, <3>1, AnswerKeeps DEF Same
  <2> QED BY <1>2, <2>1, <2>2, <2>3
<1> QED BY <1>3, <1>4 DEF ChatInv, LastOK, RunShownIsSelected

LEMMA AcceptKeeps ==
  ASSUME ChatInv, NEW i \in DOMAIN net, Accept(i)
  PROVE  ChatInv'
<1> DEFINE x == net[i]
           a == x.of
           r == RunOf(a, last[a].n + 1, FALSE)
<1>1. UNCHANGED << opens, loads, selectedId, activeRun >> /\ a \in Chats
  BY Unanswered DEF Accept, ChatClient, chatPage, MessageOK
<1>2. DOMAIN r = {"of", "n", "ended"} /\ r.of = a
  BY RunFields
<1>3. CASE state[a] = "ready"
  <2>1. last' = [last EXCEPT ![a] = r] /\ last'[a] = r
    BY <1>1, <1>3 DEF Accept, ChatInv, LastOK
  <2>2. LastOK'
    BY <1>1, <1>2, <2>1, LastKept DEF ChatInv
  <2> DEFINE l == said'[a]
             y == [[x EXCEPT !.run = last'[a], !.length = l] EXCEPT !.at = "answered"]
  <2>3. net' = [net EXCEPT ![i] = y]
    BY <1>3 DEF Accept, Reply
  <2>4. Same(x, y) /\ y.run = r
    <3>1. DOMAIN x = Fields
      BY Unanswered
    <3> HIDE DEF x, l, r
    <3> QED BY <3>1, <2>1 DEF Same, Fields
  <2> HIDE DEF y, r
  <2>5. WireOK' /\ LoadsOK'
    BY <1>1, <1>2, <2>3, <2>4, AnswerKeeps DEF Same
  <2> QED BY <1>1, <2>2, <2>5, TheSameAgent DEF ChatInv
<1>4. CASE state[a] # "ready"
  <2>1. Refuse(i) /\ last' = last
    BY <1>4 DEF Accept, chatServer
  <2>2. WireOK' /\ LoadsOK'
    BY <1>1, <2>1, RefuseKeeps
  <2> QED BY <1>1, <2>1, <2>2, TheSameAgent DEF ChatInv, LastOK
<1> QED BY <1>3, <1>4

LEMMA PerformKeeps ==
  ASSUME ChatInv, NEW i \in DOMAIN net, Perform(i)
  PROVE  ChatInv'
<1> DEFINE x == net[i]
           a == x.of
           y == [x EXCEPT !.at = "answered"]
<1>1. UNCHANGED << opens, loads, selectedId, activeRun >>
  BY DEF Perform, ChatClient, chatPage
<1>2. Same(x, y)
  BY Unanswered, AnswerFields
<1>3. \/ Refuse(i) /\ last' = last
      \/ net' = [net EXCEPT ![i] = y]
         /\ last' = [last EXCEPT ![a] = CASE x.kind = "stop" -> [@ EXCEPT !.ended = TRUE]
                                          [] x.kind = "delete" -> RunOf(a, 0, TRUE)
                                          [] OTHER -> @]
  BY DEF Perform, Reply, chatServer
<1> HIDE DEF y
<1>4. WireOK' /\ LoadsOK'
  <2>1. x.kind \notin {"message", "runs"}
    BY DEF Perform
  <2> QED BY <1>1, <1>2, <1>3, <2>1, RefuseKeeps, AnswerKeeps DEF Same
<1>5. LastOK'
  <2>1. CASE last' = last
    BY <2>1 DEF ChatInv, LastOK
  <2>2. CASE last' # last
    <3> DEFINE r == CASE x.kind = "stop" -> [last[a] EXCEPT !.ended = TRUE]
                      [] x.kind = "delete" -> RunOf(a, 0, TRUE)
                      [] OTHER -> last[a]
    <3>1. last' = [last EXCEPT ![a] = r]
      BY <1>3, <2>2, Zenon
    <3>2. \/ r = [last[a] EXCEPT !.ended = TRUE] \/ r = RunOf(a, 0, TRUE) \/ r = last[a]
      <4> HIDE DEF x, a
      <4> QED OBVIOUS
    <3> HIDE DEF r
    <3>3. a \in Chats => DOMAIN r = {"of", "n", "ended"} /\ r.of = a
      <4>1. a \in Chats => DOMAIN last[a] = {"of", "n", "ended"} /\ last[a].of = a
        BY DEF ChatInv, LastOK
      <4>2. a \in Chats => LET e == [last[a] EXCEPT !.ended = TRUE]
                           IN  DOMAIN e = {"of", "n", "ended"} /\ e.of = a
        BY EndedFields DEF ChatInv
      <4>3. LET e == RunOf(a, 0, TRUE)
            IN  DOMAIN e = {"of", "n", "ended"} /\ e.of = a
        BY RunFields
      <4> HIDE DEF a
      <4> QED BY <3>2, <4>1, <4>2, <4>3
    <3> QED BY <3>1, <3>3, LastKept DEF ChatInv
  <2> QED BY <2>1, <2>2
<1> QED BY <1>1, <1>4, <1>5, TheSameAgent DEF ChatInv

-----------------------------------------------------------------------------
\* A handler that asks for something: what it takes off the wire and puts on it.
Asks(N) == /\ net' \in Seq(ToSet(net) \cup N)
           /\ \A y \in N : MessageOK(y) /\ OnTheWire(y)

LEMMA ClientKeeps ==
  ASSUME ChatInv, NEW N, Asks(N), loads' \subseteq loads,
         UNCHANGED << last, opens, selectedId >>,
         activeRun' = activeRun \/ activeRun' = NoRun \/ activeRun'.of = selectedId
  PROVE  ChatInv'
<1>1. \A l \in loads' : LoadOK(l)
  BY DEF ChatInv, LoadsOK
<1>2. WireOK' /\ LoadsOK'
  BY <1>1, NoNewLoad DEF Asks
<1> QED BY <1>2, TheSameAgent DEF ChatInv, LastOK

LEMMA AppendAsks ==
  ASSUME NEW w \in Seq(ToSet(net)), NEW y, MessageOK(y), OnTheWire(y), net' = Append(w, y)
  PROVE  Asks({y})
BY AppendIn DEF Asks

LEMMA TakeAsks ==
  ASSUME NEW w \in Seq(ToSet(net)), net' = w
  PROVE  Asks({})
<1> DEFINE N == {}
<1>1. net' \in Seq(ToSet(net) \cup N) /\ \A y \in N : MessageOK(y) /\ OnTheWire(y)
  OBVIOUS
<1> QED BY <1>1 DEF Asks

LEMMA Without ==
  ASSUME ChatInv, NEW i \in DOMAIN net
  PROVE  RemoveAt(net, i) \in Seq(ToSet(net))
BY RemoveIn DEF ChatInv, WireOK

LEMMA AskRunKeeps ==
  ASSUME ChatInv, NEW p \in polls, AskRun(p)
  PROVE  ChatInv'
<1> DEFINE y == Request("poll", "run", p.of, p.n)
<1>1. MessageOK(y) /\ OnTheWire(y)
  BY RequestOK
<1>2. /\ net' = Append(net, y)
      /\ UNCHANGED << last, opens, loads, selectedId, activeRun >>
  BY DEF AskRun, chatServer, chatPage
<1> HIDE DEF y
<1> QED BY <1>1, <1>2, AppendAsks, ClientKeeps DEF ChatInv, WireOK

LEMMA SendKeeps ==
  ASSUME ChatInv, Send
  PROVE  ChatInv'
<1> DEFINE y == Request("send", "message", selectedId, 0)
<1>0. selectedId \in Chats
  BY DEF Send, Composer, ChatInv
<1>1. MessageOK(y) /\ OnTheWire(y)
  BY <1>0, RequestOK
<1>2. /\ net' = Append(net, y)
      /\ UNCHANGED << last, opens, loads, selectedId, activeRun >>
  BY DEF Send, chatServer, chatPage
<1> HIDE DEF y
<1> QED BY <1>1, <1>2, AppendAsks, ClientKeeps DEF ChatInv, WireOK

LEMMA OperateKeeps ==
  ASSUME ChatInv, NEW a \in Chats, NEW what \in {"create", "start", "stop", "delete"},
         Operate(what, a)
  PROVE  ChatInv'
<1> DEFINE y == Request("op", what, a, 0)
<1>1. MessageOK(y) /\ OnTheWire(y)
  BY RequestOK
<1>2. /\ net' = Append(net, y)
      /\ UNCHANGED << last, opens, loads, selectedId, activeRun >>
  BY DEF Operate, chatServer, chatPage
<1> HIDE DEF y
<1> QED BY <1>1, <1>2, AppendAsks, ClientKeeps DEF ChatInv, WireOK

LEMMA PerformedKeeps ==
  ASSUME ChatInv, NEW i \in DOMAIN net, Performed(i)
  PROVE  ChatInv'
<1> DEFINE a == IF net[i].kind = "create" THEN net[i].of ELSE NoAgent
           y == Request("op", "agents", a, 0)
<1>1. a \in Chats \cup {NoAgent}
  BY Unanswered DEF Performed, MessageOK
<1>2. MessageOK(y) /\ OnTheWire(y)
  <2> HIDE DEF a
  <2> QED BY <1>1, RequestOK
<1>3. /\ net' = Append(RemoveAt(net, i), y)
      /\ UNCHANGED << last, opens, loads, selectedId, activeRun >>
  BY DEF Performed, chatServer, ChatClient, chatPage
<1> HIDE DEF y
<1> QED BY <1>2, <1>3, AppendAsks, ClientKeeps, Without

LEMMA FailedKeeps ==
  ASSUME ChatInv, NEW i \in DOMAIN net, Failed(i)
  PROVE  ChatInv'
<1> DEFINE y == ListAgents("send")
<1>1. MessageOK(y) /\ OnTheWire(y)
  BY RequestOK DEF ListAgents
<1>2. /\ net' = Append(RemoveAt(net, i), y) \/ net' = RemoveAt(net, i)
      /\ activeRun' = activeRun \/ activeRun' = NoRun
      /\ loads' \subseteq loads
      /\ UNCHANGED << last, opens, selectedId >>
  BY DEF Failed, chatServer
<1> HIDE DEF y
<1>3. Asks({y}) \/ Asks({})
  BY <1>1, <1>2, AppendAsks, TakeAsks, Without
<1> QED BY <1>2, <1>3, ClientKeeps

\* The run that arrives is shown if its agent is open.
LEMMA RunArrivesKeeps ==
  ASSUME ChatInv, NEW i \in DOMAIN net, NEW p \in polls, RunArrives(i, p)
  PROVE  ChatInv'
<1> DEFINE x == Request("poll", "messages", p.of, p.n)
           y == Request("poll", "agents", p.of, p.n)
           w == RemoveAt(net, i)
           r == RunOf(p.of, p.n, net[i].run.ended)
<1>1. MessageOK(x) /\ OnTheWire(x) /\ MessageOK(y) /\ OnTheWire(y)
  BY RequestOK
<1>2. r.of = p.of
  BY DEF RunOf
<1>3. /\ net' = w \/ net' = w \o << x, y >>
      /\ activeRun' = IF selectedId = p.of THEN r ELSE activeRun
      /\ UNCHANGED << last, opens, selectedId, loads >>
  BY DEF RunArrives, chatServer
<1>4. w \in Seq(ToSet(net))
  BY Without
<1> HIDE DEF x, y, w, r
<1>5. CASE net' = w
  <2>1. Asks({})
    BY <1>4, <1>5, TakeAsks
  <2> QED BY <1>2, <1>3, <2>1, ClientKeeps
<1>6. CASE net' = w \o << x, y >>
  <2>1. Asks({x, y})
    BY <1>1, <1>4, <1>6, TwoMoreIn DEF Asks
  <2> QED BY <1>2, <1>3, <2>1, ClientKeeps
<1> QED BY <1>3, <1>5, <1>6

\* So is the run of a message that was accepted.
LEMMA AcceptedKeeps ==
  ASSUME ChatInv, NEW i \in DOMAIN net, Accepted(i)
  PROVE  ChatInv'
<1>1. /\ net' = RemoveAt(net, i)
      /\ activeRun' = IF selectedId = net[i].of THEN net[i].run ELSE activeRun
      /\ UNCHANGED << last, opens, selectedId, loads >>
  BY DEF Accepted, chatServer
<1>2. net[i].run.of = net[i].of
  BY Unanswered DEF Accepted, Answered, MessageOK
<1> QED BY <1>1, <1>2, Without, TakeAsks, ClientKeeps

LEMMA ClickKeeps ==
  ASSUME ChatInv, NEW a \in Chats, Click(a)
  PROVE  ChatInv'
<1>1. OpenAgent(a, net) /\ last' = last /\ net \in Seq(ToSet(net))
  BY DEF Click, chatServer, ChatInv, WireOK
<1> QED BY <1>1, OpenKeeps DEF ChatInv, LastOK

LEMMA AgentsArriveKeeps ==
  ASSUME ChatInv, NEW i \in DOMAIN net, AgentsArrive(i)
  PROVE  ChatInv'
<1> DEFINE w == RemoveAt(net, i)
<1>1. w \in Seq(ToSet(net)) /\ last' = last
  BY Without DEF AgentsArrive, chatServer
<1>2. \E a \in Chats \cup {NoAgent} : OpenAgent(a, w)
  <2>1. net[i].by = "op" => net[i].of \in Chats \cup {NoAgent}
    BY Unanswered DEF MessageOK
  <2>2. selectedId \in Chats \cup {NoAgent} /\ There(net[i].agents) \subseteq Chats
    BY DEF ChatInv, There
  <2>3. \/ net[i].by = "op" /\ OpenAgent(net[i].of, w)
        \/ OpenAgent(selectedId, w) \/ OpenAgent(NoAgent, w)
        \/ \E a \in There(net[i].agents) : OpenAgent(a, w)
    BY DEF AgentsArrive
  <2> HIDE DEF w
  <2> QED BY <2>1, <2>2, <2>3
<1> HIDE DEF w
<1> QED BY <1>1, <1>2, OpenKeeps DEF ChatInv, LastOK

\* What arrives for a load completes it: its run is of the agent it is about.
LEMMA LoadArrivesKeeps ==
  ASSUME ChatInv, NEW i \in DOMAIN net, NEW l \in loads,
         Answered(i), net[i].kind \in {"messages", "runs"}, net[i].by = "load",
         l.no = net[i].n, LoadArrives(i, l)
  PROVE  /\ \A k \in loads' : LoadOK(k)
         /\ activeRun' = activeRun \/ activeRun' = NoRun \/ activeRun'.of = selectedId
<1> DEFINE x == net[i]
           r == IF x.kind = "runs" THEN x.run ELSE l.run
           left == l.left \ {x.kind}
           k == [l EXCEPT !.left = left, !.run = r]
<1>1. LoadOK(l) /\ x \in ToSet(net) /\ MessageOK(x) /\ x.at = "answered"
  BY Unanswered DEF ChatInv, LoadsOK, Answered
<1>2. r = NoRun \/ r.of = x.of
  BY <1>1 DEF LoadOK, MessageOK
<1>3. /\ loads' \subseteq loads \cup {k}
      /\ \/ activeRun' = activeRun \/ activeRun' = NoRun
         \/ selectedId = x.of /\ activeRun' = k.run
  BY DEF LoadArrives, Loaded
<1>4. DOMAIN k = {"no", "left", "run"} /\ k.no = l.no /\ k.run = r
  <2> HIDE DEF r, left
  <2> QED BY <1>1 DEF LoadOK
<1> HIDE DEF k, r
<1>5. \A y \in ToSet(net) : y.by = "load" /\ y.n = l.no => r = NoRun \/ r.of = y.of
  BY <1>1, <1>2 DEF ChatInv, WireOK
<1>6. LoadOK(k)
  BY <1>1, <1>4, <1>5 DEF LoadOK
<1> QED BY <1>2, <1>3, <1>4, <1>6 DEF ChatInv, LoadsOK

LEMMA MessagesArriveKeeps ==
  ASSUME ChatInv, NEW i \in DOMAIN net, MessagesArrive(i)
  PROVE  ChatInv'
<1>1. /\ Answered(i) /\ net[i].kind \in {"messages", "runs"} /\ net' = RemoveAt(net, i)
      /\ UNCHANGED << last, selectedId, opens >>
  BY DEF MessagesArrive, chatServer
<1>2. Asks({})
  BY <1>1, Without, TakeAsks
<1>3. CASE UNCHANGED << loads, activeRun >>
  BY <1>1, <1>2, <1>3, ClientKeeps
<1>4. CASE ~UNCHANGED << loads, activeRun >>
  <2>1. PICK l \in loads : net[i].by # "poll" /\ l.no = net[i].n /\ LoadArrives(i, l)
    BY <1>4 DEF MessagesArrive
  <2>2. net[i].by = "load"
    BY <1>1, <2>1, Unanswered DEF MessageOK
  <2>3. /\ \A k \in loads' : LoadOK(k)
        /\ activeRun' = activeRun \/ activeRun' = NoRun \/ activeRun'.of = selectedId
    BY <1>1, <2>1, <2>2, LoadArrivesKeeps
  <2> DEFINE N == {}
  <2>4. Asks(N)
    BY <1>2
  <2> HIDE DEF N
  <2>5. WireOK' /\ LoadsOK'
    BY <1>1, <2>3, <2>4, NoNewLoad DEF Asks
  <2> QED BY <1>1, <2>3, <2>5, TheSameAgent DEF ChatInv, LastOK
<1> QED BY <1>3, <1>4

LEMMA ChatStarts == ChatInit => ChatInv
<1> SUFFICES ASSUME ChatInit PROVE ChatInv
  OBVIOUS
<1> DEFINE y == ListAgents("page")
<1>1. net = << y >> /\ opens = 0 /\ loads = {} /\ selectedId = NoAgent /\ activeRun = NoRun
  BY DEF ChatInit
<1>2. MessageOK(y) /\ y.by = "page"
  BY RequestOK, RequestFields DEF ListAgents
<1> HIDE DEF y
<1>3. net \in Seq({y})
  BY <1>1
<1>4. net \in Seq(ToSet(net)) /\ ToSet(net) \subseteq {y}
  BY <1>3, ElementsIn
<1>5. WireOK
  BY <1>2, <1>4 DEF WireOK
<1>6. LastOK
  BY RunFields DEF ChatInit, LastOK
<1> QED BY <1>1, <1>5, <1>6 DEF ChatInv, LoadsOK, RunShownIsSelected

LEMMA ChatSteps ==
  ChatInv /\ [ChatNext]_chatVars => ChatInv'
<1> SUFFICES ASSUME ChatInv, [ChatNext]_chatVars PROVE ChatInv'
  OBVIOUS
<1>1. CASE UNCHANGED chatVars
  BY <1>1 DEF chatVars, chatServer, chatPage, ChatInv, WireOK, MessageOK, LoadsOK, LoadOK,
     LastOK, RunShownIsSelected
<1>2. ASSUME NEW i \in DOMAIN net, Arrival(i) PROVE ChatInv'
  <2>1. CASE Refused(i)
    BY <2>1, FailedKeeps DEF Refused
  <2>2. CASE ~Refused(i)
    BY <1>2, <2>2, TellKeeps, AcceptKeeps, PerformKeeps, MessagesArriveKeeps, AgentsArriveKeeps,
       AcceptedKeeps, PerformedKeeps, RunArrivesKeeps DEF Arrival
  <2> QED BY <2>1, <2>2
<1>3. ASSUME NEW i \in DOMAIN net, LoseRequest(i) PROVE ChatInv'
  BY <1>3, FailedKeeps DEF LoseRequest
<1>4. CASE ChatNext
  BY <1>2, <1>3, <1>4, ClickKeeps, RunEndsKeeps, OperateKeeps, SendKeeps, AskRunKeeps
     DEF ChatNext, System
<1> QED BY <1>1, <1>4

(***************************************************************************)
(* The run on the page is one of the agent that is open, whatever arrives  *)
(* after another agent was opened, in whatever order (selectedIdRef of     *)
(* useAgents.ts): for any number of agents and requests under way.         *)
(***************************************************************************)
THEOREM TheRunShown == ChatSpec => []RunShownIsSelected
<1>1. ChatInv => RunShownIsSelected
  BY DEF ChatInv
<1> QED BY <1>1, ChatStarts, ChatSteps, PTL DEF ChatSpec

-----------------------------------------------------------------------------
(***************************************************************************)
(* The activity feed                                                       *)
(*                                                                         *)
(* What the page shows comes from the wire of its stream and from the      *)
(* answers under way to it. FeedInv says of the wire that it carries       *)
(* events of the agents of whoever is signed in, and of an answer that it  *)
(* holds events of the agents of whoever asked. Signing in empties the     *)
(* wire and the page and leaves the answers, which is why a row of others  *)
(* can come from those alone.                                              *)
(***************************************************************************)

\* A set without one of its members is smaller by one, and so are its parts.
LEMMA Smaller ==
  ASSUME NEW S, IsFiniteSet(S), NEW x \in S, NEW T \in SUBSET (S \ {x})
  PROVE  /\ IsFiniteSet(T)
         /\ Cardinality(S) \in Nat /\ Cardinality(T) \in Nat
         /\ Cardinality(T) <= Cardinality(S) - 1
<1>1. IsFiniteSet(S \ {x}) /\ Cardinality(S \ {x}) = Cardinality(S) - 1
  BY FS_RemoveElement
<1>2. IsFiniteSet(T) /\ Cardinality(T) <= Cardinality(S \ {x})
  BY <1>1, FS_Subset
<1>3. Cardinality(S) \in Nat /\ Cardinality(T) \in Nat
  BY <1>2, FS_CardinalityType
<1> QED BY <1>1, <1>2, <1>3

\* The members of a finite set, in a total order, have 0, 1, 2, ... before them.
Orders(before, P) ==
  /\ \A i \in P : << i, i >> \notin before
  /\ \A i, j \in P : i # j => << i, j >> \in before \/ << j, i >> \in before
  /\ \A i, j, k \in P : << i, j >> \in before /\ << j, k >> \in before => << i, k >> \in before

Before(before, P, i) == {j \in P : << j, i >> \in before}

LEMMA RankReaches ==
  ASSUME NEW P, IsFiniteSet(P), NEW before, Orders(before, P)
  PROVE  /\ Cardinality(P) \in Nat
         /\ \A k \in 1 .. Cardinality(P) :
              \E i \in P : Cardinality(Before(before, P, i)) = k - 1
<1> DEFINE D(i) == {j \in P : << j, i >> \in before}
           c == Cardinality(P)
           rank == [i \in P |-> Cardinality(D(i))]
<1>1. c \in Nat
  BY FS_CardinalityType
<1>2. ASSUME NEW i \in P
      PROVE  IsFiniteSet(D(i)) /\ Cardinality(D(i)) \in 0 .. c - 1
  <2>1. D(i) \in SUBSET (P \ {i})
    BY DEF Orders
  <2> HIDE DEF D
  <2>2. IsFiniteSet(D(i)) /\ Cardinality(D(i)) \in Nat /\ Cardinality(D(i)) <= c - 1
    BY <2>1, Smaller
  <2> QED BY <1>1, <2>2
<1>3. ASSUME NEW i \in P, NEW k \in P, << i, k >> \in before
      PROVE  Cardinality(D(i)) < Cardinality(D(k))
  <2>1. i \in D(k) /\ D(i) \in SUBSET (D(k) \ {i})
    BY <1>3 DEF Orders
  <2>2. IsFiniteSet(D(k))
    BY <1>2
  <2> HIDE DEF D
  <2>3. /\ Cardinality(D(i)) \in Nat /\ Cardinality(D(k)) \in Nat
        /\ Cardinality(D(i)) <= Cardinality(D(k)) - 1
    BY <2>1, <2>2, Smaller
  <2> QED BY <2>3
<1>4. rank \in Injection(P, 0 .. c - 1)
  <2>1. rank \in [P -> 0 .. c - 1]
    <3> HIDE DEF D, c
    <3> QED BY <1>2
  <2>2. ASSUME NEW i \in P, NEW k \in P, i # k PROVE rank[i] # rank[k]
    <3>1. Cardinality(D(i)) < Cardinality(D(k)) \/ Cardinality(D(k)) < Cardinality(D(i))
      <4>1. << i, k >> \in before \/ << k, i >> \in before
        BY <2>2 DEF Orders
      <4> HIDE DEF D
      <4> QED BY <1>3, <4>1
    <3>2. Cardinality(D(i)) \in Int /\ Cardinality(D(k)) \in Int
      <4> HIDE DEF D, c
      <4> QED BY <1>2
    <3>3. rank[i] = Cardinality(D(i)) /\ rank[k] = Cardinality(D(k))
      <4> HIDE DEF D
      <4> QED OBVIOUS
    <3> HIDE DEF rank, D
    <3> QED BY <3>1, <3>2, <3>3
  <2> HIDE DEF rank, c
  <2> QED BY <2>1, <2>2 DEF Injection, IsInjective
<1>5. rank \in Surjection(P, 0 .. c - 1)
  <2>1. IsFiniteSet(0 .. c - 1) /\ Cardinality(0 .. c - 1) = c
    <3> HIDE DEF c
    <3>1. 0 \in Int /\ c - 1 \in Int
      BY <1>1
    <3>2. /\ IsFiniteSet(0 .. c - 1)
          /\ Cardinality(0 .. c - 1) = IF 0 > c - 1 THEN 0 ELSE (c - 1) - 0 + 1
      BY <3>1, FS_Interval
    <3> QED BY <1>1, <3>2
  <2> HIDE DEF rank
  <2> QED BY <1>4, <2>1, FS_Injection
<1>6. ASSUME NEW k \in 1 .. c PROVE \E i \in P : Cardinality(D(i)) = k - 1
  <2>1. k - 1 \in 0 .. c - 1
    <3> HIDE DEF c
    <3> QED BY <1>1
  <2>2. PICK i \in P : rank[i] = k - 1
    <3> HIDE DEF rank, c
    <3> QED BY <1>5, <2>1 DEF Surjection
  <2>3. rank[i] = Cardinality(D(i))
    <3> HIDE DEF D
    <3> QED OBVIOUS
  <2> HIDE DEF rank, D
  <2> QED BY <2>2, <2>3
<1>7. \A i \in P : D(i) = Before(before, P, i)
  BY DEF Before
<1> HIDE DEF D
<1> QED BY <1>1, <1>6, <1>7

\* What is picked was in one of the places.
LEMMA PickedFrom ==
  ASSUME NEW S, NEW s \in Seq(S), NEW places \in SUBSET DOMAIN s
  PROVE  Picked(s, places) \in Seq({s[i] : i \in places})
<1> DEFINE before == {x \in places \X places : x[1] < x[2]}
           D(i) == {j \in places : j < i}
           c == Cardinality(places)
           T == {s[i] : i \in places}
<1>1. Len(s) \in Nat /\ places \in SUBSET (1 .. Len(s))
  BY LenProperties
<1>2. \A i, j \in places : << i, j >> \in before <=> i < j
  OBVIOUS
<1>3. /\ c \in Nat
      /\ \A k \in 1 .. c : \E i \in places :
           Cardinality(Before(before, places, i)) = k - 1
  <2>1. IsFiniteSet(places)
    BY <1>1, FS_Interval, FS_Subset
  <2>2. \A i \in places : i \in Nat
    BY <1>1
  <2> HIDE DEF before
  <2>3. Orders(before, places)
    BY <1>2, <2>2 DEF Orders
  <2> QED BY <2>1, <2>3, RankReaches
<1>4. ASSUME NEW k \in 1 .. c
      PROVE  s[CHOOSE i \in places : Cardinality(D(i)) = k - 1] \in T
  <2>1. PICK i \in places : Cardinality(Before(before, places, i)) = k - 1
    BY <1>3
  <2>2. Before(before, places, i) = D(i)
    BY <1>2 DEF Before
  <2>3. \E x \in places : Cardinality(D(x)) = k - 1
    BY <2>1, <2>2
  <2>4. (CHOOSE x \in places : Cardinality(D(x)) = k - 1) \in places
    BY <2>3
  <2> HIDE DEF D
  <2> QED BY <2>4
<1>5. Picked(s, places) = [k \in 1 .. c |-> s[CHOOSE i \in places : Cardinality(D(i)) = k - 1]]
  BY DEF Picked
<1> HIDE DEF D, T, c
<1>6. Picked(s, places) \in [1 .. c -> T]
  BY <1>4, <1>5
<1> QED BY <1>3, <1>6 DEF T

\* Sorting moves rows and makes none.
LEMMA SortedFrom ==
  ASSUME NEW S \in SUBSET FeedEvent, NEW rows \in Seq(S)
  PROVE  Sorted(rows) \in Seq(S)
<1> DEFINE P == DOMAIN rows
           before == {x \in P \X P : Above(rows, x[1], x[2])}
           D(i) == {j \in P : Above(rows, j, i)}
<1>1. Len(rows) \in Nat /\ P = 1 .. Len(rows) /\ \A i \in P : rows[i] \in S /\ rows[i].id \in Nat
  BY LenProperties, ElementOfSeq DEF FeedEvent
<1>2. \A i, j \in P : << i, j >> \in before <=> Above(rows, i, j)
  OBVIOUS
<1>3. Cardinality(P) = Len(rows)
  <2> HIDE DEF P
  <2>1. 1 \in Int /\ Len(rows) \in Int
    BY <1>1
  <2>2. Cardinality(1 .. Len(rows)) = IF 1 > Len(rows) THEN 0 ELSE Len(rows) - 1 + 1
    BY <2>1, FS_Interval
  <2> QED BY <1>1, <2>2
<1>4. \A k \in 1 .. Cardinality(P) : \E i \in P :
        Cardinality(Before(before, P, i)) = k - 1
  <2>1. /\ \A i \in P : ~Above(rows, i, i)
        /\ \A i, j \in P : i # j => Above(rows, i, j) \/ Above(rows, j, i)
        /\ \A i, j, k \in P : Above(rows, i, j) /\ Above(rows, j, k) => Above(rows, i, k)
    BY <1>1 DEF Above
  <2> HIDE DEF before
  <2>3. Orders(before, P)
    BY <1>2, <2>1 DEF Orders
  <2>4. IsFiniteSet(P)
    BY <1>1, 1 \in Int, Len(rows) \in Int, FS_Interval
  <2> HIDE DEF P
  <2> QED BY <2>3, <2>4, RankReaches
<1>5. ASSUME NEW k \in P PROVE rows[CHOOSE i \in P : Cardinality(D(i)) = k - 1] \in S
  <2>1. PICK i \in P : Cardinality(Before(before, P, i)) = k - 1
    BY <1>1, <1>3, <1>4
  <2>2. Before(before, P, i) = D(i)
    BY <1>2 DEF Before
  <2>3. \E x \in P : Cardinality(D(x)) = k - 1
    BY <2>1, <2>2
  <2>4. (CHOOSE x \in P : Cardinality(D(x)) = k - 1) \in P
    BY <2>3
  <2> HIDE DEF D, P
  <2> QED BY <1>1, <2>4
<1>6. Sorted(rows) = [k \in P |-> rows[CHOOSE i \in P : Cardinality(D(i)) = k - 1]]
  BY DEF Sorted
<1> HIDE DEF D
<1>7. Sorted(rows) \in [1 .. Len(rows) -> S]
  BY <1>1, <1>5, <1>6
<1> QED BY <1>1, <1>7


-----------------------------------------------------------------------------
(***************************************************************************)
(* The steps of the feed                                                   *)
(***************************************************************************)

\* The events of somebody's agents.
EventsFor(human) == {e \in FeedEvent : e.agentId \in scopeOf(human)}

FeedInv ==
  /\ planned \in SUBSET Agents
  /\ me \in Humans \cup {Nobody}
  /\ next \in Nat /\ recent \in Seq(FeedEvent)
  /\ stream \in [open : BOOLEAN, wire : Seq(EventsFor(me)), made : Nat]
  /\ \A answer \in boards :
       /\ answer.by \in Humans
       /\ answer.rows \in Seq(EventsFor(answer.by))
  /\ live \in Seq(FeedEvent)

LEMMA EndsOfASequence ==
  ASSUME NEW S, NEW s \in Seq(S), NEW n \in Nat
  PROVE  /\ LastOf(Least(n, Len(s)), s) \in Seq(S)
         /\ FirstOf(Least(n, Len(s)), s) \in Seq(S)
<1>1. Len(s) \in Nat
  BY LenProperties
<1>2. Least(n, Len(s)) \in 0 .. Len(s)
  BY <1>1 DEF Least
<1> DEFINE k == Least(n, Len(s))
<1>3. SubSeq(s, Len(s) - k + 1, Len(s)) \in Seq(S) /\ SubSeq(s, 1, k) \in Seq(S)
  <2> HIDE DEF k
  <2>1. k \in 0 .. Len(s)
    BY <1>2 DEF k
  <2>2. Len(s) - k + 1 \in 1 .. Len(s) + 1
    BY <1>1, <2>1
  <2> QED BY <1>1, <2>1, <2>2, SubSeqProperties
<1> QED BY <1>3 DEF LastOf, FirstOf

\* What the server sends somebody are the events of their agents.
LEMMA HistoryIsOwn ==
  ASSUME recent \in Seq(FeedEvent), NEW limit \in Nat, NEW human
  PROVE  history(limit, human) \in Seq(EventsFor(human))
<1> DEFINE places == {i \in DOMAIN recent : recent[i].agentId \in scopeOf(human)}
           visible == EventsOf(scopeOf(human), recent)
<1>1. recent \in Seq(FeedEvent) /\ \A i \in DOMAIN recent : recent[i] \in FeedEvent
  BY ElementOfSeq
<1>2. visible = Picked(recent, places)
  BY DEF EventsOf
<1>3. visible \in Seq({recent[i] : i \in places})
  <2> HIDE DEF visible
  <2> QED BY <1>1, <1>2, PickedFrom
<1>4. {recent[i] : i \in places} \in SUBSET EventsFor(human)
  BY <1>1 DEF EventsFor
<1>5. visible \in Seq(EventsFor(human))
  <2> HIDE DEF visible, places
  <2> QED BY <1>3, <1>4
<1>6. history(limit, human) = LastOf(Least(limit, Len(visible)), visible)
  BY DEF history
<1> HIDE DEF visible
<1> QED BY <1>5, <1>6, EndsOfASequence

\* Merging brings the rows there were and those of the answer, and no others.
LEMMA MergedFrom ==
  ASSUME FeedAssumption, NEW S \in SUBSET FeedEvent, NEW rows \in Seq(S), NEW answer \in Seq(S)
  PROVE  Merged(rows, answer) \in Seq(S)
<1> DEFINE places == {i \in DOMAIN answer : answer[i] \notin ToSet(rows)}
           all == Sorted(Missed(rows, answer) \o rows)
<1>1. Missed(rows, answer) \in Seq({answer[i] : i \in places})
  BY PickedFrom DEF Missed
<1>2. {answer[i] : i \in places} \in SUBSET S
  BY ElementOfSeq
<1>3. Missed(rows, answer) \in Seq(S)
  <2> HIDE DEF places
  <2> QED BY <1>1, <1>2
<1>4. Missed(rows, answer) \o rows \in Seq(S)
  BY <1>3, ConcatProperties
<1>5. all \in Seq(S)
  BY <1>4, SortedFrom
<1>6. Rows \in Nat
  BY DEF FeedAssumption
<1>7. FirstOf(Least(Rows, Len(all)), all) \in Seq(S)
  <2> HIDE DEF all
  <2> QED BY <1>5, <1>6, EndsOfASequence
<1>8. Merged(rows, answer) = rows \/ Merged(rows, answer) = FirstOf(Least(Rows, Len(all)), all)
  BY DEF Merged
<1> HIDE DEF all
<1> QED BY <1>7, <1>8

\* A sequence is one over any larger set.
LEMMA MoreToChoose ==
  ASSUME NEW S, NEW T, S \subseteq T
  PROVE  Seq(S) \subseteq Seq(T)
OBVIOUS

\* Nobody loses an agent from their view.
LEMMA ScopeGrows ==
  ASSUME planned \subseteq planned', NEW human
  PROVE  /\ scopeOf(human) \subseteq scopeOf(human)'
         /\ EventsFor(human) \subseteq EventsFor(human)'
         /\ Seq(EventsFor(human)) \subseteq Seq(EventsFor(human)')
<1>1. scopeOf(human) \subseteq scopeOf(human)'
  BY DEF scopeOf
<1>2. EventsFor(human) \subseteq EventsFor(human)'
  BY <1>1 DEF EventsFor
<1> DEFINE O == EventsFor(human)'
<1>3. Seq(EventsFor(human)) \subseteq Seq(O)
  <2>1. EventsFor(human) \subseteq O
    BY <1>2
  <2> HIDE DEF O
  <2> QED BY <2>1, MoreToChoose
<1> QED BY <1>1, <1>2, <1>3

LEMMA OwnGrows ==
  ASSUME planned \subseteq planned', me' = me
  PROVE  /\ scopeOf(me) \subseteq scopeOf(me)'
         /\ Seq(EventsFor(me)) \subseteq Seq(EventsFor(me)')
<1> DEFINE O == EventsFor(me)'
<1>1. scopeOf(me) \subseteq scopeOf(me)'
  BY DEF scopeOf
<1>2. EventsFor(me) \subseteq O
  BY <1>1 DEF EventsFor
<1>3. Seq(EventsFor(me)) \subseteq Seq(O)
  <2> HIDE DEF O
  <2> QED BY <1>2, MoreToChoose
<1> QED BY <1>1, <1>3

\* The answers under way stay what they are, as long as none comes.
LEMMA AnswersKeep ==
  ASSUME FeedInv, planned \subseteq planned', boards' \subseteq boards
  PROVE  (\A answer \in boards :
            answer.by \in Humans /\ answer.rows \in Seq(EventsFor(answer.by)))'
<1> SUFFICES ASSUME NEW answer \in boards'
             PROVE  answer.by \in Humans /\ answer.rows \in Seq(EventsFor(answer.by)')
  OBVIOUS
<1>1. answer.by \in Humans /\ answer.rows \in Seq(EventsFor(answer.by))
  BY DEF FeedInv
<1>2. Seq(EventsFor(answer.by)) \subseteq Seq(EventsFor(answer.by)')
  BY ScopeGrows
<1> QED BY <1>1, <1>2

LEMMA PublishKeeps ==
  ASSUME FeedAssumption, FeedInv, NEW a \in Agents, NEW kind \in Kinds, Publish(a, kind)
  PROVE  /\ next' \in Nat /\ recent' \in Seq(FeedEvent)
         /\ stream' \in [open : BOOLEAN, wire : Seq(EventsFor(me)), made : Nat]
<1> DEFINE event == [id |-> next, agentId |-> a, kind |-> kind]
           kept  == Append(recent, event)
           O     == EventsFor(me)
<1>1. next \in Nat /\ recent \in Seq(FeedEvent) /\ RING \in Nat
      /\ stream \in [open : BOOLEAN, wire : Seq(O), made : Nat]
  BY DEF FeedInv, FeedAssumption
<1>2. event \in FeedEvent
  BY <1>1 DEF FeedEvent
<1>3. kept \in Seq(FeedEvent)
  BY <1>1, <1>2, AppendProperties
<1>4. LastOf(Least(RING, Len(kept)), kept) \in Seq(FeedEvent)
  <2> HIDE DEF kept
  <2> QED BY <1>1, <1>3, EndsOfASequence
<1>5. recent' = LastOf(Least(RING, Len(kept)), kept) /\ next' = next + 1
  BY DEF Publish
<1>6. a \in scopeOf(me) => event \in O
  BY <1>2 DEF EventsFor
<1>7. \/ stream' = stream
      \/ a \in scopeOf(me) /\ stream' = [stream EXCEPT !.wire = Append(@, event)]
  BY DEF Publish
<1> HIDE DEF kept, event, O
<1>8. a \in scopeOf(me) => Append(stream.wire, event) \in Seq(O)
  BY <1>1, <1>6, AppendProperties
<1>9. stream' \in [open : BOOLEAN, wire : Seq(O), made : Nat]
  <2> DEFINE Q == Seq(O)
             longer == Append(stream.wire, event)
  <2>1. stream \in [open : BOOLEAN, wire : Q, made : Nat] /\ (a \in scopeOf(me) => longer \in Q)
    BY <1>1, <1>8
  <2>2. stream' = stream \/ (a \in scopeOf(me) /\ stream' = [stream EXCEPT !.wire = longer])
    BY <1>7
  <2> HIDE DEF Q, longer
  <2>3. stream' \in [open : BOOLEAN, wire : Q, made : Nat]
    BY <2>1, <2>2
  <2> QED BY <2>3 DEF Q
<1> QED BY <1>1, <1>4, <1>5, <1>9 DEF O

LEMMA ParsedKind ==
  ASSUME NEW line PROVE parseActivity(line) \in Kinds \cup {"nothing"}
BY DEF parseActivity, Kinds

\* What an agent does leaves the page alone and takes nothing from anybody's view.
LEMMA AgentsKeep ==
  ASSUME FeedAssumption, FeedInv, NEW a \in Agents,
         Plan(a) \/ Watch(a) \/ Inspect(a) \/ Finish(a) \/ Fail(a)
  PROVE  FeedInv' /\ planned \subseteq planned' /\ UNCHANGED << me, boards, live, signIns >>
<1>1. CASE Plan(a)
  <2>1. /\ planned' \in SUBSET Agents /\ planned \subseteq planned'
        /\ UNCHANGED << me, next, recent, stream, boards, live, signIns >>
    BY <1>1 DEF Plan, Quiet, FeedInv
  <2> DEFINE Q == Seq(EventsFor(me))
             R == Seq(EventsFor(me)')
  <2>2. Q \subseteq R
    BY <2>1, OwnGrows
  <2>3. stream \in [open : BOOLEAN, wire : Q, made : Nat]
    BY DEF FeedInv
  <2> HIDE DEF Q, R
  <2>4. stream' \in [open : BOOLEAN, wire : R, made : Nat]
    BY <2>1, <2>2, <2>3
  <2> USE DEF R
  <2> QED BY <2>1, <2>4, AnswersKeep DEF FeedInv
<1>2. CASE Watch(a) \/ Inspect(a) \/ Finish(a) \/ Fail(a)
  <2>1. /\ UNCHANGED << planned, me, boards, live, signIns >>
        /\ \E kind \in Kinds : Publish(a, kind)
    BY <1>2, ParsedKind DEF Watch, Inspect, Finish, Fail, Quiet, Kinds
  <2>2. PICK kind \in Kinds : Publish(a, kind)
    BY <2>1
  <2>3. /\ next' \in Nat /\ recent' \in Seq(FeedEvent)
        /\ stream' \in [open : BOOLEAN, wire : Seq(EventsFor(me)), made : Nat]
    BY <2>2, PublishKeeps
  <2>4. EventsFor(me)' = EventsFor(me)
    BY <2>1 DEF EventsFor, scopeOf
  <2> HIDE DEF EventsFor
  <2> QED BY <2>1, <2>3, <2>4, AnswersKeep DEF FeedInv
<1> QED BY <1>1, <1>2

\* Where a new row of the page comes from.
LEMMA ReceiveBrings ==
  ASSUME FeedAssumption, FeedInv, Receive
  PROVE  /\ live' \in Seq(ToSet(live) \cup EventsFor(me))
         /\ stream' \in [open : BOOLEAN, wire : Seq(EventsFor(me)), made : Nat]
<1> DEFINE O == EventsFor(me)
           S == ToSet(live) \cup O
           all == << Head(stream.wire) >> \o live
<1>1. /\ stream \in [open : BOOLEAN, wire : Seq(O), made : Nat]
      /\ live \in Seq(FeedEvent) /\ Rows \in Nat
  BY DEF FeedInv, FeedAssumption
<1> HIDE DEF O
<1>2. Head(stream.wire) \in O /\ Tail(stream.wire) \in Seq(O)
  BY <1>1, HeadTailProperties DEF Receive
<1>3. live \in Seq(S)
  BY <1>1, ElementsIn, MoreToChoose
<1>4. all \in Seq(S) /\ Len(all) = Len(live) + 1
  BY <1>2, <1>3, ConcatProperties
<1>5. /\ live' = FirstOf(Least(Rows, Len(all)), all)
      /\ stream' = [stream EXCEPT !.wire = Tail(@)]
  <2> HIDE DEF all
  <2> QED BY <1>4 DEF Receive, all
<1> HIDE DEF all, S
<1>6. live' \in Seq(S)
  BY <1>1, <1>4, <1>5, EndsOfASequence
<1> QED BY <1>1, <1>2, <1>5, <1>6 DEF O, S

LEMMA ShowBrings ==
  ASSUME FeedAssumption, FeedInv, Show
  PROVE  \E answer \in boards : /\ boards' = boards \ {answer}
                                /\ answer.rows \in Seq(EventsFor(answer.by))
                                /\ live' \in Seq(ToSet(live) \cup ToSet(answer.rows))
<1>1. PICK answer \in boards : boards' = boards \ {answer} /\ live' = Merged(live, answer.rows)
  BY DEF Show
<1> DEFINE S == ToSet(live) \cup ToSet(answer.rows)
           rows == answer.rows
<1>2. /\ rows \in Seq(EventsFor(answer.by)) /\ live \in Seq(FeedEvent)
      /\ EventsFor(answer.by) \in SUBSET FeedEvent
  BY DEF FeedInv, EventsFor
<1> HIDE DEF rows
<1>3. S \in SUBSET FeedEvent
  BY <1>2, ElementsIn DEF rows
<1>4. live \in Seq(S) /\ rows \in Seq(S)
  <2> DEFINE L == ToSet(live)
             A == ToSet(answer.rows)
  <2>1. live \in Seq(L) /\ rows \in Seq(A)
    BY <1>2, ElementsIn DEF rows
  <2>2. L \subseteq S /\ A \subseteq S
    OBVIOUS
  <2> HIDE DEF L, A, S
  <2> QED BY <2>1, <2>2, MoreToChoose
<1> HIDE DEF S
<1>5. live' \in Seq(S)
  BY <1>1, <1>3, <1>4, MergedFrom DEF rows
<1> QED BY <1>1, <1>2, <1>5 DEF S, rows

LEMMA PageKeeps ==
  ASSUME FeedAssumption, FeedInv,
         Connect \/ Drop \/ Receive \/ PollFeed \/ Show \/ Lose
  PROVE  FeedInv' /\ UNCHANGED << planned, me, signIns >>
<1> DEFINE O == EventsFor(me)
           Keep == /\ stream' \in [open : BOOLEAN, wire : Seq(O), made : Nat]
                   /\ live' \in Seq(FeedEvent)
           Answers == (\A answer \in boards :
                         answer.by \in Humans /\ answer.rows \in Seq(EventsFor(answer.by)))'
<1>1. UNCHANGED << planned, me, next, recent, signIns >> /\ O' = O
  BY DEF Connect, Drop, Receive, PollFeed, Show, Lose, serverVars, EventsFor, scopeOf
<1>2. O \in SUBSET FeedEvent
  BY DEF EventsFor
<1>3. /\ stream \in [open : BOOLEAN, wire : Seq(O), made : Nat]
      /\ live \in Seq(FeedEvent) /\ recent \in Seq(FeedEvent)
      /\ Replayed \in Nat /\ BoardRows \in Nat
  BY DEF FeedInv, FeedAssumption
<1>4. ASSUME Connect PROVE Keep /\ boards' = boards
  <2>1. history(Replayed, me) \in Seq(O)
    BY <1>3, HistoryIsOwn
  <2> HIDE DEF O
  <2> QED BY <1>3, <1>4, <2>1 DEF Connect
<1>5. ASSUME Drop PROVE Keep /\ boards' = boards
  <2> DEFINE Q == Seq(O)
  <2>1. <<>> \in Q /\ stream \in [open : BOOLEAN, wire : Q, made : Nat]
    <3> HIDE DEF O
    <3> QED BY <1>3
  <2> HIDE DEF Q
  <2>2. stream' \in [open : BOOLEAN, wire : Q, made : Nat]
    BY <1>5, <2>1 DEF Drop
  <2> QED BY <1>3, <1>5, <2>2 DEF Drop, Q
<1>6. ASSUME Receive PROVE Keep /\ boards' = boards
  <2>1. live' \in Seq(ToSet(live) \cup O) /\ ToSet(live) \in SUBSET FeedEvent
    BY <1>3, <1>6, ReceiveBrings, ElementsIn
  <2>2. live' \in Seq(FeedEvent)
    <3> HIDE DEF O
    <3> QED BY <1>2, <2>1
  <2> QED BY <1>6, <2>2, ReceiveBrings DEF Receive
<1>7. ASSUME PollFeed PROVE Keep /\ Answers
  <2> DEFINE x == [by |-> me, rows |-> history(BoardRows, me)]
  <2>1. /\ boards' = boards \cup {x} /\ x.by = me /\ me \in Humans
        /\ stream' = stream /\ live' = live
    BY <1>7 DEF PollFeed, FeedInv
  <2>2. x.rows \in Seq(O)
    BY <1>3, HistoryIsOwn
  <2> HIDE DEF x
  <2>3. ASSUME NEW answer \in boards'
        PROVE  answer.by \in Humans /\ answer.rows \in Seq(EventsFor(answer.by))
    BY <2>1, <2>2, <2>3 DEF FeedInv
  <2>4. \A h : EventsFor(h)' = EventsFor(h)
    BY <1>1 DEF EventsFor, scopeOf
  <2>5. Answers
    <3> HIDE DEF EventsFor
    <3> QED BY <2>3, <2>4
  <2> QED BY <1>3, <2>1, <2>5
<1>8. ASSUME Show PROVE Keep /\ boards' \subseteq boards
  <2>1. PICK answer \in boards : /\ boards' = boards \ {answer}
                                 /\ answer.rows \in Seq(EventsFor(answer.by))
                                 /\ live' \in Seq(ToSet(live) \cup ToSet(answer.rows))
    BY <1>8, ShowBrings
  <2>2. EventsFor(answer.by) \in SUBSET FeedEvent
    BY DEF EventsFor
  <2>3. ToSet(live) \in SUBSET FeedEvent /\ ToSet(answer.rows) \in SUBSET FeedEvent
    BY <1>3, <2>1, <2>2, ElementsIn
  <2>4. live' \in Seq(FeedEvent)
    BY <2>1, <2>3
  <2> QED BY <1>3, <1>8, <2>1, <2>4 DEF Show
<1>9. ASSUME Lose PROVE Keep /\ boards' \subseteq boards
  BY <1>3, <1>9 DEF Lose
<1>10. Keep /\ (boards' \subseteq boards \/ Answers)
  BY <1>4, <1>5, <1>6, <1>7, <1>8, <1>9
<1>11. Answers
  BY <1>1, <1>10, AnswersKeep
<1> HIDE DEF EventsFor
<1> QED BY <1>1, <1>10, <1>11 DEF FeedInv

LEMMA SignInKeeps ==
  ASSUME FeedInv, NEW h \in Humans, SignIn(h)
  PROVE  FeedInv' /\ live' = <<>>
<1>1. /\ boards' = boards /\ live' = <<>> /\ stream' = NoStream /\ me' = h
      /\ UNCHANGED << planned, next, recent >>
  BY DEF SignIn, serverVars
<1> DEFINE O == EventsFor(me)'
<1>2. <<>> \in Seq(O) /\ <<>> \in Seq(FeedEvent)
  <2> HIDE DEF O
  <2> QED OBVIOUS
<1>3. stream' \in [open : BOOLEAN, wire : Seq(O), made : Nat]
  <2> HIDE DEF O
  <2> QED BY <1>1, <1>2 DEF NoStream
<1> QED BY <1>1, <1>2, <1>3, AnswersKeep DEF FeedInv

LEMMA FeedStarts == FeedInit => FeedInv
BY DEF FeedInit, FeedInv, NoStream

LEMMA FeedSteps ==
  ASSUME FeedAssumption
  PROVE  FeedInv /\ [FeedNext]_feedVars => FeedInv'
<1> SUFFICES ASSUME FeedInv, [FeedNext]_feedVars PROVE FeedInv'
  OBVIOUS
<1>1. CASE UNCHANGED feedVars
  BY <1>1 DEF feedVars, FeedInv, EventsFor, scopeOf
<1>2. CASE FeedNext
  BY <1>2, AgentsKeep, PageKeeps, SignInKeeps DEF FeedNext
<1> QED BY <1>1, <1>2

\* Rows that the page had, or that are the agents' of whoever is signed in.
LEMMA OthersAreTheSame ==
  ASSUME planned \subseteq planned', me' = me, NEW new \in SUBSET FeedEvent,
         live' \in Seq(ToSet(live) \cup new)
  PROVE  Foreign(live)' \subseteq Foreign(live) \cup {e \in new : e.agentId \notin scopeOf(me)}
<1>1. scopeOf(me) \subseteq scopeOf(me)'
  BY OwnGrows
<1>2. ToSet(live') \subseteq ToSet(live) \cup new
  BY ElementOfSeq DEF ToSet
<1> QED BY <1>1, <1>2 DEF Foreign

LEMMA RowsComeFrom ==
  ASSUME FeedAssumption, FeedInv, FeedNext
  PROVE  FromLateAnswers
<1> DEFINE late == {answer \in boards \ boards' : answer.by # me}
           brought == UNION {ToSet(answer.rows) : answer \in late}
<1>1. CASE planned \subseteq planned' /\ UNCHANGED << me, live, signIns >>
  <2>1. scopeOf(me) \subseteq scopeOf(me)'
    BY <1>1, OwnGrows
  <2>2. Foreign(live)' \subseteq Foreign(live)
    BY <1>1, <2>1 DEF Foreign, ToSet
  <2> QED BY <1>1, <2>2 DEF FromLateAnswers
<1>2. ASSUME NEW a \in Agents, Plan(a) \/ Watch(a) \/ Inspect(a) \/ Finish(a) \/ Fail(a)
      PROVE  FromLateAnswers
  BY <1>1, <1>2, AgentsKeep
<1>3. ASSUME NEW h \in Humans, SignIn(h) PROVE FromLateAnswers
  <2>1. live' = <<>>
    BY <1>3, SignInKeeps
  <2>2. Foreign(live)' = {}
    BY <2>1 DEF Foreign, ToSet
  <2> QED BY <2>2 DEF FromLateAnswers
<1>4. CASE Connect \/ Drop \/ PollFeed \/ Lose
  BY <1>1, <1>4, PageKeeps DEF Connect, Drop, PollFeed, Lose
<1>5. CASE Receive
  <2>1. UNCHANGED << planned, me, signIns >> /\ live' \in Seq(ToSet(live) \cup EventsFor(me))
    BY <1>5, PageKeeps, ReceiveBrings
  <2>2. EventsFor(me) \in SUBSET FeedEvent /\ \A e \in EventsFor(me) : e.agentId \in scopeOf(me)
    BY DEF EventsFor
  <2> HIDE DEF EventsFor
  <2>3. Foreign(live)' \subseteq Foreign(live) \cup {e \in EventsFor(me) : e.agentId \notin scopeOf(me)}
    BY <2>1, <2>2, OthersAreTheSame
  <2>4. Foreign(live)' \subseteq Foreign(live)
    BY <2>2, <2>3
  <2> QED BY <2>1, <2>4 DEF FromLateAnswers
<1>6. CASE Show
  <2>1. PICK answer \in boards : /\ boards' = boards \ {answer}
                                 /\ answer.rows \in Seq(EventsFor(answer.by))
                                 /\ live' \in Seq(ToSet(live) \cup ToSet(answer.rows))
    BY <1>6, ShowBrings
  <2>2. UNCHANGED << planned, me, signIns >>
    BY <1>6, PageKeeps
  <2>3. /\ ToSet(answer.rows) \in SUBSET FeedEvent
        /\ answer.by = me => \A e \in ToSet(answer.rows) : e.agentId \in scopeOf(me)
    BY <2>1, ElementOfSeq DEF EventsFor, ToSet
  <2>4. Foreign(live)' \subseteq Foreign(live) \cup {e \in ToSet(answer.rows) : e.agentId \notin scopeOf(me)}
    BY <2>1, <2>2, <2>3, OthersAreTheSame
  <2>5. answer.by # me => ToSet(answer.rows) \subseteq brought
    BY <2>1
  <2> HIDE DEF brought
  <2>6. Foreign(live)' \subseteq Foreign(live) \cup brought
    BY <2>3, <2>4, <2>5
  <2> QED BY <2>2, <2>6 DEF FromLateAnswers, brought
<1> QED BY <1>2, <1>3, <1>4, <1>5, <1>6 DEF FeedNext

(***************************************************************************)
(* A row of somebody else's agents comes onto the page in one way, for any *)
(* number of agents, events and requests, and whatever the bus, the board  *)
(* and the page keep: out of an answer of the board to whoever was signed  *)
(* in when it was asked for (scopeOf, history, permitted, signIn,          *)
(* refresh). The streams bring none.                                       *)
(***************************************************************************)
THEOREM RowsOfOthersAreLate == FeedSpec => RowsOfOthersComeLate
<1>1. FeedAssumption
  BY FeedAssumption
<1>2. FeedInv /\ [FeedNext]_feedVars => FeedInv'
  BY <1>1, FeedSteps
<1>3. FeedInv /\ [FeedNext]_feedVars => [FromLateAnswers]_feedVars
  BY <1>1, RowsComeFrom
<1> QED BY <1>2, <1>3, FeedStarts, PTL DEF FeedSpec, RowsOfOthersComeLate

=============================================================================
