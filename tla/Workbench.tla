------------------------------ MODULE Workbench ------------------------------
(***************************************************************************)
(* The editor of the web client, Console.tsx around CodeEditor.tsx: one    *)
(* human with several documents open, a refresh every two seconds whose    *)
(* answers arrive in any order, an editor that keeps a buffer per          *)
(* document, and a save that names the version the editor was given.       *)
(*                                                                         *)
(* The page's state is one document (`shown`) beside the file that is      *)
(* selected; they change in different steps. A React effect pass runs to   *)
(* its end before the next event, so it is part of the step that caused    *)
(* it. On the server only what the page can see of a document is left,     *)
(* its version and its text; module SharedDoc has the rest.                *)
(***************************************************************************)
EXTENDS Integers, FiniteSets

CONSTANTS Docs, None,
          Seeds,      \* how many different texts documents start with
          MaxReads,   \* bound: refreshes in flight at a time
          MaxTexts,   \* bound: texts that are ever written
          MaxEvents   \* bound: files opened and closed, views left, saves,
                      \* refreshes that fail

ASSUME WorkbenchAssumption ==
  /\ Docs # {} /\ None \notin Docs
  /\ MaxReads \in Nat \ {0}
  /\ MaxTexts \in Nat
  /\ Seeds \in 1 .. MaxTexts
  /\ MaxEvents \in Nat

VARIABLES
  server,    \* what the server holds for each document
  fresh,     \* the next text nobody has written yet
  selected,  \* the file that is selected, or None
  tabs,      \* the files with a tab
  open,      \* the workspace is the view on screen
  shown,     \* the document the page last received, or None
  models,    \* the editor's buffers
  dirty,     \* the editor says "Unsaved changes"
  reads,     \* the refreshes in flight
  save,      \* the save in flight, or None
  events     \* bound: events so far

vars == <<server, fresh, selected, tabs, open, shown, models, dirty, reads,
          save, events>>

page == <<selected, tabs, open, shown, models, dirty>>

Texts == 1 .. MaxTexts

Content == [version: Nat, text: Texts]

\* `doc` is for the properties: the page does not keep whose content it shows.
View == [doc: Docs, version: Nat, text: Texts]

\* `basis` too: the text the buffer last took from the page. What is typed is
\* always a text of its own.
Model == [text: Texts, basis: Texts]

Typed(model) == model.text # model.basis

\* An answer is None until the server has read the document.
ReadRequest == [target: Docs \cup {None}, answer: Content \cup {None}]

\* `seen` and `basis` are for the properties: the document that was shown, and
\* the text the buffer came from.
SaveRequest == [doc: Docs, expected: Nat, text: Texts, basis: Texts,
                seen: Docs, answer: {None, "written", "stale"}]

TypeOK ==
  /\ server \in [Docs -> Content]
  /\ fresh \in 1 .. MaxTexts + 1
  /\ selected \in Docs \cup {None}
  /\ tabs \subseteq Docs
  /\ open \in BOOLEAN
  /\ shown \in View \cup {None}
  /\ models \in [Docs -> Model \cup {None}]
  /\ dirty \in BOOLEAN
  /\ reads \subseteq ReadRequest
  /\ save \in SaveRequest \cup {None}
  /\ events \in 0 .. MaxEvents

\* The page after sign-in. Documents may start with equal texts.
Init ==
  /\ server \in [Docs -> [version: {1}, text: 1 .. Seeds]]
  /\ fresh = Seeds + 1
  /\ selected = None /\ tabs = {} /\ open = FALSE
  /\ shown = None
  /\ models = [d \in Docs |-> None]
  /\ dirty = FALSE
  /\ reads = {}
  /\ save = None
  /\ events = 0

Event == events < MaxEvents /\ events' = events + 1

Write == fresh <= MaxTexts /\ fresh' = fresh + 1

Mounted == open /\ selected # None /\ shown # None

-----------------------------------------------------------------------------
(***************************************************************************)
(* The editor's effects                                                    *)
(***************************************************************************)

Taken(text) == [text |-> text, basis |-> text]

\* Mutant: what the comment at the effect says, an edited buffer is kept.
ShowsUntyped(d, text) ==
  IF models[d] # None /\ Typed(models[d])
  THEN models' = models /\ dirty' = TRUE
  ELSE models' = [models EXCEPT ![d] = Taken(text)] /\ dirty' = FALSE

\* The effects on [docId, value] and on [value, docId, dirty]: the first
\* clears `dirty`, so the second replaces the buffer in this pass or, where it
\* was dirty, in the next. A replacement the change handler of d sees counts
\* as an edit; after a change of d it is attached in time for the second pass.
Shows(d, text) ==
  /\ models' = [models EXCEPT ![d] = Taken(text)]
  /\ dirty' = (models[d] # None /\ models[d].text # text /\ (d = selected \/ dirty))

\* The page was rendered with `sel`, `view` and `doc`.
Renders(sel, view, doc) ==
  /\ selected' = sel /\ open' = view /\ shown' = doc
  /\ IF view /\ sel # None /\ doc # None
     THEN IF Mounted /\ sel = selected /\ doc.text = shown.text
          THEN UNCHANGED <<models, dirty>>
          ELSE Shows(sel, doc.text)
     ELSE models' = [d \in Docs |-> None] /\ dirty' = FALSE

\* Mutant: only the flag is cleared.
CleanedFlag ==
  /\ dirty' = FALSE
  /\ UNCHANGED models

\* setDirty(false) after a save: the effect on `dirty` finds a buffer that
\* differs from what the page last received, and takes that instead.
Cleaned ==
  IF Mounted /\ dirty
  THEN /\ models' = [models EXCEPT ![selected] = Taken(shown.text)]
       /\ dirty' = (models[selected].text # shown.text)
  ELSE UNCHANGED <<models, dirty>>

-----------------------------------------------------------------------------
(***************************************************************************)
(* refresh                                                                 *)
(***************************************************************************)

\* A refresh that was told to look at `target`; beyond the bound it is lost.
\* Two that would bring the same are one.
Starts(target) ==
  reads' = IF Cardinality(reads) < MaxReads
           THEN reads \cup {[target |-> target, answer |-> None]} ELSE reads

\* Mutant: the timer keeps the refresh of the file that was shown.
PollShown ==
  /\ Starts(IF shown = None THEN selected ELSE shown.doc)
  /\ UNCHANGED <<page, server, fresh, save, events>>

\* The interval, with the `selected` of the last render.
Poll ==
  /\ Starts(selected)
  /\ UNCHANGED <<page, server, fresh, save, events>>

\* Nothing was selected when the refresh began: it selects the first of the
\* list, whatever the human has opened meanwhile, and goes on to read it. The
\* list is in the server's order, and only of what the agent may read.
Listed(r) ==
  /\ r.target = None
  /\ \E first \in Docs :
       /\ reads' = (reads \ {r}) \cup {[r EXCEPT !.target = first]}
       /\ tabs' = tabs \cup {first}
       /\ Renders(first, open, shown)
  /\ UNCHANGED <<server, fresh, save, events>>

\* The server reads the document for the request.
Serve(r) ==
  /\ r.target # None /\ r.answer = None
  /\ reads' = (reads \ {r}) \cup {[r EXCEPT !.answer = server[r.target]]}
  /\ UNCHANGED <<page, server, fresh, save, events>>

\* The answer arrives and becomes the document of the page.
Arrive(r) ==
  /\ r.answer # None
  /\ reads' = reads \ {r}
  /\ Renders(selected, open,
             [doc |-> r.target, version |-> r.answer.version, text |-> r.answer.text])
  /\ UNCHANGED <<tabs, server, fresh, save, events>>

\* A refresh that is refused or fails changes nothing.
ReadFails(r) ==
  /\ Event
  /\ reads' = reads \ {r}
  /\ UNCHANGED <<page, server, fresh, save>>

-----------------------------------------------------------------------------
(***************************************************************************)
(* The human                                                               *)
(***************************************************************************)

\* A file opened from the list, a tab, the palette or a session. A change of
\* the selection starts a refresh of its own.
Select(d) ==
  /\ Event
  /\ d # selected \/ ~open
  /\ tabs' = tabs \cup {d}
  /\ Renders(d, TRUE, shown)
  /\ IF d # selected THEN Starts(d) ELSE UNCHANGED reads
  /\ UNCHANGED <<server, fresh, save>>

\* A tab closed; the selection moves to another one.
Close(d) ==
  /\ Event
  /\ d \in tabs
  /\ tabs' = tabs \ {d}
  /\ IF d # selected
     THEN UNCHANGED <<selected, open, shown, models, dirty, reads>>
     ELSE \E next \in IF tabs = {d} THEN {None} ELSE tabs \ {d} :
            Renders(next, open, shown) /\ Starts(next)
  /\ UNCHANGED <<server, fresh, save>>

\* Another view takes the place of the workspace: the editor is unmounted.
Leave ==
  /\ Event
  /\ open
  /\ Renders(selected, FALSE, shown)
  /\ UNCHANGED <<tabs, reads, server, fresh, save>>

Type ==
  /\ Mounted
  /\ Write
  /\ models' = [models EXCEPT ![selected].text = fresh]
  /\ dirty' = TRUE
  /\ UNCHANGED <<selected, tabs, open, shown, server, reads, save, events>>

\* Ctrl+S: the buffer of the selected file with the version of the document
\* shown. A second save before the answer is left out.
Save ==
  /\ Mounted /\ models[selected] # None
  /\ Event
  /\ save = None
  /\ save' = [doc |-> selected, expected |-> shown.version,
              text |-> models[selected].text, basis |-> models[selected].basis,
              seen |-> shown.doc, answer |-> None]
  /\ UNCHANGED <<page, server, fresh, reads>>

-----------------------------------------------------------------------------
(***************************************************************************)
(* saveDoc and writeAsHuman                                                *)
(***************************************************************************)

\* The compare-and-swap of writeAsHuman; a lease answers like a stale version.
ServeSave ==
  /\ save # None /\ save.answer = None
  /\ \/ /\ save.expected = server[save.doc].version
        /\ server' = [server EXCEPT ![save.doc] =
                        [version |-> @.version + 1, text |-> save.text]]
        /\ save' = [save EXCEPT !.answer = "written"]
     \/ /\ UNCHANGED server
        /\ save' = [save EXCEPT !.answer = "stale"]
  /\ UNCHANGED <<page, fresh, reads, events>>

\* The answer of a save that was written starts a refresh and calls the
\* buffer clean; the file saved need not be the one selected any more.
SaveWritten ==
  /\ save # None /\ save.answer = "written"
  /\ save' = None
  /\ Starts(save.doc)
  /\ Cleaned
  /\ UNCHANGED <<selected, tabs, open, shown, server, fresh, events>>

\* A refusal, or no answer at all, only changes the status line.
SaveDenied ==
  /\ save # None
  /\ save' = None
  /\ UNCHANGED <<page, server, fresh, reads, events>>

\* Anybody else's write: an agent, a decision, another browser.
Commit(d) ==
  /\ Write
  /\ server' = [server EXCEPT ![d] = [version |-> @.version + 1, text |-> fresh]]
  /\ UNCHANGED <<page, reads, save, events>>

-----------------------------------------------------------------------------
Next ==
  \/ Poll \/ Leave \/ Type \/ Save \/ ServeSave \/ SaveWritten \/ SaveDenied
  \/ \E r \in reads : Listed(r) \/ Serve(r) \/ Arrive(r) \/ ReadFails(r)
  \/ \E d \in Docs : Select(d) \/ Close(d) \/ Commit(d)

Spec == Init /\ [][Next]_vars

\* The timer runs, and a request is answered or fails (at most MaxEvents times).
Fairness ==
  /\ WF_vars(Poll) /\ WF_vars(ServeSave) /\ WF_vars(SaveWritten \/ SaveDenied)
  /\ WF_vars(\E r \in reads : Listed(r))
  /\ WF_vars(\E r \in reads : Serve(r))
  /\ WF_vars(\E r \in reads : Arrive(r))

FairSpec == Spec /\ Fairness

-----------------------------------------------------------------------------
(***************************************************************************)
(* Properties                                                              *)
(***************************************************************************)

\* A save that is written replaces exactly the text the buffer was made from,
\* in every order of refreshes, other people's commits and saves, as long as
\* the editor shows the file that is selected. It rests on two things at once:
\* the server's comparison (writeAsHuman) and that a new version takes the
\* buffer with it (the effects of CodeEditor).
SavesReplaceWhatWasSeen ==
  [][ save # None /\ save.seen = save.doc /\ server'[save.doc] # server[save.doc] /\ save' # save
        => save.basis = server[save.doc].text ]_vars

\* What the human has typed into the buffer on screen and not saved is said to
\* be unsaved, also when a save, a refresh and further typing overlap: the flag
\* belongs to the editor, not to the buffer it is about.
UnsavedIsFlagged ==
  Mounted /\ models[selected] # None /\ Typed(models[selected]) => dirty

\* In the end the editor shows what the server has for the selected file,
\* however the answers overtook each other before.
EditorCatchesUp ==
  <>[](selected # None
         => /\ shown # None
            /\ shown.doc = selected
            /\ shown.version = server[selected].version
            /\ shown.text = server[selected].text)

-----------------------------------------------------------------------------
(***************************************************************************)
(* What the code says and does not do                                      *)
(***************************************************************************)

\* "an interactive edit either applies to the revision you were looking at or
\* you are told it moved" (Console.tsx, saveDoc): right after a file is
\* selected the editor holds the content and the version of the previous one.
EditsApplyToWhatWasSeen ==
  [][ save # None /\ server'[save.doc] # server[save.doc] /\ save' # save
        => save.basis = server[save.doc].text ]_vars

\* "It does NOT clobber a buffer the human has edited" (CodeEditor.tsx): a
\* refresh never takes away what was typed.
TypingOutlivesRefreshes ==
  [][ (\E r \in reads : Arrive(r)) /\ Mounted /\ Typed(models[selected])
        => models'[selected] = models[selected] ]_vars
=============================================================================
