--------------------------- MODULE BoardEditorBridge ---------------------------
(***************************************************************************)
(* The Board editor: the page that hosts the Excalidraw canvas (main.jsx,  *)
(* scene-publication.js), the native coordinator that owns the page        *)
(* (ExcalidrawBoardEditorView.swift), the draft behind it (BoardEditorState *)
(* and applyBoardAction) and the two channels between them.                *)
(*                                                                         *)
(* Page and application are two processes.  Each handles one event at a    *)
(* time; messages to the page (evaluateJavaScript) and from it             *)
(* (postMessage, replies) arrive in the order they were sent.  A task of   *)
(* the coordinator, a SwiftUI observation, a React commit and an animation *)
(* frame come whenever they come.                                          *)
(***************************************************************************)
EXTENDS BoardScene

CONSTANTS
    InitialDocument,   \* the draft, and its one saved revision, at the start
    Shapes,            \* what the person may draw
    MaxActs,           \* bound on what the person does
    MaxElements,       \* bound on the canvas
    Offered            \* the operations an instance offers

Operations == {"draw", "move", "delete", "select", "paste", "rotate", "blur",
               "undo", "redo", "saveRevision", "tool", "inspect", "reset", "menu"}

ASSUME OfferedAssumption == Offered \subseteq Operations
ASSUME BoundsAssumption == MaxActs \in Nat /\ MaxElements \in Nat

\* A Board as BoardDocument.validate admits it; ink that is not the person's is not positive.
ASSUME InitialDocumentAssumption ==
    /\ InitialDocument \in Seq(Element) /\ Len(InitialDocument) <= MaxElements
    /\ \A n \in DOMAIN InitialDocument :
          /\ InitialDocument[n].type = "box" => InitialDocument[n].kind # "none"
          /\ InitialDocument[n].from \in ids(InitialDocument) \cup {none}
          /\ InitialDocument[n].ink <= 0
    /\ \A m, n \in DOMAIN InitialDocument :
          m # n => /\ InitialDocument[m].id # InitialDocument[n].id
                   /\ InitialDocument[m].ink # InitialDocument[n].ink

VARIABLES
    page,         \* the canvas and the refs of the page's bridge
    publication,  \* the scene publication controller
    draft,        \* the native editor state: document, undo and redo, tool
    coordinator,  \* the coordinator's fields
    toPage,       \* calls on their way to the page
    toNative,     \* messages and replies on their way to the application
    replies,      \* flush replies that wait for the main actor
    acts,         \* how much the person did
    raced         \* history: one of the races the bridge does not order

vars == <<page, publication, draft, coordinator, toPage, toNative, replies, acts, raced>>

-----------------------------------------------------------------------------
(* Messages *)

event(name, command, scene) == [event |-> name, command |-> command, scene |-> scene]
call(name, snapshot, then) ==
    [call |-> name, snapshot |-> snapshot, then |-> then]

carriesScene(m)    == m.scene # none
carriesDocument(m) == m.call \in {"load", "reconcile"}

-----------------------------------------------------------------------------
(* Scene publication (scene-publication.js) *)

sceneOf(canvas, appState) == [elements |-> canvas, appState |-> appState]
identify(scene) == sceneRevision(scene.elements, scene.appState)
prepare(scene)  == normalizeScene(scene.elements, scene.appState)

NewPublication == [active |-> FALSE, pending |-> none, adopted |-> none]

\* The revision a scene is known by, and what the scene shows (history).
adopt(scene) == [revision |-> identify(scene), shows |-> prepare(scene)]

publishes(p) ==
    p.pending # none /\ p.adopted # none /\ identify(p.pending) # p.adopted.revision

publishPendingScene(p) ==
    IF p.pending = none \/ p.adopted = none THEN p
    ELSE [p EXCEPT !.pending = none,
                   !.adopted = IF publishes(p) THEN adopt(p.pending) ELSE @]

published(p) ==
    IF publishes(p) THEN <<event("scene", "none", prepare(p.pending))>> ELSE <<>>

\* Not published for its revision alone: the scene is not the adopted one, or a
\* document was put under it since.
coincides(p) ==
    /\ p.pending # none /\ p.adopted # none /\ ~publishes(p)
    /\ prepare(p.pending) # p.adopted.shows

overlaid(p) == IF p.adopted = none THEN p ELSE [p EXCEPT !.adopted.shows = none]

acceptScene(p, scene) ==
    LET offered == [p EXCEPT !.pending = scene]
    IN IF p.active THEN offered ELSE publishPendingScene(offered)

accepted(p, scene) ==
    IF p.active THEN <<>> ELSE published([p EXCEPT !.pending = scene])

beginPointerInteraction(p) == [p EXCEPT !.active = TRUE]

\* mutant: a gesture that ends does not publish
endsSilently(p) == [p EXCEPT !.active = FALSE]

\* endPointerInteraction and cancelPointerInteraction.
endPointerInteraction(p) ==
    IF p.active THEN publishPendingScene([p EXCEPT !.active = FALSE]) ELSE p

ended(p) == IF p.active THEN published(p) ELSE <<>>

adoptScene(p, scene) == [active |-> FALSE, pending |-> none, adopted |-> adopt(scene)]

-----------------------------------------------------------------------------
(* The application's side: what is presented, and the snapshot of it *)

presentedDocument == IF draft.inspecting THEN draft.revision ELSE draft.document

\* SwiftUI hands the coordinator the presented Board.
Presented ==
    [document |-> presentedDocument,
     selected |-> IF draft.inspecting \/ draft.selected \notin ids(draft.document)
                    THEN none ELSE draft.selected,
     tool     |-> draft.tool,
     readOnly |-> draft.inspecting]

state(snapshot) == [selected |-> snapshot.selected, tool |-> snapshot.tool,
                    readOnly |-> snapshot.readOnly]

NoTask == [task |-> "none", snapshot |-> none]

-----------------------------------------------------------------------------
(* The editor session starts *)

NoUpdate == [call |-> "none"]

NewPage ==
    [canvas |-> <<>>, appState |-> [selected |-> none, tool |-> "selection"],
     overlay |-> {}, held |-> FALSE, readOnly |-> FALSE, changed |-> FALSE,
     loading |-> TRUE, finishing |-> FALSE, received |-> FALSE,
     deferredChange |-> none, deferredUpdate |-> NoUpdate, hasLoaded |-> FALSE]

NewCoordinator(snapshot) ==
    [ready |-> FALSE, snapshot |-> snapshot, lastLoaded |-> <<>>,
     boardIDsByWebID |-> << >>, task |-> NoTask, observing |-> FALSE]

Ready == <<event("ready", "none", none)>>

Init ==
    /\ draft = [document |-> InitialDocument, undo |-> <<>>, redo |-> <<>>,
                selected |-> none, tool |-> "select",
                inspecting |-> FALSE, revision |-> InitialDocument]
    /\ page = NewPage
    /\ publication = NewPublication
    /\ coordinator = NewCoordinator(
            [document |-> InitialDocument, selected |-> none, tool |-> "select",
             readOnly |-> FALSE])
    /\ toPage = <<>>
    /\ toNative = Ready
    /\ replies = <<>>
    /\ acts = 0
    /\ raced = FALSE

-----------------------------------------------------------------------------
(* The page *)

inFlight(messages, carries(_)) == \E m \in ToSet(messages) : carries(m)

\* A document the canvas will be replaced by: called for, or put off by a gesture.
documentIsComing == inFlight(toPage, carriesDocument) \/ carriesDocument(page.deferredUpdate)

Post(messages) == toNative' = toNative \o messages

\* A scene that leaves while a document is on its way crosses it.
crosses(messages) == inFlight(messages, carriesScene) /\ documentIsComing

\* The races of accepting a scene, and of lifting the pointer.
acceptRaces(p, scene) ==
    \/ crosses(accepted(p, scene))
    \/ ~p.active /\ coincides([p EXCEPT !.pending = scene])
endRaces(p) == crosses(ended(p)) \/ (p.active /\ coincides(p))

readScene(p)    == sceneOf(live(p.canvas), p.appState)
changeScene(p)  == sceneOf(p.canvas, p.appState)      \* what onChange hands over
noteUserInput(p) == [p EXCEPT !.received = @ \/ p.loading]

\* onChange: the page p, just committed by React, is captured or published.
handleChange(p, byPerson) ==
    \/ /\ p.loading
       /\ page' = [p EXCEPT !.deferredChange = changeScene(p)]
       /\ raced' = (raced \/ (byPerson /\ ~p.received))
       /\ UNCHANGED <<publication, toNative>>
    \/ /\ ~p.loading
       /\ page' = [p EXCEPT !.overlay = semanticOverlay(p.canvas)]
       /\ publication' = acceptScene(publication, changeScene(p))
       /\ Post(accepted(publication, changeScene(p)))
       /\ raced' = (raced \/ acceptRaces(publication, changeScene(p)))

edit(p) == handleChange(p, TRUE)

beginNativeUpdate(p) ==
    [p EXCEPT !.loading = TRUE, !.finishing = TRUE, !.changed = TRUE,
              !.deferredChange = IF p.loading THEN @ ELSE none,
              !.received = p.loading /\ @]

\* The update a native call asks for: on the canvas, or on the selection and tool.
nativeUpdate(p, u) ==
    LET begun  == beginNativeUpdate(p)
        tool   == excalTypeForNativeTool[u.snapshot.tool]
        wanted == [selected |-> u.snapshot.selected,
                   tool |-> IF u.snapshot.readOnly THEN p.appState.tool ELSE tool]
    IN CASE u.call = "load" ->
              [begun EXCEPT !.canvas = u.elements, !.hasLoaded = TRUE,
                  !.appState = IF p.hasLoaded THEN [wanted EXCEPT !.tool = p.appState.tool]
                                              ELSE wanted]
         [] u.call = "reconcile" ->
              [begun EXCEPT !.canvas = u.elements,
                            !.appState.selected = u.snapshot.selected]
         [] u.call = "state" /\ p.appState # wanted -> [begun EXCEPT !.appState = wanted]
         [] u.call = "state" /\ p.appState = wanted -> p

\* The pointer is up: an update that waited for it runs, unless a scene left now.
completePointerInteraction(p, didPublish) ==
    LET free == [p EXCEPT !.deferredUpdate = NoUpdate]
    IN IF didPublish \/ p.deferredUpdate = NoUpdate THEN free
       ELSE nativeUpdate(free, p.deferredUpdate)

\* mutant: input during the update is taken for part of it
FinishAdopting ==
    /\ page.finishing /\ ~page.changed
    /\ page' = [page EXCEPT !.overlay = semanticOverlay(page.canvas),
                    !.loading = FALSE, !.finishing = FALSE,
                    !.deferredChange = none, !.received = FALSE]
    /\ publication' = adoptScene(publication, readScene(page))
    /\ UNCHANGED <<draft, coordinator, toPage, toNative, replies, acts, raced>>

\* Two animation frames after the last native call: React has committed it.
FinishNativeUpdate ==
    LET scene == readScene(page)
        change == IF page.deferredChange = none THEN scene ELSE page.deferredChange
    IN /\ page.finishing /\ ~page.changed
       /\ page' = [page EXCEPT !.overlay = semanticOverlay(page.canvas),
                       !.loading = FALSE, !.finishing = FALSE,
                       !.deferredChange = none, !.received = FALSE]
       /\ \/ /\ page.received
             /\ publication' = acceptScene(publication, change)
             /\ Post(accepted(publication, change))
             /\ raced' = (raced \/ acceptRaces(publication, change)
                                \/ publication.adopted = none)
          \/ /\ ~page.received
             /\ publication' = adoptScene(publication, scene)
             /\ UNCHANGED <<toNative, raced>>
       /\ UNCHANGED <<draft, coordinator, toPage, replies, acts>>

\* React commits what a native call changed.
CommitChange ==
    /\ page.changed
    /\ handleChange([page EXCEPT !.changed = FALSE], FALSE)
    /\ UNCHANGED <<draft, coordinator, toPage, replies, acts>>

\* interviewArcLoad, interviewArcReconcile, interviewArcSetState.
ReceiveUpdate ==
    LET m == Head(toPage)
        u == [call |-> m.call, snapshot |-> m.snapshot,
              elements |-> CASE m.call = "load" -> toExcalidrawElements(renderOrder(m.snapshot.document))
                             [] m.call = "reconcile" ->
                                  reconcileNativeElementVersions(
                                      toExcalidrawElements(renderOrder(m.snapshot.document)),
                                      live(page.canvas))
                             [] m.call = "state" -> <<>>]
        synchronized == [page EXCEPT !.readOnly = m.snapshot.readOnly,
                            !.changed = @ \/ page.readOnly # m.snapshot.readOnly]
        replaces == page.deferredUpdate # NoUpdate /\ carriesDocument(page.deferredUpdate)
                    /\ m.call = "state"
    IN /\ toPage # <<>> /\ m.call # "flush"
       /\ toPage' = Tail(toPage)
       /\ page' = IF publication.active THEN [synchronized EXCEPT !.deferredUpdate = u]
                  ELSE nativeUpdate(synchronized, u)
       /\ publication' = IF publication.active \/ ~carriesDocument(m) THEN publication
                         ELSE overlaid(publication)
       /\ raced' = (raced \/ (publication.active /\ replaces))
       /\ UNCHANGED <<draft, coordinator, toNative, replies, acts>>

\* A flush hands over the whole canvas and adopts it.
staleAfterFlush == ~page.hasLoaded \/ page.deferredUpdate # NoUpdate

ReceiveFlush ==
    LET m == Head(toPage)
        reply == event("reply", m.then, prepare(readScene(page)))
    IN /\ toPage # <<>> /\ m.call = "flush"
       /\ toPage' = Tail(toPage)
       /\ publication' = adoptScene(publication, readScene(page))
       /\ Post(<<reply>>)
       /\ raced' = (raced \/ staleAfterFlush \/ inFlight(Tail(toPage), carriesDocument))
       /\ UNCHANGED <<page, draft, coordinator, replies, acts>>

-----------------------------------------------------------------------------
(* The person, on the page *)

Acts(operation) == operation \in Offered /\ acts < MaxActs /\ acts' = acts + 1
nativeUnchanged == UNCHANGED <<draft, coordinator, toPage, replies>>
stroke == acts + 1   \* names what the present gesture draws or writes

PointerDown ==
    /\ ~page.held /\ acts < MaxActs
    /\ acts' = acts + 1
    /\ page' = [noteUserInput(page) EXCEPT !.held = TRUE]
    /\ publication' = beginPointerInteraction(publication)
    /\ UNCHANGED <<toNative, raced>> /\ nativeUnchanged

edited(p, n, e) == [p EXCEPT !.canvas[n] = [e EXCEPT !.version = @ + 1]]

Draw ==
    /\ page.held /\ ~page.readOnly /\ Len(page.canvas) < MaxElements
    /\ Acts("draw")
    /\ \E shape \in Shapes :
       \E from \in IF shape # "arrow" THEN {none}
                   ELSE {none} \cup {e.web : e \in {x \in ToSet(live(page.canvas)) :
                                                     nativeType(x.shape) = "box"}} :
          LET new == [web |-> drawnID(stroke), board |-> none, kind |-> "none",
                      body |-> stroke, from |-> from, shape |-> shape,
                      pose |-> IF shape = "arrow" THEN "free" ELSE "canonical",
                      version |-> 2, deleted |-> FALSE, ink |-> stroke]
          IN edit([page EXCEPT !.canvas = Append(@, new),
                 !.appState = [selected |-> new.web, tool |-> "selection"]])
    /\ nativeUnchanged

Move ==
    /\ page.held /\ ~page.readOnly
    /\ Acts("move")
    /\ \E n \in DOMAIN page.canvas :
          /\ ~page.canvas[n].deleted
          /\ edit(edited(page, n, [page.canvas[n] EXCEPT !.body = stroke,
                 !.pose = IF page.canvas[n].shape = "arrow" THEN "free" ELSE @]))
    /\ nativeUnchanged

Rotate ==
    /\ page.held /\ ~page.readOnly
    /\ Acts("rotate")
    /\ \E n \in DOMAIN page.canvas :
          /\ ~page.canvas[n].deleted /\ page.canvas[n].shape # "arrow"
          /\ edit(edited(page, n, [page.canvas[n] EXCEPT !.pose = "rotated"]))
    /\ nativeUnchanged

Select ==
    /\ page.held /\ ~page.readOnly
    /\ Acts("select")
    /\ \E w \in {none} \cup {e.web : e \in ToSet(live(page.canvas))} :
          edit([page EXCEPT !.appState.selected = w])
    /\ nativeUnchanged

\* The keyboard: Excalidraw unbinds the arrows of a deleted box.
Delete ==
    /\ ~page.held /\ ~page.readOnly
    /\ Acts("delete")
    /\ \E n \in DOMAIN page.canvas :
          LET gone == page.canvas[n].web
              left(e) == CASE e.web = gone  -> [e EXCEPT !.deleted = TRUE, !.version = @ + 1]
                           [] e.web # gone /\ e.shape = "arrow" /\ e.from = gone ->
                                  [e EXCEPT !.from = none, !.pose = "free", !.version = @ + 1]
                           [] OTHER -> e
          IN /\ ~page.canvas[n].deleted
             /\ edit([noteUserInput(page) EXCEPT
                    !.canvas = [m \in DOMAIN @ |-> left(@[m])],
                    !.appState.selected = none])
    /\ nativeUnchanged

\* A pasted element claims the Board ID of the one it was copied from.
Paste ==
    /\ ~page.held /\ ~page.readOnly /\ Len(page.canvas) < MaxElements
    /\ Acts("paste")
    /\ \E e \in ToSet(live(page.canvas)) :
          edit([noteUserInput(page) EXCEPT
              !.canvas = Append(@, [e EXCEPT !.web = drawnID(stroke), !.ink = stroke,
                                             !.body = stroke]),
              !.appState.selected = drawnID(stroke)])
    /\ nativeUnchanged

\* Commands from the page: after a flush (undo, redo, save), or alone.
FlushThenPost ==
    \E command \in {"undo", "redo", "saveRevision"} :
        LET message == event("flushedCommand", command, prepare(readScene(page)))
        IN /\ Acts(command)
           /\ page' = noteUserInput(page)
           /\ publication' = adoptScene(publication, readScene(page))
           /\ Post(<<message>>)
           /\ raced' = (raced \/ crosses(<<message>>) \/ staleAfterFlush)
           /\ nativeUnchanged

PostTool ==
    /\ Acts("tool")
    /\ page' = noteUserInput(page)
    /\ Post(<<event("command", "tool", none)>>)
    /\ UNCHANGED <<publication, raced>> /\ nativeUnchanged

PostReturn ==
    /\ page.readOnly /\ Acts("inspect")
    /\ Post(<<event("command", "returnToDraft", none)>>)
    /\ UNCHANGED <<page, publication, raced>> /\ nativeUnchanged

EndInteraction(p) ==
    LET didPublish == publication.active /\ publishes(publication)
        ending     == endPointerInteraction(publication)
    IN /\ page' = completePointerInteraction(p, didPublish)
       /\ publication' = IF didPublish \/ ~carriesDocument(p.deferredUpdate)
                           THEN ending ELSE overlaid(ending)
       /\ Post(ended(publication))
       /\ raced' = (raced \/ endRaces(publication))
       /\ nativeUnchanged

PointerUp == page.held /\ EndInteraction([page EXCEPT !.held = FALSE]) /\ UNCHANGED acts

\* The window loses focus, or WebKit cancels the pointer.
Blur == Acts("blur") /\ EndInteraction(page)

-----------------------------------------------------------------------------
(* The draft (BoardEditorReducer, applyBoardAction) *)

entry(d) == [document |-> d.document, selected |-> d.selected]
restore(d, e) == [d EXCEPT !.document = e.document, !.selected = e.selected]

\* Everything but zoom is refused while a revision is inspected.
replaceDocument(d, document, selected) ==
    IF d.inspecting THEN d
    ELSE IF document = d.document THEN [d EXCEPT !.selected = selected]
    ELSE [d EXCEPT !.undo = Append(@, entry(d)), !.redo = <<>>,
                   !.document = document, !.selected = selected]

undo(d) == IF d.undo = <<>> THEN d
           ELSE restore([d EXCEPT !.undo = Front(@), !.redo = Append(@, entry(d))],
                        Last(d.undo))
redo(d) == IF d.redo = <<>> THEN d
           ELSE restore([d EXCEPT !.redo = Front(@), !.undo = Append(@, entry(d))],
                        Last(d.redo))

perform(d, command) ==
    CASE command = "undo" /\ ~d.inspecting         -> undo(d)
      [] command = "redo" /\ ~d.inspecting         -> redo(d)
      [] command = "saveRevision" /\ ~d.inspecting -> [d EXCEPT !.revision = d.document]
      [] command = "tool" /\ ~d.inspecting         -> [d EXCEPT !.tool = "box"]
      [] command = "returnToDraft"                 -> [d EXCEPT !.inspecting = FALSE]
      [] OTHER                                     -> d

-----------------------------------------------------------------------------
(* The coordinator *)

\* A scheduled load or reconcile cancels whichever is pending.
scheduleLoad(c, snapshot)      == [c EXCEPT !.task = [task |-> "load", snapshot |-> snapshot]]
scheduleReconcile(c, snapshot) == [c EXCEPT !.task = [task |-> "reconcile", snapshot |-> snapshot]]

keeping(ledger, kept) == Restrict(ledger, {w \in DOMAIN ledger : ledger[w] \in kept})

\* mutant: an accepted scene does not teach the ledger
learnNothing(ledger, decoded) == keeping(ledger, ids(decoded.document))

learn(ledger, decoded) ==
    LET given == decoded.boardIDsByWebID
        kept  == keeping(ledger, ids(decoded.document))
    IN [w \in DOMAIN given \cup DOMAIN kept |-> IF w \in DOMAIN given THEN given[w] ELSE kept[w]]

\* mutant: a refused scene stays on the canvas
refuseSilently(c) == [c EXCEPT !.observing = TRUE]

\* The last valid Board is loaded again; the notice re-renders the Board view.
refuse(c) == [scheduleLoad(c, c.snapshot) EXCEPT !.observing = TRUE]

\* A decoded scene, with the draft it would make: accepted, or refused.
received(decoded, replaced) ==
    LET c        == coordinator
        next     == [c.snapshot EXCEPT !.document = decoded.document,
                                       !.selected = decoded.selected, !.tool = decoded.tool]
        advanced == [c EXCEPT !.snapshot = next, !.lastLoaded = <<decoded.document>>,
                              !.observing = TRUE,
                              !.boardIDsByWebID = learn(@, decoded)]
    IN IF decoded.isValid /\ replaced.document = decoded.document
       THEN [accepted |-> TRUE,
             draft |-> IF replaced.inspecting THEN replaced
                       ELSE [replaced EXCEPT !.tool = decoded.tool],
             coordinator |-> IF decoded.requiresReload THEN scheduleReconcile(advanced, next)
                             ELSE advanced]
       ELSE [accepted |-> FALSE,
             draft |-> IF decoded.isValid THEN replaced ELSE draft,
             coordinator |-> refuse(c)]

onSceneChange(decoded) ==
    received(decoded, replaceDocument(draft, decoded.document, decoded.selected))

\* No scene counts before the native baseline was sent.
receiveScene(scene) ==
    IF coordinator.lastLoaded = <<>>
      THEN [accepted |-> FALSE, draft |-> draft, coordinator |-> coordinator]
    ELSE onSceneChange(decodeChange(scene, coordinator.snapshot.document,
                                    coordinator.boardIDsByWebID))

\* A command, and one that follows an accepted scene.
receiveCommand(command) ==
    /\ draft' = perform(draft, command)
    /\ coordinator' = [coordinator EXCEPT !.observing = TRUE]

permitsCommand(command, outcome) ==
    /\ draft' = IF outcome.accepted THEN perform(outcome.draft, command) ELSE outcome.draft
    /\ coordinator' = outcome.coordinator

\* A pasted element claims the Board ID of the one it was copied from: another
\* than it was given.
reclaims(scene) ==
    scene # none /\ \E e \in ToSet(scene.elements) :
        /\ e.board # none /\ e.web \in DOMAIN coordinator.boardIDsByWebID
        /\ coordinator.boardIDsByWebID[e.web] # e.board

\* The page was not sent the Board presented last.
canvasIsBehind == coordinator.lastLoaded \notin {<<>>, <<coordinator.snapshot.document>>}

sceneIsComing == inFlight(toNative, carriesScene) \/ replies # <<>>

ReceiveReady ==
    /\ toNative # <<>> /\ Head(toNative).event = "ready"
    /\ coordinator' = [scheduleLoad(coordinator, coordinator.snapshot) EXCEPT !.ready = TRUE]
    /\ toNative' = Tail(toNative)
    /\ UNCHANGED <<page, publication, draft, toPage, replies, acts, raced>>

\* "scene", "flushedCommand" and "command".
ReceiveEvent ==
    LET m == Head(toNative)
    IN /\ toNative # <<>> /\ m.event \in {"scene", "flushedCommand", "command"}
       /\ IF carriesScene(m) THEN permitsCommand(m.command, receiveScene(m.scene))
          ELSE receiveCommand(m.command)
       /\ toNative' = Tail(toNative)
       /\ raced' = (raced \/ (carriesScene(m) /\ (replies # <<>> \/ canvasIsBehind))
                          \/ reclaims(m.scene))
       /\ UNCHANGED <<page, publication, toPage, replies, acts>>

\* The answer of interviewArcFlush hops to the main actor: newer messages may
\* be handled before it.
ReceiveReply ==
    /\ toNative # <<>> /\ Head(toNative).event = "reply"
    /\ replies' = Append(replies, Head(toNative))
    /\ toNative' = Tail(toNative)
    /\ UNCHANGED <<page, publication, draft, coordinator, toPage, acts, raced>>

HandleReply ==
    /\ replies # <<>>
    /\ permitsCommand(Head(replies).command, receiveScene(Head(replies).scene))
    /\ replies' = Tail(replies)
    /\ raced' = (raced \/ canvasIsBehind \/ reclaims(Head(replies).scene))
    /\ UNCHANGED <<page, publication, toPage, toNative, acts>>

\* update: SwiftUI presents the Board.  No load is sent before the page is ready.
Observe ==
    LET pruned == [coordinator EXCEPT
                     !.boardIDsByWebID = keeping(@, ids(presentedDocument)),
                     !.snapshot = Presented, !.observing = FALSE]
        settled  == coordinator.lastLoaded = <<presentedDocument>>
        restated == coordinator.ready /\ settled /\ state(coordinator.snapshot) # state(Presented)
    IN /\ coordinator.observing
       /\ coordinator' =
            CASE ~coordinator.ready            -> pruned
              [] coordinator.ready /\ settled  -> [pruned EXCEPT !.task = NoTask]
              [] coordinator.ready /\ ~settled ->
                   IF coordinator.lastLoaded = <<>> THEN scheduleLoad(pruned, Presented)
                   ELSE scheduleReconcile(pruned, Presented)
       /\ raced' = (raced \/ (settled /\ (canvasIsBehind \/ coordinator.task.task = "load")))
       /\ toPage' = IF restated THEN Append(toPage, call("state", Presented, "none")) ELSE toPage
       /\ UNCHANGED <<page, publication, draft, toNative, replies, acts>>

\* load and reconcile, one executor turn after they were scheduled.  A scene
\* accepted meanwhile does not cancel them.
RunTask ==
    LET t == coordinator.task
    IN /\ t # NoTask
       /\ coordinator' = [coordinator EXCEPT !.task = NoTask,
                                             !.lastLoaded = <<t.snapshot.document>>]
       /\ toPage' = Append(toPage, call(t.task, t.snapshot, "none"))
       /\ raced' = (raced \/ sceneIsComing \/ t.snapshot.document # coordinator.snapshot.document)
       /\ UNCHANGED <<page, publication, draft, toNative, replies, acts>>

-----------------------------------------------------------------------------
(* The person, in the application's menus and panels *)

pageUnchanged == UNCHANGED <<page, publication>>

MenuFlush ==
    \E then \in {"undo", "redo", "saveRevision"} :
        /\ "menu" \in Offered /\ Acts(then)
        /\ \/ /\ coordinator.ready
              /\ toPage' = Append(toPage, call("flush", none, then))
              /\ UNCHANGED <<draft, coordinator>>
           \/ /\ ~coordinator.ready
              /\ draft' = perform(draft, then)
              /\ coordinator' = [coordinator EXCEPT !.observing = TRUE]
              /\ UNCHANGED toPage
        /\ UNCHANGED <<toNative, replies, raced>> /\ pageUnchanged

InspectRevision ==
    /\ ~draft.inspecting /\ Acts("inspect")
    /\ draft' = [draft EXCEPT !.inspecting = TRUE]
    /\ coordinator' = [coordinator EXCEPT !.observing = TRUE]
    /\ UNCHANGED <<toPage, toNative, replies, raced>> /\ pageUnchanged

\* The work surface changes or the editor is tried again: a new page and coordinator.
ResetEditorSession ==
    /\ Acts("reset")
    /\ page' = NewPage
    /\ publication' = NewPublication
    /\ coordinator' = NewCoordinator(Presented)
    /\ toPage' = <<>> /\ toNative' = Ready /\ replies' = <<>>
    /\ UNCHANGED <<draft, raced>>

-----------------------------------------------------------------------------

Person == PointerDown \/ Draw \/ Move \/ Rotate \/ Select \/ Delete \/ Paste \/ FlushThenPost
          \/ PostTool \/ PostReturn \/ Blur \/ MenuFlush \/ InspectRevision \/ ResetEditorSession

System == FinishNativeUpdate \/ CommitChange \/ ReceiveUpdate \/ ReceiveFlush \/ PointerUp
          \/ ReceiveReady \/ ReceiveEvent \/ ReceiveReply \/ HandleReply \/ Observe \/ RunTask

Next == Person \/ System

Spec == Init /\ [][Next]_vars

\* Nothing is due: what remains to happen is up to the person.
Quiet ==
    /\ toPage = <<>> /\ toNative = <<>> /\ replies = <<>>
    /\ coordinator.task = NoTask /\ ~coordinator.observing
    /\ ~page.finishing /\ ~page.changed /\ ~page.held

\* WebKit delivers, SwiftUI observes, tasks and frames run, a pressed pointer is
\* lifted: while one of them is due, one of them happens.  This is WF_vars(System):
\* System is enabled unless Quiet, and its steps are those that do not count in acts.
Fairness == <>[]~Quiet => []<><<acts' = acts>>_vars

FairSpec == Spec /\ Fairness

-----------------------------------------------------------------------------
(* Properties *)

\* What each variable may hold.
TypeOK ==
    /\ acts \in 0..MaxActs /\ raced \in BOOLEAN
    /\ Len(page.canvas) <= MaxElements
    /\ \A e \in ToSet(page.canvas) :
          e.pose \in {"canonical", "free", "rotated"} /\ e.version \in Nat \ {0}
    /\ page.appState.tool \in DOMAIN nativeToolForExcalType
    /\ page.deferredUpdate.call \in {"none", "load", "reconcile", "state"}
    /\ publication.active \in BOOLEAN
    /\ draft.tool \in DOMAIN excalTypeForNativeTool
    /\ coordinator.task.task \in {"none", "load", "reconcile"}
    /\ Len(coordinator.lastLoaded) <= 1
    /\ \A m \in ToSet(toPage) : m.call \in {"load", "reconcile", "state", "flush"}
    /\ \A m \in ToSet(toNative) : m.event \in {"ready", "scene", "flushedCommand", "command", "reply"}
    /\ \A m \in ToSet(replies) : m.event = "reply"

\* An accepted edit waits in the page only while a pointer is down or before the
\* first baseline: cancelled and blurred gestures, flushes and native updates in any
\* order leave none behind (publishPendingScene and all its callers).
NoEditIsLeftBehind ==
    publication.pending = none \/ publication.active \/ publication.adopted = none

Shown == decodeChange(normalizeScene(page.canvas, page.appState),
                      coordinator.snapshot.document, coordinator.boardIDsByWebID)

\* When nothing is due, what the canvas shows is the presented Board, element by
\* element and under the same identities, and the pictograms are those of the canvas;
\* unless one of the races happened (receiveScene, update, finishNativeUpdate).
SettledCanvasShowsBoard ==
    Quiet /\ ~raced =>
        /\ ToSet(Shown.document) = ToSet(presentedDocument)
        /\ page.overlay = semanticOverlay(page.canvas)

IdentityStep ==
    raced' \/ \A e \in ToSet(draft.document), f \in ToSet(draft'.document) :
                  e.ink = f.ink => e.id = f.id

\* An element keeps its Board ID from one document to the next, also while the canvas
\* still has it under the ID Excalidraw drew it with (the web-ID-to-Board-ID ledger of
\* receiveScene and update).
IdentityIsStable == [][IdentityStep]_vars

inks(elements) == {e.ink : e \in ToSet(elements)}

\* Whatever the person draws reaches the draft, or leaves the canvas again (deleted, or
\* refused): also when it is drawn while a native update is applied.
EditsReachBoard ==
    \A i \in 1..MaxActs :
        i \in inks(live(page.canvas)) ~>
            raced \/ i \in inks(draft.document) \/ i \notin inks(live(page.canvas))

BaselineStep ==
    (toNative # <<>> /\ carriesScene(Head(toNative)) /\ ~page.hasLoaded) =>
        draft'.document = draft.document

\* A page that has not loaded the Board does not change it.
BaselineIsLoadedFirst == [][BaselineStep]_vars
===============================================================================
