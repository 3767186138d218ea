------------------------------ MODULE BoardScene ------------------------------
(***************************************************************************)
(* The two forms of a Board and the translations between them: the native  *)
(* document (BoardDocument, ExcalidrawBoardCodec.swift) and the elements   *)
(* on the Excalidraw canvas (main.jsx and the modules it imports).         *)
(*                                                                         *)
(* Position, size, text and colour are one value, the body; a label bound  *)
(* to a container is part of its container's.  A connector is bound to at  *)
(* most one box, its source: the target goes the same way.  ink names the  *)
(* gesture that made an element; no code reads it, the properties do.      *)
(***************************************************************************)
EXTENDS Integers, Sequences, FiniteSets, SequencesExt

none == [is |-> "none"]

\* Identities: a Board ID is a prefix and an ordinal.  A canvas element keeps the
\* ID Excalidraw drew it with, or has the Board ID it was loaded under.
boardID(prefix, n) == [is |-> "board", prefix |-> prefix, ordinal |-> n]
drawnID(n)         == [is |-> "drawn", ordinal |-> n]

NativeTypes == {"box", "connector", "label", "stroke"}
BoardIDs    == [is : {"board"}, prefix : NativeTypes, ordinal : Nat]

BoardNodeKind == {"generic", "decision", "ellipse", "client", "service", "database",
                  "queue", "storage"}

\* An element of a document.
Element == [id : BoardIDs, type : NativeTypes, kind : BoardNodeKind \cup {"none"}, body : Int,
            from : BoardIDs \cup {none}, ink : Int]

\* The elements of s at the positions in I, in their order.
nth(I, k)    == CHOOSE n \in I : Cardinality({m \in I : m <= n}) = k
picked(s, I) == [k \in 1..Cardinality(I) |-> s[nth(I, k)]]

-----------------------------------------------------------------------------
(* Tools and shapes *)

\* mutant: the native name of a tool is taken for Excalidraw's
nativeNames == [t \in {"hand", "select", "box", "connector", "label", "line", "pen",
                       "eraser"} |-> t]

excalTypeForNativeTool ==
    [hand |-> "hand", select |-> "selection", box |-> "rectangle",
     connector |-> "arrow", label |-> "text", line |-> "line",
     pen |-> "freedraw", eraser |-> "eraser"]

nativeToolForExcalType ==
    [hand |-> "hand", selection |-> "select", rectangle |-> "box",
     diamond |-> "box", ellipse |-> "box", arrow |-> "connector",
     line |-> "line", freedraw |-> "pen", text |-> "label", eraser |-> "eraser"]

boxKindForExcalType ==
    [rectangle |-> "generic", diamond |-> "decision", ellipse |-> "ellipse"]

\* Excalidraw has fewer shapes than a Board has node kinds.
semanticBoxPresentation(kind) ==
    CASE kind = "decision"                -> "diamond"
      [] kind \in {"ellipse", "database"} -> "ellipse"
      [] OTHER                            -> "rectangle"

\* The native type of a supported shape.
nativeType(shape) ==
    CASE shape \in DOMAIN boxKindForExcalType -> "box"
      [] shape = "arrow"                      -> "connector"
      [] shape = "text"                       -> "label"
      [] shape \in {"freedraw", "line"}       -> "stroke"
      [] OTHER                                -> "unsupported"

-----------------------------------------------------------------------------
(* From the document to the canvas *)

\* Connectors are drawn under strokes, labels and boxes, whatever the document says.
renderOrder(document) ==
    LET layer(type) == picked(document, {n \in DOMAIN document : document[n].type = type})
    IN layer("connector") \o layer("stroke") \o layer("label") \o layer("box")

excalidrawSkeleton(e) ==
    [web |-> e.id, board |-> e.id, kind |-> e.kind, body |-> e.body, from |-> e.from,
     shape |-> CASE e.type = "box"       -> semanticBoxPresentation(e.kind)
                 [] e.type = "connector" -> "arrow"
                 [] e.type = "label"     -> "text"
                 [] e.type = "stroke"    -> "freedraw",
     pose |-> "canonical", version |-> 1, deleted |-> FALSE, ink |-> e.ink]

toExcalidrawElements(elements) ==
    [n \in DOMAIN elements |-> excalidrawSkeleton(elements[n])]

\* A reconciled element is newer than the one it replaces, or Excalidraw would
\* not draw it again.
reconcileNativeElementVersions(canonical, current) ==
    [n \in DOMAIN canonical |->
        LET same == {c \in ToSet(current) : c.web = canonical[n].web}
        IN IF same = {} THEN canonical[n]
           ELSE [canonical[n] EXCEPT !.version = (CHOOSE c \in same : TRUE).version + 1]]

-----------------------------------------------------------------------------
(* From the canvas to a scene *)

live(elements) == picked(elements, {n \in DOMAIN elements : ~elements[n].deleted})

\* A rotated element has no canonical form, and neither has a shape no Board draws.
isSupported(e) == e.pose # "rotated" /\ nativeType(e.shape) # "unsupported"

supported(elements) ==
    picked(elements, {n \in DOMAIN elements : ~elements[n].deleted /\ isSupported(elements[n])})

normalized(e) ==
    [type |-> nativeType(e.shape), web |-> e.web, board |-> e.board,
     kind |-> IF e.kind = "none" /\ nativeType(e.shape) = "box"
                THEN boxKindForExcalType[e.shape] ELSE e.kind,
     body |-> e.body, from |-> e.from, pose |-> e.pose, ink |-> e.ink]

visible(elements) ==
    [n \in DOMAIN supported(elements) |-> normalized(supported(elements)[n])]

normalizeScene(elements, appState) ==
    [elements    |-> visible(elements),
     selected    |-> appState.selected,
     tool        |-> nativeToolForExcalType[appState.tool],
     unsupported |-> Len(live(elements)) - Len(supported(elements))]

\* Two canvases are told apart by the sum of their versions, their number of
\* elements and what is selected, not by what they show.
sceneRevision(elements, appState) ==
    [versions |-> FoldLeft(LAMBDA sum, e : sum + e.version, 0, elements),
     length   |-> Len(elements),
     appState |-> appState]

\* The pictograms and labels drawn in HTML over the canvas.
semanticOverlay(elements) ==
    {[web |-> e.web, kind |-> e.kind, body |-> e.body,
      pictogram |-> e.kind \notin {"decision", "ellipse"}] :
        e \in {x \in ToSet(live(elements)) :
                 x.board # none /\ nativeType(x.shape) = "box" /\ x.pose # "rotated"}}

-----------------------------------------------------------------------------
(* From a scene to the document *)

ids(document) == {e.id : e \in ToSet(document)}
typeIn(document, id) == (CHOOSE e \in ToSet(document) : e.id = id).type

nextID(prefix, used) ==
    boardID(prefix, CHOOSE n \in 1..Cardinality(used) + 1 :
        /\ boardID(prefix, n) \notin used
        /\ \A m \in 1..n - 1 : boardID(prefix, m) \in used)

\* The identity an element of a scene gets: the Board ID it claims, when that is
\* one of its type and no element before it took it, else the one its web ID was
\* given before, else a new one.
assignedID(e, used, document, preferred) ==
    LET free(id) == id \notin used
        fits(id) == id \in ids(document) => typeIn(document, id) = e.type
        claims   == e.board \in ids(document) /\ fits(e.board) /\ free(e.board)
        remembered == /\ e.web \in DOMAIN preferred
                      /\ fits(preferred[e.web]) /\ free(preferred[e.web])
    IN IF claims THEN [id |-> e.board, reload |-> FALSE]
       ELSE IF remembered THEN [id |-> preferred[e.web], reload |-> TRUE]
       ELSE [id |-> nextID(e.type, used \cup ids(document)), reload |-> TRUE]

\* One element after the other, each with what those before it took.
assignedIDs(elements, document, preferred) ==
    LET assigned[n \in DOMAIN elements] ==
            assignedID(elements[n], {assigned[m].id : m \in 1..n - 1}, document, preferred)
    IN assigned

decodedAs(scene, assigned) ==
    LET webIDToBoardID == [w \in {e.web : e \in ToSet(scene.elements)} |->
            assigned[CHOOSE n \in DOMAIN scene.elements : scene.elements[n].web = w].id]
        boardOf(w) == IF w \in DOMAIN webIDToBoardID THEN webIDToBoardID[w] ELSE none
        element(e, id) == [id |-> id, type |-> e.type, kind |-> e.kind, body |-> e.body,
                           from |-> boardOf(e.from), ink |-> e.ink]
    IN [isValid  |-> scene.unsupported = 0,
        document |-> [n \in DOMAIN scene.elements |->
                        element(scene.elements[n], assigned[n].id)],
        selected |-> boardOf(scene.selected),
        boardIDsByWebID |-> webIDToBoardID,
        tool     |-> scene.tool,
        requiresReload |-> \/ \E n \in DOMAIN assigned : assigned[n].reload
                           \/ \E e \in ToSet(scene.elements) : e.pose = "free"]

decodeChange(scene, document, preferred) ==
    decodedAs(scene, assignedIDs(scene.elements, document, preferred))
===============================================================================
