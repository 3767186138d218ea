------------------------ MODULE BoardEditorAgreement_proofs ------------------------
(***************************************************************************)
(* Canvas and draft agree (BoardEditorBridge), for every document, set of  *)
(* shapes, bound and choice of operations.                                 *)
(*                                                                         *)
(*   - IdentityStable: an element keeps its Board ID.                      *)
(*   - CanvasSettles: when nothing is due, the canvas shows the Board.     *)
(*                                                                         *)
(* IdentityStable needs an invariant about everything that may still       *)
(* become the draft.  Elements are followed by their ink, which no other   *)
(* element has.                                                            *)
(*                                                                         *)
(*   - What the page holds back shows what its canvas shows (PageFits).    *)
(*   - No two documents in the draft, its histories, the coordinator, the  *)
(*     calls or the update put off give one ink two IDs (Agreement), the   *)
(*     ledger is about the document of the snapshot (Ledger), and a scene  *)
(*     is not on its way while a document is (Steady).                     *)
(*   - While the page was sent the presented Board, the scenes on their    *)
(*     way and the canvas form a chain (Chain): each knows of every        *)
(*     element where the document or the ledger would find it (Known), and *)
(*     an element that a scene lacks does not come back in a later one     *)
(*     unless the document still has it (Later).  Accepting a scene moves  *)
(*     the document and the ledger along the chain (DecodeKeeps,           *)
(*     KnownMoves, LaterMoves, ChainAccepts).                              *)
(*                                                                         *)
(* CanvasSettles needs, besides, an invariant about everything that is     *)
(* still due.                                                              *)
(*                                                                         *)
(*   - What the page has published or adopted the coordinator has or will  *)
(*     have from the last scene, or the canvas will be replaced (Conveyed, *)
(*     Acknowledged); with nothing pending, the canvas is what was adopted *)
(*     (Reflects).  Balanced says both of every phase of an update.        *)
(*   - The coordinator has the presented Board or will observe it, has     *)
(*     sent it or has a task that will, and hears of a new page            *)
(*     (Followed).                                                         *)
(*   - A scene decodes to the same Board again after it was accepted,      *)
(*     after the ledger was pruned, and when a load drew it                *)
(*     (SettledDecodes, SettledPrunes, SettledLoads).                      *)
(*                                                                         *)
(* A step that races nothing keeps all this (StepHolds, StepInStep); one   *)
(* that does sets raced, and the properties ask no more.                   *)
(***************************************************************************)
EXTENDS BoardEditorBridge_proofs

-----------------------------------------------------------------------------
(* Identities from one document to the next *)

\* What identifies an element: the gesture, the two identities and the type.
who(e)     == [ink |-> e.ink, web |-> e.web, board |-> e.board, type |-> e.type]
drawnKey(c) == [ink |-> c.ink, web |-> c.web, board |-> c.board, type |-> nativeType(c.shape)]
Key == [ink : Int, web : WebIDs, board : BoardIDs \cup {none}, type : NativeTypes \cup {"unsupported"}]

keys(s) == {who(s[n]) : n \in DOMAIN s}
canvasKeys(c) == {drawnKey(c[n]) : n \in DOMAIN c}
inksOf(X) == {X[n].ink : n \in DOMAIN X}

isDrawn(k) == k.web.is = "drawn"

\* What the canvas came with lies under what was drawn on it, first drawn lowest.
before(k, l) == IF isDrawn(k) THEN isDrawn(l) /\ k.ink < l.ink
                ELSE k.ink # l.ink /\ k.web # l.web
InOrder(s) == \A m, n \in DOMAIN s : m < n => before(s[m], s[n])

\* A drawn element has the web ID of its gesture, another one its Board ID.
born(e, a) == e.ink <= a /\ IF isDrawn(e) THEN e.web = drawnID(e.ink) ELSE e.web = e.board
AllBorn(s, a) == \A n \in DOMAIN s : born(s[n], a)

\* The document has k as id.
identified(k, id, l) ==
    IF isDrawn(k) THEN k.web \in DOMAIN l /\ l[k.web] = id ELSE k.board = id

\* The document X and the ledger l know the elements of K, of which A are in some document.
Known(K, X, l, A) ==
    \A k \in K :
        /\ k.ink \in A => k.ink \in inksOf(X)
        /\ \A n \in DOMAIN X : X[n].ink = k.ink => X[n].type = k.type /\ identified(k, X[n].id, l)
        /\ k.web \in DOMAIN l => k.ink \in inksOf(X)
        /\ k.board # none => \E n \in DOMAIN X : X[n].id = k.board /\ X[n].type = k.type
        /\ ~isDrawn(k) => k.ink \in inksOf(X)
        /\ \A j \in K : \A n \in DOMAIN X :
              isDrawn(k) /\ before(j, k) /\ X[n].ink = k.ink => j.board # X[n].id

\* No element of s claims another Board ID than it was given.
Honest(s, l) ==
    \A n \in DOMAIN s : s[n].board # none /\ s[n].web \in DOMAIN l => l[s[n].web] = s[n].board

\* What decoding the scene s over X and l gives.
Decoded(s, X, l, Y, m) ==
    /\ DOMAIN Y = DOMAIN s
    /\ \A n \in DOMAIN s :
          /\ Y[n].ink = s[n].ink /\ Y[n].type = s[n].type
          /\ \A p \in DOMAIN X : X[p].ink = s[n].ink => Y[n].id = X[p].id
          /\ \A p \in DOMAIN X : X[p].id = Y[n].id => X[p].type = s[n].type
          /\ s[n].board # none => \E i \in DOMAIN s : i <= n /\ Y[i].id = s[n].board
          /\ s[n].web \in DOMAIN m /\ m[s[n].web] = Y[n].id
    /\ \A w \in DOMAIN m : (w \in DOMAIN l /\ m[w] = l[w] /\ m[w] \in {Y[n].id : n \in DOMAIN Y})
                           \/ \E n \in DOMAIN s : s[n].web = w

\* Elements of a canvas, or of a scene, are told apart by their ink and by their web ID.
LEMMA BornApart ==
    ASSUME NEW s, NEW N \in Nat, DOMAIN s = 1..N, \A i \in DOMAIN s : s[i].ink \in Int,
           NEW a, InOrder(s), AllBorn(s, a),
           NEW m \in DOMAIN s, NEW n \in DOMAIN s, m # n
    PROVE  s[m].ink # s[n].ink /\ s[m].web # s[n].web
  <1>1. m \in Int /\ n \in Int
    OBVIOUS
  <1>3. ASSUME NEW i \in DOMAIN s, NEW j \in DOMAIN s, before(s[i], s[j])
        PROVE  s[i].ink # s[j].ink /\ s[i].web # s[j].web
    <2>1. CASE ~isDrawn(s[i])
      BY <1>3, <2>1 DEF before
    <2>2. CASE isDrawn(s[i])
      <3>1. isDrawn(s[j]) /\ s[i].ink < s[j].ink
        BY <1>3, <2>2 DEF before
      <3>2. s[i].web = drawnID(s[i].ink) /\ s[j].web = drawnID(s[j].ink)
        BY <2>2, <3>1 DEF AllBorn, born
      <3>3. \A x, y : drawnID(x) = drawnID(y) => x = y
        <4>1. \A x : drawnID(x).ordinal = x
          BY DEF drawnID
        <4> QED BY <4>1
      <3> QED BY <3>1, <3>2, <3>3
    <2> QED BY <2>1, <2>2
  <1> QED BY <1>1, <1>3 DEF InOrder

\* The keys of a scene whose elements were all drawn by now.
LEMMA BornKeys ==
    ASSUME NEW s \in Seq(SceneElement), NEW a, InOrder(s), AllBorn(s, a),
           NEW m \in DOMAIN s, NEW n \in DOMAIN s, m # n
    PROVE  s[m].ink # s[n].ink /\ s[m].web # s[n].web
  <1>1. DOMAIN s = 1..Len(s) /\ Len(s) \in Nat /\ \A i \in DOMAIN s : s[i] \in SceneElement
    OBVIOUS
  <1>2. \A i \in DOMAIN s : s[i].ink \in Int
    BY <1>1 DEF SceneElement
  <1> QED BY <1>1, <1>2, BornApart

\* Decoding keeps the identities: an element the document has gets the ID it has there,
\* and the ledger tells where every element of the scene went.
LEMMA DecodeKeeps ==
    ASSUME NEW scene \in Scene, NEW s, s = scene.elements, NEW X \in Document, NEW l \in IDLedgers,
           NEW a, NEW A, InOrder(s), AllBorn(s, a), Honest(s, l), Known(keys(s), X, l, A),
           NEW d, d = decodeChange(scene, X, l),
           NEW m, m = learn(l, d)
    PROVE  Decoded(s, X, l, d.document, m)
  <1> DEFINE g == assignedIDs(s, X, l)
             Y == d.document
  <1>0. s \in Seq(SceneElement) /\ DOMAIN s = 1..Len(s) /\ Len(s) \in Nat
    BY DEF Scene, Bounded
  <1>1. X \in Seq(Element) /\ DistinctIDs(X) /\ IDLedger(l)
    BY LedgerIs DEF Document
  <1>2. /\ Y \in Document /\ DOMAIN Y = DOMAIN s
        /\ \A n \in DOMAIN s : Y[n].id = g[n].id /\ Y[n].type = s[n].type /\ Y[n].ink = s[n].ink
        /\ DOMAIN d.boardIDsByWebID = {s[n].web : n \in DOMAIN s}
        /\ \A w \in DOMAIN d.boardIDsByWebID :
                 \E n \in DOMAIN s : s[n].web = w /\ d.boardIDsByWebID[w] = g[n].id
    BY <1>1, DecodedIs
  <1>3. /\ \A n \in DOMAIN s :
                LET e == s[n]  used == taken(g, n)
                IN /\ g[n].id \in BoardIDs /\ g[n].id \notin used /\ fitsIn(g[n].id, e, X)
                   /\ claims(e, used, X) => g[n].id = e.board
                   /\ ~claims(e, used, X) /\ recalls(e, used, X, l) => g[n].id = l[e.web]
                   /\ ~claims(e, used, X) /\ ~recalls(e, used, X, l) => g[n].id \notin ids(X)
        /\ \A i, n \in DOMAIN s : i # n => g[i].id # g[n].id
    BY <1>0, <1>1, AssignedIs
  <1> HIDE DEF g, Y
  <1>4. \A p \in DOMAIN X : X[p].id \in ids(X) /\ typeIn(X, X[p].id) = X[p].type
    BY <1>1, TypeInIs
  <1>5. /\ \A n \in DOMAIN s : s[n] \in SceneElement
        /\ \A n \in DOMAIN s : s[n].ink \in Int /\ s[n].board \in BoardIDs \cup {none} /\ s[n].web \in WebIDs
    <2>1. \A n \in DOMAIN s : s[n] \in SceneElement
      BY <1>0
    <2> QED BY <2>1 DEF SceneElement
  <1>6. none \notin ids(X)
    <2>1. ids(X) = {X[n].id : n \in DOMAIN X}
      BY <1>1, IdsAreFinite
    <2>2. \A n \in DOMAIN X : X[n] \in Element
      BY <1>1
    <2>3. \A n \in DOMAIN X : X[n].id \in BoardIDs
      BY <2>2 DEF Element
    <2> QED BY <2>1, <2>3, NoneIsNoID
  <1>7. ASSUME NEW n \in DOMAIN s PROVE
           /\ who(s[n]) \in keys(s)
           /\ who(s[n]).ink = s[n].ink /\ who(s[n]).web = s[n].web /\ who(s[n]).board = s[n].board
           /\ who(s[n]).type = s[n].type
           /\ isDrawn(who(s[n])) <=> isDrawn(s[n])
    BY DEF who, keys, isDrawn
  <1>8. ASSUME NEW i \in DOMAIN s, NEW n \in DOMAIN s PROVE before(who(s[i]), who(s[n])) <=> before(s[i], s[n])
    BY <1>7 DEF before
  <1>9. ASSUME NEW n \in DOMAIN s
        PROVE  /\ \A p \in DOMAIN X : X[p].ink = s[n].ink => X[p].type = s[n].type /\ identified(s[n], X[p].id, l)
               /\ s[n].web \in DOMAIN l => s[n].ink \in inksOf(X)
               /\ s[n].board # none => \E p \in DOMAIN X : X[p].id = s[n].board /\ X[p].type = s[n].type
               /\ ~isDrawn(s[n]) => s[n].ink \in inksOf(X)
               /\ \A i \in DOMAIN s : \A p \in DOMAIN X :
                     isDrawn(s[n]) /\ before(s[i], s[n]) /\ X[p].ink = s[n].ink => s[i].board # X[p].id
    BY <1>7, <1>8 DEF Known, identified
  <1>10. ASSUME NEW n \in DOMAIN s, s[n].board # none
         PROVE  /\ s[n].board \in ids(X) /\ fitsIn(s[n].board, s[n], X)
                /\ g[n].id = s[n].board \/ \E i \in 1..n - 1 : g[i].id = s[n].board
    <2>1. PICK p \in DOMAIN X : X[p].id = s[n].board /\ X[p].type = s[n].type
      BY <1>9, <1>10
    <2>2. s[n].board \in ids(X) /\ fitsIn(s[n].board, s[n], X)
      BY <2>1, <1>4 DEF fitsIn
    <2>3. s[n].board \notin taken(g, n) => claims(s[n], taken(g, n), X)
      BY <2>2 DEF claims
    <2> QED BY <2>2, <2>3, <1>3 DEF taken
  <1>11. ASSUME NEW n \in DOMAIN s, s[n].ink \notin inksOf(X), g[n].id \in ids(X)
         PROVE  g[n].id = s[n].board
    <2>1. s[n].web \notin DOMAIN l
      BY <1>9, <1>11
    <2>2. ~recalls(s[n], taken(g, n), X, l)
      BY <2>1 DEF recalls
    <2> QED BY <2>2, <1>3, <1>11
  <1>12. \A n \in DOMAIN s : \A p \in DOMAIN X : X[p].ink = s[n].ink => g[n].id = X[p].id
    <2> DEFINE bad == {n \in DOMAIN s : \E p \in DOMAIN X : X[p].ink = s[n].ink /\ g[n].id # X[p].id}
    <2> SUFFICES ASSUME bad # {} PROVE FALSE
      OBVIOUS
    <2>1. bad \in SUBSET Nat
      BY <1>0
    <2> HIDE DEF bad
    <2>2. PICK n \in bad : \A i \in bad : n <= i
      BY <2>1, SmallestExists
    <2>3. n \in DOMAIN s /\ n \in Nat
      BY <2>1, <2>2 DEF bad
    <2>4. PICK p \in DOMAIN X : X[p].ink = s[n].ink /\ g[n].id # X[p].id
      BY <2>2 DEF bad
    <2>5. X[p].type = s[n].type /\ identified(s[n], X[p].id, l)
      BY <1>9, <2>3, <2>4
    <2>6. fitsIn(X[p].id, s[n], X) /\ X[p].id \in ids(X) /\ X[p].id # none
      BY <1>4, <1>6, <2>5 DEF fitsIn
    <2>7. \A i \in 1..n - 1 : i \in DOMAIN s /\ i \notin bad /\ i < n /\ before(s[i], s[n])
      <3>1. \A i \in 1..n - 1 : i \in DOMAIN s /\ i < n
        BY <1>0, <2>3
      <3>2. \A i \in 1..n - 1 : i \notin bad
        BY <2>1, <2>2, <2>3
      <3> QED BY <3>1, <3>2, <2>3 DEF InOrder
    <2>8. X[p].id \notin taken(g, n)
      <3> SUFFICES ASSUME NEW i \in 1..n - 1, g[i].id = X[p].id PROVE FALSE
        BY DEF taken
      <3>1. i \in DOMAIN s /\ i \notin bad /\ i < n /\ before(s[i], s[n])
        BY <2>7
      <3>2. CASE s[i].ink \in inksOf(X)
        <4>1. PICK q \in DOMAIN X : X[q].ink = s[i].ink
          BY <3>2 DEF inksOf
        <4>2. g[i].id = X[q].id
          BY <3>1, <4>1 DEF bad
        <4>3. q = p
          BY <1>1, <4>2 DEF DistinctIDs
        <4>4. s[i].ink = s[n].ink
          BY <2>4, <4>1, <4>3
        <4>5. i # n
          BY <3>1, <2>3
        <4> QED BY <1>0, <3>1, <2>3, <4>4, <4>5, BornKeys
      <3>3. CASE s[i].ink \notin inksOf(X)
        <4>1. g[i].id = s[i].board
          BY <3>1, <3>3, <1>11, <2>6
        <4>2. isDrawn(s[i])
          BY <3>1, <3>3, <1>9
        <4>3. isDrawn(s[n])
          BY <3>1, <4>2 DEF before
        <4> QED BY <1>9, <2>3, <2>4, <3>1, <4>1, <4>3
      <3> QED BY <3>2, <3>3
    <2>9. CASE ~isDrawn(s[n])
      <3>1. s[n].board = X[p].id
        BY <2>5, <2>9 DEF identified
      <3>2. claims(s[n], taken(g, n), X)
        BY <3>1, <2>6, <2>8 DEF claims
      <3> QED BY <3>1, <3>2, <1>3, <2>3, <2>4
    <2>10. CASE isDrawn(s[n])
      <3>1. s[n].web \in DOMAIN l /\ l[s[n].web] = X[p].id
        BY <2>5, <2>10 DEF identified
      <3>2. CASE s[n].board # none
        <4>1. s[n].board = X[p].id
          BY <3>1, <3>2, <2>3 DEF Honest
        <4>2. claims(s[n], taken(g, n), X)
          BY <4>1, <2>6, <2>8 DEF claims
        <4> QED BY <4>1, <4>2, <1>3, <2>3, <2>4
      <3>3. CASE s[n].board = none
        <4>1. ~claims(s[n], taken(g, n), X)
          BY <3>3, <1>6 DEF claims
        <4>2. recalls(s[n], taken(g, n), X, l)
          BY <3>1, <2>6, <2>8 DEF recalls
        <4> QED BY <3>1, <4>1, <4>2, <1>3, <2>3, <2>4
      <3> QED BY <3>2, <3>3
    <2> QED BY <2>9, <2>10
  <1>13. ASSUME NEW n \in DOMAIN s
         PROVE  \A p \in DOMAIN X : X[p].id = Y[n].id => X[p].type = s[n].type
    BY <1>2, <1>3, <1>4 DEF fitsIn
  <1>14. ASSUME NEW n \in DOMAIN s, s[n].board # none
         PROVE  \E i \in DOMAIN s : i <= n /\ Y[i].id = s[n].board
    <2>1. CASE g[n].id = s[n].board
      BY <2>1, <1>0, <1>2
    <2>2. CASE \E i \in 1..n - 1 : g[i].id = s[n].board
      <3>1. PICK i \in 1..n - 1 : g[i].id = s[n].board
        BY <2>2
      <3>2. i \in DOMAIN s /\ i <= n
        BY <1>0
      <3> QED BY <1>2, <3>1, <3>2
    <2> QED BY <1>10, <1>14, <2>1, <2>2
  <1>15. d.boardIDsByWebID \in IDLedgers
    BY DecodedTyped
  <1>16. /\ DOMAIN m = DOMAIN d.boardIDsByWebID \cup {w \in DOMAIN l : l[w] \in ids(Y)}
         /\ \A w \in DOMAIN m : m[w] = IF w \in DOMAIN d.boardIDsByWebID THEN d.boardIDsByWebID[w] ELSE l[w]
    BY <1>15, LearnIs DEF Y
  <1>17. ASSUME NEW n \in DOMAIN s
         PROVE  s[n].web \in DOMAIN m /\ m[s[n].web] = Y[n].id
    <2>1. s[n].web \in DOMAIN d.boardIDsByWebID
      BY <1>2
    <2>2. PICK i \in DOMAIN s : s[i].web = s[n].web /\ d.boardIDsByWebID[s[n].web] = g[i].id
      BY <1>2, <2>1
    <2>3. i = n
      BY <1>0, <2>2, BornKeys
    <2> QED BY <1>2, <1>16, <2>1, <2>2, <2>3
  <1>18. ids(Y) = {Y[n].id : n \in DOMAIN Y}
    BY DEF ids, ToSet
  <1>19. ASSUME NEW w \in DOMAIN m
         PROVE  (w \in DOMAIN l /\ m[w] = l[w] /\ m[w] \in {Y[n].id : n \in DOMAIN Y})
                \/ \E n \in DOMAIN s : s[n].web = w
    <2>1. CASE w \in DOMAIN d.boardIDsByWebID
      BY <2>1, <1>2
    <2>2. CASE w \notin DOMAIN d.boardIDsByWebID
      BY <2>2, <1>16, <1>18
    <2> QED BY <2>1, <2>2
  <1>20. \A n \in DOMAIN s : \A p \in DOMAIN X : X[p].ink = s[n].ink => Y[n].id = X[p].id
    BY <1>2, <1>12
  <1>21. Decoded(s, X, l, Y, m)
    BY <1>2, <1>13, <1>14, <1>17, <1>19, <1>20 DEF Decoded
  <1> QED BY <1>21 DEF Y

-----------------------------------------------------------------------------
(* The scenes on their way and the canvas they were taken from *)

\* M is of a later time than K.
Later(K, M, X) ==
    \A j \in M :
        /\ j.ink \in inksOf(X) => j \in K
        /\ j.board # none => \E k \in K : k.board = j.board
        /\ j \notin K => \A k \in K : k.ink < j.ink

\* What went away between K and M does not come back by N.
Lasting(K, M, N) == \A k \in K : k \in N => k \in M

\* An element is known by its gesture, and by its web ID.
Coherent(R) == \A k, j \in R : k.ink = j.ink \/ k.web = j.web => k = j

Within(K, R) == \A k \in K : k \in R

\* The keys of a scene.
LEMMA KeysAre ==
    ASSUME NEW s, NEW K, K = keys(s)
    PROVE  /\ \A k \in K : \E n \in DOMAIN s : /\ k = who(s[n]) /\ k.ink = s[n].ink /\ k.web = s[n].web
                                               /\ k.board = s[n].board /\ k.type = s[n].type
                                               /\ isDrawn(k) <=> isDrawn(s[n])
           /\ \A n \in DOMAIN s : /\ who(s[n]) \in K /\ who(s[n]).ink = s[n].ink /\ who(s[n]).web = s[n].web
                                  /\ who(s[n]).board = s[n].board /\ who(s[n]).type = s[n].type
                                  /\ isDrawn(who(s[n])) <=> isDrawn(s[n])
  BY DEF keys, who, isDrawn

\* The elements of a document.
LEMMA DocumentIs ==
    ASSUME NEW X \in Document
    PROVE  DistinctIDs(X) /\ X \in Seq(Element)
           /\ \A n \in DOMAIN X : /\ X[n] \in Element /\ X[n].id \in BoardIDs /\ X[n].id # none
                                  /\ X[n].ink \in Int /\ X[n].type \in NativeTypes
  <1>1. X \in Seq(Element) /\ DistinctIDs(X)
    BY DEF Document
  <1>2. \A n \in DOMAIN X : X[n] \in Element
    BY <1>1
  <1>3. \A n \in DOMAIN X : X[n].id \in BoardIDs /\ X[n].ink \in Int /\ X[n].type \in NativeTypes
    BY <1>2 DEF Element
  <1> QED BY <1>1, <1>2, <1>3, NoneIsNoID

\* An element of the decoded document is one of the scene.
LEMMA DecodedKey ==
    ASSUME NEW s, NEW K, K = keys(s), NEW R, Coherent(R), Within(K, R), NEW X, NEW l, NEW Y, NEW m,
           Decoded(s, X, l, Y, m), NEW k \in R, k.ink \in inksOf(Y)
    PROVE  k \in K /\ \E n \in DOMAIN s : k = who(s[n]) /\ Y[n].ink = k.ink
  <1>1. PICK n \in DOMAIN s : Y[n].ink = k.ink /\ s[n].ink = k.ink
    BY DEF inksOf, Decoded
  <1>2. who(s[n]) \in K /\ who(s[n]).ink = k.ink
    BY <1>1, KeysAre
  <1>3. k = who(s[n])
    BY <1>2 DEF Coherent, Within
  <1> QED BY <1>1, <1>2, <1>3

\* The scene of K is decoded: what is later is known under the new document.
LEMMA KnownMoves ==
    ASSUME NEW s \in Seq(SceneElement), InOrder(s), NEW K, K = keys(s), NEW M,
           NEW R, Coherent(R), Within(K, R), Within(M, R), Within(R, Key),
           NEW X, NEW l, NEW A, Known(K, X, l, A), Known(M, X, l, A), Later(K, M, X),
           NEW Y \in Document, NEW m, Decoded(s, X, l, Y, m),
           NEW B, \A i \in B : i \in A \/ i \in inksOf(Y)
    PROVE  Known(M, Y, m, B)
  <1>0. DOMAIN s = 1..Len(s) /\ Len(s) \in Nat /\ DOMAIN Y = DOMAIN s
    BY DEF Decoded
  <1>d. DistinctIDs(Y) /\ \A n \in DOMAIN Y : Y[n].id # none
    BY DocumentIs
  <1>i. \A k \in R : k.ink \in Int
    BY DEF Within, Key
  <1>k. \A k \in K : k \in R
    BY DEF Within
  <1>m. \A k \in M : k \in R
    BY DEF Within
  \* An element of K is in the new document.
  <1>1. ASSUME NEW k \in K
        PROVE  \E n \in DOMAIN s : /\ k = who(s[n]) /\ Y[n].ink = k.ink /\ Y[n].type = k.type
                                   /\ k.ink \in inksOf(Y) /\ n \in DOMAIN Y
                                   /\ k.web \in DOMAIN m /\ m[k.web] = Y[n].id
                                   /\ \A p \in DOMAIN X : X[p].ink = k.ink => Y[n].id = X[p].id
    <2>1. PICK n \in DOMAIN s : /\ k = who(s[n]) /\ k.ink = s[n].ink /\ k.web = s[n].web
                                /\ k.board = s[n].board /\ k.type = s[n].type
      BY KeysAre
    <2>2. Y[n].ink = k.ink /\ Y[n].type = k.type /\ n \in DOMAIN Y
      BY <2>1 DEF Decoded
    <2>3. k.ink \in inksOf(Y)
      BY <2>2 DEF inksOf
    <2>4. k.web \in DOMAIN m /\ m[k.web] = Y[n].id
          /\ \A p \in DOMAIN X : X[p].ink = k.ink => Y[n].id = X[p].id
      BY <2>1 DEF Decoded
    <2> QED BY <2>1, <2>2, <2>3, <2>4
  <1>2. ASSUME NEW k \in M, NEW n \in DOMAIN Y, Y[n].ink = k.ink
        PROVE  k \in K /\ k = who(s[n]) /\ k.type = Y[n].type /\ k.web = s[n].web /\ k.board = s[n].board
               /\ (isDrawn(k) <=> isDrawn(s[n])) /\ k.ink = s[n].ink
    <2>1. n \in DOMAIN s /\ s[n].ink = k.ink /\ s[n].type = Y[n].type
      BY <1>0, <1>2 DEF Decoded
    <2>2. /\ who(s[n]) \in K /\ who(s[n]).ink = s[n].ink /\ who(s[n]).web = s[n].web
          /\ who(s[n]).board = s[n].board /\ who(s[n]).type = s[n].type
          /\ isDrawn(who(s[n])) <=> isDrawn(s[n])
      BY <2>1, KeysAre
    <2>3. who(s[n]) = k
      BY <1>k, <1>m, <2>1, <2>2 DEF Coherent
    <2> QED BY <2>1, <2>2, <2>3
  <1>3. ASSUME NEW k \in M, k.ink \in inksOf(X) PROVE k \in K /\ k.ink \in inksOf(Y)
    BY <1>1, <1>3 DEF Later
  <1>4. ASSUME NEW k \in M, k.ink \in B PROVE k.ink \in inksOf(Y)
    <2>1. CASE k.ink \in A
      <3>1. k.ink \in inksOf(X)
        BY <2>1 DEF Known
      <3> QED BY <3>1, <1>3
    <2> QED BY <1>4, <2>1
  <1>5. ASSUME NEW k \in M, ~isDrawn(k)
        PROVE  k.ink \in inksOf(Y) /\ \A n \in DOMAIN Y : Y[n].ink = k.ink => Y[n].id = k.board
    <2>1. k.ink \in inksOf(X)
      BY <1>5 DEF Known
    <2>2. k.ink \in inksOf(Y)
      BY <1>3, <2>1
    <2>3. PICK p \in DOMAIN X : X[p].ink = k.ink
      BY <2>1 DEF inksOf
    <2>4. k.board = X[p].id
      BY <1>5, <2>3 DEF Known, identified
    <2>5. ASSUME NEW n \in DOMAIN Y, Y[n].ink = k.ink PROVE Y[n].id = k.board
      <3>1. n \in DOMAIN s /\ s[n].ink = k.ink
        BY <1>0, <1>2, <2>5
      <3>2. Y[n].id = X[p].id
        BY <3>1, <2>3 DEF Decoded
      <3> QED BY <3>2, <2>4
    <2> QED BY <2>2, <2>5
  <1>6. ASSUME NEW k \in M, NEW n \in DOMAIN Y, Y[n].ink = k.ink
        PROVE  Y[n].type = k.type /\ identified(k, Y[n].id, m)
    <2>1. CASE isDrawn(k)
      <3>1. n \in DOMAIN s /\ k.web = s[n].web /\ k.type = Y[n].type
        BY <1>0, <1>2, <1>6
      <3>2. k.web \in DOMAIN m /\ m[k.web] = Y[n].id
        BY <3>1 DEF Decoded
      <3> QED BY <2>1, <3>1, <3>2 DEF identified
    <2>2. CASE ~isDrawn(k)
      BY <2>2, <1>2, <1>5, <1>6 DEF identified
    <2> QED BY <2>1, <2>2
  <1>7. ASSUME NEW k \in M, k.web \in DOMAIN m PROVE k.ink \in inksOf(Y)
    <2>1. CASE k.web \in DOMAIN l
      <3>1. k.ink \in inksOf(X)
        BY <2>1 DEF Known
      <3> QED BY <3>1, <1>3
    <2>2. CASE k.web \notin DOMAIN l
      <3>1. PICK n \in DOMAIN s : s[n].web = k.web
        BY <1>7, <2>2 DEF Decoded
      <3>2. who(s[n]) \in K /\ who(s[n]).web = k.web
        BY <3>1, KeysAre
      <3>3. who(s[n]) = k
        BY <1>k, <1>m, <3>2 DEF Coherent
      <3>4. k \in K
        BY <3>2, <3>3
      <3> QED BY <1>1, <3>4
    <2> QED BY <2>1, <2>2
  <1>8. ASSUME NEW k \in M, k.board # none
        PROVE  \E n \in DOMAIN Y : Y[n].id = k.board /\ Y[n].type = k.type
    <2>1. PICK j \in K : j.board = k.board
      BY <1>8 DEF Later
    <2>2. PICK n \in DOMAIN s : j.board = s[n].board
      BY KeysAre
    <2>3. PICK i \in DOMAIN s : Y[i].id = s[n].board
      BY <1>8, <2>1, <2>2 DEF Decoded
    <2>4. PICK p \in DOMAIN X : X[p].id = k.board /\ X[p].type = k.type
      BY <1>8 DEF Known
    <2>5. X[p].type = s[i].type /\ Y[i].type = s[i].type
      BY <2>1, <2>2, <2>3, <2>4 DEF Decoded
    <2> QED BY <1>0, <2>1, <2>2, <2>3, <2>4, <2>5
  <1>9. ASSUME NEW k \in M, NEW j \in M, NEW n \in DOMAIN Y, isDrawn(k), before(j, k), Y[n].ink = k.ink,
               j.board = Y[n].id, j.board # none
        PROVE  FALSE
    <2>1. k \in K /\ k = who(s[n]) /\ n \in DOMAIN s /\ isDrawn(s[n]) /\ k.ink = s[n].ink
      BY <1>0, <1>2, <1>9
    <2>2. CASE ~isDrawn(j)
      <3>1. j.ink \in inksOf(Y) /\ \A i \in DOMAIN Y : Y[i].ink = j.ink => Y[i].id = j.board
        BY <2>2, <1>5
      <3>2. PICK i \in DOMAIN Y : Y[i].ink = j.ink /\ Y[i].id = j.board
        BY <3>1 DEF inksOf
      <3>3. i = n
        BY <1>d, <3>2, <1>9 DEF DistinctIDs
      <3>4. j.ink # k.ink
        BY <2>2, <1>9 DEF before
      <3> QED BY <1>9, <3>2, <3>3, <3>4
    <2>3. CASE isDrawn(j)
      <3>1. j.ink < k.ink
        BY <2>3, <1>9 DEF before
      <3>2. j \in K
        <4> SUFFICES ASSUME j \notin K PROVE FALSE
          OBVIOUS
        <4>1. k.ink < j.ink
          BY <2>1 DEF Later
        <4> QED BY <3>1, <4>1, <1>i, <1>m
      <3>3. PICK i \in DOMAIN s : j = who(s[i]) /\ j.ink = s[i].ink /\ j.board = s[i].board /\ isDrawn(s[i])
        BY <2>3, <3>2, KeysAre
      <3>4. i < n
        <4> SUFFICES ASSUME ~(i < n) PROVE FALSE
          OBVIOUS
        <4>1. i \in Int /\ n \in Int
          BY <1>0
        <4>2. j.ink \in Int /\ k.ink \in Int
          BY <1>i, <1>m
        <4>3. i # n
          BY <3>1, <3>3, <2>1, <4>2
        <4>4. n < i
          BY <4>1, <4>3
        <4>5. before(s[n], s[i])
          BY <2>1, <3>3, <4>4 DEF InOrder
        <4>6. s[n].ink < s[i].ink
          BY <2>1, <4>5 DEF before
        <4> QED BY <2>1, <3>1, <3>3, <4>2, <4>6
      <3>5. PICK h \in DOMAIN s : h <= i /\ Y[h].id = s[i].board
        BY <1>9, <3>3 DEF Decoded
      <3>6. h = n
        BY <1>d, <1>0, <1>9, <3>3, <3>5 DEF DistinctIDs
      <3> QED BY <1>0, <2>1, <3>4, <3>5, <3>6
    <2> QED BY <2>2, <2>3
  <1>10. ASSUME NEW k \in M, NEW j \in M, NEW n \in DOMAIN Y, isDrawn(k), before(j, k), Y[n].ink = k.ink,
                j.board = Y[n].id
         PROVE  FALSE
    <2>1. CASE j.board # none
      BY <2>1, <1>9, <1>10
    <2>2. CASE j.board = none
      BY <2>2, <1>10, <1>d
    <2> QED BY <2>1, <2>2
  <1> QED
    BY <1>4, <1>5, <1>6, <1>7, <1>8, <1>10 DEF Known

\* What is later than the document is later than the decoded one.
LEMMA LaterMoves ==
    ASSUME NEW s, NEW K, K = keys(s), NEW M, NEW N, NEW R, Coherent(R), Within(K, R), Within(N, R),
           NEW X, NEW l, NEW Y, NEW m, Decoded(s, X, l, Y, m), Later(M, N, X), Lasting(K, M, N)
    PROVE  Later(M, N, Y)
  <1>1. ASSUME NEW j \in N, j.ink \in inksOf(Y) PROVE j \in M
    <2>1. j \in K
      BY <1>1, DecodedKey DEF Within
    <2> QED BY <2>1 DEF Lasting
  <1> QED BY <1>1 DEF Later

sceneKeys(m) == keys(m.scene.elements)
Scenes(ms)   == {i \in DOMAIN ms : carriesScene(ms[i])}

\* The scenes in ms, in their order, and then the canvas with the elements C, R with those deleted.
Chain(ms, C, R, X, l, A) ==
    /\ Within(C, R) /\ Known(C, X, l, A)
    /\ \A i \in Scenes(ms) :
          Within(sceneKeys(ms[i]), R) /\ Known(sceneKeys(ms[i]), X, l, A) /\ Later(sceneKeys(ms[i]), C, X)
    /\ \A i, j \in Scenes(ms) : i < j =>
          Later(sceneKeys(ms[i]), sceneKeys(ms[j]), X) /\ Lasting(sceneKeys(ms[i]), sceneKeys(ms[j]), C)
    /\ \A i, j, k \in Scenes(ms) : i < j /\ j < k =>
          Lasting(sceneKeys(ms[i]), sceneKeys(ms[j]), sceneKeys(ms[k]))

\* ns is ms without some messages.
Fewer(ns, ms, f) ==
    /\ \A i \in DOMAIN ns : f[i] \in DOMAIN ms /\ ns[i] = ms[f[i]]
    /\ \A i, j \in DOMAIN ns : i < j => f[i] < f[j]

SameLedger(l, m) ==
    (\A w \in DOMAIN l : w \in DOMAIN m /\ m[w] = l[w]) /\ \A w \in DOMAIN m : w \in DOMAIN l

\* Less is known of fewer documents.
LEMMA KnownLess ==
    ASSUME NEW K, NEW X, NEW l, NEW A, Known(K, X, l, A), NEW B, \A i \in B : i \in A,
           NEW m, SameLedger(l, m)
    PROVE  Known(K, X, m, B)
  <1>1. ASSUME NEW k \in K, NEW id, identified(k, id, l) PROVE identified(k, id, m)
    BY <1>1 DEF identified, SameLedger
  <1>2. ASSUME NEW k \in K, k.web \in DOMAIN m PROVE k.ink \in inksOf(X)
    BY <1>2 DEF Known, SameLedger
  <1> QED BY <1>1, <1>2 DEF Known

\* Messages that are delivered, or never mattered.
LEMMA ChainShrinks ==
    ASSUME NEW ms, NEW C, NEW R, NEW X, NEW l, NEW A, Chain(ms, C, R, X, l, A),
           NEW ns, NEW f, Fewer(ns, ms, f), NEW m, SameLedger(l, m), NEW B, \A i \in B : i \in A
    PROVE  Chain(ns, C, R, X, m, B)
  <1>1. \A i \in Scenes(ns) : f[i] \in Scenes(ms) /\ sceneKeys(ns[i]) = sceneKeys(ms[f[i]])
    BY DEF Fewer, Scenes
  <1>2. \A i, j \in Scenes(ns) : i < j => f[i] < f[j]
    BY DEF Fewer, Scenes
  <1>3. ASSUME NEW K, Known(K, X, l, A) PROVE Known(K, X, m, B)
    BY <1>3, KnownLess
  <1>4. Within(C, R) /\ Known(C, X, m, B)
    BY <1>3 DEF Chain
  <1>5. ASSUME NEW i \in Scenes(ns)
        PROVE  Within(sceneKeys(ns[i]), R) /\ Known(sceneKeys(ns[i]), X, m, B) /\ Later(sceneKeys(ns[i]), C, X)
    BY <1>1, <1>3 DEF Chain
  <1>6. ASSUME NEW i \in Scenes(ns), NEW j \in Scenes(ns), i < j
        PROVE  Later(sceneKeys(ns[i]), sceneKeys(ns[j]), X) /\ Lasting(sceneKeys(ns[i]), sceneKeys(ns[j]), C)
    BY <1>1, <1>2, <1>6 DEF Chain
  <1>7. ASSUME NEW i \in Scenes(ns), NEW j \in Scenes(ns), NEW k \in Scenes(ns), i < j, j < k
        PROVE  Lasting(sceneKeys(ns[i]), sceneKeys(ns[j]), sceneKeys(ns[k]))
    <2>1. f[i] < f[j] /\ f[j] < f[k]
      BY <1>2, <1>7
    <2>2. Lasting(sceneKeys(ms[f[i]]), sceneKeys(ms[f[j]]), sceneKeys(ms[f[k]]))
      BY <1>1, <2>1 DEF Chain
    <2> QED BY <1>1, <2>2
  <1> QED BY <1>4, <1>5, <1>6, <1>7 DEF Chain

\* The first scene is accepted.
LEMMA ChainAccepts ==
    ASSUME NEW ms, NEW C, NEW R, NEW X, NEW l, NEW A, Chain(ms, C, R, X, l, A),
           Coherent(R), Within(R, Key), NEW h \in Scenes(ms),
           NEW s \in Seq(SceneElement), s = ms[h].scene.elements, InOrder(s),
           NEW Y \in Document, NEW m, Decoded(s, X, l, Y, m),
           NEW ns, NEW f, Fewer(ns, ms, f), \A i \in DOMAIN ns : carriesScene(ns[i]) => h < f[i],
           NEW B, \A i \in B : i \in A \/ i \in inksOf(Y)
    PROVE  Chain(ns, C, R, Y, m, B)
  <1> DEFINE K == keys(s)
  <1>0. K = sceneKeys(ms[h])
    BY DEF sceneKeys
  <1>1. \A i \in Scenes(ns) : f[i] \in Scenes(ms) /\ sceneKeys(ns[i]) = sceneKeys(ms[f[i]]) /\ h < f[i]
    BY DEF Fewer, Scenes
  <1>2. \A i, j \in Scenes(ns) : i < j => f[i] < f[j]
    BY DEF Fewer, Scenes
  <1>3. Within(K, R) /\ Known(K, X, l, A) /\ Later(K, C, X)
    BY <1>0 DEF Chain
  <1>4. Within(C, R) /\ Known(C, X, l, A)
    BY DEF Chain
  <1>5. ASSUME NEW M, Within(M, R), Known(M, X, l, A), Later(K, M, X) PROVE Known(M, Y, m, B)
    BY <1>3, <1>5, KnownMoves
  <1>6. ASSUME NEW M, NEW N, Within(N, R), Later(M, N, X), Lasting(K, M, N) PROVE Later(M, N, Y)
    BY <1>3, <1>6, LaterMoves
  <1> HIDE DEF K
  <1>7. Known(C, Y, m, B)
    BY <1>3, <1>4, <1>5
  <1>8. ASSUME NEW i \in Scenes(ns)
        PROVE  /\ Within(sceneKeys(ns[i]), R) /\ Known(sceneKeys(ns[i]), Y, m, B)
               /\ Later(sceneKeys(ns[i]), C, Y)
    <2> DEFINE M == sceneKeys(ms[f[i]])
    <2>0. sceneKeys(ns[i]) = M /\ f[i] \in Scenes(ms) /\ h < f[i]
      BY <1>1
    <2>1. Within(M, R) /\ Known(M, X, l, A) /\ Later(M, C, X)
      BY <2>0 DEF Chain
    <2>2. Later(K, M, X) /\ Lasting(K, M, C)
      BY <1>0, <2>0 DEF Chain
    <2> HIDE DEF M
    <2> QED BY <1>4, <1>5, <1>6, <2>0, <2>1, <2>2
  <1>9. ASSUME NEW i \in Scenes(ns), NEW j \in Scenes(ns), i < j
        PROVE  Later(sceneKeys(ns[i]), sceneKeys(ns[j]), Y) /\ Lasting(sceneKeys(ns[i]), sceneKeys(ns[j]), C)
    <2> DEFINE M == sceneKeys(ms[f[i]])
               N == sceneKeys(ms[f[j]])
    <2>0. sceneKeys(ns[i]) = M /\ sceneKeys(ns[j]) = N /\ f[i] \in Scenes(ms) /\ f[j] \in Scenes(ms)
          /\ h < f[i] /\ f[i] < f[j]
      BY <1>1, <1>2, <1>9
    <2>1. Later(M, N, X) /\ Lasting(M, N, C)
      BY <2>0 DEF Chain
    <2>2. Lasting(K, M, N)
      BY <1>0, <2>0 DEF Chain
    <2>3. Within(N, R)
      BY <2>0 DEF Chain
    <2> HIDE DEF M, N
    <2> QED BY <1>6, <2>0, <2>1, <2>2, <2>3
  <1>10. ASSUME NEW i \in Scenes(ns), NEW j \in Scenes(ns), NEW k \in Scenes(ns), i < j, j < k
        PROVE  Lasting(sceneKeys(ns[i]), sceneKeys(ns[j]), sceneKeys(ns[k]))
    <2>1. f[i] < f[j] /\ f[j] < f[k]
      BY <1>2, <1>10
    <2>2. Lasting(sceneKeys(ms[f[i]]), sceneKeys(ms[f[j]]), sceneKeys(ms[f[k]]))
      BY <1>1, <2>1 DEF Chain
    <2> QED BY <1>1, <2>2
  <1> QED BY <1>4, <1>7, <1>8, <1>9, <1>10 DEF Chain

\* The canvas is posted.
LEMMA ChainPosts ==
    ASSUME NEW ms, NEW C, NEW R, NEW X, NEW l, NEW A, Chain(ms, C, R, X, l, A),
           NEW N \in Nat, DOMAIN ms = 1..N, NEW ns, DOMAIN ns = 1..N + 1,
           \A i \in 1..N : ns[i] = ms[i],
           carriesScene(ns[N + 1]) => sceneKeys(ns[N + 1]) = C
    PROVE  Chain(ns, C, R, X, l, A)
  <1>1. \A i \in Scenes(ns) : /\ i \in 1..N + 1
                              /\ i # N + 1 => i \in Scenes(ms) /\ ns[i] = ms[i]
                              /\ i = N + 1 => sceneKeys(ns[i]) = C
    BY DEF Scenes
  <1>2. Within(C, R) /\ Known(C, X, l, A)
    BY DEF Chain
  <1>3. Later(C, C, X) /\ \A K : Lasting(K, C, C)
    BY DEF Later, Lasting
  <1>4. ASSUME NEW i \in Scenes(ns)
        PROVE  Within(sceneKeys(ns[i]), R) /\ Known(sceneKeys(ns[i]), X, l, A) /\ Later(sceneKeys(ns[i]), C, X)
    <2>1. CASE i = N + 1
      BY <1>1, <1>2, <1>3, <2>1
    <2>2. CASE i # N + 1
      BY <1>1, <2>2 DEF Chain
    <2> QED BY <2>1, <2>2
  <1>5. ASSUME NEW i \in Scenes(ns), NEW j \in Scenes(ns), i < j
        PROVE  Later(sceneKeys(ns[i]), sceneKeys(ns[j]), X) /\ Lasting(sceneKeys(ns[i]), sceneKeys(ns[j]), C)
    <2>0. i # N + 1 /\ i \in Scenes(ms) /\ ns[i] = ms[i]
      BY <1>1, <1>5
    <2>1. CASE j = N + 1
      <3>1. sceneKeys(ns[j]) = C
        BY <1>1, <2>1
      <3> QED BY <3>1, <1>3, <1>4
    <2>2. CASE j # N + 1
      <3>1. j \in Scenes(ms) /\ ns[j] = ms[j]
        BY <1>1, <2>2
      <3>2. /\ Later(sceneKeys(ms[i]), sceneKeys(ms[j]), X)
            /\ Lasting(sceneKeys(ms[i]), sceneKeys(ms[j]), C)
        BY <1>5, <2>0, <3>1 DEF Chain
      <3> QED BY <2>0, <3>1, <3>2
    <2> QED BY <2>1, <2>2
  <1>6. ASSUME NEW i \in Scenes(ns), NEW j \in Scenes(ns), NEW k \in Scenes(ns), i < j, j < k
        PROVE  Lasting(sceneKeys(ns[i]), sceneKeys(ns[j]), sceneKeys(ns[k]))
    <2>0. i # N + 1 /\ i \in Scenes(ms) /\ ns[i] = ms[i] /\ j # N + 1 /\ j \in Scenes(ms) /\ ns[j] = ms[j]
      BY <1>1, <1>6
    <2>1. CASE k = N + 1
      <3>1. sceneKeys(ns[k]) = C
        BY <1>1, <2>1
      <3> QED BY <3>1, <1>5, <1>6
    <2>2. CASE k # N + 1
      <3>1. k \in Scenes(ms) /\ ns[k] = ms[k]
        BY <1>1, <2>2
      <3>2. Lasting(sceneKeys(ms[i]), sceneKeys(ms[j]), sceneKeys(ms[k]))
        BY <1>6, <2>0, <3>1 DEF Chain
      <3> QED BY <2>0, <3>1, <3>2
    <2> QED BY <2>1, <2>2
  <1> QED BY <1>2, <1>4, <1>5, <1>6 DEF Chain

\* One of a gesture's elements: drawn by it, and it claims an identity only by copying.
Fresh(k, C, a) ==
    /\ k \in Key /\ k.ink = a + 1 /\ k.web = drawnID(a + 1)
    /\ k.board # none => \E j \in C : j.board = k.board /\ j.type = k.type

\* A gesture changes the canvas.
LEMMA ChainEdits ==
    ASSUME NEW ms, NEW C, NEW R, NEW X, NEW l, NEW A, Chain(ms, C, R, X, l, A),
           Within(R, Key), NEW a \in Nat,
           \A k \in R : k.ink <= a, \A i \in A : i <= a,
           \A n \in DOMAIN X : X[n].ink \in Int /\ X[n].ink <= a,
           \A w \in DOMAIN l : w.is = "drawn" => w.ordinal <= a,
           NEW D, \A k \in D : k \in C \/ Fresh(k, C, a),
           NEW S, Within(R, S), Within(D, S)
    PROVE  Chain(ms, D, S, X, l, A)
  <1>1. Within(C, R) /\ Known(C, X, l, A)
    BY DEF Chain
  <1>r. \A k \in R : k \in Key /\ k.ink \in Int /\ k.ink < a + 1
    BY DEF Within, Key
  <1>c. \A k \in C : k \in R
    BY <1>1 DEF Within
  <1>f. ASSUME NEW k \in D, k \notin C
        PROVE  /\ Fresh(k, C, a) /\ k.ink = a + 1 /\ isDrawn(k)
               /\ k.ink \notin A /\ k.ink \notin inksOf(X) /\ k.web \notin DOMAIN l
    <2>1. Fresh(k, C, a) /\ k.ink = a + 1 /\ k.web = drawnID(a + 1)
      BY <1>f DEF Fresh
    <2>2. a + 1 \in Nat
      OBVIOUS
    <2>3. k.web.is = "drawn" /\ k.web.ordinal = a + 1
      BY <2>1, <2>2, DrawnIDs
    <2>4. k.ink \notin A
      BY <2>1
    <2>5. k.ink \notin inksOf(X)
      BY <2>1 DEF inksOf
    <2>6. k.web \notin DOMAIN l
      BY <2>3
    <2> QED BY <2>1, <2>3, <2>4, <2>5, <2>6 DEF isDrawn
  <1>2. Known(D, X, l, A)
    <2>1. ASSUME NEW k \in D
          PROVE  /\ k.ink \in A => k.ink \in inksOf(X)
                 /\ \A n \in DOMAIN X : X[n].ink = k.ink => X[n].type = k.type /\ identified(k, X[n].id, l)
                 /\ k.web \in DOMAIN l => k.ink \in inksOf(X)
                 /\ k.board # none => \E n \in DOMAIN X : X[n].id = k.board /\ X[n].type = k.type
                 /\ ~isDrawn(k) => k.ink \in inksOf(X)
      <3>1. CASE k \in C
        BY <1>1, <3>1 DEF Known
      <3>2. CASE k \notin C
        <4>1. \A n \in DOMAIN X : X[n].ink # k.ink
          BY <1>f, <3>2 DEF inksOf
        <4>2. k.board # none => \E n \in DOMAIN X : X[n].id = k.board /\ X[n].type = k.type
          <5> SUFFICES ASSUME k.board # none PROVE \E n \in DOMAIN X : X[n].id = k.board /\ X[n].type = k.type
            OBVIOUS
          <5>1. PICK j \in C : j.board = k.board /\ j.type = k.type
            BY <1>f, <3>2 DEF Fresh
          <5> QED BY <1>1, <5>1 DEF Known
        <4> QED BY <1>f, <3>2, <4>1, <4>2
      <3> QED BY <3>1, <3>2
    <2>2. ASSUME NEW k \in D, NEW j \in D, NEW n \in DOMAIN X, isDrawn(k), before(j, k), X[n].ink = k.ink
          PROVE  j.board # X[n].id
      <3>1. k \in C
        <4>1. k.ink \in inksOf(X)
          BY <2>2 DEF inksOf
        <4> QED BY <1>f, <4>1
      <3>2. j \in C
        <4> SUFFICES ASSUME j \notin C PROVE FALSE
          OBVIOUS
        <4>1. isDrawn(j) /\ j.ink = a + 1
          BY <1>f
        <4>2. j.ink < k.ink
          BY <4>1, <2>2 DEF before
        <4> QED BY <1>c, <1>r, <3>1, <4>1, <4>2
      <3> QED BY <1>1, <2>2, <3>1, <3>2 DEF Known
    <2> QED BY <2>1, <2>2 DEF Known
  <1>3. ASSUME NEW K, Within(K, R), Later(K, C, X) PROVE Later(K, D, X)
    <2> SUFFICES ASSUME NEW j \in D
                 PROVE  /\ j.ink \in inksOf(X) => j \in K
                        /\ j.board # none => \E k \in K : k.board = j.board
                        /\ j \notin K => \A k \in K : k.ink < j.ink
      BY DEF Later
    <2>1. CASE j \in C
      BY <1>3, <2>1 DEF Later
    <2>2. CASE j \notin C
      <3>1. j.ink \notin inksOf(X) /\ j.ink = a + 1 /\ Fresh(j, C, a)
        BY <1>f, <2>2
      <3>2. \A k \in K : k.ink < j.ink
        BY <1>3, <1>r, <3>1 DEF Within
      <3>3. j.board # none => \E k \in K : k.board = j.board
        BY <1>3, <3>1 DEF Fresh, Later
      <3> QED BY <3>1, <3>2, <3>3
    <2> QED BY <2>1, <2>2
  <1>4. ASSUME NEW K, Within(K, R), NEW M, Lasting(K, M, C) PROVE Lasting(K, M, D)
    <2> SUFFICES ASSUME NEW k \in K, k \in D PROVE k \in M
      BY DEF Lasting
    <2>1. k \in C
      <3> SUFFICES ASSUME k \notin C PROVE FALSE
        OBVIOUS
      <3>1. k.ink = a + 1
        BY <1>f
      <3>2. k \in R
        BY <1>4 DEF Within
      <3> QED BY <1>r, <3>1, <3>2
    <2> QED BY <1>4, <2>1 DEF Lasting
  <1>5. Within(D, S) /\ \A K : Within(K, R) => Within(K, S)
    BY DEF Within
  <1>6. ASSUME NEW i \in Scenes(ms)
        PROVE  Within(sceneKeys(ms[i]), S) /\ Known(sceneKeys(ms[i]), X, l, A) /\ Later(sceneKeys(ms[i]), D, X)
    <2>1. Within(sceneKeys(ms[i]), R) /\ Known(sceneKeys(ms[i]), X, l, A) /\ Later(sceneKeys(ms[i]), C, X)
      BY DEF Chain
    <2> QED BY <1>3, <1>5, <2>1
  <1>7. ASSUME NEW i \in Scenes(ms), NEW j \in Scenes(ms), i < j
        PROVE  Later(sceneKeys(ms[i]), sceneKeys(ms[j]), X) /\ Lasting(sceneKeys(ms[i]), sceneKeys(ms[j]), D)
    <2>1. /\ Later(sceneKeys(ms[i]), sceneKeys(ms[j]), X)
          /\ Lasting(sceneKeys(ms[i]), sceneKeys(ms[j]), C)
          /\ Within(sceneKeys(ms[i]), R)
      BY <1>7 DEF Chain
    <2> QED BY <1>4, <2>1
  <1>8. \A i, j, k \in Scenes(ms) : i < j /\ j < k =>
            Lasting(sceneKeys(ms[i]), sceneKeys(ms[j]), sceneKeys(ms[k]))
    BY DEF Chain
  <1> QED BY <1>2, <1>5, <1>6, <1>7, <1>8 DEF Chain

\* The canvas was just replaced by the document, and no scene is on its way.
LEMMA ChainStarts ==
    ASSUME NEW ms, Scenes(ms) = {}, NEW X \in Document, NEW C, NEW R, Within(C, R),
           \A p, n \in DOMAIN X : X[p].ink = X[n].ink => p = n,
           \A k \in C : \E n \in DOMAIN X : /\ k.ink = X[n].ink /\ k.web = X[n].id /\ k.board = X[n].id
                                            /\ k.type = X[n].type,
           NEW l, NEW A
    PROVE  Chain(ms, C, R, X, l, A)
  <1>1. Known(C, X, l, A)
    <2> SUFFICES ASSUME NEW k \in C
        PROVE /\ k.ink \in A => k.ink \in inksOf(X)
              /\ \A n \in DOMAIN X : X[n].ink = k.ink => X[n].type = k.type /\ identified(k, X[n].id, l)
              /\ k.web \in DOMAIN l => k.ink \in inksOf(X)
              /\ k.board # none => \E n \in DOMAIN X : X[n].id = k.board /\ X[n].type = k.type
              /\ ~isDrawn(k) => k.ink \in inksOf(X)
              /\ \A j \in C : \A n \in DOMAIN X :
                    isDrawn(k) /\ before(j, k) /\ X[n].ink = k.ink => j.board # X[n].id
      BY DEF Known
    <2>1. PICK n \in DOMAIN X : k.ink = X[n].ink /\ k.web = X[n].id /\ k.board = X[n].id /\ k.type = X[n].type
      OBVIOUS
    <2>2. k.ink \in inksOf(X)
      BY <2>1 DEF inksOf
    <2>3. ~isDrawn(k)
      <3>1. X[n].id \in BoardIDs
        BY DocumentIs
      <3>2. X[n].id.is = "board"
        BY <3>1, NoneIsNoID
      <3> QED BY <2>1, <3>2 DEF isDrawn
    <2>4. \A p \in DOMAIN X : X[p].ink = k.ink => p = n
      BY <2>1
    <2>5. \A p \in DOMAIN X : X[p].ink = k.ink => X[p].type = k.type /\ identified(k, X[p].id, l)
      BY <2>1, <2>3, <2>4 DEF identified
    <2> QED BY <2>1, <2>2, <2>3, <2>5
  <1> QED BY <1>1 DEF Chain

-----------------------------------------------------------------------------
(* The page and its publication controller *)

\* The page p and the controller q: what is held back, by a gesture or by a native update
\* that is not finished, shows what the canvas shows.
Fit(p, q) ==
    /\ p.finishing => p.loading
    /\ p.finishing /\ ~p.received => ~q.active
    /\ p.loading => q.pending = none \/ q.adopted = none
    /\ q.pending # none /\ q.adopted # none => visible(q.pending.elements) = visible(p.canvas)
    /\ p.deferredChange # none => p.loading /\ (p.changed \/ p.deferredChange.elements = p.canvas)

PageFits == Fit(page, publication)

\* A sound controller.
LEMMA SoundIs ==
    ASSUME NEW p, Sound(p)
    PROVE  p.pending = none \/ p.active \/ p.adopted = none
  <1>1. PICK active, pending, adopted :
            p = controller(active, pending, adopted) /\ (pending = none \/ active \/ adopted = none)
    BY DEF Sound
  <1> QED BY <1>1, Fields

\* The gesture is over and the update it put off may run.
LEMMA CompletedFits ==
    ASSUME NEW p \in Page, NEW q, Fit(p, q), NEW d \in BOOLEAN,
           NEW r, Sound(r), ~r.active
    PROVE  Fit(completePointerInteraction(p, d), r)
  <1> DEFINE s == completePointerInteraction(p, d)
  <1>1. r.pending = none \/ r.adopted = none
    BY SoundIs
  <1>2. \/ Begun(p, s)
        \/ /\ s.loading = p.loading /\ s.finishing = p.finishing /\ s.changed = p.changed
           /\ s.deferredChange = p.deferredChange /\ s.received = p.received /\ s.canvas = p.canvas
    BY CompletedIs
  <1> HIDE DEF s
  <1>3. ASSUME Begun(p, s) PROVE Fit(s, r)
    BY <1>1, <1>3 DEF Begun, Fit
  <1>4. ASSUME ~Begun(p, s) PROVE Fit(s, r)
    BY <1>1, <1>2, <1>4 DEF Fit
  <1>5. Fit(s, r)
    BY <1>3, <1>4
  <1> QED BY <1>5 DEF s

\* An update is applied.
LEMMA UpdatedFits ==
    ASSUME NEW p \in Page, NEW q, Fit(p, q), NEW u \in Update, NEW r, Sound(r), ~r.active
    PROVE  Fit(nativeUpdate(p, u), r)
  <1> DEFINE s == nativeUpdate(p, u)
  <1>1. r.pending = none \/ r.adopted = none
    BY SoundIs
  <1>2. Begun(p, s) \/ s = p
    BY NativeUpdateIs
  <1> HIDE DEF s
  <1>3. ASSUME Begun(p, s) PROVE Fit(s, r)
    BY <1>1, <1>3 DEF Begun, Fit
  <1>4. ASSUME s = p PROVE Fit(s, r)
    BY <1>1, <1>4 DEF Fit
  <1>5. Fit(s, r)
    BY <1>2, <1>3, <1>4
  <1> QED BY <1>5 DEF s

\* A change of the canvas is captured or accepted.
LEMMA ChangeFits ==
    ASSUME TypeInvariant, PageFits, NEW p \in Page, NEW byPerson, handleChange(p, byPerson),
           p.finishing = page.finishing, p.loading = page.loading,
           p.deferredChange = page.deferredChange, page.received => p.received
    PROVE  PageFits'
  <1>1. changeScene(p) \in CanvasScene /\ changeScene(p).elements = p.canvas
    BY ReadTyped
  <1> DEFINE s == changeScene(p)
             o == semanticOverlay(p.canvas)
  <1>2. CASE p.loading
    <2>1. page' = [p EXCEPT !.deferredChange = s] /\ publication' = publication
      BY <1>2 DEF handleChange
    <2> HIDE DEF s
    <2>2. /\ page'.finishing = p.finishing /\ page'.loading = p.loading /\ page'.received = p.received
          /\ page'.canvas = p.canvas /\ page'.deferredChange = s /\ page'.changed = p.changed
      BY <2>1 DEF Page
    <2>3. s.elements = p.canvas
      BY <1>1 DEF s
    <2> QED BY <1>2, <2>1, <2>2, <2>3 DEF PageFits, Fit
  <1>3. CASE ~p.loading
    <2>1. page' = [p EXCEPT !.overlay = o] /\ publication' = acceptScene(publication, s)
      BY <1>3 DEF handleChange
    <2>2. publication'.pending \in {none, s}
      BY <1>1, <2>1, AcceptTyped DEF TypeInvariant
    <2> HIDE DEF s, o
    <2>3. /\ page'.finishing = p.finishing /\ page'.loading = p.loading /\ page'.canvas = p.canvas
          /\ page'.deferredChange = p.deferredChange
      BY <2>1 DEF Page
    <2>4. s.elements = p.canvas
      BY <1>1 DEF s
    <2>5. ~page'.loading /\ ~page'.finishing /\ page'.deferredChange = none
      BY <1>3, <2>3 DEF PageFits, Fit
    <2> QED BY <2>2, <2>3, <2>4, <2>5 DEF PageFits, Fit
  <1> QED BY <1>2, <1>3

\* The end of a gesture.
LEMMA EndFits ==
    ASSUME TypeInvariant, PageFits, Sound(publication), NEW p \in Page, Fit(p, publication),
           EndInteraction(p)
    PROVE  PageFits'
  <1> DEFINE did == publication.active /\ publishes(publication)
             ending == endPointerInteraction(publication)
  <1>1. publication.active \in BOOLEAN /\ did \in BOOLEAN /\ publication \in Publication
    BY DEF TypeInvariant, Publication, publishes
  <1>2. /\ page' = completePointerInteraction(p, did)
        /\ publication' = IF did \/ ~carriesDocument(p.deferredUpdate) THEN ending ELSE overlaid(ending)
    BY DEF EndInteraction
  <1> HIDE DEF did
  <1>3. ending \in Publication /\ ~ending.active
    BY <1>1, EndTyped
  <1> HIDE DEF ending
  <1>4. ~publication'.active
    BY <1>2, <1>3, OverlaidTyped
  <1>5. Sound(publication')
    BY InteractionSound
  <1>6. Fit(page', publication')
    BY <1>1, <1>2, <1>4, <1>5, CompletedFits
  <1> QED BY <1>6 DEF PageFits

\* The person's steps.
LEMMA PersonFits ==
    ASSUME TypeInvariant, Sound(publication), PageFits, Person
    PROVE  PageFits'
  <1>0. page \in Page /\ publication \in Publication /\ Fit(page, publication)
    BY DEF TypeInvariant, PageFits
  <1>8. LET q == noteUserInput(page)
        IN /\ q.finishing = page.finishing /\ q.loading = page.loading /\ q.canvas = page.canvas
           /\ q.deferredChange = page.deferredChange /\ q.changed = page.changed
           /\ q.received = (page.received \/ page.loading) /\ q \in Page
    <2> DEFINE r == page.received \/ page.loading
    <2>1. noteUserInput(page) \in Page /\ noteUserInput(page) = [page EXCEPT !.received = r]
      BY <1>0, NotedIs
    <2> HIDE DEF r
    <2>2. LET q == noteUserInput(page)
          IN /\ q.finishing = page.finishing /\ q.loading = page.loading /\ q.canvas = page.canvas
             /\ q.deferredChange = page.deferredChange /\ q.changed = page.changed /\ q.received = r
      BY <1>0, <2>1 DEF Page
    <2> QED BY <2>1, <2>2 DEF r
  <1>1. CASE PointerDown
    <2> DEFINE q == noteUserInput(page)
    <2>1. page' = [q EXCEPT !.held = TRUE] /\ publication' = beginPointerInteraction(publication)
      BY <1>1 DEF PointerDown
    <2>2. /\ q.finishing = page.finishing /\ q.loading = page.loading /\ q.canvas = page.canvas
          /\ q.deferredChange = page.deferredChange /\ q.changed = page.changed
          /\ q.received = (page.received \/ page.loading) /\ q \in Page
      BY <1>8
    <2> HIDE DEF q
    <2>3. /\ page'.finishing = q.finishing /\ page'.loading = q.loading /\ page'.canvas = q.canvas
          /\ page'.deferredChange = q.deferredChange /\ page'.changed = q.changed
          /\ page'.received = q.received
      BY <2>1, <2>2 DEF Page
    <2>4. publication'.pending = publication.pending /\ publication'.adopted = publication.adopted
      BY <1>0, <2>1, BeginTyped
    <2> QED BY <1>0, <2>2, <2>3, <2>4 DEF PageFits, Fit
  <1>2. CASE Draw \/ Move \/ Rotate \/ Select \/ Delete \/ Paste
    <2>1. PICK p : EditedPage(p) /\ edit(p)
      BY <1>2, DrawEdits, MoveEdits, RotateEdits, SelectEdits, DeleteEdits, PasteEdits
    <2>2. p \in Page /\ handleChange(p, TRUE)
      BY <2>1 DEF EditedPage, edit
    <2>3. /\ p.finishing = page.finishing /\ p.loading = page.loading
          /\ p.deferredChange = page.deferredChange /\ (page.received => p.received)
      BY <2>1 DEF EditedPage
    <2> QED BY <2>2, <2>3, ChangeFits
  <1>3. CASE FlushThenPost
    <2>1. page' = noteUserInput(page) /\ publication' = adoptScene(publication, readScene(page))
      BY <1>3 DEF FlushThenPost
    <2>2. publication'.pending = none /\ ~publication'.active
      BY <1>0, <2>1, ReadTyped, AdoptTyped
    <2> QED BY <1>0, <1>8, <2>1, <2>2 DEF PageFits, Fit
  <1>4. CASE PostTool
    <2>1. page' = noteUserInput(page) /\ publication' = publication
      BY <1>4 DEF PostTool
    <2> QED BY <1>0, <1>8, <2>1 DEF PageFits, Fit
  <1>5. CASE PostReturn \/ MenuFlush \/ InspectRevision
    <2>1. page' = page /\ publication' = publication
      BY <1>5 DEF PostReturn, MenuFlush, InspectRevision, pageUnchanged
    <2> QED BY <1>0, <2>1 DEF PageFits
  <1>6. CASE Blur
    BY <1>0, <1>6, EndFits DEF Blur
  <1>7. CASE ResetEditorSession
    <2>1. page' = NewPage /\ publication' = NewPublication
      BY <1>7 DEF ResetEditorSession
    <2>2. publication'.pending = none /\ ~publication'.active
      BY <2>1, NewPublicationIs
    <2>3. page'.loading /\ ~page'.finishing /\ page'.deferredChange = none
      BY <2>1 DEF NewPage
    <2> QED BY <2>2, <2>3 DEF PageFits, Fit
  <1> QED BY <1>1, <1>2, <1>3, <1>4, <1>5, <1>6, <1>7 DEF Person

\* The steps of page and application.
LEMMA SystemFits ==
    ASSUME TypeInvariant, Sound(publication), PageFits, System
    PROVE  PageFits'
  <1>0. page \in Page /\ publication \in Publication /\ Fit(page, publication)
    BY DEF TypeInvariant, PageFits
  <1>7. Sound(publication')
    BY SystemSound
  <1>1. CASE FinishNativeUpdate
    <2> DEFINE scene == readScene(page)
               change == IF page.deferredChange = none THEN scene ELSE page.deferredChange
               o == semanticOverlay(page.canvas)
    <2>1. /\ page.finishing /\ ~page.changed
          /\ page' = [page EXCEPT !.overlay = o, !.loading = FALSE, !.finishing = FALSE,
                       !.deferredChange = none, !.received = FALSE]
          /\ publication' = acceptScene(publication, change) \/ publication' = adoptScene(publication, scene)
      BY <1>1 DEF FinishNativeUpdate
    <2>2. scene \in CanvasScene /\ change \in CanvasScene /\ scene.elements = live(page.canvas)
      BY <1>0, ReadTyped DEF Page
    <2>3. visible(change.elements) = visible(page.canvas)
      <3>1. page.canvas \in Seq(CanvasElement)
        BY <1>0 DEF Page, Bounded
      <3>2. visible(live(page.canvas)) = visible(page.canvas)
        BY <3>1, VisibleLive
      <3>3. CASE page.deferredChange = none
        BY <2>2, <3>2, <3>3
      <3>4. CASE page.deferredChange # none
        BY <1>0, <2>1, <3>4 DEF Fit
      <3> QED BY <3>3, <3>4
    <2>4. publication'.pending \in {none, change}
      <3>1. CASE publication' = acceptScene(publication, change)
        BY <1>0, <2>2, <3>1, AcceptTyped
      <3>2. CASE publication' = adoptScene(publication, scene)
        BY <1>0, <2>2, <3>2, AdoptTyped
      <3> QED BY <2>1, <3>1, <3>2
    <2> HIDE DEF change, o
    <2>5. ~page'.loading /\ ~page'.finishing /\ page'.deferredChange = none /\ page'.canvas = page.canvas
      BY <1>0, <2>1 DEF Page
    <2> QED BY <2>3, <2>4, <2>5 DEF PageFits, Fit
  <1>2. CASE CommitChange
    <2> DEFINE p == [page EXCEPT !.changed = FALSE]
    <2>1. p \in Page /\ handleChange(p, FALSE)
      BY <1>0, <1>2 DEF Page, CommitChange
    <2>2. /\ p.finishing = page.finishing /\ p.loading = page.loading
          /\ p.deferredChange = page.deferredChange /\ p.received = page.received
      BY <1>0 DEF Page
    <2> HIDE DEF p
    <2> QED BY <2>1, <2>2, ChangeFits
  <1>3. CASE ReceiveUpdate
    <2> DEFINE m == Head(toPage)
               u == [call |-> m.call, snapshot |-> m.snapshot, elements |-> broughtBy(m)]
               c == page.changed \/ page.readOnly # m.snapshot.readOnly
               s == [page EXCEPT !.readOnly = m.snapshot.readOnly, !.changed = c]
    <2>1. /\ toPage # <<>> /\ m.call # "flush"
          /\ page' = IF publication.active THEN [s EXCEPT !.deferredUpdate = u] ELSE nativeUpdate(s, u)
          /\ publication' = IF publication.active \/ ~carriesDocument(m) THEN publication
                            ELSE overlaid(publication)
      BY <1>3 DEF ReceiveUpdate, broughtBy
    <2>2. toPage \in Seq(Call) /\ m \in Call
      BY <2>1, ShorterTyped DEF TypeInvariant
    <2>3. u \in Update
      BY <2>1, <2>2, BroughtIs
    <2>4. m.snapshot.readOnly \in BOOLEAN /\ c \in BOOLEAN /\ (page.changed => c)
      BY <1>0, <2>1, <2>2 DEF Call, Snapshot, Page
    <2> HIDE DEF u, c
    <2>5. /\ s \in Page /\ s.finishing = page.finishing /\ s.loading = page.loading
          /\ s.canvas = page.canvas /\ s.received = page.received
          /\ s.deferredChange = page.deferredChange /\ s.changed = c
      BY <1>0, <2>4 DEF Page
    <2> HIDE DEF s, m
    <2>6. Fit(s, publication)
      BY <1>0, <2>4, <2>5 DEF Fit
    <2>7. CASE publication.active
      <3>1. page' = [s EXCEPT !.deferredUpdate = u] /\ publication' = publication
        BY <2>1, <2>7
      <3>2. /\ page'.finishing = s.finishing /\ page'.loading = s.loading
            /\ page'.canvas = s.canvas /\ page'.received = s.received
            /\ page'.deferredChange = s.deferredChange /\ page'.changed = s.changed
        BY <2>5, <3>1 DEF Page
      <3> QED BY <2>6, <3>1, <3>2 DEF PageFits, Fit
    <2>8. CASE ~publication.active
      <3>1. ~publication'.active
        BY <1>0, <2>1, <2>8, OverlaidTyped
      <3>2. Fit(page', publication')
        BY <1>7, <2>1, <2>3, <2>5, <2>6, <2>8, <3>1, UpdatedFits
      <3> QED BY <3>2 DEF PageFits
    <2> QED BY <2>7, <2>8
  <1>4. CASE ReceiveFlush
    <2>1. page' = page /\ publication' = adoptScene(publication, readScene(page))
      BY <1>4 DEF ReceiveFlush
    <2>2. publication'.pending = none /\ ~publication'.active
      BY <1>0, <2>1, ReadTyped, AdoptTyped
    <2> QED BY <1>0, <2>1, <2>2 DEF PageFits, Fit
  <1>5. CASE PointerUp
    <2> DEFINE p == [page EXCEPT !.held = FALSE]
    <2>1. p \in Page /\ EndInteraction(p)
      BY <1>0, <1>5 DEF Page, PointerUp
    <2>2. /\ p.finishing = page.finishing /\ p.loading = page.loading /\ p.canvas = page.canvas
          /\ p.deferredChange = page.deferredChange /\ p.received = page.received
          /\ p.changed = page.changed
      BY <1>0 DEF Page
    <2> HIDE DEF p
    <2>3. Fit(p, publication)
      BY <1>0, <2>2 DEF Fit
    <2> QED BY <2>1, <2>3, EndFits
  <1>6. CASE ReceiveReady \/ ReceiveEvent \/ ReceiveReply \/ HandleReply \/ Observe \/ RunTask
    <2>1. page' = page /\ publication' = publication
      BY <1>6 DEF ReceiveReady, ReceiveEvent, ReceiveReply, HandleReply, Observe, RunTask
    <2> QED BY <1>0, <2>1 DEF PageFits
  <1> QED BY <1>1, <1>2, <1>3, <1>4, <1>5, <1>6 DEF System

\* The start.
LEMMA InitFits == Init => PageFits
  <1> SUFFICES ASSUME Init PROVE PageFits
    OBVIOUS
  <1>1. page = NewPage /\ publication = NewPublication
    BY DEF Init
  <1>2. publication.pending = none /\ ~publication.active
    BY <1>1, NewPublicationIs
  <1>3. page.loading /\ ~page.finishing /\ page.deferredChange = none
    BY <1>1 DEF NewPage
  <1> QED BY <1>2, <1>3 DEF PageFits, Fit

\* Every step.
LEMMA StepFits ==
    ASSUME TypeInvariant, Sound(publication), PageFits, [Next]_vars
    PROVE  PageFits'
  <1>1. CASE UNCHANGED vars
    BY <1>1 DEF vars, PageFits
  <1> QED BY <1>1, PersonFits, SystemFits DEF Next

-----------------------------------------------------------------------------
(* Canvases and their identities *)

\* The keys of a canvas, and those of the scene it shows.
LEMMA CanvasKeysAre ==
    ASSUME NEW c \in Seq(CanvasElement), NEW a, InOrder(c), AllBorn(c, a),
           NEW v, v = visible(c), NEW R, R = canvasKeys(c)
    PROVE  /\ Coherent(R) /\ Within(keys(v), R) /\ Within(R, Key) /\ \A k \in R : k.ink <= a
           /\ InOrder(v) /\ AllBorn(v, a) /\ v \in Seq(SceneElement)
  <1>0. DOMAIN c = 1..Len(c) /\ Len(c) \in Nat
    OBVIOUS
  <1>1. \A n \in DOMAIN c : c[n] \in CanvasElement
    OBVIOUS
  <1>2. \A n \in DOMAIN c : /\ c[n].ink \in Int /\ c[n].web \in WebIDs
                            /\ c[n].board \in BoardIDs \cup {none}
    BY <1>1 DEF CanvasElement
  <1>3. \A k \in R : \E n \in DOMAIN c : k = drawnKey(c[n])
    BY DEF canvasKeys
  <1>4. \A n \in DOMAIN c : /\ drawnKey(c[n]) \in R /\ drawnKey(c[n]).ink = c[n].ink
                            /\ drawnKey(c[n]).web = c[n].web
    BY DEF canvasKeys, drawnKey
  <1>5. Coherent(R)
    <2> SUFFICES ASSUME NEW k \in R, NEW j \in R, k.ink = j.ink \/ k.web = j.web PROVE k = j
      BY DEF Coherent
    <2>1. PICK m \in DOMAIN c : k = drawnKey(c[m])
      BY <1>3
    <2>2. PICK n \in DOMAIN c : j = drawnKey(c[n])
      BY <1>3
    <2>3. c[m].ink = c[n].ink \/ c[m].web = c[n].web
      BY <1>4, <2>1, <2>2
    <2>4. m = n
      BY <1>0, <1>2, <2>3, BornApart
    <2> QED BY <2>1, <2>2, <2>4
  <1>6. Within(R, Key)
    <2> SUFFICES ASSUME NEW n \in DOMAIN c PROVE drawnKey(c[n]) \in Key
      BY <1>3 DEF Within
    <2>1. nativeType(c[n].shape) \in NativeTypes \cup {"unsupported"}
      BY NativeTypeOf
    <2> QED BY <1>2, <2>1 DEF drawnKey, Key
  <1>7. \A k \in R : k.ink <= a
    BY <1>3, <1>4 DEF AllBorn, born
  <1>8. v \in Seq(SceneElement) /\ DOMAIN v = 1..Len(v) /\ Len(v) \in Nat
    BY VisibleIs
  <1>9. PICK at \in [DOMAIN v -> DOMAIN c] :
            /\ \A k \in DOMAIN v : shows(c[at[k]]) /\ v[k] = normalized(c[at[k]])
            /\ \A j, k \in DOMAIN v : j < k => at[j] < at[k]
    BY VisibleIs
  <1>10. \A k \in DOMAIN v : /\ at[k] \in DOMAIN c
                             /\ v[k].ink = c[at[k]].ink /\ v[k].web = c[at[k]].web
                             /\ v[k].board = c[at[k]].board /\ who(v[k]) = drawnKey(c[at[k]])
                             /\ isDrawn(v[k]) <=> isDrawn(c[at[k]])
    BY <1>9 DEF normalized, who, drawnKey, isDrawn
  <1>11. Within(keys(v), R)
    BY <1>4, <1>10 DEF keys, Within
  <1>12. InOrder(v)
    <2> SUFFICES ASSUME NEW j \in DOMAIN v, NEW k \in DOMAIN v, j < k PROVE before(v[j], v[k])
      BY DEF InOrder
    <2>1. at[j] < at[k] /\ before(c[at[j]], c[at[k]])
      BY <1>9, <1>10 DEF InOrder
    <2> QED BY <1>10, <2>1 DEF before
  <1>13. AllBorn(v, a)
    BY <1>10 DEF AllBorn, born
  <1> QED BY <1>5, <1>6, <1>7, <1>8, <1>11, <1>12, <1>13

\* Two documents have the same inks under the same identities.
Agree(X, Y) ==
    \A m \in DOMAIN X, n \in DOMAIN Y : X[m].ink = Y[n].ink => X[m].id = Y[n].id /\ X[m].type = Y[n].type

\* The canvas was just replaced by the document.
LEMMA CanonicalKeys ==
    ASSUME NEW X \in Document, Agree(X, X), NEW a, \A n \in DOMAIN X : X[n].ink <= a,
           NEW c, Canonical(c, X)
    PROVE  /\ InOrder(c) /\ AllBorn(c, a)
           /\ \A p, n \in DOMAIN X : X[p].ink = X[n].ink => p = n
           /\ \A k \in canvasKeys(c) : \E n \in DOMAIN X :
                 k.ink = X[n].ink /\ k.web = X[n].id /\ k.board = X[n].id /\ k.type = X[n].type
  <1> DEFINE r == renderOrder(X)
  <1>1. X \in Seq(Element) /\ DistinctIDs(X) /\ \A n \in DOMAIN X : X[n].id \in BoardIDs /\ X[n].ink \in Int
    BY DocumentIs
  <1>2. DistinctIDs(r) /\ \A k \in DOMAIN r : \E n \in DOMAIN X : r[k] = X[n]
    BY <1>1, RenderOrderIs
  <1>3. \A p, n \in DOMAIN X : X[p].ink = X[n].ink => p = n
    BY <1>1 DEF Agree, DistinctIDs
  <1>4. /\ c \in Seq(CanvasElement) /\ DOMAIN c = DOMAIN r
        /\ \A n \in DOMAIN r : drawnAs(c[n], r[n])
    BY DEF Canonical
  <1> HIDE DEF r
  <1>5. \A n \in DOMAIN c : /\ c[n].web = r[n].id /\ c[n].board = r[n].id /\ c[n].ink = r[n].ink
                            /\ nativeType(c[n].shape) = r[n].type
    BY <1>4 DEF drawnAs
  <1>6. \A n \in DOMAIN c : ~isDrawn(c[n]) /\ c[n].ink <= a
    <2> SUFFICES ASSUME NEW n \in DOMAIN c PROVE ~isDrawn(c[n]) /\ c[n].ink <= a
      OBVIOUS
    <2>1. PICK p \in DOMAIN X : r[n] = X[p]
      BY <1>2, <1>4
    <2>2. c[n].web \in BoardIDs
      BY <1>1, <1>5, <2>1
    <2>3. c[n].web.is = "board"
      BY <2>2, NoneIsNoID
    <2> QED BY <1>5, <2>1, <2>3 DEF isDrawn
  <1>7. ASSUME NEW m \in DOMAIN c, NEW n \in DOMAIN c, m < n
        PROVE  c[m].ink # c[n].ink /\ c[m].web # c[n].web
    <2>1. m # n
      <3>1. m \in Int
        BY <1>4
      <3> QED BY <1>7, <3>1
    <2>2. r[m].id # r[n].id
      BY <1>2, <1>4, <2>1 DEF DistinctIDs
    <2>3. PICK p \in DOMAIN X : r[m] = X[p]
      BY <1>2, <1>4
    <2>4. PICK q \in DOMAIN X : r[n] = X[q]
      BY <1>2, <1>4
    <2>5. p # q
      BY <2>2, <2>3, <2>4
    <2> QED BY <1>3, <1>5, <2>2, <2>3, <2>4, <2>5
  <1>8. InOrder(c)
    BY <1>6, <1>7 DEF InOrder, before
  <1>9. AllBorn(c, a)
    BY <1>5, <1>6 DEF AllBorn, born
  <1>10. ASSUME NEW k \in canvasKeys(c)
         PROVE  \E n \in DOMAIN X :
                   k.ink = X[n].ink /\ k.web = X[n].id /\ k.board = X[n].id /\ k.type = X[n].type
    <2>1. PICK m \in DOMAIN c : k = drawnKey(c[m])
      BY DEF canvasKeys
    <2>2. k.ink = r[m].ink /\ k.web = r[m].id /\ k.board = r[m].id /\ k.type = r[m].type
      BY <1>5, <2>1 DEF drawnKey
    <2>3. PICK n \in DOMAIN X : r[m] = X[n]
      BY <1>2, <1>4
    <2> QED BY <2>2, <2>3
  <1> QED BY <1>3, <1>8, <1>9, <1>10

\* A gesture: what the canvas shows is what it showed, and what the gesture drew.
LEMMA EditedKeys ==
    ASSUME NEW c \in Seq(CanvasElement), NEW d \in Seq(CanvasElement), NEW a \in Nat,
           InOrder(c), AllBorn(c, a), editsTo(d, c, a + 1)
    PROVE  /\ InOrder(d) /\ AllBorn(d, a + 1)
           /\ Within(canvasKeys(c), canvasKeys(d))
           /\ \A k \in keys(visible(d)) : k \in keys(visible(c)) \/ Fresh(k, keys(visible(c)), a)
  <1>0. DOMAIN c = 1..Len(c) /\ Len(c) \in Nat /\ DOMAIN d = 1..Len(d) /\ Len(d) \in Nat
    OBVIOUS
  <1>1. /\ \A n \in DOMAIN c : c[n] \in CanvasElement
        /\ \A n \in DOMAIN d : d[n] \in CanvasElement
    OBVIOUS
  <1>2. \A e \in CanvasElement : e.ink \in Int /\ e.web \in WebIDs /\ e.board \in BoardIDs \cup {none}
    BY DEF CanvasElement
  <1>3. ASSUME NEW n \in DOMAIN c, shows(c[n]) PROVE drawnKey(c[n]) \in keys(visible(c))
    <2>1. PICK k \in DOMAIN visible(c) : visible(c)[k] = normalized(c[n])
      BY <1>3, VisibleIs
    <2>2. who(visible(c)[k]) = drawnKey(c[n])
      BY <2>1 DEF who, normalized, drawnKey
    <2> QED BY <2>2 DEF keys
  <1>4. ASSUME NEW k \in keys(visible(d)) PROVE \E n \in DOMAIN d : shows(d[n]) /\ k = drawnKey(d[n])
    <2>1. PICK i \in DOMAIN visible(d) : k = who(visible(d)[i])
      BY DEF keys
    <2>2. PICK n \in DOMAIN d : shows(d[n]) /\ visible(d)[i] = normalized(d[n])
      <3>1. PICK at \in [DOMAIN visible(d) -> DOMAIN d] :
                \A j \in DOMAIN visible(d) : shows(d[at[j]]) /\ visible(d)[j] = normalized(d[at[j]])
        BY VisibleIs
      <3> QED BY <3>1
    <2>3. k = drawnKey(d[n])
      BY <2>1, <2>2 DEF who, normalized, drawnKey
    <2> QED BY <2>2, <2>3
  <1>5. \A n \in DOMAIN c : c[n].ink <= a /\ (IF isDrawn(c[n]) THEN c[n].web = drawnID(c[n].ink)
                                              ELSE c[n].web = c[n].board)
    BY DEF AllBorn, born
  <1>6. CASE DOMAIN d = DOMAIN c /\ \A n \in DOMAIN c : alters(d[n], c[n])
    <2>1. \A n \in DOMAIN c : /\ d[n].web = c[n].web /\ d[n].board = c[n].board /\ d[n].ink = c[n].ink
                              /\ (shows(d[n]) => shows(c[n])) /\ drawnKey(d[n]) = drawnKey(c[n])
                              /\ isDrawn(d[n]) <=> isDrawn(c[n])
      BY <1>6 DEF alters, drawnKey, isDrawn
    <2>2. InOrder(d)
      BY <1>6, <2>1 DEF InOrder, before
    <2>3. AllBorn(d, a + 1)
      <3>1. \A n \in DOMAIN c : c[n].ink <= a + 1
        BY <1>1, <1>2, <1>5
      <3> QED BY <1>5, <1>6, <2>1, <3>1 DEF AllBorn, born
    <2>4. Within(canvasKeys(c), canvasKeys(d))
      BY <1>6, <2>1 DEF Within, canvasKeys
    <2>5. \A k \in keys(visible(d)) : k \in keys(visible(c))
      BY <1>3, <1>4, <1>6, <2>1
    <2> QED BY <2>2, <2>3, <2>4, <2>5
  <1>7. CASE extends(d, c, a + 1)
    <2>1. PICK e \in CanvasElement :
            /\ d = Append(c, e)
            /\ e.web = drawnID(a + 1) /\ e.ink = a + 1
            /\ e.board = none \/ \E n \in DOMAIN c : /\ c[n].board = e.board /\ c[n].shape = e.shape
                                                     /\ shows(e) => shows(c[n])
      BY <1>7 DEF extends
    <2>2. /\ DOMAIN d = 1..Len(c) + 1 /\ d[Len(c) + 1] = e /\ \A n \in DOMAIN c : n \in DOMAIN d /\ d[n] = c[n]
          /\ \A n \in DOMAIN d : n \in DOMAIN c \/ n = Len(c) + 1
      BY <1>0, <2>1
    <2>3. isDrawn(e) /\ e.web.ordinal = a + 1
      BY <2>1, DrawnIDs DEF isDrawn
    <2>4. \A n \in DOMAIN c : before(c[n], e)
      <3> SUFFICES ASSUME NEW n \in DOMAIN c PROVE before(c[n], e)
        OBVIOUS
      <3>1. c[n].ink \in Int /\ c[n].ink <= a
        BY <1>1, <1>2, <1>5
      <3>2. ~isDrawn(c[n]) => c[n].web # e.web
        BY <2>3 DEF isDrawn
      <3> QED BY <2>1, <2>3, <3>1, <3>2 DEF before
    <2>5. InOrder(d)
      <3> SUFFICES ASSUME NEW m \in DOMAIN d, NEW n \in DOMAIN d, m < n PROVE before(d[m], d[n])
        BY DEF InOrder
      <3>1. m \in DOMAIN c
        BY <1>0, <2>2
      <3>2. CASE n \in DOMAIN c
        BY <2>2, <3>1, <3>2 DEF InOrder
      <3>3. CASE n = Len(c) + 1
        BY <2>2, <2>4, <3>1, <3>3
      <3> QED BY <2>2, <3>2, <3>3
    <2>6. AllBorn(d, a + 1)
      <3>1. \A n \in DOMAIN c : born(c[n], a + 1)
        BY <1>1, <1>2, <1>5 DEF born
      <3>2. born(e, a + 1)
        BY <2>1, <2>3 DEF born
      <3> QED BY <2>2, <3>1, <3>2 DEF AllBorn
    <2>7. Within(canvasKeys(c), canvasKeys(d))
      BY <2>2 DEF Within, canvasKeys
    <2>8. ASSUME NEW k \in keys(visible(d)), k \notin keys(visible(c)) PROVE Fresh(k, keys(visible(c)), a)
      <3>1. PICK n \in DOMAIN d : shows(d[n]) /\ k = drawnKey(d[n])
        BY <1>4
      <3>2. n = Len(c) + 1 /\ d[n] = e
        BY <1>3, <2>2, <2>8, <3>1
      <3>3. k.ink = a + 1 /\ k.web = drawnID(a + 1) /\ k.board = e.board /\ k.type = nativeType(e.shape)
        BY <2>1, <3>1, <3>2 DEF drawnKey
      <3>4. k \in Key
        <4>1. nativeType(e.shape) \in NativeTypes \cup {"unsupported"}
          BY NativeTypeOf
        <4>2. e.ink \in Int /\ e.web \in WebIDs /\ e.board \in BoardIDs \cup {none}
          BY <1>2
        <4> QED BY <3>1, <3>2, <4>1, <4>2 DEF drawnKey, Key
      <3>5. k.board # none => \E j \in keys(visible(c)) : j.board = k.board /\ j.type = k.type
        <4> SUFFICES ASSUME k.board # none
                     PROVE  \E j \in keys(visible(c)) : j.board = k.board /\ j.type = k.type
          OBVIOUS
        <4>1. PICK i \in DOMAIN c : c[i].board = e.board /\ c[i].shape = e.shape /\ shows(c[i])
          BY <2>1, <3>1, <3>2, <3>3
        <4>2. drawnKey(c[i]) \in keys(visible(c))
          BY <1>3, <4>1
        <4>3. drawnKey(c[i]).board = k.board /\ drawnKey(c[i]).type = k.type
          BY <3>3, <4>1 DEF drawnKey
        <4> QED BY <4>2, <4>3
      <3> QED BY <3>3, <3>4, <3>5 DEF Fresh
    <2> QED BY <2>5, <2>6, <2>7, <2>8
  <1> QED BY <1>6, <1>7 DEF editsTo

-----------------------------------------------------------------------------
(* The invariant of the identities *)

\* The documents in a draft, a coordinator, the calls to the page and an update it put off.
Documents(d, c, calls, u) ==
    {X \in Document :
        \/ X \in draftDocuments(d)
        \/ X = c.snapshot.document
        \/ c.lastLoaded = <<X>>
        \/ c.task # NoTask /\ X = c.task.snapshot.document
        \/ \E n \in DOMAIN calls : carriesDocument(calls[n]) /\ X = calls[n].snapshot.document
        \/ carriesDocument(u) /\ X = u.snapshot.document}

inksIn(D) == {i \in Int : \E X \in D : i \in inksOf(X)}

\* No two documents of D disagree, and nothing in them is yet to be drawn.
Agreement(D, a) ==
    \A X \in D : (\A n \in DOMAIN X : X[n].ink <= a) /\ \A Y \in D : Agree(X, Y)

\* The ledger l is about elements of X.
Ledger(l, X, a) ==
    \A w \in DOMAIN l :
        /\ \E n \in DOMAIN X : l[w] = X[n].id
        /\ w.is = "board" => l[w] = w
        /\ w.is = "drawn" => w.ordinal <= a

ComingIn(calls, u) == (\E n \in DOMAIN calls : carriesDocument(calls[n])) \/ carriesDocument(u)

\* The document that comes last is X.
Pipe(calls, u, X) ==
    /\ \A i \in DOMAIN calls :
          carriesDocument(calls[i]) /\ (\A j \in DOMAIN calls : i < j => ~carriesDocument(calls[j]))
             => calls[i].snapshot.document = X
    /\ (\A i \in DOMAIN calls : ~carriesDocument(calls[i])) /\ carriesDocument(u)
             => u.snapshot.document = X

\* Canvas and scenes: what they came with under what was drawn, in the order it was drawn.
Ordered(ms, v, a) ==
    /\ InOrder(v) /\ AllBorn(v, a)
    /\ \A i \in Scenes(ms) : InOrder(ms[i].scene.elements) /\ AllBorn(ms[i].scene.elements, a)

Linked(ms, v, X, l, A) == Chain(ms, keys(visible(v)), canvasKeys(v), X, l, A)

\* The canvas has the snapshot's document, or is about to get it back from a scene.
Synced(c, calls, u) == c.lastLoaded = <<c.snapshot.document>> /\ ~ComingIn(calls, u)

Steady(d, c, calls, u, active, ms, v, a) ==
    /\ Agreement(Documents(d, c, calls, u), a)
    /\ Ledger(c.boardIDsByWebID, c.snapshot.document, a)
    /\ ComingIn(calls, u) => Scenes(ms) = {}
    /\ \A X : c.lastLoaded = <<X>> => Pipe(calls, u, X)
    /\ u # NoUpdate => active
    /\ Ordered(ms, v, a)
    /\ Synced(c, calls, u) =>
          Linked(ms, v, c.snapshot.document, c.boardIDsByWebID, inksIn(Documents(d, c, calls, u)))

\* The snapshot's document is one of the documents.
LEMMA SnapshotIsDocument ==
    ASSUME NEW c \in Coordinator, NEW d, NEW calls, NEW u
    PROVE  /\ c.snapshot.document \in Document
           /\ c.snapshot.document \in Documents(d, c, calls, u)
           /\ c.boardIDsByWebID \in IDLedgers
  <1>1. c.snapshot \in Snapshot /\ c.boardIDsByWebID \in IDLedgers
    BY DEF Coordinator
  <1>2. c.snapshot.document \in Document
    BY <1>1 DEF Snapshot
  <1> QED BY <1>1, <1>2 DEF Documents

\* The messages that carry a scene.
LEMMA ScenesAre ==
    ASSUME NEW ms \in Seq(Event)
    PROVE  /\ DOMAIN ms = 1..Len(ms) /\ Len(ms) \in Nat
           /\ \A i \in Scenes(ms) : /\ i \in DOMAIN ms /\ ms[i].scene \in Scene
                                    /\ ms[i].scene.elements \in Seq(SceneElement)
  <1>1. DOMAIN ms = 1..Len(ms) /\ Len(ms) \in Nat /\ \A i \in DOMAIN ms : ms[i] \in Event
    OBVIOUS
  <1>2. \A i \in Scenes(ms) : i \in DOMAIN ms /\ ms[i].scene \in Scene
    BY <1>1, EventKinds DEF Scenes
  <1>3. \A s \in Scene : s.elements \in Seq(SceneElement)
    BY DEF Scene, Bounded
  <1> QED BY <1>1, <1>2, <1>3

\* The ledger, as time passes.
LEMMA LedgerLater ==
    ASSUME NEW l \in IDLedgers, NEW X, NEW a \in Nat, NEW b \in Nat, a <= b, Ledger(l, X, a)
    PROVE  Ledger(l, X, b)
  <1>1. \A w \in DOMAIN l : w \in WebIDs
    BY LedgerIs
  <1>2. \A w \in WebIDs : w.is = "drawn" => w.ordinal \in Nat
    BY NoneIsNoID DEF WebIDs
  <1>3. \A w \in DOMAIN l : w.is = "drawn" => w.ordinal <= b
    BY <1>1, <1>2 DEF Ledger
  <1> QED BY <1>3 DEF Ledger

\* A canvas, as time passes.
LEMMA BornLater ==
    ASSUME NEW S \in {SceneElement, CanvasElement}, NEW s \in Seq(S), NEW a \in Nat, NEW b \in Nat, a <= b,
           AllBorn(s, a)
    PROVE  AllBorn(s, b)
  <1>1. \A n \in DOMAIN s : s[n] \in S
    OBVIOUS
  <1>2. \A n \in DOMAIN s : s[n].ink \in Int
    BY <1>1 DEF SceneElement, CanvasElement
  <1> QED BY <1>2 DEF AllBorn, born

\* Canvas and scenes, as time passes.
LEMMA OrderedLater ==
    ASSUME NEW ms \in Seq(Event), NEW v \in Seq(CanvasElement), NEW a \in Nat, NEW b \in Nat, a <= b,
           Ordered(ms, v, a)
    PROVE  Ordered(ms, v, b)
  <1>1. AllBorn(v, b)
    BY BornLater DEF Ordered
  <1>2. \A i \in Scenes(ms) : AllBorn(ms[i].scene.elements, b)
    <2> SUFFICES ASSUME NEW i \in Scenes(ms) PROVE AllBorn(ms[i].scene.elements, b)
      OBVIOUS
    <2>1. ms[i].scene.elements \in Seq(SceneElement)
      BY ScenesAre
    <2>2. AllBorn(ms[i].scene.elements, a)
      BY DEF Ordered
    <2> QED BY <2>1, <2>2, BornLater
  <1> QED BY <1>1, <1>2 DEF Ordered

\* Documents may go, and time passes.
LEMMA AgreementKeeps ==
    ASSUME NEW D, NEW E, \A X \in D : X \in Document, \A X \in E : X \in D,
           NEW a \in Nat, NEW b \in Nat, a <= b, Agreement(D, a)
    PROVE  Agreement(E, b)
  <1>1. \A X \in D : \A n \in DOMAIN X : X[n].ink \in Int
    BY DocumentIs
  <1>2. \A X \in E : \A n \in DOMAIN X : X[n].ink <= b
    BY <1>1 DEF Agreement
  <1> QED BY <1>2 DEF Agreement

\* The application forgets documents or turns to ones it has, a call that brings none is
\* sent or handled, gestures begin and end, and time passes.
LEMMA SteadyKeeps ==
    ASSUME NEW d, NEW c \in Coordinator, NEW calls, NEW u, NEW active,
           NEW ms \in Seq(Event), NEW v \in Seq(CanvasElement), NEW a \in Nat,
           Steady(d, c, calls, u, active, ms, v, a),
           NEW e, NEW k, NEW called, NEW w, NEW now, NEW b \in Nat, a <= b,
           k.snapshot.document = c.snapshot.document, k.lastLoaded = c.lastLoaded,
           k.boardIDsByWebID = c.boardIDsByWebID,
           \A X \in Documents(e, k, called, w) : X \in Documents(d, c, calls, u),
           ComingIn(called, w) <=> ComingIn(calls, u),
           \A X : Pipe(calls, u, X) => Pipe(called, w, X),
           w # NoUpdate => now
    PROVE  Steady(e, k, called, w, now, ms, v, b)
  <1> DEFINE D == Documents(d, c, calls, u)
             E == Documents(e, k, called, w)
  <1>1. \A X \in D : X \in Document
    BY DEF Documents
  <1>2. Agreement(D, a) /\ \A X \in E : X \in D
    BY DEF Steady
  <1>3. \A i \in inksIn(E) : i \in inksIn(D)
    BY <1>2 DEF inksIn
  <1> HIDE DEF D, E
  <1>4. Agreement(E, b)
    BY <1>1, <1>2, AgreementKeeps
  <1>5. Ledger(k.boardIDsByWebID, k.snapshot.document, b)
    BY SnapshotIsDocument, LedgerLater DEF Steady
  <1>6. Ordered(ms, v, b)
    BY OrderedLater DEF Steady
  <1>7. Synced(k, called, w) => Linked(ms, v, k.snapshot.document, k.boardIDsByWebID, inksIn(E))
    <2> SUFFICES ASSUME Synced(k, called, w)
                 PROVE  Linked(ms, v, k.snapshot.document, k.boardIDsByWebID, inksIn(E))
      OBVIOUS
    <2>1. Linked(ms, v, c.snapshot.document, c.boardIDsByWebID, inksIn(D))
      BY DEF Synced, Steady, D
    <2> DEFINE f == [i \in DOMAIN ms |-> i]
    <2>2. Fewer(ms, ms, f)
      BY DEF Fewer
    <2>3. SameLedger(c.boardIDsByWebID, c.boardIDsByWebID)
      BY DEF SameLedger
    <2> HIDE DEF f
    <2> QED BY <1>3, <2>1, <2>2, <2>3, ChainShrinks DEF Linked
  <1> QED BY <1>4, <1>5, <1>6, <1>7 DEF Steady, E

\* A message arrives, or was of no use.
LEMMA SteadyReceives ==
    ASSUME NEW d, NEW c, NEW calls, NEW u, NEW active, NEW ms, NEW v, NEW a,
           Steady(d, c, calls, u, active, ms, v, a), NEW ns, NEW f, Fewer(ns, ms, f)
    PROVE  Steady(d, c, calls, u, active, ns, v, a)
  <1>1. \A i \in Scenes(ns) : f[i] \in Scenes(ms) /\ ns[i] = ms[f[i]]
    BY DEF Scenes, Fewer
  <1>2. Ordered(ns, v, a)
    BY <1>1 DEF Steady, Ordered
  <1>3. ComingIn(calls, u) => Scenes(ns) = {}
    BY <1>1 DEF Steady
  <1> DEFINE A == inksIn(Documents(d, c, calls, u))
  <1>4. Synced(c, calls, u) => Linked(ns, v, c.snapshot.document, c.boardIDsByWebID, A)
    <2> SUFFICES ASSUME Synced(c, calls, u)
                 PROVE  Linked(ns, v, c.snapshot.document, c.boardIDsByWebID, A)
      OBVIOUS
    <2>1. Linked(ms, v, c.snapshot.document, c.boardIDsByWebID, A)
      BY DEF Steady
    <2>2. SameLedger(c.boardIDsByWebID, c.boardIDsByWebID)
      BY DEF SameLedger
    <2> HIDE DEF A
    <2> QED BY <2>1, <2>2, ChainShrinks DEF Linked
  <1> QED BY <1>2, <1>3, <1>4 DEF Steady

\* The page sends what the canvas shows, or what is no scene.
LEMMA SteadyPosts ==
    ASSUME NEW d, NEW c, NEW calls, NEW u, NEW active, NEW ms \in Seq(Event), NEW v, NEW a,
           v \in Seq(CanvasElement),
           Steady(d, c, calls, u, active, ms, v, a),
           NEW m \in Event, NEW ns, ns = Append(ms, m),
           carriesScene(m) => m.scene.elements = visible(v) /\ ~ComingIn(calls, u)
    PROVE  Steady(d, c, calls, u, active, ns, v, a)
  <1>1. /\ Len(ms) \in Nat /\ DOMAIN ms = 1..Len(ms) /\ DOMAIN ns = 1..Len(ms) + 1
        /\ \A i \in 1..Len(ms) : ns[i] = ms[i]
        /\ ns[Len(ms) + 1] = m
    OBVIOUS
  <1>2. /\ \A i \in Scenes(ms) : i \in DOMAIN ms
        /\ \A i \in Scenes(ns) : (i \in Scenes(ms) /\ ns[i] = ms[i]) \/ (ns[i] = m /\ carriesScene(m))
    BY <1>1 DEF Scenes
  <1>3. InOrder(v) /\ AllBorn(v, a)
    BY DEF Steady, Ordered
  <1> DEFINE s == visible(v)
             R == canvasKeys(v)
  <1>4. InOrder(s) /\ AllBorn(s, a)
    BY <1>3, CanvasKeysAre
  <1>5. Ordered(ns, v, a)
    BY <1>2, <1>3, <1>4 DEF Steady, Ordered
  <1>6. ComingIn(calls, u) => Scenes(ns) = {}
    BY <1>2 DEF Steady
  <1> DEFINE A == inksIn(Documents(d, c, calls, u))
  <1>7. Synced(c, calls, u) => Linked(ns, v, c.snapshot.document, c.boardIDsByWebID, A)
    <2> SUFFICES ASSUME Synced(c, calls, u)
                 PROVE  Linked(ns, v, c.snapshot.document, c.boardIDsByWebID, A)
      OBVIOUS
    <2>1. Linked(ms, v, c.snapshot.document, c.boardIDsByWebID, A)
      BY DEF Steady
    <2>2. carriesScene(ns[Len(ms) + 1]) => sceneKeys(ns[Len(ms) + 1]) = keys(visible(v))
      BY <1>1 DEF sceneKeys
    <2> HIDE DEF A
    <2> QED BY <1>1, <2>1, <2>2, ChainPosts DEF Linked
  <1> QED BY <1>5, <1>6, <1>7 DEF Steady

\* The person changes the canvas.
LEMMA SteadyEdits ==
    ASSUME NEW d, NEW c \in Coordinator, NEW calls, NEW u, NEW active,
           NEW ms \in Seq(Event), NEW v \in Seq(CanvasElement), NEW a \in Nat,
           Steady(d, c, calls, u, active, ms, v, a),
           NEW x \in Seq(CanvasElement), editsTo(x, v, a + 1)
    PROVE  Steady(d, c, calls, u, active, ms, x, a + 1)
  <1> DEFINE D == Documents(d, c, calls, u)
             X == c.snapshot.document
             l == c.boardIDsByWebID
  <1>0. /\ a + 1 \in Nat /\ a <= a + 1
        /\ \A Y \in Documents(d, c, calls, u) : Y \in Documents(d, c, calls, u)
        /\ \A Y : Pipe(calls, u, Y) => Pipe(calls, u, Y)
        /\ ComingIn(calls, u) <=> ComingIn(calls, u)
        /\ u # NoUpdate => active
    BY DEF Steady
  <1>1. Steady(d, c, calls, u, active, ms, v, a + 1)
    BY <1>0, SteadyKeeps
  <1>2. InOrder(v) /\ AllBorn(v, a)
    BY DEF Steady, Ordered
  <1>3. /\ InOrder(x) /\ AllBorn(x, a + 1)
        /\ Within(canvasKeys(v), canvasKeys(x))
        /\ \A k \in keys(visible(x)) : k \in keys(visible(v)) \/ Fresh(k, keys(visible(v)), a)
    BY <1>2, EditedKeys
  <1>4. /\ Within(canvasKeys(v), Key) /\ Within(keys(visible(x)), canvasKeys(x))
        /\ \A k \in canvasKeys(v) : k.ink <= a
    BY <1>2, <1>3, CanvasKeysAre
  <1>5. X \in Document /\ X \in D
    BY SnapshotIsDocument
  <1>6. \A n \in DOMAIN X : X[n].ink \in Int /\ X[n].ink <= a
    BY <1>5, DocumentIs DEF Steady, Agreement
  <1>7. \A i \in inksIn(D) : i <= a
    BY DEF Steady, Agreement, inksIn, inksOf
  <1>8. \A w \in DOMAIN l : w.is = "drawn" => w.ordinal <= a
    BY DEF Steady, Ledger
  <1>9. Synced(c, calls, u) => Linked(ms, v, X, l, inksIn(D))
    BY DEF Steady
  <1> HIDE DEF D, X, l
  <1>10. Synced(c, calls, u) => Linked(ms, x, X, l, inksIn(D))
    BY <1>3, <1>4, <1>6, <1>7, <1>8, <1>9, ChainEdits DEF Linked
  <1>11. Ordered(ms, x, a + 1)
    BY <1>1, <1>3 DEF Steady, Ordered
  <1> QED BY <1>1, <1>10, <1>11 DEF Steady, D, X, l

\* The document X replaces the canvas.
LEMMA SteadyLoads ==
    ASSUME NEW d, NEW c \in Coordinator, NEW calls, NEW u, NEW active,
           NEW ms \in Seq(Event), NEW v, NEW a \in Nat,
           Steady(d, c, calls, u, active, ms, v, a), ComingIn(calls, u),
           NEW X \in Documents(d, c, calls, u), NEW x, Canonical(x, X),
           NEW called, NEW now,
           \A Y \in Documents(d, c, called, NoUpdate) : Y \in Documents(d, c, calls, u),
           \A Y : Pipe(calls, u, Y) => Pipe(called, NoUpdate, Y),
           ~ComingIn(called, NoUpdate) => \A Y : Pipe(calls, u, Y) => X = Y
    PROVE  Steady(d, c, called, NoUpdate, now, ms, x, a)
  <1> DEFINE D == Documents(d, c, calls, u)
             E == Documents(d, c, called, NoUpdate)
             P == c.snapshot.document
  <1>1. \A Y \in D : Y \in Document
    BY DEF Documents
  <1>2. Agreement(D, a) /\ X \in D
    BY DEF Steady
  <1> HIDE DEF D
  <1>3. X \in Document /\ Agree(X, X) /\ \A n \in DOMAIN X : X[n].ink <= a
    BY <1>1, <1>2 DEF Agreement
  <1>4. /\ InOrder(x) /\ AllBorn(x, a)
        /\ \A p, n \in DOMAIN X : X[p].ink = X[n].ink => p = n
        /\ \A k \in canvasKeys(x) : \E n \in DOMAIN X :
              k.ink = X[n].ink /\ k.web = X[n].id /\ k.board = X[n].id /\ k.type = X[n].type
    BY <1>3, CanonicalKeys
  <1>5. x \in Seq(CanvasElement)
    BY DEF Canonical
  <1>6. Within(keys(visible(x)), canvasKeys(x))
    BY <1>4, <1>5, CanvasKeysAre
  <1>7. Scenes(ms) = {}
    BY DEF Steady
  <1>8. Ordered(ms, x, a)
    BY <1>4, <1>7 DEF Ordered
  <1>9. Synced(c, called, NoUpdate) => Linked(ms, x, P, c.boardIDsByWebID, inksIn(E))
    <2> SUFFICES ASSUME Synced(c, called, NoUpdate)
                 PROVE  Linked(ms, x, P, c.boardIDsByWebID, inksIn(E))
      OBVIOUS
    <2>1. X = P
      BY DEF Synced, Steady
    <2>2. \A k \in keys(visible(x)) : \E n \in DOMAIN P :
              k.ink = P[n].ink /\ k.web = P[n].id /\ k.board = P[n].id /\ k.type = P[n].type
      BY <1>4, <1>6, <2>1 DEF Within
    <2> DEFINE K == keys(visible(x))
               A == inksIn(E)
               l == c.boardIDsByWebID
    <2> HIDE DEF K, A, P, l
    <2>3. Chain(ms, K, canvasKeys(x), P, l, A)
      BY <1>3, <1>4, <1>6, <1>7, <2>1, <2>2, ChainStarts DEF K
    <2> QED BY <2>3 DEF Linked, K, A, l
  <1>10. Agreement(E, a)
    <2>1. \A Y \in E : Y \in D
      BY DEF D
    <2> HIDE DEF E
    <2>2. a <= a
      OBVIOUS
    <2> QED BY <1>1, <1>2, <2>1, <2>2, AgreementKeeps
  <1>11. ComingIn(called, NoUpdate) => Scenes(ms) = {}
    BY <1>7
  <1> QED BY <1>8, <1>9, <1>10, <1>11 DEF Steady

\* A call is taken off the channel; v is what is put off from now on.
LEMMA TailIs ==
    ASSUME NEW d, NEW c, NEW calls \in Seq(Call), calls # <<>>, NEW h, h = Head(calls),
           NEW t, t = Tail(calls), NEW u, NEW v,
           carriesDocument(v) => \/ carriesDocument(h) /\ v.snapshot.document = h.snapshot.document
                                 \/ ~carriesDocument(h) /\ v = u
    PROVE  /\ \A X \in Documents(d, c, t, v) : X \in Documents(d, c, calls, u)
           /\ \A X : Pipe(calls, u, X) => Pipe(t, v, X)
           /\ ComingIn(t, v) => ComingIn(calls, u)
           /\ ((carriesDocument(h) \/ carriesDocument(u)) => carriesDocument(v))
                 => (ComingIn(t, v) <=> ComingIn(calls, u))
           /\ carriesDocument(h) => ComingIn(calls, u)
           /\ carriesDocument(h) /\ h.snapshot.document \in Document
                 => h.snapshot.document \in Documents(d, c, calls, u)
           /\ carriesDocument(h) /\ ~ComingIn(t, v) => \A X : Pipe(calls, u, X) => h.snapshot.document = X
  <1>1. /\ h = calls[1] /\ 1 \in DOMAIN calls /\ Len(calls) \in Nat \ {0} /\ DOMAIN calls = 1..Len(calls)
        /\ DOMAIN t = 1..Len(calls) - 1
        /\ \A n \in DOMAIN t : n + 1 \in DOMAIN calls /\ t[n] = calls[n + 1]
        /\ \A n \in DOMAIN calls : n = 1 \/ (n - 1 \in DOMAIN t /\ calls[n] = t[n - 1])
    <2>1. /\ h = calls[1] /\ Len(calls) \in Nat \ {0} /\ DOMAIN calls = 1..Len(calls)
          /\ DOMAIN t = 1..Len(calls) - 1 /\ \A n \in 1..Len(calls) - 1 : t[n] = calls[n + 1]
      BY ShorterTyped
    <2> QED BY <2>1
  <1>2. /\ \A n \in DOMAIN t : t[n] = calls[n + 1] /\ n + 1 \in DOMAIN calls
        /\ (\E n \in DOMAIN t : carriesDocument(t[n])) => \E n \in DOMAIN calls : carriesDocument(calls[n])
        /\ (\E n \in DOMAIN calls : carriesDocument(calls[n]))
             => carriesDocument(h) \/ \E n \in DOMAIN t : carriesDocument(t[n])
    <2>1. \A n \in DOMAIN calls : carriesDocument(calls[n]) =>
                carriesDocument(h) \/ \E i \in DOMAIN t : carriesDocument(t[i])
      BY <1>1
    <2> QED BY <1>1, <2>1
  <1>3. \A X \in Documents(d, c, t, v) : X \in Documents(d, c, calls, u)
    <2> SUFFICES ASSUME NEW X \in Documents(d, c, t, v) PROVE X \in Documents(d, c, calls, u)
      OBVIOUS
    <2>1. CASE \E n \in DOMAIN t : carriesDocument(t[n]) /\ X = t[n].snapshot.document
      <3>1. \E n \in DOMAIN calls : carriesDocument(calls[n]) /\ X = calls[n].snapshot.document
        BY <1>2, <2>1
      <3> QED BY <3>1 DEF Documents
    <2>2. CASE carriesDocument(v) /\ X = v.snapshot.document
      BY <1>1, <2>2 DEF Documents
    <2> QED BY <2>1, <2>2 DEF Documents
  <1>4. ASSUME NEW X, Pipe(calls, u, X) PROVE Pipe(t, v, X)
    <2>1. ASSUME NEW i \in DOMAIN t, carriesDocument(t[i]), \A j \in DOMAIN t : i < j => ~carriesDocument(t[j])
          PROVE  t[i].snapshot.document = X
      <3>1. i + 1 \in DOMAIN calls /\ calls[i + 1] = t[i]
        BY <1>1
      <3>2. ASSUME NEW j \in DOMAIN calls, i + 1 < j PROVE ~carriesDocument(calls[j])
        <4>1. i \in Nat /\ j # 1
          BY <1>1, <3>2
        <4>2. j - 1 \in DOMAIN t /\ calls[j] = t[j - 1] /\ i < j - 1
          BY <1>1, <3>2, <4>1
        <4> QED BY <2>1, <4>2
      <3> QED BY <1>4, <2>1, <3>1, <3>2 DEF Pipe
    <2>2. ASSUME \A i \in DOMAIN t : ~carriesDocument(t[i]), carriesDocument(v)
          PROVE  v.snapshot.document = X
      <3>1. CASE carriesDocument(h)
        <4>1. \A j \in DOMAIN calls : 1 < j => ~carriesDocument(calls[j])
          <5> SUFFICES ASSUME NEW j \in DOMAIN calls, 1 < j PROVE ~carriesDocument(calls[j])
            OBVIOUS
          <5>1. j - 1 \in DOMAIN t /\ calls[j] = t[j - 1]
            BY <1>1
          <5> QED BY <2>2, <5>1
        <4>2. calls[1].snapshot.document = X
          BY <1>1, <1>4, <3>1, <4>1 DEF Pipe
        <4>3. v.snapshot.document = h.snapshot.document
          BY <2>2, <3>1
        <4> QED BY <1>1, <4>2, <4>3
      <3>2. CASE ~carriesDocument(h)
        <4>1. \A i \in DOMAIN calls : ~carriesDocument(calls[i])
          BY <1>2, <2>2, <3>2
        <4>2. v = u
          BY <2>2, <3>2
        <4> QED BY <1>4, <2>2, <4>1, <4>2 DEF Pipe
      <3> QED BY <3>1, <3>2
    <2> QED BY <2>1, <2>2 DEF Pipe
  <1>5. ComingIn(t, v) => ComingIn(calls, u)
    <2>1. carriesDocument(h) => \E n \in DOMAIN calls : carriesDocument(calls[n])
      BY <1>1
    <2> QED BY <1>2, <2>1 DEF ComingIn
  <1>6. ((carriesDocument(h) \/ carriesDocument(u)) => carriesDocument(v))
                 => (ComingIn(t, v) <=> ComingIn(calls, u))
    BY <1>2, <1>5 DEF ComingIn
  <1>7. carriesDocument(h) => ComingIn(calls, u)
    BY <1>1 DEF ComingIn
  <1>8. carriesDocument(h) /\ h.snapshot.document \in Document
           => h.snapshot.document \in Documents(d, c, calls, u)
    BY <1>1 DEF Documents
  <1>9. ASSUME carriesDocument(h), ~ComingIn(t, v), NEW X, Pipe(calls, u, X)
        PROVE  h.snapshot.document = X
    <2>1. \A j \in DOMAIN calls : 1 < j => ~carriesDocument(calls[j])
      <3> SUFFICES ASSUME NEW j \in DOMAIN calls, 1 < j PROVE ~carriesDocument(calls[j])
        OBVIOUS
      <3>1. j - 1 \in DOMAIN t /\ calls[j] = t[j - 1]
        BY <1>1
      <3> QED BY <1>9, <3>1 DEF ComingIn
    <2> QED BY <1>1, <1>9, <2>1 DEF Pipe
  <1> QED BY <1>3, <1>4, <1>5, <1>6, <1>7, <1>8, <1>9

\* A call is sent.
LEMMA AppendIs ==
    ASSUME NEW d, NEW c, NEW calls \in Seq(Call), NEW m \in Call, NEW t, t = Append(calls, m), NEW u
    PROVE  /\ ~carriesDocument(m) =>
                 /\ \A X \in Documents(d, c, t, u) : X \in Documents(d, c, calls, u)
                 /\ \A X : Pipe(calls, u, X) => Pipe(t, u, X)
                 /\ ComingIn(t, u) <=> ComingIn(calls, u)
           /\ carriesDocument(m) =>
                 /\ \A X \in Documents(d, c, t, u) :
                       X \in Documents(d, c, calls, u) \/ X = m.snapshot.document
                 /\ \A X : X = m.snapshot.document => Pipe(t, u, X)
                 /\ ComingIn(t, u)
  <1>1. /\ Len(calls) \in Nat /\ DOMAIN calls = 1..Len(calls) /\ DOMAIN t = 1..Len(calls) + 1
        /\ t[Len(calls) + 1] = m /\ \A n \in DOMAIN calls : n \in DOMAIN t /\ t[n] = calls[n]
        /\ \A n \in DOMAIN t : n = Len(calls) + 1 \/ n \in DOMAIN calls
    <2>1. /\ Len(calls) \in Nat /\ DOMAIN calls = 1..Len(calls) /\ DOMAIN t = 1..Len(calls) + 1
          /\ t[Len(calls) + 1] = m /\ \A n \in DOMAIN calls : t[n] = calls[n]
      OBVIOUS
    <2> QED BY <2>1
  <1>2. \A n \in DOMAIN t : t[n] = m \/ (n \in DOMAIN calls /\ t[n] = calls[n])
    BY <1>1
  <1>3. \A X \in Documents(d, c, t, u) :
            X \in Documents(d, c, calls, u) \/ (carriesDocument(m) /\ X = m.snapshot.document)
    BY <1>2 DEF Documents
  <1>4. ComingIn(t, u) <=> ComingIn(calls, u) \/ carriesDocument(m)
    <2>1. (\E n \in DOMAIN t : carriesDocument(t[n]))
            <=> (\E n \in DOMAIN calls : carriesDocument(calls[n])) \/ carriesDocument(m)
      BY <1>1, <1>2
    <2> QED BY <2>1 DEF ComingIn
  <1>5. ASSUME ~carriesDocument(m), NEW X, Pipe(calls, u, X) PROVE Pipe(t, u, X)
    <2>1. ASSUME NEW i \in DOMAIN t, carriesDocument(t[i]), \A j \in DOMAIN t : i < j => ~carriesDocument(t[j])
          PROVE  t[i].snapshot.document = X
      <3>1. i \in DOMAIN calls /\ t[i] = calls[i]
        BY <1>2, <1>5, <2>1
      <3>2. \A j \in DOMAIN calls : i < j => ~carriesDocument(calls[j])
        BY <1>1, <2>1
      <3> QED BY <1>5, <2>1, <3>1, <3>2 DEF Pipe
    <2>2. ASSUME \A i \in DOMAIN t : ~carriesDocument(t[i]), carriesDocument(u)
          PROVE  u.snapshot.document = X
      <3>1. \A i \in DOMAIN calls : ~carriesDocument(calls[i])
        BY <1>1, <2>2
      <3> QED BY <1>5, <2>2, <3>1 DEF Pipe
    <2> QED BY <2>1, <2>2 DEF Pipe
  <1>6. ASSUME carriesDocument(m), NEW X, X = m.snapshot.document PROVE Pipe(t, u, X)
    <2>1. ASSUME NEW i \in DOMAIN t, carriesDocument(t[i]), \A j \in DOMAIN t : i < j => ~carriesDocument(t[j])
          PROVE  t[i].snapshot.document = X
      <3>1. ~(i < Len(calls) + 1)
        BY <1>1, <1>6, <2>1
      <3>2. i = Len(calls) + 1
        BY <1>1, <3>1
      <3> QED BY <1>1, <1>6, <3>2
    <2>2. Len(calls) + 1 \in DOMAIN t /\ carriesDocument(t[Len(calls) + 1])
      BY <1>1, <1>6
    <2> QED BY <2>1, <2>2 DEF Pipe
  <1> QED BY <1>3, <1>4, <1>5, <1>6

\* The snapshot's document is sent.
LEMMA SteadyRuns ==
    ASSUME NEW d, NEW c \in Coordinator, NEW calls \in Seq(Call), NEW u, NEW active,
           NEW ms, NEW v, NEW a \in Nat,
           Steady(d, c, calls, u, active, ms, v, a), Scenes(ms) = {},
           NEW m \in Call, carriesDocument(m), m.snapshot.document = c.snapshot.document,
           NEW k, k.snapshot = c.snapshot, k.lastLoaded = <<m.snapshot.document>>,
           k.boardIDsByWebID = c.boardIDsByWebID, k.task = NoTask,
           NEW called, called = Append(calls, m)
    PROVE  Steady(d, k, called, u, active, ms, v, a)
  <1> DEFINE D == Documents(d, c, calls, u)
             E == Documents(d, k, called, u)
  <1>1. c.snapshot.document \in D
    BY SnapshotIsDocument
  <1>2. /\ \A X \in Documents(d, k, called, u) : X \in Documents(d, k, calls, u) \/ X = m.snapshot.document
        /\ \A X : X = m.snapshot.document => Pipe(called, u, X)
        /\ ComingIn(called, u)
    BY AppendIs
  <1>3. \A X : <<X>> = <<m.snapshot.document>> => X = m.snapshot.document
    OBVIOUS
  <1>4. \A X \in Documents(d, k, calls, u) : X \in D \/ X = m.snapshot.document
    BY <1>3 DEF Documents
  <1>5. \A X \in E : X \in D
    BY <1>1, <1>2, <1>4
  <1>6. Agreement(D, a) /\ \A X \in D : X \in Document
    BY DEF Steady, Documents
  <1> HIDE DEF D, E
  <1>7. Agreement(E, a)
    <2>1. a <= a
      OBVIOUS
    <2> QED BY <1>5, <1>6, <2>1, AgreementKeeps
  <1>8. \A X : k.lastLoaded = <<X>> => Pipe(called, u, X)
    BY <1>2, <1>3
  <1>9. ~Synced(k, called, u)
    BY <1>2 DEF Synced
  <1> QED BY <1>2, <1>7, <1>8, <1>9 DEF Steady, E

\* SwiftUI presents the document X.
LEMMA SteadyPresents ==
    ASSUME NEW d, NEW c \in Coordinator, NEW calls, NEW u, NEW active,
           NEW ms, NEW v, NEW a \in Nat,
           Steady(d, c, calls, u, active, ms, v, a),
           NEW X \in Document, c.lastLoaded = <<X>> => c.snapshot.document = X,
           NEW k, k.snapshot.document = X, k.lastLoaded = c.lastLoaded,
           k.boardIDsByWebID = keeping(c.boardIDsByWebID, ids(X)),
           NEW called,
           \A Y \in Documents(d, k, called, u) : Y \in Documents(d, c, calls, u),
           ComingIn(called, u) <=> ComingIn(calls, u),
           \A Y : Pipe(calls, u, Y) => Pipe(called, u, Y)
    PROVE  Steady(d, k, called, u, active, ms, v, a)
  <1> DEFINE D == Documents(d, c, calls, u)
             E == Documents(d, k, called, u)
             l == c.boardIDsByWebID
             n == k.boardIDsByWebID
  <1>1. l \in IDLedgers
    BY SnapshotIsDocument
  <1>2. DOMAIN n = {w \in DOMAIN l : l[w] \in ids(X)} /\ \A w \in DOMAIN n : n[w] = l[w]
    <2> DEFINE kept == ids(X)
    <2>1. n = keeping(l, kept)
      OBVIOUS
    <2> HIDE DEF l, n, kept
    <2>2. DOMAIN n = {w \in DOMAIN l : l[w] \in kept} /\ \A w \in DOMAIN n : n[w] = l[w]
      BY <1>1, <2>1, KeepingIs
    <2> QED BY <2>2 DEF kept
  <1>3. ids(X) = {X[i].id : i \in DOMAIN X}
    BY DocumentIs, IdsAreFinite
  <1>4. Ledger(l, c.snapshot.document, a)
    BY DEF Steady
  <1>5. \A Y \in D : Y \in Document
    BY DEF Documents
  <1>6. Agreement(D, a) /\ \A Y \in E : Y \in D
    BY DEF Steady
  <1>7. \A i \in inksIn(E) : i \in inksIn(D)
    BY <1>6 DEF inksIn
  <1>8. Synced(k, called, u) => /\ Linked(ms, v, c.snapshot.document, l, inksIn(D))
                                /\ c.snapshot.document = X
    BY DEF Synced, Steady
  <1> HIDE DEF D, E, l, n
  <1>9. Agreement(E, a)
    <2>1. a <= a
      OBVIOUS
    <2> QED BY <1>5, <1>6, <2>1, AgreementKeeps
  <1>10. Ledger(n, X, a)
    BY <1>2, <1>3, <1>4 DEF Ledger
  <1>11. Synced(k, called, u) => Linked(ms, v, X, n, inksIn(E))
    <2> SUFFICES ASSUME Synced(k, called, u) PROVE Linked(ms, v, X, n, inksIn(E))
      OBVIOUS
    <2>1. SameLedger(l, n)
      BY <1>2, <1>3, <1>4, <1>8 DEF SameLedger, Ledger
    <2> DEFINE f == [i \in DOMAIN ms |-> i]
    <2>2. Fewer(ms, ms, f)
      BY DEF Fewer
    <2> HIDE DEF f
    <2> QED BY <1>7, <1>8, <2>1, <2>2, ChainShrinks DEF Linked
  <1> QED BY <1>9, <1>10, <1>11 DEF Steady, E, n

\* A decoded document agrees with every document there is, and the ledger is about it.
LEMMA DecodedAgrees ==
    ASSUME NEW s \in Seq(SceneElement), NEW X \in Document, NEW l \in IDLedgers, NEW a \in Nat, NEW A,
           InOrder(s), AllBorn(s, a), Known(keys(s), X, l, A), Ledger(l, X, a),
           NEW Y, NEW m, Decoded(s, X, l, Y, m),
           \A n \in DOMAIN Y : Y[n].ink \in Int
    PROVE  /\ Agree(Y, Y) /\ \A n \in DOMAIN Y : Y[n].ink <= a
           /\ \A Z : Agree(X, Z) /\ (\A n \in DOMAIN Z : Z[n].ink \in A) => Agree(Y, Z) /\ Agree(Z, Y)
           /\ Ledger(m, Y, a)
  <1> DEFINE K == keys(s)
  <1>0. DOMAIN s = 1..Len(s) /\ Len(s) \in Nat /\ DOMAIN Y = DOMAIN s
    BY DEF Decoded
  <1>1. \A n \in DOMAIN s : s[n].ink \in Int
    <2>1. \A n \in DOMAIN s : s[n] \in SceneElement
      OBVIOUS
    <2> QED BY <2>1 DEF SceneElement
  <1>2. \A n \in DOMAIN s : /\ Y[n].ink = s[n].ink /\ Y[n].type = s[n].type
                            /\ \A p \in DOMAIN X : X[p].ink = s[n].ink => Y[n].id = X[p].id
                            /\ s[n].web \in DOMAIN m /\ m[s[n].web] = Y[n].id
    BY DEF Decoded
  <1>3. \A n \in DOMAIN s : /\ s[n].ink \in A => s[n].ink \in inksOf(X)
                            /\ ~isDrawn(s[n]) => s[n].ink \in inksOf(X)
                            /\ \A p \in DOMAIN X : X[p].ink = s[n].ink =>
                                  X[p].type = s[n].type /\ (~isDrawn(s[n]) => s[n].board = X[p].id)
    <2>1. \A n \in DOMAIN s : /\ who(s[n]) \in K /\ who(s[n]).ink = s[n].ink /\ who(s[n]).type = s[n].type
                              /\ who(s[n]).board = s[n].board
                              /\ isDrawn(who(s[n])) <=> isDrawn(s[n])
      BY KeysAre
    <2> HIDE DEF K
    <2>2. \A k \in K : /\ k.ink \in A => k.ink \in inksOf(X)
                       /\ ~isDrawn(k) => k.ink \in inksOf(X)
                       /\ \A p \in DOMAIN X : X[p].ink = k.ink =>
                             X[p].type = k.type /\ (~isDrawn(k) => k.board = X[p].id)
      BY DEF Known, identified, K
    <2> QED BY <2>1, <2>2
  <1>4. \A i, n \in DOMAIN s : s[i].ink = s[n].ink => i = n
    BY <1>0, <1>1, BornApart
  <1>5. Agree(Y, Y)
    BY <1>0, <1>2, <1>4 DEF Agree
  <1>6. \A n \in DOMAIN Y : Y[n].ink <= a
    BY <1>0, <1>2 DEF AllBorn, born
  <1>7. ASSUME NEW Z, Agree(X, Z), \A n \in DOMAIN Z : Z[n].ink \in A,
               NEW n \in DOMAIN Y, NEW q \in DOMAIN Z, Y[n].ink = Z[q].ink
        PROVE  Y[n].id = Z[q].id /\ Y[n].type = Z[q].type
    <2>1. s[n].ink \in inksOf(X)
      BY <1>0, <1>2, <1>3, <1>7
    <2>2. PICK p \in DOMAIN X : X[p].ink = s[n].ink
      BY <2>1 DEF inksOf
    <2>3. Y[n].id = X[p].id /\ X[p].type = Y[n].type /\ X[p].ink = Z[q].ink
      BY <1>0, <1>2, <1>3, <1>7, <2>2
    <2> QED BY <1>7, <2>3 DEF Agree
  <1>8. ASSUME NEW Z, Agree(X, Z), \A n \in DOMAIN Z : Z[n].ink \in A
        PROVE  Agree(Y, Z) /\ Agree(Z, Y)
    BY <1>7, <1>8 DEF Agree
  <1>9. ASSUME NEW w \in DOMAIN m
        PROVE  /\ \E n \in DOMAIN Y : m[w] = Y[n].id
               /\ w.is = "board" => m[w] = w
               /\ w.is = "drawn" => w.ordinal <= a
    <2>1. CASE w \in DOMAIN l /\ m[w] = l[w] /\ m[w] \in {Y[n].id : n \in DOMAIN Y}
      BY <2>1 DEF Ledger
    <2>2. CASE \E n \in DOMAIN s : s[n].web = w
      <3>1. PICK n \in DOMAIN s : s[n].web = w
        BY <2>2
      <3>2. m[w] = Y[n].id
        BY <1>2, <3>1
      <3>3. s[n].ink <= a /\ IF isDrawn(s[n]) THEN s[n].web = drawnID(s[n].ink) ELSE s[n].web = s[n].board
        BY DEF AllBorn, born
      <3>4. w.is = "board" => m[w] = w
        <4> SUFFICES ASSUME w.is = "board" PROVE m[w] = w
          OBVIOUS
        <4>1. ~isDrawn(s[n])
          BY <3>1 DEF isDrawn
        <4>2. PICK p \in DOMAIN X : X[p].ink = s[n].ink
          BY <1>3, <4>1 DEF inksOf
        <4>3. Y[n].id = X[p].id /\ s[n].board = X[p].id
          BY <1>2, <1>3, <4>1, <4>2
        <4> QED BY <3>1, <3>2, <3>3, <4>1, <4>3
      <3>5. w.is = "drawn" => w.ordinal <= a
        <4> SUFFICES ASSUME w.is = "drawn" PROVE w.ordinal <= a
          OBVIOUS
        <4>1. w = drawnID(s[n].ink)
          BY <3>1, <3>3 DEF isDrawn
        <4>2. w.ordinal = s[n].ink
          BY <4>1 DEF drawnID
        <4> QED BY <3>3, <4>2
      <3> QED BY <1>0, <3>2, <3>4, <3>5
    <2> QED BY <2>1, <2>2 DEF Decoded
  <1>10. Ledger(m, Y, a)
    BY <1>9 DEF Ledger
  <1> QED BY <1>5, <1>6, <1>8, <1>10

\* A scene is accepted: those before it are of no use any more.
\* The scene of the message h, decoded as g, takes the draft d and the coordinator c to e
\* and k, and leaves the messages ns.
Taken(d, c, calls, u, ms, h, g, e, k, ns, f) ==
    /\ c.lastLoaded = <<c.snapshot.document>>
    /\ h \in Scenes(ms) /\ Honest(ms[h].scene.elements, c.boardIDsByWebID)
    /\ g = decodeChange(ms[h].scene, c.snapshot.document, c.boardIDsByWebID)
    /\ k.snapshot.document = g.document /\ k.lastLoaded = <<g.document>>
    /\ k.boardIDsByWebID = learn(c.boardIDsByWebID, g)
    /\ \A Z \in Documents(e, k, calls, u) : Z \in Documents(d, c, calls, u) \/ Z = g.document
    /\ Fewer(ns, ms, f) /\ \A i \in DOMAIN ns : carriesScene(ns[i]) => h < f[i]

\* A scene is accepted: those before it are of no use any more.
LEMMA SteadyAccepts ==
    ASSUME NEW d, NEW c \in Coordinator, NEW calls, NEW u, NEW active,
           NEW ms \in Seq(Event), NEW v \in Seq(CanvasElement), NEW a \in Nat,
           Steady(d, c, calls, u, active, ms, v, a),
           NEW h, NEW g, NEW e, NEW k, NEW ns, NEW f, Taken(d, c, calls, u, ms, h, g, e, k, ns, f)
    PROVE  /\ Steady(e, k, calls, u, active, ns, v, a)
           /\ \A Z \in Documents(d, c, calls, u) : Agree(Z, g.document)
  <1> DEFINE X == c.snapshot.document
             l == c.boardIDsByWebID
             scene == ms[h].scene
             Y == g.document
             m == learn(l, g)
  <1>0. /\ c.lastLoaded = <<X>> /\ h \in Scenes(ms) /\ Honest(scene.elements, l)
        /\ g = decodeChange(scene, X, l)
        /\ k.snapshot.document = Y /\ k.lastLoaded = <<Y>> /\ k.boardIDsByWebID = m
        /\ \A Z \in Documents(e, k, calls, u) : Z \in Documents(d, c, calls, u) \/ Z = Y
        /\ Fewer(ns, ms, f) /\ \A i \in DOMAIN ns : carriesScene(ns[i]) => h < f[i]
        /\ X = c.snapshot.document /\ l = c.boardIDsByWebID /\ scene = ms[h].scene
        /\ Y = g.document /\ m = learn(l, g)
    BY DEF Taken
  <1> HIDE DEF X, l, scene, Y, m
  <1> USE <1>0
  <1> DEFINE D == Documents(d, c, calls, u)
             E == Documents(e, k, calls, u)
             s == scene.elements
             A == inksIn(D)
             B == inksIn(E)
             C == keys(visible(v))
             R == canvasKeys(v)
  <1>1. X \in Document /\ X \in D /\ l \in IDLedgers
    BY SnapshotIsDocument
  <1>2. scene \in Scene /\ s \in Seq(SceneElement) /\ h \in DOMAIN ms
    BY ScenesAre
  <1>3. Scenes(ms) # {} /\ ~ComingIn(calls, u)
    BY DEF Steady
  <1>4. Linked(ms, v, X, l, A) /\ Synced(c, calls, u)
    BY <1>3 DEF Steady, Synced
  <1>5. InOrder(v) /\ AllBorn(v, a) /\ InOrder(s) /\ AllBorn(s, a)
    BY DEF Steady, Ordered
  <1>6. Ledger(l, X, a) /\ Agreement(D, a) /\ \A Z \in D : Z \in Document
    BY DEF Steady, Documents
  <1>7. Coherent(R) /\ Within(C, R) /\ Within(R, Key)
    BY <1>5, CanvasKeysAre
  <1>8. \A Z \in E : Z \in D \/ Z = Y
    OBVIOUS
  <1>9. Y \in Document
    BY <1>1, <1>2, DecodedTyped
  <1>10. \A i \in B : i \in A \/ i \in inksOf(Y)
    BY <1>8 DEF inksIn
  <1>11. \A Z \in D : \A n \in DOMAIN Z : Z[n].ink \in A
    <2>1. \A Z \in D : \A n \in DOMAIN Z : Z[n].ink \in Int
      BY <1>6, DocumentIs
    <2> QED BY <2>1 DEF inksIn, inksOf
  <1> HIDE DEF A, B, C, R
  <1>12. Chain(ms, C, R, X, l, A)
    BY <1>4 DEF Linked, C, R
  <1>13. Known(keys(s), X, l, A)
    BY <1>12 DEF Chain, sceneKeys
  <1>14. Decoded(s, X, l, Y, m)
    <2>1. s = scene.elements /\ Honest(s, l)
      OBVIOUS
    <2> HIDE DEF s
    <2>2. Decoded(s, X, l, g.document, m)
      BY <1>1, <1>2, <1>5, <1>13, <2>1, DecodeKeeps
    <2> QED BY <2>2
  <1>15. \A n \in DOMAIN Y : Y[n].ink \in Int
    BY <1>9, DocumentIs
  <1> HIDE DEF D, E
  <1>16. /\ Agree(Y, Y) /\ \A n \in DOMAIN Y : Y[n].ink <= a
         /\ \A Z : Agree(X, Z) /\ (\A n \in DOMAIN Z : Z[n].ink \in A) => Agree(Y, Z) /\ Agree(Z, Y)
         /\ Ledger(m, Y, a)
    BY <1>1, <1>2, <1>5, <1>6, <1>13, <1>14, <1>15, DecodedAgrees
  <1>17. \A Z \in D : Agree(Y, Z) /\ Agree(Z, Y)
    BY <1>1, <1>6, <1>11, <1>16 DEF Agreement
  <1>18. Agreement(E, a)
    BY <1>6, <1>8, <1>16, <1>17 DEF Agreement
  <1>19. Chain(ns, C, R, Y, m, B)
    <2>1. s = ms[h].scene.elements
      OBVIOUS
    <2> HIDE DEF s
    <2> QED BY <1>2, <1>5, <1>7, <1>9, <1>10, <1>12, <1>14, <2>1, ChainAccepts
  <1>20. Ordered(ns, v, a)
    <2>1. \A i \in Scenes(ns) : f[i] \in Scenes(ms) /\ ns[i] = ms[f[i]]
      BY DEF Scenes, Fewer
    <2> QED BY <2>1 DEF Steady, Ordered
  <1>21. \A Z : Pipe(calls, u, Z)
    BY <1>3 DEF ComingIn, Pipe
  <1>22. u # NoUpdate => active
    BY DEF Steady
  <1>23. Linked(ns, v, Y, m, B)
    BY <1>19 DEF Linked, C, R
  <1> QED BY <1>3, <1>16, <1>17, <1>18, <1>20, <1>21, <1>22, <1>23 DEF Steady, D, E, B

\* A new page and a new coordinator.
LEMMA SteadyStarts ==
    ASSUME NEW d, NEW c \in Coordinator, NEW ms, Scenes(ms) = {}, NEW active, NEW a,
           c.lastLoaded = <<>>, c.boardIDsByWebID = << >>,
           Agreement(Documents(d, c, <<>>, NoUpdate), a)
    PROVE  Steady(d, c, <<>>, NoUpdate, active, ms, <<>>, a)
  <1>1. ~ComingIn(<<>>, NoUpdate)
    <2>1. "none" \notin {"load", "reconcile"}
      OBVIOUS
    <2> QED BY <2>1 DEF ComingIn, carriesDocument, NoUpdate
  <1>2. \A X : <<>> # <<X>>
    OBVIOUS
  <1>3. Ledger(<< >>, c.snapshot.document, a)
    BY DEF Ledger
  <1>4. Ordered(ms, <<>>, a)
    BY DEF Ordered, InOrder, AllBorn
  <1>5. ~Synced(c, <<>>, NoUpdate)
    BY <1>2 DEF Synced
  <1> QED BY <1>1, <1>2, <1>3, <1>4, <1>5 DEF Steady

-----------------------------------------------------------------------------
(* The steps that keep identities *)

posted == replies \o toNative

IdentitiesHold ==
    Steady(draft, coordinator, toPage, page.deferredUpdate, publication.active, posted, page.canvas, acts)

\* Two channels as one.
LEMMA JoinIs ==
    ASSUME NEW r \in Seq(Event), NEW t \in Seq(Event)
    PROVE  /\ r \o t \in Seq(Event) /\ Len(r \o t) = Len(r) + Len(t)
           /\ Len(r) \in Nat /\ Len(t) \in Nat
           /\ DOMAIN (r \o t) = 1..Len(r) + Len(t)
           /\ \A i \in 1..Len(r) : (r \o t)[i] = r[i]
           /\ \A i \in 1..Len(t) : (r \o t)[Len(r) + i] = t[i]
  OBVIOUS

\* A message at the end.
LEMMA PostIs ==
    ASSUME NEW r \in Seq(Event), NEW t \in Seq(Event), NEW m \in Event
    PROVE  r \o (t \o <<m>>) = Append(r \o t, m) /\ t \o <<>> = t
  OBVIOUS

\* A reply hops from the one to the other.
LEMMA HopIs ==
    ASSUME NEW r \in Seq(Event), NEW t \in Seq(Event), t # <<>>
    PROVE  Append(r, Head(t)) \o Tail(t) = r \o t
  OBVIOUS

\* Only the message at h is gone.
Others(ns, ms, f, h) == \A i \in DOMAIN ms : i # h => \E j \in DOMAIN ns : f[j] = i

\* The first message, or the first reply, is handled.
LEMMA MessageGone ==
    ASSUME NEW r \in Seq(Event), NEW t \in Seq(Event), t # <<>>
    PROVE  /\ \E f : /\ Fewer(r \o Tail(t), r \o t, f)
                     /\ \A i \in DOMAIN (r \o Tail(t)) : r = <<>> => 1 < f[i]
                     /\ Others(r \o Tail(t), r \o t, f, Len(r) + 1)
           /\ r = <<>> => 1 \in DOMAIN (r \o t) /\ (r \o t)[1] = Head(t)
           /\ (r \o t)[Len(r) + 1] = Head(t)
  <1>1. /\ Head(t) = t[1] /\ Tail(t) \in Seq(Event) /\ Len(Tail(t)) = Len(t) - 1
        /\ Len(t) \in Nat \ {0} /\ \A n \in 1..Len(t) - 1 : Tail(t)[n] = t[n + 1]
    BY ShorterTyped
  <1> DEFINE q == Tail(t)
  <1>2. /\ Len(r) \in Nat /\ DOMAIN (r \o t) = 1..Len(r) + Len(t)
        /\ \A i \in 1..Len(r) : (r \o t)[i] = r[i]
        /\ \A i \in 1..Len(t) : (r \o t)[Len(r) + i] = t[i]
    BY JoinIs
  <1>3. /\ DOMAIN (r \o q) = 1..Len(r) + Len(q)
        /\ \A i \in 1..Len(r) : (r \o q)[i] = r[i]
        /\ \A i \in 1..Len(q) : (r \o q)[Len(r) + i] = q[i]
    BY <1>1, JoinIs
  <1> DEFINE f == [i \in DOMAIN (r \o q) |-> IF i <= Len(r) THEN i ELSE i + 1]
             x == r \o t
             y == r \o q
  <1>4. \A i \in DOMAIN y : f[i] = IF i <= Len(r) THEN i ELSE i + 1
    OBVIOUS
  <1>11. DOMAIN x = 1..Len(r) + Len(t) /\ DOMAIN y = 1..Len(r) + Len(q) /\ Len(q) = Len(t) - 1
    BY <1>1, <1>2, <1>3
  <1> HIDE DEF f, q, x, y
  <1>5. ASSUME NEW i \in DOMAIN y PROVE f[i] \in DOMAIN x /\ y[i] = x[f[i]] /\ i \in Int
    <2>1. i \in Int /\ 1 <= i /\ i <= Len(r) + Len(t) - 1
      BY <1>1, <1>2, <1>11
    <2>2. CASE i <= Len(r)
      <3>1. f[i] = i /\ i \in 1..Len(r)
        BY <1>2, <1>4, <2>1, <2>2
      <3> QED BY <1>1, <1>2, <1>3, <1>11, <2>1, <3>1 DEF x, y
    <2>3. CASE ~(i <= Len(r))
      <3> DEFINE j == i - Len(r)
      <3>1. j \in 1..Len(q) /\ j \in 1..Len(t) - 1 /\ j + 1 \in 1..Len(t) /\ i = Len(r) + j /\ f[i] = Len(r) + (j + 1)
        BY <1>1, <1>2, <1>4, <1>11, <2>1, <2>3
      <3> HIDE DEF j
      <3>2. y[i] = q[j] /\ q[j] = t[j + 1] /\ x[f[i]] = t[j + 1]
        BY <1>1, <1>2, <1>3, <3>1 DEF x, y, q
      <3>3. f[i] \in DOMAIN x
        BY <1>1, <1>2, <1>11, <3>1
      <3> QED BY <2>1, <3>2, <3>3
    <2> QED BY <2>2, <2>3
  <1>6. \A i, j \in DOMAIN y : i < j => f[i] < f[j]
    BY <1>2, <1>4, <1>5
  <1>7. Fewer(y, x, f)
    BY <1>5, <1>6 DEF Fewer
  <1>8. r = <<>> => \A i \in DOMAIN y : 1 < f[i]
    <2> SUFFICES ASSUME r = <<>>, NEW i \in DOMAIN y PROVE 1 < f[i]
      OBVIOUS
    <2>1. Len(r) = 0
      OBVIOUS
    <2>2. i \in Int /\ 1 <= i
      BY <1>1, <1>11, <2>1
    <2> QED BY <1>4, <2>1, <2>2
  <1>9. r = <<>> => 1 \in DOMAIN x /\ x[1] = Head(t)
    <2> SUFFICES ASSUME r = <<>> PROVE 1 \in DOMAIN x /\ x[1] = Head(t)
      OBVIOUS
    <2>1. Len(r) = 0
      OBVIOUS
    <2>2. 1 \in 1..Len(t) /\ 0 + 1 = 1
      BY <1>1
    <2>3. x[Len(r) + 1] = t[1]
      BY <1>2, <2>2 DEF x
    <2> QED BY <1>1, <1>11, <2>1, <2>3
  <1>12. Others(y, x, f, Len(r) + 1)
    <2> SUFFICES ASSUME NEW i \in DOMAIN x, i # Len(r) + 1 PROVE \E j \in DOMAIN y : f[j] = i
      BY DEF Others
    <2>1. i \in Int /\ 1 <= i /\ i <= Len(r) + Len(t)
      BY <1>1, <1>2, <1>11
    <2>2. CASE i <= Len(r)
      <3>1. i \in DOMAIN y /\ f[i] = i
        BY <1>1, <1>2, <1>4, <1>11, <2>1, <2>2
      <3> QED BY <3>1
    <2>3. CASE ~(i <= Len(r))
      <3>1. i - 1 \in DOMAIN y /\ ~(i - 1 <= Len(r)) /\ (i - 1) + 1 = i
        BY <1>1, <1>2, <1>11, <2>1, <2>3
      <3>2. f[i - 1] = i
        BY <1>4, <3>1
      <3> QED BY <3>1, <3>2
    <2> QED BY <2>2, <2>3
  <1>13. x[Len(r) + 1] = Head(t)
    <2>1. 1 \in 1..Len(t)
      BY <1>1
    <2> QED BY <1>1, <1>2, <2>1 DEF x
  <1>10. /\ \E g : /\ Fewer(y, x, g) /\ \A i \in DOMAIN y : r = <<>> => 1 < g[i]
                   /\ Others(y, x, g, Len(r) + 1)
         /\ r = <<>> => 1 \in DOMAIN x /\ x[1] = Head(t)
         /\ x[Len(r) + 1] = Head(t)
    BY <1>7, <1>8, <1>9, <1>12, <1>13
  <1> QED BY <1>10 DEF x, y, q

\* The first reply is handled.
LEMMA ReplyGone ==
    ASSUME NEW r \in Seq(Event), NEW t \in Seq(Event), r # <<>>
    PROVE  /\ \E f : /\ Fewer(Tail(r) \o t, r \o t, f)
                     /\ \A i \in DOMAIN (Tail(r) \o t) : 1 < f[i]
                     /\ Others(Tail(r) \o t, r \o t, f, 1)
           /\ 1 \in DOMAIN (r \o t) /\ (r \o t)[1] = Head(r)
  <1> DEFINE x == r \o t
             y == Tail(r) \o t
  <1>1. x # <<>> /\ x \in Seq(Event) /\ y = Tail(x) /\ Head(x) = Head(r)
    OBVIOUS
  <1> HIDE DEF x, y
  <1>2. <<>> \in Seq(Event)
    OBVIOUS
  <1>3. <<>> \o x = x /\ <<>> \o Tail(x) = y
    <2>1. Tail(x) \in Seq(Event)
      BY <1>1
    <2>2. \A z \in Seq(Event) : <<>> \o z = z
      OBVIOUS
    <2> QED BY <1>1, <2>1, <2>2
  <1> DEFINE n == <<>>
  <1>4. /\ \E f : /\ Fewer(n \o Tail(x), n \o x, f)
                  /\ \A i \in DOMAIN (n \o Tail(x)) : n = <<>> => 1 < f[i]
                  /\ Others(n \o Tail(x), n \o x, f, Len(n) + 1)
        /\ n = <<>> => 1 \in DOMAIN (n \o x) /\ (n \o x)[1] = Head(x)
    <2>1. n \in Seq(Event)
      BY <1>2
    <2> HIDE DEF n
    <2> QED BY <1>1, <2>1, MessageGone
  <1>6. Len(n) + 1 = 1
    OBVIOUS
  <1>5. /\ \E f : Fewer(y, x, f) /\ (\A i \in DOMAIN y : 1 < f[i]) /\ Others(y, x, f, 1)
        /\ 1 \in DOMAIN x /\ x[1] = Head(x)
    BY <1>3, <1>4, <1>6
  <1> QED BY <1>1, <1>5 DEF x, y

\* What is on its way, in the module's words and in those of the proof.
LEMMA ChannelsAre ==
    ASSUME TypeInvariant
    PROVE  /\ replies \in Seq(Event) /\ toNative \in Seq(Event) /\ posted \in Seq(Event)
           /\ documentIsComing <=> ComingIn(toPage, page.deferredUpdate)
           /\ sceneIsComing <=> Scenes(posted) # {}
  <1>1. replies \in Seq(Event) /\ toNative \in Seq(Event) /\ replies \in Seq(Reply)
    <2>1. \A m \in Reply : m \in Event
      BY EventKinds
    <2>2. replies \in Seq(Reply) /\ toNative \in Seq(Event)
      BY DEF TypeInvariant
    <2>3. DOMAIN replies = 1..Len(replies) /\ \A n \in DOMAIN replies : replies[n] \in Event
      BY <2>1, <2>2
    <2> QED BY <2>2, <2>3
  <1>2. posted \in Seq(Event)
    BY <1>1, JoinIs DEF posted
  <1>3. documentIsComing <=> ComingIn(toPage, page.deferredUpdate)
    BY DEF documentIsComing, inFlight, ToSet, ComingIn
  <1>4. inFlight(toNative, carriesScene) <=> \E n \in DOMAIN toNative : carriesScene(toNative[n])
    BY DEF inFlight, ToSet
  <1>5. /\ Len(replies) \in Nat /\ DOMAIN posted = 1..Len(replies) + Len(toNative)
        /\ \A i \in 1..Len(replies) : posted[i] = replies[i]
        /\ \A i \in 1..Len(toNative) : posted[Len(replies) + i] = toNative[i]
        /\ Len(toNative) \in Nat /\ DOMAIN toNative = 1..Len(toNative) /\ DOMAIN replies = 1..Len(replies)
    BY <1>1, JoinIs DEF posted
  <1>6. \A i \in 1..Len(replies) : carriesScene(replies[i])
    <2>1. \A i \in 1..Len(replies) : replies[i] \in Reply
      BY <1>1
    <2> QED BY <2>1, EventKinds
  <1>7. ASSUME sceneIsComing PROVE Scenes(posted) # {}
    <2>1. CASE replies # <<>>
      <3>1. 1 \in 1..Len(replies)
        BY <1>1, <2>1
      <3>2. 1 \in DOMAIN posted /\ carriesScene(posted[1])
        BY <1>5, <1>6, <3>1
      <3> QED BY <3>2 DEF Scenes
    <2>2. CASE \E n \in DOMAIN toNative : carriesScene(toNative[n])
      <3>1. PICK n \in DOMAIN toNative : carriesScene(toNative[n])
        BY <2>2
      <3>2. Len(replies) + n \in DOMAIN posted /\ carriesScene(posted[Len(replies) + n])
        BY <1>5, <3>1
      <3> QED BY <3>2 DEF Scenes
    <2> QED BY <1>4, <1>7, <2>1, <2>2 DEF sceneIsComing
  <1>8. ASSUME Scenes(posted) # {} PROVE sceneIsComing
    <2>1. PICK i \in DOMAIN posted : carriesScene(posted[i])
      BY <1>8 DEF Scenes
    <2>2. CASE i \in 1..Len(replies)
      <3>1. replies # <<>>
        BY <2>2
      <3> QED BY <3>1 DEF sceneIsComing
    <2>3. CASE i \notin 1..Len(replies)
      <3> DEFINE n == i - Len(replies)
      <3>1. n \in 1..Len(toNative) /\ i = Len(replies) + n
        BY <1>5, <2>3
      <3> HIDE DEF n
      <3>2. carriesScene(toNative[n])
        BY <1>5, <2>1, <3>1
      <3> QED BY <1>4, <1>5, <3>1, <3>2 DEF sceneIsComing
    <2> QED BY <2>2, <2>3
  <1> QED BY <1>1, <1>2, <1>3, <1>7, <1>8

\* A scene is handled: accepted, refused, or too early.
LEMMA SceneHolds ==
    ASSUME TypeInvariant, IdentitiesHold, NEW h \in Scenes(posted),
           NEW scene, scene = posted[h].scene, NEW command,
           permitsCommand(command, receiveScene(scene)), ~canvasIsBehind, ~reclaims(scene),
           NEW ns, NEW f, Fewer(ns, posted, f), \A i \in DOMAIN ns : h < f[i]
    PROVE  /\ Steady(draft', coordinator', toPage, page.deferredUpdate, publication.active, ns,
                     page.canvas, acts)
           /\ draft'.document \in draftDocuments(draft) \/ Agree(draft.document, draft'.document)
  <1> DEFINE X == coordinator.snapshot.document
             l == coordinator.boardIDsByWebID
             o == receiveScene(scene)
             g == decodeChange(scene, X, l)
             u == page.deferredUpdate
             active == publication.active
             v == page.canvas
  <1>0. /\ draft \in Draft /\ coordinator \in Coordinator /\ posted \in Seq(Event)
        /\ v \in Seq(CanvasElement) /\ acts \in Nat
    BY ChannelsAre DEF TypeInvariant, Page, Bounded
  <1>1. scene \in Scene /\ scene # none /\ scene.elements \in Seq(SceneElement)
    <2>1. scene \in Scene /\ scene.elements \in Seq(SceneElement)
      BY <1>0, ScenesAre
    <2>2. posted[h] \in SceneEvent \cup Flushed \cup Reply
      BY <1>0, ScenesAre, EventKinds DEF Scenes
    <2> QED BY <2>1, <2>2, EventKinds
  <1>2. Honest(scene.elements, l)
    <2>1. ToSet(scene.elements) = {scene.elements[n] : n \in DOMAIN scene.elements}
      BY DEF ToSet
    <2> QED BY <1>1, <2>1 DEF reclaims, Honest
  <1>3. /\ o.draft \in Draft /\ o.coordinator \in Coordinator /\ o.accepted \in BOOLEAN
        /\ \/ /\ coordinator.lastLoaded = <<>> /\ ~o.accepted
              /\ o.draft = draft /\ o.coordinator = coordinator
           \/ coordinator.lastLoaded # <<>> /\ Outcome(o, g)
    BY <1>0, <1>1, ReceiveSceneIs
  <1>4. /\ draft' = IF o.accepted THEN perform(o.draft, command) ELSE o.draft
        /\ coordinator' = o.coordinator
    BY DEF permitsCommand
  <1> HIDE DEF o, g
  <1>5. Steady(draft, coordinator, toPage, u, active, posted, v, acts)
    BY DEF IdentitiesHold
  <1>6. Steady(draft, coordinator, toPage, u, active, ns, v, acts)
    BY <1>5, SteadyReceives
  <1>7. CASE ~o.accepted
    <2>1. draft' = draft
      BY <1>3, <1>4, <1>7 DEF Outcome
    <2>2. /\ coordinator'.snapshot = coordinator.snapshot
          /\ coordinator'.lastLoaded = coordinator.lastLoaded
          /\ coordinator'.boardIDsByWebID = coordinator.boardIDsByWebID
          /\ coordinator'.task = coordinator.task \/ coordinator'.task.snapshot = coordinator.snapshot
      BY <1>3, <1>4, <1>7 DEF Outcome
    <2>3. \A Y \in Documents(draft', coordinator', toPage, u) : Y \in Documents(draft, coordinator, toPage, u)
      BY <2>1, <2>2 DEF Documents
    <2>4. Steady(draft', coordinator', toPage, u, active, posted, v, acts)
      <3>1. /\ \A Y : Pipe(toPage, u, Y) => Pipe(toPage, u, Y)
            /\ ComingIn(toPage, u) <=> ComingIn(toPage, u)
            /\ acts <= acts /\ (u # NoUpdate => active)
        BY <1>0, <1>5 DEF Steady
      <3> QED BY <1>0, <1>5, <2>2, <2>3, <3>1, SteadyKeeps
    <2>5. Steady(draft', coordinator', toPage, u, active, ns, v, acts)
      BY <2>4, SteadyReceives
    <2>6. draft'.document \in draftDocuments(draft)
      BY <2>1 DEF draftDocuments
    <2> QED BY <2>5, <2>6
  <1>8. CASE o.accepted
    <2> DEFINE Y == g.document
               m == learn(l, g)
               e == draft'
               k == coordinator'
    <2>1. Outcome(o, g) /\ coordinator.lastLoaded # <<>>
      BY <1>3, <1>8
    <2>2. coordinator.lastLoaded = <<X>>
      BY <2>1 DEF canvasIsBehind
    <2>3. /\ k.snapshot.document = Y /\ k.lastLoaded = <<Y>> /\ k.boardIDsByWebID = m
          /\ k.task = coordinator.task \/ k.task = [task |-> "reconcile", snapshot |-> k.snapshot]
      BY <1>4, <1>8, <2>1 DEF Outcome
    <2>4. \A Z \in draftDocuments(e) : Z = Y \/ Z \in draftDocuments(draft)
      <3>1. e = perform(o.draft, command)
        BY <1>4, <1>8
      <3>2. \A Z \in draftDocuments(e) : Z \in draftDocuments(o.draft)
        BY <1>3, <3>1, PerformIs
      <3> QED BY <2>1, <3>2 DEF Outcome
    <2> HIDE DEF Y, m, e, k, X, l, u, active, v
    <2>5. \A Z \in Documents(e, k, toPage, u) : Z \in Documents(draft, coordinator, toPage, u) \/ Z = Y
      <3>1. \A Z : <<Z>> = <<Y>> => Z = Y
        OBVIOUS
      <3>2. k.task = coordinator.task \/ k.task.snapshot.document = Y
        BY <2>3
      <3> QED BY <2>3, <2>4, <3>1, <3>2 DEF Documents
    <2>6. /\ Steady(e, k, toPage, u, active, ns, v, acts)
          /\ \A Z \in Documents(draft, coordinator, toPage, u) : Agree(Z, Y)
      <3>1. X = coordinator.snapshot.document /\ l = coordinator.boardIDsByWebID
        BY DEF X, l
      <3>2. g = decodeChange(scene, X, l) /\ Y = g.document /\ m = learn(l, g)
        BY DEF g, Y, m
      <3>3. \A i \in DOMAIN ns : carriesScene(ns[i]) => h < f[i]
        OBVIOUS
      <3>4. Taken(draft, coordinator, toPage, u, posted, h, g, e, k, ns, f)
        BY <1>2, <2>2, <2>3, <2>5, <3>1, <3>2, <3>3 DEF Taken
      <3> QED BY <1>0, <1>5, <3>2, <3>4, SteadyAccepts
    <2>7. draft'.document \in draftDocuments(draft) \/ Agree(draft.document, draft'.document)
      <3>1. draft'.document = Y \/ draft'.document \in draftDocuments(draft)
        BY <2>4 DEF draftDocuments, e
      <3>2. draft.document \in Documents(draft, coordinator, toPage, u)
        BY <1>0 DEF Documents, draftDocuments, Draft
      <3> QED BY <2>6, <3>1, <3>2
    <2> QED BY <2>6, <2>7 DEF e, k, u, active, v
  <1> QED BY <1>3, <1>7, <1>8

\* Nothing but the application's memory changes, or what it shows.
LEMMA DraftHolds ==
    ASSUME TypeInvariant, IdentitiesHold,
           NEW e, NEW k, NEW ns, NEW f, Fewer(ns, posted, f),
           k.snapshot.document = coordinator.snapshot.document, k.lastLoaded = coordinator.lastLoaded,
           k.boardIDsByWebID = coordinator.boardIDsByWebID,
           k.task = coordinator.task \/ k.task.snapshot.document = coordinator.snapshot.document,
           \A Y \in draftDocuments(e) : Y \in draftDocuments(draft),
           NEW t, t = toPage \/ \E m \in Call : ~carriesDocument(m) /\ t = Append(toPage, m),
           NEW b \in Nat, acts <= b
    PROVE  Steady(e, k, t, page.deferredUpdate, publication.active, ns, page.canvas, b)
  <1> DEFINE u == page.deferredUpdate
             active == publication.active
             v == page.canvas
  <1>0. /\ coordinator \in Coordinator /\ posted \in Seq(Event) /\ toPage \in Seq(Call)
        /\ v \in Seq(CanvasElement) /\ acts \in Nat
    BY ChannelsAre DEF TypeInvariant, Page, Bounded
  <1>1. Steady(draft, coordinator, toPage, u, active, posted, v, acts)
    BY DEF IdentitiesHold
  <1>2. \A Y \in Documents(e, k, toPage, u) : Y \in Documents(draft, coordinator, toPage, u)
    BY DEF Documents
  <1>3. /\ \A Y \in Documents(e, k, t, u) : Y \in Documents(e, k, toPage, u)
        /\ \A Y : Pipe(toPage, u, Y) => Pipe(t, u, Y)
        /\ ComingIn(t, u) <=> ComingIn(toPage, u)
    <2>1. CASE t = toPage
      BY <2>1
    <2>2. CASE \E m \in Call : ~carriesDocument(m) /\ t = Append(toPage, m)
      <3>1. PICK m \in Call : ~carriesDocument(m) /\ t = Append(toPage, m)
        BY <2>2
      <3> HIDE DEF u
      <3> QED BY <1>0, <3>1, AppendIs
    <2> QED BY <2>1, <2>2
  <1>4. u # NoUpdate => active
    BY <1>1 DEF Steady
  <1>5. Steady(e, k, t, u, active, posted, v, b)
    <2> HIDE DEF u, active, v
    <2>1. \A Y \in Documents(e, k, t, u) : Y \in Documents(draft, coordinator, toPage, u)
      BY <1>2, <1>3
    <2> QED BY <1>0, <1>1, <1>3, <1>4, <2>1, SteadyKeeps
  <1> QED BY <1>5, SteadyReceives

\* A scene of the canvas is accepted, and published at once or held back.
LEMMA AcceptHolds ==
    ASSUME TypeInvariant, NEW s \in CanvasScene, NEW v \in Seq(CanvasElement),
           visible(s.elements) = visible(v), NEW a,
           Steady(draft, coordinator, toPage, page.deferredUpdate, publication.active, posted, v, a),
           Post(accepted(publication, s)), ~crosses(accepted(publication, s)),
           UNCHANGED <<draft, coordinator, toPage, replies>>
    PROVE  Steady(draft', coordinator', toPage', page.deferredUpdate, publication.active, posted', v, a)
  <1> DEFINE u == page.deferredUpdate
             m == event("scene", "none", prepare(s))
             ns == accepted(publication, s)
  <1>1. /\ replies \in Seq(Event) /\ toNative \in Seq(Event) /\ posted \in Seq(Event)
        /\ documentIsComing <=> ComingIn(toPage, u)
    BY ChannelsAre
  <1>2. ns = <<>> \/ ns = <<m>>
    BY AcceptTyped DEF TypeInvariant
  <1>3. m \in Event /\ carriesScene(m) /\ m.scene.elements = visible(v)
    <2>1. prepare(s) \in Scene /\ prepare(s).elements = visible(v)
      BY PrepareTyped
    <2>2. m \in SceneEvent /\ m.scene = prepare(s)
      BY <2>1 DEF event, SceneEvent
    <2> QED BY <2>1, <2>2, EventKinds
  <1>4. toNative' = toNative \o ns /\ ~crosses(ns)
    BY DEF Post
  <1> HIDE DEF m, ns, u
  <1>5. CASE ns = <<>>
    <2>1. toNative' = toNative
      BY <1>1, <1>3, <1>4, <1>5, PostIs
    <2>2. posted' = posted
      BY <2>1 DEF posted
    <2> QED BY <2>2
  <1>6. CASE ns = <<m>>
    <2>1. ~documentIsComing
      <3>1. <<m>>[1] = m /\ 1 \in DOMAIN <<m>>
        OBVIOUS
      <3>2. inFlight(ns, carriesScene)
        BY <1>3, <1>6, <3>1 DEF inFlight, ToSet
      <3> QED BY <1>4, <3>2 DEF crosses
    <2>2. replies \o (toNative \o <<m>>) = Append(replies \o toNative, m)
      BY <1>1, <1>3, PostIs
    <2>3. posted' = Append(posted, m)
      BY <1>4, <1>6, <2>2 DEF posted
    <2>4. Steady(draft, coordinator, toPage, u, publication.active, posted', v, a)
      BY <1>1, <1>3, <2>1, <2>3, SteadyPosts DEF u
    <2> QED BY <2>4 DEF u
  <1> QED BY <1>2, <1>5, <1>6

\* The canvas, as it is after the change, is published, put off, or held back.
LEMMA ChangeHolds ==
    ASSUME TypeInvariant, NEW p \in Page, NEW byPerson, handleChange(p, byPerson), ~raced',
           p.deferredUpdate = page.deferredUpdate, NEW a,
           Steady(draft, coordinator, toPage, page.deferredUpdate, publication.active, posted, p.canvas, a),
           UNCHANGED <<draft, coordinator, toPage, replies>>
    PROVE  Steady(draft', coordinator', toPage', page'.deferredUpdate, publication'.active,
                  posted', page'.canvas, a)
  <1> DEFINE s == changeScene(p)
             o == semanticOverlay(p.canvas)
             u == page.deferredUpdate
             v == p.canvas
  <1>1. s \in CanvasScene /\ s.elements = v /\ v \in Seq(CanvasElement) /\ publication \in Publication
    BY ReadTyped DEF Page, Bounded, TypeInvariant
  <1>2. CASE p.loading
    <2>1. page' = [p EXCEPT !.deferredChange = s] /\ UNCHANGED <<publication, toNative>>
      BY <1>2 DEF handleChange
    <2> HIDE DEF s
    <2>2. page'.canvas = v /\ page'.deferredUpdate = u
      BY <2>1 DEF Page
    <2> QED BY <2>1, <2>2 DEF posted
  <1>3. CASE ~p.loading
    <2>1. /\ page' = [p EXCEPT !.overlay = o] /\ publication' = acceptScene(publication, s)
          /\ Post(accepted(publication, s)) /\ ~crosses(accepted(publication, s))
      BY <1>3 DEF handleChange, acceptRaces
    <2> HIDE DEF o, s
    <2>2. page'.canvas = v /\ page'.deferredUpdate = u
      BY <2>1 DEF Page
    <2>3. publication'.active = publication.active
      BY <1>1, <2>1, AcceptTyped
    <2> HIDE DEF v
    <2>4. Steady(draft, coordinator, toPage, page.deferredUpdate, publication.active, posted, v, a)
      BY DEF v
    <2>5. Steady(draft', coordinator', toPage', page.deferredUpdate, publication.active, posted', v, a)
      BY <1>1, <2>1, <2>4, AcceptHolds
    <2> QED BY <2>2, <2>3, <2>5
  <1> QED BY <1>2, <1>3

-----------------------------------------------------------------------------
(* The steps of the page *)

\* The draft turns to a document it had, or to one that agrees with the present one.
DraftKeeps == draft'.document \in draftDocuments(draft) \/ Agree(draft.document, draft'.document)

\* Everything a step can rely on.
LEMMA SituationIs ==
    ASSUME TypeInvariant, IdentitiesHold
    PROVE  /\ page \in Page /\ publication \in Publication /\ publication.active \in BOOLEAN
           /\ draft \in Draft /\ coordinator \in Coordinator
           /\ toPage \in Seq(Call) /\ toNative \in Seq(Event) /\ replies \in Seq(Event)
           /\ posted \in Seq(Event)
           /\ page.canvas \in Bounded(CanvasElement) /\ page.canvas \in Seq(CanvasElement)
           /\ acts \in Nat
           /\ documentIsComing <=> ComingIn(toPage, page.deferredUpdate)
           /\ sceneIsComing <=> Scenes(posted) # {}
           /\ Steady(draft, coordinator, toPage, page.deferredUpdate, publication.active, posted,
                     page.canvas, acts)
           /\ page.deferredUpdate # NoUpdate => publication.active
           /\ draft' = draft => DraftKeeps
  <1>1. publication.active \in BOOLEAN
    BY DEF TypeInvariant, Publication
  <1>2. Steady(draft, coordinator, toPage, page.deferredUpdate, publication.active, posted,
               page.canvas, acts)
    BY DEF IdentitiesHold
  <1>3. page.deferredUpdate # NoUpdate => publication.active
    BY <1>2 DEF Steady
  <1>4. draft' = draft => DraftKeeps
    BY DEF DraftKeeps, draftDocuments
  <1> QED BY <1>1, <1>2, <1>3, <1>4, ChannelsAre DEF TypeInvariant, Page, Bounded

\* Gestures begin and end, and time passes.
LEMMA TimeHolds ==
    ASSUME TypeInvariant, IdentitiesHold, NEW now, page.deferredUpdate # NoUpdate => now,
           NEW b \in Nat, acts <= b
    PROVE  Steady(draft, coordinator, toPage, page.deferredUpdate, now, posted, page.canvas, b)
  <1> DEFINE u == page.deferredUpdate
             v == page.canvas
             active == publication.active
  <1>1. /\ coordinator \in Coordinator /\ posted \in Seq(Event) /\ v \in Seq(CanvasElement) /\ acts \in Nat
        /\ Steady(draft, coordinator, toPage, u, active, posted, v, acts)
    BY SituationIs
  <1> HIDE DEF u, v, active
  <1>2. /\ \A X \in Documents(draft, coordinator, toPage, u) : X \in Documents(draft, coordinator, toPage, u)
        /\ \A X : Pipe(toPage, u, X) => Pipe(toPage, u, X)
        /\ ComingIn(toPage, u) <=> ComingIn(toPage, u)
    OBVIOUS
  <1>3. u # NoUpdate => now
    BY DEF u
  <1>4. Steady(draft, coordinator, toPage, u, now, posted, v, b)
    BY <1>1, <1>2, <1>3, SteadyKeeps
  <1> QED BY <1>4 DEF u, v

\* The person draws, or changes what is drawn.
LEMMA EditHolds ==
    ASSUME TypeInvariant, IdentitiesHold, Draw \/ Move \/ Rotate \/ Select \/ Delete \/ Paste, ~raced'
    PROVE  IdentitiesHold' /\ DraftKeeps
  <1>1. PICK p : EditedPage(p) /\ edit(p)
    BY DrawEdits, MoveEdits, RotateEdits, SelectEdits, DeleteEdits, PasteEdits
  <1>2. /\ p \in Page /\ handleChange(p, TRUE) /\ p.deferredUpdate = page.deferredUpdate
        /\ editsTo(p.canvas, page.canvas, acts + 1)
    BY <1>1 DEF EditedPage, edit
  <1>3. acts' = acts + 1 /\ UNCHANGED <<draft, coordinator, toPage, replies>>
    BY GestureCounts
  <1>4. p.canvas \in Seq(CanvasElement)
    BY <1>2 DEF Page, Bounded
  <1> DEFINE u == page.deferredUpdate
             v == page.canvas
             active == publication.active
             x == p.canvas
  <1>5. /\ coordinator \in Coordinator /\ posted \in Seq(Event) /\ v \in Seq(CanvasElement) /\ acts \in Nat
        /\ Steady(draft, coordinator, toPage, u, active, posted, v, acts)
    BY SituationIs
  <1>6. Steady(draft, coordinator, toPage, u, active, posted, x, acts + 1)
    <2>1. x \in Seq(CanvasElement) /\ editsTo(x, v, acts + 1)
      BY <1>2, <1>4
    <2> HIDE DEF u, v, active, x
    <2> QED BY <1>5, <2>1, SteadyEdits
  <1>7. Steady(draft', coordinator', toPage', page'.deferredUpdate, publication'.active, posted',
               page'.canvas, acts + 1)
    BY <1>2, <1>3, <1>6, ChangeHolds
  <1> QED BY <1>3, <1>7, SituationIs DEF IdentitiesHold

\* React commits what a native call changed.
LEMMA CommitHolds ==
    ASSUME TypeInvariant, IdentitiesHold, CommitChange, ~raced'
    PROVE  IdentitiesHold' /\ DraftKeeps
  <1> DEFINE p == [page EXCEPT !.changed = FALSE]
  <1>1. page \in Page
    BY SituationIs
  <1>2. p \in Page /\ p.deferredUpdate = page.deferredUpdate /\ p.canvas = page.canvas
    BY <1>1 DEF Page
  <1>3. handleChange(p, FALSE) /\ UNCHANGED <<draft, coordinator, toPage, replies, acts>>
    BY DEF CommitChange
  <1> HIDE DEF p
  <1>4. Steady(draft, coordinator, toPage, page.deferredUpdate, publication.active, posted, p.canvas, acts)
    BY <1>2, SituationIs
  <1>5. Steady(draft', coordinator', toPage', page'.deferredUpdate, publication'.active, posted',
               page'.canvas, acts)
    BY <1>2, <1>3, <1>4, ChangeHolds
  <1> QED BY <1>3, <1>5, SituationIs DEF IdentitiesHold

\* The pointer goes down.
LEMMA PointerDownHolds ==
    ASSUME TypeInvariant, IdentitiesHold, PointerDown
    PROVE  IdentitiesHold' /\ DraftKeeps
  <1> DEFINE q == noteUserInput(page)
  <1>1. /\ page' = [q EXCEPT !.held = TRUE] /\ publication' = beginPointerInteraction(publication)
        /\ acts' = acts + 1 /\ UNCHANGED <<draft, coordinator, toPage, toNative, replies>>
    BY DEF PointerDown, nativeUnchanged
  <1>2. q \in Page /\ q.canvas = page.canvas /\ q.deferredUpdate = page.deferredUpdate
    <2> DEFINE r == page.received \/ page.loading
    <2>1. page \in Page /\ q \in Page /\ q = [page EXCEPT !.received = r]
      BY SituationIs, NotedIs
    <2> HIDE DEF q, r
    <2> QED BY <2>1 DEF Page
  <1> HIDE DEF q
  <1>3. page'.canvas = page.canvas /\ page'.deferredUpdate = page.deferredUpdate
    BY <1>1, <1>2 DEF Page
  <1>4. publication'.active /\ posted' = posted
    BY <1>1, SituationIs, BeginTyped DEF posted
  <1>5. acts + 1 \in Nat /\ acts <= acts + 1
    BY SituationIs
  <1>6. Steady(draft, coordinator, toPage, page.deferredUpdate, publication'.active, posted, page.canvas, acts + 1)
    BY <1>4, <1>5, TimeHolds
  <1> QED BY <1>1, <1>3, <1>4, <1>6, SituationIs DEF IdentitiesHold

\* The page posts what is no scene, or the scene its canvas shows.
LEMMA PostHolds ==
    ASSUME TypeInvariant, IdentitiesHold, NEW m \in Event,
           carriesScene(m) => m.scene.elements = visible(page.canvas) /\ ~documentIsComing,
           Post(<<m>>), UNCHANGED <<draft, coordinator, toPage, replies>>,
           NEW now, page.deferredUpdate # NoUpdate => now, NEW b \in Nat, acts <= b
    PROVE  Steady(draft', coordinator', toPage', page.deferredUpdate, now, posted', page.canvas, b)
  <1> DEFINE u == page.deferredUpdate
             v == page.canvas
  <1>1. posted' = Append(posted, m)
    <2>1. replies \o (toNative \o <<m>>) = Append(replies \o toNative, m)
      BY SituationIs, PostIs
    <2>2. toNative' = toNative \o <<m>>
      BY DEF Post
    <2> QED BY <2>1, <2>2 DEF posted
  <1>2. Steady(draft, coordinator, toPage, u, now, posted, v, b)
    BY TimeHolds
  <1>3. /\ posted \in Seq(Event) /\ v \in Seq(CanvasElement)
        /\ carriesScene(m) => m.scene.elements = visible(v) /\ ~ComingIn(toPage, u)
    BY SituationIs
  <1> HIDE DEF u, v
  <1>4. Steady(draft, coordinator, toPage, u, now, posted', v, b)
    BY <1>1, <1>2, <1>3, SteadyPosts
  <1> QED BY <1>4 DEF u, v

\* A command with the whole canvas: undo, redo or save, from the page.
LEMMA FlushThenPostHolds ==
    ASSUME TypeInvariant, IdentitiesHold, FlushThenPost, ~raced'
    PROVE  IdentitiesHold' /\ DraftKeeps
  <1>1. PICK command \in {"undo", "redo", "saveRevision"} :
            /\ acts' = acts + 1
            /\ page' = noteUserInput(page)
            /\ publication' = adoptScene(publication, readScene(page))
            /\ Post(<<event("flushedCommand", command, prepare(readScene(page)))>>)
            /\ raced' = (raced \/ crosses(<<event("flushedCommand", command, prepare(readScene(page)))>>)
                               \/ staleAfterFlush)
            /\ UNCHANGED <<draft, coordinator, toPage, replies>>
    BY DEF FlushThenPost, nativeUnchanged, Acts
  <1> DEFINE m == event("flushedCommand", command, prepare(readScene(page)))
  <1>2. m \in Event /\ m \in Flushed \cup Reply /\ m.scene.elements = visible(live(page.canvas))
    BY <1>1, SituationIs, FlushedTyped DEF Commands
  <1>3. Post(<<m>>) /\ ~crosses(<<m>>) /\ ~staleAfterFlush
    BY <1>1
  <1> HIDE DEF m
  <1>4. m.scene.elements = visible(page.canvas) /\ carriesScene(m)
    BY <1>2, SituationIs, VisibleLive, EventKinds
  <1>5. ~documentIsComing
    <2>1. <<m>>[1] = m /\ 1 \in DOMAIN <<m>>
      OBVIOUS
    <2>2. inFlight(<<m>>, carriesScene)
      BY <1>4, <2>1 DEF inFlight, ToSet
    <2> QED BY <1>3, <2>2 DEF crosses
  <1>6. page.deferredUpdate = NoUpdate
    BY <1>3 DEF staleAfterFlush
  <1>7. page'.canvas = page.canvas /\ page'.deferredUpdate = page.deferredUpdate
    <2> DEFINE r == page.received \/ page.loading
    <2>1. page \in Page /\ page' = [page EXCEPT !.received = r]
      BY <1>1, SituationIs, NotedIs
    <2> HIDE DEF r
    <2> QED BY <2>1 DEF Page
  <1>8. acts + 1 \in Nat /\ acts <= acts + 1
    BY SituationIs
  <1>9. Steady(draft', coordinator', toPage', page.deferredUpdate, publication'.active, posted',
               page.canvas, acts + 1)
    BY <1>1, <1>2, <1>3, <1>4, <1>5, <1>6, <1>8, PostHolds
  <1> QED BY <1>1, <1>7, <1>9, SituationIs DEF IdentitiesHold

\* A command alone.
LEMMA CommandPosts ==
    ASSUME TypeInvariant, IdentitiesHold, PostTool \/ PostReturn
    PROVE  IdentitiesHold' /\ DraftKeeps
  <1>1. PICK c \in {"tool", "returnToDraft"} : Post(<<event("command", c, none)>>)
    BY DEF PostTool, PostReturn
  <1>2. /\ page' = noteUserInput(page) \/ page' = page
        /\ acts' = acts + 1 /\ UNCHANGED <<publication, draft, coordinator, toPage, replies>>
    BY DEF PostTool, PostReturn, Acts, nativeUnchanged
  <1> DEFINE m == event("command", c, none)
  <1>3. m \in Event /\ ~carriesScene(m)
    BY DEF event, Event, carriesScene
  <1> HIDE DEF m
  <1>4. page'.canvas = page.canvas /\ page'.deferredUpdate = page.deferredUpdate
    <2> DEFINE r == page.received \/ page.loading
    <2>1. page \in Page /\ (page' = [page EXCEPT !.received = r] \/ page' = page)
      BY <1>2, SituationIs, NotedIs
    <2> HIDE DEF r
    <2> QED BY <2>1 DEF Page
  <1>5. acts + 1 \in Nat /\ acts <= acts + 1
    BY SituationIs
  <1>6. Post(<<m>>)
    BY <1>1 DEF m
  <1>7. Steady(draft', coordinator', toPage', page.deferredUpdate, publication.active, posted',
               page.canvas, acts + 1)
    BY <1>2, <1>3, <1>5, <1>6, PostHolds, SituationIs
  <1> QED BY <1>2, <1>4, <1>7, SituationIs DEF IdentitiesHold

\* React has committed a native update: input that came meanwhile is accepted, and a scene
\* without input is only adopted.
LEMMA FinishHolds ==
    ASSUME TypeInvariant, PageFits, IdentitiesHold, FinishNativeUpdate, ~raced'
    PROVE  IdentitiesHold' /\ DraftKeeps
  <1> DEFINE scene == readScene(page)
             change == IF page.deferredChange = none THEN scene ELSE page.deferredChange
             o == semanticOverlay(page.canvas)
             v == page.canvas
  <1>0. page \in Page /\ publication \in Publication /\ Fit(page, publication)
        /\ v \in Seq(CanvasElement) /\ acts \in Nat
    BY SituationIs DEF PageFits
  <1>1. /\ page.finishing /\ ~page.changed
        /\ page' = [page EXCEPT !.overlay = o, !.loading = FALSE, !.finishing = FALSE,
                     !.deferredChange = none, !.received = FALSE]
        /\ \/ /\ publication' = acceptScene(publication, change)
              /\ Post(accepted(publication, change)) /\ ~crosses(accepted(publication, change))
           \/ /\ ~page.received
              /\ publication' = adoptScene(publication, scene) /\ UNCHANGED toNative
        /\ UNCHANGED <<draft, coordinator, toPage, replies, acts>>
    BY DEF FinishNativeUpdate, acceptRaces
  <1>2. scene \in CanvasScene /\ change \in CanvasScene /\ scene.elements = live(v)
    BY <1>0, ReadTyped DEF Page
  <1>3. visible(change.elements) = visible(v)
    <2>1. visible(live(v)) = visible(v)
      BY <1>0, VisibleLive
    <2>2. CASE page.deferredChange = none
      BY <1>2, <2>1, <2>2
    <2>3. CASE page.deferredChange # none
      BY <1>0, <1>1, <2>3 DEF Fit
    <2> QED BY <2>2, <2>3
  <1> HIDE DEF change, o, scene
  <1>4. page'.canvas = v /\ page'.deferredUpdate = page.deferredUpdate
    BY <1>0, <1>1 DEF Page
  <1>5. CASE /\ publication' = acceptScene(publication, change)
             /\ Post(accepted(publication, change)) /\ ~crosses(accepted(publication, change))
    <2>1. publication'.active = publication.active
      BY <1>0, <1>2, <1>5, AcceptTyped
    <2>2. Steady(draft, coordinator, toPage, page.deferredUpdate, publication.active, posted, v, acts)
      BY SituationIs
    <2> HIDE DEF v
    <2>3. Steady(draft', coordinator', toPage', page.deferredUpdate, publication.active, posted', v, acts)
      BY <1>0, <1>1, <1>2, <1>3, <1>5, <2>2, AcceptHolds
    <2> QED BY <1>1, <1>4, <2>1, <2>3, SituationIs DEF IdentitiesHold
  <1>6. CASE ~page.received /\ publication' = adoptScene(publication, scene) /\ UNCHANGED toNative
    <2>1. page.deferredUpdate = NoUpdate
      BY <1>0, <1>1, <1>6, SituationIs DEF Fit
    <2>2. Steady(draft, coordinator, toPage, page.deferredUpdate, publication'.active, posted, v, acts)
      BY <1>0, <2>1, TimeHolds
    <2> QED BY <1>1, <1>4, <1>6, <2>2, SituationIs DEF IdentitiesHold, posted
  <1> QED BY <1>1, <1>5, <1>6

\* A load, a reconcile or a change of state reaches the page.
LEMMA UpdateHolds ==
    ASSUME TypeInvariant, IdentitiesHold, ReceiveUpdate, ~raced'
    PROVE  IdentitiesHold' /\ DraftKeeps
  <1> DEFINE m == Head(toPage)
             u == [call |-> m.call, snapshot |-> m.snapshot, elements |-> broughtBy(m)]
             c == page.changed \/ page.readOnly # m.snapshot.readOnly
             s == [page EXCEPT !.readOnly = m.snapshot.readOnly, !.changed = c]
             t == Tail(toPage)
             w == page.deferredUpdate
             v == page.canvas
             active == publication.active
  <1>0. /\ page \in Page /\ coordinator \in Coordinator /\ posted \in Seq(Event) /\ toPage \in Seq(Call)
        /\ v \in Seq(CanvasElement) /\ acts \in Nat /\ publication \in Publication
        /\ Steady(draft, coordinator, toPage, w, active, posted, v, acts)
        /\ w # NoUpdate => active
    BY SituationIs
  <1>1. /\ toPage # <<>> /\ m.call # "flush" /\ toPage' = t
        /\ page' = IF active THEN [s EXCEPT !.deferredUpdate = u] ELSE nativeUpdate(s, u)
        /\ publication' = IF active \/ ~carriesDocument(m) THEN publication ELSE overlaid(publication)
        /\ raced' = (raced \/ (active /\ w # NoUpdate /\ carriesDocument(w) /\ m.call = "state"))
        /\ UNCHANGED <<draft, coordinator, toNative, replies, acts>>
    BY DEF ReceiveUpdate, broughtBy
  <1>2. m \in Call /\ m.call \in {"load", "reconcile", "state"}
    <2>1. m \in Call
      BY <1>0, <1>1, ShorterTyped
    <2> QED BY <1>1, <2>1 DEF Call
  <1>3. /\ u \in Update /\ u.call = m.call /\ u.snapshot = m.snapshot
        /\ carriesDocument(u) <=> carriesDocument(m)
        /\ carriesDocument(u) => Canonical(u.elements, m.snapshot.document)
    BY <1>1, <1>2, BroughtIs
  <1>4. m.snapshot \in Snapshot
    BY <1>1, <1>2 DEF Call
  <1>5. m.snapshot.readOnly \in BOOLEAN /\ c \in BOOLEAN /\ m.snapshot.document \in Document
    BY <1>0, <1>4 DEF Snapshot, Page
  <1> HIDE DEF u, c
  <1>6. s \in Page /\ s.canvas = v /\ s.deferredUpdate = w
    BY <1>0, <1>5 DEF Page
  <1>7. ~raced' => ~(active /\ w # NoUpdate /\ carriesDocument(w) /\ m.call = "state")
    BY <1>1
  <1>11. ~carriesDocument(NoUpdate)
    BY DEF carriesDocument, NoUpdate
  <1>12. carriesDocument(m) <=> m.call \in {"load", "reconcile"}
    BY DEF carriesDocument
  <1> HIDE DEF s, m, t, v, active
  <1>8. CASE active
    <2>1. page' = [s EXCEPT !.deferredUpdate = u] /\ publication' = publication
      BY <1>1, <1>8
    <2>2. page'.canvas = v /\ page'.deferredUpdate = u
      BY <1>6, <2>1 DEF Page
    <2> HIDE DEF w
    <2>3. /\ carriesDocument(u) => carriesDocument(m) /\ u.snapshot.document = m.snapshot.document
          /\ (carriesDocument(m) \/ carriesDocument(w)) => carriesDocument(u)
      BY <1>2, <1>3, <1>7, <1>11, <1>12, <1>8
    <2>4. /\ \A X \in Documents(draft, coordinator, t, u) : X \in Documents(draft, coordinator, toPage, w)
          /\ \A X : Pipe(toPage, w, X) => Pipe(t, u, X)
          /\ ComingIn(t, u) <=> ComingIn(toPage, w)
      BY <1>0, <1>1, <2>3, TailIs DEF m, t
    <2>5. Steady(draft, coordinator, t, u, active, posted, v, acts)
      <3>1. acts <= acts /\ (u # NoUpdate => active)
        BY <1>0, <1>8
      <3> QED BY <1>0, <2>4, <3>1, SteadyKeeps
    <2> QED BY <1>1, <1>8, <2>1, <2>2, <2>5, SituationIs DEF IdentitiesHold, posted, active
  <1>9. CASE ~active
    <2>1. page' = nativeUpdate(s, u) /\ w = NoUpdate
      BY <1>0, <1>1, <1>9
    <2>2. /\ page'.canvas = (IF carriesDocument(m) THEN u.elements ELSE v) /\ page'.deferredUpdate = NoUpdate
      BY <1>3, <1>6, <2>1, NativeUpdateIs
    <2>3. publication'.active = active
      BY <1>0, <1>1, OverlaidTyped DEF active
    <2> DEFINE X == m.snapshot.document
               x == u.elements
    <2>4. CASE carriesDocument(m)
      <3>1. Canonical(x, X)
        BY <1>3, <2>4
      <3>2. /\ \A Y \in Documents(draft, coordinator, t, NoUpdate) : Y \in Documents(draft, coordinator, toPage, w)
            /\ \A Y : Pipe(toPage, w, Y) => Pipe(t, NoUpdate, Y)
            /\ ComingIn(toPage, w) /\ X \in Documents(draft, coordinator, toPage, w)
            /\ ~ComingIn(t, NoUpdate) => \A Y : Pipe(toPage, w, Y) => X = Y
        <4> HIDE DEF w
        <4> QED BY <1>0, <1>1, <1>5, <1>11, <2>4, TailIs DEF m, t
      <3> HIDE DEF X, x, w
      <3>3. Steady(draft, coordinator, t, NoUpdate, active, posted, x, acts)
        BY <1>0, <3>1, <3>2, SteadyLoads
      <3> QED BY <1>1, <2>2, <2>3, <2>4, <3>3, SituationIs DEF IdentitiesHold, posted, x
    <2>5. CASE ~carriesDocument(m)
      <3> HIDE DEF w
      <3>1. /\ \A Y \in Documents(draft, coordinator, t, w) : Y \in Documents(draft, coordinator, toPage, w)
            /\ \A Y : Pipe(toPage, w, Y) => Pipe(t, w, Y)
            /\ ComingIn(t, w) <=> ComingIn(toPage, w)
        BY <1>0, <1>1, <1>11, <2>1, <2>5, TailIs DEF m, t
      <3>2. acts <= acts
        BY <1>0
      <3>3. Steady(draft, coordinator, t, w, active, posted, v, acts)
        BY <1>0, <3>1, <3>2, SteadyKeeps
      <3> QED BY <1>1, <2>1, <2>2, <2>3, <2>5, <3>3, SituationIs DEF IdentitiesHold, posted, v, active
    <2> QED BY <2>4, <2>5
  <1> QED BY <1>8, <1>9

\* An update that was put off is put off no more.
LEMMA DropIs ==
    ASSUME NEW d, NEW c, NEW calls, NEW u
    PROVE  /\ \A X \in Documents(d, c, calls, NoUpdate) : X \in Documents(d, c, calls, u)
           /\ \A X : Pipe(calls, u, X) => Pipe(calls, NoUpdate, X)
           /\ ~carriesDocument(u) => (ComingIn(calls, NoUpdate) <=> ComingIn(calls, u))
           /\ carriesDocument(u) =>
                 /\ ComingIn(calls, u)
                 /\ u.snapshot.document \in Document => u.snapshot.document \in Documents(d, c, calls, u)
                 /\ ~ComingIn(calls, NoUpdate) => \A X : Pipe(calls, u, X) => u.snapshot.document = X
  <1>1. ~carriesDocument(NoUpdate)
    BY DEF carriesDocument, NoUpdate
  <1>2. \A X \in Documents(d, c, calls, NoUpdate) : X \in Documents(d, c, calls, u)
    BY <1>1 DEF Documents
  <1>3. \A X : Pipe(calls, u, X) => Pipe(calls, NoUpdate, X)
    BY <1>1 DEF Pipe
  <1>4. ~carriesDocument(u) => (ComingIn(calls, NoUpdate) <=> ComingIn(calls, u))
    BY <1>1 DEF ComingIn
  <1>5. carriesDocument(u) => ComingIn(calls, u)
    BY DEF ComingIn
  <1>6. carriesDocument(u) /\ u.snapshot.document \in Document
           => u.snapshot.document \in Documents(d, c, calls, u)
    BY DEF Documents
  <1>7. carriesDocument(u) /\ ~ComingIn(calls, NoUpdate) => \A X : Pipe(calls, u, X) => u.snapshot.document = X
    BY DEF ComingIn, Pipe
  <1> QED BY <1>2, <1>3, <1>4, <1>5, <1>6, <1>7

\* The application asks for the canvas.
LEMMA FlushHolds ==
    ASSUME TypeInvariant, IdentitiesHold, ReceiveFlush, ~raced'
    PROVE  IdentitiesHold' /\ DraftKeeps
  <1> DEFINE h == Head(toPage)
             m == event("reply", h.then, prepare(readScene(page)))
             t == Tail(toPage)
             u == page.deferredUpdate
             v == page.canvas
             active == publication.active
  <1>0. /\ page \in Page /\ coordinator \in Coordinator /\ posted \in Seq(Event) /\ toPage \in Seq(Call)
        /\ v \in Seq(CanvasElement) /\ acts \in Nat /\ acts <= acts
        /\ Steady(draft, coordinator, toPage, u, active, posted, v, acts)
    BY SituationIs
  <1>1. /\ toPage # <<>> /\ h.call = "flush" /\ toPage' = t
        /\ publication' = adoptScene(publication, readScene(page)) /\ Post(<<m>>)
        /\ ~staleAfterFlush /\ ~inFlight(t, carriesDocument)
        /\ UNCHANGED <<page, draft, coordinator, replies, acts>>
    BY DEF ReceiveFlush
  <1>2. h \in Call /\ ~carriesDocument(h) /\ h.then \in Commands
    <2>1. h \in Call
      BY <1>0, <1>1, ShorterTyped
    <2>2. "flush" \notin {"load", "reconcile", "state"}
      OBVIOUS
    <2> QED BY <1>1, <2>1, <2>2 DEF Call, carriesDocument
  <1>3. m \in Event /\ m.scene.elements = visible(v)
    <2>1. m \in Event /\ m.scene.elements = visible(live(v))
      BY <1>0, <1>2, FlushedTyped
    <2> HIDE DEF m
    <2> QED BY <1>0, <2>1, VisibleLive
  <1>4. u = NoUpdate /\ ~ComingIn(t, u)
    <2>1. u = NoUpdate /\ ~carriesDocument(NoUpdate)
      BY <1>1 DEF staleAfterFlush, carriesDocument, NoUpdate
    <2> QED BY <1>1, <2>1 DEF ComingIn, inFlight, ToSet
  <1>5. posted' = Append(posted, m)
    <2> HIDE DEF m
    <2>1. replies \o (toNative \o <<m>>) = Append(replies \o toNative, m)
      BY <1>3, SituationIs, PostIs
    <2>2. toNative' = toNative \o <<m>> /\ replies' = replies
      BY <1>1 DEF Post
    <2> QED BY <2>1, <2>2 DEF posted
  <1> DEFINE now == publication'.active
  <1> HIDE DEF h, m, t, u, v, active, now
  <1>6. /\ \A X \in Documents(draft, coordinator, t, u) : X \in Documents(draft, coordinator, toPage, u)
        /\ \A X : Pipe(toPage, u, X) => Pipe(t, u, X)
        /\ ComingIn(t, u) <=> ComingIn(toPage, u)
    BY <1>0, <1>1, <1>2, TailIs DEF h, t
  <1>7. Steady(draft, coordinator, t, u, now, posted, v, acts)
    <2>1. u # NoUpdate => now
      BY <1>4
    <2> QED BY <1>0, <1>6, <2>1, SteadyKeeps
  <1>8. Steady(draft, coordinator, t, u, now, posted', v, acts)
    BY <1>0, <1>3, <1>4, <1>5, <1>7, SteadyPosts
  <1> QED BY <1>1, <1>8, SituationIs DEF IdentitiesHold, u, v, now

\* The gesture is over: the scene it held back is published, or the update it put off is
\* applied.
LEMMA InteractionHolds ==
    ASSUME TypeInvariant, PageFits, IdentitiesHold, NEW p \in Page, EndInteraction(p), ~raced',
           p.canvas = page.canvas, p.deferredUpdate = page.deferredUpdate,
           NEW b \in Nat, acts <= b
    PROVE  /\ Steady(draft', coordinator', toPage', page'.deferredUpdate, publication'.active,
                     posted', page'.canvas, b)
           /\ DraftKeeps
  <1> DEFINE did == publication.active /\ publishes(publication)
             ending == endPointerInteraction(publication)
             ns == ended(publication)
             q == completePointerInteraction(p, did)
             u == page.deferredUpdate
             v == page.canvas
             active == publication.active
             now == publication'.active
  <1>0. /\ page \in Page /\ coordinator \in Coordinator /\ posted \in Seq(Event) /\ toPage \in Seq(Call)
        /\ v \in Seq(CanvasElement) /\ acts \in Nat /\ publication \in Publication
        /\ Steady(draft, coordinator, toPage, u, active, posted, v, acts)
        /\ active \in BOOLEAN /\ (documentIsComing <=> ComingIn(toPage, u))
        /\ replies \in Seq(Event) /\ toNative \in Seq(Event)
    BY SituationIs
  <1>1. /\ page' = q /\ Post(ns) /\ ~crosses(ns)
        /\ UNCHANGED <<draft, coordinator, toPage, replies>>
    BY DEF EndInteraction, endRaces, nativeUnchanged
  <1>2. did \in BOOLEAN
    BY <1>0 DEF publishes
  <1>3. /\ did => /\ publication.pending \in CanvasScene /\ publication.pending # none
                  /\ publication.adopted # none
                  /\ ns = <<event("scene", "none", prepare(publication.pending))>>
        /\ ~did => ns = <<>>
    <2>1. publishes(publication) => publication.pending # none
      BY DEF publishes
    <2> QED BY <1>0, <2>1, EndTyped
  <1> HIDE DEF did
  <1>4. /\ q.deferredUpdate = NoUpdate
        /\ ~did /\ u # NoUpdate => u \in Update
        /\ q.canvas = (IF ~did /\ u # NoUpdate /\ carriesDocument(u) THEN u.elements ELSE v)
    BY <1>2, CompletedIs
  <1>5. ~carriesDocument(NoUpdate)
    BY DEF carriesDocument, NoUpdate
  <1>6. /\ \A X \in Documents(draft, coordinator, toPage, NoUpdate) : X \in Documents(draft, coordinator, toPage, u)
        /\ \A X : Pipe(toPage, u, X) => Pipe(toPage, NoUpdate, X)
        /\ ~carriesDocument(u) => (ComingIn(toPage, NoUpdate) <=> ComingIn(toPage, u))
        /\ carriesDocument(u) =>
              /\ ComingIn(toPage, u)
              /\ u.snapshot.document \in Document => u.snapshot.document \in Documents(draft, coordinator, toPage, u)
              /\ ~ComingIn(toPage, NoUpdate) => \A X : Pipe(toPage, u, X) => u.snapshot.document = X
    <2> HIDE DEF u
    <2> QED BY DropIs
  <1> HIDE DEF q, u, v, active, now
  <1>7. ASSUME ~carriesDocument(u)
        PROVE  Steady(draft, coordinator, toPage, NoUpdate, now, posted, v, b)
    BY <1>0, <1>6, <1>7, SteadyKeeps
  <1>8. CASE did
    <2> DEFINE s == publication.pending
               m == event("scene", "none", prepare(s))
    <2>1. visible(s.elements) = visible(v)
      BY <1>3, <1>8 DEF PageFits, Fit, v
    <2>2. m \in Event /\ carriesScene(m) /\ m.scene.elements = visible(v)
      <3>1. prepare(s) \in Scene /\ prepare(s).elements = visible(v)
        BY <1>3, <1>8, <2>1, PrepareTyped
      <3>2. m \in SceneEvent /\ m.scene = prepare(s)
        BY <3>1 DEF event, SceneEvent
      <3> QED BY <3>1, <3>2, EventKinds
    <2>3. ns = <<m>>
      BY <1>3, <1>8
    <2> HIDE DEF m, ns
    <2>4. ~documentIsComing
      <3>1. <<m>>[1] = m /\ 1 \in DOMAIN <<m>>
        OBVIOUS
      <3>2. inFlight(ns, carriesScene)
        BY <2>2, <2>3, <3>1 DEF inFlight, ToSet
      <3> QED BY <1>1, <3>2 DEF crosses
    <2>5. ~ComingIn(toPage, u) /\ ~carriesDocument(u)
      BY <1>0, <2>4 DEF ComingIn
    <2>6. posted' = Append(posted, m)
      <3>1. replies \o (toNative \o <<m>>) = Append(replies \o toNative, m)
        BY <1>0, <2>2, PostIs
      <3>2. toNative' = toNative \o <<m>> /\ replies' = replies
        BY <1>1, <2>3 DEF Post
      <3> QED BY <3>1, <3>2 DEF posted
    <2>7. Steady(draft, coordinator, toPage, NoUpdate, now, posted', v, b)
      BY <1>0, <1>6, <1>7, <2>2, <2>5, <2>6, SteadyPosts
    <2> QED BY <1>1, <1>4, <1>8, <2>7, SituationIs DEF now
  <1>9. CASE ~did
    <2>1. posted' = posted
      <3>1. toNative' = toNative /\ replies' = replies
        BY <1>0, <1>1, <1>3, <1>9 DEF Post
      <3> QED BY <3>1 DEF posted
    <2>2. CASE carriesDocument(u)
      <3> DEFINE X == u.snapshot.document
                 x == u.elements
      <3>1. u \in Update /\ q.canvas = x
        BY <1>4, <1>5, <1>9, <2>2
      <3>2. X \in Document /\ Canonical(x, X)
        BY <2>2, <3>1 DEF Update, Snapshot
      <3> HIDE DEF X, x
      <3>3. /\ X \in Documents(draft, coordinator, toPage, u) /\ ComingIn(toPage, u)
            /\ ~ComingIn(toPage, NoUpdate) => \A Y : Pipe(toPage, u, Y) => X = Y
        BY <1>6, <2>2, <3>2 DEF X
      <3>4. Steady(draft, coordinator, toPage, u, active, posted, v, b)
        BY SituationIs, TimeHolds DEF u, v, active
      <3>5. Steady(draft, coordinator, toPage, NoUpdate, now, posted, x, b)
        BY <1>0, <1>6, <3>2, <3>3, <3>4, SteadyLoads
      <3> QED BY <1>1, <1>4, <2>1, <3>1, <3>5, SituationIs DEF now
    <2>3. CASE ~carriesDocument(u)
      BY <1>1, <1>4, <1>7, <2>1, <2>3, SituationIs DEF now
    <2> QED BY <2>2, <2>3
  <1> QED BY <1>8, <1>9

\* The pointer is lifted, or the window loses it.
LEMMA EndHolds ==
    ASSUME TypeInvariant, PageFits, IdentitiesHold, PointerUp \/ Blur, ~raced'
    PROVE  IdentitiesHold' /\ DraftKeeps
  <1>1. page \in Page /\ acts \in Nat /\ acts + 1 \in Nat /\ acts <= acts /\ acts <= acts + 1
    BY SituationIs
  <1>2. CASE Blur
    <2>1. EndInteraction(page) /\ acts' = acts + 1
      BY <1>2 DEF Blur, Acts
    <2> QED BY <1>1, <2>1, InteractionHolds DEF IdentitiesHold
  <1>3. CASE PointerUp
    <2> DEFINE p == [page EXCEPT !.held = FALSE]
    <2>1. EndInteraction(p) /\ acts' = acts
      BY <1>3 DEF PointerUp
    <2>2. p \in Page /\ p.canvas = page.canvas /\ p.deferredUpdate = page.deferredUpdate
      BY <1>1 DEF Page
    <2> HIDE DEF p
    <2> QED BY <1>1, <2>1, <2>2, InteractionHolds DEF IdentitiesHold
  <1> QED BY <1>2, <1>3

-----------------------------------------------------------------------------
(* The steps of the application *)

\* All messages are still there.
LEMMA SameMessages ==
    ASSUME NEW ms
    PROVE  \E f : Fewer(ms, ms, f)
  <1> DEFINE f == [i \in DOMAIN ms |-> i]
  <1>1. Fewer(ms, ms, f)
    BY DEF Fewer
  <1> QED BY <1>1

\* A command from the menus, and the panel that shows the saved revision.
LEMMA PanelHolds ==
    ASSUME TypeInvariant, IdentitiesHold, MenuFlush \/ InspectRevision
    PROVE  IdentitiesHold' /\ DraftKeeps
  <1>1. PICK f : Fewer(posted, posted, f)
    BY SameMessages
  <1>2. /\ acts \in Nat /\ acts + 1 \in Nat /\ acts <= acts + 1 /\ coordinator \in Coordinator /\ draft \in Draft
    BY SituationIs
  <1>3. /\ acts' = acts + 1 /\ UNCHANGED <<page, publication, toNative, replies>>
    BY DEF MenuFlush, InspectRevision, Acts, pageUnchanged
  <1>4. /\ coordinator'.snapshot.document = coordinator.snapshot.document
        /\ coordinator'.lastLoaded = coordinator.lastLoaded
        /\ coordinator'.boardIDsByWebID = coordinator.boardIDsByWebID
        /\ coordinator'.task = coordinator.task
    BY <1>2 DEF MenuFlush, InspectRevision, Coordinator
  <1>5. \A Y \in draftDocuments(draft') : Y \in draftDocuments(draft)
    <2>1. CASE InspectRevision
      <3>1. draft' = [draft EXCEPT !.inspecting = TRUE]
        BY <2>1 DEF InspectRevision
      <3> QED BY <1>2, <3>1 DEF Draft, draftDocuments
    <2>2. CASE MenuFlush
      <3>1. PICK then : draft' = draft \/ draft' = perform(draft, then)
        BY <2>2 DEF MenuFlush
      <3> QED BY <1>2, <3>1, PerformIs
    <2> QED BY <2>1, <2>2
  <1>6. toPage' = toPage \/ \E m \in Call : ~carriesDocument(m) /\ toPage' = Append(toPage, m)
    <2>1. CASE InspectRevision
      BY <2>1 DEF InspectRevision
    <2>2. CASE MenuFlush
      <3>1. PICK then \in {"undo", "redo", "saveRevision"} :
                toPage' = toPage \/ toPage' = Append(toPage, call("flush", none, then))
        BY <2>2 DEF MenuFlush
      <3>2. call("flush", none, then) \in Call /\ ~carriesDocument(call("flush", none, then))
        BY <3>1 DEF call, Call, Commands, carriesDocument
      <3> QED BY <3>1, <3>2
    <2> QED BY <2>1, <2>2
  <1> DEFINE t == toPage'
             e == draft'
             k == coordinator'
             b == acts + 1
  <1>7. Steady(e, k, t, page.deferredUpdate, publication.active, posted, page.canvas, b)
    <2>1. b \in Nat /\ acts <= b
      BY <1>2
    <2> HIDE DEF t, e, k, b
    <2> QED BY <1>1, <1>4, <1>5, <1>6, <2>1, DraftHolds DEF t, e, k
  <1>8. draft'.document \in draftDocuments(draft)
    BY <1>5 DEF draftDocuments
  <1> QED BY <1>3, <1>7, <1>8 DEF IdentitiesHold, DraftKeeps, posted

\* The editor session starts over.
LEMMA ResetHolds ==
    ASSUME TypeInvariant, IdentitiesHold, ResetEditorSession
    PROVE  IdentitiesHold' /\ DraftKeeps
  <1> DEFINE c == NewCoordinator(Presented)
             D == Documents(draft, coordinator, toPage, page.deferredUpdate)
             E == Documents(draft, c, <<>>, NoUpdate)
  <1>1. /\ page' = NewPage /\ publication' = NewPublication /\ coordinator' = c
        /\ toPage' = <<>> /\ toNative' = Ready /\ replies' = <<>>
        /\ draft' = draft /\ acts' = acts + 1
    BY DEF ResetEditorSession, Acts
  <1>2. /\ draft \in Draft /\ acts \in Nat /\ acts + 1 \in Nat /\ acts <= acts + 1
        /\ Presented \in Snapshot /\ Presented.document = presentedDocument
        /\ presentedDocument \in draftDocuments(draft)
    BY SituationIs, PresentedIs DEF presentedDocument, draftDocuments
  <1>3. /\ c \in Coordinator /\ c.snapshot.document = presentedDocument /\ c.lastLoaded = <<>>
        /\ c.boardIDsByWebID = << >> /\ c.task = NoTask
    BY <1>2, LedgerIs DEF NewCoordinator, Coordinator, Task
  <1>4. \A X \in E : X \in D
    <2>1. ~carriesDocument(NoUpdate) /\ \A X : <<>> # <<X>>
      BY DEF carriesDocument, NoUpdate
    <2> HIDE DEF c
    <2> QED BY <1>2, <1>3, <2>1 DEF Documents
  <1>5. Agreement(E, acts + 1)
    <2>1. Agreement(D, acts) /\ \A X \in D : X \in Document
      BY SituationIs DEF Steady, Documents
    <2> HIDE DEF D, E
    <2> QED BY <1>2, <1>4, <2>1, AgreementKeeps
  <1>6. Scenes(Ready) = {}
    <2>1. DOMAIN Ready = {1} /\ Ready[1].scene = none
      BY DEF Ready, event
    <2> QED BY <2>1 DEF Scenes, carriesScene
  <1>7. posted' = Ready
    <2>1. Ready \in Seq(Event)
      <3>1. event("ready", "none", none) \in Event
        BY DEF event, Event
      <3> QED BY <3>1 DEF Ready
    <2>2. <<>> \o Ready = Ready
      BY <2>1
    <2> QED BY <1>1, <2>2 DEF posted
  <1>8. page'.canvas = <<>> /\ page'.deferredUpdate = NoUpdate
    BY <1>1 DEF NewPage
  <1> HIDE DEF c, D
  <1> DEFINE now == publication'.active
             b == acts + 1
  <1>9. Steady(draft, c, <<>>, NoUpdate, now, Ready, <<>>, b)
    <2>1. Agreement(Documents(draft, c, <<>>, NoUpdate), b)
      BY <1>5
    <2> HIDE DEF now, b, E
    <2> QED BY <1>3, <1>6, <2>1, SteadyStarts
  <1> QED BY <1>1, <1>7, <1>8, <1>9, SituationIs DEF IdentitiesHold

\* The first editor session.
LEMMA IdentitiesInit == Init => IdentitiesHold
  <1> SUFFICES ASSUME Init PROVE IdentitiesHold
    OBVIOUS
  <1> DEFINE Z == InitialDocument
             s == [document |-> Z, selected |-> none, tool |-> "select", readOnly |-> FALSE]
             c == NewCoordinator(s)
             E == Documents(draft, c, <<>>, NoUpdate)
  <1>1. /\ page = NewPage /\ publication = NewPublication /\ coordinator = c
        /\ toPage = <<>> /\ toNative = Ready /\ replies = <<>> /\ acts = 0
        /\ draftDocuments(draft) = {Z}
    <2>1. /\ draft.document = Z /\ draft.revision = Z /\ draft.undo = <<>> /\ draft.redo = <<>>
      BY DEF Init
    <2>2. draftDocuments(draft) = {Z}
      BY <2>1 DEF draftDocuments
    <2> QED BY <2>2 DEF Init
  <1>2. coordinator \in Coordinator
    BY InitTyped DEF TypeInvariant
  <1>3. /\ c.snapshot.document = Z /\ c.lastLoaded = <<>> /\ c.boardIDsByWebID = << >> /\ c.task = NoTask
    BY DEF NewCoordinator
  <1>4. \A X \in E : X = Z
    <2>1. ~carriesDocument(NoUpdate) /\ \A X : <<>> # <<X>>
      BY DEF carriesDocument, NoUpdate
    <2> HIDE DEF c
    <2> QED BY <1>1, <1>3, <2>1 DEF Documents
  <1>5. Agreement(E, 0)
    <2>1. \A n \in DOMAIN Z : Z[n].ink <= 0
      BY InitialIs
    <2>2. Agree(Z, Z)
      BY InitialIs DEF Agree
    <2> HIDE DEF E
    <2> QED BY <1>4, <2>1, <2>2 DEF Agreement
  <1>6. Scenes(Ready) = {}
    <2>1. DOMAIN Ready = {1} /\ Ready[1].scene = none
      BY DEF Ready, event
    <2> QED BY <2>1 DEF Scenes, carriesScene
  <1>7. posted = Ready
    <2>1. Ready \in Seq(Event)
      <3>1. event("ready", "none", none) \in Event
        BY DEF event, Event
      <3> QED BY <3>1 DEF Ready
    <2>2. <<>> \o Ready = Ready
      BY <2>1
    <2> QED BY <1>1, <2>2 DEF posted
  <1>8. page.canvas = <<>> /\ page.deferredUpdate = NoUpdate
    BY <1>1 DEF NewPage
  <1> HIDE DEF c
  <1> DEFINE now == publication.active
  <1>9. Steady(draft, c, <<>>, NoUpdate, now, Ready, <<>>, 0)
    <2>1. c \in Coordinator /\ Agreement(Documents(draft, c, <<>>, NoUpdate), 0)
      BY <1>1, <1>2, <1>5
    <2> HIDE DEF now, E
    <2> QED BY <1>3, <1>6, <2>1, SteadyStarts
  <1> QED BY <1>1, <1>7, <1>8, <1>9 DEF IdentitiesHold

\* The page is ready: a load is scheduled.
LEMMA ReadyHolds ==
    ASSUME TypeInvariant, IdentitiesHold, ReceiveReady
    PROVE  IdentitiesHold' /\ DraftKeeps
  <1> DEFINE k == coordinator'
             ns == replies \o Tail(toNative)
  <1>0. /\ coordinator \in Coordinator /\ replies \in Seq(Event) /\ toNative \in Seq(Event)
        /\ acts \in Nat /\ acts <= acts
    BY SituationIs
  <1>1. /\ toNative # <<>> /\ toNative' = Tail(toNative)
        /\ k = [scheduleLoad(coordinator, coordinator.snapshot) EXCEPT !.ready = TRUE]
        /\ UNCHANGED <<page, publication, draft, toPage, replies, acts>>
    BY DEF ReceiveReady
  <1>2. PICK f : Fewer(ns, posted, f)
    BY <1>0, <1>1, MessageGone DEF posted
  <1>3. /\ k.snapshot = coordinator.snapshot /\ k.lastLoaded = coordinator.lastLoaded
        /\ k.boardIDsByWebID = coordinator.boardIDsByWebID
        /\ k.task.snapshot = coordinator.snapshot
    BY <1>0, <1>1 DEF scheduleLoad, Coordinator
  <1>4. posted' = ns
    BY <1>1 DEF posted
  <1> HIDE DEF k, ns
  <1>5. Steady(draft, k, toPage, page.deferredUpdate, publication.active, ns, page.canvas, acts)
    BY <1>0, <1>2, <1>3, DraftHolds
  <1> QED BY <1>1, <1>4, <1>5, SituationIs DEF IdentitiesHold, k

\* A scene, a command with a scene, or a command alone is handled.
LEMMA EventHolds ==
    ASSUME TypeInvariant, IdentitiesHold, ReceiveEvent, ~raced'
    PROVE  IdentitiesHold' /\ DraftKeeps
  <1> DEFINE m == Head(toNative)
             ns == replies \o Tail(toNative)
  <1>0. /\ coordinator \in Coordinator /\ replies \in Seq(Event) /\ toNative \in Seq(Event)
        /\ posted \in Seq(Event) /\ draft \in Draft /\ acts \in Nat /\ acts <= acts
    BY SituationIs
  <1>1. /\ toNative # <<>> /\ toNative' = Tail(toNative)
        /\ IF carriesScene(m) THEN permitsCommand(m.command, receiveScene(m.scene))
           ELSE receiveCommand(m.command)
        /\ carriesScene(m) => replies = <<>> /\ ~canvasIsBehind
        /\ ~reclaims(m.scene)
        /\ UNCHANGED <<page, publication, toPage, replies, acts>>
    BY DEF ReceiveEvent
  <1>2. PICK f : Fewer(ns, posted, f) /\ \A i \in DOMAIN ns : replies = <<>> => 1 < f[i]
    BY <1>0, <1>1, MessageGone DEF posted
  <1>3. replies = <<>> => 1 \in DOMAIN posted /\ posted[1] = m
    BY <1>0, <1>1, MessageGone DEF posted
  <1>4. posted' = ns
    BY <1>1 DEF posted
  <1> HIDE DEF ns, m
  <1>5. CASE carriesScene(m)
    <2>1. 1 \in Scenes(posted) /\ posted[1].scene = m.scene
      BY <1>1, <1>3, <1>5 DEF Scenes
    <2>2. \A i \in DOMAIN ns : 1 < f[i]
      BY <1>1, <1>2, <1>5
    <2>3. permitsCommand(m.command, receiveScene(m.scene))
      BY <1>1, <1>5
    <2>4. /\ Steady(draft', coordinator', toPage, page.deferredUpdate, publication.active, ns,
                    page.canvas, acts)
          /\ draft'.document \in draftDocuments(draft) \/ Agree(draft.document, draft'.document)
      BY <1>1, <1>2, <1>5, <2>1, <2>2, <2>3, SceneHolds
    <2> QED BY <1>1, <1>4, <2>4 DEF IdentitiesHold, DraftKeeps
  <1>6. CASE ~carriesScene(m)
    <2> DEFINE e == draft'
               k == coordinator'
    <2>1. e = perform(draft, m.command) /\ k = [coordinator EXCEPT !.observing = TRUE]
      BY <1>1, <1>6 DEF receiveCommand
    <2>2. \A Y \in draftDocuments(e) : Y \in draftDocuments(draft)
      BY <1>0, <2>1, PerformIs
    <2>3. /\ k.snapshot = coordinator.snapshot /\ k.lastLoaded = coordinator.lastLoaded
          /\ k.boardIDsByWebID = coordinator.boardIDsByWebID /\ k.task = coordinator.task
      BY <1>0, <2>1 DEF Coordinator
    <2>4. e.document \in draftDocuments(draft)
      BY <2>2 DEF draftDocuments
    <2> HIDE DEF e, k
    <2>5. Steady(e, k, toPage, page.deferredUpdate, publication.active, ns, page.canvas, acts)
      BY <1>0, <1>2, <2>2, <2>3, DraftHolds
    <2> QED BY <1>1, <1>4, <2>4, <2>5 DEF IdentitiesHold, DraftKeeps, e, k
  <1> QED BY <1>5, <1>6

\* The reply to a flush hops to the main actor.
LEMMA HopHolds ==
    ASSUME TypeInvariant, IdentitiesHold, ReceiveReply
    PROVE  IdentitiesHold' /\ DraftKeeps
  <1>1. /\ toNative # <<>> /\ replies' = Append(replies, Head(toNative)) /\ toNative' = Tail(toNative)
        /\ UNCHANGED <<page, publication, draft, coordinator, toPage, acts>>
    BY DEF ReceiveReply
  <1>2. posted' = posted
    BY <1>1, SituationIs, HopIs DEF posted
  <1> QED BY <1>1, <1>2, SituationIs DEF IdentitiesHold

\* The reply is handled.
LEMMA ReplyHolds ==
    ASSUME TypeInvariant, IdentitiesHold, HandleReply, ~raced'
    PROVE  IdentitiesHold' /\ DraftKeeps
  <1> DEFINE m == Head(replies)
             ns == Tail(replies) \o toNative
  <1>0. /\ replies \in Seq(Event) /\ toNative \in Seq(Event) /\ replies \in Seq(Reply)
    BY SituationIs DEF TypeInvariant
  <1>1. /\ replies # <<>> /\ replies' = Tail(replies)
        /\ permitsCommand(m.command, receiveScene(m.scene))
        /\ ~canvasIsBehind /\ ~reclaims(m.scene)
        /\ UNCHANGED <<page, publication, toPage, toNative, acts>>
    BY DEF HandleReply
  <1>2. PICK f : Fewer(ns, posted, f) /\ \A i \in DOMAIN ns : 1 < f[i]
    BY <1>0, <1>1, ReplyGone DEF posted
  <1>3. 1 \in DOMAIN posted /\ posted[1] = m
    BY <1>0, <1>1, ReplyGone DEF posted
  <1>4. posted' = ns
    BY <1>1 DEF posted
  <1>5. carriesScene(m)
    <2>1. m \in Reply
      BY <1>0, <1>1, ShorterTyped
    <2> QED BY <2>1, EventKinds
  <1> HIDE DEF ns, m
  <1>6. 1 \in Scenes(posted) /\ posted[1].scene = m.scene
    BY <1>3, <1>5 DEF Scenes
  <1>7. /\ Steady(draft', coordinator', toPage, page.deferredUpdate, publication.active, ns,
                  page.canvas, acts)
        /\ draft'.document \in draftDocuments(draft) \/ Agree(draft.document, draft'.document)
    BY <1>1, <1>2, <1>6, SceneHolds
  <1> QED BY <1>1, <1>4, <1>7 DEF IdentitiesHold, DraftKeeps

\* SwiftUI presents the Board.
LEMMA ObserveHolds ==
    ASSUME TypeInvariant, IdentitiesHold, Observe, ~raced'
    PROVE  IdentitiesHold' /\ DraftKeeps
  <1> DEFINE X == presentedDocument
             c == coordinator
             k == coordinator'
             l == keeping(c.boardIDsByWebID, ids(X))
             pruned == [c EXCEPT !.boardIDsByWebID = l, !.snapshot = Presented, !.observing = FALSE]
             u == page.deferredUpdate
             v == page.canvas
             active == publication.active
             m == call("state", Presented, "none")
  <1>0. /\ c \in Coordinator /\ draft \in Draft /\ toPage \in Seq(Call) /\ acts \in Nat
        /\ Steady(draft, c, toPage, u, active, posted, v, acts)
    BY SituationIs
  <1>1. /\ \/ k = pruned \/ k = [pruned EXCEPT !.task = NoTask]
           \/ k = scheduleLoad(pruned, Presented) \/ k = scheduleReconcile(pruned, Presented)
        /\ c.lastLoaded = <<X>> => ~canvasIsBehind
        /\ toPage' = toPage \/ toPage' = Append(toPage, m)
        /\ UNCHANGED <<page, publication, draft, toNative, replies, acts>>
    <2>1. /\ k = CASE ~c.ready            -> pruned
                   [] c.ready /\ c.lastLoaded = <<X>>  -> [pruned EXCEPT !.task = NoTask]
                   [] c.ready /\ ~(c.lastLoaded = <<X>>) ->
                        IF c.lastLoaded = <<>> THEN scheduleLoad(pruned, Presented)
                        ELSE scheduleReconcile(pruned, Presented)
          /\ ~(c.lastLoaded = <<X>> /\ canvasIsBehind)
          /\ toPage' = toPage \/ toPage' = Append(toPage, m)
          /\ UNCHANGED <<page, publication, draft, toNative, replies, acts>>
      BY DEF Observe
    <2> HIDE DEF pruned, m, k, X
    <2> QED BY <2>1
  <1>2. Presented \in Snapshot /\ Presented.document = X /\ X \in Document
    BY <1>0, PresentedIs
  <1>3. X \in draftDocuments(draft)
    BY DEF presentedDocument, draftDocuments
  <1>4. m \in Call /\ ~carriesDocument(m)
    BY <1>2 DEF call, Call, carriesDocument
  <1>5. l \in IDLedgers
    <2>1. c.boardIDsByWebID \in IDLedgers
      BY <1>0 DEF Coordinator
    <2> HIDE DEF X
    <2> QED BY <2>1, KeepingIs
  <1> HIDE DEF l, m
  <1>6. /\ k.snapshot = Presented /\ k.lastLoaded = c.lastLoaded /\ k.boardIDsByWebID = l
        /\ k.task = c.task \/ k.task = NoTask \/ k.task.snapshot = Presented
    <2>1. pruned \in Coordinator /\ pruned.snapshot = Presented /\ pruned.lastLoaded = c.lastLoaded
          /\ pruned.boardIDsByWebID = l /\ pruned.task = c.task
      BY <1>0, <1>2, <1>5 DEF Coordinator
    <2> HIDE DEF pruned
    <2> QED BY <1>1, <2>1 DEF scheduleLoad, scheduleReconcile, Coordinator
  <1>7. c.lastLoaded = <<X>> => c.snapshot.document = X
    BY <1>1 DEF canvasIsBehind
  <1> HIDE DEF X, k, u, v, active
  <1>8. /\ \A Y \in Documents(draft, k, toPage, u) : Y \in Documents(draft, c, toPage, u)
    BY <1>2, <1>3, <1>6 DEF Documents
  <1> DEFINE t == toPage'
  <1>9. /\ \A Y \in Documents(draft, k, t, u) : Y \in Documents(draft, c, toPage, u)
        /\ ComingIn(t, u) <=> ComingIn(toPage, u)
        /\ \A Y : Pipe(toPage, u, Y) => Pipe(t, u, Y)
    <2>1. CASE t = toPage
      BY <1>8, <2>1
    <2>2. CASE t = Append(toPage, m)
      <3> HIDE DEF t
      <3>1. /\ \A Y \in Documents(draft, k, t, u) : Y \in Documents(draft, k, toPage, u)
            /\ \A Y : Pipe(toPage, u, Y) => Pipe(t, u, Y)
            /\ ComingIn(t, u) <=> ComingIn(toPage, u)
        BY <1>0, <1>4, <2>2, AppendIs
      <3> QED BY <1>8, <3>1
    <2> QED BY <1>1, <2>1, <2>2
  <1>10. Steady(draft, k, t, u, active, posted, v, acts)
    <2>1. k.snapshot.document = X /\ k.boardIDsByWebID = keeping(c.boardIDsByWebID, ids(X))
      BY <1>2, <1>6 DEF l
    <2> HIDE DEF t
    <2> QED BY <1>0, <1>2, <1>6, <1>7, <1>9, <2>1, SteadyPresents
  <1> QED BY <1>1, <1>10, SituationIs DEF IdentitiesHold, posted, k, u, v, active

\* A load or a reconcile runs: the presented Board is sent to the page.
LEMMA RunHolds ==
    ASSUME TypeInvariant, IdentitiesHold, RunTask, ~raced'
    PROVE  IdentitiesHold' /\ DraftKeeps
  <1> DEFINE c == coordinator
             k == coordinator'
             t == c.task
             x == <<t.snapshot.document>>
             m == call(t.task, t.snapshot, "none")
             called == toPage'
             u == page.deferredUpdate
             v == page.canvas
             active == publication.active
  <1>0. /\ c \in Coordinator /\ toPage \in Seq(Call) /\ acts \in Nat
        /\ Steady(draft, c, toPage, u, active, posted, v, acts)
        /\ sceneIsComing <=> Scenes(posted) # {}
    BY SituationIs
  <1>1. /\ t # NoTask /\ k = [c EXCEPT !.task = NoTask, !.lastLoaded = x]
        /\ called = Append(toPage, m)
        /\ ~sceneIsComing /\ t.snapshot.document = c.snapshot.document
        /\ UNCHANGED <<page, publication, draft, toNative, replies, acts>>
    BY DEF RunTask
  <1>2. t \in [task : {"load", "reconcile"}, snapshot : Snapshot]
    BY <1>0, <1>1 DEF Coordinator, Task
  <1>3. m \in Call /\ carriesDocument(m) /\ m.snapshot = t.snapshot
    BY <1>2 DEF call, Call, carriesDocument
  <1> HIDE DEF m, t
  <1>4. /\ k.snapshot = c.snapshot /\ k.lastLoaded = x /\ k.task = NoTask
        /\ k.boardIDsByWebID = c.boardIDsByWebID
    <2> HIDE DEF x
    <2> QED BY <1>0, <1>1 DEF Coordinator
  <1> HIDE DEF k, called, u, v, active
  <1>5. Steady(draft, k, called, u, active, posted, v, acts)
    <2>1. m.snapshot.document = c.snapshot.document /\ k.lastLoaded = <<m.snapshot.document>>
      BY <1>1, <1>3, <1>4
    <2> QED BY <1>0, <1>1, <1>3, <1>4, <2>1, SteadyRuns
  <1> QED BY <1>1, <1>5, SituationIs DEF IdentitiesHold, posted, k, called, u, v, active

\* A race that happened stays.
LEMMA RacedStays ==
    ASSUME raced, [Next]_vars
    PROVE  raced'
  <1>1. CASE UNCHANGED vars
    BY <1>1 DEF vars
  <1>2. CASE Person
    <2>1. CASE Draw \/ Move \/ Rotate \/ Select \/ Delete \/ Paste
      <3>1. PICK p : handleChange(p, TRUE)
        BY <2>1 DEF Draw, Move, Rotate, Select, Delete, Paste, edit
      <3> QED BY <3>1 DEF handleChange
    <2>2. CASE Blur
      BY <2>2 DEF Blur, EndInteraction
    <2>3. CASE PointerDown \/ FlushThenPost \/ PostTool \/ PostReturn \/ MenuFlush
               \/ InspectRevision \/ ResetEditorSession
      BY <2>3 DEF PointerDown, FlushThenPost, PostTool, PostReturn, MenuFlush, InspectRevision,
                  ResetEditorSession
    <2> QED BY <1>2, <2>1, <2>2, <2>3 DEF Person
  <1>3. CASE System
    <2>1. CASE FinishNativeUpdate
      BY <2>1 DEF FinishNativeUpdate
    <2>2. CASE CommitChange
      <3>1. PICK p : handleChange(p, FALSE)
        BY <2>2 DEF CommitChange
      <3> QED BY <3>1 DEF handleChange
    <2>3. CASE PointerUp
      BY <2>3 DEF PointerUp, EndInteraction
    <2>4. CASE ReceiveUpdate \/ ReceiveFlush
      BY <2>4 DEF ReceiveUpdate, ReceiveFlush
    <2>5. CASE ReceiveReady \/ ReceiveEvent \/ ReceiveReply \/ HandleReply \/ Observe \/ RunTask
      BY <2>5 DEF ReceiveReady, ReceiveEvent, ReceiveReply, HandleReply, Observe, RunTask
    <2> QED BY <1>3, <2>1, <2>2, <2>3, <2>4, <2>5 DEF System
  <1> QED BY <1>1, <1>2, <1>3 DEF Next

IdentityInvariant ==
    /\ TypeInvariant /\ PublicationIsSound /\ PageFits
    /\ ~raced => IdentitiesHold

\* A step that does not race keeps the identities.
LEMMA StepHolds ==
    ASSUME TypeInvariant, PageFits, IdentitiesHold, [Next]_vars, ~raced'
    PROVE  IdentitiesHold' /\ DraftKeeps
  <1>1. CASE UNCHANGED vars
    BY <1>1, SituationIs DEF vars, IdentitiesHold, posted
  <1>2. CASE Person
    BY <1>2, EditHolds, PointerDownHolds, FlushThenPostHolds, CommandPosts, EndHolds, PanelHolds,
       ResetHolds DEF Person
  <1>3. CASE System
    BY <1>3, FinishHolds, CommitHolds, UpdateHolds, FlushHolds, EndHolds, ReadyHolds, EventHolds,
       HopHolds, ReplyHolds, ObserveHolds, RunHolds DEF System
  <1> QED BY <1>1, <1>2, <1>3 DEF Next

\* The invariant holds at the start and after every step.
LEMMA IdentityInvariantHolds ==
    /\ Init => IdentityInvariant
    /\ IdentityInvariant /\ [Next]_vars => IdentityInvariant'
  <1>1. Init => IdentityInvariant
    BY InitTyped, InitSound, InitFits, IdentitiesInit DEF IdentityInvariant, PublicationIsSound
  <1>2. ASSUME IdentityInvariant, [Next]_vars PROVE IdentityInvariant'
    <2>1. TypeInvariant /\ Sound(publication) /\ PageFits /\ (~raced => IdentitiesHold)
      BY <1>2 DEF IdentityInvariant, PublicationIsSound
    <2>2. TypeInvariant' /\ Sound(publication)' /\ PageFits'
      BY <1>2, <2>1, StepTyped, StepSound, StepFits
    <2>3. ~raced' => IdentitiesHold'
      BY <1>2, <2>1, RacedStays, StepHolds
    <2> QED BY <2>2, <2>3 DEF IdentityInvariant, PublicationIsSound
  <1> QED BY <1>1, <1>2

\* Whatever the person draws, deletes, pastes, undoes or inspects, and however loads,
\* flushes, replies and scenes cross the bridge, an element of the draft keeps its Board ID
\* from one document to the next unless one of the races happened (receiveScene, update,
\* decodeChange and the ledger they keep).
THEOREM IdentityStable == Spec => IdentityIsStable
  <1>1. Init => IdentityInvariant
    BY IdentityInvariantHolds
  <1>2. IdentityInvariant /\ [Next]_vars => IdentityInvariant'
    BY IdentityInvariantHolds
  <1>3. IdentityInvariant /\ [Next]_vars => [IdentityStep]_vars
    <2> SUFFICES ASSUME IdentityInvariant, [Next]_vars, ~raced' PROVE IdentityStep
      BY DEF IdentityStep
    <2>1. TypeInvariant /\ PageFits /\ IdentitiesHold
      BY RacedStays DEF IdentityInvariant
    <2>2. DraftKeeps
      BY <2>1, StepHolds
    <2>3. Agree(draft.document, draft'.document)
      <3> DEFINE D == Documents(draft, coordinator, toPage, page.deferredUpdate)
      <3>1. Agreement(D, acts)
        BY <2>1 DEF IdentitiesHold, Steady
      <3>2. draft.document \in draftDocuments(draft)
        BY DEF draftDocuments
      <3>3. draft.document \in Document /\ draft'.document \in Document
        BY <2>1, StepTyped DEF TypeInvariant, Draft
      <3>4. \A X \in {draft.document, draft'.document} : X \in draftDocuments(draft) => X \in D
        BY <3>3 DEF Documents
      <3> HIDE DEF D
      <3> QED BY <2>2, <3>1, <3>2, <3>4 DEF Agreement, DraftKeeps
    <2> QED BY <2>3 DEF Agree, IdentityStep, ToSet
  <1> QED BY <1>1, <1>2, <1>3, PTL DEF Spec, IdentityIsStable

-----------------------------------------------------------------------------
(* A canvas that shows the document *)

\* The elements of the scene s under the identities g.
reference(s, g, w) ==
    IF \E n \in DOMAIN s : s[n].web = w THEN g[CHOOSE n \in DOMAIN s : s[n].web = w].id ELSE none
documentOf(s, g) ==
    [n \in DOMAIN s |->
        [id |-> g[n].id, type |-> s[n].type, kind |-> s[n].kind, body |-> s[n].body,
         from |-> reference(s, g, s[n].from), ink |-> s[n].ink]]

\* Decoding the scene s over X and l gives X again, in some order.
Settled(s, X, l) == ToSet(documentOf(s, assignedIDs(s, X, l))) = ToSet(X)

\* The document a scene is decoded as.
LEMMA DecodedDocument ==
    ASSUME NEW scene, NEW X, NEW l
    PROVE  decodeChange(scene, X, l).document
             = documentOf(scene.elements, assignedIDs(scene.elements, X, l))
  <1> DEFINE s == scene.elements
             g == assignedIDs(s, X, l)
             webs == {e.web : e \in ToSet(s)}
             at(w) == CHOOSE n \in DOMAIN s : s[n].web = w
             map == [w \in webs |-> g[at(w)].id]
             boardOf(w) == IF w \in DOMAIN map THEN map[w] ELSE none
  <1> HIDE DEF g
  <1>1. decodeChange(scene, X, l).document =
          [n \in DOMAIN s |->
             [id |-> g[n].id, type |-> s[n].type, kind |-> s[n].kind, body |-> s[n].body,
              from |-> boardOf(s[n].from), ink |-> s[n].ink]]
    BY DEF decodeChange, decodedAs, g
  <1>2. \A w : w \in webs <=> \E n \in DOMAIN s : s[n].web = w
    BY DEF ToSet
  <1> HIDE DEF webs, at
  <1>3. \A w : boardOf(w) = IF \E n \in DOMAIN s : s[n].web = w THEN g[at(w)].id ELSE none
    BY <1>2
  <1>4. \A w : boardOf(w) = reference(s, g, w)
    BY <1>3 DEF reference, at
  <1> HIDE DEF boardOf
  <1> QED BY <1>1, <1>4 DEF documentOf, g

\* Only the identities count.
LEMMA SameDocument ==
    ASSUME NEW s, NEW g, NEW h, \A n \in DOMAIN s : g[n].id = h[n].id
    PROVE  documentOf(s, g) = documentOf(s, h)
  <1>1. \A w : reference(s, g, w) = reference(s, h, w)
    <2> SUFFICES ASSUME NEW w, \E n \in DOMAIN s : s[n].web = w PROVE reference(s, g, w) = reference(s, h, w)
      BY DEF reference
    <2> DEFINE k == CHOOSE n \in DOMAIN s : s[n].web = w
    <2>1. k \in DOMAIN s
      OBVIOUS
    <2> QED BY <2>1 DEF reference
  <1> QED BY <1>1 DEF documentOf

\* The IDs h are what assignedID says of every element, given those of the elements before it.
idsBefore(h, n) == {h[m] : m \in 1..n - 1}
Said(s, X, l, h) ==
    \A n \in DOMAIN s :
        \/ claims(s[n], idsBefore(h, n), X) /\ h[n] = s[n].board
        \/ /\ ~claims(s[n], idsBefore(h, n), X) /\ recalls(s[n], idsBefore(h, n), X, l)
           /\ h[n] = l[s[n].web]

\* Identities that are as assignedID says are those assigned.
LEMMA AssignedAsSaid ==
    ASSUME NEW s \in Seq(SceneElement), NEW X \in Seq(Element), NEW l, IDLedger(l),
           NEW h, NEW g, g = assignedIDs(s, X, l),
           Said(s, X, l, h)
    PROVE  \A n \in DOMAIN s : g[n].id = h[n]
  <1>0. DOMAIN s = 1..Len(s) /\ Len(s) \in Nat
    OBVIOUS
  <1> DEFINE bad == {n \in DOMAIN s : g[n].id # h[n]}
  <1> SUFFICES ASSUME bad # {} PROVE FALSE
    OBVIOUS
  <1>1. PICK n \in bad : \A m \in bad : n <= m
    <2>1. bad \in SUBSET Nat
      BY <1>0
    <2> HIDE DEF bad
    <2> QED BY <2>1, SmallestExists
  <1>2. n \in DOMAIN s /\ n \in Nat /\ g[n].id # h[n]
    BY <1>0, <1>1
  <1>3. \A m \in 1..n - 1 : g[m].id = h[m]
    <2> SUFFICES ASSUME NEW m \in 1..n - 1 PROVE g[m].id = h[m]
      OBVIOUS
    <2>1. m \in DOMAIN s /\ ~(n <= m)
      BY <1>0, <1>2
    <2>2. m \notin bad
      BY <1>1, <2>1
    <2> QED BY <2>1, <2>2
  <1> DEFINE used == idsBefore(h, n)
             e == s[n]
  <1>4. taken(g, n) = used
    BY <1>3 DEF taken, idsBefore
  <1> HIDE DEF bad, used
  <1>5. /\ claims(e, used, X) => g[n].id = e.board
        /\ ~claims(e, used, X) /\ recalls(e, used, X, l) => g[n].id = l[e.web]
    BY <1>2, <1>4, AssignedIs
  <1>6. \/ claims(e, used, X) /\ h[n] = e.board
        \/ ~claims(e, used, X) /\ recalls(e, used, X, l) /\ h[n] = l[e.web]
    BY <1>2 DEF used, Said
  <1> QED BY <1>2, <1>5, <1>6

\* A scene that was decoded as Y, whose ledger is m, is decoded as Y again.
LEMMA DecodesAgain ==
    ASSUME NEW s \in Seq(SceneElement), NEW Y \in Document, DOMAIN Y = DOMAIN s, NEW m, IDLedger(m),
           \A n \in DOMAIN s :
              /\ Y[n].type = s[n].type
              /\ s[n].board # none => \E i \in DOMAIN s : i <= n /\ Y[i].id = s[n].board
              /\ s[n].web \in DOMAIN m /\ m[s[n].web] = Y[n].id
    PROVE  \A n \in DOMAIN s : assignedIDs(s, Y, m)[n].id = Y[n].id
  <1> DEFINE h == [n \in DOMAIN s |-> Y[n].id]
             g == assignedIDs(s, Y, m)
  <1>0. DOMAIN s = 1..Len(s) /\ Len(s) \in Nat /\ Y \in Seq(Element) /\ DistinctIDs(Y)
    BY DEF Document
  <1>1. ASSUME NEW n \in DOMAIN s
        PROVE  \/ claims(s[n], idsBefore(h, n), Y) /\ h[n] = s[n].board
               \/ /\ ~claims(s[n], idsBefore(h, n), Y) /\ recalls(s[n], idsBefore(h, n), Y, m)
                  /\ h[n] = m[s[n].web]
    <2> DEFINE used == idsBefore(h, n)
               e == s[n]
    <2>1. n \in Nat /\ \A i \in 1..n - 1 : i \in DOMAIN s
      BY <1>0
    <2>2. \A i \in DOMAIN s : Y[i].id \in ids(Y) /\ typeIn(Y, Y[i].id) = s[i].type
      BY <1>0, TypeInIs
    <2>3. \A i \in DOMAIN s : Y[i].id \in used <=> i < n
      <3>1. \A i, j \in DOMAIN s : i # j => Y[i].id # Y[j].id
        BY <1>0 DEF DistinctIDs
      <3>2. \A i \in 1..n - 1 : h[i] = Y[i].id
        BY <2>1
      <3> HIDE DEF h
      <3>3. used = {Y[i].id : i \in 1..n - 1}
        BY <3>2 DEF idsBefore
      <3> HIDE DEF used
      <3> TAKE i \in DOMAIN s
      <3>4. i < n => Y[i].id \in used
        BY <1>0, <2>1, <3>3
      <3>5. Y[i].id \in used => i < n
        <4> SUFFICES ASSUME Y[i].id \in used PROVE i < n
          OBVIOUS
        <4>1. PICK j \in 1..n - 1 : Y[i].id = Y[j].id
          BY <3>3
        <4>2. i = j
          BY <2>1, <3>1, <4>1
        <4> QED BY <2>1, <4>1, <4>2
      <3> QED BY <3>4, <3>5
    <2>4. e.web \in DOMAIN m /\ m[e.web] = Y[n].id
      OBVIOUS
    <2> HIDE DEF used
    <2>5. recalls(e, used, Y, m)
      BY <2>1, <2>2, <2>3, <2>4 DEF recalls, fitsIn
    <2>6. claims(e, used, Y) => e.board = Y[n].id
      <3> SUFFICES ASSUME claims(e, used, Y) PROVE e.board = Y[n].id
        OBVIOUS
      <3>1. e.board \in ids(Y) /\ e.board \notin used
        BY DEF claims
      <3>2. \A x \in Element : x.id # none
        BY NoneIsNoID DEF Element
      <3>3. e.board # none
        <4>1. \A i \in DOMAIN Y : Y[i] \in Element
          BY <1>0
        <4>2. ids(Y) = {Y[i].id : i \in DOMAIN Y}
          BY <1>0, IdsAreFinite
        <4> QED BY <3>1, <3>2, <4>1, <4>2
      <3>4. PICK i \in DOMAIN s : i <= n /\ Y[i].id = e.board
        BY <3>3
      <3>5. ~(i < n)
        BY <2>3, <3>1, <3>4
      <3>6. i = n
        BY <1>0, <2>1, <3>4, <3>5
      <3> QED BY <3>4, <3>6
    <2> QED BY <2>4, <2>5, <2>6 DEF used
  <1> HIDE DEF h
  <1>2. g = assignedIDs(s, Y, m)
    OBVIOUS
  <1> HIDE DEF g
  <1>3. Said(s, Y, m, h)
    BY <1>1 DEF Said
  <1>4. \A n \in DOMAIN s : g[n].id = h[n]
    BY <1>0, <1>2, <1>3, AssignedAsSaid
  <1> QED BY <1>2, <1>4 DEF h

\* What is drawn as e is decoded as e.
LEMMA DrawnShows ==
    ASSUME NEW e \in Element, e.type = "box" => e.kind # "none", NEW c, drawnAs(c, e)
    PROVE  /\ shows(c)
           /\ normalized(c).type = e.type /\ normalized(c).web = e.id /\ normalized(c).board = e.id
           /\ normalized(c).kind = e.kind /\ normalized(c).body = e.body
           /\ normalized(c).from = e.from /\ normalized(c).ink = e.ink
  <1>1. e.type \in NativeTypes
    BY DEF Element
  <1>2. nativeType(c.shape) # "unsupported"
    BY <1>1 DEF drawnAs, NativeTypes
  <1>3. shows(c)
    BY <1>2 DEF shows, isSupported, drawnAs
  <1> QED BY <1>3 DEF normalized, drawnAs

\* A canvas that was just replaced by the document shows it, whatever the ledger.
LEMMA SettledLoads ==
    ASSUME NEW X \in Document, NEW c, Canonical(c, X), NEW l, IDLedger(l)
    PROVE  Settled(visible(c), X, l)
  <1> DEFINE s == visible(c)
             r == renderOrder(X)
             g == assignedIDs(s, X, l)
             h == [n \in DOMAIN s |-> s[n].board]
             D == documentOf(s, g)
  <1>1. /\ X \in Seq(Element) /\ DistinctIDs(X) /\ Whole(X)
        /\ c \in Seq(CanvasElement) /\ DOMAIN c = DOMAIN r /\ \A n \in DOMAIN r : drawnAs(c[n], r[n])
    BY DEF Document, Canonical
  <1>2. /\ r \in Seq(Element) /\ DistinctIDs(r)
        /\ \A k \in DOMAIN r : \E n \in DOMAIN X : r[k] = X[n]
        /\ \A n \in DOMAIN X : \E k \in DOMAIN r : r[k] = X[n]
    BY <1>1, RenderOrderIs
  <1>3. s \in Seq(SceneElement)
    BY <1>1, VisibleIs
  <1>4. PICK at \in [DOMAIN s -> DOMAIN c] :
           /\ \A k \in DOMAIN s : shows(c[at[k]]) /\ s[k] = normalized(c[at[k]])
           /\ \A j, k \in DOMAIN s : j < k => at[j] < at[k]
    BY <1>1, VisibleIs
  <1>5. \A n \in DOMAIN c : shows(c[n]) => \E k \in DOMAIN s : s[k] = normalized(c[n])
    BY <1>1, VisibleIs
  <1> HIDE DEF s, r
  <1>6. \A n \in DOMAIN r : /\ r[n] \in Element /\ (r[n].type = "box" => r[n].kind # "none")
                            /\ r[n].from = none \/ \E m \in DOMAIN X : r[n].from = X[m].id
    BY <1>1, <1>2 DEF Whole
  <1>7. \A n \in DOMAIN r : LET e == normalized(c[n])
                            IN /\ shows(c[n]) /\ e.type = r[n].type /\ e.web = r[n].id /\ e.board = r[n].id
                               /\ e.kind = r[n].kind /\ e.body = r[n].body
                               /\ e.from = r[n].from /\ e.ink = r[n].ink
    BY <1>1, <1>6, DrawnShows
  <1>8. \A k \in DOMAIN s : /\ at[k] \in DOMAIN r /\ s[k].type = r[at[k]].type /\ s[k].web = r[at[k]].id
                            /\ s[k].board = r[at[k]].id
                            /\ s[k].kind = r[at[k]].kind /\ s[k].body = r[at[k]].body
                            /\ s[k].from = r[at[k]].from /\ s[k].ink = r[at[k]].ink
    BY <1>1, <1>4, <1>7
  <1>9. \A n \in DOMAIN r : \E k \in DOMAIN s : s[k].web = r[n].id
    BY <1>1, <1>5, <1>7
  <1>10. DOMAIN s = 1..Len(s) /\ Len(s) \in Nat
    BY <1>3
  <1>11. \A j, k \in DOMAIN s : j < k => s[j].board # s[k].board
    <2> SUFFICES ASSUME NEW j \in DOMAIN s, NEW k \in DOMAIN s, j < k PROVE s[j].board # s[k].board
      OBVIOUS
    <2>1. at[j] < at[k] /\ at[j] \in DOMAIN r /\ at[k] \in DOMAIN r
      BY <1>4, <1>8
    <2>2. at[j] \in Nat /\ at[k] \in Nat
      BY <1>2, <2>1
    <2>3. at[j] # at[k]
      BY <2>1, <2>2
    <2> QED BY <1>2, <1>8, <2>1, <2>3 DEF DistinctIDs
  <1>12. Said(s, X, l, h)
    <2> SUFFICES ASSUME NEW n \in DOMAIN s PROVE claims(s[n], idsBefore(h, n), X)
      BY DEF Said
    <2>1. PICK m \in DOMAIN X : r[at[n]] = X[m]
      BY <1>2, <1>8
    <2>2. X[m].id \in ids(X) /\ typeIn(X, X[m].id) = X[m].type
      BY <1>1, TypeInIs
    <2>3. s[n].board = X[m].id /\ s[n].type = X[m].type
      BY <1>8, <2>1
    <2>4. s[n].board \notin idsBefore(h, n)
      <3>1. \A j \in 1..n - 1 : j \in DOMAIN s /\ j < n
        BY <1>10
      <3>2. \A j \in 1..n - 1 : h[j] # s[n].board
        BY <1>11, <3>1
      <3> HIDE DEF h
      <3> QED BY <3>2 DEF idsBefore
    <2> QED BY <2>2, <2>3, <2>4 DEF claims, fitsIn
  <1>13. g = assignedIDs(s, X, l)
    OBVIOUS
  <1> HIDE DEF g, h
  <1>14. \A n \in DOMAIN s : g[n].id = h[n]
    BY <1>1, <1>3, <1>12, <1>13, AssignedAsSaid
  <1>15. \A n \in DOMAIN s : g[n].id = s[n].web
    BY <1>8, <1>14 DEF h
  <1>16. \A k \in DOMAIN s : reference(s, g, s[k].from) = s[k].from
    <2> SUFFICES ASSUME NEW k \in DOMAIN s PROVE reference(s, g, s[k].from) = s[k].from
      OBVIOUS
    <2> DEFINE w == s[k].from
               j == CHOOSE n \in DOMAIN s : s[n].web = w
    <2>1. CASE w = none
      <3>1. \A n \in DOMAIN s : s[n].web # none
        BY <1>3, NoneIsNoID DEF SceneElement
      <3> QED BY <2>1, <3>1 DEF reference
    <2>2. CASE w # none
      <3>1. PICK m \in DOMAIN X : w = X[m].id
        BY <1>6, <1>8, <2>2
      <3>2. \E n \in DOMAIN s : s[n].web = w
        BY <1>2, <1>9, <3>1
      <3>3. j \in DOMAIN s /\ s[j].web = w
        BY <3>2
      <3> QED BY <1>15, <3>2, <3>3 DEF reference
    <2> QED BY <2>1, <2>2
  <1>17. DOMAIN D = DOMAIN s /\ \A k \in DOMAIN s : D[k] = r[at[k]]
    <2>1. DOMAIN D = DOMAIN s
      BY DEF documentOf
    <2> SUFFICES ASSUME NEW k \in DOMAIN s PROVE D[k] = r[at[k]]
      BY <2>1
    <2> DEFINE e == r[at[k]]
    <2>2. e \in Element
      BY <1>6, <1>8
    <2>3. e = [id |-> e.id, type |-> e.type, kind |-> e.kind, body |-> e.body, from |-> e.from, ink |-> e.ink]
      BY <2>2 DEF Element
    <2> QED BY <1>8, <1>15, <1>16, <2>3 DEF documentOf
  <1> HIDE DEF D
  <1>18. \A n \in DOMAIN X : \E k \in DOMAIN s : D[k] = X[n]
    <2> SUFFICES ASSUME NEW n \in DOMAIN X PROVE \E k \in DOMAIN s : D[k] = X[n]
      OBVIOUS
    <2>1. PICK i \in DOMAIN r : r[i] = X[n]
      BY <1>2
    <2>2. PICK k \in DOMAIN s : s[k].web = r[i].id
      BY <1>9
    <2>3. at[k] = i
      BY <1>2, <1>8, <2>2 DEF DistinctIDs
    <2> QED BY <1>17, <2>1, <2>3
  <1>19. \A k \in DOMAIN s : \E n \in DOMAIN X : D[k] = X[n]
    BY <1>2, <1>8, <1>17
  <1>20. ToSet(D) = ToSet(X)
    BY <1>17, <1>18, <1>19 DEF ToSet
  <1> QED BY <1>13, <1>20 DEF Settled, D, s

\* The ledger may forget what the document has no more.
LEMMA SettledPrunes ==
    ASSUME NEW s \in Seq(SceneElement), NEW X \in Document, NEW l \in IDLedgers, Settled(s, X, l)
    PROVE  Settled(s, X, keeping(l, ids(X)))
  <1> DEFINE k == keeping(l, ids(X))
             g == assignedIDs(s, X, l)
             h == [n \in DOMAIN s |-> g[n].id]
             f == assignedIDs(s, X, k)
  <1>1. X \in Seq(Element) /\ IDLedger(l)
    BY LedgerIs DEF Document
  <1>2. /\ k \in IDLedgers /\ DOMAIN k = {w \in DOMAIN l : l[w] \in ids(X)}
        /\ \A w \in DOMAIN k : k[w] = l[w]
    BY KeepingIs
  <1> HIDE DEF k
  <1>3. IDLedger(k)
    BY <1>2, LedgerIs
  <1>4. \A n \in DOMAIN s : g[n].id \in ids(X)
    <2> SUFFICES ASSUME NEW n \in DOMAIN s PROVE g[n].id \in ids(X)
      OBVIOUS
    <2> DEFINE D == documentOf(s, g)
    <2>1. D[n].id = g[n].id /\ n \in DOMAIN D
      BY DEF documentOf
    <2>2. ToSet(D) = ToSet(X)
      BY DEF Settled
    <2> HIDE DEF D
    <2>3. D[n] \in ToSet(X)
      BY <2>1, <2>2 DEF ToSet
    <2> QED BY <2>1, <2>3 DEF ids
  <1>5. \A n \in DOMAIN s :
           LET e == s[n]  used == taken(g, n)
           IN /\ claims(e, used, X) => g[n].id = e.board
              /\ ~claims(e, used, X) /\ recalls(e, used, X, l) => g[n].id = l[e.web]
              /\ ~claims(e, used, X) /\ ~recalls(e, used, X, l) => g[n].id \notin ids(X)
    BY <1>1, AssignedIs
  <1>6. Said(s, X, k, h)
    <2> SUFFICES ASSUME NEW n \in DOMAIN s
                 PROVE  \/ claims(s[n], idsBefore(h, n), X) /\ h[n] = s[n].board
                        \/ /\ ~claims(s[n], idsBefore(h, n), X) /\ recalls(s[n], idsBefore(h, n), X, k)
                           /\ h[n] = k[s[n].web]
      BY DEF Said
    <2>1. idsBefore(h, n) = taken(g, n)
      <3>1. DOMAIN s = 1..Len(s) /\ Len(s) \in Nat
        OBVIOUS
      <3>2. \A m \in 1..n - 1 : h[m] = g[m].id
        BY <3>1
      <3> HIDE DEF h, g
      <3> QED BY <3>2 DEF idsBefore, taken
    <2> DEFINE e == s[n]  used == taken(g, n)
    <2>2. h[n] = g[n].id
      OBVIOUS
    <2> HIDE DEF g, h
    <2>3. CASE claims(e, used, X)
      BY <1>5, <2>1, <2>2, <2>3
    <2>4. CASE ~claims(e, used, X)
      <3>1. recalls(e, used, X, l) /\ g[n].id = l[e.web]
        BY <1>4, <1>5, <2>4
      <3>2. e.web \in DOMAIN k /\ k[e.web] = l[e.web]
        BY <1>2, <1>4, <3>1 DEF recalls
      <3>3. recalls(e, used, X, k)
        BY <3>1, <3>2 DEF recalls
      <3> QED BY <2>1, <2>2, <2>4, <3>1, <3>2, <3>3
    <2> QED BY <2>3, <2>4
  <1>7. f = assignedIDs(s, X, k)
    OBVIOUS
  <1>8. \A n \in DOMAIN s : h[n] = g[n].id
    OBVIOUS
  <1>9. ToSet(documentOf(s, g)) = ToSet(X)
    BY DEF Settled
  <1> HIDE DEF f, g, h
  <1>10. \A n \in DOMAIN s : f[n].id = h[n]
    BY <1>1, <1>3, <1>6, <1>7, AssignedAsSaid
  <1>11. documentOf(s, f) = documentOf(s, g)
    BY <1>8, <1>10, SameDocument
  <1> QED BY <1>7, <1>9, <1>11 DEF Settled, k

\* A scene that was accepted shows the document it was decoded as.
LEMMA SettledDecodes ==
    ASSUME NEW scene \in Scene, NEW s, s = scene.elements, NEW X \in Document, NEW l \in IDLedgers,
           NEW d, d = decodeChange(scene, X, l), NEW m \in IDLedgers, Decoded(s, X, l, d.document, m)
    PROVE  Settled(s, d.document, m)
  <1> DEFINE Y == d.document
             g == assignedIDs(s, X, l)
             f == assignedIDs(s, Y, m)
  <1>1. s \in Seq(SceneElement) /\ X \in Seq(Element) /\ IDLedger(l) /\ IDLedger(m)
    BY LedgerIs DEF Scene, Bounded, Document
  <1>2. Y = documentOf(s, g)
    BY DecodedDocument
  <1>3. Y \in Document
    BY DecodedTyped
  <1>4. DOMAIN Y = DOMAIN s /\ \A n \in DOMAIN s :
              /\ Y[n].type = s[n].type
              /\ s[n].board # none => \E i \in DOMAIN s : i <= n /\ Y[i].id = s[n].board
              /\ s[n].web \in DOMAIN m /\ m[s[n].web] = Y[n].id
    BY DEF Decoded
  <1>5. \A n \in DOMAIN s : Y[n].id = g[n].id
    BY <1>2 DEF documentOf
  <1>6. f = assignedIDs(s, Y, m)
    OBVIOUS
  <1> HIDE DEF Y, f, g
  <1>7. \A n \in DOMAIN s : f[n].id = Y[n].id
    BY <1>1, <1>3, <1>4, <1>6, DecodesAgain
  <1>8. documentOf(s, f) = documentOf(s, g)
    BY <1>5, <1>7, SameDocument
  <1> QED BY <1>2, <1>6, <1>8 DEF Settled, Y

-----------------------------------------------------------------------------
(* The canvas, the Board and what is between them *)

\* The last scene in ms has the elements W.
Ends(ms, W) ==
    \A i \in Scenes(ms) : (\A j \in Scenes(ms) : j <= i) => ms[i].scene.elements = W

\* The coordinator has the Board of W, or will have it from the last scene; or the canvas is
\* about to be replaced.
Conveyed(c, calls, u, ms, W) ==
    /\ Ends(ms, W)
    /\ Scenes(ms) = {} =>
          \/ c.task.task = "load" \/ ComingIn(calls, u) \/ c.lastLoaded # <<c.snapshot.document>>
          \/ Settled(W, c.snapshot.document, c.boardIDsByWebID)

\* The page has still to get its first document.
Awaits(c, calls, u, ms) == Scenes(ms) = {} /\ (c.lastLoaded = <<>> \/ ComingIn(calls, u))

\* What the publication q knows as adopted, the coordinator will know.
Acknowledged(q, c, calls, u, ms) ==
    q.adopted # none => (q.adopted.shows # none => Conveyed(c, calls, u, ms, q.adopted.shows.elements))

\* When nothing is pending, the canvas v is what was adopted.
Reflects(q, v) ==
    q.pending = none => q.adopted # none /\ q.adopted.shows # none /\ q.adopted.shows.elements = visible(v)

\* The page p, with its publication q, is in step with the coordinator.
Balanced(p, q, c, calls, ms) ==
    /\ p.loading \/ q.adopted # none
    /\ p.loading /\ ~p.finishing => ~p.hasLoaded /\ Awaits(c, calls, p.deferredUpdate, ms)
    /\ Acknowledged(q, c, calls, p.deferredUpdate, ms)
    /\ ~p.loading => Reflects(q, p.canvas)
    /\ p.finishing /\ ~p.received => Conveyed(c, calls, p.deferredUpdate, ms, visible(p.canvas))

\* What was conveyed stays conveyed.
Conveys(c, calls, u, ms, k, called, w, ns) ==
    /\ \A W \in Seq(SceneElement) : Conveyed(c, calls, u, ms, W) => Conveyed(k, called, w, ns, W)
    /\ Awaits(c, calls, u, ms) => Awaits(k, called, w, ns)

\* A scene that is not the last goes without a trace; with the last one, all are gone.
LEMMA GoneEnds ==
    ASSUME NEW ms \in Seq(Event), NEW ns \in Seq(Event), NEW f, Fewer(ns, ms, f), NEW h, Others(ns, ms, f, h),
           carriesScene(ms[h]) => \A i \in DOMAIN ns : h < f[i], NEW W, Ends(ms, W)
    PROVE  /\ Ends(ns, W)
           /\ Scenes(ns) = {} => \A i \in Scenes(ms) : i = h /\ ms[i].scene.elements = W
  <1>1. /\ DOMAIN ms = 1..Len(ms) /\ DOMAIN ns = 1..Len(ns)
        /\ \A i \in DOMAIN ns : f[i] \in DOMAIN ms /\ ns[i] = ms[f[i]]
        /\ \A i, j \in DOMAIN ns : i < j => f[i] < f[j]
    BY DEF Fewer
  <1>2. \A i \in Scenes(ns) : i \in DOMAIN ns /\ f[i] \in Scenes(ms)
    BY <1>1 DEF Scenes
  <1>3. Ends(ns, W)
    <2> SUFFICES ASSUME NEW i \in Scenes(ns), \A j \in Scenes(ns) : j <= i
                 PROVE  ns[i].scene.elements = W
      BY DEF Ends
    <2>1. \A k \in Scenes(ms) : k <= f[i]
      <3> SUFFICES ASSUME NEW k \in Scenes(ms) PROVE k <= f[i]
        OBVIOUS
      <3>1. k \in DOMAIN ms /\ carriesScene(ms[k]) /\ k \in Int /\ f[i] \in Int
        BY <1>1, <1>2 DEF Scenes
      <3>2. CASE k = h
        <4>1. h < f[i]
          BY <1>2, <3>1, <3>2
        <4> QED BY <3>1, <3>2, <4>1
      <3>3. CASE k # h
        <4>1. PICK j \in DOMAIN ns : f[j] = k
          BY <3>1, <3>3 DEF Others
        <4>2. j \in Scenes(ns)
          BY <1>1, <3>1, <4>1 DEF Scenes
        <4>3. j <= i /\ i \in DOMAIN ns /\ i \in Int /\ j \in Int
          BY <1>1, <1>2, <4>2
        <4>4. j < i \/ j = i
          BY <4>3
        <4>5. j < i => f[j] < f[i]
          BY <1>1, <4>3, <4>1
        <4> QED BY <3>1, <4>1, <4>4, <4>5
      <3> QED BY <3>2, <3>3
    <2>2. ms[f[i]].scene.elements = W
      BY <1>2, <2>1 DEF Ends
    <2> QED BY <1>1, <1>2, <2>2
  <1>4. ASSUME Scenes(ns) = {}, NEW i \in Scenes(ms) PROVE i = h
    <2> SUFFICES ASSUME i # h PROVE FALSE
      OBVIOUS
    <2>1. i \in DOMAIN ms /\ carriesScene(ms[i])
      BY DEF Scenes
    <2>2. PICK j \in DOMAIN ns : f[j] = i
      BY <2>1 DEF Others
    <2>3. j \in Scenes(ns)
      BY <1>1, <2>1, <2>2 DEF Scenes
    <2> QED BY <1>4, <2>3
  <1>5. ASSUME Scenes(ns) = {}, NEW i \in Scenes(ms) PROVE ms[i].scene.elements = W
    <2>1. \A j \in Scenes(ms) : j <= i
      <3>1. \A j \in Scenes(ms) : j = h /\ j \in Int
        BY <1>1, <1>4, <1>5 DEF Scenes
      <3> QED BY <3>1
    <2> QED BY <2>1 DEF Ends
  <1> QED BY <1>3, <1>4, <1>5

\* A scene is posted last; another message makes no difference.
LEMMA PostedEnds ==
    ASSUME NEW ms \in Seq(Event), NEW m \in Event, NEW ns, ns = Append(ms, m)
    PROVE  /\ carriesScene(m) => Scenes(ns) # {} /\ Ends(ns, m.scene.elements)
           /\ ~carriesScene(m) => Scenes(ns) = Scenes(ms) /\ \A W : Ends(ms, W) => Ends(ns, W)
  <1> DEFINE N == Len(ms)
  <1>1. /\ N \in Nat /\ DOMAIN ms = 1..N /\ DOMAIN ns = 1..N + 1 /\ ns[N + 1] = m
        /\ \A i \in 1..N : ns[i] = ms[i]
    OBVIOUS
  <1> HIDE DEF N
  <1>2. ASSUME carriesScene(m) PROVE Scenes(ns) # {} /\ Ends(ns, m.scene.elements)
    <2>1. N + 1 \in Scenes(ns)
      BY <1>1, <1>2 DEF Scenes
    <2>2. \A i \in Scenes(ns) : i \in 1..N + 1
      BY <1>1 DEF Scenes
    <2>3. \A i \in Scenes(ns) : N + 1 <= i => i = N + 1
      BY <1>1, <2>2
    <2> QED BY <1>1, <2>1, <2>3 DEF Ends
  <1>3. ASSUME ~carriesScene(m) PROVE Scenes(ns) = Scenes(ms) /\ \A W : Ends(ms, W) => Ends(ns, W)
    <2>1. \A i : i \in Scenes(ns) <=> i \in Scenes(ms)
      <3>1. \A i \in 1..N + 1 : i = N + 1 \/ i \in 1..N
        BY <1>1
      <3>2. \A i \in 1..N : i \in 1..N + 1
        BY <1>1
      <3> QED BY <1>1, <1>3, <3>1, <3>2 DEF Scenes
    <2>2. \A i \in Scenes(ms) : ns[i] = ms[i]
      BY <1>1 DEF Scenes
    <2> QED BY <2>1, <2>2 DEF Ends
  <1> QED BY <1>2, <1>3

\* While no scene is on its way, whatever is to be replaced is conveyed.
LEMMA NothingEnds ==
    ASSUME NEW ms, Scenes(ms) = {}, NEW W, NEW c, NEW calls, NEW u,
           \/ c.task.task = "load" \/ ComingIn(calls, u) \/ c.lastLoaded # <<c.snapshot.document>>
           \/ Settled(W, c.snapshot.document, c.boardIDsByWebID)
    PROVE  Conveyed(c, calls, u, ms, W)
  BY DEF Conveyed, Ends

\* Whatever the canvas shows, a page that awaits its first document has conveyed it.
LEMMA AwaitsConveys ==
    ASSUME NEW c, NEW calls, NEW u, NEW ms, Awaits(c, calls, u, ms), NEW W
    PROVE  Conveyed(c, calls, u, ms, W)
  <1>1. <<>> # <<c.snapshot.document>>
    OBVIOUS
  <1> QED BY <1>1 DEF Awaits, Conveyed, Ends

\* What is adopted, and what the canvas shows.
LEMMA ElementsAre ==
    /\ \A p \in Page : visible(p.canvas) \in Seq(SceneElement)
    /\ \A q \in Publication : q.adopted # none /\ q.adopted.shows # none =>
          q.adopted.shows.elements \in Seq(SceneElement)
  <1>1. ASSUME NEW p \in Page PROVE visible(p.canvas) \in Seq(SceneElement)
    <2>1. p.canvas \in Seq(CanvasElement)
      BY DEF Page, Bounded
    <2> QED BY <2>1, VisibleIs
  <1>2. ASSUME NEW q \in Publication, q.adopted # none, q.adopted.shows # none
        PROVE  q.adopted.shows.elements \in Seq(SceneElement)
    <2>1. q.adopted \in [revision : Revision, shows : Scene \cup {none}]
      BY <1>2 DEF Publication
    <2>2. q.adopted.shows \in Scene
      BY <1>2, <2>1
    <2> QED BY <2>2 DEF Scene, Bounded
  <1> QED BY <1>1, <1>2

\* What was conveyed stays so, and the page stays as it is.
LEMMA BalancedPasses ==
    ASSUME NEW p \in Page, NEW q \in Publication, NEW c, NEW calls, NEW ms, Balanced(p, q, c, calls, ms),
           NEW r, NEW t, NEW k, NEW called, NEW ns,
           Conveys(c, calls, p.deferredUpdate, ms, k, called, r.deferredUpdate, ns),
           r.loading = p.loading, r.finishing = p.finishing, r.hasLoaded = p.hasLoaded,
           r.canvas = p.canvas, p.received => r.received,
           t.pending = q.pending, t.adopted = q.adopted
    PROVE  Balanced(r, t, k, called, ns)
  <1>1. visible(p.canvas) \in Seq(SceneElement)
        /\ (q.adopted # none /\ q.adopted.shows # none => q.adopted.shows.elements \in Seq(SceneElement))
    BY ElementsAre
  <1>2. r.loading \/ t.adopted # none
    BY DEF Balanced
  <1>3. r.loading /\ ~r.finishing => ~r.hasLoaded /\ Awaits(k, called, r.deferredUpdate, ns)
    BY DEF Balanced, Conveys
  <1>4. Acknowledged(t, k, called, r.deferredUpdate, ns)
    BY <1>1 DEF Balanced, Acknowledged, Conveys
  <1>5. ~r.loading => Reflects(t, r.canvas)
    BY DEF Balanced, Reflects
  <1>6. r.finishing /\ ~r.received => Conveyed(k, called, r.deferredUpdate, ns, visible(r.canvas))
    BY <1>1 DEF Balanced, Conveys
  <1> QED BY <1>2, <1>3, <1>4, <1>5, <1>6 DEF Balanced

\* The coordinator knows what it knew, and the same is on its way.
LEMMA ConveysSame ==
    ASSUME NEW c, NEW calls, NEW u, NEW ms, NEW k, NEW called, NEW w, NEW ns,
           k.task.task = c.task.task, k.lastLoaded = c.lastLoaded,
           k.snapshot.document = c.snapshot.document, k.boardIDsByWebID = c.boardIDsByWebID,
           ComingIn(calls, u) => ComingIn(called, w),
           Scenes(ns) = {} <=> Scenes(ms) = {}, \A W : Ends(ms, W) => Ends(ns, W)
    PROVE  Conveys(c, calls, u, ms, k, called, w, ns)
  BY DEF Conveys, Conveyed, Awaits

\* What is pending is published, or known to be what was adopted.
LEMMA PublishReflects ==
    ASSUME NEW q \in Publication, q.pending # none, q.adopted # none, ~coincides(q),
           NEW v, visible(q.pending.elements) = visible(v),
           NEW c, NEW calls, NEW u, NEW ms \in Seq(Event), Acknowledged(q, c, calls, u, ms),
           NEW ns, ns = IF publishes(q) THEN Append(ms, event("scene", "none", prepare(q.pending))) ELSE ms,
           NEW t, t = publishPendingScene(q)
    PROVE  t.adopted # none /\ Acknowledged(t, c, calls, u, ns) /\ Reflects(t, v)
  <1>1. q.pending \in CanvasScene
    BY DEF Publication
  <1>2. prepare(q.pending) \in Scene /\ prepare(q.pending).elements = visible(v)
    BY <1>1, PrepareTyped
  <1>3. prepare(q.pending) # none
    <2> DEFINE m == event("scene", "none", prepare(q.pending))
    <2>1. m \in SceneEvent /\ m.scene = prepare(q.pending)
      BY <1>2 DEF event, SceneEvent
    <2> QED BY <2>1, EventKinds
  <1>4. CASE publishes(q)
    <2> DEFINE m == event("scene", "none", prepare(q.pending))
    <2>1. m \in Event /\ carriesScene(m) /\ m.scene = prepare(q.pending)
      BY <1>2, <1>3, EventKinds DEF event, SceneEvent, carriesScene
    <2>2. ns = Append(ms, m)
      BY <1>4
    <2>3. t.pending = none /\ t.adopted = adopt(q.pending)
      BY <1>4 DEF publishPendingScene, Publication
    <2>4. t.adopted # none /\ t.adopted.shows = prepare(q.pending)
      BY <1>1, <2>3, AdoptedIs DEF adopt
    <2> HIDE DEF m
    <2>5. m.scene.elements = visible(v)
      BY <1>2, <2>1
    <2>6. Scenes(ns) # {} /\ Ends(ns, m.scene.elements)
      BY <2>1, <2>2, PostedEnds
    <2>7. Ends(ns, visible(v))
      BY <2>5, <2>6
    <2> QED BY <1>2, <1>3, <2>3, <2>4, <2>6, <2>7 DEF Acknowledged, Conveyed, Reflects
  <1>5. CASE ~publishes(q)
    <2>1. t.pending = none /\ t.adopted = q.adopted
      BY <1>5 DEF publishPendingScene, Publication
    <2>2. prepare(q.pending) = q.adopted.shows
      BY <1>5 DEF coincides
    <2> QED BY <1>2, <1>3, <1>5, <2>1, <2>2 DEF Acknowledged, Reflects
  <1> QED BY <1>4, <1>5

\* ms, after s is accepted.
posting(q, s, ms) ==
    IF accepted(q, s) # <<>> THEN Append(ms, event("scene", "none", prepare(s))) ELSE ms

\* The same of a scene that is accepted, or held back by a gesture.
LEMMA AcceptReflects ==
    ASSUME NEW q \in Publication, NEW s \in CanvasScene, ~q.active => q.adopted # none,
           NEW o, o = [q EXCEPT !.pending = s], ~q.active => ~coincides(o),
           NEW v, visible(s.elements) = visible(v),
           NEW c, NEW calls, NEW u, NEW ms \in Seq(Event), Acknowledged(q, c, calls, u, ms),
           NEW ns, ns = posting(q, s, ms),
           NEW t, t = acceptScene(q, s)
    PROVE  /\ q.adopted # none => t.adopted # none
           /\ Acknowledged(t, c, calls, u, ns) /\ Reflects(t, v)
  <1>1. o \in Publication /\ o.pending = s /\ o.adopted = q.adopted /\ o.active = q.active /\ s # none
    <2>1. s # none
      <3>1. adopt(s) # none /\ prepare(s) \in Scene
        BY AdoptedIs, PrepareTyped
      <3>2. s.elements \in Bounded(CanvasElement) /\ DOMAIN s = {"elements", "appState"}
        BY DEF CanvasScene
      <3>3. DOMAIN none = {"is"}
        BY DEF none
      <3> QED BY <3>2, <3>3
    <2> QED BY <2>1 DEF Publication
  <1>2. CASE q.active
    <2>1. t = o /\ accepted(q, s) = <<>>
      BY <1>2 DEF acceptScene, accepted
    <2> QED BY <1>1, <2>1 DEF posting, Acknowledged, Reflects
  <1>3. CASE ~q.active
    <2>1. t = publishPendingScene(o) /\ accepted(q, s) = published(o)
      BY <1>3 DEF acceptScene, accepted
    <2>2. o.adopted # none /\ ~coincides(o) /\ Acknowledged(o, c, calls, u, ms)
      BY <1>1, <1>3 DEF Acknowledged
    <2>3. accepted(q, s) # <<>> <=> publishes(o)
      BY <2>1 DEF published
    <2>4. ns = IF publishes(o) THEN Append(ms, event("scene", "none", prepare(o.pending))) ELSE ms
      BY <1>1, <2>3 DEF posting
    <2>5. o.pending # none /\ visible(o.pending.elements) = visible(v)
      BY <1>1
    <2>6. t.adopted # none /\ Acknowledged(t, c, calls, u, ns) /\ Reflects(t, v)
      BY <1>1, <2>1, <2>2, <2>4, <2>5, PublishReflects
    <2> QED BY <2>6
  <1> QED BY <1>2, <1>3

\* The canvas was replaced by the document X.
LEMMA ReplacedBalances ==
    ASSUME NEW c \in Coordinator, NEW calls, NEW u, ComingIn(calls, u), NEW ms, Scenes(ms) = {},
           \A Y : c.lastLoaded = <<Y>> => Pipe(calls, u, Y), NEW X \in Document,
           NEW called, ~ComingIn(called, NoUpdate) => \A Y : Pipe(calls, u, Y) => X = Y,
           NEW p, p.loading, p.finishing, p.deferredUpdate = NoUpdate, Canonical(p.canvas, X),
           NEW q, q.adopted # none => q.adopted.shows = none
    PROVE  Balanced(p, q, c, called, ms)
  <1>1. IDLedger(c.boardIDsByWebID)
    BY LedgerIs DEF Coordinator
  <1>2. Settled(visible(p.canvas), X, c.boardIDsByWebID)
    BY <1>1, SettledLoads
  <1>3. Conveyed(c, called, NoUpdate, ms, visible(p.canvas))
    <2>1. CASE ComingIn(called, NoUpdate)
      BY <2>1, NothingEnds
    <2>2. CASE c.lastLoaded # <<c.snapshot.document>>
      BY <2>2, NothingEnds
    <2>3. CASE ~ComingIn(called, NoUpdate) /\ c.lastLoaded = <<c.snapshot.document>>
      <3>1. X = c.snapshot.document
        BY <2>3
      <3> QED BY <1>2, <3>1, NothingEnds
    <2> QED BY <2>1, <2>2, <2>3
  <1> QED BY <1>3 DEF Balanced, Acknowledged

\* An update of the selection and the tool began, or changed nothing.
LEMMA RestatedBalances ==
    ASSUME NEW p \in Page, NEW q, NEW c, NEW calls, NEW ms, Balanced(p, q, c, calls, ms),
           NEW t \in Publication, Acknowledged(t, c, calls, p.deferredUpdate, ms),
           ~p.loading => t.adopted # none /\ Reflects(t, p.canvas),
           NEW called, NEW r,
           \/ Begun(p, r) /\ (~p.loading => t.pending = none)
           \/ r.loading = p.loading /\ r.finishing = p.finishing /\ r.received = p.received,
           r.canvas = p.canvas, r.hasLoaded = p.hasLoaded,
           Conveys(c, calls, p.deferredUpdate, ms, c, called, r.deferredUpdate, ms)
    PROVE  Balanced(r, t, c, called, ms)
  <1> DEFINE u == p.deferredUpdate  w == r.deferredUpdate  V == visible(p.canvas)
  <1>1. V \in Seq(SceneElement)
        /\ (t.adopted # none /\ t.adopted.shows # none => t.adopted.shows.elements \in Seq(SceneElement))
    BY ElementsAre
  <1>2. Acknowledged(t, c, called, w, ms)
    BY <1>1 DEF Acknowledged, Conveys
  <1>3. CASE r.loading = p.loading /\ r.finishing = p.finishing /\ r.received = p.received
    <2>1. r.loading \/ t.adopted # none
      BY <1>3
    <2>2. r.loading /\ ~r.finishing => ~r.hasLoaded /\ Awaits(c, called, w, ms)
      BY <1>3 DEF Balanced, Conveys
    <2>3. ~r.loading => Reflects(t, r.canvas)
      BY <1>3
    <2>4. r.finishing /\ ~r.received => Conveyed(c, called, w, ms, visible(r.canvas))
      BY <1>1, <1>3 DEF Balanced, Conveys
    <2> QED BY <1>2, <2>1, <2>2, <2>3, <2>4 DEF Balanced
  <1>4. CASE Begun(p, r) /\ (~p.loading => t.pending = none)
    <2>1. r.loading /\ r.finishing /\ r.received = (p.loading /\ p.received)
      BY <1>4 DEF Begun
    <2>2. ASSUME ~r.received PROVE Conveyed(c, called, w, ms, V)
      <3>1. CASE ~p.loading
        <4>1. t.adopted # none /\ t.adopted.shows # none /\ t.adopted.shows.elements = V
          BY <1>4, <3>1 DEF Reflects
        <4> QED BY <1>2, <4>1 DEF Acknowledged
      <3>2. CASE p.loading /\ ~p.finishing
        <4>1. Awaits(c, called, w, ms)
          BY <3>2 DEF Balanced, Conveys
        <4> QED BY <4>1, AwaitsConveys
      <3>3. CASE p.loading /\ p.finishing
        <4>1. ~p.received
          BY <2>1, <2>2, <3>3
        <4>2. Conveyed(c, calls, u, ms, V)
          BY <3>3, <4>1 DEF Balanced
        <4> QED BY <1>1, <4>2 DEF Conveys
      <3> QED BY <3>1, <3>2, <3>3
    <2> QED BY <1>2, <2>1, <2>2 DEF Balanced
  <1> QED BY <1>3, <1>4

-----------------------------------------------------------------------------
(* The page stays in step *)

InStep == Balanced(page, publication, coordinator, toPage, posted)

\* What is on its way after a post.
LEMMA PostedIs ==
    ASSUME TypeInvariant, NEW ms, Post(ms), UNCHANGED replies
    PROVE  /\ ms = <<>> => posted' = posted
           /\ \A m \in Event : ms = <<m>> => posted' = Append(posted, m)
  <1>1. replies \in Seq(Event) /\ toNative \in Seq(Event)
    BY ChannelsAre
  <1>2. toNative' = toNative \o ms /\ replies' = replies
    BY DEF Post
  <1>3. ms = <<>> => toNative' = toNative
    BY <1>1, <1>2
  <1>4. \A m \in Event : ms = <<m>> => replies \o (toNative \o ms) = Append(replies \o toNative, m)
    <2> SUFFICES ASSUME NEW m \in Event, ms = <<m>>
                 PROVE  replies \o (toNative \o ms) = Append(replies \o toNative, m)
      OBVIOUS
    <2>1. replies \o (toNative \o <<m>>) = Append(replies \o toNative, m)
      BY <1>1, PostIs
    <2> QED BY <2>1
  <1> QED BY <1>2, <1>3, <1>4 DEF posted

\* A scene of the canvas v is accepted, and published at once or held back.
LEMMA AcceptInStep ==
    ASSUME TypeInvariant, InStep, NEW s \in CanvasScene, NEW v, visible(s.elements) = visible(v),
           publication' = acceptScene(publication, s), Post(accepted(publication, s)),
           ~acceptRaces(publication, s), ~publication.active => publication.adopted # none,
           UNCHANGED replies
    PROVE  /\ publication.adopted # none => publication'.adopted # none
           /\ Acknowledged(publication', coordinator, toPage, page.deferredUpdate, posted')
           /\ Reflects(publication', v)
  <1> DEFINE m == event("scene", "none", prepare(s))
             ms == accepted(publication, s)
             u == page.deferredUpdate
  <1>1. publication \in Publication /\ posted \in Seq(Event)
    BY ChannelsAre DEF TypeInvariant
  <1>2. ms = <<>> \/ ms = <<m>>
    BY <1>1, AcceptTyped
  <1>3. m \in Event
    <2>1. prepare(s) \in Scene
      BY PrepareTyped
    <2>2. m \in SceneEvent
      BY <2>1 DEF event, SceneEvent
    <2> QED BY <2>2, EventKinds
  <1> DEFINE o == [publication EXCEPT !.pending = s]
  <1>4. ~publication.active => ~coincides(o)
    BY DEF acceptRaces
  <1>5. Acknowledged(publication, coordinator, toPage, u, posted)
    BY DEF InStep, Balanced
  <1>6. posted' = IF ms # <<>> THEN Append(posted, m) ELSE posted
    <2> HIDE DEF m
    <2>1. Post(ms)
      OBVIOUS
    <2>2. ms = <<>> => posted' = posted
      BY <2>1, PostedIs
    <2>3. ms = <<m>> => posted' = Append(posted, m)
      BY <1>3, <2>1, PostedIs
    <2> HIDE DEF ms
    <2> QED BY <1>2, <2>2, <2>3
  <1> DEFINE t == publication'
             ns == posted'
  <1>7. ns = posting(publication, s, posted)
    BY <1>6 DEF posting
  <1>8. t = acceptScene(publication, s) /\ o = [publication EXCEPT !.pending = s]
    OBVIOUS
  <1> HIDE DEF u, t, ns, m, ms, o
  <1>9. /\ publication.adopted # none => t.adopted # none
        /\ Acknowledged(t, coordinator, toPage, u, ns) /\ Reflects(t, v)
    BY <1>1, <1>4, <1>5, <1>7, <1>8, AcceptReflects
  <1> QED BY <1>9 DEF u, t, ns

\* The canvas, as it is after the change, is published, put off, or held back.
LEMMA ChangeInStep ==
    ASSUME TypeInvariant, PageFits, InStep, NEW p \in Page, NEW byPerson \in BOOLEAN,
           handleChange(p, byPerson), ~raced',
           p.deferredUpdate = page.deferredUpdate, p.loading = page.loading,
           p.finishing = page.finishing, p.hasLoaded = page.hasLoaded,
           byPerson \/ (p.canvas = page.canvas /\ p.received = page.received),
           UNCHANGED <<draft, coordinator, toPage, replies>>
    PROVE  InStep'
  <1> DEFINE s == changeScene(p)
             o == semanticOverlay(p.canvas)
             u == page.deferredUpdate
             v == p.canvas
  <1>1. s \in CanvasScene /\ s.elements = v /\ publication \in Publication
    BY ReadTyped DEF TypeInvariant
  <1>2. CASE p.loading
    <2>1. page' = [p EXCEPT !.deferredChange = s] /\ UNCHANGED <<publication, toNative>>
          /\ ~(byPerson /\ ~p.received)
      BY <1>2 DEF handleChange
    <2> HIDE DEF s
    <2>2. /\ page'.canvas = v /\ page'.deferredUpdate = u /\ page'.loading = p.loading
          /\ page'.finishing = p.finishing /\ page'.hasLoaded = p.hasLoaded /\ page'.received = p.received
      BY <2>1 DEF Page
    <2>3. posted' = posted
      BY <2>1 DEF posted
    <2> QED BY <1>2, <2>1, <2>2, <2>3 DEF InStep, Balanced
  <1>3. CASE ~p.loading
    <2>1. /\ page' = [p EXCEPT !.overlay = o] /\ publication' = acceptScene(publication, s)
          /\ Post(accepted(publication, s)) /\ ~acceptRaces(publication, s)
      BY <1>3 DEF handleChange
    <2> HIDE DEF o, s
    <2>2. /\ page'.canvas = v /\ page'.deferredUpdate = u /\ page'.loading = p.loading
          /\ page'.finishing = p.finishing
      BY <2>1 DEF Page
    <2>3. publication.adopted # none /\ ~page'.finishing
      BY <1>3, <2>2 DEF InStep, Balanced, PageFits, Fit
    <2> HIDE DEF v
    <2>4. /\ publication.adopted # none => publication'.adopted # none
          /\ Acknowledged(publication', coordinator, toPage, page.deferredUpdate, posted')
          /\ Reflects(publication', v)
      BY <1>1, <2>1, <2>3, AcceptInStep
    <2> QED BY <1>3, <2>2, <2>3, <2>4 DEF InStep, Balanced
  <1> QED BY <1>2, <1>3

\* The person draws, or changes what is drawn.
LEMMA EditInStep ==
    ASSUME TypeInvariant, PageFits, InStep, Draw \/ Move \/ Rotate \/ Select \/ Delete \/ Paste, ~raced'
    PROVE  InStep'
  <1>1. PICK p : EditedPage(p) /\ edit(p)
    BY DrawEdits, MoveEdits, RotateEdits, SelectEdits, DeleteEdits, PasteEdits
  <1>2. UNCHANGED <<draft, coordinator, toPage, replies>>
    BY GestureCounts
  <1> QED BY <1>1, <1>2, ChangeInStep DEF EditedPage, edit

\* React commits what a native call changed.
LEMMA CommitInStep ==
    ASSUME TypeInvariant, PageFits, InStep, CommitChange, ~raced'
    PROVE  InStep'
  <1> DEFINE p == [page EXCEPT !.changed = FALSE]
  <1>1. page \in Page
    BY DEF TypeInvariant
  <1>2. /\ p \in Page /\ p.deferredUpdate = page.deferredUpdate /\ p.canvas = page.canvas
        /\ p.loading = page.loading /\ p.finishing = page.finishing /\ p.hasLoaded = page.hasLoaded
        /\ p.received = page.received
    BY <1>1 DEF Page
  <1>3. handleChange(p, FALSE) /\ UNCHANGED <<draft, coordinator, toPage, replies>>
    BY DEF CommitChange
  <1> HIDE DEF p
  <1> QED BY <1>2, <1>3, ChangeInStep

\* The page was touched.
LEMMA NotedKeeps ==
    ASSUME NEW p \in Page, NEW q, q = noteUserInput(p) \/ q = p
    PROVE  /\ q \in Page /\ q.canvas = p.canvas /\ q.deferredUpdate = p.deferredUpdate /\ q.held = p.held
           /\ q.loading = p.loading /\ q.finishing = p.finishing /\ q.hasLoaded = p.hasLoaded
           /\ q.overlay = p.overlay
           /\ p.received => q.received
  <1> DEFINE r == p.received \/ p.loading
  <1>1. r \in BOOLEAN /\ (p.received => r)
    BY DEF Page
  <1>2. q = [p EXCEPT !.received = r] \/ q = p
    BY NotedIs
  <1> HIDE DEF r
  <1> QED BY <1>1, <1>2 DEF Page

\* The pointer goes down, or the page posts what is no scene.
LEMMA TouchInStep ==
    ASSUME TypeInvariant, InStep, PointerDown \/ PostTool \/ PostReturn
    PROVE  InStep'
  <1> DEFINE u == page.deferredUpdate
  <1>0. page \in Page /\ publication \in Publication /\ posted \in Seq(Event)
    BY ChannelsAre DEF TypeInvariant
  <1>1. /\ page'.loading = page.loading /\ page'.finishing = page.finishing
        /\ page'.hasLoaded = page.hasLoaded /\ page'.canvas = page.canvas
        /\ page'.deferredUpdate = u /\ (page.received => page'.received)
    <2>1. CASE PointerDown
      <3> DEFINE q == noteUserInput(page)
      <3>1. page' = [q EXCEPT !.held = TRUE]
        BY <2>1 DEF PointerDown
      <3>2. /\ q \in Page /\ q.canvas = page.canvas /\ q.deferredUpdate = page.deferredUpdate
            /\ q.loading = page.loading /\ q.finishing = page.finishing /\ q.hasLoaded = page.hasLoaded
            /\ page.received => q.received
        BY <1>0, NotedKeeps
      <3> HIDE DEF q
      <3> QED BY <3>1, <3>2 DEF Page
    <2>2. CASE PostTool \/ PostReturn
      <3>1. page' = noteUserInput(page) \/ page' = page
        BY <2>2 DEF PostTool, PostReturn
      <3> QED BY <1>0, <3>1, NotedKeeps
    <2> QED BY <2>1, <2>2
  <1>2. publication'.pending = publication.pending /\ publication'.adopted = publication.adopted
    <2>1. PointerDown => publication' = beginPointerInteraction(publication)
      BY DEF PointerDown
    <2>2. PostTool \/ PostReturn => publication' = publication
      BY DEF PostTool, PostReturn
    <2> QED BY <1>0, <2>1, <2>2, BeginTyped
  <1>3. Scenes(posted') = Scenes(posted) /\ \A W : Ends(posted, W) => Ends(posted', W)
    <2>1. CASE PointerDown
      <3>1. posted' = posted
        BY <2>1 DEF PointerDown, nativeUnchanged, posted
      <3> QED BY <3>1
    <2>2. CASE PostTool \/ PostReturn
      <3>1. PICK c \in {"tool", "returnToDraft"} : Post(<<event("command", c, none)>>)
        BY <2>2 DEF PostTool, PostReturn
      <3> DEFINE m == event("command", c, none)
      <3>2. m \in Event /\ ~carriesScene(m)
        BY DEF event, Event, carriesScene
      <3>3. Post(<<m>>) /\ UNCHANGED replies
        BY <2>2, <3>1 DEF PostTool, PostReturn, nativeUnchanged
      <3> HIDE DEF m
      <3>4. posted' = Append(posted, m)
        BY <3>2, <3>3, PostedIs
      <3> QED BY <1>0, <3>2, <3>4, PostedEnds
    <2> QED BY <2>1, <2>2
  <1>4. coordinator' = coordinator /\ toPage' = toPage
    BY DEF PointerDown, PostTool, PostReturn, nativeUnchanged
  <1> HIDE DEF u
  <1>5. Conveys(coordinator, toPage, u, posted, coordinator', toPage', u, posted')
    BY <1>3, <1>4, ConveysSame
  <1> QED BY <1>0, <1>1, <1>2, <1>5, BalancedPasses DEF InStep, u

\* A scene is not the absence of one.
LEMMA SceneIsNotNone == \A s \in Scene : s # none
  <1> SUFFICES ASSUME NEW s \in Scene PROVE s # none
    OBVIOUS
  <1> DEFINE m == event("scene", "none", s)
  <1>1. m \in SceneEvent /\ m.scene = s
    BY DEF event, SceneEvent
  <1> HIDE DEF m
  <1> QED BY <1>1, EventKinds

\* The canvas is adopted as it is.
LEMMA AdoptsCanvas ==
    ASSUME page \in Page, NEW q, NEW t, t = adoptScene(q, readScene(page))
    PROVE  /\ t.pending = none /\ t.adopted # none /\ t.adopted.shows # none
           /\ t.adopted.shows.elements = visible(page.canvas)
  <1> DEFINE s == readScene(page)
  <1>1. s \in CanvasScene /\ s.elements = live(page.canvas) /\ page.canvas \in Seq(CanvasElement)
    BY ReadTyped DEF Page, Bounded
  <1>2. t.pending = none /\ t.adopted = adopt(s)
    BY DEF adoptScene
  <1> HIDE DEF s
  <1>3. adopt(s) # none /\ prepare(s) \in Scene /\ prepare(s).elements = visible(s.elements)
    BY <1>1, AdoptedIs, PrepareTyped
  <1>4. prepare(s) # none
    BY <1>3, SceneIsNotNone
  <1>5. adopt(s).shows = prepare(s)
    BY DEF adopt
  <1>6. visible(live(page.canvas)) = visible(page.canvas)
    BY <1>1, VisibleLive
  <1> QED BY <1>1, <1>2, <1>3, <1>4, <1>5, <1>6

\* The canvas is sent as it is.
LEMMA SentBalances ==
    ASSUME NEW p, ~(p.loading /\ ~p.finishing), NEW c, NEW calls, NEW ms \in Seq(Event),
           NEW m \in Event, carriesScene(m), m.scene.elements = visible(p.canvas),
           NEW ns, ns = Append(ms, m),
           NEW t, t.adopted # none, t.adopted.shows # none, t.adopted.shows.elements = visible(p.canvas)
    PROVE  Balanced(p, t, c, calls, ns)
  <1>1. Scenes(ns) # {} /\ Ends(ns, m.scene.elements)
    BY PostedEnds
  <1>2. Conveyed(c, calls, p.deferredUpdate, ns, visible(p.canvas))
    BY <1>1 DEF Conveyed
  <1> QED BY <1>2 DEF Balanced, Acknowledged, Reflects

\* A command with the whole canvas, or the answer to a flush.
LEMMA FlushInStep ==
    ASSUME TypeInvariant, InStep, FlushThenPost \/ ReceiveFlush, ~raced'
    PROVE  InStep'
  <1>1. PICK m \in Event : /\ Post(<<m>>) /\ m \in Flushed \cup Reply
                           /\ m.scene.elements = visible(live(page.canvas))
    <2>1. CASE FlushThenPost
      <3>1. PICK command \in Commands : Post(<<event("flushedCommand", command, prepare(readScene(page)))>>)
        BY <2>1 DEF FlushThenPost, Commands
      <3> DEFINE m == event("flushedCommand", command, prepare(readScene(page)))
      <3>2. m \in Event /\ m \in Flushed \cup Reply /\ m.scene.elements = visible(live(page.canvas))
        BY FlushedTyped DEF TypeInvariant
      <3> QED BY <3>1, <3>2
    <2>2. CASE ReceiveFlush
      <3> DEFINE h == Head(toPage)
                 m == event("reply", h.then, prepare(readScene(page)))
      <3>1. h \in Call /\ h.call = "flush" /\ Post(<<m>>)
        BY <2>2, ShorterTyped DEF ReceiveFlush, TypeInvariant
      <3>2. "flush" \notin {"load", "reconcile", "state"}
        OBVIOUS
      <3>3. h.then \in Commands
        BY <3>1, <3>2 DEF Call
      <3>4. m \in Event /\ m \in Flushed \cup Reply /\ m.scene.elements = visible(live(page.canvas))
        BY <3>3, FlushedTyped DEF TypeInvariant
      <3> QED BY <3>1, <3>4
    <2> QED BY <2>1, <2>2
  <1>2. /\ page' = noteUserInput(page) \/ page' = page
        /\ publication' = adoptScene(publication, readScene(page))
        /\ ~staleAfterFlush /\ UNCHANGED <<coordinator, replies>>
    BY DEF FlushThenPost, ReceiveFlush, nativeUnchanged
  <1>3. page \in Page /\ posted \in Seq(Event) /\ page.canvas \in Seq(CanvasElement)
    BY ChannelsAre DEF TypeInvariant, Page, Bounded
  <1>4. carriesScene(m) /\ m.scene.elements = visible(page.canvas)
    BY <1>1, <1>3, VisibleLive, EventKinds
  <1>5. posted' = Append(posted, m)
    BY <1>1, <1>2, PostedIs
  <1>6. page'.canvas = page.canvas /\ page'.loading = page.loading /\ page'.finishing = page.finishing
    BY <1>2, <1>3, NotedKeeps
  <1>7. ~(page'.loading /\ ~page'.finishing)
    BY <1>2, <1>6 DEF InStep, Balanced, staleAfterFlush
  <1>8. /\ publication'.adopted # none /\ publication'.adopted.shows # none
        /\ publication'.adopted.shows.elements = visible(page.canvas)
    BY <1>2, <1>3, AdoptsCanvas
  <1> DEFINE p == page'  t == publication'  c == coordinator'  calls == toPage'  ns == posted'
  <1>9. /\ ~(p.loading /\ ~p.finishing) /\ ns = Append(posted, m) /\ m.scene.elements = visible(p.canvas)
        /\ t.adopted # none /\ t.adopted.shows # none /\ t.adopted.shows.elements = visible(p.canvas)
    BY <1>4, <1>5, <1>6, <1>7, <1>8
  <1> HIDE DEF p, t, c, calls, ns
  <1>10. Balanced(p, t, c, calls, ns)
    BY <1>3, <1>4, <1>9, SentBalances
  <1> QED BY <1>10 DEF InStep, p, t, c, calls, ns

\* React has committed a native update.
LEMMA FinishInStep ==
    ASSUME TypeInvariant, PageFits, InStep, FinishNativeUpdate, ~raced'
    PROVE  InStep'
  <1> DEFINE scene == readScene(page)
             change == IF page.deferredChange = none THEN scene ELSE page.deferredChange
             o == semanticOverlay(page.canvas)
             v == page.canvas
             u == page.deferredUpdate
  <1>0. /\ page \in Page /\ publication \in Publication /\ Fit(page, publication)
        /\ v \in Seq(CanvasElement) /\ posted \in Seq(Event)
    BY ChannelsAre DEF TypeInvariant, PageFits, Page, Bounded
  <1>1. /\ page.finishing /\ ~page.changed
        /\ page' = [page EXCEPT !.overlay = o, !.loading = FALSE, !.finishing = FALSE,
                     !.deferredChange = none, !.received = FALSE]
        /\ \/ /\ publication' = acceptScene(publication, change) /\ publication.adopted # none
              /\ Post(accepted(publication, change)) /\ ~acceptRaces(publication, change)
           \/ /\ ~page.received
              /\ publication' = adoptScene(publication, scene) /\ UNCHANGED toNative
        /\ UNCHANGED <<draft, coordinator, toPage, replies, acts>>
    BY DEF FinishNativeUpdate
  <1>2. scene \in CanvasScene /\ change \in CanvasScene /\ scene.elements = live(v)
    BY <1>0, ReadTyped DEF Page
  <1>3. visible(change.elements) = visible(v)
    <2>1. visible(live(v)) = visible(v)
      BY <1>0, VisibleLive
    <2>2. CASE page.deferredChange = none
      BY <1>2, <2>1, <2>2
    <2>3. CASE page.deferredChange # none
      BY <1>0, <1>1, <2>3 DEF Fit
    <2> QED BY <2>2, <2>3
  <1> HIDE DEF change, o, scene
  <1>4. page'.canvas = v /\ page'.deferredUpdate = u /\ ~page'.loading /\ ~page'.finishing
    BY <1>0, <1>1 DEF Page
  <1>5. /\ publication'.adopted # none
        /\ Acknowledged(publication', coordinator, toPage, u, posted')
        /\ Reflects(publication', v)
    <2>1. CASE /\ publication' = acceptScene(publication, change) /\ publication.adopted # none
               /\ Post(accepted(publication, change)) /\ ~acceptRaces(publication, change)
      <3>1. UNCHANGED replies
        BY <1>1
      <3> HIDE DEF v
      <3> QED BY <1>2, <1>3, <2>1, <3>1, AcceptInStep
    <2>2. CASE ~page.received /\ publication' = adoptScene(publication, scene) /\ UNCHANGED toNative
      <3>1. posted' = posted
        BY <1>1, <2>2 DEF posted
      <3>2. Conveyed(coordinator, toPage, u, posted, visible(v))
        BY <1>1, <2>2 DEF InStep, Balanced
      <3>3. /\ publication'.adopted # none /\ publication'.adopted.shows # none
            /\ publication'.adopted.shows.elements = visible(v)
        BY <1>0, <2>2, AdoptsCanvas DEF scene
      <3> QED BY <3>1, <3>2, <3>3 DEF Acknowledged, Reflects
    <2> QED BY <1>1, <2>1, <2>2
  <1> QED BY <1>1, <1>4, <1>5 DEF InStep, Balanced

\* What is adopted stays acknowledged.
LEMMA AcknowledgedPasses ==
    ASSUME NEW t \in Publication, NEW c, NEW calls, NEW u, NEW ms, Acknowledged(t, c, calls, u, ms),
           NEW k, NEW called, NEW w, NEW ns, Conveys(c, calls, u, ms, k, called, w, ns)
    PROVE  Acknowledged(t, k, called, w, ns)
  BY ElementsAre DEF Acknowledged, Conveys

\* ms, after the gesture ends.
ending(q, ms) ==
    IF q.active /\ publishes(q) THEN Append(ms, event("scene", "none", prepare(q.pending))) ELSE ms

\* The gesture ends: what it held back is published, or known to be what was adopted.
LEMMA EndReflects ==
    ASSUME NEW q \in Publication, ~(q.active /\ coincides(q)),
           NEW v, q.pending # none /\ q.adopted # none => visible(q.pending.elements) = visible(v),
           NEW c, NEW calls, NEW u, NEW ms \in Seq(Event), Acknowledged(q, c, calls, u, ms),
           NEW ns, ns = ending(q, ms),
           NEW t, t = endPointerInteraction(q)
    PROVE  /\ t \in Publication /\ (q.adopted # none => t.adopted # none)
           /\ q.active /\ q.adopted # none => t.pending = none
           /\ Acknowledged(t, c, calls, u, ns)
           /\ Reflects(q, v) => Reflects(t, v)
  <1>1. /\ t \in Publication /\ (t.adopted = none <=> q.adopted = none)
        /\ t.pending = (IF q.active /\ q.adopted # none THEN none ELSE q.pending)
    BY EndTyped
  <1>2. CASE ~q.active
    <2>1. t = q /\ ns = ms
      BY <1>2 DEF endPointerInteraction, ending
    <2> QED BY <1>1, <1>2, <2>1
  <1>3. CASE q.active
    <2> DEFINE o == [q EXCEPT !.active = FALSE]
    <2>1. t = publishPendingScene(o)
      BY <1>3 DEF endPointerInteraction
    <2>2. o \in Publication /\ o.pending = q.pending /\ o.adopted = q.adopted
      BY DEF Publication
    <2>3. (publishes(o) <=> publishes(q)) /\ (coincides(o) <=> coincides(q))
          /\ Acknowledged(o, c, calls, u, ms)
      BY <2>2 DEF publishes, coincides, Acknowledged
    <2> HIDE DEF o
    <2>4. CASE q.pending # none /\ q.adopted # none
      <3>1. ns = IF publishes(o) THEN Append(ms, event("scene", "none", prepare(o.pending))) ELSE ms
        BY <1>3, <2>2, <2>3 DEF ending
      <3>2. o.pending # none /\ o.adopted # none /\ ~coincides(o) /\ visible(o.pending.elements) = visible(v)
        BY <1>3, <2>2, <2>3, <2>4
      <3>3. t.adopted # none /\ Acknowledged(t, c, calls, u, ns) /\ Reflects(t, v)
        BY <2>1, <2>2, <2>3, <3>1, <3>2, PublishReflects
      <3> QED BY <1>1, <1>3, <3>3
    <2>5. CASE q.pending = none \/ q.adopted = none
      <3>1. t = o /\ ~publishes(q)
        BY <2>1, <2>2, <2>5 DEF publishPendingScene, publishes
      <3>2. ns = ms
        BY <3>1 DEF ending
      <3> QED BY <1>1, <2>2, <2>3, <3>1, <3>2 DEF Reflects
    <2> QED BY <2>4, <2>5
  <1> QED BY <1>2, <1>3

\* A document is put under the adopted scene: nothing is to be acknowledged.
LEMMA OverlaidShows ==
    ASSUME NEW q \in Publication
    PROVE  overlaid(q).adopted # none => overlaid(q).adopted.shows = none
  <1>1. CASE q.adopted = none
    BY <1>1 DEF overlaid
  <1>2. CASE q.adopted # none
    <2>1. q.adopted \in [revision : Revision, shows : Scene \cup {none}]
      BY <1>2 DEF Publication
    <2> DEFINE a == [q.adopted EXCEPT !.shows = none]
    <2>2. a.shows = none
      BY <2>1
    <2>3. overlaid(q) = [q EXCEPT !.adopted = a]
      BY <1>2 DEF overlaid
    <2> HIDE DEF a
    <2>4. overlaid(q).adopted = a
      BY <2>3 DEF Publication
    <2> QED BY <2>2, <2>4
  <1> QED BY <1>1, <1>2

\* The gesture is over.
LEMMA InteractionInStep ==
    ASSUME TypeInvariant, PageFits, IdentitiesHold, InStep, NEW p \in Page, EndInteraction(p), ~raced',
           p.canvas = page.canvas, p.deferredUpdate = page.deferredUpdate, p.loading = page.loading,
           p.finishing = page.finishing, p.received = page.received, p.hasLoaded = page.hasLoaded,
           p.deferredChange = page.deferredChange
    PROVE  InStep'
  <1> DEFINE did == publication.active /\ publishes(publication)
             ms == ended(publication)
             t == endPointerInteraction(publication)
             q == completePointerInteraction(p, did)
             u == page.deferredUpdate
             v == page.canvas
             c == coordinator
             ns == posted'
  <1>0. /\ page \in Page /\ c \in Coordinator /\ posted \in Seq(Event)
        /\ publication \in Publication /\ Fit(page, publication)
        /\ (documentIsComing <=> ComingIn(toPage, u))
        /\ u # NoUpdate => publication.active
        /\ Steady(draft, c, toPage, u, publication.active, posted, v, acts)
    BY SituationIs DEF PageFits
  <1>1. /\ page' = q /\ Post(ms) /\ ~crosses(ms) /\ ~(publication.active /\ coincides(publication))
        /\ publication' = IF did \/ ~carriesDocument(u) THEN t ELSE overlaid(t)
        /\ UNCHANGED <<draft, coordinator, toPage, replies>>
    BY DEF EndInteraction, endRaces, nativeUnchanged
  <1>2. did \in BOOLEAN
    BY <1>0 DEF publishes, Publication
  <1>3. /\ did => /\ publication.pending \in CanvasScene /\ publication.adopted # none
                  /\ publication.pending # none
                  /\ ms = <<event("scene", "none", prepare(publication.pending))>>
        /\ ~did => ms = <<>>
    <2>1. publishes(publication) => publication.pending # none
      BY DEF publishes
    <2> QED BY <1>0, <2>1, EndTyped
  <1>4. /\ ~did => ns = posted
        /\ did => /\ ~documentIsComing
                  /\ ns = Append(posted, event("scene", "none", prepare(publication.pending)))
    <2>1. CASE ~did
      <3>1. ms = <<>>
        BY <1>3, <2>1
      <3> HIDE DEF ms, did
      <3> QED BY <1>1, <2>1, <3>1, PostedIs
    <2>2. CASE did
      <3> DEFINE m == event("scene", "none", prepare(publication.pending))
      <3>1. prepare(publication.pending) \in Scene
        BY <1>3, <2>2, PrepareTyped
      <3>2. m \in SceneEvent
        BY <3>1 DEF event, SceneEvent
      <3>3. m \in Event /\ carriesScene(m)
        BY <3>2, EventKinds
      <3>4. ms = <<m>>
        BY <1>3, <2>2
      <3> HIDE DEF m, ms, did
      <3>5. ns = Append(posted, m)
        BY <1>1, <3>3, <3>4, PostedIs
      <3>6. inFlight(ms, carriesScene)
        <4>1. <<m>>[1] = m /\ 1 \in DOMAIN <<m>>
          OBVIOUS
        <4> QED BY <3>3, <3>4, <4>1 DEF inFlight, ToSet
      <3>7. ~documentIsComing
        BY <1>1, <3>6 DEF crosses
      <3> QED BY <2>2, <3>5, <3>7 DEF m
    <2> QED BY <2>1, <2>2
  <1>5. /\ t \in Publication /\ (publication.adopted # none => t.adopted # none)
        /\ publication.active /\ publication.adopted # none => t.pending = none
        /\ Acknowledged(t, c, toPage, u, ns)
        /\ Reflects(publication, v) => Reflects(t, v)
    <2>1. ns = ending(publication, posted)
      BY <1>4 DEF ending
    <2>2. publication.pending # none /\ publication.adopted # none =>
             visible(publication.pending.elements) = visible(v)
      BY <1>0 DEF Fit
    <2>3. Acknowledged(publication, c, toPage, u, posted)
      BY DEF InStep, Balanced
    <2>4. t = endPointerInteraction(publication)
      OBVIOUS
    <2> HIDE DEF t, u, v, c, ns
    <2> QED BY <1>0, <1>1, <2>1, <2>2, <2>3, <2>4, EndReflects
  <1> DEFINE runs == ~did /\ u # NoUpdate
  <1>6. /\ q.deferredUpdate = NoUpdate
        /\ runs => u \in Update
        /\ q.canvas = (IF runs /\ carriesDocument(u) THEN u.elements ELSE v)
        /\ \/ runs /\ Begun(page, q)
           \/ /\ ~(runs /\ carriesDocument(u))
              /\ q.loading = page.loading /\ q.finishing = page.finishing /\ q.received = page.received
        /\ q.hasLoaded = (page.hasLoaded \/ (runs /\ u.call = "load"))
    <2> HIDE DEF did
    <2>1. /\ q.deferredUpdate = NoUpdate
          /\ runs => u \in Update
          /\ q.canvas = (IF runs /\ carriesDocument(u) THEN u.elements ELSE v)
          /\ \/ runs /\ Begun(p, q)
             \/ /\ ~(runs /\ carriesDocument(u))
                /\ q.loading = page.loading /\ q.finishing = page.finishing /\ q.received = page.received
          /\ q.hasLoaded = (page.hasLoaded \/ (runs /\ u.call = "load"))
      BY <1>2, CompletedIs
    <2> HIDE DEF q, u, v, runs
    <2>2. Begun(p, q) => Begun(page, q)
      BY DEF Begun
    <2> QED BY <2>1, <2>2
  <1>7. ~carriesDocument(NoUpdate)
    BY DEF carriesDocument, NoUpdate
  <1>8. page.loading \/ publication.adopted # none
    BY DEF InStep, Balanced
  <1>9. ~page.loading => Reflects(t, v)
    BY <1>5 DEF InStep, Balanced
  <1>10. /\ ~carriesDocument(u) => (ComingIn(toPage, NoUpdate) <=> ComingIn(toPage, u))
         /\ carriesDocument(u) =>
               /\ ComingIn(toPage, u)
               /\ ~ComingIn(toPage, NoUpdate) => \A Y : Pipe(toPage, u, Y) => u.snapshot.document = Y
    BY DropIs
  <1> HIDE DEF t, q, u, v, c, ns, ms
  <1>11. CASE did
    <2>1. ~page.loading /\ ~page.finishing /\ ~runs
      BY <1>0, <1>3, <1>11 DEF Fit, runs
    <2>2. ~q.loading /\ ~q.finishing /\ q.canvas = v
      BY <1>6, <2>1
    <2>3. publication' = t /\ t.adopted # none /\ Reflects(t, v)
      BY <1>1, <1>5, <1>8, <1>9, <1>11, <2>1
    <2>4. ~ComingIn(toPage, u)
      BY <1>0, <1>4, <1>11
    <2>5. Conveys(c, toPage, u, ns, c, toPage, NoUpdate, ns)
      BY <2>4, ConveysSame
    <2>6. Acknowledged(t, c, toPage, NoUpdate, ns)
      BY <1>5, <2>5, AcknowledgedPasses
    <2>7. Balanced(q, t, c, toPage, ns)
      BY <1>6, <2>2, <2>3, <2>6 DEF Balanced
    <2> QED BY <1>1, <2>3, <2>7 DEF InStep, c, ns
  <1>12. CASE ~did /\ carriesDocument(u)
    <2> DEFINE X == u.snapshot.document
    <2>1. runs /\ u \in Update /\ q.canvas = u.elements /\ q.loading /\ q.finishing
      BY <1>6, <1>7, <1>12 DEF runs, Begun
    <2>2. X \in Document /\ Canonical(q.canvas, X)
      BY <1>12, <2>1 DEF Update, Snapshot
    <2>3. publication' = overlaid(t) /\ posted' = posted
      BY <1>1, <1>4, <1>12 DEF ns
    <2> DEFINE o == overlaid(t)
    <2>4. o.adopted # none => o.adopted.shows = none
      BY <1>5, OverlaidShows
    <2> HIDE DEF X, o
    <2>5. ComingIn(toPage, u) /\ (~ComingIn(toPage, NoUpdate) => \A Y : Pipe(toPage, u, Y) => X = Y)
      BY <1>10, <1>12 DEF X
    <2>6. Scenes(posted) = {} /\ \A Y : c.lastLoaded = <<Y>> => Pipe(toPage, u, Y)
      BY <1>0, <2>5 DEF Steady
    <2>7. Balanced(q, o, c, toPage, posted)
      BY <1>0, <1>6, <2>1, <2>2, <2>4, <2>5, <2>6, ReplacedBalances
    <2> QED BY <1>1, <2>3, <2>7 DEF InStep, c, o
  <1>13. CASE ~did /\ ~carriesDocument(u)
    <2>1. publication' = t /\ posted' = posted /\ ns = posted
      BY <1>1, <1>4, <1>13 DEF ns
    <2>2. Balanced(page, publication, c, toPage, posted)
      BY DEF InStep, c
    <2>3. Acknowledged(t, c, toPage, page.deferredUpdate, posted)
      BY <1>5, <2>1 DEF u
    <2>4. ~page.loading => t.adopted # none /\ Reflects(t, page.canvas)
      BY <1>5, <1>8, <1>9 DEF v
    <2>5. runs /\ ~page.loading => t.pending = none
      BY <1>0, <1>5, <1>8 DEF runs
    <2>6. \/ Begun(page, q) /\ (~page.loading => t.pending = none)
          \/ q.loading = page.loading /\ q.finishing = page.finishing /\ q.received = page.received
      BY <1>6, <2>5
    <2>7. q.canvas = page.canvas /\ q.hasLoaded = page.hasLoaded
      <3>1. u.call # "load"
        BY <1>13 DEF carriesDocument
      <3>2. page.hasLoaded \in BOOLEAN
        BY <1>0 DEF Page
      <3> QED BY <1>6, <1>13, <3>1, <3>2 DEF v
    <2>8. Conveys(c, toPage, page.deferredUpdate, posted, c, toPage, q.deferredUpdate, posted)
      BY <1>6, <1>10, <1>13, ConveysSame DEF u
    <2>9. Balanced(q, t, c, toPage, posted)
      BY <1>0, <1>5, <2>2, <2>3, <2>4, <2>6, <2>7, <2>8, RestatedBalances
    <2> QED BY <1>1, <2>1, <2>9 DEF InStep, c
  <1> QED BY <1>11, <1>12, <1>13

\* The pointer is lifted, or the window loses it.
LEMMA EndInStep ==
    ASSUME TypeInvariant, PageFits, IdentitiesHold, InStep, PointerUp \/ Blur, ~raced'
    PROVE  InStep'
  <1>1. page \in Page
    BY DEF TypeInvariant
  <1>2. CASE Blur
    <2>1. EndInteraction(page)
      BY <1>2 DEF Blur
    <2> QED BY <1>1, <2>1, InteractionInStep
  <1>3. CASE PointerUp
    <2> DEFINE p == [page EXCEPT !.held = FALSE]
    <2>1. EndInteraction(p)
      BY <1>3 DEF PointerUp
    <2>2. /\ p \in Page /\ p.canvas = page.canvas /\ p.deferredUpdate = page.deferredUpdate
          /\ p.loading = page.loading /\ p.finishing = page.finishing /\ p.received = page.received
          /\ p.hasLoaded = page.hasLoaded /\ p.deferredChange = page.deferredChange
      BY <1>1 DEF Page
    <2> HIDE DEF p
    <2> QED BY <2>1, <2>2, InteractionInStep
  <1> QED BY <1>2, <1>3

\* A load, a reconcile or a change of state reaches the page.
LEMMA UpdateInStep ==
    ASSUME TypeInvariant, Sound(publication), IdentitiesHold, InStep, ReceiveUpdate, ~raced'
    PROVE  InStep'
  <1> DEFINE m == Head(toPage)
             u == [call |-> m.call, snapshot |-> m.snapshot, elements |-> broughtBy(m)]
             g == page.changed \/ page.readOnly # m.snapshot.readOnly
             s == [page EXCEPT !.readOnly = m.snapshot.readOnly, !.changed = g]
             t == Tail(toPage)
             w == page.deferredUpdate
             v == page.canvas
             active == publication.active
             c == coordinator
  <1>0. /\ page \in Page /\ c \in Coordinator /\ posted \in Seq(Event) /\ toPage \in Seq(Call)
        /\ publication \in Publication
        /\ Steady(draft, c, toPage, w, active, posted, v, acts)
        /\ w # NoUpdate => active
    BY SituationIs
  <1>1. /\ toPage # <<>> /\ m.call # "flush" /\ toPage' = t
        /\ page' = IF active THEN [s EXCEPT !.deferredUpdate = u] ELSE nativeUpdate(s, u)
        /\ publication' = IF active \/ ~carriesDocument(m) THEN publication ELSE overlaid(publication)
        /\ raced' = (raced \/ (active /\ w # NoUpdate /\ carriesDocument(w) /\ m.call = "state"))
        /\ UNCHANGED <<draft, coordinator, toNative, replies, acts>>
    BY DEF ReceiveUpdate, broughtBy
  <1>2. m \in Call /\ m.call \in {"load", "reconcile", "state"}
    <2>1. m \in Call
      BY <1>0, <1>1, ShorterTyped
    <2> QED BY <1>1, <2>1 DEF Call
  <1>3. /\ u \in Update /\ u.call = m.call /\ u.snapshot = m.snapshot
        /\ carriesDocument(u) <=> carriesDocument(m)
        /\ carriesDocument(u) => Canonical(u.elements, m.snapshot.document)
    BY <1>1, <1>2, BroughtIs
  <1>4. m.snapshot.readOnly \in BOOLEAN /\ g \in BOOLEAN /\ m.snapshot.document \in Document
    <2>1. m.snapshot \in Snapshot
      BY <1>1, <1>2 DEF Call
    <2> QED BY <1>0, <2>1 DEF Snapshot, Page
  <1> HIDE DEF u, g
  <1>5. /\ s \in Page /\ s.canvas = v /\ s.deferredUpdate = w /\ s.loading = page.loading
        /\ s.finishing = page.finishing /\ s.received = page.received /\ s.hasLoaded = page.hasLoaded
        /\ s.deferredChange = page.deferredChange
    BY <1>0, <1>4 DEF Page
  <1>6. ~(active /\ w # NoUpdate /\ carriesDocument(w) /\ m.call = "state")
    BY <1>1
  <1>7. ~carriesDocument(NoUpdate)
    BY DEF carriesDocument, NoUpdate
  <1>8. carriesDocument(m) <=> m.call \in {"load", "reconcile"}
    BY DEF carriesDocument
  <1>9. posted' = posted /\ coordinator' = c
    BY <1>1 DEF posted
  <1>10. Balanced(page, publication, c, toPage, posted)
    BY DEF InStep
  <1>11. page.loading \/ publication.adopted # none
    BY DEF InStep, Balanced
  <1> HIDE DEF s, m, t, v, active, c
  <1>12. CASE active
    <2> DEFINE r == page'
    <2>1. r = [s EXCEPT !.deferredUpdate = u] /\ publication' = publication
      BY <1>1, <1>12
    <2>2. /\ r.canvas = page.canvas /\ r.deferredUpdate = u /\ r.loading = page.loading
          /\ r.finishing = page.finishing /\ r.received = page.received /\ r.hasLoaded = page.hasLoaded
      BY <1>5, <2>1 DEF Page, v
    <2> HIDE DEF w, r
    <2>3. /\ carriesDocument(u) => carriesDocument(m) /\ u.snapshot.document = m.snapshot.document
          /\ (carriesDocument(m) \/ carriesDocument(w)) => carriesDocument(u)
      BY <1>2, <1>3, <1>6, <1>7, <1>8, <1>12
    <2>4. ComingIn(t, u) <=> ComingIn(toPage, w)
      BY <1>0, <1>1, <2>3, TailIs DEF m, t
    <2>5. Conveys(c, toPage, page.deferredUpdate, posted, c, t, r.deferredUpdate, posted)
      BY <2>2, <2>4, ConveysSame DEF w
    <2>6. Balanced(r, publication, c, t, posted)
      BY <1>0, <1>10, <2>2, <2>5, BalancedPasses
    <2> QED BY <1>1, <1>9, <2>1, <2>6 DEF InStep, r
  <1>13. CASE ~active
    <2> DEFINE q == nativeUpdate(s, u)
    <2>1. page' = q /\ w = NoUpdate
      BY <1>0, <1>1, <1>13
    <2>2. /\ q.canvas = (IF carriesDocument(u) THEN u.elements ELSE v) /\ q.deferredUpdate = NoUpdate
          /\ Begun(s, q) \/ (q = s /\ ~carriesDocument(u))
          /\ q.hasLoaded = (page.hasLoaded \/ u.call = "load")
      BY <1>3, <1>5, <2>1, NativeUpdateIs
    <2> HIDE DEF q
    <2>3. CASE carriesDocument(m)
      <3> DEFINE X == m.snapshot.document
                 o == overlaid(publication)
      <3>1. Canonical(q.canvas, X) /\ q.loading /\ q.finishing
        BY <1>3, <2>2, <2>3 DEF Begun
      <3>2. publication' = o
        BY <1>1, <1>13, <2>3
      <3>3. o.adopted # none => o.adopted.shows = none
        BY <1>0, OverlaidShows
      <3>4. /\ ComingIn(toPage, w)
            /\ ~ComingIn(t, NoUpdate) => \A Y : Pipe(toPage, w, Y) => X = Y
        <4> HIDE DEF w
        <4> QED BY <1>0, <1>1, <1>7, <2>3, TailIs DEF m, t
      <3>5. Scenes(posted) = {} /\ \A Y : c.lastLoaded = <<Y>> => Pipe(toPage, w, Y)
        BY <1>0, <3>4 DEF Steady
      <3> HIDE DEF X, o, w
      <3>6. Balanced(q, o, c, t, posted)
        BY <1>0, <1>4, <2>2, <3>1, <3>3, <3>4, <3>5, ReplacedBalances DEF X
      <3> QED BY <1>1, <1>9, <2>1, <3>2, <3>6 DEF InStep
    <2>4. CASE ~carriesDocument(m)
      <3>1. publication' = publication
        BY <1>1, <2>4
      <3>2. Acknowledged(publication, c, toPage, page.deferredUpdate, posted)
        BY <1>10 DEF Balanced
      <3>3. ~page.loading => publication.adopted # none /\ Reflects(publication, page.canvas)
        BY <1>10, <1>11 DEF Balanced
      <3>4. ~page.loading => publication.pending = none
        BY <1>11, <1>13, SoundIs DEF active
      <3>5. Begun(s, q) => Begun(page, q)
        BY <1>5 DEF Begun
      <3>6. \/ Begun(page, q) /\ (~page.loading => publication.pending = none)
            \/ q.loading = page.loading /\ q.finishing = page.finishing /\ q.received = page.received
        BY <1>5, <2>2, <3>4, <3>5
      <3>7. q.canvas = page.canvas /\ q.hasLoaded = page.hasLoaded
        <4>1. u.call # "load" /\ ~carriesDocument(u)
          BY <1>3, <1>8, <2>4
        <4>2. page.hasLoaded \in BOOLEAN
          BY <1>0 DEF Page
        <4> QED BY <2>2, <4>1, <4>2 DEF v
      <3>8. ComingIn(t, w) <=> ComingIn(toPage, w)
        <4> HIDE DEF w
        <4> QED BY <1>0, <1>1, <1>7, <2>1, <2>4, TailIs DEF m, t
      <3>9. q.deferredUpdate = w
        BY <2>1, <2>2
      <3>10. Conveys(c, toPage, page.deferredUpdate, posted, c, t, q.deferredUpdate, posted)
        BY <3>8, <3>9, ConveysSame
      <3>11. Balanced(q, publication, c, t, posted)
        BY <1>0, <1>10, <3>2, <3>3, <3>6, <3>7, <3>10, RestatedBalances
      <3> QED BY <1>1, <1>9, <2>1, <3>1, <3>11 DEF InStep
    <2> QED BY <2>3, <2>4
  <1> QED BY <1>12, <1>13

-----------------------------------------------------------------------------
(* The application stays in step *)

\* A new page, with a new controller.
LEMMA StartBalances ==
    ASSUME NEW c, c.lastLoaded = <<>>, NEW calls, NEW ms, Scenes(ms) = {}
    PROVE  Balanced(NewPage, NewPublication, c, calls, ms)
  <1>1. NewPage.loading /\ ~NewPage.finishing /\ ~NewPage.hasLoaded
    BY DEF NewPage
  <1>2. NewPublication.adopted = none
    BY NewPublicationIs
  <1> QED BY <1>1, <1>2 DEF Balanced, Awaits, Acknowledged

\* The first message of a page carries no scene.
LEMMA ReadyIs == <<>> \o Ready = Ready /\ Scenes(Ready) = {}
  <1>1. Ready \in Seq(Event)
    <2>1. event("ready", "none", none) \in Event
      BY DEF event, Event
    <2> QED BY <2>1 DEF Ready
  <1>2. <<>> \o Ready = Ready
    BY <1>1
  <1>3. DOMAIN Ready = {1} /\ Ready[1].scene = none
    BY DEF Ready, event
  <1> QED BY <1>2, <1>3 DEF Scenes, carriesScene

\* The editor session starts, or starts over.
LEMMA StartInStep ==
    /\ Init => InStep
    /\ ResetEditorSession => InStep'
  <1>1. ASSUME Init PROVE InStep
    <2>1. page = NewPage /\ publication = NewPublication /\ coordinator.lastLoaded = <<>>
          /\ replies \o toNative = Ready
      BY <1>1, ReadyIs DEF Init, NewCoordinator
    <2> QED BY <2>1, ReadyIs, StartBalances DEF InStep, posted
  <1>2. ASSUME ResetEditorSession PROVE InStep'
    <2> DEFINE k == coordinator'  calls == toPage'
    <2>1. page' = NewPage /\ publication' = NewPublication /\ k.lastLoaded = <<>>
          /\ (replies \o toNative)' = Ready
      BY <1>2, ReadyIs DEF ResetEditorSession, NewCoordinator
    <2> HIDE DEF k, calls
    <2>2. Balanced(NewPage, NewPublication, k, calls, Ready)
      BY <2>1, ReadyIs, StartBalances
    <2> QED BY <2>1, <2>2 DEF InStep, posted, k, calls
  <1> QED BY <1>1, <1>2

\* The application acts, and what was conveyed stays so.
LEMMA ApplicationInStep ==
    ASSUME TypeInvariant, InStep, UNCHANGED <<page, publication>>,
           Conveys(coordinator, toPage, page.deferredUpdate, posted,
                   coordinator', toPage', page.deferredUpdate, posted')
    PROVE  InStep'
  <1> DEFINE k == coordinator'  calls == toPage'  ns == posted'
  <1>1. page \in Page /\ publication \in Publication
    BY DEF TypeInvariant
  <1>2. Conveys(coordinator, toPage, page.deferredUpdate, posted, k, calls, page.deferredUpdate, ns)
    OBVIOUS
  <1>3. Balanced(page, publication, coordinator, toPage, posted)
    BY DEF InStep
  <1> HIDE DEF k, calls, ns
  <1>4. Balanced(page, publication, k, calls, ns)
    BY <1>1, <1>2, <1>3, BalancedPasses
  <1> QED BY <1>4 DEF InStep, k, calls, ns

\* A message without a scene is handled.
LEMMA WordGone ==
    ASSUME replies \in Seq(Event), toNative \in Seq(Event), toNative # <<>>, ~carriesScene(Head(toNative)),
           NEW ns, ns = replies \o Tail(toNative)
    PROVE  /\ Scenes(ns) = {} <=> Scenes(posted) = {}
           /\ \A W : Ends(posted, W) => Ends(ns, W)
  <1> DEFINE h == Len(replies) + 1
  <1>1. /\ posted \in Seq(Event) /\ ns \in Seq(Event) /\ posted[h] = Head(toNative)
        /\ \E f : Fewer(ns, posted, f) /\ Others(ns, posted, f, h)
    <2>1. Tail(toNative) \in Seq(Event)
      BY ShorterTyped
    <2> QED BY <2>1, JoinIs, MessageGone DEF posted
  <1> HIDE DEF h
  <1>2. PICK f : Fewer(ns, posted, f) /\ Others(ns, posted, f, h)
    BY <1>1
  <1>3. ~carriesScene(posted[h])
    BY <1>1
  <1>4. ASSUME Scenes(ns) = {}, NEW i \in Scenes(posted) PROVE FALSE
    <2>1. i \in DOMAIN posted /\ carriesScene(posted[i]) /\ i # h
      BY <1>3 DEF Scenes
    <2>2. PICK j \in DOMAIN ns : f[j] = i
      BY <1>2, <2>1 DEF Others
    <2>3. j \in Scenes(ns)
      BY <1>2, <2>1, <2>2 DEF Fewer, Scenes
    <2> QED BY <1>4, <2>3
  <1>5. ASSUME Scenes(posted) = {}, NEW j \in Scenes(ns) PROVE FALSE
    <2>1. f[j] \in Scenes(posted)
      BY <1>2 DEF Fewer, Scenes
    <2> QED BY <1>5, <2>1
  <1>6. \A W : Ends(posted, W) => Ends(ns, W)
    BY <1>1, <1>2, <1>3, GoneEnds
  <1> QED BY <1>4, <1>5, <1>6

\* The page is ready: a load is scheduled.
LEMMA ReadyInStep ==
    ASSUME TypeInvariant, InStep, ReceiveReady
    PROVE  InStep'
  <1> DEFINE k == coordinator'  ns == posted'  u == page.deferredUpdate
  <1>0. coordinator \in Coordinator /\ replies \in Seq(Event) /\ toNative \in Seq(Event)
    BY ChannelsAre DEF TypeInvariant
  <1>1. /\ toNative # <<>> /\ Head(toNative).event = "ready" /\ ns = replies \o Tail(toNative)
        /\ k = [scheduleLoad(coordinator, coordinator.snapshot) EXCEPT !.ready = TRUE]
        /\ UNCHANGED <<page, publication, draft, toPage, replies, acts>>
    BY DEF ReceiveReady, posted
  <1>2. ~carriesScene(Head(toNative))
    <2>1. Head(toNative) \in Event
      BY <1>0, <1>1, ShorterTyped
    <2>2. "ready" \notin {"scene", "flushedCommand", "reply"}
      OBVIOUS
    <2> QED BY <1>1, <2>1, <2>2, EventKinds DEF SceneEvent, Flushed, Reply
  <1>3. k.lastLoaded = coordinator.lastLoaded /\ k.task.task = "load"
    BY <1>0, <1>1 DEF scheduleLoad, Coordinator
  <1> HIDE DEF k, ns, u
  <1>4. Scenes(ns) = {} <=> Scenes(posted) = {}
    BY <1>0, <1>1, <1>2, WordGone
  <1>5. \A W : Ends(posted, W) => Ends(ns, W)
    BY <1>0, <1>1, <1>2, WordGone
  <1>6. Conveys(coordinator, toPage, u, posted, k, toPage, u, ns)
    BY <1>3, <1>4, <1>5 DEF Conveys, Conveyed, Awaits
  <1> QED BY <1>1, <1>6, ApplicationInStep DEF k, ns, u

\* The reply to a flush hops to the main actor.
LEMMA HopInStep ==
    ASSUME TypeInvariant, InStep, ReceiveReply
    PROVE  InStep'
  <1>1. /\ toNative # <<>> /\ replies' = Append(replies, Head(toNative)) /\ toNative' = Tail(toNative)
        /\ UNCHANGED <<page, publication, draft, coordinator, toPage, acts>>
    BY DEF ReceiveReply
  <1>2. posted' = posted
    BY <1>1, ChannelsAre, HopIs DEF posted
  <1> QED BY <1>1, <1>2 DEF InStep

\* A scene that is accepted shows the document it gives.
LEMMA SceneSettles ==
    ASSUME TypeInvariant, IdentitiesHold, NEW h \in Scenes(posted),
           NEW scene, scene = posted[h].scene, ~reclaims(scene),
           NEW X, X = coordinator.snapshot.document, coordinator.lastLoaded = <<X>>,
           NEW l, l = coordinator.boardIDsByWebID, NEW g, g = decodeChange(scene, X, l)
    PROVE  Settled(scene.elements, g.document, learn(l, g))
  <1> DEFINE u == page.deferredUpdate
             v == page.canvas
             active == publication.active
             D == Documents(draft, coordinator, toPage, u)
             A == inksIn(D)
             s == scene.elements
             m == learn(l, g)
  <1>0. /\ coordinator \in Coordinator /\ posted \in Seq(Event)
        /\ Steady(draft, coordinator, toPage, u, active, posted, v, acts)
    BY SituationIs
  <1>1. scene \in Scene /\ s \in Seq(SceneElement)
    BY <1>0, ScenesAre
  <1>2. Honest(s, l)
    <2>1. scene # none
      BY <1>1, SceneIsNotNone
    <2>2. ToSet(s) = {s[n] : n \in DOMAIN s}
      BY DEF ToSet
    <2> QED BY <2>1, <2>2 DEF reclaims, Honest
  <1>3. X \in Document /\ l \in IDLedgers
    BY <1>0, SnapshotIsDocument
  <1> HIDE DEF u, v, active
  <1>4. Synced(coordinator, toPage, u) /\ InOrder(s) /\ AllBorn(s, acts)
    BY <1>0 DEF Steady, Ordered, Synced
  <1>5. Linked(posted, v, X, l, A)
    BY <1>0, <1>4 DEF Steady
  <1>6. Known(keys(s), X, l, A)
    BY <1>5 DEF Linked, Chain, sceneKeys
  <1>7. s = scene.elements /\ m = learn(l, g)
    OBVIOUS
  <1> HIDE DEF D, A, s, m
  <1>8. Decoded(s, X, l, g.document, m)
    BY <1>1, <1>2, <1>3, <1>4, <1>6, <1>7, DecodeKeeps
  <1>9. m \in IDLedgers
    <2>1. g.boardIDsByWebID \in IDLedgers
      BY <1>1, <1>3, DecodedTyped
    <2> QED BY <1>3, <1>7, <2>1, LearnIs
  <1>10. Settled(s, g.document, m)
    BY <1>1, <1>3, <1>7, <1>8, <1>9, SettledDecodes
  <1> QED BY <1>7, <1>10

\* A scene is handled, and what was conveyed stays so: accepted, it shows the Board; refused, it
\* is to be replaced.
LEMMA SceneConveys ==
    ASSUME TypeInvariant, IdentitiesHold, NEW h \in Scenes(posted),
           NEW scene, scene = posted[h].scene, ~canvasIsBehind, ~reclaims(scene),
           NEW k, k = receiveScene(scene).coordinator,
           NEW ns \in Seq(Event), NEW f, Fewer(ns, posted, f), Others(ns, posted, f, h),
           \A i \in DOMAIN ns : h < f[i]
    PROVE  Conveys(coordinator, toPage, page.deferredUpdate, posted, k, toPage, page.deferredUpdate, ns)
  <1> DEFINE X == coordinator.snapshot.document
             l == coordinator.boardIDsByWebID
             o == receiveScene(scene)
             g == decodeChange(scene, X, l)
             u == page.deferredUpdate
  <1>0. draft \in Draft /\ coordinator \in Coordinator /\ posted \in Seq(Event)
    BY SituationIs
  <1>1. scene \in Scene
    BY <1>0, ScenesAre
  <1>2. \/ coordinator.lastLoaded = <<>> /\ o.coordinator = coordinator
        \/ coordinator.lastLoaded # <<>> /\ Outcome(o, g)
    BY <1>0, <1>1, ReceiveSceneIs
  <1>3. coordinator.lastLoaded # <<>> => Settled(scene.elements, g.document, learn(l, g))
    <2> SUFFICES ASSUME coordinator.lastLoaded # <<>>
                 PROVE  Settled(scene.elements, g.document, learn(l, g))
      OBVIOUS
    <2>1. coordinator.lastLoaded = <<X>>
      BY DEF canvasIsBehind
    <2>2. X = coordinator.snapshot.document /\ l = coordinator.boardIDsByWebID /\ g = decodeChange(scene, X, l)
      OBVIOUS
    <2> HIDE DEF X, l, g
    <2> QED BY <2>1, <2>2, SceneSettles
  <1>4. k = o.coordinator
    OBVIOUS
  <1> HIDE DEF X, l, o, g, u
  <1>5. ASSUME NEW W, Conveyed(coordinator, toPage, u, posted, W) PROVE Conveyed(k, toPage, u, ns, W)
    <2>1. Ends(posted, W)
      BY <1>5 DEF Conveyed
    <2>2. /\ Ends(ns, W)
          /\ Scenes(ns) = {} => \A i \in Scenes(posted) : i = h /\ posted[i].scene.elements = W
      BY <1>0, <2>1, GoneEnds
    <2>3. CASE Scenes(ns) # {}
      BY <2>2, <2>3 DEF Conveyed
    <2>4. CASE Scenes(ns) = {}
      <3>1. scene.elements = W
        BY <2>2, <2>4
      <3>2. CASE coordinator.lastLoaded = <<>> /\ o.coordinator = coordinator
        <4>1. <<>> # <<k.snapshot.document>>
          OBVIOUS
        <4> QED BY <1>4, <2>4, <3>2, <4>1, NothingEnds
      <3>3. CASE coordinator.lastLoaded # <<>> /\ Outcome(o, g)
        <4>1. CASE o.accepted
          <5>1. k.snapshot.document = g.document /\ k.boardIDsByWebID = learn(l, g)
            BY <1>4, <3>3, <4>1 DEF Outcome, l
          <5>2. Settled(W, k.snapshot.document, k.boardIDsByWebID)
            BY <1>3, <3>1, <3>3, <5>1
          <5> QED BY <2>4, <5>2, NothingEnds
        <4>2. CASE ~o.accepted
          <5>1. k.task = [task |-> "load", snapshot |-> coordinator.snapshot]
            BY <1>4, <3>3, <4>2 DEF Outcome
          <5>2. k.task.task = "load"
            BY <5>1
          <5> QED BY <2>4, <5>2, NothingEnds
        <4> QED BY <4>1, <4>2
      <3> QED BY <1>2, <3>2, <3>3
    <2> QED BY <2>3, <2>4
  <1>6. ~Awaits(coordinator, toPage, u, posted)
    BY DEF Awaits
  <1>7. Conveys(coordinator, toPage, u, posted, k, toPage, u, ns)
    BY <1>5, <1>6 DEF Conveys
  <1> QED BY <1>7 DEF u

\* A scene, a command with a scene, or a command alone is handled.
LEMMA EventInStep ==
    ASSUME TypeInvariant, IdentitiesHold, InStep, ReceiveEvent, ~raced'
    PROVE  InStep'
  <1> DEFINE m == Head(toNative)
             ns == replies \o Tail(toNative)
             k == coordinator'
             u == page.deferredUpdate
  <1>0. /\ coordinator \in Coordinator /\ replies \in Seq(Event) /\ toNative \in Seq(Event)
        /\ posted \in Seq(Event)
    BY SituationIs
  <1>1. /\ toNative # <<>> /\ toNative' = Tail(toNative)
        /\ IF carriesScene(m) THEN permitsCommand(m.command, receiveScene(m.scene))
           ELSE receiveCommand(m.command)
        /\ carriesScene(m) => replies = <<>> /\ ~canvasIsBehind
        /\ ~reclaims(m.scene)
        /\ UNCHANGED <<page, publication, toPage, replies, acts>>
    BY DEF ReceiveEvent
  <1>2. posted' = ns /\ ns \in Seq(Event)
    <2>1. Tail(toNative) \in Seq(Event)
      BY <1>0, <1>1, ShorterTyped
    <2> QED BY <1>0, <1>1, <2>1, JoinIs DEF posted
  <1>3. CASE carriesScene(m)
    <2>1. replies = <<>> /\ Len(replies) + 1 = 1
      BY <1>1, <1>3
    <2>2. \E f : /\ Fewer(ns, posted, f)
                 /\ \A i \in DOMAIN ns : replies = <<>> => 1 < f[i]
                 /\ Others(ns, posted, f, Len(replies) + 1)
      BY <1>0, <1>1, MessageGone DEF posted
    <2>3. 1 \in DOMAIN posted /\ posted[1] = m
      BY <1>0, <1>1, <2>1, MessageGone DEF posted
    <2>4. k = receiveScene(m.scene).coordinator
      BY <1>1, <1>3 DEF permitsCommand
    <2> HIDE DEF m, ns, k, u
    <2>5. PICK f : Fewer(ns, posted, f) /\ (\A i \in DOMAIN ns : 1 < f[i]) /\ Others(ns, posted, f, 1)
      BY <2>1, <2>2
    <2>6. 1 \in Scenes(posted) /\ m.scene = posted[1].scene
      BY <1>3, <2>3 DEF Scenes
    <2>7. ~canvasIsBehind /\ ~reclaims(m.scene)
      BY <1>1, <1>3
    <2>8. Conveys(coordinator, toPage, u, posted, k, toPage, u, ns)
      BY <1>2, <2>4, <2>5, <2>6, <2>7, SceneConveys DEF u
    <2> QED BY <1>1, <1>2, <2>8, ApplicationInStep DEF k, u
  <1>4. CASE ~carriesScene(m)
    <2>1. k = [coordinator EXCEPT !.observing = TRUE]
      BY <1>1, <1>4 DEF receiveCommand
    <2>2. /\ k.snapshot = coordinator.snapshot /\ k.lastLoaded = coordinator.lastLoaded
          /\ k.boardIDsByWebID = coordinator.boardIDsByWebID /\ k.task = coordinator.task
      BY <1>0, <2>1 DEF Coordinator
    <2>3. (Scenes(ns) = {} <=> Scenes(posted) = {}) /\ \A W : Ends(posted, W) => Ends(ns, W)
      <3>1. ns = replies \o Tail(toNative)
        OBVIOUS
      <3> HIDE DEF ns
      <3>2. Scenes(ns) = {} <=> Scenes(posted) = {}
        BY <1>0, <1>1, <1>4, <3>1, WordGone
      <3>3. \A W : Ends(posted, W) => Ends(ns, W)
        BY <1>0, <1>1, <1>4, <3>1, WordGone
      <3> QED BY <3>2, <3>3
    <2> HIDE DEF m, ns, k, u
    <2>4. Conveys(coordinator, toPage, u, posted, k, toPage, u, ns)
      BY <2>2, <2>3, ConveysSame
    <2> QED BY <1>1, <1>2, <2>4, ApplicationInStep DEF k, u
  <1> QED BY <1>3, <1>4

\* The reply to a flush is handled.
LEMMA ReplyInStep ==
    ASSUME TypeInvariant, IdentitiesHold, InStep, HandleReply, ~raced'
    PROVE  InStep'
  <1> DEFINE m == Head(replies)
             ns == Tail(replies) \o toNative
             k == coordinator'
             u == page.deferredUpdate
  <1>0. /\ replies \in Seq(Event) /\ toNative \in Seq(Event) /\ replies \in Seq(Reply)
    BY SituationIs DEF TypeInvariant
  <1>1. /\ replies # <<>> /\ replies' = Tail(replies)
        /\ permitsCommand(m.command, receiveScene(m.scene))
        /\ ~canvasIsBehind /\ ~reclaims(m.scene)
        /\ UNCHANGED <<page, publication, toPage, toNative, acts>>
    BY DEF HandleReply
  <1>2. PICK f : Fewer(ns, posted, f) /\ (\A i \in DOMAIN ns : 1 < f[i]) /\ Others(ns, posted, f, 1)
    BY <1>0, <1>1, ReplyGone DEF posted
  <1>3. 1 \in DOMAIN posted /\ posted[1] = m
    BY <1>0, <1>1, ReplyGone DEF posted
  <1>4. posted' = ns /\ ns \in Seq(Event)
    <2>1. Tail(replies) \in Seq(Event)
      BY <1>0, <1>1, ShorterTyped
    <2> QED BY <1>0, <1>1, <2>1, JoinIs DEF posted
  <1>5. carriesScene(m)
    <2>1. m \in Reply
      BY <1>0, <1>1, ShorterTyped
    <2> QED BY <2>1, EventKinds
  <1>6. k = receiveScene(m.scene).coordinator
    BY <1>1 DEF permitsCommand
  <1> HIDE DEF ns, m, k, u
  <1>7. 1 \in Scenes(posted) /\ m.scene = posted[1].scene
    BY <1>3, <1>5 DEF Scenes
  <1>8. Conveys(coordinator, toPage, u, posted, k, toPage, u, ns)
    BY <1>1, <1>2, <1>4, <1>6, <1>7, SceneConveys DEF u
  <1> QED BY <1>1, <1>4, <1>8, ApplicationInStep DEF k, u

\* A call that brings no document is sent, or none.
LEMMA CallSent ==
    ASSUME toPage \in Seq(Call), NEW t,
           t = toPage \/ \E m \in Call : ~carriesDocument(m) /\ t = Append(toPage, m), NEW u
    PROVE  ComingIn(t, u) <=> ComingIn(toPage, u)
  <1>1. CASE t = toPage
    BY <1>1
  <1>2. CASE \E m \in Call : ~carriesDocument(m) /\ t = Append(toPage, m)
    BY <1>2, AppendIs
  <1> QED BY <1>1, <1>2

\* A command from the menus, and the panel that shows the saved revision.
LEMMA PanelInStep ==
    ASSUME TypeInvariant, InStep, MenuFlush \/ InspectRevision
    PROVE  InStep'
  <1> DEFINE k == coordinator'  t == toPage'  u == page.deferredUpdate
  <1>0. coordinator \in Coordinator /\ toPage \in Seq(Call)
    BY DEF TypeInvariant
  <1>1. UNCHANGED <<page, publication, toNative, replies>>
    BY DEF MenuFlush, InspectRevision, pageUnchanged
  <1>2. /\ k.snapshot = coordinator.snapshot /\ k.lastLoaded = coordinator.lastLoaded
        /\ k.boardIDsByWebID = coordinator.boardIDsByWebID /\ k.task = coordinator.task
    BY <1>0 DEF MenuFlush, InspectRevision, Coordinator
  <1>3. t = toPage \/ \E m \in Call : ~carriesDocument(m) /\ t = Append(toPage, m)
    <2>1. CASE InspectRevision
      BY <2>1 DEF InspectRevision
    <2>2. CASE MenuFlush
      <3>1. PICK then \in {"undo", "redo", "saveRevision"} :
                t = toPage \/ t = Append(toPage, call("flush", none, then))
        BY <2>2 DEF MenuFlush
      <3>2. call("flush", none, then) \in Call /\ ~carriesDocument(call("flush", none, then))
        BY <3>1 DEF call, Call, Commands, carriesDocument
      <3> QED BY <3>1, <3>2
    <2> QED BY <2>1, <2>2
  <1>4. posted' = posted
    BY <1>1 DEF posted
  <1> HIDE DEF k, t, u
  <1>5. ComingIn(t, u) <=> ComingIn(toPage, u)
    BY <1>0, <1>3, CallSent
  <1>6. Conveys(coordinator, toPage, u, posted, k, t, u, posted)
    BY <1>2, <1>5, ConveysSame
  <1> QED BY <1>1, <1>4, <1>6, ApplicationInStep DEF k, t, u

\* The Board X is presented.
LEMMA PresentConveys ==
    ASSUME NEW c \in Coordinator, NEW X \in Document,
           c.lastLoaded = <<X>> => c.snapshot.document = X /\ c.task.task # "load",
           NEW k, k.snapshot.document = X, k.lastLoaded = c.lastLoaded,
           k.boardIDsByWebID = keeping(c.boardIDsByWebID, ids(X)),
           NEW calls, NEW t, NEW u, ComingIn(t, u) <=> ComingIn(calls, u), NEW ms
    PROVE  Conveys(c, calls, u, ms, k, t, u, ms)
  <1>1. ASSUME NEW W \in Seq(SceneElement), Conveyed(c, calls, u, ms, W) PROVE Conveyed(k, t, u, ms, W)
    <2>1. CASE c.lastLoaded = <<X>> /\ Settled(W, c.snapshot.document, c.boardIDsByWebID)
      <3>1. c.boardIDsByWebID \in IDLedgers
        BY DEF Coordinator
      <3>2. Settled(W, X, keeping(c.boardIDsByWebID, ids(X)))
        BY <2>1, <3>1, SettledPrunes
      <3> QED BY <1>1, <3>2 DEF Conveyed
    <2>2. CASE c.lastLoaded # <<X>>
      BY <1>1, <2>2 DEF Conveyed
    <2>3. CASE c.lastLoaded = <<X>> /\ ~Settled(W, c.snapshot.document, c.boardIDsByWebID)
      BY <1>1, <2>3 DEF Conveyed
    <2> QED BY <2>1, <2>2, <2>3
  <1>2. Awaits(c, calls, u, ms) => Awaits(k, t, u, ms)
    BY DEF Awaits
  <1> QED BY <1>1, <1>2 DEF Conveys

\* SwiftUI presents the Board.
LEMMA ObserveInStep ==
    ASSUME TypeInvariant, InStep, Observe, ~raced'
    PROVE  InStep'
  <1> DEFINE X == presentedDocument
             c == coordinator
             k == coordinator'
             t == toPage'
             u == page.deferredUpdate
             l == keeping(c.boardIDsByWebID, ids(X))
             pruned == [c EXCEPT !.boardIDsByWebID = l, !.snapshot = Presented, !.observing = FALSE]
             m == call("state", Presented, "none")
  <1>0. c \in Coordinator /\ draft \in Draft /\ toPage \in Seq(Call)
    BY DEF TypeInvariant
  <1>1. /\ \/ k = pruned \/ k = [pruned EXCEPT !.task = NoTask]
           \/ k = scheduleLoad(pruned, Presented) \/ k = scheduleReconcile(pruned, Presented)
        /\ c.lastLoaded = <<X>> => ~canvasIsBehind /\ c.task.task # "load"
        /\ t = toPage \/ t = Append(toPage, m)
        /\ UNCHANGED <<page, publication, draft, toNative, replies, acts>>
    <2>1. /\ k = CASE ~c.ready            -> pruned
                   [] c.ready /\ c.lastLoaded = <<X>>  -> [pruned EXCEPT !.task = NoTask]
                   [] c.ready /\ ~(c.lastLoaded = <<X>>) ->
                        IF c.lastLoaded = <<>> THEN scheduleLoad(pruned, Presented)
                        ELSE scheduleReconcile(pruned, Presented)
          /\ ~(c.lastLoaded = <<X>> /\ (canvasIsBehind \/ c.task.task = "load"))
          /\ t = toPage \/ t = Append(toPage, m)
          /\ UNCHANGED <<page, publication, draft, toNative, replies, acts>>
      BY DEF Observe
    <2> HIDE DEF pruned, m, k, X, t
    <2>2. c.ready \in BOOLEAN
      BY <1>0 DEF Coordinator
    <2> QED BY <2>1, <2>2
  <1>2. Presented \in Snapshot /\ Presented.document = X /\ X \in Document
    BY <1>0, PresentedIs
  <1>3. m \in Call /\ ~carriesDocument(m)
    BY <1>2 DEF call, Call, carriesDocument
  <1>4. l \in IDLedgers
    <2>1. c.boardIDsByWebID \in IDLedgers
      BY <1>0 DEF Coordinator
    <2> HIDE DEF X
    <2> QED BY <2>1, KeepingIs
  <1> HIDE DEF l, m
  <1>5. k.snapshot = Presented /\ k.lastLoaded = c.lastLoaded /\ k.boardIDsByWebID = l
    <2>1. pruned \in Coordinator /\ pruned.snapshot = Presented /\ pruned.lastLoaded = c.lastLoaded
          /\ pruned.boardIDsByWebID = l
      BY <1>0, <1>2, <1>4 DEF Coordinator
    <2> HIDE DEF pruned
    <2> QED BY <1>1, <2>1 DEF scheduleLoad, scheduleReconcile, Coordinator
  <1>6. c.lastLoaded = <<X>> => c.snapshot.document = X /\ c.task.task # "load"
    BY <1>1 DEF canvasIsBehind
  <1>7. posted' = posted
    BY <1>1 DEF posted
  <1> HIDE DEF X, k, t, u
  <1>8. ComingIn(t, u) <=> ComingIn(toPage, u)
    BY <1>0, <1>1, <1>3, CallSent
  <1>9. k.snapshot.document = X /\ k.boardIDsByWebID = keeping(c.boardIDsByWebID, ids(X))
    BY <1>2, <1>5 DEF l
  <1>10. Conveys(c, toPage, u, posted, k, t, u, posted)
    BY <1>0, <1>2, <1>5, <1>6, <1>8, <1>9, PresentConveys
  <1> QED BY <1>1, <1>7, <1>10, ApplicationInStep DEF k, t, u

\* A load or a reconcile runs: the presented Board is sent to the page.
LEMMA RunInStep ==
    ASSUME TypeInvariant, InStep, RunTask, ~raced'
    PROVE  InStep'
  <1> DEFINE k == coordinator'
             task == coordinator.task
             m == call(task.task, task.snapshot, "none")
             t == toPage'
             u == page.deferredUpdate
  <1>0. /\ coordinator \in Coordinator /\ toPage \in Seq(Call)
        /\ sceneIsComing <=> Scenes(posted) # {}
    BY ChannelsAre DEF TypeInvariant
  <1>1. /\ task # NoTask /\ t = Append(toPage, m) /\ ~sceneIsComing
        /\ UNCHANGED <<page, publication, draft, toNative, replies, acts>>
    BY DEF RunTask
  <1>2. task \in [task : {"load", "reconcile"}, snapshot : Snapshot]
    BY <1>0, <1>1 DEF Coordinator, Task
  <1>3. m \in Call /\ carriesDocument(m)
    BY <1>2 DEF call, Call, carriesDocument
  <1>4. posted' = posted
    BY <1>1 DEF posted
  <1> HIDE DEF m, t, k, u
  <1>5. ComingIn(t, u)
    BY <1>0, <1>1, <1>3, AppendIs
  <1>6. Conveys(coordinator, toPage, u, posted, k, t, u, posted)
    BY <1>0, <1>1, <1>5, NothingEnds DEF Conveys, Awaits
  <1> QED BY <1>1, <1>4, <1>6, ApplicationInStep DEF k, t, u

\* A step that does not race keeps the page in step.
LEMMA StepInStep ==
    ASSUME TypeInvariant, Sound(publication), PageFits, IdentitiesHold, InStep, [Next]_vars, ~raced'
    PROVE  InStep'
  <1>1. CASE UNCHANGED vars
    BY <1>1 DEF vars, InStep, posted
  <1>2. CASE Person
    BY <1>2, EditInStep, TouchInStep, FlushInStep, EndInStep, PanelInStep, StartInStep DEF Person
  <1>3. CASE System
    BY <1>3, FinishInStep, CommitInStep, UpdateInStep, FlushInStep, EndInStep, ReadyInStep,
       EventInStep, HopInStep, ReplyInStep, ObserveInStep, RunInStep DEF System
  <1> QED BY <1>1, <1>2, <1>3 DEF Next

-----------------------------------------------------------------------------
(* The pictograms and the gesture *)

\* A gesture of the page is one of the pointer, and the pictograms are those of the canvas.
Tidy(p, q) ==
    /\ q.active => p.held
    /\ p.loading \/ p.overlay = semanticOverlay(p.canvas)

\* A change of the canvas draws the pictograms, or waits for the end of the update.
LEMMA ChangeTidies ==
    ASSUME TypeInvariant, Tidy(page, publication), NEW p \in Page, NEW byPerson,
           handleChange(p, byPerson), p.held = page.held
    PROVE  Tidy(page', publication')
  <1> DEFINE s == changeScene(p)
             o == semanticOverlay(p.canvas)
  <1>1. s \in CanvasScene /\ publication \in Publication
    BY ReadTyped DEF TypeInvariant
  <1>2. CASE p.loading
    <2>1. page' = [p EXCEPT !.deferredChange = s] /\ publication' = publication
      BY <1>2 DEF handleChange
    <2> HIDE DEF s
    <2>2. page'.loading /\ page'.held = page.held
      BY <1>2, <2>1 DEF Page
    <2> QED BY <2>1, <2>2 DEF Tidy
  <1>3. CASE ~p.loading
    <2>1. page' = [p EXCEPT !.overlay = o] /\ publication' = acceptScene(publication, s)
      BY <1>3 DEF handleChange
    <2>2. publication'.active = publication.active
      BY <1>1, <2>1, AcceptTyped
    <2> HIDE DEF o
    <2>3. page'.overlay = o /\ page'.canvas = p.canvas /\ page'.held = page.held
      BY <2>1 DEF Page
    <2> QED BY <2>2, <2>3 DEF Tidy, o
  <1> QED BY <1>2, <1>3

\* The end of a gesture.
LEMMA InteractionTidies ==
    ASSUME TypeInvariant, Tidy(page, publication), NEW p \in Page, EndInteraction(p),
           p.canvas = page.canvas, p.loading = page.loading, p.overlay = page.overlay
    PROVE  Tidy(page', publication')
  <1> DEFINE did == publication.active /\ publishes(publication)
             t == endPointerInteraction(publication)
             q == completePointerInteraction(p, did)
  <1>0. publication \in Publication
    BY DEF TypeInvariant
  <1>1. page' = q /\ (publication' = t \/ publication' = overlaid(t))
    BY DEF EndInteraction
  <1>2. ~publication'.active
    <2>1. t \in Publication /\ ~t.active
      BY <1>0, EndTyped
    <2> HIDE DEF t
    <2> QED BY <1>1, <2>1, OverlaidTyped
  <1>3. did \in BOOLEAN
    BY <1>0 DEF publishes, Publication
  <1> HIDE DEF did
  <1>4. /\ q.overlay = p.overlay
        /\ q.loading \/ (q.canvas = p.canvas /\ q.loading = p.loading)
    BY <1>3, CompletedIs DEF Begun
  <1> QED BY <1>1, <1>2, <1>4 DEF Tidy

\* Every step.
LEMMA StepTidies ==
    ASSUME TypeInvariant, Tidy(page, publication), [Next]_vars
    PROVE  Tidy(page', publication')
  <1>0. page \in Page /\ publication \in Publication /\ toPage \in Seq(Call)
    BY DEF TypeInvariant
  <1>1. CASE UNCHANGED <<page, publication>>
    BY <1>1
  <1>2. CASE Draw \/ Move \/ Rotate \/ Select \/ Delete \/ Paste
    <2>1. PICK p : EditedPage(p) /\ edit(p)
      BY <1>2, DrawEdits, MoveEdits, RotateEdits, SelectEdits, DeleteEdits, PasteEdits
    <2> QED BY <2>1, ChangeTidies DEF EditedPage, edit
  <1>3. CASE CommitChange
    <2> DEFINE p == [page EXCEPT !.changed = FALSE]
    <2>1. p \in Page /\ p.held = page.held
      BY <1>0 DEF Page
    <2>2. handleChange(p, FALSE)
      BY <1>3 DEF CommitChange
    <2> HIDE DEF p
    <2> QED BY <2>1, <2>2, ChangeTidies
  <1>4. CASE PointerDown
    <2> DEFINE q == noteUserInput(page)
    <2>1. page' = [q EXCEPT !.held = TRUE]
      BY <1>4 DEF PointerDown
    <2>2. q \in Page /\ q.canvas = page.canvas /\ q.loading = page.loading /\ q.overlay = page.overlay
      BY <1>0, NotedKeeps
    <2> HIDE DEF q
    <2>3. /\ page'.held /\ page'.canvas = page.canvas /\ page'.loading = page.loading
          /\ page'.overlay = page.overlay
      BY <2>1, <2>2 DEF Page
    <2> QED BY <2>3 DEF Tidy
  <1>5. CASE PostTool \/ PostReturn \/ FlushThenPost \/ ReceiveFlush
    <2>1. page' = noteUserInput(page) \/ page' = page
      BY <1>5 DEF PostTool, PostReturn, FlushThenPost, ReceiveFlush
    <2>2. /\ page'.canvas = page.canvas /\ page'.loading = page.loading /\ page'.overlay = page.overlay
          /\ page'.held = page.held
      BY <1>0, <2>1, NotedKeeps
    <2>3. publication' = publication \/ publication' = adoptScene(publication, readScene(page))
      BY <1>5 DEF PostTool, PostReturn, FlushThenPost, ReceiveFlush
    <2>4. publication'.active => publication.active
      BY <1>0, <2>3, ReadTyped, AdoptTyped
    <2> QED BY <2>2, <2>4 DEF Tidy
  <1>6. CASE Blur
    <2>1. EndInteraction(page)
      BY <1>6 DEF Blur
    <2> QED BY <1>0, <2>1, InteractionTidies
  <1>7. CASE PointerUp
    <2> DEFINE p == [page EXCEPT !.held = FALSE]
    <2>1. EndInteraction(p)
      BY <1>7 DEF PointerUp
    <2>2. p \in Page /\ p.canvas = page.canvas /\ p.loading = page.loading /\ p.overlay = page.overlay
      BY <1>0 DEF Page
    <2> HIDE DEF p
    <2> QED BY <2>1, <2>2, InteractionTidies
  <1>8. CASE FinishNativeUpdate
    <2> DEFINE scene == readScene(page)
               change == IF page.deferredChange = none THEN scene ELSE page.deferredChange
               o == semanticOverlay(page.canvas)
    <2>1. /\ page' = [page EXCEPT !.overlay = o, !.loading = FALSE, !.finishing = FALSE,
                       !.deferredChange = none, !.received = FALSE]
          /\ publication' = acceptScene(publication, change) \/ publication' = adoptScene(publication, scene)
      BY <1>8 DEF FinishNativeUpdate
    <2>2. scene \in CanvasScene /\ change \in CanvasScene
      BY <1>0, ReadTyped DEF Page
    <2> HIDE DEF scene, change, o
    <2>3. page'.overlay = o /\ page'.canvas = page.canvas /\ page'.held = page.held
      BY <1>0, <2>1 DEF Page
    <2>4. publication'.active => publication.active
      <3>1. acceptScene(publication, change).active = publication.active
        BY <1>0, <2>2, AcceptTyped
      <3>2. ~adoptScene(publication, scene).active
        BY <1>0, <2>2, AdoptTyped
      <3> QED BY <2>1, <3>1, <3>2
    <2> QED BY <2>3, <2>4 DEF Tidy, o
  <1>9. CASE ReceiveUpdate
    <2> DEFINE m == Head(toPage)
               u == [call |-> m.call, snapshot |-> m.snapshot, elements |-> broughtBy(m)]
               g == page.changed \/ page.readOnly # m.snapshot.readOnly
               s == [page EXCEPT !.readOnly = m.snapshot.readOnly, !.changed = g]
    <2>1. /\ toPage # <<>> /\ m.call # "flush"
          /\ page' = [s EXCEPT !.deferredUpdate = u] \/ page' = nativeUpdate(s, u)
          /\ publication' = publication \/ publication' = overlaid(publication)
      BY <1>9 DEF ReceiveUpdate, broughtBy
    <2>2. m \in Call
      BY <1>0, <2>1, ShorterTyped
    <2>3. u \in Update
      BY <2>1, <2>2, BroughtIs
    <2>4. m.snapshot.readOnly \in BOOLEAN /\ g \in BOOLEAN
      <3>1. m.snapshot \in Snapshot
        BY <2>1, <2>2 DEF Call
      <3> QED BY <1>0, <3>1 DEF Snapshot, Page
    <2> HIDE DEF u, g, m
    <2>5. /\ s \in Page /\ s.canvas = page.canvas /\ s.loading = page.loading /\ s.overlay = page.overlay
          /\ s.held = page.held
      BY <1>0, <2>4 DEF Page
    <2> HIDE DEF s
    <2>6. /\ page'.held = page.held /\ page'.overlay = page.overlay
          /\ page'.loading \/ (page'.canvas = page.canvas /\ page'.loading = page.loading)
      <3>1. CASE page' = [s EXCEPT !.deferredUpdate = u]
        BY <2>5, <3>1 DEF Page
      <3>2. CASE page' = nativeUpdate(s, u)
        BY <2>3, <2>5, <3>2, NativeUpdateIs DEF Begun
      <3> QED BY <2>1, <3>1, <3>2
    <2>7. publication'.active = publication.active
      BY <1>0, <2>1, OverlaidTyped
    <2> QED BY <2>6, <2>7 DEF Tidy
  <1>10. CASE ResetEditorSession
    <2>1. page' = NewPage /\ publication' = NewPublication
      BY <1>10 DEF ResetEditorSession
    <2>2. NewPage.loading
      BY DEF NewPage
    <2> QED BY <2>1, <2>2, NewPublicationIs DEF Tidy
  <1>11. CASE MenuFlush \/ InspectRevision \/ ReceiveReady \/ ReceiveEvent \/ ReceiveReply \/ HandleReply
             \/ Observe \/ RunTask
    BY <1>1, <1>11 DEF MenuFlush, InspectRevision, ReceiveReady, ReceiveEvent, ReceiveReply, HandleReply,
                       Observe, RunTask, pageUnchanged
  <1>12. CASE UNCHANGED vars
    BY <1>1, <1>12 DEF vars
  <1> QED BY <1>2, <1>3, <1>4, <1>5, <1>6, <1>7, <1>8, <1>9, <1>10, <1>11, <1>12 DEF Next, Person, System

\* The start.
LEMMA InitTidy == Init => Tidy(page, publication)
  <1>1. NewPage.loading
    BY DEF NewPage
  <1> QED BY <1>1, NewPublicationIs DEF Init, Tidy

-----------------------------------------------------------------------------
(* The coordinator follows the presented Board *)

\* What SwiftUI has still to hand over, and what the coordinator has still to send.
Follows(c, X) == c.observing \/ c.snapshot.document = X
Sends(c)      == c.observing \/ ~c.ready \/ c.task # NoTask \/ c.lastLoaded = <<c.snapshot.document>>
Starts(c, ms) == c.ready \/ \E n \in DOMAIN ms : ms[n].event = "ready"

\* A scene that changes anything has the Board observed again.
LEMMA ReceivedObserves ==
    ASSUME coordinator \in Coordinator, NEW scene, NEW o, o = receiveScene(scene)
    PROVE  \/ o.coordinator.observing
           \/ ~o.accepted /\ o.draft = draft /\ o.coordinator = coordinator
  <1>1. CASE coordinator.lastLoaded = <<>>
    BY <1>1 DEF receiveScene
  <1>2. CASE coordinator.lastLoaded # <<>>
    <2> DEFINE d == decodeChange(scene, coordinator.snapshot.document, coordinator.boardIDsByWebID)
               r == replaceDocument(draft, d.document, d.selected)
               next == [coordinator.snapshot EXCEPT !.document = d.document,
                                                    !.selected = d.selected, !.tool = d.tool]
               ledger == learn(coordinator.boardIDsByWebID, d)
               advanced == [coordinator EXCEPT !.snapshot = next, !.lastLoaded = <<d.document>>,
                              !.observing = TRUE, !.boardIDsByWebID = ledger]
    <2>1. \/ o.coordinator = scheduleReconcile(advanced, next)
          \/ o.coordinator = advanced
          \/ o.coordinator = refuse(coordinator)
      BY <1>2 DEF receiveScene, onSceneChange, received
    <2> HIDE DEF d, r, next, ledger
    <2>2. advanced.observing /\ scheduleReconcile(advanced, next).observing
      BY DEF Coordinator, scheduleReconcile
    <2>3. refuse(coordinator).observing
      BY DEF Coordinator, refuse, scheduleLoad
    <2> HIDE DEF advanced
    <2> QED BY <2>1, <2>2, <2>3
  <1> QED BY <1>1, <1>2

\* A scene is handled, and the command it came with.
LEMMA OutcomeFollows ==
    ASSUME TypeInvariant, NEW scene \in Scene, NEW command, permitsCommand(command, receiveScene(scene)),
           Follows(coordinator, presentedDocument)
    PROVE  /\ Follows(coordinator', presentedDocument')
           /\ Sends(coordinator) => Sends(coordinator')
           /\ coordinator'.ready = coordinator.ready
  <1> DEFINE o == receiveScene(scene)
             d == decodeChange(scene, coordinator.snapshot.document, coordinator.boardIDsByWebID)
  <1>0. draft \in Draft /\ coordinator \in Coordinator
    BY DEF TypeInvariant
  <1>1. coordinator' = o.coordinator /\ (~o.accepted => draft' = o.draft)
    BY DEF permitsCommand
  <1>2. o.coordinator.observing \/ (~o.accepted /\ o.draft = draft /\ o.coordinator = coordinator)
    BY <1>0, ReceivedObserves
  <1>3. o.coordinator.ready = coordinator.ready
    <2>1. o.coordinator = coordinator \/ Outcome(o, d)
      BY <1>0, ReceiveSceneIs
    <2> QED BY <2>1 DEF Outcome
  <1> HIDE DEF o, d
  <1>4. CASE o.coordinator.observing
    BY <1>1, <1>3, <1>4 DEF Follows, Sends
  <1>5. CASE ~o.accepted /\ o.draft = draft /\ o.coordinator = coordinator
    <2>1. draft' = draft /\ coordinator' = coordinator
      BY <1>1, <1>5
    <2>2. presentedDocument' = presentedDocument
      BY <2>1 DEF presentedDocument
    <2> QED BY <2>1, <2>2
  <1> QED BY <1>2, <1>4, <1>5

\* SwiftUI presents the Board.
LEMMA ObserveFollows ==
    ASSUME TypeInvariant, Observe
    PROVE  /\ Follows(coordinator', presentedDocument') /\ Sends(coordinator')
           /\ coordinator'.ready = coordinator.ready
  <1> DEFINE X == presentedDocument
             c == coordinator
             k == coordinator'
             l == keeping(c.boardIDsByWebID, ids(X))
             pruned == [c EXCEPT !.boardIDsByWebID = l, !.snapshot = Presented, !.observing = FALSE]
             settled == c.lastLoaded = <<X>>
  <1>0. c \in Coordinator /\ draft \in Draft
    BY DEF TypeInvariant
  <1>1. /\ \/ k = pruned /\ ~c.ready
           \/ k = [pruned EXCEPT !.task = NoTask] /\ settled
           \/ k = scheduleLoad(pruned, Presented)
           \/ k = scheduleReconcile(pruned, Presented)
        /\ draft' = draft
    <2>1. /\ k = CASE ~c.ready            -> pruned
                   [] c.ready /\ settled  -> [pruned EXCEPT !.task = NoTask]
                   [] c.ready /\ ~settled ->
                        IF c.lastLoaded = <<>> THEN scheduleLoad(pruned, Presented)
                        ELSE scheduleReconcile(pruned, Presented)
          /\ draft' = draft
      BY DEF Observe
    <2> HIDE DEF pruned, k, X, settled
    <2>2. c.ready \in BOOLEAN /\ settled \in BOOLEAN
      BY <1>0 DEF Coordinator, settled
    <2> QED BY <2>1, <2>2
  <1>2. Presented \in Snapshot /\ Presented.document = X
    BY <1>0, PresentedIs
  <1>3. presentedDocument' = X
    BY <1>1 DEF presentedDocument
  <1> HIDE DEF X, l, k
  <1>4. /\ pruned.ready = c.ready /\ pruned.snapshot = Presented /\ pruned.lastLoaded = c.lastLoaded
        /\ DOMAIN pruned = DOMAIN c
    BY <1>0 DEF Coordinator
  <1>5. "task" \in DOMAIN pruned /\ c.ready \in BOOLEAN
    BY <1>0, <1>4 DEF Coordinator
  <1> HIDE DEF pruned
  <1>6. CASE k = pruned /\ ~c.ready
    BY <1>2, <1>3, <1>4, <1>6 DEF Follows, Sends, k
  <1>7. CASE k = [pruned EXCEPT !.task = NoTask] /\ settled
    <2>1. k.ready = c.ready /\ k.snapshot = Presented /\ k.lastLoaded = c.lastLoaded
      BY <1>4, <1>7
    <2> QED BY <1>2, <1>3, <1>7, <2>1 DEF Follows, Sends, k
  <1>8. CASE k = scheduleLoad(pruned, Presented) \/ k = scheduleReconcile(pruned, Presented)
    <2> DEFINE due(name) == [task |-> name, snapshot |-> Presented]
    <2>1. PICK name \in {"load", "reconcile"} : k = [pruned EXCEPT !.task = due(name)]
      BY <1>8 DEF scheduleLoad, scheduleReconcile
    <2>2. due(name) # NoTask
      BY DEF NoTask
    <2> HIDE DEF due
    <2>3. k.ready = c.ready /\ k.snapshot = Presented /\ k.task # NoTask
      BY <1>4, <1>5, <2>1, <2>2
    <2> QED BY <1>2, <1>3, <2>3 DEF Follows, Sends, k
  <1> QED BY <1>1, <1>6, <1>7, <1>8

-----------------------------------------------------------------------------
(* A page is sent the presented Board *)

\* Page and application know of each other what their tasks and messages are to bring.
Followed ==
    /\ Follows(coordinator, presentedDocument) /\ Starts(coordinator, toNative)
    /\ ~raced => Sends(coordinator)

\* The page posts what it posts, if anything.
Posts == \E S : \E ms \in Seq(S) : Post(ms)

\* A change of the canvas is published, or not.
LEMMA ChangePosts ==
    ASSUME TypeInvariant, NEW p \in Page, NEW byPerson, handleChange(p, byPerson)
    PROVE  Posts
  <1>0. publication \in Publication /\ toNative \in Seq(Event) /\ changeScene(p) \in CanvasScene
    BY ReadTyped DEF TypeInvariant
  <1>1. CASE toNative' = toNative
    <2>1. Post(<<>>) /\ <<>> \in Seq(Event)
      BY <1>0, <1>1 DEF Post
    <2> QED BY <2>1 DEF Posts
  <1>2. CASE Post(accepted(publication, changeScene(p)))
    <2>1. accepted(publication, changeScene(p)) \in Seq(SceneEvent)
      BY <1>0, AcceptTyped
    <2> QED BY <1>2, <2>1 DEF Posts
  <1> QED BY <1>1, <1>2 DEF handleChange

\* The steps of the page leave the application alone.
LEMMA PagePosts ==
    ASSUME TypeInvariant,
           \/ PointerDown \/ Draw \/ Move \/ Rotate \/ Select \/ Delete \/ Paste \/ FlushThenPost
           \/ PostTool \/ PostReturn \/ Blur \/ PointerUp \/ CommitChange \/ FinishNativeUpdate
           \/ ReceiveUpdate \/ ReceiveFlush
    PROVE  Posts /\ UNCHANGED <<draft, coordinator>>
  <1>0. page \in Page /\ publication \in Publication /\ toNative \in Seq(Event)
    BY DEF TypeInvariant
  <1>1. \A m : Post(<<m>>) => Posts
    <2>1. \A m : <<m>> \in Seq({m})
      OBVIOUS
    <2> QED BY <2>1 DEF Posts
  <1>2. toNative' = toNative => Posts
    <2>1. toNative' = toNative => Post(<<>>) /\ <<>> \in Seq(Event)
      BY <1>0 DEF Post
    <2> QED BY <2>1 DEF Posts
  <1>3. CASE Draw \/ Move \/ Rotate \/ Select \/ Delete \/ Paste
    <2>1. PICK p : EditedPage(p) /\ edit(p)
      BY <1>3, DrawEdits, MoveEdits, RotateEdits, SelectEdits, DeleteEdits, PasteEdits
    <2>2. UNCHANGED <<draft, coordinator>>
      <3>1. Draw => nativeUnchanged
        BY Zenon DEF Draw
      <3>2. Move => nativeUnchanged
        BY Zenon DEF Move
      <3>3. Rotate => nativeUnchanged
        BY Zenon DEF Rotate
      <3>4. Select => nativeUnchanged
        BY Zenon DEF Select
      <3>5. Delete => nativeUnchanged
        BY Zenon DEF Delete
      <3>6. Paste => nativeUnchanged
        BY Zenon DEF Paste
      <3> QED BY <1>3, <3>1, <3>2, <3>3, <3>4, <3>5, <3>6 DEF nativeUnchanged
    <2> QED BY <2>1, <2>2, ChangePosts DEF EditedPage, edit
  <1>4. CASE PointerDown \/ ReceiveUpdate
    BY <1>2, <1>4 DEF PointerDown, ReceiveUpdate, nativeUnchanged
  <1>5. CASE FlushThenPost \/ PostTool \/ PostReturn \/ ReceiveFlush
    BY <1>1, <1>5 DEF FlushThenPost, PostTool, PostReturn, ReceiveFlush, nativeUnchanged
  <1>6. CASE Blur \/ PointerUp
    <2>1. Post(ended(publication)) /\ UNCHANGED <<draft, coordinator>>
      BY <1>6 DEF Blur, PointerUp, EndInteraction, nativeUnchanged
    <2>2. ended(publication) \in Seq(SceneEvent)
      BY <1>0, EndTyped
    <2> QED BY <2>1, <2>2 DEF Posts
  <1>7. CASE CommitChange
    <2> DEFINE p == [page EXCEPT !.changed = FALSE]
    <2>1. p \in Page
      BY <1>0 DEF Page
    <2>2. handleChange(p, FALSE) /\ UNCHANGED <<draft, coordinator>>
      BY <1>7 DEF CommitChange
    <2> HIDE DEF p
    <2> QED BY <2>1, <2>2, ChangePosts
  <1>8. CASE FinishNativeUpdate
    <2> DEFINE scene == readScene(page)
               change == IF page.deferredChange = none THEN scene ELSE page.deferredChange
    <2>1. /\ Post(accepted(publication, change)) \/ toNative' = toNative
          /\ UNCHANGED <<draft, coordinator>>
      BY <1>8 DEF FinishNativeUpdate
    <2>2. change \in CanvasScene
      BY <1>0, ReadTyped DEF Page
    <2> HIDE DEF change
    <2>3. accepted(publication, change) \in Seq(SceneEvent)
      BY <1>0, <2>2, AcceptTyped
    <2> QED BY <1>2, <2>1, <2>3 DEF Posts
  <1> QED BY <1>3, <1>4, <1>5, <1>6, <1>7, <1>8

\* The page's first word is not lost.
LEMMA StartsOn ==
    ASSUME toNative \in Seq(Event), Starts(coordinator, toNative),
           coordinator'.ready = coordinator.ready,
           \/ Posts \/ toNative' = toNative
           \/ toNative # <<>> /\ Head(toNative).event # "ready" /\ toNative' = Tail(toNative)
    PROVE  Starts(coordinator', toNative')
  <1>1. CASE coordinator.ready
    BY <1>1 DEF Starts
  <1>2. CASE ~coordinator.ready
    <2>1. PICK n \in DOMAIN toNative : toNative[n].event = "ready"
      BY <1>2 DEF Starts
    <2>2. CASE Posts
      <3>1. PICK S : \E ms \in Seq(S) : toNative' = toNative \o ms
        BY <2>2 DEF Posts, Post
      <3>2. PICK ms \in Seq(S) : toNative' = toNative \o ms
        BY <3>1
      <3>3. n \in DOMAIN (toNative \o ms) /\ (toNative \o ms)[n] = toNative[n]
        BY <2>1
      <3> QED BY <2>1, <3>2, <3>3 DEF Starts
    <2>3. CASE toNative' = toNative
      BY <2>1, <2>3 DEF Starts
    <2>4. CASE toNative # <<>> /\ Head(toNative).event # "ready" /\ toNative' = Tail(toNative)
      <3>1. n # 1 /\ n \in 1..Len(toNative)
        BY <2>1, <2>4
      <3>2. n - 1 \in DOMAIN Tail(toNative) /\ Tail(toNative)[n - 1] = toNative[n]
        BY <3>1, <2>4
      <3> QED BY <2>1, <2>4, <3>2 DEF Starts
    <2> QED BY <2>2, <2>3, <2>4
  <1> QED BY <1>1, <1>2

\* The application's own steps.
LEMMA ApplicationFollows ==
    ASSUME TypeInvariant, Followed, MenuFlush \/ InspectRevision \/ ReceiveReady \/ RunTask \/ ResetEditorSession
    PROVE  /\ Follows(coordinator', presentedDocument') /\ Starts(coordinator', toNative')
           /\ ~raced /\ ~raced' => Sends(coordinator')
  <1> DEFINE c == coordinator  k == coordinator'
  <1>0. c \in Coordinator /\ draft \in Draft /\ toNative \in Seq(Event)
    BY DEF TypeInvariant
  <1>f. Follows(c, presentedDocument) /\ Starts(c, toNative) /\ (~raced => Sends(c))
    BY DEF Followed
  <1>p. draft' = draft => presentedDocument' = presentedDocument
    BY DEF presentedDocument
  <1>1. CASE MenuFlush \/ InspectRevision
    <2>1. k.ready = c.ready /\ toNative' = toNative /\ raced' = raced
          /\ (k.observing \/ (draft' = draft /\ k = c))
      BY <1>0, <1>1 DEF MenuFlush, InspectRevision, Coordinator
    <2>2. Starts(k, toNative')
      BY <1>f, <2>1 DEF Starts
    <2>3. Follows(k, presentedDocument') /\ (Sends(c) => Sends(k))
      BY <1>f, <1>p, <2>1 DEF Follows, Sends
    <2> QED BY <1>f, <2>1, <2>2, <2>3
  <1>2. CASE ReceiveReady
    <2> DEFINE t == [task |-> "load", snapshot |-> c.snapshot]
    <2>1. k = [[c EXCEPT !.task = t] EXCEPT !.ready = TRUE] /\ draft' = draft
      BY <1>2 DEF ReceiveReady, scheduleLoad
    <2>2. t # NoTask
      BY DEF NoTask
    <2> HIDE DEF t
    <2>3. k.ready /\ k.task # NoTask /\ k.snapshot = c.snapshot /\ k.observing = c.observing
      BY <1>0, <2>1, <2>2 DEF Coordinator
    <2> QED BY <1>f, <1>p, <2>1, <2>3 DEF Follows, Starts, Sends
  <1>3. CASE RunTask
    <2> DEFINE X == c.task.snapshot.document
    <2>1. /\ k = [c EXCEPT !.task = NoTask, !.lastLoaded = <<X>>] /\ draft' = draft /\ toNative' = toNative
          /\ raced' = (raced \/ sceneIsComing \/ X # c.snapshot.document)
      BY <1>3 DEF RunTask
    <2> HIDE DEF X
    <2>2. k.ready = c.ready /\ k.lastLoaded = <<X>> /\ k.snapshot = c.snapshot /\ k.observing = c.observing
      BY <1>0, <2>1 DEF Coordinator
    <2>3. ~raced' => X = c.snapshot.document
      BY <2>1
    <2>4. Follows(k, presentedDocument') /\ (~raced' => Sends(k))
      BY <1>f, <1>p, <2>1, <2>2, <2>3 DEF Follows, Sends
    <2>5. Starts(k, toNative')
      BY <1>f, <2>1, <2>2 DEF Starts
    <2> QED BY <2>4, <2>5
  <1>4. CASE ResetEditorSession
    <2>1. k = NewCoordinator(Presented) /\ toNative' = Ready /\ draft' = draft
      BY <1>4 DEF ResetEditorSession
    <2>2. k.snapshot.document = presentedDocument /\ ~k.ready
      BY <1>0, <2>1, PresentedIs DEF NewCoordinator
    <2>3. 1 \in DOMAIN Ready /\ Ready[1].event = "ready"
      BY DEF Ready, event
    <2> QED BY <1>p, <2>1, <2>2, <2>3 DEF Follows, Starts, Sends
  <1> QED BY <1>1, <1>2, <1>3, <1>4

\* A message from the page is handled.
LEMMA MessageFollows ==
    ASSUME TypeInvariant, Followed, ReceiveEvent \/ ReceiveReply \/ HandleReply
    PROVE  /\ Follows(coordinator', presentedDocument') /\ Starts(coordinator', toNative')
           /\ ~raced => Sends(coordinator')
  <1> DEFINE c == coordinator  k == coordinator'  m == Head(toNative)
  <1>0. /\ c \in Coordinator /\ draft \in Draft /\ toNative \in Seq(Event) /\ replies \in Seq(Event)
        /\ replies \in Seq(Reply)
    BY ChannelsAre DEF TypeInvariant
  <1>f. Follows(c, presentedDocument) /\ Starts(c, toNative) /\ (~raced => Sends(c))
    BY DEF Followed
  <1>p. draft' = draft => presentedDocument' = presentedDocument
    BY DEF presentedDocument
  <1>1. CASE ReceiveEvent
    <2>1. /\ toNative # <<>> /\ m.event # "ready" /\ toNative' = Tail(toNative)
          /\ IF carriesScene(m) THEN permitsCommand(m.command, receiveScene(m.scene))
             ELSE receiveCommand(m.command)
      BY <1>1 DEF ReceiveEvent
    <2>2. carriesScene(m) => m.scene \in Scene
      <3>1. m \in Event
        BY <1>0, <2>1, ShorterTyped
      <3> QED BY <3>1, EventKinds
    <2> HIDE DEF m
    <2>3. Follows(k, presentedDocument') /\ (Sends(c) => Sends(k)) /\ k.ready = c.ready
      <3>1. CASE carriesScene(m)
        <4>1. permitsCommand(m.command, receiveScene(m.scene)) /\ m.scene \in Scene
          BY <2>1, <2>2, <3>1
        <4> QED BY <1>f, <4>1, OutcomeFollows
      <3>2. CASE ~carriesScene(m)
        <4>1. k = [c EXCEPT !.observing = TRUE]
          BY <2>1, <3>2 DEF receiveCommand
        <4>2. k.observing /\ k.ready = c.ready
          BY <1>0, <4>1 DEF Coordinator
        <4> QED BY <4>2 DEF Follows, Sends
      <3> QED BY <3>1, <3>2
    <2>4. Starts(k, toNative')
      BY <1>0, <1>f, <2>1, <2>3, StartsOn DEF m
    <2> QED BY <1>f, <2>3, <2>4
  <1>2. CASE ReceiveReply
    <2>1. /\ toNative # <<>> /\ m.event # "ready" /\ toNative' = Tail(toNative)
          /\ draft' = draft /\ k = c
      BY <1>2 DEF ReceiveReply
    <2>2. Starts(k, toNative')
      BY <1>0, <1>f, <2>1, StartsOn
    <2> QED BY <1>f, <1>p, <2>1, <2>2
  <1>3. CASE HandleReply
    <2> DEFINE r == Head(replies)
    <2>1. replies # <<>> /\ toNative' = toNative /\ permitsCommand(r.command, receiveScene(r.scene))
      BY <1>3 DEF HandleReply
    <2>2. r.scene \in Scene
      <3>1. r \in Reply
        BY <1>0, <2>1, ShorterTyped
      <3> QED BY <3>1, EventKinds
    <2> HIDE DEF r
    <2>3. Follows(k, presentedDocument') /\ (Sends(c) => Sends(k)) /\ k.ready = c.ready
      BY <1>f, <2>1, <2>2, OutcomeFollows
    <2>4. Starts(k, toNative')
      BY <1>0, <1>f, <2>1, <2>3, StartsOn
    <2> QED BY <1>f, <2>3, <2>4
  <1> QED BY <1>1, <1>2, <1>3

\* Every step.
LEMMA StepFollows ==
    ASSUME TypeInvariant, Followed, [Next]_vars
    PROVE  Followed'
  <1> DEFINE c == coordinator  k == coordinator'
  <1>0. toNative \in Seq(Event)
    BY DEF TypeInvariant
  <1>f. Follows(c, presentedDocument) /\ Starts(c, toNative) /\ (~raced => Sends(c))
    BY DEF Followed
  <1>r. ~raced' => ~raced
    BY RacedStays
  <1>p. draft' = draft => presentedDocument' = presentedDocument
    BY DEF presentedDocument
  <1>g. /\ Follows(k, presentedDocument') /\ Starts(k, toNative')
        /\ ~raced /\ ~raced' => Sends(k)
    <2>1. CASE UNCHANGED vars
      <3>1. draft' = draft /\ k = c /\ toNative' = toNative
        BY <2>1 DEF vars
      <3> QED BY <1>f, <1>p, <3>1
    <2>2. CASE PointerDown \/ Draw \/ Move \/ Rotate \/ Select \/ Delete \/ Paste \/ FlushThenPost
               \/ PostTool \/ PostReturn \/ Blur \/ PointerUp \/ CommitChange \/ FinishNativeUpdate
               \/ ReceiveUpdate \/ ReceiveFlush
      <3>1. Posts /\ draft' = draft /\ k = c
        BY <2>2, PagePosts
      <3>2. Starts(k, toNative')
        BY <1>0, <1>f, <3>1, StartsOn
      <3> QED BY <1>f, <1>p, <3>1, <3>2
    <2>3. CASE MenuFlush \/ InspectRevision \/ ReceiveReady \/ RunTask \/ ResetEditorSession
      BY <2>3, ApplicationFollows
    <2>4. CASE ReceiveEvent \/ ReceiveReply \/ HandleReply
      BY <2>4, MessageFollows
    <2>5. CASE Observe
      <3>1. Follows(k, presentedDocument') /\ Sends(k) /\ k.ready = c.ready
        BY <2>5, ObserveFollows
      <3>2. toNative' = toNative
        BY <2>5 DEF Observe
      <3>3. Starts(k, toNative')
        BY <1>0, <1>f, <3>1, <3>2, StartsOn
      <3> QED BY <3>1, <3>3
    <2> QED BY <2>1, <2>2, <2>3, <2>4, <2>5 DEF Next, Person, System
  <1> QED BY <1>g, <1>r DEF Followed

\* The start.
LEMMA InitFollows == Init => Followed
  <1> SUFFICES ASSUME Init PROVE Followed
    OBVIOUS
  <1>1. /\ ~coordinator.ready /\ coordinator.snapshot.document = InitialDocument
        /\ presentedDocument = InitialDocument /\ toNative = Ready
    BY DEF Init, NewCoordinator, presentedDocument
  <1>2. 1 \in DOMAIN Ready /\ Ready[1].event = "ready"
    BY DEF Ready, event
  <1> QED BY <1>1, <1>2 DEF Followed, Follows, Starts, Sends

-----------------------------------------------------------------------------
(* The canvas shows the presented Board *)

SettledInvariant ==
    /\ IdentityInvariant /\ Followed /\ Tidy(page, publication)
    /\ ~raced => InStep

\* The invariant holds at the start and after every step.
LEMMA SettledInvariantHolds ==
    /\ Init => SettledInvariant
    /\ SettledInvariant /\ [Next]_vars => SettledInvariant'
  <1>1. ASSUME Init PROVE SettledInvariant
    <2>1. IdentityInvariant /\ Followed /\ Tidy(page, publication) /\ InStep
      BY <1>1, IdentityInvariantHolds, InitFollows, InitTidy, StartInStep
    <2> QED BY <2>1 DEF SettledInvariant
  <1>2. ASSUME SettledInvariant, [Next]_vars PROVE SettledInvariant'
    <2>1. /\ IdentityInvariant /\ Followed /\ Tidy(page, publication) /\ (~raced => InStep)
          /\ TypeInvariant /\ Sound(publication) /\ PageFits /\ (~raced => IdentitiesHold)
      BY <1>2 DEF SettledInvariant, IdentityInvariant, PublicationIsSound
    <2>2. IdentityInvariant' /\ Followed' /\ Tidy(page, publication)'
      BY <1>2, <2>1, IdentityInvariantHolds, StepFollows, StepTidies
    <2>3. ~raced' => InStep'
      BY <1>2, <2>1, RacedStays, StepInStep
    <2> QED BY <2>2, <2>3 DEF SettledInvariant
  <1> QED BY <1>1, <1>2

\* When nothing is due, the canvas decodes as the presented Board.
LEMMA QuietSettles ==
    ASSUME SettledInvariant, Quiet, ~raced
    PROVE  /\ ~page.loading /\ page.canvas \in Seq(CanvasElement)
           /\ coordinator.snapshot.document = presentedDocument
           /\ Settled(visible(page.canvas), coordinator.snapshot.document, coordinator.boardIDsByWebID)
  <1> DEFINE c == coordinator  u == page.deferredUpdate  v == page.canvas
             S == coordinator.snapshot.document
  <1>1. /\ TypeInvariant /\ Sound(publication) /\ IdentitiesHold /\ InStep
        /\ Followed /\ Tidy(page, publication)
    BY DEF SettledInvariant, IdentityInvariant, PublicationIsSound
  <1>2. /\ toPage = <<>> /\ toNative = <<>> /\ replies = <<>> /\ c.task = NoTask /\ ~c.observing
        /\ ~page.finishing /\ ~page.changed /\ ~page.held
    BY DEF Quiet
  <1>3. ~publication.active
    BY <1>1, <1>2 DEF Tidy
  <1>4. u = NoUpdate /\ v \in Seq(CanvasElement)
    BY <1>1, <1>3, SituationIs
  <1>5. ~ComingIn(toPage, u)
    BY <1>2, <1>4 DEF ComingIn, NoUpdate, carriesDocument
  <1>6. Scenes(posted) = {}
    BY <1>2 DEF posted, Scenes
  <1>7. c.ready
    BY <1>1, <1>2 DEF Followed, Starts
  <1>8. c.lastLoaded = <<S>> /\ S = presentedDocument
    BY <1>1, <1>2, <1>7 DEF Followed, Follows, Sends
  <1>9. Balanced(page, publication, c, toPage, posted)
    BY <1>1 DEF InStep
  <1>10. c.lastLoaded # <<>> /\ NoTask.task # "load"
    BY <1>8 DEF NoTask
  <1> HIDE DEF c, u, v, S
  <1>11. ~page.loading
    BY <1>2, <1>5, <1>9, <1>10 DEF Balanced, Awaits, u
  <1>12. publication.adopted # none /\ publication.pending = none
    BY <1>1, <1>3, <1>9, <1>11, SoundIs DEF Balanced
  <1>13. /\ publication.adopted.shows # none
         /\ publication.adopted.shows.elements = visible(v)
    BY <1>9, <1>11, <1>12 DEF Balanced, Reflects, v
  <1>14. Conveyed(c, toPage, u, posted, visible(v))
    BY <1>9, <1>12, <1>13 DEF Balanced, Acknowledged, u
  <1>15. Settled(visible(v), S, c.boardIDsByWebID)
    BY <1>2, <1>5, <1>6, <1>8, <1>10, <1>14 DEF Conveyed, S, c
  <1> QED BY <1>4, <1>8, <1>11, <1>15 DEF c, v, S

\* Whatever the person does in the editor and in the menus, and however observations, tasks,
\* gestures, scenes, flushes and native updates follow each other: when nothing is due any more
\* and none of the races happened, the canvas shows the presented Board, element by element and
\* under the same identities, and its pictograms (update, load, receiveScene, receiveFlush,
\* finishNativeUpdate, acceptScene, completePointerInteraction).
THEOREM CanvasSettles == Spec => []SettledCanvasShowsBoard
  <1>1. SettledInvariant => SettledCanvasShowsBoard
    <2> SUFFICES ASSUME SettledInvariant, Quiet, ~raced
                 PROVE  /\ ToSet(Shown.document) = ToSet(presentedDocument)
                        /\ page.overlay = semanticOverlay(page.canvas)
      BY DEF SettledCanvasShowsBoard
    <2>1. ~page.loading /\ Tidy(page, publication)
      BY QuietSettles DEF SettledInvariant
    <2> DEFINE W == normalizeScene(page.canvas, page.appState)
               S == coordinator.snapshot.document
               l == coordinator.boardIDsByWebID
    <2>2. W.elements = visible(page.canvas)
      BY DEF normalizeScene
    <2>3. Shown.document = decodeChange(W, S, l).document
      BY DEF Shown
    <2> HIDE DEF W
    <2>4. Shown.document = documentOf(visible(page.canvas), assignedIDs(visible(page.canvas), S, l))
      BY <2>2, <2>3, DecodedDocument
    <2>5. S = presentedDocument /\ Settled(visible(page.canvas), S, l)
      BY QuietSettles
    <2> QED BY <2>1, <2>4, <2>5 DEF Settled, Tidy
  <1>2. SettledInvariant /\ [Next]_vars => SettledInvariant'
    BY SettledInvariantHolds
  <1> QED BY <1>1, <1>2, SettledInvariantHolds, PTL DEF Spec

===============================================================================
