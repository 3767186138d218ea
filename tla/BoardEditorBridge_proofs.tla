----------------------- MODULE BoardEditorBridge_proofs -----------------------
(***************************************************************************)
(* Theorems about BoardEditorBridge, for every document, set of shapes,    *)
(* bound and choice of operations.                                         *)
(*                                                                         *)
(* The first sections are about the translations of BoardScene: a scene    *)
(* picks elements in the order of the canvas, a load draws the document,   *)
(* and decodeChange gives every element an ID of its own.  Then:           *)
(*                                                                         *)
(*   - NothingLeftBehind: the publication controller is sound;             *)
(*   - TypeCorrect: what each variable, call and message holds, that a     *)
(*     waiting update is drawn as a load draws it and that no document has *)
(*     an ID twice included (TypeInvariant);                               *)
(*   - DraftIDsDistinct: no document of the draft has an ID twice.         *)
(*                                                                         *)
(* What canvas and draft have to do with each other is proved in           *)
(* BoardEditorAgreement_proofs.                                            *)
(***************************************************************************)
EXTENDS BoardEditorBridge, FiniteSetTheorems, FunctionTheorems, WellFoundedInduction, TLAPS

-----------------------------------------------------------------------------
(* Picking elements of a sequence *)

Less == {p \in Nat \X Nat : p[1] < p[2]}

\* A set of numbers that is not empty has a least element.
LEMMA SmallestExists == ASSUME NEW S \in SUBSET Nat, S # {} PROVE \E x \in S : \A y \in S : x <= y
  <1>1. IsWellFoundedOn(OpToRel(<,Nat), Nat)
    BY NatLessThanWellFounded, Zenon
  <1>3. OpToRel(<,Nat) = Less
    BY Zenon DEF OpToRel, Less
  <1>4. IsWellFoundedOn(Less, Nat)
    BY <1>1, <1>3, Zenon
  <1>2. PICK x \in S : \A y \in S : ~(<<y,x>> \in Less)
    BY <1>4, WFMin, Zenon
  <1>5. ASSUME NEW y \in S PROVE x <= y
    <2>1. x \in Nat /\ y \in Nat
      OBVIOUS
    <2>2. y < x => <<y, x>> \in Less
      BY <2>1 DEF Less
    <2>3. ~(y < x)
      BY <2>2, <1>2
    <2> QED BY <2>1, <2>3
  <1> QED
    BY <1>5

upTo(I, n) == {m \in I : m <= n}

\* Positions of a sequence of length N.
Positions(I, N) == N \in Nat /\ \A n \in I : n \in 1..N

\* How many positions there are, up to n and in all.
LEMMA UpToFinite ==
    ASSUME NEW I, NEW N, Positions(I, N), NEW n
    PROVE  /\ IsFiniteSet(I) /\ Cardinality(I) \in Nat /\ Cardinality(I) <= N
           /\ IsFiniteSet(upTo(I, n)) /\ Cardinality(upTo(I, n)) \in Nat
           /\ Cardinality(upTo(I, n)) <= Cardinality(I)
  <1>1. IsFiniteSet(1..N) /\ Cardinality(1..N) = N
    BY FS_Interval DEF Positions
  <1>2. IsFiniteSet(I) /\ Cardinality(I) <= N
    BY <1>1, FS_Subset DEF Positions
  <1>3. upTo(I, n) \in SUBSET I
    BY DEF upTo
  <1>4. IsFiniteSet(upTo(I, n)) /\ Cardinality(upTo(I, n)) <= Cardinality(I)
    BY <1>2, <1>3, FS_Subset
  <1> QED
    BY <1>2, <1>4, FS_CardinalityType

\* A later position has a higher rank.
LEMMA RankGrows ==
    ASSUME NEW I, NEW N, Positions(I, N), NEW m \in I, NEW n \in I, m < n
    PROVE  Cardinality(upTo(I, m)) < Cardinality(upTo(I, n))
  <1>1. upTo(I, m) \in SUBSET upTo(I, n) /\ n \in upTo(I, n) /\ n \notin upTo(I, m)
    BY DEF Positions, upTo
  <1>2. IsFiniteSet(upTo(I, n)) /\ Cardinality(upTo(I, n)) \in Nat /\ Cardinality(upTo(I, m)) \in Nat
    BY UpToFinite
  <1>3. /\ Cardinality(upTo(I, m)) <= Cardinality(upTo(I, n))
        /\ Cardinality(upTo(I, n)) = Cardinality(upTo(I, m)) => upTo(I, n) = upTo(I, m)
    BY <1>1, <1>2, FS_Subset
  <1> QED
    BY <1>1, <1>2, <1>3

\* Every rank is some position's.
LEMMA RankIsTaken ==
    ASSUME NEW I, NEW N, Positions(I, N), NEW k \in 1..Cardinality(I)
    PROVE  \E n \in I : Cardinality(upTo(I, n)) = k
  <1> DEFINE free == {j \in 1..Cardinality(I) : \A n \in I : Cardinality(upTo(I, n)) # j}
  <1>1. SUFFICES ASSUME free # {} PROVE FALSE
    OBVIOUS
  <1>0. Cardinality(I) \in Nat /\ IsFiniteSet(I)
    BY UpToFinite
  <1>2. free \in SUBSET Nat
    BY <1>0
  <1>3. PICK j \in free : \A i \in free : j <= i
    BY <1>1, <1>2, SmallestExists
  <1> DEFINE rest == {n \in I : Cardinality(upTo(I, n)) >= j}
             earlier == I \ rest
  <1>j. j \in 1..Cardinality(I)
    OBVIOUS
  <1>4. rest # {}
    <2>1. SUFFICES ASSUME rest = {} PROVE FALSE
      OBVIOUS
    <2>2. I # {}
      BY <1>0, <1>j, FS_EmptySet
    <2>3. I \in SUBSET Nat
      BY DEF Positions
    <2> DEFINE top == {n \in 0..N : \A m \in I : m <= n}
    <2>4. top # {} /\ top \in SUBSET Nat
      <3>1. N \in top
        BY DEF Positions
      <3> QED BY <3>1 DEF Positions
    <2>5. PICK t \in top : \A m \in top : t <= m
      BY <2>4, SmallestExists
    <2>6. t \in I
      <3>1. SUFFICES ASSUME t \notin I PROVE FALSE
        OBVIOUS
      <3>2. t \in Nat /\ N \in Nat /\ t <= N /\ \A m \in I : m < t /\ m \in 1..N
        BY <3>1 DEF Positions
      <3>3. t # 0
        BY <3>2, <2>2
      <3>4. t - 1 \in top
        BY <3>2, <3>3
      <3> QED BY <3>4, <3>2, <2>5
    <2>7. upTo(I, t) = I
      BY DEF upTo
    <2>8. Cardinality(upTo(I, t)) = Cardinality(I)
      BY <2>7
    <2> QED BY <2>6, <2>8, <2>1, <1>0, <1>j
  <1>5. PICK n \in rest : \A m \in rest : n <= m
    <2>1. rest \in SUBSET Nat
      BY DEF Positions
    <2> QED BY <2>1, <1>4, SmallestExists
  <1>6. Cardinality(upTo(I, n)) \in Nat /\ Cardinality(upTo(I, n)) > j
    <2>1. Cardinality(upTo(I, n)) \in Nat
      BY UpToFinite
    <2> QED BY <2>1, <1>j, <1>0
  <1>7. upTo(I, n) = earlier \cup {n}
    <2>1. \A m \in earlier : m < n
      <3> SUFFICES ASSUME NEW m \in earlier, m >= n PROVE FALSE
        BY DEF Positions
      <3>1. m # n /\ m \in I /\ n \in I
        OBVIOUS
      <3>2. n < m
        BY <3>1 DEF Positions
      <3>3. Cardinality(upTo(I, n)) < Cardinality(upTo(I, m))
        BY <3>1, <3>2, RankGrows
      <3>4. Cardinality(upTo(I, m)) \in Nat
        BY UpToFinite
      <3>5. m \in rest
        BY <3>1, <3>3, <3>4, <1>6, <1>j, <1>0
      <3> QED BY <3>5
    <2> QED BY <2>1, <1>5 DEF upTo, Positions
  <1>8. IsFiniteSet(earlier)
    BY <1>0, FS_Subset
  <1>9. Cardinality(earlier) \in Nat /\ Cardinality(upTo(I, n)) = Cardinality(earlier) + 1
    <2>1. n \notin earlier
      OBVIOUS
    <2>2. Cardinality(earlier \cup {n}) = Cardinality(earlier) + 1
      BY <1>8, <2>1, FS_AddElement
    <2> QED BY <2>2, <1>7, <1>8, FS_CardinalityType
  <1>10. j # 1 => \E m \in earlier : upTo(I, m) = earlier
    <2>1. SUFFICES ASSUME j # 1 PROVE \E m \in earlier : upTo(I, m) = earlier
      OBVIOUS
    <2>2. j - 1 \in 1..Cardinality(I) /\ j - 1 < j
      BY <2>1, <1>j, <1>0
    <2>3. j - 1 \notin free
      BY <2>2, <1>3, <1>2
    <2>4. PICK m \in I : Cardinality(upTo(I, m)) = j - 1
      BY <2>2, <2>3
    <2>5. m \in earlier
      BY <2>4, <2>2, <1>j, <1>0
    <2>6. m < n
      <3>1. m \in I /\ n \in I /\ m # n
        BY <2>5
      <3>2. n < m => Cardinality(upTo(I, n)) < Cardinality(upTo(I, m))
        BY <3>1, RankGrows
      <3> QED BY <3>1, <3>2, <2>4, <2>2, <1>6, <1>j, <1>0 DEF Positions
    <2>7. \A x \in earlier : x <= m
      <3> SUFFICES ASSUME NEW x \in earlier, x > m PROVE FALSE
        BY DEF Positions
      <3>1. Cardinality(upTo(I, m)) < Cardinality(upTo(I, x)) /\ Cardinality(upTo(I, x)) \in Nat
        BY RankGrows, UpToFinite
      <3>2. Cardinality(upTo(I, x)) < j
        BY <3>1, <1>j, <1>0
      <3> QED BY <3>1, <3>2, <2>4, <1>j, <1>0
    <2>8. upTo(I, m) = earlier
      <3>1. upTo(I, m) \subseteq earlier
        BY <2>6, <1>7, <1>5 DEF upTo, Positions
      <3>2. earlier \subseteq upTo(I, m)
        BY <2>7 DEF upTo
      <3> QED BY <3>1, <3>2
    <2> QED BY <2>5, <2>8
  <1>11. CASE j = 1
    <2>1. Cardinality(earlier) # 0
      BY <1>6, <1>9, <1>11
    <2>2. earlier # {}
      BY <2>1, FS_EmptySet
    <2>3. PICK x \in earlier : TRUE
      BY <2>2
    <2>4. Cardinality(upTo(I, x)) \in Nat /\ x \in upTo(I, x) /\ IsFiniteSet(upTo(I, x))
      <3>1. x \in upTo(I, x)
        BY <2>3 DEF upTo, Positions
      <3> QED BY <3>1, UpToFinite
    <2>5. Cardinality(upTo(I, x)) # 0
      BY <2>4, FS_EmptySet
    <2> QED BY <2>4, <2>5, <2>3, <1>11
  <1>12. CASE j # 1
    <2>1. PICK m \in earlier : upTo(I, m) = earlier
      BY <1>10, <1>12
    <2>2. Cardinality(earlier) < j
      BY <2>1, <1>9, <1>j, <1>0
    <2> QED BY <2>2, <1>6, <1>9, <1>j, <1>0
  <1> QED BY <1>11, <1>12

\* The k-th position: nth counts them in order and misses none.
LEMMA NthIs ==
    ASSUME NEW I, NEW N, Positions(I, N)
    PROVE  /\ \A k \in 1..Cardinality(I) : nth(I, k) \in I /\ Cardinality(upTo(I, nth(I, k))) = k
           /\ \A j, k \in 1..Cardinality(I) : j < k => nth(I, j) < nth(I, k)
           /\ \A n \in I : \E k \in 1..Cardinality(I) : nth(I, k) = n
  <1>1. ASSUME NEW k \in 1..Cardinality(I)
        PROVE  nth(I, k) \in I /\ Cardinality(upTo(I, nth(I, k))) = k
    <2>1. \E n \in I : Cardinality(upTo(I, n)) = k
      BY RankIsTaken
    <2>2. nth(I, k) = CHOOSE n \in I : Cardinality(upTo(I, n)) = k
      BY DEF nth, upTo
    <2> QED BY <2>1, <2>2
  <1>2. ASSUME NEW j \in 1..Cardinality(I), NEW k \in 1..Cardinality(I), j < k
        PROVE  nth(I, j) < nth(I, k)
    <2>1. nth(I, j) \in I /\ nth(I, k) \in I /\ Cardinality(upTo(I, nth(I, j))) = j
          /\ Cardinality(upTo(I, nth(I, k))) = k
      BY <1>1
    <2>2. nth(I, k) < nth(I, j) => k < j
      BY <2>1, RankGrows
    <2>3. Cardinality(I) \in Nat
      BY UpToFinite
    <2> QED BY <2>1, <2>2, <2>3, <1>2 DEF Positions
  <1>3. ASSUME NEW n \in I
        PROVE  \E k \in 1..Cardinality(I) : nth(I, k) = n
    <2> DEFINE k == Cardinality(upTo(I, n))
    <2>1. k \in Nat /\ k <= Cardinality(I) /\ IsFiniteSet(upTo(I, n)) /\ Cardinality(I) \in Nat
      BY UpToFinite
    <2>2. n \in upTo(I, n)
      BY DEF upTo, Positions
    <2>3. k # 0
      BY <2>1, <2>2, FS_EmptySet
    <2>4. k \in 1..Cardinality(I)
      BY <2>1, <2>3
    <2>5. nth(I, k) \in I /\ Cardinality(upTo(I, nth(I, k))) = k
      BY <2>4, <1>1
    <2>6. nth(I, k) = n
      <3>1. nth(I, k) < n => k < k
        BY <2>5, RankGrows
      <3>2. n < nth(I, k) => k < k
        BY <2>5, RankGrows
      <3>3. ~(k < k)
        BY <2>1
      <3>4. n \in Nat /\ nth(I, k) \in Nat
        BY <2>5 DEF Positions
      <3> QED BY <3>1, <3>2, <3>3, <3>4
    <2> QED BY <2>4, <2>6
  <1> QED
    BY <1>1, <1>2, <1>3

\* The elements picked: where each is from, in the order they had, and all of them.
LEMMA Picked ==
    ASSUME NEW s, NEW N, DOMAIN s = 1..N, NEW I, Positions(I, N)
    PROVE  /\ Cardinality(I) \in Nat /\ Cardinality(I) <= N
           /\ DOMAIN picked(s, I) = 1..Cardinality(I)
           /\ \A k \in DOMAIN picked(s, I) : nth(I, k) \in I /\ picked(s, I)[k] = s[nth(I, k)]
           /\ \A j, k \in DOMAIN picked(s, I) : j < k => nth(I, j) < nth(I, k)
           /\ \A n \in I : \E k \in DOMAIN picked(s, I) : nth(I, k) = n /\ picked(s, I)[k] = s[n]
  <1>1. Cardinality(I) \in Nat /\ Cardinality(I) <= N
    BY UpToFinite
  <1>2. DOMAIN picked(s, I) = 1..Cardinality(I)
    BY DEF picked
  <1>3. \A k \in 1..Cardinality(I) : picked(s, I)[k] = s[nth(I, k)]
    BY DEF picked
  <1> QED
    BY <1>1, <1>2, <1>3, NthIs

\* Picking every position picks the whole sequence.
LEMMA PickedAll ==
    ASSUME NEW s, NEW N \in Nat, DOMAIN s = 1..N, s = [n \in 1..N |-> s[n]]
    PROVE  picked(s, 1..N) = s
  <1>1. Positions(1..N, N)
    BY DEF Positions
  <1>2. Cardinality(1..N) = N
    BY FS_Interval
  <1>3. ASSUME NEW k \in 1..N PROVE nth(1..N, k) = k
    <2>1. nth(1..N, k) \in 1..N /\ Cardinality(upTo(1..N, nth(1..N, k))) = k
      BY <1>1, <1>2, NthIs
    <2> DEFINE n == nth(1..N, k)
    <2>2. upTo(1..N, n) = 1..n
      BY <2>1 DEF upTo
    <2>3. Cardinality(1..n) = n
      BY <2>1, FS_Interval
    <2> QED BY <2>1, <2>2, <2>3
  <1> QED
    BY <1>2, <1>3 DEF picked

-----------------------------------------------------------------------------
(* The values the bridge handles *)

WebIDs   == BoardIDs \cup [is : {"drawn"}, ordinal : Nat]
Poses == {"canonical", "free", "rotated"}
Tools    == DOMAIN excalTypeForNativeTool
Kinds    == BoardNodeKind \cup {"none"}
CanvasShapes == Shapes \cup {"rectangle", "diamond", "ellipse", "arrow", "text", "freedraw"}
Commands == {"undo", "redo", "saveRevision"}

\* Excalidraw does not rotate an arrow: it moves its ends.
CanvasElement ==
    {e \in [web : WebIDs, board : BoardIDs \cup {none}, kind : Kinds, body : Int,
            from : WebIDs \cup {none}, shape : CanvasShapes, pose : Poses, version : Nat \ {0},
            deleted : BOOLEAN, ink : Int] :
        e.shape = "arrow" => e.pose # "rotated"}

SceneElement ==
    {e \in [type : NativeTypes, web : WebIDs, board : BoardIDs \cup {none}, kind : Kinds,
            body : Int, from : WebIDs \cup {none}, pose : Poses, ink : Int] :
        e.type = "box" => e.kind # "none"}

\* Sequences no longer than the canvas may be.
Bounded(S) == {s \in Seq(S) : Len(s) <= MaxElements}

\* The kinds of IDs, and what none of them is.
LEMMA NoneIsNoID ==
    /\ \A b \in BoardIDs : b # none /\ b.is = "board" /\ b.prefix \in NativeTypes /\ b.ordinal \in Nat
    /\ \A w \in WebIDs : w # none /\ (w.is = "board" => w \in BoardIDs) /\ (w.is = "drawn" => w \notin BoardIDs)
    /\ \A w \in WebIDs : w.is \in {"board", "drawn"}
  <1>1. none.is = "none"
    BY DEF none
  <1>2. \A b \in BoardIDs : b.is = "board" /\ b.prefix \in NativeTypes /\ b.ordinal \in Nat
    BY DEF BoardIDs
  <1>3. \A w \in WebIDs : w.is = "board" \/ w.is = "drawn"
    BY DEF BoardIDs, WebIDs
  <1>4. \A w \in WebIDs : w.is = "board" => w \in BoardIDs
    BY DEF BoardIDs, WebIDs
  <1> QED
    BY <1>1, <1>2, <1>3, <1>4

\* Excalidraw's IDs and the codec's.
LEMMA DrawnIDs ==
    /\ \A n \in Nat : drawnID(n) \in WebIDs /\ drawnID(n).is = "drawn" /\ drawnID(n).ordinal = n
    /\ \A p \in NativeTypes, n \in Nat : boardID(p, n) \in BoardIDs
  BY DEF drawnID, boardID, WebIDs, BoardIDs

\* Every shape has a native type, or is unsupported.
LEMMA NativeTypeOf ==
    \A shape : nativeType(shape) \in NativeTypes \cup {"unsupported"}
  BY DEF nativeType, NativeTypes

\* What normalizeScene makes of a supported element.
LEMMA NormalizedIs ==
    ASSUME NEW e \in CanvasElement, nativeType(e.shape) # "unsupported"
    PROVE  normalized(e) \in SceneElement
  <1>1. nativeType(e.shape) \in NativeTypes
    BY NativeTypeOf DEF CanvasElement
  <1>2. nativeType(e.shape) = "box" => e.shape \in DOMAIN boxKindForExcalType
    BY DEF nativeType
  <1>3. \A s \in DOMAIN boxKindForExcalType : boxKindForExcalType[s] \in Kinds \ {"none"}
    <2>1. DOMAIN boxKindForExcalType = {"rectangle", "diamond", "ellipse"}
      BY DEF boxKindForExcalType
    <2>2. /\ boxKindForExcalType["rectangle"] = "generic"
          /\ boxKindForExcalType["diamond"] = "decision"
          /\ boxKindForExcalType["ellipse"] = "ellipse"
      BY DEF boxKindForExcalType
    <2>3. \A k \in {"generic", "decision", "ellipse"} : k \in Kinds \ {"none"}
      BY DEF Kinds, BoardNodeKind
    <2> QED BY <2>1, <2>2, <2>3
  <1> DEFINE k == IF e.kind = "none" /\ nativeType(e.shape) = "box"
                    THEN boxKindForExcalType[e.shape] ELSE e.kind
  <1>4. k \in Kinds /\ (nativeType(e.shape) = "box" => k # "none")
    BY <1>2, <1>3 DEF CanvasElement
  <1> HIDE DEF k
  <1>5. normalized(e) = [type |-> nativeType(e.shape), web |-> e.web, board |-> e.board,
                         kind |-> k, body |-> e.body, from |-> e.from, pose |-> e.pose, ink |-> e.ink]
    BY DEF normalized, k
  <1> QED
    BY <1>1, <1>4, <1>5 DEF CanvasElement, SceneElement

\* The elements that are not deleted, in the order of the canvas.
LEMMA LiveIs ==
    ASSUME NEW c \in Seq(CanvasElement)
    PROVE  /\ live(c) \in Seq(CanvasElement) /\ Len(live(c)) \in Nat /\ Len(live(c)) <= Len(c)
           /\ \A k \in DOMAIN live(c) : ~live(c)[k].deleted /\ \E n \in DOMAIN c : live(c)[k] = c[n]
           /\ \A n \in DOMAIN c : ~c[n].deleted => \E k \in DOMAIN live(c) : live(c)[k] = c[n]
  <1> DEFINE N == Len(c)
             I == {n \in DOMAIN c : ~c[n].deleted}
  <1>1. N \in Nat /\ DOMAIN c = 1..N
    OBVIOUS
  <1>2. Positions(I, N)
    BY <1>1 DEF Positions
  <1>3. live(c) = picked(c, I)
    BY DEF live
  <1>4. \A n \in I : ~c[n].deleted /\ n \in DOMAIN c /\ c[n] \in CanvasElement
    OBVIOUS
  <1>6. \A n \in DOMAIN c : ~c[n].deleted => n \in I
    OBVIOUS
  <1> HIDE DEF I, N
  <1>5. /\ Cardinality(I) \in Nat /\ Cardinality(I) <= N
        /\ DOMAIN picked(c, I) = 1..Cardinality(I)
        /\ \A k \in DOMAIN picked(c, I) : nth(I, k) \in I /\ picked(c, I)[k] = c[nth(I, k)]
        /\ \A n \in I : \E k \in DOMAIN picked(c, I) : nth(I, k) = n /\ picked(c, I)[k] = c[n]
    BY <1>1, <1>2, Picked
  <1>7. picked(c, I) = [k \in 1..Cardinality(I) |-> c[nth(I, k)]]
    BY DEF picked
  <1>8. picked(c, I) \in Seq(CanvasElement) /\ Len(picked(c, I)) = Cardinality(I)
    BY <1>5, <1>7, <1>4
  <1> QED
    BY <1>3, <1>4, <1>5, <1>6, <1>8 DEF N

\* What is on the canvas for a scene.
shows(e) == ~e.deleted /\ isSupported(e)

\* What a scene shows: the supported live elements, in the order of the canvas.
LEMMA VisibleIs ==
    ASSUME NEW c \in Seq(CanvasElement)
    PROVE  /\ visible(c) \in Seq(SceneElement) /\ Len(visible(c)) <= Len(c)
           /\ Len(supported(c)) = Len(visible(c)) /\ Len(supported(c)) \in Nat
           /\ \E at \in [DOMAIN visible(c) -> DOMAIN c] :
                /\ \A k \in DOMAIN visible(c) : shows(c[at[k]]) /\ visible(c)[k] = normalized(c[at[k]])
                /\ \A j, k \in DOMAIN visible(c) : j < k => at[j] < at[k]
           /\ \A n \in DOMAIN c : shows(c[n]) => \E k \in DOMAIN visible(c) : visible(c)[k] = normalized(c[n])
  <1> DEFINE N == Len(c)
             I == {n \in DOMAIN c : ~c[n].deleted /\ isSupported(c[n])}
             s == picked(c, I)
  <1>1. N \in Nat /\ DOMAIN c = 1..N
    OBVIOUS
  <1>2. Positions(I, N)
    BY <1>1 DEF Positions
  <1>3. supported(c) = s
    BY DEF supported
  <1>4. \A n \in I : shows(c[n]) /\ n \in DOMAIN c /\ c[n] \in CanvasElement
    BY DEF shows
  <1>6. \A n \in DOMAIN c : shows(c[n]) => n \in I
    BY DEF shows
  <1> HIDE DEF I, N
  <1>5. /\ Cardinality(I) \in Nat /\ Cardinality(I) <= N
        /\ DOMAIN s = 1..Cardinality(I)
        /\ \A k \in DOMAIN s : nth(I, k) \in I /\ s[k] = c[nth(I, k)]
        /\ \A j, k \in DOMAIN s : j < k => nth(I, j) < nth(I, k)
        /\ \A n \in I : \E k \in DOMAIN s : nth(I, k) = n /\ s[k] = c[n]
    BY <1>1, <1>2, Picked
  <1>7. s = [k \in 1..Cardinality(I) |-> c[nth(I, k)]]
    BY DEF picked
  <1>8. s \in Seq(CanvasElement) /\ Len(s) = Cardinality(I)
    BY <1>5, <1>7, <1>4
  <1> HIDE DEF s
  <1>9. visible(c) = [k \in 1..Cardinality(I) |-> normalized(s[k])]
    BY <1>3, <1>5 DEF visible
  <1>10. \A k \in 1..Cardinality(I) : normalized(s[k]) \in SceneElement
    <2> SUFFICES ASSUME NEW k \in 1..Cardinality(I) PROVE normalized(s[k]) \in SceneElement
      OBVIOUS
    <2>1. shows(s[k]) /\ s[k] \in CanvasElement
      BY <1>4, <1>5
    <2> QED BY <2>1, NormalizedIs DEF shows, isSupported
  <1>11. visible(c) \in Seq(SceneElement) /\ Len(visible(c)) = Cardinality(I) /\ DOMAIN visible(c) = 1..Cardinality(I)
    BY <1>9, <1>10, <1>5
  <1> DEFINE at == [k \in 1..Cardinality(I) |-> nth(I, k)]
  <1>12. at \in [DOMAIN visible(c) -> DOMAIN c]
    BY <1>11, <1>5, <1>4
  <1>13. \A k \in DOMAIN visible(c) : shows(c[at[k]]) /\ visible(c)[k] = normalized(c[at[k]])
    BY <1>11, <1>9, <1>5, <1>4
  <1>14. \A j, k \in DOMAIN visible(c) : j < k => at[j] < at[k]
    BY <1>11, <1>5
  <1>15. \A n \in DOMAIN c : shows(c[n]) => \E k \in DOMAIN visible(c) : visible(c)[k] = normalized(c[n])
    BY <1>11, <1>9, <1>5, <1>6
  <1> HIDE DEF at
  <1>16. Len(visible(c)) <= Len(c)
    BY <1>11, <1>5 DEF N
  <1> QED
    BY <1>3, <1>5, <1>8, <1>11, <1>12, <1>13, <1>14, <1>15, <1>16
\* Picking from what was picked.
LEMMA PickTwice ==
    ASSUME NEW I, NEW N, Positions(I, N), NEW K, \A k \in K : k \in 1..Cardinality(I),
           NEW J, \A n : n \in J <=> \E k \in K : n = nth(I, k)
    PROVE  /\ Cardinality(J) = Cardinality(K)
           /\ \A k \in 1..Cardinality(K) : nth(J, k) = nth(I, nth(K, k))
  <1> DEFINE C == Cardinality(I)
  <1>0. C \in Nat
    BY UpToFinite
  <1>1. Positions(K, C)
    BY <1>0 DEF Positions
  <1>2. \A k \in 1..C : nth(I, k) \in I
    BY NthIs
  <1>3. \A j, k \in 1..C : j < k => nth(I, j) < nth(I, k)
    BY NthIs
  <1>4. Positions(J, N)
    BY <1>2 DEF Positions
  <1>5. \A j, k \in 1..C : nth(I, j) = nth(I, k) => j = k
    <2> SUFFICES ASSUME NEW j \in 1..C, NEW k \in 1..C, nth(I, j) = nth(I, k), j # k PROVE FALSE
      OBVIOUS
    <2>1. nth(I, j) \in Nat /\ nth(I, k) \in Nat
      BY <1>2 DEF Positions
    <2>2. j < k \/ k < j
      BY <1>0
    <2> QED BY <2>1, <2>2, <1>3
  <1>6. ASSUME NEW X, NEW Y, \A k \in X : k \in K, \A n : n \in Y <=> \E k \in X : n = nth(I, k)
        PROVE  Cardinality(Y) = Cardinality(X)
    <2> DEFINE f == [k \in X |-> nth(I, k)]
    <2>1. f \in [X -> Y]
      BY <1>6
    <2>2. \A j, k \in X : f[j] = f[k] => j = k
      BY <1>6, <1>5
    <2>3. \A n \in Y : \E k \in X : f[k] = n
      BY <1>6
    <2>4. f \in Bijection(X, Y)
      BY <2>1, <2>2, <2>3, Fun_IsBij
    <2>5. IsFiniteSet(X)
      <3>1. IsFiniteSet(K)
        BY <1>1, UpToFinite
      <3>2. X \in SUBSET K
        BY <1>6
      <3> QED BY <3>1, <3>2, FS_Subset
    <2>6. ExistsBijection(X, Y)
      BY <2>4 DEF ExistsBijection
    <2> QED BY <2>5, <2>6, FS_Bijection
  <1>7. Cardinality(J) = Cardinality(K)
    BY <1>6
  <1>8. ASSUME NEW k \in 1..Cardinality(K) PROVE nth(J, k) = nth(I, nth(K, k))
    <2> DEFINE x == nth(K, k)
               n == nth(I, x)
    <2>1. x \in K /\ Cardinality(upTo(K, x)) = k
      BY <1>1, NthIs
    <2>2. n \in J
      BY <2>1
    <2>3. \A m : m \in upTo(J, n) <=> \E j \in upTo(K, x) : m = nth(I, j)
      <3>1. ASSUME NEW m \in upTo(J, n) PROVE \E j \in upTo(K, x) : m = nth(I, j)
        <4>1. m \in J /\ m <= n
          BY <3>1 DEF upTo
        <4>2. PICK j \in K : m = nth(I, j)
          BY <4>1
        <4>3. ~(x < j)
          <5>1. x \in 1..C /\ j \in 1..C
            BY <2>1
          <5>2. x < j => n < m
            BY <5>1, <1>3, <4>2
          <5>3. n \in Nat /\ m \in Nat
            BY <5>1, <1>2, <4>2 DEF Positions
          <5> QED BY <5>2, <5>3, <4>1
        <4>4. j <= x
          BY <4>3, <2>1, <1>1 DEF Positions
        <4> QED BY <4>2, <4>4 DEF upTo
      <3>2. ASSUME NEW j \in upTo(K, x) PROVE nth(I, j) \in upTo(J, n)
        <4>1. j \in K /\ j <= x
          BY <3>2 DEF upTo
        <4>2. nth(I, j) \in J
          BY <4>1
        <4>3. j = x \/ j < x
          BY <4>1, <2>1, <1>1 DEF Positions
        <4>4. nth(I, j) <= n
          <5>1. x \in 1..C /\ j \in 1..C
            BY <2>1, <4>1
          <5>2. nth(I, j) \in Nat /\ n \in Nat
            BY <5>1, <1>2 DEF Positions
          <5>3. j < x => nth(I, j) < n
            BY <5>1, <1>3
          <5> QED BY <5>2, <5>3, <4>3
        <4> QED BY <4>2, <4>4 DEF upTo
      <3> QED BY <3>1, <3>2
    <2>4. \A j \in upTo(K, x) : j \in K
      BY DEF upTo
    <2>5. Cardinality(upTo(J, n)) = k
      BY <2>1, <2>3, <2>4, <1>6
    <2> DEFINE y == nth(J, k)
    <2>6. y \in J /\ Cardinality(upTo(J, y)) = k
      BY <1>4, <1>7, NthIs
    <2>7. ~(y < n) /\ ~(n < y)
      <3>1. k \in Nat
        BY <1>1, UpToFinite
      <3> HIDE DEF y, n
      <3>2. y < n => k < k
        BY <2>2, <2>5, <2>6, <1>4, RankGrows
      <3>3. n < y => k < k
        BY <2>2, <2>5, <2>6, <1>4, RankGrows
      <3>4. ~(k < k)
        BY <3>1
      <3> QED BY <3>2, <3>3, <3>4
    <2>8. y \in Nat /\ n \in Nat
      BY <2>2, <2>6, <1>4 DEF Positions
    <2> QED BY <2>7, <2>8
  <1> QED
    BY <1>7, <1>8

\* A scene of what is live is a scene of the whole canvas.
LEMMA VisibleLive ==
    ASSUME NEW c \in Seq(CanvasElement)
    PROVE  visible(live(c)) = visible(c)
  <1> DEFINE N == Len(c)
             I == {n \in DOMAIN c : ~c[n].deleted}
             J == {n \in DOMAIN c : ~c[n].deleted /\ isSupported(c[n])}
             l == live(c)
             K == {k \in DOMAIN l : ~l[k].deleted /\ isSupported(l[k])}
  <1>1. N \in Nat /\ DOMAIN c = 1..N
    OBVIOUS
  <1>2. Positions(I, N)
    BY <1>1 DEF Positions
  <1>3. l = picked(c, I)
    BY DEF live
  <1>4. /\ Cardinality(I) \in Nat
        /\ DOMAIN l = 1..Cardinality(I)
        /\ \A k \in DOMAIN l : nth(I, k) \in I /\ l[k] = c[nth(I, k)]
        /\ \A n \in I : \E k \in DOMAIN l : nth(I, k) = n /\ l[k] = c[n]
    <2> HIDE DEF I, l, N
    <2> QED BY <1>1, <1>2, <1>3, Picked
  <1>5. \A k \in K : k \in 1..Cardinality(I)
    BY <1>4
  <1>6. \A n : n \in J <=> \E k \in K : n = nth(I, k)
    <2>1. ASSUME NEW n \in J PROVE \E k \in K : n = nth(I, k)
      <3>1. n \in I
        OBVIOUS
      <3>2. PICK k \in DOMAIN l : nth(I, k) = n /\ l[k] = c[n]
        BY <3>1, <1>4
      <3>3. k \in K
        BY <3>2
      <3> QED BY <3>2, <3>3
    <2>2. ASSUME NEW k \in K PROVE nth(I, k) \in J
      <3>1. nth(I, k) \in I /\ l[k] = c[nth(I, k)]
        BY <1>4
      <3> QED BY <3>1
    <2> QED BY <2>1, <2>2
  <1>7. supported(l) = picked(l, K) /\ supported(c) = picked(c, J)
    BY DEF supported
  <1> HIDE DEF I, J, K, l
  <1>8. /\ Cardinality(J) = Cardinality(K)
        /\ \A k \in 1..Cardinality(K) : nth(J, k) = nth(I, nth(K, k))
    BY <1>2, <1>5, <1>6, PickTwice
  <1>9. Positions(K, Cardinality(I))
    BY <1>4, <1>5 DEF Positions
  <1>10. \A k \in 1..Cardinality(K) : nth(K, k) \in K
    BY <1>9, NthIs
  <1>11. \A k \in 1..Cardinality(K) : l[nth(K, k)] = c[nth(J, k)]
    BY <1>4, <1>5, <1>8, <1>10
  <1>12. picked(l, K) = picked(c, J)
    BY <1>8, <1>11 DEF picked
  <1> QED
    BY <1>7, <1>12 DEF visible, l

-----------------------------------------------------------------------------
(* Documents *)

DistinctIDs(X) == \A m, n \in DOMAIN X : m # n => X[m].id # X[n].id

\* A box is of some kind, a bound connector is bound to an element.
Whole(X) ==
    \A n \in DOMAIN X :
        /\ X[n].type = "box" => X[n].kind # "none"
        /\ X[n].from = none \/ \E m \in DOMAIN X : X[n].from = X[m].id

Document == {X \in Seq(Element) : Len(X) <= MaxElements /\ DistinctIDs(X) /\ Whole(X)}

\* The elements of X whose type is in T, each once.
Part(s, X, T) ==
    /\ s \in Seq(Element) /\ DistinctIDs(s)
    /\ \A k \in DOMAIN s : s[k].type \in T /\ \E n \in DOMAIN X : s[k] = X[n]
    /\ \A n \in DOMAIN X : X[n].type \in T => \E k \in DOMAIN s : s[k] = X[n]

typed(X, type) == {n \in DOMAIN X : X[n].type = type}

\* The elements of one type.
LEMMA LayerIs ==
    ASSUME NEW X \in Seq(Element), DistinctIDs(X), NEW type
    PROVE  /\ Part(picked(X, typed(X, type)), X, {type})
           /\ Len(picked(X, typed(X, type))) = Cardinality(typed(X, type))
           /\ IsFiniteSet(typed(X, type)) /\ Cardinality(typed(X, type)) \in Nat
  <1> DEFINE N == Len(X)
             I == typed(X, type)
             s == picked(X, I)
  <1>1. N \in Nat /\ DOMAIN X = 1..N
    OBVIOUS
  <1>2. Positions(I, N)
    BY <1>1 DEF Positions, typed
  <1>4. \A n \in I : X[n].type = type /\ n \in DOMAIN X /\ X[n] \in Element
    BY DEF typed
  <1>5. \A n \in DOMAIN X : X[n].type = type => n \in I
    BY DEF typed
  <1> HIDE DEF I, N
  <1>6. /\ Cardinality(I) \in Nat
        /\ DOMAIN s = 1..Cardinality(I)
        /\ \A k \in DOMAIN s : nth(I, k) \in I /\ s[k] = X[nth(I, k)]
        /\ \A j, k \in DOMAIN s : j < k => nth(I, j) < nth(I, k)
        /\ \A n \in I : \E k \in DOMAIN s : nth(I, k) = n /\ s[k] = X[n]
    BY <1>1, <1>2, Picked
  <1>7. s = [k \in 1..Cardinality(I) |-> X[nth(I, k)]]
    BY DEF picked
  <1>8. s \in Seq(Element) /\ Len(s) = Cardinality(I)
    BY <1>6, <1>7, <1>4
  <1>9. DistinctIDs(s)
    <2> SUFFICES ASSUME NEW j \in DOMAIN s, NEW k \in DOMAIN s, j # k PROVE s[j].id # s[k].id
      BY DEF DistinctIDs
    <2>1. nth(I, j) \in I /\ nth(I, k) \in I /\ nth(I, j) \in Nat /\ nth(I, k) \in Nat
      BY <1>6, <1>2 DEF Positions
    <2>2. j < k \/ k < j
      BY <1>6
    <2>3. nth(I, j) # nth(I, k)
      BY <2>1, <2>2, <1>6
    <2>4. X[nth(I, j)].id # X[nth(I, k)].id
      BY <2>1, <2>3, <1>4 DEF DistinctIDs
    <2> QED BY <2>4, <1>6
  <1>10. \A k \in DOMAIN s : s[k].type \in {type} /\ \E n \in DOMAIN X : s[k] = X[n]
    BY <1>4, <1>6
  <1>11. \A n \in DOMAIN X : X[n].type \in {type} => \E k \in DOMAIN s : s[k] = X[n]
    BY <1>5, <1>6
  <1>12. IsFiniteSet(I)
    BY <1>2, UpToFinite
  <1> QED
    BY <1>6, <1>8, <1>9, <1>10, <1>11, <1>12 DEF Part, I

\* Layers of different types, one after the other.
LEMMA PartsJoin ==
    ASSUME NEW X \in Seq(Element), DistinctIDs(X), NEW a, NEW b, NEW T, NEW U,
           Part(a, X, T), Part(b, X, U), \A t \in T : t \notin U
    PROVE  Part(a \o b, X, T \cup U) /\ Len(a \o b) = Len(a) + Len(b)
  <1>1. a \in Seq(Element) /\ b \in Seq(Element)
    BY DEF Part
  <1> DEFINE s == a \o b
  <1>2. s \in Seq(Element) /\ Len(s) = Len(a) + Len(b) /\ Len(a) \in Nat /\ Len(b) \in Nat
    BY <1>1
  <1>3. \A k \in DOMAIN s : s[k] = IF k <= Len(a) THEN a[k] ELSE b[k - Len(a)]
    BY <1>1
  <1>d. DOMAIN a = 1..Len(a) /\ DOMAIN b = 1..Len(b) /\ DOMAIN s = 1..(Len(a) + Len(b))
    BY <1>1, <1>2
  <1>4. \A k \in 1..Len(a) : k \in DOMAIN s /\ s[k] = a[k]
    BY <1>3, <1>d, <1>2
  <1>5. \A k \in 1..Len(b) : k + Len(a) \in DOMAIN s /\ s[k + Len(a)] = b[k]
    BY <1>3, <1>d, <1>2
  <1>6. \A k \in DOMAIN s :
           \/ k \in DOMAIN a /\ s[k] = a[k]
           \/ k - Len(a) \in DOMAIN b /\ s[k] = b[k - Len(a)]
    BY <1>3, <1>d, <1>2
  <1> HIDE DEF s
  <1>7. \A k \in DOMAIN s : s[k].type \in T \cup U /\ \E n \in DOMAIN X : s[k] = X[n]
    BY <1>6 DEF Part
  <1>8. \A n \in DOMAIN X : X[n].type \in T \cup U => \E k \in DOMAIN s : s[k] = X[n]
    <2> SUFFICES ASSUME NEW n \in DOMAIN X, X[n].type \in T \cup U
                 PROVE  \E k \in DOMAIN s : s[k] = X[n]
      OBVIOUS
    <2>1. CASE X[n].type \in T
      <3>1. PICK k \in DOMAIN a : a[k] = X[n]
        BY <2>1 DEF Part
      <3> QED BY <3>1, <1>4, <1>d
    <2>2. CASE X[n].type \in U
      <3>1. PICK k \in DOMAIN b : b[k] = X[n]
        BY <2>2 DEF Part
      <3> QED BY <3>1, <1>5, <1>d
    <2> QED BY <2>1, <2>2
  <1>9. \A j \in DOMAIN a, k \in DOMAIN b : a[j].id # b[k].id
    <2> SUFFICES ASSUME NEW j \in DOMAIN a, NEW k \in DOMAIN b PROVE a[j].id # b[k].id
      OBVIOUS
    <2>1. a[j].type # b[k].type
      BY DEF Part
    <2>2. PICK m \in DOMAIN X : a[j] = X[m]
      BY DEF Part
    <2>3. PICK n \in DOMAIN X : b[k] = X[n]
      BY DEF Part
    <2> QED BY <2>1, <2>2, <2>3 DEF DistinctIDs
  <1>10. DistinctIDs(s)
    <2> SUFFICES ASSUME NEW j \in DOMAIN s, NEW k \in DOMAIN s, j # k PROVE s[j].id # s[k].id
      BY DEF DistinctIDs
    <2>1. CASE j \in DOMAIN a /\ s[j] = a[j] /\ k \in DOMAIN a /\ s[k] = a[k]
      BY <2>1 DEF Part, DistinctIDs
    <2>2. CASE j \in DOMAIN a /\ s[j] = a[j] /\ k - Len(a) \in DOMAIN b /\ s[k] = b[k - Len(a)]
      BY <2>2, <1>9
    <2>3. CASE k \in DOMAIN a /\ s[k] = a[k] /\ j - Len(a) \in DOMAIN b /\ s[j] = b[j - Len(a)]
      BY <2>3, <1>9
    <2>4. CASE j - Len(a) \in DOMAIN b /\ s[j] = b[j - Len(a)] /\ k - Len(a) \in DOMAIN b /\ s[k] = b[k - Len(a)]
      <3>1. j - Len(a) # k - Len(a)
        BY <1>d, <1>2
      <3> QED BY <2>4, <3>1 DEF Part, DistinctIDs
    <2> QED BY <2>1, <2>2, <2>3, <2>4, <1>6
  <1> QED
    BY <1>2, <1>7, <1>8, <1>10 DEF Part, s

\* What is rendered is the document, in another order.
LEMMA RenderOrderIs ==
    ASSUME NEW X \in Seq(Element), DistinctIDs(X)
    PROVE  /\ renderOrder(X) \in Seq(Element) /\ DistinctIDs(renderOrder(X))
           /\ Len(renderOrder(X)) <= Len(X)
           /\ \A k \in DOMAIN renderOrder(X) : \E n \in DOMAIN X : renderOrder(X)[k] = X[n]
           /\ \A n \in DOMAIN X : \E k \in DOMAIN renderOrder(X) : renderOrder(X)[k] = X[n]
  <1> DEFINE I(type) == typed(X, type)
             layer(type) == picked(X, I(type))
             c == Cardinality(I("connector"))
             s == Cardinality(I("stroke"))
             l == Cardinality(I("label"))
             b == Cardinality(I("box"))
  <1>1. renderOrder(X) = layer("connector") \o layer("stroke") \o layer("label") \o layer("box")
    BY DEF renderOrder, typed
  <1>2. \A type : /\ Part(layer(type), X, {type}) /\ Len(layer(type)) = Cardinality(I(type))
                  /\ IsFiniteSet(I(type)) /\ Cardinality(I(type)) \in Nat
    BY LayerIs
  <1>3. \A m, n : m # n => \A i : ~(i \in I(m) /\ i \in I(n))
    BY DEF typed
  <1>4. \A type : \A i \in I(type) : i \in DOMAIN X
    BY DEF typed
  <1> HIDE DEF I
  <1>5. c + s + l + b <= Len(X)
    <2> DEFINE cs == I("connector") \cup I("stroke")
               csl == cs \cup I("label")
               all == csl \cup I("box")
    <2>1. IsFiniteSet(cs) /\ Cardinality(cs) = c + s
      <3>1. I("connector") \cap I("stroke") = {}
        BY <1>3
      <3>2. Cardinality(I("connector") \cap I("stroke")) = 0
        BY <3>1, FS_EmptySet
      <3>3. IsFiniteSet(I("connector")) /\ IsFiniteSet(I("stroke")) /\ c \in Nat /\ s \in Nat
        BY <1>2
      <3>4. IsFiniteSet(cs) /\ Cardinality(cs) = c + s - Cardinality(I("connector") \cap I("stroke"))
        BY <3>3, FS_Union
      <3> QED BY <3>2, <3>3, <3>4
    <2>2. IsFiniteSet(csl) /\ Cardinality(csl) = c + s + l
      <3>1. cs \cap I("label") = {}
        BY <1>3
      <3>2. Cardinality(cs \cap I("label")) = 0
        BY <3>1, FS_EmptySet
      <3> HIDE DEF cs
      <3>3. Cardinality(cs \cup I("label")) = Cardinality(cs) + l - 0 /\ IsFiniteSet(csl)
        BY <3>2, <2>1, <1>2, FS_Union
      <3> QED BY <3>3, <2>1, <1>2
    <2>3. IsFiniteSet(all) /\ Cardinality(all) = c + s + l + b
      <3>1. csl \cap I("box") = {}
        BY <1>3
      <3>2. Cardinality(csl \cap I("box")) = 0
        BY <3>1, FS_EmptySet
      <3> HIDE DEF csl
      <3>3. Cardinality(csl \cup I("box")) = Cardinality(csl) + b - 0 /\ IsFiniteSet(all)
        BY <3>2, <2>2, <1>2, FS_Union
      <3> QED BY <3>3, <2>2, <1>2
    <2>4. \A i \in all : i \in 1..Len(X)
      BY <1>4
    <2> HIDE DEF all
    <2>5. IsFiniteSet(1..Len(X)) /\ Cardinality(1..Len(X)) = Len(X)
      <3>1. Len(X) \in Nat
        OBVIOUS
      <3> QED BY <3>1, FS_Interval
    <2>6. all \in SUBSET (1..Len(X))
      BY <2>4
    <2> QED BY <2>3, <2>5, <2>6, FS_Subset
  <1> HIDE DEF layer
  <1> DEFINE two == layer("connector") \o layer("stroke")
             three == two \o layer("label")
             four == three \o layer("box")
  <1>6. Part(two, X, {"connector"} \cup {"stroke"}) /\ Len(two) = c + s
    <2>1. \A t \in {"connector"} : t \notin {"stroke"}
      OBVIOUS
    <2>2. /\ Part(layer("connector"), X, {"connector"}) /\ Len(layer("connector")) = c
          /\ Part(layer("stroke"), X, {"stroke"}) /\ Len(layer("stroke")) = s
      BY <1>2
    <2> QED BY <2>1, <2>2, PartsJoin
  <1>7. Part(three, X, {"connector"} \cup {"stroke"} \cup {"label"}) /\ Len(three) = c + s + l
    <2> HIDE DEF two
    <2>1. \A t \in {"connector"} \cup {"stroke"} : t \notin {"label"}
      OBVIOUS
    <2>2. Part(layer("label"), X, {"label"}) /\ Len(layer("label")) = l
      BY <1>2
    <2> QED BY <1>6, <2>1, <2>2, PartsJoin
  <1>8. Part(four, X, {"connector"} \cup {"stroke"} \cup {"label"} \cup {"box"}) /\ Len(four) = c + s + l + b
    <2> HIDE DEF three
    <2>1. \A t \in {"connector"} \cup {"stroke"} \cup {"label"} : t \notin {"box"}
      OBVIOUS
    <2>2. Part(layer("box"), X, {"box"}) /\ Len(layer("box")) = b
      BY <1>2
    <2> QED BY <1>7, <2>1, <2>2, PartsJoin
  <1>9. renderOrder(X) = four
    BY <1>1
  <1>10. \A n \in DOMAIN X : X[n].type \in {"connector"} \cup {"stroke"} \cup {"label"} \cup {"box"}
    <2>1. \A n \in DOMAIN X : X[n] \in Element
      OBVIOUS
    <2> QED BY <2>1 DEF Element, NativeTypes
  <1> HIDE DEF four
  <1>11. Part(renderOrder(X), X, {"connector"} \cup {"stroke"} \cup {"label"} \cup {"box"})
         /\ Len(renderOrder(X)) <= Len(X)
    BY <1>5, <1>8, <1>9
  <1> QED
    BY <1>10, <1>11 DEF Part

-----------------------------------------------------------------------------
(* What a load puts on the canvas *)

\* A canvas element as the document's element e is drawn.
drawnAs(c, e) ==
    /\ c.web = e.id /\ c.board = e.id /\ c.ink = e.ink /\ nativeType(c.shape) = e.type
    /\ c.kind = e.kind /\ c.body = e.body /\ c.from = e.from
    /\ c.pose = "canonical" /\ ~c.deleted

\* A canvas as the document X is drawn.
Canonical(elements, X) ==
    LET r == renderOrder(X)
    IN /\ elements \in Seq(CanvasElement) /\ Len(elements) <= MaxElements
       /\ DOMAIN elements = DOMAIN r
       /\ \A n \in DOMAIN r : drawnAs(elements[n], r[n])

\* convertToExcalidrawElements draws the element it is given.
LEMMA SkeletonIs ==
    ASSUME NEW e \in Element
    PROVE  excalidrawSkeleton(e) \in CanvasElement /\ drawnAs(excalidrawSkeleton(e), e)
  <1> DEFINE shape == CASE e.type = "box"       -> semanticBoxPresentation(e.kind)
                        [] e.type = "connector" -> "arrow"
                        [] e.type = "label"     -> "text"
                        [] e.type = "stroke"    -> "freedraw"
  <1>1. e.type \in NativeTypes
    BY DEF Element
  <1>2. semanticBoxPresentation(e.kind) \in {"diamond", "ellipse", "rectangle"}
    BY DEF semanticBoxPresentation
  <1>3. DOMAIN boxKindForExcalType = {"rectangle", "diamond", "ellipse"}
    BY DEF boxKindForExcalType
  <1>4. shape \in CanvasShapes /\ nativeType(shape) = e.type
    <2>1. CASE e.type = "box"
      <3>1. shape = semanticBoxPresentation(e.kind)
        BY <2>1
      <3> HIDE DEF shape
      <3> QED BY <3>1, <2>1, <1>2, <1>3 DEF CanvasShapes, nativeType
    <2>2. CASE e.type = "connector"
      <3>1. shape = "arrow"
        BY <2>2
      <3> HIDE DEF shape
      <3> QED BY <3>1, <2>2, <1>3 DEF CanvasShapes, nativeType
    <2>3. CASE e.type = "label"
      <3>1. shape = "text"
        BY <2>3
      <3> HIDE DEF shape
      <3> QED BY <3>1, <2>3, <1>3 DEF CanvasShapes, nativeType
    <2>4. CASE e.type = "stroke"
      <3>1. shape = "freedraw"
        BY <2>4
      <3> HIDE DEF shape
      <3> QED BY <3>1, <2>4, <1>3 DEF CanvasShapes, nativeType
    <2> QED BY <1>1, <2>1, <2>2, <2>3, <2>4 DEF NativeTypes
  <1>5. excalidrawSkeleton(e) =
          [web |-> e.id, board |-> e.id, kind |-> e.kind, body |-> e.body, from |-> e.from,
           shape |-> shape, pose |-> "canonical", version |-> 1, deleted |-> FALSE, ink |-> e.ink]
    BY DEF excalidrawSkeleton
  <1> HIDE DEF shape
  <1> QED
    BY <1>4, <1>5 DEF drawnAs, CanvasElement, Element, WebIDs, Kinds, Poses

\* A load draws the document.
LEMMA LoadedIs ==
    ASSUME NEW X \in Document
    PROVE  Canonical(toExcalidrawElements(renderOrder(X)), X)
  <1> DEFINE r == renderOrder(X)
             s == toExcalidrawElements(r)
  <1>1. r \in Seq(Element) /\ Len(r) <= Len(X) /\ Len(X) <= MaxElements /\ Len(X) \in Nat
    BY RenderOrderIs DEF Document
  <1> HIDE DEF r
  <1>2. s = [n \in DOMAIN r |-> excalidrawSkeleton(r[n])] /\ DOMAIN s = DOMAIN r
    BY DEF toExcalidrawElements
  <1>3. \A n \in DOMAIN r : s[n] \in CanvasElement /\ drawnAs(s[n], r[n])
    BY <1>1, <1>2, SkeletonIs
  <1>4. DOMAIN r = 1..Len(r) /\ Len(r) \in Nat
    BY <1>1
  <1>5. s \in Seq(CanvasElement) /\ Len(s) = Len(r)
    BY <1>2, <1>3, <1>4
  <1>6. Len(s) <= MaxElements
    BY <1>1, <1>4, <1>5, BoundsAssumption
  <1> QED
    BY <1>2, <1>3, <1>5, <1>6 DEF Canonical, r

\* A reconcile draws it too, with newer versions.
LEMMA ReconciledIs ==
    ASSUME NEW X, NEW elements, Canonical(elements, X), NEW current \in Seq(CanvasElement)
    PROVE  Canonical(reconcileNativeElementVersions(elements, current), X)
  <1> DEFINE s == reconcileNativeElementVersions(elements, current)
             same(n) == {c \in ToSet(current) : c.web = elements[n].web}
             newer(n) == (CHOOSE c \in same(n) : TRUE).version + 1
  <1>1. elements \in Seq(CanvasElement) /\ Len(elements) \in Nat /\ DOMAIN elements = 1..Len(elements)
    BY DEF Canonical
  <1>2. \A c \in ToSet(current) : c \in CanvasElement
    BY DEF ToSet
  <1>3. \A n \in DOMAIN elements : same(n) # {} => newer(n) \in Nat \ {0}
    <2> SUFFICES ASSUME NEW n \in DOMAIN elements, same(n) # {} PROVE newer(n) \in Nat \ {0}
      OBVIOUS
    <2> DEFINE c == CHOOSE c \in same(n) : TRUE
    <2>1. c \in CanvasElement
      BY <1>2
    <2> HIDE DEF c
    <2>2. c.version \in Nat
      BY <2>1 DEF CanvasElement
    <2>3. c.version + 1 \in Nat \ {0}
      BY <2>2
    <2> QED BY <2>3 DEF c
  <1>4. s = [n \in DOMAIN elements |-> IF same(n) = {} THEN elements[n]
                                       ELSE [elements[n] EXCEPT !.version = newer(n)]]
    BY DEF reconcileNativeElementVersions
  <1> HIDE DEF s, same, newer
  <1>5. \A n \in DOMAIN elements :
            s[n] \in CanvasElement /\ \A e : drawnAs(elements[n], e) => drawnAs(s[n], e)
    <2> SUFFICES ASSUME NEW n \in DOMAIN elements
                 PROVE  s[n] \in CanvasElement /\ \A e : drawnAs(elements[n], e) => drawnAs(s[n], e)
      OBVIOUS
    <2>1. elements[n] \in CanvasElement
      BY <1>1
    <2>2. s[n] = IF same(n) = {} THEN elements[n] ELSE [elements[n] EXCEPT !.version = newer(n)]
      BY <1>4
    <2>3. CASE same(n) = {}
      BY <2>1, <2>2, <2>3
    <2>4. CASE same(n) # {}
      <3> DEFINE v == newer(n)
                 o == elements[n]
      <3>1. v \in Nat \ {0} /\ s[n] = [o EXCEPT !.version = v] /\ o \in CanvasElement
        BY <2>1, <2>2, <2>4, <1>3
      <3> HIDE DEF v, o
      <3> QED BY <3>1 DEF CanvasElement, drawnAs, o
    <2> QED BY <2>3, <2>4
  <1>6. DOMAIN s = DOMAIN elements
    BY <1>4
  <1>7. s \in Seq(CanvasElement) /\ Len(s) = Len(elements)
    BY <1>1, <1>4, <1>5, <1>6
  <1> HIDE DEF Canonical
  <1>8. DOMAIN elements = DOMAIN renderOrder(X)
        /\ \A n \in DOMAIN renderOrder(X) : drawnAs(elements[n], renderOrder(X)[n])
        /\ Len(elements) <= MaxElements
    BY DEF Canonical
  <1>9. Canonical(s, X)
    BY <1>5, <1>6, <1>7, <1>8 DEF Canonical
  <1> QED
    BY <1>9 DEF s

-----------------------------------------------------------------------------
(* Which identity an element gets *)

taken(g, n) == {g[m].id : m \in 1..n - 1}

\* g assigns to the first k elements, each after those before it.
Assigns(g, k, elements, X, ledger) ==
    g = [n \in 1..k |-> assignedID(elements[n], taken(g, n), X, ledger)]

\* Identities are given one element at a time.
LEMMA AssignsGrows ==
    ASSUME NEW k \in Nat, NEW g, NEW elements, NEW X, NEW ledger, Assigns(g, k, elements, X, ledger)
    PROVE  \E h : Assigns(h, k + 1, elements, X, ledger)
  <1> DEFINE last == assignedID(elements[k + 1], taken(g, k + 1), X, ledger)
             h == [n \in 1..k + 1 |-> IF n = k + 1 THEN last ELSE g[n]]
  <1>1. \A n \in 1..k : g[n] = assignedID(elements[n], taken(g, n), X, ledger)
    BY DEF Assigns
  <1>2. \A n \in 1..k + 1 : h[n] = IF n = k + 1 THEN last ELSE g[n]
    OBVIOUS
  <1> HIDE DEF h, last
  <1>3. ASSUME NEW n \in 1..k + 1 PROVE taken(h, n) = taken(g, n)
    <2>1. \A m \in 1..n - 1 : h[m] = g[m]
      BY <1>2
    <2> QED BY <2>1 DEF taken
  <1>4. \A n \in 1..k + 1 : h[n] = assignedID(elements[n], taken(h, n), X, ledger)
    <2> SUFFICES ASSUME NEW n \in 1..k + 1
                 PROVE  h[n] = assignedID(elements[n], taken(h, n), X, ledger)
      OBVIOUS
    <2>1. taken(h, n) = taken(g, n)
      BY <1>3
    <2>2. CASE n = k + 1
      BY <2>1, <2>2, <1>2 DEF last
    <2>3. CASE n # k + 1
      <3>1. n \in 1..k
        BY <2>3
      <3> QED BY <2>1, <2>3, <3>1, <1>1, <1>2
    <2> QED BY <2>2, <2>3
  <1>5. h = [n \in 1..k + 1 |-> assignedID(elements[n], taken(h, n), X, ledger)]
    <2>1. h = [n \in 1..k + 1 |-> h[n]]
      BY DEF h
    <2> QED BY <2>1, <1>4
  <1> QED
    BY <1>5 DEF Assigns

\* There is an assignment for every prefix.
LEMMA AssignsExists ==
    ASSUME NEW elements, NEW X, NEW ledger
    PROVE  \A k \in Nat : \E g : Assigns(g, k, elements, X, ledger)
  <1> DEFINE bad == {k \in Nat : ~\E g : Assigns(g, k, elements, X, ledger)}
  <1> SUFFICES ASSUME bad # {} PROVE FALSE
    OBVIOUS
  <1>1. PICK k \in bad : \A j \in bad : k <= j
    <2>1. bad \in SUBSET Nat
      OBVIOUS
    <2> HIDE DEF bad
    <2> QED BY <2>1, SmallestExists
  <1>2. CASE k = 0
    <2> DEFINE g == << >>
    <2>1. g = [n \in 1..0 |-> assignedID(elements[n], taken(g, n), X, ledger)]
      OBVIOUS
    <2> HIDE DEF g
    <2>2. Assigns(g, 0, elements, X, ledger)
      BY <2>1 DEF Assigns
    <2> QED BY <2>2, <1>2
  <1>3. CASE k # 0
    <2>1. k - 1 \in Nat /\ k - 1 < k /\ (k - 1) + 1 = k
      BY <1>3
    <2>2. k - 1 \notin bad
      BY <1>1, <2>1
    <2>3. PICK g : Assigns(g, k - 1, elements, X, ledger)
      BY <2>1, <2>2
    <2>4. \E h : Assigns(h, (k - 1) + 1, elements, X, ledger)
      BY <2>1, <2>3, AssignsGrows
    <2> QED BY <2>1, <2>4
  <1> QED BY <1>2, <1>3

\* assignedIDs is what its recursion says.
LEMMA AssignedIDsAre ==
    ASSUME NEW elements, NEW N \in Nat, DOMAIN elements = 1..N, NEW X, NEW ledger
    PROVE  Assigns(assignedIDs(elements, X, ledger), N, elements, X, ledger)
  <1> DEFINE P(g) == g = [n \in DOMAIN elements |->
                            assignedID(elements[n], {g[m].id : m \in 1..n - 1}, X, ledger)]
             a == assignedIDs(elements, X, ledger)
  <1>1. a = CHOOSE g : P(g)
    BY DEF assignedIDs
  <1>2. PICK h : Assigns(h, N, elements, X, ledger)
    BY AssignsExists
  <1>3. \A g : P(g) <=> Assigns(g, N, elements, X, ledger)
    BY DEF Assigns, taken
  <1> HIDE DEF P, a
  <1>4. P(h)
    BY <1>2, <1>3
  <1>5. P(a)
    BY <1>1, <1>4, Zenon
  <1> QED
    BY <1>3, <1>5 DEF a

\* A new identity is new.
LEMMA NextIDIsNew ==
    ASSUME NEW used, IsFiniteSet(used), NEW prefix \in NativeTypes
    PROVE  nextID(prefix, used) \in BoardIDs /\ nextID(prefix, used) \notin used
  <1> DEFINE C == Cardinality(used)
             new == {n \in 1..C + 1 : boardID(prefix, n) \notin used}
  <1>1. C \in Nat
    BY FS_CardinalityType
  <1>2. new # {}
    <2> SUFFICES ASSUME new = {} PROVE FALSE
      OBVIOUS
    <2> DEFINE f == [n \in 1..C + 1 |-> boardID(prefix, n)]
    <2>1. f \in [1..C + 1 -> used]
      OBVIOUS
    <2>2. IsFiniteSet(1..C + 1) /\ Cardinality(1..C + 1) = C + 1
      BY <1>1, FS_Interval
    <2>3. C < C + 1
      BY <1>1
    <2> HIDE DEF f, C
    <2>4. \E m, n \in 1..C + 1 : m # n /\ f[m] = f[n]
      <3> DEFINE S == 1..C + 1
      <3>1. IsFiniteSet(S) /\ C < Cardinality(S) /\ f \in [S -> used] /\ C = Cardinality(used)
        BY <2>1, <2>2, <2>3 DEF C
      <3> HIDE DEF S
      <3>2. \E m, n \in S : m # n /\ f[m] = f[n]
        BY <3>1, FS_PigeonHole
      <3> QED BY <3>2 DEF S
    <2>5. PICK m \in 1..C + 1, n \in 1..C + 1 : m # n /\ f[m] = f[n]
      BY <2>4
    <2>6. boardID(prefix, m) = boardID(prefix, n)
      BY <2>5 DEF f
    <2>7. boardID(prefix, m).ordinal = m /\ boardID(prefix, n).ordinal = n
      BY DEF boardID
    <2> QED BY <2>5, <2>6, <2>7
  <1>3. PICK n \in new : \A m \in new : n <= m
    <2>1. new \in SUBSET Nat
      BY <1>1
    <2> HIDE DEF new
    <2> QED BY <2>1, <1>2, SmallestExists
  <1> DEFINE Q(i) == /\ boardID(prefix, i) \notin used
                     /\ \A m \in 1..i - 1 : boardID(prefix, m) \in used
             i0 == CHOOSE i \in 1..C + 1 : Q(i)
  <1>4. Q(n)
    BY <1>1, <1>3
  <1>5. nextID(prefix, used) = boardID(prefix, i0)
    BY DEF nextID
  <1>6. n \in 1..C + 1
    OBVIOUS
  <1> HIDE DEF Q, C
  <1>7. i0 \in 1..C + 1 /\ Q(i0)
    BY <1>4, <1>6, Zenon
  <1>8. boardID(prefix, i0) \notin used
    BY <1>7 DEF Q
  <1>9. boardID(prefix, i0) \in BoardIDs
    <2>1. i0 \in Nat
      BY <1>7, <1>1 DEF C
    <2> QED BY <2>1, DrawnIDs
  <1> QED
    BY <1>5, <1>8, <1>9
fitsIn(id, e, X) == id \in ids(X) => typeIn(X, id) = e.type
claims(e, used, X) == e.board \in ids(X) /\ fitsIn(e.board, e, X) /\ e.board \notin used
recalls(e, used, X, ledger) ==
    e.web \in DOMAIN ledger /\ fitsIn(ledger[e.web], e, X) /\ ledger[e.web] \notin used

IDLedger(ledger) == \A w \in DOMAIN ledger : ledger[w] \in BoardIDs

\* Finitely many identities are taken.
LEMMA TakenIsFinite ==
    ASSUME NEW g, NEW n \in Nat
    PROVE  IsFiniteSet(taken(g, n))
  <1> DEFINE f == [m \in 1..n - 1 |-> g[m].id]
  <1>1. f \in [1..n - 1 -> taken(g, n)] /\ \A t \in taken(g, n) : \E m \in 1..n - 1 : f[m] = t
    BY DEF taken
  <1> HIDE DEF f
  <1>2. f \in Surjection(1..n - 1, taken(g, n))
    BY <1>1 DEF Surjection
  <1>3. IsFiniteSet(1..n - 1)
    BY FS_Interval
  <1> QED
    BY <1>2, <1>3, FS_Surjection

\* A document has finitely many IDs.
LEMMA IdsAreFinite ==
    ASSUME NEW X \in Seq(Element)
    PROVE  IsFiniteSet(ids(X)) /\ ids(X) = {X[n].id : n \in DOMAIN X}
  <1> DEFINE f == [n \in 1..Len(X) |-> X[n].id]
  <1>0. DOMAIN X = 1..Len(X) /\ Len(X) \in Nat
    OBVIOUS
  <1>1. ids(X) = {X[n].id : n \in DOMAIN X}
    BY DEF ids, ToSet
  <1>2. f \in [1..Len(X) -> ids(X)] /\ \A t \in ids(X) : \E m \in 1..Len(X) : f[m] = t
    BY <1>0, <1>1
  <1> HIDE DEF f
  <1>3. f \in Surjection(1..Len(X), ids(X))
    BY <1>2 DEF Surjection
  <1>4. IsFiniteSet(1..Len(X))
    BY <1>0, FS_Interval
  <1> QED
    BY <1>1, <1>3, <1>4, FS_Surjection

\* The type of a document's element, by its identity.
LEMMA TypeInIs ==
    ASSUME NEW X \in Seq(Element), DistinctIDs(X), NEW n \in DOMAIN X
    PROVE  X[n].id \in ids(X) /\ typeIn(X, X[n].id) = X[n].type
  <1>1. X[n] \in ToSet(X)
    BY DEF ToSet
  <1>2. \A e \in ToSet(X) : e.id = X[n].id => e = X[n]
    BY DEF ToSet, DistinctIDs
  <1>3. (CHOOSE e \in ToSet(X) : e.id = X[n].id) = X[n]
    BY <1>1, <1>2
  <1> QED
    BY <1>1, <1>3 DEF ids, typeIn

\* The three ways to an identity, in this order, and what every identity is.
LEMMA AssignedIs ==
    ASSUME NEW elements \in Seq(SceneElement), NEW X \in Seq(Element), NEW ledger, IDLedger(ledger)
    PROVE  LET g == assignedIDs(elements, X, ledger)
           IN /\ DOMAIN g = DOMAIN elements
              /\ \A n \in DOMAIN elements : g[n].reload \in BOOLEAN
              /\ \A n \in DOMAIN elements :
                    LET e == elements[n]  used == taken(g, n)
                    IN /\ g[n].id \in BoardIDs /\ g[n].id \notin used /\ fitsIn(g[n].id, e, X)
                       /\ claims(e, used, X) => g[n].id = e.board
                       /\ ~claims(e, used, X) /\ recalls(e, used, X, ledger) => g[n].id = ledger[e.web]
                       /\ ~claims(e, used, X) /\ ~recalls(e, used, X, ledger) => g[n].id \notin ids(X)
              /\ \A m, n \in DOMAIN elements : m # n => g[m].id # g[n].id
  <1> DEFINE g == assignedIDs(elements, X, ledger)
  <1>0. DOMAIN elements = 1..Len(elements) /\ Len(elements) \in Nat
    OBVIOUS
  <1>1. Assigns(g, Len(elements), elements, X, ledger)
    BY <1>0, AssignedIDsAre
  <1> HIDE DEF g
  <1>2. DOMAIN g = DOMAIN elements
    BY <1>0, <1>1 DEF Assigns
  <1>3. \A n \in DOMAIN elements : g[n] = assignedID(elements[n], taken(g, n), X, ledger)
    BY <1>0, <1>1 DEF Assigns
  <1>4. ASSUME NEW n \in DOMAIN elements
        PROVE  LET e == elements[n]  used == taken(g, n)
               IN /\ g[n].id \in BoardIDs /\ g[n].id \notin used /\ fitsIn(g[n].id, e, X)
                  /\ claims(e, used, X) => g[n].id = e.board
                  /\ ~claims(e, used, X) /\ recalls(e, used, X, ledger) => g[n].id = ledger[e.web]
                  /\ ~claims(e, used, X) /\ ~recalls(e, used, X, ledger) => g[n].id \notin ids(X)
                  /\ g[n].reload \in BOOLEAN
    <2> DEFINE e == elements[n]
               used == taken(g, n)
               new == nextID(e.type, used \cup ids(X))
    <2>1. g[n] = IF claims(e, used, X) THEN [id |-> e.board, reload |-> FALSE]
                 ELSE IF recalls(e, used, X, ledger) THEN [id |-> ledger[e.web], reload |-> TRUE]
                 ELSE [id |-> new, reload |-> TRUE]
      BY <1>3 DEF assignedID, claims, recalls, fitsIn
    <2>2. e \in SceneElement
      OBVIOUS
    <2>3. new \in BoardIDs /\ new \notin used \cup ids(X)
      <3>1. IsFiniteSet(used \cup ids(X))
        <4>1. IsFiniteSet(used)
          BY <1>0, TakenIsFinite
        <4> QED BY <4>1, IdsAreFinite, FS_Union
      <3>2. e.type \in NativeTypes
        BY <2>2 DEF SceneElement
      <3> QED BY <3>1, <3>2, NextIDIsNew
    <2>4. \A id \in ids(X) : id \in BoardIDs
      <3>1. \A m \in DOMAIN X : X[m] \in Element
        OBVIOUS
      <3>2. \A m \in DOMAIN X : X[m].id \in BoardIDs
        BY <3>1 DEF Element
      <3> QED BY <3>2, IdsAreFinite
    <2> HIDE DEF new, e, used
    <2>5. CASE claims(e, used, X)
      <3>1. g[n].id = e.board /\ g[n].reload = FALSE
        BY <2>1, <2>5
      <3> QED BY <3>1, <2>4, <2>5 DEF claims, used, e
    <2>6. CASE ~claims(e, used, X) /\ recalls(e, used, X, ledger)
      <3>1. g[n].id = ledger[e.web] /\ g[n].reload = TRUE
        BY <2>1, <2>6
      <3> QED BY <3>1, <2>6 DEF recalls, used, e, IDLedger
    <2>7. CASE ~claims(e, used, X) /\ ~recalls(e, used, X, ledger)
      <3>1. g[n].id = new /\ g[n].reload = TRUE
        BY <2>1, <2>7
      <3> QED BY <3>1, <2>3, <2>7 DEF used, e, fitsIn
    <2> QED BY <2>5, <2>6, <2>7
  <1>5. ASSUME NEW m \in DOMAIN elements, NEW n \in DOMAIN elements, m # n PROVE g[m].id # g[n].id
    <2>1. m \in Nat /\ n \in Nat
      BY <1>0
    <2>2. m < n => g[m].id \in taken(g, n)
      BY <1>0 DEF taken
    <2>3. n < m => g[n].id \in taken(g, m)
      BY <1>0 DEF taken
    <2>4. g[n].id \notin taken(g, n) /\ g[m].id \notin taken(g, m)
      BY <1>4
    <2> QED BY <2>1, <2>2, <2>3, <2>4, <1>5
  <1> QED
    BY <1>2, <1>4, <1>5 DEF g

-----------------------------------------------------------------------------
(* What a scene is decoded as *)

Scene == [elements : Bounded(SceneElement), selected : WebIDs \cup {none}, tool : Tools,
          unsupported : Int]

\* decodeChange: a document with distinct IDs, and the ledger it gives.
LEMMA DecodedIs ==
    ASSUME NEW scene \in Scene, NEW X \in Seq(Element), NEW ledger, IDLedger(ledger),
           NEW d, d = decodeChange(scene, X, ledger),
           NEW g, g = assignedIDs(scene.elements, X, ledger)
    PROVE  /\ d.document \in Document
           /\ DOMAIN d.document = DOMAIN scene.elements
           /\ \A n \in DOMAIN scene.elements :
                 /\ d.document[n].id = g[n].id
                 /\ d.document[n].type = scene.elements[n].type
                 /\ d.document[n].ink = scene.elements[n].ink
           /\ d.isValid \in BOOLEAN /\ d.requiresReload \in BOOLEAN
           /\ d.selected \in BoardIDs \cup {none} /\ d.tool = scene.tool
           /\ DOMAIN d.boardIDsByWebID = {scene.elements[n].web : n \in DOMAIN scene.elements}
           /\ \A w \in DOMAIN d.boardIDsByWebID :
                 \E n \in DOMAIN scene.elements :
                    scene.elements[n].web = w /\ d.boardIDsByWebID[w] = g[n].id
  <1> DEFINE s == scene.elements
             webs == {e.web : e \in ToSet(s)}
             map == [w \in webs |-> g[CHOOSE n \in DOMAIN s : s[n].web = w].id]
             boardOf(w) == IF w \in DOMAIN map THEN map[w] ELSE none
             element(e, id) == [id |-> id, type |-> e.type, kind |-> e.kind, body |-> e.body,
                                from |-> boardOf(e.from), ink |-> e.ink]
  <1>0. s \in Seq(SceneElement) /\ Len(s) <= MaxElements /\ scene.tool \in Tools
        /\ scene.selected \in WebIDs \cup {none}
    BY DEF Scene, Bounded
  <1>1. webs = {s[n].web : n \in DOMAIN s}
    BY DEF ToSet
  <1>2. /\ DOMAIN g = DOMAIN s
        /\ \A n \in DOMAIN s : g[n].id \in BoardIDs
        /\ \A m, n \in DOMAIN s : m # n => g[m].id # g[n].id
    BY <1>0, AssignedIs
  <1>3. /\ d.isValid = (scene.unsupported = 0)
        /\ d.document = [n \in DOMAIN s |-> element(s[n], g[n].id)]
        /\ d.selected = boardOf(scene.selected)
        /\ d.boardIDsByWebID = map
        /\ d.tool = scene.tool
        /\ d.requiresReload = (\/ \E n \in DOMAIN g : g[n].reload
                               \/ \E e \in ToSet(s) : e.pose = "free")
    BY DEF decodeChange, decodedAs
  <1>4. DOMAIN map = webs
    OBVIOUS
  <1>5. \A w \in webs : \E n \in DOMAIN s : s[n].web = w /\ map[w] = g[n].id
    <2> SUFFICES ASSUME NEW w \in webs PROVE \E n \in DOMAIN s : s[n].web = w /\ map[w] = g[n].id
      OBVIOUS
    <2> DEFINE n == CHOOSE n \in DOMAIN s : s[n].web = w
    <2>1. map[w] = g[n].id
      OBVIOUS
    <2>2. \E m \in DOMAIN s : s[m].web = w
      BY <1>1
    <2>3. n \in DOMAIN s /\ s[n].web = w
      BY <2>2
    <2> QED BY <2>1, <2>3
  <1> HIDE DEF map
  <1>6. \A w : boardOf(w) \in BoardIDs \cup {none}
    BY <1>2, <1>4, <1>5
  <1> HIDE DEF boardOf
  <1>7. \A n \in DOMAIN s : s[n] \in SceneElement
    BY <1>0
  <1>8. \A n \in DOMAIN s : element(s[n], g[n].id) \in Element
    BY <1>2, <1>6, <1>7 DEF Element, SceneElement, Kinds
  <1>9. \A n \in DOMAIN s : /\ d.document[n].id = g[n].id
                            /\ d.document[n].type = s[n].type
                            /\ d.document[n].ink = s[n].ink
    BY <1>3
  <1>10. d.document \in Seq(Element) /\ Len(d.document) = Len(s) /\ DOMAIN d.document = DOMAIN s
    <2> HIDE DEF element
    <2>1. DOMAIN s = 1..Len(s) /\ Len(s) \in Nat
      BY <1>0
    <2>2. d.document = [n \in 1..Len(s) |-> element(s[n], g[n].id)]
      BY <1>3, <2>1
    <2> HIDE DEF s
    <2> QED BY <2>1, <2>2, <1>8
  <1>11. DistinctIDs(d.document)
    BY <1>2, <1>9, <1>10 DEF DistinctIDs
  <1>18. Whole(d.document)
    <2> SUFFICES ASSUME NEW n \in DOMAIN s
                 PROVE  /\ d.document[n].type = "box" => d.document[n].kind # "none"
                        /\ d.document[n].from = none
                             \/ \E m \in DOMAIN s : d.document[n].from = d.document[m].id
      BY <1>10 DEF Whole
    <2>1. d.document[n].type = s[n].type /\ d.document[n].kind = s[n].kind
          /\ d.document[n].from = boardOf(s[n].from)
      BY <1>3
    <2>2. s[n].type = "box" => s[n].kind # "none"
      BY <1>7 DEF SceneElement
    <2>3. boardOf(s[n].from) = none \/ \E m \in DOMAIN s : boardOf(s[n].from) = g[m].id
      BY <1>4, <1>5 DEF boardOf
    <2> QED BY <2>1, <2>2, <2>3, <1>9
  <1>12. d.document \in Document
    BY <1>0, <1>10, <1>11, <1>18 DEF Document
  <1>13. d.isValid \in BOOLEAN /\ d.requiresReload \in BOOLEAN
    BY <1>3
  <1>14. d.selected \in BoardIDs \cup {none} /\ d.tool = scene.tool
    BY <1>3, <1>6
  <1>15. d.boardIDsByWebID = map /\ DOMAIN d.boardIDsByWebID = webs
    BY <1>3, <1>4
  <1>16. \A w \in DOMAIN d.boardIDsByWebID :
            \E n \in DOMAIN s : s[n].web = w /\ d.boardIDsByWebID[w] = g[n].id
    BY <1>5, <1>15
  <1>17. DOMAIN d.boardIDsByWebID = {s[n].web : n \in DOMAIN s}
    BY <1>1, <1>15
  <1> HIDE DEF webs, element
  <1> QED
    BY <1>9, <1>10, <1>12, <1>13, <1>14, <1>16, <1>17

-----------------------------------------------------------------------------
(* The scene publication controller *)

controller(active, pending, adopted) ==
    [active |-> active, pending |-> pending, adopted |-> adopted]

\* A controller holds a scene back only during a gesture or before its baseline.
Sound(p) ==
    \E active \in BOOLEAN : \E pending, adopted :
        /\ p = controller(active, pending, adopted)
        /\ pending = none \/ active \/ adopted = none

\* Changing one field of a controller.
LEMMA Fields ==
    ASSUME NEW a, NEW s, NEW d
    PROVE  /\ controller(a, s, d).active = a
           /\ controller(a, s, d).pending = s
           /\ controller(a, s, d).adopted = d
  BY DEF controller

\* A controller with another field: active.
LEMMA SetActive ==
    ASSUME NEW a, NEW s, NEW d, NEW v
    PROVE  [controller(a, s, d) EXCEPT !.active = v] = controller(v, s, d)
  <1> DEFINE S == {a, s, d, v}
  <1>1. a \in S /\ s \in S /\ d \in S /\ v \in S
    OBVIOUS
  <1> HIDE DEF S
  <1> QED
    BY <1>1 DEF controller

\* The gesture ends.
LEMMA Lowered ==
    ASSUME NEW a, NEW s, NEW d
    PROVE  [controller(a, s, d) EXCEPT !.active = FALSE] = controller(FALSE, s, d)
  <1> DEFINE f == FALSE
  <1> HIDE DEF f
  <1>1. [controller(a, s, d) EXCEPT !.active = f] = controller(f, s, d)
    BY SetActive
  <1> QED
    BY <1>1, Zenon DEF f

\* Another pending scene.
LEMMA SetPending ==
    ASSUME NEW a, NEW s, NEW d, NEW v
    PROVE  [controller(a, s, d) EXCEPT !.pending = v] = controller(a, v, d)
  <1> DEFINE S == {a, s, d, v}
  <1>1. a \in S /\ s \in S /\ d \in S /\ v \in S
    OBVIOUS
  <1> HIDE DEF S
  <1> QED
    BY <1>1 DEF controller

\* Another adopted scene.
LEMMA SetAdopted ==
    ASSUME NEW a, NEW s, NEW d, NEW v
    PROVE  [controller(a, s, d) EXCEPT !.adopted = v] = controller(a, s, v)
  <1> DEFINE S == {a, s, d, v}
  <1>1. a \in S /\ s \in S /\ d \in S /\ v \in S
    OBVIOUS
  <1> HIDE DEF S
  <1> QED
    BY <1>1 DEF controller

\* Whatever it held, a controller that publishes outside a gesture is sound.
LEMMA PublishSound ==
    ASSUME NEW active \in BOOLEAN, NEW pending, NEW adopted
    PROVE  Sound(publishPendingScene(controller(active, pending, adopted)))
  <1> DEFINE p == controller(active, pending, adopted)
             a == IF publishes(p) THEN adopt(p.pending) ELSE p.adopted
  <1>1. p.pending = pending /\ p.adopted = adopted
    BY Fields
  <1>2. CASE pending = none \/ adopted = none
    BY <1>1, <1>2 DEF Sound, publishPendingScene
  <1>3. CASE ~(pending = none \/ adopted = none)
    <2>1. publishPendingScene(p) = [p EXCEPT !.pending = none, !.adopted = a]
      BY <1>1, <1>3 DEF publishPendingScene
    <2> HIDE DEF a
    <2> DEFINE q == [p EXCEPT !.pending = none]
    <2>2. q = controller(active, none, adopted)
      BY SetPending
    <2> HIDE DEF q
    <2>3. [q EXCEPT !.adopted = a] = controller(active, none, a)
      BY <2>2, SetAdopted
    <2>4. publishPendingScene(p) = controller(active, none, a)
      BY <2>1, <2>3 DEF q
    <2> QED
      BY <2>4 DEF Sound
  <1> QED
    BY <1>2, <1>3

\* acceptScene leaves nothing behind.
LEMMA AcceptSound ==
    ASSUME NEW p, NEW scene, Sound(p)
    PROVE  Sound(acceptScene(p, scene))
  <1>0. PICK active \in BOOLEAN : \E pending, adopted : p = controller(active, pending, adopted)
    BY DEF Sound
  <1>1. PICK pending, adopted : p = controller(active, pending, adopted)
    BY <1>0
  <1>2. /\ [p EXCEPT !.pending = scene] = controller(active, scene, adopted)
        /\ p.active = active
    BY <1>1, Fields, SetPending
  <1>3. acceptScene(p, scene) = IF active THEN controller(active, scene, adopted)
                               ELSE publishPendingScene(controller(active, scene, adopted))
    BY <1>2 DEF acceptScene
  <1>4. CASE active
    BY <1>3, <1>4 DEF Sound
  <1>5. CASE ~active
    BY <1>3, <1>5, PublishSound
  <1> QED
    BY <1>4, <1>5

\* endPointerInteraction leaves nothing behind.
LEMMA EndSound ==
    ASSUME NEW p, Sound(p)
    PROVE  Sound(endPointerInteraction(p))
  <1>0. PICK active \in BOOLEAN : \E pending, adopted : p = controller(active, pending, adopted)
    BY DEF Sound
  <1>1. PICK pending, adopted : p = controller(active, pending, adopted)
    BY <1>0
  <1>2. p.active = active
    BY <1>1, Fields
  <1>3. [p EXCEPT !.active = FALSE] = controller(FALSE, pending, adopted)
    BY <1>1, Lowered, Zenon
  <1>4. CASE active
    <2>1. endPointerInteraction(p) = publishPendingScene(controller(FALSE, pending, adopted))
      BY <1>2, <1>3, <1>4, Zenon DEF endPointerInteraction
    <2> QED
      BY <2>1, PublishSound, Zenon
  <1>5. CASE ~active
    <2>1. endPointerInteraction(p) = p
      BY <1>2, <1>5, Zenon DEF endPointerInteraction
    <2> QED
      BY <2>1
  <1> QED
    BY <1>4, <1>5

\* beginPointerInteraction.
LEMMA BeginSound ==
    ASSUME NEW p, Sound(p)
    PROVE  Sound(beginPointerInteraction(p))
  <1>0. PICK active \in BOOLEAN : \E pending, adopted : p = controller(active, pending, adopted)
    BY DEF Sound
  <1>1. PICK pending, adopted : p = controller(active, pending, adopted)
    BY <1>0
  <1> DEFINE t == TRUE
  <1>2. t \in BOOLEAN /\ t
    OBVIOUS
  <1>3. beginPointerInteraction(p) = [p EXCEPT !.active = t]
    BY DEF beginPointerInteraction
  <1> HIDE DEF t
  <1>4. [p EXCEPT !.active = t] = controller(t, pending, adopted)
    BY <1>1, SetActive
  <1> QED
    BY <1>2, <1>3, <1>4 DEF Sound

\* adoptScene.
LEMMA AdoptSound ==
    ASSUME NEW p, NEW scene
    PROVE  Sound(adoptScene(p, scene))
  <1> DEFINE a == adopt(scene)
  <1>1. adoptScene(p, scene) = controller(FALSE, none, a)
    BY DEF adoptScene, controller
  <1> HIDE DEF a
  <1> QED
    BY <1>1 DEF Sound

\* A document is put under the adopted scene.
LEMMA OverlaidSound ==
    ASSUME NEW p, Sound(p)
    PROVE  Sound(overlaid(p))
  <1>0. PICK active \in BOOLEAN : \E pending, adopted :
            /\ p = controller(active, pending, adopted)
            /\ pending = none \/ active \/ adopted = none
    BY DEF Sound
  <1>1. PICK pending, adopted :
            /\ p = controller(active, pending, adopted)
            /\ pending = none \/ active \/ adopted = none
    BY <1>0
  <1>2. p.adopted = adopted
    BY <1>1, Fields
  <1>3. CASE adopted = none
    BY <1>2, <1>3 DEF overlaid
  <1>4. CASE adopted # none
    <2> DEFINE a == [p.adopted EXCEPT !.shows = none]
    <2>1. overlaid(p) = [p EXCEPT !.adopted = a]
      BY <1>2, <1>4 DEF overlaid
    <2> HIDE DEF a
    <2>2. [p EXCEPT !.adopted = a] = controller(active, pending, a)
      BY <1>1, SetAdopted
    <2> QED
      BY <1>1, <1>4, <2>1, <2>2 DEF Sound
  <1> QED
    BY <1>3, <1>4
-----------------------------------------------------------------------------
(* What a step does to the controller *)

\* A new controller.
LEMMA NewSound == Sound(NewPublication)
  BY DEF NewPublication, controller, Sound

\* The start.
LEMMA InitSound == Init => Sound(publication)
  BY NewSound DEF Init

\* A change of the canvas is captured or accepted.
LEMMA ChangeSound ==
    ASSUME Sound(publication), NEW p, NEW byPerson, handleChange(p, byPerson)
    PROVE  Sound(publication')
  <1>1. \/ publication' = publication
        \/ publication' = acceptScene(publication, changeScene(p))
    BY DEF handleChange
  <1> QED
    BY <1>1, AcceptSound

\* The end of a gesture, and the update it may let run.
LEMMA InteractionSound ==
    ASSUME Sound(publication), NEW p, EndInteraction(p)
    PROVE  Sound(publication')
  <1>1. \/ publication' = endPointerInteraction(publication)
        \/ publication' = overlaid(endPointerInteraction(publication))
    BY DEF EndInteraction
  <1> QED
    BY <1>1, EndSound, OverlaidSound

\* The person's own steps.
LEMMA PersonSound ==
    ASSUME Sound(publication), Person
    PROVE  Sound(publication')
  <1>1. CASE PointerDown
    BY <1>1, BeginSound DEF PointerDown
  <1>2. CASE Draw
    BY <1>2, ChangeSound DEF Draw, edit
  <1>3. CASE Move
    BY <1>3, ChangeSound DEF Move, edit
  <1>4. CASE Rotate
    BY <1>4, ChangeSound DEF Rotate, edit
  <1>5. CASE Select
    BY <1>5, ChangeSound DEF Select, edit
  <1>6. CASE Delete
    BY <1>6, ChangeSound DEF Delete, edit
  <1>7. CASE Paste
    BY <1>7, ChangeSound DEF Paste, edit
  <1>8. CASE FlushThenPost
    BY <1>8, AdoptSound DEF FlushThenPost
  <1>9. CASE PostTool \/ PostReturn
    BY <1>9 DEF PostTool, PostReturn
  <1>10. CASE Blur
    BY <1>10, InteractionSound DEF Blur
  <1>11. CASE MenuFlush \/ InspectRevision
    BY <1>11 DEF MenuFlush, InspectRevision, pageUnchanged
  <1>12. CASE ResetEditorSession
    BY <1>12, NewSound DEF ResetEditorSession
  <1> QED
    BY <1>1, <1>2, <1>3, <1>4, <1>5, <1>6, <1>7, <1>8, <1>9, <1>10, <1>11, <1>12
       DEF Person

\* The steps of page and application.
LEMMA SystemSound ==
    ASSUME Sound(publication), System
    PROVE  Sound(publication')
  <1>1. CASE FinishNativeUpdate
    <2>1. \/ \E scene : publication' = acceptScene(publication, scene)
          \/ \E scene : publication' = adoptScene(publication, scene)
      BY <1>1 DEF FinishNativeUpdate
    <2> QED
      BY <2>1, AcceptSound, AdoptSound
  <1>2. CASE CommitChange
    BY <1>2, ChangeSound DEF CommitChange
  <1>3. CASE ReceiveUpdate
    <2>1. publication' = publication \/ publication' = overlaid(publication)
      BY <1>3 DEF ReceiveUpdate
    <2> QED
      BY <2>1, OverlaidSound
  <1>4. CASE ReceiveFlush
    BY <1>4, AdoptSound DEF ReceiveFlush
  <1>5. CASE PointerUp
    BY <1>5, InteractionSound DEF PointerUp
  <1>6. CASE ReceiveReady \/ ReceiveEvent \/ ReceiveReply \/ HandleReply \/ Observe \/ RunTask
    BY <1>6 DEF ReceiveReady, ReceiveEvent, ReceiveReply, HandleReply, Observe, RunTask
  <1> QED
    BY <1>1, <1>2, <1>3, <1>4, <1>5, <1>6 DEF System

\* Every step keeps the controller sound.
LEMMA StepSound ==
    ASSUME Sound(publication), [Next]_vars
    PROVE  Sound(publication')
  <1>1. CASE UNCHANGED vars
    BY <1>1 DEF vars
  <1> QED
    BY <1>1, PersonSound, SystemSound DEF Next

-----------------------------------------------------------------------------

PublicationIsSound == Sound(publication)

\* However gestures, flushes, native updates and retries of the editor interleave,
\* an accepted scene stays unpublished only while a pointer is down or before the
\* first baseline (publishPendingScene and its callers, scene-publication.js).
THEOREM NothingLeftBehind == Spec => []NoEditIsLeftBehind
  <1>1. Init => PublicationIsSound
    BY InitSound DEF PublicationIsSound
  <1>2. PublicationIsSound /\ [Next]_vars => PublicationIsSound'
    BY StepSound DEF PublicationIsSound
  <1>3. PublicationIsSound => NoEditIsLeftBehind
    BY Fields DEF PublicationIsSound, Sound, NoEditIsLeftBehind
  <1> QED
    BY <1>1, <1>2, <1>3, PTL DEF Spec

-----------------------------------------------------------------------------
(* What each variable holds *)

AppState    == [selected : WebIDs \cup {none}, tool : DOMAIN nativeToolForExcalType]
CanvasScene == [elements : Bounded(CanvasElement), appState : AppState]
Snapshot    == [document : Document, selected : BoardIDs \cup {none}, tool : Tools,
                readOnly : BOOLEAN]

\* An update that waits: a document is drawn as a load draws it.
Update ==
    {u \in [call : {"load", "reconcile", "state"}, snapshot : Snapshot,
            elements : Bounded(CanvasElement)] :
        carriesDocument(u) => Canonical(u.elements, u.snapshot.document)}

Overlay == [web : WebIDs, kind : Kinds, body : Int, pictogram : BOOLEAN]

Page ==
    [canvas : Bounded(CanvasElement), appState : AppState, overlay : SUBSET Overlay,
     held : BOOLEAN, readOnly : BOOLEAN, changed : BOOLEAN, loading : BOOLEAN,
     finishing : BOOLEAN, received : BOOLEAN, deferredChange : {none} \cup CanvasScene,
     deferredUpdate : {NoUpdate} \cup Update, hasLoaded : BOOLEAN]

Revision    == {identify(scene) : scene \in CanvasScene}
Publication ==
    [active : BOOLEAN, pending : {none} \cup CanvasScene,
     adopted : {none} \cup [revision : Revision, shows : Scene \cup {none}]]

Entry == [document : Document, selected : BoardIDs \cup {none}]
Draft ==
    [document : Document, undo : Seq(Entry), redo : Seq(Entry), revision : Document,
     selected : BoardIDs \cup {none}, tool : Tools, inspecting : BOOLEAN]

IDLedgers == UNION {[W -> BoardIDs] : W \in SUBSET WebIDs}
Task      == {NoTask} \cup [task : {"load", "reconcile"}, snapshot : Snapshot]
Coordinator ==
    [ready : BOOLEAN, snapshot : Snapshot, lastLoaded : {<<>>} \cup {<<X>> : X \in Document},
     boardIDsByWebID : IDLedgers, task : Task, observing : BOOLEAN]

Call ==
    [call : {"load", "reconcile", "state"}, snapshot : Snapshot, then : {"none"}]
      \cup [call : {"flush"}, snapshot : {none}, then : Commands]
SceneEvent == [event : {"scene"}, command : {"none"}, scene : Scene]
Flushed    == [event : {"flushedCommand"}, command : Commands, scene : Scene]
Reply      == [event : {"reply"}, command : Commands, scene : Scene]
Event ==
    SceneEvent \cup Flushed \cup Reply
      \cup [event : {"ready"}, command : {"none"}, scene : {none}]
      \cup [event : {"command"}, command : {"tool", "returnToDraft"}, scene : {none}]

TypeInvariant ==
    /\ page \in Page /\ publication \in Publication
    /\ draft \in Draft /\ coordinator \in Coordinator
    /\ toPage \in Seq(Call) /\ toNative \in Seq(Event) /\ replies \in Seq(Reply)
    /\ acts \in 0..MaxActs /\ raced \in BOOLEAN

\* Tools of the native side and of Excalidraw.
LEMMA ToolNames ==
    /\ Tools = {"hand", "select", "box", "connector", "label", "line", "pen", "eraser"}
    /\ DOMAIN nativeToolForExcalType = {"hand", "selection", "rectangle", "diamond", "ellipse",
                                        "arrow", "line", "freedraw", "text", "eraser"}
    /\ \A t \in Tools : excalTypeForNativeTool[t] \in DOMAIN nativeToolForExcalType
    /\ \A t \in DOMAIN nativeToolForExcalType : nativeToolForExcalType[t] \in Tools
  <1>1. Tools = {"hand", "select", "box", "connector", "label", "line", "pen", "eraser"}
    BY DEF Tools, excalTypeForNativeTool
  <1>2. DOMAIN nativeToolForExcalType = {"hand", "selection", "rectangle", "diamond", "ellipse",
                                         "arrow", "line", "freedraw", "text", "eraser"}
    BY DEF nativeToolForExcalType
  <1>3. \A t \in Tools : excalTypeForNativeTool[t] \in DOMAIN nativeToolForExcalType
    <2>1. /\ excalTypeForNativeTool["hand"] = "hand" /\ excalTypeForNativeTool["select"] = "selection"
          /\ excalTypeForNativeTool["box"] = "rectangle" /\ excalTypeForNativeTool["connector"] = "arrow"
          /\ excalTypeForNativeTool["label"] = "text" /\ excalTypeForNativeTool["line"] = "line"
          /\ excalTypeForNativeTool["pen"] = "freedraw" /\ excalTypeForNativeTool["eraser"] = "eraser"
      BY DEF excalTypeForNativeTool
    <2> QED BY <1>1, <1>2, <2>1
  <1>4. \A t \in DOMAIN nativeToolForExcalType : nativeToolForExcalType[t] \in Tools
    <2>1. /\ nativeToolForExcalType["hand"] = "hand" /\ nativeToolForExcalType["selection"] = "select"
          /\ nativeToolForExcalType["rectangle"] = "box" /\ nativeToolForExcalType["diamond"] = "box"
          /\ nativeToolForExcalType["ellipse"] = "box" /\ nativeToolForExcalType["arrow"] = "connector"
          /\ nativeToolForExcalType["line"] = "line" /\ nativeToolForExcalType["freedraw"] = "pen"
          /\ nativeToolForExcalType["text"] = "label" /\ nativeToolForExcalType["eraser"] = "eraser"
      BY DEF nativeToolForExcalType
    <2> QED BY <1>1, <1>2, <2>1
  <1> QED BY <1>1, <1>2, <1>3, <1>4

\* The canvas of a new page.
LEMMA EmptyCanvas == <<>> \in Bounded(CanvasElement)
  BY BoundsAssumption DEF Bounded

\* The document at the start.
LEMMA InitialIs ==
    /\ InitialDocument \in Document
    /\ \A n \in DOMAIN InitialDocument : InitialDocument[n].ink <= 0
    /\ \A m, n \in DOMAIN InitialDocument : m # n => InitialDocument[m].ink # InitialDocument[n].ink
  <1>1. \A n \in DOMAIN InitialDocument :
           InitialDocument[n].from = none \/ InitialDocument[n].from \in ids(InitialDocument)
    BY InitialDocumentAssumption
  <1>2. ids(InitialDocument) = {InitialDocument[n].id : n \in DOMAIN InitialDocument}
    BY InitialDocumentAssumption, IdsAreFinite
  <1>3. Whole(InitialDocument)
    BY <1>1, <1>2, InitialDocumentAssumption DEF Whole
  <1> QED
    BY <1>3, InitialDocumentAssumption DEF Document, DistinctIDs

\* live, of a canvas.
LEMMA LiveTyped ==
    ASSUME NEW c \in Bounded(CanvasElement)
    PROVE  live(c) \in Bounded(CanvasElement)
  <1>1. c \in Seq(CanvasElement) /\ Len(c) <= MaxElements /\ Len(c) \in Nat
    BY DEF Bounded
  <1>2. live(c) \in Seq(CanvasElement) /\ Len(live(c)) \in Nat /\ Len(live(c)) <= Len(c)
    BY <1>1, LiveIs
  <1> QED BY <1>1, <1>2, BoundsAssumption DEF Bounded

\* visible, of a canvas.
LEMMA VisibleTyped ==
    ASSUME NEW c \in Bounded(CanvasElement)
    PROVE  visible(c) \in Bounded(SceneElement)
  <1>1. c \in Seq(CanvasElement) /\ Len(c) <= MaxElements /\ Len(c) \in Nat
    BY DEF Bounded
  <1>2. visible(c) \in Seq(SceneElement) /\ Len(visible(c)) \in Nat /\ Len(visible(c)) <= Len(c)
    BY <1>1, VisibleIs
  <1> QED BY <1>1, <1>2, BoundsAssumption DEF Bounded

\* normalizeScene, of a scene.
LEMMA PrepareTyped ==
    ASSUME NEW s \in CanvasScene
    PROVE  prepare(s) \in Scene /\ prepare(s).elements = visible(s.elements)
  <1>0. s.elements \in Bounded(CanvasElement) /\ s.appState \in AppState
    BY DEF CanvasScene
  <1>1. s.elements \in Seq(CanvasElement)
    BY <1>0 DEF Bounded
  <1> DEFINE u == Len(live(s.elements)) - Len(supported(s.elements))
             v == visible(s.elements)
             t == nativeToolForExcalType[s.appState.tool]
  <1>2. u \in Int
    BY <1>1, LiveIs, VisibleIs
  <1>3. v \in Bounded(SceneElement)
    BY <1>0, VisibleTyped
  <1>4. s.appState.selected \in WebIDs \cup {none} /\ t \in Tools
    BY <1>0, ToolNames DEF AppState
  <1>5. prepare(s) = [elements |-> v, selected |-> s.appState.selected, tool |-> t, unsupported |-> u]
    BY DEF prepare, normalizeScene
  <1> HIDE DEF u, v, t
  <1>6. prepare(s) \in Scene /\ prepare(s).elements = v
    BY <1>2, <1>3, <1>4, <1>5 DEF Scene
  <1> QED BY <1>6 DEF v

\* The scenes the page reads off its canvas.
LEMMA ReadTyped ==
    ASSUME NEW p \in Page
    PROVE  /\ readScene(p) \in CanvasScene /\ readScene(p).elements = live(p.canvas)
           /\ changeScene(p) \in CanvasScene /\ changeScene(p).elements = p.canvas
  <1>1. p.canvas \in Bounded(CanvasElement) /\ p.appState \in AppState
    BY DEF Page
  <1>2. live(p.canvas) \in Bounded(CanvasElement)
    BY <1>1, LiveTyped
  <1> QED BY <1>1, <1>2 DEF readScene, changeScene, sceneOf, CanvasScene

\* The overlay of a canvas.
LEMMA OverlayTyped ==
    ASSUME NEW c \in Bounded(CanvasElement)
    PROVE  semanticOverlay(c) \in SUBSET Overlay
  <1>1. live(c) \in Seq(CanvasElement)
    BY LiveTyped DEF Bounded
  <1>2. \A e \in ToSet(live(c)) : e \in CanvasElement
    BY <1>1 DEF ToSet
  <1>3. \A e \in CanvasElement :
            [web |-> e.web, kind |-> e.kind, body |-> e.body,
             pictogram |-> e.kind \notin {"decision", "ellipse"}] \in Overlay
    BY DEF CanvasElement, Overlay
  <1> QED BY <1>2, <1>3 DEF semanticOverlay

-----------------------------------------------------------------------------
(* What the publication controller does *)

\* What adoptScene keeps.
LEMMA AdoptedIs ==
    ASSUME NEW s \in CanvasScene
    PROVE  adopt(s) \in [revision : Revision, shows : Scene \cup {none}] /\ adopt(s) # none
  <1> DEFINE r == identify(s)
             v == prepare(s)
  <1>1. r \in Revision /\ v \in Scene
    BY PrepareTyped DEF Revision
  <1>2. adopt(s) = [revision |-> r, shows |-> v]
    BY DEF adopt
  <1> HIDE DEF r, v
  <1>3. DOMAIN adopt(s) # DOMAIN none
    <2>1. DOMAIN adopt(s) = {"revision", "shows"} /\ DOMAIN none = {"is"}
      BY <1>2 DEF none
    <2> QED BY <2>1
  <1> QED BY <1>1, <1>2, <1>3

\* A new controller.
LEMMA NewPublicationIs ==
    /\ NewPublication \in Publication /\ ~NewPublication.active
    /\ NewPublication.pending = none /\ NewPublication.adopted = none
  BY DEF NewPublication, Publication

\* What is published is the pending scene.
LEMMA PublishedIs ==
    ASSUME NEW p \in Publication
    PROVE  /\ published(p) \in Seq(SceneEvent) /\ Len(published(p)) \in {0, 1}
           /\ publishes(p) => /\ p.pending \in CanvasScene /\ p.adopted # none
                              /\ published(p) = <<event("scene", "none", prepare(p.pending))>>
           /\ ~publishes(p) => published(p) = <<>>
  <1>1. CASE publishes(p)
    <2> DEFINE v == prepare(p.pending)
    <2>1. p.pending \in CanvasScene /\ p.adopted # none
      BY <1>1 DEF publishes, Publication
    <2>2. v \in Scene
      BY <2>1, PrepareTyped
    <2>3. published(p) = <<event("scene", "none", v)>>
      BY <1>1 DEF published
    <2> HIDE DEF v
    <2>4. event("scene", "none", v) \in SceneEvent
      BY <2>2 DEF event, SceneEvent
    <2>5. <<event("scene", "none", v)>> \in Seq(SceneEvent) /\ Len(<<event("scene", "none", v)>>) = 1
      BY <2>4
    <2> QED BY <1>1, <2>1, <2>3, <2>5 DEF v
  <1>2. CASE ~publishes(p)
    <2>1. published(p) = <<>>
      BY <1>2 DEF published
    <2> QED BY <1>2, <2>1
  <1> QED BY <1>1, <1>2

\* publishPendingScene.
LEMMA PublishTyped ==
    ASSUME NEW p \in Publication
    PROVE  LET q == publishPendingScene(p)
           IN /\ q \in Publication /\ q.active = p.active
              /\ q.pending = (IF p.adopted = none THEN p.pending ELSE none)
              /\ q.adopted = none <=> p.adopted = none
  <1> DEFINE q == publishPendingScene(p)
             a == IF publishes(p) THEN adopt(p.pending) ELSE p.adopted
  <1>1. CASE p.pending = none \/ p.adopted = none
    BY <1>1 DEF publishPendingScene
  <1>2. CASE ~(p.pending = none \/ p.adopted = none)
    <2>1. a \in [revision : Revision, shows : Scene \cup {none}] /\ a # none
      <3>1. p.pending \in CanvasScene /\ p.adopted \in [revision : Revision, shows : Scene \cup {none}]
        BY <1>2 DEF Publication
      <3> QED BY <3>1, <1>2, AdoptedIs
    <2>2. q = [p EXCEPT !.pending = none, !.adopted = a]
      BY <1>2 DEF publishPendingScene
    <2> HIDE DEF a, q
    <2>3. q \in Publication /\ q.active = p.active /\ q.pending = none /\ q.adopted # none
      BY <2>1, <2>2 DEF Publication
    <2> QED BY <2>3, <1>2 DEF q
  <1> QED BY <1>1, <1>2

\* acceptScene, and what it publishes.
LEMMA AcceptTyped ==
    ASSUME NEW p \in Publication, NEW s \in CanvasScene
    PROVE  LET q == acceptScene(p, s)
           IN /\ q \in Publication /\ q.active = p.active
              /\ q.pending = (IF p.active \/ p.adopted = none THEN s ELSE none)
              /\ q.adopted = none <=> p.adopted = none
              /\ accepted(p, s) \in Seq(SceneEvent) /\ Len(accepted(p, s)) \in {0, 1}
              /\ p.active \/ p.adopted = none => accepted(p, s) = <<>>
              /\ accepted(p, s) # <<>> =>
                    accepted(p, s) = <<event("scene", "none", prepare(s))>>
  <1> DEFINE o == [p EXCEPT !.pending = s]
             q == acceptScene(p, s)
             a == accepted(p, s)
  <1>1. o \in Publication /\ o.active = p.active /\ o.pending = s /\ o.adopted = p.adopted
    BY DEF Publication
  <1>2. q = IF p.active THEN o ELSE publishPendingScene(o)
    BY DEF acceptScene
  <1>3. a = IF p.active THEN <<>> ELSE published(o)
    BY DEF accepted
  <1>4. CanvasScene # {none} => TRUE
    OBVIOUS
  <1> HIDE DEF o, q, a
  <1>5. p.active \in BOOLEAN
    BY DEF Publication
  <1>6. CASE p.active
    <2>1. <<>> \in Seq(SceneEvent) /\ Len(<<>>) = 0
      OBVIOUS
    <2> QED BY <1>1, <1>2, <1>3, <1>6, <2>1 DEF q, a
  <1>7. CASE ~p.active
    <2>1. q = publishPendingScene(o) /\ a = published(o)
      BY <1>2, <1>3, <1>7
    <2>2. /\ q \in Publication /\ q.active = o.active
          /\ q.pending = (IF o.adopted = none THEN o.pending ELSE none)
          /\ q.adopted = none <=> o.adopted = none
      BY <1>1, <2>1, PublishTyped
    <2>3. /\ a \in Seq(SceneEvent) /\ Len(a) \in {0, 1}
          /\ publishes(o) => /\ o.adopted # none
                             /\ a = <<event("scene", "none", prepare(o.pending))>>
          /\ ~publishes(o) => a = <<>>
      BY <1>1, <2>1, PublishedIs
    <2>4. o.adopted = none => ~publishes(o)
      BY DEF publishes
    <2> QED BY <1>1, <1>7, <2>2, <2>3, <2>4 DEF q, a
  <1> QED BY <1>5, <1>6, <1>7

\* beginPointerInteraction.
LEMMA BeginTyped ==
    ASSUME NEW p \in Publication
    PROVE  LET q == beginPointerInteraction(p)
           IN /\ q \in Publication /\ q.active /\ q.pending = p.pending /\ q.adopted = p.adopted
  BY DEF beginPointerInteraction, Publication

\* endPointerInteraction, and what it publishes.
LEMMA EndTyped ==
    ASSUME NEW p \in Publication
    PROVE  LET q == endPointerInteraction(p)
           IN /\ q \in Publication /\ ~q.active
              /\ q.pending = (IF p.active /\ p.adopted # none THEN none ELSE p.pending)
              /\ q.adopted = none <=> p.adopted = none
              /\ ended(p) \in Seq(SceneEvent) /\ Len(ended(p)) \in {0, 1}
              /\ p.active /\ publishes(p) =>
                    /\ p.pending \in CanvasScene /\ p.adopted # none
                    /\ ended(p) = <<event("scene", "none", prepare(p.pending))>>
              /\ ~(p.active /\ publishes(p)) => ended(p) = <<>>
  <1> DEFINE o == [p EXCEPT !.active = FALSE]
             q == endPointerInteraction(p)
             a == ended(p)
  <1>1. o \in Publication /\ ~o.active /\ o.pending = p.pending /\ o.adopted = p.adopted
    BY DEF Publication
  <1>2. q = IF p.active THEN publishPendingScene(o) ELSE p
    BY DEF endPointerInteraction
  <1>3. a = IF p.active THEN published(p) ELSE <<>>
    BY DEF ended
  <1>5. p.active \in BOOLEAN
    BY DEF Publication
  <1> HIDE DEF o, q, a
  <1>6. CASE p.active
    <2>1. q = publishPendingScene(o) /\ a = published(p)
      BY <1>2, <1>3, <1>6
    <2>2. /\ q \in Publication /\ q.active = o.active
          /\ q.pending = (IF o.adopted = none THEN o.pending ELSE none)
          /\ q.adopted = none <=> o.adopted = none
      BY <1>1, <2>1, PublishTyped
    <2>3. /\ a \in Seq(SceneEvent) /\ Len(a) \in {0, 1}
          /\ publishes(p) => /\ p.pending \in CanvasScene /\ p.adopted # none
                             /\ a = <<event("scene", "none", prepare(p.pending))>>
          /\ ~publishes(p) => a = <<>>
      BY <2>1, PublishedIs
    <2>4. ~q.active /\ q.pending = (IF p.adopted = none THEN p.pending ELSE none)
      BY <1>1, <2>2
    <2> QED BY <1>1, <1>6, <2>2, <2>3, <2>4 DEF q, a
  <1>7. CASE ~p.active
    <2>1. <<>> \in Seq(SceneEvent) /\ Len(<<>>) = 0
      OBVIOUS
    <2> QED BY <1>2, <1>3, <1>7, <2>1 DEF q, a
  <1> QED BY <1>5, <1>6, <1>7

\* adoptScene.
LEMMA AdoptTyped ==
    ASSUME NEW p, NEW s \in CanvasScene
    PROVE  LET q == adoptScene(p, s)
           IN /\ q \in Publication /\ ~q.active /\ q.pending = none /\ q.adopted # none
  <1> DEFINE a == adopt(s)
  <1>1. a \in [revision : Revision, shows : Scene \cup {none}] /\ a # none
    BY AdoptedIs
  <1>2. adoptScene(p, s) = [active |-> FALSE, pending |-> none, adopted |-> a]
    BY DEF adoptScene
  <1> HIDE DEF a
  <1> QED BY <1>1, <1>2 DEF Publication

\* A document is put under the adopted scene.
LEMMA OverlaidTyped ==
    ASSUME NEW p \in Publication
    PROVE  LET q == overlaid(p)
           IN /\ q \in Publication /\ q.active = p.active /\ q.pending = p.pending
              /\ q.adopted = none <=> p.adopted = none
  <1>1. CASE p.adopted = none
    BY <1>1 DEF overlaid
  <1>2. CASE p.adopted # none
    <2> DEFINE a == [p.adopted EXCEPT !.shows = none]
               q == overlaid(p)
    <2>1. p.adopted \in [revision : Revision, shows : Scene \cup {none}]
      BY <1>2 DEF Publication
    <2>2. a \in [revision : Revision, shows : Scene \cup {none}]
      BY <2>1
    <2>3. DOMAIN a = {"revision", "shows"} /\ DOMAIN none = {"is"}
      BY <2>1 DEF none
    <2>4. a # none
      BY <2>3
    <2>5. q = [p EXCEPT !.adopted = a]
      BY <1>2 DEF overlaid
    <2> HIDE DEF a, q
    <2>6. q \in Publication /\ q.active = p.active /\ q.pending = p.pending /\ q.adopted = a
      BY <2>2, <2>5 DEF Publication
    <2> QED BY <1>2, <2>4, <2>6 DEF q
  <1> QED BY <1>1, <1>2

-----------------------------------------------------------------------------
(* What the page does *)

\* A new page.
LEMMA NewPageTyped == NewPage \in Page
  <1>1. "selection" \in DOMAIN nativeToolForExcalType /\ [selected |-> none, tool |-> "selection"] \in AppState
    BY ToolNames DEF AppState
  <1> QED BY <1>1, EmptyCanvas DEF NewPage, Page

\* A native update begins.
Begun(p, q) ==
    /\ q.loading /\ q.finishing /\ q.changed
    /\ q.deferredChange = (IF p.loading THEN p.deferredChange ELSE none)
    /\ q.received = (p.loading /\ p.received)

\* A load, a reconcile or a state call is applied.
LEMMA NativeUpdateIs ==
    ASSUME NEW p \in Page, NEW u \in Update
    PROVE  LET q == nativeUpdate(p, u)
           IN /\ q \in Page /\ q.held = p.held /\ q.readOnly = p.readOnly
              /\ q.canvas = (IF carriesDocument(u) THEN u.elements ELSE p.canvas)
              /\ q.deferredUpdate = p.deferredUpdate /\ q.overlay = p.overlay
              /\ Begun(p, q) \/ (q = p /\ ~carriesDocument(u))
              /\ q.hasLoaded = (p.hasLoaded \/ u.call = "load")
  <1> DEFINE b == beginNativeUpdate(p)
             tool == excalTypeForNativeTool[u.snapshot.tool]
             wanted == [selected |-> u.snapshot.selected,
                        tool |-> IF u.snapshot.readOnly THEN p.appState.tool ELSE tool]
             kept == [wanted EXCEPT !.tool = p.appState.tool]
             q == nativeUpdate(p, u)
  <1>0. /\ u.call \in {"load", "reconcile", "state"} /\ u.snapshot \in Snapshot
        /\ u.elements \in Bounded(CanvasElement)
        /\ carriesDocument(u) <=> u.call \in {"load", "reconcile"}
    BY DEF Update, carriesDocument
  <1>1. tool \in DOMAIN nativeToolForExcalType /\ u.snapshot.selected \in WebIDs \cup {none}
        /\ u.snapshot.readOnly \in BOOLEAN
    BY <1>0, ToolNames DEF Snapshot, WebIDs
  <1>2. p.appState \in AppState /\ p.appState.tool \in DOMAIN nativeToolForExcalType
    BY DEF Page, AppState
  <1> HIDE DEF tool
  <1>3. wanted \in AppState /\ kept \in AppState
    BY <1>1, <1>2 DEF AppState
  <1>4. /\ b \in Page /\ b.canvas = p.canvas /\ b.deferredUpdate = p.deferredUpdate /\ b.overlay = p.overlay
        /\ b.hasLoaded = p.hasLoaded /\ Begun(p, b) /\ b.appState = p.appState
        /\ b.held = p.held /\ b.readOnly = p.readOnly
    <2> DEFINE d == IF p.loading THEN p.deferredChange ELSE none
               r == p.loading /\ p.received
    <2>1. d \in {none} \cup CanvasScene /\ r \in BOOLEAN
      BY DEF Page
    <2>2. b = [p EXCEPT !.loading = TRUE, !.finishing = TRUE, !.changed = TRUE,
                        !.deferredChange = d, !.received = r]
      BY DEF beginNativeUpdate
    <2> HIDE DEF d, r, b
    <2>3. /\ b \in Page /\ b.canvas = p.canvas /\ b.deferredUpdate = p.deferredUpdate /\ b.overlay = p.overlay
          /\ b.hasLoaded = p.hasLoaded /\ b.appState = p.appState
          /\ b.held = p.held /\ b.readOnly = p.readOnly
          /\ b.loading /\ b.finishing /\ b.changed /\ b.deferredChange = d /\ b.received = r
      BY <2>1, <2>2 DEF Page
    <2> QED BY <2>3 DEF Begun, d, r
  <1>5. /\ u.call = "load" =>
             q = [b EXCEPT !.canvas = u.elements, !.hasLoaded = TRUE,
                           !.appState = IF p.hasLoaded THEN kept ELSE wanted]
        /\ u.call = "reconcile" =>
             q = [b EXCEPT !.canvas = u.elements,
                           !.appState = [@ EXCEPT !.selected = u.snapshot.selected]]
        /\ u.call = "state" /\ p.appState # wanted => q = [b EXCEPT !.appState = wanted]
        /\ u.call = "state" /\ p.appState = wanted => q = p
    BY DEF nativeUpdate, tool
  <1>6. p.hasLoaded \in BOOLEAN
    BY DEF Page
  <1> HIDE DEF q, b, wanted, kept
  <1>7. CASE u.call = "load"
    <2> DEFINE a == IF p.hasLoaded THEN kept ELSE wanted
    <2>1. a \in AppState
      BY <1>3
    <2>2. q = [b EXCEPT !.canvas = u.elements, !.hasLoaded = TRUE, !.appState = a]
      BY <1>5, <1>7
    <2> HIDE DEF a
    <2>3. /\ q \in Page /\ q.canvas = u.elements /\ q.deferredUpdate = b.deferredUpdate
          /\ q.overlay = b.overlay /\ q.hasLoaded /\ q.held = b.held /\ q.readOnly = b.readOnly
          /\ q.loading = b.loading /\ q.finishing = b.finishing /\ q.changed = b.changed
          /\ q.deferredChange = b.deferredChange /\ q.received = b.received
      BY <2>1, <2>2, <1>0, <1>4 DEF Page
    <2> QED BY <2>3, <1>0, <1>4, <1>6, <1>7 DEF Begun, q
  <1>8. CASE u.call = "reconcile"
    <2> DEFINE a == [b.appState EXCEPT !.selected = u.snapshot.selected]
    <2>1. a \in AppState
      BY <1>1, <1>2, <1>4 DEF AppState
    <2>2. q = [b EXCEPT !.canvas = u.elements, !.appState = a]
      BY <1>5, <1>8
    <2> HIDE DEF a
    <2>3. /\ q \in Page /\ q.canvas = u.elements /\ q.deferredUpdate = b.deferredUpdate
          /\ q.overlay = b.overlay /\ q.hasLoaded = b.hasLoaded /\ q.held = b.held /\ q.readOnly = b.readOnly
          /\ q.loading = b.loading /\ q.finishing = b.finishing /\ q.changed = b.changed
          /\ q.deferredChange = b.deferredChange /\ q.received = b.received
      BY <2>1, <2>2, <1>0, <1>4 DEF Page
    <2> QED BY <2>3, <1>0, <1>4, <1>6, <1>8 DEF Begun, q
  <1>9. CASE u.call = "state" /\ p.appState # wanted
    <2>2. q = [b EXCEPT !.appState = wanted]
      BY <1>5, <1>9
    <2>3. /\ q \in Page /\ q.canvas = b.canvas /\ q.deferredUpdate = b.deferredUpdate
          /\ q.overlay = b.overlay /\ q.hasLoaded = b.hasLoaded /\ q.held = b.held /\ q.readOnly = b.readOnly
          /\ q.loading = b.loading /\ q.finishing = b.finishing /\ q.changed = b.changed
          /\ q.deferredChange = b.deferredChange /\ q.received = b.received
      BY <2>2, <1>3, <1>4 DEF Page
    <2> QED BY <2>3, <1>0, <1>4, <1>6, <1>9 DEF Begun, q
  <1>10. CASE u.call = "state" /\ p.appState = wanted
    BY <1>0, <1>5, <1>6, <1>10 DEF q
  <1> QED BY <1>0, <1>7, <1>8, <1>9, <1>10

\* The pointer is up.
LEMMA CompletedIs ==
    ASSUME NEW p \in Page, NEW didPublish \in BOOLEAN
    PROVE  LET q == completePointerInteraction(p, didPublish)
               u == p.deferredUpdate
               runs == ~didPublish /\ u # NoUpdate
           IN /\ q \in Page /\ q.deferredUpdate = NoUpdate /\ q.held = p.held
              /\ q.overlay = p.overlay
              /\ runs => u \in Update
              /\ q.canvas = (IF runs /\ carriesDocument(u) THEN u.elements ELSE p.canvas)
              /\ \/ runs /\ Begun(p, q)
                 \/ /\ ~(runs /\ carriesDocument(u))
                    /\ q.loading = p.loading /\ q.finishing = p.finishing /\ q.changed = p.changed
                    /\ q.deferredChange = p.deferredChange /\ q.received = p.received
                    /\ q.hasLoaded = p.hasLoaded
              /\ q.hasLoaded = (p.hasLoaded \/ (runs /\ u.call = "load"))
  <1> DEFINE f == [p EXCEPT !.deferredUpdate = NoUpdate]
             q == completePointerInteraction(p, didPublish)
             u == p.deferredUpdate
             runs == ~didPublish /\ u # NoUpdate
  <1>1. /\ f \in Page /\ f.deferredUpdate = NoUpdate /\ f.canvas = p.canvas /\ f.overlay = p.overlay
        /\ f.loading = p.loading /\ f.finishing = p.finishing /\ f.changed = p.changed
        /\ f.deferredChange = p.deferredChange /\ f.received = p.received
        /\ f.hasLoaded = p.hasLoaded /\ f.held = p.held
    BY DEF Page
  <1>2. u \in {NoUpdate} \cup Update
    BY DEF Page
  <1>3. q = IF ~runs THEN f ELSE nativeUpdate(f, u)
    BY DEF completePointerInteraction
  <1>6. p.hasLoaded \in BOOLEAN /\ runs \in BOOLEAN
    BY DEF Page
  <1> HIDE DEF f, q
  <1>4. CASE ~runs
    BY <1>1, <1>3, <1>4, <1>6 DEF q
  <1>5. CASE runs
    <2>1. q = nativeUpdate(f, u) /\ u \in Update
      BY <1>2, <1>3, <1>5
    <2>2. /\ q \in Page /\ q.held = f.held /\ q.overlay = f.overlay
          /\ q.canvas = (IF carriesDocument(u) THEN u.elements ELSE f.canvas)
          /\ q.deferredUpdate = f.deferredUpdate
          /\ Begun(f, q) \/ (q = f /\ ~carriesDocument(u))
          /\ q.hasLoaded = (f.hasLoaded \/ u.call = "load")
      BY <1>1, <2>1, NativeUpdateIs
    <2>3. Begun(f, q) <=> Begun(p, q)
      BY <1>1 DEF Begun
    <2>4. ~carriesDocument(u) => u.call # "load"
      BY DEF carriesDocument
    <2> HIDE DEF u, runs
    <2> QED BY <1>1, <1>5, <1>6, <2>1, <2>2, <2>3, <2>4 DEF q, u, runs
  <1> QED BY <1>4, <1>5

-----------------------------------------------------------------------------
(* What a gesture does to the canvas *)

\* d draws what c draws, element by element, changed or gone.
alters(d, c) ==
    /\ d.web = c.web /\ d.board = c.board /\ d.ink = c.ink /\ d.shape = c.shape
    /\ shows(d) => shows(c) /\ d.kind = c.kind

\* d has one element more, drawn by gesture a or copied from another.
extends(d, c, a) ==
    \E e \in CanvasElement :
        /\ d = Append(c, e)
        /\ e.web = drawnID(a) /\ e.ink = a
        /\ e.board = none \/ \E n \in DOMAIN c : /\ c[n].board = e.board /\ c[n].shape = e.shape
                                                 /\ shows(e) => shows(c[n])

editsTo(d, c, a) ==
    \/ DOMAIN d = DOMAIN c /\ \A n \in DOMAIN c : alters(d[n], c[n])
    \/ extends(d, c, a)

\* The page as React commits the gesture.
EditedPage(p) ==
    /\ p \in Page /\ editsTo(p.canvas, page.canvas, acts + 1)
    /\ p.loading = page.loading /\ p.finishing = page.finishing /\ p.changed = page.changed
    /\ p.deferredChange = page.deferredChange /\ p.deferredUpdate = page.deferredUpdate
    /\ p.hasLoaded = page.hasLoaded /\ p.held = page.held
    /\ p.received = page.received \/ (p.received = (page.received \/ page.loading))

\* noteUserInput.
LEMMA NotedIs ==
    ASSUME NEW p \in Page
    PROVE  LET q == noteUserInput(p)
           IN q \in Page /\ q = [p EXCEPT !.received = p.received \/ p.loading]
  BY DEF noteUserInput, Page

\* One element of the canvas is changed.
LEMMA ElementChanges ==
    ASSUME TypeInvariant, NEW n \in DOMAIN page.canvas, NEW e \in CanvasElement,
           NEW p, p = [page EXCEPT !.canvas[n] = e], alters(e, page.canvas[n])
    PROVE  EditedPage(p)
  <1> DEFINE c == page.canvas
             d == [c EXCEPT ![n] = e]
  <1>1. page \in Page /\ c \in Seq(CanvasElement) /\ Len(c) <= MaxElements
    BY DEF TypeInvariant, Page, Bounded
  <1>2. d \in Seq(CanvasElement) /\ Len(d) = Len(c) /\ DOMAIN d = DOMAIN c
        /\ d[n] = e /\ \A m \in DOMAIN c : m # n => d[m] = c[m]
    BY <1>1
  <1>3. d \in Bounded(CanvasElement)
    BY <1>1, <1>2 DEF Bounded
  <1>4. \A m \in DOMAIN c : alters(d[m], c[m])
    <2>1. \A m \in DOMAIN c : alters(c[m], c[m])
      BY DEF alters
    <2> QED BY <1>2, <2>1
  <1>5. p = [page EXCEPT !.canvas = d]
    OBVIOUS
  <1> HIDE DEF d
  <1>6. p \in Page /\ p.canvas = d /\ p.received = page.received
        /\ p.loading = page.loading /\ p.finishing = page.finishing /\ p.changed = page.changed
        /\ p.deferredChange = page.deferredChange /\ p.deferredUpdate = page.deferredUpdate
        /\ p.hasLoaded = page.hasLoaded /\ p.held = page.held
    BY <1>1, <1>3, <1>5 DEF Page
  <1> QED BY <1>2, <1>4, <1>6 DEF EditedPage, editsTo

\* The keyboard: the canvas and what is selected change, and the page was touched.
LEMMA KeyboardEdits ==
    ASSUME TypeInvariant, NEW d \in Bounded(CanvasElement), NEW a \in AppState,
           editsTo(d, page.canvas, acts + 1),
           NEW p, p = [noteUserInput(page) EXCEPT !.canvas = d, !.appState = a]
    PROVE  EditedPage(p)
  <1> DEFINE r == page.received \/ page.loading
             q == noteUserInput(page)
  <1>1. page \in Page /\ r \in BOOLEAN
    BY DEF TypeInvariant, Page
  <1>2. q \in Page /\ q = [page EXCEPT !.received = r]
    BY <1>1, NotedIs
  <1> HIDE DEF r, q
  <1>3. p = [q EXCEPT !.canvas = d, !.appState = a]
    BY DEF q
  <1>4. p \in Page /\ p.canvas = d
    BY <1>2, <1>3 DEF Page
  <1>5. q.received = r /\ q.loading = page.loading /\ q.finishing = page.finishing
        /\ q.changed = page.changed /\ q.deferredChange = page.deferredChange
        /\ q.deferredUpdate = page.deferredUpdate /\ q.hasLoaded = page.hasLoaded /\ q.held = page.held
    BY <1>1, <1>2 DEF Page
  <1>6. p.received = q.received /\ p.loading = q.loading /\ p.finishing = q.finishing
        /\ p.changed = q.changed /\ p.deferredChange = q.deferredChange
        /\ p.deferredUpdate = q.deferredUpdate /\ p.hasLoaded = q.hasLoaded /\ p.held = q.held
    BY <1>2, <1>3 DEF Page
  <1> QED BY <1>4, <1>5, <1>6 DEF EditedPage, r

\* Each gesture changes the canvas the way editsTo says.
LEMMA DrawEdits ==
    ASSUME TypeInvariant, Draw
    PROVE  \E p : EditedPage(p) /\ edit(p)
  <1>1. PICK shape \in Shapes : \E from \in
              IF shape # "arrow" THEN {none}
              ELSE {none} \cup {e.web : e \in {x \in ToSet(live(page.canvas)) :
                                                  nativeType(x.shape) = "box"}} :
           LET new == [web |-> drawnID(stroke), board |-> none, kind |-> "none",
                      body |-> stroke, from |-> from, shape |-> shape,
                      pose |-> IF shape = "arrow" THEN "free" ELSE "canonical",
                      version |-> 2, deleted |-> FALSE, ink |-> stroke]
           IN edit([page EXCEPT !.canvas = Append(@, new),
                 !.appState = [selected |-> new.web, tool |-> "selection"]])
    BY DEF Draw
  <1> DEFINE c == page.canvas
             boxes == {x \in ToSet(live(c)) : nativeType(x.shape) = "box"}
             pose == IF shape = "arrow" THEN "free" ELSE "canonical"
  <1>2. PICK from \in IF shape # "arrow" THEN {none} ELSE {none} \cup {e.web : e \in boxes} :
           LET new == [web |-> drawnID(stroke), board |-> none, kind |-> "none",
                      body |-> stroke, from |-> from, shape |-> shape,
                      pose |-> pose, version |-> 2, deleted |-> FALSE, ink |-> stroke]
           IN edit([page EXCEPT !.canvas = Append(@, new),
                 !.appState = [selected |-> new.web, tool |-> "selection"]])
    BY <1>1
  <1>3. page \in Page /\ c \in Seq(CanvasElement) /\ Len(c) < MaxElements /\ acts \in Nat
    BY DEF TypeInvariant, Page, Bounded, Draw
  <1>4. from \in WebIDs \cup {none}
    <2>1. live(c) \in Seq(CanvasElement)
      BY <1>3, LiveIs
    <2>2. \A x \in ToSet(live(c)) : x \in CanvasElement
      BY <2>1 DEF ToSet
    <2>3. \A x \in ToSet(live(c)) : x.web \in WebIDs
      BY <2>2 DEF CanvasElement
    <2> QED BY <2>3
  <1>5. drawnID(stroke) \in WebIDs /\ pose \in Poses /\ pose # "rotated"
    BY <1>3, DrawnIDs DEF stroke, Poses
  <1> HIDE DEF pose
  <1> DEFINE w == drawnID(stroke)
             new == [web |-> w, board |-> none, kind |-> "none",
                      body |-> stroke, from |-> from, shape |-> shape,
                      pose |-> pose, version |-> 2, deleted |-> FALSE, ink |-> stroke]
             d == Append(c, new)
             a == [selected |-> w, tool |-> "selection"]
             p == [page EXCEPT !.canvas = d, !.appState = a]
  <1>6. new \in CanvasElement /\ new.web = w
    <2>1. "none" \in Kinds /\ stroke \in Int /\ shape \in CanvasShapes /\ w \in WebIDs
      BY <1>3, <1>5 DEF Kinds, stroke, CanvasShapes
    <2> HIDE DEF w
    <2> QED BY <2>1, <1>4, <1>5 DEF CanvasElement
  <1>7. a \in AppState
    <2> HIDE DEF w
    <2> QED BY <1>5, ToolNames DEF AppState, w
  <1>8. edit(p)
    BY <1>2
  <1>9. new.board = none /\ new.ink = stroke
    OBVIOUS
  <1> HIDE DEF new, a
  <1>10. d \in Bounded(CanvasElement)
    BY <1>3, <1>6, BoundsAssumption DEF Bounded
  <1>11. extends(d, c, acts + 1)
    BY <1>6, <1>9 DEF extends, stroke
  <1> HIDE DEF d, p
  <1>12. p \in Page /\ p.canvas = d /\ p.received = page.received
        /\ p.loading = page.loading /\ p.finishing = page.finishing /\ p.changed = page.changed
        /\ p.deferredChange = page.deferredChange /\ p.deferredUpdate = page.deferredUpdate
        /\ p.hasLoaded = page.hasLoaded /\ p.held = page.held
    BY <1>3, <1>7, <1>10 DEF p, Page
  <1> QED BY <1>8, <1>11, <1>12 DEF EditedPage, editsTo

\* Moving an element.
LEMMA MoveEdits ==
    ASSUME TypeInvariant, Move
    PROVE  \E p : EditedPage(p) /\ edit(p)
  <1>1. PICK n \in DOMAIN page.canvas :
          /\ ~page.canvas[n].deleted
          /\ edit(edited(page, n, [page.canvas[n] EXCEPT !.body = stroke,
                 !.pose = IF page.canvas[n].shape = "arrow" THEN "free" ELSE @]))
    BY DEF Move
  <1> DEFINE c == page.canvas
             o == c[n]
             pose == IF o.shape = "arrow" THEN "free" ELSE o.pose
             m == [o EXCEPT !.body = stroke, !.pose = pose]
             e == [m EXCEPT !.version = m.version + 1]
             p == edited(page, n, m)
  <1>2. edit(p)
    BY <1>1
  <1>3. page \in Page /\ c \in Seq(CanvasElement) /\ o \in CanvasElement /\ stroke \in Int
    BY DEF TypeInvariant, Page, Bounded, stroke
  <1>4. pose \in Poses /\ (o.shape = "arrow" => pose # "rotated") /\ (pose = "rotated" <=> o.pose = "rotated")
    BY <1>3 DEF CanvasElement, Poses
  <1> HIDE DEF o, pose
  <1>5. /\ m.version = o.version /\ m \in CanvasElement
    BY <1>3, <1>4 DEF CanvasElement
  <1>6. e = [o EXCEPT !.body = stroke, !.pose = pose, !.version = o.version + 1]
    BY <1>3, <1>5 DEF CanvasElement
  <1>7. e \in CanvasElement /\ alters(e, o)
    <2>1. o.version + 1 \in Nat \ {0}
      BY <1>3 DEF CanvasElement
    <2> DEFINE v == o.version + 1
    <2> HIDE DEF v
    <2>2. e = [o EXCEPT !.body = stroke, !.pose = pose, !.version = v] /\ v \in Nat \ {0}
      BY <1>6, <2>1 DEF v
    <2> HIDE DEF e
    <2> QED BY <2>2, <1>3, <1>4 DEF CanvasElement, alters, shows, isSupported
  <1>8. p = [page EXCEPT !.canvas[n] = e]
    BY DEF edited
  <1> HIDE DEF e, p
  <1> QED BY <1>2, <1>7, <1>8, ElementChanges DEF o

\* Rotating an element.
LEMMA RotateEdits ==
    ASSUME TypeInvariant, Rotate
    PROVE  \E p : EditedPage(p) /\ edit(p)
  <1>1. PICK n \in DOMAIN page.canvas :
          /\ ~page.canvas[n].deleted /\ page.canvas[n].shape # "arrow"
          /\ edit(edited(page, n, [page.canvas[n] EXCEPT !.pose = "rotated"]))
    BY DEF Rotate
  <1> DEFINE c == page.canvas
             o == c[n]
             m == [o EXCEPT !.pose = "rotated"]
             e == [m EXCEPT !.version = m.version + 1]
             p == edited(page, n, m)
  <1>2. edit(p)
    BY <1>1
  <1>3. page \in Page /\ c \in Seq(CanvasElement) /\ o \in CanvasElement /\ o.shape # "arrow"
    BY <1>1 DEF TypeInvariant, Page, Bounded
  <1> HIDE DEF o
  <1>4. e \in CanvasElement /\ alters(e, o)
    <2>1. o.version + 1 \in Nat \ {0}
      BY <1>3 DEF CanvasElement
    <2> DEFINE v == o.version + 1
    <2> HIDE DEF v
    <2>2. e = [o EXCEPT !.pose = "rotated", !.version = v] /\ v \in Nat \ {0}
      BY <1>3, <2>1 DEF v, CanvasElement
    <2> HIDE DEF e
    <2> QED BY <2>2, <1>3 DEF CanvasElement, alters, shows, isSupported, Poses
  <1>8. p = [page EXCEPT !.canvas[n] = e]
    BY DEF edited
  <1> HIDE DEF e, p
  <1> QED BY <1>2, <1>4, <1>8, ElementChanges DEF o

\* Selecting an element, or nothing.
LEMMA SelectEdits ==
    ASSUME TypeInvariant, Select
    PROVE  \E p : EditedPage(p) /\ edit(p)
  <1> DEFINE c == page.canvas
  <1>1. PICK w \in {none} \cup {e.web : e \in ToSet(live(c))} :
          edit([page EXCEPT !.appState.selected = w])
    BY DEF Select
  <1>2. page \in Page /\ c \in Seq(CanvasElement)
    BY DEF TypeInvariant, Page, Bounded
  <1>3. w \in WebIDs \cup {none}
    <2>1. \A x \in ToSet(live(c)) : x \in CanvasElement
      BY <1>2, LiveIs DEF ToSet
    <2>2. \A x \in ToSet(live(c)) : x.web \in WebIDs
      BY <2>1 DEF CanvasElement
    <2> QED BY <2>2
  <1> DEFINE a == [page.appState EXCEPT !.selected = w]
             p == [page EXCEPT !.appState = a]
  <1>4. a \in AppState
    BY <1>2, <1>3 DEF Page, AppState
  <1>5. edit(p)
    BY <1>1
  <1> HIDE DEF a
  <1>6. p \in Page /\ p.canvas = c /\ p.received = page.received
        /\ p.loading = page.loading /\ p.finishing = page.finishing /\ p.changed = page.changed
        /\ p.deferredChange = page.deferredChange /\ p.deferredUpdate = page.deferredUpdate
        /\ p.hasLoaded = page.hasLoaded /\ p.held = page.held
    BY <1>2, <1>4 DEF Page
  <1>7. editsTo(c, c, acts + 1)
    BY DEF editsTo, alters
  <1> QED BY <1>5, <1>6, <1>7 DEF EditedPage

\* Deleting an element, and unbinding its arrows.
LEMMA DeleteEdits ==
    ASSUME TypeInvariant, Delete
    PROVE  \E p : EditedPage(p) /\ edit(p)
  <1> DEFINE c == page.canvas
  <1>1. PICK n \in DOMAIN c :
          LET gone == c[n].web
              left(e) == CASE e.web = gone  -> [e EXCEPT !.deleted = TRUE, !.version = @ + 1]
                           [] e.web # gone /\ e.shape = "arrow" /\ e.from = gone ->
                                  [e EXCEPT !.from = none, !.pose = "free", !.version = @ + 1]
                           [] OTHER -> e
          IN edit([noteUserInput(page) EXCEPT
                    !.canvas = [m \in DOMAIN @ |-> left(@[m])],
                    !.appState.selected = none])
    BY DEF Delete
  <1> DEFINE gone == c[n].web
             left(e) == CASE e.web = gone  -> [e EXCEPT !.deleted = TRUE, !.version = @ + 1]
                          [] e.web # gone /\ e.shape = "arrow" /\ e.from = gone ->
                                 [e EXCEPT !.from = none, !.pose = "free", !.version = @ + 1]
                          [] OTHER -> e
             q == noteUserInput(page)
             d == [m \in DOMAIN c |-> left(c[m])]
             a == [page.appState EXCEPT !.selected = none]
             p == [q EXCEPT !.canvas = d, !.appState = a]
  <1>2. page \in Page /\ c \in Seq(CanvasElement) /\ Len(c) <= MaxElements /\ Len(c) \in Nat
        /\ page.appState \in AppState
    BY DEF TypeInvariant, Page, Bounded
  <1>3. q \in Page /\ q = [page EXCEPT !.received = page.received \/ page.loading]
    BY <1>2, NotedIs
  <1>4. q.canvas = c /\ q.appState = page.appState
    BY <1>2, <1>3 DEF Page
  <1>5. edit(p)
    <2>1. edit([q EXCEPT !.canvas = [m \in DOMAIN q.canvas |-> left(q.canvas[m])],
                         !.appState = [q.appState EXCEPT !.selected = none]])
      BY <1>1
    <2> QED BY <2>1, <1>4
  <1>6. a \in AppState
    BY <1>2 DEF AppState
  <1>7. ASSUME NEW e \in CanvasElement PROVE left(e) \in CanvasElement /\ alters(left(e), e)
    <2> DEFINE v == e.version + 1
    <2>0. v \in Nat \ {0}
      BY DEF CanvasElement
    <2>1. CASE e.web = gone
      <3>1. left(e) = [e EXCEPT !.deleted = TRUE, !.version = v]
        BY <2>1
      <3> HIDE DEF left, v
      <3> QED BY <2>0, <3>1 DEF CanvasElement, alters, shows
    <2>2. CASE e.web # gone /\ e.shape = "arrow" /\ e.from = gone
      <3>1. left(e) = [e EXCEPT !.from = none, !.pose = "free", !.version = v]
        BY <2>2
      <3> HIDE DEF left, v
      <3> QED BY <2>0, <2>2, <3>1 DEF CanvasElement, alters, shows, isSupported, Poses
    <2>3. CASE ~(e.web = gone) /\ ~(e.web # gone /\ e.shape = "arrow" /\ e.from = gone)
      <3>1. left(e) = e
        BY <2>3
      <3> HIDE DEF left
      <3> QED BY <3>1 DEF alters
    <2> QED BY <2>1, <2>2, <2>3
  <1> HIDE DEF left, a, q
  <1>8. \A m \in DOMAIN c : left(c[m]) \in CanvasElement /\ alters(left(c[m]), c[m])
    <2>1. \A m \in DOMAIN c : c[m] \in CanvasElement
      BY <1>2
    <2> QED BY <1>7, <2>1
  <1>9. d \in Seq(CanvasElement) /\ Len(d) = Len(c) /\ DOMAIN d = DOMAIN c
    <2>1. DOMAIN c = 1..Len(c)
      BY <1>2
    <2> QED BY <1>2, <1>8, <2>1
  <1>10. d \in Bounded(CanvasElement) /\ \A m \in DOMAIN c : alters(d[m], c[m])
    BY <1>2, <1>8, <1>9 DEF Bounded
  <1>11. editsTo(d, c, acts + 1)
    BY <1>9, <1>10 DEF editsTo
  <1> HIDE DEF d
  <1>12. p = [noteUserInput(page) EXCEPT !.canvas = d, !.appState = a]
    BY DEF q
  <1> HIDE DEF p
  <1>13. EditedPage(p)
    BY <1>6, <1>10, <1>11, <1>12, KeyboardEdits
  <1> QED BY <1>5, <1>13

\* Pasting a copy of an element.
LEMMA PasteEdits ==
    ASSUME TypeInvariant, Paste
    PROVE  \E p : EditedPage(p) /\ edit(p)
  <1> DEFINE c == page.canvas
  <1>1. PICK e \in ToSet(live(c)) :
          edit([noteUserInput(page) EXCEPT
              !.canvas = Append(@, [e EXCEPT !.web = drawnID(stroke), !.ink = stroke,
                                             !.body = stroke]),
              !.appState.selected = drawnID(stroke)])
    BY DEF Paste
  <1> DEFINE q == noteUserInput(page)
             w == drawnID(stroke)
             new == [e EXCEPT !.web = w, !.ink = stroke, !.body = stroke]
             d == Append(c, new)
             a == [page.appState EXCEPT !.selected = w]
             p == [q EXCEPT !.canvas = d, !.appState = a]
  <1>2. page \in Page /\ c \in Seq(CanvasElement) /\ Len(c) < MaxElements /\ Len(c) \in Nat
        /\ page.appState \in AppState /\ acts \in Nat
    BY DEF TypeInvariant, Page, Bounded, Paste
  <1>3. q \in Page /\ q = [page EXCEPT !.received = page.received \/ page.loading]
    BY <1>2, NotedIs
  <1>4. q.canvas = c /\ q.appState = page.appState
    BY <1>2, <1>3 DEF Page
  <1>5. edit(p)
    <2>1. edit([q EXCEPT !.canvas = Append(q.canvas, new),
                         !.appState = [q.appState EXCEPT !.selected = w]])
      BY <1>1
    <2> QED BY <2>1, <1>4
  <1>6. w \in WebIDs /\ stroke \in Int
    BY <1>2, DrawnIDs DEF stroke
  <1>w. w = drawnID(acts + 1) /\ stroke = acts + 1
    BY DEF stroke
  <1> HIDE DEF w, q
  <1>7. a \in AppState
    BY <1>2, <1>6 DEF AppState
  <1>8. PICK n \in DOMAIN c : e = c[n]
    <2>1. PICK k \in DOMAIN live(c) : e = live(c)[k]
      <3>1. live(c) \in Seq(CanvasElement)
        BY <1>2, LiveIs
      <3> QED BY <3>1 DEF ToSet
    <2> QED BY <1>2, <2>1, LiveIs
  <1>9. e \in CanvasElement
    BY <1>2, <1>8
  <1>10. /\ new \in CanvasElement /\ new.web = w /\ new.ink = stroke
         /\ new.board = e.board /\ new.shape = e.shape /\ (shows(new) => shows(e))
    BY <1>6, <1>9 DEF CanvasElement, shows, isSupported
  <1> HIDE DEF new, a
  <1>11. d \in Bounded(CanvasElement)
    BY <1>2, <1>10, BoundsAssumption DEF Bounded
  <1>12. extends(d, c, acts + 1)
    BY <1>8, <1>10, <1>w DEF extends
  <1> HIDE DEF d
  <1>13. p = [noteUserInput(page) EXCEPT !.canvas = d, !.appState = a] /\ editsTo(d, c, acts + 1)
    BY <1>12 DEF q, editsTo
  <1> HIDE DEF p
  <1>14. EditedPage(p)
    BY <1>7, <1>11, <1>13, KeyboardEdits
  <1> QED BY <1>5, <1>14

-----------------------------------------------------------------------------
(* What the application does with a scene and with a command *)

\* Ledgers.
LEMMA LedgerIs ==
    /\ \A l \in IDLedgers : IDLedger(l) /\ \A w \in DOMAIN l : w \in WebIDs
    /\ \A W \in SUBSET WebIDs : \A l \in [W -> BoardIDs] : l \in IDLedgers
    /\ << >> \in IDLedgers
  <1>1. << >> \in [{} -> BoardIDs]
    OBVIOUS
  <1> QED BY <1>1 DEF IDLedgers, IDLedger

\* A ledger is pruned.
LEMMA KeepingIs ==
    ASSUME NEW l \in IDLedgers, NEW kept
    PROVE  LET k == keeping(l, kept)
           IN /\ k \in IDLedgers
              /\ DOMAIN k = {w \in DOMAIN l : l[w] \in kept}
              /\ \A w \in DOMAIN k : k[w] = l[w]
  <1> DEFINE W == {w \in DOMAIN l : l[w] \in kept}
             k == keeping(l, kept)
  <1>1. W \in SUBSET WebIDs /\ \A w \in W : l[w] \in BoardIDs
    BY LedgerIs DEF IDLedger
  <1>2. k = [w \in W |-> l[w]]
    BY DEF keeping, Restrict
  <1> HIDE DEF W, k
  <1>3. k \in [W -> BoardIDs] /\ DOMAIN k = W /\ \A w \in W : k[w] = l[w]
    BY <1>1, <1>2
  <1>4. k \in IDLedgers
    BY <1>1, <1>3 DEF IDLedgers
  <1> QED BY <1>3, <1>4 DEF W, k

\* A ledger learns a decoded scene.
LEMMA LearnIs ==
    ASSUME NEW l \in IDLedgers, NEW d, d.boardIDsByWebID \in IDLedgers, NEW k, k = learn(l, d)
    PROVE  /\ k \in IDLedgers
           /\ DOMAIN k = DOMAIN d.boardIDsByWebID \cup {w \in DOMAIN l : l[w] \in ids(d.document)}
           /\ \A w \in DOMAIN k : k[w] = IF w \in DOMAIN d.boardIDsByWebID
                                          THEN d.boardIDsByWebID[w] ELSE l[w]
  <1> DEFINE given == d.boardIDsByWebID
             kept == keeping(l, ids(d.document))
             W == DOMAIN given \cup DOMAIN kept
  <1>1. kept \in IDLedgers /\ DOMAIN kept = {w \in DOMAIN l : l[w] \in ids(d.document)}
        /\ \A w \in DOMAIN kept : kept[w] = l[w]
    BY KeepingIs
  <1>2. k = [w \in W |-> IF w \in DOMAIN given THEN given[w] ELSE kept[w]]
    BY DEF learn
  <1> HIDE DEF kept, given
  <1>3. W \in SUBSET WebIDs
        /\ \A w \in W : (IF w \in DOMAIN given THEN given[w] ELSE kept[w]) \in BoardIDs
    BY <1>1, LedgerIs DEF IDLedger, given
  <1>4. k \in [W -> BoardIDs]
    BY <1>2, <1>3
  <1>5. DOMAIN k = W /\ \A w \in W : k[w] = IF w \in DOMAIN given THEN given[w] ELSE l[w]
    BY <1>1, <1>2
  <1> HIDE DEF W
  <1>6. k \in IDLedgers
    BY <1>3, <1>4 DEF IDLedgers
  <1> QED BY <1>1, <1>5, <1>6 DEF W, given

\* The presented Board.
LEMMA PresentedIs ==
    ASSUME draft \in Draft
    PROVE  /\ Presented \in Snapshot /\ Presented.document = presentedDocument
           /\ presentedDocument \in Document
  <1>1. presentedDocument \in Document
    BY DEF presentedDocument, Draft
  <1>2. /\ (IF draft.inspecting \/ draft.selected \notin ids(draft.document)
              THEN none ELSE draft.selected) \in BoardIDs \cup {none}
        /\ draft.tool \in Tools /\ draft.inspecting \in BOOLEAN
    BY DEF Draft
  <1> QED BY <1>1, <1>2 DEF Presented, Snapshot

\* The documents a draft remembers.
draftDocuments(d) ==
    {d.document, d.revision} \cup {d.undo[n].document : n \in DOMAIN d.undo}
                             \cup {d.redo[n].document : n \in DOMAIN d.redo}

\* The last entry of a history, and the others.
LEMMA LastIs ==
    ASSUME NEW S, NEW s \in Seq(S), s # <<>>
    PROVE  /\ Front(s) \in Seq(S) /\ Last(s) \in S /\ Last(s) = s[Len(s)] /\ Len(s) \in DOMAIN s
           /\ \A n \in DOMAIN Front(s) : n \in DOMAIN s /\ Front(s)[n] = s[n]
  <1>1. Len(s) \in Nat \ {0} /\ DOMAIN s = 1..Len(s)
    OBVIOUS
  <1> QED BY <1>1 DEF Front, Last

\* replaceDocument.
LEMMA ReplaceIs ==
    ASSUME NEW d \in Draft, NEW X \in Document, NEW selected \in BoardIDs \cup {none},
           NEW r, r = replaceDocument(d, X, selected)
    PROVE  /\ r \in Draft /\ \A Y \in draftDocuments(r) : Y = X \/ Y \in draftDocuments(d)
           /\ r.inspecting = d.inspecting /\ (r = d \/ r.document = X)
  <1>1. CASE d.inspecting
    BY <1>1 DEF replaceDocument
  <1>2. CASE ~d.inspecting /\ X = d.document
    <2>1. r = [d EXCEPT !.selected = selected]
      BY <1>2 DEF replaceDocument
    <2> QED BY <1>2, <2>1 DEF Draft, draftDocuments
  <1>3. CASE ~d.inspecting /\ X # d.document
    <2> DEFINE e == entry(d)
               u == Append(d.undo, e)
    <2>0. d.undo \in Seq(Entry)
      BY DEF Draft
    <2>1. e \in Entry /\ e.document = d.document
      BY DEF entry, Entry, Draft
    <2>2. u \in Seq(Entry) /\ \A n \in DOMAIN u : u[n] = e \/ (n \in DOMAIN d.undo /\ u[n] = d.undo[n])
      BY <2>0, <2>1
    <2>3. r = [d EXCEPT !.undo = u, !.redo = <<>>, !.document = X, !.selected = selected]
      BY <1>3 DEF replaceDocument
    <2> HIDE DEF u, e
    <2>4. r \in Draft /\ r.undo = u /\ r.redo = <<>> /\ r.document = X /\ r.revision = d.revision
          /\ r.inspecting = d.inspecting
      <3>1. <<>> \in Seq(Entry)
        OBVIOUS
      <3> QED BY <2>2, <2>3, <3>1 DEF Draft
    <2>5. \A n \in DOMAIN u : u[n].document \in draftDocuments(d)
      BY <2>1, <2>2 DEF draftDocuments
    <2>6. DOMAIN r.redo = {}
      BY <2>4
    <2> QED BY <2>4, <2>5, <2>6 DEF draftDocuments
  <1>4. d.inspecting \in BOOLEAN
    BY DEF Draft
  <1> QED BY <1>1, <1>2, <1>3, <1>4

\* undo turns to a document of the history.
LEMMA UndoIs ==
    ASSUME NEW d \in Draft, NEW r, r = undo(d)
    PROVE  r \in Draft /\ \A Y \in draftDocuments(r) : Y \in draftDocuments(d)
  <1>1. CASE d.undo = <<>>
    BY <1>1 DEF undo
  <1>2. CASE d.undo # <<>>
    <2> DEFINE e == entry(d)
               l == Last(d.undo)
               u == Front(d.undo)
               v == Append(d.redo, e)
    <2>0. d.undo \in Seq(Entry) /\ d.redo \in Seq(Entry)
      BY DEF Draft
    <2>1. e \in Entry /\ e.document = d.document
      BY DEF entry, Entry, Draft
    <2>2. u \in Seq(Entry) /\ \A n \in DOMAIN u : n \in DOMAIN d.undo /\ u[n] = d.undo[n]
      BY <2>0, <1>2, LastIs
    <2>3. v \in Seq(Entry) /\ \A n \in DOMAIN v : v[n] = e \/ (n \in DOMAIN d.redo /\ v[n] = d.redo[n])
      BY <2>0, <2>1
    <2>4. l \in Entry /\ \E n \in DOMAIN d.undo : l = d.undo[n]
      BY <2>0, <1>2, LastIs
    <2>5. r = restore([d EXCEPT !.undo = u, !.redo = v], l)
      BY <1>2 DEF undo
    <2> HIDE DEF e, l, u, v
    <2>6. r = [d EXCEPT !.undo = u, !.redo = v, !.document = l.document, !.selected = l.selected]
      BY <2>5 DEF restore
    <2>7. l.document \in Document /\ l.selected \in BoardIDs \cup {none}
      BY <2>4 DEF Entry
    <2>8. r \in Draft /\ r.undo = u /\ r.redo = v /\ r.document = l.document /\ r.revision = d.revision
      BY <2>2, <2>3, <2>6, <2>7 DEF Draft
    <2>9. \A n \in DOMAIN u : u[n].document \in draftDocuments(d)
      BY <2>2 DEF draftDocuments
    <2>10. \A n \in DOMAIN v : v[n].document \in draftDocuments(d)
      BY <2>1, <2>3 DEF draftDocuments
    <2>11. l.document \in draftDocuments(d)
      BY <2>4 DEF draftDocuments
    <2> QED BY <2>8, <2>9, <2>10, <2>11 DEF draftDocuments
  <1> QED BY <1>1, <1>2

\* redo turns to a document of the history.
LEMMA RedoIs ==
    ASSUME NEW d \in Draft, NEW r, r = redo(d)
    PROVE  r \in Draft /\ \A Y \in draftDocuments(r) : Y \in draftDocuments(d)
  <1>1. CASE d.redo = <<>>
    BY <1>1 DEF redo
  <1>2. CASE d.redo # <<>>
    <2> DEFINE e == entry(d)
               l == Last(d.redo)
               u == Front(d.redo)
               v == Append(d.undo, e)
    <2>0. d.undo \in Seq(Entry) /\ d.redo \in Seq(Entry)
      BY DEF Draft
    <2>1. e \in Entry /\ e.document = d.document
      BY DEF entry, Entry, Draft
    <2>2. u \in Seq(Entry) /\ \A n \in DOMAIN u : n \in DOMAIN d.redo /\ u[n] = d.redo[n]
      BY <2>0, <1>2, LastIs
    <2>3. v \in Seq(Entry) /\ \A n \in DOMAIN v : v[n] = e \/ (n \in DOMAIN d.undo /\ v[n] = d.undo[n])
      BY <2>0, <2>1
    <2>4. l \in Entry /\ \E n \in DOMAIN d.redo : l = d.redo[n]
      BY <2>0, <1>2, LastIs
    <2>5. r = restore([d EXCEPT !.redo = u, !.undo = v], l)
      BY <1>2 DEF redo
    <2> HIDE DEF e, l, u, v
    <2>6. r = [d EXCEPT !.redo = u, !.undo = v, !.document = l.document, !.selected = l.selected]
      BY <2>5 DEF restore
    <2>7. l.document \in Document /\ l.selected \in BoardIDs \cup {none}
      BY <2>4 DEF Entry
    <2>8. r \in Draft /\ r.redo = u /\ r.undo = v /\ r.document = l.document /\ r.revision = d.revision
      BY <2>2, <2>3, <2>6, <2>7 DEF Draft
    <2>9. \A n \in DOMAIN u : u[n].document \in draftDocuments(d)
      BY <2>2 DEF draftDocuments
    <2>10. \A n \in DOMAIN v : v[n].document \in draftDocuments(d)
      BY <2>1, <2>3 DEF draftDocuments
    <2>11. l.document \in draftDocuments(d)
      BY <2>4 DEF draftDocuments
    <2> QED BY <2>8, <2>9, <2>10, <2>11 DEF draftDocuments
  <1> QED BY <1>1, <1>2

\* A command gives the draft no document it did not have.
LEMMA PerformIs ==
    ASSUME NEW d \in Draft, NEW command, NEW r, r = perform(d, command)
    PROVE  r \in Draft /\ \A Y \in draftDocuments(r) : Y \in draftDocuments(d)
  <1>0. d.inspecting \in BOOLEAN /\ "box" \in Tools
    BY ToolNames DEF Draft
  <1>1. CASE command = "undo" /\ ~d.inspecting
    <2>1. r = undo(d)
      BY <1>1 DEF perform
    <2> QED BY <2>1, UndoIs
  <1>2. CASE command = "redo" /\ ~d.inspecting
    <2>1. r = redo(d)
      BY <1>2 DEF perform
    <2> QED BY <2>1, RedoIs
  <1>3. CASE command = "saveRevision" /\ ~d.inspecting
    <2>1. r = [d EXCEPT !.revision = d.document]
      BY <1>3 DEF perform
    <2> QED BY <2>1 DEF Draft, draftDocuments
  <1>4. CASE command = "tool" /\ ~d.inspecting
    <2>1. r = [d EXCEPT !.tool = "box"]
      BY <1>4 DEF perform
    <2> QED BY <1>0, <2>1 DEF Draft, draftDocuments
  <1>5. CASE command = "returnToDraft"
    <2>1. r = [d EXCEPT !.inspecting = FALSE]
      BY <1>5 DEF perform
    <2> QED BY <2>1 DEF Draft, draftDocuments
  <1>6. CASE ~(command \in {"undo", "redo", "saveRevision", "tool"} /\ ~d.inspecting) /\ command # "returnToDraft"
    <2>1. r = d
      BY <1>6 DEF perform
    <2> QED BY <2>1
  <1> QED BY <1>0, <1>1, <1>2, <1>3, <1>4, <1>5, <1>6

-----------------------------------------------------------------------------
(* A scene is accepted or refused *)

\* decodeChange, with the types of the bridge.
LEMMA DecodedTyped ==
    ASSUME NEW scene \in Scene, NEW X \in Document, NEW l \in IDLedgers,
           NEW d, d = decodeChange(scene, X, l)
    PROVE  /\ d.document \in Document /\ d.boardIDsByWebID \in IDLedgers
           /\ d.isValid \in BOOLEAN /\ d.requiresReload \in BOOLEAN
           /\ d.selected \in BoardIDs \cup {none} /\ d.tool \in Tools
  <1> DEFINE g == assignedIDs(scene.elements, X, l)
             W == {scene.elements[n].web : n \in DOMAIN scene.elements}
             b == d.boardIDsByWebID
  <1>1. X \in Seq(Element) /\ IDLedger(l)
    BY LedgerIs DEF Document
  <1>2. scene.elements \in Seq(SceneElement) /\ scene.tool \in Tools
    BY DEF Scene, Bounded
  <1>3. \A n \in DOMAIN scene.elements : g[n].id \in BoardIDs
    BY <1>1, <1>2, AssignedIs
  <1>w. \A n \in DOMAIN scene.elements : scene.elements[n].web \in WebIDs
    <2>1. \A n \in DOMAIN scene.elements : scene.elements[n] \in SceneElement
      BY <1>2
    <2> QED BY <2>1 DEF SceneElement
  <1> HIDE DEF g
  <1>g. g = assignedIDs(scene.elements, X, l)
    BY DEF g
  <1>4. /\ d.document \in Document /\ d.isValid \in BOOLEAN /\ d.requiresReload \in BOOLEAN
        /\ d.selected \in BoardIDs \cup {none} /\ d.tool = scene.tool
        /\ DOMAIN b = W
        /\ \A w \in DOMAIN b : \E n \in DOMAIN scene.elements :
                scene.elements[n].web = w /\ b[w] = g[n].id
    BY <1>1, <1>g, DecodedIs
  <1>5. b = [w \in DOMAIN b |-> b[w]]
    BY DEF decodeChange, decodedAs
  <1>6. W \in SUBSET WebIDs
    BY <1>w
  <1> HIDE DEF W, b
  <1>7. b \in [W -> BoardIDs]
    BY <1>3, <1>4, <1>5
  <1> QED BY <1>2, <1>4, <1>6, <1>7, LedgerIs DEF b

\* refuse.
LEMMA RefuseTyped ==
    ASSUME NEW c \in Coordinator
    PROVE  LET r == refuse(c)
           IN /\ r \in Coordinator /\ r.snapshot = c.snapshot /\ r.lastLoaded = c.lastLoaded
              /\ r.boardIDsByWebID = c.boardIDsByWebID /\ r.ready = c.ready
              /\ r.task = [task |-> "load", snapshot |-> c.snapshot]
  BY DEF refuse, scheduleLoad, Coordinator, Task

\* scheduleLoad and scheduleReconcile.
LEMMA ScheduleTyped ==
    ASSUME NEW c \in Coordinator, NEW s \in Snapshot
    PROVE  /\ scheduleLoad(c, s) \in Coordinator /\ scheduleReconcile(c, s) \in Coordinator
           /\ scheduleLoad(c, s) = [c EXCEPT !.task = [task |-> "load", snapshot |-> s]]
           /\ scheduleReconcile(c, s) = [c EXCEPT !.task = [task |-> "reconcile", snapshot |-> s]]
  BY DEF scheduleLoad, scheduleReconcile, Coordinator, Task

\* What becomes of a decoded scene.
Outcome(o, d) ==
    /\ o.draft \in Draft /\ o.coordinator \in Coordinator /\ o.accepted \in BOOLEAN
    /\ o.coordinator.ready = coordinator.ready
    /\ \A Y \in draftDocuments(o.draft) : Y = d.document \/ Y \in draftDocuments(draft)
    /\ \/ /\ o.accepted
          /\ o.coordinator.snapshot.document = d.document
          /\ o.coordinator.lastLoaded = <<d.document>>
          /\ o.coordinator.boardIDsByWebID = learn(coordinator.boardIDsByWebID, d)
          /\ \/ o.coordinator.task = coordinator.task
             \/ o.coordinator.task = [task |-> "reconcile", snapshot |-> o.coordinator.snapshot]
       \/ /\ ~o.accepted
          /\ o.draft = draft
          /\ o.coordinator.snapshot = coordinator.snapshot
          /\ o.coordinator.lastLoaded = coordinator.lastLoaded
          /\ o.coordinator.boardIDsByWebID = coordinator.boardIDsByWebID
          /\ o.coordinator.task = [task |-> "load", snapshot |-> coordinator.snapshot]

\* onSceneChange comes to one of the outcomes.
LEMMA ReceivedIs ==
    ASSUME draft \in Draft, coordinator \in Coordinator, NEW d,
           d.document \in Document, d.boardIDsByWebID \in IDLedgers,
           d.isValid \in BOOLEAN, d.requiresReload \in BOOLEAN,
           d.selected \in BoardIDs \cup {none}, d.tool \in Tools
    PROVE  Outcome(onSceneChange(d), d)
  <1> DEFINE c == coordinator
             r == replaceDocument(draft, d.document, d.selected)
             next == [c.snapshot EXCEPT !.document = d.document,
                                        !.selected = d.selected, !.tool = d.tool]
             ledger == learn(c.boardIDsByWebID, d)
             advanced == [c EXCEPT !.snapshot = next, !.lastLoaded = <<d.document>>,
                              !.observing = TRUE, !.boardIDsByWebID = ledger]
             o == onSceneChange(d)
             ok == d.isValid /\ r.document = d.document
  <1>1. r \in Draft /\ (\A Y \in draftDocuments(r) : Y = d.document \/ Y \in draftDocuments(draft))
        /\ (r = draft \/ r.document = d.document)
    BY ReplaceIs
  <1>2. next \in Snapshot /\ next.document = d.document
    BY DEF Coordinator, Snapshot
  <1>3. ledger \in IDLedgers
    BY LearnIs DEF Coordinator
  <1> HIDE DEF next, ledger, r
  <1>4. /\ advanced \in Coordinator /\ advanced.snapshot = next /\ advanced.lastLoaded = <<d.document>>
        /\ advanced.boardIDsByWebID = ledger /\ advanced.ready = c.ready /\ advanced.task = c.task
    BY <1>2, <1>3 DEF Coordinator
  <1>5. o = IF ok
            THEN [accepted |-> TRUE,
                  draft |-> IF r.inspecting THEN r ELSE [r EXCEPT !.tool = d.tool],
                  coordinator |-> IF d.requiresReload THEN scheduleReconcile(advanced, next)
                                  ELSE advanced]
            ELSE [accepted |-> FALSE, draft |-> IF d.isValid THEN r ELSE draft,
                  coordinator |-> refuse(c)]
    BY DEF onSceneChange, received, next, ledger, r
  <1> HIDE DEF o, advanced
  <1>6. CASE ok
    <2> DEFINE p == IF r.inspecting THEN r ELSE [r EXCEPT !.tool = d.tool]
               q == IF d.requiresReload THEN scheduleReconcile(advanced, next) ELSE advanced
    <2>1. p \in Draft /\ draftDocuments(p) = draftDocuments(r)
      BY <1>1 DEF Draft, draftDocuments
    <2>2. /\ q \in Coordinator /\ q.snapshot = next /\ q.lastLoaded = <<d.document>>
          /\ q.boardIDsByWebID = ledger /\ q.ready = c.ready
          /\ q.task = c.task \/ q.task = [task |-> "reconcile", snapshot |-> next]
      <3>1. CASE d.requiresReload
        <4> DEFINE t == [task |-> "reconcile", snapshot |-> next]
        <4>1. q = [advanced EXCEPT !.task = t] /\ q \in Coordinator
          BY <3>1, <1>2, <1>4, ScheduleTyped
        <4> HIDE DEF q, t
        <4>2. q.task = t /\ q.snapshot = advanced.snapshot /\ q.lastLoaded = advanced.lastLoaded
              /\ q.boardIDsByWebID = advanced.boardIDsByWebID /\ q.ready = advanced.ready
          BY <4>1, <1>4 DEF Coordinator
        <4> QED BY <4>1, <4>2, <1>4 DEF t
      <3>2. CASE ~d.requiresReload
        BY <3>2, <1>4
      <3> QED BY <3>1, <3>2
    <2>3. o.accepted = TRUE /\ o.draft = p /\ o.coordinator = q
      BY <1>5, <1>6
    <2> HIDE DEF p, q, ok
    <2> QED BY <2>1, <2>2, <2>3, <1>1, <1>2 DEF Outcome, o, ledger
  <1>7. CASE ~ok
    <2> DEFINE p == IF d.isValid THEN r ELSE draft
    <2>1. p = draft
      BY <1>1, <1>7
    <2>2. o.accepted = FALSE /\ o.draft = p /\ o.coordinator = refuse(c)
      BY <1>5, <1>7
    <2> HIDE DEF p, ok
    <2>3. /\ refuse(c) \in Coordinator /\ refuse(c).snapshot = c.snapshot /\ refuse(c).lastLoaded = c.lastLoaded
              /\ refuse(c).boardIDsByWebID = c.boardIDsByWebID /\ refuse(c).ready = c.ready
              /\ refuse(c).task = [task |-> "load", snapshot |-> c.snapshot]
      BY RefuseTyped
    <2> QED BY <2>1, <2>2, <2>3 DEF Outcome, o
  <1> QED BY <1>6, <1>7

\* No scene counts before the baseline, and then it is decoded under the ledger.
LEMMA ReceiveSceneIs ==
    ASSUME draft \in Draft, coordinator \in Coordinator, NEW scene \in Scene,
           NEW o, o = receiveScene(scene),
           NEW d, d = decodeChange(scene, coordinator.snapshot.document, coordinator.boardIDsByWebID)
    PROVE  /\ o.draft \in Draft /\ o.coordinator \in Coordinator /\ o.accepted \in BOOLEAN
           /\ \/ /\ coordinator.lastLoaded = <<>> /\ ~o.accepted
                 /\ o.draft = draft /\ o.coordinator = coordinator
              \/ coordinator.lastLoaded # <<>> /\ Outcome(o, d)
  <1>1. coordinator.snapshot.document \in Document /\ coordinator.boardIDsByWebID \in IDLedgers
    BY DEF Coordinator, Snapshot
  <1>2. CASE coordinator.lastLoaded = <<>>
    BY <1>2 DEF receiveScene
  <1>3. CASE coordinator.lastLoaded # <<>>
    <2>1. o = onSceneChange(d)
      BY <1>3 DEF receiveScene
    <2>2. /\ d.document \in Document /\ d.boardIDsByWebID \in IDLedgers
          /\ d.isValid \in BOOLEAN /\ d.requiresReload \in BOOLEAN
          /\ d.selected \in BoardIDs \cup {none} /\ d.tool \in Tools
      BY <1>1, DecodedTyped
    <2>3. Outcome(o, d)
      BY <2>1, <2>2, ReceivedIs
    <2> QED BY <1>3, <2>3 DEF Outcome
  <1> QED BY <1>2, <1>3

-----------------------------------------------------------------------------
(* The invariant of the types *)

\* A part of the channels is of the channels.
LEMMA EventKinds ==
    /\ \A m \in SceneEvent \cup Flushed \cup Reply : m \in Event /\ m.scene \in Scene /\ m.scene # none
    /\ \A m \in Event : /\ m.event \in {"ready", "scene", "flushedCommand", "command", "reply"}
                        /\ carriesScene(m) <=> m \in SceneEvent \cup Flushed \cup Reply
                        /\ m.event = "reply" <=> m \in Reply
                        /\ m.event \in {"scene", "flushedCommand"} <=> m \in SceneEvent \cup Flushed
  <1>0. \A s \in Scene : s # none
    <2>1. \A s \in Scene : DOMAIN s = {"elements", "selected", "tool", "unsupported"}
      BY DEF Scene
    <2>2. DOMAIN none = {"is"}
      BY DEF none
    <2>3. {"elements", "selected", "tool", "unsupported"} # {"is"}
      OBVIOUS
    <2> QED BY <2>1, <2>2, <2>3
  <1>1. \A m \in SceneEvent \cup Flushed \cup Reply : m \in Event /\ m.scene \in Scene
    BY DEF SceneEvent, Flushed, Reply, Event
  <1>2. \A m \in Event : \/ m \in SceneEvent /\ m.event = "scene"
                         \/ m \in Flushed /\ m.event = "flushedCommand"
                         \/ m \in Reply /\ m.event = "reply"
                         \/ m.event \in {"ready", "command"} /\ m.scene = none
    BY DEF SceneEvent, Flushed, Reply, Event
  <1>3. /\ \A m \in SceneEvent : m.event = "scene"
        /\ \A m \in Flushed : m.event = "flushedCommand"
        /\ \A m \in Reply : m.event = "reply"
    BY DEF SceneEvent, Flushed, Reply
  <1> QED BY <1>0, <1>1, <1>2, <1>3 DEF carriesScene

\* Messages are posted.
LEMMA PostTyped ==
    ASSUME toNative \in Seq(Event), NEW m, m \in Seq(SceneEvent), Post(m)
    PROVE  toNative' \in Seq(Event)
  <1>1. m \in Seq(Event)
    <2>1. \A n \in 1..Len(m) : m[n] \in Event
      BY EventKinds
    <2> QED BY <2>1
  <1> QED BY <1>1 DEF Post

\* handleChange keeps the types.
LEMMA ChangeTyped ==
    ASSUME TypeInvariant, NEW p \in Page, NEW byPerson \in BOOLEAN, handleChange(p, byPerson)
    PROVE  page' \in Page /\ publication' \in Publication /\ toNative' \in Seq(Event)
           /\ raced' \in BOOLEAN
  <1>1. changeScene(p) \in CanvasScene
    BY ReadTyped
  <1>2. p.canvas \in Bounded(CanvasElement)
    BY DEF Page
  <1>3. CASE p.loading
    <2>1. page' = [p EXCEPT !.deferredChange = changeScene(p)] /\ UNCHANGED <<publication, toNative>>
          /\ raced' = (raced \/ (byPerson /\ ~p.received))
      BY <1>3 DEF handleChange
    <2> QED BY <1>1, <2>1 DEF TypeInvariant, Page
  <1>4. CASE ~p.loading
    <2>1. page' = [p EXCEPT !.overlay = semanticOverlay(p.canvas)]
          /\ publication' = acceptScene(publication, changeScene(p))
          /\ Post(accepted(publication, changeScene(p)))
          /\ raced' = (raced \/ acceptRaces(publication, changeScene(p)))
      BY <1>4 DEF handleChange
    <2>2. page' \in Page
      BY <2>1, <1>2, OverlayTyped DEF Page
    <2>3. publication' \in Publication /\ accepted(publication, changeScene(p)) \in Seq(SceneEvent)
      BY <2>1, <1>1, AcceptTyped DEF TypeInvariant
    <2>4. toNative' \in Seq(Event)
      BY <2>1, <2>3, PostTyped DEF TypeInvariant
    <2> QED BY <2>1, <2>2, <2>3, <2>4 DEF TypeInvariant, acceptRaces, coincides
  <1> QED BY <1>3, <1>4

\* A gesture counts and leaves the application alone.
LEMMA GestureCounts ==
    ASSUME Draw \/ Move \/ Rotate \/ Select \/ Delete \/ Paste
    PROVE  acts < MaxActs /\ acts' = acts + 1 /\ UNCHANGED <<draft, coordinator, toPage, replies>>
  <1>1. ASSUME NEW operation, Acts(operation) PROVE acts < MaxActs /\ acts' = acts + 1
    BY <1>1 DEF Acts
  <1>2. ASSUME nativeUnchanged PROVE UNCHANGED <<draft, coordinator, toPage, replies>>
    BY <1>2 DEF nativeUnchanged
  <1>3. CASE Draw
    BY <1>1, <1>2, <1>3 DEF Draw
  <1>4. CASE Move
    BY <1>1, <1>2, <1>4 DEF Move
  <1>5. CASE Rotate
    BY <1>1, <1>2, <1>5 DEF Rotate
  <1>6. CASE Select
    BY <1>1, <1>2, <1>6 DEF Select
  <1>7. CASE Delete
    BY <1>1, <1>2, <1>7 DEF Delete
  <1>8. CASE Paste
    BY <1>1, <1>2, <1>8 DEF Paste
  <1> QED BY <1>3, <1>4, <1>5, <1>6, <1>7, <1>8

\* A gesture keeps the types.
LEMMA EditTyped ==
    ASSUME TypeInvariant, Draw \/ Move \/ Rotate \/ Select \/ Delete \/ Paste
    PROVE  TypeInvariant'
  <1>1. PICK p : EditedPage(p) /\ edit(p)
    BY DrawEdits, MoveEdits, RotateEdits, SelectEdits, DeleteEdits, PasteEdits
  <1>2. p \in Page /\ handleChange(p, TRUE)
    BY <1>1 DEF EditedPage, edit
  <1> DEFINE t == TRUE
  <1>3. t \in BOOLEAN /\ handleChange(p, t)
    BY <1>2
  <1> HIDE DEF t
  <1>4. page' \in Page /\ publication' \in Publication /\ toNative' \in Seq(Event) /\ raced' \in BOOLEAN
    BY <1>2, <1>3, ChangeTyped
  <1>5. acts < MaxActs /\ acts' = acts + 1 /\ UNCHANGED <<draft, coordinator, toPage, replies>>
    BY GestureCounts
  <1>6. acts' \in 0..MaxActs
    BY <1>5, BoundsAssumption DEF TypeInvariant
  <1> QED BY <1>4, <1>5, <1>6 DEF TypeInvariant

\* The end of a gesture keeps the types.
LEMMA EndTypes ==
    ASSUME TypeInvariant, NEW p \in Page, EndInteraction(p)
    PROVE  page' \in Page /\ publication' \in Publication /\ toNative' \in Seq(Event)
           /\ raced' \in BOOLEAN /\ UNCHANGED <<draft, coordinator, toPage, replies>>
  <1> DEFINE did == publication.active /\ publishes(publication)
             ending == endPointerInteraction(publication)
  <1>1. publication.active \in BOOLEAN /\ did \in BOOLEAN
    BY DEF TypeInvariant, Publication, publishes
  <1>2. /\ page' = completePointerInteraction(p, did)
        /\ publication' = IF did \/ ~carriesDocument(p.deferredUpdate) THEN ending ELSE overlaid(ending)
        /\ Post(ended(publication)) /\ raced' = (raced \/ endRaces(publication)) /\ nativeUnchanged
    BY DEF EndInteraction
  <1> HIDE DEF did
  <1>3. page' \in Page
    BY <1>1, <1>2, CompletedIs
  <1>4. ending \in Publication /\ ended(publication) \in Seq(SceneEvent)
    BY EndTyped DEF TypeInvariant
  <1> HIDE DEF ending
  <1>5. publication' \in Publication
    BY <1>2, <1>4, OverlaidTyped
  <1>6. toNative' \in Seq(Event)
    BY <1>2, <1>4, PostTyped DEF TypeInvariant
  <1>7. raced' \in BOOLEAN
    BY <1>2 DEF TypeInvariant, endRaces, crosses
  <1> QED BY <1>2, <1>3, <1>5, <1>6, <1>7 DEF nativeUnchanged

\* The scene of a flush.
LEMMA FlushedTyped ==
    ASSUME page \in Page, NEW name \in {"flushedCommand", "reply"}, NEW command \in Commands,
           NEW m, m = event(name, command, prepare(readScene(page)))
    PROVE  m \in Event /\ m \in Flushed \cup Reply /\ m.event = name /\ m.command = command
           /\ m.scene.elements = visible(live(page.canvas)) /\ readScene(page) \in CanvasScene
  <1> DEFINE s == prepare(readScene(page))
  <1>1. readScene(page) \in CanvasScene /\ readScene(page).elements = live(page.canvas)
    BY ReadTyped
  <1>2. s \in Scene /\ s.elements = visible(live(page.canvas))
    BY <1>1, PrepareTyped
  <1>3. m = [event |-> name, command |-> command, scene |-> s]
    BY DEF event
  <1> HIDE DEF s
  <1>4. m \in Flushed \cup Reply /\ m.scene = s /\ m.event = name /\ m.command = command
    BY <1>2, <1>3 DEF Flushed, Reply
  <1> QED BY <1>1, <1>2, <1>4, EventKinds

\* The person's steps keep the types.
LEMMA PersonTyped ==
    ASSUME TypeInvariant, Person
    PROVE  TypeInvariant'
  <1>0. page \in Page /\ publication \in Publication /\ toNative \in Seq(Event) /\ toPage \in Seq(Call)
        /\ draft \in Draft /\ coordinator \in Coordinator /\ replies \in Seq(Reply)
        /\ acts \in 0..MaxActs /\ raced \in BOOLEAN
    BY DEF TypeInvariant
  <1>a. ASSUME acts < MaxActs, acts' = acts + 1 PROVE acts' \in 0..MaxActs
    BY <1>0, <1>a, BoundsAssumption
  <1>1. CASE PointerDown
    <2>1. acts' \in 0..MaxActs
      BY <1>1, <1>a DEF PointerDown
    <2>2. page' \in Page
      <3> DEFINE q == noteUserInput(page)
      <3>1. q \in Page /\ page' = [q EXCEPT !.held = TRUE]
        BY <1>0, <1>1, NotedIs DEF PointerDown
      <3> HIDE DEF q
      <3> QED BY <3>1 DEF Page
    <2>3. publication' \in Publication
      BY <1>0, <1>1, BeginTyped DEF PointerDown
    <2> QED BY <1>0, <1>1, <2>1, <2>2, <2>3 DEF PointerDown, nativeUnchanged, TypeInvariant
  <1>2. CASE Draw \/ Move \/ Rotate \/ Select \/ Delete \/ Paste
    BY <1>2, EditTyped
  <1>3. CASE FlushThenPost
    <2>1. PICK command \in Commands :
            LET message == event("flushedCommand", command, prepare(readScene(page)))
            IN /\ Acts(command)
               /\ page' = noteUserInput(page)
               /\ publication' = adoptScene(publication, readScene(page))
               /\ Post(<<message>>)
               /\ raced' = (raced \/ crosses(<<message>>) \/ staleAfterFlush)
               /\ nativeUnchanged
      BY <1>3 DEF FlushThenPost, Commands
    <2> DEFINE m == event("flushedCommand", command, prepare(readScene(page)))
    <2>2. m \in Event /\ readScene(page) \in CanvasScene
      BY <1>0, FlushedTyped
    <2> HIDE DEF m
    <2>3. Post(<<m>>) /\ raced' = (raced \/ crosses(<<m>>) \/ staleAfterFlush)
      BY <2>1 DEF m
    <2>4. toNative' \in Seq(Event)
      BY <1>0, <2>2, <2>3 DEF Post
    <2>5. page' \in Page /\ publication' \in Publication
      BY <1>0, <2>1, <2>2, NotedIs, AdoptTyped
    <2>6. acts' \in 0..MaxActs /\ UNCHANGED <<draft, coordinator, toPage, replies>>
      BY <2>1, <1>a DEF Acts, nativeUnchanged
    <2>7. raced' \in BOOLEAN
      BY <1>0, <2>3 DEF crosses, staleAfterFlush
    <2> QED BY <1>0, <2>4, <2>5, <2>6, <2>7 DEF TypeInvariant
  <1>4. CASE PostTool
    <2>1. page' \in Page
      BY <1>0, <1>4, NotedIs DEF PostTool
    <2>2. event("command", "tool", none) \in Event
      BY DEF event, Event
    <2>3. toNative' \in Seq(Event)
      BY <1>0, <1>4, <2>2 DEF PostTool, Post
    <2> QED BY <1>0, <1>4, <1>a, <2>1, <2>3 DEF PostTool, TypeInvariant, Acts, nativeUnchanged
  <1>5. CASE PostReturn
    <2>2. event("command", "returnToDraft", none) \in Event
      BY DEF event, Event
    <2>3. toNative' \in Seq(Event)
      BY <1>0, <1>5, <2>2 DEF PostReturn, Post
    <2> QED BY <1>0, <1>5, <1>a, <2>3 DEF PostReturn, TypeInvariant, Acts, nativeUnchanged
  <1>6. CASE Blur
    BY <1>0, <1>6, <1>a, EndTypes DEF Blur, TypeInvariant, Acts
  <1>7. CASE MenuFlush
    <2>1. PICK then \in Commands :
            /\ "menu" \in Offered /\ Acts(then)
            /\ \/ /\ coordinator.ready
                  /\ toPage' = Append(toPage, call("flush", none, then))
                  /\ UNCHANGED <<draft, coordinator>>
               \/ /\ ~coordinator.ready
                  /\ draft' = perform(draft, then)
                  /\ coordinator' = [coordinator EXCEPT !.observing = TRUE]
                  /\ UNCHANGED toPage
            /\ UNCHANGED <<toNative, replies, raced>> /\ pageUnchanged
      BY <1>7 DEF MenuFlush, Commands
    <2>2. call("flush", none, then) \in Call
      BY DEF call, Call
    <2>3. toPage' \in Seq(Call)
      <3> DEFINE f == call("flush", none, then)
      <3>1. f \in Call /\ (toPage' = Append(toPage, f) \/ toPage' = toPage)
        BY <2>1, <2>2
      <3> HIDE DEF f
      <3>2. CASE toPage' = Append(toPage, f)
        BY <1>0, <3>1, <3>2
      <3> QED BY <1>0, <3>1, <3>2
    <2>4. draft' \in Draft
      BY <1>0, <2>1, PerformIs
    <2>5. coordinator' \in Coordinator
      BY <1>0, <2>1 DEF Coordinator
    <2> QED BY <1>0, <1>a, <2>1, <2>3, <2>4, <2>5 DEF TypeInvariant, Acts, pageUnchanged
  <1>8. CASE InspectRevision
    <2>1. draft' \in Draft /\ coordinator' \in Coordinator
      BY <1>0, <1>8 DEF InspectRevision, Draft, Coordinator
    <2> QED BY <1>0, <1>8, <1>a, <2>1 DEF InspectRevision, TypeInvariant, Acts, pageUnchanged
  <1>9. CASE ResetEditorSession
    <2>1. coordinator' \in Coordinator
      <3>1. Presented \in Snapshot /\ <<>> \in {<<>>} \cup {<<X>> : X \in Document} /\ NoTask \in Task
        BY <1>0, PresentedIs DEF Task
      <3> QED BY <1>9, <3>1, LedgerIs DEF ResetEditorSession, NewCoordinator, Coordinator
    <2>2. toNative' \in Seq(Event) /\ toPage' \in Seq(Call) /\ replies' \in Seq(Reply)
      <3>1. event("ready", "none", none) \in Event
        BY DEF event, Event
      <3> QED BY <1>9, <3>1 DEF ResetEditorSession, Ready
    <2>3. page' \in Page /\ publication' \in Publication
      BY <1>9, NewPageTyped, NewPublicationIs DEF ResetEditorSession
    <2> QED BY <1>0, <1>9, <1>a, <2>1, <2>2, <2>3 DEF ResetEditorSession, TypeInvariant, Acts
  <1> QED BY <1>1, <1>2, <1>3, <1>4, <1>5, <1>6, <1>7, <1>8, <1>9 DEF Person

\* The head and the tail of a sequence.
LEMMA ShorterTyped ==
    ASSUME NEW S, NEW s \in Seq(S), s # <<>>
    PROVE  Head(s) \in S /\ Tail(s) \in Seq(S) /\ Head(s) = s[1] /\ Len(s) \in Nat \ {0}
           /\ Len(Tail(s)) = Len(s) - 1 /\ \A n \in 1..Len(s) - 1 : Tail(s)[n] = s[n + 1]
  OBVIOUS

\* The elements a call brings.
broughtBy(m) ==
    CASE m.call = "load" -> toExcalidrawElements(renderOrder(m.snapshot.document))
      [] m.call = "reconcile" ->
           reconcileNativeElementVersions(
               toExcalidrawElements(renderOrder(m.snapshot.document)), live(page.canvas))
      [] m.call = "state" -> <<>>

\* The update a call brings.
LEMMA BroughtIs ==
    ASSUME TypeInvariant, NEW m \in Call, m.call # "flush",
           NEW u, u = [call |-> m.call, snapshot |-> m.snapshot, elements |-> broughtBy(m)]
    PROVE  /\ u \in Update /\ u.call = m.call /\ u.snapshot = m.snapshot
           /\ carriesDocument(u) <=> carriesDocument(m)
           /\ carriesDocument(u) => Canonical(u.elements, m.snapshot.document)
  <1>1. m.call \in {"load", "reconcile", "state"} /\ m.snapshot \in Snapshot
    BY DEF Call
  <1> DEFINE X == m.snapshot.document
             l == toExcalidrawElements(renderOrder(X))
             c == live(page.canvas)
             r == reconcileNativeElementVersions(l, c)
             b == broughtBy(m)
  <1>2. X \in Document
    BY <1>1 DEF Snapshot
  <1>3. Canonical(l, X)
    BY <1>2, LoadedIs
  <1>4. c \in Seq(CanvasElement)
    BY LiveTyped DEF TypeInvariant, Page, Bounded
  <1> HIDE DEF l, c
  <1>5. Canonical(r, X)
    BY <1>3, <1>4, ReconciledIs
  <1>6. /\ m.call = "load" => b = l
        /\ m.call = "reconcile" => b = r
        /\ m.call = "state" => b = <<>>
    BY DEF broughtBy, l, c
  <1> HIDE DEF r, b
  <1>7. m.call \in {"load", "reconcile"} => Canonical(b, X)
    BY <1>3, <1>5, <1>6
  <1>8. b \in Bounded(CanvasElement)
    BY <1>1, <1>6, <1>7, EmptyCanvas DEF Canonical, Bounded
  <1>9. u.call = m.call /\ u.snapshot = m.snapshot /\ u.elements = b
    BY DEF b
  <1>10. u = [call |-> m.call, snapshot |-> m.snapshot, elements |-> b]
    BY DEF b
  <1> QED BY <1>1, <1>7, <1>8, <1>9, <1>10 DEF Update, carriesDocument

\* An update keeps the types.
LEMMA ReceiveUpdateTyped ==
    ASSUME TypeInvariant, ReceiveUpdate
    PROVE  TypeInvariant'
  <1> DEFINE m == Head(toPage)
             u == [call |-> m.call, snapshot |-> m.snapshot, elements |-> broughtBy(m)]
             s == [page EXCEPT !.readOnly = m.snapshot.readOnly,
                            !.changed = @ \/ page.readOnly # m.snapshot.readOnly]
  <1>0. page \in Page /\ publication \in Publication /\ toPage \in Seq(Call) /\ raced \in BOOLEAN
    BY DEF TypeInvariant
  <1>1. /\ toPage # <<>> /\ m.call # "flush"
        /\ toPage' = Tail(toPage)
        /\ page' = IF publication.active THEN [s EXCEPT !.deferredUpdate = u] ELSE nativeUpdate(s, u)
        /\ publication' = IF publication.active \/ ~carriesDocument(m) THEN publication
                          ELSE overlaid(publication)
        /\ raced' = (raced \/ (publication.active /\ (page.deferredUpdate # NoUpdate /\ carriesDocument(page.deferredUpdate) /\ m.call = "state")))
        /\ UNCHANGED <<draft, coordinator, toNative, replies, acts>>
    BY DEF ReceiveUpdate, broughtBy
  <1>2. m \in Call /\ toPage' \in Seq(Call)
    BY <1>0, <1>1, ShorterTyped
  <1>3. u \in Update
    BY <1>1, <1>2, BroughtIs
  <1>4. m.snapshot.readOnly \in BOOLEAN
    BY <1>1, <1>2 DEF Call, Snapshot
  <1>5. s \in Page
    <2> DEFINE c == page.changed \/ page.readOnly # m.snapshot.readOnly
    <2>1. c \in BOOLEAN /\ s = [page EXCEPT !.readOnly = m.snapshot.readOnly, !.changed = c]
      BY <1>0 DEF Page
    <2> HIDE DEF c, s
    <2> QED BY <2>1, <1>0, <1>4 DEF Page
  <1> HIDE DEF s, u, m
  <1>6. page' \in Page
    <2>1. CASE publication.active
      BY <1>1, <1>3, <1>5, <2>1 DEF Page
    <2>2. CASE ~publication.active
      BY <1>1, <1>3, <1>5, <2>2, NativeUpdateIs
    <2> QED BY <2>1, <2>2
  <1>7. publication' \in Publication
    BY <1>0, <1>1, OverlaidTyped
  <1>8. raced' \in BOOLEAN
    BY <1>0, <1>1 DEF Publication
  <1> QED BY <1>1, <1>2, <1>6, <1>7, <1>8 DEF TypeInvariant

\* The end of an update keeps the types.
LEMMA FinishTyped ==
    ASSUME TypeInvariant, FinishNativeUpdate
    PROVE  TypeInvariant'
  <1> DEFINE scene == readScene(page)
             change == IF page.deferredChange = none THEN scene ELSE page.deferredChange
  <1>0. page \in Page /\ publication \in Publication /\ raced \in BOOLEAN
    BY DEF TypeInvariant
  <1>1. /\ page' = [page EXCEPT !.overlay = semanticOverlay(page.canvas),
                       !.loading = FALSE, !.finishing = FALSE,
                       !.deferredChange = none, !.received = FALSE]
        /\ \/ /\ publication' = acceptScene(publication, change)
              /\ Post(accepted(publication, change))
              /\ raced' = (raced \/ acceptRaces(publication, change)
                                \/ publication.adopted = none)
           \/ /\ publication' = adoptScene(publication, scene)
              /\ UNCHANGED <<toNative, raced>>
        /\ UNCHANGED <<draft, coordinator, toPage, replies, acts>>
    BY DEF FinishNativeUpdate
  <1>2. scene \in CanvasScene /\ change \in CanvasScene
    BY <1>0, ReadTyped DEF Page
  <1> HIDE DEF scene, change
  <1>3. page' \in Page
    <2>1. semanticOverlay(page.canvas) \in SUBSET Overlay
      BY <1>0, OverlayTyped DEF Page
    <2> QED BY <1>0, <1>1, <2>1 DEF Page
  <1>4. publication' \in Publication /\ toNative' \in Seq(Event) /\ raced' \in BOOLEAN
    <2>1. CASE /\ publication' = acceptScene(publication, change)
               /\ Post(accepted(publication, change))
               /\ raced' = (raced \/ acceptRaces(publication, change)
                                \/ publication.adopted = none)
      <3>1. publication' \in Publication /\ accepted(publication, change) \in Seq(SceneEvent)
        BY <2>1, <1>0, <1>2, AcceptTyped
      <3>2. toNative' \in Seq(Event)
        BY <2>1, <3>1, PostTyped DEF TypeInvariant
      <3> QED BY <1>0, <2>1, <3>1, <3>2 DEF acceptRaces, coincides
    <2>2. CASE publication' = adoptScene(publication, scene) /\ UNCHANGED <<toNative, raced>>
      BY <1>2, <2>2, AdoptTyped DEF TypeInvariant
    <2> QED BY <1>1, <2>1, <2>2
  <1> QED BY <1>1, <1>3, <1>4 DEF TypeInvariant

\* A command that follows an accepted scene, or that is dropped.
LEMMA PermitsTyped ==
    ASSUME TypeInvariant, NEW scene \in Scene, NEW command,
           permitsCommand(command, receiveScene(scene))
    PROVE  draft' \in Draft /\ coordinator' \in Coordinator
  <1> DEFINE o == receiveScene(scene)
             d == decodeChange(scene, coordinator.snapshot.document, coordinator.boardIDsByWebID)
  <1>1. o.draft \in Draft /\ o.coordinator \in Coordinator /\ o.accepted \in BOOLEAN
    BY ReceiveSceneIs DEF TypeInvariant
  <1>2. /\ draft' = IF o.accepted THEN perform(o.draft, command) ELSE o.draft
        /\ coordinator' = o.coordinator
    BY DEF permitsCommand
  <1> HIDE DEF o
  <1> QED BY <1>1, <1>2, PerformIs

\* The steps of page and application keep the types.
LEMMA SystemTyped ==
    ASSUME TypeInvariant, System
    PROVE  TypeInvariant'
  <1>0. page \in Page /\ publication \in Publication /\ toNative \in Seq(Event) /\ toPage \in Seq(Call)
        /\ draft \in Draft /\ coordinator \in Coordinator /\ replies \in Seq(Reply)
        /\ acts \in 0..MaxActs /\ raced \in BOOLEAN
    BY DEF TypeInvariant
  <1>e. toNative # <<>> => Head(toNative) \in Event /\ Tail(toNative) \in Seq(Event)
    BY <1>0, ShorterTyped
  <1>1. CASE FinishNativeUpdate
    BY <1>1, FinishTyped
  <1>2. CASE CommitChange
    <2> DEFINE p == [page EXCEPT !.changed = FALSE]
               f == FALSE
    <2>1. p \in Page /\ f \in BOOLEAN
      BY <1>0 DEF Page
    <2>2. handleChange(p, f) /\ UNCHANGED <<draft, coordinator, toPage, replies, acts>>
      BY <1>2 DEF CommitChange
    <2> HIDE DEF p, f
    <2> QED BY <1>0, <2>1, <2>2, ChangeTyped DEF TypeInvariant
  <1>3. CASE ReceiveUpdate
    BY <1>3, ReceiveUpdateTyped
  <1>4. CASE ReceiveFlush
    <2> DEFINE m == Head(toPage)
               r == event("reply", m.then, prepare(readScene(page)))
    <2>1. m \in Call /\ Tail(toPage) \in Seq(Call) /\ m.call = "flush"
      BY <1>0, <1>4, ShorterTyped DEF ReceiveFlush
    <2>2. m.then \in Commands
      BY <2>1 DEF Call
    <2>3. r \in Event /\ readScene(page) \in CanvasScene
      BY <1>0, <2>2, FlushedTyped
    <2>4. /\ toPage' = Tail(toPage) /\ publication' = adoptScene(publication, readScene(page))
          /\ Post(<<r>>) /\ raced' = (raced \/ staleAfterFlush \/ inFlight(Tail(toPage), carriesDocument))
          /\ UNCHANGED <<page, draft, coordinator, replies, acts>>
      BY <1>4 DEF ReceiveFlush
    <2> HIDE DEF r, m
    <2>5. toNative' \in Seq(Event)
      BY <1>0, <2>3, <2>4 DEF Post
    <2>6. publication' \in Publication
      BY <2>3, <2>4, AdoptTyped
    <2>7. raced' \in BOOLEAN
      BY <1>0, <2>4 DEF staleAfterFlush, inFlight
    <2> QED BY <1>0, <2>1, <2>4, <2>5, <2>6, <2>7 DEF TypeInvariant
  <1>5. CASE PointerUp
    <2> DEFINE p == [page EXCEPT !.held = FALSE]
    <2>1. p \in Page
      BY <1>0 DEF Page
    <2>2. EndInteraction(p) /\ UNCHANGED acts
      BY <1>5 DEF PointerUp
    <2> HIDE DEF p
    <2> QED BY <1>0, <2>1, <2>2, EndTypes DEF TypeInvariant
  <1>6. CASE ReceiveReady
    <2> DEFINE c == scheduleLoad(coordinator, coordinator.snapshot)
    <2>1. c \in Coordinator
      BY <1>0, ScheduleTyped DEF Coordinator
    <2>2. coordinator' = [c EXCEPT !.ready = TRUE]
      BY <1>6 DEF ReceiveReady
    <2> HIDE DEF c
    <2>3. coordinator' \in Coordinator
      BY <2>1, <2>2 DEF Coordinator
    <2> QED BY <1>0, <1>e, <1>6, <2>3 DEF ReceiveReady, TypeInvariant
  <1>7. CASE ReceiveEvent
    <2> DEFINE m == Head(toNative)
    <2>1. /\ toNative # <<>> /\ m.event \in {"scene", "flushedCommand", "command"}
          /\ IF carriesScene(m) THEN permitsCommand(m.command, receiveScene(m.scene))
             ELSE receiveCommand(m.command)
          /\ toNative' = Tail(toNative)
          /\ raced' = (raced \/ (carriesScene(m) /\ (replies # <<>> \/ canvasIsBehind))
                            \/ reclaims(m.scene))
          /\ UNCHANGED <<page, publication, toPage, replies, acts>>
      BY <1>7 DEF ReceiveEvent
    <2>2. m \in Event /\ toNative' \in Seq(Event)
      BY <1>e, <2>1
    <2>3. draft' \in Draft /\ coordinator' \in Coordinator
      <3>1. CASE carriesScene(m)
        <4>1. m.scene \in Scene
          BY <2>2, <3>1, EventKinds
        <4> QED BY <2>1, <3>1, <4>1, PermitsTyped
      <3>2. CASE ~carriesScene(m)
        <4>1. draft' = perform(draft, m.command) /\ coordinator' = [coordinator EXCEPT !.observing = TRUE]
          BY <2>1, <3>2 DEF receiveCommand
        <4>2. coordinator' \in Coordinator
          BY <4>1, <1>0 DEF Coordinator
        <4> QED BY <1>0, <4>1, <4>2, PerformIs
      <3> QED BY <3>1, <3>2
    <2> HIDE DEF m
    <2>4. raced' \in BOOLEAN
      BY <1>0, <2>1 DEF carriesScene, canvasIsBehind, reclaims
    <2> QED BY <1>0, <2>1, <2>2, <2>3, <2>4 DEF TypeInvariant
  <1>8. CASE ReceiveReply
    <2>1. Head(toNative) \in Reply /\ toNative # <<>>
      BY <1>8, <1>e, EventKinds DEF ReceiveReply
    <2> DEFINE r == Head(toNative)
    <2>2. r \in Reply /\ replies' = Append(replies, r)
      BY <1>8, <2>1 DEF ReceiveReply
    <2> HIDE DEF r
    <2>3. replies' \in Seq(Reply)
      BY <1>0, <2>2
    <2> QED BY <1>0, <1>e, <1>8, <2>1, <2>3 DEF ReceiveReply, TypeInvariant
  <1>9. CASE HandleReply
    <2> DEFINE m == Head(replies)
    <2>1. /\ replies # <<>> /\ permitsCommand(m.command, receiveScene(m.scene))
          /\ replies' = Tail(replies) /\ raced' = (raced \/ canvasIsBehind \/ reclaims(m.scene))
          /\ UNCHANGED <<page, publication, toPage, toNative, acts>>
      BY <1>9 DEF HandleReply
    <2>2. m \in Reply /\ replies' \in Seq(Reply)
      BY <1>0, <2>1, ShorterTyped
    <2>3. m.scene \in Scene
      BY <2>2 DEF Reply
    <2>4. draft' \in Draft /\ coordinator' \in Coordinator
      BY <2>1, <2>3, PermitsTyped
    <2> HIDE DEF m
    <2>5. raced' \in BOOLEAN
      BY <1>0, <2>1 DEF canvasIsBehind, reclaims
    <2> QED BY <1>0, <2>1, <2>2, <2>4, <2>5 DEF TypeInvariant
  <1>10. CASE Observe
    <2> DEFINE k == keeping(coordinator.boardIDsByWebID, ids(presentedDocument))
               p == [coordinator EXCEPT !.boardIDsByWebID = k, !.snapshot = Presented,
                                        !.observing = FALSE]
               settled  == coordinator.lastLoaded = <<presentedDocument>>
               restated == coordinator.ready /\ settled /\ state(coordinator.snapshot) # state(Presented)
               c == call("state", Presented, "none")
    <2>1. /\ coordinator' = CASE ~coordinator.ready            -> p
                              [] coordinator.ready /\ settled  -> [p EXCEPT !.task = NoTask]
                              [] coordinator.ready /\ ~settled ->
                                  IF coordinator.lastLoaded = <<>> THEN scheduleLoad(p, Presented)
                                  ELSE scheduleReconcile(p, Presented)
          /\ raced' = (raced \/ (settled /\ (canvasIsBehind \/ coordinator.task.task = "load")))
          /\ toPage' = IF restated THEN Append(toPage, c) ELSE toPage
          /\ UNCHANGED <<page, publication, draft, toNative, replies, acts>>
      BY <1>10 DEF Observe
    <2>2. Presented \in Snapshot
      BY <1>0, PresentedIs
    <2>3. k \in IDLedgers
      BY <1>0, KeepingIs DEF Coordinator
    <2>4. p \in Coordinator
      <3> HIDE DEF k
      <3> QED BY <1>0, <2>2, <2>3 DEF Coordinator
    <2>5. c \in Call
      BY <2>2 DEF call, Call
    <2>6. coordinator.ready \in BOOLEAN
      BY <1>0 DEF Coordinator
    <2> HIDE DEF p, c, settled
    <2>7. coordinator' \in Coordinator
      <3>1. [p EXCEPT !.task = NoTask] \in Coordinator
        BY <2>4 DEF Coordinator, Task
      <3>2. scheduleLoad(p, Presented) \in Coordinator /\ scheduleReconcile(p, Presented) \in Coordinator
        BY <2>2, <2>4, ScheduleTyped
      <3>3. CASE ~coordinator.ready
        BY <2>1, <2>4, <3>3
      <3>4. CASE coordinator.ready /\ settled
        BY <2>1, <3>1, <3>4
      <3>5. CASE coordinator.ready /\ ~settled
        BY <2>1, <3>2, <3>5
      <3> QED BY <2>6, <3>3, <3>4, <3>5
    <2>8. toPage' \in Seq(Call)
      <3>1. Append(toPage, c) \in Seq(Call)
        BY <1>0, <2>5
      <3> QED BY <1>0, <2>1, <3>1
    <2>9. raced' \in BOOLEAN
      BY <1>0, <2>1 DEF settled
    <2> QED BY <1>0, <2>1, <2>7, <2>8, <2>9 DEF TypeInvariant
  <1>11. CASE RunTask
    <2> DEFINE t == coordinator.task
               c == call(t.task, t.snapshot, "none")
    <2>1. /\ t # NoTask
          /\ coordinator' = [coordinator EXCEPT !.task = NoTask, !.lastLoaded = <<t.snapshot.document>>]
          /\ toPage' = Append(toPage, c)
          /\ raced' = (raced \/ sceneIsComing \/ t.snapshot.document # coordinator.snapshot.document)
          /\ UNCHANGED <<page, publication, draft, toNative, replies, acts>>
      BY <1>11 DEF RunTask
    <2>2. t \in [task : {"load", "reconcile"}, snapshot : Snapshot]
      BY <1>0, <2>1 DEF Coordinator, Task
    <2>3. c \in Call
      BY <2>2 DEF call, Call
    <2>4. t.snapshot.document \in Document
      BY <2>2 DEF Snapshot
    <2> HIDE DEF c, t
    <2>5. coordinator' \in Coordinator
      <3>1. <<t.snapshot.document>> \in {<<>>} \cup {<<X>> : X \in Document} /\ NoTask \in Task
        BY <2>4 DEF Task
      <3> DEFINE ll == <<t.snapshot.document>>
      <3> HIDE DEF ll
      <3>2. coordinator' = [coordinator EXCEPT !.task = NoTask, !.lastLoaded = ll]
        BY <2>1 DEF ll
      <3> QED BY <1>0, <3>1, <3>2 DEF Coordinator, ll
    <2>6. toPage' \in Seq(Call)
      BY <1>0, <2>1, <2>3
    <2>7. raced' \in BOOLEAN
      BY <1>0, <2>1 DEF sceneIsComing
    <2> QED BY <1>0, <2>1, <2>5, <2>6, <2>7 DEF TypeInvariant
  <1> QED BY <1>1, <1>2, <1>3, <1>4, <1>5, <1>6, <1>7, <1>8, <1>9, <1>10, <1>11 DEF System

\* The types, at the start.
LEMMA InitTyped == Init => TypeInvariant
  <1> SUFFICES ASSUME Init PROVE TypeInvariant
    OBVIOUS
  <1>1. draft \in Draft
    <2>1. <<>> \in Seq(Entry) /\ "select" \in Tools
      BY ToolNames
    <2> QED BY <2>1, InitialIs DEF Init, Draft
  <1>2. page \in Page /\ publication \in Publication
    BY NewPageTyped, NewPublicationIs DEF Init
  <1>3. coordinator \in Coordinator
    <2> DEFINE s == [document |-> InitialDocument, selected |-> none, tool |-> "select",
                     readOnly |-> FALSE]
    <2>1. s \in Snapshot
      BY InitialIs, ToolNames DEF Snapshot
    <2>2. coordinator = NewCoordinator(s)
      BY DEF Init
    <2> HIDE DEF s
    <2>3. <<>> \in {<<>>} \cup {<<X>> : X \in Document} /\ NoTask \in Task
      BY DEF Task
    <2> QED BY <2>1, <2>2, <2>3, LedgerIs DEF NewCoordinator, Coordinator
  <1>4. toPage \in Seq(Call) /\ replies \in Seq(Reply) /\ raced \in BOOLEAN /\ acts \in 0..MaxActs
    <2>1. toPage = <<>> /\ replies = <<>> /\ raced = FALSE /\ acts = 0
      BY DEF Init
    <2>2. toPage \in Seq(Call) /\ replies \in Seq(Reply)
      BY <2>1
    <2>3. acts \in 0..MaxActs
      BY <2>1, BoundsAssumption
    <2>4. raced \in BOOLEAN
      BY <2>1, Zenon
    <2> QED BY <2>2, <2>3, <2>4
  <1>5. toNative \in Seq(Event)
    <2>1. event("ready", "none", none) \in Event
      BY DEF event, Event
    <2> QED BY <2>1 DEF Init, Ready
  <1> QED BY <1>1, <1>2, <1>3, <1>4, <1>5 DEF TypeInvariant

\* The types, after a step.
LEMMA StepTyped ==
    ASSUME TypeInvariant, [Next]_vars
    PROVE  TypeInvariant'
  <1>1. CASE UNCHANGED vars
    BY <1>1 DEF vars, TypeInvariant
  <1> QED BY <1>1, PersonTyped, SystemTyped DEF Next

\* TypeOK is part of the types.
LEMMA TypesAreOK == TypeInvariant => TypeOK
  <1> SUFFICES ASSUME TypeInvariant PROVE TypeOK
    OBVIOUS
  <1>1. page.canvas \in Bounded(CanvasElement) /\ page.appState \in AppState
        /\ page.deferredUpdate \in {NoUpdate} \cup Update
    BY DEF TypeInvariant, Page
  <1>2. Len(page.canvas) <= MaxElements /\ \A e \in ToSet(page.canvas) : e \in CanvasElement
    BY <1>1 DEF Bounded, ToSet
  <1>3. \A e \in ToSet(page.canvas) :
            e.pose \in {"canonical", "free", "rotated"} /\ e.version \in Nat \ {0}
    BY <1>2 DEF CanvasElement, Poses
  <1>4. page.appState.tool \in DOMAIN nativeToolForExcalType
    BY <1>1 DEF AppState
  <1>5. page.deferredUpdate.call \in {"none", "load", "reconcile", "state"}
    BY <1>1 DEF NoUpdate, Update
  <1>6. publication.active \in BOOLEAN /\ draft.tool \in DOMAIN excalTypeForNativeTool
    BY DEF TypeInvariant, Publication, Draft, Tools
  <1>7. coordinator.task.task \in {"none", "load", "reconcile"}
    BY DEF TypeInvariant, Coordinator, Task, NoTask
  <1>8. Len(coordinator.lastLoaded) <= 1
    <2>1. coordinator.lastLoaded \in {<<>>} \cup {<<X>> : X \in Document}
      BY DEF TypeInvariant, Coordinator
    <2>2. CASE coordinator.lastLoaded = <<>>
      BY <2>2
    <2>3. CASE coordinator.lastLoaded # <<>>
      <3>1. PICK X \in Document : coordinator.lastLoaded = <<X>>
        BY <2>1, <2>3
      <3>2. Len(<<X>>) = 1
        OBVIOUS
      <3> QED BY <3>1, <3>2
    <2> QED BY <2>2, <2>3
  <1>9. \A m \in ToSet(toPage) : m.call \in {"load", "reconcile", "state", "flush"}
    <2>1. \A m \in ToSet(toPage) : m \in Call
      BY DEF TypeInvariant, ToSet
    <2> QED BY <2>1 DEF Call
  <1>10. \A m \in ToSet(toNative) : m.event \in {"ready", "scene", "flushedCommand", "command", "reply"}
    <2>1. \A m \in ToSet(toNative) : m \in Event
      BY DEF TypeInvariant, ToSet
    <2> QED BY <2>1, EventKinds
  <1>11. \A m \in ToSet(replies) : m.event = "reply"
    <2>1. \A m \in ToSet(replies) : m \in Reply
      BY DEF TypeInvariant, ToSet
    <2> QED BY <2>1 DEF Reply
  <1> QED BY <1>2, <1>3, <1>4, <1>5, <1>6, <1>7, <1>8, <1>9, <1>10, <1>11 DEF TypeInvariant, TypeOK

\* Through any gestures, calls, replies and resets the canvas stays within MaxElements and has
\* no pose but the three, tools are tools, and channels carry what their readers expect
\* (nativeUpdate, handleChange, receiveScene, perform).
THEOREM TypeCorrect == Spec => []TypeOK
  <1>1. Init => TypeInvariant
    BY InitTyped
  <1>2. TypeInvariant /\ [Next]_vars => TypeInvariant'
    BY StepTyped
  <1>3. TypeInvariant => TypeOK
    BY TypesAreOK
  <1> QED BY <1>1, <1>2, <1>3, PTL DEF Spec

\* No Board of the draft, its histories or its saved revision has an ID twice, raced or not:
\* decodeChange gives an element an ID no other has, whatever web IDs, copied Board IDs and
\* ledger it finds.
DraftIDsAreDistinct == \A X \in draftDocuments(draft) : DistinctIDs(X)

\* Every Board the person can see, undo to, redo or go back to names each element once, for
\* every sequence of edits, pastes, reloads and races (assignedIDs, decodeChange, nextID).
THEOREM DraftIDsDistinct == Spec => []DraftIDsAreDistinct
  <1>1. TypeInvariant => DraftIDsAreDistinct
    <2> SUFFICES ASSUME TypeInvariant, NEW X \in draftDocuments(draft) PROVE DistinctIDs(X)
      BY DEF DraftIDsAreDistinct
    <2>1. /\ draft.document \in Document /\ draft.revision \in Document
          /\ draft.undo \in Seq(Entry) /\ draft.redo \in Seq(Entry)
      BY DEF TypeInvariant, Draft
    <2>2. /\ \A n \in DOMAIN draft.undo : draft.undo[n] \in Entry
          /\ \A n \in DOMAIN draft.redo : draft.redo[n] \in Entry
      BY <2>1
    <2>3. \A x \in Entry : x.document \in Document
      BY DEF Entry
    <2>4. X \in Document
      BY <2>1, <2>2, <2>3 DEF draftDocuments
    <2> QED BY <2>4 DEF Document
  <1>2. TypeInvariant /\ [Next]_vars => TypeInvariant'
    BY StepTyped
  <1> QED BY <1>1, <1>2, InitTyped, PTL DEF Spec

===============================================================================
