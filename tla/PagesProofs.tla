----------------------------- MODULE PagesProofs -----------------------------
(***************************************************************************)
(* What the parts of the pages promise, proved for any number of columns,  *)
(* views, values, tasks, people and of what users do.                      *)
(***************************************************************************)
EXTENDS MCPages, ListTheorems, SequenceTheorems

---------------------------------------------------------------------------
(* TaskColumns: the layout in localStorage *)

(* While an applied layout is being drawn, and at rest, localStorage is as    *)
(* the user arranged it; after an arrangement it lacks the parts touched, and *)
(* these are drawn.                                                           *)
KeptInv ==
    /\ DOMAIN own = {"parts", "sift", "last"}
    /\ own.parts = [p \in Parts |-> own.parts[p]]
    /\ mine = [p \in Parts |-> mine[p]]
    /\ layout = [p \in Parts |-> layout[p]]
    /\ touched \subseteq Parts
    /\ applying \in BOOLEAN
    /\ \A p \in Parts : own.parts[p] # mine[p] => ~applying /\ p \in touched
    /\ ~applying => \A p \in touched : layout[p] = mine[p]

(* The parts of a layout.                                                    *)
LEMMA ThreeParts == Parts = {"order", "shown", "width"}
  BY DEF Parts, Nothing

(* What is applied silences the watchers: nothing of it is stored.           *)
LEMMA AppliedSilently ==
    ASSUME KeptInv, AtPeace, NEW config, NEW v, NEW q, NEW why \in {"view", "clear", "mount", "url"},
           ApplyViewConfig(config, v, q, why),
           mine' = mine, DOMAIN own' = DOMAIN own, own'.parts = own.parts
    PROVE  KeptInv'
<1>1. layout' = [order |-> config.order, shown |-> config.shown, width |-> config.width]
  BY DEF ApplyViewConfig, LayoutOf
<1>2. layout' = [p \in Parts |-> layout'[p]]
  BY <1>1, ThreeParts
<1>3. applying' = TRUE /\ touched' \subseteq Parts
  BY DEF ApplyViewConfig, Silenced
<1>. QED
  BY <1>2, <1>3 DEF KeptInv, AtPeace

(* Each step keeps what the user arranged.                                   *)
LEMMA KeptStep == KeptInv /\ [ColumnsNext]_columnVars => KeptInv'
<1>. SUFFICES ASSUME KeptInv, [ColumnsNext]_columnVars PROVE KeptInv'
  OBVIOUS
<1>1. CASE UNCHANGED columnVars
  BY <1>1 DEF columnVars, KeptInv
<1>2. ASSUME NEW v \in Views, SelectView(v) PROVE KeptInv'
  <2>1. AtPeace /\ ApplyViewConfig(views[v], v, query, "view") /\ mine' = mine
    BY <1>2 DEF SelectView, Acts
  <2>2. DOMAIN own' = DOMAIN own /\ own'.parts = own.parts
    BY <1>2 DEF SelectView, KeptInv
  <2>. QED BY <2>1, <2>2, AppliedSilently
<1>3. ASSUME NEW v \in Views, CreateView(v) PROVE KeptInv'
  <2>1. DOMAIN own' = DOMAIN own /\ own'.parts = own.parts
    BY <1>3 DEF CreateView, KeptInv
  <2>. QED BY <1>3, <2>1 DEF CreateView, KeptInv
<1>4. ASSUME NEW v \in Views, DeleteView(v) PROVE KeptInv'
  <2>1. DOMAIN own' = DOMAIN own /\ own'.parts = own.parts
    BY <1>4 DEF DeleteView, KeptInv
  <2>. QED BY <1>4, <2>1 DEF DeleteView, KeptInv
<1>5. ASSUME NEW v \in Views, NEW copy \in Views, DuplicateView(v, copy) PROVE KeptInv'
  <2>1. AtPeace /\ ApplyViewConfig(views[v], copy, query, "view") /\ mine' = mine
    BY <1>5 DEF DuplicateView, Acts
  <2>2. DOMAIN own' = DOMAIN own /\ own'.parts = own.parts
    BY <1>5 DEF DuplicateView, KeptInv
  <2>. QED BY <2>1, <2>2, AppliedSilently
<1>6. CASE ClearView
  <2>. DEFINE config == [order |-> DefaultLayout.order, shown |-> DefaultLayout.shown,
                         width |-> Unsized, sift |-> Nil]
  <2>1. AtPeace /\ ApplyViewConfig(config, Nil, query, "clear") /\ mine' = mine
    BY <1>6 DEF ClearView, Acts
  <2>2. DOMAIN own' = DOMAIN own /\ own'.parts = own.parts
    BY <1>6 DEF ClearView, KeptInv
  <2>. QED BY <2>1, <2>2, AppliedSilently
<1>7. CASE SaveCurrentView
  BY <1>7 DEF SaveCurrentView, KeptInv
<1>8. ASSUME NEW part \in Parts, NEW value, Arrange(part, value) PROVE KeptInv'
  <2>1. layout' = [p \in Parts |-> layout'[p]] /\ layout'[part] = value
    BY <1>8 DEF Arrange, KeptInv
  <2>2. mine' = [p \in Parts |-> mine'[p]] /\ mine'[part] = value
    BY <1>8 DEF Arrange, KeptInv
  <2>3. \A p \in Parts \ {part} : mine'[p] = mine[p]
    BY <1>8 DEF Arrange, KeptInv
  <2>4. \A p \in Parts : own.parts[p] = mine[p]
    BY <1>8 DEF Arrange, Acts, AtPeace, KeptInv
  <2>5. touched' = {part} /\ applying' = applying /\ own' = own
    BY <1>8 DEF Arrange
  <2>6. applying = FALSE
    BY <1>8 DEF Arrange, Acts, AtPeace, KeptInv
  <2>. QED BY <2>1, <2>2, <2>3, <2>4, <2>5, <2>6 DEF KeptInv
<1>9. ASSUME NEW c \in Cols, ToggleColumn(c) PROVE KeptInv'
  BY <1>8, <1>9, ThreeParts DEF ToggleColumn
<1>10. ASSUME NEW c \in Cols, NEW w \in Widths, ResizeColumn(c, w) PROVE KeptInv'
  BY <1>8, <1>10, ThreeParts DEF ResizeColumn
<1>11. ASSUME NEW i, NEW j, MoveColumn(i, j) PROVE KeptInv'
  BY <1>8, <1>11, ThreeParts DEF MoveColumn
<1>12. ASSUME NEW s \in SomeSift, SetSift(s) PROVE KeptInv'
  BY <1>12 DEF SetSift, KeptInv
<1>13. CASE TogglePanel
  BY <1>13 DEF TogglePanel, KeptInv
<1>14. CASE GoBack
  BY <1>14 DEF GoBack, KeptInv
<1>15. CASE Flush
  <2>0. touched' = {} /\ applying' = FALSE /\ UNCHANGED <<layout, mine>>
    BY <1>15 DEF Flush
  <2>1. CASE applying
    BY <1>15, <2>0, <2>1 DEF Flush, KeptInv
  <2>2. CASE ~applying
    <3>1. own' = [own EXCEPT !.parts = [p \in Parts |-> IF p \in touched THEN layout[p]
                                                       ELSE own.parts[p]]]
      BY <1>15, <2>2 DEF Flush, KeptInv
    <3>2. DOMAIN own' = DOMAIN own
      BY <3>1
    <3>3. own'.parts = [p \in Parts |-> IF p \in touched THEN layout[p] ELSE own.parts[p]]
      BY <3>1 DEF KeptInv
    <3>4. \A p \in Parts : own'.parts[p] = mine[p]
      BY <2>2, <3>3 DEF KeptInv
    <3>5. own'.parts = [p \in Parts |-> own'.parts[p]]
      BY <3>3
    <3>. QED BY <2>0, <3>2, <3>4, <3>5 DEF KeptInv
  <2>. QED BY <2>1, <2>2
<1>16. CASE Navigated
  <2>1. DOMAIN own' = DOMAIN own /\ own'.parts = own.parts
    BY <1>16 DEF Navigated, KeptInv
  <2>2. mine' = mine /\ touched = {} /\ ~applying
    BY <1>16 DEF Navigated
  <2>3. CASE UNCHANGED <<layout, touched, applying>>
    BY <2>1, <2>2, <2>3 DEF KeptInv
  <2>4. CASE /\ layout' = FromQuery(layout, going)
             /\ applying' = Silenced("url")
             /\ touched' = {p \in Parts : FromQuery(layout, going)[p] # layout[p]}
    <3>1. layout' = [p \in Parts |-> layout'[p]]
      BY <2>4 DEF KeptInv, FromQuery, WithColw, WithCols
    <3>. QED BY <2>1, <2>2, <2>4, <3>1 DEF KeptInv, Silenced
  <2>. QED BY <1>16, <2>3, <2>4 DEF Navigated
<1>17. ASSUME NEW q, Mount(q) PROVE KeptInv'
  <2>1. AtPeace /\ UNCHANGED <<own, mine>>
    BY <1>17 DEF Mount, Acts
  <2>2. ASSUME NEW config, NEW v, ApplyViewConfig(config, v, q, "view") PROVE KeptInv'
    BY <2>1, <2>2, AppliedSilently
  <2>3. CASE RestoreLayout(q)
    <3>1. Restored(q) = [p \in Parts |-> Restored(q)[p]]
      BY DEF Restored, WithColw, WithCols
    <3>2. layout' = [p \in Parts |-> layout'[p]] /\ touched' \subseteq Parts /\ applying' = TRUE
      BY <2>3, <3>1 DEF RestoreLayout, Silenced
    <3>. QED BY <2>1, <3>2 DEF KeptInv, AtPeace
  <2>. QED BY <1>17, <2>2, <2>3 DEF Mount
<1>18. CASE Reload
  BY <1>17, <1>18 DEF Reload
<1>19. ASSUME NEW q \in Links, OpenLink(q) PROVE KeptInv'
  BY <1>17, <1>19 DEF OpenLink
<1>. QED
  BY <1>1, <1>2, <1>3, <1>4, <1>5, <1>6, <1>7, <1>9, <1>10, <1>11, <1>12, <1>13, <1>14, <1>15,
     <1>16, <1>18, <1>19 DEF ColumnsNext

(* tasks/index.vue: a link opened, a view chosen or a step back in history    *)
(* never changes the layout kept in localStorage.                            *)
THEOREM LinksLeaveMineAlways == ColumnsSpec => []LinksLeaveMine
<1>1. ColumnsInit => KeptInv
  <2>. SUFFICES ASSUME ColumnsInit PROVE KeptInv
    OBVIOUS
  <2>1. layout = [p \in Parts |-> layout[p]]
    BY ThreeParts DEF ColumnsInit, DefaultLayout
  <2>2. Nothing = [p \in Parts |-> Nothing[p]]
    BY DEF Parts, Nothing
  <2>. QED BY <2>1, <2>2 DEF ColumnsInit, KeptInv
<1>2. KeptInv => LinksLeaveMine
  <2>. SUFFICES ASSUME KeptInv, AtPeace PROVE own.parts = mine
    BY DEF LinksLeaveMine
  <2>1. \A p \in Parts : own.parts[p] = mine[p]
    BY DEF KeptInv, AtPeace
  <2>. QED BY <2>1 DEF KeptInv
<1>. QED
  BY <1>1, <1>2, KeptStep, PTL DEF ColumnsSpec

---------------------------------------------------------------------------
(* TaskColumns: types *)

(* Every field of what is stored.                                            *)
OwnParts == [order : Order \cup {Nil}, shown : (SUBSET Cols) \cup {Nil}, width : Sizing \cup {Nil}]
OwnState == [parts : OwnParts, sift : SomeSift \cup {Never}, last : Views \cup {Nil}]

(* A link names a column once.                                               *)
Clean(q) ==
    /\ q \in PageQuery
    /\ q.cols # Nil => \A i, j \in DOMAIN q.cols : q.cols[i] = q.cols[j] => i = j

ColumnsForms ==
    /\ Clean(query)
    /\ going # Nil => Clean(going)
    /\ before # Nil => Clean(before)
    /\ layout \in Layout /\ touched \in SUBSET Parts /\ applying \in BOOLEAN
    /\ own \in OwnState
    /\ views \in [Views -> Config \cup {Nil}] /\ chosen \in Views \cup {Nil}
    /\ since \in {"else", "chosen", "reloaded"} /\ acts \in 0..MaxActs

LEMMA ColumnsBounds == MaxActs \in Nat
  BY ColumnsAssumption

(* A layout that a view, a link or the user makes.                           *)
LEMMA OrderIs ==
    ASSUME NEW o
    PROVE  o \in Order <=> o \in Seq(Cols) /\ Len(o) = Len(DefaultColumnOrder) /\ ToSet(o) = Cols
<1>1. Len(DefaultColumnOrder) \in Nat
  BY ColumnsAssumption
<1>2. o \in [1..Len(DefaultColumnOrder) -> Cols] <=> o \in Seq(Cols) /\ Len(o) = Len(DefaultColumnOrder)
  BY <1>1
<1>. QED BY <1>2 DEF Order

LEMMA DefaultTyped == DefaultLayout \in Layout /\ Unsized \in Sizing
<1>1. DefaultColumnOrder \in Order
  BY OrderIs, ColumnsAssumption
<1>2. Unsized \in Sizing
  BY DEF Unsized, Sizing
<1>. QED BY <1>1, <1>2 DEF DefaultLayout, Layout

LEMMA InOrderLists ==
    ASSUME NEW o \in Order, NEW S \in SUBSET Cols
    PROVE  InOrder(o, S) \in SetToSeqs(S) /\ IsFiniteSet(S) /\ Cardinality(S) <= Cardinality(Cols)
           /\ Cardinality(Cols) \in Nat
<1>. DEFINE R == {p \in S \X S : Place(o, p[1]) < Place(o, p[2])}
<1>1. IsFiniteSet(S) /\ Cardinality(S) <= Cardinality(Cols) /\ Cardinality(Cols) \in Nat
  BY ColumnsAssumption, FS_Subset, FS_CardinalityType
<1>2. ASSUME NEW c \in S PROVE Place(o, c) \in Nat /\ o[Place(o, c)] = c
  <2>1. o \in Seq(Cols) /\ DOMAIN o = 1..Len(o) /\ Len(o) \in Nat
    BY OrderIs
  <2>2. \E i \in DOMAIN o : o[i] = c
    BY OrderIs DEF ToSet
  <2>3. Place(o, c) \in DOMAIN o /\ o[Place(o, c)] = c
    BY <2>2 DEF Place
  <2>. QED BY <2>1, <2>3
<1>3. \A x, y \in S : x # y => <<x, y>> \in R \/ <<y, x>> \in R
  <2>. SUFFICES ASSUME NEW x \in S, NEW y \in S, x # y PROVE <<x, y>> \in R \/ <<y, x>> \in R
    OBVIOUS
  <2>1. Place(o, x) # Place(o, y)
    BY <1>2
  <2>2. Place(o, x) < Place(o, y) \/ Place(o, y) < Place(o, x)
    BY <1>2, <2>1
  <2>. QED BY <2>2
<1>4. \A x, y, z \in S : <<x, y>> \in R /\ <<y, z>> \in R => <<x, z>> \in R
  <2>. SUFFICES ASSUME NEW x \in S, NEW y \in S, NEW z \in S, <<x, y>> \in R, <<y, z>> \in R
                PROVE  <<x, z>> \in R
    OBVIOUS
  <2>1. Place(o, x) < Place(o, y) /\ Place(o, y) < Place(o, z)
    OBVIOUS
  <2>2. Place(o, x) < Place(o, z)
    BY <1>2, <2>1
  <2>. QED BY <2>2
<1>5. \A x, y : <<x, y>> \in R => Place(o, x) < Place(o, y)
  OBVIOUS
<1>. HIDE DEF R
<1>6. PICK q \in SetToSeqs(S) : \A m, n \in DOMAIN q : m < n => <<q[m], q[n]>> \in R
  BY <1>1, <1>3, <1>4, ListInOrder
<1>7. \A m, n \in DOMAIN q : m < n => Place(o, q[m]) < Place(o, q[n])
  BY <1>5, <1>6
<1>8. InOrder(o, S) \in SetToSeqs(S)
  BY <1>6, <1>7 DEF InOrder
<1>. QED BY <1>1, <1>8

(* A list of the columns that are shown.                                     *)
LEMMA ColsQueryTyped ==
    ASSUME NEW l, l.order \in Order, l.shown \in SUBSET Cols
    PROVE  /\ ColsQuery(l) \in Listing \cup {Nil}
           /\ ColsQuery(l) # Nil => \A i, j \in DOMAIN ColsQuery(l) :
                                       ColsQuery(l)[i] = ColsQuery(l)[j] => i = j
<1>. DEFINE q == Visible(l)
            S == l.shown
            n == Cardinality(S)
<1>1. q \in SetToSeqs(S) /\ IsFiniteSet(S) /\ n <= Cardinality(Cols) /\ Cardinality(Cols) \in Nat
  BY InOrderLists DEF Visible
<1>2. q \in [1..n -> S] /\ n \in Nat /\ \A i, j \in 1..n : q[i] = q[j] => i = j
  BY <1>1, ListsHaveAll
<1>3. q # <<>> => n \in 1..Cardinality(Cols)
  <2>1. n = 0 => q = <<>>
    BY <1>2
  <2>. QED BY <1>1, <1>2, <2>1
<1>4. q \in [1..n -> Cols] /\ DOMAIN q = 1..n
  BY <1>2
<1>5. q # <<>> => q \in Listing
  BY <1>3, <1>4 DEF Listing
<1>6. ColsQuery(l) = Nil \/ (ColsQuery(l) = q /\ q # <<>>)
  BY DEF ColsQuery
<1>. QED BY <1>2, <1>4, <1>5, <1>6

LEMMA WidthsTyped ==
    ASSUME NEW w \in Sizing
    PROVE  [c \in Cols |-> Capped(w[c])] \in Sizing /\ [c \in Cols |-> ClampedWidth(w[c])] \in Sizing
  BY DEF Sizing, Capped, ClampedWidth

LEMMA ColwQueryTyped ==
    ASSUME NEW l, l.width \in Sizing PROVE ColwQuery(l) \in Sizing \cup {Nil}
  BY WidthsTyped DEF ColwQuery

(* A link lays the columns it names first, and the others after them.        *)
LEMMA WithColsTyped ==
    ASSUME NEW l \in Layout, NEW named \in Listing \cup {Nil},
           named # Nil => \A i, j \in DOMAIN named : named[i] = named[j] => i = j
    PROVE  WithCols(l, named) \in Layout
<1>1. CASE named = Nil
  BY <1>1 DEF WithCols
<1>2. CASE named # Nil
  <2>. DEFINE S == ToSet(named)
              rest == InOrder(DefaultColumnOrder, Cols \ S)
              m == Cardinality(Cols \ S)
  <2>1. PICK n \in 1..Cardinality(Cols) : named \in [1..n -> Cols]
    BY <1>2 DEF Listing
  <2>2. n \in Nat /\ named \in Seq(Cols) /\ Len(named) = n
    <3>1. Cardinality(Cols) \in Nat
      BY ColumnsAssumption, FS_CardinalityType
    <3>. QED BY <2>1, <3>1
  <2>3. S \in SUBSET Cols
    BY <2>1 DEF ToSet
  <2>4. IsFiniteSet(S) /\ Cardinality(S) = n
    <3>. DEFINE I == 1..n
    <3>1. IsFiniteSet(I) /\ Cardinality(I) = n
      BY <2>2, FS_Interval
    <3>2. \A i, j \in I : named[i] = named[j] => i = j
      BY <1>2, <2>1
    <3>3. named \in Bijection(I, S)
      <4>1. \A c \in S : \E i \in I : named[i] = c
        BY <2>1 DEF ToSet
      <4>2. named \in [I -> S]
        BY <2>1 DEF ToSet
      <4>. HIDE DEF I, S
      <4>. QED BY <3>2, <4>1, <4>2 DEF Bijection, Injection, Surjection, IsInjective
    <3>. HIDE DEF I, S
    <3>4. ExistsBijection(I, S)
      BY <3>3 DEF ExistsBijection
    <3>. QED BY <3>1, <3>4, FS_Bijection
  <2>5. DefaultColumnOrder \in Order
    BY DefaultTyped DEF DefaultLayout, Layout
  <2>6. rest \in SetToSeqs(Cols \ S) /\ IsFiniteSet(Cols \ S)
    BY <2>5, InOrderLists
  <2>7. rest \in [1..m -> Cols \ S] /\ m \in Nat /\ \A c \in Cols \ S : \E i \in 1..m : rest[i] = c
    <3>1. PICK T : T = Cols \ S
      OBVIOUS
    <3>2. rest \in SetToSeqs(T) /\ IsFiniteSet(T) /\ m = Cardinality(T)
      BY <2>6, <3>1
    <3>. HIDE DEF rest, m, S
    <3>3. rest \in [1..m -> T] /\ m \in Nat /\ \A c \in T : \E i \in 1..m : rest[i] = c
      BY <3>2, ListsHaveAll
    <3>. QED BY <3>1, <3>3
  <2>8. rest \in Seq(Cols) /\ Len(rest) = m /\ ToSet(rest) = Cols \ S
    <3>. HIDE DEF rest, m
    <3>1. rest \in Seq(Cols) /\ Len(rest) = m /\ DOMAIN rest = 1..m
      BY <2>7
    <3>. QED BY <2>7, <3>1 DEF ToSet
  <2>9. n + m = Cardinality(Cols)
    <3>1. S \cup (Cols \ S) = Cols /\ S \cap (Cols \ S) = {}
      BY <2>3
    <3>. HIDE DEF S
    <3>. QED BY <2>4, <2>6, <3>1, CountedApart
  <2>10. named \o rest \in Order
    <3>. HIDE DEF rest, m
    <3>1. /\ named \o rest \in Seq(Cols) /\ Len(named \o rest) = Len(named) + Len(rest)
          /\ ToSet(named \o rest) = ToSet(named) \cup ToSet(rest)
      BY <2>2, <2>8, JoinedHas
    <3>2. Len(named \o rest) = Len(DefaultColumnOrder)
      BY <2>2, <2>8, <2>9, <3>1, ColumnsAssumption
    <3>3. ToSet(named \o rest) = Cols
      BY <2>3, <2>8, <3>1
    <3>. QED BY <3>1, <3>2, <3>3, OrderIs
  <2>11. WithCols(l, named) = [l EXCEPT !.shown = S, !.order = named \o rest]
    BY <1>2 DEF WithCols
  <2>. HIDE DEF S, rest
  <2>. QED BY <2>3, <2>10, <2>11 DEF Layout
<1>. QED BY <1>1, <1>2

LEMMA FromQueryTyped ==
    ASSUME NEW l \in Layout, NEW q, Clean(q)
    PROVE  WithColw(WithCols(l, q.cols), q.colw) \in Layout
<1>1. WithCols(l, q.cols) \in Layout
  BY WithColsTyped DEF Clean, PageQuery
<1>2. q.colw \in Sizing \cup {Nil}
  BY DEF Clean, PageQuery
<1>3. ASSUME NEW k \in Layout PROVE WithColw(k, q.colw) \in Layout
  BY <1>2, WidthsTyped DEF WithColw, Layout
<1>. QED BY <1>1, <1>3

LEMMA LayoutParts ==
    ASSUME NEW l \in Layout
    PROVE  l.order \in Order /\ l.shown \in SUBSET Cols /\ l.width \in Sizing
  BY DEF Layout

(* A configuration is a layout with filters and a sort.                      *)
LEMMA ConfigParts ==
    ASSUME NEW c \in Config
    PROVE  c.order \in Order /\ c.shown \in SUBSET Cols /\ c.width \in Sizing /\ c.sift \in SomeSift
  BY DEF Config

(* What goes into the URL with a view.                                       *)
LEMMA QueryOfClean ==
    ASSUME NEW c \in Config, NEW v \in Views \cup {Nil}, NEW q, Clean(q)
    PROVE  Clean(QueryOf(c, v, q))
<1>1. /\ ColsQuery(c) \in Listing \cup {Nil} /\ ColwQuery(c) \in Sizing \cup {Nil}
      /\ ColsQuery(c) # Nil => \A i, j \in DOMAIN ColsQuery(c) : ColsQuery(c)[i] = ColsQuery(c)[j] => i = j
  BY ConfigParts, ColsQueryTyped, ColwQueryTyped
<1>2. c.sift \in SomeSift /\ q.panel \in BOOLEAN
  BY ConfigParts DEF Clean, PageQuery
<1>3. QueryOf(c, v, q) \in PageQuery
  BY <1>1, <1>2 DEF QueryOf, PageQuery
<1>4. QueryOf(c, v, q).cols = ColsQuery(c)
  BY DEF QueryOf
<1>. QED BY <1>1, <1>3, <1>4 DEF Clean

LEMMA SyncedClean ==
    ASSUME ColumnsForms PROVE Clean(SyncedQuery(layout))
<1>1. /\ ColsQuery(layout) \in Listing \cup {Nil} /\ ColwQuery(layout) \in Sizing \cup {Nil}
      /\ ColsQuery(layout) # Nil => \A i, j \in DOMAIN ColsQuery(layout) :
                                       ColsQuery(layout)[i] = ColsQuery(layout)[j] => i = j
  BY LayoutParts, ColsQueryTyped, ColwQueryTyped DEF ColumnsForms
<1>2. query \in PageQuery
  BY DEF ColumnsForms, Clean
<1>3. SyncedQuery(layout) \in PageQuery /\ SyncedQuery(layout).cols = ColsQuery(layout)
  BY <1>1, <1>2 DEF SyncedQuery, PageQuery
<1>. QED BY <1>1, <1>3 DEF Clean

(* What is applied of a view is a layout, and what goes to the URL is clean. *)
LEMMA AppliedTyped ==
    ASSUME NEW c \in Config, NEW v \in Views \cup {Nil}, NEW q, Clean(q), NEW why,
           ApplyViewConfig(c, v, q, why)
    PROVE  /\ layout' \in Layout /\ touched' \in SUBSET Parts /\ applying' \in BOOLEAN
           /\ going' # Nil => Clean(going')
<1>1. layout' \in Layout
  BY ConfigParts DEF ApplyViewConfig, LayoutOf, Layout
<1>2. touched' \in SUBSET Parts /\ applying' \in BOOLEAN
  BY DEF ApplyViewConfig, Silenced
<1>3. going' = Nil \/ going' = QueryOf(c, v, q)
  BY DEF ApplyViewConfig
<1>. QED BY <1>1, <1>2, <1>3, QueryOfClean

LEMMA CapturedTyped == ASSUME ColumnsForms PROVE CaptureViewConfig \in Config
<1>1. query.sift \in SomeSift /\ layout \in Layout
  BY DEF ColumnsForms, Clean, PageQuery
<1>. QED BY <1>1, LayoutParts DEF CaptureViewConfig, Config

LEMMA OwnWith ==
    ASSUME own \in OwnState
    PROVE  /\ \A v \in Views \cup {Nil} : [own EXCEPT !.last = v] \in OwnState
           /\ \A s \in SomeSift : [own EXCEPT !.sift = s] \in OwnState
           /\ \A parts \in OwnParts : [own EXCEPT !.parts = parts] \in OwnState
  BY DEF OwnState

(* The views that anybody may send a link to, and the lists.                 *)
LEMMA LinksClean == ASSUME NEW q \in Links PROVE Clean(q)
<1>1. Clean(BareQuery)
  BY DEF BareQuery, Clean, PageQuery, SomeSift
<1>2. ASSUME NEW v \in Views PROVE Clean([BareQuery EXCEPT !.view = v])
  BY DEF BareQuery, Clean, PageQuery, SomeSift
<1>3. ASSUME NEW c \in Cols PROVE Clean([BareQuery EXCEPT !.cols = <<c>>])
  <2>1. <<c>> \in [1..1 -> Cols] /\ DOMAIN <<c>> = 1..1 /\ \A i, j \in DOMAIN <<c>> : i = j
    OBVIOUS
  <2>2. 1 \in 1..Cardinality(Cols)
    <3>1. Cardinality(Cols) \in Nat /\ Cardinality(Cols) # 0
      BY ColumnsAssumption, FS_CardinalityType, FS_EmptySet
    <3>. QED BY <3>1
  <2>3. <<c>> \in Listing
    BY <2>1, <2>2 DEF Listing
  <2>. DEFINE one == <<c>>
  <2>. HIDE DEF one
  <2>4. [BareQuery EXCEPT !.cols = one] \in PageQuery /\ [BareQuery EXCEPT !.cols = one].cols = one
    BY <2>3 DEF BareQuery, PageQuery, SomeSift, one
  <2>. QED BY <2>1, <2>4 DEF Clean, one
<1>4. ASSUME NEW c \in Cols PROVE Clean([BareQuery EXCEPT !.colw = [Unsized EXCEPT ![c] = MaxWidth]])
  <2>1. [Unsized EXCEPT ![c] = MaxWidth] \in Sizing
    BY DEF Unsized, Sizing
  <2>. QED BY <2>1 DEF BareQuery, Clean, PageQuery, SomeSift
<1>. QED BY <1>1, <1>2, <1>3, <1>4 DEF Links

(* What a page that is opened draws.                                         *)
LEMMA RestoredTyped ==
    ASSUME ColumnsForms, NEW q, Clean(q) PROVE Restored(q) \in Layout
<1>. DEFINE base == [p \in Parts |-> IF own.parts[p] = Nil THEN DefaultLayout[p] ELSE own.parts[p]]
<1>1. own.parts \in OwnParts /\ DefaultLayout \in Layout
  BY DefaultTyped DEF ColumnsForms, OwnState
<1>2. base \in Layout
  <2>1. base = [order |-> IF own.parts.order = Nil THEN DefaultLayout.order ELSE own.parts.order,
                  shown |-> IF own.parts.shown = Nil THEN DefaultLayout.shown ELSE own.parts.shown,
                  width |-> IF own.parts.width = Nil THEN DefaultLayout.width ELSE own.parts.width]
    BY ThreeParts
  <2>. HIDE DEF base
  <2>2. DefaultLayout.order \in Order /\ DefaultLayout.shown \in SUBSET Cols /\ DefaultLayout.width \in Sizing
    BY <1>1, LayoutParts
  <2>. QED BY <1>1, <2>1, <2>2 DEF OwnParts, Layout
<1>3. Restored(q) = WithColw(WithCols(base, q.cols), q.colw)
  BY DEF Restored
<1>. HIDE DEF base
<1>. QED BY <1>2, <1>3, FromQueryTyped

LEMMA MountTyped ==
    ASSUME ColumnsForms, NEW q, Clean(q), Mount(q)
    PROVE  /\ Clean(query') /\ (going' # Nil => Clean(going'))
           /\ layout' \in Layout /\ touched' \in SUBSET Parts /\ applying' \in BOOLEAN
           /\ own' \in OwnState /\ views' \in [Views -> Config \cup {Nil}]
           /\ chosen' \in Views \cup {Nil}
<1>1. query' = q /\ UNCHANGED <<own, views>>
  BY DEF Mount
<1>2. \A v : Listed(v) /\ v \in Views \cup {Nil} => v \in Views /\ views[v] \in Config
  BY DEF Listed, ColumnsForms
<1>3. /\ q.view \in Views \cup {Nil} /\ own.last \in Views \cup {Nil}
      /\ own.sift \in SomeSift \cup {Never}
  BY DEF Clean, PageQuery, ColumnsForms, OwnState
<1>4. CASE Listed(q.view) /\ chosen' = q.view /\ ApplyViewConfig(views[q.view], q.view, q, "view")
  BY <1>1, <1>2, <1>3, <1>4, AppliedTyped DEF ColumnsForms
<1>5. CASE /\ Listed(own.last) /\ chosen' = own.last
           /\ LET saved == IF own.sift = Never THEN views[own.last].sift ELSE own.sift
              IN ApplyViewConfig([views[own.last] EXCEPT !.sift = saved], own.last, q, "view")
  <2>. DEFINE saved == IF own.sift = Never THEN views[own.last].sift ELSE own.sift
              c == [views[own.last] EXCEPT !.sift = saved]
  <2>1. views[own.last] \in Config
    BY <1>2, <1>3, <1>5
  <2>2. saved \in SomeSift
    BY <1>3, <2>1, ConfigParts
  <2>. HIDE DEF saved
  <2>3. c \in Config
    BY <2>1, <2>2 DEF Config
  <2>4. ApplyViewConfig(c, own.last, q, "view")
    BY <1>5 DEF saved
  <2>. HIDE DEF c
  <2>. QED BY <1>1, <1>3, <1>5, <2>3, <2>4, AppliedTyped DEF ColumnsForms
<1>6. CASE /\ chosen' = IF Listed(q.view) THEN q.view ELSE Nil
           /\ going' = IF q.view = Nil /\ ~UrlHasViewState(q) /\ own.sift \notin {Never, Nil}
                       THEN [q EXCEPT !.sift = own.sift] ELSE Nil
           /\ RestoreLayout(q)
  <2>1. layout' \in Layout /\ touched' \in SUBSET Parts /\ applying' \in BOOLEAN
    BY <1>6, RestoredTyped DEF RestoreLayout, Silenced
  <2>2. going' # Nil => Clean(going')
    <3>1. own.sift \in SomeSift => Clean([q EXCEPT !.sift = own.sift])
      BY DEF Clean, PageQuery
    <3>. QED BY <1>3, <1>6, <3>1
  <2>. QED BY <1>1, <1>3, <1>6, <2>1, <2>2 DEF ColumnsForms
<1>. QED BY <1>4, <1>5, <1>6 DEF Mount

(* Each step leaves the refs, the URL, the views and what is stored what     *)
(* they are.                                                                 *)
LEMMA ColumnsFormsStep ==
    ASSUME KeptInv, ColumnsForms, [ColumnsNext]_columnVars PROVE ColumnsForms'
<1>0. /\ ColumnsForms /\ own \in OwnState /\ layout \in Layout /\ Clean(query)
      /\ views \in [Views -> Config \cup {Nil}] /\ chosen \in Views \cup {Nil}
  BY DEF ColumnsForms
<1>a. Acts => acts' \in 0..MaxActs
  BY ColumnsBounds DEF Acts, ColumnsForms
<1>1. CASE UNCHANGED columnVars
  BY <1>0, <1>1 DEF columnVars, ColumnsForms
<1>2. ASSUME NEW v \in Views, SelectView(v) PROVE ColumnsForms'
  <2>1. /\ views[v] \in Config /\ ApplyViewConfig(views[v], v, query, "view")
        /\ own' = [own EXCEPT !.last = v] /\ chosen' = v /\ since' = "chosen"
        /\ UNCHANGED <<query, views, before>> /\ acts' \in 0..MaxActs
    BY <1>0, <1>a, <1>2 DEF SelectView
  <2>2. own' \in OwnState
    BY <1>0, <2>1, OwnWith
  <2>3. /\ layout' \in Layout /\ touched' \in SUBSET Parts /\ applying' \in BOOLEAN
        /\ going' # Nil => Clean(going')
    BY <1>0, <2>1, AppliedTyped
  <2>. QED BY <1>0, <2>1, <2>2, <2>3 DEF ColumnsForms
<1>3. CASE ClearView
  <2>. DEFINE c == [order |-> DefaultLayout.order, shown |-> DefaultLayout.shown,
                    width |-> Unsized, sift |-> Nil]
  <2>1. /\ ApplyViewConfig(c, Nil, query, "clear")
        /\ own' = [own EXCEPT !.last = Nil] /\ chosen' = Nil /\ since' = "else"
        /\ UNCHANGED <<query, views, before>> /\ acts' \in 0..MaxActs
    BY <1>a, <1>3 DEF ClearView
  <2>2. c \in Config
    BY DefaultTyped, LayoutParts DEF Config, SomeSift
  <2>3. own' \in OwnState
    BY <1>0, <2>1, OwnWith
  <2>. HIDE DEF c
  <2>4. /\ layout' \in Layout /\ touched' \in SUBSET Parts /\ applying' \in BOOLEAN
        /\ going' # Nil => Clean(going')
    BY <1>0, <2>1, <2>2, AppliedTyped
  <2>. QED BY <1>0, <2>1, <2>3, <2>4 DEF ColumnsForms
<1>4. CASE SaveCurrentView
  <2>1. /\ chosen \in Views /\ views' = [views EXCEPT ![chosen] = CaptureViewConfig]
        /\ since' = "else" /\ acts' \in 0..MaxActs
        /\ UNCHANGED <<query, going, layout, touched, applying, own, chosen, before>>
    BY <1>0, <1>a, <1>4 DEF SaveCurrentView
  <2>2. views' \in [Views -> Config \cup {Nil}]
    BY <1>0, <2>1, CapturedTyped
  <2>. QED BY <1>0, <2>1, <2>2 DEF ColumnsForms
<1>5. ASSUME NEW v \in Views, CreateView(v) PROVE ColumnsForms'
  <2>1. /\ views' = [views EXCEPT ![v] = CaptureViewConfig] /\ chosen' = v
        /\ own' = [own EXCEPT !.last = v] /\ since' = "else" /\ acts' \in 0..MaxActs
        /\ UNCHANGED <<query, going, layout, touched, applying, before>>
    BY <1>a, <1>5 DEF CreateView
  <2>2. views' \in [Views -> Config \cup {Nil}] /\ own' \in OwnState
    BY <1>0, <2>1, CapturedTyped, OwnWith
  <2>. QED BY <1>0, <2>1, <2>2 DEF ColumnsForms
<1>6. ASSUME NEW v \in Views, NEW copy \in Views, DuplicateView(v, copy) PROVE ColumnsForms'
  <2>1. /\ views[v] \in Config /\ views' = [views EXCEPT ![copy] = views[v]]
        /\ ApplyViewConfig(views[v], copy, query, "view")
        /\ own' = [own EXCEPT !.last = copy] /\ chosen' = copy /\ since' = "chosen"
        /\ UNCHANGED <<query, before>> /\ acts' \in 0..MaxActs
    BY <1>0, <1>a, <1>6 DEF DuplicateView
  <2>2. views' \in [Views -> Config \cup {Nil}] /\ own' \in OwnState
    BY <1>0, <2>1, OwnWith
  <2>3. /\ layout' \in Layout /\ touched' \in SUBSET Parts /\ applying' \in BOOLEAN
        /\ going' # Nil => Clean(going')
    BY <1>0, <2>1, AppliedTyped
  <2>. QED BY <1>0, <2>1, <2>2, <2>3 DEF ColumnsForms
<1>7. ASSUME NEW v \in Views, DeleteView(v) PROVE ColumnsForms'
  <2>1. /\ views' = [views EXCEPT ![v] = Nil] /\ acts' \in 0..MaxActs
        /\ (chosen' = Nil /\ own' = [own EXCEPT !.last = Nil]) \/ UNCHANGED <<chosen, own>>
        /\ since' \in {"else", since}
        /\ UNCHANGED <<query, going, layout, touched, applying, before>>
    BY <1>a, <1>7 DEF DeleteView
  <2>2. views' \in [Views -> Config \cup {Nil}] /\ own' \in OwnState /\ chosen' \in Views \cup {Nil}
    BY <1>0, <2>1, OwnWith
  <2>. QED BY <1>0, <2>1, <2>2 DEF ColumnsForms
<1>8. ASSUME NEW part \in Parts, NEW value, Arrange(part, value),
             [layout EXCEPT ![part] = value] \in Layout
      PROVE  ColumnsForms'
  <2>1. /\ layout' \in Layout /\ touched' = {part} /\ since' = "else" /\ acts' \in 0..MaxActs
        /\ UNCHANGED <<query, going, applying, own, views, chosen, before>>
    BY <1>a, <1>8 DEF Arrange
  <2>. QED BY <1>0, <1>8, <2>1 DEF ColumnsForms
<1>9. ASSUME NEW c \in Cols, ToggleColumn(c) PROVE ColumnsForms'
  <2>. DEFINE value == IF c \in layout.shown THEN layout.shown \ {c} ELSE layout.shown \cup {c}
  <2>1. Arrange("shown", value) /\ "shown" \in Parts
    BY <1>9, ThreeParts DEF ToggleColumn
  <2>2. value \in SUBSET Cols
    BY <1>0, LayoutParts
  <2>. HIDE DEF value
  <2>3. [layout EXCEPT !["shown"] = value] \in Layout
    BY <1>0, <2>2 DEF Layout
  <2>. QED BY <1>8, <2>1, <2>3
<1>10. ASSUME NEW c \in Cols, NEW w \in Widths, ResizeColumn(c, w) PROVE ColumnsForms'
  <2>. DEFINE value == [layout.width EXCEPT ![c] = w]
  <2>1. Arrange("width", value) /\ "width" \in Parts
    BY <1>10, ThreeParts DEF ResizeColumn
  <2>2. value \in Sizing
    BY <1>0, LayoutParts DEF Sizing
  <2>. HIDE DEF value
  <2>3. [layout EXCEPT !["width"] = value] \in Layout
    BY <1>0, <2>2 DEF Layout
  <2>. QED BY <1>8, <2>1, <2>3
<1>11. ASSUME NEW i \in 1..Len(DefaultColumnOrder), NEW j \in 1..Len(DefaultColumnOrder), MoveColumn(i, j)
       PROVE  ColumnsForms'
  <2>. DEFINE o == layout.order
              value == InsertAt(RemoveAt(o, i), j, o[i])
  <2>1. Arrange("order", value) /\ "order" \in Parts
    BY <1>11, ThreeParts DEF MoveColumn
  <2>2. o \in Seq(Cols) /\ Len(o) = Len(DefaultColumnOrder) /\ ToSet(o) = Cols
    BY <1>0, LayoutParts, OrderIs
  <2>3. value \in Seq(Cols) /\ Len(value) = Len(o) /\ ToSet(value) = ToSet(o)
    <3>. HIDE DEF o
    <3>. QED BY <2>2, MovedHasTheSame
  <2>. HIDE DEF value
  <2>4. value \in Order
    BY <2>2, <2>3, OrderIs
  <2>5. [layout EXCEPT !["order"] = value] \in Layout
    BY <1>0, <2>4 DEF Layout
  <2>. QED BY <1>8, <2>1, <2>5
<1>12. ASSUME NEW s \in SomeSift, SetSift(s) PROVE ColumnsForms'
  <2>1. /\ going' = [query EXCEPT !.sift = s] /\ since' = "else" /\ acts' \in 0..MaxActs
        /\ UNCHANGED <<query, layout, touched, applying, own, views, chosen, before>>
    BY <1>a, <1>12 DEF SetSift
  <2>2. Clean(going')
    BY <1>0, <2>1 DEF Clean, PageQuery
  <2>. QED BY <1>0, <2>1, <2>2 DEF ColumnsForms
<1>13. CASE TogglePanel
  <2>1. /\ before' = query /\ going' = [query EXCEPT !.panel = ~@] /\ acts' \in 0..MaxActs
        /\ UNCHANGED <<query, layout, touched, applying, own, views, chosen, since>>
    BY <1>a, <1>13 DEF TogglePanel
  <2>2. Clean(going')
    BY <1>0, <2>1 DEF Clean, PageQuery
  <2>. QED BY <1>0, <2>1, <2>2 DEF ColumnsForms
<1>14. CASE GoBack
  <2>1. /\ before # Nil /\ before' = Nil /\ going' \in {Nil, before} /\ since' = "else"
        /\ acts' \in 0..MaxActs
        /\ UNCHANGED <<query, layout, touched, applying, own, views, chosen>>
    BY <1>a, <1>14 DEF GoBack, To
  <2>. QED BY <1>0, <2>1 DEF ColumnsForms
<1>15. CASE Flush
  <2>1. /\ touched' = {} /\ applying' = FALSE /\ going' \in {going, SyncedQuery(layout)}
        /\ UNCHANGED <<query, layout, views, chosen, before, since, acts>>
    BY <1>15 DEF Flush
  <2>2. own' \in OwnState
    <3>. DEFINE parts == [p \in Parts |-> IF p \in touched THEN layout[p] ELSE own.parts[p]]
    <3>1. own' = own \/ own' = [own EXCEPT !.parts = parts]
      BY <1>15 DEF Flush
    <3>2. parts \in OwnParts
      <4>1. parts = [order |-> IF "order" \in touched THEN layout.order ELSE own.parts.order,
                     shown |-> IF "shown" \in touched THEN layout.shown ELSE own.parts.shown,
                     width |-> IF "width" \in touched THEN layout.width ELSE own.parts.width]
        BY ThreeParts
      <4>2. own.parts \in OwnParts
        BY <1>0 DEF OwnState
      <4>. HIDE DEF parts
      <4>. QED BY <1>0, <4>1, <4>2, LayoutParts DEF OwnParts
    <3>. HIDE DEF parts
    <3>. QED BY <1>0, <3>1, <3>2, OwnWith
  <2>3. going' # Nil => Clean(going')
    BY <1>0, <2>1, SyncedClean DEF ColumnsForms
  <2>. QED BY <1>0, <2>1, <2>2, <2>3 DEF ColumnsForms
<1>16. CASE Navigated
  <2>1. /\ Clean(going) /\ query' = going /\ going' = Nil
        /\ own' = own \/ own' = [own EXCEPT !.sift = going.sift]
        /\ UNCHANGED <<views, chosen, before, since, acts>>
    BY <1>0, <1>16 DEF Navigated, ColumnsForms
  <2>2. own' \in OwnState
    <3>1. going.sift \in SomeSift
      BY <2>1 DEF Clean, PageQuery
    <3>. QED BY <1>0, <2>1, <3>1, OwnWith
  <2>3. layout' \in Layout /\ touched' \in SUBSET Parts /\ applying' \in BOOLEAN
    <3>. DEFINE next == FromQuery(layout, going)
    <3>1. next \in Layout
      BY <1>0, <2>1, FromQueryTyped DEF FromQuery
    <3>2. \/ UNCHANGED <<layout, touched, applying>>
          \/ /\ layout' = next /\ touched' = {p \in Parts : next[p] # layout[p]}
             /\ applying' = Silenced("url")
      BY <1>16 DEF Navigated
    <3>. HIDE DEF next
    <3>. QED BY <1>0, <3>1, <3>2 DEF ColumnsForms, Silenced
  <2>. QED BY <1>0, <2>1, <2>2, <2>3 DEF ColumnsForms
<1>17. ASSUME NEW q, Clean(q), Mount(q), before' \in {before, Nil},
              since' \in {"else", "chosen", "reloaded"}
       PROVE  ColumnsForms'
  <2>1. acts' \in 0..MaxActs
    BY <1>a, <1>17 DEF Mount
  <2>2. /\ Clean(query') /\ (going' # Nil => Clean(going'))
        /\ layout' \in Layout /\ touched' \in SUBSET Parts /\ applying' \in BOOLEAN
        /\ own' \in OwnState /\ views' \in [Views -> Config \cup {Nil}]
        /\ chosen' \in Views \cup {Nil}
    BY <1>0, <1>17, MountTyped
  <2>3. before' # Nil => Clean(before')
    BY <1>0, <1>17 DEF ColumnsForms
  <2>. QED BY <1>17, <2>1, <2>2, <2>3 DEF ColumnsForms
<1>18. CASE Reload
  <2>1. Mount(query) /\ before' = before /\ since' \in {"else", "reloaded"}
    BY <1>18 DEF Reload
  <2>. QED BY <1>0, <1>17, <2>1
<1>19. ASSUME NEW q \in Links, OpenLink(q) PROVE ColumnsForms'
  <2>1. Mount(q) /\ before' = Nil /\ since' \in {"else", "chosen"}
    BY <1>19 DEF OpenLink
  <2>. QED BY <1>17, <2>1, LinksClean
<1>. QED
  BY <1>1, <1>2, <1>3, <1>4, <1>5, <1>6, <1>7, <1>9, <1>10, <1>11, <1>12, <1>13, <1>14, <1>15,
     <1>16, <1>18, <1>19
  DEF ColumnsNext

(* The columns of the page, the URL, the views and what localStorage keeps   *)
(* are what the page takes them for: every layout has each column once, and  *)
(* every link names a column at most once, whatever is applied, dragged,     *)
(* saved and reloaded.                                                       *)
THEOREM ColumnsTypeCorrect == ColumnsSpec => []ColumnsTypeOK
<1>1. ColumnsInit => KeptInv /\ ColumnsForms
  <2>. SUFFICES ASSUME ColumnsInit PROVE KeptInv /\ ColumnsForms
    OBVIOUS
  <2>1. KeptInv
    BY ThreeParts DEF ColumnsInit, KeptInv, Nothing, DefaultLayout
  <2>2. own \in OwnState
    BY DEF ColumnsInit, OwnState, OwnParts, Nothing
  <2>3. Clean(query)
    <3>1. Clean(BareQuery)
      BY DEF BareQuery, Clean, PageQuery, SomeSift
    <3>. QED BY <3>1 DEF ColumnsInit
  <2>4. views \in [Views -> Config \cup {Nil}] /\ layout \in Layout
    BY ColumnsAssumption, DefaultTyped DEF ColumnsInit
  <2>5. ColumnsForms
    <3>1. going = Nil /\ before = Nil /\ touched = {} /\ applying = FALSE /\ chosen = Nil
          /\ since = "else" /\ acts = 0
      BY DEF ColumnsInit
    <3>2. acts \in 0..MaxActs
      BY <3>1, ColumnsBounds
    <3>. QED BY <2>2, <2>3, <2>4, <3>1, <3>2 DEF ColumnsForms
  <2>. QED BY <2>1, <2>5
<1>2. KeptInv /\ ColumnsForms /\ [ColumnsNext]_columnVars => KeptInv' /\ ColumnsForms'
  BY KeptStep, ColumnsFormsStep
<1>3. ColumnsForms => ColumnsTypeOK
  BY DEF ColumnsForms, Clean, OwnState, OwnParts, ColumnsTypeOK
<1>. QED BY <1>1, <1>2, <1>3, PTL DEF ColumnsSpec

---------------------------------------------------------------------------
(* TaskFilters: chips, URL and memory *)

Sound(c) == \A f \in Facets : c.inc[f] \cap c.exc[f] = {}
Values == UNION {Options[f] : f \in Facets}

FilterForms ==
    /\ url \in Query /\ pending \in Going \cup {Unset}
    /\ ui \in Choice /\ applied \in Choice /\ span \in Span
    /\ frame \in BOOLEAN /\ onPage \in BOOLEAN /\ slow \in BOOLEAN
    /\ memory \in Snapshot \cup {Unset} /\ earlier \in Query \cup {Unset}

(* Whatever may come back, a navigation under way, the history entry and what *)
(* is remembered, excludes nothing that it includes.                          *)
SoundInv ==
    /\ FilterForms
    /\ Sound(ui) /\ Sound(url.choice)
    /\ pending # Unset => Sound(pending.to.choice)
    /\ earlier # Unset => Sound(earlier.choice)
    /\ memory # Unset => Sound(memory.choice)

(* What the page shows when nothing is under way; only with a slow guard may *)
(* a range be drawn that no navigation brings to the URL.                    *)
DrawnInv ==
    /\ ~frame => applied = ui
    /\ ~onPage => ~frame /\ pending = Unset
    /\ onPage /\ ~slow /\ pending = Unset => span = url.span
    /\ onPage /\ ~slow /\ pending = Unset /\ ~frame => ui = url.choice

LEMMA NoChoiceSound == NoChoice \in Choice /\ Sound(NoChoice)
  BY DEF NoChoice, Choice, Sound

LEMMA BareQueries == Bare \in Query /\ Bare.choice = NoChoice
  BY NoChoiceSound DEF Bare, Query, Span

(* One click on a value keeps included and excluded apart.                   *)
LEMMA CycledSound ==
    ASSUME NEW f \in Facets, NEW v \in Values, NEW c \in Choice, Sound(c)
    PROVE  Cycled(f, v, c) \in Choice /\ Sound(Cycled(f, v, c))
<1>. DEFINE d == Cycled(f, v, c)
<1>0. c.inc \in [Facets -> SUBSET Values] /\ c.exc \in [Facets -> SUBSET Values]
  BY DEF Choice, Values
<1>1. CASE v \in c.inc[f] /\ f \in TriState
  <2>1. d = [inc |-> [c.inc EXCEPT ![f] = @ \ {v}], exc |-> [c.exc EXCEPT ![f] = @ \cup {v}]]
    BY <1>1 DEF Cycled, Sound
  <2>. HIDE DEF d
  <2>2. d.inc \in [Facets -> SUBSET Values] /\ d.exc \in [Facets -> SUBSET Values]
    BY <1>0, <2>1
  <2>3. Sound(d)
    BY <1>0, <2>1 DEF Sound
  <2>. QED BY <2>1, <2>2, <2>3 DEF Choice, Values, d
<1>2. CASE v \in c.inc[f] /\ f \notin TriState
  <2>1. d = [c EXCEPT !.inc[f] = @ \ {v}]
    BY <1>2 DEF Cycled, Sound
  <2>. HIDE DEF d
  <2>2. d = [inc |-> [c.inc EXCEPT ![f] = @ \ {v}], exc |-> c.exc]
    BY <2>1 DEF Choice
  <2>3. d.inc \in [Facets -> SUBSET Values] /\ d.exc \in [Facets -> SUBSET Values]
    BY <1>0, <2>2
  <2>4. Sound(d)
    BY <1>0, <2>2 DEF Sound
  <2>. QED BY <2>2, <2>3, <2>4 DEF Choice, Values, d
<1>3. CASE v \notin c.inc[f] /\ v \in c.exc[f]
  <2>1. d = [c EXCEPT !.exc[f] = @ \ {v}]
    BY <1>3 DEF Cycled
  <2>. HIDE DEF d
  <2>2. d = [inc |-> c.inc, exc |-> [c.exc EXCEPT ![f] = @ \ {v}]]
    BY <2>1 DEF Choice
  <2>3. d.inc \in [Facets -> SUBSET Values] /\ d.exc \in [Facets -> SUBSET Values]
    BY <1>0, <2>2
  <2>4. Sound(d)
    BY <1>0, <2>2 DEF Sound
  <2>. QED BY <2>2, <2>3, <2>4 DEF Choice, Values, d
<1>4. CASE v \notin c.inc[f] /\ v \notin c.exc[f]
  <2>1. d = [c EXCEPT !.inc[f] = @ \cup {v}]
    BY <1>4 DEF Cycled
  <2>. HIDE DEF d
  <2>2. d = [inc |-> [c.inc EXCEPT ![f] = @ \cup {v}], exc |-> c.exc]
    BY <2>1 DEF Choice
  <2>3. d.inc \in [Facets -> SUBSET Values] /\ d.exc \in [Facets -> SUBSET Values]
    BY <1>0, <2>2
  <2>4. Sound(d)
    BY <1>0, <1>4, <2>2 DEF Sound
  <2>. QED BY <2>2, <2>3, <2>4 DEF Choice, Values, d
<1>. QED BY <1>1, <1>2, <1>3, <1>4

(* Links carry one choice.                                                   *)
LEMMA LinkSound ==
    ASSUME NEW f \in Facets, NEW v \in Options[f]
    PROVE  Link(f, v) \in Query /\ Sound(Link(f, v).choice)
<1>1. v \in Values
  BY DEF Values
<1>2. Cycled(f, v, NoChoice) \in Choice /\ Sound(Cycled(f, v, NoChoice))
  BY <1>1, NoChoiceSound, CycledSound
<1>. QED
  BY <1>2, BareQueries DEF Link, Query

(* A navigation to a sound query is a sound navigation.                      *)
LEMMA ReplaceSound ==
    ASSUME NEW q \in Query, Sound(q.choice), Replace(q)
    PROVE  pending' \in Going \cup {Unset} /\ (pending' # Unset => Sound(pending'.to.choice))
  BY DEF Replace, Going

LEMMA SoundStep == SoundInv /\ [FiltersNext]_filterVars => SoundInv'
<1>. SUFFICES ASSUME SoundInv, [FiltersNext]_filterVars PROVE SoundInv'
  OBVIOUS
<1>. USE DEF SoundInv, FilterForms
<1>1. CASE UNCHANGED filterVars
  BY <1>1 DEF filterVars, Sound
<1>2. ASSUME NEW f \in Facets, RemoveFilter(f) PROVE SoundInv'
  <2>1. ui' = [inc |-> [ui.inc EXCEPT ![f] = {}], exc |-> [ui.exc EXCEPT ![f] = {}]]
    BY <1>2 DEF RemoveFilter
  <2>2. ui'.inc \in [Facets -> SUBSET Values] /\ ui'.exc \in [Facets -> SUBSET Values]
    BY <2>1 DEF Choice, Values
  <2>3. ui' \in Choice
    BY <2>1, <2>2 DEF Choice, Values
  <2>4. Sound(ui')
    BY <2>1 DEF Choice, Sound
  <2>. QED BY <1>2, <2>3, <2>4 DEF RemoveFilter, Picked, Sound
<1>3. ASSUME NEW f \in Facets, NEW v \in Options[f], Cycle(f, v) PROVE SoundInv'
  <2>1. v \in Values
    BY DEF Values
  <2>2. ui' \in Choice /\ Sound(ui')
    BY <1>3, <2>1, CycledSound DEF Cycle
  <2>. QED BY <1>3, <2>2 DEF Cycle, Picked, Sound
<1>4. ASSUME NEW s \in Span, PickSpan(s) PROVE SoundInv'
  <2>1. [url EXCEPT !.span = s] \in Query /\ [url EXCEPT !.span = s].choice = url.choice
    BY DEF Query
  <2>2. pending' \in Going \cup {Unset} /\ (pending' # Unset => Sound(pending'.to.choice))
    BY <1>4, <2>1, ReplaceSound DEF PickSpan
  <2>. QED BY <1>4, <2>2 DEF PickSpan, Picked, Sound
<1>5. CASE ShowCompleted
  <2>1. [url EXCEPT !.all = ~@] \in Query /\ [url EXCEPT !.all = ~@].choice = url.choice
    BY DEF Query
  <2>2. pending' \in Going \cup {Unset} /\ (pending' # Unset => Sound(pending'.to.choice))
    BY <1>5, <2>1, ReplaceSound DEF ShowCompleted
  <2>. QED BY <1>5, <2>2 DEF ShowCompleted, Picked, Sound
<1>6. CASE ResetFilters
  <2>1. [Bare EXCEPT !.card = url.card] \in Query
        /\ [Bare EXCEPT !.card = url.card].choice = NoChoice
    BY BareQueries DEF Query
  <2>2. pending' \in Going \cup {Unset} /\ (pending' # Unset => Sound(pending'.to.choice))
    BY <1>6, <2>1, NoChoiceSound, ReplaceSound DEF ResetFilters
  <2>. QED BY <1>6, <2>2, NoChoiceSound DEF ResetFilters, Picked, Sound
<1>7. CASE ToggleCard
  <2>1. [url EXCEPT !.card = ~@] \in Query /\ [url EXCEPT !.card = ~@].choice = url.choice
    BY DEF Query
  <2>2. pending' \in Going \cup {Unset} /\ (pending' # Unset => Sound(pending'.to.choice))
    BY <1>7, <2>1 DEF ToggleCard, Going
  <2>. QED BY <1>7, <2>2 DEF ToggleCard, Picked, Sound
<1>8. CASE Back
  <2>1. pending' \in Going \cup {Unset} /\ (pending' # Unset => Sound(pending'.to.choice))
    BY <1>8 DEF Back, Going
  <2>. QED BY <1>8, <2>1 DEF Back, Picked, Sound
<1>9. CASE Frame
  <2>1. [url EXCEPT !.choice = ui] \in Query /\ [url EXCEPT !.choice = ui].choice = ui
    BY DEF Query
  <2>2. pending' \in Going \cup {Unset} /\ (pending' # Unset => Sound(pending'.to.choice))
    BY <1>9, <2>1, ReplaceSound DEF Frame, Synced
  <2>. QED BY <1>9, <2>2 DEF Frame, Sound
<1>10. CASE Commit
  <2>. DEFINE q == pending.to
  <2>1. q \in Query /\ pending.push \in BOOLEAN /\ Sound(q.choice)
    BY <1>10 DEF Commit, Going
  <2>2. url' = q /\ ui' = q.choice /\ span' = q.span
        /\ memory' = [choice |-> q.choice, span |-> q.span, all |-> q.all]
        /\ pending' = Unset
    BY <1>10 DEF Commit, SnapshotOf
  <2>3. applied' \in Choice
    <3>1. q.choice \in Choice
      BY <2>1 DEF Query
    <3>2. Followed("inc", q.choice, applied) \in [Facets -> SUBSET Values]
      BY <3>1 DEF Followed, Choice, Values
    <3>3. Followed("exc", q.choice, applied) \in [Facets -> SUBSET Values]
      BY <3>1 DEF Followed, Choice, Values
    <3>. QED BY <1>10, <3>2, <3>3 DEF Commit, Choice, Values
  <2>4. memory' \in Snapshot /\ Sound(memory'.choice)
    BY <2>1, <2>2 DEF Snapshot, Query
  <2>5. earlier' \in Query \cup {Unset} /\ (earlier' # Unset => Sound(earlier'.choice))
    BY <1>10 DEF Commit
  <2>6. frame' \in BOOLEAN /\ UNCHANGED <<onPage, slow>>
    BY <1>10 DEF Commit
  <2>7. url' \in Query /\ ui' \in Choice /\ span' \in Span /\ Sound(ui') /\ Sound(url'.choice)
    BY <2>1, <2>2 DEF Query
  <2>. QED BY <2>2, <2>3, <2>4, <2>5, <2>6, <2>7 DEF Sound
<1>11. CASE Leave
  BY <1>11 DEF Leave, Sound
<1>12. ASSUME NEW q \in Query, Sound(q.choice), Visit(q) PROVE SoundInv'
  <2>1. url' = q /\ ui' = q.choice /\ applied' = q.choice /\ span' = q.span
        /\ onPage' = TRUE /\ UNCHANGED <<frame, memory, earlier, slow>>
    BY <1>12 DEF Visit
  <2>2. q.choice \in Choice /\ q.span \in Span
    BY DEF Query
  <2>3. pending' \in Going \cup {Unset} /\ (pending' # Unset => Sound(pending'.to.choice))
    <3>1. CASE pending' = Unset
      BY <3>1
    <3>2. CASE /\ memory # Unset
               /\ pending' = [to |-> [choice |-> memory.choice, span |-> memory.span,
                                      all |-> memory.all, card |-> q.card], push |-> FALSE]
      BY <3>2 DEF Snapshot, Query, Going
    <3>. QED BY <1>12, <3>1, <3>2 DEF Visit
  <2>. QED BY <1>12, <2>1, <2>2, <2>3 DEF Sound
<1>13. CASE Visit(Bare)
  BY <1>12, <1>13, BareQueries, NoChoiceSound
<1>14. ASSUME NEW f \in Facets, NEW v \in Options[f], Visit(Link(f, v)) PROVE SoundInv'
  BY <1>12, <1>14, LinkSound
<1>. QED
  BY <1>1, <1>2, <1>3, <1>4, <1>5, <1>6, <1>7, <1>8, <1>9, <1>10, <1>11, <1>13, <1>14
     DEF FiltersNext

LEMMA SoundInit == FiltersInit => SoundInv
<1>. SUFFICES ASSUME NEW late \in BOOLEAN, FiltersFrom(late) PROVE SoundInv
  BY DEF FiltersInit
<1>. QED
  BY BareQueries, NoChoiceSound DEF FiltersFrom, SoundInv, FilterForms, Span

(* useTaskFilters.ts: no value is included and excluded at once, in the chips, *)
(* the URL or what is remembered, whatever navigation is cancelled.            *)
THEOREM NeverBothAlways == FiltersSpec => []NeverBoth
<1>1. SoundInv => NeverBoth
  BY DEF SoundInv, NeverBoth, Sound
<1>. QED
  BY <1>1, SoundInit, SoundStep, PTL DEF FiltersSpec

(* A navigation under way is not none.                                       *)
LEMMA NavigationIsSet ==
    ASSUME NEW q \in Query, NEW push \in BOOLEAN
    PROVE  [to |-> q, push |-> push] # Unset
<1>1. [to |-> q, push |-> push] \in Going
  BY DEF Going
<1>. QED
  BY <1>1, FiltersAssumption

(* A navigation is none only to where one is.                                *)
LEMMA ReplaceMoves ==
    ASSUME NEW q \in Query, Replace(q), pending' = Unset
    PROVE  q = url
<1>1. [to |-> q, push |-> FALSE] # Unset
  BY NavigationIsSet
<1>. QED
  BY <1>1 DEF Replace

LEMMA DrawnStep == SoundInv /\ DrawnInv /\ [FiltersNext]_filterVars => DrawnInv'
<1>. SUFFICES ASSUME SoundInv, DrawnInv, [FiltersNext]_filterVars PROVE DrawnInv'
  OBVIOUS
<1>. USE DEF DrawnInv
<1>0. /\ url \in Query /\ ui \in Choice /\ applied \in Choice /\ pending \in Going \cup {Unset}
      /\ slow \in BOOLEAN /\ frame \in BOOLEAN /\ span \in Span
  BY DEF SoundInv, FilterForms
<1>1. CASE UNCHANGED filterVars
  BY <1>1 DEF filterVars
<1>2. ASSUME NEW f \in Facets, RemoveFilter(f) PROVE DrawnInv'
  BY <1>2 DEF RemoveFilter, Picked
<1>3. ASSUME NEW f \in Facets, NEW v \in Options[f], Cycle(f, v) PROVE DrawnInv'
  BY <1>3 DEF Cycle, Picked
<1>4. ASSUME NEW s \in Span, PickSpan(s) PROVE DrawnInv'
  <2>. DEFINE q == [url EXCEPT !.span = s]
  <2>1. q \in Query /\ q.span = s
    BY <1>0 DEF Query
  <2>2. UNCHANGED <<url, ui, applied, frame, onPage, slow>> /\ span' = s
        /\ (slow \/ pending = Unset) /\ onPage
    BY <1>4 DEF PickSpan, Picked, GuardedAtOnce
  <2>3. CASE s = url.span
    BY <1>4, <2>2, <2>3 DEF PickSpan
  <2>4. CASE s # url.span
    <3>1. pending' # Unset
      BY <1>4, <2>1, <2>4, ReplaceMoves DEF PickSpan
    <3>. QED BY <2>2, <3>1
  <2>. QED BY <2>3, <2>4
<1>5. CASE ShowCompleted
  <2>. DEFINE q == [url EXCEPT !.all = ~@]
  <2>1. q \in Query /\ q.all # url.all
    BY <1>0 DEF Query
  <2>2. pending' # Unset
    BY <1>5, <2>1, ReplaceMoves DEF ShowCompleted
  <2>. QED BY <1>5, <2>2 DEF ShowCompleted, Picked
<1>6. CASE ResetFilters
  <2>1. /\ UNCHANGED <<url, span, onPage, slow>> /\ ui' = NoChoice /\ frame' = TRUE
        /\ (slow \/ pending = Unset) /\ onPage
    BY <1>6 DEF ResetFilters, Picked, GuardedAtOnce
  <2>. QED BY <2>1
<1>7. CASE ToggleCard
  <2>1. [url EXCEPT !.card = ~@] \in Query
    BY <1>0 DEF Query
  <2>2. pending' # Unset
    BY <1>7, <2>1, NavigationIsSet DEF ToggleCard
  <2>. QED BY <1>7, <2>2 DEF ToggleCard, Picked
<1>8. CASE Back
  <2>1. earlier \in Query
    BY <1>8 DEF Back, SoundInv, FilterForms
  <2>2. pending' # Unset
    BY <1>8, <2>1, NavigationIsSet DEF Back
  <2>. QED BY <1>8, <2>2 DEF Back, Picked
<1>9. CASE Frame
  <2>1. /\ UNCHANGED <<url, ui, span, onPage, slow>> /\ applied' = ui /\ frame' = FALSE
        /\ (slow \/ pending = Unset) /\ onPage
    BY <1>9 DEF Frame, GuardedAtOnce
  <2>2. CASE ui = url.choice
    BY <1>9, <2>1, <2>2 DEF Frame
  <2>3. CASE ui # url.choice
    <3>1. [url EXCEPT !.choice = ui] \in Query /\ [url EXCEPT !.choice = ui].choice = ui
      BY <1>0 DEF Query
    <3>2. pending' # Unset
      BY <1>9, <2>3, <3>1, ReplaceMoves DEF Frame, Synced
    <3>. QED BY <2>1, <3>2
  <2>. QED BY <2>2, <2>3
<1>10. CASE Commit
  <2>. DEFINE q == pending.to
  <2>1. url' = q /\ ui' = q.choice /\ span' = q.span /\ pending' = Unset
        /\ frame' = (frame \/ q.choice # ui) /\ UNCHANGED <<onPage, slow>>
        /\ applied' = [inc |-> Followed("inc", q.choice, applied),
                       exc |-> Followed("exc", q.choice, applied)]
    BY <1>10 DEF Commit
  <2>2. ASSUME ~frame' PROVE applied' = ui'
    <3>1. q.choice = ui /\ applied = ui
      BY <2>1, <2>2, <1>0
    <3>2. ui.inc = [f \in Facets |-> ui.inc[f]] /\ ui.exc = [f \in Facets |-> ui.exc[f]]
      BY <1>0 DEF Choice
    <3>3. Followed("inc", ui, ui) = ui.inc /\ Followed("exc", ui, ui) = ui.exc
      BY <3>2 DEF Followed
    <3>4. ui = [inc |-> ui.inc, exc |-> ui.exc]
      BY <1>0 DEF Choice
    <3>. QED BY <2>1, <3>1, <3>3, <3>4
  <2>3. onPage
    BY <1>10 DEF Commit
  <2>. QED BY <2>1, <2>2, <2>3
<1>11. CASE Leave
  BY <1>11 DEF Leave
<1>12. ASSUME NEW q, Visit(q) PROVE DrawnInv'
  BY <1>12 DEF Visit
<1>. QED
  BY <1>1, <1>2, <1>3, <1>4, <1>5, <1>6, <1>7, <1>8, <1>9, <1>10, <1>11, <1>12 DEF FiltersNext

(* useTaskFilters.ts: at rest, and unless the guard is slow, who is sent the  *)
(* link sees the same tasks.                                                 *)
THEOREM LinkShowsTheSameAlways == FiltersSpec => []LinkShowsTheSame
<1>1. FiltersInit => DrawnInv
  BY DEF FiltersInit, FiltersFrom, DrawnInv
<1>2. DrawnInv => LinkShowsTheSame
  BY DEF DrawnInv, LinkShowsTheSame, AtRest, Shown
<1>. QED
  BY <1>1, <1>2, SoundInit, SoundStep, DrawnStep, PTL DEF FiltersSpec

LEMMA PicksBounds == MaxPicks \in Nat
  BY FiltersAssumption

(* The clicks are counted up to the bound.                                   *)
LEMMA PicksStep == picks \in 0..MaxPicks /\ [FiltersNext]_filterVars => (picks \in 0..MaxPicks)'
<1>. SUFFICES ASSUME picks \in 0..MaxPicks, [FiltersNext]_filterVars PROVE picks' \in 0..MaxPicks
  OBVIOUS
<1>1. picks' = picks \/ Picked
  BY DEF FiltersNext, filterVars, RemoveFilter, Cycle, PickSpan, ShowCompleted, ResetFilters,
         ToggleCard, Back, Frame, Commit, Leave, Visit
<1>2. picks' = picks \/ (picks < MaxPicks /\ picks' = picks + 1)
  BY <1>1 DEF Picked
<1>. QED BY <1>2, PicksBounds

(* The filters of the page, the URL, the history entry and what is           *)
(* remembered are what useTaskFilters and useTaskFilterMemory take them for, *)
(* whatever is cancelled.                                                    *)
THEOREM FiltersTypeCorrect == FiltersSpec => []FiltersTypeOK
<1>1. FiltersInit => picks \in 0..MaxPicks
  BY PicksBounds DEF FiltersInit, FiltersFrom
<1>2. SoundInv /\ picks \in 0..MaxPicks => FiltersTypeOK
  BY DEF SoundInv, FilterForms, FiltersTypeOK
<1>. QED BY <1>1, <1>2, SoundInit, SoundStep, PicksStep, PTL DEF FiltersSpec

---------------------------------------------------------------------------
(* TaskPage: the panel of the list *)

(* What is shown is what the page remembers it by.                           *)
CacheInv == SelectedTask # Null => openTaskCache = SelectedTask

(* What a change of the parameter or the list leaves on the screen: the task *)
(* the parameter stands for, if one is known.                                *)
LEMMA ShownIsResolved ==
    ASSUME NEW p, NEW l, NEW cached, NEW fetched, Shows(p, l, cached, fetched)
    PROVE  /\ CacheInv'
           /\ p = Null => SelectedTask' = Null
           /\ p # Null => SelectedTask' = Resolved(p, l, cached, fetched)
<1>0. param' = p /\ list' = l
  BY DEF Shows
<1>1. CASE p = Null
  BY <1>0, <1>1 DEF CacheInv, SelectedTask, Resolved
<1>2. CASE p # Null
  <2>1. navFetched' = fetched /\ openTaskCache' = Cached(p, l, cached, fetched)
    BY <1>2 DEF Shows
  <2>2. CASE Resolved(p, l, cached, fetched) = Null
    <3>1. openTaskCache' = cached
      BY <2>1, <2>2 DEF Cached
    <3>. QED BY <1>0, <1>2, <2>1, <2>2, <3>1 DEF SelectedTask, CacheInv
  <2>3. CASE Resolved(p, l, cached, fetched) # Null
    <3>1. Resolved(p, l, cached, fetched) = p.seq
      BY <2>3 DEF Resolved
    <3>2. openTaskCache' = p.seq
      BY <2>1, <2>3, <3>1 DEF Cached
    <3>3. SelectedTask' = p.seq
      BY <1>0, <1>2, <2>1, <3>2 DEF SelectedTask, Resolved
    <3>. QED BY <1>2, <3>1, <3>2, <3>3 DEF CacheInv
  <2>. QED BY <2>2, <2>3
<1>. QED BY <1>1, <1>2

(* A task that is shown, and stays in the URL, is shown whatever the list    *)
(* becomes and whatever the arrows fetched.                                  *)
LEMMA CachedIsKept ==
    ASSUME CacheInv, SelectedTask # Null, NEW l, NEW fetched,
           Shows(param, l, openTaskCache, fetched)
    PROVE  SelectedTask' = SelectedTask
<1>1. param # Null /\ SelectedTask = param.seq
  BY DEF SelectedTask, Resolved
<1>2. SelectedTask' = Resolved(param, l, openTaskCache, fetched)
  BY <1>1, ShownIsResolved
<1>. QED BY <1>1, <1>2 DEF CacheInv, Resolved

(* What a step may do to the panel while no parameter is being resolved:     *)
(* nothing, show by what is cached, or settle the parameter.                 *)
LEMMA StepsOfThePanel ==
    ASSUME PageNext
    PROVE  \/ UNCHANGED <<list, panelVars>>
           \/ \E p, l, fetched : Shows(p, l, openTaskCache, fetched)
           \/ resolvingParam # Null /\ \E p, cached : Shows(p, list, cached, navFetched)
<1>. DEFINE Goal == \/ UNCHANGED <<list, panelVars>>
                    \/ \E p, l, fetched : Shows(p, l, openTaskCache, fetched)
                    \/ /\ resolvingParam # Null
                       /\ \E p, cached : Shows(p, list, cached, navFetched)
<1>1. ASSUME NEW s \in Seqs, OpenTask(s) PROVE Goal
  BY <1>1 DEF OpenTask
<1>2. ASSUME NEW s \in Seqs, NEW from, NEW to, Become(s, from, to) PROVE Goal
  BY <1>2 DEF Become
<1>3. ASSUME NEW p \in Param, FollowLink(p) PROVE Goal
  BY <1>3 DEF FollowLink
<1>4. CASE CloseSlideover
  BY <1>4 DEF CloseSlideover
<1>5. CASE CaptureNavOrder
  BY <1>5 DEF CaptureNavOrder
<1>6. ASSUME NEW walk, NEW by, Walked(walk, by) PROVE Goal
  BY <1>6 DEF Walked
<1>7. ASSUME NEW by \in {-1, 1}, MoveDetail(by) PROVE Goal
  BY <1>6, <1>7 DEF MoveDetail
<1>8. CASE RefreshTasks \/ ReadTasks
  BY <1>8 DEF RefreshTasks, ReadTasks
<1>9. CASE TasksAnswered \/ TasksFailed
  BY <1>9 DEF TasksAnswered, TasksFailed
<1>10. CASE NavAnswered
  BY <1>6, <1>10 DEF NavAnswered
<1>11. ASSUME NEW cached, Settle(cached) PROVE \E p : Shows(p, list, cached, navFetched)
  BY <1>11 DEF Settle
<1>12. ASSUME NEW cached, Finish(cached) PROVE \E p : Shows(p, list, cached, navFetched)
  BY <1>11, <1>12 DEF Finish
<1>13. CASE ListResolved
  BY <1>12, <1>13 DEF ListResolved
<1>14. CASE TaskResolved
  <2>. DEFINE cached == IF resolvingParam.step = "found" THEN resolvingParam.raw.seq
                        ELSE openTaskCache
  <2>1. resolvingParam # Null /\ Finish(cached)
    BY <1>14 DEF TaskResolved
  <2>. QED BY <1>12, <2>1
<1>15. ASSUME NEW answer, ServeNav(answer) \/ ServeTask(answer) PROVE Goal
  BY <1>15 DEF ServeNav, ServeTask
<1>16. CASE NormalizeTaskParam
  BY <1>11, <1>16 DEF NormalizeTaskParam
<1>. QED
  BY <1>1, <1>2, <1>3, <1>4, <1>5, <1>7, <1>8, <1>9, <1>10, <1>13, <1>14, <1>15, <1>16
  DEF PageNext, PageStep

(* What is shown is cached, for as long as the page lives.                   *)
LEMMA CacheInvAlways == PageSpec => []CacheInv
<1>1. PageInit => CacheInv
  BY DEF PageInit, PageFrom, CacheInv, SelectedTask, Resolved
<1>2. CacheInv /\ [PageNext]_pageVars => CacheInv'
  <2>. SUFFICES ASSUME CacheInv, [PageNext]_pageVars PROVE CacheInv'
    OBVIOUS
  <2>1. CASE UNCHANGED <<list, panelVars>>
    BY <2>1 DEF panelVars, CacheInv, SelectedTask
  <2>2. CASE UNCHANGED pageVars
    BY <2>1, <2>2 DEF pageVars
  <2>3. CASE PageNext
    BY <2>1, <2>3, StepsOfThePanel, ShownIsResolved
  <2>. QED BY <2>2, <2>3
<1>. QED BY <1>1, <1>2, PTL DEF PageSpec

(* The panel stays open on its task whatever happens to the list, as long as *)
(* the URL names it and no other parameter is still being resolved           *)
(* (openTaskCache, and the watchers that fill and empty it).                 *)
THEOREM PanelStaysOpenAlways == PageSpec => PanelStaysOpen
<1>1. CacheInv /\ [PageNext]_pageVars =>
        [SelectedTask # Null /\ param' = param /\ resolvingParam = Null
           => SelectedTask' = SelectedTask]_pageVars
  <2>. SUFFICES ASSUME CacheInv, PageNext, SelectedTask # Null, param' = param,
                       resolvingParam = Null
                PROVE  SelectedTask' = SelectedTask
    OBVIOUS
  <2>1. CASE UNCHANGED <<list, panelVars>>
    BY <2>1 DEF panelVars, SelectedTask
  <2>2. ASSUME NEW p, NEW l, NEW fetched, Shows(p, l, openTaskCache, fetched)
        PROVE  SelectedTask' = SelectedTask
    <3>1. p = param
      BY <2>2 DEF Shows
    <3>. QED BY <2>2, <3>1, CachedIsKept
  <2>. QED BY <2>1, <2>2, StepsOfThePanel
<1>2. PageSpec => []CacheInv
  BY CacheInvAlways
<1>. QED BY <1>1, <1>2, PTL DEF PageSpec, PanelStaysOpen

(* The tasks of a walk.                                                      *)
Visits(walk) == {walk[i] : i \in DOMAIN walk}

(* What the variables hold, as far as the answers need it.                   *)
PageTyped ==
    /\ stored \in [Seqs -> Fate] /\ list \subseteq Seqs
    /\ fetch \in [state : {"success", "sent", "read", "error"}, got : SUBSET Seqs]
    /\ param \in Param \cup {Null}
    /\ navSeqs \in Seq(Seqs) \cup {Null}
    /\ navLoading \in [seq : Seqs, by : {-1, 1}, walk : Seq(Seqs), got : Verdict \cup {"sent"}]
                      \cup {Null}
    /\ navLoading # Null => navLoading.seq \in Visits(navLoading.walk)
    /\ refreshedForParam \in Param \cup {Null}
    /\ resolvingParam \in Resolution \cup {Null}
    /\ told \in Seqs \cup {Null}
    /\ visits \in [Seqs -> 0..2]

(* Whatever order the table has, the walk is a sequence of its tasks.        *)
LEMMA CapturedIsAWalk ==
    ASSUME PageTyped, NEW walk \in Captured
    PROVE  walk \in Seq(Seqs) \cup {Null}
<1>1. CASE list = {}
  BY <1>1 DEF Captured, PageTyped
<1>2. CASE list # {}
  <2>1. IsFiniteSet(list)
    BY PageAssumption, FS_Subset DEF PageTyped
  <2>2. Cardinality(list) \in Nat
    BY <2>1, FS_CardinalityType
  <2>3. walk \in [1..Cardinality(list) -> list]
    BY <1>2 DEF Captured, SetToSeqs
  <2>. QED BY <2>2, <2>3 DEF PageTyped
<1>. QED BY <1>1, <1>2

(* A walk without one of its tasks is a walk.                                *)
LEMMA WithoutIsAWalk ==
    ASSUME NEW walk \in Seq(Seqs), NEW seq \in Visits(walk)
    PROVE  Without(walk, seq) \in Seq(Seqs)
<1>1. PICK i \in DOMAIN walk : i = CHOOSE k \in DOMAIN walk : walk[k] = seq
  BY DEF Visits
<1>2. Without(walk, seq) = RemoveAt(walk, i)
  BY <1>1 DEF Without
<1>3. i \in 1..Len(walk)
  OBVIOUS
<1>4. RemoveAt(walk, i) \in Seq(Seqs)
  BY <1>3 DEF RemoveAt
<1>. QED BY <1>2, <1>4

(* The arrows name a task of the walk.                                       *)
LEMMA NeighbourIsInTheWalk ==
    ASSUME NEW walk \in Seq(Seqs), NEW by \in {-1, 1}
    PROVE  Neighbour(walk, by) # Null => Neighbour(walk, by) \in Seqs \cap Visits(walk)
<1>. DEFINE spots == {i \in DOMAIN walk : walk[i] = SelectedTask /\ i + by \in DOMAIN walk}
<1>1. CASE spots = {}
  BY <1>1 DEF Neighbour
<1>2. CASE spots # {}
  <2>1. PICK i \in spots : i = CHOOSE k \in spots : TRUE
    BY <1>2
  <2>2. Neighbour(walk, by) = walk[i + by]
    BY <1>2, <2>1 DEF Neighbour
  <2>3. i + by \in DOMAIN walk
    BY <2>1
  <2>4. walk[i + by] \in Seqs
    BY <2>3
  <2>. QED BY <2>2, <2>3, <2>4 DEF Visits
<1>. QED BY <1>1, <1>2

(* Where moveDetail leads, and what it asks for.                             *)
LEMMA WalkedTyped ==
    ASSUME PageTyped, NEW walk \in Seq(Seqs), NEW by \in {-1, 1}, Walked(walk, by)
    PROVE  /\ param' \in Param \cup {Null} /\ list' = list
           /\ navLoading' \in [seq : Seqs, by : {-1, 1}, walk : Seq(Seqs),
                               got : Verdict \cup {"sent"}] \cup {Null}
           /\ navLoading' # Null => navLoading'.seq \in Visits(navLoading'.walk)
<1>. DEFINE seq == Neighbour(walk, by)
<1>1. CASE seq = Null
  BY <1>1 DEF Walked, PageTyped, panelVars
<1>2. CASE seq # Null /\ seq \in list
  <2>1. Number(seq) \in Param
    BY <1>2 DEF PageTyped, Number, Param
  <2>. QED BY <1>2, <2>1 DEF Walked, Shows
<1>3. CASE seq # Null /\ seq \notin list
  <2>1. seq \in Seqs \cap Visits(walk)
    BY <1>3, NeighbourIsInTheWalk
  <2>2. navLoading' = [seq |-> seq, by |-> by, walk |-> walk, got |-> "sent"]
    BY <1>3 DEF Walked
  <2>3. UNCHANGED <<list, panelVars>>
    BY <1>3 DEF Walked
  <2>. QED BY <2>1, <2>2, <2>3 DEF PageTyped, panelVars
<1>. QED BY <1>1, <1>2, <1>3

(* A parameter that is settled stands for a task or is gone.                 *)
LEMMA SettleTyped ==
    ASSUME PageTyped, param # Null, NEW cached, Settle(cached)
    PROVE  /\ param' \in Param \cup {Null} /\ list' = list
           /\ navSeqs' \in {navSeqs, Null}
           /\ told' \in Seqs \cup {Null}
<1>. DEFINE task == Resolved(param, list, cached, navFetched)
<1>1. param \in Param
  BY DEF PageTyped
<1>2. CASE task = Null
  BY <1>1, <1>2 DEF Settle, Shows, Param
<1>3. CASE task # Null
  <2>1. task = param.seq
    BY <1>3 DEF Resolved
  <2>2. Number(task) \in Param
    BY <1>1, <2>1 DEF Number, Param
  <2>. QED BY <1>3, <2>2 DEF Settle, Shows, PageTyped
<1>. QED BY <1>2, <1>3

(* So does the end of a resolution.                                          *)
LEMMA FinishTyped ==
    ASSUME PageTyped, resolvingParam # Null, NEW cached, Finish(cached)
    PROVE  /\ param' \in Param \cup {Null} /\ list' = list
           /\ navSeqs' \in {navSeqs, Null}
           /\ told' \in Seqs \cup {Null}
           /\ resolvingParam' = Null
<1>1. resolvingParam.raw \in Param /\ Null \notin Param
  BY PageAssumption DEF PageTyped, Resolution
<1>2. CASE param = resolvingParam.raw
  BY <1>1, <1>2, SettleTyped DEF Finish
<1>3. CASE param # resolvingParam.raw
  BY <1>3 DEF Finish, Shows, PageTyped
<1>. QED BY <1>2, <1>3

(* The count of the visits: it never falls, a parameter in the URL was       *)
(* visited, and one that comes anew for the first time never was.            *)
LEMMA VisitsGrow ==
    ASSUME PageTyped, param' \in Param \cup {Null}, visits' = Visited
    PROVE  /\ visits' \in [Seqs -> 0..2]
           /\ \A s \in Seqs : visits[s] # 0 /\ visits'[s] = 1 => visits[s] = 1
           /\ \A s \in Seqs : visits[s] # 0 => visits'[s] # 0
           /\ param' = param => visits' = visits
           /\ param' # Null /\ param' # param =>
                /\ visits'[param'.seq] # 0
                /\ visits'[param'.seq] = 1 => visits[param'.seq] = 0
<1>1. CASE param' \in {param, Null}
  BY <1>1 DEF Visited, PageTyped
<1>2. CASE param' \notin {param, Null}
  <2>1. param'.seq \in Seqs
    BY <1>2 DEF Param
  <2>2. CASE visits[param'.seq] = 2
    BY <1>2, <2>1, <2>2 DEF Visited, PageTyped
  <2>3. CASE visits[param'.seq] # 2
    <3>1. visits' = [visits EXCEPT ![param'.seq] = @ + 1]
      BY <1>2, <2>3 DEF Visited
    <3>2. visits[param'.seq] \in 0..1
      BY <2>1, <2>3 DEF PageTyped
    <3>3. visits'[param'.seq] = visits[param'.seq] + 1
      BY <2>1, <3>1 DEF PageTyped
    <3>4. \A s \in Seqs \ {param'.seq} : visits'[s] = visits[s]
      BY <3>1 DEF PageTyped
    <3>5. visits' \in [Seqs -> 0..2]
      BY <2>1, <3>1, <3>2, <3>3 DEF PageTyped
    <3>. QED BY <1>2, <2>1, <3>2, <3>3, <3>4, <3>5
  <2>. QED BY <2>2, <2>3
<1>. QED BY <1>1, <1>2

(* Each step keeps what the variables hold.                                  *)
LEMMA PageTypedStep == PageTyped /\ [PageNext]_pageVars => PageTyped'
<1>. SUFFICES ASSUME PageTyped, [PageNext]_pageVars PROVE PageTyped'
  OBVIOUS
<1>. DEFINE WalkAsked == [seq : Seqs, by : {-1, 1}, walk : Seq(Seqs), got : Verdict \cup {"sent"}]
            Rest == /\ stored' \in [Seqs -> Fate] /\ list' \subseteq Seqs
                    /\ fetch' \in [state : {"success", "sent", "read", "error"},
                                   got : SUBSET Seqs]
                    /\ param' \in Param \cup {Null}
                    /\ navSeqs' \in Seq(Seqs) \cup {Null}
                    /\ navLoading' \in WalkAsked \cup {Null}
                    /\ navLoading' # Null => navLoading'.seq \in Visits(navLoading'.walk)
                    /\ refreshedForParam' \in Param \cup {Null}
                    /\ resolvingParam' \in Resolution \cup {Null}
                    /\ told' \in Seqs \cup {Null}
<1>0. CASE UNCHANGED pageVars
  BY <1>0 DEF pageVars, panelVars, navVars, resolving, PageTyped
<1>1. ASSUME NEW s \in Seqs, OpenTask(s) PROVE Rest
  <2>1. Number(s) \in Param
    BY DEF Number, Param
  <2>2. navSeqs' \in Seq(Seqs) \cup {Null}
    BY <1>1, CapturedIsAWalk DEF OpenTask
  <2>. QED BY <1>1, <2>1, <2>2 DEF OpenTask, Shows, resolving, PageTyped
<1>2. ASSUME NEW s \in Seqs, NEW from, NEW to \in Fate, Become(s, from, to) PROVE Rest
  BY <1>2 DEF Become, panelVars, navVars, resolving, PageTyped
<1>3. ASSUME NEW p \in Param, FollowLink(p) PROVE Rest
  BY <1>3 DEF FollowLink, Shows, navVars, resolving, PageTyped
<1>4. ASSUME CloseSlideover PROVE Rest
  BY <1>4 DEF CloseSlideover, Shows, resolving, PageTyped
<1>5. ASSUME CaptureNavOrder PROVE Rest
  <2>1. navSeqs' \in Seq(Seqs) \cup {Null}
    BY <1>5, CapturedIsAWalk DEF CaptureNavOrder
  <2>. QED BY <1>5, <2>1 DEF CaptureNavOrder, panelVars, resolving, PageTyped
<1>6. ASSUME NEW by \in {-1, 1}, MoveDetail(by) PROVE Rest
  <2>1. navSeqs \in Seq(Seqs) /\ Walked(navSeqs, by)
    BY <1>6 DEF MoveDetail, PageTyped
  <2>. HIDE DEF WalkAsked
  <2>2. /\ param' \in Param \cup {Null} /\ list' = list
        /\ navLoading' \in WalkAsked \cup {Null}
        /\ navLoading' # Null => navLoading'.seq \in Visits(navLoading'.walk)
    BY <2>1, WalkedTyped DEF WalkAsked
  <2>. QED BY <1>6, <2>2 DEF MoveDetail, resolving, PageTyped
<1>7. ASSUME RefreshTasks PROVE Rest
  BY <1>7 DEF RefreshTasks, Refresh, panelVars, navVars, resolving, PageTyped
<1>8. ASSUME ReadTasks PROVE Rest
  BY <1>8 DEF ReadTasks, Loaded, panelVars, navVars, resolving, PageTyped
<1>9. ASSUME TasksAnswered PROVE Rest
  BY <1>9 DEF TasksAnswered, Idle, Shows, navVars, resolving, PageTyped
<1>10. ASSUME TasksFailed PROVE Rest
  BY <1>10 DEF TasksFailed, Shows, navVars, resolving, PageTyped
<1>11. ASSUME NavAnswered PROVE Rest
  <2>. DEFINE seq == navLoading.seq
              fetched == IF navLoading.got = "found" THEN seq ELSE navFetched
  <2>1. navLoading \in WalkAsked /\ seq \in Visits(navLoading.walk)
    BY <1>11 DEF NavAnswered, PageTyped
  <2>2. seq \in Seqs /\ navLoading.walk \in Seq(Seqs) /\ navLoading.by \in {-1, 1}
    BY <2>1
  <2>. HIDE DEF WalkAsked
  <2>3. CASE navLoading.got = "missing"
    <3>1. Without(navLoading.walk, seq) \in Seq(Seqs)
      BY <2>1, <2>2, WithoutIsAWalk
    <3>2. /\ navSeqs' = Without(navLoading.walk, seq)
          /\ Walked(Without(navLoading.walk, seq), navLoading.by)
      BY <1>11, <2>3 DEF NavAnswered
    <3>3. /\ param' \in Param \cup {Null} /\ list' = list
          /\ navLoading' \in WalkAsked \cup {Null}
          /\ navLoading' # Null => navLoading'.seq \in Visits(navLoading'.walk)
      BY <2>2, <3>1, <3>2, WalkedTyped DEF WalkAsked
    <3>. QED BY <1>11, <3>1, <3>2, <3>3 DEF NavAnswered, resolving, PageTyped
  <2>4. CASE navLoading.got # "missing"
    <3>1. navLoading' = Null /\ navSeqs' = navSeqs
      BY <1>11, <2>4 DEF NavAnswered
    <3>2. param' \in Param \cup {Null} /\ list' = list
      <4>1. CASE fetched = seq
        <5>1. Shows(Number(seq), list, openTaskCache, fetched)
          BY <1>11, <2>4, <4>1 DEF NavAnswered
        <5>2. Number(seq) \in Param
          BY <2>2 DEF Number, Param
        <5>. QED BY <5>1, <5>2 DEF Shows
      <4>2. CASE fetched # seq
        BY <1>11, <2>4, <4>2 DEF NavAnswered, panelVars, PageTyped
      <4>. QED BY <4>1, <4>2
    <3>. QED BY <1>11, <3>1, <3>2 DEF NavAnswered, resolving, PageTyped
  <2>. QED BY <2>3, <2>4
<1>12. ASSUME NEW answer \in Verdict, ServeNav(answer) PROVE Rest
  <2>1. navLoading \in WalkAsked
    BY <1>12 DEF ServeNav, PageTyped
  <2>2. navLoading' = [navLoading EXCEPT !.got = answer]
    BY <1>12 DEF ServeNav
  <2>3. navLoading' \in WalkAsked
    BY <2>1, <2>2
  <2>4. navLoading'.seq = navLoading.seq /\ navLoading'.walk = navLoading.walk
    BY <2>1, <2>2
  <2>5. navLoading.seq \in Visits(navLoading.walk)
    BY <1>12 DEF ServeNav, PageTyped
  <2>. HIDE DEF WalkAsked
  <2>. QED BY <1>12, <2>3, <2>4, <2>5 DEF ServeNav, panelVars, resolving, PageTyped
<1>13. ASSUME NEW answer \in Verdict, ServeTask(answer) PROVE Rest
  <2>1. resolvingParam \in Resolution
    BY <1>13 DEF ServeTask, PageTyped
  <2>2. resolvingParam' = [resolvingParam EXCEPT !.step = answer]
    BY <1>13 DEF ServeTask
  <2>3. resolvingParam' \in Resolution
    BY <2>1, <2>2 DEF Resolution
  <2>. QED BY <1>13, <2>3 DEF ServeTask, panelVars, navVars, PageTyped
<1>14. ASSUME ListResolved PROVE Rest
  <2>1. CASE SelectedTask # Null
    <3>1. resolvingParam # Null /\ Finish(openTaskCache)
      BY <1>14, <2>1 DEF ListResolved
    <3>2. /\ param' \in Param \cup {Null} /\ list' = list
          /\ navSeqs' \in {navSeqs, Null} /\ told' \in Seqs \cup {Null}
          /\ resolvingParam' = Null
      BY <3>1, FinishTyped
    <3>. QED BY <1>14, <3>2 DEF ListResolved, PageTyped
  <2>2. CASE SelectedTask = Null
    <3>1. resolvingParam \in Resolution
      BY <1>14 DEF ListResolved, PageTyped
    <3>2. resolvingParam' = [resolvingParam EXCEPT !.step = "task"]
      BY <1>14, <2>2 DEF ListResolved
    <3>3. resolvingParam' \in Resolution
      BY <3>1, <3>2 DEF Resolution
    <3>. QED BY <1>14, <2>2, <3>3 DEF ListResolved, panelVars, PageTyped
  <2>. QED BY <2>1, <2>2
<1>15. ASSUME TaskResolved PROVE Rest
  <2>. DEFINE cached == IF resolvingParam.step = "found" THEN resolvingParam.raw.seq
                        ELSE openTaskCache
  <2>1. resolvingParam # Null /\ Finish(cached)
    BY <1>15 DEF TaskResolved
  <2>2. /\ param' \in Param \cup {Null} /\ list' = list
        /\ navSeqs' \in {navSeqs, Null} /\ told' \in Seqs \cup {Null}
        /\ resolvingParam' = Null
    BY <2>1, FinishTyped
  <2>. QED BY <1>15, <2>2 DEF TaskResolved, PageTyped
<1>16. ASSUME NormalizeTaskParam PROVE Rest
  <2>1. CASE param = Null
    BY <1>16, <2>1 DEF NormalizeTaskParam, panelVars, PageTyped
  <2>2. CASE param # Null /\ UNCHANGED <<list, fetch, panelVars, navSeqs, resolving, told>>
    BY <1>16, <2>2 DEF NormalizeTaskParam, panelVars, resolving, PageTyped
  <2>3. CASE /\ param # Null
             /\ refreshedForParam' = param
             /\ resolvingParam' = [raw |-> param, step |-> "list"]
             /\ fetch' = Refresh
             /\ UNCHANGED <<list, panelVars, navSeqs, told>>
    <3>1. param \in Param
      BY <2>3 DEF PageTyped
    <3>2. resolvingParam' \in Resolution
      BY <2>3, <3>1 DEF Resolution
    <3>3. fetch' \in [state : {"success", "sent", "read", "error"}, got : SUBSET Seqs]
      BY <2>3 DEF Refresh
    <3>. QED BY <1>16, <2>3, <3>1, <3>2, <3>3 DEF NormalizeTaskParam, panelVars, PageTyped
  <2>4. CASE param # Null /\ Settle(openTaskCache) /\ UNCHANGED <<fetch, resolving>>
    <3>1. /\ param' \in Param \cup {Null} /\ list' = list
          /\ navSeqs' \in {navSeqs, Null} /\ told' \in Seqs \cup {Null}
      BY <2>4, SettleTyped
    <3>. QED BY <1>16, <2>4, <3>1 DEF NormalizeTaskParam, resolving, PageTyped
  <2>. QED BY <1>16, <2>1, <2>2, <2>3, <2>4 DEF NormalizeTaskParam
<1>17. CASE PageNext
  <2>1. Rest
    <3>. HIDE DEF Rest
    <3>1. {"open", "closed", "gone"} \subseteq Fate
      BY DEF Fate
    <3>. QED BY <1>1, <1>2, <1>3, <1>4, <1>5, <1>6, <1>7, <1>8, <1>9, <1>10, <1>11, <1>12,
                <1>13, <1>14, <1>15, <1>16, <1>17, <3>1 DEF PageNext, PageStep
  <2>2. visits' = Visited
    BY <1>17 DEF PageNext
  <2>3. visits' \in [Seqs -> 0..2]
    BY <2>1, <2>2, VisitsGrow
  <2>. QED BY <2>1, <2>3 DEF PageTyped
<1>. QED BY <1>0, <1>17

(* A task that nobody is wrong to say is missing.                            *)
Excused(seq) == stored[seq] = "gone" \/ seq \in failing

(* A parameter in the URL, one the list was fetched for and a task that was  *)
(* said to be missing were visited; a resolution belongs to the parameter it *)
(* was begun for, and its answer is what the server said; a parameter the    *)
(* list was fetched for, in its first visit and resolved, is shown.          *)
FirstInv ==
    /\ param # Null => visits[param.seq] # 0
    /\ refreshedForParam # Null => visits[refreshedForParam.seq] # 0
    /\ told # Null => visits[told] # 0
    /\ resolvingParam # Null =>
          /\ refreshedForParam \in {Null, resolvingParam.raw}
          /\ resolvingParam.step \in {"missing", "failed"} => Excused(resolvingParam.raw.seq)
    /\ resolvingParam = Null /\ param # Null /\ refreshedForParam = param
          /\ visits[param.seq] = 1 => SelectedTask # Null
    /\ FirstVisitOpens

(* What is gone stays so, and a request that failed has failed.              *)
LEMMA ExcusesStay ==
    ASSUME PageTyped, PageNext
    PROVE  \A s \in Seqs : Excused(s) => Excused(s)'
<1>1. ASSUME NEW s \in Seqs, NEW from, NEW to, from # "gone", Become(s, from, to)
      PROVE  \A t \in Seqs : Excused(t) => Excused(t)'
  <2>1. stored' = [stored EXCEPT ![s] = to] /\ failing' = failing /\ stored[s] # "gone"
    BY <1>1 DEF Become
  <2>. QED BY <2>1 DEF PageTyped, Excused
<1>2. ASSUME NEW seq, NEW answer, Served(seq, answer), stored' = stored
      PROVE  \A t \in Seqs : Excused(t) => Excused(t)'
  BY <1>2 DEF Served, Excused
<1>3. ASSUME UNCHANGED <<stored, failing>> PROVE \A t \in Seqs : Excused(t) => Excused(t)'
  BY <1>3 DEF Excused
<1>4. ASSUME NEW s \in Seqs, OpenTask(s) PROVE UNCHANGED <<stored, failing>>
  BY <1>4 DEF OpenTask
<1>5. ASSUME NEW p \in Param, FollowLink(p) PROVE UNCHANGED <<stored, failing>>
  BY <1>5 DEF FollowLink
<1>6. CASE CloseSlideover \/ CaptureNavOrder \/ RefreshTasks \/ ReadTasks \/ TasksAnswered
           \/ TasksFailed \/ NavAnswered \/ ListResolved \/ TaskResolved \/ NormalizeTaskParam
  BY <1>3, <1>6 DEF CloseSlideover, CaptureNavOrder, RefreshTasks, ReadTasks, TasksAnswered,
                    TasksFailed, NavAnswered, ListResolved, TaskResolved, NormalizeTaskParam
<1>7. ASSUME NEW by \in {-1, 1}, MoveDetail(by) PROVE UNCHANGED <<stored, failing>>
  BY <1>7 DEF MoveDetail
<1>8. ASSUME NEW answer \in Verdict, ServeNav(answer) \/ ServeTask(answer)
      PROVE  \A t \in Seqs : Excused(t) => Excused(t)'
  BY <1>2, <1>8 DEF ServeNav, ServeTask
<1>. QED
  BY <1>1, <1>3, <1>4, <1>5, <1>6, <1>7, <1>8 DEF PageNext, PageStep

(* What every step gives the next argument.                                  *)
Ensues ==
    /\ PageTyped /\ PageTyped' /\ CacheInv /\ FirstInv
    /\ visits' = Visited
    /\ \A s \in Seqs : Excused(s) => Excused(s)'

(* What was visited stays visited, what was said stays excused.              *)
LEMMA VisitedStays ==
    ASSUME Ensues
    PROVE  /\ param' # Null => visits'[param'.seq] # 0
           /\ refreshedForParam # Null => visits'[refreshedForParam.seq] # 0
           /\ told # Null => visits'[told] # 0
           /\ told' = told => FirstVisitOpens'
<1>1. param' \in Param \cup {Null} /\ visits' = Visited /\ PageTyped
  BY DEF Ensues, PageTyped
<1>2. /\ \A s \in Seqs : visits[s] # 0 /\ visits'[s] = 1 => visits[s] = 1
      /\ \A s \in Seqs : visits[s] # 0 => visits'[s] # 0
      /\ param' = param => visits' = visits
      /\ param' # Null /\ param' # param => visits'[param'.seq] # 0
  BY <1>1, VisitsGrow
<1>3. param' # Null => visits'[param'.seq] # 0
  BY <1>2 DEF Ensues, FirstInv
<1>4. refreshedForParam # Null => refreshedForParam.seq \in Seqs
  BY DEF Ensues, PageTyped, Param
<1>5. refreshedForParam # Null => visits'[refreshedForParam.seq] # 0
  BY <1>2, <1>4 DEF Ensues, FirstInv
<1>6. told # Null => told \in Seqs /\ visits[told] # 0
  BY DEF Ensues, PageTyped, FirstInv
<1>7. told # Null => visits'[told] # 0
  BY <1>2, <1>6
<1>8. ASSUME told' = told PROVE FirstVisitOpens'
  <2>1. SUFFICES ASSUME told # Null, visits'[told] = 1 PROVE Excused(told)'
    BY <1>8 DEF FirstVisitOpens, Excused
  <2>2. Excused(told)
    BY <1>2, <1>6, <2>1 DEF Ensues, FirstInv, FirstVisitOpens, Excused
  <2>3. Excused(told) => Excused(told)'
    BY <1>6, <1>8, <2>1 DEF Ensues, Excused
  <2>. QED BY <2>2, <2>3
<1>. QED BY <1>3, <1>5, <1>7, <1>8

(* The parameter that is anew in the URL was not fetched for, if this is its *)
(* first visit.                                                              *)
LEMMA AnewIsNotFetchedFor ==
    ASSUME Ensues, param' # param, param' # Null, visits'[param'.seq] = 1
    PROVE  refreshedForParam # param'
<1>1. visits[param'.seq] = 0
  BY VisitsGrow DEF Ensues, PageTyped
<1>. QED BY <1>1 DEF Ensues, FirstInv

(* A step that neither resolves nor says anything.                           *)
LEMMA OthersKeepFirst ==
    ASSUME Ensues, UNCHANGED <<resolving, told>>,
           \/ UNCHANGED <<list, panelVars>>
           \/ \E p, l, fetched : Shows(p, l, openTaskCache, fetched)
    PROVE  FirstInv'
<1>1. refreshedForParam' = refreshedForParam /\ resolvingParam' = resolvingParam /\ told' = told
  BY DEF resolving
<1>2. resolvingParam # Null => resolvingParam.raw.seq \in Seqs
  BY DEF Ensues, PageTyped, Resolution, Param
<1>3. resolvingParam # Null =>
         /\ refreshedForParam \in {Null, resolvingParam.raw}
         /\ resolvingParam.step \in {"missing", "failed"} => Excused(resolvingParam.raw.seq)'
  BY <1>1, <1>2 DEF Ensues, FirstInv, Excused
<1>4. ASSUME resolvingParam = Null, param' # Null, refreshedForParam = param',
             visits'[param'.seq] = 1
      PROVE  SelectedTask' # Null
  <2>1. param' = param
    BY <1>4, AnewIsNotFetchedFor
  <2>2. visits' = visits
    BY <2>1, VisitsGrow DEF Ensues, PageTyped
  <2>3. SelectedTask # Null
    BY <1>4, <2>1, <2>2 DEF Ensues, FirstInv
  <2>4. CASE UNCHANGED <<list, panelVars>>
    BY <2>3, <2>4 DEF panelVars, SelectedTask
  <2>5. ASSUME NEW p, NEW l, NEW fetched, Shows(p, l, openTaskCache, fetched)
        PROVE  SelectedTask' # Null
    <3>1. p = param
      BY <2>1, <2>5 DEF Shows
    <3>. QED BY <2>3, <2>5, <3>1, CachedIsKept DEF Ensues
  <2>. QED BY <2>4, <2>5
<1>. QED BY <1>1, <1>3, <1>4, VisitedStays DEF FirstInv, Excused

(* A parameter is settled: the task is shown, or there is an excuse.         *)
LEMMA SettleKeepsFirst ==
    ASSUME Ensues, param # Null, NEW cached, Settle(cached),
           resolvingParam' = Null, refreshedForParam' = refreshedForParam,
           Resolved(param, list, cached, navFetched) = Null /\ visits[param.seq] = 1
              => Excused(param.seq)
    PROVE  FirstInv'
<1>. DEFINE task == Resolved(param, list, cached, navFetched)
<1>1. param \in Param /\ param.seq \in Seqs
  BY DEF Ensues, PageTyped, Param
<1>2. CASE task = Null
  <2>1. told' = param.seq /\ param' = Null
    BY <1>2 DEF Settle, Shows
  <2>2. visits' = visits
    BY <2>1 DEF Ensues, Visited
  <2>3. visits'[told'] # 0
    BY <2>1, <2>2 DEF Ensues, FirstInv
  <2>4. FirstVisitOpens'
    BY <1>1, <1>2, <2>1, <2>2 DEF Ensues, FirstVisitOpens, Excused
  <2>. QED BY <2>1, <2>3, <2>4, VisitedStays DEF FirstInv
<1>3. CASE task # Null
  <2>1. Shows(Number(task), list, cached, navFetched) /\ told' = told
    BY <1>3 DEF Settle
  <2>2. task = param.seq
    BY <1>3 DEF Resolved
  <2>3. Number(task) \in Param /\ Number(task) # Null
    <3>1. Number(task) \in Param
      BY <1>1, <2>2 DEF Number, Param
    <3>. QED BY <3>1, PageAssumption
  <2>4. Resolved(Number(task), list, cached, navFetched) = task
    BY <1>3, <2>2, <2>3 DEF Resolved, Number
  <2>5. SelectedTask' # Null
    BY <1>3, <2>1, <2>3, <2>4, ShownIsResolved
  <2>. QED BY <2>1, <2>5, VisitedStays DEF FirstInv
<1>. QED BY <1>2, <1>3

(* A resolution ends: its answer says what there is, and another parameter   *)
(* is left to its own.                                                       *)
LEMMA FinishKeepsFirst ==
    ASSUME Ensues, resolvingParam # Null, NEW cached, Finish(cached),
           refreshedForParam' = refreshedForParam,
           Resolved(resolvingParam.raw, list, cached, navFetched) = Null
              => Excused(resolvingParam.raw.seq)
    PROVE  FirstInv'
<1>1. resolvingParam.raw \in Param /\ Null \notin Param
  BY PageAssumption DEF Ensues, PageTyped, Resolution
<1>2. resolvingParam' = Null
  BY DEF Finish
<1>3. CASE param = resolvingParam.raw
  <2>1. param # Null /\ Settle(cached)
    BY <1>1, <1>3 DEF Finish
  <2>. QED BY <1>2, <1>3, <2>1, SettleKeepsFirst
<1>4. CASE param # resolvingParam.raw
  <2>1. param' = param /\ told' = told
    BY <1>4 DEF Finish, Shows
  <2>2. refreshedForParam \in {Null, resolvingParam.raw}
    BY DEF Ensues, FirstInv
  <2>3. param' # Null => refreshedForParam' # param'
    BY <1>4, <2>1, <2>2
  <2>. QED BY <1>2, <2>1, <2>3, VisitedStays DEF FirstInv
<1>. QED BY <1>3, <1>4

(* Each step keeps it.                                                       *)
LEMMA FirstStep ==
    PageTyped /\ PageTyped' /\ CacheInv /\ FirstInv /\ [PageNext]_pageVars => FirstInv'
<1>. SUFFICES ASSUME PageTyped, CacheInv, FirstInv, [PageNext]_pageVars, PageTyped'
              PROVE  FirstInv'
  OBVIOUS
<1>1. CASE UNCHANGED pageVars
  BY <1>1 DEF pageVars, panelVars, resolving, FirstInv, FirstVisitOpens, Excused, SelectedTask
<1>2. CASE PageNext
  <2>0. Ensues
    BY <1>2, ExcusesStay DEF Ensues, PageNext
  <2>. DEFINE Bystanders == /\ UNCHANGED <<resolving, told>>
                       /\ \/ UNCHANGED <<list, panelVars>>
                          \/ \E p, l, fetched : Shows(p, l, openTaskCache, fetched)
  <2>1. ASSUME Bystanders PROVE FirstInv'
    BY <2>0, <2>1, OthersKeepFirst
  <2>2. ASSUME NEW s \in Seqs, OpenTask(s) PROVE Bystanders
    BY <2>2 DEF OpenTask
  <2>3. ASSUME NEW s \in Seqs, NEW from, NEW to, Become(s, from, to) PROVE Bystanders
    BY <2>3 DEF Become
  <2>4. ASSUME NEW p \in Param, FollowLink(p) PROVE Bystanders
    BY <2>4 DEF FollowLink
  <2>5. ASSUME CloseSlideover \/ CaptureNavOrder \/ RefreshTasks \/ ReadTasks PROVE Bystanders
    BY <2>5 DEF CloseSlideover, CaptureNavOrder, RefreshTasks, ReadTasks
  <2>6. ASSUME TasksAnswered \/ TasksFailed PROVE Bystanders
    BY <2>6 DEF TasksAnswered, TasksFailed
  <2>7. ASSUME NEW walk, NEW by, Walked(walk, by), UNCHANGED <<resolving, told>> PROVE Bystanders
    BY <2>7 DEF Walked
  <2>8. ASSUME NEW by \in {-1, 1}, MoveDetail(by) PROVE Bystanders
    BY <2>7, <2>8 DEF MoveDetail
  <2>9. ASSUME NavAnswered PROVE Bystanders
    BY <2>7, <2>9 DEF NavAnswered
  <2>10. ASSUME NEW answer \in Verdict, ServeNav(answer) PROVE Bystanders
    BY <2>10 DEF ServeNav
  <2>11. ASSUME NEW answer \in Verdict, ServeTask(answer) PROVE FirstInv'
    <3>1. /\ resolvingParam \in Resolution
          /\ resolvingParam' = [resolvingParam EXCEPT !.step = answer]
      BY <2>11 DEF ServeTask, PageTyped
    <3>2. resolvingParam'.raw = resolvingParam.raw /\ resolvingParam'.step = answer
      BY <3>1 DEF Resolution
    <3>3. resolvingParam' # Null
      <4>1. resolvingParam' \in Resolution
        BY <3>1 DEF Resolution
      <4>. QED BY <4>1, PageAssumption
    <3>4. answer \in {"missing", "failed"} => Excused(resolvingParam.raw.seq)'
      BY <2>11, <3>2 DEF ServeTask, Served, Excused
    <3>5. UNCHANGED <<param, refreshedForParam, told>>
      BY <2>11 DEF ServeTask, panelVars
    <3>6. refreshedForParam \in {Null, resolvingParam.raw}
      BY <2>11 DEF ServeTask, FirstInv
    <3>7. (resolvingParam.step \in {"missing", "failed"} => Excused(resolvingParam.raw.seq))'
      BY <3>2, <3>4 DEF Excused
    <3>. QED BY <2>0, <3>2, <3>3, <3>5, <3>6, <3>7, VisitedStays DEF FirstInv, Excused
  <2>12. CASE ListResolved
    <3>1. CASE SelectedTask # Null
      <4>1. /\ resolvingParam # Null /\ Finish(openTaskCache)
            /\ refreshedForParam' = refreshedForParam
        BY <2>12, <3>1 DEF ListResolved
      <4>2. CASE param = resolvingParam.raw
        <5>1. param # Null /\ Settle(openTaskCache) /\ resolvingParam' = Null
          BY <4>1, <4>2, PageAssumption DEF Finish, PageTyped, Resolution
        <5>2. Resolved(param, list, openTaskCache, navFetched) # Null
          BY <3>1 DEF SelectedTask
        <5>. QED BY <2>0, <4>1, <5>1, <5>2, SettleKeepsFirst
      <4>3. CASE param # resolvingParam.raw
        <5>1. param' = param /\ told' = told /\ resolvingParam' = Null
          BY <4>1, <4>3 DEF Finish, Shows
        <5>2. refreshedForParam \in {Null, resolvingParam.raw}
          BY <4>1 DEF FirstInv
        <5>3. param' # Null => refreshedForParam' # param'
          BY <4>1, <4>3, <5>1, <5>2
        <5>. QED BY <2>0, <4>1, <5>1, <5>3, VisitedStays DEF FirstInv
      <4>. QED BY <4>2, <4>3
    <3>2. CASE SelectedTask = Null
      <4>1. /\ resolvingParam \in Resolution /\ resolvingParam # Null
            /\ resolvingParam' = [resolvingParam EXCEPT !.step = "task"]
            /\ UNCHANGED <<param, refreshedForParam, told>>
        BY <2>12, <3>2 DEF ListResolved, PageTyped, panelVars
      <4>2. resolvingParam'.raw = resolvingParam.raw /\ resolvingParam'.step = "task"
        BY <4>1 DEF Resolution
      <4>3. resolvingParam' # Null
        <5>1. resolvingParam' \in Resolution
          BY <4>1 DEF Resolution
        <5>. QED BY <5>1, PageAssumption
      <4>4. refreshedForParam \in {Null, resolvingParam.raw}
        BY <4>1 DEF FirstInv
      <4>. QED BY <2>0, <4>1, <4>2, <4>3, <4>4, VisitedStays DEF FirstInv
    <3>. QED BY <3>1, <3>2
  <2>13. CASE TaskResolved
    <3>. DEFINE cached == IF resolvingParam.step = "found" THEN resolvingParam.raw.seq
                          ELSE openTaskCache
    <3>1. /\ resolvingParam # Null /\ resolvingParam.step \in Verdict
          /\ Finish(cached) /\ refreshedForParam' = refreshedForParam
      BY <2>13 DEF TaskResolved
    <3>2. resolvingParam.raw.seq \in Seqs /\ resolvingParam.raw # Null
      BY <3>1, PageAssumption DEF PageTyped, Resolution, Param
    <3>3. CASE resolvingParam.step = "found"
      <4>1. Resolved(resolvingParam.raw, list, resolvingParam.raw.seq, navFetched) # Null
        BY <3>2, PageAssumption DEF Resolved
      <4>2. Finish(resolvingParam.raw.seq)
        BY <3>1, <3>3
      <4>. QED BY <2>0, <3>1, <4>1, <4>2, FinishKeepsFirst
    <3>4. CASE resolvingParam.step # "found"
      <4>1. Excused(resolvingParam.raw.seq)
        BY <3>1, <3>4 DEF FirstInv, Verdict
      <4>2. Finish(openTaskCache)
        BY <3>1, <3>4
      <4>. QED BY <2>0, <3>1, <4>1, <4>2, FinishKeepsFirst
    <3>. QED BY <3>3, <3>4
  <2>14. CASE NormalizeTaskParam
    <3>1. CASE /\ param = Null /\ refreshedForParam' = Null
               /\ UNCHANGED <<list, panelVars, resolvingParam, told>>
      <4>1. param' = Null
        BY <3>1 DEF panelVars
      <4>2. resolvingParam # Null /\ resolvingParam.step \in {"missing", "failed"}
               => Excused(resolvingParam.raw.seq)'
        BY <2>0, <3>1 DEF Ensues, PageTyped, FirstInv, Resolution, Param, Excused
      <4>. QED BY <2>0, <3>1, <4>1, <4>2, VisitedStays DEF FirstInv, Excused
    <3>2. CASE UNCHANGED <<list, panelVars, resolving, told>>
      BY <2>1, <3>2
    <3>3. CASE /\ param # Null
               /\ refreshedForParam' = param
               /\ resolvingParam' = [raw |-> param, step |-> "list"]
               /\ UNCHANGED <<list, panelVars, told>>
      <4>1. param' = param /\ param \in Param
        BY <3>3 DEF panelVars, PageTyped
      <4>2. resolvingParam' # Null
        <5>1. resolvingParam' \in Resolution
          BY <3>3, <4>1 DEF Resolution
        <5>. QED BY <5>1, PageAssumption
      <4>3. resolvingParam'.raw = param /\ resolvingParam'.step = "list"
        BY <3>3
      <4>. QED BY <2>0, <3>3, <4>1, <4>2, <4>3, VisitedStays DEF FirstInv
    <3>4. CASE /\ param # Null /\ resolvingParam = Null
               /\ SelectedTask # Null \/ refreshedForParam = param
               /\ Settle(openTaskCache) /\ UNCHANGED resolving
      <4>1. refreshedForParam' = refreshedForParam /\ resolvingParam' = Null
        BY <3>4 DEF resolving
      <4>2. Resolved(param, list, openTaskCache, navFetched) = Null => visits[param.seq] # 1
        BY <3>4 DEF FirstInv, SelectedTask
      <4>. QED BY <2>0, <3>4, <4>1, <4>2, SettleKeepsFirst
    <3>. QED BY <2>14, <3>1, <3>2, <3>3, <3>4 DEF NormalizeTaskParam, Entered
  <2>. QED BY <1>2, <2>1, <2>2, <2>3, <2>4, <2>5, <2>6, <2>8, <2>9, <2>10, <2>11, <2>12,
              <2>13, <2>14 DEF PageNext, PageStep
<1>. QED BY <1>1, <1>2

(* What the page starts with.                                                *)
LEMMA PageStarts == PageInit => PageTyped /\ FirstInv
<1>. SUFFICES ASSUME NEW fates \in [Seqs -> {"unborn", "open", "closed"}], PageFrom(fates)
              PROVE  PageTyped /\ FirstInv
  BY DEF PageInit
<1>1. stored \in [Seqs -> Fate]
  BY DEF PageFrom, Fate
<1>. QED BY <1>1 DEF PageFrom, PageTyped, FirstInv, FirstVisitOpens, Loaded, Idle

(* The first time the URL names a task nobody is told that it is missing     *)
(* while there is one: the page has asked the server for it, and the answer  *)
(* was about this task (normalizeTaskParam).                                 *)
THEOREM FirstVisitOpensAlways == PageSpec => []FirstVisitOpens
<1>1. PageInit => PageTyped /\ FirstInv
  BY PageStarts
<1>2. PageTyped /\ [PageNext]_pageVars => PageTyped'
  BY PageTypedStep
<1>3. CacheInv /\ PageTyped /\ FirstInv /\ [PageNext]_pageVars /\ PageTyped' => FirstInv'
  BY FirstStep
<1>4. PageSpec => []CacheInv
  BY CacheInvAlways
<1>5. FirstInv => FirstVisitOpens
  BY DEF FirstInv
<1>. QED BY <1>1, <1>2, <1>3, <1>4, <1>5, PTL DEF PageSpec

(* What the page has cached or fetched is a task of the project.             *)
PanelSeqs == openTaskCache \in Seqs \cup {Null} /\ navFetched \in Seqs \cup {Null}

(* A walk holds no task twice, so that it is no longer than they are many.   *)
WalksShort ==
    /\ navSeqs # Null => Len(navSeqs) <= Cardinality(Seqs)
    /\ navLoading # Null => Len(navLoading.walk) <= Cardinality(Seqs)

PageCounts ==
    /\ due \in BOOLEAN /\ failing \subseteq Seqs
    /\ clicks \in 0..MaxClicks /\ news \in 0..MaxNews

(* Whatever a step shows it shows by what is cached or by a task.            *)
LEMMA PanelMoves ==
    ASSUME PageTyped, PageNext
    PROVE  \/ UNCHANGED <<openTaskCache, navFetched>>
           \/ \E p, l : \E cached \in {openTaskCache} \cup Seqs, fetched \in {navFetched} \cup Seqs :
                 Shows(p, l, cached, fetched)
<1>. DEFINE Goal == \/ UNCHANGED <<openTaskCache, navFetched>>
                    \/ \E p, l : \E cached \in {openTaskCache} \cup Seqs, fetched \in {navFetched} \cup Seqs :
                          Shows(p, l, cached, fetched)
<1>1. ASSUME UNCHANGED panelVars PROVE Goal
  BY <1>1 DEF panelVars
<1>2. ASSUME NEW p, NEW l, Shows(p, l, openTaskCache, navFetched) PROVE Goal
  BY <1>2
<1>3. ASSUME NEW cached \in {openTaskCache} \cup Seqs, Settle(cached) PROVE Goal
  <2>1. \E p : Shows(p, list, cached, navFetched)
    BY <1>3 DEF Settle
  <2>. QED BY <2>1
<1>4. ASSUME NEW cached \in {openTaskCache} \cup Seqs, Finish(cached) PROVE Goal
  <2>1. \E p : Shows(p, list, cached, navFetched)
    BY <1>4 DEF Finish, Settle
  <2>. QED BY <2>1
<1>. HIDE DEF Goal
<1>5. ASSUME NEW walk, NEW by, Walked(walk, by) PROVE Goal
  BY <1>1, <1>2, <1>5 DEF Walked
<1>6. ASSUME NavAnswered PROVE Goal
  <2>. DEFINE seq == navLoading.seq
              fetched == IF navLoading.got = "found" THEN seq ELSE navFetched
  <2>1. seq \in Seqs
    BY <1>6 DEF NavAnswered, PageTyped
  <2>2. ASSUME navLoading.got = "missing" PROVE Goal
    <3>1. Walked(Without(navLoading.walk, seq), navLoading.by)
      BY <1>6, <2>2 DEF NavAnswered
    <3>. QED BY <1>5, <3>1
  <2>3. ASSUME UNCHANGED panelVars PROVE Goal
    BY <1>1, <2>3
  <2>4. ASSUME Shows(Number(seq), list, openTaskCache, fetched) PROVE Goal
    <3>1. fetched \in {navFetched} \cup Seqs
      BY <2>1
    <3>. QED BY <2>4, <3>1 DEF Goal
  <2>5. navLoading.got # "missing" => UNCHANGED panelVars \/ Shows(Number(seq), list, openTaskCache, fetched)
    BY <1>6 DEF NavAnswered
  <2>. QED BY <2>2, <2>3, <2>4, <2>5
<1>7. ASSUME TaskResolved PROVE Goal
  <2>. DEFINE cached == IF resolvingParam.step = "found" THEN resolvingParam.raw.seq
                        ELSE openTaskCache
  <2>1. resolvingParam.raw.seq \in Seqs /\ Finish(cached)
    BY <1>7 DEF TaskResolved, PageTyped, Resolution, Param
  <2>2. cached \in {openTaskCache} \cup Seqs
    BY <2>1
  <2>. QED BY <1>4, <2>1, <2>2
<1>8. ASSUME ListResolved \/ NormalizeTaskParam PROVE Goal
  BY <1>1, <1>3, <1>4, <1>8 DEF ListResolved, NormalizeTaskParam
<1>9. ASSUME NEW s \in Seqs, OpenTask(s) PROVE Goal
  BY <1>2, <1>9 DEF OpenTask
<1>10. ASSUME NEW s \in Seqs, NEW from, NEW to, Become(s, from, to) PROVE Goal
  BY <1>1, <1>10 DEF Become
<1>11. ASSUME NEW p \in Param, FollowLink(p) PROVE Goal
  BY <1>2, <1>11 DEF FollowLink
<1>12. ASSUME CloseSlideover \/ TasksAnswered \/ TasksFailed PROVE Goal
  BY <1>2, <1>12 DEF CloseSlideover, TasksAnswered, TasksFailed
<1>13. ASSUME CaptureNavOrder \/ RefreshTasks \/ ReadTasks PROVE Goal
  BY <1>1, <1>13 DEF CaptureNavOrder, RefreshTasks, ReadTasks
<1>14. ASSUME NEW by \in {-1, 1}, MoveDetail(by) PROVE Goal
  BY <1>5, <1>14 DEF MoveDetail
<1>15. ASSUME NEW answer, ServeNav(answer) \/ ServeTask(answer) PROVE Goal
  BY <1>1, <1>15 DEF ServeNav, ServeTask
<1>16. Goal
  BY <1>6, <1>7, <1>8, <1>9, <1>10, <1>11, <1>12, <1>13, <1>14, <1>15 DEF PageNext, PageStep
<1>. QED BY <1>16 DEF Goal

LEMMA PanelSeqsStep == PageTyped /\ PanelSeqs /\ PageTyped' /\ [PageNext]_pageVars => PanelSeqs'
<1>. SUFFICES ASSUME PageTyped, PanelSeqs, PageTyped', [PageNext]_pageVars PROVE PanelSeqs'
  OBVIOUS
<1>1. CASE UNCHANGED <<openTaskCache, navFetched>>
  BY <1>1 DEF PanelSeqs
<1>2. ASSUME NEW p, NEW l, NEW cached \in {openTaskCache} \cup Seqs, NEW fetched \in {navFetched} \cup Seqs,
             Shows(p, l, cached, fetched)
      PROVE  PanelSeqs'
  <2>1. p \in Param \cup {Null}
    BY <1>2 DEF Shows, PageTyped
  <2>2. p # Null => p.seq \in Seqs
    BY <2>1 DEF Param
  <2>3. Resolved(p, l, cached, fetched) \in Seqs \cup {Null}
    BY <2>2 DEF Resolved
  <2>4. cached \in Seqs \cup {Null} /\ fetched \in Seqs \cup {Null}
    BY DEF PanelSeqs
  <2>. QED BY <1>2, <2>3, <2>4 DEF Shows, Cached, PanelSeqs
<1>3. CASE UNCHANGED pageVars
  BY <1>1, <1>3 DEF pageVars, panelVars
<1>4. CASE PageNext
  BY <1>1, <1>2, <1>4, PanelMoves
<1>. QED BY <1>3, <1>4

LEMMA ShortWithout ==
    ASSUME NEW walk \in Seq(Seqs), NEW seq \in Visits(walk)
    PROVE  Len(Without(walk, seq)) <= Len(walk)
<1>1. PICK i \in DOMAIN walk : i = CHOOSE k \in DOMAIN walk : walk[k] = seq
  BY DEF Visits
<1>2. Without(walk, seq) = RemoveAt(walk, i)
  BY <1>1 DEF Without
<1>3. i \in 1..Len(walk) /\ Len(walk) \in Nat
  OBVIOUS
<1>4. Len(RemoveAt(walk, i)) = Len(walk) - 1
  <2>1. SubSeq(walk, 1, i - 1) \in Seq(Seqs) /\ Len(SubSeq(walk, 1, i - 1)) = i - 1
    BY <1>3
  <2>2. SubSeq(walk, i + 1, Len(walk)) \in Seq(Seqs) /\ Len(SubSeq(walk, i + 1, Len(walk))) = Len(walk) - i
    BY <1>3
  <2>. DEFINE x == SubSeq(walk, 1, i - 1)
              y == SubSeq(walk, i + 1, Len(walk))
  <2>. HIDE DEF x, y
  <2>3. Len(x \o y) = Len(walk) - 1
    <3>1. x \in Seq(Seqs) /\ Len(x) = i - 1 /\ y \in Seq(Seqs) /\ Len(y) = Len(walk) - i
      BY <2>1, <2>2 DEF x, y
    <3>2. Len(x \o y) = Len(x) + Len(y)
      BY <3>1, ConcatProperties
    <3>. QED BY <1>3, <3>1, <3>2
  <2>4. RemoveAt(walk, i) = x \o y
    BY DEF RemoveAt, x, y
  <2>. QED BY <2>3, <2>4
<1>. QED BY <1>2, <1>3, <1>4

LEMMA ShortCaptured ==
    ASSUME PageTyped, WalksShort, NEW walk \in Captured, walk # Null
    PROVE  Len(walk) <= Cardinality(Seqs)
<1>1. CASE list = {}
  BY <1>1 DEF Captured, WalksShort
<1>2. CASE list # {}
  <2>1. IsFiniteSet(list) /\ Cardinality(list) <= Cardinality(Seqs)
    BY PageAssumption, FS_Subset DEF PageTyped
  <2>2. Cardinality(list) \in Nat
    BY <2>1, FS_CardinalityType
  <2>3. walk \in [1..Cardinality(list) -> list]
    BY <1>2 DEF Captured, SetToSeqs
  <2>4. Len(walk) = Cardinality(list)
    BY <2>2, <2>3
  <2>. QED BY <2>1, <2>4
<1>. QED BY <1>1, <1>2

LEMMA ShortWalked ==
    ASSUME NEW walk, NEW by, Len(walk) <= Cardinality(Seqs), Walked(walk, by), navLoading' # Null
    PROVE  Len(navLoading'.walk) <= Cardinality(Seqs)
BY DEF Walked

LEMMA WalksShortStep == PageTyped /\ WalksShort /\ [PageNext]_pageVars => WalksShort'
<1>. SUFFICES ASSUME PageTyped, WalksShort, [PageNext]_pageVars PROVE WalksShort'
  OBVIOUS
<1>. DEFINE Short(w) == Len(w) <= Cardinality(Seqs)
<1>1. ASSUME navSeqs' \in {navSeqs, Null}, navLoading' \in {navLoading, Null} PROVE WalksShort'
  BY <1>1 DEF WalksShort
<1>2. CASE UNCHANGED pageVars
  BY <1>1, <1>2 DEF pageVars, navVars
<1>3. ASSUME NEW s \in Seqs, OpenTask(s) PROVE WalksShort'
  BY <1>3, ShortCaptured DEF OpenTask, WalksShort
<1>4. CASE CaptureNavOrder
  BY <1>4, ShortCaptured DEF CaptureNavOrder, WalksShort
<1>5. ASSUME NEW by \in {-1, 1}, MoveDetail(by) PROVE WalksShort'
  <2>1. Short(navSeqs) /\ Walked(navSeqs, by) /\ navSeqs' = navSeqs
    BY <1>5 DEF MoveDetail, WalksShort
  <2>. QED BY <2>1, ShortWalked DEF WalksShort
<1>6. CASE NavAnswered
  <2>. DEFINE seq == navLoading.seq
  <2>1. /\ seq \in Visits(navLoading.walk) /\ navLoading.walk \in Seq(Seqs) /\ Short(navLoading.walk)
        /\ navLoading # Null
    BY <1>6 DEF NavAnswered, PageTyped, WalksShort
  <2>2. CASE navLoading.got = "missing"
    <3>1. Short(Without(navLoading.walk, seq))
      <4>1. Len(Without(navLoading.walk, seq)) <= Len(navLoading.walk)
        BY <2>1, ShortWithout
      <4>2. Len(navLoading.walk) \in Nat /\ Len(Without(navLoading.walk, seq)) \in Nat
        BY <2>1, WithoutIsAWalk
      <4>3. Cardinality(Seqs) \in Nat
        BY PageAssumption, FS_CardinalityType
      <4>. QED BY <2>1, <4>1, <4>2, <4>3
    <3>2. /\ navSeqs' = Without(navLoading.walk, seq)
          /\ Walked(Without(navLoading.walk, seq), navLoading.by)
      BY <1>6, <2>2 DEF NavAnswered
    <3>. QED BY <3>1, <3>2, ShortWalked DEF WalksShort
  <2>3. CASE navLoading.got # "missing"
    <3>1. navLoading' = Null /\ navSeqs' = navSeqs
      BY <1>6, <2>3 DEF NavAnswered
    <3>. QED BY <1>1, <3>1
  <2>. QED BY <2>2, <2>3
<1>7. ASSUME NEW answer \in Verdict, ServeNav(answer) PROVE WalksShort'
  <2>1. navLoading # Null /\ navLoading' = [navLoading EXCEPT !.got = answer] /\ navSeqs' = navSeqs
    BY <1>7 DEF ServeNav
  <2>2. navLoading'.walk = navLoading.walk
    BY <2>1 DEF PageTyped
  <2>. QED BY <2>1, <2>2 DEF WalksShort
<1>8. ASSUME NEW s \in Seqs, NEW from, NEW to, Become(s, from, to) PROVE WalksShort'
  BY <1>1, <1>8 DEF Become, navVars
<1>9. ASSUME NEW p \in Param, FollowLink(p) PROVE WalksShort'
  BY <1>1, <1>9 DEF FollowLink, navVars
<1>10. CASE CloseSlideover \/ RefreshTasks \/ ReadTasks \/ TasksAnswered \/ TasksFailed
  BY <1>1, <1>10 DEF CloseSlideover, RefreshTasks, ReadTasks, TasksAnswered, TasksFailed, navVars
<1>11. CASE ListResolved \/ TaskResolved \/ NormalizeTaskParam
  BY <1>1, <1>11 DEF ListResolved, TaskResolved, NormalizeTaskParam, Finish, Settle
<1>12. ASSUME NEW answer \in Verdict, ServeTask(answer) PROVE WalksShort'
  BY <1>1, <1>12 DEF ServeTask, navVars
<1>. HIDE DEF Short
<1>. QED BY <1>2, <1>3, <1>4, <1>5, <1>6, <1>7, <1>8, <1>9, <1>10, <1>11, <1>12 DEF PageNext, PageStep

LEMMA PageCountsStep == PageTyped /\ PageCounts /\ [PageNext]_pageVars => PageCounts'
<1>. SUFFICES ASSUME PageTyped, PageCounts, [PageNext]_pageVars PROVE PageCounts'
  OBVIOUS
<1>1. /\ clicks' \in {clicks, clicks + 1} /\ (clicks' = clicks \/ clicks < MaxClicks)
      /\ news' \in {news, news + 1} /\ (news' = news \/ news < MaxNews)
  BY DEF PageNext, PageStep, pageVars, Click, News, Event, Quiet, OpenTask, Become, FollowLink, CloseSlideover,
     CaptureNavOrder, MoveDetail, RefreshTasks, ReadTasks, TasksAnswered, TasksFailed, NavAnswered,
     ListResolved, TaskResolved, ServeNav, ServeTask, NormalizeTaskParam
<1>2. clicks' \in 0..MaxClicks /\ news' \in 0..MaxNews
  <2>1. MaxClicks \in Nat /\ MaxNews \in Nat
    BY PageAssumption
  <2>. QED BY <1>1, <2>1 DEF PageCounts
<1>3. due' \in BOOLEAN
  BY DEF PageNext, pageVars, PageCounts
<1>4. failing' \subseteq failing \cup Seqs
  <2>1. ASSUME NEW answer \in Verdict, ServeNav(answer) PROVE failing' \subseteq failing \cup Seqs
    BY <2>1 DEF ServeNav, Served, PageTyped
  <2>2. ASSUME NEW answer \in Verdict, ServeTask(answer) PROVE failing' \subseteq failing \cup Seqs
    BY <2>2 DEF ServeTask, Served, PageTyped, Resolution, Param
  <2>3. \/ failing' = failing
        \/ \E answer \in Verdict : ServeNav(answer) \/ ServeTask(answer)
    BY DEF PageNext, PageStep, pageVars, OpenTask, Become, FollowLink, CloseSlideover,
       CaptureNavOrder, MoveDetail, RefreshTasks, ReadTasks, TasksAnswered, TasksFailed, NavAnswered,
       ListResolved, TaskResolved, NormalizeTaskParam
  <2>. QED BY <2>1, <2>2, <2>3
<1>. QED BY <1>2, <1>3, <1>4 DEF PageCounts

LEMMA WalkOf ==
    ASSUME NEW walk \in Seq(Seqs), Len(walk) <= Cardinality(Seqs)
    PROVE  walk \in Walk
<1>1. Cardinality(Seqs) \in Nat
  BY PageAssumption, FS_CardinalityType
<1>2. Len(walk) \in 0..Cardinality(Seqs) /\ walk \in [1..Len(walk) -> Seqs]
  BY <1>1
<1>. QED BY <1>2 DEF Walk

(* tasks/index.vue: what the panel of the list, its URL, its requests and    *)
(* its arrows hold; the arrows walk through no more tasks than there are,    *)
(* however often one that is gone is left out and the list drawn anew.       *)
THEOREM PageTypeCorrect == PageSpec => []PageTypeOK
<1>. DEFINE Typed == PageTyped /\ PanelSeqs /\ WalksShort /\ PageCounts
<1>1. PageInit => Typed
  <2>. SUFFICES ASSUME PageInit PROVE Typed
    OBVIOUS
  <2>1. PageTyped
    BY PageStarts
  <2>2. /\ openTaskCache = Null /\ navFetched = Null /\ navSeqs = Null /\ navLoading = Null
        /\ due = FALSE /\ failing = {} /\ clicks = 0 /\ news = 0
    BY DEF PageInit, PageFrom
  <2>3. 0 \in 0..MaxClicks /\ 0 \in 0..MaxNews
    BY PageAssumption
  <2>. QED BY <2>1, <2>2, <2>3 DEF PanelSeqs, WalksShort, PageCounts
<1>2. Typed /\ [PageNext]_pageVars => Typed'
  BY PageTypedStep, PanelSeqsStep, WalksShortStep, PageCountsStep
<1>3. Typed => PageTypeOK
  <2>. SUFFICES ASSUME Typed PROVE PageTypeOK
    OBVIOUS
  <2>1. navSeqs \in Walk \cup {Null}
    BY WalkOf DEF PageTyped, WalksShort
  <2>2. navLoading \in [seq : Seqs, by : {-1, 1}, walk : Walk, got : Verdict \cup {"sent"}] \cup {Null}
    <3>1. CASE navLoading # Null
      <4>1. navLoading \in [seq : Seqs, by : {-1, 1}, walk : Seq(Seqs), got : Verdict \cup {"sent"}]
        BY <3>1 DEF PageTyped
      <4>2. navLoading.walk \in Walk
        BY <3>1, <4>1, WalkOf DEF WalksShort
      <4>. QED BY <4>1, <4>2
    <3>. QED BY <3>1
  <2>. QED BY <2>1, <2>2 DEF PageTypeOK, PageTyped, PanelSeqs, PageCounts
<1>. QED BY <1>1, <1>2, <1>3, PTL DEF PageSpec

---------------------------------------------------------------------------
(* TaskMovePlan: a task that moves to another project *)

(* A move is ordered for a task; with that, what is asked of the tables is   *)
(* its own inductive invariant.                                              *)
HomeInv ==
    /\ db \in Db /\ RefersHome
    /\ "job" \in DOMAIN dialog /\ dialog.job \in Jobs
    /\ \A o \in orders : o.job \in Jobs

(* A database is its tables.                                                 *)
TableNames == {"job", "piece", "remark", "bonds", "staff", "badge", "readonly", "stages", "archived"}

TablesTyped(d) ==
    /\ d.job \in [Jobs -> Job] /\ d.piece \in [Pieces -> Piece]
    /\ d.remark \in [Remarks -> Remark \cup {Blank}] /\ d.bonds \in SUBSET SUBSET Jobs
    /\ d.staff \in [Staff -> Person \cup {Blank}] /\ d.badge \in [Badges -> Badge \cup {Blank}]
    /\ d.readonly \in SUBSET Patrons /\ d.stages \in [Sites -> SUBSET StageCodes]
    /\ d.archived \in SUBSET Sites

LEMMA PartsOfDb == ASSUME NEW d \in Db PROVE DOMAIN d = TableNames /\ TablesTyped(d)
  BY DEF Db, TableNames, TablesTyped

LEMMA DbOfParts ==
    ASSUME NEW d, d = [t \in TableNames |-> d[t]], TablesTyped(d)
    PROVE  d \in Db
<1>1. d = [job |-> d.job, piece |-> d.piece, remark |-> d.remark, bonds |-> d.bonds,
           staff |-> d.staff, badge |-> d.badge, readonly |-> d.readonly,
           stages |-> d.stages, archived |-> d.archived]
  BY DEF TableNames
<1>. QED BY <1>1 DEF Db, TablesTyped

(* A member that stands for another, and a flag that does, are of the target.*)
LEMMA MapMemberIsThere ==
    ASSUME NEW m, NEW to, NEW asAssignee
    PROVE  MapMember(m, to, asAssignee) \in StaffOf(to) \cup {Blank}
<1>. DEFINE hits == {t \in StaffOf(to) : Stands(m, t)}
<1>1. CASE hits = {}
  BY <1>1 DEF MapMember
<1>2. CASE hits # {}
  <2>1. (CHOOSE t \in hits : TRUE) \in StaffOf(to)
    BY <1>2
  <2>. QED BY <2>1 DEF MapMember
<1>. QED BY <1>1, <1>2

LEMMA SubstitutedAreThere ==
    ASSUME NEW bs, NEW to
    PROVE  Substituted(bs, to) \subseteq BadgesOf(to)
<1>1. ASSUME NEW b \in Kept(bs, to) PROVE Mapped(b, to) \in BadgesOf(to)
  <2>1. Twins(b, to) # {}
    BY <1>1 DEF Kept
  <2>2. Mapped(b, to) \in Twins(b, to)
    BY <2>1 DEF Mapped
  <2>. QED BY <2>2 DEF Twins
<1>. QED BY <1>1 DEF Substituted

(* A flag is removed from its table and from what wears it.                  *)
LEMMA RemoveBadgeKeepsHome ==
    ASSUME db \in Db, RefersHome, NEW b \in Badges, RemoveBadge(b)
    PROVE  db' \in Db /\ RefersHome'
<1>0. DOMAIN db = TableNames /\ TablesTyped(db)
  BY PartsOfDb
<1>1. /\ db'.badge = [db.badge EXCEPT ![b] = Blank]
      /\ db'.job = [j \in Jobs |-> [db.job[j] EXCEPT !.badges = @ \ {b}]]
      /\ db'.piece = [p \in Pieces |-> [db.piece[p] EXCEPT !.badges = @ \ {b}]]
  BY <1>0 DEF RemoveBadge, Touched, TableNames
<1>2. UNCHANGED <<db.remark, db.bonds, db.staff, db.readonly, db.stages, db.archived>>
  BY <1>0 DEF RemoveBadge, Touched, TableNames
<1>3. db'.badge \in [Badges -> Badge \cup {Blank}]
  BY <1>0, <1>1 DEF TablesTyped
<1>4. \A j \in Jobs : /\ db'.job[j] \in Job /\ db'.job[j].badges = db.job[j].badges \ {b}
                      /\ db'.job[j].site = db.job[j].site
                      /\ db'.job[j].stage = db.job[j].stage
                      /\ db'.job[j].assignee = db.job[j].assignee
                      /\ db'.job[j].requester = db.job[j].requester
  <2>1. TAKE j \in Jobs
  <2>2. db.job[j] \in Job
    BY <1>0 DEF TablesTyped
  <2>3. db'.job[j] = [db.job[j] EXCEPT !.badges = @ \ {b}]
    BY <1>1
  <2>. QED BY <2>2, <2>3 DEF Job
<1>5. \A p \in Pieces : /\ db'.piece[p] \in Piece
                        /\ db'.piece[p].badges = db.piece[p].badges \ {b}
                        /\ db'.piece[p].site = db.piece[p].site
                        /\ db'.piece[p].job = db.piece[p].job
                        /\ db'.piece[p].assignee = db.piece[p].assignee
  <2>1. db.piece \in [Pieces -> Piece]
    BY <1>0 DEF TablesTyped
  <2>. QED BY <1>1, <2>1 DEF Piece
<1>6. db' \in Db
  <2>1. db'.job \in [Jobs -> Job] /\ db'.piece \in [Pieces -> Piece]
    BY <1>1, <1>4, <1>5
  <2>2. db' = [t \in TableNames |-> db'[t]]
    BY <1>0 DEF RemoveBadge, Touched
  <2>. QED BY <1>0, <1>2, <1>3, <2>1, <2>2, DbOfParts DEF TablesTyped
<1>7. \A s : BadgesOf(s)' = BadgesOf(s) \ {b} /\ StaffOf(s)' = StaffOf(s)
  BY <1>0, <1>1, <1>2 DEF TablesTyped, BadgesOf, StaffOf
<1>8. \A j \in Jobs : JobIsHome(j)'
  BY <1>2, <1>4, <1>7 DEF RefersHome, JobIsHome
<1>9. \A p \in Pieces : PieceIsHome(p)'
  BY <1>0, <1>4, <1>5, <1>7 DEF TablesTyped, RefersHome, PieceIsHome, Piece
<1>10. \A r \in Remarks : db'.remark[r] # Blank => RemarkIsHome(r)'
  BY <1>0, <1>2, <1>4, <1>7 DEF TablesTyped, RefersHome, RemarkIsHome, Remark
<1>11. \A e \in db'.bonds : BondIsHome(e)'
  BY <1>0, <1>2, <1>4 DEF TablesTyped, RefersHome, BondIsHome
<1>. QED BY <1>6, <1>8, <1>9, <1>10, <1>11 DEF RefersHome

(* Nothing that a row refers to is touched, and no stage that a task is at.  *)
LEMMA SameRowsAreHome ==
    ASSUME RefersHome,
           UNCHANGED <<db.job, db.piece, db.remark, db.bonds>>,
           \A s : StaffOf(s)' = StaffOf(s) /\ BadgesOf(s)' = BadgesOf(s),
           \A j \in Jobs : db'.job[j].stage \in db'.stages[db'.job[j].site]
    PROVE  RefersHome'
<1>1. \A j \in Jobs : JobIsHome(j)'
  BY DEF RefersHome, JobIsHome
<1>2. \A p \in Pieces : PieceIsHome(p)'
  BY DEF RefersHome, PieceIsHome
<1>3. \A r \in Remarks : db'.remark[r] # Blank => RemarkIsHome(r)'
  BY DEF RefersHome, RemarkIsHome
<1>4. \A e \in db'.bonds : BondIsHome(e)'
  BY DEF RefersHome, BondIsHome
<1>. QED BY <1>1, <1>2, <1>3, <1>4 DEF RefersHome

LEMMA RenameBadgeKeepsHome ==
    ASSUME db \in Db, RefersHome, NEW b \in Badges, NEW name \in Titles, RenameBadge(b, name)
    PROVE  db' \in Db /\ RefersHome'
<1>0. DOMAIN db = TableNames /\ TablesTyped(db)
  BY PartsOfDb
<1>1. db'.badge = [db.badge EXCEPT ![b].name = name]
  BY <1>0 DEF RenameBadge, Touched, TableNames
<1>2. UNCHANGED <<db.job, db.piece, db.remark, db.bonds, db.staff, db.readonly, db.stages,
                  db.archived>>
  BY <1>0 DEF RenameBadge, Touched, TableNames
<1>3. db' = [t \in TableNames |-> db'[t]]
  BY <1>0 DEF RenameBadge, Touched
<1>4. db.badge[b] \in Badge
  BY <1>0 DEF RenameBadge, TablesTyped
<1>5. [db.badge[b] EXCEPT !.name = name] \in Badge
  BY <1>4 DEF Badge
<1>6. db'.badge[b] = [db.badge[b] EXCEPT !.name = name]
  BY <1>0, <1>1 DEF TablesTyped
<1>7. db'.badge \in [Badges -> Badge \cup {Blank}]
  BY <1>0, <1>1, <1>5 DEF TablesTyped
<1>8. db' \in Db
  BY <1>0, <1>2, <1>3, <1>7, DbOfParts DEF TablesTyped
<1>9. db'.badge[b] # Blank /\ db'.badge[b].site = db.badge[b].site
  <2>1. [db.badge[b] EXCEPT !.name = name].site = db.badge[b].site
    BY <1>4 DEF Badge
  <2>. QED BY <1>5, <1>6, <2>1, MovePlanAssumption
<1>10. \A c \in Badges \ {b} : db'.badge[c] = db.badge[c]
  BY <1>0, <1>1 DEF TablesTyped
<1>11. \A s : StaffOf(s)' = StaffOf(s) /\ BadgesOf(s)' = BadgesOf(s)
  BY <1>2, <1>9, <1>10 DEF StaffOf, BadgesOf, RenameBadge
<1>12. RefersHome'
  BY <1>2, <1>11, SameRowsAreHome DEF RefersHome, JobIsHome
<1>. QED BY <1>8, <1>12

(* Rights, archives, and a stage no task of the project is at.               *)
LEMMA SettingsKeepHome ==
    ASSUME db \in Db, RefersHome,
           \/ \E u \in Patrons : ToggleReadonly(u)
           \/ \E s \in Sites : Archive(s)
           \/ \E s \in Sites, c \in StageCodes : RemoveStage(s, c)
    PROVE  db' \in Db /\ RefersHome'
<1>0. DOMAIN db = TableNames /\ TablesTyped(db)
  BY PartsOfDb
<1>1. \A j \in Jobs : db.job[j].stage \in db.stages[db.job[j].site]
  BY DEF RefersHome, JobIsHome
<1>2. ASSUME NEW u \in Patrons, ToggleReadonly(u) PROVE db' \in Db /\ RefersHome'
  <2>1. /\ db'.readonly = (db.readonly \ {u}) \cup ({u} \ db.readonly)
        /\ UNCHANGED <<db.job, db.piece, db.remark, db.bonds, db.staff, db.badge, db.stages,
                       db.archived>>
    BY <1>0, <1>2 DEF ToggleReadonly, Touched, TableNames
  <2>2. db' = [t \in TableNames |-> db'[t]]
    BY <1>0, <1>2 DEF ToggleReadonly, Touched
  <2>3. db' \in Db
    BY <1>0, <2>1, <2>2, DbOfParts DEF TablesTyped
  <2>4. \A s : StaffOf(s)' = StaffOf(s) /\ BadgesOf(s)' = BadgesOf(s)
    BY <2>1 DEF StaffOf, BadgesOf
  <2>. QED BY <1>1, <2>1, <2>3, <2>4, SameRowsAreHome
<1>3. ASSUME NEW s \in Sites, Archive(s) PROVE db' \in Db /\ RefersHome'
  <2>1. /\ db'.archived = db.archived \cup {s}
        /\ UNCHANGED <<db.job, db.piece, db.remark, db.bonds, db.staff, db.badge, db.stages,
                       db.readonly>>
    BY <1>0, <1>3 DEF Archive, Touched, TableNames
  <2>2. db' = [t \in TableNames |-> db'[t]]
    BY <1>0, <1>3 DEF Archive, Touched
  <2>3. db' \in Db
    BY <1>0, <2>1, <2>2, DbOfParts DEF TablesTyped
  <2>4. \A t : StaffOf(t)' = StaffOf(t) /\ BadgesOf(t)' = BadgesOf(t)
    BY <2>1 DEF StaffOf, BadgesOf
  <2>. QED BY <1>1, <2>1, <2>3, <2>4, SameRowsAreHome
<1>4. ASSUME NEW s \in Sites, NEW c \in StageCodes, RemoveStage(s, c)
      PROVE  db' \in Db /\ RefersHome'
  <2>1. /\ db'.stages = [db.stages EXCEPT ![s] = @ \ {c}]
        /\ UNCHANGED <<db.job, db.piece, db.remark, db.bonds, db.staff, db.badge, db.archived,
                       db.readonly>>
    BY <1>0, <1>4 DEF RemoveStage, Touched, TableNames
  <2>2. db' = [t \in TableNames |-> db'[t]]
    BY <1>0, <1>4 DEF RemoveStage, Touched
  <2>3. db' \in Db
    BY <1>0, <2>1, <2>2, DbOfParts DEF TablesTyped
  <2>4. \A t : StaffOf(t)' = StaffOf(t) /\ BadgesOf(t)' = BadgesOf(t)
    BY <2>1 DEF StaffOf, BadgesOf
  <2>5. \A j \in Jobs : db.job[j].site \in Sites
    BY <1>0 DEF TablesTyped, Job
  <2>6. \A j \in Jobs : db'.job[j].stage \in db'.stages[db'.job[j].site]
    BY <1>0, <1>1, <1>4, <2>1, <2>5 DEF RemoveStage, TablesTyped
  <2>. QED BY <2>1, <2>3, <2>4, <2>6, SameRowsAreHome
<1>. QED BY <1>2, <1>3, <1>4

(* A member is removed from the table and from what names them.              *)
LEMMA RemoveMemberKeepsHome ==
    ASSUME db \in Db, RefersHome, NEW m \in Staff, RemoveMember(m)
    PROVE  db' \in Db /\ RefersHome'
<1>. DEFINE without(x) == IF x = m THEN Blank ELSE x
<1>0. DOMAIN db = TableNames /\ TablesTyped(db)
  BY PartsOfDb
<1>1. /\ db'.staff = [db.staff EXCEPT ![m] = Blank]
      /\ db'.job = [j \in Jobs |-> [db.job[j] EXCEPT !.assignee = without(@),
                                                     !.requester = without(@)]]
      /\ db'.piece = [p \in Pieces |-> [db.piece[p] EXCEPT !.assignee = without(@)]]
      /\ db'.remark = [r \in Remarks |-> IF db.remark[r] = Blank THEN Blank
                                         ELSE [db.remark[r] EXCEPT !.author = without(@)]]
  BY <1>0 DEF RemoveMember, Touched, TableNames
<1>2. UNCHANGED <<db.bonds, db.badge, db.readonly, db.stages, db.archived>>
  BY <1>0 DEF RemoveMember, Touched, TableNames
<1>3. db' = [t \in TableNames |-> db'[t]]
  BY <1>0 DEF RemoveMember, Touched
<1>4. \A j \in Jobs : /\ db'.job[j] \in Job
                      /\ db'.job[j].assignee = without(db.job[j].assignee)
                      /\ db'.job[j].requester = without(db.job[j].requester)
                      /\ db'.job[j].site = db.job[j].site
                      /\ db'.job[j].stage = db.job[j].stage
                      /\ db'.job[j].badges = db.job[j].badges
  <2>. TAKE j \in Jobs
  <2>1. db.job[j] \in Job
    BY <1>0 DEF TablesTyped
  <2>2. db'.job[j] = [db.job[j] EXCEPT !.assignee = without(@), !.requester = without(@)]
    BY <1>1
  <2>. QED BY <2>1, <2>2 DEF Job
<1>5. \A p \in Pieces : /\ db'.piece[p] \in Piece
                        /\ db'.piece[p].assignee = without(db.piece[p].assignee)
                        /\ db'.piece[p].site = db.piece[p].site
                        /\ db'.piece[p].job = db.piece[p].job
                        /\ db'.piece[p].badges = db.piece[p].badges
  <2>. TAKE p \in Pieces
  <2>1. db.piece[p] \in Piece
    BY <1>0 DEF TablesTyped
  <2>2. db'.piece[p] = [db.piece[p] EXCEPT !.assignee = without(@)]
    BY <1>1
  <2>. QED BY <2>1, <2>2 DEF Piece
<1>6. \A r \in Remarks :
        /\ db'.remark[r] \in Remark \cup {Blank}
        /\ db'.remark[r] # Blank => /\ db.remark[r] # Blank
                                    /\ db'.remark[r].author = without(db.remark[r].author)
                                    /\ db'.remark[r].site = db.remark[r].site
                                    /\ db'.remark[r].job = db.remark[r].job
  <2>. TAKE r \in Remarks
  <2>1. CASE db.remark[r] = Blank
    BY <1>1, <2>1
  <2>2. CASE db.remark[r] # Blank
    <3>1. db.remark[r] \in Remark
      BY <1>0, <2>2 DEF TablesTyped
    <3>2. db'.remark[r] = [db.remark[r] EXCEPT !.author = without(@)]
      BY <1>1, <2>2
    <3>. QED BY <2>2, <3>1, <3>2 DEF Remark
  <2>. QED BY <2>1, <2>2
<1>7. db' \in Db
  <2>1. db'.job \in [Jobs -> Job]
    BY <1>1, <1>4
  <2>2. db'.piece \in [Pieces -> Piece]
    BY <1>1, <1>5
  <2>3. db'.remark \in [Remarks -> Remark \cup {Blank}]
    BY <1>1, <1>6
  <2>4. db'.staff \in [Staff -> Person \cup {Blank}]
    BY <1>0, <1>1 DEF TablesTyped
  <2>. QED BY <1>0, <1>2, <1>3, <2>1, <2>2, <2>3, <2>4, DbOfParts DEF TablesTyped
<1>8. \A s : BadgesOf(s)' = BadgesOf(s) /\ StaffOf(s)' = StaffOf(s) \ {m}
  <2>1. db'.staff[m] = Blank /\ \A n \in Staff \ {m} : db'.staff[n] = db.staff[n]
    BY <1>0, <1>1 DEF TablesTyped
  <2>2. \A s : StaffOf(s)' = StaffOf(s) \ {m}
    BY <2>1 DEF StaffOf
  <2>. QED BY <1>2, <2>2 DEF BadgesOf
<1>9. \A j \in Jobs : JobIsHome(j)'
  BY <1>2, <1>4, <1>8 DEF RefersHome, JobIsHome
<1>10. \A p \in Pieces : PieceIsHome(p)'
  BY <1>0, <1>4, <1>5, <1>8 DEF TablesTyped, RefersHome, PieceIsHome, Piece
<1>11. \A r \in Remarks : db'.remark[r] # Blank => RemarkIsHome(r)'
  BY <1>0, <1>4, <1>6, <1>8 DEF TablesTyped, RefersHome, RemarkIsHome, Remark
<1>12. \A e \in db'.bonds : BondIsHome(e)'
  BY <1>0, <1>2, <1>4 DEF TablesTyped, RefersHome, BondIsHome
<1>. QED BY <1>7, <1>9, <1>10, <1>11, <1>12 DEF RefersHome

(* What the pages offer is of the project.                                   *)
LEMMA AssignKeepsHome ==
    ASSUME db \in Db, RefersHome, NEW j \in Jobs, NEW m \in Staff \cup {Blank}, Assign(j, m)
    PROVE  db' \in Db /\ RefersHome'
<1>0. DOMAIN db = TableNames /\ TablesTyped(db)
  BY PartsOfDb
<1>1. db'.job = [db.job EXCEPT ![j].assignee = m]
  BY <1>0 DEF Assign, Touched, TableNames
<1>2. UNCHANGED <<db.piece, db.remark, db.bonds, db.staff, db.badge, db.readonly, db.stages,
                  db.archived>>
  BY <1>0 DEF Assign, Touched, TableNames
<1>3. db' = [t \in TableNames |-> db'[t]]
  BY <1>0 DEF Assign, Touched
<1>4. db.job[j] \in Job
  BY <1>0 DEF TablesTyped
<1>5. db'.job[j] = [db.job[j] EXCEPT !.assignee = m]
  BY <1>0, <1>1 DEF TablesTyped
<1>6. /\ db'.job[j] \in Job /\ db'.job[j].assignee = m
      /\ db'.job[j].site = db.job[j].site /\ db'.job[j].stage = db.job[j].stage
      /\ db'.job[j].requester = db.job[j].requester /\ db'.job[j].badges = db.job[j].badges
  BY <1>4, <1>5 DEF Job
<1>7. \A k \in Jobs \ {j} : db'.job[k] = db.job[k]
  BY <1>0, <1>1 DEF TablesTyped
<1>8. db' \in Db
  <2>1. db'.job \in [Jobs -> Job]
    BY <1>0, <1>1, <1>5, <1>6 DEF TablesTyped
  <2>. QED BY <1>0, <1>2, <1>3, <2>1, DbOfParts DEF TablesTyped
<1>9. \A s : StaffOf(s)' = StaffOf(s) /\ BadgesOf(s)' = BadgesOf(s)
  BY <1>2 DEF StaffOf, BadgesOf
<1>10. \A k \in Jobs : db'.job[k].site = db.job[k].site
  BY <1>6, <1>7
<1>11. \A k \in Jobs : JobIsHome(k)'
  <2>1. JobIsHome(j)'
    BY <1>2, <1>6, <1>9 DEF Assign, RefersHome, JobIsHome
  <2>2. \A k \in Jobs \ {j} : JobIsHome(k)'
    BY <1>2, <1>7, <1>9 DEF RefersHome, JobIsHome
  <2>. QED BY <2>1, <2>2
<1>12. \A p \in Pieces : PieceIsHome(p)'
  BY <1>0, <1>2, <1>9, <1>10 DEF TablesTyped, RefersHome, PieceIsHome, Piece
<1>13. \A r \in Remarks : db'.remark[r] # Blank => RemarkIsHome(r)'
  BY <1>0, <1>2, <1>9, <1>10 DEF TablesTyped, RefersHome, RemarkIsHome, Remark
<1>14. \A e \in db'.bonds : BondIsHome(e)'
  BY <1>0, <1>2, <1>10 DEF TablesTyped, RefersHome, BondIsHome
<1>. QED BY <1>8, <1>11, <1>12, <1>13, <1>14 DEF RefersHome

LEMMA BadgePieceKeepsHome ==
    ASSUME db \in Db, RefersHome, NEW p \in Pieces, NEW b \in Badges, BadgePiece(p, b)
    PROVE  db' \in Db /\ RefersHome'
<1>0. DOMAIN db = TableNames /\ TablesTyped(db)
  BY PartsOfDb
<1>1. db'.piece = [db.piece EXCEPT ![p].badges = @ \cup {b}]
  BY <1>0 DEF BadgePiece, Touched, TableNames
<1>2. UNCHANGED <<db.job, db.remark, db.bonds, db.staff, db.badge, db.readonly, db.stages,
                  db.archived>>
  BY <1>0 DEF BadgePiece, Touched, TableNames
<1>3. db' = [t \in TableNames |-> db'[t]]
  BY <1>0 DEF BadgePiece, Touched
<1>4. db.piece[p] \in Piece
  BY <1>0 DEF TablesTyped
<1>5. db'.piece[p] = [db.piece[p] EXCEPT !.badges = @ \cup {b}]
  BY <1>0, <1>1 DEF TablesTyped
<1>6. /\ db'.piece[p] \in Piece /\ db'.piece[p].badges = db.piece[p].badges \cup {b}
      /\ db'.piece[p].site = db.piece[p].site /\ db'.piece[p].job = db.piece[p].job
      /\ db'.piece[p].assignee = db.piece[p].assignee
  BY <1>4, <1>5 DEF Piece
<1>7. \A q \in Pieces \ {p} : db'.piece[q] = db.piece[q]
  BY <1>0, <1>1 DEF TablesTyped
<1>8. db' \in Db
  <2>1. db'.piece \in [Pieces -> Piece]
    BY <1>0, <1>1, <1>5, <1>6 DEF TablesTyped
  <2>. QED BY <1>0, <1>2, <1>3, <2>1, DbOfParts DEF TablesTyped
<1>9. \A s : StaffOf(s)' = StaffOf(s) /\ BadgesOf(s)' = BadgesOf(s)
  BY <1>2 DEF StaffOf, BadgesOf
<1>10. \A q \in Pieces : PieceIsHome(q)'
  <2>1. PieceIsHome(p)'
    BY <1>2, <1>6, <1>9 DEF BadgePiece, RefersHome, PieceIsHome
  <2>2. \A q \in Pieces \ {p} : PieceIsHome(q)'
    BY <1>2, <1>7, <1>9 DEF RefersHome, PieceIsHome
  <2>. QED BY <2>1, <2>2
<1>11. \A k \in Jobs : JobIsHome(k)'
  BY <1>2, <1>9 DEF RefersHome, JobIsHome
<1>12. \A r \in Remarks : db'.remark[r] # Blank => RemarkIsHome(r)'
  BY <1>2, <1>9 DEF RefersHome, RemarkIsHome
<1>13. \A e \in db'.bonds : BondIsHome(e)'
  BY <1>2 DEF RefersHome, BondIsHome
<1>. QED BY <1>8, <1>10, <1>11, <1>12, <1>13 DEF RefersHome

LEMMA RelateKeepsHome ==
    ASSUME db \in Db, RefersHome, NEW j \in Jobs, NEW k \in Jobs, Relate(j, k)
    PROVE  db' \in Db /\ RefersHome'
<1>0. DOMAIN db = TableNames /\ TablesTyped(db)
  BY PartsOfDb
<1>1. db'.bonds = db.bonds \cup {{j, k}}
  BY <1>0 DEF Relate, Touched, TableNames
<1>2. UNCHANGED <<db.job, db.piece, db.remark, db.staff, db.badge, db.readonly, db.stages,
                  db.archived>>
  BY <1>0 DEF Relate, Touched, TableNames
<1>3. db' = [t \in TableNames |-> db'[t]]
  BY <1>0 DEF Relate, Touched
<1>4. db' \in Db
  BY <1>0, <1>1, <1>2, <1>3, DbOfParts DEF TablesTyped
<1>5. \A s : StaffOf(s)' = StaffOf(s) /\ BadgesOf(s)' = BadgesOf(s)
  BY <1>2 DEF StaffOf, BadgesOf
<1>6. \A i \in Jobs : JobIsHome(i)'
  BY <1>2, <1>5 DEF RefersHome, JobIsHome
<1>7. \A p \in Pieces : PieceIsHome(p)'
  BY <1>2, <1>5 DEF RefersHome, PieceIsHome
<1>8. \A r \in Remarks : db'.remark[r] # Blank => RemarkIsHome(r)'
  BY <1>2, <1>5 DEF RefersHome, RemarkIsHome
<1>9. \A e \in db'.bonds : BondIsHome(e)'
  BY <1>1, <1>2 DEF Relate, RefersHome, BondIsHome
<1>. QED BY <1>4, <1>6, <1>7, <1>8, <1>9 DEF RefersHome

LEMMA SayKeepsHome ==
    ASSUME db \in Db, RefersHome, NEW r \in Remarks, NEW j \in Jobs, NEW m \in Staff, Say(r, j, m)
    PROVE  db' \in Db /\ RefersHome'
<1>. DEFINE said == [job |-> j, site |-> db.job[j].site, author |-> m]
<1>0. DOMAIN db = TableNames /\ TablesTyped(db)
  BY PartsOfDb
<1>1. db'.remark = [db.remark EXCEPT ![r] = said]
  BY <1>0 DEF Say, Touched, TableNames
<1>2. UNCHANGED <<db.job, db.piece, db.bonds, db.staff, db.badge, db.readonly, db.stages,
                  db.archived>>
  BY <1>0 DEF Say, Touched, TableNames
<1>3. db' = [t \in TableNames |-> db'[t]]
  BY <1>0 DEF Say, Touched
<1>4. said \in Remark
  <2>1. db.job[j] \in Job
    BY <1>0 DEF TablesTyped
  <2>. QED BY <2>1 DEF Job, Remark
<1>5. db' \in Db
  <2>1. db'.remark \in [Remarks -> Remark \cup {Blank}]
    BY <1>0, <1>1, <1>4 DEF TablesTyped
  <2>. QED BY <1>0, <1>2, <1>3, <2>1, DbOfParts DEF TablesTyped
<1>6. \A s : StaffOf(s)' = StaffOf(s) /\ BadgesOf(s)' = BadgesOf(s)
  BY <1>2 DEF StaffOf, BadgesOf
<1>7. \A i \in Jobs : JobIsHome(i)'
  BY <1>2, <1>6 DEF RefersHome, JobIsHome
<1>8. \A p \in Pieces : PieceIsHome(p)'
  BY <1>2, <1>6 DEF RefersHome, PieceIsHome
<1>9. \A q \in Remarks : db'.remark[q] # Blank => RemarkIsHome(q)'
  <2>1. db'.remark[r] = said
    BY <1>0, <1>1 DEF TablesTyped
  <2>2. RemarkIsHome(r)'
    BY <1>2, <1>6, <2>1 DEF Say, RemarkIsHome
  <2>3. \A q \in Remarks \ {r} : db'.remark[q] = db.remark[q]
    BY <1>0, <1>1 DEF TablesTyped
  <2>4. \A q \in Remarks \ {r} : db'.remark[q] # Blank => RemarkIsHome(q)'
    BY <1>2, <1>6, <2>3 DEF RefersHome, RemarkIsHome
  <2>. QED BY <2>2, <2>4
<1>10. \A e \in db'.bonds : BondIsHome(e)'
  BY <1>2 DEF RefersHome, BondIsHome
<1>. QED BY <1>5, <1>7, <1>8, <1>9, <1>10 DEF RefersHome

(* The move itself: what moves refers to what is in the target, and the      *)
(* bonds it had are cut.                                                     *)
LEMMA MoveKeepsHome ==
    ASSUME db \in Db, RefersHome, NEW o, o.job \in Jobs, Accepted(o), db' = AfterMove(o)
    PROVE  db' \in Db /\ RefersHome'
<1>0. DOMAIN db = TableNames /\ TablesTyped(db)
  BY PartsOfDb
<1>. DEFINE j == o.job
            to == o.to
<1>1. /\ db'.job = [db.job EXCEPT ![j] = MovedJob(o)]
      /\ db'.piece = [p \in Pieces |-> IF p \in PiecesOf(j) THEN MovedPiece(p, o)
                                       ELSE db.piece[p]]
      /\ db'.remark = [r \in Remarks |-> IF r \in RemarksOf(j) THEN MovedRemark(r, o)
                                         ELSE db.remark[r]]
      /\ db'.bonds = db.bonds \ BondsOf(j)
  BY <1>0 DEF AfterMove, TableNames
<1>2. UNCHANGED <<db.staff, db.badge, db.readonly, db.stages, db.archived>>
  BY <1>0 DEF AfterMove, TableNames
<1>3. db' = [t \in TableNames |-> db'[t]]
  BY <1>0 DEF AfterMove
<1>4. to \in Sites
  BY <1>0 DEF Accepted, Loads, Editor, StaffOf, TablesTyped, Person
<1>5. /\ o.form.stage \in db.stages[to] /\ o.form.stage \in StageCodes
      /\ o.form.assignee \in StaffOf(to) \cup {Blank}
      /\ o.form.requester \in StaffOf(to) \cup {Blank}
  BY <1>0, <1>4 DEF Accepted, TablesTyped
<1>6. StaffOf(to) \subseteq Staff /\ BadgesOf(to) \subseteq Badges
  BY DEF StaffOf, BadgesOf
<1>7. \A s : StaffOf(s)' = StaffOf(s) /\ BadgesOf(s)' = BadgesOf(s)
  BY <1>2 DEF StaffOf, BadgesOf
<1>8. /\ db'.job[j] \in Job /\ db'.job[j].site = to /\ db'.job[j].stage = o.form.stage
      /\ db'.job[j].assignee = o.form.assignee /\ db'.job[j].requester = o.form.requester
      /\ db'.job[j].badges = Substituted(db.job[j].badges, to)
  <2>1. db.job[j] \in Job
    BY <1>0 DEF TablesTyped
  <2>2. Substituted(db.job[j].badges, to) \subseteq BadgesOf(to)
    BY SubstitutedAreThere
  <2>3. db'.job[j] = MovedJob(o)
    BY <1>0, <1>1 DEF TablesTyped
  <2>. QED BY <1>4, <1>5, <1>6, <2>1, <2>2, <2>3 DEF MovedJob, Job
<1>9. \A k \in Jobs \ {j} : db'.job[k] = db.job[k]
  BY <1>0, <1>1 DEF TablesTyped
<1>10. \A p \in PiecesOf(j) :
         /\ db'.piece[p] \in Piece /\ db'.piece[p].site = to /\ db'.piece[p].job = j
         /\ db'.piece[p].assignee \in StaffOf(to) \cup {Blank}
         /\ db'.piece[p].badges \subseteq BadgesOf(to)
  <2>. TAKE p \in PiecesOf(j)
  <2>1. p \in Pieces /\ db.piece[p] \in Piece /\ db.piece[p].job = j
    BY <1>0 DEF PiecesOf, TablesTyped
  <2>2. db'.piece[p] = MovedPiece(p, o)
    BY <1>1, <2>1
  <2>3. MapMember(db.piece[p].assignee, to, TRUE) \in StaffOf(to) \cup {Blank}
    BY MapMemberIsThere
  <2>4. Substituted(db.piece[p].badges, to) \subseteq BadgesOf(to)
    BY SubstitutedAreThere
  <2>. QED BY <1>4, <1>6, <2>1, <2>2, <2>3, <2>4 DEF MovedPiece, Piece
<1>11. \A p \in Pieces \ PiecesOf(j) : db'.piece[p] = db.piece[p] /\ db.piece[p].job # j
  BY <1>1 DEF PiecesOf
<1>12. \A r \in RemarksOf(j) :
         /\ db'.remark[r] \in Remark /\ db'.remark[r].site = to /\ db'.remark[r].job = j
         /\ db'.remark[r].author \in StaffOf(to) \cup {Blank}
  <2>. TAKE r \in RemarksOf(j)
  <2>1. r \in Remarks /\ db.remark[r] \in Remark /\ db.remark[r].job = j
    BY <1>0 DEF RemarksOf, TablesTyped
  <2>2. db'.remark[r] = MovedRemark(r, o)
    BY <1>1, <2>1
  <2>3. MapMember(db.remark[r].author, to, FALSE) \in StaffOf(to) \cup {Blank}
    BY MapMemberIsThere
  <2>. QED BY <1>4, <1>6, <2>1, <2>2, <2>3 DEF MovedRemark, Remark
<1>13. \A r \in Remarks \ RemarksOf(j) :
         db'.remark[r] = db.remark[r] /\ (db.remark[r] # Blank => db.remark[r].job # j)
  BY <1>1 DEF RemarksOf
<1>14. db' \in Db
  <2>1. db'.job \in [Jobs -> Job]
    <3>1. \A k \in Jobs : db'.job[k] \in Job
      BY <1>0, <1>8, <1>9 DEF TablesTyped
    <3>2. db'.job = [k \in Jobs |-> db'.job[k]]
      BY <1>0, <1>1 DEF TablesTyped
    <3>. QED BY <3>1, <3>2
  <2>2. db'.piece \in [Pieces -> Piece]
    <3>1. \A p \in Pieces : db'.piece[p] \in Piece
      BY <1>0, <1>10, <1>11 DEF TablesTyped
    <3>. QED BY <1>1, <3>1
  <2>3. db'.remark \in [Remarks -> Remark \cup {Blank}]
    <3>1. \A r \in Remarks : db'.remark[r] \in Remark \cup {Blank}
      BY <1>0, <1>12, <1>13 DEF TablesTyped
    <3>. QED BY <1>1, <3>1
  <2>4. db'.bonds \in SUBSET SUBSET Jobs
    BY <1>0, <1>1 DEF TablesTyped
  <2>. QED BY <1>0, <1>2, <1>3, <2>1, <2>2, <2>3, <2>4, DbOfParts DEF TablesTyped
<1>15. \A k \in Jobs : JobIsHome(k)'
  <2>1. JobIsHome(j)'
    BY <1>2, <1>5, <1>7, <1>8, SubstitutedAreThere DEF JobIsHome
  <2>2. \A k \in Jobs \ {j} : JobIsHome(k)'
    BY <1>2, <1>7, <1>9 DEF RefersHome, JobIsHome
  <2>. QED BY <2>1, <2>2
<1>16. \A p \in Pieces : PieceIsHome(p)'
  <2>1. \A p \in PiecesOf(j) : PieceIsHome(p)'
    BY <1>7, <1>8, <1>10 DEF PieceIsHome
  <2>2. \A p \in Pieces \ PiecesOf(j) : db.piece[p].job \in Jobs \ {j}
    BY <1>0, <1>11 DEF TablesTyped, Piece
  <2>3. \A p \in Pieces \ PiecesOf(j) : PieceIsHome(p)'
    BY <1>7, <1>9, <1>11, <2>2 DEF RefersHome, PieceIsHome
  <2>. QED BY <2>1, <2>3
<1>17. \A r \in Remarks : db'.remark[r] # Blank => RemarkIsHome(r)'
  <2>1. \A r \in RemarksOf(j) : RemarkIsHome(r)'
    BY <1>7, <1>8, <1>12 DEF RemarkIsHome
  <2>2. \A r \in Remarks \ RemarksOf(j) : db.remark[r] # Blank => db.remark[r].job \in Jobs \ {j}
    BY <1>0, <1>13 DEF TablesTyped, Remark
  <2>3. \A r \in Remarks \ RemarksOf(j) : db'.remark[r] # Blank => RemarkIsHome(r)'
    BY <1>7, <1>9, <1>13, <2>2 DEF RefersHome, RemarkIsHome
  <2>. QED BY <2>1, <2>3
<1>18. \A e \in db'.bonds : BondIsHome(e)'
  <2>1. \A e \in db'.bonds : e \in db.bonds /\ e \subseteq Jobs \ {j}
    BY <1>0, <1>1 DEF BondsOf, TablesTyped
  <2>. QED BY <1>9, <2>1 DEF RefersHome, BondIsHome
<1>. QED BY <1>14, <1>15, <1>16, <1>17, <1>18 DEF RefersHome

(* Each step keeps the tables in order, and the dialog at a task.            *)
LEMMA HomeStep == HomeInv /\ [MovePlanNext]_movePlanVars => HomeInv'
<1>. SUFFICES ASSUME HomeInv, [MovePlanNext]_movePlanVars PROVE HomeInv'
  OBVIOUS
<1>. DEFINE Tabled == db' \in Db /\ RefersHome'
            AtATask == /\ "job" \in DOMAIN dialog' /\ dialog'.job \in Jobs
                       /\ \A o \in orders' : o.job \in Jobs
<1>1. ASSUME UNCHANGED db PROVE Tabled
  <2>1. RefersHome'
    BY <1>1 DEF HomeInv, RefersHome, JobIsHome, PieceIsHome, RemarkIsHome, BondIsHome, StaffOf,
                BadgesOf
  <2>. QED BY <1>1, <2>1 DEF HomeInv
<1>2. ASSUME UNCHANGED <<dialog, orders>> PROVE AtATask
  BY <1>2 DEF HomeInv
<1>3. CASE UNCHANGED movePlanVars
  BY <1>1, <1>2, <1>3 DEF movePlanVars, HomeInv
<1>4. CASE Open \/ Close \/ Confirm
  <2>1. UNCHANGED <<db, orders>>
    BY <1>4 DEF Open, Close, Confirm
  <2>2. "job" \in DOMAIN dialog' /\ dialog'.job = dialog.job
    BY <1>4 DEF Open, Close, Confirm, HomeInv
  <2>. QED BY <1>1, <2>1, <2>2 DEF HomeInv
<1>5. CASE Move
  <2>1. UNCHANGED db /\ "job" \in DOMAIN dialog' /\ dialog'.job = dialog.job
    BY <1>5 DEF Move, HomeInv
  <2>2. \A o \in orders' : o \in orders \/ o.job = dialog.job
    BY <1>5 DEF Move
  <2>. QED BY <1>1, <2>1, <2>2 DEF HomeInv
<1>6. ASSUME NEW j \in Jobs, TurnTo(j) PROVE HomeInv'
  <2>1. UNCHANGED <<db, orders>> /\ "job" \in DOMAIN dialog' /\ dialog'.job = j
    BY <1>6 DEF TurnTo, HomeInv
  <2>. QED BY <1>1, <2>1 DEF HomeInv
<1>7. ASSUME NEW to \in Sites, ChooseTarget(to) PROVE HomeInv'
  <2>1. UNCHANGED <<db, orders>> /\ "job" \in DOMAIN dialog' /\ dialog'.job = dialog.job
    BY <1>7 DEF ChooseTarget, HomeInv
  <2>. QED BY <1>1, <2>1 DEF HomeInv
<1>8. ASSUME NEW m \in Staff \cup {Blank}, Choose(m) PROVE HomeInv'
  <2>1. UNCHANGED <<db, orders>> /\ "job" \in DOMAIN dialog' /\ dialog'.job = dialog.job
    BY <1>8 DEF Choose, HomeInv
  <2>. QED BY <1>1, <2>1 DEF HomeInv
<1>9. ASSUME NEW i \in DOMAIN asks, ServePreview(i) PROVE HomeInv'
  BY <1>1, <1>2, <1>9 DEF ServePreview, HomeInv
<1>10. ASSUME NEW i \in DOMAIN asks, Answer(i) PROVE HomeInv'
  <2>1. UNCHANGED <<db, orders>> /\ "job" \in DOMAIN dialog' /\ dialog'.job = dialog.job
    BY <1>10 DEF Answer, HomeInv
  <2>. QED BY <1>1, <2>1 DEF HomeInv
<1>11. ASSUME NEW o \in orders, ServeMove(o) PROVE HomeInv'
  <2>1. "job" \in DOMAIN dialog' /\ dialog'.job = dialog.job /\ orders' \subseteq orders
    BY <1>11 DEF ServeMove, HomeInv
  <2>2. CASE Accepted(o) /\ NoTwinRows(o)
    <3>1. db' = AfterMove(o) /\ o.job \in Jobs
      BY <1>11, <2>2 DEF ServeMove, HomeInv
    <3>. QED BY <2>1, <2>2, <3>1, MoveKeepsHome DEF HomeInv
  <2>3. CASE ~(Accepted(o) /\ NoTwinRows(o))
    <3>1. UNCHANGED db
      BY <1>11, <2>3 DEF ServeMove
    <3>. QED BY <1>1, <2>1, <3>1 DEF HomeInv
  <2>. QED BY <2>2, <2>3
<1>12. CASE Elsewhere
  <2>1. UNCHANGED <<dialog, orders>>
    BY <1>12 DEF Elsewhere, RemoveBadge, RenameBadge, RemoveMember, ToggleReadonly, Archive,
                 RemoveStage, Assign, BadgePiece, Relate, Say, Touched
  <2>2. Tabled
    BY <1>12, RemoveBadgeKeepsHome, RenameBadgeKeepsHome, RemoveMemberKeepsHome,
       SettingsKeepHome, AssignKeepsHome, BadgePieceKeepsHome, RelateKeepsHome, SayKeepsHome
    DEF Elsewhere, HomeInv
  <2>. QED BY <1>2, <2>1, <2>2 DEF HomeInv
<1>. QED
  BY <1>3, <1>4, <1>5, <1>6, <1>7, <1>8, <1>9, <1>10, <1>11, <1>12 DEF MovePlanNext

(* Everything a task refers to is of the project the task is in, and still   *)
(* there, whatever is moved, removed or renamed, in whatever order and from  *)
(* whatever tables in which it was so (TaskMoveService, and the services     *)
(* that remove members, flags and statuses).                                 *)
THEOREM RefersHomeAlways == db \in Db /\ RefersHome /\ MovePlanSpec => []RefersHome
<1>1. db \in Db /\ RefersHome /\ MovePlanInit => HomeInv
  BY DEF MovePlanInit, MovePlanFrom, HomeInv
<1>2. HomeInv /\ [MovePlanNext]_movePlanVars => HomeInv'
  BY HomeStep
<1>3. HomeInv => RefersHome
  BY DEF HomeInv
<1>. QED BY <1>1, <1>2, <1>3, PTL DEF MovePlanSpec

---------------------------------------------------------------------------
(* TaskMovePlan: what the dialog tells of a move *)

(* What is shown of a preview and what the choices of the dialog add.        *)
ShownOf(pv, form) ==
    pv.lost \cup LostPerson("assignee", pv.assignee, form.assignee)
            \cup LostPerson("requester", pv.requester, form.requester)

(* A preview of the tables as they are tells what is lost.                   *)
PreviewTrue(pv) ==
    /\ pv.edition \in Nat /\ pv.edition <= edition
    /\ pv.edition = edition =>
          /\ pv.lost = Unmapped(pv.job, pv.to)
          /\ pv.assignee = NameOf(db.job[pv.job].assignee)
          /\ pv.requester = NameOf(db.job[pv.job].requester)

PlanInv ==
    /\ edition \in Nat
    /\ DOMAIN dialog = {"open", "job", "target", "preview", "form", "confirmed", "moving"}
    /\ \E S : asks \in Seq(S)
    /\ \A i \in DOMAIN asks : {"job", "from", "to", "answer"} \subseteq DOMAIN asks[i]
    /\ \A i \in DOMAIN asks : asks[i].answer \notin {Blank, Refused} => PreviewTrue(asks[i].answer)
    /\ dialog.preview # Blank => PreviewTrue(dialog.preview)
    /\ \A o \in orders : /\ PreviewTrue(o.preview) /\ o.to = o.preview.to
                         /\ o.shown = ShownOf(o.preview, o.form)

(* What a preview told of tables since changed it need not tell of these.    *)
LEMMA PreviewsAge ==
    ASSUME edition \in Nat, (db' = db /\ edition' = edition) \/ edition' = edition + 1
    PROVE  \A pv : PreviewTrue(pv) => PreviewTrue(pv)'
<1>1. CASE db' = db /\ edition' = edition
  <2>1. ASSUME NEW j, NEW to PROVE Unmapped(j, to)' = Unmapped(j, to)
    BY <1>1 DEF Unmapped, Losses, Kept, Twins, BadgesOf, MapMember, StaffOf, Stands, SameName,
                Assignable, PiecesOf, RemarksOf, NameOf, LostPieceAssignees, BondsOf
  <2>2. ASSUME NEW m PROVE NameOf(m)' = NameOf(m)
    BY <1>1 DEF NameOf
  <2>3. ASSUME NEW pv, PreviewTrue(pv) PROVE PreviewTrue(pv)'
    BY <1>1, <2>1, <2>2, <2>3 DEF PreviewTrue
  <2>. QED BY <2>3
<1>2. CASE edition' = edition + 1
  BY <1>2 DEF PreviewTrue
<1>. QED BY <1>1, <1>2

LostNames(bs, to) == {db.badge[b].name : b \in bs \ Kept(bs, to)}

(* Only of a name is it asked whether the target has a flag of it.           *)
LEMMA NamesKept ==
    ASSUME NEW bs, NEW to
    PROVE  LostNames(bs, to) = BadgeNames(db.badge, bs) \ BadgeNames(db.badge, Substituted(bs, to))
<1>1. ASSUME NEW b \in Kept(bs, to)
      PROVE  Mapped(b, to) \in Substituted(bs, to) /\ db.badge[Mapped(b, to)].name = db.badge[b].name
  <2>1. Twins(b, to) # {}
    BY <1>1 DEF Kept
  <2>2. Mapped(b, to) \in Twins(b, to)
    BY <2>1 DEF Mapped
  <2>. QED BY <1>1, <2>2 DEF Twins, SameName, Substituted
<1>2. \A t \in Substituted(bs, to) : \E b \in Kept(bs, to) : t = Mapped(b, to)
  BY DEF Substituted
<1>3. \A b \in bs : (b \in Kept(bs, to)) <=> Twins(b, to) # {}
  BY DEF Kept
<1>4. ASSUME NEW b \in bs, NEW c \in bs, db.badge[b].name = db.badge[c].name
      PROVE  Twins(b, to) = Twins(c, to)
  BY <1>4 DEF Twins
<1>5. Kept(bs, to) \subseteq bs
  BY DEF Kept
<1>6. ASSUME NEW b \in bs, b \notin Kept(bs, to)
      PROVE  db.badge[b].name \notin BadgeNames(db.badge, Substituted(bs, to))
  <2>1. SUFFICES ASSUME NEW t \in Substituted(bs, to), db.badge[t].name = db.badge[b].name PROVE FALSE
    BY DEF BadgeNames
  <2>2. PICK c \in Kept(bs, to) : t = Mapped(c, to)
    BY <1>2, <2>1
  <2>3. db.badge[c].name = db.badge[b].name
    BY <1>1, <2>1, <2>2
  <2>4. Twins(b, to) = Twins(c, to)
    BY <1>4, <1>5, <1>6, <2>3
  <2>. QED BY <1>3, <1>5, <1>6, <2>2, <2>4
<1>7. ASSUME NEW n \in BadgeNames(db.badge, bs), n \notin BadgeNames(db.badge, Substituted(bs, to))
      PROVE  n \in {db.badge[b].name : b \in bs \ Kept(bs, to)}
  <2>1. PICK b \in bs : n = db.badge[b].name
    BY <1>7 DEF BadgeNames
  <2>2. b \notin Kept(bs, to)
    BY <1>1, <1>7, <2>1 DEF BadgeNames
  <2>. QED BY <2>1, <2>2
<1>8. ASSUME NEW n \in {db.badge[b].name : b \in bs \ Kept(bs, to)}
      PROVE  n \in BadgeNames(db.badge, bs) \ BadgeNames(db.badge, Substituted(bs, to))
  BY <1>6, <1>8 DEF BadgeNames
<1>. QED BY <1>7, <1>8 DEF LostNames

(* What a move of a task takes away is what its preview tells, with what was *)
(* chosen to be nobody, but for what has no name.                            *)
LEMMA MoveTakesWhatIsTold ==
    ASSUME db \in Db, RefersHome, NEW o, o.job \in Jobs, Accepted(o), db' = AfterMove(o), NEW pv,
           pv.lost = Unmapped(o.job, o.to),
           pv.assignee = NameOf(db.job[o.job].assignee),
           pv.requester = NameOf(db.job[o.job].requester)
    PROVE  ShownOf(pv, o.form) = Taken(o.job, db, db') \ Untold
<1>0. DOMAIN db = TableNames /\ TablesTyped(db)
  BY PartsOfDb
<1>. DEFINE j == o.job
            to == o.to
<1>1. /\ db'.job = [db.job EXCEPT ![j] = MovedJob(o)]
      /\ db'.piece = [p \in Pieces |-> IF p \in PiecesOf(j) THEN MovedPiece(p, o)
                                       ELSE db.piece[p]]
      /\ db'.remark = [r \in Remarks |-> IF r \in RemarksOf(j) THEN MovedRemark(r, o)
                                         ELSE db.remark[r]]
      /\ db'.bonds = db.bonds \ BondsOf(j)
      /\ UNCHANGED <<db.staff, db.badge>>
  BY <1>0 DEF AfterMove, TableNames
<1>2. /\ db'.job[j].assignee = o.form.assignee /\ db'.job[j].requester = o.form.requester
      /\ db'.job[j].badges = Substituted(db.job[j].badges, to)
  <2>1. db.job[j] \in Job /\ db'.job[j] = MovedJob(o)
    BY <1>0, <1>1 DEF TablesTyped
  <2>. QED BY <2>1 DEF MovedJob, Job
<1>3. \A p \in PiecesOf(j) :
         /\ db'.piece[p].assignee = MapMember(db.piece[p].assignee, to, TRUE)
         /\ db'.piece[p].badges = Substituted(db.piece[p].badges, to)
         /\ db.piece[p].assignee \in StaffOf(db.piece[p].site) \cup {Blank}
  <2>. TAKE p \in PiecesOf(j)
  <2>1. p \in Pieces /\ db.piece[p] \in Piece /\ db'.piece[p] = MovedPiece(p, o)
    BY <1>0, <1>1 DEF PiecesOf, TablesTyped
  <2>2. db.piece[p].assignee \in StaffOf(db.piece[p].site) \cup {Blank}
    BY <2>1 DEF RefersHome, PieceIsHome
  <2>. QED BY <2>1, <2>2 DEF MovedPiece, Piece
<1>4. \A r \in RemarksOf(j) :
         db'.remark[r].author = MapMember(db.remark[r].author, to, FALSE)
  <2>. TAKE r \in RemarksOf(j)
  <2>1. r \in Remarks /\ db.remark[r] \in Remark /\ db'.remark[r] = MovedRemark(r, o)
    BY <1>0, <1>1 DEF RemarksOf, TablesTyped
  <2>. QED BY <2>1 DEF MovedRemark, Remark
<1>. HIDE DEF j, to
<1>5. LostNames(db.job[j].badges, to)
      = BadgeNames(db.badge, db.job[j].badges) \ BadgeNames(db'.badge, db'.job[j].badges)
  BY <1>1, <1>2, NamesKept
<1>6. Losses("pieceBadge", {db.badge[b].name : b \in UNION
            {db.piece[p].badges \ Kept(db.piece[p].badges, to) : p \in PiecesOf(j)}} \ {Nameless})
      = (UNION {Losses("pieceBadge", BadgeNames(db.badge, db.piece[p].badges)
                                     \ BadgeNames(db'.badge, db'.piece[p].badges)) : p \in PiecesOf(j)})
        \ Untold
  <2>1. \A p \in PiecesOf(j) :
           BadgeNames(db.badge, db.piece[p].badges) \ BadgeNames(db'.badge, db'.piece[p].badges)
           = LostNames(db.piece[p].badges, to)
    BY <1>1, <1>3, NamesKept
  <2>2. UNION {Losses("pieceBadge", LostNames(db.piece[p].badges, to)) : p \in PiecesOf(j)}
        = Losses("pieceBadge", {db.badge[b].name : b \in UNION
              {db.piece[p].badges \ Kept(db.piece[p].badges, to) : p \in PiecesOf(j)}})
    BY DEF Losses, LostNames
  <2>3. \A names : Losses("pieceBadge", names \ {Nameless}) = Losses("pieceBadge", names) \ Untold
    <3>1. \A n : [what |-> "pieceBadge", name |-> n] \in Untold <=> n = Nameless
      BY DEF Untold
    <3>. QED BY <3>1 DEF Losses
  <2>4. PICK names : names = {db.badge[b].name : b \in UNION
              {db.piece[p].badges \ Kept(db.piece[p].badges, to) : p \in PiecesOf(j)}}
    OBVIOUS
  <2>5. Losses("pieceBadge", names)
        = UNION {Losses("pieceBadge", BadgeNames(db.badge, db.piece[p].badges)
                                      \ BadgeNames(db'.badge, db'.piece[p].badges)) : p \in PiecesOf(j)}
    BY <2>1, <2>2, <2>4
  <2>6. Losses("pieceBadge", names \ {Nameless}) = Losses("pieceBadge", names) \ Untold
    BY <2>3
  <2>. QED BY <2>4, <2>5, <2>6
<1>7. Losses("pieceAssignee", LostPieceAssignees(j, to))
      = UNION {Gone("pieceAssignee", db.piece[p].assignee, db'.piece[p].assignee, db.staff)
               : p \in PiecesOf(j)}
  <2>1. PICK lost : lost = {p \in PiecesOf(j) : /\ db.piece[p].assignee # Blank
                                                /\ MapMember(db.piece[p].assignee, to, TRUE) = Blank}
    OBVIOUS
  <2>2. LostPieceAssignees(j, to) = {NameOf(db.piece[p].assignee) : p \in lost}
    BY <2>1 DEF LostPieceAssignees
  <2>3. \A p \in PiecesOf(j) :
           Gone("pieceAssignee", db.piece[p].assignee, db'.piece[p].assignee, db.staff)
           = IF p \in lost THEN Losses("pieceAssignee", {NameOf(db.piece[p].assignee)}) ELSE {}
    BY <1>3, <2>1 DEF Gone, NameOf
  <2>4. UNION {IF p \in lost THEN Losses("pieceAssignee", {NameOf(db.piece[p].assignee)}) ELSE {}
               : p \in PiecesOf(j)}
        = Losses("pieceAssignee", {NameOf(db.piece[p].assignee) : p \in lost})
    <3>. DEFINE one(p) == [what |-> "pieceAssignee", name |-> NameOf(db.piece[p].assignee)]
    <3>1. \A p : Losses("pieceAssignee", {NameOf(db.piece[p].assignee)}) = {one(p)}
      BY DEF Losses
    <3>2. Losses("pieceAssignee", {NameOf(db.piece[p].assignee) : p \in lost}) = {one(p) : p \in lost}
      BY DEF Losses
    <3>. HIDE DEF one
    <3>3. lost \subseteq PiecesOf(j)
      BY <2>1
    <3>4. UNION {IF p \in lost THEN {one(p)} ELSE {} : p \in PiecesOf(j)} = {one(p) : p \in lost}
      BY <3>3
    <3>. QED BY <3>1, <3>2, <3>4
  <2>. QED BY <2>2, <2>3, <2>4
<1>8. Losses("author", {NameOf(db.remark[r].author) : r \in {q \in RemarksOf(j) :
            db.remark[q].author # Blank /\ MapMember(db.remark[q].author, to, FALSE) = Blank}})
      = UNION {Gone("author", db.remark[r].author, db'.remark[r].author, db.staff)
               : r \in RemarksOf(j)}
  <2>1. PICK lost : lost = {r \in RemarksOf(j) : /\ db.remark[r].author # Blank
                                                 /\ MapMember(db.remark[r].author, to, FALSE) = Blank}
    OBVIOUS
  <2>2. \A r \in RemarksOf(j) :
           Gone("author", db.remark[r].author, db'.remark[r].author, db.staff)
           = IF r \in lost THEN Losses("author", {NameOf(db.remark[r].author)}) ELSE {}
    BY <1>4, <2>1 DEF Gone, NameOf
  <2>3. UNION {IF r \in lost THEN Losses("author", {NameOf(db.remark[r].author)}) ELSE {}
               : r \in RemarksOf(j)}
        = Losses("author", {NameOf(db.remark[r].author) : r \in lost})
    <3>. DEFINE one(r) == [what |-> "author", name |-> NameOf(db.remark[r].author)]
    <3>1. \A r : Losses("author", {NameOf(db.remark[r].author)}) = {one(r)}
      BY DEF Losses
    <3>2. Losses("author", {NameOf(db.remark[r].author) : r \in lost}) = {one(r) : r \in lost}
      BY DEF Losses
    <3>. HIDE DEF one
    <3>3. lost \subseteq RemarksOf(j)
      BY <2>1
    <3>4. UNION {IF r \in lost THEN {one(r)} ELSE {} : r \in RemarksOf(j)} = {one(r) : r \in lost}
      BY <3>3
    <3>. QED BY <3>1, <3>2, <3>4
  <2>. QED BY <2>1, <2>2, <2>3
<1>9. (BondsOf(j) = {}) <=> (db.bonds = db'.bonds)
  BY <1>1 DEF BondsOf
<1>10. \A m \in {db.job[j].assignee, db.job[j].requester} \ {Blank} :
          NameOf(m) = db.staff[m].name /\ NameOf(m) # Blank
  <2>. TAKE m \in {db.job[j].assignee, db.job[j].requester} \ {Blank}
  <2>1. m \in StaffOf(db.job[j].site)
    BY DEF j, RefersHome, JobIsHome
  <2>2. db.staff[m] \in Person
    BY <1>0, <2>1 DEF StaffOf, TablesTyped
  <2>. QED BY <2>2, MovePlanAssumption DEF NameOf, Person
<1>11. ASSUME NEW what \in {"assignee", "requester"}, NEW name, NEW n \in {name}
       PROVE  Losses(what, {name}) \ Untold = IF name = Nameless THEN {} ELSE Losses(what, {name})
  <2>1. [what |-> what, name |-> name] \in Untold <=> name = Nameless
    BY DEF Untold
  <2>. QED BY <2>1 DEF Losses
<1>12. LostPerson("assignee", pv.assignee, o.form.assignee)
       = Gone("assignee", db.job[j].assignee, db'.job[j].assignee, db.staff) \ Untold
  BY <1>2, <1>10, <1>11 DEF j, LostPerson, Gone, NameOf
<1>13. LostPerson("requester", pv.requester, o.form.requester)
       = Gone("requester", db.job[j].requester, db'.job[j].requester, db.staff) \ Untold
  BY <1>2, <1>10, <1>11 DEF j, LostPerson, Gone, NameOf
<1>14. Taken(j, db, db')
       = Losses("badge", BadgeNames(db.badge, db.job[j].badges)
                         \ BadgeNames(db'.badge, db'.job[j].badges))
         \cup Gone("assignee", db.job[j].assignee, db'.job[j].assignee, db.staff)
         \cup Gone("requester", db.job[j].requester, db'.job[j].requester, db.staff)
         \cup (UNION {Losses("pieceBadge", BadgeNames(db.badge, db.piece[p].badges)
                                           \ BadgeNames(db'.badge, db'.piece[p].badges))
                      : p \in PiecesOf(j)})
         \cup (UNION {Gone("pieceAssignee", db.piece[p].assignee, db'.piece[p].assignee, db.staff)
                      : p \in PiecesOf(j)})
         \cup (UNION {Gone("author", db.remark[r].author, db'.remark[r].author, db.staff)
                      : r \in RemarksOf(j)})
         \cup (IF db.bonds = db'.bonds THEN {} ELSE {[what |-> "bonds"]})
  <2>. DEFINE A(p) == Losses("pieceBadge", BadgeNames(db.badge, db.piece[p].badges)
                                           \ BadgeNames(db'.badge, db'.piece[p].badges))
              B(p) == Gone("pieceAssignee", db.piece[p].assignee, db'.piece[p].assignee, db.staff)
  <2>1. Taken(j, db, db')
        = Losses("badge", BadgeNames(db.badge, db.job[j].badges)
                          \ BadgeNames(db'.badge, db'.job[j].badges))
          \cup Gone("assignee", db.job[j].assignee, db'.job[j].assignee, db.staff)
          \cup Gone("requester", db.job[j].requester, db'.job[j].requester, db.staff)
          \cup (UNION {A(p) \cup B(p) : p \in PiecesOf(j)})
          \cup (UNION {Gone("author", db.remark[r].author, db'.remark[r].author, db.staff)
                       : r \in RemarksOf(j)})
          \cup (IF db.bonds = db'.bonds THEN {} ELSE {[what |-> "bonds"]})
    BY DEF Taken, PiecesOf, RemarksOf
  <2>. HIDE DEF A, B
  <2>2. UNION {A(p) \cup B(p) : p \in PiecesOf(j)}
        = (UNION {A(p) : p \in PiecesOf(j)}) \cup (UNION {B(p) : p \in PiecesOf(j)})
    OBVIOUS
  <2>. QED BY <2>1, <2>2 DEF A, B
<1>15. Unmapped(j, to)
       = Losses("badge", LostNames(db.job[j].badges, to))
         \cup Losses("pieceBadge", {db.badge[b].name : b \in UNION
                {db.piece[p].badges \ Kept(db.piece[p].badges, to) : p \in PiecesOf(j)}} \ {Nameless})
         \cup Losses("pieceAssignee", LostPieceAssignees(j, to))
         \cup Losses("author", {NameOf(db.remark[r].author) : r \in {q \in RemarksOf(j) :
                db.remark[q].author # Blank /\ MapMember(db.remark[q].author, to, FALSE) = Blank}})
         \cup (IF BondsOf(j) = {} THEN {} ELSE {[what |-> "bonds"]})
  BY DEF Unmapped, LostNames
<1>16. pv.lost = Unmapped(j, to) /\ Taken(o.job, db, db') = Taken(j, db, db')
  BY DEF j, to
<1>. DEFINE A == Losses("badge", BadgeNames(db.badge, db.job[j].badges)
                                  \ BadgeNames(db'.badge, db'.job[j].badges))
            B == UNION {Losses("pieceBadge", BadgeNames(db.badge, db.piece[p].badges)
                                             \ BadgeNames(db'.badge, db'.piece[p].badges))
                        : p \in PiecesOf(j)}
            C == UNION {Gone("pieceAssignee", db.piece[p].assignee, db'.piece[p].assignee, db.staff)
                        : p \in PiecesOf(j)}
            D == UNION {Gone("author", db.remark[r].author, db'.remark[r].author, db.staff)
                        : r \in RemarksOf(j)}
            E == IF db.bonds = db'.bonds THEN {} ELSE {[what |-> "bonds"]}
            F == Gone("assignee", db.job[j].assignee, db'.job[j].assignee, db.staff)
            G == Gone("requester", db.job[j].requester, db'.job[j].requester, db.staff)
<1>17. \A x \in Untold : x.what \in {"assignee", "requester", "pieceBadge"}
  BY DEF Untold
<1>18. /\ \A x \in A : x.what = "badge"
       /\ \A x \in C : x.what = "pieceAssignee"
       /\ \A x \in D : x.what = "author"
       /\ \A x \in E : x.what = "bonds"
  BY DEF Losses, Gone
<1>19. Unmapped(j, to) = A \cup (B \ Untold) \cup C \cup D \cup E
  <2>1. A = Losses("badge", LostNames(db.job[j].badges, to))
    BY <1>5
  <2>2. B \ Untold = Losses("pieceBadge", {db.badge[b].name : b \in UNION
          {db.piece[p].badges \ Kept(db.piece[p].badges, to) : p \in PiecesOf(j)}} \ {Nameless})
    BY <1>6
  <2>3. C = Losses("pieceAssignee", LostPieceAssignees(j, to))
    BY <1>7
  <2>4. D = Losses("author", {NameOf(db.remark[r].author) : r \in {q \in RemarksOf(j) :
                db.remark[q].author # Blank /\ MapMember(db.remark[q].author, to, FALSE) = Blank}})
    BY <1>8
  <2>5. E = IF BondsOf(j) = {} THEN {} ELSE {[what |-> "bonds"]}
    BY <1>9
  <2>. HIDE DEF A, B, C, D, E
  <2>. QED BY <1>15, <2>1, <2>2, <2>3, <2>4, <2>5
<1>20. ShownOf(pv, o.form) = pv.lost \cup (F \ Untold) \cup (G \ Untold)
  BY <1>12, <1>13 DEF ShownOf
<1>21. Taken(j, db, db') = A \cup F \cup G \cup B \cup C \cup D \cup E
  BY <1>14
<1>. HIDE DEF A, B, C, D, E, F, G
<1>22. A \cap Untold = {} /\ C \cap Untold = {} /\ D \cap Untold = {} /\ E \cap Untold = {}
  BY <1>17, <1>18
<1>23. ShownOf(pv, o.form) = Taken(j, db, db') \ Untold
  BY <1>16, <1>19, <1>20, <1>21, <1>22
<1>. QED BY <1>16, <1>23

(* A request whose answer has come, or been taken.                           *)
LEMMA AsksKnown ==
    ASSUME NEW S, asks \in Seq(S), NEW i \in DOMAIN asks
    PROVE  /\ RemoveAt(asks, i) \in Seq(S)
           /\ \A k \in DOMAIN RemoveAt(asks, i) : \E l \in DOMAIN asks : RemoveAt(asks, i)[k] = asks[l]
<1>1. PICK s, r : s = SubSeq(asks, 1, i - 1) /\ r = SubSeq(asks, i + 1, Len(asks))
  OBVIOUS
<1>2. Len(asks) \in Nat /\ i \in 1..Len(asks) /\ DOMAIN asks = 1..Len(asks)
  OBVIOUS
<1>3. RemoveAt(asks, i) = s \o r
  BY <1>1 DEF RemoveAt
<1>4. s \in Seq(S) /\ Len(s) = i - 1 /\ \A k \in 1..i - 1 : s[k] = asks[k]
  BY <1>1, <1>2
<1>5. /\ r \in Seq(S) /\ Len(r) = Len(asks) - i
      /\ \A k \in 1..Len(asks) - i : r[k] = asks[i + k]
  BY <1>1, <1>2
<1>6. s \o r \in Seq(S) /\ DOMAIN (s \o r) = 1..Len(asks) - 1
  <2>1. s \o r \in Seq(S) /\ Len(s \o r) = Len(s) + Len(r)
    <3>1. s \in Seq(S) /\ r \in Seq(S)
      BY <1>4, <1>5
    <3>. QED BY <3>1
  <2>2. Len(s) + Len(r) = Len(asks) - 1
    BY <1>2, <1>4, <1>5
  <2>. QED BY <2>1, <2>2
<1>7. ASSUME NEW k \in 1..Len(asks) - 1 PROVE \E l \in DOMAIN asks : (s \o r)[k] = asks[l]
  <2>1. CASE k < i
    <3>1. (s \o r)[k] = s[k] /\ k \in 1..i - 1
      BY <1>2, <1>4, <1>5, <2>1
    <3>. QED BY <1>2, <1>4, <3>1
  <2>2. CASE ~(k < i)
    <3>1. (s \o r)[k] = r[k - (i - 1)] /\ k - (i - 1) \in 1..Len(asks) - i
      BY <1>2, <1>4, <1>5, <2>2
    <3>2. r[k - (i - 1)] = asks[i + (k - (i - 1))] /\ i + (k - (i - 1)) \in 1..Len(asks)
      BY <1>2, <1>5, <3>1
    <3>. QED BY <1>2, <3>1, <3>2
  <2>. QED BY <2>1, <2>2
<1>. QED BY <1>3, <1>6, <1>7

LEMMA PlanStep == HomeInv /\ PlanInv /\ [MovePlanNext]_movePlanVars => PlanInv'
<1>. SUFFICES ASSUME HomeInv, PlanInv, [MovePlanNext]_movePlanVars PROVE PlanInv'
  OBVIOUS
<1>. DEFINE FieldsThere == {"open", "job", "target", "preview", "form", "confirmed", "moving"}
            Asked == /\ \E S : asks \in Seq(S)
                     /\ \A i \in DOMAIN asks : {"job", "from", "to", "answer"} \subseteq DOMAIN asks[i]
                     /\ \A i \in DOMAIN asks : asks[i].answer \notin {Blank, Refused}
                                                => PreviewTrue(asks[i].answer)
            Ordered == \A o \in orders : /\ PreviewTrue(o.preview) /\ o.to = o.preview.to
                                         /\ o.shown = ShownOf(o.preview, o.form)
            Previewed == dialog.preview # Blank => PreviewTrue(dialog.preview)
<1>1. edition \in Nat /\ DOMAIN dialog = FieldsThere /\ Asked /\ Ordered /\ Previewed
  BY DEF PlanInv
<1>2. (edition \in Nat /\ DOMAIN dialog = FieldsThere /\ Asked /\ Ordered /\ Previewed)' => PlanInv'
  BY DEF PlanInv
<1>3. ASSUME (db' = db /\ edition' = edition) \/ edition' = edition + 1
      PROVE  /\ edition' \in Nat /\ \A pv : PreviewTrue(pv) => PreviewTrue(pv)'
             /\ UNCHANGED asks => Asked'
             /\ orders' \subseteq orders => Ordered'
             /\ dialog'.preview = dialog.preview => Previewed'
  <2>1. edition' \in Nat /\ \A pv : PreviewTrue(pv) => PreviewTrue(pv)'
    BY <1>1, <1>3, PreviewsAge
  <2>2. UNCHANGED asks => Asked'
    BY <1>1, <2>1
  <2>3. orders' \subseteq orders => Ordered'
    <3>1. \A pv, form : ShownOf(pv, form)' = ShownOf(pv, form)
      BY DEF ShownOf
    <3>. QED BY <1>1, <2>1, <3>1
  <2>4. dialog'.preview = dialog.preview => Previewed'
    BY <1>1, <2>1
  <2>. QED BY <2>1, <2>2, <2>3, <2>4
<1>4. CASE UNCHANGED movePlanVars
  BY <1>1, <1>2, <1>3, <1>4 DEF movePlanVars
<1>5. CASE Close \/ Confirm \/ (\E j \in Jobs : TurnTo(j)) \/ (\E m \in Staff \cup {Blank} : Choose(m))
  <2>1. UNCHANGED <<db, edition, asks, orders>>
    BY <1>5 DEF Close, Confirm, TurnTo, Choose
  <2>2. DOMAIN dialog' = FieldsThere /\ dialog'.preview = dialog.preview
    BY <1>1, <1>5 DEF Close, Confirm, TurnTo, Choose
  <2>. QED BY <1>2, <1>3, <2>1, <2>2
<1>6. CASE Open
  <2>1. UNCHANGED <<db, edition, asks, orders>>
    BY <1>6 DEF Open
  <2>2. DOMAIN dialog' = FieldsThere /\ dialog'.preview = Blank
    BY <1>1, <1>6 DEF Open
  <2>. QED BY <1>2, <1>3, <2>1, <2>2
<1>7. CASE Move
  <2>1. UNCHANGED <<db, edition, asks>> /\ dialog' = [dialog EXCEPT !.moving = TRUE]
        /\ dialog.preview # Blank
    BY <1>7 DEF Move
  <2>2. DOMAIN dialog' = FieldsThere /\ dialog'.preview = dialog.preview
    BY <1>1, <2>1
  <2>3. ASSUME NEW o \in orders', o \notin orders
        PROVE  o.preview = dialog.preview /\ o.to = o.preview.to /\ o.shown = ShownOf(o.preview, o.form)
    BY <1>7, <2>3 DEF Move, ShownLosses, ShownOf
  <2>4. \A pv, form : ShownOf(pv, form)' = ShownOf(pv, form)
    BY DEF ShownOf
  <2>5. Ordered'
    BY <1>1, <1>3, <2>1, <2>3, <2>4
  <2>. QED BY <1>2, <1>3, <2>1, <2>2, <2>5
<1>8. ASSUME NEW to \in Sites, ChooseTarget(to) PROVE PlanInv'
  <2>. DEFINE ask == [job |-> dialog.job, from |-> db.job[dialog.job].site, to |-> to, answer |-> Blank]
  <2>1. /\ UNCHANGED <<db, edition, orders>> /\ asks' = Append(asks, ask)
        /\ dialog' = [dialog EXCEPT !.target = to, !.preview = Blank, !.confirmed = FALSE]
    BY <1>8 DEF ChooseTarget
  <2>2. DOMAIN dialog' = FieldsThere /\ dialog'.preview = Blank
    BY <1>1, <2>1
  <2>3. {"job", "from", "to", "answer"} \subseteq DOMAIN ask /\ ask.answer = Blank
    OBVIOUS
  <2>. HIDE DEF ask
  <2>4. PICK S : asks \in Seq(S)
    BY <1>1
  <2>5. asks' \in Seq(S \cup {ask})
    BY <2>1, <2>4
  <2>6. \A k \in DOMAIN asks' : asks'[k] = ask \/ (k \in DOMAIN asks /\ asks'[k] = asks[k])
    BY <2>1, <2>4
  <2>7. Asked'
    BY <1>1, <1>3, <2>1, <2>3, <2>5, <2>6
  <2>. QED BY <1>2, <1>3, <2>1, <2>2, <2>7
<1>9. ASSUME NEW i \in DOMAIN asks, ServePreview(i) PROVE PlanInv'
  <2>. DEFINE j == asks[i].job
              to == asks[i].to
  <2>1. PICK answer : /\ asks' = [asks EXCEPT ![i].answer = answer]
                      /\ answer = Refused \/ answer = PreviewOf(j, asks[i].from, to)
    BY <1>9 DEF ServePreview
  <2>2. UNCHANGED <<db, edition, orders, dialog>>
    BY <1>9 DEF ServePreview
  <2>3. answer # Refused => PreviewTrue(answer)
    <3>. SUFFICES ASSUME answer # Refused PROVE PreviewTrue(answer)
      OBVIOUS
    <3>. HIDE DEF j, to
    <3>1. /\ answer.job = j /\ answer.to = to /\ answer.edition = edition
          /\ answer.lost = Unmapped(j, to)
          /\ answer.assignee = NameOf(db.job[j].assignee)
          /\ answer.requester = NameOf(db.job[j].requester)
      <4>1. answer = PreviewOf(j, asks[i].from, to)
        BY <2>1
      <4>. QED BY <4>1 DEF PreviewOf
    <3>. QED BY <1>1, <3>1 DEF PreviewTrue
  <2>4. PICK S : asks \in Seq(S)
    BY <1>1
  <2>5. asks' \in Seq(S \cup {asks'[i]}) /\ DOMAIN asks' = DOMAIN asks
        /\ \A k \in DOMAIN asks : k # i => asks'[k] = asks[k]
    BY <2>1, <2>4
  <2>6. asks'[i].answer = answer /\ DOMAIN asks'[i] = DOMAIN asks[i]
    BY <1>1, <2>1, <2>4
  <2>7. Asked'
    BY SMTT(40), <1>1, <1>3, <2>2, <2>3, <2>5, <2>6
  <2>. QED BY <1>1, <1>2, <1>3, <2>2, <2>7
<1>10. ASSUME NEW i \in DOMAIN asks, Answer(i) PROVE PlanInv'
  <2>1. UNCHANGED <<db, edition, orders>> /\ asks' = RemoveAt(asks, i) /\ asks[i].answer # Blank
    BY <1>10 DEF Answer
  <2>2. /\ DOMAIN dialog' = FieldsThere
        /\ \/ dialog'.preview \in {Blank, dialog.preview}
           \/ asks[i].answer # Refused /\ dialog'.preview = asks[i].answer
    BY <1>1, <1>10 DEF Answer
  <2>3. PICK S : asks \in Seq(S)
    BY <1>1
  <2>4. asks' \in Seq(S) /\ \A k \in DOMAIN asks' : \E l \in DOMAIN asks : asks'[k] = asks[l]
    BY <2>1, <2>3, AsksKnown
  <2>5. Asked'
    BY <1>1, <1>3, <2>1, <2>4
  <2>6. Previewed'
    BY <1>1, <1>3, <2>1, <2>2
  <2>. QED BY <1>2, <1>3, <2>1, <2>2, <2>5, <2>6
<1>11. ASSUME NEW o \in orders, ServeMove(o) PROVE PlanInv'
  <2>1. /\ orders' \subseteq orders /\ UNCHANGED asks
        /\ (db' = db /\ edition' = edition) \/ edition' = edition + 1
    BY <1>11 DEF ServeMove
  <2>2. DOMAIN dialog' = FieldsThere /\ dialog'.preview = dialog.preview
    BY <1>1, <1>11 DEF ServeMove
  <2>. QED BY <1>2, <1>3, <2>1, <2>2
<1>12. CASE Elsewhere
  <2>1. UNCHANGED <<dialog, orders, asks>> /\ edition' = edition + 1
    BY <1>12 DEF Elsewhere, RemoveBadge, RenameBadge, RemoveMember, ToggleReadonly, Archive,
                 RemoveStage, Assign, BadgePiece, Relate, Say, Touched
  <2>. QED BY <1>1, <1>2, <1>3, <2>1
<1>. QED
  BY <1>4, <1>5, <1>6, <1>7, <1>8, <1>9, <1>10, <1>11, <1>12 DEF MovePlanNext

(* The dialog listed exactly what the move then takes away, whatever the     *)
(* tables and the moves, and whichever answers came late: the server's two   *)
(* readings of the rule, in the preview and in the move, and the part the    *)
(* dialog adds agree (TaskMoveService, TaskMoveModal.vue) but for what has   *)
(* no name, which the dialog leaves out (Untold).                            *)
THEOREM LossesWereShownAlways == db \in Db /\ RefersHome /\ MovePlanSpec => LossesWereShown
<1>. DEFINE ToldOf(o, j) == (/\ o \notin orders' /\ db'.job[j].site # db.job[j].site
                             /\ o.preview.job = o.job /\ o.preview.edition = edition)
                            => o.shown = Taken(j, db, db') \ Untold
            Telling == \A o \in orders : \A j \in Jobs : ToldOf(o, j)
<1>1. db \in Db /\ RefersHome /\ MovePlanInit => HomeInv /\ PlanInv
  <2>. SUFFICES ASSUME db \in Db, RefersHome, MovePlanInit PROVE HomeInv /\ PlanInv
    OBVIOUS
  <2>1. HomeInv
    BY DEF MovePlanInit, MovePlanFrom, HomeInv
  <2>2. /\ edition = 0 /\ asks = <<>> /\ orders = {} /\ dialog.preview = Blank
        /\ DOMAIN dialog = {"open", "job", "target", "preview", "form", "confirmed", "moving"}
    BY DEF MovePlanInit, MovePlanFrom
  <2>3. asks \in Seq({})
    BY <2>2
  <2>. QED BY <2>1, <2>2, <2>3 DEF PlanInv
<1>2. HomeInv /\ PlanInv /\ [MovePlanNext]_movePlanVars => HomeInv' /\ PlanInv'
  BY HomeStep, PlanStep
<1>3. HomeInv /\ PlanInv /\ [MovePlanNext]_movePlanVars => Telling
  <2>. SUFFICES ASSUME HomeInv, PlanInv, [MovePlanNext]_movePlanVars, NEW o \in orders, NEW j \in Jobs,
                       o \notin orders', db'.job[j].site # db.job[j].site,
                       o.preview.job = o.job, o.preview.edition = edition
                PROVE  o.shown = Taken(j, db, db') \ Untold
    OBVIOUS
  <2>1. PICK q \in orders : ServeMove(q)
    <3>1. CASE UNCHANGED movePlanVars
      BY <3>1 DEF movePlanVars
    <3>2. CASE Open \/ Close \/ Confirm \/ Move \/ (\E k \in Jobs : TurnTo(k))
               \/ (\E to \in Sites : ChooseTarget(to)) \/ (\E m \in Staff \cup {Blank} : Choose(m))
               \/ (\E i \in DOMAIN asks : ServePreview(i) \/ Answer(i)) \/ Elsewhere
      <4>1. orders \subseteq orders'
        BY <3>2 DEF Open, Close, Confirm, Move, TurnTo, ChooseTarget, Choose, ServePreview, Answer,
                    Elsewhere, RemoveBadge, RenameBadge, RemoveMember, ToggleReadonly, Archive,
                    RemoveStage, Assign, BadgePiece, Relate, Say, Touched
      <4>. QED BY <4>1
    <3>. QED BY <3>1, <3>2 DEF MovePlanNext
  <2>2. q = o
    BY <2>1 DEF ServeMove
  <2>3. Accepted(o) /\ db' = AfterMove(o)
    BY <2>1, <2>2 DEF ServeMove
  <2>4. db \in Db /\ RefersHome /\ o.job \in Jobs
    BY DEF HomeInv
  <2>5. j = o.job
    BY <2>3, <2>4, PartsOfDb DEF AfterMove, TableNames, TablesTyped
  <2>6. /\ o.preview.lost = Unmapped(o.job, o.to)
        /\ o.preview.assignee = NameOf(db.job[o.job].assignee)
        /\ o.preview.requester = NameOf(db.job[o.job].requester)
        /\ o.shown = ShownOf(o.preview, o.form)
    BY DEF PlanInv, PreviewTrue
  <2>. QED BY <2>3, <2>4, <2>5, <2>6, MoveTakesWhatIsTold
<1>. QED BY <1>1, <1>2, <1>3, PTL DEF MovePlanSpec, LossesWereShown

---------------------------------------------------------------------------
(* TaskMovePlan: types, and how often the tables change *)

LEMMA PlanBounds == MaxTouches \in Nat /\ MaxAsks \in Nat
  BY MovePlanAssumption

(* A row that is there is a row.                                             *)
LEMMA NamesThere ==
    ASSUME db \in Db
    PROVE  /\ \A s : \A m \in StaffOf(s) : m \in Staff /\ db.staff[m] \in Person /\ db.staff[m].name \in Titles
           /\ \A s : \A b \in BadgesOf(s) : b \in Badges /\ db.badge[b].name \in Titles
<1>1. TablesTyped(db)
  BY PartsOfDb
<1>2. ASSUME NEW s, NEW m \in StaffOf(s) PROVE m \in Staff /\ db.staff[m] \in Person /\ db.staff[m].name \in Titles
  <2>1. m \in Staff /\ db.staff[m] \in Person
    BY <1>1, <1>2 DEF TablesTyped, StaffOf
  <2>. QED BY <2>1 DEF Person
<1>3. ASSUME NEW s, NEW b \in BadgesOf(s) PROVE b \in Badges /\ db.badge[b].name \in Titles
  <2>1. b \in Badges /\ db.badge[b] \in Badge
    BY <1>1, <1>3 DEF TablesTyped, BadgesOf
  <2>. QED BY <2>1 DEF Badge
<1>. QED BY <1>2, <1>3

LEMMA LossesTyped ==
    ASSUME NEW what \in {"badge", "pieceBadge", "pieceAssignee", "author", "assignee", "requester"},
           NEW names \in SUBSET Titles
    PROVE  Losses(what, names) \in SUBSET Loss
  BY DEF Losses, Loss

(* What is lost of a task has a name: what it refers to is there.            *)
LEMMA UnmappedTyped ==
    ASSUME db \in Db, RefersHome, NEW j \in Jobs, NEW to
    PROVE  Unmapped(j, to) \in SUBSET Loss
<1>. DEFINE A == {db.badge[b].name : b \in db.job[j].badges \ Kept(db.job[j].badges, to)}
            B == {db.badge[b].name : b \in UNION
                    {db.piece[p].badges \ Kept(db.piece[p].badges, to) : p \in PiecesOf(j)}} \ {Nameless}
            C == LostPieceAssignees(j, to)
            D == {NameOf(db.remark[r].author) : r \in {q \in RemarksOf(j) :
                    db.remark[q].author # Blank /\ MapMember(db.remark[q].author, to, FALSE) = Blank}}
<1>1. A \in SUBSET Titles
  <2>1. \A b \in db.job[j].badges : b \in BadgesOf(db.job[j].site)
    BY DEF RefersHome, JobIsHome
  <2>. QED BY <2>1, NamesThere
<1>2. B \in SUBSET Titles
  <2>1. \A p \in PiecesOf(j) : \A b \in db.piece[p].badges : b \in BadgesOf(db.piece[p].site)
    BY DEF RefersHome, PieceIsHome, PiecesOf
  <2>. QED BY <2>1, NamesThere
<1>3. C \in SUBSET Titles
  <2>1. \A p \in PiecesOf(j) : db.piece[p].assignee # Blank
                                 => db.piece[p].assignee \in StaffOf(db.piece[p].site)
    BY DEF RefersHome, PieceIsHome, PiecesOf
  <2>2. \A p \in PiecesOf(j) : db.piece[p].assignee # Blank => NameOf(db.piece[p].assignee) \in Titles
    BY <2>1, NamesThere DEF NameOf
  <2>. QED BY <2>2 DEF LostPieceAssignees
<1>4. D \in SUBSET Titles
  <2>1. \A r \in RemarksOf(j) : db.remark[r].author # Blank
                                 => db.remark[r].author \in StaffOf(db.remark[r].site)
    BY DEF RefersHome, RemarkIsHome, RemarksOf
  <2>2. \A r \in RemarksOf(j) : db.remark[r].author # Blank => NameOf(db.remark[r].author) \in Titles
    BY <2>1, NamesThere DEF NameOf
  <2>. QED BY <2>2
<1>5. {[what |-> "bonds"]} \in SUBSET Loss
  BY DEF Loss
<1>6. Unmapped(j, to) = Losses("badge", A) \cup Losses("pieceBadge", B) \cup Losses("pieceAssignee", C)
        \cup Losses("author", D) \cup (IF BondsOf(j) = {} THEN {} ELSE {[what |-> "bonds"]})
  BY DEF Unmapped
<1>. HIDE DEF A, B, C, D
<1>7. Losses("badge", A) \in SUBSET Loss /\ Losses("pieceBadge", B) \in SUBSET Loss
      /\ Losses("pieceAssignee", C) \in SUBSET Loss /\ Losses("author", D) \in SUBSET Loss
  BY <1>1, <1>2, <1>3, <1>4, LossesTyped
<1>. QED BY <1>5, <1>6, <1>7

LEMMA DefaultStageTyped ==
    ASSUME db \in Db, NEW j, NEW to \in Sites, db.stages[to] # {}
    PROVE  DefaultStage(j, to) \in StageCodes
<1>. DEFINE same == {c \in db.stages[to] :
                       SameName(StageLabel[to][c], StageLabel[db.job[j].site][db.job[j].stage])}
<1>1. db.stages[to] \subseteq StageCodes
  BY PartsOfDb DEF TablesTyped
<1>2. DefaultStage(j, to) = CASE same # {} -> CHOOSE c \in same : TRUE
         [] same = {} /\ InitialStage[to] \in db.stages[to] -> InitialStage[to]
         [] OTHER -> CHOOSE c \in db.stages[to] : TRUE
  BY DEF DefaultStage
<1>3. (CHOOSE c \in db.stages[to] : TRUE) \in db.stages[to]
  OBVIOUS
<1>4. same # {} => (CHOOSE c \in same : TRUE) \in db.stages[to]
  OBVIOUS
<1>. HIDE DEF same
<1>. QED BY <1>1, <1>2, <1>3, <1>4

(* What the preview answers.                                                 *)
LEMMA PreviewTyped ==
    ASSUME db \in Db, RefersHome, NEW j \in Jobs, NEW from \in Sites, NEW to \in Sites,
           db.stages[to] # {}, edition \in 0..MaxTouches + MaxAsks
    PROVE  PreviewOf(j, from, to) \in Preview
<1>1. db.job[j].assignee \in Staff \cup {Blank} /\ db.job[j].requester \in Staff \cup {Blank}
  BY PartsOfDb DEF TablesTyped, Job
<1>2. NameOf(db.job[j].assignee) \in Titles \cup {Blank} /\ NameOf(db.job[j].requester) \in Titles \cup {Blank}
  <2>1. \A m \in {db.job[j].assignee, db.job[j].requester} : m # Blank => m \in StaffOf(db.job[j].site)
    BY DEF RefersHome, JobIsHome
  <2>. QED BY <2>1, NamesThere DEF NameOf
<1>3. \A m, asAssignee : MapMember(m, to, asAssignee) \in Staff \cup {Blank}
  BY MapMemberIsThere DEF StaffOf
<1>4. Unmapped(j, to) \in SUBSET Loss /\ DefaultStage(j, to) \in StageCodes
  BY UnmappedTyped, DefaultStageTyped
<1>5. {m \in StaffOf(to) : Assignable(m)} \in SUBSET Staff
  BY DEF StaffOf
<1>6. [stage |-> DefaultStage(j, to), assignee |-> MapMember(db.job[j].assignee, to, TRUE),
       requester |-> MapMember(db.job[j].requester, to, FALSE)] \in Form
  BY <1>3, <1>4 DEF Form
<1>. QED BY <1>2, <1>4, <1>5, <1>6 DEF PreviewOf, Preview

(* An answer, or a turn of the dialog, moves at most one request on; an order *)
(* or a preview on the screen is held against one that was answered.         *)
Held == IF orders # {} \/ (dialog.open /\ dialog.preview # Blank) THEN 1 ELSE 0

PlanTyped ==
    /\ asks \in Seq(Ask) /\ orders \subseteq MoveOrder /\ dialog \in Dialog

(* Each move was asked for by a preview of its own: what others did and the  *)
(* previews asked for bound the number of changes.                           *)
PlanCounts ==
    /\ asked \in 0..MaxAsks /\ edition \in Nat
    /\ \A o, p \in orders : o = p
    /\ orders # {} => dialog.moving
    /\ Len(asks) + Held <= asked
    /\ edition + Len(asks) + Held <= MaxTouches + asked

LEMMA EditionBound ==
    ASSUME PlanTyped, PlanCounts PROVE edition \in 0..MaxTouches + MaxAsks
<1>1. Len(asks) \in Nat /\ Held \in {0, 1}
  BY DEF PlanTyped, Held
<1>. QED BY <1>1, PlanBounds DEF PlanCounts

LEMMA ShownTyped ==
    ASSUME dialog \in Dialog, dialog.preview # Blank PROVE ShownLosses \in SUBSET Loss
<1>1. dialog.preview \in Preview
  BY DEF Dialog
<1>2. ASSUME NEW what \in {"assignee", "requester"}, NEW name \in Titles \cup {Blank}, NEW picked
      PROVE  LostPerson(what, name, picked) \in SUBSET Loss
  <2>1. name # Blank => {name} \in SUBSET Titles
    OBVIOUS
  <2>. QED BY <2>1, LossesTyped DEF LostPerson
<1>3. /\ dialog.preview.lost \in SUBSET Loss
      /\ dialog.preview.assignee \in Titles \cup {Blank} /\ dialog.preview.requester \in Titles \cup {Blank}
  BY <1>1 DEF Preview
<1>. QED BY <1>2, <1>3 DEF ShownLosses

(* Each step leaves the requests, the orders and the dialog what they are.   *)
LEMMA PlanTypedStep ==
    ASSUME HomeInv, PlanTyped, PlanCounts, [MovePlanNext]_movePlanVars PROVE PlanTyped'
<1>0. db \in Db /\ RefersHome /\ dialog.job \in Jobs /\ db.job \in [Jobs -> Job] /\ PlanTyped
  BY PartsOfDb DEF HomeInv, TablesTyped
<1>1. CASE UNCHANGED movePlanVars
  BY <1>0, <1>1 DEF movePlanVars, PlanTyped
<1>2. CASE Open \/ Close \/ Confirm \/ (\E j \in Jobs : TurnTo(j))
  BY <1>0, <1>2 DEF PlanTyped, Open, Close, Confirm, TurnTo, Dialog
<1>3. CASE Move
  <2>1. db.job[dialog.job].site \in Sites
    BY <1>0 DEF Job
  <2>2. dialog.preview \in Preview /\ ShownLosses \in SUBSET Loss
    BY <1>0, <1>3, ShownTyped DEF Move, PlanTyped, Dialog
  <2>3. dialog.preview.to \in Sites /\ dialog.form \in Form
    BY <1>0, <2>2 DEF PlanTyped, Dialog, Preview
  <2>4. [job |-> dialog.job, from |-> db.job[dialog.job].site, to |-> dialog.preview.to,
         form |-> dialog.form, shown |-> ShownLosses, preview |-> dialog.preview] \in MoveOrder
    BY <1>0, <2>1, <2>2, <2>3 DEF MoveOrder
  <2>5. orders' \subseteq MoveOrder /\ asks' = asks
    BY <1>0, <1>3, <2>4 DEF Move, PlanTyped
  <2>6. dialog' \in Dialog
    BY <1>0, <1>3 DEF Move, PlanTyped, Dialog
  <2>. QED BY <1>0, <2>5, <2>6 DEF PlanTyped
<1>4. ASSUME NEW to \in Sites, ChooseTarget(to) PROVE PlanTyped'
  <2>1. db.job[dialog.job].site \in Sites
    BY <1>0 DEF Job
  <2>2. [job |-> dialog.job, from |-> db.job[dialog.job].site, to |-> to, answer |-> Blank] \in Ask
    BY <1>0, <2>1 DEF Ask
  <2>3. asks' \in Seq(Ask) /\ orders' = orders
    BY <1>0, <1>4, <2>2 DEF ChooseTarget, PlanTyped
  <2>4. dialog' \in Dialog
    BY <1>0, <1>4 DEF ChooseTarget, PlanTyped, Dialog
  <2>. QED BY <1>0, <2>3, <2>4 DEF PlanTyped
<1>5. ASSUME NEW m \in Staff \cup {Blank}, Choose(m) PROVE PlanTyped'
  <2>1. dialog' = [dialog EXCEPT !.form = [dialog.form EXCEPT !.assignee = m]] /\ dialog.form \in Form
    BY <1>0, <1>5 DEF Choose, PlanTyped, Dialog
  <2>2. [dialog.form EXCEPT !.assignee = m] \in Form
    BY <2>1 DEF Form
  <2>3. dialog' \in Dialog
    BY <1>0, <2>1, <2>2 DEF PlanTyped, Dialog
  <2>. QED BY <1>0, <1>5, <2>3 DEF Choose, PlanTyped
<1>6. ASSUME NEW i \in DOMAIN asks, ServePreview(i) PROVE PlanTyped'
  <2>1. asks[i] \in Ask
    BY <1>0 DEF PlanTyped
  <2>2. PICK answer \in Preview \cup {Refused} : asks' = [asks EXCEPT ![i].answer = answer]
    <3>. DEFINE a == asks[i]
                new == IF Loads(a.job, a.from, a.to) /\ db.stages[a.to] # {}
                       THEN PreviewOf(a.job, a.from, a.to) ELSE Refused
    <3>1. asks' = [asks EXCEPT ![i].answer = new]
      BY <1>6 DEF ServePreview
    <3>2. a.job \in Jobs /\ a.from \in Sites /\ a.to \in Sites
      BY <2>1 DEF Ask
    <3>. HIDE DEF a
    <3>3. new \in Preview \cup {Refused}
      BY <1>0, <3>2, EditionBound, PreviewTyped
    <3>. HIDE DEF new
    <3>. QED BY <3>1, <3>3
  <2>3. [asks[i] EXCEPT !.answer = answer] \in Ask
    BY <2>1 DEF Ask
  <2>4. asks' = [asks EXCEPT ![i] = [asks[i] EXCEPT !.answer = answer]]
    BY <2>2
  <2>5. asks' \in Seq(Ask)
    BY <1>0, <2>3, <2>4 DEF PlanTyped
  <2>. QED BY <1>0, <1>6, <2>5 DEF ServePreview, PlanTyped
<1>7. ASSUME NEW i \in DOMAIN asks, Answer(i) PROVE PlanTyped'
  <2>1. asks[i] \in Ask /\ asks' \in Seq(Ask)
    BY <1>0, <1>7, AsksKnown DEF PlanTyped, Answer
  <2>2. asks[i].answer # Refused => asks[i].answer \in Preview /\ asks[i].answer.form \in Form
    BY <1>7, <2>1 DEF Answer, Ask, Preview
  <2>3. dialog' \in Dialog
    BY <1>0, <1>7, <2>2 DEF Answer, PlanTyped, Dialog
  <2>. QED BY <1>0, <1>7, <2>1, <2>3 DEF Answer, PlanTyped
<1>8. ASSUME NEW o \in orders, ServeMove(o) PROVE PlanTyped'
  <2>1. PICK b \in BOOLEAN : dialog' = [dialog EXCEPT !.moving = FALSE, !.open = b]
    <3>1. (dialog.open /\ ~(Accepted(o) /\ NoTwinRows(o))) \in BOOLEAN
      OBVIOUS
    <3>. QED BY <1>8, <3>1 DEF ServeMove
  <2>2. dialog' \in Dialog
    BY <1>0, <2>1 DEF PlanTyped, Dialog
  <2>. QED BY <1>0, <1>8, <2>2 DEF ServeMove, PlanTyped
<1>9. CASE Elsewhere
  <2>1. UNCHANGED <<dialog, orders, asks>>
    BY <1>9 DEF Elsewhere, RemoveBadge, RenameBadge, RemoveMember, ToggleReadonly, Archive,
                RemoveStage, Assign, BadgePiece, Relate, Say, Touched
  <2>. QED BY <1>0, <2>1 DEF PlanTyped
<1>. QED
  BY <1>1, <1>2, <1>3, <1>4, <1>5, <1>6, <1>7, <1>8, <1>9 DEF MovePlanNext

LEMMA OneAnswered ==
    ASSUME NEW S, asks \in Seq(S), NEW i \in DOMAIN asks
    PROVE  Len(RemoveAt(asks, i)) = Len(asks) - 1
<1>1. PICK s, r : s = SubSeq(asks, 1, i - 1) /\ r = SubSeq(asks, i + 1, Len(asks))
  OBVIOUS
<1>0. Len(asks) \in Nat /\ i \in 1..Len(asks)
  OBVIOUS
<1>2. /\ s \in Seq(S) /\ Len(s) = i - 1
      /\ r \in Seq(S) /\ Len(r) = Len(asks) - i
  <2>1. s \in Seq(S) /\ Len(s) = i - 1
    BY <1>0, <1>1
  <2>2. r \in Seq(S) /\ Len(r) = Len(asks) - i
    BY <1>0, <1>1
  <2>. QED BY <2>1, <2>2
<1>3. RemoveAt(asks, i) = s \o r /\ Len(s \o r) = Len(s) + Len(r)
  BY <1>1, <1>2 DEF RemoveAt
<1>. QED BY <1>0, <1>2, <1>3

(* What a step asks, answers, holds and changes.                             *)
LEMMA PlanMoves ==
    ASSUME HomeInv, PlanTyped, PlanCounts, [MovePlanNext]_movePlanVars
    PROVE  \/ /\ UNCHANGED <<asked, edition>> /\ Len(asks') = Len(asks)
              /\ Held' = 0 \/ Held' = Held
           \/ asked < MaxAsks /\ asked' = asked + 1 /\ edition' = edition /\ Len(asks') = Len(asks) + 1
              /\ (Held' = 0 \/ Held' = Held)
           \/ UNCHANGED <<asked, edition>> /\ Len(asks') = Len(asks) - 1
           \/ UNCHANGED asked /\ edition' = edition + 1 /\ Len(asks') = Len(asks) /\ Held = 1 /\ Held' = 0
           \/ /\ UNCHANGED asked /\ edition < MaxTouches /\ edition' = edition + 1
              /\ Len(asks') = Len(asks) /\ Held' = Held
<1>0. asks \in Seq(Ask) /\ dialog \in Dialog /\ Len(asks) \in Nat /\ (\A o, p \in orders : o = p)
  BY DEF PlanTyped, PlanCounts
<1>1. CASE UNCHANGED movePlanVars
  BY <1>1 DEF movePlanVars, Held
<1>2. CASE Open \/ Close \/ Confirm \/ Move \/ (\E j \in Jobs : TurnTo(j))
           \/ (\E m \in Staff \cup {Blank} : Choose(m))
  <2>1. UNCHANGED <<asked, edition, asks>>
    BY <1>2 DEF Open, Close, Confirm, Move, TurnTo, Choose
  <2>2. Held' = 0 \/ Held' = Held
    <3>1. CASE Open \/ Close
      BY <1>0, <3>1 DEF Open, Close, Held, Dialog
    <3>2. CASE Confirm \/ (\E j \in Jobs : TurnTo(j)) \/ (\E m \in Staff \cup {Blank} : Choose(m))
      BY <1>0, <3>2 DEF Confirm, TurnTo, Choose, Held, Dialog
    <3>3. CASE Move
      BY <1>0, <3>3 DEF Move, Held, Dialog
    <3>. QED BY <1>2, <3>1, <3>2, <3>3
  <2>. QED BY <2>1, <2>2
<1>3. ASSUME NEW to \in Sites, ChooseTarget(to)
      PROVE  /\ asked < MaxAsks /\ asked' = asked + 1 /\ edition' = edition /\ Len(asks') = Len(asks) + 1
             /\ Held' = 0 \/ Held' = Held
  <2>1. /\ asked < MaxAsks /\ asked' = asked + 1 /\ edition' = edition /\ orders' = orders
        /\ dialog' = [dialog EXCEPT !.target = to, !.preview = Blank, !.confirmed = FALSE]
        /\ \E a : asks' = Append(asks, a)
    BY <1>3 DEF ChooseTarget
  <2>2. Len(asks') = Len(asks) + 1
    BY <1>0, <2>1
  <2>3. Held' = 0 \/ Held' = Held
    BY <1>0, <2>1 DEF Held, Dialog
  <2>. QED BY <2>1, <2>2, <2>3
<1>4. ASSUME NEW i \in DOMAIN asks, ServePreview(i)
      PROVE  UNCHANGED <<asked, edition>> /\ Len(asks') = Len(asks) /\ Held' = Held
  <2>1. UNCHANGED <<asked, edition, orders, dialog>> /\ \E a : asks' = [asks EXCEPT ![i] = a]
    BY <1>4 DEF ServePreview
  <2>. QED BY <1>0, <2>1 DEF Held
<1>5. ASSUME NEW i \in DOMAIN asks, Answer(i)
      PROVE  UNCHANGED <<asked, edition>> /\ Len(asks') = Len(asks) - 1
  BY <1>0, <1>5, OneAnswered DEF Answer
<1>6. ASSUME NEW o \in orders, ServeMove(o)
      PROVE  /\ UNCHANGED <<asked, asks>> /\ Held = 1
             /\ \/ UNCHANGED edition /\ (Held' = 0 \/ Held' = Held)
                \/ edition' = edition + 1 /\ Held' = 0
  <2>1. UNCHANGED <<asked, asks>> /\ orders' = {} /\ orders # {}
    BY <1>0, <1>6 DEF ServeMove
  <2>2. Held = 1
    BY <2>1 DEF Held
  <2>3. CASE Accepted(o) /\ NoTwinRows(o)
    <3>1. edition' = edition + 1 /\ dialog' = [dialog EXCEPT !.moving = FALSE, !.open = FALSE]
      BY <1>6, <2>3 DEF ServeMove
    <3>2. Held' = 0
      BY <1>0, <2>1, <3>1 DEF Held, Dialog
    <3>. QED BY <2>1, <2>2, <3>1, <3>2
  <2>4. CASE ~(Accepted(o) /\ NoTwinRows(o))
    <3>1. edition' = edition
      BY <1>6, <2>4 DEF ServeMove
    <3>2. Held' = 0 \/ Held' = Held
      BY <2>2 DEF Held
    <3>. QED BY <2>1, <2>2, <3>1, <3>2
  <2>. QED BY <2>3, <2>4
<1>7. CASE edition < MaxTouches /\ Elsewhere
  <2>1. UNCHANGED <<dialog, orders, asks, asked>> /\ edition' = edition + 1
    BY <1>7 DEF Elsewhere, RemoveBadge, RenameBadge, RemoveMember, ToggleReadonly, Archive,
                RemoveStage, Assign, BadgePiece, Relate, Say, Touched
  <2>. QED BY <1>7, <2>1 DEF Held
<1>. QED
  BY <1>1, <1>2, <1>3, <1>4, <1>5, <1>6, <1>7 DEF MovePlanNext

LEMMA PlanCountsStep ==
    ASSUME HomeInv, PlanTyped, PlanCounts, PlanTyped', [MovePlanNext]_movePlanVars PROVE PlanCounts'
<1>1. /\ Len(asks) \in Nat /\ Len(asks') \in Nat /\ Held \in {0, 1} /\ Held' \in {0, 1}
      /\ asked \in 0..MaxAsks /\ edition \in Nat
  BY DEF PlanTyped, PlanCounts, Held
<1>2. /\ asked' \in 0..MaxAsks /\ edition' \in Nat
      /\ Len(asks') + Held' <= asked' /\ edition' + Len(asks') + Held' <= MaxTouches + asked'
  <2>1. Len(asks) + Held <= asked /\ edition + Len(asks) + Held <= MaxTouches + asked
    BY DEF PlanCounts
  <2>. QED BY SMTT(40), <1>1, <2>1, PlanMoves, PlanBounds
<1>3. (\A o, p \in orders' : o = p) /\ (orders' # {} => dialog'.moving)
  <2>0. dialog \in Dialog /\ (\A o, p \in orders : o = p) /\ (orders # {} => dialog.moving)
    BY DEF PlanTyped, PlanCounts
  <2>1. CASE Move
    BY <2>0, <2>1 DEF Move, Dialog
  <2>2. ASSUME NEW o \in orders, ServeMove(o) PROVE orders' = {}
    BY <2>0, <2>2 DEF ServeMove
  <2>3. CASE /\ orders' = orders
             /\ dialog' = dialog \/ Open \/ Close \/ Confirm \/ (\E j \in Jobs : TurnTo(j))
                \/ (\E to \in Sites : ChooseTarget(to)) \/ (\E m \in Staff \cup {Blank} : Choose(m))
                \/ (\E i \in DOMAIN asks : Answer(i))
    BY <2>0, <2>3 DEF Open, Close, Confirm, TurnTo, ChooseTarget, Choose, Answer, Dialog
  <2>4. CASE UNCHANGED movePlanVars \/ Elsewhere \/ (\E i \in DOMAIN asks : ServePreview(i))
    <3>1. UNCHANGED <<dialog, orders>>
      BY <2>4 DEF Elsewhere, RemoveBadge, RenameBadge, RemoveMember, ToggleReadonly, Archive,
                  RemoveStage, Assign, BadgePiece, Relate, Say, Touched, ServePreview, movePlanVars
    <3>. QED BY <2>0, <3>1
  <2>5. Open \/ Close \/ Confirm \/ (\E j \in Jobs : TurnTo(j)) \/ (\E to \in Sites : ChooseTarget(to))
        \/ (\E m \in Staff \cup {Blank} : Choose(m)) \/ (\E i \in DOMAIN asks : Answer(i))
        => orders' = orders
    BY DEF Open, Close, Confirm, TurnTo, ChooseTarget, Choose, Answer
  <2>. QED BY <2>1, <2>2, <2>3, <2>4, <2>5 DEF MovePlanNext
<1>. QED BY <1>2, <1>3 DEF PlanCounts

LEMMA PlanStarts ==
    ASSUME db \in Db, RefersHome, MovePlanInit PROVE HomeInv /\ PlanTyped /\ PlanCounts
<1>1. HomeInv
  BY DEF MovePlanInit, MovePlanFrom, HomeInv
<1>2. PlanTyped
  <2>1. asks \in Seq(Ask) /\ orders \subseteq MoveOrder
    BY DEF MovePlanInit, MovePlanFrom
  <2>2. dialog \in Dialog
    BY DEF MovePlanInit, MovePlanFrom, Dialog, Form, Unfilled
  <2>. QED BY <2>1, <2>2 DEF PlanTyped
<1>3. /\ asked = 0 /\ edition = 0 /\ orders = {} /\ Len(asks) = 0 /\ dialog.open = FALSE
  BY DEF MovePlanInit, MovePlanFrom
<1>4. PlanCounts
  BY <1>3, PlanBounds DEF PlanCounts, Held
<1>. QED BY <1>1, <1>2, <1>4

(* What the dialog asks, shows and orders, and the tables it moves a task    *)
(* through, are what TaskMoveModal.vue and TaskMoveService take them for,    *)
(* and each move was asked for by a preview of its own.                      *)
THEOREM MovePlanTypeCorrect == db \in Db /\ RefersHome /\ MovePlanSpec => []MovePlanTypeOK
<1>1. db \in Db /\ RefersHome /\ MovePlanInit => HomeInv /\ PlanTyped /\ PlanCounts
  BY PlanStarts
<1>2. HomeInv /\ PlanTyped /\ PlanCounts /\ [MovePlanNext]_movePlanVars
        => HomeInv' /\ PlanTyped' /\ PlanCounts'
  BY HomeStep, PlanTypedStep, PlanCountsStep
<1>3. HomeInv /\ PlanTyped /\ PlanCounts => MovePlanTypeOK
  <2>. SUFFICES ASSUME HomeInv, PlanTyped, PlanCounts PROVE MovePlanTypeOK
    OBVIOUS
  <2>1. \A i \in DOMAIN asks : asks[i] \in Ask
    BY DEF PlanTyped
  <2>. QED BY <2>1, EditionBound DEF HomeInv, PlanTyped, PlanCounts, MovePlanTypeOK
<1>. QED BY <1>1, <1>2, <1>3, PTL DEF MovePlanSpec

---------------------------------------------------------------------------
(* TaskCharts: what is loaded, drawn and kept *)

(* What a request or an event under way will set right in the list. *)
RowsComing == "tasks" \in events \/ \E r \in requests : r.state = "done"

(* The list is what is stored, but for the persons. *)
Current(rows, tables) ==
    /\ DOMAIN rows = DOMAIN Loadable(tables).rows
    /\ \A t \in DOMAIN rows : Alike(rows[t], tables.rows[t])

(* A request carries a value of its field, an answer the row. *)
RequestTyped(r) ==
    /\ r.field = "status" => r.value \in Lanes
    /\ r.field = "plan" => r.value \in Plans
    /\ r.state = "done" => r.reply \in Ticket

(* Types, and that no task has a status that is gone. *)
ChartsTyped ==
    /\ server \in Tables /\ DOMAIN server.rows = Tickets
    /\ \A t \in Tickets : server.rows[t].status \in server.lanes
    /\ front \in Tables /\ got \in Tables
    /\ loading \in [Resource -> {"idle", "sent", "read", "failed"}]
    /\ cols \in [Column -> SUBSET Tickets]
    /\ dragging \in Drag \cup {Nobody} /\ torn \in BOOLEAN
    /\ requests \subseteq Request /\ \A r \in requests : RequestTyped(r)
    /\ taskOpen \in Tickets \cup {Nobody}
    /\ taskCache \in [card : Tickets, row : Ticket] \cup {Nobody}

(* What has been read and what is loaded is what is stored, unless an event  *)
(* or the answer to a request is under way that will have it loaded again.   *)
TablesInv ==
    /\ \/ RowsComing
       \/ /\ loading["rows"] = "read" => Current(got.rows, server)
          /\ loading["rows"] = "idle" => Current(front.rows, server)
    /\ \/ "tasks" \in events
       \/ /\ loading["edges"] = "read" => got.edges = server.edges
          /\ loading["edges"] = "idle" => front.edges = server.edges
    /\ \/ "masters" \in events
       \/ /\ loading["lanes"] = "read" => got.lanes = server.lanes
          /\ loading["lanes"] = "idle" => front.lanes = server.lanes

(* The columns are those of what is loaded, unless they will be drawn again, *)
(* or a drop tore them.                                                      *)
ColsInv ==
    /\ \/ torn \/ \E r \in requests : ~r.panel
       \/ loading["rows"] \in {"sent", "read"}
       \/ cols = Columns(front)
    /\ dragging # Nobody => ~torn
    /\ dragging # Nobody /\ ~dragging.redrawn =>
         /\ dragging.card \in Charted
         /\ dragging.status = front.rows[dragging.card].status
         /\ dragging.card \in cols[dragging.from]

(* The panel will have the answer to an edit of the task. *)
AnswerComing(t) == \E r \in requests : r.panel /\ r.card = t /\ r.state = "done"

(* What an answer brings, the list will bring and the panel keeps of a task  *)
(* is its row, unless a newer answer is under way.                           *)
PanelCacheInv ==
    /\ \A r \in requests :
         r.panel /\ r.state = "done" /\ r.card \notin behind => Alike(r.reply, server.rows[r.card])
    /\ loading["rows"] = "read" =>
         \A t \in DOMAIN got.rows :
            t \in behind \/ AnswerComing(t) \/ Alike(got.rows[t], server.rows[t])
    /\ taskCache # Nobody =>
         \/ taskCache.card \in behind \/ AnswerComing(taskCache.card)
         \/ Alike(taskCache.row, server.rows[taskCache.card])

ChartsInv == ChartsTyped /\ TablesInv /\ ColsInv /\ PanelCacheInv

LEMMA LoadableIs ==
    ASSUME NEW tables \in Tables
    PROVE  /\ Loadable(tables) \in Tables
           /\ DOMAIN Loadable(tables).rows =
                {t \in DOMAIN tables.rows : tables.rows[t].status \notin ClosedLanes}
           /\ \A t \in DOMAIN Loadable(tables).rows : Loadable(tables).rows[t] = tables.rows[t]
           /\ Loadable(tables).lanes = tables.lanes
           /\ Loadable(tables).people = tables.people
           /\ Loadable(tables).edges = tables.edges
<1>. DEFINE S == {t \in DOMAIN tables.rows : tables.rows[t].status \notin ClosedLanes}
            rows == [t \in S |-> tables.rows[t]]
<1>1. PICK ts \in SUBSET Tickets : tables.rows \in [ts -> Ticket]
  BY DEF Tables
<1>2. rows \in [S -> Ticket] /\ S \in SUBSET Tickets
  BY <1>1
<1>3. Loadable(tables) = [tables EXCEPT !.rows = rows]
  BY DEF Loadable, Restrict
<1>4. Loadable(tables) = [rows |-> rows, lanes |-> tables.lanes, people |-> tables.people,
                          edges |-> tables.edges]
  BY <1>3 DEF Tables
<1>5. DOMAIN Loadable(tables).rows = S
      /\ \A t \in DOMAIN Loadable(tables).rows : Loadable(tables).rows[t] = tables.rows[t]
  BY <1>4
<1>6. Loadable(tables) \in Tables
  <2>1. rows \in UNION {[x -> Ticket] : x \in SUBSET Tickets}
    BY <1>2
  <2>. HIDE DEF rows
  <2>. QED BY <1>4, <2>1 DEF Tables
<1>. QED BY <1>4, <1>5, <1>6

LEMMA AlikeIs ==
    ASSUME NEW r \in Ticket, NEW q \in Ticket
    PROVE  Alike(r, q) <=> r.status = q.status /\ r.plan = q.plan
<1>1. [r EXCEPT !.person = Nobody] = [status |-> r.status, person |-> Nobody, plan |-> r.plan]
  BY DEF Ticket
<1>2. [q EXCEPT !.person = Nobody] = [status |-> q.status, person |-> Nobody, plan |-> q.plan]
  BY DEF Ticket
<1>. QED BY <1>1, <1>2 DEF Alike

LEMMA TablesRows ==
    ASSUME NEW tables \in Tables
    PROVE  /\ DOMAIN tables.rows \subseteq Tickets
           /\ \A t \in DOMAIN tables.rows : tables.rows[t] \in Ticket
           /\ tables.rows \in [DOMAIN tables.rows -> Ticket]
           /\ tables.lanes \subseteq Lanes /\ tables.people \subseteq Persons
           /\ tables.edges \subseteq Dependencies
<1>1. PICK ts \in SUBSET Tickets : tables.rows \in [ts -> Ticket]
  BY DEF Tables
<1>. QED BY <1>1 DEF Tables

LEMMA TablesWith ==
    ASSUME NEW tables \in Tables
    PROVE  /\ \A rows : DOMAIN rows \subseteq Tickets /\ rows \in [DOMAIN rows -> Ticket]
                  => [tables EXCEPT !.rows = rows] \in Tables
           /\ \A lanes \in SUBSET Lanes : [tables EXCEPT !.lanes = lanes] \in Tables
           /\ \A people \in SUBSET Persons : [tables EXCEPT !.people = people] \in Tables
           /\ \A edges \in SUBSET Dependencies : [tables EXCEPT !.edges = edges] \in Tables
BY DEF Tables

LEMMA ColumnsTyped ==
    ASSUME NEW tables \in Tables
    PROVE  Columns(tables) \in [Column -> SUBSET Tickets]
BY TablesRows DEF Columns

(* A step of the requests or of others leaves the tables well-formed.        *)
LEMMA RowTyped ==
    ASSUME NEW row \in Ticket, NEW field \in {"status", "plan"}, NEW value,
           field = "status" => value \in Lanes, field = "plan" => value \in Plans
    PROVE  Edited(row, field, value) \in Ticket
BY DEF Edited, Ticket

(* The rows that one edit leaves. *)
LEMMA RowsWith ==
    ASSUME ChartsTyped, NEW t \in Tickets, NEW row \in Ticket, row.status \in server.lanes,
           server' = [server EXCEPT !.rows[t] = row]
    PROVE  /\ server' \in Tables /\ DOMAIN server'.rows = Tickets
           /\ \A u \in Tickets : server'.rows[u] = IF u = t THEN row ELSE server.rows[u]
           /\ \A u \in Tickets : server'.rows[u].status \in server'.lanes
           /\ server'.lanes = server.lanes /\ server'.edges = server.edges
           /\ server'.people = server.people
<1>. DEFINE rows == [server.rows EXCEPT ![t] = row]
<1>1. server \in Tables /\ DOMAIN server.rows = Tickets /\ server.rows \in [Tickets -> Ticket]
  BY TablesRows DEF ChartsTyped
<1>2. rows \in [Tickets -> Ticket] /\ DOMAIN rows = Tickets
  BY <1>1
<1>3. \A u \in Tickets : rows[u] = IF u = t THEN row ELSE server.rows[u]
  BY <1>1
<1>4. server' = [server EXCEPT !.rows = rows]
  OBVIOUS
<1>. HIDE DEF rows
<1>5. server' \in Tables
  BY <1>1, <1>2, <1>4, TablesWith
<1>6. server'.rows = rows /\ server'.lanes = server.lanes /\ server'.edges = server.edges
      /\ server'.people = server.people
  BY <1>1, <1>4 DEF Tables
<1>. QED BY <1>2, <1>3, <1>5, <1>6 DEF ChartsTyped

LEMMA LeftTyped ==
    ASSUME ChartsTyped, NEW p \in Persons, MemberLeaves(p)
    PROVE  /\ server' \in Tables /\ DOMAIN server'.rows = Tickets
           /\ \A t \in Tickets : /\ server'.rows[t].status = server.rows[t].status
                                /\ server'.rows[t].plan = server.rows[t].plan
           /\ \A t \in Tickets : server'.rows[t].status \in server'.lanes
           /\ server'.lanes = server.lanes /\ server'.edges = server.edges
<1>. DEFINE rows == [t \in Tickets |-> IF server.rows[t].person = p
                                       THEN [server.rows[t] EXCEPT !.person = Nobody]
                                       ELSE server.rows[t]]
            people == server.people \ {p}
<1>1. server \in Tables /\ DOMAIN server.rows = Tickets /\ server.rows \in [Tickets -> Ticket]
  BY TablesRows DEF ChartsTyped
<1>2. rows \in [Tickets -> Ticket] /\ DOMAIN rows = Tickets
  BY <1>1 DEF Ticket
<1>3. \A t \in Tickets : rows[t].status = server.rows[t].status /\ rows[t].plan = server.rows[t].plan
  BY <1>1 DEF Ticket
<1>4. server' = [server EXCEPT !.people = people, !.rows = rows]
  BY DEF MemberLeaves
<1>. HIDE DEF rows
<1>5. server' = [rows |-> rows, lanes |-> server.lanes, people |-> people, edges |-> server.edges]
  BY <1>1, <1>4 DEF Tables
<1>6. server' \in Tables
  BY <1>1, <1>2, <1>5 DEF Tables
<1>. QED BY <1>2, <1>3, <1>5, <1>6 DEF ChartsTyped

(* What arrives. *)
LEMMA FrontTyped ==
    ASSUME ChartsTyped, NEW k \in Resource, NEW end \in {"idle", "failed"}, TableArrives(k, end)
    PROVE  /\ front' \in Tables /\ got' \in Tables
           /\ front'[k] = IF end = "idle" THEN got[k] ELSE NoTables[k]
           /\ got'[k] = NoTables[k]
           /\ \A j \in Resource \ {k} : front'[j] = front[j] /\ got'[j] = got[j]
<1>. DEFINE in == IF end = "idle" THEN got[k] ELSE NoTables[k]
<1>1. front \in Tables /\ got \in Tables
  BY DEF ChartsTyped
<1>2. NoTables \in Tables
  BY DEF NoTables, Tables
<1>3. front' = [front EXCEPT ![k] = in] /\ got' = [got EXCEPT ![k] = NoTables[k]]
  BY DEF TableArrives
<1>4. \A j \in Resource : /\ front'[j] = IF j = k THEN in ELSE front[j]
                          /\ got'[j] = IF j = k THEN NoTables[k] ELSE got[j]
  BY <1>1, <1>3 DEF Tables, Resource
<1>5. in = got[k] \/ in = NoTables[k]
  OBVIOUS
<1>6. front' \in Tables
  BY <1>1, <1>2, <1>3, <1>5 DEF Tables, Resource
<1>7. got' \in Tables
  BY <1>1, <1>2, <1>3 DEF Tables, Resource
<1>. QED BY <1>4, <1>6, <1>7

LEMMA ReadTyped ==
    ASSUME ChartsTyped, NEW k \in Resource, ReadTable(k)
    PROVE  /\ got' \in Tables
           /\ got'[k] = Loadable(server)[k]
           /\ \A j \in Resource \ {k} : got'[j] = got[j]
<1>1. got \in Tables /\ Loadable(server) \in Tables
  BY LoadableIs DEF ChartsTyped
<1>2. got' = [got EXCEPT ![k] = Loadable(server)[k]]
  BY DEF ReadTable
<1>. HIDE DEF Loadable
<1>. QED BY <1>1, <1>2 DEF Tables, Resource

(* The steps, each with what it is about. *)
LEMMA ChartsSteps ==
    ASSUME ChartsNext
    PROVE  \/ \E t \in Tickets : OpenDrawer(t)
           \/ \E t \in Tickets, from \in Column : StartDrag(t, from)
           \/ \E s \in Lanes : ChangeField("status", s)
           \/ \E plan \in Plans : ChangeField("plan", plan)
           \/ \E t \in Tickets, row \in Ticket : OtherEdits(t, row)
           \/ \E link \in Dependencies : OtherLinks(link)
           \/ \E lane \in Lanes : OtherSetsLane(lane)
           \/ \E p \in Persons : MemberLeaves(p)
           \/ CloseDrawer
           \/ \E to \in Column : DropCard(to)
           \/ \E r \in requests : RequestAnswered(r)
           \/ \E r \in requests, ok \in BOOLEAN : ServeRequest(r, ok)
           \/ \E topic \in Topic : EventArrives(topic)
           \/ \E k \in Resource : ReadTable(k)
           \/ \E k \in Resource, end \in {"idle", "failed"} : TableArrives(k, end)
BY DEF ChartsNext, User, Others

LEMMA ChartsTypedStep ==
    ASSUME ChartsTyped, [ChartsNext]_chartVars
    PROVE  ChartsTyped'
<1>. USE DEF boardVars, drawerVars, loadVars
<1>1. CASE UNCHANGED chartVars
  BY <1>1 DEF chartVars, ChartsTyped, RequestTyped
<1>2. ASSUME NEW t \in Tickets, OpenDrawer(t) PROVE ChartsTyped'
  <2>1. taskCache' \in [card : Tickets, row : Ticket] \cup {Nobody}
    <3>1. t \in DOMAIN front.rows => front.rows[t] \in Ticket
      BY TablesRows DEF ChartsTyped
    <3>. QED BY <1>2, <3>1 DEF OpenDrawer, Follow, ChartsTyped
  <2>. QED BY <1>2, <2>1 DEF OpenDrawer, Follow, ChartsTyped, RequestTyped
<1>3. ASSUME NEW t \in Tickets, NEW from \in Column, StartDrag(t, from) PROVE ChartsTyped'
  <2>1. dragging' \in Drag
    <3>1. front.rows[t] \in Ticket
      BY <1>3, TablesRows DEF ChartsTyped, StartDrag, Charted
    <3>. QED BY <1>3, <3>1 DEF StartDrag, Drag, Ticket
  <2>. QED BY <1>3, <2>1 DEF StartDrag, ChartsTyped, RequestTyped
<1>4. ASSUME NEW field \in {"status", "plan"}, NEW value, ChangeField(field, value),
             field = "status" => value \in Lanes, field = "plan" => value \in Plans
      PROVE  ChartsTyped'
  <2>. DEFINE r == [card |-> taskOpen, field |-> field, value |-> value, panel |-> TRUE,
                    reply |-> Nobody, state |-> "sent"]
  <2>1. r \in Request /\ RequestTyped(r)
    BY <1>4 DEF Request, RequestTyped, ChangeField, ChartsTyped
  <2>2. requests' = requests \cup {r}
    BY <1>4 DEF ChangeField
  <2>. HIDE DEF r
  <2>. QED BY <1>4, <2>1, <2>2 DEF ChangeField, ChartsTyped, RequestTyped
<1>5. ASSUME NEW t \in Tickets, NEW row \in Ticket, OtherEdits(t, row) PROVE ChartsTyped'
  <2>1. server' = [server EXCEPT !.rows[t] = row] /\ row.status \in server.lanes
    BY <1>5 DEF OtherEdits
  <2>. QED BY <1>5, <2>1, RowsWith DEF OtherEdits, ChartsTyped, RequestTyped
<1>6. ASSUME NEW link \in Dependencies, OtherLinks(link) PROVE ChartsTyped'
  <2>1. SymDiff(server.edges, {link}) \in SUBSET Dependencies
    BY TablesRows DEF ChartsTyped, SymDiff
  <2>2. server' = [server EXCEPT !.edges = SymDiff(server.edges, {link})]
    BY <1>6 DEF OtherLinks
  <2>3. server' \in Tables /\ server'.rows = server.rows /\ server'.lanes = server.lanes
    BY <2>1, <2>2 DEF ChartsTyped, Tables
  <2>. QED BY <1>6, <2>3 DEF OtherLinks, ChartsTyped, RequestTyped
<1>7. ASSUME NEW lane \in Lanes, OtherSetsLane(lane) PROVE ChartsTyped'
  <2>1. SymDiff(server.lanes, {lane}) \in SUBSET Lanes
        /\ \A s \in server.lanes : s # lane => s \in SymDiff(server.lanes, {lane})
    BY TablesRows DEF ChartsTyped, SymDiff
  <2>2. server' = [server EXCEPT !.lanes = SymDiff(server.lanes, {lane})]
    BY <1>7 DEF OtherSetsLane
  <2>3. server' \in Tables /\ server'.rows = server.rows
        /\ server'.lanes = SymDiff(server.lanes, {lane})
    BY <2>1, <2>2 DEF ChartsTyped, Tables
  <2>. QED BY <1>7, <2>1, <2>3 DEF OtherSetsLane, ChartsTyped, RequestTyped
<1>8. ASSUME NEW p \in Persons, MemberLeaves(p) PROVE ChartsTyped'
  BY <1>8, LeftTyped DEF MemberLeaves, ChartsTyped, RequestTyped
<1>9. CASE CloseDrawer
  BY <1>9 DEF CloseDrawer, Follow, ChartsTyped, RequestTyped
<1>10. ASSUME NEW to \in Column, DropCard(to) PROVE ChartsTyped'
  <2>1. dragging \in Drag /\ dragging.card \in Tickets /\ dragging.from \in Column
        /\ dragging.redrawn \in BOOLEAN
    BY <1>10 DEF DropCard, ChartsTyped, Drag
  <2>2. CASE to = dragging.from
    BY <1>10, <2>2 DEF DropCard, ChartsTyped, RequestTyped
  <2>3. CASE to # dragging.from
    <3>. DEFINE r == [card |-> dragging.card, field |-> "status", value |-> to, panel |-> FALSE,
                      reply |-> Nobody, state |-> "sent"]
    <3>1. to \in Lanes
      BY <1>10, <2>3, TablesRows DEF DropCard, ChartsTyped
    <3>2. r \in Request /\ RequestTyped(r)
      BY <2>1, <3>1 DEF Request, RequestTyped
    <3>3. requests' = requests \/ requests' = requests \cup {r}
      BY <1>10, <2>3 DEF DropCard
    <3>. HIDE DEF r
    <3>4. cols' \in [Column -> SUBSET Tickets]
      BY <1>10, <2>1, <2>3 DEF DropCard, ChartsTyped
    <3>5. torn' \in BOOLEAN
      BY <1>10, <2>1, <2>3 DEF DropCard
    <3>. QED BY <1>10, <3>2, <3>3, <3>4, <3>5 DEF DropCard, ChartsTyped, RequestTyped
  <2>. QED BY <2>2, <2>3
<1>11. ASSUME NEW r \in requests, RequestAnswered(r) PROVE ChartsTyped'
  <2>1. taskCache' \in [card : Tickets, row : Ticket] \cup {Nobody}
    <3>1. r \in Request /\ RequestTyped(r)
      BY DEF ChartsTyped
    <3>. QED BY <1>11, <3>1 DEF RequestAnswered, ChartsTyped, RequestTyped, Request
  <2>2. loading' \in [Resource -> {"idle", "sent", "read", "failed"}]
    BY <1>11 DEF RequestAnswered, ChartsTyped
  <2>. QED BY <1>11, <2>1, <2>2 DEF RequestAnswered, ChartsTyped, RequestTyped
<1>12. ASSUME NEW r \in requests, NEW ok \in BOOLEAN, ServeRequest(r, ok) PROVE ChartsTyped'
  <2>. DEFINE row == Edited(server.rows[r.card], r.field, r.value)
              q == [r EXCEPT !.state = IF ok THEN "done" ELSE "failed",
                             !.reply = IF ok THEN row ELSE Nobody]
  <2>1. r \in Request /\ RequestTyped(r) /\ r.card \in Tickets /\ r.field \in {"status", "plan"}
    BY DEF ChartsTyped, Request
  <2>2. row \in Ticket
    <3>1. server.rows[r.card] \in Ticket
      BY <2>1, TablesRows DEF ChartsTyped
    <3>. QED BY <2>1, <3>1, RowTyped DEF RequestTyped
  <2>. HIDE DEF row
  <2>3. q \in Request /\ RequestTyped(q)
    BY <2>1, <2>2 DEF Request, RequestTyped
  <2>4. requests' = (requests \ {r}) \cup {q}
    BY <1>12 DEF ServeRequest, row
  <2>. HIDE DEF q
  <2>5. CASE ok
    <3>1. server' = [server EXCEPT !.rows[r.card] = row] /\ row.status \in server.lanes
      BY <1>12, <2>5 DEF ServeRequest, row
    <3>. QED BY <1>12, <2>1, <2>2, <2>3, <2>4, <3>1, RowsWith DEF ServeRequest, ChartsTyped, RequestTyped
  <2>6. CASE ~ok
    <3>1. server' = server
      BY <1>12, <2>6 DEF ServeRequest
    <3>. QED BY <1>12, <2>3, <2>4, <3>1 DEF ServeRequest, ChartsTyped, RequestTyped
  <2>. QED BY <2>5, <2>6
<1>13. ASSUME NEW topic \in Topic, EventArrives(topic) PROVE ChartsTyped'
  <2>1. loading' \in [Resource -> {"idle", "sent", "read", "failed"}]
    BY <1>13 DEF EventArrives, ChartsTyped
  <2>. QED BY <1>13, <2>1 DEF EventArrives, ChartsTyped, RequestTyped
<1>14. ASSUME NEW k \in Resource, ReadTable(k) PROVE ChartsTyped'
  <2>1. loading' \in [Resource -> {"idle", "sent", "read", "failed"}]
    BY <1>14 DEF ReadTable, ChartsTyped
  <2>2. got' \in Tables
    BY <1>14, ReadTyped
  <2>. QED BY <1>14, <2>1, <2>2 DEF ReadTable, ChartsTyped, RequestTyped
<1>15. ASSUME NEW k \in Resource, NEW end \in {"idle", "failed"}, TableArrives(k, end) PROVE ChartsTyped'
  <2>1. front' \in Tables /\ got' \in Tables
    BY <1>15, FrontTyped
  <2>2. loading' \in [Resource -> {"idle", "sent", "read", "failed"}]
    BY <1>15 DEF TableArrives, ChartsTyped
  <2>3. /\ cols' \in [Column -> SUBSET Tickets] /\ torn' \in BOOLEAN
        /\ dragging' \in Drag \cup {Nobody}
    <3>1. CASE k \in {"rows", "lanes"}
      <4>1. cols' = Columns(front') /\ torn' = FALSE
            /\ dragging' = IF dragging = Nobody THEN Nobody ELSE [dragging EXCEPT !.redrawn = TRUE]
        BY <1>15, <3>1 DEF TableArrives, Rebuild
      <4>2. dragging # Nobody => [dragging EXCEPT !.redrawn = TRUE] \in Drag
        BY DEF ChartsTyped, Drag
      <4>3. cols' \in [Column -> SUBSET Tickets]
        BY <2>1, <4>1, ColumnsTyped
      <4>. QED BY <4>1, <4>2, <4>3
    <3>2. CASE k \notin {"rows", "lanes"}
      BY <1>15, <3>2 DEF TableArrives, ChartsTyped
    <3>. QED BY <3>1, <3>2
  <2>4. taskOpen' \in Tickets \cup {Nobody} /\ taskCache' \in [card : Tickets, row : Ticket] \cup {Nobody}
    <3>1. CASE k = "rows"
      <4>1. Follow(taskOpen, taskCache)
        BY <1>15, <3>1 DEF TableArrives
      <4>2. \A t \in DOMAIN front'.rows : t \in Tickets /\ front'.rows[t] \in Ticket
        BY <2>1, TablesRows
      <4>. QED BY <4>1, <4>2 DEF Follow, ChartsTyped
    <3>2. CASE k # "rows"
      BY <1>15, <3>2 DEF TableArrives, ChartsTyped
    <3>. QED BY <3>1, <3>2
  <2>. QED BY <1>15, <2>1, <2>2, <2>3, <2>4 DEF TableArrives, ChartsTyped, RequestTyped
<1>. QED BY ChartsSteps, <1>1, <1>2, <1>3, <1>4, <1>5, <1>6, <1>7, <1>8, <1>9, <1>10, <1>11, <1>12,
            <1>13, <1>14, <1>15

LEMMA LoadedIsCurrent ==
    ASSUME NEW tables \in Tables
    PROVE  Current(Loadable(tables).rows, tables)
BY LoadableIs DEF Current, Alike

(* A list stays current while no task changes its status or its days. *)
LEMMA StaysCurrent ==
    ASSUME NEW s \in Tables, DOMAIN s.rows = Tickets, NEW z \in Tables, DOMAIN z.rows = Tickets,
           \A t \in Tickets : z.rows[t].status = s.rows[t].status /\ z.rows[t].plan = s.rows[t].plan,
           NEW f \in Tables, Current(f.rows, s)
    PROVE  Current(f.rows, z)
<1>1. DOMAIN Loadable(z).rows = DOMAIN Loadable(s).rows
  <2>1. /\ DOMAIN Loadable(s).rows = {t \in Tickets : s.rows[t].status \notin ClosedLanes}
        /\ DOMAIN Loadable(z).rows = {t \in Tickets : z.rows[t].status \notin ClosedLanes}
    BY LoadableIs
  <2>. QED BY <2>1
<1>2. \A t \in DOMAIN f.rows :
         f.rows[t] \in Ticket /\ t \in Tickets /\ s.rows[t] \in Ticket /\ z.rows[t] \in Ticket
  BY TablesRows
<1>. QED BY <1>1, <1>2, AlikeIs DEF Current

LEMMA TablesKept ==
    ASSUME ChartsTyped, TablesInv, UNCHANGED loadVars, events \subseteq events',
           \A r \in requests : r.state = "done" => r \in requests',
           \/ "tasks" \in events'
           \/ /\ server'.edges = server.edges
              /\ server' \in Tables /\ DOMAIN server'.rows = Tickets
              /\ \A t \in Tickets : /\ server'.rows[t].status = server.rows[t].status
                                   /\ server'.rows[t].plan = server.rows[t].plan,
           "masters" \in events' \/ server'.lanes = server.lanes
    PROVE  TablesInv'
<1>1. \/ "tasks" \in events'
      \/ server'.edges = server.edges /\ \A f \in Tables : Current(f.rows, server) => Current(f.rows, server')
  BY StaysCurrent DEF ChartsTyped
<1>2. RowsComing => RowsComing'
  BY DEF RowsComing
<1>3. got \in Tables /\ front \in Tables
  BY DEF ChartsTyped
<1>. QED BY <1>1, <1>2, <1>3 DEF TablesInv, loadVars, RowsComing

LEMMA TablesStep ==
    ASSUME ChartsTyped, TablesInv, [ChartsNext]_chartVars
    PROVE  TablesInv'
<1>. USE DEF boardVars, drawerVars
<1>0. /\ server \in Tables /\ DOMAIN server.rows = Tickets
      /\ front \in Tables /\ got \in Tables
      /\ loading \in [Resource -> {"idle", "sent", "read", "failed"}]
  BY DEF ChartsTyped
<1>1. CASE UNCHANGED chartVars
  BY <1>1 DEF chartVars, TablesInv, RowsComing
<1>2. ASSUME NEW t \in Tickets, OpenDrawer(t) PROVE TablesInv'
  BY <1>0, <1>2, TablesKept DEF OpenDrawer
<1>3. ASSUME NEW t \in Tickets, NEW from \in Column, StartDrag(t, from) PROVE TablesInv'
  BY <1>0, <1>3, TablesKept DEF StartDrag
<1>4. ASSUME NEW field \in {"status", "plan"}, NEW value, ChangeField(field, value) PROVE TablesInv'
  BY <1>0, <1>4, TablesKept DEF ChangeField
<1>5. ASSUME NEW t \in Tickets, NEW row \in Ticket, OtherEdits(t, row) PROVE TablesInv'
  <2>1. server' = [server EXCEPT !.rows[t] = row] /\ row.status \in server.lanes
    BY <1>5 DEF OtherEdits
  <2>2. server'.lanes = server.lanes
    BY <2>1, RowsWith
  <2>. QED BY <1>5, <2>2, TablesKept DEF OtherEdits, Told
<1>6. ASSUME NEW link \in Dependencies, OtherLinks(link) PROVE TablesInv'
  <2>1. server'.lanes = server.lanes
    BY <1>0, <1>6 DEF OtherLinks, Tables
  <2>. QED BY <1>6, <2>1, TablesKept DEF OtherLinks, Told
<1>7. ASSUME NEW lane \in Lanes, OtherSetsLane(lane) PROVE TablesInv'
  <2>1. ChartsTyped'
    BY <1>7, ChartsTypedStep DEF ChartsNext, Others
  <2>2. server'.rows = server.rows /\ server'.edges = server.edges /\ server' \in Tables
    BY <1>0, <1>7, <2>1 DEF OtherSetsLane, Tables, ChartsTyped
  <2>. QED BY <1>0, <1>7, <2>2, TablesKept DEF OtherSetsLane, Told
<1>8. ASSUME NEW p \in Persons, MemberLeaves(p) PROVE TablesInv'
  BY <1>8, LeftTyped, TablesKept DEF MemberLeaves, Told
<1>9. CASE CloseDrawer
  BY <1>0, <1>9, TablesKept DEF CloseDrawer
<1>10. ASSUME NEW to \in Column, DropCard(to) PROVE TablesInv'
  <2>1. requests \subseteq requests'
    BY <1>10 DEF DropCard
  <2>. QED BY <1>0, <1>10, <2>1, TablesKept DEF DropCard
<1>11. ASSUME NEW r \in requests, RequestAnswered(r) PROVE TablesInv'
  <2>1. /\ loading'["edges"] = loading["edges"] /\ loading'["lanes"] = loading["lanes"]
        /\ loading'["rows"] = IF Reloads(r) THEN "sent" ELSE loading["rows"]
    BY <1>0, <1>11 DEF RequestAnswered, Resource
  <2>2. ~Reloads(r) => (RowsComing => RowsComing')
    BY <1>11 DEF RequestAnswered, Reloads, RowsComing
  <2>. QED BY <1>11, <2>1, <2>2 DEF RequestAnswered, TablesInv
<1>12. ASSUME NEW r \in requests, NEW ok \in BOOLEAN, ServeRequest(r, ok) PROVE TablesInv'
  <2>. DEFINE row == Edited(server.rows[r.card], r.field, r.value)
              q == [r EXCEPT !.state = IF ok THEN "done" ELSE "failed",
                             !.reply = IF ok THEN row ELSE Nobody]
  <2>1. requests' = (requests \ {r}) \cup {q}
    BY <1>12 DEF ServeRequest
  <2>2. CASE ok
    <3>1. r \in Request
      BY DEF ChartsTyped
    <3>2. q.state = "done"
      BY <2>2, <3>1 DEF Request
    <3>3. RowsComing'
      BY <2>1, <3>2 DEF RowsComing
    <3>4. server'.lanes = server.lanes /\ server'.edges = server.edges
      BY <1>0, <1>12, <2>2 DEF ServeRequest, Tables
    <3>. QED BY <1>12, <3>3, <3>4 DEF ServeRequest, TablesInv, loadVars
  <2>3. CASE ~ok
    <3>1. server' = server
      BY <1>12, <2>3 DEF ServeRequest
    <3>2. \A x \in requests : x.state = "done" => x \in requests'
      BY <1>12, <2>1 DEF ServeRequest
    <3>. QED BY <1>0, <1>12, <3>1, <3>2, TablesKept DEF ServeRequest
  <2>. QED BY <2>2, <2>3
<1>13. ASSUME NEW topic \in Topic, EventArrives(topic) PROVE TablesInv'
  <2>1. \A k \in Resource : loading'[k] = IF k \in About(topic) THEN "sent" ELSE loading[k]
    BY <1>13 DEF EventArrives
  <2>2. /\ topic = "tasks" => loading'["rows"] = "sent" /\ loading'["edges"] = "sent"
        /\ topic = "masters" => loading'["lanes"] = "sent"
        /\ topic # "tasks" => loading'["rows"] = loading["rows"] /\ loading'["edges"] = loading["edges"]
        /\ topic # "masters" => loading'["lanes"] = loading["lanes"]
    BY <2>1 DEF About, Resource, Topic
  <2>3. topic # "tasks" => (RowsComing => RowsComing')
    BY <1>13 DEF EventArrives, RowsComing
  <2>4. /\ topic # "tasks" => ("tasks" \in events => "tasks" \in events')
        /\ topic # "masters" => ("masters" \in events => "masters" \in events')
    BY <1>13 DEF EventArrives
  <2>. QED BY <1>13, <2>2, <2>3, <2>4 DEF EventArrives, TablesInv
<1>14. ASSUME NEW k \in Resource, ReadTable(k) PROVE TablesInv'
  <2>1. \A j \in Resource : loading'[j] = IF j = k THEN "read" ELSE loading[j]
    BY <1>0, <1>14 DEF ReadTable
  <2>2. got'[k] = Loadable(server)[k] /\ \A j \in Resource \ {k} : got'[j] = got[j]
    BY <1>14, ReadTyped
  <2>3. /\ Current(Loadable(server).rows, server)
        /\ Loadable(server).edges = server.edges /\ Loadable(server).lanes = server.lanes
    BY <1>0, LoadedIsCurrent, LoadableIs
  <2>4. /\ loading'["rows"] = "read" =>
             \/ k = "rows" /\ got'.rows = Loadable(server).rows
             \/ loading["rows"] = "read" /\ got'.rows = got.rows
        /\ loading'["edges"] = "read" =>
             \/ k = "edges" /\ got'.edges = server.edges
             \/ loading["edges"] = "read" /\ got'.edges = got.edges
        /\ loading'["lanes"] = "read" =>
             \/ k = "lanes" /\ got'.lanes = server.lanes
             \/ loading["lanes"] = "read" /\ got'.lanes = got.lanes
    BY <2>1, <2>2, <2>3 DEF Resource
  <2>5. \A j \in Resource : loading'[j] = "idle" => loading[j] = "idle"
    BY <2>1
  <2>6. RowsComing' = RowsComing
    BY <1>14 DEF ReadTable, RowsComing
  <2>. QED BY <1>14, <2>3, <2>4, <2>5, <2>6 DEF ReadTable, TablesInv, Resource
<1>15. ASSUME NEW k \in Resource, NEW end \in {"idle", "failed"}, TableArrives(k, end) PROVE TablesInv'
  <2>1. \A j \in Resource : loading'[j] = IF j = k THEN end ELSE loading[j]
    BY <1>0, <1>15 DEF TableArrives
  <2>2. /\ front'[k] = IF end = "idle" THEN got[k] ELSE NoTables[k]
        /\ \A j \in Resource \ {k} : front'[j] = front[j] /\ got'[j] = got[j]
    BY <1>15, FrontTyped
  <2>3. end = "idle" => loading[k] = "read"
    BY <1>15 DEF TableArrives
  <2>4. \A j \in {"rows", "edges", "lanes"} :
           /\ loading'[j] = "read" => loading[j] = "read" /\ got'[j] = got[j]
           /\ loading'[j] = "idle" =>
                \/ loading[j] = "idle" /\ front'[j] = front[j]
                \/ loading[j] = "read" /\ front'[j] = got[j]
    BY <2>1, <2>2, <2>3 DEF Resource
  <2>5. RowsComing' = RowsComing
    BY <1>15 DEF TableArrives, RowsComing
  <2>6. /\ loading'["rows"] = "read" => loading["rows"] = "read" /\ got'.rows = got.rows
        /\ loading'["rows"] = "idle" =>
             \/ loading["rows"] = "idle" /\ front'.rows = front.rows
             \/ loading["rows"] = "read" /\ front'.rows = got.rows
        /\ loading'["edges"] = "read" => loading["edges"] = "read" /\ got'.edges = got.edges
        /\ loading'["edges"] = "idle" =>
             \/ loading["edges"] = "idle" /\ front'.edges = front.edges
             \/ loading["edges"] = "read" /\ front'.edges = got.edges
        /\ loading'["lanes"] = "read" => loading["lanes"] = "read" /\ got'.lanes = got.lanes
        /\ loading'["lanes"] = "idle" =>
             \/ loading["lanes"] = "idle" /\ front'.lanes = front.lanes
             \/ loading["lanes"] = "read" /\ front'.lanes = got.lanes
    BY <2>4
  <2>. QED BY <1>15, <2>5, <2>6 DEF TableArrives, TablesInv
<1>. QED BY ChartsSteps, <1>1, <1>2, <1>3, <1>4, <1>5, <1>6, <1>7, <1>8, <1>9, <1>10, <1>11, <1>12,
            <1>13, <1>14, <1>15

LEMMA ColsKept ==
    ASSUME ColsInv, UNCHANGED <<cols, dragging, torn, front, loading>>,
           (\E r \in requests : ~r.panel) => (\E r \in requests' : ~r.panel)
    PROVE  ColsInv'
BY DEF ColsInv, Charted

LEMMA ColsStep ==
    ASSUME ChartsTyped, ColsInv, [ChartsNext]_chartVars
    PROVE  ColsInv'
<1>. USE DEF loadVars, boardVars, drawerVars
<1>0. /\ front \in Tables
      /\ loading \in [Resource -> {"idle", "sent", "read", "failed"}]
      /\ cols \in [Column -> SUBSET Tickets]
      /\ dragging \in Drag \cup {Nobody}
  BY DEF ChartsTyped
<1>1. CASE UNCHANGED chartVars
  BY <1>1, ColsKept DEF chartVars
<1>2. ASSUME NEW t \in Tickets, OpenDrawer(t) PROVE ColsInv'
  BY <1>2, ColsKept DEF OpenDrawer
<1>3. ASSUME NEW t \in Tickets, NEW from \in Column, StartDrag(t, from) PROVE ColsInv'
  BY <1>3 DEF StartDrag, ColsInv, Charted
<1>4. ASSUME NEW field \in {"status", "plan"}, NEW value, ChangeField(field, value) PROVE ColsInv'
  BY <1>4, ColsKept DEF ChangeField
<1>5. ASSUME NEW t \in Tickets, NEW row \in Ticket, OtherEdits(t, row) PROVE ColsInv'
  BY <1>5, ColsKept DEF OtherEdits
<1>6. ASSUME NEW link \in Dependencies, OtherLinks(link) PROVE ColsInv'
  BY <1>6, ColsKept DEF OtherLinks
<1>7. ASSUME NEW lane \in Lanes, OtherSetsLane(lane) PROVE ColsInv'
  BY <1>7, ColsKept DEF OtherSetsLane
<1>8. ASSUME NEW p \in Persons, MemberLeaves(p) PROVE ColsInv'
  BY <1>8, ColsKept DEF MemberLeaves
<1>9. CASE CloseDrawer
  BY <1>9, ColsKept DEF CloseDrawer
<1>10. ASSUME NEW to \in Column, DropCard(to) PROVE ColsInv'
  <2>. DEFINE t == dragging.card
  <2>1. dragging' = Nobody /\ dragging # Nobody /\ front' = front /\ loading' = loading
    BY <1>10 DEF DropCard
  <2>2. ~torn
    BY <2>1 DEF ColsInv
  <2>3. CASE to = dragging.from
    BY <1>10, <2>1, <2>3 DEF DropCard, ColsInv
  <2>4. CASE to # dragging.from /\ dragging.redrawn
    <3>1. torn'
      BY <1>10, <2>4 DEF DropCard
    <3>. QED BY <2>1, <3>1 DEF ColsInv
  <2>5. CASE to # dragging.from /\ ~dragging.redrawn /\ dragging.status # to
    <3>. DEFINE r == [card |-> dragging.card, field |-> "status", value |-> to, panel |-> FALSE,
                      reply |-> Nobody, state |-> "sent"]
    <3>0. requests' = requests \cup {r}
      BY <1>10, <2>5 DEF DropCard
    <3>1. \E x \in requests' : ~x.panel
      <4>1. r \in requests' /\ ~r.panel
        BY <3>0
      <4>. QED BY <4>1
    <3>. QED BY <2>1, <3>1 DEF ColsInv
  <2>6. CASE to # dragging.from /\ ~dragging.redrawn /\ dragging.status = to
    <3>1. /\ t \in DOMAIN front.rows /\ front.rows[t].status = to /\ t \in cols[dragging.from]
      BY <2>1, <2>6 DEF ColsInv, Charted
    <3>2. to \in front.lanes /\ dragging.from \in Column
      BY <1>10, <2>1, <2>6, <1>0 DEF DropCard, Drag
    <3>3. cols # Columns(front)
      BY <2>6, <3>1, <3>2 DEF Columns
    <3>4. \/ \E r \in requests : ~r.panel
          \/ loading["rows"] \in {"sent", "read"}
      BY <2>2, <3>3 DEF ColsInv
    <3>5. requests \subseteq requests'
      BY <1>10 DEF DropCard
    <3>. QED BY <2>1, <3>4, <3>5 DEF ColsInv
  <2>. QED BY <2>3, <2>4, <2>5, <2>6
<1>11. ASSUME NEW r \in requests, RequestAnswered(r) PROVE ColsInv'
  <2>1. CASE r.panel
    <3>1. (\E x \in requests : ~x.panel) => (\E x \in requests' : ~x.panel)
      BY <1>11, <2>1 DEF RequestAnswered
    <3>2. loading'["rows"] \in {loading["rows"], "sent"}
      BY <1>0, <1>11 DEF RequestAnswered, Resource
    <3>. QED BY <1>11, <3>1, <3>2 DEF RequestAnswered, ColsInv, Charted
  <2>2. CASE ~r.panel
    <3>1. loading'["rows"] = "sent"
      BY <1>0, <1>11, <2>2 DEF RequestAnswered, Reloads, Resource
    <3>. QED BY <1>11, <3>1 DEF RequestAnswered, ColsInv, Charted
  <2>. QED BY <2>1, <2>2
<1>12. ASSUME NEW r \in requests, NEW ok \in BOOLEAN, ServeRequest(r, ok) PROVE ColsInv'
  <2>. DEFINE row == Edited(server.rows[r.card], r.field, r.value)
              q == [r EXCEPT !.state = IF ok THEN "done" ELSE "failed",
                             !.reply = IF ok THEN row ELSE Nobody]
  <2>1. requests' = (requests \ {r}) \cup {q}
    BY <1>12 DEF ServeRequest
  <2>2. r \in Request
    BY DEF ChartsTyped
  <2>. HIDE DEF row
  <2>3. q.panel = r.panel
    BY <2>2 DEF Request
  <2>. HIDE DEF q
  <2>4. (\E x \in requests : ~x.panel) => (\E x \in requests' : ~x.panel)
    BY <2>1, <2>3
  <2>. QED BY <1>12, <2>4, ColsKept DEF ServeRequest
<1>13. ASSUME NEW topic \in Topic, EventArrives(topic) PROVE ColsInv'
  <2>1. loading'["rows"] \in {loading["rows"], "sent"}
    BY <1>0, <1>13 DEF EventArrives, Resource
  <2>. QED BY <1>13, <2>1 DEF EventArrives, ColsInv, Charted
<1>14. ASSUME NEW k \in Resource, ReadTable(k) PROVE ColsInv'
  <2>1. loading["rows"] \in {"sent", "read"} => loading'["rows"] \in {"sent", "read"}
    BY <1>0, <1>14 DEF ReadTable, Resource
  <2>. QED BY <1>14, <2>1 DEF ReadTable, ColsInv, Charted
<1>15. ASSUME NEW k \in Resource, NEW end \in {"idle", "failed"}, TableArrives(k, end) PROVE ColsInv'
  <2>1. CASE k \in {"rows", "lanes"}
    <3>1. cols' = Columns(front') /\ torn' = FALSE
          /\ dragging' = IF dragging = Nobody THEN Nobody ELSE [dragging EXCEPT !.redrawn = TRUE]
      BY <1>15, <2>1 DEF TableArrives, Rebuild
    <3>2. dragging # Nobody => [dragging EXCEPT !.redrawn = TRUE].redrawn
      BY <1>0 DEF Drag
    <3>. QED BY <3>1, <3>2 DEF ColsInv
  <2>2. CASE k \notin {"rows", "lanes"}
    <3>1. front'.rows = front.rows /\ front'.lanes = front.lanes
      BY <1>15, <2>2, FrontTyped DEF Resource
    <3>2. Columns(front') = Columns(front)
      BY <3>1 DEF Columns
    <3>3. loading'["rows"] = loading["rows"]
      BY <1>0, <1>15, <2>2 DEF TableArrives, Resource
    <3>4. UNCHANGED <<cols, dragging, torn, requests>>
      BY <1>15, <2>2 DEF TableArrives
    <3>. QED BY <3>1, <3>2, <3>3, <3>4 DEF ColsInv, Charted
  <2>. QED BY <2>1, <2>2
<1>. QED BY ChartsSteps, <1>1, <1>2, <1>3, <1>4, <1>5, <1>6, <1>7, <1>8, <1>9, <1>10, <1>11, <1>12,
            <1>13, <1>14, <1>15

(* Where no task changes that the panel follows, nothing of what it awaits   *)
(* or keeps does.                                                            *)
LEMMA CacheKept ==
    ASSUME ChartsTyped, ChartsTyped', PanelCacheInv, UNCHANGED <<got, taskCache>>,
           loading'["rows"] = "read" => loading["rows"] = "read",
           behind \subseteq behind',
           \A t \in Tickets \ behind' : /\ server'.rows[t].status = server.rows[t].status
                                       /\ server'.rows[t].plan = server.rows[t].plan,
           \A r \in requests : r.state = "done" => r \in requests',
           \A r \in requests' : r.state = "done" => r \in requests
    PROVE  PanelCacheInv'
<1>1. \A t \in Tickets : server.rows[t] \in Ticket /\ server'.rows[t] \in Ticket
  <2>1. /\ server \in Tables /\ DOMAIN server.rows = Tickets
        /\ server' \in Tables /\ DOMAIN server'.rows = Tickets
    BY DEF ChartsTyped
  <2>. QED BY <2>1, TablesRows
<1>2. \A t \in Tickets \ behind', row \in Ticket :
         Alike(row, server.rows[t]) => Alike(row, server'.rows[t])
  BY <1>1, AlikeIs
<1>3. \A t : AnswerComing(t) => AnswerComing(t)'
  BY DEF AnswerComing
<1>4. \A r \in requests' : r.panel /\ r.state = "done" /\ r.card \notin behind'
                            => Alike(r.reply, server'.rows[r.card])
  <2>. SUFFICES ASSUME NEW r \in requests', r.panel, r.state = "done", r.card \notin behind'
                PROVE  Alike(r.reply, server'.rows[r.card])
    OBVIOUS
  <2>1. r \in requests /\ r \in Request /\ RequestTyped(r)
    BY DEF ChartsTyped
  <2>2. r.card \in Tickets /\ r.reply \in Ticket
    BY <2>1 DEF Request, RequestTyped
  <2>. QED BY <1>2, <2>1, <2>2 DEF PanelCacheInv
<1>5. loading'["rows"] = "read" =>
         \A t \in DOMAIN got'.rows :
            t \in behind' \/ AnswerComing(t)' \/ Alike(got'.rows[t], server'.rows[t])
  <2>. SUFFICES ASSUME loading["rows"] = "read", NEW t \in DOMAIN got.rows, t \notin behind'
                PROVE  AnswerComing(t)' \/ Alike(got.rows[t], server'.rows[t])
    OBVIOUS
  <2>1. t \in Tickets /\ got.rows[t] \in Ticket
    BY TablesRows DEF ChartsTyped
  <2>. QED BY <1>2, <1>3, <2>1 DEF PanelCacheInv
<1>6. taskCache' # Nobody =>
         \/ taskCache'.card \in behind' \/ AnswerComing(taskCache.card)'
         \/ Alike(taskCache'.row, server'.rows[taskCache'.card])
  <2>. SUFFICES ASSUME taskCache # Nobody, taskCache.card \notin behind'
                PROVE  \/ AnswerComing(taskCache.card)'
                       \/ Alike(taskCache.row, server'.rows[taskCache.card])
    OBVIOUS
  <2>1. taskCache.card \in Tickets /\ taskCache.row \in Ticket
    BY DEF ChartsTyped
  <2>2. PICK c : c = taskCache.card
    OBVIOUS
  <2>3. AnswerComing(c) \/ Alike(taskCache.row, server.rows[c])
    BY <2>2 DEF PanelCacheInv
  <2>4. AnswerComing(c) => AnswerComing(taskCache.card)'
    BY <1>3, <2>2 DEF AnswerComing
  <2>. QED BY <1>2, <2>1, <2>2, <2>3, <2>4
<1>. QED BY <1>4, <1>5, <1>6 DEF PanelCacheInv, AnswerComing

LEMMA CacheStep ==
    ASSUME ChartsTyped, PanelCacheInv, [ChartsNext]_chartVars
    PROVE  PanelCacheInv'
<1>. USE DEF boardVars, drawerVars, loadVars
<1>0. ChartsTyped'
  BY ChartsTypedStep
<1>a. /\ server \in Tables /\ DOMAIN server.rows = Tickets
      /\ server' \in Tables /\ DOMAIN server'.rows = Tickets
      /\ front' \in Tables /\ got \in Tables
      /\ loading \in [Resource -> {"idle", "sent", "read", "failed"}]
  BY <1>0 DEF ChartsTyped
<1>b. \A t \in Tickets : server.rows[t] \in Ticket /\ server'.rows[t] \in Ticket
  BY <1>a, TablesRows
<1>1. CASE UNCHANGED chartVars
  BY <1>0, <1>1, CacheKept DEF chartVars
<1>2. ASSUME NEW t \in Tickets, OpenDrawer(t) PROVE PanelCacheInv'
  <2>1. /\ server' = server /\ front' = front /\ got' = got /\ loading' = loading
        /\ requests' = requests /\ behind \subseteq behind'
    BY <1>2 DEF OpenDrawer
  <2>2. \A u : AnswerComing(u)' <=> AnswerComing(u)
    BY <2>1 DEF AnswerComing
  <2>3. CASE t \in Charted
    <3>1. taskCache' = [card |-> t, row |-> front.rows[t]]
      BY <1>2, <2>1, <2>3, ChartsAssumption DEF OpenDrawer, Follow, Charted
    <3>2. t \in behind' \/ Alike(front.rows[t], server.rows[t])
      BY <1>2, <2>3 DEF OpenDrawer
    <3>3. \/ taskCache'.card \in behind'
          \/ Alike(taskCache'.row, server'.rows[taskCache'.card])
      BY <2>1, <3>1, <3>2
    <3>. QED BY <2>1, <2>2, <3>3 DEF PanelCacheInv, AnswerComing
  <2>4. CASE t \notin Charted
    <3>1. behind' = behind
      BY <1>2, <2>4 DEF OpenDrawer
    <3>2. taskCache' # Nobody => taskCache' = taskCache
      BY <1>2, <2>1, <2>4 DEF OpenDrawer, Follow, Charted
    <3>. QED BY <2>1, <3>1, <3>2 DEF PanelCacheInv, AnswerComing
  <2>. QED BY <2>3, <2>4
<1>3. ASSUME NEW t \in Tickets, NEW from \in Column, StartDrag(t, from) PROVE PanelCacheInv'
  BY <1>0, <1>3, CacheKept DEF StartDrag
<1>4. ASSUME NEW field \in {"status", "plan"}, NEW value, ChangeField(field, value),
             field = "status" => value \in Lanes, field = "plan" => value \in Plans
      PROVE  PanelCacheInv'
  <2>. DEFINE r == [card |-> taskOpen, field |-> field, value |-> value, panel |-> TRUE,
                    reply |-> Nobody, state |-> "sent"]
  <2>1. requests' = requests \cup {r}
    BY <1>4 DEF ChangeField
  <2>2. \A x \in requests' : x.state = "done" => x \in requests
    BY <2>1
  <2>. QED BY <1>0, <1>4, <2>1, <2>2, CacheKept DEF ChangeField
<1>5. ASSUME NEW t \in Tickets, NEW row \in Ticket, OtherEdits(t, row) PROVE PanelCacheInv'
  <2>1. server' = [server EXCEPT !.rows[t] = row] /\ row.status \in server.lanes
        /\ behind' = behind \cup {t}
    BY <1>5 DEF OtherEdits
  <2>2. \A u \in Tickets \ behind' : server'.rows[u] = server.rows[u]
    BY <2>1, RowsWith
  <2>. QED BY <1>0, <1>5, <2>1, <2>2, CacheKept DEF OtherEdits
<1>6. ASSUME NEW link \in Dependencies, OtherLinks(link) PROVE PanelCacheInv'
  <2>1. server'.rows = server.rows
    BY <1>6, <1>a DEF OtherLinks, Tables
  <2>. QED BY <1>0, <1>6, <2>1, CacheKept DEF OtherLinks
<1>7. ASSUME NEW lane \in Lanes, OtherSetsLane(lane) PROVE PanelCacheInv'
  <2>1. server'.rows = server.rows
    BY <1>7, <1>a DEF OtherSetsLane, Tables
  <2>. QED BY <1>0, <1>7, <2>1, CacheKept DEF OtherSetsLane
<1>8. ASSUME NEW p \in Persons, MemberLeaves(p) PROVE PanelCacheInv'
  BY <1>0, <1>8, LeftTyped, CacheKept DEF MemberLeaves
<1>9. CASE CloseDrawer
  <2>1. taskCache' = Nobody
    BY <1>9 DEF CloseDrawer, Follow
  <2>. QED BY <1>9, <2>1 DEF CloseDrawer, PanelCacheInv, AnswerComing
<1>10. ASSUME NEW to \in Column, DropCard(to) PROVE PanelCacheInv'
  <2>. DEFINE r == [card |-> dragging.card, field |-> "status", value |-> to, panel |-> FALSE,
                    reply |-> Nobody, state |-> "sent"]
  <2>1. requests' = requests \/ requests' = requests \cup {r}
    BY <1>10 DEF DropCard
  <2>2. \A x \in requests' : x.state = "done" => x \in requests
    BY <2>1
  <2>. QED BY <1>0, <1>10, <2>1, <2>2, CacheKept DEF DropCard
<1>11. ASSUME NEW r \in requests, RequestAnswered(r) PROVE PanelCacheInv'
  <2>1. r \in Request /\ RequestTyped(r)
    BY DEF ChartsTyped
  <2>2. /\ server' = server /\ got' = got /\ behind' = behind /\ requests' = requests \ {r}
        /\ loading'["rows"] = IF Reloads(r) THEN "sent" ELSE loading["rows"]
    BY <1>11, <1>a DEF RequestAnswered, Resource
  <2>3. \A t : AnswerComing(t) =>
                  \/ AnswerComing(t)'
                  \/ r.panel /\ r.state = "done" /\ r.card = t
    BY <2>2 DEF AnswerComing
  <2>4. loading'["rows"] = "read" =>
           \A t \in DOMAIN got'.rows :
              t \in behind' \/ AnswerComing(t)' \/ Alike(got'.rows[t], server'.rows[t])
    <3>. SUFFICES ASSUME loading'["rows"] = "read", NEW t \in DOMAIN got.rows
                  PROVE  t \in behind \/ AnswerComing(t)' \/ Alike(got.rows[t], server.rows[t])
      BY <2>2
    <3>1. ~Reloads(r) /\ loading["rows"] = "read"
      BY <2>2
    <3>2. t \in behind \/ AnswerComing(t) \/ Alike(got.rows[t], server.rows[t])
      BY <3>1 DEF PanelCacheInv
    <3>. QED BY <2>3, <3>1, <3>2 DEF Reloads
  <2>5. taskCache' # Nobody =>
           \/ taskCache'.card \in behind' \/ (\E x \in requests' : x.panel /\ x.card = taskCache'.card /\ x.state = "done")
           \/ Alike(taskCache'.row, server'.rows[taskCache'.card])
    <3>1. CASE r.panel /\ r.state = "done" /\ taskCache # Nobody /\ taskCache.card = r.card
      <4>1. taskCache' = [card |-> r.card, row |-> r.reply]
        BY <1>11, <3>1 DEF RequestAnswered
      <4>2. r.card \in behind \/ Alike(r.reply, server.rows[r.card])
        BY <3>1 DEF PanelCacheInv
      <4>. QED BY <2>2, <4>1, <4>2
    <3>2. CASE ~(r.panel /\ r.state = "done" /\ taskCache # Nobody /\ taskCache.card = r.card)
      <4>1. taskCache' = taskCache
        BY <1>11, <3>2 DEF RequestAnswered
      <4>. QED BY <2>2, <3>2, <4>1 DEF PanelCacheInv, AnswerComing
    <3>. QED BY <3>1, <3>2
  <2>6. \A x \in requests' :
           x.panel /\ x.state = "done" /\ x.card \notin behind' => Alike(x.reply, server'.rows[x.card])
    BY <2>2 DEF PanelCacheInv
  <2>. QED BY <2>4, <2>5, <2>6 DEF PanelCacheInv, AnswerComing
<1>12. ASSUME NEW r \in requests, NEW ok \in BOOLEAN, ServeRequest(r, ok) PROVE PanelCacheInv'
  <2>. DEFINE row == Edited(server.rows[r.card], r.field, r.value)
              q == [r EXCEPT !.state = IF ok THEN "done" ELSE "failed",
                             !.reply = IF ok THEN row ELSE Nobody]
  <2>1. r \in Request /\ RequestTyped(r) /\ r.card \in Tickets /\ r.field \in {"status", "plan"}
    BY DEF ChartsTyped, Request
  <2>2. requests' = (requests \ {r}) \cup {q} /\ r.state = "sent"
    BY <1>12 DEF ServeRequest
  <2>3. row \in Ticket
    BY <1>b, <2>1, RowTyped DEF RequestTyped
  <2>4. CASE ~ok
    <3>1. server' = server /\ behind' = behind
      BY <1>12, <2>4 DEF ServeRequest
    <3>2. q.state = "failed"
      BY <2>1, <2>4 DEF Request
    <3>3. \A x \in requests' : x.state = "done" => x \in requests
      BY <2>2, <3>2
    <3>4. \A x \in requests : x.state = "done" => x \in requests'
      BY <2>2
    <3>. QED BY <1>0, <1>12, <3>1, <3>3, <3>4, CacheKept DEF ServeRequest
  <2>5. CASE ok
    <3>. HIDE DEF row
    <3>1. q.state = "done" /\ q.reply = row /\ q.card = r.card /\ q.panel = r.panel
      BY <2>1, <2>5 DEF Request
    <3>2. server' = [server EXCEPT !.rows[r.card] = row] /\ row.status \in server.lanes
      BY <1>12, <2>5 DEF ServeRequest, row
    <3>3. \A u \in Tickets : server'.rows[u] = IF u = r.card THEN row ELSE server.rows[u]
      BY <2>1, <2>3, <3>2, RowsWith
    <3>4. /\ behind \subseteq behind'
          /\ r.card \in behind' \/ (r.panel /\ ~Overtaking(r))
          /\ UNCHANGED <<got, loading, taskCache>>
      BY <1>12, <2>5 DEF ServeRequest
    <3>. HIDE DEF q
    <3>5. \A t \in Tickets \ behind' : AnswerComing(t) \/ t = r.card => AnswerComing(t)'
      BY <2>2, <3>1, <3>4 DEF AnswerComing
    <3>6. \A x \in requests' :
             x.panel /\ x.state = "done" /\ x.card \notin behind' => Alike(x.reply, server'.rows[x.card])
      <4>. SUFFICES ASSUME NEW x \in requests', x.panel, x.state = "done", x.card \notin behind'
                    PROVE  Alike(x.reply, server'.rows[x.card])
        OBVIOUS
      <4>1. CASE x = q
        <5>1. server'.rows[r.card] = row
          BY <2>1, <3>3
        <5>. QED BY <3>1, <4>1, <5>1 DEF Alike
      <4>2. CASE x # q
        <5>1. x \in requests /\ x \in Request /\ x.card \in Tickets
          BY <2>2, <4>2 DEF ChartsTyped, Request
        <5>2. x.card # r.card
          BY <3>4, <5>1 DEF Overtaking
        <5>. QED BY <3>3, <3>4, <5>1, <5>2 DEF PanelCacheInv
      <4>. QED BY <4>1, <4>2
    <3>7. loading'["rows"] = "read" =>
             \A t \in DOMAIN got'.rows :
                t \in behind' \/ AnswerComing(t)' \/ Alike(got'.rows[t], server'.rows[t])
      <4>. SUFFICES ASSUME loading["rows"] = "read", NEW t \in DOMAIN got.rows, t \notin behind'
                    PROVE  AnswerComing(t)' \/ Alike(got.rows[t], server'.rows[t])
        BY <3>4
      <4>1. t \in Tickets
        BY <1>a, TablesRows
      <4>. QED BY <3>3, <3>4, <3>5, <4>1 DEF PanelCacheInv
    <3>8. taskCache' # Nobody =>
             \/ taskCache'.card \in behind'
             \/ \E x \in requests' : x.panel /\ x.card = taskCache'.card /\ x.state = "done"
             \/ Alike(taskCache'.row, server'.rows[taskCache'.card])
      <4>. SUFFICES ASSUME taskCache # Nobody, taskCache.card \notin behind'
                    PROVE  \/ \E x \in requests' : x.panel /\ x.card = taskCache.card /\ x.state = "done"
                           \/ Alike(taskCache.row, server'.rows[taskCache.card])
        BY <3>4
      <4>1. taskCache.card \in Tickets
        BY DEF ChartsTyped
      <4>2. PICK c \in Tickets : c = taskCache.card
        BY <4>1
      <4>3. AnswerComing(c) \/ Alike(taskCache.row, server.rows[c])
        BY <3>4, <4>2 DEF PanelCacheInv
      <4>. QED BY <3>3, <3>5, <4>2, <4>3 DEF AnswerComing
    <3>. QED BY <3>6, <3>7, <3>8 DEF PanelCacheInv, AnswerComing
  <2>. QED BY <2>4, <2>5
<1>13. ASSUME NEW topic \in Topic, EventArrives(topic) PROVE PanelCacheInv'
  <2>1. loading'["rows"] \in {loading["rows"], "sent"}
    BY <1>a, <1>13 DEF EventArrives, Resource
  <2>. QED BY <1>0, <1>13, <2>1, CacheKept DEF EventArrives
<1>14. ASSUME NEW k \in Resource, ReadTable(k) PROVE PanelCacheInv'
  <2>1. CASE k # "rows"
    <3>1. loading'["rows"] = loading["rows"] /\ got'.rows = got.rows
      BY <1>a, <1>14, <2>1, ReadTyped DEF ReadTable, Resource
    <3>. QED BY <1>14, <3>1 DEF ReadTable, PanelCacheInv, AnswerComing
  <2>2. CASE k = "rows"
    <3>1. got'.rows = Loadable(server).rows
      BY <1>14, <2>2, ReadTyped
    <3>2. \A t \in DOMAIN got'.rows : Alike(got'.rows[t], server.rows[t])
      BY <1>a, <3>1, LoadedIsCurrent DEF Current
    <3>. QED BY <1>14, <3>2 DEF ReadTable, PanelCacheInv, AnswerComing
  <2>. QED BY <2>1, <2>2
<1>15. ASSUME NEW k \in Resource, NEW end \in {"idle", "failed"}, TableArrives(k, end) PROVE PanelCacheInv'
  <2>1. /\ UNCHANGED <<server, requests, behind>>
        /\ \A j \in Resource : loading'[j] = IF j = k THEN end ELSE loading[j]
    BY <1>a, <1>15 DEF TableArrives
  <2>2. CASE k # "rows"
    <3>1. loading'["rows"] = loading["rows"] /\ got'.rows = got.rows /\ taskCache' = taskCache
      BY <1>15, <2>1, <2>2, FrontTyped DEF TableArrives, Resource
    <3>. QED BY <2>1, <3>1 DEF PanelCacheInv, AnswerComing
  <2>3. CASE k = "rows"
    <3>1. loading'["rows"] # "read"
      BY <2>1, <2>3 DEF Resource
    <3>2. front'.rows = IF end = "idle" THEN got.rows ELSE NoTables.rows
      BY <1>15, <2>3, FrontTyped
    <3>3. Follow(taskOpen, taskCache)
      BY <1>15, <2>3 DEF TableArrives
    <3>4. CASE taskOpen # Nobody /\ taskOpen \in DOMAIN front'.rows
      <4>1. taskCache' = [card |-> taskOpen, row |-> front'.rows[taskOpen]]
        BY <3>3, <3>4 DEF Follow
      <4>2. end = "idle" /\ loading["rows"] = "read"
        BY <1>15, <2>3, <3>2, <3>4 DEF NoTables, TableArrives
      <4>3. taskOpen \in behind \/ AnswerComing(taskOpen) \/ Alike(got.rows[taskOpen], server.rows[taskOpen])
        BY <3>2, <3>4, <4>2 DEF PanelCacheInv
      <4>. QED BY <2>1, <3>1, <3>2, <4>1, <4>2, <4>3 DEF PanelCacheInv, AnswerComing
    <3>5. CASE ~(taskOpen # Nobody /\ taskOpen \in DOMAIN front'.rows)
      <4>1. taskCache' # Nobody => taskCache' = taskCache
        BY <3>3, <3>5 DEF Follow
      <4>. QED BY <2>1, <3>1, <4>1 DEF PanelCacheInv, AnswerComing
    <3>. QED BY <3>4, <3>5
  <2>. QED BY <2>2, <2>3
<1>. QED BY ChartsSteps, <1>1, <1>2, <1>3, <1>4, <1>5, <1>6, <1>7, <1>8, <1>9, <1>10, <1>11, <1>12,
            <1>13, <1>14, <1>15

LEMMA ChartsInitInv == ChartsInit => ChartsInv
<1>. SUFFICES ASSUME NEW rows \in FirstRows, ChartsFrom(rows, Dependencies) PROVE ChartsInv
  BY DEF ChartsInit
<1>1. rows \in [Tickets -> Ticket]
  BY ChartsAssumption
<1>2. server \in Tables
  <2>1. rows \in UNION {[x -> Ticket] : x \in SUBSET Tickets}
    BY <1>1
  <2>2. {rows[t].status : t \in DOMAIN rows} \cup ClosedLanes \in SUBSET Lanes
    BY <1>1, ChartsAssumption DEF Ticket
  <2>. QED BY <2>1, <2>2 DEF ChartsFrom, Tables
<1>3. server.rows = rows /\ \A t \in Tickets : server.rows[t].status \in server.lanes
  BY <1>1 DEF ChartsFrom
<1>4. front = Loadable(server) /\ front \in Tables
  BY <1>2, LoadableIs DEF ChartsFrom
<1>5. NoTables \in Tables
  BY DEF NoTables, Tables
<1>6. cols = Columns(front) /\ cols \in [Column -> SUBSET Tickets]
  BY <1>4, ColumnsTyped DEF ChartsFrom
<1>7. ChartsTyped
  BY <1>1, <1>2, <1>3, <1>4, <1>5, <1>6 DEF ChartsFrom, ChartsTyped
<1>8. TablesInv
  BY <1>2, <1>4, LoadableIs, LoadedIsCurrent DEF ChartsFrom, TablesInv, Resource
<1>9. ColsInv
  BY <1>6 DEF ChartsFrom, ColsInv
<1>10. PanelCacheInv
  BY DEF ChartsFrom, PanelCacheInv, Resource
<1>. QED BY <1>7, <1>8, <1>9, <1>10 DEF ChartsInv

(* The inductive invariant of TaskCharts. *)
THEOREM ChartsInvAlways == ChartsSpec => []ChartsInv
<1>1. ASSUME ChartsInv, [ChartsNext]_chartVars PROVE ChartsInv'
  BY <1>1, ChartsTypedStep, TablesStep, ColsStep, CacheStep DEF ChartsInv
<1>. QED BY <1>1, ChartsInitInv, PTL DEF ChartsSpec

LEMMA ChartsBounds == MaxGestures \in Nat /\ MaxOutside \in Nat
  BY ChartsAssumption

(* What the user and others did, and for which tasks the panel is behind.    *)
ChartsCounts ==
    /\ events \subseteq Topic /\ behind \subseteq Tickets
    /\ gestures \in 0..MaxGestures /\ outside \in 0..MaxOutside

LEMMA ChartsCountsStep ==
    ASSUME ChartsTyped, ChartsCounts, [ChartsNext]_chartVars PROVE ChartsCounts'
<1>1. gestures' \in 0..MaxGestures /\ outside' \in 0..MaxOutside
  <2>1. CASE UNCHANGED chartVars
    BY <2>1 DEF chartVars, ChartsCounts
  <2>2. CASE User /\ gestures + outside < MaxGestures
    <3>1. gestures' = gestures + 1 /\ outside' = outside
      BY <2>2 DEF User, OpenDrawer, StartDrag, ChangeField, Gesture
    <3>. QED BY <2>2, <3>1, ChartsBounds DEF ChartsCounts
  <2>3. CASE Others /\ outside < MaxOutside
    <3>1. outside' = outside + 1 /\ gestures' = gestures
      BY <2>3 DEF Others, OtherEdits, OtherLinks, OtherSetsLane, MemberLeaves, Outside
    <3>. QED BY <2>3, <3>1, ChartsBounds DEF ChartsCounts
  <2>4. CASE Own
    BY <2>4 DEF Own, ChartsCounts
  <2>. QED
    BY <2>1, <2>2, <2>3, <2>4 DEF ChartsNext, CloseDrawer, DropCard, RequestAnswered, ServeRequest,
       EventArrives, ReadTable, TableArrives
<1>2. events' \subseteq Topic
  <2>1. events' \subseteq events \/ \E topic \in Topic : Told(topic)
    BY DEF chartVars, loadVars, boardVars, drawerVars, ChartsNext, User, Others, OpenDrawer, StartDrag, ChangeField,
       OtherEdits, OtherLinks, OtherSetsLane, MemberLeaves, CloseDrawer, DropCard, RequestAnswered,
       ServeRequest, EventArrives, ReadTable, TableArrives, Topic
  <2>. QED BY <2>1 DEF Told, ChartsCounts
<1>3. behind' \subseteq Tickets
  <2>1. CASE UNCHANGED chartVars
    BY <2>1 DEF chartVars, ChartsCounts
  <2>2. ASSUME NEW r \in requests, NEW ok \in BOOLEAN, ServeRequest(r, ok) PROVE behind' \subseteq Tickets
    <3>1. r.card \in Tickets
      BY DEF ChartsTyped, Request
    <3>2. behind' \subseteq behind \cup {r.card}
      BY <2>2 DEF ServeRequest
    <3>. QED BY <3>1, <3>2 DEF ChartsCounts
  <2>3. ASSUME NEW t \in Tickets, behind' \subseteq behind \cup {t} PROVE behind' \subseteq Tickets
    BY <2>3 DEF ChartsCounts
  <2>4. ASSUME NEW p \in Persons, MemberLeaves(p) PROVE behind' \subseteq Tickets
    BY <2>4 DEF MemberLeaves, ChartsCounts
  <2>5. ASSUME NEW t \in Tickets, NEW row, OpenDrawer(t) \/ OtherEdits(t, row)
        PROVE  behind' \subseteq behind \cup {t}
    BY <2>5 DEF OpenDrawer, OtherEdits
  <2>6. \/ UNCHANGED behind
        \/ \E r \in requests, ok \in BOOLEAN : ServeRequest(r, ok)
        \/ \E p \in Persons : MemberLeaves(p)
        \/ \E t \in Tickets : OpenDrawer(t)
        \/ \E t \in Tickets, row \in Ticket : OtherEdits(t, row)
    BY DEF chartVars, loadVars, boardVars, drawerVars, ChartsNext, User, Others, StartDrag, ChangeField,
       OtherLinks, OtherSetsLane, CloseDrawer, DropCard, RequestAnswered,
       EventArrives, ReadTable, TableArrives
  <2>. QED BY <2>2, <2>3, <2>4, <2>5, <2>6 DEF ChartsCounts
<1>. QED BY <1>1, <1>2, <1>3 DEF ChartsCounts

(* What the board and the gantt load, draw, keep and wait for is what their  *)
(* components take it for (board.vue, gantt.vue, KanbanBoard.vue), in        *)
(* whatever order the answers, events and drops come.                        *)
THEOREM ChartsTypeCorrect == ChartsSpec => []ChartsTypeOK
<1>1. ChartsInit => ChartsCounts
  BY ChartsBounds DEF ChartsInit, ChartsFrom, ChartsCounts
<1>2. ChartsInv /\ ChartsCounts /\ [ChartsNext]_chartVars => ChartsCounts'
  BY ChartsCountsStep DEF ChartsInv
<1>3. ChartsInv /\ ChartsCounts => ChartsTypeOK
  BY DEF ChartsInv, ChartsTyped, ChartsCounts, ChartsTypeOK
<1>. QED BY <1>1, <1>2, <1>3, ChartsInvAlways, PTL DEF ChartsSpec

---------------------------------------------------------------------------
(* The first and the last *)

(* The least and the largest of a finite set of numbers. *)
LEMMA MinMaxIn ==
    ASSUME NEW S \in SUBSET Int, IsFiniteSet(S), S # {}
    PROVE  /\ Min(S) \in S /\ \A x \in S : Min(S) <= x
           /\ Max(S) \in S /\ \A x \in S : x <= Max(S)
<1>. DEFINE up == {p \in S \X S : p[1] <= p[2]}
            down == {p \in S \X S : p[1] >= p[2]}
<1>0. \A x \in S : x \in Int
  OBVIOUS
<1>3. \E x \in S : \A y \in S : x >= y
  <2>1. \A x, y \in S : (<<x, y>> \in up) <=> x <= y
    OBVIOUS
  <2>. HIDE DEF up
  <2>2. \A x, y \in S : x # y => <<x, y>> \in up \/ <<y, x>> \in up
    BY <2>1
  <2>3. \A x, y, z \in S : <<x, y>> \in up /\ <<y, z>> \in up => <<x, z>> \in up
    BY <2>1
  <2>4. PICK x \in S : \A y \in S : y # x => <<y, x>> \in up
    BY <2>2, <2>3, LastIsIn
  <2>5. ASSUME NEW y \in S PROVE x >= y
    <3>1. y = x \/ y <= x
      BY <2>1, <2>4
    <3>. QED BY <1>0, <3>1
  <2>. QED BY <2>5
<1>4. \E x \in S : \A y \in S : x =< y
  <2>1. \A x, y \in S : (<<x, y>> \in down) <=> x >= y
    OBVIOUS
  <2>. HIDE DEF down
  <2>2. \A x, y \in S : x # y => <<x, y>> \in down \/ <<y, x>> \in down
    BY <2>1
  <2>3. \A x, y, z \in S : <<x, y>> \in down /\ <<y, z>> \in down => <<x, z>> \in down
    BY <2>1
  <2>4. PICK x \in S : \A y \in S : y # x => <<y, x>> \in down
    BY <2>2, <2>3, LastIsIn
  <2>5. ASSUME NEW y \in S PROVE x =< y
    <3>1. y = x \/ y >= x
      BY <2>1, <2>4
    <3>. QED BY <1>0, <3>1
  <2>. QED BY <2>5
<1>5. Min(S) \in S /\ \A y \in S : Min(S) =< y
  BY <1>4 DEF Min
<1>6. Max(S) \in S /\ \A y \in S : Max(S) >= y
  BY <1>3 DEF Max
<1>7. Max(S) \in Int
  BY <1>6
<1>. QED BY <1>5, <1>6, <1>7

---------------------------------------------------------------------------
(* TaskCharts: what the charts show at rest *)

LEMMA AllArrived ==
    ASSUME ChartsInv, ChartsAtRest
    PROVE  /\ Current(front.rows, server)
           /\ front.edges = server.edges /\ front.lanes = server.lanes
           /\ torn \/ cols = Columns(front)
<1>1. loading["rows"] = "idle" /\ loading["edges"] = "idle" /\ loading["lanes"] = "idle"
  BY DEF ChartsAtRest, Resource
<1>2. requests = {} /\ events = {}
  BY DEF ChartsAtRest
<1>. QED BY <1>1, <1>2 DEF ChartsInv, TablesInv, ColsInv, RowsComing

LEMMA ChartedIs ==
    ASSUME ChartsInv, ChartsAtRest
    PROVE  /\ Charted \subseteq Tickets /\ IsFiniteSet(Charted)
           /\ \A t \in Charted :
                /\ front.rows[t] \in Ticket /\ server.rows[t] \in Ticket
                /\ front.rows[t].status = server.rows[t].status
                /\ front.rows[t].plan = server.rows[t].plan
                /\ front.rows[t].status \in front.lanes
<1>1. front \in Tables /\ server \in Tables /\ DOMAIN server.rows = Tickets
      /\ \A t \in Tickets : server.rows[t].status \in server.lanes
  BY DEF ChartsInv, ChartsTyped
<1>2. Charted \subseteq Tickets /\ \A t \in Charted : front.rows[t] \in Ticket /\ server.rows[t] \in Ticket
  BY <1>1, TablesRows DEF Charted
<1>3. IsFiniteSet(Charted)
  BY <1>2, ChartsAssumption, FS_Subset
<1>4. Current(front.rows, server) /\ front.lanes = server.lanes
  BY AllArrived
<1>. QED BY <1>1, <1>2, <1>3, <1>4, AlikeIs DEF Current, Charted

LEMMA BoardIsRight ==
    ASSUME ChartsInv, ChartsAtRest
    PROVE  torn \/ BoardRight
<1>. SUFFICES ASSUME cols = Columns(front), NEW t \in Charted
              PROVE  {c \in Column : t \in cols[c]} = {server.rows[t].status}
  BY AllArrived DEF BoardRight
<1>1. t \in DOMAIN front.rows /\ front.rows[t].status \in front.lanes
      /\ front.rows[t].status = server.rows[t].status /\ front.rows[t].status \in Column
  BY ChartedIs DEF Charted, Ticket, Column
<1>2. \A c \in Column : t \in cols[c] <=> c = front.rows[t].status
  BY <1>1 DEF Columns
<1>. QED BY <1>1, <1>2

LEMMA PanelIsRight ==
    ASSUME ChartsInv, ChartsAtRest
    PROVE  PanelRight
<1>. SUFFICES ASSUME InDrawer # Nobody, taskOpen \in Charted \/ taskOpen \notin behind
              PROVE  Alike(InDrawer, server.rows[taskOpen])
  BY DEF PanelRight
<1>1. CASE taskOpen \in Charted
  BY <1>1, ChartedIs, AlikeIs DEF InDrawer
<1>2. CASE taskOpen \notin Charted
  <2>1. taskCache # Nobody /\ taskCache.card = taskOpen /\ InDrawer = taskCache.row
    BY <1>2 DEF InDrawer
  <2>2. requests = {}
    BY DEF ChartsAtRest
  <2>. QED BY <1>2, <2>1, <2>2 DEF ChartsInv, PanelCacheInv, AnswerComing
<1>. QED BY <1>1, <1>2

(* Any two tasks are ordered, by day and number.                             *)
LEMMA BeforeOrders ==
    ASSUME ChartsInv, ChartsAtRest, NEW sort \in {"plannedStart", "deadline", "seq"}
    PROVE  /\ \A t, u \in Charted : t # u => Before(sort, t, u) \/ Before(sort, u, t)
           /\ \A t, u, v \in Charted : Before(sort, t, u) /\ Before(sort, u, v) => Before(sort, t, v)
<1>. DEFINE d(x) == IF sort = "seq" THEN Nobody
                    ELSE IF sort = "deadline" THEN front.rows[x].plan.due
                    ELSE front.rows[x].plan.from
<1>1. \A x \in Charted : x \in Nat /\ d(x) \in Int \cup {Nobody}
  <2>1. \A x \in Charted : front.rows[x].plan \in [from : Int \cup {Nobody}, to : Int \cup {Nobody},
                                                   due : Int \cup {Nobody}]
    BY ChartedIs, ChartsAssumption DEF Ticket
  <2>. QED BY <2>1, ChartedIs, ChartsAssumption
<1>2. \A t, u : Before(sort, t, u) <=> IF d(t) = d(u) THEN t < u
                                       ELSE d(t) # Nobody /\ (d(u) = Nobody \/ d(t) < d(u))
  BY DEF Before
<1>3. Nobody \notin Int
  BY ChartsAssumption
<1>. HIDE DEF d
<1>. QED BY <1>1, <1>2, <1>3

(* Every task of a group has its place in the list of it.                    *)
LEMMA GroupsListed ==
    ASSUME ChartsInv, ChartsAtRest, NEW sort \in {"plannedStart", "deadline", "seq"},
           NEW group \in SUBSET Charted
    PROVE  \A t \in group : t \in Range(Sorted(group, sort))
<1>. DEFINE R == {p \in group \X group : Before(sort, p[1], p[2])}
<1>1. IsFiniteSet(group)
  BY ChartedIs, FS_Subset
<1>2. \A t, u \in group : (<<t, u>> \in R) <=> Before(sort, t, u)
  OBVIOUS
<1>. HIDE DEF R
<1>3. PICK q \in SetToSeqs(group) : \A m, n \in DOMAIN q : m < n => <<q[m], q[n]>> \in R
  <2>1. /\ \A t, u \in group : t # u => <<t, u>> \in R \/ <<u, t>> \in R
        /\ \A t, u, v \in group : <<t, u>> \in R /\ <<u, v>> \in R => <<t, v>> \in R
    BY <1>2, BeforeOrders
  <2>. QED BY <1>1, <2>1, ListInOrder
<1>4. \A n \in DOMAIN q : q[n] \in group
  BY <1>3 DEF SetToSeqs
<1>5. \E p \in SetToSeqs(group) : \A m, n \in DOMAIN p : m < n => Before(sort, p[m], p[n])
  BY <1>2, <1>3, <1>4
<1>6. Sorted(group, sort) \in SetToSeqs(group)
  BY <1>5 DEF Sorted
<1>. QED BY <1>1, <1>6, ListsHaveAll DEF Range

LEMMA LinesRight ==
    ASSUME ChartsInv, ChartsAtRest,
           NEW axis \in {"none", "status", "assignee"}, NEW sort \in {"plannedStart", "deadline", "seq"},
           NEW t \in Charted, axis = "assignee" => front.rows[t].person \in front.people \cup {Nobody}
    PROVE  \E line \in Lines(axis, sort) : t \in Range(line)
<1>1. PICK group \in Groups(axis) : t \in group /\ group \subseteq Charted
  <2>1. CASE axis = "none"
    BY <2>1 DEF Groups
  <2>2. CASE axis # "none"
    <3>. DEFINE k == KeyOf(axis, front.rows[t])
                g == {u \in Charted : KeyOf(axis, front.rows[u]) = k}
    <3>1. k \in {Nobody} \cup IF axis = "status" THEN front.lanes ELSE front.people
      BY <2>2, ChartedIs DEF KeyOf
    <3>2. g \in Groups(axis)
      BY <2>2, <3>1 DEF Groups
    <3>. QED BY <3>2
  <2>. QED BY <2>1, <2>2
<1>2. Sorted(group, sort) \in Lines(axis, sort)
  BY <1>1 DEF Lines
<1>. QED BY <1>1, <1>2, GroupsListed

LEMMA WarningsRight ==
    ASSUME ChartsInv, ChartsAtRest
    PROVE  Warned(front.rows, front.edges) = Warned(Loadable(server).rows, server.edges)
<1>. DEFINE loaded == Loadable(server).rows
<1>1. server \in Tables
  BY DEF ChartsInv, ChartsTyped
<1>2. DOMAIN loaded = DOMAIN front.rows /\ front.edges = server.edges
  BY AllArrived DEF Current
<1>3. \A t \in DOMAIN front.rows : front.rows[t].plan = loaded[t].plan
  BY <1>1, <1>2, ChartedIs, LoadableIs DEF Charted
<1>. HIDE DEF loaded
<1>4. Warned(front.rows, front.edges) = Warned(loaded, server.edges)
  BY <1>2, <1>3 DEF Warned
<1>. QED BY <1>4 DEF loaded

LEMMA PlansOf ==
    ASSUME ChartsInv, ChartsAtRest, NEW t \in Charted
    PROVE  front.rows[t].plan \in [from : Int \cup {Nobody}, to : Int \cup {Nobody}, due : Int \cup {Nobody}]
BY ChartedIs, ChartsAssumption DEF Ticket

(* The days of the gantt: finitely many, among them today and those of each task. *)
LEMMA DaysAre ==
    ASSUME ChartsInv, ChartsAtRest
    PROVE  /\ AllDates \in SUBSET Int /\ IsFiniteSet(AllDates) /\ AllDates # {}
           /\ \A t \in Charted : Dates(t) \subseteq AllDates
<1>1. \A t \in Charted : Dates(t) \in SUBSET Int /\ IsFiniteSet(Dates(t))
  <2>. SUFFICES ASSUME NEW t \in Charted PROVE Dates(t) \in SUBSET Int /\ IsFiniteSet(Dates(t))
    OBVIOUS
  <2>. DEFINE plan == front.rows[t].plan
  <2>1. plan.from \in Int \cup {Nobody} /\ plan.to \in Int \cup {Nobody} /\ plan.due \in Int \cup {Nobody}
    BY PlansOf
  <2>2. IsFiniteSet({plan.from, plan.to, plan.due})
    <3>1. IsFiniteSet({plan.from})
      BY FS_Singleton
    <3>2. IsFiniteSet({plan.from} \cup {plan.to})
      BY <3>1, FS_AddElement
    <3>3. IsFiniteSet(({plan.from} \cup {plan.to}) \cup {plan.due})
      BY <3>2, FS_AddElement
    <3>4. {plan.from, plan.to, plan.due} = ({plan.from} \cup {plan.to}) \cup {plan.due}
      OBVIOUS
    <3>. QED BY <3>3, <3>4
  <2>3. Dates(t) = {plan.from, plan.to, plan.due} \ {Nobody}
    BY DEF Dates
  <2>. HIDE DEF plan
  <2>4. IsFiniteSet({plan.from, plan.to, plan.due} \ {Nobody})
    BY <2>2, FS_Difference
  <2>. QED BY <2>1, <2>3, <2>4
<1>. DEFINE D == {Dates(t) : t \in Charted}
            f == [t \in Charted |-> Dates(t)]
<1>2. IsFiniteSet(D)
  <2>1. f \in Surjection(Charted, D)
    BY DEF Surjection
  <2>. QED BY <2>1, ChartedIs, FS_Surjection
<1>3. IsFiniteSet(UNION D) /\ (UNION D) \in SUBSET Int
  <2>1. \A T \in D : IsFiniteSet(T) /\ T \in SUBSET Int
    BY <1>1
  <2>. HIDE DEF D
  <2>. QED BY <1>2, <2>1, FS_UNION
<1>4. AllDates = {Today} \cup (UNION D)
  BY DEF AllDates
<1>5. IsFiniteSet({Today}) /\ Today \in Int
  BY ChartsAssumption, FS_Singleton
<1>6. \A t \in Charted : Dates(t) \subseteq UNION D
  OBVIOUS
<1>. HIDE DEF D
<1>7. IsFiniteSet({Today} \cup (UNION D))
  BY <1>3, <1>5, FS_Union
<1>. QED BY <1>3, <1>4, <1>5, <1>6, <1>7

LEMMA LargerOf ==
    ASSUME NEW x \in Int, NEW y \in Int
    PROVE  Max({x, y}) = IF x >= y THEN x ELSE y
<1>1. Max({x, y}) \in {x, y} /\ \A z \in {x, y} : Max({x, y}) >= z
  <2>1. \E m \in {x, y} : \A z \in {x, y} : m >= z
    OBVIOUS
  <2>. QED BY <2>1 DEF Max
<1>2. Max({x, y}) = x \/ Max({x, y}) = y
  BY <1>1
<1>3. Max({x, y}) >= x /\ Max({x, y}) >= y
  BY <1>1
<1>. QED BY <1>2, <1>3

LEMMA BarsRight ==
    ASSUME ChartsInv, ChartsAtRest, NEW unit \in Granularity
    PROVE  /\ \A day \in AllDates : XOf(unit, day) \in 0..TotalWidth(unit)
           /\ \A t \in Charted :
                LET plan == front.rows[t].plan IN
                HasPlannedBar(plan) =>
                    Bar(unit, plan).left + Bar(unit, plan).width <= TotalWidth(unit)
<1>. DEFINE px == PX_PER_DAY[unit]
<1>1. px \in {40, 16, 5}
  BY DEF PX_PER_DAY, Granularity
<1>2. PICK lo \in Int, hi \in Int :
         /\ lo = Min(AllDates) /\ hi = Max(AllDates) /\ lo <= hi
         /\ \A d \in AllDates : d \in Int /\ lo <= d /\ d <= hi
  <2>1. AllDates \in SUBSET Int /\ IsFiniteSet(AllDates) /\ AllDates # {}
    BY DaysAre
  <2>2. /\ Min(AllDates) \in AllDates /\ \A x \in AllDates : Min(AllDates) <= x
        /\ Max(AllDates) \in AllDates /\ \A x \in AllDates : x <= Max(AllDates)
    BY <2>1, MinMaxIn
  <2>3. Min(AllDates) \in Int /\ Max(AllDates) \in Int /\ Min(AllDates) <= Max(AllDates)
    BY <2>1, <2>2
  <2>. QED BY <2>1, <2>2, <2>3
<1>3. DomainStart = lo - 3 /\ DomainEnd = hi + 7
  BY <1>2 DEF DomainStart, DomainEnd
<1>. HIDE DEF px
<1>4. \A from, to \in Int :
         WidthOf(unit, from, to) = (IF to - from + 1 <= 1 THEN 1 ELSE to - from + 1) * px
  <2>. SUFFICES ASSUME NEW from \in Int, NEW to \in Int
                PROVE  WidthOf(unit, from, to) = (IF to - from + 1 <= 1 THEN 1 ELSE to - from + 1) * px
    OBVIOUS
  <2>1. Max({1, to - from + 1}) = IF 1 >= to - from + 1 THEN 1 ELSE to - from + 1
    BY LargerOf
  <2>. QED BY <2>1 DEF WidthOf, px
<1>5. TotalWidth(unit) = (hi - lo + 11) * px
  BY <1>2, <1>3, <1>4 DEF TotalWidth
<1>6. \A day \in Int : XOf(unit, day) = (day - lo + 3) * px
  BY <1>3 DEF XOf, px
<1>7. ASSUME NEW day \in AllDates PROVE XOf(unit, day) \in 0..TotalWidth(unit)
  <2>1. day \in Int /\ lo <= day /\ day <= hi
    BY <1>2
  <2>. QED BY <1>1, <1>5, <1>6, <2>1
<1>8. ASSUME NEW t \in Charted, HasPlannedBar(front.rows[t].plan)
      PROVE  Bar(unit, front.rows[t].plan).left + Bar(unit, front.rows[t].plan).width <= TotalWidth(unit)
  <2>. DEFINE plan == front.rows[t].plan
              from == IF plan.from = Nobody THEN plan.to ELSE plan.from
              to == IF plan.to = Nobody THEN plan.from ELSE plan.to
              w == WidthOf(unit, from, to)
  <2>1. from \in AllDates /\ to \in AllDates
    <3>1. from # Nobody /\ to # Nobody /\ from \in {plan.from, plan.to} /\ to \in {plan.from, plan.to}
      BY <1>8 DEF HasPlannedBar
    <3>2. from \in Dates(t) /\ to \in Dates(t)
      BY <3>1 DEF Dates
    <3>. QED BY <3>2, DaysAre
  <2>2. Bar(unit, plan) = [left |-> XOf(unit, from), width |-> Max({w, MIN_BAR_W})]
    BY DEF Bar
  <2>. HIDE DEF from, to
  <2>3. from \in Int /\ to \in Int /\ lo <= from /\ from <= hi /\ lo <= to /\ to <= hi
    BY <1>2, <2>1
  <2>4. w = (IF to - from + 1 <= 1 THEN 1 ELSE to - from + 1) * px /\ w \in Int
    BY <1>1, <1>4, <2>3
  <2>. HIDE DEF w, plan
  <2>5. Max({w, MIN_BAR_W}) = IF w >= 8 THEN w ELSE 8
    BY <2>4, LargerOf DEF MIN_BAR_W
  <2>6. XOf(unit, from) = (from - lo + 3) * px
    BY <1>6, <2>3
  <2>7. XOf(unit, from) + Max({w, MIN_BAR_W}) <= TotalWidth(unit)
    BY <1>1, <1>2, <1>5, <2>3, <2>4, <2>5, <2>6
  <2>8. Bar(unit, plan).left + Bar(unit, plan).width <= TotalWidth(unit)
    BY <2>2, <2>7
  <2>. QED BY <2>8 DEF plan
<1>. QED BY <1>7, <1>8

(* For any number of tasks, statuses, members, edits and drags the board,    *)
(* the gantt and the panel show at rest what is stored.                      *)
THEOREM ChartsShowTheStoreAlways == ChartsSpec => []ChartsShowTheStore
<1>1. ASSUME ChartsInv, ChartsAtRest PROVE GanttRight
  <2>1. ASSUME NEW axis \in {"none", "status", "assignee"}, NEW sort \in {"plannedStart", "deadline", "seq"},
               NEW t \in Charted
        PROVE  \/ axis = "assignee" /\ front.rows[t].person \notin front.people \cup {Nobody}
               \/ \E line \in Lines(axis, sort) : t \in Range(line)
    BY <1>1, LinesRight
  <2>. QED BY <1>1, <2>1, WarningsRight, BarsRight DEF GanttRight
<1>2. ChartsInv => ChartsShowTheStore
  BY <1>1, BoardIsRight, PanelIsRight DEF ChartsShowTheStore
<1>. QED BY <1>2, ChartsInvAlways, PTL

(* A board and a gantt of nothing show it.                                   *)
LEMMA EmptyCharts == ASSUME ChartsFrom(<<>>, {}) PROVE ChartsShowTheStore
<1>1. server \in Tables /\ server.rows = <<>> /\ server.edges = {} /\ DOMAIN server.rows = {}
  <2>1. <<>> \in UNION {[x -> Ticket] : x \in SUBSET Tickets}
    <3>1. <<>> \in [{} -> Ticket]
      OBVIOUS
    <3>. QED BY <3>1
  <2>2. {<<>>[t].status : t \in DOMAIN <<>>} \cup ClosedLanes \in SUBSET Lanes
    BY ChartsAssumption
  <2>. QED BY <2>1, <2>2 DEF ChartsFrom, Tables
<1>2. front = Loadable(server) /\ Charted = {} /\ front.edges = server.edges
  <2>1. front = Loadable(server)
    BY DEF ChartsFrom
  <2>2. DOMAIN Loadable(server).rows = {} /\ Loadable(server).edges = server.edges
    BY <1>1, LoadableIs
  <2>. QED BY <2>1, <2>2 DEF Charted
<1>3. BoardRight
  BY <1>2 DEF BoardRight
<1>4. PanelRight
  <2>1. taskOpen \notin Charted /\ taskCache = Nobody
    BY <1>2 DEF ChartsFrom
  <2>2. InDrawer = Nobody
    BY <2>1 DEF InDrawer
  <2>. QED BY <2>2 DEF PanelRight
<1>5. AllDates = {Today} /\ Today \in Int
  BY <1>2, ChartsAssumption DEF AllDates
<1>6. ASSUME NEW unit \in Granularity, NEW day \in AllDates PROVE XOf(unit, day) \in 0..TotalWidth(unit)
  <2>. DEFINE px == PX_PER_DAY[unit]
  <2>1. px \in {40, 16, 5}
    BY DEF PX_PER_DAY, Granularity
  <2>2. Min(AllDates) = Today /\ Max(AllDates) = Today
    BY <1>5 DEF Min, Max
  <2>3. DomainStart = Today - 3 /\ DomainEnd = Today + 7
    BY <2>2 DEF DomainStart, DomainEnd
  <2>4. DomainEnd - DomainStart + 1 = 11 /\ day - DomainStart = 3
    BY <1>5, <2>3
  <2>5. Max({1, 11}) = 11
    BY LargerOf
  <2>6. TotalWidth(unit) = 11 * px /\ XOf(unit, day) = 3 * px
    BY <2>4, <2>5 DEF TotalWidth, WidthOf, XOf
  <2>. HIDE DEF px
  <2>. QED BY <2>1, <2>6
<1>7. Warned(front.rows, front.edges) = Warned(Loadable(server).rows, server.edges)
  BY <1>1, <1>2
<1>8. GanttRight
  BY <1>2, <1>6, <1>7 DEF GanttRight
<1>. QED BY <1>3, <1>4, <1>8 DEF ChartsShowTheStore

---------------------------------------------------------------------------
(* MCPages: the parts of the pages beside one another *)

(* Each part does what it does by itself, and only the one that is chosen    *)
(* moves; the tables of a move and the charts begin with less where they are *)
(* not the one.                                                              *)
THEOREM PagesSideBySide ==
    Spec => /\ ColumnsSpec /\ FiltersSpec /\ PageSpec
            /\ focus = "move" => MovePlanSpec
            /\ focus = "charts" => ChartsSpec
<1>1. Init => /\ ColumnsInit /\ FiltersInit /\ PageInit
              /\ focus = "move" => MovePlanInit
              /\ focus = "charts" => ChartsInit
  <2>1. FiltersFrom(FALSE) => FiltersInit
    BY DEF FiltersInit
  <2>2. PageFrom([s \in Seqs |-> "open"]) => PageInit
    <3>1. [s \in Seqs |-> "open"] \in [Seqs -> {"unborn", "open", "closed"}]
      OBVIOUS
    <3>. QED BY <3>1 DEF PageInit
  <2>. QED BY <2>1, <2>2 DEF Init
<1>2. [Next]_vars =>
        /\ [MovePlanNext]_movePlanVars /\ [FiltersNext]_filterVars
        /\ [ColumnsNext]_columnVars /\ [PageNext]_pageVars /\ [ChartsNext]_chartVars
  BY DEF Next, vars
<1>. QED BY <1>1, <1>2, PTL DEF Spec, MovePlanSpec, FiltersSpec, ColumnsSpec, PageSpec, ChartsSpec

(* What is not chosen stays as it began. *)
LEMMA OthersWait ==
    /\ Spec /\ ~(focus = "move") => [][focus' = focus /\ UNCHANGED movePlanVars]_vars
    /\ Spec /\ ~(focus = "charts") => [][focus' = focus /\ UNCHANGED chartVars]_vars
    /\ Spec => [](focus \in Focuses)
    /\ Spec /\ ~(focus = "move") => [](~(focus = "move"))
    /\ Spec /\ ~(focus = "charts") => [](~(focus = "charts"))
<1>1. [Next]_vars =>
        /\ ~(focus = "move") => (~(focus = "move"))' /\ [focus' = focus /\ UNCHANGED movePlanVars]_vars
        /\ ~(focus = "charts") => (~(focus = "charts"))' /\ [focus' = focus /\ UNCHANGED chartVars]_vars
        /\ focus \in Focuses => (focus \in Focuses)'
  BY DEF Next, vars
<1>2. Init => focus \in Focuses
  BY DEF Init
<1>. QED BY <1>1, <1>2, PTL DEF Spec

(* The type invariant of the run pages, for every value of its constants and *)
(* whatever tables to begin with in which a task refers to its own project.  *)
THEOREM PagesTypeCorrect == db \in Db /\ RefersHome /\ Spec => []TypeOK
<1>1. focus \in Focuses /\ ColumnsTypeOK /\ FiltersTypeOK /\ PageTypeOK
      /\ (focus = "move" => MovePlanTypeOK) /\ (focus = "charts" => ChartsTypeOK) => TypeOK
  BY DEF TypeOK, Focuses
<1>. QED BY <1>1, PagesSideBySide, OthersWait, MovePlanTypeCorrect, FiltersTypeCorrect,
            ColumnsTypeCorrect, PageTypeCorrect, ChartsTypeCorrect, PTL

(* What is shown of each part by itself holds in the run pages, whichever    *)
(* moves: what a task refers to and what the dialog tells of a move, the     *)
(* filters and their link, the layout in localStorage, the panel, the board  *)
(* and the gantt.                                                            *)
THEOREM PagesSafe ==
    db \in Db /\ RefersHome /\ Spec =>
        /\ [](RefersHome /\ NeverBoth /\ LinkShowsTheSame /\ LinksLeaveMine /\ FirstVisitOpens
              /\ ChartsShowTheStore)
        /\ PanelStaysOpen /\ LossesWereShown
<1>. DEFINE TheAnswer == \A o \in orders : \A j \in Jobs :
                      (/\ o \notin orders' /\ db'.job[j].site # db.job[j].site
                       /\ o.preview.job = o.job /\ o.preview.edition = edition)
                      => o.shown = Taken(j, db, db')
<1>1. RefersHome /\ UNCHANGED movePlanVars => RefersHome'
  BY DEF movePlanVars, RefersHome, JobIsHome, PieceIsHome, RemarkIsHome, BondIsHome, StaffOf, BadgesOf
<1>2. [focus' = focus /\ UNCHANGED movePlanVars]_vars => UNCHANGED movePlanVars /\ [TheAnswer]_movePlanVars
  BY DEF vars
<1>3. ~(focus = "charts") /\ Init => ChartsFrom(<<>>, {})
  BY DEF Init
<1>4. /\ ChartsFrom(<<>>, {}) /\ UNCHANGED chartVars => ChartsFrom(<<>>, {})'
      /\ ChartsFrom(<<>>, {}) => ChartsShowTheStore
  <2>1. ChartsFrom(<<>>, {}) /\ UNCHANGED chartVars => ChartsFrom(<<>>, {})'
    BY DEF ChartsFrom, Loadable, Columns, chartVars
  <2>. QED BY <2>1, EmptyCharts
<1>5. [focus' = focus /\ UNCHANGED chartVars]_vars => UNCHANGED chartVars
  BY DEF vars
<1>6. RefersHome /\ Spec /\ ~(focus = "move") => []RefersHome /\ LossesWereShown
  BY <1>1, <1>2, OthersWait, PTL DEF LossesWereShown
<1>7. Spec /\ ~(focus = "charts") => []ChartsShowTheStore
  BY <1>3, <1>4, <1>5, OthersWait, PTL DEF Spec
<1>. QED BY <1>6, <1>7, PagesSideBySide, RefersHomeAlways, LossesWereShownAlways, NeverBothAlways,
            LinkShowsTheSameAlways, LinksLeaveMineAlways, FirstVisitOpensAlways,
            PanelStaysOpenAlways, ChartsShowTheStoreAlways, PTL
=============================================================================
