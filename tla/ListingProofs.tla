----------------------------- MODULE ListingProofs ----------------------------
(* What a page of files shows is what getAccess lets the user read, and a list *)
(* read to its end has missed or repeated a row only for the reasons stated,   *)
(* whatever the files, the page's size and the writes between two pages.       *)
EXTENDS Listing, FiniteSetTheorems, WellFoundedInduction, TLAPS

Readable(list) == list \in FileLists \ {"trash"} => \A r \in Rows(list) : Granted(r[1])

(* Each list's own where, against getAccess.                                   *)
LEMMA RowsAreGranted == ASSUME NEW list PROVE Readable(list)
<1> SUFFICES ASSUME list \in FileLists \ {"trash"}, NEW r \in Rows(list)
             PROVE  Granted(r[1])
  BY DEF Readable
<1>1. CASE list = "mine"    BY <1>1 DEF Rows, Granted
<1>2. CASE list = "shared"  BY <1>2 DEF Rows, Granted
<1>3. CASE list = "starred" BY <1>3 DEF Rows, Granted, Starred
<1>4. CASE list = "search"  BY <1>4 DEF Rows, Granted, Found
<1> QED BY <1>1, <1>2, <1>3, <1>4 DEF FileLists

(* Neither the cursor nor the offset lets a row in that the where does not.    *)
LEMMA AheadIsListed == ASSUME NEW take PROVE Ahead(take) \subseteq Rows(scan.list)
<1>1. From(scan.list, scan.cursor) \subseteq Rows(scan.list)  BY DEF From
<1> QED BY <1>1 DEF Ahead, Slice

LEMMA PageIsListed == ReadPage => page' \subseteq Rows(scan.list)
<1> SUFFICES ASSUME ReadPage PROVE page' \subseteq Rows(scan.list)  OBVIOUS
<1>1. page' = Slice(scan.list, Ahead(Take + 1), 0, Take)  BY DEF ReadPage, Shows
<1> QED BY <1>1, AheadIsListed DEF Slice

LEMMA IdsAreListed == SearchIds => page' \subseteq Rows(scan.list)
<1> SUFFICES ASSUME SearchIds PROVE page' \subseteq Rows("search")  BY DEF SearchIds
<1>1. PICK above \in Tops(Rows("search"), scan.offset) :
        \E top \in {S \in Tops(Rows("search"), scan.offset + Take) : above \subseteq S} :
          page' = top \ above
  BY DEF SearchIds
<1> QED BY <1>1 DEF Tops

(* A page of files shows only such as getAccess lets the user read: the where  *)
(* of every list of files but the trash grants no more than getAccess does.    *)
THEOREM ListsShowOnlyGranted == Spec => ShownIsGranted
<1>1. ASSUME ReadPage \/ SearchIds, scan.list \in FileLists \ {"trash"}
      PROVE  \A r \in page' : Granted(r[1])
  BY <1>1, PageIsListed, IdsAreListed, RowsAreGranted DEF Readable
<1> QED BY <1>1, PTL DEF Spec, ShownIsGranted

-------------------------------------------------------------------------------
(* The order of a list.  Its rows are pairs whose place in the order is known: *)
(* of a file and the birth of what refers to it, or of 0 and the birth of a    *)
(* post.  Ties are broken by the ids, so the order is total.                   *)

Stamped == {"mine", "trash", "shared", "search"}
Places(list) == IF list \in Stamped THEN Files \X Int
                ELSE (Files \X Int) \cup ({0} \X Nat)

LEMMA Total ==
  ASSUME stamp \in [Files -> Int], NEW list,
         NEW a \in Places(list), NEW b \in Places(list), NEW c \in Places(list)
  PROVE  /\ Key(list, a) \in Int
         /\ ~Before(list, a, a)
         /\ a = b \/ Before(list, a, b) \/ Before(list, b, a)
         /\ Before(list, a, b) /\ Before(list, b, c) => Before(list, a, c)
  <1>1. ASSUME NEW r \in Places(list)
        PROVE  Key(list, r) \in Int /\ r[1] \in Int /\ r[2] \in Int /\ r = <<r[1], r[2]>>
    <2>1. CASE list \in Stamped
      <3>1. PICK f \in Files, x \in Int : r = <<f, x>>
        BY <2>1 DEF Places
      <3>2. r[1] = f /\ r[2] = x /\ f \in Int /\ stamp[f] \in Int
        BY <3>1, ListingAssumption
      <3>3. Key(list, r) = stamp[f]
        BY <2>1, <3>2 DEF Key, Stamped
      <3> QED
        BY <3>1, <3>2, <3>3
    <2>2. CASE list \notin Stamped
      <3>1. PICK f \in Files \cup {0}, x \in Int : r = <<f, x>>
        BY <2>2 DEF Places
      <3>2. r[1] = f /\ r[2] = x /\ f \in Int
        BY <3>1, ListingAssumption
      <3>3. Key(list, r) = x
        BY <2>2, <3>2 DEF Key, Stamped
      <3> QED
        BY <3>1, <3>2, <3>3
    <2> QED
      BY <2>1, <2>2
  <1>2. /\ Key(list, a) \in Int /\ a[1] \in Int /\ a[2] \in Int /\ a = <<a[1], a[2]>>
        /\ Key(list, b) \in Int /\ b[1] \in Int /\ b[2] \in Int /\ b = <<b[1], b[2]>>
        /\ Key(list, c) \in Int /\ c[1] \in Int /\ c[2] \in Int
    BY <1>1
  <1>3. Key(list, a) \in Int /\ ~Before(list, a, a)
    BY <1>2 DEF Before
  <1>4. a = b \/ Before(list, a, b) \/ Before(list, b, a)
    BY <1>2 DEF Before
  <1>5. Before(list, a, b) /\ Before(list, b, c) => Before(list, a, c)
    BY <1>2 DEF Before
  <1> QED
    BY <1>3, <1>4, <1>5

Ordered(list, rows) ==
  /\ stamp \in [Files -> Int]
  /\ rows \subseteq Places(list) /\ IsFiniteSet(rows)

Rank(list, rows, r) == Cardinality({q \in rows : Before(list, q, r)})

LEMMA RankOf ==
  ASSUME NEW list, NEW rows, Ordered(list, rows), NEW q \in rows, NEW r \in rows
  PROVE  /\ Rank(list, rows, q) \in 0..Cardinality(rows)
         /\ Before(list, q, r) => Rank(list, rows, q) < Rank(list, rows, r)
  <1> DEFINE Pre(x) == {p \in rows : Before(list, p, x)}
  <1>1. \A x : /\ Pre(x) \subseteq rows /\ IsFiniteSet(Pre(x)) /\ Cardinality(Pre(x)) \in Nat
               /\ Cardinality(Pre(x)) <= Cardinality(rows)
    BY FS_Subset, FS_CardinalityType DEF Ordered
  <1>2. ASSUME Before(list, q, r) PROVE Cardinality(Pre(q)) < Cardinality(Pre(r))
    <2>1. Pre(q) \subseteq Pre(r) /\ q \in Pre(r) /\ q \notin Pre(q)
      BY <1>2, Total DEF Ordered
    <2>2. Cardinality(Pre(q)) <= Cardinality(Pre(r)) /\ Cardinality(Pre(q)) # Cardinality(Pre(r))
      BY <1>1, <2>1, FS_Subset
    <2> QED
      BY <1>1, <2>2
  <1>3. Cardinality(rows) \in Nat
    BY FS_CardinalityType DEF Ordered
  <1> QED
    BY <1>1, <1>2, <1>3 DEF Rank

LEMMA Least ==
  ASSUME NEW S, S \subseteq Nat, S # {}
  PROVE  \E n \in S : \A m \in S : m >= n
  <1> DEFINE Less == OpToRel(<, Nat)
  <1>1. \A k, m \in Nat : k < m => <<k, m>> \in Less
    BY DEF OpToRel
  <1>2. PICK n \in S : \A m \in S : ~ (<<m, n>> \in Less)
    BY NatLessThanWellFounded, WFMin
  <1> HIDE DEF Less
  <1>3. \A m \in S : ~ (m < n)
    BY <1>1, <1>2, Zenon
  <1> QED
    BY <1>3

LEMMA Ends ==
  ASSUME NEW list, NEW rows, Ordered(list, rows), NEW S, S \subseteq rows, S # {}
  PROVE  /\ \E r \in S : \A q \in S \ {r} : Before(list, r, q)
         /\ \E r \in S : \A q \in S \ {r} : Before(list, q, r)
  <1> DEFINE R(x) == Rank(list, rows, x)
             C == Cardinality(rows)
  <1>0. C \in Nat
    BY FS_CardinalityType DEF Ordered
  <1>1. \A x \in S : R(x) \in 0..C
    BY RankOf
  <1>2. \A x, y \in S : Before(list, x, y) => R(x) < R(y)
    BY RankOf
  <1>3. \A x, y \in S : x = y \/ Before(list, x, y) \/ Before(list, y, x)
    BY Total DEF Ordered
  <1> HIDE DEF R, C
  <1>4. PICK r \in S : \A x \in S : R(x) >= R(r)
    <2>1. {R(x) : x \in S} \subseteq Nat /\ {R(x) : x \in S} # {}
      BY <1>0, <1>1
    <2>2. PICK n \in {R(x) : x \in S} : \A m \in {R(x) : x \in S} : m >= n
      BY <2>1, Least
    <2> QED
      BY <2>2
  <1>5. PICK l \in S : \A x \in S : C - R(x) >= C - R(l)
    <2>1. {C - R(x) : x \in S} \subseteq Nat /\ {C - R(x) : x \in S} # {}
      BY <1>0, <1>1
    <2>2. PICK n \in {C - R(x) : x \in S} : \A m \in {C - R(x) : x \in S} : m >= n
      BY <2>1, Least
    <2> QED
      BY <2>2
  <1>6. \A q \in S \ {r} : Before(list, r, q)
    BY <1>0, <1>1, <1>2, <1>3, <1>4
  <1>7. \A q \in S \ {l} : Before(list, q, l)
    BY <1>0, <1>1, <1>2, <1>3, <1>5
  <1> QED
    BY <1>6, <1>7

(* The rows a query with LIMIT n returns: n at most, and n if any is left out. *)
Top(list, rows, n) == {r \in rows : Rank(list, rows, r) < n}

LEMMA TopOf ==
  ASSUME NEW list, NEW rows, Ordered(list, rows), NEW n \in Nat
  PROVE  /\ IsFiniteSet(Top(list, rows, n)) /\ Cardinality(Top(list, rows, n)) \in 0..n
         /\ rows # Top(list, rows, n) => Cardinality(Top(list, rows, n)) = n
  <1> DEFINE H == Top(list, rows, n)
             Pre(x) == {p \in rows : Before(list, p, x)}
  <1>0. H \subseteq rows /\ \A r \in rows : r \in H <=> Rank(list, rows, r) < n
    BY DEF Top
  <1> HIDE DEF H
  <1>1. IsFiniteSet(H) /\ Cardinality(H) \in Nat
    BY <1>0, FS_Subset, FS_CardinalityType DEF Ordered
  <1>2. \A x : IsFiniteSet(Pre(x)) /\ Cardinality(Pre(x)) \in Nat
    BY FS_Subset, FS_CardinalityType DEF Ordered
  <1>3. \A x : Rank(list, rows, x) = Cardinality(Pre(x))
    BY DEF Rank
  <1>4. Cardinality(H) <= n
    <2>1. CASE H = {}
      BY <2>1, FS_EmptySet
    <2>2. CASE H # {}
      <3>1. PICK l \in H : \A q \in H \ {l} : Before(list, q, l)
        BY <1>0, <2>2, Ends
      <3>2. H \subseteq Pre(l) \cup {l} /\ l \notin Pre(l)
        BY <1>0, <3>1, Total DEF Ordered
      <3>3. /\ IsFiniteSet(Pre(l) \cup {l})
            /\ Cardinality(Pre(l) \cup {l}) = Cardinality(Pre(l)) + 1
        BY <1>2, <3>2, FS_AddElement
      <3>4. Cardinality(H) <= Cardinality(Pre(l)) + 1
        BY <3>2, <3>3, FS_Subset
      <3> QED
        BY <1>0, <1>1, <1>2, <1>3, <3>1, <3>4
    <2> QED
      BY <2>1, <2>2
  <1>5. ASSUME NEW x \in rows \ H PROVE Cardinality(H) >= n
    <2>1. PICK f \in rows \ H : \A q \in (rows \ H) \ {f} : Before(list, f, q)
      BY <1>5, Ends
    <2>2. Pre(f) \subseteq H
      BY <2>1, Total DEF Ordered
    <2>3. Cardinality(Pre(f)) <= Cardinality(H)
      BY <1>1, <2>2, FS_Subset
    <2>4. Cardinality(Pre(f)) >= n
      BY <1>0, <1>2, <1>3, <2>1
    <2> QED
      BY <1>1, <1>2, <2>3, <2>4
  <1>6. Cardinality(H) \in 0..n /\ (rows # H => Cardinality(H) = n)
    BY <1>0, <1>1, <1>4, <1>5
  <1> QED
    BY <1>1, <1>6 DEF H

Sliced(list, rows, skip, take, S) ==
  /\ S \subseteq rows /\ IsFiniteSet(S) /\ Cardinality(S) \in 0..take
  /\ \A x \in rows \ S : Rank(list, rows, x) >= skip =>
       Cardinality(S) = take /\ \A q \in S : Before(list, q, x)

LEMMA SliceOf ==
  ASSUME NEW list, NEW rows, Ordered(list, rows), NEW skip \in Nat, NEW take \in Nat
  PROVE  Sliced(list, rows, skip, take, Slice(list, rows, skip, take))
  <1> DEFINE S == Slice(list, rows, skip, take)
             R(x) == Rank(list, rows, x)
             T1 == Top(list, rows, skip)
             T2 == Top(list, rows, skip + take)
  <1>1. \A r \in rows : R(r) \in Nat
    BY RankOf, FS_CardinalityType DEF Ordered
  <1>2. S \subseteq rows /\ \A r \in rows : r \in S <=> R(r) \in skip..(skip + take - 1)
    BY DEF Slice, Rank
  <1> HIDE DEF S
  <1>3. /\ T1 \subseteq rows /\ \A r \in rows : r \in T1 <=> R(r) < skip
        /\ T2 \subseteq rows /\ \A r \in rows : r \in T2 <=> R(r) < skip + take
    BY DEF Top
  <1>4. /\ IsFiniteSet(T1) /\ Cardinality(T1) \in 0..skip
        /\ rows # T1 => Cardinality(T1) = skip
        /\ IsFiniteSet(T2) /\ Cardinality(T2) \in 0..(skip + take)
        /\ rows # T2 => Cardinality(T2) = skip + take
    BY TopOf
  <1>5. \A q, x \in rows : R(q) < R(x) => Before(list, q, x)
    BY <1>1, RankOf, Total DEF Ordered
  <1> HIDE DEF R, T1, T2
  <1>6. S = T2 \ T1 /\ T2 \cap T1 = T1
    BY <1>1, <1>2, <1>3
  <1>7. IsFiniteSet(S) /\ Cardinality(S) = Cardinality(T2) - Cardinality(T1)
    <2>1. IsFiniteSet(T2 \ T1) /\ Cardinality(T2 \ T1) = Cardinality(T2) - Cardinality(T2 \cap T1)
      BY <1>4, FS_Difference
    <2> QED
      BY <1>6, <2>1
  <1>8. Cardinality(S) \in 0..take
    <2>1. CASE S = {}
      BY <2>1, FS_EmptySet
    <2>2. CASE S # {}
      <3>1. Cardinality(T1) = skip
        BY <1>2, <1>4, <1>6, <2>2
      <3>2. Cardinality(S) \in Nat
        BY <1>7, FS_CardinalityType
      <3> QED
        BY <1>4, <1>7, <3>1, <3>2
    <2> QED
      BY <2>1, <2>2
  <1>9. ASSUME NEW x \in rows \ S, R(x) >= skip
        PROVE  Cardinality(S) = take /\ \A q \in S : Before(list, q, x)
    <2>1. R(x) >= skip + take
      BY <1>1, <1>2, <1>9
    <2>2. x \notin T1 /\ x \notin T2
      BY <1>1, <1>3, <1>9, <2>1
    <2>3. Cardinality(S) = take
      BY <1>4, <1>7, <2>2
    <2>4. \A q \in S : R(q) < R(x)
      BY <1>1, <1>2, <2>1
    <2> QED
      BY <1>2, <1>5, <2>3, <2>4
  <1> QED
    BY <1>2, <1>7, <1>8, <1>9 DEF R, S, Sliced

-------------------------------------------------------------------------------
(* A page.  Of the rows from the cursor on, it shows the first, and a row that *)
(* is left out lies after all that are shown, so there are more.               *)

Onward(x) == LET c == scan.cursor IN
  c = NoCursor \/ (c \in From(scan.list, c) /\ Before(scan.list, c, x))

StandsFirst == LET c == scan.cursor IN
  /\ c # NoCursor /\ c \in From(scan.list, c)
  /\ \A r \in From(scan.list, c) \ {c} : Before(scan.list, c, r)

Page(shown, full, more) ==
  LET F == From(scan.list, scan.cursor) IN
  /\ shown \subseteq F /\ IsFiniteSet(shown) /\ Cardinality(shown) \in 0..full
  /\ \A x \in F \ shown : Onward(x) => more /\ \A q \in shown : Before(scan.list, q, x)
  /\ StandsFirst => scan.cursor \notin shown

LEMMA AheadOf ==
  ASSUME Ordered(scan.list, From(scan.list, scan.cursor)), NEW n \in Nat
  PROVE  Page(Ahead(n), n, Cardinality(Ahead(n)) = n)
  <1> DEFINE L == scan.list
             c == scan.cursor
             F == From(L, c)
             A == Ahead(n)
             skip == IF c = NoCursor THEN 0 ELSE 1
  <1>1. skip \in Nat /\ A = Slice(L, F, skip, n)
    BY DEF Ahead
  <1>2. /\ A \subseteq F /\ IsFiniteSet(A) /\ Cardinality(A) \in 0..n
        /\ \A x \in F \ A : Rank(L, F, x) >= skip =>
             Cardinality(A) = n /\ \A q \in A : Before(L, q, x)
    <2>1. Ordered(L, F)
      OBVIOUS
    <2>2. skip \in Nat /\ A = Slice(L, F, skip, n)
      BY <1>1
    <2> HIDE DEF A, skip, F, L
    <2>3. Sliced(L, F, skip, n, A)
      BY <2>1, <2>2, SliceOf
    <2> QED
      BY <2>3 DEF Sliced
  <1>3. \A x \in F : Rank(L, F, x) \in Nat
    BY RankOf, FS_CardinalityType DEF Ordered
  <1>4. ASSUME NEW x \in F, Onward(x) PROVE Rank(L, F, x) >= skip
    <2>1. CASE c = NoCursor
      BY <1>3, <2>1
    <2>2. CASE c # NoCursor
      <3>1. c \in F /\ Before(L, c, x)
        BY <1>4, <2>2 DEF Onward
      <3>2. Rank(L, F, c) < Rank(L, F, x)
        BY <3>1, RankOf
      <3> QED
        BY <1>3, <2>2, <3>1, <3>2
    <2> QED
      BY <2>1, <2>2
  <1>5. ASSUME StandsFirst PROVE c \notin A
    <2>1. c \in F /\ c # NoCursor /\ \A r \in F \ {c} : Before(L, c, r)
      BY <1>5 DEF StandsFirst
    <2>2. {q \in F : Before(L, q, c)} = {}
      BY <2>1, Total DEF Ordered
    <2>3. Rank(L, F, c) = 0
      BY <2>2, FS_EmptySet DEF Rank
    <2>4. \A r \in A : Rank(L, F, r) \in skip..(skip + n - 1)
      BY <1>1 DEF Slice, Rank
    <2> QED
      BY <2>1, <2>3, <2>4
  <1> QED
    BY <1>2, <1>4, <1>5 DEF Page

-------------------------------------------------------------------------------
(* Types.  What is written bears a later time than anything before.            *)

FilesOK ==
  /\ mine \subseteq Files
  /\ life \in [Files -> {"none", "live", "trashed", "gone"}]
  /\ stamp \in [Files -> Int] /\ anyone \in [Files -> BOOLEAN]
  /\ share \in [Files -> Int] /\ star \in [Files -> Int]
  /\ posts \subseteq Nat /\ IsFiniteSet(posts)
  /\ \A f \in Files : /\ share[f] # Absent => f \notin mine
                      /\ life[f] \in {"none", "gone"} => share[f] = Absent /\ star[f] = Absent
  /\ changes \in 0..MaxChanges
  /\ \A f \in Files : stamp[f] <= changes

ScanOK ==
  /\ scan \in [pc : {"idle", "read", "items", "done"}, list : Lists \cup {"none"},
               cursor : (Files \X Int) \cup ({0} \X Int), place : Int,
               offset : Nat, more : BOOLEAN]
  /\ scan.pc = "idle" => scan = Unread /\ seen = {} /\ twice = {} /\ kept = {}
  /\ scan.pc # "idle" => scan.list \in Lists
  /\ scan.pc = "items" => scan.list = "search"

PageOK ==
  /\ IsFiniteSet(page) /\ Cardinality(page) <= Take
  /\ page \subseteq (Files \X Int) \cup ({0} \X Nat)
  /\ twice \subseteq seen
  /\ slipped \in BOOLEAN /\ climbed \in BOOLEAN

TypeInv == FilesOK /\ ScanOK /\ PageOK

LEMMA TypeInvIsType == TypeInv => TypeOK
  BY DEF TypeInv, FilesOK, ScanOK, PageOK, TypeOK

LEMMA RowsOf ==
  ASSUME FilesOK, NEW list \in FileLists \cup Feeds
  PROVE  /\ Ordered(list, Rows(list)) /\ Rows(list) \subseteq Table(list)
         /\ list \in FileLists => Rows(list) \subseteq Files \X Int
         /\ Rows(list) \subseteq (Files \X Int) \cup ({0} \X Nat)
  <1>1. CASE list \in {"mine", "trash", "search"}
    <2>1. Rows(list) \subseteq Files \X {0} /\ Rows(list) \subseteq Table(list)
      BY <1>1 DEF Rows, Table, FilesOK, Found
    <2>2. IsFiniteSet(Files \X {0})
      BY FS_Product, FS_Singleton, ListingAssumption
    <2> QED
      BY <1>1, <2>1, <2>2, FS_Subset DEF Ordered, Places, Stamped, FilesOK
  <1>2. ASSUME list \in {"shared", "starred"},
               NEW born, born \in [Files -> Int],
               \A r \in Rows(list) : r[1] \in Files /\ r = <<r[1], born[r[1]]>>
        PROVE  IsFiniteSet(Rows(list)) /\ Rows(list) \subseteq Files \X Int
    <2>1. [r \in Rows(list) |-> r[1]] \in Injection(Rows(list), Files)
      BY <1>2 DEF Injection, IsInjective
    <2> QED
      BY <1>2, <2>1, FS_Injection, ListingAssumption
  <1>3. CASE list = "shared"
    <2>1. \A r \in Rows(list) : r[1] \in Files /\ r = <<r[1], share[r[1]]>>
      BY <1>3 DEF Rows
    <2>2. Rows(list) \subseteq Table(list)
      BY <1>3 DEF Rows, Table
    <2> QED
      BY <1>2, <1>3, <2>1, <2>2 DEF Ordered, Places, Stamped, FilesOK
  <1>4. CASE list = "starred"
    <2>1. \A r \in Rows(list) : r[1] \in Files /\ r = <<r[1], star[r[1]]>>
      BY <1>4 DEF Rows
    <2>2. Rows(list) \subseteq Table(list)
      BY <1>4 DEF Rows, Table, Starred
    <2> QED
      BY <1>2, <1>4, <2>1, <2>2 DEF Ordered, Places, Stamped, FilesOK
  <1>5. CASE list \in Feeds
    <2>1. Rows(list) = {0} \X posts /\ Rows(list) \subseteq Table(list)
      BY <1>5 DEF Rows, Table, Feeds
    <2>2. IsFiniteSet({0} \X posts)
      BY FS_Product, FS_Singleton DEF FilesOK
    <2> QED
      BY <1>5, <2>1, <2>2 DEF Ordered, Places, Stamped, FilesOK, Feeds, FileLists
  <1> QED
    BY <1>1, <1>3, <1>4, <1>5 DEF FileLists

(* What any change does.  A file that becomes live is touched.                 *)
Changed ==
  /\ scan.pc \in {"read", "items"} /\ changes' = changes + 1
  /\ UNCHANGED <<mine, scan, page, seen, twice>>
  /\ \A f \in Files : stamp'[f] = stamp[f] \/ stamp'[f] = changes'
  /\ \A f \in Files : life'[f] = "live" /\ life[f] # "live" => stamp'[f] = changes'

LEMMA ChangeOf == ASSUME FilesOK, Change PROVE Changed /\ FilesOK'
  <1> DEFINE Written == /\ scan.pc \in {"read", "items"} /\ changes < MaxChanges
                        /\ changes' = changes + 1
                        /\ UNCHANGED <<mine, scan, page, seen, twice>>
  <1>0. \A lists : Write(lists) => Written
    BY DEF Write
  <1>1. ASSUME NEW f \in Files, Create(f) PROVE Changed /\ FilesOK'
    <2>1. Written
      BY <1>0, <1>1 DEF Create
    <2> QED
      BY <1>1, <2>1, ListingAssumption DEF Create, Touch, Changed, FilesOK, Absent
  <1>2. ASSUME NEW f \in Files, Update(f) PROVE Changed /\ FilesOK'
    <2>1. Written
      BY <1>0, <1>2 DEF Update
    <2> QED
      BY <1>2, <2>1, ListingAssumption DEF Update, Touch, Changed, FilesOK, Absent
  <1>3. ASSUME NEW f \in Files, UpdateGeneralAccess(f) PROVE Changed /\ FilesOK'
    <2>1. Written
      BY <1>0, <1>3 DEF UpdateGeneralAccess
    <2> QED
      BY <1>3, <2>1, ListingAssumption DEF UpdateGeneralAccess, Touch, Changed, FilesOK, Absent
  <1>4. ASSUME NEW f \in Files, SoftDelete(f) PROVE Changed /\ FilesOK'
    <2>1. Written
      BY <1>0, <1>4 DEF SoftDelete
    <2> QED
      BY <1>4, <2>1, ListingAssumption DEF SoftDelete, Touch, Changed, FilesOK, Absent
  <1>5. ASSUME NEW f \in Files, Restore(f) PROVE Changed /\ FilesOK'
    <2>1. Written
      BY <1>0, <1>5 DEF Restore
    <2> QED
      BY <1>5, <2>1, ListingAssumption DEF Restore, Touch, Changed, FilesOK, Absent
  <1>6. ASSUME NEW f \in Files, PermanentDelete(f) PROVE Changed /\ FilesOK'
    <2>1. Written
      BY <1>0, <1>6 DEF PermanentDelete
    <2> QED
      BY <1>6, <2>1, ListingAssumption DEF PermanentDelete, Changed, FilesOK, Absent
  <1>7. ASSUME NEW f \in Files, Invite(f) PROVE Changed /\ FilesOK'
    <2>1. Written
      BY <1>0, <1>7 DEF Invite
    <2> QED
      BY <1>7, <2>1, ListingAssumption DEF Invite, Changed, FilesOK, Absent
  <1>8. ASSUME NEW f \in Files, RemoveShare(f) PROVE Changed /\ FilesOK'
    <2>1. Written
      BY <1>0, <1>8 DEF RemoveShare
    <2> QED
      BY <1>8, <2>1, ListingAssumption DEF RemoveShare, Changed, FilesOK, Absent
  <1>9. ASSUME NEW f \in Files, Star(f) PROVE Changed /\ FilesOK'
    <2>1. Written
      BY <1>0, <1>9 DEF Star
    <2> QED
      BY <1>9, <2>1, ListingAssumption DEF Star, Granted, Changed, FilesOK, Absent
  <1>10. ASSUME NEW f \in Files, Unstar(f) PROVE Changed /\ FilesOK'
    <2>1. Written
      BY <1>0, <1>10 DEF Unstar
    <2> QED
      BY <1>10, <2>1, ListingAssumption DEF Unstar, Granted, Changed, FilesOK, Absent
  <1>11. CASE Post
    <2>1. IsFiniteSet(posts')
      BY <1>11, FS_AddElement DEF Post, FilesOK
    <2>2. Written
      BY <1>0, <1>11 DEF Post
    <2> QED
      BY <1>11, <2>1, <2>2, ListingAssumption DEF Post, Changed, FilesOK
  <1>12. CASE AuthorDeleted
    <2>1. IsFiniteSet(posts')
      BY <1>12, FS_RemoveElement DEF AuthorDeleted, FilesOK
    <2>2. Written
      BY <1>0, <1>12 DEF AuthorDeleted
    <2> QED
      BY <1>12, <2>1, <2>2, ListingAssumption DEF AuthorDeleted, Changed, FilesOK
  <1> QED
    BY <1>1, <1>2, <1>3, <1>4, <1>5, <1>6, <1>7, <1>8, <1>9, <1>10, <1>11, <1>12 DEF Change

(* What a page by cursor does, whichever controller reads it. *)
Reads(shown, more) ==
  /\ scan.pc = "read" /\ scan.list \in Lists \ {"search"}
  /\ Page(shown, Take, more) /\ (more => shown # {})
  /\ Shows(shown) /\ GoesOn(more, shown)
  /\ CursorMoves
  /\ UNCHANGED <<files, changes, kept>>

LEMMA FromOf ==
  ASSUME FilesOK, scan.list \in Lists
  PROVE  /\ Ordered(scan.list, From(scan.list, scan.cursor))
         /\ From(scan.list, scan.cursor) \subseteq Rows(scan.list)
  <1>1. From(scan.list, scan.cursor) \subseteq Rows(scan.list)
    BY DEF From
  <1>2. Ordered(scan.list, Rows(scan.list))
    BY RowsOf, ListingAssumption
  <1> QED
    BY <1>1, <1>2, FS_Subset DEF Ordered

LEMMA ReadsPage ==
  ASSUME FilesOK, ScanOK, ReadPage
  PROVE  \E shown : \E more \in BOOLEAN : Reads(shown, more)
  <1> DEFINE L == scan.list
             F == From(L, scan.cursor)
             rows == Ahead(Take + 1)
             shown == Slice(L, rows, 0, Take)
             more == Cardinality(rows) > Take
  <1>1. /\ scan.pc = "read" /\ L \in Lists \ {"search"}
        /\ Shows(shown) /\ GoesOn(more, shown)
        /\ CursorMoves
        /\ UNCHANGED <<files, changes, kept>>
    BY DEF ReadPage, ScanOK
  <1>2. Ordered(L, F)
    BY <1>1, FromOf
  <1>3. Page(rows, Take + 1, Cardinality(rows) = Take + 1)
    BY <1>2, AheadOf, ListingAssumption
  <1>4. /\ rows \subseteq F /\ IsFiniteSet(rows) /\ Cardinality(rows) \in 0..(Take + 1)
        /\ \A x \in F \ rows : Onward(x) =>
             Cardinality(rows) = Take + 1 /\ \A q \in rows : Before(L, q, x)
        /\ StandsFirst => scan.cursor \notin rows
    BY <1>3 DEF Page
  <1>5. Ordered(L, rows)
    BY <1>2, <1>4 DEF Ordered
  <1>6. Sliced(L, rows, 0, Take, shown)
    BY <1>5, SliceOf, ListingAssumption
  <1>7. \A x \in rows : Rank(L, rows, x) >= 0
    BY <1>4, <1>5, RankOf
  <1> HIDE DEF rows, shown, F
  <1>8. /\ shown \subseteq rows /\ IsFiniteSet(shown) /\ Cardinality(shown) \in 0..Take
        /\ \A x \in rows \ shown : Cardinality(shown) = Take /\ \A q \in shown : Before(L, q, x)
    BY <1>6, <1>7 DEF Sliced
  <1>9. ASSUME NEW x \in F \ shown, Onward(x)
        PROVE  more /\ \A q \in shown : Before(L, q, x)
    <2>1. CASE x \notin rows
      BY <1>4, <1>8, <1>9, <2>1, ListingAssumption
    <2>2. CASE x \in rows
      <3>1. Cardinality(shown) = Take /\ \A q \in shown : Before(L, q, x)
        BY <1>8, <1>9, <2>2
      <3>2. IsFiniteSet(shown \cup {x}) /\ Cardinality(shown \cup {x}) = Take + 1
        BY <1>8, <1>9, <3>1, FS_AddElement
      <3>3. Cardinality(shown \cup {x}) <= Cardinality(rows)
        BY <1>4, <1>8, <2>2, FS_Subset
      <3> QED
        BY <1>4, <3>1, <3>2, <3>3, ListingAssumption
    <2> QED
      BY <2>1, <2>2
  <1>10. more => shown # {}
    <2> SUFFICES ASSUME more, shown = {} PROVE FALSE
      OBVIOUS
    <2>1. Cardinality(shown) = 0 /\ rows # {}
      BY <1>4, FS_EmptySet, ListingAssumption
    <2> QED
      BY <1>8, <2>1, ListingAssumption
  <1>11. Page(shown, Take, more)
    BY <1>4, <1>8, <1>9 DEF Page, F
  <1>12. Reads(shown, more)
    BY <1>1, <1>10, <1>11 DEF Reads
  <1>13. more \in BOOLEAN
    OBVIOUS
  <1> HIDE DEF more
  <1> QED
    BY <1>12, <1>13

LEMMA ReadsNotifications ==
  ASSUME FilesOK, ScanOK, ReadNotifications
  PROVE  \E shown : \E more \in BOOLEAN : Reads(shown, more)
  <1> DEFINE shown == Ahead(Take)
             more == Cardinality(shown) = Take
  <1>1. /\ scan.pc = "read" /\ scan.list \in Lists \ {"search"}
        /\ Shows(shown) /\ GoesOn(more, shown)
        /\ CursorMoves
        /\ UNCHANGED <<files, changes, kept>>
    BY DEF ReadNotifications, ScanOK
  <1>2. Page(shown, Take, more)
    BY <1>1, FromOf, AheadOf, ListingAssumption
  <1>3. more => shown # {}
    BY FS_EmptySet, ListingAssumption
  <1> QED
    BY <1>1, <1>2, <1>3 DEF Reads

(* The next page goes on from the last row of this one. *)
LEMMA Onwards ==
  ASSUME FilesOK, ScanOK, NEW shown, NEW more \in BOOLEAN, Reads(shown, more)
  PROVE  /\ more => \E r \in shown :
              /\ scan' = [scan EXCEPT !.cursor = r, !.place = Key(scan.list, r)]
              /\ \A q \in shown \ {r} : Before(scan.list, q, r)
         /\ ~more => scan' = [scan EXCEPT !.pc = "done"]
         /\ shown \subseteq Rows(scan.list) /\ Ordered(scan.list, shown)
  <1>1. shown \subseteq From(scan.list, scan.cursor) /\ IsFiniteSet(shown)
    BY DEF Reads, Page
  <1>2. shown \subseteq Rows(scan.list) /\ Ordered(scan.list, shown)
    BY <1>1, FromOf DEF Reads, Ordered
  <1>3. ASSUME more
        PROVE  \E r \in shown :
                 /\ scan' = [scan EXCEPT !.cursor = r, !.place = Key(scan.list, r)]
                 /\ \A q \in shown \ {r} : Before(scan.list, q, r)
    <2>1. \E r \in shown : \A q \in shown \ {r} : Before(scan.list, q, r)
      BY <1>2, <1>3, Ends DEF Reads
    <2>2. /\ Last(scan.list, shown) \in shown
          /\ \A q \in shown \ {Last(scan.list, shown)} : Before(scan.list, q, Last(scan.list, shown))
      BY <2>1 DEF Last
    <2> QED
      BY <1>3, <2>2 DEF Reads, GoesOn
  <1> QED
    BY <1>2, <1>3 DEF Reads, GoesOn

-------------------------------------------------------------------------------
(* A search.  It goes on from a count, so what counts is how many rows there   *)
(* are above a row, and how many down to its time.                             *)

Above(r) == {q \in Rows("search") : stamp[q[1]] > stamp[r[1]]}
UpTo(r)  == {q \in Rows("search") : stamp[q[1]] >= stamp[r[1]]}

LEMMA FoundOf ==
  ASSUME FilesOK
  PROVE  /\ IsFiniteSet(Rows("search")) /\ Cardinality(Rows("search")) \in Nat
         /\ \A r \in Rows("search") : r \in Files \X Int /\ stamp[r[1]] \in Int
         /\ \A r : /\ Above(r) \subseteq Rows("search") /\ UpTo(r) \subseteq Rows("search")
                   /\ IsFiniteSet(Above(r)) /\ Cardinality(Above(r)) \in Nat
                   /\ IsFiniteSet(UpTo(r)) /\ Cardinality(UpTo(r)) \in Nat
  <1>1. Ordered("search", Rows("search")) /\ Rows("search") \subseteq Files \X Int
    BY RowsOf DEF FileLists
  <1>2. IsFiniteSet(Rows("search")) /\ Cardinality(Rows("search")) \in Nat
    BY <1>1, FS_CardinalityType DEF Ordered
  <1>3. \A r \in Rows("search") : r \in Files \X Int /\ stamp[r[1]] \in Int
    BY <1>1 DEF FilesOK
  <1>4. \A r : Above(r) \subseteq Rows("search") /\ UpTo(r) \subseteq Rows("search")
    BY DEF Above, UpTo
  <1> QED
    BY <1>2, <1>3, <1>4, FS_Subset, FS_CardinalityType

(* LIMIT n, with the rows ordered by time alone: what is known of the rows     *)
(* returned and of those left out.                                             *)
LEMMA TopsOf ==
  ASSUME FilesOK, NEW n \in Nat, NEW S \in Tops(Rows("search"), n)
  PROVE  /\ S \subseteq Rows("search") /\ IsFiniteSet(S) /\ Cardinality(S) \in 0..n
         /\ S # Rows("search") => Cardinality(S) = n
         /\ \A r \in Rows("search") : Cardinality(Above(r)) >= n => r \notin S
         /\ \A r \in Rows("search") : Cardinality(UpTo(r)) <= n => r \in S
         /\ ~Tied(Rows("search")) =>
              /\ \A r \in Rows("search") \ S : Cardinality(Above(r)) >= n
              /\ \A r \in S : Cardinality(UpTo(r)) <= n
  <1> DEFINE R == Rows("search")
  <1>1. /\ S \subseteq R
        /\ Cardinality(S) = n \/ (Cardinality(R) < n /\ S = R)
        /\ \A r \in S, q \in R \ S : stamp[r[1]] >= stamp[q[1]]
    BY DEF Tops
  <1>2. /\ IsFiniteSet(R) /\ Cardinality(R) \in Nat
        /\ \A r \in R : stamp[r[1]] \in Int
        /\ \A r : /\ IsFiniteSet(Above(r)) /\ Cardinality(Above(r)) \in Nat
                  /\ IsFiniteSet(UpTo(r)) /\ Cardinality(UpTo(r)) \in Nat
    BY FoundOf
  <1>3. \A r : /\ Above(r) \subseteq R /\ \A q \in R : q \in Above(r) <=> stamp[q[1]] > stamp[r[1]]
               /\ UpTo(r) \subseteq R /\ \A q \in R : q \in UpTo(r) <=> stamp[q[1]] >= stamp[r[1]]
    BY DEF Above, UpTo
  <1>4. Tied(R) <=> \E q, r \in R : q # r /\ stamp[q[1]] = stamp[r[1]]
    BY DEF Tied
  <1> HIDE DEF R
  <1>5. IsFiniteSet(S) /\ Cardinality(S) \in 0..n /\ (S # R => Cardinality(S) = n)
    BY <1>1, <1>2, FS_Subset, FS_CardinalityType
  <1>6. ASSUME NEW r \in R, Cardinality(Above(r)) >= n PROVE r \notin S
    <2> SUFFICES ASSUME r \in S PROVE FALSE
      OBVIOUS
    <2>1. Above(r) \cup {r} \subseteq S /\ r \notin Above(r)
      BY <1>1, <1>2, <1>3
    <2>2. Cardinality(Above(r) \cup {r}) = Cardinality(Above(r)) + 1
      BY <1>2, <2>1, FS_AddElement
    <2>3. Cardinality(Above(r) \cup {r}) <= Cardinality(S)
      BY <1>5, <2>1, FS_Subset
    <2> QED
      BY <1>2, <1>5, <1>6, <2>2, <2>3
  <1>7. ASSUME NEW r \in R, Cardinality(UpTo(r)) <= n PROVE r \in S
    <2> SUFFICES ASSUME r \notin S PROVE FALSE
      OBVIOUS
    <2>1. S \cup {r} \subseteq UpTo(r)
      BY <1>1, <1>2, <1>3
    <2>2. Cardinality(S \cup {r}) = n + 1
      BY <1>5, FS_AddElement
    <2>3. Cardinality(S \cup {r}) <= Cardinality(UpTo(r))
      BY <1>2, <2>1, FS_Subset
    <2> QED
      BY <1>2, <1>7, <2>2, <2>3
  <1>8. ASSUME ~Tied(R), NEW r \in R \ S PROVE Cardinality(Above(r)) >= n
    <2>1. S \subseteq Above(r)
      BY <1>1, <1>2, <1>3, <1>4, <1>8
    <2>2. Cardinality(S) <= Cardinality(Above(r))
      BY <1>2, <2>1, FS_Subset
    <2> QED
      BY <1>2, <1>5, <2>2
  <1>9. ASSUME ~Tied(R), NEW r \in S PROVE Cardinality(UpTo(r)) <= n
    <2>1. UpTo(r) \subseteq S
      BY <1>1, <1>2, <1>3, <1>4, <1>9
    <2>2. Cardinality(UpTo(r)) <= Cardinality(S)
      BY <1>5, <2>1, FS_Subset
    <2> QED
      BY <1>2, <1>5, <2>2
  <1> QED
    BY <1>1, <1>5, <1>6, <1>7, <1>8, <1>9 DEF R

(* Two such queries, of the rows before the page and of those up to its end.   *)
Ids(above, top) ==
  /\ scan.pc = "read" /\ scan.list = "search"
  /\ above \in Tops(Rows("search"), scan.offset)
  /\ top \in Tops(Rows("search"), scan.offset + Take) /\ above \subseteq top
  /\ page' = top \ above
  /\ scan' = [scan EXCEPT !.pc = IF top = above THEN "done" ELSE "items",
                          !.more = top # Rows("search")]
  /\ slipped' = (slipped \/ Tied(Rows("search"))) /\ climbed' = (climbed \/ Tied(Rows("search")))
  /\ UNCHANGED <<files, changes, seen, twice, kept>>

LEMMA SearchOf == SearchIds => \E above, top : Ids(above, top)
  BY DEF SearchIds, Ids

LEMMA IdsOf ==
  ASSUME FilesOK, ScanOK, NEW above, NEW top, Ids(above, top)
  PROVE  /\ IsFiniteSet(page') /\ Cardinality(page') <= Take
         /\ page' \subseteq Rows("search")
         /\ top = above => top = Rows("search")
  <1> DEFINE o == scan.offset
             R == Rows("search")
  <1>1. o \in Nat /\ o + Take \in Nat /\ Take \in Nat \ {0}
    BY ListingAssumption DEF ScanOK
  <1>2. /\ IsFiniteSet(above) /\ Cardinality(above) \in 0..o /\ above \subseteq R
        /\ above # R => Cardinality(above) = o
    BY <1>1, TopsOf DEF Ids
  <1>3. /\ IsFiniteSet(top) /\ Cardinality(top) \in 0..(o + Take) /\ top \subseteq R
        /\ top # R => Cardinality(top) = o + Take
    BY <1>1, TopsOf DEF Ids
  <1>4. page' = top \ above /\ above \subseteq top /\ top \cap above = above
    BY DEF Ids
  <1>5. IsFiniteSet(page') /\ Cardinality(page') = Cardinality(top) - Cardinality(above)
    <2>1. IsFiniteSet(top \ above) /\ Cardinality(top \ above) = Cardinality(top) - Cardinality(top \cap above)
      BY <1>3, FS_Difference
    <2> QED
      BY <1>4, <2>1
  <1>6. Cardinality(page') <= Take
    <2>1. CASE above = R
      <3>1. page' = {}
        BY <1>3, <1>4, <2>1
      <3> QED
        BY <1>1, <3>1, FS_EmptySet
    <2>2. CASE above # R
      BY <1>1, <1>2, <1>3, <1>5, <2>2
    <2> QED
      BY <2>1, <2>2
  <1>7. ASSUME top = above PROVE top = R
    BY <1>1, <1>2, <1>3, <1>7
  <1> QED
    BY <1>3, <1>4, <1>5, <1>6, <1>7

-------------------------------------------------------------------------------
(* Every step keeps the types. *)

LEMMA FilesStay == ASSUME FilesOK, UNCHANGED <<files, changes>> PROVE FilesOK'
  BY DEF FilesOK, files

LEMMA TypeInit == Init => TypeInv
  <1> SUFFICES ASSUME Init PROVE TypeInv
    OBVIOUS
  <1>1. FilesOK
    <2>1. posts \subseteq Nat /\ IsFiniteSet(posts) /\ changes \in 0..MaxChanges
      BY FS_Interval, ListingAssumption DEF Init
    <2>2. stamp \in [Files -> Int] /\ \A f \in Files : stamp[f] <= 0
      BY ListingAssumption DEF Init
    <2> QED
      BY <2>1, <2>2 DEF Init, FilesOK, Absent
  <1>2. ScanOK
    BY DEF Init, ScanOK, Unread, NoCursor, Absent
  <1>3. PageOK
    <2>1. IsFiniteSet({}) /\ Cardinality({}) <= Take
      BY FS_EmptySet, ListingAssumption
    <2>2. page = {} /\ twice = {} /\ slipped = FALSE /\ climbed = FALSE
      BY DEF Init
    <2> QED
      BY <2>1, <2>2 DEF PageOK
  <1> QED
    BY <1>1, <1>2, <1>3 DEF TypeInv

LEMMA PageType ==
  ASSUME TypeInv, NEW shown, NEW more \in BOOLEAN, Reads(shown, more)
  PROVE  TypeInv'
  <1>1. FilesOK'
    BY FilesStay DEF TypeInv, Reads
  <1>2. /\ shown \subseteq Rows(scan.list) /\ shown \subseteq Places(scan.list)
        /\ stamp \in [Files -> Int]
    BY Onwards DEF TypeInv, Ordered
  <1>3. shown \subseteq (Files \X Int) \cup ({0} \X Nat)
    BY <1>2 DEF Places
  <1>4. PageOK'
    BY <1>3, ListingAssumption DEF TypeInv, PageOK, Reads, Page, Shows, CursorMoves
  <1>5. ScanOK'
    <2>1. CASE ~more
      <3>1. scan' = [scan EXCEPT !.pc = "done"]
        BY <2>1, Onwards DEF TypeInv
      <3> QED
        BY <3>1 DEF TypeInv, ScanOK, Reads
    <2>2. CASE more
      <3>1. PICK r \in shown : scan' = [scan EXCEPT !.cursor = r, !.place = Key(scan.list, r)]
        BY <2>2, Onwards DEF TypeInv
      <3>2. Key(scan.list, r) \in Int
        BY <1>2, Total
      <3>3. r \in (Files \X Int) \cup ({0} \X Int)
        BY <1>3
      <3> QED
        BY <3>1, <3>2, <3>3 DEF TypeInv, ScanOK, Reads
    <2> QED
      BY <2>1, <2>2
  <1> QED
    BY <1>1, <1>4, <1>5 DEF TypeInv

LEMMA TypeStep == ASSUME TypeInv, [Next]_vars PROVE TypeInv'
  <1>1. CASE UNCHANGED vars
    <2>1. FilesOK'
      BY <1>1, FilesStay DEF TypeInv, vars
    <2> QED
      BY <1>1, <2>1 DEF TypeInv, ScanOK, PageOK, vars, history
  <1>2. CASE StartScan
    <2>1. FilesOK'
      BY <1>2, FilesStay DEF TypeInv, StartScan
    <2>2. PICK list \in Lists : scan' = [Unread EXCEPT !.pc = "read", !.list = list]
      BY <1>2 DEF StartScan, TypeInv, ScanOK
    <2>3. scan' = [pc |-> "read", list |-> list, cursor |-> <<0, -1>>, place |-> 0,
                   offset |-> 0, more |-> FALSE]
      BY <2>2 DEF Unread, NoCursor, Absent
    <2>4. ScanOK'
      BY <2>3 DEF ScanOK
    <2> QED
      BY <1>2, <2>1, <2>4 DEF TypeInv, PageOK, StartScan
  <1>3. CASE ReadPage \/ ReadNotifications
    BY <1>3, ReadsPage, ReadsNotifications, PageType DEF TypeInv
  <1>4. CASE SearchIds
    <2>1. PICK above, top : Ids(above, top)
      BY <1>4, SearchOf
    <2>2. FilesOK'
      BY <2>1, FilesStay DEF TypeInv, Ids
    <2>3. /\ IsFiniteSet(page') /\ Cardinality(page') <= Take
          /\ page' \subseteq Files \X Int
      BY <2>1, IdsOf, FoundOf DEF TypeInv
    <2>4. PageOK'
      BY <2>1, <2>3 DEF TypeInv, PageOK, Ids
    <2>5. ScanOK'
      BY <2>1 DEF TypeInv, ScanOK, Ids
    <2> QED
      BY <2>2, <2>4, <2>5 DEF TypeInv
  <1>5. CASE SearchItems
    <2> DEFINE rows == {r \in page : life[r[1]] # "gone"}
    <2>1. /\ page' = rows /\ twice' = twice \cup (seen \cap rows) /\ seen' = seen \cup rows
          /\ UNCHANGED <<files, changes, kept, slipped, climbed>>
      BY <1>5 DEF SearchItems, Shows
    <2>2. FilesOK'
      BY <2>1, FilesStay DEF TypeInv
    <2>3. IsFiniteSet(rows) /\ Cardinality(rows) <= Take
      <3>1. /\ IsFiniteSet(page) /\ Cardinality(page) <= Take /\ Cardinality(page) \in Nat
        BY FS_CardinalityType DEF TypeInv, PageOK
      <3>2. IsFiniteSet(rows) /\ Cardinality(rows) <= Cardinality(page)
        BY <3>1, FS_Subset
      <3> QED
        BY <3>1, <3>2, FS_CardinalityType, ListingAssumption
    <2>4. PageOK'
      BY <2>1, <2>3 DEF TypeInv, PageOK
    <2>5. ScanOK'
      <3>1. CASE scan.more
        <4>1. scan' = [scan EXCEPT !.pc = "read", !.offset = @ + Take]
          BY <1>5, <3>1 DEF SearchItems
        <4>2. scan.offset + Take \in Nat
          BY ListingAssumption DEF TypeInv, ScanOK
        <4> QED
          BY <1>5, <4>1, <4>2 DEF TypeInv, ScanOK, SearchItems
      <3>2. CASE ~scan.more
        <4>1. scan' = [scan EXCEPT !.pc = "done"]
          BY <1>5, <3>2 DEF SearchItems
        <4> QED
          BY <1>5, <4>1 DEF TypeInv, ScanOK, SearchItems
      <3> QED
        BY <3>1, <3>2
    <2> QED
      BY <2>2, <2>4, <2>5 DEF TypeInv
  <1>6. CASE Change /\ Shifts
    <2>1. Changed /\ FilesOK'
      BY <1>6, ChangeOf DEF TypeInv
    <2> QED
      BY <1>6, <2>1 DEF TypeInv, ScanOK, PageOK, Changed, Shifts
  <1> QED
    BY <1>1, <1>2, <1>3, <1>4, <1>5, <1>6 DEF Next, Read

LEMMA TypeHolds == Spec => []TypeInv
  BY TypeInit, TypeStep, PTL DEF Spec

(* Whatever is written and read, pages are no larger than they may be, and     *)
(* shares and stars of files that are not there do not linger.                 *)
THEOREM ListsTyped == Spec => []TypeOK
  BY TypeHolds, TypeInvIsType, PTL

-------------------------------------------------------------------------------
(* What is missed and what is shown again: the invariant.  A row counts as     *)
(* passed if its place is not after the one the last page ended at.  Rows that *)
(* keep their place and are not shown yet lie after it, rows that are shown do *)
(* not; in a search, they lie on the one side of the offset or on the other.   *)

Passed(c, place, r) ==
  \/ r = c \/ Key(scan.list, r) > place
  \/ Key(scan.list, r) = place /\ (r[1] > c[1] \/ (r[1] = c[1] /\ r[2] > c[2]))

KeptInv == kept \subseteq Placed(scan.list)

CursorInv ==
  LET c == scan.cursor IN
  /\ c # NoCursor =>
       /\ scan.list \in Lists /\ c \in Places(scan.list)
       /\ Key(scan.list, c) >= scan.place
       /\ scan.list = "trash" /\ life[c[1]] = "live" => stamp[c[1]] > scan.place
  /\ scan.pc = "read" /\ scan.list # "search" /\ c = NoCursor => seen = {}

Missing ==
  /\ scan.pc = "read" /\ scan.list # "search" => \A k \in kept : k[1] \notin seen =>
       scan.cursor = NoCursor \/ ~Passed(scan.cursor, scan.place, k[1])
  /\ scan.list = "search" => \A k \in kept : k[1] \notin seen =>
       /\ scan.pc = "read" => Cardinality(Above(k[1])) >= scan.offset
       /\ scan.pc = "items" => \/ k[1] \in page
                               \/ scan.more /\ Cardinality(Above(k[1])) >= scan.offset + Take
  /\ scan.pc = "done" => \A k \in kept : k[1] \in seen

Repeating ==
  /\ \A k \in kept : k[1] \notin twice
  /\ scan.pc = "read" /\ scan.list # "search" => \A k \in kept : k[1] \in seen =>
       scan.cursor # NoCursor /\ Passed(scan.cursor, scan.place, k[1])
  /\ scan.list = "search" => \A k \in kept :
       /\ k[1] \in seen /\ scan.pc \in {"read", "items"} => Cardinality(UpTo(k[1])) <= scan.offset
       /\ k[1] \in page /\ scan.pc = "items" => k[1] \notin seen /\ Cardinality(UpTo(k[1])) <= scan.offset + Take

PlaceInv  == KeptInv /\ CursorInv
MissInv   == ~slipped => Missing
RepeatInv == ~climbed => Repeating
ScanInv   == TypeInv /\ PlaceInv /\ MissInv /\ RepeatInv

LEMMA ScanInit == Init => ScanInv
  <1> SUFFICES ASSUME Init PROVE ScanInv
    OBVIOUS
  <1>1. TypeInv
    BY TypeInit
  <1>2. scan = Unread /\ kept = {} /\ twice = {} /\ seen = {}
    BY DEF Init
  <1> QED
    BY <1>1, <1>2 DEF ScanInv, PlaceInv, KeptInv, CursorInv, MissInv, Missing, RepeatInv,
                      Repeating, Unread

(* Of two rows one comes first, and at the cursor's own time, passed is what   *)
(* comes no later than the cursor.                                             *)
LEMMA PassedIsBefore ==
  ASSUME stamp \in [Files -> Int],
         NEW c \in Places(scan.list), NEW r \in Places(scan.list)
  PROVE  Passed(c, Key(scan.list, c), r) <=> r = c \/ Before(scan.list, r, c)
  BY DEF Passed, Before

(* From the cursor on: if its row is still in the list, all rows that come     *)
(* after it; if it has not moved, no others.                                   *)
LEMMA FromCursor ==
  ASSUME TypeInv, CursorInv, scan.cursor # NoCursor, scan.list \in Lists
  PROVE  LET c == scan.cursor
             F == From(scan.list, c) IN
         /\ c \in Rows(scan.list) => c \in F /\
              \A r \in Rows(scan.list) : r \in F <=> r = c \/ Before(scan.list, c, r)
         /\ Key(scan.list, c) = scan.place => \A r \in F : r = c \/ Before(scan.list, c, r)
  <1> DEFINE c == scan.cursor
             L == scan.list
  <1>1. Rows(L) \subseteq Table(L)
    BY RowsOf, ListingAssumption DEF TypeInv
  <1>2. ASSUME c \in Rows(L)
        PROVE  From(L, c) = {r \in Rows(L) : r = c \/ Before(L, c, r)}
    <2>1. ~(L = "trash" /\ life[c[1]] = "live")
      BY <1>2 DEF Rows
    <2> QED
      BY <1>1, <1>2, <2>1 DEF From
  <1>3. ASSUME Key(L, c) = scan.place, NEW r \in From(L, c)
        PROVE  r = c \/ Before(L, c, r)
    <2>1. ~(L = "trash" /\ life[c[1]] = "live")
      <3> SUFFICES ASSUME L = "trash", life[c[1]] = "live" PROVE FALSE
        OBVIOUS
      <3>1. stamp[c[1]] > scan.place /\ Key(L, c) = stamp[c[1]]
        BY DEF CursorInv, Key
      <3>2. scan.place \in Int
        BY DEF TypeInv, ScanOK
      <3> HIDE DEF c, L
      <3> QED
        BY <1>3, <3>1, <3>2
    <2> QED
      BY <1>3, <2>1 DEF From
  <1> QED
    BY <1>2, <1>3

LEMMA KeptAre ==
  ASSUME KeptInv, NEW k \in kept
  PROVE  k[1] \in Rows(scan.list) /\ k = <<k[1], Key(scan.list, k[1])>>
  BY DEF KeptInv, Placed

(* A page by cursor. *)

LEMMA PagePlaces ==
  ASSUME ScanInv, NEW shown, NEW more \in BOOLEAN, Reads(shown, more)
  PROVE  PlaceInv'
  <1>1. scan.list \in Lists /\ UNCHANGED <<files, kept>>
    BY DEF Reads
  <1>2. \A list : Rows(list)' = Rows(list) /\ \A r : Key(list, r)' = Key(list, r)
    BY <1>1 DEF Rows, Key, files, Starred, Found
  <1>3. CASE ~more
    <2>1. scan' = [scan EXCEPT !.pc = "done"]
      BY <1>3, Onwards DEF ScanInv, TypeInv
    <2>2. /\ scan'.list = scan.list /\ scan'.cursor = scan.cursor /\ scan'.place = scan.place
          /\ scan'.pc = "done"
      BY <2>1 DEF ScanInv, TypeInv, ScanOK
    <2>3. KeptInv'
      BY <1>1, <1>2, <2>2 DEF ScanInv, PlaceInv, KeptInv, Placed
    <2>4. CursorInv'
      <3>1. UNCHANGED <<life, stamp>> /\ \A list : Places(list)' = Places(list)
        BY <1>1 DEF files, Places
      <3> QED
        BY <1>2, <2>2, <3>1 DEF ScanInv, PlaceInv, CursorInv
    <2> QED
      BY <2>3, <2>4 DEF PlaceInv
  <1>4. CASE more
    <2>1. PICK r \in shown : scan' = [scan EXCEPT !.cursor = r, !.place = Key(scan.list, r)]
      BY <1>4, Onwards DEF ScanInv, TypeInv
    <2>2. /\ scan'.list = scan.list /\ scan'.cursor = r /\ scan'.place = Key(scan.list, r)
          /\ scan'.pc = scan.pc
      BY <2>1 DEF ScanInv, TypeInv, ScanOK
    <2>3. r \in Rows(scan.list) /\ r \in Places(scan.list) /\ Key(scan.list, r) \in Int
      BY Onwards, Total DEF ScanInv, TypeInv, Ordered
    <2>4. r # NoCursor
      <3>1. r \in (Files \X Int) \cup ({0} \X Nat)
        BY <1>1, <2>3, RowsOf, ListingAssumption DEF ScanInv, TypeInv
      <3>2. r[1] \in Nat \ {0} \/ r[2] \in Nat
        BY <3>1, ListingAssumption
      <3> QED
        BY <3>2 DEF NoCursor, Absent
    <2>5. scan.list = "trash" => life[r[1]] = "trashed"
      BY <2>3 DEF Rows
    <2>6. KeptInv'
      BY <1>1, <1>2, <2>2 DEF ScanInv, PlaceInv, KeptInv, Placed
    <2>7. CursorInv'
      BY <1>1, <1>2, <2>2, <2>3, <2>4, <2>5 DEF CursorInv, Places, files
    <2> QED
      BY <2>6, <2>7 DEF PlaceInv
  <1> QED
    BY <1>3, <1>4

LEMMA PageMisses ==
  ASSUME ScanInv, NEW shown, NEW more \in BOOLEAN, Reads(shown, more)
  PROVE  MissInv'
  <1> SUFFICES ASSUME ~slipped' PROVE Missing'
    BY DEF MissInv
  <1> DEFINE L == scan.list
             c == scan.cursor
  <1>1. /\ scan.pc = "read" /\ L \in Lists \ {"search"}
        /\ UNCHANGED <<files, kept>> /\ seen' = seen \cup shown
    BY DEF Reads, Shows
  <1>2. ~slipped /\ c \in Rows(L) \cup {NoCursor}
    BY DEF Reads, CursorMoves
  <1>3. Missing /\ TypeInv /\ KeptInv /\ CursorInv
    BY <1>2 DEF ScanInv, MissInv, PlaceInv
  <1>4. stamp \in [Files -> Int] /\ Rows(L) \subseteq Places(L)
    BY <1>1, <1>3, RowsOf, ListingAssumption DEF TypeInv, Ordered
  <1>5. ASSUME NEW k \in kept, k[1] \notin seen'
        PROVE  more /\ \A q \in shown : Before(L, q, k[1])
    <2>1. k[1] \in Rows(L) /\ k[1] \notin shown /\ k[1] \notin seen
      BY <1>1, <1>3, <1>5, KeptAre
    <2>2. k[1] \in From(L, c) /\ Onward(k[1])
      <3>1. CASE c = NoCursor
        BY <2>1, <3>1 DEF From, Onward
      <3>2. CASE c # NoCursor
        <4>1. ~Passed(c, scan.place, k[1])
          BY <1>1, <1>3, <2>1, <3>2 DEF Missing
        <4>2. /\ Key(L, c) >= scan.place /\ scan.place \in Int
              /\ Key(L, c) \in Int /\ Key(L, k[1]) \in Int
          BY <1>2, <1>3, <1>4, <2>1, <3>2, Total DEF CursorInv, TypeInv, ScanOK
        <4>3. k[1] # c /\ ~Before(L, k[1], c)
          BY <4>1, <4>2 DEF Passed, Before
        <4>4. Before(L, c, k[1])
          BY <1>2, <1>4, <2>1, <3>2, <4>3, Total
        <4> QED
          BY <1>1, <1>2, <1>3, <2>1, <3>2, <4>4, FromCursor DEF Onward
      <3> QED
        BY <3>1, <3>2
    <2> QED
      BY <2>1, <2>2 DEF Reads, Page
  <1>6. CASE ~more
    <2>1. scan' = [scan EXCEPT !.pc = "done"]
      BY <1>3, <1>6, Onwards DEF TypeInv
    <2>2. scan'.pc = "done" /\ scan'.list = L
      BY <1>3, <2>1 DEF TypeInv, ScanOK
    <2> QED
      BY <1>1, <1>5, <1>6, <2>2 DEF Missing
  <1>7. CASE more
    <2>1. PICK r \in shown : scan' = [scan EXCEPT !.cursor = r, !.place = Key(L, r)]
      BY <1>3, <1>7, Onwards DEF TypeInv
    <2>2. /\ scan'.list = L /\ scan'.cursor = r /\ scan'.place = Key(L, r)
          /\ scan'.pc = "read"
      BY <1>1, <1>3, <2>1 DEF TypeInv, ScanOK
    <2>3. r \in Places(L)
      BY <1>3, <1>4, Onwards DEF TypeInv
    <2>4. ASSUME NEW k \in kept, k[1] \notin seen'
          PROVE  ~Passed(r, Key(L, r), k[1])
      <3>1. k[1] \in Places(L) /\ Before(L, r, k[1])
        BY <1>3, <1>4, <1>5, <2>4, KeptAre
      <3> QED
        BY <1>4, <2>3, <3>1, PassedIsBefore, Total
    <2>5. \A x : Passed(scan.cursor, scan.place, x)' <=> Passed(r, Key(L, r), x)
      BY <1>1, <2>2 DEF Passed, Key, files
    <2> QED
      BY <1>1, <2>2, <2>4, <2>5 DEF Missing
  <1> QED
    BY <1>6, <1>7

LEMMA PageRepeats ==
  ASSUME ScanInv, NEW shown, NEW more \in BOOLEAN, Reads(shown, more)
  PROVE  RepeatInv'
  <1> SUFFICES ASSUME ~climbed' PROVE Repeating'
    BY DEF RepeatInv
  <1> DEFINE L == scan.list
             c == scan.cursor
  <1>1. /\ scan.pc = "read" /\ L \in Lists \ {"search"}
        /\ UNCHANGED <<files, kept>> /\ seen' = seen \cup shown
        /\ twice' = twice \cup (seen \cap shown)
    BY DEF Reads, Shows
  <1>2. ~climbed /\ (c # NoCursor => Key(L, c) = scan.place)
    BY DEF Reads, CursorMoves
  <1>3. Repeating /\ TypeInv /\ KeptInv /\ CursorInv
    BY <1>2 DEF ScanInv, RepeatInv, PlaceInv
  <1>4. stamp \in [Files -> Int] /\ Rows(L) \subseteq Places(L) /\ shown \subseteq Rows(L)
    <2>1. FilesOK /\ ScanOK
      BY <1>3 DEF TypeInv
    <2>2. stamp \in [Files -> Int] /\ Rows(L) \subseteq Places(L)
      BY <1>1, <2>1, RowsOf, ListingAssumption DEF Ordered
    <2>3. shown \subseteq Rows(L)
      BY <2>1, Onwards
    <2> QED
      BY <2>2, <2>3
  <1>5. ASSUME NEW k \in kept, k[1] \in seen
        PROVE  c # NoCursor /\ c \in Places(L) /\ (k[1] = c \/ Before(L, k[1], c))
    <2>1. c # NoCursor /\ Passed(c, scan.place, k[1])
      BY <1>1, <1>3, <1>5 DEF Repeating
    <2>2. c \in Places(L) /\ k[1] \in Places(L)
      BY <1>3, <1>4, <2>1, KeptAre DEF CursorInv
    <2> QED
      BY <1>2, <1>4, <2>1, <2>2, PassedIsBefore
  <1>6. c # NoCursor => \A r \in From(L, c) : r = c \/ Before(L, c, r)
    BY <1>1, <1>2, <1>3, FromCursor
  <1>7. shown \subseteq From(L, c)
    BY DEF Reads, Page
  <1>8. ASSUME NEW k \in kept, k[1] \in seen, k[1] \in shown PROVE FALSE
    <2>1. c # NoCursor /\ c \in Places(L) /\ (k[1] = c \/ Before(L, k[1], c))
      BY <1>5, <1>8
    <2>2. k[1] = c \/ Before(L, c, k[1])
      BY <1>6, <1>7, <1>8, <2>1
    <2>3. k[1] = c
      BY <1>4, <1>8, <2>1, <2>2, Total
    <2>4. StandsFirst
      BY <1>6, <1>7, <1>8, <2>1, <2>3 DEF StandsFirst
    <2> QED
      BY <1>8, <2>3, <2>4 DEF Reads, Page
  <1>9. \A k \in kept' : k[1] \notin twice'
    BY <1>1, <1>3, <1>8 DEF Repeating
  <1>10. CASE ~more
    <2>1. scan' = [scan EXCEPT !.pc = "done"]
      BY <1>3, <1>10, Onwards DEF TypeInv
    <2>2. scan'.pc = "done" /\ scan'.list = L
      BY <1>3, <2>1 DEF TypeInv, ScanOK
    <2> QED
      BY <1>1, <1>9, <2>2 DEF Repeating
  <1>11. CASE more
    <2>1. PICK r \in shown : /\ scan' = [scan EXCEPT !.cursor = r, !.place = Key(L, r)]
                             /\ \A q \in shown \ {r} : Before(L, q, r)
      BY <1>3, <1>11, Onwards DEF TypeInv
    <2>2. /\ scan'.list = L /\ scan'.cursor = r /\ scan'.place = Key(L, r)
          /\ scan'.pc = "read"
      BY <1>1, <1>3, <2>1 DEF TypeInv, ScanOK
    <2>3. r \in Places(L) /\ r # NoCursor
      <3>1. r \in (Files \X Int) \cup ({0} \X Nat)
        BY <1>1, <1>3, <1>4, <2>1, RowsOf, ListingAssumption DEF TypeInv
      <3>2. r[1] \in Nat \ {0} \/ r[2] \in Nat
        BY <3>1, ListingAssumption
      <3> QED
        BY <1>4, <2>1, <3>2 DEF NoCursor, Absent
    <2>4. ASSUME NEW k \in kept, k[1] \in seen'
          PROVE  Passed(r, Key(L, r), k[1])
      <3>1. k[1] \in Places(L)
        BY <1>3, <1>4, KeptAre
      <3>2. CASE k[1] \in shown
        BY <1>4, <2>1, <2>3, <3>1, <3>2, PassedIsBefore
      <3>3. CASE k[1] \in seen
        <4>1. c # NoCursor /\ c \in Places(L) /\ (k[1] = c \/ Before(L, k[1], c))
          BY <1>5, <3>3
        <4>2. r = c \/ Before(L, c, r)
          BY <1>6, <1>7, <4>1
        <4>3. k[1] = r \/ Before(L, k[1], r)
          BY <1>4, <2>3, <3>1, <4>1, <4>2, Total
        <4> QED
          BY <1>4, <2>3, <3>1, <4>3, PassedIsBefore
      <3> QED
        BY <1>1, <2>4, <3>2, <3>3
    <2>5. \A x : Passed(scan.cursor, scan.place, x)' <=> Passed(r, Key(L, r), x)
      BY <1>1, <2>2 DEF Passed, Key, files
    <2> QED
      BY <1>1, <1>9, <2>2, <2>3, <2>4, <2>5 DEF Repeating
  <1> QED
    BY <1>10, <1>11

(* A page of a search. *)

LEMMA ListStays ==
  ASSUME UNCHANGED files
  PROVE  /\ \A list : Rows(list)' = Rows(list) /\ Places(list)' = Places(list)
                      /\ \A r : Key(list, r)' = Key(list, r)
         /\ \A r : Above(r)' = Above(r) /\ UpTo(r)' = UpTo(r)
         /\ kept' = kept /\ scan'.list = scan.list /\ KeptInv => KeptInv'
  <1>1. \A list : Rows(list)' = Rows(list) /\ Places(list)' = Places(list)
                  /\ \A r : Key(list, r)' = Key(list, r)
    BY DEF Rows, Key, files, Starred, Found, Places
  <1>2. \A r : Above(r)' = Above(r) /\ UpTo(r)' = UpTo(r)
    BY <1>1 DEF Above, UpTo, files
  <1>3. kept' = kept /\ scan'.list = scan.list /\ KeptInv => KeptInv'
    BY <1>1 DEF KeptInv, Placed
  <1> QED
    BY <1>1, <1>2, <1>3

LEMMA IdsInv == ASSUME ScanInv, SearchIds PROVE PlaceInv' /\ MissInv' /\ RepeatInv'
  <1>1. PICK above, top : Ids(above, top)
    BY SearchOf
  <1>2. /\ scan'.list = scan.list /\ scan'.cursor = scan.cursor /\ scan'.place = scan.place
        /\ scan'.pc = (IF top = above THEN "done" ELSE "items")
        /\ scan'.more = (top # Rows("search")) /\ scan'.offset = scan.offset
        /\ scan.pc = "read" /\ scan.list = "search" /\ scan.offset \in Nat
    BY <1>1 DEF Ids, ScanInv, TypeInv, ScanOK
  <1>3. /\ UNCHANGED <<files, seen, twice, kept>> /\ page' = top \ above
        /\ slipped' = (slipped \/ Tied(Rows("search")))
        /\ climbed' = (climbed \/ Tied(Rows("search")))
    BY <1>1 DEF Ids
  <1>4. /\ \A r : Above(r)' = Above(r) /\ UpTo(r)' = UpTo(r)
        /\ \A list : Places(list)' = Places(list) /\ \A r : Key(list, r)' = Key(list, r)
        /\ KeptInv'
    BY <1>2, <1>3, ListStays DEF ScanInv, PlaceInv
  <1>5. \A k \in kept : k[1] \in Rows("search")
    BY <1>2, KeptAre DEF ScanInv, PlaceInv
  <1>6. FilesOK /\ ScanOK /\ scan.offset + Take \in Nat
    BY <1>2, ListingAssumption DEF ScanInv, TypeInv
  <1>7. /\ \A r \in Rows("search") : Cardinality(Above(r)) >= scan.offset => r \notin above
        /\ \A r \in Rows("search") : Cardinality(UpTo(r)) <= scan.offset => r \in above
    BY <1>1, <1>2, <1>6, TopsOf DEF Ids
  <1>8. ~Tied(Rows("search")) =>
          /\ \A r \in Rows("search") \ top : Cardinality(Above(r)) >= scan.offset + Take
          /\ \A r \in top : Cardinality(UpTo(r)) <= scan.offset + Take
    BY <1>1, <1>6, TopsOf DEF Ids
  <1>9. top = above => top = Rows("search")
    BY <1>1, <1>6, IdsOf
  <1>10. PlaceInv'
    <2>1. CursorInv'
      BY <1>2, <1>3, <1>4 DEF ScanInv, PlaceInv, CursorInv, files
    <2> QED
      BY <1>4, <2>1 DEF PlaceInv
  <1>11. ASSUME ~slipped' PROVE Missing'
    <2>1. ASSUME NEW k \in kept, k[1] \notin seen
          PROVE  k[1] \notin above /\ (k[1] \notin top => Cardinality(Above(k[1])) >= scan.offset + Take)
      BY <1>2, <1>3, <1>5, <1>7, <1>8, <1>11, <2>1 DEF ScanInv, MissInv, Missing
    <2> QED
      BY <1>2, <1>3, <1>4, <1>5, <1>9, <2>1 DEF Missing
  <1>12. ASSUME ~climbed' PROVE Repeating'
    <2>1. Repeating /\ ~Tied(Rows("search"))
      BY <1>3, <1>12 DEF ScanInv, RepeatInv
    <2>2. ASSUME NEW k \in kept, k[1] \in seen
          PROVE  k[1] \in above /\ Cardinality(UpTo(k[1])) <= scan.offset
      BY <1>2, <1>5, <1>7, <2>1, <2>2 DEF Repeating
    <2>3. ASSUME NEW k \in kept, k[1] \in page'
          PROVE  k[1] \notin seen /\ Cardinality(UpTo(k[1])) <= scan.offset + Take
      BY <1>3, <1>8, <2>1, <2>2, <2>3
    <2> QED
      BY <1>2, <1>3, <1>4, <2>1, <2>2, <2>3 DEF Repeating
  <1> QED
    BY <1>10, <1>11, <1>12 DEF MissInv, RepeatInv

LEMMA ItemsInv == ASSUME ScanInv, SearchItems PROVE PlaceInv' /\ MissInv' /\ RepeatInv'
  <1> DEFINE rows == {r \in page : life[r[1]] # "gone"}
  <1>1. /\ scan.pc = "items" /\ scan.list = "search" /\ scan.offset \in Nat
        /\ seen' = seen \cup rows /\ twice' = twice \cup (seen \cap rows)
        /\ UNCHANGED <<files, changes, kept, slipped, climbed>>
    BY DEF SearchItems, Shows, ScanInv, TypeInv, ScanOK
  <1>2. /\ scan'.list = "search" /\ scan'.cursor = scan.cursor /\ scan'.place = scan.place
        /\ IF scan.more THEN scan'.pc = "read" /\ scan'.offset = scan.offset + Take
           ELSE scan'.pc = "done"
    BY <1>1 DEF SearchItems, ScanInv, TypeInv, ScanOK
  <1>3. /\ \A r : Above(r)' = Above(r) /\ UpTo(r)' = UpTo(r)
        /\ \A list : Places(list)' = Places(list) /\ \A r : Key(list, r)' = Key(list, r)
        /\ KeptInv'
    BY <1>1, <1>2, ListStays DEF ScanInv, PlaceInv
  <1>4. \A k \in kept : k[1] \in page => k[1] \in rows
    <2>1. \A k \in kept : k[1] \in Rows("search")
      BY <1>1, KeptAre DEF ScanInv, PlaceInv
    <2>2. \A r \in Rows("search") : life[r[1]] = "live"
      BY DEF Rows, Found
    <2> QED
      BY <2>1, <2>2
  <1>5. \A r : Cardinality(UpTo(r)) \in Nat
    BY FoundOf DEF ScanInv, TypeInv
  <1>6. rows \subseteq page
    OBVIOUS
  <1> HIDE DEF rows
  <1>7. PlaceInv'
    <2>1. CursorInv'
      BY <1>1, <1>2, <1>3 DEF ScanInv, PlaceInv, CursorInv, files
    <2> QED
      BY <1>3, <2>1 DEF PlaceInv
  <1>8. ASSUME ~slipped' PROVE Missing'
    <2>1. ASSUME NEW k \in kept, k[1] \notin seen'
          PROVE  scan.more /\ Cardinality(Above(k[1])) >= scan.offset + Take
      <3>1. k[1] \notin seen /\ k[1] \notin page
        BY <1>1, <1>4, <2>1
      <3> QED
        BY <1>1, <1>8, <3>1 DEF ScanInv, MissInv, Missing
    <2> QED
      BY <1>1, <1>2, <1>3, <2>1 DEF Missing
  <1>9. ASSUME ~climbed' PROVE Repeating'
    <2>1. Repeating
      BY <1>1, <1>9 DEF ScanInv, RepeatInv
    <2>2. ASSUME NEW k \in kept PROVE k[1] \notin twice'
      BY <1>1, <1>6, <2>1 DEF Repeating
    <2>3. ASSUME NEW k \in kept, k[1] \in seen'
          PROVE  Cardinality(UpTo(k[1])) <= scan.offset + Take
      BY <1>1, <1>5, <1>6, <2>1, <2>3, ListingAssumption DEF Repeating
    <2> QED
      BY <1>1, <1>2, <1>3, <2>2, <2>3 DEF Repeating
  <1> QED
    BY <1>7, <1>8, <1>9 DEF MissInv, RepeatInv

LEMMA StartInv == ASSUME ScanInv, StartScan PROVE PlaceInv' /\ MissInv' /\ RepeatInv'
  <1>1. PICK list \in Lists : /\ scan' = [scan EXCEPT !.pc = "read", !.list = list]
                              /\ kept' = Placed(list)
    BY DEF StartScan
  <1>2. /\ scan = Unread /\ seen = {} /\ twice = {}
        /\ UNCHANGED <<files, changes, page, seen, twice, slipped, climbed>>
    BY DEF StartScan, ScanInv, TypeInv, ScanOK
  <1>3. /\ scan'.pc = "read" /\ scan'.list = list /\ scan'.cursor = NoCursor /\ scan'.offset = 0
    BY <1>1, <1>2 DEF Unread
  <1>4. /\ \A r : Above(r)' = Above(r) /\ UpTo(r)' = UpTo(r)
        /\ \A l : Rows(l)' = Rows(l) /\ \A r : Key(l, r)' = Key(l, r)
    BY <1>2, ListStays
  <1>5. PlaceInv'
    <2>1. KeptInv'
      BY <1>1, <1>3, <1>4 DEF KeptInv, Placed
    <2>2. CursorInv'
      BY <1>2, <1>3 DEF CursorInv
    <2> QED
      BY <2>1, <2>2 DEF PlaceInv
  <1>6. \A r : Cardinality(Above(r)) >= 0
    BY FoundOf DEF ScanInv, TypeInv
  <1>7. Missing'
    BY <1>3, <1>4, <1>6 DEF Missing
  <1>8. Repeating'
    BY <1>2, <1>3 DEF Repeating
  <1> QED
    BY <1>5, <1>7, <1>8 DEF MissInv, RepeatInv

(* A change.  Files are only ever stamped later, and a row that keeps its place*)
(* is as far from the cursor's place as it was.                                *)

SearchFinite == IsFiniteSet(Rows("search"))

LEMMA FiniteNow == FilesOK => SearchFinite
  BY FoundOf DEF SearchFinite

LEMMA FiniteNext == FilesOK' => SearchFinite'
  BY FiniteNow, PTL

LEMMA ChangeInv == ASSUME ScanInv, Change, Shifts PROVE PlaceInv' /\ MissInv' /\ RepeatInv'
  <1> DEFINE L == scan.list
             c == scan.cursor
  <1>1. Changed /\ FilesOK' /\ FilesOK /\ ScanOK
    BY ChangeOf DEF ScanInv, TypeInv
  <1>2. UNCHANGED <<mine, scan, page, seen, twice>> /\ scan.pc \in {"read", "items"}
    BY <1>1 DEF Changed
  <1>3. /\ kept' = kept \cap Placed(L)'
        /\ slipped' = (slipped \/ (L = "search" /\ ~(Rows(L) \subseteq Rows(L)')))
        /\ climbed' = (climbed \/ (L = "search" /\ ~(Placed(L)' \subseteq Placed(L))))
    BY DEF Shifts
  <1>4. \A f \in Files : stamp[f] \in Int /\ stamp'[f] \in Int /\ stamp'[f] >= stamp[f]
    BY <1>1 DEF Changed, FilesOK
  <1>5. \A f \in Files : life'[f] = "live" /\ life[f] # "live" => stamp'[f] > stamp[f]
    BY <1>1 DEF Changed, FilesOK
  <1>6. ASSUME NEW k \in kept'
        PROVE  /\ k \in kept /\ k[1] \in Rows(L) /\ k[1] \in Rows(L)'
               /\ Key(L, k[1])' = Key(L, k[1])
    <2>1. k \in kept /\ k \in Placed(L) /\ k \in Placed(L)'
      BY <1>3, <1>6 DEF ScanInv, PlaceInv, KeptInv
    <2> QED
      BY <1>2, <2>1 DEF Placed
  <1>7. PlaceInv'
    <2>1. KeptInv'
      BY <1>2, <1>3 DEF KeptInv
    <2>2. ASSUME c # NoCursor
          PROVE  /\ L \in Lists /\ (c \in Places(L))' /\ Key(L, c)' >= scan.place
                 /\ L = "trash" /\ life'[c[1]] = "live" => stamp'[c[1]] > scan.place
      <3>1. /\ L \in Lists /\ c \in Places(L)
            /\ Key(L, c) >= scan.place /\ scan.place \in Int
            /\ L = "trash" /\ life[c[1]] = "live" => stamp[c[1]] > scan.place
        BY <1>1, <2>2 DEF ScanInv, PlaceInv, CursorInv, ScanOK
      <3>2. CASE L \in Stamped
        <4>1. c[1] \in Files
          BY <3>1, <3>2 DEF Places
        <4>2. Key(L, c) = stamp[c[1]] /\ Key(L, c)' = stamp'[c[1]]
          BY <1>2, <3>2 DEF Key, Stamped
        <4> QED
          BY <1>2, <1>4, <1>5, <3>1, <4>1, <4>2 DEF Places
      <3>3. CASE L \notin Stamped
        BY <1>2, <3>1, <3>3 DEF Key, Stamped, Places
      <3> QED
        BY <3>2, <3>3
    <2>3. CursorInv'
      <3>1. scan.pc = "read" /\ L # "search" /\ c = NoCursor => seen = {}
        BY DEF ScanInv, PlaceInv, CursorInv
      <3> QED
        BY <1>2, <2>2, <3>1 DEF CursorInv
    <2> QED
      BY <2>1, <2>3 DEF PlaceInv
  <1>8. \A k \in kept' : Passed(c, scan.place, k[1])' <=> Passed(c, scan.place, k[1])
    BY <1>2, <1>6 DEF Passed
  <1>9. ASSUME L = "search", NEW k \in kept'
        PROVE  /\ stamp'[k[1][1]] = stamp[k[1][1]] /\ stamp[k[1][1]] \in Int
    <2>1. Key(L, k[1])' = Key(L, k[1]) /\ k[1] \in Rows("search")
      BY <1>6, <1>9
    <2>2. stamp[k[1][1]] \in Int
      BY <1>1, <2>1, FoundOf
    <2> QED
      BY <1>2, <1>9, <2>1, <2>2 DEF Key
  <1>10. \A r \in Rows("search") : r[1] \in Files
    BY <1>1, FoundOf
  <1>11. ASSUME L = "search", ~slipped', NEW k \in kept'
         PROVE  Cardinality(Above(k[1])) <= Cardinality(Above(k[1])')
    <2>1. Above(k[1]) \subseteq Above(k[1])'
      <3> SUFFICES ASSUME NEW q \in Above(k[1]) PROVE q \in Above(k[1])'
        OBVIOUS
      <3>0. q \in Rows("search") /\ stamp[q[1]] > stamp[k[1][1]]
        BY DEF Above
      <3>1. q \in Rows("search")'
        BY <1>2, <1>3, <1>11, <3>0
      <3>2. /\ stamp[q[1]] \in Int /\ stamp'[q[1]] \in Int /\ stamp'[q[1]] >= stamp[q[1]]
        BY <1>4, <1>10, <3>0
      <3>3. stamp'[k[1][1]] = stamp[k[1][1]] /\ stamp[k[1][1]] \in Int
        BY <1>9, <1>11
      <3>4. stamp'[q[1]] > stamp'[k[1][1]]
        BY <3>0, <3>2, <3>3
      <3> QED
        BY <3>1, <3>4 DEF Above
    <2>2. IsFiniteSet(Above(k[1])')
      <3>1. Above(k[1])' \subseteq Rows("search")'
        BY DEF Above
      <3> QED
        BY <1>1, <3>1, FiniteNext, FS_Subset DEF SearchFinite
    <2> QED
      BY <2>1, <2>2, FS_Subset
  <1>12. ASSUME L = "search", ~climbed', NEW k \in kept'
         PROVE  Cardinality(UpTo(k[1])') <= Cardinality(UpTo(k[1]))
    <2>1. UpTo(k[1])' \subseteq UpTo(k[1])
      <3> SUFFICES ASSUME NEW q \in Rows("search")', stamp'[q[1]] >= stamp'[k[1][1]]
                   PROVE  q \in Rows("search") /\ stamp[q[1]] >= stamp[k[1][1]]
        BY DEF UpTo
      <3>1. Placed(L)' \subseteq Placed(L) /\ <<q, Key(L, q)'>> \in Placed(L)'
        BY <1>2, <1>3, <1>12 DEF Placed
      <3>2. q \in Rows("search") /\ Key(L, q)' = Key(L, q)
        BY <1>12, <3>1 DEF Placed
      <3>3. stamp'[q[1]] = stamp[q[1]]
        BY <1>2, <1>12, <3>2 DEF Key
      <3> QED
        BY <1>9, <1>12, <3>2, <3>3
    <2>2. IsFiniteSet(UpTo(k[1]))
      BY <1>1, FoundOf
    <2> QED
      BY <2>1, <2>2, FS_Subset
  <1>13. scan.offset \in Nat /\ scan.offset + Take \in Nat
    BY <1>1, ListingAssumption DEF ScanOK
  <1>14. \A k \in kept' : /\ L = "search" => Cardinality(Above(k[1])) \in Nat
                          /\ Cardinality(UpTo(k[1])) \in Nat
    BY <1>1, FoundOf
  <1>15. ASSUME ~slipped' PROVE Missing'
    <2>1. Missing
      BY <1>3, <1>15 DEF ScanInv, MissInv
    <2>2. \A n \in Nat : \A k \in kept' :
            L = "search" /\ Cardinality(Above(k[1])) >= n => Cardinality(Above(k[1])') >= n
      <3> SUFFICES ASSUME NEW n \in Nat, NEW k \in kept', L = "search",
                          Cardinality(Above(k[1])) >= n
                   PROVE  Cardinality(Above(k[1])') >= n
        OBVIOUS
      <3>1. Cardinality(Above(k[1])') \in Nat
        <4>1. Above(k[1])' \subseteq Rows("search")'
          BY DEF Above
        <4> QED
          BY <1>1, <4>1, FiniteNext, FS_Subset, FS_CardinalityType DEF SearchFinite
      <3> QED
        BY <1>11, <1>14, <1>15, <3>1
    <2> QED
      BY <1>2, <1>6, <1>8, <1>13, <2>1, <2>2 DEF Missing
  <1>16. ASSUME ~climbed' PROVE Repeating'
    <2>1. Repeating
      BY <1>3, <1>16 DEF ScanInv, RepeatInv
    <2>2. \A n \in Nat : \A k \in kept' :
            L = "search" /\ Cardinality(UpTo(k[1])) <= n => Cardinality(UpTo(k[1])') <= n
      <3> SUFFICES ASSUME NEW n \in Nat, NEW k \in kept', L = "search",
                          Cardinality(UpTo(k[1])) <= n
                   PROVE  Cardinality(UpTo(k[1])') <= n
        OBVIOUS
      <3>1. Cardinality(UpTo(k[1])') \in Nat
        <4>1. UpTo(k[1])' \subseteq Rows("search")'
          BY DEF UpTo
        <4> QED
          BY <1>1, <4>1, FiniteNext, FS_Subset, FS_CardinalityType DEF SearchFinite
      <3> QED
        BY <1>12, <1>14, <1>16, <3>1
    <2> QED
      BY <1>2, <1>6, <1>8, <1>13, <2>1, <2>2 DEF Repeating
  <1> QED
    BY <1>7, <1>15, <1>16 DEF MissInv, RepeatInv

LEMMA ScanStep == ASSUME ScanInv, [Next]_vars PROVE ScanInv'
  <1>1. TypeInv'
    BY TypeStep DEF ScanInv
  <1>2. CASE UNCHANGED vars
    <2>1. /\ \A r : Above(r)' = Above(r) /\ UpTo(r)' = UpTo(r)
          /\ \A list : Places(list)' = Places(list) /\ \A r : Key(list, r)' = Key(list, r)
          /\ KeptInv'
      BY <1>2, ListStays DEF vars, history, ScanInv, PlaceInv
    <2>2. CursorInv'
      BY <1>2, <2>1 DEF vars, files, history, ScanInv, PlaceInv, CursorInv
    <2>3. \A place, k : Passed(scan.cursor, place, k)' <=> Passed(scan.cursor, place, k)
      BY <1>2, <2>1 DEF Passed, vars
    <2>4. MissInv'
      BY <1>2, <2>1, <2>3 DEF vars, history, ScanInv, MissInv, Missing
    <2>5. RepeatInv'
      BY <1>2, <2>1, <2>3 DEF vars, history, ScanInv, RepeatInv, Repeating
    <2> QED
      BY <1>1, <2>1, <2>2, <2>4, <2>5 DEF ScanInv, PlaceInv
  <1>3. CASE ReadPage \/ ReadNotifications
    <2>1. PICK shown : \E more \in BOOLEAN : Reads(shown, more)
      BY <1>3, ReadsPage, ReadsNotifications DEF ScanInv, TypeInv
    <2>2. PICK more \in BOOLEAN : Reads(shown, more)
      BY <2>1
    <2> QED
      BY <1>1, <2>2, PagePlaces, PageMisses, PageRepeats DEF ScanInv
  <1> QED
    BY <1>1, <1>2, <1>3, IdsInv, ItemsInv, StartInv, ChangeInv DEF Next, Read, ScanInv

LEMMA ScanHolds == Spec => []ScanInv
  BY ScanInit, ScanStep, PTL DEF Spec

(* A list read to its end has shown every row that kept its place all the      *)
(* while, unless the row a page went on from had left by then or, in a search, *)
(* a row above had left or two had one time: however many rows, pages, writes  *)
(* and readers there are.                                                      *)
THEOREM MissedOnlyForReason == Spec => []MissedOnlyIfSlipped
  <1>1. ScanInv => MissedOnlyIfSlipped
    BY DEF ScanInv, MissInv, Missing, MissedOnlyIfSlipped
  <1> QED
    BY <1>1, ScanHolds, PTL

(* A row that kept its place is not shown again, unless the row a page went on *)
(* from had moved up or, in a search, a row had come in above or two had one   *)
(* time.                                                                       *)
THEOREM RepeatedOnlyForReason == Spec => []RepeatedOnlyIfClimbed
  <1>1. ScanInv => RepeatedOnlyIfClimbed
    BY DEF ScanInv, RepeatInv, Repeating, RepeatedOnlyIfClimbed
  <1> QED
    BY <1>1, ScanHolds, PTL
===============================================================================
