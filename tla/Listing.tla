-------------------------------- MODULE Listing -------------------------------
(* The lists a client pages through while others write: a user's own files,    *)
(* the trash, what is shared with her or starred, the search over both, a      *)
(* file's messages and her notifications.  One client reads one list to its    *)
(* end, a page at a time, and every page is a query of its own.                *)
EXTENDS Integers, FiniteSets

CONSTANTS Files,     \* ids of files, which break ties of their order
          Lists,     \* the lists that are read
          Take,      \* rows of a page
          MaxPosts,  \* bound on messages, or on notifications
          MaxChanges \* bound on what is written while the client reads

FileLists == {"mine", "trash", "shared", "starred", "search"}
Feeds     == {"messages", "notifications"}

ASSUME ListingAssumption ==
  /\ Files \subseteq Nat \ {0} /\ IsFiniteSet(Files)
  /\ Lists \subseteq FileLists \cup Feeds
  /\ Take \in Nat \ {0} /\ MaxPosts \in Nat /\ MaxChanges \in Nat

VARIABLES mine,    \* the files the user owns
          life,    \* a File row: none yet, live, trashed or destroyed
          stamp,   \* its updatedAt, and its deletedAt once it is trashed
          anyone,  \* its general access: ANYONE, with a role
          share,   \* birth of the user's Share row
          star,    \* birth of her Star row
          posts,   \* the messages of a file, or her notifications, by birth
          changes, \* how many writes there have been
          scan,    \* which list is read, and how far
          page,    \* the rows of the page last read
          seen,    \* history: the rows shown ...
          twice,   \* history: ... and those shown again
          kept,    \* history: rows in the list, at their place, all the time
          slipped, \* history: the list shrank above what was still to be read
          climbed  \* history: the list grew above what was still to be read

files   == <<mine, life, stamp, anyone, share, star, posts>>
history == <<seen, twice, kept, slipped, climbed>>
vars    == <<files, changes, scan, page, history>>

Absent   == -1
NoCursor == <<0, Absent>>

(* The list read, how far: by a cursor, and its place when it was handed out,  *)
(* or by an offset; and whether there is more.                                 *)
Unread == [pc |-> "idle", list |-> "none", cursor |-> NoCursor, place |-> 0,
           offset |-> 0, more |-> FALSE]

Init == /\ mine \in SUBSET Files
        /\ life \in [Files -> {"none", "live", "trashed"}]
        /\ stamp \in {[f \in Files |-> 0], [f \in Files |-> -f]}
        /\ anyone = [f \in Files |-> FALSE]
        /\ share = [f \in Files |-> IF f \in mine \/ life[f] = "none" THEN Absent ELSE 0]
        /\ star = [f \in Files |-> IF life[f] = "none" THEN Absent ELSE 0]
        /\ posts = 1..MaxPosts /\ changes = 0
        /\ scan = Unread
        /\ page = {} /\ seen = {} /\ twice = {} /\ kept = {}
        /\ slipped = FALSE /\ climbed = FALSE

-------------------------------------------------------------------------------
(* Writes, by the user and by others, while the list is read: what was written *)
(* before, two files at one time among it, is in Init.  Messages and           *)
(* notifications are in no list of files, and files in none of theirs.         *)

Write(lists) ==
  /\ scan.pc \in {"read", "items"} /\ scan.list \in lists
  /\ changes < MaxChanges /\ changes' = changes + 1
  /\ UNCHANGED <<mine, scan, page, seen, twice>>

(* @updatedAt *)
Touch(f) == stamp' = [stamp EXCEPT ![f] = changes']

Create(f) ==
  /\ Write(FileLists)
  /\ life[f] = "none"
  /\ life' = [life EXCEPT ![f] = "live"] /\ Touch(f)
  /\ UNCHANGED <<anyone, share, star, posts>>

(* PATCH /files/:id: an edit. *)
Update(f) ==
  /\ Write(FileLists)
  /\ life[f] = "live"
  /\ Touch(f)
  /\ UNCHANGED <<life, anyone, share, star, posts>>

UpdateGeneralAccess(f) ==
  /\ Write(FileLists)
  /\ life[f] = "live"
  /\ anyone' = [anyone EXCEPT ![f] = ~@] /\ Touch(f)
  /\ UNCHANGED <<life, share, star, posts>>

SoftDelete(f) ==
  /\ Write(FileLists)
  /\ life[f] = "live"
  /\ life' = [life EXCEPT ![f] = "trashed"] /\ Touch(f)
  /\ UNCHANGED <<anyone, share, star, posts>>

Restore(f) ==
  /\ Write(FileLists)
  /\ life[f] \in {"live", "trashed"}
  /\ life' = [life EXCEPT ![f] = "live"] /\ Touch(f)
  /\ UNCHANGED <<anyone, share, star, posts>>

(* Shares and stars go with the file. *)
PermanentDelete(f) ==
  /\ Write(FileLists)
  /\ life[f] = "trashed"
  /\ life' = [life EXCEPT ![f] = "gone"]
  /\ share' = [share EXCEPT ![f] = Absent] /\ star' = [star EXCEPT ![f] = Absent]
  /\ UNCHANGED <<stamp, anyone, posts>>

(* invite upserts: an existing row stays the row it was. *)
Invite(f) ==
  /\ Write(FileLists)
  /\ f \notin mine /\ life[f] = "live"
  /\ share' = [share EXCEPT ![f] = IF @ = Absent THEN changes' ELSE @]
  /\ UNCHANGED <<life, stamp, anyone, star, posts>>

RemoveShare(f) ==
  /\ Write(FileLists)
  /\ share[f] # Absent /\ life[f] = "live"
  /\ share' = [share EXCEPT ![f] = Absent]
  /\ UNCHANGED <<life, stamp, anyone, star, posts>>

(* getAccess for the user, not null. *)
Granted(f) == life[f] = "live" /\ (f \in mine \/ share[f] # Absent \/ anyone[f])

Star(f) ==
  /\ Write(FileLists)
  /\ Granted(f)
  /\ star' = [star EXCEPT ![f] = IF @ = Absent THEN changes' ELSE @]
  /\ UNCHANGED <<life, stamp, anyone, share, posts>>

Unstar(f) ==
  /\ Write(FileLists)
  /\ Granted(f)
  /\ star' = [star EXCEPT ![f] = Absent]
  /\ UNCHANGED <<life, stamp, anyone, share, posts>>

(* A message is sent, or a notification kept. *)
Post ==
  /\ Write(Feeds)
  /\ posts' = posts \cup {MaxPosts + changes'}
  /\ UNCHANGED <<life, stamp, anyone, share, star>>

(* An author's messages go with her account. *)
AuthorDeleted ==
  /\ Write({"messages"})
  /\ \E n \in posts : posts' = posts \ {n}
  /\ UNCHANGED <<life, stamp, anyone, share, star>>

-------------------------------------------------------------------------------
(* The rows a list's where lets through.  A row is a file with the birth of    *)
(* the row that refers to it, or a post.                                       *)

MutStarred(f) == star[f] # Absent /\ life[f] = "live"

Starred(f) == /\ star[f] # Absent /\ life[f] = "live"
              /\ f \in mine \/ share[f] # Absent \/ anyone[f]

Found(f) == life[f] = "live" /\ (f \in mine \/ share[f] # Absent)

Rows(list) ==
  CASE list = "mine"    -> {<<f, 0>> : f \in {f \in mine : life[f] = "live"}}
    [] list = "trash"   -> {<<f, 0>> : f \in {f \in mine : life[f] = "trashed"}}
    [] list = "shared"  -> {<<f, share[f]>> : f \in {f \in Files : share[f] # Absent /\ life[f] = "live"}}
    [] list = "starred" -> {<<f, star[f]>> : f \in {f \in Files : Starred(f)}}
    [] list = "search"  -> {<<f, 0>> : f \in {f \in Files : Found(f)}}
    [] OTHER            -> {<<0, n>> : n \in posts}

(* The rows a cursor can name: it is looked up by its id alone. *)
Table(list) ==
  CASE list \in {"mine", "trash"} -> {<<f, 0>> : f \in {f \in Files : life[f] \in {"live", "trashed"}}}
    [] list = "shared"  -> {<<f, share[f]>> : f \in {f \in Files : share[f] # Absent}}
    [] list = "starred" -> {<<f, star[f]>> : f \in {f \in Files : star[f] # Absent}}
    [] OTHER            -> Rows(list)

(* What it is ordered by, newest first: updatedAt, deletedAt or createdAt.     *)
Key(list, r) == IF list \in {"mine", "trash", "shared", "search"} THEN stamp[r[1]] ELSE r[2]

Before(list, a, b) ==
  \/ Key(list, a) > Key(list, b)
  \/ /\ Key(list, a) = Key(list, b)
     /\ a[1] > b[1] \/ (a[1] = b[1] /\ a[2] > b[2])

(* Prisma: rows from the cursor's place on; one that has no place, because its *)
(* deletedAt is NULL again, excludes none, and one that is not there, all.     *)
From(list, cursor) ==
  IF cursor = NoCursor THEN Rows(list)
  ELSE IF cursor \notin Table(list) THEN {}
  ELSE IF list = "trash" /\ life[cursor[1]] = "live" THEN Rows(list)
  ELSE {r \in Rows(list) : r = cursor \/ Before(list, cursor, r)}

(* OFFSET skip LIMIT take *)
Slice(list, rows, skip, take) ==
  {r \in rows : Cardinality({q \in rows : Before(list, q, r)}) \in skip..(skip + take - 1)}

Last(list, rows) == CHOOSE r \in rows : \A q \in rows \ {r} : Before(list, q, r)

-------------------------------------------------------------------------------
(* The client *)

Placed(list) == {<<r, Key(list, r)>> : r \in Rows(list)}

StartScan ==
  /\ scan.pc = "idle"
  /\ \E list \in Lists : /\ scan' = [scan EXCEPT !.pc = "read", !.list = list]
                         /\ kept' = Placed(list)
  /\ UNCHANGED <<files, changes, page, seen, twice, slipped, climbed>>

Shows(rows) == page' = rows /\ seen' = seen \cup rows /\ twice' = twice \cup (seen \cap rows)

GoesOn(more, rows) ==
  IF more THEN LET r == Last(scan.list, rows) IN
               scan' = [scan EXCEPT !.cursor = r, !.place = Key(scan.list, r)]
  ELSE scan' = [scan EXCEPT !.pc = "done"]

MutAhead(take) == Slice(scan.list, From(scan.list, scan.cursor), 0, take)

(* skip: 1 after the first page is an OFFSET, meant for the cursor's own row.  *)
Ahead(take) ==
  Slice(scan.list, From(scan.list, scan.cursor), IF scan.cursor = NoCursor THEN 0 ELSE 1, take)

CursorMoves ==
  /\ slipped' = (slipped \/ scan.cursor \notin Rows(scan.list) \cup {NoCursor})
  /\ climbed' = (climbed \/ (scan.cursor # NoCursor /\ Key(scan.list, scan.cursor) # scan.place))

MutExtraRow ==
  /\ scan.pc = "read" /\ scan.list \notin {"notifications", "search"}
  /\ LET rows == Ahead(Take + 1) IN Shows(rows) /\ GoesOn(Cardinality(rows) > Take, rows)
  /\ CursorMoves
  /\ UNCHANGED <<files, changes, kept>>

MutNextCursor ==
  /\ scan.pc = "read" /\ scan.list \notin {"notifications", "search"}
  /\ LET rows == Ahead(Take + 1)
     IN Shows(Slice(scan.list, rows, 0, Take)) /\ GoesOn(Cardinality(rows) > Take, rows)
  /\ CursorMoves
  /\ UNCHANGED <<files, changes, kept>>

(* One row more than the page is read, to see whether there are more.  (TLC    *)
(* computes what a quantifier binds once, and what LET names at each use.)     *)
ReadPage ==
  /\ scan.pc = "read" /\ scan.list \notin {"notifications", "search"}
  /\ \E rows \in {Ahead(Take + 1)} :
       \E shown \in {Slice(scan.list, rows, 0, Take)} :
         Shows(shown) /\ GoesOn(Cardinality(rows) > Take, shown)
  /\ CursorMoves
  /\ UNCHANGED <<files, changes, kept>>

(* NotificationsController goes on after every full page. *)
ReadNotifications ==
  /\ scan.pc = "read" /\ scan.list = "notifications"
  /\ LET shown == Ahead(Take)
     IN Shows(shown) /\ GoesOn(Cardinality(shown) = Take, shown)
  /\ CursorMoves
  /\ UNCHANGED <<files, changes, kept>>

(* search orders by updatedAt alone: any order of its ties will do. *)
Tops(rows, n) ==
  {S \in SUBSET rows : /\ Cardinality(S) = n \/ (Cardinality(rows) < n /\ S = rows)
                       /\ \A r \in S, q \in rows \ S : stamp[r[1]] >= stamp[q[1]]}

Tied(rows) == \E q, r \in rows : q # r /\ stamp[q[1]] = stamp[r[1]]

SearchIds ==
  /\ scan.pc = "read" /\ scan.list = "search"
  /\ LET rows == Rows("search") IN
     /\ \E above \in Tops(rows, scan.offset) :
          \E top \in {S \in Tops(rows, scan.offset + Take) : above \subseteq S} :
            /\ page' = top \ above
            /\ scan' = [scan EXCEPT !.pc = IF top = above THEN "done" ELSE "items",
                                    !.more = top # rows]
     /\ slipped' = (slipped \/ Tied(rows)) /\ climbed' = (climbed \/ Tied(rows))
  /\ UNCHANGED <<files, changes, seen, twice, kept>>

(* The rows are read by their ids, and one that is gone by then is left out. *)
SearchItems ==
  /\ scan.pc = "items"
  /\ Shows({r \in page : life[r[1]] # "gone"})
  /\ scan' = IF scan.more THEN [scan EXCEPT !.pc = "read", !.offset = @ + Take]
             ELSE [scan EXCEPT !.pc = "done"]
  /\ UNCHANGED <<files, changes, kept, slipped, climbed>>

Read == ReadPage \/ ReadNotifications \/ SearchIds \/ SearchItems

Change ==
  \/ \E f \in Files :
       \/ Create(f) \/ Update(f) \/ UpdateGeneralAccess(f)
       \/ SoftDelete(f) \/ Restore(f) \/ PermanentDelete(f)
       \/ Invite(f) \/ RemoveShare(f) \/ Star(f) \/ Unstar(f)
  \/ Post \/ AuthorDeleted

(* What a change does to the list that is being read. *)
Shifts ==
  LET before == Placed(scan.list)
      after  == Placed(scan.list)'
      offset == scan.list = "search"
  IN /\ kept' = kept \cap after
     /\ slipped' = (slipped \/ (offset /\ ~(Rows(scan.list) \subseteq Rows(scan.list)')))
     /\ climbed' = (climbed \/ (offset /\ ~(after \subseteq before)))

Next == StartScan \/ Read \/ (Change /\ Shifts)

Spec == Init /\ [][Next]_vars

(* The client asks for the next page as long as there is one. *)
FairSpec == Spec /\ WF_vars(Read)

-------------------------------------------------------------------------------

TypeOK ==
  /\ mine \subseteq Files
  /\ life \in [Files -> {"none", "live", "trashed", "gone"}]
  /\ stamp \in [Files -> Int] /\ anyone \in [Files -> BOOLEAN]
  /\ share \in [Files -> Int] /\ star \in [Files -> Int] /\ posts \subseteq Nat
  /\ \A f \in Files : /\ share[f] # Absent => f \notin mine
                      /\ life[f] \in {"none", "gone"} => share[f] = Absent /\ star[f] = Absent
  /\ changes \in 0..MaxChanges
  /\ scan.pc \in {"idle", "read", "items", "done"} /\ scan.list \in Lists \cup {"none"}
  /\ Cardinality(page) <= Take
  /\ page \subseteq (Files \X Int) \cup ({0} \X Nat)
  /\ twice \subseteq seen
  /\ slipped \in BOOLEAN /\ climbed \in BOOLEAN

(* A list read to its end has shown every row that kept its place all the      *)
(* while, unless the row a page was to go on from had left the list by then,   *)
(* or, in a search, which goes on from an offset, a row had left or two rows   *)
(* have one time (findMany with cursor and skip: 1; LIMIT and OFFSET).         *)
MissedOnlyIfSlipped ==
  scan.pc = "done" /\ ~slipped => \A k \in kept : k[1] \in seen

(* A row that kept its place is shown again only if the row a page went on     *)
(* from had moved up since it was shown, or, in a search, a row had come in    *)
(* or moved up or two rows have one time.                                      *)
RepeatedOnlyIfClimbed == ~climbed => \A k \in kept : k[1] \notin twice

(* A page of files shows only such as getAccess lets the user read when it is  *)
(* queried: a star that outlives its grant is hidden (the where of listStarred *)
(* against getAccess).  The trash is the owner's, and getAccess refuses it.    *)
ShownIsGranted ==
  [][(ReadPage \/ SearchIds) /\ scan.list \in FileLists \ {"trash"} =>
        \A r \in page' : Granted(r[1])]_vars

(* Reading ends, however many rows there are, once nothing moves any more.     *)
ScanEnds == scan.pc \in {"read", "items"} ~> scan.pc = "done"
===============================================================================
