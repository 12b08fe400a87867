----------------------------- MODULE BackupsList -----------------------------
(* The list of archives, page by page: "backups list" with its cursor        *)
(* (cmd/tes3mp-easy-ops/backups.go) and the pages of the panel that follow    *)
(* it (panel/public.go handleBackups, panel/admin.go statePageData), while    *)
(* backups and imports add archives and the retention removes them.           *)
(*                                                                           *)
(* Time is counted in half seconds; the stamp in a name is a whole second.    *)
EXTENDS Integers, FiniteSets, Sequences, SequencesExt

CONSTANTS MaxNow, MaxArchives, MaxChanges, Limit

VARIABLES now,
          archives,   \* the directory: [kind, stamp, coll, mtime]
          pc,         \* of the reader: idle, page
          before,     \* the cursor of its next page: an archive it was shown
          shown,      \* how often each archive was shown on its pages
          always,     \* the archives that were there all the time it paged
          astray,     \* a removed cursor's stamp did not place it
          changes     \* to the directory while it pages, at most MaxChanges

vars == <<now, archives, pc, before, shown, always, astray, changes>>

Kinds == {"auto", "manual"}
First == [kind |-> "none", stamp |-> 0, coll |-> 0, mtime |-> 0]

\* The order of the names: the kind in the prefix, the stamp, the suffix;
\* "-01" comes before no suffix at all.
Rank(a) == <<IF a.kind = "auto" THEN 0 ELSE 1, a.stamp,
             IF a.coll = 0 THEN 9 ELSE a.coll>>

NameLess(a, b) ==
  LET r == Rank(a) s == Rank(b) IN
  \E i \in 1..3 : r[i] < s[i] /\ \A j \in 1..(i - 1) : r[j] = s[j]

SameName(a, b) == Rank(a) = Rank(b)

\* listBackups: the newest first, names descending among equals.
Newer(a, b) ==
  a.mtime > b.mtime \/ (a.mtime = b.mtime /\ NameLess(b, a))

InOrder(entries) ==
  [i \in 1..Cardinality(entries) |->
     CHOOSE a \in entries : Cardinality({b \in entries : Newer(b, a)}) = i - 1]

\* Mutant of applyBackupsCursor: the page starts with the cursor itself.
applyBackupsCursorInclusive(entries, cursor) ==
  IF cursor = First THEN entries ELSE {a \in entries : ~Newer(a, cursor)}

\* What follows the cursor in the sorted list.  A cursor that is there places
\* itself; of one that is gone only the time in its name is known.
applyBackupsCursor(entries, cursor) ==
  IF cursor = First THEN entries
  ELSE IF \E e \in entries : SameName(e, cursor)
  THEN {a \in entries : \E e \in entries : SameName(e, cursor) /\ Newer(e, a)}
  ELSE {a \in entries : \/ a.mtime < 2 * cursor.stamp
                        \/ a.mtime = 2 * cursor.stamp /\ NameLess(a, cursor)}

listBackups(cursor) ==
  LET list == InOrder(applyBackupsCursor(archives, cursor))
  IN  SubSeq(list, 1, IF Len(list) > Limit THEN Limit ELSE Len(list))

Init ==
  /\ now = 0 /\ archives = {} /\ pc = "idle" /\ before = First
  /\ shown = <<>> /\ always = {} /\ astray = FALSE
  /\ changes = 0

(***************************************************************************)
(* A reader of the list.                                                   *)
(***************************************************************************)
\* The cursor is gone and its name does not say where it stood in the order:
\* its time is not that of the file, or another archive has the same second,
\* or the name itself.
Unplaced(cursor) ==
  /\ cursor # First
  /\ cursor \notin archives
  /\ \/ cursor.mtime \div 2 # cursor.stamp
     \/ \E a \in archives : a.mtime \div 2 = cursor.stamp \/ SameName(a, cursor)

Show(cursor) ==
  LET page == listBackups(cursor) IN
  /\ shown' = shown \o page
  /\ astray' = (astray \/ Unplaced(cursor))
  /\ IF Len(page) = Limit
     THEN pc' = "page" /\ before' = Last(page)
     ELSE pc' = "end" /\ before' = First

\* GET /backups, /admin/backups: the newest page.
handleBackups ==
  /\ pc = "idle" /\ always' = archives /\ Show(First)
  /\ UNCHANGED <<now, archives, changes>>

\* The link to the older ones: next_before is the last name of this page.
backupNextURL ==
  /\ pc = "page" /\ Show(before)
  /\ UNCHANGED <<now, archives, always, changes>>

Leave ==
  /\ pc \in {"page", "end"} /\ pc' = "idle" /\ before' = First
  /\ shown' = <<>> /\ always' = {} /\ astray' = FALSE
  /\ changes' = 0 /\ UNCHANGED <<now, archives>>

(***************************************************************************)
(* The directory.                                                          *)
(***************************************************************************)
reader == <<pc, before, shown, always, astray>>

NextArchiveName(kind, stamp) ==
  {c \in 0..1 : /\ ~\E a \in archives : a.kind = kind /\ a.stamp = stamp /\ a.coll = c
                /\ \A b \in 0..(c - 1) :
                     \E a \in archives : a.kind = kind /\ a.stamp = stamp /\ a.coll = b}

Changes ==
  IF pc = "idle" THEN UNCHANGED changes
  ELSE changes < MaxChanges /\ changes' = changes + 1

\* The stamp is taken when the command starts, the file ends now or later.
Create ==
  /\ Changes /\ Cardinality(archives) < MaxArchives
  /\ \E kind \in Kinds :
       \E c \in NextArchiveName(kind, now \div 2) :
         archives' = archives \cup
           {[kind |-> kind, stamp |-> now \div 2, coll |-> c, mtime |-> now]}
  /\ UNCHANGED <<now, reader>>

\* An upload keeps its own time, and with --name any stamp.
Import ==
  /\ Changes /\ Cardinality(archives) < MaxArchives
  /\ \E stamp \in 0..(now \div 2), m \in 0..now :
       \E c \in NextArchiveName("manual", stamp) :
         archives' = archives \cup
           {[kind |-> "manual", stamp |-> stamp, coll |-> c, mtime |-> m]}
  /\ UNCHANGED <<now, reader>>

Prune ==
  /\ Changes
  /\ \E a \in archives :
       archives' = archives \ {a} /\ always' = always \ {a}
  /\ UNCHANGED <<now, pc, before, shown, astray>>

Tick == now < MaxNow /\ now' = now + 1 /\ UNCHANGED <<archives, reader, changes>>

Next ==
  \/ handleBackups \/ backupNextURL \/ Leave
  \/ Create \/ Import \/ Prune \/ Tick

Spec == Init /\ [][Next]_vars

(***************************************************************************)
(* Properties.                                                             *)
(***************************************************************************)
Times(a) == Cardinality({i \in DOMAIN shown : shown[i] = a})

(* Who follows the links to the last page has seen every archive that was    *)
(* there all the time exactly once, whatever was added or pruned meanwhile;  *)
(* only a cursor that was pruned and that its name does not place leads      *)
(* astray (applyBackupsCursor, listBackups, backupNextURL).                  *)
PagesComplete ==
  /\ (pc = "end" /\ ~astray) => \A a \in always : Times(a) = 1
  /\ ~astray => \A a \in always : Times(a) <= 1

(* The comment at backups.go:853: "the UTC timestamp embedded in its name is *)
(* used as a stable fallback" when retention removed the cursor.  Read as    *)
(* promised: the pages stay complete then too.                               *)
FallbackIsStable ==
  pc = "end" => \A a \in always : Times(a) = 1
=============================================================================
