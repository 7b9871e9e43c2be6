-------------------------- MODULE BackupEngineProofs --------------------------
(***************************************************************************)
(* Theorems about BackupEngine, for every account, mailbox, filter, day    *)
(* and bound.                                                              *)
(***************************************************************************)
EXTENDS BackupEngine, TLAPS

-----------------------------------------------------------------------------
(* What the store's file operations (MailStore) return, for any messages,  *)
(* mailboxes and metadata.                                                  *)

\* A tree holds exactly the files an index says, and an index says of each
\* message at most one place.
Agrees(t, i) ==
    \A m \in Msg, b \in Box :
        /\ t[Eml(m, b)] = Raw <=> i[m] # None /\ i[m].box = b
        /\ t[Sidecar(m, b)] # None <=> i[m] # None /\ i[m].box = b

\* A tree in which both files of a message are together, in one place.
Consistent(t) ==
    \A m \in Msg, b \in Box :
        /\ t[Eml(m, b)] = Raw <=> t[Sidecar(m, b)] # None
        /\ \A c \in Box : t[Sidecar(m, b)] # None /\ t[Sidecar(m, c)] # None => b = c

-----------------------------------------------------------------------------
(* Single files.                                                            *)

\* Writing or removing one raw file of a tree (write_file, remove_file) gives
\* a tree.
LEMMA EmlInTree ==
    ASSUME NEW t \in Tree, NEW m \in Msg, NEW b \in Box, NEW c \in {Raw, None}
    PROVE  [t EXCEPT ![Eml(m, b)] = c] \in Tree
  BY NoneAssumption DEF Tree, File, Eml, Sidecar

\* The same for one sidecar.
LEMMA SidecarInTree ==
    ASSUME NEW t \in Tree, NEW m \in Msg, NEW b \in Box,
           NEW c \in Meta \cup {None}
    PROVE  [t EXCEPT ![Sidecar(m, b)] = c] \in Tree
  BY NoneAssumption DEF Tree, File, Eml, Sidecar

\* A tree's files have the contents their names call for.
LEMMA TreeContents ==
    ASSUME NEW t \in Tree, NEW m \in Msg, NEW b \in Box
    PROVE  /\ t[Eml(m, b)] \in {Raw, None}
           /\ t[Sidecar(m, b)] \in Meta \cup {None}
  BY DEF Tree

\* The two files of a message, in any mailbox, are files.
LEMMA FilesAreFiles ==
    ASSUME NEW m \in Msg, NEW b \in Box
    PROVE  Eml(m, b) \in File /\ Sidecar(m, b) \in File
  BY DEF File, Eml, Sidecar

-----------------------------------------------------------------------------
(* Types of the steps of an event.                                          *)

\* write_file and remove_file, and a write_file that stopped half-way.
LEMMA WriteEmlType ==
    ASSUME NEW s \in Stage, NEW m \in Msg, NEW b \in Box
    PROVE  /\ WriteFile(s, Eml(m, b), Raw) \in Stage
           /\ RemoveFile(s, Eml(m, b)) \in Stage
  <1>1. /\ [s.wt EXCEPT ![Eml(m, b)] = Raw] \in Tree
        /\ [s.wt EXCEPT ![Eml(m, b)] = None] \in Tree
    BY EmlInTree DEF Stage
  <1>2. Eml(m, b) \in File
    BY FilesAreFiles
  <1> QED
    BY <1>1, <1>2 DEF WriteFile, RemoveFile, Push, Stage, Edits

\* The same for a sidecar.
LEMMA WriteSidecarType ==
    ASSUME NEW s \in Stage, NEW m \in Msg, NEW b \in Box, NEW x \in Meta
    PROVE  /\ WriteFile(s, Sidecar(m, b), x) \in Stage
           /\ WriteFileTorn(s, Sidecar(m, b)) \in Stage
           /\ RemoveFile(s, Sidecar(m, b)) \in Stage
  <1>1. /\ [s.wt EXCEPT ![Sidecar(m, b)] = x] \in Tree
        /\ [s.wt EXCEPT ![Sidecar(m, b)] = None] \in Tree
    BY SidecarInTree DEF Stage
  <1>2. Sidecar(m, b) \in File
    BY FilesAreFiles
  <1> QED
    BY <1>1, <1>2 DEF WriteFile, WriteFileTorn, RemoveFile, Push, Stage, Edits

\* The first rename of a move (apply_message_updated, the .eml).
LEMMA EmlMovedType ==
    ASSUME NEW s \in Stage, NEW m \in Msg, NEW e \in Entry, NEW x \in Meta
    PROVE  EmlMoved(s, m, e, x) \in Stage
  <1> DEFINE t == [s.wt EXCEPT ![Eml(m, x.box)] = s.wt[Eml(m, e.box)]]
  <1>1. e.box \in Box /\ x.box \in Box
    BY MetaAssumption DEF Entry
  <1>2. s.wt \in Tree /\ s.wt[Eml(m, e.box)] \in {Raw, None}
    BY <1>1, TreeContents DEF Stage
  <1>3. t \in Tree
    BY <1>1, <1>2, EmlInTree
  <1>4. [t EXCEPT ![Eml(m, e.box)] = None] \in Tree
    BY <1>1, <1>3, EmlInTree
  <1>5. [s.wt EXCEPT ![Eml(m, x.box)] = s.wt[Eml(m, e.box)],
                     ![Eml(m, e.box)] = None] \in Tree
    BY <1>4
  <1> QED
    BY <1>5 DEF EmlMoved, Rename, Stage

\* The second rename of a move (the .meta).
LEMMA SidecarMovedType ==
    ASSUME NEW s \in Stage, NEW m \in Msg, NEW e \in Entry, NEW x \in Meta
    PROVE  SidecarMoved(s, m, e, x) \in Stage
  <1> DEFINE u == EmlMoved(s, m, e, x)
             t == [u.wt EXCEPT ![Sidecar(m, x.box)] = u.wt[Sidecar(m, e.box)]]
  <1>1. e.box \in Box /\ x.box \in Box
    BY MetaAssumption DEF Entry
  <1>2. u \in Stage
    BY EmlMovedType
  <1>3. u.wt \in Tree /\ u.wt[Sidecar(m, e.box)] \in Meta \cup {None}
    BY <1>1, <1>2, TreeContents DEF Stage
  <1> HIDE DEF u
  <1>4. t \in Tree
    BY <1>1, <1>3, SidecarInTree
  <1>5. [t EXCEPT ![Sidecar(m, e.box)] = None] \in Tree
    BY <1>1, <1>4, SidecarInTree
  <1>6. Rename(u.wt, Sidecar(m, e.box), Sidecar(m, x.box)) \in Tree
    BY <1>5 DEF Rename
  <1>7. [u EXCEPT !.wt = Rename(u.wt, Sidecar(m, e.box), Sidecar(m, x.box))] \in Stage
    BY <1>2, <1>6 DEF Stage
  <1> QED
    BY <1>2, <1>7 DEF SidecarMoved, u

\* The edits that a move queues.
LEMMA MovePushedType ==
    ASSUME NEW s \in Stage, NEW m \in Msg, NEW e \in Entry, NEW x \in Meta
    PROVE  MovePushed(s, m, e, x) \in Stage
  <1> DEFINE t == SidecarMoved(s, m, e, x)
  <1>1. t \in Stage
    BY SidecarMovedType
  <1> HIDE DEF t
  <1>2. [t.ed EXCEPT ![Eml(m, e.box)] = "remove",
                     ![Sidecar(m, e.box)] = "remove",
                     ![Eml(m, x.box)] = "upsert",
                     ![Sidecar(m, x.box)] = "upsert"] \in Edits
    BY <1>1 DEF Stage, Edits
  <1>3. [t EXCEPT !.ed = [t.ed EXCEPT ![Eml(m, e.box)] = "remove",
                                      ![Sidecar(m, e.box)] = "remove",
                                      ![Eml(m, x.box)] = "upsert",
                                      ![Sidecar(m, x.box)] = "upsert"]] \in Stage
    BY <1>1, <1>2 DEF Stage
  <1> QED
    BY <1>1, <1>3 DEF MovePushed, t

\* apply_message_updated, finished or stopped half-way, leaves a worktree and
\* a queue of edits, and an entry of the index.
LEMMA UpdateType ==
    ASSUME NEW s \in Stage, NEW m \in Msg, NEW e \in Entry \cup {None}, NEW x \in Meta
    PROVE  /\ UpdateDone(s, m, e, x) \in Stage
           /\ UpdateTorn(s, m, e, x) \subseteq Stage
           /\ UpdateEntry(s, m, e, x) \in Entry \cup {None}
  <1>1. x.box \in Box
    BY MetaAssumption
  <1>2. CASE UpdateSkipped(s, m, e, x)
    BY <1>2 DEF UpdateDone, UpdateTorn, UpdateEntry
  <1>3. CASE ~UpdateSkipped(s, m, e, x)
    <2>1. e \in Entry
      BY <1>3 DEF UpdateSkipped
    <2>2. /\ EmlMoved(s, m, e, x) \in Stage
          /\ SidecarMoved(s, m, e, x) \in Stage
          /\ MovePushed(s, m, e, x) \in Stage
      BY <2>1, EmlMovedType, SidecarMovedType, MovePushedType
    <2>3. /\ WriteFile(MovePushed(s, m, e, x), Sidecar(m, x.box), x) \in Stage
          /\ WriteFileTorn(MovePushed(s, m, e, x), Sidecar(m, x.box)) \in Stage
          /\ WriteFileTorn(EmlMoved(s, m, e, x), Sidecar(m, x.box)) \in Stage
      BY <1>1, <2>2, WriteSidecarType
    <2>4. UpdateDone(s, m, e, x) \in Stage
      BY <1>3, <2>2, <2>3 DEF UpdateDone
    <2>5. UpdateTorn(s, m, e, x) \subseteq Stage
      BY <1>3, <2>2, <2>3, Zenon DEF UpdateTorn
    <2>6. UpdateEntry(s, m, e, x) \in Entry
      BY <1>1, <1>3 DEF UpdateEntry, Entry
    <2> QED
      BY <2>4, <2>5, <2>6
  <1> QED
    BY <1>2, <1>3

\* The same for apply_message_added.
LEMMA AddType ==
    ASSUME NEW s \in Stage, NEW m \in Msg, NEW e \in Entry \cup {None}, NEW x \in Meta
    PROVE  /\ AddDone(s, m, e, x) \in Stage
           /\ AddTorn(s, m, e, x) \subseteq Stage
           /\ AddEntry(s, m, e, x) \in Entry \cup {None}
  <1>1. x.box \in Box
    BY MetaAssumption
  <1>2. CASE e = None
    <2>1. EmlAdded(s, m, x) \in Stage
      BY <1>1, WriteEmlType DEF EmlAdded
    <2>2. /\ WriteFile(EmlAdded(s, m, x), Sidecar(m, x.box), x) \in Stage
          /\ WriteFileTorn(EmlAdded(s, m, x), Sidecar(m, x.box)) \in Stage
      BY <1>1, <2>1, WriteSidecarType
    <2>3. AddTorn(s, m, e, x) \subseteq Stage
      BY <1>2, <2>1, <2>2, Zenon DEF AddTorn
    <2> QED
      BY <1>1, <1>2, <2>2, <2>3 DEF AddDone, AddEntry, Entry
  <1>3. CASE e # None
    <2>1. e \in Entry /\ e.box \in Box
      BY <1>3 DEF Entry
    <2>2. EmlRestored(s, m, e) \in Stage
      BY <2>1, WriteEmlType DEF EmlRestored
    <2>3. /\ UpdateDone(EmlRestored(s, m, e), m, e, x) \in Stage
          /\ UpdateTorn(EmlRestored(s, m, e), m, e, x) \subseteq Stage
          /\ UpdateEntry(EmlRestored(s, m, e), m, e, x) \in Entry \cup {None}
      BY <2>2, UpdateType
    <2> QED
      BY <1>3, <2>3 DEF AddDone, AddTorn, AddEntry
  <1> QED
    BY <1>2, <1>3

\* The same for apply_message_deleted.
LEMMA DeleteType ==
    ASSUME NEW s \in Stage, NEW m \in Msg, NEW e \in Entry
    PROVE  /\ DeleteDone(s, m, e) \in Stage
           /\ DeleteTorn(s, m, e) \subseteq Stage
  <1>1. e.box \in Box
    BY DEF Entry
  <1>2. RemoveFile(s, Eml(m, e.box)) \in Stage
    BY <1>1, WriteEmlType
  <1>3. ASSUME NEW t \in Stage
        PROVE  RemoveFile(t, Sidecar(m, e.box)) \in Stage
    <2>1. [t.wt EXCEPT ![Sidecar(m, e.box)] = None] \in Tree
      BY <1>1, SidecarInTree DEF Stage
    <2> QED
      BY <1>1, <2>1, FilesAreFiles DEF RemoveFile, Push, Stage, Edits
  <1> QED
    BY <1>2, <1>3 DEF DeleteDone, DeleteTorn

-----------------------------------------------------------------------------
(* The git layer.                                                           *)

\* Edits taken over by the git store are still edits (take_path_edits).
LEMMA OverlayType ==
    ASSUME NEW p \in Edits, NEW e \in Edits
    PROVE  Overlay(p, e) \in Edits
  BY DEF Overlay, Edits

\* What build_tree makes of a tree is a tree.
LEMMA BuildTreeType ==
    ASSUME NEW t \in Tree, NEW p \in Edits, NEW w \in Tree
    PROVE  BuildTree(t, p, w) \in Tree
  BY FilesAreFiles DEF BuildTree, Tree

\* Reading a tree back gives an index.
LEMMA RebuiltType ==
    ASSUME NEW t \in Tree
    PROVE  Rebuilt(t) \subseteq Index
  <1> DEFINE held(m) == {b \in Box : t[Sidecar(m, b)] # None}
  <1>1. SUFFICES ASSUME NEW last \in [Msg -> Box],
                        \A m \in Msg : held(m) = {} \/ last[m] \in held(m),
                        NEW m \in Msg, held(m) # {}
                 PROVE  [meta |-> t[Sidecar(m, last[m])], box |-> last[m]] \in Entry
    BY DEF Rebuilt, Index
  <1>2. last[m] \in Box /\ t[Sidecar(m, last[m])] # None
    BY <1>1
  <1> QED
    BY <1>2, TreeContents DEF Entry

-----------------------------------------------------------------------------
(* What an event does to the next commit.  A stage s follows an index when  *)
(* the commit that s leads to, from the tree t, can be built and agrees     *)
(* with that index.                                                         *)

Follows(t, s, i) ==
    Agrees(BuildTree(t, s.ed, s.wt), i) /\ Buildable(s.ed, s.wt)

\* Different files have different names: no two messages or mailboxes share one.
LEMMA FilesDistinct ==
    ASSUME NEW m \in Msg, NEW b \in Box, NEW n \in Msg, NEW c \in Box
    PROVE  /\ Eml(m, b) # Sidecar(n, c)
           /\ Eml(m, b) = Eml(n, c) <=> m = n /\ b = c
           /\ Sidecar(m, b) = Sidecar(n, c) <=> m = n /\ b = c
  BY DEF Eml, Sidecar

\* Nothing queued: the next commit is the one there is.
LEMMA NoEditsKeep ==
    ASSUME NEW t \in Tree, NEW p \in Edits, NEW w
    PROVE  /\ BuildTree(t, NoEdits, w) = t
           /\ Buildable(NoEdits, w)
           /\ Overlay(NoEdits, p) = p /\ Overlay(p, NoEdits) = p
  BY DEF BuildTree, Buildable, Overlay, NoEdits, Tree, Edits

\* A file written or removed is written or removed in the next commit.
LEMMA WriteFollows ==
    ASSUME NEW t \in Tree, NEW s \in Stage, NEW f \in File, NEW c, c # None,
           Buildable(s.ed, s.wt)
    PROVE  LET u == WriteFile(s, f, c) IN
           /\ \A g \in File : BuildTree(t, u.ed, u.wt)[g] =
                                 IF g = f THEN c ELSE BuildTree(t, s.ed, s.wt)[g]
           /\ Buildable(u.ed, u.wt)
  BY DEF WriteFile, Push, Stage, Edits, Tree, BuildTree, Buildable

\* The same for remove_file.
LEMMA RemoveFollows ==
    ASSUME NEW t \in Tree, NEW s \in Stage, NEW f \in File,
           Buildable(s.ed, s.wt)
    PROVE  LET u == RemoveFile(s, f) IN
           /\ \A g \in File : BuildTree(t, u.ed, u.wt)[g] =
                                 IF g = f THEN None ELSE BuildTree(t, s.ed, s.wt)[g]
           /\ Buildable(u.ed, u.wt)
  BY DEF RemoveFile, Push, Stage, Edits, Tree, BuildTree, Buildable

\* A tree agrees with an index that files one message, in the place where the
\* tree has its two files, and is otherwise as it was.
LEMMA FilingAgrees ==
    ASSUME NEW t, NEW u, NEW i \in Index, Agrees(t, i), NEW m \in Msg, NEW e \in Entry,
           \A n \in Msg \ {m}, b \in Box : /\ u[Eml(n, b)] = t[Eml(n, b)]
                                           /\ u[Sidecar(n, b)] = t[Sidecar(n, b)],
           \A b \in Box : /\ u[Eml(m, b)] = Raw <=> e.box = b
                          /\ u[Sidecar(m, b)] # None <=> e.box = b
    PROVE  Agrees(u, [i EXCEPT ![m] = e])
  <1>1. e # None
    BY EntryAssumption
  <1> QED
    BY <1>1 DEF Agrees, Index

\* apply_message_deleted keeps the next commit in step with the index.
LEMMA DeleteFollows ==
    ASSUME NEW t \in Tree, NEW s \in Stage, NEW i \in Index, Follows(t, s, i),
           NEW m \in Msg, i[m] # None
    PROVE  Follows(t, DeleteDone(s, m, i[m]), [i EXCEPT ![m] = None])
  <1> DEFINE e == i[m]
             s1 == RemoveFile(s, Eml(m, e.box))
             s2 == RemoveFile(s1, Sidecar(m, e.box))
             T(x) == BuildTree(t, x.ed, x.wt)
  <1>1. e \in Entry /\ e.box \in Box
    BY DEF Index, Entry
  <1>2. s1 \in Stage /\ Eml(m, e.box) \in File /\ Sidecar(m, e.box) \in File
    BY <1>1, WriteEmlType, FilesAreFiles
  <1>3. /\ \A g \in File : T(s1)[g] = IF g = Eml(m, e.box) THEN None ELSE T(s)[g]
        /\ Buildable(s1.ed, s1.wt)
    BY <1>2, RemoveFollows DEF Follows
  <1>4. /\ \A g \in File : T(s2)[g] = IF g = Sidecar(m, e.box) THEN None ELSE T(s1)[g]
        /\ Buildable(s2.ed, s2.wt)
    BY <1>2, <1>3, RemoveFollows
  <1> HIDE DEF e, s1, s2, T
  <1>5. \A n \in Msg, b \in Box :
           /\ T(s2)[Eml(n, b)] = IF n = m /\ b = e.box THEN None ELSE T(s)[Eml(n, b)]
           /\ T(s2)[Sidecar(n, b)] =
                 IF n = m /\ b = e.box THEN None ELSE T(s)[Sidecar(n, b)]
    BY <1>1, <1>3, <1>4, FilesAreFiles, FilesDistinct
  <1>6. Agrees(T(s), i)
    BY DEF Follows, T
  <1>7. \A b \in Box : T(s2)[Eml(m, b)] # Raw /\ T(s2)[Sidecar(m, b)] = None
    BY <1>5, <1>6, NoneAssumption DEF Agrees, e
  <1>8. \A n \in Msg \ {m}, b \in Box : /\ T(s2)[Eml(n, b)] = T(s)[Eml(n, b)]
                                        /\ T(s2)[Sidecar(n, b)] = T(s)[Sidecar(n, b)]
    BY <1>5
  <1>9. Agrees(T(s2), [i EXCEPT ![m] = None])
    BY <1>6, <1>7, <1>8 DEF Agrees, Index
  <1> QED
    BY <1>4, <1>9 DEF Follows, DeleteDone, T, s1, s2, e

\* The files of a message that moves: the old place is queued for removal, the
\* new one for writing, where the .eml is by now; no other file is touched.
LEMMA MoveEffect ==
    ASSUME NEW s \in Stage, NEW m \in Msg, NEW e \in Entry, NEW x \in Meta,
           MoveNeeded(e, x), ~UpdateSkipped(s, m, e, x)
    PROVE  LET u == MovePushed(s, m, e, x)
               touched == {Eml(m, e.box), Sidecar(m, e.box),
                           Eml(m, x.box), Sidecar(m, x.box)} IN
           /\ u.wt[Eml(m, x.box)] = Raw
           /\ u.ed[Eml(m, e.box)] = "remove" /\ u.ed[Sidecar(m, e.box)] = "remove"
           /\ u.ed[Eml(m, x.box)] = "upsert" /\ u.ed[Sidecar(m, x.box)] = "upsert"
           /\ \A f \in File \ touched : u.wt[f] = s.wt[f] /\ u.ed[f] = s.ed[f]
  <1> DEFINE a == EmlMoved(s, m, e, x)
             b == SidecarMoved(s, m, e, x)
             u == MovePushed(s, m, e, x)
             oe == Eml(m, e.box)
             os == Sidecar(m, e.box)
             ne == Eml(m, x.box)
             ns == Sidecar(m, x.box)
             touched == {oe, os, ne, ns}
  <1>1. e.box \in Box /\ x.box \in Box /\ x.box # e.box
    BY MetaAssumption DEF Entry, MoveNeeded
  <1>2. /\ oe \in File /\ os \in File /\ ne \in File /\ ns \in File
        /\ oe # os /\ oe # ne /\ oe # ns /\ os # ne /\ os # ns /\ ne # ns
    <2>1. /\ oe \in File /\ os \in File /\ ne \in File /\ ns \in File
      BY <1>1, FilesAreFiles
    <2>2. oe # os /\ oe # ns /\ ne # os /\ ne # ns
      BY <1>1, FilesDistinct
    <2>3. oe # ne /\ os # ns
      BY <1>1, FilesDistinct
    <2> QED
      BY <2>1, <2>2, <2>3
  <1>3. s.wt \in Tree /\ s.ed \in Edits /\ s.wt[oe] \in {Raw, None} /\ s.wt[ne] \in {Raw, None}
    BY <1>1, TreeContents DEF Stage
  <1>4. s.wt[oe] = Raw \/ (s.wt[oe] = None /\ s.wt[ne] = Raw)
    BY <1>3 DEF UpdateSkipped
  <1>5. /\ a.ed = s.ed /\ a.wt[ne] = Raw /\ a.wt \in Tree
        /\ \A f \in File \ touched : a.wt[f] = s.wt[f]
    <2>1. a \in Stage
      BY EmlMovedType
    <2>2. CASE s.wt[oe] = None
      BY <1>3, <1>4, <2>2 DEF EmlMoved
    <2>3. CASE s.wt[oe] = Raw
      <3>1. a = [s EXCEPT !.wt = Rename(s.wt, oe, ne)]
        BY <2>3, NoneAssumption DEF EmlMoved
      <3>2. a.wt = Rename(s.wt, oe, ne) /\ a.ed = s.ed
        BY <3>1 DEF Stage
      <3> HIDE DEF oe, ne, os, ns, a
      <3>3. a.wt[ne] = Raw /\ \A f \in File \ touched : a.wt[f] = s.wt[f]
        BY <1>2, <1>3, <2>3, <3>2 DEF Rename, Tree
      <3> QED
        BY <2>1, <3>2, <3>3 DEF Stage
    <2> QED
      BY <1>4, <2>2, <2>3
  <1>6. /\ b.ed = s.ed /\ b.wt[ne] = Raw /\ b \in Stage
        /\ \A f \in File \ touched : b.wt[f] = s.wt[f]
    <2>1. b \in Stage
      BY SidecarMovedType
    <2>2. b = a \/ b = [a EXCEPT !.wt = Rename(a.wt, os, ns)]
      BY DEF SidecarMoved
    <2>3. a \in Stage
      BY EmlMovedType
    <2> HIDE DEF oe, ne, os, ns, a, b
    <2>4. CASE b = [a EXCEPT !.wt = Rename(a.wt, os, ns)]
      <3>1. b.wt = Rename(a.wt, os, ns) /\ b.ed = a.ed
        BY <2>3, <2>4 DEF Stage
      <3> QED
        BY <1>2, <1>5, <2>1, <3>1 DEF Rename, Tree
    <2> QED
      BY <1>5, <2>1, <2>2, <2>4
  <1>7. u = [b EXCEPT !.ed = [b.ed EXCEPT ![oe] = "remove", ![os] = "remove",
                                          ![ne] = "upsert", ![ns] = "upsert"]]
    BY DEF MovePushed
  <1> HIDE DEF oe, ne, os, ns, a, b, u
  <1>8. /\ u.wt = b.wt
        /\ u.ed = [b.ed EXCEPT ![oe] = "remove", ![os] = "remove",
                               ![ne] = "upsert", ![ns] = "upsert"]
    BY <1>6, <1>7 DEF Stage
  <1>9. /\ u.ed[oe] = "remove" /\ u.ed[os] = "remove"
        /\ u.ed[ne] = "upsert" /\ u.ed[ns] = "upsert"
        /\ \A f \in File \ touched : u.ed[f] = s.ed[f]
    BY <1>2, <1>3, <1>6, <1>8 DEF Edits
  <1> QED
    BY <1>6, <1>8, <1>9 DEF oe, ne, os, ns, u

\* apply_message_updated keeps the next commit in step with the index.
LEMMA UpdateFollows ==
    ASSUME NEW t \in Tree, NEW s \in Stage, NEW i \in Index, Follows(t, s, i),
           NEW m \in Msg, NEW x \in Meta
    PROVE  Follows(t, UpdateDone(s, m, i[m], x),
                   [i EXCEPT ![m] = UpdateEntry(s, m, i[m], x)])
  <1> DEFINE e == i[m]
             v == UpdateDone(s, m, e, x)
             y == [meta |-> x, box |-> x.box]
             T(z) == BuildTree(t, z.ed, z.wt)
  <1>1. CASE UpdateSkipped(s, m, e, x)
    BY <1>1 DEF UpdateDone, UpdateEntry, Index
  <1>2. CASE ~UpdateSkipped(s, m, e, x)
    <2>1. e \in Entry /\ e.box \in Box /\ x.box \in Box /\ y \in Entry /\ y.box = x.box
      BY <1>2, MetaAssumption DEF UpdateSkipped, Index, Entry
    <2>2. UpdateEntry(s, m, e, x) = y
      BY <1>2 DEF UpdateEntry
    <2>3. SUFFICES Follows(t, v, [i EXCEPT ![m] = y])
      BY <2>2
    <2>4. Agrees(T(s), i) /\ Buildable(s.ed, s.wt)
      BY DEF Follows
    <2>5. x # None /\ Raw # None /\ s.wt \in Tree /\ s.ed \in Edits
      BY NoneAssumption DEF Stage
    <2>6. \A b \in Box : /\ T(s)[Eml(m, b)] = Raw <=> e.box = b
                         /\ T(s)[Sidecar(m, b)] # None <=> e.box = b
      <3> HIDE DEF T
      <3>1. i[m] # None
        BY <1>2 DEF UpdateSkipped
      <3> QED
        BY <2>4, <3>1 DEF Agrees
    <2>7. ASSUME Buildable(v.ed, v.wt),
                 \A n \in Msg \ {m}, b \in Box :
                    /\ T(v)[Eml(n, b)] = T(s)[Eml(n, b)]
                    /\ T(v)[Sidecar(n, b)] = T(s)[Sidecar(n, b)],
                 \A b \in Box : /\ T(v)[Eml(m, b)] = Raw <=> x.box = b
                                /\ T(v)[Sidecar(m, b)] # None <=> x.box = b
          PROVE  Follows(t, v, [i EXCEPT ![m] = y])
      <3> HIDE DEF T, v, y
      <3>1. Agrees(T(v), [i EXCEPT ![m] = y])
        BY <2>1, <2>4, <2>7, FilingAgrees
      <3> QED
        BY <2>7, <3>1 DEF Follows, T
    <2>8. CASE ~MoveNeeded(e, x)
      <3>1. x.box = e.box
        BY <2>8 DEF MoveNeeded
      <3>2. MovePushed(s, m, e, x) = s
        BY <2>8 DEF MovePushed, SidecarMoved, EmlMoved
      <3>3. CASE s.wt[Sidecar(m, x.box)] = x
        <4>1. v = s
          BY <1>2, <3>2, <3>3 DEF UpdateDone
        <4>2. \A b \in Box : /\ T(s)[Eml(m, b)] = Raw <=> x.box = b
                             /\ T(s)[Sidecar(m, b)] # None <=> x.box = b
          BY <2>6, <3>1
        <4> HIDE DEF T, v
        <4> QED
          BY <2>4, <2>7, <4>1, <4>2
      <3>4. CASE s.wt[Sidecar(m, x.box)] # x
        <4>1. v = WriteFile(s, Sidecar(m, x.box), x)
          BY <1>2, <3>2, <3>4 DEF UpdateDone
        <4>2. /\ \A g \in File : T(v)[g] = IF g = Sidecar(m, x.box) THEN x ELSE T(s)[g]
              /\ Buildable(v.ed, v.wt)
          BY <2>1, <2>4, <2>5, <4>1, FilesAreFiles, WriteFollows
        <4> HIDE DEF T, v
        <4>3. \A n \in Msg, b \in Box :
                 /\ T(v)[Eml(n, b)] = T(s)[Eml(n, b)]
                 /\ T(v)[Sidecar(n, b)] =
                       IF n = m /\ b = x.box THEN x ELSE T(s)[Sidecar(n, b)]
          BY <2>1, <4>2, FilesAreFiles, FilesDistinct
        <4>4. \A b \in Box : /\ T(v)[Eml(m, b)] = Raw <=> x.box = b
                             /\ T(v)[Sidecar(m, b)] # None <=> x.box = b
          BY <2>1, <2>5, <2>6, <3>1, <4>3
        <4> QED
          BY <2>7, <4>2, <4>3, <4>4
      <3> QED
        BY <3>3, <3>4
    <2>9. CASE MoveNeeded(e, x)
      <3> DEFINE u == MovePushed(s, m, e, x)
                 oe == Eml(m, e.box)
                 os == Sidecar(m, e.box)
                 ne == Eml(m, x.box)
                 ns == Sidecar(m, x.box)
      <3>1. /\ u.wt[ne] = Raw
            /\ u.ed[oe] = "remove" /\ u.ed[os] = "remove"
            /\ u.ed[ne] = "upsert" /\ u.ed[ns] = "upsert"
            /\ \A f \in File \ {oe, os, ne, ns} : u.wt[f] = s.wt[f] /\ u.ed[f] = s.ed[f]
        BY <1>2, <2>1, <2>9, MoveEffect
      <3>2. x.box # e.box /\ u \in Stage
        BY <2>1, <2>9, MovePushedType DEF MoveNeeded
      <3>3. {oe, os, ne, ns} \subseteq File /\ oe # os /\ oe # ne /\ oe # ns
            /\ os # ne /\ os # ns /\ ne # ns
        BY <2>1, <3>2, FilesAreFiles, FilesDistinct
      <3>4. (v = u /\ u.wt[ns] = x) \/ v = WriteFile(u, ns, x)
        BY <1>2 DEF UpdateDone
      <3> HIDE DEF oe, os, ne, ns, u, v
      <3>5. /\ v.wt[ne] = Raw /\ v.wt[ns] = x
            /\ v.ed[oe] = "remove" /\ v.ed[os] = "remove"
            /\ v.ed[ne] = "upsert" /\ v.ed[ns] = "upsert"
            /\ \A f \in File \ {oe, os, ne, ns} : v.wt[f] = s.wt[f] /\ v.ed[f] = s.ed[f]
        <4>1. CASE v = WriteFile(u, ns, x)
          <5>1. v.wt = [u.wt EXCEPT ![ns] = x] /\ v.ed = [u.ed EXCEPT ![ns] = "upsert"]
            BY <3>2, <4>1 DEF WriteFile, Push, Stage
          <5> QED
            BY <3>1, <3>2, <3>3, <5>1 DEF Stage, Tree, Edits
        <4> QED
          BY <3>1, <3>4, <4>1
      <3>6. /\ T(v)[oe] = None /\ T(v)[os] = None /\ T(v)[ne] = Raw /\ T(v)[ns] = x
            /\ \A f \in File \ {oe, os, ne, ns} : T(v)[f] = T(s)[f]
        BY <3>3, <3>5 DEF BuildTree
      <3>7. Buildable(v.ed, v.wt)
        BY <2>4, <2>5, <3>5, NoneAssumption DEF Buildable
      <3> HIDE DEF T
      <3>8. \A n \in Msg \ {m}, b \in Box :
               /\ T(v)[Eml(n, b)] = T(s)[Eml(n, b)]
               /\ T(v)[Sidecar(n, b)] = T(s)[Sidecar(n, b)]
        BY <2>1, <3>6, FilesAreFiles, FilesDistinct DEF oe, os, ne, ns
      <3>9. \A b \in Box :
               /\ T(v)[Eml(m, b)] =
                     IF b = x.box THEN Raw ELSE IF b = e.box THEN None ELSE T(s)[Eml(m, b)]
               /\ T(v)[Sidecar(m, b)] =
                     IF b = x.box THEN x ELSE IF b = e.box THEN None
                     ELSE T(s)[Sidecar(m, b)]
        BY <2>1, <3>2, <3>6, FilesAreFiles, FilesDistinct DEF oe, os, ne, ns
      <3>10. \A b \in Box : /\ T(v)[Eml(m, b)] = Raw <=> x.box = b
                            /\ T(v)[Sidecar(m, b)] # None <=> x.box = b
        BY <2>1, <2>5, <2>6, <3>2, <3>9
      <3> QED
        BY <2>7, <3>7, <3>8, <3>10
    <2> QED
      BY <2>8, <2>9
  <1> QED
    BY <1>1, <1>2

\* apply_message_added keeps the next commit in step with the index.
LEMMA AddFollows ==
    ASSUME NEW t \in Tree, NEW s \in Stage, NEW i \in Index, Follows(t, s, i),
           NEW m \in Msg, NEW x \in Meta
    PROVE  Follows(t, AddDone(s, m, i[m], x),
                   [i EXCEPT ![m] = AddEntry(s, m, i[m], x)])
  <1> DEFINE T(z) == BuildTree(t, z.ed, z.wt)
  <1>0. x.box \in Box /\ x # None /\ Raw # None /\ Agrees(T(s), i) /\ Buildable(s.ed, s.wt)
    BY MetaAssumption, NoneAssumption DEF Follows
  <1>1. CASE i[m] # None
    <2> DEFINE e == i[m]
               r == EmlRestored(s, m, e)
    <2>1. e \in Entry /\ e.box \in Box
      BY <1>1 DEF Index, Entry
    <2>2. r \in Stage
      BY <2>1, WriteEmlType DEF EmlRestored
    <2>3. Follows(t, r, i)
      <3>1. CASE r = s
        BY <3>1
      <3>2. CASE r = WriteFile(s, Eml(m, e.box), Raw)
        <4>1. /\ \A g \in File : T(r)[g] = IF g = Eml(m, e.box) THEN Raw ELSE T(s)[g]
              /\ Buildable(r.ed, r.wt)
          BY <1>0, <2>1, <3>2, FilesAreFiles, WriteFollows
        <4> HIDE DEF T, r
        <4>2. T(s)[Eml(m, e.box)] = Raw
          BY <1>0, <1>1, <2>1 DEF Agrees
        <4>3. \A g \in File : T(r)[g] = T(s)[g]
          BY <4>1, <4>2
        <4>4. Agrees(T(r), i)
          BY <1>0, <4>3, FilesAreFiles DEF Agrees
        <4> QED
          BY <4>1, <4>4 DEF Follows, T
      <3> QED
        BY <3>1, <3>2 DEF EmlRestored
    <2> HIDE DEF r
    <2>4. Follows(t, UpdateDone(r, m, e, x), [i EXCEPT ![m] = UpdateEntry(r, m, e, x)])
      BY <2>2, <2>3, UpdateFollows
    <2> QED
      BY <1>1, <2>4 DEF AddDone, AddEntry, r
  <1>2. CASE i[m] = None
    <2> DEFINE a == EmlAdded(s, m, x)
               v == WriteFile(a, Sidecar(m, x.box), x)
               y == [meta |-> x, box |-> x.box]
    <2>1. a \in Stage /\ y \in Entry /\ y.box = x.box
      BY <1>0, WriteEmlType DEF EmlAdded, Entry
    <2>2. /\ \A g \in File : T(a)[g] = IF g = Eml(m, x.box) THEN Raw ELSE T(s)[g]
          /\ Buildable(a.ed, a.wt)
      BY <1>0, FilesAreFiles, WriteFollows DEF EmlAdded
    <2>3. /\ \A g \in File : T(v)[g] = IF g = Sidecar(m, x.box) THEN x ELSE T(a)[g]
          /\ Buildable(v.ed, v.wt)
      BY <1>0, <2>1, <2>2, FilesAreFiles, WriteFollows
    <2>4. v = AddDone(s, m, i[m], x) /\ y = AddEntry(s, m, i[m], x)
      BY <1>2 DEF AddDone, AddEntry
    <2> HIDE DEF T, a, v, y
    <2>5. \A n \in Msg, b \in Box :
             /\ T(v)[Eml(n, b)] = IF n = m /\ b = x.box THEN Raw ELSE T(s)[Eml(n, b)]
             /\ T(v)[Sidecar(n, b)] =
                   IF n = m /\ b = x.box THEN x ELSE T(s)[Sidecar(n, b)]
      BY <1>0, <2>2, <2>3, FilesAreFiles, FilesDistinct
    <2>6. \A b \in Box : T(s)[Eml(m, b)] # Raw /\ T(s)[Sidecar(m, b)] = None
      BY <1>0, <1>2 DEF Agrees
    <2>7. Agrees(T(v), [i EXCEPT ![m] = y])
      <3>1. \A n \in Msg \ {m}, b \in Box :
               /\ T(v)[Eml(n, b)] = T(s)[Eml(n, b)]
               /\ T(v)[Sidecar(n, b)] = T(s)[Sidecar(n, b)]
        BY <2>5
      <3>2. \A b \in Box : /\ T(v)[Eml(m, b)] = Raw <=> y.box = b
                           /\ T(v)[Sidecar(m, b)] # None <=> y.box = b
        BY <1>0, <2>1, <2>5, <2>6
      <3> QED
        BY <1>0, <2>1, <3>1, <3>2, FilingAgrees
    <2> QED
      BY <2>3, <2>4, <2>7 DEF Follows, T
  <1> QED
    BY <1>1, <1>2

-----------------------------------------------------------------------------
(* The inductive invariants.                                                *)

\* A pass has no leftovers of an earlier step: events only wait to be applied
\* while a batch is, and changes only wait to be batched in apply_planned.
NothingLeftOver ==
    /\ pc # "apply" => batch = NothingPlanned
    /\ pc # "apply days" /\ stage # "past day" => plan = NothingPlanned

\* Which stage each step belongs to, and the cursor a backfill has.
StageOfStep ==
    /\ pc = "idle" => stage = "done"
    /\ pc = "enumerate" => stage \in {"backfill", "reconcile"}
    /\ pc = "day" => stage = "backfill"
    /\ pc = "changes" => stage = "sync"
    /\ pc = "plan" => stage \in {"sync", "reconcile"}
    /\ pc = "apply days" => stage \in {"sync", "reconcile", "past day"}
    /\ pc = "apply" => stage \in {"backfill", "past day", "final"}
    /\ stage = "backfill" => st.backfill # None

\* What a pass will file has the metadata it was collected with.
MetadataCollected ==
    /\ stage \in {"backfill", "reconcile"} => \A m \in seen : metas[m] # None
    /\ \A m \in plan.add \cup plan.update \cup batch.add \cup batch.update :
          metas[m] # None

TypeInv == VarsOK /\ NothingLeftOver /\ StageOfStep /\ MetadataCollected

\* Edits wait to be committed only between a batch and its commit.
QueuesEmpty ==
    /\ pc \notin {"apply", "commit"} => edits = NoEdits
    /\ pc # "commit" => pending = NoEdits
    /\ pc = "commit" => edits = NoEdits

\* The tree the next commit would have.
NextTree == BuildTree(head, Overlay(pending, edits), wt)

\* During a pass the index in memory is what the next commit will hold, and
\* that commit can be built.
IndexFollows ==
    pc # "idle" => /\ Agrees(NextTree, ix)
                   /\ Buildable(Overlay(pending, edits), wt)

\* An index.json that an open would trust is that of HEAD.
CacheFollows ==
    pc # "save index" /\ dstate # None /\ dstate.saved /\ dindex # None
        => Agrees(head, dindex)

FiledInv == QueuesEmpty /\ Consistent(head) /\ IndexFollows /\ CacheFollows

-----------------------------------------------------------------------------
(* Type correctness.                                                        *)

\* What a store, an index and a pass start with.
LEMMA EmptyTypes ==
    /\ EmptyTree \in Tree /\ NoEdits \in Edits /\ EmptyIndex \in Index
    /\ DefaultState \in State /\ NoChanges \in Changes
    /\ NothingPlanned \in Planned /\ NoMetas \in [Msg -> Meta \cup {None}]
  <1>1. EmptyTree \in Tree
    BY FilesAreFiles DEF EmptyTree, Tree
  <1>2. DefaultState \in State
    BY BoundAssumption DEF DefaultState, State, Version
  <1> QED
    BY <1>1, <1>2 DEF NoEdits, Edits, EmptyIndex, Index, NoChanges, Changes,
       NothingPlanned, Planned, NoMetas

\* Opening a store gives an index and a state, from the cache or rebuilt.
LEMMA OpenTypes ==
    ASSUME VarsOK
    PROVE  OpenIndex \subseteq Index /\ Opened(dstate) \in State
  BY RebuiltType, EmptyTypes DEF VarsOK, OpenIndex, Trusted, Opened

\* An empty store and any account start well-typed.
LEMMA InitTypeInv == Init => TypeInv
  <1> SUFFICES ASSUME Init PROVE TypeInv
    OBVIOUS
  <1>1. 0 \in Version /\ 1 \in Version \ {0}
    <2>1. MaxVersion \in Nat \ {0}
      BY BoundAssumption
    <2> QED
      BY <2>1 DEF Version
  <1>2. /\ version \in Version \ {0} /\ meta \in [Msg -> Meta \cup {None}]
        /\ created \in [Msg -> Version] /\ changed \in [Msg -> Version]
    BY <1>1 DEF Init, ServerInit
  <1>3. VarsOK
    BY <1>1, <1>2, EmptyTypes DEF Init, VarsOK
  <1> QED
    BY <1>3 DEF Init, TypeInv, NothingLeftOver, StageOfStep, MetadataCollected,
       NothingPlanned

\* The account's state stays within its bound.
LEMMA VersionStep ==
    ASSUME NEW v \in Version, v < MaxVersion
    PROVE  v + 1 \in Version /\ v + 1 # 0
  <1>1. MaxVersion \in Nat
    BY BoundAssumption
  <1> QED
    BY <1>1 DEF Version

\* A change of the account keeps the types: it is no part of a pass.
LEMMA AccountTypeInv == TypeInv /\ Account => TypeInv'
  <1> SUFFICES ASSUME TypeInv, NEW m \in Msg, NEW x \in Meta \cup {None},
                      ServerStep(m, x), created' \in [Msg -> Version]
               PROVE  TypeInv'
    <2>1. ASSUME VarsOK, NEW m \in Msg, version < MaxVersion
          PROVE  /\ [created EXCEPT ![m] = version + 1] \in [Msg -> Version]
                 /\ created \in [Msg -> Version]
      BY <2>1, VersionStep DEF VarsOK
    <2>2. SUFFICES ASSUME TypeInv, Account PROVE TypeInv'
      OBVIOUS
    <2>3. PICK m \in Msg : \/ \E x \in Meta : Arrive(m, x) \/ Modify(m, x)
                           \/ Destroy(m)
      BY <2>2 DEF Account
    <2>4. VarsOK
      BY <2>2 DEF TypeInv
    <2>5. \E x \in Meta \cup {None} :
             ServerStep(m, x) /\ created' \in [Msg -> Version]
      BY <2>1, <2>3, <2>4 DEF Arrive, Modify, Destroy, ServerStep
    <2> QED
      BY <2>2, <2>5
  <1>1. /\ version \in Version /\ version < MaxVersion /\ version' = version + 1
        /\ meta \in [Msg -> Meta \cup {None}] /\ meta' = [meta EXCEPT ![m] = x]
        /\ changed \in [Msg -> Version]
        /\ changed' = [changed EXCEPT ![m] = version + 1]
    BY DEF TypeInv, VarsOK, ServerStep
  <1>2. version' \in Version \ {0} /\ changed' \in [Msg -> Version]
    BY <1>1, VersionStep
  <1>3. meta' \in [Msg -> Meta \cup {None}]
    BY <1>1
  <1>4. /\ UNCHANGED <<wt, head, dstate, dindex, edits, pending, st, ix, cancel>>
        /\ UNCHANGED <<pc, kind, stage, target, delta, unread, anchor, seen, metas,
                       plan, batch, crashes, fails, cancels>>
    BY DEF ServerStep, diskVars, queueVars, memVars, collectVars, faultVars
  <1>5. VarsOK'
    <2>1. /\ wt' \in Tree /\ head' \in Tree
          /\ dstate' \in State \cup {None} /\ dindex' \in Index \cup {None}
          /\ st' \in State /\ ix' \in Index
          /\ edits' \in Edits /\ pending' \in Edits /\ cancel' \in BOOLEAN
      BY <1>4 DEF TypeInv, VarsOK
    <2>2. /\ kind' \in {"backup", "refresh"} /\ target' \in Version /\ delta' \in Changes
          /\ unread' \subseteq Msg /\ seen' \subseteq Msg /\ anchor' \in Msg \cup {None}
          /\ metas' \in [Msg -> Meta \cup {None}]
          /\ plan' \in Planned /\ batch' \in Planned
          /\ crashes' \in Nat /\ fails' \in Nat /\ cancels' \in Nat
      BY <1>4 DEF TypeInv, VarsOK
    <2>3. pc' = pc /\ stage' = stage
      BY <1>4
    <2> QED
      BY <1>2, <1>3, <1>4, <2>1, <2>2, <2>3 DEF TypeInv, VarsOK
  <1> QED
    BY <1>5 DEF TypeInv, NothingLeftOver, StageOfStep, MetadataCollected,
       ServerStep, diskVars, queueVars, memVars, collectVars, faultVars

\* A pass that ends leaves nothing behind in memory.
LEMMA EndPassTypeInv ==
    ASSUME TypeInv, EndPass, UNCHANGED serverVars,
           wt' \in Tree, head' \in Tree,
           dstate' \in State \cup {None}, dindex' \in Index \cup {None},
           edits' \in Edits, pending' \in Edits, cancel' \in BOOLEAN,
           crashes' \in Nat, fails' \in Nat, cancels' \in Nat
    PROVE  TypeInv'
  <1>1. VarsOK'
    <2>1. 0 \in Version
      BY BoundAssumption DEF Version
    <2> QED
      BY <2>1, EmptyTypes DEF TypeInv, VarsOK, EndPass, serverVars
  <1> QED
    BY <1>1 DEF TypeInv, NothingLeftOver, StageOfStep, MetadataCollected, EndPass,
       NothingPlanned

\* An enumeration starts afresh, when nothing is planned.
LEMMA EnumerationTypeInv ==
    ASSUME TypeInv, plan = NothingPlanned, batch = NothingPlanned,
           NEW after, StartEnumeration(after), stage' \in {"backfill", "reconcile"},
           target' \in Version, st' \in State, ix' \in Index,
           stage' = "backfill" => st'.backfill # None,
           kind' \in {"backup", "refresh"},
           UNCHANGED <<serverVars, diskVars, edits, pending, cancel, delta, plan,
                       batch, faultVars>>
    PROVE  TypeInv'
  <1>1. VarsOK'
    BY EmptyTypes DEF TypeInv, VarsOK, StartEnumeration, serverVars, diskVars,
       queueVars, faultVars
  <1> QED
    BY <1>1 DEF TypeInv, NothingLeftOver, StageOfStep, MetadataCollected,
       StartEnumeration, NothingPlanned

\* Opening a store, and the start of each kind of pass (run_backup, run_refresh).
LEMMA BeginTypeInv ==
    ASSUME TypeInv, NEW k \in {"backup", "refresh"}, Begin(k)
    PROVE  TypeInv'
  <1>1. VarsOK /\ plan = NothingPlanned /\ batch = NothingPlanned
    BY DEF TypeInv, NothingLeftOver, StageOfStep, Begin
  <1>2. ix' \in Index /\ Opened(dstate) \in State
    BY <1>1, OpenTypes DEF Begin
  <1>3. CASE NeedsBackfill(Opened(dstate))
    <2> DEFINE s == Opened(dstate)
               c == IF s.backfill # None THEN s.backfill
                    ELSE [start |-> version, last |-> 0]
    <2>1. /\ stage' = "backfill" /\ StartEnumeration(c.last)
          /\ st' = [s EXCEPT !.backfill = c] /\ UNCHANGED <<target, delta>>
      BY <1>3 DEF Begin, StartBackfill
    <2>2. c \in Cursor
      BY <1>1, <1>2 DEF Cursor, State, VarsOK
    <2>3. st' \in State /\ st'.backfill = c
      BY <1>2, <2>1, <2>2 DEF State
    <2>4. c # None
      BY <2>2, CursorAssumption
    <2> HIDE DEF s, c
    <2>5. kind' = k /\ UNCHANGED <<serverVars, diskVars, edits, pending, cancel, plan,
                                   batch, faultVars>>
      BY DEF Begin
    <2> QED
      BY <1>1, <1>2, <2>1, <2>3, <2>4, <2>5, EnumerationTypeInv DEF VarsOK
  <1>4. CASE ~NeedsBackfill(Opened(dstate)) /\ k = "refresh"
    <2>1. StartReconcile(OpenedCards) /\ st' = Opened(dstate) /\ kind' = k
          /\ UNCHANGED <<serverVars, diskVars, edits, pending, cancel, plan, batch,
                         faultVars>>
      BY <1>4 DEF Begin
    <2> QED
      BY <1>1, <1>2, <2>1, EnumerationTypeInv DEF StartReconcile, VarsOK
  <1>5. CASE ~NeedsBackfill(Opened(dstate)) /\ k = "backup"
    <2>1. StartSync(Opened(dstate)) /\ st' = Opened(dstate) /\ kind' = k
          /\ UNCHANGED <<serverVars, diskVars, edits, pending, cancel, plan, batch,
                         faultVars>>
      BY <1>5 DEF Begin
    <2>2. Opened(dstate).source \in Version
      BY <1>2 DEF State
    <2>3. VarsOK'
      BY <1>1, <1>2, <2>1, <2>2, EmptyTypes DEF StartSync, VarsOK, serverVars,
         diskVars, queueVars, faultVars
    <2> QED
      BY <1>1, <2>1, <2>3 DEF StartSync, TypeInv, NothingLeftOver, StageOfStep,
         MetadataCollected, NothingPlanned
  <1> QED
    BY <1>3, <1>4, <1>5

\* Collecting: an enumeration, a change list, and the plans made from them.
LEMMA CollectTypeInv == TypeInv /\ Collect => TypeInv'
  <1> SUFFICES ASSUME TypeInv, Collect PROVE TypeInv'
    OBVIOUS
  <1> USE DEF TypeInv, serverVars, diskVars, queueVars, memVars, collectVars,
              faultVars
  <1>1. ASSUME NEW m \in Msg, Enumerate(m) PROVE TypeInv'
    <2>1. meta[m] \in Meta /\ meta[m] # None
      BY <1>1, NoneAssumption DEF Enumerate, NextUp, Upcoming, Alive, VarsOK
    <2>2. metas' = [metas EXCEPT ![m] = meta[m]] /\ seen' = seen \cup {m}
      BY <1>1 DEF Enumerate
    <2>3. VarsOK'
      BY <1>1, <2>1 DEF Enumerate, VarsOK
    <2>4. \A n \in Msg : metas[n] # None \/ n = m => metas'[n] # None
      BY <2>1, <2>2 DEF VarsOK
    <2>5. seen \subseteq Msg /\ UNCHANGED <<stage, plan, batch>>
          /\ plan.add \cup plan.update \cup batch.add \cup batch.update \subseteq Msg
      BY <1>1 DEF Enumerate, VarsOK, Planned
    <2>6. MetadataCollected'
      BY <2>2, <2>4, <2>5 DEF MetadataCollected
    <2> QED
      BY <1>1, <2>3, <2>6 DEF Enumerate, NothingLeftOver, StageOfStep
  <1>2. ASSUME NEW m \in Msg, SkipAfterLostAnchor(m) PROVE TypeInv'
    <2>1. VarsOK'
      BY <1>2 DEF SkipAfterLostAnchor, VarsOK
    <2> QED
      BY <1>2, <2>1 DEF SkipAfterLostAnchor, NothingLeftOver, StageOfStep,
         MetadataCollected
  <1>3. CASE EnumerationEnds
    <2>1. VarsOK'
      BY <1>3 DEF EnumerationEnds, VarsOK
    <2> QED
      BY <1>3, <2>1 DEF EnumerationEnds, NothingLeftOver, StageOfStep,
         MetadataCollected
  <1>4. ASSUME NEW upto \in Version, ChangesPage(upto) PROVE TypeInv'
    <2>1. delta' \in Changes
      BY <1>4 DEF ChangesPage, Page, ChangedIn, Changes, VarsOK
    <2>2. VarsOK'
      BY <1>4, <2>1 DEF ChangesPage, VarsOK
    <2> QED
      BY <1>4, <2>2 DEF ChangesPage, NothingLeftOver, StageOfStep,
         MetadataCollected
  <1>5. CASE StateTooOld
    <2>1. plan = NothingPlanned /\ batch = NothingPlanned
      BY <1>5 DEF StateTooOld, NothingLeftOver, StageOfStep
    <2> QED
      BY <1>5, <2>1, EnumerationTypeInv DEF StateTooOld, StartReconcile, VarsOK
  <1>6. CASE PlanSync
    <2> DEFINE touched == {m \in (delta.created \cup delta.updated) \ delta.destroyed :
                             Alive(m)}
               planned == [add    |-> {m \in touched : ~Known(m) /\ Matches(meta[m])},
                           update |-> {m \in touched : Known(m) /\ Matches(meta[m])},
                           delete |-> delta.destroyed \cup
                                      {m \in touched : Known(m) /\ ~Matches(meta[m])}]
    <2>1. touched \subseteq Msg /\ delta.destroyed \subseteq Msg
      BY DEF VarsOK, Changes
    <2>2. planned \in Planned
      BY <2>1 DEF Planned
    <2>3. CASE planned = NothingPlanned /\ target = st.source
      <3>1. EndPass /\ UNCHANGED <<serverVars, diskVars, queueVars, cancel, faultVars>>
        BY <1>6, <2>3 DEF PlanSync, Deduped
      <3> QED
        BY <3>1, EndPassTypeInv DEF VarsOK
    <2>4. CASE ~(planned = NothingPlanned /\ target = st.source)
      <3>1. /\ plan' = planned
            /\ metas' = [m \in Msg |-> IF m \in touched THEN meta[m] ELSE None]
            /\ pc = "plan" /\ pc' = "apply days" /\ stage = "sync"
            /\ UNCHANGED <<memVars, kind, stage, target, delta, unread, anchor, seen,
                           batch, serverVars, diskVars, queueVars, cancel, faultVars>>
        BY <1>6, <2>4 DEF PlanSync, Deduped
      <3>2. \A m \in touched : metas'[m] # None
        BY <2>1, <3>1 DEF Alive
      <3>3. planned.add \subseteq touched /\ planned.update \subseteq touched
        OBVIOUS
      <3>4. batch = NothingPlanned
        BY <3>1 DEF NothingLeftOver
      <3>5. metas' \in [Msg -> Meta \cup {None}]
        BY <2>1, <3>1 DEF VarsOK
      <3> HIDE DEF touched, planned
      <3>6. VarsOK'
        BY <2>2, <3>1, <3>5 DEF VarsOK
      <3> QED
        BY <3>1, <3>2, <3>3, <3>4, <3>6 DEF NothingLeftOver, StageOfStep,
           MetadataCollected, NothingPlanned
    <2> QED
      BY <2>3, <2>4
  <1>7. CASE PlanReconcile
    <2>1. plan' \in Planned
      BY <1>7 DEF PlanReconcile, Planned, VarsOK
    <2>2. VarsOK'
      BY <1>7, <2>1 DEF PlanReconcile, VarsOK
    <2>3. plan'.add \subseteq seen /\ plan'.update \subseteq seen
      BY <1>7 DEF PlanReconcile
    <2>4. batch = NothingPlanned
      BY <1>7 DEF PlanReconcile, NothingLeftOver
    <2> QED
      BY <1>7, <2>2, <2>3, <2>4 DEF PlanReconcile, NothingLeftOver, StageOfStep,
         MetadataCollected, NothingPlanned
  <1> QED
    BY <1>1, <1>2, <1>3, <1>4, <1>5, <1>6, <1>7 DEF Collect

\* One event of a batch has been applied, or stopped half-way.
LEMMA AppliedTypeInv ==
    ASSUME TypeInv, pc = "apply", NEW m \in Msg, NEW s \in Stage,
           NEW e \in Entry \cup {None}, Applied(s, m, e),
           batch' \in Planned, batch'.add \subseteq batch.add,
           batch'.update \subseteq batch.update
    PROVE  TypeInv'
  <1>1. wt' \in Tree /\ edits' \in Edits
    BY DEF Applied, Stage
  <1>2. ix' \in Index
    BY DEF Applied, Index, TypeInv, VarsOK
  <1>3. VarsOK'
    BY <1>1, <1>2 DEF Applied, TypeInv, VarsOK, serverVars, collectVars, faultVars
  <1> QED
    BY <1>3 DEF Applied, TypeInv, NothingLeftOver, StageOfStep, MetadataCollected,
       serverVars, collectVars, faultVars

\* One event applied to the store (MailStore::apply).
LEMMA ApplyTypeInv ==
    ASSUME TypeInv, NEW m \in Msg, ApplyAdded(m) \/ ApplyUpdated(m) \/ ApplyDeleted(m)
    PROVE  TypeInv'
  <1>1. Files \in Stage /\ ix[m] \in Entry \cup {None} /\ batch \in Planned
    BY DEF Files, Stage, Index, TypeInv, VarsOK
  <1>2. CASE ApplyAdded(m)
    <2>1. metas[m] \in Meta /\ metas[m] # None
      BY <1>2 DEF ApplyAdded, TypeInv, VarsOK, MetadataCollected
    <2>2. /\ AddDone(Files, m, ix[m], metas[m]) \in Stage
          /\ AddEntry(Files, m, ix[m], metas[m]) \in Entry \cup {None}
      BY <1>1, <2>1, AddType
    <2>3. /\ batch' \in Planned /\ batch'.add \subseteq batch.add
          /\ batch'.update \subseteq batch.update
      BY <1>1, <1>2 DEF ApplyAdded, Planned
    <2>4. /\ pc = "apply"
          /\ Applied(AddDone(Files, m, ix[m], metas[m]), m,
                     AddEntry(Files, m, ix[m], metas[m]))
      BY <1>2 DEF ApplyAdded
    <2> QED
      BY <2>2, <2>3, <2>4, AppliedTypeInv
  <1>3. CASE ApplyUpdated(m)
    <2>1. metas[m] \in Meta /\ metas[m] # None
      BY <1>3 DEF ApplyUpdated, TypeInv, VarsOK, MetadataCollected
    <2>2. /\ UpdateDone(Files, m, ix[m], metas[m]) \in Stage
          /\ UpdateEntry(Files, m, ix[m], metas[m]) \in Entry \cup {None}
      BY <1>1, <2>1, UpdateType
    <2>3. /\ batch' \in Planned /\ batch'.add \subseteq batch.add
          /\ batch'.update \subseteq batch.update
      BY <1>1, <1>3 DEF ApplyUpdated, Planned
    <2>4. /\ pc = "apply"
          /\ Applied(UpdateDone(Files, m, ix[m], metas[m]), m,
                     UpdateEntry(Files, m, ix[m], metas[m]))
      BY <1>3 DEF ApplyUpdated
    <2> QED
      BY <2>2, <2>3, <2>4, AppliedTypeInv
  <1>4. CASE ApplyDeleted(m)
    <2> DEFINE s == IF Known(m) THEN DeleteDone(Files, m, ix[m]) ELSE Files
    <2>1. s \in Stage
      BY <1>1, DeleteType DEF Known
    <2>2. /\ batch' \in Planned /\ batch'.add \subseteq batch.add
          /\ batch'.update \subseteq batch.update
      BY <1>1, <1>4 DEF ApplyDeleted, Planned
    <2>3. pc = "apply" /\ Applied(s, m, None)
      BY <1>4 DEF ApplyDeleted
    <2> HIDE DEF s
    <2> QED
      BY <2>1, <2>2, <2>3, AppliedTypeInv
  <1> QED
    BY <1>2, <1>3, <1>4

\* Writing: days and the final batch, applied, committed and saved.
LEMMA WriteTypeInv == TypeInv /\ Write => TypeInv'
  <1> SUFFICES ASSUME TypeInv, Write PROVE TypeInv'
    OBVIOUS
  <1> USE DEF TypeInv, serverVars, diskVars, queueVars, memVars, collectVars,
              faultVars
  <1>1. ASSUME NEW d \in {Day[m] : m \in Msg}, FinalizeDay(d) PROVE TypeInv'
    <2>1. st \in State /\ st.backfill \in Cursor /\ stage = "backfill"
      BY <1>1 DEF FinalizeDay, StageOfStep, VarsOK, State
    <2>2. CursorAfter(d) \in Cursor
      BY <2>1, DayAssumption DEF CursorAfter, Cursor
    <2>3. st' \in State /\ st'.backfill # None
      BY <1>1, <2>1, <2>2, CursorAssumption DEF FinalizeDay, State
    <2>4. /\ batch' \in Planned /\ batch'.add \subseteq seen /\ batch'.update = {}
          /\ seen' \subseteq seen
      BY <1>1 DEF FinalizeDay, Planned, NothingPlanned, VarsOK
    <2>5. VarsOK'
      BY <1>1, <2>3, <2>4 DEF FinalizeDay, VarsOK
    <2>6. MetadataCollected'
      BY <1>1, <2>1, <2>4 DEF FinalizeDay, MetadataCollected
    <2> QED
      BY <1>1, <2>1, <2>3, <2>5, <2>6 DEF FinalizeDay, NothingLeftOver, StageOfStep
  <1>2. ASSUME NEW d \in {Day[m] : m \in Msg}, StartPastDay(d) PROVE TypeInv'
    <2>1. /\ batch' \in Planned /\ batch'.add \subseteq plan.add /\ batch'.update = {}
          /\ plan' \in Planned /\ plan'.add \subseteq plan.add
          /\ plan'.update = plan.update
      BY <1>2 DEF StartPastDay, Planned, NothingPlanned, VarsOK
    <2>2. VarsOK'
      BY <1>2, <2>1 DEF StartPastDay, VarsOK
    <2> QED
      BY <1>2, <2>1, <2>2 DEF StartPastDay, NothingLeftOver, StageOfStep,
         MetadataCollected
  <1>3. CASE BackfillComplete
    <2>1. st \in State /\ st.backfill \in Cursor
      BY <1>3 DEF BackfillComplete, StageOfStep, VarsOK, State
    <2>2. st' \in State
      BY <1>3, <2>1 DEF BackfillComplete, State, Cursor
    <2>3. VarsOK'
      BY <1>3, <2>2 DEF BackfillComplete, VarsOK
    <2> QED
      BY <1>3, <2>3 DEF BackfillComplete, NothingLeftOver, StageOfStep,
         MetadataCollected
  <1>4. CASE StartFinal
    <2>1. st' \in State
      BY <1>4 DEF StartFinal, VarsOK, State
    <2>2. VarsOK'
      BY <1>4, <2>1, EmptyTypes DEF StartFinal, VarsOK
    <2> QED
      BY <1>4, <2>2 DEF StartFinal, NothingLeftOver, StageOfStep,
         MetadataCollected, NothingPlanned
  <1>5. ASSUME NEW m \in Msg, ApplyAdded(m) \/ ApplyUpdated(m) \/ ApplyDeleted(m)
        PROVE  TypeInv'
    BY <1>5, ApplyTypeInv
  <1>6. CASE ApplyEnds
    <2>1. edits' \in Edits /\ pending' \in Edits
      BY <1>6, OverlayType, EmptyTypes DEF ApplyEnds, VarsOK
    <2>2. VarsOK'
      BY <1>6, <2>1 DEF ApplyEnds, VarsOK
    <2> QED
      BY <1>6, <2>2 DEF ApplyEnds, NothingLeftOver, StageOfStep, MetadataCollected
  <1>7. CASE Commit
    <2>1. head' \in Tree
      <3>1. BuildTree(head, pending, wt) \in Tree
        BY BuildTreeType DEF VarsOK
      <3>2. head' = BuildTree(head, pending, wt) \/ head' = head
        BY <1>7 DEF Commit
      <3> QED
        BY <3>1, <3>2 DEF VarsOK
    <2>2. dstate' \in State \cup {None} /\ st' \in State /\ st'.backfill = st.backfill
      BY <1>7 DEF Commit, VarsOK, State
    <2>3. VarsOK'
      BY <1>7, <2>1, <2>2, EmptyTypes DEF Commit, VarsOK
    <2> QED
      BY <1>7, <2>2, <2>3 DEF Commit, NothingLeftOver, StageOfStep,
         MetadataCollected
  <1>8. CASE SaveState
    <2>1. VarsOK'
      BY <1>8 DEF SaveState, VarsOK
    <2> QED
      BY <1>8, <2>1 DEF SaveState, NothingLeftOver, StageOfStep, MetadataCollected
  <1>9. CASE SaveIndex
    <2>1. /\ dindex' \in Index /\ edits' \in Edits
          /\ pc = "save index" /\ batch = NothingPlanned
          /\ UNCHANGED <<serverVars, wt, head, dstate, pending, cancel, faultVars>>
      BY <1>9, EmptyTypes DEF SaveIndex, VarsOK, NothingLeftOver
    <2>2. CASE \/ stage = "backfill" /\ pc' = "enumerate"
               \/ stage = "past day" /\ pc' = "apply days"
      <3>1. UNCHANGED <<memVars, kind, stage, target, collectVars, plan, batch>>
        BY <1>9, <2>2 DEF SaveIndex
      <3>2. VarsOK'
        BY <2>1, <2>2, <3>1 DEF VarsOK
      <3> QED
        BY <2>1, <2>2, <3>1, <3>2 DEF NothingLeftOver, StageOfStep, MetadataCollected
    <2>3. CASE stage = "done" /\ kind = "backup"
      <3>1. StartSync(st) /\ UNCHANGED <<memVars, kind, plan, batch>>
        BY <1>9, <2>3 DEF SaveIndex
      <3>2. st.source \in Version
        BY DEF VarsOK, State
      <3>3. VarsOK'
        BY <2>1, <3>1, <3>2, EmptyTypes DEF StartSync, VarsOK
      <3> QED
        BY <2>1, <2>3, <3>1, <3>3 DEF StartSync, NothingLeftOver, StageOfStep,
           MetadataCollected
    <2>4. CASE EndPass
      BY <2>1, <2>4, EndPassTypeInv DEF VarsOK
    <2> QED
      BY <1>9, <2>2, <2>3, <2>4 DEF SaveIndex
  <1> QED
    BY <1>1, <1>2, <1>3, <1>4, <1>5, <1>6, <1>7, <1>8, <1>9 DEF Write

\* Stopping: a pass given up, cancelled, failed or killed, and a restart.
LEMMA TornFilesType ==
    ASSUME TypeInv, pc = "apply"
    PROVE  TornFiles \subseteq Stage
  <1>1. Files \in Stage /\ batch \in Planned
        /\ \A m \in Msg : ix[m] \in Entry \cup {None}
    BY DEF Files, Stage, Index, TypeInv, VarsOK
  <1>2. \A m \in batch.add \cup batch.update : m \in Msg /\ metas[m] \in Meta
    BY <1>1 DEF Planned, TypeInv, VarsOK, MetadataCollected
  <1>3. \A m \in batch.add : AddTorn(Files, m, ix[m], metas[m]) \subseteq Stage
    BY <1>1, <1>2, AddType
  <1>4. \A m \in batch.update : UpdateTorn(Files, m, ix[m], metas[m]) \subseteq Stage
    BY <1>1, <1>2, UpdateType
  <1>5. \A m \in batch.delete :
           (IF Known(m) THEN DeleteTorn(Files, m, ix[m]) ELSE {Files}) \subseteq Stage
    BY <1>1, DeleteType DEF Known, Planned
  <1> QED
    BY <1>1, <1>3, <1>4, <1>5, Zenon DEF TornFiles

\* What an error or a kill leaves on disk and in the queues, torn files included.
LEMMA AbandonTypes ==
    ASSUME TypeInv, NEW died \in BOOLEAN, Abandon(died)
    PROVE  /\ wt' \in Tree /\ head' \in Tree
           /\ dstate' \in State \cup {None} /\ dindex' \in Index \cup {None}
           /\ edits' \in Edits /\ pending' \in Edits
  <1> USE DEF Queues, TypeInv, VarsOK, diskVars
  <1>1. CASE pc = "apply"
    <2>1. TornFiles \subseteq Stage
      BY <1>1, TornFilesType
    <2>2. PICK s \in TornFiles : wt' = s.wt /\ Queues(died, s.ed, pending, cards.queued)
      BY <1>1 DEF Abandon
    <2>3. s.wt \in Tree /\ s.ed \in Edits
      BY <2>1, <2>2 DEF Stage
    <2>4. UNCHANGED <<head, dstate, dindex>>
      BY <1>1 DEF Abandon
    <2> QED
      BY <2>2, <2>3, <2>4, EmptyTypes
  <1>2. CASE pc = "commit"
    BY <1>2, EmptyTypes DEF Abandon
  <1>3. CASE pc = "save state"
    BY <1>3, EmptyTypes DEF Abandon, Torn
  <1>4. CASE pc = "save index"
    BY <1>4, EmptyTypes DEF Abandon, Torn
  <1>5. CASE pc \notin {"apply", "commit", "save state", "save index"}
    BY <1>5, EmptyTypes DEF Abandon
  <1> QED
    BY <1>1, <1>2, <1>3, <1>4, <1>5

\* The end of a pass that does not finish, a restart, and a cancellation.
LEMMA StopTypeInv == TypeInv /\ (Stop \/ Cancel \/ Fail \/ Crash) => TypeInv'
  <1> SUFFICES ASSUME TypeInv, Stop \/ Cancel \/ Fail \/ Crash PROVE TypeInv'
    OBVIOUS
  <1> USE DEF serverVars, diskVars, queueVars, memVars, collectVars, faultVars
  <1>0. /\ wt \in Tree /\ head \in Tree
        /\ dstate \in State \cup {None} /\ dindex \in Index \cup {None}
        /\ edits \in Edits /\ pending \in Edits /\ cancel \in BOOLEAN
        /\ crashes \in Nat /\ fails \in Nat /\ cancels \in Nat
    BY DEF TypeInv, VarsOK
  <1>9. crashes + 1 \in Nat /\ fails + 1 \in Nat /\ cancels + 1 \in Nat
    BY <1>0
  <1>1. CASE FetchFails \/ Interrupted
    <2>1. EndPass /\ UNCHANGED <<serverVars, diskVars, queueVars, cancel, faultVars>>
      BY <1>1 DEF FetchFails, Interrupted
    <2> QED
      BY <1>0, <2>1, EndPassTypeInv
  <1>2. CASE BuildTreeFails
    <2>1. EndPass /\ UNCHANGED <<serverVars, diskVars, edits, cancel, faultVars>>
          /\ pending' = NoEdits
      BY <1>2 DEF BuildTreeFails
    <2> QED
      BY <1>0, <2>1, EmptyTypes, EndPassTypeInv
  <1>3. CASE Restart
    <2>1. VarsOK'
      BY <1>3, EmptyTypes DEF Restart, TypeInv, VarsOK
    <2> QED
      BY <1>3, <2>1 DEF Restart, TypeInv, NothingLeftOver, StageOfStep,
         MetadataCollected
  <1>4. CASE Cancel
    <2>1. VarsOK'
      <3>1. cancel' \in BOOLEAN /\ cancels' \in Nat
        BY <1>4, <1>9 DEF Cancel
      <3> QED
        BY <1>4, <3>1 DEF Cancel, TypeInv, VarsOK
    <2> QED
      BY <1>4, <2>1 DEF Cancel, TypeInv, NothingLeftOver, StageOfStep,
         MetadataCollected
  <1>5. CASE Fail
    <2>1. /\ Abandon(FALSE) /\ EndPass /\ fails' = fails + 1
          /\ UNCHANGED <<serverVars, cancel, crashes, cancels>>
      BY <1>5 DEF Fail
    <2>2. /\ wt' \in Tree /\ head' \in Tree
          /\ dstate' \in State \cup {None} /\ dindex' \in Index \cup {None}
          /\ edits' \in Edits /\ pending' \in Edits
      BY <2>1, AbandonTypes
    <2> QED
      BY <1>0, <1>9, <2>1, <2>2, EndPassTypeInv
  <1>6. CASE Crash
    <2>1. /\ Abandon(TRUE) /\ EndPass /\ crashes' = crashes + 1 /\ cancel' = FALSE
          /\ UNCHANGED <<serverVars, fails, cancels>>
      BY <1>6 DEF Crash
    <2>2. /\ wt' \in Tree /\ head' \in Tree
          /\ dstate' \in State \cup {None} /\ dindex' \in Index \cup {None}
          /\ edits' \in Edits /\ pending' \in Edits
      BY <2>1, AbandonTypes
    <2> QED
      BY <1>0, <1>9, <2>1, <2>2, EndPassTypeInv
  <1> QED
    BY <1>1, <1>2, <1>3, <1>4, <1>5, <1>6 DEF Stop

\* Every step, and every stutter, keeps the types.
LEMMA TypeInvStep == TypeInv /\ [Next]_vars => TypeInv'
  <1> SUFFICES ASSUME TypeInv, [Next]_vars PROVE TypeInv'
    OBVIOUS
  <1>1. CASE UNCHANGED vars
    <2>1. /\ UNCHANGED <<version, meta, created, changed, wt, head, dstate, dindex>>
          /\ UNCHANGED <<edits, pending, st, ix, cancel, pc, kind, stage, target>>
          /\ UNCHANGED <<delta, unread, anchor, seen, metas, plan, batch>>
          /\ UNCHANGED <<crashes, fails, cancels>>
      BY <1>1 DEF vars, serverVars, diskVars, queueVars, memVars, collectVars,
         faultVars
    <2>2. VarsOK'
      <3>1. /\ version' \in Version \ {0} /\ meta' \in [Msg -> Meta \cup {None}]
            /\ created' \in [Msg -> Version] /\ changed' \in [Msg -> Version]
            /\ wt' \in Tree /\ head' \in Tree
            /\ dstate' \in State \cup {None} /\ dindex' \in Index \cup {None}
            /\ st' \in State /\ ix' \in Index
            /\ edits' \in Edits /\ pending' \in Edits /\ cancel' \in BOOLEAN
        BY <2>1 DEF TypeInv, VarsOK
      <3>2. /\ kind' \in {"backup", "refresh"} /\ target' \in Version /\ delta' \in Changes
            /\ unread' \subseteq Msg /\ seen' \subseteq Msg /\ anchor' \in Msg \cup {None}
            /\ metas' \in [Msg -> Meta \cup {None}]
            /\ plan' \in Planned /\ batch' \in Planned
            /\ crashes' \in Nat /\ fails' \in Nat /\ cancels' \in Nat
        BY <2>1 DEF TypeInv, VarsOK
      <3>3. pc' = pc /\ stage' = stage
        BY <2>1
      <3> QED
        BY <3>1, <3>2, <3>3 DEF TypeInv, VarsOK
    <2> QED
      BY <2>1, <2>2 DEF TypeInv, NothingLeftOver, StageOfStep, MetadataCollected
  <1>2. CASE Next
    BY <1>2, AccountTypeInv, BeginTypeInv, CollectTypeInv, WriteTypeInv, StopTypeInv
    DEF Next, Engine
  <1> QED
    BY <1>1, <1>2

\* Whatever the account, the store, the faults and the bounds: every variable
\* keeps its type, nothing is left over from a step to the next, and what a
\* pass is about to write has metadata.
THEOREM TypesInvariant == Spec => []TypeInv
  <1> QED
    BY InitTypeInv, TypeInvStep, PTL DEF Spec

CardsTyped == cards \in Cards

\* The cards of the mailboxes keep their type: a step sets flags of theirs, or
\* leaves them alone.
LEMMA CardsStep == CardsTyped /\ [Next]_vars => CardsTyped'
  <1> SUFFICES ASSUME cards \in Cards, [Next]_vars PROVE cards' \in Cards
    BY DEF CardsTyped
  <1> USE DEF Cards, queueVars
  <1>1. CASE UNCHANGED vars
    BY <1>1 DEF vars
  <1>2. CASE Account
    BY <1>2 DEF Account, Arrive, Modify, Destroy, ServerStep
  <1>3. ASSUME NEW k \in {"backup", "refresh"}, Begin(k) PROVE cards' \in Cards
    <2>1. OpenedCards \in Cards
      <3>1. cards.indexed \in BOOLEAN /\ cards.head \in BOOLEAN /\ cards.worktree \in BOOLEAN
        OBVIOUS
      <3> QED
        BY <3>1 DEF OpenedCards
    <2>2. cards' = OpenedCards \/ cards' = CardsWritten(OpenedCards)
      BY <1>3 DEF Begin, StartBackfill, StartReconcile
    <2> QED
      BY <2>1, <2>2 DEF CardsWritten
  <1>4. CASE Collect
    BY <1>4 DEF Collect, Enumerate, SkipAfterLostAnchor, EnumerationEnds, ChangesPage,
       StateTooOld, StartReconcile, CardsWritten, PlanSync, PlanReconcile
  <1>5. CASE Write
    <2>1. CASE BackfillComplete
      <3>1. cards' = [cards EXCEPT !.bare = (st.backfill.last = 0)]
        BY <2>1 DEF BackfillComplete
      <3> QED
        BY <3>1
    <2>2. CASE Commit
      <3>1. cards' = [cards EXCEPT !.queued = FALSE]
            \/ cards' = [cards EXCEPT !.head = @ \/ cards.queued, !.queued = FALSE]
        BY <2>2 DEF Commit
      <3> QED
        BY <3>1
    <2>3. CASE SaveIndex
      BY <2>3 DEF SaveIndex
    <2>4. CASE ~(BackfillComplete \/ Commit \/ SaveIndex)
      BY <1>5, <2>4 DEF Write, FinalizeDay, StartPastDay, StartFinal, ApplyAdded,
         ApplyUpdated, ApplyDeleted, Applied, ApplyEnds, SaveState
    <2> QED
      BY <2>1, <2>2, <2>3, <2>4
  <1>6. CASE Stop \/ Cancel
    BY <1>6 DEF Stop, FetchFails, BuildTreeFails, Interrupted, Restart, Cancel
  <1>7. ASSUME NEW died \in BOOLEAN, Abandon(died) PROVE cards' \in Cards
    <2>1. PICK e, p, q : Queues(died, e, p, q)
      BY <1>7 DEF Abandon
    <2>2. cards' = [cards EXCEPT !.queued = ~died /\ q]
      BY <2>1 DEF Queues
    <2> QED
      BY <2>2
  <1> QED
    BY <1>1, <1>2, <1>3, <1>4, <1>5, <1>6, <1>7 DEF Next, Engine, Fail, Crash

\* Type correctness alone, as the runs check it.
THEOREM TypeCorrect == Spec => []TypeOK
  <1>1. Init => CardsTyped
    BY DEF Init, Cards, NoCards, CardsTyped
  <1>2. TypeInv /\ CardsTyped => TypeOK
    BY DEF TypeInv, TypeOK, CardsTyped
  <1> QED
    BY <1>1, <1>2, CardsStep, TypesInvariant, PTL DEF Spec

-----------------------------------------------------------------------------
(* The archive of a git store is well filed, whatever is cancelled or       *)
(* killed, and whatever the server omits.                                   *)

GitStore == Git = TRUE /\ TornSaves = FALSE /\ MaxFails = 0

\* The invariant in terms of the files of the step: with nothing pending, the
\* next commit is that of the worktree and of the recorded edits.
LEMMA AppliedFollows ==
    ASSUME TypeInv, FiledInv, pc = "apply"
    PROVE  Files \in Stage /\ Follows(head, Files, ix)
  <1>1. pending = NoEdits /\ head \in Tree /\ edits \in Edits /\ wt \in Tree
    BY DEF FiledInv, QueuesEmpty, TypeInv, VarsOK
  <1>2. Overlay(pending, edits) = edits
    BY <1>1, NoEditsKeep
  <1> QED
    BY <1>1, <1>2 DEF Files, Stage, Follows, FiledInv, IndexFollows, NextTree

\* An index rebuilt from a consistent tree agrees with it
\* (rebuild_index_from_head).
LEMMA RebuiltAgrees ==
    ASSUME NEW t \in Tree, Consistent(t), NEW i \in Rebuilt(t)
    PROVE  Agrees(t, i)
  <1> DEFINE held(m) == {b \in Box : t[Sidecar(m, b)] # None}
             entry(m, b) == [meta |-> t[Sidecar(m, b)], box |-> b]
  <1>1. PICK last \in [Msg -> Box] :
           /\ \A m \in Msg : held(m) = {} \/ last[m] \in held(m)
           /\ i = [m \in Msg |-> IF held(m) = {} THEN None ELSE entry(m, last[m])]
    BY DEF Rebuilt
  <1>2. SUFFICES ASSUME NEW m \in Msg, NEW b \in Box
                 PROVE  /\ t[Eml(m, b)] = Raw <=> i[m] # None /\ i[m].box = b
                        /\ t[Sidecar(m, b)] # None <=> i[m] # None /\ i[m].box = b
    BY DEF Agrees
  <1>3. /\ t[Eml(m, b)] = Raw <=> t[Sidecar(m, b)] # None
        /\ \A c \in Box : t[Sidecar(m, b)] # None /\ t[Sidecar(m, c)] # None => b = c
    BY DEF Consistent
  <1>4. CASE held(m) = {}
    BY <1>1, <1>3, <1>4
  <1>5. CASE held(m) # {}
    <2>1. last[m] \in Box /\ t[Sidecar(m, last[m])] # None
      BY <1>1, <1>5
    <2>2. entry(m, last[m]) \in Entry
      BY <2>1, TreeContents DEF Entry
    <2>3. i[m] = entry(m, last[m]) /\ i[m] # None /\ i[m].box = last[m]
      BY <1>1, <1>5, <2>2, EntryAssumption
    <2>4. t[Sidecar(m, b)] # None <=> last[m] = b
      BY <1>3, <2>1
    <2> QED
      BY <1>3, <2>3, <2>4
  <1> QED
    BY <1>4, <1>5

\* A tree that some index describes holds no half message and no second copy.
LEMMA AgreesConsistent ==
    ASSUME NEW t, NEW i, Agrees(t, i)
    PROVE  Consistent(t)
  BY DEF Agrees, Consistent

\* A step that leaves the files, the index and the saved state alone.
LEMMA UntouchedFiledInv ==
    ASSUME TypeInv, FiledInv, pc # "idle", pc \notin {"apply", "commit", "save index"},
           pc' \notin {"save index"}, pc' = "commit" => edits = NoEdits,
           UNCHANGED <<diskVars, edits, pending, ix>>
    PROVE  FiledInv'
  BY DEF FiledInv, QueuesEmpty, IndexFollows, CacheFollows, NextTree, diskVars,
     queueVars

\* Nothing is filed, nothing is queued and no cache is trusted.
LEMMA InitFiledInv == Init => FiledInv
  <1> SUFFICES ASSUME Init PROVE FiledInv
    OBVIOUS
  <1>1. Consistent(head)
    BY FilesAreFiles, NoneAssumption DEF Init, EmptyTree, Consistent
  <1> QED
    BY <1>1 DEF Init, FiledInv, QueuesEmpty, IndexFollows, CacheFollows

\* The end of a pass, with nothing queued.
LEMMA EndPassFiledInv ==
    ASSUME TypeInv, FiledInv, EndPass, pc # "save index",
           edits' = NoEdits, pending' = NoEdits,
           UNCHANGED <<head, dstate, dindex>>
    PROVE  FiledInv'
  BY DEF EndPass, FiledInv, QueuesEmpty, IndexFollows, CacheFollows

\* Opening a git store takes a fresh cache, or rebuilds the index from HEAD, which
\* then describes HEAD either way (git.rs open).
LEMMA BeginFiledInv ==
    ASSUME GitStore, TypeInv, FiledInv, NEW k \in {"backup", "refresh"}, Begin(k)
    PROVE  FiledInv'
  <1>1. /\ pc = "idle" /\ pc' \in {"enumerate", "changes"} /\ ix' \in OpenIndex
        /\ UNCHANGED <<diskVars, edits, pending>>
    BY DEF Begin, StartBackfill, StartReconcile, StartSync, StartEnumeration
  <1>2. /\ head \in Tree /\ wt \in Tree /\ edits = NoEdits /\ pending = NoEdits
        /\ edits \in Edits
    BY <1>1 DEF TypeInv, VarsOK, FiledInv, QueuesEmpty
  <1>3. Agrees(head, ix')
    <2>1. CASE dindex # None /\ dstate # None /\ dstate.saved
      BY <1>1, <2>1 DEF OpenIndex, Trusted, GitStore, FiledInv, CacheFollows
    <2>2. CASE ~(dindex # None /\ dstate # None /\ dstate.saved)
      <3>1. ix' \in Rebuilt(head)
        BY <1>1, <2>2 DEF OpenIndex, Trusted, GitStore
      <3> QED
        BY <1>2, <3>1, RebuiltAgrees DEF FiledInv
    <2> QED
      BY <2>1, <2>2
  <1>4. /\ Overlay(NoEdits, NoEdits) = NoEdits /\ BuildTree(head, NoEdits, wt) = head
        /\ Buildable(NoEdits, wt)
    BY <1>2, EmptyTypes, NoEditsKeep
  <1> QED
    BY <1>1, <1>2, <1>3, <1>4 DEF FiledInv, QueuesEmpty, IndexFollows, CacheFollows,
       NextTree, diskVars, queueVars

\* Each event keeps the next commit in step with the index (dir.rs apply).
LEMMA ApplyFiledInv ==
    ASSUME TypeInv, FiledInv, NEW m \in Msg,
           ApplyAdded(m) \/ ApplyUpdated(m) \/ ApplyDeleted(m)
    PROVE  FiledInv'
  <1>1. pc = "apply" /\ Files \in Stage /\ Follows(head, Files, ix)
    BY AppliedFollows DEF ApplyAdded, ApplyUpdated, ApplyDeleted
  <1>2. head \in Tree /\ ix \in Index /\ pending = NoEdits /\ wt \in Tree
    BY <1>1 DEF TypeInv, VarsOK, FiledInv, QueuesEmpty
  <1>3. \E s \in Stage, e \in Entry \cup {None} :
           Applied(s, m, e) /\ Follows(head, s, [ix EXCEPT ![m] = e])
    <2>1. ix[m] \in Entry \cup {None}
      BY <1>2 DEF Index
    <2>2. CASE ApplyAdded(m)
      <3>1. metas[m] \in Meta
        BY <2>2 DEF ApplyAdded, TypeInv, VarsOK, MetadataCollected
      <3> QED
        BY <1>1, <1>2, <2>1, <2>2, <3>1, AddType, AddFollows DEF ApplyAdded
    <2>3. CASE ApplyUpdated(m)
      <3>1. metas[m] \in Meta
        BY <2>3 DEF ApplyUpdated, TypeInv, VarsOK, MetadataCollected
      <3> QED
        BY <1>1, <1>2, <2>1, <2>3, <3>1, UpdateType, UpdateFollows DEF ApplyUpdated
    <2>4. CASE ApplyDeleted(m)
      <3>1. CASE Known(m)
        BY <1>1, <1>2, <2>1, <2>4, <3>1, DeleteType, DeleteFollows DEF ApplyDeleted, Known
      <3>2. CASE ~Known(m)
        <4>1. [ix EXCEPT ![m] = None] = ix
          BY <1>2, <3>2 DEF Known, Index
        <4> QED
          BY <1>1, <2>4, <3>2, <4>1 DEF ApplyDeleted
      <3> QED
        BY <3>1, <3>2
    <2> QED
      BY <2>2, <2>3, <2>4
  <1>4. PICK s \in Stage, e \in Entry \cup {None} :
           Applied(s, m, e) /\ Follows(head, s, [ix EXCEPT ![m] = e])
    BY <1>3
  <1>5. /\ wt' = s.wt /\ edits' = s.ed /\ ix' = [ix EXCEPT ![m] = e] /\ pc' = "apply"
        /\ UNCHANGED <<head, dstate, dindex, pending>>
    BY <1>1, <1>4 DEF Applied
  <1>6. Overlay(pending', edits') = s.ed
    BY <1>2, <1>5, NoEditsKeep DEF Stage
  <1> QED
    BY <1>1, <1>2, <1>4, <1>5, <1>6 DEF Follows, FiledInv, QueuesEmpty, IndexFollows,
       CacheFollows, NextTree

\* So do the steps of a checkpoint (git.rs checkpoint) and those between batches.
LEMMA WriteFiledInv == GitStore /\ TypeInv /\ FiledInv /\ Write => FiledInv'
  <1> SUFFICES ASSUME GitStore, TypeInv, FiledInv, Write PROVE FiledInv'
    OBVIOUS
  <1> USE DEF serverVars, diskVars, queueVars, memVars, collectVars, faultVars
  <1>0. /\ head \in Tree /\ wt \in Tree /\ edits \in Edits /\ pending \in Edits
        /\ NoEdits \in Edits
    BY EmptyTypes DEF TypeInv, VarsOK
  <1>1. ASSUME NEW d \in {Day[m] : m \in Msg}, FinalizeDay(d) \/ StartPastDay(d)
        PROVE  FiledInv'
    BY <1>1, UntouchedFiledInv DEF FinalizeDay, StartPastDay
  <1>2. CASE BackfillComplete
    BY <1>2, UntouchedFiledInv DEF BackfillComplete
  <1>3. CASE StartFinal
    <2>1. edits = NoEdits
      BY <1>3 DEF StartFinal, FiledInv, QueuesEmpty
    <2> QED
      BY <1>3, <2>1, UntouchedFiledInv DEF StartFinal
  <1>4. ASSUME NEW m \in Msg, ApplyAdded(m) \/ ApplyUpdated(m) \/ ApplyDeleted(m)
        PROVE  FiledInv'
    BY <1>4, ApplyFiledInv
  <1>5. CASE ApplyEnds
    <2>1. /\ pc = "apply" /\ pc' = "commit" /\ pending = NoEdits
          /\ pending' = Overlay(pending, edits) /\ edits' = NoEdits
          /\ UNCHANGED <<diskVars, ix>>
      BY <1>5 DEF ApplyEnds, GitStore, FiledInv, QueuesEmpty
    <2>2. Overlay(pending', edits') = Overlay(pending, edits)
      BY <1>0, <2>1, NoEditsKeep, OverlayType
    <2> QED
      BY <2>1, <2>2 DEF FiledInv, QueuesEmpty, IndexFollows, CacheFollows, NextTree
  <1>6. CASE Commit
    <2>1. /\ pc = "commit" /\ pc' = "save state" /\ edits = NoEdits
          /\ head' = BuildTree(head, pending, wt) /\ pending' = NoEdits
          /\ \/ head' = head /\ dstate' = dstate
             \/ dstate' = IF dstate # None THEN [dstate EXCEPT !.saved = FALSE] ELSE dstate
          /\ UNCHANGED <<wt, dindex, edits, ix>>
      BY <1>6 DEF Commit, GitStore, FiledInv, QueuesEmpty
    <2>2. Overlay(pending, edits) = pending
      BY <1>0, <2>1, NoEditsKeep
    <2>3. Agrees(head', ix)
      BY <2>1, <2>2 DEF FiledInv, IndexFollows, NextTree
    <2>4. head' \in Tree
      BY <1>0, <2>1, BuildTreeType
    <2>5. /\ Overlay(NoEdits, NoEdits) = NoEdits /\ BuildTree(head', NoEdits, wt) = head'
          /\ Buildable(NoEdits, wt)
      BY <1>0, <2>4, NoEditsKeep
    <2>6. IndexFollows' /\ QueuesEmpty' /\ Consistent(head)'
      BY <2>1, <2>3, <2>5, AgreesConsistent DEF IndexFollows, QueuesEmpty, NextTree
    <2>7. CacheFollows'
      <3>1. CASE head' = head /\ dstate' = dstate
        BY <2>1, <3>1 DEF FiledInv, CacheFollows
      <3>2. CASE ~(head' = head /\ dstate' = dstate)
        <4>1. dstate' = None \/ dstate'.saved = FALSE
          BY <2>1, <3>2 DEF TypeInv, VarsOK, State
        <4> QED
          BY <4>1 DEF CacheFollows
      <3> QED
        BY <3>1, <3>2
    <2> QED
      BY <2>6, <2>7 DEF FiledInv
  <1>7. CASE SaveState
    BY <1>7 DEF SaveState, FiledInv, QueuesEmpty, IndexFollows, CacheFollows, NextTree
  <1>8. CASE SaveIndex
    <2>1. /\ pc = "save index" /\ dindex' = ix /\ UNCHANGED <<wt, head, dstate, pending>>
          /\ edits = NoEdits /\ edits' = NoEdits /\ pending = NoEdits
      BY <1>8 DEF SaveIndex, FiledInv, QueuesEmpty
    <2>2. /\ Overlay(NoEdits, NoEdits) = NoEdits /\ BuildTree(head, NoEdits, wt) = head
      BY <1>0, NoEditsKeep
    <2>3. Agrees(head, ix) /\ Agrees(head, dindex')
      BY <2>1, <2>2 DEF FiledInv, IndexFollows, NextTree
    <2>4. /\ pc' \in {"enumerate", "apply days", "changes", "idle"}
          /\ pc' = "idle" \/ ix' = ix
      BY <1>8 DEF SaveIndex, StartSync, EndPass
    <2> QED
      BY <1>0, <2>1, <2>2, <2>3, <2>4, NoEditsKeep DEF FiledInv, QueuesEmpty,
         IndexFollows, CacheFollows, NextTree
  <1> QED
    BY <1>1, <1>2, <1>3, <1>4, <1>5, <1>6, <1>7, <1>8 DEF Write

\* Reading the account and planning writes no file (collect, diff, plan).
LEMMA CollectFiledInv == TypeInv /\ FiledInv /\ Collect => FiledInv'
  <1> SUFFICES ASSUME TypeInv, FiledInv, Collect PROVE FiledInv'
    OBVIOUS
  <1> USE DEF serverVars, diskVars, queueVars, memVars, collectVars, faultVars
  <1>1. CASE \E m \in Msg : Enumerate(m) \/ SkipAfterLostAnchor(m)
    BY <1>1, UntouchedFiledInv DEF Enumerate, SkipAfterLostAnchor
  <1>2. CASE EnumerationEnds
    BY <1>2, UntouchedFiledInv DEF EnumerationEnds
  <1>3. CASE \E upto \in Version : ChangesPage(upto)
    BY <1>3, UntouchedFiledInv DEF ChangesPage
  <1>4. CASE StateTooOld
    BY <1>4, UntouchedFiledInv DEF StateTooOld, StartReconcile, StartEnumeration
  <1>5. CASE PlanSync
    <2>1. pc = "plan" /\ UNCHANGED <<diskVars, edits, pending>>
      BY <1>5 DEF PlanSync
    <2>2. EndPass \/ (pc' = "apply days" /\ UNCHANGED ix)
      BY <1>5 DEF PlanSync
    <2>3. edits' = NoEdits /\ pending' = NoEdits
      BY <2>1 DEF FiledInv, QueuesEmpty
    <2> QED
      BY <2>1, <2>2, <2>3, EndPassFiledInv, UntouchedFiledInv
  <1>6. CASE PlanReconcile
    BY <1>6, UntouchedFiledInv DEF PlanReconcile
  <1> QED
    BY <1>1, <1>2, <1>3, <1>4, <1>5, <1>6 DEF Collect

\* A change of the account does not touch the store.
LEMMA AccountFiledInv == FiledInv /\ Account => FiledInv'
  <1> SUFFICES ASSUME FiledInv, Account PROVE FiledInv'
    OBVIOUS
  <1>1. PICK m \in Msg : \E x \in Meta \cup {None} : ServerStep(m, x)
    BY DEF Account, Arrive, Modify, Destroy
  <1> QED
    BY <1>1 DEF ServerStep, FiledInv, QueuesEmpty, IndexFollows, CacheFollows,
       NextTree, diskVars, queueVars, memVars

\* A kill leaves HEAD and the saved state as they were, and no queue.
LEMMA CrashLeaves ==
    ASSUME GitStore, Abandon(TRUE)
    PROVE  /\ edits' = NoEdits /\ pending' = NoEdits
           /\ pc # "save index" /\ UNCHANGED <<head, dstate, dindex>>
  BY DEF GitStore, Abandon, Queues, Torn, diskVars

\* An error, a cancellation or a kill keeps HEAD, its index cache and the queues
\* in step: what was queued for a commit that did not happen is forgotten with
\* the process, and the commit never fails (build_tree finds every file).
LEMMA StopFiledInv ==
    GitStore /\ TypeInv /\ FiledInv /\ (Stop \/ Cancel \/ Fail \/ Crash) => FiledInv'
  <1> SUFFICES ASSUME GitStore, TypeInv, FiledInv, Stop \/ Cancel \/ Fail \/ Crash
               PROVE  FiledInv'
    OBVIOUS
  <1> USE DEF serverVars, diskVars, queueVars, memVars, collectVars, faultVars
  <1>1. CASE FetchFails \/ Interrupted
    <2>1. /\ EndPass /\ UNCHANGED <<diskVars, edits, pending>>
          /\ pc \in {"day", "apply days", "changes", "enumerate"}
      BY <1>1 DEF FetchFails, Interrupted, ToFetch
    <2>2. edits' = NoEdits /\ pending' = NoEdits
      BY <2>1 DEF FiledInv, QueuesEmpty
    <2> QED
      BY <2>1, <2>2, EndPassFiledInv
  <1>2. CASE BuildTreeFails
    <2>1. pc = "commit" /\ edits = NoEdits /\ ~Buildable(pending, wt)
      BY <1>2 DEF BuildTreeFails, FiledInv, QueuesEmpty
    <2>2. pending \in Edits /\ head \in Tree /\ wt \in Tree /\ NoEdits \in Edits
      BY EmptyTypes DEF TypeInv, VarsOK
    <2>3. Overlay(pending, edits) = pending
      BY <2>1, <2>2, NoEditsKeep
    <2> QED
      BY <2>1, <2>3 DEF FiledInv, IndexFollows
  <1>3. CASE Restart
    BY <1>3 DEF Restart, FiledInv, QueuesEmpty, IndexFollows, CacheFollows
  <1>4. CASE Cancel
    BY <1>4 DEF Cancel, FiledInv, QueuesEmpty, IndexFollows, CacheFollows, NextTree
  <1>5. CASE Fail
    <2>1. fails \in Nat /\ fails < 0
      BY <1>5 DEF Fail, GitStore, TypeInv, VarsOK
    <2> QED
      BY <2>1
  <1>6. CASE Crash
    BY <1>6, CrashLeaves, EndPassFiledInv DEF Crash
  <1> QED
    BY <1>1, <1>2, <1>3, <1>4, <1>5, <1>6 DEF Stop

\* Every step of a git store, and every stutter.
LEMMA FiledInvStep == GitStore /\ TypeInv /\ FiledInv /\ [Next]_vars => FiledInv'
  <1> SUFFICES ASSUME GitStore, TypeInv, FiledInv, [Next]_vars PROVE FiledInv'
    OBVIOUS
  <1>1. CASE UNCHANGED vars
    BY <1>1 DEF vars, diskVars, queueVars, memVars, FiledInv, QueuesEmpty,
       IndexFollows, CacheFollows, NextTree
  <1>2. CASE Next
    BY <1>2, AccountFiledInv, BeginFiledInv, CollectFiledInv, WriteFiledInv,
       StopFiledInv DEF Next, Engine
  <1> QED
    BY <1>1, <1>2

\* In a git store no cancellation or kill outside the saving of state.json and
\* index.json, and no order of server changes, moves, cancellations and
\* restarts, ever commits half a message or two copies of one: in HEAD every
\* .eml has its sidecar, every sidecar its .eml, and no message is filed in
\* two mailboxes (apply_message_added/_updated/_deleted, rebuild_index_from_head,
\* build_tree and checkpoint together).
THEOREM ArchiveWellFiled == GitStore => (Spec => []WellFiled)
  <1> SUFFICES ASSUME GitStore PROVE Spec => []WellFiled
    OBVIOUS
  <1>1. Init => TypeInv /\ FiledInv
    BY InitTypeInv, InitFiledInv
  <1>2. TypeInv /\ FiledInv /\ [Next]_vars => (TypeInv /\ FiledInv)'
    BY TypeInvStep, FiledInvStep
  <1>3. FiledInv => WellFiled
    BY DEF FiledInv, Consistent, WellFiled, Archive, GitStore
  <1> QED
    BY <1>1, <1>2, <1>3, PTL DEF Spec

-----------------------------------------------------------------------------
(* A git store neither removes a message without cause nor misses one that *)
(* its cursor covers, whatever is cancelled or killed.                     *)

\* Paging goes on behind the last message of a page even when it is gone.
AnchorKept == LosesAnchor = FALSE

\* An enumeration that ends early never ends within a day of mail.
WholeDays == MaxCancels = 0 \/ \A m, n \in Msg : Day[m] = Day[n] => m = n

-----------------------------------------------------------------------------
(* Why a message that leaves HEAD had to.                                   *)

\* What is not there was never created or has been destroyed; no change is
\* later than the account's state.
AccountInv ==
    \A m \in Msg : /\ changed[m] <= version
                   /\ created[m] = 0 <=> changed[m] = 0
                   /\ Alive(m) => created[m] # 0

\* No cursor is ahead of the account; a completed backfill leaves a state.
CursorOK(s) ==
    /\ s.source <= version
    /\ s.backfill = None => s.source # 0
    /\ s.backfill # None => 0 < s.backfill.start /\ s.backfill.start <= version

\* How the cursor of a pass, the one it works towards and the saved one lie.
CursorInv ==
    /\ target <= version
    /\ dstate # None => CursorOK(dstate)
    /\ pc # "idle" => CursorOK(st)
    /\ stage = "backfill" => Acknowledged = 0
    /\ stage \in {"sync", "reconcile", "past day"} =>
         st.backfill = None /\ Acknowledged = st.source /\ st.source <= target
    /\ stage = "final" =>
         /\ st.backfill = None /\ st.source = target
         /\ Acknowledged # 0 /\ Acknowledged <= target
    /\ stage = "done" /\ pc # "idle" =>
         /\ st.backfill = None /\ Acknowledged \in {0, st.source}
         /\ pc = "save index" => Acknowledged = st.source

\* What was collected of a message holds unless it changed after the state
\* that the pass acknowledges.
Since == IF stage = "backfill" THEN st.backfill.start ELSE target
Fresh(m) == metas[m] = meta[m] \/ changed[m] > Since
MetadataFresh ==
    /\ stage \in {"backfill", "reconcile"} => \A m \in seen : Fresh(m)
    /\ \A m \in plan.add \cup plan.update \cup batch.add \cup batch.update : Fresh(m)

\* A reconciliation sees every message that is there and has not changed
\* since, unless it is cancelled, and then it goes no further.
EnumerationCovers ==
    stage = "reconcile" =>
        /\ pc = "enumerate" =>
             \A m \in Msg : Alive(m) /\ changed[m] <= target => m \in seen \cup unread
        /\ pc = "plan" /\ ~cancel =>
             \A m \in Msg : Alive(m) /\ changed[m] <= target => m \in seen

\* What a change list calls destroyed does not come back.
DestroyedForGood == \A m \in delta.destroyed : ~Alive(m) /\ changed[m] # 0

\* A message is deleted because it should not be there, or has changed after
\* the state that the pass acknowledges.
Unwanted(m) == changed[m] > target \/ ~Expected(m)
DeletionsJustified ==
    /\ stage # "final" => batch.delete = {}
    /\ ~(pc = "apply days" /\ cancel) =>
         \A m \in plan.delete \cup batch.delete : Unwanted(m)

\* A message that HEAD has and the index of the pass has not is about to leave.
LeavesForAReason ==
    pc # "idle" => \A m \in Msg : Held(m) /\ ~Known(m) => stage = "final" /\ Unwanted(m)

ReasonInv ==
    /\ AccountInv /\ CursorInv /\ MetadataFresh /\ EnumerationCovers
    /\ DestroyedForGood /\ DeletionsJustified /\ LeavesForAReason

-----------------------------------------------------------------------------
(* Why a message that the cursor covers is there.                           *)

NeverCancelled == MaxCancels = 0 => ~cancel

\* A message that the archive should have, in a state up to upto.
Due(m, upto) == 0 < changed[m] /\ changed[m] <= upto /\ Expected(m)

\* A backfill is in order of days: what it has collected is not later than what
\* it has not, and a day is only finalized once a later one has begun.
InOrder ==
    stage = "backfill" =>
        /\ \A n \in seen \cup unread : st.backfill.last < Day[n]
        /\ \A k \in seen, n \in unread : Day[k] <= Day[n]
        /\ pc = "day" => \A n \in unread : \E k \in seen : Day[k] < Day[n]

\* A backfill has every message of the days it has finalized, and will come to
\* the others, unless it is cancelled, and then before their day.
BackfillCovers ==
    stage = "backfill" =>
        \A m \in Msg : Due(m, st.backfill.start) =>
            \/ Day[m] <= st.backfill.last /\ (Known(m) \/ m \in batch.add)
            \/ Day[m] > st.backfill.last /\ m \in seen \cup unread
            \/ /\ Day[m] > st.backfill.last
               /\ cancel /\ \A n \in seen : Day[n] < Day[m]

\* A completed backfill has every message its first catch-up will not ask for.
DoneCovers ==
    stage = "done" /\ pc # "idle" => \A m \in Msg : Due(m, st.source) => Known(m)

\* A catch-up has been told of every message that changed.
DeltaCovers ==
    stage = "sync" /\ pc \in {"changes", "plan"} =>
        \A m \in Msg : Alive(m) /\ st.source < changed[m] /\ changed[m] <= target
            => m \in delta.created \cup delta.updated

\* What the cursor of a pass will cover is there or about to be added, unless
\* the pass is cancelled before it takes up its first batch.
PassCovers ==
    /\ pc \in {"apply days", "apply", "commit", "save state", "save index"}
    /\ stage \notin {"backfill", "done"} /\ ~(pc = "apply days" /\ cancel)
    => \A m \in Msg : Due(m, target) => Known(m) \/ m \in plan.add \cup batch.add

CoverInv ==
    /\ NeverCancelled /\ InOrder /\ BackfillCovers /\ DoneCovers /\ DeltaCovers
    /\ PassCovers /\ NoMessageLost /\ BackfilledDaysHeld

-----------------------------------------------------------------------------
(* Facts the steps have in common.                                          *)

\* Every state of the account that is named anywhere is a number.
LEMMA StatesAreNumbers ==
    ASSUME VarsOK
    PROVE  /\ version \in Nat /\ target \in Nat /\ Acknowledged \in Nat
           /\ \A m \in Msg : changed[m] \in Nat /\ created[m] \in Nat /\ Day[m] \in Nat \ {0}
           /\ st.source \in Nat
           /\ st.backfill # None => st.backfill.start \in Nat /\ st.backfill.last \in Nat
           /\ dstate # None => /\ dstate.source \in Nat
                               /\ dstate.backfill # None => /\ dstate.backfill.start \in Nat
                                                            /\ dstate.backfill.last \in Nat
  <1>1. Version \subseteq Nat
    BY BoundAssumption DEF Version
  <1>2. /\ version \in Nat /\ target \in Nat
        /\ \A m \in Msg : changed[m] \in Nat /\ created[m] \in Nat /\ Day[m] \in Nat \ {0}
    BY <1>1, DayAssumption DEF VarsOK
  <1>3. \A s \in State : /\ s.source \in Nat
                         /\ s.backfill # None => /\ s.backfill.start \in Nat
                                                 /\ s.backfill.last \in Nat
    BY <1>1 DEF State, Cursor
  <1>4. st \in State /\ dstate \in State \cup {None}
    BY DEF VarsOK
  <1> QED
    BY <1>2, <1>3, <1>4 DEF Acknowledged

\* A tree holds what an index that agrees with it knows.
LEMMA AgreesHolds ==
    ASSUME NEW t, NEW i \in Index, Agrees(t, i), NEW m \in Msg
    PROVE  (\E b \in Box : t[Eml(m, b)] = Raw /\ t[Sidecar(m, b)] # None) <=> i[m] # None
  BY DEF Agrees, Index, Entry

\* With nothing queued, an index that agrees with the next commit agrees with
\* HEAD.
LEMMA NothingQueued ==
    ASSUME NEW t \in Tree, NEW w \in Tree, NEW i,
           Agrees(BuildTree(t, Overlay(NoEdits, NoEdits), w), i)
    PROVE  Agrees(t, i)
  <1>1. Overlay(NoEdits, NoEdits) = NoEdits /\ BuildTree(t, NoEdits, w) = t
    BY NoEditsKeep, EmptyTypes
  <1> QED
    BY <1>1

\* Outside an application and its commit the index knows what HEAD holds.
LEMMA KnownIsHeld ==
    ASSUME GitStore, TypeInv, FiledInv, pc \notin {"idle", "apply", "commit"}
    PROVE  \A m \in Msg : Held(m) <=> Known(m)
  <1>1. edits = NoEdits /\ pending = NoEdits /\ head \in Tree /\ wt \in Tree /\ ix \in Index
    BY DEF FiledInv, QueuesEmpty, TypeInv, VarsOK
  <1>2. Agrees(head, ix)
    BY <1>1, NothingQueued DEF FiledInv, IndexFollows, NextTree
  <1> QED
    BY <1>1, <1>2, AgreesHolds DEF Known, Held, Archive, GitStore

\* So it does after a step that leads there.
LEMMA KnownIsHeldNext ==
    ASSUME GitStore, TypeInv', FiledInv', pc' \notin {"idle", "apply", "commit"}
    PROVE  \A m \in Msg : Held(m)' <=> Known(m)'
  <1>1. /\ edits' = NoEdits /\ pending' = NoEdits /\ head' \in Tree /\ wt' \in Tree
        /\ ix' \in Index
    BY DEF FiledInv, QueuesEmpty, TypeInv, VarsOK
  <1>2. Agrees(head', ix')
    BY <1>1, NothingQueued DEF FiledInv, IndexFollows, NextTree
  <1> QED
    BY <1>1, <1>2, AgreesHolds DEF Known, Held, Archive, GitStore

\* What a change of the account does, and to what: one message, which is new
\* or there, changes after every state named so far.
ChangedNow(m) ==
    /\ version' = version + 1
    /\ changed' = [changed EXCEPT ![m] = version + 1] /\ created'[m] # 0
    /\ \A n \in Msg \ {m} : meta'[n] = meta[n] /\ created'[n] = created[n]
    /\ created[m] = 0 \/ Alive(m)
    /\ UNCHANGED <<wt, head, dstate, dindex, edits, pending, st, ix, cancel>>
    /\ UNCHANGED <<pc, kind, stage, target, delta, unread, anchor, seen, metas, plan,
                   batch, crashes, fails, cancels>>

\* Every change of the account is one of these.
LEMMA AccountChanges ==
    ASSUME TypeInv, AccountInv, Account
    PROVE  \E m \in Msg : ChangedNow(m)
  <1> USE DEF ServerStep, diskVars, queueVars, memVars, collectVars, faultVars
  <1>1. PICK m \in Msg : \/ \E x \in Meta : Arrive(m, x) \/ Modify(m, x)
                         \/ Destroy(m)
    BY DEF Account
  <1>2. /\ version \in Nat /\ meta \in [Msg -> Meta \cup {None}]
        /\ created \in [Msg -> Version]
    BY StatesAreNumbers DEF TypeInv, VarsOK
  <1>3. PICK x \in Meta \cup {None} : ServerStep(m, x)
    BY <1>1 DEF Arrive, Modify, Destroy
  <1>4. \/ created' = [created EXCEPT ![m] = version + 1] /\ created[m] = 0
        \/ created' = created /\ Alive(m)
    BY <1>1 DEF Arrive, Modify, Destroy
  <1>5. created'[m] # 0 /\ \A n \in Msg \ {m} : created'[n] = created[n]
    BY <1>2, <1>4 DEF AccountInv
  <1>6. \A n \in Msg \ {m} : meta'[n] = meta[n]
    BY <1>2, <1>3
  <1> QED
    BY <1>3, <1>4, <1>5, <1>6 DEF ChangedNow

-----------------------------------------------------------------------------
(* ReasonInv holds to begin with and at every step.                         *)

\* Before the first pass nothing is filed and no state is acknowledged.
LEMMA InitReasonInv == Init => ReasonInv
  <1> SUFFICES ASSUME Init PROVE ReasonInv
    OBVIOUS
  <1>1. AccountInv
    BY DEF Init, ServerInit, AccountInv
  <1>2. /\ pc = "idle" /\ stage = "done" /\ target = 0 /\ version = 1 /\ dstate = None
        /\ delta = NoChanges /\ plan = NothingPlanned /\ batch = NothingPlanned
    BY DEF Init, ServerInit
  <1> QED
    BY <1>1, <1>2 DEF ReasonInv, CursorInv, MetadataFresh, EnumerationCovers,
       DestroyedForGood, DeletionsJustified, LeavesForAReason, NothingPlanned, NoChanges

\* A change of the account is later than every state a pass has seen, so it
\* excuses whatever the pass does to that message.
LEMMA AccountReasonInv == TypeInv /\ ReasonInv /\ Account => ReasonInv'
  <1> SUFFICES ASSUME TypeInv, ReasonInv, Account PROVE ReasonInv'
    OBVIOUS
  <1>1. PICK m \in Msg : ChangedNow(m)
    BY AccountChanges DEF ReasonInv
  <1>2. /\ version \in Nat /\ target \in Nat /\ Acknowledged \in Nat /\ VarsOK
        /\ \A n \in Msg : changed[n] \in Nat /\ created[n] \in Nat
        /\ changed \in [Msg -> Version] /\ version' = version + 1
    BY <1>1, StatesAreNumbers DEF TypeInv, VarsOK, ChangedNow
  <1>3. /\ changed'[m] = version + 1 /\ changed'[m] \in Nat /\ created'[m] # 0
        /\ \A n \in Msg \ {m} : /\ changed'[n] = changed[n] /\ meta'[n] = meta[n]
                                /\ created'[n] = created[n]
    BY <1>1, <1>2 DEF ChangedNow
  <1>4. /\ UNCHANGED <<wt, head, dstate, dindex, edits, pending, st, ix, cancel>>
        /\ UNCHANGED <<pc, kind, stage, target, delta, unread, anchor, seen, metas, plan,
                       batch, crashes, fails, cancels>>
    BY <1>1 DEF ChangedNow
  <1>5. AccountInv'
    BY <1>2, <1>3 DEF ReasonInv, AccountInv, Alive
  <1>6. CursorInv'
    <2>1. Acknowledged' = Acknowledged
      BY <1>4 DEF Acknowledged
    <2>2. \A v \in Nat : v <= version => v <= version'
      BY <1>2
    <2>3. dstate # None => CursorOK(dstate)'
      BY <1>2, <1>4, <2>2, StatesAreNumbers DEF ReasonInv, CursorInv, CursorOK
    <2>4. pc # "idle" => CursorOK(st)'
      BY <1>2, <1>4, <2>2, StatesAreNumbers DEF ReasonInv, CursorInv, CursorOK
    <2>5. target' <= version'
      BY <1>2, <1>4, <2>2 DEF ReasonInv, CursorInv, CursorOK
    <2> QED
      BY <1>4, <2>1, <2>3, <2>4, <2>5 DEF ReasonInv, CursorInv
  <1>7. Since \in Nat /\ Since <= version /\ Since' = Since
    <2>1. CASE stage = "backfill"
      <3>1. pc # "idle" /\ st.backfill # None
        BY <2>1 DEF TypeInv, StageOfStep
      <3> QED
        BY <1>2, <1>4, <2>1, <3>1, StatesAreNumbers DEF ReasonInv, CursorInv, CursorOK, Since
    <2>2. CASE stage # "backfill"
      BY <1>2, <1>4, <2>2 DEF ReasonInv, CursorInv, Since
    <2> QED
      BY <2>1, <2>2
  <1>8. ASSUME NEW n \in Msg, Fresh(n) PROVE Fresh(n)'
    BY <1>2, <1>3, <1>4, <1>7, <1>8 DEF Fresh
  <1>9. MetadataFresh'
    <2>1. /\ seen \subseteq Msg
          /\ plan.add \cup plan.update \cup batch.add \cup batch.update \subseteq Msg
      BY <1>2 DEF VarsOK, Planned
    <2> QED
      BY <1>4, <1>8, <2>1 DEF ReasonInv, MetadataFresh
  <1>10. EnumerationCovers'
    BY <1>2, <1>3, <1>4 DEF ReasonInv, CursorInv, EnumerationCovers, Alive
  <1>11. DestroyedForGood'
    <2>1. delta.destroyed \subseteq Msg
      BY <1>2 DEF VarsOK, Changes
    <2>2. m \notin delta.destroyed
      BY <1>1 DEF ChangedNow, ReasonInv, DestroyedForGood, AccountInv
    <2> QED
      BY <1>3, <1>4, <2>1, <2>2 DEF ReasonInv, DestroyedForGood, Alive
  <1>12. ASSUME NEW n \in Msg PROVE Unwanted(n) => Unwanted(n)'
    <2>1. CASE n = m
      <3>1. target <= version
        BY DEF ReasonInv, CursorInv
      <3> QED
        BY <1>2, <1>3, <1>4, <2>1, <3>1 DEF Unwanted
    <2>2. CASE n # m
      BY <1>3, <1>4, <2>2 DEF Unwanted, Expected, Alive, Matches
    <2> QED
      BY <2>1, <2>2
  <1>13. DeletionsJustified'
    <2>1. plan.delete \cup batch.delete \subseteq Msg
      BY <1>2 DEF VarsOK, Planned
    <2> QED
      BY <1>4, <1>12, <2>1 DEF ReasonInv, DeletionsJustified
  <1>14. LeavesForAReason'
    BY <1>4, <1>12 DEF ReasonInv, LeavesForAReason, Held, Archive, Known
  <1> QED
    BY <1>5, <1>6, <1>9, <1>10, <1>11, <1>13, <1>14 DEF ReasonInv

\* A pass that ends, in whatever way, asks and promises nothing more.
LEMMA EndPassReasonInv ==
    ASSUME TypeInv, ReasonInv, EndPass, UNCHANGED <<serverVars, dstate>>
    PROVE  ReasonInv'
  <1>1. /\ version' = version /\ meta' = meta /\ created' = created /\ changed' = changed
        /\ dstate' = dstate /\ version \in Nat /\ Acknowledged' = Acknowledged
    BY StatesAreNumbers DEF serverVars, Acknowledged, TypeInv
  <1>2. /\ pc' = "idle" /\ stage' = "done" /\ target' = 0 /\ delta' = NoChanges
        /\ plan' = NothingPlanned /\ batch' = NothingPlanned
    BY DEF EndPass
  <1>3. AccountInv'
    BY <1>1 DEF ReasonInv, AccountInv, Alive
  <1>4. CursorInv'
    <2>1. dstate' # None => CursorOK(dstate)'
      BY <1>1 DEF ReasonInv, CursorInv, CursorOK
    <2>2. target' <= version'
      BY <1>1, <1>2
    <2> QED
      BY <1>2, <2>1, <2>2 DEF CursorInv
  <1> QED
    BY <1>2, <1>3, <1>4 DEF ReasonInv, MetadataFresh, EnumerationCovers, DestroyedForGood,
       DeletionsJustified, LeavesForAReason, NothingPlanned, NoChanges

\* After a step that leaves nothing to commit, nothing is about to leave.
LEMMA NothingLeaves ==
    ASSUME GitStore, TypeInv', FiledInv', pc' \notin {"apply", "commit"}
    PROVE  LeavesForAReason'
  BY KnownIsHeldNext DEF LeavesForAReason

\* HEAD holds the same mail after a step that does not commit.
LEMMA HeldInHead ==
    ASSUME GitStore, head' = head
    PROVE  \A m \in Msg : Held(m)' <=> Held(m)
  BY DEF Held, Archive, GitStore

\* A batch that has just been taken up has removed nothing yet.
LEMMA NothingLeavesYet ==
    ASSUME GitStore, TypeInv, FiledInv, pc \notin {"idle", "apply", "commit"},
           head' = head, ix' = ix
    PROVE  LeavesForAReason'
  <1>1. \A m \in Msg : Known(m)' <=> Known(m)
    BY DEF Known
  <1> QED
    BY <1>1, HeldInHead, KnownIsHeld DEF LeavesForAReason

\* Only a deletion takes a message out of the index (dir.rs apply).
LEMMA EntryStays ==
    ASSUME NEW s, NEW m, NEW e \in Entry, NEW x \in Meta
    PROVE  UpdateEntry(s, m, e, x) \in Entry /\ AddEntry(s, m, e, x) \in Entry
  <1>1. [meta |-> x, box |-> x.box] \in Entry
    BY MetaAssumption DEF Entry
  <1>2. e # None
    BY EntryAssumption
  <1> QED
    BY <1>1, <1>2 DEF UpdateEntry, AddEntry

\* An addition always leaves the message in the index (dir.rs apply_message_added).
LEMMA EntryAdded ==
    ASSUME NEW s, NEW m, NEW e \in Entry \cup {None}, NEW x \in Meta
    PROVE  AddEntry(s, m, e, x) \in Entry
  <1>1. [meta |-> x, box |-> x.box] \in Entry
    BY MetaAssumption DEF Entry
  <1> QED
    BY <1>1, EntryStays DEF AddEntry

\* A step of a pass, in terms of what it must establish.
LEMMA PassReasonInv ==
    ASSUME ReasonInv, UNCHANGED serverVars, CursorInv', MetadataFresh',
           EnumerationCovers', DestroyedForGood', DeletionsJustified', LeavesForAReason'
    PROVE  ReasonInv'
  BY DEF ReasonInv, AccountInv, Alive, serverVars

\* A pass begins at a cursor that is behind the account (run_backup, run_refresh).
LEMMA BeginReasonInv ==
    ASSUME GitStore, TypeInv, ReasonInv, TypeInv', FiledInv',
           NEW k \in {"backup", "refresh"}, Begin(k)
    PROVE  ReasonInv'
  <1> DEFINE s == Opened(dstate)
             c == IF s.backfill # None THEN s.backfill
                  ELSE [start |-> version, last |-> 0]
  <1>1. /\ pc = "idle" /\ plan = NothingPlanned /\ batch = NothingPlanned /\ stage = "done"
        /\ version \in Nat /\ version # 0 /\ target \in Nat /\ target <= version
        /\ version' = version /\ dstate' = dstate /\ plan' = plan /\ batch' = batch
    BY StatesAreNumbers DEF Begin, TypeInv, VarsOK, NothingLeftOver, StageOfStep, ReasonInv,
       CursorInv, serverVars, diskVars
  <1>2. UNCHANGED serverVars
    BY DEF Begin
  <1>3. DestroyedForGood'
    <2>1. delta' = NoChanges \/ delta' = delta
      BY DEF Begin, StartBackfill, StartSync, StartReconcile
    <2> QED
      BY <1>2, <2>1 DEF ReasonInv, DestroyedForGood, NoChanges, Alive, serverVars
  <1>4. DeletionsJustified'
    BY <1>1 DEF DeletionsJustified, NothingPlanned
  <1>5. LeavesForAReason'
    <2>1. pc' \notin {"apply", "commit"}
      BY DEF Begin, StartBackfill, StartSync, StartReconcile, StartEnumeration
    <2> QED
      BY <2>1, NothingLeaves
  <1>6. CASE NeedsBackfill(s)
    <2>1. /\ stage' = "backfill" /\ st' = [s EXCEPT !.backfill = c] /\ seen' = {}
          /\ target' = target
      BY <1>6 DEF Begin, StartBackfill, StartEnumeration
    <2>2. dstate = None \/ dstate.backfill # None
      BY <1>1, <1>6 DEF ReasonInv, CursorInv, CursorOK, NeedsBackfill, Opened
    <2>3. s \in State /\ c \in Cursor /\ c # None
      <3>1. VarsOK /\ Opened(dstate) \in State
        BY OpenTypes DEF TypeInv
      <3>2. c \in Cursor
        BY <3>1 DEF Cursor, State, VarsOK
      <3> QED
        BY <3>1, <3>2, CursorAssumption
    <2>4. /\ s.source \in Nat /\ s.source <= version
          /\ c.start \in Nat /\ 0 < c.start /\ c.start <= version
      BY <1>1, <2>2, StatesAreNumbers DEF ReasonInv, CursorInv, CursorOK, TypeInv, Opened,
         DefaultState
    <2>5. st'.source = s.source /\ st'.backfill = c
      BY <2>1, <2>3 DEF State
    <2>6. Acknowledged' = 0
      BY <1>1, <2>2 DEF Acknowledged
    <2>7. dstate' # None => CursorOK(dstate)'
      BY <1>1 DEF ReasonInv, CursorInv, CursorOK
    <2> HIDE DEF s, c
    <2>8. CursorOK(st)'
      BY <1>1, <2>3, <2>4, <2>5 DEF CursorOK
    <2>9. CursorInv'
      BY <1>1, <2>1, <2>6, <2>7, <2>8 DEF CursorInv
    <2>10. MetadataFresh' /\ EnumerationCovers'
      BY <1>1, <2>1 DEF MetadataFresh, EnumerationCovers, NothingPlanned
    <2> QED
      BY <1>2, <1>3, <1>4, <1>5, <2>9, <2>10, PassReasonInv
  <1>7. CASE ~NeedsBackfill(s)
    <2>1. /\ dstate # None /\ s = dstate /\ st' = dstate
          /\ dstate.backfill = None /\ dstate.source \in Nat /\ dstate.source # 0
          /\ dstate.source <= version
      BY <1>1, <1>7, StatesAreNumbers DEF Begin, NeedsBackfill, Opened, DefaultState, ReasonInv,
         CursorInv, CursorOK, TypeInv
    <2>2. Acknowledged' = dstate.source
      BY <1>1, <2>1 DEF Acknowledged
    <2>3. CursorOK(dstate)' /\ CursorOK(st)'
      BY <1>1, <2>1 DEF CursorOK
    <2>4. CASE k = "backup"
      <3>1. stage' = "sync" /\ pc' = "changes" /\ target' = dstate.source
        BY <1>7, <2>1, <2>4 DEF Begin, StartSync
      <3>2. CursorInv'
        BY <1>1, <2>1, <2>2, <2>3, <3>1 DEF CursorInv
      <3>3. MetadataFresh' /\ EnumerationCovers'
        BY <1>1, <3>1 DEF MetadataFresh, EnumerationCovers, NothingPlanned
      <3> QED
        BY <1>2, <1>3, <1>4, <1>5, <3>2, <3>3, PassReasonInv
    <2>5. CASE k = "refresh"
      <3>1. /\ stage' = "reconcile" /\ pc' = "enumerate" /\ target' = version
            /\ seen' = {} /\ unread' = {m \in Msg : Day[m] > 0}
        BY <1>7, <2>1, <2>5 DEF Begin, StartReconcile, StartEnumeration
      <3>2. CursorInv'
        BY <1>1, <2>1, <2>2, <2>3, <3>1 DEF CursorInv
      <3>3. MetadataFresh' /\ EnumerationCovers'
        BY <1>1, <3>1, DayAssumption DEF MetadataFresh, EnumerationCovers, NothingPlanned
      <3> QED
        BY <1>2, <1>3, <1>4, <1>5, <3>2, <3>3, PassReasonInv
    <2> QED
      BY <2>4, <2>5
  <1> QED
    BY <1>6, <1>7

\* Collecting does not move the cursors.
LEMMA CollectReasonInv ==
    ASSUME GitStore, AnchorKept, TypeInv, FiledInv, ReasonInv, TypeInv', FiledInv', Collect
    PROVE  ReasonInv'
  <1> USE DEF serverVars, diskVars, queueVars, memVars, collectVars, faultVars
  <1>0. /\ version \in Nat /\ target \in Nat /\ Acknowledged \in Nat /\ st.source \in Nat
        /\ (st.backfill # None => st.backfill.start \in Nat)
        /\ \A m \in Msg : changed[m] \in Nat /\ Day[m] \in Nat
        /\ target <= version /\ (\A m \in Msg : changed[m] <= version)
    BY StatesAreNumbers DEF TypeInv, ReasonInv, CursorInv, AccountInv
  <1>1. ASSUME NEW m \in Msg, Enumerate(m) PROVE ReasonInv'
    <2>1. /\ pc = "enumerate" /\ pc' \in {"enumerate", "day"} /\ stage' = stage
          /\ (pc' = "day" => stage = "backfill")
          /\ target' = target /\ m \in unread
          /\ metas' = [metas EXCEPT ![m] = meta[m]] /\ seen' = seen \cup {m}
          /\ unread' = {n \in unread : Day[n] >= Day[m]} \ {m}
          /\ \A n \in unread : Alive(n) => Day[m] <= Day[n]
          /\ plan' = plan /\ batch' = batch /\ batch = NothingPlanned
          /\ plan = NothingPlanned /\ delta' = delta /\ st' = st /\ dstate' = dstate
          /\ UNCHANGED serverVars
      BY <1>1 DEF Enumerate, NextUp, Upcoming, TypeInv, NothingLeftOver, StageOfStep
    <2>2. CursorInv'
      BY <2>1 DEF ReasonInv, CursorInv, CursorOK, Acknowledged
    <2>3. MetadataFresh'
      <3>1. metas \in [Msg -> Meta \cup {None}] /\ seen \subseteq Msg
        BY DEF TypeInv, VarsOK
      <3>2. \A n \in seen' : Fresh(n)'
        BY <2>1, <3>1, <1>0, StageOfStep DEF Fresh, Since, ReasonInv, MetadataFresh, TypeInv,
           StageOfStep
      <3> QED
        BY <2>1, <3>2 DEF MetadataFresh, NothingPlanned
    <2>4. EnumerationCovers'
      <3>1. \A n \in unread : Alive(n) => n = m \/ n \in unread'
        BY <2>1, <1>0
      <3> QED
        BY <2>1, <3>1 DEF ReasonInv, EnumerationCovers, Alive
    <2>5. DestroyedForGood' /\ DeletionsJustified'
      BY <2>1 DEF ReasonInv, DestroyedForGood, DeletionsJustified, NothingPlanned, Alive
    <2>6. LeavesForAReason'
      BY <2>1, NothingLeaves
    <2> QED
      BY <2>1, <2>2, <2>3, <2>4, <2>5, <2>6, PassReasonInv
  <1>2. CASE EnumerationEnds
    <2>1. /\ pc = "enumerate" /\ pc' \in {"plan", "day"} /\ stage' = stage
          /\ (pc' = "day" => stage = "backfill")
          /\ target' = target /\ metas' = metas /\ seen' = seen /\ cancel' = cancel
          /\ (cancel \/ \A n \in unread : ~Alive(n))
          /\ plan' = plan /\ batch' = batch /\ batch = NothingPlanned
          /\ plan = NothingPlanned /\ delta' = delta /\ st' = st /\ dstate' = dstate
          /\ UNCHANGED serverVars
      BY <1>2 DEF EnumerationEnds, Upcoming, TypeInv, NothingLeftOver, StageOfStep, VarsOK
    <2>2. CursorInv'
      BY <2>1 DEF ReasonInv, CursorInv, CursorOK, Acknowledged
    <2>3. MetadataFresh'
      BY <2>1 DEF ReasonInv, MetadataFresh, Fresh, Since, NothingPlanned
    <2>4. EnumerationCovers'
      BY <2>1 DEF ReasonInv, EnumerationCovers, Alive
    <2>5. DestroyedForGood' /\ DeletionsJustified'
      BY <2>1 DEF ReasonInv, DestroyedForGood, DeletionsJustified, NothingPlanned, Alive
    <2>6. LeavesForAReason'
      BY <2>1, NothingLeaves
    <2> QED
      BY <2>1, <2>2, <2>3, <2>4, <2>5, <2>6, PassReasonInv
  <1>3. ASSUME NEW upto \in Version, ChangesPage(upto) PROVE ReasonInv'
    <2>1. /\ pc = "changes" /\ pc' \in {"changes", "plan"} /\ stage' = stage /\ stage = "sync"
          /\ target' = upto /\ upto \in target .. version
          /\ delta'.destroyed = delta.destroyed \cup Page(target, upto).destroyed
          /\ plan' = plan /\ batch' = batch /\ batch = NothingPlanned
          /\ plan = NothingPlanned /\ st' = st /\ dstate' = dstate
          /\ UNCHANGED serverVars
      BY <1>3 DEF ChangesPage, TypeInv, NothingLeftOver, StageOfStep
    <2>2. CursorInv'
      BY <1>0, <2>1 DEF ReasonInv, CursorInv, CursorOK, Acknowledged
    <2>3. MetadataFresh' /\ EnumerationCovers'
      BY <2>1 DEF MetadataFresh, EnumerationCovers, NothingPlanned
    <2>4. DestroyedForGood'
      <3>1. \A m \in Page(target, upto).destroyed : ~Alive(m) /\ changed[m] # 0
        BY <1>0 DEF Page, ChangedIn
      <3> QED
        BY <2>1, <3>1 DEF ReasonInv, DestroyedForGood, Alive
    <2>5. DeletionsJustified'
      BY <2>1 DEF DeletionsJustified, NothingPlanned
    <2>6. LeavesForAReason'
      BY <2>1, NothingLeaves
    <2> QED
      BY <2>1, <2>2, <2>3, <2>4, <2>5, <2>6, PassReasonInv
  <1>4. CASE StateTooOld
    <2>1. /\ pc = "changes" /\ stage = "sync" /\ stage' = "reconcile" /\ pc' = "enumerate"
          /\ target' = version /\ delta' = delta /\ st' = st /\ dstate' = dstate
          /\ seen' = {} /\ unread' = {m \in Msg : Day[m] > 0}
          /\ plan' = plan /\ batch' = batch /\ batch = NothingPlanned
          /\ plan = NothingPlanned /\ UNCHANGED serverVars
      BY <1>4 DEF StateTooOld, StartReconcile, StartEnumeration, TypeInv, NothingLeftOver,
         StageOfStep
    <2>2. CursorInv'
      BY <1>0, <2>1 DEF ReasonInv, CursorInv, CursorOK, Acknowledged
    <2>3. MetadataFresh' /\ EnumerationCovers'
      BY <2>1, DayAssumption DEF MetadataFresh, EnumerationCovers, NothingPlanned
    <2>4. DestroyedForGood' /\ DeletionsJustified'
      BY <2>1 DEF ReasonInv, DestroyedForGood, DeletionsJustified, NothingPlanned, Alive
    <2>5. LeavesForAReason'
      BY <2>1, NothingLeaves
    <2> QED
      BY <2>1, <2>2, <2>3, <2>4, <2>5, PassReasonInv
  <1>5. CASE PlanSync
    <2>1. CASE EndPass
      BY <1>5, <2>1, EndPassReasonInv DEF PlanSync
    <2>2. CASE ~EndPass
      <3> DEFINE touched == {m \in Deduped : Alive(m)}
      <3>1. /\ pc = "plan" /\ stage = "sync" /\ stage' = stage /\ pc' = "apply days"
            /\ plan' = [add    |-> {m \in touched : ~Known(m) /\ Matches(meta[m])},
                        update |-> {m \in touched : Known(m) /\ Matches(meta[m])},
                        delete |-> delta.destroyed \cup
                                   {m \in touched : Known(m) /\ ~Matches(meta[m])}]
            /\ metas' = [m \in Msg |-> IF m \in touched THEN meta[m] ELSE None]
            /\ target' = target /\ delta' = delta /\ st' = st /\ dstate' = dstate
            /\ batch' = batch /\ batch = NothingPlanned /\ UNCHANGED serverVars
        BY <1>5, <2>2 DEF PlanSync, TypeInv, NothingLeftOver
      <3>2. CursorInv'
        BY <3>1 DEF ReasonInv, CursorInv, CursorOK, Acknowledged
      <3>3. touched \subseteq Msg
        BY DEF Deduped, TypeInv, VarsOK, Changes
      <3>4. MetadataFresh'
        BY <3>1, <3>3 DEF MetadataFresh, Fresh, NothingPlanned
      <3>5. EnumerationCovers' /\ DestroyedForGood'
        BY <3>1 DEF ReasonInv, EnumerationCovers, DestroyedForGood, Alive
      <3>6. DeletionsJustified'
        <4>1. \A m \in plan'.delete : ~Expected(m)
          BY <3>1 DEF ReasonInv, DestroyedForGood, Expected
        <4> QED
          BY <3>1, <4>1 DEF DeletionsJustified, Unwanted, Expected, Alive, NothingPlanned
      <3>7. LeavesForAReason'
        BY <3>1, NothingLeaves
      <3> QED
        BY <3>1, <3>2, <3>4, <3>5, <3>6, <3>7, PassReasonInv
    <2> QED
      BY <2>1, <2>2
  <1>6. CASE PlanReconcile
    <2>1. /\ pc = "plan" /\ stage = "reconcile" /\ stage' = stage /\ pc' = "apply days"
          /\ plan' = [add    |-> {m \in seen : ~Known(m) /\ Matches(metas[m])},
                      update |-> {m \in seen : /\ Known(m) /\ Matches(metas[m])
                                               /\ ix[m].meta # metas[m]},
                      delete |-> {m \in seen : Known(m) /\ ~Matches(metas[m])}
                                 \cup {m \in Msg : Known(m) /\ m \notin seen}]
          /\ target' = target /\ delta' = delta /\ st' = st /\ dstate' = dstate
          /\ seen' = seen /\ metas' = metas /\ cancel' = cancel
          /\ batch' = batch /\ batch = NothingPlanned /\ UNCHANGED serverVars
      BY <1>6 DEF PlanReconcile, TypeInv, NothingLeftOver
    <2>2. CursorInv'
      BY <2>1 DEF ReasonInv, CursorInv, CursorOK, Acknowledged
    <2>3. MetadataFresh'
      BY <2>1 DEF ReasonInv, MetadataFresh, Fresh, Since, NothingPlanned
    <2>4. EnumerationCovers' /\ DestroyedForGood'
      BY <2>1 DEF ReasonInv, EnumerationCovers, DestroyedForGood, Alive
    <2>5. DeletionsJustified'
      <3>1. ASSUME ~cancel, NEW m \in plan'.delete PROVE Unwanted(m)
        <4>1. CASE m \in seen /\ ~Matches(metas[m])
          BY <2>1, <4>1 DEF ReasonInv, MetadataFresh, Fresh, Since, Unwanted, Expected
        <4>2. CASE m \in Msg /\ m \notin seen
          <5>1. ~(Alive(m) /\ changed[m] <= target)
            BY <2>1, <3>1, <4>2 DEF ReasonInv, EnumerationCovers
          <5>2. changed[m] <= target \/ changed[m] > target
            BY <1>0, <4>2
          <5> QED
            BY <5>1, <5>2 DEF Unwanted, Expected
        <4> QED
          BY <2>1, <4>1, <4>2
      <3> QED
        BY <2>1, <3>1 DEF DeletionsJustified, Unwanted, Expected, Alive, NothingPlanned
    <2>6. LeavesForAReason'
      BY <2>1, NothingLeaves
    <2> QED
      BY <2>1, <2>2, <2>3, <2>4, <2>5, <2>6, PassReasonInv
  <1>7. ASSUME NEW m \in Msg, SkipAfterLostAnchor(m) PROVE FALSE
    BY <1>7 DEF SkipAfterLostAnchor, AnchorKept
  <1> QED
    BY <1>1, <1>2, <1>3, <1>4, <1>5, <1>6, <1>7 DEF Collect

\* Writing: what is deleted was planned to be, and a cursor is only saved over a
\* HEAD that the index of the pass describes.
LEMMA WriteReasonInv ==
    ASSUME GitStore, TypeInv, FiledInv, ReasonInv, TypeInv', FiledInv', Write
    PROVE  ReasonInv'
  <1> USE DEF serverVars, diskVars, queueVars, memVars, collectVars, faultVars
  <1>0. /\ version \in Nat /\ target \in Nat /\ Acknowledged \in Nat /\ st.source \in Nat
        /\ (st.backfill # None => st.backfill.start \in Nat)
        /\ \A m \in Msg : changed[m] \in Nat /\ Day[m] \in Nat
        /\ st \in State /\ dstate \in State \cup {None} /\ ix \in Index
        /\ plan \in Planned /\ batch \in Planned /\ seen \subseteq Msg
    BY StatesAreNumbers DEF TypeInv, VarsOK
  <1>1. ASSUME NEW d \in {Day[m] : m \in Msg}, FinalizeDay(d) PROVE ReasonInv'
    <2>1. /\ pc = "day" /\ pc' = "apply" /\ stage' = stage /\ stage = "backfill"
          /\ target' = target /\ metas' = metas /\ seen' \subseteq seen
          /\ batch'.add \subseteq seen /\ batch'.update = {} /\ batch'.delete = {}
          /\ plan' = plan /\ plan = NothingPlanned /\ delta' = delta /\ dstate' = dstate
          /\ st' = [st EXCEPT !.backfill = CursorAfter(d)] /\ st.backfill \in Cursor
          /\ UNCHANGED <<serverVars, head, ix>>
      BY <1>0, <1>1 DEF FinalizeDay, TypeInv, NothingLeftOver, StageOfStep, NothingPlanned, State
    <2>2. /\ st'.backfill # None /\ st'.backfill.start = st.backfill.start
          /\ st'.source = st.source
      BY <1>0, <2>1 DEF CursorAfter, Cursor, State, TypeInv, StageOfStep
    <2>3. CursorInv'
      BY <1>0, <2>1, <2>2, CursorAssumption DEF ReasonInv, CursorInv, CursorOK, Acknowledged
    <2>4. Since' = Since
      BY <2>1, <2>2 DEF Since
    <2>5. MetadataFresh'
      BY <2>1, <2>4 DEF ReasonInv, MetadataFresh, Fresh, NothingPlanned
    <2>6. EnumerationCovers' /\ DestroyedForGood' /\ DeletionsJustified'
      BY <2>1 DEF ReasonInv, EnumerationCovers, DestroyedForGood, DeletionsJustified, Alive,
         NothingPlanned
    <2>7. LeavesForAReason'
      BY <2>1, NothingLeavesYet
    <2> QED
      BY <2>1, <2>3, <2>5, <2>6, <2>7, PassReasonInv
  <1>2. ASSUME NEW d \in {Day[m] : m \in Msg}, StartPastDay(d) PROVE ReasonInv'
    <2>1. /\ pc = "apply days" /\ pc' = "apply" /\ stage' = "past day" /\ ~cancel
          /\ target' = target /\ metas' = metas /\ seen' = seen
          /\ batch'.add \subseteq plan.add /\ batch'.update = {} /\ batch'.delete = {}
          /\ plan'.add \subseteq plan.add /\ plan'.update = plan.update
          /\ plan'.delete = plan.delete /\ delta' = delta /\ dstate' = dstate /\ st' = st
          /\ UNCHANGED <<serverVars, head, ix>>
      BY <1>0, <1>2 DEF StartPastDay, NothingPlanned, Planned
    <2>2. stage \in {"sync", "reconcile", "past day"}
      BY <2>1 DEF TypeInv, StageOfStep
    <2>3. CursorInv'
      BY <2>1, <2>2 DEF ReasonInv, CursorInv, CursorOK, Acknowledged
    <2>4. MetadataFresh'
      BY <2>1, <2>2 DEF ReasonInv, MetadataFresh, Fresh, Since
    <2>5. EnumerationCovers' /\ DestroyedForGood'
      BY <2>1 DEF ReasonInv, EnumerationCovers, DestroyedForGood, Alive
    <2>6. DeletionsJustified'
      BY <2>1 DEF ReasonInv, DeletionsJustified, Unwanted, Expected, Alive
    <2>7. LeavesForAReason'
      BY <2>1, NothingLeavesYet
    <2> QED
      BY <2>1, <2>3, <2>4, <2>5, <2>6, <2>7, PassReasonInv
  <1>3. CASE BackfillComplete
    <2>1. /\ pc = "enumerate" /\ pc' = "save state" /\ stage = "backfill" /\ stage' = "done"
          /\ target' = target /\ plan' = plan /\ batch' = batch /\ batch = NothingPlanned
          /\ plan = NothingPlanned /\ delta' = delta /\ dstate' = dstate
          /\ st' = [st EXCEPT !.source = st.backfill.start, !.backfill = None]
          /\ UNCHANGED serverVars
      BY <1>3 DEF BackfillComplete, TypeInv, NothingLeftOver
    <2>2. st.backfill # None /\ st'.backfill = None /\ st'.source = st.backfill.start
      BY <1>0, <2>1 DEF TypeInv, StageOfStep, State
    <2>3. CursorInv'
      <3>1. /\ version' = version /\ target' <= version /\ Acknowledged = 0
            /\ 0 < st.backfill.start /\ st.backfill.start <= version
            /\ dstate # None => CursorOK(dstate)
        BY <2>1, <2>2 DEF ReasonInv, CursorInv, CursorOK
      <3>2. st'.source <= version' /\ st'.source # 0
        BY <1>0, <2>2, <3>1
      <3>3. Acknowledged' = 0 /\ (dstate # None => CursorOK(dstate)')
        BY <2>1, <3>1 DEF Acknowledged, CursorOK
      <3>4. CursorOK(st)'
        BY <2>2, <3>2 DEF CursorOK
      <3> QED
        BY <2>1, <2>2, <3>1, <3>3, <3>4 DEF CursorInv
    <2>4. MetadataFresh' /\ EnumerationCovers' /\ DeletionsJustified'
      BY <2>1 DEF MetadataFresh, EnumerationCovers, DeletionsJustified, NothingPlanned
    <2>5. DestroyedForGood'
      BY <2>1 DEF ReasonInv, DestroyedForGood, Alive
    <2>6. LeavesForAReason'
      BY <2>1, NothingLeaves
    <2> QED
      BY <2>1, <2>3, <2>4, <2>5, <2>6, PassReasonInv
  <1>4. CASE StartFinal
    <2>1. /\ pc = "apply days" /\ pc' \in {"apply", "commit"} /\ stage' = "final" /\ ~cancel
          /\ target' = target /\ metas' = metas /\ batch' = plan /\ plan' = NothingPlanned
          /\ delta' = delta /\ dstate' = dstate /\ st' = [st EXCEPT !.source = target]
          /\ UNCHANGED <<serverVars, head, ix>>
      BY <1>4 DEF StartFinal
    <2>2. stage \in {"sync", "reconcile", "past day"}
      BY <2>1 DEF TypeInv, StageOfStep
    <2>3. st'.source = target /\ st'.backfill = st.backfill
      BY <1>0, <2>1 DEF State
    <2>4. /\ st.backfill = None /\ st.source # 0 /\ st.source <= target
          /\ Acknowledged = st.source /\ target <= version /\ version' = version
          /\ dstate # None => CursorOK(dstate)
      BY <2>1, <2>2 DEF ReasonInv, CursorInv, CursorOK
    <2>5. CursorInv'
      <3>1. target # 0 /\ Acknowledged <= target
        BY <1>0, <2>4
      <3>2. Acknowledged' = Acknowledged /\ (dstate # None => CursorOK(dstate)')
        BY <2>1, <2>4 DEF Acknowledged, CursorOK
      <3>3. CursorOK(st)'
        BY <2>3, <2>4, <3>1 DEF CursorOK
      <3> QED
        BY <2>1, <2>3, <2>4, <3>1, <3>2, <3>3 DEF CursorInv
    <2>6. MetadataFresh'
      BY <2>1, <2>2 DEF ReasonInv, MetadataFresh, Fresh, Since, NothingPlanned
    <2>7. EnumerationCovers' /\ DestroyedForGood' /\ DeletionsJustified'
      BY <2>1 DEF ReasonInv, EnumerationCovers, DestroyedForGood, DeletionsJustified,
         Unwanted, Expected, Alive, NothingPlanned
    <2>8. LeavesForAReason'
      BY <2>1, NothingLeavesYet
    <2> QED
      BY <2>1, <2>5, <2>6, <2>7, <2>8, PassReasonInv
  <1>5. ASSUME NEW m \in Msg, ApplyAdded(m) \/ ApplyUpdated(m) \/ ApplyDeleted(m)
        PROVE  ReasonInv'
    <2>1. PICK e \in Entry \cup {None} : ix' = [ix EXCEPT ![m] = e]
      <3>1. Files \in Stage
        BY <1>5, AppliedFollows DEF ApplyAdded, ApplyUpdated, ApplyDeleted
      <3>2. ApplyAdded(m) \/ ApplyUpdated(m) => metas[m] \in Meta
        BY DEF ApplyAdded, ApplyUpdated, TypeInv, VarsOK, MetadataCollected
      <3>3. ix[m] \in Entry \cup {None}
        BY <1>0 DEF Index
      <3> QED
        BY <1>5, <3>1, <3>2, <3>3, AddType, UpdateType
        DEF ApplyAdded, ApplyUpdated, ApplyDeleted, Applied
    <2>2. /\ pc = "apply" /\ pc' = "apply" /\ stage' = stage /\ cancel' = cancel
          /\ stage \in {"backfill", "past day", "final"}
          /\ target' = target /\ metas' = metas /\ seen' = seen
          /\ plan' = plan /\ delta' = delta /\ dstate' = dstate /\ st' = st
          /\ UNCHANGED <<serverVars, head>>
      BY <1>5 DEF ApplyAdded, ApplyUpdated, ApplyDeleted, Applied, TypeInv, StageOfStep
    <2>3. /\ batch'.add \subseteq batch.add /\ batch'.update \subseteq batch.update
          /\ batch'.delete \subseteq batch.delete
      BY <1>0, <1>5 DEF ApplyAdded, ApplyUpdated, ApplyDeleted, Planned
    <2>4. CursorInv'
      BY <2>2 DEF ReasonInv, CursorInv, CursorOK, Acknowledged
    <2>5. MetadataFresh'
      BY <2>2, <2>3 DEF ReasonInv, MetadataFresh, Fresh, Since
    <2>6. EnumerationCovers' /\ DestroyedForGood' /\ DeletionsJustified'
      BY <2>2, <2>3 DEF ReasonInv, EnumerationCovers, DestroyedForGood, DeletionsJustified,
         Unwanted, Expected, Alive
    <2>7. ASSUME NEW n \in Msg, Held(n)', ~Known(n)'
          PROVE  stage = "final" /\ Unwanted(n)
      <3>1. Held(n)
        BY <2>2, <2>7, HeldInHead
      <3>2. CASE ~Known(n)
        BY <2>2, <3>1, <3>2 DEF ReasonInv, LeavesForAReason
      <3>3. CASE Known(n)
        <4>1. n = m /\ e = None
          BY <1>0, <2>1, <2>7, <3>3 DEF Known, Index
        <4>2. ix[m] # None /\ ix'[m] = None
          BY <1>0, <2>1, <3>3, <4>1 DEF Known, Index
        <4>3. ApplyAdded(m) => FALSE
          <5>1. ApplyAdded(m) => metas[m] \in Meta /\ ix[m] \in Entry
            BY <1>0, <4>2 DEF ApplyAdded, TypeInv, VarsOK, MetadataCollected, Index
          <5>2. ApplyAdded(m) => ix'[m] = AddEntry(Files, m, ix[m], metas[m])
            BY <1>0 DEF ApplyAdded, Applied, Index
          <5> QED
            BY <4>2, <5>1, <5>2, EntryStays, EntryAssumption
        <4>4. ApplyUpdated(m) => FALSE
          <5>1. ApplyUpdated(m) => metas[m] \in Meta /\ ix[m] \in Entry
            BY <1>0, <4>2 DEF ApplyUpdated, TypeInv, VarsOK, MetadataCollected, Index
          <5>2. ApplyUpdated(m) => ix'[m] = UpdateEntry(Files, m, ix[m], metas[m])
            BY <1>0 DEF ApplyUpdated, Applied, Index
          <5> QED
            BY <4>2, <5>1, <5>2, EntryStays, EntryAssumption
        <4>5. m \in batch.delete
          BY <1>5, <4>3, <4>4 DEF ApplyDeleted
        <4> QED
          BY <2>2, <4>1, <4>5 DEF ReasonInv, DeletionsJustified
      <3> QED
        BY <3>2, <3>3
    <2>8. LeavesForAReason'
      BY <2>2, <2>7 DEF LeavesForAReason, Unwanted, Expected, Alive
    <2> QED
      BY <2>2, <2>4, <2>5, <2>6, <2>8, PassReasonInv
  <1>6. CASE ApplyEnds
    <2>1. /\ pc = "apply" /\ pc' = "commit" /\ stage' = stage /\ cancel' = cancel
          /\ target' = target /\ metas' = metas /\ seen' = seen /\ batch' = batch
          /\ plan' = plan /\ delta' = delta /\ UNCHANGED <<serverVars, diskVars, memVars>>
          /\ stage \in {"backfill", "past day", "final"}
      BY <1>6 DEF ApplyEnds, TypeInv, StageOfStep
    <2>2. CursorInv'
      BY <2>1 DEF ReasonInv, CursorInv, CursorOK, Acknowledged
    <2>3. MetadataFresh' /\ EnumerationCovers' /\ DestroyedForGood' /\ DeletionsJustified'
      BY <2>1 DEF ReasonInv, MetadataFresh, Fresh, Since, EnumerationCovers, DestroyedForGood,
         DeletionsJustified, Unwanted, Expected, Alive
    <2>4. LeavesForAReason'
      BY <2>1 DEF ReasonInv, LeavesForAReason, Held, Archive, Known, Unwanted, Expected, Alive
    <2> QED
      BY <2>1, <2>2, <2>3, <2>4, PassReasonInv
  <1>7. CASE Commit
    <2>1. /\ pc = "commit" /\ pc' = "save state" /\ stage' = stage /\ cancel' = cancel
          /\ target' = target /\ metas' = metas /\ seen' = seen /\ batch' = batch
          /\ plan' = plan /\ delta' = delta /\ UNCHANGED serverVars
          /\ st' = [st EXCEPT !.saved = TRUE]
          /\ \/ dstate' = dstate
             \/ dstate # None /\ dstate' = [dstate EXCEPT !.saved = FALSE]
      BY <1>7 DEF Commit, GitStore
    <2>2. /\ st'.source = st.source /\ st'.backfill = st.backfill
          /\ dstate' = None <=> dstate = None
          /\ dstate # None => /\ dstate'.source = dstate.source
                              /\ dstate'.backfill = dstate.backfill
      <3>1. st'.source = st.source /\ st'.backfill = st.backfill
        BY <1>0, <2>1 DEF State
      <3>2. CASE dstate' = dstate
        BY <3>1, <3>2
      <3>3. CASE dstate # None /\ dstate' = [dstate EXCEPT !.saved = FALSE]
        <4>1. dstate \in State
          BY <1>0, <3>3
        <4>2. /\ dstate' \in State /\ dstate'.source = dstate.source
              /\ dstate'.backfill = dstate.backfill
          BY <3>3, <4>1 DEF State
        <4> QED
          BY <3>1, <3>3, <4>2, CursorAssumption
      <3> QED
        BY <2>1, <3>2, <3>3
    <2>3. CursorInv'
      <3>1. Acknowledged' = Acknowledged
        BY <2>2 DEF Acknowledged
      <3>2. CursorOK(st) => CursorOK(st)'
        BY <2>1, <2>2 DEF CursorOK
      <3>3. dstate # None /\ CursorOK(dstate) => CursorOK(dstate)'
        <4>1. version' = version
          BY <2>1
        <4> QED
          BY <2>2, <4>1 DEF CursorOK
      <3> QED
        BY <2>1, <2>2, <3>1, <3>2, <3>3 DEF ReasonInv, CursorInv
    <2>4. MetadataFresh' /\ EnumerationCovers' /\ DestroyedForGood' /\ DeletionsJustified'
      BY <2>1, <2>2 DEF ReasonInv, MetadataFresh, Fresh, Since, EnumerationCovers,
         DestroyedForGood, DeletionsJustified, Unwanted, Expected, Alive
    <2>5. LeavesForAReason'
      BY <2>1, NothingLeaves
    <2> QED
      BY <2>1, <2>3, <2>4, <2>5, PassReasonInv
  <1>8. CASE SaveState
    <2>1. /\ pc = "save state" /\ pc' = "save index" /\ stage' = stage /\ cancel' = cancel
          /\ target' = target /\ metas' = metas /\ seen' = seen /\ batch' = batch
          /\ plan' = plan /\ delta' = delta /\ st' = st /\ dstate' = st /\ UNCHANGED serverVars
      BY <1>8 DEF SaveState
    <2>2. /\ st # None
          /\ Acknowledged' = IF st.backfill # None THEN 0 ELSE st.source
      BY <1>0, <2>1, CursorAssumption DEF Acknowledged
    <2>3. CursorInv'
      <3>1. CursorOK(st)' /\ CursorOK(dstate)' /\ target' <= version'
        BY <2>1 DEF ReasonInv, CursorInv, CursorOK
      <3>2. CASE stage = "backfill"
        BY <2>1, <2>2, <3>1, <3>2 DEF CursorInv, TypeInv, StageOfStep
      <3>3. CASE stage # "backfill"
        <4>1. stage # "done" \/ pc # "idle"
          BY <2>1
        <4>2. /\ st.backfill = None
              /\ stage \in {"sync", "reconcile", "past day"} => st.source <= target
              /\ stage = "final" => st.source = target
          BY <4>1, <3>3 DEF ReasonInv, CursorInv, TypeInv, VarsOK
        <4>3. Acknowledged' = st.source /\ st'.source = st.source /\ st'.backfill = None
          BY <2>1, <2>2, <4>2
        <4>4. stage' = "final" => Acknowledged' <= target' /\ Acknowledged' # 0
          <5>1. target <= target
            BY <1>0
          <5>2. st.source # 0
            BY <2>1, <4>2 DEF ReasonInv, CursorInv, CursorOK
          <5> QED
            BY <2>1, <4>2, <4>3, <5>1, <5>2
        <4>5. stage' \in {"sync", "reconcile", "past day"} => st'.source <= target'
          BY <2>1, <4>2
        <4> QED
          BY <2>1, <3>1, <3>3, <4>2, <4>3, <4>4, <4>5 DEF CursorInv
      <3> QED
        BY <3>2, <3>3
    <2>4. MetadataFresh' /\ EnumerationCovers' /\ DestroyedForGood' /\ DeletionsJustified'
      BY <2>1 DEF ReasonInv, MetadataFresh, Fresh, Since, EnumerationCovers, DestroyedForGood,
         DeletionsJustified, Unwanted, Expected, Alive
    <2>5. LeavesForAReason'
      BY <2>1, NothingLeaves
    <2> QED
      BY <2>1, <2>3, <2>4, <2>5, PassReasonInv
  <1>9. CASE SaveIndex
    <2>1. pc = "save index" /\ batch = NothingPlanned /\ UNCHANGED <<serverVars, dstate, cancel>>
      BY <1>9 DEF SaveIndex, TypeInv, NothingLeftOver
    <2>2. CASE \/ stage = "backfill" /\ pc' = "enumerate"
               \/ stage = "past day" /\ pc' = "apply days"
      <3>1. UNCHANGED <<memVars, kind, stage, target, collectVars, plan, batch>>
        BY <1>9, <2>2 DEF SaveIndex
      <3>2. CursorInv'
        BY <2>1, <2>2, <3>1 DEF ReasonInv, CursorInv, CursorOK, Acknowledged
      <3>3. MetadataFresh' /\ EnumerationCovers' /\ DestroyedForGood' /\ DeletionsJustified'
        BY <2>1, <2>2, <3>1 DEF ReasonInv, MetadataFresh, Fresh, Since, EnumerationCovers,
           DestroyedForGood, DeletionsJustified, Unwanted, Expected, Alive
      <3>4. LeavesForAReason'
        BY <2>2, NothingLeaves
      <3> QED
        BY <2>1, <3>2, <3>3, <3>4, PassReasonInv
    <2>3. CASE stage = "done" /\ kind = "backup"
      <3>1. /\ StartSync(st) /\ UNCHANGED <<memVars, kind, plan, batch>>
            /\ plan = NothingPlanned
        BY <1>9, <2>1, <2>3 DEF SaveIndex, TypeInv, NothingLeftOver
      <3>2. stage' = "sync" /\ pc' = "changes" /\ target' = st.source /\ delta' = NoChanges
        BY <3>1 DEF StartSync
      <3>3. Acknowledged = st.source
        BY <1>0, <2>1, <2>3 DEF ReasonInv, CursorInv
      <3>4. CursorInv'
        <4>1. /\ st' = st /\ dstate' = dstate /\ version' = version /\ Acknowledged' = Acknowledged
          BY <2>1, <3>1 DEF Acknowledged
        <4>2. st.backfill = None /\ CursorOK(st) /\ (dstate # None => CursorOK(dstate))
          BY <2>1, <2>3 DEF ReasonInv, CursorInv
        <4>3. CursorOK(st)' /\ (dstate # None => CursorOK(dstate)') /\ target' <= version'
          BY <3>2, <4>1, <4>2 DEF CursorOK
        <4>4. st.source <= target'
          BY <1>0, <3>2
        <4> QED
          BY <3>2, <3>3, <4>1, <4>2, <4>3, <4>4 DEF CursorInv
      <3>5. MetadataFresh' /\ EnumerationCovers' /\ DestroyedForGood' /\ DeletionsJustified'
        BY <2>1, <3>1, <3>2 DEF MetadataFresh, EnumerationCovers, DestroyedForGood,
           DeletionsJustified, NoChanges, NothingPlanned
      <3>6. LeavesForAReason'
        BY <3>2, NothingLeaves
      <3> QED
        BY <2>1, <3>4, <3>5, <3>6, PassReasonInv
    <2>4. CASE EndPass
      BY <2>1, <2>4, EndPassReasonInv
    <2> QED
      BY <1>9, <2>2, <2>3, <2>4 DEF SaveIndex
  <1> QED
    BY <1>1, <1>2, <1>3, <1>4, <1>5, <1>6, <1>7, <1>8, <1>9 DEF Write

\* A pass that stops, in whatever way, leaves the saved cursor as it is.
LEMMA StopReasonInv ==
    ASSUME GitStore, TypeInv, FiledInv, ReasonInv, Stop \/ Cancel \/ Fail \/ Crash
    PROVE  ReasonInv'
  <1> USE DEF serverVars, diskVars, queueVars, memVars, collectVars, faultVars
  <1>1. CASE FetchFails \/ Interrupted \/ BuildTreeFails
    BY <1>1, EndPassReasonInv DEF FetchFails, Interrupted, BuildTreeFails
  <1>2. CASE Crash
    BY <1>2, CrashLeaves, EndPassReasonInv DEF Crash
  <1>3. CASE Fail
    <2>1. fails \in Nat /\ fails < 0
      BY <1>3 DEF Fail, GitStore, TypeInv, VarsOK
    <2> QED
      BY <2>1
  <1>4. CASE Restart \/ Cancel
    <2>1. /\ UNCHANGED <<serverVars, head, dstate, st, ix, pc, kind, stage, target,
                         collectVars, plan, batch>>
          /\ pc = "idle" \/ cancel'
      BY <1>4 DEF Restart, Cancel
    <2>2. CursorInv'
      BY <2>1 DEF ReasonInv, CursorInv, CursorOK, Acknowledged
    <2>3. MetadataFresh' /\ DestroyedForGood'
      BY <2>1 DEF ReasonInv, MetadataFresh, Fresh, Since, DestroyedForGood, Alive
    <2>4. EnumerationCovers' /\ DeletionsJustified'
      BY <2>1 DEF ReasonInv, EnumerationCovers, DeletionsJustified, Unwanted, Expected, Alive
    <2>5. \A m \in Msg : /\ (Held(m)' <=> Held(m)) /\ (Known(m)' <=> Known(m))
                         /\ (Unwanted(m)' <=> Unwanted(m))
      BY <2>1, HeldInHead DEF Known, Unwanted, Expected, Alive
    <2>6. LeavesForAReason'
      BY <2>1, <2>5 DEF ReasonInv, LeavesForAReason
    <2> QED
      BY <2>1, <2>2, <2>3, <2>4, <2>6, PassReasonInv
  <1> QED
    BY <1>1, <1>2, <1>3, <1>4 DEF Stop

\* Every step of a git store whose server keeps its anchors, and every stutter.
LEMMA ReasonInvStep ==
    ASSUME GitStore, AnchorKept, TypeInv, FiledInv, ReasonInv, [Next]_vars
    PROVE  ReasonInv'
  <1>1. TypeInv' /\ FiledInv'
    BY TypeInvStep, FiledInvStep
  <1>2. CASE UNCHANGED vars
    <2>1. UNCHANGED <<serverVars, head, dstate, st, ix, pc, stage, target, collectVars,
                      plan, batch, cancel>>
      BY <1>2 DEF vars, diskVars, memVars
    <2> USE DEF serverVars, collectVars
    <2>2. CursorInv'
      BY <2>1 DEF ReasonInv, CursorInv, CursorOK, Acknowledged
    <2>3. MetadataFresh' /\ DestroyedForGood'
      BY <2>1 DEF ReasonInv, MetadataFresh, Fresh, Since, DestroyedForGood, Alive
    <2>4. EnumerationCovers' /\ DeletionsJustified'
      BY <2>1 DEF ReasonInv, EnumerationCovers, DeletionsJustified, Unwanted, Expected, Alive
    <2>5. \A m \in Msg : /\ (Held(m)' <=> Held(m)) /\ (Known(m)' <=> Known(m))
                         /\ (Unwanted(m)' <=> Unwanted(m))
      BY <2>1, HeldInHead DEF Known, Unwanted, Expected, Alive
    <2>6. LeavesForAReason'
      BY <2>1, <2>5 DEF ReasonInv, LeavesForAReason
    <2> QED
      BY <2>1, <2>2, <2>3, <2>4, <2>6, PassReasonInv
  <1>3. CASE Account
    BY <1>3, AccountReasonInv
  <1>4. CASE \E k \in {"backup", "refresh"} : Begin(k)
    BY <1>1, <1>4, BeginReasonInv
  <1>5. CASE Collect
    BY <1>1, <1>5, CollectReasonInv
  <1>6. CASE Write
    BY <1>1, <1>6, WriteReasonInv
  <1>7. CASE Stop \/ Cancel \/ Fail \/ Crash
    BY <1>7, StopReasonInv
  <1> QED
    BY <1>2, <1>3, <1>4, <1>5, <1>6, <1>7 DEF Next, Engine

\* Only a commit moves HEAD, and it leaves there what the index of the pass knows.
LEMMA CommitHolds ==
    ASSUME GitStore, TypeInv, FiledInv, [Next]_vars
    PROVE  \/ head' = head
           \/ pc # "idle" /\ \A m \in Msg : Held(m)' <=> Known(m)
  <1> USE DEF serverVars, diskVars, queueVars, memVars, collectVars, faultVars
  <1>1. CASE Commit
    <2>1. /\ pc = "commit" /\ edits = NoEdits /\ pending \in Edits /\ head \in Tree
          /\ wt \in Tree /\ ix \in Index
      BY <1>1 DEF Commit, FiledInv, QueuesEmpty, TypeInv, VarsOK
    <2>2. Overlay(pending, edits) = pending
      BY <2>1, NoEditsKeep
    <2>3. head' = BuildTree(head, pending, wt) /\ Agrees(head', ix)
      BY <1>1, <2>1, <2>2 DEF Commit, GitStore, FiledInv, IndexFollows, NextTree
    <2> QED
      BY <2>1, <2>3, AgreesHolds DEF Known, Held, Archive, GitStore
  <1>2. CASE Account
    BY <1>2 DEF Account, Arrive, Modify, Destroy, ServerStep
  <1>3. CASE \E k \in {"backup", "refresh"} : Begin(k)
    BY <1>3 DEF Begin
  <1>4. CASE Collect
    BY <1>4 DEF Collect, Enumerate, SkipAfterLostAnchor, EnumerationEnds, ChangesPage,
       StateTooOld, PlanSync, PlanReconcile
  <1>5. CASE Write /\ ~Commit
    BY <1>5 DEF Write, FinalizeDay, StartPastDay, BackfillComplete, StartFinal, ApplyAdded,
       ApplyUpdated, ApplyDeleted, Applied, ApplyEnds, SaveState, SaveIndex
  <1>6. CASE Stop \/ Cancel \/ Fail \/ Crash
    BY <1>6 DEF Stop, FetchFails, BuildTreeFails, Interrupted, Restart, Cancel, Fail, Crash,
       Abandon
  <1>7. CASE UNCHANGED vars
    BY <1>7 DEF vars
  <1> QED
    BY <1>1, <1>2, <1>3, <1>4, <1>5, <1>6, <1>7 DEF Next, Engine

\* Every reachable state of such a store.
LEMMA ReasonAlways ==
    ASSUME GitStore, AnchorKept
    PROVE  Spec => [](TypeInv /\ FiledInv /\ ReasonInv)
  <1>1. Init => TypeInv /\ FiledInv /\ ReasonInv
    BY InitTypeInv, InitFiledInv, InitReasonInv
  <1>2. TypeInv /\ FiledInv /\ ReasonInv /\ [Next]_vars => (TypeInv /\ FiledInv /\ ReasonInv)'
    BY TypeInvStep, FiledInvStep, ReasonInvStep
  <1> QED
    BY <1>1, <1>2, PTL DEF Spec

\* A git store never removes a message for what a pass did not see: whatever
\* changes during the pass, and wherever it is cancelled or killed, what leaves
\* HEAD should not be there, or has changed since the state that state.json
\* acknowledges (diff_metas, sync, apply_planned, checkpoint).
THEOREM RemovalsAreJustified == GitStore /\ AnchorKept => (Spec => RemovalJustified)
  <1> SUFFICES ASSUME GitStore, AnchorKept PROVE Spec => RemovalJustified
    OBVIOUS
  <1>1. ASSUME TypeInv, FiledInv, ReasonInv, [Next]_vars, NEW m \in Msg, Held(m), ~Held(m)'
        PROVE  changed[m] > Acknowledged \/ ~Expected(m)
    <2>1. pc # "idle" /\ ~Known(m)
      BY <1>1, CommitHolds, HeldInHead
    <2>2. stage = "final" /\ Unwanted(m)
      BY <1>1, <2>1 DEF ReasonInv, LeavesForAReason
    <2>3. /\ Acknowledged <= target /\ Acknowledged \in Nat /\ target \in Nat
          /\ changed[m] \in Nat
      BY <1>1, <2>2, StatesAreNumbers DEF ReasonInv, CursorInv, TypeInv
    <2> QED
      BY <2>2, <2>3 DEF Unwanted
  <1>2. /\ TypeInv /\ FiledInv /\ ReasonInv /\ [Next]_vars
        => [\A m \in Msg : Held(m) /\ ~Held(m)' =>
              changed[m] > Acknowledged \/ ~Expected(m)]_vars
    BY <1>1
  <1>3. Spec => [](TypeInv /\ FiledInv /\ ReasonInv)
    BY ReasonAlways
  <1> QED
    BY <1>2, <1>3, PTL DEF Spec, RemovalJustified

-----------------------------------------------------------------------------
(* CoverInv holds to begin with and at every step.                          *)

\* What HEAD holds and the saved cursor covers, when neither moves.
LEMMA HeldStaysCovered ==
    ASSUME GitStore, CoverInv, UNCHANGED <<serverVars, head, dstate>>
    PROVE  NoMessageLost' /\ BackfilledDaysHeld'
  <1>1. Acknowledged' = Acknowledged /\ \A m \in Msg : Expected(m)' <=> Expected(m)
    BY DEF Acknowledged, Expected, Alive, serverVars
  <1>2. changed' = changed
    BY DEF serverVars
  <1>3. NoMessageLost'
    BY <1>1, <1>2, HeldInHead DEF CoverInv, NoMessageLost, Settled
  <1>4. BackfilledDaysHeld'
    BY <1>1, <1>2, HeldInHead DEF CoverInv, BackfilledDaysHeld
  <1> QED
    BY <1>3, <1>4

\* Before the first pass nothing is acknowledged.
LEMMA InitCoverInv == Init => CoverInv
  <1> SUFFICES ASSUME Init PROVE CoverInv
    OBVIOUS
  <1>1. pc = "idle" /\ stage = "done" /\ dstate = None /\ ~cancel
    BY DEF Init
  <1>2. NoMessageLost
    <2>1. Acknowledged = 0 /\ \A m \in Msg : changed[m] \in {0, 1}
      BY <1>1 DEF Acknowledged, Init, ServerInit
    <2> QED
      BY <2>1 DEF NoMessageLost, Settled
  <1> QED
    BY <1>1, <1>2 DEF CoverInv, NeverCancelled, InOrder, BackfillCovers, DoneCovers,
       DeltaCovers, PassCovers, BackfilledDaysHeld

\* The message that changes is due to nobody yet.
LEMMA AccountCoverInv ==
    ASSUME GitStore, TypeInv, ReasonInv, CoverInv, Account
    PROVE  CoverInv'
  <1>1. PICK m \in Msg : ChangedNow(m)
    BY AccountChanges DEF ReasonInv
  <1>2. /\ version \in Nat /\ target \in Nat /\ Acknowledged \in Nat /\ st.source \in Nat
        /\ \A n \in Msg : changed[n] \in Nat
        /\ changed \in [Msg -> Version]
    BY StatesAreNumbers DEF TypeInv, VarsOK
  <1>3. /\ changed'[m] = version + 1
        /\ \A n \in Msg \ {m} : changed'[n] = changed[n] /\ meta'[n] = meta[n]
    BY <1>1, <1>2 DEF ChangedNow
  <1>4. /\ UNCHANGED <<wt, head, dstate, dindex, edits, pending, st, ix, cancel>>
        /\ UNCHANGED <<pc, kind, stage, target, delta, unread, anchor, seen, metas, plan,
                       batch, crashes, fails, cancels>>
    BY <1>1 DEF ChangedNow
  <1>5. Acknowledged' = Acknowledged
    BY <1>4 DEF Acknowledged
  <1>6. ASSUME NEW u \in Nat, u <= version, NEW n \in Msg,
               0 < changed'[n], changed'[n] <= u, Expected(n)'
        PROVE  Due(n, u)
    <2>1. n # m
      BY <1>2, <1>3, <1>6
    <2>2. changed'[n] = changed[n] /\ meta'[n] = meta[n]
      BY <1>3, <2>1
    <2> QED
      BY <1>6, <2>2 DEF Due, Expected, Alive, Matches
  <1>7. ASSUME stage = "backfill" PROVE st.backfill.start \in Nat /\ st.backfill.start <= version
    <2>1. st.backfill # None /\ pc # "idle"
      BY <1>7 DEF TypeInv, StageOfStep
    <2> QED
      BY <2>1, StatesAreNumbers DEF TypeInv, ReasonInv, CursorInv, CursorOK
  <1>8. BackfillCovers'
    <2>1. \A n \in Msg : stage = "backfill" /\ Due(n, st.backfill.start)'
                         => Due(n, st.backfill.start)
      BY <1>4, <1>6, <1>7 DEF Due
    <2> QED
      BY <1>4, <2>1 DEF CoverInv, BackfillCovers, Known
  <1>9. DoneCovers'
    <2>1. stage = "done" /\ pc # "idle" => st.source <= version
      BY DEF ReasonInv, CursorInv, CursorOK
    <2>2. \A n \in Msg : stage = "done" /\ pc # "idle" /\ Due(n, st.source)' => Due(n, st.source)
      BY <1>2, <1>4, <1>6, <2>1 DEF Due
    <2> QED
      BY <1>4, <2>2 DEF CoverInv, DoneCovers, Known
  <1>10. target <= version
    BY DEF ReasonInv, CursorInv
  <1>11. PassCovers'
    <2>1. \A n \in Msg : Due(n, target)' => Due(n, target)
      BY <1>2, <1>4, <1>6, <1>10 DEF Due
    <2> QED
      BY <1>4, <2>1 DEF CoverInv, PassCovers, Known
  <1>12. DeltaCovers'
    <2>1. ASSUME NEW n \in Msg, Alive(n)', changed'[n] <= target
          PROVE  Alive(n) /\ changed'[n] = changed[n]
      <3>1. n # m
        BY <1>2, <1>3, <1>10, <2>1
      <3> QED
        BY <1>3, <2>1, <3>1 DEF Alive
    <2> QED
      BY <1>4, <2>1 DEF CoverInv, DeltaCovers
  <1>13. Acknowledged <= version
    <2>1. dstate # None => dstate.source <= version
      BY DEF ReasonInv, CursorInv, CursorOK
    <2>2. 0 <= version
      BY <1>2
    <2> QED
      BY <2>1, <2>2 DEF Acknowledged
  <1>14. NoMessageLost'
    <2>1. \A n \in Msg : Settled(n)' /\ Expected(n)' => Settled(n) /\ Expected(n)
      BY <1>2, <1>5, <1>6, <1>13 DEF Settled, Due
    <2> QED
      BY <1>4, <2>1, HeldInHead DEF CoverInv, NoMessageLost
  <1>15. BackfilledDaysHeld'
    <2>1. dstate # None /\ dstate.backfill # None =>
            dstate.backfill.start \in Nat /\ dstate.backfill.start <= version
      BY StatesAreNumbers DEF TypeInv, ReasonInv, CursorInv, CursorOK
    <2>2. \A n \in Msg : dstate # None /\ dstate.backfill # None /\ 0 < changed'[n]
                         /\ changed'[n] <= dstate.backfill.start /\ Expected(n)'
            => Due(n, dstate.backfill.start)
      BY <1>6, <2>1
    <2> QED
      BY <1>4, <2>2, HeldInHead DEF CoverInv, BackfilledDaysHeld, Due
  <1>16. NeverCancelled' /\ InOrder'
    BY <1>4 DEF CoverInv, NeverCancelled, InOrder
  <1> QED
    BY <1>8, <1>9, <1>11, <1>12, <1>14, <1>15, <1>16 DEF CoverInv

\* A pass that ends has nothing more to cover.
LEMMA EndPassCoverInv ==
    ASSUME GitStore, CoverInv, EndPass, UNCHANGED <<serverVars, head, dstate>>,
           cancel' => cancel
    PROVE  CoverInv'
  <1>1. pc' = "idle" /\ stage' = "done"
    BY DEF EndPass
  <1>2. NoMessageLost' /\ BackfilledDaysHeld'
    BY HeldStaysCovered
  <1> QED
    BY <1>1, <1>2 DEF CoverInv, NeverCancelled, InOrder, BackfillCovers, DoneCovers,
       DeltaCovers, PassCovers

\* A backfill resumes behind the days that state.json calls committed.
LEMMA BeginCoverInv ==
    ASSUME GitStore, TypeInv, FiledInv, ReasonInv, CoverInv, TypeInv', FiledInv',
           NEW k \in {"backup", "refresh"}, Begin(k)
    PROVE  CoverInv'
  <1> DEFINE s == Opened(dstate)
  <1>1. /\ UNCHANGED <<serverVars, head, dstate, cancel>>
        /\ \A m \in Msg : Day[m] \in Nat /\ Day[m] > 0 /\ changed[m] \in Nat
        /\ batch' = batch /\ UNCHANGED plan
    BY StatesAreNumbers DEF Begin, diskVars, TypeInv
  <1>2. NoMessageLost' /\ BackfilledDaysHeld'
    BY <1>1, HeldStaysCovered
  <1>3. NeverCancelled'
    BY <1>1 DEF CoverInv, NeverCancelled
  <1>4. CASE NeedsBackfill(s)
    <2> DEFINE c == IF s.backfill # None THEN s.backfill
                    ELSE [start |-> version, last |-> 0]
    <2>1. /\ stage' = "backfill" /\ pc' = "enumerate" /\ seen' = {}
          /\ st' = [s EXCEPT !.backfill = c] /\ unread' = {m \in Msg : Day[m] > c.last}
      BY <1>4 DEF Begin, StartBackfill, StartEnumeration
    <2>2. s \in State /\ c \in Cursor /\ st'.backfill = c
      <3>1. VarsOK /\ s \in State
        BY OpenTypes DEF TypeInv
      <3>2. c \in Cursor
        BY <3>1 DEF Cursor, State, VarsOK
      <3> QED
        BY <2>1, <3>1, <3>2 DEF State
    <2>3. c.last \in Nat
      BY <2>2 DEF Cursor
    <2>4. InOrder'
      BY <2>1, <2>2 DEF InOrder
    <2>5. BackfillCovers'
      <3>1. ASSUME NEW m \in Msg, Due(m, c.start), Day[m] <= c.last PROVE Known(m)'
        <4>1. c = dstate.backfill /\ dstate # None /\ dstate.backfill # None
          BY <1>1, <2>2, <3>1 DEF Opened, DefaultState
        <4>2. changed' = changed /\ Expected(m)' = Expected(m)
          BY <1>1 DEF serverVars, Expected, Alive
        <4>3. Held(m)'
          BY <1>1, <1>2, <3>1, <4>1, <4>2 DEF BackfilledDaysHeld, Due
        <4> QED
          BY <2>1, <4>3, KnownIsHeldNext
      <3>2. \A m \in Msg : Day[m] <= c.last \/ Day[m] > c.last
        BY <1>1, <2>3
      <3>3. \A m \in Msg : Due(m, st.backfill.start)' <=> Due(m, c.start)
        BY <1>1, <2>2 DEF Due, Expected, Alive, Matches, serverVars
      <3>4. (st.backfill.last)' = c.last
        BY <2>2
      <3> HIDE DEF c
      <3> QED
        BY <2>1, <3>1, <3>2, <3>3, <3>4 DEF BackfillCovers
    <2> QED
      BY <1>2, <1>3, <2>1, <2>4, <2>5 DEF CoverInv, DoneCovers, DeltaCovers, PassCovers
  <1>5. CASE ~NeedsBackfill(s)
    <2>1. \/ stage' = "sync" /\ pc' = "changes" /\ target' = st'.source
          \/ stage' = "reconcile" /\ pc' = "enumerate"
      BY <1>5 DEF Begin, StartSync, StartReconcile, StartEnumeration
    <2>2. DeltaCovers'
      <3>1. VarsOK' /\ \A m \in Msg : changed'[m] \in Nat
        BY <1>1 DEF TypeInv, serverVars
      <3>2. st'.source \in Nat
        <4>1. Version \subseteq Nat
          BY BoundAssumption DEF Version
        <4>2. st' \in State
          BY <3>1 DEF VarsOK
        <4> QED
          BY <4>1, <4>2 DEF State
      <3> QED
        BY <2>1, <3>1, <3>2 DEF DeltaCovers
    <2> QED
      BY <1>2, <1>3, <2>1, <2>2 DEF CoverInv, InOrder, BackfillCovers, DoneCovers, PassCovers
  <1> QED
    BY <1>4, <1>5

\* Collecting: nothing due is passed over, whatever the order of the pages.
LEMMA CollectCoverInv ==
    ASSUME GitStore, AnchorKept, WholeDays, TypeInv, FiledInv, ReasonInv, CoverInv, Collect
    PROVE  CoverInv'
  <1> USE DEF serverVars, diskVars, queueVars, memVars, collectVars, faultVars
  <1>0. /\ version \in Nat /\ target \in Nat /\ Acknowledged \in Nat /\ st.source \in Nat
        /\ \A m \in Msg : changed[m] \in Nat /\ Day[m] \in Nat
        /\ seen \subseteq Msg /\ unread \subseteq Msg
    BY StatesAreNumbers DEF TypeInv, VarsOK
  <1>1. CASE \E m \in Msg : Enumerate(m)
    <2>1. PICK m \in Msg : Enumerate(m)
      BY <1>1
    <2>2. /\ pc = "enumerate" /\ pc' \in {"enumerate", "day"} /\ stage' = stage
          /\ (pc' = "day" => stage = "backfill" /\ \E n \in seen : Day[n] # Day[m])
          /\ ~cancel /\ cancel' = cancel /\ m \in unread /\ seen' = seen \cup {m}
          /\ unread' = {n \in unread : Day[n] >= Day[m]} \ {m}
          /\ \A n \in unread : Alive(n) => Day[m] <= Day[n]
          /\ batch' = batch /\ stage \in {"backfill", "reconcile"}
          /\ UNCHANGED <<serverVars, head, dstate, st, ix>>
      BY <2>1 DEF Enumerate, NextUp, Upcoming, TypeInv, StageOfStep
    <2>3. NoMessageLost' /\ BackfilledDaysHeld' /\ NeverCancelled'
      BY <2>2, HeldStaysCovered DEF CoverInv, NeverCancelled
    <2>4. InOrder'
      <3>1. CASE stage = "backfill"
        <4>1. /\ \A n \in seen \cup unread : st.backfill.last < Day[n]
              /\ \A k \in seen, n \in unread : Day[k] <= Day[n]
          BY <3>1 DEF CoverInv, InOrder
        <4>2. \A n \in seen' \cup unread' : st.backfill.last < Day[n]
          BY <2>2, <4>1
        <4>3. \A k \in seen', n \in unread' : Day[k] <= Day[n]
          BY <1>0, <2>2, <4>1
        <4>4. pc' = "day" => \A n \in unread' : \E k \in seen' : Day[k] < Day[n]
          <5>1. SUFFICES ASSUME pc' = "day", NEW n \in unread'
                         PROVE  \E k \in seen' : Day[k] < Day[n]
            OBVIOUS
          <5>2. PICK k \in seen : Day[k] # Day[m]
            BY <2>2, <5>1
          <5>3. Day[k] <= Day[m] /\ Day[m] <= Day[n]
            BY <1>0, <2>2, <4>1
          <5>4. Day[k] < Day[n]
            BY <1>0, <2>2, <5>2, <5>3
          <5> QED
            BY <2>2, <5>4
        <4> QED
          BY <2>2, <4>2, <4>3, <4>4 DEF InOrder
      <3> QED
        BY <2>2, <3>1 DEF InOrder
    <2>5. BackfillCovers'
      <3>1. \A n \in unread : Alive(n) => n \in seen' \cup unread'
        BY <1>0, <2>2
      <3> QED
        BY <2>2, <3>1 DEF CoverInv, BackfillCovers, Due, Expected, Alive, Known
    <2> QED
      BY <2>2, <2>3, <2>4, <2>5 DEF CoverInv, DoneCovers, DeltaCovers, PassCovers
  <1>2. CASE EnumerationEnds
    <2>1. /\ pc = "enumerate" /\ pc' \in {"plan", "day"} /\ stage' = stage
          /\ stage \in {"backfill", "reconcile"}
          /\ seen' = seen /\ unread' = {} /\ cancel' = cancel /\ batch' = batch
          /\ (cancel \/ \A n \in unread : ~Alive(n))
          /\ UNCHANGED <<serverVars, head, dstate, st, ix>>
      BY <1>2 DEF EnumerationEnds, Upcoming, TypeInv, StageOfStep, VarsOK
    <2>2. NoMessageLost' /\ BackfilledDaysHeld' /\ NeverCancelled'
      BY <2>1, HeldStaysCovered DEF CoverInv, NeverCancelled
    <2>3. InOrder'
      BY <2>1 DEF CoverInv, InOrder
    <2>4. BackfillCovers'
      <3>1. ASSUME stage = "backfill", NEW m \in unread, Alive(m)
            PROVE  m \in seen \/ (cancel /\ \A n \in seen : Day[n] < Day[m])
        <4>1. cancel
          BY <2>1, <3>1
        <4>2. MaxCancels # 0
          BY <4>1 DEF CoverInv, NeverCancelled
        <4>3. \A n \in seen : Day[n] <= Day[m]
          BY <3>1 DEF CoverInv, InOrder
        <4>4. \A n \in seen : Day[n] = Day[m] => n = m
          BY <1>0, <4>2 DEF WholeDays
        <4>5. ASSUME m \notin seen, NEW n \in seen PROVE Day[n] < Day[m]
          <5>1. Day[n] <= Day[m] /\ Day[n] # Day[m]
            BY <4>3, <4>4, <4>5
          <5>2. Day[n] \in Nat /\ Day[m] \in Nat
            BY <1>0
          <5> QED
            BY <5>1, <5>2
        <4> QED
          BY <4>1, <4>5
      <3> QED
        BY <1>0, <2>1, <3>1 DEF CoverInv, BackfillCovers, Due, Expected, Alive, Known
    <2> QED
      BY <2>1, <2>2, <2>3, <2>4 DEF CoverInv, DoneCovers, DeltaCovers, PassCovers
  <1>3. CASE \E upto \in Version : ChangesPage(upto)
    <2>1. PICK upto \in Version : ChangesPage(upto)
      BY <1>3
    <2>2. /\ pc = "changes" /\ pc' \in {"changes", "plan"} /\ stage' = stage /\ stage = "sync"
          /\ target' = upto /\ upto \in target .. version /\ cancel' = cancel
          /\ delta'.created = delta.created \cup Page(target, upto).created
          /\ delta'.updated = delta.updated \cup Page(target, upto).updated
          /\ UNCHANGED <<serverVars, head, dstate, st, ix>>
      BY <2>1 DEF ChangesPage, TypeInv, StageOfStep
    <2>3. NoMessageLost' /\ BackfilledDaysHeld' /\ NeverCancelled'
      BY <2>2, HeldStaysCovered DEF CoverInv, NeverCancelled
    <2>4. DeltaCovers'
      <3>1. \A m \in Msg : Alive(m) /\ target < changed[m] /\ changed[m] <= upto
              => m \in Page(target, upto).created \cup Page(target, upto).updated
        <4>1. \A m \in Msg : created[m] > target \/ created[m] <= target
          BY <1>0, StatesAreNumbers DEF TypeInv
        <4> QED
          BY <4>1 DEF Page, ChangedIn
      <3>2. \A m \in Msg : changed[m] <= target \/ target < changed[m]
        BY <1>0
      <3> QED
        BY <2>2, <3>1, <3>2 DEF CoverInv, DeltaCovers, Alive
    <2> QED
      BY <2>2, <2>3, <2>4
      DEF CoverInv, InOrder, BackfillCovers, DoneCovers, PassCovers
  <1>4. CASE StateTooOld
    <2>1. /\ stage' = "reconcile" /\ pc' = "enumerate" /\ cancel' = cancel
          /\ UNCHANGED <<serverVars, head, dstate>>
      BY <1>4 DEF StateTooOld, StartReconcile, StartEnumeration
    <2>2. NoMessageLost' /\ BackfilledDaysHeld' /\ NeverCancelled'
      BY <2>1, HeldStaysCovered DEF CoverInv, NeverCancelled
    <2> QED
      BY <2>1, <2>2 DEF CoverInv, InOrder, BackfillCovers, DoneCovers, DeltaCovers, PassCovers
  <1>5. CASE PlanSync
    <2>1. CASE EndPass
      BY <1>5, <2>1, EndPassCoverInv DEF PlanSync
    <2>2. CASE ~EndPass
      <3> DEFINE touched == {m \in Deduped : Alive(m)}
      <3>1. /\ pc = "plan" /\ stage = "sync" /\ stage' = stage /\ pc' = "apply days"
            /\ plan' = [add    |-> {m \in touched : ~Known(m) /\ Matches(meta[m])},
                        update |-> {m \in touched : Known(m) /\ Matches(meta[m])},
                        delete |-> delta.destroyed \cup
                                   {m \in touched : Known(m) /\ ~Matches(meta[m])}]
            /\ target' = target /\ cancel' = cancel
            /\ UNCHANGED <<serverVars, head, dstate, ix>>
        BY <1>5, <2>2 DEF PlanSync
      <3>2. NoMessageLost' /\ BackfilledDaysHeld' /\ NeverCancelled'
        BY <3>1, HeldStaysCovered DEF CoverInv, NeverCancelled
      <3>3. ASSUME NEW m \in Msg, Due(m, target) PROVE Known(m) \/ m \in plan'.add
        <4>1. CASE changed[m] <= st.source
          <5>1. Settled(m)
            BY <3>1, <3>3, <4>1 DEF Settled, Due, ReasonInv, CursorInv
          <5>2. Held(m)
            BY <3>3, <5>1 DEF CoverInv, NoMessageLost, Due
          <5> QED
            BY <3>1, <5>2, KnownIsHeld
        <4>2. CASE st.source < changed[m]
          <5>1. m \in delta.created \cup delta.updated
            BY <3>1, <3>3, <4>2 DEF CoverInv, DeltaCovers, Due, Expected
          <5>2. m \notin delta.destroyed
            BY <3>3 DEF ReasonInv, DestroyedForGood, Due, Expected
          <5> QED
            BY <3>1, <3>3, <5>1, <5>2 DEF Deduped, Due, Expected
        <4> QED
          BY <1>0, <4>1, <4>2
      <3>4. PassCovers'
        BY <3>1, <3>3 DEF PassCovers, Due, Expected, Alive, Known
      <3> QED
        BY <3>1, <3>2, <3>4
        DEF CoverInv, InOrder, BackfillCovers, DoneCovers, DeltaCovers
    <2> QED
      BY <2>1, <2>2
  <1>6. CASE PlanReconcile
    <2>1. /\ pc = "plan" /\ stage = "reconcile" /\ stage' = stage /\ pc' = "apply days"
          /\ plan'.add = {m \in seen : ~Known(m) /\ Matches(metas[m])}
          /\ target' = target /\ cancel' = cancel
          /\ UNCHANGED <<serverVars, head, dstate, ix>>
      BY <1>6 DEF PlanReconcile
    <2>2. NoMessageLost' /\ BackfilledDaysHeld' /\ NeverCancelled'
      BY <2>1, HeldStaysCovered DEF CoverInv, NeverCancelled
    <2>3. ASSUME ~cancel, NEW m \in Msg, Due(m, target) PROVE Known(m) \/ m \in plan'.add
      <3>1. m \in seen
        BY <2>1, <2>3 DEF ReasonInv, EnumerationCovers, Due, Expected
      <3>2. Fresh(m) /\ ~(changed[m] > target)
        <4>1. Fresh(m)
          BY <2>1, <3>1 DEF ReasonInv, MetadataFresh
        <4> QED
          BY <1>0, <2>3, <4>1 DEF Due
      <3>3. Matches(metas[m])
        BY <2>1, <2>3, <3>2 DEF Fresh, Since, Due, Expected
      <3> QED
        BY <2>1, <3>1, <3>3
    <2>4. PassCovers'
      BY <2>1, <2>3 DEF PassCovers, Due, Expected, Alive, Known
    <2> QED
      BY <2>1, <2>2, <2>4
      DEF CoverInv, InOrder, BackfillCovers, DoneCovers, DeltaCovers
  <1>7. ASSUME NEW m \in Msg, SkipAfterLostAnchor(m) PROVE FALSE
    BY <1>7 DEF SkipAfterLostAnchor, AnchorKept
  <1> QED
    BY <1>1, <1>2, <1>3, <1>4, <1>5, <1>6, <1>7 DEF Collect

\* A commit holds all that is due: what leaves HEAD with it had to.
LEMMA CommitCovers ==
    ASSUME GitStore, TypeInv, FiledInv, ReasonInv, CoverInv, TypeInv', FiledInv', Commit
    PROVE  NoMessageLost' /\ BackfilledDaysHeld'
  <1>1. /\ pc = "commit" /\ pc' = "save state" /\ ix' = ix /\ UNCHANGED serverVars
        /\ \/ dstate' = dstate
           \/ dstate # None /\ dstate' = [dstate EXCEPT !.saved = FALSE]
    BY DEF Commit, GitStore
  <1>2. /\ dstate' = None <=> dstate = None
        /\ dstate # None => /\ dstate'.source = dstate.source
                            /\ dstate'.backfill = dstate.backfill
    <2>1. CASE dstate' = dstate
      BY <2>1
    <2>2. CASE dstate # None /\ dstate' = [dstate EXCEPT !.saved = FALSE]
      <3>1. dstate \in State
        BY <2>2 DEF TypeInv, VarsOK
      <3>2. /\ dstate' \in State /\ dstate'.source = dstate.source
            /\ dstate'.backfill = dstate.backfill
        BY <2>2, <3>1 DEF State
      <3> QED
        BY <2>2, <3>2, CursorAssumption
    <2> QED
      BY <1>1, <2>1, <2>2
  <1>3. /\ Acknowledged' = Acknowledged /\ changed' = changed
        /\ \A m \in Msg : Expected(m)' <=> Expected(m)
    BY <1>1, <1>2 DEF Acknowledged, Expected, Alive, serverVars
  <1>4. \A m \in Msg : Held(m)' <=> Known(m)
    BY <1>1, KnownIsHeldNext DEF Known
  <1>5. \A m \in Msg : Held(m) /\ ~Known(m) => stage = "final" /\ Unwanted(m)
    BY <1>1 DEF ReasonInv, LeavesForAReason
  <1>6. stage = "final" => Acknowledged # 0 /\ Acknowledged <= target
    BY DEF ReasonInv, CursorInv
  <1>7. /\ Acknowledged \in Nat /\ target \in Nat /\ \A m \in Msg : changed[m] \in Nat
    BY StatesAreNumbers DEF TypeInv
  <1>8. NoMessageLost'
    <2>1. ASSUME NEW m \in Msg, Settled(m), Expected(m) PROVE Held(m)'
      <3>1. Held(m)
        BY <2>1 DEF CoverInv, NoMessageLost
      <3>2. stage = "final" => ~Unwanted(m)
        BY <1>6, <1>7, <2>1 DEF Unwanted, Settled
      <3> QED
        BY <1>4, <1>5, <3>1, <3>2
    <2> QED
      BY <1>3, <2>1 DEF NoMessageLost, Settled
  <1>9. BackfilledDaysHeld'
    <2>1. CASE dstate # None /\ dstate.backfill # None
      <3>1. stage # "final"
        BY <1>6, <2>1 DEF Acknowledged
      <3>2. \A m \in Msg : Held(m) => Held(m)'
        BY <1>4, <1>5, <3>1
      <3> QED
        BY <1>2, <1>3, <2>1, <3>2 DEF CoverInv, BackfilledDaysHeld
    <2>2. CASE dstate = None \/ dstate.backfill = None
      BY <1>2, <2>2 DEF BackfilledDaysHeld
    <2> QED
      BY <2>1, <2>2
  <1> QED
    BY <1>8, <1>9

\* Writing: a cursor is only saved when what it covers is in HEAD.
LEMMA WriteCoverInv ==
    ASSUME GitStore, TypeInv, FiledInv, ReasonInv, CoverInv, TypeInv', FiledInv', Write
    PROVE  CoverInv'
  <1> USE DEF serverVars, diskVars, queueVars, memVars, collectVars, faultVars
  <1>0. /\ version \in Nat /\ target \in Nat /\ Acknowledged \in Nat /\ st.source \in Nat
        /\ \A m \in Msg : changed[m] \in Nat /\ Day[m] \in Nat
        /\ st \in State /\ ix \in Index /\ seen \subseteq Msg /\ unread \subseteq Msg
        /\ plan \in Planned /\ batch \in Planned
    BY StatesAreNumbers DEF TypeInv, VarsOK
  <1>1. ASSUME NEW d \in {Day[m] : m \in Msg}, FinalizeDay(d) PROVE CoverInv'
    <2> DEFINE ofDay == {m \in seen : Day[m] = d}
               fetch == {m \in ofDay : Matches(metas[m]) /\ ~Known(m)}
    <2>1. /\ pc = "day" /\ pc' = "apply" /\ stage' = stage /\ stage = "backfill"
          /\ ofDay # {} /\ (\A m \in seen : Day[m] >= d)
          /\ batch' = [NothingPlanned EXCEPT !.add = fetch] /\ seen' = seen \ ofDay
          /\ st' = [st EXCEPT !.backfill = CursorAfter(d)] /\ st.backfill \in Cursor
          /\ unread' = unread /\ cancel' = cancel /\ batch = NothingPlanned
          /\ UNCHANGED <<serverVars, head, dstate, ix>>
      BY <1>0, <1>1 DEF FinalizeDay, TypeInv, NothingLeftOver, StageOfStep, State
    <2>2. /\ st'.backfill.start = st.backfill.start /\ st'.backfill.last = d /\ d \in Nat
          /\ batch'.add = fetch
      BY <1>0, <2>1 DEF CursorAfter, Cursor, State, NothingPlanned
    <2>3. NoMessageLost' /\ BackfilledDaysHeld' /\ NeverCancelled'
      BY <2>1, HeldStaysCovered DEF CoverInv, NeverCancelled
    <2>4. /\ \A n \in seen \cup unread : st.backfill.last < Day[n]
          /\ \A k \in seen, n \in unread : Day[k] <= Day[n]
          /\ \A n \in unread : \E k \in seen : Day[k] < Day[n]
      BY <2>1 DEF CoverInv, InOrder
    <2>5. \A n \in unread : d < Day[n]
      BY <1>0, <2>1, <2>2, <2>4
    <2>6. \A n \in seen : n \in ofDay \/ (d < Day[n] /\ n \in seen')
      BY <1>0, <2>1, <2>2
    <2>7. InOrder'
      <3>1. \A n \in seen' : d < Day[n]
        BY <2>1, <2>6
      <3> QED
        BY <2>1, <2>2, <2>4, <2>5, <3>1 DEF InOrder
    <2>8. BackfillCovers'
      <3>1. ASSUME NEW m \in Msg, Due(m, st.backfill.start)
            PROVE  \/ Day[m] <= d /\ (Known(m) \/ m \in fetch)
                   \/ Day[m] > d /\ m \in seen' \cup unread
                   \/ Day[m] > d /\ cancel /\ \A n \in seen' : Day[n] < Day[m]
        <4>1. PICK k \in seen : Day[k] = d
          BY <2>1
        <4>2. st.backfill.last < d
          BY <2>4, <4>1
        <4>3. CASE Day[m] <= st.backfill.last /\ Known(m)
          <5>1. st.backfill.last \in Nat
            BY <2>1 DEF Cursor
          <5>2. Day[m] <= d
            BY <1>0, <2>2, <4>2, <4>3, <5>1
          <5> QED
            BY <4>3, <5>2
        <4>4. CASE m \in unread
          BY <2>5, <4>4
        <4>5. CASE m \in seen /\ m \notin ofDay
          BY <2>6, <4>5
        <4>6. CASE m \in ofDay
          <5>1. Fresh(m) /\ Since = st.backfill.start
            BY <2>1, <4>6 DEF ReasonInv, MetadataFresh, Since
          <5>2. ~(changed[m] > st.backfill.start)
            <6>1. st.backfill.start \in Nat
              BY <2>1, BoundAssumption DEF Cursor, Version
            <6> QED
              BY <1>0, <3>1, <6>1 DEF Due
          <5>3. Matches(metas[m])
            BY <3>1, <5>1, <5>2 DEF Fresh, Due, Expected
          <5>4. Day[m] <= d
            BY <2>2, <4>6
          <5> QED
            BY <4>6, <5>3, <5>4
        <4>7. CASE cancel /\ \A n \in seen : Day[n] < Day[m]
          <5>1. d < Day[m]
            BY <4>1, <4>7
          <5> QED
            BY <1>0, <2>1, <2>2, <4>7, <5>1
        <4>8. m \notin batch.add
          BY <2>1 DEF NothingPlanned
        <4> QED
          BY <2>1, <3>1, <4>3, <4>4, <4>5, <4>6, <4>7, <4>8 DEF CoverInv, BackfillCovers
      <3>2. \A m \in Msg : Due(m, st.backfill.start)' <=> Due(m, st.backfill.start)
        BY <2>1, <2>2 DEF Due, Expected, Alive
      <3>3. \A m \in Msg : Known(m)' <=> Known(m)
        BY <2>1 DEF Known
      <3> HIDE DEF ofDay, fetch
      <3> QED
        BY <2>1, <2>2, <3>1, <3>2, <3>3 DEF BackfillCovers
    <2> QED
      BY <2>1, <2>3, <2>7, <2>8 DEF CoverInv, DoneCovers, DeltaCovers, PassCovers
  <1>2. ASSUME NEW d \in {Day[m] : m \in Msg}, StartPastDay(d) PROVE CoverInv'
    <2>1. /\ pc = "apply days" /\ pc' = "apply" /\ stage' = "past day" /\ ~cancel
          /\ target' = target /\ cancel' = cancel
          /\ plan.add \subseteq plan'.add \cup batch'.add
          /\ batch = NothingPlanned /\ UNCHANGED <<serverVars, head, dstate, ix>>
      BY <1>0, <1>2 DEF StartPastDay, NothingPlanned, Planned, TypeInv, NothingLeftOver
    <2>2. stage \in {"sync", "reconcile", "past day"}
      BY <2>1 DEF TypeInv, StageOfStep
    <2>3. NoMessageLost' /\ BackfilledDaysHeld' /\ NeverCancelled'
      BY <2>1, HeldStaysCovered DEF CoverInv, NeverCancelled
    <2>4. PassCovers'
      BY <2>1, <2>2 DEF CoverInv, PassCovers, Due, Expected, Alive, Known, NothingPlanned
    <2> QED
      BY <2>1, <2>3, <2>4 DEF CoverInv, InOrder, BackfillCovers, DoneCovers, DeltaCovers
  <1>3. CASE BackfillComplete
    <2>1. /\ pc = "enumerate" /\ pc' = "save state" /\ stage = "backfill" /\ stage' = "done"
          /\ (\A n \in unread : ~Alive(n)) /\ seen = {} /\ ~cancel /\ cancel' = cancel
          /\ batch = NothingPlanned /\ st' = [st EXCEPT !.source = st.backfill.start,
                                                       !.backfill = None]
          /\ UNCHANGED <<serverVars, head, dstate, ix>>
      BY <1>3 DEF BackfillComplete, Upcoming, TypeInv, NothingLeftOver
    <2>2. NoMessageLost' /\ BackfilledDaysHeld' /\ NeverCancelled'
      BY <2>1, HeldStaysCovered DEF CoverInv, NeverCancelled
    <2>3. DoneCovers'
      <3>1. \A m \in Msg : Due(m, st.backfill.start) => Known(m)
        BY <2>1 DEF CoverInv, BackfillCovers, Due, Expected, NothingPlanned
      <3>2. st'.source = st.backfill.start
        BY <1>0, <2>1 DEF State
      <3> QED
        BY <2>1, <3>1, <3>2 DEF DoneCovers, Due, Expected, Alive, Known
    <2> QED
      BY <2>1, <2>2, <2>3 DEF CoverInv, InOrder, BackfillCovers, DeltaCovers, PassCovers
  <1>4. CASE StartFinal
    <2>1. /\ pc = "apply days" /\ pc' \in {"apply", "commit"} /\ stage' = "final" /\ ~cancel
          /\ target' = target /\ cancel' = cancel /\ batch' = plan
          /\ batch = NothingPlanned /\ UNCHANGED <<serverVars, head, dstate, ix>>
      BY <1>4 DEF StartFinal, TypeInv, NothingLeftOver
    <2>2. stage \in {"sync", "reconcile", "past day"}
      BY <2>1 DEF TypeInv, StageOfStep
    <2>3. NoMessageLost' /\ BackfilledDaysHeld' /\ NeverCancelled'
      BY <2>1, HeldStaysCovered DEF CoverInv, NeverCancelled
    <2>4. PassCovers'
      BY <2>1, <2>2 DEF CoverInv, PassCovers, Due, Expected, Alive, Known, NothingPlanned
    <2> QED
      BY <2>1, <2>3, <2>4 DEF CoverInv, InOrder, BackfillCovers, DoneCovers, DeltaCovers
  <1>5. ASSUME NEW m \in Msg, ApplyAdded(m) \/ ApplyUpdated(m) \/ ApplyDeleted(m)
        PROVE  CoverInv'
    <2>1. /\ pc = "apply" /\ pc' = "apply" /\ stage' = stage /\ cancel' = cancel
          /\ stage \in {"backfill", "past day", "final"} /\ target' = target
          /\ seen' = seen /\ unread' = unread /\ plan' = plan /\ st' = st
          /\ UNCHANGED <<serverVars, head, dstate>>
      BY <1>5 DEF ApplyAdded, ApplyUpdated, ApplyDeleted, Applied, TypeInv, StageOfStep
    <2>2. NoMessageLost' /\ BackfilledDaysHeld' /\ NeverCancelled'
      BY <2>1, HeldStaysCovered DEF CoverInv, NeverCancelled
    <2>3. InOrder'
      BY <2>1 DEF CoverInv, InOrder
    <2>4. ASSUME NEW n \in Msg, Known(n) \/ n \in batch.add
          PROVE  \/ Known(n)' \/ n \in batch'.add
                 \/ stage = "final" /\ Unwanted(n)
      <3>1. ix[m] \in Entry \cup {None}
        BY <1>0 DEF Index
      <3>2. CASE ApplyAdded(m)
        <4>1. metas[m] \in Meta
          BY <3>2 DEF ApplyAdded, TypeInv, VarsOK, MetadataCollected
        <4>2. /\ ix' = [ix EXCEPT ![m] = AddEntry(Files, m, ix[m], metas[m])]
              /\ batch'.add = batch.add \ {m}
          BY <1>0, <3>2 DEF ApplyAdded, Applied, Planned
        <4>3. AddEntry(Files, m, ix[m], metas[m]) # None
          BY <3>1, <4>1, EntryAdded, EntryAssumption
        <4> QED
          BY <1>0, <2>4, <4>2, <4>3 DEF Known, Index
      <3>3. CASE ApplyUpdated(m)
        <4>1. metas[m] \in Meta
          BY <3>3 DEF ApplyUpdated, TypeInv, VarsOK, MetadataCollected
        <4>2. /\ ix' = [ix EXCEPT ![m] = UpdateEntry(Files, m, ix[m], metas[m])]
              /\ batch'.add = batch.add
          BY <1>0, <3>3 DEF ApplyUpdated, Applied, Planned
        <4>3. ix[m] # None => UpdateEntry(Files, m, ix[m], metas[m]) # None
          BY <3>1, <4>1, EntryStays, EntryAssumption
        <4> QED
          BY <1>0, <2>4, <4>2, <4>3 DEF Known, Index
      <3>4. CASE ApplyDeleted(m)
        <4>1. ix' = [ix EXCEPT ![m] = None] /\ batch'.add = batch.add /\ m \in batch.delete
          BY <1>0, <3>4 DEF ApplyDeleted, Applied, Planned
        <4>2. stage = "final" /\ Unwanted(m)
          BY <2>1, <4>1 DEF ReasonInv, DeletionsJustified
        <4>3. n # m => (Known(n)' <=> Known(n))
          BY <1>0, <4>1 DEF Known, Index
        <4> QED
          BY <2>4, <4>1, <4>2, <4>3
      <3> QED
        BY <1>5, <3>2, <3>3, <3>4
    <2>5. BackfillCovers'
      <3>1. \A n \in Msg : Due(n, st.backfill.start)' <=> Due(n, st.backfill.start)
        BY <2>1 DEF Due, Expected, Alive
      <3> QED
        BY <2>1, <2>4, <3>1 DEF CoverInv, BackfillCovers
    <2>6. PassCovers'
      <3>1. \A n \in Msg : Due(n, target)' <=> Due(n, target)
        BY <2>1 DEF Due, Expected, Alive
      <3>2. \A n \in Msg : Due(n, target) => ~Unwanted(n)
        BY <1>0 DEF Due, Unwanted
      <3> QED
        BY <2>1, <2>4, <3>1, <3>2 DEF CoverInv, PassCovers
    <2> QED
      BY <2>1, <2>2, <2>3, <2>5, <2>6 DEF CoverInv, DoneCovers, DeltaCovers
  <1>6. CASE ApplyEnds
    <2>1. /\ pc = "apply" /\ pc' = "commit" /\ stage' = stage /\ cancel' = cancel
          /\ target' = target /\ batch' = batch /\ seen' = seen /\ unread' = unread
          /\ plan' = plan /\ st' = st /\ UNCHANGED <<serverVars, head, dstate, ix>>
          /\ stage \in {"backfill", "past day", "final"}
      BY <1>6 DEF ApplyEnds, TypeInv, StageOfStep
    <2>2. NoMessageLost' /\ BackfilledDaysHeld' /\ NeverCancelled'
      BY <2>1, HeldStaysCovered DEF CoverInv, NeverCancelled
    <2> QED
      BY <2>1, <2>2 DEF CoverInv, InOrder, BackfillCovers, PassCovers, DoneCovers, DeltaCovers,
         Due, Expected, Alive, Known
  <1>7. CASE Commit
    <2>1. /\ pc = "commit" /\ pc' = "save state" /\ stage' = stage /\ cancel' = cancel
          /\ target' = target /\ batch' = batch /\ seen' = seen /\ unread' = unread
          /\ plan' = plan /\ st' = [st EXCEPT !.saved = TRUE] /\ UNCHANGED <<serverVars, ix>>
      BY <1>7 DEF Commit, GitStore
    <2>2. st'.source = st.source /\ st'.backfill = st.backfill
      BY <1>0, <2>1 DEF State
    <2>3. NoMessageLost' /\ BackfilledDaysHeld' /\ NeverCancelled'
      BY <1>7, <2>1, CommitCovers DEF CoverInv, NeverCancelled
    <2>4. InOrder' /\ BackfillCovers'
      BY <2>1, <2>2 DEF CoverInv, InOrder, BackfillCovers, Due, Expected, Alive, Known
    <2>5. PassCovers' /\ DoneCovers' /\ DeltaCovers'
      BY <2>1, <2>2 DEF CoverInv, PassCovers, DoneCovers, DeltaCovers, Due, Expected, Alive,
         Known
    <2> QED
      BY <2>3, <2>4, <2>5 DEF CoverInv
  <1>8. CASE SaveState
    <2>1. /\ pc = "save state" /\ pc' = "save index" /\ stage' = stage /\ cancel' = cancel
          /\ target' = target /\ batch' = batch /\ seen' = seen /\ unread' = unread
          /\ plan' = plan /\ st' = st /\ dstate' = st
          /\ UNCHANGED <<serverVars, head, ix>> /\ batch = NothingPlanned
      BY <1>8 DEF SaveState, TypeInv, NothingLeftOver
    <2>2. \A m \in Msg : (Held(m)' <=> Known(m)) /\ (Expected(m)' <=> Expected(m))
      BY <2>1, HeldInHead, KnownIsHeld DEF Expected, Alive
    <2>3. Acknowledged' = IF st.backfill # None THEN 0 ELSE st.source
      BY <1>0, <2>1, CursorAssumption DEF Acknowledged
    <2>4. NoMessageLost'
      <3>1. CASE st.backfill # None
        <4>1. \A m \in Msg : ~(0 < changed[m] /\ changed[m] <= 0)
          BY <1>0
        <4> QED
          BY <2>1, <2>3, <3>1, <4>1 DEF NoMessageLost, Settled
      <3>2. CASE st.backfill = None /\ stage = "done"
        BY <2>1, <2>2, <2>3, <3>2 DEF CoverInv, DoneCovers, NoMessageLost, Settled, Due
      <3>3. CASE st.backfill = None /\ stage \in {"sync", "reconcile", "past day"}
        <4>1. Acknowledged' = Acknowledged
          BY <2>3, <3>3 DEF ReasonInv, CursorInv
        <4> QED
          BY <2>1, <2>2, <4>1, KnownIsHeld DEF CoverInv, NoMessageLost, Settled
      <3>4. CASE st.backfill = None /\ stage = "final"
        <4>1. Acknowledged' = target /\ plan = NothingPlanned
          BY <2>1, <2>3, <3>4 DEF ReasonInv, CursorInv, TypeInv, NothingLeftOver
        <4>2. \A m \in Msg : Due(m, target) => Known(m)
          BY <2>1, <3>4, <4>1 DEF CoverInv, PassCovers, NothingPlanned
        <4> QED
          BY <2>1, <2>2, <4>1, <4>2 DEF NoMessageLost, Settled, Due
      <3>5. stage = "backfill" => st.backfill # None
        BY DEF TypeInv, StageOfStep
      <3> QED
        BY <3>1, <3>2, <3>3, <3>4, <3>5 DEF TypeInv, VarsOK
    <2>5. BackfilledDaysHeld'
      <3>1. st.backfill # None => stage = "backfill"
        BY <2>1 DEF ReasonInv, CursorInv, TypeInv, VarsOK
      <3>2. CASE stage = "backfill"
        <4>1. \A m \in Msg : Due(m, st.backfill.start) /\ Day[m] <= st.backfill.last => Known(m)
          <5>1. st.backfill.last \in Nat
            BY <3>2, StatesAreNumbers DEF TypeInv, StageOfStep
          <5>2. \A m \in Msg : Day[m] <= st.backfill.last => ~(Day[m] > st.backfill.last)
            BY <1>0, <5>1
          <5> QED
            BY <2>1, <3>2, <5>2 DEF CoverInv, BackfillCovers, NothingPlanned
        <4> QED
          BY <2>1, <2>2, <4>1 DEF BackfilledDaysHeld, Due
      <3> QED
        BY <2>1, <3>1, <3>2 DEF BackfilledDaysHeld
    <2>6. InOrder' /\ BackfillCovers' /\ NeverCancelled'
      BY <2>1 DEF CoverInv, InOrder, BackfillCovers, NeverCancelled, Due, Expected, Alive, Known
    <2>7. PassCovers' /\ DoneCovers' /\ DeltaCovers'
      BY <2>1 DEF CoverInv, PassCovers, DoneCovers, DeltaCovers, Due, Expected, Alive, Known
    <2> QED
      BY <2>4, <2>5, <2>6, <2>7 DEF CoverInv
  <1>9. CASE SaveIndex
    <2>1. /\ pc = "save index" /\ batch = NothingPlanned
          /\ UNCHANGED <<serverVars, head, dstate, cancel>>
      BY <1>9 DEF SaveIndex, TypeInv, NothingLeftOver
    <2>2. NoMessageLost' /\ BackfilledDaysHeld' /\ NeverCancelled'
      BY <2>1, HeldStaysCovered DEF CoverInv, NeverCancelled
    <2>3. CASE \/ stage = "backfill" /\ pc' = "enumerate"
               \/ stage = "past day" /\ pc' = "apply days"
      <3>1. UNCHANGED <<memVars, kind, stage, target, collectVars, plan, batch>>
        BY <1>9, <2>3 DEF SaveIndex
      <3>2. InOrder' /\ BackfillCovers'
        BY <2>1, <2>3, <3>1 DEF CoverInv, InOrder, BackfillCovers, Due, Expected, Alive, Known
      <3>3. PassCovers' /\ DoneCovers' /\ DeltaCovers'
        BY <2>1, <2>3, <3>1 DEF CoverInv, PassCovers, DoneCovers, DeltaCovers, Due, Expected,
           Alive, Known
      <3> QED
        BY <2>2, <3>2, <3>3 DEF CoverInv
    <2>4. CASE stage = "done" /\ kind = "backup"
      <3>1. stage' = "sync" /\ pc' = "changes" /\ target' = st.source /\ st' = st
        BY <1>9, <2>4 DEF SaveIndex, StartSync
      <3>2. DeltaCovers'
        <4>1. \A m \in Msg : ~(st.source < changed[m] /\ changed[m] <= st.source)
          BY <1>0
        <4> QED
          BY <2>1, <3>1, <4>1 DEF DeltaCovers
      <3> QED
        BY <2>2, <3>1, <3>2 DEF CoverInv, InOrder, BackfillCovers, DoneCovers, PassCovers
    <2>5. CASE EndPass
      BY <2>1, <2>5, EndPassCoverInv
    <2> QED
      BY <1>9, <2>3, <2>4, <2>5 DEF SaveIndex
  <1> QED
    BY <1>1, <1>2, <1>3, <1>4, <1>5, <1>6, <1>7, <1>8, <1>9 DEF Write

\* Stopping leaves the archive and the saved cursor as they are.
LEMMA StopCoverInv ==
    ASSUME GitStore, TypeInv, FiledInv, CoverInv, Stop \/ Cancel \/ Fail \/ Crash
    PROVE  CoverInv'
  <1> USE DEF serverVars, diskVars, queueVars, memVars, collectVars, faultVars
  <1>1. CASE FetchFails \/ Interrupted \/ BuildTreeFails
    <2>1. EndPass /\ UNCHANGED <<serverVars, head, dstate>> /\ cancel' = cancel
      BY <1>1 DEF FetchFails, Interrupted, BuildTreeFails
    <2> QED
      BY <2>1, EndPassCoverInv
  <1>2. CASE Crash
    BY <1>2, CrashLeaves, EndPassCoverInv DEF Crash
  <1>3. CASE Fail
    <2>1. fails \in Nat /\ fails < 0
      BY <1>3 DEF Fail, GitStore, TypeInv, VarsOK
    <2> QED
      BY <2>1
  <1>4. CASE Restart \/ Cancel
    <2>1. /\ UNCHANGED <<serverVars, head, dstate, st, ix, pc, kind, stage, target,
                         collectVars, plan, batch>>
          /\ pc = "idle" \/ cancel'
      BY <1>4 DEF Restart, Cancel
    <2>2. NoMessageLost' /\ BackfilledDaysHeld'
      BY <2>1, HeldStaysCovered
    <2>3. NeverCancelled'
      <3>1. cancels \in Nat
        BY DEF TypeInv, VarsOK
      <3> QED
        BY <1>4, <3>1 DEF Restart, Cancel, NeverCancelled
    <2>4. InOrder' /\ BackfillCovers'
      BY <2>1 DEF CoverInv, InOrder, BackfillCovers, Due, Expected, Alive, Known, TypeInv,
         StageOfStep
    <2>5. PassCovers' /\ DoneCovers' /\ DeltaCovers'
      BY <2>1 DEF CoverInv, PassCovers, DoneCovers, DeltaCovers, Due, Expected, Alive, Known
    <2> QED
      BY <2>2, <2>3, <2>4, <2>5 DEF CoverInv
  <1> QED
    BY <1>1, <1>2, <1>3, <1>4 DEF Stop

\* Every step of such a store, and every stutter.
LEMMA CoverInvStep ==
    ASSUME GitStore, AnchorKept, WholeDays, TypeInv, FiledInv, ReasonInv, CoverInv, [Next]_vars
    PROVE  CoverInv'
  <1>1. TypeInv' /\ FiledInv'
    BY TypeInvStep, FiledInvStep
  <1>2. CASE UNCHANGED vars
    <2>1. UNCHANGED <<serverVars, head, dstate, st, ix, pc, stage, target, collectVars,
                      plan, batch, cancel>>
      BY <1>2 DEF vars, diskVars, memVars
    <2> USE DEF serverVars, collectVars
    <2>2. NoMessageLost' /\ BackfilledDaysHeld'
      BY <2>1, HeldStaysCovered
    <2>3. InOrder' /\ BackfillCovers' /\ NeverCancelled'
      BY <2>1 DEF CoverInv, NeverCancelled, InOrder, BackfillCovers, Due, Expected, Alive, Known
    <2>4. PassCovers' /\ DoneCovers' /\ DeltaCovers'
      BY <2>1 DEF CoverInv, PassCovers, DoneCovers, DeltaCovers, Due, Expected, Alive, Known
    <2> QED
      BY <2>2, <2>3, <2>4 DEF CoverInv
  <1>3. CASE Account
    BY <1>3, AccountCoverInv
  <1>4. CASE \E k \in {"backup", "refresh"} : Begin(k)
    BY <1>1, <1>4, BeginCoverInv
  <1>5. CASE Collect
    BY <1>5, CollectCoverInv
  <1>6. CASE Write
    BY <1>1, <1>6, WriteCoverInv
  <1>7. CASE Stop \/ Cancel \/ Fail \/ Crash
    BY <1>7, StopCoverInv
  <1> QED
    BY <1>2, <1>3, <1>4, <1>5, <1>6, <1>7 DEF Next, Engine

\* Every reachable state of such a store.
LEMMA CoverAlways ==
    ASSUME GitStore, AnchorKept, WholeDays
    PROVE  Spec => []CoverInv
  <1>1. Init => TypeInv /\ FiledInv /\ ReasonInv /\ CoverInv
    BY InitTypeInv, InitFiledInv, InitReasonInv, InitCoverInv
  <1>2. TypeInv /\ FiledInv /\ ReasonInv /\ CoverInv /\ [Next]_vars
        => (TypeInv /\ FiledInv /\ ReasonInv /\ CoverInv)'
    BY TypeInvStep, FiledInvStep, ReasonInvStep, CoverInvStep
  <1> QED
    BY <1>1, <1>2, PTL DEF Spec

\* The cursor in state.json never runs ahead of the archive: a message that it
\* covers, and that no catch-up will therefore ask for again, is in HEAD,
\* whatever changed while the passes ran and wherever they were cancelled or
\* killed (backfill, sync, reconcile, apply_planned, checkpoint together).
THEOREM CursorLosesNothing ==
    GitStore /\ AnchorKept /\ WholeDays => (Spec => []NoMessageLost)
  <1> SUFFICES ASSUME GitStore, AnchorKept, WholeDays PROVE Spec => []NoMessageLost
    OBVIOUS
  <1>1. CoverInv => NoMessageLost
    BY DEF CoverInv
  <1> QED
    BY <1>1, CoverAlways, PTL

\* A backfill that is resumed behind the last day that state.json calls
\* committed misses nothing of the days before (finalize_day, checkpoint).
THEOREM ResumedBackfillMissesNothing ==
    GitStore /\ AnchorKept /\ WholeDays => (Spec => []BackfilledDaysHeld)
  <1> SUFFICES ASSUME GitStore, AnchorKept, WholeDays PROVE Spec => []BackfilledDaysHeld
    OBVIOUS
  <1>1. CoverInv => BackfilledDaysHeld
    BY DEF CoverInv
  <1> QED
    BY <1>1, CoverAlways, PTL

=============================================================================
