----------------------------- MODULE MirrorProofs -----------------------------
(***************************************************************************)
(* A git store that is not killed mirrors the account exactly up to the    *)
(* state it has acknowledged, and so implements Mirror: for every account, *)
(* mailbox, filter, day and bound, and wherever its passes are cancelled.  *)
(***************************************************************************)
EXTENDS BackupEngineProofs

NoKills == MaxCrashes = 0

\* A change list names whatever was destroyed, also what it created itself.
NamesDestroyed == OmitsTransient = FALSE

-----------------------------------------------------------------------------
(* The worktree and the index, file by file.                                *)

\* The index gives every message that it knows the metadata of the sidecar in
\* the tree, and files it by that.
Describes(i, t) ==
    \A m \in Msg : i[m] # None => /\ t[Sidecar(m, i[m].box)] = i[m].meta
                                  /\ i[m].meta.box = i[m].box

\* A sidecar lies in the mailbox that it names.
InPlace(t) ==
    \A m \in Msg, b \in Box : t[Sidecar(m, b)] # None => t[Sidecar(m, b)].box = b

\* The next commit is the worktree as it is, and the index, or the cache of it
\* that an open would trust, says what is there.
TreeInv ==
    /\ NextTree = wt
    /\ InPlace(head)
    /\ pc # "idle" => Describes(ix, wt)
    /\ pc # "save index" /\ dstate # None /\ dstate.saved /\ dindex # None
         => Describes(dindex, head)

\* Cards the index knows are in HEAD or in the next commit, and so in HEAD once
\* the index is saved for it.
CardsFollow ==
    /\ cards.head \/ cards.queued => cards.worktree
    /\ pc # "idle" /\ cards.known => cards.head \/ cards.queued
    /\ pc \in {"save state", "save index"} /\ st.saved /\ cards.known => cards.head
    /\ pc # "save index" /\ Trusted /\ cards.indexed => cards.head

\* A backfill knows the mailboxes from its start, and commits their cards with
\* its first day.
BackfillCards ==
    stage = "backfill" =>
        /\ cards.known /\ st.backfill # None
        /\ st.saved => cards.head
        /\ pc \in {"enumerate", "day"} /\ st.backfill.last # 0 => cards.head
        /\ pc \in {"save state", "save index"} => cards.head

\* What is saved after that has the cards in HEAD, but for a backfill without a day.
SavedCards ==
    /\ pc = "save state" => cards.head \/ cards.bare
    /\ pc = "save index" => dstate = st
    /\ dstate # None => /\ cards.head \/ cards.bare
                        /\ dstate.backfill # None => cards.head

\* There is a state to start from, once there is one to save.
StatesStart ==
    /\ stage # "backfill" => st.backfill = None
    /\ stage = "backfill" => st.backfill.start # 0
    /\ stage = "done" /\ pc # "idle" => st.source # 0 /\ pc # "commit"
    /\ stage \notin {"backfill", "done"} => dstate # None /\ st.source # 0 /\ target # 0
    /\ dstate # None => IF dstate.backfill # None THEN dstate.backfill.start # 0
                        ELSE dstate.source # 0

CardInv == CardsTyped /\ CardsFollow /\ BackfillCards /\ SavedCards /\ StatesStart

-----------------------------------------------------------------------------
(* Why what the cursor covers is mirrored exactly.                          *)

EntryFor(x) == [meta |-> x, box |-> x.box]

\* The index files m as the account has it, or not at all when it should not.
IndexExact(m) == ix[m] = IF Expected(m) THEN EntryFor(meta[m]) ELSE None

\* What is to be filed matches the filter; what is to be updated is known.
PlanMatches ==
    /\ \A m \in plan.add \cup plan.update \cup batch.add \cup batch.update :
          Matches(metas[m])
    /\ \A m \in plan.update \cup batch.update : Known(m)

\* A catch-up has been told of every message that was destroyed.
DestroyedNamed ==
    stage = "sync" /\ pc \in {"changes", "plan"} =>
        \A m \in Msg : ~Alive(m) /\ st.source < changed[m] /\ changed[m] <= target
            => m \in delta.destroyed

\* What was never there is nowhere.
UncreatedUnknown ==
    \A m \in Msg : changed[m] = 0 => ~Held(m) /\ (pc # "idle" => ~Known(m))

\* During a pass the index is exact for all that the saved cursor covers.
SettledExact == pc # "idle" => \A m \in Msg : Settled(m) => IndexExact(m)

\* A backfill files nothing but what is exact, unless it changed after the
\* backfill began.
BackfillExact ==
    stage = "backfill" =>
        \A m \in Msg : changed[m] <= st.backfill.start /\ Known(m) => IndexExact(m)

\* So is what a backfill under way has left in HEAD; resumed, it began when it did.
SavedBackfillExact ==
    dstate # None /\ dstate.backfill # None =>
        /\ stage = "backfill" => st.backfill.start = dstate.backfill.start
        /\ \A m \in Msg : changed[m] <= dstate.backfill.start /\ Held(m) => Mirrored(m)

\* Before a state is saved nothing is committed, but for the first day; and a
\* completed backfill has nothing to commit.
FirstDay ==
    /\ dstate = None => /\ pc # "save state" => \A m \in Msg : ~Held(m)
                        /\ pc # "idle" => stage \in {"backfill", "done"}
    /\ pc = "commit" => stage # "done"

\* A completed backfill is exact for what its first catch-up will not ask for.
DoneExact ==
    stage = "done" /\ pc # "idle" =>
        \A m \in Msg : 0 < changed[m] /\ changed[m] <= st.source => IndexExact(m)

\* What a pass still has to do about m, because of what m is now.
Pending(m) ==
    \/ Expected(m) /\ m \in plan.add \cup batch.add \cup plan.update \cup batch.update
    \/ ~Expected(m) /\ m \in plan.delete \cup batch.delete

\* What the cursor of a pass will cover is exact or about to be, unless the
\* pass is cancelled before it takes up its first batch.
PassExact ==
    /\ pc \in {"apply days", "apply", "commit", "save state", "save index"}
    /\ stage \notin {"backfill", "done"} /\ ~(pc = "apply days" /\ cancel)
    => \A m \in Msg : 0 < changed[m] /\ changed[m] <= target => IndexExact(m) \/ Pending(m)

ExactInv ==
    /\ PlanMatches /\ DestroyedNamed /\ UncreatedUnknown /\ SettledExact /\ BackfillExact
    /\ SavedBackfillExact /\ FirstDay /\ DoneExact /\ PassExact /\ CursorSound

-----------------------------------------------------------------------------
(* What an event does to the files themselves.                              *)

\* The commit that a stage leads to is its worktree.
InStep(t, s) ==
    \A f \in File : /\ s.ed[f] = "keep" => t[f] = s.wt[f]
                    /\ s.ed[f] = "remove" => s.wt[f] = None

\* Said of a whole tree: that commit is the worktree (git.rs build_tree).
LEMMA InStepBuilds ==
    ASSUME NEW t \in Tree, NEW s \in Stage
    PROVE  InStep(t, s) <=> BuildTree(t, s.ed, s.wt) = s.wt
  <1>1. s.wt = [f \in File |-> s.wt[f]]
    BY DEF Stage, Tree
  <1>2. \A f \in File : s.ed[f] \in {"keep", "upsert", "remove"}
    BY DEF Stage, Edits
  <1>3. ASSUME InStep(t, s) PROVE BuildTree(t, s.ed, s.wt) = s.wt
    <2>1. BuildTree(t, s.ed, s.wt) = [f \in File |-> s.wt[f]]
      BY <1>2, <1>3 DEF InStep, BuildTree
    <2> QED
      BY <1>1, <2>1
  <1>4. ASSUME BuildTree(t, s.ed, s.wt) = s.wt PROVE InStep(t, s)
    BY <1>4 DEF InStep, BuildTree
  <1> QED
    BY <1>3, <1>4

\* A file that is written or removed is so in the worktree and in the commit.
LEMMA WriteInStep ==
    ASSUME NEW t \in Tree, NEW s \in Stage, NEW f \in File, NEW c, InStep(t, s)
    PROVE  InStep(t, WriteFile(s, f, c)) /\ InStep(t, RemoveFile(s, f))
  BY DEF InStep, WriteFile, RemoveFile, Push, Stage, Tree, Edits

\* A message whose two files are in its old place leaves nothing there when it
\* moves (dir.rs apply_message_updated).
LEMMA MoveCleans ==
    ASSUME NEW s \in Stage, NEW m \in Msg, NEW e \in Entry, NEW x \in Meta,
           MoveNeeded(e, x), s.wt[Eml(m, e.box)] = Raw, s.wt[Sidecar(m, e.box)] # None
    PROVE  LET u == MovePushed(s, m, e, x) IN
           u.wt[Eml(m, e.box)] = None /\ u.wt[Sidecar(m, e.box)] = None
  <1> DEFINE a == EmlMoved(s, m, e, x)
             b == SidecarMoved(s, m, e, x)
             u == MovePushed(s, m, e, x)
             oe == Eml(m, e.box)
             os == Sidecar(m, e.box)
             ne == Eml(m, x.box)
             ns == Sidecar(m, x.box)
  <1>1. e.box \in Box /\ x.box \in Box /\ x.box # e.box
    BY MetaAssumption DEF Entry, MoveNeeded
  <1>2. /\ oe \in File /\ os \in File /\ ne \in File /\ ns \in File
        /\ oe # os /\ oe # ne /\ oe # ns /\ os # ne /\ os # ns
    <2>1. /\ oe \in File /\ os \in File /\ ne \in File /\ ns \in File
      BY <1>1, FilesAreFiles
    <2>2. oe # os /\ oe # ns /\ ne # os
      BY <1>1, FilesDistinct
    <2>3. oe # ne /\ os # ns
      BY <1>1, FilesDistinct
    <2> QED
      BY <2>1, <2>2, <2>3
  <1>3. a = [s EXCEPT !.wt = Rename(s.wt, oe, ne)] /\ a \in Stage
    BY NoneAssumption, EmlMovedType DEF EmlMoved
  <1>4. b = [a EXCEPT !.wt = Rename(a.wt, os, ns)] /\ b \in Stage
    BY NoneAssumption, SidecarMovedType DEF SidecarMoved
  <1>5. u = [b EXCEPT !.ed = [b.ed EXCEPT ![oe] = "remove", ![os] = "remove",
                                          ![ne] = "upsert", ![ns] = "upsert"]]
    BY DEF MovePushed
  <1>6. s.wt[oe] = Raw /\ s.wt[os] # None
    OBVIOUS
  <1> HIDE DEF oe, os, ne, ns, a, b, u
  <1>7. a.wt = Rename(s.wt, oe, ne) /\ b.wt = Rename(a.wt, os, ns) /\ u.wt = b.wt
    BY <1>3, <1>4, <1>5 DEF Stage
  <1>8. s.wt \in Tree /\ a.wt \in Tree
    BY <1>3 DEF Stage
  <1>9. a.wt[oe] = None
    BY <1>2, <1>7, <1>8 DEF Rename, Tree
  <1>10. b.wt[oe] = None /\ b.wt[os] = None
    BY <1>2, <1>7, <1>8, <1>9 DEF Rename, Tree
  <1> QED
    BY <1>7, <1>10 DEF oe, os, u

\* An update of a message whose two files are where the index says.
LEMMA UpdateInStep ==
    ASSUME NEW t \in Tree, NEW s \in Stage, InStep(t, s), NEW m \in Msg, NEW e \in Entry,
           NEW x \in Meta, s.wt[Eml(m, e.box)] = Raw, s.wt[Sidecar(m, e.box)] # None
    PROVE  LET v == UpdateDone(s, m, e, x) IN
           /\ InStep(t, v) /\ UpdateEntry(s, m, e, x) = EntryFor(x)
           /\ v.wt[Sidecar(m, x.box)] = x
           /\ \A n \in Msg \ {m}, b \in Box : v.wt[Sidecar(n, b)] = s.wt[Sidecar(n, b)]
  <1> DEFINE v == UpdateDone(s, m, e, x)
             u == MovePushed(s, m, e, x)
             oe == Eml(m, e.box)
             os == Sidecar(m, e.box)
             ne == Eml(m, x.box)
             ns == Sidecar(m, x.box)
  <1>1. e.box \in Box /\ x.box \in Box /\ e # None /\ Raw # None
    BY MetaAssumption, EntryAssumption, NoneAssumption DEF Entry
  <1>2. ~UpdateSkipped(s, m, e, x) /\ UpdateEntry(s, m, e, x) = EntryFor(x)
    BY <1>1 DEF UpdateSkipped, UpdateEntry, EntryFor
  <1>3. {oe, os, ne, ns} \subseteq File
    BY <1>1, FilesAreFiles
  <1>4. /\ InStep(t, u) /\ u \in Stage
        /\ \A n \in Msg \ {m}, b \in Box : u.wt[Sidecar(n, b)] = s.wt[Sidecar(n, b)]
    <2>1. CASE ~MoveNeeded(e, x)
      <3>1. u = s
        BY <2>1 DEF MovePushed, SidecarMoved, EmlMoved
      <3> HIDE DEF u
      <3> QED
        BY <3>1
    <2>2. CASE MoveNeeded(e, x)
      <3>1. /\ u.ed[oe] = "remove" /\ u.ed[os] = "remove"
            /\ u.ed[ne] = "upsert" /\ u.ed[ns] = "upsert"
            /\ \A f \in File \ {oe, os, ne, ns} : u.wt[f] = s.wt[f] /\ u.ed[f] = s.ed[f]
        BY <1>2, <2>2, MoveEffect
      <3>2. u.wt[oe] = None /\ u.wt[os] = None
        BY <2>2, MoveCleans
      <3>3. u \in Stage
        BY <1>1, <2>2, MovePushedType
      <3> HIDE DEF u
      <3>4. \A n \in Msg \ {m}, b \in Box : Sidecar(n, b) \in File \ {oe, os, ne, ns}
        BY <1>1, FilesAreFiles, FilesDistinct
      <3> HIDE DEF oe, os, ne, ns
      <3>5. InStep(t, u)
        <4>1. ASSUME NEW f \in File
              PROVE  /\ u.ed[f] = "keep" => t[f] = u.wt[f]
                     /\ u.ed[f] = "remove" => u.wt[f] = None
          <5>1. CASE f \in {oe, os, ne, ns}
            BY <3>1, <3>2, <5>1
          <5>2. CASE f \notin {oe, os, ne, ns}
            <6>1. u.wt[f] = s.wt[f] /\ u.ed[f] = s.ed[f]
              BY <3>1, <5>2
            <6> QED
              BY <6>1 DEF InStep
          <5> QED
            BY <5>1, <5>2
        <4> QED
          BY <4>1 DEF InStep
      <3> QED
        BY <3>1, <3>3, <3>4, <3>5
    <2> QED
      BY <2>1, <2>2
  <1>5. IF u.wt[ns] = x THEN v = u ELSE v = WriteFile(u, ns, x)
    BY <1>2 DEF UpdateDone
  <1> HIDE DEF u, v
  <1>6. CASE v = u /\ u.wt[ns] = x
    BY <1>2, <1>4, <1>6 DEF v
  <1>7. CASE v = WriteFile(u, ns, x)
    <2>1. InStep(t, v) /\ v.wt = [u.wt EXCEPT ![ns] = x] /\ ns \in File /\ u.wt \in Tree
      <3>1. ns \in File
        BY <1>3
      <3> HIDE DEF ns
      <3>2. InStep(t, WriteFile(u, ns, x))
        BY <1>4, <3>1, WriteInStep
      <3>3. WriteFile(u, ns, x).wt = [u.wt EXCEPT ![ns] = x]
        BY <1>4 DEF WriteFile, Push, Stage
      <3> QED
        BY <1>4, <1>7, <3>1, <3>2, <3>3 DEF Stage
    <2>2. v.wt[ns] = x
      BY <2>1 DEF Tree
    <2>3. ASSUME NEW n \in Msg \ {m}, NEW b \in Box
          PROVE  v.wt[Sidecar(n, b)] = s.wt[Sidecar(n, b)]
      <3>1. Sidecar(n, b) \in File /\ Sidecar(n, b) # ns
        BY <1>1, FilesAreFiles, FilesDistinct
      <3> HIDE DEF ns
      <3> QED
        BY <1>4, <2>1, <3>1 DEF Tree
    <2> QED
      BY <1>2, <2>1, <2>2, <2>3 DEF v
  <1> QED
    BY <1>5, <1>6, <1>7


\* An index that files m by a sidecar that is where it says, and is otherwise as
\* the tree's other sidecars have it.
LEMMA FilingDescribes ==
    ASSUME NEW i \in Index, NEW t, NEW u, Describes(i, t), NEW m \in Msg, NEW x \in Meta,
           u[Sidecar(m, x.box)] = x,
           \A n \in Msg \ {m}, b \in Box : u[Sidecar(n, b)] = t[Sidecar(n, b)]
    PROVE  Describes([i EXCEPT ![m] = EntryFor(x)], u)
  <1> DEFINE j == [i EXCEPT ![m] = EntryFor(x)]
  <1>1. SUFFICES ASSUME NEW n \in Msg, j[n] # None
                 PROVE  u[Sidecar(n, j[n].box)] = j[n].meta /\ j[n].meta.box = j[n].box
    BY DEF Describes
  <1>2. CASE n = m
    BY <1>2 DEF Index, EntryFor
  <1>3. CASE n # m
    <2>1. j[n] = i[n] /\ i[n].box \in Box
      BY <1>1, <1>3 DEF Index, Entry
    <2> HIDE DEF j
    <2> QED
      BY <1>1, <1>3, <2>1 DEF Describes
  <1> QED
    BY <1>2, <1>3

\* apply_message_updated: the worktree is committed as it is, and the index says
\* what is in it.
LEMMA UpdateDescribes ==
    ASSUME NEW t \in Tree, NEW s \in Stage, InStep(t, s), NEW i \in Index,
           Agrees(s.wt, i), Describes(i, s.wt), NEW m \in Msg, NEW x \in Meta
    PROVE  LET v == UpdateDone(s, m, i[m], x)
               e == UpdateEntry(s, m, i[m], x) IN
           /\ InStep(t, v) /\ Describes([i EXCEPT ![m] = e], v.wt)
           /\ i[m] # None => e = EntryFor(x)
  <1>1. CASE i[m] = None
    <2>1. /\ UpdateDone(s, m, i[m], x) = s /\ UpdateEntry(s, m, i[m], x) = None
          /\ [i EXCEPT ![m] = None] = i
      BY <1>1 DEF UpdateDone, UpdateEntry, UpdateSkipped, Index
    <2> QED
      BY <1>1, <2>1
  <1>2. CASE i[m] # None
    <2> DEFINE e == i[m]
    <2>1. e \in Entry /\ e.box \in Box
      BY <1>2 DEF Index, Entry
    <2>2. s.wt[Eml(m, e.box)] = Raw /\ s.wt[Sidecar(m, e.box)] # None
      BY <1>2, <2>1 DEF Agrees
    <2>3. LET v == UpdateDone(s, m, e, x) IN
          /\ InStep(t, v) /\ UpdateEntry(s, m, e, x) = EntryFor(x)
          /\ v.wt[Sidecar(m, x.box)] = x
          /\ \A n \in Msg \ {m}, b \in Box : v.wt[Sidecar(n, b)] = s.wt[Sidecar(n, b)]
      BY <2>1, <2>2, UpdateInStep
    <2>4. Describes([i EXCEPT ![m] = EntryFor(x)], UpdateDone(s, m, e, x).wt)
      BY <2>3, FilingDescribes
    <2> QED
      BY <2>3, <2>4
  <1> QED
    BY <1>1, <1>2

\* apply_message_added does the same.
LEMMA AddDescribes ==
    ASSUME NEW t \in Tree, NEW s \in Stage, InStep(t, s), NEW i \in Index,
           Agrees(s.wt, i), Describes(i, s.wt), NEW m \in Msg, NEW x \in Meta
    PROVE  LET v == AddDone(s, m, i[m], x)
               e == AddEntry(s, m, i[m], x) IN
           InStep(t, v) /\ Describes([i EXCEPT ![m] = e], v.wt) /\ e = EntryFor(x)
  <1>1. CASE i[m] # None
    <2>1. i[m].box \in Box /\ s.wt[Eml(m, i[m].box)] = Raw /\ Raw # None
      BY <1>1, NoneAssumption DEF Index, Entry, Agrees
    <2>2. EmlRestored(s, m, i[m]) = s
      BY <2>1 DEF EmlRestored
    <2>3. /\ AddDone(s, m, i[m], x) = UpdateDone(s, m, i[m], x)
          /\ AddEntry(s, m, i[m], x) = UpdateEntry(s, m, i[m], x)
      BY <1>1, <2>2 DEF AddDone, AddEntry
    <2> QED
      BY <1>1, <2>3, UpdateDescribes
  <1>2. CASE i[m] = None
    <2> DEFINE s1 == WriteFile(s, Eml(m, x.box), Raw)
               v == WriteFile(s1, Sidecar(m, x.box), x)
    <2>1. /\ AddDone(s, m, i[m], x) = v /\ AddEntry(s, m, i[m], x) = EntryFor(x)
      BY <1>2 DEF AddDone, AddEntry, EmlAdded, EntryFor
    <2>2. x.box \in Box /\ Eml(m, x.box) \in File /\ Sidecar(m, x.box) \in File
      BY MetaAssumption, FilesAreFiles
    <2>3. s1 \in Stage /\ InStep(t, s1)
      BY <2>2, WriteEmlType, WriteInStep
    <2>4. s1.wt = [s.wt EXCEPT ![Eml(m, x.box)] = Raw] /\ s.wt \in Tree
      BY DEF WriteFile, Push, Stage
    <2>5. v \in Stage /\ InStep(t, v)
      <3> HIDE DEF s1
      <3> QED
        BY <2>2, <2>3, WriteSidecarType, WriteInStep
    <2>6. v.wt = [s1.wt EXCEPT ![Sidecar(m, x.box)] = x] /\ s1.wt \in Tree
      <3> HIDE DEF s1
      <3> QED
        BY <2>3 DEF WriteFile, Push, Stage
    <2> HIDE DEF s1, v
    <2>7. v.wt[Sidecar(m, x.box)] = x
      BY <2>2, <2>6 DEF Tree
    <2>8. ASSUME NEW n \in Msg \ {m}, NEW b \in Box
          PROVE  v.wt[Sidecar(n, b)] = s.wt[Sidecar(n, b)]
      <3>1. /\ Sidecar(n, b) \in File /\ Sidecar(n, b) # Sidecar(m, x.box)
            /\ Sidecar(n, b) # Eml(m, x.box)
        BY <2>2, FilesAreFiles, FilesDistinct
      <3> QED
        BY <2>2, <2>4, <2>6, <3>1 DEF Tree
    <2>9. Describes([i EXCEPT ![m] = EntryFor(x)], v.wt)
      BY <2>7, <2>8, FilingDescribes
    <2> QED
      BY <2>1, <2>5, <2>9
  <1> QED
    BY <1>1, <1>2

\* apply_message_deleted does the same.
LEMMA DeleteDescribes ==
    ASSUME NEW t \in Tree, NEW s \in Stage, InStep(t, s), NEW i \in Index,
           Describes(i, s.wt), NEW m \in Msg, i[m] # None
    PROVE  LET v == DeleteDone(s, m, i[m]) IN
           InStep(t, v) /\ Describes([i EXCEPT ![m] = None], v.wt)
  <1> DEFINE e == i[m]
             s1 == RemoveFile(s, Eml(m, e.box))
             v == RemoveFile(s1, Sidecar(m, e.box))
             j == [i EXCEPT ![m] = None]
  <1>1. /\ e.box \in Box /\ Eml(m, e.box) \in File /\ Sidecar(m, e.box) \in File
    BY FilesAreFiles DEF Index, Entry
  <1>2. s1 \in Stage /\ InStep(t, s1)
    BY <1>1, WriteEmlType, WriteInStep
  <1>3. s1.wt = [s.wt EXCEPT ![Eml(m, e.box)] = None] /\ s.wt \in Tree
    BY DEF RemoveFile, Push, Stage
  <1>4. InStep(t, v) /\ v.wt = [s1.wt EXCEPT ![Sidecar(m, e.box)] = None] /\ s1.wt \in Tree
    <2> HIDE DEF s1
    <2>1. InStep(t, v)
      BY <1>1, <1>2, WriteInStep
    <2>2. v.wt = [s1.wt EXCEPT ![Sidecar(m, e.box)] = None]
      BY <1>2 DEF RemoveFile, Push, Stage
    <2> QED
      BY <1>2, <2>1, <2>2 DEF Stage
  <1>5. DeleteDone(s, m, i[m]) = v
    BY DEF DeleteDone
  <1> HIDE DEF s1, v
  <1>6. ASSUME NEW n \in Msg \ {m}, NEW b \in Box
        PROVE  v.wt[Sidecar(n, b)] = s.wt[Sidecar(n, b)]
    <2>1. /\ Sidecar(n, b) \in File /\ Sidecar(n, b) # Sidecar(m, e.box)
          /\ Sidecar(n, b) # Eml(m, e.box)
      BY <1>1, FilesAreFiles, FilesDistinct
    <2> HIDE DEF e
    <2> QED
      BY <1>1, <1>3, <1>4, <2>1 DEF Tree
  <1>7. Describes(j, v.wt)
    <2>1. SUFFICES ASSUME NEW n \in Msg, j[n] # None
                   PROVE  v.wt[Sidecar(n, j[n].box)] = j[n].meta /\ j[n].meta.box = j[n].box
      BY DEF Describes
    <2>2. n # m /\ j[n] = i[n] /\ i[n].box \in Box
      BY <2>1 DEF Index, Entry
    <2> HIDE DEF j
    <2> QED
      BY <1>6, <2>1, <2>2 DEF Describes
  <1> QED
    BY <1>4, <1>5, <1>7

\* An index rebuilt from a tree whose sidecars are in place describes it
\* (rebuild_index_from_head).
LEMMA RebuiltDescribes ==
    ASSUME NEW t \in Tree, InPlace(t), NEW i \in Rebuilt(t)
    PROVE  Describes(i, t)
  <1> DEFINE held(m) == {b \in Box : t[Sidecar(m, b)] # None}
             entry(m, b) == [meta |-> t[Sidecar(m, b)], box |-> b]
  <1>1. PICK last \in [Msg -> Box] :
           /\ \A m \in Msg : held(m) = {} \/ last[m] \in held(m)
           /\ i = [m \in Msg |-> IF held(m) = {} THEN None ELSE entry(m, last[m])]
    BY DEF Rebuilt
  <1>2. SUFFICES ASSUME NEW m \in Msg, i[m] # None
                 PROVE  t[Sidecar(m, i[m].box)] = i[m].meta /\ i[m].meta.box = i[m].box
    BY DEF Describes
  <1>3. /\ i[m] = entry(m, last[m]) /\ last[m] \in Box /\ t[Sidecar(m, last[m])] # None
    BY <1>1, <1>2
  <1> QED
    BY <1>3 DEF InPlace

\* A tree that an index agrees with and describes has its sidecars in place.
LEMMA DescribedInPlace ==
    ASSUME NEW t, NEW i \in Index, Agrees(t, i), Describes(i, t)
    PROVE  InPlace(t)
  BY DEF Agrees, Describes, InPlace

-----------------------------------------------------------------------------
(* The worktree of a git store that is not killed is committed as it is.    *)

\* Before the first pass the worktree and HEAD are empty.
LEMMA InitTreeInv == Init => TreeInv
  <1> SUFFICES ASSUME Init PROVE TreeInv
    OBVIOUS
  <1>1. EmptyTree \in Tree /\ NoEdits \in Edits
    BY EmptyTypes
  <1>2. NextTree = wt
    BY <1>1, NoEditsKeep DEF Init, NextTree
  <1>3. InPlace(head)
    BY FilesAreFiles DEF Init, InPlace, EmptyTree
  <1> QED
    BY <1>2, <1>3 DEF Init, TreeInv

\* A step that leaves the files, the queues, the index and the saved state alone,
\* or drops the index at the end of a pass.
LEMMA UntouchedTreeInv ==
    ASSUME TreeInv, pc # "save index", UNCHANGED <<diskVars, edits, pending>>,
           pc' = "idle" \/ (ix' = ix /\ pc # "idle")
    PROVE  TreeInv'
  BY DEF TreeInv, NextTree, diskVars, queueVars

\* With nothing queued the worktree is HEAD.
LEMMA WorktreeIsHead ==
    ASSUME TypeInv, FiledInv, TreeInv, pc \notin {"apply", "commit"}
    PROVE  wt = head /\ edits = NoEdits /\ pending = NoEdits
  <1>1. /\ edits = NoEdits /\ pending = NoEdits /\ head \in Tree /\ NoEdits \in Edits
    BY EmptyTypes DEF FiledInv, QueuesEmpty, TypeInv, VarsOK
  <1> QED
    BY <1>1, NoEditsKeep DEF TreeInv, NextTree

\* Opening a git store: the index, cached or rebuilt, describes HEAD.
LEMMA BeginTreeInv ==
    ASSUME GitStore, TypeInv, FiledInv, TreeInv, NEW k \in {"backup", "refresh"}, Begin(k)
    PROVE  TreeInv'
  <1>1. /\ pc = "idle" /\ pc' \in {"enumerate", "changes"} /\ ix' \in OpenIndex
        /\ UNCHANGED <<diskVars, edits, pending>>
    BY DEF Begin, StartBackfill, StartReconcile, StartSync, StartEnumeration
  <1>2. wt = head /\ head \in Tree
    BY <1>1, WorktreeIsHead DEF TypeInv, VarsOK
  <1>3. Describes(ix', head)
    <2>1. CASE dindex # None /\ dstate # None /\ dstate.saved
      BY <1>1, <2>1 DEF OpenIndex, Trusted, GitStore, TreeInv
    <2>2. CASE ~(dindex # None /\ dstate # None /\ dstate.saved)
      <3>1. ix' \in Rebuilt(head)
        BY <1>1, <2>2 DEF OpenIndex, Trusted, GitStore
      <3> QED
        BY <1>2, <3>1, RebuiltDescribes DEF TreeInv
    <2> QED
      BY <2>1, <2>2
  <1> QED
    BY <1>1, <1>2, <1>3 DEF TreeInv, NextTree, diskVars, queueVars

\* The files of a batch under way are those of the commit it leads to.
LEMMA BatchInStep ==
    ASSUME TypeInv, FiledInv, TreeInv, pc = "apply"
    PROVE  /\ Files \in Stage /\ Files.wt = wt /\ InStep(head, Files)
           /\ Agrees(wt, ix) /\ Describes(ix, wt)
  <1>1. pending = NoEdits /\ head \in Tree /\ edits \in Edits /\ wt \in Tree
    BY DEF FiledInv, QueuesEmpty, TypeInv, VarsOK
  <1>2. Files \in Stage /\ Files.wt = wt /\ Files.ed = edits
    BY <1>1 DEF Files, Stage
  <1>3. BuildTree(head, edits, wt) = wt
    BY <1>1, NoEditsKeep DEF TreeInv, NextTree
  <1>4. InStep(head, Files)
    BY <1>1, <1>2, <1>3, InStepBuilds
  <1> QED
    BY <1>2, <1>4 DEF TreeInv, FiledInv, IndexFollows

\* What an event does to the worktree is what it does to the next commit and to
\* the index (dir.rs apply).
LEMMA ApplyTreeInv ==
    ASSUME TypeInv, FiledInv, TreeInv, NEW m \in Msg,
           ApplyAdded(m) \/ ApplyUpdated(m) \/ ApplyDeleted(m)
    PROVE  TreeInv'
  <1>1. /\ pc = "apply" /\ Files \in Stage /\ Files.wt = wt /\ InStep(head, Files)
        /\ Agrees(wt, ix) /\ Describes(ix, wt)
    BY BatchInStep DEF ApplyAdded, ApplyUpdated, ApplyDeleted
  <1>2. head \in Tree /\ ix \in Index /\ pending = NoEdits
    BY <1>1 DEF TypeInv, VarsOK, FiledInv, QueuesEmpty
  <1>3. ApplyAdded(m) \/ ApplyUpdated(m) => metas[m] \in Meta
    BY DEF ApplyAdded, ApplyUpdated, TypeInv, VarsOK, MetadataCollected
  <1>4. \E v \in Stage, e \in Entry \cup {None} :
           Applied(v, m, e) /\ InStep(head, v) /\ Describes([ix EXCEPT ![m] = e], v.wt)
    <2>1. ix[m] \in Entry \cup {None}
      BY <1>2 DEF Index
    <2>2. CASE ApplyAdded(m)
      <3> DEFINE v == AddDone(Files, m, ix[m], metas[m])
                 e == AddEntry(Files, m, ix[m], metas[m])
      <3>1. metas[m] \in Meta
        BY <1>3, <2>2
      <3>2. v \in Stage /\ e \in Entry \cup {None}
        BY <1>1, <2>1, <3>1, AddType
      <3>3. InStep(head, v) /\ Describes([ix EXCEPT ![m] = e], v.wt)
        BY <1>1, <1>2, <3>1, AddDescribes
      <3>4. Applied(v, m, e)
        BY <2>2 DEF ApplyAdded
      <3> HIDE DEF v, e
      <3> QED
        BY <3>2, <3>3, <3>4
    <2>3. CASE ApplyUpdated(m)
      BY <1>1, <1>2, <1>3, <2>1, <2>3, UpdateType, UpdateDescribes DEF ApplyUpdated
    <2>4. CASE ApplyDeleted(m)
      <3>1. CASE Known(m)
        BY <1>1, <1>2, <2>1, <2>4, <3>1, DeleteType, DeleteDescribes DEF ApplyDeleted, Known
      <3>2. CASE ~Known(m)
        <4>1. [ix EXCEPT ![m] = None] = ix
          BY <1>2, <3>2 DEF Known, Index
        <4> QED
          BY <1>1, <2>4, <3>2, <4>1 DEF ApplyDeleted
      <3> QED
        BY <3>1, <3>2
    <2> QED
      BY <2>2, <2>3, <2>4
  <1>5. PICK v \in Stage, e \in Entry \cup {None} :
           Applied(v, m, e) /\ InStep(head, v) /\ Describes([ix EXCEPT ![m] = e], v.wt)
    BY <1>4
  <1>6. /\ wt' = v.wt /\ edits' = v.ed /\ ix' = [ix EXCEPT ![m] = e] /\ pc' = pc
        /\ UNCHANGED <<head, dstate, dindex, pending>>
    BY <1>5 DEF Applied
  <1>7. Overlay(pending', edits') = v.ed
    BY <1>2, <1>6, NoEditsKeep DEF Stage
  <1>8. NextTree' = wt'
    <2>1. BuildTree(head, v.ed, v.wt) = v.wt
      BY <1>2, <1>5, InStepBuilds
    <2> QED
      BY <1>6, <1>7, <2>1 DEF NextTree
  <1> QED
    BY <1>1, <1>5, <1>6, <1>8 DEF TreeInv

\* A checkpoint commits the worktree; the index is saved as its description.
LEMMA WriteTreeInv == GitStore /\ TypeInv /\ FiledInv /\ TreeInv /\ Write => TreeInv'
  <1> SUFFICES ASSUME GitStore, TypeInv, FiledInv, TreeInv, Write PROVE TreeInv'
    OBVIOUS
  <1> USE DEF serverVars, diskVars, queueVars, memVars, collectVars, faultVars
  <1>0. /\ head \in Tree /\ wt \in Tree /\ edits \in Edits /\ pending \in Edits
        /\ NoEdits \in Edits /\ ix \in Index
    BY EmptyTypes DEF TypeInv, VarsOK
  <1>1. ASSUME NEW d \in {Day[m] : m \in Msg}, FinalizeDay(d) \/ StartPastDay(d)
        PROVE  TreeInv'
    BY <1>1, UntouchedTreeInv DEF FinalizeDay, StartPastDay
  <1>2. CASE BackfillComplete \/ StartFinal
    BY <1>2, UntouchedTreeInv DEF BackfillComplete, StartFinal
  <1>3. ASSUME NEW m \in Msg, ApplyAdded(m) \/ ApplyUpdated(m) \/ ApplyDeleted(m)
        PROVE  TreeInv'
    BY <1>3, ApplyTreeInv
  <1>4. CASE ApplyEnds
    <2>1. /\ pc = "apply" /\ pc' = "commit" /\ pending = NoEdits
          /\ pending' = Overlay(pending, edits) /\ edits' = NoEdits
          /\ UNCHANGED <<diskVars, ix>>
      BY <1>4 DEF ApplyEnds, GitStore, FiledInv, QueuesEmpty
    <2>2. Overlay(pending', edits') = Overlay(pending, edits)
      BY <1>0, <2>1, NoEditsKeep, OverlayType
    <2> QED
      BY <2>1, <2>2 DEF TreeInv, NextTree
  <1>5. CASE Commit
    <2>1. /\ pc = "commit" /\ pc' = "save state" /\ edits = NoEdits
          /\ head' = BuildTree(head, pending, wt) /\ pending' = NoEdits
          /\ \/ head' = head /\ dstate' = dstate
             \/ dstate' = IF dstate # None THEN [dstate EXCEPT !.saved = FALSE] ELSE dstate
          /\ UNCHANGED <<wt, dindex, edits, ix>>
      BY <1>5 DEF Commit, GitStore, FiledInv, QueuesEmpty
    <2>2. head' = wt
      BY <1>0, <2>1, NoEditsKeep DEF TreeInv, NextTree
    <2>3. NextTree' = wt'
      BY <1>0, <2>1, <2>2, NoEditsKeep DEF NextTree
    <2>4. InPlace(head)'
      BY <1>0, <2>1, <2>2, DescribedInPlace DEF TreeInv, FiledInv, IndexFollows
    <2>5. dstate' # None /\ dstate'.saved /\ dindex' # None => Describes(dindex', head')
      <3>1. CASE head' = head /\ dstate' = dstate
        BY <2>1, <3>1 DEF TreeInv
      <3>2. CASE ~(head' = head /\ dstate' = dstate)
        BY <2>1, <3>2 DEF TypeInv, VarsOK, State
      <3> QED
        BY <3>1, <3>2
    <2> QED
      BY <2>1, <2>3, <2>4, <2>5 DEF TreeInv
  <1>6. CASE SaveState
    BY <1>6 DEF SaveState, TreeInv, NextTree
  <1>7. CASE SaveIndex
    <2>1. /\ wt = head /\ edits = NoEdits /\ pending = NoEdits /\ pc = "save index"
      BY <1>7, WorktreeIsHead DEF SaveIndex
    <2>2. /\ dindex' = ix /\ UNCHANGED <<wt, head, dstate, pending>> /\ edits' = NoEdits
          /\ pc' = "idle" \/ ix' = ix
      BY <1>7, <2>1 DEF SaveIndex, StartSync, EndPass
    <2> QED
      BY <2>1, <2>2 DEF TreeInv, NextTree
  <1> QED
    BY <1>1, <1>2, <1>3, <1>4, <1>5, <1>6, <1>7 DEF Write

\* Nothing else touches the files, as no pass is killed or fails half-way.
LEMMA TreeInvStep ==
    GitStore /\ NoKills /\ TypeInv /\ FiledInv /\ TreeInv /\ [Next]_vars => TreeInv'
  <1> SUFFICES ASSUME GitStore, NoKills, TypeInv, FiledInv, TreeInv, [Next]_vars
               PROVE  TreeInv'
    OBVIOUS
  <1>1. CASE UNCHANGED vars
    BY <1>1 DEF vars, diskVars, queueVars, memVars, TreeInv, NextTree
  <1>2. CASE Account
    <2>1. PICK m \in Msg : \E x \in Meta \cup {None} : ServerStep(m, x)
      BY <1>2 DEF Account, Arrive, Modify, Destroy
    <2> QED
      BY <2>1 DEF ServerStep, TreeInv, NextTree, diskVars, queueVars, memVars
  <1>3. CASE Collect
    <2>1. /\ UNCHANGED <<diskVars, edits, pending>> /\ pc \notin {"idle", "save index"}
          /\ pc' = "idle" \/ ix' = ix
      BY <1>3 DEF Collect, Enumerate, SkipAfterLostAnchor, EnumerationEnds, ChangesPage,
         StateTooOld, StartReconcile, PlanSync, PlanReconcile, EndPass, memVars, queueVars
    <2> QED
      BY <2>1, UntouchedTreeInv
  <1>4. CASE Stop \/ Cancel \/ Fail \/ Crash
    <2>1. CASE FetchFails \/ Interrupted
      BY <2>1, UntouchedTreeInv DEF FetchFails, Interrupted, EndPass, ToFetch, queueVars
    <2>2. CASE BuildTreeFails
      <3>1. pc = "commit" /\ edits = NoEdits /\ ~Buildable(pending, wt)
        BY <2>2 DEF BuildTreeFails, FiledInv, QueuesEmpty
      <3>2. pending \in Edits /\ Overlay(pending, NoEdits) = pending
        BY EmptyTypes, NoEditsKeep DEF TypeInv, VarsOK
      <3> QED
        BY <3>1, <3>2 DEF FiledInv, IndexFollows
    <2>3. CASE Restart
      <3>1. wt = head /\ edits = NoEdits /\ pending = NoEdits
        BY <2>3, WorktreeIsHead DEF Restart
      <3> QED
        BY <2>3, <3>1 DEF Restart, TreeInv, NextTree, diskVars, memVars
    <2>4. CASE Cancel
      BY <2>4 DEF Cancel, TreeInv, NextTree, diskVars, queueVars, memVars
    <2>5. ~Fail /\ ~Crash
      <3>1. fails \in Nat /\ crashes \in Nat /\ MaxFails = 0 /\ MaxCrashes = 0
        BY DEF TypeInv, VarsOK, GitStore, NoKills
      <3>2. ~(fails < MaxFails) /\ ~(crashes < MaxCrashes)
        BY <3>1
      <3> QED
        BY <3>2 DEF Fail, Crash
    <2> QED
      BY <1>4, <2>1, <2>2, <2>3, <2>4, <2>5 DEF Stop
  <1> QED
    BY <1>1, <1>2, <1>3, <1>4, BeginTreeInv, WriteTreeInv DEF Next, Engine

\* TreeInv in every reachable state.
LEMMA TreeAlways ==
    GitStore /\ NoKills => (Spec => [](TypeInv /\ FiledInv /\ TreeInv))
  <1> SUFFICES ASSUME GitStore, NoKills PROVE Spec => [](TypeInv /\ FiledInv /\ TreeInv)
    OBVIOUS
  <1>1. Init => TypeInv /\ FiledInv /\ TreeInv
    BY InitTypeInv, InitFiledInv, InitTreeInv
  <1>2. TypeInv /\ FiledInv /\ TreeInv /\ [Next]_vars => (TypeInv /\ FiledInv /\ TreeInv)'
    BY TypeInvStep, FiledInvStep, TreeInvStep
  <1> QED
    BY <1>1, <1>2, PTL DEF Spec

-----------------------------------------------------------------------------
(* Why the cards of the mailboxes are committed with the first day.         *)

\* Before the first pass there are no cards.
LEMMA InitCardInv == Init => CardInv
  BY DEF Init, CardInv, CardsTyped, CardsFollow, BackfillCards, SavedCards, StatesStart,
     NoCards, Cards, DefaultState, Trusted

\* The parts of CardInv, for a step that leaves the cards and what is saved alone.
LEMMA UntouchedCardInv ==
    ASSUME CardInv, UNCHANGED <<cards, dstate, dindex>>, pc # "save index",
           pc' \notin {"idle", "save state", "save index"}, pc # "idle",
           pc' = "commit" => stage # "done",
           stage' = stage \/ (stage \notin {"backfill", "done"} /\
                              stage' \notin {"backfill", "done"}),
           stage # "backfill" => st'.backfill = None /\ st'.source # 0 /\ target' # 0,
           stage = "backfill" =>
               /\ pc' \in {"enumerate", "day"} => pc \in {"enumerate", "day"} /\ st' = st
               /\ st'.backfill # None /\ st'.backfill.start # 0 /\ st'.saved = st.saved
    PROVE  CardInv'
  <1>1. CardsTyped' /\ SavedCards'
    BY DEF CardInv, CardsTyped, SavedCards
  <1>2. CardsFollow'
    BY DEF CardInv, CardsFollow, Trusted
  <1>3. BackfillCards'
    BY DEF CardInv, BackfillCards
  <1>4. StatesStart'
    BY DEF CardInv, StatesStart
  <1> QED
    BY <1>1, <1>2, <1>3, <1>4 DEF CardInv

\* The end of a pass that saves nothing.
LEMMA EndPassCardInv ==
    ASSUME CardInv, EndPass, CardsTyped', UNCHANGED <<dstate, dindex>>, pc # "save index",
           UNCHANGED cards \/ cards' = [cards EXCEPT !.queued = FALSE]
    PROVE  CardInv'
  <1>1. /\ cards'.head = cards.head /\ cards'.worktree = cards.worktree
        /\ cards'.bare = cards.bare /\ cards'.indexed = cards.indexed
        /\ cards'.queued => cards.queued
    BY DEF CardInv, CardsTyped, Cards
  <1>2. pc' = "idle" /\ stage' = "done" /\ st' = DefaultState
    BY DEF EndPass
  <1>3. CardsFollow'
    BY <1>1, <1>2 DEF CardInv, CardsFollow, Trusted
  <1>4. SavedCards'
    BY <1>1, <1>2 DEF CardInv, SavedCards
  <1>5. BackfillCards' /\ StatesStart'
    BY <1>2 DEF CardInv, BackfillCards, StatesStart, DefaultState
  <1> QED
    BY <1>3, <1>4, <1>5 DEF CardInv

\* The cards that the index lacks are written, and queued, as a pass starts.
LEMMA WrittenCards ==
    ASSUME NEW c \in Cards, c.head \/ c.queued => c.worktree,
           c.known => c.head \/ c.queued, NEW d, d = CardsWritten(c)
    PROVE  /\ d \in Cards /\ d.known /\ d.head = c.head /\ d.indexed = c.indexed
           /\ d.bare = c.bare /\ d.worktree /\ (d.head \/ d.queued)
  <1>1. CASE c.known
    BY <1>1 DEF CardsWritten
  <1>2. CASE ~c.known
    BY <1>2 DEF CardsWritten, Cards
  <1> QED
    BY <1>1, <1>2

\* A pass opens the store, and a backfill or a refresh starts with the cards.
LEMMA BeginCardInv ==
    ASSUME GitStore, TypeInv, CardInv, NEW k \in {"backup", "refresh"}, Begin(k)
    PROVE  CardInv'
  <1> DEFINE s == Opened(dstate)
  <1>1. /\ pc = "idle" /\ pc' \in {"enumerate", "changes"} /\ UNCHANGED <<dstate, dindex>>
        /\ version # 0 /\ version \in Version /\ s \in State
    BY OpenTypes DEF Begin, StartBackfill, StartReconcile, StartSync, StartEnumeration,
       diskVars, TypeInv, VarsOK
  <1>2. /\ OpenedCards \in Cards
        /\ OpenedCards.head = cards.head /\ OpenedCards.worktree = cards.worktree
        /\ OpenedCards.bare = cards.bare /\ OpenedCards.indexed = cards.indexed
        /\ OpenedCards.queued = cards.queued
        /\ OpenedCards.known = IF Trusted THEN cards.indexed ELSE cards.head
    BY DEF OpenedCards, GitStore, CardInv, CardsTyped, Cards
  <1>3. /\ OpenedCards.head \/ OpenedCards.queued => OpenedCards.worktree
        /\ OpenedCards.known => OpenedCards.head \/ OpenedCards.queued
    BY <1>1, <1>2 DEF CardInv, CardsFollow
  <1>4. CASE NeedsBackfill(s)
    <2> DEFINE c == IF s.backfill # None THEN s.backfill ELSE [start |-> version, last |-> 0]
    <2>1. /\ stage' = "backfill" /\ st' = [s EXCEPT !.backfill = c]
          /\ cards' = CardsWritten(OpenedCards) /\ pc' = "enumerate"
      BY <1>4 DEF Begin, StartBackfill, StartEnumeration
    <2>2. dstate # None => s = dstate /\ dstate.backfill # None /\ cards.head
      BY <1>4 DEF CardInv, SavedCards, StatesStart, NeedsBackfill, Opened
    <2>3. dstate = None => s.backfill = None /\ s.saved = FALSE
      BY DEF Opened, DefaultState
    <2>4. c # None /\ c.start # 0 /\ (c.last # 0 => cards.head)
      <3>1. CASE s.backfill # None
        <4>1. c = s.backfill
          BY <3>1
        <4> QED
          BY <3>1, <4>1, <2>2, <2>3 DEF CardInv, StatesStart
      <3>2. CASE s.backfill = None
        <4>1. c = [start |-> version, last |-> 0] /\ version \in Version
          BY <1>1, <3>2
        <4>2. c \in Cursor
          BY <4>1, DayAssumption DEF Cursor
        <4> QED
          BY <1>1, <4>1, <4>2, CursorAssumption
      <3> QED
        BY <3>1, <3>2
    <2>5. st'.backfill = c /\ st'.saved = s.saved
      BY <1>1, <2>1 DEF State
    <2> HIDE DEF s, c
    <2>6. /\ CardsTyped' /\ cards'.known /\ cards'.head = cards.head
          /\ cards'.indexed = cards.indexed /\ cards'.bare = cards.bare
          /\ cards'.worktree
          /\ cards'.head \/ cards'.queued
      BY <1>2, <1>3, <2>1, WrittenCards DEF CardsTyped
    <2>7. CardsFollow'
      BY <1>1, <2>1, <2>6 DEF CardInv, CardsFollow, Trusted
    <2>8. BackfillCards'
      BY <2>1, <2>2, <2>3, <2>4, <2>5, <2>6 DEF BackfillCards
    <2>9. SavedCards' /\ StatesStart'
      BY <1>1, <2>1, <2>4, <2>5, <2>6 DEF CardInv, SavedCards, StatesStart
    <2> QED
      BY <2>6, <2>7, <2>8, <2>9 DEF CardInv
  <1>5. CASE ~NeedsBackfill(s)
    <2>1. /\ stage' \in {"sync", "reconcile"} /\ st' = s
          /\ target' \in {s.source, version}
          /\ cards' = OpenedCards \/ cards' = CardsWritten(OpenedCards)
      BY <1>5 DEF Begin, StartSync, StartReconcile
    <2>2. s.backfill = None /\ s.source # 0
      BY <1>5 DEF NeedsBackfill
    <2>3. dstate # None
      BY <2>2 DEF Opened, DefaultState
    <2> HIDE DEF s
    <2>4. /\ CardsTyped' /\ cards'.head = cards.head
          /\ cards'.indexed = cards.indexed /\ cards'.bare = cards.bare
          /\ cards'.head \/ cards'.queued => cards'.worktree
          /\ cards'.known => cards'.head \/ cards'.queued
      <3>1. CASE cards' = OpenedCards
        BY <1>2, <1>3, <3>1 DEF CardsTyped
      <3>2. CASE cards' = CardsWritten(OpenedCards)
        BY <1>2, <1>3, <3>2, WrittenCards DEF CardsTyped
      <3> QED
        BY <2>1, <3>1, <3>2
    <2>5. CardsFollow'
      BY <1>1, <2>1, <2>4 DEF CardInv, CardsFollow, Trusted
    <2>6. BackfillCards' /\ SavedCards'
      BY <1>1, <2>1, <2>4 DEF CardInv, BackfillCards, SavedCards
    <2>7. StatesStart'
      BY <1>1, <2>1, <2>2, <2>3 DEF CardInv, StatesStart
    <2> QED
      BY <2>4, <2>5, <2>6, <2>7 DEF CardInv
  <1> QED
    BY <1>4, <1>5

\* Collecting leaves them alone; a reconciliation in place of a catch-up writes those
\* the index lacks.
LEMMA CollectCardInv == TypeInv /\ CardInv /\ Collect => CardInv'
  <1> SUFFICES ASSUME TypeInv, CardInv, Collect PROVE CardInv'
    OBVIOUS
  <1> USE DEF diskVars, queueVars, memVars, collectVars
  <1>0. /\ pc = "enumerate" => stage \in {"backfill", "reconcile"}
        /\ pc = "plan" => stage \in {"sync", "reconcile"}
        /\ pc = "changes" => stage = "sync"
        /\ version \in Nat /\ version # 0 /\ target \in Nat
    <2>1. /\ pc = "enumerate" => stage \in {"backfill", "reconcile"}
          /\ pc = "plan" => stage \in {"sync", "reconcile"}
          /\ pc = "changes" => stage = "sync"
      BY DEF TypeInv, StageOfStep
    <2>2. version \in Version \ {0} /\ target \in Version
      BY DEF TypeInv, VarsOK
    <2> QED
      BY <2>1, <2>2, BoundAssumption DEF Version
  <1>1. /\ stage = "backfill" => st.backfill # None /\ st.backfill.start # 0
        /\ stage \notin {"backfill", "done"} =>
             st.backfill = None /\ st.source # 0 /\ target # 0 /\ dstate # None
    BY DEF CardInv, BackfillCards, StatesStart
  <1>2. CASE \E m \in Msg : Enumerate(m) \/ SkipAfterLostAnchor(m)
    BY <1>0, <1>1, <1>2, UntouchedCardInv DEF Enumerate, SkipAfterLostAnchor
  <1>3. CASE EnumerationEnds
    BY <1>0, <1>1, <1>3, UntouchedCardInv DEF EnumerationEnds
  <1>4. ASSUME NEW upto \in Version, ChangesPage(upto) PROVE CardInv'
    <2>1. upto # 0
      BY <1>0, <1>1, <1>4 DEF ChangesPage
    <2> QED
      BY <1>0, <1>1, <1>4, <2>1, UntouchedCardInv DEF ChangesPage
  <1>5. CASE StateTooOld
    <2>1. /\ pc = "changes" /\ stage = "sync" /\ pc' = "enumerate" /\ stage' = "reconcile"
          /\ cards' = CardsWritten(cards) /\ UNCHANGED <<dstate, dindex, st>>
          /\ target' = version
      BY <1>0, <1>5 DEF StateTooOld, StartReconcile, StartEnumeration
    <2>2. /\ cards \in Cards /\ (cards.head \/ cards.queued => cards.worktree)
          /\ cards.known => cards.head \/ cards.queued
      BY <2>1 DEF CardInv, CardsTyped, CardsFollow
    <2>3. /\ CardsTyped' /\ cards'.head = cards.head
          /\ cards'.indexed = cards.indexed /\ cards'.bare = cards.bare
          /\ cards'.worktree /\ (cards'.head \/ cards'.queued)
      BY <2>1, <2>2, WrittenCards DEF CardsTyped
    <2>4. CardsFollow'
      BY <2>1, <2>3 DEF CardInv, CardsFollow, Trusted
    <2>5. BackfillCards' /\ SavedCards'
      BY <2>1, <2>3 DEF CardInv, BackfillCards, SavedCards
    <2>6. StatesStart'
      BY <1>0, <1>1, <2>1 DEF CardInv, StatesStart
    <2> QED
      BY <2>3, <2>4, <2>5, <2>6 DEF CardInv
  <1>6. CASE PlanSync
    <2>1. /\ pc = "plan" /\ stage = "sync" /\ UNCHANGED <<cards, dstate, dindex>>
          /\ EndPass \/ (pc' = "apply days" /\ UNCHANGED <<stage, st, target>>)
      BY <1>6 DEF PlanSync
    <2>2. CardsTyped'
      BY <2>1 DEF CardInv, CardsTyped
    <2> QED
      BY <1>1, <2>1, <2>2, EndPassCardInv, UntouchedCardInv
  <1>7. CASE PlanReconcile
    BY <1>0, <1>1, <1>7, UntouchedCardInv DEF PlanReconcile
  <1> QED
    BY <1>2, <1>3, <1>4, <1>5, <1>6, <1>7 DEF Collect

\* The first commit has the cards, and only what is in HEAD is saved as known.
LEMMA WriteCardInv == GitStore /\ TypeInv /\ CardInv /\ CardsTyped' /\ Write => CardInv'
  <1> SUFFICES ASSUME GitStore, TypeInv, CardInv, CardsTyped', Write PROVE CardInv'
    OBVIOUS
  <1> USE DEF diskVars, queueVars, memVars, collectVars
  <1>0. /\ pc = "enumerate" => stage \in {"backfill", "reconcile"}
        /\ pc = "day" => stage = "backfill"
        /\ pc = "apply days" => stage \in {"sync", "reconcile", "past day"}
        /\ pc = "apply" => stage \in {"backfill", "past day", "final"}
        /\ st \in State /\ cards \in Cards /\ dstate \in State \cup {None}
    BY DEF TypeInv, StageOfStep, VarsOK, CardInv, CardsTyped
  <1>1. /\ stage = "backfill" => /\ st.backfill # None /\ st.backfill.start # 0
                                 /\ st.backfill \in Cursor /\ cards.known
        /\ stage \notin {"backfill", "done"} =>
             st.backfill = None /\ st.source # 0 /\ target # 0 /\ dstate # None
    BY <1>0 DEF CardInv, BackfillCards, StatesStart, State
  <1>2. ASSUME NEW d \in {Day[m] : m \in Msg}, FinalizeDay(d) PROVE CardInv'
    <2>1. /\ st' = [st EXCEPT !.backfill = CursorAfter(d)] /\ pc = "day" /\ pc' = "apply"
          /\ UNCHANGED <<cards, dstate, dindex, stage, target>>
      BY <1>2 DEF FinalizeDay
    <2>2. CursorAfter(d) # None /\ CursorAfter(d).start = st.backfill.start
      <3>1. CursorAfter(d) \in Cursor /\ CursorAfter(d).start = st.backfill.start
        BY <1>0, <1>1, <2>1, DayAssumption DEF CursorAfter, Cursor
      <3> QED
        BY <3>1, CursorAssumption
    <2>3. st'.backfill = CursorAfter(d) /\ st'.saved = st.saved
      BY <1>0, <2>1 DEF State
    <2> QED
      BY <1>0, <1>1, <2>1, <2>2, <2>3, UntouchedCardInv
  <1>3. ASSUME NEW d \in {Day[m] : m \in Msg}, StartPastDay(d) PROVE CardInv'
    BY <1>0, <1>1, <1>3, UntouchedCardInv DEF StartPastDay
  <1>4. CASE BackfillComplete
    <2>1. /\ pc = "enumerate" /\ stage = "backfill" /\ pc' = "save state" /\ stage' = "done"
          /\ st' = [st EXCEPT !.source = st.backfill.start, !.backfill = None]
          /\ cards' = [cards EXCEPT !.bare = (st.backfill.last = 0)]
          /\ UNCHANGED <<dstate, dindex>>
      BY <1>4 DEF BackfillComplete
    <2>2. /\ st'.source = st.backfill.start /\ st'.backfill = None /\ st'.saved = st.saved
      BY <1>0, <2>1 DEF State
    <2>3. /\ cards'.head = cards.head /\ cards'.worktree = cards.worktree
          /\ cards'.known = cards.known /\ cards'.queued = cards.queued
          /\ cards'.indexed = cards.indexed /\ cards'.bare = (st.backfill.last = 0)
      BY <1>0, <2>1 DEF Cards
    <2>4. cards.head \/ cards'.bare
      BY <2>1, <2>3 DEF CardInv, BackfillCards
    <2>5. CardsFollow'
      BY <2>1, <2>2, <2>3 DEF CardInv, CardsFollow, BackfillCards, Trusted
    <2>6. BackfillCards' /\ SavedCards'
      BY <2>1, <2>3, <2>4 DEF CardInv, BackfillCards, SavedCards
    <2>7. StatesStart'
      BY <1>1, <2>1, <2>2 DEF CardInv, StatesStart
    <2> QED
      BY <2>5, <2>6, <2>7 DEF CardInv
  <1>5. CASE StartFinal
    <2>1. /\ st' = [st EXCEPT !.source = target] /\ pc = "apply days" /\ stage' = "final"
          /\ pc' \in {"commit", "apply"} /\ UNCHANGED <<cards, dstate, dindex, target>>
      BY <1>5 DEF StartFinal
    <2>2. st'.source = target /\ st'.backfill = st.backfill
      BY <1>0, <2>1 DEF State
    <2> QED
      BY <1>0, <1>1, <2>1, <2>2, UntouchedCardInv
  <1>6. ASSUME NEW m \in Msg, ApplyAdded(m) \/ ApplyUpdated(m) \/ ApplyDeleted(m)
        PROVE  CardInv'
    <2>1. pc = "apply" /\ pc' = "apply" /\ UNCHANGED <<cards, dstate, dindex, st, stage, target>>
      BY <1>6 DEF ApplyAdded, ApplyUpdated, ApplyDeleted, Applied
    <2> QED
      BY <1>0, <1>1, <2>1, UntouchedCardInv
  <1>7. CASE ApplyEnds
    <2>1. pc = "apply" /\ pc' = "commit" /\ UNCHANGED <<cards, dstate, dindex, st, stage, target>>
      BY <1>7 DEF ApplyEnds
    <2> QED
      BY <1>0, <1>1, <2>1, UntouchedCardInv
  <1>8. CASE Commit
    <2>1. /\ pc = "commit" /\ pc' = "save state" /\ UNCHANGED <<dindex, stage, target>>
          /\ cards' = [cards EXCEPT !.head = @ \/ cards.queued, !.queued = FALSE]
          /\ dstate' = dstate \/ (dstate # None /\ dstate' = [dstate EXCEPT !.saved = FALSE])
          /\ st' = [st EXCEPT !.saved = TRUE]
      BY <1>8 DEF Commit, GitStore
    <2>2. /\ st'.source = st.source /\ st'.backfill = st.backfill
          /\ dstate = None => dstate' = None
          /\ dstate # None => /\ dstate' # None /\ dstate'.source = dstate.source
                              /\ dstate'.backfill = dstate.backfill
                              /\ dstate'.saved => dstate.saved
      <3>1. dstate # None => [dstate EXCEPT !.saved = FALSE] \in State
        BY <1>0 DEF State
      <3> QED
        BY <1>0, <2>1, <3>1, CursorAssumption DEF State
    <2>3. /\ cards'.worktree = cards.worktree /\ cards'.head = (cards.head \/ cards.queued)
          /\ cards'.known = cards.known /\ cards'.indexed = cards.indexed
          /\ cards'.bare = cards.bare /\ ~cards'.queued
      BY <1>0, <2>1 DEF Cards
    <2>4. cards.queued => cards.worktree
      BY DEF CardInv, CardsFollow
    <2>5. CardsFollow'
      BY <2>1, <2>2, <2>3, <2>4 DEF CardInv, CardsFollow, Trusted, GitStore
    <2>6. BackfillCards'
      BY <1>1, <2>1, <2>2, <2>3 DEF CardInv, CardsFollow, BackfillCards
    <2>7. SavedCards'
      BY <1>1, <2>1, <2>2, <2>3 DEF CardInv, SavedCards, CardsFollow, StatesStart
    <2>8. StatesStart'
      BY <2>1, <2>2 DEF CardInv, StatesStart
    <2> QED
      BY <2>5, <2>6, <2>7, <2>8 DEF CardInv
  <1>9. CASE SaveState
    <2>1. /\ pc = "save state" /\ pc' = "save index" /\ dstate' = st
          /\ UNCHANGED <<cards, dindex, st, stage, target>>
      BY <1>9 DEF SaveState
    <2>2. st # None
      BY <1>0, CursorAssumption
    <2>3. CardsFollow'
      BY <2>1 DEF CardInv, CardsFollow
    <2>4. BackfillCards' /\ SavedCards'
      BY <2>1 DEF CardInv, BackfillCards, SavedCards, StatesStart
    <2>5. StatesStart'
      BY <1>1, <2>1, <2>2 DEF CardInv, StatesStart
    <2> QED
      BY <2>3, <2>4, <2>5 DEF CardInv
  <1>10. CASE SaveIndex
    <2>1. /\ pc = "save index" /\ dstate = st /\ dindex' = ix /\ UNCHANGED dstate
          /\ cards' = [cards EXCEPT !.indexed = cards.known]
      BY <1>10 DEF SaveIndex, CardInv, SavedCards
    <2>2. /\ cards'.worktree = cards.worktree /\ cards'.head = cards.head
          /\ cards'.known = cards.known /\ cards'.indexed = cards.known
          /\ cards'.bare = cards.bare /\ cards'.queued = cards.queued
      BY <1>0, <2>1 DEF Cards
    <2>3. \/ stage = "backfill" /\ pc' = "enumerate" /\ UNCHANGED <<st, stage, target>>
          \/ stage = "past day" /\ pc' = "apply days" /\ UNCHANGED <<st, stage, target>>
          \/ /\ stage = "done" /\ pc' = "changes" /\ stage' = "sync"
             /\ target' = st.source /\ UNCHANGED st
          \/ pc' = "idle" /\ stage' = "done" /\ st' = DefaultState
      BY <1>10 DEF SaveIndex, StartSync, EndPass
    <2>4. CardsFollow'
      BY <2>1, <2>2, <2>3 DEF CardInv, CardsFollow, Trusted, GitStore
    <2>5. BackfillCards'
      BY <2>1, <2>2, <2>3 DEF CardInv, BackfillCards
    <2>6. SavedCards'
      BY <2>1, <2>2, <2>3 DEF CardInv, SavedCards
    <2>7. StatesStart'
      <3>1. st # None
        BY <1>0, CursorAssumption
      <3>2. /\ stage # "backfill" => st.backfill = None
            /\ stage = "done" => st.source # 0
        BY <2>1 DEF CardInv, StatesStart
      <3>3. CASE UNCHANGED <<st, stage, target>> /\ pc' # "commit" /\ pc' # "idle"
        BY <2>1, <3>3 DEF CardInv, StatesStart
      <3>4. CASE /\ stage = "done" /\ pc' = "changes" /\ stage' = "sync"
                 /\ target' = st.source /\ UNCHANGED st
        BY <2>1, <3>1, <3>2, <3>4 DEF CardInv, StatesStart
      <3>5. CASE pc' = "idle" /\ stage' = "done" /\ st' = DefaultState
        BY <2>1, <3>5 DEF CardInv, StatesStart, DefaultState
      <3> QED
        BY <2>3, <3>3, <3>4, <3>5
    <2> QED
      BY <2>4, <2>5, <2>6, <2>7 DEF CardInv
  <1> QED
    BY <1>2, <1>3, <1>4, <1>5, <1>6, <1>7, <1>8, <1>9, <1>10 DEF Write

\* Nothing else touches the cards but the end of a process, which loses their edits.
LEMMA CardInvStep ==
    GitStore /\ NoKills /\ TypeInv /\ CardInv /\ [Next]_vars => CardInv'
  <1> SUFFICES ASSUME GitStore, NoKills, TypeInv, CardInv, [Next]_vars
               PROVE  CardInv'
    OBVIOUS
  <1> USE DEF diskVars, queueVars, memVars, faultVars
  <1>0. CardsTyped'
    BY CardsStep DEF CardInv
  <1>1. CASE UNCHANGED <<cards, dstate, dindex, st, stage, pc, target>>
    BY <1>1 DEF CardInv, CardsTyped, CardsFollow, BackfillCards, SavedCards, StatesStart,
       Trusted
  <1>2. CASE UNCHANGED vars \/ Account \/ Cancel
    BY <1>1, <1>2 DEF vars, Account, Arrive, Modify, Destroy, ServerStep, Cancel
  <1>3. CASE FetchFails \/ Interrupted \/ BuildTreeFails
    BY <1>0, <1>3, EndPassCardInv DEF FetchFails, Interrupted, BuildTreeFails, ToFetch
  <1>4. CASE Restart
    <2>1. /\ pc = "idle" /\ pc' = "idle" /\ UNCHANGED <<dstate, dindex, st, stage, target>>
          /\ cards' = [cards EXCEPT !.queued = FALSE]
      BY <1>4 DEF Restart
    <2>2. /\ cards'.head = cards.head /\ cards'.worktree = cards.worktree
          /\ cards'.bare = cards.bare /\ cards'.indexed = cards.indexed
          /\ cards'.known = cards.known
      BY <2>1 DEF CardInv, CardsTyped, Cards
    <2>3. CardsFollow' /\ BackfillCards'
      BY <2>1, <2>2 DEF CardInv, CardsFollow, BackfillCards, Trusted
    <2>4. SavedCards' /\ StatesStart'
      BY <2>1, <2>2 DEF CardInv, SavedCards, StatesStart
    <2> QED
      BY <1>0, <2>3, <2>4 DEF CardInv
  <1>5. ~Fail /\ ~Crash
    <2>1. fails \in Nat /\ crashes \in Nat /\ MaxFails = 0 /\ MaxCrashes = 0
      BY DEF TypeInv, VarsOK, GitStore, NoKills
    <2>2. ~(fails < MaxFails) /\ ~(crashes < MaxCrashes)
      BY <2>1
    <2> QED
      BY <2>2 DEF Fail, Crash
  <1> QED
    BY <1>0, <1>2, <1>3, <1>4, <1>5, BeginCardInv, CollectCardInv, WriteCardInv
    DEF Next, Engine, Stop

\* Between the passes of a git store that is not killed and saves without error,
\* wherever those passes are cancelled or give up, the mail of the worktree is that
\* of the committed tree, and so are the cards of the mailboxes: but for those of a
\* first pass that saved nothing, or whose backfill met no mail, and those the next
\* backfill or refresh writes again.  Only they make `mail-backup verify' complain
\* (git.rs open, checkpoint and save_state, dir.rs apply, backfill.rs run).
THEOREM VerifyFindsNothing == GitStore /\ NoKills => (Spec => []WorktreeCommitted)
  <1> SUFFICES ASSUME GitStore, NoKills PROVE Spec => []WorktreeCommitted
    OBVIOUS
  <1>1. Spec => [](TypeInv /\ CardInv)
    <2>1. TypeInv /\ CardInv /\ [Next]_vars => (TypeInv /\ CardInv)'
      BY TypeInvStep, CardInvStep
    <2> QED
      BY <2>1, InitTypeInv, InitCardInv, PTL DEF Spec
  <1>2. TypeInv /\ FiledInv /\ TreeInv /\ CardInv => WorktreeCommitted
    BY WorktreeIsHead
    DEF WorktreeCommitted, CardInv, CardsTyped, Cards, CardsFollow, SavedCards
  <1> QED
    BY <1>1, <1>2, TreeAlways, PTL

\* An index.json that such a store will trust at the next open is one that
\* rebuild_index_from_head would make.
THEOREM TrustedIndexIsRebuildable ==
    GitStore /\ NoKills /\ Box # {} => (Spec => []IndexDescribesArchive)
  <1> SUFFICES ASSUME GitStore, NoKills, Box # {} PROVE Spec => []IndexDescribesArchive
    OBVIOUS
  <1>1. ASSUME TypeInv, FiledInv, TreeInv, pc = "idle", dindex # None, dstate # None,
               dstate.saved
        PROVE  dindex \in Rebuilt(head)
    <2> DEFINE held(m) == {b \in Box : head[Sidecar(m, b)] # None}
               last == [m \in Msg |-> IF dindex[m] # None THEN dindex[m].box
                                      ELSE CHOOSE b \in Box : TRUE]
    <2>1. Agrees(head, dindex) /\ Describes(dindex, head) /\ dindex \in Index
      BY <1>1 DEF FiledInv, CacheFollows, TreeInv, TypeInv, VarsOK
    <2>2. \A m \in Msg : dindex[m] # None => dindex[m].box \in Box
      BY <2>1 DEF Index, Entry
    <2>3. last \in [Msg -> Box]
      BY <2>2
    <2>4. ASSUME NEW m \in Msg
          PROVE  /\ held(m) = {} \/ last[m] \in held(m)
                 /\ dindex[m] = IF held(m) = {} THEN None
                                ELSE [meta |-> head[Sidecar(m, last[m])], box |-> last[m]]
      <3>1. CASE dindex[m] = None
        BY <2>1, <3>1 DEF Agrees
      <3>2. CASE dindex[m] # None
        <4>1. last[m] = dindex[m].box /\ last[m] \in Box
          BY <2>2, <3>2
        <4>2. head[Sidecar(m, last[m])] # None /\ head[Sidecar(m, last[m])] = dindex[m].meta
          BY <2>1, <3>2, <4>1 DEF Agrees, Describes
        <4>3. dindex[m] = [meta |-> dindex[m].meta, box |-> dindex[m].box]
          BY <2>1, <3>2 DEF Index, Entry
        <4> QED
          BY <4>1, <4>2, <4>3
      <3> QED
        BY <3>1, <3>2
    <2>5. dindex = [m \in Msg |-> IF held(m) = {} THEN None
                                  ELSE [meta |-> head[Sidecar(m, last[m])], box |-> last[m]]]
      BY <2>1, <2>4 DEF Index
    <2> HIDE DEF last
    <2> QED
      BY <2>3, <2>4, <2>5 DEF Rebuilt
  <1>2. TypeInv /\ FiledInv /\ TreeInv => IndexDescribesArchive
    BY <1>1 DEF IndexDescribesArchive, Trusted, Archive, GitStore
  <1> QED
    BY <1>2, TreeAlways, PTL

-----------------------------------------------------------------------------
(* Facts the steps have in common.                                          *)

\* A tree that an index agrees with and describes holds m exactly as w, when w is
\* what there should be of it, just when the index files it so.
LEMMA TreeMirrors ==
    ASSUME NEW t \in Tree, NEW i \in Index, Agrees(t, i), Describes(i, t), NEW m \in Msg,
           NEW here \in BOOLEAN, NEW w \in Meta \cup {None}, here => w # None
    PROVE  (\A b \in Box :
               /\ t[Eml(m, b)] = IF here /\ w.box = b THEN Raw ELSE None
               /\ t[Sidecar(m, b)] = IF here /\ w.box = b THEN w ELSE None)
           <=> i[m] = IF here THEN EntryFor(w) ELSE None
  <1> DEFINE all == \A b \in Box :
                       /\ t[Eml(m, b)] = IF here /\ w.box = b THEN Raw ELSE None
                       /\ t[Sidecar(m, b)] = IF here /\ w.box = b THEN w ELSE None
  <1>1. /\ \A b \in Box : /\ t[Eml(m, b)] \in {Raw, None}
                          /\ t[Eml(m, b)] = Raw <=> i[m] # None /\ i[m].box = b
                          /\ t[Sidecar(m, b)] # None <=> i[m] # None /\ i[m].box = b
        /\ i[m] # None => /\ t[Sidecar(m, i[m].box)] = i[m].meta
                          /\ i[m].meta.box = i[m].box
        /\ Raw # None
    BY TreeContents, NoneAssumption DEF Agrees, Describes
  <1>2. i[m] \in Entry \cup {None} /\ None \notin Entry
    BY EntryAssumption DEF Index
  <1>3. CASE ~here
    <2>1. all <=> i[m] = None
      BY <1>1, <1>2, <1>3 DEF Entry
    <2> QED
      BY <1>3, <2>1
  <1>4. CASE here
    <2>1. w \in Meta /\ w # None /\ w.box \in Box
      BY <1>4, MetaAssumption
    <2>2. ASSUME all PROVE i[m] = EntryFor(w)
      <3>1. t[Eml(m, w.box)] = Raw /\ t[Sidecar(m, w.box)] = w
        BY <1>4, <2>1, <2>2
      <3>2. i[m] # None /\ i[m].box = w.box /\ i[m].meta = w
        BY <1>1, <2>1, <3>1
      <3>3. i[m] \in Entry
        BY <1>2, <3>2
      <3> QED
        BY <3>2, <3>3 DEF Entry, EntryFor
    <2>3. ASSUME i[m] = EntryFor(w) PROVE all
      <3>1. EntryFor(w) \in Entry /\ i[m].box = w.box /\ i[m].meta = w
        BY <2>1, <2>3 DEF EntryFor, Entry
      <3>2. i[m] # None /\ t[Sidecar(m, w.box)] = w
        BY <1>1, <1>2, <2>3, <3>1
      <3> QED
        BY <1>1, <1>4, <3>1, <3>2
    <2>4. all <=> i[m] = EntryFor(w)
      <3> HIDE DEF all
      <3> QED
        BY <2>2, <2>3
    <2> QED
      BY <1>4, <2>4
  <1> QED
    BY <1>3, <1>4

\* Outside an application and its commit, HEAD mirrors just what the index of the
\* pass files exactly.
LEMMA ExactIsMirrored ==
    ASSUME GitStore, TypeInv, FiledInv, TreeInv, pc \notin {"idle", "apply", "commit"}
    PROVE  \A m \in Msg : Mirrored(m) <=> IndexExact(m)
  <1>1. wt = head /\ head \in Tree /\ ix \in Index /\ meta \in [Msg -> Meta \cup {None}]
    BY WorktreeIsHead DEF TypeInv, VarsOK
  <1>2. Agrees(head, ix) /\ Describes(ix, head)
    BY <1>1 DEF FiledInv, IndexFollows, TreeInv
  <1>3. SUFFICES ASSUME NEW m \in Msg PROVE Mirrored(m) <=> IndexExact(m)
    OBVIOUS
  <1>4. /\ Expected(m) \in BOOLEAN /\ meta[m] \in Meta \cup {None}
        /\ Expected(m) => meta[m] # None
    BY <1>1 DEF Expected, Alive
  <1> HIDE DEF Expected
  <1>5. (\A b \in Box :
            /\ head[Eml(m, b)] = IF Expected(m) /\ meta[m].box = b THEN Raw ELSE None
            /\ head[Sidecar(m, b)] = IF Expected(m) /\ meta[m].box = b THEN meta[m] ELSE None)
        <=> ix[m] = IF Expected(m) THEN EntryFor(meta[m]) ELSE None
    BY <1>1, <1>2, <1>4, TreeMirrors
  <1> QED
    BY <1>5 DEF Mirrored, IndexExact, Archive, GitStore

\* So it does after a step that leads there.
LEMMA ExactIsMirroredNext ==
    ASSUME GitStore, TypeInv', FiledInv', TreeInv', pc' \notin {"idle", "apply", "commit"}
    PROVE  \A m \in Msg : Mirrored(m)' <=> IndexExact(m)'
  <1>1. /\ head' \in Tree /\ ix' \in Index /\ meta' \in [Msg -> Meta \cup {None}]
        /\ edits' = NoEdits /\ pending' = NoEdits /\ NoEdits \in Edits
    BY EmptyTypes DEF TypeInv, VarsOK, FiledInv, QueuesEmpty
  <1>2. wt' = head'
    BY <1>1, NoEditsKeep DEF TreeInv, NextTree
  <1>3. Agrees(head', ix') /\ Describes(ix', head')
    BY <1>2 DEF FiledInv, IndexFollows, TreeInv
  <1>4. SUFFICES ASSUME NEW m \in Msg PROVE Mirrored(m)' <=> IndexExact(m)'
    OBVIOUS
  <1>5. /\ Expected(m)' \in BOOLEAN /\ meta'[m] \in Meta \cup {None}
        /\ Expected(m)' => meta'[m] # None
    BY <1>1 DEF Expected, Alive
  <1> HIDE DEF Expected
  <1>6. (\A b \in Box :
            /\ head'[Eml(m, b)] = IF Expected(m)' /\ meta'[m].box = b THEN Raw ELSE None
            /\ head'[Sidecar(m, b)] =
                  IF Expected(m)' /\ meta'[m].box = b THEN meta'[m] ELSE None)
        <=> ix'[m] = IF Expected(m)' THEN EntryFor(meta'[m]) ELSE None
    BY <1>1, <1>3, <1>5, TreeMirrors
  <1> QED
    BY <1>6 DEF Mirrored, IndexExact, Archive, GitStore

\* The account and HEAD stay: so does what is mirrored and what is expected.
LEMMA MirroredStays ==
    ASSUME GitStore, UNCHANGED <<serverVars, head>>
    PROVE  \A m \in Msg : /\ Mirrored(m)' <=> Mirrored(m)
                          /\ Expected(m)' <=> Expected(m)
                          /\ Held(m)' <=> Held(m)
                          /\ changed'[m] = changed[m]
  BY DEF Mirrored, Held, Expected, Alive, Archive, GitStore, serverVars

\* The index and the account stay: so does what is exact.
LEMMA ExactStays ==
    ASSUME UNCHANGED <<serverVars, ix>>
    PROVE  \A m \in Msg : (IndexExact(m)' <=> IndexExact(m)) /\ (Known(m)' <=> Known(m))
  BY DEF IndexExact, Known, Expected, Alive, serverVars

\* A cursor that is not written over stays sound while HEAD does.
LEMMA SoundStays ==
    ASSUME GitStore, CursorSound, UNCHANGED <<serverVars, head, dstate>>
    PROVE  CursorSound'
  <1>1. Acknowledged' = Acknowledged
    BY DEF Acknowledged
  <1>2. \A m \in Msg : (Settled(m)' <=> Settled(m)) /\ (Mirrored(m)' <=> Mirrored(m))
    BY <1>1, MirroredStays DEF Settled
  <1> QED
    BY <1>2 DEF CursorSound

\* What HEAD holds of a backfill that is not written over stays exact, too.
LEMMA SavedBackfillStays ==
    ASSUME GitStore, SavedBackfillExact, UNCHANGED <<serverVars, head, dstate>>,
           stage' = "backfill" => stage = "backfill" /\ st'.backfill.start = st.backfill.start
    PROVE  SavedBackfillExact'
  BY MirroredStays DEF SavedBackfillExact

\* A step of a pass that writes neither the index nor HEAD nor a state, in terms of
\* what it must establish.
LEMMA QuietExactInv ==
    ASSUME GitStore, ExactInv, UNCHANGED <<serverVars, head, dstate, ix>>,
           pc # "idle", pc # "save state", PlanMatches', DestroyedNamed', BackfillExact',
           DoneExact', PassExact', SavedBackfillExact',
           dstate = None => stage' \in {"backfill", "done"}, pc' = "commit" => stage' # "done"
    PROVE  ExactInv'
  <1>1. CursorSound'
    BY SoundStays DEF ExactInv
  <1>2. SettledExact'
    <2>1. Acknowledged' = Acknowledged
      BY DEF Acknowledged
    <2>2. \A m \in Msg : Settled(m)' <=> Settled(m)
      BY <2>1, MirroredStays DEF Settled
    <2> QED
      BY <2>2, ExactStays DEF ExactInv, SettledExact
  <1>3. UncreatedUnknown' /\ FirstDay'
    BY MirroredStays, ExactStays DEF ExactInv, UncreatedUnknown, FirstDay
  <1> QED
    BY <1>1, <1>2, <1>3 DEF ExactInv

-----------------------------------------------------------------------------
(* ExactInv holds to begin with and at every step.                          *)

\* Before the first pass nothing is filed and nothing is acknowledged.
LEMMA InitExactInv == GitStore /\ Init => ExactInv
  <1> SUFFICES ASSUME GitStore, Init PROVE ExactInv
    OBVIOUS
  <1>1. /\ pc = "idle" /\ stage = "done" /\ dstate = None /\ head = EmptyTree
        /\ plan = NothingPlanned /\ batch = NothingPlanned
    BY DEF Init
  <1>2. \A m \in Msg : ~Held(m)
    BY <1>1, FilesAreFiles, NoneAssumption DEF Held, Archive, GitStore, EmptyTree
  <1>3. CursorSound
    <2>1. Acknowledged = 0 /\ \A m \in Msg : changed[m] \in {0, 1}
      BY <1>1 DEF Acknowledged, Init, ServerInit
    <2> QED
      BY <2>1 DEF CursorSound, Settled
  <1> QED
    BY <1>1, <1>2, <1>3 DEF ExactInv, PlanMatches, DestroyedNamed, UncreatedUnknown,
       SettledExact, BackfillExact, SavedBackfillExact, FirstDay, DoneExact, PassExact,
       NothingPlanned

\* The message that changes is later than whatever must be exact.
LEMMA AccountExactInv ==
    ASSUME GitStore, TypeInv, ReasonInv, ExactInv, Account
    PROVE  ExactInv'
  <1>1. PICK m \in Msg : ChangedNow(m)
    BY AccountChanges DEF ReasonInv
  <1>2. /\ version \in Nat /\ target \in Nat /\ Acknowledged \in Nat /\ st.source \in Nat
        /\ \A n \in Msg : changed[n] \in Nat
        /\ changed \in [Msg -> Version]
    BY StatesAreNumbers DEF TypeInv, VarsOK
  <1>3. /\ changed'[m] = version + 1
        /\ \A n \in Msg \ {m} : changed'[n] = changed[n] /\ meta'[n] = meta[n]
    BY <1>1, <1>2 DEF ChangedNow
  <1>4. /\ UNCHANGED <<wt, head, dstate, dindex, edits, pending, st, ix, cancel>>
        /\ UNCHANGED <<pc, kind, stage, target, delta, unread, anchor, seen, metas, plan,
                       batch, crashes, fails, cancels>>
    BY <1>1 DEF ChangedNow
  <1>5. /\ target < changed'[m] /\ Acknowledged < changed'[m] /\ changed'[m] # 0
        /\ pc # "idle" => st.source < changed'[m]
        /\ stage = "backfill" => st.backfill.start \in Nat /\ st.backfill.start < changed'[m]
        /\ dstate # None /\ dstate.backfill # None =>
             dstate.backfill.start \in Nat /\ dstate.backfill.start < changed'[m]
    <2>1. target <= version
      BY DEF ReasonInv, CursorInv
    <2>2. Acknowledged <= version
      <3>1. dstate # None => dstate.source \in Nat /\ dstate.source <= version
        BY StatesAreNumbers DEF ReasonInv, CursorInv, CursorOK, TypeInv
      <3>2. 0 <= version
        BY <1>2
      <3> QED
        BY <3>1, <3>2 DEF Acknowledged
    <2>3. pc # "idle" => st.source <= version
      BY DEF ReasonInv, CursorInv, CursorOK
    <2>4. stage = "backfill" => st.backfill.start \in Nat /\ st.backfill.start <= version
      BY StatesAreNumbers DEF ReasonInv, CursorInv, CursorOK, TypeInv, StageOfStep
    <2>5. dstate # None /\ dstate.backfill # None =>
             dstate.backfill.start \in Nat /\ dstate.backfill.start <= version
      BY StatesAreNumbers DEF ReasonInv, CursorInv, CursorOK, TypeInv
    <2> QED
      BY <1>2, <1>3, <2>1, <2>2, <2>3, <2>4, <2>5
  <1>6. Acknowledged' = Acknowledged
    BY <1>4 DEF Acknowledged
  <1>7. \A n \in Msg \ {m} : /\ Mirrored(n)' <=> Mirrored(n)
                             /\ Expected(n)' <=> Expected(n)
                             /\ IndexExact(n)' <=> IndexExact(n)
                             /\ Alive(n)' <=> Alive(n)
                             /\ Settled(n)' <=> Settled(n)
                             /\ Pending(n)' <=> Pending(n)
    BY <1>3, <1>4, <1>6 DEF Mirrored, Expected, IndexExact, Alive, Settled, Pending, Archive,
       GitStore, Matches
  <1>8. \A n \in Msg : (Held(n)' <=> Held(n)) /\ (Known(n)' <=> Known(n))
    BY <1>4 DEF Held, Known, Archive, GitStore
  <1>9. ~Settled(m)'
    <2>1. changed'[m] \in Nat /\ ~(changed'[m] <= Acknowledged)
      BY <1>2, <1>3, <1>5
    <2> QED
      BY <1>6, <2>1 DEF Settled
  <1>10. PlanMatches'
    BY <1>4 DEF ExactInv, PlanMatches, Matches, Known
  <1>11. ASSUME NEW v \in Nat, NEW n \in Msg, v < changed'[m], changed'[n] <= v
         PROVE  n # m /\ changed[n] = changed'[n]
    BY <1>2, <1>3, <1>11
  <1>12. DestroyedNamed' /\ UncreatedUnknown' /\ SettledExact' /\ CursorSound'
    <2>1. DestroyedNamed'
      BY <1>2, <1>3, <1>4, <1>5, <1>7, <1>11 DEF ExactInv, DestroyedNamed
    <2>2. UncreatedUnknown'
      BY <1>3, <1>4, <1>5, <1>8 DEF ExactInv, UncreatedUnknown
    <2>3. SettledExact' /\ CursorSound'
      BY <1>4, <1>7, <1>9 DEF ExactInv, SettledExact, CursorSound
    <2> QED
      BY <2>1, <2>2, <2>3
  <1>13. BackfillExact' /\ SavedBackfillExact' /\ FirstDay'
    <2>1. BackfillExact'
      BY <1>4, <1>5, <1>7, <1>8, <1>11 DEF ExactInv, BackfillExact
    <2>2. SavedBackfillExact'
      BY <1>4, <1>5, <1>7, <1>8, <1>11 DEF ExactInv, SavedBackfillExact
    <2>3. FirstDay'
      BY <1>4, <1>8 DEF ExactInv, FirstDay
    <2> QED
      BY <2>1, <2>2, <2>3
  <1>14. DoneExact' /\ PassExact'
    <2>1. DoneExact'
      BY <1>2, <1>4, <1>5, <1>7, <1>11 DEF ExactInv, DoneExact
    <2>2. PassExact'
      BY <1>2, <1>4, <1>5, <1>7, <1>11 DEF ExactInv, PassExact
    <2> QED
      BY <2>1, <2>2
  <1> QED
    BY <1>10, <1>12, <1>13, <1>14 DEF ExactInv

\* A pass that ends, in whatever way, leaves what HEAD and the cursor had.
LEMMA EndPassExactInv ==
    ASSUME GitStore, ExactInv, EndPass, pc # "save state",
           UNCHANGED <<serverVars, head, dstate>>
    PROVE  ExactInv'
  <1>1. /\ pc' = "idle" /\ stage' = "done" /\ plan' = NothingPlanned
        /\ batch' = NothingPlanned
    BY DEF EndPass
  <1>2. CursorSound' /\ SavedBackfillExact'
    BY <1>1, SoundStays, SavedBackfillStays DEF ExactInv
  <1>3. UncreatedUnknown' /\ FirstDay'
    BY <1>1, MirroredStays DEF ExactInv, UncreatedUnknown, FirstDay
  <1> QED
    BY <1>1, <1>2, <1>3 DEF ExactInv, PlanMatches, DestroyedNamed, SettledExact,
       BackfillExact, DoneExact, PassExact, NothingPlanned

\* A pass begins with an index that is exact for what the cursor covers.
LEMMA BeginExactInv ==
    ASSUME GitStore, TypeInv, ReasonInv, ExactInv, TypeInv', FiledInv', TreeInv',
           NEW k \in {"backup", "refresh"}, Begin(k)
    PROVE  ExactInv'
  <1> DEFINE s == Opened(dstate)
             c == IF s.backfill # None THEN s.backfill
                  ELSE [start |-> version, last |-> 0]
  <1>1. /\ pc = "idle" /\ pc' \in {"enumerate", "changes"}
        /\ UNCHANGED <<serverVars, head, dstate, plan, batch>>
        /\ plan = NothingPlanned /\ batch = NothingPlanned
    BY DEF Begin, StartBackfill, StartReconcile, StartSync, StartEnumeration, TypeInv,
       NothingLeftOver, StageOfStep, diskVars
  <1>2. \A m \in Msg : (Mirrored(m)' <=> IndexExact(m)') /\ (Held(m)' <=> Known(m)')
    BY <1>1, ExactIsMirroredNext, KnownIsHeldNext
  <1>3. \A m \in Msg : /\ Mirrored(m)' <=> Mirrored(m)
                       /\ Held(m)' <=> Held(m) /\ changed'[m] = changed[m]
    BY <1>1, MirroredStays
  <1>4. CursorSound' /\ SettledExact'
    <2>1. CursorSound'
      BY <1>1, SoundStays DEF ExactInv
    <2> QED
      BY <1>2, <2>1 DEF CursorSound, SettledExact
  <1>5. PlanMatches' /\ UncreatedUnknown'
    BY <1>1, <1>2, <1>3 DEF ExactInv, PlanMatches, UncreatedUnknown, NothingPlanned
  <1>6. PassExact' /\ DoneExact'
    <2>1. stage' # "done"
      BY <1>1 DEF TypeInv, StageOfStep
    <2> QED
      BY <1>1, <2>1 DEF PassExact, DoneExact
  <1>7. CASE NeedsBackfill(s)
    <2>1. stage' = "backfill" /\ st' = [s EXCEPT !.backfill = c]
      BY <1>7 DEF Begin, StartBackfill
    <2>2. s \in State
      BY OpenTypes DEF TypeInv
    <2>3. st'.backfill = c
      BY <2>1, <2>2 DEF State
    <2>4. \/ dstate = None
          \/ dstate # None /\ dstate.backfill # None /\ c = dstate.backfill
      BY <1>7 DEF ReasonInv, CursorInv, CursorOK, NeedsBackfill, Opened
    <2>5. BackfillExact' /\ SavedBackfillExact' /\ FirstDay'
      <3>1. CASE dstate = None
        <4>1. \A m \in Msg : ~Held(m)
          BY <1>1, <3>1 DEF ExactInv, FirstDay
        <4> QED
          BY <1>1, <1>2, <1>3, <2>1, <3>1, <4>1 DEF BackfillExact, SavedBackfillExact, FirstDay
      <3>2. CASE dstate # None /\ dstate.backfill # None /\ c = dstate.backfill
        <4>1. SavedBackfillExact'
          BY <1>1, <1>3, <2>3, <3>2 DEF ExactInv, SavedBackfillExact
        <4>2. BackfillExact'
          BY <1>1, <1>2, <2>3, <3>2, <4>1 DEF SavedBackfillExact, BackfillExact
        <4> QED
          BY <1>1, <3>2, <4>1, <4>2 DEF FirstDay
      <3> QED
        BY <2>4, <3>1, <3>2
    <2>6. DestroyedNamed'
      BY <2>1 DEF DestroyedNamed
    <2> QED
      BY <1>4, <1>5, <1>6, <2>5, <2>6 DEF ExactInv
  <1>8. CASE ~NeedsBackfill(s)
    <2>1. dstate # None /\ st' = dstate /\ stage' \in {"sync", "reconcile"}
      BY <1>8 DEF Begin, NeedsBackfill, Opened, DefaultState, StartSync, StartReconcile
    <2>2. BackfillExact' /\ SavedBackfillExact' /\ FirstDay'
      BY <1>1, <1>3, <2>1 DEF ExactInv, BackfillExact, SavedBackfillExact, FirstDay
    <2>3. DestroyedNamed'
      <3>1. stage' = "sync" => target' = st'.source
        BY <1>8, <2>1 DEF Begin, StartSync, StartReconcile
      <3>2. dstate.source \in Nat /\ \A m \in Msg : changed[m] \in Nat
        BY <2>1, StatesAreNumbers DEF TypeInv
      <3>3. stage' = "sync" =>
              \A m \in Msg : ~(st'.source < changed'[m] /\ changed'[m] <= target')
        <4>1. stage' = "sync" => target' = dstate.source /\ st'.source = dstate.source
          BY <2>1, <3>1
        <4>2. \A m \in Msg : changed'[m] \in Nat
          BY <1>1, <3>2 DEF serverVars
        <4> QED
          BY <3>2, <4>1, <4>2
      <3> QED
        BY <3>3 DEF DestroyedNamed
    <2> QED
      BY <1>4, <1>5, <1>6, <2>2, <2>3 DEF ExactInv
  <1> QED
    BY <1>7, <1>8

\* Collecting and planning: what must still be done is planned.
LEMMA CollectExactInv ==
    ASSUME GitStore, NamesDestroyed, AnchorKept, TypeInv, FiledInv, ReasonInv, CoverInv,
           TreeInv, ExactInv, Collect
    PROVE  ExactInv'
  <1> USE DEF serverVars, diskVars, queueVars, memVars, collectVars, faultVars
  <1>0. /\ target \in Nat /\ Acknowledged \in Nat /\ st.source \in Nat
        /\ \A m \in Msg : changed[m] \in Nat
        /\ metas \in [Msg -> Meta \cup {None}] /\ ix \in Index /\ seen \subseteq Msg
        /\ meta \in [Msg -> Meta \cup {None}] /\ delta \in Changes
        /\ stage # "final"
    BY StatesAreNumbers DEF TypeInv, VarsOK, StageOfStep, Collect, Enumerate,
       SkipAfterLostAnchor, EnumerationEnds, ChangesPage, StateTooOld, PlanSync, PlanReconcile
  <1>1. CASE \E m \in Msg : Enumerate(m)
    <2>1. /\ pc = "enumerate" /\ pc' \in {"enumerate", "day"} /\ stage' = stage
          /\ UNCHANGED <<serverVars, head, dstate, ix, st, plan, batch>>
          /\ plan = NothingPlanned /\ batch = NothingPlanned
          /\ stage \in {"backfill", "reconcile"}
      BY <1>1 DEF Enumerate, TypeInv, NothingLeftOver, StageOfStep
    <2>2. PlanMatches' /\ DestroyedNamed' /\ DoneExact' /\ PassExact'
      BY <2>1 DEF PlanMatches, DestroyedNamed, DoneExact, PassExact, NothingPlanned
    <2>3. BackfillExact' /\ SavedBackfillExact'
      BY <2>1, ExactStays, SavedBackfillStays DEF ExactInv, BackfillExact
    <2> QED
      BY <2>1, <2>2, <2>3, QuietExactInv DEF ExactInv, FirstDay
  <1>2. CASE EnumerationEnds
    <2>1. /\ pc = "enumerate" /\ pc' \in {"plan", "day"} /\ stage' = stage
          /\ (pc' = "plan" => stage # "sync")
          /\ UNCHANGED <<serverVars, head, dstate, ix, st, plan, batch>>
          /\ plan = NothingPlanned /\ batch = NothingPlanned
          /\ stage \in {"backfill", "reconcile"}
      BY <1>2 DEF EnumerationEnds, TypeInv, NothingLeftOver, StageOfStep
    <2>2. PlanMatches' /\ DestroyedNamed' /\ DoneExact' /\ PassExact'
      BY <2>1 DEF PlanMatches, DestroyedNamed, DoneExact, PassExact, NothingPlanned
    <2>3. BackfillExact' /\ SavedBackfillExact'
      BY <2>1, ExactStays, SavedBackfillStays DEF ExactInv, BackfillExact
    <2> QED
      BY <2>1, <2>2, <2>3, QuietExactInv DEF ExactInv, FirstDay
  <1>3. ASSUME NEW upto \in Version, ChangesPage(upto) PROVE ExactInv'
    <2>1. /\ pc = "changes" /\ pc' \in {"changes", "plan"} /\ stage' = stage /\ stage = "sync"
          /\ target' = upto /\ upto \in target .. version
          /\ delta'.destroyed = delta.destroyed \cup Page(target, upto).destroyed
          /\ UNCHANGED <<serverVars, head, dstate, ix, st, plan, batch>>
          /\ plan = NothingPlanned /\ batch = NothingPlanned
      BY <1>3 DEF ChangesPage, TypeInv, NothingLeftOver, StageOfStep
    <2>2. DestroyedNamed'
      <3>1. \A m \in Msg : ~Alive(m) /\ target < changed[m] /\ changed[m] <= upto
              => m \in Page(target, upto).destroyed
        BY DEF Page, ChangedIn, NamesDestroyed
      <3>2. \A m \in Msg : ~Alive(m) /\ st.source < changed[m] /\ changed[m] <= target
              => m \in delta.destroyed
        BY <2>1 DEF ExactInv, DestroyedNamed
      <3>3. \A m \in Msg : changed[m] <= target \/ target < changed[m]
        BY <1>0
      <3> QED
        BY <2>1, <3>1, <3>2, <3>3 DEF DestroyedNamed, Alive
    <2>3. PlanMatches' /\ DoneExact' /\ PassExact'
      BY <2>1 DEF PlanMatches, DoneExact, PassExact, NothingPlanned
    <2>4. BackfillExact' /\ SavedBackfillExact'
      BY <2>1, SavedBackfillStays DEF ExactInv, BackfillExact
    <2> QED
      BY <2>1, <2>2, <2>3, <2>4, QuietExactInv DEF ExactInv, FirstDay
  <1>4. CASE StateTooOld
    <2>1. /\ pc = "changes" /\ pc' = "enumerate" /\ stage = "sync" /\ stage' = "reconcile"
          /\ UNCHANGED <<serverVars, head, dstate, ix, st, plan, batch>>
          /\ plan = NothingPlanned /\ batch = NothingPlanned
      BY <1>4 DEF StateTooOld, StartReconcile, StartEnumeration, TypeInv, NothingLeftOver,
         StageOfStep
    <2>2. PlanMatches' /\ DestroyedNamed' /\ DoneExact' /\ PassExact'
      BY <2>1 DEF PlanMatches, DestroyedNamed, DoneExact, PassExact, NothingPlanned
    <2>3. BackfillExact' /\ SavedBackfillExact'
      BY <2>1, SavedBackfillStays DEF ExactInv, BackfillExact
    <2> QED
      BY <2>1, <2>2, <2>3, QuietExactInv DEF ExactInv, FirstDay
  <1>5. CASE PlanSync /\ ~EndPass
    <2> DEFINE touched == {m \in Deduped : Alive(m)}
    <2>1. /\ pc = "plan" /\ stage = "sync" /\ stage' = stage /\ pc' = "apply days"
          /\ plan'.add = {m \in touched : ~Known(m) /\ Matches(meta[m])}
          /\ plan'.update = {m \in touched : Known(m) /\ Matches(meta[m])}
          /\ plan'.delete = delta.destroyed \cup
                            {m \in touched : Known(m) /\ ~Matches(meta[m])}
          /\ metas' = [m \in Msg |-> IF m \in touched THEN meta[m] ELSE None]
          /\ UNCHANGED <<serverVars, head, dstate, ix, st, batch, target>>
          /\ batch = NothingPlanned
      <3>1. /\ pc = "plan" /\ stage = "sync" /\ stage' = stage /\ pc' = "apply days"
            /\ plan' = [add    |-> {m \in touched : ~Known(m) /\ Matches(meta[m])},
                        update |-> {m \in touched : Known(m) /\ Matches(meta[m])},
                        delete |-> delta.destroyed \cup
                                   {m \in touched : Known(m) /\ ~Matches(meta[m])}]
            /\ metas' = [m \in Msg |-> IF m \in touched THEN meta[m] ELSE None]
            /\ UNCHANGED <<serverVars, head, dstate, ix, st, batch, target>>
            /\ batch = NothingPlanned
        BY <1>5 DEF PlanSync, TypeInv, NothingLeftOver
      <3> HIDE DEF touched
      <3> QED
        BY <3>1
    <2>2. touched \subseteq Msg
      BY <1>0 DEF Deduped, Changes
    <2>3. PlanMatches'
      <3>1. \A m \in touched : metas'[m] = meta[m]
        BY <2>1, <2>2
      <3>2. batch'.add = {} /\ batch'.update = {}
        BY <2>1 DEF NothingPlanned
      <3> QED
        BY <2>1, <3>1, <3>2 DEF PlanMatches, Matches, Known
    <2>4. ASSUME NEW m \in Msg, 0 < changed[m], changed[m] <= target
          PROVE  IndexExact(m) \/ Pending(m)'
      <3>1. CASE changed[m] <= st.source
        <4>1. Settled(m)
          BY <2>1, <2>4, <3>1 DEF Settled, ReasonInv, CursorInv
        <4> QED
          BY <2>1, <4>1 DEF ExactInv, SettledExact
      <3>2. CASE st.source < changed[m] /\ ~Alive(m)
        <4>1. m \in plan'.delete
          BY <2>1, <2>4, <3>2 DEF ExactInv, DestroyedNamed
        <4> QED
          BY <2>1, <3>2, <4>1 DEF Pending, Expected, Alive
      <3>3. CASE st.source < changed[m] /\ Alive(m)
        <4>1. m \in touched
          BY <2>1, <2>4, <3>3 DEF CoverInv, DeltaCovers, ReasonInv, DestroyedForGood, Deduped
        <4>2. CASE Matches(meta[m])
          <5>1. m \in plan'.add \cup plan'.update
            BY <2>1, <4>1, <4>2
          <5> QED
            BY <2>1, <3>3, <4>2, <5>1 DEF Pending, Expected, Alive, Matches
        <4>3. CASE ~Matches(meta[m]) /\ Known(m)
          <5>1. m \in plan'.delete
            BY <2>1, <4>1, <4>3
          <5> QED
            BY <2>1, <4>3, <5>1 DEF Pending, Expected, Alive, Matches
        <4>4. CASE ~Matches(meta[m]) /\ ~Known(m)
          BY <4>4 DEF IndexExact, Expected, Known
        <4> QED
          BY <4>2, <4>3, <4>4
      <3> QED
        BY <1>0, <2>4, <3>1, <3>2, <3>3
    <2>5. PassExact'
      BY <2>1, <2>4, ExactStays DEF PassExact
    <2>6. DestroyedNamed' /\ DoneExact'
      BY <2>1 DEF DestroyedNamed, DoneExact
    <2>7. BackfillExact' /\ SavedBackfillExact'
      BY <2>1, SavedBackfillStays DEF ExactInv, BackfillExact
    <2> QED
      BY <2>1, <2>3, <2>5, <2>6, <2>7, QuietExactInv DEF ExactInv, FirstDay
  <1>6. CASE PlanReconcile
    <2>1. /\ pc = "plan" /\ stage = "reconcile" /\ stage' = stage /\ pc' = "apply days"
          /\ plan'.add = {m \in seen : ~Known(m) /\ Matches(metas[m])}
          /\ plan'.update = {m \in seen : /\ Known(m) /\ Matches(metas[m])
                                          /\ ix[m].meta # metas[m]}
          /\ plan'.delete = {m \in seen : Known(m) /\ ~Matches(metas[m])}
                            \cup {m \in Msg : Known(m) /\ m \notin seen}
          /\ UNCHANGED <<serverVars, head, dstate, ix, st, batch, target, metas, cancel>>
          /\ batch = NothingPlanned
      BY <1>6 DEF PlanReconcile, TypeInv, NothingLeftOver
    <2>2. PlanMatches'
      <3>1. batch'.add = {} /\ batch'.update = {}
        BY <2>1 DEF NothingPlanned
      <3> QED
        BY <2>1, <3>1 DEF PlanMatches, Matches, Known
    <2>3. ASSUME ~cancel, NEW m \in Msg, 0 < changed[m], changed[m] <= target
          PROVE  IndexExact(m) \/ Pending(m)'
      <3>1. m \in seen => metas[m] = meta[m] /\ metas[m] # None
        <4>1. ~(changed[m] > target)
          BY <1>0, <2>3
        <4> QED
          BY <2>1, <4>1 DEF ReasonInv, MetadataFresh, Fresh, Since, TypeInv, MetadataCollected
      <3>2. Alive(m) <=> m \in seen
        BY <2>1, <2>3, <3>1 DEF ReasonInv, EnumerationCovers, Alive
      <3>3. Pending(m)' <=> \/ Expected(m) /\ m \in plan'.add \cup plan'.update
                            \/ ~Expected(m) /\ m \in plan'.delete
        BY <2>1 DEF Pending, Expected, Alive, NothingPlanned
      <3>4. CASE Expected(m)
        <4>1. m \in seen /\ Matches(metas[m])
          BY <3>1, <3>2, <3>4 DEF Expected
        <4>2. CASE Known(m) /\ ix[m].meta = metas[m]
          <5>1. ix[m] \in Entry /\ ix[m].box = ix[m].meta.box
            BY <1>0, <2>1, <4>2 DEF TreeInv, Describes, Known, Index
          <5>2. ix[m] = EntryFor(meta[m])
            BY <3>1, <4>1, <4>2, <5>1 DEF Entry, EntryFor
          <5> QED
            BY <3>4, <5>2 DEF IndexExact
        <4> QED
          BY <2>1, <3>3, <3>4, <4>1, <4>2
      <3>5. CASE ~Expected(m)
        <4>1. m \in seen => ~Matches(metas[m])
          BY <3>1, <3>2, <3>5 DEF Expected
        <4>2. CASE Known(m)
          BY <2>1, <3>3, <3>5, <4>1, <4>2
        <4>3. CASE ~Known(m)
          BY <3>5, <4>3 DEF IndexExact, Known
        <4> QED
          BY <4>2, <4>3
      <3> QED
        BY <3>4, <3>5
    <2>4. PassExact'
      BY <2>1, <2>3, ExactStays DEF PassExact
    <2>5. DestroyedNamed' /\ DoneExact'
      BY <2>1 DEF DestroyedNamed, DoneExact
    <2>6. BackfillExact' /\ SavedBackfillExact'
      BY <2>1, SavedBackfillStays DEF ExactInv, BackfillExact
    <2> QED
      BY <2>1, <2>2, <2>4, <2>5, <2>6, QuietExactInv DEF ExactInv, FirstDay
  <1>7. CASE PlanSync /\ EndPass
    BY <1>7, EndPassExactInv DEF PlanSync
  <1>8. ASSUME NEW m \in Msg, SkipAfterLostAnchor(m) PROVE FALSE
    BY <1>8 DEF SkipAfterLostAnchor, AnchorKept
  <1> QED
    BY <1>1, <1>2, <1>3, <1>4, <1>5, <1>6, <1>7, <1>8 DEF Collect

\* What an event leaves in the index: exactly what the account had when it was
\* collected, and that is what it has now unless it changed since.
LEMMA ApplyExact ==
    ASSUME GitStore, TypeInv, FiledInv, ReasonInv, TreeInv, ExactInv, NEW m \in Msg,
           ApplyAdded(m) \/ ApplyUpdated(m) \/ ApplyDeleted(m)
    PROVE  /\ changed[m] <= Since => IndexExact(m)'
           /\ \A n \in Msg \ {m} : ix'[n] = ix[n]
           /\ Known(m)' => changed[m] # 0
           /\ Known(m)' \/ (stage = "final" /\ batch.update = {})
  <1>1. /\ pc = "apply" /\ Files \in Stage /\ Files.wt = wt /\ InStep(head, Files)
        /\ Agrees(wt, ix) /\ Describes(ix, wt)
    BY BatchInStep DEF ApplyAdded, ApplyUpdated, ApplyDeleted
  <1>2. /\ head \in Tree /\ ix \in Index /\ meta' = meta
        /\ stage \in {"backfill", "past day", "final"}
    BY <1>1 DEF TypeInv, VarsOK, StageOfStep, ApplyAdded, ApplyUpdated, ApplyDeleted, Applied,
       serverVars
  <1>3. /\ Since \in Nat /\ target \in Nat /\ changed[m] \in Nat
        /\ created[m] = 0 <=> changed[m] = 0
        /\ Alive(m) => created[m] # 0
    BY StatesAreNumbers DEF Since, TypeInv, StageOfStep, ReasonInv, AccountInv
  <1>4. CASE ApplyAdded(m) \/ ApplyUpdated(m)
    <2>1. m \in batch.add \cup batch.update
      BY <1>4 DEF ApplyAdded, ApplyUpdated
    <2>2. /\ metas[m] \in Meta /\ metas[m] # None /\ Matches(metas[m]) /\ Fresh(m)
          /\ m \in batch.update => Known(m)
      BY <2>1 DEF TypeInv, VarsOK, MetadataCollected, ExactInv, PlanMatches, ReasonInv,
         MetadataFresh
    <2>3. ix' = [ix EXCEPT ![m] = EntryFor(metas[m])]
      <3>1. CASE ApplyAdded(m)
        <4>1. AddEntry(Files, m, ix[m], metas[m]) = EntryFor(metas[m])
          BY <1>1, <1>2, <2>2, AddDescribes
        <4> QED
          BY <3>1, <4>1 DEF ApplyAdded, Applied
      <3>2. CASE ApplyUpdated(m)
        <4>1. UpdateEntry(Files, m, ix[m], metas[m]) = EntryFor(metas[m])
          BY <1>1, <1>2, <2>2, <3>2, UpdateDescribes DEF ApplyUpdated, Known
        <4> QED
          BY <3>2, <4>1 DEF ApplyUpdated, Applied
      <3> QED
        BY <1>4, <3>1, <3>2
    <2>4. changed[m] <= Since => metas[m] = meta[m]
      BY <1>3, <2>2 DEF Fresh
    <2>5. changed[m] <= Since => IndexExact(m)'
      <3>1. ASSUME changed[m] <= Since PROVE Expected(m)'
        BY <1>2, <2>2, <2>4, <3>1 DEF Expected, Alive, Matches
      <3> QED
        BY <1>2, <2>3, <2>4, <3>1 DEF IndexExact, Index
    <2>6. changed[m] # 0
      BY <1>3, <2>2, <2>4 DEF Alive
    <2>7. Known(m)'
      <3>1. EntryFor(metas[m]) \in Entry
        BY <2>2, MetaAssumption DEF Entry, EntryFor
      <3> QED
        BY <1>2, <2>3, <3>1, EntryAssumption DEF Known, Index
    <2>8. \A n \in Msg \ {m} : ix'[n] = ix[n]
      BY <1>2, <2>3 DEF Index
    <2> QED
      BY <2>5, <2>6, <2>7, <2>8
  <1>5. CASE ApplyDeleted(m)
    <2>1. ix' = [ix EXCEPT ![m] = None] /\ m \in batch.delete /\ batch.update = {}
      BY <1>5 DEF ApplyDeleted, Applied
    <2>2. stage = "final" /\ Unwanted(m)
      BY <1>1, <2>1 DEF ReasonInv, DeletionsJustified
    <2>3. changed[m] <= Since => ~Expected(m)
      BY <1>3, <2>2 DEF Since, Unwanted
    <2>4. ix'[m] = None
      BY <1>2, <2>1 DEF Index
    <2>5. changed[m] <= Since => IndexExact(m)'
      BY <1>2, <2>3, <2>4 DEF IndexExact, Expected, Alive, Matches
    <2> QED
      BY <1>2, <2>1, <2>2, <2>4, <2>5 DEF Index, Known
  <1> QED
    BY <1>4, <1>5

\* Applying an event makes its message exact and leaves the others alone.
LEMMA ApplyExactInv ==
    ASSUME GitStore, TypeInv, FiledInv, ReasonInv, TreeInv, ExactInv, NEW m \in Msg,
           ApplyAdded(m) \/ ApplyUpdated(m) \/ ApplyDeleted(m)
    PROVE  ExactInv'
  <1>1. /\ pc = "apply" /\ pc' = "apply" /\ stage' = stage
        /\ UNCHANGED <<serverVars, head, dstate, st, target, metas, plan, cancel>>
        /\ stage \in {"backfill", "past day", "final"}
        /\ stage # "past day" => plan = NothingPlanned
    BY DEF ApplyAdded, ApplyUpdated, ApplyDeleted, Applied, collectVars, TypeInv, StageOfStep,
       NothingLeftOver
  <1>2. /\ batch'.add \subseteq batch.add /\ batch'.update \subseteq batch.update
        /\ batch.add \ {m} \subseteq batch'.add /\ batch.update \ {m} \subseteq batch'.update
        /\ batch.delete \ {m} \subseteq batch'.delete
        /\ plan \in Planned /\ batch \in Planned /\ ix \in Index
    BY DEF ApplyAdded, ApplyUpdated, ApplyDeleted, TypeInv, VarsOK, Planned
  <1>3. /\ Since \in Nat /\ target \in Nat /\ Acknowledged \in Nat
        /\ \A n \in Msg : changed[n] \in Nat
    BY StatesAreNumbers DEF Since, TypeInv, StageOfStep
  <1>4. /\ changed[m] <= Since => IndexExact(m)'
        /\ \A n \in Msg \ {m} : ix'[n] = ix[n]
        /\ Known(m)' => changed[m] # 0
        /\ Known(m)' \/ (stage = "final" /\ batch.update = {})
    BY ApplyExact
  <1>5. changed' = changed /\ \A n \in Msg : Expected(n)' <=> Expected(n)
    BY <1>1 DEF serverVars, Expected, Alive
  <1>6. \A n \in Msg \ {m} : /\ IndexExact(n)' <=> IndexExact(n)
                             /\ Known(n)' <=> Known(n)
                             /\ Pending(n) => Pending(n)'
    BY <1>1, <1>2, <1>4, <1>5 DEF IndexExact, Known, Pending, serverVars
  <1>7. PlanMatches'
    <2>1. \A n \in plan.update \cup batch'.update : n \in Msg /\ Known(n)
      BY <1>2 DEF ExactInv, PlanMatches, Planned
    <2>2. \A n \in plan.update \cup batch'.update : Known(n)'
      <3>1. CASE Known(m)'
        BY <1>6, <2>1, <3>1
      <3>2. CASE stage = "final" /\ batch.update = {}
        BY <1>1, <1>2, <3>2 DEF NothingPlanned
      <3> QED
        BY <1>4, <3>1, <3>2
    <2> QED
      BY <1>1, <1>2, <2>2 DEF ExactInv, PlanMatches, Matches
  <1>8. SettledExact'
    <2>1. Acknowledged' = Acknowledged
      BY <1>1 DEF Acknowledged
    <2>2. Acknowledged <= Since
      <3>1. CASE stage = "backfill"
        <4>1. Acknowledged = 0
          BY <3>1 DEF ReasonInv, CursorInv
        <4> QED
          BY <1>3, <4>1
      <3>2. CASE stage # "backfill"
        <4>1. Since = target /\ st.source \in Nat
          BY <3>2, StatesAreNumbers DEF Since, TypeInv
        <4>2. \/ Acknowledged = st.source /\ st.source <= target
              \/ Acknowledged <= target
          BY <1>1, <3>2 DEF ReasonInv, CursorInv
        <4> QED
          BY <1>3, <4>1, <4>2
      <3> QED
        BY <3>1, <3>2
    <2>3. Settled(m) => IndexExact(m)'
      <3>1. Settled(m) => changed[m] <= Since
        BY <1>3, <2>2 DEF Settled
      <3> QED
        BY <1>4, <3>1
    <2>4. \A n \in Msg : Settled(n)' <=> Settled(n)
      BY <1>5, <2>1 DEF Settled
    <2> QED
      BY <1>1, <1>6, <2>3, <2>4 DEF ExactInv, SettledExact
  <1>9. BackfillExact'
    BY <1>1, <1>4, <1>5, <1>6 DEF ExactInv, BackfillExact, Since
  <1>10. PassExact'
    <2>1. stage # "backfill" => Since = target
      BY DEF Since
    <2> QED
      BY <1>1, <1>4, <1>5, <1>6, <2>1 DEF ExactInv, PassExact
  <1>11. CursorSound' /\ SavedBackfillExact'
    BY <1>1, SoundStays, SavedBackfillStays DEF ExactInv
  <1>12. UncreatedUnknown' /\ FirstDay'
    <2>1. \A n \in Msg : Held(n)' <=> Held(n)
      BY <1>1, HeldInHead
    <2> QED
      BY <1>1, <1>4, <1>5, <1>6, <2>1 DEF ExactInv, UncreatedUnknown, FirstDay
  <1>13. DestroyedNamed' /\ DoneExact'
    BY <1>1 DEF DestroyedNamed, DoneExact
  <1> QED
    BY <1>7, <1>8, <1>9, <1>10, <1>11, <1>12, <1>13 DEF ExactInv

\* A commit makes of the index what HEAD holds (git.rs checkpoint).
LEMMA CommitExactInv ==
    ASSUME GitStore, TypeInv, ReasonInv, ExactInv, TypeInv', FiledInv', TreeInv', Commit
    PROVE  ExactInv'
  <1>1. /\ pc = "commit" /\ pc' = "save state" /\ stage' = stage
        /\ UNCHANGED <<serverVars, ix, target, delta, metas, plan, batch, cancel>>
        /\ st' = [st EXCEPT !.saved = TRUE]
        /\ \/ dstate' = dstate
           \/ dstate # None /\ dstate' = [dstate EXCEPT !.saved = FALSE]
    BY DEF Commit, GitStore, collectVars
  <1>2. /\ st \in State /\ dstate \in State \cup {None}
        /\ target \in Nat /\ Acknowledged \in Nat
    BY StatesAreNumbers DEF TypeInv, VarsOK
  <1>3. st'.source = st.source /\ st'.backfill = st.backfill
    BY <1>1, <1>2 DEF State
  <1>4. /\ dstate' = None <=> dstate = None
        /\ dstate # None => /\ dstate'.source = dstate.source
                            /\ dstate'.backfill = dstate.backfill
    <2>1. CASE dstate' = dstate
      BY <2>1
    <2>2. CASE dstate # None /\ dstate' = [dstate EXCEPT !.saved = FALSE]
      <3>1. /\ dstate' \in State /\ dstate'.source = dstate.source
            /\ dstate'.backfill = dstate.backfill
        BY <1>2, <2>2 DEF State
      <3> QED
        BY <2>2, <3>1, CursorAssumption
    <2> QED
      BY <1>1, <2>1, <2>2
  <1>5. /\ changed' = changed
        /\ \A m \in Msg : /\ IndexExact(m)' <=> IndexExact(m)
                          /\ Known(m)' <=> Known(m)
                          /\ Mirrored(m)' <=> IndexExact(m)
                          /\ Held(m)' <=> Known(m)
    BY <1>1, ExactStays, ExactIsMirroredNext, KnownIsHeldNext DEF serverVars
  <1>6. \A m \in Msg : (Settled(m)' <=> Settled(m)) /\ (Pending(m)' <=> Pending(m))
    <2>1. Acknowledged' = Acknowledged
      BY <1>4 DEF Acknowledged
    <2> QED
      BY <1>1, <1>5, <2>1 DEF Settled, Pending, Expected, Alive, serverVars
  <1>7. SettledExact' /\ CursorSound'
    BY <1>1, <1>5, <1>6 DEF ExactInv, SettledExact, CursorSound
  <1>8. BackfillExact'
    BY <1>1, <1>3, <1>5 DEF ExactInv, BackfillExact
  <1>9. SavedBackfillExact'
    <2>1. CASE dstate # None /\ dstate.backfill # None
      <3>1. stage = "backfill"
        <4>1. Acknowledged = 0 /\ stage # "done"
          BY <1>1, <2>1 DEF Acknowledged, ExactInv, FirstDay
        <4>2. stage \in {"sync", "reconcile", "past day"} => st.source # 0
          BY <1>1 DEF ReasonInv, CursorInv, CursorOK
        <4> QED
          BY <4>1, <4>2 DEF ReasonInv, CursorInv, TypeInv, VarsOK
      <3>2. st.backfill.start = dstate.backfill.start
        BY <2>1, <3>1 DEF ExactInv, SavedBackfillExact
      <3>3. \A m \in Msg : changed[m] <= dstate.backfill.start /\ Known(m) => IndexExact(m)
        BY <3>1, <3>2 DEF ExactInv, BackfillExact
      <3> QED
        BY <1>1, <1>3, <1>4, <1>5, <2>1, <3>2, <3>3 DEF SavedBackfillExact
    <2>2. CASE dstate = None \/ dstate.backfill = None
      BY <1>4, <2>2 DEF SavedBackfillExact
    <2> QED
      BY <2>1, <2>2
  <1>10. UncreatedUnknown' /\ FirstDay'
    BY <1>1, <1>4, <1>5 DEF ExactInv, UncreatedUnknown, FirstDay
  <1>11. PlanMatches' /\ DestroyedNamed' /\ DoneExact' /\ PassExact'
    <2>1. PlanMatches' /\ DestroyedNamed'
      BY <1>1, <1>5 DEF ExactInv, PlanMatches, DestroyedNamed, Matches, Known
    <2>2. DoneExact' /\ PassExact'
      BY <1>1, <1>3, <1>5, <1>6 DEF ExactInv, DoneExact, PassExact
    <2> QED
      BY <2>1, <2>2
  <1> QED
    BY <1>7, <1>8, <1>9, <1>10, <1>11 DEF ExactInv

\* A state is only saved over a HEAD that is exact for what it acknowledges.
LEMMA SaveStateExactInv ==
    ASSUME GitStore, TypeInv, FiledInv, ReasonInv, TreeInv, ExactInv, SaveState
    PROVE  ExactInv'
  <1>1. /\ pc = "save state" /\ pc' = "save index" /\ dstate' = st /\ stage' = stage
        /\ UNCHANGED <<serverVars, head, ix, st, target, delta, metas, plan, batch, cancel>>
        /\ batch = NothingPlanned
        /\ stage # "past day" => plan = NothingPlanned
    BY DEF SaveState, memVars, collectVars, TypeInv, NothingLeftOver
  <1>2. /\ st \in State /\ st # None /\ target \in Nat /\ st.source \in Nat
        /\ stage = "backfill" => st.backfill # None
        /\ stage # "backfill" => st.backfill = None
    <2>1. st \in State /\ target \in Nat /\ st.source \in Nat
      BY StatesAreNumbers DEF TypeInv, VarsOK
    <2>2. stage # "backfill" => st.backfill = None
      BY <1>1 DEF ReasonInv, CursorInv, TypeInv, VarsOK
    <2> QED
      BY <2>1, <2>2, CursorAssumption DEF TypeInv, StageOfStep
  <1>3. Acknowledged' = IF st.backfill # None THEN 0 ELSE st.source
    BY <1>1, <1>2 DEF Acknowledged
  <1>4. /\ \A m \in Msg : /\ IndexExact(m)' <=> IndexExact(m)
                          /\ Known(m)' <=> Known(m)
                          /\ Held(m)' <=> Known(m)
                          /\ Mirrored(m)' <=> IndexExact(m)
        /\ changed' = changed
    BY <1>1, ExactStays, MirroredStays, ExactIsMirrored, KnownIsHeld DEF serverVars
  <1>5. SettledExact'
    <2>1. SUFFICES ASSUME NEW m \in Msg, st.backfill = None, 0 < changed[m],
                          changed[m] <= st.source
                   PROVE  IndexExact(m)
      <3>1. \A m \in Msg : changed[m] \in Nat
        BY StatesAreNumbers DEF TypeInv
      <3>2. ASSUME NEW m \in Msg, Settled(m)'
            PROVE  st.backfill = None /\ 0 < changed[m] /\ changed[m] <= st.source
        BY <1>3, <1>4, <3>1, <3>2 DEF Settled
      <3> QED
        BY <1>4, <3>2 DEF SettledExact
    <2>2. CASE stage = "done"
      BY <1>1, <2>1, <2>2 DEF ExactInv, DoneExact
    <2>3. CASE stage = "final"
      <3>1. st.source = target /\ plan = NothingPlanned
        BY <1>1, <2>3 DEF ReasonInv, CursorInv
      <3>2. ~Pending(m)
        BY <1>1, <3>1 DEF Pending, NothingPlanned
      <3> QED
        BY <1>1, <2>1, <2>3, <3>1, <3>2 DEF ExactInv, PassExact
    <2>4. CASE stage \in {"sync", "reconcile", "past day"}
      <3>1. Settled(m)
        BY <2>1, <2>4 DEF Settled, ReasonInv, CursorInv
      <3> QED
        BY <1>1, <3>1 DEF ExactInv, SettledExact
    <2> QED
      BY <1>2, <2>1, <2>2, <2>3, <2>4 DEF TypeInv, VarsOK
  <1>6. CursorSound'
    BY <1>1, <1>4, <1>5 DEF SettledExact, CursorSound
  <1>7. BackfillExact' /\ SavedBackfillExact'
    BY <1>1, <1>2, <1>4 DEF ExactInv, BackfillExact, SavedBackfillExact
  <1>8. UncreatedUnknown' /\ FirstDay'
    BY <1>1, <1>2, <1>4 DEF ExactInv, UncreatedUnknown, FirstDay
  <1>9. PlanMatches' /\ DestroyedNamed'
    BY <1>1, <1>4 DEF ExactInv, PlanMatches, DestroyedNamed, Matches, Known
  <1>10. DoneExact' /\ PassExact'
    <2>1. \A m \in Msg : Pending(m)' <=> Pending(m)
      BY <1>1 DEF Pending, Expected, Alive, serverVars
    <2> QED
      BY <1>1, <1>4, <2>1 DEF ExactInv, DoneExact, PassExact
  <1> QED
    BY <1>5, <1>6, <1>7, <1>8, <1>9, <1>10 DEF ExactInv

\* Writing: batches, their commits and the cursor that follows them.
LEMMA WriteExactInv ==
    ASSUME GitStore, TypeInv, FiledInv, ReasonInv, CoverInv, TreeInv, ExactInv,
           TypeInv', FiledInv', TreeInv', Write
    PROVE  ExactInv'
  <1> USE DEF serverVars, diskVars, queueVars, memVars, collectVars, faultVars
  <1>0. /\ target \in Nat /\ Acknowledged \in Nat /\ st.source \in Nat
        /\ st \in State /\ plan \in Planned /\ batch \in Planned /\ seen \subseteq Msg
        /\ \A m \in Msg : changed[m] \in Nat
    BY StatesAreNumbers DEF TypeInv, VarsOK
  <1>1. ASSUME NEW d \in {Day[m] : m \in Msg}, FinalizeDay(d) PROVE ExactInv'
    <2>1. /\ pc = "day" /\ pc' = "apply" /\ stage = "backfill" /\ stage' = stage
          /\ UNCHANGED <<serverVars, head, dstate, ix, metas, plan>> /\ plan = NothingPlanned
          /\ batch'.update = {} /\ \A m \in batch'.add : Matches(metas[m])
          /\ st' = [st EXCEPT !.backfill = CursorAfter(d)]
      BY <1>1 DEF FinalizeDay, TypeInv, NothingLeftOver, StageOfStep, NothingPlanned
    <2>2. st'.backfill.start = st.backfill.start
      BY <1>0, <2>1 DEF CursorAfter, Cursor, State, TypeInv, StageOfStep
    <2>3. PlanMatches'
      BY <2>1 DEF PlanMatches, NothingPlanned, Matches
    <2>4. DestroyedNamed' /\ DoneExact' /\ PassExact'
      BY <2>1 DEF DestroyedNamed, DoneExact, PassExact
    <2>5. BackfillExact' /\ SavedBackfillExact'
      BY <2>1, <2>2, ExactStays, SavedBackfillStays DEF ExactInv, BackfillExact
    <2> QED
      BY <2>1, <2>3, <2>4, <2>5, QuietExactInv
  <1>2. ASSUME NEW d \in {Day[m] : m \in Msg}, StartPastDay(d) PROVE ExactInv'
    <2>1. /\ pc = "apply days" /\ pc' = "apply" /\ stage' = "past day" /\ ~cancel
          /\ UNCHANGED <<serverVars, head, dstate, ix, st, target, metas>>
          /\ batch = NothingPlanned /\ batch'.update = {} /\ batch'.delete = {}
          /\ plan'.add \cup batch'.add = plan.add
          /\ plan'.update = plan.update /\ plan'.delete = plan.delete
          /\ stage \in {"sync", "reconcile", "past day"}
      BY <1>0, <1>2 DEF StartPastDay, NothingPlanned, Planned, TypeInv, NothingLeftOver,
         StageOfStep
    <2>2. PlanMatches'
      BY <2>1 DEF ExactInv, PlanMatches, NothingPlanned, Matches, Known
    <2>3. PassExact'
      <3>1. \A m \in Msg : Pending(m) => Pending(m)'
        BY <2>1 DEF Pending, NothingPlanned, Expected, Alive
      <3> QED
        BY <2>1, <3>1, ExactStays DEF ExactInv, PassExact
    <2>4. DestroyedNamed' /\ DoneExact' /\ BackfillExact'
      BY <2>1 DEF DestroyedNamed, DoneExact, BackfillExact
    <2>5. SavedBackfillExact' /\ dstate # None
      BY <2>1, SavedBackfillStays DEF ExactInv, FirstDay
    <2> QED
      BY <2>1, <2>2, <2>3, <2>4, <2>5, QuietExactInv
  <1>3. CASE BackfillComplete
    <2>1. /\ pc = "enumerate" /\ pc' = "save state" /\ stage = "backfill" /\ stage' = "done"
          /\ UNCHANGED <<serverVars, head, dstate, ix, plan, batch>>
          /\ plan = NothingPlanned /\ batch = NothingPlanned
          /\ seen = {} /\ ~cancel /\ \A m \in unread : ~Alive(m)
          /\ st' = [st EXCEPT !.source = st.backfill.start, !.backfill = None]
      BY <1>3 DEF BackfillComplete, Upcoming, TypeInv, VarsOK, NothingLeftOver
    <2>2. st'.source = st.backfill.start
      BY <1>0, <2>1 DEF State
    <2>3. ASSUME NEW m \in Msg, 0 < changed[m], changed[m] <= st.backfill.start
          PROVE  IndexExact(m)
      <3>1. CASE Known(m)
        BY <2>1, <2>3, <3>1 DEF ExactInv, BackfillExact
      <3>2. CASE ~Known(m)
        <4>1. ~Expected(m)
          <5>1. ASSUME Expected(m)
                PROVE  FALSE
            <6>1. m \notin seen \cup unread \cup batch.add /\ ~cancel
              BY <2>1, <5>1 DEF Expected, NothingPlanned
            <6> QED
              BY <2>1, <2>3, <3>2, <5>1, <6>1 DEF CoverInv, BackfillCovers, Due
          <5> QED
            BY <5>1
        <4> QED
          BY <3>2, <4>1 DEF IndexExact, Known
      <3> QED
        BY <3>1, <3>2
    <2>4. DoneExact'
      BY <2>1, <2>2, <2>3, ExactStays DEF DoneExact
    <2>5. PlanMatches' /\ DestroyedNamed' /\ BackfillExact' /\ PassExact'
      BY <2>1 DEF PlanMatches, DestroyedNamed, BackfillExact, PassExact, NothingPlanned
    <2>6. SavedBackfillExact'
      BY <2>1, SavedBackfillStays DEF ExactInv
    <2> QED
      BY <2>1, <2>4, <2>5, <2>6, QuietExactInv
  <1>4. CASE StartFinal
    <2>1. /\ pc = "apply days" /\ pc' \in {"apply", "commit"} /\ stage' = "final" /\ ~cancel
          /\ UNCHANGED <<serverVars, head, dstate, ix, target, metas>>
          /\ batch' = plan /\ plan' = NothingPlanned /\ batch = NothingPlanned
          /\ stage \in {"sync", "reconcile", "past day"}
      BY <1>4 DEF StartFinal, TypeInv, NothingLeftOver, StageOfStep
    <2>2. PlanMatches'
      BY <2>1 DEF ExactInv, PlanMatches, NothingPlanned, Matches, Known
    <2>3. PassExact'
      <3>1. \A m \in Msg : Pending(m) => Pending(m)'
        BY <2>1 DEF Pending, NothingPlanned, Expected, Alive
      <3> QED
        BY <2>1, <3>1, ExactStays DEF ExactInv, PassExact
    <2>4. DestroyedNamed' /\ DoneExact' /\ BackfillExact'
      BY <2>1 DEF DestroyedNamed, DoneExact, BackfillExact
    <2>5. SavedBackfillExact' /\ dstate # None
      BY <2>1, SavedBackfillStays DEF ExactInv, FirstDay
    <2> QED
      BY <2>1, <2>2, <2>3, <2>4, <2>5, QuietExactInv
  <1>5. ASSUME NEW m \in Msg, ApplyAdded(m) \/ ApplyUpdated(m) \/ ApplyDeleted(m)
        PROVE  ExactInv'
    BY <1>5, ApplyExactInv
  <1>6. CASE ApplyEnds
    <2>1. /\ pc = "apply" /\ pc' = "commit" /\ stage' = stage
          /\ UNCHANGED <<serverVars, head, dstate, ix, st, target, metas, plan, batch>>
          /\ stage \in {"backfill", "past day", "final"}
      BY <1>6 DEF ApplyEnds, TypeInv, StageOfStep
    <2>2. PlanMatches' /\ DestroyedNamed' /\ DoneExact'
      BY <2>1 DEF ExactInv, PlanMatches, Matches, Known, DestroyedNamed, DoneExact
    <2>3. PassExact'
      <3>1. \A m \in Msg : Pending(m)' <=> Pending(m)
        BY <2>1 DEF Pending, Expected, Alive
      <3> QED
        BY <2>1, <3>1, ExactStays DEF ExactInv, PassExact
    <2>4. BackfillExact' /\ SavedBackfillExact'
      BY <2>1, ExactStays, SavedBackfillStays DEF ExactInv, BackfillExact
    <2> QED
      BY <2>1, <2>2, <2>3, <2>4, QuietExactInv DEF ExactInv, FirstDay
  <1>7. CASE Commit
    BY <1>7, CommitExactInv
  <1>8. CASE SaveState
    BY <1>8, SaveStateExactInv
  <1>9. CASE SaveIndex
    <2>1. pc = "save index" /\ UNCHANGED <<serverVars, head, dstate>>
          /\ batch = NothingPlanned /\ (stage # "past day" => plan = NothingPlanned)
      BY <1>9 DEF SaveIndex, TypeInv, NothingLeftOver
    <2>2. CASE \/ stage = "backfill" /\ pc' = "enumerate"
               \/ stage = "past day" /\ pc' = "apply days"
      <3>1. stage' = stage /\ UNCHANGED <<ix, st, target, metas, plan, batch>>
        BY <1>9, <2>2 DEF SaveIndex
      <3>2. PlanMatches' /\ DestroyedNamed' /\ DoneExact'
        BY <2>1, <2>2, <3>1 DEF ExactInv, PlanMatches, Matches, Known, DestroyedNamed,
           DoneExact
      <3>3. PassExact'
        <4>1. \A m \in Msg : Pending(m)' <=> Pending(m)
          BY <2>1, <3>1 DEF Pending, Expected, Alive
        <4> QED
          BY <2>1, <2>2, <3>1, <4>1, ExactStays DEF ExactInv, PassExact
      <3>4. BackfillExact' /\ SavedBackfillExact'
        BY <2>1, <2>2, <3>1, ExactStays, SavedBackfillStays DEF ExactInv, BackfillExact
      <3> QED
        BY <2>1, <2>2, <3>1, <3>2, <3>3, <3>4, QuietExactInv DEF ExactInv, FirstDay
    <2>3. CASE stage = "done" /\ kind = "backup"
      <3>1. /\ stage' = "sync" /\ pc' = "changes" /\ target' = st.source
            /\ UNCHANGED <<ix, st, plan, batch>> /\ plan = NothingPlanned
        BY <1>9, <2>1, <2>3 DEF SaveIndex, StartSync
      <3>2. DestroyedNamed'
        <4>1. st'.source = target' /\ changed' = changed
          BY <2>1, <3>1 DEF serverVars
        <4>2. \A m \in Msg : target' \in Nat /\ changed'[m] \in Nat
          BY <3>1, <4>1, StatesAreNumbers DEF TypeInv
        <4>3. \A m \in Msg : ~(st'.source < changed'[m] /\ changed'[m] <= target')
          BY <4>1, <4>2
        <4> QED
          BY <4>3 DEF DestroyedNamed
      <3>3. dstate # None
        BY <2>1, <2>3 DEF ReasonInv, CursorInv, CursorOK, Acknowledged
      <3>4. PlanMatches' /\ DoneExact' /\ PassExact' /\ BackfillExact'
        BY <2>1, <3>1 DEF PlanMatches, DoneExact, PassExact, BackfillExact, NothingPlanned
      <3>5. SavedBackfillExact'
        BY <2>1, <3>1, SavedBackfillStays DEF ExactInv
      <3> QED
        BY <2>1, <3>1, <3>2, <3>3, <3>4, <3>5, QuietExactInv
    <2>4. CASE EndPass
      BY <2>1, <2>4, EndPassExactInv
    <2> QED
      BY <1>9, <2>2, <2>3, <2>4 DEF SaveIndex
  <1> QED
    BY <1>1, <1>2, <1>3, <1>4, <1>5, <1>6, <1>7, <1>8, <1>9 DEF Write

\* A pass that is given up or cancelled changes nothing that is there.
LEMMA StopExactInv ==
    ASSUME GitStore, NoKills, TypeInv, FiledInv, ExactInv, Stop \/ Cancel \/ Fail \/ Crash
    PROVE  ExactInv'
  <1> USE DEF serverVars, diskVars, queueVars, memVars, collectVars, faultVars
  <1>1. CASE FetchFails \/ Interrupted \/ BuildTreeFails
    BY <1>1, EndPassExactInv DEF FetchFails, ToFetch, Interrupted, BuildTreeFails
  <1>2. CASE Restart \/ Cancel
    <2>1. /\ UNCHANGED <<serverVars, head, dstate, st, ix, pc, stage, target, delta, metas,
                         plan, batch>>
          /\ pc = "idle" \/ cancel'
      BY <1>2 DEF Restart, Cancel
    <2>2. /\ Acknowledged' = Acknowledged
          /\ \A m \in Msg : Pending(m)' <=> Pending(m)
      BY <2>1 DEF Acknowledged, Pending, Expected, Alive
    <2>3. \A m \in Msg : Settled(m)' <=> Settled(m)
      BY <2>1, <2>2 DEF Settled
    <2>4. PlanMatches' /\ DestroyedNamed'
      BY <2>1 DEF ExactInv, PlanMatches, DestroyedNamed, Matches, Known, Alive
    <2>5. UncreatedUnknown' /\ SettledExact' /\ FirstDay'
      BY <2>1, <2>3, MirroredStays, ExactStays
      DEF ExactInv, UncreatedUnknown, SettledExact, FirstDay
    <2>6. BackfillExact' /\ DoneExact' /\ SavedBackfillExact' /\ CursorSound'
      BY <2>1, ExactStays, SavedBackfillStays, SoundStays DEF ExactInv, BackfillExact, DoneExact
    <2>7. PassExact'
      BY <2>1, <2>2, ExactStays DEF ExactInv, PassExact
    <2> QED
      BY <2>4, <2>5, <2>6, <2>7 DEF ExactInv
  <1>3. ~Fail /\ ~Crash
    <2>1. ~(fails < MaxFails) /\ ~(crashes < MaxCrashes)
      <3>1. fails \in Nat /\ crashes \in Nat /\ MaxFails = 0 /\ MaxCrashes = 0
        BY DEF TypeInv, VarsOK, GitStore, NoKills
      <3> QED
        BY <3>1
    <2> QED
      BY <2>1 DEF Fail, Crash
  <1> QED
    BY <1>1, <1>2, <1>3 DEF Stop

\* All that is known of a store that only ever gives up or is cancelled.
MirrorInv == TypeInv /\ FiledInv /\ ReasonInv /\ CoverInv /\ TreeInv /\ ExactInv

\* Every step of such a store, and every stutter.
LEMMA ExactInvStep ==
    ASSUME GitStore, AnchorKept, WholeDays, NoKills, NamesDestroyed, MirrorInv, [Next]_vars
    PROVE  MirrorInv'
  <1> USE DEF MirrorInv
  <1>1. TypeInv' /\ FiledInv' /\ ReasonInv' /\ CoverInv' /\ TreeInv'
    BY TypeInvStep, FiledInvStep, ReasonInvStep, CoverInvStep, TreeInvStep
  <1>2. CASE UNCHANGED vars
    <2> USE DEF serverVars, collectVars
    <2>1. UNCHANGED <<serverVars, head, dstate, st, ix, pc, stage, target, delta, metas,
                      plan, batch, cancel>>
      BY <1>2 DEF vars, diskVars, memVars
    <2>2. /\ Acknowledged' = Acknowledged
          /\ \A m \in Msg : Pending(m)' <=> Pending(m)
      BY <2>1 DEF Acknowledged, Pending, Expected, Alive
    <2>3. \A m \in Msg : Settled(m)' <=> Settled(m)
      BY <2>1, <2>2 DEF Settled
    <2>4. PlanMatches' /\ DestroyedNamed'
      BY <2>1 DEF ExactInv, PlanMatches, DestroyedNamed, Matches, Known, Alive
    <2>5. UncreatedUnknown' /\ SettledExact' /\ FirstDay'
      BY <2>1, <2>3, MirroredStays, ExactStays
      DEF ExactInv, UncreatedUnknown, SettledExact, FirstDay
    <2>6. BackfillExact' /\ DoneExact' /\ SavedBackfillExact' /\ CursorSound'
      BY <2>1, ExactStays, SavedBackfillStays, SoundStays DEF ExactInv, BackfillExact, DoneExact
    <2>7. PassExact'
      BY <2>1, <2>2, ExactStays DEF ExactInv, PassExact
    <2> QED
      BY <1>1, <2>4, <2>5, <2>6, <2>7 DEF ExactInv
  <1>3. CASE Account
    BY <1>1, <1>3, AccountExactInv
  <1>4. CASE \E k \in {"backup", "refresh"} : Begin(k)
    BY <1>1, <1>4, BeginExactInv
  <1>5. CASE Collect
    BY <1>1, <1>5, CollectExactInv
  <1>6. CASE Write
    BY <1>1, <1>6, WriteExactInv
  <1>7. CASE Stop \/ Cancel \/ Fail \/ Crash
    BY <1>1, <1>7, StopExactInv
  <1> QED
    BY <1>2, <1>3, <1>4, <1>5, <1>6, <1>7 DEF Next, Engine

\* Every reachable state of such a store.
LEMMA MirrorAlways ==
    ASSUME GitStore, AnchorKept, WholeDays, NoKills, NamesDestroyed
    PROVE  Spec => []MirrorInv
  <1>1. Init => MirrorInv
    BY InitTypeInv, InitFiledInv, InitReasonInv, InitCoverInv, InitTreeInv, InitExactInv
    DEF MirrorInv
  <1>2. MirrorInv /\ [Next]_vars => MirrorInv'
    BY ExactInvStep
  <1> QED
    BY <1>1, <1>2, PTL DEF Spec

\* The cursor in state.json never runs ahead of the archive: whatever changes on the
\* server while passes run, and wherever they give up or are cancelled, all that the
\* acknowledged state covers is in HEAD exactly as it is on the server
\* (backfill, sync, reconcile, apply_planned, checkpoint, save_state).
THEOREM CursorNeverAhead ==
    GitStore /\ AnchorKept /\ WholeDays /\ NoKills /\ NamesDestroyed
        => (Spec => []CursorSound)
  <1> SUFFICES ASSUME GitStore, AnchorKept, WholeDays, NoKills, NamesDestroyed
               PROVE  Spec => []CursorSound
    OBVIOUS
  <1>1. MirrorInv => CursorSound
    BY DEF MirrorInv, ExactInv
  <1>2. Spec => []MirrorInv
    BY MirrorAlways
  <1> QED
    BY <1>1, <1>2, PTL

-----------------------------------------------------------------------------
(* The engine and its store implement Mirror, step by step.                 *)

\* What the sidecars of a tree say of a message, and what they should say.
FiledIn(t, m) ==
    IF \E b \in Box : t[Sidecar(m, b)] # None
    THEN t[Sidecar(m, CHOOSE b \in Box : t[Sidecar(m, b)] # None)]
    ELSE None

ToFile(m) == IF Expected(m) THEN meta[m] ELSE None

\* A git store is restored from HEAD, whatever the worktree holds.
LEMMA FiledInHead ==
    ASSUME GitStore, NEW m \in Msg
    PROVE  Filed(m) = FiledIn(head, m) /\ Filed(m)' = FiledIn(head', m)
  BY DEF GitStore, Archive, Filed, FiledIn

\* A sidecar holds metadata and nothing else.
LEMMA FiledType ==
    ASSUME NEW t \in Tree, NEW m \in Msg
    PROVE  FiledIn(t, m) \in Meta \cup {None}
  BY DEF FiledIn, Tree

\* A message whose only sidecar is where it belongs is filed under that.
LEMMA OneSidecar ==
    ASSUME NEW t, NEW m \in Msg, NEW here \in BOOLEAN, NEW x \in Meta \cup {None},
           here => x # None,
           \A b \in Box : t[Sidecar(m, b)] = IF here /\ x.box = b THEN x ELSE None
    PROVE  FiledIn(t, m) = IF here THEN x ELSE None
  <1>1. CASE here
    <2>1. x.box \in Box /\ x # None
      BY <1>1, MetaAssumption
    <2>2. t[Sidecar(m, x.box)] = x
      BY <1>1, <2>1
    <2>3. PICK c \in Box : c = CHOOSE b \in Box : t[Sidecar(m, b)] # None
      BY <2>1, <2>2
    <2>4. t[Sidecar(m, c)] # None
      BY <2>1, <2>2, <2>3
    <2>5. c = x.box
      BY <1>1, <2>4
    <2> QED
      BY <1>1, <2>1, <2>2, <2>3, <2>5 DEF FiledIn
  <1>2. CASE ~here
    BY <1>2 DEF FiledIn
  <1> QED
    BY <1>1, <1>2

\* What is mirrored is filed as it should be.
LEMMA MirroredIsFiled ==
    ASSUME GitStore, TypeInv, NEW m \in Msg, Mirrored(m)
    PROVE  Filed(m) = ToFile(m)
  <1>1. /\ meta[m] \in Meta \cup {None}
        /\ Expected(m) \in BOOLEAN
        /\ Expected(m) => meta[m] # None
    BY DEF TypeInv, VarsOK, Expected, Alive, Matches
  <1>2. \A b \in Box : head[Sidecar(m, b)] =
                         IF Expected(m) /\ meta[m].box = b THEN meta[m] ELSE None
    BY DEF Mirrored, Archive, GitStore
  <1> HIDE DEF Expected
  <1>3. FiledIn(head, m) = IF Expected(m) THEN meta[m] ELSE None
    BY <1>1, <1>2, OneSidecar
  <1> QED
    BY <1>3, FiledInHead DEF ToFile

\* The same of the next state.
LEMMA MirroredIsFiledNext ==
    ASSUME GitStore, TypeInv', NEW m \in Msg, Mirrored(m)'
    PROVE  Filed(m)' = ToFile(m)'
  <1>1. /\ meta'[m] \in Meta \cup {None}
        /\ Expected(m)' \in BOOLEAN
        /\ Expected(m)' => meta'[m] # None
    BY DEF TypeInv, VarsOK, Expected, Alive, Matches
  <1>2. \A b \in Box : head'[Sidecar(m, b)] =
                         IF Expected(m)' /\ meta'[m].box = b THEN meta'[m] ELSE None
    BY DEF Mirrored, Archive, GitStore
  <1>3. FiledIn(head', m) = IF Expected(m)' THEN meta'[m] ELSE None
    BY <1>1, <1>2, OneSidecar
  <1> QED
    BY <1>3, FiledInHead DEF ToFile

\* Without its .eml a message has no sidecar either.
LEMMA UnheldIsUnfiled ==
    ASSUME NEW t \in Tree, Consistent(t), NEW m \in Msg,
           ~\E b \in Box : t[Eml(m, b)] = Raw /\ t[Sidecar(m, b)] # None
    PROVE  FiledIn(t, m) = None
  BY DEF Consistent, FiledIn

\* A step that leaves the account, HEAD and the cursor alone is none of Mirror's.
LEMMA StutterOfMirror ==
    ASSUME GitStore, UNCHANGED <<serverVars, head>>, Acknowledged' = Acknowledged
    PROVE  UNCHANGED Abstract!vars
  <1>1. \A m \in Msg : Filed(m)' = Filed(m)
    BY FiledInHead
  <1>2. \A m \in Msg : ToFile(m)' = ToFile(m)
    BY DEF ToFile, Expected, Alive, serverVars
  <1> QED
    BY <1>1, <1>2 DEF Abstract!vars, ToFile, serverVars

\* What happens to the account is a change of one message.
LEMMA AccountChangesOne ==
    ASSUME GitStore, TypeInv, TypeInv', AccountInv, Account
    PROVE  \E m \in Msg : Abstract!Change(m)
  <1>1. PICK m \in Msg : ChangedNow(m)
    BY AccountChanges
  <1>2. /\ version' = version + 1 /\ changed' = [changed EXCEPT ![m] = version + 1]
        /\ \A n \in Msg \ {m} : meta'[n] = meta[n]
        /\ UNCHANGED <<head, dstate>>
    BY <1>1 DEF ChangedNow
  <1>3. \A n \in Msg \ {m} : ToFile(n)' = ToFile(n)
    BY <1>2 DEF ToFile, Expected, Alive, Matches
  <1>4. ToFile(m)' \in Meta \cup {None}
    BY DEF ToFile, Expected, Alive, TypeInv, VarsOK
  <1>5. [n \in Msg |-> ToFile(n)]' = [[n \in Msg |-> ToFile(n)] EXCEPT ![m] = ToFile(m)']
    BY <1>3
  <1>6. Acknowledged' = Acknowledged
    BY <1>2 DEF Acknowledged
  <1>7. \A n \in Msg : Filed(n)' = Filed(n)
    BY <1>2, FiledInHead
  <1> QED
    BY <1>2, <1>4, <1>5, <1>6, <1>7 DEF Abstract!Change, ToFile

\* A commit files what changed since the acknowledged state and nothing else.
LEMMA CommitFilesNew ==
    ASSUME GitStore, MirrorInv, MirrorInv', Commit
    PROVE  Abstract!File
  <1>1. /\ UNCHANGED serverVars
        /\ \/ dstate' = dstate
           \/ dstate # None /\ dstate' = [dstate EXCEPT !.saved = FALSE]
    BY DEF Commit
  <1>2. Acknowledged' = Acknowledged
    <2>1. dstate \in State \cup {None}
      BY DEF MirrorInv, TypeInv, VarsOK
    <2>2. CASE dstate' = dstate
      BY <2>2 DEF Acknowledged
    <2>3. CASE dstate # None /\ dstate' = [dstate EXCEPT !.saved = FALSE]
      <3>1. /\ dstate' \in State /\ dstate'.source = dstate.source
            /\ dstate'.backfill = dstate.backfill
        BY <2>1, <2>3 DEF State
      <3> QED
        BY <2>3, <3>1, CursorAssumption DEF Acknowledged
    <2> QED
      BY <1>1, <2>2, <2>3
  <1>3. /\ changed' = changed /\ Acknowledged \in Nat
        /\ \A m \in Msg : changed[m] \in Nat /\ ToFile(m)' = ToFile(m)
    BY <1>1, StatesAreNumbers DEF MirrorInv, TypeInv, ToFile, Expected, Alive, serverVars
  <1>4. ASSUME NEW m \in Msg, Filed(m)' # Filed(m) PROVE changed[m] > Acknowledged
    <2>1. CASE changed[m] = 0
      <3>1. ~Held(m) /\ ~Held(m)'
        BY <1>3, <2>1 DEF MirrorInv, ExactInv, UncreatedUnknown
      <3>2. FiledIn(head, m) = None
        BY <3>1, UnheldIsUnfiled DEF Held, Archive, GitStore, MirrorInv, FiledInv, TypeInv,
           VarsOK
      <3>3. FiledIn(head', m) = None
        <4>1. head' \in Tree /\ Consistent(head')
          BY DEF MirrorInv, FiledInv, TypeInv, VarsOK
        <4>2. ~\E b \in Box : head'[Eml(m, b)] = Raw /\ head'[Sidecar(m, b)] # None
          BY <3>1 DEF Held, Archive, GitStore
        <4> QED
          BY <4>1, <4>2, UnheldIsUnfiled
      <3> QED
        BY <1>4, <3>2, <3>3, FiledInHead
    <2>2. CASE 0 < changed[m] /\ changed[m] <= Acknowledged
      <3>1. Settled(m) /\ Settled(m)'
        BY <1>2, <1>3, <2>2 DEF Settled
      <3>2. Mirrored(m) /\ Mirrored(m)'
        BY <3>1 DEF MirrorInv, ExactInv, CursorSound
      <3>3. Filed(m) = ToFile(m) /\ Filed(m)' = ToFile(m)'
        BY <3>2, MirroredIsFiled, MirroredIsFiledNext DEF MirrorInv
      <3> QED
        BY <1>3, <1>4, <3>3
    <2> QED
      BY <1>3, <2>1, <2>2
  <1>5. \A m \in Msg : Filed(m)' \in Meta \cup {None}
    <2>1. head' \in Tree
      BY DEF MirrorInv, TypeInv, VarsOK
    <2> QED
      BY <2>1, FiledInHead, FiledType
  <1> QED
    BY <1>1, <1>2, <1>3, <1>4, <1>5 DEF Abstract!File, ToFile, serverVars

\* Saving the state acknowledges one that is not older, and only what is filed.
LEMMA SaveStateAcknowledges ==
    ASSUME GitStore, MirrorInv, MirrorInv', SaveState
    PROVE  \E v \in 0 .. version : Abstract!Acknowledge(v)
  <1>1. /\ UNCHANGED <<serverVars, head>> /\ dstate' = st /\ pc = "save state"
        /\ stage \in {"backfill", "sync", "reconcile", "past day", "final", "done"}
    <2>1. UNCHANGED <<serverVars, head>> /\ dstate' = st /\ pc = "save state"
      BY DEF SaveState
    <2> QED
      BY <2>1 DEF MirrorInv, TypeInv, VarsOK
  <1>2. st \in State /\ st.source \in Nat /\ target \in Nat /\ Acknowledged \in Nat
        /\ version \in Nat
    BY StatesAreNumbers DEF MirrorInv, TypeInv, VarsOK
  <1>3. Acknowledged' = IF st.backfill # None THEN 0 ELSE st.source
    BY <1>1, <1>2, CursorAssumption DEF Acknowledged
  <1>4. Acknowledged <= Acknowledged'
    <2>1. CASE stage = "backfill"
      <3>1. Acknowledged = 0
        BY <2>1 DEF MirrorInv, ReasonInv, CursorInv
      <3> QED
        BY <1>2, <1>3, <3>1
    <2>2. CASE stage # "backfill"
      <3>1. st.backfill = None /\ (Acknowledged \in {0, st.source} \/ Acknowledged <= st.source)
        BY <1>1, <2>2 DEF MirrorInv, ReasonInv, CursorInv
      <3> QED
        BY <1>2, <1>3, <3>1
    <2> QED
      BY <2>1, <2>2
  <1>5. Acknowledged' <= version
    <2>1. st.source <= version
      BY <1>1 DEF MirrorInv, ReasonInv, CursorInv, CursorOK
    <2> QED
      BY <1>2, <1>3, <2>1
  <1>6. \A m \in Msg : 0 < changed[m] /\ changed[m] <= Acknowledged' => Filed(m) = ToFile(m)
    <2>1. \A m \in Msg : /\ Settled(m)' <=> 0 < changed[m] /\ changed[m] <= Acknowledged'
                         /\ Filed(m)' = Filed(m) /\ ToFile(m)' = ToFile(m)
      BY <1>1, FiledInHead DEF Settled, ToFile, Expected, Alive, serverVars
    <2>2. \A m \in Msg : Settled(m)' => Mirrored(m)'
      BY DEF MirrorInv, ExactInv, CursorSound
    <2> QED
      BY <2>1, <2>2, MirroredIsFiledNext DEF MirrorInv
  <1>7. \A m \in Msg : Filed(m)' = Filed(m) /\ ToFile(m)' = ToFile(m)
    BY <1>1, FiledInHead DEF ToFile, Expected, Alive, serverVars
  <1>8. Abstract!Acknowledge(Acknowledged')
    BY <1>1, <1>4, <1>5, <1>6, <1>7 DEF Abstract!Acknowledge, ToFile, serverVars
  <1>9. Acknowledged' \in 0 .. version
    BY <1>2, <1>3, <1>5
  <1> QED
    BY <1>8, <1>9

\* Nothing else touches the account, HEAD or the saved state.
LEMMA OtherStepsAreQuiet ==
    ASSUME GitStore, NoKills, TypeInv, [Next]_vars, ~Account, ~Commit, ~SaveState
    PROVE  UNCHANGED <<serverVars, head, dstate>>
  <1> USE DEF serverVars, diskVars, queueVars, memVars, collectVars, faultVars
  <1>1. CASE \E k \in {"backup", "refresh"} : Begin(k)
    BY <1>1 DEF Begin
  <1>2. CASE Collect
    BY <1>2 DEF Collect, Enumerate, SkipAfterLostAnchor, EnumerationEnds, ChangesPage,
       StateTooOld, PlanSync, PlanReconcile
  <1>3. CASE Write
    BY <1>3 DEF Write, FinalizeDay, StartPastDay, BackfillComplete, StartFinal, ApplyAdded,
       ApplyUpdated, ApplyDeleted, Applied, ApplyEnds, SaveIndex
  <1>4. CASE Stop \/ Cancel
    BY <1>4 DEF Stop, FetchFails, BuildTreeFails, Interrupted, Restart, Cancel
  <1>5. ~Fail /\ ~Crash
    <2>1. ~(fails < MaxFails) /\ ~(crashes < MaxCrashes)
      <3>1. fails \in Nat /\ crashes \in Nat /\ MaxFails = 0 /\ MaxCrashes = 0
        BY DEF TypeInv, VarsOK, GitStore, NoKills
      <3> QED
        BY <3>1
    <2> QED
      BY <2>1 DEF Fail, Crash
  <1>6. CASE UNCHANGED vars
    BY <1>6 DEF vars
  <1> QED
    BY <1>1, <1>2, <1>3, <1>4, <1>5, <1>6 DEF Next, Engine

\* An empty store has filed nothing and acknowledges nothing.
LEMMA InitMirrors == GitStore /\ Init => Abstract!Init
  <1> SUFFICES ASSUME GitStore, Init PROVE Abstract!Init
    OBVIOUS
  <1>1. version = 1 /\ changed \in [Msg -> 0 .. version]
    BY DEF Init, ServerInit
  <1>2. \A m \in Msg : ToFile(m) \in Meta \cup {None}
    BY DEF Init, ServerInit, ToFile
  <1>3. \A m \in Msg : Filed(m) = None
    BY FiledInHead, FilesAreFiles DEF Init, EmptyTree, FiledIn
  <1>4. Acknowledged = 0
    BY DEF Init, Acknowledged
  <1> QED
    BY <1>1, <1>2, <1>3, <1>4 DEF Abstract!Init, ToFile

\* The engine and its store implement Mirror: whatever happens to the account
\* while passes run, are cancelled or give up, HEAD is touched for a message only
\* while it has a change that state.json does not acknowledge, and state.json
\* acknowledges a state only once HEAD holds every change up to it exactly
\* (apply_planned, checkpoint, save_state).
THEOREM MirrorsTheAccount ==
    GitStore /\ AnchorKept /\ WholeDays /\ NoKills /\ NamesDestroyed
        => (Spec => ImplementsMirror)
  <1> SUFFICES ASSUME GitStore, AnchorKept, WholeDays, NoKills, NamesDestroyed
               PROVE  Spec => ImplementsMirror
    OBVIOUS
  <1>1. Init => Abstract!Init
    BY InitMirrors
  <1>2. MirrorInv /\ MirrorInv' /\ [Next]_vars => [Abstract!Next]_(Abstract!vars)
    <2> SUFFICES ASSUME MirrorInv, MirrorInv', [Next]_vars
                 PROVE  Abstract!Next \/ UNCHANGED Abstract!vars
      OBVIOUS
    <2>1. CASE Account
      BY <2>1, AccountChangesOne DEF MirrorInv, ReasonInv, Abstract!Next
    <2>2. CASE Commit
      BY <2>2, CommitFilesNew DEF Abstract!Next
    <2>3. CASE SaveState
      BY <2>3, SaveStateAcknowledges DEF Abstract!Next
    <2>4. CASE ~Account /\ ~Commit /\ ~SaveState
      <3>1. UNCHANGED <<serverVars, head, dstate>>
        BY <2>4, OtherStepsAreQuiet DEF MirrorInv
      <3>2. Acknowledged' = Acknowledged
        BY <3>1 DEF Acknowledged
      <3> QED
        BY <3>1, <3>2, StutterOfMirror
    <2> QED
      BY <2>1, <2>2, <2>3, <2>4
  <1>3. Spec => []MirrorInv
    BY MirrorAlways
  <1> QED
    BY <1>1, <1>2, <1>3, PTL DEF Spec, ImplementsMirror, Abstract!Spec

=============================================================================
