------------------------------ MODULE MailboxTree ------------------------------
(***************************************************************************)
(* The mailbox tree of one account and its copy on disk: how a pass learns *)
(* of mailboxes that were created, renamed, moved and destroyed            *)
(* (engine/mod.rs, engine/sync.rs), how the store names, renames and       *)
(* removes their directories and refiles the mail in them (stores/dir.rs,  *)
(* stores/layout.rs), and how it finds its way back after an interruption. *)
(*                                                                         *)
(* The two files of a message, its .eml and its sidecar, are named by its  *)
(* id and written in one step here (MailStore has the steps between).      *)
(***************************************************************************)
EXTENDS Integers, Sequences, FiniteSets, SequencesExt, FiniteSetsExt

CONSTANTS
    Box, Msg,
    Name,       \* the names a mailbox may have
    Sanitized,  \* sanitize_segment, on those names
    Lower,      \* str::to_lowercase, on sanitized names
    Collation,  \* the byte order of sanitized names, as distinct numbers
    Position,   \* mailboxes in the order of sortOrder, then id
    Rank,       \* role_rank of each mailbox
    Starts,     \* what the account may hold at first, and the setting: the policy's
                \* filter (a set of name paths, or None for all mail), a git store or
                \* a plain one
    None,
    MaxVersion, MaxStops  \* bounds

ASSUME LayoutAssumption ==
    /\ Sanitized \in [Name -> DOMAIN Lower] /\ Collation \in [DOMAIN Lower -> Int]
    /\ "_unfiled" \in DOMAIN Lower /\ Lower["_unfiled"] = "_unfiled"
    /\ \A s, t \in DOMAIN Collation : Collation[s] = Collation[t] => s = t
ASSUME BoxAssumption ==
    /\ None \notin Box /\ IsFiniteSet(Box)
    /\ Position \in [Box -> Nat] /\ Rank \in [Box -> 0 .. 7]
    /\ \A b, c \in Box : Position[b] = Position[c] => b = c
ASSUME TreeBounds == MaxVersion \in Nat \ {0} /\ MaxStops \in Nat

\* A path is a sequence of segments: a sanitized name and, after a collision, the
\* mailbox whose id is hashed into its suffix.
Segment == (DOMAIN Lower) \X (Box \cup {None})
Path == Seq(Segment)
Info == [name : Name, parent : Box \cup {None}]
BoxEntry == [info : Info, dir : Path]
MailEntry == [in : SUBSET Box, dir : Path]
Index == [box : [Box -> BoxEntry \cup {None}], mail : [Msg -> MailEntry \cup {None}]]
CardFile == [at : Path, box : Box, info : Info]
EmlFile == Path \X Msg
SideFile == [at : Path, msg : Msg, in : SUBSET Box]
Tree == [card : SUBSET CardFile, eml : SUBSET EmlFile, side : SUBSET SideFile]
Saved == [index : Index, cursor : 0 .. MaxVersion, start : 0 .. MaxVersion,
          head : Tree \cup {None}]
ASSUME NoneAssumption == None \notin Info \cup BoxEntry \cup MailEntry \cup Tree \cup Saved

KnownIn(t) == {b \in Box : t[b] # None}

\* Mailboxes as a tree: no mailbox is above itself.
IsForest(t) ==
    /\ \A b \in KnownIn(t) : t[b].parent \in KnownIn(t) \cup {None}
    /\ \A S \in SUBSET KnownIn(t) : S # {} => \E b \in S : t[b].parent \notin S
ASSUME StartsAssumption ==
    \A s \in Starts : /\ s.boxes \in [Box -> Info \cup {None}] /\ IsForest(s.boxes)
                      /\ s.mail \in [Msg -> SUBSET KnownIn(s.boxes)]
                      /\ s.git \in BOOLEAN

VARIABLES
    \* The account: mailboxes and the ids they used up, each message's
    \* mailboxes ({} when it is gone) and the version that last touched it.
    boxes, retired, mail, touched, version,
    \* The setting; and, of what has gone on, whether it is all that the
    \* properties speak of.
    filter, git, calm,
    \* Durable: the worktree, HEAD's tree, what the last save wrote.
    disk, head, saved,
    \* The process: StoreIndex, and the last path edit of each file.
    ix, edits,
    \* The pass: where it is, the changed messages, list_mailboxes, the
    \* mailboxes still to write or to remove, those to remove in all,
    \* PlannedChanges, the version to save; how the last pass ended.
    pc, stage, delta, listed, todo, gone, plan, target, done,
    \* Interruptions so far; whether one came since the last save of a pass.
    stops, wrecked

server == <<boxes, retired, mail, touched, version>>
account == <<boxes, retired, mail, touched, version, filter, git, calm>>
durable == <<disk, head, saved>>
process == <<ix, edits>>
faults == <<stops, wrecked>>
pass == <<stage, delta, listed, gone, plan, target, done>>
vars == <<account, durable, process, pc, todo, pass, faults>>

-----------------------------------------------------------------------------
(* Paths (layout.rs).                                                       *)

Fold(s) == <<Lower[s[1]], s[2]>>
Unfiled == << <<"_unfiled", None>> >>

Above(p, q) == Len(p) < Len(q) /\ IsPrefix(p, q)
\* rebase_dir_paths, for one path.
Rebased(q, from, to) ==
    IF q = from \/ Above(from, q) THEN to \o SubSeq(q, Len(from) + 1, Len(q)) ELSE q

SegmentLess(s, t) ==
    \/ Collation[s[1]] < Collation[t[1]]
    \/ s[1] = t[1] /\ t[2] # None /\ (s[2] = None \/ Position[s[2]] < Position[t[2]])
PathLess(p, q) ==
    \E i \in 1 .. Len(q) :
       /\ i <= Len(p) + 1 /\ SubSeq(p, 1, i - 1) = SubSeq(q, 1, i - 1)
       /\ i = Len(p) + 1 \/ SegmentLess(p[i], q[i])

\* A mailbox and those above it, in a tree of mailboxes.
Line(tree, b) ==
    LET closed(S) == \A c \in S : tree[c].parent \in KnownIn(tree) => tree[c].parent \in S
    IN  {c \in Box : \A S \in SUBSET KnownIn(tree) : b \in S /\ closed(S) => c \in S}

\* name_path, over the boxes of an index or of the account.
NamePath(info, b) ==
    LET line == Line(info, b) IN
    [i \in 1 .. Cardinality(line) |->
       info[CHOOSE c \in line : Cardinality(Line(info, c)) = i].name]
InfoOf(index) == [b \in Box |-> IF index.box[b] = None THEN None ELSE index.box[b].info]
\* policy.filter, a test of message.mailboxes.
Matches(info, in) ==
    filter = None \/ \E b \in in \cap KnownIn(info) : NamePath(info, b) \in filter

\* primary_mailbox, and the directory a message with these mailboxes goes to.
Outranks(index, b, c) ==
    LET p == index.box[b].dir  q == index.box[c].dir IN
    \/ Rank[b] < Rank[c]
    \/ Rank[b] = Rank[c] /\ (PathLess(p, q) \/ (p = q /\ Position[b] < Position[c]))
DirFor(index, in) ==
    LET known == in \cap KnownIn(index.box) IN
    IF known = {} THEN Unfiled
    ELSE index.box[CHOOSE b \in known : \A c \in known \ {b} : Outranks(index, b, c)].dir

-----------------------------------------------------------------------------
(* The worktree, the index and the tree of a commit.                        *)

Card(p) == <<"card", p>>
Eml(p, m) == <<"eml", p, m>>
Sidecar(p, m) == <<"sidecar", p, m>>
Mail(p, m) == {Eml(p, m), Sidecar(p, m)}

EmptyTree == [card |-> {}, eml |-> {}, side |-> {}]
EmptyDisk == [dirs |-> {}, card |-> {}, eml |-> {}, side |-> {}]
EmptyIndex == [box |-> [b \in Box |-> None], mail |-> [m \in Msg |-> None]]
NoEdits == [up |-> {}, rm |-> {}]
NoPlan == [add |-> {}, update |-> {}, delete |-> {}, in |-> [m \in Msg |-> {}],
           uncommitted |-> FALSE]
NoDelta == [changed |-> {}, destroyed |-> {}]

Upserting(e, fs) == [up |-> e.up \cup fs, rm |-> e.rm \ fs]
Removing(e, fs) == [up |-> e.up \ fs, rm |-> e.rm \cup fs]

CardAt(d, p) == {c \in d.card : c.at = p}
SideAt(d, p, m) == {f \in d.side : f.at = p /\ f.msg = m}
HasEml(d, p, m) == <<p, m>> \in d.eml
Ancestors(p) == {SubSeq(p, 1, i) : i \in 1 .. Len(p)}

PutCard(d, p, b, info) ==
    [d EXCEPT !.dirs = @ \cup Ancestors(p),
              !.card = (@ \ CardAt(d, p)) \cup {[at |-> p, box |-> b, info |-> info]}]
PutSide(d, p, m, in) ==
    [d EXCEPT !.dirs = @ \cup Ancestors(p),
              !.side = (@ \ SideAt(d, p, m)) \cup {[at |-> p, msg |-> m, in |-> in]}]
PutMail(d, p, m, in) == [PutSide(d, p, m, in) EXCEPT !.eml = @ \cup {<<p, m>>}]
DropMail(d, p, m) == [d EXCEPT !.eml = @ \ {<<p, m>>}, !.side = @ \ SideAt(d, p, m)]

Occupied(d, p) ==
    \/ \E q \in d.dirs : Above(p, q)
    \/ \E f \in d.card \cup d.side : f.at = p
    \/ \E f \in d.eml : f[1] = p

FilesOf(d) == {Card(c.at) : c \in d.card} \cup {Eml(f[1], f[2]) : f \in d.eml}
              \cup {Sidecar(f.at, f.msg) : f \in d.side}

\* build_tree: the last edit of each path, over HEAD's tree.
Buildable == edits.up \subseteq FilesOf(disk)
BuiltTree ==
    LET kept(f) == f \notin edits.up \cup edits.rm
        new(f) == f \in edits.up
    IN  [card |-> {c \in head.card : kept(Card(c.at))} \cup {c \in disk.card : new(Card(c.at))},
         eml  |-> {f \in head.eml : kept(Eml(f[1], f[2]))} \cup
                  {f \in disk.eml : new(Eml(f[1], f[2]))},
         side |-> {f \in head.side : kept(Sidecar(f.at, f.msg))} \cup
                  {f \in disk.side : new(Sidecar(f.at, f.msg))}]

\* rebuild_from_dir, rebuild_index_from_head: of two cards of one mailbox, or
\* two sidecars of one message, the one visited last.
Rebuilt(t) ==
    LET cards(b) == {c \in t.card : c.box = b}
        copies(m) == {f \in t.side : f.msg = m}
        last == {s \in SUBSET (t.card \cup t.side) :
                   /\ \A b \in Box : Cardinality(s \cap cards(b)) = Min({1, Cardinality(cards(b))})
                   /\ \A m \in Msg : Cardinality(s \cap copies(m)) = Min({1, Cardinality(copies(m))})}
    IN  {[box |-> [b \in Box |-> IF cards(b) = {} THEN None
                     ELSE LET c == CHOOSE c \in s : c \in cards(b)
                          IN  [info |-> c.info, dir |-> c.at]],
          mail |-> [m \in Msg |-> IF copies(m) = {} THEN None
                     ELSE LET f == CHOOSE f \in s : f \in copies(m)
                          IN  [in |-> f.in, dir |-> f.at]]] : s \in last}

-----------------------------------------------------------------------------
(* The account (external): a tree of mailboxes whose siblings have distinct *)
(* names, and messages that are always in at least one of them.  Excepted   *)
(* are changes that come after a pass was cut short, and before the next    *)
(* has ended well: of mailboxes, and of mail which that pass has added.     *)

Exists(b) == boxes[b] # None

NameFree(b, name, parent) ==
    \A c \in Box \ {b} : ~(Exists(c) /\ boxes[c] = [name |-> name, parent |-> parent])

ServerStep ==
    /\ version < MaxVersion
    /\ version' = version + 1
    /\ UNCHANGED <<filter, git, durable, process, pc, todo, pass, faults>>

ServerBoxes ==
    ServerStep /\ UNCHANGED retired /\ calm' = (calm /\ ~wrecked)

CreateBox(b, name, parent) ==
    /\ ServerBoxes
    /\ ~Exists(b) /\ b \notin retired /\ NameFree(b, name, parent)
    /\ parent # None => Exists(parent)
    /\ boxes' = [boxes EXCEPT ![b] = [name |-> name, parent |-> parent]]
    /\ UNCHANGED <<mail, touched>>

RelocateBox(b, name, parent) ==
    /\ ServerBoxes
    /\ Exists(b) /\ boxes[b] # [name |-> name, parent |-> parent]
    /\ NameFree(b, name, parent)
    /\ parent # None => Exists(parent) /\ b \notin Line(boxes, parent)
    /\ boxes' = [boxes EXCEPT ![b] = [name |-> name, parent |-> parent]]
    /\ UNCHANGED <<mail, touched>>

\* onDestroyRemoveEmails: mail that is in no other mailbox goes too.
DestroyBox(b) ==
    /\ ServerStep
    /\ Exists(b) /\ \A c \in Box : Exists(c) => boxes[c].parent # b
    /\ boxes' = [boxes EXCEPT ![b] = None]
    /\ retired' = retired \cup {b}
    /\ mail' = [m \in Msg |-> mail[m] \ {b}]
    /\ touched' = [m \in Msg |-> IF b \in mail[m] THEN version + 1 ELSE touched[m]]
    /\ calm' = (calm /\ ~wrecked)

\* Mail on disk that was added since the last save.
Unsaved(m) ==
    /\ \E f \in disk.eml : f[2] = m
    /\ saved = None \/ saved.index.mail[m] = None

\* A message arrives, is moved or labelled, or is destroyed.
FileMessage(m, in) ==
    /\ ServerStep /\ calm' = (calm /\ ~(wrecked /\ Unsaved(m)))
    /\ in # mail[m] /\ \A b \in in : Exists(b)
    /\ mail[m] = {} => touched[m] = 0
    /\ mail' = [mail EXCEPT ![m] = in]
    /\ touched' = [touched EXCEPT ![m] = version + 1]
    /\ UNCHANGED <<boxes, retired>>

-----------------------------------------------------------------------------
(* A pass: run_backup, run_refresh.                                         *)

Cursor == IF saved = None THEN 0 ELSE saved.cursor

OpenIndex ==
    IF saved # None /\ (git => saved.head = head) THEN {saved.index}
    ELSE Rebuilt(IF git THEN head ELSE disk)

\* A catch-up that goes on from its backfill has the store open, with what was
\* not committed; any other pass opens it.
IndexAtHand ==
    OpenIndex \cup
    (IF saved # None /\ done = "backfill" /\ edits # NoEdits THEN {saved.index} ELSE {})

\* The catch-up asks for changes (Mailbox/changes reports the mailboxes whose
\* counts changed, so any change of mail comes with a new mailbox list); the
\* backfill (unless it goes on from a committed day) and the reconciliation, of a
\* scheduled refresh or in the place of a catch-up, only take note of the present
\* version.  Excepted is a reconciliation while mail waits where mail without a
\* mailbox goes: only a catch-up refiles mail that was moved into a mailbox made
\* since the list was read.
Waiting == \E m \in Msg : saved.index.mail[m] # None /\ saved.index.mail[m].dir = Unfiled
Begin(kind) ==
    LET how == IF Cursor = 0 THEN "backfill" ELSE kind
        changed == {m \in Msg : touched[m] > Cursor} IN
    /\ pc = "idle"
    /\ kind = "refresh" => Cursor # 0
    /\ calm' = (calm /\ (kind = "refresh" => ~Waiting))
    /\ stage' = how
    /\ target' = IF how = "backfill" /\ saved # None THEN saved.start ELSE version
    /\ \E index \in IndexAtHand : ix' = index
    /\ delta' = IF how = "sync"
                THEN [changed   |-> {m \in changed : mail[m] # {}},
                      destroyed |-> {m \in changed : mail[m] = {}}]
                ELSE NoDelta
    /\ pc' = IF how = "sync" /\ version = Cursor THEN "plan" ELSE "list"
    /\ done' = "none"
    /\ UNCHANGED <<server, filter, git, durable, edits, todo, listed, gone, plan, faults>>

\* (mutant: a mailbox that moved under another keeps its place.)
ListMailboxesByName ==
    /\ pc = "list"
    /\ listed' = boxes
    /\ todo' = {b \in KnownIn(boxes) : InfoOf(ix)[b] = None \/ InfoOf(ix)[b].name # boxes[b].name}
    /\ gone' = IF stage = "backfill" THEN {} ELSE KnownIn(ix.box) \ KnownIn(boxes)
    /\ pc' = IF stage = "sync" THEN "plan" ELSE "upsert"
    /\ UNCHANGED <<account, durable, process, stage, delta, plan, target, done, faults>>

\* mailbox_events, for topological_order's list.  A backfill removes nothing.
ListMailboxes ==
    /\ pc = "list"
    /\ listed' = boxes
    /\ todo' = {b \in KnownIn(boxes) : InfoOf(ix)[b] # boxes[b]}
    /\ gone' = IF stage = "backfill" THEN {} ELSE KnownIn(ix.box) \ KnownIn(boxes)
    /\ pc' = IF stage = "sync" THEN "plan" ELSE "upsert"
    /\ UNCHANGED <<account, durable, process, stage, delta, plan, target, done, faults>>

\* (mutant: the plan of a pass outlives it.)
ForgetAllButPlan ==
    /\ pc' = "idle" /\ stage' = "none" /\ ix' = EmptyIndex
    /\ delta' = NoDelta /\ listed' = [b \in Box |-> None] /\ todo' = {}
    /\ gone' = {} /\ plan' = plan /\ target' = 0
Forget ==
    /\ pc' = "idle" /\ stage' = "none" /\ ix' = EmptyIndex
    /\ delta' = NoDelta /\ listed' = [b \in Box |-> None] /\ todo' = {}
    /\ gone' = {} /\ plan' = NoPlan /\ target' = 0

Known(m) == ix.mail[m] # None

\* plan_message_changes.  The filter sees the index of this moment: before the
\* new mailboxes are in it.
PlanSync ==
    LET there == {m \in delta.changed : mail[m] # {}}
        wanted == {m \in there : Matches(InfoOf(ix), mail[m])}
        planned == [add |-> {m \in wanted : ~Known(m)},
                    update |-> {m \in wanted : Known(m)},
                    delete |-> delta.destroyed \cup {m \in there \ wanted : Known(m)},
                    in |-> mail, uncommitted |-> FALSE]
    IN  /\ pc = "plan" /\ stage = "sync"
        /\ IF /\ planned.add \cup planned.update \cup planned.delete = {}
              /\ todo \cup gone = {} /\ target = Cursor
           THEN Forget /\ done' = "sync"
           ELSE /\ plan' = planned /\ pc' = "upsert"
                /\ UNCHANGED <<ix, todo, stage, delta, listed, gone, target, done>>
        /\ UNCHANGED <<account, durable, edits, faults>>

\* reconcile compares everything there is with everything held; a backfill
\* only fetches what is not held.  Excepted is a backfill of a git store that meets
\* no mail: nothing is committed then, and the next process knows nothing of the
\* directories it made.
PlanAll ==
    LET there == {m \in Msg : mail[m] # {}}
        wanted == {m \in there : Matches(InfoOf(ix), mail[m])}
        full == stage = "refresh"
    IN  /\ pc = "plan" /\ stage # "sync"
        /\ calm' = (calm /\ ~(git /\ stage = "backfill" /\ there = {}))
        /\ plan' = [add |-> {m \in wanted : ~Known(m)},
                    update |-> {m \in wanted : full /\ Known(m) /\ ix.mail[m].in # mail[m]},
                    delete |-> {m \in Msg \ wanted : full /\ Known(m)},
                    in |-> mail, uncommitted |-> FALSE]
        /\ pc' = "mail"
        /\ UNCHANGED <<server, filter, git, durable, process, todo, stage, delta,
                       listed, gone, target, done, faults>>

-----------------------------------------------------------------------------
(* apply_mailbox_upserted.                                                  *)

\* topological_order: rounds over the sorted list, a mailbox once its parent
\* is placed; it waits a round wherever its line goes back in the list.
Waits(b) ==
    Cardinality({c \in Line(listed, b) : /\ listed[c].parent \in KnownIn(listed)
                                        /\ Position[listed[c].parent] > Position[c]})
Before(b, c) ==
    \/ Waits(b) < Waits(c)
    \/ Waits(b) = Waits(c) /\ Position[b] < Position[c]
Turn(b) == b \in todo /\ \A c \in todo \ {b} : Before(b, c)

ParentDir(info) ==
    IF info.parent = None \/ ix.box[info.parent] = None THEN <<>>
    ELSE ix.box[info.parent].dir

\* (mutant: nothing keeps the name of the directory of unfiled mail.)
TakenBySiblings(b, prefix) ==
    {Fold(Last(ix.box[c].dir)) : c \in {c \in KnownIn(ix.box) \ {b} :
                                          Front(ix.box[c].dir) = prefix}}
\* sibling_dir_names.
Taken(b, prefix) ==
    {Fold(Last(ix.box[c].dir)) : c \in {c \in KnownIn(ix.box) \ {b} :
                                          Front(ix.box[c].dir) = prefix}}
    \cup (IF prefix = <<>> THEN {Fold(Unfiled[1])} ELSE {})

\* assign_dir_name.
Assigned(b, name, taken) ==
    LET plain == <<Sanitized[name], None>> IN
    IF Fold(plain) \in taken THEN <<Sanitized[name], b>> ELSE plain

\* The directory of a mailbox that is new to the store: not one that another
\* mailbox has left a card in.
NewDir(b) ==
    LET prefix == ParentDir(listed[b])
        dir(taken) == Append(prefix, Assigned(b, listed[b].name, taken))
        first == dir(Taken(b, prefix))
    IN  IF \E c \in CardAt(disk, first) : c.box # b
        THEN dir(Taken(b, prefix) \cup {Fold(Last(first))}) ELSE first

MovedDir(b) ==
    LET prefix == ParentDir(listed[b]) IN
    Append(prefix, Assigned(b, listed[b].name, Taken(b, prefix)))
Moves(b) == ix.box[b] # None /\ MovedDir(b) # ix.box[b].dir

\* fs::rename needs an empty or absent target outside the source.  Without the
\* source, the rename is taken to be done already, or starts from scratch.
\* (mutant: a rename that an interrupted pass has done is an error.)
RenamesOnce(from, to) == from \in disk.dirs /\ ~Occupied(disk, to) /\ ~Above(from, to)
Renames(from, to) ==
    \/ from \notin disk.dirs
    \/ ~Occupied(disk, to) /\ ~Above(from, to)
DirRenamed(d, from, to) ==
    LET move(f) == [f EXCEPT !.at = Rebased(f.at, from, to)] IN
    IF from \in d.dirs
    THEN [dirs |-> {Rebased(p, from, to) : p \in d.dirs} \cup Ancestors(to),
          card |-> {move(c) : c \in d.card}, side |-> {move(f) : f \in d.side},
          eml  |-> {<<Rebased(f[1], from, to), f[2]>> : f \in d.eml}]
    ELSE [d EXCEPT !.dirs = @ \cup Ancestors(to)]
\* (mutant: what is further down the tree is not rebased.)
IndexRebasedShallow(from, to) ==
    LET moved(e) == IF e # None /\ e.dir = from THEN [e EXCEPT !.dir = to] ELSE e IN
    [box |-> [b \in Box |-> moved(ix.box[b])], mail |-> [m \in Msg |-> moved(ix.mail[m])]]
IndexRebased(from, to) ==
    LET moved(e) == IF e = None THEN None ELSE [e EXCEPT !.dir = Rebased(@, from, to)] IN
    [box |-> [b \in Box |-> moved(ix.box[b])], mail |-> [m \in Msg |-> moved(ix.mail[m])]]
\* The edits of every indexed file under the directory.
FilesUnder(index, dir) ==
    LET under(p) == p = dir \/ Above(dir, p) IN
    {Card(index.box[b].dir) : b \in {b \in KnownIn(index.box) : under(index.box[b].dir)}} \cup
    UNION {Mail(index.mail[m].dir, m) :
             m \in {m \in Msg : index.mail[m] # None /\ under(index.mail[m].dir)}}
\* (mutant: the old paths are not removed from the tree.)
RenameUpserts(from, to) ==
    Upserting(edits, FilesUnder(IndexRebased(from, to), to))
RenameEdits(from, to) ==
    Upserting(Removing(edits, FilesUnder(ix, from)), FilesUnder(IndexRebased(from, to), to))

RenameDir(b) ==
    LET from == ix.box[b].dir  to == MovedDir(b) IN
    /\ pc = "upsert" /\ Turn(b) /\ Moves(b) /\ Renames(from, to)
    /\ disk' = DirRenamed(disk, from, to)
    /\ edits' = RenameEdits(from, to)
    /\ ix' = IndexRebased(from, to)
    /\ pc' = "card"
    /\ UNCHANGED <<account, head, saved, todo, pass, faults>>

\* The pass fails; what it did to the worktree and the edits it recorded stay.
FailPass == Forget /\ done' = "failed" /\ wrecked' = TRUE

RenameFails(b) ==
    /\ pc = "upsert" /\ Turn(b) /\ Moves(b) /\ ~Renames(ix.box[b].dir, MovedDir(b))
    /\ disk' = [disk EXCEPT !.dirs = @ \cup Ancestors(Front(MovedDir(b)))]
    /\ FailPass
    /\ UNCHANGED <<account, head, saved, edits, stops>>

MakeDir(b) ==
    /\ pc = "upsert" /\ Turn(b) /\ ix.box[b] = None
    /\ disk' = [disk EXCEPT !.dirs = @ \cup Ancestors(NewDir(b))]
    /\ pc' = "card"
    /\ UNCHANGED <<account, head, saved, process, todo, pass, faults>>

WriteCard(b) ==
    LET dir == IF ix.box[b] = None THEN NewDir(b) ELSE ix.box[b].dir IN
    /\ pc \in {"upsert", "card"} /\ Turn(b)
    /\ pc = "upsert" => ix.box[b] # None /\ ~Moves(b)
    /\ disk' = PutCard(disk, dir, b, listed[b])
    /\ edits' = Upserting(edits, {Card(dir)})
    /\ ix' = [ix EXCEPT !.box[b] = [info |-> listed[b], dir |-> dir]]
    /\ todo' = todo \ {b}
    /\ pc' = "upsert"
    /\ UNCHANGED <<account, head, saved, pass, faults>>

UpsertsDone ==
    /\ pc = "upsert" /\ todo = {}
    /\ pc' = IF stage = "sync" THEN "mail" ELSE "plan"
    /\ UNCHANGED <<account, durable, process, todo, pass, faults>>

-----------------------------------------------------------------------------
(* The mail: additions, updates and deletions, in that order.               *)

AddMail(m) ==
    LET dir == DirFor(ix, plan.in[m]) IN
    /\ pc = "mail" /\ m \in plan.add
    /\ disk' = PutMail(disk, dir, m, plan.in[m])
    /\ edits' = Upserting(edits, Mail(dir, m))
    /\ ix' = [ix EXCEPT !.mail[m] = [in |-> plan.in[m], dir |-> dir]]
    /\ plan' = [plan EXCEPT !.add = @ \ {m}, !.uncommitted = TRUE]
    /\ UNCHANGED <<account, head, saved, pc, stage, delta, listed, todo, gone,
                   target, done, faults>>

\* Mail of a day gone by is committed with that day, under the old cursor.
CommitDay ==
    /\ pc = "mail" /\ plan.uncommitted
    /\ git => Buildable
    /\ head' = IF git THEN BuiltTree ELSE head
    /\ saved' = [index |-> ix, cursor |-> Cursor, start |-> target, head |-> head']
    /\ edits' = NoEdits
    /\ plan' = [plan EXCEPT !.uncommitted = FALSE]
    /\ UNCHANGED <<account, disk, ix, pc, stage, delta, listed, todo, gone, target,
                   done, faults>>

\* (mutant: the .eml is left where it was.)
UpdateMailSidecar(m) ==
    LET to == DirFor(ix, plan.in[m]) IN
    /\ pc = "mail" /\ plan.add = {} /\ m \in plan.update
    /\ disk' = PutSide(disk, to, m, plan.in[m])
    /\ edits' = Upserting(edits, {Sidecar(to, m)})
    /\ ix' = [ix EXCEPT !.mail[m] = [in |-> plan.in[m], dir |-> to]]
    /\ plan' = [plan EXCEPT !.update = @ \ {m}]
    /\ UNCHANGED <<account, head, saved, pc, stage, delta, listed, todo, gone,
                   target, done, faults>>

\* apply_message_updated: the files move to the directory the index now
\* implies, unless they are there already or nowhere to be found.  A sidecar
\* that stays and that an interrupted pass has written already is no edit.
UpdateMail(m) ==
    LET from == ix.mail[m].dir
        to == DirFor(ix, plan.in[m])
        moves == HasEml(disk, from, m)
        side == [at |-> to, msg |-> m, in |-> plan.in[m]]
    IN  /\ pc = "mail" /\ plan.add = {} /\ m \in plan.update
        /\ IF to # from /\ ~moves /\ ~HasEml(disk, to, m) THEN UNCHANGED <<disk, edits, ix>>
           ELSE /\ disk' = IF to # from /\ moves
                           THEN PutMail(DropMail(disk, from, m), to, m, plan.in[m])
                           ELSE PutSide(disk, to, m, plan.in[m])
                /\ edits' = CASE to # from -> Upserting(Removing(edits, Mail(from, m)), Mail(to, m))
                              [] to = from /\ side \notin disk.side -> Upserting(edits, {Sidecar(to, m)})
                              [] OTHER -> edits
                /\ ix' = [ix EXCEPT !.mail[m] = [in |-> plan.in[m], dir |-> to]]
        /\ plan' = [plan EXCEPT !.update = @ \ {m}]
        /\ UNCHANGED <<account, head, saved, pc, stage, delta, listed, todo, gone,
                       target, done, faults>>

DeleteMail(m) ==
    /\ pc = "mail" /\ plan.add \cup plan.update = {} /\ m \in plan.delete
    /\ IF Known(m)
       THEN /\ disk' = DropMail(disk, ix.mail[m].dir, m)
            /\ edits' = Removing(edits, Mail(ix.mail[m].dir, m))
            /\ ix' = [ix EXCEPT !.mail[m] = None]
       ELSE UNCHANGED <<disk, edits, ix>>
    /\ plan' = [plan EXCEPT !.delete = @ \ {m}]
    /\ UNCHANGED <<account, head, saved, pc, stage, delta, listed, todo, gone, target,
                   done, faults>>

\* A backfill that met no mail at all has no day to commit.
NoDays == stage = "backfill" /\ \A m \in Msg : plan.in[m] = {}

MailDone ==
    /\ pc = "mail" /\ plan.add \cup plan.update \cup plan.delete = {}
    /\ todo' = gone
    /\ pc' = "prune"
    /\ UNCHANGED <<account, durable, process, pass, faults>>

-----------------------------------------------------------------------------
(* apply_mailbox_deleted, in the order of a hash map.                       *)

\* (mutant: a mailbox counts among its own contents.)
HasContentsOrCard(dir) ==
    \/ \E m \in Msg : ix.mail[m] # None /\ (ix.mail[m].dir = dir \/ Above(dir, ix.mail[m].dir))
    \/ \E c \in KnownIn(ix.box) : IsPrefix(dir, ix.box[c].dir)
HasContents(dir) ==
    \/ \E m \in Msg : ix.mail[m] # None /\ (ix.mail[m].dir = dir \/ Above(dir, ix.mail[m].dir))
    \/ \E c \in KnownIn(ix.box) : Above(dir, ix.box[c].dir)

Prune(b) ==
    LET dir == ix.box[b].dir
        bare == [disk EXCEPT !.card = @ \ CardAt(disk, dir)] IN
    /\ pc = "prune" /\ b \in todo
    /\ IF HasContents(dir) THEN UNCHANGED <<disk, edits, ix>>
       ELSE /\ disk' = IF Occupied(bare, dir) THEN bare
                       ELSE [bare EXCEPT !.dirs = @ \ {dir}]
            /\ edits' = Removing(edits, {Card(dir)})
            /\ ix' = [ix EXCEPT !.box[b] = None]
    /\ todo' = todo \ {b}
    /\ UNCHANGED <<account, head, saved, pc, pass, faults>>

PruneDone ==
    /\ pc = "prune" /\ todo = {}
    /\ pc' = IF git /\ ~NoDays THEN "commit" ELSE "save"
    /\ UNCHANGED <<account, durable, process, todo, pass, faults>>

-----------------------------------------------------------------------------
(* The concluding checkpoint.                                               *)

Commit ==
    /\ pc = "commit" /\ Buildable
    /\ head' = BuiltTree
    /\ edits' = NoEdits
    /\ pc' = "save"
    /\ UNCHANGED <<account, disk, saved, ix, todo, pass, faults>>

\* build_tree has drained the edits when it finds a file missing.
CommitFails ==
    /\ pc \in {"commit", "mail"} /\ git
    /\ pc = "mail" => plan.uncommitted
    /\ ~Buildable
    /\ edits' = NoEdits
    /\ FailPass
    /\ UNCHANGED <<account, durable, stops>>

\* Where no commit was made the edits still wait, until the process ends.
Save ==
    /\ pc = "save"
    /\ saved' = [index |-> ix, cursor |-> target, start |-> target,
                 head |-> IF git /\ NoDays THEN (IF saved = None THEN None ELSE saved.head)
                          ELSE head]
    /\ edits' \in {NoEdits} \cup (IF git /\ NoDays THEN {edits} ELSE {})
    /\ done' = stage /\ wrecked' = FALSE
    /\ Forget
    /\ UNCHANGED <<account, disk, head, stops>>

\* An error, a cancellation or a kill, at any step.  After an error the process
\* lives on with its edits: excepted, as a later pass then commits files which
\* its index, read again from HEAD, does not know.  Excepted, too, is a pass that is
\* cut short while it is at odds with the account, while a mailbox is on its way to a
\* name another mailbox still has in the store, or once it has changed mail that was
\* held, or added mail that has changed since.
Entangled ==
    \E b, c \in Box :
       /\ b # c /\ listed[b] # None /\ saved # None /\ saved.index.box[c] # None
       /\ InfoOf(saved.index)[b] # listed[b]
       /\ Lower[Sanitized[listed[b].name]] = Lower[Sanitized[saved.index.box[c].info.name]]

HomeOf(index, m) == {b \in KnownIn(index.box) : index.box[b].dir = index.mail[m].dir}
Updated ==
    \E m \in Msg :
       /\ saved # None /\ saved.index.mail[m] # None
       /\ Known(m) => \/ ix.mail[m].in # saved.index.mail[m].in
                      \/ HomeOf(ix, m) # HomeOf(saved.index, m)

Overtaken == \E m \in Msg : Unsaved(m) /\ Known(m) /\ ix.mail[m].in # mail[m]

Repeatable ==
    pc = "list" \/ (listed = boxes /\ ~(Entangled \/ Updated \/ Overtaken))

Interrupt ==
    /\ pc # "idle" /\ stops < MaxStops
    /\ stops' = stops + 1
    /\ edits' \in {edits, NoEdits}
    /\ calm' = (calm /\ Repeatable /\ edits' = NoEdits)
    /\ FailPass
    /\ UNCHANGED <<server, filter, git, durable>>

-----------------------------------------------------------------------------
Init ==
    /\ \E s \in Starts :
         /\ boxes = s.boxes /\ mail = s.mail /\ filter = s.filter
         /\ git = s.git
    /\ calm = TRUE /\ version = 1 /\ retired = {}
    /\ touched = [m \in Msg |-> IF mail[m] = {} THEN 0 ELSE 1]
    /\ disk = EmptyDisk /\ head = EmptyTree /\ saved = None
    /\ ix = EmptyIndex /\ edits = NoEdits
    /\ pc = "idle" /\ stage = "none" /\ delta = NoDelta
    /\ listed = [b \in Box |-> None] /\ todo = {} /\ gone = {}
    /\ plan = NoPlan /\ target = 0 /\ done = "none"
    /\ stops = 0 /\ wrecked = FALSE

Account ==
    \/ \E b \in Box, name \in Name, parent \in Box \cup {None} :
          CreateBox(b, name, parent) \/ RelocateBox(b, name, parent)
    \/ \E b \in Box : DestroyBox(b)
    \/ \E m \in Msg, in \in SUBSET Box : FileMessage(m, in)

Pass ==
    \/ \E kind \in {"sync", "refresh"} : Begin(kind)
    \/ ListMailboxes \/ PlanSync \/ PlanAll \/ UpsertsDone
    \/ \E b \in Box : RenameDir(b) \/ RenameFails(b) \/ MakeDir(b) \/ WriteCard(b)
    \/ \E m \in Msg : AddMail(m) \/ UpdateMail(m) \/ DeleteMail(m)
    \/ CommitDay \/ MailDone \/ (\E b \in Box : Prune(b)) \/ PruneDone
    \/ Commit \/ CommitFails \/ Save

Next == Account \/ Pass \/ Interrupt

Spec == Init /\ [][Next]_vars

-----------------------------------------------------------------------------
(* Properties.                                                              *)

\* Every variable has its type; the queues are empty between passes.
TypeOK ==
    LET file == ({"card"} \X Path) \cup ({"eml", "sidecar"} \X Path \X Msg) IN
    /\ boxes \in [Box -> Info \cup {None}] /\ listed \in [Box -> Info \cup {None}]
    /\ retired \subseteq Box /\ mail \in [Msg -> SUBSET Box]
    /\ version \in 1 .. MaxVersion /\ touched \in [Msg -> 0 .. MaxVersion]
    /\ {git, calm, wrecked} \subseteq BOOLEAN /\ stops \in 0 .. MaxStops
    /\ disk \in [dirs : SUBSET (Path \ {<<>>}), card : SUBSET CardFile,
                 eml : SUBSET EmlFile, side : SUBSET SideFile]
    /\ head \in Tree /\ saved \in Saved \cup {None} /\ ix \in Index
    /\ edits \in [up : SUBSET file, rm : SUBSET file] /\ edits.up \cap edits.rm = {}
    /\ pc \in {"idle", "list", "plan", "upsert", "card", "mail", "prune", "commit", "save"}
    /\ stage \in {"none", "sync", "refresh", "backfill"}
    /\ delta \in [changed : SUBSET Msg, destroyed : SUBSET Msg]
    /\ plan \in [add : SUBSET Msg, update : SUBSET Msg, delete : SUBSET Msg,
                 in : [Msg -> SUBSET Box], uncommitted : BOOLEAN]
    /\ todo \subseteq Box /\ gone \subseteq Box /\ target \in 0 .. MaxVersion
    /\ done \in {"none", "sync", "refresh", "backfill", "failed"}
    /\ pc = "idle" => todo = {} /\ plan = NoPlan

\* No two mailboxes are given directories that a case-insensitive file system
\* takes for the same one, and none is given the directory of unfiled mail.
Folded(p) == [i \in DOMAIN p |-> Fold(p[i])]
DirsDistinct ==
    calm => \A b \in KnownIn(ix.box) :
       /\ Folded(ix.box[b].dir) # Unfiled
       /\ \A c \in KnownIn(ix.box) \ {b} : Folded(ix.box[c].dir) # Folded(ix.box[b].dir)

\* The directories nest as the mailboxes do: a mailbox is directly under its
\* parent in the index, through renames of either and of their ancestors.
DirsNested ==
    calm /\ pc # "card" =>
       \A b \in KnownIn(ix.box) : Front(ix.box[b].dir) = ParentDir(ix.box[b].info)

\* The index is only a cache (stores/index.rs:4): when a pass has ended well, the
\* index that was saved, if the next pass is going to trust it, is what a scan of
\* the commit gives, or of the worktree of a plain store never interrupted.
IndexRebuildable ==
    calm /\ pc = "idle" /\ done \in {"sync", "refresh"} =>
       IF git THEN saved.head = head => Rebuilt(head) = {saved.index}
       ELSE stops = 0 => Rebuilt(disk) = {saved.index}

\* Once a pass has gone through, whatever the next one takes for held is on disk
\* where its index says, but for mail that has changed since and mailboxes that
\* are gone: an interrupted pass may have moved or removed their files.
IndexedIsHeld ==
    calm /\ pc = "idle" /\ saved # None /\ ~wrecked =>
       \A index \in OpenIndex :
          /\ \A b \in KnownIn(index.box) \ retired :
                LET e == index.box[b] IN [at |-> e.dir, box |-> b, info |-> e.info] \in disk.card
          /\ \A m \in Msg : index.mail[m] # None /\ touched[m] <= Cursor =>
                LET e == index.mail[m] IN
                HasEml(disk, e.dir, m) /\ [at |-> e.dir, msg |-> m, in |-> e.in] \in disk.side

Settled == pc = "idle" /\ Cursor = version

\* A full refresh of a quiet account leaves the account's tree and its mail,
\* as the filter reads them on the account itself, filed under a mailbox each
\* message is in.  A catch-up does so when no filter looks at mailboxes.  Not so
\* once a refresh began while mail waited in `_unfiled`: it stays there (sync.rs
\* reconcile compares mailboxes, not places; stream.rs:252 begins it when it is due).
Mirrors ==
    calm /\ Settled /\ (done = "refresh" \/ (done = "sync" /\ filter = None)) =>
       \A index \in OpenIndex :
          /\ \A b \in KnownIn(boxes) : InfoOf(index)[b] = boxes[b]
          /\ \A m \in Msg :
               LET e == index.mail[m] IN
               IF mail[m] # {} /\ Matches(boxes, mail[m])
               THEN e # None /\ e.in = mail[m] /\ e.dir \in {index.box[b].dir : b \in mail[m]}
               ELSE e = None

\* A mailbox whose removal is put off because it has contents does not stay
\* for good: each refresh that finds such mailboxes removes one of them.
RefreshPrunes ==
    [][calm /\ pc = "save" /\ stage = "refresh" /\ gone # {} =>
         ~(gone \subseteq KnownIn(ix.box))]_vars

\* No pass fails of itself, nor because an earlier one, be it the backfill, was
\* cut short anywhere: its directories and edits are always found as the rename or
\* the commit needs them.  Less than docs/guide/daemon.md:60 promises: excepted are the
\* interruptions, the changes of the account before the next pass ends well, and
\* the first backfill without mail that Interrupt, ServerBoxes, FileMessage and
\* PlanAll name; some of them do make later passes fail (dir.rs rename_dir,
\* git.rs build_tree).
Resumes == [][calm /\ done' = "failed" /\ done # "failed" => stops' # stops]_vars
=============================================================================
