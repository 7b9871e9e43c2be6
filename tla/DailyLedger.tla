----------------------------- MODULE DailyLedger -----------------------------
(***************************************************************************)
(* The history a git store writes (stores/git.rs) and what is read back    *)
(* from it: one commit per day of mail, backdated during a backfill and    *)
(* for older mail (engine/backfill.rs, engine/mod.rs), amended while its    *)
(* day lasts; `restore --at` (restore/reader.rs), `index` and `verify`      *)
(* (main.rs).                                                              *)
(*                                                                         *)
(* Time is the UTC day.  A message is its id with its mutable metadata; a  *)
(* checkpoint's two saves are one step, and so is the replacement of a      *)
(* file; planning is one step with the reading of the account: BackupEngine *)
(* takes them apart.                                                       *)
(***************************************************************************)
EXTENDS Integers, Sequences, FiniteSets, FiniteSetsExt

CONSTANTS
    Msg, Meta, None,
    FirstDay, LastDay,      \* the clock runs from FirstDay to LastDay
    MaxChanges, MaxStops    \* bounds

ASSUME DayAssumption == FirstDay \in Nat \ {0} /\ LastDay \in Nat /\ FirstDay <= LastDay
ASSUME MetaAssumption == Meta \cap {None, "keep"} = {} /\ None \notin {"keep", "raw"}
ASSUME BoundAssumption == {MaxChanges, MaxStops} \subseteq Nat

VARIABLES
    today,                  \* the clock
    mail, received,         \* the account: metadata, and the day of receipt
    behind, since,          \* messages changed after the state of the cursor, and
                            \* after the state the running pass is heading for
    chain,                  \* the first-parent history of HEAD, oldest first
    work,                   \* the worktree
    dstate, dindex,         \* state.json, index.json
    st, ix, pending,        \* StoreState, StoreIndex, GitMailStore::pending
    edits,                  \* DirMailStore::path_edits: what an apply that failed
                            \* has done to the worktree; it outlives the pass
    pc, refresh, day, plan, point,  \* the pass, the day it calls today or has
                            \* backfilled, what it planned, its checkpoint
    atEnd, odd,             \* history: HEAD's tree as each day ended, what went on
    changes, stops          \* how many so far

accountVars == <<mail, received, behind, since, changes>>
repoVars    == <<chain, work>>
savedVars   == <<dstate, dindex>>
storeVars   == <<st, ix, pending>>
passVars    == <<pc, refresh, day, plan, point>>
historyVars == <<atEnd, odd>>
vars == <<today, accountVars, repoVars, savedVars, storeVars, edits, passVars,
          historyVars, stops>>

Days == 1 .. LastDay
NoPlan == [m \in Msg |-> "keep"]
NoPoint == [date |-> 0, live |-> FALSE]
Index == [Msg -> Meta \cup {None}]
Nothing == [m \in Msg |-> None]

\* A message is two files, the mail and the sidecar with its metadata; its
\* path does not matter here.  The sidecars make the index.
Raw == "raw"
File == Msg \X {"eml", "meta"}
Tree == [File -> Meta \cup {Raw, None}]
Empty == [f \in File |-> None]
Indexed(tree) == [m \in Msg |-> tree[m, "meta"]]
Whole(tree) == {m \in Msg : tree[m, "eml"] # None /\ tree[m, "meta"] # None}
Commit == [tree : Tree, date : Days, label : 0 .. LastDay, live : BOOLEAN]

\* The part of StoreState a history depends on: has a backfill begun, and
\* ended; its last day; current_commit_day; head_at_save (a commit id stands
\* for the whole history behind it).
Saved(phase, last, commitDay, head) ==
    [phase |-> phase, last |-> last, commitDay |-> commitDay, head |-> head]
NewState == Saved("new", 0, 0, <<>>)
State == [phase : {"new", "backfill", "synced"}, last : 0 .. LastDay,
          commitDay : 0 .. LastDay, head : Seq(Commit)]

Tip == chain[Len(chain)]
HeadTree == IF chain = <<>> THEN Empty ELSE Tip.tree
Held(index) == {m \in Msg : index[m] # None}

TypeOK ==
    /\ today \in FirstDay .. LastDay
    /\ mail \in Index /\ received \in [Msg -> 0 .. LastDay]
    /\ behind \subseteq Msg /\ since \subseteq Msg
    /\ chain \in Seq(Commit) /\ work \in Tree
    /\ {dstate, st} \subseteq State
    /\ dindex \in Index /\ ix \in Index
    /\ pending \subseteq File /\ edits \subseteq File
    /\ pc \in {"idle", "enumerate", "plan", "apply", "commit", "save", "save end"}
    /\ refresh \in BOOLEAN /\ day \in 0 .. LastDay
    /\ plan \in [Msg -> Meta \cup {None, "keep"}]
    /\ point \in [date : 0 .. LastDay, live : BOOLEAN]
    /\ atEnd \in [Days -> Tree]
    /\ odd \subseteq {"late", "overnight", "reindexed", "leftover"}

-----------------------------------------------------------------------------
(* The account and the clock (external).                                    *)

\* What changes during a catch-up is for the next one.
AccountStep(m, x) ==
    /\ changes < MaxChanges
    /\ changes' = changes + 1
    /\ mail' = [mail EXCEPT ![m] = x]
    /\ behind' = behind \cup {m}
    /\ since' = IF st.phase = "synced" THEN since \cup {m} ELSE {}
    /\ UNCHANGED <<today, repoVars, savedVars, storeVars, edits, passVars,
                   historyVars, stops>>

\* Mail is delivered now, or imported with the date it was once received.
Arrive(m, x, d) ==
    /\ received[m] = 0 /\ d <= today
    /\ received' = [received EXCEPT ![m] = d]
    /\ AccountStep(m, x)

Modify(m, x) ==
    /\ mail[m] \notin {None, x}
    /\ AccountStep(m, x)
    /\ UNCHANGED received

Destroy(m) ==
    /\ mail[m] # None
    /\ AccountStep(m, None)
    /\ UNCHANGED received

Tick ==
    /\ today < LastDay
    /\ today' = today + 1
    /\ atEnd' = [atEnd EXCEPT ![today] = HeadTree]
    /\ odd' = IF pc = "idle" THEN odd ELSE odd \cup {"overnight"}
    /\ UNCHANGED <<accountVars, repoVars, savedVars, storeVars, edits, passVars,
                   stops>>

-----------------------------------------------------------------------------
(* Opening the store.                                                       *)

\* (mutant: the initial commit has no time.)
WithRootUndated ==
    IF chain # <<>> THEN chain
    ELSE <<[tree |-> Empty, date |-> 0, label |-> 0, live |-> FALSE]>>

\* ensure_initial_commit: a repository without commits gets one, dated now,
\* that holds no mail.
WithRoot ==
    IF chain # <<>> THEN chain
    ELSE <<[tree |-> Empty, date |-> today, label |-> 0, live |-> FALSE]>>

\* (mutant: the index is rebuilt from the worktree.)
OpenedIndexFromWorktree(history) ==
    IF dstate.head = history THEN dindex ELSE Indexed(work)

\* The index cache is trusted if it was saved with this HEAD.
OpenedIndex(history) ==
    IF dstate.head = history THEN dindex
    ELSE Indexed(history[Len(history)].tree)

\* GitMailStore::open, then the choice of run_backup and run_refresh.
\* A backfill that has saved nothing yet is anchored at the present.  The store
\* may be the one of an earlier pass, with its edits: open clears none (pending
\* is empty, an apply is followed by its checkpoint and build_tree drains it).
Begin(r) ==
    /\ pc = "idle"
    /\ refresh' = r
    /\ chain' = WithRoot
    /\ st' = dstate
    /\ ix' = OpenedIndex(chain')
    /\ pending' = {}
    /\ day' = dstate.last
    /\ behind' = IF dstate.phase = "new" THEN {} ELSE behind
    /\ pc' = IF dstate.phase = "synced" THEN "plan" ELSE "enumerate"
    /\ UNCHANGED <<today, mail, received, since, changes, work, savedVars, edits,
                   plan, point, historyVars, stops>>

\* A pass leaves nothing in memory that the next one, which opens the store
\* anew, would read.
Closed ==
    /\ pc = "idle" /\ refresh = FALSE /\ day = 0
    /\ st = NewState /\ ix = Nothing /\ pending = {}
    /\ plan = NoPlan /\ point = NoPoint
Return ==
    /\ pc' = "idle" /\ refresh' = FALSE /\ day' = 0
    /\ st' = NewState /\ ix' = Nothing /\ pending' = {}
    /\ plan' = NoPlan /\ point' = NoPoint

-----------------------------------------------------------------------------
(* Applying events to the worktree (DirMailStore::apply), in place.         *)

\* The files an event writes or removes, each one an edit of its path.  To add
\* or to remove a message touches both; to update it, its sidecar, and no file
\* if that is already on disk.
EditedFiles(m, x) ==
    IF ix[m] = None \/ x = None THEN {<<m, "eml">>, <<m, "meta">>}
    ELSE {<<m, "meta">>} \cap {f \in File : work[f] # x}

Content(f, x) == IF x = None \/ f[2] = "meta" THEN x ELSE Raw

\* The messages that events do something about: one that is unknown has nothing
\* to delete.
Named(events) == {m \in Msg : events[m] # "keep" /\ {events[m], ix[m]} # {None}}
Edited(events) == UNION {EditedFiles(m, events[m]) : m \in Named(events)}

Written(files, events) ==
    [f \in File |-> IF f \in files THEN Content(f, events[f[1]]) ELSE work[f]]

\* What earlier applies that failed have queued, and these events do not make
\* good: it is committed with them.
Leftovers(events) ==
    {f \in edits \ Edited(events) : f[1] \notin Named(events) \/ f[2] = "eml"}

\* GitMailStore::apply: the edits are taken over when all has been applied.
Apply(events) ==
    /\ work' = Written(Edited(events), events)
    /\ ix' = [m \in Msg |-> IF m \in Named(events) THEN events[m] ELSE ix[m]]
    /\ pending' = edits \cup Edited(events) /\ edits' = {}
    /\ odd' = IF Leftovers(events) = {} THEN odd ELSE odd \cup {"leftover"}

\* How far an apply can have got when it is stopped: message by message, the
\* mail before its sidecar.
Progress(events) ==
    LET edited  == Edited(events)
        half(S) == {m \in Msg : <<m, "eml">> \in S /\ <<m, "meta">> \notin S}
    IN  {S \in SUBSET edited :
            /\ \A m, n \in half(S) : m = n
            /\ \A m \in Msg : <<m, "meta">> \in S =>
                   <<m, "eml">> \in S \/ <<m, "eml">> \notin edited}

Only(S) == [m \in Msg |-> IF m \in S THEN plan[m] ELSE "keep"]

-----------------------------------------------------------------------------
(* Backfill: the days after the last one committed, in order.               *)

IsEarliest(d, S) ==
    (\E m \in S : received[m] = d) /\ \A m \in S : d <= received[m]

ToBackfill == {m \in Msg : mail[m] # None /\ received[m] > day}

OfDay(d) == [m \in Msg |-> IF m \in ToBackfill /\ received[m] = d /\ ix[m] = None
                          THEN mail[m] ELSE "keep"]

BackfillDay ==
    /\ pc = "enumerate"
    /\ day' \in Days /\ IsEarliest(day', ToBackfill)
    /\ Apply(OfDay(day'))
    /\ st' = [st EXCEPT !.phase = "backfill", !.last = day']
    /\ point' = [date |-> day', live |-> FALSE]
    /\ pc' = "commit"
    /\ UNCHANGED <<today, accountVars, chain, savedVars, refresh, plan, atEnd,
                   stops>>

\* Enumeration is over: the cursor becomes the state at the start.
BackfillEnds ==
    /\ pc = "enumerate" /\ ToBackfill = {}
    /\ dstate' = [st EXCEPT !.phase = "synced", !.last = 0] /\ dindex' = ix
    /\ IF refresh THEN Return
       ELSE /\ pc' = "plan"
            /\ st' = dstate'
            /\ UNCHANGED <<ix, pending, refresh, day, plan, point>>
    /\ UNCHANGED <<today, accountVars, repoVars, edits, historyVars, stops>>

-----------------------------------------------------------------------------
(* Catch-up and reconciliation (sync::run, sync::reconcile, apply_planned). *)

\* A catch-up looks at what changed, a reconciliation at all of it.
Differs(m) ==
    IF refresh THEN ix[m] # mail[m] ELSE m \in behind /\ {ix[m], mail[m]} # {None}

Plan ==
    /\ pc = "plan"
    /\ since' = {}
    /\ IF ~refresh /\ behind = {} THEN Return
       ELSE /\ plan' = [m \in Msg |-> IF Differs(m) THEN mail[m] ELSE "keep"]
            /\ day' = today
            /\ pc' = "apply"
            /\ refresh' = FALSE   \* read no more
            /\ UNCHANGED <<storeVars, point>>
    /\ UNCHANGED <<today, mail, received, behind, changes, repoVars, savedVars,
                   edits, historyVars, stops>>

\* Mail the store does not hold, of another day than the one the pass calls
\* today: group_by_day.
OlderAdds == {m \in Msg : /\ plan[m] \in Meta /\ ix[m] = None
                          /\ received[m] # day}

Group(d) == {m \in OlderAdds : received[m] = d}

ApplyOlderDay ==
    /\ pc = "apply"
    /\ \E d \in Days :
         /\ IsEarliest(d, OlderAdds)
         /\ Apply(Only(Group(d)))
         /\ plan' = Only(Msg \ Group(d))
         /\ point' = [date |-> d, live |-> FALSE]
    /\ pc' = "commit"
    /\ UNCHANGED <<today, accountVars, chain, savedVars, st, refresh, day, atEnd,
                   stops>>

\* Today's additions, the updates and the deletions, if there are any; the new
\* cursor rides along with their checkpoint.  (A plan of mailboxes alone is
\* applied too, and takes the queued edits over.)
ApplyRest ==
    /\ pc = "apply" /\ OlderAdds = {}
    /\ \/ Apply(plan)
       \/ plan = NoPlan /\ UNCHANGED <<work, ix, pending, edits, odd>>
    /\ plan' = NoPlan
    /\ point' = [date |-> day, live |-> TRUE]
    /\ pc' = "commit"
    /\ UNCHANGED <<today, accountVars, chain, savedVars, st, refresh, day, atEnd,
                   stops>>

-----------------------------------------------------------------------------
(* GitMailStore::checkpoint.                                                *)

\* build_tree: the edited paths, as they are in the worktree now, over HEAD.
BuildTree == [f \in File |-> IF f \in pending THEN work[f] ELSE HeadTree[f]]

\* (mutant: a backfilled day is dated now.)
NewCommitNow(tree, date) ==
    Append(chain, [tree |-> tree, date |-> today, label |-> point.date,
                   live |-> point.live])

\* commit_new
NewCommit(tree, date) ==
    Append(chain, [tree |-> tree, date |-> date, label |-> point.date,
                   live |-> point.live])

\* amend_head keeps the parents; its committer time is now.
Amended(tree) ==
    [chain EXCEPT ![Len(chain)] =
        [tree |-> tree, date |-> today, label |-> point.date, live |-> TRUE]]

\* (mutant: any live commit is amended.)
AmendableAnyDay == st.commitDay # 0 /\ st.head = chain

Amendable == st.commitDay = point.date /\ st.head = chain

\* The new history of a checkpoint whose tree differs from HEAD's.
NextChain(tree) ==
    IF ~point.live THEN NewCommit(tree, point.date)
    ELSE IF Amendable THEN Amended(tree) ELSE NewCommit(tree, today)

\* A past day is late when HEAD already holds a later one.
IsLate == ~point.live /\ Len(chain) > 1 /\ Tip.date > point.date

Checkpoint ==
    /\ pc = "commit"
    /\ IF BuildTree = HeadTree
       THEN UNCHANGED <<chain, odd>> /\ st' = [st EXCEPT !.head = chain]
       ELSE /\ chain' = NextChain(BuildTree)
            /\ odd' = IF IsLate THEN odd \cup {"late"} ELSE odd
            /\ st' = [st EXCEPT !.head = chain',
                                !.commitDay = IF point.live THEN point.date ELSE @]
    /\ pending' = {}
    /\ pc' = IF point.live THEN "save end" ELSE "save"
    /\ UNCHANGED <<today, accountVars, work, savedVars, ix, edits, refresh, day,
                   plan, point, atEnd, stops>>

\* DirMailStore::checkpoint, and what the pass does next.
Save ==
    /\ pc \in {"save", "save end"}
    /\ dstate' = st /\ dindex' = ix /\ edits' = {}
    /\ behind' = IF pc = "save end" THEN since ELSE behind
    /\ since' = IF pc = "save end" THEN {} ELSE since
    /\ IF pc = "save end" THEN Return
       ELSE /\ pc' = IF st.phase = "backfill" THEN "enumerate" ELSE "apply"
            /\ UNCHANGED <<storeVars, refresh, day, plan, point>>
    /\ UNCHANGED <<today, mail, received, changes, repoVars, historyVars, stops>>

\* The events the pass is about to apply, if any.
Underway ==
    {NoPlan} \cup
    (IF pc = "enumerate" THEN {OfDay(d) : d \in {d \in Days : IsEarliest(d, ToBackfill)}}
     ELSE IF pc # "apply" THEN {}
     ELSE IF OlderAdds = {} THEN {plan}
     ELSE {Only(Group(d)) : d \in {d \in Days : IsEarliest(d, OlderAdds)}})

\* The pass is over, and these files of what it was applying are on disk.
Over(events, files) ==
    /\ stops < MaxStops /\ stops' = stops + 1
    /\ work' = Written(files, events)
    /\ Return
    /\ since' = {}
    /\ UNCHANGED <<today, mail, received, behind, changes, chain, savedVars,
                   historyVars>>

\* The process ends, at any point: a kill, or the cancellation of a shutdown.
\* What was queued is forgotten.
Stop ==
    /\ pc # "idle" \/ edits # {}
    /\ \E events \in Underway : \E files \in Progress(events) :
         Over(events, files) /\ edits' = {}

\* An error, at any point: the next pass may use the same store, and finds what
\* was done to the worktree queued.  build_tree has taken the edits it fails
\* over, or a commit does.
Fail ==
    /\ pc # "idle"
    /\ \E events \in Underway : \E files \in Progress(events) :
         Over(events, files) /\ edits' = edits \cup files

-----------------------------------------------------------------------------
(* The commands beside the backup.                                          *)

\* diff_indexes: messages are compared by path and content, their metadata is
\* not.
DiffIndexes(expected, actual) ==
    (Held(expected) \ Held(actual)) \cup (Held(actual) \ Held(expected))

\* What `mail-backup verify` reports of a git store at rest.
Inconsistencies == DiffIndexes(Indexed(HeadTree), Indexed(work))

\* `mail-backup index` opens the root as a directory store with the state
\* directory of the git store: rebuild_index reads the worktree, and saves
\* index.json alone.
Reindex ==
    /\ pc = "idle" /\ chain # <<>>
    /\ dindex' = Indexed(work)
    /\ odd' = IF Inconsistencies = {} THEN odd ELSE odd \cup {"reindexed"}
    /\ UNCHANGED <<today, accountVars, repoVars, dstate, storeVars, edits, passVars,
                   atEnd, stops>>

\* (mutant: the cutoff is the start of the day.)
ResolveStart(d) == Max({0} \cup {i \in DOMAIN chain : chain[i].date < d})

\* resolve_commit for a date: from HEAD back to the first commit dated no
\* later; 0 when there is none.
Resolve(d) == Max({0} \cup {i \in DOMAIN chain : chain[i].date <= d})
At(d) == IF Resolve(d) = 0 THEN Empty ELSE chain[Resolve(d)].tree

-----------------------------------------------------------------------------
Init ==
    /\ today = FirstDay
    /\ mail \in Index /\ received \in [Msg -> 0 .. FirstDay]
    /\ \A m \in Msg : received[m] = 0 <=> mail[m] = None
    /\ behind = {} /\ since = {}
    /\ chain = <<>> /\ work = Empty
    /\ dstate = NewState /\ dindex = Nothing
    /\ Closed /\ edits = {}
    /\ atEnd = [d \in Days |-> Empty] /\ odd = {}
    /\ changes = 0 /\ stops = 0

Next ==
    \/ \E m \in Msg, x \in Meta, d \in Days : Arrive(m, x, d)
    \/ \E m \in Msg, x \in Meta : Modify(m, x)
    \/ \E m \in Msg : Destroy(m)
    \/ Tick
    \/ \E r \in BOOLEAN : Begin(r)
    \/ BackfillDay \/ BackfillEnds
    \/ Plan \/ ApplyOlderDay \/ ApplyRest
    \/ Checkpoint \/ Save \/ Stop \/ Fail
    \/ Reindex

Spec == Init /\ [][Next]_vars

-----------------------------------------------------------------------------
(* Properties.                                                              *)

\* The commit of a day that is over stays as it is for good, unless a pass was
\* under way at midnight: no live checkpoint amends it, whatever was stopped,
\* reindexed or refreshed in between (git.rs checkpoint).  The exception is a
\* commit that came out of order: the history already held a later day when it
\* was made, and today's snapshot may take such a commit for its own.
OutOfOrder(i) == \E j \in 2 .. i - 1 : chain[j].date > chain[i].label
Sealed ==
    [][\A i \in DOMAIN chain :
          chain[i].label < today /\ ~OutOfOrder(i) /\ "overnight" \notin odd =>
             i \in DOMAIN chain' /\ chain'[i] = chain[i]]_vars

\* `restore --at d`, once d is over, reads the archive as it was when d ended;
\* what it may hold besides is mail received no later than d and backed up
\* after it (reader.rs resolve_commit over the commits of git.rs).  Not so after
\* a day committed late, a pass over midnight, or a commit that took over edits
\* which an apply that failed had queued and the events applied now do not make.
AtIsThatDay ==
    odd \cap {"late", "overnight", "leftover"} = {} =>
        \A d \in 1 .. today - 1 :
            LET snapshot == At(d) IN
            \A f \in File : snapshot[f] # atEnd[d][f] =>
                atEnd[d][f] = None /\ received[f[1]] <= d

\* Mail that a snapshot of some day holds is in the snapshot of the day it was
\* received too, however late it was backed up and wherever passes stopped or
\* failed: nothing enters the history after its day, unless that day is late,
\* `index` has read uncommitted work or a commit took over left-over edits
\* (finalize_day, group_by_day and the dates of git.rs checkpoint).
FoundOnItsDay ==
    odd = {} =>
        \A i \in DOMAIN chain : \A m \in Held(Indexed(chain[i].tree)) :
            received[m] < chain[i].date => m \in Whole(At(received[m]))

\* Between passes the index the next open trusts names the messages HEAD
\* holds, wherever passes were killed or failed, also after a retry that took
\* over the edits of the apply that failed, and after `mail-backup index` when
\* `mail-backup verify` had nothing to report.  The exception is a commit that
\* took over edits its own events do not make (git.rs open, main.rs Index).
IndexIsCommitted ==
    odd \cap {"reindexed", "leftover"} = {} =>
        (pc = "idle" /\ chain # <<>> /\ dstate.head = chain =>
            Held(dindex) = Held(Indexed(HeadTree)))
=============================================================================
