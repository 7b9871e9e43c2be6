--------------------------- MODULE DailyLedgerProofs ---------------------------
(***************************************************************************)
(* For any messages, metadata, days, changes, kills and errors: the commit  *)
(* of a day that is over stays as it is, the index the next pass trusts    *)
(* names the messages HEAD holds, a restore of a day reads what the        *)
(* archive held on it, and mail is found on the day it was received.       *)
(***************************************************************************)
EXTENDS DailyLedger, WellFoundedInduction, TLAPS

-----------------------------------------------------------------------------
(* The inductive invariant: types, dates and indexes here; the contents of  *)
(* the history and what is read back from it below.                         *)

\* A sidecar is metadata, never the bytes of a mail.
Sidecars(tree) == \A m \in Msg : tree[m, "meta"] \in Meta \cup {None}

\* Types that the steps need and TypeOK does not give: what is planned has
\* been received, what is committed has a day, and a pass has a commit to
\* build upon.
InStage ==
    /\ \A m \in Msg : mail[m] # None => received[m] \in Days
    /\ \A m \in Msg : plan[m] \in Meta => received[m] \in Days
    /\ pc # "idle" => chain # <<>>
    /\ pc = "apply" => day \in Days
    /\ pc \in {"commit", "save"} /\ st.phase # "backfill" => day \in Days
    /\ pc = "commit" => point.date \in Days

SidecarsRead ==
    /\ \A i \in DOMAIN chain : Sidecars(chain[i].tree)
    /\ Sidecars(work)

Types == TypeOK /\ InStage /\ SidecarsRead

\* Nothing is from the future.
NotLater ==
    /\ \A i \in DOMAIN chain : chain[i].date <= today
    /\ \A m \in Msg : received[m] <= today
    /\ day <= today /\ point.date <= today
    /\ dstate.last <= today /\ st.last <= today

\* current_commit_day is the day of a commit that is still in the history, or
\* of one amended since.
CommitDayHeld ==
    \A s \in {st, dstate} :
        s.commitDay # 0 => \E j \in 2 .. Len(chain) : chain[j].date >= s.commitDay

\* A pass that midnight does not catch takes the right day for today, and
\* then a commit's date is the day it records.
InItsDay ==
    "overnight" \notin odd =>
        /\ pc = "apply" => day = today
        /\ pc \in {"commit", "save"} /\ st.phase # "backfill" => day = today
        /\ pc = "commit" /\ point.live => point.date = today
        /\ \A i \in 2 .. Len(chain) : chain[i].date = chain[i].label

Dates == NotLater /\ CommitDayHeld /\ InItsDay

\* Edits wait for a commit in between two checkpoints only.
EditsCommitted == pending # {} => pc = "commit"

\* A saved head is no longer than the history, and a pass remembers the one
\* it saved last, or is about to save.
HeadsKept ==
    /\ Len(dstate.head) <= Len(chain)
    /\ pc \in {"enumerate", "plan", "apply", "commit"} => st.head = dstate.head
    /\ pc \in {"save", "save end"} => st.head = chain

\* An index names the messages that have a sidecar in a tree.
Agrees(index, tree) == \A m \in Msg : index[m] # None <=> tree[m, "meta"] # None

\* The index of a pass names what its next commit will hold, and the saved
\* index what HEAD holds, if it was saved with this HEAD; unless the index was
\* read from uncommitted work or a commit took over edits that were left.
IndexAgrees ==
    odd \cap {"reindexed", "leftover"} = {} =>
        /\ pc # "idle" => Agrees(ix, BuildTree)
        /\ chain # <<>> /\ dstate.head = chain => Agrees(dindex, HeadTree)

Indexes == EditsCommitted /\ HeadsKept /\ IndexAgrees

-----------------------------------------------------------------------------
(* Lemmas about trees.                                                      *)

\* The edited files of a message are its own two.
LEMMA EditedAreItsOwn ==
    ASSUME NEW m \in Msg, NEW x, NEW f \in EditedFiles(m, x)
    PROVE  f \in File /\ f[1] = m /\ f \in {<<m, "eml">>, <<m, "meta">>}
BY DEF EditedFiles, File

\* The first commit and the last one of a history.
LEMMA Ends ==
    ASSUME NEW c \in Seq(Commit), c # <<>>
    PROVE  Len(c) \in DOMAIN c /\ 1 \in DOMAIN c /\ c[Len(c)] \in Commit
<1>1. Len(c) \in Nat /\ DOMAIN c = 1 .. Len(c) OBVIOUS
<1>2. Len(c) # 0 OBVIOUS
<1> QED BY <1>1, <1>2

\* HEAD's tree is a tree of readable sidecars.
LEMMA HeadTreeTypes ==
    ASSUME Types PROVE HeadTree \in Tree /\ Sidecars(HeadTree)
<1>1. CASE chain = <<>>
    BY <1>1 DEF HeadTree, Empty, Tree, Sidecars, File
<1>2. CASE chain # <<>>
    <2>1. Len(chain) \in DOMAIN chain /\ chain[Len(chain)] \in Commit
        BY <1>2, Ends DEF Types, TypeOK
    <2>2. HeadTree = chain[Len(chain)].tree
        BY <1>2 DEF HeadTree, Tip
    <2> QED BY <2>1, <2>2 DEF Types, SidecarsRead, Commit
<1> QED BY <1>1, <1>2

\* So is the tree a checkpoint builds.
LEMMA BuildTreeTypes ==
    ASSUME Types PROVE BuildTree \in Tree /\ Sidecars(BuildTree)
<1>1. HeadTree \in Tree /\ Sidecars(HeadTree) BY HeadTreeTypes
<1>2. work \in Tree /\ Sidecars(work) BY DEF Types, TypeOK, SidecarsRead
<1> QED BY <1>1, <1>2 DEF BuildTree, Tree, Sidecars, File

\* A tree of readable sidecars makes an index.
LEMMA IndexedTypes ==
    ASSUME NEW tree, Sidecars(tree) PROVE Indexed(tree) \in Index
BY DEF Indexed, Index, Sidecars

\* What an edited file holds is what the event says.
LEMMA EditedFacts ==
    ASSUME NEW events \in [Msg -> Meta \cup {None, "keep"}], NEW f \in Edited(events)
    PROVE  /\ f \in File /\ f[1] \in Named(events) /\ f \in EditedFiles(f[1], events[f[1]])
           /\ events[f[1]] \in Meta \cup {None}
<1>1. PICK m \in Named(events) : f \in EditedFiles(m, events[m]) BY DEF Edited
<1>2. f \in File /\ f[1] = m BY <1>1, EditedAreItsOwn DEF Named
<1> QED BY <1>1, <1>2 DEF Named

\* Writing some of what events edit keeps the worktree well formed
\* (DirMailStore::apply).
LEMMA WrittenTypes ==
    ASSUME Types, NEW events \in [Msg -> Meta \cup {None, "keep"}],
           NEW files \in SUBSET Edited(events)
    PROVE  Written(files, events) \in Tree /\ Sidecars(Written(files, events))
<1>1. work \in Tree /\ Sidecars(work) BY DEF Types, TypeOK, SidecarsRead
<1>2. ASSUME NEW f \in File
      PROVE  (IF f \in files THEN Content(f, events[f[1]]) ELSE work[f])
                \in Meta \cup {Raw, None}
    BY <1>1, EditedFacts DEF Tree, Content
<1>3. ASSUME NEW m \in Msg PROVE Written(files, events)[m, "meta"] \in Meta \cup {None}
    <2>1. <<m, "meta">> \in File /\ <<m, "meta">>[1] = m BY DEF File
    <2>2. CASE <<m, "meta">> \in files
        <3>1. Written(files, events)[<<m, "meta">>] = events[m]
            BY <2>1, <2>2 DEF Written, Content
        <3>2. events[m] \in Meta \cup {None} BY <2>1, <2>2, EditedFacts
        <3> QED BY <3>1, <3>2
    <2>3. CASE <<m, "meta">> \notin files
        BY <1>1, <2>1, <2>3 DEF Written, Sidecars
    <2> QED BY <2>2, <2>3
<1>4. Written(files, events) \in Tree BY <1>2 DEF Written, Tree
<1> QED BY <1>3, <1>4 DEF Sidecars

\* What becomes of events that a step applies: their edits are queued, and
\* others only if that is noted, or if they are of a sidecar that is as the
\* events want it.
Applied(events) ==
    /\ work' = Written(Edited(events), events)
    /\ ix' = [m \in Msg |-> IF m \in Named(events) THEN events[m] ELSE ix[m]]
    /\ pending' \subseteq File
    /\ odd' \in {odd, odd \cup {"leftover"}}
    /\ "leftover" \notin odd' =>
          /\ Edited(events) \subseteq pending'
          /\ \A f \in pending' \ Edited(events) : f[1] \in Named(events) /\ f[2] = "meta"

\* So it is when they are applied.
LEMMA ApplyIsApplied ==
    ASSUME Types, NEW events \in [Msg -> Meta \cup {None, "keep"}], Apply(events)
    PROVE  Applied(events) /\ edits' = {}
<1>1. Edited(events) \subseteq File BY EditedFacts
<1>2. edits \subseteq File BY DEF Types, TypeOK
<1>3. pending' = edits \cup Edited(events) BY DEF Apply
<1>4. pending' \subseteq File BY <1>1, <1>2, <1>3
<1>5. odd' \in {odd, odd \cup {"leftover"}} BY DEF Apply
<1>6. ASSUME "leftover" \notin odd', NEW f \in pending' \ Edited(events)
      PROVE  f[1] \in Named(events) /\ f[2] = "meta"
    <2>1. Leftovers(events) = {} BY <1>6 DEF Apply
    <2>2. f \in edits \ Edited(events) /\ f \in File BY <1>2, <1>3, <1>6
    <2>3. f[1] \in Named(events) /\ f[2] # "eml" BY <2>1, <2>2 DEF Leftovers
    <2> QED BY <2>2, <2>3 DEF File
<1> QED BY <1>3, <1>4, <1>5, <1>6 DEF Apply, Applied

\* And when a plan without any is not.
LEMMA NothingIsApplied ==
    ASSUME Types, plan = NoPlan, pending = {}, UNCHANGED <<work, ix, pending, edits, odd>>
    PROVE  Applied(plan)
<1>1. Named(plan) = {} BY MetaAssumption DEF Named, NoPlan
<1>2. Edited(plan) = {} BY <1>1 DEF Edited
<1>3. work \in [File -> Meta \cup {Raw, None}] /\ ix \in [Msg -> Meta \cup {None}]
    BY DEF Types, TypeOK, Tree, Index
<1>4. work' = Written({}, plan) BY <1>3 DEF Written
<1>5. ix' = [m \in Msg |-> IF m \in Named(plan) THEN plan[m] ELSE ix[m]] BY <1>1, <1>3
<1> QED BY <1>2, <1>4, <1>5 DEF Applied

\* Applying events keeps the worktree, the index and the queue of edits well
\* formed.
LEMMA ApplyTypes ==
    ASSUME Types, NEW events \in [Msg -> Meta \cup {None, "keep"}], Applied(events)
    PROVE  /\ work' \in Tree /\ Sidecars(work')
           /\ ix' \in Index /\ pending' \subseteq File
           /\ odd' \subseteq {"late", "overnight", "reindexed", "leftover"}
<1>1. work' \in Tree /\ Sidecars(work') BY WrittenTypes DEF Applied
<1>2. ix \in Index /\ odd \subseteq {"late", "overnight", "reindexed", "leftover"}
    BY DEF Types, TypeOK
<1>3. ix' \in Index BY <1>2 DEF Applied, Named, Index
<1>4. odd' \subseteq {"late", "overnight", "reindexed", "leftover"} BY <1>2 DEF Applied
<1> QED BY <1>1, <1>3, <1>4 DEF Applied

-----------------------------------------------------------------------------
(* Types.                                                                   *)

\* The bounds of the days.
LEMMA DayFacts ==
    /\ 0 \in 0 .. LastDay /\ Days \subseteq 0 .. LastDay
    /\ FirstDay .. LastDay \subseteq Days /\ 0 .. FirstDay \subseteq 0 .. LastDay
    /\ FirstDay \in FirstDay .. LastDay
BY DayAssumption DEF Days

\* The values of a pass that is over.
LEMMA IdleTypes ==
    /\ NewState \in State /\ Nothing \in Index
    /\ NoPlan \in [Msg -> Meta \cup {None, "keep"}]
    /\ NoPoint \in [date : 0 .. LastDay, live : BOOLEAN]
    /\ Empty \in Tree /\ Sidecars(Empty)
<1>1. <<>> \in Seq(Commit) OBVIOUS
<1>2. NewState \in State BY <1>1, DayFacts DEF NewState, Saved, State
<1>3. NoPoint \in [date : 0 .. LastDay, live : BOOLEAN] BY DayFacts DEF NoPoint
<1>4. Nothing \in Index /\ NoPlan \in [Msg -> Meta \cup {None, "keep"}]
    BY DEF Nothing, Index, NoPlan
<1>5. Empty \in Tree /\ Sidecars(Empty) BY DEF Empty, Tree, Sidecars, File
<1> QED BY <1>2, <1>3, <1>4, <1>5

\* When the program starts.
LEMMA InitTypes == ASSUME Init PROVE Types
<1>1. received \in [Msg -> 0 .. LastDay] BY DayFacts DEF Init
<1>2. atEnd \in [Days -> Tree] BY IdleTypes DEF Init
<1>3. <<>> \in Seq(Commit) OBVIOUS
<1>4. TypeOK
    BY <1>1, <1>2, <1>3, DayFacts, IdleTypes DEF Init, Closed, TypeOK
<1>5. ASSUME NEW m \in Msg, mail[m] # None PROVE received[m] \in Days
    <2>1. received[m] \in 0 .. FirstDay /\ received[m] # 0 BY <1>5 DEF Init
    <2> QED BY <2>1, DayAssumption DEF Days
<1>6. ASSUME NEW m \in Msg PROVE plan[m] \notin Meta
    BY MetaAssumption DEF Init, Closed, NoPlan
<1>7. InStage
    BY <1>5, <1>6 DEF Init, Closed, InStage
<1>8. SidecarsRead BY IdleTypes DEF Init, SidecarsRead
<1> QED BY <1>4, <1>7, <1>8 DEF Types

\* A change of the account, with what it does to the days of receipt.
LEMMA AccountTypes ==
    ASSUME Types, NEW m \in Msg, NEW x \in Meta \cup {None}, AccountStep(m, x),
           received' \in [Msg -> 0 .. LastDay],
           \A n \in Msg : received[n] \in Days => received'[n] = received[n],
           x # None => received'[m] \in Days
    PROVE  Types'
<1> USE DEF Types, AccountStep, accountVars, repoVars, savedVars, storeVars,
            passVars, historyVars
<1>1. mail' \in Index BY DEF TypeOK, Index
<1>2. TypeOK'
    <2>1. behind' \subseteq Msg /\ since' \subseteq Msg BY DEF TypeOK
    <2> QED BY <1>1, <2>1 DEF TypeOK
<1>3. InStage'
    <2>1. ASSUME NEW n \in Msg, mail'[n] # None PROVE received'[n] \in Days
        BY <2>1 DEF TypeOK, InStage, Index
    <2>2. ASSUME NEW n \in Msg, plan[n] \in Meta PROVE received'[n] \in Days
        BY <2>2 DEF InStage
    <2> QED BY <2>1, <2>2 DEF InStage
<1>4. SidecarsRead' BY DEF SidecarsRead, Sidecars
<1> QED BY <1>2, <1>3, <1>4

\* A message arrives, with a day of receipt.
LEMMA ArriveTypes ==
    ASSUME Types, NEW m \in Msg, NEW x \in Meta, NEW d \in Days, Arrive(m, x, d)
    PROVE  Types'
<1>1. /\ received' \in [Msg -> 0 .. LastDay]
      /\ \A n \in Msg : received[n] \in Days => received'[n] = received[n]
      /\ received'[m] \in Days
    <2>1. received \in [Msg -> 0 .. LastDay] /\ received[m] = 0
        BY DEF Arrive, Types, TypeOK
    <2>2. received' = [received EXCEPT ![m] = d] BY DEF Arrive
    <2>3. 0 \notin Days /\ d \in 0 .. LastDay BY DayFacts, DayAssumption DEF Days
    <2> HIDE DEF Days
    <2> QED BY <2>1, <2>2, <2>3
<1> QED BY <1>1, AccountTypes DEF Arrive

\* A message changes, and keeps its day of receipt.
LEMMA ModifyTypes ==
    ASSUME Types, NEW m \in Msg, NEW x \in Meta, Modify(m, x) PROVE Types'
<1>1. received[m] \in Days BY DEF Modify, Types, InStage
<1>2. received' = received /\ received \in [Msg -> 0 .. LastDay]
    BY DEF Modify, Types, TypeOK
<1> QED BY <1>1, <1>2, AccountTypes DEF Modify

\* A message is destroyed; its day is not forgotten.
LEMMA DestroyTypes ==
    ASSUME Types, NEW m \in Msg, Destroy(m) PROVE Types'
<1>1. received' = received /\ received \in [Msg -> 0 .. LastDay]
    BY DEF Destroy, Types, TypeOK
<1> QED BY <1>1, AccountTypes DEF Destroy

\* A day ends, and HEAD's tree is noted.
LEMMA TickTypes == ASSUME Types, Tick PROVE Types'
<1> USE DEF Types, Tick, accountVars, repoVars, savedVars, storeVars, passVars
<1>1. today' \in FirstDay .. LastDay
    <2>1. today \in FirstDay .. LastDay /\ today < LastDay /\ today' = today + 1
        BY DEF TypeOK
    <2> QED BY <2>1, DayAssumption
<1>2. atEnd' \in [Days -> Tree] BY HeadTreeTypes DEF TypeOK
<1>3. TypeOK' BY <1>1, <1>2 DEF TypeOK
<1> QED BY <1>3 DEF InStage, SidecarsRead, Sidecars

-----------------------------------------------------------------------------
\* A pass that ends, however it does, leaves nothing in memory.
LEMMA ReturnTypes ==
    ASSUME Types, Return,
           UNCHANGED <<today, mail, received, changes, chain, historyVars>>,
           work' \in Tree, Sidecars(work'), edits' \subseteq File,
           behind' \subseteq Msg, since' \subseteq Msg,
           dstate' \in State, dindex' \in Index
    PROVE  Types'
<1> USE DEF Types, Return, historyVars
<1>1. TypeOK' BY IdleTypes, DayFacts DEF TypeOK
<1>2. InStage'
    <2>1. \A m \in Msg : plan'[m] \notin Meta
        BY MetaAssumption DEF NoPlan
    <2> QED BY <2>1 DEF InStage
<1>3. SidecarsRead' BY DEF SidecarsRead, Sidecars
<1> QED BY <1>1, <1>2, <1>3

\* The root commit is a commit, and what came before it stays.
LEMMA RootTypes ==
    ASSUME Types
    PROVE  /\ WithRoot \in Seq(Commit) /\ WithRoot # <<>>
           /\ \A i \in DOMAIN WithRoot : Sidecars(WithRoot[i].tree)
           /\ chain # <<>> => WithRoot = chain
<1>1. CASE chain # <<>>
    BY <1>1 DEF WithRoot, Types, TypeOK, SidecarsRead
<1>2. CASE chain = <<>>
    <2> DEFINE root == [tree |-> Empty, date |-> today, label |-> 0, live |-> FALSE]
    <2>1. root \in Commit
        BY IdleTypes, DayFacts DEF Commit, Types, TypeOK
    <2>2. WithRoot = <<root>> BY <1>2 DEF WithRoot
    <2>3. Sidecars(root.tree) BY IdleTypes
    <2> HIDE DEF root
    <2> QED BY <1>2, <2>1, <2>2, <2>3
<1> QED BY <1>1, <1>2

\* The index a pass opens is one of metadata, cached or rebuilt (open, 452-499).
LEMMA BeginTypes ==
    ASSUME Types, NEW r \in BOOLEAN, Begin(r) PROVE Types'
<1> USE DEF Types, Begin, repoVars, savedVars, historyVars
<1>1. /\ chain' \in Seq(Commit) /\ chain' # <<>>
      /\ \A i \in DOMAIN chain' : Sidecars(chain'[i].tree)
    BY RootTypes
<1>2. ix' \in Index
    <2>1. Sidecars(chain'[Len(chain')].tree) BY <1>1, Ends
    <2> QED BY <2>1, IndexedTypes DEF OpenedIndex, TypeOK
<1>3. day' \in 0 .. LastDay BY DEF TypeOK, State
<1>4. TypeOK' BY <1>1, <1>2, <1>3 DEF TypeOK
<1>5. InStage' BY <1>1 DEF InStage
<1>6. SidecarsRead' BY <1>1 DEF SidecarsRead, Sidecars
<1> QED BY <1>4, <1>5, <1>6

-----------------------------------------------------------------------------
\* The mail of a day is mail.
LEMMA OfDayTypes ==
    ASSUME Types, NEW d
    PROVE  /\ OfDay(d) \in [Msg -> Meta \cup {None, "keep"}]
           /\ \A m \in Msg : OfDay(d)[m] \in Meta => received[m] \in Days
           /\ \A m \in Msg : OfDay(d)[m] # None
<1>1. mail \in Index BY DEF Types, TypeOK
<1>2. \A m \in ToBackfill : m \in Msg /\ mail[m] # None BY DEF ToBackfill
<1>3. \A m \in Msg : OfDay(d)[m] = "keep" \/ (m \in ToBackfill /\ OfDay(d)[m] = mail[m])
    BY DEF OfDay
<1>4. OfDay(d) \in [Msg -> Meta \cup {None, "keep"}] BY <1>1 DEF OfDay, Index
<1> QED BY <1>2, <1>3, <1>4, MetaAssumption DEF Types, InStage

\* A backfilled day is a day (finalize_day, 184-255).
LEMMA BackfillDayTypes == ASSUME Types, BackfillDay PROVE Types'
<1> USE DEF Types, BackfillDay, accountVars, savedVars
<1>1. OfDay(day') \in [Msg -> Meta \cup {None, "keep"}] BY OfDayTypes
<1>2. /\ work' \in Tree /\ Sidecars(work') /\ ix' \in Index
      /\ pending' \subseteq File /\ edits' = {}
      /\ odd' \subseteq {"late", "overnight", "reindexed", "leftover"}
    BY <1>1, ApplyIsApplied, ApplyTypes
<1>3. day' \in Days /\ day' \in 0 .. LastDay BY DayFacts
<1>4. st' \in State BY <1>3 DEF TypeOK, State
<1>5. point' \in [date : 0 .. LastDay, live : BOOLEAN] BY <1>3
<1>6. TypeOK' BY <1>2, <1>3, <1>4, <1>5 DEF TypeOK
<1>7. InStage' BY <1>3 DEF InStage
<1>8. SidecarsRead' BY <1>2 DEF SidecarsRead, Sidecars
<1> QED BY <1>6, <1>7, <1>8

\* The state a backfill ends with is a state (backfill::run, 154-176).
LEMMA BackfillEndsTypes == ASSUME Types, BackfillEnds PROVE Types'
<1> USE DEF Types, BackfillEnds, accountVars, repoVars, historyVars
<1>1. dstate' \in State /\ dindex' \in Index
    BY DayFacts DEF TypeOK, State
<1>2. CASE refresh
    <2>1. behind' \subseteq Msg /\ since' \subseteq Msg /\ edits' \subseteq File BY DEF TypeOK
    <2>2. work' \in Tree /\ Sidecars(work') BY DEF TypeOK, SidecarsRead
    <2> QED BY <1>1, <1>2, <2>1, <2>2, ReturnTypes
<1>3. CASE ~refresh
    <2>1. TypeOK' BY <1>1, <1>3 DEF TypeOK
    <2>2. InStage' BY <1>3 DEF InStage
    <2>3. SidecarsRead' BY DEF SidecarsRead, Sidecars
    <2> QED BY <2>1, <2>2, <2>3
<1> QED BY <1>2, <1>3

\* What is planned has been received (sync::run, reconcile).
LEMMA PlanTypes == ASSUME Types, Plan PROVE Types'
<1> USE DEF Types, Plan, storeVars, repoVars, savedVars, historyVars
<1>1. CASE ~refresh /\ behind = {}
    <2>1. work' \in Tree /\ Sidecars(work') /\ edits' \subseteq File BY DEF TypeOK, SidecarsRead
    <2> QED BY <1>1, <2>1, ReturnTypes DEF TypeOK
<1>2. CASE ~(~refresh /\ behind = {})
    <2>1. plan' = [m \in Msg |-> IF Differs(m) THEN mail[m] ELSE "keep"]
        BY <1>2
    <2>2. plan' \in [Msg -> Meta \cup {None, "keep"}]
        BY <2>1 DEF TypeOK, Index
    <2>3. day' \in 0 .. LastDay /\ day' \in Days
        BY <1>2, DayFacts DEF TypeOK
    <2>4. TypeOK' BY <1>2, <2>2, <2>3 DEF TypeOK
    <2>5. ASSUME NEW m \in Msg, plan'[m] \in Meta PROVE received[m] \in Days
        BY <2>1, <2>5, MetaAssumption DEF InStage
    <2>6. InStage' BY <1>2, <2>3, <2>5 DEF InStage
    <2>7. SidecarsRead' BY DEF SidecarsRead, Sidecars
    <2> QED BY <2>4, <2>6, <2>7
<1> QED BY <1>1, <1>2

\* A part of the plan is a plan.
LEMMA OnlyTypes ==
    ASSUME Types, NEW S
    PROVE  /\ Only(S) \in [Msg -> Meta \cup {None, "keep"}]
           /\ \A m \in Msg : Only(S)[m] \in Meta => received[m] \in Days
BY MetaAssumption DEF Types, TypeOK, InStage, Only

\* The day of a group of older mail is a day (apply_planned, 421-446).
LEMMA ApplyOlderDayTypes == ASSUME Types, ApplyOlderDay PROVE Types'
<1> USE DEF Types, accountVars, savedVars
<1>1. PICK d \in Days :
        /\ Apply(Only(Group(d))) /\ plan' = Only(Msg \ Group(d))
        /\ point' = [date |-> d, live |-> FALSE]
    BY DEF ApplyOlderDay
<1>2. /\ pc' = "commit" /\ chain' = chain /\ chain # <<>> /\ day \in Days
      /\ UNCHANGED <<today, mail, received, behind, since, dstate, dindex, st,
                     refresh, day, atEnd>>
    BY DEF ApplyOlderDay, InStage
<1>3. /\ plan' \in [Msg -> Meta \cup {None, "keep"}]
      /\ \A m \in Msg : plan'[m] \in Meta => received[m] \in Days
    BY <1>1, OnlyTypes
<1>4. /\ work' \in Tree /\ Sidecars(work') /\ ix' \in Index
      /\ pending' \subseteq File /\ edits' = {}
      /\ odd' \subseteq {"late", "overnight", "reindexed", "leftover"}
    BY <1>1, OnlyTypes, ApplyIsApplied, ApplyTypes
<1>5. /\ point' \in [date : 0 .. LastDay, live : BOOLEAN]
      /\ point'.date \in Days
    BY <1>1, DayFacts
<1>6. TypeOK' BY <1>2, <1>3, <1>4, <1>5 DEF TypeOK
<1>7. InStage' BY <1>2, <1>3, <1>5 DEF InStage
<1>8. SidecarsRead' BY <1>2, <1>4 DEF SidecarsRead, Sidecars
<1> QED BY <1>6, <1>7, <1>8

\* Today's checkpoint has a day (apply_planned, 448-478).
LEMMA ApplyRestTypes == ASSUME Types, ApplyRest PROVE Types'
<1> USE DEF Types, ApplyRest, accountVars, savedVars
<1>1. /\ work' \in Tree /\ Sidecars(work') /\ ix' \in Index
      /\ pending' \subseteq File /\ edits' \subseteq File
      /\ odd' \subseteq {"late", "overnight", "reindexed", "leftover"}
    <2>1. plan \in [Msg -> Meta \cup {None, "keep"}] BY DEF TypeOK
    <2>2. CASE Apply(plan) BY <2>1, <2>2, ApplyIsApplied, ApplyTypes
    <2>3. CASE UNCHANGED <<work, ix, pending, edits, odd>>
        BY <2>3 DEF TypeOK, SidecarsRead, Sidecars
    <2> QED BY <2>2, <2>3
<1>2. /\ point' \in [date : 0 .. LastDay, live : BOOLEAN]
      /\ point'.date \in Days
    BY DEF InStage, TypeOK
<1>3. TypeOK' BY <1>1, <1>2, IdleTypes DEF TypeOK
<1>4. InStage'
    <2>1. \A m \in Msg : plan'[m] \notin Meta BY MetaAssumption DEF NoPlan
    <2> QED BY <1>2, <2>1 DEF InStage
<1>5. SidecarsRead' BY <1>1 DEF SidecarsRead, Sidecars
<1> QED BY <1>3, <1>4, <1>5

-----------------------------------------------------------------------------
\* A commit of a readable tree, appended or in place of the last one, leaves a
\* history of readable trees (commit_new, amend_head).
LEMMA NextChainTypes ==
    ASSUME Types, pc = "commit", NEW tree \in Tree, Sidecars(tree)
    PROVE  /\ NextChain(tree) \in Seq(Commit) /\ NextChain(tree) # <<>>
           /\ \A i \in DOMAIN NextChain(tree) : Sidecars(NextChain(tree)[i].tree)
<1>1. /\ chain \in Seq(Commit) /\ chain # <<>>
      /\ \A i \in DOMAIN chain : Sidecars(chain[i].tree)
    BY DEF Types, TypeOK, InStage, SidecarsRead
<1>2. /\ point.date \in Days /\ point.date \in 0 .. LastDay
      /\ today \in Days /\ point.live \in BOOLEAN
    BY DayFacts DEF Types, TypeOK, InStage
<1>3. ASSUME NEW c \in Commit, c.tree = tree
      PROVE  /\ Append(chain, c) \in Seq(Commit) /\ Append(chain, c) # <<>>
             /\ \A i \in DOMAIN Append(chain, c) : Sidecars(Append(chain, c)[i].tree)
    <2>1. Append(chain, c) \in Seq(Commit) /\ Append(chain, c) # <<>> BY <1>1
    <2>2. ASSUME NEW i \in DOMAIN Append(chain, c)
          PROVE  Append(chain, c)[i] = c \/ (i \in DOMAIN chain /\ Append(chain, c)[i] = chain[i])
        BY <1>1
    <2> QED BY <1>1, <1>3, <2>1, <2>2
<1>4. ASSUME NEW d \in Days
      PROVE  /\ NewCommit(tree, d) \in Seq(Commit) /\ NewCommit(tree, d) # <<>>
             /\ \A i \in DOMAIN NewCommit(tree, d) : Sidecars(NewCommit(tree, d)[i].tree)
    <2> DEFINE c == [tree |-> tree, date |-> d, label |-> point.date, live |-> point.live]
    <2>1. c \in Commit /\ c.tree = tree BY <1>2 DEF Commit
    <2> HIDE DEF c
    <2>2. NewCommit(tree, d) = Append(chain, c) BY DEF NewCommit, c
    <2> QED BY <1>3, <2>1, <2>2
<1>5. /\ Amended(tree) \in Seq(Commit) /\ Amended(tree) # <<>>
      /\ \A i \in DOMAIN Amended(tree) : Sidecars(Amended(tree)[i].tree)
    <2> DEFINE c == [tree |-> tree, date |-> today, label |-> point.date, live |-> TRUE]
    <2>1. c \in Commit /\ c.tree = tree BY <1>2 DEF Commit
    <2> HIDE DEF c
    <2>2. Amended(tree) = [chain EXCEPT ![Len(chain)] = c] BY DEF Amended, c
    <2>3. Amended(tree) \in Seq(Commit) BY <1>1, <2>1, <2>2
    <2>4. DOMAIN Amended(tree) = DOMAIN chain BY <2>2
    <2>5. ASSUME NEW i \in DOMAIN chain
          PROVE  Amended(tree)[i] \in {c, chain[i]}
        BY <2>2
    <2>6. Amended(tree) # <<>> BY <1>1, <2>4, Ends
    <2> QED BY <1>1, <2>1, <2>3, <2>4, <2>5, <2>6
<1> QED BY <1>2, <1>4, <1>5 DEF NextChain

\* A checkpoint leaves a history of commits, and a state (checkpoint, 530-571).
LEMMA CheckpointTypes == ASSUME Types, Checkpoint PROVE Types'
<1> USE DEF Types, Checkpoint, accountVars, savedVars
<1>1. /\ chain' \in Seq(Commit) /\ chain' # <<>>
      /\ \A i \in DOMAIN chain' : Sidecars(chain'[i].tree)
    <2>1. CASE BuildTree = HeadTree
        BY <2>1 DEF TypeOK, InStage, SidecarsRead
    <2>2. CASE BuildTree # HeadTree
        BY <2>2, BuildTreeTypes, NextChainTypes
    <2> QED BY <2>1, <2>2
<1>2. odd' \subseteq {"late", "overnight", "reindexed", "leftover"} BY DEF TypeOK
<1>3. st' \in State
    <2>1. st \in State /\ point.date \in 0 .. LastDay BY DEF TypeOK
    <2>2. \/ st' = [st EXCEPT !.head = chain']
          \/ st' = [st EXCEPT !.head = chain', !.commitDay = point.date]
          \/ st' = [st EXCEPT !.head = chain', !.commitDay = st.commitDay]
        OBVIOUS
    <2> QED BY <1>1, <2>1, <2>2 DEF State
<1>4. TypeOK' BY <1>1, <1>2, <1>3 DEF TypeOK
<1>5. InStage'
    <2>1. st'.phase = st.phase BY DEF TypeOK, State
    <2>2. pc' \in {"commit", "save"} /\ st'.phase # "backfill" => day' \in Days
        BY <2>1 DEF InStage
    <2> QED BY <1>1, <2>2 DEF InStage
<1>6. SidecarsRead' BY <1>1 DEF SidecarsRead, Sidecars
<1> QED BY <1>4, <1>5, <1>6

\* What is saved is a state and an index (checkpoint, 674-679).
LEMMA SaveTypes == ASSUME Types, Save PROVE Types'
<1> USE DEF Types, Save, repoVars, historyVars
<1>1. dstate' \in State /\ dindex' \in Index BY DEF TypeOK
<1>2. behind' \subseteq Msg /\ since' \subseteq Msg BY DEF TypeOK
<1>3. CASE pc = "save end"
    <2>1. work' \in Tree /\ Sidecars(work') /\ edits' \subseteq File
        BY DEF TypeOK, SidecarsRead
    <2> QED BY <1>1, <1>2, <1>3, <2>1, ReturnTypes
<1>4. CASE pc = "save"
    <2>1. /\ UNCHANGED <<storeVars, refresh, day, plan, point>>
          /\ pc' = IF st.phase = "backfill" THEN "enumerate" ELSE "apply"
        BY <1>4
    <2>2. TypeOK' BY <1>1, <1>2, <2>1 DEF TypeOK, storeVars
    <2>3. pc' = "apply" => day' \in Days BY <1>4, <2>1 DEF InStage
    <2>4. InStage' BY <1>4, <2>1, <2>3 DEF InStage
    <2>5. SidecarsRead' BY DEF SidecarsRead, Sidecars
    <2> QED BY <2>2, <2>4, <2>5
<1> QED BY <1>3, <1>4

\* What a pass is about to apply are events.
LEMMA UnderwayTypes ==
    ASSUME Types, NEW events \in Underway
    PROVE  /\ events \in [Msg -> Meta \cup {None, "keep"}]
           /\ \A m \in Msg : events[m] \in Meta => received[m] \in Days
           /\ \A m \in Msg : events[m] = None => events = plan
<1>1. CASE events = NoPlan BY <1>1, IdleTypes, MetaAssumption DEF NoPlan
<1>2. CASE \E d \in Days : events = OfDay(d) BY <1>2, OfDayTypes
<1>3. CASE events = plan BY <1>3 DEF Types, TypeOK, InStage
<1>4. CASE \E d \in Days : events = Only(Group(d))
    <2>1. PICK d \in Days : events = Only(Group(d)) BY <1>4
    <2>2. \A m \in Msg : events[m] # None
        BY <2>1, MetaAssumption DEF Only, Group, OlderAdds
    <2> QED BY <2>1, <2>2, OnlyTypes
<1> QED BY <1>1, <1>2, <1>3, <1>4 DEF Underway

\* A pass that is killed or fails leaves what was saved, and the worktree with
\* some of the edits under way.
LEMMA StopTypes == ASSUME Types, Stop \/ Fail PROVE Types'
<1>0. PICK events \in Underway : \E files \in Progress(events) :
        Over(events, files) /\ edits' \in {{}, edits \cup files}
    BY DEF Stop, Fail
<1>1. PICK files \in Progress(events) :
        Over(events, files) /\ edits' \in {{}, edits \cup files}
    BY <1>0
<1>2. events \in [Msg -> Meta \cup {None, "keep"}] BY UnderwayTypes
<1>3. files \in SUBSET Edited(events) BY DEF Progress
<1>4. work' \in Tree /\ Sidecars(work') BY <1>1, <1>2, <1>3, WrittenTypes DEF Over
<1>5. edits' \subseteq File
    <2>1. edits \subseteq File BY DEF Types, TypeOK
    <2> QED BY <1>1, <1>2, <1>3, <2>1, EditedFacts
<1>6. /\ behind' \subseteq Msg /\ since' \subseteq Msg
      /\ dstate' \in State /\ dindex' \in Index
    BY <1>1 DEF Over, savedVars, Types, TypeOK
<1> QED BY <1>1, <1>4, <1>5, <1>6, ReturnTypes DEF Over

\* An index read from the worktree is one of metadata (main.rs Index).
LEMMA ReindexTypes == ASSUME Types, Reindex PROVE Types'
<1> USE DEF Types, Reindex, accountVars, repoVars, storeVars, passVars
<1>1. dindex' \in Index BY IndexedTypes DEF SidecarsRead
<1>2. TypeOK' BY <1>1 DEF TypeOK
<1> QED BY <1>2 DEF InStage, SidecarsRead, Sidecars

\* Every step keeps the types.
LEMMA TypesStep == ASSUME Types, [Next]_vars PROVE Types'
<1>1. CASE UNCHANGED vars
    BY <1>1 DEF vars, accountVars, repoVars, savedVars, storeVars, passVars,
        historyVars, Types, TypeOK, InStage, SidecarsRead, Sidecars
<1>2. ASSUME NEW m \in Msg, NEW x \in Meta, NEW d \in Days, Arrive(m, x, d)
      PROVE Types'
    BY <1>2, ArriveTypes
<1>3. ASSUME NEW m \in Msg, NEW x \in Meta, Modify(m, x) PROVE Types'
    BY <1>3, ModifyTypes
<1>4. ASSUME NEW m \in Msg, Destroy(m) PROVE Types' BY <1>4, DestroyTypes
<1>5. CASE Tick BY <1>5, TickTypes
<1>6. ASSUME NEW r \in BOOLEAN, Begin(r) PROVE Types' BY <1>6, BeginTypes
<1>7. CASE BackfillDay BY <1>7, BackfillDayTypes
<1>8. CASE BackfillEnds BY <1>8, BackfillEndsTypes
<1>9. CASE Plan BY <1>9, PlanTypes
<1>10. CASE ApplyOlderDay BY <1>10, ApplyOlderDayTypes
<1>11. CASE ApplyRest BY <1>11, ApplyRestTypes
<1>12. CASE Checkpoint BY <1>12, CheckpointTypes
<1>13. CASE Save BY <1>13, SaveTypes
<1>14. CASE Stop \/ Fail BY <1>14, StopTypes
<1>15. CASE Reindex BY <1>15, ReindexTypes
<1> QED
    BY <1>1, <1>2, <1>3, <1>4, <1>5, <1>6, <1>7, <1>8, <1>9, <1>10, <1>11,
        <1>12, <1>13, <1>14, <1>15 DEF Next

\* Every variable keeps its type, for any messages, days and bounds: no sidecar
\* is ever read from a mail's bytes, no commit is without a day, and no commit
\* is built on an empty repository (git.rs).
THEOREM LedgerTypes == Spec => []TypeOK
<1>1. Init => Types BY InitTypes
<1>2. Types /\ [Next]_vars => Types' BY TypesStep
<1>3. Types => TypeOK BY DEF Types
<1> QED BY <1>1, <1>2, <1>3, PTL DEF Spec

-----------------------------------------------------------------------------
(* Dates.                                                                   *)

\* The numbers the days are compared as.
LEMMA Numbers ==
    ASSUME Types
    PROVE  /\ today \in Nat /\ day \in Nat /\ point.date \in Nat
           /\ \A s \in {st, dstate} : s.last \in Nat /\ s.commitDay \in Nat
           /\ \A m \in Msg : received[m] \in Nat
           /\ Len(chain) \in Nat /\ DOMAIN chain = 1 .. Len(chain)
           /\ \A i \in DOMAIN chain : chain[i].date \in Nat /\ chain[i].label \in Nat
<1>1. /\ 0 .. LastDay \subseteq Nat /\ Days \subseteq Nat
      /\ FirstDay .. LastDay \subseteq Nat
    BY DayAssumption DEF Days
<1>2. /\ Len(chain) \in Nat /\ DOMAIN chain = 1 .. Len(chain)
      /\ \A i \in DOMAIN chain : chain[i] \in Commit
    <2>1. chain \in Seq(Commit) BY DEF Types, TypeOK
    <2> QED BY <2>1
<1>3. \A i \in DOMAIN chain : chain[i].date \in Nat /\ chain[i].label \in Nat
    BY <1>1, <1>2 DEF Commit
<1>4. \A s \in {st, dstate} : s.last \in Nat /\ s.commitDay \in Nat
    BY <1>1 DEF Types, TypeOK, State
<1>5. today \in Nat /\ day \in Nat /\ point.date \in Nat
    BY <1>1 DEF Types, TypeOK
<1>6. \A m \in Msg : received[m] \in Nat BY <1>1 DEF Types, TypeOK
<1> QED BY <1>2, <1>3, <1>4, <1>5, <1>6

\* When the program starts nothing is dated.
LEMMA InitDates == ASSUME Init PROVE Dates
<1>1. \A m \in Msg : received[m] <= today
    <2>1. \A m \in Msg : received[m] \in 0 .. FirstDay BY DEF Init
    <2> QED BY <2>1, DayAssumption DEF Init
<1>2. NotLater
    BY <1>1, DayAssumption DEF Init, Closed, NotLater, NoPoint, NewState, Saved
<1>3. CommitDayHeld BY DEF Init, Closed, CommitDayHeld, NewState, Saved
<1>4. InItsDay BY DEF Init, Closed, InItsDay
<1> QED BY <1>2, <1>3, <1>4 DEF Dates

\* Nothing about dates changes with the account, as mail is received today or
\* before, or with the index.
LEMMA SameDates ==
    ASSUME Types, Dates, UNCHANGED <<today, chain, dstate, st, pc, day, point>>,
           "overnight" \in odd => "overnight" \in odd',
           \A m \in Msg : received'[m] <= today
    PROVE  Dates'
BY DEF Dates, NotLater, CommitDayHeld, InItsDay

\* A pass that ends keeps what is saved.
LEMMA ReturnDates ==
    ASSUME Types, Dates, Return, UNCHANGED <<today, received, chain, odd>>,
           dstate'.last <= today, dstate'.commitDay \in {st.commitDay, dstate.commitDay}
    PROVE  Dates'
<1>1. today \in Nat BY Numbers
<1>2. NotLater' BY <1>1 DEF Return, Dates, NotLater, NewState, Saved, NoPoint
<1>3. CommitDayHeld' BY DEF Return, Dates, CommitDayHeld, NewState, Saved
<1>4. InItsDay' BY DEF Return, Dates, InItsDay
<1> QED BY <1>2, <1>3, <1>4 DEF Dates

\* A new day makes nothing later than today; a pass under way is overnight.
LEMMA TickDates == ASSUME Types, Dates, Tick PROVE Dates'
<1> USE DEF Tick, accountVars, repoVars, savedVars, storeVars, passVars, Dates
<1>1. NotLater' BY Numbers DEF NotLater
<1>2. CommitDayHeld' BY DEF CommitDayHeld
<1>3. InItsDay'
    <2>1. CASE pc = "idle" BY <2>1 DEF InItsDay
    <2>2. CASE pc # "idle" BY <2>2 DEF InItsDay
    <2> QED BY <2>1, <2>2
<1> QED BY <1>1, <1>2, <1>3

\* The root commit is of today, and with it no commit day is remembered.
LEMMA BeginDates ==
    ASSUME Types, Dates, NEW r \in BOOLEAN, Begin(r) PROVE Dates'
<1> USE DEF Begin, savedVars, historyVars, Dates
<1>1. CASE chain # <<>>
    <2>1. chain' = chain BY <1>1, RootTypes
    <2>2. NotLater' BY <2>1 DEF NotLater
    <2>3. CommitDayHeld' BY <2>1 DEF CommitDayHeld
    <2>4. InItsDay' BY <2>1 DEF InItsDay
    <2> QED BY <2>2, <2>3, <2>4
<1>2. CASE chain = <<>>
    <2> DEFINE root == [tree |-> Empty, date |-> today, label |-> 0, live |-> FALSE]
    <2>1. chain' = <<root>> BY <1>2 DEF WithRoot
    <2>2. Len(chain') = 1 /\ DOMAIN chain' = {1} /\ chain'[1].date = today
        BY <2>1
    <2>3. 2 .. Len(chain') = {} BY <2>2
    <2>4. NotLater' BY <2>2, Numbers DEF NotLater
    <2>5. 2 .. Len(chain) = {} BY <1>2
    <2>6. CommitDayHeld' BY <2>5 DEF CommitDayHeld
    <2>7. InItsDay' BY <2>3 DEF InItsDay
    <2> QED BY <2>4, <2>6, <2>7
<1> QED BY <1>1, <1>2

\* The day of a backfill is one on which mail was received.
LEMMA BackfillDayDates == ASSUME Types, Dates, BackfillDay PROVE Dates'
<1> USE DEF BackfillDay, accountVars, savedVars, Dates
<1>0. "overnight" \in odd <=> "overnight" \in odd' BY DEF Apply
<1>1. day' <= today
    <2>1. PICK m \in ToBackfill : received[m] = day' BY DEF IsEarliest
    <2> QED BY <2>1 DEF ToBackfill, NotLater
<1>2. /\ st'.phase = "backfill" /\ st'.last = day'
      /\ st'.commitDay = st.commitDay
    BY DEF Types, TypeOK, State
<1>3. NotLater' BY <1>1, <1>2 DEF NotLater
<1>4. CommitDayHeld' BY <1>2 DEF CommitDayHeld
<1>5. InItsDay' BY <1>0, <1>2 DEF InItsDay
<1> QED BY <1>3, <1>4, <1>5

\* The end of a backfill forgets its last day and keeps its commit day.
LEMMA BackfillEndsDates == ASSUME Types, Dates, BackfillEnds PROVE Dates'
<1> USE DEF BackfillEnds, accountVars, repoVars, historyVars, Dates
<1>1. dstate'.last = 0 /\ dstate'.commitDay = st.commitDay
    BY DEF Types, TypeOK, State
<1>2. dstate'.last <= today BY <1>1, Numbers
<1>3. CASE refresh BY <1>1, <1>2, <1>3, ReturnDates
<1>4. CASE ~refresh
    <2>1. NotLater' BY <1>2, <1>4 DEF NotLater
    <2>2. CommitDayHeld' BY <1>1, <1>4 DEF CommitDayHeld
    <2>3. InItsDay' BY <1>4 DEF InItsDay
    <2> QED BY <2>1, <2>2, <2>3
<1> QED BY <1>3, <1>4

\* A pass takes the day of its planning for today.
LEMMA PlanDates == ASSUME Types, Dates, Plan PROVE Dates'
<1> USE DEF Plan, repoVars, savedVars, storeVars, historyVars, Dates
<1>1. CASE ~refresh /\ behind = {}
    BY <1>1, ReturnDates DEF NotLater
<1>2. CASE ~(~refresh /\ behind = {})
    <2>1. NotLater' BY <1>2, Numbers DEF NotLater
    <2>2. CommitDayHeld' BY <1>2 DEF CommitDayHeld
    <2>3. InItsDay' BY <1>2 DEF InItsDay
    <2> QED BY <2>1, <2>2, <2>3
<1> QED BY <1>1, <1>2

\* An older day is one on which mail was received.
LEMMA ApplyOlderDayDates == ASSUME Types, Dates, ApplyOlderDay PROVE Dates'
<1> USE DEF Dates
<1>1. PICK d \in Days :
        IsEarliest(d, OlderAdds) /\ point' = [date |-> d, live |-> FALSE]
    BY DEF ApplyOlderDay
<1>0. /\ pc = "apply" /\ pc' = "commit"
      /\ UNCHANGED <<today, received, chain, dstate, st, day>>
      /\ "overnight" \in odd <=> "overnight" \in odd'
    BY DEF ApplyOlderDay, Apply, accountVars, savedVars
<1>2. point'.date <= today
    <2>1. PICK m \in OlderAdds : received[m] = d BY <1>1 DEF IsEarliest
    <2> QED BY <1>1, <2>1 DEF OlderAdds, NotLater
<1>3. NotLater' BY <1>0, <1>2 DEF NotLater
<1>4. CommitDayHeld' BY <1>0 DEF CommitDayHeld
<1>5. InItsDay' BY <1>0, <1>1 DEF InItsDay
<1> QED BY <1>3, <1>4, <1>5

\* The rest is committed as of the pass's day, which is today.
LEMMA ApplyRestDates == ASSUME Types, Dates, ApplyRest PROVE Dates'
<1> USE DEF ApplyRest, accountVars, savedVars, Dates
<1>0. "overnight" \in odd <=> "overnight" \in odd' BY DEF Apply
<1>1. NotLater' BY DEF NotLater
<1>2. CommitDayHeld' BY DEF CommitDayHeld
<1>3. InItsDay' BY <1>0 DEF InItsDay
<1> QED BY <1>1, <1>2, <1>3

\* A checkpoint amends the last commit, live and on its commit day, or it
\* appends one.
LEMMA AmendsOrAppends ==
    ASSUME Types, pc = "commit", NEW tree
    PROVE  LET next == NextChain(tree) IN
           \/ /\ point.live /\ st.commitDay = point.date
              /\ Len(next) = Len(chain)
              /\ \A i \in 1 .. Len(chain) : i # Len(chain) => next[i] = chain[i]
              /\ next[Len(chain)].date = today /\ next[Len(chain)].label = point.date
           \/ /\ Len(next) = Len(chain) + 1
              /\ \A i \in 1 .. Len(chain) : next[i] = chain[i]
              /\ next[Len(chain) + 1].label = point.date
              /\ next[Len(chain) + 1].date = IF point.live THEN today ELSE point.date
<1>1. chain \in Seq(Commit) /\ chain # <<>> BY DEF Types, TypeOK, InStage
<1>2. Len(chain) \in Nat /\ DOMAIN chain = 1 .. Len(chain) BY <1>1
<1>3. CASE point.live /\ Amendable
    <2> DEFINE c == [tree |-> tree, date |-> today, label |-> point.date, live |-> TRUE]
    <2>1. NextChain(tree) = [chain EXCEPT ![Len(chain)] = c]
        BY <1>3 DEF NextChain, Amended
    <2>2. c.date = today /\ c.label = point.date OBVIOUS
    <2> HIDE DEF c
    <2>3. Len(NextChain(tree)) = Len(chain) BY <1>1, <2>1
    <2>4. NextChain(tree)[Len(chain)] = c BY <1>1, <2>1, Ends
    <2>5. \A i \in 1 .. Len(chain) : i # Len(chain) => NextChain(tree)[i] = chain[i]
        BY <1>2, <2>1
    <2>6. point.live /\ st.commitDay = point.date BY <1>3 DEF Amendable
    <2> QED BY <2>2, <2>3, <2>4, <2>5, <2>6
<1>4. ASSUME NEW d, NextChain(tree) = NewCommit(tree, d),
             d = IF point.live THEN today ELSE point.date
      PROVE  LET next == NextChain(tree) IN
             /\ Len(next) = Len(chain) + 1
             /\ \A i \in 1 .. Len(chain) : next[i] = chain[i]
             /\ next[Len(chain) + 1].label = point.date
             /\ next[Len(chain) + 1].date = d
    <2> DEFINE c == [tree |-> tree, date |-> d, label |-> point.date, live |-> point.live]
    <2>1. NextChain(tree) = Append(chain, c) BY <1>4 DEF NewCommit
    <2>2. c.date = d /\ c.label = point.date OBVIOUS
    <2> HIDE DEF c
    <2>3. /\ Len(Append(chain, c)) = Len(chain) + 1
          /\ \A i \in 1 .. Len(chain) : Append(chain, c)[i] = chain[i]
          /\ Append(chain, c)[Len(chain) + 1] = c
        BY <1>1
    <2> QED BY <2>1, <2>2, <2>3
<1>5. CASE ~(point.live /\ Amendable) BY <1>4, <1>5 DEF NextChain
<1> QED BY <1>3, <1>5

\* No commit disappears, and none gets an earlier date.
LEMMA DatesGrow ==
    ASSUME Types, Dates, Checkpoint
    PROVE  /\ Len(chain') \in Nat /\ DOMAIN chain' = 1 .. Len(chain')
           /\ Len(chain') >= Len(chain) /\ Len(chain) >= 1
           /\ \A j \in 1 .. Len(chain) : chain'[j].date >= chain[j].date
<1>1. pc = "commit" /\ chain # <<>> BY DEF Checkpoint, Types, InStage
<1>2. chain' \in Seq(Commit) BY CheckpointTypes DEF Types, TypeOK
<1>3. /\ Len(chain) \in Nat /\ Len(chain) >= 1 /\ today \in Nat
      /\ \A j \in 1 .. Len(chain) : chain[j].date \in Nat /\ chain[j].date <= today
    <2>1. Len(chain) # 0 BY <1>1 DEF Types, TypeOK
    <2> QED BY <2>1, Numbers DEF Dates, NotLater
<1>4. CASE chain' = chain BY <1>2, <1>3, <1>4
<1>5. CASE chain' = NextChain(BuildTree)
    BY <1>1, <1>2, <1>3, <1>5, AmendsOrAppends
<1> QED BY <1>4, <1>5 DEF Checkpoint

\* A live commit is dated today, a past day by itself, and the commit day has a
\* commit from then on.
LEMMA CheckpointDates == ASSUME Types, Dates, Checkpoint PROVE Dates'
<1> DEFINE next == NextChain(BuildTree)
           Amending ==
              /\ Len(chain') = Len(chain)
              /\ \A i \in 1 .. Len(chain) : i # Len(chain) => chain'[i] = chain[i]
              /\ chain'[Len(chain)].date = today
              /\ chain'[Len(chain)].label = point.date
           Appending ==
              /\ Len(chain') = Len(chain) + 1
              /\ \A i \in 1 .. Len(chain) : chain'[i] = chain[i]
              /\ chain'[Len(chain) + 1].label = point.date
              /\ chain'[Len(chain) + 1].date = IF point.live THEN today ELSE point.date
<1>1. /\ pc = "commit" /\ pc' = IF point.live THEN "save end" ELSE "save"
      /\ UNCHANGED <<today, received, dstate, day, point>>
      /\ "overnight" \in odd <=> "overnight" \in odd'
    <2>1. odd' \in {odd, odd \cup {"late"}} BY DEF Checkpoint
    <2>2. "overnight" \in odd <=> "overnight" \in odd' BY <2>1
    <2> QED BY <2>2 DEF Checkpoint, accountVars, savedVars
<1>2. /\ st'.phase = st.phase /\ st'.last = st.last
      /\ \/ st'.commitDay = st.commitDay
         \/ chain' = next /\ point.live /\ st'.commitDay = point.date
    BY DEF Checkpoint, Types, TypeOK, State
<1>3. \/ chain' = chain
      \/ chain' = next /\ point.live /\ st.commitDay = point.date /\ Amending
      \/ chain' = next /\ Appending
    <2>1. chain' = chain \/ chain' = next BY DEF Checkpoint
    <2>2. CASE chain' = next BY <1>1, <2>2, AmendsOrAppends
    <2> QED BY <2>1, <2>2
<1>4. NotLater'
    <2>1. ASSUME NEW i \in 1 .. Len(chain') PROVE chain'[i].date <= today
        <3>1. /\ \A j \in 1 .. Len(chain) : chain[j].date <= today
              /\ point.date <= today /\ today \in Nat /\ Len(chain) \in Nat
            BY Numbers DEF Dates, NotLater
        <3>2. CASE chain' = chain BY <3>1, <3>2
        <3>3. CASE Amending BY <3>1, <3>3
        <3>4. CASE Appending BY <3>1, <3>4
        <3> QED BY <1>3, <3>2, <3>3, <3>4
    <2>2. \A i \in DOMAIN chain' : chain'[i].date <= today BY <2>1, DatesGrow
    <2> QED BY <1>1, <1>2, <2>2 DEF Dates, NotLater
<1>5. CommitDayHeld'
    <2>1. ASSUME NEW d \in Nat, NEW j \in 2 .. Len(chain), chain[j].date >= d
          PROVE  \E k \in 2 .. Len(chain') : chain'[k].date >= d
        <3>1. /\ j \in 2 .. Len(chain') /\ j \in 1 .. Len(chain) /\ j \in 1 .. Len(chain')
            BY DatesGrow, Numbers
        <3>2. chain'[j].date >= chain[j].date BY <3>1, DatesGrow
        <3>3. chain[j].date \in Nat /\ chain'[j].date \in Nat
            <4>1. chain' \in Seq(Commit) BY CheckpointTypes DEF Types, TypeOK
            <4>2. chain'[j] \in Commit BY <3>1, <4>1
            <4>3. chain'[j].date \in Nat BY <4>2, DayAssumption DEF Commit, Days
            <4> QED BY <3>1, <4>3, Numbers
        <3>4. chain'[j].date >= d BY <2>1, <3>2, <3>3
        <3> QED BY <3>1, <3>4
    <2>2. \A s \in {st, dstate} : s.commitDay # 0 =>
              \E k \in 2 .. Len(chain') : chain'[k].date >= s.commitDay
        BY <2>1, Numbers DEF Dates, CommitDayHeld
    <2>3. ASSUME chain' = next, point.live
          PROVE  \E k \in 2 .. Len(chain') : chain'[k].date >= point.date
        <3>1. CASE st.commitDay = point.date
            <4>1. point.date # 0
                <5>1. point.date \in Days BY <1>1 DEF Types, InStage
                <5> QED BY <5>1 DEF Days
            <4> QED BY <2>2, <3>1, <4>1
        <3>2. CASE st.commitDay # point.date
            <4>1. /\ Len(chain') = Len(chain) + 1
                  /\ chain'[Len(chain) + 1].date = today
                <5>1. Appending BY <1>1, <2>3, <3>2, AmendsOrAppends
                <5> QED BY <2>3, <5>1
            <4>2. Len(chain) + 1 \in 2 .. Len(chain')
                BY <4>1, DatesGrow, Numbers
            <4>3. today >= point.date BY Numbers DEF Dates, NotLater
            <4> QED BY <4>1, <4>2, <4>3
        <3> QED BY <3>1, <3>2
    <2> QED BY <1>1, <1>2, <2>2, <2>3 DEF CommitDayHeld
<1>6. InItsDay'
    <2> SUFFICES ASSUME "overnight" \notin odd
                 PROVE  /\ pc' = "save" /\ st'.phase # "backfill" => day = today
                        /\ \A i \in 2 .. Len(chain') : chain'[i].date = chain'[i].label
        BY <1>1 DEF InItsDay
    <2>1. /\ pc' = "save" /\ st'.phase # "backfill" => day = today
          /\ point.live => point.date = today
          /\ \A i \in 2 .. Len(chain) : chain[i].date = chain[i].label
        BY <1>1, <1>2 DEF Dates, InItsDay
    <2>2. CASE chain' = chain BY <2>1, <2>2
    <2>3. Len(chain) \in Nat BY Numbers
    <2>4. CASE Amending /\ point.live BY <2>1, <2>3, <2>4
    <2>5. CASE Appending BY <2>1, <2>3, <2>5
    <2> QED BY <1>3, <2>1, <2>2, <2>4, <2>5
<1> QED BY <1>4, <1>5, <1>6 DEF Dates

\* What is saved has the dates of the state in memory.
LEMMA SaveDates == ASSUME Types, Dates, Save PROVE Dates'
<1> USE DEF Save, repoVars, historyVars, Dates
<1>1. dstate' = st BY DEF Save
<1>2. CASE pc = "save end"
    BY <1>1, <1>2, ReturnDates DEF NotLater
<1>3. CASE pc = "save"
    <2>1. NotLater' BY <1>1, <1>3 DEF NotLater, storeVars
    <2>2. CommitDayHeld' BY <1>1, <1>3 DEF CommitDayHeld, storeVars
    <2>3. InItsDay' BY <1>3 DEF InItsDay, storeVars
    <2> QED BY <2>1, <2>2, <2>3
<1> QED BY <1>2, <1>3

\* A pass that is killed or fails leaves the dates that were saved.
LEMMA StopDates == ASSUME Types, Dates, Stop \/ Fail PROVE Dates'
<1>1. PICK events, files : Over(events, files) BY DEF Stop, Fail
<1> QED BY <1>1, ReturnDates DEF Over, savedVars, historyVars, Dates, NotLater

\* Mail is received today or before.
LEMMA AccountDates ==
    ASSUME Types, Dates, NEW m \in Msg, NEW x, AccountStep(m, x),
           received' = received \/ \E d \in Days : d <= today /\
                                       received' = [received EXCEPT ![m] = d]
    PROVE  Dates'
<1>1. \A n \in Msg : received'[n] <= today
    BY DEF Dates, NotLater, Types, TypeOK
<1> QED BY <1>1, SameDates DEF AccountStep, repoVars, savedVars, storeVars,
        passVars, historyVars

\* Every step keeps the dates in order.
LEMMA DatesStep == ASSUME Types, Dates, [Next]_vars PROVE Dates'
<1>1. CASE UNCHANGED vars
    BY <1>1, SameDates DEF vars, accountVars, repoVars, savedVars, storeVars,
        passVars, historyVars, Dates, NotLater
<1>2. ASSUME NEW m \in Msg, NEW x \in Meta, NEW d \in Days, Arrive(m, x, d)
      PROVE Dates'
    BY <1>2, AccountDates DEF Arrive
<1>3. ASSUME NEW m \in Msg, NEW x \in Meta, Modify(m, x) PROVE Dates'
    BY <1>3, AccountDates DEF Modify
<1>4. ASSUME NEW m \in Msg, Destroy(m) PROVE Dates'
    BY <1>4, AccountDates DEF Destroy
<1>5. CASE Tick BY <1>5, TickDates
<1>6. ASSUME NEW r \in BOOLEAN, Begin(r) PROVE Dates' BY <1>6, BeginDates
<1>7. CASE BackfillDay BY <1>7, BackfillDayDates
<1>8. CASE BackfillEnds BY <1>8, BackfillEndsDates
<1>9. CASE Plan BY <1>9, PlanDates
<1>10. CASE ApplyOlderDay BY <1>10, ApplyOlderDayDates
<1>11. CASE ApplyRest BY <1>11, ApplyRestDates
<1>12. CASE Checkpoint BY <1>12, CheckpointDates
<1>13. CASE Save BY <1>13, SaveDates
<1>14. CASE Stop \/ Fail BY <1>14, StopDates
<1>15. CASE Reindex
    BY <1>15, SameDates DEF Reindex, accountVars, repoVars, storeVars, passVars,
        Dates, NotLater
<1> QED
    BY <1>1, <1>2, <1>3, <1>4, <1>5, <1>6, <1>7, <1>8, <1>9, <1>10, <1>11,
        <1>12, <1>13, <1>14, <1>15 DEF Next

-----------------------------------------------------------------------------
(* The commit of a day that is over.                                        *)

SealedStep ==
    \A i \in DOMAIN chain :
        chain[i].label < today /\ ~OutOfOrder(i) /\ "overnight" \notin odd =>
            i \in DOMAIN chain' /\ chain'[i] = chain[i]

\* A live checkpoint that amends the commit of a past day would have today for
\* its commit day; then the history holds a commit dated today or later, which
\* is this one, whose date is its own day, or one before it, and then it is
\* out of order.
LEMMA CheckpointSeals == ASSUME Types, Dates, Checkpoint PROVE SealedStep
<1> SUFFICES ASSUME NEW i \in DOMAIN chain, chain[i].label < today,
                    ~OutOfOrder(i), "overnight" \notin odd
             PROVE  i \in DOMAIN chain' /\ chain'[i] = chain[i]
    BY DEF SealedStep
<1>1. pc = "commit" BY DEF Checkpoint
<1>2. /\ Len(chain) \in Nat /\ i \in 1 .. Len(chain) /\ i \in DOMAIN chain'
      /\ today \in Nat /\ chain[i].label \in Nat
    BY Numbers, DatesGrow
<1>3. CASE chain' = chain BY <1>3
<1>4. CASE chain' = NextChain(BuildTree)
    <2>1. CASE i # Len(chain) \/ ~(point.live /\ st.commitDay = point.date)
        BY <1>1, <1>2, <1>4, <2>1, AmendsOrAppends
    <2>2. CASE i = Len(chain) /\ point.live /\ st.commitDay = point.date
        <3>1. point.date = today BY <1>1, <2>2 DEF Dates, InItsDay
        <3>2. PICK j \in 2 .. Len(chain) : chain[j].date >= today
            <4>1. point.date # 0
                <5>1. point.date \in Days BY <1>1 DEF Types, InStage
                <5> QED BY <5>1 DEF Days
            <4> QED BY <2>2, <3>1, <4>1 DEF Dates, CommitDayHeld
        <3>3. j \in DOMAIN chain /\ chain[j].date \in Nat BY <1>2, Numbers
        <3>4. CASE j = i
            <4>1. chain[i].date = chain[i].label
                BY <3>4 DEF Dates, InItsDay
            <4> QED BY <1>2, <3>2, <3>4, <4>1
        <3>5. CASE j # i
            <4>1. j \in 2 .. i - 1 BY <1>2, <2>2, <3>5
            <4>2. chain[j].date > chain[i].label BY <1>2, <3>2, <3>3
            <4> QED BY <4>1, <4>2 DEF OutOfOrder
        <3> QED BY <3>4, <3>5
    <2> QED BY <2>1, <2>2
<1> QED BY <1>3, <1>4 DEF Checkpoint

\* No step but a checkpoint changes the history, except to start it.
LEMMA StepSeals == ASSUME Types, Dates, [Next]_vars PROVE SealedStep
<1>1. CASE chain' = chain BY <1>1 DEF SealedStep
<1>2. ASSUME NEW r \in BOOLEAN, Begin(r) PROVE SealedStep
    <2>1. chain = <<>> \/ chain' = chain BY <1>2, RootTypes DEF Begin
    <2>2. chain = <<>> => DOMAIN chain = {} OBVIOUS
    <2> QED BY <2>1, <2>2 DEF SealedStep
<1>3. CASE Checkpoint BY <1>3, CheckpointSeals
<1>4. \/ chain' = chain \/ (\E r \in BOOLEAN : Begin(r)) \/ Checkpoint
    <2> USE DEF repoVars
    <2>1. CASE UNCHANGED vars BY <2>1 DEF vars
    <2>2. CASE \/ \E m \in Msg, x \in Meta, d \in Days : Arrive(m, x, d)
               \/ \E m \in Msg, x \in Meta : Modify(m, x)
               \/ \E m \in Msg : Destroy(m)
        BY <2>2 DEF Arrive, Modify, Destroy, AccountStep
    <2>3. CASE Tick \/ BackfillDay \/ BackfillEnds \/ Plan
        BY <2>3 DEF Tick, BackfillDay, BackfillEnds, Plan
    <2>4. CASE ApplyOlderDay \/ ApplyRest \/ Save \/ Stop \/ Fail \/ Reindex
        BY <2>4 DEF ApplyOlderDay, ApplyRest, Save, Stop, Fail, Over, Reindex
    <2> QED BY <2>1, <2>2, <2>3, <2>4 DEF Next
<1> QED BY <1>1, <1>2, <1>3, <1>4

\* For any messages, days, bounds and interruptions, no live checkpoint amends
\* the commit of a day that is over, unless that commit came out of order or a
\* pass was under way at midnight (git.rs checkpoint, 553-558).
THEOREM DaysAreSealed == Spec => Sealed
<1>1. Init => Types /\ Dates BY InitTypes, InitDates
<1>2. Types /\ Dates /\ [Next]_vars => Types' /\ Dates' BY TypesStep, DatesStep
<1>3. Types /\ Dates /\ [Next]_vars => SealedStep BY StepSeals
<1>4. SealedStep <=>
        (\A i \in DOMAIN chain :
            chain[i].label < today /\ ~OutOfOrder(i) /\ "overnight" \notin odd =>
                i \in DOMAIN chain' /\ chain'[i] = chain[i])
    BY DEF SealedStep
<1> QED BY <1>1, <1>2, <1>3, <1>4, PTL DEF Spec, Sealed

-----------------------------------------------------------------------------
(* The index.                                                               *)

\* That an index agrees with a tree, in the words of the property.
LEMMA AgreesIsHeld ==
    ASSUME NEW index, NEW tree
    PROVE  Agrees(index, tree) <=> Held(index) = Held(Indexed(tree))
BY DEF Agrees, Held, Indexed

\* With no edit queued, the next commit is HEAD's tree.
LEMMA NothingQueued ==
    ASSUME pending = {}, NEW index
    PROVE  Agrees(index, BuildTree) <=> Agrees(index, HeadTree)
BY DEF Agrees, BuildTree, File

\* Applying events keeps the index true to the next commit, also when the
\* worktree is ahead of HEAD (DirMailStore::apply), and when it takes over the
\* edits of a like apply that failed.
LEMMA ApplyAgrees ==
    ASSUME Types, NEW events \in [Msg -> Meta \cup {None, "keep"}], Applied(events),
           chain' = chain, "leftover" \notin odd', Agrees(ix, HeadTree)
    PROVE  Agrees(ix', BuildTree')
<1>1. /\ work' = Written(Edited(events), events)
      /\ ix' = [m \in Msg |-> IF m \in Named(events) THEN events[m] ELSE ix[m]]
      /\ Edited(events) \subseteq pending'
      /\ \A f \in pending' \ Edited(events) : f[1] \in Named(events) /\ f[2] = "meta"
    BY DEF Applied
<1>2. HeadTree' = HeadTree BY DEF HeadTree, Tip
<1> SUFFICES ASSUME NEW m \in Msg
             PROVE  ix'[m] # None <=> BuildTree'[m, "meta"] # None
    BY DEF Agrees
<1>3. ix[m] # None <=> HeadTree[m, "meta"] # None BY DEF Agrees
<1>4. <<m, "meta">> \in File /\ <<m, "meta">>[1] = m BY DEF File
<1>5. CASE <<m, "meta">> \in Edited(events)
    <2>1. m \in Named(events) BY <1>4, <1>5, EditedFacts
    <2>2. work'[<<m, "meta">>] = events[m] BY <1>1, <1>4, <1>5 DEF Written, Content
    <2>3. BuildTree'[<<m, "meta">>] = events[m]
        BY <1>1, <1>4, <1>5, <2>2 DEF BuildTree
    <2> QED BY <1>1, <2>1, <2>3
<1>6. CASE <<m, "meta">> \notin Edited(events) /\ m \notin Named(events)
    <2>1. <<m, "meta">> \notin pending' BY <1>1, <1>4, <1>6
    <2>2. BuildTree'[<<m, "meta">>] = HeadTree[<<m, "meta">>]
        BY <1>2, <1>4, <2>1 DEF BuildTree
    <2> QED BY <1>1, <1>3, <1>6, <2>2
<1>7. CASE <<m, "meta">> \notin Edited(events) /\ m \in Named(events)
    <2>1. <<m, "meta">> \notin EditedFiles(m, events[m]) BY <1>7 DEF Edited
    <2>2. ix[m] # None /\ events[m] # None /\ work[<<m, "meta">>] = events[m]
        BY <1>4, <2>1 DEF EditedFiles
    <2>3. work'[<<m, "meta">>] = events[m] BY <1>1, <1>4, <1>7, <2>2 DEF Written
    <2>4. BuildTree'[<<m, "meta">>] \in {events[m], HeadTree[<<m, "meta">>]}
        BY <1>2, <1>4, <2>3 DEF BuildTree
    <2> QED BY <1>1, <1>3, <1>7, <2>2, <2>4
<1> QED BY <1>5, <1>6, <1>7

\* A checkpoint's history ends with the tree it was built for.
LEMMA NextTip ==
    ASSUME Types, pc = "commit", NEW tree \in Tree, Sidecars(tree), chain' = NextChain(tree)
    PROVE  HeadTree' = tree
<1>1. /\ chain \in Seq(Commit) /\ chain # <<>>
      /\ chain' \in Seq(Commit) /\ chain' # <<>>
    BY NextChainTypes DEF Types, TypeOK, InStage
<1>2. HeadTree' = chain'[Len(chain')].tree BY <1>1 DEF HeadTree, Tip
<1>3. ASSUME NEW d, chain' = NewCommit(tree, d) PROVE chain'[Len(chain')].tree = tree
    <2> DEFINE c == [tree |-> tree, date |-> d, label |-> point.date, live |-> point.live]
    <2>1. chain' = Append(chain, c) BY <1>3 DEF NewCommit
    <2>2. c.tree = tree OBVIOUS
    <2> HIDE DEF c
    <2>3. chain'[Len(chain')] = c BY <1>1, <2>1
    <2> QED BY <2>2, <2>3
<1>4. ASSUME chain' = Amended(tree) PROVE chain'[Len(chain')].tree = tree
    <2> DEFINE c == [tree |-> tree, date |-> today, label |-> point.date, live |-> TRUE]
    <2>1. chain' = [chain EXCEPT ![Len(chain)] = c] BY <1>4 DEF Amended
    <2>2. c.tree = tree OBVIOUS
    <2> HIDE DEF c
    <2>3. Len(chain') = Len(chain) BY <1>1, <2>1
    <2>4. chain'[Len(chain)] = c BY <1>1, <2>1, Ends
    <2> QED BY <2>2, <2>3, <2>4
<1> QED BY <1>2, <1>3, <1>4 DEF NextChain

\* When the program starts there is nothing to agree with.
LEMMA InitIndexes == ASSUME Init PROVE Indexes
<1>1. Len(<<>>) <= Len(<<>>) OBVIOUS
<1> QED
    BY <1>1 DEF Init, Closed, Indexes, EditsCommitted, HeadsKept, IndexAgrees,
        NewState, Saved

\* A step that touches neither the repository nor the index, and no pass.
LEMMA SameIndexes ==
    ASSUME Indexes, UNCHANGED <<chain, work, dstate, dindex, st, ix, pending, pc>>,
           odd \subseteq odd'
    PROVE  Indexes'
<1>1. BuildTree' = BuildTree /\ HeadTree' = HeadTree
    BY DEF BuildTree, HeadTree, Tip
<1> QED BY <1>1 DEF Indexes, EditsCommitted, HeadsKept, IndexAgrees, Agrees

\* A pass that ends: what it saved must agree with HEAD.
LEMMA ReturnIndexes ==
    ASSUME Types, Return, UNCHANGED <<chain, odd>>,
           Len(dstate'.head) <= Len(chain),
           odd \cap {"reindexed", "leftover"} = {} /\ chain # <<>> /\ dstate'.head = chain =>
               Agrees(dindex', HeadTree)
    PROVE  Indexes'
<1>1. HeadTree' = HeadTree BY DEF HeadTree, Tip
<1>2. EditsCommitted' BY DEF Return, EditsCommitted
<1>3. HeadsKept' BY DEF Return, HeadsKept
<1>4. IndexAgrees' BY <1>1 DEF Return, IndexAgrees, Agrees
<1> QED BY <1>2, <1>3, <1>4 DEF Indexes

\* Opening trusts the saved index with the HEAD it was saved with, and reads
\* any other HEAD (GitMailStore::open).
LEMMA BeginIndexes ==
    ASSUME Types, Indexes, NEW r \in BOOLEAN, Begin(r) PROVE Indexes'
<1>1. /\ pc' # "idle" /\ pc' \in {"plan", "enumerate"} /\ pending' = {}
      /\ chain' = WithRoot /\ st' = dstate /\ ix' = OpenedIndex(chain')
      /\ UNCHANGED <<work, dstate, dindex, odd>>
    BY DEF Begin, savedVars, historyVars
<1>2. /\ chain' \in Seq(Commit) /\ chain' # <<>> /\ (chain # <<>> => chain' = chain)
    BY <1>1, RootTypes
<1>3. Len(chain) \in Nat /\ Len(chain') \in Nat /\ Len(dstate.head) \in Nat
    <2>1. chain \in Seq(Commit) /\ dstate.head \in Seq(Commit)
        BY DEF Types, TypeOK, State
    <2> QED BY <1>2, <2>1
<1>4. Len(dstate.head) <= Len(chain) BY DEF Indexes, HeadsKept
<1>5. CASE chain # <<>>
    <2>1. HeadTree' = HeadTree BY <1>2, <1>5 DEF HeadTree, Tip
    <2>2. ASSUME odd \cap {"reindexed", "leftover"} = {}, dstate.head = chain'
          PROVE  Agrees(dindex, HeadTree')
        BY <1>2, <1>5, <2>1, <2>2 DEF Indexes, IndexAgrees
    <2>3. HeadsKept' BY <1>1, <1>2, <1>4, <1>5 DEF HeadsKept
    <2>4. ASSUME odd \cap {"reindexed", "leftover"} = {} PROVE Agrees(ix', HeadTree')
        <3>1. CASE dstate.head = chain' BY <1>1, <2>2, <2>4, <3>1 DEF OpenedIndex
        <3>2. CASE dstate.head # chain'
            BY <1>1, <1>2, <3>2, AgreesIsHeld DEF OpenedIndex, HeadTree, Tip
        <3> QED BY <3>1, <3>2
    <2>5. Agrees(ix', HeadTree') => Agrees(ix', BuildTree')
        BY <1>1 DEF Agrees, BuildTree, File
    <2>6. IndexAgrees' BY <1>1, <2>2, <2>4, <2>5 DEF IndexAgrees
    <2> QED BY <1>1, <2>3, <2>6 DEF Indexes, EditsCommitted
<1>6. CASE chain = <<>>
    <2>1. Len(chain) = 0 BY <1>6
    <2>2. dstate.head # chain'
        <3>1. Len(chain') # 0 BY <1>2
        <3> QED BY <1>3, <1>4, <2>1, <3>1
    <2>3. HeadsKept'
        <3>1. Len(dstate.head) <= Len(chain') BY <1>3, <1>4, <2>1
        <3> QED BY <1>1, <3>1 DEF HeadsKept
    <2>4. Agrees(ix', HeadTree')
        BY <1>1, <1>2, <2>2, AgreesIsHeld DEF OpenedIndex, HeadTree, Tip
    <2>5. Agrees(ix', BuildTree')
        BY <1>1, <2>4 DEF Agrees, BuildTree, File
    <2>6. IndexAgrees' BY <1>1, <2>2, <2>5 DEF IndexAgrees
    <2> QED BY <1>1, <2>3, <2>6 DEF Indexes, EditsCommitted
<1> QED BY <1>5, <1>6

\* Between two checkpoints the index agrees with HEAD itself.
LEMMA AgreesWithHead ==
    ASSUME Indexes, pc \notin {"idle", "commit"}, odd \cap {"reindexed", "leftover"} = {}
    PROVE  Agrees(ix, HeadTree)
BY NothingQueued DEF Indexes, EditsCommitted, IndexAgrees

\* Applying events, be it a day of mail or part of a plan.
LEMMA ApplyIndexes ==
    ASSUME Types, Indexes, pc \notin {"idle", "commit", "save", "save end"}, pc' = "commit",
           UNCHANGED <<chain, dstate, dindex>>, st'.head = st.head,
           NEW events \in [Msg -> Meta \cup {None, "keep"}], Applied(events)
    PROVE  Indexes'
<1>1. odd' \cap {"reindexed", "leftover"} = {} => Agrees(ix', BuildTree')
    <2> SUFFICES ASSUME odd' \cap {"reindexed", "leftover"} = {} PROVE Agrees(ix', BuildTree')
        OBVIOUS
    <2>1. odd \subseteq odd' BY DEF Applied
    <2>2. Agrees(ix, HeadTree) BY <2>1, AgreesWithHead
    <2> QED BY <2>2, ApplyAgrees
<1>2. HeadTree' = HeadTree /\ odd \subseteq odd' BY DEF HeadTree, Tip, Applied
<1>3. EditsCommitted' BY DEF EditsCommitted
<1>4. pc \in {"enumerate", "plan", "apply"} BY DEF Types, TypeOK
<1>5. HeadsKept' BY <1>4 DEF Indexes, HeadsKept
<1>6. IndexAgrees'
    <2>1. odd' \cap {"reindexed", "leftover"} = {} => odd \cap {"reindexed", "leftover"} = {}
        BY <1>2
    <2> QED BY <1>1, <1>2, <2>1 DEF Indexes, IndexAgrees, Agrees
<1> QED BY <1>3, <1>5, <1>6 DEF Indexes

\* Adding a day of mail (finalize_day).
LEMMA BackfillDayIndexes ==
    ASSUME Types, Indexes, BackfillDay PROVE Indexes'
<1>1. /\ pc = "enumerate" /\ pc' = "commit" /\ chain' = chain
      /\ UNCHANGED <<dstate, dindex>> /\ Apply(OfDay(day'))
    BY DEF BackfillDay, savedVars
<1>2. OfDay(day') \in [Msg -> Meta \cup {None, "keep"}] BY OfDayTypes
<1>3. st'.head = st.head BY DEF BackfillDay, Types, TypeOK, State
<1> QED BY <1>1, <1>2, <1>3, ApplyIsApplied, ApplyIndexes

\* The index a backfill ends with is saved when HEAD holds what it names.
LEMMA BackfillEndsIndexes ==
    ASSUME Types, Indexes, BackfillEnds PROVE Indexes'
<1>1. /\ pc = "enumerate" /\ dstate'.head = st.head /\ st.head = dstate.head
      /\ dindex' = ix /\ UNCHANGED <<chain, work, odd>>
    BY DEF BackfillEnds, repoVars, historyVars, Types, TypeOK, State, Indexes, HeadsKept
<1>2. HeadTree' = HeadTree BY <1>1 DEF HeadTree, Tip
<1>3. odd \cap {"reindexed", "leftover"} = {} => Agrees(dindex', HeadTree)
    BY <1>1, AgreesWithHead
<1>4. Len(dstate'.head) <= Len(chain) BY <1>1 DEF Indexes, HeadsKept
<1>5. CASE refresh
    BY <1>1, <1>3, <1>4, <1>5, ReturnIndexes DEF BackfillEnds
<1>6. CASE ~refresh
    <2>1. pc' = "plan" /\ st' = dstate' /\ UNCHANGED <<ix, pending>>
        BY <1>6 DEF BackfillEnds
    <2>2. BuildTree' = BuildTree BY <1>1, <1>2, <2>1 DEF BuildTree
    <2>3. EditsCommitted' BY <1>1, <2>1 DEF Indexes, EditsCommitted
    <2>4. HeadsKept' BY <1>1, <1>4, <2>1 DEF HeadsKept
    <2>5. IndexAgrees'
        BY <1>1, <1>2, <1>3, <2>1, <2>2 DEF Indexes, IndexAgrees, Agrees
    <2> QED BY <2>3, <2>4, <2>5 DEF Indexes
<1> QED BY <1>5, <1>6

\* Planning changes neither.
LEMMA PlanIndexes == ASSUME Types, Indexes, Plan PROVE Indexes'
<1>1. pc = "plan" /\ UNCHANGED <<chain, work, dstate, dindex, odd>>
    BY DEF Plan, repoVars, savedVars, historyVars
<1>2. CASE ~refresh /\ behind = {}
    <2>1. Return BY <1>2 DEF Plan
    <2> QED BY <1>1, <2>1, ReturnIndexes DEF Indexes, HeadsKept, IndexAgrees
<1>3. CASE ~(~refresh /\ behind = {})
    <2>1. pc' = "apply" /\ UNCHANGED <<st, ix, pending>>
        BY <1>3 DEF Plan, storeVars
    <2>2. BuildTree' = BuildTree /\ HeadTree' = HeadTree
        BY <1>1, <2>1 DEF BuildTree, HeadTree, Tip
    <2> QED
        BY <1>1, <2>1, <2>2 DEF Indexes, EditsCommitted, HeadsKept, IndexAgrees, Agrees
<1> QED BY <1>2, <1>3

\* Adding older mail (apply_planned, 421-446).
LEMMA ApplyOlderDayIndexes ==
    ASSUME Types, Indexes, ApplyOlderDay PROVE Indexes'
<1>1. PICK d \in Days : Apply(Only(Group(d))) BY DEF ApplyOlderDay
<1>2. /\ pc = "apply" /\ pc' = "commit"
      /\ UNCHANGED <<chain, dstate, dindex, st>>
    BY DEF ApplyOlderDay, savedVars
<1> QED BY <1>1, <1>2, OnlyTypes, ApplyIsApplied, ApplyIndexes

\* Whether or not the rest of a plan is applied, its events are, as there are
\* none if it is not (apply_planned, 448-478).
LEMMA RestIsApplied ==
    ASSUME Types, Indexes, ApplyRest
    PROVE  plan \in [Msg -> Meta \cup {None, "keep"}] /\ Applied(plan)
<1>1. plan \in [Msg -> Meta \cup {None, "keep"}] BY DEF Types, TypeOK
<1>2. pc = "apply" BY DEF ApplyRest
<1>3. pending = {} BY <1>2 DEF Indexes, EditsCommitted
<1> QED BY <1>1, <1>3, ApplyIsApplied, NothingIsApplied DEF ApplyRest

\* Applying the rest of the plan.
LEMMA ApplyRestIndexes ==
    ASSUME Types, Indexes, ApplyRest PROVE Indexes'
BY RestIsApplied, ApplyIndexes DEF ApplyRest, savedVars

\* A checkpoint makes HEAD the tree it built, and a history no state was saved
\* with: it is longer than the saved one, or its last tree is another.
LEMMA CheckpointHead ==
    ASSUME Types, Indexes, Checkpoint
    PROVE  /\ HeadTree' = BuildTree
           /\ Len(dstate.head) <= Len(chain')
           /\ dstate.head = chain' => chain' = chain /\ BuildTree = HeadTree
<1>1. pc = "commit" BY DEF Checkpoint
<1>2. HeadTree' = BuildTree
    <2>1. CASE BuildTree = HeadTree
        BY <2>1 DEF Checkpoint, HeadTree, Tip
    <2>2. CASE BuildTree # HeadTree
        BY <1>1, <2>2, BuildTreeTypes, NextTip DEF Checkpoint
    <2> QED BY <2>1, <2>2
<1>3. \/ chain' = chain /\ BuildTree = HeadTree
      \/ chain' = NextChain(BuildTree) /\ BuildTree # HeadTree
    BY DEF Checkpoint
<1>4. /\ Len(chain) \in Nat /\ Len(dstate.head) \in Nat
      /\ Len(dstate.head) <= Len(chain) /\ st.head = dstate.head
    <2>1. dstate.head \in Seq(Commit) BY DEF Types, TypeOK, State
    <2>2. Len(dstate.head) \in Nat BY <2>1
    <2>3. Len(chain) \in Nat BY Numbers
    <2> QED BY <1>1, <2>2, <2>3 DEF Indexes, HeadsKept
<1>5. CASE chain' = chain /\ BuildTree = HeadTree BY <1>2, <1>4, <1>5
<1>6. CASE chain' = NextChain(BuildTree) /\ BuildTree # HeadTree
    <2>1. \/ Len(chain') = Len(chain) + 1
          \/ Len(chain') = Len(chain) /\ Amendable
        <3>1. CASE point.live /\ Amendable
            BY <1>1, <1>6, <3>1, AmendsOrAppends
        <3>2. CASE ~(point.live /\ Amendable)
            <4>1. PICK d : chain' = NewCommit(BuildTree, d)
                BY <1>6, <3>2 DEF NextChain
            <4>2. chain \in Seq(Commit) BY DEF Types, TypeOK
            <4> QED BY <4>1, <4>2 DEF NewCommit
        <3> QED BY <3>1, <3>2
    <2>2. CASE Len(chain') = Len(chain) + 1 BY <1>2, <1>4, <2>2
    <2>3. CASE Len(chain') = Len(chain) /\ Amendable
        <3>1. dstate.head = chain BY <1>4, <2>3 DEF Amendable
        <3>2. chain' # chain
            BY <1>2, <1>6 DEF HeadTree, Tip
        <3> QED BY <1>2, <1>4, <2>3, <3>1, <3>2
    <2> QED BY <2>1, <2>2, <2>3
<1> QED BY <1>3, <1>5, <1>6

\* So the indexes stay true to it.
LEMMA CheckpointIndexes ==
    ASSUME Types, Indexes, Checkpoint PROVE Indexes'
<1>1. /\ pc = "commit" /\ pc' \in {"save", "save end"} /\ pending' = {}
      /\ UNCHANGED <<work, dstate, dindex, ix>>
    BY DEF Checkpoint, savedVars
<1>2. odd' \in {odd, odd \cup {"late"}} BY DEF Checkpoint
<1>3. st'.head = chain' BY DEF Checkpoint, Types, TypeOK, State
<1>4. /\ HeadTree' = BuildTree /\ Len(dstate.head) <= Len(chain')
      /\ dstate.head = chain' => chain' = chain /\ BuildTree = HeadTree
    BY CheckpointHead
<1>5. EditsCommitted' BY <1>1 DEF EditsCommitted
<1>6. HeadsKept' BY <1>1, <1>3, <1>4 DEF HeadsKept
<1>7. IndexAgrees'
    <2> SUFFICES ASSUME odd \cap {"reindexed", "leftover"} = {}
                 PROVE  /\ Agrees(ix', BuildTree')
                        /\ dstate.head = chain' => Agrees(dindex, HeadTree')
        BY <1>1, <1>2 DEF IndexAgrees
    <2>1. Agrees(ix, BuildTree) BY <1>1 DEF Indexes, IndexAgrees
    <2>2. Agrees(ix', BuildTree')
        BY <1>1, <1>4, <2>1 DEF Agrees, BuildTree, File
    <2>3. ASSUME dstate.head = chain' PROVE Agrees(dindex, HeadTree')
        <3>1. chain' = chain /\ HeadTree' = HeadTree BY <1>4, <2>3
        <3>2. chain # <<>> BY <1>1 DEF Types, InStage
        <3> QED BY <2>3, <3>1, <3>2 DEF Indexes, IndexAgrees
    <2> QED BY <2>2, <2>3
<1> QED BY <1>5, <1>6, <1>7 DEF Indexes

\* A checkpoint saves its index with the HEAD it describes.
LEMMA SaveIndexes == ASSUME Types, Indexes, Save PROVE Indexes'
<1>1. /\ pc \in {"save", "save end"} /\ st.head = chain
      /\ dstate' = st /\ dindex' = ix /\ UNCHANGED <<chain, work, odd>>
    BY DEF Save, repoVars, historyVars, Indexes, HeadsKept
<1>2. HeadTree' = HeadTree BY <1>1 DEF HeadTree, Tip
<1>3. odd \cap {"reindexed", "leftover"} = {} => Agrees(dindex', HeadTree)
    BY <1>1, AgreesWithHead
<1>4. Len(dstate'.head) <= Len(chain')
    <2>1. Len(chain) \in Nat BY Numbers
    <2>2. dstate'.head = chain /\ chain' = chain BY <1>1
    <2>3. Len(chain) <= Len(chain) BY <2>1
    <2> QED BY <2>2, <2>3
<1>5. CASE pc = "save end"
    BY <1>1, <1>3, <1>4, <1>5, ReturnIndexes DEF Save
<1>6. CASE pc = "save"
    <2>1. pc' \in {"enumerate", "apply"} /\ UNCHANGED <<st, ix, pending>>
        BY <1>6 DEF Save, storeVars
    <2>2. BuildTree' = BuildTree BY <1>1, <1>2, <2>1 DEF BuildTree
    <2>3. EditsCommitted' BY <1>6, <2>1 DEF Indexes, EditsCommitted
    <2>4. HeadsKept' BY <1>1, <1>4, <2>1 DEF HeadsKept
    <2>5. IndexAgrees'
        BY <1>1, <1>2, <1>3, <1>6, <2>1, <2>2 DEF Indexes, IndexAgrees, Agrees
    <2> QED BY <2>3, <2>4, <2>5 DEF Indexes
<1> QED BY <1>1, <1>5, <1>6

\* A pass that is killed or fails leaves the pair that was saved.
LEMMA StopIndexes == ASSUME Types, Indexes, Stop \/ Fail PROVE Indexes'
<1>1. PICK events, files : Over(events, files) BY DEF Stop, Fail
<1> QED
    BY <1>1, ReturnIndexes DEF Over, savedVars, historyVars, Indexes, HeadsKept,
        IndexAgrees

\* `index` when verify has nothing to report reads what HEAD holds.
LEMMA ReindexIndexes == ASSUME Types, Indexes, Reindex PROVE Indexes'
<1>1. /\ pc = "idle" /\ dindex' = Indexed(work)
      /\ UNCHANGED <<chain, work, dstate, st, ix, pending, pc>>
      /\ odd' = IF Inconsistencies = {} THEN odd ELSE odd \cup {"reindexed"}
    BY DEF Reindex, repoVars, storeVars, passVars
<1>2. HeadTree' = HeadTree BY <1>1 DEF HeadTree, Tip
<1>3. odd' \cap {"reindexed", "leftover"} = {} => Inconsistencies = {} BY <1>1
<1>4. Inconsistencies = {} => Agrees(Indexed(work), HeadTree)
    <2>1. Inconsistencies = {} => Held(Indexed(work)) = Held(Indexed(HeadTree))
        BY DEF Inconsistencies, DiffIndexes
    <2> QED BY <2>1, AgreesIsHeld
<1>5. EditsCommitted' BY <1>1 DEF Indexes, EditsCommitted
<1>6. HeadsKept' BY <1>1 DEF Indexes, HeadsKept
<1>7. IndexAgrees' BY <1>1, <1>2, <1>3, <1>4 DEF IndexAgrees
<1> QED BY <1>5, <1>6, <1>7 DEF Indexes

\* Every step keeps the indexes true.
LEMMA IndexesStep == ASSUME Types, Indexes, [Next]_vars PROVE Indexes'
<1>1. CASE UNCHANGED vars
    BY <1>1, SameIndexes DEF vars, repoVars, savedVars, storeVars, passVars,
        historyVars
<1>2. ASSUME NEW m \in Msg, NEW x, AccountStep(m, x) PROVE Indexes'
    BY <1>2, SameIndexes DEF AccountStep, repoVars, savedVars, storeVars,
        passVars, historyVars
<1>3. CASE \/ \E m \in Msg, x \in Meta, d \in Days : Arrive(m, x, d)
           \/ \E m \in Msg, x \in Meta : Modify(m, x)
           \/ \E m \in Msg : Destroy(m)
    BY <1>2, <1>3 DEF Arrive, Modify, Destroy
<1>4. CASE Tick
    <2>1. odd' \in {odd, odd \cup {"overnight"}} BY <1>4 DEF Tick
    <2> QED
        BY <1>4, <2>1, SameIndexes DEF Tick, repoVars, savedVars, storeVars, passVars
<1>5. ASSUME NEW r \in BOOLEAN, Begin(r) PROVE Indexes' BY <1>5, BeginIndexes
<1>6. CASE BackfillDay BY <1>6, BackfillDayIndexes
<1>7. CASE BackfillEnds BY <1>7, BackfillEndsIndexes
<1>8. CASE Plan BY <1>8, PlanIndexes
<1>9. CASE ApplyOlderDay BY <1>9, ApplyOlderDayIndexes
<1>10. CASE ApplyRest BY <1>10, ApplyRestIndexes
<1>11. CASE Checkpoint BY <1>11, CheckpointIndexes
<1>12. CASE Save BY <1>12, SaveIndexes
<1>13. CASE Stop \/ Fail BY <1>13, StopIndexes
<1>14. CASE Reindex BY <1>14, ReindexIndexes
<1> QED
    BY <1>1, <1>3, <1>4, <1>5, <1>6, <1>7, <1>8, <1>9, <1>10, <1>11, <1>12,
        <1>13, <1>14 DEF Next

\* For any messages, days, bounds, kills and errors: the index that the next
\* open trusts names what HEAD holds, though passes end half-way through an
\* apply and a retry takes over the edits of one that failed; unless a commit
\* took over edits that its own events do not make, or `index` read uncommitted
\* work (git.rs open and apply, main.rs Index).
THEOREM IndexAlwaysCommitted == Spec => []IndexIsCommitted
<1>1. Init => Types /\ Indexes BY InitTypes, InitIndexes
<1>2. Types /\ Indexes /\ [Next]_vars => Types' /\ Indexes'
    BY TypesStep, IndexesStep
<1>3. Indexes => IndexIsCommitted
    BY AgreesIsHeld DEF Indexes, IndexAgrees, IndexIsCommitted
<1> QED BY <1>1, <1>2, <1>3, PTL DEF Spec

-----------------------------------------------------------------------------
(* The contents of the history.                                             *)

\* A message that was destroyed; it does not come back.
Gone(m) == mail[m] = None /\ received[m] # 0

\* Only what was received is known anywhere.
Known ==
    /\ \A i \in DOMAIN chain : \A f \in File : chain[i].tree[f] # None => received[f[1]] # 0
    /\ \A f \in File : work[f] # None => received[f[1]] # 0
    /\ \A m \in Msg : ix[m] # None \/ dindex[m] # None => received[m] # 0

\* A plan is one of a catch-up, and what it deletes is gone.
PlanHeld ==
    /\ pc \in {"idle", "enumerate", "plan"} \/ st.phase = "backfill" => plan = NoPlan
    /\ pc \in {"plan", "apply"} => st.phase # "backfill"
    /\ \A m \in Msg : plan[m] = None => Gone(m)

\* What HEAD holds is missing from the worktree only when it is gone: an
\* uncommitted deletion was one of the account's.
MissingOnDisk ==
    "leftover" \notin odd => \A m \in Msg :
        work[<<m, "meta">>] = None /\ HeadTree[<<m, "meta">>] # None => Gone(m)

\* So it is of an index.  This and what follows ends when a commit takes over
\* edits that were left.
MissingIsGone ==
    "leftover" \notin odd => \A m \in Msg :
        /\ pc # "idle" /\ ix[m] = None /\ BuildTree[<<m, "meta">>] # None => Gone(m)
        /\ chain # <<>> /\ dstate.head = chain /\ dindex[m] = None
             /\ HeadTree[<<m, "meta">>] # None => Gone(m)
        /\ plan[m] \in Meta /\ ix[m] = None => BuildTree[<<m, "meta">>] = None

\* No mail is without its sidecar, and no sidecar without its mail unless an
\* index was read from uncommitted work.
Paired(tree) ==
    "leftover" \notin odd => \A m \in Msg :
        /\ tree[<<m, "eml">>] # None => tree[<<m, "meta">>] # None
        /\ "reindexed" \notin odd /\ tree[<<m, "meta">>] # None => tree[<<m, "eml">>] # None
InPairs == Paired(HeadTree) /\ Paired(BuildTree)

\* What a checkpoint adds was received on its day; to a past day it only adds.
DayOnly ==
    pc = "commit" /\ "leftover" \notin odd =>
        /\ ~point.live => \A f \in File : BuildTree[f] # HeadTree[f] =>
              HeadTree[f] = None /\ received[f[1]] = point.date
        /\ "reindexed" \notin odd => \A m \in Msg :
              HeadTree[<<m, "meta">>] = None /\ BuildTree[<<m, "meta">>] # None =>
                  received[m] = point.date

\* Commits are in the order of their days, after an empty one.
InOrder ==
    /\ chain # <<>> => chain[1].tree = Empty
    /\ odd \cap {"late", "overnight"} = {} =>
          \A i, j \in 2 .. Len(chain) : i <= j => chain[i].date <= chain[j].date

Contents ==
    /\ Known /\ PlanHeld /\ MissingOnDisk /\ MissingIsGone
    /\ InPairs /\ DayOnly /\ InOrder

\* Every file is the mail or the sidecar of a message.
LEMMA FilesOfMessages ==
    /\ \A m \in Msg : /\ <<m, "eml">> \in File /\ <<m, "eml">>[1] = m
                      /\ <<m, "meta">> \in File /\ <<m, "meta">>[1] = m
    /\ \A f \in File : \E m \in Msg : f = <<m, "eml">> \/ f = <<m, "meta">>
BY DEF File

\* With no edit queued, the next commit would change nothing.
LEMMA NothingPending ==
    ASSUME Types, pending = {} PROVE BuildTree = HeadTree
BY HeadTreeTypes DEF BuildTree, Tree

\* HEAD's tree is that of a commit, so it holds only what was received.
LEMMA HeadKnown ==
    ASSUME Types, Known
    PROVE  \A f \in File : HeadTree[f] # None => received[f[1]] # 0
<1>1. CASE chain = <<>> BY <1>1 DEF HeadTree, Empty
<1>2. CASE chain # <<>>
    <2>1. Len(chain) \in DOMAIN chain BY <1>2, Ends DEF Types, TypeOK
    <2>2. HeadTree = chain[Len(chain)].tree BY <1>2 DEF HeadTree, Tip
    <2> QED BY <2>1, <2>2 DEF Known
<1> QED BY <1>1, <1>2

\* What applying an event does to the index and to the worktree: to add or to
\* delete writes both files, to update at most the sidecar (DirMailStore::apply).
LEMMA ApplyWorks ==
    ASSUME Types, NEW events \in [Msg -> Meta \cup {None, "keep"}], Applied(events),
           NEW m \in Msg
    PROVE  /\ events[m] = "keep" \/ (events[m] = None /\ ix[m] = None) =>
                 /\ ix'[m] = ix[m]
                 /\ work'[<<m, "eml">>] = work[<<m, "eml">>]
                 /\ work'[<<m, "meta">>] = work[<<m, "meta">>]
           /\ events[m] = None /\ ix[m] # None =>
                 /\ ix'[m] = None
                 /\ work'[<<m, "eml">>] = None /\ work'[<<m, "meta">>] = None
           /\ events[m] \in Meta /\ ix[m] = None =>
                 /\ ix'[m] = events[m]
                 /\ work'[<<m, "eml">>] = Raw /\ work'[<<m, "meta">>] = events[m]
           /\ events[m] \in Meta /\ ix[m] # None =>
                 /\ ix'[m] = events[m]
                 /\ work'[<<m, "eml">>] = work[<<m, "eml">>]
                 /\ work'[<<m, "meta">>] = events[m]
<1> DEFINE mine == {<<m, "eml">>, <<m, "meta">>}
<1>1. ix' = [n \in Msg |-> IF n \in Named(events) THEN events[n] ELSE ix[n]]
    BY DEF Applied
<1>2. m \in Named(events) <=> events[m] # "keep" /\ ~(events[m] = None /\ ix[m] = None)
    BY DEF Named
<1>3. \A f \in mine :
          f \in Edited(events) <=> m \in Named(events) /\ f \in EditedFiles(m, events[m])
    BY FilesOfMessages, EditedFacts DEF Edited
<1>4. \A f \in mine :
          work'[f] = IF m \in Named(events) /\ f \in EditedFiles(m, events[m])
                     THEN Content(f, events[m]) ELSE work[f]
    BY <1>3, FilesOfMessages DEF Applied, Written
<1>5. /\ Content(<<m, "meta">>, events[m]) = events[m]
      /\ Content(<<m, "eml">>, events[m]) = IF events[m] = None THEN None ELSE Raw
    BY DEF Content
<1>6. CASE events[m] = "keep" \/ (events[m] = None /\ ix[m] = None)
    BY <1>1, <1>2, <1>4, <1>6, MetaAssumption
<1>7. CASE events[m] # "keep" /\ (ix[m] = None \/ events[m] = None)
           /\ ~(events[m] = None /\ ix[m] = None)
    <2>1. <<m, "eml">> \in EditedFiles(m, events[m]) /\ <<m, "meta">> \in EditedFiles(m, events[m])
        BY <1>7 DEF EditedFiles
    <2> QED BY <1>1, <1>2, <1>4, <1>5, <1>7, <2>1, MetaAssumption
<1>8. CASE events[m] # "keep" /\ ix[m] # None /\ events[m] # None
    <2>1. /\ <<m, "eml">> \notin EditedFiles(m, events[m])
          /\ <<m, "meta">> \notin EditedFiles(m, events[m]) => work[<<m, "meta">>] = events[m]
        BY <1>8, FilesOfMessages DEF EditedFiles
    <2> QED BY <1>1, <1>2, <1>4, <1>5, <1>8, <2>1, MetaAssumption
<1> QED BY <1>6, <1>7, <1>8

\* And to the next commit, unless that takes over edits that were left.
LEMMA ApplyBuilds ==
    ASSUME Types, NEW events \in [Msg -> Meta \cup {None, "keep"}], Applied(events),
           chain' = chain, "leftover" \notin odd', NEW m \in Msg
    PROVE  /\ events[m] = "keep" \/ (events[m] = None /\ ix[m] = None) =>
                 /\ BuildTree'[<<m, "eml">>] = HeadTree[<<m, "eml">>]
                 /\ BuildTree'[<<m, "meta">>] = HeadTree[<<m, "meta">>]
           /\ events[m] = None /\ ix[m] # None =>
                 BuildTree'[<<m, "eml">>] = None /\ BuildTree'[<<m, "meta">>] = None
           /\ events[m] \in Meta /\ ix[m] = None =>
                 BuildTree'[<<m, "eml">>] = Raw /\ BuildTree'[<<m, "meta">>] = events[m]
           /\ events[m] \in Meta /\ ix[m] # None =>
                 /\ BuildTree'[<<m, "eml">>] = HeadTree[<<m, "eml">>]
                 /\ BuildTree'[<<m, "meta">>] \in {events[m], HeadTree[<<m, "meta">>]}
<1> DEFINE mine == {<<m, "eml">>, <<m, "meta">>}
<1>1. /\ Edited(events) \subseteq pending'
      /\ \A f \in pending' \ Edited(events) : f[1] \in Named(events) /\ f[2] = "meta"
    BY DEF Applied
<1>2. HeadTree' = HeadTree BY DEF HeadTree, Tip
<1>3. \A f \in mine : BuildTree'[f] = IF f \in pending' THEN work'[f] ELSE HeadTree[f]
    BY <1>2, FilesOfMessages DEF BuildTree
<1>4. m \in Named(events) <=> events[m] # "keep" /\ ~(events[m] = None /\ ix[m] = None)
    BY DEF Named
<1>5. \A f \in mine :
          f \in Edited(events) <=> m \in Named(events) /\ f \in EditedFiles(m, events[m])
    BY FilesOfMessages, EditedFacts DEF Edited
<1>6. m \notin Named(events) => mine \cap pending' = {}
    BY <1>1, <1>5, FilesOfMessages
<1>7. CASE events[m] = "keep" \/ (events[m] = None /\ ix[m] = None)
    BY <1>3, <1>4, <1>6, <1>7, MetaAssumption
<1>8. CASE events[m] # "keep" /\ (ix[m] = None \/ events[m] = None)
           /\ ~(events[m] = None /\ ix[m] = None)
    <2>1. <<m, "eml">> \in EditedFiles(m, events[m]) /\ <<m, "meta">> \in EditedFiles(m, events[m])
        BY <1>8 DEF EditedFiles
    <2>2. mine \subseteq pending' BY <1>1, <1>4, <1>5, <1>8, <2>1
    <2>3. \A f \in mine : BuildTree'[f] = work'[f] BY <1>3, <2>2
    <2> QED BY <1>8, <2>3, ApplyWorks, MetaAssumption
<1>9. CASE events[m] # "keep" /\ ix[m] # None /\ events[m] # None
    <2>1. <<m, "eml">> \notin EditedFiles(m, events[m])
        BY <1>9, FilesOfMessages DEF EditedFiles
    <2>2. <<m, "eml">>[2] # "meta" OBVIOUS
    <2>3. <<m, "eml">> \notin pending' BY <1>1, <1>5, <2>1, <2>2
    <2>4. events[m] \in Meta => work'[<<m, "meta">>] = events[m] BY <1>9, ApplyWorks
    <2> QED BY <1>3, <1>9, <2>3, <2>4, MetaAssumption
<1> QED BY <1>7, <1>8, <1>9

-----------------------------------------------------------------------------
\* When the program starts nothing is held.
LEMMA InitContents == ASSUME Init PROVE Contents
<1>1. HeadTree = Empty /\ BuildTree = Empty /\ DOMAIN chain = {} /\ Len(chain) = 0
    BY DEF Init, Closed, HeadTree, BuildTree, Empty
<1>2. \A f \in File : Empty[f] = None BY DEF Empty
<1>3. Known BY <1>1, <1>2 DEF Init, Closed, Known, Nothing
<1>4. PlanHeld BY MetaAssumption DEF Init, Closed, PlanHeld, NoPlan, NewState, Saved
<1>5. MissingIsGone /\ MissingOnDisk
    BY <1>1, <1>2, FilesOfMessages, MetaAssumption DEF Init, Closed, MissingIsGone,
        MissingOnDisk, NoPlan
<1>6. InPairs BY <1>1, <1>2, FilesOfMessages DEF InPairs, Paired
<1>7. DayOnly BY DEF Init, Closed, DayOnly
<1>8. InOrder BY <1>1 DEF Init, InOrder
<1> QED BY <1>3, <1>4, <1>5, <1>6, <1>7, <1>8 DEF Contents

\* The account and the clock leave it all alone: what is received stays received
\* on its day, and what is gone stays gone.
LEMMA SameContents ==
    ASSUME Types, Contents, odd \subseteq odd',
           \A m \in Msg : received[m] # 0 =>
               received'[m] = received[m] /\ (mail[m] = None => mail'[m] = None),
           "reindexed" \in odd' => "reindexed" \in odd \/ pc # "commit",
           UNCHANGED <<chain, work, dstate, dindex, st, ix, pending, pc, plan, point>>
    PROVE  Contents'
<1>1. BuildTree' = BuildTree /\ HeadTree' = HeadTree
    BY DEF BuildTree, HeadTree, Tip
<1>2. \A m \in Msg : Gone(m) => Gone(m)' BY DEF Gone
<1>3. \A f \in File : f[1] \in Msg BY DEF File
<1>4. Known' BY <1>3 DEF Contents, Known
<1>5. PlanHeld' BY <1>2 DEF Contents, PlanHeld
<1>6. MissingIsGone' /\ MissingOnDisk'
    BY <1>1, <1>2 DEF Contents, MissingIsGone, MissingOnDisk
<1>7. InPairs' BY <1>1 DEF Contents, InPairs, Paired
<1>8. DayOnly'
    <2> SUFFICES ASSUME pc = "commit", "leftover" \notin odd' PROVE DayOnly' BY DEF DayOnly
    <2>1. point.date # 0
        <3>1. point.date \in Days BY DEF Types, InStage
        <3> QED BY <3>1 DEF Days
    <2>2. \A f \in File : BuildTree[f] # HeadTree[f] /\ ~point.live =>
              HeadTree[f] = None /\ received'[f[1]] = point.date
        BY <1>3, <2>1 DEF Contents, DayOnly
    <2>3. "reindexed" \notin odd' => \A m \in Msg :
              HeadTree[<<m, "meta">>] = None /\ BuildTree[<<m, "meta">>] # None =>
                  received'[m] = point.date
        BY <2>1 DEF Contents, DayOnly
    <2> QED BY <1>1, <2>2, <2>3 DEF DayOnly
<1>9. InOrder' BY DEF Contents, InOrder
<1> QED BY <1>4, <1>5, <1>6, <1>7, <1>8, <1>9 DEF Contents

\* What a worktree holds was received, and what it misses is gone.
WorkHeld ==
    /\ \A f \in File : work[f] # None => received[f[1]] # 0
    /\ MissingOnDisk

\* That is so as long as nothing is written.
LEMMA SameWork ==
    ASSUME Types, Contents, UNCHANGED <<mail, received, chain, work, odd>>
    PROVE  WorkHeld' /\ MissingOnDisk'
<1>1. HeadTree' = HeadTree BY DEF HeadTree, Tip
<1>2. \A m \in Msg : Gone(m) <=> Gone(m)' BY DEF Gone
<1> QED BY <1>1, <1>2 DEF Contents, Known, MissingOnDisk, WorkHeld

\* A pass that ends leaves its commits.
LEMMA ReturnContents ==
    ASSUME Types, Contents, Return, UNCHANGED <<mail, received, chain, odd>>, WorkHeld',
           \A m \in Msg : dindex'[m] # None => received[m] # 0,
           chain # <<>> /\ dstate'.head = chain /\ "leftover" \notin odd =>
               \A m \in Msg : dindex'[m] = None /\ HeadTree[<<m, "meta">>] # None => Gone(m)
    PROVE  Contents'
<1>1. HeadTree' = HeadTree BY DEF HeadTree, Tip
<1>2. BuildTree' = HeadTree
    BY <1>1, HeadTreeTypes DEF Return, BuildTree, Tree
<1>3. \A m \in Msg : Gone(m) <=> Gone(m)' BY DEF Gone
<1>4. /\ pc' = "idle" /\ plan' = NoPlan /\ \A m \in Msg : ix'[m] = None
      /\ \A m \in Msg : plan'[m] # None /\ plan'[m] \notin Meta
    BY MetaAssumption DEF Return, Nothing, NoPlan
<1>5. Known' BY <1>4 DEF Contents, Known, WorkHeld
<1>6. PlanHeld' BY <1>4 DEF PlanHeld
<1>7. MissingIsGone' BY <1>1, <1>3, <1>4 DEF Contents, MissingIsGone
<1>8. InPairs' BY <1>1, <1>2 DEF Contents, InPairs, Paired
<1>9. DayOnly' BY <1>4 DEF DayOnly
<1>10. InOrder' BY DEF Contents, InOrder
<1> QED BY <1>5, <1>6, <1>7, <1>8, <1>9, <1>10 DEF Contents, WorkHeld

\* An index that is opened misses only what is gone, be it the saved one or
\* HEAD's (GitMailStore::open).
LEMMA BeginContents ==
    ASSUME Types, Indexes, Contents, NEW r \in BOOLEAN, Begin(r) PROVE Contents'
<1>1. /\ pc = "idle" /\ pending' = {} /\ chain' = WithRoot /\ st' = dstate
      /\ ix' = OpenedIndex(chain') /\ pc' = IF dstate.phase = "synced" THEN "plan" ELSE "enumerate"
      /\ UNCHANGED <<mail, received, work, dstate, dindex, plan, odd, point>>
    BY DEF Begin, savedVars, historyVars
<1>2. /\ chain' \in Seq(Commit) /\ chain' # <<>> /\ (chain # <<>> => chain' = chain)
      /\ \A i \in DOMAIN chain' : Sidecars(chain'[i].tree)
    BY <1>1, RootTypes
<1>3. /\ HeadTree' = HeadTree
      /\ chain'[1].tree = Empty
      /\ \A i \in DOMAIN chain' : \A f \in File : chain'[i].tree[f] # None => received[f[1]] # 0
      /\ dstate.head = chain' => chain' = chain
      /\ odd \cap {"late", "overnight"} = {} =>
            \A i, j \in 2 .. Len(chain') : i <= j => chain'[i].date <= chain'[j].date
    <2>1. CASE chain # <<>>
        BY <1>2, <2>1 DEF Contents, Known, InOrder, HeadTree, Tip
    <2>2. CASE chain = <<>>
        <3> DEFINE root == [tree |-> Empty, date |-> today, label |-> 0, live |-> FALSE]
        <3>1. chain' = <<root>> BY <1>1, <2>2 DEF WithRoot
        <3>2. root.tree = Empty OBVIOUS
        <3> HIDE DEF root
        <3>3. Len(chain') = 1 /\ DOMAIN chain' = {1} /\ chain'[1] = root BY <3>1
        <3>4. HeadTree = Empty /\ HeadTree' = Empty
            BY <1>2, <2>2, <3>2, <3>3 DEF HeadTree, Tip
        <3>5. dstate.head # chain'
            <4>1. Len(dstate.head) <= Len(chain) BY DEF Indexes, HeadsKept
            <4>2. Len(chain) = 0 BY <2>2
            <4>3. dstate.head \in Seq(Commit) BY DEF Types, TypeOK, State
            <4>4. Len(dstate.head) \in Nat BY <4>3
            <4> QED BY <3>3, <4>1, <4>2, <4>4
        <3>6. 2 .. Len(chain') = {} BY <3>3
        <3> QED BY <3>2, <3>3, <3>4, <3>5, <3>6 DEF Empty
    <2> QED BY <2>1, <2>2
<1>4. BuildTree' = HeadTree
    BY <1>1, <1>3, HeadTreeTypes DEF BuildTree, Tree
<1>5. \A m \in Msg : Gone(m) <=> Gone(m)' BY <1>1 DEF Gone
<1>6. ASSUME NEW m \in Msg
      PROVE  /\ ix'[m] # None => received[m] # 0
             /\ "leftover" \notin odd =>
                   (ix'[m] = None /\ HeadTree[<<m, "meta">>] # None => Gone(m))
    <2>1. CASE dstate.head = chain'
        <3>1. ix'[m] = dindex[m] BY <1>1, <2>1 DEF OpenedIndex
        <3> QED BY <1>2, <1>3, <2>1, <3>1 DEF Contents, Known, MissingIsGone
    <2>2. CASE dstate.head # chain'
        <3>1. ix'[m] = HeadTree[<<m, "meta">>]
            BY <1>1, <1>2, <1>3, <2>2 DEF OpenedIndex, Indexed, HeadTree, Tip
        <3> QED BY <3>1, HeadKnown, FilesOfMessages DEF Contents
    <2> QED BY <2>1, <2>2
<1>7. plan' = NoPlan /\ \A m \in Msg : plan'[m] # None /\ plan'[m] \notin Meta
    BY <1>1, MetaAssumption DEF Contents, PlanHeld, NoPlan
<1>8. Known' BY <1>1, <1>3, <1>6 DEF Contents, Known
<1>9. PlanHeld' BY <1>1, <1>7 DEF PlanHeld
<1>10. MissingIsGone' /\ MissingOnDisk'
    BY <1>1, <1>2, <1>3, <1>4, <1>5, <1>6, <1>7 DEF Contents, MissingIsGone, MissingOnDisk
<1>11. InPairs' BY <1>1, <1>3, <1>4 DEF Contents, InPairs, Paired
<1>12. DayOnly' BY <1>1 DEF DayOnly
<1>13. InOrder' BY <1>1, <1>3 DEF InOrder
<1> QED BY <1>8, <1>9, <1>10, <1>11, <1>12, <1>13 DEF Contents

-----------------------------------------------------------------------------
\* Events that delete only what is gone, and add only mail of the day that is
\* about to be committed.
LEMMA ApplyContents ==
    ASSUME Types, Indexes, Contents, pc \notin {"idle", "commit"}, pc' = "commit",
           UNCHANGED <<mail, received, chain, dstate, dindex>>,
           NEW events \in [Msg -> Meta \cup {None, "keep"}], Applied(events),
           \A m \in Msg : events[m] = None => Gone(m),
           \A m \in Msg : events[m] \in Meta => received[m] # 0,
           \A m \in Msg : events[m] \in Meta /\ ix[m] = None =>
               /\ "leftover" \notin odd => HeadTree[<<m, "meta">>] = None
               /\ received[m] = point'.date,
           ~point'.live => \A m \in Msg :
               events[m] # "keep" => events[m] \in Meta /\ ix[m] = None,
           \A m \in Msg : plan'[m] # "keep" => plan'[m] = plan[m] /\ events[m] = "keep",
           PlanHeld'
    PROVE  Contents'
<1>1. pending = {} /\ odd \subseteq odd' /\ ("reindexed" \in odd' <=> "reindexed" \in odd)
    BY DEF Indexes, EditsCommitted, Applied
<1>2. BuildTree = HeadTree /\ HeadTree' = HeadTree
    BY <1>1, NothingPending DEF HeadTree, Tip
<1>3. \A m \in Msg : Gone(m) <=> Gone(m)' BY DEF Gone
<1>4. None \notin Meta /\ "keep" \notin Meta /\ "keep" # None /\ Raw # None
    BY MetaAssumption DEF Raw
<1>5. ASSUME NEW m \in Msg
      PROVE  \/ events[m] = "keep" \/ (events[m] = None /\ ix[m] = None)
             \/ events[m] = None /\ ix[m] # None
             \/ events[m] \in Meta /\ ix[m] = None
             \/ events[m] \in Meta /\ ix[m] # None
    OBVIOUS
<1>6. ASSUME NEW m \in Msg, "leftover" \notin odd'
      PROVE  /\ HeadTree[<<m, "eml">>] # None => HeadTree[<<m, "meta">>] # None
             /\ "reindexed" \notin odd /\ HeadTree[<<m, "meta">>] # None =>
                    HeadTree[<<m, "eml">>] # None
             /\ ix[m] = None /\ HeadTree[<<m, "meta">>] # None => Gone(m)
             /\ work[<<m, "meta">>] = None /\ HeadTree[<<m, "meta">>] # None => Gone(m)
             /\ plan[m] \in Meta /\ ix[m] = None => HeadTree[<<m, "meta">>] = None
             /\ "reindexed" \notin odd /\ ix[m] # None => HeadTree[<<m, "meta">>] # None
             /\ events[m] \in Meta /\ ix[m] = None => HeadTree[<<m, "meta">>] = None
    <2>0. "leftover" \notin odd BY <1>1, <1>6
    <2>1. /\ HeadTree[<<m, "eml">>] # None => HeadTree[<<m, "meta">>] # None
          /\ "reindexed" \notin odd /\ HeadTree[<<m, "meta">>] # None =>
                    HeadTree[<<m, "eml">>] # None
        BY <2>0 DEF Contents, InPairs, Paired
    <2>2. /\ ix[m] = None /\ HeadTree[<<m, "meta">>] # None => Gone(m)
          /\ work[<<m, "meta">>] = None /\ HeadTree[<<m, "meta">>] # None => Gone(m)
          /\ plan[m] \in Meta /\ ix[m] = None => HeadTree[<<m, "meta">>] = None
        BY <1>2, <2>0 DEF Contents, MissingIsGone, MissingOnDisk
    <2>3. "reindexed" \notin odd /\ ix[m] # None => HeadTree[<<m, "meta">>] # None
        BY <1>2, <2>0 DEF Indexes, IndexAgrees, Agrees
    <2> QED BY <2>0, <2>1, <2>2, <2>3
<1>7. Known'
    <2>1. ASSUME NEW m \in Msg
          PROVE  /\ ix[m] # None => received[m] # 0
                 /\ work[<<m, "eml">>] # None \/ work[<<m, "meta">>] # None => received[m] # 0
        BY FilesOfMessages DEF Contents, Known
    <2>2. ASSUME NEW m \in Msg
          PROVE  /\ ix'[m] # None => received[m] # 0
                 /\ work'[<<m, "eml">>] # None => received[m] # 0
                 /\ work'[<<m, "meta">>] # None => received[m] # 0
        BY <1>4, <1>5, <2>1, ApplyWorks
    <2>3. ASSUME NEW f \in File, work'[f] # None PROVE received[f[1]] # 0
        <3>1. PICK m \in Msg : f = <<m, "eml">> \/ f = <<m, "meta">> BY FilesOfMessages
        <3>2. f[1] = m BY <3>1
        <3> QED BY <2>2, <2>3, <3>1, <3>2
    <2> QED BY <2>2, <2>3 DEF Contents, Known
<1>8. MissingIsGone' /\ MissingOnDisk'
    <2> SUFFICES ASSUME "leftover" \notin odd' PROVE MissingIsGone' /\ MissingOnDisk'
        BY DEF MissingIsGone, MissingOnDisk
    <2>1. ASSUME NEW m \in Msg
          PROVE  /\ ix'[m] = None /\ BuildTree'[<<m, "meta">>] # None => Gone(m)
                 /\ work'[<<m, "meta">>] = None /\ HeadTree[<<m, "meta">>] # None => Gone(m)
                 /\ plan'[m] \in Meta /\ ix'[m] = None => BuildTree'[<<m, "meta">>] = None
        <3>1. CASE events[m] = "keep" \/ (events[m] = None /\ ix[m] = None)
            <4>1. /\ ix'[m] = ix[m] /\ BuildTree'[<<m, "meta">>] = HeadTree[<<m, "meta">>]
                  /\ work'[<<m, "meta">>] = work[<<m, "meta">>]
                BY <3>1, ApplyWorks, ApplyBuilds
            <4>2. plan'[m] \in Meta => plan[m] \in Meta BY <1>4
            <4> QED BY <1>6, <4>1, <4>2
        <3>2. CASE events[m] = None /\ ix[m] # None
            BY <1>4, <3>2, ApplyWorks, ApplyBuilds
        <3>3. CASE events[m] \in Meta /\ ix[m] = None
            <4>1. ix'[m] = events[m] /\ work'[<<m, "meta">>] = events[m]
                BY <3>3, ApplyWorks
            <4>2. events[m] # None BY <1>4, <3>3
            <4> QED BY <4>1, <4>2
        <3>4. CASE events[m] \in Meta /\ ix[m] # None
            <4>1. ix'[m] = events[m] /\ work'[<<m, "meta">>] = events[m]
                BY <3>4, ApplyWorks
            <4>2. events[m] # None BY <1>4, <3>4
            <4> QED BY <4>1, <4>2
        <3> QED BY <1>5, <3>1, <3>2, <3>3, <3>4
    <2>2. ASSUME NEW m \in Msg
          PROVE  chain # <<>> /\ dstate.head = chain /\ dindex[m] = None
                    /\ HeadTree[<<m, "meta">>] # None => Gone(m)
        BY <1>1 DEF Contents, MissingIsGone
    <2> QED BY <1>2, <1>3, <2>1, <2>2 DEF MissingIsGone, MissingOnDisk
<1>9. InPairs'
    <2>1. ASSUME NEW m \in Msg, "leftover" \notin odd'
          PROVE  /\ BuildTree'[<<m, "eml">>] # None => BuildTree'[<<m, "meta">>] # None
                 /\ "reindexed" \notin odd /\ BuildTree'[<<m, "meta">>] # None =>
                        BuildTree'[<<m, "eml">>] # None
        <3>1. CASE events[m] = "keep" \/ (events[m] = None /\ ix[m] = None)
            BY <1>6, <2>1, <3>1, ApplyBuilds
        <3>2. CASE events[m] = None /\ ix[m] # None BY <2>1, <3>2, ApplyBuilds
        <3>3. CASE events[m] \in Meta /\ ix[m] = None BY <1>4, <2>1, <3>3, ApplyBuilds
        <3>4. CASE events[m] \in Meta /\ ix[m] # None
            BY <1>4, <1>6, <2>1, <3>4, ApplyBuilds
        <3> QED BY <1>5, <3>1, <3>2, <3>3, <3>4
    <2>2. Paired(HeadTree)' BY <1>1, <1>2 DEF Contents, InPairs, Paired
    <2>3. Paired(BuildTree)' BY <1>1, <2>1 DEF Paired
    <2> QED BY <2>2, <2>3 DEF InPairs
<1>10. DayOnly'
    <2> SUFFICES ASSUME "leftover" \notin odd' PROVE DayOnly' BY DEF DayOnly
    <2>1. ASSUME NEW m \in Msg, ~point'.live
          PROVE  /\ BuildTree'[<<m, "eml">>] # HeadTree[<<m, "eml">>] =>
                        HeadTree[<<m, "eml">>] = None /\ received[m] = point'.date
                 /\ BuildTree'[<<m, "meta">>] # HeadTree[<<m, "meta">>] =>
                        HeadTree[<<m, "meta">>] = None /\ received[m] = point'.date
        <3>1. CASE events[m] = "keep" BY <3>1, ApplyBuilds
        <3>2. CASE events[m] # "keep" BY <1>6, <2>1, <3>2
        <3> QED BY <3>1, <3>2
    <2>2. ASSUME ~point'.live, NEW f \in File, BuildTree'[f] # HeadTree[f]
          PROVE  HeadTree[f] = None /\ received[f[1]] = point'.date
        <3>1. PICK m \in Msg : f = <<m, "eml">> \/ f = <<m, "meta">> BY FilesOfMessages
        <3>2. f[1] = m BY <3>1
        <3> QED BY <2>1, <2>2, <3>1, <3>2
    <2>3. ASSUME NEW m \in Msg, "reindexed" \notin odd,
                 HeadTree[<<m, "meta">>] = None, BuildTree'[<<m, "meta">>] # None
          PROVE  received[m] = point'.date
        BY <1>4, <1>5, <1>6, <2>3, ApplyBuilds
    <2> QED BY <1>1, <1>2, <2>2, <2>3 DEF DayOnly
<1>11. InOrder' BY <1>1 DEF Contents, InOrder
<1> QED BY <1>7, <1>8, <1>9, <1>10, <1>11 DEF Contents

\* Before a pass applies anything, what its index misses is gone, or HEAD misses
\* it too.
LEMMA MissedByHead ==
    ASSUME Types, Indexes, Contents, pc \notin {"idle", "commit"}, NEW m \in Msg
    PROVE  /\ BuildTree = HeadTree
           /\ "leftover" \notin odd =>
                 /\ ix[m] = None /\ HeadTree[<<m, "meta">>] # None => Gone(m)
                 /\ plan[m] \in Meta /\ ix[m] = None => HeadTree[<<m, "meta">>] = None
           /\ plan[m] = None => Gone(m)
           /\ ix[m] # None => received[m] # 0
<1>1. BuildTree = HeadTree BY NothingPending DEF Indexes, EditsCommitted
<1> QED BY <1>1 DEF Contents, MissingIsGone, PlanHeld, Known

\* A backfilled day adds mail the account has, so none that is gone.
LEMMA BackfillDayContents ==
    ASSUME Types, Indexes, Contents, BackfillDay PROVE Contents'
<1> DEFINE events == OfDay(day')
<1>1. /\ pc = "enumerate" /\ pc' = "commit" /\ Apply(events)
      /\ UNCHANGED <<mail, received, chain, dstate, dindex, plan>>
      /\ point' = [date |-> day', live |-> FALSE]
    BY DEF BackfillDay, accountVars, savedVars
<1>2. events \in [Msg -> Meta \cup {None, "keep"}] /\ Applied(events)
    BY <1>1, OfDayTypes, ApplyIsApplied
<1>3. plan = NoPlan BY <1>1 DEF Contents, PlanHeld
<1>4. \A m \in Msg : plan[m] = "keep" BY <1>3 DEF NoPlan
<1>5. PlanHeld' BY <1>1, <1>3, <1>4, MetaAssumption DEF PlanHeld
<1>6. ASSUME NEW m \in Msg, events[m] # "keep"
      PROVE  /\ events[m] \in Meta /\ ix[m] = None
             /\ received[m] # 0 /\ received[m] = day'
             /\ "leftover" \notin odd => HeadTree[<<m, "meta">>] = None
    <2>1. m \in ToBackfill /\ received[m] = day' /\ ix[m] = None /\ events[m] = mail[m]
        BY <1>6 DEF OfDay
    <2>2. mail[m] \in Meta /\ mail[m] # None BY <2>1 DEF ToBackfill, Types, TypeOK, Index
    <2>3. received[m] # 0
        <3>1. received[m] \in Days BY <2>2 DEF Types, InStage
        <3> QED BY <3>1 DEF Days
    <2>4. "leftover" \notin odd => HeadTree[<<m, "meta">>] = None
        BY <1>1, <2>1, <2>2, MissedByHead DEF Gone
    <2> QED BY <2>1, <2>2, <2>3, <2>4
<1>7. \A m \in Msg : events[m] # None
    <2>1. None \notin Meta /\ "keep" # None BY MetaAssumption
    <2> QED BY <1>6, <2>1
<1>8. ~point'.live /\ point'.date = day' BY <1>1
<1>9. "keep" \notin Meta BY MetaAssumption
<1> HIDE DEF events
<1> QED BY <1>1, <1>2, <1>4, <1>5, <1>6, <1>7, <1>8, <1>9, ApplyContents

\* A group of older mail is of one day, and was planned as missing.
LEMMA ApplyOlderDayContents ==
    ASSUME Types, Indexes, Contents, ApplyOlderDay PROVE Contents'
<1>1. PICK d \in Days :
        /\ Apply(Only(Group(d))) /\ plan' = Only(Msg \ Group(d))
        /\ point' = [date |-> d, live |-> FALSE]
    BY DEF ApplyOlderDay
<1> DEFINE events == Only(Group(d))
<1>2. /\ pc = "apply" /\ pc' = "commit"
      /\ UNCHANGED <<mail, received, chain, dstate, dindex, st>>
    BY DEF ApplyOlderDay, accountVars, savedVars
<1>3. events \in [Msg -> Meta \cup {None, "keep"}] /\ Applied(events)
    BY <1>1, OnlyTypes, ApplyIsApplied
<1>4. ~point'.live /\ point'.date = d BY <1>1
<1>5. ASSUME NEW m \in Msg, events[m] # "keep"
      PROVE  /\ events[m] \in Meta /\ ix[m] = None
             /\ received[m] # 0 /\ received[m] = d
             /\ "leftover" \notin odd => HeadTree[<<m, "meta">>] = None
    <2>1. m \in OlderAdds /\ received[m] = d /\ events[m] = plan[m]
        BY <1>5 DEF Only, Group
    <2>2. plan[m] \in Meta /\ ix[m] = None BY <2>1 DEF OlderAdds
    <2>3. received[m] # 0 BY <2>1 DEF Days
    <2> QED BY <1>2, <2>1, <2>2, <2>3, MissedByHead
<1>6. \A m \in Msg : events[m] # None /\ "keep" \notin Meta
    <2>1. None \notin Meta /\ "keep" # None BY MetaAssumption
    <2> QED BY <1>5, <2>1, MetaAssumption
<1>7. ASSUME NEW m \in Msg, plan'[m] # "keep"
      PROVE  plan'[m] = plan[m] /\ events[m] = "keep"
    <2>1. plan' = Only(Msg \ Group(d)) BY <1>1
    <2>2. m \notin Group(d) /\ plan'[m] = plan[m] BY <1>7, <2>1 DEF Only
    <2> QED BY <2>2 DEF Only
<1>8. PlanHeld'
    <2>1. ASSUME NEW m \in Msg, plan'[m] = None PROVE Gone(m)'
        <3>1. plan[m] = None BY <1>7, <2>1, MetaAssumption
        <3> QED BY <1>2, <3>1 DEF Contents, PlanHeld, Gone
    <2>2. st.phase # "backfill" BY <1>2 DEF Contents, PlanHeld
    <2> QED BY <1>2, <2>1, <2>2 DEF PlanHeld
<1> HIDE DEF events
<1> QED BY <1>2, <1>3, <1>4, <1>5, <1>6, <1>7, <1>8, ApplyContents

\* The rest of the plan adds today's mail, and deletes what is gone.
LEMMA ApplyRestContents ==
    ASSUME Types, Indexes, Contents, ApplyRest PROVE Contents'
<1>1. /\ pc = "apply" /\ pc' = "commit" /\ OlderAdds = {}
      /\ UNCHANGED <<mail, received, chain, dstate, dindex, st>>
      /\ plan' = NoPlan /\ point' = [date |-> day, live |-> TRUE]
    BY DEF ApplyRest, accountVars, savedVars
<1>2. plan \in [Msg -> Meta \cup {None, "keep"}] /\ Applied(plan) BY RestIsApplied
<1>3. \A m \in Msg : plan'[m] = "keep" BY <1>1 DEF NoPlan
<1>4. PlanHeld' BY <1>1, <1>3, MetaAssumption DEF PlanHeld
<1>5. ASSUME NEW m \in Msg, plan[m] \in Meta PROVE received[m] # 0
    <2>1. received[m] \in Days BY <1>5 DEF Types, InStage
    <2> QED BY <2>1 DEF Days
<1>6. ASSUME NEW m \in Msg, plan[m] \in Meta, ix[m] = None
      PROVE  /\ "leftover" \notin odd => HeadTree[<<m, "meta">>] = None
             /\ received[m] = day
    <2>1. received[m] = day BY <1>1, <1>6 DEF OlderAdds
    <2> QED BY <1>1, <1>6, <2>1, MissedByHead
<1>7. \A m \in Msg : plan[m] = None => Gone(m) BY DEF Contents, PlanHeld
<1>8. point'.live /\ point'.date = day BY <1>1
<1> QED BY <1>1, <1>2, <1>3, <1>4, <1>5, <1>6, <1>7, <1>8, ApplyContents

-----------------------------------------------------------------------------
\* The index a backfill ends with misses only what is gone.
LEMMA BackfillEndsContents ==
    ASSUME Types, Indexes, Contents, BackfillEnds PROVE Contents'
<1>1. /\ pc = "enumerate" /\ dindex' = ix /\ dstate'.phase = "synced"
      /\ UNCHANGED <<mail, received, chain, work, odd>>
    BY DEF BackfillEnds, accountVars, repoVars, historyVars, Types, TypeOK, State
<1>2. \A m \in Msg :
          /\ "leftover" \notin odd /\ ix[m] = None /\ HeadTree[<<m, "meta">>] # None => Gone(m)
          /\ ix[m] # None => received[m] # 0
    BY <1>1, MissedByHead
<1>3. CASE refresh
    <2>1. Return BY <1>3 DEF BackfillEnds
    <2> QED BY <1>1, <1>2, <2>1, SameWork, ReturnContents
<1>4. CASE ~refresh
    <2>1. /\ pc' = "plan" /\ st'.phase = "synced"
          /\ UNCHANGED <<ix, pending, plan, point>>
        BY <1>1, <1>4 DEF BackfillEnds
    <2>2. BuildTree' = BuildTree /\ HeadTree' = HeadTree
        BY <1>1, <2>1 DEF BuildTree, HeadTree, Tip
    <2>3. \A m \in Msg : Gone(m) <=> Gone(m)' BY <1>1 DEF Gone
    <2>4. Known' BY <1>1, <2>1 DEF Contents, Known
    <2>5. PlanHeld' BY <1>1, <2>1, <2>3 DEF Contents, PlanHeld
    <2>6. MissingIsGone' /\ MissingOnDisk'
        BY <1>1, <1>2, <2>1, <2>2, <2>3, SameWork DEF Contents, MissingIsGone
    <2>7. InPairs' BY <1>1, <2>2 DEF Contents, InPairs, Paired
    <2>8. DayOnly' BY <2>1 DEF DayOnly
    <2>9. InOrder' BY <1>1 DEF Contents, InOrder
    <2> QED BY <2>4, <2>5, <2>6, <2>7, <2>8, <2>9 DEF Contents
<1> QED BY <1>3, <1>4

\* A message that is planned for deletion was received and is gone; one that is
\* planned for addition is not gone, so HEAD misses it too.
LEMMA PlanContents ==
    ASSUME Types, Indexes, Contents, Plan PROVE Contents'
<1>1. /\ pc = "plan"
      /\ UNCHANGED <<mail, received, chain, work, dstate, dindex, odd>>
    BY DEF Plan, repoVars, savedVars, historyVars
<1>2. CASE ~refresh /\ behind = {}
    <2>1. Return BY <1>2 DEF Plan
    <2>2. \A m \in Msg : dindex'[m] # None => received[m] # 0
        BY <1>1 DEF Contents, Known
    <2>3. chain # <<>> /\ dstate'.head = chain /\ "leftover" \notin odd =>
              \A m \in Msg : dindex'[m] = None /\ HeadTree[<<m, "meta">>] # None => Gone(m)
        BY <1>1 DEF Contents, MissingIsGone
    <2> QED BY <1>1, <2>1, <2>2, <2>3, SameWork, ReturnContents
<1>3. CASE ~(~refresh /\ behind = {})
    <2>1. /\ pc' = "apply" /\ UNCHANGED <<st, ix, pending, point>>
          /\ plan' = [m \in Msg |-> IF Differs(m) THEN mail[m] ELSE "keep"]
        BY <1>3 DEF Plan, storeVars
    <2>2. BuildTree' = BuildTree /\ HeadTree' = HeadTree
        BY <1>1, <2>1 DEF BuildTree, HeadTree, Tip
    <2>3. \A m \in Msg : Gone(m) <=> Gone(m)' BY <1>1 DEF Gone
    <2>4. None # "keep" /\ "keep" \notin Meta /\ None \notin Meta BY MetaAssumption
    <2>5. ASSUME NEW m \in Msg, plan'[m] = None PROVE Gone(m)
        <3>1. Differs(m) /\ mail[m] = None BY <2>1, <2>4, <2>5
        <3>2. ix[m] # None BY <3>1 DEF Differs
        <3>3. received[m] # 0 BY <1>1, <3>2, MissedByHead
        <3> QED BY <3>1, <3>3 DEF Gone
    <2>6. ASSUME NEW m \in Msg, plan'[m] \in Meta, ix[m] = None, "leftover" \notin odd
          PROVE  BuildTree[<<m, "meta">>] = None
        <3>1. mail[m] # None BY <2>1, <2>4, <2>6
        <3> QED BY <1>1, <2>6, <3>1, MissedByHead DEF Gone
    <2>7. st.phase # "backfill" BY <1>1 DEF Contents, PlanHeld
    <2>8. Known' BY <1>1, <2>1 DEF Contents, Known
    <2>9. PlanHeld' BY <2>1, <2>3, <2>5, <2>7 DEF PlanHeld
    <2>10. MissingIsGone' /\ MissingOnDisk'
        BY <1>1, <2>1, <2>2, <2>3, <2>6, SameWork DEF Contents, MissingIsGone
    <2>11. InPairs' BY <1>1, <2>2 DEF Contents, InPairs, Paired
    <2>12. DayOnly' BY <2>1 DEF DayOnly
    <2>13. InOrder' BY <1>1 DEF Contents, InOrder
    <2> QED BY <2>8, <2>9, <2>10, <2>11, <2>12, <2>13 DEF Contents
<1> QED BY <1>2, <1>3

\* A new history has one more commit or another last one, and never another
\* first one: current_commit_day has no commit to name before the second.
LEMMA CommitsOfCheckpoint ==
    ASSUME Types, Dates, Checkpoint, chain' # chain
    PROVE  /\ BuildTree # HeadTree /\ chain' = NextChain(BuildTree)
           /\ Len(chain) \in Nat /\ Len(chain) >= 1
           /\ \/ /\ point.live /\ Len(chain) >= 2 /\ Len(chain') = Len(chain)
                 /\ st.commitDay = point.date
                 /\ \A i \in 1 .. Len(chain) - 1 : chain'[i] = chain[i]
                 /\ chain'[Len(chain)].date = today
              \/ /\ Len(chain') = Len(chain) + 1
                 /\ \A i \in 1 .. Len(chain) : chain'[i] = chain[i]
                 /\ chain'[Len(chain) + 1].date = IF point.live THEN today ELSE point.date
<1>1. pc = "commit" /\ BuildTree # HeadTree /\ chain' = NextChain(BuildTree)
    BY DEF Checkpoint
<1>2. Len(chain) \in Nat /\ Len(chain) >= 1 BY Numbers, DatesGrow
<1>3. ASSUME st.commitDay = point.date PROVE Len(chain) >= 2
    <2>1. point.date # 0
        <3>1. point.date \in Days BY <1>1 DEF Types, InStage
        <3> QED BY <3>1 DEF Days
    <2>2. PICK j \in 2 .. Len(chain) : chain[j].date >= point.date
        BY <1>3, <2>1 DEF Dates, CommitDayHeld
    <2> QED BY <1>2, <2>2
<1> QED BY <1>1, <1>2, <1>3, AmendsOrAppends

\* A checkpoint commits only what was received, in order unless it is late.
LEMMA CheckpointContents ==
    ASSUME Types, Dates, Indexes, Contents, Checkpoint PROVE Contents'
<1>1. /\ pc = "commit" /\ pc' \in {"save", "save end"} /\ pending' = {}
      /\ UNCHANGED <<mail, received, work, dstate, dindex, ix, plan, point>>
      /\ chain # <<>>
    BY DEF Checkpoint, accountVars, savedVars, Types, InStage
<1>2. st'.phase = st.phase BY DEF Checkpoint, Types, TypeOK, State
<1>3. odd' \in {odd, odd \cup {"late"}} BY DEF Checkpoint
<1>4. HeadTree' = BuildTree /\ (dstate.head = chain' => chain' = chain /\ BuildTree = HeadTree)
    BY CheckpointHead
<1>5. BuildTree' = BuildTree BY <1>1, <1>4 DEF BuildTree
<1>6. \A m \in Msg : Gone(m) <=> Gone(m)' BY <1>1 DEF Gone
<1>7. Types' BY CheckpointTypes
<1>8. Known'
    <2>1. ASSUME NEW f \in File, BuildTree[f] # None PROVE received[f[1]] # 0
        BY <2>1, HeadKnown DEF BuildTree, Contents, Known
    <2>2. ASSUME NEW i \in DOMAIN chain', NEW f \in File, chain'[i].tree[f] # None
          PROVE  received[f[1]] # 0
        <3>1. CASE chain' = chain BY <2>2, <3>1 DEF Contents, Known
        <3>2. CASE chain' # chain /\ i # Len(chain')
            <4>1. i \in DOMAIN chain /\ chain'[i] = chain[i]
                <5>0. Len(chain) \in Nat /\ chain' # chain BY <3>2, Numbers
                <5>1. i \in 1 .. Len(chain') /\ Len(chain') \in Nat BY <2>2, DatesGrow
                <5>2. Len(chain) \in Nat /\ DOMAIN chain = 1 .. Len(chain) BY Numbers
                <5>3. CASE Len(chain') = Len(chain)
                    <6>1. i \in 1 .. Len(chain) - 1 BY <3>2, <5>1, <5>2, <5>3
                    <6>2. \A k \in 1 .. Len(chain) - 1 : chain'[k] = chain[k]
                        BY <5>0, <5>3, CommitsOfCheckpoint
                    <6> QED BY <5>2, <6>1, <6>2
                <5>4. CASE Len(chain') = Len(chain) + 1
                    <6>1. i \in 1 .. Len(chain) BY <3>2, <5>1, <5>2, <5>4
                    <6>2. \A k \in 1 .. Len(chain) : chain'[k] = chain[k]
                        BY <5>0, <5>4, CommitsOfCheckpoint
                    <6> QED BY <5>2, <6>1, <6>2
                <5> QED BY <3>2, <5>3, <5>4, CommitsOfCheckpoint
            <4> QED BY <2>2, <4>1 DEF Contents, Known
        <3>3. CASE chain' # chain /\ i = Len(chain')
            <4>1. chain' # <<>> BY DatesGrow
            <4>2. chain'[i].tree = BuildTree BY <1>4, <3>3, <4>1 DEF HeadTree, Tip
            <4> QED BY <2>1, <2>2, <4>2
        <3> QED BY <3>1, <3>2, <3>3
    <2> QED BY <1>1, <2>2 DEF Contents, Known
<1>9. PlanHeld' BY <1>1, <1>2, <1>6 DEF Contents, PlanHeld
<1>10. MissingIsGone' /\ MissingOnDisk'
    <2>0. "leftover" \in odd' <=> "leftover" \in odd BY <1>3
    <2> SUFFICES ASSUME "leftover" \notin odd PROVE MissingIsGone' /\ MissingOnDisk'
        BY <2>0 DEF MissingIsGone, MissingOnDisk
    <2>1. ASSUME NEW m \in Msg, work[<<m, "meta">>] = None, BuildTree[<<m, "meta">>] # None
          PROVE  Gone(m)
        <3>1. HeadTree[<<m, "meta">>] # None BY <2>1, FilesOfMessages DEF BuildTree
        <3> QED BY <2>1, <3>1 DEF Contents, MissingOnDisk
    <2>2. ASSUME NEW m \in Msg
          PROVE  /\ ix[m] = None /\ BuildTree[<<m, "meta">>] # None => Gone(m)
                 /\ plan[m] \in Meta /\ ix[m] = None => BuildTree[<<m, "meta">>] = None
        BY <1>1 DEF Contents, MissingIsGone
    <2>3. ASSUME NEW m \in Msg, dstate.head = chain', dindex[m] = None,
                 BuildTree[<<m, "meta">>] # None
          PROVE  Gone(m)
        BY <1>1, <1>4, <2>3 DEF Contents, MissingIsGone
    <2> QED BY <1>1, <1>4, <1>5, <1>6, <2>1, <2>2, <2>3 DEF MissingIsGone, MissingOnDisk
<1>11. InPairs'
    <2>1. /\ "reindexed" \in odd' <=> "reindexed" \in odd
          /\ "leftover" \in odd' <=> "leftover" \in odd
        BY <1>3
    <2> QED BY <1>4, <1>5, <2>1 DEF Contents, InPairs, Paired
<1>12. DayOnly' BY <1>1 DEF DayOnly
<1>13. InOrder'
    <2>1. CASE chain' = chain BY <1>3, <2>1 DEF Contents, InOrder
    <2>2. CASE chain' # chain
        <3>1. chain'[1] = chain[1] BY <2>2, CommitsOfCheckpoint
        <3>2. chain'[1].tree = Empty BY <1>1, <3>1 DEF Contents, InOrder
        <3>3. ASSUME odd' \cap {"late", "overnight"} = {},
                     NEW i \in 2 .. Len(chain'), NEW j \in 2 .. Len(chain'), i <= j
              PROVE  chain'[i].date <= chain'[j].date
            <4>1. /\ Len(chain) \in Nat /\ today \in Nat /\ point.date \in Nat
                  /\ \A k \in 1 .. Len(chain) : chain[k].date \in Nat /\ chain[k].date <= today
                BY Numbers DEF Dates, NotLater
            <4>2. odd \cap {"late", "overnight"} = {} BY <1>3, <3>3
            <4>3. \A k, l \in 2 .. Len(chain) : k <= l => chain[k].date <= chain[l].date
                BY <4>2 DEF Contents, InOrder
            <4>4. ~IsLate
                <5>1. odd' = IF IsLate THEN odd \cup {"late"} ELSE odd
                    BY <2>2 DEF Checkpoint
                <5> QED BY <3>3, <5>1
            <4>5. ~point.live /\ Len(chain) > 1 => chain[Len(chain)].date <= point.date
                BY <4>1, <4>4 DEF IsLate, Tip
            <4>6. CASE Len(chain') = Len(chain)
                <5>1. /\ \A k \in 1 .. Len(chain) - 1 : chain'[k] = chain[k]
                      /\ chain'[Len(chain)].date = today
                    BY <2>2, <4>1, <4>6, CommitsOfCheckpoint
                <5>2. CASE j < Len(chain)
                    <6>1. /\ i \in 2 .. Len(chain) /\ i \in 1 .. Len(chain) - 1
                          /\ j \in 2 .. Len(chain) /\ j \in 1 .. Len(chain) - 1
                        BY <3>3, <4>1, <5>2
                    <6> QED BY <3>3, <4>3, <5>1, <6>1
                <5>3. CASE j = Len(chain) /\ i = j BY <4>1, <5>1, <5>3
                <5>4. CASE j = Len(chain) /\ i # j
                    <6>1. i \in 1 .. Len(chain) - 1 /\ i \in 1 .. Len(chain)
                        BY <3>3, <4>1, <5>4
                    <6> QED BY <4>1, <5>1, <5>4, <6>1
                <5> QED BY <3>3, <4>1, <4>6, <5>2, <5>3, <5>4
            <4>7. CASE Len(chain') = Len(chain) + 1
                <5>1. /\ \A k \in 1 .. Len(chain) : chain'[k] = chain[k]
                      /\ chain'[Len(chain) + 1].date =
                            IF point.live THEN today ELSE point.date
                    BY <2>2, <4>1, <4>7, CommitsOfCheckpoint
                <5>2. CASE j <= Len(chain)
                    <6>1. /\ i \in 2 .. Len(chain) /\ i \in 1 .. Len(chain)
                          /\ j \in 2 .. Len(chain) /\ j \in 1 .. Len(chain)
                        BY <3>3, <4>1, <5>2
                    <6> QED BY <3>3, <4>3, <5>1, <6>1
                <5>3. CASE j = Len(chain) + 1 /\ i = j
                    BY <4>1, <5>1, <5>3
                <5>4. CASE j = Len(chain) + 1 /\ i # j
                    <6>1. /\ i \in 2 .. Len(chain) /\ Len(chain) \in 2 .. Len(chain)
                          /\ i <= Len(chain) /\ i \in 1 .. Len(chain) /\ Len(chain) > 1
                        BY <3>3, <4>1, <5>4
                    <6>2. chain[i].date <= chain[Len(chain)].date BY <4>3, <6>1
                    <6>3. chain[i].date <= IF point.live THEN today ELSE point.date
                        BY <4>1, <4>5, <6>1, <6>2
                    <6> QED BY <5>1, <5>4, <6>1, <6>3
                <5> QED BY <3>3, <4>1, <4>7, <5>2, <5>3, <5>4
            <4> QED BY <2>2, <4>6, <4>7, CommitsOfCheckpoint
        <3> QED BY <3>2, <3>3 DEF InOrder
    <2> QED BY <2>1, <2>2
<1> QED BY <1>8, <1>9, <1>10, <1>11, <1>12, <1>13 DEF Contents

\* The saved index is the one of the pass.
LEMMA SaveContents ==
    ASSUME Types, Indexes, Contents, Save PROVE Contents'
<1>1. /\ pc \in {"save", "save end"} /\ dstate' = st /\ dindex' = ix
      /\ UNCHANGED <<mail, received, chain, work, odd>>
    BY DEF Save, repoVars, historyVars
<1>2. \A m \in Msg :
          /\ "leftover" \notin odd /\ ix[m] = None /\ HeadTree[<<m, "meta">>] # None => Gone(m)
          /\ ix[m] # None => received[m] # 0
    BY <1>1, MissedByHead
<1>3. CASE pc = "save end"
    <2>1. Return BY <1>3 DEF Save
    <2> QED BY <1>1, <1>2, <2>1, SameWork, ReturnContents
<1>4. CASE pc = "save"
    <2>1. /\ pc' = IF st.phase = "backfill" THEN "enumerate" ELSE "apply"
          /\ UNCHANGED <<st, ix, pending, plan, point>>
        BY <1>4 DEF Save, storeVars
    <2>2. BuildTree' = BuildTree /\ HeadTree' = HeadTree
        BY <1>1, <2>1 DEF BuildTree, HeadTree, Tip
    <2>3. \A m \in Msg : Gone(m) <=> Gone(m)' BY <1>1 DEF Gone
    <2>4. Known' BY <1>1, <2>1 DEF Contents, Known
    <2>5. PlanHeld' BY <1>1, <2>1, <2>3 DEF Contents, PlanHeld
    <2>6. MissingIsGone' /\ MissingOnDisk'
        BY <1>1, <1>2, <2>1, <2>2, <2>3, SameWork DEF Contents, MissingIsGone
    <2>7. InPairs' BY <1>1, <2>2 DEF Contents, InPairs, Paired
    <2>8. DayOnly' BY <2>1 DEF DayOnly
    <2>9. InOrder' BY <1>1 DEF Contents, InOrder
    <2> QED BY <2>4, <2>5, <2>6, <2>7, <2>8, <2>9 DEF Contents
<1> QED BY <1>1, <1>3, <1>4

\* What a stopped pass leaves in the worktree is what an event does, so it was
\* received, or is gone; the saved index is the one before.
LEMMA StopContents == ASSUME Types, Contents, Stop \/ Fail PROVE Contents'
<1>1. PICK events \in Underway : \E files \in Progress(events) : Over(events, files)
    BY DEF Stop, Fail
<1>2. PICK files \in Progress(events) : Over(events, files) BY <1>1
<1>3. /\ Return /\ work' = Written(files, events)
      /\ UNCHANGED <<mail, received, chain, odd, dstate, dindex>>
    BY <1>2 DEF Over, savedVars, historyVars
<1>4. /\ events \in [Msg -> Meta \cup {None, "keep"}]
      /\ \A m \in Msg : events[m] \in Meta => received[m] # 0
      /\ \A m \in Msg : events[m] = None => Gone(m)
    BY UnderwayTypes DEF Days, Contents, PlanHeld
<1>5. ASSUME NEW f \in files
      PROVE  /\ f[1] \in Msg /\ events[f[1]] \in Meta \cup {None}
             /\ work'[f] = Content(f, events[f[1]])
    <2>1. f \in Edited(events) BY DEF Progress
    <2>2. f \in File /\ events[f[1]] \in Meta \cup {None} BY <1>4, <2>1, EditedFacts
    <2>3. f[1] \in Msg BY <2>2 DEF File
    <2> QED BY <1>3, <2>2, <2>3 DEF Written
<1>6. \A f \in File : f \notin files => work'[f] = work[f] BY <1>3 DEF Written
<1>7. HeadTree' = HeadTree BY <1>3 DEF HeadTree, Tip
<1>8. ASSUME NEW f \in File, work'[f] # None PROVE received[f[1]] # 0
    <2>1. CASE f \notin files BY <1>6, <1>8, <2>1 DEF Contents, Known
    <2>2. CASE f \in files
        <3>1. events[f[1]] # None BY <1>5, <1>8, <2>2 DEF Content
        <3> QED BY <1>4, <1>5, <2>2, <3>1
    <2> QED BY <2>1, <2>2
<1>9. ASSUME NEW m \in Msg, "leftover" \notin odd, work'[<<m, "meta">>] = None,
             HeadTree[<<m, "meta">>] # None
      PROVE  Gone(m)
    <2>1. CASE <<m, "meta">> \notin files
        BY <1>6, <1>9, <2>1, FilesOfMessages DEF Contents, MissingOnDisk
    <2>2. CASE <<m, "meta">> \in files
        <3>1. work'[<<m, "meta">>] = Content(<<m, "meta">>, events[m])
            BY <1>5, <2>2, FilesOfMessages
        <3>2. events[m] = None BY <1>9, <3>1 DEF Content
        <3> QED BY <1>4, <3>2
    <2> QED BY <2>1, <2>2
<1>10. WorkHeld'
    <2>1. \A m \in Msg : Gone(m) <=> Gone(m)' BY <1>3 DEF Gone
    <2> QED BY <1>3, <1>7, <1>8, <1>9, <2>1 DEF WorkHeld, MissingOnDisk
<1>11. \A m \in Msg : dindex'[m] # None => received[m] # 0
    BY <1>3 DEF Contents, Known
<1>12. chain # <<>> /\ dstate'.head = chain /\ "leftover" \notin odd =>
          \A m \in Msg : dindex'[m] = None /\ HeadTree[<<m, "meta">>] # None => Gone(m)
    BY <1>3 DEF Contents, MissingIsGone
<1> QED BY <1>3, <1>10, <1>11, <1>12, ReturnContents

\* An index read from the worktree misses only what is gone.
LEMMA ReindexContents == ASSUME Types, Contents, Reindex PROVE Contents'
<1>1. /\ pc = "idle" /\ dindex' = Indexed(work) /\ odd' \in {odd, odd \cup {"reindexed"}}
      /\ UNCHANGED <<mail, received, chain, work, dstate, st, ix, pending, pc, plan, point>>
    BY DEF Reindex, accountVars, repoVars, storeVars, passVars
<1>2. BuildTree' = BuildTree /\ HeadTree' = HeadTree
    BY <1>1 DEF BuildTree, HeadTree, Tip
<1>3. \A m \in Msg : Gone(m) <=> Gone(m)' BY <1>1 DEF Gone
<1>4. \A m \in Msg : dindex'[m] = work[<<m, "meta">>] BY <1>1 DEF Indexed
<1>5. \A m \in Msg : dindex'[m] # None => received[m] # 0
    BY <1>4, FilesOfMessages DEF Contents, Known
<1>6. Known' BY <1>1, <1>5 DEF Contents, Known
<1>7. PlanHeld' BY <1>1, <1>3 DEF Contents, PlanHeld
<1>8. MissingIsGone' /\ MissingOnDisk'
    BY <1>1, <1>2, <1>3, <1>4 DEF Contents, MissingIsGone, MissingOnDisk
<1>9. InPairs' BY <1>1, <1>2 DEF Contents, InPairs, Paired
<1>10. DayOnly' BY <1>1 DEF DayOnly
<1>11. InOrder' BY <1>1 DEF Contents, InOrder
<1> QED BY <1>6, <1>7, <1>8, <1>9, <1>10, <1>11 DEF Contents

\* A change of the account leaves what was received, and brings nothing back.
LEMMA AccountContents ==
    ASSUME Types, Contents,
           \/ \E m \in Msg, x \in Meta, d \in Days : Arrive(m, x, d)
           \/ \E m \in Msg, x \in Meta : Modify(m, x)
           \/ \E m \in Msg : Destroy(m)
    PROVE  Contents'
<1>1. UNCHANGED <<chain, work, dstate, dindex, st, ix, pending, pc, plan, point, odd>>
    BY DEF Arrive, Modify, Destroy, AccountStep, repoVars, savedVars, storeVars,
           passVars, historyVars
<1>2. received \in [Msg -> 0 .. LastDay] /\ mail \in Index BY DEF Types, TypeOK
<1>3. \A n \in Msg : received[n] # 0 =>
          received'[n] = received[n] /\ (mail[n] = None => mail'[n] = None)
    <2>1. ASSUME NEW m \in Msg, NEW x \in Meta, NEW d \in Days, Arrive(m, x, d),
                 NEW n \in Msg, received[n] # 0
          PROVE  received'[n] = received[n] /\ (mail[n] = None => mail'[n] = None)
        BY <1>2, <2>1 DEF Arrive, AccountStep, Index
    <2>2. ASSUME NEW m \in Msg, NEW x \in Meta, Modify(m, x), NEW n \in Msg
          PROVE  received'[n] = received[n] /\ (mail[n] = None => mail'[n] = None)
        BY <1>2, <2>2 DEF Modify, AccountStep, Index
    <2>3. ASSUME NEW m \in Msg, Destroy(m), NEW n \in Msg
          PROVE  received'[n] = received[n] /\ (mail[n] = None => mail'[n] = None)
        BY <1>2, <2>3 DEF Destroy, AccountStep, Index
    <2> QED BY <2>1, <2>2, <2>3
<1> QED BY <1>1, <1>3, SameContents

\* Every step keeps the contents.
LEMMA ContentsStep ==
    ASSUME Types, Dates, Indexes, Contents, [Next]_vars PROVE Contents'
<1>1. CASE UNCHANGED vars
    <2>1. UNCHANGED <<mail, received, chain, work, dstate, dindex, st, ix, pending,
                      pc, plan, point, odd>>
        BY <1>1 DEF vars, accountVars, repoVars, savedVars, storeVars, passVars,
            historyVars
    <2> QED BY <2>1, SameContents
<1>2. CASE \/ \E m \in Msg, x \in Meta, d \in Days : Arrive(m, x, d)
           \/ \E m \in Msg, x \in Meta : Modify(m, x)
           \/ \E m \in Msg : Destroy(m)
    BY <1>2, AccountContents
<1>3. CASE Tick
    <2>1. /\ UNCHANGED <<mail, received, chain, work, dstate, dindex, st, ix, pending,
                         pc, plan, point>>
          /\ odd' \in {odd, odd \cup {"overnight"}}
        BY <1>3 DEF Tick, accountVars, repoVars, savedVars, storeVars, passVars
    <2>2. odd \subseteq odd' /\ ("reindexed" \in odd' => "reindexed" \in odd)
        BY <2>1
    <2> QED BY <2>1, <2>2, SameContents
<1>4. ASSUME NEW r \in BOOLEAN, Begin(r) PROVE Contents' BY <1>4, BeginContents
<1>5. CASE BackfillDay BY <1>5, BackfillDayContents
<1>6. CASE BackfillEnds BY <1>6, BackfillEndsContents
<1>7. CASE Plan BY <1>7, PlanContents
<1>8. CASE ApplyOlderDay BY <1>8, ApplyOlderDayContents
<1>9. CASE ApplyRest BY <1>9, ApplyRestContents
<1>10. CASE Checkpoint BY <1>10, CheckpointContents
<1>11. CASE Save BY <1>11, SaveContents
<1>12. CASE Stop \/ Fail BY <1>12, StopContents
<1>13. CASE Reindex BY <1>13, ReindexContents
<1> QED
    BY <1>1, <1>2, <1>3, <1>4, <1>5, <1>6, <1>7, <1>8, <1>9, <1>10, <1>11, <1>12,
        <1>13 DEF Next

-----------------------------------------------------------------------------
(* What is read back.                                                       *)

\* resolve_commit in any history.
Upto(c, d) == {i \in DOMAIN c : c[i].date <= d}
ResolveIn(c, d) == Max({0} \cup Upto(c, d))
TreeAt(c, d) == IF ResolveIn(c, d) = 0 THEN Empty ELSE c[ResolveIn(c, d)].tree

\* A set of numbers has a least one.
LEMMA LeastExists ==
    ASSUME NEW T, T \subseteq Nat, T # {}
    PROVE  \E x \in T : \A y \in T : x <= y
<1>1. PICK x \in T : \A y \in T : ~(<<y, x>> \in OpToRel(<, Nat))
    BY NatLessThanWellFounded, WFMin
<1>2. ASSUME NEW y \in T PROVE x <= y
    <2>1. x \in Nat /\ y \in Nat OBVIOUS
    <2>2. y < x => <<y, x>> \in OpToRel(<, Nat) BY <2>1 DEF OpToRel
    <2>3. ~(y < x) BY <1>1, <2>2, Zenon
    <2> QED BY <2>1, <2>3
<1> QED BY <1>2

\* A set of bounded numbers has a greatest one.
LEMMA GreatestExists ==
    ASSUME NEW n \in Nat, NEW T, T \subseteq 0 .. n, T # {}
    PROVE  Max(T) \in T /\ \A y \in T : Max(T) >= y
<1> DEFINE U == {n - x : x \in T}
<1>1. U \subseteq Nat /\ U # {}
    <2>1. \A x \in T : n - x \in Nat OBVIOUS
    <2> QED BY <2>1
<1>2. PICK u \in U : \A v \in U : u <= v BY <1>1, LeastExists
<1>3. PICK x \in T : u = n - x BY <1>2
<1>4. \A y \in T : n - x <= n - y BY <1>2, <1>3
<1>5. \A y \in T : x >= y BY <1>4
<1> QED BY <1>3, <1>5 DEF Max

\* The commit a day resolves to is the last one dated no later (git.rs
\* resolve_commit).
LEMMA ResolveIsLast ==
    ASSUME NEW c, NEW n \in Nat, DOMAIN c = 1 .. n, NEW d
    PROVE  /\ ResolveIn(c, d) \in 0 .. n
           /\ ResolveIn(c, d) # 0 => ResolveIn(c, d) \in Upto(c, d)
           /\ \A i \in Upto(c, d) : i <= ResolveIn(c, d)
<1> DEFINE T == {0} \cup Upto(c, d)
<1>1. T \subseteq 0 .. n /\ T # {} BY DEF Upto
<1>2. ResolveIn(c, d) = Max(T) BY DEF ResolveIn
<1> HIDE DEF T
<1>3. Max(T) \in T /\ \A y \in T : Max(T) >= y BY <1>1, GreatestExists
<1>4. \A i \in T : i \in Nat BY <1>1
<1> USE DEF T
<1>5. \A i \in Upto(c, d) : i <= ResolveIn(c, d) BY <1>2, <1>3, <1>4
<1> QED BY <1>1, <1>2, <1>3, <1>5

\* Two histories with the same commits up to a day are the same on it.
LEMMA SameAt ==
    ASSUME NEW c, NEW n \in Nat, DOMAIN c = 1 .. n, NEW e, NEW d,
           Upto(c, d) = Upto(e, d), \A i \in Upto(c, d) : c[i] = e[i]
    PROVE  TreeAt(c, d) = TreeAt(e, d)
<1>1. ResolveIn(c, d) = ResolveIn(e, d) BY DEF ResolveIn
<1>2. CASE ResolveIn(c, d) = 0 BY <1>1, <1>2 DEF TreeAt
<1>3. CASE ResolveIn(c, d) # 0
    <2>1. ResolveIn(c, d) \in Upto(c, d) BY <1>3, ResolveIsLast
    <2>2. c[ResolveIn(c, d)] = e[ResolveIn(e, d)] BY <1>1, <2>1
    <2> QED BY <1>1, <1>3, <2>2 DEF TreeAt
<1> QED BY <1>2, <1>3

\* From the day of the last commit on, it is the last one that is read.
LEMMA LastAt ==
    ASSUME NEW c, NEW n \in Nat, DOMAIN c = 1 .. n, n # 0, NEW d, c[n].date <= d
    PROVE  TreeAt(c, d) = c[n].tree
<1>1. n \in Upto(c, d) BY DEF Upto
<1>2. n <= ResolveIn(c, d) /\ ResolveIn(c, d) \in 0 .. n BY <1>1, ResolveIsLast
<1>3. ResolveIn(c, d) = n BY <1>2
<1> QED BY <1>3 DEF TreeAt

\* What is read is nothing, or what a commit holds.
LEMMA SomeAt ==
    ASSUME NEW c, NEW n \in Nat, DOMAIN c = 1 .. n, NEW d
    PROVE  TreeAt(c, d) = Empty \/ \E i \in 1 .. n : TreeAt(c, d) = c[i].tree
<1>1. CASE ResolveIn(c, d) = 0 BY <1>1 DEF TreeAt
<1>2. CASE ResolveIn(c, d) # 0
    <2>1. ResolveIn(c, d) \in 1 .. n BY <1>2, ResolveIsLast
    <2> QED BY <1>2, <2>1 DEF TreeAt
<1> QED BY <1>1, <1>2

\* It is what the model reads.
LEMMA AtIsTreeAt == \A d \in Nat : At(d) = TreeAt(chain, d)
BY DEF At, Resolve, TreeAt, ResolveIn, Upto

\* Whatever is read was received.
LEMMA ReadIsKnown ==
    ASSUME Types, Contents, NEW d, NEW f \in File, TreeAt(chain, d)[f] # None
    PROVE  received[f[1]] # 0
<1>1. Len(chain) \in Nat /\ DOMAIN chain = 1 .. Len(chain) BY Numbers
<1>2. TreeAt(chain, d) = Empty \/ \E i \in 1 .. Len(chain) : TreeAt(chain, d) = chain[i].tree
    BY <1>1, SomeAt
<1>3. TreeAt(chain, d) # Empty BY DEF Empty
<1> QED BY <1>1, <1>2, <1>3 DEF Contents, Known

\* The two properties, of what is read from any history.
ThatDay(c) ==
    odd \cap {"late", "overnight", "leftover"} = {} =>
        \A d \in 1 .. today - 1 : \A f \in File :
            TreeAt(c, d)[f] # atEnd[d][f] => atEnd[d][f] = None /\ received[f[1]] <= d
ItsDay(c) ==
    odd = {} =>
        \A i \in DOMAIN c : \A m \in Msg :
            c[i].tree[<<m, "meta">>] # None /\ received[m] < c[i].date =>
                /\ TreeAt(c, received[m])[<<m, "eml">>] # None
                /\ TreeAt(c, received[m])[<<m, "meta">>] # None
History == ThatDay(chain) /\ ItsDay(chain)

\* A message is held, or whole, by its files.
LEMMA FilesHeld ==
    ASSUME NEW tree
    PROVE  /\ \A m \in Msg : m \in Held(Indexed(tree)) <=> tree[<<m, "meta">>] # None
           /\ \A m \in Msg : m \in Whole(tree) <=>
                 tree[<<m, "eml">>] # None /\ tree[<<m, "meta">>] # None
<1>1. \A m \in Msg : Indexed(tree)[m] = tree[<<m, "meta">>] BY DEF Indexed
<1>2. \A m \in Msg : m \in Held(Indexed(tree)) <=> tree[<<m, "meta">>] # None
    BY <1>1 DEF Held
<1>3. \A m \in Msg : m \in Whole(tree) <=>
          tree[<<m, "eml">>] # None /\ tree[<<m, "meta">>] # None
    BY DEF Whole
<1> QED BY <1>2, <1>3

\* History is what the properties say.
LEMMA HistoryMeans ==
    ASSUME Types, History PROVE AtIsThatDay /\ FoundOnItsDay
<1>1. today \in Nat /\ \A m \in Msg : received[m] \in Nat BY Numbers
<1>2. AtIsThatDay
    <2>1. \A d \in 1 .. today - 1 : At(d) = TreeAt(chain, d) BY <1>1, AtIsTreeAt
    <2> QED BY <2>1 DEF AtIsThatDay, History, ThatDay
<1>3. FoundOnItsDay
    <2> SUFFICES ASSUME odd = {}, NEW i \in DOMAIN chain,
                        NEW m \in Held(Indexed(chain[i].tree)), received[m] < chain[i].date
                 PROVE  m \in Whole(At(received[m]))
        BY DEF FoundOnItsDay
    <2>1. m \in Msg BY DEF Held
    <2>2. chain[i].tree[<<m, "meta">>] # None BY <2>1, FilesHeld
    <2>3. At(received[m]) = TreeAt(chain, received[m]) BY <1>1, <2>1, AtIsTreeAt
    <2>4. /\ TreeAt(chain, received[m])[<<m, "eml">>] # None
          /\ TreeAt(chain, received[m])[<<m, "meta">>] # None
        BY <2>1, <2>2 DEF History, ItsDay
    <2> QED BY <2>1, <2>3, <2>4, FilesHeld
<1> QED BY <1>2, <1>3

\* When the program starts nothing is read.
LEMMA InitHistory == ASSUME Init PROVE History
<1>1. chain = <<>> /\ DOMAIN chain = {} /\ DOMAIN chain = 1 .. 0 BY DEF Init
<1>2. \A d : TreeAt(chain, d) = Empty BY <1>1, SomeAt
<1>3. /\ \A d \in 1 .. today - 1 : d \in Days
      /\ \A d \in Days : atEnd[d] = Empty
    BY DayAssumption DEF Init, Days
<1>4. ThatDay(chain) BY <1>2, <1>3 DEF ThatDay
<1>5. ItsDay(chain) BY <1>1 DEF ItsDay
<1> QED BY <1>4, <1>5 DEF History

\* What was received stays received on its day, so a step that leaves the
\* history and the clock alone changes nothing that is read.
LEMMA SameHistory ==
    ASSUME Types, Contents, History, UNCHANGED <<chain, today, atEnd>>, odd \subseteq odd',
           \A m \in Msg : received[m] # 0 => received'[m] = received[m]
    PROVE  History'
<1>1. \A f \in File : f[1] \in Msg BY DEF File
<1>2. ThatDay(chain)'
    <2> SUFFICES ASSUME odd' \cap {"late", "overnight", "leftover"} = {}, NEW d \in 1 .. today - 1,
                        NEW f \in File, TreeAt(chain, d)[f] # atEnd[d][f]
                 PROVE  atEnd[d][f] = None /\ received'[f[1]] <= d
        BY DEF ThatDay
    <2>1. atEnd[d][f] = None /\ received[f[1]] <= d BY DEF History, ThatDay
    <2>2. received[f[1]] # 0 BY <2>1, ReadIsKnown
    <2> QED BY <1>1, <2>1, <2>2
<1>3. ItsDay(chain)'
    <2> SUFFICES ASSUME odd' = {}, NEW i \in DOMAIN chain, NEW m \in Msg,
                        chain[i].tree[<<m, "meta">>] # None, received'[m] < chain[i].date
                 PROVE  /\ TreeAt(chain, received'[m])[<<m, "eml">>] # None
                        /\ TreeAt(chain, received'[m])[<<m, "meta">>] # None
        BY DEF ItsDay
    <2>1. received'[m] = received[m] BY FilesOfMessages DEF Contents, Known
    <2>2. odd = {} BY DEF History
    <2> QED BY <2>1, <2>2 DEF History, ItsDay
<1> QED BY <1>2, <1>3 DEF History

\* The day that ends is read as HEAD is.
LEMMA TickHistory ==
    ASSUME Types, Dates, Contents, History, Tick PROVE History'
<1>1. /\ today' = today + 1 /\ UNCHANGED <<received, chain>> /\ odd \subseteq odd'
      /\ atEnd' = [atEnd EXCEPT ![today] = HeadTree]
    BY DEF Tick, accountVars, repoVars
<1>2. today \in Nat /\ today \in Days /\ atEnd \in [Days -> Tree]
    <2>1. today \in Nat BY Numbers
    <2> QED BY <2>1, DayFacts DEF Types, TypeOK
<1>3. ASSUME NEW d \in 1 .. today - 1 PROVE atEnd'[d] = atEnd[d]
    BY <1>1, <1>2, <1>3
<1>4. TreeAt(chain, today) = HeadTree
    <2>1. Len(chain) \in Nat /\ DOMAIN chain = 1 .. Len(chain) BY Numbers
    <2>2. CASE chain = <<>>
        <3>1. Len(chain) = 0 /\ 1 .. Len(chain) = {} BY <2>2
        <3>2. TreeAt(chain, today) = Empty BY <2>1, <3>1, SomeAt
        <3> QED BY <2>2, <3>2 DEF HeadTree
    <2>3. CASE chain # <<>>
        <3>0. Len(chain) \in DOMAIN chain BY <2>3, Ends DEF Types, TypeOK
        <3>1. Len(chain) # 0 /\ Len(chain) \in DOMAIN chain BY <2>1, <3>0
        <3>2. chain[Len(chain)].date <= today BY <3>1 DEF Dates, NotLater
        <3> QED BY <2>1, <2>3, <3>1, <3>2, LastAt DEF HeadTree, Tip
    <2> QED BY <2>2, <2>3
<1>5. atEnd'[today] = HeadTree BY <1>1, <1>2
<1>6. ThatDay(chain)'
    <2> SUFFICES ASSUME odd' \cap {"late", "overnight", "leftover"} = {}, NEW d \in 1 .. today' - 1,
                        NEW f \in File, TreeAt(chain, d)[f] # atEnd'[d][f]
                 PROVE  atEnd'[d][f] = None /\ received[f[1]] <= d
        BY <1>1 DEF ThatDay
    <2>1. d \in 1 .. today - 1
        <3>1. d # today BY <1>4, <1>5
        <3> QED BY <1>1, <1>2, <3>1
    <2>2. odd \cap {"late", "overnight", "leftover"} = {} BY <1>1
    <2> QED BY <1>3, <2>1, <2>2 DEF History, ThatDay
<1>7. ItsDay(chain)' BY <1>1 DEF History, ItsDay
<1> QED BY <1>6, <1>7 DEF History

\* The root commit is dated today, and holds nothing.
LEMMA BeginHistory ==
    ASSUME Types, Contents, History, NEW r \in BOOLEAN, Begin(r) PROVE History'
<1>1. UNCHANGED <<today, received, atEnd, odd>> /\ chain' = WithRoot
    BY DEF Begin, historyVars
<1>2. CASE chain # <<>>
    <2>1. chain' = chain BY <1>1, <1>2, RootTypes
    <2> QED BY <1>1, <2>1, SameHistory
<1>3. CASE chain = <<>>
    <2> DEFINE root == [tree |-> Empty, date |-> today, label |-> 0, live |-> FALSE]
    <2>1. chain' = <<root>> BY <1>1, <1>3 DEF WithRoot
    <2>2. root.tree = Empty OBVIOUS
    <2> HIDE DEF root
    <2>3. DOMAIN chain' = 1 .. 1 /\ chain'[1].tree = Empty BY <2>1, <2>2
    <2>4. DOMAIN chain = 1 .. 0 BY <1>3
    <2>5. ASSUME NEW d PROVE TreeAt(chain', d) = Empty /\ TreeAt(chain, d) = Empty
        <3>1. TreeAt(chain, d) = Empty BY <2>4, SomeAt
        <3>2. TreeAt(chain', d) = Empty \/ \E i \in 1 .. 1 : TreeAt(chain', d) = chain'[i].tree
            BY <2>3, SomeAt
        <3> QED BY <2>3, <3>1, <3>2
    <2>6. ThatDay(chain)' BY <1>1, <2>5 DEF History, ThatDay
    <2>7. ItsDay(chain)' BY <2>3, FilesOfMessages DEF ItsDay, Empty
    <2> QED BY <2>6, <2>7 DEF History
<1> QED BY <1>2, <1>3

\* The new commit of a checkpoint that is not late: it is the last, and not
\* before any other, and a day before it is read as it was.
LEMMA NewCommitLast ==
    ASSUME Types, Dates, Indexes, Contents, Checkpoint, chain' # chain,
           odd' \cap {"late", "overnight", "leftover"} = {}
    PROVE  LET n == Len(chain)
               k == Len(chain') IN
           /\ n \in Nat /\ n # 0 /\ DOMAIN chain = 1 .. n
           /\ k \in Nat /\ k # 0 /\ DOMAIN chain' = 1 .. k
           /\ \A i \in 1 .. k : i # k => i \in 1 .. n /\ chain'[i] = chain[i]
           /\ chain'[k].tree = BuildTree /\ chain[n].tree = HeadTree
           /\ chain'[k].date \in Nat /\ chain[n].date \in Nat
           /\ chain'[k].date = point.date
           /\ point.live => point.date = today
           /\ n = 1 => chain[n].tree = Empty
           /\ n # 1 => chain[n].date <= chain'[k].date
           /\ k = n => chain[n].date = chain'[k].date
           /\ k # n => k = n + 1 /\ chain'[n] = chain[n]
           /\ \A d \in Nat : d < chain'[k].date => TreeAt(chain', d) = TreeAt(chain, d)
<1> DEFINE n == Len(chain)
           k == Len(chain')
<1>1. /\ n \in Nat /\ n >= 1 /\ DOMAIN chain = 1 .. n /\ today \in Nat /\ point.date \in Nat
      /\ \A i \in 1 .. n : chain[i].date \in Nat /\ chain[i].date <= today
    BY Numbers, CommitsOfCheckpoint DEF Dates, NotLater
<1>2. k \in Nat /\ k >= n /\ DOMAIN chain' = 1 .. k BY DatesGrow
<1>3. pc = "commit" /\ HeadTree' = BuildTree BY CheckpointHead DEF Checkpoint
<1>4. chain # <<>> /\ chain' # <<>> BY <1>1, <1>2
<1>5. chain'[k].tree = BuildTree /\ chain[n].tree = HeadTree
    BY <1>3, <1>4 DEF HeadTree, Tip
<1>6. odd' = (IF IsLate THEN odd \cup {"late"} ELSE odd)
    BY CommitsOfCheckpoint DEF Checkpoint
<1>7. ~IsLate /\ odd \cap {"late", "overnight", "leftover"} = {} BY <1>6
<1>8. point.live => point.date = today BY <1>3, <1>7 DEF Dates, InItsDay
<1>9. \A i, j \in 2 .. n : i <= j => chain[i].date <= chain[j].date
    BY <1>7 DEF Contents, InOrder
<1>10. ~point.live /\ n > 1 => chain[n].date <= point.date
    BY <1>1, <1>7 DEF IsLate, Tip
<1>11. n = 1 => chain[n].tree = Empty BY <1>4 DEF Contents, InOrder
<1>12. \/ /\ point.live /\ n >= 2 /\ k = n /\ st.commitDay = point.date
          /\ \A i \in 1 .. n - 1 : chain'[i] = chain[i]
          /\ chain'[n].date = today
       \/ /\ k = n + 1
          /\ \A i \in 1 .. n : chain'[i] = chain[i]
          /\ chain'[n + 1].date = IF point.live THEN today ELSE point.date
    BY CommitsOfCheckpoint
<1>13. st.commitDay = point.date => \E j \in 2 .. n : chain[j].date >= point.date
    <2>1. point.date # 0
        <3>1. point.date \in Days BY <1>3 DEF Types, InStage
        <3> QED BY <3>1 DEF Days
    <2> QED BY <2>1 DEF Dates, CommitDayHeld
<1> HIDE DEF n, k
<1>14. CASE k = n
    <2>1. /\ point.live /\ n >= 2 /\ st.commitDay = point.date
          /\ \A i \in 1 .. n - 1 : chain'[i] = chain[i]
          /\ chain'[n].date = today
        BY <1>1, <1>12, <1>14
    <2>2. chain[n].date = today
        <3>2. PICK j \in 2 .. n : chain[j].date >= point.date BY <1>13, <2>1
        <3>3. n \in 2 .. n /\ j <= n /\ j \in 1 .. n /\ n \in 1 .. n BY <1>1, <2>1
        <3>4. chain[j].date <= chain[n].date BY <1>9, <3>3
        <3>5. chain[j].date \in Nat /\ chain[n].date \in Nat /\ chain[n].date <= today
            BY <1>1, <3>3
        <3>6. point.date = today BY <1>8, <2>1
        <3> QED BY <1>1, <3>2, <3>4, <3>5, <3>6
    <2>3. ASSUME NEW d \in Nat, d < today PROVE TreeAt(chain', d) = TreeAt(chain, d)
        <3>1. /\ \A i \in 1 .. n : i \in 1 .. n - 1 \/ i = n
              /\ ~(chain[n].date <= d) /\ ~(chain'[n].date <= d)
            BY <1>1, <2>1, <2>2, <2>3
        <3>2. Upto(chain', d) = Upto(chain, d)
            BY <1>1, <1>2, <1>14, <2>1, <3>1 DEF Upto
        <3>3. \A i \in Upto(chain, d) : chain[i] = chain'[i]
            BY <1>1, <2>1, <3>1 DEF Upto
        <3> QED BY <1>1, <3>2, <3>3, SameAt
    <2>4. \A i \in 1 .. n : i # n => i \in 1 .. n - 1 BY <1>1
    <2>5. point.date = today BY <1>8, <2>1
    <2>6. n # 1 /\ n # 0 BY <1>1, <2>1
    <2> QED BY <1>1, <1>2, <1>5, <1>8, <1>14, <2>1, <2>2, <2>3, <2>4, <2>5, <2>6
<1>15. CASE k = n + 1
    <2>1. /\ \A i \in 1 .. n : chain'[i] = chain[i]
          /\ chain'[n + 1].date = IF point.live THEN today ELSE point.date
        BY <1>1, <1>12, <1>15
    <2>2. chain'[n + 1].date = point.date BY <1>8, <2>1
    <2>3. ASSUME NEW d \in Nat, d < point.date PROVE TreeAt(chain', d) = TreeAt(chain, d)
        <3>1. /\ \A i \in 1 .. n + 1 : i \in 1 .. n \/ i = n + 1
              /\ 1 .. n \subseteq 1 .. n + 1 /\ ~(chain'[n + 1].date <= d)
            BY <1>1, <2>2, <2>3
        <3>2. Upto(chain', d) = Upto(chain, d)
            BY <1>1, <1>2, <1>15, <2>1, <3>1 DEF Upto
        <3>3. \A i \in Upto(chain, d) : chain[i] = chain'[i] BY <1>1, <2>1 DEF Upto
        <3> QED BY <1>1, <3>2, <3>3, SameAt
    <2>4. \A i \in 1 .. k : i # k => i \in 1 .. n BY <1>1, <1>15
    <2>5. n # 1 => chain[n].date <= point.date
        BY <1>1, <1>8, <1>10
    <2>6. n # 0 /\ k # 0 /\ k # n /\ n \in 1 .. n BY <1>1, <1>15
    <2> QED BY <1>1, <1>2, <1>5, <1>8, <1>11, <1>15, <2>1, <2>2, <2>3, <2>4, <2>5, <2>6
<1> QED BY <1>12, <1>14, <1>15, CommitsOfCheckpoint DEF n, k

\* A checkpoint changes what is read of no day that is over, but by the mail of
\* that day or a later one that a past day adds; and what it adds is found on the
\* day of the commit.
LEMMA CheckpointHistory ==
    ASSUME Types, Dates, Indexes, Contents, History, Checkpoint PROVE History'
<1> DEFINE n == Len(chain)
           k == Len(chain')
<1>1. /\ UNCHANGED <<today, received, point, atEnd>> /\ pc = "commit"
      /\ odd' \in {odd, odd \cup {"late"}}
    BY DEF Checkpoint, accountVars
<1>2. CASE chain' = chain BY <1>1, <1>2, SameHistory
<1>3. CASE chain' # chain
    <2>1. today \in Nat /\ \A m \in Msg : received[m] \in Nat BY Numbers
    <2>2. ThatDay(chain)'
        <3> SUFFICES ASSUME odd' \cap {"late", "overnight", "leftover"} = {}, NEW d \in 1 .. today - 1,
                            NEW f \in File, TreeAt(chain', d)[f] # atEnd[d][f]
                     PROVE  atEnd[d][f] = None /\ received[f[1]] <= d
            BY <1>1 DEF ThatDay
        <3>1. odd \cap {"late", "overnight", "leftover"} = {} BY <1>1
        <3>2. TreeAt(chain, d)[f] # atEnd[d][f] =>
                  atEnd[d][f] = None /\ received[f[1]] <= d
            BY <3>1 DEF History, ThatDay
        <3>3. /\ n \in Nat /\ n # 0 /\ DOMAIN chain = 1 .. n
              /\ k \in Nat /\ k # 0 /\ DOMAIN chain' = 1 .. k
              /\ chain'[k].tree = BuildTree /\ chain[n].tree = HeadTree
              /\ chain'[k].date \in Nat /\ chain[n].date \in Nat
              /\ chain'[k].date = point.date
              /\ point.live => point.date = today
              /\ n = 1 => chain[n].tree = Empty
              /\ n # 1 => chain[n].date <= chain'[k].date
            BY <1>3, NewCommitLast
        <3>4. \A t \in Nat : t < chain'[k].date => TreeAt(chain', t) = TreeAt(chain, t)
            BY <1>3, NewCommitLast
        <3> HIDE DEF n, k
        <3>5. d \in Nat /\ d < today BY <2>1
        <3>6. CASE d < chain'[k].date BY <3>2, <3>4, <3>5, <3>6
        <3>7. CASE ~(d < chain'[k].date)
            <4>1. chain'[k].date <= d /\ ~point.live BY <2>1, <3>3, <3>5, <3>7
            <4>2. TreeAt(chain', d) = BuildTree BY <3>3, <4>1, LastAt
            <4>3. TreeAt(chain, d) = HeadTree
                <5>1. CASE n = 1
                    <6>1. TreeAt(chain, d) = Empty
                             \/ \E i \in 1 .. n : TreeAt(chain, d) = chain[i].tree
                        BY <3>3, SomeAt
                    <6>2. \A i \in 1 .. n : i = n BY <5>1
                    <6>3. HeadTree = Empty /\ chain[n].tree = Empty BY <3>3, <5>1
                    <6> QED BY <6>1, <6>2, <6>3
                <5>2. CASE n # 1
                    <6>1. chain[n].date <= d BY <3>3, <3>5, <4>1, <5>2
                    <6> QED BY <3>3, <6>1, LastAt
                <5> QED BY <5>1, <5>2
            <4>4. CASE BuildTree[f] = HeadTree[f] BY <3>2, <4>2, <4>3, <4>4
            <4>5. CASE BuildTree[f] # HeadTree[f]
                <5>1. HeadTree[f] = None /\ received[f[1]] = point.date
                    BY <1>1, <4>1, <4>5 DEF Contents, DayOnly
                <5>2. received[f[1]] <= d BY <3>3, <4>1, <5>1
                <5> QED BY <3>2, <4>3, <5>1, <5>2
            <4> QED BY <4>4, <4>5
        <3> QED BY <3>6, <3>7
    <2>3. ItsDay(chain)'
        <3> SUFFICES ASSUME odd' = {}, NEW i \in DOMAIN chain', NEW m \in Msg,
                            chain'[i].tree[<<m, "meta">>] # None,
                            received[m] < chain'[i].date
                     PROVE  /\ TreeAt(chain', received[m])[<<m, "eml">>] # None
                            /\ TreeAt(chain', received[m])[<<m, "meta">>] # None
            BY <1>1 DEF ItsDay
        <3>1. odd = {} /\ odd' \cap {"late", "overnight", "leftover"} = {} BY <1>1
        <3>2. \A j \in DOMAIN chain :
                  chain[j].tree[<<m, "meta">>] # None /\ received[m] < chain[j].date =>
                      /\ TreeAt(chain, received[m])[<<m, "eml">>] # None
                      /\ TreeAt(chain, received[m])[<<m, "meta">>] # None
            BY <3>1 DEF History, ItsDay
        <3>3. /\ n \in Nat /\ n # 0 /\ DOMAIN chain = 1 .. n
              /\ k \in Nat /\ k # 0 /\ DOMAIN chain' = 1 .. k
              /\ chain'[k].tree = BuildTree /\ chain[n].tree = HeadTree
              /\ chain'[k].date \in Nat /\ chain[n].date \in Nat
              /\ chain'[k].date = point.date
              /\ k = n => chain[n].date = chain'[k].date
            BY <1>3, <3>1, NewCommitLast
        <3>4. \A t \in Nat : t < chain'[k].date => TreeAt(chain', t) = TreeAt(chain, t)
            BY <1>3, <3>1, NewCommitLast
        <3>5. \A j \in 1 .. k : j # k => j \in 1 .. n /\ chain'[j] = chain[j]
            BY <1>3, <3>1, NewCommitLast
        <3>6. received[m] \in Nat BY <2>1
        <3>7. /\ chain' # <<>> => chain'[1].tree = Empty
              /\ \A j, l \in 2 .. k : j <= l => chain'[j].date <= chain'[l].date
            <4>1. Contents' BY CheckpointContents
            <4> QED BY <3>1, <4>1 DEF Contents, InOrder
        <3>8. \A j \in DOMAIN chain' : chain'[j].date \in Nat
            <4>1. chain' \in Seq(Commit) BY CheckpointTypes DEF Types, TypeOK
            <4>2. \A j \in DOMAIN chain' : chain'[j] \in Commit BY <4>1
            <4> QED BY <4>2, DayAssumption DEF Commit, Days
        <3>9. chain' # <<>> BY DatesGrow
        <3> HIDE DEF n, k
        <3>10. CASE i # k
            <4>1. i \in 1 .. n /\ chain'[i] = chain[i] BY <3>3, <3>5, <3>10
            <4>2. i # 1
                <5>1. Empty[<<m, "meta">>] = None BY FilesOfMessages DEF Empty
                <5> QED BY <3>7, <3>9, <5>1
            <4>3. i \in 2 .. k /\ k \in 2 .. k /\ i <= k BY <3>3, <3>10, <4>2
            <4>4. chain'[i].date <= chain'[k].date BY <3>7, <4>3
            <4>5. received[m] < chain'[k].date BY <3>3, <3>6, <3>8, <4>4
            <4>6. TreeAt(chain', received[m]) = TreeAt(chain, received[m])
                BY <3>4, <3>6, <4>5
            <4> QED BY <3>2, <3>3, <4>1, <4>6
        <3>11. CASE i = k
            <4>1. TreeAt(chain', received[m]) = TreeAt(chain, received[m])
                BY <3>4, <3>6, <3>11
            <4>2. HeadTree[<<m, "meta">>] # None
                <5>1. received[m] # point.date BY <3>3, <3>6, <3>11
                <5>2. BuildTree[<<m, "meta">>] # None BY <3>3, <3>11
                <5>3. "reindexed" \notin odd BY <3>1
                <5> QED BY <1>1, <5>1, <5>2, <5>3 DEF Contents, DayOnly
            <4>3. CASE received[m] < chain[n].date
                <5>1. n \in DOMAIN chain BY <3>3
                <5>2. chain[n].tree[<<m, "meta">>] # None BY <3>3, <4>2
                <5> QED BY <3>2, <4>1, <4>3, <5>1, <5>2
            <4>4. CASE ~(received[m] < chain[n].date)
                <5>1. chain[n].date <= received[m] BY <3>3, <3>6, <4>4
                <5>2. TreeAt(chain, received[m]) = HeadTree BY <3>3, <5>1, LastAt
                <5>3. HeadTree[<<m, "eml">>] # None
                    BY <3>1, <4>2 DEF Contents, InPairs, Paired
                <5> QED BY <4>1, <4>2, <5>2, <5>3
            <4> QED BY <4>3, <4>4
        <3> QED BY <3>10, <3>11
    <2> QED BY <2>2, <2>3 DEF History
<1> QED BY <1>2, <1>3

\* Every step keeps the history.
LEMMA HistoryStep ==
    ASSUME Types, Dates, Indexes, Contents, History, [Next]_vars PROVE History'
<1>1. CASE UNCHANGED vars
    <2>1. UNCHANGED <<chain, today, atEnd, received, odd>>
        BY <1>1 DEF vars, accountVars, repoVars, historyVars
    <2> QED BY <2>1, SameHistory
<1>2. CASE \/ \E m \in Msg, x \in Meta, d \in Days : Arrive(m, x, d)
           \/ \E m \in Msg, x \in Meta : Modify(m, x)
           \/ \E m \in Msg : Destroy(m)
    <2>1. UNCHANGED <<chain, today, atEnd, odd>>
        BY <1>2 DEF Arrive, Modify, Destroy, AccountStep, repoVars, historyVars
    <2>2. received \in [Msg -> 0 .. LastDay] BY DEF Types, TypeOK
    <2>3. \A n \in Msg : received[n] # 0 => received'[n] = received[n]
        BY <1>2, <2>2 DEF Arrive, Modify, Destroy
    <2> QED BY <2>1, <2>3, SameHistory
<1>3. CASE Tick BY <1>3, TickHistory
<1>4. ASSUME NEW r \in BOOLEAN, Begin(r) PROVE History' BY <1>4, BeginHistory
<1>5. CASE BackfillDay \/ BackfillEnds \/ Plan \/ ApplyOlderDay \/ ApplyRest
    <2>1. UNCHANGED <<chain, today, atEnd, received>> /\ odd \subseteq odd'
        BY <1>5 DEF BackfillDay, BackfillEnds, Plan, ApplyOlderDay, ApplyRest, Apply,
            accountVars, repoVars, historyVars
    <2> QED BY <2>1, SameHistory
<1>6. CASE Checkpoint BY <1>6, CheckpointHistory
<1>7. CASE Save \/ Stop \/ Fail
    <2>1. UNCHANGED <<chain, today, atEnd, received, odd>>
        BY <1>7 DEF Save, Stop, Fail, Over, repoVars, historyVars
    <2> QED BY <2>1, SameHistory
<1>8. CASE Reindex
    <2>1. UNCHANGED <<chain, today, atEnd, received>> /\ odd \subseteq odd'
        BY <1>8 DEF Reindex, accountVars, repoVars
    <2> QED BY <2>1, SameHistory
<1> QED BY <1>1, <1>2, <1>3, <1>4, <1>5, <1>6, <1>7, <1>8 DEF Next

\* The whole of the inductive invariant.
LEMMA LedgerInvariant == Spec => [](Types /\ History)
<1> DEFINE I == Types /\ Dates /\ Indexes /\ Contents /\ History
<1>1. Init => I
    BY InitTypes, InitDates, InitIndexes, InitContents, InitHistory
<1>2. I /\ [Next]_vars => I'
    BY TypesStep, DatesStep, IndexesStep, ContentsStep, HistoryStep
<1>3. I => Types /\ History OBVIOUS
<1> HIDE DEF I
<1> QED BY <1>1, <1>2, <1>3, PTL DEF Spec

\* For any messages, days, bounds, kills and errors, `restore --at d` reads, of a
\* day d that is over, what HEAD held when it ended, and besides that only mail
\* that was received by then and backed up later, unless a commit was late or took
\* over edits that a failed apply had left, or a pass was under way at midnight
\* (reader.rs resolve_commit, git.rs checkpoint).
THEOREM RestoreReadsThatDay == Spec => []AtIsThatDay
<1>1. Types /\ History => AtIsThatDay BY HistoryMeans
<1> QED BY <1>1, LedgerInvariant, PTL

\* For any messages, days, bounds, kills and errors, mail that any snapshot holds
\* is whole in the snapshot of the day it was received, unless a day was late, a
\* pass under way at midnight, uncommitted work in the index, or edits that a
\* failed apply had left in a commit (backfill.rs finalize_day, sync.rs
\* group_by_day, git.rs checkpoint).
THEOREM MailIsFoundOnItsDay == Spec => []FoundOnItsDay
<1>1. Types /\ History => FoundOnItsDay BY HistoryMeans
<1> QED BY <1>1, LedgerInvariant, PTL

=============================================================================
