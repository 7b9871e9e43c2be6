--------------------------- MODULE JmapSourceProofs ---------------------------
(***************************************************************************)
(* What the saved states vouch for is in the store as it is in the         *)
(* account, although a pass never sees the account at one moment: for      *)
(* every account, page and chunk size, and however often it changes.       *)
(***************************************************************************)
EXTENDS JmapSource, WellFoundedInduction, TLAPS

-----------------------------------------------------------------------------
(* The invariant.                                                           *)

\* No change is later than now; a message is in mailboxes that are there.
AccountInv ==
    /\ \A m \in Msg : mailAt[m] <= now
    /\ \A b \in Box : boxAt[b] <= now
    /\ \A m \in Msg : mails[m] # None => mails[m] \subseteq Held(boxes)

\* Where a pass is says what it has read so far.
ControlInv ==
    /\ pc \in {"email state", "query"} => mode # "sync"
    /\ pc \in {"email changes", "mailbox changes"} => mode = "sync"
    /\ pc \in {"mailbox state", "list"} /\ mode = "sync" => relist
    /\ pc \notin {"query", "get", "apply"} =>
          metas = NoMetas /\ seen = {} /\ listed = None
    /\ pc \in {"query", "get", "apply"} /\ listed = None => mode = "sync" /\ ~relist
    /\ pc \in {"idle", "apply"} \/ (mode # "sync" /\ pc # "get") => ids = {}
    /\ pc = "idle" => destroyed = {}

\* The states a pass works with are states the account has had; the Email
\* state of a catch-up only moves on.
StatesInv ==
    /\ target.email <= now /\ target.mailbox <= now
    /\ \E m \in Msg : target.email <= mailAt[m]
    /\ cursor # None => /\ cursor.email <= now /\ cursor.mailbox <= now
                        /\ \E m \in Msg : cursor.email <= mailAt[m]
    /\ cursor = None => held = NoMetas
    /\ pc # "idle" /\ mode = "sync" => cursor # None /\ cursor.email <= target.email
    /\ pc # "idle" /\ mode = "backfill" => cursor = None

\* What the cursor covers, at any time, and that the store knows its mailboxes.
CoveredInv ==
    cursor # None =>
        /\ \A m \in CoveredMessages \ omitted :
              /\ held[m] = mails[m]
              /\ held[m] # None /\ m \notin left => filed[m] = PrimaryDir(boxes, mails[m])
        /\ \A m \in CoveredMessages : mails[m] # None => mails[m] \subseteq Held(dirs)
        /\ \A b \in CoveredMailboxes : boxes[b] # None => dirs[b] = boxes[b]

\* A catch-up has been told of every change between the cursor and its target but
\* for those left out, of nothing that the cursor covers, and has seen it as it is.
CatchUpInv ==
    pc # "idle" /\ mode = "sync" =>
        /\ \A m \in ids \cup destroyed \cup Held(metas) : cursor.email < mailAt[m]
        /\ \A m \in destroyed : mails[m] = None /\ mailAt[m] # 0
        /\ \A m \in Msg : cursor.email < mailAt[m] /\ mailAt[m] <= target.email =>
              IF mails[m] = None THEN m \in destroyed \/ m \in omitted \/ held[m] = None
              ELSE m \in ids \/ metas[m] = mails[m]
        /\ \A m \in ids \cup Held(metas) : mails[m] = None => target.email < mailAt[m]
        /\ ~relist => \A b \in Box : boxAt[b] <= target.mailbox => boxAt[b] <= cursor.mailbox

\* An enumeration has seen what it has got as it is, unless it changed after
\* the Email state was read, and in the end everything else.
EnumerationInv ==
    pc \in {"query", "get", "apply"} /\ mode # "sync" =>
        /\ ids \subseteq seen /\ Held(metas) \subseteq seen
        /\ \A m \in seen : mailAt[m] <= target.email =>
              mails[m] # None /\ (m \in ids \/ metas[m] = mails[m])
        /\ pc = "apply" => \A m \in Msg : mailAt[m] <= target.email /\ mails[m] # None
                                             => m \in seen

\* The mailboxes a pass files by are those of what its target will cover.
ListInv ==
    pc \in {"query", "get", "apply"} =>
        /\ \A m \in Msg : mailAt[m] <= target.email /\ mails[m] # None =>
              mails[m] \subseteq Held(IF listed = None THEN dirs ELSE listed)
        /\ listed # None => \A b \in Box : boxAt[b] <= target.mailbox => listed[b] = boxes[b]

PassInv ==
    /\ TypeOK /\ AccountInv /\ ControlInv /\ StatesInv
    /\ CoveredInv /\ CatchUpInv /\ EnumerationInv /\ ListInv

-----------------------------------------------------------------------------
(* Numbers and directories.                                                 *)

\* A set of naturals has a least element.
LEMMA LeastExists ==
    ASSUME NEW T, T \subseteq Nat, T # {}
    PROVE  \E x \in T : \A y \in T : x <= y
  <1>1. PICK x \in T : \A y \in T : ~(<<y, x>> \in OpToRel(<, Nat))
    BY NatLessThanWellFounded, WFMin
  <1>2. ASSUME NEW y \in T PROVE x <= y
    <2>1. x \in Nat /\ y \in Nat
      OBVIOUS
    <2>2. y < x => <<y, x>> \in OpToRel(<, Nat)
      BY <2>1 DEF OpToRel
    <2>3. ~(y < x)
      BY <1>1, <2>2, Zenon
    <2> QED
      BY <2>1, <2>3
  <1> QED
    BY <1>2

\* A set of bounded naturals has a greatest.
LEMMA GreatestExists ==
    ASSUME NEW n \in Nat, NEW T, T \subseteq 0 .. n, T # {}
    PROVE  Max(T) \in T /\ \A y \in T : Max(T) >= y
  <1> DEFINE U == {n - x : x \in T}
  <1>1. U \subseteq Nat /\ U # {}
    <2>1. \A x \in T : n - x \in Nat
      OBVIOUS
    <2> QED
      BY <2>1
  <1>2. PICK u \in U : \A v \in U : u <= v
    BY <1>1, LeastExists
  <1>3. PICK x \in T : u = n - x
    BY <1>2
  <1>4. \A y \in T : n - x <= n - y
    BY <1>2, <1>3
  <1>5. \A y \in T : x >= y
    BY <1>4
  <1> QED
    BY <1>3, <1>5 DEF Max

\* The directory for a message is that of the first of its known mailboxes.
DirAmong(s) ==
    IF s = {} THEN Unfiled ELSE CHOOSE b \in s : \A c \in s : Rank[b] <= Rank[c]

\* Nothing else about the known mailboxes matters.
LEMMA PrimaryDirAmong ==
    ASSUME NEW f, NEW x
    PROVE  PrimaryDir(f, x) = DirAmong(x \cap Held(f))
  BY DEF PrimaryDir, DirAmong

\* There is one, whatever is known.
LEMMA PrimaryDirType ==
    ASSUME NEW f, NEW x \in SUBSET Box
    PROVE  PrimaryDir(f, x) \in Box \cup {Unfiled}
  <1> DEFINE s == x \cap Held(f)
  <1>1. CASE s = {}
    BY <1>1, PrimaryDirAmong DEF DirAmong
  <1>2. CASE s # {}
    <2>1. \A b \in s : Rank[b] \in Nat /\ b \in Box
      BY RankAssumption
    <2> DEFINE T == {Rank[b] : b \in s}
    <2>2. T \subseteq Nat /\ T # {}
      BY <1>2, <2>1
    <2> HIDE DEF T
    <2>3. PICK r \in T : \A y \in T : r <= y
      BY <2>2, LeastExists
    <2>4. \E b \in s : \A c \in s : Rank[b] <= Rank[c]
      BY <2>3 DEF T
    <2> HIDE DEF s
    <2>5. DirAmong(s) \in s
      BY <1>2, <2>4 DEF DirAmong
    <2> QED
      BY <2>5, PrimaryDirAmong DEF s
  <1> QED
    BY <1>1, <1>2

\* Two views that both know the mailboxes of a message file it alike.
LEMMA SamePrimaryDir ==
    ASSUME NEW f, NEW g, NEW x, x \subseteq Held(f), x \subseteq Held(g)
    PROVE  PrimaryDir(f, x) = PrimaryDir(g, x)
  <1>1. x \cap Held(f) = x \cap Held(g)
    OBVIOUS
  <1> QED
    BY <1>1, PrimaryDirAmong

\* The states that the account names: the last changes so far.
LEMMA StatesOfTheAccount ==
    ASSUME TypeOK, AccountInv
    PROVE  /\ EmailState \in Time /\ EmailState <= now
           /\ \A m \in Msg : mailAt[m] <= EmailState
           /\ \E m \in Msg : mailAt[m] = EmailState
           /\ MailboxState \in Time /\ MailboxState <= now
           /\ \A b \in Box : boxAt[b] <= MailboxState
  <1>1. MaxTime \in Nat /\ now \in Time
    BY SizeAssumption DEF TypeOK
  <1> DEFINE M == {mailAt[m] : m \in Msg}
             B == {boxAt[b] : b \in Box}
  <1>2. M \subseteq 0 .. MaxTime /\ M # {} /\ B \subseteq 0 .. MaxTime /\ B # {}
    BY AccountAssumption DEF TypeOK, Time
  <1>3. EmailState = Max(M) /\ MailboxState = Max(B)
    BY DEF EmailState, MailboxState
  <1> HIDE DEF M, B
  <1>4. /\ EmailState \in M /\ \A y \in M : EmailState >= y
        /\ MailboxState \in B /\ \A y \in B : MailboxState >= y
    BY <1>1, <1>2, <1>3, GreatestExists
  <1> USE DEF M, B
  <1>5. PICK m \in Msg : EmailState = mailAt[m]
    BY <1>4
  <1>6. PICK b \in Box : MailboxState = boxAt[b]
    BY <1>4
  <1>7. \A n \in Msg : mailAt[n] <= EmailState
    BY <1>4, <1>2 DEF Time, TypeOK
  <1>8. \A c \in Box : boxAt[c] <= MailboxState
    BY <1>4, <1>2 DEF Time, TypeOK
  <1> QED
    BY <1>5, <1>6, <1>7, <1>8 DEF TypeOK, AccountInv

-----------------------------------------------------------------------------
(* PassInv holds to begin with.                                             *)

\* Times are numbers.
LEMMA TimesAreNumbers ==
    ASSUME TypeOK
    PROVE  /\ now \in Nat /\ MaxTime \in Nat /\ target.email \in Nat /\ target.mailbox \in Nat
           /\ \A m \in Msg : mailAt[m] \in Nat
           /\ \A b \in Box : boxAt[b] \in Nat
           /\ cursor # None => cursor.email \in Nat /\ cursor.mailbox \in Nat
  <1>1. MaxTime \in Nat /\ \A t \in Time : t \in Nat
    BY SizeAssumption DEF Time
  <1>2. cursor # None => cursor \in State
    BY DEF TypeOK
  <1> QED
    BY <1>1, <1>2 DEF TypeOK, State

\* A new store has nothing, whatever the account has.
LEMMA InitPassInv == Init => PassInv
  <1> SUFFICES ASSUME Init PROVE PassInv
    OBVIOUS
  <1>1. 0 \in Time
    BY SizeAssumption DEF Time
  <1>2. TypeOK
    BY <1>1 DEF Init, TypeOK, State, NoTarget, NoMetas, Metas, Mailboxes
  <1>3. AccountInv /\ ControlInv
    BY DEF Init, AccountInv, ControlInv, Held, Metas
  <1>4. StatesInv
    BY AccountAssumption DEF Init, StatesInv, NoTarget
  <1> QED
    BY <1>2, <1>3, <1>4 DEF Init, PassInv, CoveredInv, CatchUpInv, EnumerationInv, ListInv

-----------------------------------------------------------------------------
(* The account moves on.                                                    *)

\* What changes, changes now; what was destroyed does not come back.
AccountMoves ==
    /\ now' = now + 1
    /\ UNCHANGED <<storeVars, passVars>>
    /\ \A m \in Msg : \/ mails'[m] = mails[m] /\ mailAt'[m] = mailAt[m]
                      \/ mailAt'[m] = now' /\ (mails[m] # None \/ mailAt[m] = 0)
    /\ \A b \in Box : \/ boxes'[b] = boxes[b] /\ boxAt'[b] = boxAt[b]
                      \/ boxAt'[b] = now'

\* A change of the account leaves its types right and its messages in mailboxes
\* that are there.
LEMMA AccountChanges ==
    ASSUME TypeOK, AccountInv,
           \/ \E b \in Box, n \in Name : PutMailbox(b, n)
           \/ \E b \in Box : DestroyMailbox(b)
           \/ \E m \in Msg, x \in Meta : PutMessage(m, x)
           \/ \E m \in Msg : DestroyMessage(m)
    PROVE  AccountMoves /\ TypeOK' /\ AccountInv'
  <1> USE DEF AccountStep
  <1>0. /\ now \in Nat /\ MaxTime \in Nat /\ boxes \in Mailboxes /\ mails \in Metas
        /\ boxAt \in [Box -> Time] /\ mailAt \in [Msg -> Time] /\ bornAt \in [Msg -> Time]
        /\ \A m \in Msg : mailAt[m] \in Nat
        /\ \A b \in Box : boxAt[b] \in Nat
    BY TimesAreNumbers DEF TypeOK
  <1>1. now < MaxTime /\ now' = now + 1 /\ UNCHANGED <<storeVars, passVars>>
    BY DEF PutMailbox, DestroyMailbox, PutMessage, DestroyMessage
  <1>2. now + 1 \in Time /\ now' \in Time
    BY <1>0, <1>1 DEF Time
  <1>3. SUFFICES ASSUME boxes' \in Mailboxes, mails' \in Metas,
                        boxAt' \in [Box -> Time], mailAt' \in [Msg -> Time],
                        bornAt' \in [Msg -> Time]
                 PROVE  AccountMoves /\ AccountInv'
    <2>1. boxes' \in Mailboxes /\ boxAt' \in [Box -> Time]
      BY <1>0, <1>2 DEF PutMailbox, DestroyMailbox, PutMessage, DestroyMessage, Mailboxes
    <2>2. mailAt' \in [Msg -> Time] /\ bornAt' \in [Msg -> Time]
      BY <1>0, <1>2 DEF PutMailbox, DestroyMailbox, PutMessage, DestroyMessage
    <2>3. mails' \in Metas
      <3>1. ASSUME NEW b \in Box, DestroyMailbox(b) PROVE mails' \in Metas
        <4> DEFINE inside == {m \in Held(mails) : b \in mails[m]}
        <4>1. mails' = [m \in Msg |-> IF m \notin inside THEN mails[m]
                                     ELSE IF mails[m] = {b} THEN None ELSE mails[m] \ {b}]
          BY <3>1 DEF DestroyMailbox
        <4>2. ASSUME NEW m \in Msg PROVE mails'[m] \in {None} \cup Meta
          <5>1. mails[m] \in {None} \cup Meta
            BY <1>0 DEF Metas
          <5>2. m \in inside => mails[m] \in Meta /\ b \in mails[m]
            BY <5>1 DEF Held
          <5> HIDE DEF inside
          <5>3. m \in inside /\ mails[m] # {b} => mails[m] \ {b} \in Meta
            BY <5>2 DEF Meta
          <5> QED
            BY <4>1, <5>1, <5>3
        <4> HIDE DEF inside
        <4> QED
          BY <4>1, <4>2 DEF Metas
      <3>2. ASSUME NEW m \in Msg, NEW x \in Meta, PutMessage(m, x) PROVE mails' \in Metas
        BY <1>0, <3>2 DEF PutMessage, Metas
      <3>3. ASSUME NEW m \in Msg, DestroyMessage(m) PROVE mails' \in Metas
        BY <1>0, <3>3 DEF DestroyMessage, Metas
      <3>4. ASSUME NEW b \in Box, NEW n \in Name, PutMailbox(b, n) PROVE mails' \in Metas
        BY <1>0, <3>4 DEF PutMailbox
      <3> QED
        BY <3>1, <3>2, <3>3, <3>4
    <2>4. TypeOK'
      BY <1>1, <1>2, <2>1, <2>2, <2>3 DEF TypeOK, storeVars, passVars, listVars
    <2> QED
      BY <2>1, <2>2, <2>3, <2>4
  <1>4. ASSUME NEW b \in Box, NEW n \in Name, PutMailbox(b, n)
        PROVE  AccountMoves /\ AccountInv'
    <2>1. AccountMoves
      BY <1>0, <1>1, <1>4 DEF PutMailbox, AccountMoves, Mailboxes
    <2>2. Held(boxes) \subseteq Held(boxes')
      BY <1>0, <1>4, NoneAssumption DEF PutMailbox, Mailboxes, Held
    <2>3. \A m \in Msg : mailAt'[m] <= now'
      BY <1>0, <1>1, <1>4 DEF PutMailbox, AccountInv
    <2>4. \A c \in Box : boxAt'[c] <= now'
      BY <1>0, <1>1, <2>1 DEF AccountMoves, AccountInv
    <2> QED
      BY <1>4, <2>1, <2>2, <2>3, <2>4 DEF PutMailbox, AccountInv
  <1>5. ASSUME NEW b \in Box, DestroyMailbox(b)
        PROVE  AccountMoves /\ AccountInv'
    <2> DEFINE inside == {m \in Held(mails) : b \in mails[m]}
    <2>1. /\ boxes' = [boxes EXCEPT ![b] = None] /\ boxAt' = [boxAt EXCEPT ![b] = now + 1]
          /\ mails' = [m \in Msg |-> IF m \notin inside THEN mails[m]
                                     ELSE IF mails[m] = {b} THEN None ELSE mails[m] \ {b}]
          /\ mailAt' = [m \in Msg |-> IF m \in inside THEN now + 1 ELSE mailAt[m]]
      BY <1>5 DEF DestroyMailbox
    <2>2. \A m \in Msg : m \in inside => mails[m] # None
      BY <1>0 DEF Held, Metas
    <2>3. AccountMoves
      BY <1>0, <1>1, <2>1, <2>2 DEF AccountMoves, Mailboxes
    <2>4. ASSUME NEW m \in Msg, mails'[m] # None PROVE mails'[m] \subseteq Held(boxes')
      <3>1. mails[m] # None /\ mails'[m] \subseteq mails[m] /\ b \notin mails'[m]
        BY <1>0, <2>1, <2>2, <2>4 DEF Held, Metas
      <3>2. mails[m] \subseteq Held(boxes)
        BY <3>1 DEF AccountInv
      <3> QED
        BY <1>0, <2>1, <3>1, <3>2 DEF Held, Mailboxes
    <2>5. /\ \A m \in Msg : mailAt'[m] <= now'
          /\ \A c \in Box : boxAt'[c] <= now'
      BY <1>0, <1>1, <2>3 DEF AccountMoves, AccountInv
    <2> QED
      BY <2>3, <2>4, <2>5 DEF AccountInv
  <1>6. ASSUME NEW m \in Msg, mails'[m] # None => mails'[m] \subseteq Held(boxes),
               mails[m] # None \/ mailAt[m] = 0, UNCHANGED <<boxes, boxAt>>,
               mailAt' = [mailAt EXCEPT ![m] = now + 1],
               \A n \in Msg \ {m} : mails'[n] = mails[n]
        PROVE  AccountMoves /\ AccountInv'
    <2>1. AccountMoves
      BY <1>0, <1>1, <1>6 DEF AccountMoves
    <2>2. /\ \A n \in Msg : mailAt'[n] <= now'
          /\ \A c \in Box : boxAt'[c] <= now'
      BY <1>0, <1>1, <2>1 DEF AccountMoves, AccountInv
    <2>3. \A n \in Msg : mails'[n] # None => mails'[n] \subseteq Held(boxes')
      BY <1>6 DEF AccountInv
    <2> QED
      BY <2>1, <2>2, <2>3 DEF AccountInv
  <1>7. ASSUME NEW m \in Msg, NEW x \in Meta, PutMessage(m, x)
        PROVE  AccountMoves /\ AccountInv'
    BY <1>0, <1>6, <1>7 DEF PutMessage, Metas
  <1>8. ASSUME NEW m \in Msg, DestroyMessage(m)
        PROVE  AccountMoves /\ AccountInv'
    BY <1>0, <1>6, <1>8 DEF DestroyMessage, Metas
  <1> QED
    BY <1>4, <1>5, <1>7, <1>8

\* What the account has changed since is covered by no state that was read.
LEMMA AccountPassInv ==
    ASSUME PassInv, AccountMoves, TypeOK', AccountInv'
    PROVE  PassInv'
  <1> USE DEF storeVars, passVars, listVars
  <1>1. /\ now \in Nat /\ now' = now + 1 /\ target.email \in Nat /\ target.mailbox \in Nat
        /\ UNCHANGED <<cursor, dirs, held, filed, left, omitted, pc, mode, target, relist, listed,
                       ids, seen, destroyed, metas>>
        /\ \A m \in Msg : mailAt[m] \in Nat /\ mailAt[m] <= now
        /\ \A b \in Box : boxAt[b] \in Nat /\ boxAt[b] <= now
        /\ cursor # None => cursor.email \in Nat /\ cursor.mailbox \in Nat
    BY TimesAreNumbers DEF AccountMoves, PassInv, AccountInv
  <1>2. /\ \A m \in Msg : (mails'[m] = mails[m] /\ mailAt'[m] = mailAt[m]) \/ mailAt'[m] = now + 1
        /\ \A b \in Box : (boxes'[b] = boxes[b] /\ boxAt'[b] = boxAt[b]) \/ boxAt'[b] = now + 1
    BY <1>1 DEF AccountMoves
  <1>3. ASSUME NEW t \in Nat, t <= now
        PROVE  /\ \A m \in Msg : mailAt'[m] <= t =>
                     mails'[m] = mails[m] /\ mailAt'[m] = mailAt[m] /\ mailAt[m] <= t
               /\ \A b \in Box : boxAt'[b] <= t =>
                     boxes'[b] = boxes[b] /\ boxAt'[b] = boxAt[b] /\ boxAt[b] <= t
               /\ \A m \in Msg : t <= mailAt[m] => t <= mailAt'[m]
               /\ \A m \in Msg : t < mailAt[m] => t < mailAt'[m]
    BY <1>1, <1>2, <1>3
  <1>4. /\ target.email <= now /\ target.mailbox <= now
        /\ cursor # None => cursor.email <= now /\ cursor.mailbox <= now
    BY DEF PassInv, StatesInv
  <1>5. ControlInv'
    BY <1>1 DEF PassInv, ControlInv
  <1>6. StatesInv'
    <2>1. /\ \E m \in Msg : target.email <= mailAt'[m]
          /\ cursor # None => \E m \in Msg : cursor.email <= mailAt'[m]
      BY <1>1, <1>3, <1>4 DEF PassInv, StatesInv
    <2>2. /\ target.email <= now + 1 /\ target.mailbox <= now + 1
          /\ cursor # None => cursor.email <= now + 1 /\ cursor.mailbox <= now + 1
      BY <1>1, <1>4
    <2> QED
      BY <1>1, <2>1, <2>2 DEF PassInv, StatesInv
  <1>7. CoveredInv'
    <2> SUFFICES ASSUME cursor # None PROVE CoveredInv'
      BY <1>1 DEF CoveredInv
    <2>1. ASSUME NEW m \in Msg, mailAt'[m] <= cursor.email
          PROVE  /\ m \notin omitted =>
                      /\ held[m] = mails'[m]
                      /\ held[m] # None /\ m \notin left
                           => filed[m] = PrimaryDir(boxes', mails'[m])
                 /\ mails'[m] # None => mails'[m] \subseteq Held(dirs)
      <3>1. mails'[m] = mails[m] /\ mailAt[m] <= cursor.email
        BY <1>1, <1>3, <1>4, <2>1
      <3>2. mails[m] # None => mails[m] \subseteq Held(boxes) /\ mails[m] \subseteq Held(boxes')
        BY <3>1 DEF PassInv, AccountInv
      <3>3. mails[m] # None => PrimaryDir(boxes', mails[m]) = PrimaryDir(boxes, mails[m])
        BY <3>2, SamePrimaryDir
      <3> QED
        BY <3>1, <3>3 DEF PassInv, CoveredInv, CoveredMessages
    <2>2. ASSUME NEW b \in Box, boxAt'[b] <= cursor.mailbox, boxes'[b] # None
          PROVE  dirs[b] = boxes'[b]
      BY <1>1, <1>3, <1>4, <2>2 DEF PassInv, CoveredInv, CoveredMailboxes
    <2> QED
      BY <1>1, <2>1, <2>2 DEF CoveredInv, CoveredMessages, CoveredMailboxes
  <1>8. CatchUpInv'
    <2> SUFFICES ASSUME pc # "idle", mode = "sync" PROVE CatchUpInv'
      BY <1>1 DEF CatchUpInv
    <2>0. /\ cursor # None /\ cursor.email \in Nat /\ cursor.email <= now
          /\ CatchUpInv /\ ids \subseteq Msg /\ destroyed \subseteq Msg /\ metas \in Metas
      BY <1>1, <1>4 DEF PassInv, StatesInv, TypeOK
    <2>1. \A m \in ids \cup destroyed \cup Held(metas) : cursor.email < mailAt'[m]
      BY <1>3, <2>0 DEF CatchUpInv, Held, Metas
    <2>2. \A m \in destroyed : mails'[m] = None /\ mailAt'[m] # 0
      BY <2>0 DEF CatchUpInv, AccountMoves
    <2>3. ASSUME NEW m \in Msg, cursor.email < mailAt'[m], mailAt'[m] <= target.email
          PROVE  IF mails'[m] = None THEN m \in destroyed \/ m \in omitted \/ held[m] = None
                 ELSE m \in ids \/ metas[m] = mails'[m]
      <3>1. mails'[m] = mails[m] /\ cursor.email < mailAt[m] /\ mailAt[m] <= target.email
        BY <1>1, <1>3, <1>4, <2>3
      <3> QED
        BY <2>0, <3>1 DEF CatchUpInv
    <2>4. ASSUME ~relist, NEW b \in Box, boxAt'[b] <= target.mailbox
          PROVE  boxAt'[b] <= cursor.mailbox
      BY <1>1, <1>3, <1>4, <2>0, <2>4 DEF CatchUpInv
    <2>5. ASSUME NEW m \in ids \cup Held(metas), mails'[m] = None
          PROVE  target.email < mailAt'[m]
      <3>1. m \in Msg
        BY <2>0, <2>5 DEF Held, Metas
      <3>2. CASE mailAt'[m] = now + 1
        BY <1>1, <1>4, <3>2
      <3>3. CASE mails'[m] = mails[m] /\ mailAt'[m] = mailAt[m]
        BY <2>0, <2>5, <3>3 DEF CatchUpInv
      <3> QED
        BY <1>2, <3>1, <3>2, <3>3
    <2> QED
      BY <1>1, <2>1, <2>2, <2>3, <2>4, <2>5 DEF CatchUpInv
  <1>9. EnumerationInv'
    <2> SUFFICES ASSUME pc \in {"query", "get", "apply"}, mode # "sync" PROVE EnumerationInv'
      BY <1>1 DEF EnumerationInv
    <2>0. EnumerationInv /\ seen \subseteq Msg
      BY DEF PassInv, TypeOK
    <2>1. ASSUME NEW m \in Msg, mailAt'[m] <= target.email
          PROVE  mails'[m] = mails[m] /\ mailAt[m] <= target.email
      BY <1>1, <1>3, <1>4, <2>1
    <2> QED
      BY <1>1, <2>0, <2>1 DEF EnumerationInv
  <1>10. ListInv'
    <2>1. ASSUME NEW m \in Msg, mailAt'[m] <= target.email
          PROVE  mails'[m] = mails[m] /\ mailAt[m] <= target.email
      BY <1>1, <1>3, <1>4, <2>1
    <2>2. ASSUME NEW b \in Box, boxAt'[b] <= target.mailbox
          PROVE  boxes'[b] = boxes[b] /\ boxAt[b] <= target.mailbox
      BY <1>1, <1>3, <1>4, <2>2
    <2> QED
      BY <1>1, <2>1, <2>2 DEF PassInv, ListInv
  <1> QED
    BY <1>5, <1>6, <1>7, <1>8, <1>9, <1>10 DEF PassInv

-----------------------------------------------------------------------------
(* A pass reads the account.                                                *)

\* Before there is a list, nothing depends on one.
LEMMA NothingListedYet ==
    ASSUME pc' \notin {"query", "get", "apply"}
    PROVE  EnumerationInv' /\ ListInv'
  BY DEF EnumerationInv, ListInv

\* The store vouches for what it did while it and the account stay as they are.
LEMMA CoveredStays ==
    ASSUME CoveredInv, UNCHANGED <<accountVars, cursor, dirs, held, filed, left>>,
           omitted \subseteq omitted'
    PROVE  CoveredInv'
  BY DEF CoveredInv, CoveredMessages, CoveredMailboxes, accountVars

\* run_backup and run_refresh: what a pass starts from.
LEMMA BeginPassInv ==
    ASSUME PassInv, NEW refresh \in BOOLEAN, Begin(refresh)
    PROVE  PassInv'
  <1> USE DEF accountVars, storeVars, listVars
  <1>1. /\ pc = "idle" /\ UNCHANGED <<accountVars, storeVars, more, relist, listed, listVars>>
        /\ mode' = IF cursor = None THEN "backfill" ELSE IF refresh THEN "reconcile" ELSE "sync"
        /\ pc' = IF mode' = "sync" THEN "email changes" ELSE "email state"
        /\ target' = IF mode' = "sync" THEN cursor ELSE NoTarget
    BY DEF Begin
  <1>2. /\ TypeOK /\ AccountInv /\ ControlInv /\ StatesInv
        /\ ids = {} /\ destroyed = {} /\ metas = NoMetas /\ seen = {} /\ listed = None
        /\ now \in Nat
    BY <1>1, TimesAreNumbers DEF PassInv, ControlInv
  <1>3. target' \in State /\ NoTarget \in State
    <2>1. NoTarget \in State
      BY SizeAssumption DEF NoTarget, State, Time
    <2> QED
      BY <1>1, <1>2, <2>1 DEF TypeOK
  <1>4. TypeOK' /\ AccountInv' /\ ControlInv'
    <2>1. TypeOK'
      BY <1>1, <1>2, <1>3 DEF TypeOK
    <2>2. AccountInv'
      BY <1>1, <1>2 DEF AccountInv, Held
    <2>3. ControlInv'
      BY <1>1, <1>2 DEF ControlInv, NoMetas
    <2> QED
      BY <2>1, <2>2, <2>3
  <1>5. StatesInv'
    <2>0. /\ UNCHANGED <<now, mailAt, cursor, held>>
          /\ cursor # None => /\ cursor.email <= now /\ cursor.mailbox <= now
                              /\ \E m \in Msg : cursor.email <= mailAt[m]
          /\ cursor = None => held = NoMetas
          /\ mode' = "sync" => cursor # None /\ target' = cursor
          /\ mode' = "backfill" => cursor = None
      BY <1>1, <1>2 DEF StatesInv
    <2>1. CASE mode' = "sync"
      <3>1. cursor # None /\ target' = cursor /\ cursor.email \in Nat
        BY <1>1, <1>2, <2>1, TimesAreNumbers
      <3> QED
        BY <2>0, <2>1, <3>1 DEF StatesInv
    <2>2. CASE mode' # "sync"
      <3>1. /\ target'.email = 0 /\ target'.mailbox = 0
            /\ \E m \in Msg : 0 <= mailAt[m]
        <4>1. \A m \in Msg : mailAt[m] \in Nat
          BY <1>2, TimesAreNumbers
        <4>2. target' = NoTarget
          BY <1>1, <2>2
        <4> QED
          BY <4>1, <4>2, AccountAssumption DEF NoTarget
      <3> QED
        BY <1>2, <2>0, <2>2, <3>1 DEF StatesInv
    <2> QED
      BY <2>1, <2>2
  <1>6. CatchUpInv'
    <2> SUFFICES ASSUME mode' = "sync" PROVE CatchUpInv'
      BY DEF CatchUpInv
    <2>1. /\ target' = cursor /\ cursor.email \in Nat /\ \A m \in Msg : mailAt[m] \in Nat
          /\ UNCHANGED <<cursor, boxAt, mailAt, mails, ids, destroyed, metas>>
      BY <1>1, <1>2, TimesAreNumbers
    <2>2. Held(metas') = {}
      BY <1>2, <2>1 DEF Held, NoMetas
    <2>3. \A m \in Msg : ~(cursor.email < mailAt[m] /\ mailAt[m] <= cursor.email)
      BY <2>1
    <2> QED
      BY <1>2, <2>1, <2>2, <2>3 DEF CatchUpInv
  <1> QED
    BY <1>1, <1>4, <1>5, <1>6, CoveredStays, NothingListedYet DEF PassInv

\* connect reads the two states one after the other; only what was read before
\* the list matters (jmap/mod.rs states, connect).
LEMMA StatePassInv ==
    ASSUME PassInv, ReadEmailState \/ ReadMailboxState
    PROVE  PassInv'
  <1> USE DEF accountVars, storeVars, listVars
  <1>1. /\ UNCHANGED <<accountVars, storeVars, mode, more, relist, listed, listVars>>
        /\ \/ /\ pc = "email state" /\ pc' = "mailbox state"
              /\ target' = [target EXCEPT !.email = EmailState]
           \/ /\ pc = "mailbox state" /\ target' = [target EXCEPT !.mailbox = MailboxState]
              /\ pc' = IF mode = "sync" /\ more THEN "email changes" ELSE "list"
    BY DEF ReadEmailState, ReadMailboxState
  <1>2. /\ TypeOK /\ AccountInv /\ ControlInv /\ StatesInv /\ CatchUpInv
        /\ pc # "idle" /\ pc' \in {"mailbox state", "email changes", "list"}
    BY <1>1 DEF PassInv
  <1>3. /\ target' \in State /\ target \in State
        /\ pc = "email state" => target'.email = EmailState /\ target'.mailbox = target.mailbox
        /\ pc # "email state" => target'.mailbox = MailboxState /\ target'.email = target.email
    BY <1>1, <1>2, StatesOfTheAccount DEF TypeOK, State
  <1>4. TypeOK' /\ AccountInv' /\ ControlInv'
    <2>1. TypeOK'
      BY <1>1, <1>2, <1>3 DEF TypeOK
    <2>2. AccountInv'
      BY <1>1, <1>2 DEF AccountInv, Held
    <2>3. ControlInv'
      BY <1>1, <1>2 DEF ControlInv, NoMetas
    <2> QED
      BY <2>1, <2>2, <2>3
  <1>5. StatesInv'
    <2>1. /\ target'.email <= now /\ target'.mailbox <= now
          /\ \E m \in Msg : target'.email <= mailAt[m]
          /\ mode = "sync" => target'.email = target.email
      <3>1. CASE pc = "email state"
        <4>1. \E m \in Msg : EmailState <= mailAt[m]
          BY <1>2, StatesOfTheAccount, TimesAreNumbers
        <4> QED
          BY <1>2, <1>3, <3>1, <4>1, StatesOfTheAccount DEF StatesInv, ControlInv
      <3>2. CASE pc # "email state"
        BY <1>2, <1>3, <3>2, StatesOfTheAccount DEF StatesInv
      <3> QED
        BY <3>1, <3>2
    <2> QED
      BY <1>1, <1>2, <2>1 DEF StatesInv, NoMetas
  <1>6. CatchUpInv'
    <2> SUFFICES ASSUME mode = "sync" PROVE CatchUpInv'
      BY <1>1 DEF CatchUpInv
    <2>1. target'.email = target.email /\ pc = "mailbox state"
      BY <1>1, <1>2, <1>3 DEF ControlInv
    <2>2. relist
      BY <1>2, <2>1 DEF ControlInv
    <2> QED
      BY <1>1, <1>2, <2>1, <2>2 DEF CatchUpInv
  <1> QED
    BY <1>1, <1>2, <1>4, <1>5, <1>6, CoveredStays, NothingListedYet DEF PassInv

-----------------------------------------------------------------------------
(* A catch-up is told of changes.                                           *)

\* A page of Email/changes: what it covers is to be got or is gone, and none of
\* it is covered already (sync.rs run).
LEMMA EmailChangesPassInv ==
    ASSUME PassInv, NEW upto \in Time, NEW silent \in SUBSET Msg, EmailChanges(upto, silent)
    PROVE  PassInv'
  <1> USE DEF accountVars, storeVars
  <1> DEFINE page == ChangedIn(mailAt, target.email, upto)
             gone == {m \in page \ silent : mails[m] = None}
  <1>1. /\ pc = "email changes" /\ pc' = "mailbox changes"
        /\ upto \in Between(target.email, EmailState, mailAt)
        /\ destroyed' = destroyed \cup gone /\ ids' = (ids \cup page) \ (destroyed' \cup silent)
        /\ \A m \in silent : mails[m] = None
        /\ omitted' = omitted \cup (silent \cap Held(held))
        /\ target' = [target EXCEPT !.email = upto] /\ more' \in BOOLEAN
        /\ UNCHANGED <<accountVars, cursor, dirs, held, filed, left, mode, relist, listed,
                       seen, metas>>
    <2>1. more' = (upto < EmailState)
      BY DEF EmailChanges
    <2>2. more' \in BOOLEAN
      BY <2>1
    <2> QED
      BY <2>2 DEF EmailChanges, Transient
  <1>2. /\ TypeOK /\ AccountInv /\ ControlInv /\ StatesInv /\ CatchUpInv
        /\ mode = "sync" /\ cursor # None /\ cursor.email <= target.email
        /\ seen = {} /\ listed = None /\ metas = NoMetas
    BY <1>1 DEF PassInv, ControlInv, StatesInv
  <1>3. /\ now \in Nat /\ cursor.email \in Nat /\ target.email \in Nat /\ upto \in Nat
        /\ EmailState \in Nat /\ \A m \in Msg : mailAt[m] \in Nat
        /\ page = {m \in Msg : target.email < mailAt[m] /\ mailAt[m] <= upto}
    <2>1. DOMAIN mailAt = Msg
      BY <1>2 DEF TypeOK
    <2> QED
      BY <1>2, <2>1, TimesAreNumbers, StatesOfTheAccount, SizeAssumption DEF ChangedIn, Time
  <1>4. /\ target.email <= upto /\ upto <= now
        /\ \E m \in Msg : upto <= mailAt[m]
    <2>1. /\ target.email <= EmailState /\ EmailState <= now
          /\ \E m \in Msg : EmailState <= mailAt[m]
      <3>1. PICK m \in Msg : target.email <= mailAt[m]
        BY <1>2 DEF StatesInv
      <3>2. mailAt[m] <= EmailState /\ EmailState <= now
        BY <1>2, StatesOfTheAccount
      <3>3. \E n \in Msg : EmailState <= mailAt[n]
        BY <1>2, <1>3, StatesOfTheAccount
      <3> QED
        BY <1>3, <3>1, <3>2, <3>3
    <2>2. CASE upto = EmailState
      BY <2>1, <2>2
    <2>3. CASE \E m \in Msg : upto = mailAt[m] /\ target.email < mailAt[m]
      BY <1>2, <1>3, <2>3 DEF AccountInv
    <2> QED
      BY <1>1, <1>2, <2>2, <2>3 DEF Between, TypeOK
  <1>5. /\ target' \in State /\ target'.email = upto /\ target'.mailbox = target.mailbox
    BY <1>1, <1>2 DEF TypeOK, State
  <1> HIDE DEF page
  <1>6. page \subseteq Msg /\ \A m \in page : target.email < mailAt[m]
    BY <1>3
  <1>7. TypeOK' /\ AccountInv' /\ ControlInv'
    <2>1. TypeOK'
      BY <1>1, <1>2, <1>5, <1>6 DEF TypeOK
    <2>2. AccountInv'
      BY <1>1, <1>2 DEF AccountInv
    <2>3. ControlInv'
      BY <1>1, <1>2 DEF ControlInv
    <2> QED
      BY <2>1, <2>2, <2>3
  <1>8. StatesInv'
    <2>1. cursor.email <= upto
      BY <1>2, <1>3, <1>4
    <2> QED
      BY <1>1, <1>2, <1>4, <1>5, <2>1 DEF StatesInv
  <1>9. CatchUpInv'
    <2>1. \A m \in ids' \cup destroyed' \cup Held(metas') : cursor.email < mailAt[m]
      <3>1. \A m \in page : cursor.email < mailAt[m]
        BY <1>2, <1>3, <1>6
      <3>2. \A m \in ids \cup destroyed \cup Held(metas) : cursor.email < mailAt[m]
        BY <1>1, <1>2 DEF CatchUpInv
      <3> QED
        BY <1>1, <3>1, <3>2
    <2>2. \A m \in destroyed' : mails[m] = None /\ mailAt[m] # 0
      <3>1. \A m \in gone : mails[m] = None /\ mailAt[m] # 0
        BY <1>3, <1>6
      <3> QED
        BY <1>1, <1>2, <3>1 DEF CatchUpInv
    <2>3. ASSUME NEW m \in Msg, cursor.email < mailAt[m], mailAt[m] <= upto
          PROVE  IF mails[m] = None THEN m \in destroyed' \/ m \in omitted' \/ held[m] = None
                 ELSE m \in ids' \/ metas[m] = mails[m]
      <3>1. mailAt[m] <= target.email \/ m \in page
        BY <1>3, <2>3 DEF page
      <3>2. CASE m \in page
        <4>1. mails[m] # None => m \notin destroyed' /\ m \notin silent
          BY <1>1, <2>2
        <4>2. m \in silent => m \in omitted' \/ held[m] = None
          BY <1>1, <1>2 DEF Held, TypeOK, Metas
        <4> QED
          BY <1>1, <3>2, <4>1, <4>2
      <3>3. CASE mailAt[m] <= target.email
        <4>1. IF mails[m] = None THEN m \in destroyed \/ m \in omitted \/ held[m] = None
              ELSE m \in ids \/ metas[m] = mails[m]
          BY <1>1, <1>2, <2>3, <3>3 DEF CatchUpInv
        <4>2. mails[m] # None => m \notin destroyed' /\ m \notin silent
          BY <1>1, <2>2
        <4> QED
          BY <1>1, <4>1, <4>2
      <3> QED
        BY <3>1, <3>2, <3>3
    <2>4. ~relist => \A b \in Box : boxAt[b] <= target.mailbox => boxAt[b] <= cursor.mailbox
      BY <1>1, <1>2 DEF CatchUpInv
    <2>5. ASSUME NEW m \in ids' \cup Held(metas'), mails[m] = None PROVE upto < mailAt[m]
      <3>1. m \in ids' /\ m \notin destroyed' /\ m \notin silent
        BY <1>1, <1>2, <2>5 DEF Held, NoMetas
      <3>2. m \notin page /\ m \in ids /\ m \in Msg
        BY <1>1, <1>2, <2>5, <3>1 DEF TypeOK
      <3>3. target.email < mailAt[m]
        BY <1>1, <1>2, <2>5, <3>2 DEF CatchUpInv
      <3> QED
        BY <1>3, <3>2, <3>3 DEF page
    <2> QED
      BY <1>1, <1>5, <2>1, <2>2, <2>3, <2>4, <2>5 DEF CatchUpInv
  <1> QED
    BY <1>1, <1>7, <1>8, <1>9, CoveredStays, NothingListedYet DEF PassInv

\* cannotCalculateChanges: nothing that was collected is kept.
LEMMA StateTooOldPassInv ==
    ASSUME PassInv, StateTooOld
    PROVE  PassInv'
  <1> USE DEF accountVars, storeVars
  <1>1. /\ pc = "email changes" /\ mode' = "reconcile" /\ pc' = "email state"
        /\ ids' = {} /\ destroyed' = {} /\ more' = FALSE /\ relist' = FALSE
        /\ UNCHANGED <<accountVars, storeVars, target, listed, seen, metas>>
    BY DEF StateTooOld
  <1>2. TypeOK' /\ AccountInv' /\ ControlInv' /\ StatesInv'
    <2>1. TypeOK'
      BY <1>1 DEF PassInv, TypeOK
    <2>2. AccountInv' /\ ControlInv'
      BY <1>1 DEF PassInv, AccountInv, ControlInv
    <2>3. StatesInv'
      BY <1>1 DEF PassInv, StatesInv
    <2> QED
      BY <2>1, <2>2, <2>3
  <1>3. CatchUpInv'
    BY <1>1 DEF CatchUpInv
  <1> QED
    BY <1>1, <1>2, <1>3, CoveredStays, NothingListedYet DEF PassInv

\* When no mailbox has changed since the cursor, those that the store knows are
\* all there are (jmap/mod.rs changes: mailboxes_changed).
LEMMA NoRelistNeeded ==
    ASSUME TypeOK, AccountInv, CoveredInv, cursor # None,
           \A b \in Box : boxAt[b] <= cursor.mailbox
    PROVE  Held(boxes) \subseteq Held(dirs)
  BY DEF TypeOK, Mailboxes, CoveredInv, CoveredMailboxes, Held

\* A page of Mailbox/changes: a mailbox that changed is not missed.
LEMMA MailboxChangesPassInv ==
    ASSUME PassInv, NEW upto \in Time, MailboxChanges(upto)
    PROVE  PassInv'
  <1> USE DEF accountVars, storeVars, listVars
  <1>1. /\ pc = "mailbox changes" /\ upto \in Between(target.mailbox, MailboxState, boxAt)
        /\ relist' = Relist(upto) /\ target' = [target EXCEPT !.mailbox = upto]
        /\ pc' = IF upto < MailboxState THEN "mailbox changes"
                 ELSE IF more THEN "email changes" ELSE IF relist' THEN "list" ELSE "get"
        /\ UNCHANGED <<accountVars, storeVars, mode, more, listed, listVars>>
    BY DEF MailboxChanges
  <1>2. /\ TypeOK /\ AccountInv /\ ControlInv /\ StatesInv /\ CatchUpInv /\ CoveredInv
        /\ mode = "sync" /\ cursor # None /\ DOMAIN boxAt = Box
        /\ seen = {} /\ listed = None /\ metas = NoMetas
    BY <1>1 DEF PassInv, ControlInv, StatesInv, TypeOK
  <1>3. /\ now \in Nat /\ cursor.mailbox \in Nat /\ target.mailbox \in Nat /\ upto \in Nat
        /\ MailboxState \in Nat /\ MailboxState <= now /\ upto <= now
        /\ \A b \in Box : boxAt[b] \in Nat /\ boxAt[b] <= MailboxState
    <2>1. upto = MailboxState \/ \E b \in Box : upto = boxAt[b]
      BY <1>1, <1>2 DEF Between
    <2>2. \A b \in Box : boxAt[b] <= now
      BY <1>2 DEF AccountInv
    <2> QED
      BY <1>2, <2>1, <2>2, TimesAreNumbers, StatesOfTheAccount, SizeAssumption DEF Time
  <1>4. target' \in State /\ target'.mailbox = upto /\ target'.email = target.email
    BY <1>1, <1>2 DEF TypeOK, State
  <1>5. /\ relist => relist'
        /\ ~relist' => \A b \in Box : ~(target.mailbox < boxAt[b] /\ boxAt[b] <= upto)
        /\ relist' \in BOOLEAN
    BY <1>1, <1>2 DEF Relist, ChangedIn, TypeOK
  <1>6. ~relist' => \A b \in Box : boxAt[b] <= upto => boxAt[b] <= cursor.mailbox
    <2> SUFFICES ASSUME ~relist', NEW b \in Box, boxAt[b] <= upto
                 PROVE  boxAt[b] <= cursor.mailbox
      OBVIOUS
    <2>1. boxAt[b] <= target.mailbox
      BY <1>3, <1>5
    <2> QED
      BY <1>1, <1>2, <1>5, <2>1 DEF CatchUpInv
  <1>7. TypeOK' /\ AccountInv' /\ ControlInv' /\ StatesInv'
    <2>1. TypeOK'
      BY <1>1, <1>2, <1>4, <1>5 DEF TypeOK
    <2>2. AccountInv'
      BY <1>1, <1>2 DEF AccountInv
    <2>3. ControlInv'
      BY <1>1, <1>2, <1>5 DEF ControlInv
    <2>4. StatesInv'
      BY <1>1, <1>2, <1>3, <1>4 DEF StatesInv
    <2> QED
      BY <2>1, <2>2, <2>3, <2>4
  <1>8. CatchUpInv'
    <2>1. /\ \A m \in ids \cup destroyed \cup Held(metas) : cursor.email < mailAt[m]
          /\ \A m \in destroyed : mails[m] = None /\ mailAt[m] # 0
          /\ \A m \in Msg : cursor.email < mailAt[m] /\ mailAt[m] <= target.email =>
                IF mails[m] = None THEN m \in destroyed \/ m \in omitted \/ held[m] = None
                ELSE m \in ids \/ metas[m] = mails[m]
          /\ \A m \in ids \cup Held(metas) : mails[m] = None => target.email < mailAt[m]
      BY <1>1, <1>2 DEF CatchUpInv
    <2> QED
      BY <1>1, <1>4, <1>6, <2>1 DEF CatchUpInv
  <1>9. EnumerationInv'
    BY <1>1, <1>2 DEF EnumerationInv
  <1>10. ListInv'
    <2> SUFFICES ASSUME pc' = "get" PROVE ListInv'
      BY <1>1 DEF ListInv
    <2>1. ~relist' /\ ~(upto < MailboxState)
      BY <1>1
    <2>4. \A b \in Box : boxAt[b] <= upto
      BY <1>3, <2>1
    <2>2. Held(boxes) \subseteq Held(dirs)
      BY <1>2, <1>6, <2>1, <2>4, NoRelistNeeded
    <2>3. \A m \in Msg : mails[m] # None => mails[m] \subseteq Held(dirs)
      BY <1>2, <2>2 DEF AccountInv
    <2> QED
      BY <1>1, <1>2, <2>3 DEF ListInv
  <1> QED
    BY <1>1, <1>7, <1>8, <1>9, <1>10, CoveredStays DEF PassInv

\* When the Mailbox changes cannot be computed, the mailboxes are listed.
LEMMA MailboxStateTooOldPassInv ==
    ASSUME PassInv, MailboxStateTooOld
    PROVE  PassInv'
  <1> USE DEF accountVars, storeVars, listVars
  <1>1. /\ pc = "mailbox changes" /\ relist' = TRUE /\ pc' = "mailbox state"
        /\ UNCHANGED <<accountVars, storeVars, mode, target, more, listed, listVars>>
    BY DEF MailboxStateTooOld
  <1>2. TypeOK' /\ AccountInv' /\ ControlInv' /\ StatesInv'
    <2>1. TypeOK'
      BY <1>1 DEF PassInv, TypeOK
    <2>2. AccountInv' /\ ControlInv'
      BY <1>1 DEF PassInv, AccountInv, ControlInv
    <2>3. StatesInv'
      BY <1>1 DEF PassInv, StatesInv
    <2> QED
      BY <2>1, <2>2, <2>3
  <1>3. CatchUpInv'
    BY <1>1 DEF PassInv, CatchUpInv
  <1> QED
    BY <1>1, <1>2, <1>3, CoveredStays, NothingListedYet DEF PassInv

-----------------------------------------------------------------------------
(* A pass reads mailboxes and messages.                                     *)

\* The list is newer than either state, so it has every mailbox of what the
\* Email state covers (list_mailboxes).
LEMMA ListPassInv ==
    ASSUME PassInv, List
    PROVE  PassInv'
  <1> USE DEF accountVars, listVars
  <1>1. /\ pc = "list" /\ listed' = boxes
        /\ dirs' = IF mode = "sync" THEN dirs ELSE Upserted(dirs, boxes)
        /\ pc' = IF mode = "sync" THEN "get" ELSE "query"
        /\ UNCHANGED <<accountVars, cursor, held, filed, left, omitted, mode, target, more,
                       relist, listVars>>
    BY DEF List
  <1>2. /\ TypeOK /\ AccountInv /\ ControlInv /\ StatesInv /\ CatchUpInv /\ CoveredInv
        /\ seen = {} /\ metas = NoMetas /\ (mode # "sync" => ids = {})
        /\ boxes \in Mailboxes /\ dirs \in Mailboxes /\ boxes # None
    BY <1>1, CursorAssumption DEF PassInv, ControlInv, TypeOK
  <1>3. /\ dirs' \in Mailboxes /\ Held(dirs) \subseteq Held(dirs')
        /\ \A b \in Box : boxes[b] # None /\ dirs[b] = boxes[b] => dirs'[b] = boxes[b]
    BY <1>1, <1>2 DEF Upserted, Mailboxes, Held
  <1>4. TypeOK' /\ AccountInv' /\ ControlInv' /\ StatesInv'
    <2>1. TypeOK'
      BY <1>1, <1>2, <1>3 DEF TypeOK
    <2>2. AccountInv'
      BY <1>1, <1>2 DEF AccountInv
    <2>3. ControlInv'
      BY <1>1, <1>2 DEF ControlInv
    <2>4. StatesInv'
      BY <1>1, <1>2 DEF StatesInv
    <2> QED
      BY <2>1, <2>2, <2>3, <2>4
  <1>5. CoveredInv'
    <2> SUFFICES ASSUME cursor # None PROVE CoveredInv'
      BY <1>1 DEF CoveredInv
    <2>1. /\ \A m \in CoveredMessages \ omitted :
                /\ held[m] = mails[m]
                /\ held[m] # None /\ m \notin left => filed[m] = PrimaryDir(boxes, mails[m])
          /\ \A m \in CoveredMessages : mails[m] # None => mails[m] \subseteq Held(dirs')
      BY <1>2, <1>3 DEF CoveredInv
    <2>2. \A b \in CoveredMailboxes : boxes[b] # None => dirs'[b] = boxes[b]
      BY <1>2, <1>3 DEF CoveredInv, CoveredMailboxes
    <2>3. CoveredMessages' = CoveredMessages /\ CoveredMailboxes' = CoveredMailboxes
      BY <1>1 DEF CoveredMessages, CoveredMailboxes
    <2> QED
      BY <1>1, <2>1, <2>2, <2>3 DEF CoveredInv
  <1>6. CatchUpInv'
    BY <1>1, <1>2 DEF CatchUpInv
  <1>7. EnumerationInv'
    <2>1. mode # "sync" => ids = {} /\ Held(metas) = {} /\ pc' = "query"
      BY <1>1, <1>2 DEF Held, NoMetas
    <2> QED
      BY <1>1, <1>2, <2>1 DEF EnumerationInv
  <1>8. ListInv'
    <2>1. \A m \in Msg : mails[m] # None => mails[m] \subseteq Held(boxes)
      BY <1>2 DEF AccountInv
    <2> QED
      BY <1>1, <1>2, <2>1 DEF ListInv
  <1> QED
    BY <1>4, <1>5, <1>6, <1>7, <1>8 DEF PassInv

\* A page of the enumeration: at the end, what was not in any page is not there
\* or has changed since the Email state was read (query_page).
LEMMA QueryPassInv ==
    ASSUME PassInv, NEW page \in SUBSET Msg, Query(page)
    PROVE  PassInv'
  <1> USE DEF accountVars, storeVars
  <1>1. /\ pc = "query" /\ page \subseteq Held(mails) \ seen
        /\ page = {} => Held(mails) \subseteq seen
        /\ ids' = page /\ seen' = seen \cup page
        /\ pc' = IF page = {} THEN "apply" ELSE "get"
        /\ UNCHANGED <<accountVars, storeVars, mode, target, more, relist, listed,
                       destroyed, metas>>
    BY DEF Query
  <1>2. /\ TypeOK /\ AccountInv /\ ControlInv /\ StatesInv /\ EnumerationInv /\ ListInv
        /\ mode # "sync" /\ listed # None /\ ids = {} /\ seen \subseteq Msg
        /\ DOMAIN mails = Msg
    BY <1>1 DEF PassInv, ControlInv, TypeOK, Metas
  <1>3. TypeOK' /\ AccountInv' /\ ControlInv' /\ StatesInv'
    <2>1. TypeOK'
      BY <1>1, <1>2 DEF TypeOK
    <2>2. AccountInv'
      BY <1>1, <1>2 DEF AccountInv
    <2>3. ControlInv'
      BY <1>1, <1>2 DEF ControlInv
    <2>4. StatesInv'
      BY <1>1, <1>2 DEF StatesInv
    <2> QED
      BY <2>1, <2>2, <2>3, <2>4
  <1>4. CatchUpInv'
    BY <1>1, <1>2 DEF CatchUpInv
  <1>5. EnumerationInv'
    <2>1. \A m \in page : mails[m] # None
      BY <1>1 DEF Held
    <2>2. /\ Held(metas) \subseteq seen
          /\ \A m \in seen : mailAt[m] <= target.email =>
                mails[m] # None /\ metas[m] = mails[m]
      BY <1>1, <1>2 DEF EnumerationInv
    <2>3. pc' = "apply" => \A m \in Msg : mails[m] # None => m \in seen
      BY <1>1, <1>2 DEF Held
    <2> QED
      BY <1>1, <1>2, <2>1, <2>2, <2>3 DEF EnumerationInv
  <1>6. ListInv'
    BY <1>1, <1>2 DEF ListInv
  <1> QED
    BY <1>1, <1>3, <1>4, <1>5, <1>6, CoveredStays DEF PassInv

\* A chunk of messages: what was got is as it is now (get_message_chunk).
LEMMA GetPassInv ==
    ASSUME PassInv, NEW chunk \in SUBSET Msg, Get(chunk)
    PROVE  PassInv'
  <1> USE DEF accountVars, storeVars
  <1>1. /\ pc = "get" /\ chunk \subseteq ids
        /\ metas' = [m \in Msg |-> IF m \in chunk THEN mails[m] ELSE metas[m]]
        /\ ids' = ids \ chunk
        /\ pc' = IF ids' # {} THEN "get" ELSE IF mode = "sync" THEN "apply" ELSE "query"
        /\ UNCHANGED <<accountVars, storeVars, mode, target, more, relist, listed, seen,
                       destroyed>>
    BY DEF Get
  <1>2. /\ TypeOK /\ AccountInv /\ ControlInv /\ StatesInv /\ CatchUpInv /\ EnumerationInv
        /\ ListInv /\ mails \in Metas /\ metas \in Metas /\ ids \subseteq Msg
        /\ pc' \in {"get", "apply", "query"}
    BY <1>1 DEF PassInv, TypeOK
  <1>3. /\ metas' \in Metas
        /\ \A m \in Msg : metas'[m] = IF m \in chunk THEN mails[m] ELSE metas[m]
        /\ Held(metas') \subseteq Held(metas) \cup chunk
    BY <1>1, <1>2 DEF Metas, Held
  <1>4. TypeOK' /\ AccountInv' /\ ControlInv' /\ StatesInv'
    <2>1. TypeOK'
      BY <1>1, <1>2, <1>3 DEF TypeOK
    <2>2. AccountInv'
      BY <1>1, <1>2 DEF AccountInv
    <2>3. ControlInv'
      BY <1>1, <1>2 DEF ControlInv
    <2>4. StatesInv'
      BY <1>1, <1>2 DEF StatesInv
    <2> QED
      BY <2>1, <2>2, <2>3, <2>4
  <1>5. CatchUpInv'
    <2> SUFFICES ASSUME mode = "sync" PROVE CatchUpInv'
      BY <1>1 DEF CatchUpInv
    <2>1. /\ \A m \in ids \cup destroyed \cup Held(metas) : cursor.email < mailAt[m]
          /\ \A m \in destroyed : mails[m] = None /\ mailAt[m] # 0
          /\ \A m \in Msg : cursor.email < mailAt[m] /\ mailAt[m] <= target.email =>
                IF mails[m] = None THEN m \in destroyed \/ m \in omitted \/ held[m] = None
                ELSE m \in ids \/ metas[m] = mails[m]
          /\ \A m \in ids \cup Held(metas) : mails[m] = None => target.email < mailAt[m]
          /\ ~relist => \A b \in Box : boxAt[b] <= target.mailbox => boxAt[b] <= cursor.mailbox
      BY <1>1, <1>2 DEF CatchUpInv
    <2>2. \A m \in ids' \cup destroyed \cup Held(metas') : cursor.email < mailAt[m]
      BY <1>1, <1>3, <2>1
    <2>3. \A m \in Msg : m \in ids \/ metas[m] = mails[m] => m \in ids' \/ metas'[m] = mails[m]
      BY <1>1, <1>3
    <2>4. \A m \in ids' \cup Held(metas') : mails[m] = None => target.email < mailAt[m]
      BY <1>1, <1>3, <2>1
    <2> QED
      BY <1>1, <2>1, <2>2, <2>3, <2>4 DEF CatchUpInv
  <1>6. EnumerationInv'
    <2> SUFFICES ASSUME mode # "sync" PROVE EnumerationInv'
      BY <1>1 DEF EnumerationInv
    <2>1. /\ ids \subseteq seen /\ Held(metas) \subseteq seen /\ seen \subseteq Msg
          /\ \A m \in seen : mailAt[m] <= target.email =>
                mails[m] # None /\ (m \in ids \/ metas[m] = mails[m])
      BY <1>1, <1>2 DEF EnumerationInv, TypeOK
    <2>2. \A m \in Msg : m \in ids \/ metas[m] = mails[m] => m \in ids' \/ metas'[m] = mails[m]
      BY <1>1, <1>3
    <2>3. ids' \subseteq seen /\ Held(metas') \subseteq seen /\ pc' # "apply"
      BY <1>1, <1>3, <2>1
    <2> QED
      BY <1>1, <2>1, <2>2, <2>3 DEF EnumerationInv
  <1>7. ListInv'
    BY <1>1, <1>2 DEF ListInv
  <1> QED
    BY <1>1, <1>4, <1>5, <1>6, <1>7, CoveredStays DEF PassInv

-----------------------------------------------------------------------------
(* A pass files what it has read.                                           *)

\* After a catch-up, a message that its target covers is held as it is: it was
\* reported, or the cursor covered it already.
LEMMA CatchUpHolds ==
    ASSUME PassInv, Apply, mode = "sync", NEW m \in Msg, mailAt[m] <= target.email,
           m \notin omitted
    PROVE  /\ held'[m] = mails[m]
           /\ m \in Filed /\ mails[m] # None => metas[m] = mails[m]
           /\ m \notin Filed /\ m \notin left /\ held'[m] # None
                => filed[m] = PrimaryDir(boxes, mails[m])
  <1>1. /\ pc = "apply" /\ TypeOK /\ CoveredInv /\ CatchUpInv /\ cursor # None /\ ids = {}
        /\ Removed = destroyed /\ Filed = Held(metas) /\ DOMAIN metas = Msg
        /\ held'[m] = IF m \in Removed THEN None
                      ELSE IF m \in Filed THEN metas[m] ELSE held[m]
    BY DEF Apply, PassInv, StatesInv, ControlInv, Removed, Filed, TypeOK, Metas
  <1>2. mailAt[m] \in Nat /\ cursor.email \in Nat
    BY <1>1, TimesAreNumbers
  <1>3. CASE mailAt[m] <= cursor.email
    <2>1. m \notin destroyed /\ m \notin Held(metas)
      BY <1>1, <1>2, <1>3 DEF CatchUpInv
    <2> QED
      BY <1>1, <1>3, <2>1 DEF CoveredInv, CoveredMessages
  <1>4. CASE cursor.email < mailAt[m]
    <2>1. IF mails[m] = None
          THEN m \in destroyed \/ (held[m] = None /\ m \notin Held(metas))
          ELSE metas[m] = mails[m]
      <3>1. mails[m] = None => m \notin Held(metas)
        BY <1>1, <1>2, TimesAreNumbers DEF CatchUpInv
      <3> QED
        BY <1>1, <1>4, <3>1 DEF CatchUpInv
    <2>2. m \in destroyed => mails[m] = None
      BY <1>1 DEF CatchUpInv
    <2>3. CASE mails[m] = None
      BY <1>1, <2>1, <2>3 DEF Held
    <2>4. CASE mails[m] # None
      BY <1>1, <2>1, <2>2, <2>4 DEF Held
    <2> QED
      BY <2>3, <2>4
  <1> QED
    BY <1>2, <1>3, <1>4

\* After an enumeration, too: it has seen the message as it is, or the message
\* is not there, and then a reconciliation removes it.
LEMMA EnumerationHolds ==
    ASSUME PassInv, Apply, mode # "sync", NEW m \in Msg, mailAt[m] <= target.email
    PROVE  /\ held'[m] = mails[m]
           /\ m \in Filed => metas[m] = mails[m]
           /\ m \notin Filed /\ mode = "backfill" => held'[m] = None
  <1>1. /\ pc = "apply" /\ TypeOK /\ EnumerationInv /\ ids = {} /\ DOMAIN metas = Msg
        /\ DOMAIN held = Msg /\ mode \in {"backfill", "reconcile"}
        /\ held'[m] = IF m \in Removed THEN None
                      ELSE IF m \in Filed THEN metas[m] ELSE held[m]
    BY DEF Apply, PassInv, ControlInv, TypeOK, Metas
  <1>2. /\ mode = "backfill" => held[m] = None /\ Removed = {}
        /\ mode = "reconcile" => Removed = Held(held) \ Held(metas)
        /\ m \in Filed <=> m \in Held(metas) /\ held[m] # metas[m]
    BY <1>1 DEF PassInv, StatesInv, NoMetas, Removed, Filed
  <1>3. CASE m \in seen
    <2>1. mails[m] # None /\ metas[m] = mails[m]
      BY <1>1, <1>3 DEF EnumerationInv
    <2>2. m \in Held(metas)
      BY <1>1, <2>1 DEF Held
    <2> QED
      BY <1>1, <1>2, <2>1, <2>2
  <1>4. CASE m \notin seen
    <2>1. mails[m] = None /\ m \notin Held(metas)
      BY <1>1, <1>4 DEF EnumerationInv
    <2>2. m \notin Held(held) => held[m] = None
      BY <1>1 DEF Held
    <2> QED
      BY <1>1, <1>2, <2>1, <2>2
  <1> QED
    BY <1>3, <1>4

\* What a pass knows of the mailboxes while it files messages.
Known == IF listed = None THEN dirs ELSE Upserted(dirs, listed)

\* A mailbox that was listed, or is known when none were, is known.
LEMMA KnownMailboxes ==
    ASSUME TypeOK
    PROVE  /\ Known \in Mailboxes
           /\ Held(IF listed = None THEN dirs ELSE listed) \subseteq Held(Known)
           /\ listed # None => \A b \in Box : listed[b] # None => Known[b] = listed[b]
  <1>1. /\ dirs \in Mailboxes
        /\ listed # None => listed \in Mailboxes
    BY DEF TypeOK
  <1> QED
    BY <1>1 DEF Known, Upserted, Mailboxes, Held

\* The store after a pass vouches for all that the saved states cover
\* (sync.rs plan_message_changes, reconcile; engine/mod.rs apply_planned).
LEMMA ApplyCovers ==
    ASSUME PassInv, Apply
    PROVE  CoveredInv'
  <1> DEFINE occupied == {filed'[m] : m \in Held(held')}
  <1>1. /\ filed' = [m \in Msg |-> IF m \in Filed THEN PrimaryDir(Known, metas[m])
                                   ELSE IF held'[m] = None THEN Unfiled ELSE filed[m]]
        /\ dirs' = IF listed = None \/ mode = "backfill" THEN Known
                   ELSE [b \in Box |-> IF listed[b] = None /\ b \notin occupied
                                       THEN None ELSE Known[b]]
        /\ left' = {m \in Held(held') :
                      /\ m \in left \/ mode = "reconcile"
                      /\ m \notin Filed
                      /\ filed'[m] # PrimaryDir(Known, held'[m])}
        /\ cursor' = target /\ UNCHANGED accountVars /\ pc = "apply"
        /\ omitted' = IF mode = "sync" THEN omitted ELSE {}
        /\ held' = [m \in Msg |-> IF m \in Removed THEN None
                                  ELSE IF m \in Filed THEN metas[m] ELSE held[m]]
    BY DEF Apply, Known
  <1> HIDE DEF occupied
  <1>2. /\ TypeOK /\ AccountInv /\ ControlInv /\ CoveredInv /\ CatchUpInv /\ ListInv
        /\ mode \in {"backfill", "sync", "reconcile"}
        /\ UNCHANGED <<boxes, boxAt, mails, mailAt>>
    BY <1>1 DEF PassInv, TypeOK, accountVars
  <1>3. ASSUME NEW m \in Msg, mailAt[m] <= target.email, mails[m] # None
        PROVE  /\ mails[m] \subseteq Held(Known)
               /\ mails[m] \subseteq Held(dirs')
               /\ PrimaryDir(Known, mails[m]) = PrimaryDir(boxes, mails[m])
    <2>1. /\ mails[m] \subseteq Held(IF listed = None THEN dirs ELSE listed)
          /\ mails[m] \subseteq Held(boxes)
      BY <1>1, <1>2, <1>3 DEF ListInv, AccountInv
    <2>2. mails[m] \subseteq Held(Known)
      BY <1>2, <2>1, KnownMailboxes
    <2>3. mails[m] \subseteq Held(dirs')
      <3>1. CASE listed = None \/ mode = "backfill"
        BY <1>1, <2>2, <3>1
      <3>2. CASE ~(listed = None \/ mode = "backfill")
        <4>1. dirs' = [b \in Box |-> IF listed[b] = None /\ b \notin occupied
                                     THEN None ELSE Known[b]]
          BY <1>1, <3>2
        <4>2. ASSUME NEW b \in mails[m] PROVE b \in Held(dirs')
          <5>1. b \in Held(listed) /\ b \in Held(Known) /\ DOMAIN Known = Box
            BY <1>2, <2>1, <2>2, <3>2, KnownMailboxes DEF Mailboxes
          <5>2. listed[b] # None /\ Known[b] # None /\ b \in Box
            BY <5>1 DEF Held
          <5> QED
            BY <4>1, <5>2 DEF Held
        <4> QED
          BY <4>2
      <3> QED
        BY <3>1, <3>2
    <2> QED
      BY <2>1, <2>2, <2>3, SamePrimaryDir
  <1>4. ASSUME NEW m \in Msg, mailAt[m] <= target.email
        PROVE  m \notin omitted' =>
               /\ held'[m] = mails[m]
               /\ held'[m] # None /\ m \notin left' => filed'[m] = PrimaryDir(boxes, mails[m])
    <2> SUFFICES ASSUME m \notin omitted'
                 PROVE  /\ held'[m] = mails[m]
                        /\ held'[m] # None /\ m \notin left'
                             => filed'[m] = PrimaryDir(boxes, mails[m])
      OBVIOUS
    <2>0. mode = "sync" => m \notin omitted
      BY <1>1
    <2>1. /\ held'[m] = mails[m]
          /\ m \in Filed /\ mails[m] # None => metas[m] = mails[m]
          /\ m \notin Filed /\ m \notin left /\ held'[m] # None /\ mode # "reconcile"
               => filed[m] = PrimaryDir(boxes, mails[m])
      BY <1>2, <1>4, <2>0, CatchUpHolds, EnumerationHolds
    <2>2. SUFFICES ASSUME mails[m] # None, m \notin left'
                   PROVE  filed'[m] = PrimaryDir(boxes, mails[m])
      BY <2>1
    <2>3. CASE m \in Filed
      <3>1. filed'[m] = PrimaryDir(Known, metas[m])
        BY <1>1, <2>3
      <3> QED
        BY <1>3, <1>4, <2>1, <2>2, <2>3, <3>1
    <2>4. CASE m \notin Filed
      <3>1. filed'[m] = filed[m]
        BY <1>1, <2>1, <2>2, <2>4
      <3>2. m \in Held(held')
        BY <1>1, <2>1, <2>2 DEF Held
      <3>3. (m \notin left /\ mode # "reconcile") \/ filed'[m] = PrimaryDir(Known, held'[m])
        BY <1>1, <2>2, <2>4, <3>2
      <3> QED
        BY <1>3, <1>4, <2>1, <2>2, <2>4, <3>1, <3>3
    <2> QED
      BY <2>3, <2>4
  <1>5. ASSUME NEW b \in Box, boxAt[b] <= target.mailbox, boxes[b] # None
        PROVE  dirs'[b] = boxes[b]
    <2>1. CASE listed = None
      <3>1. mode = "sync" /\ ~relist /\ cursor # None
        BY <1>1, <1>2, <2>1 DEF ControlInv, PassInv, StatesInv
      <3>2. boxAt[b] <= cursor.mailbox
        BY <1>1, <1>2, <1>5, <3>1 DEF CatchUpInv
      <3>3. dirs' = dirs
        BY <1>1, <2>1 DEF Known
      <3> QED
        BY <1>2, <1>5, <3>1, <3>2, <3>3 DEF CoveredInv, CoveredMailboxes
    <2>2. CASE listed # None
      <3>1. listed[b] = boxes[b] /\ Known[b] = boxes[b]
        BY <1>1, <1>2, <1>5, <2>2, KnownMailboxes DEF ListInv
      <3>2. CASE mode = "backfill"
        BY <1>1, <3>1, <3>2
      <3>3. CASE mode # "backfill"
        BY <1>1, <1>5, <2>2, <3>1, <3>3
      <3> QED
        BY <3>2, <3>3
    <2> QED
      BY <2>1, <2>2
  <1>6. /\ CoveredMessages' = {m \in Msg : mailAt[m] <= target.email}
        /\ CoveredMailboxes' = {b \in Box : boxAt[b] <= target.mailbox}
    BY <1>1, <1>2 DEF CoveredMessages, CoveredMailboxes
  <1> QED
    BY <1>2, <1>3, <1>4, <1>5, <1>6 DEF CoveredInv

\* Saving the cursor ends the pass.
LEMMA ApplyPassInv ==
    ASSUME PassInv, Apply
    PROVE  PassInv'
  <1>1. /\ cursor' = target /\ pc' = "idle" /\ mode' = "sync" /\ target' = NoTarget
        /\ more' = FALSE /\ relist' = FALSE /\ listed' = None
        /\ ids' = {} /\ seen' = {} /\ destroyed' = {} /\ metas' = NoMetas
        /\ UNCHANGED <<now, boxes, boxAt, mails, mailAt, bornAt>>
    BY DEF Apply, accountVars
  <1>2. /\ TypeOK /\ AccountInv /\ StatesInv /\ target \in State /\ target # None
        /\ Known \in Mailboxes
    BY KnownMailboxes, CursorAssumption DEF PassInv, TypeOK
  <1>3. TypeOK'
    <2>1. held' \in Metas
      <3>1. held' = [m \in Msg |-> IF m \in Removed THEN None
                                   ELSE IF m \in Filed THEN metas[m] ELSE held[m]]
        BY DEF Apply
      <3> QED
        BY <1>2, <3>1 DEF TypeOK, Metas
    <2>2. filed' \in [Msg -> Box \cup {Unfiled}]
      <3>1. filed' = [m \in Msg |-> IF m \in Filed THEN PrimaryDir(Known, metas[m])
                                    ELSE IF held'[m] = None THEN Unfiled ELSE filed[m]]
        BY DEF Apply, Known
      <3>2. ASSUME NEW m \in Msg, m \in Filed PROVE metas[m] \in SUBSET Box
        BY <1>2, <3>2 DEF TypeOK, Metas, Meta, Filed, Held
      <3>3. \A m \in Msg : m \in Filed => PrimaryDir(Known, metas[m]) \in Box \cup {Unfiled}
        BY <3>2, PrimaryDirType
      <3>4. filed \in [Msg -> Box \cup {Unfiled}]
        BY <1>2 DEF TypeOK
      <3> QED
        BY <3>1, <3>3, <3>4
    <2>3. dirs' \in Mailboxes
      <3> DEFINE occupied == {filed'[m] : m \in Held(held')}
      <3>1. dirs' = IF listed = None \/ mode = "backfill" THEN Known
                    ELSE [b \in Box |-> IF listed[b] = None /\ b \notin occupied
                                        THEN None ELSE Known[b]]
        BY DEF Apply, Known
      <3> HIDE DEF occupied
      <3> QED
        BY <1>2, <3>1 DEF Mailboxes
    <2>4. left' \subseteq Msg /\ omitted' \subseteq Msg
      <3>1. left' \subseteq Held(held') /\ (omitted' = omitted \/ omitted' = {})
        BY DEF Apply
      <3> QED
        BY <1>2, <2>1, <3>1 DEF Held, Metas, TypeOK
    <2>5. NoTarget \in State /\ NoMetas \in Metas
      BY SizeAssumption DEF NoTarget, State, Time, NoMetas, Metas
    <2> QED
      BY <1>1, <1>2, <2>1, <2>2, <2>3, <2>4, <2>5 DEF TypeOK
  <1>4. AccountInv' /\ ControlInv'
    <2>1. AccountInv'
      BY <1>1, <1>2 DEF AccountInv
    <2>2. ControlInv'
      BY <1>1 DEF ControlInv
    <2> QED
      BY <2>1, <2>2
  <1>5. StatesInv'
    <2>1. \A m \in Msg : mailAt[m] \in Nat
      BY <1>2, TimesAreNumbers
    <2>2. now \in Nat
      BY <1>2, TimesAreNumbers
    <2>3. target.email <= now /\ target.mailbox <= now /\ \E m \in Msg : target.email <= mailAt[m]
      BY <1>2 DEF StatesInv
    <2>4. target'.email = 0 /\ target'.mailbox = 0 /\ \E m \in Msg : 0 <= mailAt[m]
      BY <1>1, <2>1, AccountAssumption DEF NoTarget
    <2> QED
      BY <1>1, <1>2, <2>2, <2>3, <2>4 DEF StatesInv
  <1>6. CatchUpInv' /\ EnumerationInv' /\ ListInv'
    BY <1>1 DEF CatchUpInv, EnumerationInv, ListInv
  <1> QED
    BY <1>3, <1>4, <1>5, <1>6, ApplyCovers DEF PassInv

-----------------------------------------------------------------------------
(* Every step.                                                              *)

\* PassInv is inductive.
LEMMA PassInvStep == PassInv /\ [Next]_vars => PassInv'
  <1> SUFFICES ASSUME PassInv, [Next]_vars PROVE PassInv'
    OBVIOUS
  <1>1. CASE \/ \E b \in Box, n \in Name : PutMailbox(b, n)
             \/ \E b \in Box : DestroyMailbox(b)
             \/ \E m \in Msg, x \in Meta : PutMessage(m, x)
             \/ \E m \in Msg : DestroyMessage(m)
    <2>1. TypeOK /\ AccountInv
      BY DEF PassInv
    <2>2. AccountMoves /\ TypeOK' /\ AccountInv'
      BY <1>1, <2>1, AccountChanges
    <2> QED
      BY <2>2, AccountPassInv
  <1>2. CASE \E refresh \in BOOLEAN : Begin(refresh)
    BY <1>2, BeginPassInv
  <1>3. CASE ReadEmailState \/ ReadMailboxState
    BY <1>3, StatePassInv
  <1>4. CASE \E upto \in Time, silent \in SUBSET Msg : EmailChanges(upto, silent)
    BY <1>4, EmailChangesPassInv
  <1>5. CASE \E upto \in Time : MailboxChanges(upto)
    BY <1>5, MailboxChangesPassInv
  <1>6. CASE StateTooOld
    BY <1>6, StateTooOldPassInv
  <1>7. CASE MailboxStateTooOld
    BY <1>7, MailboxStateTooOldPassInv
  <1>8. CASE List
    BY <1>8, ListPassInv
  <1>9. CASE \E page \in SUBSET Msg : Query(page)
    BY <1>9, QueryPassInv
  <1>10. CASE \E chunk \in SUBSET Msg : Get(chunk)
    BY <1>10, GetPassInv
  <1>11. CASE Apply
    BY <1>11, ApplyPassInv
  <1>12. CASE UNCHANGED vars
    <2>1. UNCHANGED <<accountVars, storeVars>> /\ UNCHANGED <<passVars>>
      BY <1>12 DEF vars
    <2>2. /\ UNCHANGED <<now, boxes, boxAt, mails, mailAt, bornAt>>
          /\ UNCHANGED <<cursor, dirs, held, filed, left, omitted>>
          /\ UNCHANGED <<pc, mode, target, more, relist, listed, ids, seen, destroyed, metas>>
      BY <2>1 DEF accountVars, storeVars, passVars, listVars
    <2>3. TypeOK' /\ AccountInv' /\ ControlInv'
      BY <2>2 DEF PassInv, TypeOK, AccountInv, ControlInv
    <2>4. StatesInv' /\ CatchUpInv' /\ EnumerationInv' /\ ListInv'
      BY <2>2 DEF PassInv, StatesInv, CatchUpInv, EnumerationInv, ListInv
    <2> QED
      BY <2>1, <2>2, <2>3, <2>4, CoveredStays DEF PassInv
  <1> QED
    BY <1>1, <1>2, <1>3, <1>4, <1>5, <1>6, <1>7, <1>8, <1>9, <1>10, <1>11, <1>12 DEF Next

\* PassInv holds throughout.
LEMMA PassInvAlways == Spec => []PassInv
  BY InitPassInv, PassInvStep, PTL DEF Spec

\* Every variable keeps its type, above all the requests of a pass and what it
\* has of the answers, for every account and every page and chunk size.
THEOREM PassTypes == Spec => []TypeOK
  <1>1. PassInv => TypeOK
    BY DEF PassInv
  <1> QED
    BY <1>1, PassInvAlways, PTL

\* The saved states vouch for no more than the store has: whatever changes while
\* a pass reads states, changes, mailboxes, pages and chunks, in whatever order
\* the server stops short of them, refuses to compute them or leaves out what came
\* and went (jmap/mod.rs connect, changes, get_messages; sync.rs run, reconcile).
\* What it left out of that may be held until the next reconciliation.
THEOREM SavedStatesAreCovered == Spec => []CursorCovers
  <1>1. PassInv => CursorCovers
    BY DEF PassInv, CoveredInv, CursorCovers
  <1> QED
    BY <1>1, PassInvAlways, PTL

=============================================================================
